---------------------------- MODULE MCOwnership ----------------------------
EXTENDS OwnershipProperties, TLC

Interchangeable ==
  Permutations(Users) \cup Permutations(Organizations)
    \cup Permutations(MembershipIds) \cup Permutations(Requests)
=============================================================================
