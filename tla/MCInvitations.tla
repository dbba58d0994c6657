--------------------------- MODULE MCInvitations ---------------------------
EXTENDS InvitationProperties, TLC

Interchangeable ==
  Permutations(Organizations) \cup Permutations(Emails) \cup Permutations(Users)
    \cup Permutations(Ids) \cup Permutations(Requests)
=============================================================================
