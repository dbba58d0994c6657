----------------------------- MODULE MCSessions -----------------------------
EXTENDS SessionProperties, TLC

Interchangeable ==
  Permutations(Users) \cup Permutations(Families)
    \cup Permutations(Tokens) \cup Permutations(Requests)
=============================================================================
