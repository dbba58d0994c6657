------------------------------ MODULE MCTokens ------------------------------
EXTENDS TokenProperties, TLC

Interchangeable ==
  Permutations(Users) \cup Permutations(Hashes) \cup Permutations(Requests)
=============================================================================
