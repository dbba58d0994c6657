----------------------------- MODULE MCListings -----------------------------
EXTENDS ListingProperties, TLC

Interchangeable == Permutations(Users)
=============================================================================
