------------------------------ MODULE MCBrowser ------------------------------
EXTENDS BrowserProperties, TLC

Interchangeable == Permutations(Browsers) \cup Permutations(Exchanges) \cup Permutations(Families)
=============================================================================
