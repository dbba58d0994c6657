--------------------------- MODULE MCRateLimiter ---------------------------
EXTENDS RateLimitProperties, TLC

CONSTANTS ip, email

Limits == (ip :> 2) @@ (email :> 2)

Windows == (ip :> 2) @@ (email :> 3)
=============================================================================
