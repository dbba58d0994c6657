------------------------- MODULE RateLimitProperties -------------------------
(***************************************************************************)
(* What a fixed window guarantees about every interval of time.            *)
(***************************************************************************)
EXTENDS RateLimiter

Admissions(k, from, to) ==
  Cardinality({a \in admitted[k] : from <= a[1] /\ a[1] <= to})

(* However requests are spread over the boundary of two windows, no        *)
(* interval as long as a window admits twice the limit of a key (5 in 15   *)
(* minutes in README:757 can become 9, never 10).                          *)
LessThanTwiceTheLimit ==
  \A k \in Keys : Admissions(k, now - Window[k] + 1, now) < 2 * Limit[k]

Refused(k) == \/ CheckOne(k) /\ ~Allowed(store, k)
              \/ \E j \in Keys : /\ k \in Subjects /\ j \in Addresses /\ Allowed(store, j)
                                 /\ CheckBoth(j, k) /\ ~Allowed(store, k)
              \/ \E j \in Subjects : /\ k \in Addresses
                                     /\ CheckBoth(k, j) /\ ~Allowed(store, k)

(* A key is refused only after using up its limit within the last window:  *)
(* what it did before never counts. And retryAfterMs is honest: from the   *)
(* time a refusal named on, a key is only refused when as many requests as *)
(* the limit were admitted since then (utils/rateLimit:44-60).             *)
RefusalsJustified ==
  [][\A k \in Keys : Refused(k) =>
       /\ Admissions(k, now - Window[k] + 1, now) >= Limit[k]
       /\ retryAt[k] <= now => Admissions(k, retryAt[k], now) >= Limit[k]]_vars

(* A check leaves no expired entry of any key behind, so that the Map      *)
(* holds no more keys than were asked for within their windows             *)
(* (utils/rateLimit:36).                                                   *)
NoDeadKeysAfterCheck ==
  [][Asked => \A k \in Keys : store'[k] # None => store'[k].expiresAt > now]_vars
=============================================================================
