----------------------------- MODULE RateLimiter -----------------------------
(***************************************************************************)
(* createInMemoryRateLimiter: a Map from keys to a counter that expires a  *)
(* fixed window after its first use, and the endpoints that ask it.  check *)
(* runs without an await, so that all checks of one request are one step.  *)
(* Time passes in units of one millisecond; the wall clock never goes back.*)
(***************************************************************************)
EXTENDS Integers, FiniteSets

CONSTANTS
  Addresses,  (* Keys "...:ip:...".                                        *)
  Subjects,   (* Keys "...:email:..." and "...:user:...".                  *)
  Limit,      (* Admissions per window, for each key.                      *)
  Window,     (* Length of the window, for each key.                       *)
  MaxTime,    (* Bound on the time modelled.                               *)
  None        (* No entry.                                                 *)

Keys == Addresses \cup Subjects

Entry(k) == [count : 1..Limit[k], expiresAt : Nat]

ASSUME KeysDistinct == Addresses \cap Subjects = {}

ASSUME LimitsPositive ==
  /\ Limit \in [Keys -> Nat \ {0}]
  /\ Window \in [Keys -> Nat \ {0}]
  /\ \A k \in Keys : None \notin Entry(k)

VARIABLES
  now,       (* Date.now().                                                *)
  store,     (* The Map.                                                   *)
  admitted,  (* Admissions of each key since the process started: when,    *)
             (* and as which of its window.                                *)
  retryAt    (* When the last refusal of each key said to come back.       *)

vars == <<now, store, admitted, retryAt>>

TypeOK ==
  /\ now \in Nat
  /\ DOMAIN store = Keys
  /\ \A k \in Keys : /\ store[k] \in Entry(k) \cup {None}
                     /\ admitted[k] \subseteq Nat \X (1..Limit[k])
                     /\ retryAt[k] \in Nat
                     /\ store[k] # None => store[k].expiresAt <= now + Window[k]

Init ==
  /\ now = 0
  /\ store = [k \in Keys |-> None]
  /\ admitted = [k \in Keys |-> {}]
  /\ retryAt = [k \in Keys |-> 0]

-----------------------------------------------------------------------------

Expired(entry) == entry # None /\ entry.expiresAt <= now

(* The Map after sweepExpired, which check calls first. *)
Swept(map) == [k \in Keys |-> IF Expired(map[k]) THEN None ELSE map[k]]

(* Mutant: one more than the limit. *)
AllowedOneMore(map, k) ==
  LET entry == Swept(map)[k] IN entry # None => entry.count <= Limit[k]

Allowed(map, k) ==
  LET entry == Swept(map)[k] IN entry # None => entry.count < Limit[k]

(* Mutant: every admission opens a window of its own. *)
CountedAnew(map, k) ==
  LET swept == Swept(map) IN
  IF swept[k] = None
  THEN [swept EXCEPT ![k] = [count |-> 1, expiresAt |-> now + Window[k]]]
  ELSE IF Allowed(map, k)
  THEN [swept EXCEPT ![k] = [count |-> @.count + 1, expiresAt |-> now + Window[k]]]
  ELSE swept

(* Mutant: only the key that is asked for is swept. *)
CountedInPlace(map, k) ==
  LET swept == [map EXCEPT ![k] = IF Expired(@) THEN None ELSE @] IN
  IF swept[k] = None
  THEN [swept EXCEPT ![k] = [count |-> 1, expiresAt |-> now + Window[k]]]
  ELSE IF Allowed(map, k) THEN [swept EXCEPT ![k].count = @ + 1] ELSE swept

(* The Map after check(k). *)
Counted(map, k) ==
  LET swept == Swept(map) IN
  IF swept[k] = None
  THEN [swept EXCEPT ![k] = [count |-> 1, expiresAt |-> now + Window[k]]]
  ELSE IF Allowed(map, k) THEN [swept EXCEPT ![k].count = @ + 1] ELSE swept

(* What check returned for each of the keys: an admission or retryAfterMs. *)
Report(map, checked) ==
  /\ admitted' = [k \in Keys |->
       IF k \in checked /\ Allowed(map, k)
       THEN admitted[k] \cup {<<now, Counted(map, k)[k].count>>} ELSE admitted[k]]
  /\ retryAt' = [k \in Keys |->
       IF k \in checked /\ ~Allowed(map, k) THEN Swept(map)[k].expiresAt ELSE retryAt[k]]

(* Signup (address), sending a verification mail again (user), and a login
   or reset request whose address is unknown (email). *)
CheckOne(k) ==
  /\ store' = Counted(store, k)
  /\ Report(store, {k})
  /\ UNCHANGED now

(* Login and password reset request: a request refused for its address does
   not count for its email. *)
CheckBoth(address, email) ==
  /\ \/ /\ ~Allowed(store, address)
        /\ store' = Counted(store, address)
        /\ Report(store, {address})
     \/ /\ Allowed(store, address)
        /\ store' = Counted(Counted(store, address), email)
        /\ Report(store, {address, email})
  /\ UNCHANGED now

Tick ==
  /\ now < MaxTime
  /\ now' = now + 1
  /\ UNCHANGED <<store, admitted, retryAt>>

(* A new process has an empty Map. *)
Restart ==
  /\ store' = [k \in Keys |-> None]
  /\ admitted' = [k \in Keys |-> {}]
  /\ retryAt' = [k \in Keys |-> 0]
  /\ UNCHANGED now

Asked == \/ \E k \in Keys : CheckOne(k)
         \/ \E address \in Addresses, email \in Subjects : CheckBoth(address, email)

Next == Asked \/ Tick \/ Restart

Spec == Init /\ [][Next]_vars
=============================================================================
