----------------------------- MODULE Ownership -----------------------------
(***************************************************************************)
(* What the API promises about who owns an organization: exactly one       *)
(* account does from its founding to its dissolution, ownership moves in   *)
(* one step, and an account that owns one cannot be closed.                *)
(***************************************************************************)
CONSTANTS Users, Organizations, Unfounded, Dissolved

VARIABLES
  accounts,  (* The accounts that exist.                                   *)
  owner      (* The account that owns each organization.                   *)

Init ==
  /\ accounts = Users
  /\ owner = [o \in Organizations |-> Unfounded]

Found(o, u) ==
  /\ owner[o] = Unfounded /\ u \in accounts
  /\ owner' = [owner EXCEPT ![o] = u]
  /\ UNCHANGED accounts

HandOver(o, v) ==
  /\ owner[o] \in accounts /\ v \in accounts \ {owner[o]}
  /\ owner' = [owner EXCEPT ![o] = v]
  /\ UNCHANGED accounts

Dissolve(o) ==
  /\ owner[o] \in accounts
  /\ owner' = [owner EXCEPT ![o] = Dissolved]
  /\ UNCHANGED accounts

CloseAccount(u) ==
  /\ u \in accounts
  /\ \A o \in Organizations : owner[o] # u
  /\ accounts' = accounts \ {u}
  /\ UNCHANGED owner

Next ==
  \/ \E o \in Organizations : Dissolve(o) \/ \E u \in Users : Found(o, u) \/ HandOver(o, u)
  \/ \E u \in Users : CloseAccount(u)

Spec == Init /\ [][Next]_<<accounts, owner>>
=============================================================================
