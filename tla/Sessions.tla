------------------------------ MODULE Sessions ------------------------------
(***************************************************************************)
(* What the API promises about a login session: at any time one token can  *)
(* renew it, each token renews it at most once, and a session that has     *)
(* ended is never renewed again.                                           *)
(***************************************************************************)
CONSTANTS Families, Tokens, Unopened, Ended

VARIABLES
  accepted,  (* The token that renews each session.                        *)
  spent      (* Tokens handed out so far.                                  *)

Init ==
  /\ accepted = [f \in Families |-> Unopened]
  /\ spent = {}

Alive == {f \in Families : accepted[f] \in Tokens}

HandOut(f, t) ==
  /\ t \in Tokens \ spent
  /\ accepted' = [accepted EXCEPT ![f] = t]
  /\ spent' = spent \cup {t}

Open(f, t) == accepted[f] = Unopened /\ HandOut(f, t)

Renew(f, t) == f \in Alive /\ HandOut(f, t)

(* Logging out ends one session, a new password all those of an account. *)
End(F) ==
  /\ F \subseteq Alive
  /\ accepted' = [f \in Families |-> IF f \in F THEN Ended ELSE accepted[f]]
  /\ UNCHANGED spent

Next ==
  \/ \E f \in Families, t \in Tokens : Open(f, t) \/ Renew(f, t)
  \/ \E F \in SUBSET Families : End(F)

Spec == Init /\ [][Next]_<<accepted, spent>>
=============================================================================
