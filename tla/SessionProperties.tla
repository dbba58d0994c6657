------------------------- MODULE SessionProperties -------------------------
(***************************************************************************)
(* What the requests of RefreshSessions keep true of login sessions.       *)
(***************************************************************************)
EXTENDS RefreshSessions

(* A family never has two tokens that could be rotated: the assumption     *)
(* findActiveSessionsByUserId relies on (shared/auth/repositories:99).     *)
OneActivePerFamily ==
  \A t1, t2 \in Unrevoked : tokens[t1].familyId = tokens[t2].familyId => t1 = t2

(* Tokens of the request's session and user that tokens' leaves valid.     *)
LeftValid(r) ==
  {t \in Tokens : /\ tokens'[t] # None /\ ~tokens'[t].revoked
                  /\ req[r].family \in {None, tokens'[t].familyId}
                  /\ req[r].user \in {None, tokens'[t].userId}}

(* Revoking a family (logout, the session list, reuse of a rotated token)  *)
(* ends the session unless the very token it saw was rotated while the     *)
(* UPDATE waited for it.                                                   *)
LogoutMissesOnlyRotation ==
  [][\A r \in Requests :
       (RevokeWrite(r) /\ req[r].family # None /\ req[r].seen \subseteq Unrevoked)
       => LeftValid(r) = {}]_vars

(* auth/services:326 says that a password change revokes all refresh tokens *)
(* so that every session logs in again.  It does not hold: the UPDATE does  *)
(* not see the row a rotation commits while it waits for the rotated one.   *)
PasswordChangeEndsSessions ==
  [][\A r \in Requests : PasswordWrite(r) => LeftValid(r) = {}]_vars

Waiting(S) == \A r \in S : Blockers(r) \cap S # {}

(* Everyone waits on everyone only while an account is being deleted: the  *)
(* deletion has the User row and cascades to the token a rotation holds,   *)
(* the rotation's INSERT needs the User row.                               *)
DeadlockOnlyWhileClosing ==
  \A S \in (SUBSET Requests) \ {{}} : Waiting(S) => \E r \in S : At(r, "account.commit")

-----------------------------------------------------------------------------
(* The refinement mapping: a session's token is the unrevoked one. *)

CONSTANTS Unopened, Ended

ASSUME NoTokenValues == {Unopened, Ended} \cap Tokens = {} /\ Unopened # Ended

AcceptedOf(f) ==
  CASE f \notin opened -> Unopened
    [] f \in opened /\ OfFamily(f) \cap Unrevoked = {} -> Ended
    [] OTHER -> CHOOSE t \in OfFamily(f) \cap Unrevoked : TRUE

Accepted == [f \in Families |-> AcceptedOf(f)]

Abstract == INSTANCE Sessions WITH accepted <- Accepted, spent <- issued

(* The requests implement Sessions: every step opens a session, renews a   *)
(* living one with a token never used before, ends some, or is invisible.  *)
ImplementsSessions == Abstract!Spec
=============================================================================
