------------------------ MODULE OwnershipProperties ------------------------
(***************************************************************************)
(* What the requests of OrganizationMembership keep true of the tables,    *)
(* and the fairness under which they are all answered.                     *)
(***************************************************************************)
EXTENDS OrganizationMembership

(* The database never holds two OWNER memberships of one organization,     *)
(* although no constraint of the schema says so: creation, transfer and    *)
(* the role edits have to see to it together.                              *)
AtMostOneOwner ==
  \A o \in Organizations : \A id1, id2 \in OwnersOf(o) : id1 = id2

(* A user belongs to an organization once, and every membership names an   *)
(* account and an organization that exist, whatever is deleted while an    *)
(* INSERT is on its way (the unique and foreign keys of schema.prisma).    *)
MembershipsConsistent ==
  \A id \in MembershipIds : Live(id) =>
    LET m == memberships[id] IN
      /\ m.userId \in users
      /\ organizations[m.organizationId] = "live"
      /\ MembershipOf(m.userId, m.organizationId) = {id}

(* Once transferOwnership has its locks, both conditional UPDATEs match:   *)
(* the OwnershipTransferConflictError path is never needed, because no     *)
(* other statement can touch the locked rows in between.                   *)
TransferRowsPinned ==
  \A r \in Requests : At(r, "transfer.commit") => Promoted(r) # {} /\ Demoted(r) # {}

(* A membership becomes OWNER only when, in the same step, the one that    *)
(* was OWNER of the same organization becomes ADMIN, and that one belongs  *)
(* to the user who asked for the transfer of this very membership.         *)
TransferMovesOwnership ==
  [][\A id \in MembershipIds :
       (/\ Live(id) /\ memberships[id].role # "OWNER"
        /\ Live(id)' /\ memberships'[id].role = "OWNER")
       => \E r \in Requests, old \in OwnersOf(memberships[id].organizationId) :
            /\ At(r, "transfer.commit") /\ req[r].target = id
            /\ memberships[old].userId = req[r].user
            /\ memberships' = [memberships EXCEPT ![old].role = "ADMIN", ![id].role = "OWNER"]]_vars

(* The account of an OWNER is never deleted: deleteAccount's check is not  *)
(* invalidated between the check and the delete, by a transfer to the user *)
(* or by an organization the user is creating.                             *)
OwnerKeepsAccount ==
  [][\A o \in Organizations, id \in MembershipIds :
       id \in OwnersOf(o) => memberships[id].userId \in users']_vars

(* Some request is about to write, by id alone, to a membership that was   *)
(* not OWNER when it read it.                                              *)
StaleWriteTo(o) ==
  \E r \in Requests : /\ req[r].pc \in {"updateRole.write", "remove.write"}
                      /\ req[r].target \in OwnersOf(o)

(* An organization that stays loses its last OWNER in one way only: by a   *)
(* role edit or a removal that read the membership before a transfer made  *)
(* it OWNER. Leaving, deleting an account and transferring never do.       *)
OwnerLostOnlyToStaleWrite ==
  [][\A o \in Organizations :
       (OwnersOf(o) # {} /\ organizations[o] = "live" /\ organizations'[o] = "live")
       => OwnersOf(o)' # {} \/ StaleWriteTo(o)]_vars

(* Every live organization has exactly one OWNER: holds when no role edit  *)
(* and no removal runs.                                                    *)
ExactlyOneOwner ==
  \A o \in Organizations :
    organizations[o] = "live" => \E id \in OwnersOf(o) : OwnersOf(o) = {id}

(* services/index.ts:182 says of updateMemberRole that a membership that is *)
(* OWNER cannot be the target. It does not hold: the role is checked when   *)
(* the membership is read, and written later by id alone.                   *)
OwnerRoleNotEditable ==
  [][\A r \in Requests :
       (At(r, "updateRole.write") /\ Live(req[r].target)
        /\ memberships[req[r].target].role = "OWNER" /\ req'[r] = Idle)
       => memberships' = memberships]_vars

-----------------------------------------------------------------------------
(* Waiting. *)

Waiting(S) == \A r \in S : Blockers(r) \cap S # {}

Dissolving(r) ==
  req[r].pc \in {"dissolve.invitations", "dissolve.memberships", "dissolve.commit"}

(* The INSERT of a membership waits for an account whose row the deletion   *)
(* of the account, or a transfer, has locked: the deletion then waits for   *)
(* an invitation that is being accepted, the transfer for the organization  *)
(* that an INSERT has locked through its foreign key.                       *)
InsertMeetsUserLock(r, q) ==
  /\ At(r, "insert.user") /\ q \in Blockers(r)
  /\ At(q, "account.cancel") \/ At(q, "transfer.lockOrganization")

(* Every circle of waiting requests contains the deletion of an             *)
(* organization, or the INSERT of a membership that waits for an account    *)
(* which the next request of the circle has locked: for deleteAccount and   *)
(* transferOwnership lock the User row first, accept and the foreign keys   *)
(* of the INSERT last.                                                      *)
DeadlockOnlyByDissolutionOrInsert ==
  \A S \in (SUBSET Requests) \ {{}} :
    Waiting(S) => \/ \E r \in S : Dissolving(r)
                  \/ \E r, q \in S : InsertMeetsUserLock(r, q)

Deadlocked(r) == \E S \in SUBSET Requests : r \in S /\ Waiting(S)

(* PostgreSQL queues the waiters of a row, so a statement that can run      *)
(* again and again does run, and its detector aborts a deadlocked waiter.   *)
Fairness ==
  \A r \in Requests : SF_vars(Statement(r)) /\ WF_vars(Deadlocked(r) /\ Abort(r))

FairSpec == Spec /\ Fairness

(* Every request is answered: no statement waits for ever, and leave does   *)
(* not go on retrying while transfers change the role under it.             *)
EveryRequestAnswered ==
  \A r \in Requests : ~At(r, "idle") ~> At(r, "idle")

-----------------------------------------------------------------------------
(* The refinement mapping: the owner is the user of the OWNER membership. *)

CONSTANTS Unfounded, Dissolved

ASSUME NoOwnerValues == {Unfounded, Dissolved} \cap Users = {} /\ Unfounded # Dissolved

OwnerOf(o) ==
  CASE organizations[o] = "unissued" -> Unfounded
    [] organizations[o] = "deleted" -> Dissolved
    [] organizations[o] = "live" ->
         IF OwnersOf(o) = {} THEN None ELSE memberships[CHOOSE id \in OwnersOf(o) : TRUE].userId

Owner == [o \in Organizations |-> OwnerOf(o)]

Abstract == INSTANCE Ownership WITH accounts <- users, owner <- Owner

(* Without role edits and removals the requests implement Ownership: every  *)
(* step is a founding, a hand-over, a dissolution, the closing of an        *)
(* account that owns nothing, or invisible.                                 *)
ImplementsOwnership == Abstract!Spec
=============================================================================
