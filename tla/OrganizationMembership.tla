---------------------- MODULE OrganizationMembership ----------------------
(***************************************************************************)
(* Organizations, their memberships and the accounts behind them, as the   *)
(* API's concurrent requests change them through PostgreSQL.               *)
(*                                                                         *)
(* A request is a process: one step per SQL statement (with the local      *)
(* checks that follow it), because between two awaited statements any      *)
(* other request may run.  Statements run at READ COMMITTED: each sees     *)
(* what is committed when it runs.  A transaction keeps the row locks it   *)
(* takes in held[r] until its last step, which applies its writes and      *)
(* commits; this is exact because every row those writes touch is locked   *)
(* by then.  A statement outside a transaction commits by itself, and      *)
(* waits while another transaction holds a row it needs.                   *)
(***************************************************************************)
EXTENDS Naturals

CONSTANTS
  Users,           (* User rows that ever exist.                           *)
  Organizations,   (* Organization ids, never reused.                      *)
  MembershipIds,   (* Membership ids, never reused.  A bound.              *)
  Requests,        (* Requests being served at the same time.  A bound.    *)
  Operations,      (* The operations clients call.                         *)
  None             (* No row, no value.                                    *)

(* The pending invitation of an account to an organization, which a partial
   unique index makes the only one, named by the two.  Which invitations there
   are is in Invitations; here they are rows to lock, and a claim finds its
   row pending or not. *)
InvitationRows == Organizations \X Users

(* The unique key of a membership, which its INSERT holds before it commits. *)
MembershipKeys == Users \X Organizations

ASSUME RowsDistinct ==
  /\ Users \cap Organizations = {}
  /\ Users \cap MembershipIds = {}
  /\ Organizations \cap MembershipIds = {}
  /\ (InvitationRows \cup MembershipKeys)
       \cap (Users \cup Organizations \cup MembershipIds) = {}

Rows ==
  Users \cup Organizations \cup MembershipIds \cup InvitationRows \cup MembershipKeys

Roles == {"OWNER", "ADMIN", "MEMBER"}

Membership == [userId : Users, organizationId : Organizations, role : Roles]

ASSUME NoneIsNoValue ==
  None \notin Membership \cup Users \cup Organizations \cup MembershipIds \cup Roles

AllOperations ==
  {"create", "transferOwnership", "leave", "addMember", "acceptInvitation",
   "updateMemberRole", "removeMember", "remove", "deleteMe"}

ASSUME OperationsKnown == Operations \subseteq AllOperations

LEAVE_MAX_ATTEMPTS == 2

VARIABLES
  users,          (* The accounts that exist.                              *)
  organizations,  (* The life of each organization id.                     *)
  memberships,    (* Membership table: id -> committed row or None.        *)
  issued,         (* Membership ids the sequence has handed out.           *)
  req,            (* What each request is doing.                           *)
  held            (* The rows each open transaction has locked.            *)

vars == <<users, organizations, memberships, issued, req, held>>

tables == <<users, organizations, memberships, issued>>

(* A request's program counter and the values it carries across awaits. *)
Idle == [pc |-> "idle", user |-> None, org |-> None, operatorRole |-> None,
         target |-> None, peer |-> None, role |-> None, attempt |-> 0]

ProgramCounters ==
  {"idle", "create.lockUser", "create.commit",
   "transfer.lockUser", "transfer.lockOrganization",
   "transfer.lockMemberships", "transfer.commit",
   "leave.delete", "leave.check", "addMember.lookup", "accept.claim", "insert",
   "insert.user",
   "updateRole.read", "updateRole.write", "remove.read", "remove.write",
   "dissolve.invitations", "dissolve.memberships", "dissolve.commit",
   "account.lockUser", "account.check", "account.cancel", "account.commit"}

Request ==
  [pc : ProgramCounters, user : Users \cup {None}, org : Organizations \cup {None},
   operatorRole : Roles \cup {None}, target : MembershipIds \cup {None},
   peer : Users \cup {None}, role : {"ADMIN", "MEMBER", None},
   attempt : 0..LEAVE_MAX_ATTEMPTS]

TypeOK ==
  /\ users \subseteq Users
  /\ organizations \in [Organizations -> {"unissued", "live", "deleted"}]
  /\ memberships \in [MembershipIds -> Membership \cup {None}]
  /\ issued \subseteq MembershipIds
  /\ req \in [Requests -> Request]
  /\ held \in [Requests -> SUBSET Rows]

Init ==
  /\ users = Users
  /\ organizations = [o \in Organizations |-> "unissued"]
  /\ memberships = [id \in MembershipIds |-> None]
  /\ issued = {}
  /\ req = [r \in Requests |-> Idle]
  /\ held = [r \in Requests |-> {}]

-----------------------------------------------------------------------------
(* Queries on the committed tables. *)

Live(id) == memberships[id] # None

MembersOf(o) == {id \in MembershipIds : Live(id) /\ memberships[id].organizationId = o}

MembershipsOf(u) == {id \in MembershipIds : Live(id) /\ memberships[id].userId = u}

MembershipOf(u, o) == MembershipsOf(u) \cap MembersOf(o)

OwnersOf(o) == {id \in MembersOf(o) : memberships[id].role = "OWNER"}

HasRole(u, o, roles) == \E id \in MembershipOf(u, o) : memberships[id].role \in roles

At(r, pc) == req[r].pc = pc

(* Mutant: the transfer locks its own User row too, after the target's. *)
TransferNeedsBothUsers(r) ==
  LET q == req[r]
      target == {id \in {q.target} \cap MembershipIds : Live(id)} IN
    CASE q.pc = "transfer.lockUser" -> {memberships[id].userId : id \in target}
      [] q.pc = "transfer.lockOrganization" -> {q.org, q.user} \cap Rows
      [] q.pc = "transfer.lockMemberships" -> MembershipOf(q.user, q.org) \cup target
      [] OTHER -> {}

(* The locking order of transferOwnership: the target's User row, the
   Organization row, the two Membership rows. *)
TransferNeeds(r) ==
  LET q == req[r]
      target == {id \in {q.target} \cap MembershipIds : Live(id)} IN
    CASE q.pc = "transfer.lockUser" -> {memberships[id].userId : id \in target}
      [] q.pc = "transfer.lockOrganization" -> {q.org} \cap Organizations
      [] q.pc = "transfer.lockMemberships" -> MembershipOf(q.user, q.org) \cup target
      [] OTHER -> {}

(* The rows whose lock the next statement of r has to get, or that must not be
   locked by another transaction for it to proceed. An INSERT waits for whoever
   is inserting or deleting its unique key, an UPDATE or DELETE for the rows its
   WHERE matches. *)
Needs(r) ==
  LET q == req[r] IN
    CASE q.pc \in {"create.lockUser", "account.lockUser"} -> {q.user} \cap users
      [] q.pc = "leave.delete" ->
           {id \in MembershipOf(q.user, q.org) : memberships[id].role # "OWNER"}
      [] q.pc = "insert" -> ({q.peer} \X {q.org}) \cup MembershipOf(q.peer, q.org)
      [] q.pc = "insert.user" -> {}
      [] q.pc = "accept.claim" -> {q.org} \X {q.peer}
      [] q.pc \in {"updateRole.write", "remove.write"} ->
           {id \in {q.target} \cap MembershipIds : Live(id)}
      [] q.pc = "dissolve.invitations" -> {q.org} \X Users
      [] q.pc = "dissolve.memberships" -> MembersOf(q.org)
      [] q.pc = "dissolve.commit" -> {q.org} \cap Organizations
      [] q.pc = "account.cancel" -> Organizations \X {q.user}
      [] q.pc = "account.commit" -> MembershipsOf(q.user)
      [] OTHER -> TransferNeeds(r)

(* The foreign keys of an INSERT take FOR KEY SHARE on the rows they reference,
   a lock that inserts share: first on the Organization, then on the User, whose
   foreign key a later migration created anew. *)
References(r) ==
  CASE At(r, "insert") -> {req[r].org}
    [] At(r, "insert.user") -> {req[r].peer}
    [] OTHER -> {}

KeyShared(r) == IF At(r, "insert.user") THEN {req[r].org} ELSE {}

Blockers(r) ==
  {q \in Requests \ {r} : \/ held[q] \cap (Needs(r) \cup References(r)) # {}
                          \/ KeyShared(q) \cap Needs(r) # {}}

-----------------------------------------------------------------------------
(* Control of one request. *)

Begin(r, operation, request) ==
  /\ operation \in Operations
  /\ At(r, "idle")
  /\ req' = [req EXCEPT ![r] = request]
  /\ UNCHANGED <<tables, held>>

(* The next statement, still without an answer for the client. *)
Continue(r, request) ==
  /\ req' = [req EXCEPT ![r] = request]
  /\ UNCHANGED <<tables, held>>

Lock(r, request) ==
  /\ Blockers(r) = {}
  /\ held' = [held EXCEPT ![r] = @ \cup Needs(r)]
  /\ req' = [req EXCEPT ![r] = request]
  /\ UNCHANGED tables

(* The request is answered; an open transaction ends and its locks go. *)
Answer(r) ==
  /\ req' = [req EXCEPT ![r] = Idle]
  /\ held' = [held EXCEPT ![r] = {}]

Reject(r) == Answer(r) /\ UNCHANGED tables

(* The sequence's next id is any unused one: no property depends on order.
   An INSERT fails when the ids of the model are used up. *)
FreshIds == MembershipIds \ issued

FreshOrganizations == {o \in Organizations : organizations[o] = "unissued"}

InsertMembership(id, u, o, role) ==
  /\ issued' = issued \cup {id}
  /\ memberships' =
       [memberships EXCEPT ![id] = [userId |-> u, organizationId |-> o, role |-> role]]

DeleteMemberships(ids) ==
  memberships' = [id \in MembershipIds |-> IF id \in ids THEN None ELSE memberships[id]]

-----------------------------------------------------------------------------
(* POST /organizations *)

StartCreate(r, u) ==
  /\ u \in users
  /\ Begin(r, "create", [Idle EXCEPT !.pc = "create.lockUser", !.user = u])

CreateLockUser(r) ==
  /\ At(r, "create.lockUser")
  /\ \/ req[r].user \in users /\ Lock(r, [req[r] EXCEPT !.pc = "create.commit"])
     \/ req[r].user \notin users /\ Reject(r)

CreateCommit(r) ==
  /\ At(r, "create.commit")
  /\ \/ /\ \E o \in FreshOrganizations, id \in FreshIds :
             /\ organizations' = [organizations EXCEPT ![o] = "live"]
             /\ InsertMembership(id, req[r].user, o, "OWNER")
        /\ Answer(r)
        /\ UNCHANGED users
     \/ (FreshOrganizations = {} \/ FreshIds = {}) /\ Reject(r)

-----------------------------------------------------------------------------
(* POST /organizations/{id}/transfer-ownership *)

StartTransfer(r, u, o, t) ==
  /\ HasRole(u, o, {"OWNER"})
  /\ Begin(r, "transferOwnership",
           [Idle EXCEPT !.pc = "transfer.lockUser", !.user = u, !.org = o, !.target = t])

TransferLockUser(r) ==
  LET t == req[r].target IN
  /\ At(r, "transfer.lockUser")
  /\ \/ /\ Live(t)
        /\ Lock(r, [req[r] EXCEPT !.pc = "transfer.lockOrganization",
                                  !.peer = memberships[t].userId])
     \/ ~Live(t) /\ Reject(r)

TransferLockOrganization(r) ==
  /\ At(r, "transfer.lockOrganization")
  /\ Blockers(r) = {}
  /\ \/ /\ organizations[req[r].org] = "live"
        /\ Lock(r, [req[r] EXCEPT !.pc = "transfer.lockMemberships"])
     \/ organizations[req[r].org] # "live" /\ Reject(r)

(* The locked rows decide, not what the middleware read. *)
Transferable(r) ==
  LET q == req[r] IN
  /\ HasRole(q.user, q.org, {"OWNER"})
  /\ Live(q.target)
  /\ memberships[q.target].organizationId = q.org
  /\ memberships[q.target].userId # q.user
  /\ memberships[q.target].userId = q.peer
  /\ memberships[q.target].role \in {"ADMIN", "MEMBER"}

TransferLockMemberships(r) ==
  /\ At(r, "transfer.lockMemberships")
  /\ Blockers(r) = {}
  /\ \/ Transferable(r) /\ Lock(r, [req[r] EXCEPT !.pc = "transfer.commit"])
     \/ ~Transferable(r) /\ Reject(r)

(* The rows the two conditional UPDATEs match. *)
Promoted(r) ==
  LET q == req[r] IN
  {id \in MembershipOf(q.peer, q.org) \cap {q.target} : memberships[id].role \in {"ADMIN", "MEMBER"}}

Demoted(r) == OwnersOf(req[r].org) \cap MembershipsOf(req[r].user)

(* Mutant: the former owner keeps the role. *)
TransferCommitPromoteOnly(r) ==
  /\ At(r, "transfer.commit")
  /\ memberships' = [id \in MembershipIds |->
                       IF id \in Promoted(r) THEN [memberships[id] EXCEPT !.role = "OWNER"]
                       ELSE memberships[id]]
  /\ Answer(r)
  /\ UNCHANGED <<users, organizations, issued>>

(* Both UPDATEs, or a rollback when either matches no row. *)
TransferCommit(r) ==
  /\ At(r, "transfer.commit")
  /\ memberships' =
       IF Promoted(r) # {} /\ Demoted(r) # {}
       THEN [id \in MembershipIds |->
               IF id \in Promoted(r) THEN [memberships[id] EXCEPT !.role = "OWNER"]
               ELSE IF id \in Demoted(r) THEN [memberships[id] EXCEPT !.role = "ADMIN"]
               ELSE memberships[id]]
       ELSE memberships
  /\ Answer(r)
  /\ UNCHANGED <<users, organizations, issued>>

-----------------------------------------------------------------------------
(* DELETE /organizations/{id}/members/me *)

StartLeave(r, u, o) ==
  /\ HasRole(u, o, Roles)
  /\ Begin(r, "leave", [Idle EXCEPT !.pc = "leave.delete", !.user = u, !.org = o])

(* Mutant: the DELETE does not look at the role. *)
LeaveDeleteAnyRole(r) ==
  /\ At(r, "leave.delete")
  /\ Blockers(r) = {}
  /\ DeleteMemberships(MembershipOf(req[r].user, req[r].org))
  /\ Answer(r)
  /\ UNCHANGED <<users, organizations, issued>>

(* Mutant: the attempts are not counted. *)
LeaveDeleteUncounted(r) ==
  /\ At(r, "leave.delete")
  /\ Blockers(r) = {}
  /\ \/ /\ Needs(r) # {}
        /\ DeleteMemberships(Needs(r))
        /\ Answer(r)
        /\ UNCHANGED <<users, organizations, issued>>
     \/ /\ Needs(r) = {}
        /\ Continue(r, [req[r] EXCEPT !.pc = "leave.check"])

(* deleteMany where the role is not OWNER: zero rows sends the request on. *)
LeaveDelete(r) ==
  /\ At(r, "leave.delete")
  /\ Blockers(r) = {}
  /\ \/ /\ Needs(r) # {}
        /\ DeleteMemberships(Needs(r))
        /\ Answer(r)
        /\ UNCHANGED <<users, organizations, issued>>
     \/ /\ Needs(r) = {}
        /\ Continue(r, [req[r] EXCEPT !.pc = "leave.check", !.attempt = @ + 1])

(* Mutant: nothing bounds the retries. *)
LeaveCheckUnbounded(r) ==
  /\ At(r, "leave.check")
  /\ \/ /\ HasRole(req[r].user, req[r].org, {"ADMIN", "MEMBER"})
        /\ Continue(r, [req[r] EXCEPT !.pc = "leave.delete"])
     \/ /\ ~HasRole(req[r].user, req[r].org, {"ADMIN", "MEMBER"})
        /\ Reject(r)

LeaveCheck(r) ==
  /\ At(r, "leave.check")
  /\ \/ /\ HasRole(req[r].user, req[r].org, {"ADMIN", "MEMBER"})
        /\ req[r].attempt < LEAVE_MAX_ATTEMPTS
        /\ Continue(r, [req[r] EXCEPT !.pc = "leave.delete"])
     \/ /\ \/ ~HasRole(req[r].user, req[r].org, {"ADMIN", "MEMBER"})
           \/ req[r].attempt = LEAVE_MAX_ATTEMPTS
        /\ Reject(r)

-----------------------------------------------------------------------------
(* POST /organizations/{id}/members, and the membership an accepted
   invitation inserts. *)

StartAddMember(r, u, o, v, role) ==
  /\ HasRole(u, o, IF role = "ADMIN" THEN {"OWNER"} ELSE {"OWNER", "ADMIN"})
  /\ Begin(r, "addMember",
           [Idle EXCEPT !.pc = "addMember.lookup", !.org = o, !.peer = v, !.role = role])

(* The account and the membership are read by two statements, here one step:
   Insert decides again whatever both of them saw. *)
AddMemberLookup(r) ==
  LET q == req[r] IN
  /\ At(r, "addMember.lookup")
  /\ \/ /\ q.peer \in users /\ MembershipOf(q.peer, q.org) = {}
        /\ Continue(r, [q EXCEPT !.pc = "insert"])
     \/ /\ q.peer \notin users \/ MembershipOf(q.peer, q.org) # {}
        /\ Reject(r)

(* What the service read before the transaction: a pending invitation, hence a
   live organization, for an account that is no member. *)
StartAcceptInvitation(r, v, o, role) ==
  /\ v \in users
  /\ organizations[o] = "live"
  /\ MembershipOf(v, o) = {}
  /\ Begin(r, "acceptInvitation",
           [Idle EXCEPT !.pc = "accept.claim", !.org = o, !.peer = v, !.role = role])

(* updateMany where the invitation is still pending: the claimed row stays
   locked while the INSERT waits. *)
AcceptClaim(r) ==
  /\ At(r, "accept.claim")
  /\ Blockers(r) = {}
  /\ \/ organizations[req[r].org] = "live" /\ Lock(r, [req[r] EXCEPT !.pc = "insert"])
     \/ Reject(r)

(* The foreign keys and the unique key decide at the moment of the INSERT, a
   statement of its own for addMember, the second of a transaction for accept. *)
Insertable(r) ==
  /\ req[r].peer \in users
  /\ organizations[req[r].org] = "live"
  /\ MembershipOf(req[r].peer, req[r].org) = {}
  /\ FreshIds # {}

(* The row is written and its Organization locked FOR KEY SHARE. *)
InsertRow(r) ==
  /\ At(r, "insert")
  /\ Blockers(r) = {}
  /\ \/ Insertable(r) /\ Lock(r, [req[r] EXCEPT !.pc = "insert.user"])
     \/ ~Insertable(r) /\ Reject(r)

(* Its User as well, and the commit: the account may have gone meanwhile. *)
InsertCommit(r) ==
  /\ At(r, "insert.user")
  /\ Blockers(r) = {}
  /\ \/ /\ Insertable(r)
        /\ \E id \in FreshIds : InsertMembership(id, req[r].peer, req[r].org, req[r].role)
        /\ Answer(r)
        /\ UNCHANGED <<users, organizations>>
     \/ ~Insertable(r) /\ Reject(r)

-----------------------------------------------------------------------------
(* PATCH and DELETE /organizations/{id}/members/{membershipId} *)

StartUpdateMemberRole(r, u, o, t, role, operatorRole) ==
  /\ operatorRole \in {"OWNER", "ADMIN"}
  /\ HasRole(u, o, {operatorRole})
  /\ Begin(r, "updateMemberRole",
           [Idle EXCEPT !.pc = "updateRole.read", !.org = o, !.target = t, !.role = role,
                        !.operatorRole = operatorRole])

(* What the service checks on the membership it has just read. *)
MayEdit(r) ==
  LET q == req[r] IN
  /\ Live(q.target)
  /\ memberships[q.target].organizationId = q.org
  /\ memberships[q.target].role # "OWNER"
  /\ q.operatorRole = "ADMIN" => memberships[q.target].role # "ADMIN"

UpdateRoleRead(r) ==
  /\ At(r, "updateRole.read")
  /\ LET allowed == MayEdit(r) /\ ~(req[r].operatorRole = "ADMIN" /\ req[r].role = "ADMIN") IN
     \/ allowed /\ Continue(r, [req[r] EXCEPT !.pc = "updateRole.write", !.operatorRole = None])
     \/ ~allowed /\ Reject(r)

(* update({where: {id}}): nothing of what was read is checked again. *)
UpdateRoleWrite(r) ==
  LET t == req[r].target IN
  /\ At(r, "updateRole.write")
  /\ Blockers(r) = {}
  /\ \/ /\ Live(t)
        /\ memberships' = [memberships EXCEPT ![t].role = req[r].role]
        /\ Answer(r)
        /\ UNCHANGED <<users, organizations, issued>>
     \/ ~Live(t) /\ Reject(r)

StartRemoveMember(r, u, o, t, operatorRole) ==
  /\ operatorRole \in {"OWNER", "ADMIN"}
  /\ HasRole(u, o, {operatorRole})
  /\ Begin(r, "removeMember",
           [Idle EXCEPT !.pc = "remove.read", !.org = o, !.target = t,
                        !.operatorRole = operatorRole])

RemoveRead(r) ==
  /\ At(r, "remove.read")
  /\ \/ MayEdit(r) /\ Continue(r, [req[r] EXCEPT !.pc = "remove.write", !.operatorRole = None])
     \/ ~MayEdit(r) /\ Reject(r)

RemoveWrite(r) ==
  LET t == req[r].target IN
  /\ At(r, "remove.write")
  /\ Blockers(r) = {}
  /\ \/ /\ Live(t)
        /\ DeleteMemberships({t})
        /\ Answer(r)
        /\ UNCHANGED <<users, organizations, issued>>
     \/ ~Live(t) /\ Reject(r)

-----------------------------------------------------------------------------
(* DELETE /organizations/{id} *)

StartRemove(r, u, o) ==
  /\ HasRole(u, o, {"OWNER"})
  /\ Begin(r, "remove", [Idle EXCEPT !.pc = "dissolve.invitations", !.user = u, !.org = o])

(* deleteMany on the invitations. One that is written after it makes the
   deletion fail on its foreign key (Abort). *)
DissolveInvitations(r) ==
  /\ At(r, "dissolve.invitations")
  /\ Lock(r, [req[r] EXCEPT !.pc = "dissolve.memberships"])

(* deleteMany on the memberships: the rows are locked, their deletion is seen
   by others only after the commit. *)
DissolveMemberships(r) ==
  /\ At(r, "dissolve.memberships")
  /\ Lock(r, [req[r] EXCEPT !.pc = "dissolve.commit"])

(* The foreign key refuses while a membership inserted meanwhile remains. *)
DissolveCommit(r) ==
  LET o == req[r].org
      deletable == organizations[o] = "live" /\ MembersOf(o) \subseteq held[r] IN
  /\ At(r, "dissolve.commit")
  /\ Blockers(r) = {}
  /\ \/ /\ deletable
        /\ organizations' = [organizations EXCEPT ![o] = "deleted"]
        /\ DeleteMemberships(held[r])
        /\ Answer(r)
        /\ UNCHANGED <<users, issued>>
     \/ ~deletable /\ Reject(r)

-----------------------------------------------------------------------------
(* DELETE /users/me *)

StartDeleteMe(r, u) ==
  /\ u \in users
  /\ Begin(r, "deleteMe", [Idle EXCEPT !.pc = "account.lockUser", !.user = u])

(* Mutant: the User row is read without FOR UPDATE. *)
AccountReadUser(r) ==
  /\ At(r, "account.lockUser")
  /\ \/ /\ req[r].user \in users
        /\ Continue(r, [req[r] EXCEPT !.pc = "account.check"])
     \/ Reject(r)

(* An unknown user and a wrong password both end the transaction here. *)
AccountLockUser(r) ==
  /\ At(r, "account.lockUser")
  /\ \/ req[r].user \in users /\ Lock(r, [req[r] EXCEPT !.pc = "account.check"])
     \/ Blockers(r) = {} /\ Reject(r)

(* The organizations of u that have no OWNER beside u. *)
SolelyOwnedBy(u) ==
  {o \in Organizations : /\ HasRole(u, o, {"OWNER"})
                         /\ OwnersOf(o) \subseteq MembershipsOf(u)}

AccountCheck(r) ==
  /\ At(r, "account.check")
  /\ \/ /\ SolelyOwnedBy(req[r].user) = {}
        /\ Continue(r, [req[r] EXCEPT !.pc = "account.cancel"])
     \/ SolelyOwnedBy(req[r].user) # {} /\ Reject(r)

(* updateMany on the pending invitations to the account's email. *)
AccountCancel(r) ==
  /\ At(r, "account.cancel")
  /\ Lock(r, [req[r] EXCEPT !.pc = "account.commit"])

(* user.delete cascades to the memberships. *)
AccountCommit(r) ==
  /\ At(r, "account.commit")
  /\ Blockers(r) = {}
  /\ users' = users \ {req[r].user}
  /\ DeleteMemberships(MembershipsOf(req[r].user))
  /\ Answer(r)
  /\ UNCHANGED <<organizations, issued>>

-----------------------------------------------------------------------------

(* A statement fails, the five-second transaction limit strikes, PostgreSQL
   picks the transaction as a deadlock victim, or the process stops: the
   database rolls back and the request is gone. *)
Abort(r) == ~At(r, "idle") /\ Reject(r)

Start(r) ==
  \/ \E u \in Users : StartCreate(r, u) \/ StartDeleteMe(r, u)
  \/ \E u \in Users, o \in Organizations : StartLeave(r, u, o) \/ StartRemove(r, u, o)
  \/ \E u \in Users, o \in Organizations, t \in MembershipIds : StartTransfer(r, u, o, t)
  \/ \E u, v \in Users, o \in Organizations, role \in {"ADMIN", "MEMBER"} :
       StartAddMember(r, u, o, v, role)
  \/ \E v \in Users, o \in Organizations, role \in {"ADMIN", "MEMBER"} :
       StartAcceptInvitation(r, v, o, role)
  \/ \E u \in Users, o \in Organizations, t \in MembershipIds, operatorRole \in Roles :
       \/ \E role \in {"ADMIN", "MEMBER"} :
            StartUpdateMemberRole(r, u, o, t, role, operatorRole)
       \/ StartRemoveMember(r, u, o, t, operatorRole)

Statement(r) ==
  \/ CreateLockUser(r) \/ CreateCommit(r)
  \/ TransferLockUser(r) \/ TransferLockOrganization(r)
  \/ TransferLockMemberships(r) \/ TransferCommit(r)
  \/ LeaveDelete(r) \/ LeaveCheck(r)
  \/ AddMemberLookup(r) \/ AcceptClaim(r) \/ InsertRow(r) \/ InsertCommit(r)
  \/ UpdateRoleRead(r) \/ UpdateRoleWrite(r)
  \/ RemoveRead(r) \/ RemoveWrite(r)
  \/ DissolveInvitations(r) \/ DissolveMemberships(r) \/ DissolveCommit(r)
  \/ AccountLockUser(r) \/ AccountCheck(r) \/ AccountCancel(r) \/ AccountCommit(r)

Next == \E r \in Requests : Start(r) \/ Statement(r) \/ Abort(r)

Spec == Init /\ [][Next]_vars
=============================================================================
