---------------------------- MODULE Invitations ----------------------------
(***************************************************************************)
(* Invitations to an organization: created and cancelled by its admins,    *)
(* accepted or declined by whoever has the mailed link, expired lazily by  *)
(* the first who looks, and cancelled when the invited account is deleted. *)
(*                                                                         *)
(* As in RefreshSessions a request takes one step per SQL statement (reads *)
(* that decide on nothing between them are one step), and an UPDATE of a   *)
(* set of rows sees the rows committed when it started.  Members are those *)
(* who hold the invited emails; roles, and the operators who invite, are   *)
(* in OrganizationMembership.                                              *)
(***************************************************************************)
CONSTANTS
  Organizations,
  Emails,
  Users,       (* User rows that ever exist, never reused.  A bound.       *)
  Ids,         (* Invitation rows, each with its token.  A bound.          *)
  Requests,    (* Requests being served at the same time.  A bound.        *)
  None,        (* No row yet, no value.                                    *)
  Gone         (* The row was deleted; ids are not used again.             *)

Statuses == {"PENDING", "ACCEPTED", "EXPIRED", "CANCELED", "DECLINED"}

Invitation ==
  [organization : Organizations, email : Emails, status : Statuses,
   late : BOOLEAN, addressee : Users \cup {None}]

ASSUME NoneIsNoValue == 
  /\ None \notin Invitation \cup Users \cup Ids \cup Emails \cup Organizations
  /\ Gone \notin Invitation \cup {None}

ASSUME RowsDistinct ==
  Users \cap Ids = {} /\ Organizations \cap (Users \cup Ids) = {}

VARIABLES
  account,     (* The user of each email, or None.                         *)
  organizations,  (* Organization: those not deleted.                      *)
  members,     (* Membership: pairs of an organization and a user.         *)
  invitation,  (* Invitation table.  late: expiresAt is over.  addressee:  *)
               (* who had the email when the invitation was written.       *)
  registered,  (* User ids handed out.                                     *)
  req,         (* What each request is doing.                              *)
  held         (* The rows each open transaction has locked; an            *)
               (* organization stands for its memberships.                 *)

vars == <<account, organizations, members, invitation, registered, req, held>>

tables == <<account, organizations, members, invitation, registered>>

Idle ==
  [pc |-> "idle", email |-> None, organization |-> None, user |-> None,
   id |-> None, seen |-> {}]

ProgramCounters ==
  {"idle", "create.read", "create.insert", "cancel.read", "cancel.write",
   "accept.read", "accept.user", "accept.claim", "accept.insert",
   "decline.read", "decline.write", "expire.write",
   "join.read", "join.email", "join.claim", "join.insert",
   "register.read", "register.insert", "member.read", "member.insert",
   "account.lock", "account.scan", "account.cancel", "account.commit",
   "dissolve.invitations", "dissolve.members", "dissolve.commit"}

Request ==
  [pc : ProgramCounters, email : Emails \cup {None},
   organization : Organizations \cup {None}, user : Users \cup {None},
   id : Ids \cup {None}, seen : SUBSET (Ids \cup Users)]

Registered == {u \in Users : \E e \in Emails : account[e] = u}

(* The rows of the invitation table. *)
Existing == {i \in Ids : invitation[i] \notin {None, Gone}}

TypeOK ==
  /\ account \in [Emails -> registered \cup {None}]
  /\ organizations \subseteq Organizations
  /\ members \subseteq organizations \X registered
  /\ invitation \in [Ids -> Invitation \cup {None, Gone}]
  /\ \A i \in Existing : invitation[i].organization \in organizations
  /\ registered \subseteq Users
  /\ req \in [Requests -> Request]
  /\ held \in [Requests -> SUBSET (Users \cup Ids \cup Organizations)]
  /\ \A r \in Requests : req[r].pc = "idle" => req[r] = Idle /\ held[r] = {}

Init ==
  /\ account = [e \in Emails |-> None]
  /\ organizations = Organizations
  /\ members = {}
  /\ invitation = [i \in Ids |-> None]
  /\ registered = {}
  /\ req = [r \in Requests |-> Idle]
  /\ held = [r \in Requests |-> {}]

-----------------------------------------------------------------------------
(* Queries on the committed tables. *)

At(r, pc) == req[r].pc = pc

Pending == {i \in Existing : invitation[i].status = "PENDING"}

PendingFor(o, e) ==
  {i \in Pending : invitation[i].organization = o /\ invitation[i].email = e}

PendingTo(e) == {i \in Pending : invitation[i].email = e}

IsMember(o, u) == <<o, u>> \in members

InvitationsOf(o) == {i \in Existing : invitation[i].organization = o}

MembersOf(o) == {u \in Users : IsMember(o, u)}

OrganizationsOf(u) == {o \in organizations : IsMember(o, u)}

(* The foreign keys and the unique key of an INSERT into Membership. *)
Insertable(o, u) == o \in organizations /\ u \in Registered /\ ~IsMember(o, u)

(* The rows the next statement of r has to find unlocked. *)
Needs(r) ==
  LET q == req[r] IN
    CASE q.pc \in {"cancel.write", "decline.write", "expire.write",
                   "accept.claim", "join.claim"} -> {q.id} \cap Pending
      [] q.pc = "create.insert" -> PendingFor(q.organization, q.email)
      [] q.pc = "account.lock" -> {q.user} \cap Registered
      [] q.pc = "account.cancel" -> q.seen \cap Pending
      [] q.pc = "account.commit" -> OrganizationsOf(q.user)
      [] q.pc = "dissolve.invitations" -> InvitationsOf(q.organization)
      [] q.pc = "dissolve.members" -> {q.organization}
      [] q.pc \in {"accept.insert", "member.insert"} ->
           {q.user} \cup ({q.organization} \cap OrganizationsOf(q.user))
      [] q.pc \in {"join.insert", "register.insert"} -> {account[q.email]} \ {None}
      [] OTHER -> {}

Blockers(r) == {q \in Requests \ {r} : held[q] \cap Needs(r) # {}}

-----------------------------------------------------------------------------
(* Control of one request. *)

Begin(r, request) ==
  /\ At(r, "idle")
  /\ req' = [req EXCEPT ![r] = request]
  /\ UNCHANGED <<tables, held>>

Continue(r, request) ==
  /\ req' = [req EXCEPT ![r] = request]
  /\ UNCHANGED <<tables, held>>

Lock(r, pc) ==
  /\ Blockers(r) = {}
  /\ held' = [held EXCEPT ![r] = @ \cup Needs(r)]
  /\ req' = [req EXCEPT ![r].pc = pc]
  /\ UNCHANGED tables

(* Mutant: the connection goes back to the pool with its transaction open. *)
AnswerInTransaction(r) ==
  /\ req' = [req EXCEPT ![r] = Idle]
  /\ UNCHANGED held

(* The request is answered; an open transaction ends and its locks go. *)
Answer(r) ==
  /\ req' = [req EXCEPT ![r] = Idle]
  /\ held' = [held EXCEPT ![r] = {}]

Reject(r) == Answer(r) /\ UNCHANGED tables

WithStatus(ids, status) ==
  [i \in Ids |-> IF i \in ids THEN [invitation[i] EXCEPT !.status = status] ELSE invitation[i]]

(* Mutant: UPDATE ... WHERE id = ?, whatever the status is now. *)
SettleAnyStatus(r, status) ==
  /\ Blockers(r) = {}
  /\ invitation' = WithStatus({req[r].id}, status)
  /\ Answer(r)
  /\ UNCHANGED <<account, organizations, members, registered>>

(* UPDATE ... WHERE id = ? AND status = 'PENDING', outside a transaction. *)
Settle(r, status) ==
  /\ Blockers(r) = {}
  /\ invitation' = WithStatus({req[r].id} \cap Pending, status)
  /\ Answer(r)
  /\ UNCHANGED <<account, organizations, members, registered>>

-----------------------------------------------------------------------------
(* POST and DELETE /organizations/{id}/invitations *)

StartCreate(r, o, e) ==
  /\ o \in organizations
  /\ Begin(r, [Idle EXCEPT !.pc = "create.read", !.organization = o, !.email = e])

CreateRead(r) ==
  LET q == req[r]
      taken == PendingFor(q.organization, q.email) # {}
               \/ IsMember(q.organization, account[q.email]) IN
  /\ At(r, "create.read")
  /\ \/ ~taken /\ Continue(r, [q EXCEPT !.pc = "create.insert"])
     \/ taken /\ Reject(r)

Written(o, e) ==
  [organization |-> o, email |-> e, status |-> "PENDING", late |-> FALSE,
   addressee |-> account[e]]

(* Mutant: no partial unique index on the pending rows. *)
InsertTwice(r) ==
  LET q == req[r] IN
  /\ At(r, "create.insert")
  /\ Blockers(r) = {}
  /\ \/ /\ q.organization \in organizations
        /\ \E i \in {j \in Ids : invitation[j] = None} :
             invitation' = [invitation EXCEPT ![i] = Written(q.organization, q.email)]
        /\ Answer(r)
        /\ UNCHANGED <<account, organizations, members, registered>>
     \/ q.organization \notin organizations /\ Reject(r)

(* The partial unique index rejects a second pending row, the foreign key
   one of an organization that is gone. *)
CreateInsert(r) ==
  LET q == req[r]
      insertable == q.organization \in organizations /\ PendingFor(q.organization, q.email) = {} IN
  /\ At(r, "create.insert")
  /\ Blockers(r) = {}
  /\ \/ /\ insertable
        /\ \E i \in {j \in Ids : invitation[j] = None} :
             invitation' = [invitation EXCEPT ![i] = Written(q.organization, q.email)]
        /\ Answer(r)
        /\ UNCHANGED <<account, organizations, members, registered>>
     \/ ~insertable /\ Reject(r)

StartOn(r, pc, i) == i \in Existing /\ Begin(r, [Idle EXCEPT !.pc = pc, !.id = i])

StartCancel(r, i) == StartOn(r, "cancel.read", i)

CancelRead(r) ==
  /\ At(r, "cancel.read")
  /\ \/ req[r].id \in Pending /\ Continue(r, [req[r] EXCEPT !.pc = "cancel.write"])
     \/ req[r].id \notin Pending /\ Reject(r)

CancelWrite(r) == At(r, "cancel.write") /\ Settle(r, "CANCELED")

-----------------------------------------------------------------------------
(* findPendingValidInvitation, the common start of what a link can do. *)

FindPendingValid(r, next) ==
  LET i == req[r].id IN
  \/ i \notin Pending /\ Reject(r)
  \/ i \in Pending /\ invitation[i].late /\ Continue(r, [req[r] EXCEPT !.pc = "expire.write"])
  \/ /\ i \in Pending /\ ~invitation[i].late
     /\ Continue(r, [req[r] EXCEPT !.pc = next, !.email = invitation[i].email,
                                   !.organization = invitation[i].organization])

ExpireWrite(r) == At(r, "expire.write") /\ Settle(r, "EXPIRED")

StartDecline(r, i) == StartOn(r, "decline.read", i)

DeclineRead(r) == At(r, "decline.read") /\ FindPendingValid(r, "decline.write")

DeclineWrite(r) == At(r, "decline.write") /\ Settle(r, "DECLINED")

(* The first statement of the transactions that accept: PENDING -> ACCEPTED. *)
Claim(r, pc) ==
  \/ req[r].id \in Pending /\ Lock(r, pc)
  \/ req[r].id \notin Pending /\ Reject(r)

-----------------------------------------------------------------------------
(* POST /invitations/{token}/accept *)

StartAccept(r, i, u) ==
  /\ i \in Existing /\ u \in Registered
  /\ Begin(r, [Idle EXCEPT !.pc = "accept.read", !.id = i, !.user = u])

AcceptRead(r) == At(r, "accept.read") /\ FindPendingValid(r, "accept.user")

AcceptUser(r) ==
  LET q == req[r]
      addressed == account[q.email] = q.user /\ ~IsMember(q.organization, q.user) IN
  /\ At(r, "accept.user")
  /\ \/ addressed /\ Continue(r, [q EXCEPT !.pc = "accept.claim"])
     \/ ~addressed /\ Reject(r)

AcceptClaim(r) == At(r, "accept.claim") /\ Claim(r, "accept.insert")

(* Mutant: a violated unique key is swallowed inside the transaction. *)
AcceptInsertSwallowed(r) ==
  /\ At(r, "accept.insert")
  /\ Blockers(r) = {}
  /\ LET q == req[r] IN
     \/ /\ q.user \in Registered
        /\ members' = members \cup {<<q.organization, q.user>>}
        /\ invitation' = WithStatus({q.id}, "ACCEPTED")
        /\ Answer(r)
        /\ UNCHANGED <<account, organizations, registered>>
     \/ q.user \notin Registered /\ Reject(r)

(* A member already (unique key), no account or no organization any more
   (foreign keys): all of it is rolled back. *)
AcceptInsert(r) ==
  /\ At(r, "accept.insert")
  /\ Blockers(r) = {}
  /\ LET q == req[r] IN
     \/ /\ Insertable(q.organization, q.user)
        /\ members' = members \cup {<<q.organization, q.user>>}
        /\ invitation' = WithStatus({q.id}, "ACCEPTED")
        /\ Answer(r)
        /\ UNCHANGED <<account, organizations, registered>>
     \/ ~Insertable(q.organization, q.user) /\ Reject(r)

-----------------------------------------------------------------------------
(* POST /invitations/{token}/signup *)

StartJoin(r, i) == StartOn(r, "join.read", i)

JoinRead(r) == At(r, "join.read") /\ FindPendingValid(r, "join.email")

JoinEmail(r) ==
  /\ At(r, "join.email")
  /\ \/ account[req[r].email] = None /\ Continue(r, [req[r] EXCEPT !.pc = "join.claim"])
     \/ account[req[r].email] # None /\ Reject(r)

JoinClaim(r) == At(r, "join.claim") /\ Claim(r, "join.insert")

Register(e, u) ==
  /\ u \in Users \ registered
  /\ account' = [account EXCEPT ![e] = u]
  /\ registered' = registered \cup {u}

JoinInsert(r) ==
  LET q == req[r]
      insertable == account[q.email] = None /\ q.organization \in organizations IN
  /\ At(r, "join.insert")
  /\ Blockers(r) = {}
  /\ \/ /\ insertable
        /\ \E u \in Users :
             Register(q.email, u) /\ members' = members \cup {<<q.organization, u>>}
        /\ invitation' = WithStatus({q.id}, "ACCEPTED")
        /\ Answer(r)
        /\ UNCHANGED organizations
     \/ ~insertable /\ Reject(r)

-----------------------------------------------------------------------------
(* POST /auth/signup and DELETE /users/me, which decide whose an email is. *)

StartRegister(r, e) == Begin(r, [Idle EXCEPT !.pc = "register.read", !.email = e])

RegisterRead(r) ==
  /\ At(r, "register.read")
  /\ \/ account[req[r].email] = None /\ Continue(r, [req[r] EXCEPT !.pc = "register.insert"])
     \/ account[req[r].email] # None /\ Reject(r)

RegisterInsert(r) ==
  /\ At(r, "register.insert")
  /\ Blockers(r) = {}
  /\ \/ /\ account[req[r].email] = None
        /\ \E u \in Users : Register(req[r].email, u)
        /\ Answer(r)
        /\ UNCHANGED <<organizations, members, invitation>>
     \/ account[req[r].email] # None /\ Reject(r)

(* POST /organizations/{id}/members makes a member without an invitation. *)

StartAddMember(r, o, e) ==
  /\ o \in organizations
  /\ Begin(r, [Idle EXCEPT !.pc = "member.read", !.organization = o, !.email = e])

AddMemberRead(r) ==
  LET q == req[r]
      addable == account[q.email] # None /\ ~IsMember(q.organization, account[q.email]) IN
  /\ At(r, "member.read")
  /\ \/ addable /\ Continue(r, [q EXCEPT !.pc = "member.insert", !.user = account[q.email]])
     \/ ~addable /\ Reject(r)

AddMemberInsert(r) ==
  LET q == req[r] IN
  /\ At(r, "member.insert")
  /\ Blockers(r) = {}
  /\ \/ /\ Insertable(q.organization, q.user)
        /\ members' = members \cup {<<q.organization, q.user>>}
        /\ Answer(r)
        /\ UNCHANGED <<account, organizations, invitation, registered>>
     \/ ~Insertable(q.organization, q.user) /\ Reject(r)

StartDeleteMe(r, e) ==
  /\ account[e] # None
  /\ Begin(r, [Idle EXCEPT !.pc = "account.lock", !.email = e, !.user = account[e]])

AccountLock(r) ==
  /\ At(r, "account.lock")
  /\ \/ req[r].user \in Registered /\ Lock(r, "account.scan")
     \/ req[r].user \notin Registered /\ Reject(r)

AccountScan(r) ==
  /\ At(r, "account.scan")
  /\ Continue(r, [req[r] EXCEPT !.pc = "account.cancel", !.seen = PendingTo(req[r].email)])

AccountCancel(r) == At(r, "account.cancel") /\ Lock(r, "account.commit")

AccountCommit(r) ==
  /\ At(r, "account.commit")
  /\ Blockers(r) = {}
  /\ account' = [account EXCEPT ![req[r].email] = None]
  /\ members' = {m \in members : m[2] # req[r].user}
  /\ invitation' = WithStatus(req[r].seen \cap Pending, "CANCELED")
  /\ Answer(r)
  /\ UNCHANGED <<organizations, registered>>

-----------------------------------------------------------------------------
(* DELETE /organizations/{id}, and members who leave or are removed. *)

StartDissolve(r, o) ==
  /\ o \in organizations
  /\ Begin(r, [Idle EXCEPT !.pc = "dissolve.invitations", !.organization = o])

DissolveInvitations(r) ==
  /\ At(r, "dissolve.invitations")
  /\ Blockers(r) = {}
  /\ held' = [held EXCEPT ![r] = @ \cup Needs(r)]
  /\ req' = [req EXCEPT ![r].pc = "dissolve.members", ![r].seen = Needs(r)]
  /\ UNCHANGED tables

DissolveMembers(r) ==
  /\ At(r, "dissolve.members")
  /\ Blockers(r) = {}
  /\ held' = [held EXCEPT ![r] = @ \cup Needs(r)]
  /\ req' = [req EXCEPT ![r].pc = "dissolve.commit",
                        ![r].seen = @ \cup MembersOf(req[r].organization)]
  /\ UNCHANGED tables

(* No foreign key to Organization cascades: a row written since the deletion
   of its kind stops it, and all of it is rolled back. *)
DissolveCommit(r) ==
  LET o == req[r].organization
      deletable == /\ o \in organizations
                   /\ InvitationsOf(o) \cup MembersOf(o) \subseteq req[r].seen IN
  /\ At(r, "dissolve.commit")
  /\ \/ /\ deletable
        /\ organizations' = organizations \ {o}
        /\ members' = {m \in members : m[1] # o}
        /\ invitation' = [i \in Ids |-> IF i \in InvitationsOf(o) THEN Gone ELSE invitation[i]]
        /\ Answer(r)
        /\ UNCHANGED <<account, registered>>
     \/ ~deletable /\ Reject(r)

Leave(o, u) ==
  /\ IsMember(o, u)
  /\ \A r \in Requests : o \notin held[r]
  /\ members' = members \ {<<o, u>>}
  /\ UNCHANGED <<account, organizations, invitation, registered, req, held>>

-----------------------------------------------------------------------------

(* expiresAt passes. *)
Elapse(i) ==
  /\ i \in Pending /\ ~invitation[i].late
  /\ invitation' = [invitation EXCEPT ![i].late = TRUE]
  /\ UNCHANGED <<account, organizations, members, registered, req, held>>

(* A statement fails, the transaction limit strikes, PostgreSQL picks a
   deadlock victim, or the process stops. *)
Abort(r) == ~At(r, "idle") /\ Reject(r)

Start(r) ==
  \/ \E o \in Organizations, e \in Emails : StartCreate(r, o, e) \/ StartAddMember(r, o, e)
  \/ \E i \in Ids : StartCancel(r, i) \/ StartDecline(r, i) \/ StartJoin(r, i)
  \/ \E i \in Ids, u \in Users : StartAccept(r, i, u)
  \/ \E e \in Emails : StartRegister(r, e) \/ StartDeleteMe(r, e)
  \/ \E o \in Organizations : StartDissolve(r, o)

Statement(r) ==
  \/ CreateRead(r) \/ CreateInsert(r) \/ CancelRead(r) \/ CancelWrite(r)
  \/ ExpireWrite(r) \/ DeclineRead(r) \/ DeclineWrite(r)
  \/ AcceptRead(r) \/ AcceptUser(r) \/ AcceptClaim(r) \/ AcceptInsert(r)
  \/ JoinRead(r) \/ JoinEmail(r) \/ JoinClaim(r) \/ JoinInsert(r)
  \/ RegisterRead(r) \/ RegisterInsert(r) \/ AddMemberRead(r) \/ AddMemberInsert(r)
  \/ AccountLock(r) \/ AccountScan(r) \/ AccountCancel(r) \/ AccountCommit(r)
  \/ DissolveInvitations(r) \/ DissolveMembers(r) \/ DissolveCommit(r)

Next ==
  \/ \E r \in Requests : Start(r) \/ Statement(r) \/ Abort(r)
  \/ \E i \in Ids : Elapse(i)
  \/ \E o \in Organizations, u \in Users : Leave(o, u)

Spec == Init /\ [][Next]_vars
=============================================================================
