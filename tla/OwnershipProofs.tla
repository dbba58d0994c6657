-------------------------- MODULE OwnershipProofs --------------------------
(***************************************************************************)
(* Proofs that the requests keep the promises of OwnershipProperties, for  *)
(* any number of users, organizations, memberships and requests.           *)
(*                                                                         *)
(* The argument: a row locked by one transaction is changed by no other    *)
(* step, so what a transaction read after locking is still true when it    *)
(* commits (Pinned).  Every step either changes no table (QuietStep) or    *)
(* answers its request and changes only rows nobody else holds             *)
(* (WriteStep).  StepEffects then lists what one step may do to the        *)
(* tables, and the action properties and the refinement go by its cases.   *)
(***************************************************************************)
EXTENDS OwnershipProperties, TLAPS

(* The program counters of a transaction that holds row locks. *)
Holding ==
  {"create.commit", "transfer.lockOrganization", "transfer.lockMemberships",
   "transfer.commit", "insert", "insert.user", "dissolve.memberships", "dissolve.commit",
   "account.check", "account.cancel", "account.commit"}

(* The values a request carries at each statement that uses them, and the   *)
(* kinds of rows it has locked by then.                                     *)
Locals(r) ==
  LET q == req[r] IN
  /\ q.pc \in {"create.lockUser", "create.commit", "account.lockUser", "account.check",
               "account.cancel", "account.commit"} => q.user \in Users
  /\ q.pc \in {"transfer.lockUser", "transfer.lockOrganization", "transfer.lockMemberships",
               "transfer.commit"}
       => q.user \in Users /\ q.org \in Organizations /\ q.target \in MembershipIds
  /\ q.pc \in {"leave.delete", "leave.check", "dissolve.invitations", "dissolve.memberships",
               "dissolve.commit"}
       => q.user \in Users /\ q.org \in Organizations
  /\ q.pc = "leave.delete" => q.attempt < LEAVE_MAX_ATTEMPTS
  /\ q.pc \in {"addMember.lookup", "accept.claim", "insert", "insert.user"}
       => q.peer \in Users /\ q.org \in Organizations /\ q.role \in {"ADMIN", "MEMBER"}
  /\ q.pc \in {"updateRole.read", "updateRole.write"}
       => q.target \in MembershipIds /\ q.role \in {"ADMIN", "MEMBER"}
  /\ q.pc \in {"remove.read", "remove.write"} => q.target \in MembershipIds
  /\ q.pc \notin Holding => held[r] = {}
  /\ q.pc \in {"create.commit", "transfer.lockOrganization", "account.check", "account.cancel"}
       => held[r] \subseteq Users
  /\ q.pc = "transfer.lockMemberships" => held[r] \subseteq Users \cup Organizations
  /\ q.pc = "insert" => held[r] \subseteq {<<q.org, q.peer>>}
  /\ q.pc = "insert.user" => held[r] \subseteq {<<q.org, q.peer>>, <<q.peer, q.org>>}
  /\ q.pc = "dissolve.memberships" => held[r] \subseteq InvitationRows
  /\ q.pc = "account.commit" => held[r] \subseteq Users \cup InvitationRows

(* What a transaction found under its locks, and may still rely on. *)
Pinned(r) ==
  LET q == req[r] IN
  /\ q.pc = "create.commit" => q.user \in users \cap held[r]
  /\ q.pc \in {"transfer.lockOrganization", "transfer.lockMemberships", "transfer.commit"}
       => q.peer \in users \cap held[r]
  /\ q.pc = "transfer.commit" =>
       /\ q.target \in held[r] /\ Live(q.target)
       /\ memberships[q.target].userId = q.peer
       /\ memberships[q.target].organizationId = q.org
       /\ memberships[q.target].role \in {"ADMIN", "MEMBER"}
       /\ \E old \in MembershipIds \cap held[r] :
            Live(old) /\ memberships[old] = [userId |-> q.user, organizationId |-> q.org, role |-> "OWNER"]
  /\ q.pc = "dissolve.commit" =>
       \A id \in held[r] \cap MembershipIds : Live(id) /\ memberships[id].organizationId = q.org
  /\ q.pc \in {"account.check", "account.cancel", "account.commit"}
       => q.user \in users \cap held[r]
  /\ q.pc \in {"account.cancel", "account.commit"} =>
       \A id \in MembershipIds : Live(id) /\ memberships[id].userId = q.user => memberships[id].role # "OWNER"

LocksOK ==
  /\ \A r, q \in Requests : r # q => held[r] \cap held[q] = {}
  /\ \A r \in Requests : held[r] \cap MembershipIds \subseteq issued

TablesOK ==
  /\ \A id \in MembershipIds : Live(id) =>
       /\ id \in issued
       /\ memberships[id].userId \in users
       /\ organizations[memberships[id].organizationId] = "live"
  /\ \A i, j \in MembershipIds :
       (/\ Live(i) /\ Live(j)
        /\ memberships[i].organizationId = memberships[j].organizationId
        /\ \/ memberships[i].userId = memberships[j].userId
           \/ memberships[i].role = "OWNER" /\ memberships[j].role = "OWNER") => i = j

IInv ==
  /\ TypeOK
  /\ LocksOK
  /\ TablesOK
  /\ \A r \in Requests : Locals(r) /\ Pinned(r)

USE RowsDistinct, NoneIsNoValue DEF Roles, Rows, Membership, MembershipKeys

-----------------------------------------------------------------------------

LEMMA InitIInv == Init => IInv
  BY DEF Init, IInv, TypeOK, LocksOK, TablesOK, Locals, Pinned, Live, Request, Idle,
         ProgramCounters, Holding, LEAVE_MAX_ATTEMPTS

(* A step of r that changes no table keeps the invariant when r's own part  *)
(* is kept and r takes no row another transaction holds.                    *)
LEMMA QuietStep ==
  ASSUME IInv, NEW r \in Requests, NEW x \in Request, NEW h \in SUBSET Rows,
         UNCHANGED tables,
         req' = [req EXCEPT ![r] = x],
         held' = [held EXCEPT ![r] = h],
         \A q \in Requests \ {r} : h \cap held[q] = {},
         h \cap MembershipIds \subseteq issued,
         Locals(r)', Pinned(r)'
  PROVE  IInv'
<1>1. TypeOK'
  BY DEF IInv, TypeOK, tables
<1>2. LocksOK'
  BY DEF IInv, TypeOK, LocksOK, tables
<1>3. TablesOK'
  BY DEF IInv, TablesOK, tables, Live
<1>4. ASSUME NEW q \in Requests PROVE (Locals(q) /\ Pinned(q))'
  <2>1. CASE q = r BY <2>1
  <2>2. CASE q # r
    <3>1. req'[q] = req[q] /\ held'[q] = held[q]
      BY <2>2 DEF IInv, TypeOK
    <3>2. Locals(q) /\ Pinned(q) BY DEF IInv
    <3>3. Locals(q)' BY <3>1, <3>2 DEF Locals
    <3>4. Pinned(q)' BY <3>1, <3>2 DEF Pinned, tables, Live
    <3>5. QED BY <3>3, <3>4
  <2>3. QED BY <2>1, <2>2
<1>5. QED BY <1>1, <1>2, <1>3, <1>4 DEF IInv

(* A step that answers r and writes to the tables keeps the invariant when  *)
(* the tables stay consistent and no row that another transaction holds is  *)
(* written, deleted, or given an OWNER membership.                          *)
LEMMA WriteStep ==
  ASSUME IInv, NEW r \in Requests, Answer(r), TypeOK', TablesOK', issued \subseteq issued',
         \A q \in Requests \ {r} :
           /\ \A id \in MembershipIds \cap held[q] : memberships'[id] = memberships[id]
           /\ \A u \in users : u \in held[q] => u \in users'
           /\ \A id \in MembershipIds :
                (Live(id)' /\ memberships'[id].role = "OWNER" /\ memberships'[id] # memberships[id])
                => memberships'[id].userId \notin held[q]
  PROVE  IInv'
<1>1. LocksOK'
  BY DEF IInv, TypeOK, LocksOK, Answer
<1>2. ASSUME NEW q \in Requests PROVE (Locals(q) /\ Pinned(q))'
  <2>1. CASE q = r
    BY <2>1 DEF IInv, TypeOK, Answer, Idle, Locals, Pinned, Holding
  <2>2. CASE q # r
    <3>1. req'[q] = req[q] /\ held'[q] = held[q]
      BY <2>2 DEF IInv, TypeOK, Answer
    <3>2. Locals(q) /\ Pinned(q) BY DEF IInv
    <3>3. Locals(q)' BY <3>1, <3>2 DEF Locals
    <3>4. Pinned(q)' BY <2>2, <3>1, <3>2 DEF Locals, Pinned, Live
    <3>5. QED BY <3>3, <3>4
  <2>3. QED BY <2>1, <2>2
<1>3. QED BY <1>1, <1>2 DEF IInv

-----------------------------------------------------------------------------
(* The quiet steps. *)

LEMMA IdleIsRequest == Idle \in Request /\ Idle.pc = "idle" /\ Idle.attempt = 0
  BY DEF Idle, Request, ProgramCounters, LEAVE_MAX_ATTEMPTS

LEMMA RejectStep ==
  ASSUME IInv, NEW r \in Requests, Reject(r)
  PROVE  IInv'
<1>1. Locals(r)' /\ Pinned(r)'
  BY IdleIsRequest DEF IInv, TypeOK, Reject, Answer, Locals, Pinned, Holding
<1>2. QED
  BY <1>1, IdleIsRequest, QuietStep DEF Reject, Answer

(* A request that has no lock goes on to a statement that needs none. *)
LEMMA ContinueStep ==
  ASSUME IInv, NEW r \in Requests, NEW x \in Request, Continue(r, x),
         Locals(r)', Pinned(r)'
  PROVE  IInv'
<1>1. held' = [held EXCEPT ![r] = held[r]] /\ held[r] \in SUBSET Rows
  BY DEF IInv, TypeOK, Continue
<1>2. held[r] \cap MembershipIds \subseteq issued /\ \A q \in Requests \ {r} : held[r] \cap held[q] = {}
  BY DEF IInv, LocksOK
<1>3. QED
  BY <1>1, <1>2, QuietStep DEF Continue

(* A new request holds no lock and carries the values its statements use. *)
LEMMA BeginStep ==
  ASSUME IInv, NEW r \in Requests, NEW operation, NEW x \in Request, Begin(r, operation, x),
         x.pc \in {"create.lockUser", "account.lockUser"} => x.user \in Users,
         x.pc = "leave.delete" => x.attempt < LEAVE_MAX_ATTEMPTS,
         x.pc \in {"leave.delete", "dissolve.invitations"}
           => x.user \in Users /\ x.org \in Organizations,
         x.pc = "transfer.lockUser"
           => x.user \in Users /\ x.org \in Organizations /\ x.target \in MembershipIds,
         x.pc \in {"addMember.lookup", "accept.claim"}
           => x.peer \in Users /\ x.org \in Organizations /\ x.role \in {"ADMIN", "MEMBER"},
         x.pc = "updateRole.read" => x.target \in MembershipIds /\ x.role \in {"ADMIN", "MEMBER"},
         x.pc = "remove.read" => x.target \in MembershipIds,
         x.pc \in {"create.lockUser", "account.lockUser", "leave.delete", "dissolve.invitations",
                   "transfer.lockUser", "addMember.lookup", "accept.claim", "updateRole.read",
                   "remove.read"}
  PROVE  IInv'
<1>1. held[r] = {} /\ held' = held /\ req'[r] = x
  BY DEF IInv, TypeOK, Locals, At, Begin, Holding
<1>2. Locals(r)' /\ Pinned(r)'
  BY <1>1 DEF Locals, Pinned, Holding
<1>3. QED
  BY <1>2, ContinueStep DEF Begin, Continue

LEMMA StartStep ==
  ASSUME IInv, NEW r \in Requests, Start(r)
  PROVE  IInv'
<1>1. ASSUME NEW u \in Users,
             StartCreate(r, u)
      PROVE  IInv'
  <2> DEFINE x == [Idle EXCEPT !.pc = "create.lockUser", !.user = u]
  <2>1. x \in Request /\ x.pc = "create.lockUser" /\ x.user = u
    BY IdleIsRequest DEF Request, ProgramCounters
  <2>2. \E operation : Begin(r, operation, x)
    BY <1>1 DEF StartCreate
  <2> HIDE DEF x
  <2>3. QED BY <2>1, <2>2, BeginStep
<1>2. ASSUME NEW u \in Users,
             StartDeleteMe(r, u)
      PROVE  IInv'
  <2> DEFINE x == [Idle EXCEPT !.pc = "account.lockUser", !.user = u]
  <2>1. x \in Request /\ x.pc = "account.lockUser" /\ x.user = u
    BY IdleIsRequest DEF Request, ProgramCounters
  <2>2. \E operation : Begin(r, operation, x)
    BY <1>2 DEF StartDeleteMe
  <2> HIDE DEF x
  <2>3. QED BY <2>1, <2>2, BeginStep
<1>3. ASSUME NEW u \in Users, NEW o \in Organizations,
             StartLeave(r, u, o)
      PROVE  IInv'
  <2> DEFINE x == [Idle EXCEPT !.pc = "leave.delete", !.user = u, !.org = o]
  <2>1. x \in Request /\ x.pc = "leave.delete" /\ x.user = u /\ x.org = o /\ x.attempt = 0
    BY IdleIsRequest DEF Request, ProgramCounters
  <2>2. \E operation : Begin(r, operation, x)
    BY <1>3 DEF StartLeave
  <2> HIDE DEF x
  <2>3. QED BY <2>1, <2>2, BeginStep DEF LEAVE_MAX_ATTEMPTS
<1>4. ASSUME NEW u \in Users, NEW o \in Organizations,
             StartRemove(r, u, o)
      PROVE  IInv'
  <2> DEFINE x == [Idle EXCEPT !.pc = "dissolve.invitations", !.user = u, !.org = o]
  <2>1. x \in Request /\ x.pc = "dissolve.invitations" /\ x.user = u /\ x.org = o
    BY IdleIsRequest DEF Request, ProgramCounters
  <2>2. \E operation : Begin(r, operation, x)
    BY <1>4 DEF StartRemove
  <2> HIDE DEF x
  <2>3. QED BY <2>1, <2>2, BeginStep
<1>5. ASSUME NEW u \in Users, NEW o \in Organizations, NEW t \in MembershipIds,
             StartTransfer(r, u, o, t)
      PROVE  IInv'
  <2> DEFINE x == [Idle EXCEPT !.pc = "transfer.lockUser", !.user = u, !.org = o, !.target = t]
  <2>1. x \in Request /\ x.pc = "transfer.lockUser" /\ x.user = u /\ x.org = o /\ x.target = t
    BY IdleIsRequest DEF Request, ProgramCounters
  <2>2. \E operation : Begin(r, operation, x)
    BY <1>5 DEF StartTransfer
  <2> HIDE DEF x
  <2>3. QED BY <2>1, <2>2, BeginStep
<1>6. ASSUME NEW u \in Users, NEW v \in Users, NEW o \in Organizations,
             NEW role \in {"ADMIN", "MEMBER"},
             StartAddMember(r, u, o, v, role)
      PROVE  IInv'
  <2> DEFINE x == [Idle EXCEPT !.pc = "addMember.lookup", !.org = o, !.peer = v, !.role = role]
  <2>1. x \in Request /\ x.pc = "addMember.lookup" /\ x.org = o /\ x.peer = v /\ x.role = role
    BY IdleIsRequest DEF Request, ProgramCounters
  <2>2. \E operation : Begin(r, operation, x)
    BY <1>6 DEF StartAddMember
  <2> HIDE DEF x
  <2>3. QED BY <2>1, <2>2, BeginStep
<1>7. ASSUME NEW v \in Users, NEW o \in Organizations, NEW role \in {"ADMIN", "MEMBER"},
             StartAcceptInvitation(r, v, o, role)
      PROVE  IInv'
  <2> DEFINE x == [Idle EXCEPT !.pc = "accept.claim", !.org = o, !.peer = v, !.role = role]
  <2>1. x \in Request /\ x.pc = "accept.claim" /\ x.org = o /\ x.peer = v /\ x.role = role
    BY IdleIsRequest DEF Request, ProgramCounters
  <2>2. \E operation : Begin(r, operation, x)
    BY <1>7 DEF StartAcceptInvitation
  <2> HIDE DEF x
  <2>3. QED BY <2>1, <2>2, BeginStep
<1>8. ASSUME NEW u \in Users, NEW o \in Organizations, NEW t \in MembershipIds,
             NEW role \in {"ADMIN", "MEMBER"}, NEW operatorRole \in Roles,
             StartUpdateMemberRole(r, u, o, t, role, operatorRole)
      PROVE  IInv'
  <2> DEFINE x == [Idle EXCEPT !.pc = "updateRole.read", !.org = o, !.target = t, !.role = role, !.operatorRole = operatorRole]
  <2>1. x \in Request /\ x.pc = "updateRole.read" /\ x.org = o /\ x.target = t /\ x.role = role /\ x.operatorRole = operatorRole
    BY IdleIsRequest DEF Request, ProgramCounters
  <2>2. \E operation : Begin(r, operation, x)
    BY <1>8 DEF StartUpdateMemberRole
  <2> HIDE DEF x
  <2>3. QED BY <2>1, <2>2, BeginStep
<1>9. ASSUME NEW u \in Users, NEW o \in Organizations, NEW t \in MembershipIds,
             NEW operatorRole \in Roles,
             StartRemoveMember(r, u, o, t, operatorRole)
      PROVE  IInv'
  <2> DEFINE x == [Idle EXCEPT !.pc = "remove.read", !.org = o, !.target = t, !.operatorRole = operatorRole]
  <2>1. x \in Request /\ x.pc = "remove.read" /\ x.org = o /\ x.target = t /\ x.operatorRole = operatorRole
    BY IdleIsRequest DEF Request, ProgramCounters
  <2>2. \E operation : Begin(r, operation, x)
    BY <1>9 DEF StartRemoveMember
  <2> HIDE DEF x
  <2>3. QED BY <2>1, <2>2, BeginStep
<1>10. QED
  BY <1>1, <1>2, <1>3, <1>4, <1>5, <1>6, <1>7, <1>8, <1>9 DEF Start

-----------------------------------------------------------------------------
(* Taking locks. *)

LEMMA NeedsByCounter ==
  ASSUME NEW r \in Requests
  PROVE  /\ At(r, "create.lockUser") \/ At(r, "account.lockUser")
              => Needs(r) = {req[r].user} \cap users
         /\ At(r, "transfer.lockUser")
              => Needs(r) = {memberships[id].userId :
                               id \in {t \in {req[r].target} \cap MembershipIds : Live(t)}}
         /\ At(r, "transfer.lockOrganization") \/ At(r, "dissolve.commit")
              => Needs(r) = {req[r].org} \cap Organizations
         /\ At(r, "transfer.lockMemberships")
              => Needs(r) = MembershipOf(req[r].user, req[r].org)
                              \cup {id \in {req[r].target} \cap MembershipIds : Live(id)}
         /\ At(r, "leave.delete")
              => Needs(r) = {id \in MembershipOf(req[r].user, req[r].org) :
                               memberships[id].role # "OWNER"}
         /\ At(r, "insert")
              => Needs(r) = ({req[r].peer} \X {req[r].org})
                              \cup MembershipOf(req[r].peer, req[r].org)
         /\ At(r, "insert.user") => Needs(r) = {}
         /\ At(r, "updateRole.write") \/ At(r, "remove.write")
              => Needs(r) = {id \in {req[r].target} \cap MembershipIds : Live(id)}
         /\ At(r, "accept.claim") => Needs(r) = {req[r].org} \X {req[r].peer}
         /\ At(r, "dissolve.invitations") => Needs(r) = {req[r].org} \X Users
         /\ At(r, "dissolve.memberships") => Needs(r) = MembersOf(req[r].org)
         /\ At(r, "account.cancel") => Needs(r) = Organizations \X {req[r].user}
         /\ At(r, "account.commit") => Needs(r) = MembershipsOf(req[r].user)
  BY DEF Needs, TransferNeeds, At

LEMMA NeedsRows ==
  ASSUME IInv, NEW r \in Requests
  PROVE  Needs(r) \in SUBSET Rows /\ Needs(r) \cap MembershipIds \subseteq issued
<1>1. \A id \in MembershipIds : Live(id) => id \in issued /\ memberships[id].userId \in Users
  BY DEF IInv, TypeOK, TablesOK, Live
<1>2. users \subseteq Users
  BY DEF IInv, TypeOK
<1>3. \A u, o : MembershipOf(u, o) \subseteq issued \cap MembershipIds
  BY <1>1 DEF MembershipOf, MembershipsOf, MembersOf
<1>4. CASE req[r].pc = "insert"
  BY <1>3, <1>4, NeedsByCounter DEF At, IInv, Locals
<1>5. CASE req[r].pc \in {"accept.claim", "dissolve.invitations", "account.cancel"}
  <2>1. Needs(r) \subseteq InvitationRows
    BY <1>5, NeedsByCounter DEF At, IInv, Locals, InvitationRows
  <2>2. QED BY <2>1
<1>6. CASE req[r].pc \notin {"insert", "accept.claim", "dissolve.invitations", "account.cancel"}
  BY <1>1, <1>2, <1>3, <1>6 DEF Needs, TransferNeeds, MembershipsOf, MembersOf
<1>7. QED BY <1>4, <1>5, <1>6

(* A lock is granted only when nobody else holds the row. *)
LEMMA LockStep ==
  ASSUME IInv, NEW r \in Requests, NEW x \in Request, Lock(r, x),
         Locals(r)', Pinned(r)'
  PROVE  IInv'
<1>1. held' = [held EXCEPT ![r] = held[r] \cup Needs(r)] /\ held[r] \cup Needs(r) \in SUBSET Rows
  BY NeedsRows DEF IInv, TypeOK, Lock
<1>2. \A q \in Requests \ {r} : (held[r] \cup Needs(r)) \cap held[q] = {}
  BY DEF IInv, LocksOK, Lock, Blockers
<1>3. (held[r] \cup Needs(r)) \cap MembershipIds \subseteq issued
  BY NeedsRows DEF IInv, LocksOK
<1>4. QED
  BY <1>1, <1>2, <1>3, QuietStep DEF Lock

LEMMA LockEffect ==
  ASSUME IInv, NEW r \in Requests, NEW x, Lock(r, x)
  PROVE  /\ req'[r] = x /\ held'[r] = held[r] \cup Needs(r) /\ UNCHANGED tables
         /\ req[r].pc \notin Holding => held[r] = {}
  BY DEF IInv, TypeOK, Lock, Locals

LEMMA CreateLockUserStep ==
  ASSUME IInv, NEW r \in Requests, CreateLockUser(r)
  PROVE  IInv'
<1> DEFINE x == [req[r] EXCEPT !.pc = "create.commit"]
<1>1. x \in Request /\ x.pc = "create.commit" /\ x.user = req[r].user
  BY DEF IInv, TypeOK, Request, ProgramCounters
<1>2. req[r].user \in Users
  BY DEF IInv, Locals, CreateLockUser, At
<1> HIDE DEF x
<1>3. CASE req[r].user \in users /\ Lock(r, x)
  <2>1. Needs(r) = {req[r].user}
    BY <1>3, NeedsByCounter DEF CreateLockUser
  <2>2. req'[r] = x /\ held'[r] = {req[r].user} /\ UNCHANGED tables
    BY <1>3, <2>1, LockEffect DEF CreateLockUser, At, Holding
  <2>3. Locals(r)' /\ Pinned(r)'
    BY <1>1, <1>2, <1>3, <2>2 DEF Locals, Pinned, Holding, tables
  <2>4. QED BY <1>1, <1>3, <2>3, LockStep
<1>4. QED
  BY <1>3, RejectStep DEF CreateLockUser, x

LEMMA TransferLockUserStep ==
  ASSUME IInv, NEW r \in Requests, TransferLockUser(r)
  PROVE  IInv'
<1> DEFINE t == req[r].target
           x == [req[r] EXCEPT !.pc = "transfer.lockOrganization", !.peer = memberships[t].userId]
<1>1. req[r].user \in Users /\ req[r].org \in Organizations /\ t \in MembershipIds
  BY DEF IInv, Locals, TransferLockUser, At
<1>2. CASE Live(t) /\ Lock(r, x)
  <2>1. memberships[t].userId \in users /\ memberships[t].userId \in Users /\ req[r] \in Request
    BY <1>1, <1>2 DEF IInv, TypeOK, TablesOK, Live
  <2>2. /\ x \in Request /\ x.pc = "transfer.lockOrganization"
        /\ x.user = req[r].user /\ x.org = req[r].org /\ x.target = t
        /\ x.peer = memberships[t].userId
    BY <2>1 DEF Request, ProgramCounters
  <2>3. Needs(r) = {memberships[t].userId}
    BY <1>1, <1>2, NeedsByCounter DEF TransferLockUser
  <2> HIDE DEF x
  <2>4. req'[r] = x /\ held'[r] = {memberships[t].userId} /\ UNCHANGED tables
    BY <1>2, <2>3, LockEffect DEF TransferLockUser, At, Holding
  <2>5. Locals(r)' /\ Pinned(r)'
    BY <1>1, <2>1, <2>2, <2>4 DEF Locals, Pinned, Holding, tables
  <2>6. QED BY <1>2, <2>2, <2>5, LockStep
<1>3. QED
  BY <1>2, RejectStep DEF TransferLockUser

LEMMA TransferLockOrganizationStep ==
  ASSUME IInv, NEW r \in Requests, TransferLockOrganization(r)
  PROVE  IInv'
<1> DEFINE x == [req[r] EXCEPT !.pc = "transfer.lockMemberships"]
<1>1. /\ req[r].user \in Users /\ req[r].org \in Organizations /\ req[r].target \in MembershipIds
      /\ req[r].peer \in users \cap held[r] /\ held[r] \subseteq Users
  BY DEF IInv, Locals, Pinned, TransferLockOrganization, At
<1>2. CASE Lock(r, x)
  <2>1. /\ x \in Request /\ x.pc = "transfer.lockMemberships"
        /\ x.user = req[r].user /\ x.org = req[r].org /\ x.target = req[r].target
        /\ x.peer = req[r].peer
    BY DEF IInv, TypeOK, Request, ProgramCounters
  <2>2. Needs(r) \subseteq Organizations
    BY NeedsByCounter DEF TransferLockOrganization
  <2> HIDE DEF x
  <2>3. req'[r] = x /\ held'[r] = held[r] \cup Needs(r) /\ UNCHANGED tables
    BY <1>2, LockEffect
  <2>4. Locals(r)' /\ Pinned(r)'
    BY <1>1, <2>1, <2>2, <2>3 DEF Locals, Pinned, Holding, tables
  <2>5. QED BY <1>2, <2>1, <2>4, LockStep
<1>3. QED
  BY <1>2, RejectStep DEF TransferLockOrganization

LEMMA TransferLockMembershipsStep ==
  ASSUME IInv, NEW r \in Requests, TransferLockMemberships(r)
  PROVE  IInv'
<1> DEFINE x == [req[r] EXCEPT !.pc = "transfer.commit"]
<1>1. /\ req[r].user \in Users /\ req[r].org \in Organizations /\ req[r].target \in MembershipIds
      /\ req[r].peer \in users \cap held[r]
  BY DEF IInv, Locals, Pinned, TransferLockMemberships, At
<1>2. CASE Transferable(r) /\ Lock(r, x)
  <2>1. /\ x \in Request /\ x.pc = "transfer.commit"
        /\ x.user = req[r].user /\ x.org = req[r].org /\ x.target = req[r].target
        /\ x.peer = req[r].peer
    BY DEF IInv, TypeOK, Request, ProgramCounters
  <2>2. /\ Needs(r) \in SUBSET Rows /\ req[r].target \in Needs(r)
        /\ MembershipOf(req[r].user, req[r].org) \subseteq Needs(r)
    BY <1>1, <1>2, NeedsByCounter
       DEF TransferLockMemberships, Transferable, MembershipOf, MembersOf, MembershipsOf
  <2>3. PICK old \in MembershipOf(req[r].user, req[r].org) : memberships[old].role = "OWNER"
    BY <1>2 DEF Transferable, HasRole
  <2>4. /\ old \in MembershipIds \cap Needs(r) /\ Live(old)
        /\ memberships[old] = [userId |-> req[r].user, organizationId |-> req[r].org,
                               role |-> "OWNER"]
    BY <2>2, <2>3 DEF IInv, TypeOK, MembershipOf, MembersOf, MembershipsOf, Live
  <2> HIDE DEF x
  <2>5. req'[r] = x /\ held'[r] = held[r] \cup Needs(r) /\ UNCHANGED tables
    BY <1>2 DEF IInv, TypeOK, Lock
  <2>6. Locals(r)'
    BY <1>1, <2>1, <2>5 DEF Locals, Holding
  <2>7. Pinned(r)'
    BY <1>1, <1>2, <2>1, <2>2, <2>4, <2>5 DEF Pinned, Transferable, tables, Live
  <2>8. QED BY <1>2, <2>1, <2>2, <2>6, <2>7, LockStep
<1>3. QED
  BY <1>2, RejectStep DEF TransferLockMemberships

LEMMA LeaveCheckStep ==
  ASSUME IInv, NEW r \in Requests, LeaveCheck(r)
  PROVE  IInv'
<1> DEFINE x == [req[r] EXCEPT !.pc = "leave.delete"]
<1>1. CASE Continue(r, x) /\ req[r].attempt < LEAVE_MAX_ATTEMPTS
  <2>1. req[r].user \in Users /\ req[r].org \in Organizations /\ held[r] = {} /\ req[r] \in Request
    BY DEF IInv, TypeOK, Locals, LeaveCheck, At, Holding
  <2>2. /\ x \in Request /\ x.pc = "leave.delete" /\ x.user = req[r].user /\ x.org = req[r].org
        /\ x.attempt = req[r].attempt
    BY <2>1 DEF Request, ProgramCounters
  <2> HIDE DEF x
  <2>3. Locals(r)' /\ Pinned(r)'
    BY <1>1, <2>1, <2>2 DEF IInv, TypeOK, Continue, Locals, Pinned, Holding
  <2>4. QED BY <1>1, <2>2, <2>3, ContinueStep
<1>2. QED
  BY <1>1, RejectStep DEF LeaveCheck

LEMMA AddMemberLookupStep ==
  ASSUME IInv, NEW r \in Requests, AddMemberLookup(r)
  PROVE  IInv'
<1> DEFINE x == [req[r] EXCEPT !.pc = "insert"]
<1>1. CASE Continue(r, x)
  <2>1. /\ req[r].peer \in Users /\ req[r].org \in Organizations
        /\ req[r].role \in {"ADMIN", "MEMBER"} /\ held[r] = {} /\ req[r] \in Request
    BY DEF IInv, TypeOK, Locals, AddMemberLookup, At, Holding
  <2>2. /\ x \in Request /\ x.pc = "insert" /\ x.peer = req[r].peer /\ x.org = req[r].org
        /\ x.role = req[r].role
    BY <2>1 DEF Request, ProgramCounters
  <2> HIDE DEF x
  <2>3. Locals(r)' /\ Pinned(r)'
    BY <1>1, <2>1, <2>2 DEF IInv, TypeOK, Continue, Locals, Pinned, Holding
  <2>4. QED BY <1>1, <2>2, <2>3, ContinueStep
<1>2. QED
  BY <1>1, RejectStep DEF AddMemberLookup

LEMMA AcceptClaimStep ==
  ASSUME IInv, NEW r \in Requests, AcceptClaim(r)
  PROVE  IInv'
<1> DEFINE x == [req[r] EXCEPT !.pc = "insert"]
<1>1. CASE Lock(r, x)
  <2>1. /\ req[r].peer \in Users /\ req[r].org \in Organizations
        /\ req[r].role \in {"ADMIN", "MEMBER"} /\ req[r] \in Request
    BY DEF IInv, TypeOK, Locals, AcceptClaim, At
  <2>2. /\ x \in Request /\ x.pc = "insert" /\ x.peer = req[r].peer /\ x.org = req[r].org
        /\ x.role = req[r].role
    BY <2>1 DEF Request, ProgramCounters
  <2> HIDE DEF x
  <2>3. Needs(r) = {<<req[r].org, req[r].peer>>}
    BY NeedsByCounter DEF AcceptClaim
  <2>4. req'[r] = x /\ held'[r] = {<<req[r].org, req[r].peer>>}
    BY <1>1, <2>3, LockEffect DEF AcceptClaim, At, Holding
  <2>5. Locals(r)' /\ Pinned(r)'
    BY <2>1, <2>2, <2>4 DEF Locals, Pinned, Holding
  <2>6. QED BY <1>1, <2>2, <2>5, LockStep
<1>2. QED
  BY <1>1, RejectStep DEF AcceptClaim

LEMMA InsertRowStep ==
  ASSUME IInv, NEW r \in Requests, InsertRow(r)
  PROVE  IInv'
<1> DEFINE x == [req[r] EXCEPT !.pc = "insert.user"]
<1>1. CASE Insertable(r) /\ Lock(r, x)
  <2>1. /\ req[r].peer \in Users /\ req[r].org \in Organizations
        /\ req[r].role \in {"ADMIN", "MEMBER"} /\ req[r] \in Request
        /\ held[r] \subseteq {<<req[r].org, req[r].peer>>}
    BY DEF IInv, TypeOK, Locals, InsertRow, At
  <2>2. /\ x \in Request /\ x.pc = "insert.user" /\ x.peer = req[r].peer
        /\ x.org = req[r].org /\ x.role = req[r].role
    BY <2>1 DEF Request, ProgramCounters
  <2> HIDE DEF x
  <2>3. Needs(r) = {<<req[r].peer, req[r].org>>}
    BY <1>1, NeedsByCounter DEF InsertRow, Insertable
  <2>4. req'[r] = x /\ held'[r] = held[r] \cup {<<req[r].peer, req[r].org>>}
    BY <1>1, <2>3, LockEffect
  <2>5. Locals(r)' /\ Pinned(r)'
    BY <2>1, <2>2, <2>4 DEF Locals, Pinned, Holding
  <2>6. QED BY <1>1, <2>2, <2>5, LockStep
<1>2. QED
  BY <1>1, RejectStep DEF InsertRow

LEMMA UpdateRoleReadStep ==
  ASSUME IInv, NEW r \in Requests, UpdateRoleRead(r)
  PROVE  IInv'
<1> DEFINE x == [req[r] EXCEPT !.pc = "updateRole.write", !.operatorRole = None]
<1>1. CASE Continue(r, x)
  <2>1. /\ req[r].target \in MembershipIds /\ req[r].role \in {"ADMIN", "MEMBER"}
        /\ held[r] = {} /\ req[r] \in Request
    BY DEF IInv, TypeOK, Locals, UpdateRoleRead, At, Holding
  <2>2. /\ x \in Request /\ x.pc = "updateRole.write" /\ x.target = req[r].target
        /\ x.role = req[r].role
    BY <2>1 DEF Request, ProgramCounters
  <2> HIDE DEF x
  <2>3. Locals(r)' /\ Pinned(r)'
    BY <1>1, <2>1, <2>2 DEF IInv, TypeOK, Continue, Locals, Pinned, Holding
  <2>4. QED BY <1>1, <2>2, <2>3, ContinueStep
<1>2. QED
  BY <1>1, RejectStep DEF UpdateRoleRead

LEMMA RemoveReadStep ==
  ASSUME IInv, NEW r \in Requests, RemoveRead(r)
  PROVE  IInv'
<1> DEFINE x == [req[r] EXCEPT !.pc = "remove.write", !.operatorRole = None]
<1>1. CASE Continue(r, x)
  <2>1. req[r].target \in MembershipIds /\ held[r] = {} /\ req[r] \in Request
    BY DEF IInv, TypeOK, Locals, RemoveRead, At, Holding
  <2>2. x \in Request /\ x.pc = "remove.write" /\ x.target = req[r].target
    BY <2>1 DEF Request, ProgramCounters
  <2> HIDE DEF x
  <2>3. Locals(r)' /\ Pinned(r)'
    BY <1>1, <2>1, <2>2 DEF IInv, TypeOK, Continue, Locals, Pinned, Holding
  <2>4. QED BY <1>1, <2>2, <2>3, ContinueStep
<1>2. QED
  BY <1>1, RejectStep DEF RemoveRead

LEMMA DissolveInvitationsStep ==
  ASSUME IInv, NEW r \in Requests, DissolveInvitations(r)
  PROVE  IInv'
<1> DEFINE x == [req[r] EXCEPT !.pc = "dissolve.memberships"]
<1>1. req[r].user \in Users /\ req[r].org \in Organizations /\ req[r] \in Request
  BY DEF IInv, TypeOK, Locals, DissolveInvitations, At
<1>2. x \in Request /\ x.pc = "dissolve.memberships" /\ x.user = req[r].user /\ x.org = req[r].org
  BY <1>1 DEF Request, ProgramCounters
<1>3. Lock(r, x) /\ Needs(r) \subseteq InvitationRows
  BY <1>1, NeedsByCounter DEF DissolveInvitations, InvitationRows
<1> HIDE DEF x
<1>4. req'[r] = x /\ held'[r] \subseteq InvitationRows
  BY <1>3, LockEffect DEF DissolveInvitations, At, Holding
<1>5. Locals(r)' /\ Pinned(r)'
  BY <1>1, <1>2, <1>4 DEF Locals, Pinned, Holding
<1>6. QED BY <1>2, <1>3, <1>5, LockStep

LEMMA DissolveMembershipsStep ==
  ASSUME IInv, NEW r \in Requests, DissolveMemberships(r)
  PROVE  IInv'
<1> DEFINE x == [req[r] EXCEPT !.pc = "dissolve.commit"]
<1>1. /\ req[r].user \in Users /\ req[r].org \in Organizations /\ req[r] \in Request
      /\ held[r] \cap MembershipIds = {}
  BY DEF IInv, TypeOK, Locals, DissolveMemberships, At
<1>2. x \in Request /\ x.pc = "dissolve.commit" /\ x.user = req[r].user /\ x.org = req[r].org
  BY <1>1 DEF Request, ProgramCounters
<1>3. Needs(r) = MembersOf(req[r].org) /\ Lock(r, x)
  BY NeedsByCounter DEF DissolveMemberships
<1> HIDE DEF x
<1>4. Locals(r)' /\ Pinned(r)'
  BY <1>1, <1>2, <1>3 DEF IInv, TypeOK, Lock, Locals, Pinned, Holding, MembersOf, tables, Live
<1>5. QED BY <1>2, <1>3, <1>4, LockStep DEF MembersOf

LEMMA AccountLockUserStep ==
  ASSUME IInv, NEW r \in Requests, AccountLockUser(r)
  PROVE  IInv'
<1> DEFINE x == [req[r] EXCEPT !.pc = "account.check"]
<1>1. CASE req[r].user \in users /\ Lock(r, x)
  <2>1. req[r].user \in Users /\ req[r] \in Request
    BY DEF IInv, TypeOK, Locals, AccountLockUser, At
  <2>2. x \in Request /\ x.pc = "account.check" /\ x.user = req[r].user
    BY <2>1 DEF Request, ProgramCounters
  <2>3. Needs(r) = {req[r].user}
    BY <1>1, NeedsByCounter DEF AccountLockUser
  <2> HIDE DEF x
  <2>4. req'[r] = x /\ held'[r] = {req[r].user} /\ UNCHANGED tables
    BY <1>1, <2>3, LockEffect DEF AccountLockUser, At, Holding
  <2>5. Locals(r)' /\ Pinned(r)'
    BY <1>1, <2>1, <2>2, <2>4 DEF Locals, Pinned, Holding, tables
  <2>6. QED BY <1>1, <2>2, <2>5, LockStep
<1>2. QED
  BY <1>1, RejectStep DEF AccountLockUser

(* Whoever is the OWNER of an organization is its sole OWNER, so a user for  *)
(* whom the check finds nothing owns nothing.                                *)
LEMMA AccountCheckStep ==
  ASSUME IInv, NEW r \in Requests, AccountCheck(r)
  PROVE  IInv'
<1> DEFINE x == [req[r] EXCEPT !.pc = "account.cancel"]
<1>1. CASE SolelyOwnedBy(req[r].user) = {} /\ Continue(r, x)
  <2>1. /\ req[r].user \in Users /\ req[r] \in Request /\ req[r].user \in users \cap held[r]
        /\ held[r] \subseteq Users
    BY DEF IInv, TypeOK, Locals, Pinned, AccountCheck, At
  <2>2. x \in Request /\ x.pc = "account.cancel" /\ x.user = req[r].user
    BY <2>1 DEF Request, ProgramCounters
  <2>3. ASSUME NEW id \in MembershipIds, Live(id), memberships[id].userId = req[r].user,
               memberships[id].role = "OWNER"
        PROVE  FALSE
    <3> DEFINE o == memberships[id].organizationId
    <3>1. memberships[id] \in Membership
      BY <2>3 DEF IInv, TypeOK, Live
    <3>2. o \in Organizations /\ id \in OwnersOf(o) /\ id \in MembershipsOf(req[r].user)
      BY <2>3, <3>1 DEF OwnersOf, MembersOf, MembershipsOf
    <3>3. OwnersOf(o) \subseteq {id}
      BY <2>3 DEF IInv, TablesOK, OwnersOf, MembersOf
    <3>4. HasRole(req[r].user, o, {"OWNER"})
      BY <2>3, <3>2 DEF HasRole, MembershipOf, OwnersOf
    <3>5. o \in SolelyOwnedBy(req[r].user)
      BY <3>2, <3>3, <3>4 DEF SolelyOwnedBy
    <3>6. QED BY <1>1, <3>5
  <2> HIDE DEF x
  <2>4. Locals(r)' /\ Pinned(r)'
    BY <1>1, <2>1, <2>2, <2>3 DEF IInv, TypeOK, Continue, Locals, Pinned, Holding, tables, Live
  <2>5. QED BY <1>1, <2>2, <2>4, ContinueStep
<1>2. QED
  BY <1>1, RejectStep DEF AccountCheck

LEMMA AccountCancelStep ==
  ASSUME IInv, NEW r \in Requests, AccountCancel(r)
  PROVE  IInv'
<1> DEFINE x == [req[r] EXCEPT !.pc = "account.commit"]
<1>1. /\ req[r].user \in Users /\ req[r] \in Request /\ req[r].user \in users \cap held[r]
      /\ held[r] \subseteq Users
      /\ \A id \in MembershipIds :
           Live(id) /\ memberships[id].userId = req[r].user => memberships[id].role # "OWNER"
  BY DEF IInv, TypeOK, Locals, Pinned, AccountCancel, At
<1>2. x \in Request /\ x.pc = "account.commit" /\ x.user = req[r].user
  BY <1>1 DEF Request, ProgramCounters
<1>3. Lock(r, x) /\ Needs(r) \subseteq InvitationRows
  BY <1>1, NeedsByCounter DEF AccountCancel, InvitationRows
<1> HIDE DEF x
<1>4. req'[r] = x /\ held'[r] = held[r] \cup Needs(r) /\ UNCHANGED tables
  BY <1>3 DEF IInv, TypeOK, Lock
<1>5. Locals(r)'
  BY <1>1, <1>2, <1>3, <1>4 DEF Locals, Holding
<1>6. Pinned(r)'
  BY <1>1, <1>2, <1>4 DEF Pinned, tables, Live
<1>7. QED BY <1>2, <1>3, <1>5, <1>6, LockStep

-----------------------------------------------------------------------------
(* Writing and answering. *)

LEMMA DeleteStep ==
  ASSUME IInv, NEW r \in Requests, NEW ids, Answer(r), DeleteMemberships(ids),
         UNCHANGED <<users, organizations, issued>>,
         \A q \in Requests \ {r} : ids \cap held[q] = {}
  PROVE  IInv'
<1>1. TypeOK'
  BY IdleIsRequest DEF IInv, TypeOK, Answer, DeleteMemberships
<1>2. TablesOK'
  BY DEF IInv, TablesOK, DeleteMemberships, Live
<1>3. QED
  BY <1>1, <1>2, WriteStep DEF DeleteMemberships, Live

LEMMA LeaveDeleteStep ==
  ASSUME IInv, NEW r \in Requests, LeaveDelete(r)
  PROVE  IInv'
<1> DEFINE x == [req[r] EXCEPT !.pc = "leave.check", !.attempt = @ + 1]
<1>1. CASE /\ DeleteMemberships(Needs(r)) /\ Answer(r)
           /\ UNCHANGED <<users, organizations, issued>>
  BY <1>1, DeleteStep DEF LeaveDelete, Blockers
<1>2. CASE Continue(r, x)
  <2>1. /\ req[r].user \in Users /\ req[r].org \in Organizations /\ held[r] = {}
        /\ req[r] \in Request
    BY DEF IInv, TypeOK, Locals, LeaveDelete, At, Holding
  <2>2. req[r].attempt + 1 \in 0..LEAVE_MAX_ATTEMPTS
    BY <2>1 DEF IInv, Locals, LeaveDelete, At, Request, LEAVE_MAX_ATTEMPTS
  <2>3. x \in Request /\ x.pc = "leave.check" /\ x.user = req[r].user /\ x.org = req[r].org
    BY <2>1, <2>2 DEF Request, ProgramCounters
  <2> HIDE DEF x
  <2>4. Locals(r)' /\ Pinned(r)'
    BY <1>2, <2>1, <2>3 DEF IInv, TypeOK, Continue, Locals, Pinned, Holding
  <2>5. QED BY <1>2, <2>3, <2>4, ContinueStep
<1>3. QED
  BY <1>1, <1>2 DEF LeaveDelete

LEMMA RemoveWriteStep ==
  ASSUME IInv, NEW r \in Requests, RemoveWrite(r)
  PROVE  IInv'
<1>1. req[r].target \in MembershipIds
  BY DEF IInv, Locals, RemoveWrite, At
<1>2. CASE /\ Live(req[r].target) /\ DeleteMemberships({req[r].target}) /\ Answer(r)
           /\ UNCHANGED <<users, organizations, issued>>
  <2>1. Needs(r) = {req[r].target}
    BY <1>1, <1>2, NeedsByCounter DEF RemoveWrite
  <2>2. QED BY <1>2, <2>1, DeleteStep DEF RemoveWrite, Blockers
<1>3. QED
  BY <1>2, RejectStep DEF RemoveWrite

LEMMA UpdateRoleWriteStep ==
  ASSUME IInv, NEW r \in Requests, UpdateRoleWrite(r)
  PROVE  IInv'
<1> DEFINE t == req[r].target
<1>1. t \in MembershipIds /\ req[r].role \in {"ADMIN", "MEMBER"}
  BY DEF IInv, Locals, UpdateRoleWrite, At
<1>2. CASE /\ Live(t) /\ memberships' = [memberships EXCEPT ![t].role = req[r].role]
           /\ Answer(r) /\ UNCHANGED <<users, organizations, issued>>
  <2>1. Needs(r) = {t}
    BY <1>1, <1>2, NeedsByCounter DEF UpdateRoleWrite
  <2>2. memberships[t] \in Membership
    BY <1>1, <1>2 DEF IInv, TypeOK, Live
  <2>3. /\ memberships'[t] \in Membership
        /\ memberships'[t].userId = memberships[t].userId
        /\ memberships'[t].organizationId = memberships[t].organizationId
        /\ memberships'[t].role = req[r].role
        /\ memberships' \in [MembershipIds -> Membership \cup {None}]
        /\ \A id \in MembershipIds \ {t} : memberships'[id] = memberships[id]
    BY <1>1, <1>2, <2>2 DEF IInv, TypeOK
  <2>4. TypeOK'
    BY <1>2, <2>3, IdleIsRequest DEF IInv, TypeOK, Answer
  <2>5. TablesOK'
    <3>1. TablesOK /\ \A id \in MembershipIds : Live(id)' <=> Live(id)
      BY <1>1, <1>2, <2>2, <2>3 DEF IInv, Live
    <3>2. UNCHANGED <<users, organizations, issued>>
      BY <1>2
    <3>3. \A id \in MembershipIds : Live(id) =>
            /\ memberships'[id].userId = memberships[id].userId
            /\ memberships'[id].organizationId = memberships[id].organizationId
            /\ memberships'[id].role = "OWNER" => memberships[id].role = "OWNER"
      BY <1>1, <2>3
    <3>4. QED BY <3>1, <3>2, <3>3 DEF TablesOK
  <2>6. QED
    BY <1>1, <1>2, <2>1, <2>3, <2>4, <2>5, WriteStep DEF UpdateRoleWrite, Blockers, Live
<1>3. QED
  BY <1>2, RejectStep DEF UpdateRoleWrite

(* The rows the commit of a transfer writes, and that r holds them.          *)
LEMMA TransferRows ==
  ASSUME IInv, NEW r \in Requests, At(r, "transfer.commit")
  PROVE  LET t == req[r].target
             new == memberships[t] IN
         /\ t \in MembershipIds \cap held[r] /\ Live(t) /\ new \in Membership
         /\ new.userId = req[r].peer /\ new.userId \in users \cap held[r]
         /\ new.organizationId = req[r].org /\ new.role # "OWNER"
         /\ Promoted(r) = {t}
         /\ \E old \in (MembershipIds \cap held[r]) \ {t} :
              /\ Live(old) /\ Demoted(r) = {old}
              /\ memberships[old] = [userId |-> req[r].user, organizationId |-> req[r].org,
                                     role |-> "OWNER"]
<1> DEFINE t == req[r].target
<1>1. /\ t \in MembershipIds \cap held[r] /\ Live(t)
      /\ req[r].user \in Users /\ req[r].org \in Organizations
      /\ memberships[t].userId = req[r].peer /\ req[r].peer \in users \cap held[r]
      /\ memberships[t].organizationId = req[r].org
      /\ memberships[t].role \in {"ADMIN", "MEMBER"}
  BY DEF IInv, Locals, Pinned, At
<1>2. memberships[t] \in Membership
  BY <1>1 DEF IInv, TypeOK, Live
<1>3. Promoted(r) = {t}
  BY <1>1 DEF Promoted, MembershipOf, MembershipsOf, MembersOf
<1>4. PICK old \in MembershipIds \cap held[r] :
        /\ Live(old)
        /\ memberships[old] = [userId |-> req[r].user, organizationId |-> req[r].org, role |-> "OWNER"]
  BY DEF IInv, Pinned, At
<1>5. old # t
  BY <1>1, <1>4
<1>6. old \in Demoted(r)
  BY <1>4 DEF Demoted, OwnersOf, MembersOf, MembershipsOf
<1>7. \A id \in Demoted(r) : id = old
  BY <1>4 DEF IInv, TablesOK, Demoted, OwnersOf, MembersOf
<1>8. Demoted(r) = {old}
  BY <1>6, <1>7
<1>9. QED
  BY <1>1, <1>2, <1>3, <1>4, <1>5, <1>8

(* What a transfer's commit does to the memberships. *)
LEMMA TransferEffect ==
  ASSUME IInv, NEW r \in Requests, TransferCommit(r)
  PROVE  LET t == req[r].target IN
         \E old \in (MembershipIds \cap held[r]) \ {t} :
           /\ Live(old) /\ Demoted(r) = {old}
           /\ memberships[old] = [userId |-> req[r].user, organizationId |-> req[r].org,
                                  role |-> "OWNER"]
           /\ memberships' = [memberships EXCEPT ![old].role = "ADMIN", ![t].role = "OWNER"]
           /\ memberships' \in [MembershipIds -> Membership \cup {None}]
           /\ \A id \in MembershipIds \ {old, t} : memberships'[id] = memberships[id]
           /\ memberships'[old] = [userId |-> req[r].user, organizationId |-> req[r].org,
                                   role |-> "ADMIN"]
           /\ memberships'[t] = [userId |-> req[r].peer, organizationId |-> req[r].org,
                                 role |-> "OWNER"]
<1> DEFINE t == req[r].target
<1>1. /\ t \in MembershipIds \cap held[r] /\ Live(t) /\ memberships[t] \in Membership
      /\ memberships[t].userId = req[r].peer /\ memberships[t].organizationId = req[r].org
      /\ Promoted(r) = {t}
  BY TransferRows DEF TransferCommit
<1>2. PICK old \in (MembershipIds \cap held[r]) \ {t} :
        /\ Live(old) /\ Demoted(r) = {old}
        /\ memberships[old] = [userId |-> req[r].user, organizationId |-> req[r].org, role |-> "OWNER"]
  BY TransferRows DEF TransferCommit
<1>3. memberships' = [id \in MembershipIds |->
                       IF id = t THEN [memberships[id] EXCEPT !.role = "OWNER"]
                       ELSE IF id = old THEN [memberships[id] EXCEPT !.role = "ADMIN"]
                       ELSE memberships[id]]
  BY <1>1, <1>2 DEF TransferCommit
<1>4. memberships \in [MembershipIds -> Membership \cup {None}]
  BY DEF IInv, TypeOK
<1>5. memberships[old] \in Membership
  BY <1>2, <1>4 DEF Live
<1>6. \A id \in MembershipIds \ {old, t} : memberships'[id] = memberships[id]
  BY <1>3
<1>7. memberships'[old] = [userId |-> req[r].user, organizationId |-> req[r].org, role |-> "ADMIN"]
  BY <1>2, <1>3
<1>8. memberships'[t] = [userId |-> req[r].peer, organizationId |-> req[r].org, role |-> "OWNER"]
  BY <1>1, <1>3
<1>9. memberships'[old] \in Membership /\ memberships'[t] \in Membership
  <2>1. [memberships[old] EXCEPT !.role = "ADMIN"] \in Membership
    BY <1>5
  <2>2. [memberships[t] EXCEPT !.role = "OWNER"] \in Membership
    BY <1>1
  <2>3. QED BY <1>1, <1>2, <1>3, <2>1, <2>2
<1>10. memberships' \in [MembershipIds -> Membership \cup {None}]
  BY <1>3, <1>4, <1>6, <1>9
<1>11. memberships' = [memberships EXCEPT ![old].role = "ADMIN", ![t].role = "OWNER"]
  <2> DEFINE f == [memberships EXCEPT ![old].role = "ADMIN"]
             g == [f EXCEPT ![t].role = "OWNER"]
  <2>1. f[t] = memberships[t] /\ \A id \in MembershipIds \ {old} : f[id] = memberships[id]
    BY <1>1, <1>2, <1>4
  <2>2. f[old] = [memberships[old] EXCEPT !.role = "ADMIN"] /\ DOMAIN f = MembershipIds
    BY <1>2, <1>4
  <2>3. g = [id \in MembershipIds |-> IF id = t THEN [f[id] EXCEPT !.role = "OWNER"] ELSE f[id]]
    BY <2>2
  <2>4. QED BY <1>1, <1>2, <1>3, <2>1, <2>2, <2>3
<1>12. QED
  BY <1>2, <1>6, <1>7, <1>8, <1>10, <1>11

LEMMA TransferCommitStep ==
  ASSUME IInv, NEW r \in Requests, TransferCommit(r)
  PROVE  IInv'
<1> DEFINE t == req[r].target
<1>1. PICK old \in (MembershipIds \cap held[r]) \ {t} :
        /\ Live(old)
        /\ memberships[old] = [userId |-> req[r].user, organizationId |-> req[r].org, role |-> "OWNER"]
        /\ memberships' \in [MembershipIds -> Membership \cup {None}]
        /\ \A id \in MembershipIds \ {old, t} : memberships'[id] = memberships[id]
        /\ memberships'[old] = [userId |-> req[r].user, organizationId |-> req[r].org, role |-> "ADMIN"]
        /\ memberships'[t] = [userId |-> req[r].peer, organizationId |-> req[r].org, role |-> "OWNER"]
  BY TransferEffect
<1>2. /\ t \in MembershipIds \cap held[r] /\ Live(t)
      /\ memberships[t].userId = req[r].peer /\ req[r].peer \in users \cap held[r]
      /\ memberships[t].organizationId = req[r].org
  BY TransferRows DEF TransferCommit
<1>3. Answer(r) /\ UNCHANGED <<users, organizations, issued>>
  BY DEF TransferCommit
<1>4. TypeOK'
  BY <1>1, <1>3, IdleIsRequest DEF IInv, TypeOK, Answer
<1>5. \A id \in MembershipIds : Live(id)' => Live(id)
  BY <1>1, <1>2 DEF Live
<1>6. \A id \in MembershipIds : Live(id)' =>
         /\ memberships'[id].userId = memberships[id].userId
         /\ memberships'[id].organizationId = memberships[id].organizationId
  BY <1>1, <1>2
<1>7. \A id \in MembershipIds :
        (Live(id) /\ memberships[id].organizationId = req[r].org /\ memberships[id].role = "OWNER")
        => id = old
  BY <1>1 DEF IInv, TablesOK
<1>8. TablesOK'
  <2>1. \A id \in MembershipIds : Live(id)' =>
          /\ id \in issued'
          /\ memberships'[id].userId \in users'
          /\ organizations'[memberships'[id].organizationId] = "live"
    BY <1>3, <1>5, <1>6 DEF IInv, TablesOK
  <2>2. ASSUME NEW i \in MembershipIds, NEW j \in MembershipIds, Live(i)', Live(j)',
               memberships'[i].organizationId = memberships'[j].organizationId,
               memberships'[i].userId = memberships'[j].userId
        PROVE  i = j
    BY <1>5, <1>6, <2>2 DEF IInv, TablesOK
  <2>3. ASSUME NEW i \in MembershipIds, NEW j \in MembershipIds, Live(i)', Live(j)',
               memberships'[i].organizationId = memberships'[j].organizationId,
               memberships'[i].role = "OWNER", memberships'[j].role = "OWNER"
        PROVE  i = j
    <3>1. CASE memberships'[i].organizationId = req[r].org
      <4>1. \A id \in MembershipIds :
              (Live(id)' /\ memberships'[id].organizationId = req[r].org
               /\ memberships'[id].role = "OWNER") => id = t
        BY <1>1, <1>2, <1>7 DEF Live
      <4>2. QED BY <2>3, <3>1, <4>1
    <3>2. CASE memberships'[i].organizationId # req[r].org
      <4>1. i \notin {old, t} /\ j \notin {old, t}
        BY <1>1, <1>2, <2>3, <3>2
      <4>2. QED BY <1>1, <2>3, <4>1 DEF IInv, TablesOK, Live
    <3>3. QED BY <3>1, <3>2
  <2>4. QED BY <2>1, <2>2, <2>3 DEF TablesOK
<1>9. ASSUME NEW q \in Requests \ {r}
      PROVE  /\ \A id \in MembershipIds \cap held[q] : memberships'[id] = memberships[id]
             /\ \A id \in MembershipIds :
                  (Live(id)' /\ memberships'[id].role = "OWNER" /\ memberships'[id] # memberships[id])
                  => memberships'[id].userId \notin held[q]
  <2>1. held[r] \cap held[q] = {}
    BY DEF IInv, LocksOK
  <2>2. QED BY <1>1, <1>2, <2>1
<1>10. QED
  BY <1>3, <1>4, <1>8, <1>9, WriteStep

(* A membership with a fresh id for a user and an organization that exist.  *)
LEMMA InsertStep ==
  ASSUME IInv, NEW r \in Requests, Answer(r), UNCHANGED users,
         NEW id \in FreshIds, NEW u \in users, NEW o \in Organizations, NEW role \in Roles,
         InsertMembership(id, u, o, role),
         organizations' \in [Organizations -> {"unissued", "live", "deleted"}],
         organizations'[o] = "live",
         \A p \in Organizations : organizations[p] = "live" => organizations'[p] = "live",
         MembershipOf(u, o) = {},
         role = "OWNER" => MembersOf(o) = {},
         role = "OWNER" => u \in held[r]
  PROVE  IInv'
<1> DEFINE row == [userId |-> u, organizationId |-> o, role |-> role]
<1>1. /\ id \in MembershipIds /\ ~Live(id) /\ u \in Users
      /\ \A q \in Requests : id \notin held[q]
  BY DEF IInv, TypeOK, TablesOK, LocksOK, FreshIds
<1>2. /\ memberships'[id] = row
      /\ \A i \in MembershipIds \ {id} : memberships'[i] = memberships[i]
      /\ row \in Membership /\ issued' = issued \cup {id}
      /\ memberships' \in [MembershipIds -> Membership \cup {None}]
  BY <1>1 DEF InsertMembership, IInv, TypeOK
<1>3. TypeOK'
  BY <1>1, <1>2, IdleIsRequest DEF IInv, TypeOK, Answer
<1>4. ASSUME NEW i \in MembershipIds, i # id, Live(i)
      PROVE  /\ i \in issued' /\ memberships[i].userId \in users'
             /\ organizations'[memberships[i].organizationId] = "live"
             /\ ~(memberships[i].userId = u /\ memberships[i].organizationId = o)
             /\ role = "OWNER" => memberships[i].organizationId # o
  <2>1. memberships[i] \in Membership
    BY <1>4 DEF IInv, TypeOK, Live
  <2>2. ~(memberships[i].userId = u /\ memberships[i].organizationId = o)
    BY <1>4 DEF MembershipOf, MembershipsOf, MembersOf
  <2>3. role = "OWNER" => memberships[i].organizationId # o
    BY <1>4 DEF MembersOf
  <2>4. QED BY <1>2, <1>4, <2>1, <2>2, <2>3 DEF IInv, TablesOK
<1>5. CASE role # "OWNER"
  <2>1. TablesOK'
    <3>1. \A i \in MembershipIds : Live(i)' =>
            /\ i \in issued' /\ memberships'[i].userId \in users'
            /\ organizations'[memberships'[i].organizationId] = "live"
      BY <1>2, <1>4 DEF Live
    <3>2. \A i, j \in MembershipIds :
            (/\ Live(i)' /\ Live(j)'
             /\ memberships'[i].organizationId = memberships'[j].organizationId
             /\ \/ memberships'[i].userId = memberships'[j].userId
                \/ memberships'[i].role = "OWNER" /\ memberships'[j].role = "OWNER") => i = j
      BY <1>2, <1>4, <1>5 DEF IInv, TablesOK, Live
    <3>3. QED BY <3>1, <3>2 DEF TablesOK
  <2>2. QED BY <1>1, <1>2, <1>3, <1>5, <2>1, WriteStep DEF Live
<1>6. CASE role = "OWNER"
  <2>1. TablesOK'
    <3>1. \A i \in MembershipIds : Live(i)' =>
            /\ i \in issued' /\ memberships'[i].userId \in users'
            /\ organizations'[memberships'[i].organizationId] = "live"
      BY <1>2, <1>4 DEF Live
    <3>2. \A i, j \in MembershipIds :
            (/\ Live(i)' /\ Live(j)'
             /\ memberships'[i].organizationId = memberships'[j].organizationId
             /\ \/ memberships'[i].userId = memberships'[j].userId
                \/ memberships'[i].role = "OWNER" /\ memberships'[j].role = "OWNER") => i = j
      BY <1>2, <1>4, <1>6 DEF IInv, TablesOK, Live
    <3>3. QED BY <3>1, <3>2 DEF TablesOK
  <2>2. \A q \in Requests \ {r} : u \notin held[q]
    BY <1>6 DEF IInv, LocksOK
  <2>3. QED BY <1>1, <1>2, <1>3, <2>1, <2>2, WriteStep DEF Live
<1>7. QED BY <1>5, <1>6

LEMMA CreateCommitStep ==
  ASSUME IInv, NEW r \in Requests, CreateCommit(r)
  PROVE  IInv'
<1>1. req[r].user \in users \cap held[r]
  BY DEF IInv, Pinned, CreateCommit, At
<1>2. ASSUME NEW o \in FreshOrganizations, NEW id \in FreshIds,
             organizations' = [organizations EXCEPT ![o] = "live"],
             InsertMembership(id, req[r].user, o, "OWNER"), Answer(r), UNCHANGED users
      PROVE  IInv'
  <2>1. /\ o \in Organizations /\ organizations[o] = "unissued"
        /\ organizations \in [Organizations -> {"unissued", "live", "deleted"}]
    BY DEF FreshOrganizations, IInv, TypeOK
  <2>2. MembersOf(o) = {}
    BY <2>1 DEF IInv, TablesOK, MembersOf
  <2>3. MembershipOf(req[r].user, o) = {}
    BY <2>2 DEF MembershipOf
  <2>4. /\ organizations' \in [Organizations -> {"unissued", "live", "deleted"}]
        /\ organizations'[o] = "live"
        /\ \A p \in Organizations : organizations[p] = "live" => organizations'[p] = "live"
    BY <1>2, <2>1
  <2>5. QED
    BY <1>1, <1>2, <2>1, <2>2, <2>3, <2>4, InsertStep
<1>3. QED
  BY <1>2, RejectStep DEF CreateCommit

LEMMA InsertCommitStep ==
  ASSUME IInv, NEW r \in Requests, InsertCommit(r)
  PROVE  IInv'
<1>1. req[r].org \in Organizations /\ req[r].role \in {"ADMIN", "MEMBER"}
  BY DEF IInv, Locals, InsertCommit, At
<1>2. ASSUME Insertable(r), NEW id \in FreshIds,
             InsertMembership(id, req[r].peer, req[r].org, req[r].role), Answer(r),
             UNCHANGED <<users, organizations>>
      PROVE  IInv'
  <2>1. /\ req[r].peer \in users /\ organizations[req[r].org] = "live"
        /\ MembershipOf(req[r].peer, req[r].org) = {}
    BY <1>2 DEF Insertable
  <2>2. organizations' \in [Organizations -> {"unissued", "live", "deleted"}]
    BY <1>2 DEF IInv, TypeOK
  <2>3. QED
    BY <1>1, <1>2, <2>1, <2>2, InsertStep
<1>3. QED
  BY <1>2, RejectStep DEF InsertCommit

LEMMA DissolveCommitStep ==
  ASSUME IInv, NEW r \in Requests, DissolveCommit(r)
  PROVE  IInv'
<1> DEFINE o == req[r].org
<1>1. /\ o \in Organizations
      /\ \A id \in held[r] \cap MembershipIds : Live(id) /\ memberships[id].organizationId = o
  BY DEF IInv, Locals, Pinned, DissolveCommit, At
<1>2. CASE /\ organizations[o] = "live" /\ MembersOf(o) \subseteq held[r]
           /\ organizations' = [organizations EXCEPT ![o] = "deleted"]
           /\ DeleteMemberships(held[r]) /\ Answer(r) /\ UNCHANGED <<users, issued>>
  <2>1. TypeOK'
    BY <1>2, IdleIsRequest DEF IInv, TypeOK, Answer, DeleteMemberships
  <2>2. \A id \in MembershipIds :
          Live(id)' => /\ Live(id) /\ memberships'[id] = memberships[id]
                       /\ memberships[id].organizationId # o
                       /\ memberships[id].organizationId \in Organizations
    BY <1>1, <1>2 DEF IInv, TypeOK, DeleteMemberships, Live, MembersOf
  <2>3. \A p \in Organizations \ {o} : organizations'[p] = organizations[p]
    BY <1>1, <1>2 DEF IInv, TypeOK
  <2>4. TablesOK'
    BY <1>2, <2>2, <2>3 DEF IInv, TablesOK
  <2>5. \A q \in Requests \ {r} : held[r] \cap held[q] = {}
    BY DEF IInv, LocksOK
  <2>6. QED
    BY <1>2, <2>1, <2>2, <2>4, <2>5, WriteStep DEF DeleteMemberships
<1>3. QED
  BY <1>2, RejectStep DEF DissolveCommit

LEMMA AccountCommitStep ==
  ASSUME IInv, NEW r \in Requests, AccountCommit(r)
  PROVE  IInv'
<1> DEFINE u == req[r].user
<1>1. u \in users \cap held[r] /\ Needs(r) = MembershipsOf(u) /\ Blockers(r) = {}
  BY NeedsByCounter DEF IInv, Pinned, AccountCommit, At
<1>2. /\ users' = users \ {u} /\ DeleteMemberships(MembershipsOf(u)) /\ Answer(r)
      /\ UNCHANGED <<organizations, issued>>
  BY DEF AccountCommit
<1>3. TypeOK'
  BY <1>2, IdleIsRequest DEF IInv, TypeOK, Answer, DeleteMemberships
<1>4. \A id \in MembershipIds :
        Live(id)' => /\ Live(id) /\ memberships'[id] = memberships[id]
                     /\ memberships[id].userId # u
  BY <1>2 DEF DeleteMemberships, Live, MembershipsOf
<1>5. TablesOK'
  BY <1>2, <1>4 DEF IInv, TablesOK
<1>6. \A q \in Requests \ {r} : u \notin held[q] /\ MembershipsOf(u) \cap held[q] = {}
  BY <1>1 DEF IInv, LocksOK, Blockers
<1>7. QED
  BY <1>2, <1>3, <1>4, <1>5, <1>6, WriteStep DEF DeleteMemberships

LEMMA NextStep == IInv /\ [Next]_vars => IInv'
<1> SUFFICES ASSUME IInv, [Next]_vars PROVE IInv'
  OBVIOUS
<1>1. CASE UNCHANGED vars
  BY <1>1 DEF vars, IInv, TypeOK, LocksOK, TablesOK, Locals, Pinned, Live
<1>2. ASSUME NEW r \in Requests, Start(r) PROVE IInv'
  BY <1>2, StartStep
<1>3. ASSUME NEW r \in Requests, Statement(r) PROVE IInv'
  BY <1>3, CreateLockUserStep, CreateCommitStep, TransferLockUserStep,
     TransferLockOrganizationStep, TransferLockMembershipsStep, TransferCommitStep,
     LeaveDeleteStep, LeaveCheckStep, AddMemberLookupStep, InsertRowStep, InsertCommitStep,
     UpdateRoleReadStep, UpdateRoleWriteStep, RemoveReadStep, RemoveWriteStep,
     AcceptClaimStep, DissolveInvitationsStep, DissolveMembershipsStep, DissolveCommitStep,
     AccountLockUserStep, AccountCheckStep, AccountCancelStep, AccountCommitStep DEF Statement
<1>4. ASSUME NEW r \in Requests, Abort(r) PROVE IInv'
  BY <1>4, RejectStep DEF Abort
<1>5. QED
  BY <1>1, <1>2, <1>3, <1>4 DEF Next

(* The inductive invariant holds of every behaviour of the requests.        *)
THEOREM Invariance == Spec => []IInv
  BY InitIInv, NextStep, PTL DEF Spec

(* Every variable keeps its type: the values a request carries across its   *)
(* awaits, the lock table and the rows.                                     *)
THEOREM TypeCorrect == Spec => []TypeOK
<1>1. IInv => TypeOK
  BY DEF IInv
<1>2. QED
  BY <1>1, Invariance, PTL

(* No organization ever has two OWNER memberships.                          *)
THEOREM OwnerUnique == Spec => []AtMostOneOwner
<1>1. IInv => AtMostOneOwner
  BY DEF IInv, TablesOK, AtMostOneOwner, OwnersOf, MembersOf
<1>2. QED
  BY <1>1, Invariance, PTL

(* Memberships are unique per user and organization and never dangle.       *)
THEOREM NoDanglingMembership == Spec => []MembershipsConsistent
<1>1. IInv => MembershipsConsistent
  BY DEF IInv, TablesOK, MembershipsConsistent, MembershipOf, MembershipsOf, MembersOf
<1>2. QED
  BY <1>1, Invariance, PTL

(* What transferOwnership locked still matches both of its UPDATEs.         *)
THEOREM TransferAlwaysMatches == Spec => []TransferRowsPinned
<1>1. IInv => TransferRowsPinned
  <2> SUFFICES ASSUME IInv, NEW r \in Requests, At(r, "transfer.commit")
               PROVE  Promoted(r) # {} /\ Demoted(r) # {}
    BY DEF TransferRowsPinned
  <2>1. Promoted(r) = {req[r].target} /\ \E old : Demoted(r) = {old}
    BY TransferRows
  <2>2. QED BY <2>1
<1>2. QED
  BY <1>1, Invariance, PTL

-----------------------------------------------------------------------------
(* What a step may do to the tables. *)

Founds(r, o, id) ==
  /\ o \in FreshOrganizations /\ id \in FreshIds /\ req[r].user \in users
  /\ organizations' = [organizations EXCEPT ![o] = "live"]
  /\ InsertMembership(id, req[r].user, o, "OWNER")
  /\ UNCHANGED users

Joins(r, id) ==
  /\ At(r, "insert.user") /\ id \in FreshIds /\ req[r].role \in {"ADMIN", "MEMBER"}
  /\ InsertMembership(id, req[r].peer, req[r].org, req[r].role)
  /\ UNCHANGED <<users, organizations>>

Leaves(ids) ==
  /\ \A id \in ids : Live(id) => memberships[id].role # "OWNER"
  /\ DeleteMemberships(ids)
  /\ UNCHANGED <<users, organizations>>

EditsRole(r) ==
  /\ At(r, "updateRole.write") /\ req[r].target \in MembershipIds /\ Live(req[r].target)
  /\ req[r].role \in {"ADMIN", "MEMBER"}
  /\ memberships' = [memberships EXCEPT ![req[r].target].role = req[r].role]
  /\ UNCHANGED <<users, organizations>>

Removes(r) ==
  /\ At(r, "remove.write") /\ req[r].target \in MembershipIds /\ Live(req[r].target)
  /\ DeleteMemberships({req[r].target})
  /\ UNCHANGED <<users, organizations>>

Dissolves(r) ==
  /\ req[r].org \in Organizations
  /\ organizations[req[r].org] = "live"
  /\ organizations' = [organizations EXCEPT ![req[r].org] = "deleted"]
  /\ \A id \in held[r] \cap MembershipIds : Live(id) /\ memberships[id].organizationId = req[r].org
  /\ DeleteMemberships(held[r])
  /\ UNCHANGED users

Closes(r) ==
  /\ req[r].user \in users /\ users' = users \ {req[r].user}
  /\ \A id \in MembershipsOf(req[r].user) : memberships[id].role # "OWNER"
  /\ DeleteMemberships(MembershipsOf(req[r].user))
  /\ UNCHANGED organizations

LEMMA StepEffects ==
  ASSUME IInv, [Next]_vars
  PROVE  \/ UNCHANGED <<users, organizations, memberships>>
         \/ \E r \in Requests, o \in Organizations, id \in MembershipIds : Founds(r, o, id)
         \/ \E r \in Requests, id \in MembershipIds : Joins(r, id)
         \/ \E r \in Requests : TransferCommit(r)
         \/ \E ids \in SUBSET MembershipIds : Leaves(ids)
         \/ \E r \in Requests : EditsRole(r)
         \/ \E r \in Requests : Removes(r)
         \/ \E r \in Requests : Dissolves(r)
         \/ \E r \in Requests : Closes(r)
<1> DEFINE Same == UNCHANGED <<users, organizations, memberships>>
<1>1. CASE UNCHANGED vars
  BY <1>1 DEF vars
<1>2. ASSUME NEW r \in Requests, Start(r) \/ Abort(r) PROVE Same
  BY <1>2 DEF Start, Abort, Reject, Begin, StartCreate, StartDeleteMe, StartLeave, StartRemove,
     StartTransfer, StartAddMember, StartAcceptInvitation, StartUpdateMemberRole,
     StartRemoveMember, tables
<1>3. ASSUME NEW r \in Requests,
             \/ CreateLockUser(r) \/ TransferLockUser(r) \/ TransferLockOrganization(r)
             \/ TransferLockMemberships(r) \/ LeaveCheck(r) \/ AddMemberLookup(r)
             \/ AcceptClaim(r) \/ InsertRow(r) \/ UpdateRoleRead(r) \/ RemoveRead(r)
             \/ DissolveInvitations(r) \/ DissolveMemberships(r)
             \/ AccountLockUser(r) \/ AccountCheck(r) \/ AccountCancel(r)
      PROVE  Same
  BY <1>3 DEF CreateLockUser, TransferLockUser, TransferLockOrganization,
     TransferLockMemberships, LeaveCheck, AddMemberLookup, AcceptClaim, InsertRow, UpdateRoleRead, RemoveRead,
     DissolveInvitations, DissolveMemberships, AccountLockUser, AccountCheck, AccountCancel, Lock, Continue, Reject, tables
<1>4. ASSUME NEW r \in Requests, CreateCommit(r)
      PROVE  Same \/ \E o \in Organizations, id \in MembershipIds : Founds(r, o, id)
  <2>1. req[r].user \in users
    BY <1>4 DEF IInv, Pinned, CreateCommit, At
  <2>2. QED BY <1>4, <2>1 DEF CreateCommit, Founds, FreshIds, FreshOrganizations, Reject, tables
<1>5. ASSUME NEW r \in Requests, InsertCommit(r)
      PROVE  Same \/ \E id \in MembershipIds : Joins(r, id)
  <2>1. req[r].role \in {"ADMIN", "MEMBER"}
    BY <1>5 DEF IInv, Locals, InsertCommit, At
  <2>2. QED BY <1>5, <2>1 DEF InsertCommit, Joins, FreshIds, Reject, tables
<1>6. ASSUME NEW r \in Requests, LeaveDelete(r)
      PROVE  Same \/ \E ids \in SUBSET MembershipIds : Leaves(ids)
  <2>1. Needs(r) \in SUBSET MembershipIds /\ \A id \in Needs(r) : memberships[id].role # "OWNER"
    BY <1>6, NeedsByCounter DEF LeaveDelete, MembershipOf, MembersOf, MembershipsOf
  <2>2. QED BY <1>6, <2>1 DEF LeaveDelete, Leaves, Continue, tables
<1>7. ASSUME NEW r \in Requests, UpdateRoleWrite(r) PROVE Same \/ EditsRole(r)
  <2>1. req[r].target \in MembershipIds /\ req[r].role \in {"ADMIN", "MEMBER"}
    BY <1>7 DEF IInv, Locals, UpdateRoleWrite, At
  <2>2. QED BY <1>7, <2>1 DEF UpdateRoleWrite, EditsRole, Reject, tables
<1>8. ASSUME NEW r \in Requests, RemoveWrite(r) PROVE Same \/ Removes(r)
  <2>1. req[r].target \in MembershipIds
    BY <1>8 DEF IInv, Locals, RemoveWrite, At
  <2>2. QED BY <1>8, <2>1 DEF RemoveWrite, Removes, Reject, tables
<1>9. ASSUME NEW r \in Requests, DissolveCommit(r) PROVE Same \/ Dissolves(r)
  <2>1. req[r].org \in Organizations
    BY <1>9 DEF IInv, Locals, DissolveCommit, At
  <2>2. \A id \in held[r] \cap MembershipIds : Live(id) /\ memberships[id].organizationId = req[r].org
    BY <1>9 DEF IInv, Pinned, DissolveCommit, At
  <2>3. QED BY <1>9, <2>1, <2>2 DEF DissolveCommit, Dissolves, Reject, tables
<1>10. ASSUME NEW r \in Requests, AccountCommit(r) PROVE Closes(r)
  <2>1. /\ req[r].user \in users
        /\ \A id \in MembershipsOf(req[r].user) : memberships[id].role # "OWNER"
    BY <1>10 DEF IInv, Pinned, AccountCommit, At, MembershipsOf
  <2>2. QED BY <1>10, <2>1 DEF AccountCommit, Closes
<1>11. QED
  BY <1>1, <1>2, <1>3, <1>4, <1>5, <1>6, <1>7, <1>8, <1>9, <1>10 DEF Next, Statement

-----------------------------------------------------------------------------
(* The action properties: one case per effect a step may have. *)

LEMMA OwnerAccountStep ==
  ASSUME IInv, [Next]_vars, NEW o \in Organizations, NEW id \in MembershipIds,
         id \in OwnersOf(o)
  PROVE  memberships[id].userId \in users'
<1>1. memberships[id].userId \in users /\ memberships[id].role = "OWNER"
  BY DEF IInv, TablesOK, OwnersOf, MembersOf
<1>2. CASE users' = users
  BY <1>1, <1>2
<1>3. ASSUME NEW r \in Requests, Closes(r) PROVE memberships[id].userId \in users'
  BY <1>1, <1>3 DEF Closes, MembershipsOf, OwnersOf, MembersOf
<1>4. QED
  BY <1>2, <1>3, StepEffects DEF Founds, Joins, TransferCommit, Leaves, EditsRole, Removes, Dissolves

(* The account of an OWNER is never deleted.                                *)
THEOREM OwnersAreAccounts == Spec => OwnerKeepsAccount
<1>1. IInv /\ [Next]_vars
      => [\A o \in Organizations, id \in MembershipIds :
            id \in OwnersOf(o) => memberships[id].userId \in users']_vars
  BY OwnerAccountStep
<1>2. QED
  BY <1>1, Invariance, PTL DEF Spec, OwnerKeepsAccount

LEMMA NewOwnerStep ==
  ASSUME IInv, [Next]_vars, NEW id \in MembershipIds,
         Live(id), memberships[id].role # "OWNER",
         Live(id)', memberships'[id].role = "OWNER"
  PROVE  \E r \in Requests, old \in OwnersOf(memberships[id].organizationId) :
           /\ At(r, "transfer.commit") /\ req[r].target = id
           /\ memberships[old].userId = req[r].user
           /\ memberships' = [memberships EXCEPT ![old].role = "ADMIN", ![id].role = "OWNER"]
<1>1. memberships \in [MembershipIds -> Membership \cup {None}]
  BY DEF IInv, TypeOK
<1>2. memberships'[id] # memberships[id] /\ memberships'[id] # None
  BY DEF Live
<1>4. ASSUME NEW r \in Requests, NEW o \in Organizations, NEW j \in MembershipIds, Founds(r, o, j)
      PROVE  FALSE
  BY <1>1, <1>2, <1>4 DEF Founds, InsertMembership, FreshIds, IInv, TablesOK
<1>5. ASSUME NEW r \in Requests, NEW j \in MembershipIds, Joins(r, j) PROVE FALSE
  BY <1>1, <1>2, <1>5 DEF Joins, InsertMembership, FreshIds, IInv, TablesOK
<1>6. ASSUME NEW ids, DeleteMemberships(ids) PROVE FALSE
  BY <1>2, <1>6 DEF DeleteMemberships
<1>7. ASSUME NEW r \in Requests, EditsRole(r) PROVE FALSE
  BY <1>1, <1>2, <1>7 DEF EditsRole, Live
<1>8. PICK r \in Requests : TransferCommit(r)
  BY <1>2, <1>4, <1>5, <1>6, <1>7, StepEffects DEF Leaves, Removes, Dissolves, Closes
<1>9. PICK old \in MembershipIds \ {req[r].target} :
        /\ Live(old)
        /\ memberships[old] = [userId |-> req[r].user, organizationId |-> req[r].org, role |-> "OWNER"]
        /\ memberships' = [memberships EXCEPT ![old].role = "ADMIN", ![req[r].target].role = "OWNER"]
        /\ \A j \in MembershipIds \ {old, req[r].target} : memberships'[j] = memberships[j]
        /\ memberships'[old] = [userId |-> req[r].user, organizationId |-> req[r].org, role |-> "ADMIN"]
  BY <1>8, TransferEffect
<1>10. id = req[r].target
  <2>1. id # old
    <3>1. memberships[old].role = "OWNER" BY <1>9
    <3>2. QED BY <3>1
  <2>2. \A j \in MembershipIds \ {old, req[r].target} : memberships'[j] = memberships[j]
    BY <1>9
  <2>3. QED BY <1>2, <2>1, <2>2
<1>11. memberships[id].organizationId = req[r].org
  BY <1>8, <1>10, TransferRows DEF TransferCommit
<1>12. old \in OwnersOf(memberships[id].organizationId)
  BY <1>9, <1>11 DEF OwnersOf, MembersOf
<1>13. memberships' = [memberships EXCEPT ![old].role = "ADMIN", ![id].role = "OWNER"]
  BY <1>9, <1>10
<1>14. At(r, "transfer.commit") /\ memberships[old].userId = req[r].user
  BY <1>8, <1>9 DEF TransferCommit
<1>15. QED
  BY <1>10, <1>12, <1>13, <1>14, Zenon

(* A membership becomes OWNER only in the commit of a transfer that makes   *)
(* the asking owner of the same organization ADMIN.                         *)
THEOREM OwnershipMovesWhole == Spec => TransferMovesOwnership
<1>1. IInv /\ [Next]_vars
      => [\A id \in MembershipIds :
            (/\ Live(id) /\ memberships[id].role # "OWNER"
             /\ Live(id)' /\ memberships'[id].role = "OWNER")
            => \E r \in Requests, old \in OwnersOf(memberships[id].organizationId) :
                 /\ At(r, "transfer.commit") /\ req[r].target = id
                 /\ memberships[old].userId = req[r].user
                 /\ memberships' = [memberships EXCEPT ![old].role = "ADMIN", ![id].role = "OWNER"]]_vars
  BY NewOwnerStep
<1>2. QED
  BY <1>1, Invariance, PTL DEF Spec, TransferMovesOwnership

LEMMA OwnerLostStep ==
  ASSUME IInv, [Next]_vars, NEW o \in Organizations, OwnersOf(o) # {},
         organizations[o] = "live", organizations'[o] = "live", ~StaleWriteTo(o)
  PROVE  OwnersOf(o)' # {}
<1>1. PICK own \in MembershipIds :
        Live(own) /\ memberships[own].organizationId = o /\ memberships[own].role = "OWNER"
  BY DEF OwnersOf, MembersOf
<1>2. own \in OwnersOf(o) /\ own \in issued /\ memberships \in [MembershipIds -> Membership \cup {None}]
  BY <1>1 DEF IInv, TypeOK, TablesOK, OwnersOf, MembersOf
<1>3. SUFFICES ASSUME memberships'[own] # memberships[own] PROVE OwnersOf(o)' # {}
  BY <1>1 DEF OwnersOf, MembersOf, Live
<1>4. ASSUME NEW r \in Requests, NEW p \in Organizations, NEW id \in MembershipIds, Founds(r, p, id)
      PROVE  FALSE
  BY <1>2, <1>3, <1>4 DEF Founds, InsertMembership, FreshIds
<1>5. ASSUME NEW r \in Requests, NEW id \in MembershipIds, Joins(r, id) PROVE FALSE
  BY <1>2, <1>3, <1>5 DEF Joins, InsertMembership, FreshIds
<1>6. ASSUME NEW ids \in SUBSET MembershipIds, Leaves(ids) PROVE FALSE
  BY <1>1, <1>3, <1>6 DEF Leaves, DeleteMemberships
<1>7. ASSUME NEW r \in Requests, EditsRole(r) \/ Removes(r) PROVE FALSE
  <2>1. req[r].target = own
    BY <1>2, <1>3, <1>7 DEF EditsRole, Removes, DeleteMemberships
  <2>2. QED BY <1>2, <1>7, <2>1 DEF EditsRole, Removes, StaleWriteTo, At
<1>8. ASSUME NEW r \in Requests, Dissolves(r) PROVE FALSE
  <2>1. req[r].org = o
    BY <1>1, <1>3, <1>8 DEF Dissolves, DeleteMemberships
  <2>2. QED BY <1>8, <2>1 DEF Dissolves, IInv, TypeOK
<1>9. ASSUME NEW r \in Requests, Closes(r) PROVE FALSE
  BY <1>1, <1>3, <1>9 DEF Closes, DeleteMemberships
<1>10. ASSUME NEW r \in Requests, TransferCommit(r) PROVE OwnersOf(o)' # {}
  <2>1. PICK old \in MembershipIds \ {req[r].target} :
          /\ memberships[old] = [userId |-> req[r].user, organizationId |-> req[r].org, role |-> "OWNER"]
          /\ \A id \in MembershipIds \ {old, req[r].target} : memberships'[id] = memberships[id]
          /\ memberships'[req[r].target] =
               [userId |-> req[r].peer, organizationId |-> req[r].org, role |-> "OWNER"]
    BY <1>10, TransferEffect
  <2>2. /\ req[r].target \in MembershipIds /\ memberships[req[r].target].role # "OWNER"
        /\ memberships[req[r].target].organizationId = req[r].org
    BY <1>10, TransferRows DEF TransferCommit
  <2>3. req[r].org = o
    BY <1>1, <1>3, <2>1, <2>2
  <2>4. memberships'[req[r].target] # None
    <3>1. /\ req[r].peer \in Users /\ req[r].org \in Organizations
      BY <1>10, TransferRows DEF TransferCommit, IInv, TypeOK
    <3>2. [userId |-> req[r].peer, organizationId |-> req[r].org, role |-> "OWNER"] \in Membership
      BY <3>1
    <3>3. QED BY <2>1, <3>2
  <2>5. req[r].target \in OwnersOf(o)'
    BY <2>1, <2>2, <2>3, <2>4 DEF OwnersOf, MembersOf, Live
  <2>6. QED BY <2>5
<1>11. QED
  BY <1>3, <1>4, <1>5, <1>6, <1>7, <1>8, <1>9, <1>10, StepEffects

(* An organization that stays loses its last OWNER only to a role edit or   *)
(* a removal that read the membership before it became OWNER.               *)
THEOREM OwnerLossHasOneCause == Spec => OwnerLostOnlyToStaleWrite
<1>1. IInv /\ [Next]_vars
      => [\A o \in Organizations :
            (OwnersOf(o) # {} /\ organizations[o] = "live" /\ organizations'[o] = "live")
            => OwnersOf(o)' # {} \/ StaleWriteTo(o)]_vars
  BY OwnerLostStep
<1>2. QED
  BY <1>1, Invariance, PTL DEF Spec, OwnerLostOnlyToStaleWrite

-----------------------------------------------------------------------------
(* Who waits for whom. *)

LEMMA NoRowTwice ==
  /\ InvitationRows \cap MembershipKeys = {}
  /\ InvitationRows \cap (Users \cup Organizations \cup MembershipIds) = {}
  /\ MembershipKeys \cap (Users \cup Organizations \cup MembershipIds) = {}
  BY DEF InvitationRows

(* Every circle of waiting requests contains the deletion of an             *)
(* organization, or the INSERT of a membership that waits for an account    *)
(* which the deletion of the account or a transfer has locked.  In a circle *)
(* without the former nobody has a membership locked and waits, so nobody   *)
(* waits for memberships only, and then nobody has an organization locked   *)
(* and waits.  Without the latter no INSERT waits for its account, hence    *)
(* none for its organization or key; so nobody waits for anything else.     *)
THEOREM DeadlockFree == Spec => []DeadlockOnlyByDissolutionOrInsert
<1>1. IInv => DeadlockOnlyByDissolutionOrInsert
  <2> SUFFICES ASSUME IInv, NEW S \in (SUBSET Requests) \ {{}}, Waiting(S),
                      ~\E r \in S : Dissolving(r),
                      ~\E r, q \in S : InsertMeetsUserLock(r, q)
               PROVE  FALSE
    BY DEF DeadlockOnlyByDissolutionOrInsert
  <2>1. ASSUME NEW r \in S
        PROVE  \E q \in S : /\ q \in Blockers(r)
                            /\ \/ held[q] \cap (Needs(r) \cup References(r)) # {}
                               \/ KeyShared(q) \cap Needs(r) # {}
    BY DEF Waiting, Blockers
  <2>2. \A q \in S : Locals(q)
    BY DEF IInv
  <2>3. \A q \in S : KeyShared(q) # {} => At(q, "insert.user") /\ KeyShared(q) \subseteq Organizations
    BY <2>2 DEF KeyShared, Locals, At
  <2>4. ASSUME NEW q \in S, held[q] # {}
        PROVE  /\ req[q].pc \in {"transfer.lockOrganization", "transfer.lockMemberships", "insert",
                                "insert.user", "account.cancel", "account.commit"}
               /\ held[q] \cap MembershipIds = {}
    <3>1. Needs(q) # {} \/ References(q) # {}
      BY <2>1
    <3>2. req[q].pc \in Holding
      BY <2>2, <2>4 DEF Locals
    <3>3. req[q].pc \notin {"create.commit", "transfer.commit", "account.check"}
      BY <3>1 DEF Needs, TransferNeeds, References, At
    <3>4. req[q].pc \notin {"dissolve.memberships", "dissolve.commit"}
      BY DEF Dissolving
    <3>5. req[q].pc \in {"transfer.lockOrganization", "transfer.lockMemberships", "insert",
                        "insert.user", "account.cancel", "account.commit"}
      BY <3>2, <3>3, <3>4 DEF Holding
    <3>6. req[q].pc \in {"insert", "insert.user"} => held[q] \subseteq InvitationRows \cup MembershipKeys
      BY <2>2 DEF Locals, InvitationRows
    <3>7. QED BY <2>2, <3>5, <3>6, NoRowTwice DEF Locals
  <2>5. \A r \in S : References(r) # {} \/ ~(Needs(r) \subseteq MembershipIds)
    BY <2>1, <2>3, <2>4
  <2>6. ASSUME NEW q \in S, held[q] # {}
        PROVE  /\ req[q].pc \in {"transfer.lockOrganization", "insert", "insert.user", "account.cancel"}
               /\ req[q].pc \in {"transfer.lockOrganization", "account.cancel"} => held[q] \subseteq Users
               /\ req[q].pc = "insert" => held[q] \subseteq InvitationRows
               /\ req[q].pc = "insert.user" => held[q] \subseteq InvitationRows \cup MembershipKeys
    <3>1. At(q, "transfer.lockMemberships") \/ At(q, "account.commit")
          => Needs(q) \subseteq MembershipIds /\ References(q) = {}
      BY NeedsByCounter DEF MembershipOf, MembersOf, MembershipsOf, References, At
    <3>2. req[q].pc \in {"transfer.lockOrganization", "insert", "insert.user", "account.cancel"}
      BY <2>4, <2>5, <2>6, <3>1 DEF At
    <3>3. QED BY <2>2, <3>2 DEF Locals, InvitationRows
  (* No INSERT waits for its account, *)
  <2>7. \A r \in S : ~At(r, "insert.user")
    <3>1. SUFFICES ASSUME NEW r \in S, At(r, "insert.user") PROVE FALSE
      OBVIOUS
    <3>2. Needs(r) = {} /\ References(r) = {req[r].peer} /\ req[r].peer \in Users
      BY <2>2, <3>1, NeedsByCounter DEF References, Locals, At
    <3>3. PICK q \in S : q \in Blockers(r) /\ req[r].peer \in held[q]
      BY <2>1, <3>2
    <3>4. At(q, "transfer.lockOrganization") \/ At(q, "account.cancel")
      BY <2>6, <3>2, <3>3, NoRowTwice DEF At
    <3>5. QED BY <3>1, <3>3, <3>4 DEF InsertMeetsUserLock
  (* nor for its organization or key, *)
  <2>8. \A r \in S : ~At(r, "insert")
    <3>1. SUFFICES ASSUME NEW r \in S, At(r, "insert") PROVE FALSE
      OBVIOUS
    <3>2. Needs(r) \cup References(r) \subseteq MembershipKeys \cup MembershipIds \cup Organizations
      BY <2>2, <3>1, NeedsByCounter DEF References, Locals, At, MembershipOf, MembersOf
    <3>3. PICK q \in S : held[q] \cap (Needs(r) \cup References(r)) # {}
      BY <2>1, <2>3, <2>7
    <3>4. held[q] \subseteq Users \cup InvitationRows
      BY <2>6, <2>7, <3>3 DEF At
    <3>5. QED BY <3>2, <3>3, <3>4, NoRowTwice
  (* so only users are locked, for which only requests without a lock wait. *)
  <2>9. ASSUME NEW q \in S, held[q] # {}
        PROVE  held[q] \subseteq Users /\ (Needs(q) \cup References(q)) \cap Users = {}
    <3>1. At(q, "transfer.lockOrganization") \/ At(q, "account.cancel")
      BY <2>6, <2>7, <2>8, <2>9 DEF At
    <3>2. References(q) = {}
      BY <3>1 DEF References, At
    <3>3. At(q, "transfer.lockOrganization") => Needs(q) \subseteq Organizations
      BY NeedsByCounter
    <3>4. At(q, "account.cancel") => Needs(q) \subseteq InvitationRows
      BY <2>2, NeedsByCounter DEF Locals, At, InvitationRows
    <3>5. QED BY <2>6, <2>9, <3>1, <3>2, <3>3, <3>4, NoRowTwice DEF At
  <2>10. ASSUME NEW r \in S
         PROVE  \E q \in S : held[q] \cap (Needs(r) \cup References(r)) # {}
    BY <2>1, <2>3, <2>7
  <2>11. PICK r \in S : TRUE
    OBVIOUS
  <2>12. PICK q \in S : held[q] # {}
    BY <2>10, <2>11
  <2>13. PICK b \in S : held[b] \cap (Needs(q) \cup References(q)) # {}
    BY <2>10
  <2>14. QED BY <2>9, <2>12, <2>13
<1>2. QED
  BY <1>1, Invariance, PTL

-----------------------------------------------------------------------------
(* The refinement.  While no request edits a role or removes a member, the  *)
(* requests keep exactly one OWNER per live organization and implement      *)
(* Ownership.  The hypothesis is needed: an edit that was checked before a  *)
(* transfer takes the OWNER away (OwnerLostOnlyToStaleWrite).               *)

RoleEdits == {"updateMemberRole", "removeMember"}

(* No request is inside a role edit or a removal. *)
NoRoleEdits ==
  \A r \in Requests :
    req[r].pc \notin {"updateRole.read", "updateRole.write", "remove.read", "remove.write"}

Governed == \A o \in Organizations : organizations[o] = "live" => OwnersOf(o) # {}

GInv == IInv /\ NoRoleEdits /\ Governed

LEMMA NoRoleEditsStep ==
  ASSUME IInv, NoRoleEdits, [Next]_vars, Operations \cap RoleEdits = {}
  PROVE  NoRoleEdits'
<1>1. CASE UNCHANGED vars
  BY <1>1 DEF NoRoleEdits, vars
<1>2. ASSUME NEW r \in Requests, NEW x, x.pc \notin {"updateRole.read", "updateRole.write", "remove.read", "remove.write"},
             req' = [req EXCEPT ![r] = x]
      PROVE  NoRoleEdits'
  BY <1>2 DEF NoRoleEdits, IInv, TypeOK
<1>3. ASSUME NEW r \in Requests, Start(r) PROVE NoRoleEdits'
  <2>1. \A u, o, t, role, op : ~StartUpdateMemberRole(r, u, o, t, role, op)
                               /\ ~StartRemoveMember(r, u, o, t, op)
    BY DEF StartUpdateMemberRole, StartRemoveMember, Begin, RoleEdits
  <2>2. ASSUME NEW u \in Users, StartCreate(r, u) \/ StartDeleteMe(r, u) PROVE NoRoleEdits'
    BY <2>2, <1>2 DEF StartCreate, StartDeleteMe, Begin, Idle
  <2>3. ASSUME NEW u \in Users, NEW o \in Organizations, StartLeave(r, u, o) \/ StartRemove(r, u, o)
        PROVE  NoRoleEdits'
    BY <2>3, <1>2 DEF StartLeave, StartRemove, Begin, Idle
  <2>4. ASSUME NEW u \in Users, NEW o \in Organizations, NEW t \in MembershipIds, StartTransfer(r, u, o, t)
        PROVE  NoRoleEdits'
    BY <2>4, <1>2 DEF StartTransfer, Begin, Idle
  <2>5. ASSUME NEW u \in Users, NEW v \in Users, NEW o \in Organizations, NEW role \in {"ADMIN", "MEMBER"},
               StartAddMember(r, u, o, v, role)
        PROVE  NoRoleEdits'
    BY <2>5, <1>2 DEF StartAddMember, Begin, Idle
  <2>6. ASSUME NEW v \in Users, NEW o \in Organizations, NEW role \in {"ADMIN", "MEMBER"},
               StartAcceptInvitation(r, v, o, role)
        PROVE  NoRoleEdits'
    BY <2>6, <1>2 DEF StartAcceptInvitation, Begin, Idle
  <2>7. QED BY <1>3, <2>1, <2>2, <2>3, <2>4, <2>5, <2>6 DEF Start
<1>4. ASSUME NEW r \in Requests, Reject(r) \/ Answer(r) PROVE NoRoleEdits'
  BY <1>4, <1>2, IdleIsRequest DEF Reject, Answer
<1>5. ASSUME NEW r \in Requests, Statement(r) \/ Abort(r) PROVE NoRoleEdits'
  <2>1. req[r] \in Request
    BY DEF IInv, TypeOK
  <2>2. ASSUME NEW pc \in ProgramCounters \ {"updateRole.read", "updateRole.write", "remove.read", "remove.write"},
               req' = [req EXCEPT ![r] = [req[r] EXCEPT !.pc = pc]]
        PROVE  NoRoleEdits'
    BY <2>1, <2>2, <1>2 DEF Request
  <2>3. CreateLockUser(r) => NoRoleEdits'
    BY <2>2, <1>4 DEF CreateLockUser, Lock, ProgramCounters
  <2>4. TransferLockUser(r) => NoRoleEdits'
    BY <2>1, <1>2, <1>4 DEF TransferLockUser, Lock, Request
  <2>5. TransferLockOrganization(r) \/ TransferLockMemberships(r) => NoRoleEdits'
    BY <2>2, <1>4 DEF TransferLockOrganization, TransferLockMemberships, Lock, ProgramCounters
  <2>6. LeaveDelete(r) => NoRoleEdits'
    BY <2>1, <1>2, <1>4 DEF LeaveDelete, Continue, Request
  <2>7. LeaveCheck(r) \/ AddMemberLookup(r) \/ AcceptClaim(r) \/ InsertRow(r) => NoRoleEdits'
    BY <2>2, <1>4 DEF LeaveCheck, AddMemberLookup, AcceptClaim, InsertRow, Continue, Lock, ProgramCounters
  <2>8. ~(UpdateRoleRead(r) \/ UpdateRoleWrite(r) \/ RemoveRead(r) \/ RemoveWrite(r))
    BY DEF NoRoleEdits, UpdateRoleRead, UpdateRoleWrite, RemoveRead, RemoveWrite, At
  <2>9. DissolveInvitations(r) \/ DissolveMemberships(r) => NoRoleEdits'
    BY <2>2 DEF DissolveInvitations, DissolveMemberships, Lock, ProgramCounters
  <2>10. AccountLockUser(r) \/ AccountCheck(r) \/ AccountCancel(r) => NoRoleEdits'
    BY <2>2, <1>4 DEF AccountLockUser, AccountCheck, AccountCancel, Lock, Continue, ProgramCounters
  <2>11. CreateCommit(r) \/ TransferCommit(r) \/ InsertCommit(r) \/ DissolveCommit(r) \/ AccountCommit(r) \/ Abort(r)
         => NoRoleEdits'
    BY <1>4 DEF CreateCommit, TransferCommit, InsertCommit, DissolveCommit, AccountCommit, Abort
  <2>12. QED
    BY <1>5, <2>3, <2>4, <2>5, <2>6, <2>7, <2>8, <2>9, <2>10, <2>11 DEF Statement
<1>6. QED
  BY <1>1, <1>3, <1>5 DEF Next

LEMMA GovernedStep ==
  ASSUME IInv, NoRoleEdits, Governed, [Next]_vars
  PROVE  Governed'
<1> SUFFICES ASSUME NEW o \in Organizations, organizations'[o] = "live"
             PROVE  OwnersOf(o)' # {}
  BY DEF Governed
<1>1. CASE organizations[o] = "live"
  <2>1. ~StaleWriteTo(o)
    BY DEF NoRoleEdits, StaleWriteTo
  <2>2. QED BY <1>1, <2>1, OwnerLostStep DEF Governed
<1>2. CASE organizations[o] # "live"
  <2>1. organizations \in [Organizations -> {"unissued", "live", "deleted"}]
    BY DEF IInv, TypeOK
  <2>2. ASSUME NEW r \in Requests, Dissolves(r) PROVE FALSE
    BY <1>2, <2>1, <2>2 DEF Dissolves
  <2>3. PICK r \in Requests, p \in Organizations, id \in MembershipIds : Founds(r, p, id)
    BY <1>2, <2>2, StepEffects DEF Joins, TransferCommit, Leaves, EditsRole, Removes, Closes
  <2>4. p = o
    BY <1>2, <2>1, <2>3 DEF Founds
  <2>5. memberships'[id] = [userId |-> req[r].user, organizationId |-> o, role |-> "OWNER"]
    BY <2>3, <2>4 DEF Founds, InsertMembership, IInv, TypeOK
  <2>6. memberships'[id] # None
    <3>1. req[r].user \in Users
      <4>1. req[r].user \in users BY <2>3 DEF Founds
      <4>2. users \subseteq Users BY DEF IInv, TypeOK
      <4>3. QED BY <4>1, <4>2
    <3>2. memberships'[id] \in Membership
      BY <2>5, <3>1
    <3>3. QED BY <3>2
  <2>7. id \in OwnersOf(o)'
    BY <2>5, <2>6 DEF OwnersOf, MembersOf, Live
  <2>8. QED BY <2>7
<1>3. QED BY <1>1, <1>2

(* Without role edits and removals the invariant and Governed hold.         *)
THEOREM GovernedInvariance ==
  ASSUME Operations \cap RoleEdits = {}
  PROVE  Spec => []GInv
<1>1. Init => GInv
  <2>1. Init => NoRoleEdits /\ Governed
    BY DEF Init, NoRoleEdits, Governed, Idle
  <2>2. QED BY <2>1, InitIInv DEF GInv
<1>2. GInv /\ [Next]_vars => GInv'
  BY NextStep, NoRoleEditsStep, GovernedStep DEF GInv
<1>3. QED
  BY <1>1, <1>2, PTL DEF Spec

(* Every live organization has exactly one OWNER when no role edit and no   *)
(* removal can run.                                                         *)
THEOREM OneOwner ==
  ASSUME Operations \cap RoleEdits = {}
  PROVE  Spec => []ExactlyOneOwner
<1>1. GInv => ExactlyOneOwner
  <2> SUFFICES ASSUME GInv, NEW o \in Organizations, organizations[o] = "live"
               PROVE  \E id \in OwnersOf(o) : OwnersOf(o) = {id}
    BY DEF ExactlyOneOwner
  <2>1. PICK id \in OwnersOf(o) : TRUE
    BY DEF GInv, Governed
  <2>2. \A i \in OwnersOf(o) : i = id
    BY DEF GInv, IInv, TablesOK, OwnersOf, MembersOf
  <2>3. QED BY <2>1, <2>2
<1>2. QED
  BY <1>1, GovernedInvariance, PTL

-----------------------------------------------------------------------------
(* The refinement. *)

(* What the mapping gives, without its CHOOSE. *)
OwnerDetermined ==
  \A o \in Organizations :
    /\ organizations[o] = "unissued" => Owner[o] = Unfounded
    /\ organizations[o] = "deleted" => Owner[o] = Dissolved
    /\ organizations[o] = "live" => \A own \in OwnersOf(o) : Owner[o] = memberships[own].userId

LEMMA OwnerIsDetermined == IInv => OwnerDetermined
<1> SUFFICES ASSUME IInv, NEW o \in Organizations
             PROVE  /\ organizations[o] = "unissued" => Owner[o] = Unfounded
                    /\ organizations[o] = "deleted" => Owner[o] = Dissolved
                    /\ organizations[o] = "live" =>
                         \A own \in OwnersOf(o) : Owner[o] = memberships[own].userId
  BY DEF OwnerDetermined
<1>1. organizations[o] # "live" => Owner[o] = IF organizations[o] = "unissued" THEN Unfounded ELSE Dissolved
  BY DEF Owner, OwnerOf, IInv, TypeOK
<1>2. ASSUME organizations[o] = "live", NEW own \in OwnersOf(o)
      PROVE  Owner[o] = memberships[own].userId
  <2>1. \A i \in OwnersOf(o) : i = own
    BY <1>2 DEF IInv, TablesOK, OwnersOf, MembersOf
  <2>2. (CHOOSE id \in OwnersOf(o) : TRUE) = own
    BY <1>2, <2>1
  <2>3. QED BY <1>2, <2>2 DEF Owner, OwnerOf
<1>3. QED BY <1>1, <1>2

(* An organization keeps its owner when its state and its OWNER row stay. *)
LEMMA OwnerKept ==
  ASSUME GInv, OwnerDetermined, OwnerDetermined', NEW o \in Organizations,
         organizations'[o] = organizations[o],
         \A i \in OwnersOf(o) : memberships'[i] = memberships[i]
  PROVE  Owner'[o] = Owner[o]
<1>1. organizations[o] \in {"unissued", "live", "deleted"}
  BY DEF GInv, IInv, TypeOK
<1>2. CASE organizations[o] # "live"
  BY <1>1, <1>2 DEF OwnerDetermined
<1>3. CASE organizations[o] = "live"
  <2>1. PICK own \in OwnersOf(o) : TRUE
    BY <1>3 DEF GInv, Governed
  <2>2. own \in OwnersOf(o)'
    BY <2>1 DEF OwnersOf, MembersOf, Live
  <2>3. QED BY <1>3, <2>1, <2>2 DEF OwnerDetermined
<1>4. QED BY <1>2, <1>3

(* Every step of the requests is a step of Ownership or changes neither     *)
(* the accounts nor the owners.                                             *)
LEMMA StepSimulates ==
  ASSUME GInv, OwnerDetermined, OwnerDetermined', [Next]_vars
  PROVE  [Abstract!Next]_<<users, Owner>>
<1> DEFINE Stutter == UNCHANGED <<users, Owner>>
<1>1. /\ memberships \in [MembershipIds -> Membership \cup {None}]
      /\ organizations \in [Organizations -> {"unissued", "live", "deleted"}]
      /\ users \subseteq Users
      /\ \A id \in MembershipIds : Live(id) => id \in issued /\ memberships[id].userId \in users
  BY DEF GInv, IInv, TypeOK, TablesOK
<1>2. /\ Owner = [o \in Organizations |-> Owner[o]]
      /\ Owner' = [o \in Organizations |-> Owner'[o]]
  BY DEF Owner
<1>3. ASSUME users' = users, organizations' = organizations,
             \A o \in Organizations : \A i \in OwnersOf(o) : memberships'[i] = memberships[i]
      PROVE  Stutter
  <2>1. \A o \in Organizations : Owner'[o] = Owner[o]
    BY <1>3, OwnerKept
  <2>2. QED BY <1>2, <1>3, <2>1
<1>4. CASE UNCHANGED <<users, organizations, memberships>>
  BY <1>3, <1>4
<1>5. ASSUME NEW r \in Requests, NEW p \in Organizations, NEW id \in MembershipIds, Founds(r, p, id)
      PROVE  Abstract!Found(p, req[r].user)
  <2>1. memberships'[id] = [userId |-> req[r].user, organizationId |-> p, role |-> "OWNER"]
        /\ \A i \in MembershipIds \ {id} : memberships'[i] = memberships[i]
    BY <1>1, <1>5 DEF Founds, InsertMembership
  <2>2. memberships'[id] # None
    <3>1. req[r].user \in Users BY <1>1, <1>5 DEF Founds
    <3>2. memberships'[id] \in Membership BY <2>1, <3>1
    <3>3. QED BY <3>2
  <2>3. id \in OwnersOf(p)' /\ organizations'[p] = "live" /\ organizations[p] = "unissued"
    BY <1>1, <1>5, <2>1, <2>2 DEF OwnersOf, MembersOf, Live, Founds, FreshOrganizations
  <2>4. Owner'[p] = req[r].user /\ Owner[p] = Unfounded
    BY <2>1, <2>3 DEF OwnerDetermined
  <2>5. ASSUME NEW o \in Organizations \ {p} PROVE Owner'[o] = Owner[o]
    <3>1. organizations'[o] = organizations[o]
      BY <1>1, <1>5 DEF Founds
    <3>2. \A i \in OwnersOf(o) : memberships'[i] = memberships[i]
      BY <1>1, <1>5, <2>1 DEF Founds, FreshIds, OwnersOf, MembersOf
    <3>3. QED BY <3>1, <3>2, OwnerKept
  <2>6. Owner' = [Owner EXCEPT ![p] = req[r].user]
    BY <1>2, <2>4, <2>5
  <2>7. QED BY <1>5, <2>4, <2>6 DEF Abstract!Found, Founds
<1>6. ASSUME NEW r \in Requests, NEW id \in MembershipIds, Joins(r, id) PROVE Stutter
  BY <1>1, <1>3, <1>6 DEF Joins, InsertMembership, FreshIds, OwnersOf, MembersOf
<1>7. ASSUME NEW r \in Requests, TransferCommit(r)
      PROVE  Abstract!HandOver(req[r].org, req[r].peer)
  <2> DEFINE t == req[r].target
  <2>0. PICK p : p = req[r].org
    OBVIOUS
  <2>1. /\ t \in MembershipIds /\ Live(t) /\ memberships[t] \in Membership
        /\ memberships[t].userId = req[r].peer /\ req[r].peer \in users
        /\ memberships[t].organizationId = p /\ memberships[t].role # "OWNER"
    BY <1>7, <2>0, TransferRows DEF TransferCommit, GInv
  <2>2. PICK old \in MembershipIds \ {t} :
          /\ Live(old)
          /\ memberships[old] = [userId |-> req[r].user, organizationId |-> p, role |-> "OWNER"]
          /\ memberships' \in [MembershipIds -> Membership \cup {None}]
          /\ \A id \in MembershipIds \ {old, t} : memberships'[id] = memberships[id]
          /\ memberships'[t] = [userId |-> req[r].peer, organizationId |-> p, role |-> "OWNER"]
    BY <1>7, <2>0, TransferEffect DEF GInv
  <2>3. p \in Organizations /\ organizations[p] = "live"
    BY <2>1 DEF GInv, IInv, TablesOK
  <2>4. users' = users /\ organizations' = organizations
    BY <1>7 DEF TransferCommit
  <2>5. old \in OwnersOf(p) /\ memberships[old].userId = req[r].user
    BY <2>2 DEF OwnersOf, MembersOf
  <2>6. t \in OwnersOf(p)' /\ memberships'[t].userId = req[r].peer
    <3>1. [userId |-> req[r].peer, organizationId |-> p, role |-> "OWNER"] \in Membership
      BY <1>1, <2>1, <2>3
    <3>2. memberships'[t] # None BY <2>2, <3>1
    <3>3. QED BY <2>1, <2>2, <3>2 DEF OwnersOf, MembersOf, Live
  <2>7. Owner[p] = req[r].user /\ Owner'[p] = req[r].peer
    BY <2>3, <2>4, <2>5, <2>6 DEF OwnerDetermined
  <2>8. req[r].user \in users
    BY <1>1, <2>2, <2>5
  <2>9. req[r].peer # req[r].user
    <3>1. memberships[old].organizationId = p BY <2>2
    <3>2. QED BY <2>1, <2>2, <2>5, <3>1 DEF GInv, IInv, TablesOK
  <2>10. ASSUME NEW o \in Organizations \ {p} PROVE Owner'[o] = Owner[o]
    <3>1. \A i \in OwnersOf(o) : memberships'[i] = memberships[i]
      <4>1. memberships[old].organizationId = p BY <2>2
      <4>2. QED BY <2>1, <2>2, <4>1 DEF OwnersOf, MembersOf
    <3>2. QED BY <2>4, <3>1, OwnerKept
  <2>11. Owner' = [Owner EXCEPT ![p] = req[r].peer]
    BY <1>2, <2>7, <2>10
  <2>12. QED BY <2>0, <2>1, <2>4, <2>7, <2>8, <2>9, <2>11 DEF Abstract!HandOver
<1>8. ASSUME NEW ids \in SUBSET MembershipIds, Leaves(ids) PROVE Stutter
  BY <1>1, <1>3, <1>8 DEF Leaves, DeleteMemberships, OwnersOf, MembersOf
<1>9. ASSUME NEW r \in Requests PROVE ~EditsRole(r) /\ ~Removes(r)
  BY DEF EditsRole, Removes, At, GInv, NoRoleEdits
<1>10. ASSUME NEW r \in Requests, Dissolves(r) PROVE Abstract!Dissolve(req[r].org)
  <2> DEFINE p == req[r].org
  <2>1. p \in Organizations /\ organizations[p] = "live" /\ organizations'[p] = "deleted"
    BY <1>1, <1>10 DEF Dissolves
  <2>2. PICK own \in OwnersOf(p) : TRUE
    BY <2>1 DEF GInv, Governed
  <2>3. Owner[p] \in users /\ Owner'[p] = Dissolved
    BY <1>1, <2>1, <2>2 DEF OwnerDetermined, OwnersOf, MembersOf
  <2>4. ASSUME NEW o \in Organizations \ {p} PROVE Owner'[o] = Owner[o]
    <3>1. organizations'[o] = organizations[o]
      BY <1>1, <1>10 DEF Dissolves
    <3>2. \A i \in OwnersOf(o) : memberships'[i] = memberships[i]
      BY <1>1, <1>10 DEF Dissolves, DeleteMemberships, OwnersOf, MembersOf
    <3>3. QED BY <3>1, <3>2, OwnerKept
  <2>5. Owner' = [Owner EXCEPT ![p] = Dissolved]
    BY <1>2, <2>3, <2>4
  <2>6. QED BY <1>10, <2>3, <2>5 DEF Abstract!Dissolve, Dissolves
<1>11. ASSUME NEW r \in Requests, Closes(r) PROVE Abstract!CloseAccount(req[r].user)
  <2> DEFINE u == req[r].user
  <2>1. \A o \in Organizations : \A i \in OwnersOf(o) : memberships[i].userId # u
    BY <1>11 DEF Closes, MembershipsOf, OwnersOf, MembersOf
  <2>2. ASSUME NEW o \in Organizations PROVE Owner'[o] = Owner[o]
    <3>1. \A i \in OwnersOf(o) : memberships'[i] = memberships[i]
      BY <1>11 DEF Closes, DeleteMemberships, OwnersOf, MembersOf
    <3>2. QED BY <1>11, <3>1, OwnerKept DEF Closes
  <2>3. ASSUME NEW o \in Organizations PROVE Owner[o] # u
    <3>1. CASE organizations[o] = "live"
      <4>1. PICK own \in OwnersOf(o) : TRUE
        BY <3>1 DEF GInv, Governed
      <4>2. QED BY <2>1, <3>1, <4>1 DEF OwnerDetermined
    <3>2. CASE organizations[o] # "live"
      BY <1>1, <1>11, <3>2, NoOwnerValues DEF OwnerDetermined, Closes
    <3>3. QED BY <3>1, <3>2
  <2>4. Owner' = Owner
    BY <1>2, <2>2
  <2>5. QED BY <1>11, <2>3, <2>4 DEF Abstract!CloseAccount, Closes
<1>12. ASSUME NEW r \in Requests, TransferCommit(r) PROVE req[r].org \in Organizations /\ req[r].peer \in Users
  BY <1>1, <1>12, TransferRows DEF TransferCommit, GInv, IInv, TypeOK, Membership
<1>13. ASSUME NEW r \in Requests, NEW p \in Organizations, NEW id \in MembershipIds, Founds(r, p, id)
       PROVE  req[r].user \in Users
  BY <1>1, <1>13 DEF Founds
<1>14. ASSUME NEW r \in Requests, Dissolves(r) PROVE req[r].org \in Organizations
  BY <1>14 DEF Dissolves
<1>15. ASSUME NEW r \in Requests, Closes(r) PROVE req[r].user \in Users
  BY <1>1, <1>15 DEF Closes
<1>16. QED
  BY <1>4, <1>5, <1>6, <1>7, <1>8, <1>9, <1>10, <1>11, <1>12, <1>13, <1>14, <1>15, StepEffects
     DEF Abstract!Next, GInv

(* Without role edits and removals the requests implement Ownership.        *)
THEOREM Refinement ==
  ASSUME Operations \cap RoleEdits = {}
  PROVE  Spec => ImplementsOwnership
<1>1. Init => Abstract!Init
  BY DEF Init, Abstract!Init, Owner, OwnerOf
<1>2. GInv => OwnerDetermined
  BY OwnerIsDetermined DEF GInv
<1>3. GInv /\ OwnerDetermined /\ OwnerDetermined' /\ [Next]_vars => [Abstract!Next]_<<users, Owner>>
  BY StepSimulates
<1>4. QED
  BY <1>1, <1>2, <1>3, GovernedInvariance, PTL DEF Spec, ImplementsOwnership, Abstract!Spec
=============================================================================
