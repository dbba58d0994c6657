-------------------------- MODULE InvitationProofs --------------------------
(***************************************************************************)
(* Proofs that the requests keep the promises of InvitationProperties, for *)
(* any number of organizations, emails, users, invitations and requests.   *)
(*                                                                         *)
(* The argument: a row of the invitation table keeps its organization and  *)
(* email until it is deleted, and never becomes pending again (Evolves); a *)
(* user's email never changes and a user id is never given out twice.  So  *)
(* what a request copied from its invitation stays right (Found), and an   *)
(* invitation claimed under a row lock is still pending when its request   *)
(* commits (Holds).                                                        *)
(***************************************************************************)
EXTENDS InvitationProperties, TLAPS

(* Behind a link, once the invitation was found pending and not expired.    *)
Linked ==
  {"accept.user", "accept.claim", "accept.insert", "join.email", "join.claim", "join.insert"}

(* The program counters of a transaction that holds row locks. *)
Holding ==
  {"accept.insert", "join.insert", "account.scan", "account.cancel", "account.commit",
   "dissolve.members", "dissolve.commit"}

(* The values a request carries at each statement that uses them. *)
Locals(r) ==
  LET q == req[r] IN
  /\ q.pc \in Linked \cup {"create.read", "create.insert", "member.read", "member.insert",
                           "dissolve.invitations", "dissolve.members", "dissolve.commit"}
       => q.organization \in Organizations
  /\ q.pc \in Linked \cup {"create.read", "create.insert", "member.read", "register.read", "register.insert",
                           "account.lock", "account.scan", "account.cancel", "account.commit"}
       => q.email \in Emails
  /\ q.pc \in Linked \cup {"cancel.read", "cancel.write", "decline.read", "decline.write", "expire.write",
                           "accept.read", "join.read"}
       => q.id \in Ids
  /\ q.pc \in {"accept.read", "accept.user", "accept.claim", "accept.insert", "member.insert",
               "account.lock", "account.scan", "account.cancel", "account.commit"}
       => q.user \in registered

(* What a request has read, and may still rely on. *)
Found(r) ==
  LET q == req[r] IN
  /\ q.pc \in Linked =>
       /\ invitation[q.id] # None
       /\ q.id \in Existing =>
            invitation[q.id].organization = q.organization /\ invitation[q.id].email = q.email
  /\ q.pc \in {"accept.claim", "accept.insert"} =>
       \A e \in Emails : account[e] = q.user => e = q.email
  /\ q.pc \in {"account.cancel", "account.commit"} =>
       \A i \in q.seen : i \in Ids /\ invitation[i] # None

(* The rows a transaction has locked, and what they stand for. *)
Holds(r) ==
  LET q == req[r] IN
  /\ q.pc \notin Holding => held[r] = {}
  /\ q.pc \in {"accept.insert", "join.insert"} => held[r] = {q.id} /\ q.id \in Pending
  /\ q.pc = "account.commit" => q.seen \cap Pending \subseteq held[r]
  /\ q.pc \in {"dissolve.members", "dissolve.commit"} => q.seen \cap Ids \subseteq held[r]

LocksExclusive ==
  \A r, q \in Requests : r # q => held[r] \cap held[q] = {}

(* A user has one email. *)
OneEmailPerUser ==
  \A e, f \in Emails : account[e] # None /\ account[e] = account[f] => e = f

IInv ==
  /\ TypeOK
  /\ LocksExclusive
  /\ OneEmailPerUser
  /\ OnePendingPerAddress
  /\ \A r \in Requests : Locals(r) /\ Found(r) /\ Holds(r)

USE NoneIsNoValue, RowsDistinct

-----------------------------------------------------------------------------

LEMMA IdleIsRequest == Idle \in Request /\ Idle.pc = "idle" /\ Idle.seen = {}
  BY DEF Idle, Request, ProgramCounters

LEMMA OwnRequest ==
  ASSUME IInv, NEW r \in Requests
  PROVE  req[r] \in Request
  BY DEF IInv, TypeOK

LEMMA InitIInv == Init => IInv
<1> SUFFICES ASSUME Init PROVE IInv
  OBVIOUS
<1>1. TypeOK
  BY IdleIsRequest DEF Init, TypeOK, Existing
<1>2. OnePendingPerAddress
  BY DEF Init, OnePendingPerAddress, Pending, Existing
<1>3. QED
  BY <1>1, <1>2, IdleIsRequest DEF Init, IInv, LocksExclusive, OneEmailPerUser, Locals, Found, Holds,
     Linked, Holding

-----------------------------------------------------------------------------
(* What a step leaves to the requests that do not take it. *)

(* No user id is given out twice, no row changes hands or turns pending. *)
Evolves ==
  /\ registered \subseteq registered'
  /\ \A e \in Emails : account'[e] \in {account[e], None} \/ account'[e] \notin registered
  /\ \A i \in Ids : invitation[i] # None =>
       /\ invitation'[i] # None
       /\ i \in Existing' =>
            /\ i \in Existing
            /\ invitation'[i].organization = invitation[i].organization
            /\ invitation'[i].email = invitation[i].email
            /\ i \in Pending' => i \in Pending

LEMMA QuietEvolves ==
  ASSUME UNCHANGED tables
  PROVE  Evolves /\ Pending' = Pending /\ Existing' = Existing
  BY DEF tables, Evolves, Pending, Existing

LEMMA Kept ==
  ASSUME IInv, NEW q \in Requests, req'[q] = req[q], held'[q] = held[q], Evolves,
         \A i \in held[q] \cap Pending : i \in Pending'
  PROVE  (Locals(q) /\ Found(q) /\ Holds(q))'
<1>1. Locals(q) /\ Found(q) /\ Holds(q)
  BY DEF IInv
<1>2. registered \subseteq registered' /\ registered \subseteq Users
  BY DEF IInv, TypeOK, Evolves
<1>3. Locals(q)'
  BY <1>1, <1>2 DEF Locals
<1>4. Found(q)'
  <2>1. ASSUME req[q].pc \in Linked
        PROVE  /\ invitation'[req[q].id] # None
               /\ req[q].id \in Existing' =>
                    /\ invitation'[req[q].id].organization = req[q].organization
                    /\ invitation'[req[q].id].email = req[q].email
    <3>1. req[q].id \in Ids
      BY <1>1, <2>1 DEF Locals
    <3>2. QED BY <1>1, <2>1, <3>1 DEF Found, Evolves
  <2>2. ASSUME req[q].pc \in {"accept.claim", "accept.insert"}, NEW e \in Emails, account'[e] = req[q].user
        PROVE  e = req[q].email
    <3>1. req[q].user \in registered /\ req[q].user # None
      BY <1>1, <1>2, <2>2 DEF Locals
    <3>2. account[e] = req[q].user
      BY <2>2, <3>1 DEF Evolves
    <3>3. QED BY <1>1, <2>2, <3>2 DEF Found
  <2>3. req[q].pc \in {"account.cancel", "account.commit"} =>
          \A i \in req[q].seen : i \in Ids /\ invitation'[i] # None
    BY <1>1 DEF Found, Evolves
  <2>4. QED BY <2>1, <2>2, <2>3 DEF Found
<1>5. Holds(q)'
  <2>1. req[q].pc = "account.commit" => req[q].seen \cap Pending' \subseteq held[q]
    <3>1. SUFFICES ASSUME req[q].pc = "account.commit", NEW i \in req[q].seen, i \in Pending'
                   PROVE  i \in held[q]
      OBVIOUS
    <3>2. i \in Ids /\ invitation[i] # None
      BY <1>1, <3>1 DEF Found
    <3>3. i \in Pending
      BY <3>1, <3>2 DEF Evolves, Pending
    <3>4. QED BY <1>1, <3>1, <3>3 DEF Holds
  <2>2. QED BY <1>1, <2>1 DEF Holds
<1>6. QED BY <1>3, <1>4, <1>5

LEMMA OthersKept ==
  ASSUME IInv, NEW r \in Requests, NEW x, NEW h,
         req' = [req EXCEPT ![r] = x],
         held' = [held EXCEPT ![r] = h],
         \A q \in Requests \ {r} : h \cap held[q] = {},
         Evolves,
         \A q \in Requests \ {r} : \A i \in held[q] \cap Pending : i \in Pending'
  PROVE  /\ LocksExclusive'
         /\ \A q \in Requests \ {r} : (Locals(q) /\ Found(q) /\ Holds(q))'
<1>1. LocksExclusive'
  BY DEF IInv, TypeOK, LocksExclusive
<1>2. \A q \in Requests \ {r} : req'[q] = req[q] /\ held'[q] = held[q]
  BY DEF IInv, TypeOK
<1>3. QED BY <1>1, <1>2, Kept

(* A step of r that changes no table keeps the invariant when r's own part  *)
(* is kept and r takes no row another transaction holds.                    *)
LEMMA QuietStep ==
  ASSUME IInv, NEW r \in Requests, NEW x \in Request,
         NEW h \in SUBSET (Users \cup Ids \cup Organizations),
         UNCHANGED tables,
         req' = [req EXCEPT ![r] = x],
         held' = [held EXCEPT ![r] = h],
         \A q \in Requests \ {r} : h \cap held[q] = {},
         x.pc = "idle" => x = Idle /\ h = {},
         Locals(r)', Found(r)', Holds(r)'
  PROVE  IInv'
<1>1. TypeOK'
  BY QuietEvolves DEF IInv, TypeOK, tables
<1>2. LocksExclusive' /\ \A q \in Requests \ {r} : (Locals(q) /\ Found(q) /\ Holds(q))'
  <2>1. Evolves /\ \A q \in Requests \ {r} : \A i \in held[q] \cap Pending : i \in Pending'
    BY QuietEvolves
  <2>2. QED BY <2>1, OthersKept
<1>3. OneEmailPerUser' /\ OnePendingPerAddress'
  BY QuietEvolves DEF IInv, OneEmailPerUser, OnePendingPerAddress, tables
<1>4. QED
  BY <1>1, <1>2, <1>3 DEF IInv

LEMMA RejectStep ==
  ASSUME IInv, NEW r \in Requests, Reject(r)
  PROVE  IInv'
<1>1. req' = [req EXCEPT ![r] = Idle] /\ held' = [held EXCEPT ![r] = {}] /\ UNCHANGED tables
  BY DEF Reject, Answer
<1>2. req'[r] = Idle /\ held'[r] = {}
  BY <1>1 DEF IInv, TypeOK
<1>3. Locals(r)' /\ Found(r)' /\ Holds(r)'
  BY <1>2, IdleIsRequest DEF Locals, Found, Holds, Linked, Holding
<1>4. QED
  BY <1>1, <1>3, IdleIsRequest, QuietStep

(* A request without a lock goes on to a statement that needs none. *)
LEMMA ContinueStep ==
  ASSUME IInv, NEW r \in Requests, NEW x \in Request, Continue(r, x), held[r] = {},
         x.pc \notin Holding \cup {"idle"},
         Locals(r)', Found(r)'
  PROVE  IInv'
<1>1. req' = [req EXCEPT ![r] = x] /\ held' = [held EXCEPT ![r] = {}] /\ UNCHANGED tables
  BY DEF Continue, IInv, TypeOK
<1>2. req'[r] = x /\ held'[r] = {}
  BY <1>1 DEF IInv, TypeOK
<1>3. Holds(r)'
  BY <1>2 DEF Holds, Holding
<1>4. QED
  BY <1>1, <1>3, QuietStep

(* A new request carries the values its first statements use. *)
LEMMA BeginStep ==
  ASSUME IInv, NEW r \in Requests, NEW x \in Request, Begin(r, x),
         x.pc \in {"create.read", "member.read", "register.read", "cancel.read", "decline.read",
                  "join.read", "accept.read", "account.lock", "dissolve.invitations"},
         x.pc \in {"create.read", "member.read", "dissolve.invitations"} => x.organization \in Organizations,
         x.pc \in {"create.read", "member.read", "register.read", "account.lock"} => x.email \in Emails,
         x.pc \in {"cancel.read", "decline.read", "join.read", "accept.read"} => x.id \in Ids,
         x.pc \in {"accept.read", "account.lock"} => x.user \in registered
  PROVE  IInv'
<1>1. Continue(r, x) /\ held[r] = {} /\ req'[r] = x /\ registered' = registered
  BY DEF Begin, Continue, At, IInv, TypeOK, tables
<1>2. Locals(r)' /\ Found(r)'
  BY <1>1 DEF Locals, Found, Linked
<1>3. x.pc \notin Holding \cup {"idle"}
  BY DEF Holding
<1>4. QED
  BY <1>1, <1>2, <1>3, ContinueStep

LEMMA RegisteredUsers ==
  ASSUME IInv
  PROVE  Registered \subseteq registered /\ registered \subseteq Users
         /\ \A e \in Emails : account[e] # None => account[e] \in registered
  BY DEF IInv, TypeOK, Registered

LEMMA StartStep ==
  ASSUME IInv, NEW r \in Requests, Start(r)
  PROVE  IInv'
<1>1. ASSUME NEW o \in Organizations, NEW e \in Emails, NEW pc \in {"create.read", "member.read"},
             Begin(r, [Idle EXCEPT !.pc = pc, !.organization = o, !.email = e])
      PROVE  IInv'
  <2> DEFINE x == [Idle EXCEPT !.pc = pc, !.organization = o, !.email = e]
  <2>1. x \in Request /\ x.pc = pc /\ x.organization = o /\ x.email = e
    BY IdleIsRequest DEF Request, ProgramCounters
  <2>2. Begin(r, x)
    BY <1>1
  <2> HIDE DEF x
  <2>3. QED BY <2>1, <2>2, BeginStep
<1>2. ASSUME NEW i \in Ids, NEW pc \in {"cancel.read", "decline.read", "join.read"}, StartOn(r, pc, i)
      PROVE  IInv'
  <2> DEFINE x == [Idle EXCEPT !.pc = pc, !.id = i]
  <2>1. x \in Request /\ x.pc = pc /\ x.id = i
    BY IdleIsRequest DEF Request, ProgramCounters
  <2>2. Begin(r, x)
    BY <1>2 DEF StartOn
  <2> HIDE DEF x
  <2>3. QED BY <2>1, <2>2, BeginStep
<1>3. ASSUME NEW i \in Ids, NEW u \in Users, StartAccept(r, i, u) PROVE IInv'
  <2> DEFINE x == [Idle EXCEPT !.pc = "accept.read", !.id = i, !.user = u]
  <2>1. x \in Request /\ x.pc = "accept.read" /\ x.id = i /\ x.user = u
    BY IdleIsRequest DEF Request, ProgramCounters
  <2>2. Begin(r, x) /\ u \in registered
    BY <1>3, RegisteredUsers DEF StartAccept
  <2> HIDE DEF x
  <2>3. QED BY <2>1, <2>2, BeginStep
<1>4. ASSUME NEW e \in Emails, StartRegister(r, e) PROVE IInv'
  <2> DEFINE x == [Idle EXCEPT !.pc = "register.read", !.email = e]
  <2>1. x \in Request /\ x.pc = "register.read" /\ x.email = e
    BY IdleIsRequest DEF Request, ProgramCounters
  <2>2. Begin(r, x)
    BY <1>4 DEF StartRegister
  <2> HIDE DEF x
  <2>3. QED BY <2>1, <2>2, BeginStep
<1>5. ASSUME NEW e \in Emails, StartDeleteMe(r, e) PROVE IInv'
  <2>1. PICK u \in Users : u = account[e] /\ u \in registered
    BY <1>5, RegisteredUsers DEF StartDeleteMe
  <2> DEFINE x == [Idle EXCEPT !.pc = "account.lock", !.email = e, !.user = u]
  <2>2. x \in Request /\ x.pc = "account.lock" /\ x.email = e /\ x.user = u
    BY IdleIsRequest DEF Request, ProgramCounters
  <2>3. Begin(r, x)
    BY <1>5, <2>1 DEF StartDeleteMe
  <2> HIDE DEF x
  <2>4. QED BY <2>1, <2>2, <2>3, BeginStep
<1>6. ASSUME NEW o \in Organizations, StartDissolve(r, o) PROVE IInv'
  <2> DEFINE x == [Idle EXCEPT !.pc = "dissolve.invitations", !.organization = o]
  <2>1. x \in Request /\ x.pc = "dissolve.invitations" /\ x.organization = o
    BY IdleIsRequest DEF Request, ProgramCounters
  <2>2. Begin(r, x)
    BY <1>6 DEF StartDissolve
  <2> HIDE DEF x
  <2>3. QED BY <2>1, <2>2, BeginStep
<1>7. QED
  BY <1>1, <1>2, <1>3, <1>4, <1>5, <1>6
     DEF Start, StartCreate, StartAddMember, StartCancel, StartDecline, StartJoin

-----------------------------------------------------------------------------
(* The statements that only read. *)

(* A request without a lock goes on with the values it already carries. *)
LEMMA AdvanceStep ==
  ASSUME IInv, NEW r \in Requests, NEW pc \in ProgramCounters \ (Holding \cup {"idle"}),
         Continue(r, [req[r] EXCEPT !.pc = pc]), held[r] = {},
         \A x \in Request :
           (/\ x.pc = pc /\ x.email = req[r].email /\ x.organization = req[r].organization
            /\ x.user = req[r].user /\ x.id = req[r].id /\ x.seen = req[r].seen
            /\ req'[r] = x) => Locals(r)' /\ Found(r)'
  PROVE  IInv'
<1> DEFINE x == [req[r] EXCEPT !.pc = pc]
<1>1. /\ x \in Request /\ x.pc = pc /\ x.email = req[r].email /\ x.organization = req[r].organization
      /\ x.user = req[r].user /\ x.id = req[r].id /\ x.seen = req[r].seen
  BY OwnRequest DEF Request
<1>2. Continue(r, x)
  OBVIOUS
<1> HIDE DEF x
<1>3. req'[r] = x
  BY <1>2 DEF Continue, IInv, TypeOK
<1>4. QED
  BY <1>1, <1>2, <1>3, ContinueStep

LEMMA CreateReadStep ==
  ASSUME IInv, NEW r \in Requests, CreateRead(r)
  PROVE  IInv'
<1>1. ASSUME Continue(r, [req[r] EXCEPT !.pc = "create.insert"]) PROVE IInv'
  <2>1. held[r] = {} /\ req[r].organization \in Organizations /\ req[r].email \in Emails
    BY DEF CreateRead, IInv, Holds, Locals, At, Holding
  <2>2. "create.insert" \in ProgramCounters \ (Holding \cup {"idle"})
    BY DEF ProgramCounters, Holding
  <2>3. ASSUME NEW x \in Request, x.pc = "create.insert", x.email = req[r].email,
               x.organization = req[r].organization, req'[r] = x
        PROVE  Locals(r)' /\ Found(r)'
    BY <2>1, <2>3 DEF Locals, Found, Linked
  <2>4. QED BY <1>1, <2>1, <2>2, <2>3, AdvanceStep
<1>2. QED
  BY <1>1, RejectStep DEF CreateRead

LEMMA CancelReadStep ==
  ASSUME IInv, NEW r \in Requests, CancelRead(r)
  PROVE  IInv'
<1>1. ASSUME Continue(r, [req[r] EXCEPT !.pc = "cancel.write"]) PROVE IInv'
  <2>1. held[r] = {} /\ req[r].id \in Ids
    BY DEF CancelRead, IInv, Holds, Locals, At, Holding
  <2>2. "cancel.write" \in ProgramCounters \ (Holding \cup {"idle"})
    BY DEF ProgramCounters, Holding
  <2>3. ASSUME NEW x \in Request, x.pc = "cancel.write", x.id = req[r].id, req'[r] = x
        PROVE  Locals(r)' /\ Found(r)'
    BY <2>1, <2>3 DEF Locals, Found, Linked
  <2>4. QED BY <1>1, <2>1, <2>2, <2>3, AdvanceStep
<1>2. QED
  BY <1>1, RejectStep DEF CancelRead

LEMMA RegisterReadStep ==
  ASSUME IInv, NEW r \in Requests, RegisterRead(r)
  PROVE  IInv'
<1>1. ASSUME Continue(r, [req[r] EXCEPT !.pc = "register.insert"]) PROVE IInv'
  <2>1. held[r] = {} /\ req[r].email \in Emails
    BY DEF RegisterRead, IInv, Holds, Locals, At, Holding
  <2>2. "register.insert" \in ProgramCounters \ (Holding \cup {"idle"})
    BY DEF ProgramCounters, Holding
  <2>3. ASSUME NEW x \in Request, x.pc = "register.insert", x.email = req[r].email, req'[r] = x
        PROVE  Locals(r)' /\ Found(r)'
    BY <2>1, <2>3 DEF Locals, Found, Linked
  <2>4. QED BY <1>1, <2>1, <2>2, <2>3, AdvanceStep
<1>2. QED
  BY <1>1, RejectStep DEF RegisterRead

LEMMA JoinEmailStep ==
  ASSUME IInv, NEW r \in Requests, JoinEmail(r)
  PROVE  IInv'
<1>1. ASSUME Continue(r, [req[r] EXCEPT !.pc = "join.claim"]) PROVE IInv'
  <2>1. held[r] = {} /\ Locals(r) /\ Found(r) /\ req[r].pc = "join.email"
    BY DEF JoinEmail, IInv, Holds, At, Holding
  <2>2. "join.claim" \in ProgramCounters \ (Holding \cup {"idle"})
    BY DEF ProgramCounters, Holding
  <2>3. ASSUME NEW x \in Request, x.pc = "join.claim", x.id = req[r].id, x.email = req[r].email,
               x.organization = req[r].organization, req'[r] = x
        PROVE  Locals(r)' /\ Found(r)'
    BY <1>1, <2>1, <2>3, QuietEvolves DEF Locals, Found, Linked, Continue, tables
  <2>4. QED BY <1>1, <2>1, <2>2, <2>3, AdvanceStep
<1>2. QED
  BY <1>1, RejectStep DEF JoinEmail

(* The user has the invited email, and nobody else ever will have had both. *)
LEMMA AcceptUserStep ==
  ASSUME IInv, NEW r \in Requests, AcceptUser(r)
  PROVE  IInv'
<1>1. ASSUME account[req[r].email] = req[r].user, Continue(r, [req[r] EXCEPT !.pc = "accept.claim"])
      PROVE  IInv'
  <2>1. held[r] = {} /\ Locals(r) /\ Found(r) /\ req[r].pc = "accept.user"
    BY DEF AcceptUser, IInv, Holds, At, Holding
  <2>2. "accept.claim" \in ProgramCounters \ (Holding \cup {"idle"})
    BY DEF ProgramCounters, Holding
  <2>3. req[r].email \in Emails /\ req[r].user # None
    BY <2>1, RegisteredUsers DEF Locals, Linked
  <2>4. \A e \in Emails : account[e] = req[r].user => e = req[r].email
    BY <1>1, <2>3 DEF IInv, OneEmailPerUser
  <2>5. ASSUME NEW x \in Request, x.pc = "accept.claim", x.id = req[r].id, x.email = req[r].email,
               x.organization = req[r].organization, x.user = req[r].user, req'[r] = x
        PROVE  Locals(r)' /\ Found(r)'
    BY <1>1, <2>1, <2>4, <2>5, QuietEvolves DEF Locals, Found, Linked, Continue, tables
  <2>6. QED BY <1>1, <2>1, <2>2, <2>5, AdvanceStep
<1>2. QED
  BY <1>1, RejectStep DEF AcceptUser

LEMMA FindPendingValidStep ==
  ASSUME IInv, NEW r \in Requests, NEW next \in {"decline.write", "accept.user", "join.email"},
         req[r].pc \in {"decline.read", "accept.read", "join.read"},
         next = "accept.user" => req[r].pc = "accept.read",
         FindPendingValid(r, next)
  PROVE  IInv'
<1>1. ASSUME Continue(r, [req[r] EXCEPT !.pc = "expire.write"]) PROVE IInv'
  <2>1. "expire.write" \in ProgramCounters \ (Holding \cup {"idle"})
    BY DEF ProgramCounters, Holding
  <2>2. held[r] = {} /\ req[r].id \in Ids
    BY DEF IInv, Holds, Locals, Holding
  <2>3. ASSUME NEW x \in Request, x.pc = "expire.write", x.id = req[r].id, req'[r] = x
        PROVE  Locals(r)' /\ Found(r)'
    BY <2>2, <2>3 DEF Locals, Found, Linked
  <2>4. QED BY <1>1, <2>1, <2>2, <2>3, AdvanceStep
<1>2. ASSUME req[r].id \in Pending,
             Continue(r, [req[r] EXCEPT !.pc = next, !.email = invitation[req[r].id].email,
                                        !.organization = invitation[req[r].id].organization])
      PROVE  IInv'
  <2>1. /\ held[r] = {} /\ req[r].id \in Ids /\ Locals(r)
        /\ req[r].pc = "accept.read" => req[r].user \in registered
    BY DEF IInv, Holds, Locals, Holding
  <2>2. invitation[req[r].id] \in Invitation /\ invitation[req[r].id] # None
    BY <1>2 DEF IInv, TypeOK, Pending, Existing
  <2>3. PICK e \in Emails, o \in Organizations :
          e = invitation[req[r].id].email /\ o = invitation[req[r].id].organization
    BY <2>2 DEF Invitation
  <2> DEFINE x == [req[r] EXCEPT !.pc = next, !.email = e, !.organization = o]
  <2>4. /\ x \in Request /\ x.pc = next /\ x.email = e /\ x.organization = o
        /\ x.user = req[r].user /\ x.id = req[r].id
    BY OwnRequest DEF Request, ProgramCounters
  <2>5. Continue(r, x)
    BY <1>2, <2>3
  <2> HIDE DEF x
  <2>6. req'[r] = x /\ UNCHANGED tables
    BY <2>5 DEF Continue, IInv, TypeOK
  <2>7. Locals(r)'
    BY <2>1, <2>4, <2>6 DEF Locals, tables, Linked
  <2>8. Found(r)'
    BY <2>2, <2>3, <2>4, <2>6 DEF Found, tables, Linked
  <2>9. x.pc \notin Holding \cup {"idle"}
    BY <2>4 DEF Holding
  <2>10. QED BY <2>1, <2>4, <2>5, <2>7, <2>8, <2>9, ContinueStep
<1>3. QED
  BY <1>1, <1>2, RejectStep DEF FindPendingValid

LEMMA AddMemberReadStep ==
  ASSUME IInv, NEW r \in Requests, AddMemberRead(r)
  PROVE  IInv'
<1>1. ASSUME account[req[r].email] # None,
             Continue(r, [req[r] EXCEPT !.pc = "member.insert", !.user = account[req[r].email]])
      PROVE  IInv'
  <2>1. held[r] = {} /\ req[r].organization \in Organizations /\ req[r].email \in Emails
    BY DEF AddMemberRead, IInv, Holds, Locals, At, Holding
  <2>2. PICK u \in registered : u = account[req[r].email]
    BY <1>1, <2>1, RegisteredUsers
  <2>3. u \in Users
    BY RegisteredUsers
  <2> DEFINE x == [req[r] EXCEPT !.pc = "member.insert", !.user = u]
  <2>4. x \in Request /\ x.pc = "member.insert" /\ x.user = u /\ x.organization = req[r].organization
    BY <2>3, OwnRequest DEF Request, ProgramCounters
  <2>5. Continue(r, x)
    BY <1>1, <2>2
  <2> HIDE DEF x
  <2>6. req'[r] = x /\ UNCHANGED tables
    BY <2>5 DEF Continue, IInv, TypeOK
  <2>7. Locals(r)' /\ Found(r)'
    BY <2>1, <2>4, <2>6 DEF Locals, Found, tables, Linked
  <2>8. x.pc \notin Holding \cup {"idle"}
    BY <2>4 DEF Holding
  <2>9. QED BY <2>1, <2>4, <2>5, <2>7, <2>8, ContinueStep
<1>2. QED
  BY <1>1, RejectStep DEF AddMemberRead

-----------------------------------------------------------------------------
(* The statements that lock. *)

(* What a request may hold besides the rows its next statement locks. *)
LEMMA LockStep ==
  ASSUME IInv, NEW r \in Requests, NEW x \in Request, Blockers(r) = {},
         Needs(r) \subseteq Users \cup Ids \cup Organizations,
         held' = [held EXCEPT ![r] = @ \cup Needs(r)],
         req' = [req EXCEPT ![r] = x],
         UNCHANGED tables,
         x.pc # "idle",
         (req'[r] = x /\ held'[r] = held[r] \cup Needs(r)) => Locals(r)' /\ Found(r)' /\ Holds(r)'
  PROVE  IInv'
<1>1. PICK h \in SUBSET (Users \cup Ids \cup Organizations) : h = held[r] \cup Needs(r)
  BY DEF IInv, TypeOK
<1>2. held' = [held EXCEPT ![r] = h] /\ held'[r] = h /\ req'[r] = x
  BY <1>1 DEF IInv, TypeOK
<1>3. \A q \in Requests \ {r} : h \cap held[q] = {}
  <2>1. \A q \in Requests \ {r} : held[r] \cap held[q] = {}
    BY DEF IInv, LocksExclusive
  <2>2. \A q \in Requests \ {r} : held[q] \cap Needs(r) = {}
    BY DEF Blockers
  <2>3. QED BY <1>1, <2>1, <2>2
<1>4. QED
  BY <1>1, <1>2, <1>3, QuietStep

LEMMA ClaimStep ==
  ASSUME IInv, NEW r \in Requests,
         \/ At(r, "accept.claim") /\ Claim(r, "accept.insert")
         \/ At(r, "join.claim") /\ Claim(r, "join.insert")
  PROVE  IInv'
<1>1. ASSUME NEW pc \in {"accept.insert", "join.insert"},
             req[r].pc = IF pc = "accept.insert" THEN "accept.claim" ELSE "join.claim",
             req[r].id \in Pending, Lock(r, pc)
      PROVE  IInv'
  <2>1. held[r] = {} /\ Locals(r) /\ Found(r) /\ req[r].id \in Ids
    BY <1>1 DEF IInv, Holds, Locals, Holding, Linked
  <2>2. Needs(r) = {req[r].id}
    BY <1>1 DEF Needs
  <2> DEFINE x == [req[r] EXCEPT !.pc = pc]
  <2>3. /\ x \in Request /\ x.pc = pc /\ x.email = req[r].email /\ x.organization = req[r].organization
        /\ x.user = req[r].user /\ x.id = req[r].id /\ x.seen = req[r].seen
    BY OwnRequest DEF Request, ProgramCounters
  <2>4. req' = [req EXCEPT ![r] = x] /\ UNCHANGED tables /\ Blockers(r) = {}
        /\ held' = [held EXCEPT ![r] = @ \cup Needs(r)]
    BY <1>1 DEF Lock
  <2> HIDE DEF x
  <2>5. ASSUME req'[r] = x, held'[r] = held[r] \cup Needs(r)
        PROVE  Locals(r)' /\ Found(r)' /\ Holds(r)'
    <3>1. Locals(r)'
      BY <1>1, <2>1, <2>3, <2>4, <2>5 DEF Locals, Linked, tables
    <3>2. Found(r)'
      BY <1>1, <2>1, <2>3, <2>4, <2>5, QuietEvolves DEF Found, Linked, tables
    <3>3. Holds(r)'
      BY <1>1, <2>1, <2>2, <2>3, <2>4, <2>5, QuietEvolves DEF Holds, Holding
    <3>4. QED BY <3>1, <3>2, <3>3
  <2>6. QED BY <2>1, <2>2, <2>3, <2>4, <2>5, <1>1, LockStep
<1>2. QED
  BY <1>1, RejectStep DEF Claim, At

LEMMA AccountLockStep ==
  ASSUME IInv, NEW r \in Requests, AccountLock(r)
  PROVE  IInv'
<1>1. ASSUME req[r].user \in Registered, Lock(r, "account.scan") PROVE IInv'
  <2>1. req[r].email \in Emails /\ req[r].user \in registered /\ req[r].user \in Users
    BY RegisteredUsers DEF AccountLock, IInv, Locals, At
  <2>2. Needs(r) = {req[r].user}
    BY <1>1 DEF AccountLock, Needs, At
  <2> DEFINE x == [req[r] EXCEPT !.pc = "account.scan"]
  <2>3. x \in Request /\ x.pc = "account.scan" /\ x.email = req[r].email /\ x.user = req[r].user
    BY OwnRequest DEF Request, ProgramCounters
  <2>4. req' = [req EXCEPT ![r] = x] /\ UNCHANGED tables /\ Blockers(r) = {}
        /\ held' = [held EXCEPT ![r] = @ \cup Needs(r)]
    BY <1>1 DEF Lock
  <2> HIDE DEF x
  <2>5. ASSUME req'[r] = x PROVE Locals(r)' /\ Found(r)' /\ Holds(r)'
    BY <2>1, <2>3, <2>4, <2>5 DEF Locals, Found, Holds, Linked, Holding, tables
  <2>6. QED BY <2>1, <2>2, <2>3, <2>4, <2>5, LockStep
<1>2. QED
  BY <1>1, RejectStep DEF AccountLock

LEMMA AccountScanStep ==
  ASSUME IInv, NEW r \in Requests, AccountScan(r)
  PROVE  IInv'
<1>1. req[r].email \in Emails /\ req[r].user \in registered /\ held \in [Requests -> SUBSET (Users \cup Ids \cup Organizations)]
  BY DEF AccountScan, IInv, TypeOK, Locals, At
<1>2. PICK seen \in SUBSET Ids : seen = PendingTo(req[r].email) /\ \A i \in seen : invitation[i] # None
  <2>1. PendingTo(req[r].email) \subseteq Ids /\ \A i \in PendingTo(req[r].email) : invitation[i] # None
    BY DEF PendingTo, Pending, Existing
  <2>2. QED BY <2>1
<1> DEFINE x == [req[r] EXCEPT !.pc = "account.cancel", !.seen = seen]
<1>3. x \in Request /\ x.pc = "account.cancel" /\ x.email = req[r].email /\ x.user = req[r].user /\ x.seen = seen
  BY OwnRequest DEF Request, ProgramCounters
<1>4. Continue(r, x)
  BY <1>2 DEF AccountScan
<1> HIDE DEF x
<1>5. req' = [req EXCEPT ![r] = x] /\ held' = [held EXCEPT ![r] = held[r]] /\ UNCHANGED tables /\ req'[r] = x
  BY <1>1, <1>4 DEF Continue, IInv, TypeOK
<1>6. Locals(r)' /\ Found(r)' /\ Holds(r)'
  BY <1>1, <1>2, <1>3, <1>5 DEF Locals, Found, Holds, Linked, Holding, tables
<1>7. held[r] \in SUBSET (Users \cup Ids \cup Organizations) /\ \A q \in Requests \ {r} : held[r] \cap held[q] = {}
  BY <1>1 DEF IInv, LocksExclusive
<1>8. QED
  BY <1>3, <1>5, <1>6, <1>7, QuietStep

LEMMA AccountCancelStep ==
  ASSUME IInv, NEW r \in Requests, AccountCancel(r)
  PROVE  IInv'
<1>1. /\ req[r].email \in Emails /\ req[r].user \in registered
      /\ \A i \in req[r].seen : i \in Ids /\ invitation[i] # None
  BY DEF AccountCancel, IInv, Locals, Found, At
<1>2. Needs(r) = req[r].seen \cap Pending /\ Pending \subseteq Ids
  BY DEF AccountCancel, Needs, At, Pending, Existing
<1> DEFINE x == [req[r] EXCEPT !.pc = "account.commit"]
<1>3. /\ x \in Request /\ x.pc = "account.commit" /\ x.email = req[r].email
      /\ x.user = req[r].user /\ x.seen = req[r].seen
  BY OwnRequest DEF Request, ProgramCounters
<1>4. req' = [req EXCEPT ![r] = x] /\ UNCHANGED tables /\ Blockers(r) = {}
      /\ held' = [held EXCEPT ![r] = @ \cup Needs(r)]
  BY DEF AccountCancel, Lock
<1> HIDE DEF x
<1>5. ASSUME req'[r] = x, held'[r] = held[r] \cup Needs(r)
      PROVE  Locals(r)' /\ Found(r)' /\ Holds(r)'
  <2>1. Locals(r)' /\ Found(r)'
    BY <1>1, <1>3, <1>4, <1>5 DEF Locals, Found, Linked, tables
  <2>2. Holds(r)'
    BY <1>2, <1>3, <1>4, <1>5, QuietEvolves DEF Holds, Holding
  <2>3. QED BY <2>1, <2>2
<1>6. QED BY <1>2, <1>3, <1>4, <1>5, LockStep

LEMMA DissolveInvitationsStep ==
  ASSUME IInv, NEW r \in Requests, DissolveInvitations(r)
  PROVE  IInv'
<1>1. req[r].organization \in Organizations
  BY DEF DissolveInvitations, IInv, Locals, At
<1>2. PICK seen \in SUBSET Ids : seen = Needs(r)
  BY DEF DissolveInvitations, Needs, At, InvitationsOf, Existing
<1> DEFINE x == [req[r] EXCEPT !.pc = "dissolve.members", !.seen = seen]
<1>3. x \in Request /\ x.pc = "dissolve.members" /\ x.organization = req[r].organization /\ x.seen = seen
  BY OwnRequest DEF Request, ProgramCounters
<1>4. req' = [req EXCEPT ![r] = x] /\ UNCHANGED tables /\ Blockers(r) = {}
      /\ held' = [held EXCEPT ![r] = @ \cup Needs(r)]
  BY <1>2 DEF DissolveInvitations, IInv, TypeOK
<1> HIDE DEF x
<1>5. ASSUME req'[r] = x, held'[r] = held[r] \cup Needs(r)
      PROVE  Locals(r)' /\ Found(r)' /\ Holds(r)'
  BY <1>1, <1>2, <1>3, <1>5 DEF Locals, Found, Holds, Linked, Holding
<1>6. QED BY <1>2, <1>3, <1>4, <1>5, LockStep

LEMMA DissolveMembersStep ==
  ASSUME IInv, NEW r \in Requests, DissolveMembers(r)
  PROVE  IInv'
<1>1. req[r].organization \in Organizations /\ req[r].seen \cap Ids \subseteq held[r]
  BY DEF DissolveMembers, IInv, Locals, Holds, At
<1>2. Needs(r) = {req[r].organization}
  BY DEF DissolveMembers, Needs, At
<1>3. PICK seen \in SUBSET (Ids \cup Users) :
        seen = req[r].seen \cup MembersOf(req[r].organization) /\ seen \cap Ids = req[r].seen \cap Ids
  <2>1. req[r].seen \subseteq Ids \cup Users
    BY OwnRequest DEF Request
  <2>2. MembersOf(req[r].organization) \subseteq Users
    BY DEF MembersOf
  <2> DEFINE all == req[r].seen \cup MembersOf(req[r].organization)
  <2>3. all \in SUBSET (Ids \cup Users)
    BY <2>1, <2>2
  <2>4. all \cap Ids = req[r].seen \cap Ids
    BY <2>2
  <2>5. QED BY <2>3, <2>4
<1> DEFINE x == [req[r] EXCEPT !.pc = "dissolve.commit", !.seen = seen]
<1>4. x \in Request /\ x.pc = "dissolve.commit" /\ x.organization = req[r].organization /\ x.seen = seen
  BY OwnRequest DEF Request, ProgramCounters
<1>5. req' = [req EXCEPT ![r] = x] /\ UNCHANGED tables /\ Blockers(r) = {}
      /\ held' = [held EXCEPT ![r] = @ \cup Needs(r)]
  BY <1>3 DEF DissolveMembers, IInv, TypeOK
<1> HIDE DEF x
<1>6. ASSUME req'[r] = x, held'[r] = held[r] \cup Needs(r)
      PROVE  Locals(r)' /\ Found(r)' /\ Holds(r)'
  BY <1>1, <1>3, <1>4, <1>6 DEF Locals, Found, Holds, Linked, Holding
<1>7. QED BY <1>1, <1>2, <1>4, <1>5, <1>6, LockStep

-----------------------------------------------------------------------------
(* The statements that write. *)

(* What a write has to keep of the tables' types. *)
TablesTyped ==
  /\ account \in [Emails -> registered \cup {None}]
  /\ organizations \subseteq Organizations
  /\ members \subseteq organizations \X registered
  /\ invitation \in [Ids -> Invitation \cup {None, Gone}]
  /\ \A i \in Existing : invitation[i].organization \in organizations
  /\ registered \subseteq Users

LEMMA AnswerStep ==
  ASSUME IInv, NEW r \in Requests, Answer(r), TablesTyped', Evolves,
         OneEmailPerUser', OnePendingPerAddress',
         \A q \in Requests \ {r} : \A i \in held[q] \cap Pending : i \in Pending'
  PROVE  IInv'
<1>1. req' = [req EXCEPT ![r] = Idle] /\ held' = [held EXCEPT ![r] = {}] /\ req'[r] = Idle /\ held'[r] = {}
  BY DEF Answer, IInv, TypeOK
<1>2. TypeOK'
  BY <1>1, IdleIsRequest DEF IInv, TypeOK, TablesTyped
<1>3. LocksExclusive' /\ \A q \in Requests \ {r} : (Locals(q) /\ Found(q) /\ Holds(q))'
  <2>1. \A q \in Requests \ {r} : {} \cap held[q] = {}
    OBVIOUS
  <2>2. QED BY <1>1, <2>1, OthersKept
<1>4. (Locals(r) /\ Found(r) /\ Holds(r))'
  BY <1>1, IdleIsRequest DEF Locals, Found, Holds, Linked, Holding
<1>5. QED
  BY <1>2, <1>3, <1>4 DEF IInv

(* UPDATE ... SET status on pending rows. *)
LEMMA SettledRows ==
  ASSUME IInv, NEW ids \in SUBSET Pending, NEW status \in Statuses \ {"PENDING"},
         invitation' = WithStatus(ids, status)
  PROVE  /\ \A i \in ids : /\ invitation'[i] \in Invitation /\ invitation'[i].status = status
                           /\ invitation'[i].organization = invitation[i].organization
                           /\ invitation'[i].email = invitation[i].email
         /\ \A i \in Ids \ ids : invitation'[i] = invitation[i]
         /\ invitation' \in [Ids -> Invitation \cup {None, Gone}]
         /\ Existing' = Existing /\ Pending' = Pending \ ids
<1>1. ids \subseteq Ids /\ invitation \in [Ids -> Invitation \cup {None, Gone}]
      /\ \A i \in ids : invitation[i] \in Invitation
  BY DEF IInv, TypeOK, Pending, Existing
<1>2. ASSUME NEW i \in ids
      PROVE  /\ invitation'[i] \in Invitation /\ invitation'[i].status = status
             /\ invitation'[i].organization = invitation[i].organization
             /\ invitation'[i].email = invitation[i].email
  <2>1. PICK row \in Invitation : row = invitation[i]
    BY <1>1
  <2>2. invitation'[i] = [row EXCEPT !.status = status]
    BY <1>1, <2>1 DEF WithStatus
  <2>3. QED BY <2>1, <2>2 DEF Invitation
<1>3. \A i \in Ids \ ids : invitation'[i] = invitation[i]
  BY DEF WithStatus
<1>4. invitation' \in [Ids -> Invitation \cup {None, Gone}]
  <2>1. invitation' = [i \in Ids |-> invitation'[i]]
    BY DEF WithStatus
  <2>2. \A i \in Ids : invitation'[i] \in Invitation \cup {None, Gone}
    BY <1>1, <1>2, <1>3
  <2>3. QED BY <2>1, <2>2
<1>5. Existing' = Existing
  <2>1. \A i \in ids : invitation'[i] \notin {None, Gone}
    BY <1>2
  <2>2. QED BY <1>1, <1>3, <2>1 DEF Existing, Pending
<1>6. Pending' = Pending \ ids
  BY <1>1, <1>2, <1>3, <1>5 DEF Pending, Existing
<1>7. QED BY <1>2, <1>3, <1>4, <1>5, <1>6

LEMMA SettleStep ==
  ASSUME IInv, NEW r \in Requests, Answer(r),
         NEW ids \in SUBSET Pending, NEW status \in Statuses \ {"PENDING"},
         invitation' = WithStatus(ids, status),
         \A q \in Requests \ {r} : held[q] \cap ids = {},
         organizations' = organizations,
         registered \subseteq registered', registered' \subseteq Users,
         account' \in [Emails -> registered' \cup {None}],
         \A e \in Emails : account'[e] \in {account[e], None} \/ account'[e] \notin registered,
         OneEmailPerUser',
         members' \subseteq organizations \X registered'
  PROVE  IInv'
<1>1. /\ \A i \in ids : /\ invitation'[i] \in Invitation
                        /\ invitation'[i].organization = invitation[i].organization
                        /\ invitation'[i].email = invitation[i].email
      /\ \A i \in Ids \ ids : invitation'[i] = invitation[i]
      /\ invitation' \in [Ids -> Invitation \cup {None, Gone}]
      /\ Existing' = Existing /\ Pending' = Pending \ ids
  BY SettledRows
<1>2. ids \subseteq Existing /\ Existing \subseteq Ids /\ \A i \in ids : invitation'[i] # None
  BY <1>1 DEF Pending, Existing
<1>3. Evolves
  <2>1. \A i \in Ids : invitation[i] # None =>
          /\ invitation'[i] # None
          /\ i \in Existing' =>
               /\ i \in Existing
               /\ invitation'[i].organization = invitation[i].organization
               /\ invitation'[i].email = invitation[i].email
               /\ i \in Pending' => i \in Pending
    BY <1>1, <1>2
  <2>2. QED BY <2>1 DEF Evolves
<1>4. TablesTyped'
  BY <1>1, <1>2 DEF IInv, TypeOK, TablesTyped
<1>5. OnePendingPerAddress'
  <2>1. \A i \in Pending' : i \in Pending /\ invitation'[i] = invitation[i]
    BY <1>1 DEF Pending, Existing
  <2>2. QED BY <2>1 DEF IInv, OnePendingPerAddress
<1>6. \A q \in Requests \ {r} : \A i \in held[q] \cap Pending : i \in Pending'
  BY <1>1
<1>7. QED BY <1>3, <1>4, <1>5, <1>6, AnswerStep

(* An UPDATE outside a transaction, which waits for whoever holds the row.  *)
LEMMA SettleAloneStep ==
  ASSUME IInv, NEW r \in Requests,
         NEW status \in {"CANCELED", "EXPIRED", "DECLINED"},
         req[r].pc \in {"cancel.write", "decline.write", "expire.write"}, Settle(r, status)
  PROVE  IInv'
<1>1. Needs(r) = {req[r].id} \cap Pending
  BY DEF Needs
<1>2. \A q \in Requests \ {r} : held[q] \cap ({req[r].id} \cap Pending) = {}
  BY <1>1 DEF Settle, Blockers
<1>3. {req[r].id} \cap Pending \in SUBSET Pending /\ status \in Statuses \ {"PENDING"}
  BY DEF Statuses
<1>4. /\ Answer(r) /\ invitation' = WithStatus({req[r].id} \cap Pending, status)
      /\ UNCHANGED <<account, organizations, members, registered>>
  BY DEF Settle
<1>5. /\ account \in [Emails -> registered \cup {None}] /\ members \subseteq organizations \X registered
      /\ registered \subseteq Users /\ OneEmailPerUser
  BY DEF IInv, TypeOK
<1>6. OneEmailPerUser'
  BY <1>4, <1>5 DEF OneEmailPerUser
<1>7. QED
  BY <1>2, <1>3, <1>4, <1>5, <1>6, SettleStep

(* What a claim under a row lock still finds when its transaction commits.  *)
LEMMA ClaimedRow ==
  ASSUME IInv, NEW r \in Requests, req[r].pc \in {"accept.insert", "join.insert"}
  PROVE  /\ req[r].id \in Pending /\ {req[r].id} \in SUBSET Pending
         /\ req[r].email \in Emails /\ req[r].organization \in Organizations
         /\ invitation[req[r].id].organization = req[r].organization
         /\ invitation[req[r].id].email = req[r].email
         /\ \A q \in Requests \ {r} : held[q] \cap {req[r].id} = {}
<1>1. Locals(r) /\ Found(r) /\ Holds(r)
  BY DEF IInv
<1>2. req[r].id \in Pending /\ held[r] = {req[r].id}
  BY <1>1 DEF Holds
<1>3. /\ req[r].email \in Emails /\ req[r].organization \in Organizations
      /\ invitation[req[r].id].organization = req[r].organization
      /\ invitation[req[r].id].email = req[r].email
  BY <1>1, <1>2 DEF Locals, Found, Linked, Pending
<1>4. \A q \in Requests \ {r} : held[q] \cap {req[r].id} = {}
  BY <1>2 DEF IInv, LocksExclusive
<1>5. QED BY <1>2, <1>3, <1>4

LEMMA AcceptInsertStep ==
  ASSUME IInv, NEW r \in Requests, AcceptInsert(r)
  PROVE  IInv'
<1>1. ASSUME Insertable(req[r].organization, req[r].user),
             members' = members \cup {<<req[r].organization, req[r].user>>},
             invitation' = WithStatus({req[r].id}, "ACCEPTED"),
             Answer(r),
             UNCHANGED <<account, organizations, registered>>
      PROVE  IInv'
  <2>1. req[r].pc \in {"accept.insert", "join.insert"}
    BY DEF AcceptInsert, At
  <2>2. "ACCEPTED" \in Statuses \ {"PENDING"}
    BY DEF Statuses
  <2>3. members' \subseteq organizations \X registered'
    BY <1>1, RegisteredUsers DEF Insertable, IInv, TypeOK
  <2>4. /\ account \in [Emails -> registered \cup {None}] /\ registered \subseteq Users /\ OneEmailPerUser
    BY DEF IInv, TypeOK
  <2>5. OneEmailPerUser'
    BY <1>1, <2>4 DEF OneEmailPerUser
  <2>6. {req[r].id} \in SUBSET Pending /\ \A q \in Requests \ {r} : held[q] \cap {req[r].id} = {}
    BY <2>1, ClaimedRow
  <2>7. QED BY <1>1, <2>2, <2>3, <2>4, <2>5, <2>6, SettleStep
<1>2. QED
  BY <1>1, RejectStep DEF AcceptInsert

LEMMA RegisterFacts ==
  ASSUME IInv, NEW e \in Emails, NEW u \in Users, account[e] = None, Register(e, u)
  PROVE  /\ registered \subseteq registered' /\ registered' \subseteq Users /\ u \in registered'
         /\ u \notin registered /\ account'[e] = u
         /\ account' \in [Emails -> registered' \cup {None}]
         /\ \A f \in Emails : account'[f] \in {account[f], None} \/ account'[f] \notin registered
         /\ OneEmailPerUser'
<1>1. account \in [Emails -> registered \cup {None}] /\ registered \subseteq Users
  BY DEF IInv, TypeOK
<1>2. u \notin registered /\ account' = [account EXCEPT ![e] = u] /\ registered' = registered \cup {u}
  BY DEF Register
<1>3. account'[e] = u /\ \A f \in Emails \ {e} : account'[f] = account[f] /\ account'[f] # u
  BY <1>1, <1>2
<1>4. OneEmailPerUser'
  BY <1>3 DEF IInv, OneEmailPerUser
<1>5. QED BY <1>1, <1>2, <1>3, <1>4

LEMMA JoinInsertStep ==
  ASSUME IInv, NEW r \in Requests, JoinInsert(r)
  PROVE  IInv'
<1>1. ASSUME account[req[r].email] = None, req[r].organization \in organizations, NEW u \in Users,
             Register(req[r].email, u),
             members' = members \cup {<<req[r].organization, u>>},
             invitation' = WithStatus({req[r].id}, "ACCEPTED"),
             Answer(r),
             organizations' = organizations
      PROVE  IInv'
  <2>1. req[r].pc \in {"accept.insert", "join.insert"}
    BY DEF JoinInsert, At
  <2>2. "ACCEPTED" \in Statuses \ {"PENDING"}
    BY DEF Statuses
  <2>3. {req[r].id} \in SUBSET Pending /\ req[r].email \in Emails
        /\ \A q \in Requests \ {r} : held[q] \cap {req[r].id} = {}
    BY <2>1, ClaimedRow
  <2>4. /\ registered \subseteq registered' /\ registered' \subseteq Users /\ u \in registered'
        /\ account' \in [Emails -> registered' \cup {None}]
        /\ \A f \in Emails : account'[f] \in {account[f], None} \/ account'[f] \notin registered
        /\ OneEmailPerUser'
    BY <1>1, <2>3, RegisterFacts
  <2>5. members' \subseteq organizations \X registered'
    BY <1>1, <2>4 DEF IInv, TypeOK
  <2>6. QED BY <1>1, <2>2, <2>3, <2>4, <2>5, SettleStep
<1>2. QED
  BY <1>1, RejectStep DEF JoinInsert

(* The steps that leave the invitations as they are. *)
LEMMA UninvitedStep ==
  ASSUME IInv, NEW r \in Requests, Answer(r), UNCHANGED <<invitation, organizations>>,
         registered \subseteq registered', registered' \subseteq Users,
         account' \in [Emails -> registered' \cup {None}],
         \A e \in Emails : account'[e] \in {account[e], None} \/ account'[e] \notin registered,
         OneEmailPerUser',
         members' \subseteq organizations \X registered'
  PROVE  IInv'
<1>1. {} \in SUBSET Pending /\ "CANCELED" \in Statuses \ {"PENDING"}
  BY DEF Statuses
<1>2. invitation' = WithStatus({}, "CANCELED")
  BY DEF WithStatus, IInv, TypeOK
<1>3. \A q \in Requests \ {r} : held[q] \cap {} = {}
  OBVIOUS
<1>4. QED BY <1>1, <1>2, <1>3, SettleStep

LEMMA RegisterInsertStep ==
  ASSUME IInv, NEW r \in Requests, RegisterInsert(r)
  PROVE  IInv'
<1>1. ASSUME account[req[r].email] = None, NEW u \in Users, Register(req[r].email, u), Answer(r),
             UNCHANGED <<organizations, members, invitation>>
      PROVE  IInv'
  <2>1. req[r].email \in Emails
    BY DEF RegisterInsert, IInv, Locals, At
  <2>2. /\ registered \subseteq registered' /\ registered' \subseteq Users
        /\ account' \in [Emails -> registered' \cup {None}]
        /\ \A f \in Emails : account'[f] \in {account[f], None} \/ account'[f] \notin registered
        /\ OneEmailPerUser'
    BY <1>1, <2>1, RegisterFacts
  <2>3. members' \subseteq organizations \X registered'
    BY <1>1, <2>2 DEF IInv, TypeOK
  <2>4. QED BY <1>1, <2>2, <2>3, UninvitedStep
<1>2. QED
  BY <1>1, RejectStep DEF RegisterInsert

LEMMA AddMemberInsertStep ==
  ASSUME IInv, NEW r \in Requests, AddMemberInsert(r)
  PROVE  IInv'
<1>1. ASSUME Insertable(req[r].organization, req[r].user),
             members' = members \cup {<<req[r].organization, req[r].user>>}, Answer(r),
             UNCHANGED <<account, organizations, invitation, registered>>
      PROVE  IInv'
  <2>1. members' \subseteq organizations \X registered'
    BY <1>1, RegisteredUsers DEF Insertable, IInv, TypeOK
  <2>2. /\ account \in [Emails -> registered \cup {None}] /\ registered \subseteq Users /\ OneEmailPerUser
    BY DEF IInv, TypeOK
  <2>3. OneEmailPerUser'
    BY <1>1, <2>2 DEF OneEmailPerUser
  <2>4. QED BY <1>1, <2>1, <2>2, <2>3, UninvitedStep
<1>2. QED
  BY <1>1, RejectStep DEF AddMemberInsert

LEMMA CreateInsertStep ==
  ASSUME IInv, NEW r \in Requests, CreateInsert(r)
  PROVE  IInv'
<1>1. ASSUME req[r].organization \in organizations, PendingFor(req[r].organization, req[r].email) = {},
             NEW i \in Ids, invitation[i] = None,
             invitation' = [invitation EXCEPT ![i] = Written(req[r].organization, req[r].email)],
             Answer(r),
             UNCHANGED <<account, organizations, members, registered>>
      PROVE  IInv'
  <2>1. /\ req[r].organization \in Organizations /\ req[r].email \in Emails
        /\ invitation \in [Ids -> Invitation \cup {None, Gone}]
    BY DEF CreateInsert, IInv, TypeOK, Locals, At
  <2>2. PICK row \in Invitation :
          /\ row = Written(req[r].organization, req[r].email)
          /\ row.organization = req[r].organization /\ row.email = req[r].email /\ row.status = "PENDING"
    <3>1. account[req[r].email] \in Users \cup {None}
      BY <2>1 DEF IInv, TypeOK
    <3>2. Written(req[r].organization, req[r].email) \in Invitation
      BY <2>1, <3>1 DEF Written, Invitation, Statuses
    <3>3. QED BY <3>2 DEF Written
  <2>3. /\ row \notin {None, Gone} /\ invitation'[i] = row
        /\ \A j \in Ids \ {i} : invitation'[j] = invitation[j]
        /\ invitation' \in [Ids -> Invitation \cup {None, Gone}]
    BY <1>1, <2>1, <2>2
  <2>4. /\ Existing' = Existing \cup {i} /\ Pending' = Pending \cup {i} /\ i \notin Existing
        /\ Existing \subseteq Ids /\ Pending \subseteq Existing
    BY <1>1, <2>2, <2>3 DEF Existing, Pending
  <2>5. TablesTyped'
    BY <1>1, <2>2, <2>3, <2>4 DEF IInv, TypeOK, TablesTyped
  <2>6. Evolves
    <3>1. \A j \in Ids : invitation[j] # None =>
            /\ invitation'[j] # None
            /\ j \in Existing' =>
                 /\ j \in Existing
                 /\ invitation'[j].organization = invitation[j].organization
                 /\ invitation'[j].email = invitation[j].email
                 /\ j \in Pending' => j \in Pending
      BY <1>1, <2>3, <2>4
    <3>2. QED BY <1>1, <3>1 DEF Evolves
  <2>7. OneEmailPerUser'
    <3>1. OneEmailPerUser
      BY DEF IInv
    <3>2. QED BY <1>1, <3>1 DEF OneEmailPerUser
  <2>8. OnePendingPerAddress'
    <3>1. OnePendingPerAddress /\ Pending \subseteq Ids \ {i}
      BY <2>4 DEF IInv
    <3>2. \A j \in Pending : invitation[j].organization = req[r].organization =>
                               invitation[j].email # req[r].email
      BY <1>1 DEF PendingFor
    <3>3. \A j \in Pending : invitation'[j] = invitation[j]
      BY <2>3, <3>1
    <3>4. QED BY <2>2, <2>3, <2>4, <3>1, <3>2, <3>3 DEF OnePendingPerAddress
  <2>9. QED BY <1>1, <2>4, <2>5, <2>6, <2>7, <2>8, AnswerStep
<1>2. QED
  BY <1>1, RejectStep DEF CreateInsert

(* What the transaction cancels it has locked: no accept has claimed it.    *)
LEMMA AccountCommitStep ==
  ASSUME IInv, NEW r \in Requests, AccountCommit(r)
  PROVE  IInv'
<1>1. /\ account' = [account EXCEPT ![req[r].email] = None]
      /\ members' = {m \in members : m[2] # req[r].user}
      /\ invitation' = WithStatus(req[r].seen \cap Pending, "CANCELED")
      /\ Answer(r)
      /\ UNCHANGED <<organizations, registered>>
  BY DEF AccountCommit
<1>2. /\ req[r].email \in Emails /\ req[r].seen \cap Pending \subseteq held[r]
      /\ account \in [Emails -> registered \cup {None}] /\ members \subseteq organizations \X registered
      /\ registered \subseteq Users
  BY DEF AccountCommit, IInv, TypeOK, Locals, Holds, At
<1>3. \A q \in Requests \ {r} : held[q] \cap (req[r].seen \cap Pending) = {}
  <2>1. \A q \in Requests \ {r} : held[r] \cap held[q] = {}
    BY DEF IInv, LocksExclusive
  <2>2. QED BY <1>2, <2>1
<1>4. "CANCELED" \in Statuses \ {"PENDING"} /\ req[r].seen \cap Pending \in SUBSET Pending
  BY DEF Statuses
<1>5. /\ account' \in [Emails -> registered' \cup {None}]
      /\ \A e \in Emails : account'[e] \in {account[e], None}
  BY <1>1, <1>2
<1>6. OneEmailPerUser'
  <2>1. OneEmailPerUser
    BY DEF IInv
  <2>2. \A e \in Emails : account'[e] # None => account'[e] = account[e]
    BY <1>5
  <2>3. QED BY <2>1, <2>2 DEF OneEmailPerUser
<1>7. members' \subseteq organizations \X registered'
  BY <1>1, <1>2
<1>8. registered \subseteq registered' /\ registered' \subseteq Users /\ organizations' = organizations
  BY <1>1, <1>2
<1>9. QED BY <1>1, <1>3, <1>4, <1>5, <1>6, <1>7, <1>8, SettleStep

(* The invitations it deletes it has locked, and it deletes all of them.    *)
LEMMA DissolveCommitStep ==
  ASSUME IInv, NEW r \in Requests, DissolveCommit(r)
  PROVE  IInv'
<1> DEFINE o == req[r].organization
           G == InvitationsOf(o)
<1>1. ASSUME G \cup MembersOf(o) \subseteq req[r].seen,
             organizations' = organizations \ {o},
             members' = {m \in members : m[1] # o},
             invitation' = [i \in Ids |-> IF i \in G THEN Gone ELSE invitation[i]],
             Answer(r),
             UNCHANGED <<account, registered>>
      PROVE  IInv'
  <2>1. /\ req[r].seen \cap Ids \subseteq held[r] /\ invitation \in [Ids -> Invitation \cup {None, Gone}]
        /\ organizations \subseteq Organizations /\ members \subseteq organizations \X registered
        /\ account \in [Emails -> registered \cup {None}] /\ registered \subseteq Users
        /\ \A i \in Existing : invitation[i].organization \in organizations
    BY DEF DissolveCommit, IInv, TypeOK, Holds, At
  <2>2. /\ G \subseteq Existing /\ Existing \subseteq Ids /\ Pending \subseteq Existing
        /\ \A i \in Existing \ G : invitation[i].organization # o
    BY DEF InvitationsOf, Existing, Pending
  <2>3. G \subseteq held[r]
    BY <1>1, <2>1, <2>2
  <2> HIDE DEF G, o
  <2>4. /\ \A i \in G : invitation'[i] = Gone
        /\ \A i \in Ids \ G : invitation'[i] = invitation[i]
    BY <1>1, <2>2
  <2>5. Existing' = Existing \ G /\ Pending' = Pending \ G
    BY <2>2, <2>4 DEF Existing, Pending
  <2>6. TablesTyped'
    <3>1. invitation' \in [Ids -> Invitation \cup {None, Gone}]
      BY <1>1, <2>1
    <3>2. members' \subseteq organizations' \X registered'
      BY <1>1, <2>1
    <3>3. \A i \in Existing' : invitation'[i].organization \in organizations'
      BY <1>1, <2>1, <2>2, <2>4, <2>5
    <3>4. organizations' \subseteq Organizations /\ account' \in [Emails -> registered' \cup {None}]
          /\ registered' \subseteq Users
      BY <1>1, <2>1
    <3>5. QED BY <3>1, <3>2, <3>3, <3>4 DEF TablesTyped
  <2>7. Evolves
    <3>1. \A i \in Ids : invitation[i] # None =>
            /\ invitation'[i] # None
            /\ i \in Existing' =>
                 /\ i \in Existing
                 /\ invitation'[i].organization = invitation[i].organization
                 /\ invitation'[i].email = invitation[i].email
                 /\ i \in Pending' => i \in Pending
      BY <2>4, <2>5
    <3>2. QED BY <1>1, <3>1 DEF Evolves
  <2>8. OneEmailPerUser' /\ OnePendingPerAddress'
    <3>1. OneEmailPerUser /\ OnePendingPerAddress
      BY DEF IInv
    <3>2. \A i \in Pending' : i \in Pending /\ invitation'[i] = invitation[i]
      BY <2>2, <2>4, <2>5
    <3>3. OneEmailPerUser'
      BY <1>1, <3>1 DEF OneEmailPerUser
    <3>4. OnePendingPerAddress'
      BY <3>1, <3>2 DEF OnePendingPerAddress
    <3>5. QED BY <3>3, <3>4
  <2>9. \A q \in Requests \ {r} : \A i \in held[q] \cap Pending : i \in Pending'
    <3>1. \A q \in Requests \ {r} : held[r] \cap held[q] = {}
      BY DEF IInv, LocksExclusive
    <3>2. QED BY <2>3, <2>5, <3>1
  <2>10. QED BY <1>1, <2>6, <2>7, <2>8, <2>9, AnswerStep
<1>2. QED
  BY <1>1, RejectStep DEF DissolveCommit

-----------------------------------------------------------------------------
(* The steps of no request, and all of them. *)

LEMMA UnaskedStep ==
  ASSUME IInv, UNCHANGED <<req, held>>, Pending' = Pending, Existing' = Existing,
         UNCHANGED <<account, organizations, registered>>,
         members' \subseteq members,
         invitation' \in [Ids -> Invitation \cup {None, Gone}],
         \A i \in Ids : (invitation[i] = None) = (invitation'[i] = None),
         \A i \in Existing : /\ invitation'[i].organization = invitation[i].organization
                             /\ invitation'[i].email = invitation[i].email
  PROVE  IInv'
<1>1. TypeOK /\ Existing \subseteq Ids /\ Pending \subseteq Existing
  BY DEF IInv, Existing, Pending
<1>2. TypeOK'
  BY <1>1 DEF TypeOK
<1>3. Evolves
  BY DEF Evolves
<1>4. \A q \in Requests : (Locals(q) /\ Found(q) /\ Holds(q))'
  BY <1>3, Kept
<1>5. LocksExclusive' /\ OneEmailPerUser'
  BY DEF IInv, LocksExclusive, OneEmailPerUser
<1>6. OnePendingPerAddress'
  BY <1>1 DEF IInv, OnePendingPerAddress
<1>7. QED BY <1>2, <1>4, <1>5, <1>6 DEF IInv

LEMMA ElapseStep ==
  ASSUME IInv, NEW i \in Ids, Elapse(i)
  PROVE  IInv'
<1>1. PICK row \in Invitation : row = invitation[i]
  BY DEF Elapse, Pending, Existing, IInv, TypeOK
<1>2. /\ invitation \in [Ids -> Invitation \cup {None, Gone}]
      /\ invitation' = [invitation EXCEPT ![i] = [row EXCEPT !.late = TRUE]]
      /\ UNCHANGED <<account, organizations, members, registered, req, held>>
  BY <1>1 DEF Elapse, IInv, TypeOK
<1> DEFINE elapsed == [row EXCEPT !.late = TRUE]
<1>3. /\ elapsed \in Invitation /\ elapsed.organization = row.organization
      /\ elapsed.email = row.email /\ elapsed.status = row.status
  BY DEF Invitation
<1>4. invitation' = [invitation EXCEPT ![i] = elapsed]
  BY <1>2
<1> HIDE DEF elapsed
<1>5. /\ invitation' \in [Ids -> Invitation \cup {None, Gone}]
      /\ invitation'[i] = elapsed /\ \A j \in Ids \ {i} : invitation'[j] = invitation[j]
      /\ elapsed \notin {None, Gone} /\ row \notin {None, Gone}
  BY <1>2, <1>3, <1>4
<1>6. Pending' = Pending /\ Existing' = Existing
  BY <1>1, <1>3, <1>5 DEF Pending, Existing
<1>7. /\ \A j \in Ids : (invitation[j] = None) = (invitation'[j] = None)
      /\ \A j \in Existing : /\ invitation'[j].organization = invitation[j].organization
                             /\ invitation'[j].email = invitation[j].email
  BY <1>1, <1>3, <1>5 DEF Existing
<1>8. members' \subseteq members
  BY <1>2
<1>9. QED BY <1>2, <1>5, <1>6, <1>7, <1>8, UnaskedStep

LEMMA LeaveStep ==
  ASSUME IInv, NEW o \in Organizations, NEW u \in Users, Leave(o, u)
  PROVE  IInv'
<1>1. UNCHANGED <<account, organizations, invitation, registered, req, held>> /\ members' \subseteq members
  BY DEF Leave
<1>2. Pending' = Pending /\ Existing' = Existing /\ Existing \subseteq Ids
      /\ invitation \in [Ids -> Invitation \cup {None, Gone}]
  BY <1>1 DEF Pending, Existing, IInv, TypeOK
<1>3. /\ invitation' \in [Ids -> Invitation \cup {None, Gone}]
      /\ \A i \in Ids : (invitation[i] = None) = (invitation'[i] = None)
      /\ \A i \in Existing : /\ invitation'[i].organization = invitation[i].organization
                             /\ invitation'[i].email = invitation[i].email
  BY <1>1, <1>2
<1>4. QED BY <1>1, <1>2, <1>3, UnaskedStep

LEMMA StatementStep ==
  ASSUME IInv, NEW r \in Requests, Statement(r)
  PROVE  IInv'
<1>1. CASE CreateRead(r)
  BY <1>1, CreateReadStep
<1>2. CASE CreateInsert(r)
  BY <1>2, CreateInsertStep
<1>3. CASE CancelRead(r)
  BY <1>3, CancelReadStep
<1>4. CASE CancelWrite(r) \/ DeclineWrite(r) \/ ExpireWrite(r)
  BY <1>4, SettleAloneStep DEF CancelWrite, DeclineWrite, ExpireWrite, At
<1>5. CASE DeclineRead(r) \/ AcceptRead(r) \/ JoinRead(r)
  BY <1>5, FindPendingValidStep DEF DeclineRead, AcceptRead, JoinRead, At
<1>6. CASE AcceptUser(r)
  BY <1>6, AcceptUserStep
<1>7. CASE AcceptClaim(r) \/ JoinClaim(r)
  BY <1>7, ClaimStep DEF AcceptClaim, JoinClaim
<1>8. CASE AcceptInsert(r)
  BY <1>8, AcceptInsertStep
<1>9. CASE JoinEmail(r)
  BY <1>9, JoinEmailStep
<1>10. CASE JoinInsert(r)
  BY <1>10, JoinInsertStep
<1>11. CASE RegisterRead(r)
  BY <1>11, RegisterReadStep
<1>12. CASE RegisterInsert(r)
  BY <1>12, RegisterInsertStep
<1>13. CASE AddMemberRead(r)
  BY <1>13, AddMemberReadStep
<1>14. CASE AddMemberInsert(r)
  BY <1>14, AddMemberInsertStep
<1>15. CASE AccountLock(r)
  BY <1>15, AccountLockStep
<1>16. CASE AccountScan(r)
  BY <1>16, AccountScanStep
<1>17. CASE AccountCancel(r)
  BY <1>17, AccountCancelStep
<1>18. CASE AccountCommit(r)
  BY <1>18, AccountCommitStep
<1>19. CASE DissolveInvitations(r)
  BY <1>19, DissolveInvitationsStep
<1>20. CASE DissolveMembers(r)
  BY <1>20, DissolveMembersStep
<1>21. CASE DissolveCommit(r)
  BY <1>21, DissolveCommitStep
<1>22. QED
  BY <1>1, <1>2, <1>3, <1>4, <1>5, <1>6, <1>7, <1>8, <1>9, <1>10, <1>11, <1>12, <1>13, <1>14,
     <1>15, <1>16, <1>17, <1>18, <1>19, <1>20, <1>21 DEF Statement

LEMMA NextStep == IInv /\ [Next]_vars => IInv'
<1> SUFFICES ASSUME IInv, [Next]_vars PROVE IInv'
  OBVIOUS
<1>1. ASSUME NEW r \in Requests, Start(r) \/ Statement(r) \/ Abort(r) PROVE IInv'
  BY <1>1, StartStep, StatementStep, RejectStep DEF Abort
<1>2. ASSUME UNCHANGED vars PROVE IInv'
  <2>1. UNCHANGED <<req, held>> /\ UNCHANGED tables
    BY <1>2 DEF vars, tables
  <2>2. Pending' = Pending /\ Existing' = Existing /\ invitation' = invitation
        /\ UNCHANGED <<account, organizations, registered>> /\ members' = members
    BY <2>1, QuietEvolves DEF tables
  <2>3. Existing \subseteq Ids /\ invitation \in [Ids -> Invitation \cup {None, Gone}]
    BY DEF Existing, IInv, TypeOK
  <2>4. QED BY <2>1, <2>2, <2>3, UnaskedStep
<1>3. QED
  BY <1>1, <1>2, ElapseStep, LeaveStep DEF Next

-----------------------------------------------------------------------------
(* What a step does to the rows that are settled, and who it lets in. *)

Settled ==
  \A i \in Ids : (i \in Existing /\ i \notin Pending) =>
    \/ invitation'[i] = invitation[i]
    \/ invitation'[i] = Gone /\ invitation[i].organization \notin organizations'

(* A step that accepts nothing and lets nobody in, unless an admin does. *)
Ordinary ==
  /\ \A i \in Ids : ~Accepted(i)
  /\ members' \ members = {} \/ \E r \in Requests : AddMemberInsert(r)

Admission ==
  /\ \A i \in Ids : Accepted(i) =>
       \E u \in Users :
         /\ account'[invitation[i].email] = u
         /\ members' \ members = {<<invitation[i].organization, u>>}
  /\ members' \ members # {} =>
       (\E i \in Ids : Accepted(i)) \/ \E r \in Requests : AddMemberInsert(r)
  /\ \A i, j \in Ids : Accepted(i) /\ Accepted(j) => i = j

LEMMA OrdinaryAdmits == Ordinary => Admission
  BY DEF Ordinary, Admission

LEMMA UntouchedEffect ==
  ASSUME IInv, invitation' = invitation,
         members' \subseteq members \/ \E r \in Requests : AddMemberInsert(r)
  PROVE  Settled /\ Ordinary
  BY DEF Settled, Ordinary, Accepted, Pending

LEMMA QuietEffect ==
  ASSUME IInv, UNCHANGED tables
  PROVE  Settled /\ Ordinary
  BY UntouchedEffect DEF tables

LEMMA StartEffect ==
  ASSUME NEW r \in Requests, Start(r)
  PROVE  UNCHANGED tables
<1>1. ASSUME NEW x, Begin(r, x) PROVE UNCHANGED tables
  BY <1>1 DEF Begin, tables
<1>2. QED
  BY <1>1 DEF Start, StartCreate, StartAddMember, StartCancel, StartDecline, StartJoin, StartOn,
     StartAccept, StartRegister, StartDeleteMe, StartDissolve

(* The statements that change no table. *)
Reading(r) ==
  \/ CreateRead(r) \/ CancelRead(r) \/ DeclineRead(r) \/ AcceptRead(r) \/ AcceptUser(r)
  \/ AcceptClaim(r) \/ JoinRead(r) \/ JoinEmail(r) \/ JoinClaim(r) \/ RegisterRead(r)
  \/ AddMemberRead(r) \/ AccountLock(r) \/ AccountScan(r) \/ AccountCancel(r)
  \/ DissolveInvitations(r) \/ DissolveMembers(r)

LEMMA ReadingEffect ==
  ASSUME NEW r \in Requests, Reading(r)
  PROVE  UNCHANGED tables
<1>1. ASSUME Reject(r) PROVE UNCHANGED tables
  BY <1>1 DEF Reject
<1>2. ASSUME NEW x, Continue(r, x) PROVE UNCHANGED tables
  BY <1>2 DEF Continue, tables
<1>3. ASSUME NEW pc, Lock(r, pc) PROVE UNCHANGED tables
  BY <1>3 DEF Lock
<1>4. ASSUME NEW pc, FindPendingValid(r, pc) \/ Claim(r, pc) PROVE UNCHANGED tables
  BY <1>1, <1>2, <1>3, <1>4 DEF FindPendingValid, Claim
<1>5. CASE CreateRead(r) \/ CancelRead(r) \/ JoinEmail(r) \/ RegisterRead(r) \/ AccountScan(r)
  BY <1>1, <1>2, <1>5 DEF CreateRead, CancelRead, JoinEmail, RegisterRead, AccountScan
<1>6. CASE AcceptUser(r) \/ AddMemberRead(r)
  BY <1>1, <1>2, <1>6 DEF AcceptUser, AddMemberRead
<1>7. CASE DeclineRead(r) \/ AcceptRead(r) \/ JoinRead(r) \/ AcceptClaim(r) \/ JoinClaim(r)
  BY <1>4, <1>7 DEF DeclineRead, AcceptRead, JoinRead, AcceptClaim, JoinClaim
<1>8. CASE AccountLock(r) \/ AccountCancel(r)
  BY <1>1, <1>3, <1>8 DEF AccountLock, AccountCancel
<1>9. CASE DissolveInvitations(r) \/ DissolveMembers(r)
  BY <1>9 DEF DissolveInvitations, DissolveMembers
<1>10. QED
  BY <1>5, <1>6, <1>7, <1>8, <1>9 DEF Reading

LEMMA SettlingEffect ==
  ASSUME IInv, NEW ids \in SUBSET Pending, NEW status \in Statuses \ {"PENDING"},
         invitation' = WithStatus(ids, status)
  PROVE  /\ Settled
         /\ \A i \in Ids : Accepted(i) => status = "ACCEPTED" /\ i \in ids
         /\ status = "ACCEPTED" => \A i \in ids : Accepted(i)
<1>1. /\ \A i \in ids : invitation'[i] \in Invitation /\ invitation'[i].status = status
      /\ \A i \in Ids \ ids : invitation'[i] = invitation[i]
  BY SettledRows
<1>2. Settled
  BY <1>1 DEF Settled
<1>3. \A i \in Ids : Accepted(i) => status = "ACCEPTED" /\ i \in ids
  BY <1>1 DEF Accepted, Pending
<1>4. status = "ACCEPTED" => \A i \in ids : Accepted(i)
  BY <1>1 DEF Accepted
<1>5. QED BY <1>2, <1>3, <1>4

LEMMA SettleAloneEffect ==
  ASSUME IInv, NEW r \in Requests, CancelWrite(r) \/ DeclineWrite(r) \/ ExpireWrite(r)
  PROVE  Settled /\ Ordinary
<1>1. PICK status \in {"CANCELED", "EXPIRED", "DECLINED"} : Settle(r, status)
  BY DEF CancelWrite, DeclineWrite, ExpireWrite
<1>2. invitation' = WithStatus({req[r].id} \cap Pending, status) /\ members' = members
  BY <1>1 DEF Settle
<1>3. {req[r].id} \cap Pending \in SUBSET Pending /\ status \in Statuses \ {"PENDING"} /\ status # "ACCEPTED"
  BY DEF Statuses
<1>4. Settled /\ \A i \in Ids : ~Accepted(i)
  BY <1>2, <1>3, SettlingEffect
<1>5. QED BY <1>2, <1>4 DEF Ordinary

LEMMA AccountCommitEffect ==
  ASSUME IInv, NEW r \in Requests, AccountCommit(r)
  PROVE  Settled /\ Ordinary
<1>1. invitation' = WithStatus(req[r].seen \cap Pending, "CANCELED") /\ members' \subseteq members
  BY DEF AccountCommit
<1>2. req[r].seen \cap Pending \in SUBSET Pending /\ "CANCELED" \in Statuses \ {"PENDING"}
  BY DEF Statuses
<1>3. Settled /\ \A i \in Ids : ~Accepted(i)
  BY <1>1, <1>2, SettlingEffect
<1>4. QED BY <1>1, <1>3 DEF Ordinary

LEMMA CreateInsertEffect ==
  ASSUME IInv, NEW r \in Requests, CreateInsert(r)
  PROVE  Settled /\ Ordinary
<1>1. ASSUME NEW i \in Ids, NEW x, invitation[i] = None, invitation' = [invitation EXCEPT ![i] = x],
             members' = members
      PROVE  Settled /\ Ordinary
  <2>1. i \notin Existing /\ i \notin Pending /\ \A j \in Ids \ {i} : invitation'[j] = invitation[j]
    BY <1>1 DEF Existing, Pending, IInv, TypeOK
  <2>2. Settled
    BY <2>1 DEF Settled
  <2>3. \A j \in Ids : ~Accepted(j)
    BY <2>1 DEF Accepted, Pending
  <2>4. QED BY <1>1, <2>2, <2>3 DEF Ordinary
<1>2. ASSUME Reject(r) PROVE Settled /\ Ordinary
  BY <1>2, QuietEffect DEF Reject
<1>3. QED BY <1>1, <1>2 DEF CreateInsert

LEMMA DissolveCommitEffect ==
  ASSUME IInv, NEW r \in Requests, DissolveCommit(r)
  PROVE  Settled /\ Ordinary
<1>1. ASSUME NEW o, organizations' = organizations \ {o},
             members' \subseteq members,
             invitation' = [i \in Ids |-> IF i \in InvitationsOf(o) THEN Gone ELSE invitation[i]]
      PROVE  Settled /\ Ordinary
  <2>1. \A i \in Ids : IF i \in InvitationsOf(o)
                         THEN invitation'[i] = Gone /\ invitation[i].organization = o
                         ELSE invitation'[i] = invitation[i]
    BY <1>1 DEF InvitationsOf
  <2>2. Settled
    BY <1>1, <2>1 DEF Settled
  <2>3. \A i \in Ids : ~Accepted(i)
    BY <2>1 DEF Accepted, Pending
  <2>4. QED BY <1>1, <2>2, <2>3 DEF Ordinary
<1>2. ASSUME Reject(r) PROVE Settled /\ Ordinary
  BY <1>2, QuietEffect DEF Reject
<1>3. QED BY <1>1, <1>2 DEF DissolveCommit

LEMMA RegisterInsertEffect ==
  ASSUME IInv, NEW r \in Requests, RegisterInsert(r) \/ AddMemberInsert(r)
  PROVE  Settled /\ Ordinary
<1>1. CASE RegisterInsert(r)
  BY <1>1, UntouchedEffect, QuietEffect DEF RegisterInsert, Reject
<1>2. CASE AddMemberInsert(r)
  <2>1. invitation' = invitation
    BY <1>2 DEF AddMemberInsert, Reject, tables
  <2>2. QED BY <1>2, <2>1, UntouchedEffect
<1>3. QED BY <1>1, <1>2

(* The user who was found to have the invited email and could be inserted   *)
(* as a member still has it: emails do not change hands.                    *)
LEMMA AcceptInsertEffect ==
  ASSUME IInv, NEW r \in Requests, AcceptInsert(r)
  PROVE  Settled /\ Admission
<1>1. ASSUME Insertable(req[r].organization, req[r].user),
             members' = members \cup {<<req[r].organization, req[r].user>>},
             invitation' = WithStatus({req[r].id}, "ACCEPTED"),
             account' = account
      PROVE  Settled /\ Admission
  <2>1. req[r].pc = "accept.insert"
    BY DEF AcceptInsert, At
  <2>2. /\ req[r].id \in Pending /\ {req[r].id} \in SUBSET Pending /\ req[r].email \in Emails
        /\ invitation[req[r].id].organization = req[r].organization
        /\ invitation[req[r].id].email = req[r].email
    BY <2>1, ClaimedRow
  <2>3. \A e \in Emails : account[e] = req[r].user => e = req[r].email
    BY <2>1 DEF IInv, Found
  <2>4. req[r].user \in Users /\ account'[req[r].email] = req[r].user
    BY <1>1, <2>3 DEF Insertable, Registered
  <2>5. members' \ members = {<<req[r].organization, req[r].user>>}
    BY <1>1 DEF Insertable, IsMember
  <2>6. "ACCEPTED" \in Statuses \ {"PENDING"} /\ req[r].id \in Ids
    BY <2>2 DEF Statuses, Pending, Existing
  <2>7. /\ Settled
        /\ \A i \in Ids : Accepted(i) => i = req[r].id
        /\ Accepted(req[r].id)
    BY <1>1, <2>2, <2>6, SettlingEffect
  <2>8. QED BY <2>2, <2>4, <2>5, <2>6, <2>7 DEF Admission
<1>2. ASSUME Reject(r) PROVE Settled /\ Admission
  BY <1>2, QuietEffect, OrdinaryAdmits DEF Reject
<1>3. QED BY <1>1, <1>2 DEF AcceptInsert

LEMMA JoinInsertEffect ==
  ASSUME IInv, NEW r \in Requests, JoinInsert(r)
  PROVE  Settled /\ Admission
<1>1. ASSUME NEW u \in Users, account[req[r].email] = None, Register(req[r].email, u),
             members' = members \cup {<<req[r].organization, u>>},
             invitation' = WithStatus({req[r].id}, "ACCEPTED")
      PROVE  Settled /\ Admission
  <2>1. req[r].pc = "join.insert"
    BY DEF JoinInsert, At
  <2>2. /\ req[r].id \in Pending /\ {req[r].id} \in SUBSET Pending /\ req[r].email \in Emails
        /\ invitation[req[r].id].organization = req[r].organization
        /\ invitation[req[r].id].email = req[r].email
    BY <2>1, ClaimedRow
  <2>3. u \notin registered /\ account'[req[r].email] = u
    BY <1>1, <2>2, RegisterFacts
  <2>4. members' \ members = {<<req[r].organization, u>>}
    BY <1>1, <2>3 DEF IInv, TypeOK
  <2>5. "ACCEPTED" \in Statuses \ {"PENDING"} /\ req[r].id \in Ids
    BY <2>2 DEF Statuses, Pending, Existing
  <2>6. /\ Settled
        /\ \A i \in Ids : Accepted(i) => i = req[r].id
        /\ Accepted(req[r].id)
    BY <1>1, <2>2, <2>5, SettlingEffect
  <2>7. QED BY <2>2, <2>3, <2>4, <2>5, <2>6 DEF Admission
<1>2. ASSUME Reject(r) PROVE Settled /\ Admission
  BY <1>2, QuietEffect, OrdinaryAdmits DEF Reject
<1>3. QED BY <1>1, <1>2 DEF JoinInsert

LEMMA ElapseEffect ==
  ASSUME IInv, NEW i \in Ids, Elapse(i)
  PROVE  Settled /\ Ordinary
<1>1. /\ i \in Pending /\ invitation[i] \in Invitation /\ invitation[i].status = "PENDING"
      /\ members' = members
  BY DEF Elapse, Pending, Existing, IInv, TypeOK
<1>2. PICK row \in Invitation : row = invitation[i]
  BY <1>1
<1>3. invitation' = [invitation EXCEPT ![i] = [row EXCEPT !.late = TRUE]]
      /\ invitation \in [Ids -> Invitation \cup {None, Gone}]
  BY <1>2 DEF Elapse, IInv, TypeOK
<1> DEFINE elapsed == [row EXCEPT !.late = TRUE]
<1>4. elapsed.status = "PENDING"
  BY <1>1, <1>2 DEF Invitation
<1>5. invitation' = [invitation EXCEPT ![i] = elapsed]
  BY <1>3
<1> HIDE DEF elapsed
<1>6. invitation'[i] = elapsed /\ \A j \in Ids \ {i} : invitation'[j] = invitation[j]
  BY <1>3, <1>5
<1>7. Settled
  BY <1>1, <1>6 DEF Settled
<1>8. \A j \in Ids : ~Accepted(j)
  BY <1>4, <1>6 DEF Accepted, Pending
<1>9. QED BY <1>1, <1>7, <1>8 DEF Ordinary

LEMMA NextEffect == IInv /\ [Next]_vars => Settled /\ Admission
<1> SUFFICES ASSUME IInv, [Next]_vars PROVE Settled /\ Admission
  OBVIOUS
<1>1. ASSUME UNCHANGED tables PROVE Settled /\ Admission
  BY <1>1, QuietEffect, OrdinaryAdmits
<1>2. ASSUME UNCHANGED vars PROVE Settled /\ Admission
  BY <1>1, <1>2 DEF vars, tables
<1>3. ASSUME NEW r \in Requests, Start(r) \/ Abort(r) \/ Reading(r) PROVE Settled /\ Admission
  BY <1>1, <1>3, StartEffect, ReadingEffect DEF Abort, Reject
<1>4. ASSUME NEW r \in Requests,
             \/ CreateInsert(r) \/ CancelWrite(r) \/ DeclineWrite(r) \/ ExpireWrite(r)
             \/ RegisterInsert(r) \/ AddMemberInsert(r) \/ AccountCommit(r) \/ DissolveCommit(r)
      PROVE  Settled /\ Admission
  BY <1>4, CreateInsertEffect, SettleAloneEffect, RegisterInsertEffect, AccountCommitEffect,
     DissolveCommitEffect, OrdinaryAdmits
<1>5. ASSUME NEW r \in Requests, AcceptInsert(r) \/ JoinInsert(r) PROVE Settled /\ Admission
  BY <1>5, AcceptInsertEffect, JoinInsertEffect
<1>6. ASSUME NEW r \in Requests, Statement(r) PROVE Settled /\ Admission
  BY <1>3, <1>4, <1>5, <1>6 DEF Statement, Reading
<1>7. ASSUME NEW o \in Organizations, NEW u \in Users, Leave(o, u) PROVE Settled /\ Admission
  <2>1. invitation' = invitation /\ members' \subseteq members
    BY <1>7 DEF Leave
  <2>2. QED BY <2>1, UntouchedEffect, OrdinaryAdmits
<1>8. QED
  BY <1>2, <1>3, <1>6, <1>7, ElapseEffect, OrdinaryAdmits DEF Next

-----------------------------------------------------------------------------
(* The theorems. *)

THEOREM Invariance == Spec => []IInv
  BY InitIInv, NextStep, PTL DEF Spec

(* Rows, requests and row locks have their types; no membership and no     *)
(* invitation outlives its organization, and an answered request holds no  *)
(* lock (features/organizations/repositories, shared/invitation).           *)
THEOREM TypeCorrect == Spec => []TypeOK
<1>1. IInv => TypeOK
  BY DEF IInv
<1>2. QED BY <1>1, Invariance, PTL

(* However many admins invite the same address at the same time, at most    *)
(* one pending invitation per organization and email results.               *)
THEOREM OnePending == Spec => []OnePendingPerAddress
<1>1. IInv => OnePendingPerAddress
  BY DEF IInv
<1>2. QED BY <1>1, Invariance, PTL

(* Whatever requests race for it, an invitation that was accepted, declined,*)
(* cancelled or expired never changes again while its organization exists.  *)
THEOREM SettledOnce == Spec => SettledForGood
<1>1. IInv /\ [Next]_vars =>
        [\A i \in Ids : (i \in Existing /\ i \notin Pending) =>
           \/ invitation'[i] = invitation[i]
           \/ invitation'[i] = Gone /\ invitation[i].organization \notin organizations']_vars
  BY NextEffect DEF Settled
<1>2. QED BY <1>1, Invariance, PTL DEF Spec, SettledForGood

(* An invitation is accepted in the step that makes the one who has the     *)
(* invited email a member of the inviting organization, and nobody else     *)
(* becomes a member except by an admin's direct addition: the row lock and  *)
(* the status of the claim, the keys of the insert and the rollback that    *)
(* joins them are enough, with no read of the membership under a lock.      *)
THEOREM AcceptanceAdmits == Spec => AcceptanceAdmitsAddressee
<1>1. IInv /\ [Next]_vars =>
        [/\ \A i \in Ids : Accepted(i) =>
              \E u \in Users :
                /\ account'[invitation[i].email] = u
                /\ members' \ members = {<<invitation[i].organization, u>>}
         /\ members' \ members # {} =>
              (\E i \in Ids : Accepted(i)) \/ \E r \in Requests : AddMemberInsert(r)
         /\ \A i, j \in Ids : Accepted(i) /\ Accepted(j) => i = j]_vars
  BY NextEffect DEF Admission
<1>2. QED BY <1>1, Invariance, PTL DEF Spec, AcceptanceAdmitsAddressee

=============================================================================
