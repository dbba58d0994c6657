---------------------------- MODULE SessionProofs ----------------------------
(***************************************************************************)
(* Proofs that the requests keep the promises of SessionProperties, for    *)
(* any number of users, families, tokens and requests.                     *)
(*                                                                         *)
(* The argument: a rotation inserts its new token only while it holds the  *)
(* lock of the unrevoked token it replaces (Pinned), so an opened family   *)
(* gains a valid token only by losing another one.  A family without one   *)
(* is over, and a revocation that saw none has nothing to revoke (Found).  *)
(***************************************************************************)
EXTENDS SessionProperties, TLAPS

(* The values a request carries at each statement that uses them. *)
Locals(r) ==
  LET q == req[r] IN
  /\ q.pc \in {"refresh.read", "logout.read"} => q.token \in issued
  /\ q.pc \in {"refresh.user", "rotate.revoke", "rotate.insert"} =>
       /\ q.token \in issued /\ q.family \in opened /\ q.user \in Users
       /\ Exists(q.token) => /\ tokens[q.token].familyId = q.family
                             /\ tokens[q.token].userId = q.user
  /\ q.pc \in {"revoke.scan", "revoke.write"} /\ q.family # None =>
       q.family \in opened /\ q.token = None
  /\ q.pc \in {"password.lock", "password.scan", "password.write",
               "account.lock", "account.commit"} => q.user \in Users

(* The tokens a revocation of a family found: all of that family, and when *)
(* it found none, none can appear. *)
Found(r) ==
  LET q == req[r] IN
  q.pc = "revoke.write" /\ q.family # None =>
    /\ q.seen \subseteq issued
    /\ \A t \in q.seen : Exists(t) => tokens[t].familyId = q.family
    /\ q.seen = {} => \A t \in Unrevoked : ~(/\ tokens[t].familyId = q.family
                                             /\ q.user \in {None, tokens[t].userId})

(* The token a rotation has locked is still valid. *)
Pinned(r) == At(r, "rotate.insert") => req[r].token \in Unrevoked

(* The transactions that hold locks, and of which table. *)
Holds(r) ==
  LET pc == req[r].pc IN
  /\ pc = "rotate.insert" => held[r] = {req[r].token}
  /\ pc \in {"password.scan", "password.write", "account.commit"} => held[r] \subseteq Users
  /\ pc \notin {"rotate.insert", "password.scan", "password.write", "account.commit"}
       => held[r] = {}

LocksExclusive == \A r, q \in Requests : r # q => held[r] \cap held[q] = {}

TablesOK ==
  \A t \in Tokens : Exists(t) =>
    t \in issued /\ tokens[t].familyId \in opened /\ tokens[t].userId \in users

IInv ==
  /\ TypeOK
  /\ LocksExclusive
  /\ TablesOK
  /\ OneActivePerFamily
  /\ \A r \in Requests : Locals(r) /\ Found(r) /\ Pinned(r) /\ Holds(r)

USE RowsDistinct, NoneIsNoValue

-----------------------------------------------------------------------------

LEMMA InitIInv == Init => IInv
  BY DEF Init, IInv, TypeOK, LocksExclusive, TablesOK, OneActivePerFamily, Unrevoked, Exists,
         Locals, Found, Pinned, Holds, At, Request, Idle, ProgramCounters, RefreshToken

LEMMA IdleIsRequest ==
  /\ Idle \in Request
  /\ Idle.pc = "idle" /\ Idle.user = None /\ Idle.family = None /\ Idle.token = None
  /\ Idle.seen = {}
  BY DEF Idle, Request, ProgramCounters

(* A step of r that changes no table keeps the invariant when r's own part  *)
(* is kept and r takes no row another transaction holds.                    *)
LEMMA QuietStep ==
  ASSUME IInv, NEW r \in Requests, NEW x \in Request, NEW h \in SUBSET (Users \cup Tokens),
         UNCHANGED tables,
         req' = [req EXCEPT ![r] = x],
         held' = [held EXCEPT ![r] = h],
         \A q \in Requests \ {r} : h \cap held[q] = {},
         x.pc = "idle" => x = Idle /\ h = {},
         (Locals(r) /\ Found(r) /\ Pinned(r) /\ Holds(r))'
  PROVE  IInv'
<1>1. UNCHANGED <<users, tokens, issued, opened>> /\ \A t : Exists(t)' = Exists(t) /\ Unrevoked' = Unrevoked
  BY DEF tables, Exists, Unrevoked
<1>2. TypeOK'
  BY <1>1 DEF IInv, TypeOK
<1>3. LocksExclusive'
  BY DEF IInv, TypeOK, LocksExclusive
<1>4. TablesOK' /\ OneActivePerFamily'
  BY <1>1 DEF IInv, TablesOK, OneActivePerFamily
<1>5. ASSUME NEW q \in Requests PROVE (Locals(q) /\ Found(q) /\ Pinned(q) /\ Holds(q))'
  <2>1. CASE q = r BY <2>1
  <2>2. CASE q # r
    <3>1. req'[q] = req[q] /\ held'[q] = held[q]
      BY <2>2 DEF IInv, TypeOK
    <3>2. Locals(q) /\ Found(q) /\ Pinned(q) /\ Holds(q) BY DEF IInv
    <3>3. Locals(q)' BY <1>1, <3>1, <3>2 DEF Locals
    <3>4. Found(q)' BY <1>1, <3>1, <3>2 DEF Found
    <3>5. Pinned(q)' /\ Holds(q)' BY <1>1, <3>1, <3>2 DEF Pinned, Holds, At
    <3>6. QED BY <3>3, <3>4, <3>5
  <2>3. QED BY <2>1, <2>2
<1>6. QED BY <1>2, <1>3, <1>4, <1>5 DEF IInv

(* What a commit may do to the tokens: it leaves alone the rows that others *)
(* hold, changes no row's family or user, and makes a token valid only in a *)
(* new family or where it takes another valid token's place.                *)
Commits(r) ==
  /\ issued \subseteq issued' /\ opened \subseteq opened'
  /\ \A q \in Requests \ {r} : \A t \in held[q] \cap Tokens : tokens'[t] = tokens[t]
  /\ \A t \in issued : tokens'[t] # None =>
       /\ tokens[t] # None
       /\ tokens'[t].familyId = tokens[t].familyId /\ tokens'[t].userId = tokens[t].userId
  /\ \A t \in Unrevoked' : \/ tokens'[t].familyId \notin opened
                            \/ \E s \in Unrevoked : /\ tokens[s].familyId = tokens'[t].familyId
                                                    /\ tokens[s].userId = tokens'[t].userId

LEMMA WriteStep ==
  ASSUME IInv, NEW r \in Requests, Answer(r), TypeOK', TablesOK', OneActivePerFamily', Commits(r)
  PROVE  IInv'
<1>1. LocksExclusive'
  BY DEF IInv, TypeOK, LocksExclusive, Answer
<1>2. ASSUME NEW q \in Requests PROVE (Locals(q) /\ Found(q) /\ Pinned(q) /\ Holds(q))'
  <2>1. CASE q = r
    <3>1. req'[r] = Idle /\ held'[r] = {}
      BY DEF IInv, TypeOK, Answer
    <3>2. QED BY <2>1, <3>1, IdleIsRequest DEF Locals, Found, Pinned, Holds, At
  <2>2. CASE q # r
    <3>1. req'[q] = req[q] /\ held'[q] = held[q] /\ req[q] \in Request
      BY <2>2 DEF IInv, TypeOK, Answer
    <3>2. Locals(q) /\ Found(q) /\ Pinned(q) /\ Holds(q) BY DEF IInv
    <3>3. issued \subseteq issued' /\ opened \subseteq opened' BY DEF Commits
    <3>4. Locals(q)'
      BY <3>1, <3>2, <3>3 DEF Locals, Commits, Exists
    <3>5. Found(q)'
      <4> SUFFICES ASSUME req[q].pc = "revoke.write", req[q].family # None
                   PROVE  /\ req[q].seen \subseteq issued'
                          /\ \A t \in req[q].seen : Exists(t)' => tokens'[t].familyId = req[q].family
                          /\ req[q].seen = {} =>
                               \A t \in Unrevoked' : ~(/\ tokens'[t].familyId = req[q].family
                                                       /\ req[q].user \in {None, tokens'[t].userId})
        BY <3>1 DEF Found
      <4>1. req[q].seen \subseteq issued /\ req[q].family \in opened
        BY <3>2 DEF Found, Locals
      <4>2. ASSUME NEW t \in req[q].seen, Exists(t)' PROVE tokens'[t].familyId = req[q].family
        BY <3>2, <4>1, <4>2 DEF Found, Commits, Exists
      <4>3. ASSUME req[q].seen = {}, NEW t \in Unrevoked', tokens'[t].familyId = req[q].family,
                   req[q].user \in {None, tokens'[t].userId}
            PROVE  FALSE
        <5>1. PICK s \in Unrevoked : /\ tokens[s].familyId = tokens'[t].familyId
                                     /\ tokens[s].userId = tokens'[t].userId
          BY <4>1, <4>3 DEF Commits
        <5>2. QED BY <3>2, <4>3, <5>1 DEF Found
      <4>4. QED BY <3>3, <4>1, <4>2, <4>3
    <3>6. Pinned(q)'
      <4>1. CASE req[q].pc = "rotate.insert"
        <5>1. req[q].token \in held[q] \cap Tokens /\ req[q].token \in Unrevoked
          BY <3>2, <4>1 DEF Pinned, Holds, At, Unrevoked
        <5>2. tokens'[req[q].token] = tokens[req[q].token]
          BY <2>2, <5>1 DEF Commits
        <5>3. QED BY <3>1, <5>1, <5>2 DEF Pinned, Unrevoked, Exists
      <4>2. CASE req[q].pc # "rotate.insert" BY <3>1, <4>2 DEF Pinned, At
      <4>3. QED BY <4>1, <4>2
    <3>7. Holds(q)' BY <3>1, <3>2 DEF Holds
    <3>8. QED BY <3>4, <3>5, <3>6, <3>7
  <2>3. QED BY <2>1, <2>2
<1>3. QED BY <1>1, <1>2 DEF IInv

-----------------------------------------------------------------------------
(* The quiet steps. *)

LEMMA RejectStep ==
  ASSUME IInv, NEW r \in Requests, Reject(r)
  PROVE  IInv'
<1>1. req'[r] = Idle /\ held'[r] = {}
  BY DEF IInv, TypeOK, Reject, Answer
<1>2. (Locals(r) /\ Found(r) /\ Pinned(r) /\ Holds(r))'
  BY <1>1, IdleIsRequest DEF Locals, Found, Pinned, Holds, At
<1>3. QED
  BY <1>2, IdleIsRequest, QuietStep DEF Reject, Answer

(* A request goes on with the locks it has. *)
LEMMA ContinueStep ==
  ASSUME IInv, NEW r \in Requests, NEW x \in Request, x.pc # "idle", Continue(r, x),
         (Locals(r) /\ Found(r) /\ Pinned(r) /\ Holds(r))'
  PROVE  IInv'
<1>1. held' = [held EXCEPT ![r] = held[r]] /\ held[r] \in SUBSET (Users \cup Tokens)
  BY DEF IInv, TypeOK, Continue
<1>2. \A q \in Requests \ {r} : held[r] \cap held[q] = {}
  BY DEF IInv, LocksExclusive
<1>3. QED
  BY <1>1, <1>2, QuietStep DEF Continue

(* The statements a request starts with, or goes on to, without a lock. *)
Unlocked ==
  {"login.read", "login.insert", "refresh.read", "refresh.user", "rotate.revoke", "logout.read",
   "revoke.scan", "password.read", "password.lock", "account.lock"}

(* A request that has no lock goes on to a statement that needs none. *)
LEMMA FreeStep ==
  ASSUME IInv, NEW r \in Requests, NEW x \in Request, Continue(r, x),
         held[r] = {}, x.pc \in Unlocked,
         x.pc \in {"refresh.read", "logout.read"} => x.token \in issued,
         x.pc \in {"refresh.user", "rotate.revoke"} =>
           /\ x.token \in issued /\ x.family \in opened /\ x.user \in Users
           /\ Exists(x.token) => /\ tokens[x.token].familyId = x.family
                                 /\ tokens[x.token].userId = x.user,
         x.pc = "revoke.scan" /\ x.family # None => x.family \in opened /\ x.token = None,
         x.pc \in {"password.lock", "account.lock"} => x.user \in Users
  PROVE  IInv'
<1>1. req'[r] = x /\ held'[r] = {}
  BY DEF IInv, TypeOK, Continue
<1>2. (Locals(r) /\ Found(r) /\ Pinned(r) /\ Holds(r))'
  BY <1>1 DEF Unlocked, Continue, tables, Locals, Found, Pinned, Holds, At, Exists
<1>3. QED
  BY <1>2, ContinueStep DEF Unlocked

LEMMA BeginStep ==
  ASSUME IInv, NEW r \in Requests, NEW operation, NEW x \in Request, Begin(r, operation, x),
         x.pc \in {"login.read", "refresh.read", "logout.read", "revoke.scan", "password.read",
                   "password.lock", "account.lock"},
         x.pc \in {"refresh.read", "logout.read"} => x.token \in issued,
         x.pc = "revoke.scan" /\ x.family # None => x.family \in opened /\ x.token = None,
         x.pc \in {"password.lock", "account.lock"} => x.user \in Users
  PROVE  IInv'
<1>1. held[r] = {}
  BY DEF IInv, TypeOK, Begin, At
<1>2. Continue(r, x)
  BY DEF Begin, Continue
<1>3. QED
  BY <1>1, <1>2, FreeStep DEF Unlocked

LEMMA StartStep ==
  ASSUME IInv, NEW r \in Requests, Start(r)
  PROVE  IInv'
<1>1. ASSUME NEW u \in Users, NEW pc \in {"login.read", "revoke.scan", "password.read",
                                          "password.lock", "account.lock"},
             NEW operation, Begin(r, operation, [Idle EXCEPT !.pc = pc, !.user = u])
      PROVE  IInv'
  <2> DEFINE x == [Idle EXCEPT !.pc = pc, !.user = u]
  <2>1. x \in Request /\ x.pc = pc /\ x.user = u /\ x.family = None
    BY IdleIsRequest DEF Request, ProgramCounters
  <2> HIDE DEF x
  <2>2. QED BY <1>1, <2>1, BeginStep DEF x
<1>2. ASSUME NEW t \in issued, NEW pc \in {"refresh.read", "logout.read"},
             NEW operation, Begin(r, operation, [Idle EXCEPT !.pc = pc, !.token = t])
      PROVE  IInv'
  <2> DEFINE x == [Idle EXCEPT !.pc = pc, !.token = t]
  <2>1. x \in Request /\ x.pc = pc /\ x.token = t
    BY IdleIsRequest DEF Request, ProgramCounters, IInv, TypeOK
  <2> HIDE DEF x
  <2>2. QED BY <1>2, <2>1, BeginStep DEF x
<1>3. ASSUME NEW u \in Users, NEW f \in Families, StartLogoutSession(r, u, f) PROVE IInv'
  <2> DEFINE x == [Idle EXCEPT !.pc = "revoke.scan", !.user = u, !.family = f]
  <2>1. x \in Request /\ x.pc = "revoke.scan" /\ x.family = f /\ x.token = None
    BY IdleIsRequest DEF Request, ProgramCounters
  <2>2. f \in opened /\ Begin(r, "logoutSession", x)
    BY <1>3 DEF StartLogoutSession
  <2> HIDE DEF x
  <2>3. QED BY <2>1, <2>2, BeginStep
<1>4. QED
  BY <1>1, <1>2, <1>3 DEF Start, StartLogin, StartLogoutAll, StartChangePassword,
     StartConfirmPasswordReset, StartDeleteMe, StartRefresh, StartLogout

-----------------------------------------------------------------------------
(* Reading, and deciding what to do. *)

LEMMA LoginReadStep ==
  ASSUME IInv, NEW r \in Requests, LoginRead(r)
  PROVE  IInv'
<1> DEFINE x == [req[r] EXCEPT !.pc = "login.insert"]
<1>1. x \in Request /\ x.pc = "login.insert" /\ held[r] = {}
  BY DEF IInv, TypeOK, Request, ProgramCounters, Holds, LoginRead, At
<1> HIDE DEF x
<1>2. QED
  BY <1>1, FreeStep, RejectStep DEF LoginRead, Unlocked, x

LEMMA RevokeFamilyStep ==
  ASSUME IInv, NEW r \in Requests, RevokeFamily(r), held[r] = {},
         req[r].token \in issued, Exists(req[r].token)
  PROVE  IInv'
<1> DEFINE f == tokens[req[r].token].familyId
           x == [Idle EXCEPT !.pc = "revoke.scan", !.family = f]
<1>1. req[r].token \in Tokens
  BY DEF IInv, TypeOK
<1>2. f \in opened /\ opened \subseteq Families
  BY <1>1 DEF IInv, TablesOK, TypeOK
<1>3. x \in Request /\ x.pc = "revoke.scan" /\ x.family = f /\ x.token = None
  BY <1>2, IdleIsRequest DEF Request, ProgramCounters
<1>4. Continue(r, x)
  BY DEF RevokeFamily
<1> HIDE DEF x, f
<1>5. QED
  BY <1>2, <1>3, <1>4, FreeStep DEF Unlocked

LEMMA RefreshReadStep ==
  ASSUME IInv, NEW r \in Requests, RefreshRead(r)
  PROVE  IInv'
<1> DEFINE t == req[r].token
           x == [Idle EXCEPT !.pc = "revoke.scan", !.token = t]
           y == [Idle EXCEPT !.pc = "refresh.user", !.token = t,
                             !.family = tokens[t].familyId, !.user = tokens[t].userId]
<1>1. held[r] = {} /\ t \in issued /\ t \in Tokens
  BY DEF IInv, TypeOK, Locals, Holds, RefreshRead, At
<1>2. CASE Continue(r, x)
  <2>1. x \in Request /\ x.pc = "revoke.scan" /\ x.family = None
    BY <1>1, IdleIsRequest DEF Request, ProgramCounters
  <2> HIDE DEF x
  <2>2. QED BY <1>1, <1>2, <2>1, FreeStep DEF Unlocked
<1>3. CASE Exists(t) /\ Continue(r, y)
  <2>1. tokens[t].familyId \in opened /\ tokens[t].userId \in users
        /\ opened \subseteq Families /\ users \subseteq Users
    BY <1>1, <1>3 DEF IInv, TypeOK, TablesOK
  <2>2. /\ y \in Request /\ y.pc = "refresh.user" /\ y.token = t
        /\ y.family = tokens[t].familyId /\ y.user = tokens[t].userId
    BY <1>1, <2>1, IdleIsRequest DEF Request, ProgramCounters
  <2> HIDE DEF y
  <2>3. QED BY <1>1, <1>3, <2>1, <2>2, FreeStep DEF Unlocked
<1>4. QED
  BY <1>1, <1>2, <1>3, RevokeFamilyStep, RejectStep DEF RefreshRead, Unrevoked

LEMMA LogoutReadStep ==
  ASSUME IInv, NEW r \in Requests, LogoutRead(r)
  PROVE  IInv'
<1>1. held[r] = {} /\ req[r].token \in issued
  BY DEF IInv, Locals, Holds, LogoutRead, At
<1>2. QED
  BY <1>1, RevokeFamilyStep, RejectStep DEF LogoutRead

LEMMA RefreshUserStep ==
  ASSUME IInv, NEW r \in Requests, RefreshUser(r)
  PROVE  IInv'
<1> DEFINE x == [req[r] EXCEPT !.pc = "rotate.revoke"]
           y == [Idle EXCEPT !.pc = "revoke.scan", !.family = req[r].family]
<1>1. /\ held[r] = {} /\ req[r].token \in issued /\ req[r].family \in opened /\ req[r].user \in Users
      /\ Exists(req[r].token) => /\ tokens[req[r].token].familyId = req[r].family
                                 /\ tokens[req[r].token].userId = req[r].user
  BY DEF IInv, Locals, Holds, RefreshUser, At
<1>2. req[r] \in Request /\ opened \subseteq Families
  BY DEF IInv, TypeOK
<1>3. CASE Continue(r, x)
  <2>1. /\ x \in Request /\ x.pc = "rotate.revoke" /\ x.token = req[r].token
        /\ x.family = req[r].family /\ x.user = req[r].user
    BY <1>2 DEF Request, ProgramCounters
  <2> HIDE DEF x
  <2>2. QED BY <1>1, <1>3, <2>1, FreeStep DEF Unlocked
<1>4. CASE Continue(r, y)
  <2>1. y \in Request /\ y.pc = "revoke.scan" /\ y.family = req[r].family /\ y.token = None
    BY <1>1, <1>2, IdleIsRequest DEF Request, ProgramCounters
  <2> HIDE DEF y
  <2>2. QED BY <1>1, <1>4, <2>1, FreeStep DEF Unlocked
<1>5. QED
  BY <1>3, <1>4 DEF RefreshUser

LEMMA PasswordReadStep ==
  ASSUME IInv, NEW r \in Requests, PasswordRead(r)
  PROVE  IInv'
<1> DEFINE x == [req[r] EXCEPT !.pc = "password.lock"]
<1>1. x \in Request /\ x.pc = "password.lock" /\ x.user = req[r].user /\ held[r] = {}
  BY DEF IInv, TypeOK, Request, ProgramCounters, Holds, PasswordRead, At
<1>2. users \subseteq Users
  BY DEF IInv, TypeOK
<1> HIDE DEF x
<1>3. QED
  BY <1>1, <1>2, FreeStep, RejectStep DEF PasswordRead, Unlocked, x

(* An UPDATE picks the rows its snapshot shows. *)
LEMMA RevokeScanStep ==
  ASSUME IInv, NEW r \in Requests, RevokeScan(r)
  PROVE  IInv'
<1> DEFINE x == [req[r] EXCEPT !.pc = "revoke.write", !.seen = Scope(r)]
<1>1. Scope(r) \subseteq Unrevoked /\ Unrevoked \subseteq Tokens
  BY DEF Scope, Unrevoked
<1>2. /\ x \in Request /\ x.pc = "revoke.write" /\ x.user = req[r].user
      /\ x.family = req[r].family /\ x.token = req[r].token /\ x.seen = Scope(r)
  <2>1. req[r] \in Request /\ "revoke.write" \in ProgramCounters /\ Scope(r) \in SUBSET Tokens
    BY <1>1 DEF IInv, TypeOK, ProgramCounters
  <2>2. PICK rows \in SUBSET Tokens : rows = Scope(r)
    BY <2>1
  <2>3. QED BY <2>1, <2>2 DEF Request
<1>3. held[r] = {} /\ (req[r].family # None => req[r].family \in opened /\ req[r].token = None)
  BY DEF IInv, Locals, Holds, RevokeScan, At
<1>4. Continue(r, x)
  BY DEF RevokeScan
<1> HIDE DEF x
<1>5. req'[r] = x /\ held'[r] = {} /\ UNCHANGED <<users, tokens, issued, opened>>
  BY <1>3, <1>4 DEF IInv, TypeOK, Continue, tables
<1>6. Found(r)'
  <2> SUFFICES ASSUME req[r].family # None
               PROVE  /\ Scope(r) \subseteq issued
                      /\ \A t \in Scope(r) : tokens[t].familyId = req[r].family
                      /\ Scope(r) = {} => \A t \in Unrevoked : ~(/\ tokens[t].familyId = req[r].family
                                                                 /\ req[r].user \in {None, tokens[t].userId})
    BY <1>2, <1>5 DEF Found, Exists, Unrevoked
  <2>1. Scope(r) \subseteq issued
    BY <1>1 DEF IInv, TablesOK, Unrevoked
  <2>2. QED BY <1>3, <2>1 DEF Scope
<1>7. (Locals(r) /\ Pinned(r) /\ Holds(r))'
  BY <1>2, <1>3, <1>5 DEF Locals, Pinned, Holds, At
<1>8. QED
  BY <1>2, <1>4, <1>6, <1>7, ContinueStep

LEMMA PasswordScanStep ==
  ASSUME IInv, NEW r \in Requests, PasswordScan(r)
  PROVE  IInv'
<1> DEFINE x == [req[r] EXCEPT !.pc = "password.write", !.seen = Scope(r)]
<1>1. Scope(r) \subseteq Tokens
  BY DEF Scope, Unrevoked
<1>2. x \in Request /\ x.pc = "password.write" /\ x.user = req[r].user
  <2>1. req[r] \in Request /\ "password.write" \in ProgramCounters /\ Scope(r) \in SUBSET Tokens
    BY <1>1 DEF IInv, TypeOK, ProgramCounters
  <2>2. PICK rows \in SUBSET Tokens : rows = Scope(r)
    BY <2>1
  <2>3. QED BY <2>1, <2>2 DEF Request
<1>3. req[r].user \in Users /\ held[r] \subseteq Users
  BY DEF IInv, Locals, Holds, PasswordScan, At
<1>4. Continue(r, x)
  BY DEF PasswordScan
<1> HIDE DEF x
<1>5. req'[r] = x /\ held' = held
  BY <1>4 DEF IInv, TypeOK, Continue
<1>6. (Locals(r) /\ Found(r) /\ Pinned(r) /\ Holds(r))'
  BY <1>2, <1>3, <1>5 DEF Locals, Found, Pinned, Holds, At
<1>7. QED
  BY <1>2, <1>4, <1>6, ContinueStep

-----------------------------------------------------------------------------
(* Taking locks. *)

(* A lock is granted only when nobody else holds the row. *)
LEMMA LockStep ==
  ASSUME IInv, NEW r \in Requests, NEW x \in Request, x.pc # "idle", Lock(r, x),
         Needs(r) \subseteq Users \cup Tokens,
         (Locals(r) /\ Found(r) /\ Pinned(r) /\ Holds(r))'
  PROVE  IInv'
<1>1. /\ held' = [held EXCEPT ![r] = held[r] \cup Needs(r)]
      /\ held[r] \cup Needs(r) \in SUBSET (Users \cup Tokens)
  BY DEF IInv, TypeOK, Lock
<1>2. \A q \in Requests \ {r} : (held[r] \cup Needs(r)) \cap held[q] = {}
  BY DEF IInv, LocksExclusive, Lock, Blockers
<1>3. QED
  BY <1>1, <1>2, QuietStep DEF Lock

LEMMA RotateRevokeStep ==
  ASSUME IInv, NEW r \in Requests, RotateRevoke(r)
  PROVE  IInv'
<1> DEFINE x == [req[r] EXCEPT !.pc = "rotate.insert"]
           y == [Idle EXCEPT !.pc = "revoke.scan", !.family = req[r].family]
<1>1. /\ held[r] = {} /\ req[r].token \in issued /\ req[r].family \in opened /\ req[r].user \in Users
      /\ Exists(req[r].token) => /\ tokens[req[r].token].familyId = req[r].family
                                 /\ tokens[req[r].token].userId = req[r].user
  BY DEF IInv, Locals, Holds, RotateRevoke, At
<1>2. req[r] \in Request /\ opened \subseteq Families /\ issued \subseteq Tokens
  BY DEF IInv, TypeOK
<1>3. CASE req[r].token \in Unrevoked /\ Lock(r, x)
  <2>1. /\ x \in Request /\ x.pc = "rotate.insert" /\ x.token = req[r].token
        /\ x.family = req[r].family /\ x.user = req[r].user
    BY <1>2 DEF Request, ProgramCounters
  <2>2. Needs(r) = {req[r].token}
    BY <1>3 DEF RotateRevoke, At, Needs
  <2> HIDE DEF x
  <2>3. req'[r] = x /\ held'[r] = {req[r].token} /\ UNCHANGED <<users, tokens, issued, opened>>
    BY <1>1, <1>3, <2>2 DEF IInv, TypeOK, Lock, tables
  <2>4. (Locals(r) /\ Found(r) /\ Pinned(r) /\ Holds(r))'
    BY <1>1, <1>2, <1>3, <2>1, <2>3 DEF Locals, Found, Pinned, Holds, At, Exists, Unrevoked
  <2>5. QED BY <1>1, <1>2, <1>3, <2>1, <2>2, <2>4, LockStep
<1>4. CASE Continue(r, y)
  <2>1. y \in Request /\ y.pc = "revoke.scan" /\ y.family = req[r].family /\ y.token = None
    BY <1>1, <1>2, IdleIsRequest DEF Request, ProgramCounters
  <2> HIDE DEF y
  <2>2. QED BY <1>1, <1>4, <2>1, FreeStep DEF Unlocked
<1>5. QED
  BY <1>3, <1>4 DEF RotateRevoke

(* The locks of a password change and of an account deletion: the User row. *)
LEMMA UserLockStep ==
  ASSUME IInv, NEW r \in Requests, NEW pc \in {"password.scan", "account.commit"},
         At(r, "password.lock") \/ At(r, "account.lock"),
         Lock(r, [req[r] EXCEPT !.pc = pc])
  PROVE  IInv'
<1> DEFINE x == [req[r] EXCEPT !.pc = pc]
<1>1. x \in Request /\ x.pc = pc /\ x.user = req[r].user
  BY DEF IInv, TypeOK, Request, ProgramCounters
<1>2. req[r].user \in Users /\ held[r] = {}
  BY DEF IInv, Locals, Holds, At
<1>3. Needs(r) \subseteq Users
  BY <1>2 DEF Needs, At
<1> HIDE DEF x
<1>4. req'[r] = x /\ held'[r] \subseteq Users
  BY <1>2, <1>3 DEF IInv, TypeOK, Lock, x
<1>5. (Locals(r) /\ Found(r) /\ Pinned(r) /\ Holds(r))'
  BY <1>1, <1>2, <1>4 DEF Locals, Found, Pinned, Holds, At
<1>6. QED
  BY <1>1, <1>3, <1>5, LockStep DEF x

LEMMA PasswordLockStep ==
  ASSUME IInv, NEW r \in Requests, PasswordLock(r)
  PROVE  IInv'
  BY UserLockStep, RejectStep DEF PasswordLock

LEMMA AccountLockStep ==
  ASSUME IInv, NEW r \in Requests, AccountLock(r)
  PROVE  IInv'
  BY UserLockStep, RejectStep DEF AccountLock

-----------------------------------------------------------------------------
(* Writing. *)

(* A transaction holds no row but the ones it read. *)
LEMMA HeldIsIssued ==
  ASSUME IInv, NEW r \in Requests
  PROVE  held[r] \cap Tokens \subseteq issued
<1>1. CASE At(r, "rotate.insert")
  BY <1>1 DEF IInv, Holds, Locals, At
<1>2. CASE ~At(r, "rotate.insert")
  BY <1>2 DEF IInv, Holds, At
<1>3. QED BY <1>1, <1>2

LEMMA NewRow ==
  ASSUME NEW u \in Users, NEW f \in Families
  PROVE  /\ Row(u, f) \in RefreshToken /\ Row(u, f) # None
         /\ Row(u, f).userId = u /\ Row(u, f).familyId = f /\ Row(u, f).revoked = FALSE
<1>1. /\ Row(u, f) \in RefreshToken
      /\ Row(u, f).userId = u /\ Row(u, f).familyId = f /\ Row(u, f).revoked = FALSE
  BY DEF Row, RefreshToken
<1>2. Row(u, f) # None
  BY <1>1
<1>3. QED BY <1>1, <1>2

LEMMA RevokedRows ==
  ASSUME TypeOK, NEW ts \in SUBSET Unrevoked
  PROVE  /\ Revoked(ts) \in [Tokens -> RefreshToken \cup {None}]
         /\ \A t \in Tokens \ ts : Revoked(ts)[t] = tokens[t]
         /\ \A t \in ts : /\ Revoked(ts)[t] # None /\ tokens[t] # None
                          /\ Revoked(ts)[t].revoked = TRUE
                          /\ Revoked(ts)[t].familyId = tokens[t].familyId
                          /\ Revoked(ts)[t].userId = tokens[t].userId
<1>1. ASSUME NEW t \in ts
      PROVE  /\ [tokens[t] EXCEPT !.revoked = TRUE] \in RefreshToken
             /\ tokens[t] \in RefreshToken /\ t \in Tokens
  <2>1. tokens[t] \in RefreshToken
    BY DEF TypeOK, Unrevoked, Exists
  <2>2. QED BY <2>1 DEF RefreshToken, Unrevoked
<1>2. \A t \in Tokens : tokens[t] \in RefreshToken \cup {None}
  BY DEF TypeOK
<1>3. ASSUME NEW t \in ts
      PROVE  /\ Revoked(ts)[t] = [tokens[t] EXCEPT !.revoked = TRUE]
             /\ Revoked(ts)[t] \in RefreshToken /\ Revoked(ts)[t].revoked = TRUE
             /\ Revoked(ts)[t].familyId = tokens[t].familyId
             /\ Revoked(ts)[t].userId = tokens[t].userId
  <2>1. Revoked(ts)[t] = [tokens[t] EXCEPT !.revoked = TRUE]
    BY <1>1 DEF Revoked
  <2>2. QED BY <1>1, <2>1 DEF RefreshToken
<1>4. \A t \in Tokens \ ts : Revoked(ts)[t] = tokens[t]
  BY DEF Revoked
<1>5. Revoked(ts) \in [Tokens -> RefreshToken \cup {None}]
  BY <1>1, <1>2 DEF Revoked
<1>6. QED
  BY <1>1, <1>3, <1>4, <1>5

(* Revoking valid tokens that nobody else holds keeps the invariant. *)
LEMMA RevokeStep ==
  ASSUME IInv, NEW r \in Requests, Answer(r), UNCHANGED <<users, issued, opened>>,
         NEW ts \in SUBSET Unrevoked, tokens' = Revoked(ts),
         \A q \in Requests \ {r} : ts \cap held[q] = {}
  PROVE  IInv'
<1>1. /\ tokens' \in [Tokens -> RefreshToken \cup {None}]
      /\ \A t \in Tokens \ ts : tokens'[t] = tokens[t]
      /\ \A t \in ts : /\ tokens'[t] # None /\ tokens[t] # None /\ tokens'[t].revoked = TRUE
                       /\ tokens'[t].familyId = tokens[t].familyId
                       /\ tokens'[t].userId = tokens[t].userId
  BY RevokedRows DEF IInv
<1>2. Unrevoked' = Unrevoked \ ts /\ Unrevoked \subseteq Tokens
  BY <1>1 DEF Unrevoked, Exists
<1>3. TypeOK'
  BY <1>1, IdleIsRequest DEF IInv, TypeOK, Answer
<1>4. TablesOK'
  BY <1>1 DEF IInv, TablesOK, Exists
<1>5. OneActivePerFamily'
  BY <1>1, <1>2 DEF IInv, OneActivePerFamily
<1>6. \A t \in issued : t \in Tokens
  BY DEF IInv, TypeOK
<1>7. Commits(r)
  <2>1. \A t \in issued : tokens'[t] # None =>
          /\ tokens[t] # None
          /\ tokens'[t].familyId = tokens[t].familyId /\ tokens'[t].userId = tokens[t].userId
    BY <1>1, <1>6
  <2>2. \A q \in Requests \ {r} : \A t \in held[q] \cap Tokens : tokens'[t] = tokens[t]
    BY <1>1
  <2>3. \A t \in Unrevoked' : t \in Unrevoked /\ tokens'[t] = tokens[t]
    BY <1>1, <1>2
  <2>4. QED BY <2>1, <2>2, <2>3 DEF Commits
<1>8. QED
  BY <1>3, <1>4, <1>5, <1>7, WriteStep

LEMMA RevokeWriteStep ==
  ASSUME IInv, NEW r \in Requests, RevokeWrite(r)
  PROVE  IInv'
<1>1. \A q \in Requests \ {r} : (req[r].seen \cap Unrevoked) \cap held[q] = {}
  BY DEF RevokeWrite, Blockers, Needs, At
<1>2. QED
  BY <1>1, RevokeStep DEF RevokeWrite

LEMMA PasswordWriteStep ==
  ASSUME IInv, NEW r \in Requests, PasswordWrite(r)
  PROVE  IInv'
<1>1. \A q \in Requests \ {r} : (req[r].seen \cap Unrevoked) \cap held[q] = {}
  BY DEF PasswordWrite, Blockers, Needs, At
<1>2. QED
  BY <1>1, RevokeStep DEF PasswordWrite

(* What a login inserts: a new token of a new family. *)
Opens(r, t, f) ==
  /\ At(r, "login.insert")
  /\ req[r].user \in users /\ t \in FreshTokens /\ f \in FreshFamilies
  /\ tokens' = [tokens EXCEPT ![t] = Row(req[r].user, f)]
  /\ issued' = issued \cup {t}
  /\ opened' = opened \cup {f}
  /\ users' = users
  /\ Answer(r)

LEMMA OpensStep ==
  ASSUME IInv, NEW r \in Requests, NEW t, NEW f, Opens(r, t, f)
  PROVE  IInv'
<1>1. /\ req[r].user \in Users /\ t \in Tokens \ issued /\ f \in Families \ opened
      /\ issued \subseteq Tokens /\ opened \subseteq Families
      /\ tokens \in [Tokens -> RefreshToken \cup {None}]
  BY DEF IInv, TypeOK, Opens, FreshTokens, FreshFamilies
<1>2. /\ tokens' \in [Tokens -> RefreshToken \cup {None}]
      /\ \A k \in Tokens \ {t} : tokens'[k] = tokens[k]
      /\ tokens'[t] # None /\ tokens'[t].familyId = f /\ tokens'[t].userId = req[r].user
  <2>1. PICK row : row = Row(req[r].user, f)
    OBVIOUS
  <2>2. /\ row \in RefreshToken /\ row # None
        /\ row.familyId = f /\ row.userId = req[r].user
    BY <1>1, <2>1, NewRow
  <2>3. tokens' = [tokens EXCEPT ![t] = row]
    BY <2>1 DEF Opens
  <2>4. tokens' \in [Tokens -> RefreshToken \cup {None}]
    BY <1>1, <2>2, <2>3
  <2>5. tokens'[t] = row /\ \A k \in Tokens \ {t} : tokens'[k] = tokens[k]
    BY <1>1, <2>3
  <2>6. QED BY <2>2, <2>4, <2>5
<1>3. TypeOK'
  BY <1>1, <1>2, IdleIsRequest DEF IInv, TypeOK, Opens, Answer
<1>4. TablesOK'
  BY <1>1, <1>2 DEF IInv, TablesOK, Exists, Opens
<1>5. \A k \in Unrevoked' : k = t \/ (k \in Unrevoked /\ tokens'[k] = tokens[k])
  BY <1>2 DEF Unrevoked, Exists
<1>6. \A k \in Unrevoked : tokens[k].familyId \in opened
  BY DEF IInv, TablesOK, Unrevoked
<1>7. OneActivePerFamily'
  <2> SUFFICES ASSUME NEW i \in Unrevoked', NEW j \in Unrevoked',
                      tokens'[i].familyId = tokens'[j].familyId
               PROVE  i = j
    BY DEF OneActivePerFamily
  <2>1. QED BY <1>1, <1>2, <1>5, <1>6 DEF IInv, OneActivePerFamily
<1>8. Commits(r)
  <2>1. \A q \in Requests : held[q] \cap Tokens \subseteq issued
    BY HeldIsIssued
  <2>2. QED BY <1>1, <1>2, <1>5, <2>1 DEF Commits, Opens
<1>9. QED
  BY <1>3, <1>4, <1>7, <1>8, WriteStep DEF Opens

LEMMA LoginInsertStep ==
  ASSUME IInv, NEW r \in Requests, LoginInsert(r)
  PROVE  IInv'
  BY OpensStep, RejectStep DEF LoginInsert, Opens

(* What a rotation writes: its token is revoked, a new one takes its place. *)
Renews(r, t) ==
  /\ At(r, "rotate.insert")
  /\ req[r].user \in users /\ t \in FreshTokens
  /\ tokens' = [Revoked({req[r].token}) EXCEPT ![t] = Row(req[r].user, req[r].family)]
  /\ issued' = issued \cup {t}
  /\ UNCHANGED <<users, opened>>
  /\ Answer(r)

(* The token a rotation replaces, and all rows after it. *)
RenewalOf(r, old, t) ==
  /\ old \in Unrevoked /\ old \in issued /\ old # t /\ held[r] = {old}
  /\ tokens[old].familyId = req[r].family /\ tokens[old].userId = req[r].user
  /\ req[r].family \in opened /\ t \in Tokens \ issued
  /\ tokens' \in [Tokens -> RefreshToken \cup {None}]
  /\ tokens'[t] # None /\ tokens'[t].revoked = FALSE
  /\ tokens'[t].familyId = req[r].family /\ tokens'[t].userId = req[r].user
  /\ tokens'[old] # None /\ tokens'[old].revoked = TRUE
  /\ tokens'[old].familyId = req[r].family /\ tokens'[old].userId = req[r].user
  /\ \A k \in Tokens \ {old, t} : tokens'[k] = tokens[k]

LEMMA RenewedRows ==
  ASSUME IInv, NEW r \in Requests, NEW t, Renews(r, t)
  PROVE  RenewalOf(r, req[r].token, t)
<1> DEFINE old == req[r].token
<1>1. /\ old \in Unrevoked /\ old \in issued /\ held[r] = {old}
      /\ tokens[old].familyId = req[r].family /\ tokens[old].userId = req[r].user
      /\ req[r].family \in opened /\ req[r].user \in Users
  BY DEF Renews, IInv, Locals, Pinned, Holds, At, Unrevoked
<1>2. t \in Tokens \ issued /\ req[r].family \in Families
  BY <1>1 DEF Renews, FreshTokens, IInv, TypeOK
<1>3. PICK row : row = Row(req[r].user, req[r].family)
  OBVIOUS
<1>4. /\ row \in RefreshToken /\ row # None /\ row.revoked = FALSE
      /\ row.familyId = req[r].family /\ row.userId = req[r].user
  BY <1>1, <1>2, <1>3, NewRow
<1>5. {old} \in SUBSET Unrevoked
  BY <1>1
<1>6. PICK after : after = Revoked({old})
  OBVIOUS
<1>7. /\ after \in [Tokens -> RefreshToken \cup {None}]
      /\ \A k \in Tokens \ {old} : after[k] = tokens[k]
      /\ after[old] # None /\ after[old].revoked = TRUE
      /\ after[old].familyId = req[r].family /\ after[old].userId = req[r].user
  BY <1>1, <1>5, <1>6, RevokedRows DEF IInv
<1>8. tokens' = [after EXCEPT ![t] = row]
  BY <1>3, <1>6 DEF Renews
<1>9. old # t /\ old \in Tokens
  BY <1>1, <1>2 DEF Unrevoked
<1>10. /\ tokens' \in [Tokens -> RefreshToken \cup {None}]
       /\ tokens'[t] = row /\ tokens'[old] = after[old]
       /\ \A k \in Tokens \ {old, t} : tokens'[k] = tokens[k]
  BY <1>2, <1>4, <1>7, <1>8, <1>9
<1>11. QED
  BY <1>1, <1>2, <1>4, <1>7, <1>9, <1>10 DEF RenewalOf

(* A rotation takes the valid token of its session for another one. *)
Replaces(old, f, t) ==
  /\ old \in Unrevoked /\ old # t
  /\ tokens[old].familyId = f /\ f \in opened /\ t \in Tokens \ issued
  /\ tokens'[t] # None /\ tokens'[t].revoked = FALSE /\ tokens'[t].familyId = f
  /\ tokens'[old].revoked = TRUE
  /\ \A k \in Tokens \ {old, t} : tokens'[k] = tokens[k]

LEMMA OneReplaced ==
  ASSUME IInv, NEW r \in Requests, NEW t, Renews(r, t)
  PROVE  \E old, f : Replaces(old, f, t)
<1>1. PICK old : RenewalOf(r, old, t)
  BY RenewedRows
<1>2. Replaces(old, req[r].family, t)
  BY <1>1 DEF RenewalOf, Replaces
<1>3. QED BY <1>2

LEMMA RenewsStep ==
  ASSUME IInv, NEW r \in Requests, NEW t, Renews(r, t)
  PROVE  IInv'
<1>1. PICK old : RenewalOf(r, old, t)
  BY RenewedRows
<1>2. /\ old \in Unrevoked /\ old \in issued /\ old # t /\ held[r] = {old}
      /\ tokens[old].familyId = req[r].family /\ tokens[old].userId = req[r].user
      /\ req[r].family \in opened /\ t \in Tokens \ issued
      /\ tokens' \in [Tokens -> RefreshToken \cup {None}]
      /\ tokens'[t] # None /\ tokens'[t].revoked = FALSE
      /\ tokens'[t].familyId = req[r].family /\ tokens'[t].userId = req[r].user
      /\ tokens'[old] # None /\ tokens'[old].revoked = TRUE
      /\ tokens'[old].familyId = req[r].family /\ tokens'[old].userId = req[r].user
      /\ \A k \in Tokens \ {old, t} : tokens'[k] = tokens[k]
  BY <1>1 DEF RenewalOf
<1>3. issued \subseteq Tokens /\ Unrevoked \subseteq Tokens
  BY DEF IInv, TypeOK, Unrevoked
<1>4. TypeOK'
  BY <1>2, <1>3, IdleIsRequest DEF IInv, TypeOK, Renews, Answer
<1>5. TablesOK'
  BY <1>2 DEF IInv, TablesOK, Exists, Renews
<1>6. \A k \in Unrevoked' : k = t \/ (k \in Unrevoked /\ k # old /\ tokens'[k] = tokens[k])
  BY <1>2 DEF Unrevoked, Exists
<1>7. OneActivePerFamily'
  <2> SUFFICES ASSUME NEW i \in Unrevoked', NEW j \in Unrevoked',
                      tokens'[i].familyId = tokens'[j].familyId
               PROVE  i = j
    BY DEF OneActivePerFamily
  <2>1. QED BY <1>2, <1>6 DEF IInv, OneActivePerFamily
<1>8. Commits(r)
  <2>1. \A q \in Requests : held[q] \cap Tokens \subseteq issued
    BY HeldIsIssued
  <2>2. \A q \in Requests \ {r} : old \notin held[q]
    BY <1>2 DEF IInv, LocksExclusive
  <2>3. \A q \in Requests \ {r} : \A k \in held[q] \cap Tokens : tokens'[k] = tokens[k]
    BY <1>2, <2>1, <2>2
  <2>4. \A k \in issued : tokens'[k] # None =>
          /\ tokens[k] # None
          /\ tokens'[k].familyId = tokens[k].familyId /\ tokens'[k].userId = tokens[k].userId
    BY <1>2, <1>3 DEF Unrevoked, Exists
  <2>5. QED BY <1>2, <1>6, <2>3, <2>4 DEF Commits, Renews
<1>9. QED
  BY <1>4, <1>5, <1>7, <1>8, WriteStep DEF Renews

LEMMA RotateInsertStep ==
  ASSUME IInv, NEW r \in Requests, RotateInsert(r)
  PROVE  IInv'
  BY RenewsStep, RejectStep DEF RotateInsert, Renews

LEMMA AccountCommitStep ==
  ASSUME IInv, NEW r \in Requests, AccountCommit(r)
  PROVE  IInv'
<1> DEFINE gone == OfUser(req[r].user)
<1>1. /\ tokens \in [Tokens -> RefreshToken \cup {None}]
      /\ issued \subseteq Tokens
  BY DEF IInv, TypeOK
<1>2. tokens' = [t \in Tokens |-> IF t \in gone THEN None ELSE tokens[t]]
  BY DEF AccountCommit
<1>3. \A t \in Tokens : tokens'[t] # None =>
        tokens[t] # None /\ tokens'[t] = tokens[t] /\ tokens[t].userId # req[r].user
  BY <1>2 DEF OfUser, Exists
<1>4. TypeOK'
  BY <1>1, <1>2, IdleIsRequest DEF IInv, TypeOK, AccountCommit, Answer
<1>5. TablesOK'
  BY <1>3 DEF IInv, TablesOK, Exists, AccountCommit
<1>6. Unrevoked' \subseteq Unrevoked /\ \A t \in Unrevoked' : tokens'[t] = tokens[t]
  BY <1>3 DEF Unrevoked, Exists
<1>7. OneActivePerFamily'
  BY <1>6 DEF IInv, OneActivePerFamily
<1>8. Commits(r)
  <2>1. \A q \in Requests \ {r} : gone \cap held[q] = {}
    BY DEF AccountCommit, Blockers, Needs, At
  <2>2. \A q \in Requests \ {r} : \A t \in held[q] \cap Tokens : tokens'[t] = tokens[t]
    BY <1>2, <2>1
  <2>3. QED BY <1>1, <1>3, <1>6, <2>2 DEF Commits, AccountCommit
<1>9. QED
  BY <1>4, <1>5, <1>7, <1>8, WriteStep DEF AccountCommit

(* expiresAt passes under the requests: nothing they rely on changes. *)
LEMMA ExpireStep ==
  ASSUME IInv, NEW t \in Tokens, Expire(t)
  PROVE  IInv'
<1>1. tokens \in [Tokens -> RefreshToken \cup {None}] /\ tokens[t] \in RefreshToken
  BY DEF IInv, TypeOK, Expire, Unrevoked, Exists
<1>2. PICK row : row = [tokens[t] EXCEPT !.expired = TRUE]
  OBVIOUS
<1>3. /\ row \in RefreshToken /\ row # None /\ row.revoked = tokens[t].revoked
      /\ row.familyId = tokens[t].familyId /\ row.userId = tokens[t].userId
  BY <1>1, <1>2 DEF RefreshToken
<1>4. tokens' = [tokens EXCEPT ![t] = row]
  BY <1>2 DEF Expire
<1>5. /\ tokens' \in [Tokens -> RefreshToken \cup {None}]
      /\ \A k \in Tokens : /\ tokens'[k] # None <=> tokens[k] # None
                           /\ tokens[k] # None => /\ tokens'[k].revoked = tokens[k].revoked
                                                  /\ tokens'[k].familyId = tokens[k].familyId
                                                  /\ tokens'[k].userId = tokens[k].userId
  BY <1>1, <1>3, <1>4
<1>6. Unrevoked' = Unrevoked /\ Unrevoked \subseteq Tokens
  BY <1>5 DEF Unrevoked, Exists
<1>7. UNCHANGED <<users, issued, opened, req, held>>
  BY DEF Expire
<1>8. TypeOK'
  BY <1>5, <1>7 DEF IInv, TypeOK
<1>9. LocksExclusive' /\ TablesOK' /\ OneActivePerFamily'
  BY <1>5, <1>6, <1>7 DEF IInv, LocksExclusive, TablesOK, OneActivePerFamily, Exists, Unrevoked
<1>10. ASSUME NEW q \in Requests PROVE (Locals(q) /\ Found(q) /\ Pinned(q) /\ Holds(q))'
  <2>1. Locals(q) /\ Found(q) /\ Pinned(q) /\ Holds(q) /\ issued \subseteq Tokens
    BY DEF IInv, TypeOK
  <2>2. Locals(q)'
    BY <1>5, <1>7, <2>1 DEF Locals, Exists
  <2>3. Found(q)'
    BY <1>5, <1>6, <1>7, <2>1 DEF Found, Exists, Unrevoked
  <2>4. Pinned(q)' /\ Holds(q)'
    BY <1>6, <1>7, <2>1 DEF Pinned, Holds, At
  <2>5. QED BY <2>2, <2>3, <2>4
<1>11. QED
  BY <1>8, <1>9, <1>10 DEF IInv

LEMMA NextStep == IInv /\ [Next]_vars => IInv'
<1> SUFFICES ASSUME IInv, [Next]_vars PROVE IInv'
  OBVIOUS
<1>1. CASE UNCHANGED vars
  BY <1>1 DEF vars, IInv, TypeOK, LocksExclusive, TablesOK, OneActivePerFamily, Unrevoked, Exists,
     Locals, Found, Pinned, Holds, At
<1>2. ASSUME NEW r \in Requests, Statement(r) PROVE IInv'
  BY <1>2, LoginReadStep, LoginInsertStep, RefreshReadStep, RefreshUserStep, RotateRevokeStep,
     RotateInsertStep, LogoutReadStep, RevokeScanStep, RevokeWriteStep, PasswordReadStep,
     PasswordLockStep, PasswordScanStep, PasswordWriteStep, AccountLockStep, AccountCommitStep
     DEF Statement
<1>3. ASSUME NEW r \in Requests, Abort(r) PROVE IInv'
  BY <1>3, RejectStep DEF Abort
<1>4. QED
  BY <1>1, <1>2, <1>3, StartStep, ExpireStep DEF Next

(* The inductive invariant: what a rotation has locked stays valid, and an  *)
(* ended family stays without a valid token.                                *)
THEOREM Invariance == Spec => []IInv
  BY InitIInv, NextStep, PTL DEF Spec

(* Every variable keeps its type: what a request carries across its awaits, *)
(* the rows it has locked, and the token table.                             *)
THEOREM TypeCorrect == Spec => []TypeOK
<1>1. IInv => TypeOK
  BY DEF IInv
<1>2. QED
  BY <1>1, Invariance, PTL

(* A family never has two tokens that could be rotated, which the session   *)
(* list relies on.                                                          *)
THEOREM OneActive == Spec => []OneActivePerFamily
<1>1. IInv => OneActivePerFamily
  BY DEF IInv
<1>2. QED
  BY <1>1, Invariance, PTL

-----------------------------------------------------------------------------
(* What a revocation leaves, and who waits for whom. *)

LEMMA LogoutStep ==
  ASSUME IInv, NEW r \in Requests, RevokeWrite(r), req[r].family # None, req[r].seen \subseteq Unrevoked
  PROVE  LeftValid(r) = {}
<1> SUFFICES ASSUME NEW t \in LeftValid(r) PROVE FALSE
  OBVIOUS
<1>1. tokens' = Revoked(req[r].seen)
  <2>1. req[r].seen \cap Unrevoked = req[r].seen
    OBVIOUS
  <2>2. QED BY <2>1 DEF RevokeWrite
<1>2. t \in Tokens \ req[r].seen /\ tokens'[t] = tokens[t]
  BY <1>1, RevokedRows DEF LeftValid, IInv
<1>3. t \in Unrevoked /\ tokens[t].familyId = req[r].family /\ req[r].user \in {None, tokens[t].userId}
  BY <1>2 DEF LeftValid, Unrevoked, Exists
<1>4. \A s \in req[r].seen : s = t
  BY <1>3 DEF RevokeWrite, At, IInv, Found, OneActivePerFamily, Unrevoked
<1>5. req[r].seen = {}
  BY <1>2, <1>4
<1>6. QED
  BY <1>3, <1>5 DEF RevokeWrite, At, IInv, Found

(* Revoking a family ends the session unless the very token it saw was      *)
(* rotated while the UPDATE waited for it.                                  *)
THEOREM LogoutEnds == Spec => LogoutMissesOnlyRotation
<1>1. IInv /\ [Next]_vars
      => [\A r \in Requests :
            (RevokeWrite(r) /\ req[r].family # None /\ req[r].seen \subseteq Unrevoked)
            => LeftValid(r) = {}]_vars
  BY LogoutStep
<1>2. QED
  BY <1>1, Invariance, PTL DEF Spec, LogoutMissesOnlyRotation

(* Everyone waits on everyone only while an account is being deleted: a     *)
(* rotation waits for nobody else, a password change only for rotations.    *)
THEOREM DeadlockFree == Spec => []DeadlockOnlyWhileClosing
<1>1. IInv => DeadlockOnlyWhileClosing
  <2> SUFFICES ASSUME IInv, NEW S \in (SUBSET Requests) \ {{}}, Waiting(S),
                      \A r \in S : ~At(r, "account.commit")
               PROVE  FALSE
    BY DEF DeadlockOnlyWhileClosing
  <2>1. ASSUME NEW r \in S
        PROVE  \E q \in S : held[q] \cap Needs(r) # {}
    BY DEF Waiting, Blockers, LocksKey
  <2>2. ASSUME NEW r \in S, held[r] # {}
        PROVE  At(r, "password.write") /\ held[r] \subseteq Users
    <3>1. req[r].pc \in {"rotate.insert", "password.scan", "password.write"}
      BY <2>2 DEF IInv, Holds, At
    <3>2. Needs(r) # {}
      BY <2>1
    <3>3. req[r].pc \notin {"rotate.insert", "password.scan"}
      BY <3>2 DEF Needs
    <3>4. QED BY <3>1, <3>3 DEF IInv, Holds, At
  <2>3. PICK r \in S : TRUE
    OBVIOUS
  <2>4. PICK q \in S : held[q] \cap Needs(r) # {}
    BY <2>1, <2>3
  <2>5. PICK p \in S : held[p] \cap Needs(q) # {}
    BY <2>1, <2>4
  <2>6. At(q, "password.write") /\ held[p] \subseteq Users
    BY <2>2, <2>4, <2>5
  <2>7. Needs(q) \subseteq Tokens
    BY <2>6 DEF Needs, At, IInv, TypeOK, Request
  <2>8. QED BY <2>5, <2>6, <2>7
<1>2. QED
  BY <1>1, Invariance, PTL

-----------------------------------------------------------------------------
(* The refinement: which token renews each session. *)

(* What the mapping gives, without its CHOOSE. *)
AcceptedDetermined ==
  \A f \in Families :
    /\ f \notin opened => Accepted[f] = Unopened
    /\ f \in opened /\ (\A t \in Unrevoked : tokens[t].familyId # f) => Accepted[f] = Ended
    /\ \A t \in Unrevoked : tokens[t].familyId = f => Accepted[f] = t

LEMMA AcceptedIsDetermined == IInv => AcceptedDetermined
<1> SUFFICES ASSUME IInv, NEW f \in Families
             PROVE  /\ f \notin opened => Accepted[f] = Unopened
                    /\ f \in opened /\ (\A t \in Unrevoked : tokens[t].familyId # f) => Accepted[f] = Ended
                    /\ \A t \in Unrevoked : tokens[t].familyId = f => Accepted[f] = t
  BY DEF AcceptedDetermined
<1>1. Accepted[f] = AcceptedOf(f)
  BY DEF Accepted
<1>2. f \notin opened => Accepted[f] = Unopened
  BY <1>1 DEF AcceptedOf
<1>3. ASSUME f \in opened, \A t \in Unrevoked : tokens[t].familyId # f PROVE Accepted[f] = Ended
  <2>1. OfFamily(f) \cap Unrevoked = {}
    BY <1>3 DEF OfFamily
  <2>2. QED BY <1>1, <1>3, <2>1 DEF AcceptedOf
<1>4. ASSUME NEW t \in Unrevoked, tokens[t].familyId = f PROVE Accepted[f] = t
  <2>1. f \in opened
    BY <1>4 DEF IInv, TablesOK, Unrevoked
  <2>2. t \in OfFamily(f) \cap Unrevoked /\ \A s \in OfFamily(f) \cap Unrevoked : s = t
    BY <1>4 DEF IInv, OneActivePerFamily, OfFamily, Unrevoked
  <2>3. (CHOOSE s \in OfFamily(f) \cap Unrevoked : TRUE) = t
    BY <2>2
  <2>4. OfFamily(f) \cap Unrevoked # {}
    BY <2>2
  <2>5. QED BY <1>1, <2>1, <2>3, <2>4 DEF AcceptedOf
<1>5. QED BY <1>2, <1>3, <1>4

(* A session keeps its token when its valid rows stay. *)
LEMMA AcceptedKept ==
  ASSUME AcceptedDetermined, AcceptedDetermined', NEW f \in Families,
         f \in opened' <=> f \in opened,
         \A t \in Tokens : (t \in Unrevoked' /\ tokens'[t].familyId = f)
                             <=> (t \in Unrevoked /\ tokens[t].familyId = f)
  PROVE  Accepted'[f] = Accepted[f]
<1>1. Unrevoked \subseteq Tokens /\ Unrevoked' \subseteq Tokens
  BY DEF Unrevoked
<1>2. CASE f \notin opened
  BY <1>2 DEF AcceptedDetermined
<1>3. CASE f \in opened /\ \A t \in Unrevoked : tokens[t].familyId # f
  <2>1. \A t \in Unrevoked' : tokens'[t].familyId # f
    BY <1>1, <1>3
  <2>2. QED BY <1>3, <2>1 DEF AcceptedDetermined
<1>4. ASSUME NEW t \in Unrevoked, tokens[t].familyId = f PROVE Accepted'[f] = Accepted[f]
  <2>1. t \in Unrevoked' /\ tokens'[t].familyId = f
    BY <1>1, <1>4
  <2>2. QED BY <1>4, <2>1 DEF AcceptedDetermined
<1>5. QED BY <1>2, <1>3, <1>4

(* A step that makes no token valid and no family. *)
Shrinks ==
  /\ UNCHANGED <<issued, opened>>
  /\ Unrevoked' \subseteq Unrevoked
  /\ \A t \in Unrevoked' : tokens'[t].familyId = tokens[t].familyId

LEMMA StepEffects ==
  ASSUME IInv, [Next]_vars
  PROVE  \/ Shrinks
         \/ \E r \in Requests, t \in Tokens, f \in Families : Opens(r, t, f)
         \/ \E r \in Requests, t \in Tokens : Renews(r, t)
<1>1. CASE UNCHANGED <<tokens, issued, opened>>
  BY <1>1 DEF Shrinks, Unrevoked, Exists
<1>2. ASSUME NEW r \in Requests, Start(r) PROVE UNCHANGED <<tokens, issued, opened>>
  BY <1>2 DEF Start, StartLogin, StartLogoutAll, StartChangePassword, StartConfirmPasswordReset,
     StartDeleteMe, StartRefresh, StartLogout, StartLogoutSession, Begin, tables
<1>3. ASSUME NEW r \in Requests,
             \/ LoginRead(r) \/ RefreshRead(r) \/ RefreshUser(r) \/ RotateRevoke(r) \/ LogoutRead(r)
             \/ RevokeScan(r) \/ PasswordRead(r) \/ PasswordLock(r) \/ PasswordScan(r)
             \/ AccountLock(r) \/ Abort(r)
      PROVE  UNCHANGED <<tokens, issued, opened>>
  BY <1>3 DEF LoginRead, RefreshRead, RefreshUser, RotateRevoke, LogoutRead, RevokeScan, PasswordRead,
     PasswordLock, PasswordScan, AccountLock, Abort, RevokeFamily, Continue, Lock, Reject, tables
<1>4. ASSUME NEW r \in Requests, LoginInsert(r)
      PROVE  \/ UNCHANGED <<tokens, issued, opened>>
             \/ \E t \in Tokens, f \in Families : Opens(r, t, f)
  BY <1>4 DEF LoginInsert, Opens, FreshTokens, FreshFamilies, Reject, tables
<1>5. ASSUME NEW r \in Requests, RotateInsert(r)
      PROVE  UNCHANGED <<tokens, issued, opened>> \/ \E t \in Tokens : Renews(r, t)
  BY <1>5 DEF RotateInsert, Renews, FreshTokens, Reject, tables
<1>6. ASSUME NEW r \in Requests, RevokeWrite(r) \/ PasswordWrite(r) PROVE Shrinks
  <2>1. PICK ts \in SUBSET Unrevoked : tokens' = Revoked(ts)
    BY <1>6 DEF RevokeWrite, PasswordWrite
  <2>2. /\ \A t \in Tokens \ ts : tokens'[t] = tokens[t]
        /\ \A t \in ts : tokens'[t].revoked = TRUE
    BY <2>1, RevokedRows DEF IInv
  <2>3. \A t \in Unrevoked' : t \in Unrevoked /\ tokens'[t] = tokens[t]
    BY <2>2 DEF Unrevoked, Exists
  <2>4. QED BY <1>6, <2>3 DEF Shrinks, RevokeWrite, PasswordWrite
<1>7. ASSUME NEW r \in Requests, AccountCommit(r) PROVE Shrinks
  BY <1>7 DEF AccountCommit, Shrinks, Unrevoked, Exists
<1>8. ASSUME NEW t \in Tokens, Expire(t) PROVE Shrinks
  <2>1. tokens \in [Tokens -> RefreshToken \cup {None}] /\ tokens[t] \in RefreshToken
    BY <1>8 DEF IInv, TypeOK, Expire, Unrevoked, Exists
  <2>2. PICK row : row = [tokens[t] EXCEPT !.expired = TRUE]
    OBVIOUS
  <2>3. row.familyId = tokens[t].familyId
    BY <2>1, <2>2 DEF RefreshToken
  <2>4. tokens' = [tokens EXCEPT ![t] = row] /\ t \in Unrevoked
    BY <1>8, <2>2 DEF Expire
  <2>5. \A k \in Unrevoked' : k \in Unrevoked /\ tokens'[k].familyId = tokens[k].familyId
    BY <2>1, <2>3, <2>4 DEF Unrevoked, Exists
  <2>6. QED BY <1>8, <2>5 DEF Shrinks, Expire
<1>9. QED
  BY <1>1, <1>2, <1>3, <1>4, <1>5, <1>6, <1>7, <1>8 DEF Next, Statement, vars

LEMMA StepSimulates ==
  ASSUME IInv, AcceptedDetermined, AcceptedDetermined', [Next]_vars
  PROVE  Abstract!Next
<1>1. /\ Accepted = [f \in Families |-> Accepted[f]]
      /\ Accepted' = [f \in Families |-> Accepted'[f]]
  BY DEF Accepted
<1>2. /\ Unrevoked \subseteq Tokens /\ Unrevoked' \subseteq Tokens
      /\ \A t \in Unrevoked : tokens[t].familyId \in opened
      /\ opened \subseteq Families
  BY DEF Unrevoked, IInv, TypeOK, TablesOK
<1>3. ASSUME NEW r \in Requests, NEW t \in Tokens, NEW f \in Families, Opens(r, t, f)
      PROVE  Abstract!Open(f, t)
  <2>1. /\ t \notin issued /\ f \notin opened /\ req[r].user \in Users
        /\ tokens \in [Tokens -> RefreshToken \cup {None}]
    BY <1>3 DEF Opens, FreshTokens, FreshFamilies, IInv, TypeOK
  <2>2. PICK row : row = Row(req[r].user, f)
    OBVIOUS
  <2>3. row # None /\ row.familyId = f /\ row.revoked = FALSE
    BY <2>1, <2>2, NewRow
  <2>4. tokens' = [tokens EXCEPT ![t] = row]
    BY <1>3, <2>2 DEF Opens
  <2>5. t \in Unrevoked' /\ tokens'[t].familyId = f
    BY <2>1, <2>3, <2>4 DEF Unrevoked, Exists
  <2>6. \A k \in Tokens \ {t} : k \in Unrevoked' <=> k \in Unrevoked
    BY <2>1, <2>4 DEF Unrevoked, Exists
  <2>7. Accepted[f] = Unopened /\ Accepted'[f] = t
    BY <2>1, <2>5 DEF AcceptedDetermined
  <2>8. ASSUME NEW g \in Families \ {f} PROVE Accepted'[g] = Accepted[g]
    <3>1. g \in opened' <=> g \in opened
      BY <1>3 DEF Opens
    <3>2. t \notin Unrevoked
      BY <2>1 DEF IInv, TablesOK, Unrevoked
    <3>3. \A k \in Tokens : (k \in Unrevoked' /\ tokens'[k].familyId = g)
                              <=> (k \in Unrevoked /\ tokens[k].familyId = g)
      BY <2>1, <2>4, <2>5, <2>6, <3>2
    <3>4. QED BY <3>1, <3>3, AcceptedKept
  <2>9. Accepted' = [Accepted EXCEPT ![f] = t]
    BY <1>1, <2>7, <2>8
  <2>10. QED BY <1>3, <2>1, <2>7, <2>9 DEF Abstract!Open, Abstract!HandOut, Opens
<1>4. ASSUME NEW r \in Requests, NEW t \in Tokens, Renews(r, t)
      PROVE  \E f \in Families : Abstract!Renew(f, t)
  <2>1. \E old, f : Replaces(old, f, t)
    BY <1>4, OneReplaced
  <2>2. PICK old, f :
          /\ old \in Unrevoked /\ old # t
          /\ tokens[old].familyId = f /\ f \in opened /\ t \in Tokens \ issued
          /\ tokens'[t] # None /\ tokens'[t].revoked = FALSE /\ tokens'[t].familyId = f
          /\ tokens'[old].revoked = TRUE
          /\ \A k \in Tokens \ {old, t} : tokens'[k] = tokens[k]
    BY <2>1 DEF Replaces
  <2>3. t \in Unrevoked' /\ tokens'[t].familyId = f
    BY <2>2 DEF Unrevoked, Exists
  <2>4. f \in Families /\ Accepted[f] = old /\ Accepted'[f] = t
    BY <1>2, <2>2, <2>3 DEF AcceptedDetermined
  <2>5. ASSUME NEW g \in Families \ {f} PROVE Accepted'[g] = Accepted[g]
    <3>1. g \in opened' <=> g \in opened
      BY <1>4 DEF Renews
    <3>2. t \notin Unrevoked
      BY <2>2 DEF IInv, TablesOK, Unrevoked
    <3>3. old \notin Unrevoked'
      BY <2>2 DEF Unrevoked
    <3>4. \A k \in Tokens \ {old, t} : k \in Unrevoked' <=> k \in Unrevoked
      BY <2>2 DEF Unrevoked, Exists
    <3>5. \A k \in Tokens : (k \in Unrevoked' /\ tokens'[k].familyId = g)
                              <=> (k \in Unrevoked /\ tokens[k].familyId = g)
      BY <2>2, <2>3, <3>2, <3>3, <3>4
    <3>6. QED BY <3>1, <3>5, AcceptedKept
  <2>6. Accepted' = [Accepted EXCEPT ![f] = t]
    BY <1>1, <2>4, <2>5
  <2>7. f \in Abstract!Alive
    BY <1>2, <2>2, <2>4 DEF Abstract!Alive
  <2>8. QED BY <1>4, <2>2, <2>4, <2>6, <2>7 DEF Abstract!Renew, Abstract!HandOut, Renews
<1>5. ASSUME Shrinks PROVE \E F \in SUBSET Families : Abstract!End(F)
  <2> DEFINE F == {tokens[t].familyId : t \in Unrevoked \ Unrevoked'}
  <2>1. F \in SUBSET Families
    BY <1>2
  <2>2. ASSUME NEW f \in F PROVE Accepted[f] \in Tokens /\ Accepted'[f] = Ended
    <3>1. PICK t \in Unrevoked \ Unrevoked' : tokens[t].familyId = f
      OBVIOUS
    <3>2. f \in opened /\ f \in opened' /\ f \in Families
      BY <1>2, <1>5, <3>1 DEF Shrinks
    <3>3. Accepted[f] = t
      BY <3>1, <3>2 DEF AcceptedDetermined
    <3>4. \A k \in Unrevoked' : tokens'[k].familyId # f
      BY <1>5, <3>1 DEF Shrinks, IInv, OneActivePerFamily
    <3>5. QED BY <1>2, <3>2, <3>3, <3>4 DEF AcceptedDetermined
  <2>3. ASSUME NEW f \in Families \ F PROVE Accepted'[f] = Accepted[f]
    <3>1. \A k \in Tokens : (k \in Unrevoked' /\ tokens'[k].familyId = f)
                              <=> (k \in Unrevoked /\ tokens[k].familyId = f)
      BY <1>5 DEF Shrinks
    <3>2. QED BY <1>5, <3>1, AcceptedKept DEF Shrinks
  <2>4. F \subseteq Abstract!Alive
    BY <2>1, <2>2 DEF Abstract!Alive
  <2> HIDE DEF F
  <2>5. Accepted' = [f \in Families |-> IF f \in F THEN Ended ELSE Accepted[f]]
    BY <1>1, <2>2, <2>3
  <2>6. Abstract!End(F)
    BY <1>5, <2>4, <2>5 DEF Abstract!End, Shrinks
  <2>7. QED BY <2>1, <2>6
<1>6. QED
  BY <1>3, <1>4, <1>5, StepEffects DEF Abstract!Next

(* The requests implement Sessions: every step opens a session, renews a    *)
(* living one with a token never used before, ends some, or is invisible.   *)
THEOREM Refinement == Spec => ImplementsSessions
<1>1. Init => Abstract!Init
  BY DEF Init, Abstract!Init, Accepted, AcceptedOf
<1>2. IInv => AcceptedDetermined
  BY AcceptedIsDetermined
<1>3. IInv /\ AcceptedDetermined /\ AcceptedDetermined' /\ [Next]_vars
      => [Abstract!Next]_<<Accepted, issued>>
  BY StepSimulates
<1>4. QED
  BY <1>1, <1>2, <1>3, Invariance, PTL DEF Spec, ImplementsSessions, Abstract!Spec
=============================================================================
