-------------------------- MODULE RefreshSessions --------------------------
(***************************************************************************)
(* Login sessions: families of refresh tokens that are rotated, revoked    *)
(* and deleted by concurrent requests.                                     *)
(*                                                                         *)
(* As in OrganizationMembership a request is a process with one step per   *)
(* SQL statement.  An UPDATE that revokes a set of tokens is two steps,    *)
(* because READ COMMITTED makes it so: it picks the rows its snapshot      *)
(* shows (RevokeScan), waits for those that another transaction has        *)
(* locked, and then writes those that still match (RevokeWrite).  A row    *)
(* committed in between is not seen.                                       *)
(***************************************************************************)

CONSTANTS
  Users,       (* User rows that ever exist.                               *)
  Families,    (* familyIds, random and never reused.  A bound.            *)
  Tokens,      (* RefreshToken rows, never reused.  A bound.               *)
  Requests,    (* Requests being served at the same time.  A bound.        *)
  Operations,  (* The operations clients call.                             *)
  None         (* No row, no value.                                        *)

RefreshToken ==
  [userId : Users, familyId : Families, revoked : BOOLEAN, expired : BOOLEAN]

ASSUME NoneIsNoValue == None \notin RefreshToken \cup Users \cup Families \cup Tokens

ASSUME RowsDistinct == Users \cap Tokens = {}

AllOperations ==
  {"login", "refresh", "logout", "logoutSession", "logoutAll",
   "changePassword", "confirmPasswordReset", "deleteMe"}

ASSUME OperationsKnown == Operations \subseteq AllOperations

VARIABLES
  users,   (* The accounts that exist.                                     *)
  tokens,  (* RefreshToken table: id -> committed row or None.             *)
  issued,  (* Token ids handed out.                                        *)
  opened,  (* Family ids handed out.                                       *)
  req,     (* What each request is doing.                                  *)
  held     (* The rows each open transaction has locked.                   *)

vars == <<users, tokens, issued, opened, req, held>>

tables == <<users, tokens, issued, opened>>

Idle == [pc |-> "idle", user |-> None, family |-> None, token |-> None, seen |-> {}]

ProgramCounters ==
  {"idle", "login.read", "login.insert",
   "refresh.read", "refresh.user", "rotate.revoke", "rotate.insert",
   "logout.read", "revoke.scan", "revoke.write",
   "password.read", "password.lock", "password.scan", "password.write",
   "account.lock", "account.commit"}

Request ==
  [pc : ProgramCounters, user : Users \cup {None}, family : Families \cup {None},
   token : Tokens \cup {None}, seen : SUBSET Tokens]

TypeOK ==
  /\ users \subseteq Users
  /\ tokens \in [Tokens -> RefreshToken \cup {None}]
  /\ issued \subseteq Tokens /\ opened \subseteq Families
  /\ req \in [Requests -> Request]
  /\ held \in [Requests -> SUBSET (Users \cup Tokens)]
  /\ \A r \in Requests : req[r].pc = "idle" => req[r] = Idle /\ held[r] = {}

Init ==
  /\ users = Users
  /\ tokens = [t \in Tokens |-> None]
  /\ issued = {} /\ opened = {}
  /\ req = [r \in Requests |-> Idle]
  /\ held = [r \in Requests |-> {}]

-----------------------------------------------------------------------------
(* Queries on the committed tables. *)

Exists(t) == tokens[t] # None

Unrevoked == {t \in Tokens : Exists(t) /\ ~tokens[t].revoked}

OfUser(u) == {t \in Tokens : Exists(t) /\ tokens[t].userId = u}

OfFamily(f) == {t \in Tokens : Exists(t) /\ tokens[t].familyId = f}

(* The rows an UPDATE of the request's token, family and user matches. *)
Scope(r) ==
  LET q == req[r] IN
  {t \in Unrevoked : /\ q.token \in {None, t}
                     /\ q.family \in {None, tokens[t].familyId}
                     /\ q.user \in {None, tokens[t].userId}}

At(r, pc) == req[r].pc = pc

(* Mutant: the password change locks its User row FOR UPDATE, too. *)
LocksKeyAlways(r) == req[r].pc \in {"account.commit", "password.scan", "password.write"}

(* A row lock that keeps foreign keys away: FOR UPDATE does, an UPDATE of
   the password does not. *)
LocksKey(r) == At(r, "account.commit")

(* The rows the next statement of r has to find unlocked. *)
Needs(r) ==
  LET q == req[r] IN
    CASE q.pc = "rotate.revoke" -> {q.token} \cap Unrevoked
      [] q.pc \in {"revoke.write", "password.write"} -> q.seen
      [] q.pc \in {"password.lock", "account.lock"} -> {q.user} \cap users
      [] q.pc = "account.commit" -> OfUser(q.user)
      [] OTHER -> {}

(* An INSERT takes FOR KEY SHARE on the User row its foreign key names. *)
References(r) == IF req[r].pc \in {"login.insert", "rotate.insert"} THEN {req[r].user} ELSE {}

Blockers(r) ==
  {q \in Requests \ {r} : \/ held[q] \cap Needs(r) # {}
                          \/ LocksKey(q) /\ held[q] \cap References(r) # {}}

-----------------------------------------------------------------------------
(* Control of one request. *)

Begin(r, operation, request) ==
  /\ operation \in Operations
  /\ At(r, "idle")
  /\ req' = [req EXCEPT ![r] = request]
  /\ UNCHANGED <<tables, held>>

Continue(r, request) ==
  /\ req' = [req EXCEPT ![r] = request]
  /\ UNCHANGED <<tables, held>>

Lock(r, request) ==
  /\ Blockers(r) = {}
  /\ held' = [held EXCEPT ![r] = @ \cup Needs(r)]
  /\ req' = [req EXCEPT ![r] = request]
  /\ UNCHANGED tables

(* Mutant: the connection goes back to the pool with its transaction open. *)
AnswerInTransaction(r) ==
  /\ req' = [req EXCEPT ![r] = Idle]
  /\ UNCHANGED held

(* The request is answered; an open transaction ends and its locks go. *)
Answer(r) ==
  /\ req' = [req EXCEPT ![r] = Idle]
  /\ held' = [held EXCEPT ![r] = {}]

Reject(r) == Answer(r) /\ UNCHANGED tables

FreshTokens == Tokens \ issued

FreshFamilies == Families \ opened

Row(u, f) == [userId |-> u, familyId |-> f, revoked |-> FALSE, expired |-> FALSE]

Revoked(ts) ==
  [t \in Tokens |-> IF t \in ts THEN [tokens[t] EXCEPT !.revoked = TRUE] ELSE tokens[t]]

-----------------------------------------------------------------------------
(* POST /auth/login; signing up ends in the same INSERT. *)

StartLogin(r, u) == Begin(r, "login", [Idle EXCEPT !.pc = "login.read", !.user = u])

(* The password is verified against the row read here. *)
LoginRead(r) ==
  /\ At(r, "login.read")
  /\ \/ req[r].user \in users /\ Continue(r, [req[r] EXCEPT !.pc = "login.insert"])
     \/ Reject(r)

LoginInsert(r) ==
  /\ At(r, "login.insert")
  /\ Blockers(r) = {}
  /\ \/ /\ req[r].user \in users
        /\ \E t \in FreshTokens, f \in FreshFamilies :
             /\ tokens' = [tokens EXCEPT ![t] = Row(req[r].user, f)]
             /\ issued' = issued \cup {t}
             /\ opened' = opened \cup {f}
        /\ Answer(r)
        /\ UNCHANGED users
     \/ /\ req[r].user \notin users \/ FreshTokens = {} \/ FreshFamilies = {}
        /\ Reject(r)

-----------------------------------------------------------------------------
(* POST /auth/refresh *)

StartRefresh(r, t) ==
  /\ t \in issued
  /\ Begin(r, "refresh", [Idle EXCEPT !.pc = "refresh.read", !.token = t])

RevokeFamily(r) ==
  Continue(r, [Idle EXCEPT !.pc = "revoke.scan", !.family = tokens[req[r].token].familyId])

RefreshRead(r) ==
  LET t == req[r].token IN
  /\ At(r, "refresh.read")
  /\ \/ ~Exists(t) /\ Reject(r)
     \/ Exists(t) /\ tokens[t].revoked /\ RevokeFamily(r)
     \/ /\ t \in Unrevoked /\ tokens[t].expired
        /\ Continue(r, [Idle EXCEPT !.pc = "revoke.scan", !.token = t])
     \/ /\ t \in Unrevoked /\ ~tokens[t].expired
        /\ Continue(r, [Idle EXCEPT !.pc = "refresh.user", !.token = t,
                                    !.family = tokens[t].familyId, !.user = tokens[t].userId])

RefreshUser(r) ==
  /\ At(r, "refresh.user")
  /\ \/ req[r].user \in users /\ Continue(r, [req[r] EXCEPT !.pc = "rotate.revoke"])
     \/ /\ req[r].user \notin users
        /\ Continue(r, [Idle EXCEPT !.pc = "revoke.scan", !.family = req[r].family])

(* Mutant: the UPDATE does not ask for revokedAt to be null. *)
RotateRevokeAny(r) ==
  /\ At(r, "rotate.revoke")
  /\ \/ Exists(req[r].token) /\ Lock(r, [req[r] EXCEPT !.pc = "rotate.insert"])
     \/ ~Exists(req[r].token) /\ Reject(r)

(* Zero rows: the token was used by someone else, its family is revoked. *)
RotateRevoke(r) ==
  /\ At(r, "rotate.revoke")
  /\ \/ /\ req[r].token \in Unrevoked
        /\ Lock(r, [req[r] EXCEPT !.pc = "rotate.insert"])
     \/ /\ req[r].token \notin Unrevoked
        /\ Continue(r, [Idle EXCEPT !.pc = "revoke.scan", !.family = req[r].family])

(* Mutant: the new row is committed without the revocation of the old one. *)
RotateInsertOnly(r) ==
  /\ At(r, "rotate.insert")
  /\ Blockers(r) = {}
  /\ \/ /\ req[r].user \in users
        /\ \E t \in FreshTokens :
             /\ tokens' = [tokens EXCEPT ![t] = Row(req[r].user, req[r].family)]
             /\ issued' = issued \cup {t}
        /\ Answer(r)
        /\ UNCHANGED <<users, opened>>
     \/ (req[r].user \notin users \/ FreshTokens = {}) /\ Reject(r)

RotateInsert(r) ==
  /\ At(r, "rotate.insert")
  /\ Blockers(r) = {}
  /\ \/ /\ req[r].user \in users
        /\ \E t \in FreshTokens :
             /\ tokens' = [Revoked({req[r].token}) EXCEPT ![t] = Row(req[r].user, req[r].family)]
             /\ issued' = issued \cup {t}
        /\ Answer(r)
        /\ UNCHANGED <<users, opened>>
     \/ (req[r].user \notin users \/ FreshTokens = {}) /\ Reject(r)

-----------------------------------------------------------------------------
(* POST /auth/logout, POST /auth/logout-all, DELETE /auth/sessions/{id} *)

StartLogout(r, t) ==
  /\ t \in issued
  /\ Begin(r, "logout", [Idle EXCEPT !.pc = "logout.read", !.token = t])

LogoutRead(r) ==
  /\ At(r, "logout.read")
  /\ \/ Exists(req[r].token) /\ RevokeFamily(r)
     \/ ~Exists(req[r].token) /\ Reject(r)

StartLogoutSession(r, u, f) ==
  /\ u \in users /\ f \in opened
  /\ Begin(r, "logoutSession", [Idle EXCEPT !.pc = "revoke.scan", !.user = u, !.family = f])

StartLogoutAll(r, u) ==
  /\ u \in users
  /\ Begin(r, "logoutAll", [Idle EXCEPT !.pc = "revoke.scan", !.user = u])

RevokeScan(r) ==
  /\ At(r, "revoke.scan")
  /\ Continue(r, [req[r] EXCEPT !.pc = "revoke.write", !.seen = Scope(r)])

RevokeWrite(r) ==
  /\ At(r, "revoke.write")
  /\ Blockers(r) = {}
  /\ tokens' = Revoked(req[r].seen \cap Unrevoked)
  /\ Answer(r)
  /\ UNCHANGED <<users, issued, opened>>

-----------------------------------------------------------------------------
(* POST /auth/change-password, and the transaction that confirms a password
   reset: UPDATE the User row, then revoke all the user's tokens. *)

StartChangePassword(r, u) ==
  /\ u \in users
  /\ Begin(r, "changePassword", [Idle EXCEPT !.pc = "password.read", !.user = u])

PasswordRead(r) ==
  /\ At(r, "password.read")
  /\ \/ req[r].user \in users /\ Continue(r, [req[r] EXCEPT !.pc = "password.lock"])
     \/ Reject(r)

StartConfirmPasswordReset(r, u) ==
  /\ u \in users
  /\ Begin(r, "confirmPasswordReset", [Idle EXCEPT !.pc = "password.lock", !.user = u])

PasswordLock(r) ==
  /\ At(r, "password.lock")
  /\ \/ req[r].user \in users /\ Lock(r, [req[r] EXCEPT !.pc = "password.scan"])
     \/ req[r].user \notin users /\ Reject(r)

PasswordScan(r) ==
  /\ At(r, "password.scan")
  /\ Continue(r, [req[r] EXCEPT !.pc = "password.write", !.seen = Scope(r)])

PasswordWrite(r) ==
  /\ At(r, "password.write")
  /\ Blockers(r) = {}
  /\ tokens' = Revoked(req[r].seen \cap Unrevoked)
  /\ Answer(r)
  /\ UNCHANGED <<users, issued, opened>>

-----------------------------------------------------------------------------
(* DELETE /users/me *)

StartDeleteMe(r, u) ==
  /\ u \in users
  /\ Begin(r, "deleteMe", [Idle EXCEPT !.pc = "account.lock", !.user = u])

(* An unknown user, a wrong password and sole ownership end it here. *)
AccountLock(r) ==
  /\ At(r, "account.lock")
  /\ \/ req[r].user \in users /\ Lock(r, [req[r] EXCEPT !.pc = "account.commit"])
     \/ Blockers(r) = {} /\ Reject(r)

(* user.delete cascades to the tokens. *)
AccountCommit(r) ==
  /\ At(r, "account.commit")
  /\ Blockers(r) = {}
  /\ users' = users \ {req[r].user}
  /\ tokens' = [t \in Tokens |-> IF t \in OfUser(req[r].user) THEN None ELSE tokens[t]]
  /\ Answer(r)
  /\ UNCHANGED <<issued, opened>>

-----------------------------------------------------------------------------

(* expiresAt passes. Nobody reads it of a token that is revoked. *)
Expire(t) ==
  /\ t \in Unrevoked /\ ~tokens[t].expired
  /\ tokens' = [tokens EXCEPT ![t].expired = TRUE]
  /\ UNCHANGED <<users, issued, opened, req, held>>

(* A statement fails, the transaction limit strikes, PostgreSQL picks a
   deadlock victim, or the process stops. *)
Abort(r) == ~At(r, "idle") /\ Reject(r)

Start(r) ==
  \/ \E u \in Users : \/ StartLogin(r, u) \/ StartLogoutAll(r, u)
                      \/ StartChangePassword(r, u) \/ StartConfirmPasswordReset(r, u)
                      \/ StartDeleteMe(r, u)
  \/ \E t \in Tokens : StartRefresh(r, t) \/ StartLogout(r, t)
  \/ \E u \in Users, f \in Families : StartLogoutSession(r, u, f)

Statement(r) ==
  \/ LoginRead(r) \/ LoginInsert(r)
  \/ RefreshRead(r) \/ RefreshUser(r) \/ RotateRevoke(r) \/ RotateInsert(r)
  \/ LogoutRead(r) \/ RevokeScan(r) \/ RevokeWrite(r)
  \/ PasswordRead(r) \/ PasswordLock(r) \/ PasswordScan(r) \/ PasswordWrite(r)
  \/ AccountLock(r) \/ AccountCommit(r)

Next ==
  \/ \E r \in Requests : Start(r) \/ Statement(r) \/ Abort(r)
  \/ \E t \in Tokens : Expire(t)

Spec == Init /\ [][Next]_vars
=============================================================================
