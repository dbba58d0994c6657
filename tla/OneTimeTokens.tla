---------------------------- MODULE OneTimeTokens ----------------------------
(***************************************************************************)
(* The tokens the API mails: password reset and email verification.  Each  *)
(* account has at most one row per kind (userId is unique).  A request     *)
(* overwrites it (upsert), mails the token and takes it back when the mail *)
(* is reported as failed.  A confirmation looks the token up by its hash   *)
(* and then consumes the ROW it found, in a transaction that also writes   *)
(* the account.                                                            *)
(*                                                                         *)
(* A request is a process with one step per SQL statement or mail call, as *)
(* in RefreshSessions.  A row's id is named by the hash it was inserted    *)
(* with: like an autoincrement it is new for every INSERT.                 *)
(***************************************************************************)
EXTENDS Naturals, Sequences

CONSTANTS
  Users,     (* Accounts.                                                  *)
  Hashes,    (* Hashes of random tokens, never repeated.  A bound.         *)
  Requests,  (* Requests being served at the same time.  A bound.          *)
  None       (* No row, no value.                                          *)

ASSUME RowsDistinct == Users \cap Hashes = {}

Kinds == {"passwordReset", "emailVerification"}

Accounts == Kinds \X Users

Row == [id : Hashes, tokenHash : Hashes, used : BOOLEAN, expired : BOOLEAN]

ASSUME NoneIsNoValue == None \notin Row \cup Hashes \cup Accounts

VARIABLES
  users,    (* The accounts that exist.                                    *)
  table,    (* PasswordResetToken and EmailVerificationToken, by userId.   *)
  granted,  (* The confirmations that took effect on each account: the     *)
            (* token presented, and the one the consumed row held.         *)
  latest,   (* The last token issued to each account.                      *)
  issued,   (* All tokens issued.                                          *)
  mail,     (* What became of the mail with each token.                    *)
  req,      (* What each request is doing.                                 *)
  held      (* The rows each open transaction has locked.                  *)

vars == <<users, table, granted, latest, issued, mail, req, held>>

tables == <<users, table, granted, latest, issued>>

Idle == [pc |-> "idle", account |-> None, hash |-> None, row |-> None]

ProgramCounters ==
  {"idle", "request.read", "request.save", "request.notify", "request.withdraw",
   "confirm.read", "confirm.consume", "confirm.grant",
   "account.lock", "account.commit"}

Request ==
  [pc : ProgramCounters, account : Accounts \cup {None},
   hash : Hashes \cup {None}, row : Hashes \cup {None}]

TypeOK ==
  /\ users \subseteq Users
  /\ table \in [Accounts -> Row \cup {None}]
  /\ granted \in [Accounts -> Seq([presented : issued, consumed : issued])]
  /\ latest \in [Accounts -> issued \cup {None}]
  /\ issued \subseteq Hashes
  /\ mail \in [Hashes -> {"none", "sent", "reported failed"}]
  /\ req \in [Requests -> Request]
  /\ held \in [Requests -> SUBSET (Users \cup Hashes)]
  /\ \A a \in Accounts : table[a] # None => a[2] \in users
  /\ \A r \in Requests : req[r].pc = "idle" => req[r] = Idle /\ held[r] = {}

Init ==
  /\ users = Users
  /\ table = [a \in Accounts |-> None]
  /\ granted = [a \in Accounts |-> <<>>]
  /\ latest = [a \in Accounts |-> None]
  /\ issued = {}
  /\ mail = [h \in Hashes |-> "none"]
  /\ req = [r \in Requests |-> Idle]
  /\ held = [r \in Requests |-> {}]

-----------------------------------------------------------------------------

At(r, pc) == req[r].pc = pc

Account(r) == req[r].account

Owner(r) == req[r].account[2]

(* The row the WHERE clause { id, tokenHash } of the request matches. *)
MatchesIssue(r) ==
  LET row == table[Account(r)] IN
  row # None /\ row.id = req[r].row /\ row.tokenHash = req[r].hash

(* Mutant: the WHERE clause is { id, expiresAt }. *)
ConsumableUsed(r) ==
  LET row == table[Account(r)] IN
  row # None /\ row.id = req[r].row /\ ~row.expired

(* The row the WHERE clause { id, usedAt, expiresAt } matches. *)
Consumable(r) ==
  LET row == table[Account(r)] IN
  row # None /\ row.id = req[r].row /\ ~row.used /\ ~row.expired

RowsOf(u) == {table[a].id : a \in {b \in Accounts : b[2] = u /\ table[b] # None}}

(* The rows the next statement of r has to find unlocked. *)
Needs(r) ==
    CASE At(r, "request.save") /\ table[Account(r)] # None -> {table[Account(r)].id}
      [] At(r, "request.withdraw") /\ MatchesIssue(r) -> {req[r].row}
      [] At(r, "confirm.consume") /\ Consumable(r) -> {req[r].row}
      [] At(r, "confirm.grant") -> {Owner(r)}
      [] At(r, "account.lock") -> {Owner(r)} \cap users
      [] At(r, "account.commit") -> RowsOf(Owner(r))
      [] OTHER -> {}

(* An INSERT takes FOR KEY SHARE on the User row its foreign key names. *)
References(r) ==
  IF At(r, "request.save") /\ table[Account(r)] = None THEN {Owner(r)} ELSE {}

Blockers(r) ==
  {q \in Requests \ {r} : held[q] \cap (Needs(r) \cup References(r)) # {}}

-----------------------------------------------------------------------------
(* Control of one request. *)

Begin(r, request) ==
  /\ At(r, "idle")
  /\ req' = [req EXCEPT ![r] = request]
  /\ UNCHANGED <<tables, mail, held>>

Continue(r, request) ==
  /\ req' = [req EXCEPT ![r] = request]
  /\ UNCHANGED <<tables, mail, held>>

Lock(r, pc) ==
  /\ Blockers(r) = {}
  /\ held' = [held EXCEPT ![r] = @ \cup Needs(r)]
  /\ req' = [req EXCEPT ![r].pc = pc]
  /\ UNCHANGED <<tables, mail>>

Answer(r) ==
  /\ req' = [req EXCEPT ![r] = Idle]
  /\ held' = [held EXCEPT ![r] = {}]

Reject(r) == Answer(r) /\ UNCHANGED <<tables, mail>>

-----------------------------------------------------------------------------
(* POST /auth/password-reset/request, POST /auth/email-verification/request *)
(* and the mail a signup sends.                                             *)

StartRequest(r, a) == Begin(r, [Idle EXCEPT !.pc = "request.read", !.account = a])

(* Unknown and already verified users end it here. *)
RequestRead(r) ==
  /\ At(r, "request.read")
  /\ \/ /\ Owner(r) \in users
        /\ Account(r)[1] = "emailVerification" => granted[Account(r)] = <<>>
        /\ Continue(r, [req[r] EXCEPT !.pc = "request.save"])
     \/ /\ \/ Owner(r) \notin users
           \/ Account(r)[1] = "emailVerification" /\ granted[Account(r)] # <<>>
        /\ Reject(r)

(* What INSERT ... ON CONFLICT DO UPDATE leaves in the account's row. *)
Upserted(row, h) ==
  IF row = None THEN [id |-> h, tokenHash |-> h, used |-> FALSE, expired |-> FALSE]
  ELSE [id |-> row.id, tokenHash |-> h, used |-> FALSE, expired |-> FALSE]

RequestSave(r) ==
  /\ At(r, "request.save")
  /\ Blockers(r) = {}
  /\ \/ \E h \in Hashes \ issued : LET a == Account(r) IN
          /\ Owner(r) \in users
          /\ table' = [table EXCEPT ![a] = Upserted(@, h)]
          /\ latest' = [latest EXCEPT ![a] = h]
          /\ issued' = issued \cup {h}
          /\ req' = [req EXCEPT ![r] = [@ EXCEPT !.pc = "request.notify", !.hash = h,
                                                 !.row = table'[a].id]]
          /\ UNCHANGED <<users, granted, mail, held>>
     \/ (Owner(r) \notin users \/ Hashes = issued) /\ Reject(r)

(* Resend takes the mail, or reports a failure; a mail reported as failed
   (a lost answer) may have gone out. *)
RequestNotify(r) ==
  /\ At(r, "request.notify")
  /\ \/ /\ mail' = [mail EXCEPT ![req[r].hash] = "sent"]
        /\ Answer(r)
        /\ UNCHANGED tables
     \/ \E outcome \in {"none", "reported failed"} :
          /\ mail' = [mail EXCEPT ![req[r].hash] = outcome]
          /\ req' = [req EXCEPT ![r].pc = "request.withdraw"]
          /\ UNCHANGED <<tables, held>>

(* Mutant: the row is deleted by its id, whatever token it holds now. *)
WithdrawRow(r) ==
  /\ At(r, "request.withdraw")
  /\ Blockers(r) = {}
  /\ table' = [table EXCEPT ![Account(r)] =
                 IF @ # None /\ @.id = req[r].row THEN None ELSE @]
  /\ Answer(r)
  /\ UNCHANGED <<users, granted, latest, issued, mail>>

RequestWithdraw(r) ==
  /\ At(r, "request.withdraw")
  /\ Blockers(r) = {}
  /\ table' = [table EXCEPT ![Account(r)] = IF MatchesIssue(r) THEN None ELSE @]
  /\ Answer(r)
  /\ UNCHANGED <<users, granted, latest, issued, mail>>

-----------------------------------------------------------------------------
(* POST /auth/password-reset/confirm, POST /auth/email-verification/confirm *)

(* The user follows the link in a mail, of whatever age. *)
StartConfirm(r, h) ==
  /\ mail[h] # "none"
  /\ Begin(r, [Idle EXCEPT !.pc = "confirm.read", !.hash = h])

ConfirmRead(r) ==
  LET valid == {a \in Accounts : /\ table[a] # None
                                 /\ table[a].tokenHash = req[r].hash
                                 /\ ~table[a].used /\ ~table[a].expired} IN
  /\ At(r, "confirm.read")
  /\ \/ \E a \in valid :
          Continue(r, [req[r] EXCEPT !.pc = "confirm.consume", !.account = a,
                                     !.row = table[a].id])
     \/ valid = {} /\ Reject(r)

(* Mutant: the token is consumed before the transaction begins. *)
ConsumeAtOnce(r) ==
  /\ At(r, "confirm.consume")
  /\ \/ /\ Consumable(r)
        /\ Blockers(r) = {}
        /\ table' = [table EXCEPT ![Account(r)].used = TRUE]
        /\ req' = [req EXCEPT ![r].pc = "confirm.grant"]
        /\ UNCHANGED <<users, granted, latest, issued, mail, held>>
     \/ ~Consumable(r) /\ Reject(r)

ConfirmConsume(r) ==
  /\ At(r, "confirm.consume")
  /\ \/ Consumable(r) /\ Lock(r, "confirm.grant")
     \/ ~Consumable(r) /\ Reject(r)

(* The User row is written and the transaction commits: the lock on the
   token's row keeps its account from being deleted. *)
ConfirmGrant(r) ==
  /\ At(r, "confirm.grant")
  /\ Blockers(r) = {}
  /\ LET a == Account(r) IN
     /\ granted' = [granted EXCEPT ![a] =
                      Append(@, [presented |-> req[r].hash, consumed |-> table[a].tokenHash])]
     /\ table' = [table EXCEPT ![a].used = TRUE]
  /\ Answer(r)
  /\ UNCHANGED <<users, latest, issued, mail>>

-----------------------------------------------------------------------------
(* DELETE /users/me *)

StartDeleteMe(r, a) ==
  /\ a[2] \in users
  /\ Begin(r, [Idle EXCEPT !.pc = "account.lock", !.account = a])

AccountLock(r) ==
  /\ At(r, "account.lock")
  /\ \/ Owner(r) \in users /\ Lock(r, "account.commit")
     \/ Blockers(r) = {} /\ Reject(r)

(* Mutant: the foreign key does not cascade. *)
AccountCommitAlone(r) ==
  /\ At(r, "account.commit")
  /\ Blockers(r) = {}
  /\ users' = users \ {Owner(r)}
  /\ Answer(r)
  /\ UNCHANGED <<table, granted, latest, issued, mail>>

AccountCommit(r) ==
  /\ At(r, "account.commit")
  /\ Blockers(r) = {}
  /\ users' = users \ {Owner(r)}
  /\ table' = [a \in Accounts |-> IF a[2] = Owner(r) THEN None ELSE table[a]]
  /\ Answer(r)
  /\ UNCHANGED <<granted, latest, issued, mail>>

-----------------------------------------------------------------------------

(* expiresAt passes. *)
Expire(a) ==
  /\ table[a] # None /\ ~table[a].expired
  /\ table' = [table EXCEPT ![a].expired = TRUE]
  /\ UNCHANGED <<users, granted, latest, issued, mail, req, held>>

(* A statement fails, the transaction limit strikes, PostgreSQL picks a
   deadlock victim, or the process stops. *)
Abort(r) == ~At(r, "idle") /\ Reject(r)

Start(r) ==
  \/ \E a \in Accounts : StartRequest(r, a) \/ StartDeleteMe(r, a)
  \/ \E h \in Hashes : StartConfirm(r, h)

Statement(r) ==
  \/ RequestRead(r) \/ RequestSave(r) \/ RequestNotify(r) \/ RequestWithdraw(r)
  \/ ConfirmRead(r) \/ ConfirmConsume(r) \/ ConfirmGrant(r)
  \/ AccountLock(r) \/ AccountCommit(r)

Next ==
  \/ \E r \in Requests : Start(r) \/ Statement(r) \/ Abort(r)
  \/ \E a \in Accounts : Expire(a)

Spec == Init /\ [][Next]_vars
=============================================================================
