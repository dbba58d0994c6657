----------------------------- MODULE TokenProofs -----------------------------
(***************************************************************************)
(* Proofs that the mailed tokens keep the promises of TokenProperties, for *)
(* any number of users, tokens and requests.                               *)
(*                                                                         *)
(* The argument has two halves.  A confirmation locks the row it consumes, *)
(* so the row is still there and unused when it grants (Pinned); an unused *)
(* row holds a token that was never consumed (TablesOK).  And each issue's *)
(* hash belongs to one request, which either reports it sent or withdraws  *)
(* it, so no request withdraws a token whose mail was sent (Standing).     *)
(***************************************************************************)
EXTENDS TokenProperties, TLAPS

LocksExclusive ==
  \A r, q \in Requests : r # q => held[r] \cap held[q] = {}

(* The values a request carries at each statement that uses them. *)
Locals(r) ==
  LET q == req[r] IN
  /\ q.pc \notin {"idle", "confirm.read"} => q.account \in Accounts
  /\ q.pc \in {"request.notify", "request.withdraw", "confirm.read", "confirm.consume", "confirm.grant"}
       => q.hash \in issued
  /\ q.pc \in {"request.notify", "request.withdraw", "confirm.consume", "confirm.grant"}
       => q.row \in issued

(* The rows a transaction has locked. *)
Holds(r) ==
  held[r] = CASE At(r, "confirm.grant") -> {req[r].row}
              [] At(r, "account.commit") -> {Owner(r)}
              [] OTHER -> {}

(* What a confirmation found under its lock, and may still rely on. *)
Pinned(r) ==
  At(r, "confirm.grant") =>
    LET row == table[Account(r)] IN row # None /\ row.id = req[r].row /\ ~row.used

TablesOK ==
  /\ \A a \in Accounts : table[a] # None =>
       /\ table[a].id \in issued
       /\ table[a].tokenHash \in issued
       /\ latest[a] # None
       /\ ~table[a].used => \A i \in DOMAIN granted[a] : granted[a][i].consumed # table[a].tokenHash
  /\ \A h \in Hashes \ issued : mail[h] = "none"

(* The request that still has to report the mail with a token. *)
Notifying(r, h) == At(r, "request.notify") /\ req[r].hash = h

(* A token sent, or about to be, is the account's token while no newer one  *)
(* is issued; one that is withdrawn was not sent; no two requests share one.*)
Standing ==
  /\ \A a \in Accounts :
       (/\ latest[a] # None /\ a[2] \in users
        /\ mail[latest[a]] = "sent" \/ \E r \in Requests : Notifying(r, latest[a]))
       => table[a] # None /\ table[a].tokenHash = latest[a]
  /\ \A r \in Requests : At(r, "request.withdraw") => mail[req[r].hash] # "sent"
  /\ \A r, q \in Requests :
       (/\ req[r].pc \in {"request.notify", "request.withdraw"}
        /\ req[q].pc \in {"request.notify", "request.withdraw"}
        /\ req[r].hash = req[q].hash) => r = q

IInv ==
  /\ TypeOK
  /\ LocksExclusive
  /\ TablesOK
  /\ OneGrantPerIssue
  /\ Standing
  /\ \A r \in Requests : Locals(r) /\ Holds(r) /\ Pinned(r)

USE RowsDistinct, NoneIsNoValue

-----------------------------------------------------------------------------

LEMMA IdleIsRequest == Idle \in Request /\ Idle.pc = "idle"
  BY DEF Idle, Request, ProgramCounters

LEMMA OwnRequest ==
  ASSUME IInv, NEW r \in Requests
  PROVE  req[r] \in Request
  BY DEF IInv, TypeOK

LEMMA SeqSubset ==
  ASSUME NEW S, NEW T, S \subseteq T
  PROVE  Seq(S) \subseteq Seq(T)
<1> SUFFICES ASSUME NEW s \in Seq(S) PROVE s \in Seq(T)
  OBVIOUS
<1>1. Len(s) \in Nat /\ s \in [1..Len(s) -> T]
  OBVIOUS
<1>2. QED
  BY <1>1

LEMMA GrantsIssued ==
  ASSUME TypeOK, NEW a \in Accounts, NEW i \in DOMAIN granted[a]
  PROVE  granted[a][i].consumed \in issued
<1>1. granted[a] \in Seq([presented : issued, consumed : issued])
  BY DEF TypeOK
<1>2. \A S : \A s \in Seq(S) : \A n \in DOMAIN s : s[n] \in S
  OBVIOUS
<1>3. granted[a][i] \in [presented : issued, consumed : issued]
  BY <1>1, <1>2, Zenon
<1>4. QED
  BY <1>3

LEMMA InitIInv == Init => IInv
<1> SUFFICES ASSUME Init PROVE IInv
  OBVIOUS
<1>1. TypeOK
  <2>1. <<>> \in Seq([presented : issued, consumed : issued])
    OBVIOUS
  <2>2. QED
    BY <2>1, IdleIsRequest DEF Init, TypeOK, Accounts
<1>2. QED
  BY <1>1, IdleIsRequest DEF Init, IInv, LocksExclusive, TablesOK, OneGrantPerIssue, Standing, Locals, Holds, Pinned,
     At, Notifying

-----------------------------------------------------------------------------
(* What a step of one request leaves to the others. *)

LEMMA OthersKept ==
  ASSUME IInv, NEW r \in Requests, NEW x, NEW h,
         req' = [req EXCEPT ![r] = x],
         held' = [held EXCEPT ![r] = h],
         \A q \in Requests \ {r} : h \cap held[q] = {},
         issued \subseteq issued',
         \A q \in Requests \ {r} :
           At(q, "confirm.grant") =>
             /\ table'[Account(q)] # None
             /\ table'[Account(q)].id = table[Account(q)].id
             /\ table'[Account(q)].used = table[Account(q)].used
  PROVE  /\ LocksExclusive'
         /\ \A q \in Requests \ {r} : (Locals(q) /\ Holds(q) /\ Pinned(q))'
<1>1. LocksExclusive'
  BY DEF IInv, TypeOK, LocksExclusive
<1>2. ASSUME NEW q \in Requests \ {r} PROVE (Locals(q) /\ Holds(q) /\ Pinned(q))'
  <2>1. req'[q] = req[q] /\ held'[q] = held[q]
    BY DEF IInv, TypeOK
  <2>2. Locals(q) /\ Holds(q) /\ Pinned(q)
    BY DEF IInv
  <2>3. Locals(q)'
    BY <2>1, <2>2 DEF Locals
  <2>4. Holds(q)'
    BY <2>1, <2>2 DEF Holds, At, Owner
  <2>5. Pinned(q)'
    BY <2>1, <2>2 DEF Pinned, At, Account
  <2>6. QED BY <2>3, <2>4, <2>5
<1>3. QED BY <1>1, <1>2

(* A step of r that changes neither a table nor a mail keeps the invariant  *)
(* when r's own part is kept and r takes no row another transaction holds.  *)
LEMMA QuietStep ==
  ASSUME IInv, NEW r \in Requests, NEW x \in Request, NEW h \in SUBSET (Users \cup Hashes),
         UNCHANGED <<tables, mail>>,
         req' = [req EXCEPT ![r] = x],
         held' = [held EXCEPT ![r] = h],
         \A q \in Requests \ {r} : h \cap held[q] = {},
         x.pc \notin {"request.notify", "request.withdraw"},
         x.pc = "idle" => x = Idle /\ h = {},
         Locals(r)', Holds(r)', Pinned(r)'
  PROVE  IInv'
<1> USE DEF tables
<1>1. TypeOK'
  BY DEF IInv, TypeOK
<1>2. LocksExclusive' /\ \A q \in Requests \ {r} : (Locals(q) /\ Holds(q) /\ Pinned(q))'
  <2>1. issued' = issued /\ table' = table /\ issued \subseteq issued'
    OBVIOUS
  <2>2. \A q \in Requests : At(q, "confirm.grant") => table[Account(q)] # None
    BY DEF IInv, Pinned
  <2>3. \A q \in Requests \ {r} :
          At(q, "confirm.grant") =>
            /\ table'[Account(q)] # None
            /\ table'[Account(q)].id = table[Account(q)].id
            /\ table'[Account(q)].used = table[Account(q)].used
    BY <2>1, <2>2
  <2>4. QED BY <2>1, <2>3, OthersKept, Zenon
<1>3. TablesOK' /\ OneGrantPerIssue'
  BY DEF IInv, TablesOK, OneGrantPerIssue
<1>4. Standing'
  <2>1. req'[r] = x /\ \A q \in Requests \ {r} : req'[q] = req[q]
    BY DEF IInv, TypeOK
  <2>2. \A q \in Requests : req'[q].pc \in {"request.notify", "request.withdraw"} => req'[q] = req[q]
    BY <2>1
  <2>3. QED BY <2>2 DEF IInv, Standing, Notifying, At
<1>5. QED
  BY <1>1, <1>2, <1>3, <1>4 DEF IInv

LEMMA RejectStep ==
  ASSUME IInv, NEW r \in Requests, Reject(r)
  PROVE  IInv'
<1>1. req' = [req EXCEPT ![r] = Idle] /\ held' = [held EXCEPT ![r] = {}] /\ UNCHANGED <<tables, mail>>
  BY DEF Reject, Answer
<1>2. req'[r] = Idle /\ held'[r] = {}
  BY <1>1 DEF IInv, TypeOK
<1>3. Locals(r)' /\ Holds(r)' /\ Pinned(r)'
  BY <1>2, IdleIsRequest DEF Locals, Holds, Pinned, At
<1>4. QED
  BY <1>1, <1>3, IdleIsRequest, QuietStep

(* A request without a lock goes on to a statement that needs none. *)
LEMMA ContinueStep ==
  ASSUME IInv, NEW r \in Requests, NEW x \in Request, Continue(r, x), held[r] = {},
         x.pc \in {"request.read", "request.save", "confirm.read", "confirm.consume", "account.lock"},
         Locals(r)'
  PROVE  IInv'
<1>1. req' = [req EXCEPT ![r] = x] /\ held' = [held EXCEPT ![r] = {}] /\ UNCHANGED <<tables, mail>>
  BY DEF Continue, IInv, TypeOK
<1>2. req'[r] = x /\ held'[r] = {}
  BY <1>1 DEF IInv, TypeOK
<1>3. Holds(r)' /\ Pinned(r)'
  BY <1>2 DEF Holds, Pinned, At
<1>4. QED
  BY <1>1, <1>3, QuietStep

LEMMA StartStep ==
  ASSUME IInv, NEW r \in Requests, Start(r)
  PROVE  IInv'
<1>1. ASSUME NEW x, Begin(r, x) PROVE Continue(r, x) /\ held[r] = {} /\ req'[r] = x
  BY <1>1 DEF Begin, Continue, At, IInv, TypeOK
<1>2. ASSUME NEW a \in Accounts, NEW pc \in {"request.read", "account.lock"},
             Begin(r, [Idle EXCEPT !.pc = pc, !.account = a])
      PROVE  IInv'
  <2> DEFINE x == [Idle EXCEPT !.pc = pc, !.account = a]
  <2>1. x \in Request /\ x.pc = pc /\ x.account = a
    BY IdleIsRequest DEF Request, ProgramCounters
  <2>2. Begin(r, x)
    BY <1>2
  <2> HIDE DEF x
  <2>3. Continue(r, x) /\ held[r] = {} /\ req'[r] = x
    BY <1>1, <2>2
  <2>4. Locals(r)'
    BY <2>1, <2>3 DEF Locals
  <2>5. QED BY <2>1, <2>3, <2>4, ContinueStep
<1>3. ASSUME NEW h \in Hashes, StartConfirm(r, h) PROVE IInv'
  <2> DEFINE x == [Idle EXCEPT !.pc = "confirm.read", !.hash = h]
  <2>1. x \in Request /\ x.pc = "confirm.read" /\ x.hash = h
    BY IdleIsRequest DEF Request, ProgramCounters
  <2>2. Begin(r, x) /\ h \in issued
    BY <1>3 DEF StartConfirm, IInv, TablesOK
  <2> HIDE DEF x
  <2>3. Continue(r, x) /\ held[r] = {} /\ req'[r] = x
    BY <1>1, <2>2
  <2>4. Locals(r)'
    BY <2>1, <2>2, <2>3 DEF Locals, Continue, tables
  <2>5. QED BY <2>1, <2>3, <2>4, ContinueStep
<1>4. QED
  BY <1>2, <1>3 DEF Start, StartRequest, StartDeleteMe

LEMMA RequestReadStep ==
  ASSUME IInv, NEW r \in Requests, RequestRead(r)
  PROVE  IInv'
<1>1. ASSUME Continue(r, [req[r] EXCEPT !.pc = "request.save"]) PROVE IInv'
  <2> DEFINE x == [req[r] EXCEPT !.pc = "request.save"]
  <2>1. x \in Request /\ x.pc = "request.save" /\ x.account = req[r].account
    BY OwnRequest DEF Request, ProgramCounters
  <2>2. held[r] = {} /\ req[r].account \in Accounts
    BY DEF IInv, Holds, Locals, RequestRead, At
  <2>3. Continue(r, x)
    BY <1>1
  <2> HIDE DEF x
  <2>4. Locals(r)'
    BY <2>1, <2>2, <2>3 DEF Locals, Continue, IInv, TypeOK
  <2>5. QED BY <2>1, <2>2, <2>3, <2>4, ContinueStep
<1>2. QED
  BY <1>1, RejectStep DEF RequestRead

LEMMA ConfirmReadStep ==
  ASSUME IInv, NEW r \in Requests, ConfirmRead(r)
  PROVE  IInv'
<1>1. ASSUME NEW a \in Accounts, table[a] # None,
             Continue(r, [req[r] EXCEPT !.pc = "confirm.consume", !.account = a, !.row = table[a].id])
      PROVE  IInv'
  <2> DEFINE x == [req[r] EXCEPT !.pc = "confirm.consume", !.account = a, !.row = table[a].id]
  <2>1. table[a].id \in issued /\ issued \subseteq Hashes
    BY <1>1 DEF IInv, TypeOK, TablesOK
  <2>2. PICK row : row = table[a].id
    OBVIOUS
  <2>3. x \in Request /\ x.pc = "confirm.consume" /\ x.account = a /\ x.row = row /\ x.hash = req[r].hash
    BY <2>1, <2>2, OwnRequest DEF Request, ProgramCounters
  <2>4. held[r] = {} /\ req[r].hash \in issued
    BY DEF IInv, Holds, Locals, ConfirmRead, At
  <2>5. Continue(r, x)
    BY <1>1
  <2> HIDE DEF x
  <2>6. Locals(r)'
    BY <2>1, <2>2, <2>3, <2>4, <2>5 DEF Locals, Continue, tables, IInv, TypeOK
  <2>7. QED BY <2>3, <2>4, <2>5, <2>6, ContinueStep
<1>2. QED
  BY <1>1, RejectStep DEF ConfirmRead

(* Taking a lock leads to the transaction's last statement. *)
LEMMA LockStep ==
  ASSUME IInv, NEW r \in Requests, NEW pc \in {"confirm.grant", "account.commit"},
         Lock(r, pc), held[r] = {}, Needs(r) \subseteq Users \cup Hashes,
         req[r].account \in Accounts,
         pc = "confirm.grant" =>
           req[r].hash \in issued /\ req[r].row \in issued /\ Needs(r) = {req[r].row} /\ Consumable(r),
         pc = "account.commit" => Needs(r) = {Owner(r)}
  PROVE  IInv'
<1> DEFINE x == [req[r] EXCEPT !.pc = pc]
<1>1. x \in Request /\ x.pc = pc /\ x.account = req[r].account /\ x.hash = req[r].hash /\ x.row = req[r].row
  BY OwnRequest DEF Request, ProgramCounters
<1>2. req' = [req EXCEPT ![r] = x] /\ held' = [held EXCEPT ![r] = Needs(r)] /\ UNCHANGED <<tables, mail>>
  BY DEF Lock, IInv, TypeOK
<1>3. \A q \in Requests \ {r} : Needs(r) \cap held[q] = {}
  BY DEF Lock, Blockers
<1> HIDE DEF x
<1>4. req'[r] = x /\ held'[r] = Needs(r)
  BY <1>2 DEF IInv, TypeOK
<1>5. Locals(r)'
  BY <1>1, <1>2, <1>4 DEF Locals, tables
<1>6. Holds(r)'
  BY <1>1, <1>4 DEF Holds, At, Owner
<1>7. Pinned(r)'
  BY <1>1, <1>2, <1>4 DEF Pinned, At, Account, Consumable, tables
<1>8. QED
  BY <1>1, <1>2, <1>3, <1>5, <1>6, <1>7, QuietStep

LEMMA ConfirmConsumeStep ==
  ASSUME IInv, NEW r \in Requests, ConfirmConsume(r)
  PROVE  IInv'
<1>1. ASSUME Consumable(r), Lock(r, "confirm.grant") PROVE IInv'
  <2>1. /\ req[r].account \in Accounts /\ req[r].hash \in issued /\ req[r].row \in issued
        /\ held[r] = {} /\ issued \subseteq Hashes
    BY DEF ConfirmConsume, IInv, TypeOK, Locals, Holds, At
  <2>2. Needs(r) = {req[r].row}
    BY <1>1 DEF ConfirmConsume, Needs, At
  <2>3. QED BY <1>1, <2>1, <2>2, LockStep
<1>2. QED
  BY <1>1, RejectStep DEF ConfirmConsume

LEMMA AccountLockStep ==
  ASSUME IInv, NEW r \in Requests, AccountLock(r)
  PROVE  IInv'
<1>1. ASSUME Owner(r) \in users, Lock(r, "account.commit") PROVE IInv'
  <2>1. req[r].account \in Accounts /\ held[r] = {} /\ users \subseteq Users
    BY DEF AccountLock, IInv, TypeOK, Locals, Holds, At
  <2>2. Needs(r) = {Owner(r)}
    BY <1>1 DEF AccountLock, Needs, At
  <2>3. QED BY <1>1, <2>1, <2>2, LockStep
<1>2. QED
  BY <1>1, RejectStep DEF AccountLock

-----------------------------------------------------------------------------
(* The steps that write. *)

LEMMA SaveStep ==
  ASSUME IInv, NEW r \in Requests, At(r, "request.save"), Blockers(r) = {}, Owner(r) \in users,
         NEW h \in Hashes \ issued,
         table' = [table EXCEPT ![Account(r)] = Upserted(@, h)],
         latest' = [latest EXCEPT ![Account(r)] = h],
         issued' = issued \cup {h},
         req' = [req EXCEPT ![r] = [@ EXCEPT !.pc = "request.notify", !.hash = h,
                                             !.row = table'[Account(r)].id]],
         UNCHANGED <<users, granted, mail, held>>
  PROVE  IInv'
<1>1. /\ table \in [Accounts -> Row \cup {None}] /\ latest \in [Accounts -> issued \cup {None}]
      /\ issued \subseteq Hashes /\ req \in [Requests -> Request]
      /\ held \in [Requests -> SUBSET (Users \cup Hashes)]
  BY DEF IInv, TypeOK
<1>2. PICK a \in Accounts : a = Account(r) /\ a = req[r].account /\ a[2] \in users
  BY DEF IInv, Locals, At, Account, Owner
<1>3. held[r] = {}
  BY DEF IInv, Holds, At
<1>4. PICK row : row = Upserted(table[a], h)
  OBVIOUS
<1>5. table[a] # None => table[a] \in Row /\ table[a].id \in issued
  BY <1>1 DEF IInv, TablesOK
<1>6. /\ row.id = IF table[a] = None THEN h ELSE table[a].id
      /\ row.tokenHash = h /\ row.used = FALSE
  BY <1>4 DEF Upserted
<1>7. row \in Row
  BY <1>1, <1>4, <1>5 DEF Upserted, Row
<1>8. row # None
  BY <1>7
<1>9. table' = [table EXCEPT ![a] = row] /\ table'[a] = row /\ row.id \in issued'
  BY <1>1, <1>2, <1>4, <1>5, <1>6
<1>10. PICK x : x = [req[r] EXCEPT !.pc = "request.notify", !.hash = h, !.row = row.id]
  OBVIOUS
<1>11. x \in Request /\ x.pc = "request.notify" /\ x.hash = h /\ x.row = row.id /\ x.account = a
  <2>1. PICK i \in Hashes : i = row.id
    BY <1>7 DEF Row
  <2>2. h \in Hashes
    OBVIOUS
  <2>3. QED BY <1>2, <1>10, <2>1, <2>2, OwnRequest DEF Request, ProgramCounters
<1>12. req' = [req EXCEPT ![r] = x] /\ req'[r] = x /\ \A q \in Requests \ {r} : req'[q] = req[q]
  BY <1>1, <1>2, <1>9, <1>10
<1>13. TypeOK'
  <2>1. issued' \subseteq Hashes /\ issued \subseteq issued' /\ h \in issued'
    BY <1>1
  <2>2. granted' \in [Accounts -> Seq([presented : issued', consumed : issued'])]
    <3> DEFINE G == [presented : issued, consumed : issued]
               H == [presented : issued', consumed : issued']
    <3>1. G \subseteq H
      BY <2>1
    <3>2. granted' \in [Accounts -> Seq(G)]
      BY DEF IInv, TypeOK
    <3>3. SUFFICES granted' \in [Accounts -> Seq(H)]
      OBVIOUS
    <3> HIDE DEF G, H
    <3>4. Seq(G) \subseteq Seq(H)
      BY <3>1, SeqSubset
    <3>5. QED BY <3>2, <3>4
  <2>3. table' \in [Accounts -> Row \cup {None}]
    BY <1>1, <1>7, <1>9
  <2>4. latest' \in [Accounts -> issued' \cup {None}]
    BY <1>1, <1>2, <2>1
  <2>5. req' \in [Requests -> Request]
    BY <1>1, <1>11, <1>12
  <2>6. \A b \in Accounts : table'[b] # None => b[2] \in users'
    BY <1>1, <1>2, <1>9 DEF IInv, TypeOK
  <2>7. \A q \in Requests : req'[q].pc = "idle" => req'[q] = Idle /\ held'[q] = {}
    BY <1>11, <1>12 DEF IInv, TypeOK
  <2>8. QED BY <2>1, <2>2, <2>3, <2>4, <2>5, <2>6, <2>7 DEF IInv, TypeOK
<1>14. LocksExclusive' /\ \A q \in Requests \ {r} : (Locals(q) /\ Holds(q) /\ Pinned(q))'
  <2>1. ASSUME NEW q \in Requests \ {r}, At(q, "confirm.grant") PROVE Account(q) # a
    <3>1. SUFFICES ASSUME Account(q) = a PROVE FALSE
      OBVIOUS
    <3>2. table[a] # None /\ table[a].id = req[q].row /\ held[q] = {req[q].row}
      BY <2>1, <3>1 DEF IInv, Pinned, Holds, At
    <3>3. Needs(r) = {table[a].id}
      BY <1>2, <3>2 DEF Needs, At
    <3>4. QED BY <3>2, <3>3 DEF Blockers
  <2>2. ASSUME NEW q \in Requests \ {r}, At(q, "confirm.grant")
        PROVE  /\ table'[Account(q)] # None
               /\ table'[Account(q)].id = table[Account(q)].id
               /\ table'[Account(q)].used = table[Account(q)].used
    <3>1. Account(q) \in Accounts /\ table[Account(q)] # None
      BY <2>2 DEF IInv, Locals, Pinned, At, Account
    <3>2. QED BY <1>1, <1>9, <2>1, <2>2, <3>1
  <2>3. held' = [held EXCEPT ![r] = {}] /\ issued \subseteq issued' /\ \A q \in Requests \ {r} : {} \cap held[q] = {}
    BY <1>1, <1>3
  <2>4. QED BY <1>12, <2>2, <2>3, OthersKept
<1>15. (Locals(r) /\ Holds(r) /\ Pinned(r))'
  BY <1>1, <1>3, <1>9, <1>11, <1>12 DEF Locals, Holds, Pinned, At
<1>16. TablesOK'
  <2>1. \A i \in DOMAIN granted[a] : granted[a][i].consumed # h
    BY GrantsIssued DEF IInv
  <2>2. \A b \in Accounts \ {a} : table'[b] = table[b]
    BY <1>1, <1>9
  <2>3. ASSUME NEW b \in Accounts, table'[b] # None
        PROVE  /\ table'[b].id \in issued' /\ table'[b].tokenHash \in issued' /\ latest'[b] # None
               /\ ~table'[b].used =>
                    \A i \in DOMAIN granted[b] : granted[b][i].consumed # table'[b].tokenHash
    <3>1. CASE b = a
      BY <1>1, <1>2, <1>6, <1>9, <2>1, <3>1
    <3>2. CASE b # a
      BY <1>1, <1>2, <2>2, <2>3, <3>2 DEF IInv, TablesOK
    <3>3. QED BY <3>1, <3>2
  <2>4. QED BY <2>3 DEF IInv, TablesOK
<1>17. OneGrantPerIssue'
  BY DEF IInv, OneGrantPerIssue
<1>18. Standing'
  <2>1. ASSUME NEW b \in Accounts, latest'[b] # None, b[2] \in users',
               mail'[latest'[b]] = "sent" \/ \E q \in Requests : Notifying(q, latest[b])'
        PROVE  table'[b] # None /\ table'[b].tokenHash = latest'[b]
    <3>1. CASE b = a
      BY <1>1, <1>6, <1>8, <1>9, <1>2, <3>1
    <3>2. CASE b # a
      <4>1. latest'[b] = latest[b] /\ table'[b] = table[b] /\ latest[b] # h
        BY <1>1, <1>2, <1>9, <2>1, <3>2
      <4>2. ASSUME NEW q \in Requests, Notifying(q, latest[b])'
            PROVE  Notifying(q, latest[b])
        BY <1>11, <1>12, <4>1, <4>2 DEF Notifying, At
      <4>3. QED BY <2>1, <4>1, <4>2 DEF IInv, Standing
    <3>3. QED BY <3>1, <3>2
  <2>2. \A q \in Requests : At(q, "request.withdraw")' => mail'[req'[q].hash] # "sent"
    BY <1>11, <1>12 DEF IInv, Standing, At
  <2>3. \A q \in Requests \ {r} : req[q].pc \in {"request.notify", "request.withdraw"} => req[q].hash # h
    BY DEF IInv, Locals
  <2>4. \A p, q \in Requests :
          (/\ req'[p].pc \in {"request.notify", "request.withdraw"}
           /\ req'[q].pc \in {"request.notify", "request.withdraw"}
           /\ req'[p].hash = req'[q].hash) => p = q
    BY <1>11, <1>12, <2>3 DEF IInv, Standing
  <2>5. QED BY <2>1, <2>2, <2>4 DEF Standing
<1>19. QED
  BY <1>13, <1>14, <1>15, <1>16, <1>17, <1>18 DEF IInv

LEMMA RequestSaveStep ==
  ASSUME IInv, NEW r \in Requests, RequestSave(r)
  PROVE  IInv'
  BY SaveStep, RejectStep DEF RequestSave

(* The mail is reported, and the request answered or sent on to withdraw. *)
LEMMA ReportStep ==
  ASSUME IInv, NEW r \in Requests, At(r, "request.notify"),
         NEW outcome \in {"none", "sent", "reported failed"}, NEW x \in Request,
         mail' = [mail EXCEPT ![req[r].hash] = outcome],
         req' = [req EXCEPT ![r] = x],
         held' = [held EXCEPT ![r] = {}],
         UNCHANGED <<users, table, granted, latest, issued>>,
         \/ x = Idle
         \/ /\ outcome # "sent" /\ x.pc = "request.withdraw"
            /\ x.hash = req[r].hash /\ x.account = req[r].account /\ x.row = req[r].row
  PROVE  IInv'
<1>1. req \in [Requests -> Request] /\ mail \in [Hashes -> {"none", "sent", "reported failed"}]
      /\ issued \subseteq Hashes
  BY DEF IInv, TypeOK
<1>2. PICK h \in Hashes : h = req[r].hash /\ h \in issued /\ Notifying(r, h)
  BY DEF IInv, TypeOK, Locals, At, Notifying
<1>3. /\ req'[r] = x /\ held'[r] = {} /\ \A q \in Requests \ {r} : req'[q] = req[q]
      /\ mail'[h] = outcome /\ \A g \in Hashes \ {h} : mail'[g] = mail[g]
  BY <1>2 DEF IInv, TypeOK
<1>4. TypeOK'
  BY <1>2, IdleIsRequest DEF IInv, TypeOK
<1>5. LocksExclusive' /\ \A q \in Requests \ {r} : (Locals(q) /\ Holds(q) /\ Pinned(q))'
  <2>1. \A q \in Requests : At(q, "confirm.grant") => table[Account(q)] # None
    BY DEF IInv, Pinned
  <2>2. \A q \in Requests \ {r} :
          At(q, "confirm.grant") =>
            /\ table'[Account(q)] # None
            /\ table'[Account(q)].id = table[Account(q)].id
            /\ table'[Account(q)].used = table[Account(q)].used
    BY <2>1
  <2>3. issued \subseteq issued' /\ \A q \in Requests \ {r} : {} \cap held[q] = {}
    OBVIOUS
  <2>4. QED BY <2>2, <2>3, OthersKept
<1>6. (Locals(r) /\ Holds(r) /\ Pinned(r))'
  <2>1. Locals(r)
    BY DEF IInv
  <2>2. Locals(r)'
    BY <1>1, <1>3, <2>1, IdleIsRequest DEF Locals, At
  <2>3. (Holds(r) /\ Pinned(r))'
    BY <1>3, IdleIsRequest DEF Holds, Pinned, At
  <2>4. QED BY <2>2, <2>3
<1>7. TablesOK' /\ OneGrantPerIssue'
  <2>1. UNCHANGED <<table, granted, latest, issued>> /\ \A g \in Hashes \ issued : mail'[g] = mail[g]
    BY <1>2, <1>3
  <2>2. TablesOK /\ OneGrantPerIssue
    BY DEF IInv
  <2>3. TablesOK'
    <3>1. \A g \in Hashes \ issued' : mail'[g] = "none"
      BY <1>2, <1>3, <2>2 DEF TablesOK
    <3>2. ASSUME NEW a \in Accounts, table'[a] # None
          PROVE  /\ table'[a].id \in issued' /\ table'[a].tokenHash \in issued' /\ latest'[a] # None
                 /\ ~table'[a].used =>
                      \A i \in DOMAIN granted'[a] : granted'[a][i].consumed # table'[a].tokenHash
      BY <2>2, <3>2 DEF TablesOK
    <3>3. QED BY <3>1, <3>2 DEF TablesOK
  <2>4. OneGrantPerIssue'
    BY <2>2 DEF OneGrantPerIssue
  <2>5. QED BY <2>3, <2>4
<1>8. Standing'
  <2>1. \A q \in Requests : \A g : Notifying(q, g)' => Notifying(q, g) /\ q # r
    BY <1>3, IdleIsRequest DEF Notifying, At
  <2>2. ASSUME NEW b \in Accounts, latest'[b] # None, b[2] \in users',
               mail'[latest'[b]] = "sent" \/ \E q \in Requests : Notifying(q, latest[b])'
        PROVE  table'[b] # None /\ table'[b].tokenHash = latest'[b]
    <3>1. latest[b] \in Hashes
      BY <2>2 DEF IInv, TypeOK
    <3>2. mail[latest[b]] = "sent" \/ \E q \in Requests : Notifying(q, latest[b])
      BY <1>2, <1>3, <2>1, <2>2, <3>1
    <3>3. QED BY <2>2, <3>2 DEF IInv, Standing
  <2>3. \A q \in Requests \ {r} : req[q].pc \in {"request.notify", "request.withdraw"}
                                 => req[q].hash # h /\ req[q].hash \in Hashes
    <3>1. issued \subseteq Hashes /\ Standing /\ \A q \in Requests : Locals(q)
      BY DEF IInv, TypeOK
    <3>2. QED BY <1>2, <3>1 DEF Standing, Locals, At
  <2>4. \A q \in Requests : At(q, "request.withdraw")' => mail'[req'[q].hash] # "sent"
    <3>1. \A q \in Requests : req[q].pc = "request.withdraw" => mail[req[q].hash] # "sent"
      BY DEF IInv, Standing, At
    <3>2. ASSUME NEW q \in Requests, req'[q].pc = "request.withdraw" PROVE mail'[req'[q].hash] # "sent"
      <4>1. CASE q = r
        BY <1>1, <1>2, <1>3, <3>2, <4>1, IdleIsRequest
      <4>2. CASE q # r
        BY <1>1, <1>2, <1>3, <2>3, <3>1, <3>2, <4>2
      <4>3. QED BY <4>1, <4>2
    <3>3. QED BY <3>2 DEF At
  <2>5. \A p, q \in Requests :
          (/\ req'[p].pc \in {"request.notify", "request.withdraw"}
           /\ req'[q].pc \in {"request.notify", "request.withdraw"}
           /\ req'[p].hash = req'[q].hash) => p = q
    <3>1. Standing
      BY DEF IInv
    <3>2. \A q \in Requests : req'[q].pc \in {"request.notify", "request.withdraw"}
            => req[q].pc \in {"request.notify", "request.withdraw"} /\ req'[q].hash = req[q].hash
      BY <1>3, IdleIsRequest DEF At
    <3>3. TAKE p, q \in Requests
    <3>4. HAVE /\ req'[p].pc \in {"request.notify", "request.withdraw"}
               /\ req'[q].pc \in {"request.notify", "request.withdraw"}
               /\ req'[p].hash = req'[q].hash
    <3>5. /\ req[p].pc \in {"request.notify", "request.withdraw"}
          /\ req[q].pc \in {"request.notify", "request.withdraw"}
          /\ req[p].hash = req[q].hash
      BY <3>2, <3>4
    <3>6. QED BY <3>1, <3>5 DEF Standing
  <2>6. QED BY <2>2, <2>4, <2>5 DEF Standing
<1>9. QED
  BY <1>4, <1>5, <1>6, <1>7, <1>8 DEF IInv

LEMMA RequestNotifyStep ==
  ASSUME IInv, NEW r \in Requests, RequestNotify(r)
  PROVE  IInv'
<1>1. At(r, "request.notify") /\ held' = [held EXCEPT ![r] = {}]
  <2>1. At(r, "request.notify")
    BY DEF RequestNotify
  <2>2. held[r] = {} /\ held \in [Requests -> SUBSET (Users \cup Hashes)]
    BY <2>1 DEF IInv, TypeOK, Holds, At
  <2>3. held' = held \/ held' = [held EXCEPT ![r] = {}]
    BY DEF RequestNotify, Answer
  <2>4. QED BY <2>1, <2>2, <2>3
<1>2. CASE mail' = [mail EXCEPT ![req[r].hash] = "sent"] /\ Answer(r) /\ UNCHANGED tables
  BY <1>1, <1>2, IdleIsRequest, ReportStep DEF Answer, tables
<1>3. ASSUME NEW outcome \in {"none", "reported failed"},
             mail' = [mail EXCEPT ![req[r].hash] = outcome],
             req' = [req EXCEPT ![r].pc = "request.withdraw"],
             UNCHANGED <<tables, held>>
      PROVE  IInv'
  <2> DEFINE x == [req[r] EXCEPT !.pc = "request.withdraw"]
  <2>1. /\ x \in Request /\ x.pc = "request.withdraw"
        /\ x.hash = req[r].hash /\ x.account = req[r].account /\ x.row = req[r].row
    BY OwnRequest DEF Request, ProgramCounters
  <2>2. req' = [req EXCEPT ![r] = x]
    BY <1>3
  <2> HIDE DEF x
  <2>3. QED BY <1>1, <1>3, <2>1, <2>2, ReportStep DEF tables
<1>4. QED
  BY <1>2, <1>3 DEF RequestNotify

(* A step that answers r and deletes the rows of the accounts in dropped. *)
LEMMA DropStep ==
  ASSUME IInv, NEW r \in Requests, Answer(r), NEW dropped \in SUBSET Accounts,
         table' = [a \in Accounts |-> IF a \in dropped THEN None ELSE table[a]],
         users' \subseteq users,
         UNCHANGED <<granted, latest, issued, mail>>,
         \A a \in Accounts : a[2] \in users \ users' => a \in dropped,
         \A q \in Requests \ {r} : At(q, "confirm.grant") => Account(q) \notin dropped,
         \A a \in dropped : a[2] \in users' =>
           mail[latest[a]] # "sent" /\ \A q \in Requests \ {r} : ~Notifying(q, latest[a])
  PROVE  IInv'
<1>1. /\ req' = [req EXCEPT ![r] = Idle] /\ held' = [held EXCEPT ![r] = {}]
      /\ req'[r] = Idle /\ held'[r] = {} /\ \A q \in Requests \ {r} : req'[q] = req[q]
  BY DEF Answer, IInv, TypeOK
<1>2. TypeOK'
  BY <1>1, IdleIsRequest DEF IInv, TypeOK
<1>3. LocksExclusive' /\ \A q \in Requests \ {r} : (Locals(q) /\ Holds(q) /\ Pinned(q))'
  <2>1. ASSUME NEW q \in Requests \ {r}, At(q, "confirm.grant")
        PROVE  /\ table'[Account(q)] # None
               /\ table'[Account(q)].id = table[Account(q)].id
               /\ table'[Account(q)].used = table[Account(q)].used
    <3>1. Account(q) \in Accounts /\ table[Account(q)] # None
      BY <2>1 DEF IInv, Locals, Pinned, At, Account
    <3>2. QED BY <2>1, <3>1
  <2>2. \A q \in Requests \ {r} : {} \cap held[q] = {}
    OBVIOUS
  <2>3. QED BY <1>1, <2>1, <2>2, OthersKept
<1>4. (Locals(r) /\ Holds(r) /\ Pinned(r))'
  BY <1>1, IdleIsRequest DEF Locals, Holds, Pinned, At
<1>5. TablesOK' /\ OneGrantPerIssue'
  BY DEF IInv, TablesOK, OneGrantPerIssue
<1>6. Standing'
  <2>1. \A q \in Requests : req'[q].pc \in {"request.notify", "request.withdraw"} => q # r /\ req'[q] = req[q]
    BY <1>1, IdleIsRequest
  <2>2. ASSUME NEW b \in Accounts, latest'[b] # None, b[2] \in users',
               mail'[latest'[b]] = "sent" \/ \E q \in Requests : Notifying(q, latest[b])'
        PROVE  table'[b] # None /\ table'[b].tokenHash = latest'[b]
    <3>1. \A q \in Requests : Notifying(q, latest[b])' => q # r /\ Notifying(q, latest[b])
      BY <2>1 DEF Notifying, At
    <3>2. b \notin dropped /\ b[2] \in users
      BY <2>2, <3>1
    <3>3. table[b] # None /\ table[b].tokenHash = latest[b]
      BY <2>2, <3>1, <3>2 DEF IInv, Standing
    <3>4. QED BY <3>2, <3>3
  <2>3. QED BY <2>1, <2>2 DEF IInv, Standing, At
<1>7. QED
  BY <1>2, <1>3, <1>4, <1>5, <1>6 DEF IInv

LEMMA RequestWithdrawStep ==
  ASSUME IInv, NEW r \in Requests, RequestWithdraw(r)
  PROVE  IInv'
<1> DEFINE dropped == IF MatchesIssue(r) THEN {Account(r)} ELSE {}
<1>1. At(r, "request.withdraw") /\ Account(r) \in Accounts /\ table \in [Accounts -> Row \cup {None}]
  BY DEF RequestWithdraw, IInv, TypeOK, Locals, At, Account
<1>2. table' = [a \in Accounts |-> IF a \in dropped THEN None ELSE table[a]]
  BY <1>1 DEF RequestWithdraw
<1>3. ASSUME NEW q \in Requests \ {r}, At(q, "confirm.grant") PROVE Account(q) \notin dropped
  <2>1. SUFFICES ASSUME MatchesIssue(r), Account(q) = Account(r) PROVE FALSE
    OBVIOUS
  <2>2. held[q] = {req[r].row}
    BY <1>3, <2>1 DEF IInv, Holds, Pinned, MatchesIssue, At
  <2>3. Needs(r) = {req[r].row}
    BY <1>1, <2>1 DEF Needs, At
  <2>4. QED BY <2>2, <2>3 DEF RequestWithdraw, Blockers
<1>4. ASSUME NEW a \in dropped, a[2] \in users
      PROVE  mail[latest[a]] # "sent" /\ \A q \in Requests \ {r} : ~Notifying(q, latest[a])
  <2>1. a = Account(r) /\ table[a].tokenHash = req[r].hash /\ req[r].hash \in issued
    BY <1>1, <1>4 DEF MatchesIssue, IInv, Locals, At
  <2>2. CASE latest[a] = req[r].hash
    <3>1. mail[latest[a]] # "sent"
      BY <1>1, <2>2 DEF IInv, Standing
    <3>2. \A q \in Requests \ {r} : ~Notifying(q, latest[a])
      BY <1>1, <2>2 DEF IInv, Standing, Notifying, At
    <3>3. QED BY <3>1, <3>2
  <2>3. CASE latest[a] # req[r].hash
    BY <1>1, <1>4, <2>1, <2>3 DEF IInv, TypeOK, TablesOK, Standing, MatchesIssue
  <2>4. QED BY <2>2, <2>3
<1>5. Answer(r) /\ UNCHANGED <<users, granted, latest, issued, mail>> /\ dropped \in SUBSET Accounts
  BY <1>1 DEF RequestWithdraw
<1> HIDE DEF dropped
<1>6. QED
  BY <1>2, <1>3, <1>4, <1>5, DropStep

LEMMA AccountCommitStep ==
  ASSUME IInv, NEW r \in Requests, AccountCommit(r)
  PROVE  IInv'
<1> DEFINE dropped == {a \in Accounts : a[2] = Owner(r)}
<1>1. table' = [a \in Accounts |-> IF a \in dropped THEN None ELSE table[a]]
  BY DEF AccountCommit
<1>2. ASSUME NEW q \in Requests \ {r}, At(q, "confirm.grant") PROVE Account(q) \notin dropped
  <2>1. SUFFICES ASSUME Account(q)[2] = Owner(r) PROVE FALSE
    OBVIOUS
  <2>2. Account(q) \in Accounts /\ table[Account(q)] # None /\ table[Account(q)].id = req[q].row
        /\ held[q] = {req[q].row}
    BY <1>2 DEF IInv, Locals, Holds, Pinned, At, Account
  <2>3. req[q].row \in RowsOf(Owner(r))
    BY <2>1, <2>2 DEF RowsOf
  <2>4. Needs(r) = RowsOf(Owner(r))
    BY DEF AccountCommit, Needs, At
  <2>5. QED BY <2>2, <2>3, <2>4 DEF AccountCommit, Blockers
<1>3. /\ Answer(r) /\ UNCHANGED <<granted, latest, issued, mail>> /\ dropped \in SUBSET Accounts
      /\ users' \subseteq users
      /\ \A a \in Accounts : a[2] \in users \ users' => a \in dropped
      /\ \A a \in dropped : a[2] \notin users'
  BY DEF AccountCommit
<1> HIDE DEF dropped
<1>4. QED
  BY <1>1, <1>2, <1>3, DropStep

(* A row is unused when it is consumed, so its token was never consumed. *)
LEMMA ConfirmGrantStep ==
  ASSUME IInv, NEW r \in Requests, ConfirmGrant(r)
  PROVE  IInv'
<1>1. /\ table \in [Accounts -> Row \cup {None}]
      /\ granted \in [Accounts -> Seq([presented : issued, consumed : issued])]
      /\ Answer(r) /\ UNCHANGED <<users, latest, issued, mail>>
  BY DEF ConfirmGrant, IInv, TypeOK
<1>2. PICK a \in Accounts : a = Account(r)
  BY DEF ConfirmGrant, IInv, Locals, At, Account
<1>3. table[a] # None /\ ~table[a].used /\ table[a].tokenHash \in issued /\ req[r].hash \in issued
  BY <1>2 DEF ConfirmGrant, IInv, Pinned, Locals, TablesOK, At
<1>4. PICK row \in Row : row = [table[a] EXCEPT !.used = TRUE]
  BY <1>1, <1>3 DEF Row
<1>5. /\ row.id = table[a].id /\ row.tokenHash = table[a].tokenHash /\ row.used = TRUE
      /\ row.expired = table[a].expired
  BY <1>1, <1>3, <1>4 DEF Row
<1>6. table' = [table EXCEPT ![a] = row] /\ table'[a] = row /\ \A b \in Accounts \ {a} : table'[b] = table[b]
  BY <1>1, <1>2, <1>4 DEF ConfirmGrant
<1>7. PICK e : e = [presented |-> req[r].hash, consumed |-> table[a].tokenHash]
  OBVIOUS
<1>8. e \in [presented : issued, consumed : issued] /\ e.consumed = table[a].tokenHash
  BY <1>3, <1>7
<1>9. granted' = [granted EXCEPT ![a] = Append(granted[a], e)]
  BY <1>2, <1>7 DEF ConfirmGrant
<1>10. /\ req' = [req EXCEPT ![r] = Idle] /\ held' = [held EXCEPT ![r] = {}]
       /\ req'[r] = Idle /\ held'[r] = {} /\ \A q \in Requests \ {r} : req'[q] = req[q]
  BY <1>1 DEF Answer, IInv, TypeOK
<1>11. TypeOK'
  <2>1. granted' \in [Accounts -> Seq([presented : issued, consumed : issued])]
    <3> DEFINE G == [presented : issued, consumed : issued]
    <3>1. granted \in [Accounts -> Seq(G)] /\ e \in G
      BY <1>1, <1>8
    <3> HIDE DEF G
    <3>2. granted' \in [Accounts -> Seq(G)]
      BY <1>9, <3>1
    <3>3. QED BY <3>2 DEF G
  <2>2. table' \in [Accounts -> Row \cup {None}] /\ \A b \in Accounts : table'[b] # None => b[2] \in users'
    BY <1>1, <1>3, <1>6 DEF IInv, TypeOK
  <2>3. QED BY <1>1, <1>10, <2>1, <2>2, IdleIsRequest DEF IInv, TypeOK
<1>12. LocksExclusive' /\ \A q \in Requests \ {r} : (Locals(q) /\ Holds(q) /\ Pinned(q))'
  <2>1. ASSUME NEW q \in Requests \ {r}, At(q, "confirm.grant")
        PROVE  /\ table'[Account(q)] # None
               /\ table'[Account(q)].id = table[Account(q)].id
               /\ table'[Account(q)].used = table[Account(q)].used
    <3>1. Account(q) \in Accounts /\ table[Account(q)] # None
      BY <2>1 DEF IInv, Locals, Pinned, At, Account
    <3>2. held[q] = {table[Account(q)].id} /\ held[r] = {table[a].id}
      BY <1>2, <2>1 DEF ConfirmGrant, IInv, Holds, Pinned, At
    <3>3. Account(q) # a
      BY <3>2 DEF IInv, LocksExclusive
    <3>4. QED BY <1>6, <3>1, <3>3
  <2>2. \A q \in Requests \ {r} : {} \cap held[q] = {}
    OBVIOUS
  <2>3. QED BY <1>1, <1>10, <2>1, <2>2, OthersKept
<1>13. (Locals(r) /\ Holds(r) /\ Pinned(r))'
  BY <1>10, IdleIsRequest DEF Locals, Holds, Pinned, At
<1>14. ASSUME NEW i \in DOMAIN granted'[a]
       PROVE  \/ i \in DOMAIN granted[a] /\ granted'[a][i] = granted[a][i]
              \/ i = Len(granted[a]) + 1 /\ granted'[a][i] = e
  <2> DEFINE G == [presented : issued, consumed : issued]
  <2>1. granted[a] \in Seq(G) /\ e \in G /\ granted'[a] = Append(granted[a], e)
    BY <1>1, <1>8, <1>9
  <2> HIDE DEF G
  <2>2. QED BY <1>14, <2>1
<1>15. \A b \in Accounts \ {a} : granted'[b] = granted[b]
  BY <1>1, <1>9
<1>16. TablesOK'
  <2>1. ASSUME NEW b \in Accounts, table'[b] # None
        PROVE  /\ table'[b].id \in issued' /\ table'[b].tokenHash \in issued' /\ latest'[b] # None
               /\ ~table'[b].used =>
                    \A i \in DOMAIN granted'[b] : granted'[b][i].consumed # table'[b].tokenHash
    <3>1. CASE b = a
      BY <1>1, <1>3, <1>5, <1>6, <3>1 DEF IInv, TablesOK
    <3>2. CASE b # a
      BY <1>1, <1>6, <1>15, <2>1, <3>2 DEF IInv, TablesOK
    <3>3. QED BY <3>1, <3>2
  <2>2. QED BY <1>1, <2>1 DEF IInv, TablesOK
<1>17. OneGrantPerIssue'
  <2>1. \A i \in DOMAIN granted[a] : granted[a][i].consumed # e.consumed
    BY <1>3, <1>8 DEF IInv, TablesOK
  <2>2. ASSUME NEW b \in Accounts, NEW i \in DOMAIN granted'[b], NEW j \in DOMAIN granted'[b],
               granted'[b][i].consumed = granted'[b][j].consumed
        PROVE  i = j
    <3>1. CASE b = a
      BY <1>14, <2>1, <2>2, <3>1 DEF IInv, OneGrantPerIssue
    <3>2. CASE b # a
      BY <1>15, <2>2, <3>2 DEF IInv, OneGrantPerIssue
    <3>3. QED BY <3>1, <3>2
  <2>3. QED BY <2>2 DEF OneGrantPerIssue
<1>18. Standing'
  <2>1. \A q \in Requests : req'[q].pc \in {"request.notify", "request.withdraw"} => q # r /\ req'[q] = req[q]
    BY <1>10, IdleIsRequest
  <2>2. ASSUME NEW b \in Accounts, latest'[b] # None, b[2] \in users',
               mail'[latest'[b]] = "sent" \/ \E q \in Requests : Notifying(q, latest[b])'
        PROVE  table'[b] # None /\ table'[b].tokenHash = latest'[b]
    <3>1. \A q \in Requests : Notifying(q, latest[b])' => Notifying(q, latest[b])
      BY <1>1, <2>1 DEF Notifying, At
    <3>2. table[b] # None /\ table[b].tokenHash = latest[b]
      BY <1>1, <2>2, <3>1 DEF IInv, Standing
    <3>3. QED BY <1>1, <1>3, <1>5, <1>6, <3>2
  <2>3. QED BY <1>1, <2>1, <2>2 DEF IInv, Standing, At
<1>19. QED
  BY <1>11, <1>12, <1>13, <1>16, <1>17, <1>18 DEF IInv

LEMMA ExpireStep ==
  ASSUME IInv, NEW a \in Accounts, Expire(a)
  PROVE  IInv'
<1>1. table[a] \in Row /\ table[a] # None /\ table \in [Accounts -> Row \cup {None}]
      /\ UNCHANGED <<users, granted, latest, issued, mail, req, held>>
  BY DEF Expire, IInv, TypeOK
<1>2. PICK row \in Row : row = [table[a] EXCEPT !.expired = TRUE]
  BY <1>1 DEF Row
<1>3. row.id = table[a].id /\ row.tokenHash = table[a].tokenHash /\ row.used = table[a].used
  BY <1>1, <1>2 DEF Row
<1>4. table' = [table EXCEPT ![a] = row] /\ table'[a] = row /\ row # None
      /\ \A b \in Accounts \ {a} : table'[b] = table[b]
  BY <1>1, <1>2 DEF Expire
<1>5. TypeOK'
  BY <1>1, <1>4 DEF IInv, TypeOK
<1>6. \A b \in Accounts : /\ table'[b] # None <=> table[b] # None
                         /\ table'[b].id = table[b].id /\ table'[b].used = table[b].used
                         /\ table'[b].tokenHash = table[b].tokenHash
  BY <1>1, <1>3, <1>4
<1>7. TablesOK' /\ OneGrantPerIssue' /\ LocksExclusive'
  BY <1>1, <1>6 DEF IInv, TablesOK, OneGrantPerIssue, LocksExclusive
<1>8. Standing'
  BY <1>1, <1>6 DEF IInv, Standing, Notifying, At
<1>9. ASSUME NEW q \in Requests PROVE (Locals(q) /\ Holds(q) /\ Pinned(q))'
  <2>1. Locals(q) /\ Holds(q) /\ Pinned(q)
    BY DEF IInv
  <2>2. Locals(q)' /\ Holds(q)'
    BY <1>1, <2>1 DEF Locals, Holds, At, Owner
  <2>3. Pinned(q)'
    BY <1>1, <1>6, <2>1 DEF Locals, Pinned, At, Account
  <2>4. QED BY <2>2, <2>3
<1>10. QED
  BY <1>5, <1>7, <1>8, <1>9 DEF IInv

LEMMA NextStep == IInv /\ [Next]_vars => IInv'
<1> SUFFICES ASSUME IInv, [Next]_vars PROVE IInv'
  OBVIOUS
<1>1. CASE UNCHANGED vars
  <2> USE <1>1 DEF vars
  <2>1. TypeOK' /\ LocksExclusive'
    BY DEF IInv, TypeOK, LocksExclusive
  <2>2. TablesOK' /\ OneGrantPerIssue' /\ Standing'
    BY DEF IInv, TablesOK, OneGrantPerIssue, Standing, Notifying, At
  <2>3. \A r \in Requests : (Locals(r) /\ Holds(r) /\ Pinned(r))'
    BY DEF IInv, Locals, Holds, Pinned, At, Owner, Account
  <2>4. QED BY <2>1, <2>2, <2>3 DEF IInv
<1>2. ASSUME NEW r \in Requests, Statement(r) PROVE IInv'
  BY <1>2, RequestReadStep, RequestSaveStep, RequestNotifyStep, RequestWithdrawStep, ConfirmReadStep,
     ConfirmConsumeStep, ConfirmGrantStep, AccountLockStep, AccountCommitStep DEF Statement
<1>3. ASSUME NEW r \in Requests, Abort(r) PROVE IInv'
  BY <1>3, RejectStep DEF Abort
<1>4. QED
  BY <1>1, <1>2, <1>3, StartStep, ExpireStep DEF Next

(* The inductive invariant: a row about to be consumed is unused, an unused *)
(* row's token was never consumed, and a sent token is nobody's to withdraw.*)
THEOREM Invariance == Spec => []IInv
  BY InitIInv, NextStep, PTL DEF Spec

(* Every variable keeps its type: the rows, the log of confirmations, and   *)
(* what a request carries across its awaits.                                *)
THEOREM TypeCorrect == Spec => []TypeOK
<1>1. IInv => TypeOK
  BY DEF IInv
<1>2. QED
  BY <1>1, Invariance, PTL

(* What a row holds is consumed once, also by concurrent confirmations.     *)
THEOREM GrantedOnce == Spec => []OneGrantPerIssue
<1>1. IInv => OneGrantPerIssue
  BY DEF IInv
<1>2. QED
  BY <1>1, Invariance, PTL

(* The last token issued stays in its row once its mail is reported sent.   *)
THEOREM SentTokenStands == Spec => []LastIssuedStands
<1>1. IInv => LastIssuedStands
  BY DEF IInv, Standing, LastIssuedStands
<1>2. QED
  BY <1>1, Invariance, PTL

-----------------------------------------------------------------------------
(* What one step may do to an account and its token. *)

Consumes(a) ==
  /\ table[a] # None /\ table'[a] # None
  /\ ~table[a].used /\ table'[a].used
  /\ table'[a].tokenHash = table[a].tokenHash

LEMMA GrantEffect ==
  ASSUME IInv, NEW r \in Requests, ConfirmGrant(r), NEW a \in Accounts
  PROVE  granted'[a] # granted[a] <=> Consumes(a)
<1>1. /\ table \in [Accounts -> Row \cup {None}]
      /\ granted \in [Accounts -> Seq([presented : issued, consumed : issued])]
  BY DEF IInv, TypeOK
<1>2. /\ Account(r) \in Accounts
      /\ table[Account(r)] # None /\ ~table[Account(r)].used
  BY DEF ConfirmGrant, IInv, Pinned, Locals, At, Account
<1>3. CASE a = Account(r)
  <2>1. PICK row \in Row : row = [table[a] EXCEPT !.used = TRUE]
    BY <1>1, <1>2, <1>3 DEF Row
  <2>2. row.used = TRUE /\ row.tokenHash = table[a].tokenHash /\ row # None
    BY <1>1, <1>2, <1>3, <2>1 DEF Row
  <2>3. table'[a] = row
    BY <1>1, <1>3, <2>1 DEF ConfirmGrant
  <2>4. Consumes(a)
    BY <1>2, <1>3, <2>2, <2>3 DEF Consumes
  <2>5. PICK e : granted'[a] = Append(granted[a], e)
    BY <1>1, <1>3 DEF ConfirmGrant
  <2>6. Len(granted'[a]) = Len(granted[a]) + 1 /\ Len(granted[a]) \in Nat
    <3>1. PICK G : G = [presented : issued, consumed : issued] /\ granted[a] \in Seq(G)
      BY <1>1
    <3>2. QED BY <2>5, <3>1
  <2>7. QED BY <2>4, <2>6
<1>4. CASE a # Account(r)
  BY <1>1, <1>4 DEF ConfirmGrant, Consumes
<1>5. QED
  BY <1>3, <1>4

LEMMA EffectStep ==
  ASSUME IInv, [Next]_vars, NEW a \in Accounts
  PROVE  granted'[a] # granted[a] <=> Consumes(a)
<1>1. table \in [Accounts -> Row \cup {None}]
  BY DEF IInv, TypeOK
<1>2. CASE UNCHANGED tables
  BY <1>2 DEF tables, Consumes
<1>3. ASSUME NEW r \in Requests, RequestSave(r) PROVE granted'[a] # granted[a] <=> Consumes(a)
  <2>1. CASE Reject(r)
    BY <1>2, <2>1 DEF Reject
  <2>2. ASSUME NEW h, table' = [table EXCEPT ![Account(r)] = Upserted(@, h)], granted' = granted
        PROVE  ~Consumes(a)
    <3>1. Upserted(table[a], h).used = FALSE
      BY DEF Upserted
    <3>2. QED BY <1>1, <2>2, <3>1 DEF Consumes
  <2>3. QED BY <1>3, <2>1, <2>2 DEF RequestSave
<1>4. ASSUME NEW r \in Requests, RequestWithdraw(r) \/ AccountCommit(r)
      PROVE  granted'[a] # granted[a] <=> Consumes(a)
  <2>1. table'[a] \in {table[a], None} /\ granted' = granted
    BY <1>1, <1>4 DEF RequestWithdraw, AccountCommit
  <2>2. QED BY <2>1 DEF Consumes
<1>5. ASSUME NEW b \in Accounts, Expire(b) PROVE granted'[a] # granted[a] <=> Consumes(a)
  <2>1. table[b] \in Row /\ granted' = granted
    BY <1>1, <1>5 DEF Expire
  <2>2. PICK row : row = [table[b] EXCEPT !.expired = TRUE]
    OBVIOUS
  <2>3. row.used = table[b].used
    BY <2>1, <2>2 DEF Row
  <2>4. table'[a] = IF a = b THEN row ELSE table[a]
    BY <1>1, <1>5, <2>2 DEF Expire
  <2>5. QED BY <2>1, <2>3, <2>4 DEF Consumes
<1>6. ASSUME NEW r \in Requests, Start(r) \/ RequestRead(r) \/ RequestNotify(r) \/ ConfirmRead(r)
                              \/ ConfirmConsume(r) \/ AccountLock(r) \/ Abort(r)
      PROVE  UNCHANGED tables
  BY <1>6 DEF Start, StartRequest, StartConfirm, StartDeleteMe, Begin, RequestRead, RequestNotify, ConfirmRead,
     ConfirmConsume, AccountLock, Abort, Continue, Lock, Reject, tables
<1>7. QED
  BY <1>2, <1>3, <1>4, <1>5, <1>6, GrantEffect DEF Next, Statement, vars, tables

(* An account changes in the very commit that consumes a token of it, and   *)
(* no token is consumed without its effect.                                 *)
THEOREM ConsumedWithEffect == Spec => ConsumedWithItsEffect
<1>1. IInv /\ [Next]_vars
      => [\A a \in Accounts :
            granted'[a] # granted[a] <=>
              /\ table[a] # None /\ table'[a] # None
              /\ ~table[a].used /\ table'[a].used
              /\ table'[a].tokenHash = table[a].tokenHash]_vars
  BY EffectStep DEF Consumes
<1>2. QED
  BY <1>1, Invariance, PTL DEF Spec, ConsumedWithItsEffect
=============================================================================
