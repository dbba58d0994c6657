--------------------------- MODULE BrowserSessions ---------------------------
(***************************************************************************)
(* The client's side of a login session: browsers that keep the current    *)
(* refresh token in a cookie, exchanges that overlap, and answers that are *)
(* late or never arrive.                                                   *)
(*                                                                         *)
(* The table of tokens is Sessions, which RefreshSessions implements with  *)
(* its SQL statements.  A handler is one step per await that matters here: *)
(* what it read may be stale when it rotates, and an UPDATE that revokes   *)
(* picks its rows (Scan) before it writes them (Write).  All browsers are  *)
(* signed in to one account; accounts share nothing.                       *)
(***************************************************************************)
EXTENDS Naturals, FiniteSets

CONSTANTS
  Browsers,   (* Cookie jars.                                              *)
  Exchanges,  (* Requests on their way at the same time.  A bound.         *)
  Families,   (* familyIds.  A bound.                                      *)
  Tokens,     (* Refresh tokens in the order they are issued.  A bound.    *)
  Unopened, Ended,
  Keep, Clear,  (* What an answer does to the cookie, if it sets no token.  *)
  None        (* No cookie, no value.                                      *)

ASSUME TokensOrdered == Tokens \subseteq Nat \ {0}

ASSUME NoTokens == {Unopened, Ended, Keep, Clear, None} \cap Tokens = {} /\ Keep # Clear

ASSUME NoFamilies == Families \cap (Tokens \cup {None}) = {} /\ Unopened # Ended

VARIABLES
  accepted, spent,  (* The sessions, see Sessions.                         *)
  account,   (* Whether the account exists.                                *)
  familyOf,  (* The session each token was issued for.                     *)
  jar,       (* The refreshToken cookie of each browser.                   *)
  bearer,    (* Browsers that were given an access token.                  *)
  newest,    (* The newest token of each session that has arrived.         *)
  exchange   (* What happens to each request.                              *)

Server == INSTANCE Sessions

vars == <<accepted, spent, account, familyOf, jar, bearer, newest, exchange>>

sessions == <<accepted, spent, account, familyOf>>

client == <<jar, bearer, newest>>

BearerOperations == {"logoutAll", "logoutSession", "deleteMe"}

Operations == BearerOperations \cup {"login", "refresh", "logout"}

Idle ==
  [pc |-> "idle", op |-> None, browser |-> None, presented |-> None, target |-> None,
   seen |-> {}, cookie |-> Keep, alone |-> FALSE]

Exchange ==
  [pc : {"idle", "sent", "rotate", "scan", "write", "answered"}, op : Operations \cup {None},
   browser : Browsers \cup {None}, presented : Tokens \cup {None},
   target : Families \cup Tokens \cup {None}, seen : SUBSET Tokens,
   cookie : Tokens \cup {Keep, Clear}, alone : BOOLEAN]

TypeOK ==
  /\ accepted \in [Families -> Tokens \cup {Unopened, Ended}] /\ spent \subseteq Tokens
  /\ account \in BOOLEAN
  /\ familyOf \in [Tokens -> Families \cup {None}]
  /\ {t \in Tokens : familyOf[t] # None} = spent
  /\ newest \in [Families -> spent \cup {0}]
  /\ jar \in [Browsers -> spent \cup {None}] /\ bearer \subseteq Browsers
  /\ exchange \in [Exchanges -> Exchange]
  /\ \A x \in Exchanges : exchange[x].pc = "idle" => exchange[x] = Idle

Init ==
  /\ Server!Init
  /\ account = TRUE
  /\ familyOf = [t \in Tokens |-> None]
  /\ bearer = {} /\ newest = [f \in Families |-> 0]
  /\ jar = [b \in Browsers |-> None]
  /\ exchange = [x \in Exchanges |-> Idle]

-----------------------------------------------------------------------------
(* The browser. *)

At(x, pc) == exchange[x].pc = pc

Is(x, op) == At(x, "sent") /\ exchange[x].op = op

(* Exchanges of the browser that are not over; alone is whether there has
   been another since this one was sent. *)
Pending(b) == {y \in Exchanges : ~At(y, "idle") /\ exchange[y].browser = b}

(* Path /auth sends the cookie with every one of these requests; refresh and
   logout read it. *)
Send(x, b, op, f) ==
  /\ At(x, "idle")
  /\ op \in BearerOperations => b \in bearer
  /\ op = "logoutSession" <=> f # None
  /\ exchange' = [y \in Exchanges |->
       IF y = x
       THEN [Idle EXCEPT !.pc = "sent", !.op = op, !.browser = b, !.target = f,
                         !.presented = IF op \in {"refresh", "logout"} THEN jar[b] ELSE None,
                         !.alone = Pending(b) = {}]
       ELSE IF y \in Pending(b) THEN [exchange[y] EXCEPT !.alone = FALSE] ELSE exchange[y]]
  /\ UNCHANGED <<sessions, client>>

(* Mutant: the new cookie has another path, the old one stays in front. *)
DeliverShadowed(x) ==
  LET b == exchange[x].browser
      cookie == exchange[x].cookie IN
  /\ At(x, "answered")
  /\ exchange' = [exchange EXCEPT ![x] = Idle]
  /\ jar' = [jar EXCEPT ![b] = CASE cookie = Clear -> None
                                 [] cookie \in Tokens /\ @ = None -> cookie
                                 [] OTHER -> @]
  /\ bearer' = IF cookie \in Tokens THEN bearer \cup {b} ELSE bearer
  /\ newest' = [f \in Families |-> IF cookie \in Tokens /\ familyOf[cookie] = f
                                   THEN cookie ELSE newest[f]]
  /\ UNCHANGED sessions

(* The answer arrives: a token comes with an access token. *)
Deliver(x) ==
  LET b == exchange[x].browser
      cookie == exchange[x].cookie IN
  /\ At(x, "answered")
  /\ exchange' = [exchange EXCEPT ![x] = Idle]
  /\ jar' = [jar EXCEPT ![b] = CASE cookie = Keep -> @
                                 [] cookie = Clear -> None
                                 [] OTHER -> cookie]
  /\ bearer' = IF cookie \in Tokens THEN bearer \cup {b} ELSE bearer
  /\ newest' = [f \in Families |->
       IF cookie \in Tokens /\ familyOf[cookie] = f /\ newest[f] < cookie
       THEN cookie ELSE newest[f]]
  /\ UNCHANGED sessions

(* The answer is lost, or the browser has stopped waiting for it. *)
Lose(x) ==
  /\ At(x, "answered")
  /\ exchange' = [exchange EXCEPT ![x] = Idle]
  /\ UNCHANGED <<sessions, client>>

(* Max-Age passes, or the user clears the site's data. *)
Forget(b) ==
  /\ jar[b] # None
  /\ jar' = [jar EXCEPT ![b] = None]
  /\ bearer' = bearer \ {b}
  /\ UNCHANGED <<sessions, newest, exchange>>

-----------------------------------------------------------------------------
(* The handlers. *)

Answer(x, cookie) ==
  exchange' = [exchange EXCEPT ![x] = [Idle EXCEPT !.pc = "answered", !.cookie = cookie,
                                                   !.browser = exchange[x].browser]]

Continue(x, pc, target) ==
  /\ exchange' = [exchange EXCEPT ![x].pc = pc, ![x].target = target]
  /\ UNCHANGED sessions

NextToken(t) == t \in Tokens \ spent /\ \A k \in Tokens \ spent : t <= k

(* A row of the table that is there: an account's deletion takes them all. *)
Exists(t) == t # None /\ account

Active(t) == familyOf[t] # None /\ accepted[familyOf[t]] = t

(* Mutant: the new row is not awaited. *)
LoginUnrecorded(x) ==
  /\ Is(x, "login") /\ account
  /\ \E f \in Families, t \in Tokens :
       NextToken(t) /\ Server!Open(f, t) /\ Answer(x, t)
  /\ UNCHANGED <<account, familyOf, client>>

(* signup, login and the signup of an invited user end alike. *)
Login(x) ==
  /\ Is(x, "login") /\ account
  /\ \E f \in Families, t \in Tokens :
       /\ NextToken(t) /\ Server!Open(f, t)
       /\ familyOf' = [familyOf EXCEPT ![t] = f]
       /\ Answer(x, t)
  /\ UNCHANGED <<account, client>>

(* Of a valid token, whether its 14 days have passed is left open. *)
RefreshRead(x) ==
  LET t == exchange[x].presented IN
  /\ Is(x, "refresh")
  /\ \/ ~Exists(t) /\ Answer(x, Keep) /\ UNCHANGED sessions
     \/ Exists(t) /\ ~Active(t) /\ Continue(x, "scan", familyOf[t])
     \/ Exists(t) /\ Active(t) /\ (Continue(x, "scan", t) \/ Continue(x, "rotate", None))
  /\ UNCHANGED client

(* Mutant: the rotation's UPDATE does not ask for revokedAt to be null. *)
RotateAny(x) ==
  LET f == familyOf[exchange[x].presented] IN
  /\ At(x, "rotate")
  /\ account /\ f \in Server!Alive
  /\ \E t \in Tokens : /\ NextToken(t) /\ Server!Renew(f, t)
                       /\ familyOf' = [familyOf EXCEPT ![t] = f]
                       /\ Answer(x, t)
  /\ UNCHANGED <<account, client>>

(* Revokes the presented token and issues the next, or finds it used. *)
Rotate(x) ==
  LET p == exchange[x].presented
      f == familyOf[p] IN
  /\ At(x, "rotate")
  /\ \/ /\ Exists(p) /\ Active(p)
        /\ \E t \in Tokens : /\ NextToken(t) /\ Server!Renew(f, t)
                             /\ familyOf' = [familyOf EXCEPT ![t] = f]
                             /\ Answer(x, t)
        /\ UNCHANGED account
     \/ ~(Exists(p) /\ Active(p)) /\ Continue(x, "scan", f)
  /\ UNCHANGED client

(* Mutant: logout revokes the token of the cookie, not its family. *)
LogoutToken(x) ==
  LET t == exchange[x].presented IN
  /\ Is(x, "logout")
  /\ \/ ~Exists(t) /\ Answer(x, Clear) /\ UNCHANGED sessions
     \/ Exists(t) /\ Continue(x, "scan", t)
  /\ UNCHANGED client

(* Any token of a session ends it, the cookie goes in any case. *)
Logout(x) ==
  LET t == exchange[x].presented IN
  /\ Is(x, "logout")
  /\ \/ ~Exists(t) /\ Answer(x, Clear) /\ UNCHANGED sessions
     \/ Exists(t) /\ Continue(x, "scan", familyOf[t])
  /\ UNCHANGED client

(* One session of the list, or all, as a changed password does, too. *)
EndSessions(x) ==
  /\ At(x, "sent") /\ exchange[x].op \in {"logoutSession", "logoutAll"}
  /\ account
  /\ Continue(x, "scan", exchange[x].target)
  /\ UNCHANGED client

Scan(x) ==
  LET target == exchange[x].target IN
  /\ At(x, "scan")
  /\ exchange' = [exchange EXCEPT ![x].pc = "write", ![x].target = None,
                    ![x].seen = {t \in spent : Active(t) /\ target \in {None, t, familyOf[t]}}]
  /\ UNCHANGED <<sessions, client>>

(* What the controller does with the cookie after a revocation. *)
CookieAfter(op) == IF op \in {"refresh", "logoutSession"} THEN Keep ELSE Clear

Write(x) ==
  /\ At(x, "write")
  /\ Server!End({familyOf[t] : t \in {k \in exchange[x].seen : Active(k)}})
  /\ Answer(x, CookieAfter(exchange[x].op))
  /\ UNCHANGED <<account, familyOf, client>>

DeleteMe(x) ==
  /\ Is(x, "deleteMe") /\ account
  /\ account' = FALSE
  /\ Server!End(Server!Alive)
  /\ Answer(x, Clear)
  /\ UNCHANGED <<familyOf, client>>

(* A foreign Origin, input that does not parse, a rate limit, an access token
   past its 15 minutes, a wrong password, a failing statement, a stop. *)
Refuse(x) ==
  /\ exchange[x].pc \in {"sent", "rotate", "scan", "write"}
  /\ Answer(x, Keep)
  /\ UNCHANGED <<sessions, client>>

-----------------------------------------------------------------------------

Handle(x) ==
  \/ Login(x) \/ RefreshRead(x) \/ Rotate(x) \/ Logout(x) \/ EndSessions(x)
  \/ Scan(x) \/ Write(x) \/ DeleteMe(x) \/ Refuse(x)

Next ==
  \/ \E x \in Exchanges, b \in Browsers, op \in Operations, f \in Families \cup {None} :
       Send(x, b, op, f)
  \/ \E x \in Exchanges : Handle(x) \/ Deliver(x) \/ Lose(x)
  \/ \E b \in Browsers : Forget(b)

Spec == Init /\ [][Next]_vars
=============================================================================
