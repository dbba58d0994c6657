---------------------------- MODULE BrowserProofs ----------------------------
(***************************************************************************)
(* Proofs of BrowserProperties, for any number of browsers, exchanges,     *)
(* sessions and tokens.                                                    *)
(*                                                                         *)
(* The argument: a session lives in one browser (OneBrowser), its accepted *)
(* token is its last (LastAccepted), and a token that is still on its way  *)
(* is the last of its session, newer than any that arrived (OnTheWay): the *)
(* browser cannot present what it does not have, so nothing can succeed a  *)
(* token before it arrives.                                                *)
(***************************************************************************)
EXTENDS BrowserProperties, TLAPS

(* The tokens issued for a session. *)
TokensOf(f) == {t \in spent : familyOf[t] = f}

IssuedInOrder == \A s \in spent, t \in Tokens \ spent : s < t

(* The token that renews a session is the last one issued for it. *)
LastAccepted ==
  \A f \in Families :
    /\ accepted[f] = Unopened => TokensOf(f) = {}
    /\ accepted[f] \in Tokens =>
         accepted[f] \in TokensOf(f) /\ \A t \in TokensOf(f) : t <= accepted[f]

NewestOfFamily == \A f \in Families : newest[f] # 0 => newest[f] \in TokensOf(f)

(* An account that is gone has no session. *)
AccountOfSessions == ~account => Server!Alive = {}

(* The values an exchange carries. *)
Locals(x) ==
  LET q == exchange[x] IN
  /\ q.pc # "idle" => q.browser \in Browsers /\ (q.pc # "answered" => q.op \in Operations)
  /\ q.pc # "answered" => q.cookie = Keep
  /\ q.pc = "rotate" => q.op = "refresh" /\ q.presented # None

(* What a browser presents has arrived. *)
Arrived(x) ==
  LET p == exchange[x].presented IN
    p # None => p \in spent /\ p <= newest[familyOf[p]]

OnTheWay(x) ==
  LET t == exchange[x].cookie IN
    t \in Tokens =>
      /\ t \in spent
      /\ \A s \in TokensOf(familyOf[t]) : s <= t
      /\ newest[familyOf[t]] < t
      /\ \A y \in Exchanges \ {x} : exchange[y].cookie # t

(* The browser has a token of f, has presented one or is to be given one. *)
Carries(b, f) ==
  \/ jar[b] # None /\ familyOf[jar[b]] = f
  \/ \E x \in Exchanges :
       /\ exchange[x].browser = b
       /\ \/ exchange[x].presented # None /\ familyOf[exchange[x].presented] = f
          \/ exchange[x].cookie \in Tokens /\ familyOf[exchange[x].cookie] = f

OneBrowser ==
  \A f \in Families, b, c \in Browsers : Carries(b, f) /\ Carries(c, f) => b = c

(* No other exchange of the browser since this one was sent: what it        *)
(* presents is still the newest.                                            *)
Alone(x) ==
  exchange[x].alone =>
    /\ \A y \in Exchanges \ {x} : ~At(y, "idle") => exchange[y].browser # exchange[x].browser
    /\ LET p == exchange[x].presented IN p # None => newest[familyOf[p]] = p

(* A logout that revokes has its session's active token, or it had none.   *)
LogoutTargets(x) ==
  LET q == exchange[x] IN
  (q.op = "logout" /\ q.pc \in {"scan", "write"}) =>
    /\ q.presented # None
    /\ q.pc = "scan" => q.target = familyOf[q.presented]
    /\ q.pc = "write" =>
         /\ \A t \in q.seen : familyOf[t] = familyOf[q.presented]
         /\ q.seen = {} => accepted[familyOf[q.presented]] = Ended

ExchangeOK(x) == Locals(x) /\ Arrived(x) /\ OnTheWay(x) /\ Alone(x) /\ LogoutTargets(x)

IInv ==
  /\ TypeOK
  /\ IssuedInOrder
  /\ LastAccepted
  /\ NewestOfFamily
  /\ AccountOfSessions
  /\ CookieNeverSuperseded
  /\ OneBrowser
  /\ \A x \in Exchanges : ExchangeOK(x)

USE NoTokens, NoFamilies, TokensOrdered

-----------------------------------------------------------------------------

LEMMA IdleIsExchange ==
  /\ Idle \in Exchange /\ Idle.pc = "idle" /\ Idle.cookie = Keep /\ Idle.presented = None
  /\ ~Idle.alone /\ Idle.op = None
  BY DEF Idle, Exchange

LEMMA TokensPositive == \A t \in Tokens : t \in Nat /\ 0 < t /\ t <= t
<1>1. \A t \in Tokens : t \in Nat \ {0}
  BY Zenon
<1>2. QED BY <1>1

(* Tokens that were issued, and where they are. *)
LEMMA TokenFacts ==
  ASSUME IInv
  PROVE  /\ spent \subseteq Tokens /\ spent \subseteq Nat
         /\ \A t \in Tokens : t \in spent <=> familyOf[t] # None
         /\ \A t \in spent : familyOf[t] \in Families
         /\ \A b \in Browsers : jar[b] # None => jar[b] \in spent
         /\ \A f \in Families : newest[f] \in Nat /\ newest[f] \in spent \cup {0}
<1>1. TypeOK
  BY DEF IInv
<1>2. spent \subseteq Tokens /\ spent \subseteq Nat
  BY <1>1 DEF TypeOK
<1>3. \A t \in Tokens : t \in spent <=> familyOf[t] # None
  BY <1>1 DEF TypeOK
<1>4. \A t \in Tokens : familyOf[t] \in Families \cup {None}
  BY <1>1 DEF TypeOK
<1>5. \A b \in Browsers : jar[b] \in spent \cup {None}
  BY <1>1 DEF TypeOK
<1>6. \A f \in Families : newest[f] \in spent \cup {0}
  BY <1>1 DEF TypeOK
<1>7. \A t \in spent : familyOf[t] \in Families
  BY <1>2, <1>3, <1>4
<1>8. \A b \in Browsers : jar[b] # None => jar[b] \in spent
  BY <1>5
<1>9. \A f \in Families : newest[f] \in Nat
  <2>1. SUFFICES ASSUME NEW f \in Families PROVE newest[f] \in Nat
    OBVIOUS
  <2>2. newest[f] = 0 \/ newest[f] \in spent
    BY <1>6
  <2>3. CASE newest[f] = 0
    BY <2>3
  <2>4. CASE newest[f] \in spent
    BY <1>2, <2>4, Zenon
  <2>5. QED BY <2>2, <2>3, <2>4
<1>10. QED BY <1>2, <1>3, <1>6, <1>7, <1>8, <1>9

LEMMA OwnExchange ==
  ASSUME IInv, NEW x \in Exchanges
  PROVE  exchange[x] \in Exchange /\ ExchangeOK(x)
  BY DEF IInv, TypeOK

LEMMA InitIInv == Init => IInv
<1> SUFFICES ASSUME Init PROVE IInv
  OBVIOUS
<1>1. /\ accepted = [f \in Families |-> Unopened] /\ spent = {} /\ account = TRUE
      /\ familyOf = [t \in Tokens |-> None] /\ bearer = {} /\ newest = [f \in Families |-> 0]
      /\ jar = [b \in Browsers |-> None] /\ exchange = [x \in Exchanges |-> Idle]
  BY DEF Init, Server!Init
<1>2. TypeOK
  BY <1>1, IdleIsExchange DEF TypeOK
<1>3. IssuedInOrder /\ LastAccepted /\ NewestOfFamily /\ AccountOfSessions
  BY <1>1 DEF IssuedInOrder, LastAccepted, NewestOfFamily, AccountOfSessions, TokensOf
<1>4. CookieNeverSuperseded
  BY <1>1 DEF CookieNeverSuperseded
<1>5. OneBrowser
  BY <1>1, IdleIsExchange DEF OneBrowser, Carries
<1>6. \A x \in Exchanges : ExchangeOK(x)
  BY <1>1, IdleIsExchange DEF ExchangeOK, Locals, Arrived, OnTheWay, Alone, LogoutTargets
<1>7. QED BY <1>2, <1>3, <1>4, <1>5, <1>6 DEF IInv

-----------------------------------------------------------------------------
(* What a step leaves to the exchanges that do not take it. *)

(* Tokens keep their session, and what has ended stays ended. *)
Evolves ==
  /\ spent \subseteq spent'
  /\ \A t \in spent : familyOf'[t] = familyOf[t]
  /\ \A f \in Families : accepted[f] = Ended => accepted'[f] = Ended

LEMMA QuietEvolves ==
  ASSUME UNCHANGED sessions
  PROVE  Evolves /\ \A f : TokensOf(f)' = TokensOf(f)
  BY DEF sessions, Evolves, TokensOf

(* No exchange begins. *)
NoneSent ==
  \A z \in Exchanges : exchange'[z].pc # "idle" =>
    exchange[z].pc # "idle" /\ exchange'[z].browser = exchange[z].browser

LEMMA OtherKept ==
  ASSUME IInv, NEW y \in Exchanges, exchange'[y] = exchange[y], Evolves, NoneSent,
         newest' = newest,
         exchange[y].cookie \in Tokens =>
           /\ TokensOf(familyOf[exchange[y].cookie])' = TokensOf(familyOf[exchange[y].cookie])
           /\ \A z \in Exchanges \ {y} : exchange'[z].cookie # exchange[y].cookie
  PROVE  ExchangeOK(y)'
<1>1. ExchangeOK(y) /\ exchange[y] \in Exchange
  BY OwnExchange
<1>2. Locals(y)'
  BY <1>1 DEF ExchangeOK, Locals
<1>3. Arrived(y)'
  BY <1>1 DEF ExchangeOK, Arrived, Evolves
<1>4. OnTheWay(y)'
  BY <1>1 DEF ExchangeOK, OnTheWay, Evolves
<1>5. Alone(y)'
  <2>1. exchange[y].presented # None => familyOf'[exchange[y].presented] = familyOf[exchange[y].presented]
    BY <1>1 DEF ExchangeOK, Arrived, Evolves
  <2>2. QED BY <1>1, <2>1 DEF ExchangeOK, Alone, NoneSent, At
<1>6. LogoutTargets(y)'
  <2>1. SUFFICES ASSUME exchange[y].op = "logout", exchange[y].pc \in {"scan", "write"}
                 PROVE  LogoutTargets(y)'
    BY DEF LogoutTargets
  <2>2. /\ exchange[y].presented \in spent /\ exchange[y].presented # None
        /\ familyOf[exchange[y].presented] \in Families
        /\ familyOf'[exchange[y].presented] = familyOf[exchange[y].presented]
    BY <1>1, <2>1, TokenFacts DEF ExchangeOK, LogoutTargets, Arrived, Evolves
  <2>3. exchange[y].pc = "write" => \A t \in exchange[y].seen : familyOf'[t] = familyOf[t]
    <3>1. exchange[y].seen \subseteq Tokens
      BY <1>1 DEF Exchange
    <3>2. exchange[y].pc = "write" =>
            \A t \in exchange[y].seen : familyOf[t] = familyOf[exchange[y].presented]
      BY <1>1, <2>1 DEF ExchangeOK, LogoutTargets
    <3>3. exchange[y].pc = "write" => \A t \in exchange[y].seen : t \in spent
      BY <2>2, <3>1, <3>2, TokenFacts
    <3>4. QED BY <3>3 DEF Evolves
  <2>4. QED BY <1>1, <2>1, <2>2, <2>3 DEF ExchangeOK, LogoutTargets, Evolves
<1>7. QED BY <1>2, <1>3, <1>4, <1>5, <1>6 DEF ExchangeOK

(* A step that lets no browser carry another session keeps OneBrowser. *)
LEMMA CarriedAsBefore ==
  ASSUME OneBrowser, \A f \in Families, b \in Browsers : Carries(b, f)' => Carries(b, f)
  PROVE  OneBrowser'
  BY DEF OneBrowser

(* A step of x that neither reaches the server's tables nor the browsers.   *)
LEMMA QuietStep ==
  ASSUME IInv, NEW x \in Exchanges, NEW X \in Exchange,
         exchange' = [exchange EXCEPT ![x] = X], UNCHANGED <<sessions, client>>,
         X.pc # "idle" => exchange[x].pc # "idle" /\ X.browser = exchange[x].browser,
         X.pc = "idle" => X = Idle,
         X.presented = None \/ (X.presented = exchange[x].presented /\ X.browser = exchange[x].browser),
         X.cookie \notin Tokens,
         X.alone => exchange[x].alone /\ X.browser = exchange[x].browser,
         Locals(x)', LogoutTargets(x)'
  PROVE  IInv'
<1>1. exchange'[x] = X /\ \A y \in Exchanges \ {x} : exchange'[y] = exchange[y]
  BY DEF IInv, TypeOK
<1>2. UNCHANGED <<accepted, spent, account, familyOf, jar, bearer, newest>>
  BY DEF sessions, client
<1>3. TypeOK'
  BY <1>1, <1>2 DEF IInv, TypeOK
<1>4. IssuedInOrder' /\ LastAccepted' /\ NewestOfFamily' /\ AccountOfSessions' /\ CookieNeverSuperseded'
  BY <1>2 DEF IInv, IssuedInOrder, LastAccepted, NewestOfFamily, AccountOfSessions, CookieNeverSuperseded,
     TokensOf, Server!Alive
<1>5. OneBrowser'
  <2>1. OneBrowser
    BY DEF IInv
  <2>2. \A f \in Families, b \in Browsers : Carries(b, f)' => Carries(b, f)
    BY <1>1, <1>2 DEF Carries
  <2>3. QED BY <2>1, <2>2, CarriedAsBefore
<1>6. NoneSent
  BY <1>1 DEF NoneSent
<1>7. Evolves /\ \A f : TokensOf(f)' = TokensOf(f)
  BY QuietEvolves
<1>8. ASSUME NEW y \in Exchanges \ {x} PROVE ExchangeOK(y)'
  <2>1. exchange[y].cookie \in Tokens => \A z \in Exchanges \ {y} : exchange'[z].cookie # exchange[y].cookie
    BY <1>1, OwnExchange DEF ExchangeOK, OnTheWay
  <2>2. QED BY <1>1, <1>2, <1>6, <1>7, <2>1, OtherKept
<1>9. ExchangeOK(x)'
  <2>1. ExchangeOK(x)
    BY OwnExchange
  <2>2. Arrived(x)'
    BY <1>1, <1>2, <2>1 DEF ExchangeOK, Arrived
  <2>3. OnTheWay(x)'
    BY <1>1 DEF OnTheWay
  <2>4. Alone(x)'
    BY <1>1, <1>2, <2>1 DEF ExchangeOK, Alone, At
  <2>5. QED BY <2>2, <2>3, <2>4 DEF ExchangeOK
<1>10. QED BY <1>3, <1>4, <1>5, <1>8, <1>9 DEF IInv

-----------------------------------------------------------------------------
(* Steps of a handler that leave the sessions as they are. *)

(* An answer without a token. *)
LEMMA AnswerStep ==
  ASSUME IInv, NEW x \in Exchanges, ~At(x, "idle"), NEW c \in {Keep, Clear}, Answer(x, c),
         UNCHANGED <<sessions, client>>
  PROVE  IInv'
<1>1. exchange[x].browser \in Browsers
  BY OwnExchange DEF ExchangeOK, Locals, At
<1> DEFINE X == [Idle EXCEPT !.pc = "answered", !.cookie = c, !.browser = exchange[x].browser]
<1>2. exchange' = [exchange EXCEPT ![x] = X]
  BY DEF Answer
<1>3. /\ X \in Exchange /\ X.pc = "answered" /\ X.cookie = c /\ X.browser = exchange[x].browser
      /\ X.presented = None /\ ~X.alone /\ X.op = None
  BY <1>1 DEF Idle, Exchange
<1> HIDE DEF X
<1>4. exchange'[x] = X
  BY <1>2 DEF IInv, TypeOK
<1>5. Locals(x)' /\ LogoutTargets(x)'
  BY <1>1, <1>3, <1>4 DEF Locals, LogoutTargets
<1>6. X.cookie \notin Tokens
  BY <1>3
<1>7. exchange[x].pc # "idle"
  BY DEF At
<1>8. QED BY <1>2, <1>3, <1>5, <1>6, <1>7, QuietStep

LEMMA ContinueStep ==
  ASSUME IInv, NEW x \in Exchanges, exchange[x].pc \in {"sent", "rotate"},
         NEW pc \in {"scan", "rotate"}, NEW target \in Families \cup Tokens \cup {None},
         Continue(x, pc, target), UNCHANGED client,
         pc = "rotate" => exchange[x].op = "refresh" /\ exchange[x].presented # None,
         exchange[x].op = "logout" =>
           pc = "scan" /\ exchange[x].presented # None /\ target = familyOf[exchange[x].presented]
  PROVE  IInv'
<1>1. exchange[x] \in Exchange /\ Locals(x)
  BY OwnExchange DEF ExchangeOK
<1> DEFINE X == [exchange[x] EXCEPT !.pc = pc, !.target = target]
<1>2. exchange' = [exchange EXCEPT ![x] = X]
  BY DEF Continue, IInv, TypeOK
<1>3. /\ X \in Exchange /\ X.pc = pc /\ X.target = target
      /\ X.browser = exchange[x].browser /\ X.presented = exchange[x].presented
      /\ X.cookie = exchange[x].cookie /\ X.alone = exchange[x].alone /\ X.op = exchange[x].op
  BY <1>1 DEF Exchange
<1> HIDE DEF X
<1>4. exchange'[x] = X
  BY <1>2 DEF IInv, TypeOK
<1>5. UNCHANGED sessions /\ familyOf' = familyOf
  BY DEF Continue, sessions
<1>6. Locals(x)'
  BY <1>1, <1>3, <1>4 DEF Locals
<1>7. LogoutTargets(x)'
  BY <1>3, <1>4, <1>5 DEF LogoutTargets
<1>8. X.cookie \notin Tokens
  BY <1>1, <1>3 DEF Locals
<1>9. exchange[x].pc # "idle" /\ X.pc # "idle"
  BY <1>3
<1>10. QED BY <1>2, <1>3, <1>5, <1>6, <1>7, <1>8, <1>9, QuietStep

LEMMA LoseStep ==
  ASSUME IInv, NEW x \in Exchanges, Lose(x)
  PROVE  IInv'
<1>1. exchange' = [exchange EXCEPT ![x] = Idle] /\ UNCHANGED <<sessions, client>>
  BY DEF Lose
<1>2. exchange'[x] = Idle
  BY <1>1 DEF IInv, TypeOK
<1>3. Locals(x)' /\ LogoutTargets(x)'
  BY <1>2, IdleIsExchange DEF Locals, LogoutTargets
<1>4. Idle.cookie \notin Tokens
  BY IdleIsExchange
<1>5. QED BY <1>1, <1>3, <1>4, IdleIsExchange, QuietStep

(* A token that exists was issued, and its session is one of Families. *)
LEMMA PresentedFacts ==
  ASSUME IInv, NEW x \in Exchanges, exchange[x].presented # None
  PROVE  /\ exchange[x].presented \in spent /\ exchange[x].presented \in Tokens
         /\ familyOf[exchange[x].presented] \in Families
         /\ exchange[x].presented \in TokensOf(familyOf[exchange[x].presented])
  BY OwnExchange, TokenFacts DEF ExchangeOK, Arrived, TokensOf

LEMMA RefreshReadStep ==
  ASSUME IInv, NEW x \in Exchanges, RefreshRead(x)
  PROVE  IInv'
<1> DEFINE t == exchange[x].presented
<1>1. exchange[x].pc = "sent" /\ exchange[x].op = "refresh" /\ UNCHANGED client
  BY DEF RefreshRead, Is, At
<1>2. CASE Answer(x, Keep) /\ UNCHANGED sessions
  BY <1>1, <1>2, AnswerStep DEF At
<1>3. CASE Exists(t) /\ Continue(x, "scan", familyOf[t])
  <2>1. familyOf[t] \in Families \cup Tokens \cup {None}
    BY <1>3, PresentedFacts DEF Exists
  <2>2. QED BY <1>1, <1>3, <2>1, ContinueStep
<1>4. CASE Exists(t) /\ Continue(x, "scan", t)
  <2>1. t \in Families \cup Tokens \cup {None}
    BY <1>4, PresentedFacts DEF Exists
  <2>2. QED BY <1>1, <1>4, <2>1, ContinueStep
<1>5. CASE Exists(t) /\ Continue(x, "rotate", None)
  BY <1>1, <1>5, ContinueStep DEF Exists
<1>6. QED BY <1>2, <1>3, <1>4, <1>5 DEF RefreshRead

LEMMA LogoutStep ==
  ASSUME IInv, NEW x \in Exchanges, Logout(x)
  PROVE  IInv'
<1> DEFINE t == exchange[x].presented
<1>1. exchange[x].pc = "sent" /\ exchange[x].op = "logout" /\ UNCHANGED client
  BY DEF Logout, Is, At
<1>2. CASE Answer(x, Clear) /\ UNCHANGED sessions
  BY <1>1, <1>2, AnswerStep DEF At
<1>3. CASE Exists(t) /\ Continue(x, "scan", familyOf[t])
  <2>1. familyOf[t] \in Families \cup Tokens \cup {None} /\ t # None
    BY <1>3, PresentedFacts DEF Exists
  <2>2. QED BY <1>1, <1>3, <2>1, ContinueStep
<1>4. QED BY <1>2, <1>3 DEF Logout

LEMMA EndSessionsStep ==
  ASSUME IInv, NEW x \in Exchanges, EndSessions(x)
  PROVE  IInv'
<1>1. /\ exchange[x].pc = "sent" /\ exchange[x].op \in {"logoutSession", "logoutAll"}
      /\ Continue(x, "scan", exchange[x].target) /\ UNCHANGED client
  BY DEF EndSessions, At
<1>2. exchange[x].target \in Families \cup Tokens \cup {None}
  BY OwnExchange DEF Exchange
<1>3. QED BY <1>1, <1>2, ContinueStep

(* A logout sees the active token of the session it ends, or it has ended. *)
LEMMA ScanStep ==
  ASSUME IInv, NEW x \in Exchanges, Scan(x)
  PROVE  IInv'
<1> DEFINE target == exchange[x].target
           seen == {t \in spent : Active(t) /\ target \in {None, t, familyOf[t]}}
           X == [exchange[x] EXCEPT !.pc = "write", !.target = None, !.seen = seen]
<1>1. exchange[x] \in Exchange /\ Locals(x) /\ LogoutTargets(x) /\ exchange[x].pc = "scan"
  BY OwnExchange DEF ExchangeOK, Scan, At
<1>2. exchange' = [exchange EXCEPT ![x] = X] /\ UNCHANGED <<sessions, client>>
  BY DEF Scan, IInv, TypeOK
<1>3. seen \subseteq Tokens
  BY TokenFacts
<1>4. /\ X \in Exchange /\ X.pc = "write" /\ X.seen = seen
      /\ X.browser = exchange[x].browser /\ X.presented = exchange[x].presented
      /\ X.cookie = exchange[x].cookie /\ X.alone = exchange[x].alone /\ X.op = exchange[x].op
  BY <1>1, <1>3 DEF Exchange
<1> HIDE DEF X
<1>5. exchange'[x] = X /\ UNCHANGED <<accepted, familyOf>>
  BY <1>2 DEF IInv, TypeOK, sessions
<1>6. Locals(x)'
  BY <1>1, <1>4, <1>5 DEF Locals
<1>7. LogoutTargets(x)'
  <2>1. SUFFICES ASSUME exchange[x].op = "logout" PROVE LogoutTargets(x)'
    BY <1>4, <1>5 DEF LogoutTargets
  <2> DEFINE p == exchange[x].presented
             f == familyOf[p]
  <2>2. p # None /\ target = f /\ p \in TokensOf(f) /\ f \in Families
    BY <1>1, <2>1, PresentedFacts DEF LogoutTargets
  <2>3. \A t \in seen : familyOf[t] = f
    <3>1. f \notin Tokens /\ f # None
      BY <2>2
    <3>2. QED BY <2>2, <3>1, TokenFacts
  <2>4. seen = {} => accepted[f] = Ended
    <3>1. accepted[f] \in Tokens \cup {Unopened, Ended}
      BY <2>2 DEF IInv, TypeOK
    <3>2. accepted[f] # Unopened
      BY <2>2 DEF IInv, LastAccepted
    <3>3. ASSUME accepted[f] \in Tokens PROVE accepted[f] \in seen
      <4>1. accepted[f] \in spent /\ familyOf[accepted[f]] = f
        BY <2>2, <3>3 DEF IInv, LastAccepted, TokensOf
      <4>2. QED BY <2>2, <4>1 DEF Active
    <3>4. QED BY <3>1, <3>2, <3>3
  <2>5. QED BY <1>4, <1>5, <2>2, <2>3, <2>4 DEF LogoutTargets
<1>8. X.cookie \notin Tokens
  BY <1>1, <1>4 DEF Locals
<1>9. exchange[x].pc # "idle" /\ X.pc # "idle"
  BY <1>1, <1>4
<1>10. QED BY <1>2, <1>4, <1>6, <1>7, <1>8, <1>9, QuietStep

LEMMA RefuseStep ==
  ASSUME IInv, NEW x \in Exchanges, Refuse(x)
  PROVE  IInv'
  BY AnswerStep DEF Refuse, At

-----------------------------------------------------------------------------
(* Steps of the browser. *)

(* What a browser presents is the newest it has of its session. *)
LEMMA SendStep ==
  ASSUME IInv, NEW x \in Exchanges, NEW b \in Browsers, NEW op \in Operations,
         NEW f \in Families \cup {None}, Send(x, b, op, f)
  PROVE  IInv'
<1> DEFINE p == IF op \in {"refresh", "logout"} THEN jar[b] ELSE None
           X == [Idle EXCEPT !.pc = "sent", !.op = op, !.browser = b, !.target = f,
                             !.presented = p, !.alone = Pending(b) = {}]
           Y(y) == IF y \in Pending(b) THEN [exchange[y] EXCEPT !.alone = FALSE] ELSE exchange[y]
<1>1. /\ exchange' = [y \in Exchanges |-> IF y = x THEN X ELSE Y(y)]
      /\ At(x, "idle") /\ UNCHANGED <<accepted, spent, account, familyOf, jar, bearer, newest>>
  BY DEF Send, sessions, client
<1>2. p # None => p \in spent /\ p = newest[familyOf[p]] /\ p = jar[b]
  BY TokenFacts DEF IInv, CookieNeverSuperseded
<1>3. p \in Tokens \cup {None}
  BY <1>2, TokenFacts
<1>4. /\ X \in Exchange /\ X.pc = "sent" /\ X.op = op /\ X.browser = b /\ X.presented = p
      /\ X.cookie = Keep /\ X.alone = (Pending(b) = {})
  BY <1>3 DEF Idle, Exchange
<1>5. ASSUME NEW y \in Exchanges
      PROVE  /\ Y(y) \in Exchange /\ Y(y).pc = exchange[y].pc /\ Y(y).op = exchange[y].op
             /\ Y(y).browser = exchange[y].browser /\ Y(y).presented = exchange[y].presented
             /\ Y(y).target = exchange[y].target /\ Y(y).seen = exchange[y].seen
             /\ Y(y).cookie = exchange[y].cookie
             /\ Y(y).alone => exchange[y].alone /\ y \notin Pending(b)
             /\ exchange[y].pc = "idle" => Y(y) = Idle
  <2>1. exchange[y] \in Exchange /\ (exchange[y].pc = "idle" => exchange[y] = Idle)
    BY DEF IInv, TypeOK
  <2>2. exchange[y].pc = "idle" => y \notin Pending(b)
    BY DEF Pending, At
  <2>3. QED BY <2>1, <2>2 DEF Exchange
<1>6. exchange'[x] = X /\ \A y \in Exchanges \ {x} : exchange'[y] = Y(y)
  BY <1>1
<1> HIDE DEF X, Y, p
<1>7. TypeOK'
  <2>1. exchange' \in [Exchanges -> Exchange]
    BY <1>1, <1>4, <1>5
  <2>2. \A y \in Exchanges : exchange'[y].pc = "idle" => exchange'[y] = Idle
    BY <1>4, <1>5, <1>6
  <2>3. QED BY <1>1, <2>1, <2>2 DEF IInv, TypeOK
<1>8. IssuedInOrder' /\ LastAccepted' /\ NewestOfFamily' /\ AccountOfSessions' /\ CookieNeverSuperseded'
  BY <1>1 DEF IInv, IssuedInOrder, LastAccepted, NewestOfFamily, AccountOfSessions, CookieNeverSuperseded,
     TokensOf, Server!Alive
<1>9. OneBrowser'
  <2>1. ASSUME NEW g \in Families, NEW c \in Browsers, Carries(c, g)' PROVE Carries(c, g)
    <3>1. CASE jar'[c] # None /\ familyOf'[jar'[c]] = g
      BY <1>1, <3>1 DEF Carries
    <3>2. CASE \E z \in Exchanges : /\ exchange'[z].browser = c
                                    /\ \/ exchange'[z].presented # None /\ familyOf'[exchange'[z].presented] = g
                                       \/ exchange'[z].cookie \in Tokens /\ familyOf'[exchange'[z].cookie] = g
      <4>1. PICK z \in Exchanges : /\ exchange'[z].browser = c
                                   /\ \/ exchange'[z].presented # None /\ familyOf'[exchange'[z].presented] = g
                                      \/ exchange'[z].cookie \in Tokens /\ familyOf'[exchange'[z].cookie] = g
        BY <3>2
      <4>2. CASE z = x
        BY <1>1, <1>2, <1>4, <1>6, <4>1, <4>2 DEF Carries
      <4>3. CASE z # x
        BY <1>1, <1>5, <1>6, <4>1, <4>3 DEF Carries
      <4>4. QED BY <4>2, <4>3
    <3>3. QED BY <2>1, <3>1, <3>2 DEF Carries
  <2>2. QED BY <2>1, CarriedAsBefore DEF IInv
<1>10. ExchangeOK(x)'
  <2>1. Locals(x)'
    BY <1>4, <1>6 DEF Locals
  <2>2. Arrived(x)'
    <3>1. p # None => p <= newest[familyOf[p]]
      BY <1>2, TokenFacts
    <3>2. QED BY <1>1, <1>2, <1>4, <1>6, <3>1 DEF Arrived
  <2>3. OnTheWay(x)'
    BY <1>4, <1>6 DEF OnTheWay
  <2>4. Alone(x)'
    <3>1. SUFFICES ASSUME Pending(b) = {} PROVE Alone(x)'
      BY <1>4, <1>6 DEF Alone
    <3>2. ASSUME NEW y \in Exchanges \ {x}, exchange'[y].pc # "idle"
          PROVE  exchange'[y].browser # exchange'[x].browser
      <4>1. exchange[y].pc # "idle" /\ exchange'[y].browser = exchange[y].browser
        BY <1>5, <1>6, <3>2
      <4>2. exchange[y].browser # b
        BY <3>1, <4>1 DEF Pending, At
      <4>3. QED BY <1>4, <1>6, <4>1, <4>2
    <3>3. exchange'[x].presented = p /\ (p # None => newest'[familyOf'[p]] = p)
      BY <1>1, <1>2, <1>4, <1>6
    <3>4. QED BY <3>2, <3>3 DEF Alone, At
  <2>5. LogoutTargets(x)'
    BY <1>4, <1>6 DEF LogoutTargets
  <2>6. QED BY <2>1, <2>2, <2>3, <2>4, <2>5 DEF ExchangeOK
<1>11. ASSUME NEW y \in Exchanges \ {x} PROVE ExchangeOK(y)'
  <2>1. ExchangeOK(y) /\ exchange[y] \in Exchange
    BY OwnExchange
  <2>2. Locals(y)'
    BY <1>5, <1>6, <2>1 DEF ExchangeOK, Locals
  <2>3. Arrived(y)'
    BY <1>1, <1>5, <1>6, <2>1 DEF ExchangeOK, Arrived
  <2>4. OnTheWay(y)'
    <3>1. exchange'[x].cookie \notin Tokens
      BY <1>4, <1>6
    <3>2. \A z \in Exchanges \ {x} : exchange'[z].cookie = exchange[z].cookie
      BY <1>5, <1>6
    <3>3. QED BY <1>1, <2>1, <3>1, <3>2 DEF ExchangeOK, OnTheWay, TokensOf
  <2>5. Alone(y)'
    <3>1. SUFFICES ASSUME exchange'[y].alone PROVE Alone(y)'
      BY DEF Alone
    <3>2. exchange[y].alone /\ y \notin Pending(b) /\ exchange'[y].browser = exchange[y].browser
          /\ exchange'[y].presented = exchange[y].presented
      BY <1>5, <1>6, <3>1
    <3>3. exchange[y].pc # "idle"
      BY <3>2, IdleIsExchange DEF IInv, TypeOK
    <3>4. exchange[y].browser # b
      BY <3>2, <3>3 DEF Pending, At
    <3>5. ASSUME NEW z \in Exchanges \ {y}, exchange'[z].pc # "idle"
          PROVE  exchange'[z].browser # exchange[y].browser
      <4>1. CASE z = x
        BY <1>4, <1>6, <3>4, <4>1
      <4>2. CASE z # x
        BY <1>5, <1>6, <2>1, <3>2, <3>5, <4>2 DEF ExchangeOK, Alone, At
      <4>3. QED BY <4>1, <4>2
    <3>6. QED BY <1>1, <2>1, <3>2, <3>5 DEF ExchangeOK, Alone, At
  <2>6. LogoutTargets(y)'
    BY <1>1, <1>5, <1>6, <2>1 DEF ExchangeOK, LogoutTargets
  <2>7. QED BY <2>2, <2>3, <2>4, <2>5, <2>6 DEF ExchangeOK
<1>12. QED BY <1>7, <1>8, <1>9, <1>10, <1>11 DEF IInv

LEMMA ForgetStep ==
  ASSUME IInv, NEW b \in Browsers, Forget(b)
  PROVE  IInv'
<1>1. /\ jar' = [jar EXCEPT ![b] = None] /\ bearer' = bearer \ {b}
      /\ UNCHANGED <<accepted, spent, account, familyOf, newest, exchange>>
  BY DEF Forget, sessions
<1>2. jar'[b] = None /\ \A c \in Browsers \ {b} : jar'[c] = jar[c]
  BY <1>1 DEF IInv, TypeOK
<1>3. TypeOK'
  BY <1>1 DEF IInv, TypeOK
<1>4. IssuedInOrder' /\ LastAccepted' /\ NewestOfFamily' /\ AccountOfSessions'
  BY <1>1 DEF IInv, IssuedInOrder, LastAccepted, NewestOfFamily, AccountOfSessions, TokensOf, Server!Alive
<1>5. CookieNeverSuperseded'
  BY <1>1, <1>2 DEF IInv, CookieNeverSuperseded
<1>6. OneBrowser'
  <2>1. \A f \in Families, c \in Browsers : Carries(c, f)' => Carries(c, f)
    BY <1>1, <1>2 DEF Carries
  <2>2. QED BY <2>1, CarriedAsBefore DEF IInv
<1>7. ASSUME NEW y \in Exchanges PROVE ExchangeOK(y)'
  <2>1. ExchangeOK(y)
    BY OwnExchange
  <2>2. QED BY <1>1, <2>1 DEF ExchangeOK, Locals, Arrived, OnTheWay, Alone, LogoutTargets, TokensOf, At
<1>8. QED BY <1>3, <1>4, <1>5, <1>6, <1>7 DEF IInv

(* An answer that sets no token. *)
LEMMA DeliverNothing ==
  ASSUME IInv, NEW x \in Exchanges, Deliver(x), exchange[x].cookie \notin Tokens
  PROVE  IInv'
<1> DEFINE b == exchange[x].browser
           cookie == exchange[x].cookie
<1>1. exchange[x] \in Exchange /\ exchange[x].pc = "answered" /\ b \in Browsers /\ cookie \in {Keep, Clear}
  BY OwnExchange DEF ExchangeOK, Locals, Deliver, At, Exchange
<1>2. /\ exchange' = [exchange EXCEPT ![x] = Idle] /\ bearer' = bearer
      /\ UNCHANGED <<accepted, spent, account, familyOf>>
  BY DEF Deliver, sessions
<1>3. newest' = newest
  BY DEF Deliver, IInv, TypeOK
<1>4. exchange'[x] = Idle /\ \A y \in Exchanges \ {x} : exchange'[y] = exchange[y]
  BY <1>2 DEF IInv, TypeOK
<1>5. \E v \in {jar[b], None} : jar' = [jar EXCEPT ![b] = v]
  <2>1. CASE cookie = Keep
    BY <2>1 DEF Deliver
  <2>2. CASE cookie = Clear
    BY <2>2 DEF Deliver
  <2>3. QED BY <1>1, <2>1, <2>2
<1>6. \A c \in Browsers : jar'[c] \in {jar[c], None}
  BY <1>5 DEF IInv, TypeOK
<1>7. TypeOK'
  <2>1. jar' \in [Browsers -> spent \cup {None}]
    BY <1>1, <1>5 DEF IInv, TypeOK
  <2>2. QED BY <1>2, <1>3, <1>4, <2>1, IdleIsExchange DEF IInv, TypeOK
<1>8. IssuedInOrder' /\ LastAccepted' /\ NewestOfFamily' /\ AccountOfSessions'
  BY <1>2, <1>3 DEF IInv, IssuedInOrder, LastAccepted, NewestOfFamily, AccountOfSessions, TokensOf, Server!Alive
<1>9. CookieNeverSuperseded'
  BY <1>2, <1>3, <1>6 DEF IInv, CookieNeverSuperseded
<1>10. OneBrowser'
  <2>1. \A f \in Families, c \in Browsers : Carries(c, f)' => Carries(c, f)
    BY <1>2, <1>4, <1>6, IdleIsExchange DEF Carries
  <2>2. QED BY <2>1, CarriedAsBefore DEF IInv
<1>11. NoneSent /\ Evolves /\ \A f : TokensOf(f)' = TokensOf(f)
  BY <1>2, <1>4, IdleIsExchange, QuietEvolves DEF NoneSent, sessions
<1>12. ASSUME NEW y \in Exchanges \ {x} PROVE ExchangeOK(y)'
  <2>1. exchange[y].cookie \in Tokens => \A z \in Exchanges \ {y} : exchange'[z].cookie # exchange[y].cookie
    <3>1. OnTheWay(y)
      BY OwnExchange DEF ExchangeOK
    <3>2. exchange'[x].cookie \notin Tokens
      BY <1>4, IdleIsExchange
    <3>3. SUFFICES ASSUME exchange[y].cookie \in Tokens, NEW z \in Exchanges \ {y}
                   PROVE  exchange'[z].cookie # exchange[y].cookie
      OBVIOUS
    <3>4. CASE z = x
      BY <3>2, <3>3, <3>4
    <3>5. CASE z # x
      BY <1>4, <3>1, <3>3, <3>5 DEF OnTheWay
    <3>6. QED BY <3>4, <3>5
  <2>2. TokensOf(familyOf[exchange[y].cookie])' = TokensOf(familyOf[exchange[y].cookie])
    BY <1>2, <1>4 DEF TokensOf
  <2>3. QED BY <1>3, <1>4, <1>11, <2>1, <2>2, OtherKept
<1>13. ExchangeOK(x)'
  BY <1>4, IdleIsExchange DEF ExchangeOK, Locals, Arrived, OnTheWay, Alone, LogoutTargets
<1>14. QED BY <1>7, <1>8, <1>9, <1>10, <1>12, <1>13 DEF IInv

(* A token that arrives is the newest of its session, and the session is   *)
(* in no other browser.                                                    *)
LEMMA DeliverToken ==
  ASSUME IInv, NEW x \in Exchanges, Deliver(x), exchange[x].cookie \in Tokens
  PROVE  IInv'
<1> DEFINE b == exchange[x].browser
           t == exchange[x].cookie
           f == familyOf[t]
<1>1. exchange[x].pc = "answered" /\ b \in Browsers
  BY OwnExchange DEF ExchangeOK, Locals, Deliver, At
<1>2. /\ t \in spent /\ t \in Nat /\ f \in Families /\ newest[f] < t
      /\ \A s \in TokensOf(f) : s <= t
      /\ \A y \in Exchanges \ {x} : exchange[y].cookie # t
  <2>1. OnTheWay(x)
    BY OwnExchange DEF ExchangeOK
  <2>2. t \in spent
    BY <2>1 DEF OnTheWay
  <2>3. QED BY <2>1, <2>2, TokenFacts DEF OnTheWay
<1>3. /\ exchange' = [exchange EXCEPT ![x] = Idle] /\ bearer' = bearer \cup {b}
      /\ UNCHANGED <<accepted, spent, account, familyOf>>
  BY DEF Deliver, sessions
<1>4. jar' = [jar EXCEPT ![b] = t]
  BY DEF Deliver
<1>5. newest' = [newest EXCEPT ![f] = t]
  <2>1. newest' = [g \in Families |-> IF f = g /\ newest[g] < t THEN t ELSE newest[g]]
    BY DEF Deliver
  <2>2. newest \in [Families -> spent \cup {0}]
    BY DEF IInv, TypeOK
  <2>3. QED BY <1>2, <2>1, <2>2
<1>6. /\ exchange'[x] = Idle /\ \A y \in Exchanges \ {x} : exchange'[y] = exchange[y]
      /\ jar'[b] = t /\ \A c \in Browsers \ {b} : jar'[c] = jar[c]
      /\ newest'[f] = t /\ \A g \in Families \ {f} : newest'[g] = newest[g]
  BY <1>1, <1>2, <1>3, <1>4, <1>5 DEF IInv, TypeOK
<1>7. Carries(b, f)
  BY DEF Carries
<1>8. \A c \in Browsers : Carries(c, f) => c = b
  BY <1>1, <1>2, <1>7 DEF IInv, OneBrowser
<1>9. TypeOK'
  <2>1. jar' \in [Browsers -> spent \cup {None}] /\ newest' \in [Families -> spent \cup {0}]
    BY <1>2, <1>4, <1>5 DEF IInv, TypeOK
  <2>2. bearer' \subseteq Browsers
    BY <1>1, <1>3 DEF IInv, TypeOK
  <2>3. exchange' \in [Exchanges -> Exchange]
    BY <1>3, IdleIsExchange DEF IInv, TypeOK
  <2>4. \A y \in Exchanges : exchange'[y].pc = "idle" => exchange'[y] = Idle
    BY <1>6 DEF IInv, TypeOK
  <2>5. QED BY <1>3, <2>1, <2>2, <2>3, <2>4 DEF IInv, TypeOK
<1>10. \A g : TokensOf(g)' = TokensOf(g)
  BY <1>3 DEF TokensOf
<1>11. IssuedInOrder' /\ LastAccepted' /\ AccountOfSessions'
  BY <1>3 DEF IInv, IssuedInOrder, LastAccepted, AccountOfSessions, TokensOf, Server!Alive
<1>12. NewestOfFamily'
  BY <1>2, <1>3, <1>6, <1>10 DEF IInv, NewestOfFamily, TokensOf
<1>13. CookieNeverSuperseded'
  <2>1. ASSUME NEW c \in Browsers \ {b}, jar[c] # None PROVE newest'[familyOf[jar[c]]] = newest[familyOf[jar[c]]]
    <3>1. familyOf[jar[c]] # f
      BY <1>8, <2>1 DEF Carries
    <3>2. familyOf[jar[c]] \in Families
      BY <2>1, TokenFacts
    <3>3. QED BY <1>6, <3>1, <3>2
  <2>2. QED BY <1>3, <1>6, <2>1 DEF IInv, CookieNeverSuperseded
<1>14. OneBrowser'
  <2>1. ASSUME NEW g \in Families, NEW c \in Browsers, Carries(c, g)' PROVE Carries(c, g)
    <3>1. CASE c = b /\ g = f
      BY <1>7, <3>1
    <3>2. CASE c # b /\ jar'[c] # None /\ familyOf'[jar'[c]] = g
      BY <1>3, <1>6, <3>2 DEF Carries
    <3>3. CASE \E z \in Exchanges : /\ exchange'[z].browser = c
                                    /\ \/ exchange'[z].presented # None /\ familyOf'[exchange'[z].presented] = g
                                       \/ exchange'[z].cookie \in Tokens /\ familyOf'[exchange'[z].cookie] = g
      BY <1>3, <1>6, <3>3, IdleIsExchange DEF Carries
    <3>4. QED BY <1>3, <1>6, <2>1, <3>1, <3>2, <3>3 DEF Carries
  <2>2. QED BY <2>1, CarriedAsBefore DEF IInv
<1>15. ASSUME NEW y \in Exchanges \ {x} PROVE ExchangeOK(y)'
  <2>1. ExchangeOK(y) /\ exchange[y] \in Exchange /\ exchange'[y] = exchange[y]
    BY <1>6, OwnExchange
  <2>2. Locals(y)' /\ LogoutTargets(y)'
    BY <1>3, <2>1 DEF ExchangeOK, Locals, LogoutTargets
  <2>3. Arrived(y)'
    <3>1. SUFFICES ASSUME exchange[y].presented # None
                   PROVE  exchange[y].presented <= newest'[familyOf[exchange[y].presented]]
      BY <1>3, <2>1 DEF ExchangeOK, Arrived
    <3>2. /\ exchange[y].presented \in TokensOf(familyOf[exchange[y].presented])
          /\ familyOf[exchange[y].presented] \in Families
          /\ exchange[y].presented <= newest[familyOf[exchange[y].presented]]
      BY <2>1, <3>1, PresentedFacts DEF ExchangeOK, Arrived
    <3>3. QED BY <1>2, <1>6, <3>2
  <2>4. OnTheWay(y)'
    <3>1. SUFFICES ASSUME exchange[y].cookie \in Tokens PROVE OnTheWay(y)'
      BY <2>1 DEF OnTheWay
    <3> DEFINE s == exchange[y].cookie
    <3>2. /\ s \in spent /\ familyOf[s] \in Families /\ s \in Nat
          /\ s \in TokensOf(familyOf[s]) /\ (\A k \in TokensOf(familyOf[s]) : k <= s)
          /\ newest[familyOf[s]] < s /\ \A z \in Exchanges \ {y} : exchange[z].cookie # s
      <4>1. OnTheWay(y) /\ s \in spent
        BY <2>1, <3>1 DEF ExchangeOK, OnTheWay
      <4>2. QED BY <3>1, <4>1, TokenFacts DEF OnTheWay, TokensOf
    <3>3. familyOf[s] # f
      <4>1. SUFFICES ASSUME familyOf[s] = f PROVE FALSE
        OBVIOUS
      <4>2. t \in TokensOf(f)
        BY <1>2 DEF TokensOf
      <4>3. s <= t /\ t <= s
        BY <1>2, <3>2, <4>1, <4>2
      <4>4. QED BY <1>2, <3>2, <4>3
    <3>4. newest'[familyOf[s]] = newest[familyOf[s]]
      BY <1>6, <3>2, <3>3
    <3>5. \A z \in Exchanges \ {y} : exchange'[z].cookie # s
      BY <1>6, <3>1, <3>2, IdleIsExchange
    <3>6. QED BY <1>3, <1>10, <2>1, <3>2, <3>4, <3>5 DEF OnTheWay
  <2>5. Alone(y)'
    <3>1. SUFFICES ASSUME exchange[y].alone PROVE Alone(y)'
      BY <2>1 DEF Alone
    <3>2. exchange[y].pc # "idle" /\ exchange[y].browser \in Browsers
      BY <2>1, <3>1, IdleIsExchange DEF IInv, TypeOK, ExchangeOK, Locals
    <3>3. exchange[y].browser # b
      BY <1>1, <2>1, <3>1 DEF ExchangeOK, Alone, At
    <3>4. ASSUME NEW z \in Exchanges \ {y}, exchange'[z].pc # "idle"
          PROVE  exchange'[z].browser # exchange[y].browser
      BY <1>6, <2>1, <3>1, <3>4, IdleIsExchange DEF ExchangeOK, Alone, At
    <3>5. exchange[y].presented # None =>
            newest'[familyOf[exchange[y].presented]] = exchange[y].presented
      <4>1. SUFFICES ASSUME exchange[y].presented # None
                     PROVE  newest'[familyOf[exchange[y].presented]] = exchange[y].presented
        OBVIOUS
      <4>2. familyOf[exchange[y].presented] # f
        BY <1>8, <3>2, <3>3, <4>1 DEF Carries
      <4>3. familyOf[exchange[y].presented] \in Families
        BY <4>1, PresentedFacts
      <4>4. newest[familyOf[exchange[y].presented]] = exchange[y].presented
        BY <2>1, <3>1, <4>1 DEF ExchangeOK, Alone
      <4>5. QED BY <1>6, <4>2, <4>3, <4>4
    <3>6. QED BY <1>3, <2>1, <3>4, <3>5 DEF Alone, At
  <2>6. QED BY <2>2, <2>3, <2>4, <2>5 DEF ExchangeOK
<1>16. ExchangeOK(x)'
  BY <1>6, IdleIsExchange DEF ExchangeOK, Locals, Arrived, OnTheWay, Alone, LogoutTargets
<1>17. QED BY <1>9, <1>11, <1>12, <1>13, <1>14, <1>15, <1>16 DEF IInv

-----------------------------------------------------------------------------
(* Steps that issue a token, and steps that end sessions. *)

(* A token is issued for a session none of whose tokens is on its way, and *)
(* which no other browser has.                                             *)
LEMMA HandOutStep ==
  ASSUME IInv, NEW x \in Exchanges, ~At(x, "idle"), NEW f \in Families, NEW t \in Tokens,
         NextToken(t), Server!HandOut(f, t), familyOf' = [familyOf EXCEPT ![t] = f],
         Answer(x, t), UNCHANGED <<account, client>>, account, accepted[f] # Ended,
         \A y \in Exchanges : exchange[y].cookie \in Tokens => familyOf[exchange[y].cookie] # f,
         \A c \in Browsers : Carries(c, f) => c = exchange[x].browser
  PROVE  IInv'
<1> DEFINE b == exchange[x].browser
           X == [Idle EXCEPT !.pc = "answered", !.cookie = t, !.browser = b]
<1>1. b \in Browsers
  BY OwnExchange DEF ExchangeOK, Locals, At
<1>2. /\ accepted' = [accepted EXCEPT ![f] = t] /\ spent' = spent \cup {t} /\ t \notin spent
      /\ UNCHANGED <<jar, bearer, newest>>
  BY DEF Server!HandOut, client, NextToken
<1>3. exchange' = [exchange EXCEPT ![x] = X]
  BY DEF Answer
<1>4. /\ X \in Exchange /\ X.pc = "answered" /\ X.cookie = t /\ X.browser = b
      /\ X.presented = None /\ ~X.alone /\ X.op = None
  BY <1>1 DEF Idle, Exchange
<1> HIDE DEF X
<1>5. exchange'[x] = X /\ \A y \in Exchanges \ {x} : exchange'[y] = exchange[y]
  BY <1>3 DEF IInv, TypeOK
<1>6. accepted'[f] = t /\ \A g \in Families \ {f} : accepted'[g] = accepted[g]
  BY <1>2 DEF IInv, TypeOK
<1>7. familyOf'[t] = f /\ \A s \in Tokens \ {t} : familyOf'[s] = familyOf[s]
  BY DEF IInv, TypeOK
<1>8. \A s \in spent : s \in Tokens /\ familyOf'[s] = familyOf[s] /\ s < t
  BY <1>2, <1>7, TokenFacts DEF IInv, IssuedInOrder
<1>9. TypeOK'
  <2>1. accepted' \in [Families -> Tokens \cup {Unopened, Ended}] /\ spent' \subseteq Tokens
    BY <1>2 DEF IInv, TypeOK
  <2>2. familyOf' \in [Tokens -> Families \cup {None}]
    BY DEF IInv, TypeOK
  <2>3. {s \in Tokens : familyOf'[s] # None} = spent'
    <3>1. ASSUME NEW s \in Tokens PROVE familyOf'[s] # None <=> s \in spent'
      <4>1. CASE s = t
        BY <1>2, <1>7, <4>1
      <4>2. CASE s # t
        BY <1>2, <1>7, <4>2, TokenFacts
      <4>3. QED BY <4>1, <4>2
    <3>2. QED BY <2>1, <3>1
  <2>4. newest' \in [Families -> spent' \cup {0}] /\ jar' \in [Browsers -> spent' \cup {None}]
    BY <1>2 DEF IInv, TypeOK
  <2>5. exchange' \in [Exchanges -> Exchange]
    BY <1>3, <1>4 DEF IInv, TypeOK
  <2>6. \A y \in Exchanges : exchange'[y].pc = "idle" => exchange'[y] = Idle
    BY <1>4, <1>5 DEF IInv, TypeOK
  <2>7. account' \in BOOLEAN /\ bearer' \subseteq Browsers
    BY <1>2 DEF IInv, TypeOK
  <2>8. QED BY <2>1, <2>2, <2>3, <2>4, <2>5, <2>6, <2>7 DEF TypeOK
<1>10. TokensOf(f)' = TokensOf(f) \cup {t} /\ \A g \in Families \ {f} : TokensOf(g)' = TokensOf(g)
  BY <1>2, <1>7, <1>8 DEF TokensOf
<1>11. IssuedInOrder'
  <2>1. SUFFICES ASSUME NEW s \in spent', NEW k \in Tokens \ spent' PROVE s < k
    BY DEF IssuedInOrder
  <2>2. k \in Tokens \ spent /\ k # t /\ t <= k
    BY <1>2 DEF NextToken
  <2>3. CASE s = t
    BY <2>2, <2>3
  <2>4. CASE s \in spent
    BY <2>2, <2>4 DEF IInv, IssuedInOrder
  <2>5. QED BY <1>2, <2>3, <2>4
<1>12. LastAccepted'
  <2>1. SUFFICES ASSUME NEW g \in Families
                 PROVE  /\ accepted'[g] = Unopened => TokensOf(g)' = {}
                        /\ accepted'[g] \in Tokens =>
                             accepted'[g] \in TokensOf(g)' /\ \A s \in TokensOf(g)' : s <= accepted'[g]
    BY DEF LastAccepted
  <2>2. CASE g = f
    <3>1. \A s \in TokensOf(f)' : s <= t
      <4>1. SUFFICES ASSUME NEW s \in TokensOf(f)' PROVE s <= t
        OBVIOUS
      <4>2. s = t \/ s \in spent
        BY <1>10 DEF TokensOf
      <4>3. CASE s = t
        BY <4>3, TokensPositive
      <4>4. CASE s \in spent
        <5>1. s \in Nat /\ t \in Nat
          BY <1>8, <4>4, TokensPositive
        <5>2. s < t
          BY <1>8, <4>4
        <5>3. QED BY <5>1, <5>2
      <4>5. QED BY <4>2, <4>3, <4>4
    <3>2. t # Unopened /\ t \in TokensOf(f)'
      BY <1>10
    <3>3. QED BY <1>6, <2>2, <3>1, <3>2
  <2>3. CASE g # f
    BY <1>6, <1>10, <2>3 DEF IInv, LastAccepted
  <2>4. QED BY <2>2, <2>3
<1>13. NewestOfFamily'
  BY <1>2, <1>10 DEF IInv, NewestOfFamily
<1>14. AccountOfSessions'
  BY DEF AccountOfSessions
<1>15. CookieNeverSuperseded'
  <2>1. \A c \in Browsers : jar[c] # None => familyOf'[jar[c]] = familyOf[jar[c]]
    BY <1>8, TokenFacts
  <2>2. QED BY <1>2, <2>1 DEF IInv, CookieNeverSuperseded
<1>16. OneBrowser'
  <2>1. ASSUME NEW g \in Families, NEW c \in Browsers, Carries(c, g)' PROVE Carries(c, g) \/ (g = f /\ c = b)
    <3>1. CASE jar'[c] # None /\ familyOf'[jar'[c]] = g
      BY <1>2, <1>8, <3>1, TokenFacts DEF Carries
    <3>2. CASE \E z \in Exchanges : /\ exchange'[z].browser = c
                                    /\ \/ exchange'[z].presented # None /\ familyOf'[exchange'[z].presented] = g
                                       \/ exchange'[z].cookie \in Tokens /\ familyOf'[exchange'[z].cookie] = g
      <4>1. PICK z \in Exchanges : /\ exchange'[z].browser = c
                                   /\ \/ exchange'[z].presented # None /\ familyOf'[exchange'[z].presented] = g
                                      \/ exchange'[z].cookie \in Tokens /\ familyOf'[exchange'[z].cookie] = g
        BY <3>2
      <4>2. CASE z = x
        BY <1>4, <1>5, <1>7, <4>1, <4>2
      <4>3. CASE z # x
        <5>1. exchange'[z] = exchange[z]
          BY <1>5, <4>3
        <5>2. exchange[z].presented # None => familyOf'[exchange[z].presented] = familyOf[exchange[z].presented]
          BY <1>8, PresentedFacts
        <5>3. exchange[z].cookie \in Tokens => familyOf'[exchange[z].cookie] = familyOf[exchange[z].cookie]
          BY <1>8, OwnExchange DEF ExchangeOK, OnTheWay
        <5>4. QED BY <4>1, <5>1, <5>2, <5>3 DEF Carries
      <4>4. QED BY <4>2, <4>3
    <3>3. QED BY <2>1, <3>1, <3>2 DEF Carries
  <2>2. SUFFICES ASSUME NEW g \in Families, NEW c \in Browsers, NEW d \in Browsers,
                        Carries(c, g)', Carries(d, g)'
                 PROVE  c = d
    BY DEF OneBrowser
  <2>3. CASE g = f
    BY <2>1, <2>2, <2>3
  <2>4. CASE g # f
    BY <2>1, <2>2, <2>4 DEF IInv, OneBrowser
  <2>5. QED BY <2>3, <2>4
<1>17. NoneSent /\ Evolves
  <2>1. NoneSent
    BY <1>4, <1>5 DEF NoneSent, At
  <2>2. \A g \in Families : accepted[g] = Ended => accepted'[g] = Ended
    BY <1>6
  <2>3. QED BY <1>2, <1>8, <2>1, <2>2 DEF Evolves
<1>18. ASSUME NEW y \in Exchanges \ {x} PROVE ExchangeOK(y)'
  <2>1. exchange[y].cookie \in Tokens =>
          /\ exchange[y].cookie # t
          /\ TokensOf(familyOf[exchange[y].cookie])' = TokensOf(familyOf[exchange[y].cookie])
    <3>1. SUFFICES ASSUME exchange[y].cookie \in Tokens
                   PROVE  /\ exchange[y].cookie # t
                          /\ TokensOf(familyOf[exchange[y].cookie])' = TokensOf(familyOf[exchange[y].cookie])
      OBVIOUS
    <3>2. exchange[y].cookie \in spent
      BY <3>1, OwnExchange DEF ExchangeOK, OnTheWay
    <3>3. exchange[y].cookie # t
      BY <1>2, <3>2
    <3>4. \A k \in Tokens : familyOf'[k] = familyOf[exchange[y].cookie] <=> familyOf[k] = familyOf[exchange[y].cookie]
      <4>1. familyOf[exchange[y].cookie] \in Families /\ familyOf[exchange[y].cookie] # f
        BY <3>1, <3>2, TokenFacts
      <4>2. familyOf[t] = None
        BY <1>2, TokenFacts
      <4>3. QED BY <1>7, <4>1, <4>2
    <3>5. familyOf'[exchange[y].cookie] = familyOf[exchange[y].cookie]
      BY <1>8, <3>2
    <3>6. familyOf[exchange[y].cookie] \in Families \ {f}
      BY <3>1, <3>2, TokenFacts
    <3>7. TokensOf(familyOf[exchange[y].cookie])' = {k \in spent' : familyOf'[k] = familyOf[exchange[y].cookie]}
      BY <1>5, <3>5 DEF TokensOf
    <3>8. QED BY <1>2, <1>7, <1>8, <3>3, <3>6, <3>7 DEF TokensOf
  <2>2. exchange[y].cookie \in Tokens => \A z \in Exchanges \ {y} : exchange'[z].cookie # exchange[y].cookie
    <3>1. OnTheWay(y)
      BY OwnExchange DEF ExchangeOK
    <3>2. exchange'[x].cookie = t
      BY <1>4, <1>5
    <3>3. QED BY <1>5, <2>1, <3>1, <3>2 DEF OnTheWay
  <2>3. QED BY <1>2, <1>5, <1>17, <2>1, <2>2, OtherKept
<1>19. ExchangeOK(x)'
  <2>1. Locals(x)' /\ Arrived(x)' /\ Alone(x)' /\ LogoutTargets(x)'
    BY <1>1, <1>4, <1>5 DEF Locals, Arrived, Alone, LogoutTargets
  <2>2. newest[f] < t
    <3>1. CASE newest[f] = 0
      BY <3>1, TokensPositive
    <3>2. CASE newest[f] \in spent
      BY <1>8, <3>2
    <3>3. QED BY <3>1, <3>2, TokenFacts
  <2>3. \A y \in Exchanges \ {x} : exchange'[y].cookie # t
    <3>1. \A y \in Exchanges : exchange[y].cookie \in Tokens => exchange[y].cookie \in spent
      BY OwnExchange DEF ExchangeOK, OnTheWay
    <3>2. QED BY <1>2, <1>5, <3>1
  <2>4. \A s \in TokensOf(f)' : s <= t
    BY <1>6, <1>12 DEF LastAccepted
  <2>5. OnTheWay(x)'
    BY <1>2, <1>4, <1>5, <1>7, <2>2, <2>3, <2>4 DEF OnTheWay
  <2>6. QED BY <2>1, <2>5 DEF ExchangeOK
<1>20. QED BY <1>9, <1>11, <1>12, <1>13, <1>14, <1>15, <1>16, <1>18, <1>19 DEF IInv

LEMMA LoginStep ==
  ASSUME IInv, NEW x \in Exchanges, Login(x)
  PROVE  IInv'
<1>1. PICK f \in Families, t \in Tokens :
        /\ NextToken(t) /\ Server!Open(f, t) /\ familyOf' = [familyOf EXCEPT ![t] = f] /\ Answer(x, t)
  BY DEF Login
<1>2. account /\ ~At(x, "idle") /\ UNCHANGED <<account, client>>
  BY DEF Login, Is, At
<1>3. accepted[f] = Unopened /\ Server!HandOut(f, t) /\ TokensOf(f) = {}
  BY <1>1 DEF Server!Open, IInv, LastAccepted
<1>4. \A s \in spent : familyOf[s] # f
  BY <1>3 DEF TokensOf
<1>5. \A y \in Exchanges : exchange[y].cookie \in Tokens => familyOf[exchange[y].cookie] # f
  BY <1>4, OwnExchange DEF ExchangeOK, OnTheWay
<1>6. \A c \in Browsers : ~Carries(c, f)
  <2>1. \A c \in Browsers : jar[c] # None => familyOf[jar[c]] # f
    BY <1>4, TokenFacts
  <2>2. \A y \in Exchanges : exchange[y].presented # None => familyOf[exchange[y].presented] # f
    BY <1>4, PresentedFacts
  <2>3. QED BY <1>5, <2>1, <2>2 DEF Carries
<1>7. accepted[f] # Ended
  BY <1>3
<1>8. QED BY <1>1, <1>2, <1>3, <1>5, <1>6, <1>7, HandOutStep

LEMMA RotateStep ==
  ASSUME IInv, NEW x \in Exchanges, Rotate(x)
  PROVE  IInv'
<1> DEFINE p == exchange[x].presented
           f == familyOf[p]
<1>1. /\ exchange[x].pc = "rotate" /\ exchange[x].op = "refresh" /\ p # None
      /\ exchange[x].browser \in Browsers /\ UNCHANGED client
  BY OwnExchange DEF ExchangeOK, Locals, Rotate, At
<1>2. p \in Tokens /\ p \in TokensOf(f) /\ f \in Families
  BY <1>1, PresentedFacts
<1>3. CASE Continue(x, "scan", f)
  BY <1>1, <1>2, <1>3, ContinueStep
<1>4. CASE /\ Exists(p) /\ Active(p) /\ UNCHANGED account
           /\ \E t \in Tokens : /\ NextToken(t) /\ Server!Renew(f, t)
                                /\ familyOf' = [familyOf EXCEPT ![t] = f] /\ Answer(x, t)
  <2>1. PICK t \in Tokens : /\ NextToken(t) /\ Server!Renew(f, t)
                            /\ familyOf' = [familyOf EXCEPT ![t] = f] /\ Answer(x, t)
    BY <1>4
  <2>2. account /\ accepted[f] = p /\ Server!HandOut(f, t)
    BY <1>4, <2>1 DEF Exists, Active, Server!Renew
  <2>3. \A s \in TokensOf(f) : s <= p
    BY <1>2, <2>2 DEF IInv, LastAccepted
  <2>4. p <= newest[f]
    BY <1>1, OwnExchange DEF ExchangeOK, Arrived
  <2>5. ASSUME NEW y \in Exchanges, exchange[y].cookie \in Tokens, familyOf[exchange[y].cookie] = f PROVE FALSE
    <3>1. exchange[y].cookie \in TokensOf(f) /\ newest[f] < exchange[y].cookie
      BY <2>5, OwnExchange DEF ExchangeOK, OnTheWay, TokensOf
    <3>2. exchange[y].cookie <= p
      BY <2>3, <3>1
    <3>3. newest[f] \in Nat /\ exchange[y].cookie \in Nat /\ p \in Nat
      BY <1>2, <2>5, TokenFacts, TokensPositive
    <3>4. QED BY <2>4, <3>1, <3>2, <3>3
  <2>6. Carries(exchange[x].browser, f)
    BY <1>1 DEF Carries
  <2>7. \A c \in Browsers : Carries(c, f) => c = exchange[x].browser
    BY <1>1, <1>2, <2>6 DEF IInv, OneBrowser
  <2>8. accepted[f] # Ended /\ ~At(x, "idle")
    BY <1>1, <1>2, <2>2 DEF At
  <2>9. QED BY <1>1, <1>2, <1>4, <2>1, <2>2, <2>5, <2>7, <2>8, HandOutStep
<1>5. QED BY <1>3, <1>4 DEF Rotate

(* An account goes together with its sessions. *)
LEMMA EndStep ==
  ASSUME IInv, NEW x \in Exchanges, ~At(x, "idle"), NEW F, Server!End(F), NEW c \in {Keep, Clear},
         Answer(x, c), UNCHANGED <<familyOf, client>>,
         account' = account \/ (account' = FALSE /\ F = Server!Alive)
  PROVE  IInv'
<1> DEFINE X == [Idle EXCEPT !.pc = "answered", !.cookie = c, !.browser = exchange[x].browser]
<1>1. exchange[x].browser \in Browsers
  BY OwnExchange DEF ExchangeOK, Locals, At
<1>2. /\ accepted' = [g \in Families |-> IF g \in F THEN Ended ELSE accepted[g]]
      /\ UNCHANGED <<spent, familyOf, jar, bearer, newest>>
  BY DEF Server!End, client
<1>3. exchange' = [exchange EXCEPT ![x] = X]
  BY DEF Answer
<1>4. /\ X \in Exchange /\ X.pc = "answered" /\ X.cookie = c /\ X.browser = exchange[x].browser
      /\ X.presented = None /\ ~X.alone /\ X.op = None
  BY <1>1 DEF Idle, Exchange
<1> HIDE DEF X
<1>5. exchange'[x] = X /\ \A y \in Exchanges \ {x} : exchange'[y] = exchange[y]
  BY <1>3 DEF IInv, TypeOK
<1>6. \A g \in Families : accepted'[g] \in {accepted[g], Ended}
  BY <1>2
<1>7. TypeOK'
  <2>1. accepted' \in [Families -> Tokens \cup {Unopened, Ended}]
    BY <1>2 DEF IInv, TypeOK
  <2>2. exchange' \in [Exchanges -> Exchange] /\ account' \in BOOLEAN
    BY <1>3, <1>4 DEF IInv, TypeOK
  <2>3. \A y \in Exchanges : exchange'[y].pc = "idle" => exchange'[y] = Idle
    BY <1>4, <1>5 DEF IInv, TypeOK
  <2>4. QED BY <1>2, <2>1, <2>2, <2>3 DEF IInv, TypeOK
<1>8. \A g : TokensOf(g)' = TokensOf(g)
  BY <1>2 DEF TokensOf
<1>9. IssuedInOrder' /\ NewestOfFamily' /\ CookieNeverSuperseded'
  BY <1>2 DEF IInv, IssuedInOrder, NewestOfFamily, CookieNeverSuperseded, TokensOf
<1>10. LastAccepted'
  <2>1. SUFFICES ASSUME NEW g \in Families
                 PROVE  /\ accepted'[g] = Unopened => TokensOf(g)' = {}
                        /\ accepted'[g] \in Tokens =>
                             accepted'[g] \in TokensOf(g)' /\ \A s \in TokensOf(g)' : s <= accepted'[g]
    BY DEF LastAccepted
  <2>2. CASE accepted'[g] = accepted[g]
    BY <1>8, <2>2 DEF IInv, LastAccepted
  <2>3. CASE accepted'[g] = Ended
    BY <2>3
  <2>4. QED BY <1>6, <2>2, <2>3
<1>11. AccountOfSessions'
  <2>1. Server!Alive' \subseteq Server!Alive
    BY <1>6 DEF Server!Alive
  <2>2. F = Server!Alive => Server!Alive' = {}
    BY <1>2 DEF Server!Alive
  <2>3. QED BY <2>1, <2>2 DEF IInv, AccountOfSessions
<1>12. OneBrowser'
  <2>1. \A f \in Families, b \in Browsers : Carries(b, f)' => Carries(b, f)
    BY <1>2, <1>4, <1>5 DEF Carries
  <2>2. QED BY <2>1, CarriedAsBefore DEF IInv
<1>13. NoneSent /\ Evolves
  BY <1>2, <1>4, <1>5, <1>6 DEF NoneSent, Evolves, At
<1>14. ASSUME NEW y \in Exchanges \ {x} PROVE ExchangeOK(y)'
  <2>1. OnTheWay(y)
    BY OwnExchange DEF ExchangeOK
  <2>2. exchange'[x].cookie \notin Tokens
    BY <1>4, <1>5
  <2>3. ASSUME exchange[y].cookie \in Tokens, NEW z \in Exchanges \ {y}
        PROVE  exchange'[z].cookie # exchange[y].cookie
    <3>1. CASE z = x
      BY <2>2, <2>3, <3>1
    <3>2. CASE z # x
      BY <1>5, <2>1, <2>3, <3>2 DEF OnTheWay
    <3>3. QED BY <3>1, <3>2
  <2>4. QED BY <1>2, <1>5, <1>8, <1>13, <2>3, OtherKept
<1>15. ExchangeOK(x)'
  BY <1>1, <1>4, <1>5 DEF ExchangeOK, Locals, Arrived, OnTheWay, Alone, LogoutTargets
<1>16. QED BY <1>7, <1>9, <1>10, <1>11, <1>12, <1>14, <1>15 DEF IInv

LEMMA WriteStep ==
  ASSUME IInv, NEW x \in Exchanges, Write(x)
  PROVE  IInv'
<1>1. /\ ~At(x, "idle") /\ Server!End({familyOf[t] : t \in {k \in exchange[x].seen : Active(k)}})
      /\ Answer(x, CookieAfter(exchange[x].op)) /\ account' = account /\ UNCHANGED <<familyOf, client>>
  BY DEF Write, At
<1>2. CookieAfter(exchange[x].op) \in {Keep, Clear}
  BY DEF CookieAfter
<1>3. QED BY <1>1, <1>2, EndStep

LEMMA DeleteMeStep ==
  ASSUME IInv, NEW x \in Exchanges, DeleteMe(x)
  PROVE  IInv'
<1>1. /\ ~At(x, "idle") /\ account' = FALSE /\ Server!End(Server!Alive) /\ Answer(x, Clear)
      /\ UNCHANGED <<familyOf, client>>
  BY DEF DeleteMe, Is, At
<1>2. QED BY <1>1, EndStep

LEMMA NextStep ==
  ASSUME IInv, [Next]_vars
  PROVE  IInv'
<1>1. CASE \E x \in Exchanges, b \in Browsers, op \in Operations, f \in Families \cup {None} : Send(x, b, op, f)
  BY <1>1, SendStep
<1>2. ASSUME NEW x \in Exchanges, Handle(x) PROVE IInv'
  BY <1>2, LoginStep, RefreshReadStep, RotateStep, LogoutStep, EndSessionsStep, ScanStep, WriteStep,
     DeleteMeStep, RefuseStep DEF Handle
<1>3. ASSUME NEW x \in Exchanges, Deliver(x) PROVE IInv'
  BY <1>3, DeliverNothing, DeliverToken
<1>4. CASE \E b \in Browsers : Forget(b)
  BY <1>4, ForgetStep
<1>5. CASE UNCHANGED vars
  <2>1. UNCHANGED <<accepted, spent, account, familyOf, jar, bearer, newest, exchange>>
    BY <1>5 DEF vars
  <2>2. TypeOK' /\ IssuedInOrder' /\ LastAccepted' /\ NewestOfFamily' /\ AccountOfSessions'
    BY <2>1 DEF IInv, TypeOK, IssuedInOrder, LastAccepted, NewestOfFamily, AccountOfSessions, TokensOf,
       Server!Alive
  <2>3. CookieNeverSuperseded' /\ OneBrowser'
    BY <2>1 DEF IInv, CookieNeverSuperseded, OneBrowser, Carries
  <2>4. ASSUME NEW y \in Exchanges PROVE ExchangeOK(y)'
    <3>1. ExchangeOK(y)
      BY OwnExchange
    <3>2. QED BY <2>1, <3>1 DEF ExchangeOK, Locals, Arrived, OnTheWay, Alone, LogoutTargets, TokensOf, At
  <2>5. QED BY <2>2, <2>3, <2>4 DEF IInv
<1>6. QED BY <1>1, <1>2, <1>3, <1>4, <1>5, LoseStep DEF Next

-----------------------------------------------------------------------------
(* What a step does to an exchange. *)

(* An exchange proceeds by its own steps. *)
LEMMA OwnSteps ==
  ASSUME IInv, [Next]_vars, NEW x \in Exchanges,
         exchange'[x].pc # exchange[x].pc \/ exchange'[x].cookie # exchange[x].cookie,
         exchange[x].pc \in {"sent", "rotate", "write"}
  PROVE  Handle(x)
<1>1. exchange \in [Exchanges -> Exchange]
  BY DEF IInv, TypeOK
<1>2. ASSUME NEW y \in Exchanges, NEW b \in Browsers, NEW op \in Operations, NEW f \in Families \cup {None},
             Send(y, b, op, f)
      PROVE  FALSE
  <2>1. x # y
    BY <1>2 DEF Send, At
  <2>2. exchange'[x] = IF x \in Pending(b) THEN [exchange[x] EXCEPT !.alone = FALSE] ELSE exchange[x]
    BY <1>2, <2>1 DEF Send
  <2>3. exchange[x] \in Exchange
    BY <1>1
  <2>4. QED BY <2>2, <2>3 DEF Exchange
<1>3. ASSUME NEW y \in Exchanges \ {x}, Handle(y) PROVE FALSE
  <2>1. \E X : exchange' = [exchange EXCEPT ![y] = X]
    <3>1. CASE Login(y) \/ RefreshRead(y) \/ Logout(y)
      BY <1>1, <3>1 DEF Login, RefreshRead, Logout, Answer, Continue
    <3>2. CASE Rotate(y) \/ EndSessions(y) \/ Scan(y)
      BY <1>1, <3>2 DEF Rotate, EndSessions, Scan, Answer, Continue
    <3>3. CASE Write(y) \/ DeleteMe(y) \/ Refuse(y)
      BY <1>1, <3>3 DEF Write, DeleteMe, Refuse, Answer
    <3>4. QED BY <1>3, <3>1, <3>2, <3>3 DEF Handle
  <2>2. QED BY <1>1, <2>1
<1>4. ASSUME NEW y \in Exchanges, Deliver(y) \/ Lose(y) PROVE FALSE
  <2>1. y # x /\ exchange' = [exchange EXCEPT ![y] = Idle]
    BY <1>4 DEF Deliver, Lose, At
  <2>2. QED BY <1>1, <2>1
<1>5. ASSUME \E b \in Browsers : Forget(b) PROVE FALSE
  BY <1>5 DEF Forget
<1>6. ASSUME UNCHANGED vars PROVE FALSE
  BY <1>6 DEF vars
<1>7. QED BY <1>2, <1>3, <1>4, <1>5, <1>6 DEF Next

(* A browser none of whose requests overlap presents the newest token that *)
(* reached it: if that is refused while the session lives, it is not the   *)
(* last one issued.                                                        *)
LEMMA ReuseEffect ==
  ASSUME IInv, [Next]_vars, NEW x \in Exchanges, ReuseOfLiving(x), exchange[x].alone
  PROVE  accepted[familyOf[exchange[x].presented]] # newest[familyOf[exchange[x].presented]]
<1> DEFINE p == exchange[x].presented
           f == familyOf[p]
<1>1. /\ exchange[x].pc \in {"sent", "rotate"} /\ exchange[x].op = "refresh"
      /\ exchange'[x].pc = "scan" /\ exchange'[x].target \in Families /\ f \in Server!Alive
  BY DEF ReuseOfLiving
<1>2. Handle(x)
  BY <1>1, OwnSteps
<1>3. exchange[x] \in Exchange /\ exchange \in [Exchanges -> Exchange]
  BY DEF IInv, TypeOK
<1>4. account
  BY <1>1 DEF IInv, AccountOfSessions
<1>5. \A c : ~Answer(x, c)
  <2>1. SUFFICES ASSUME NEW c, Answer(x, c) PROVE FALSE
    OBVIOUS
  <2>2. exchange'[x].pc = "answered"
    BY <1>3, <2>1 DEF Answer, Idle
  <2>3. QED BY <1>1, <2>2
<1>6. RefreshRead(x) \/ Rotate(x)
  <2>1. ~Login(x) /\ ~Logout(x) /\ ~EndSessions(x) /\ ~DeleteMe(x)
    BY <1>1 DEF Login, Logout, EndSessions, DeleteMe, Is, At
  <2>2. ~Scan(x) /\ ~Write(x) /\ ~Refuse(x)
    BY <1>1, <1>5 DEF Scan, Write, Refuse, At
  <2>3. QED BY <1>2, <2>1, <2>2 DEF Handle
<1>7. p # None
  <2>1. CASE RefreshRead(x)
    BY <1>5, <2>1 DEF RefreshRead, Exists
  <2>2. CASE Rotate(x)
    BY <2>2, OwnExchange DEF ExchangeOK, Locals, Rotate, At
  <2>3. QED BY <1>6, <2>1, <2>2
<1>8. p \in Tokens /\ f \in Families /\ newest[f] = p
  BY <1>7, PresentedFacts, OwnExchange DEF ExchangeOK, Alone
<1>9. ~Active(p)
  <2>1. CASE RefreshRead(x)
    <3>1. \/ Exists(p) /\ ~Active(p) /\ Continue(x, "scan", f)
          \/ Exists(p) /\ Active(p) /\ (Continue(x, "scan", p) \/ Continue(x, "rotate", None))
      BY <1>5, <2>1 DEF RefreshRead
    <3>2. ~Continue(x, "scan", p)
      <4>1. SUFFICES ASSUME Continue(x, "scan", p) PROVE FALSE
        OBVIOUS
      <4>2. exchange'[x].target = p
        BY <1>3, <4>1 DEF Continue, Exchange
      <4>3. QED BY <1>1, <1>8, <4>2
    <3>3. ~Continue(x, "rotate", None)
      <4>1. SUFFICES ASSUME Continue(x, "rotate", None) PROVE FALSE
        OBVIOUS
      <4>2. exchange'[x].pc = "rotate"
        BY <1>3, <4>1 DEF Continue, Exchange
      <4>3. QED BY <1>1, <4>2
    <3>4. QED BY <3>1, <3>2, <3>3
  <2>2. CASE Rotate(x)
    <3>1. ~(Exists(p) /\ Active(p))
      BY <1>5, <2>2 DEF Rotate
    <3>2. QED BY <1>4, <1>7, <3>1 DEF Exists
  <2>3. QED BY <1>6, <2>1, <2>2
<1>10. f # None
  BY <1>8
<1>11. QED BY <1>8, <1>9, <1>10 DEF Active

(* The UPDATE of a logout ends the session its Scan saw. *)
LEMMA LogoutEffect ==
  ASSUME IInv, [Next]_vars, NEW x \in Exchanges, At(x, "write"), exchange[x].op = "logout",
         exchange'[x].cookie = Clear, \A t \in exchange[x].seen : Active(t)
  PROVE  accepted'[familyOf[exchange[x].presented]] = Ended
<1> DEFINE f == familyOf[exchange[x].presented]
<1>1. exchange[x].cookie = Keep /\ LogoutTargets(x) /\ exchange[x].pc = "write"
  BY OwnExchange DEF ExchangeOK, Locals, At
<1>2. Handle(x)
  BY <1>1, OwnSteps
<1>3. ~Refuse(x)
  <2>1. exchange \in [Exchanges -> Exchange]
    BY DEF IInv, TypeOK
  <2>2. QED BY <2>1 DEF Refuse, Answer, Idle
<1>4. Write(x)
  <2>1. ~Login(x) /\ ~RefreshRead(x) /\ ~Logout(x) /\ ~EndSessions(x) /\ ~DeleteMe(x)
    BY <1>1 DEF Login, RefreshRead, Logout, EndSessions, DeleteMe, Is, At
  <2>2. ~Rotate(x) /\ ~Scan(x)
    BY <1>1 DEF Rotate, Scan, At
  <2>3. QED BY <1>2, <1>3, <2>1, <2>2 DEF Handle
<1> DEFINE F == {familyOf[t] : t \in {k \in exchange[x].seen : Active(k)}}
<1>5. accepted' = [g \in Families |-> IF g \in F THEN Ended ELSE accepted[g]]
  BY <1>4 DEF Write, Server!End
<1>6. f \in Families
  BY <1>1, PresentedFacts DEF LogoutTargets
<1>7. CASE exchange[x].seen = {}
  <2>1. accepted[f] = Ended
    BY <1>1, <1>7 DEF LogoutTargets
  <2>2. QED BY <1>5, <1>6, <2>1
<1>8. CASE exchange[x].seen # {}
  <2>1. PICK t \in exchange[x].seen : TRUE
    BY <1>8
  <2>2. familyOf[t] = f
    BY <1>1, <2>1 DEF LogoutTargets
  <2>3. f \in F
    BY <2>1, <2>2
  <2>4. QED BY <1>5, <1>6, <2>3
<1>9. QED BY <1>7, <1>8

-----------------------------------------------------------------------------

(* Every reachable state has all parts of the invariant (what login,       *)
(* refresh, logout and the browser's cookie do to one session).            *)
THEOREM Invariance == Spec => []IInv
<1>1. Init => IInv
  BY InitIInv
<1>2. IInv /\ [Next]_vars => IInv'
  BY NextStep
<1>3. QED BY <1>1, <1>2, PTL DEF Spec

(* Whatever the browsers send and whichever answers are lost, the table of *)
(* tokens, the cookies and the requests stay well formed: a cookie holds a *)
(* token that was issued, and an issued token has its session.             *)
THEOREM TypeCorrect == Spec => []TypeOK
<1>1. IInv => TypeOK
  BY DEF IInv
<1>2. QED BY <1>1, Invariance, PTL

(* The cookie a browser presents is the newest of its session that reached *)
(* it: no order of answers makes a controller put an older one back.       *)
THEOREM CookieNewest == Spec => []CookieNeverSuperseded
<1>1. IInv => CookieNeverSuperseded
  BY DEF IInv
<1>2. QED BY <1>1, Invariance, PTL

(* Reuse detection never ends the session of a browser that waits for its  *)
(* answers and gets them.                                                  *)
THEOREM ThrownOutByLostAnswer == Spec => ThrownOutOnlyByLostAnswer
<1>1. IInv /\ [Next]_vars =>
        [\A x \in Exchanges :
           (ReuseOfLiving(x) /\ exchange[x].alone)
             => accepted[familyOf[exchange[x].presented]] # newest[familyOf[exchange[x].presented]]]_vars
  BY ReuseEffect
<1>2. QED BY <1>1, Invariance, PTL DEF Spec, ThrownOutOnlyByLostAnswer

(* Logout ends the session of the presented cookie, unless a rotation      *)
(* commits between the rows its UPDATE picked and the write.               *)
THEOREM LogoutEnds == Spec => LogoutEndsSession
<1>1. IInv /\ [Next]_vars =>
        [\A x \in Exchanges :
           (/\ At(x, "write") /\ exchange[x].op = "logout" /\ exchange'[x].cookie = Clear
            /\ \A t \in exchange[x].seen : Active(t))
             => accepted'[familyOf[exchange[x].presented]] = Ended]_vars
  BY LogoutEffect
<1>2. QED BY <1>1, Invariance, PTL DEF Spec, LogoutEndsSession

-----------------------------------------------------------------------------
(* The sessions, as the table of tokens promises them. *)

LEMMA SessionSteps ==
  ASSUME IInv, [Next]_vars
  PROVE  [Server!Next]_<<accepted, spent>>
<1>1. ASSUME UNCHANGED sessions PROVE [Server!Next]_<<accepted, spent>>
  BY <1>1 DEF sessions
<1>2. ASSUME NEW x \in Exchanges, Login(x) PROVE [Server!Next]_<<accepted, spent>>
  BY <1>2 DEF Login, Server!Next
<1>3. ASSUME NEW x \in Exchanges, Rotate(x) PROVE [Server!Next]_<<accepted, spent>>
  <2>1. CASE \E t \in Tokens : Server!Renew(familyOf[exchange[x].presented], t)
    BY <2>1 DEF Server!Next, Server!Renew, Server!Alive
  <2>2. QED BY <1>1, <1>3, <2>1 DEF Rotate, Continue
<1>4. ASSUME NEW F, Server!End(F) PROVE [Server!Next]_<<accepted, spent>>
  <2>1. F \in SUBSET Families
    BY <1>4 DEF Server!End, Server!Alive
  <2>2. QED BY <1>4, <2>1 DEF Server!Next
<1>5. ASSUME NEW x \in Exchanges, Handle(x) PROVE [Server!Next]_<<accepted, spent>>
  <2>1. CASE RefreshRead(x) \/ Logout(x) \/ EndSessions(x)
    BY <1>1, <2>1 DEF RefreshRead, Logout, EndSessions, Continue
  <2>2. CASE Scan(x) \/ Refuse(x)
    BY <1>1, <2>2 DEF Scan, Refuse
  <2>3. CASE Write(x)
    BY <1>4, <2>3 DEF Write
  <2>4. CASE DeleteMe(x)
    BY <1>4, <2>4 DEF DeleteMe
  <2>5. QED BY <1>2, <1>3, <1>5, <2>1, <2>2, <2>3, <2>4 DEF Handle
<1>6. ASSUME \/ \E x \in Exchanges, b \in Browsers, op \in Operations, f \in Families \cup {None} :
                  Send(x, b, op, f)
             \/ \E x \in Exchanges : Deliver(x) \/ Lose(x)
             \/ \E b \in Browsers : Forget(b)
             \/ UNCHANGED vars
      PROVE  UNCHANGED sessions
  BY <1>6 DEF Send, Deliver, Lose, Forget, vars, sessions
<1>7. QED BY <1>1, <1>5, <1>6 DEF Next

(* Handlers that act on what they read some awaits ago, or that race with  *)
(* each other, change the sessions only as Sessions allows: a token renews *)
(* its session once, and what has ended is not renewed.  RefreshSessions   *)
(* shows the same of the SQL statements.                                   *)
THEOREM Refinement == Spec => Server!Spec
<1>1. Init => Server!Init
  BY DEF Init
<1>2. IInv /\ [Next]_vars => [Server!Next]_<<accepted, spent>>
  BY SessionSteps
<1>3. QED BY <1>1, <1>2, Invariance, PTL DEF Spec, Server!Spec
=============================================================================
