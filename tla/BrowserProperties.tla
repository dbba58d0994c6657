-------------------------- MODULE BrowserProperties --------------------------
(***************************************************************************)
(* What refresh token rotation means for a browser whose requests overlap  *)
(* and whose answers may be late or lost.                                  *)
(***************************************************************************)
EXTENDS BrowserSessions

(* A browser never goes back to a token it was given the successor of,     *)
(* however its answers overtake each other: the cookie it presents is the  *)
(* newest of its session that reached it (auth/controllers:74-82).         *)
CookieNeverSuperseded ==
  \A b \in Browsers : jar[b] # None => jar[b] = newest[familyOf[jar[b]]]

(* Detects that the token of x was used before while its session lives. *)
ReuseOfLiving(x) ==
  LET f == familyOf[exchange[x].presented] IN
  /\ exchange[x].pc \in {"sent", "rotate"} /\ exchange[x].op = "refresh"
  /\ exchange'[x].pc = "scan" /\ exchange'[x].target \in Families
  /\ f \in Server!Alive

(* Reuse detection (auth/services:263-266) throws a browser out only if a  *)
(* request of its own ran at the same time, or the answer with the token   *)
(* that replaced its cookie was lost: a browser that waits for its answers *)
(* and gets them keeps its session.                                        *)
ThrownOutOnlyByLostAnswer ==
  [][\A x \in Exchanges :
       (ReuseOfLiving(x) /\ exchange[x].alone)
         => accepted[familyOf[exchange[x].presented]] # newest[familyOf[exchange[x].presented]]]_vars

(* Logout ends the session of the cookie, whichever of its tokens the      *)
(* cookie holds: also one whose successor was issued and lost, or is still *)
(* on its way and will find its session ended.  Only a rotation that       *)
(* commits within the very UPDATE escapes it (auth/services:303-311).      *)
LogoutEndsSession ==
  [][\A x \in Exchanges :
       (/\ At(x, "write") /\ exchange[x].op = "logout" /\ exchange'[x].cookie = Clear
        /\ \A t \in exchange[x].seen : Active(t))
         => accepted'[familyOf[exchange[x].presented]] = Ended]_vars
=============================================================================
