--------------------------- MODULE TokenProperties ---------------------------
(***************************************************************************)
(* What holds of mailed one-time tokens, whatever the requests interleave. *)
(***************************************************************************)
EXTENDS OneTimeTokens

(* What a row holds is consumed at most once (confirm, shared/auth/        *)
(* repositories:221,282), so that of two confirmations which both found a  *)
(* token unused one succeeds, unless a new request writes the row between  *)
(* them. Then both succeed: the WHERE of confirm has the id of the row and *)
(* not the token, and the second consumes what the request put there.      *)
OneGrantPerIssue ==
  \A a \in Accounts : \A i, j \in DOMAIN granted[a] :
    granted[a][i].consumed = granted[a][j].consumed => i = j

(* The account changes in the very commit that consumes a token of it, and *)
(* no token is consumed without its effect (confirm is one transaction).   *)
ConsumedWithItsEffect ==
  [][\A a \in Accounts :
       granted'[a] # granted[a] <=>
         /\ table[a] # None /\ table'[a] # None
         /\ ~table[a].used /\ table'[a].used
         /\ table'[a].tokenHash = table[a].tokenHash]_vars

(* The last token issued to an account stays in its row once its mail is   *)
(* reported as sent: neither an older request that takes its token back    *)
(* (deleteByIdAndTokenHash) nor a confirmation displaces it. Of a token    *)
(* that was mailed before the last one was issued it says nothing: that    *)
(* one is gone for good, also when the mail of the last one fails.         *)
LastIssuedStands ==
  \A a \in Accounts :
    (latest[a] # None /\ mail[latest[a]] = "sent" /\ a[2] \in users)
    => table[a] # None /\ table[a].tokenHash = latest[a]

=============================================================================
