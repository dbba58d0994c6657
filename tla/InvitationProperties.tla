------------------------ MODULE InvitationProperties ------------------------
(***************************************************************************)
(* What the requests of Invitations keep true, and what they do not.       *)
(***************************************************************************)
EXTENDS Invitations

(* A pending invitation settles once: whichever of accept, decline, cancel, *)
(* lazy expiry and account deletion comes first, no later one changes it    *)
(* while its organization exists.                                           *)
SettledForGood ==
  [][\A i \in Ids : (i \in Existing /\ i \notin Pending) =>
       \/ invitation'[i] = invitation[i]
       \/ invitation'[i] = Gone /\ invitation[i].organization \notin organizations']_vars

(* The invitations that a step accepts. *)
Accepted(i) ==
  i \in Pending /\ invitation'[i] # Gone /\ invitation'[i].status = "ACCEPTED"

(* An invitation is accepted exactly when someone becomes a member, unless  *)
(* an admin adds the user directly: in one step, of the inviting            *)
(* organization, with the invited email, once per invitation, and not at    *)
(* all if that user is a member already (shared/invitation/repositories:98-101). *)
AcceptanceAdmitsAddressee ==
  [][/\ \A i \in Ids : Accepted(i) =>
          \E u \in Users :
            /\ account'[invitation[i].email] = u
            /\ members' \ members = {<<invitation[i].organization, u>>}
     /\ members' \ members # {} =>
          (\E i \in Ids : Accepted(i)) \/ \E r \in Requests : AddMemberInsert(r)
     /\ \A i, j \in Ids : Accepted(i) /\ Accepted(j) => i = j]_vars

(* Requests that invite the same email at the same time leave one pending  *)
(* invitation per organization.                                            *)
OnePendingPerAddress ==
  \A i, j \in Pending :
    (/\ invitation[i].organization = invitation[j].organization
     /\ invitation[i].email = invitation[j].email) => i = j

=============================================================================
