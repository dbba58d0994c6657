-------------------------- MODULE ListingProperties --------------------------
(***************************************************************************)
(* What a client that reads a list page by page can rely on.               *)
(***************************************************************************)
EXTENDS Listings

(* Whoever is a member from the first page to the last is listed, and no   *)
(* membership is listed twice, whatever joins and leaves between the pages *)
(* and whether or not the row a cursor names still exists                  *)
(* (organizations/services:124-129).                                       *)
MembersListedOnce ==
  walk.list = "members" =>
    /\ walk.repeated = {}
    /\ walk.pc = "done" => walk.stable \subseteq walk.listed

(* A list by offset errs by no more than the shifts under it: a walk       *)
(* misses at most as many of the reader's lasting organizations as the     *)
(* reader lost memberships meanwhile, and repeats at most as many as it    *)
(* gained.                                                                 *)
OffsetErrsByShifts ==
  walk.list = "organizations" =>
    /\ walk.pc = "done" => Cardinality(walk.stable \ walk.listed) <= walk.lost
    /\ Cardinality(walk.repeated) <= walk.gained
=============================================================================
