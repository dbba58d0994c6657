------------------------ MODULE DeploymentProperties ------------------------
(***************************************************************************)
(* What a deployment that may stop anywhere leaves behind.                 *)
(***************************************************************************)
EXTENDS Deployment

(* The registry never deletes an image that serves or is about to: both    *)
(* are tagged before terraform runs (gcp-cd.mjs, apply), and cleanup       *)
(* leaves their tags, wherever earlier jobs stopped.                       *)
ServedImagesKept ==
  {service.created, service.ready} \subseteq registry \cap released

(* The image that served before, to which the operator would go back,      *)
(* keeps its tag until another image serves. The exception is a job that   *)
(* deploys once more the very image that serves (a re-run after a failed   *)
(* verification): then previous is that image too, and the tag goes.       *)
RollbackImageKept ==
  [][(replaced \in released \ released') => job.image = job.previous]_vars

(* Tags go only while the image that serves has passed its verification:   *)
(* a job that fails leaves every tag (docs/deployment-gcp-cd.md:138).      *)
UntagOnlyWhenVerified ==
  [][released \subseteq released' \/ (Stable /\ service.ready \in verified)]_vars

(* A job changes the running image only when the database has exactly the  *)
(* migrations of its commit, none unfinished, whatever earlier jobs left   *)
(* half done.                                                              *)
DeployedOnItsSchema ==
  [][(service'.created # service.created /\ ~At("idle"))
     => ~db.broken /\ db.applied = Schema[CommitOf(service'.created)]]_vars

(* A job never replaces the image of a later commit, although old          *)
(* workflows can be run again and main moves while a job runs.             *)
NoDowngrade ==
  [][(service'.created # service.created /\ ~At("idle"))
     => CommitOf(service'.created) >= CommitOf(service.created)]_vars
=============================================================================
