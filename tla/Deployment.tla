----------------------------- MODULE Deployment -----------------------------
(***************************************************************************)
(* The continuous deployment to Cloud Run: cd-gcp.yml runs the phases of   *)
(* gcp-cd.mjs (plan, migrate, apply, verify, cleanup) one job at a time.   *)
(* A job is a process with one step per call to the outside; it may stop   *)
(* after any of them, and every check that fails stops it, so that Abort   *)
(* stands for all those paths and a step only has the guards it passes.    *)
(***************************************************************************)
EXTENDS Naturals

CONSTANTS
  LastCommit,  (* The main branch ends here.  A bound.                     *)
  Builds,      (* What builds of one commit can produce: a rebuild gives   *)
               (* the same digest (cache) or another one.                  *)
  Schema,      (* The number of migrations in each commit.                 *)
  None         (* No image.                                                *)

Commits == 0..LastCommit

(* An image is named by its commit and its build: the digest. *)
Images == Commits \X Builds

CommitOf(image) == image[1]

ASSUME SchemaOfCommits == LastCommit \in Nat /\ Schema \in [Commits -> Nat]

ASSUME NoneIsNoImage == None \notin Images

VARIABLES
  main,      (* The head of the main branch.                               *)
  registry,  (* The images Artifact Registry holds.                        *)
  newest,    (* The image pushed last.                                     *)
  released,  (* The images with a release- tag.                            *)
  service,   (* Cloud Run: the revision created last, and the one that is  *)
             (* ready and serves.                                          *)
  state,     (* The image in Terraform's state.                            *)
  db,        (* _prisma_migrations: how many are applied, and whether one  *)
             (* is left unfinished.                                        *)
  job,       (* The deployment that runs.                                  *)
  verified,  (* Images whose verification has succeeded.                   *)
  replaced   (* The image that served before the one that serves.          *)

vars == <<main, registry, newest, released, service, state, db, job, verified, replaced>>

cloud == <<main, registry, newest, released, service, state, db, verified, replaced>>

Idle == [pc |-> "idle", commit |-> None, image |-> None, previous |-> None]

Phases ==
  {"idle", "current", "publish", "plan", "migrate", "apply", "tag image",
   "terraform", "rollout", "verify", "cleanup", "untag"}

TypeOK ==
  /\ main \in Commits
  /\ registry \subseteq Images /\ newest \in Images /\ released \subseteq Images
  /\ service \in [created : Images, ready : Images]
  /\ state \in Images
  /\ db \in [applied : Nat, broken : BOOLEAN]
  /\ job \in [pc : Phases, commit : Commits \cup {None}, image : Images \cup {None},
              previous : Images \cup {None}]
  /\ job.pc = "idle" => job = Idle
  /\ verified \subseteq Images
  /\ replaced \in Images \cup {None}

(* A first deployment has been made by hand (docs/deployment-gcp.md). *)
Init ==
  \E image \in {0} \X Builds :
    /\ main = 0
    /\ registry = {image} /\ newest = image /\ released = {image}
    /\ service = [created |-> image, ready |-> image]
    /\ state = image
    /\ db = [applied |-> Schema[0], broken |-> FALSE]
    /\ job = Idle
    /\ verified = {image}
    /\ replaced = None

-----------------------------------------------------------------------------

At(pc) == job.pc = pc

(* readyDigest: one revision, ready and serving. *)
Stable == service.created = service.ready

(* assertDeploymentPlan: no drift between Terraform's state and what it
   refreshes.  That the plan changes the image only is a check of its own. *)
NoDrift == state = service.created

(* Mutant: nobody compares the commit with the head of main. *)
AnyCommit(c) == c <= main

UpToDate(c) == c = main

(* The job's next phase; nothing outside has changed. *)
Proceed(phase) ==
  /\ job' = [job EXCEPT !.pc = phase]
  /\ UNCHANGED cloud

Push ==
  /\ main < LastCommit
  /\ main' = main + 1
  /\ UNCHANGED <<registry, newest, released, service, state, db, job, verified, replaced>>

(* A push, or somebody running an old workflow again. The concurrency group
   lets a job start when no other runs. *)
StartRun(c) ==
  /\ At("idle") /\ c <= main
  /\ job' = [Idle EXCEPT !.pc = "current", !.commit = c]
  /\ UNCHANGED cloud

Current == At("current") /\ UpToDate(job.commit) /\ Proceed("publish")

(* Build, and push with the candidate tag of this run and attempt. *)
Publish ==
  /\ At("publish")
  /\ \E image \in {job.commit} \X Builds :
       /\ registry' = registry \cup {image}
       /\ newest' = IF image \in registry THEN newest ELSE image
       /\ job' = [job EXCEPT !.pc = "plan", !.image = image]
  /\ UNCHANGED <<main, released, service, state, db, verified, replaced>>

(* The plan may change the image and nothing else, and finds no drift. *)
Plan ==
  /\ At("plan")
  /\ UpToDate(job.commit)
  /\ Stable /\ NoDrift
  /\ job.image \in registry
  /\ job' = [job EXCEPT !.pc = "migrate", !.previous = service.ready]
  /\ UNCHANGED cloud

(* Mutant: what the database has beyond the commit's migrations is no error. *)
LenientMigrations == ~db.broken

(* pendingMigrations: the history is a prefix of the commit's migrations. *)
PrefixOfMigrations == ~db.broken /\ db.applied <= Schema[job.commit]

(* prisma migrate deploy applies all pending migrations in order; when one
   fails or the time is over some are applied, one perhaps left unfinished. *)
Migrate ==
  LET target == Schema[job.commit] IN
  /\ At("migrate")
  /\ PrefixOfMigrations
  /\ \E n \in {db.applied} \cup (db.applied..target), broken \in BOOLEAN :
       /\ broken => n < target
       /\ db' = [applied |-> n, broken |-> broken]
       /\ job' = IF n < target THEN Idle ELSE [job EXCEPT !.pc = "apply"]
  /\ UNCHANGED <<main, registry, newest, released, service, state, verified, replaced>>

Tag(image, phase) ==
  /\ image \in registry
  /\ released' = released \cup {image}
  /\ job' = [job EXCEPT !.pc = phase]
  /\ UNCHANGED <<main, registry, newest, service, state, db, verified, replaced>>

(* Mutant: only the new image gets a release tag, after terraform apply. *)
TagNothing ==
  /\ At("apply") /\ Stable /\ service.ready = job.previous
  /\ Proceed("terraform")

TagPrevious ==
  /\ At("apply") /\ Stable /\ service.ready = job.previous
  /\ Tag(job.previous, "tag image")

TagImage == At("tag image") /\ Tag(job.image, "terraform")

(* terraform apply: Cloud Run takes the new revision... *)
Terraform ==
  /\ At("terraform")
  /\ service' = [service EXCEPT !.created = job.image]
  /\ job' = [job EXCEPT !.pc = "rollout"]
  /\ UNCHANGED <<main, registry, newest, released, state, db, verified, replaced>>

(* ... makes it ready, whether or not anybody still waits for it ... *)
RollOut ==
  /\ ~Stable
  /\ service' = [service EXCEPT !.ready = service.created]
  /\ replaced' = service.ready
  /\ UNCHANGED <<main, registry, newest, released, state, db, job, verified>>

(* ... and terraform saves its state. The digest and a second plan agree. *)
Applied ==
  /\ At("rollout") /\ service.ready = job.image
  /\ state' = job.image
  /\ job' = [job EXCEPT !.pc = "verify"]
  /\ UNCHANGED <<main, registry, newest, released, service, db, verified, replaced>>

(* terraform fails or is killed, with its state saved or not. *)
ApplyFails ==
  /\ At("rollout")
  /\ state' \in {state, job.image}
  /\ job' = Idle
  /\ UNCHANGED <<main, registry, newest, released, service, db, verified, replaced>>

Verify ==
  /\ At("verify")
  /\ verified' = verified \cup {job.image}
  /\ job' = [job EXCEPT !.pc = "cleanup"]
  /\ UNCHANGED <<main, registry, newest, released, service, state, db, replaced>>

CleanUp == At("cleanup") /\ Stable /\ service.ready = job.image /\ Proceed("untag")

(* Mutant: only the current image's tag is kept. *)
AllButCurrent == released \ {job.image}

Obsolete == released \ {job.image, job.previous}

(* One gcloud call for each obsolete tag. *)
Untag(image) ==
  /\ At("untag") /\ image \in Obsolete
  /\ released' = released \ {image}
  /\ UNCHANGED <<main, registry, newest, service, state, db, job, verified, replaced>>

Finish ==
  /\ At("untag") /\ Obsolete = {}
  /\ job' = Idle
  /\ UNCHANGED cloud

(* Mutant: release.json outlives the job. *)
AbortKeepingRecord ==
  /\ ~At("idle")
  /\ job' = [job EXCEPT !.pc = "idle"]
  /\ UNCHANGED cloud

(* A check or a command fails, the job's 40 minutes are over, the runner is
   lost: the next job starts on a runner with no files. *)
Abort ==
  /\ ~At("idle")
  /\ job' = Idle
  /\ UNCHANGED cloud

-----------------------------------------------------------------------------

(* The cleanup policies delete old images, but neither those with a release
   tag nor the most recent one. *)
Collect(image) ==
  /\ image \in registry \ (released \cup {newest})
  /\ registry' = registry \ {image}
  /\ UNCHANGED <<main, newest, released, service, state, db, job, verified, replaced>>

(* The operator goes back to a protected image by hand, never while a job
   runs (docs/deployment-gcp-cd.md:139, 140). *)
Recover(image) ==
  /\ At("idle") /\ image \in registry \cap released
  /\ service' = [created |-> image, ready |-> image]
  /\ state' = image
  /\ replaced' = IF image = service.ready THEN replaced ELSE service.ready
  /\ UNCHANGED <<main, registry, newest, released, db, job, verified>>

(* The operator rolls a migration back that was left unfinished. *)
Resolve ==
  /\ At("idle") /\ db.broken
  /\ db' = [db EXCEPT !.broken = FALSE]
  /\ UNCHANGED <<main, registry, newest, released, service, state, job, verified, replaced>>

Job ==
  \/ \E c \in Commits : StartRun(c)
  \/ Current \/ Publish \/ Plan \/ Migrate
  \/ TagPrevious \/ TagImage \/ Terraform \/ Applied \/ ApplyFails
  \/ Verify \/ CleanUp \/ (\E image \in Images : Untag(image)) \/ Finish \/ Abort

Next ==
  \/ Job \/ Push \/ RollOut
  \/ \E image \in Images : Collect(image) \/ Recover(image)
  \/ Resolve

Spec == Init /\ [][Next]_vars
=============================================================================
