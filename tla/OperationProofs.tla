--------------------------- MODULE OperationProofs ---------------------------
(***************************************************************************)
(* What runs the service: the deployment job, and the server process that  *)
(* a revision runs.                                                        *)
(*                                                                         *)
(* The properties of Deployment hold for any number of commits and builds, *)
(* and any number of migrations in each commit.  What a job has checked    *)
(* stays true although it goes on much later: nobody but the job changes   *)
(* the service while it runs, except Cloud Run finishing what it was told. *)
(*                                                                         *)
(* Those of ServerProcess hold for any number of requests and signals and  *)
(* any limit of the queue: exit code 0 leaves no ended span behind, since  *)
(* nothing can be queued once telemetry has been shut down.                *)
(***************************************************************************)
EXTENDS DeploymentProperties, ProcessProperties, FiniteSetTheorems, TLAPS

(* No released image is newer than main: all were built from it. *)
NoneAhead == \A image \in released : CommitOf(image) <= main

(* The phases in which the job knows its image. *)
Built ==
  {"plan", "migrate", "apply", "tag image", "terraform", "rollout", "verify",
   "cleanup", "untag"}

JobOK ==
  /\ ~At("idle") => job.commit \in Commits /\ job.commit <= main
  /\ job.pc \in Built => job.image \in Images /\ CommitOf(job.image) = job.commit
  /\ job.pc \in {"migrate", "apply", "tag image", "terraform"} =>
       /\ service.created = job.previous /\ service.ready = job.previous
       /\ CommitOf(job.previous) <= job.commit
  /\ job.pc \in {"apply", "tag image", "terraform"} =>
       ~db.broken /\ db.applied = Schema[job.commit]
  /\ At("terraform") => job.image \in registry \cap released
  /\ At("rollout") =>
       /\ service.created = job.image
       /\ service.ready = job.previous \/ (service.ready = job.image /\ replaced = job.previous)
  /\ job.pc \in {"verify", "cleanup", "untag"} =>
       /\ service.created = job.image /\ service.ready = job.image
       /\ replaced = job.previous \/ job.image = job.previous
  /\ job.pc \in {"cleanup", "untag"} => job.image \in verified

IInv == TypeOK /\ ServedImagesKept /\ NoneAhead /\ JobOK

-----------------------------------------------------------------------------

LEMMA CommitOfImage ==
  ASSUME NEW image \in Images
  PROVE  CommitOf(image) \in Commits
  BY DEF Images, CommitOf

LEMMA ImageOfCommit ==
  ASSUME NEW c \in Commits, NEW image \in {c} \X Builds
  PROVE  image \in Images /\ CommitOf(image) = c
  BY DEF Images, CommitOf

LEMMA CommitsAreNat == Commits \subseteq Nat /\ 0 \in Commits
  BY SchemaOfCommits DEF Commits

LEMMA InitIInv == Init => IInv
<1> SUFFICES ASSUME Init PROVE IInv
  OBVIOUS
<1>1. PICK image \in {0} \X Builds :
        /\ main = 0
        /\ registry = {image} /\ newest = image /\ released = {image}
        /\ service = [created |-> image, ready |-> image]
        /\ state = image
        /\ db = [applied |-> Schema[0], broken |-> FALSE]
        /\ job = Idle
        /\ verified = {image}
        /\ replaced = None
  BY DEF Init
<1>2. image \in Images /\ CommitOf(image) = 0
  BY <1>1, ImageOfCommit, CommitsAreNat
<1>3. TypeOK
  BY <1>1, <1>2, CommitsAreNat, SchemaOfCommits DEF TypeOK, Idle, Phases
<1>4. ServedImagesKept
  BY <1>1 DEF ServedImagesKept
<1>5. NoneAhead
  BY <1>1, <1>2 DEF NoneAhead
<1>6. JobOK
  BY <1>1 DEF JobOK, Idle, At, Built
<1> QED
  BY <1>3, <1>4, <1>5, <1>6 DEF IInv

(* What a step does to the job, when the rest stays as it is. *)
LEMMA QuietStep ==
  ASSUME IInv, UNCHANGED cloud, job' = Idle
  PROVE  IInv'
  BY DEF IInv, TypeOK, ServedImagesKept, NoneAhead, JobOK, cloud, Idle, Phases, At, Built

LEMMA PushStep ==
  ASSUME IInv, Push
  PROVE  IInv'
<1>1. main' = main + 1 /\ main' \in Commits
  BY SchemaOfCommits DEF Push, Commits, IInv, TypeOK
<1>2. main \in Nat /\ main' \in Nat
  BY <1>1, CommitsAreNat DEF IInv, TypeOK
<1>3. \A image \in released : CommitOf(image) \in Nat /\ CommitOf(image) <= main
  BY CommitOfImage, CommitsAreNat DEF IInv, TypeOK, NoneAhead
<1>4. NoneAhead'
  BY <1>1, <1>2, <1>3 DEF Push, NoneAhead
<1>5. ~At("idle") => job.commit \in Commits /\ job.commit <= main'
  <2> SUFFICES ASSUME ~At("idle") PROVE job.commit \in Commits /\ job.commit <= main'
    OBVIOUS
  <2>1. job.commit \in Commits /\ job.commit \in Nat /\ job.commit <= main
    BY CommitsAreNat DEF IInv, JobOK
  <2> QED
    BY <1>1, <1>2, <2>1
<1>6. JobOK'
  BY <1>5 DEF Push, IInv, JobOK, At, Built
<1> QED
  BY <1>1, <1>4, <1>6 DEF Push, IInv, TypeOK, ServedImagesKept

(* A migration that gets through has applied what was missing, no more. *)
LEMMA MigrateEffect ==
  ASSUME IInv, Migrate
  PROVE  /\ db' \in [applied : Nat, broken : BOOLEAN]
         /\ \/ job' = Idle
            \/ /\ job' = [job EXCEPT !.pc = "apply"]
               /\ ~db'.broken /\ db'.applied = Schema[job.commit]
<1>1. job.commit \in Commits
  BY DEF Migrate, At, IInv, JobOK
<1> DEFINE target == Schema[job.commit]
<1>2. target \in Nat /\ db.applied \in Nat
  BY <1>1, SchemaOfCommits DEF IInv, TypeOK
<1>3. db.applied <= target
  BY DEF Migrate, PrefixOfMigrations
<1> HIDE DEF target
<1>4. PICK n \in {db.applied} \cup (db.applied..target), broken \in BOOLEAN :
        /\ broken => n < target
        /\ db' = [applied |-> n, broken |-> broken]
        /\ job' = (IF n < target THEN Idle ELSE [job EXCEPT !.pc = "apply"])
  BY DEF Migrate, target
<1>5. n \in Nat /\ n <= target
  BY <1>2, <1>3, <1>4
<1>6. db' \in [applied : Nat, broken : BOOLEAN] /\ db'.applied = n /\ db'.broken = broken
  BY <1>4, <1>5
<1>7. CASE n < target
  BY <1>4, <1>6, <1>7
<1>8. CASE ~(n < target)
  <2>1. n = target
    BY <1>2, <1>5, <1>8
  <2> QED
    BY <1>4, <1>6, <1>8, <2>1 DEF target
<1> QED
  BY <1>7, <1>8

LEMMA MigrateStep ==
  ASSUME IInv, Migrate
  PROVE  IInv'
<1>1. UNCHANGED <<main, registry, newest, released, service, state, verified, replaced>>
  BY DEF Migrate
<1>2. ServedImagesKept' /\ NoneAhead'
  BY <1>1 DEF IInv, ServedImagesKept, NoneAhead
<1>3. CASE job' = Idle
  BY <1>1, <1>2, <1>3, MigrateEffect DEF IInv, TypeOK, JobOK, Idle, Phases, At, Built
<1>4. CASE /\ job' = [job EXCEPT !.pc = "apply"]
           /\ ~db'.broken /\ db'.applied = Schema[job.commit]
  <2>1. TypeOK'
    BY <1>1, <1>4, MigrateEffect DEF IInv, TypeOK, Phases
  <2>2. JobOK'
    BY <1>1, <1>4 DEF Migrate, IInv, TypeOK, JobOK, At, Built
  <2> QED
    BY <1>2, <2>1, <2>2 DEF IInv
<1> QED
  BY <1>3, <1>4, MigrateEffect

LEMMA NextStep == IInv /\ [Next]_vars => IInv'
<1> SUFFICES ASSUME IInv, [Next]_vars PROVE IInv'
  OBVIOUS
<1> USE CommitsAreNat, SchemaOfCommits DEF IInv, TypeOK, ServedImagesKept, NoneAhead, JobOK,
       cloud, Phases, At, Built, Stable
<1>1. ASSUME NEW c \in Commits, StartRun(c) PROVE IInv'
  BY <1>1 DEF StartRun, Idle
<1>2. CASE Current
  BY <1>2 DEF Current, Proceed, Idle
<1>3. CASE Publish
  <2>1. PICK image \in {job.commit} \X Builds :
          /\ registry' = registry \cup {image}
          /\ newest' = (IF image \in registry THEN newest ELSE image)
          /\ job' = [job EXCEPT !.pc = "plan", !.image = image]
    BY <1>3 DEF Publish
  <2>2. image \in Images /\ CommitOf(image) = job.commit
    BY <1>3, <2>1, ImageOfCommit DEF Publish
  <2>3. job' = [pc |-> "plan", commit |-> job.commit, image |-> image, previous |-> job.previous]
    BY <2>1
  <2>4. UNCHANGED <<main, released, service, state, db, verified, replaced>>
    BY <1>3 DEF Publish
  <2> HIDE DEF IInv
  <2>5. TypeOK'
    BY <1>3, <2>1, <2>2, <2>3, <2>4 DEF Publish, IInv
  <2>6. ServedImagesKept' /\ NoneAhead'
    BY <2>1, <2>4 DEF IInv
  <2>7. JobOK'
    BY <1>3, <2>2, <2>3, <2>4 DEF Publish, IInv
  <2> QED
    BY <2>5, <2>6, <2>7 DEF IInv
<1>4. CASE Plan
  BY <1>4, CommitOfImage DEF Plan, Idle, UpToDate
<1>5. CASE Migrate
  BY <1>5, MigrateStep
<1>6. CASE TagPrevious
  BY <1>6 DEF TagPrevious, Tag, Idle
<1>7. CASE TagImage
  BY <1>7 DEF TagImage, Tag, Idle
<1>8. CASE Terraform
  BY <1>8 DEF Terraform, Idle
<1>9. CASE Applied
  BY <1>9 DEF Applied, Idle
<1>10. CASE ApplyFails
  BY <1>10 DEF ApplyFails, Idle
<1>11. CASE Verify
  BY <1>11 DEF Verify, Idle
<1>12. CASE CleanUp
  BY <1>12 DEF CleanUp, Proceed, Idle
<1>13. ASSUME NEW image \in Images, Untag(image) PROVE IInv'
  BY <1>13 DEF Untag, Obsolete, Idle
<1>14. CASE Finish
  BY <1>14, QuietStep DEF Finish
<1>15. CASE Abort
  BY <1>15, QuietStep DEF Abort
<1>16. CASE Push
  BY <1>16, PushStep
<1>17. CASE RollOut
  BY <1>17 DEF RollOut, Idle
<1>18. ASSUME NEW image \in Images, Collect(image) PROVE IInv'
  BY <1>18 DEF Collect, Idle
<1>19. ASSUME NEW image \in Images, Recover(image) PROVE IInv'
  BY <1>19 DEF Recover, Idle
<1>20. CASE Resolve
  BY <1>20 DEF Resolve, Idle
<1>21. CASE UNCHANGED vars
  BY <1>21 DEF vars, Idle
<1> QED
  BY <1>1, <1>2, <1>3, <1>4, <1>5, <1>6, <1>7, <1>8, <1>9, <1>10, <1>11, <1>12, <1>13,
     <1>14, <1>15, <1>16, <1>17, <1>18, <1>19, <1>20, <1>21 DEF Next, Job

-----------------------------------------------------------------------------

(* Wherever jobs stop, IInv holds. *)
THEOREM Invariance == Spec => []IInv
  BY InitIInv, NextStep, PTL DEF Spec

(* The state variables stay in their sets, and a stopped job leaves nothing. *)
THEOREM TypeCorrect == Spec => []TypeOK
<1>1. IInv => TypeOK
  BY DEF IInv
<1> QED
  BY <1>1, Invariance, PTL

(* The registry's cleanup policies never delete an image that serves or is *)
(* being rolled out.                                                       *)
THEOREM ServedImagesSurvive == Spec => []ServedImagesKept
<1>1. IInv => ServedImagesKept
  BY DEF IInv
<1> QED
  BY <1>1, Invariance, PTL

(* The image that served before keeps its tag, unless the same image is    *)
(* deployed again.                                                         *)
THEOREM RollbackImageSurvives == Spec => RollbackImageKept
<1>1. IInv /\ [Next]_vars =>
        [(replaced \in released \ released') => job.image = job.previous]_vars
  <2> SUFFICES ASSUME IInv, Next, replaced \in released, replaced \notin released'
               PROVE  job.image = job.previous
    OBVIOUS
  <2>1. PICK image \in Images : Untag(image)
    BY DEF Next, Job, StartRun, Current, Publish, Plan, Migrate, TagPrevious, TagImage, Tag,
           Terraform, Applied, ApplyFails, Verify, CleanUp, Finish, Abort, Push, RollOut,
           Collect, Recover, Resolve, Proceed, cloud
  <2> QED
    BY <2>1 DEF Untag, Obsolete, IInv, JobOK, At
<1> QED
  BY <1>1, Invariance, PTL DEF Spec, RollbackImageKept

(* No tag goes unless the image that serves has been verified. *)
THEOREM TagsOutliveFailures == Spec => UntagOnlyWhenVerified
<1>1. IInv /\ [Next]_vars =>
        [released \subseteq released' \/ (Stable /\ service.ready \in verified)]_vars
  <2> SUFFICES ASSUME IInv, Next, ~(released \subseteq released')
               PROVE  Stable /\ service.ready \in verified
    OBVIOUS
  <2>1. PICK image \in Images : Untag(image)
    BY DEF Next, Job, StartRun, Current, Publish, Plan, Migrate, TagPrevious, TagImage, Tag,
           Terraform, Applied, ApplyFails, Verify, CleanUp, Finish, Abort, Push, RollOut,
           Collect, Recover, Resolve, Proceed, cloud
  <2> QED
    BY <2>1 DEF Untag, IInv, JobOK, At, Stable
<1> QED
  BY <1>1, Invariance, PTL DEF Spec, UntagOnlyWhenVerified

(* Only terraform apply changes what Cloud Run is told, and the operator. *)
LEMMA OnlyTerraform ==
  ASSUME TypeOK, Next, service'.created # service.created, ~At("idle")
  PROVE  Terraform
<1>1. ~RollOut
  <2>1. service \in [created : Images, ready : Images]
    BY DEF TypeOK
  <2>2. RollOut => service'.created = service.created
    BY <2>1 DEF RollOut
  <2> QED
    BY <2>2
<1>2. \A image \in Images : ~Recover(image)
  BY DEF Recover
<1>3. service' # service
  OBVIOUS
<1> QED
  BY <1>1, <1>2, <1>3
     DEF Next, Job, StartRun, Current, Publish, Plan, Migrate, TagPrevious, TagImage, Tag,
         Applied, ApplyFails, Verify, CleanUp, Untag, Finish, Abort, Push, Collect, Resolve,
         Proceed, cloud

(* terraform apply acts on what the checks of the earlier phases found. *)
LEMMA TerraformEffect ==
  ASSUME IInv, Terraform
  PROVE  /\ service'.created = job.image
         /\ ~db.broken /\ db.applied = Schema[CommitOf(job.image)]
         /\ CommitOf(service.created) <= CommitOf(job.image)
  BY DEF Terraform, At, IInv, TypeOK, JobOK, Built

(* A job's image starts on exactly the schema of its commit. *)
THEOREM SchemaFits == Spec => DeployedOnItsSchema
<1>1. IInv /\ [Next]_vars =>
        [(service'.created # service.created /\ ~At("idle"))
          => ~db.broken /\ db.applied = Schema[CommitOf(service'.created)]]_vars
  BY OnlyTerraform, TerraformEffect DEF IInv
<1> QED
  BY <1>1, Invariance, PTL DEF Spec, DeployedOnItsSchema

(* A job never goes back to an older commit. *)
THEOREM NeverOlder == Spec => NoDowngrade
<1>1. IInv /\ [Next]_vars =>
        [(service'.created # service.created /\ ~At("idle"))
          => CommitOf(service'.created) >= CommitOf(service.created)]_vars
  <2> SUFFICES ASSUME IInv, Next, service'.created # service.created, ~At("idle")
               PROVE  CommitOf(service'.created) >= CommitOf(service.created)
    OBVIOUS
  <2>1. /\ service'.created = job.image
        /\ CommitOf(service.created) <= CommitOf(job.image)
    BY OnlyTerraform, TerraformEffect DEF IInv
  <2>2. CommitOf(service.created) \in Nat /\ CommitOf(job.image) \in Nat
    BY OnlyTerraform, CommitOfImage, CommitsAreNat
       DEF Terraform, At, IInv, TypeOK, JobOK, Built
  <2> QED
    BY <2>1, <2>2
<1> QED
  BY <1>1, Invariance, PTL DEF Spec, NoDowngrade

-----------------------------------------------------------------------------
(* The server process that a revision runs.  It shares no state with the   *)
(* deployment.                                                             *)

(* Without telemetry nothing is queued, and nothing will be. *)
QuietWithoutTelemetry ==
  telemetry # "enabled" =>
    provider # "running" /\ \A r \in Requests : span[r] # "queued"

(* A flush that failed ends the shutdown in its catch. *)
FailureShows == \A r \in Requests : span[r] = "failed" => shutdown = "fail"

(* Nobody was served, and nobody stops the server, before it starts. *)
StartedFirst ==
  server = "starting" =>
    /\ listeners = {} /\ shutdown = "none"
    /\ \A r \in Requests : span[r] = "none"

(* The orderly end comes after telemetry, exit code 0 after the orderly end. *)
EndsInOrder ==
  /\ shutdown = "exit" => telemetry # "enabled"
  /\ exit = "0" => shutdown = "exit"

SpansMapped == DOMAIN span = Requests

ProcessIInv == SpansMapped /\ QuietWithoutTelemetry /\ FailureShows /\ StartedFirst /\ EndsInOrder

-----------------------------------------------------------------------------

LEMMA ProcessBegins == Process!Init => ProcessIInv
  BY DEF Process!Init, ProcessIInv, SpansMapped, QuietWithoutTelemetry, FailureShows,
         StartedFirst, EndsInOrder

(* What each step keeps of the invariant. *)
LEMMA ProcessGoesOn == ProcessIInv /\ [Process!Next]_Process!vars => ProcessIInv'
<1> SUFFICES ASSUME ProcessIInv, [Process!Next]_Process!vars PROVE ProcessIInv'
  OBVIOUS
<1> USE DEF ProcessIInv, SpansMapped, QuietWithoutTelemetry, FailureShows, StartedFirst,
            EndsInOrder, Process!Running, Process!setup, Process!vars, Process!Step,
            Process!Configure, Process!Queue, Process!Exported
<1>1. CASE Process!InitializeTelemetry
  BY <1>1 DEF Process!InitializeTelemetry, Process!StartupError
<1>2. CASE Process!Serve
  BY <1>2 DEF Process!Serve
<1>3. ASSUME NEW r \in Requests, Process!BeginRequest(r) PROVE ProcessIInv'
  BY <1>3 DEF Process!BeginRequest, Process!Traced
<1>4. ASSUME NEW r \in Requests, Process!EndRequest(r) PROVE ProcessIInv'
  BY <1>4 DEF Process!EndRequest
<1>5. CASE Process!ExportBatch
  BY <1>5 DEF Process!ExportBatch
<1>6. ASSUME NEW s \in Signals, Process!Signal(s) PROVE ProcessIInv'
  BY <1>6 DEF Process!Signal
<1>7. CASE Process!StopServer
  BY <1>7 DEF Process!StopServer
<1>8. CASE Process!Flush
  BY <1>8 DEF Process!Flush
<1>9. CASE Process!Unregister
  BY <1>9 DEF Process!Unregister
<1>10. CASE Process!Close
  BY <1>10 DEF Process!Close
<1>11. CASE Process!Exit
  BY <1>11 DEF Process!Exit
<1>12. CASE Process!Kill
  BY <1>12 DEF Process!Kill
<1>13. CASE UNCHANGED Process!vars
  BY <1>13
<1>14. CASE Process!Ended
  BY <1>13, <1>14 DEF Process!Ended
<1> QED
  BY <1>1, <1>2, <1>3, <1>4, <1>5, <1>6, <1>7, <1>8, <1>9, <1>10, <1>11, <1>12, <1>13, <1>14
     DEF Process!Next, Process!Shutdown

(* Exit code 0 leaves no ended span behind: whatever the handlers that go  *)
(* on after server.stop do during the flush, and whichever export fails.   *)
THEOREM NoSpanLost == ProcessSpec => []CleanExitLeavesNoSpan
<1>1. ProcessSpec => []ProcessIInv
  BY ProcessBegins, ProcessGoesOn, PTL DEF ProcessSpec, Process!Spec
<1>2. ProcessIInv => CleanExitLeavesNoSpan
  BY DEF ProcessIInv, QuietWithoutTelemetry, FailureShows, EndsInOrder,
         CleanExitLeavesNoSpan
<1> QED
  BY <1>1, <1>2, PTL

-----------------------------------------------------------------------------
(* The queue, counted. *)

USE QueueNotEmpty DEF Spans

QueueLimited ==
  /\ IsFiniteSet(Process!Queue)
  /\ Cardinality(Process!Queue) \in Nat /\ Cardinality(Process!Queue) <= MaxQueue

TypedIInv == ProcessTypeOK /\ QueueLimited

(* The instance counts as this module does. *)
LEMMA SameCount == \A S : Process!Cardinality(S) = Cardinality(S)
  BY DEF Process!Cardinality, Cardinality

LEMMA EmptyQueue == IsFiniteSet({}) /\ Cardinality({}) = 0
  BY FS_EmptySet

(* A step that queues nothing, or empties the queue, keeps its limit. *)
LEMMA QueueKept ==
  ASSUME QueueLimited, Process!Queue' = Process!Queue \/ Process!Queue' = {}
  PROVE  QueueLimited'
<1>1. CASE Process!Queue' = Process!Queue
  BY <1>1 DEF QueueLimited
<1>2. CASE Process!Queue' = {}
  BY <1>2, EmptyQueue DEF QueueLimited
<1>3. QED BY <1>1, <1>2

(* The results an ended or exported span can have, the queue aside. *)
LEMMA ExportEmpties ==
  ASSUME ProcessTypeOK, NEW result \in {"exported", "dropped", "failed"},
         span' = Process!Exported(Process!Queue, result)
  PROVE  /\ span' \in [Requests -> Spans]
         /\ Process!Queue' = {}
<1>1. \A r \in Requests : span'[r] = IF span[r] = "queued" THEN result ELSE span[r]
  BY DEF Process!Exported, Process!Queue
<1>2. Process!Queue' = {}
  BY <1>1 DEF Process!Queue
<1>3. QED BY <1>2 DEF Process!Exported, ProcessTypeOK

(* The one step that queues a span asks whether there is room. *)
LEMMA EndRequestQueues ==
  ASSUME TypedIInv, NEW r \in Requests, Process!EndRequest(r)
  PROVE  /\ span' \in [Requests -> Spans]
         /\ QueueLimited'
<1>1. span \in [Requests -> Spans]
  BY DEF TypedIInv, ProcessTypeOK
<1>2. PICK v \in {"late", "dropped", "queued"} :
        span' = [span EXCEPT ![r] = v] /\ (v = "queued" => Cardinality(Process!Queue) # MaxQueue)
  <2>1. CASE provider # "running"
    <3>1. span' = [span EXCEPT ![r] = "late"]
      BY <2>1 DEF Process!EndRequest
    <3>2. QED BY <3>1
  <2>2. CASE provider = "running" /\ Cardinality(Process!Queue) = MaxQueue
    BY <2>2, SameCount DEF Process!EndRequest
  <2>3. CASE provider = "running" /\ Cardinality(Process!Queue) # MaxQueue
    BY <2>3, SameCount DEF Process!EndRequest
  <2>4. QED BY <2>1, <2>2, <2>3
<1>3. span[r] = "open"
  BY DEF Process!EndRequest
<1>4. CASE v # "queued"
  <2>1. Process!Queue' = Process!Queue
    BY <1>1, <1>2, <1>3, <1>4 DEF Process!Queue
  <2>2. QED BY <1>1, <1>2, <2>1, QueueKept DEF TypedIInv
<1>5. CASE v = "queued"
  <2>1. Process!Queue' = Process!Queue \cup {r} /\ r \notin Process!Queue
    BY <1>1, <1>2, <1>3, <1>5 DEF Process!Queue
  <2>2. /\ IsFiniteSet(Process!Queue \cup {r})
        /\ Cardinality(Process!Queue \cup {r}) = Cardinality(Process!Queue) + 1
    BY <2>1, FS_AddElement DEF TypedIInv, QueueLimited
  <2>3. /\ Cardinality(Process!Queue) \in Nat /\ Cardinality(Process!Queue) <= MaxQueue
        /\ Cardinality(Process!Queue) # MaxQueue
    BY <1>2, <1>5 DEF TypedIInv, QueueLimited
  <2>4. Cardinality(Process!Queue) + 1 \in Nat /\ Cardinality(Process!Queue) + 1 <= MaxQueue
    BY <2>3 DEF TypedIInv, QueueLimited
  <2>5. QueueLimited'
    BY <2>1, <2>2, <2>4 DEF TypedIInv, QueueLimited
  <2>6. QED BY <1>1, <1>2, <2>5
<1>6. QED BY <1>4, <1>5

LEMMA InitTyped ==
  ASSUME Process!Init
  PROVE  TypedIInv
<1>1. Process!Queue = {}
  BY DEF Process!Init, Process!Queue
<1>2. QueueLimited
  BY <1>1, EmptyQueue DEF QueueLimited
<1>3. ProcessTypeOK
  BY <1>1, <1>2, SameCount DEF Process!Init, ProcessTypeOK, QueueLimited, Process!Queue
<1>4. QED BY <1>2, <1>3 DEF TypedIInv

(* The rest of the state, step by step. *)
OtherTypes ==
  /\ telemetry \in {"undefined", "disabled", "enabled"}
  /\ registered \subseteq Process!Registrations
  /\ telemetry # "enabled" => registered = {}
  /\ provider \in {"none", "running", "stopping", "stopped"}
  /\ server \in {"starting", "serving", "stopped"}
  /\ listeners \subseteq Signals
  /\ shutdown \in {"none", "stop", "flush", "unregister", "close", "exit", "fail"}
  /\ exit \in {"running", "0", "1", "killed"}

SpanTypes == span \in [Requests -> Spans]

LEMMA TypedParts == TypedIInv <=> OtherTypes /\ SpanTypes /\ QueueLimited
  BY SameCount DEF TypedIInv, ProcessTypeOK, OtherTypes, SpanTypes, QueueLimited, Process!Queue

LEMMA OtherTypesKept ==
  ASSUME OtherTypes, [Process!Next]_Process!vars
  PROVE  OtherTypes'
<1> USE DEF OtherTypes, Process!Running, Process!setup, Process!vars, Process!Step, Process!Configure
<1>1. CASE Process!InitializeTelemetry
  BY <1>1 DEF Process!InitializeTelemetry, Process!StartupError, Process!Registrations
<1>2. CASE Process!Serve
  BY <1>2 DEF Process!Serve
<1>3. ASSUME NEW r \in Requests, Process!BeginRequest(r) \/ Process!EndRequest(r) PROVE OtherTypes'
  BY <1>3 DEF Process!BeginRequest, Process!EndRequest
<1>4. CASE Process!ExportBatch
  BY <1>4 DEF Process!ExportBatch
<1>5. ASSUME NEW s \in Signals, Process!Signal(s) PROVE OtherTypes'
  BY <1>5 DEF Process!Signal
<1>6. CASE Process!StopServer
  BY <1>6 DEF Process!StopServer
<1>7. CASE Process!Flush
  BY <1>7 DEF Process!Flush
<1>8. CASE Process!Unregister
  BY <1>8 DEF Process!Unregister
<1>9. CASE Process!Close
  BY <1>9 DEF Process!Close
<1>10. CASE Process!Exit
  BY <1>10 DEF Process!Exit
<1>11. CASE Process!Kill
  BY <1>11 DEF Process!Kill
<1>12. CASE Process!Ended \/ UNCHANGED Process!vars
  BY <1>12 DEF Process!Ended
<1>13. QED
  BY <1>1, <1>2, <1>3, <1>4, <1>5, <1>6, <1>7, <1>8, <1>9, <1>10, <1>11, <1>12
     DEF Process!Next, Process!Shutdown

LEMMA SpansKept ==
  ASSUME TypedIInv, [Process!Next]_Process!vars
  PROVE  SpanTypes' /\ QueueLimited'
<1>1. ProcessTypeOK /\ SpanTypes /\ QueueLimited
  BY TypedParts DEF TypedIInv
<1>2. ASSUME UNCHANGED span PROVE SpanTypes' /\ QueueLimited'
  <2>1. Process!Queue' = Process!Queue
    BY <1>2 DEF Process!Queue
  <2>2. QED BY <1>1, <1>2, <2>1, QueueKept DEF SpanTypes
<1>3. ASSUME NEW result \in {"exported", "dropped", "failed"},
         span' = Process!Exported(Process!Queue, result)
      PROVE  SpanTypes' /\ QueueLimited'
  BY <1>1, <1>3, ExportEmpties, QueueKept DEF SpanTypes
<1>4. CASE \/ Process!InitializeTelemetry \/ Process!Serve \/ Process!Kill
           \/ Process!Ended \/ UNCHANGED Process!vars
  BY <1>2, <1>4 DEF Process!InitializeTelemetry, Process!Serve, Process!Kill, Process!Ended, Process!vars
<1>5. ASSUME NEW r \in Requests, Process!BeginRequest(r) PROVE SpanTypes' /\ QueueLimited'
  <2>1. span[r] = "none" /\ span' = [span EXCEPT ![r] = "open"]
    BY <1>5 DEF Process!BeginRequest
  <2>2. Process!Queue' = Process!Queue
    BY <1>1, <2>1 DEF Process!Queue, SpanTypes
  <2>3. QED BY <1>1, <2>1, <2>2, QueueKept DEF SpanTypes
<1>6. ASSUME NEW r \in Requests, Process!EndRequest(r) PROVE SpanTypes' /\ QueueLimited'
  BY <1>6, EndRequestQueues DEF SpanTypes
<1>7. CASE Process!ExportBatch
  BY <1>3, <1>7 DEF Process!ExportBatch
<1>8. ASSUME NEW s \in Signals, Process!Signal(s) PROVE SpanTypes' /\ QueueLimited'
  BY <1>2, <1>8 DEF Process!Signal
<1>9. CASE Process!StopServer \/ Process!Unregister \/ Process!Exit
  BY <1>2, <1>9 DEF Process!StopServer, Process!Unregister, Process!Exit
<1>10. CASE Process!Flush
  BY <1>2, <1>3, <1>10 DEF Process!Flush
<1>11. CASE Process!Close
  BY <1>3, <1>11 DEF Process!Close
<1>12. QED
  BY <1>4, <1>5, <1>6, <1>7, <1>8, <1>9, <1>10, <1>11 DEF Process!Next, Process!Shutdown

(* The state of the process keeps its types, telemetry that was taken back *)
(* leaves nothing registered, and the BatchSpanProcessor never holds more  *)
(* spans than its limit, however many requests end between two exports.    *)
THEOREM ProcessTypeCorrect == ProcessSpec => []ProcessTypeOK
<1>1. TypedIInv /\ [Process!Next]_Process!vars => TypedIInv'
  <2>1. SUFFICES ASSUME TypedIInv, [Process!Next]_Process!vars PROVE TypedIInv'
    OBVIOUS
  <2>2. OtherTypes' /\ SpanTypes' /\ QueueLimited'
    BY <2>1, OtherTypesKept, SpansKept, TypedParts
  <2>3. ProcessTypeOK'
    BY <2>2, SameCount DEF OtherTypes, SpanTypes, QueueLimited, ProcessTypeOK, Process!Queue
  <2>4. QED BY <2>2, <2>3 DEF TypedIInv
<1>2. TypedIInv => ProcessTypeOK
  BY DEF TypedIInv
<1>3. Process!Init => TypedIInv
  BY InitTyped
<1>4. QED BY <1>1, <1>2, <1>3, PTL DEF ProcessSpec, Process!Spec
=============================================================================
