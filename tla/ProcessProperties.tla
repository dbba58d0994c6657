-------------------------- MODULE ProcessProperties --------------------------
(***************************************************************************)
(* What the end of a server process leaves behind.                         *)
(*                                                                         *)
(* ServerProcess is instantiated: its names stay apart from those of the   *)
(* deployment, next to which its properties are proved.                    *)
(***************************************************************************)
EXTENDS Naturals, FiniteSets

CONSTANTS Requests, Signals, MaxQueue

ASSUME QueueNotEmpty == MaxQueue \in Nat \ {0}

VARIABLES telemetry, registered, provider, span, server, listeners, shutdown, exit

Process == INSTANCE ServerProcess

ProcessSpec == Process!Spec

Spans == {"none", "open", "queued", "exported", "late", "dropped", "failed"}

(* Telemetry that is off, or was taken back, leaves nothing registered,    *)
(* and the queue of spans keeps its limit (libs/telemetry/index.ts:46-55,  *)
(* 182-196; libs/telemetry/spanProcessor.ts:9-31).                         *)
ProcessTypeOK ==
  /\ telemetry \in {"undefined", "disabled", "enabled"}
  /\ registered \subseteq Process!Registrations
  /\ telemetry # "enabled" => registered = {}
  /\ provider \in {"none", "running", "stopping", "stopped"}
  /\ span \in [Requests -> Spans]
  /\ Cardinality(Process!Queue) <= MaxQueue
  /\ server \in {"starting", "serving", "stopped"}
  /\ listeners \subseteq Signals
  /\ shutdown \in {"none", "stop", "flush", "unregister", "close", "exit", "fail"}
  /\ exit \in {"running", "0", "1", "killed"}

(* Exit code 0 means that the shutdown lost no span that had ended before  *)
(* the provider stopped: none is left in the queue, also of requests that  *)
(* ended during the flush, and none was in a flush that failed             *)
(* (server.ts:31-37, libs/telemetry/index.ts:172-179).                     *)
CleanExitLeavesNoSpan ==
  exit = "0" => \A r \in Requests : span[r] \notin {"queued", "failed"}

(* A signal the server listens to ends the process, however long requests  *)
(* are being served and whatever fails on the way (server.ts:22-38).       *)
SignalEndsProcess == shutdown # "none" ~> exit # "running"
=============================================================================
