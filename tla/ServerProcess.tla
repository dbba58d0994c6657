---------------------------- MODULE ServerProcess ----------------------------
(***************************************************************************)
(* The life of the server process: OpenTelemetry is set up, requests are   *)
(* served and leave spans, a signal stops the server, flushes the spans    *)
(* and ends the process.                                                   *)
(*                                                                         *)
(* The steps of the shutdown are separated by awaits, in which the         *)
(* handlers still running go on and end their spans.                       *)
(***************************************************************************)
EXTENDS Naturals, FiniteSets

CONSTANTS
  Requests,  (* Requests ever served, each with one sampled span.  A bound. *)
  Signals,   (* SIGTERM, SIGINT.                                           *)
  MaxQueue   (* The spans the BatchSpanProcessor keeps (2048).             *)

VARIABLES
  telemetry,   (* telemetryState and what is registered globally:          *)
               (*   "undefined", "disabled", "enabled"                     *)
  registered,  (* Registrations that are in force.                         *)
  provider,    (* "none", "running", "stopping" or "stopped"               *)
  span,        (* The span of each request.                                *)
  server,      (* "starting", "serving" or "stopped"                       *)
  listeners,   (* Signals process.once still listens to.                   *)
  shutdown,    (* Where shutdown(signal) is; "none" before the first.      *)
  exit         (* "running", or how the process ended.                     *)

vars == <<telemetry, registered, provider, span, server, listeners, shutdown, exit>>

setup == <<telemetry, registered, provider>>

Registrations == {"instrumentations", "context", "trace"}

Init ==
  /\ telemetry = "undefined" /\ registered = {} /\ provider = "none"
  /\ span = [r \in Requests |-> "none"]
  /\ server = "starting" /\ listeners = {} /\ shutdown = "none" /\ exit = "running"

Running == exit = "running"

Queue == {r \in Requests : span[r] = "queued"}

-----------------------------------------------------------------------------
(* Start. *)

Configure(state, registrations, tracing) ==
  /\ telemetry' = state
  /\ registered' = registrations
  /\ provider' = tracing

(* Mutant: the rollback leaves the pg instrumentation in place. *)
StartupErrorKept == Configure("disabled", {"instrumentations"}, "none")

(* Whatever was registered before the error is taken back. *)
StartupError == Configure("disabled", {}, "none")

(* A registration another SDK holds is logged and left. *)
InitializeTelemetry ==
  /\ Running /\ telemetry = "undefined" /\ server = "starting"
  /\ \/ Configure("disabled", {}, "none")
     \/ \E taken \in SUBSET {"context", "trace"} :
          Configure("enabled", Registrations \ taken, "running")
     \/ StartupError
  /\ UNCHANGED <<span, server, listeners, shutdown, exit>>

(* Bun.serve, or a port in use. *)
Serve ==
  /\ Running /\ telemetry # "undefined" /\ server = "starting"
  /\ \/ server' = "serving" /\ listeners' = Signals /\ UNCHANGED exit
     \/ exit' = "1" /\ UNCHANGED <<server, listeners>>
  /\ UNCHANGED <<setup, span, shutdown>>

-----------------------------------------------------------------------------
(* Requests and their spans. *)

Traced == telemetry = "enabled" /\ "trace" \in registered

(* httpInstrumentationMiddleware starts a span, except for /health. *)
BeginRequest(r) ==
  /\ Running /\ server = "serving" /\ shutdown = "none"
  /\ Traced /\ span[r] = "none"
  /\ span' = [span EXCEPT ![r] = "open"]
  /\ UNCHANGED <<setup, server, listeners, shutdown, exit>>

(* The span ends in a finally, also after its connection was closed. *)
EndRequest(r) ==
  /\ Running /\ span[r] = "open"
  /\ span' = [span EXCEPT ![r] = IF provider # "running" THEN "late"
                                ELSE IF Cardinality(Queue) = MaxQueue THEN "dropped"
                                ELSE "queued"]
  /\ UNCHANGED <<setup, server, listeners, shutdown, exit>>

Exported(batch, result) == [r \in Requests |-> IF r \in batch THEN result ELSE span[r]]

(* The timer of the BatchSpanProcessor; a batch that fails is dropped. *)
ExportBatch ==
  /\ Running /\ provider = "running" /\ Queue # {}
  /\ \E result \in {"exported", "dropped"} : span' = Exported(Queue, result)
  /\ UNCHANGED <<setup, server, listeners, shutdown, exit>>

-----------------------------------------------------------------------------
(* Signals and the shutdown. *)

(* The first signal shuts down, another kind is ignored, the same kind has no
   listener any more. *)
Signal(s) ==
  /\ Running
  /\ listeners' = listeners \ {s}
  /\ \/ s \in listeners /\ shutdown = "none" /\ shutdown' = "stop" /\ UNCHANGED exit
     \/ s \in listeners /\ shutdown # "none" /\ UNCHANGED <<shutdown, exit>>
     \/ s \notin listeners /\ exit' = "killed" /\ UNCHANGED shutdown
  /\ UNCHANGED <<setup, span, server>>

Step(pc, next) ==
  /\ Running /\ shutdown = pc
  /\ shutdown' = next
  /\ UNCHANGED <<listeners, exit>>

(* Mutant: stop() waits for the requests that are being served. *)
StopServerGracefully ==
  /\ Step("stop", "flush")
  /\ \A r \in Requests : span[r] # "open"
  /\ server' = "stopped"
  /\ UNCHANGED <<setup, span>>

(* stop(true) closes the connections of requests that are being served. *)
StopServer ==
  /\ \/ Step("stop", "flush") /\ server' = "stopped"
     \/ Step("stop", "fail") /\ UNCHANGED server
  /\ UNCHANGED <<setup, span>>

(* provider.forceFlush; without telemetry there is nothing to shut down. *)
Flush ==
  /\ \/ /\ telemetry # "enabled" /\ Step("flush", "exit") /\ UNCHANGED span
     \/ /\ telemetry = "enabled" /\ Step("flush", "unregister")
        /\ span' = Exported(Queue, "exported")
     \/ /\ telemetry = "enabled" /\ Queue # {} /\ Step("flush", "fail")
        /\ span' = Exported(Queue, "failed")
  /\ UNCHANGED <<setup, server>>

(* Mutant: forceFlush is taken for enough, the provider is not shut down. *)
UnregisterAndExit ==
  /\ Step("unregister", "exit")
  /\ Configure("undefined", {}, "running")
  /\ UNCHANGED <<span, server>>

(* The instrumentations go; provider.shutdown takes no more spans and flushes
   those that ended since the flush. *)
Unregister ==
  /\ Step("unregister", "close")
  /\ registered' = registered \ {"instrumentations"}
  /\ provider' = "stopping"
  /\ UNCHANGED <<telemetry, span, server>>

Close ==
  /\ \/ /\ Step("close", "exit")
        /\ span' = Exported(Queue, "exported")
        /\ Configure("undefined", {}, "stopped")
     \/ /\ Queue # {} /\ Step("close", "fail")
        /\ span' = Exported(Queue, "failed")
        /\ UNCHANGED setup
  /\ UNCHANGED server

(* process.exit(0), or process.exit(1) in the catch. *)
Exit ==
  /\ Running
  /\ \/ shutdown = "exit" /\ exit' = "0"
     \/ shutdown = "fail" /\ exit' = "1"
  /\ UNCHANGED <<setup, span, server, listeners, shutdown>>

(* SIGKILL, out of memory. *)
Kill ==
  /\ Running /\ exit' = "killed"
  /\ UNCHANGED <<setup, span, server, listeners, shutdown>>

Ended == ~Running /\ UNCHANGED vars

-----------------------------------------------------------------------------

Shutdown == StopServer \/ Flush \/ Unregister \/ Close \/ Exit

Next ==
  \/ InitializeTelemetry \/ Serve
  \/ \E r \in Requests : BeginRequest(r) \/ EndRequest(r)
  \/ ExportBatch
  \/ \E s \in Signals : Signal(s)
  \/ Shutdown
  \/ Kill
  \/ Ended

(* The promises of the shutdown settle: Bun closes its connections, an export
   times out.  A request may be served forever. *)
Fairness == WF_vars(Shutdown)

Spec == Init /\ [][Next]_vars /\ Fairness
=============================================================================
