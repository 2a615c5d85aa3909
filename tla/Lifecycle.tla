------------------------------ MODULE Lifecycle -------------------------------
(***************************************************************************)
(* One life of the process (cmd/policy-engine/main.go): boot, the REST and *)
(* gRPC servers, the goroutine that polls for bundles, the signal, and the *)
(* shutdown in the order run leaves it: GracefulStop, Shutdown under a     *)
(* deadline that has been running since before GracefulStop, then the      *)
(* deferred Stop and Audit.Close.  Handlers keep running through all of    *)
(* it; their Emit calls, the worker and Close are those of Audit.  A       *)
(* request goes by the id of the record it leads to.                       *)
(***************************************************************************)
EXTENDS Audit

VARIABLES
  phase,      \* how far run has got
  signalled,  \* the context of run is cancelled
  rest,       \* http.Server: "new", "listening" or "closed"
  grpc,       \* grpc.Server: "new", "serving", "stopped", or "nil"
  deadline,   \* shutdownCtx: "unset", "running" or "passed"
  poll,       \* the HotReloader's or Poller's goroutine
  pollStop,   \* its stopCh is closed
  transport,  \* how each request comes in
  req         \* progress of each request

auditVars  == vars
serverVars == <<rest, grpc>>
pollVars   == <<poll, pollStop>>
processVars == <<phase, signalled, serverVars, deadline, pollVars, transport, req, auditVars>>

ProcessInit ==
  /\ phase = "boot"
  /\ signalled = FALSE
  /\ rest = "new"
  /\ grpc \in {"new", "nil"}
  /\ deadline = "unset"
  /\ poll = "none"
  /\ pollStop = FALSE
  /\ transport \in [Records -> {"rest", "grpc"}]
  /\ req = [r \in Records |-> "idle"]
  /\ Init

Alive == phase \notin {"exited", "fatal"}

\* SIGINT or SIGTERM.
Signal ==
  /\ Alive /\ ~signalled
  /\ signalled' = TRUE
  /\ UNCHANGED <<phase, serverVars, deadline, pollVars, transport, req, auditVars>>

Dies(p) ==
  /\ phase' = p
  /\ req' = [r \in Records |-> IF req[r] = "running" THEN "cut" ELSE req[r]]

\* buildServices fails, newAuditSink gives up, or the signal ends Connect.
BootFails ==
  /\ phase = "boot"
  /\ Dies("fatal")
  /\ UNCHANGED <<signalled, serverVars, deadline, pollVars, transport, auditVars>>

\* With OPA_BUNDLE_URL set a HotReloader or a Poller is started.
Booted ==
  /\ phase = "boot"
  /\ phase' = "serving"
  /\ poll' \in {"none", "select"}
  /\ UNCHANGED <<signalled, serverVars, deadline, pollStop, transport, req, auditVars>>

\* The goroutines that serve.  After GracefulStop or Shutdown they return at once.
Serve ==
  /\ Alive /\ phase # "boot" /\ grpc = "new"
  /\ grpc' = "serving"
  /\ UNCHANGED <<phase, signalled, rest, deadline, pollVars, transport, req, auditVars>>

ListenAndServe ==
  /\ Alive /\ phase # "boot" /\ rest = "new"
  /\ rest' = "listening"
  /\ UNCHANGED <<phase, signalled, grpc, deadline, pollVars, transport, req, auditVars>>

\* At once or later; log.Fatalf: no deferred call runs.
ListenFails ==
  /\ Alive /\ phase # "boot" /\ rest # "closed"
  /\ Dies("fatal")
  /\ UNCHANGED <<signalled, serverVars, deadline, pollVars, transport, auditVars>>

-----------------------------------------------------------------------------
Accept(r) ==
  /\ Alive /\ req[r] = "idle"
  /\ IF transport[r] = "rest" THEN rest = "listening" ELSE grpc = "serving"
  /\ req' = [req EXCEPT ![r] = "running"]
  /\ UNCHANGED <<phase, signalled, serverVars, deadline, pollVars, transport, auditVars>>

\* finalize calls Emit, whether or not Close has been called.
Finalize(r) ==
  /\ Alive /\ req[r] = "running"
  /\ Emit(r)
  /\ UNCHANGED <<phase, signalled, serverVars, deadline, pollVars, transport, req>>

\* The handler returns: the decision if Emit took or dropped the record, an error
\* if Emit failed or was never reached.
Return(r) ==
  /\ Alive /\ req[r] = "running"
  /\ emit[r] # "ready"
  /\ req' = [req EXCEPT ![r] = IF Answered(r) THEN "answered" ELSE "failed"]
  /\ UNCHANGED <<phase, signalled, serverVars, deadline, pollVars, transport, auditVars>>

WorkerRuns ==
  /\ Alive /\ phase # "boot"
  /\ Worker
  /\ UNCHANGED <<phase, signalled, serverVars, deadline, pollVars, transport, req>>

\* run of HotReloader and Poller: a tick, which fetches (Engine.Reload), or a
\* reason to stop.  When both are ready, select takes either.
PollTick ==
  /\ Alive /\ poll = "select"
  /\ poll' = "fetch"
  /\ UNCHANGED <<phase, signalled, serverVars, deadline, pollStop, transport, req, auditVars>>

PollDone ==
  /\ Alive /\ poll = "fetch"
  /\ poll' = "select"
  /\ UNCHANGED <<phase, signalled, serverVars, deadline, pollStop, transport, req, auditVars>>

PollStops ==
  /\ Alive /\ poll = "select"
  /\ signalled \/ pollStop
  /\ poll' = "stopped"
  /\ UNCHANGED <<phase, signalled, serverVars, deadline, pollStop, transport, req, auditVars>>

-----------------------------------------------------------------------------
Running(t) == {r \in Records : req[r] = "running" /\ transport[r] = t}

\* <-ctx.Done(); the deadline starts, then GracefulStop closes the gRPC listener.
GracefulStop ==
  /\ phase = "serving" /\ signalled
  /\ phase' = "graceful"
  /\ deadline' = "running"
  /\ grpc' = IF grpc = "nil" THEN "nil" ELSE "stopped"
  /\ UNCHANGED <<signalled, rest, pollVars, transport, req, auditVars>>

DeadlinePasses ==
  /\ Alive /\ deadline = "running"
  /\ deadline' = "passed"
  /\ UNCHANGED <<phase, signalled, serverVars, pollVars, transport, req, auditVars>>

\* Fault: Stop for GracefulStop, which waits for nobody.
FaultStop == TRUE

\* GracefulStop waits for the running calls, without a deadline.
Drained == Running("grpc") = {}

\* Shutdown closes the REST listener.
Shutdown ==
  /\ phase = "graceful"
  /\ Drained
  /\ phase' = "shutdown"
  /\ rest' = "closed"
  /\ UNCHANGED <<signalled, grpc, deadline, pollVars, transport, req, auditVars>>

\* Fault: Shutdown without a deadline.
FaultNoDeadline == Running("rest") = {}

\* Shutdown returns when no request is left, or with an error at the deadline.
ShutdownEnds == Running("rest") = {} \/ deadline = "passed"

ShutdownReturns ==
  /\ phase = "shutdown"
  /\ ShutdownEnds
  /\ phase' = IF poll = "none" THEN "close" ELSE "stop"
  /\ UNCHANGED <<signalled, serverVars, deadline, pollVars, transport, req, auditVars>>

\* Stop: close stopCh once, wait for the goroutine.
Stop ==
  /\ phase = "stop" /\ ~pollStop
  /\ pollStop' = TRUE
  /\ UNCHANGED <<phase, signalled, serverVars, deadline, poll, transport, req, auditVars>>

\* Fault: Stop does not wait.
FaultNoWait == pollStop

Stopped == poll = "stopped"

StopReturns ==
  /\ phase = "stop" /\ pollStop
  /\ Stopped
  /\ phase' = "close"
  /\ UNCHANGED <<signalled, serverVars, deadline, pollVars, transport, req, auditVars>>

Close ==
  /\ phase = "close"
  /\ CloseStop
  /\ UNCHANGED <<phase, signalled, serverVars, deadline, pollVars, transport, req>>

CloseEnds ==
  /\ phase = "close"
  /\ CloseReturns
  /\ phase' = "return"
  /\ UNCHANGED <<signalled, serverVars, deadline, pollVars, transport, req>>

\* main returns, or exits with the error of Shutdown.
Exit ==
  /\ phase = "return"
  /\ Dies("exited")
  /\ UNCHANGED <<signalled, serverVars, deadline, pollVars, transport, auditVars>>

Boot == BootFails \/ Booted

Run ==
  \/ GracefulStop \/ Shutdown \/ ShutdownReturns \/ Stop \/ StopReturns
  \/ Close \/ CloseEnds \/ Exit

Handle(r) == Finalize(r) \/ Return(r)

ProcessNext ==
  \/ Signal \/ Boot \/ Serve \/ ListenAndServe \/ ListenFails
  \/ \E r \in Records : Accept(r) \/ Handle(r)
  \/ WorkerRuns
  \/ PollTick \/ PollDone \/ PollStops
  \/ DeadlinePasses
  \/ Run

\* run and the worker are goroutines that go on when they can (Publish ends at the
\* latest after 5s, the memory store's Put at once), timers fire, a fetch ends
\* (10s), and select does not pass a ready case over for ever.  Nothing makes boot
\* or a handler, REST or gRPC, come to an end: their calls of the store have no
\* deadline.
ProcessFairness ==
  /\ WF_processVars(Run) /\ WF_processVars(WorkerRuns)
  /\ WF_processVars(DeadlinePasses) /\ WF_processVars(PollDone) /\ SF_processVars(PollStops)

ProcessSpec == ProcessInit /\ [][ProcessNext]_processVars /\ ProcessFairness

-----------------------------------------------------------------------------
ProcessTypeOK ==
  /\ phase \in {"boot", "serving", "graceful", "shutdown", "stop", "close", "return",
                "exited", "fatal"}
  /\ signalled \in BOOLEAN
  /\ rest \in {"new", "listening", "closed"}
  /\ grpc \in {"nil", "new", "serving", "stopped"}
  /\ deadline \in {"unset", "running", "passed"}
  /\ poll \in {"none", "select", "fetch", "stopped"}
  /\ pollStop \in BOOLEAN
  /\ transport \in [Records -> {"rest", "grpc"}]
  /\ req \in [Records -> {"idle", "running", "answered", "failed", "cut"}]
  /\ TypeOK

\* An orderly shutdown cuts no gRPC call off, and a REST request only when the
\* deadline has passed, which GracefulStop may have used up before Shutdown is
\* even called; requests that still come in over REST meanwhile included.
CutOnlyLate ==
  phase = "exited" =>
    \A r \in Records : req[r] = "cut" => transport[r] = "rest" /\ deadline = "passed"

\* Audit.Close comes last: by then no gRPC call and no bundle poll is running, and
\* unless the deadline has passed no REST request either.  So the only records
\* that Emit puts on a queue nobody empties are those of requests past it; those
\* queued before Close the worker may still leave there (UncountedOnlyAtClose).
CloseComesLast ==
  stopping =>
    /\ Running("grpc") = {}
    /\ poll \in {"none", "stopped"}
    /\ Running("rest") = {} \/ deadline = "passed"

\* A step that main.go puts no bound on: the database calls of boot, and the calls
\* GracefulStop waits for.
Unbounded == phase = "boot" \/ (phase = "graceful" /\ Running("grpc") # {})

\* A signal ends the process, however many REST handlers hang and whatever the sink
\* and the bundle service do: the deadline bounds Shutdown, the goroutine sees the
\* signal or stopCh, and the worker sees its own.  The exceptions: main.go:107
\* waits for gRPC calls without a deadline, so that one hanging in the store keeps
\* the process for good, and so does a boot that hangs in the migrations.
ShutdownTerminates == signalled ~> (~Alive \/ []Unbounded)
=============================================================================
