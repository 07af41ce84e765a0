--------------------------- MODULE ServiceContainer ---------------------------
(***************************************************************************)
(* The service container of src/service/service.go: StartService,          *)
(* StopService, Stop, the errgroup workers running Serve then OnStop, and  *)
(* the container's own Serve.                                              *)
(*                                                                         *)
(* StartService is split where other threads can observe it: the          *)
(* LoadOrStore (line 58), the cancel-func assignment (61), OnStart (62)    *)
(* and the status store plus errGroup.Go (65-70).  Stop is split into its  *)
(* Range over the entries (92-96) and errGroup.Wait (97).                  *)
(*                                                                         *)
(* Callers: StartService and StopService run concurrently with each other  *)
(* from any thread; Stop() is the shutdown of the application and starts   *)
(* only when no StartService is in progress, after which none is made.     *)
(***************************************************************************)
EXTENDS Naturals

CONSTANTS
    Svcs,       \* the gira.Service instances handed to the container
    MaxCalls    \* bound on StartService calls per instance

Started == 1   \* service_status_started
Stopped == 2   \* service_status_stopped

VARIABLES
    stored,      \* Services sync.Map: instance -> entry present
    status,      \* Service.status (0 before line 65)
    hasCancel,   \* Service.cancelFunc assigned (line 61)
    cancelled,   \* Service.cancelFunc called
    parentDone,  \* the context handed to NewContainer is cancelled
    startPc,     \* where the in-progress StartService call of an instance is
    calls,       \* StartService calls made per instance
    worker,      \* the errgroup goroutine of an instance
    stopResult,  \* what the last StopService call of an instance returned
    stopPc,      \* the thread in Stop()
    visited,     \* entries Stop's Range has handled
    servePc      \* the thread in the container's Serve()

vars == <<stored, status, hasCancel, cancelled, parentDone, startPc, calls,
          worker, stopResult, stopPc, visited, servePc>>

(* Mutant: the service context derived from context.Background().       *)
CtxDoneOwnOnly(s) == cancelled[s]

(* s.ctx is context.WithCancel(self.ctx), and self.ctx derives from the    *)
(* context given to NewContainer: it is done when either is cancelled.     *)
CtxDone(s) == cancelled[s] \/ parentDone

StartInProgress == \E s \in Svcs : startPc[s] # "idle"

Init ==
    /\ stored = [s \in Svcs |-> FALSE]
    /\ status = [s \in Svcs |-> 0]
    /\ hasCancel = [s \in Svcs |-> FALSE]
    /\ cancelled = [s \in Svcs |-> FALSE]
    /\ parentDone = FALSE
    /\ startPc = [s \in Svcs |-> "idle"]
    /\ calls = [s \in Svcs |-> 0]
    /\ worker = [s \in Svcs |-> "none"]
    /\ stopResult = [s \in Svcs |-> "none"]
    /\ stopPc = "idle"
    /\ visited = {}
    /\ servePc = "waiting"

-----------------------------------------------------------------------------
(* StartService, line 58: LoadOrStore; a loaded entry returns "service     *)
(* already start" and the call ends.                                       *)
StartLoadOrStore(s) ==
    /\ startPc[s] = "idle"
    /\ stopPc = "idle"
    /\ calls[s] < MaxCalls
    /\ calls' = [calls EXCEPT ![s] = @ + 1]
    /\ IF stored[s]
          THEN UNCHANGED <<stored, startPc>>
          ELSE /\ stored' = [stored EXCEPT ![s] = TRUE]
                /\ startPc' = [startPc EXCEPT ![s] = "ctx"]
    /\ UNCHANGED <<status, hasCancel, cancelled, parentDone, worker,
                   stopResult, stopPc, visited, servePc>>

(* Mutant: line 61 leaves s.cancelFunc unassigned.                       *)
StartCtxNoCancel(s) ==
    /\ startPc[s] = "ctx"
    /\ startPc' = [startPc EXCEPT ![s] = "onStart"]
    /\ UNCHANGED <<stored, status, hasCancel, cancelled, parentDone, calls,
                   worker, stopResult, stopPc, visited, servePc>>

(* Line 61: s.ctx, s.cancelFunc = context.WithCancel(self.ctx).            *)
StartCtx(s) ==
    /\ startPc[s] = "ctx"
    /\ hasCancel' = [hasCancel EXCEPT ![s] = TRUE]
    /\ startPc' = [startPc EXCEPT ![s] = "onStart"]
    /\ UNCHANGED <<stored, status, cancelled, parentDone, calls, worker,
                   stopResult, stopPc, visited, servePc>>

(* Line 62-63: OnStart fails; the call returns its error and the entry     *)
(* stays in Services with status 0.                                        *)
StartOnStartFail(s) ==
    /\ startPc[s] = "onStart"
    /\ startPc' = [startPc EXCEPT ![s] = "idle"]
    /\ UNCHANGED <<stored, status, hasCancel, cancelled, parentDone, calls,
                   worker, stopResult, stopPc, visited, servePc>>

(* Lines 62-71: OnStart succeeds, status becomes started, and errGroup.Go  *)
(* launches the goroutine running Serve then OnStop.                       *)
StartLaunch(s) ==
    /\ startPc[s] = "onStart"
    /\ status' = [status EXCEPT ![s] = Started]
    /\ worker' = [worker EXCEPT ![s] = "serving"]
    /\ startPc' = [startPc EXCEPT ![s] = "idle"]
    /\ UNCHANGED <<stored, hasCancel, cancelled, parentDone, calls,
                   stopResult, stopPc, visited, servePc>>

(* Lines 66-70: the handler's Serve returns once its context is done, and  *)
(* the goroutine calls OnStop and ends.                                    *)
WorkerExit(s) ==
    /\ worker[s] = "serving"
    /\ CtxDone(s)
    /\ worker' = [worker EXCEPT ![s] = "done"]
    /\ UNCHANGED <<stored, status, hasCancel, cancelled, parentDone, startPc,
                   calls, stopResult, stopPc, visited, servePc>>

(* Mutant: the CAS succeeds but s.cancelFunc() is not called.            *)
StopServiceNoCancel(s) ==
    /\ stopResult' = [stopResult EXCEPT ![s] =
          IF ~stored[s] THEN "notfound"
          ELSE IF status[s] = Started THEN "ok" ELSE "already"]
    /\ status' = [status EXCEPT ![s] =
          IF stored[s] /\ @ = Started THEN Stopped ELSE @]
    /\ UNCHANGED <<stored, hasCancel, cancelled, parentDone, startPc, calls,
                   worker, stopPc, visited, servePc>>

(* Mutant: the CAS compares against service_status_stopped.              *)
StopServiceWrongCas(s) ==
    /\ stopResult' = [stopResult EXCEPT ![s] =
          IF ~stored[s] THEN "notfound"
          ELSE IF status[s] = Stopped THEN "ok" ELSE "already"]
    /\ cancelled' = [cancelled EXCEPT ![s] =
          @ \/ (stored[s] /\ status[s] = Stopped)]
    /\ UNCHANGED <<stored, status, hasCancel, parentDone, startPc, calls,
                   worker, stopPc, visited, servePc>>

(* StopService, lines 75-88: Load, then CAS started -> stopped and cancel. *)
StopService(s) ==
    /\ stopResult' = [stopResult EXCEPT ![s] =
          IF ~stored[s] THEN "notfound"
          ELSE IF status[s] = Started THEN "ok" ELSE "already"]
    /\ status' = [status EXCEPT ![s] =
          IF stored[s] /\ @ = Started THEN Stopped ELSE @]
    /\ cancelled' = [cancelled EXCEPT ![s] =
          @ \/ (stored[s] /\ status[s] = Started)]
    /\ UNCHANGED <<stored, hasCancel, parentDone, startPc, calls, worker,
                   stopPc, visited, servePc>>

(* Stop, line 92: the application begins shutdown.                          *)
StopBegin ==
    /\ stopPc = "idle"
    /\ ~StartInProgress
    /\ stopPc' = "ranging"
    /\ UNCHANGED <<stored, status, hasCancel, cancelled, parentDone, startPc,
                   calls, worker, stopResult, visited, servePc>>

(* Mutant: Range visits the entries without calling cancelFunc.          *)
StopVisitNoCancel(s) ==
    /\ stopPc = "ranging"
    /\ s \notin visited
    /\ visited' = visited \cup {s}
    /\ UNCHANGED <<stored, status, hasCancel, cancelled, parentDone, startPc,
                   calls, worker, stopResult, stopPc, servePc>>

(* Lines 92-96: Range visits each entry and calls its cancelFunc; an       *)
(* instance with no entry is passed over.                                   *)
StopVisit(s) ==
    /\ stopPc = "ranging"
    /\ s \notin visited
    /\ visited' = visited \cup {s}
    /\ cancelled' = [cancelled EXCEPT ![s] = @ \/ stored[s]]
    /\ UNCHANGED <<stored, status, hasCancel, parentDone, startPc, calls,
                   worker, stopResult, stopPc, servePc>>

(* Line 97: errGroup.Wait returns once every launched goroutine has ended. *)
StopWait ==
    /\ stopPc = "ranging"
    /\ visited = Svcs
    /\ \A s \in Svcs : worker[s] # "serving"
    /\ stopPc' = "done"
    /\ UNCHANGED <<stored, status, hasCancel, cancelled, parentDone, startPc,
                   calls, worker, stopResult, visited, servePc>>

(* The context given to NewContainer is cancelled by its owner.            *)
ParentCancel ==
    /\ ~parentDone
    /\ parentDone' = TRUE
    /\ UNCHANGED <<stored, status, hasCancel, cancelled, startPc, calls,
                   worker, stopResult, stopPc, visited, servePc>>

(* Container Serve, lines 46-49: wait for self.ctx, then errGroup.Wait.     *)
ServeCtxDone ==
    /\ servePc = "waiting"
    /\ parentDone
    /\ servePc' = "wait"
    /\ UNCHANGED <<stored, status, hasCancel, cancelled, parentDone, startPc,
                   calls, worker, stopResult, stopPc, visited>>

ServeWait ==
    /\ servePc = "wait"
    /\ \A s \in Svcs : worker[s] # "serving"
    /\ servePc' = "done"
    /\ UNCHANGED <<stored, status, hasCancel, cancelled, parentDone, startPc,
                   calls, worker, stopResult, stopPc, visited>>

StartStep(s) ==
    StartLoadOrStore(s) \/ StartCtx(s) \/ StartOnStartFail(s) \/ StartLaunch(s)

StopStep == (\E s \in Svcs : StopVisit(s)) \/ StopWait

ServeStep == ServeCtxDone \/ ServeWait

Next ==
    \/ \E s \in Svcs : StartStep(s) \/ WorkerExit(s) \/ StopService(s)
    \/ StopBegin \/ StopStep
    \/ ParentCancel \/ ServeStep

(* A started call runs to its end, every goroutine is scheduled; the      *)
(* callers of StartService, StopService and Stop and the owner of the      *)
(* parent context are owed nothing.                                         *)
Spec ==
    /\ Init /\ [][Next]_vars
    /\ \A s \in Svcs : WF_vars(startPc[s] # "idle" /\ StartStep(s))
    /\ \A s \in Svcs : WF_vars(WorkerExit(s))
    /\ WF_vars(StopStep)
    /\ WF_vars(ServeStep)

-----------------------------------------------------------------------------
TypeOK ==
    /\ stored \in [Svcs -> BOOLEAN]
    /\ status \in [Svcs -> {0, Started, Stopped}]
    /\ hasCancel \in [Svcs -> BOOLEAN]
    /\ cancelled \in [Svcs -> BOOLEAN]
    /\ parentDone \in BOOLEAN
    /\ startPc \in [Svcs -> {"idle", "ctx", "onStart"}]
    /\ calls \in [Svcs -> 0..MaxCalls]
    /\ worker \in [Svcs -> {"none", "serving", "done"}]
    /\ stopResult \in [Svcs -> {"none", "ok", "already", "notfound"}]
    /\ stopPc \in {"idle", "ranging", "done"}
    /\ visited \subseteq Svcs
    /\ servePc \in {"waiting", "wait", "done"}
    \* Stop's Range calls s.cancelFunc(): it must be assigned by then
    /\ \A s \in visited : stored[s] => hasCancel[s]

(* StopService returning nil promises the worker's scope is cancelled:    *)
(* its Serve returns and OnStop runs (lines 80-85, 66-70).                 *)
StopServiceEffective ==
    \A s \in Svcs : stopResult[s] = "ok" ~> worker[s] = "done"

(* Stop() cancels every entry and so returns: Range's cancelFunc calls    *)
(* end every worker and errGroup.Wait then returns (lines 91-97).          *)
StopTerminates == stopPc = "ranging" ~> stopPc = "done"

(* Cancelling the context given to NewContainer ends every worker,        *)
(* including one launched after it, and the container's Serve returns     *)
(* (lines 36, 46-49, 61).                                                  *)
ShutdownCompletes ==
    parentDone ~> (servePc = "done" /\ \A s \in Svcs : worker[s] # "serving")
=============================================================================
