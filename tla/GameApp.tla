------------------------------- MODULE GameApp -------------------------------
(***************************************************************************)
(* The game application shell of src/framework/smallgame/game/app/app.go   *)
(* composed with the service container it starts its hall service in.      *)
(* The framework's lifecycle hooks run on the application's thread, in     *)
(* order: OnFrameworkConfigLoad, OnFrameworkCreate, OnFrameworkStart,      *)
(* OnFrameworkStop; a hook that returns an error ends the sequence.        *)
(* OnFrameworkStart is StartService("hall", hallService) and               *)
(* OnFrameworkStop is StopService(hallService) with its error dropped.     *)
(* Only the shell starts and stops the hall instance; every other          *)
(* instance keeps the container's arbitrary callers.                       *)
(***************************************************************************)
EXTENDS ServiceContainer

CONSTANT Hall   \* framework.hallService

ASSUME Hall \in Svcs

VARIABLE appPc  \* where the application thread is in the framework hooks

appVars == <<vars, appPc>>

AppInit == Init /\ appPc = "init"

(* OnFrameworkConfigLoad, lines 58-61: framework.config is replaced and    *)
(* the configuration parsed into it, which may fail.                       *)
OnFrameworkConfigLoad ==
    /\ appPc = "init"
    /\ appPc' \in {"configured", "configFailed"}
    /\ UNCHANGED vars

(* OnFrameworkCreate, lines 30-42: hall.NewService either fails, and the   *)
(* hook returns its error, or its result is kept in framework.hallService. *)
OnFrameworkCreate ==
    /\ appPc = "configured"
    /\ appPc' \in {"created", "createFailed"}
    /\ UNCHANGED vars

(* OnFrameworkStart, lines 44-49: the thread enters StartService.          *)
OnFrameworkStart ==
    /\ appPc = "created"
    /\ StartLoadOrStore(Hall)
    /\ appPc' = "starting"

(* StartService has returned: nil once the hall worker was launched.       *)
OnFrameworkStartReturn ==
    /\ appPc = "starting"
    /\ startPc[Hall] = "idle"
    /\ appPc' = IF status[Hall] = Started THEN "started" ELSE "startFailed"
    /\ UNCHANGED vars

(* OnFrameworkStop, lines 51-56: StopService, whatever it returns.         *)
OnFrameworkStop ==
    /\ appPc \in {"started", "startFailed"}
    /\ StopService(Hall)
    /\ appPc' = "stopped"

ContainerStep ==
    /\ \/ \E s \in Svcs \ {Hall} : StartLoadOrStore(s) \/ StopService(s)
       \/ \E s \in Svcs : \/ StartCtx(s) \/ StartOnStartFail(s)
                          \/ StartLaunch(s) \/ WorkerExit(s)
       \/ StopBegin \/ StopStep \/ ParentCancel \/ ServeStep
    /\ UNCHANGED appPc

AppNext ==
    \/ OnFrameworkConfigLoad \/ OnFrameworkCreate \/ OnFrameworkStart
    \/ OnFrameworkStartReturn \/ OnFrameworkStop
    \/ ContainerStep

(* The container's fairness, and the application thread returns from      *)
(* StartService once the call has ended; when the hooks are called is the  *)
(* framework's choice.                                                     *)
AppSpec ==
    /\ AppInit
    /\ [][AppNext]_appVars
    /\ \A s \in Svcs : WF_appVars(startPc[s] # "idle" /\ StartStep(s) /\ UNCHANGED appPc)
    /\ \A s \in Svcs : WF_appVars(WorkerExit(s) /\ UNCHANGED appPc)
    /\ WF_appVars(StopStep /\ UNCHANGED appPc)
    /\ WF_appVars(ServeStep /\ UNCHANGED appPc)
    /\ WF_appVars(OnFrameworkStartReturn)

-----------------------------------------------------------------------------
(* OnFrameworkStop drops StopService's error (lines 52-54).  That is sound *)
(* only if an error means no hall worker is running: once the hook has     *)
(* run, the hall's Serve returns and OnStop runs, whether OnFrameworkStart *)
(* succeeded or OnStart failed.                                            *)
HallEndsAfterFrameworkStop == appPc = "stopped" ~> worker[Hall] # "serving"
=============================================================================
