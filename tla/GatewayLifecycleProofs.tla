----------------------- MODULE GatewayLifecycleProofs -----------------------
(***************************************************************************)
(* What holds of the gateway's life for every choice of the two timeouts.  *)
(***************************************************************************)
EXTENDS GatewayLifecycle, TLAPS

Starting == {"start", "spawn", "poll", "post", "readError", "readReady", "deadline"}

(* The gateway process, by where the launcher is: there is none before it  *)
(* is spawned, it has not been waited for where Drop signals it, and it    *)
(* has been by the time the directory goes.                                *)
ProcessInv ==
  /\ launcher \in {"start", "spawn"} => gw = "none"
  /\ launcher \in {"poll", "readError", "readReady", "deadline", "seed", "spawnMuse", "install",
                   "wait", "close", "drop", "term", "grace"} => gw \in {"running", "zombie"}
  /\ launcher = "kill" => gw # "none"
  /\ launcher = "post" => gw = "reaped"
  /\ launcher \in {"cleanup", "exited"} => gw \in {"none", "reaped"}

(* Muse runs only while the launcher waits for it, or has died.            *)
MuseInv ==
  /\ launcher \notin {"install", "wait", "zombie", "gone"} => muse \in {"none", "reaped"}
  /\ launcher \in Starting => muse = "none"

(* The files are gone with their directory.                                *)
FileInv == launcher = "exited" => ~directory /\ ready = "absent" /\ error = "absent"

(* The launcher acts on a readiness document that was published.           *)
ReadyInv ==
  /\ launcher \in Starting => outcome = "none"
  /\ launcher \in {"seed", "spawnMuse", "install", "wait"} => outcome = "ready"
  /\ gw = "none" => gwPc = "boot" /\ ready = "absent"
  /\ ready = "full" => gwPc \notin Unpublished
  /\ outcome = "ready" => gwPc \notin Unpublished
  /\ muse # "none" => outcome = "ready"

IInv == TypeOK /\ ProcessInv /\ MuseInv /\ FileInv /\ ReadyInv
-----------------------------------------------------------------------------
(* Before the launcher spawns anything, the invariant holds.               *)
LEMMA InitInv == Init => IInv
<1> SUFFICES ASSUME Init PROVE IInv
  OBVIOUS
<1>1. clock \in 0..ReadyTimeout /\ catalogStart \in 0..ReadyTimeout
  BY TimeoutAssumption DEF Init
<1>2. gwTerm \in BOOLEAN /\ directory \in BOOLEAN /\ museTerm \in BOOLEAN
  BY Zenon DEF Init
<1>3. TypeOK
  BY <1>1, <1>2 DEF Init, TypeOK, Outcomes, Ended
<1>4. ProcessInv /\ MuseInv /\ FileInv /\ ReadyInv
  BY DEF Init, ProcessInv, MuseInv, FileInv, ReadyInv, Starting, Unpublished
<1> QED
  BY <1>3, <1>4 DEF IInv

(* A step of the launcher.                                                 *)
LEMMA LauncherInv == IInv /\ LauncherStep => IInv'
<1> SUFFICES ASSUME IInv, LauncherStep PROVE IInv'
  OBVIOUS
<1>1. TypeOK'
  BY TimeoutAssumption DEF IInv, TypeOK, LauncherStep, MakeDirectory, SpawnGateway,
     Poll, PostMortem, ReadError, ReadReady, Deadline, Seed, SpawnMuse,
     InstallForwarder, WaitMuse, CloseForwarder, DropCheck, DropTerm, DropReap, GraceOver, KillGateway,
     Cleanup, Outcomes, Ended, launcherVars, gatewayVars, fileVars, museVars, timeVars
<1>2. ProcessInv'
  BY DEF IInv, TypeOK, ProcessInv, LauncherStep, MakeDirectory, SpawnGateway, Poll,
     PostMortem, ReadError, ReadReady, Deadline, Seed, SpawnMuse,
     InstallForwarder, WaitMuse, CloseForwarder, DropCheck, DropTerm, DropReap, GraceOver, KillGateway,
     Cleanup, Ended, launcherVars, gatewayVars, fileVars, museVars, timeVars
<1>3. MuseInv'
  BY DEF IInv, TypeOK, MuseInv, Starting, LauncherStep, MakeDirectory, SpawnGateway,
     Poll, PostMortem, ReadError, ReadReady, Deadline, Seed, SpawnMuse,
     InstallForwarder, WaitMuse, CloseForwarder, DropCheck, DropTerm, DropReap, GraceOver, KillGateway,
     Cleanup, Ended, launcherVars, gatewayVars, fileVars, museVars, timeVars
<1>4. FileInv'
  BY DEF IInv, TypeOK, ProcessInv, FileInv, LauncherStep, MakeDirectory, SpawnGateway,
     Poll, PostMortem, ReadError, ReadReady, Deadline, Seed, SpawnMuse,
     InstallForwarder, WaitMuse, CloseForwarder, DropCheck, DropTerm, DropReap, GraceOver, KillGateway,
     Cleanup, Ended, launcherVars, gatewayVars, fileVars, museVars, timeVars
<1>5. ReadyInv'
  BY DEF IInv, TypeOK, ProcessInv, MuseInv, FileInv, ReadyInv, Starting, Unpublished,
     LauncherStep, MakeDirectory, SpawnGateway, Poll, PostMortem, ReadError,
     ReadReady, Deadline, Seed, SpawnMuse, InstallForwarder, WaitMuse, CloseForwarder, DropCheck,
     DropTerm, DropReap, GraceOver, KillGateway, Cleanup, Ended, launcherVars,
     gatewayVars, fileVars, museVars, timeVars
<1> QED
  BY <1>1, <1>2, <1>3, <1>4, <1>5 DEF IInv

(* A step of the gateway's main thread.                                    *)
LEMMA GatewayInv == IInv /\ GatewayStep => IInv'
<1> SUFFICES ASSUME IInv, GatewayStep PROVE IInv'
  OBVIOUS
<1>1. TypeOK'
  BY TimeoutAssumption DEF IInv, TypeOK, GatewayStep, StartWatchdog, SetUp, LoadCatalog,
     CatalogTimesOut, Bind, StageReady, RenameReady, ServeEnds, StageError, RenameError,
     GatewayExits, Dies, gatewayRest, Outcomes, Ended, launcherVars, gatewayVars,
     fileVars, museVars, timeVars
<1>2. ProcessInv'
  BY DEF IInv, TypeOK, ProcessInv, GatewayStep, StartWatchdog, SetUp, LoadCatalog,
     CatalogTimesOut, Bind, StageReady, RenameReady, ServeEnds, StageError, RenameError,
     GatewayExits, Dies, gatewayRest, Ended, launcherVars, gatewayVars, fileVars,
     museVars, timeVars
<1>3. MuseInv'
  BY DEF IInv, TypeOK, MuseInv, Starting, GatewayStep, StartWatchdog, SetUp,
     LoadCatalog, CatalogTimesOut, Bind, StageReady, RenameReady, ServeEnds, StageError,
     RenameError, GatewayExits, Dies, gatewayRest, Ended, launcherVars, gatewayVars,
     fileVars, museVars, timeVars
<1>4. FileInv'
  BY DEF IInv, TypeOK, ProcessInv, FileInv, GatewayStep, StartWatchdog, SetUp,
     LoadCatalog, CatalogTimesOut, Bind, StageReady, RenameReady, ServeEnds, StageError,
     RenameError, GatewayExits, Dies, gatewayRest, Ended, launcherVars, gatewayVars,
     fileVars, museVars, timeVars
<1>5. ReadyInv'
  BY DEF IInv, TypeOK, ProcessInv, MuseInv, FileInv, ReadyInv, Starting, Unpublished,
     GatewayStep, StartWatchdog, SetUp, LoadCatalog, CatalogTimesOut, Bind, StageReady,
     RenameReady, ServeEnds, StageError, RenameError, GatewayExits, Dies, gatewayRest,
     Ended, launcherVars, gatewayVars, fileVars, museVars, timeVars
<1> QED
  BY <1>1, <1>2, <1>3, <1>4, <1>5 DEF IInv

(* The watchdog, the kernel, Muse and the clock.                           *)
LEMMA OtherInv == IInv /\ (WatchdogStep \/ GatewayTerminated \/ GatewayCrashes \/ MuseEnds \/ Tick
                          \/ Signal \/ Killed \/ LauncherReaped \/ Over \/ UNCHANGED vars) => IInv'
<1> SUFFICES ASSUME IInv, WatchdogStep \/ GatewayTerminated \/ GatewayCrashes \/ MuseEnds \/ Tick
                    \/ Signal \/ Killed \/ LauncherReaped \/ Over \/ UNCHANGED vars PROVE IInv'
  OBVIOUS
<1>1. TypeOK'
  <2>1. CASE Signal
    <3>1. museTerm' \in BOOLEAN
      BY <2>1, Zenon DEF Signal, IInv, TypeOK, museVars
    <3> QED
      BY <2>1, <3>1 DEF Signal, IInv, TypeOK, Ended, gatewayVars, fileVars, museVars, timeVars
  <2>2. CASE WatchdogStep \/ GatewayTerminated \/ GatewayCrashes
    BY <2>2 DEF IInv, TypeOK, WatchdogStep, Watch, WatchClearError, WatchExit,
       GatewayTerminated, GatewayCrashes, Dies, gatewayRest, launcherVars, museVars, timeVars
  <2>3. CASE MuseEnds \/ Tick \/ Killed \/ LauncherReaped
    BY <2>3, TimeoutAssumption DEF IInv, TypeOK, MuseEnds, Tick, Killed, LauncherReaped, Ended,
       launcherVars, gatewayVars, fileVars, museVars, timeVars
  <2>4. CASE Over \/ UNCHANGED vars
    BY <2>4 DEF IInv, TypeOK, Over, vars, launcherVars, gatewayVars, fileVars, museVars, timeVars
  <2> QED
    BY <2>1, <2>2, <2>3, <2>4
<1>2. ProcessInv'
  BY DEF IInv, TypeOK, ProcessInv, WatchdogStep, Watch, WatchClearError, WatchExit,
     GatewayTerminated, GatewayCrashes, Dies, MuseEnds, Tick, Signal, Killed,
     LauncherReaped, LauncherAlive, Over, vars, gatewayRest, Ended, launcherVars,
     gatewayVars, fileVars, museVars, timeVars
<1>3. MuseInv'
  BY DEF IInv, TypeOK, MuseInv, Starting, WatchdogStep, Watch, WatchClearError,
     WatchExit, GatewayTerminated, GatewayCrashes, Dies, MuseEnds, Tick, Signal, Killed,
     LauncherReaped, LauncherAlive, Over, vars, gatewayRest, Ended, launcherVars,
     gatewayVars, fileVars, museVars, timeVars
<1>4. FileInv'
  BY DEF IInv, TypeOK, ProcessInv, FileInv, WatchdogStep, Watch, WatchClearError,
     WatchExit, GatewayTerminated, GatewayCrashes, Dies, MuseEnds, Tick, Signal, Killed,
     LauncherReaped, LauncherAlive, Over, vars, gatewayRest, Ended, launcherVars,
     gatewayVars, fileVars, museVars, timeVars
<1>5. ReadyInv'
  BY DEF IInv, TypeOK, ProcessInv, MuseInv, FileInv, ReadyInv, Starting, Unpublished,
     WatchdogStep, Watch, WatchClearError, WatchExit, GatewayTerminated, GatewayCrashes,
     Dies, MuseEnds, Tick, Signal, Killed, LauncherReaped, LauncherAlive, Over, vars,
     gatewayRest, Ended, launcherVars, gatewayVars, fileVars, museVars, timeVars
<1> QED
  BY <1>1, <1>2, <1>3, <1>4, <1>5 DEF IInv

(* The strengthened invariant of launcher and gateway holds always.        *)
LEMMA Invariance == Spec => []IInv
<1>1. IInv /\ [Next]_vars => IInv'
  BY LauncherInv, GatewayInv, OtherInv DEF Next
<1> QED
  BY <1>1, InitInv, PTL DEF Spec
-----------------------------------------------------------------------------
(* The state stays in its type.                                            *)
THEOREM TypeCorrect == Spec => []TypeOK
<1>1. IInv => TypeOK
  BY DEF IInv
<1> QED
  BY <1>1, Invariance, PTL

(* A launcher that returns has waited for its gateway and for Muse, and    *)
(* has removed the directory with the token, whatever failed before: the   *)
(* teardown of GatewayProcess (start's error paths and Drop).              *)
THEOREM NothingLeft == Spec => []NothingLeftBehind
<1>1. IInv => NothingLeftBehind
  BY DEF IInv, ProcessInv, MuseInv, FileInv, NothingLeftBehind
<1> QED
  BY <1>1, Invariance, PTL

(* run_stock_muse starts Muse only against a published gateway.            *)
THEOREM MuseGateway == Spec => []MuseHasGateway
<1>1. IInv => MuseHasGateway
  BY DEF IInv, ReadyInv, MuseHasGateway
<1> QED
  BY <1>1, Invariance, PTL

(* Drop for GatewayProcess sends its SIGTERM to a child that has not been  *)
(* waited for.                                                             *)
THEOREM OwnChildOnly == Spec => NeverSignalsReaped
<1>1. IInv /\ [Next]_vars => [gwTerm' # gwTerm => gw \in {"running", "zombie"}]_vars
  BY DEF IInv, ProcessInv, Next, LauncherStep, MakeDirectory, SpawnGateway, Poll, PostMortem,
     ReadError, ReadReady, Deadline, Seed, SpawnMuse, InstallForwarder, WaitMuse, CloseForwarder, DropCheck,
     DropTerm, DropReap, GraceOver, KillGateway, Cleanup, GatewayStep, StartWatchdog, SetUp,
     LoadCatalog, CatalogTimesOut, Bind, StageReady, RenameReady, ServeEnds, StageError,
     RenameError, GatewayExits, Dies, WatchdogStep, Watch, WatchClearError, WatchExit,
     GatewayTerminated, GatewayCrashes, MuseEnds, Tick, Over, Signal, Killed, LauncherReaped,
     gatewayRest, vars, launcherVars, gatewayVars, fileVars, museVars, timeVars
<1> QED
  BY <1>1, Invariance, PTL DEF Spec, NeverSignalsReaped
-----------------------------------------------------------------------------
(* An error that was reported stays in its file as long as the launcher    *)
(* may look for it: only the watchdog of a gateway without a launcher, and *)
(* the launcher's own clean-up, take it away.                              *)
ReportInv ==
  /\ watchdog \in {"clear", "clearError"} => launcher = "gone"
  /\ gwPc = "reported" /\ launcher \notin {"gone", "exited"} => error = "full"
  /\ outcome = "generic" => gw = "reaped" /\ gwPc # "reported"

(* What the launcher knows of the error document holds always.             *)
LEMMA ReportInvariance == Spec => []ReportInv
<1>1. Init => ReportInv
  BY DEF Init, ReportInv
<1>2. ASSUME IInv, ReportInv, [Next]_vars PROVE ReportInv'
  <2>1. CASE LauncherStep
    BY <1>2, <2>1 DEF IInv, TypeOK, ProcessInv, FileInv, ReadyInv, ReportInv, Starting, LauncherStep,
       MakeDirectory, SpawnGateway, Poll, PostMortem, ReadError, ReadReady, Deadline,
       Seed, SpawnMuse, InstallForwarder, WaitMuse, CloseForwarder, DropCheck, DropTerm, DropReap, GraceOver,
       KillGateway, Cleanup, gatewayVars, fileVars
  <2>2. CASE GatewayStep
    BY <1>2, <2>2 DEF ReportInv, GatewayStep, StartWatchdog, SetUp, LoadCatalog,
       CatalogTimesOut, Bind, StageReady, RenameReady, ServeEnds, StageError, RenameError,
       GatewayExits, Dies, gatewayRest, launcherVars
  <2>3. CASE WatchdogStep \/ GatewayTerminated \/ GatewayCrashes \/ MuseEnds \/ Tick
             \/ Signal \/ Killed \/ LauncherReaped \/ Over \/ UNCHANGED vars
    BY <1>2, <2>3 DEF IInv, ProcessInv, ReportInv, WatchdogStep, Watch, WatchClearError, WatchExit,
       GatewayTerminated, GatewayCrashes, Dies, MuseEnds, Tick, Signal, Killed, LauncherReaped,
       LauncherAlive, Ended, ParentExists, Over, gatewayRest, vars, launcherVars, gatewayVars,
       fileVars
  <2> QED BY <1>2, <2>1, <2>2, <2>3 DEF Next
<1> QED
  BY <1>1, <1>2, Invariance, PTL DEF Spec

(* wait_for_gateway_ready gives the generic message only of a gateway that *)
(* left no error document, for all timeouts and however the two processes  *)
(* interleave.                                                             *)
THEOREM FailureReported == Spec => []StartupFailureReported
<1>1. IInv /\ ReportInv => StartupFailureReported
  BY DEF ReportInv, StartupFailureReported
<1> QED
  BY <1>1, Invariance, ReportInvariance, PTL
=============================================================================
