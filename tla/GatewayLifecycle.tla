-------------------------- MODULE GatewayLifecycle --------------------------
(***************************************************************************)
(* The life of the private gateway process, from both sides:               *)
(*   - the launcher (crates/muse-codex/src/lib.rs: GatewayProcess, its     *)
(*     Drop, wait_for_gateway_ready, run_stock_muse,                       *)
(*     wait_with_signal_forwarding);                                       *)
(*   - the gateway's main thread and its parent watchdog                   *)
(*     (crates/muse-codex-gateway/src/main.rs and server.rs).              *)
(*                                                                         *)
(* They share the readiness and the startup-error file in the launcher's   *)
(* temporary directory, and what the kernel says of their processes: a     *)
(* process that ended is a zombie until its parent waits for it, and       *)
(* kill(pid, 0) still finds a zombie.                                      *)
(*                                                                         *)
(* Time is a clock of a few ticks, read by the two deadlines of the        *)
(* startup (ReadyTimeout of the launcher, CatalogTimeout of the gateway).  *)
(* The main thread of the gateway may block for ever in any of its steps.  *)
(***************************************************************************)
EXTENDS Integers

CONSTANTS
  ReadyTimeout,    \* DEFAULT_GATEWAY_READY_TIMEOUT, and the end of the clock
  CatalogTimeout   \* MODEL_CATALOG_STARTUP_TIMEOUT

ASSUME TimeoutAssumption == ReadyTimeout \in Nat /\ CatalogTimeout \in Nat

VARIABLES
  launcher,   \* where the launcher's main thread is
  outcome,    \* what startup came to, as the launcher reports it
  forwarder,  \* SignalForwarder: "none" | "on" | "closed"
  death,      \* what ended the launcher early: "none" | "signal" | "kill"
  gw,         \* gateway process: "none" | "running" | "zombie" | "reaped"
  gwPc,       \* where the gateway's main thread is
  gwTerm,     \* SIGTERM is pending for the gateway
  watchdog,   \* "off" | "watch" | "clear" | "clearError"
  ready,      \* the readiness file: "absent" | "full"
  error,      \* the startup-error file, likewise
  directory,  \* the temporary directory exists
  muse,       \* stock Muse: "none" | "running" | "zombie" | "reaped"
  museTerm,   \* a signal was passed on to Muse
  clock, catalogStart

launcherVars == <<launcher, outcome, forwarder, death>>
gatewayVars == <<gw, gwPc, gwTerm, watchdog>>
fileVars == <<ready, error, directory>>
museVars == <<muse, museTerm>>
timeVars == <<clock, catalogStart>>
vars == <<launcherVars, gatewayVars, fileVars, museVars, timeVars>>

Ended == {"zombie", "gone", "exited"}
LauncherAlive == launcher \notin Ended
ParentExists == launcher # "gone"      \* process_exists(parent_pid)

Init ==
  /\ launcher = "start" /\ outcome = "none" /\ forwarder = "none" /\ death = "none"
  /\ gw = "none" /\ gwPc = "boot" /\ gwTerm = FALSE /\ watchdog = "off"
  /\ ready = "absent" /\ error = "absent" /\ directory = FALSE
  /\ muse = "none" /\ museTerm = FALSE
  /\ clock = 0 /\ catalogStart = 0
-----------------------------------------------------------------------------
(* The launcher: GatewayProcess::start.                                    *)

MakeDirectory ==
  /\ launcher = "start" /\ launcher' = "spawn" /\ directory' = TRUE
  /\ UNCHANGED <<outcome, forwarder, death, gatewayVars, ready, error, museVars, timeVars>>

SpawnGateway ==
  /\ launcher = "spawn"
  /\ \/ gw' = "running" /\ launcher' = "poll" /\ UNCHANGED outcome
     \/ gw' = "running" /\ launcher' = "kill" /\ outcome' = "key"     \* the key was not delivered
     \/ launcher' = "cleanup" /\ outcome' = "spawn" /\ UNCHANGED gw
  /\ UNCHANGED <<forwarder, death, gwPc, gwTerm, watchdog, fileVars, museVars, timeVars>>

(* wait_for_gateway_ready: try_wait, the error file, the readiness file,   *)
(* the deadline, and round again.                                          *)
Poll ==
  /\ launcher = "poll"
  /\ IF gw = "zombie"
     THEN gw' = "reaped" /\ launcher' = "post" ELSE launcher' = "readError" /\ UNCHANGED gw
  /\ UNCHANGED <<outcome, forwarder, death, gwPc, gwTerm, watchdog, fileVars, museVars, timeVars>>

PostMortem_Mutant ==
  /\ launcher = "post" /\ launcher' = "kill"
  /\ outcome' = "generic"
  /\ UNCHANGED <<forwarder, death, gatewayVars, fileVars, museVars, timeVars>>

(* The error document of a gateway that has ended.  Whatever it says,      *)
(* GatewayProcess::start goes on to kill and wait for the child.           *)
PostMortem ==
  /\ launcher = "post" /\ launcher' = "kill"
  /\ outcome' \in IF error = "absent" THEN {"generic"} ELSE {"code", "unreadable"}
  /\ UNCHANGED <<forwarder, death, gatewayVars, fileVars, museVars, timeVars>>

ReadError ==
  /\ launcher = "readError"
  /\ \/ error = "absent" /\ launcher' = "readReady" /\ UNCHANGED outcome
     \/ error = "full" /\ launcher' = "kill" /\ outcome' \in {"code", "unreadable"}
  /\ UNCHANGED <<forwarder, death, gatewayVars, fileVars, museVars, timeVars>>

(* A readiness file that cannot be read is tried again until the deadline. *)
ReadReady ==
  /\ launcher = "readReady"
  /\ \/ ready = "full" /\ launcher' = "seed" /\ outcome' = "ready"
     \/ ready = "full" /\ launcher' = "kill" /\ outcome' = "mismatch"   \* GatewayReady::validate
     \/ launcher' = "deadline" /\ UNCHANGED outcome
  /\ UNCHANGED <<forwarder, death, gatewayVars, fileVars, museVars, timeVars>>

Deadline_Mutant ==
  /\ launcher = "deadline"
  /\ launcher' = "poll" /\ UNCHANGED outcome
  /\ UNCHANGED <<forwarder, death, gatewayVars, fileVars, museVars, timeVars>>

Deadline ==
  /\ launcher = "deadline"
  /\ IF clock >= ReadyTimeout
     THEN launcher' = "kill" /\ outcome' = "timeout"
     ELSE launcher' = "poll" /\ UNCHANGED outcome
  /\ UNCHANGED <<forwarder, death, gatewayVars, fileVars, museVars, timeVars>>
-----------------------------------------------------------------------------
(* The launcher: run_stock_muse, once the gateway is ready.                *)

(* Directories, model catalog and settings; any failure drops the gateway. *)
Seed ==
  /\ launcher = "seed"
  /\ launcher' \in {"spawnMuse", "drop"}
  /\ UNCHANGED <<outcome, forwarder, death, gatewayVars, fileVars, museVars, timeVars>>

SpawnMuse ==
  /\ launcher = "spawnMuse"
  /\ \/ muse' = "running" /\ launcher' = "install"
     \/ launcher' = "drop" /\ UNCHANGED muse
  /\ UNCHANGED <<outcome, forwarder, death, gatewayVars, fileVars, museTerm, timeVars>>

(* SignalForwarder::new; if it fails, Muse is killed and waited for.       *)
InstallForwarder ==
  /\ launcher = "install"
  /\ \/ forwarder' = "on" /\ launcher' = "wait" /\ UNCHANGED muse
     \/ muse' = "reaped" /\ launcher' = "drop" /\ UNCHANGED forwarder
  /\ UNCHANGED <<outcome, death, gatewayVars, fileVars, museTerm, timeVars>>

WaitMuse ==
  /\ launcher = "wait" /\ muse = "zombie"
  /\ muse' = "reaped" /\ launcher' = "close"
  /\ UNCHANGED <<outcome, forwarder, death, gatewayVars, fileVars, museTerm, timeVars>>

(* Drop for SignalForwarder, after the wait has returned.                  *)
CloseForwarder ==
  /\ launcher = "close" /\ forwarder' = "closed" /\ launcher' = "drop"
  /\ UNCHANGED <<outcome, death, gatewayVars, fileVars, museVars, timeVars>>
-----------------------------------------------------------------------------
(* The launcher: Drop for GatewayProcess, then its temporary directory.    *)

DropCheck ==
  /\ launcher = "drop"
  /\ IF gw = "zombie"
     THEN gw' = "reaped" /\ launcher' = "cleanup" ELSE launcher' = "term" /\ UNCHANGED gw
  /\ UNCHANGED <<outcome, forwarder, death, gwPc, gwTerm, watchdog, fileVars, museVars, timeVars>>

DropTerm ==
  /\ launcher = "term" /\ gwTerm' = TRUE /\ launcher' = "grace"
  /\ UNCHANGED <<outcome, forwarder, death, gw, gwPc, watchdog, fileVars, museVars, timeVars>>

DropReap ==
  /\ launcher = "grace" /\ gw = "zombie"
  /\ gw' = "reaped" /\ launcher' = "cleanup"
  /\ UNCHANGED <<outcome, forwarder, death, gwPc, gwTerm, watchdog, fileVars, museVars, timeVars>>

GraceOver_Mutant ==
  /\ launcher = "grace" /\ launcher' = "cleanup"
  /\ UNCHANGED <<outcome, forwarder, death, gatewayVars, fileVars, museVars, timeVars>>

GraceOver ==
  /\ launcher = "grace" /\ launcher' = "kill"
  /\ UNCHANGED <<outcome, forwarder, death, gatewayVars, fileVars, museVars, timeVars>>

(* kill and wait, here and on the failures of GatewayProcess::start.  A    *)
(* child that was waited for (after PostMortem) is not signalled: Child    *)
(* keeps its status and answers from it.                                   *)
KillGateway ==
  /\ launcher = "kill" /\ gw' = "reaped" /\ launcher' = "cleanup"
  /\ UNCHANGED <<outcome, forwarder, death, gwPc, gwTerm, watchdog, fileVars, museVars, timeVars>>

Cleanup ==
  /\ launcher = "cleanup" /\ launcher' = "exited"
  /\ directory' = FALSE /\ ready' = "absent" /\ error' = "absent"
  /\ UNCHANGED <<outcome, forwarder, death, gatewayVars, museVars, timeVars>>

(* A signal to the launcher: forwarded to Muse from InstallForwarder on,   *)
(* fatal before.  It may also be killed outright.                          *)
Signal ==
  /\ LauncherAlive
  /\ \/ /\ forwarder = "none" /\ launcher' = "zombie" /\ death' = "signal"
        /\ UNCHANGED museVars
     \/ /\ forwarder = "on" /\ museTerm' = TRUE /\ UNCHANGED <<muse, launcher, death>>
  /\ UNCHANGED <<outcome, forwarder, gatewayVars, fileVars, timeVars>>

Killed ==
  /\ LauncherAlive /\ launcher' = "zombie" /\ death' = "kill"
  /\ UNCHANGED <<outcome, forwarder, gatewayVars, fileVars, museVars, timeVars>>

(* Whoever started the launcher waits for it.                              *)
LauncherReaped ==
  /\ launcher = "zombie" /\ launcher' = "gone"
  /\ UNCHANGED <<outcome, forwarder, death, gatewayVars, fileVars, museVars, timeVars>>
-----------------------------------------------------------------------------
(* The gateway's main thread.                                              *)

gatewayRest == <<launcherVars, gwTerm, directory, museVars>>

(* start_parent_exit_watchdog                                              *)
StartWatchdog_Mutant ==
  /\ gw = "running" /\ gwPc = "boot"
  /\ IF ParentExists
     THEN gwPc' = "setup" /\ UNCHANGED watchdog ELSE gwPc' = "fail" /\ UNCHANGED watchdog
  /\ UNCHANGED <<gatewayRest, gw, ready, error, timeVars>>

StartWatchdog ==
  /\ gw = "running" /\ gwPc = "boot"
  /\ IF ParentExists
     THEN gwPc' = "setup" /\ watchdog' = "watch" ELSE gwPc' = "fail" /\ UNCHANGED watchdog
  /\ UNCHANGED <<gatewayRest, gw, ready, error, timeVars>>

(* The key from stdin, the credential store, the transport.                *)
SetUp ==
  /\ gw = "running" /\ gwPc = "setup"
  /\ \/ gwPc' = "catalog" /\ catalogStart' = clock
     \/ gwPc' = "fail" /\ UNCHANGED catalogStart
  /\ UNCHANGED <<gatewayRest, gw, watchdog, ready, error, clock>>

LoadCatalog ==
  /\ gw = "running" /\ gwPc = "catalog"
  /\ gwPc' \in {"bind", "fail"}
  /\ UNCHANGED <<gatewayRest, gw, watchdog, ready, error, timeVars>>

CatalogTimesOut ==
  /\ gw = "running" /\ gwPc = "catalog" /\ clock - catalogStart >= CatalogTimeout
  /\ gwPc' = "fail"
  /\ UNCHANGED <<gatewayRest, gw, watchdog, ready, error, timeVars>>

(* The listener, on a loopback address.                                    *)
Bind ==
  /\ gw = "running" /\ gwPc = "bind"
  /\ gwPc' \in {"publish", "fail"}
  /\ UNCHANGED <<gatewayRest, gw, watchdog, ready, error, timeVars>>

(* write_private_json: the bytes go to a file of another name, which is    *)
(* then renamed.                                                           *)
StageReady ==
  /\ gw = "running" /\ gwPc = "publish"
  /\ gwPc' \in {"rename", "fail"}
  /\ UNCHANGED <<gatewayRest, gw, watchdog, ready, error, timeVars>>

RenameReady ==
  /\ gw = "running" /\ gwPc = "rename"
  /\ gwPc' = "serve" /\ ready' = "full"
  /\ UNCHANGED <<gatewayRest, gw, watchdog, error, timeVars>>

(* Serving ends with SIGINT, the parent's exit, or an error.               *)
ServeEnds ==
  /\ gw = "running" /\ gwPc = "serve"
  /\ gwPc' \in {"exit", "fail"} /\ ready' = "absent"
  /\ UNCHANGED <<gatewayRest, gw, watchdog, error, timeVars>>

(* serve_with_error_reporting writes its file the same way, if it can.     *)
StageError ==
  /\ gw = "running" /\ gwPc = "fail"
  /\ gwPc' \in {"failRename", "mute"}
  /\ UNCHANGED <<gatewayRest, gw, watchdog, ready, error, timeVars>>

RenameError ==
  /\ gw = "running" /\ gwPc = "failRename"
  /\ gwPc' = "reported" /\ error' = "full"
  /\ UNCHANGED <<gatewayRest, gw, watchdog, ready, timeVars>>

Dies == gw = "running" /\ gw' = "zombie"

GatewayExits ==
  /\ gwPc \in {"exit", "mute", "reported"} /\ Dies
  /\ UNCHANGED <<gatewayRest, gwPc, watchdog, ready, error, timeVars>>

(* SIGTERM keeps its default action in the gateway.                        *)
GatewayTerminated ==
  /\ gwTerm /\ Dies
  /\ UNCHANGED <<gatewayRest, gwPc, watchdog, ready, error, timeVars>>

GatewayCrashes ==
  /\ Dies /\ gwPc' = "crashed"
  /\ UNCHANGED <<gatewayRest, watchdog, ready, error, timeVars>>

(* The watchdog thread: when the parent is gone, remove both files and     *)
(* exit, whatever the main thread is doing.                                *)
Watch ==
  /\ gw = "running" /\ watchdog = "watch" /\ ~ParentExists
  /\ watchdog' = "clear"
  /\ ready' = "absent"
  /\ UNCHANGED <<gatewayRest, gw, gwPc, error, timeVars>>

WatchClearError ==
  /\ gw = "running" /\ watchdog = "clear"
  /\ watchdog' = "clearError" /\ error' = "absent"
  /\ UNCHANGED <<gatewayRest, gw, gwPc, ready, timeVars>>

WatchExit ==
  /\ watchdog = "clearError" /\ Dies
  /\ UNCHANGED <<gatewayRest, gwPc, watchdog, ready, error, timeVars>>
-----------------------------------------------------------------------------
(* Stock Muse (external) ends when it wants to, or when told.              *)
MuseEnds ==
  /\ muse = "running" /\ muse' = "zombie"
  /\ UNCHANGED <<launcherVars, gatewayVars, fileVars, museTerm, timeVars>>

Tick ==
  /\ clock < ReadyTimeout /\ clock' = clock + 1
  /\ UNCHANGED <<launcherVars, gatewayVars, fileVars, museVars, catalogStart>>

LauncherStep ==
  \/ MakeDirectory \/ SpawnGateway
  \/ Poll \/ PostMortem \/ ReadError \/ ReadReady \/ Deadline
  \/ Seed \/ SpawnMuse \/ InstallForwarder \/ WaitMuse \/ CloseForwarder
  \/ DropCheck \/ DropTerm \/ DropReap \/ GraceOver \/ KillGateway \/ Cleanup

GatewayStep ==
  \/ StartWatchdog \/ SetUp \/ LoadCatalog \/ CatalogTimesOut \/ Bind
  \/ StageReady \/ RenameReady \/ ServeEnds \/ StageError \/ RenameError \/ GatewayExits

WatchdogStep == Watch \/ WatchClearError \/ WatchExit

(* Nothing is left to do: both processes of the project are gone.          *)
Over ==
  /\ launcher \in {"exited", "gone"} /\ gw \in {"none", "reaped", "zombie"}
  /\ UNCHANGED vars

Next ==
  \/ LauncherStep \/ Signal \/ Killed \/ LauncherReaped
  \/ GatewayStep \/ WatchdogStep \/ GatewayTerminated \/ GatewayCrashes
  \/ MuseEnds \/ Tick \/ Over

Spec == Init /\ [][Next]_vars

(* The launcher and the watchdog run, time passes, the launcher's parent   *)
(* waits for it, and the gateway's main thread starts, and ends once it    *)
(* has failed: it may block for ever in between.                           *)
FairSpec ==
  /\ Spec
  /\ WF_vars(LauncherStep) /\ WF_vars(WatchdogStep) /\ WF_vars(Tick)
  /\ WF_vars(StartWatchdog)
  /\ WF_vars(StageError) /\ WF_vars(RenameError) /\ WF_vars(GatewayExits)
  /\ WF_vars(LauncherReaped)
-----------------------------------------------------------------------------
Outcomes == {"none", "spawn", "key", "code", "unreadable", "generic", "mismatch", "timeout", "ready"}

TypeOK ==
  /\ launcher \in {"start", "spawn", "poll", "post", "readError", "readReady", "deadline",
                   "seed", "spawnMuse", "install", "wait", "close", "drop", "term", "grace", "kill",
                   "cleanup"} \cup Ended
  /\ outcome \in Outcomes
  /\ forwarder \in {"none", "on", "closed"} /\ death \in {"none", "signal", "kill"}
  /\ gw \in {"none", "running", "zombie", "reaped"}
  /\ gwPc \in {"boot", "setup", "catalog", "bind", "publish", "rename", "serve", "fail", "failRename",
               "mute", "reported", "exit", "crashed"}
  /\ gwTerm \in BOOLEAN
  /\ watchdog \in {"off", "watch", "clear", "clearError"}
  /\ ready \in {"absent", "full"} /\ error \in {"absent", "full"}
  /\ directory \in BOOLEAN
  /\ muse \in {"none", "running", "zombie", "reaped"} /\ museTerm \in BOOLEAN
  /\ clock \in 0..ReadyTimeout /\ catalogStart \in 0..ReadyTimeout

(* "The launcher terminates the gateway and removes its temporary          *)
(* readiness directory during teardown" (docs/SECURITY.md): however        *)
(* startup and the session went, a launcher that returns leaves no gateway *)
(* process, no bearer token on disk, and no Muse of its own running.       *)
NothingLeftBehind ==
  launcher = "exited" =>
    /\ gw \in {"none", "reaped"} /\ muse \in {"none", "reaped"}
    /\ ~directory /\ ready = "absent" /\ error = "absent"

(* The launcher gives the generic message ("could not initialize           *)
(* authentication or load the upstream model catalog") only of a gateway   *)
(* that left no error document: one that was killed or could not write.    *)
(* It polls the process and the file at different moments, and a gateway   *)
(* may write its error and exit between the two.  A launcher whose time is *)
(* over reports the timeout, whatever the gateway would still have said.   *)
StartupFailureReported == outcome = "generic" => gwPc # "reported"

Unpublished == {"boot", "setup", "catalog", "bind", "publish", "rename"}

(* Muse is only ever started against a gateway that had opened its         *)
(* listener and published it.                                              *)
MuseHasGateway ==
  muse # "none" => outcome = "ready" /\ gwPc \notin Unpublished

(* Drop signals the gateway with a bare libc::kill on its pid, which may   *)
(* be another process's once the gateway has been waited for: on no path   *)
(* to DropTerm has it been, though startup and DropCheck wait for a        *)
(* gateway that has ended.                                                 *)
NeverSignalsReaped == [][gwTerm' # gwTerm => gw \in {"running", "zombie"}]_vars

(* "an orphaned gateway must not survive" its launcher                     *)
(* (start_parent_exit_watchdog): once the launcher is gone the gateway     *)
(* ends, though its main thread may be blocked in any step.                *)
OrphanEnds == (launcher \in {"gone", "exited"}) ~> (gw # "running")

(* The launcher waits for nobody but Muse: startup comes to an end         *)
(* whatever the gateway does, and so does the teardown.                    *)
WaitsForMuseOnly ==
  LauncherAlive ~> (launcher = "wait" \/ ~LauncherAlive)

(* "forward signals and exit status" (docs/ARCHITECTURE.md, launcher): a   *)
(* signal that ends the launcher does not leave Muse running without it.   *)
SignalsForwarded == death = "signal" => muse # "running"
=============================================================================
