---------------------------- MODULE WindowsHead -----------------------------
(***************************************************************************)
(* The process of notify-agent-windows, from the moment it has the         *)
(* single-instance mutex (see DeviceId).  Three threads: the window thread *)
(* sets up the log and the tray and then pumps messages, the agent thread  *)
(* runs start_host and AgentHost in a tokio runtime, and the Close handler *)
(* starts a watcher thread that ends the process once the agent thread is  *)
(* done or CLOSE_TIMEOUT has passed.                                       *)
(*                                                                         *)
(* AgentHost is seen from outside: starting it, running, shutting down,    *)
(* each of which may fail or never end (a sign-in nobody answers, a hung   *)
(* renderer, a server that does not answer the flush).                     *)
(*                                                                         *)
(* The log's lines go through tracing_appender's non-blocking writer: a    *)
(* thread of its own writes to the file what the others have logged, until *)
(* the WorkerGuard is dropped, which flushes and stops it; what is logged  *)
(* later is lost.  Of the log itself only this much is kept.               *)
(***************************************************************************)
EXTENDS Naturals

CONSTANT MaxClicks   \* bound: how often Close is chosen

ASSUME MaxClicksAssumption == MaxClicks \in Nat

VARIABLES
    process,      \* "running", or how it ended
    window,       \* where the window thread is
    agent,        \* where the agent thread is
    close_rx,     \* Close messages sent and not received by run_agent
    done,         \* done_tx.send(()), or dropped: recv_timeout returns
    done_rx,      \* the receiver: in TrayState or taken by a watcher
    watcher,      \* the watcher thread
    clicks,       \* how often Close was chosen
    icon,         \* the tray icon: shown or deleted
    tip,          \* its tooltip
    file_guard,   \* the log's WorkerGuard: where it is, or dropped
    log           \* all lines "written", some "buffered" for the writer, or
                  \* "cut": some were logged after the guard was dropped

agentVars == <<agent, close_rx, done, tip>>
closeVars == <<done_rx, watcher, clicks>>
vars == <<process, window, agentVars, closeVars, icon, file_guard, log>>

Init ==
    /\ process = "running"
    /\ window = "setup"
    /\ agent = "none"
    /\ close_rx = 0
    /\ done = FALSE
    /\ done_rx = "tray"
    /\ watcher = "none"
    /\ clicks = 0
    /\ icon = "none"
    /\ tip = "agent"
    /\ file_guard = "none"
    /\ log = "written"

-----------------------------------------------------------------------------
(* The log *)

HasWriter == file_guard \in {"run", "tray", "watcher"}

(* A line is logged: handed to the writer, or to nobody.                   *)
LogLine ==
    log' = IF HasWriter THEN "buffered"
           ELSE IF file_guard = "dropped" THEN "cut" ELSE log

(* The writer's thread has written all it was handed.                      *)
WriteLines ==
    /\ HasWriter
    /\ log = "buffered"
    /\ log' = "written"
    /\ UNCHANGED <<process, window, agentVars, closeVars, icon, file_guard>>

-----------------------------------------------------------------------------
(* The window thread: run() *)

(* register_aumid()? ends the process before there is a log.               *)
RegisterFails ==
    /\ window = "setup"
    /\ process' = "error"
    /\ UNCHANGED <<window, agentVars, closeVars, icon, file_guard, log>>

(* The settings are loaded, which cannot fail, and the log is set up, to   *)
(* standard output alone if there can be no file.  Its first lines, the    *)
(* diagnostics of the settings among them, may pass the filter or not.     *)
SetUpLog(with_file) ==
    /\ window = "setup"
    /\ window' = "tray"
    /\ file_guard' = IF with_file THEN "run" ELSE "none"
    /\ log' \in {"written"} \cup (IF with_file THEN {"buffered"} ELSE {})
    /\ UNCHANGED <<process, agentVars, closeVars, icon>>

(* tray::create fails.  The guard it was given is dropped on return, or    *)
(* lost with the state if the box had been handed to the window.           *)
CreateTrayFails(boxed) ==
    /\ window = "tray"
    /\ process' = "error"
    /\ file_guard' = IF file_guard = "none" THEN "none"
                     ELSE IF boxed THEN "leaked" ELSE "dropped"
    /\ log' = IF boxed THEN log ELSE "written"
    /\ UNCHANGED <<window, agentVars, closeVars, icon>>

(* The icon is shown and the agent thread spawned.                         *)
CreateTray ==
    /\ window = "tray"
    /\ window' = "pumping"
    /\ icon' = "shown"
    /\ agent' = "starting"
    /\ file_guard' = IF file_guard = "run" THEN "tray" ELSE "none"
    /\ UNCHANGED <<process, close_rx, done, tip, closeVars, log>>

(* WM_QUIT or an error of GetMessageW: main returns, which ends the        *)
(* process with its threads; the guard is in a box nobody drops.           *)
MessageLoopEnds ==
    /\ window = "pumping"
    /\ process' = "returned"
    /\ UNCHANGED <<window, agentVars, closeVars, icon, file_guard, log>>

-----------------------------------------------------------------------------
(* The agent thread *)

(* start_host, the tasks of the host and run_agent log as they go, until   *)
(* the runtime is dropped, which comes before done_tx.send(()).            *)
AgentLogs ==
    /\ agent \in {"starting", "running", "shutdown", "failing", "ending"}
    /\ LogLine
    /\ UNCHANGED <<process, window, agentVars, closeVars, icon, file_guard>>

(* The thread panics, which drops the runtime and then done_tx: there is   *)
(* no runtime to be had, or start_host panics, as with a lifetime of the   *)
(* device code that no Instant can hold.                                   *)
AgentPanics ==
    /\ agent = "starting"
    /\ agent' = "ended"
    /\ done' = TRUE
    /\ UNCHANGED <<process, window, close_rx, tip, closeVars, icon, file_guard, log>>

Started ==
    /\ agent = "starting"
    /\ agent' = "running"
    /\ UNCHANGED <<process, window, close_rx, done, tip, closeVars, icon, file_guard, log>>

(* set_start_failed: NIM_MODIFY, which fails once the icon is deleted.     *)
SetStartFailed == tip' = IF icon = "shown" THEN "failed" ELSE tip

StartFails ==
    /\ agent = "starting"
    /\ agent' = "failing"
    /\ SetStartFailed
    /\ UNCHANGED <<process, window, close_rx, done, closeVars, icon, file_guard, log>>

(* select!: Close was received, or Ctrl+C.  host.shutdown() begins.        *)
ReceiveClose ==
    /\ agent = "running"
    /\ close_rx > 0
    /\ close_rx' = close_rx - 1
    /\ agent' = "shutdown"
    /\ UNCHANGED <<process, window, done, tip, closeVars, icon, file_guard, log>>

CtrlC ==
    /\ agent = "running"
    /\ agent' = "shutdown"
    /\ UNCHANGED <<process, window, close_rx, done, tip, closeVars, icon, file_guard, log>>

ShutdownReturns ==
    /\ agent = "shutdown"
    /\ agent' = "ending"
    /\ UNCHANGED <<process, window, close_rx, done, tip, closeVars, icon, file_guard, log>>

(* The flush at the end of shutdown fails.                                 *)
ShutdownFails ==
    /\ agent = "shutdown"
    /\ agent' = "failing"
    /\ UNCHANGED <<process, window, close_rx, done, tip, closeVars, icon, file_guard, log>>

\* Mutated form of ReportFailure: the watcher is told before the error is logged.
ReportFailureLate ==
    /\ agent = "failing"
    /\ agent' = "ending"
    /\ done' = TRUE
    /\ UNCHANGED <<process, window, close_rx, tip, closeVars, icon, file_guard, log>>

(* run_agent returned an error: it is logged and shown in the tip.         *)
ReportFailure ==
    /\ agent = "failing"
    /\ agent' = "ending"
    /\ LogLine
    /\ SetStartFailed
    /\ UNCHANGED <<process, window, close_rx, done, closeVars, icon, file_guard>>

AgentThreadEnds ==
    /\ agent = "ending"
    /\ agent' = "ended"
    /\ done' = TRUE
    /\ UNCHANGED <<process, window, close_rx, tip, closeVars, icon, file_guard, log>>

(* The subscription ends while the host runs, or before its shutdown has   *)
(* stopped the subscribe loop: it is logged, and process::exit(1) ends the *)
(* process without a flush of the log.                                     *)
SubscriptionDies ==
    /\ agent \in {"running", "shutdown"}
    /\ process' = "exit 1"
    /\ LogLine
    /\ UNCHANGED <<window, agentVars, closeVars, icon, file_guard>>

-----------------------------------------------------------------------------
(* Closing: the window thread and the watcher *)

\* Mutated form of Close: every click starts a watcher.
CloseKeepsReceiver ==
    /\ window = "pumping"
    /\ clicks < MaxClicks
    /\ clicks' = clicks + 1
    /\ icon' = "deleted"
    /\ close_rx' = close_rx + 1
    /\ watcher' = "waiting"
    /\ UNCHANGED <<process, window, agent, done, tip, done_rx, file_guard, log>>

(* Close in the menu.  A menu that was open already lets it be chosen      *)
(* again; done_rx is taken once.                                           *)
Close ==
    /\ window = "pumping"
    /\ clicks < MaxClicks
    /\ clicks' = clicks + 1
    /\ icon' = "deleted"
    /\ close_rx' = close_rx + 1
    /\ IF done_rx = "tray"
       THEN /\ done_rx' = "watcher"
            /\ file_guard' = IF file_guard = "tray" THEN "watcher" ELSE "none"
            /\ watcher' = "waiting"
       ELSE UNCHANGED <<done_rx, file_guard, watcher>>
    /\ UNCHANGED <<process, window, agent, done, tip, log>>

\* Mutated form of CloseTimesOut: recv() in place of recv_timeout().
CloseNeverTimesOut == FALSE /\ UNCHANGED vars

(* The watcher: recv_timeout(CLOSE_TIMEOUT) returns, ...                   *)
AgentDone ==
    /\ watcher = "waiting"
    /\ done
    /\ watcher' = "done"
    /\ UNCHANGED <<process, window, agentVars, done_rx, clicks, icon, file_guard, log>>

CloseTimesOut ==
    /\ watcher = "waiting"
    /\ watcher' = "timed out"
    /\ UNCHANGED <<process, window, agentVars, done_rx, clicks, icon, file_guard, log>>

Exiting == watcher \in {"done", "timed out"}

(* ... drop(file_guard) flushes the log and stops its writer, ...          *)
FlushLog ==
    /\ Exiting
    /\ file_guard = "watcher"
    /\ file_guard' = "dropped"
    /\ log' = "written"
    /\ UNCHANGED <<process, window, agentVars, closeVars, icon>>

(* ... and process::exit(0).                                               *)
Exit ==
    /\ Exiting
    /\ file_guard \in {"dropped", "none"}
    /\ process' = "exit 0"
    /\ UNCHANGED <<window, agentVars, closeVars, icon, file_guard, log>>

-----------------------------------------------------------------------------
WindowThread == \/ RegisterFails
                \/ \E with_file \in BOOLEAN : SetUpLog(with_file)
                \/ \E boxed \in BOOLEAN : CreateTrayFails(boxed)
                \/ CreateTray \/ Close \/ MessageLoopEnds
AgentThread == \/ AgentLogs \/ AgentPanics \/ Started \/ StartFails
               \/ ReceiveClose \/ CtrlC \/ ShutdownReturns \/ ShutdownFails
               \/ ReportFailure \/ AgentThreadEnds \/ SubscriptionDies
Watcher == AgentDone \/ CloseTimesOut \/ FlushLog \/ Exit

Running == process = "running"

Next == Running /\ (WindowThread \/ AgentThread \/ Watcher \/ WriteLines)

Spec == Init /\ [][Next]_vars

(* The system runs the watcher thread and its timeout.  Nothing is assumed *)
(* of the agent thread: it may hang at every point.                        *)
FairSpec == Spec /\ WF_vars(Running /\ Watcher)

-----------------------------------------------------------------------------
(* Properties *)

(* Types; there is at most one watcher, and it has what it needs.          *)
TypeOK ==
    /\ process \in {"running", "exit 0", "exit 1", "error", "returned"}
    /\ window \in {"setup", "tray", "pumping"}
    /\ agent \in {"none", "starting", "running", "shutdown", "failing", "ending", "ended"}
    /\ close_rx \in 0..MaxClicks
    /\ done \in BOOLEAN
    /\ done_rx \in {"tray", "watcher"}
    /\ watcher \in {"none", "waiting", "done", "timed out"}
    /\ clicks \in 0..MaxClicks
    /\ icon \in {"none", "shown", "deleted"}
    /\ tip \in {"agent", "failed"}
    /\ file_guard \in {"none", "run", "tray", "watcher", "dropped", "leaked"}
    /\ log \in {"written", "buffered", "cut"}
    /\ watcher = "none" <=> done_rx = "tray"

(* Close ends the process although the agent thread may hang in sign-in,   *)
(* in shutdown or anywhere else, may have failed before, or may be told to *)
(* close a second time (tray.rs, wndproc).                                 *)
CloseAlwaysExits == clicks > 0 ~> ~Running

(* The log of a process that Close ended.  If the agent thread was done in *)
(* time, nothing it logged is missing, the error it ended with included,   *)
(* although the watcher does not join it: it has logged its last line      *)
(* before the watcher can hear of it.  If it was not, all that was logged  *)
(* before the guard was dropped is in the file, and only what the thread   *)
(* logs between that and process::exit is lost (main.rs, run; tray.rs, the *)
(* watcher thread).                                                        *)
LogSurvivesClose ==
    /\ process = "exit 0" => log # "buffered"
    /\ log = "cut" => watcher = "timed out"
=============================================================================
