-------------------------- MODULE WindowsHeadProofs -------------------------
(***************************************************************************)
(* Proofs about WindowsHead, however often Close is chosen.                *)
(***************************************************************************)
EXTENDS WindowsHead, TLAPS

(* What the invariants need to know of Close: run_agent has received no    *)
(* more Close messages than were sent; the tray is set up once, before     *)
(* Close can be chosen, so no icon comes back; and the watcher has the     *)
(* guard of the log if there is one, so that it is the one to drop it.     *)
ClosedOnce ==
    /\ close_rx <= clicks
    /\ Running /\ window # "pumping" => done_rx = "tray" /\ file_guard \in {"none", "run"}
    /\ window = "pumping" /\ done_rx = "tray" => file_guard \in {"none", "tray"}
    /\ done_rx = "watcher" =>
         /\ window = "pumping" /\ icon = "deleted"
         /\ file_guard \in {"watcher", "dropped", "none"}

(* What they need to know of the log.  There is no agent thread before the *)
(* tray; it has ended once done was sent or dropped, and the watcher is    *)
(* "done" only after that; so when the guard is dropped with the watcher   *)
(* "done" nobody is left to log.  A log without a writer has no line on    *)
(* its way.                                                                *)
LogKept ==
    /\ window # "pumping" => agent = "none"
    /\ done = TRUE => agent = "ended"
    /\ watcher = "done" => done = TRUE
    /\ file_guard \in {"none", "dropped"} => log # "buffered"
    /\ file_guard = "none" => log # "cut"
    /\ Running /\ file_guard = "dropped" => Exiting

Inv == TypeOK /\ ClosedOnce /\ LogKept /\ LogSurvivesClose

LEMMA InvInit == Init => Inv
  <1>1. Init => TypeOK
    <2>1. 0 \in 0..MaxClicks
      BY MaxClicksAssumption
    <2> QED
      BY <2>1, Zenon DEF Init, TypeOK
  <1>2. Init => ClosedOnce
    BY DEF Init, ClosedOnce, Running
  <1>3. Init => LogKept /\ LogSurvivesClose
    BY DEF Init, LogKept, LogSurvivesClose
  <1> QED
    BY <1>1, <1>2, <1>3 DEF Inv

(* A Close message is counted when it is sent and when it is received.     *)
LEMMA ClosesCounted ==
    ASSUME Inv, Close \/ ReceiveClose
    PROVE  close_rx' \in 0..MaxClicks /\ clicks' \in 0..MaxClicks /\ close_rx' <= clicks'
  <1>1. /\ MaxClicks \in Nat /\ close_rx \in 0..MaxClicks /\ clicks \in 0..MaxClicks
        /\ close_rx <= clicks
    BY MaxClicksAssumption DEF Inv, TypeOK, ClosedOnce
  <1>2. CASE Close
    <2>1. clicks < MaxClicks /\ clicks' = clicks + 1 /\ close_rx' = close_rx + 1
      BY <1>2 DEF Close
    <2> QED
      BY <1>1, <2>1
  <1>3. CASE ReceiveClose
    <2>1. close_rx > 0 /\ clicks' = clicks /\ close_rx' = close_rx - 1
      BY <1>3 DEF ReceiveClose, closeVars
    <2> QED
      BY <1>1, <2>1
  <1> QED
    BY <1>2, <1>3

LEMMA InvWindowThread ==
    ASSUME Inv, Running, WindowThread
    PROVE  Inv'
  <1> USE MaxClicksAssumption DEF Inv, TypeOK, ClosedOnce, LogKept, LogSurvivesClose,
                                  Exiting, Running, agentVars, closeVars
  <1>1. CASE RegisterFails
    BY <1>1 DEF RegisterFails
  <1>2. ASSUME NEW with_file \in BOOLEAN, SetUpLog(with_file)
        PROVE  Inv'
    BY <1>2 DEF SetUpLog
  <1>3. ASSUME NEW boxed \in BOOLEAN, CreateTrayFails(boxed)
        PROVE  Inv'
    BY <1>3 DEF CreateTrayFails
  <1>4. CASE CreateTray
    <2>1. /\ UNCHANGED <<process, close_rx, tip, done_rx, watcher, clicks, log>>
          /\ done' = done /\ window' = "pumping" /\ icon' = "shown" /\ agent' = "starting"
          /\ file_guard \in {"none", "run"} /\ done_rx = "tray"
          /\ file_guard' = IF file_guard = "run" THEN "tray" ELSE "none"
      BY <1>4 DEF CreateTray
    <2>2. done # TRUE
      BY <1>4 DEF CreateTray
    <2>3. TypeOK' /\ ClosedOnce'
      BY <2>1
    <2>4. LogKept' /\ LogSurvivesClose'
      BY <2>1, <2>2
    <2> QED
      BY <2>3, <2>4
  <1>5. CASE Close
    <2>1. /\ close_rx' \in 0..MaxClicks /\ clicks' \in 0..MaxClicks
          /\ close_rx' <= clicks'
      BY <1>5, ClosesCounted
    <2>2. /\ UNCHANGED <<process, window, agent, tip, log>>
          /\ done' = done /\ window = "pumping" /\ icon' = "deleted"
          /\ done_rx' = "watcher" /\ watcher' # "none"
          /\ watcher' \in {"none", "waiting", "done", "timed out"}
          /\ file_guard' \in {"watcher", "dropped", "none"}
      BY <1>5 DEF Close
    <2>4. TypeOK' /\ ClosedOnce'
      BY <2>1, <2>2
    <2>3. LogKept' /\ LogSurvivesClose'
      BY <1>5 DEF Close
    <2> QED
      BY <2>3, <2>4
  <1>6. CASE MessageLoopEnds
    BY <1>6 DEF MessageLoopEnds
  <1> QED
    BY <1>1, <1>2, <1>3, <1>4, <1>5, <1>6 DEF WindowThread

LEMMA InvAgentThread ==
    ASSUME Inv, Running, AgentThread
    PROVE  Inv'
  <1> USE MaxClicksAssumption DEF Inv, TypeOK, ClosedOnce, LogKept, LogSurvivesClose,
                                  Exiting, Running, agentVars, closeVars
  <1>1. CASE AgentPanics \/ Started \/ CtrlC \/ ShutdownReturns \/ ShutdownFails
    BY <1>1 DEF AgentPanics, Started, CtrlC, ShutdownReturns, ShutdownFails
  <1>2. CASE StartFails \/ AgentThreadEnds
    BY <1>2 DEF StartFails, SetStartFailed, AgentThreadEnds
  <1>3. CASE ReceiveClose
    <2>1. close_rx' \in 0..MaxClicks /\ close_rx' <= clicks'
      BY <1>3, ClosesCounted
    <2> QED
      BY <1>3, <2>1 DEF ReceiveClose
  <1>4. CASE AgentLogs \/ ReportFailure \/ SubscriptionDies
    <2>1. watcher = "done" => agent = "ended"
      OBVIOUS
    <2>2. agent # "ended"
      BY <1>4 DEF AgentLogs, ReportFailure, SubscriptionDies
    <2>3. file_guard = "dropped" => watcher = "timed out"
      BY <2>1, <2>2
    <2> QED
      BY <1>4, <2>3 DEF AgentLogs, ReportFailure, SubscriptionDies, LogLine, HasWriter,
                        SetStartFailed
  <1> QED
    BY <1>1, <1>2, <1>3, <1>4 DEF AgentThread

LEMMA InvWatcher ==
    ASSUME Inv, Running, Watcher \/ WriteLines
    PROVE  Inv'
  BY DEF Inv, TypeOK, ClosedOnce, LogKept, LogSurvivesClose, Exiting, Running,
         agentVars, closeVars, Watcher, AgentDone, CloseTimesOut, FlushLog, Exit,
         WriteLines, HasWriter

LEMMA InvNext == Inv /\ [Next]_vars => Inv'
  <1> SUFFICES ASSUME Inv, [Next]_vars PROVE Inv'
    OBVIOUS
  <1>1. CASE UNCHANGED vars
    <2>1. /\ UNCHANGED <<process, window, agent, close_rx, tip, done_rx, watcher, clicks>>
          /\ UNCHANGED <<icon, file_guard>>
          /\ done' = done /\ log' = log
      BY <1>1 DEF vars, agentVars, closeVars
    <2>2. TypeOK
      BY DEF Inv
    <2>3. TypeOK'
      <3>1. done' \in BOOLEAN /\ close_rx' \in 0..MaxClicks /\ clicks' \in 0..MaxClicks
        BY <2>1, <2>2, Zenon DEF TypeOK
      <3>2. /\ process' \in {"running", "exit 0", "exit 1", "error", "returned"}
            /\ window' \in {"setup", "tray", "pumping"}
            /\ agent' \in {"none", "starting", "running", "shutdown", "failing", "ending",
                           "ended"}
            /\ tip' \in {"agent", "failed"}
        BY <2>1, <2>2 DEF TypeOK
      <3>3. /\ done_rx' \in {"tray", "watcher"}
            /\ watcher' \in {"none", "waiting", "done", "timed out"}
            /\ watcher' = "none" <=> done_rx' = "tray"
        BY <2>1, <2>2 DEF TypeOK
      <3>4. /\ icon' \in {"none", "shown", "deleted"}
            /\ file_guard' \in {"none", "run", "tray", "watcher", "dropped", "leaked"}
            /\ log' \in {"written", "buffered", "cut"}
        BY <2>1, <2>2 DEF TypeOK
      <3> QED
        BY <3>1, <3>2, <3>3, <3>4, Zenon DEF TypeOK
    <2> QED
      BY <2>1, <2>3 DEF Inv, ClosedOnce, LogKept, LogSurvivesClose, Exiting, Running
  <1> QED
    BY <1>1, InvWindowThread, InvAgentThread, InvWatcher DEF Next

LEMMA AlwaysInv == Spec => []Inv
  BY InvInit, InvNext, PTL DEF Spec

(* The types of the process's state; above all, the receiver is taken by   *)
(* one watcher, and a Close that was not sent is never received (tray.rs,  *)
(* wndproc).                                                               *)
THEOREM WindowsHeadTypeCorrect == Spec => []TypeOK
  BY AlwaysInv, PTL DEF Inv

(* Close loses no line of an agent thread that ends in time, and of one    *)
(* that does not only what it logs after the guard was dropped, at         *)
(* whatever point the thread is and however often Close is chosen          *)
(* (main.rs, run; tray.rs, the watcher thread).                            *)
THEOREM CloseKeepsLog == Spec => []LogSurvivesClose
  BY AlwaysInv, PTL DEF Inv

(* The watcher never waits for a guard somebody else has: what it drops is *)
(* its own, is dropped already or was never there, so nothing keeps it     *)
(* from process::exit (tray.rs, the watcher thread).                       *)
THEOREM WatcherCanExit ==
    Spec => [](Exiting => file_guard \in {"watcher", "dropped", "none"})
  <1>1. Inv => (Exiting => file_guard \in {"watcher", "dropped", "none"})
    BY DEF Inv, TypeOK, ClosedOnce, Exiting
  <1> QED
    BY <1>1, AlwaysInv, PTL
=============================================================================
