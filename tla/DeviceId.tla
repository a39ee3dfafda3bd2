------------------------------ MODULE DeviceId ------------------------------
(***************************************************************************)
(* The device id of an installation and the processes that use it: the     *)
(* single-instance mutex and device_id() of the Windows head, and their    *)
(* counterparts in the C# head, which has a mutex of its own and the same  *)
(* device-id file.                                                         *)
(*                                                                         *)
(* Every element of Processes is launched at most once; a relaunch is      *)
(* another element.  The id a process generates is its own number, so ids  *)
(* generated twice differ.  The file outlives the processes; a process may *)
(* end at any point (Close, a crash, the end of the session).  All are     *)
(* launched in one session: the mutexes are "Local\", while the file is    *)
(* the user's and would be shared by several sessions of his.              *)
(***************************************************************************)
EXTENDS Naturals

CONSTANTS Processes,   \* the launches
          HeadOf       \* "rust" or "csharp"

ASSUME ProcessesAssumption ==
    /\ Processes \subseteq Nat \ {0}
    /\ HeadOf \in [Processes -> {"rust", "csharp"}]

VARIABLES
    pc,       \* where each process is
    handles,  \* the processes that have a handle of their head's mutex
    file,     \* the device-id file: none, or what is in it; 0 is empty
    id,       \* the id a process runs with, none if an operator gave it one
    misread   \* history: an id was in the file and could not be read

vars == <<pc, handles, file, id, misread>>

Empty == 0

Init ==
    /\ pc = [p \in Processes |-> "idle"]
    /\ handles = {}
    /\ file = {}
    /\ id = [p \in Processes |-> {}]
    /\ misread = FALSE

Goto(p, place) == pc' = [pc EXCEPT ![p] = place]

-----------------------------------------------------------------------------
(* ERROR_ALREADY_EXISTS.                                                   *)
Exists(head) == \E q \in handles : HeadOf[q] = head

\* Mutated form of CreateMutex: the handle is closed at the end of its block.
CreateMutexDropped(p) ==
    /\ pc[p] = "idle"
    /\ Goto(p, IF Exists(HeadOf[p]) THEN "leaving" ELSE "start")
    /\ UNCHANGED <<handles, file, id, misread>>

(* CreateMutexW gives a handle either way; only the end of the process     *)
(* closes it.                                                              *)
CreateMutex(p) ==
    /\ pc[p] = "idle"
    /\ Goto(p, IF Exists(HeadOf[p]) THEN "leaving" ELSE "start")
    /\ handles' = handles \cup {p}
    /\ UNCHANGED <<file, id, misread>>

(* NOTIFY_DEVICE_ID or the settings file's deviceId.                       *)
UseOverride(p) ==
    /\ pc[p] = "start"
    /\ Goto(p, "running")
    /\ UNCHANGED <<handles, file, id, misread>>

-----------------------------------------------------------------------------
(* The persisted id *)

(* .NET opens the file so that nobody else may write meanwhile, and fails  *)
(* if someone does; Rust shares it with everyone.                          *)
Blocked(p) ==
    \E q \in Processes \ {p} :
       pc[q] = "writing" /\ "csharp" \in {HeadOf[p], HeadOf[q]}

(* device_id() takes what is not empty, GetOrCreate whatever is there.     *)
Usable(p, content) == HeadOf[p] = "csharp" \/ content # Empty

ReadExisting(p) ==
    /\ pc[p] = "start"
    /\ \E content \in file :
          /\ Usable(p, content)
          /\ HeadOf[p] = "csharp" => ~Blocked(p)
          /\ id' = [id EXCEPT ![p] = {content}]
    /\ Goto(p, "running")
    /\ UNCHANGED <<handles, file, misread>>

ReadNothing(p) ==
    /\ pc[p] = "start"
    /\ \A content \in file : ~Usable(p, content)
    /\ Goto(p, "create")
    /\ UNCHANGED <<handles, file, id, misread>>

(* Every error of read_to_string counts as no file; in .NET it is thrown.  *)
ReadFails(p) ==
    /\ pc[p] = "start"
    /\ HeadOf[p] = "rust"
    /\ file # {}
    /\ Goto(p, "create")
    /\ misread' = (misread \/ file # {Empty})
    /\ UNCHANGED <<handles, file, id>>

(* std::fs::write and File.WriteAllText: open and truncate, then write.    *)
Truncate(p) ==
    /\ pc[p] = "create"
    /\ ~Blocked(p)
    /\ Goto(p, "writing")
    /\ file' = {Empty}
    /\ UNCHANGED <<handles, id, misread>>

Write(p) ==
    /\ pc[p] = "writing"
    /\ Goto(p, "running")
    /\ file' = {p}
    /\ id' = [id EXCEPT ![p] = {p}]
    /\ UNCHANGED <<handles, misread>>

\* Mutated form of StoreFails: the id is used although it was not written.
StoreFailsIgnored(p) ==
    /\ pc[p] \in {"create", "writing"}
    /\ Goto(p, "running")
    /\ id' = [id EXCEPT ![p] = {p}]
    /\ UNCHANGED <<handles, file, misread>>

(* No directory, no write, or a file someone else has open: there is no    *)
(* agent, but the process and its tray icon stay.                          *)
StoreFails(p) ==
    /\ pc[p] \in {"start", "create", "writing"}
    /\ Goto(p, "failed")
    /\ UNCHANGED <<handles, file, id, misread>>

-----------------------------------------------------------------------------
(* The second instance returns from run(); the others end as they may.     *)
End(p) ==
    /\ pc[p] \notin {"idle", "ended"}
    /\ Goto(p, "ended")
    /\ handles' = handles \ {p}
    /\ UNCHANGED <<file, id, misread>>

ProcessStep(p) ==
    \/ CreateMutex(p) \/ UseOverride(p)
    \/ ReadExisting(p) \/ ReadNothing(p) \/ ReadFails(p)
    \/ Truncate(p) \/ Write(p) \/ StoreFails(p)
    \/ End(p)

Next == \E p \in Processes : ProcessStep(p)

Spec == Init /\ [][Next]_vars

-----------------------------------------------------------------------------
(* Properties *)

(* Types; a process has its handle for as long as it lives.                *)
TypeOK ==
    /\ pc \in [Processes -> {"idle", "leaving", "start", "create", "writing", "running",
                             "failed", "ended"}]
    /\ handles = {p \in Processes : pc[p] \notin {"idle", "ended"}}
    /\ file \subseteq Processes \cup {Empty}
    /\ \A c, d \in file : c = d
    /\ id \in [Processes -> SUBSET (Processes \cup {Empty})]
    /\ misread \in BOOLEAN

(* Of one head, one process at most gets beyond the mutex, whatever is     *)
(* launched while another one starts, runs, has failed or ends (run).      *)
OneInstance ==
    \A p, q \in Processes :
       /\ HeadOf[p] = HeadOf[q]
       /\ {pc[p], pc[q]} \cap {"idle", "leaving", "ended"} = {}
       => p = q

(* The id of an installation is stable: all processes that take it from    *)
(* the file have the same one, and it is not empty, whichever of them end  *)
(* half way through writing it or cannot write it, unless one of them      *)
(* could not read what was there (device_id, "Stable per-install device    *)
(* id").                                                                   *)
DeviceIdStable ==
    ~misread =>
       \A p, q \in Processes :
          \A i \in id[p], j \in id[q] : i = j /\ i # Empty
=============================================================================
