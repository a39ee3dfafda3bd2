--------------------------- MODULE DeviceIdProofs ---------------------------
(***************************************************************************)
(* Theorems about DeviceId, for any launches of any heads.                 *)
(***************************************************************************)
EXTENDS DeviceId, TLAPS

(* The inductive invariant: the types, with who has a handle, and the one  *)
(* instance per head.                                                      *)
InstanceInv == TypeOK /\ OneInstance

LEMMA InitInstance == Init => InstanceInv
BY ProcessesAssumption DEF Init, InstanceInv, TypeOK, OneInstance, Empty

(* A process that gets beyond the mutex found no handle of its head, so    *)
(* no other process of the head was alive.                                 *)
LEMMA MutexKeepsOne ==
    ASSUME InstanceInv, NEW p \in Processes, CreateMutex(p)
    PROVE  InstanceInv'
<1> USE ProcessesAssumption
<1>1. TypeOK'
  BY DEF InstanceInv, TypeOK, CreateMutex, Goto, Exists, Empty
<1>2. OneInstance'
  <2> SUFFICES ASSUME NEW q \in Processes, NEW r \in Processes,
                      HeadOf[q] = HeadOf[r],
                      {pc'[q], pc'[r]} \cap {"idle", "leaving", "ended"} = {},
                      q # r
               PROVE  FALSE
    BY DEF OneInstance
  <2>1. pc \in [Processes -> {"idle", "leaving", "start", "create", "writing", "running",
                             "failed", "ended"}]
    BY DEF InstanceInv, TypeOK
  <2>2. pc' = [pc EXCEPT ![p] = IF Exists(HeadOf[p]) THEN "leaving" ELSE "start"]
    BY DEF CreateMutex, Goto
  <2>3. CASE p \notin {q, r}
    BY <2>1, <2>2, <2>3 DEF InstanceInv, OneInstance
  <2>4. CASE p = q
    <3>1. ~Exists(HeadOf[p])
      BY <2>1, <2>2, <2>4
    <3>2. pc[r] \notin {"idle", "ended"}
      BY <2>1, <2>2, <2>4
    <3>3. r \in handles
      BY <3>2 DEF InstanceInv, TypeOK
    <3> QED BY <3>1, <3>3, <2>4 DEF Exists
  <2>5. CASE p = r
    <3>1. ~Exists(HeadOf[p])
      BY <2>1, <2>2, <2>5
    <3>2. pc[q] \notin {"idle", "ended"}
      BY <2>1, <2>2, <2>5
    <3>3. q \in handles
      BY <3>2 DEF InstanceInv, TypeOK
    <3> QED BY <3>1, <3>3, <2>5 DEF Exists
  <2> QED BY <2>3, <2>4, <2>5
<1> QED BY <1>1, <1>2 DEF InstanceInv

(* A process beyond the mutex stays there until it ends.                   *)
LEMMA StepsKeepOne ==
    ASSUME InstanceInv, NEW p \in Processes,
           NEW place \in {"create", "writing", "running", "failed", "ended"},
           pc[p] \notin {"idle", "ended"},
           place = "ended" \/ pc[p] # "leaving",
           Goto(p, place)
    PROVE  OneInstance'
<1> SUFFICES ASSUME NEW q \in Processes, NEW r \in Processes,
                    HeadOf[q] = HeadOf[r],
                    {pc'[q], pc'[r]} \cap {"idle", "leaving", "ended"} = {}
             PROVE  q = r
  BY DEF OneInstance
<1>1. pc \in [Processes -> {"idle", "leaving", "start", "create", "writing", "running",
                           "failed", "ended"}]
  BY DEF InstanceInv, TypeOK
<1>2. \A s \in {q, r} : pc[s] \notin {"idle", "leaving", "ended"}
  BY <1>1 DEF Goto
<1> QED BY <1>2 DEF InstanceInv, OneInstance

LEMMA NextInstance == InstanceInv /\ [Next]_vars => InstanceInv'
<1> USE ProcessesAssumption
<1> SUFFICES ASSUME InstanceInv, [Next]_vars PROVE InstanceInv'
  OBVIOUS
<1>1. CASE UNCHANGED vars
  BY <1>1 DEF InstanceInv, TypeOK, OneInstance, vars
<1>2. ASSUME NEW p \in Processes, ProcessStep(p) PROVE InstanceInv'
  <2>1. CASE CreateMutex(p)
    BY <2>1, MutexKeepsOne
  <2>2. CASE UseOverride(p) \/ ReadExisting(p) \/ ReadNothing(p) \/ ReadFails(p)
             \/ Truncate(p) \/ Write(p) \/ StoreFails(p)
    <3>1. PICK place \in {"create", "writing", "running", "failed"} : Goto(p, place)
      BY <2>2 DEF UseOverride, ReadExisting, ReadNothing, ReadFails, Truncate, Write,
                  StoreFails
    <3>2. pc[p] \in {"start", "create", "writing"} /\ handles' = handles
      BY <2>2 DEF UseOverride, ReadExisting, ReadNothing, ReadFails, Truncate, Write,
                  StoreFails
    <3>3. OneInstance'
      BY <3>1, <3>2, StepsKeepOne
    <3>4. TypeOK'
      <4>1. pc' = [pc EXCEPT ![p] = place]
        BY <3>1 DEF Goto
      <4>2. handles' = {q \in Processes : pc'[q] \notin {"idle", "ended"}}
        BY <3>1, <3>2, <4>1 DEF InstanceInv, TypeOK
      <4>3. /\ file' \subseteq Processes \cup {Empty}
            /\ \A c, d \in file' : c = d
            /\ misread' \in BOOLEAN
        BY <2>2 DEF InstanceInv, TypeOK, UseOverride, ReadExisting, ReadNothing, ReadFails,
                    Truncate, Write, StoreFails
      <4>4. id' \in [Processes -> SUBSET (Processes \cup {Empty})]
        BY <2>2 DEF InstanceInv, TypeOK, UseOverride, ReadExisting, ReadNothing, ReadFails,
                    Truncate, Write, StoreFails
      <4> QED BY <4>1, <4>2, <4>3, <4>4, <3>1 DEF InstanceInv, TypeOK
    <3> QED BY <3>3, <3>4 DEF InstanceInv
  <2>3. CASE End(p)
    <3>1. Goto(p, "ended") /\ pc[p] \notin {"idle", "ended"}
      BY <2>3 DEF End
    <3>2. OneInstance'
      BY <3>1, StepsKeepOne
    <3>3. TypeOK'
      BY <2>3 DEF InstanceInv, TypeOK, End, Goto
    <3> QED BY <3>2, <3>3 DEF InstanceInv
  <2> QED BY <1>2, <2>1, <2>2, <2>3 DEF ProcessStep
<1> QED BY <1>1, <1>2 DEF Next

(* At any time one process of a head at most is beyond the mutex, for any  *)
(* number of launches, of crashes and of processes that end (run).         *)
THEOREM SingleInstance == Spec => []OneInstance
<1>1. InstanceInv => OneInstance
  BY DEF InstanceInv
<1> QED BY <1>1, InitInstance, NextInstance, PTL DEF Spec

-----------------------------------------------------------------------------
(* One head only.                                                          *)
OneHead == \A p \in Processes : HeadOf[p] = "rust"

(* While no id was misread, an id in use is the one in the file, and while *)
(* a process is about to write one, none is in use.                        *)
FileBacksIds ==
    ~misread =>
       /\ \A p \in Processes : \A i \in id[p] : i # Empty /\ file = {i}
       /\ \A p \in Processes :
             pc[p] \in {"create", "writing"} => \A q \in Processes : id[q] = {}

LEMMA InitFileBacksIds == Init => FileBacksIds
BY DEF Init, FileBacksIds

(* Two processes of one head are never both beyond the mutex.              *)
LEMMA Alone ==
    ASSUME OneHead, InstanceInv, NEW p \in Processes, NEW q \in Processes,
           pc[p] \in {"start", "create", "writing"},
           pc[q] \in {"start", "create", "writing"}
    PROVE  p = q
BY DEF OneHead, InstanceInv, OneInstance

LEMMA NextFileBacksIds ==
    ASSUME OneHead, InstanceInv, FileBacksIds, [Next]_vars
    PROVE  FileBacksIds'
<1> USE ProcessesAssumption
<1> DEFINE Places == {"idle", "leaving", "start", "create", "writing", "running", "failed",
                      "ended"}
<1>0. /\ pc \in [Processes -> Places]
      /\ id \in [Processes -> SUBSET (Processes \cup {Empty})]
  BY DEF InstanceInv, TypeOK
<1>1. CASE UNCHANGED vars
  BY <1>1 DEF FileBacksIds, vars
<1>2. ASSUME NEW p \in Processes, ProcessStep(p) PROVE FileBacksIds'
  <2>1. CASE CreateMutex(p) \/ UseOverride(p) \/ StoreFails(p) \/ End(p)
    <3>1. PICK place \in {"leaving", "start", "running", "failed", "ended"} :
             pc' = [pc EXCEPT ![p] = place]
      BY <2>1 DEF CreateMutex, UseOverride, StoreFails, End, Goto
    <3>2. UNCHANGED <<file, id, misread>>
      BY <2>1 DEF CreateMutex, UseOverride, StoreFails, End
    <3>3. \A r \in Processes : pc'[r] \in {"create", "writing"} => pc[r] = pc'[r]
      BY <3>1, <1>0
    <3> QED BY <3>2, <3>3 DEF FileBacksIds
  <2>2. CASE ReadExisting(p)
    <3>1. PICK c \in file : c # Empty /\ id' = [id EXCEPT ![p] = {c}]
      BY <2>2 DEF ReadExisting, Usable, OneHead
    <3>2. file = {c} /\ file' = file /\ misread' = misread
      BY <2>2, <3>1 DEF ReadExisting, InstanceInv, TypeOK
    <3>3. \A r \in Processes : pc'[r] \notin {"create", "writing"}
      BY <2>2, <1>0, Alone DEF ReadExisting, Goto
    <3>4. \A r \in Processes : id'[r] = id[r] \/ id'[r] = {c}
      BY <3>1, <1>0
    <3> QED BY <3>1, <3>2, <3>3, <3>4 DEF FileBacksIds
  <2>3. CASE ReadNothing(p) \/ ReadFails(p)
    <3>1. UNCHANGED <<file, id>>
      BY <2>3 DEF ReadNothing, ReadFails
    <3>2. ~misread' => ~misread /\ \A c \in file : c = Empty
      BY <2>3 DEF ReadNothing, ReadFails, Usable, OneHead
    <3>3. ASSUME ~misread', NEW q \in Processes PROVE id[q] = {}
      <4>1. ASSUME NEW i \in id[q] PROVE FALSE
        <5>1. i # Empty /\ i \in file
          BY <3>2, <3>3, <4>1 DEF FileBacksIds
        <5> QED BY <5>1, <3>2, <3>3
      <4> QED BY <4>1, <1>0
    <3> QED BY <3>1, <3>2, <3>3 DEF FileBacksIds
  <2>4. CASE Truncate(p)
    <3>1. ~misread => \A q \in Processes : id[q] = {}
      BY <2>4 DEF Truncate, FileBacksIds
    <3> QED BY <3>1, <2>4 DEF Truncate, FileBacksIds
  <2>5. CASE Write(p)
    <3>1. ~misread => \A q \in Processes : id[q] = {}
      BY <2>5 DEF Write, FileBacksIds
    <3>2. \A r \in Processes : pc'[r] \notin {"create", "writing"}
      BY <2>5, <1>0, Alone DEF Write, Goto
    <3>3. id' = [id EXCEPT ![p] = {p}] /\ file' = {p} /\ misread' = misread
      BY <2>5 DEF Write
    <3>4. p # Empty
      BY DEF Empty
    <3>5. ~misread => \A r \in Processes : \A i \in id'[r] : i = p
      BY <3>1, <3>3, <1>0
    <3> QED BY <3>2, <3>3, <3>4, <3>5 DEF FileBacksIds
  <2> QED BY <1>2, <2>1, <2>2, <2>3, <2>4, <2>5 DEF ProcessStep
<1> QED BY <1>1, <1>2 DEF Next

(* As long as one head is in use, all its processes have one id, and it is *)
(* not empty, whatever crashes or fails while it is written, unless it was *)
(* there and could not be read (device_id).                                *)
THEOREM OneHeadHasOneId ==
    ASSUME OneHead
    PROVE  Spec => []DeviceIdStable
<1> DEFINE IInv == InstanceInv /\ FileBacksIds
<1>1. Init => IInv
  BY InitInstance, InitFileBacksIds
<1>2. IInv /\ [Next]_vars => IInv'
  BY NextInstance, NextFileBacksIds
<1>3. IInv => DeviceIdStable
  <2> SUFFICES ASSUME IInv, ~misread,
                      NEW p \in Processes, NEW q \in Processes,
                      NEW i \in id[p], NEW j \in id[q]
               PROVE  i = j /\ i # Empty
    BY DEF DeviceIdStable
  <2> QED BY DEF FileBacksIds
<1> QED BY <1>1, <1>2, <1>3, PTL DEF Spec
=============================================================================
