-------------------------- MODULE ImageCacheProofs --------------------------
(***************************************************************************)
(* For every number of concurrent calls, every set of URLs, every cap and  *)
(* whatever earlier processes left in the directory: a lookup never finds  *)
(* a part of an image, and the directory exceeds the cap by no more than   *)
(* CacheBounded says.                                                      *)
(*                                                                         *)
(* WholeImages alone is not inductive: the rename needs to know that what  *)
(* it moves is whole.  Filled says so; it survives the steps of the other  *)
(* calls because a temporary name belongs to one call.                     *)
(*                                                                         *)
(* CacheBounded is not inductive either: when an eviction ends, its call   *)
(* no longer counts, so one has to know what the eviction has achieved.    *)
(* EvictionsWork says it for every eviction under way, whatever the others *)
(* have added or deleted since it listed the directory.                    *)
(***************************************************************************)
EXTENDS ImageCache, FiniteSetTheorems, TLAPS

(* What the proof needs of the types.                                      *)
Shape ==
    /\ pc \in [Fetches -> Labels]
    /\ url \in [Fetches -> Urls \cup {NoUrl}]

(* A call about to rename has a whole temporary file, if it still has one. *)
Filled ==
    \A f \in Fetches :
        pc[f] = "rename" /\ TmpName(f) \in DOMAIN dir => dir[TmpName(f)].whole

IInv == Shape /\ Filled /\ WholeImages

(* A temporary name is the name of one call, and no image has it           *)
(* (image_cache.rs, download: the counter in the name).                    *)
LEMMA NamesDiffer ==
    ASSUME NEW f \in Fetches, NEW g \in Fetches, NEW u
    PROVE  /\ TmpName(f) = TmpName(g) => f = g
           /\ IsTmp(TmpName(f))
           /\ ~IsTmp(Path(u))
           /\ TmpName(f) # Path(u)
  BY DEF TmpName, Path, IsTmp

(* What the process finds at its start.                                    *)
LEMMA Found ==
    ASSUME Init
    PROVE  /\ DOMAIN dir \subseteq Names /\ IsFiniteSet(DOMAIN dir)
           /\ \A n \in DOMAIN dir : dir[n] \in Files /\ dir[n].mtime = 0
           /\ WholeImages
           /\ unswept \subseteq Fetches /\ IsFiniteSet(unswept)
           /\ Cardinality(DOMAIN dir) <= MaxFiles + Cardinality(unswept)
  <1>1. PICK l \in Leftovers :
           /\ unswept = l.cut_short
           /\ \E half \in SUBSET {n \in l.names : IsTmp(n)} :
                 dir = [n \in l.names |-> [whole |-> n \notin half, mtime |-> 0]]
    BY DEF Init
  <1>2. PICK half \in SUBSET {n \in l.names : IsTmp(n)} :
           dir = [n \in l.names |-> [whole |-> n \notin half, mtime |-> 0]]
    BY <1>1
  <1>3. DOMAIN dir = l.names
    BY <1>2
  <1>4. \A n \in DOMAIN dir : dir[n] \in Files /\ dir[n].mtime = 0
    BY <1>2 DEF Files
  <1>5. WholeImages
    BY <1>2 DEF WholeImages
  <1> QED BY <1>1, <1>3, <1>4, <1>5, LeftoversAssumption

LEMMA InitIInv == Init => IInv
  <1> SUFFICES ASSUME Init PROVE IInv
    OBVIOUS
  <1>1. Shape
    BY DEF Init, Shape, Labels
  <1>2. Filled
    BY DEF Init, Filled
  <1>3. WholeImages
    BY Found
  <1> QED
    BY <1>1, <1>2, <1>3 DEF IInv

(* A step of call f changes no control state but its own.                  *)
LEMMA OwnSteps ==
    ASSUME Shape, NEW f \in Fetches, FetchStep(f)
    PROVE  /\ Shape'
           /\ \A g \in Fetches \ {f} : pc'[g] = pc[g] /\ TmpName(g)' = TmpName(g)
  BY DEF Shape, FetchStep, Labels, Goto, End, Abandon, TmpName, NoUrl,
         Refuse, Begin, Hit, Miss, DownloadFails, Downloaded, NoWrite, CreateTmp,
         FillTmp, WriteFails, Rename, RenameFails, List, ListFails, Remove, RemoveFails,
         Swept, Timeout

(* The steps that leave the directory alone.                               *)
LEMMA QuietSteps ==
    ASSUME NEW f \in Fetches, FetchStep(f),
           ~CreateTmp(f), ~FillTmp(f), ~Rename(f), ~Remove(f)
    PROVE  dir' = dir
  BY DEF FetchStep, Refuse, Begin, Hit, Miss, DownloadFails, Downloaded, NoWrite,
         WriteFails, RenameFails, List, ListFails, RemoveFails, Swept, Timeout

(* A call comes to the rename, or stays there, with a whole file.          *)
LEMMA OwnFileWhole ==
    ASSUME IInv, NEW f \in Fetches, FetchStep(f), pc'[f] = "rename",
           TmpName(f)' \in DOMAIN dir'
    PROVE  dir'[TmpName(f)'].whole
  <1>1. FillTmp(f) \/ Timeout(f)
    BY DEF IInv, Shape, FetchStep, Goto, End, Abandon, Refuse, Begin, Hit, Miss,
           DownloadFails, Downloaded, NoWrite, CreateTmp, WriteFails, Rename,
           RenameFails, List, ListFails, Remove, RemoveFails, Swept
  <1>2. CASE FillTmp(f)
    <2>1. f \notin timed_out
      BY <1>2 DEF FillTmp, Abandon, End, Goto, IInv, Shape
    <2>2. TmpName(f)' = TmpName(f)
      BY <1>2, <2>1 DEF FillTmp, TmpName
    <2>3. dir' = Put(TmpName(f), [whole |-> TRUE, mtime |-> now'])
      BY <1>2, <2>2 DEF FillTmp
    <2> QED
      BY <2>2, <2>3 DEF Put
  <1>3. CASE Timeout(f)
    <2>1. pc[f] = "rename" /\ TmpName(f)' = TmpName(f) /\ dir' = dir
      BY <1>3 DEF Timeout, End, Goto, TmpName, IInv, Shape
    <2> QED
      BY <2>1 DEF IInv, Filled
  <1> QED
    BY <1>1, <1>2, <1>3

LEMMA NextIInv == IInv /\ [Next]_vars => IInv'
  <1> SUFFICES ASSUME IInv, [Next]_vars PROVE IInv'
    OBVIOUS
  <1>1. CASE UNCHANGED vars
    BY <1>1 DEF vars, IInv, Shape, Filled, WholeImages, TmpName
  <1>2. CASE Next
    <2>1. PICK f \in Fetches : FetchStep(f)
      BY <1>2 DEF Next
    <2>2. Shape' /\ \A g \in Fetches \ {f} : pc'[g] = pc[g] /\ TmpName(g)' = TmpName(g)
      BY <2>1, OwnSteps DEF IInv
    <2> DEFINE t == TmpName(f)
    <2>3. IsTmp(t)
      BY NamesDiffer
    <2>4. ASSUME NEW g \in Fetches \ {f}
          PROVE  TmpName(g) # t /\ \A u : TmpName(g) # Path(u)
      BY NamesDiffer
    <2>5. ASSUME NEW u
          PROVE  ~IsTmp(Path(u)) /\ Path(u) # t
      BY NamesDiffer
    <2> HIDE DEF t
    \* Another call's temporary file is what it was, or gone.
    <2>6. ASSUME NEW g \in Fetches \ {f}, TmpName(g) \in DOMAIN dir'
          PROVE  TmpName(g) \in DOMAIN dir /\ dir'[TmpName(g)] = dir[TmpName(g)]
      <3>1. CASE CreateTmp(f)
        BY <3>1, <2>4, <2>6 DEF CreateTmp, Put, t
      <3>2. CASE FillTmp(f)
        BY <3>2, <2>4, <2>6 DEF FillTmp, Put, t
      <3>3. CASE Rename(f)
        BY <3>3, <2>4, <2>6 DEF Rename, t
      <3>4. CASE Remove(f)
        BY <3>4, <2>6 DEF Remove, Without
      <3>5. CASE ~CreateTmp(f) /\ ~FillTmp(f) /\ ~Rename(f) /\ ~Remove(f)
        BY <3>5, <2>1, <2>6, QuietSteps
      <3> QED
        BY <3>1, <3>2, <3>3, <3>4, <3>5
    <2>7. Filled'
      <3> SUFFICES ASSUME NEW g \in Fetches, pc'[g] = "rename",
                          TmpName(g)' \in DOMAIN dir'
                   PROVE  dir'[TmpName(g)'].whole
        BY DEF Filled
      <3>1. CASE g = f
        BY <3>1, <2>1, OwnFileWhole
      <3>2. CASE g # f
        BY <3>2, <2>2, <2>6 DEF IInv, Filled
      <3> QED
        BY <3>1, <3>2
    <2>8. WholeImages'
      <3> SUFFICES ASSUME NEW n \in DOMAIN dir', ~IsTmp(n)
                   PROVE  dir'[n].whole
        BY DEF WholeImages
      <3>0. n # t
        BY <2>3
      <3>1. CASE CreateTmp(f)
        BY <3>0, <3>1 DEF CreateTmp, Put, IInv, WholeImages, t
      <3>2. CASE FillTmp(f)
        BY <3>0, <3>2 DEF FillTmp, Put, IInv, WholeImages, t
      <3>3. CASE Rename(f)
        BY <3>0, <3>3 DEF Rename, IInv, WholeImages, Filled, t
      <3>4. CASE Remove(f)
        BY <3>4 DEF Remove, Without, IInv, WholeImages
      <3>5. CASE ~CreateTmp(f) /\ ~FillTmp(f) /\ ~Rename(f) /\ ~Remove(f)
        BY <3>5, <2>1, QuietSteps DEF IInv, WholeImages
      <3> QED
        BY <3>1, <3>2, <3>3, <3>4, <3>5
    <2> QED
      BY <2>2, <2>7, <2>8 DEF IInv
  <1> QED
    BY <1>1, <1>2 DEF vars

(* WholeImages for any number of concurrent calls, URLs and files: what    *)
(* fetch finds at an image's path (image_cache.rs, fetch and download) is  *)
(* never a part of an image.                                               *)
THEOREM LookupFindsWholeImages == Spec => []WholeImages
  <1>1. IInv => WholeImages
    BY DEF IInv
  <1> QED
    BY <1>1, InitIInv, NextIInv, PTL DEF Spec

-----------------------------------------------------------------------------
(* Types *)

(* Finitely many calls have begun, and each has put in finitely many files. *)
Finite ==
    /\ IsFiniteSet(DOMAIN dir)
    /\ IsFiniteSet({f \in Fetches : pc[f] # "idle"})

Types == TypeOK /\ Finite

LEMMA InitTypes == Init => Types
  <1> SUFFICES ASSUME Init PROVE Types
    OBVIOUS
  <1>1. /\ DOMAIN dir \subseteq Names /\ IsFiniteSet(DOMAIN dir)
        /\ \A n \in DOMAIN dir : dir[n] \in Files /\ dir[n].mtime = 0
        /\ unswept \subseteq Fetches /\ IsFiniteSet(unswept)
    BY Found
  <1>2. TypeOK
    <2>1. \A n \in DOMAIN dir : dir[n] \in Files /\ dir[n].mtime <= now
      <3>1. now = 0
        BY DEF Init
      <3> QED BY <1>1, <3>1
    <2>2. \A f \in Fetches : /\ url[f] = NoUrl /\ pc[f] \in {"idle", "done"}
                             /\ victims[f] = <<>>
      BY DEF Init
    <2>3. now \in Nat /\ timed_out \subseteq Fetches
      BY DEF Init
    <2>4. <<>> \in Seq(Names)
      OBVIOUS
    <2>5. /\ pc \in [Fetches -> Labels] /\ url \in [Fetches -> Urls \cup {NoUrl}]
          /\ seen \in [Fetches -> SUBSET Fetches]
      BY DEF Init, Labels
    <2>6. victims \in [Fetches -> Seq(Names)]
      BY <2>4 DEF Init
    <2> QED BY <1>1, <2>1, <2>2, <2>3, <2>5, <2>6 DEF TypeOK
  <1>3. {f \in Fetches : pc[f] # "idle"} = unswept
    BY <1>1 DEF Init
  <1> QED BY <1>1, <1>2, <1>3 DEF Types, Finite

(* Everything but the directory and the names to delete.                   *)
LEMMA ControlTypes ==
    ASSUME TypeOK, NEW f \in Fetches, FetchStep(f)
    PROVE  /\ pc' \in [Fetches -> Labels]
           /\ url' \in [Fetches -> Urls \cup {NoUrl}]
           /\ timed_out' \subseteq Fetches
           /\ unswept' \subseteq Fetches
           /\ seen' \in [Fetches -> SUBSET Fetches]
           /\ now' \in Nat /\ now <= now'
           /\ \A g \in Fetches : url'[g] # NoUrl <=> pc'[g] \notin {"idle", "done"}
  <1>1. Shape' /\ \A g \in Fetches \ {f} : pc'[g] = pc[g] /\ TmpName(g)' = TmpName(g)
    BY OwnSteps DEF TypeOK, Shape
  <1>2. now' \in Nat /\ now <= now'
    BY DEF TypeOK, FetchStep, Refuse, Begin, Hit, Miss, DownloadFails, Downloaded,
           NoWrite, CreateTmp, FillTmp, WriteFails, Rename, RenameFails, List, ListFails,
           Remove, RemoveFails, Swept, Timeout
  <1>3. timed_out' \subseteq Fetches /\ unswept' \subseteq Fetches
    BY DEF TypeOK, FetchStep, Refuse, Begin, Hit, Miss, DownloadFails, Downloaded,
           NoWrite, CreateTmp, FillTmp, WriteFails, Rename, RenameFails, List, ListFails,
           Remove, RemoveFails, Swept, Timeout, Goto, End, Abandon
  <1>4. seen' \in [Fetches -> SUBSET Fetches]
    <2>1. \E s \in SUBSET Fetches : seen' = seen \/ seen' = [seen EXCEPT ![f] = s]
      <3>1. CASE List(f)
        BY <3>1 DEF List
      <3>2. CASE ~List(f)
        <4>1. seen' = seen \/ seen' = [seen EXCEPT ![f] = {}]
          BY <3>2 DEF FetchStep, Refuse, Begin, Hit, Miss, DownloadFails, Downloaded,
             NoWrite, CreateTmp, FillTmp, WriteFails, Rename, RenameFails, ListFails,
             Remove, RemoveFails, Swept, Timeout
        <4> QED BY <4>1
      <3> QED BY <3>1, <3>2
    <2> QED BY <2>1 DEF TypeOK
  <1>5. \A g \in Fetches \ {f} : url'[g] = url[g]
    BY <1>1 DEF TmpName
  <1>6. url'[f] # NoUrl <=> pc'[f] \notin {"idle", "done"}
    BY UrlsAssumption
       DEF TypeOK, FetchStep, Refuse, Begin, Hit, Miss, DownloadFails, Downloaded,
           NoWrite, CreateTmp, FillTmp, WriteFails, Rename, RenameFails, List, ListFails,
           Remove, RemoveFails, Swept, Timeout, Goto, End, Abandon
  <1> QED BY <1>1, <1>2, <1>3, <1>4, <1>5, <1>6 DEF TypeOK, Shape

(* The names of a call that runs.                                          *)
LEMMA NamesOK ==
    ASSUME TypeOK, NEW f \in Fetches, pc[f] \notin {"idle", "done"}
    PROVE  TmpName(f) \in Names /\ Path(url[f]) \in Names
  <1>1. url[f] \in Urls
    BY DEF TypeOK
  <1> QED BY <1>1 DEF TmpName, Path, Names

(* What a step adds to the directory.                                      *)
LEMMA DirSteps ==
    ASSUME NEW f \in Fetches, FetchStep(f)
    PROVE  \/ dir' = dir
           \/ CreateTmp(f) /\ DOMAIN dir' = DOMAIN dir \cup {TmpName(f)}
           \/ FillTmp(f) /\ DOMAIN dir' = DOMAIN dir
           \/ /\ Rename(f)
              /\ DOMAIN dir' = (DOMAIN dir \ {TmpName(f)}) \cup {Path(url[f])}
           \/ Remove(f) /\ DOMAIN dir' = DOMAIN dir \ {Head(victims[f])}
  <1>1. CASE CreateTmp(f)
    BY <1>1 DEF CreateTmp, Put
  <1>2. CASE FillTmp(f)
    <2>1. CASE TmpName(f) \in DOMAIN dir
      BY <1>2, <2>1 DEF FillTmp, Put
    <2>2. CASE TmpName(f) \notin DOMAIN dir
      BY <1>2, <2>2 DEF FillTmp
    <2> QED BY <2>1, <2>2
  <1>3. CASE Rename(f)
    BY <1>3 DEF Rename
  <1>4. CASE Remove(f)
    BY <1>4 DEF Remove, Without
  <1> QED BY <1>1, <1>2, <1>3, <1>4, QuietSteps

LEMMA DirTypes ==
    ASSUME Types, NEW f \in Fetches, FetchStep(f)
    PROVE  /\ DOMAIN dir' \subseteq Names
           /\ IsFiniteSet(DOMAIN dir')
           /\ \A n \in DOMAIN dir' : dir'[n] \in Files /\ dir'[n].mtime <= now'
  <1>1. /\ now \in Nat /\ now' \in Nat /\ now <= now'
        /\ DOMAIN dir \subseteq Names /\ IsFiniteSet(DOMAIN dir)
        /\ \A n \in DOMAIN dir : dir[n] \in Files /\ dir[n].mtime <= now
    BY ControlTypes DEF Types, TypeOK, Finite
  <1>2. \A n \in DOMAIN dir : dir[n] \in Files /\ dir[n].mtime <= now'
    BY <1>1 DEF Files
  <1>3. CASE dir' = dir
    BY <1>1, <1>2, <1>3
  <1> DEFINE t == TmpName(f)
             p == Path(url[f])
  <1>4. pc[f] \notin {"idle", "done"} => t \in Names /\ p \in Names
    BY NamesOK DEF Types
  <1> HIDE DEF t, p
  <1>5. CASE CreateTmp(f)
    <2>1. DOMAIN dir' = DOMAIN dir \cup {t} /\ pc[f] = "create"
      BY <1>5 DEF CreateTmp, Put, t
    <2>2. dir'[t] = [whole |-> FALSE, mtime |-> now] /\ \A n \in DOMAIN dir \ {t} : dir'[n] = dir[n]
      BY <1>5 DEF CreateTmp, Put, t
    <2>3. dir'[t] \in Files /\ dir'[t].mtime <= now'
      BY <1>1, <2>2 DEF Files
    <2> QED BY <1>1, <1>2, <1>4, <2>1, <2>2, <2>3, FS_AddElement
  <1>6. CASE FillTmp(f) /\ t \in DOMAIN dir
    <2>1. DOMAIN dir' = DOMAIN dir
      BY <1>6 DEF FillTmp, Put, t
    <2>2. /\ dir'[t] = [whole |-> TRUE, mtime |-> now']
          /\ \A n \in DOMAIN dir \ {t} : dir'[n] = dir[n]
      BY <1>6 DEF FillTmp, Put, t
    <2>3. dir'[t] \in Files /\ dir'[t].mtime <= now'
      BY <1>1, <2>2 DEF Files
    <2> QED BY <1>1, <1>2, <2>1, <2>2, <2>3
  <1>7. CASE FillTmp(f) /\ t \notin DOMAIN dir
    <2>1. dir' = dir
      BY <1>7 DEF FillTmp, t
    <2> QED BY <1>3, <2>1
  <1>8. CASE Rename(f)
    <2>1. /\ DOMAIN dir' = (DOMAIN dir \ {t}) \cup {p} /\ pc[f] = "rename" /\ t \in DOMAIN dir
          /\ \A n \in DOMAIN dir' : dir'[n] = dir[t] \/ (n \in DOMAIN dir /\ dir'[n] = dir[n])
      BY <1>8 DEF Rename, t, p
    <2>2. IsFiniteSet(DOMAIN dir')
      <3>1. IsFiniteSet(DOMAIN dir \ {t})
        BY <1>1, FS_RemoveElement
      <3> QED BY <2>1, <3>1, FS_AddElement
    <2> QED BY <1>1, <1>2, <1>4, <2>1, <2>2
  <1>9. CASE Remove(f)
    <2>1. /\ DOMAIN dir' = DOMAIN dir \ {Head(victims[f])}
          /\ \A n \in DOMAIN dir' : dir'[n] = dir[n]
      BY <1>9 DEF Remove, Without
    <2>2. IsFiniteSet(DOMAIN dir')
      BY <1>1, <2>1, FS_RemoveElement
    <2> QED BY <1>1, <1>2, <2>1, <2>2
  <1> QED BY <1>3, <1>5, <1>6, <1>7, <1>8, <1>9, DirSteps

(* evict_beyond_cap: how many files are to go, and which.                  *)
LEMMA ListingOK ==
    ASSUME Types
    PROVE  /\ Surplus \in Nat
           /\ Cardinality(DOMAIN dir) \in Nat
           /\ Cardinality(DOMAIN dir) <= MaxFiles + Surplus
           /\ \A old \in Oldest(Surplus) :
                 /\ old \in Seq(Names) /\ Len(old) = Surplus
                 /\ \A i \in 1..Surplus : old[i] \in DOMAIN dir
                 /\ \A i, j \in 1..Surplus : i # j => old[i] # old[j]
  <1>1. Cardinality(DOMAIN dir) \in Nat
    BY FS_CardinalityType DEF Types, Finite
  <1>2. Surplus \in Nat /\ Cardinality(DOMAIN dir) <= MaxFiles + Surplus
    BY <1>1, MaxFilesAssumption DEF Surplus
  <1> DEFINE n == Surplus
  <1> HIDE DEF n
  <1>3. n \in Nat
    BY <1>2 DEF n
  <1>4. ASSUME NEW old \in Oldest(n)
        PROVE  /\ old \in Seq(Names) /\ Len(old) = n
               /\ \A i \in 1..n : old[i] \in DOMAIN dir
               /\ \A i, j \in 1..n : i # j => old[i] # old[j]
    <2>1. old \in [1..n -> DOMAIN dir] /\ \A i, j \in 1..n : i < j => old[i] # old[j]
      BY DEF Oldest
    <2>2. DOMAIN dir \subseteq Names
      BY DEF Types, TypeOK
    <2>3. old \in [1..n -> Names]
      BY <2>1, <2>2
    <2>4. old \in Seq(Names) /\ Len(old) = n
      BY <1>3, <2>3
    <2>5. \A i, j \in 1..n : i # j => i < j \/ j < i
      BY <1>3
    <2> QED BY <2>1, <2>4, <2>5
  <1> QED BY <1>1, <1>2, <1>4 DEF n

LEMMA VictimTypes ==
    ASSUME Types, NEW f \in Fetches, FetchStep(f)
    PROVE  /\ victims' \in [Fetches -> Seq(Names)]
           /\ \A g \in Fetches : victims'[g] # <<>> => pc'[g] = "remove"
           /\ \A g \in Fetches \ {f} : victims'[g] = victims[g]
  <1>0. /\ victims \in [Fetches -> Seq(Names)] /\ pc \in [Fetches -> Labels]
        /\ \A g \in Fetches : victims[g] # <<>> => pc[g] = "remove"
    BY DEF Types, TypeOK
  <1>1. \A g \in Fetches \ {f} : pc'[g] = pc[g]
    BY OwnSteps DEF Types, TypeOK, Shape
  <1>2. CASE List(f)
    <2>1. PICK old \in Oldest(Surplus) : victims' = [victims EXCEPT ![f] = old]
      BY <1>2 DEF List
    <2>2. old \in Seq(Names)
      BY <2>1, ListingOK
    <2>3. pc'[f] = "remove"
      BY <1>0, <1>2 DEF List, Goto
    <2> QED BY <1>0, <1>1, <2>1, <2>2, <2>3
  <1>3. CASE Remove(f) \/ RemoveFails(f)
    <2>1. /\ victims' = [victims EXCEPT ![f] = Tail(victims[f])]
          /\ victims[f] # <<>> /\ pc[f] = "remove" /\ pc' = pc
      BY <1>3 DEF Remove, RemoveFails
    <2>2. Tail(victims[f]) \in Seq(Names)
      BY <1>0, <2>1
    <2> QED BY <1>0, <2>1, <2>2
  <1>4. CASE ~List(f) /\ ~Remove(f) /\ ~RemoveFails(f)
    <2>1. victims' = victims
      BY <1>4 DEF FetchStep, Refuse, Begin, Hit, Miss, DownloadFails, Downloaded,
           NoWrite, CreateTmp, FillTmp, WriteFails, Rename, RenameFails, ListFails,
           Swept, Timeout
    <2>2. pc[f] = "remove" => victims[f] = <<>> \/ pc'[f] = "remove"
      BY <1>4 DEF FetchStep, Refuse, Begin, Hit, Miss, DownloadFails, Downloaded,
           NoWrite, CreateTmp, FillTmp, WriteFails, Rename, RenameFails, ListFails,
           Swept, Timeout
    <2> QED BY <1>0, <1>1, <2>1, <2>2
  <1> QED BY <1>2, <1>3, <1>4

LEMMA NextTypes == Types /\ [Next]_vars => Types'
  <1> SUFFICES ASSUME Types, [Next]_vars PROVE Types'
    OBVIOUS
  <1>1. CASE UNCHANGED vars
    BY <1>1 DEF vars, Types, TypeOK, Finite
  <1>2. ASSUME NEW f \in Fetches, FetchStep(f) PROVE Types'
    <2>1. TypeOK'
      BY <1>2, ControlTypes, DirTypes, VictimTypes DEF TypeOK, Types
    <2>2. IsFiniteSet({g \in Fetches : pc'[g] # "idle"})
      <3>1. \A g \in Fetches \ {f} : pc'[g] = pc[g]
        BY <1>2, OwnSteps DEF Types, TypeOK, Shape
      <3> DEFINE begun == {g \in Fetches : pc[g] # "idle"} \cup {f}
                 begun2 == {g \in Fetches : pc'[g] # "idle"}
      <3>2. begun2 \in SUBSET begun
        BY <3>1
      <3>3. IsFiniteSet(begun)
        BY FS_AddElement DEF Types, Finite
      <3> HIDE DEF begun, begun2
      <3>4. IsFiniteSet(begun2)
        BY <3>2, <3>3, FS_Subset
      <3> QED BY <3>4 DEF begun2
    <2> QED BY <1>2, <2>1, <2>2, DirTypes DEF Types, Finite
  <1> QED BY <1>1, <1>2 DEF Next

LEMMA AlwaysTypes == Spec => []Types
  <1> QED BY InitTypes, NextTypes, PTL DEF Spec

(* Types, for any number of calls: a call has a URL while it runs and      *)
(* names to delete only while it deletes them, and what it deletes are     *)
(* names of the cache (image_cache.rs, fetch and evict_beyond_cap).        *)
THEOREM ImageCacheTypeCorrect == Spec => []TypeOK
  <1>1. Types => TypeOK
    BY DEF Types
  <1> QED BY <1>1, AlwaysTypes, PTL

-----------------------------------------------------------------------------
(* The cap *)

(* What the eviction of call f has still to delete.                        *)
Victims(f) == {victims[f][i] : i \in 1..Len(victims[f])}

(* The calls that may account for a file outside V: one that is writing    *)
(* it, one whose own eviction is still to come or has not failed so far,   *)
(* and one that was cut short.                                             *)
Owing(V) ==
    {h \in Fetches :
        \/ pc[h] \in {"fill", "rename"} /\ TmpName(h) \in DOMAIN dir \ V
        \/ pc[h] = "list"
        \/ pc[h] = "remove" /\ h \in seen[h]
        \/ h \in unswept}

(* Without the files of V, the directory exceeds the cap by no more than   *)
(* the files of the calls outside S.                                       *)
Within(V, S) == Cardinality(DOMAIN dir \ V) <= MaxFiles + Cardinality(Owing(V) \ S)

(* An eviction that has not failed will leave the cap exceeded by no more  *)
(* than the files of calls that could still add one when it listed.        *)
EvictionsWork ==
    \A f \in Fetches : f \in seen[f] => Within(Victims(f), seen[f])

(* Of two listings one is the earlier.                                     *)
ListingsInOrder ==
    \A f, g \in Fetches : seen[f] \subseteq seen[g] \/ seen[g] \subseteq seen[f]

(* The calls a listing has seen and the ones that were cut short are past  *)
(* their rename.                                                           *)
SeenAdded ==
    /\ \A f \in Fetches : \A g \in seen[f] : pc[g] \in {"list", "remove", "done"}
    /\ \A g \in unswept : pc[g] \in {"remove", "done"}
    /\ \A f \in Fetches : seen[f] # {} => pc[f] = "remove" /\ f \in seen[f]

CapInv ==
    /\ Types /\ SeenAdded /\ ListingsInOrder
    /\ EvictionsWork /\ Within({}, {})

(* How a bound |D| <= n + |O| passes to D2 and O2.                         *)
LEMMA BoundKept ==
    ASSUME NEW D, NEW D2, NEW O, NEW O2, NEW n \in Nat,
           IsFiniteSet(D), IsFiniteSet(O2), D2 \subseteq D, O \subseteq O2,
           Cardinality(D) <= n + Cardinality(O)
    PROVE  Cardinality(D2) <= n + Cardinality(O2)
  <1>1. Cardinality(D2) <= Cardinality(D) /\ IsFiniteSet(D2)
    BY FS_Subset
  <1>2. Cardinality(O) <= Cardinality(O2) /\ IsFiniteSet(O)
    BY FS_Subset
  <1>3. /\ Cardinality(D) \in Nat /\ Cardinality(D2) \in Nat
        /\ Cardinality(O) \in Nat /\ Cardinality(O2) \in Nat
    BY <1>1, <1>2, FS_CardinalityType
  <1> QED BY <1>1, <1>2, <1>3

(* One file more, and one call more to account for it.                     *)
LEMMA BoundKeptByAdding ==
    ASSUME NEW D, NEW D2, NEW O, NEW O2, NEW n \in Nat, NEW x, NEW g,
           IsFiniteSet(D), IsFiniteSet(O2), D2 \subseteq D \cup {x},
           O \subseteq O2 \ {g}, g \in O2,
           Cardinality(D) <= n + Cardinality(O)
    PROVE  Cardinality(D2) <= n + Cardinality(O2)
  <1> DEFINE E == D \cup {x}
             P == O2 \ {g}
  <1>1. /\ IsFiniteSet(E)
        /\ Cardinality(E) = IF x \in D THEN Cardinality(D) ELSE Cardinality(D) + 1
    BY FS_AddElement
  <1>2. IsFiniteSet(P) /\ Cardinality(P) = Cardinality(O2) - 1
    BY FS_RemoveElement
  <1> HIDE DEF E, P
  <1>3. Cardinality(D2) <= Cardinality(E) /\ IsFiniteSet(D2)
    BY <1>1, FS_Subset DEF E
  <1>4. Cardinality(O) <= Cardinality(P) /\ IsFiniteSet(O)
    BY <1>2, FS_Subset DEF P
  <1>5. /\ Cardinality(D) \in Nat /\ Cardinality(D2) \in Nat /\ Cardinality(E) \in Nat
        /\ Cardinality(O) \in Nat /\ Cardinality(O2) \in Nat /\ Cardinality(P) \in Nat
    BY <1>1, <1>2, <1>3, <1>4, FS_CardinalityType
  <1> QED BY <1>1, <1>2, <1>3, <1>4, <1>5

(* One file less, and at most one call less to account for it.             *)
LEMMA BoundKeptByRemoving ==
    ASSUME NEW D, NEW D2, NEW O, NEW O2, NEW n \in Nat, NEW x, NEW g,
           IsFiniteSet(D), IsFiniteSet(O2), D2 \subseteq D \ {x}, x \in D,
           O \subseteq O2 \cup {g},
           Cardinality(D) <= n + Cardinality(O)
    PROVE  Cardinality(D2) <= n + Cardinality(O2)
  <1> DEFINE E == D \ {x}
             P == O2 \cup {g}
  <1>1. IsFiniteSet(E) /\ Cardinality(E) = Cardinality(D) - 1
    BY FS_RemoveElement
  <1>2. /\ IsFiniteSet(P)
        /\ Cardinality(P) = IF g \in O2 THEN Cardinality(O2) ELSE Cardinality(O2) + 1
    BY FS_AddElement
  <1> HIDE DEF E, P
  <1>3. Cardinality(D2) <= Cardinality(E) /\ IsFiniteSet(D2)
    BY <1>1, FS_Subset DEF E
  <1>4. Cardinality(O) <= Cardinality(P) /\ IsFiniteSet(O)
    BY <1>2, FS_Subset DEF P
  <1>5. /\ Cardinality(D) \in Nat /\ Cardinality(D2) \in Nat /\ Cardinality(E) \in Nat
        /\ Cardinality(O) \in Nat /\ Cardinality(O2) \in Nat /\ Cardinality(P) \in Nat
    BY <1>1, <1>2, <1>3, <1>4, FS_CardinalityType
  <1> QED BY <1>1, <1>2, <1>3, <1>4, <1>5

(* One file under another name.                                            *)
LEMMA BoundKeptByRenaming ==
    ASSUME NEW D, NEW D2, NEW O, NEW O2, NEW n \in Nat, NEW x, NEW y,
           IsFiniteSet(D), IsFiniteSet(O2), D2 \subseteq (D \ {x}) \cup {y}, x \in D,
           O \subseteq O2,
           Cardinality(D) <= n + Cardinality(O)
    PROVE  Cardinality(D2) <= n + Cardinality(O2)
  <1> DEFINE E == D \ {x}
             P == E \cup {y}
  <1>1. IsFiniteSet(E) /\ Cardinality(E) = Cardinality(D) - 1
    BY FS_RemoveElement
  <1> HIDE DEF E
  <1>2. /\ IsFiniteSet(P)
        /\ Cardinality(P) = IF y \in E THEN Cardinality(E) ELSE Cardinality(E) + 1
    BY <1>1, FS_AddElement
  <1>3. D2 \subseteq P
    BY DEF E
  <1> HIDE DEF P
  <1>4. Cardinality(D2) <= Cardinality(P) /\ IsFiniteSet(D2)
    BY <1>2, <1>3, FS_Subset
  <1>5. Cardinality(O) <= Cardinality(O2) /\ IsFiniteSet(O)
    BY FS_Subset
  <1>6. /\ Cardinality(D) \in Nat /\ Cardinality(D2) \in Nat /\ Cardinality(E) \in Nat
        /\ Cardinality(O) \in Nat /\ Cardinality(O2) \in Nat /\ Cardinality(P) \in Nat
    BY <1>1, <1>2, <1>4, <1>5, FS_CardinalityType
  <1> QED BY <1>1, <1>2, <1>4, <1>5, <1>6

(* A step of call g changes the history of no other call.                  *)
LEMMA OwnHistory ==
    ASSUME TypeOK, NEW g \in Fetches, FetchStep(g)
    PROVE  /\ \A h \in Fetches \ {g} : seen'[h] = seen[h]
           /\ ~Swept(g) => unswept \subseteq unswept' /\ unswept' \subseteq unswept \cup {g}
           /\ Swept(g) => unswept' = unswept \ seen[g]
  <1>1. \E s : seen' = seen \/ seen' = [seen EXCEPT ![g] = s]
    BY DEF FetchStep, Refuse, Begin, Hit, Miss, DownloadFails, Downloaded,
           NoWrite, CreateTmp, FillTmp, WriteFails, Rename, RenameFails, List, ListFails,
           Remove, RemoveFails, Swept, Timeout
  <1>2. \A h \in Fetches \ {g} : seen'[h] = seen[h]
    BY <1>1 DEF TypeOK
  <1>3. ~Swept(g) => unswept \subseteq unswept' /\ unswept' \subseteq unswept \cup {g}
    BY DEF FetchStep, Refuse, Begin, Hit, Miss, DownloadFails, Downloaded,
           NoWrite, CreateTmp, FillTmp, WriteFails, Rename, RenameFails, List, ListFails,
           Remove, RemoveFails, Timeout, Abandon
  <1>4. Swept(g) => unswept' = unswept \ seen[g]
    BY DEF Swept
  <1> QED BY <1>2, <1>3, <1>4

(* Calls move forward.                                                     *)
LEMMA Forward ==
    ASSUME TypeOK, NEW g \in Fetches, FetchStep(g)
    PROVE  /\ pc[g] \in {"list", "remove", "done"} => pc'[g] \in {"list", "remove", "done"}
           /\ pc[g] \in {"remove", "done"} => pc'[g] \in {"remove", "done"}
           /\ g \in unswept' \ unswept => pc'[g] \in {"remove", "done"}
  BY DEF TypeOK, FetchStep, Refuse, Begin, Hit, Miss, DownloadFails, Downloaded,
         NoWrite, CreateTmp, FillTmp, WriteFails, Rename, RenameFails, List, ListFails,
         Remove, RemoveFails, Swept, Timeout, Goto, End, Abandon

LEMMA SeenSteps ==
    ASSUME TypeOK, SeenAdded, ListingsInOrder, NEW g \in Fetches, FetchStep(g)
    PROVE  /\ SeenAdded' /\ ListingsInOrder'
           /\ g \in seen'[g] => List(g) \/ seen'[g] = seen[g]
  <1>0. pc \in [Fetches -> Labels] /\ seen \in [Fetches -> SUBSET Fetches]
        /\ unswept \subseteq Fetches
    BY DEF TypeOK
  <1>1. \A h \in Fetches \ {g} : pc'[h] = pc[h] /\ seen'[h] = seen[h]
    BY OwnSteps, OwnHistory DEF TypeOK, Shape
  <1>2. \/ List(g) /\ seen'[g] = {h \in Fetches : pc[h] \in {"list", "remove", "done"}}
                   /\ pc'[g] = "remove" /\ pc[g] = "list"
        \/ seen'[g] = {}
        \/ seen'[g] = seen[g] /\ (pc[g] = "remove" => pc'[g] = "remove")
    <2>1. CASE List(g)
      BY <1>0, <2>1 DEF List, Goto
    <2>2. CASE RemoveFails(g) \/ Swept(g)
      BY <1>0, <2>2 DEF RemoveFails, Swept
    <2>3. CASE ~List(g) /\ ~RemoveFails(g) /\ ~Swept(g)
      BY <1>0, <2>3 DEF FetchStep, Refuse, Begin, Hit, Miss, DownloadFails, Downloaded,
           NoWrite, CreateTmp, FillTmp, WriteFails, Rename, RenameFails, ListFails,
           Remove, Timeout, Goto, End, Abandon
    <2> QED BY <2>1, <2>2, <2>3
  <1>3. \A h \in Fetches : pc[h] \in {"list", "remove", "done"}
                             => pc'[h] \in {"list", "remove", "done"}
    BY <1>1, Forward
  <1>4. \A f \in Fetches : \A h \in seen'[f] : pc'[h] \in {"list", "remove", "done"}
    <2> SUFFICES ASSUME NEW f \in Fetches, NEW h \in seen'[f]
                 PROVE  h \in Fetches /\ pc[h] \in {"list", "remove", "done"}
      BY <1>3
    <2> QED BY <1>0, <1>1, <1>2 DEF SeenAdded
  <1>5. \A h \in unswept' : pc'[h] \in {"remove", "done"}
    <2> SUFFICES ASSUME NEW h \in unswept' PROVE pc'[h] \in {"remove", "done"}
      OBVIOUS
    <2>1. CASE h \in unswept
      BY <1>0, <1>1, <2>1, Forward DEF SeenAdded
    <2>2. CASE h \notin unswept
      BY <2>2, OwnHistory, Forward
    <2> QED BY <2>1, <2>2
  <1>6. \A f \in Fetches : seen'[f] # {} => pc'[f] = "remove" /\ f \in seen'[f]
    BY <1>1, <1>2 DEF SeenAdded
  <1>7. ListingsInOrder'
    <2>1. \A f \in Fetches \ {g} : seen'[f] \subseteq seen'[g] \/ seen'[g] \subseteq seen'[f]
      <3> SUFFICES ASSUME NEW f \in Fetches \ {g}
                   PROVE  seen[f] \subseteq seen'[g] \/ seen'[g] \subseteq seen[f]
        BY <1>1
      <3>1. seen[f] \subseteq {h \in Fetches : pc[h] \in {"list", "remove", "done"}}
        BY <1>0 DEF SeenAdded
      <3> QED BY <1>2, <3>1 DEF ListingsInOrder
    <2> QED BY <1>1, <2>1 DEF ListingsInOrder
  <1> QED BY <1>2, <1>4, <1>5, <1>6, <1>7 DEF SeenAdded

LEMMA OwingFinite ==
    ASSUME NEW V, NEW S
    PROVE  /\ Types /\ SeenAdded => IsFiniteSet(Owing(V) \ S)
           /\ Types' /\ SeenAdded' => IsFiniteSet(Owing(V)' \ S)
  <1>1. ASSUME Types, SeenAdded PROVE IsFiniteSet(Owing(V) \ S)
    <2> DEFINE begun == {f \in Fetches : pc[f] # "idle"}
               O == Owing(V) \ S
    <2>1. O \in SUBSET begun
      BY <1>1 DEF Owing, SeenAdded
    <2>2. IsFiniteSet(begun)
      BY <1>1 DEF Types, Finite
    <2> HIDE DEF begun, O
    <2>3. IsFiniteSet(O)
      BY <2>1, <2>2, FS_Subset
    <2> QED BY <2>3 DEF O
  <1>2. ASSUME Types', SeenAdded' PROVE IsFiniteSet(Owing(V)' \ S)
    <2> DEFINE begun == {f \in Fetches : pc'[f] # "idle"}
               O == Owing(V)' \ S
    <2>1. O \in SUBSET begun
      BY <1>2 DEF Owing, SeenAdded
    <2>2. IsFiniteSet(begun)
      BY <1>2 DEF Types, Finite
    <2> HIDE DEF begun, O
    <2>3. IsFiniteSet(O)
      BY <2>1, <2>2, FS_Subset
    <2> QED BY <2>3 DEF O
  <1> QED BY <1>1, <1>2

(* A call goes on accounting for its file while others step, unless its    *)
(* file is deleted or an eviction ends.                                    *)
LEMMA OthersOwing ==
    ASSUME TypeOK, NEW g \in Fetches, FetchStep(g), NEW V,
           NEW h \in Fetches \ {g}, h \in Owing(V),
           h \in unswept => h \in unswept',
           TmpName(h) \in DOMAIN dir => TmpName(h) \in DOMAIN dir'
    PROVE  h \in Owing(V)'
  <1>1. pc'[h] = pc[h] /\ TmpName(h)' = TmpName(h) /\ seen'[h] = seen[h]
    BY OwnSteps, OwnHistory DEF TypeOK, Shape
  <1> QED BY <1>1 DEF Owing

(* So does a call that steps itself, until its own eviction ends.          *)
LEMMA OwnOwing ==
    ASSUME TypeOK, SeenAdded, NEW g \in Fetches, FetchStep(g), ~Swept(g), NEW V,
           g \in Owing(V)
    PROVE  g \in Owing(V)'
  <1>0. /\ pc \in [Fetches -> Labels] /\ seen \in [Fetches -> SUBSET Fetches]
        /\ url \in [Fetches -> Urls \cup {NoUrl}]
        /\ g \in unswept => pc[g] \in {"remove", "done"}
    BY DEF TypeOK, SeenAdded
  <1>1. g \in unswept \/ pc[g] \in {"fill", "rename", "list", "remove"}
    BY DEF Owing
  <1>2. CASE g \in unswept
    BY <1>2, OwnHistory DEF Owing
  <1>3. CASE FillTmp(g) \/ WriteFails(g) \/ Rename(g) \/ RenameFails(g)
    <2>1. pc[g] \in {"fill", "rename"} /\ TmpName(g) \in DOMAIN dir \ V
      BY <1>0, <1>3 DEF Owing, FillTmp, WriteFails, Rename, RenameFails
    <2>2. CASE Abandon(g)
      BY <2>1, <2>2 DEF Abandon, Owing
    <2>3. CASE FillTmp(g) /\ ~Abandon(g)
      <3>1. pc'[g] = "rename" /\ TmpName(g)' = TmpName(g)
        BY <1>0, <2>3 DEF FillTmp, Goto, TmpName
      <3>2. DOMAIN dir' = DOMAIN dir
        BY <2>1, <2>3 DEF FillTmp, Put
      <3> QED BY <2>1, <3>1, <3>2 DEF Owing
    <2>4. CASE Rename(g) /\ ~Abandon(g)
      BY <1>0, <2>4 DEF Rename, Goto, Owing
    <2> QED BY <1>3, <2>2, <2>3, <2>4 DEF WriteFails, RenameFails
  <1>4. CASE List(g)
    <2>1. pc[g] = "list" /\ pc'[g] = "remove"
          /\ seen'[g] = {h \in Fetches : pc[h] \in {"list", "remove", "done"}}
      BY <1>0, <1>4 DEF List, Goto
    <2> QED BY <2>1 DEF Owing
  <1>5. CASE ListFails(g) \/ RemoveFails(g)
    BY <1>5 DEF ListFails, RemoveFails, Owing
  <1>6. CASE Remove(g)
    BY <1>0, <1>6 DEF Remove, Owing
  <1>7. CASE Timeout(g) /\ g \notin unswept
    <2>1. pc[g] \in {"fill", "rename", "list", "remove"}
      BY <1>1, <1>7
    <2>2. UNCHANGED <<pc, url, dir, seen>>
      BY <2>1, <1>7 DEF Timeout
    <2> QED BY <1>7, <2>2 DEF Owing, TmpName
  <1>8. \/ FillTmp(g) \/ WriteFails(g) \/ Rename(g) \/ RenameFails(g)
        \/ List(g) \/ ListFails(g) \/ RemoveFails(g) \/ Remove(g) \/ Timeout(g)
        \/ g \in unswept
    BY <1>1 DEF FetchStep, Refuse, Begin, Hit, Miss, DownloadFails, Downloaded,
           NoWrite, CreateTmp
  <1> QED BY <1>2, <1>3, <1>4, <1>5, <1>6, <1>7, <1>8

(* Steps other than the end of an eviction keep every such bound: a file   *)
(* that is created has its call; a rename that escapes V does as well; a   *)
(* temporary file that is deleted takes at most one call with it.          *)
LEMMA WithinKept ==
    ASSUME Types, SeenAdded, Types', SeenAdded',
           NEW g \in Fetches, FetchStep(g), ~Swept(g),
           NEW V, NEW S, \A h \in S : pc[h] \in {"list", "remove", "done"},
           Within(V, S)
    PROVE  Within(V, S)'
  <1> DEFINE D == DOMAIN dir \ V
             D2 == DOMAIN dir' \ V
             O == Owing(V) \ S
             O2 == Owing(V)' \ S
             t == TmpName(g)
             p == Path(url[g])
  <1> SUFFICES Cardinality(D2) <= MaxFiles + Cardinality(O2)
    BY DEF Within
  <1>1. Cardinality(D) <= MaxFiles + Cardinality(O)
    BY DEF Within
  <1>2. IsFiniteSet(D) /\ IsFiniteSet(O2) /\ MaxFiles \in Nat
    <2>1. IsFiniteSet(D)
      BY FS_Difference DEF Types, Finite
    <2>2. IsFiniteSet(O2)
      BY OwingFinite
    <2> QED BY <2>1, <2>2, MaxFilesAssumption
  <1>3. TypeOK /\ unswept \subseteq unswept' /\ Owing(V) \subseteq Fetches
    BY OwnHistory DEF Types, Owing
  <1>4. \A h \in O : h = g => h \in O2
    BY <1>3, OwnOwing
  <1>5. ASSUME NEW h \in O, TmpName(h) \in DOMAIN dir => TmpName(h) \in DOMAIN dir', h # g
        PROVE  h \in O2
    BY <1>3, <1>5, OthersOwing
  <1>6. \A h \in Fetches \ {g} : TmpName(h) # t /\ TmpName(h) # p
    BY NamesDiffer
  <1> HIDE DEF D, D2, O, O2, t, p
  <1>7. CASE DOMAIN dir' = DOMAIN dir
    <2>1. O \subseteq O2
      BY <1>4, <1>5, <1>7
    <2>2. D2 \subseteq D
      BY <1>7 DEF D, D2
    <2> QED BY <1>1, <1>2, <2>1, <2>2, BoundKept
  <1>8. CASE CreateTmp(g) /\ DOMAIN dir' = DOMAIN dir \cup {t}
    <2>1. pc[g] = "create" /\ pc'[g] = "fill" /\ TmpName(g)' = t
      BY <1>3, <1>8 DEF CreateTmp, Goto, TypeOK, TmpName, t
    <2>2. g \notin O /\ g \notin S
      BY <2>1 DEF O, Owing, SeenAdded
    <2>3. O \subseteq O2
      BY <1>4, <1>5, <1>8
    <2>4. CASE t \in V
      <3>1. D2 \subseteq D
        BY <1>8, <2>4 DEF D, D2
      <3> QED BY <1>1, <1>2, <2>3, <3>1, BoundKept
    <2>5. CASE t \notin V
      <3>1. g \in O2
        BY <1>8, <2>1, <2>2, <2>5 DEF O2, Owing
      <3>2. O \subseteq O2 \ {g}
        BY <2>2, <2>3
      <3>3. D2 \subseteq D \cup {t}
        BY <1>8 DEF D, D2
      <3> QED BY <1>1, <1>2, <3>1, <3>2, <3>3, BoundKeptByAdding
    <2> QED BY <2>4, <2>5
  <1>9. CASE Rename(g) /\ DOMAIN dir' = (DOMAIN dir \ {t}) \cup {p}
    <2>1. pc[g] = "rename" /\ t \in DOMAIN dir /\ g \notin S /\ g \notin unswept
      BY <1>9 DEF Rename, t, SeenAdded
    <2>2. \A h \in O \ {g} : TmpName(h) \in DOMAIN dir => TmpName(h) \in DOMAIN dir'
      BY <1>3, <1>6, <1>9 DEF O
    <2>3. O \subseteq O2
      BY <1>4, <1>5, <2>2
    <2>4. CASE t \notin V
      <3>1. D2 \subseteq (D \ {t}) \cup {p} /\ t \in D
        BY <1>9, <2>1, <2>4 DEF D, D2
      <3> QED BY <1>1, <1>2, <2>3, <3>1, BoundKeptByRenaming
    <2>5. CASE t \in V
      <3>1. g \notin O
        BY <2>1, <2>5 DEF O, Owing, t
      <3>2. pc'[g] = "list" \/ g \in unswept'
        BY <1>3, <1>9, <2>1 DEF Rename, Abandon, Goto, TypeOK, t
      <3>3. g \in O2
        BY <2>1, <3>2 DEF O2, Owing
      <3>4. D2 \subseteq D \cup {p}
        BY <1>9 DEF D, D2
      <3>5. O \subseteq O2 \ {g}
        BY <2>3, <3>1
      <3> QED BY <1>1, <1>2, <3>3, <3>4, <3>5, BoundKeptByAdding
    <2> QED BY <2>4, <2>5
  <1>10. CASE Remove(g) /\ DOMAIN dir' = DOMAIN dir \ {Head(victims[g])}
    <2> DEFINE n == Head(victims[g])
    <2> HIDE DEF n
    <2>0. DOMAIN dir' = DOMAIN dir \ {n}
      BY <1>10 DEF n
    <2>1. CASE n \notin D
      <3>1. D2 \subseteq D
        BY <2>0 DEF D, D2
      <3>2. O \subseteq O2
        <4> SUFFICES ASSUME NEW h \in O, h # g PROVE h \in O2
          BY <1>4
        <4>1. h \in Fetches \ {g} /\ h \in Owing(V)
          BY <1>3 DEF O
        <4>2. pc'[h] = pc[h] /\ TmpName(h)' = TmpName(h) /\ seen'[h] = seen[h]
          BY <1>3, <4>1, OwnSteps, OwnHistory DEF TypeOK, Shape
        <4>3. TmpName(h) \in DOMAIN dir \ V => TmpName(h) \in DOMAIN dir' \ V
          BY <2>0, <2>1 DEF D
        <4>4. h \in Owing(V)'
          BY <1>3, <4>1, <4>2, <4>3 DEF Owing
        <4> QED BY <4>4 DEF O, O2
      <3> QED BY <1>1, <1>2, <3>1, <3>2, BoundKept
    <2>2. CASE n \in D
      <3>1. D2 \subseteq D \ {n}
        BY <2>0 DEF D, D2
      <3>2. \E k : O \subseteq O2 \cup {k}
        <4>1. CASE \E k \in Fetches \ {g} : TmpName(k) = n
          <5>1. PICK k \in Fetches \ {g} : TmpName(k) = n
            BY <4>1
          <5>2. \A h \in Fetches \ {k} : TmpName(h) # n
            BY <5>1, NamesDiffer
          <5>3. \A h \in O \ {g, k} : TmpName(h) \in DOMAIN dir => TmpName(h) \in DOMAIN dir'
            BY <1>3, <2>0, <5>2 DEF O
          <5>4. O \subseteq O2 \cup {k}
            BY <1>4, <1>5, <5>3
          <5> QED BY <5>4
        <4>2. CASE ~\E k \in Fetches \ {g} : TmpName(k) = n
          <5>1. \A h \in O \ {g} : TmpName(h) \in DOMAIN dir => TmpName(h) \in DOMAIN dir'
            BY <1>3, <2>0, <4>2 DEF O
          <5>2. O \subseteq O2 \cup {g}
            BY <1>4, <1>5, <5>1
          <5> QED BY <5>2
        <4> QED BY <4>1, <4>2
      <3> QED BY <1>1, <1>2, <2>2, <3>1, <3>2, BoundKeptByRemoving
    <2> QED BY <2>1, <2>2
  <1>11. \/ DOMAIN dir' = DOMAIN dir
         \/ CreateTmp(g) /\ DOMAIN dir' = DOMAIN dir \cup {t}
         \/ Rename(g) /\ DOMAIN dir' = (DOMAIN dir \ {t}) \cup {p}
         \/ Remove(g) /\ DOMAIN dir' = DOMAIN dir \ {Head(victims[g])}
    BY DirSteps DEF t, p
  <1> QED BY <1>7, <1>8, <1>9, <1>10, <1>11

(* The end of an eviction.  What an earlier listing had seen this one had  *)
(* seen as well, so the bound it has reached serves for the earlier one;   *)
(* a later one counts neither this call nor those it makes good for.       *)
LEMMA WithinAfterSweep ==
    ASSUME CapInv, Types', SeenAdded', NEW g \in Fetches, FetchStep(g), Swept(g),
           NEW V, NEW S, S \subseteq seen[g] \/ seen[g] \subseteq S,
           Within(V, S)
    PROVE  Within(V, S)'
  <1> DEFINE D == DOMAIN dir \ V
             O == Owing(V) \ S
             O2 == Owing(V)' \ S
  <1>0. dir' = dir
    BY DEF Swept
  <1> SUFFICES Cardinality(D) <= MaxFiles + Cardinality(O2)
    BY <1>0 DEF Within
  <1>1. Cardinality(D) <= MaxFiles + Cardinality(O)
    BY DEF Within
  <1>2. /\ IsFiniteSet(DOMAIN dir) /\ IsFiniteSet(D) /\ IsFiniteSet(O2)
        /\ MaxFiles \in Nat
    <2>1. IsFiniteSet(D)
      BY FS_Difference DEF CapInv, Types, Finite
    <2>2. IsFiniteSet(O2)
      BY OwingFinite
    <2> QED BY <2>1, <2>2, MaxFilesAssumption DEF CapInv, Types, Finite
  <1>3. /\ TypeOK /\ SeenAdded /\ pc[g] = "remove" /\ victims[g] = <<>>
        /\ unswept' = unswept \ seen[g]
    BY DEF CapInv, Types, Swept
  <1>4. ASSUME NEW h \in Fetches \ {g}, h \in Owing(V), h \notin seen[g]
        PROVE  h \in Owing(V)'
    BY <1>0, <1>3, <1>4, OthersOwing
  <1>5. CASE seen[g] = {}
    <2>1. g \in Owing(V) => g \in Owing(V)'
      BY <1>3, <1>5 DEF Owing
    <2>2. O \subseteq O2
      BY <1>4, <1>5, <2>1 DEF Owing
    <2> HIDE DEF D, O, O2
    <2> QED BY <1>1, <1>2, <2>2, BoundKept
  <1>6. CASE g \in seen[g] /\ seen[g] \subseteq S
    <2>1. O \subseteq O2
      BY <1>4, <1>6 DEF Owing
    <2> HIDE DEF D, O, O2
    <2> QED BY <1>1, <1>2, <2>1, BoundKept
  <1>7. CASE g \in seen[g] /\ S \subseteq seen[g]
    <2> DEFINE Q == Owing({}) \ seen[g]
               E == DOMAIN dir \cap V
               K == {h \in Fetches : pc[h] \in {"fill", "rename"} /\ TmpName(h) \in E}
    <2>1. Cardinality(DOMAIN dir) <= MaxFiles + Cardinality(Q)
      <3>1. Victims(g) = {}
        BY <1>3 DEF Victims
      <3>2. Within({}, seen[g])
        BY <1>7, <3>1 DEF CapInv, EvictionsWork
      <3>3. DOMAIN dir \ {} = DOMAIN dir
        OBVIOUS
      <3> QED BY <3>2, <3>3 DEF Within
    <2>2. Q \subseteq O2 \cup K
      <3> SUFFICES ASSUME NEW h \in Q, h \notin K PROVE h \in O2
        OBVIOUS
      <3>1. h \in Fetches \ {g} /\ h \notin seen[g] /\ h \notin S
        BY <1>7 DEF Owing
      <3>2. h \in Owing(V)
        BY DEF Owing
      <3> QED BY <1>4, <3>1, <3>2
    <2>3. IsFiniteSet(E)
      BY <1>2, FS_Intersection
    <2>4. IsFiniteSet(K) /\ Cardinality(K) <= Cardinality(E)
      <3> DEFINE name == [h \in K |-> TmpName(h)]
      <3>1. name \in Injection(K, E)
        <4>1. name \in [K -> E]
          OBVIOUS
        <4>2. \A h, k \in K : name[h] = name[k] => h = k
          BY NamesDiffer
        <4> HIDE DEF name, K, E
        <4> QED BY <4>1, <4>2 DEF Injection, IsInjective
      <3> HIDE DEF name, K, E
      <3> QED BY <2>3, <3>1, FS_Injection
    <2>5. Cardinality(D) = Cardinality(DOMAIN dir) - Cardinality(E)
      BY <1>2, FS_Difference
    <2> HIDE DEF D, O2, Q, K, E
    <2>6. /\ IsFiniteSet(O2 \cup K)
          /\ Cardinality(O2 \cup K)
               = Cardinality(O2) + Cardinality(K) - Cardinality(O2 \cap K)
          /\ IsFiniteSet(O2 \cap K)
      BY <1>2, <2>4, FS_Union, FS_Intersection
    <2>7. IsFiniteSet(Q) /\ Cardinality(Q) <= Cardinality(O2 \cup K)
      BY <2>2, <2>6, FS_Subset
    <2>8. /\ Cardinality(D) \in Nat /\ Cardinality(DOMAIN dir) \in Nat
          /\ Cardinality(E) \in Nat /\ Cardinality(K) \in Nat /\ Cardinality(O2) \in Nat
          /\ Cardinality(Q) \in Nat /\ Cardinality(O2 \cap K) \in Nat
          /\ Cardinality(O2 \cup K) \in Nat
      BY <1>2, <2>3, <2>4, <2>6, <2>7, FS_CardinalityType
    <2> QED BY <1>2, <2>1, <2>4, <2>5, <2>6, <2>7, <2>8
  <1> QED BY <1>3, <1>5, <1>6, <1>7 DEF SeenAdded

(* A listing picks so many files that, once they are gone, the directory   *)
(* is within the cap.                                                      *)
LEMMA ListedEnough ==
    ASSUME Types, NEW W, NEW old \in Oldest(Surplus), W = {old[i] : i \in 1..Len(old)}
    PROVE  Cardinality(DOMAIN dir \ W) <= MaxFiles
  <1> DEFINE n == Surplus
             D == DOMAIN dir
  <1>1. /\ n \in Nat /\ Cardinality(D) \in Nat /\ Cardinality(D) <= MaxFiles + n
        /\ Len(old) = n /\ \A i \in 1..n : old[i] \in D
        /\ \A i, j \in 1..n : i # j => old[i] # old[j]
    BY ListingOK
  <1>2. IsFiniteSet(D)
    BY DEF Types, Finite
  <1> HIDE DEF n, D
  <1>3. W = {old[i] : i \in 1..n} /\ W \in SUBSET D
    BY <1>1
  <1>4. IsFiniteSet(W)
    BY <1>2, <1>3, FS_Subset
  <1> DEFINE at == [i \in 1..n |-> old[i]]
  <1>5. at \in Injection(1..n, W)
    <2>1. at \in [1..n -> W]
      BY <1>3
    <2>2. \A i, j \in 1..n : at[i] = at[j] => i = j
      BY <1>1
    <2> HIDE DEF at
    <2> QED BY <2>1, <2>2 DEF Injection, IsInjective
  <1> HIDE DEF at
  <1>6. Cardinality(1..n) <= Cardinality(W)
    BY <1>4, <1>5, FS_Injection
  <1>7. Cardinality(1..n) = IF 1 > n THEN 0 ELSE n - 1 + 1
    BY <1>1, FS_Interval
  <1>8. Cardinality(1..n) = n
    BY <1>1, <1>7
  <1>9. D \cap W = W
    BY <1>3
  <1>10. Cardinality(D \ W) = Cardinality(D) - Cardinality(W)
    <2>1. Cardinality(D \ W) = Cardinality(D) - Cardinality(D \cap W)
      BY <1>2, FS_Difference
    <2> QED BY <1>9, <2>1
  <1>11. Cardinality(W) \in Nat
    BY <1>4, FS_CardinalityType
  <1>12. Cardinality(D \ W) <= MaxFiles
    BY <1>1, <1>6, <1>8, <1>10, <1>11, MaxFilesAssumption
  <1> QED BY <1>12 DEF D

LEMMA EvictionSteps ==
    ASSUME CapInv, Types', SeenAdded', ListingsInOrder', NEW g \in Fetches, FetchStep(g),
           NEW f \in Fetches, f \in seen'[f],
           NEW V, V = Victims(f)', NEW S, S = seen'[f]
    PROVE  Within(V, S)'
  <1>0. /\ TypeOK /\ SeenAdded /\ pc \in [Fetches -> Labels]
        /\ victims \in [Fetches -> Seq(Names)] /\ seen \in [Fetches -> SUBSET Fetches]
    BY DEF CapInv, Types, TypeOK
  <1>1. /\ \A h \in Fetches \ {g} : victims'[h] = victims[h] /\ seen'[h] = seen[h]
        /\ g \in seen'[g] => List(g) \/ seen'[g] = seen[g]
    BY VictimTypes, OwnHistory, SeenSteps DEF CapInv, Types
  <1>2. ASSUME victims'[f] = victims[f], seen'[f] = seen[f], ~Swept(g)
        PROVE  Within(V, S)'
    <2>1. V = Victims(f) /\ S = seen[f]
      BY <1>2 DEF Victims
    <2>2. Within(V, S)
      BY <2>1 DEF CapInv, EvictionsWork
    <2>3. \A h \in S : pc[h] \in {"list", "remove", "done"}
      BY <1>0, <2>1 DEF SeenAdded
    <2> QED BY <1>0, <1>2, <2>2, <2>3, WithinKept DEF CapInv
  <1>3. CASE Swept(g)
    <2>1. seen'[g] = {}
      BY <1>0, <1>3 DEF Swept
    <2>2. f # g
      BY <2>1
    <2>3. V = Victims(f) /\ S = seen[f]
      BY <1>1, <2>2 DEF Victims
    <2>4. Within(V, S)
      BY <2>3 DEF CapInv, EvictionsWork
    <2>5. S \subseteq seen[g] \/ seen[g] \subseteq S
      BY <2>3 DEF CapInv, ListingsInOrder
    <2> QED BY <1>3, <2>4, <2>5, WithinAfterSweep
  <1>4. CASE f # g /\ ~Swept(g)
    BY <1>1, <1>2, <1>4
  <1>5. CASE f = g /\ List(g)
    <2>1. PICK old \in Oldest(Surplus) : victims' = [victims EXCEPT ![g] = old]
      BY <1>5 DEF List
    <2>2. V = {old[i] : i \in 1..Len(old)}
      BY <1>0, <1>5, <2>1 DEF Victims
    <2>3. Cardinality(DOMAIN dir \ V) <= MaxFiles
      BY <2>2, ListedEnough DEF CapInv
    <2>4. DOMAIN dir' \ V = DOMAIN dir \ V
      BY <1>5 DEF List
    <2>5. Cardinality(Owing(V)' \ S) \in Nat
      BY OwingFinite, FS_CardinalityType
    <2>6. Cardinality(DOMAIN dir \ V) \in Nat
      BY FS_Difference, FS_CardinalityType DEF CapInv, Types, Finite
    <2> DEFINE d == Cardinality(DOMAIN dir \ V)
               o == Cardinality(Owing(V)' \ S)
    <2>7. Within(V, S)' <=> d <= MaxFiles + o
      BY <2>4 DEF Within
    <2> HIDE DEF d, o
    <2>8. d \in Nat /\ o \in Nat /\ d <= MaxFiles
      BY <2>3, <2>5, <2>6 DEF d, o
    <2>9. d <= MaxFiles + o
      BY <2>8, MaxFilesAssumption
    <2> QED BY <2>7, <2>9
  <1>6. CASE f = g /\ Remove(g)
    <2> DEFINE U == Victims(g)
               n == Head(victims[g])
    <2>1. /\ victims'[g] = Tail(victims[g]) /\ victims[g] # <<>>
          /\ DOMAIN dir' = DOMAIN dir \ {n} /\ pc' = pc /\ url' = url
          /\ seen' = seen /\ unswept' = unswept
      BY <1>0, <1>6 DEF Remove, Without
    <2>2. U = V \cup {n}
      <3>1. victims[g] \in Seq(Names) /\ victims[g] # <<>>
        BY <1>0, <2>1
      <3>2. Len(victims[g]) \in Nat /\ Len(victims[g]) >= 1
            /\ Len(Tail(victims[g])) = Len(victims[g]) - 1
            /\ n = victims[g][1]
            /\ \A i \in 1..(Len(victims[g]) - 1) : Tail(victims[g])[i] = victims[g][i + 1]
        BY <3>1
      <3>3. V = {Tail(victims[g])[i] : i \in 1..(Len(victims[g]) - 1)}
        BY <1>6, <2>1, <3>2 DEF Victims
      <3>4. ASSUME NEW x \in U PROVE x \in V \cup {n}
        <4>1. PICK i \in 1..Len(victims[g]) : x = victims[g][i]
          BY <3>4 DEF Victims
        <4>2. CASE i = 1
          BY <3>2, <4>1, <4>2
        <4>3. CASE i # 1
          <5>1. i - 1 \in 1..(Len(victims[g]) - 1) /\ (i - 1) + 1 = i
            BY <3>2, <4>1, <4>3
          <5>2. Tail(victims[g])[i - 1] = x
            BY <3>2, <4>1, <5>1
          <5> QED BY <3>3, <5>1, <5>2
        <4> QED BY <4>2, <4>3
      <3>5. ASSUME NEW x \in V \cup {n} PROVE x \in U
        <4>1. CASE x = n
          BY <3>2, <4>1 DEF Victims
        <4>2. CASE x \in V
          <5>1. PICK i \in 1..(Len(victims[g]) - 1) : x = Tail(victims[g])[i]
            BY <3>3, <4>2
          <5>2. i + 1 \in 1..Len(victims[g]) /\ x = victims[g][i + 1]
            BY <3>2, <5>1
          <5> QED BY <5>2 DEF Victims
        <4> QED BY <3>5, <4>1, <4>2
      <3> QED BY <3>4, <3>5
    <2>3. S = seen[g] /\ Within(U, S)
      BY <1>6, <2>1 DEF CapInv, EvictionsWork
    <2> HIDE DEF U
    <2>4. DOMAIN dir' \ V = DOMAIN dir \ U
      BY <2>1, <2>2
    <2>5. Owing(V)' = Owing(U)
      BY <2>1, <2>4 DEF Owing, TmpName
    <2> QED BY <2>3, <2>4, <2>5 DEF Within
  <1>7. CASE f = g /\ ~List(g) /\ ~Remove(g) /\ ~Swept(g)
    <2>1. ~RemoveFails(g)
      BY <1>0, <1>7 DEF RemoveFails
    <2>2. victims' = victims
      BY <1>7, <2>1 DEF FetchStep, Refuse, Begin, Hit, Miss, DownloadFails, Downloaded,
           NoWrite, CreateTmp, FillTmp, WriteFails, Rename, RenameFails, ListFails, Timeout
    <2> QED BY <1>1, <1>2, <1>7, <2>2
  <1> QED BY <1>3, <1>4, <1>5, <1>6, <1>7

LEMMA NextCap == CapInv /\ [Next]_vars => CapInv'
  <1> SUFFICES ASSUME CapInv, [Next]_vars PROVE CapInv'
    OBVIOUS
  <1>1. CASE UNCHANGED vars
    <2>1. /\ dir' = dir /\ pc' = pc /\ url' = url /\ victims' = victims
          /\ unswept' = unswept /\ seen' = seen
      BY <1>1 DEF vars
    <2>2. Types'
      BY <1>1, NextTypes DEF CapInv
    <2>3. SeenAdded' /\ ListingsInOrder'
      BY <2>1 DEF CapInv, SeenAdded, ListingsInOrder
    <2>4. \A V, S : Within(V, S) => Within(V, S)'
      BY <2>1 DEF Within, Owing, TmpName
    <2>5. Within({}, {})'
      BY <2>4 DEF CapInv
    <2>6. EvictionsWork'
      <3> SUFFICES ASSUME NEW f \in Fetches, f \in seen[f]
                   PROVE  Within(Victims(f), seen[f])'
        BY <2>1 DEF EvictionsWork
      <3>1. PICK V, S : V = Victims(f) /\ S = seen[f]
        OBVIOUS
      <3>2. Within(V, S)'
        BY <2>4, <3>1 DEF CapInv, EvictionsWork
      <3>3. V = Victims(f)' /\ S = seen'[f]
        BY <2>1, <3>1 DEF Victims
      <3>4. Owing(V)' = Owing(Victims(f))'
        BY <3>3 DEF Owing
      <3> QED BY <3>2, <3>3, <3>4 DEF Within
    <2> QED BY <2>2, <2>3, <2>5, <2>6 DEF CapInv
  <1>2. ASSUME NEW g \in Fetches, FetchStep(g) PROVE CapInv'
    <2>1. Types'
      BY <1>2, NextTypes DEF CapInv, Next
    <2>2. SeenAdded' /\ ListingsInOrder'
      BY <1>2, SeenSteps DEF CapInv, Types
    <2>3. Within({}, {})'
      <3>1. CASE ~Swept(g)
        BY <1>2, <2>1, <2>2, <3>1, WithinKept DEF CapInv
      <3>2. CASE Swept(g)
        BY <1>2, <2>1, <2>2, <3>2, WithinAfterSweep DEF CapInv
      <3> QED BY <3>1, <3>2
    <2>4. EvictionsWork'
      <3> SUFFICES ASSUME NEW f \in Fetches, f \in seen'[f]
                   PROVE  Within(Victims(f), seen[f])'
        BY DEF EvictionsWork
      <3>1. PICK V, S : V = Victims(f)' /\ S = seen'[f]
        OBVIOUS
      <3>2. Within(V, S)'
        BY <1>2, <2>1, <2>2, <3>1, EvictionSteps
      <3>3. Owing(V)' = Owing(Victims(f))'
        BY <3>1 DEF Owing
      <3> QED BY <3>1, <3>2, <3>3 DEF Within
    <2> QED BY <2>1, <2>2, <2>3, <2>4 DEF CapInv
  <1> QED BY <1>1, <1>2 DEF Next

LEMMA InitCap == Init => CapInv
  <1> SUFFICES ASSUME Init PROVE CapInv
    OBVIOUS
  <1>1. Types
    BY InitTypes
  <1>2. \A f \in Fetches : /\ seen[f] = {}
                           /\ pc[f] = IF f \in unswept THEN "done" ELSE "idle"
    BY DEF Init
  <1>3. unswept \subseteq Fetches
    BY Found
  <1>4. SeenAdded /\ ListingsInOrder /\ EvictionsWork
    BY <1>2, <1>3 DEF SeenAdded, ListingsInOrder, EvictionsWork
  <1>5. Within({}, {})
    <2>1. Owing({}) \ {} = unswept
      BY <1>2, <1>3 DEF Owing
    <2>2. DOMAIN dir \ {} = DOMAIN dir
      OBVIOUS
    <2> QED BY <2>1, <2>2, Found DEF Within
  <1> QED BY <1>1, <1>4, <1>5 DEF CapInv

(* The directory exceeds max_files by no more than the files of calls that *)
(* are still running, or were cut short and not made good for, whatever    *)
(* number of evictions run side by side on outdated listings (image_cache, *)
(* evict_beyond_cap).                                                      *)
THEOREM CapRespected == Spec => []CacheBounded
  <1>1. CapInv => CacheBounded
    <2> SUFFICES ASSUME CapInv PROVE CacheBounded
      OBVIOUS
    <2> DEFINE D == DOMAIN dir \ {}
               O == Owing({}) \ {}
               P == Unfinished \cup unswept
               begun == {f \in Fetches : pc[f] # "idle"}
    <2>1. Cardinality(D) <= MaxFiles + Cardinality(O)
      BY DEF CapInv, Within
    <2>2. O \subseteq P
      BY DEF Owing, Unfinished
    <2>3. P \in SUBSET begun
      BY DEF Unfinished, CapInv, SeenAdded, Types, TypeOK
    <2>4. IsFiniteSet(begun)
      BY DEF CapInv, Types, Finite
    <2>5. DOMAIN dir = D
      OBVIOUS
    <2>6. IsFiniteSet(DOMAIN dir)
      BY DEF CapInv, Types, Finite
    <2> HIDE DEF D, O, P, begun
    <2>7. IsFiniteSet(P)
      BY <2>3, <2>4, FS_Subset
    <2>8. Cardinality(D) <= MaxFiles + Cardinality(P)
      BY <2>1, <2>2, <2>5, <2>6, <2>7, MaxFilesAssumption, BoundKept
    <2> QED BY <2>5, <2>8 DEF CacheBounded, P
  <1> QED BY <1>1, InitCap, NextCap, PTL DEF Spec
=============================================================================
