----------------------------- MODULE ImageCache -----------------------------
(***************************************************************************)
(* ImageCache of notify-agent-core: images downloaded for toasts, one file *)
(* per URL, in a directory that is kept to MaxFiles entries.  Every render *)
(* task calls fetch on its own, so calls run side by side, also for one    *)
(* URL, and share nothing but the directory.                               *)
(*                                                                         *)
(* fetch runs under a timeout that drops its future wherever it waits.     *)
(* The file operations are spawn_blocking closures: one that was started   *)
(* runs to its end after the timeout, and nothing follows it.              *)
(***************************************************************************)
EXTENDS Integers, FiniteSets, Sequences

CONSTANTS Fetches,   \* the calls of fetch
          Urls,      \* the URLs parse_image_url accepts
          BadUrls,   \* URLs it rejects
          MaxFiles,  \* ImageCacheOptions.max_files
          Leftovers  \* what may be there at the start: names of files, and calls
                     \* of earlier processes that were cut short

NoUrl == "no url"

ASSUME MaxFilesAssumption == MaxFiles \in Nat
ASSUME UrlsAssumption == Urls \cap BadUrls = {} /\ NoUrl \notin Urls

VARIABLES
    dir,       \* the directory: file name -> what is in it
    now,       \* the file system's clock
    pc,        \* where each call is
    url,       \* the URL each call was made with
    timed_out, \* the calls whose caller got None while they were running
    victims,   \* the names a call's eviction has still to delete
    unswept,   \* history: calls that ended leaving a file no eviction looked at
    seen       \* history: the calls that could add no file any more when this
               \* call listed the directory, unless it failed to delete one

vars == <<dir, now, pc, url, timed_out, victims, unswept, seen>>

\* Mutated form of TmpName: one temporary name per URL.
TmpNameShared(f) == [url |-> url[f], tmp |-> Fetches]

(* The two names of an image: {sha256(url)} and, while it is written,      *)
(* {sha256(url)}.part-{pid}-{counter}.                                     *)
Path(u) == [url |-> u, tmp |-> {}]
TmpName(f) == [url |-> url[f], tmp |-> {f}]

IsTmp(name) == name.tmp # {}

Names == [url : Urls, tmp : SUBSET Fetches]

(* Any directory will do: each file beyond the cap counts as one of a call *)
(* that no eviction has made good for.                                     *)
ASSUME LeftoversAssumption ==
    \A l \in Leftovers :
        /\ l.names \in SUBSET Names /\ IsFiniteSet(l.names)
        /\ l.cut_short \in SUBSET Fetches /\ IsFiniteSet(l.cut_short)
        /\ Cardinality(l.names) <= MaxFiles + Cardinality(l.cut_short)

(* What a file holds: the whole image of a URL or a part of it.            *)
Files == [whole : BOOLEAN, mtime : Nat]

Put(name, file) == [n \in DOMAIN dir \cup {name} |->
                        IF n = name THEN file ELSE dir[n]]
Without(name) == [n \in DOMAIN dir \ {name} |-> dir[n]]

(* What earlier processes left: images, and temporary files of writes they *)
(* did not live to rename, whole or not, also under the very name a call   *)
(* of this process will use when the system gives out its pid again.       *)
Init ==
    /\ \E l \in Leftovers :
        /\ unswept = l.cut_short
        /\ \E half \in SUBSET {n \in l.names : IsTmp(n)} :
              dir = [n \in l.names |-> [whole |-> n \notin half, mtime |-> 0]]
    /\ now = 0
    /\ pc = [f \in Fetches |-> IF f \in unswept THEN "done" ELSE "idle"]
    /\ url = [f \in Fetches |-> NoUrl]
    /\ timed_out = {}
    /\ victims = [f \in Fetches |-> <<>>]
    /\ seen = [f \in Fetches |-> {}]

Goto(f, label) == pc' = [pc EXCEPT ![f] = label]

(* The call is over: it has returned, or its future was dropped and the    *)
(* last file operation has ended.                                          *)
End(f) ==
    /\ Goto(f, "done")
    /\ url' = [url EXCEPT ![f] = NoUrl]
    /\ timed_out' = timed_out \ {f}

-----------------------------------------------------------------------------
(* fetch(u): a URL that is not an acceptable https URL is refused.         *)
Refuse(f, u) ==
    /\ pc[f] = "idle"
    /\ u \in BadUrls
    /\ End(f)
    /\ UNCHANGED <<dir, now, victims, unswept, seen>>

Begin(f, u) ==
    /\ pc[f] = "idle"
    /\ u \in Urls
    /\ url' = [url EXCEPT ![f] = u]
    /\ Goto(f, "lookup")
    /\ UNCHANGED <<dir, now, timed_out, victims, unswept, seen>>

(* try_exists finds the file: it is returned without a download.           *)
Hit(f) ==
    /\ pc[f] = "lookup"
    /\ Path(url[f]) \in DOMAIN dir
    /\ End(f)
    /\ UNCHANGED <<dir, now, victims, unswept, seen>>

Miss(f) ==
    /\ pc[f] = "lookup"
    /\ Path(url[f]) \notin DOMAIN dir
    /\ Goto(f, "download")
    /\ UNCHANGED <<dir, now, url, timed_out, victims, unswept, seen>>

(* No connection, an error status, a content type that is not image/ or a  *)
(* body beyond max_bytes: the body was only in memory.                     *)
DownloadFails(f) ==
    /\ pc[f] = "download"
    /\ End(f)
    /\ UNCHANGED <<dir, now, victims, unswept, seen>>

Downloaded(f) ==
    /\ pc[f] = "download"
    /\ Goto(f, "create")
    /\ UNCHANGED <<dir, now, url, timed_out, victims, unswept, seen>>

-----------------------------------------------------------------------------
(* tokio::fs::write(tmp, body): the file is created or truncated, then     *)
(* filled; its mtime is that of the last write.                            *)
CreateTmp(f) ==
    /\ pc[f] = "create"
    /\ dir' = Put(TmpName(f), [whole |-> FALSE, mtime |-> now])
    /\ Goto(f, "fill")
    /\ UNCHANGED <<now, url, timed_out, victims, unswept, seen>>

(* The call ends here, and its temporary file, if nobody deleted it, has   *)
(* not been looked at by an eviction of its own.                           *)
Abandon(f) ==
    /\ End(f)
    /\ unswept' = unswept \cup {g \in {f} : TmpName(g) \in DOMAIN dir}

(* create_dir_all fails, or the timeout came before the write was begun.   *)
NoWrite(f) ==
    /\ pc[f] = "create"
    /\ End(f)
    /\ UNCHANGED <<dir, now, victims, unswept, seen>>

(* The write ends, at a time of its own.  Another call's eviction may have *)
(* deleted the name meanwhile: then the bytes are gone.                    *)
FillTmp(f) ==
    /\ pc[f] = "fill"
    /\ now' = now + 1
    /\ dir' = IF TmpName(f) \in DOMAIN dir
              THEN Put(TmpName(f), [whole |-> TRUE, mtime |-> now'])
              ELSE dir
    /\ IF f \in timed_out
       THEN Abandon(f)
       ELSE /\ Goto(f, "rename")
            /\ UNCHANGED <<url, timed_out, unswept>>
    /\ UNCHANGED <<victims, seen>>

(* The write fails half way (the disk is full).                            *)
WriteFails(f) ==
    /\ pc[f] = "fill"
    /\ Abandon(f)
    /\ UNCHANGED <<dir, now, victims, seen>>

(* tokio::fs::rename(tmp, path) replaces what is at path in one step.      *)
Rename(f) ==
    /\ pc[f] = "rename"
    /\ TmpName(f) \in DOMAIN dir
    /\ dir' = [n \in (DOMAIN dir \ {TmpName(f)}) \cup {Path(url[f])} |->
                  IF n = Path(url[f]) THEN dir[TmpName(f)] ELSE dir[n]]
    /\ IF f \in timed_out
       THEN Abandon(f)
       ELSE /\ Goto(f, "list")
            /\ UNCHANGED <<url, timed_out, unswept>>
    /\ UNCHANGED <<now, victims, seen>>

(* The temporary file is gone, or the rename is refused: an error.         *)
RenameFails(f) ==
    /\ pc[f] = "rename"
    /\ Abandon(f)
    /\ UNCHANGED <<dir, now, victims, seen>>

-----------------------------------------------------------------------------
\* Mutated form of Surplus: one file more than the cap is kept.
SurplusOneLess ==
    IF Cardinality(DOMAIN dir) > MaxFiles + 1
    THEN Cardinality(DOMAIN dir) - (MaxFiles + 1) ELSE 0

(* How many entries are beyond the cap; temporary files count as well.     *)
Surplus ==
    IF Cardinality(DOMAIN dir) > MaxFiles
    THEN Cardinality(DOMAIN dir) - MaxFiles ELSE 0

(* The first n entries once the listing is sorted by mtime; the order      *)
(* among equal times is read_dir's.                                        *)
Oldest(n) ==
    {old \in [1..n -> DOMAIN dir] :
        /\ \A i, j \in 1..n : i < j => /\ old[i] # old[j]
                                      /\ dir[old[i]].mtime <= dir[old[j]].mtime
        /\ \A i \in 1..n : \A name \in DOMAIN dir \ {old[k] : k \in 1..n} :
              dir[old[i]].mtime <= dir[name].mtime}

(* evict_beyond_cap lists the directory, taken to be one step, and picks   *)
(* what to delete.                                                         *)
List(f) ==
    /\ pc[f] = "list"
    /\ \E old \in Oldest(Surplus) : victims' = [victims EXCEPT ![f] = old]
    /\ seen' = [seen EXCEPT ![f] = {g \in Fetches : pc[g] \in {"list", "remove", "done"}}]
    /\ Goto(f, "remove")
    /\ UNCHANGED <<dir, now, url, timed_out, unswept>>

(* read_dir fails: nothing is deleted.                                     *)
ListFails(f) ==
    /\ pc[f] = "list"
    /\ unswept' = unswept \cup {f}
    /\ End(f)
    /\ UNCHANGED <<dir, now, victims, seen>>

(* remove_file of the next one; that it is gone already is no matter.      *)
Remove(f) ==
    /\ pc[f] = "remove"
    /\ victims[f] # <<>>
    /\ dir' = Without(Head(victims[f]))
    /\ victims' = [victims EXCEPT ![f] = Tail(@)]
    /\ UNCHANGED <<now, pc, url, timed_out, unswept, seen>>

(* remove_file fails (the file is open elsewhere): ignored.                *)
RemoveFails(f) ==
    /\ pc[f] = "remove"
    /\ victims[f] # <<>>
    /\ victims' = [victims EXCEPT ![f] = Tail(@)]
    /\ unswept' = unswept \cup {f}
    /\ seen' = [seen EXCEPT ![f] = {}]
    /\ UNCHANGED <<dir, now, pc, url, timed_out>>

(* The eviction ends, and the call returns the path.                       *)
Swept(f) ==
    /\ pc[f] = "remove"
    /\ victims[f] = <<>>
    /\ unswept' = unswept \ seen[f]
    /\ seen' = [seen EXCEPT ![f] = {}]
    /\ End(f)
    /\ UNCHANGED <<dir, now, victims>>

\* Mutated form of Timeout: the file operation in progress is cancelled.
TimeoutCancels(f) ==
    /\ pc[f] \notin {"idle", "done"}
    /\ f \notin timed_out
    /\ End(f)
    /\ UNCHANGED <<dir, now, victims, unswept, seen>>

(* The timeout: the caller gets None.  A call that waits for the server or *)
(* has only looked ends; a file operation in progress goes on.             *)
Timeout(f) ==
    /\ pc[f] \notin {"idle", "done"}
    /\ f \notin timed_out
    /\ IF pc[f] \in {"lookup", "download"}
       THEN End(f)
       ELSE /\ timed_out' = timed_out \cup {f}
            /\ UNCHANGED <<pc, url>>
    /\ UNCHANGED <<dir, now, victims, unswept, seen>>

-----------------------------------------------------------------------------
FetchStep(f) ==
    \/ \E u \in BadUrls : Refuse(f, u)
    \/ \E u \in Urls : Begin(f, u)
    \/ Hit(f)
    \/ Miss(f)
    \/ DownloadFails(f)
    \/ Downloaded(f)
    \/ NoWrite(f)
    \/ CreateTmp(f)
    \/ FillTmp(f)
    \/ WriteFails(f)
    \/ Rename(f)
    \/ RenameFails(f)
    \/ List(f)
    \/ ListFails(f)
    \/ Remove(f)
    \/ RemoveFails(f)
    \/ Swept(f)
    \/ Timeout(f)

Next == \E f \in Fetches : FetchStep(f)

Spec == Init /\ [][Next]_vars

-----------------------------------------------------------------------------
(* Properties *)

Labels == {"idle", "lookup", "download", "create", "fill", "rename", "list",
           "remove", "done"}

(* Types; a call has a URL while it runs, and names to delete only while   *)
(* it deletes them.                                                        *)
TypeOK ==
    /\ DOMAIN dir \subseteq Names
    /\ \A n \in DOMAIN dir : dir[n] \in Files /\ dir[n].mtime <= now
    /\ now \in Nat
    /\ pc \in [Fetches -> Labels]
    /\ url \in [Fetches -> Urls \cup {NoUrl}]
    /\ timed_out \subseteq Fetches
    /\ victims \in [Fetches -> Seq(Names)]
    /\ unswept \subseteq Fetches
    /\ seen \in [Fetches -> SUBSET Fetches]
    /\ \A f \in Fetches :
          /\ url[f] # NoUrl <=> pc[f] \notin {"idle", "done"}
          /\ victims[f] # <<>> => pc[f] = "remove"

(* What fetch returns the path of is a whole image: no interleaving of     *)
(* calls for one URL, no timeout and no failed write puts a part of an     *)
(* image where a lookup finds it (image_cache.rs, download: a name of its  *)
(* own per call, then a rename).                                           *)
WholeImages ==
    \A n \in DOMAIN dir : ~IsTmp(n) => dir[n].whole

(* Calls that may have put a file into the directory and whose eviction    *)
(* has not ended.                                                          *)
Unfinished == {f \in Fetches : pc[f] \in {"fill", "rename", "list", "remove"}}

(* The directory exceeds the cap by no more than the files of calls that   *)
(* are still running and of calls that were cut short, or could not delete *)
(* a file, and that no later eviction has made good for: concurrent        *)
(* evictions that work from outdated listings never leave more behind, and *)
(* each one that runs to its end makes good for every call whose file was  *)
(* there when it listed the directory (image_cache.rs, evict_beyond_cap).  *)
CacheBounded ==
    Cardinality(DOMAIN dir) <= MaxFiles + Cardinality(Unfinished \cup unswept)
=============================================================================
