------------------------------ MODULE ModelCache ------------------------------
(***************************************************************************)
(* The shared cache of Hugging Face snapshots.  Preparation workers publish    *)
(* the revision they use and acquire its files under a shared lock: from       *)
(* peers into a directory of their own, which is published when its bytes are   *)
(* verified, or with the provider's SDK into the native cache.  A collector     *)
(* removes the snapshots of retired sources under the exclusive lock.  Any of   *)
(* them may be killed between two steps; the locks are then released.           *)
(***************************************************************************)
EXTENDS Naturals, FiniteSets

CONSTANTS
    Records,     \* the source records: the ConfigMaps of pool revisions
    Revision,    \* Revision[c]: the revision that a record publishes
    Files,       \* the files of a snapshot
    Blob,        \* Blob[r][f]: the content of a file; revisions may share one
    Prepared,    \* the records whose files the native cache has at the start
    MaxCrashes,  \* bound: the processes that are killed
    None

Revisions == {Revision[c] : c \in Records}
Blobs == {Blob[r][f] : r \in Revisions, f \in Files}

VARIABLES
    rec,      \* rec[c]: "new", "published", "retiring", "collected"
    job,      \* job[c]: the preparation worker of a record
    result,   \* result[c]: None, "view" or "native": where its files are (result.json)
    serving,  \* the records whose files a model server uses
    native,   \* native[b]: None, "good", "bad": the blobs of the native cache
    snap,     \* snap[r]: the files of a native snapshot
    partial,  \* partial[r]: None, or the files of an unpublished peer snapshot
    view,     \* view[r]: None, or those of a published one
    gc,       \* the collector
    crashes

vars == <<rec, job, result, serving, native, snap, partial, view, gc, crashes>>
cache == <<native, snap, partial, view>>

Idle == [pc |-> "idle", cached |-> {}, todo |-> {}, ok |-> TRUE]
At(c, pc) == job[c].pc = pc
Goto(c, pc) == job' = [job EXCEPT ![c].pc = pc]

\* the file locks, released with their process
Shared == {c \in Records : job[c].pc # "idle"}
PeerLock(r) == {c \in Records : Revision[c] = r /\ job[c].pc \in {"stage", "transfer"}}

\* A file of a peer snapshot is a hard link to a native blob, or has bytes of its own.
Bytes(r, d, f) == IF d[f] = "link" THEN native[Blob[r][f]] ELSE d[f]
Complete(d) == \A f \in Files : d[f] # None

\* files_available: whether the files of a recorded result are still there
Available(c) ==
    LET r == Revision[c] IN
    CASE result[c] = None -> FALSE
      [] result[c] = "view" -> IF view[r] = None THEN FALSE ELSE Complete(view[r])
      [] result[c] = "native" -> \A f \in Files : f \in snap[r] /\ native[Blob[r][f]] # None

-----------------------------------------------------------------------------
\* prepare: the shared lock comes before the publication
Lock(c) ==
    /\ At(c, "idle") /\ rec[c] \in {"new", "published"} /\ ~Available(c)
    /\ gc.pc = "idle"
    /\ Goto(c, "locked") /\ UNCHANGED <<rec, result, serving, gc, crashes, cache>>

\* A retiring record takes no publication.  Then peers are used for what the native
\* cache does not have, when a proxy is configured or a view is published, and the
\* provider's metadata can be had; the native entries are looked up once.
Publish(c) ==
    LET r == Revision[c] IN
    /\ At(c, "locked")
    /\ IF rec[c] = "retiring" THEN job' = [job EXCEPT ![c] = Idle] /\ UNCHANGED rec
       ELSE /\ rec' = [rec EXCEPT ![c] = "published"]
            /\ \/ Goto(c, "native")
               \/ snap[r] # Files /\ job' = [job EXCEPT ![c].pc = "wait", ![c].cached = snap[r]]
    /\ UNCHANGED <<result, serving, gc, crashes, cache>>

Done(c, where) ==
    /\ job' = [job EXCEPT ![c] = Idle] /\ result' = [result EXCEPT ![c] = where]
    /\ serving' = serving \union {c}

\* _peer_snapshot, under the lock of the revision: a published view is used, unless
\* a collection was interrupted in it
Enter(c) ==
    LET r == Revision[c] IN
    /\ At(c, "wait") /\ PeerLock(r) = {}
    /\ IF view[r] = None THEN Goto(c, "stage") /\ UNCHANGED <<result, serving>>
       ELSE IF Complete(view[r]) THEN Done(c, "view")
       ELSE Goto(c, "native") /\ UNCHANGED <<result, serving>>
    /\ UNCHANGED <<rec, gc, crashes, cache>>

Empty == [f \in Files |-> None]

\* what an interrupted transfer has left is removed
Stage(c) == partial' = [partial EXCEPT ![Revision[c]] = Empty]

Begin(c) ==
    /\ At(c, "stage") /\ Stage(c)
    /\ job' = [job EXCEPT ![c].pc = "transfer", ![c].todo = Files]
    /\ UNCHANGED <<rec, result, serving, native, snap, view, gc, crashes>>

\* One file is a link to the native entry, or has bytes from a peer, which are
\* written into the file that has the name; either may fail.
Link(c, f) ==
    /\ f \in job[c].cached /\ partial' = [partial EXCEPT ![Revision[c]][f] = "link"]
    /\ UNCHANGED native

Fetch(c, f) ==
    LET r == Revision[c] IN
    /\ f \notin job[c].cached
    /\ \E bytes \in {"good", "bad"} :
          IF partial[r][f] = "link"
          THEN native' = [native EXCEPT ![Blob[r][f]] = bytes] /\ UNCHANGED partial
          ELSE partial' = [partial EXCEPT ![r][f] = bytes] /\ UNCHANGED native

Transfer(c, f) ==
    /\ At(c, "transfer") /\ f \in job[c].todo
    /\ \/ (Link(c, f) \/ Fetch(c, f)) /\ job' = [job EXCEPT ![c].todo = @ \ {f}]
       \/ /\ job' = [job EXCEPT ![c].todo = @ \ {f}, ![c].ok = FALSE]
          /\ UNCHANGED <<native, partial>>
    /\ UNCHANGED <<rec, result, serving, snap, view, gc, crashes>>

\* validate: every file has the bytes that the provider's metadata names
Validated(c) ==
    LET r == Revision[c] IN
    job[c].ok /\ \A f \in Files : Bytes(r, partial[r], f) = "good"

Finish(c) ==
    LET r == Revision[c] IN
    /\ At(c, "transfer") /\ job[c].todo = {}
    /\ partial' = [partial EXCEPT ![r] = None]
    /\ IF Validated(c) THEN view' = [view EXCEPT ![r] = partial[r]] /\ Done(c, "view")
       ELSE Goto(c, "native") /\ UNCHANGED <<view, result, serving>>
    /\ UNCHANGED <<rec, native, snap, gc, crashes>>

\* snapshot_download: the SDK adds the missing files one by one
Download(c, f) ==
    LET r == Revision[c] IN
    /\ At(c, "native") /\ f \notin snap[r]
    /\ native' = [native EXCEPT ![Blob[r][f]] = IF @ = None THEN "good" ELSE @]
    /\ snap' = [snap EXCEPT ![r] = @ \union {f}]
    /\ UNCHANGED <<rec, job, result, serving, partial, view, gc, crashes>>

Downloaded(c) ==
    /\ At(c, "native") /\ snap[Revision[c]] = Files /\ Done(c, "native")
    /\ UNCHANGED <<rec, gc, crashes, cache>>

-----------------------------------------------------------------------------
\* the pool revision is retired, and its servers stop afterwards
Retire(c) ==
    /\ rec[c] = "published" /\ rec' = [rec EXCEPT ![c] = "retiring"]
    /\ UNCHANGED <<job, result, serving, gc, crashes, cache>>

Leave(c) ==
    /\ rec[c] = "retiring" /\ c \in serving /\ serving' = serving \ {c}
    /\ UNCHANGED <<rec, job, result, gc, crashes, cache>>

InUse(c) == c \in serving \/ job[c].pc # "idle"

\* Mutant of Live: a cache that is being retired no longer counts as served.
LiveUnretired == {Revision[c] : c \in {d \in Records : rec[d] = "published"}}

\* live_items: the revisions that records publish, and those of retiring records
\* whose jobs or servers have not ended
Live == {Revision[c] : c \in {d \in Records :
            rec[d] = "published" \/ (rec[d] = "retiring" /\ InUse(d))}}

\* collect: the consumers are read again under the exclusive lock
Collect(c) ==
    /\ gc.pc = "idle" /\ Shared = {} /\ rec[c] = "retiring" /\ ~InUse(c)
    /\ gc' = [pc |-> IF Revision[c] \in Live THEN "end" ELSE "native", record |-> c, live |-> Live, gone |-> {}]
    /\ UNCHANGED <<rec, job, result, serving, crashes, cache>>

\* bytes that a hard link keeps when the native cache drops the blob
Unlinked(d, r, gone) ==
    IF d = None THEN None
    ELSE [f \in Files |-> IF d[f] = "link" /\ Blob[r][f] \in gone THEN native[Blob[r][f]] ELSE d[f]]

Dropped(gone) ==
    /\ native' = [b \in Blobs |-> IF b \in gone THEN None ELSE native[b]]
    /\ partial' = [r \in Revisions |-> Unlinked(partial[r], r, gone)]
    /\ view' = [r \in Revisions |-> Unlinked(view[r], r, gone)]

\* the blobs of a snapshot that no other one links to, or the whole repository when
\* it has no other revision
Collectable(r, others) ==
    IF others = {} THEN Blobs
    ELSE {Blob[r][f] : f \in snap[r]} \ UNION {{Blob[o][f] : f \in snap[o]} : o \in others}

\* huggingface.collect, as far as the snapshot.  Blobs of an interrupted download stay
\* while any revision is live or cached; a live revision without a snapshot prevents
\* the deletion.
CollectNative ==
    LET r == Revision[gc.record]
        others == {o \in Revisions \ {r} : snap[o] # {}}
    IN  /\ gc.pc = "native"
        /\ gc' = IF snap[r] = {} /\ (gc.live # {} \/ others # {}) THEN [gc EXCEPT !.pc = "peer"]
                 ELSE IF snap[r] # {} /\ others = {} /\ gc.live # {} THEN [gc EXCEPT !.pc = "idle"]
                 ELSE [gc EXCEPT !.pc = "blobs", !.gone = Collectable(r, others)]
        /\ snap' = [snap EXCEPT ![r] = IF gc'.pc = "idle" THEN @ ELSE {}]
        /\ UNCHANGED <<rec, job, result, serving, native, partial, view, crashes>>

\* the blobs go after the snapshot
CollectBlobs ==
    /\ gc.pc = "blobs" /\ Dropped(gc.gone) /\ gc' = [gc EXCEPT !.pc = "peer", !.gone = {}]
    /\ UNCHANGED <<rec, job, result, serving, snap, crashes>>

\* then the peer snapshot, a file at a time, and what an interrupted transfer has left
CollectView ==
    LET r == Revision[gc.record] IN
    /\ gc.pc = "peer"
    /\ IF view[r] \in {None, Empty}
       THEN gc' = [gc EXCEPT !.pc = "partial"] /\ view' = [view EXCEPT ![r] = None]
       ELSE /\ \E f \in {g \in Files : view[r][g] # None} : view' = [view EXCEPT ![r][f] = None]
            /\ UNCHANGED gc
    /\ UNCHANGED <<rec, job, result, serving, native, snap, partial, crashes>>

CollectPartial ==
    /\ gc.pc = "partial" /\ gc' = [gc EXCEPT !.pc = "end"]
    /\ partial' = [partial EXCEPT ![Revision[gc.record]] = None]
    /\ UNCHANGED <<rec, job, result, serving, native, snap, view, crashes>>

CollectEnd ==
    /\ gc.pc = "end" /\ gc' = [gc EXCEPT !.pc = "idle"]
    /\ rec' = [rec EXCEPT ![gc.record] = "collected"]
    /\ UNCHANGED <<job, result, serving, crashes, cache>>

-----------------------------------------------------------------------------
Crash(c) ==
    /\ ~At(c, "idle") /\ crashes < MaxCrashes /\ crashes' = crashes + 1
    /\ job' = [job EXCEPT ![c] = Idle] /\ UNCHANGED <<rec, result, serving, gc, cache>>

CrashCollector ==
    /\ gc.pc # "idle" /\ crashes < MaxCrashes /\ crashes' = crashes + 1
    /\ gc' = [gc EXCEPT !.pc = "idle", !.gone = {}] /\ UNCHANGED <<rec, job, result, serving, cache>>

Init ==
    LET served == {Revision[c] : c \in Prepared}
    IN  /\ rec = [c \in Records |-> IF c \in Prepared THEN "published" ELSE "new"]
        /\ result = [c \in Records |-> IF c \in Prepared THEN "native" ELSE None]
        /\ snap = [r \in Revisions |-> IF r \in served THEN Files ELSE {}]
        /\ native = [b \in Blobs |-> IF \E r \in served, f \in Files : Blob[r][f] = b THEN "good" ELSE None]
        /\ serving = Prepared /\ job = [c \in Records |-> Idle]
        /\ partial = [r \in Revisions |-> None] /\ view = [r \in Revisions |-> None]
        /\ gc = [pc |-> "idle", record |-> None, live |-> {}, gone |-> {}] /\ crashes = 0

Next ==
    \/ CollectNative \/ CollectBlobs \/ CollectView \/ CollectPartial \/ CollectEnd \/ CrashCollector
    \/ \E c \in Records :
          \/ Lock(c) \/ Publish(c) \/ Enter(c) \/ Begin(c) \/ Finish(c)
          \/ Downloaded(c) \/ Retire(c) \/ Leave(c) \/ Collect(c) \/ Crash(c)
          \/ \E f \in Files : Transfer(c, f) \/ Download(c, f)

Spec == Init /\ [][Next]_vars

\* The files of a model server stay in the cache for as long as it runs, also when
\* its source has been retired, and while other revisions that share their contents
\* are collected.
ServedFilesAreKept == \A c \in serving : Available(c)

\* A model server reads only bytes that the provider vouches for, whatever peers
\* send, and though interrupted transfers leave links to blobs that others use.
ServedBytesAreGood ==
    \A c \in serving : LET r == Revision[c] IN
        \A f \in Files : IF result[c] = "view" THEN Bytes(r, view[r], f) \in {"good", None}
                         ELSE native[Blob[r][f]] \in {"good", None}
=============================================================================
