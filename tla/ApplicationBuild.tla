-------------------------- MODULE ApplicationBuild --------------------------
(***************************************************************************)
(* Publication of source builds at the file origin (publish, retire,        *)
(* publish_batch and publish_build in cli/foretoken/applications/           *)
(* publish.py).  A build publishes one directory per component, whole or    *)
(* only some parts of it over an earlier publication, with evidence of the  *)
(* sources of each part, and commits a record of the build at the end.      *)
(* Every step may be the last one of its Job; the build is then published   *)
(* again.                                                                   *)
(*                                                                          *)
(*   input[b]    what build b asks for (None: not begun)                    *)
(*   store[c]    the publications of component c, by revision               *)
(*   evidence[c] the manifests kept beside the sources, by revision         *)
(*   archives    <<c, b>>: the input archive of build b of component c      *)
(*   records     build records, by build                                    *)
(*   job         the batch at work: build, components done, revisions       *)
(***************************************************************************)
EXTENDS Integers, Sequences

CONSTANTS
    Components,     \* a sequence, in the order of the batch
    PartsOf(_),     \* _application_part: the parts of a component
    MaxBuilds,      \* bound: builds
    Contents,       \* the bytes of a part; None when it has no files
    Images,
    None

VARIABLES input, store, evidence, archives, records, job

vars == <<input, store, evidence, archives, records, job>>

Comps == {Components[k] : k \in DOMAIN Components}
\* revision 0 was published by a release
Revisions == 0..MaxBuilds

Component == Components[job.done + 1]
Asked == input[job.build][Component]
Base == IF Asked.previous = None THEN None ELSE store[Component][Asked.previous]

\* The files of the new directory.
Assembled ==
    [p \in PartsOf(Component) |->
        IF Asked.parts = None \/ p \in Asked.parts THEN Asked.files[p] ELSE Base.files[p]]

\* Mutant of Sources: the sources of this build are given to every part.
SourcesOwn ==
    [p \in PartsOf(Component) |-> IF Assembled[p] = None THEN None ELSE job.build]

\* the adopted sources of the parts that are taken over are those of the base
Sources ==
    [p \in PartsOf(Component) |->
        IF Assembled[p] = None THEN None
        ELSE IF Asked.parts = None \/ p \in Asked.parts THEN job.build ELSE Base.sources[p]]

\* the same environment, bytes and list of files: the previous publication is the result
Unchanged ==
    /\ Base # None /\ ~Base.release /\ Base.image = Asked.image
    /\ Assembled = Base.files

\* a partial publication needs its base, in the environment it was built for
Buildable == Asked.parts # None => Base # None /\ Base.image = Asked.image

Publication ==
    [files |-> Assembled, image |-> Asked.image, sources |-> Sources, release |-> FALSE]

Goto(step) == job' = [job EXCEPT !.at = step]

----------------------------------------------------------------------------
\* The checkout asks for a build: its exports, environment, and the publications of
\* an earlier revision that it selects as base.
Begin(b) ==
    /\ job = None /\ b < MaxBuilds /\ input[b + 1] = None /\ IF b = 0 THEN TRUE ELSE input[b] # None
    /\ \E files \in [UNION {PartsOf(c) : c \in Comps} -> Contents \union {None}], image \in Images,
          partial \in SUBSET Comps, base \in {None} \union 0..b :
          /\ base = None => partial = {}
          /\ input' = [input EXCEPT ![b + 1] = [c \in Comps |->
                [files |-> [p \in PartsOf(c) |-> files[p]], image |-> image, previous |-> base,
                 parts |-> IF c \in partial THEN {CHOOSE p \in PartsOf(c) : TRUE} ELSE None]]]
    /\ job' = [build |-> b + 1, done |-> 0, at |-> "publish", revisions |-> <<>>]
    /\ UNCHANGED <<store, evidence, archives, records>>

\* publish_batch runs again for a build that was cut
Again(b) ==
    /\ job = None /\ input[b] # None /\ b \notin DOMAIN records
    /\ job' = [build |-> b, done |-> 0, at |-> "publish", revisions |-> <<>>]
    /\ UNCHANGED <<input, store, evidence, archives, records>>

Result(revision) ==
    job' = [job EXCEPT !.at = "retire", !.revisions = Append(@, revision)]

\* The revision is there already, or nothing has changed.
Reuse ==
    /\ job # None /\ job.at = "publish"
    /\ \/ store[Component][job.build] # None /\ Result(job.build)
       \/ store[Component][job.build] = None /\ Buildable /\ Unchanged /\ Result(Asked.previous)
    /\ UNCHANGED <<input, store, evidence, archives, records>>

Refuse ==
    /\ job # None /\ job.at = "publish" /\ store[Component][job.build] = None /\ ~Buildable
    /\ job' = None
    /\ UNCHANGED <<input, store, evidence, archives, records>>

\* The archive of the inputs comes first, then the evidence, then the directory.
Archive ==
    /\ job # None /\ job.at = "publish" /\ store[Component][job.build] = None /\ Buildable /\ ~Unchanged
    /\ archives' = IF \E p \in PartsOf(Component) : Sources[p] = job.build
                   THEN archives \union {<<Component, job.build>>} ELSE archives
    /\ Goto("evidence")
    /\ UNCHANGED <<input, store, evidence, records>>

Evidence ==
    /\ job # None /\ job.at = "evidence"
    /\ evidence' = [evidence EXCEPT ![Component][job.build] = Publication]
    /\ Goto("rename")
    /\ UNCHANGED <<input, store, archives, records>>

Rename ==
    /\ job # None /\ job.at = "rename"
    /\ store' = [store EXCEPT ![Component][job.build] = Publication]
    /\ Result(job.build)
    /\ UNCHANGED <<input, evidence, archives, records>>

Retirable(r, keep) ==
    /\ store[Component][r] # None /\ ~store[Component][r].release
    /\ r \notin keep \union {job.revisions[Len(job.revisions)]}

\* retire: own publications that nothing refers to; keep is None when unknown
Retire ==
    /\ job # None /\ job.at = "retire"
    /\ \E keep \in {{}, Revisions} :   \* nothing else, or everything, is in use
          store' = [store EXCEPT ![Component] =
                       [r \in Revisions |-> IF Retirable(r, keep) THEN None ELSE @[r]]]
    /\ job' = [job EXCEPT !.done = @ + 1,
                          !.at = IF job.done + 1 = Len(Components) THEN "record" ELSE "publish"]
    /\ UNCHANGED <<input, evidence, archives, records>>

\* publish_build
Record ==
    /\ job # None /\ job.at = "record"
    /\ \A k \in DOMAIN Components : store[Components[k]][job.revisions[k]] # None
    /\ records' = [b \in DOMAIN records \union {job.build} |->
                      IF b = job.build THEN job.revisions ELSE records[b]]
    /\ job' = None
    /\ UNCHANGED <<input, store, evidence, archives>>

Crash ==
    /\ job # None
    /\ job' = None
    /\ UNCHANGED <<input, store, evidence, archives, records>>

Init ==
    /\ input = [b \in 1..MaxBuilds |-> None]
    /\ \E files \in Contents, image \in Images :
          store = [c \in Comps |-> [r \in Revisions |->
              IF r = 0 THEN [files |-> [p \in PartsOf(c) |-> files], image |-> image,
                             sources |-> [p \in PartsOf(c) |-> None], release |-> TRUE]
              ELSE None]]
    /\ evidence = [c \in Comps |-> [r \in Revisions |-> None]]
    /\ archives = {} /\ records = <<>> /\ job = None

Next ==
    \/ \E b \in 0..MaxBuilds : Begin(b)
    \/ \E b \in 1..MaxBuilds : Again(b)
    \/ Reuse \/ Refuse \/ Archive \/ Evidence \/ Rename \/ Retire \/ Record \/ Crash

Spec == Init /\ [][Next]_vars

----------------------------------------------------------------------------
Publications == {<<c, r>> \in Comps \X Revisions : store[c][r] # None}
Kept == {<<c, r>> \in Comps \X Revisions : evidence[c][r] # None}

\* what a build says of part p of component c names files that this build exported,
\* and whose input archive is there
Attested(c, manifest, p) ==
    LET b == manifest.sources[p] IN
       b # None => /\ manifest.files[p] = input[b][c].files[p]
                   /\ <<c, b>> \in archives

\* The evidence of every part is true of its files, through any chain of partial
\* publications, also after the publications it was taken from are collected.
EvidenceIsTrue ==
    /\ \A q \in Publications : \A p \in PartsOf(q[1]) : Attested(q[1], store[q[1]][q[2]], p)
    /\ \A q \in Kept : \A p \in PartsOf(q[1]) : Attested(q[1], evidence[q[1]][q[2]], p)

\* A recorded build names publications that are there when it is recorded and hold,
\* for the parts that were asked for, the bytes and the environment that were asked for.
RecordIsRequested ==
    \A b \in DOMAIN records' \ DOMAIN records : \A k \in DOMAIN Components :
       LET c == Components[k]
           r == records'[b][k]
       IN  /\ store[c][r] # None /\ store[c][r].image = input[b][c].image
           /\ \A p \in PartsOf(c) : (input[b][c].parts = None \/ p \in input[b][c].parts)
                                       => store[c][r].files[p] = input[b][c].files[p]
=============================================================================
