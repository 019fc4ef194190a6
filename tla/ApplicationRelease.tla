------------------------- MODULE ApplicationRelease -------------------------
(***************************************************************************)
(* Import of released application files into the platform's file origin     *)
(* (cli/foretoken/applications/files.py and publish.py, adopt in            *)
(* platform/storage/application_files.py).  An installation owns a Job with *)
(* the one name of release imports, which publishes the files of its        *)
(* release and removes releases that nothing refers to; the Job is kept     *)
(* until Helm has committed the selection.                                  *)
(*                                                                          *)
(*   dir[c][v]   the directory of release v of component c: absent, whole,  *)
(*               torn (files are missing, the manifest is there) or         *)
(*               headless (files without a manifest)                        *)
(*   job         None, or the Job of the release name, with the inputs that *)
(*               its script needs and its native deadlines                  *)
(*   inflight    installers whose create request may still commit           *)
(*   history     the releases of Helm's history; the last one is selected   *)
(*   using       releases that Pods, terminating ones included, run         *)
(*   inst[i]     the installer: step, revision, the seconds left, the Job's *)
(*               UID, and the references it read (None: unknown)            *)
(***************************************************************************)
EXTENDS Integers, Sequences, FiniteSets, SequencesExt

CONSTANTS
    Installers, Components, Versions,
    Seconds,        \* the timeout of an installation, and of its Job
    HistoryMax,     \* releases that Helm keeps
    MaxRollbacks,   \* bound: commits by others
    Interruptible,  \* whether a removal may be cut by the end of its Job
    None

VARIABLES dir, job, uids, inflight, history, rollbacks, using, inst

vars == <<dir, job, uids, inflight, history, rollbacks, using, inst>>
cluster == <<dir, job, uids, inflight, history, rollbacks, using>>

NewJob(i) == [uid |-> uids + 1, owner |-> i, inputs |-> None, at |-> "pending",
              active |-> Seconds, ttl |-> Seconds]
Goto(i, step) == inst' = [inst EXCEPT ![i].at = step]
Owns(i) == job # None /\ job.uid = inst[i].uid

----------------------------------------------------------------------------
\* ApplicationFiles.import_release and _publisher

Arrive(i) == inst[i].at = "idle" /\ Goto(i, "create") /\ UNCHANGED cluster

Create(i) ==
    /\ inst[i].at = "create" /\ inst[i].left > 0 /\ job = None
    /\ job' = NewJob(i) /\ uids' = uids + 1
    /\ inst' = [inst EXCEPT ![i].at = "history", ![i].uid = uids + 1]
    /\ UNCHANGED <<dir, inflight, history, rollbacks, using>>

\* The answer is lost: the request fails for the client, and may have created a Job.
LoseCreate(i) ==
    /\ inst[i].at = "create" /\ inst[i].left > 0
    /\ inst' = [inst EXCEPT ![i].at = "cleanup", ![i].uncertain = TRUE]
    /\ inflight' = inflight \union {i}
    /\ UNCHANGED <<dir, job, uids, history, rollbacks, using>>

\* retained(): the references are read once the Job is owned, Helm's history first,
\* which is unknown when a revision is added meanwhile.
ReadHistory(i) ==
    /\ inst[i].at = "history"
    /\ \E known \in BOOLEAN :
          inst' = [inst EXCEPT ![i].at = "consumers", ![i].keep = IF known THEN ToSet(history) ELSE None]
    /\ UNCHANGED cluster

\* application_consumers, application_references: what services and Pods name
Consumers == using

ReadConsumers(i) ==
    /\ inst[i].at = "consumers"
    /\ inst' = [inst EXCEPT ![i].at = "inputs",
                    ![i].keep = IF @ = None THEN None ELSE @ \union Consumers \union {inst[i].rev}]
    /\ UNCHANGED cluster

\* the ConfigMap with the script is owned by the Job's UID and goes with it
CreateInputs(i) ==
    /\ inst[i].at = "inputs"
    /\ job' = IF Owns(i) THEN [job EXCEPT !.inputs = [rev |-> inst[i].rev, keep |-> inst[i].keep]] ELSE job
    /\ Goto(i, "wait")
    /\ UNCHANGED <<dir, uids, inflight, history, rollbacks, using>>

\* _wait: lost ownership and a failed Job are errors
Wait(i) ==
    /\ inst[i].at = "wait"
    /\ \/ ~Owns(i) /\ Goto(i, "cleanup")
       \/ Owns(i) /\ job.at = "failed" /\ Goto(i, "cleanup")
       \/ Owns(i) /\ job.at = "complete" /\ Goto(i, "pods")
    /\ UNCHANGED cluster

\* the Job's Pods are deleted, and the Job must still be there
CheckOwner(i) ==
    /\ inst[i].at = "pods"
    /\ Goto(i, IF Owns(i) THEN "commit" ELSE "cleanup")
    /\ UNCHANGED cluster

\* Mutant of Commit: Helm runs with a time limit of its own.
CommitLate(i) ==
    /\ inst[i].at = "commit"
    /\ LET h == Append(history, inst[i].rev) IN
          history' = SubSeq(h, IF Len(h) > HistoryMax THEN 2 ELSE 1, Len(h))
    /\ Goto(i, "cleanup")
    /\ UNCHANGED <<dir, job, uids, inflight, rollbacks, using>>

\* Helm's upgrade runs within the deadline of the publication.
Commit(i) ==
    /\ inst[i].at = "commit" /\ inst[i].left > 0
    /\ LET h == Append(history, inst[i].rev) IN
          history' = SubSeq(h, IF Len(h) > HistoryMax THEN 2 ELSE 1, Len(h))
    /\ Goto(i, "cleanup")
    /\ UNCHANGED <<dir, job, uids, inflight, rollbacks, using>>

Steps == {"create", "history", "consumers", "inputs", "wait", "pods", "commit"}

\* a deadline, a failed request or a cancellation
Abort(i) ==
    /\ inst[i].at \in Steps
    /\ Goto(i, "cleanup")
    /\ UNCHANGED cluster

\* stop(): the acknowledged UID, or after an unknown outcome the Job with the own binding
StopJob(i) == Owns(i) \/ (inst[i].uid = None /\ inst[i].uncertain /\ job # None /\ job.owner = i)

Cleanup(i) ==
    /\ inst[i].at = "cleanup"
    /\ job' = IF StopJob(i) THEN None ELSE job
    /\ Goto(i, "ended")
    /\ UNCHANGED <<dir, uids, inflight, history, rollbacks, using>>

\* The process is killed, or its cleanup fails: nothing of the Job is removed.
Kill(i) ==
    /\ inst[i].at \in Steps \union {"cleanup"}
    /\ Goto(i, "killed")
    /\ UNCHANGED cluster

----------------------------------------------------------------------------
\* publish.py, in the Pod of the Job

Active == job # None /\ job.at \in {"pending", "import", "retire"}

Manifest(c, v) == dir[c][v] \in {"whole", "torn"}

CanStart == job # None /\ job.at = "pending" /\ job.inputs # None

Begin ==
    /\ CanStart
    /\ job' = [job EXCEPT !.at = "import",
                  !.inputs = IF @ = None THEN [rev |-> inst[job.owner].rev, keep |-> None] ELSE @]
    /\ UNCHANGED <<dir, uids, inflight, history, rollbacks, using, inst>>

\* publish(): a directory is renamed into place when its files are complete; it
\* cannot replace the rest of a removed one.
Import(c) ==
    /\ job # None /\ job.at = "import" /\ ~Manifest(c, job.inputs.rev)
    /\ IF dir[c][job.inputs.rev] = "absent"
       THEN dir' = [dir EXCEPT ![c][job.inputs.rev] = "whole"] /\ UNCHANGED job
       ELSE job' = [job EXCEPT !.at = "failed"] /\ UNCHANGED dir
    /\ UNCHANGED <<uids, inflight, history, rollbacks, using, inst>>

Imported ==
    /\ job # None /\ job.at = "import" /\ \A c \in Components : Manifest(c, job.inputs.rev)
    /\ job' = [job EXCEPT !.at = IF job.inputs.keep = None THEN "complete" ELSE "retire"]
    /\ UNCHANGED <<dir, uids, inflight, history, rollbacks, using, inst>>

Retirable(c, v) == Manifest(c, v) /\ v \notin job.inputs.keep \union {job.inputs.rev}

\* retire(): one rmtree; the order of its removals is that of the directory
Retire(c, v) ==
    /\ job # None /\ job.at = "retire" /\ Retirable(c, v)
    /\ dir' = [dir EXCEPT ![c][v] = "absent"]
    /\ UNCHANGED <<job, uids, inflight, history, rollbacks, using, inst>>

\* the Job ends within the removal
CutRetire(c, v) ==
    /\ Interruptible /\ job # None /\ job.at = "retire" /\ Retirable(c, v)
    /\ \E rest \in {"torn", "headless"} : dir' = [dir EXCEPT ![c][v] = rest]
    /\ job' = [job EXCEPT !.at = "failed"]
    /\ UNCHANGED <<uids, inflight, history, rollbacks, using, inst>>

Retired ==
    /\ job # None /\ job.at = "retire" /\ \A c \in Components, v \in Versions : ~Retirable(c, v)
    /\ job' = [job EXCEPT !.at = "complete"]
    /\ UNCHANGED <<dir, uids, inflight, history, rollbacks, using, inst>>

JobFails ==
    /\ Active /\ (job.at # "pending" \/ job.active = 0)
    /\ job' = [job EXCEPT !.at = "failed"]
    /\ UNCHANGED <<dir, uids, inflight, history, rollbacks, using, inst>>

----------------------------------------------------------------------------
\* The cluster

\* A create request whose sender is gone still commits, or never arrives.
LateCreate(i) ==
    /\ i \in inflight /\ inflight' = inflight \ {i}
    /\ \/ job = None /\ job' = NewJob(i) /\ uids' = uids + 1
       \/ UNCHANGED <<job, uids>>
    /\ UNCHANGED <<dir, history, rollbacks, using, inst>>

\* ttlSecondsAfterFinished
JobGone ==
    /\ job # None /\ ~Active /\ job.ttl = 0
    /\ job' = None
    /\ UNCHANGED <<dir, uids, inflight, history, rollbacks, using, inst>>

\* a rollback to a release of the history
Rollback ==
    /\ rollbacks < MaxRollbacks /\ rollbacks' = rollbacks + 1
    /\ \E k \in DOMAIN history :
          LET h == Append(history, history[k]) IN
             history' = SubSeq(h, IF Len(h) > HistoryMax THEN 2 ELSE 1, Len(h))
    /\ UNCHANGED <<dir, job, uids, inflight, using, inst>>

PodStart ==
    /\ Last(history) \notin using
    /\ using' = using \union {Last(history)}
    /\ UNCHANGED <<dir, job, uids, inflight, history, rollbacks, inst>>

PodEnd ==
    /\ \E v \in using : using' = using \ {v}
    /\ UNCHANGED <<dir, job, uids, inflight, history, rollbacks, inst>>

Less(n) == IF n > 0 THEN n - 1 ELSE 0

\* Mutant of KeptFor: a finished Job has no TTL.
KeptForEver == Seconds

\* ttlSecondsAfterFinished counts from the end of the Job
KeptFor == IF Active THEN Seconds ELSE Less(job.ttl)

\* A second passes.  The Job ends by its activeDeadlineSeconds.
Tick ==
    /\ job # None => ~(Active /\ job.active = 0)
    /\ \/ job # None /\ (job.active > 0 \/ (~Active /\ job.ttl > 0))
       \/ \E i \in Installers : inst[i].at \in Steps /\ inst[i].left > 0
    /\ job' = IF job = None THEN None
              ELSE [job EXCEPT !.active = IF Active THEN Less(@) ELSE 0, !.ttl = KeptFor]
    /\ inst' = [i \in Installers |-> IF inst[i].at \in Steps THEN [inst[i] EXCEPT !.left = Less(@)] ELSE inst[i]]
    /\ UNCHANGED <<dir, uids, inflight, history, rollbacks, using>>

Init ==
    /\ \E v \in Versions, left \in SUBSET Versions :   \* releases that were not yet collected
          /\ dir = [c \in Components |-> [w \in Versions |-> IF w \in left \union {v} THEN "whole" ELSE "absent"]]
          /\ history = <<v>>
    /\ job = None /\ uids = 0 /\ inflight = {} /\ rollbacks = 0 /\ using = {}
    /\ inst \in [Installers -> [at : {"idle"}, rev : Versions, left : {Seconds}, uid : {None},
                                keep : {None}, uncertain : {FALSE}]]

Next ==
    \/ \E i \in Installers :
          \/ Arrive(i) \/ Create(i) \/ LoseCreate(i) \/ ReadHistory(i) \/ ReadConsumers(i)
          \/ CreateInputs(i) \/ Wait(i) \/ CheckOwner(i) \/ Commit(i) \/ Abort(i) \/ Cleanup(i) \/ Kill(i) \/ LateCreate(i)
    \/ \E c \in Components : Import(c) \/ \E v \in Versions : Retire(c, v) \/ CutRetire(c, v)
    \/ Begin \/ Imported \/ Retired \/ JobFails \/ JobGone \/ Rollback \/ PodStart \/ PodEnd \/ Tick

\* The Job controller, the clock and an installer that is not killed make progress.
Fair == /\ WF_vars(Tick) /\ WF_vars(JobFails) /\ WF_vars(JobGone)
        /\ \A i \in Installers : WF_vars(Cleanup(i))

Spec == Init /\ [][Next]_vars /\ Fair

----------------------------------------------------------------------------
Referenced == ToSet(history) \union using

\* The files of every release that Helm may run or roll back to, and of every Pod that
\* still runs, are complete at the origin: the selection of one installation is never
\* collected by another one, and is never made of incomplete files.
SelectedIsPublished == \A v \in Referenced, c \in Components : dir[c][v] = "whole"

\* When an installer has ended, nothing writes to the origin for it any more, although
\* a request of its own may still create its Job.
EndedIsQuiet ==
    \A i \in Installers : inst[i].at = "ended" /\ job # None /\ job.owner = i => job.inputs = None

Free == job = None

\* The one name of release imports becomes free again, also when its installer was
\* killed or never learned that it owns the Job.
SlotIsFreed == []<>Free
=============================================================================
