------------------------- MODULE DeploymentMutation -------------------------
(***************************************************************************)
(* The lock on one deployment instance (cli/foretoken/kubernetes/           *)
(* mutation.py): an annotation of the InferenceDeployment names the         *)
(* operation that holds it, a locked local file tells whether that          *)
(* operation still has a process.  Every write is a kubectl subprocess that *)
(* carries the UID and the resourceVersion its caller has read, and the     *)
(* lock of the operation's file.                                            *)
(*                                                                          *)
(*   root      the InferenceDeployment in the API server; uid 0: absent     *)
(*   pc        where each hold() is                                         *)
(*   seen      the root as the operation has last read it                   *)
(*   pinned    DeploymentMutation.uid, 0 before the first read              *)
(*   receipt   the UID on which the operation was made the holder           *)
(*   child     a kubectl of the operation is running                        *)
(*   file      the file of the operation exists on its host                 *)
(*   wire      requests sent and not executed yet; awaited: by a live child *)
(*   reply     the answer that the operation's kubectl has got              *)
(*   did       which of its two writes the operation has begun              *)
(*   env       how many status writes and creations there have been         *)
(*                                                                          *)
(* One operation is one call of hold(), with its uuid; its body supersedes  *)
(* earlier submissions, deletes the instance, does both or neither, which   *)
(* is what the callers do with the root under the lock.                     *)
(***************************************************************************)
EXTENDS Integers, FiniteSets

CONSTANTS
    Ops,         \* the calls of hold()
    Host,        \* the machine each one runs on
    None,
    MaxUid,      \* bound: how often the instance is created
    MaxStatus    \* bound: status writes of the controller

VARIABLES root, pc, seen, pinned, receipt, child, file, wire, reply, did, env

vars == <<root, pc, seen, pinned, receipt, child, file, wire, reply, did, env>>

Absent == [uid |-> 0, rv |-> 0, holder |-> None, op |-> None, deleting |-> FALSE]

Sent == [acquiring |-> "acquire", recovering |-> "recover", releasing |-> "release",
         superseding |-> "supersede", deleting |-> "delete"]
Awaiting == DOMAIN Sent
Body == {"held", "supersede", "superseding", "delete", "deleting", "release", "releasing"}
Inside == {"wait", "acquire", "acquiring", "recover", "recovering"} \cup Body
PCs == {"start", "done", "failed", "crashed"} \cup Inside

\* Mutant of Inherited: kubectl is started without the lock of the file.
NotInherited(o) == FALSE

\* mutation_lock_fds: a running kubectl has the file of its operation locked.
Inherited(o) == child[o]

\* flock on the operation's file: by its command, by an inheriting kubectl, or by
\* the command that is recovering it.
Locked(o) == \/ pc[o] \in Inside
             \/ Inherited(o)
             \/ \E c \in Ops : pc[c] = "recovering" /\ seen[c].holder = o

Go(o, state) == pc' = [pc EXCEPT ![o] = state]

\* Start kubectl with the versions that were read, and wait for it.
Send(o, state) ==
    /\ Go(o, state)
    /\ wire' = wire \cup {[by |-> o, kind |-> Sent[state], uid |-> seen[o].uid,
                           rv |-> seen[o].rv, awaited |-> TRUE]}
    /\ child' = [child EXCEPT ![o] = TRUE]
    /\ reply' = [reply EXCEPT ![o] = "none"]
    /\ UNCHANGED <<root, seen, pinned, receipt, file, did, env>>

\* hold() fails; the file stays when a write may still make it the holder.
Fail(o, keep) ==
    /\ Go(o, "failed")
    /\ file' = [file EXCEPT ![o] = keep]
    /\ UNCHANGED <<root, seen, pinned, receipt, did, env>>

----------------------------------------------------------------------------
\* The API server.

Effect(r) ==
    LET next == [root EXCEPT !.rv = @ + 1]
    IN  CASE r.kind = "acquire"                 -> [next EXCEPT !.holder = r.by]
          [] r.kind \in {"recover", "release"}  -> [next EXCEPT !.holder = None]
          [] r.kind = "supersede"               -> [next EXCEPT !.op = r.by]
          [] r.kind = "delete"                  -> [next EXCEPT !.deleting = TRUE]

\* Mutant of Fits: supersede and delete name the object and not its version.
FitsAnyVersion(r) ==
    root.uid = r.uid /\ (r.kind \in {"supersede", "delete"} \/ root.rv = r.rv)

\* The preconditions of a write: the observed UID and resourceVersion.
Fits(r) == root.uid = r.uid /\ root.rv = r.rv

\* The server executes a request, in time or late.
Execute(r) ==
    /\ wire' = wire \ {r}
    /\ root' = IF Fits(r) THEN Effect(r) ELSE root
    /\ reply' = IF ~r.awaited THEN reply
                ELSE [reply EXCEPT ![r.by] = IF Fits(r) THEN "ok"
                                             ELSE IF root.uid = 0 THEN "error" ELSE "conflict"]
    /\ UNCHANGED <<pc, seen, pinned, receipt, child, file, did, env>>

\* A request is lost; its kubectl reports an error.
Lose(r) ==
    /\ wire' = wire \ {r}
    /\ reply' = IF r.awaited THEN [reply EXCEPT ![r.by] = "error"] ELSE reply
    /\ UNCHANGED <<root, pc, seen, pinned, receipt, child, file, did, env>>

\* The controller writes the status, and removes a deleted instance in the end.
WriteStatus ==
    /\ root.uid # 0 /\ env.statuses < MaxStatus
    /\ root' = [root EXCEPT !.rv = @ + 1]
    /\ env' = [env EXCEPT !.statuses = @ + 1]
    /\ UNCHANGED <<pc, seen, pinned, receipt, child, file, wire, reply, did>>

Remove ==
    /\ root.deleting
    /\ root' = [Absent EXCEPT !.rv = root.rv]
    /\ UNCHANGED <<pc, seen, pinned, receipt, child, file, wire, reply, did, env>>

\* A submission creates the instance again under the same name.
Recreate ==
    /\ root.uid = 0 /\ env.created < MaxUid
    /\ root' = [Absent EXCEPT !.uid = env.created + 1, !.rv = root.rv + 1]
    /\ env' = [env EXCEPT !.created = @ + 1]
    /\ UNCHANGED <<pc, seen, pinned, receipt, child, file, wire, reply, did>>

----------------------------------------------------------------------------
\* hold(): taking the lock.

Start(o) ==
    /\ pc[o] = "start"
    /\ Go(o, "wait")
    /\ file' = [file EXCEPT ![o] = TRUE]
    /\ UNCHANGED <<root, seen, pinned, receipt, child, wire, reply, did, env>>

\* _read refuses an instance that is absent, being deleted or another one.
Refused(o) == \/ root.uid = 0
              \/ root.deleting
              \/ (pinned[o] # 0 /\ pinned[o] # root.uid)

Read(o) ==
    /\ pc[o] = "wait"
    /\ \/ /\ Refused(o)
          /\ Fail(o, FALSE)
          /\ UNCHANGED <<child, wire, reply>>
       \/ /\ ~Refused(o)
          /\ seen' = [seen EXCEPT ![o] = root]
          /\ pinned' = [pinned EXCEPT ![o] = root.uid]
          /\ Go(o, IF root.holder = None THEN "acquire" ELSE "recover")
          /\ UNCHANGED <<root, receipt, child, file, wire, reply, did, env>>

\* The wait for another operation is over.
WaitEnds(o) ==
    /\ pc[o] = "wait"
    /\ Fail(o, FALSE)
    /\ UNCHANGED <<child, wire, reply>>

Acquire(o) == pc[o] = "acquire" /\ Send(o, "acquiring")

\* _recover_local: the holder's file is here and no process has it locked.
Recoverable(o) ==
    LET owner == seen[o].holder
    IN  Host[owner] = Host[o] /\ file[owner] /\ ~Locked(owner)

Recover(o) == pc[o] = "recover" /\ Recoverable(o) /\ Send(o, "recovering")

CannotRecover(o) ==
    /\ pc[o] = "recover" /\ ~Recoverable(o)
    /\ Go(o, "wait")
    /\ UNCHANGED <<root, seen, pinned, receipt, child, file, wire, reply, did, env>>

----------------------------------------------------------------------------
\* The body of hold(), and _release.

\* supersede() and instance.delete(): read, then write what was read.
BeginWrite(o, write) ==
    /\ pc[o] = "held" /\ write \notin did[o]
    /\ did' = [did EXCEPT ![o] = @ \cup {write}]
    /\ Go(o, write)
    /\ UNCHANGED <<root, seen, pinned, receipt, child, file, wire, reply, env>>

ReadForWrite(o, write, sending) ==
    /\ pc[o] = write
    /\ \/ Refused(o) /\ Go(o, "release") /\ seen' = seen
       \/ ~Refused(o) /\ Go(o, sending) /\ seen' = [seen EXCEPT ![o] = root]
    /\ IF Refused(o) THEN UNCHANGED <<child, wire, reply>>
       ELSE /\ wire' = wire \cup {[by |-> o, kind |-> write, uid |-> root.uid,
                                   rv |-> root.rv, awaited |-> TRUE]}
            /\ child' = [child EXCEPT ![o] = TRUE]
            /\ reply' = [reply EXCEPT ![o] = "none"]
    /\ UNCHANGED <<root, pinned, receipt, file, did, env>>

Finish(o) ==
    /\ pc[o] = "held"
    /\ Go(o, "release")
    /\ UNCHANGED <<root, seen, pinned, receipt, child, file, wire, reply, did, env>>

\* _release: nothing to do for a replaced instance, an error for another holder.
Gone(o) == root.uid # receipt[o]

Release(o) ==
    /\ pc[o] = "release"
    /\ \/ /\ Gone(o)
          /\ Go(o, "done")
          /\ file' = [file EXCEPT ![o] = FALSE]
          /\ UNCHANGED <<root, seen, pinned, receipt, child, wire, reply, did, env>>
       \/ /\ ~Gone(o) /\ root.holder # o
          /\ Fail(o, TRUE)
          /\ UNCHANGED <<child, wire, reply>>
       \/ /\ ~Gone(o) /\ root.holder = o
          /\ Go(o, "releasing")
          /\ seen' = [seen EXCEPT ![o] = root]
          /\ wire' = wire \cup {[by |-> o, kind |-> "release", uid |-> root.uid,
                                 rv |-> root.rv, awaited |-> TRUE]}
          /\ child' = [child EXCEPT ![o] = TRUE]
          /\ reply' = [reply EXCEPT ![o] = "none"]
          /\ UNCHANGED <<root, pinned, receipt, file, did, env>>

----------------------------------------------------------------------------
\* Answers, timeouts and crashes.

\* Mutant of Uncertain: the file of a failed acquisition is always removed.
NeverUncertain(o) == FALSE

\* An acquisition that did not conflict may still take effect.
Uncertain(o) == pc[o] = "acquiring"

\* The command continues with the answer of its kubectl.
Receive(o) ==
    /\ pc[o] \in Awaiting /\ reply[o] \in {"ok", "conflict"}
    /\ child' = [child EXCEPT ![o] = FALSE]
    /\ reply' = [reply EXCEPT ![o] = "none"]
    /\ LET ok == reply[o] = "ok"
       IN  /\ Go(o, CASE pc[o] = "acquiring"   -> IF ok THEN "held" ELSE "wait"
                      [] pc[o] = "recovering"  -> "wait"
                      [] pc[o] = "superseding" -> IF ok THEN "held" ELSE "supersede"
                      [] pc[o] = "deleting"    -> IF ok THEN "release" ELSE "delete"
                      [] pc[o] = "releasing"   -> IF ok THEN "done" ELSE "release")
           /\ receipt' = IF ok /\ pc[o] = "acquiring"
                         THEN [receipt EXCEPT ![o] = seen[o].uid] ELSE receipt
           /\ file' = [f \in Ops |->
                 file[f] /\ ~(ok /\ \/ pc[o] = "releasing" /\ f = o
                                    \/ pc[o] = "recovering" /\ f = seen[o].holder)]
    /\ UNCHANGED <<root, seen, pinned, wire, did, env>>

\* kubectl is killed at its timeout, or has failed: the request may be executed
\* later.  A failed body is still released.
GiveUp(o) ==
    /\ pc[o] \in Awaiting /\ reply[o] \in {"none", "error"}
    /\ child' = [child EXCEPT ![o] = FALSE]
    /\ reply' = [reply EXCEPT ![o] = "none"]
    /\ wire' = {[r EXCEPT !.awaited = @ /\ r.by # o] : r \in wire}
    /\ \/ /\ pc[o] \in {"superseding", "deleting"}
          /\ Go(o, "release")
          /\ UNCHANGED <<root, seen, pinned, receipt, file, did, env>>
       \/ /\ pc[o] \notin {"superseding", "deleting"}
          /\ Fail(o, Uncertain(o) \/ pc[o] = "releasing")

\* The command is killed; its kubectl goes on.
Crash(o) ==
    /\ pc[o] \in Inside
    /\ Go(o, "crashed")
    /\ UNCHANGED <<root, seen, pinned, receipt, child, file, wire, reply, did, env>>

ChildExits(o) ==
    /\ pc[o] = "crashed" /\ child[o] /\ reply[o] # "none"
    /\ child' = [child EXCEPT ![o] = FALSE]
    /\ UNCHANGED <<root, pc, seen, pinned, receipt, file, wire, reply, did, env>>

----------------------------------------------------------------------------
Init ==
    /\ root = [Absent EXCEPT !.uid = 1, !.rv = 1]
    /\ pc = [o \in Ops |-> "start"]
    /\ seen = [o \in Ops |-> Absent]
    /\ pinned = [o \in Ops |-> 0]
    /\ receipt = [o \in Ops |-> 0]
    /\ child = [o \in Ops |-> FALSE]
    /\ file = [o \in Ops |-> FALSE]
    /\ wire = {}
    /\ reply = [o \in Ops |-> "none"]
    /\ did = [o \in Ops |-> {}]
    /\ env = [statuses |-> 0, created |-> 1]

Command(o) ==
    \/ Start(o) \/ Read(o) \/ Acquire(o) \/ Recover(o) \/ CannotRecover(o)
    \/ ReadForWrite(o, "supersede", "superseding") \/ ReadForWrite(o, "delete", "deleting")
    \/ Release(o) \/ Receive(o)

Choose(o) == Finish(o) \/ BeginWrite(o, "supersede") \/ BeginWrite(o, "delete")

Next ==
    \/ \E o \in Ops : \/ Command(o) \/ Choose(o) \/ WaitEnds(o) \/ GiveUp(o)
                      \/ Crash(o) \/ ChildExits(o)
    \/ \E r \in wire : Execute(r) \/ Lose(r)
    \/ WriteStatus \/ Remove \/ Recreate

Spec == Init /\ [][Next]_vars

\* a command that got an error gives up; the API server answers, or not
GiveUpOnError(o) == reply[o] = "error" /\ GiveUp(o)
Serve == \E r \in wire : Execute(r) \/ Lose(r)

\* A process that is not killed runs on, a body ends, the server answers or the
\* connection breaks.  Nothing obliges a wait to end, nor a command to crash.
Fairness ==
    /\ \A o \in Ops : /\ WF_vars(Command(o))
                      /\ WF_vars(Choose(o))
                      /\ WF_vars(ChildExits(o))
                      /\ WF_vars(GiveUpOnError(o))
    /\ WF_vars(Serve)

LiveSpec == Spec /\ Fairness

----------------------------------------------------------------------------
Root == [uid : Nat, rv : Nat, holder : Ops \cup {None}, op : Ops \cup {None},
         deleting : BOOLEAN]
Requests == [by : Ops, kind : {"acquire", "recover", "release", "supersede", "delete"},
             uid : Nat, rv : Nat, awaited : BOOLEAN]

\* The annotations, versions, processes and requests are of the kinds the code has.
TypeOK ==
    /\ root \in Root /\ seen \in [Ops -> Root]
    /\ pc \in [Ops -> PCs]
    /\ pinned \in [Ops -> Nat] /\ receipt \in [Ops -> Nat]
    /\ child \in [Ops -> BOOLEAN] /\ file \in [Ops -> BOOLEAN]
    /\ wire \subseteq Requests
    /\ reply \in [Ops -> {"none", "ok", "conflict", "error"}]
    /\ did \in [Ops -> SUBSET {"supersede", "delete"}]
    /\ env \in [statuses : Nat, created : Nat]

\* An operation is at work in the body up to the release, or when it was killed
\* there and its kubectl has a request that is not executed yet.
Working(o) ==
    \/ pc[o] \in Body /\ ~(pc[o] = "releasing" /\ reply[o] = "ok")
    \/ pc[o] = "crashed" /\ \E r \in wire : r.by = o /\ r.awaited

AtWork == [u \in 1 .. MaxUid |-> {o \in Ops : receipt[o] = u /\ Working(o)}]

Lock == INSTANCE InstanceLock WITH Uids <- 1 .. MaxUid, active <- AtWork

\* hold() implements the lock it promises: the processes of two operations are
\* never at work on one instance, through crashes, orphans and late writes.
LockHolds == Lock!Spec

\* "Deployment operation ownership changed" is never reported: while the body
\* of hold() runs, no recovery takes the annotation from it.
OwnershipKept ==
    \A o \in Ops : pc[o] \in Body \ {"releasing"} /\ root.uid = receipt[o] => root.holder = o

\* A submission is superseded, and the instance deleted, only on behalf of the
\* operation that holds the instance when the server executes the write.
HolderWrites ==
    \A r \in wire : r \notin wire' /\ r.kind \in {"supersede", "delete"} /\ root' # root
       => root.holder = r.by

\* Every write under the lock, also one that is executed late, is the holder's.
WritesByHolder == [][HolderWrites]_vars

Orphaned(o) == root.holder = o /\ ~Locked(o)
Recovered(o) == root.holder # o \/ ~\E c \in Ops : Host[c] = Host[o] /\ pc[c] \in Inside

\* A holder that has no process left does not keep the instance locked while a
\* command on its machine waits for it.
OrphansAreRecovered == \A o \in Ops : Orphaned(o) ~> Recovered(o)
=============================================================================
