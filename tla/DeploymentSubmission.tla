------------------------ MODULE DeploymentSubmission ------------------------
(***************************************************************************)
(* Commands that submit to one deployment instance: deploy, stop, delete    *)
(* and a benchmark's temporary deployment (cli/foretoken/deployment/        *)
(* submission.py, lifecycle.py, instances.py and commands.py), against each *)
(* other and against users who edit the service with other tools.  hold()   *)
(* is the lock that DeploymentMutation implements.                          *)
(*                                                                          *)
(*   inst     the InferenceDeployment; op: the claim, by: who created it,   *)
(*            update: spec.updateID, serving: services are declared         *)
(*   svc      its ModelService, cache its RuntimeCache; label: the UID of   *)
(*            the instance it is a member of, gen: metadata.generation      *)
(*   holder   the command in hold()                                         *)
(*   cmd      the state of each command; known: the intent version that the *)
(*            service must still have, from the snapshot, then from the     *)
(*            last write; scope: the claimed UID; created: receipts (UIDs)  *)
(*   uids     the UIDs given out                                            *)
(*   claims   history: the commands in the order of their claims            *)
(*                                                                          *)
(* A write carries the resourceVersion that was read, and its reply may be  *)
(* lost.  Writes that bump only the version (status) make it retry.         *)
(***************************************************************************)
EXTENDS Integers, Sequences, SequencesExt

CONSTANTS
    Cmds,         \* the commands
    Kind,         \* what each one does
    Suspended,    \* the deploy commands whose service is suspended
    Retaining,    \* the benchmarks that keep their storage
    None,
    MaxEdits,     \* bound: edits with other tools
    MaxStatus     \* bound: status writes

VARIABLES inst, svc, cache, holder, cmd, uids, env, claims

vars == <<inst, svc, cache, holder, cmd, uids, env, claims>>

NoInst == [uid |-> 0, op |-> None, update |-> None, serving |-> FALSE,
           deleting |-> FALSE, by |-> None]
NoSvc == [uid |-> 0, gen |-> 0, rv |-> 0, op |-> None, conf |-> None,
          suspend |-> FALSE, label |-> 0, by |-> None]
NoCache == [uid |-> 0, op |-> None, conf |-> None, label |-> 0, by |-> None]

\* _intent_version: what identifies the intent, whatever the status.
Intent(s) == <<s.uid, s.gen, s.op>>

Nothing == [root |-> 0, svc |-> 0, cache |-> 0]
NewCmd == [pc |-> "snap", uid |-> 0, scope |-> 0, known |-> Intent(NoSvc), seen |-> NoSvc,
           created |-> Nothing]

At(c, pc) == cmd[c].pc = pc
Step(c, pc) == cmd' = [cmd EXCEPT ![c].pc = pc]
Temporary(c) == Kind[c] = "bench"

Suspends(c) == Kind[c] = "stop" \/ c \in Suspended

\* An error ends the command; a benchmark then removes what it has created.
CleanupPCs == {"cleanup", "rmService", "removeService", "rmCache", "removeCache",
               "rmDone", "retain", "retire", "retired"}
Failed(c) == IF Temporary(c) /\ cmd[c].pc \notin CleanupPCs THEN "cleanup" ELSE "failed"
Unlocked(c) == IF holder = c THEN None ELSE holder
Fail(c) ==
    /\ Step(c, Failed(c))
    /\ holder' = Unlocked(c)
    /\ UNCHANGED <<inst, svc, cache, uids, env, claims>>

\* _validate_member: membership and unchanged intent.
MemberOK(c) == /\ svc.uid # 0 => svc.label = cmd[c].uid
               /\ Intent(svc) = cmd[c].known

\* _owns_scope, owns_instance
Owns(c) == /\ cmd[c].scope # 0 /\ inst.uid = cmd[c].scope
           /\ ~inst.deleting /\ inst.op = c

\* check(): the claim is still this command's, and so is the service's intent.
Check(c) == Owns(c) /\ MemberOK(c)

----------------------------------------------------------------------------
\* __init__ and _prepare_instance

\* The intent of the service before anything is written; a temporary deployment
\* needs a new service.  stop and delete are given an instance that exists.
Snapshot(c) ==
    /\ At(c, "snap")
    /\ IF \/ Temporary(c) /\ svc.uid # 0
          \/ Kind[c] \in {"stop", "delete"} /\ inst.uid = 0
       THEN Step(c, "failed")
       ELSE cmd' = [cmd EXCEPT ![c].pc = IF Kind[c] = "delete" THEN "retire" ELSE "ensure",
                               ![c].known = Intent(svc),
                               ![c].uid = IF Kind[c] \in {"stop", "delete"} THEN inst.uid ELSE 0]
    /\ UNCHANGED <<inst, svc, cache, holder, uids, env, claims>>

\* instance.ensure(): create the record once, or take the one that is there.
Ensure(c) ==
    /\ At(c, "ensure")
    /\ \/ /\ inst.uid # 0 /\ ~inst.deleting /\ cmd[c].uid \in {0, inst.uid}
          /\ cmd' = [cmd EXCEPT ![c].pc = "begin", ![c].uid = inst.uid]
          /\ UNCHANGED <<inst, holder, uids>>
       \/ /\ inst.uid = 0 /\ cmd[c].uid = 0
          /\ inst' = [NoInst EXCEPT !.uid = uids + 1, !.serving = TRUE, !.by = c]
          /\ uids' = uids + 1
          /\ \E lost \in BOOLEAN :
                cmd' = [cmd EXCEPT ![c] =
                    IF lost THEN [@ EXCEPT !.pc = Failed(c)]
                    ELSE [@ EXCEPT !.pc = "begin", !.uid = uids + 1,
                                   !.created.root = uids + 1]]
          /\ UNCHANGED holder
       \/ /\ \/ inst.uid # 0 /\ (inst.deleting \/ cmd[c].uid \notin {0, inst.uid})
             \/ inst.uid = 0 /\ cmd[c].uid # 0
          /\ Step(c, Failed(c))
          /\ UNCHANGED <<inst, holder, uids>>
    /\ UNCHANGED <<svc, cache, env, claims>>

\* Mutant of Take: the command does not wait for the holder.
TakeAtOnce(c, from, to) ==
    /\ At(c, from)
    /\ IF inst.uid = cmd[c].uid /\ ~inst.deleting
       THEN holder' = c /\ Step(c, to)
       ELSE holder' = holder /\ Step(c, Failed(c))
    /\ UNCHANGED <<inst, svc, cache, uids, env, claims>>

\* mutation.hold() on the pinned instance.
Take(c, from, to) ==
    /\ At(c, from)
    /\ \/ /\ inst.uid = cmd[c].uid /\ ~inst.deleting
          /\ holder = None /\ holder' = c
          /\ Step(c, to)
       \/ /\ inst.uid # cmd[c].uid \/ inst.deleting
          /\ holder' = holder
          /\ Step(c, Failed(c))
    /\ UNCHANGED <<inst, svc, cache, uids, env, claims>>

----------------------------------------------------------------------------
\* begin(): claim the instance under its lock

Members(c) ==
    /\ At(c, "members")
    /\ IF MemberOK(c) THEN Step(c, "claim") /\ UNCHANGED <<inst, svc, cache, holder, uids, env, claims>>
                      ELSE Fail(c)

\* storage_only_instance: retained by an earlier benchmark, no service declared.
StorageOnly == inst.update # None /\ ~inst.serving

Claim(c) ==
    /\ At(c, "claim")
    /\ IF Temporary(c) /\ cmd[c].created.root = 0 /\ ~StorageOnly
       THEN Fail(c)
       ELSE /\ inst' = [inst EXCEPT !.op = c, !.serving = @ \/ Temporary(c)]
            /\ claims' = Append(claims, c)
            /\ \E lost \in BOOLEAN :
                  IF lost THEN Step(c, Failed(c)) /\ holder' = None
                  ELSE /\ cmd' = [cmd EXCEPT ![c].pc = "claimed", ![c].scope = inst.uid]
                       /\ UNCHANGED holder
            /\ UNCHANGED <<svc, cache, uids, env>>

\* The check that ends _begin, and the release of the lock; stop submits at once,
\* and a deployment suspends its service before anything is built.
Claimed(c) ==
    /\ At(c, "claimed")
    /\ IF ~Check(c) THEN Fail(c)
       ELSE /\ IF Kind[c] = "stop" THEN Step(c, "cache") /\ UNCHANGED holder
               ELSE Step(c, IF Suspends(c) THEN "stopping" ELSE "prepare") /\ holder' = None
            /\ UNCHANGED <<inst, svc, cache, uids, env, claims>>

\* prepare_controller(): request the controller under the lock, wait outside it.
Request(c) ==
    /\ At(c, "request")
    /\ IF ~Check(c) THEN Fail(c)
       ELSE /\ inst' = [inst EXCEPT !.update = c, !.serving = TRUE]
            /\ holder' = None
            /\ Step(c, "ready")
            /\ UNCHANGED <<svc, cache, uids, env, claims>>

Ready(c) ==
    /\ At(c, "ready")
    /\ IF ~(Check(c) /\ inst.update = c) THEN Fail(c)
       ELSE Step(c, "apply") /\ UNCHANGED <<inst, svc, cache, holder, uids, env, claims>>

----------------------------------------------------------------------------
\* _submit: dependencies, then services

\* Services of a suspending deployment are committed already, and a stop has none
\* to patch when there was none.
ServiceIsDue(c) == IF Kind[c] = "stop" THEN svc.uid # 0 ELSE ~Suspends(c)

\* _apply_dependency: create with a receipt, claim and apply what exists; stop
\* claims only, a temporary deployment uses retained storage that matches.
Dependency(c) ==
    LET unlocked == IF ServiceIsDue(c) THEN c ELSE None
        next     == IF ServiceIsDue(c) THEN "read" ELSE "wait"
    IN
    /\ At(c, "cache")
    /\ \/ /\ ~Check(c) \/ (cache.uid # 0 /\ cache.label # cmd[c].uid)
          /\ Fail(c)
       \/ /\ Check(c) /\ cache.uid = 0 /\ Kind[c] # "stop"
          /\ cache' = [uid |-> uids + 1, op |-> c, conf |-> c, label |-> cmd[c].uid, by |-> c]
          /\ uids' = uids + 1
          /\ \/ Step(c, Failed(c)) /\ holder' = None
             \/ /\ cmd' = [cmd EXCEPT ![c].pc = next, ![c].created.cache = uids + 1]
                /\ holder' = unlocked
          /\ UNCHANGED <<inst, svc, env, claims>>
       \/ /\ Check(c) /\ (cache.uid # 0 => cache.label = cmd[c].uid)
          /\ cache.uid = 0 => Kind[c] = "stop"
          /\ cache' = IF cache.uid = 0 \/ (Temporary(c) /\ cmd[c].created.cache # cache.uid) THEN cache
                      ELSE [cache EXCEPT !.op = c, !.conf = IF Kind[c] = "stop" THEN @ ELSE c]
          /\ Step(c, next) /\ holder' = unlocked
          /\ UNCHANGED <<inst, svc, uids, env, claims>>

\* _current_services: validate, and remember the version to write against.
ReadService(c, from, to) ==
    /\ At(c, from)
    /\ IF ~Check(c) THEN Fail(c)
       ELSE /\ cmd' = [cmd EXCEPT ![c].pc = to, ![c].seen = svc]
            /\ UNCHANGED <<inst, svc, cache, holder, uids, env, claims>>

\* The reply of a write is the precondition of the next one.
Wrote(c, s, pc) ==
    [cmd[c] EXCEPT !.pc = pc, !.known = Intent(s),
                   !.created.svc = IF cmd[c].seen.uid = 0 THEN s.uid ELSE @]

Bumped(s) == [s EXCEPT !.rv = @ + 1,
                       !.gen = IF s.conf # svc.conf \/ s.suspend # svc.suspend THEN @ + 1 ELSE @]

\* One write to the service against the version that was read: a lost reply ends
\* the command, as does a service that exists when it is to be created; another
\* conflict reads again, and fails there on a changed intent.
WriteService(c, s, next, again) ==
    IF svc.rv # cmd[c].seen.rv \/ svc.uid # cmd[c].seen.uid
    THEN IF cmd[c].seen.uid = 0 THEN Fail(c)
         ELSE Step(c, again) /\ UNCHANGED <<inst, svc, cache, holder, uids, env, claims>>
    ELSE /\ svc' = s
         /\ uids' = IF svc.uid = 0 THEN uids + 1 ELSE uids
         /\ \E lost \in BOOLEAN :
               IF lost THEN Step(c, Failed(c)) /\ holder' = None
               ELSE /\ cmd' = [cmd EXCEPT ![c] = Wrote(c, s, next)]
                    /\ holder' = IF next \in {"wait", "prepare"} THEN None ELSE holder
         /\ UNCHANGED <<inst, cache, env, claims>>

\* Server-side apply of the configuration.  It creates the service, and leaves
\* the suspension of an existing one alone unless it suspends.
Configure(c) ==
    /\ At(c, "configure")
    /\ LET created == [NoSvc EXCEPT !.uid = uids + 1, !.gen = 1, !.rv = 1, !.conf = c,
                                    !.suspend = Suspends(c), !.label = cmd[c].uid, !.by = c]
       IN  WriteService(c, IF svc.uid = 0 THEN created
                           ELSE Bumped([svc EXCEPT !.conf = c, !.suspend = @ \/ Suspends(c)]),
                        IF Suspends(c) THEN "prepare" ELSE "readPatch", "read")

\* The merge patch of spec.suspend, with the operation annotation.
Patch(c) ==
    /\ At(c, "patch")
    /\ WriteService(c, Bumped([svc EXCEPT !.suspend = Suspends(c), !.op = c]),
                    IF Kind[c] = "deploy" /\ Suspends(c) THEN "readConfig" ELSE "wait", "readPatch")

\* A stop only patches; a suspension precedes the new configuration of an existing
\* service, a resumption follows it.
Submit(c) ==
    \/ ReadService(c, "read", IF Suspends(c) /\ svc.uid # 0 THEN "patch" ELSE "configure")
    \/ ReadService(c, "readPatch", "patch")
    \/ ReadService(c, "readConfig", "configure")
    \/ Configure(c)
    \/ Patch(c)

\* The wait for the services ends with a last check.
Done(c) ==
    /\ At(c, "wait")
    /\ IF ~Check(c) THEN Fail(c)
       ELSE /\ Step(c, IF Temporary(c) THEN "cleanup" ELSE "done")
            /\ UNCHANGED <<inst, svc, cache, holder, uids, env, claims>>

----------------------------------------------------------------------------
\* cleanup_temporary, delete

\* The next object to remove; retained storage keeps the cache and the instance.
Removal(c, due) ==
    CASE "service" \in due /\ cmd[c].created.svc # 0 -> "rmService"
      [] cmd[c].created.cache # 0 /\ c \notin Retaining /\ "cache" \in due -> "rmCache"
      [] OTHER -> "rmDone"

Cleanup(c) ==
    /\ At(c, "cleanup")
    /\ Step(c, IF cmd[c].created = Nothing \/ ~Owns(c) THEN "failed"
               ELSE IF cmd[c].created.root # 0 /\ c \notin Retaining THEN "retire"
               ELSE Removal(c, {"service", "cache"}))
    /\ UNCHANGED <<inst, svc, cache, holder, uids, env, claims>>

\* owns_created, for a service: created here and its intent not changed since.
OwnsService(c) == svc.uid = cmd[c].created.svc /\ Intent(svc) = cmd[c].known

\* _remove_created: the service first, then the cache, each under the lock.
RemoveService(c) ==
    /\ At(c, "removeService")
    /\ IF ~Owns(c) \/ (svc.uid # 0 /\ ~OwnsService(c)) THEN Fail(c)
       ELSE /\ svc' = NoSvc
            /\ holder' = None
            /\ Step(c, Removal(c, {"cache"}))
            /\ UNCHANGED <<inst, cache, uids, env, claims>>

RemoveCache(c) ==
    /\ At(c, "removeCache")
    /\ IF ~Owns(c) \/ (cache.uid # 0 /\ ~(cache.uid = cmd[c].created.cache /\ cache.op = c)) THEN Fail(c)
       ELSE /\ cache' = NoCache
            /\ holder' = None
            /\ Step(c, "rmDone")
            /\ UNCHANGED <<inst, svc, uids, env, claims>>

\* The instance stays for its storage, without declared services.
Retain(c) ==
    /\ At(c, "retain")
    /\ inst' = IF Owns(c) THEN [inst EXCEPT !.serving = FALSE] ELSE inst
    /\ holder' = None
    /\ Step(c, "done")
    /\ UNCHANGED <<svc, cache, uids, env, claims>>

\* _delete_instance, under the lock: delete supersedes, a benchmark must own it.
Retirable(c) == Temporary(c) => Owns(c)

Retire(c) ==
    /\ At(c, "retired")
    /\ IF ~Retirable(c) THEN Fail(c)
       ELSE /\ inst' = [inst EXCEPT !.deleting = TRUE, !.op = IF Temporary(c) THEN @ ELSE c]
            /\ claims' = IF Temporary(c) THEN claims ELSE Append(claims, c)
            /\ holder' = None
            /\ Step(c, "done")
            /\ UNCHANGED <<svc, cache, uids, env>>

----------------------------------------------------------------------------
\* The deployment manager removes the members and then the deleted instance.
RemoveInstance ==
    /\ inst.deleting /\ holder = None
    /\ inst' = NoInst /\ svc' = NoSvc /\ cache' = NoCache
    /\ UNCHANGED <<holder, cmd, uids, env, claims>>

\* Someone changes the service with another tool; the controller its status.
Edit ==
    /\ svc.uid # 0 /\ env.edits < MaxEdits
    /\ svc' = [svc EXCEPT !.conf = None, !.gen = @ + 1, !.rv = @ + 1]
    /\ env' = [env EXCEPT !.edits = @ + 1]
    /\ UNCHANGED <<inst, cache, holder, cmd, uids, claims>>

WriteStatus ==
    /\ svc.uid # 0 /\ env.statuses < MaxStatus
    /\ svc' = [svc EXCEPT !.rv = @ + 1]
    /\ env' = [env EXCEPT !.statuses = @ + 1]
    /\ UNCHANGED <<inst, cache, holder, cmd, uids, claims>>

\* A timeout or an interruption.  A killed command has no cleanup; its lock is
\* recovered once its processes are gone.
GiveUp(c) == cmd[c].pc \notin {"done", "failed", "crashed"} /\ Fail(c)

Crash(c) ==
    /\ cmd[c].pc \notin {"snap", "done", "failed", "crashed"}
    /\ Step(c, "crashed")
    /\ UNCHANGED <<inst, svc, cache, holder, uids, env, claims>>

Recover ==
    /\ holder # None /\ cmd[holder].pc = "crashed"
    /\ holder' = None
    /\ UNCHANGED <<inst, svc, cache, cmd, uids, env, claims>>

Locking(c) ==
    \/ Take(c, "begin", "members")
    \/ Take(c, "prepare", "request")
    \/ Take(c, "stopping", "read")
    \/ Take(c, "apply", "cache")
    \/ Take(c, "rmService", "removeService")
    \/ Take(c, "rmCache", "removeCache")
    \/ Take(c, "rmDone", "retain")
    \/ Take(c, "retire", "retired")

Run(c) ==
    \/ Snapshot(c) \/ Ensure(c) \/ Locking(c)
    \/ Members(c) \/ Claim(c) \/ Claimed(c) \/ Request(c) \/ Ready(c)
    \/ Dependency(c) \/ Submit(c) \/ Done(c)
    \/ Cleanup(c) \/ RemoveService(c) \/ RemoveCache(c) \/ Retain(c) \/ Retire(c)

Init ==
    /\ inst = NoInst /\ svc = NoSvc /\ cache = NoCache
    /\ holder = None
    /\ cmd = [c \in Cmds |-> NewCmd]
    /\ uids = 0
    /\ env = [edits |-> 0, statuses |-> 0]
    /\ claims = <<>>

Next ==
    \/ \E c \in Cmds : Run(c) \/ GiveUp(c) \/ Crash(c)
    \/ RemoveInstance \/ Edit \/ WriteStatus \/ Recover

Spec == Init /\ [][Next]_vars

----------------------------------------------------------------------------
\* The commands whose step changed something of the deployment.
Writer(c) == cmd'[c] # cmd[c]

\* A command changes the service only while no later command has claimed the
\* instance, and only over the intent it has last read or written itself: a
\* deployment that was slow to build never undoes a newer one, nor an edit.
NoNewerIntentIsLost ==
    \A c \in Cmds :
       Writer(c) /\ svc' # svc /\ svc'.uid # 0 =>
           Last(claims) = c /\ inst.op = c /\ Intent(svc) = cmd[c].known

\* After stop has succeeded the service stays stopped until a command that
\* claimed the instance later resumes it.
StopHolds ==
    \A c \in Cmds :
        Kind[c] = "stop" /\ At(c, "done") /\ claims # <<>> /\ Last(claims) = c /\ svc.uid # 0
            => svc.suspend

\* A deployment that reports success has left its own configuration in place.
SuccessIsDeployed ==
    \A c \in Cmds :
       Kind[c] = "deploy" /\ cmd'[c].pc = "done" /\ ~At(c, "done") =>
           svc.conf = c /\ svc.suspend = Suspends(c) /\ Last(claims) = c

\* A benchmark removes only what it has created and nobody has taken over since.
CleanupIsOwn ==
    \A c \in Cmds :
       Temporary(c) /\ Writer(c) =>
           /\ svc'.uid # svc.uid /\ svc.uid # 0 => svc.by = c /\ svc.conf = c
           /\ cache'.uid # cache.uid /\ cache.uid # 0 => cache.by = c
           /\ inst'.deleting # inst.deleting => inst.by = c /\ Last(claims) = c
=============================================================================
