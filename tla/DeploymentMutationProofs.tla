---------------------- MODULE DeploymentMutationProofs ----------------------
(***************************************************************************)
(* hold() implements the lock it promises, for any number of operations,    *)
(* machines, instances and status writes: every step keeps the invariant of *)
(* DeploymentMutationStepProofs and is a step of InstanceLock.              *)
(***************************************************************************)
EXTENDS DeploymentMutationStepProofs

\* The controller and the submissions write the root under another version.
LEMMA RootStep ==
  ASSUME Constants, TypeOK, Inv, WriteStatus \/ Remove \/ Recreate
  PROVE  Inv' /\ [Lock!Next]_AtWork
<1>1. /\ wire \subseteq Requests /\ seen \in [Ops -> Root] /\ root \in Root
      /\ receipt \in [Ops -> Nat] /\ env \in [statuses : Nat, created : Nat]
      /\ UNCHANGED <<pc, seen, pinned, receipt, child, wire, reply>>
  BY DEF TypeOK, WriteStatus, Remove, Recreate
<1>2. /\ root'.uid \in Nat /\ root'.rv \in Nat /\ env'.created \in Nat
      /\ env.created <= env'.created /\ env'.created <= MaxUid
      /\ root'.uid <= env'.created /\ root.rv <= root'.rv
      /\ \/ root'.uid = root.uid /\ root'.holder = root.holder /\ root'.rv = root.rv + 1
         \/ root'.uid = 0 /\ root'.holder = None
         \/ root'.uid = env.created + 1 /\ root'.holder = None /\ root'.rv = root.rv + 1
  <2>1. root.uid <= env.created /\ env.created <= MaxUid /\ MaxUid \in Nat
    BY DEF Inv, Known, Constants
  <2>2. CASE WriteStatus
    BY <1>1, <2>1, <2>2 DEF WriteStatus, Root
  <2>3. CASE Remove
    BY <1>1, <2>1, <2>3 DEF Remove, Absent, Root
  <2>4. CASE Recreate
    BY <1>1, <2>1, <2>4 DEF Recreate, Absent, Root
  <2>. QED BY <2>2, <2>3, <2>4
<1>3. \A p \in Ops : (Working(p)' <=> Working(p)) /\ (Acquired(p)' <=> Acquired(p))
  BY <1>1 DEF Working, Acquired
<1>4. \A p \in Ops, u \in 1 .. MaxUid : Claims(p, u)' <=> Claims(p, u)
  BY <1>1, <1>3 DEF Claims
<1>5. Known' /\ One' /\ Started'
  BY <1>1, <1>2 DEF Inv, Known, One, Started, TypeOK, Root
<1>6. \A p \in Ops : Reading(p)' /\ Phase(p)'
  BY <1>1, <1>2 DEF Inv, Reading, Phase, Ended, Root
<1>7. ASSUME NEW r \in wire PROVE Sending(r)'
  <2>1. Sending(r) /\ r \in Requests
    BY <1>1 DEF Inv
  <2>2. ~Fits(r)' /\ r.rv <= root'.rv /\ r.uid <= env'.created
    BY <1>1, <1>2, <2>1 DEF Sending, Fits, Requests, Root
  <2>. QED BY <1>1, <2>1, <2>2 DEF Sending, Dead, Ended
<1>8. Exclusive'
  BY <1>4 DEF Inv, Exclusive
<1>9. Holds'
  <2>1. \A p \in Ops, u \in Nat : Claims(p, u)' => Claims(p, u) /\ u <= env.created
    BY <1>1, <1>3 DEF Claims, Inv, Known, Root
  <2>. QED BY <1>1, <1>2, <2>1 DEF Inv, Holds, Root
<1>10. AtWork' = AtWork
  BY <1>1, <1>3 DEF AtWork
<1>. QED BY <1>1, <1>5, <1>6, <1>7, <1>8, <1>9, <1>10 DEF Inv

----------------------------------------------------------------------------
\* What the writes make of a root.
LEMMA RootFields ==
  ASSUME NEW t \in Root
  PROVE  /\ t.uid \in Nat /\ t.rv \in Nat
         /\ [t EXCEPT !.rv = @ + 1] \in Root /\ [t EXCEPT !.deleting = TRUE] \in Root
         /\ \A h \in Ops \cup {None} :
               [t EXCEPT !.holder = h] \in Root /\ [t EXCEPT !.op = h] \in Root
         /\ [Absent EXCEPT !.rv = t.rv] \in Root
         /\ \A u \in Nat : [Absent EXCEPT !.uid = u, !.rv = t.rv + 1] \in Root
<1>1. t.uid \in Nat /\ t.rv \in Nat /\ [t EXCEPT !.rv = @ + 1] \in Root
  BY DEF Root
<1>2. [t EXCEPT !.deleting = TRUE] \in Root
  BY DEF Root
<1>3. \A h \in Ops \cup {None} : [t EXCEPT !.holder = h] \in Root
  BY DEF Root
<1>4. \A h \in Ops \cup {None} : [t EXCEPT !.op = h] \in Root
  BY DEF Root
<1>5. [Absent EXCEPT !.rv = t.rv] \in Root
  BY <1>1 DEF Root, Absent
<1>6. \A u \in Nat : [Absent EXCEPT !.uid = u, !.rv = t.rv + 1] \in Root
  BY <1>1 DEF Root, Absent
<1>. QED BY <1>1, <1>2, <1>3, <1>4, <1>5, <1>6

\* The steps keep the types.
LEMMA TypeStep == ASSUME TypeOK, [Next]_vars PROVE TypeOK'
<1>1. /\ root.uid \in Nat /\ root.rv \in Nat
      /\ \A o \in Ops : seen[o].uid \in Nat /\ seen[o].rv \in Nat
  BY RootFields DEF TypeOK
<1>2. /\ {"wait", "acquire", "recover", "held", "supersede", "delete", "release", "done",
           "failed", "crashed"} \cup Awaiting \subseteq PCs
      /\ Awaiting \subseteq PCs
  BY States DEF PCs, Inside, Body
<1>3. ASSUME NEW o \in Ops, NEW s \in Awaiting, NEW u \in Nat, NEW v \in Nat,
             NEW k \in {"acquire", "recover", "release", "supersede", "delete"}, Go(o, s),
             wire' = wire \cup {[by |-> o, kind |-> k, uid |-> u, rv |-> v, awaited |-> TRUE]},
             child' = [child EXCEPT ![o] = TRUE], reply' = [reply EXCEPT ![o] = "none"],
             seen' = seen \/ seen' = [seen EXCEPT ![o] = root],
             UNCHANGED <<root, pinned, receipt, file, did, env>>
      PROVE  TypeOK'
  <2>1. [by |-> o, kind |-> k, uid |-> u, rv |-> v, awaited |-> TRUE] \in Requests
    BY DEF Requests
  <2>2. wire' \subseteq Requests
    BY <1>3, <2>1 DEF TypeOK
  <2>. QED BY <1>2, <1>3, <2>2 DEF TypeOK, Go
<1>4. ASSUME NEW o \in Ops, NEW s \in PCs, Go(o, s),
             file' = file \/ \E b \in BOOLEAN : file' = [file EXCEPT ![o] = b],
             UNCHANGED <<root, seen, pinned, receipt, child, wire, reply, did, env>>
      PROVE  TypeOK'
  BY <1>4 DEF TypeOK, Go
<1>5. ASSUME NEW o \in Ops, Command(o) PROVE TypeOK'
  <2>1. CASE Start(o) \/ CannotRecover(o)
    BY <1>2, <1>4, <2>1 DEF Start, CannotRecover
  <2>2. CASE Read(o)
    <3>1. CASE Refused(o)
      BY <1>2, <1>4, <2>2, <3>1 DEF Read, Fail
    <3>2. CASE ~Refused(o)
      <4>1. pc' \in [Ops -> PCs]
        BY <1>2, <2>2, <3>2 DEF TypeOK, Read, Go
      <4>2. seen' \in [Ops -> Root]
        BY <2>2, <3>2 DEF TypeOK, Read, Fail
      <4>3. pinned' \in [Ops -> Nat]
        BY <1>1, <2>2, <3>2 DEF TypeOK, Read, Fail
      <4>. QED BY <2>2, <3>2, <4>1, <4>2, <4>3 DEF TypeOK, Read
    <3>. QED BY <3>1, <3>2
  <2>3. CASE Acquire(o) \/ Recover(o)
    <3>1. PICK s \in {"acquiring", "recovering"} : Send(o, s)
      BY <2>3 DEF Acquire, Recover
    <3>2. s \in Awaiting /\ Sent[s] \in {"acquire", "recover"}
      BY States
    <3>. QED BY <1>1, <1>3, <3>1, <3>2 DEF Send
  <2>4. ASSUME NEW w \in {"supersede", "delete"}, NEW s \in Awaiting, ReadForWrite(o, w, s)
        PROVE  TypeOK'
    <3>1. CASE Refused(o)
      BY <1>2, <1>4, <2>4, <3>1 DEF ReadForWrite
    <3>2. CASE ~Refused(o)
      BY <1>1, <1>3, <2>4, <3>2 DEF ReadForWrite
    <3>. QED BY <3>1, <3>2
  <2>5. CASE Release(o)
    <3>1. CASE Gone(o) \/ root.holder # o
      <4>1. /\ \E s \in {"done", "failed"} : Go(o, s)
            /\ \E b \in BOOLEAN : file' = [file EXCEPT ![o] = b]
            /\ UNCHANGED <<root, seen, pinned, receipt, child, wire, reply, did, env>>
        BY <2>5, <3>1 DEF Release, Fail
      <4>. QED BY <1>2, <1>4, <4>1
    <3>2. CASE ~Gone(o) /\ root.holder = o
      <4>1. "releasing" \in Awaiting /\ "release" \in {"acquire", "recover", "release", "supersede", "delete"}
        BY States
      <4>2. /\ Go(o, "releasing") /\ seen' = [seen EXCEPT ![o] = root]
            /\ wire' = wire \cup {[by |-> o, kind |-> "release", uid |-> root.uid,
                                   rv |-> root.rv, awaited |-> TRUE]}
            /\ child' = [child EXCEPT ![o] = TRUE] /\ reply' = [reply EXCEPT ![o] = "none"]
            /\ UNCHANGED <<root, pinned, receipt, file, did, env>>
        BY <2>5, <3>2 DEF Release
      <4>. QED BY <1>1, <1>3, <4>1, <4>2
    <3>. QED BY <3>1, <3>2
  <2>6. CASE Receive(o)
    <3>1. pc' \in [Ops -> PCs]
      BY <1>2, <2>6, States DEF TypeOK, Receive, Go
    <3>2. receipt' \in [Ops -> Nat] /\ file' \in [Ops -> BOOLEAN]
      BY <1>1, <2>6 DEF TypeOK, Receive
    <3>. QED BY <2>6, <3>1, <3>2 DEF TypeOK, Receive
  <2>. QED BY <1>5, <2>1, <2>2, <2>3, <2>4, <2>5, <2>6, States DEF Command
<1>6. ASSUME NEW o \in Ops, Choose(o) \/ WaitEnds(o) \/ Crash(o) \/ ChildExits(o)
      PROVE  TypeOK'
  <2>1. CASE Finish(o) \/ WaitEnds(o) \/ Crash(o)
    BY <1>2, <1>4, <2>1 DEF Finish, WaitEnds, Crash, Fail
  <2>2. ASSUME NEW w \in {"supersede", "delete"}, BeginWrite(o, w) PROVE TypeOK'
    BY <1>2, <2>2 DEF TypeOK, BeginWrite, Go
  <2>3. CASE ChildExits(o)
    BY <2>3 DEF TypeOK, ChildExits
  <2>. QED BY <1>6, <2>1, <2>2, <2>3 DEF Choose
<1>7. ASSUME NEW o \in Ops, GiveUp(o) PROVE TypeOK'
  <2>1. \A r \in Requests : [r EXCEPT !.awaited = @ /\ r.by # o] \in Requests
    BY DEF Requests
  <2>2. wire' \subseteq Requests
    BY <1>7, <2>1 DEF TypeOK, GiveUp
  <2>3. file' \in [Ops -> BOOLEAN]
    BY <1>7 DEF TypeOK, GiveUp, Fail, Uncertain
  <2>. QED BY <1>2, <1>7, <2>2, <2>3 DEF TypeOK, GiveUp, Go, Fail
<1>8. ASSUME NEW r \in wire, Execute(r) \/ Lose(r) PROVE TypeOK'
  <2>1. /\ root \in Root /\ r.by \in Ops
        /\ r.kind \in {"acquire", "recover", "release", "supersede", "delete"}
    BY DEF TypeOK, Requests
  <2>2. root' \in Root
    <3>1. Effect(r) \in Root
      BY <2>1, RootFields DEF Effect
    <3>. QED BY <1>8, <2>1, <3>1 DEF Execute, Lose
  <2>. QED BY <1>8, <2>1, <2>2 DEF TypeOK, Execute, Lose
<1>9. ASSUME WriteStatus \/ Remove \/ Recreate PROVE TypeOK'
  <2>1. root \in Root /\ env \in [statuses : Nat, created : Nat]
    BY DEF TypeOK
  <2>2. env' \in [statuses : Nat, created : Nat]
    BY <1>9, <2>1 DEF WriteStatus, Remove, Recreate
  <2>3. root' \in Root
    <3>1. CASE WriteStatus \/ Remove
      BY <2>1, <3>1, RootFields DEF WriteStatus, Remove
    <3>2. CASE Recreate
      <4>1. env.created + 1 \in Nat
        BY <2>1
      <4>. QED BY <2>1, <3>2, <4>1, RootFields DEF Recreate
    <3>. QED BY <1>9, <3>1, <3>2
  <2>. QED BY <1>9, <2>2, <2>3 DEF TypeOK, WriteStatus, Remove, Recreate
<1>10. ASSUME UNCHANGED vars PROVE TypeOK'
  BY <1>10 DEF TypeOK, vars
<1>. QED BY <1>5, <1>6, <1>7, <1>8, <1>9, <1>10 DEF Next

\* The invariant holds at first, nobody being at work.
LEMMA InitInv == ASSUME Constants, Init PROVE TypeOK /\ Inv /\ Lock!Init
<1>. USE DEF Init
<1>1. root \in Root /\ Absent \in Root
  BY DEF Root, Absent
<1>2. TypeOK
  BY <1>1 DEF TypeOK, PCs
<1>3. /\ root.uid = 1 /\ root.rv = 1 /\ root.holder = None
      /\ \A o \in Ops : /\ seen[o].uid = 0 /\ seen[o].rv = 0 /\ seen[o].holder = None
                        /\ pc[o] = "start" /\ receipt[o] = 0
      /\ env.created = 1 /\ wire = {}
  BY DEF Absent
<1>4. \A o \in Ops : ~Working(o) /\ ~Acquired(o)
  BY <1>3 DEF Working, Acquired, Body
<1>5. Inv
  BY <1>3, <1>4 DEF Inv, Known, Started, One, Exclusive, Holds, Claims, Reading, Phase, Ended,
                    Body, Constants
<1>6. Lock!Init
  BY <1>4 DEF Lock!Init, AtWork
<1>. QED BY <1>2, <1>5, <1>6

\* Every step keeps the invariant, and is a step of the lock or none.
LEMMA NextInv ==
  ASSUME Constants, TypeOK, Inv, [Next]_vars
  PROVE  Inv' /\ [Lock!Next]_AtWork
<1>1. ASSUME NEW o \in Ops, Command(o) PROVE Inv' /\ [Lock!Next]_AtWork
  <2>1. {"wait", "failed", "release", "done"} \subseteq PCs
    BY DEF PCs, Inside, Body
  <2>2. CASE Start(o) \/ CannotRecover(o)
    BY <2>1, <2>2, MoveStep DEF Start, CannotRecover
  <2>3. CASE Read(o)
    BY <2>1, <2>3, MoveStep, ReadStep DEF Read, Fail
  <2>4. ASSUME NEW s \in Awaiting, Send(o, s), seen[o].uid \in Nat,
               \/ pc[o] = "acquire" /\ s = "acquiring"
               \/ pc[o] = "recover" /\ s = "recovering" /\ Dead(seen[o].holder)
        PROVE  Inv' /\ [Lock!Next]_AtWork
    <3>. DEFINE q == [by |-> o, kind |-> Sent[s], uid |-> seen[o].uid, rv |-> seen[o].rv,
                      awaited |-> TRUE]
    <3>1. q \in Requests
      BY <2>4, States DEF Requests, TypeOK, Root
    <3>2. /\ q.by = o /\ q.awaited /\ q.uid = seen[o].uid /\ q.rv = seen[o].rv
          /\ q.kind = IF s = "acquiring" THEN "acquire" ELSE "recover"
      BY <2>4, States
    <3>3. /\ wire' = wire \cup {q} /\ Go(o, s) /\ child' = [child EXCEPT ![o] = TRUE]
          /\ reply' = [reply EXCEPT ![o] = "none"] /\ seen' = seen
          /\ UNCHANGED <<root, pinned, receipt, env>>
      BY <2>4 DEF Send
    <3>. HIDE DEF q
    <3>4. SendsWhatItRead(o, s, q)
      BY <2>4, <3>2, <3>3 DEF SendsWhatItRead
    <3>. QED BY <3>1, <3>2, <3>3, <3>4, SendStep
  <2>5. CASE Acquire(o) \/ Recover(o)
    <3>1. pc[o] = "recover" /\ Recoverable(o) => Dead(seen[o].holder)
      BY DEF Recoverable, Locked, Inherited, Dead, Ended, Inv, Phase, Started, TypeOK, Root, PCs
    <3>2. "acquiring" \in Awaiting /\ "recovering" \in Awaiting /\ seen[o].uid \in Nat
      BY States DEF TypeOK, Root
    <3>. QED BY <2>4, <2>5, <3>1, <3>2 DEF Acquire, Recover
  <2>6. ASSUME NEW s \in {"superseding", "deleting", "releasing"}, Go(o, s),
               NEW k \in {"supersede", "delete", "release"}, k = "release" <=> s = "releasing",
               wire' = wire \cup {[by |-> o, kind |-> k, uid |-> root.uid, rv |-> root.rv,
                                   awaited |-> TRUE]},
               child' = [child EXCEPT ![o] = TRUE], reply' = [reply EXCEPT ![o] = "none"],
               seen' = [seen EXCEPT ![o] = root], UNCHANGED <<root, pinned, receipt, env>>,
               pc[o] \in {"supersede", "delete", "release"}, root.uid = receipt[o]
        PROVE  Inv' /\ [Lock!Next]_AtWork
    <3>. DEFINE q == [by |-> o, kind |-> k, uid |-> root.uid, rv |-> root.rv, awaited |-> TRUE]
    <3>1. q \in Requests /\ s \in Awaiting
      BY <2>6, States DEF Requests, TypeOK, Root
    <3>2. q.by = o /\ q.awaited /\ q.uid = root.uid /\ q.rv = root.rv /\ q.kind = k
      OBVIOUS
    <3>3. root.uid # 0 /\ root.holder = o
      BY <2>6 DEF Inv, Phase, Holds, Claims, Working, Body
    <3>4. wire' = wire \cup {q}
      BY <2>6
    <3>. HIDE DEF q
    <3>5. SendsWhatItRead(o, s, q)
      BY <2>6, <3>2, <3>3 DEF SendsWhatItRead
    <3>. QED BY <2>6, <3>1, <3>2, <3>4, <3>5, SendStep
  <2>7. ASSUME NEW w \in {"supersede", "delete"}, NEW s \in {"superseding", "deleting"},
               ReadForWrite(o, w, s)
        PROVE  Inv' /\ [Lock!Next]_AtWork
    <3>1. CASE Refused(o)
      BY <2>1, <2>7, <3>1, MoveStep DEF ReadForWrite
    <3>2. CASE ~Refused(o)
      <4>1. root.uid = receipt[o]
        BY <2>7, <3>2 DEF ReadForWrite, Refused, Inv, Phase, Body
      <4>. QED BY <2>6, <2>7, <3>2, <4>1 DEF ReadForWrite
    <3>. QED BY <3>1, <3>2
  <2>8. CASE Release(o)
    <3>1. CASE Gone(o) \/ root.holder # o
      BY <2>1, <2>8, <3>1, MoveStep DEF Release, Fail
    <3>2. CASE ~Gone(o) /\ root.holder = o
      BY <2>6, <2>8, <3>2 DEF Release, Gone
    <3>. QED BY <3>1, <3>2
  <2>. QED BY <1>1, <2>2, <2>3, <2>5, <2>7, <2>8, ReceiveStep DEF Command
<1>2. ASSUME NEW o \in Ops, Choose(o) \/ WaitEnds(o) \/ Crash(o)
      PROVE  Inv' /\ [Lock!Next]_AtWork
  <2>1. {"failed", "crashed", "release", "supersede", "delete"} \subseteq PCs
    BY DEF PCs, Inside, Body
  <2>2. CASE Choose(o)
    BY <2>1, <2>2, MoveStep DEF Choose, Finish, BeginWrite
  <2>3. CASE WaitEnds(o)
    BY <2>1, <2>3, MoveStep DEF WaitEnds, Fail
  <2>4. CASE Crash(o)
    BY <2>1, <2>4, MoveStep DEF Crash
  <2>. QED BY <1>2, <2>2, <2>3, <2>4
<1>3. ASSUME UNCHANGED vars PROVE Inv' /\ [Lock!Next]_AtWork
  <2>1. Known' /\ Started' /\ One'
    BY <1>3 DEF vars, Inv, Known, Started, One
  <2>2. Exclusive' /\ Holds' /\ AtWork' = AtWork
    <3>1. \A o \in Ops : Working(o)' = Working(o) /\ Acquired(o)' = Acquired(o)
      BY <1>3 DEF vars, Working, Acquired
    <3>2. \A o \in Ops : \A u \in Nat : Claims(o, u)' <=> Claims(o, u)
      BY <1>3, <3>1 DEF vars, Claims
    <3>3. root.uid \in Nat
      BY DEF TypeOK, Root
    <3>4. Exclusive' /\ Holds'
      BY <1>3, <3>2, <3>3 DEF vars, Inv, Exclusive, Holds
    <3>5. AtWork' = AtWork
      BY <1>3, <3>1 DEF vars, AtWork
    <3>. QED BY <3>4, <3>5
  <2>3. \A o \in Ops : Reading(o)' /\ Phase(o)'
    BY <1>3 DEF vars, Inv, Reading, Phase, Ended
  <2>4. \A r \in wire' : Sending(r)'
    <3>1. \A o : Dead(o)' <=> Dead(o)
      BY <1>3 DEF vars, Dead, Ended
    <3>2. \A r \in wire : r.kind = "recover" => Dead(seen[r.by].holder)'
      BY <1>3, <3>1 DEF vars, Inv, Sending
    <3>. QED BY <1>3, <3>2, SendingStays DEF vars, Inv
  <2>. QED BY <2>1, <2>2, <2>3, <2>4 DEF Inv
<1>. QED BY <1>1, <1>2, <1>3, GiveUpStep, ChildStep, ServerStep, RootStep DEF Next

----------------------------------------------------------------------------
\* The invariant of hold(): what the operations have read and sent, and who holds
\* the instance.
THEOREM Invariant == ASSUME Constants PROVE Spec => [](TypeOK /\ Inv)
<1>1. Init => TypeOK /\ Inv
  BY InitInv
<1>2. TypeOK /\ Inv /\ [Next]_vars => (TypeOK /\ Inv)'
  BY TypeStep, NextInv
<1>. QED BY <1>1, <1>2, PTL DEF Spec

\* hold() gives one instance to one operation at a time, until its last process
\* can write no more: it implements InstanceLock.
THEOREM LockImplemented == ASSUME Constants PROVE Spec => LockHolds
<1>1. Init => Lock!Init
  BY InitInv
<1>2. TypeOK /\ Inv /\ [Next]_vars => [Lock!Next]_AtWork
  BY NextInv
<1>. QED BY <1>1, <1>2, Invariant, PTL DEF Spec, LockHolds, Lock!Spec

\* No recovery takes the annotation from an operation whose body is running.
THEOREM OwnershipIsKept == ASSUME Constants PROVE Spec => []OwnershipKept
<1>1. TypeOK /\ Inv => OwnershipKept
  BY DEF Inv, Holds, Claims, Working, Phase, OwnershipKept, Body
<1>. QED BY <1>1, Invariant, PTL

\* A submission is superseded and the instance deleted by its holder only, also
\* when the request is executed late.
THEOREM WritesAreTheHolders == ASSUME Constants PROVE Spec => WritesByHolder
<1>1. ASSUME TypeOK, Inv, Next PROVE HolderWrites
  <2>1. CASE \E r \in wire : Execute(r) \/ Lose(r)
    <3>1. PICK r \in wire : Execute(r) \/ Lose(r)
      BY <2>1
    <3>2. root' # root => Fits(r)
      BY <3>1 DEF Execute, Lose
    <3>3. \A s \in wire : s \notin wire' => s = r
      BY <3>1 DEF Execute, Lose
    <3>4. Fits(r) /\ r.kind \in {"supersede", "delete"} => root.holder = r.by
      BY <1>1 DEF Inv, Sending
    <3>. QED BY <3>2, <3>3, <3>4 DEF HolderWrites
  <2>2. CASE \E o \in Ops : \/ Command(o) \/ Choose(o) \/ WaitEnds(o) \/ GiveUp(o)
                            \/ Crash(o) \/ ChildExits(o)
    <3>1. ASSUME NEW o \in Ops, Command(o) PROVE root' = root
      <4>1. CASE Start(o) \/ Read(o) \/ Acquire(o) \/ Recover(o) \/ CannotRecover(o)
        BY <4>1 DEF Start, Read, Acquire, Recover, CannotRecover, Send, Fail
      <4>2. CASE \/ ReadForWrite(o, "supersede", "superseding")
                 \/ ReadForWrite(o, "delete", "deleting")
        BY <4>2 DEF ReadForWrite
      <4>3. CASE Release(o) \/ Receive(o)
        BY <4>3 DEF Release, Receive, Fail
      <4>. QED BY <3>1, <4>1, <4>2, <4>3 DEF Command
    <3>2. ASSUME NEW o \in Ops, \/ Choose(o) \/ WaitEnds(o) \/ GiveUp(o)
                                \/ Crash(o) \/ ChildExits(o)
          PROVE  root' = root
      BY <3>2 DEF Choose, WaitEnds, GiveUp, Crash, ChildExits, Finish, BeginWrite, Fail
    <3>. QED BY <2>2, <3>1, <3>2 DEF HolderWrites
  <2>3. CASE WriteStatus \/ Remove \/ Recreate
    BY <2>3 DEF HolderWrites, WriteStatus, Remove, Recreate
  <2>. QED BY <1>1, <2>1, <2>2, <2>3 DEF Next
<1>2. TypeOK /\ Inv /\ [Next]_vars => [HolderWrites]_vars
  BY <1>1
<1>. QED BY <1>2, Invariant, PTL DEF Spec, WritesByHolder
=============================================================================
