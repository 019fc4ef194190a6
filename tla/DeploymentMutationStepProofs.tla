-------------------- MODULE DeploymentMutationStepProofs --------------------
(***************************************************************************)
(* What the steps of the commands, of their subprocesses and of the API     *)
(* server do to the lock, for any number of operations, machines, instances *)
(* and status writes.  DeploymentMutationProofs combines them.              *)
(*                                                                          *)
(* The argument: a write is executed only on the version its operation has  *)
(* read.  So an instance is acquired only while nobody holds it, released   *)
(* only by its holder, and recovered only from a holder that was found      *)
(* without a process; such a holder never works again.                      *)
(***************************************************************************)
EXTENDS DeploymentMutation, TLAPS

\* What is assumed of the constants.
Constants == None \notin Ops /\ MaxUid \in Nat \ {0}

Ended(o) == pc[o] \in {"done", "failed", "crashed"}
Dead(o) == Ended(o) /\ ~child[o]

\* Every instance that anybody knows has been created.
Known ==
    /\ root.uid <= env.created /\ env.created <= MaxUid
    /\ \A o \in Ops : seen[o].uid <= env.created /\ receipt[o] <= env.created

\* An operation has read the root, or an older version of it.
Reading(o) ==
    /\ seen[o].rv <= root.rv
    /\ root.uid # 0 /\ seen[o].uid = root.uid /\ seen[o].rv = root.rv =>
           seen[o].holder = root.holder

\* What an operation has found and received in each part of hold().
Phase(o) ==
    /\ pc[o] \notin Body /\ ~Ended(o) => receipt[o] = 0
    /\ pc[o] \in Body => receipt[o] # 0 /\ pinned[o] = receipt[o]
    /\ pc[o] \in {"acquire", "acquiring", "recover", "recovering"} => seen[o].uid # 0
    /\ pc[o] \in {"acquire", "acquiring"} => pinned[o] = seen[o].uid /\ seen[o].holder = None
    /\ pc[o] \in {"recover", "recovering"} => seen[o].holder # None

\* A holder has been started.
Started ==
    /\ root.holder # None => pc[root.holder] # "start"
    /\ \A o \in Ops : seen[o].holder # None => pc[seen[o].holder] # "start"

\* A request on the way is of an operation that has not got beyond it, and if it
\* still fits the root, the root has the holder that its operation has read.
Sending(r) ==
    /\ r.uid # 0 /\ r.uid <= env.created /\ r.rv <= root.rv
    /\ r.awaited => /\ child[r.by] /\ reply[r.by] = "none"
                    /\ pc[r.by] \in Awaiting \cup {"crashed"}
    /\ r.kind = "acquire" => /\ pc[r.by] \in {"acquiring", "failed", "crashed"}
                             /\ receipt[r.by] = 0 /\ seen[r.by].uid = r.uid
    /\ r.kind = "recover" => /\ pc[r.by] \in {"recovering", "failed", "crashed"}
                             /\ receipt[r.by] = 0
                             /\ seen[r.by].holder # None /\ Dead(seen[r.by].holder)
    /\ r.kind = "release" => pc[r.by] \in {"releasing", "failed", "crashed"}
    /\ r.kind \in {"acquire", "recover", "release"} /\ pc[r.by] # "failed" => r.awaited
    /\ r.kind \in {"supersede", "delete"} => pc[r.by] \in Body \/ Ended(r.by)
    /\ Fits(r) => /\ r.kind = "acquire" => root.holder = None
                  /\ r.kind = "recover" => root.holder = seen[r.by].holder
                  /\ r.kind \in {"release", "supersede", "delete"} => root.holder = r.by

One == \A r, s \in wire : r.awaited /\ s.awaited /\ r.by = s.by => r = s

\* An operation that is at work on an instance, or will be when it reads its answer.
Acquired(o) == pc[o] = "acquiring" /\ reply[o] = "ok"
Claims(o, u) == \/ Working(o) /\ receipt[o] = u
                \/ Acquired(o) /\ seen[o].uid = u

Exclusive == \A o, p \in Ops : \A u \in 1 .. MaxUid : Claims(o, u) /\ Claims(p, u) => o = p
Holds == root.uid # 0 => \A o \in Ops : Claims(o, root.uid) => root.holder = o

Inv == /\ Known /\ Started /\ One /\ Exclusive /\ Holds
       /\ \A o \in Ops : Reading(o) /\ Phase(o)
       /\ \A r \in wire : Sending(r)

----------------------------------------------------------------------------
\* The states in which a command waits for its kubectl.
LEMMA States ==
    /\ Awaiting = {"acquiring", "recovering", "releasing", "superseding", "deleting"}
    /\ Sent["acquiring"] = "acquire" /\ Sent["recovering"] = "recover"
BY DEF Awaiting, Sent

\* Nobody comes to claim an instance, and the root keeps its holder or is gone.
LEMMA NoNewClaim ==
  ASSUME Constants, TypeOK, Known, Exclusive, Holds,
         \A p \in Ops, u \in 1 .. MaxUid : Claims(p, u)' => Claims(p, u),
         \/ root'.uid = root.uid /\ root'.holder = root.holder
         \/ root'.uid = 0
  PROVE  Exclusive' /\ Holds'
<1>1. Exclusive'
  BY DEF Exclusive
<1>2. root.uid # 0 => root.uid \in 1 .. MaxUid
  BY DEF Constants, TypeOK, Root, Known
<1>3. Holds'
  BY <1>2 DEF Holds
<1>. QED BY <1>1, <1>3

\* An operation that works no more leaves the lock; the others are not concerned.
LEMMA LeaveOrStay ==
  ASSUME Constants, TypeOK, Exclusive, NEW o \in Ops,
         \A p \in Ops \ {o} : receipt'[p] = receipt[p] /\ (Working(p)' <=> Working(p)),
         receipt'[o] = receipt[o], receipt[o] # 0 /\ Working(o)' => Working(o)
  PROVE  [Lock!Next]_AtWork
<1>1. CASE receipt[o] \in 1 .. MaxUid /\ Working(o) /\ ~Working(o)'
  <2>1. AtWork[receipt[o]] = {o}
    BY <1>1 DEF AtWork, Exclusive, Claims
  <2>2. ASSUME NEW u \in 1 .. MaxUid
        PROVE  AtWork'[u] = IF u = receipt[o] THEN {} ELSE AtWork[u]
    <3>1. u = receipt[o] => \A p \in Ops : ~(receipt'[p] = u /\ Working(p)')
      BY <1>1, <2>1 DEF AtWork
    <3>2. u # receipt[o] =>
             \A p \in Ops : receipt'[p] = u /\ Working(p)' <=> receipt[p] = u /\ Working(p)
      OBVIOUS
    <3>. QED BY <3>1, <3>2 DEF AtWork
  <2>3. /\ AtWork = [u \in 1 .. MaxUid |-> AtWork[u]]
        /\ AtWork' = [u \in 1 .. MaxUid |-> AtWork'[u]]
    BY DEF AtWork
  <2>4. AtWork' = [AtWork EXCEPT ![receipt[o]] = {}]
    BY <1>1, <2>2, <2>3
  <2>5. Lock!Leave(o, receipt[o])
    BY <2>1, <2>4 DEF Lock!Leave
  <2>. QED BY <1>1, <2>5 DEF Lock!Next
<1>2. CASE ~(receipt[o] \in 1 .. MaxUid /\ Working(o) /\ ~Working(o)')
  <2>1. \A p \in Ops, u \in 1 .. MaxUid :
           receipt'[p] = u /\ Working(p)' <=> receipt[p] = u /\ Working(p)
    BY <1>2 DEF Constants
  <2>2. AtWork' = AtWork
    BY <2>1 DEF AtWork
  <2>. QED BY <2>2
<1>. QED BY <1>1, <1>2

\* Nothing that is said of a request changes while its operation does not move.
LEMMA SendingStays ==
  ASSUME NEW r, Sending(r), UNCHANGED <<root, env>>,
         pc'[r.by] = pc[r.by], seen'[r.by] = seen[r.by], receipt'[r.by] = receipt[r.by],
         child'[r.by] = child[r.by], reply'[r.by] = reply[r.by],
         r.kind = "recover" => Dead(seen[r.by].holder)'
  PROVE  Sending(r)'
BY DEF Sending, Ended, Fits

\* Nor does what an operation that does not move has found.
LEMMA PhaseStays ==
  ASSUME NEW p \in Ops, Reading(p), Phase(p), UNCHANGED root, pinned'[p] = pinned[p],
         pc'[p] = pc[p], seen'[p] = seen[p], receipt'[p] = receipt[p]
  PROVE  Reading(p)' /\ Phase(p)'
BY DEF Reading, Phase, Ended

----------------------------------------------------------------------------
\* A command goes on, ends or is killed, and nothing else changes.
LEMMA MoveStep ==
  ASSUME Constants, TypeOK, Inv, NEW o \in Ops, NEW s \in PCs, Go(o, s),
         \/ pc[o] \in {"start", "wait", "recover"} /\ s \in {"wait", "failed"}
         \/ /\ pc[o] \in {"held", "supersede", "delete", "release"}
            /\ s \in {"supersede", "delete", "release", "done", "failed"}
         \/ pc[o] \in Inside /\ s = "crashed",
         UNCHANGED <<root, seen, pinned, receipt, child, wire, reply, env>>
  PROVE  Inv' /\ [Lock!Next]_AtWork
<1>. USE DEF Body, Inside
<1>1. pc' = [pc EXCEPT ![o] = s] /\ pc \in [Ops -> PCs]
  BY DEF Go, TypeOK
<1>2. wire \subseteq Requests
  BY DEF TypeOK
<1>3. Known' /\ One'
  BY DEF Inv, Known, One
<1>4. Started'
  BY <1>1 DEF Inv, Started, TypeOK, Root
<1>5. \A p \in Ops : Reading(p)' /\ Phase(p)'
  BY <1>1 DEF Inv, Reading, Phase, Ended
<1>6. ASSUME NEW r \in wire PROVE Sending(r)'
  <2>1. Sending(r) /\ r \in Requests
    BY <1>2 DEF Inv
  <2>2. \A v \in Ops : Dead(v) => Dead(v)'
    BY <1>1 DEF Dead, Ended
  <2>3. r.kind = "recover" => Dead(seen[r.by].holder)'
    BY <2>1, <2>2 DEF Sending, TypeOK, Root, Requests
  <2>. QED BY <1>1, <2>1, <2>3, States DEF Sending, Ended, Fits, Requests
<1>7. \A p \in Ops \ {o} : Working(p)' <=> Working(p)
  BY <1>1 DEF Working
<1>8. ASSUME receipt[o] # 0, Working(o)' PROVE Working(o)
  <2>1. CASE s = "crashed"
    <3>1. PICK r \in wire : r.by = o /\ r.awaited
      BY <1>1, <1>8, <2>1 DEF Working
    <3>2. Sending(r) /\ r \in Requests /\ Phase(o)
      BY <1>2 DEF Inv
    <3>. QED BY <1>1, <1>8, <2>1, <3>1, <3>2, States DEF Working, Sending, Phase, Ended, Requests
  <2>2. CASE s # "crashed"
    BY <1>1, <1>8, <2>2 DEF Working, Inv, Phase, Ended
  <2>. QED BY <2>1, <2>2
<1>9. [Lock!Next]_AtWork
  BY <1>7, <1>8, LeaveOrStay DEF Inv
<1>10. \A p \in Ops, u \in 1 .. MaxUid : Claims(p, u)' => Claims(p, u)
  BY <1>1, <1>7, <1>8 DEF Claims, Acquired, Constants
<1>11. Exclusive' /\ Holds'
  BY <1>10, NoNewClaim DEF Inv
<1>. QED BY <1>3, <1>4, <1>5, <1>6, <1>9, <1>11 DEF Inv

\* A waiting command reads the root.
LEMMA ReadStep ==
  ASSUME Constants, TypeOK, Inv, NEW o \in Ops, pc[o] = "wait", ~Refused(o),
         seen' = [seen EXCEPT ![o] = root], pinned' = [pinned EXCEPT ![o] = root.uid],
         Go(o, IF root.holder = None THEN "acquire" ELSE "recover"),
         UNCHANGED <<root, receipt, child, wire, reply, env>>
  PROVE  Inv' /\ [Lock!Next]_AtWork
<1>. USE DEF Body
<1>1. /\ pc' = [pc EXCEPT ![o] = IF root.holder = None THEN "acquire" ELSE "recover"]
      /\ pc \in [Ops -> PCs] /\ wire \subseteq Requests /\ root.uid # 0
  BY DEF Go, TypeOK, Refused
<1>2. Known' /\ One'
  BY DEF Inv, Known, One, TypeOK
<1>3. Started'
  BY <1>1 DEF Inv, Started, TypeOK, Root
<1>4. ASSUME NEW p \in Ops PROVE Reading(p)' /\ Phase(p)'
  <2>1. Reading(p) /\ Phase(p)
    BY DEF Inv
  <2>2. CASE p # o
    <3>1. /\ pc'[p] = pc[p] /\ seen'[p] = seen[p] /\ pinned'[p] = pinned[p]
          /\ receipt'[p] = receipt[p]
      BY <1>1, <2>2 DEF TypeOK
    <3>. QED BY <2>1, <3>1, PhaseStays
  <2>3. CASE p = o
    <3>1. /\ pc'[o] = (IF root.holder = None THEN "acquire" ELSE "recover")
          /\ seen'[o] = root /\ pinned'[o] = root.uid /\ root.rv \in Nat
      BY <1>1 DEF TypeOK, Root
    <3>2. Reading(o)'
      BY <3>1 DEF Reading
    <3>3. receipt[o] = 0
      BY <2>1, <2>3 DEF Phase, Ended
    <3>4. Phase(o)'
      BY <1>1, <3>1, <3>3 DEF Phase, Ended
    <3>. QED BY <2>3, <3>2, <3>4
  <2>. QED BY <2>2, <2>3
<1>5. ASSUME NEW r \in wire PROVE Sending(r)'
  <2>1. Sending(r) /\ r \in Requests
    BY <1>1 DEF Inv
  <2>2. r.by # o
    BY <2>1 DEF Sending, Ended, Requests
  <2>3. pc'[r.by] = pc[r.by] /\ seen'[r.by] = seen[r.by]
    BY <1>1, <2>1, <2>2 DEF TypeOK, Requests
  <2>4. \A v \in Ops : Dead(v) => Dead(v)'
    BY <1>1 DEF Dead, Ended
  <2>5. r.kind = "recover" => Dead(seen[r.by].holder)'
    BY <2>1, <2>3, <2>4 DEF Sending, TypeOK, Root, Requests
  <2>. QED BY <2>1, <2>3, <2>5, SendingStays
<1>6. \A p \in Ops : (p # o => (Working(p)' <=> Working(p))) /\ ~Working(o)'
  BY <1>1 DEF Working
<1>7. [Lock!Next]_AtWork
  BY <1>6, LeaveOrStay DEF Inv
<1>8. \A p \in Ops, u \in 1 .. MaxUid : Claims(p, u)' => Claims(p, u)
  BY <1>1, <1>6 DEF Claims, Acquired, TypeOK
<1>9. Exclusive' /\ Holds'
  BY <1>8, NoNewClaim DEF Inv
<1>. QED BY <1>2, <1>3, <1>4, <1>5, <1>7, <1>9 DEF Inv

\* An operation sends the version of the root that it has read, before or now.
SendsWhatItRead(o, s, q) ==
    \/ /\ \/ pc[o] = "acquire" /\ s = "acquiring" /\ q.kind = "acquire"
          \/ /\ pc[o] = "recover" /\ s = "recovering" /\ q.kind = "recover"
             /\ Dead(seen[o].holder)
       /\ q.uid = seen[o].uid /\ q.rv = seen[o].rv /\ seen' = seen
    \/ /\ pc[o] \in {"supersede", "delete", "release"}
       /\ \/ s \in {"superseding", "deleting"} /\ q.kind \in {"supersede", "delete"}
          \/ s = "releasing" /\ q.kind = "release"
       /\ q.uid = root.uid /\ q.rv = root.rv /\ root.uid # 0 /\ root.holder = o
       /\ seen' = [seen EXCEPT ![o] = root]

\* A command starts kubectl.
LEMMA SendStep ==
  ASSUME Constants, TypeOK, Inv, NEW o \in Ops, NEW s \in Awaiting, NEW q \in Requests,
         q.by = o, q.awaited, Go(o, s), wire' = wire \cup {q},
         child' = [child EXCEPT ![o] = TRUE], reply' = [reply EXCEPT ![o] = "none"],
         UNCHANGED <<root, pinned, receipt, env>>,
         SendsWhatItRead(o, s, q)
  PROVE  Inv' /\ [Lock!Next]_AtWork
<1>. USE DEF Body
<1>1. /\ pc' = [pc EXCEPT ![o] = s]
      /\ pc \in [Ops -> PCs] /\ wire \subseteq Requests
      /\ seen \in [Ops -> Root] /\ root \in Root
      /\ child \in [Ops -> BOOLEAN] /\ DOMAIN reply = Ops
  BY DEF Go, TypeOK
<1>2. /\ pc[o] \in {"acquire", "recover", "supersede", "delete", "release"}
      /\ pc[o] \in {"supersede", "delete", "release"} <=> s \in {"superseding", "deleting", "releasing"}
      /\ pc'[o] = s /\ seen' \in [Ops -> Root]
      /\ seen'[o] = seen[o] \/ seen'[o] = root
      /\ \A p \in Ops \ {o} : pc'[p] = pc[p] /\ seen'[p] = seen[p]
  BY <1>1, States DEF SendsWhatItRead
<1>3. Known' /\ Started'
  <2>1. Known'
    BY <1>2 DEF Inv, Known
  <2>2. \A p \in Ops : pc[p] # "start" => pc'[p] # "start"
    BY <1>2, States
  <2>3. \A p \in Ops : seen'[p].holder = seen[p].holder \/ seen'[p].holder = root.holder
    BY <1>2
  <2>4. Started'
    BY <1>1, <2>2, <2>3 DEF Inv, Started, Root
  <2>. QED BY <2>1, <2>4
<1>4. ASSUME NEW p \in Ops PROVE Reading(p)' /\ Phase(p)'
  <2>1. Reading(p) /\ Phase(p)
    BY DEF Inv
  <2>2. CASE p # o
    BY <1>2, <2>1, <2>2, PhaseStays
  <2>3. CASE p = o
    <3>1. Reading(o)'
      BY <1>1, <1>2, <2>1, <2>3 DEF Reading, Root
    <3>2. ASSUME s \in {"acquiring", "recovering"} PROVE Phase(o)'
      <4>1. /\ seen' = seen
            /\ \/ pc[o] = "acquire" /\ s = "acquiring"
               \/ pc[o] = "recover" /\ s = "recovering"
        BY <3>2 DEF SendsWhatItRead
      <4>. QED BY <1>2, <2>1, <2>3, <4>1 DEF Phase, Ended
    <3>3. ASSUME s \in {"superseding", "deleting", "releasing"} PROVE Phase(o)'
      <4>1. receipt[o] # 0 /\ pinned[o] = receipt[o]
        BY <1>2, <2>1, <2>3, <3>3 DEF Phase
      <4>. QED BY <1>2, <2>3, <3>3, <4>1 DEF Phase
    <3>. QED BY <2>3, <3>1, <3>2, <3>3, States
  <2>. QED BY <2>2, <2>3
<1>5. ASSUME NEW r \in wire, r.by = o
      PROVE  ~r.awaited /\ r.kind \in {"supersede", "delete"} /\ pc[o] \in Body
  <2>1. Sending(r) /\ r \in Requests
    BY <1>1 DEF Inv
  <2>. QED BY <1>2, <1>5, <2>1, States DEF Sending, Requests, Ended
<1>6. One'
  BY <1>5 DEF Inv, One
<1>7. \A v \in Ops : Dead(v) => v # o /\ Dead(v)'
  BY <1>1, <1>2 DEF Dead, Ended
<1>8. ASSUME NEW r \in wire PROVE Sending(r)'
  <2>1. Sending(r) /\ r \in Requests
    BY <1>1 DEF Inv
  <2>2. CASE r.by = o
    <3>1. ~r.awaited /\ r.kind \in {"supersede", "delete"} /\ pc'[o] \in Body
      BY <1>2, <1>5, <2>2, States
    <3>. QED BY <2>1, <2>2, <3>1 DEF Sending, Ended, Fits
  <2>3. CASE r.by # o
    <3>1. r.by \in Ops
      BY <2>1 DEF Requests
    <3>2. /\ pc'[r.by] = pc[r.by] /\ seen'[r.by] = seen[r.by]
          /\ child'[r.by] = child[r.by] /\ reply'[r.by] = reply[r.by]
      BY <1>1, <1>2, <2>3, <3>1
    <3>3. r.kind = "recover" => Dead(seen[r.by].holder)'
      BY <1>1, <1>7, <2>1, <3>1, <3>2 DEF Sending, Root
    <3>. QED BY <2>1, <3>2, <3>3, SendingStays
  <2>. QED BY <2>2, <2>3
<1>9. Sending(q)'
  <2>1. Reading(o) /\ Phase(o) /\ Known
    BY DEF Inv
  <2>2. child'[o] /\ reply'[o] = "none"
    BY <1>1
  <2>3. /\ seen[o].uid <= env.created /\ seen[o].rv <= root.rv
        /\ root.uid <= env.created /\ root.rv <= root.rv
        /\ pc[o] \in {"acquire", "recover"} => seen[o].uid # 0 /\ receipt[o] = 0
    <3>1. seen[o].uid <= env.created /\ seen[o].rv <= root.rv /\ root.uid <= env.created
      BY <2>1 DEF Reading, Known
    <3>2. root.rv <= root.rv
      BY <1>1 DEF Root
    <3>3. pc[o] \in {"acquire", "recover"} => seen[o].uid # 0 /\ receipt[o] = 0
      BY <2>1 DEF Phase, Ended
    <3>. QED BY <3>1, <3>2, <3>3
  <2>4. CASE s \in {"acquiring", "recovering"}
    <3>1. /\ q.uid = seen[o].uid /\ q.rv = seen[o].rv /\ seen' = seen
          /\ \/ pc[o] = "acquire" /\ s = "acquiring" /\ q.kind = "acquire"
             \/ /\ pc[o] = "recover" /\ s = "recovering" /\ q.kind = "recover"
                /\ Dead(seen[o].holder)
      BY <2>4 DEF SendsWhatItRead
    <3>2. /\ q.kind = "acquire" => seen[o].holder = None
          /\ q.kind = "recover" => seen[o].holder # None /\ seen[o].holder \in Ops
      BY <1>1, <2>1, <3>1 DEF Phase, Root
    <3>3. Fits(q) => seen[o].holder = root.holder
      BY <2>1, <2>3, <3>1 DEF Fits, Reading
    <3>. QED BY <1>2, <1>7, <2>2, <2>3, <2>4, <3>1, <3>2, <3>3, States DEF Sending, Ended, Fits
  <2>5. CASE s \in {"superseding", "deleting", "releasing"}
    <3>1. /\ q.uid = root.uid /\ q.rv = root.rv /\ root.uid # 0 /\ root.holder = o
          /\ \/ s \in {"superseding", "deleting"} /\ q.kind \in {"supersede", "delete"}
             \/ s = "releasing" /\ q.kind = "release"
      BY <2>5 DEF SendsWhatItRead
    <3>. QED BY <1>2, <2>2, <2>3, <2>5, <3>1, States DEF Sending, Ended, Fits
  <2>. QED BY <2>4, <2>5, States
<1>10. \A p \in Ops \ {o} : Working(p)' <=> Working(p)
  BY <1>1, <1>2 DEF Working
<1>11. receipt[o] # 0 /\ Working(o)' => Working(o)
  <2>1. Phase(o)
    BY DEF Inv
  <2>. QED BY <1>2, <2>1, States DEF Working, Phase, Ended
<1>12. [Lock!Next]_AtWork
  BY <1>10, <1>11, LeaveOrStay DEF Inv
<1>13. ASSUME NEW p \in Ops, NEW u \in 1 .. MaxUid, Claims(p, u)' PROVE Claims(p, u)
  <2>1. CASE p = o
    <3>1. ~Acquired(o)'
      BY <1>1 DEF Acquired
    <3>2. u # 0
      BY DEF Constants
    <3>. QED BY <1>11, <1>13, <2>1, <3>1, <3>2 DEF Claims
  <2>2. CASE p # o
    <3>1. Acquired(p)' => Acquired(p)
      BY <1>1, <1>2, <2>2 DEF Acquired
    <3>. QED BY <1>2, <1>10, <1>13, <2>2, <3>1 DEF Claims
  <2>. QED BY <2>1, <2>2
<1>14. Exclusive' /\ Holds'
  BY <1>13, NoNewClaim DEF Inv
<1>. QED BY <1>3, <1>4, <1>6, <1>8, <1>9, <1>12, <1>14 DEF Inv

\* A command gets the answer of its kubectl.
LEMMA ReceiveStep ==
  ASSUME Constants, TypeOK, Inv, NEW o \in Ops, Receive(o)
  PROVE  Inv' /\ [Lock!Next]_AtWork
<1>. USE DEF Body
<1>1. /\ pc \in [Ops -> PCs] /\ wire \subseteq Requests /\ seen \in [Ops -> Root]
      /\ receipt \in [Ops -> Nat] /\ child \in [Ops -> BOOLEAN] /\ DOMAIN reply = Ops
  BY DEF TypeOK
<1>2. /\ pc[o] \in Awaiting /\ reply[o] \in {"ok", "conflict"}
      /\ child' = [child EXCEPT ![o] = FALSE] /\ reply' = [reply EXCEPT ![o] = "none"]
      /\ UNCHANGED <<root, seen, pinned, wire, env>>
  BY DEF Receive
<1>3. /\ \A p \in Ops \ {o} : pc'[p] = pc[p] /\ receipt'[p] = receipt[p]
      /\ pc' = [pc EXCEPT ![o] = pc'[o]] /\ receipt' = [receipt EXCEPT ![o] = receipt'[o]]
      /\ \/ pc[o] = "acquiring" /\ reply[o] = "ok" /\ pc'[o] = "held" /\ receipt'[o] = seen[o].uid
         \/ /\ receipt'[o] = receipt[o]
            /\ \/ pc[o] = "acquiring" /\ pc'[o] = "wait"
               \/ pc[o] = "recovering" /\ pc'[o] = "wait"
               \/ pc[o] \in {"superseding", "deleting"}
                     /\ pc'[o] \in {"held", "supersede", "delete", "release"}
               \/ pc[o] = "releasing" /\ reply[o] = "ok" /\ pc'[o] = "done"
               \/ pc[o] = "releasing" /\ reply[o] = "conflict" /\ pc'[o] = "release"
  BY <1>1, States DEF Receive, Go
<1>. HIDE DEF Receive
<1>4. Known' /\ One'
  BY <1>1, <1>2, <1>3 DEF Inv, Known, One
<1>5. Started'
  <2>1. \A p \in Ops : pc[p] # "start" => pc'[p] # "start"
    BY <1>3
  <2>. QED BY <1>2, <2>1 DEF Inv, Started, TypeOK, Root
<1>6. ASSUME NEW p \in Ops PROVE Reading(p)' /\ Phase(p)'
  <2>1. Reading(p) /\ Phase(p)
    BY DEF Inv
  <2>2. CASE p # o
    BY <1>2, <1>3, <2>1, <2>2, PhaseStays
  <2>3. CASE p = o
    <3>1. Reading(o)'
      BY <1>2, <2>1, <2>3 DEF Reading
    <3>2. Phase(o)'
      BY <1>2, <1>3, <2>1, <2>3 DEF Phase, Ended
    <3>. QED BY <2>3, <3>1, <3>2
  <2>. QED BY <2>2, <2>3
<1>7. \A r \in wire : r.by = o => /\ ~r.awaited /\ r.kind \in {"supersede", "delete"}
                                  /\ pc[o] \in Body
  BY <1>1, <1>2, States DEF Inv, Sending, Requests, Ended
<1>8. ASSUME NEW r \in wire PROVE Sending(r)'
  <2>1. Sending(r) /\ r \in Requests
    BY <1>1 DEF Inv
  <2>2. CASE r.by = o
    <3>1. ~r.awaited /\ r.kind \in {"supersede", "delete"} /\ pc'[o] \in Body \cup {"done"}
      BY <1>3, <1>7, <2>2
    <3>. QED BY <1>2, <2>1, <2>2, <3>1 DEF Sending, Ended, Fits
  <2>3. CASE r.by # o
    <3>1. r.kind = "recover" => Dead(seen[r.by].holder)'
      <4>1. \A v \in Ops : Dead(v) => Dead(v)'
        BY <1>1, <1>2, <1>3, States DEF Dead, Ended
      <4>. QED BY <1>1, <1>2, <2>1, <4>1 DEF Sending, Root, Requests
    <3>2. /\ pc'[r.by] = pc[r.by] /\ receipt'[r.by] = receipt[r.by]
          /\ child'[r.by] = child[r.by] /\ reply'[r.by] = reply[r.by]
      BY <1>1, <1>2, <1>3, <2>1, <2>3 DEF Requests
    <3>. QED BY <1>2, <2>1, <3>1, <3>2, SendingStays
  <2>. QED BY <2>2, <2>3
<1>9. \A p \in Ops \ {o} : Working(p)' <=> Working(p)
  BY <1>1, <1>2, <1>3 DEF Working
<1>10. ASSUME NEW p \in Ops, NEW u \in 1 .. MaxUid, Claims(p, u)' PROVE Claims(p, u)
  <2>1. CASE p = o
    <3>1. ~Acquired(o)' /\ Phase(o)
      BY <1>1, <1>2 DEF Acquired, Inv
    <3>2. Working(o)' /\ receipt'[o] = u
      BY <1>10, <2>1, <3>1 DEF Claims
    <3>3. pc'[o] \in Body
      BY <1>2, <1>3, <3>2 DEF Working
    <3>4. CASE pc[o] = "acquiring"
      BY <1>2, <1>3, <2>1, <3>2, <3>3, <3>4 DEF Claims, Acquired
    <3>5. CASE pc[o] # "acquiring"
      BY <1>2, <1>3, <2>1, <3>2, <3>3, <3>5 DEF Claims, Working
    <3>. QED BY <3>4, <3>5
  <2>2. CASE p # o
    <3>1. Acquired(p)' => Acquired(p)
      BY <1>1, <1>2, <1>3, <2>2 DEF Acquired
    <3>. QED BY <1>2, <1>3, <1>9, <1>10, <2>2, <3>1 DEF Claims
  <2>. QED BY <2>1, <2>2
<1>11. Exclusive' /\ Holds'
  BY <1>2, <1>10, NoNewClaim DEF Inv
<1>12. CASE receipt'[o] = receipt[o]
  <2>1. receipt[o] # 0 /\ Working(o)' => Working(o)
    BY <1>2, <1>3, <1>12 DEF Working, Inv, Phase, Ended
  <2>2. [Lock!Next]_AtWork
    BY <1>3, <1>9, <1>12, <2>1, LeaveOrStay DEF Inv
  <2>. QED BY <1>2, <1>4, <1>5, <1>6, <1>8, <1>11, <2>2 DEF Inv
<1>13. CASE receipt'[o] # receipt[o]
  <2>. DEFINE u == seen[o].uid
  <2>1. /\ pc[o] = "acquiring" /\ reply[o] = "ok" /\ pc'[o] = "held" /\ receipt'[o] = u
        /\ u \in 1 .. MaxUid /\ receipt[o] = 0
    <3>1. Phase(o) /\ Known /\ u \in Nat /\ env.created \in Nat
      BY <1>1 DEF Inv, TypeOK, Root
    <3>2. pc[o] = "acquiring" /\ reply[o] = "ok" /\ pc'[o] = "held" /\ receipt'[o] = u
      BY <1>3, <1>13
    <3>3. u # 0 /\ receipt[o] = 0
      BY <3>1, <3>2 DEF Phase, Ended
    <3>4. u <= MaxUid
      BY <3>1 DEF Known, Constants
    <3>5. u \in 1 .. MaxUid
      BY <3>1, <3>3, <3>4 DEF Constants
    <3>. QED BY <3>2, <3>3, <3>5
  <2>. HIDE DEF u
  <2>2. AtWork[u] = {}
    <3>1. Claims(o, u)
      BY <2>1 DEF Claims, Acquired, u
    <3>2. \A p \in Ops : Claims(p, u) => p = o
      BY <2>1, <3>1 DEF Inv, Exclusive
    <3>. QED BY <2>1, <3>2 DEF AtWork, Claims
  <2>3. ASSUME NEW v \in 1 .. MaxUid
        PROVE  AtWork'[v] = IF v = u THEN {o} ELSE AtWork[v]
    <3>1. \A p \in Ops \ {o} : receipt'[p] = v /\ Working(p)' <=> receipt[p] = v /\ Working(p)
      BY <1>3, <1>9
    <3>2. Working(o)' /\ \A p \in Ops : ~(receipt[p] = u /\ Working(p))
      BY <2>1, <2>2 DEF AtWork, Working
    <3>3. v = u => \A p \in Ops : receipt'[p] = v /\ Working(p)' <=> p = o
      BY <2>1, <3>1, <3>2
    <3>4. v # u => \A p \in Ops : receipt'[p] = v /\ Working(p)' <=> receipt[p] = v /\ Working(p)
      BY <2>1, <3>1
    <3>. QED BY <3>3, <3>4 DEF AtWork
  <2>4. /\ AtWork = [v \in 1 .. MaxUid |-> AtWork[v]]
        /\ AtWork' = [v \in 1 .. MaxUid |-> AtWork'[v]]
    BY DEF AtWork
  <2>5. AtWork' = [AtWork EXCEPT ![u] = {o}]
    BY <2>1, <2>3, <2>4
  <2>6. Lock!Enter(o, u)
    BY <2>2, <2>5 DEF Lock!Enter
  <2>7. [Lock!Next]_AtWork
    BY <2>1, <2>6 DEF Lock!Next
  <2>. QED BY <1>2, <1>4, <1>5, <1>6, <1>8, <1>11, <2>7 DEF Inv
<1>. QED BY <1>12, <1>13

\* A command gives up its kubectl; the request may still be executed.
LEMMA GiveUpStep ==
  ASSUME Constants, TypeOK, Inv, NEW o \in Ops, GiveUp(o)
  PROVE  Inv' /\ [Lock!Next]_AtWork
<1>. USE DEF Body
<1>1. /\ pc \in [Ops -> PCs] /\ wire \subseteq Requests /\ seen \in [Ops -> Root]
      /\ child \in [Ops -> BOOLEAN] /\ DOMAIN reply = Ops
  BY DEF TypeOK
<1>2. /\ pc[o] \in Awaiting /\ reply[o] \in {"none", "error"}
      /\ child' = [child EXCEPT ![o] = FALSE] /\ reply' = [reply EXCEPT ![o] = "none"]
      /\ wire' = {[r EXCEPT !.awaited = @ /\ r.by # o] : r \in wire}
      /\ UNCHANGED <<root, seen, pinned, receipt, env>>
  BY DEF GiveUp, Fail
<1>3. /\ pc' = [pc EXCEPT ![o] = pc'[o]]
      /\ IF pc[o] \in {"superseding", "deleting"} THEN pc'[o] = "release" ELSE pc'[o] = "failed"
  BY <1>1 DEF GiveUp, Go, Fail
<1>4. ASSUME NEW q \in wire'
      PROVE  \E r \in wire : /\ q.by = r.by /\ q.kind = r.kind /\ q.uid = r.uid /\ q.rv = r.rv
                             /\ q.awaited => r.awaited /\ r.by # o /\ q = r
                             /\ r.by # o => q = r
  <2>1. PICK r \in wire : q = [r EXCEPT !.awaited = @ /\ r.by # o]
    BY <1>2
  <2>. QED BY <1>1, <2>1 DEF Requests
<1>5. \A r \in wire : r.by # o => r \in wire'
  <2>1. \A r \in wire : r.by # o => r = [r EXCEPT !.awaited = @ /\ r.by # o]
    BY <1>1 DEF Requests
  <2>. QED BY <1>2, <2>1
<1>6. Known' /\ One'
  BY <1>2, <1>4 DEF Inv, Known, One
<1>7. Started'
  BY <1>1, <1>2, <1>3 DEF Inv, Started, TypeOK, Root
<1>8. \A p \in Ops : Reading(p)' /\ Phase(p)'
  BY <1>1, <1>2, <1>3, States DEF Inv, Reading, Phase, Ended
<1>9. ASSUME NEW q \in wire' PROVE Sending(q)'
  <2>1. PICK r \in wire : /\ q.by = r.by /\ q.kind = r.kind /\ q.uid = r.uid /\ q.rv = r.rv
                          /\ q.awaited => r.awaited /\ r.by # o /\ q = r
                          /\ r.by # o => q = r
    BY <1>4
  <2>2. Sending(r) /\ r \in Requests
    BY <1>1 DEF Inv
  <2>3. r.kind = "recover" => Dead(seen[r.by].holder)'
    BY <1>1, <1>2, <1>3, <2>2, States DEF Sending, Root, Requests, Dead, Ended
  <2>4. CASE r.by = o
    BY <1>1, <1>2, <1>3, <2>1, <2>2, <2>3, <2>4, States DEF Sending, Ended, Fits, Requests
  <2>5. CASE r.by # o
    BY <1>1, <1>2, <1>3, <2>1, <2>2, <2>3, <2>5 DEF Sending, Ended, Fits, Requests
  <2>. QED BY <2>4, <2>5
<1>10. \A p \in Ops \ {o} : Working(p)' <=> Working(p)
  BY <1>1, <1>2, <1>3, <1>4, <1>5 DEF Working
<1>11. Working(o)' => Working(o)
  BY <1>2, <1>3, States DEF Working
<1>12. \A p \in Ops, u \in 1 .. MaxUid : Claims(p, u)' => Claims(p, u)
  BY <1>1, <1>2, <1>3, <1>10, <1>11 DEF Claims, Acquired
<1>13. Exclusive' /\ Holds'
  BY <1>2, <1>12, NoNewClaim DEF Inv
<1>14. [Lock!Next]_AtWork
  BY <1>2, <1>10, <1>11, LeaveOrStay DEF Inv
<1>. QED BY <1>6, <1>7, <1>8, <1>9, <1>13, <1>14 DEF Inv

\* The kubectl of a killed command ends, with its answer.
LEMMA ChildStep ==
  ASSUME Constants, TypeOK, Inv, NEW o \in Ops, ChildExits(o)
  PROVE  Inv' /\ [Lock!Next]_AtWork
<1>1. /\ child \in [Ops -> BOOLEAN] /\ wire \subseteq Requests /\ seen \in [Ops -> Root]
      /\ reply[o] # "none" /\ child' = [child EXCEPT ![o] = FALSE]
      /\ UNCHANGED <<root, pc, seen, pinned, receipt, wire, reply, env>>
  BY DEF TypeOK, ChildExits
<1>2. \A p \in Ops : (Working(p)' <=> Working(p)) /\ Reading(p)' /\ Phase(p)'
  BY <1>1 DEF Working, Inv, Reading, Phase, Ended
<1>3. \A p \in Ops, u \in 1 .. MaxUid : Claims(p, u)' => Claims(p, u)
  BY <1>1, <1>2 DEF Claims, Acquired
<1>4. ASSUME NEW r \in wire PROVE Sending(r)'
  <2>1. Sending(r) /\ r \in Requests
    BY <1>1 DEF Inv
  <2>2. r.kind = "recover" => Dead(seen[r.by].holder)'
    BY <1>1, <2>1 DEF Sending, Root, Requests, Dead, Ended
  <2>. QED BY <1>1, <2>1, <2>2 DEF Sending, Ended, Fits, Requests
<1>5. Known' /\ One' /\ Started'
  BY <1>1 DEF Inv, Known, One, Started
<1>6. Exclusive' /\ Holds' /\ [Lock!Next]_AtWork
  BY <1>1, <1>2, <1>3, NoNewClaim, LeaveOrStay DEF Inv
<1>. QED BY <1>1, <1>2, <1>4, <1>5, <1>6 DEF Inv

\* What the server does with a request: it writes the version it was sent for, or
\* nothing.
LEMMA ServerStep ==
  ASSUME Constants, TypeOK, Inv, NEW r \in wire, Execute(r) \/ Lose(r)
  PROVE  Inv' /\ [Lock!Next]_AtWork
<1>. USE DEF Body
<1>. DEFINE o == r.by
            written == Execute(r) /\ Fits(r)
<1>1. /\ wire \subseteq Requests /\ seen \in [Ops -> Root] /\ root \in Root
      /\ DOMAIN reply = Ops /\ o \in Ops /\ r \in Requests /\ Sending(r)
  BY DEF TypeOK, Requests, Inv
<1>2. /\ wire' = wire \ {r}
      /\ UNCHANGED <<pc, seen, pinned, receipt, child, env>>
      /\ ~r.awaited => reply' = reply
      /\ r.awaited => /\ reply' = [reply EXCEPT ![o] = reply'[o]]
                      /\ reply'[o] = "ok" <=> written
                      /\ reply'[o] \in {"ok", "conflict", "error"}
  BY <1>1 DEF Execute, Lose
<1>3. ~written => root' = root
  BY DEF Execute, Lose
<1>4. written => /\ root'.uid = root.uid /\ root'.rv = root.rv + 1
                 /\ root'.holder = CASE r.kind = "acquire" -> o
                                     [] r.kind \in {"recover", "release"} -> None
                                     [] OTHER -> root.holder
  BY <1>1 DEF Execute, Effect, Root, Requests
<1>5. written => Fits(r)
  OBVIOUS
<1>. HIDE DEF o, written
<1>6. Known' /\ One'
  BY <1>2, <1>3, <1>4 DEF Inv, Known, One
<1>7. Started'
  BY <1>1, <1>2, <1>3, <1>4 DEF Inv, Started, Sending, o
<1>8. \A p \in Ops : Reading(p)' /\ Phase(p)'
  BY <1>1, <1>2, <1>3, <1>4 DEF Inv, Reading, Phase, Ended, Root
<1>9. ASSUME NEW s \in wire' PROVE Sending(s)'
  <2>1. Sending(s) /\ s \in Requests /\ s # r /\ s \in wire
    BY <1>1, <1>2 DEF Inv
  <2>2. s.awaited => reply'[s.by] = reply[s.by]
    BY <1>1, <1>2, <2>1 DEF Inv, One, o, Requests
  <2>3. s.rv <= root'.rv /\ (written => ~Fits(s)')
    BY <1>1, <1>2, <1>3, <1>4, <2>1 DEF Sending, Fits, Requests, Root
  <2>4. s.kind = "recover" => Dead(seen[s.by].holder)'
    BY <1>2, <2>1 DEF Sending, Dead, Ended
  <2>5. Fits(s)' => Fits(s) /\ root' = root
    BY <1>3, <2>3 DEF Fits
  <2>. QED BY <1>2, <2>1, <2>2, <2>3, <2>4, <2>5 DEF Sending, Ended
<1>10. \A p \in Ops \ {o} : Working(p)' <=> Working(p)
  BY <1>1, <1>2 DEF Working, o
<1>11. Working(o)' => Working(o)
  BY <1>1, <1>2 DEF Working, Sending, o
<1>12. [Lock!Next]_AtWork
  BY <1>1, <1>2, <1>10, <1>11, LeaveOrStay DEF Inv
<1>13. ASSUME NEW p \in Ops, NEW u \in 1 .. MaxUid, Claims(p, u)', ~Claims(p, u)
       PROVE  written /\ r.kind = "acquire" /\ p = o /\ u = root.uid
  <2>1. p = o /\ r.awaited /\ pc[o] = "acquiring" /\ reply'[o] = "ok" /\ u = seen[o].uid
    BY <1>1, <1>2, <1>10, <1>11, <1>13 DEF Claims, Acquired
  <2>. QED BY <1>1, <1>2, <1>5, <2>1 DEF Sending, Fits, Requests, Ended, o
<1>14. CASE ~written \/ r.kind \in {"supersede", "delete"}
  <2>1. \A p \in Ops, u \in 1 .. MaxUid : Claims(p, u)' => Claims(p, u)
    BY <1>13, <1>14
  <2>2. Exclusive' /\ Holds'
    BY <1>3, <1>4, <1>14, <2>1, NoNewClaim DEF Inv
  <2>. QED BY <1>6, <1>7, <1>8, <1>9, <1>12, <2>2 DEF Inv
<1>15. CASE written /\ r.kind \in {"acquire", "recover", "release"}
  <2>1. root.uid \in 1 .. MaxUid /\ root'.uid = root.uid
    BY <1>1, <1>4, <1>5, <1>15 DEF Inv, Known, Root, Sending, Fits, Constants, TypeOK
  <2>2. \A p \in Ops : Claims(p, root.uid)' => p = o /\ r.kind = "acquire"
    <3>1. /\ r.kind = "acquire" => root.holder = None
          /\ r.kind = "recover" => root.holder = seen[o].holder /\ Dead(seen[o].holder)
          /\ r.kind = "release" => root.holder = o
      BY <1>1, <1>5, <1>15 DEF Sending, o
    <3>2. \A p \in Ops : Claims(p, root.uid) => root.holder = p
      BY <2>1 DEF Inv, Holds
    <3>3. CASE r.kind = "acquire"
      <4>1. \A p \in Ops : ~Claims(p, root.uid)
        BY <3>1, <3>2, <3>3 DEF Constants
      <4>. QED BY <1>13, <2>1, <3>3, <4>1
    <3>4. CASE r.kind = "recover"
      <4>1. \A p \in Ops : Claims(p, root.uid) => Dead(p)
        BY <3>1, <3>2, <3>4
      <4>2. \A p \in Ops : Dead(p) => ~Working(p) /\ ~Acquired(p)
        BY DEF Dead, Ended, Working, Acquired, Inv, Sending
      <4>. QED BY <1>13, <2>1, <3>4, <4>1, <4>2 DEF Claims
    <3>5. CASE r.kind = "release"
      <4>1. \A p \in Ops : Claims(p, root.uid)' => p = o
        BY <1>13, <2>1, <3>1, <3>2, <3>5
      <4>2. ~Acquired(o)'
        BY <1>1, <1>2, <3>5 DEF Acquired, Sending, o
      <4>3. ~Working(o)'
        BY <1>1, <1>2, <1>15, <3>5 DEF Working, Sending, Inv, One, o
      <4>. QED BY <4>1, <4>2, <4>3 DEF Claims
    <3>. QED BY <1>15, <3>3, <3>4, <3>5
  <2>3. Exclusive'
    BY <1>13, <2>1, <2>2 DEF Inv, Exclusive
  <2>4. Holds'
    BY <1>4, <1>15, <2>1, <2>2 DEF Holds
  <2>. QED BY <1>6, <1>7, <1>8, <1>9, <1>12, <2>3, <2>4 DEF Inv
<1>16. r.kind \in {"acquire", "recover", "release", "supersede", "delete"}
  BY <1>1 DEF Requests
<1>. QED BY <1>14, <1>15, <1>16
=============================================================================
