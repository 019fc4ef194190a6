----------------------- MODULE RequestLedgerStepProofs ------------------------
(*****************************************************************************)
(* What a step of the request ledger may never do, for any constants: revive *)
(* a concluded request, exceed a limit while queueing or reserving, or take  *)
(* engine-owned work from its owner.  Each transition is described by two    *)
(* facts: which slots may become queued or charged, and which engine-owned   *)
(* slots stay where they are.                                                *)
(*****************************************************************************)
EXTENDS RequestLedgerOwnerProofs

\* No slot becomes queued or charged.
Shrinks ==
    \A x \in Slots : /\ slot'[x].state \in Queued => slot[x].state \in Queued
                     /\ slot'[x].state \in Charged => slot[x].state \in Charged

\* The slot stays with the engine process that owns it.
Stays(x) ==
    /\ slot'[x].state \in Engine /\ slot'[x].owner = slot[x].owner
    /\ slot'[x].pod = slot[x].pod /\ slot'[x].epoch = slot[x].epoch

\* No slot gets a new owner.
NoClaim == \A x \in Slots : slot'[x].state \in Engine => slot[x].state \in Engine /\ Stays(x)

----------------------------------------------------------------------------
(* Finishing slots *)

\* Release finishes the slots of S alone: every other open slot is as marked
\* has it, because its record is not disposable.
LEMMA ReleaseSpares ==
  ASSUME LedgerInv,
         NEW S \in SUBSET Slots, NEW marked \in [Slots -> SlotRecord],
         NEW req \in [Ids -> RequestRecord], NEW saved \in SUBSET Ids,
         KeepsRecords(req, saved), Release(S, marked, req, saved),
         NEW x \in Slots, slot[x].state \in Open, x \notin S
  PROVE  slot'[x] = marked[x]
<1> DEFINE open == S \cap SlotsIn(Open)
           id == x[1]
           rest == [i \in Ids |->
                      [req[i] EXCEPT !.remaining = @ - Cardinality(open \cap SlotsOf(i))]]
           after == [y \in Slots |->
                      IF y \in open THEN [marked[y] EXCEPT !.state = "completed"] ELSE marked[y]]
           dropped == {i \in saved : Disposable(rest[i])}
<1>1. slot' = [y \in Slots |-> IF y[1] \in dropped THEN NoSlot ELSE after[y]]
  BY DEF Release, Save
<1>2. id \in Ids /\ x \notin open /\ after[x] = marked[x]
  BY DEF Slots
<1>3. rest[id].remaining = Cardinality(SlotsOfIn(id, Open)) - Cardinality(open \cap SlotsOf(id))
  <2>1. req[id].remaining = Cardinality(SlotsOfIn(id, Open))
    BY <1>2 DEF KeepsRecords, LedgerInv, RemainingExact
  <2>2. req[id] \in RequestRecord
    BY <1>2
  <2>3. rest[id] = [req[id] EXCEPT !.remaining = @ - Cardinality(open \cap SlotsOf(id))]
    BY <1>2
  <2> HIDE DEF open, id, rest
  <2>. QED BY <2>1, <2>2, <2>3 DEF RequestRecord
<1>4. rest[id].remaining # 0
  <2> DEFINE all == SlotsOfIn(id, Open)
             part == open \cap SlotsOf(id)
  <2>1. all \in SUBSET Slots /\ part \in SUBSET all /\ x \in all \ part
    BY DEF SlotsOfIn, SlotsOf, SlotsIn
  <2>2. rest[id].remaining = Cardinality(all) - Cardinality(part)
    BY <1>3
  <2> HIDE DEF all, part, rest, id
  <2>3. Cardinality(all \ part) = Cardinality(all) - Cardinality(part)
    BY <2>1, CountRemoved
  <2>4. Cardinality(all \ part) # 0
    BY <2>1, CountZero
  <2>. QED BY <2>2, <2>3, <2>4
<1>5. id \notin dropped
  BY <1>4 DEF Disposable
<1> HIDE DEF dropped, after
<1>. QED BY <1>1, <1>2, <1>5

\* Marking accepted slots as cancelling gives no slot a new owner.
LEMMA CancellingClaims ==
  ASSUME LedgerInv, NEW C \in SUBSET SlotsIn({"accepted"}), NEW S, NEW req,
         KeptOpen(S, Cancelling(C), req)
  PROVE  NoClaim
<1> SUFFICES ASSUME NEW x \in Slots, slot'[x].state \in Engine
             PROVE  slot[x].state \in Engine /\ Stays(x)
  BY DEF NoClaim
<1>1. slot'[x] = Cancelling(C)[x]
  BY DEF KeptOpen, Open, Charged, Engine
<1>2. slot[x] \in SlotRecord
  BY DEF LedgerInv, TypeOK
<1>. QED BY <1>1, <1>2 DEF Cancelling, SlotsIn, SlotRecord, Stays, Engine

\* The same for cancel_slot, whatever S is: engine-owned work stays.
LEMMA CancelSpares ==
  ASSUME LedgerInv, NEW S \in SUBSET Slots, NEW req \in [Ids -> RequestRecord],
         NEW saved \in SUBSET Ids, KeepsRecords(req, saved), Cancel(S, req, saved)
  PROVE  Shrinks /\ NoClaim /\ \A x \in SlotsIn(Engine) : Stays(x)
<1> DEFINE U == S \cap SlotsIn(Unsubmitted)
           C == S \cap SlotsIn({"accepted"})
<1>1. Release(U, Cancelling(C), req, saved)
  BY DEF Cancel
<1>2. C \in SUBSET SlotsIn({"accepted"}) /\ U \in SUBSET Slots
      /\ \A x \in SlotsIn(Engine) : x \notin U
  BY DEF SlotsIn, Engine, Unsubmitted
<1> HIDE DEF U, C
<1>3. Cancelling(C) \in [Slots -> SlotRecord] /\ KeepsClasses(Cancelling(C))
  BY <1>2, CancellingKeeps DEF LedgerInv
<1>4. KeptOpen(U, Cancelling(C), req)
  BY <1>1, <1>2, <1>3, ReleaseEffect
<1>5. Shrinks
  BY <1>3, <1>4 DEF Shrinks, KeptOpen, KeepsClasses, Open
<1>6. ASSUME NEW x \in SlotsIn(Engine) PROVE Stays(x)
  <2>1. x \in Slots /\ slot[x].state \in Open /\ slot[x].state \in Engine /\ x \notin U
    BY <1>2 DEF SlotsIn, Engine, Open, Charged
  <2>2. slot'[x] = Cancelling(C)[x]
    BY <1>1, <1>2, <1>3, <2>1, ReleaseSpares
  <2>3. slot[x] \in SlotRecord
    BY <2>1 DEF LedgerInv, TypeOK
  <2>. QED BY <2>1, <2>2, <2>3 DEF Stays, Cancelling, SlotRecord, Engine
<1>7. NoClaim
  BY <1>2, <1>4, CancellingClaims
<1>. QED BY <1>5, <1>6, <1>7

----------------------------------------------------------------------------
(* The transitions *)

\* recover_backend ends only work of earlier processes of its pod.
LEMMA RecoverBackendStep ==
  ASSUME LedgerInv, NEW p \in Pods, NEW e \in Nat, RecoverBackend(p, e)
  PROVE  /\ Shrinks /\ NoClaim
         /\ \A x \in SlotsIn(Engine) : ~(slot[x].pod = p /\ slot[x].epoch < e) => Stays(x)
<1> DEFINE S == OnEarlierProcess(p, e)
<1>1. S \in SUBSET Slots /\ \A x \in S : slot[x].state # "absent"
  BY DEF OnEarlierProcess, SlotsIn, Engine
<1>2. IdsOf(S) \in SUBSET Ids /\ \A id \in IdsOf(S) : request[id].exists
  BY <1>1, SlotHasRecord DEF IdsOf, LedgerInv
<1>3. Release(S, slot, request, IdsOf(S))
  BY DEF RecoverBackend
<1>4. KeepsClasses(slot) /\ KeepsRecords(request, IdsOf(S))
  BY <1>2 DEF KeepsClasses, KeepsRecords
<1>5. slot \in [Slots -> SlotRecord] /\ request \in [Ids -> RequestRecord]
  BY DEF LedgerInv, TypeOK
<1>6. \A x \in SlotsIn(Engine) : x \in S => slot[x].pod = p /\ slot[x].epoch < e
  BY DEF OnEarlierProcess
<1> HIDE DEF S
<1>7. KeptOpen(S, slot, request)
  BY <1>1, <1>2, <1>3, <1>4, <1>5, ReleaseEffect
<1>8. Shrinks /\ NoClaim
  BY <1>7 DEF Shrinks, NoClaim, Stays, KeptOpen, Open, Charged, Engine
<1>9. ASSUME NEW x \in SlotsIn(Engine), x \notin S PROVE Stays(x)
  <2>1. x \in Slots /\ slot[x].state \in Open /\ slot[x].state \in Engine
    BY DEF SlotsIn, Engine, Open, Charged
  <2>2. slot'[x] = slot[x]
    BY <1>1, <1>2, <1>3, <1>4, <1>5, <1>9, <2>1, ReleaseSpares
  <2>. QED BY <2>1, <2>2 DEF Stays
<1>. QED BY <1>6, <1>8, <1>9

\* publish and publish_membership end only work of removed pods.
LEMMA ApplyMembershipStep ==
  ASSUME LedgerInv, NEW v \in Nat, NEW F \in SUBSET Frontends, NEW B \in SUBSET Pods,
         ApplyMembership(v, F, B)
  PROVE  /\ Shrinks /\ NoClaim
         /\ \A x \in SlotsIn(Engine) : slot[x].pod \in backends' => Stays(x)
<1>1. CASE v > membershipVersion
  <2> DEFINE departed == {id \in Ids : request[id].exists /\ request[id].frontend \notin F}
             ended == OnRemovedPods(B)
             S == (RequestsOf(departed) \cap SlotsIn(Unsubmitted)) \cup ended
             C == RequestsOf(departed) \cap SlotsIn({"accepted"})
             saved == departed \cup IdsOf(ended)
  <2>1. ended \in SUBSET Slots /\ \A x \in ended : slot[x].state # "absent"
    BY DEF OnRemovedPods, SlotsIn, Engine
  <2>2. IdsOf(ended) \in SUBSET Ids /\ \A id \in IdsOf(ended) : request[id].exists
    BY <2>1, SlotHasRecord DEF IdsOf, LedgerInv
  <2>3. saved \in SUBSET Ids /\ departed \subseteq saved /\ \A id \in saved : request[id].exists
    BY <2>2
  <2>4. /\ S \in SUBSET Slots /\ C \in SUBSET SlotsIn({"accepted"})
        /\ \A x \in SlotsIn(Engine) : x \in S => slot[x].pod \notin B
    BY <2>1 DEF OnRemovedPods, SlotsIn, Unsubmitted, Engine
  <2>5. Cancelling(C) \in [Slots -> SlotRecord] /\ KeepsClasses(Cancelling(C))
    BY CancellingKeeps, Zenon DEF LedgerInv
  <2>6. Retired(departed) \in [Ids -> RequestRecord] /\ KeepsRecords(Retired(departed), saved)
    BY <2>3, RetiredKeeps, Zenon DEF LedgerInv
  <2>7. Release(S, Cancelling(C), Retired(departed), saved) /\ backends' = B
    BY <1>1 DEF ApplyMembership
  <2> HIDE DEF S, C, saved, departed
  <2>8. KeptOpen(S, Cancelling(C), Retired(departed))
    BY <2>3, <2>4, <2>5, <2>6, <2>7, ReleaseEffect
  <2>9. Shrinks
    BY <2>5, <2>8 DEF Shrinks, KeptOpen, KeepsClasses, Open
  <2>10. ASSUME NEW x \in SlotsIn(Engine), x \notin S PROVE Stays(x)
    <3>1. x \in Slots /\ slot[x].state \in Open /\ slot[x].state \in Engine
      BY DEF SlotsIn, Engine, Open, Charged
    <3>2. slot'[x] = Cancelling(C)[x]
      BY <2>3, <2>4, <2>5, <2>6, <2>7, <2>10, <3>1, ReleaseSpares
    <3>3. slot[x] \in SlotRecord
      BY <3>1 DEF LedgerInv, TypeOK
    <3>. QED BY <3>1, <3>2, <3>3 DEF Stays, Cancelling, SlotRecord, Engine
  <2>11. NoClaim
    BY <2>4, <2>8, CancellingClaims
  <2>. QED BY <2>4, <2>7, <2>9, <2>10, <2>11
<1>2. CASE ~(v > membershipVersion)
  <2>1. slot' = slot
    BY <1>2 DEF ApplyMembership, requestVars
  <2>. QED BY <2>1 DEF Shrinks, NoClaim, Stays, SlotsIn
<1>. QED BY <1>1, <1>2

\* register_owner cancels the work of the frontend's former process.
LEMMA RegisterOwnerStep ==
  ASSUME LedgerInv, NEW f \in Frontends, NEW e \in Nat, RegisterOwner(f, e)
  PROVE  Shrinks /\ NoClaim /\ \A x \in SlotsIn(Engine) : Stays(x)
<1> DEFINE departed == {id \in Ids : /\ request[id].exists
                                     /\ request[id].frontend = f
                                     /\ request[id].epoch # e}
<1>1. Cancel(RequestsOf(departed), Retired(departed), departed)
  BY DEF RegisterOwner
<1>2. Retired(departed) \in [Ids -> RequestRecord] /\ KeepsRecords(Retired(departed), departed)
  BY RetiredKeeps, Zenon DEF LedgerInv
<1>3. RequestsOf(departed) \in SUBSET Slots /\ departed \in SUBSET Ids
  BY DEF RequestsOf
<1> HIDE DEF departed
<1>. QED BY <1>1, <1>2, <1>3, CancelSpares

\* cancel_entry cancels one request.
LEMMA CancelEntryStep ==
  ASSUME LedgerInv, NEW id \in Ids, NEW f \in Frontends, NEW e \in Nat, NEW c \in AnyCaller,
         CancelEntry(id, f, e, c)
  PROVE  Shrinks /\ NoClaim /\ \A x \in SlotsIn(Engine) : Stays(x)
<1> DEFINE entry == IF request[id].exists THEN request[id] ELSE NewRequest(c, None, f, e, 0)
           req == [request EXCEPT ![id] = [entry EXCEPT !.cancelled = TRUE]]
<1>1. Cancel(SlotsOf(id), req, {id})
  BY DEF CancelEntry
<1>2. req \in [Ids -> RequestRecord] /\ KeepsRecords(req, {id})
  BY FencedRecord
<1>3. SlotsOf(id) \in SUBSET Slots
  BY DEF SlotsOf
<1> HIDE DEF req
<1>. QED BY <1>1, <1>2, <1>3, CancelSpares

\* drop cancels one slot.
LEMMA DropStep ==
  ASSUME LedgerInv, NEW x \in Slots, Drop(x)
  PROVE  Shrinks /\ NoClaim /\ \A y \in SlotsIn(Engine) : Stays(y)
<1>1. request \in [Ids -> RequestRecord] /\ x[1] \in Ids /\ request[x[1]].exists
  BY DEF LedgerInv, TypeOK, Slots, Drop, Addressed
<1>2. {x[1]} \in SUBSET Ids /\ KeepsRecords(request, {x[1]}) /\ {x} \in SUBSET Slots
  BY <1>1 DEF KeepsRecords
<1>3. Cancel({x}, request, {x[1]})
  BY DEF Drop
<1>. QED BY <1>1, <1>2, <1>3, CancelSpares

\* reject_before_submission ends its own slot, and engine work only for its owner.
LEMMA RejectStep ==
  ASSUME LedgerInv, NEW x \in Slots, NEW o \in Owners, RejectBeforeSubmission(x, o)
  PROVE  /\ Shrinks /\ NoClaim
         /\ \A y \in SlotsIn(Engine) : ~(y = x /\ slot[y].owner = o) => Stays(y)
<1> DEFINE rejected == /\ o \notin slot[x].finished
                       /\ slot[x].state \in Unsubmitted \/ OwnedBy(x, o)
           S == IF rejected THEN {x} ELSE {}
<1>1. /\ request \in [Ids -> RequestRecord] /\ slot \in [Slots -> SlotRecord]
      /\ x[1] \in Ids /\ request[x[1]].exists
  BY DEF LedgerInv, TypeOK, Slots, RejectBeforeSubmission, Addressed
<1>2. Release(S, slot, request, {x[1]})
  BY DEF RejectBeforeSubmission
<1>3. /\ S \in SUBSET Slots /\ {x[1]} \in SUBSET Ids
      /\ KeepsRecords(request, {x[1]}) /\ KeepsClasses(slot)
  BY <1>1 DEF KeepsRecords, KeepsClasses
<1>4. \A y \in SlotsIn(Engine) : y \in S => y = x /\ slot[y].owner = o
  BY DEF SlotsIn, OwnedBy, Engine, Unsubmitted
<1> HIDE DEF S
<1>5. KeptOpen(S, slot, request)
  BY <1>1, <1>2, <1>3, ReleaseEffect
<1>6. Shrinks /\ NoClaim
  BY <1>5 DEF Shrinks, NoClaim, Stays, KeptOpen, Open, Charged, Engine
<1>7. ASSUME NEW y \in SlotsIn(Engine), y \notin S PROVE Stays(y)
  <2>1. y \in Slots /\ slot[y].state \in Open /\ slot[y].state \in Engine
    BY DEF SlotsIn, Engine, Open, Charged
  <2>2. slot'[y] = slot[y]
    BY <1>1, <1>2, <1>3, <1>7, <2>1, ReleaseSpares
  <2>. QED BY <2>1, <2>2 DEF Stays
<1>. QED BY <1>4, <1>6, <1>7

\* complete ends or hands off the slot of the owner that reports.
LEMMA CompleteStep ==
  ASSUME LedgerInv, NEW x \in Slots, NEW o \in Owners, NEW finalStage \in BOOLEAN,
         Complete(x, o, finalStage)
  PROVE  /\ Shrinks /\ NoClaim /\ slot[x].owner = o /\ slot'[x].state \notin Engine
         /\ \A y \in SlotsIn(Engine) : y # x => Stays(y)
<1> DEFINE final == finalStage \/ slot[x].state = "cancelling"
           reported == [slot EXCEPT ![x].finished = @ \cup {o},
                                    ![x].state = IF final THEN @ ELSE "handoff"]
           S == IF final THEN {x} ELSE {}
<1>1. /\ request \in [Ids -> RequestRecord] /\ slot \in [Slots -> SlotRecord]
      /\ x[1] \in Ids /\ request[x[1]].exists
  BY DEF LedgerInv, TypeOK, Slots, Complete, Addressed
<1>2. slot[x] \in SlotRecord /\ slot[x].state \in {"accepted", "cancelling"} /\ slot[x].owner = o
  BY <1>1, Zenon DEF Complete, OwnedBy, Engine
<1>3. reported \in [Slots -> SlotRecord]
  BY <1>1, <1>2, Zenon DEF SlotRecord, SlotState
<1>4. KeepsClasses(reported)
  BY <1>1, <1>2 DEF KeepsClasses, Queued, Charged, SlotRecord
<1>5. \A y \in Slots : y # x => reported[y] = slot[y]
  BY <1>1
<1>6. Release(S, reported, request, {x[1]})
  BY DEF Complete
<1>7. /\ S \in SUBSET Slots /\ {x[1]} \in SUBSET Ids /\ KeepsRecords(request, {x[1]})
      /\ \A y \in Slots : y # x => y \notin S
  BY <1>1 DEF KeepsRecords
<1>8. x \notin S => reported[x].state = "handoff"
  BY <1>1, <1>2 DEF SlotRecord
<1> HIDE DEF S, reported
<1>9. KeptOpen(S, reported, request)
  BY <1>1, <1>3, <1>4, <1>6, <1>7, ReleaseEffect
<1>10. Shrinks
  BY <1>4, <1>9 DEF Shrinks, KeptOpen, KeepsClasses, Open
<1>11. NoClaim /\ slot'[x].state \notin Engine
  <2>1. slot'[x].state \notin Engine
    BY <1>2, <1>9, <1>8 DEF KeptOpen, Open, Charged, Engine
  <2>. QED BY <1>5, <1>9, <2>1 DEF NoClaim, Stays, KeptOpen, Open, Charged, Engine
<1>12. ASSUME NEW y \in SlotsIn(Engine), y # x PROVE Stays(y)
  <2>1. y \in Slots /\ slot[y].state \in Open /\ slot[y].state \in Engine /\ y \notin S
    BY <1>7, <1>12 DEF SlotsIn, Engine, Open, Charged
  <2>2. slot'[y] = slot[y]
    BY <1>1, <1>3, <1>5, <1>6, <1>7, <1>12, <2>1, ReleaseSpares
  <2>. QED BY <2>1, <2>2 DEF Stays
<1>. QED BY <1>2, <1>10, <1>12, <1>11

\* enqueue queues slots of its own id alone.
LEMMA EnqueueStep ==
  ASSUME LedgerInv, NEW id \in Ids, NEW f, NEW e, NEW c, NEW r, NEW units,
         Enqueue(id, f, e, c, r, units)
  PROVE  /\ \A x \in Slots : x[1] # id => slot'[x] = slot[x]
         /\ \A x \in Slots : slot'[x].state \in Charged => slot[x].state \in Charged
         /\ NoClaim /\ \A x \in SlotsIn(Engine) : Stays(x)
<1>1. /\ slot' = [x \in Slots |-> IF x[1] = id /\ x[2] <= units THEN NewSlot ELSE slot[x]]
      /\ ~request[id].exists
  BY DEF Enqueue
<1>2. \A x \in Slots : x[1] = id => slot[x].state = "absent"
  BY <1>1 DEF LedgerInv, RemainingExact, SlotsOf
<1>3. \A x \in Slots : slot'[x] = NewSlot \/ slot'[x] = slot[x]
  BY <1>1
<1>4. \A x \in SlotsIn(Engine) : x[1] # id
  BY <1>2 DEF SlotsIn, Engine
<1>5. \A x \in Slots : x[1] # id => slot'[x] = slot[x]
  BY <1>1
<1>. QED BY <1>3, <1>4, <1>5 DEF NewSlot, NoSlot, Charged, Engine, NoClaim, Stays, SlotsIn

\* dispatch reserves waiting slots of its own id alone.
LEMMA DispatchStep ==
  ASSUME LedgerInv, NEW id \in Ids, Dispatch(id)
  PROVE  /\ request' = request
         /\ \A x \in Slots : \/ slot'[x] = slot[x]
                             \/ x[1] = id /\ slot[x].state = "waiting" /\ slot'[x].state = "reserved"
<1> DEFINE needed == SlotsOfIn(id, {"waiting"})
           slots == [x \in Slots |-> IF x \in needed THEN [slot[x] EXCEPT !.state = "reserved"]
                                     ELSE slot[x]]
<1>1. request[id].exists /\ Save(request, slots, {id})
  BY DEF Dispatch, DispatchReply
<1>2. request' = [i \in Ids |-> request[i]] /\ slot' = [x \in Slots |-> slots[x]]
  <2>1. ~Disposable(request[id])
    BY <1>1, StoredStays DEF LedgerInv
  <2> HIDE DEF slots
  <2>. QED BY <1>1, <2>1 DEF Save
<1>3. request \in [Ids -> RequestRecord] /\ \A x \in Slots : slot[x] \in SlotRecord
  BY DEF LedgerInv, TypeOK
<1>4. \A x \in needed : x[1] = id /\ slot[x].state = "waiting"
  BY DEF SlotsOfIn, SlotsOf, SlotsIn
<1> HIDE DEF needed
<1>. QED BY <1>2, <1>3, <1>4 DEF SlotRecord

\* retry returns reserved slots of its own id alone.
LEMMA RetryStep ==
  ASSUME LedgerInv, NEW id \in Ids, Retry(id)
  PROVE  Shrinks /\ NoClaim /\ \A x \in SlotsIn(Engine) : Stays(x)
<1> DEFINE returned == SlotsOfIn(id, {"reserved"})
           slots == [x \in Slots |-> IF x \in returned THEN [slot[x] EXCEPT !.state = "waiting"]
                                     ELSE slot[x]]
<1>1. request[id].exists /\ Save(request, slots, {id})
  BY DEF Retry, RetryReply
<1>2. slot' = [x \in Slots |-> slots[x]]
  <2>1. ~Disposable(request[id])
    BY <1>1, StoredStays DEF LedgerInv
  <2> HIDE DEF slots
  <2>. QED BY <1>1, <2>1 DEF Save
<1>3. \A x \in Slots : slot[x] \in SlotRecord
  BY DEF LedgerInv, TypeOK
<1>4. \A x \in returned : slot[x].state = "reserved"
  BY DEF SlotsOfIn, SlotsOf, SlotsIn
<1> HIDE DEF returned
<1>5. \A x \in Slots : \/ slot'[x] = slot[x]
                       \/ slot[x].state = "reserved" /\ slot'[x].state = "waiting"
  BY <1>2, <1>3, <1>4 DEF SlotRecord
<1>. QED BY <1>5 DEF Shrinks, NoClaim, Stays, SlotsIn, Queued, Charged, Engine

\* accept gives a reserved or handed-off slot to one execution.
LEMMA AcceptStep ==
  ASSUME LedgerInv, NEW x \in Slots, NEW o, NEW p, NEW e, Accept(x, o, p, e)
  PROVE  /\ Shrinks /\ slot[x].state \in {"reserved", "handoff"}
         /\ slot'[x].state = "accepted" /\ slot'[x].owner = o
         /\ slot'[x].pod = p /\ slot'[x].epoch = e
         /\ \A y \in Slots : y # x => slot'[y] = slot[y]
<1> DEFINE req == [request EXCEPT ![x[1]].accepted = TRUE]
           moved == [slot EXCEPT ![x].state = "accepted", ![x].owner = o,
                                 ![x].pod = p, ![x].epoch = e]
<1>1. /\ request \in [Ids -> RequestRecord] /\ slot \in [Slots -> SlotRecord] /\ x[1] \in Ids
      /\ request[x[1]] \in RequestRecord /\ slot[x] \in SlotRecord
  BY DEF LedgerInv, TypeOK, Slots
<1>2. slot[x].state \in {"reserved", "handoff"} /\ request[x[1]].exists
  BY SlotHasRecord DEF Accept, LedgerInv
<1>3. /\ req[x[1]].remaining = request[x[1]].remaining
      /\ req[x[1]].cancelled = request[x[1]].cancelled
      /\ req[x[1]].retired = request[x[1]].retired
  BY <1>1, Zenon DEF RequestRecord
<1>4. /\ moved[x].state = "accepted" /\ moved[x].owner = o /\ moved[x].pod = p /\ moved[x].epoch = e
      /\ \A y \in Slots : y # x => moved[y] = slot[y]
  BY <1>1 DEF SlotRecord
<1>5. Save(req, moved, {x[1]})
  BY DEF Accept
<1> HIDE DEF req, moved
<1>6. slot' = [y \in Slots |-> moved[y]]
  <2>1. ~Disposable(req[x[1]])
    BY <1>1, <1>2, <1>3, StoredStays DEF LedgerInv, Disposable
  <2>. QED BY <1>5, <2>1 DEF Save
<1>7. Shrinks
  BY <1>2, <1>4, <1>6 DEF Shrinks, Queued, Charged
<1>. QED BY <1>2, <1>4, <1>6, <1>7

----------------------------------------------------------------------------
(* Every step *)

\* A transition may end engine-owned work for the four reasons alone, and only
\* enqueue and dispatch queue or charge slots.
LEMMA LedgerStep ==
  ASSUME LedgerInv, [Next]_vars
  PROVE  /\ EngineWorkKept
         /\ \/ Shrinks
            \/ \E id \in Ids, f \in Frontends, e \in Nat, c \in AnyCaller, r \in Roles,
                  units \in SlotIndex : Enqueue(id, f, e, c, r, units)
            \/ \E id \in Ids : Dispatch(id)
<1> USE DEF SlotsIn
<1>1. CASE slot' = slot
  BY <1>1 DEF EngineWorkKept, Shrinks
<1>2. CASE Publication
  <2>1. PICK v \in 0 .. MaxVersion, F \in SUBSET Frontends, B \in SUBSET Pods :
          ApplyMembership(v, F, B)
    BY <1>2 DEF Publication, Publish, PublishMembership
  <2>2. v \in Nat
    BY LedgerAssumption
  <2>3. Shrinks /\ \A x \in SlotsIn(Engine) : slot[x].pod \in backends' => Stays(x)
    BY <2>1, <2>2, ApplyMembershipStep
  <2>. QED BY <2>3 DEF EngineWorkKept, Stays
<1>3. CASE ProcessEpoch
  <2>1. ASSUME NEW p \in Pods, NEW e \in 1 .. MaxEngineEpoch, RecoverBackend(p, e)
        PROVE  EngineWorkKept /\ Shrinks
    <3>1. e \in Nat
      BY LedgerAssumption
    <3>2. /\ Shrinks
          /\ \A x \in SlotsIn(Engine) : ~(slot[x].pod = p /\ slot[x].epoch < e) => Stays(x)
      BY <2>1, <3>1, RecoverBackendStep
    <3>3. backend'[p] = e
      BY <2>1 DEF RecoverBackend, LedgerInv, TypeOK
    <3>. QED BY <3>2, <3>3 DEF EngineWorkKept, Stays
  <2>2. ASSUME NEW f \in Frontends, NEW e \in 1 .. ownerEpoch, RegisterOwner(f, e)
        PROVE  EngineWorkKept /\ Shrinks
    <3>1. e \in Nat
      BY DEF LedgerInv, TypeOK
    <3>. QED BY <2>2, <3>1, RegisterOwnerStep DEF EngineWorkKept, Stays
  <2>3. ASSUME NEW f \in Frontends, AllocateOwner(f) PROVE slot' = slot
    BY <2>3 DEF AllocateOwner, requestVars
  <2>. QED BY <1>1, <1>3, <2>1, <2>2, <2>3 DEF ProcessEpoch
<1>4. CASE RequestTransition
  <2>1. ASSUME NEW id \in Ids, NEW f \in Frontends, NEW e \in 1 .. ownerEpoch,
               NEW c \in AnyCaller, NEW r \in Roles, NEW units \in SlotIndex,
               Enqueue(id, f, e, c, r, units)
        PROVE  EngineWorkKept /\ e \in Nat
    <3>1. \A x \in SlotsIn(Engine) : Stays(x)
      BY <2>1, EnqueueStep
    <3>2. EngineWorkKept
      BY <3>1 DEF EngineWorkKept, Stays, SlotsIn
    <3>3. e \in Nat
      BY DEF LedgerInv, TypeOK
    <3>. QED BY <3>2, <3>3
  <2>2. ASSUME NEW id \in Ids, NEW f \in Frontends, NEW e \in 1 .. ownerEpoch,
               NEW c \in AnyCaller, CancelEntry(id, f, e, c)
        PROVE  EngineWorkKept /\ Shrinks
    <3>1. e \in Nat
      BY DEF LedgerInv, TypeOK
    <3>. QED BY <2>2, <3>1, CancelEntryStep DEF EngineWorkKept, Stays
  <2>3. ASSUME NEW id \in Ids, RetainCompletion(id) \/ Acknowledge(id) PROVE slot' = slot
    BY <2>3 DEF RetainCompletion, Acknowledge, requestVars
  <2>4. ASSUME NEW id \in Ids, Dispatch(id) PROVE EngineWorkKept
    <3>1. \A x \in Slots : slot'[x] = slot[x] \/ slot[x].state = "waiting"
      BY <2>4, DispatchStep
    <3>. QED BY <3>1 DEF EngineWorkKept, Engine
  <2>5. ASSUME NEW id \in Ids, Retry(id) PROVE EngineWorkKept /\ Shrinks
    BY <2>5, RetryStep DEF EngineWorkKept, Stays
  <2>. QED BY <1>1, <1>4, <2>1, <2>2, <2>3, <2>4, <2>5 DEF RequestTransition
<1>5. CASE SlotTransition
  <2>1. ASSUME NEW x \in Slots, Drop(x) PROVE EngineWorkKept /\ Shrinks
    BY <2>1, DropStep DEF EngineWorkKept, Stays
  <2>2. ASSUME NEW x \in Slots, NEW o \in Owners, NEW p \in Pods,
               NEW e \in 1 .. MaxEngineEpoch, Accept(x, o, p, e)
        PROVE  EngineWorkKept /\ Shrinks
    <3>1. /\ Shrinks /\ slot[x].state \in {"reserved", "handoff"}
          /\ \A y \in Slots : y # x => slot'[y] = slot[y]
      BY <2>2, AcceptStep
    <3>. QED BY <3>1 DEF EngineWorkKept, Engine
  <2>3. ASSUME NEW x \in Slots, NEW o \in Owners, RejectBeforeSubmission(x, o)
        PROVE  EngineWorkKept /\ Shrinks
    BY <2>3, RejectStep DEF EngineWorkKept, Stays
  <2>4. ASSUME NEW x \in Slots, NEW o \in Owners, NEW finalStage \in BOOLEAN,
               Complete(x, o, finalStage)
        PROVE  EngineWorkKept /\ Shrinks
    <3>1. Shrinks /\ slot[x].owner = o /\ \A y \in SlotsIn(Engine) : y # x => Stays(y)
      BY <2>4, CompleteStep
    <3>. QED BY <2>4, <3>1 DEF EngineWorkKept, Stays, SlotsIn
  <2>. QED BY <1>5, <2>1, <2>2, <2>3, <2>4 DEF SlotTransition
<1>. QED BY <1>1, <1>2, <1>3, <1>4, <1>5 DEF Next, vars, requestVars

\* Engine-owned work is taken from its owner for the four reasons alone.
THEOREM EngineWorkCharged == Spec => EngineWorkStaysCharged
<1>1. LedgerInv /\ [Next]_vars => [EngineWorkKept]_vars
  BY LedgerStep
<1>. QED BY <1>1, LedgerInvariant, PTL DEF Spec, EngineWorkStaysCharged

\* A concluded request has no open slot, and no step gives it one.
LEMMA ConclusionStep ==
  ASSUME LedgerInv, [Next]_vars
  PROVE  ConclusionsKept
<1> SUFFICES ASSUME NEW id \in Ids, Concluded(id), id \in retained'
             PROVE  Concluded(id)' /\ \A x \in SlotsOf(id) : slot'[x].state \notin Open
  BY DEF ConclusionsKept
<1>1. \A x \in SlotsOf(id) : slot[x].state \notin Open
  <2>1. CASE ~request[id].exists
    BY <2>1 DEF LedgerInv, RemainingExact, Open, Queued, Charged
  <2>2. CASE request[id].remaining = 0
    <3>1. SlotsOfIn(id, Open) = {}
      BY <2>2, CountZero, Zenon DEF LedgerInv, RemainingExact, SlotsOfIn, SlotsOf
    <3>. QED BY <3>1 DEF SlotsOfIn, SlotsOf, SlotsIn
  <2>. QED BY <2>1, <2>2 DEF Concluded, Unfinished
<1>2. \A x \in SlotsOf(id) : slot'[x].state \notin Open
  <2>1. CASE Shrinks
    BY <1>1, <2>1 DEF Shrinks, SlotsOf, Open
  <2>2. ASSUME NEW i \in Ids, NEW f \in Frontends, NEW e \in Nat, NEW c \in AnyCaller,
               NEW r \in Roles, NEW units \in SlotIndex, Enqueue(i, f, e, c, r, units)
        PROVE  \A x \in SlotsOf(id) : slot'[x] = slot[x]
    <3>1. i # id
      BY <2>2 DEF Enqueue, EnqueueReply
    <3>2. \A x \in Slots : x[1] # i => slot'[x] = slot[x]
      BY <2>2, EnqueueStep
    <3>. QED BY <3>1, <3>2 DEF SlotsOf
  <2>3. ASSUME NEW i \in Ids, Dispatch(i)
        PROVE  \A x \in Slots : slot'[x] = slot[x] \/ slot[x].state \in Open
    BY <2>3, DispatchStep DEF Open, Queued
  <2>. QED BY <1>1, <2>1, <2>2, <2>3, LedgerStep DEF SlotsOf
<1>3. SlotsOfIn(id, Open)' = {}
  BY <1>2 DEF SlotsOfIn, SlotsOf, SlotsIn
<1>4. request'[id].remaining = 0
  BY <1>3, NextLedger, FS_EmptySet, Zenon DEF LedgerInv, RemainingExact
<1>. QED BY <1>2, <1>4 DEF Concluded, Unfinished

\* Terminal evidence retained for a consumer is never taken back.
THEOREM ConclusionsAreFinal == Spec => ConclusionIsFinal
<1>1. LedgerInv /\ [Next]_vars => [ConclusionsKept]_vars
  BY ConclusionStep
<1>. QED BY <1>1, LedgerInvariant, PTL DEF Spec, ConclusionIsFinal

\* enqueue compares the counters, which are exact, with the limits in force.
LEMMA EnqueueWithinLimits ==
  ASSUME LedgerInv, LedgerInv', NEW id \in Ids, NEW f \in Frontends, NEW e \in Nat,
         NEW d \in AnyCaller, NEW r \in Roles, NEW units \in SlotIndex,
         Enqueue(id, f, e, d, r, units)
  PROVE  WithinLimits
<1> SUFFICES ASSUME NEW x \in Slots, NEW c \in AnyCaller, c = CallerOf(x)',
                    slot[x].state \notin Queued, slot'[x].state \in Queued
             PROVE  /\ ~Exceeds(Cardinality(SlotsIn(Queued)'), config.maxWaiting)
                    /\ ~Exceeds(Cardinality(ByCaller(SlotsIn(Queued), c)'),
                                WaitingLimit(request'[x[1]].role))
  BY EnqueueStep DEF WithinLimits
<1>1. x[1] = id
  BY EnqueueStep
<1>2. request'[id] = NewRequest(d, r, f, e, units)
  BY DEF Enqueue, LedgerInv, TypeOK
<1>3. c = d /\ request'[x[1]].role = r
  <2> DEFINE new == NewRequest(d, r, f, e, units)
  <2>1. new.caller = d /\ new.role = r
    BY DEF NewRequest
  <2>2. request'[x[1]] = new
    BY <1>1, <1>2
  <2> HIDE DEF new
  <2>. QED BY <2>1, <2>2 DEF CallerOf
<1>4. waiting' = waiting + units /\ waitingOf'[c] = waitingOf[c] + units
  BY <1>3 DEF Enqueue, LedgerInv, TypeOK
<1>5. /\ Cardinality(SlotsIn(Queued)') = waiting + units
      /\ Cardinality(ByCaller(SlotsIn(Queued), c)') = waitingOf[c] + units
  BY <1>4 DEF LedgerInv, CountersExact
<1>6. /\ ~Exceeds(waiting + units, config.maxWaiting)
      /\ ~Exceeds(waitingOf[c] + units, WaitingLimit(r))
  BY <1>3, Zenon DEF Enqueue, EnqueueReply, LiveEnqueueReply
<1>. QED BY <1>3, <1>5, <1>6

\* dispatch compares the caller's counter, which is exact, with its limit.
LEMMA DispatchWithinLimits ==
  ASSUME LedgerInv, LedgerInv', NEW id \in Ids, Dispatch(id)
  PROVE  WithinLimits
<1> SUFFICES ASSUME NEW x \in Slots, NEW c \in AnyCaller, c = CallerOf(x)',
                    slot[x].state \notin Charged, slot'[x].state \in Charged
             PROVE  ~Exceeds(Cardinality(ByCaller(SlotsIn(Charged), c)'),
                             ConcurrentLimit(request'[x[1]].role))
  <2>1. \A x \in Slots : slot'[x].state \in Queued => slot[x].state \in Queued
    BY DispatchStep DEF Queued
  <2>. QED BY <2>1 DEF WithinLimits
<1> DEFINE needed == Cardinality(SlotsOfIn(id, {"waiting"}))
<1>1. x[1] = id /\ request' = request
  BY DispatchStep
<1>2. c = request[id].caller /\ request'[x[1]].role = request[id].role
  BY <1>1 DEF CallerOf
<1>3. activeOf'[c] = activeOf[c] + needed
  BY <1>2 DEF Dispatch, LedgerInv, TypeOK
<1>4. Cardinality(ByCaller(SlotsIn(Charged), c)') = activeOf[c] + needed
  BY <1>3 DEF LedgerInv, CountersExact
<1>5. ~Exceeds(activeOf[c] + needed, ConcurrentLimit(request[id].role))
  BY <1>2, Zenon DEF Dispatch, DispatchReply, Busy
<1>. QED BY <1>2, <1>4, <1>5

\* Queueing and reserving stay within the limits, counted on the slots.
THEOREM LimitsHold == Spec => LimitsRespected
<1>1. LedgerInv /\ [Next]_vars => [WithinLimits]_vars
  <2> SUFFICES ASSUME LedgerInv, [Next]_vars PROVE WithinLimits
    OBVIOUS
  <2>1. LedgerInv'
    BY NextLedger
  <2>2. CASE Shrinks
    BY <2>2 DEF Shrinks, WithinLimits
  <2>. QED BY <2>1, <2>2, LedgerStep, EnqueueWithinLimits, DispatchWithinLimits
<1>. QED BY <1>1, LedgerInvariant, PTL DEF Spec, LimitsRespected

=============================================================================
