--------------------- MODULE RequestLedgerOwnerProofs ---------------------
(*****************************************************************************)
(* Ownership in the request ledger: live work belongs to the registered      *)
(* process of a member frontend, and engine work to a known process of a     *)
(* member pod.  Each of the two facts is inductive on top of LedgerInv.      *)
(*****************************************************************************)
EXTENDS RequestLedgerProofs

OwnerInv == LiveWorkHasOwner /\ EngineWorkIsLocated

Live == Open \ {"cancelling"}

----------------------------------------------------------------------------
(* What finishing leaves of the other slots *)

\* An open slot was open before, is not in S, and is as marked and req have it.
KeptOpen(S, marked, req) ==
    \A x \in Slots : slot'[x].state \in Open =>
        /\ slot'[x] = marked[x] /\ slot[x].state \in Open /\ x \notin S
        /\ request'[x[1]].frontend = req[x[1]].frontend
        /\ request'[x[1]].epoch = req[x[1]].epoch
        /\ request'[x[1]].cancelled = req[x[1]].cancelled
        /\ request'[x[1]].retired = req[x[1]].retired

\* Release finishes S and leaves the other open slots as the transition has them.
LEMMA ReleaseEffect ==
  ASSUME LedgerInv,
         NEW S \in SUBSET Slots, NEW marked \in [Slots -> SlotRecord],
         NEW req \in [Ids -> RequestRecord], NEW saved \in SUBSET Ids,
         Release(S, marked, req, saved), KeepsClasses(marked)
  PROVE  KeptOpen(S, marked, req)
<1> SUFFICES ASSUME NEW x \in Slots, slot'[x].state \in Open
             PROVE  /\ slot'[x] = marked[x] /\ slot[x].state \in Open /\ x \notin S
                    /\ request'[x[1]].frontend = req[x[1]].frontend
                    /\ request'[x[1]].epoch = req[x[1]].epoch
                    /\ request'[x[1]].cancelled = req[x[1]].cancelled
                    /\ request'[x[1]].retired = req[x[1]].retired
  BY DEF KeptOpen
<1> DEFINE open == S \cap SlotsIn(Open)
           rest == [id \in Ids |->
                      [req[id] EXCEPT !.remaining = @ - Cardinality(open \cap SlotsOf(id))]]
           after == [y \in Slots |->
                      IF y \in open THEN [marked[y] EXCEPT !.state = "completed"] ELSE marked[y]]
           dropped == {id \in saved : Disposable(rest[id])}
<1>1. /\ request' = [id \in Ids |-> IF id \in dropped THEN NoRequest ELSE rest[id]]
      /\ slot' = [y \in Slots |-> IF y[1] \in dropped THEN NoSlot ELSE after[y]]
  BY DEF Release, Save
<1>2. x[1] \in Ids /\ marked[x] \in SlotRecord /\ req[x[1]] \in RequestRecord
  BY DEF Slots
<1>3. x[1] \notin dropped
  <2> HIDE DEF dropped, after
  <2>. QED BY <1>1 DEF NoSlot, Open, Queued, Charged
<1>4. slot'[x] = after[x] /\ request'[x[1]] = rest[x[1]]
  <2> HIDE DEF dropped, after, rest
  <2>. QED BY <1>1, <1>2, <1>3
<1>5. x \notin open
  <2>1. x \in open => after[x].state = "completed"
    BY <1>2 DEF SlotRecord
  <2> HIDE DEF after
  <2>. QED BY <2>1, <1>4 DEF Open, Queued, Charged
<1>6. slot'[x] = marked[x]
  BY <1>4, <1>5
<1>7. slot[x].state \in Open
  BY <1>6 DEF KeepsClasses, Open
<1>8. x \notin S
  BY <1>5, <1>7 DEF SlotsIn
<1>9. /\ rest[x[1]].frontend = req[x[1]].frontend /\ rest[x[1]].epoch = req[x[1]].epoch
      /\ rest[x[1]].cancelled = req[x[1]].cancelled /\ rest[x[1]].retired = req[x[1]].retired
  BY <1>2 DEF RequestRecord
<1> HIDE DEF rest
<1>. QED BY <1>4, <1>6, <1>7, <1>8, <1>9

\* The same for Cancel: a live slot is untouched, an engine slot keeps its place.
CancelKept(S, req) ==
    \A x \in Slots : slot'[x].state \in Open =>
         /\ slot'[x].state \in Live => x \notin S /\ slot'[x] = slot[x]
         /\ slot'[x].state \in Engine => slot[x].state \in Engine
         /\ slot'[x].pod = slot[x].pod /\ slot'[x].epoch = slot[x].epoch
         /\ slot'[x].owner = slot[x].owner /\ slot'[x].finished = slot[x].finished
         /\ request'[x[1]].frontend = req[x[1]].frontend
         /\ request'[x[1]].epoch = req[x[1]].epoch
         /\ request'[x[1]].cancelled = req[x[1]].cancelled
         /\ request'[x[1]].retired = req[x[1]].retired

\* The same for cancel_slot: what is still open was not in S, or is accepted work
\* of S now cancelling.
LEMMA CancelEffect ==
  ASSUME LedgerInv, NEW S \in SUBSET Slots,
         NEW req \in [Ids -> RequestRecord], NEW saved \in SUBSET Ids,
         Cancel(S, req, saved)
  PROVE  CancelKept(S, req)
<1> SUFFICES ASSUME NEW x \in Slots, slot'[x].state \in Open
             PROVE  /\ slot'[x].state \in Live => x \notin S /\ slot'[x] = slot[x]
                    /\ slot'[x].state \in Engine => slot[x].state \in Engine
                    /\ slot'[x].pod = slot[x].pod /\ slot'[x].epoch = slot[x].epoch
                    /\ slot'[x].owner = slot[x].owner /\ slot'[x].finished = slot[x].finished
                    /\ request'[x[1]].frontend = req[x[1]].frontend
                    /\ request'[x[1]].epoch = req[x[1]].epoch
                    /\ request'[x[1]].cancelled = req[x[1]].cancelled
                    /\ request'[x[1]].retired = req[x[1]].retired
  BY DEF CancelKept
<1> DEFINE C == S \cap SlotsIn({"accepted"})
           U == S \cap SlotsIn(Unsubmitted)
           marked == Cancelling(C)
<1>1. C \in SUBSET SlotsIn({"accepted"}) /\ U \in SUBSET Slots
  OBVIOUS
<1>2. marked \in [Slots -> SlotRecord] /\ KeepsClasses(marked)
  BY <1>1, CancellingKeeps DEF LedgerInv
<1>3. Release(U, marked, req, saved)
  BY DEF Cancel
<1>4. /\ slot'[x] = marked[x] /\ slot[x].state \in Open /\ x \notin U
      /\ request'[x[1]].frontend = req[x[1]].frontend
      /\ request'[x[1]].epoch = req[x[1]].epoch
      /\ request'[x[1]].cancelled = req[x[1]].cancelled
      /\ request'[x[1]].retired = req[x[1]].retired
  <2> HIDE DEF C, U, marked
  <2>1. KeptOpen(U, marked, req)
    BY <1>1, <1>2, <1>3, ReleaseEffect
  <2>. QED BY <2>1 DEF KeptOpen
<1>5. slot[x] \in SlotRecord
  BY DEF LedgerInv, TypeOK
<1>6. CASE x \in C
  <2>1. slot'[x] = [slot[x] EXCEPT !.state = "cancelling"] /\ slot[x].state = "accepted"
    BY <1>4, <1>6 DEF Cancelling, SlotsIn
  <2>. QED BY <1>4, <1>5, <2>1 DEF SlotRecord, Live, Engine
<1>7. CASE x \notin C
  <2>1. slot'[x] = slot[x]
    BY <1>4, <1>7 DEF Cancelling
  <2>2. x \in S => slot[x].state \notin Live
    BY <1>4, <1>5, <1>7 DEF SlotsIn, SlotRecord, SlotState, Unsubmitted, Live, Open, Queued, Charged
  <2>. QED BY <1>4, <2>1, <2>2
<1>. QED BY <1>6, <1>7

----------------------------------------------------------------------------
(* The transitions *)

\* What OwnerInv says of one live and of one engine slot.
LEMMA OwnerFacts ==
  ASSUME OwnerInv, NEW x \in Slots
  PROVE  /\ slot[x].state \in Live =>
              /\ ~request[x[1]].cancelled /\ ~request[x[1]].retired
              /\ request[x[1]].frontend \in Frontends
              /\ request[x[1]].frontend \in frontends
              /\ owner[request[x[1]].frontend] = request[x[1]].epoch
         /\ slot[x].state \in Engine =>
              /\ slot[x].pod \in backends /\ slot[x].epoch <= backend[slot[x].pod]
              /\ slot[x].owner \notin slot[x].finished
BY DEF OwnerInv, LiveWorkHasOwner, EngineWorkIsLocated, SlotsIn, Live, CurrentOwner

\* A step keeps OwnerInv when live slots were live under the same unflagged
\* request and a current process, and engine slots stay where they were.
LEMMA OwnerStep ==
  ASSUME OwnerInv, TypeOK,
         \A x \in Slots : slot'[x].state \in Live =>
            /\ slot[x].state \in Live
            /\ request'[x[1]].frontend = request[x[1]].frontend
            /\ request'[x[1]].epoch = request[x[1]].epoch
            /\ request'[x[1]].cancelled = request[x[1]].cancelled
            /\ request'[x[1]].retired = request[x[1]].retired
            /\ request[x[1]].frontend \in frontends'
            /\ owner'[request[x[1]].frontend] = request[x[1]].epoch,
         \A x \in Slots : slot'[x].state \in Engine =>
            /\ slot[x].state \in Engine
            /\ slot'[x].pod = slot[x].pod /\ slot'[x].epoch = slot[x].epoch
            /\ slot'[x].owner = slot[x].owner /\ slot'[x].finished = slot[x].finished
            /\ slot[x].pod \in backends' /\ backend'[slot[x].pod] >= backend[slot[x].pod],
         backend' \in [Pods -> Nat]
  PROVE  OwnerInv'
<1>1. LiveWorkHasOwner'
  <2>1. ASSUME NEW x \in Slots, slot'[x].state \in Live
        PROVE  /\ ~request'[x[1]].cancelled /\ ~request'[x[1]].retired
               /\ request'[x[1]].frontend \in Frontends
               /\ request'[x[1]].frontend \in frontends'
               /\ owner'[request'[x[1]].frontend] = request'[x[1]].epoch
    BY <2>1, OwnerFacts
  <2>. QED BY <2>1 DEF LiveWorkHasOwner, Live, SlotsIn, CurrentOwner
<1>2. ASSUME NEW x \in Slots, slot'[x].state \in Engine
      PROVE  /\ slot'[x].pod \in backends' /\ slot'[x].epoch <= backend'[slot'[x].pod]
             /\ slot'[x].owner \notin slot'[x].finished
  <2>1. /\ slot[x].pod \in backends /\ slot[x].epoch <= backend[slot[x].pod]
        /\ slot[x].owner \notin slot[x].finished
    BY <1>2 DEF OwnerInv, EngineWorkIsLocated, SlotsIn
  <2>2. /\ slot[x].pod \in Pods /\ slot[x].epoch \in Nat
        /\ backend[slot[x].pod] \in Nat /\ backend'[slot[x].pod] \in Nat
    BY <2>1 DEF TypeOK, SlotRecord
  <2>. QED BY <1>2, <2>1, <2>2
<1>. QED BY <1>1, <1>2 DEF OwnerInv, EngineWorkIsLocated, SlotsIn

\* Finishing slots of S and flagging only requests without other live slots.
LEMMA CancelOwner ==
  ASSUME LedgerInv, OwnerInv, NEW S \in SUBSET Slots,
         NEW req \in [Ids -> RequestRecord], NEW saved \in SUBSET Ids, Cancel(S, req, saved),
         \A x \in Slots : x \notin S => req[x[1]] = request[x[1]],
         \A x \in Slots : slot[x].state \in Live /\ x \notin S =>
            /\ request[x[1]].frontend \in frontends'
            /\ owner'[request[x[1]].frontend] = request[x[1]].epoch,
         backends' = backends, backend' = backend
  PROVE  OwnerInv'
<1>0. CancelKept(S, req)
  BY CancelEffect
<1>1. ASSUME NEW x \in Slots, slot'[x].state \in Live
      PROVE  /\ x \notin S /\ slot'[x] = slot[x]
             /\ request'[x[1]].frontend = request[x[1]].frontend
             /\ request'[x[1]].epoch = request[x[1]].epoch
             /\ request'[x[1]].cancelled = request[x[1]].cancelled
             /\ request'[x[1]].retired = request[x[1]].retired
  <2>1. slot'[x].state \in Open
    BY <1>1 DEF Live
  <2>2. /\ x \notin S /\ slot'[x] = slot[x]
        /\ request'[x[1]].frontend = req[x[1]].frontend
        /\ request'[x[1]].epoch = req[x[1]].epoch
        /\ request'[x[1]].cancelled = req[x[1]].cancelled
        /\ request'[x[1]].retired = req[x[1]].retired
    BY <1>0, <1>1, <2>1 DEF CancelKept
  <2>. QED BY <2>2
<1>2. ASSUME NEW x \in Slots, slot'[x].state \in Engine
      PROVE  /\ slot[x].state \in Engine
             /\ slot'[x].pod = slot[x].pod /\ slot'[x].epoch = slot[x].epoch
             /\ slot'[x].owner = slot[x].owner /\ slot'[x].finished = slot[x].finished
             /\ slot[x].pod \in backends' /\ backend'[slot[x].pod] >= backend[slot[x].pod]
  <2>1. slot'[x].state \in Open
    BY <1>2 DEF Engine, Open, Charged
  <2>2. /\ slot[x].state \in Engine
        /\ slot'[x].pod = slot[x].pod /\ slot'[x].epoch = slot[x].epoch
        /\ slot'[x].owner = slot[x].owner /\ slot'[x].finished = slot[x].finished
    BY <1>0, <1>2, <2>1 DEF CancelKept
  <2>3. slot[x].pod \in backends
    BY <2>2, OwnerFacts
  <2>4. backend[slot[x].pod] \in Nat
    BY <2>3 DEF LedgerInv, TypeOK
  <2>. QED BY <2>2, <2>3, <2>4
<1>3. backend' \in [Pods -> Nat]
  BY DEF LedgerInv, TypeOK
<1>. QED BY <1>1, <1>2, <1>3, OwnerStep DEF LedgerInv

\* register_owner, cancel_entry and drop.
LEMMA RegisterOwnerOwner ==
  ASSUME LedgerInv, OwnerInv, NEW f \in Frontends, NEW e \in Nat, RegisterOwner(f, e)
  PROVE  OwnerInv'
<1> DEFINE departed == {id \in Ids : /\ request[id].exists
                                     /\ request[id].frontend = f
                                     /\ request[id].epoch # e}
<1>1. Cancel(RequestsOf(departed), Retired(departed), departed)
  BY DEF RegisterOwner
<1>2. Retired(departed) \in [Ids -> RequestRecord]
  BY RetiredKeeps, Zenon DEF LedgerInv
<1>3. /\ RequestsOf(departed) \in SUBSET Slots /\ departed \in SUBSET Ids
      /\ \A x \in Slots : x \notin RequestsOf(departed) =>
            x[1] \notin departed /\ Retired(departed)[x[1]] = request[x[1]]
  BY DEF RequestsOf, Retired, Slots
<1>4. owner' = [owner EXCEPT ![f] = e] /\ frontends' = frontends
      /\ backends' = backends /\ backend' = backend
  BY DEF RegisterOwner, publicationVars
<1>5. ASSUME NEW x \in Slots, slot[x].state \in Live, x \notin RequestsOf(departed)
      PROVE  /\ request[x[1]].frontend \in frontends'
             /\ owner'[request[x[1]].frontend] = request[x[1]].epoch
  <2>1. /\ request[x[1]].frontend \in Frontends /\ request[x[1]].frontend \in frontends
        /\ owner[request[x[1]].frontend] = request[x[1]].epoch
    BY <1>5, OwnerFacts
  <2>2. x[1] \in Ids /\ request[x[1]].exists
    BY <1>5, SlotHasRecord DEF LedgerInv, Live, Open, Queued, Charged
  <2>3. request[x[1]].frontend = f => request[x[1]].epoch = e
    BY <1>3, <1>5, <2>2
  <2>. QED BY <1>4, <2>1, <2>3 DEF LedgerInv, TypeOK
<1> DEFINE S == RequestsOf(departed)
           req == Retired(departed)
<1>6. /\ S \in SUBSET Slots /\ req \in [Ids -> RequestRecord] /\ departed \in SUBSET Ids
      /\ Cancel(S, req, departed)
      /\ \A x \in Slots : x \notin S => req[x[1]] = request[x[1]]
  BY <1>1, <1>2, <1>3
<1>7. \A x \in Slots : slot[x].state \in Live /\ x \notin S =>
         /\ request[x[1]].frontend \in frontends'
         /\ owner'[request[x[1]].frontend] = request[x[1]].epoch
  BY <1>5
<1> HIDE DEF departed, S, req
<1>. QED BY <1>4, <1>6, <1>7, CancelOwner

\* cancel_entry: the entry it marks as cancelled keeps no live slot.
LEMMA CancelEntryOwner ==
  ASSUME LedgerInv, OwnerInv, NEW id \in Ids, NEW f \in Frontends, NEW e \in Nat,
         NEW c \in AnyCaller, CancelEntry(id, f, e, c)
  PROVE  OwnerInv'
<1> DEFINE entry == IF request[id].exists THEN request[id] ELSE NewRequest(c, None, f, e, 0)
           req == [request EXCEPT ![id] = [entry EXCEPT !.cancelled = TRUE]]
<1>1. Cancel(SlotsOf(id), req, {id})
  BY DEF CancelEntry
<1>2. entry \in RequestRecord
  BY DEF LedgerInv, TypeOK, RequestRecord, NewRequest
<1>3. req \in [Ids -> RequestRecord]
  <2> HIDE DEF entry
  <2>1. [entry EXCEPT !.cancelled = TRUE] \in RequestRecord
    BY <1>2, Zenon DEF RequestRecord
  <2>. QED BY <2>1 DEF LedgerInv, TypeOK
<1>4. SlotsOf(id) \in SUBSET Slots /\ \A x \in Slots : x \notin SlotsOf(id) => req[x[1]] = request[x[1]]
  <2> HIDE DEF entry
  <2>. QED BY DEF SlotsOf, Slots, LedgerInv, TypeOK
<1>5. frontends' = frontends /\ owner' = owner /\ backends' = backends /\ backend' = backend
  BY DEF CancelEntry, publicationVars, epochVars
<1>6. \A x \in Slots : slot[x].state \in Live =>
         /\ request[x[1]].frontend \in frontends'
         /\ owner'[request[x[1]].frontend] = request[x[1]].epoch
  BY <1>5, OwnerFacts
<1> HIDE DEF req
<1>. QED BY <1>1, <1>3, <1>4, <1>5, <1>6, CancelOwner

\* drop: cancelling one slot leaves the owners of the others alone.
LEMMA DropOwner ==
  ASSUME LedgerInv, OwnerInv, NEW x \in Slots, Drop(x)
  PROVE  OwnerInv'
<1>1. {x} \in SUBSET Slots /\ {x[1]} \in SUBSET Ids /\ request \in [Ids -> RequestRecord]
  BY DEF LedgerInv, TypeOK, Slots
<1>2. frontends' = frontends /\ owner' = owner /\ backends' = backends /\ backend' = backend
  BY DEF Drop, publicationVars, epochVars
<1>3. \A y \in Slots : slot[y].state \in Live =>
         /\ request[y[1]].frontend \in frontends'
         /\ owner'[request[y[1]].frontend] = request[y[1]].epoch
  BY <1>2, OwnerFacts
<1>4. Cancel({x}, request, {x[1]})
  BY DEF Drop
<1>. QED BY <1>1, <1>2, <1>3, <1>4, CancelOwner

\* recover_backend: the pod's process epoch only grows.
LEMMA RecoverBackendOwner ==
  ASSUME LedgerInv, OwnerInv, NEW p \in Pods, NEW e \in Nat, RecoverBackend(p, e)
  PROVE  OwnerInv'
<1> DEFINE S == OnEarlierProcess(p, e)
<1>1. S \in SUBSET Slots /\ IdsOf(S) \in SUBSET Ids
  BY DEF OnEarlierProcess, SlotsIn, IdsOf, Slots
<1>2. /\ slot \in [Slots -> SlotRecord] /\ request \in [Ids -> RequestRecord]
      /\ backend \in [Pods -> Nat] /\ KeepsClasses(slot)
  BY DEF LedgerInv, TypeOK, KeepsClasses
<1>3. Release(S, slot, request, IdsOf(S))
  BY DEF RecoverBackend
<1>4. /\ e >= backend[p] /\ backend' = [backend EXCEPT ![p] = e]
      /\ frontends' = frontends /\ owner' = owner /\ backends' = backends
  BY DEF RecoverBackend, publicationVars
<1> HIDE DEF S
<1>5. KeptOpen(S, slot, request)
  BY <1>1, <1>2, <1>3, ReleaseEffect
<1>6. ASSUME NEW x \in Slots, slot'[x].state \in Engine
      PROVE  /\ slot[x].state \in Engine /\ slot'[x] = slot[x]
             /\ slot[x].pod \in backends' /\ backend'[slot[x].pod] >= backend[slot[x].pod]
  <2>1. slot'[x] = slot[x] /\ slot[x].state \in Engine
    BY <1>5, <1>6 DEF KeptOpen, Engine, Open, Charged
  <2>2. slot[x].pod \in backends /\ slot[x].pod \in Pods
    BY <2>1, OwnerFacts DEF LedgerInv, TypeOK
  <2>. QED BY <1>2, <1>4, <2>1, <2>2
<1>7. ASSUME NEW x \in Slots, slot'[x].state \in Live
      PROVE  /\ slot[x].state \in Live
             /\ request'[x[1]].frontend = request[x[1]].frontend
             /\ request'[x[1]].epoch = request[x[1]].epoch
             /\ request'[x[1]].cancelled = request[x[1]].cancelled
             /\ request'[x[1]].retired = request[x[1]].retired
             /\ request[x[1]].frontend \in frontends'
             /\ owner'[request[x[1]].frontend] = request[x[1]].epoch
  <2>1. slot'[x] = slot[x] /\ slot[x].state \in Live
    BY <1>5, <1>7 DEF KeptOpen, Live
  <2>2. /\ request'[x[1]].frontend = request[x[1]].frontend
        /\ request'[x[1]].epoch = request[x[1]].epoch
        /\ request'[x[1]].cancelled = request[x[1]].cancelled
        /\ request'[x[1]].retired = request[x[1]].retired
    BY <1>5, <1>7 DEF KeptOpen, Live
  <2>3. /\ request[x[1]].frontend \in frontends
        /\ owner[request[x[1]].frontend] = request[x[1]].epoch
    BY <2>1, OwnerFacts
  <2>. QED BY <1>4, <2>1, <2>2, <2>3
<1>8. backend' \in [Pods -> Nat]
  BY <1>2, <1>4
<1>. QED BY <1>6, <1>7, <1>8, OwnerStep DEF LedgerInv

\* A step that finishes S and touches no slot but x, which it may hand off.
EndsAt(x, S, marked) ==
    /\ Release(S, marked, request, {x[1]}) /\ KeepsClasses(marked)
    /\ \A y \in Slots \ {x} : marked[y] = slot[y]
    /\ \/ marked[x] = slot[x]
       \/ marked[x].state = "handoff" /\ slot[x].state \in Live
       \/ x \in S

\* reject_before_submission and complete.
LEMMA SlotEndOwner ==
  ASSUME LedgerInv, OwnerInv, NEW x \in Slots, NEW o \in Owners,
         \/ RejectBeforeSubmission(x, o)
         \/ \E finalStage \in BOOLEAN : Complete(x, o, finalStage)
  PROVE  OwnerInv'
<1>1. /\ slot \in [Slots -> SlotRecord] /\ request \in [Ids -> RequestRecord]
      /\ x[1] \in Ids /\ slot[x] \in SlotRecord /\ backend \in [Pods -> Nat]
  BY DEF LedgerInv, TypeOK, Slots
<1>2. frontends' = frontends /\ owner' = owner /\ backends' = backends /\ backend' = backend
  BY Zenon DEF RejectBeforeSubmission, Complete, publicationVars, epochVars
<1>3. \E S \in SUBSET Slots, marked \in [Slots -> SlotRecord] : EndsAt(x, S, marked)
  <2>1. CASE RejectBeforeSubmission(x, o)
    <3>1. PICK S \in SUBSET {x} : Release(S, slot, request, {x[1]})
      BY <2>1 DEF RejectBeforeSubmission
    <3>2. EndsAt(x, S, slot)
      BY <3>1 DEF EndsAt, KeepsClasses
    <3>. QED BY <1>1, <3>2
  <2>2. ASSUME NEW finalStage \in BOOLEAN, Complete(x, o, finalStage)
        PROVE  \E S \in SUBSET Slots, marked \in [Slots -> SlotRecord] : EndsAt(x, S, marked)
    <3> DEFINE final == finalStage \/ slot[x].state = "cancelling"
               S == IF final THEN {x} ELSE {}
               marked == [slot EXCEPT ![x].finished = @ \cup {o},
                                      ![x].state = IF final THEN @ ELSE "handoff"]
    <3>1. Release(S, marked, request, {x[1]}) /\ slot[x].state \in Engine
      BY <2>2 DEF Complete, OwnedBy
    <3>2. marked \in [Slots -> SlotRecord] /\ \A y \in Slots \ {x} : marked[y] = slot[y]
      BY <1>1, Zenon DEF SlotRecord, SlotState
    <3>3. KeepsClasses(marked)
      BY <1>1, <3>1 DEF KeepsClasses, Queued, Charged, Engine, SlotRecord
    <3>4. \/ marked[x].state = "handoff" /\ slot[x].state \in Live
          \/ x \in S
      BY <1>1, <3>1 DEF SlotRecord, Engine, Live, Open, Charged
    <3>5. S \in SUBSET Slots
      OBVIOUS
    <3> HIDE DEF S, marked
    <3>6. EndsAt(x, S, marked)
      BY <3>1, <3>2, <3>3, <3>4 DEF EndsAt
    <3>. QED BY <3>2, <3>5, <3>6
  <2>. QED BY <2>1, <2>2
<1>4. PICK S \in SUBSET Slots, marked \in [Slots -> SlotRecord] : EndsAt(x, S, marked)
  BY <1>3
<1>5. KeptOpen(S, marked, request)
  <2>1. {x[1]} \in SUBSET Ids
    BY <1>1
  <2>. QED BY <1>1, <1>4, <2>1, ReleaseEffect DEF EndsAt
<1>6. ASSUME NEW y \in Slots, slot'[y].state \in Engine
      PROVE  /\ slot[y].state \in Engine /\ slot'[y] = slot[y]
             /\ slot[y].pod \in backends' /\ backend'[slot[y].pod] >= backend[slot[y].pod]
  <2>1. slot'[y] = slot[y] /\ slot[y].state \in Engine
    <3>1. slot'[y].state \in Open
      BY <1>6 DEF Engine, Open, Charged
    <3>2. slot'[y] = marked[y] /\ y \notin S
      BY <1>5, <3>1 DEF KeptOpen
    <3>3. marked[y] = slot[y]
      BY <1>4, <1>6, <3>2 DEF EndsAt, Engine
    <3>. QED BY <1>6, <3>2, <3>3
  <2>2. slot[y].pod \in backends /\ slot[y].pod \in Pods
    BY <2>1, OwnerFacts DEF LedgerInv, TypeOK
  <2>. QED BY <1>1, <1>2, <2>1, <2>2
<1>7. ASSUME NEW y \in Slots, slot'[y].state \in Live
      PROVE  /\ slot[y].state \in Live
             /\ request'[y[1]].frontend = request[y[1]].frontend
             /\ request'[y[1]].epoch = request[y[1]].epoch
             /\ request'[y[1]].cancelled = request[y[1]].cancelled
             /\ request'[y[1]].retired = request[y[1]].retired
             /\ request[y[1]].frontend \in frontends'
             /\ owner'[request[y[1]].frontend] = request[y[1]].epoch
  <2>1. slot[y].state \in Live
    BY <1>4, <1>5, <1>7 DEF EndsAt, KeptOpen, Live
  <2>. QED BY <1>2, <1>5, <1>7, <2>1, OwnerFacts DEF KeptOpen, Live
<1>8. backend' \in [Pods -> Nat]
  BY <1>1, <1>2
<1>. QED BY <1>6, <1>7, <1>8, OwnerStep DEF LedgerInv

----------------------------------------------------------------------------
(* The transitions that change the membership, queue, reserve and accept *)

\* publish and publish_membership: removed frontends lose their live work and
\* removed pods their engine work.
LEMMA ApplyMembershipOwner ==
  ASSUME LedgerInv, OwnerInv, NEW v \in Nat, NEW F \in SUBSET Frontends, NEW B \in SUBSET Pods,
         ApplyMembership(v, F, B)
  PROVE  OwnerInv'
<1>1. CASE v > membershipVersion
  <2> DEFINE departed == {id \in Ids : request[id].exists /\ request[id].frontend \notin F}
             ended == OnRemovedPods(B)
             S == (RequestsOf(departed) \cap SlotsIn(Unsubmitted)) \cup ended
             C == RequestsOf(departed) \cap SlotsIn({"accepted"})
             saved == departed \cup IdsOf(ended)
             marked == Cancelling(C)
             req == Retired(departed)
  <2>1. S \in SUBSET Slots /\ saved \in SUBSET Ids /\ C \in SUBSET SlotsIn({"accepted"})
    BY DEF OnRemovedPods, SlotsIn, IdsOf, Slots, RequestsOf
  <2>2. marked \in [Slots -> SlotRecord] /\ KeepsClasses(marked)
    BY <2>1, CancellingKeeps, Zenon DEF LedgerInv
  <2>3. req \in [Ids -> RequestRecord]
    BY RetiredKeeps, Zenon DEF LedgerInv
  <2>4. /\ Release(S, marked, req, saved)
        /\ frontends' = F /\ backends' = B
        /\ owner' = [f \in Frontends |-> IF f \in F THEN owner[f] ELSE 0]
        /\ backend' = [p \in Pods |-> IF p \in B THEN backend[p] ELSE 0]
    BY <1>1 DEF ApplyMembership
  <2>5. KeptOpen(S, marked, req)
    <3> HIDE DEF S, marked, req, saved
    <3>. QED BY <2>1, <2>2, <2>3, <2>4, ReleaseEffect
  <2>6. backend \in [Pods -> Nat] /\ \A x \in Slots : slot[x] \in SlotRecord
    BY DEF LedgerInv, TypeOK
  <2>7. ASSUME NEW x \in Slots, slot'[x].state \in Engine
        PROVE  /\ slot[x].state \in Engine
               /\ slot'[x].pod = slot[x].pod /\ slot'[x].epoch = slot[x].epoch
               /\ slot'[x].owner = slot[x].owner /\ slot'[x].finished = slot[x].finished
               /\ slot[x].pod \in backends' /\ backend'[slot[x].pod] >= backend[slot[x].pod]
    <3>1. slot'[x] = marked[x] /\ x \notin S
      <4> HIDE DEF S, marked, req
      <4>. QED BY <2>5, <2>7 DEF KeptOpen, Engine, Open, Charged
    <3>2. /\ slot[x].state \in Engine
          /\ slot'[x].pod = slot[x].pod /\ slot'[x].epoch = slot[x].epoch
          /\ slot'[x].owner = slot[x].owner /\ slot'[x].finished = slot[x].finished
      <4>1. CASE x \in C
        <5>1. slot'[x] = [slot[x] EXCEPT !.state = "cancelling"] /\ slot[x].state = "accepted"
          BY <3>1, <4>1 DEF Cancelling, SlotsIn
        <5> HIDE DEF departed, ended, S, C, saved, marked, req
        <5>2. slot[x] \in SlotRecord
          BY <2>6
        <5>. QED BY <5>1, <5>2 DEF SlotRecord, Engine
      <4>2. CASE x \notin C
        <5>1. marked[x] = slot[x]
          BY <4>2, Zenon DEF Cancelling
        <5> HIDE DEF departed, ended, S, C, saved, marked, req
        <5>. QED BY <2>7, <3>1, <5>1
      <4>. QED BY <4>1, <4>2
    <3>3. slot[x].pod \in B
      BY <3>1, <3>2 DEF OnRemovedPods, SlotsIn
    <3>4. slot[x].pod \in Pods /\ backend[slot[x].pod] \in Nat
      BY <2>6, <3>3
    <3>5. backends' = B /\ backend'[slot[x].pod] = backend[slot[x].pod]
      BY <2>4, <3>3, <3>4
    <3>. QED BY <3>2, <3>3, <3>4, <3>5
  <2>8. ASSUME NEW x \in Slots, slot'[x].state \in Live
        PROVE  /\ slot[x].state \in Live
               /\ request'[x[1]].frontend = request[x[1]].frontend
               /\ request'[x[1]].epoch = request[x[1]].epoch
               /\ request'[x[1]].cancelled = request[x[1]].cancelled
               /\ request'[x[1]].retired = request[x[1]].retired
               /\ request[x[1]].frontend \in frontends'
               /\ owner'[request[x[1]].frontend] = request[x[1]].epoch
    <3>1. /\ slot'[x] = marked[x] /\ slot[x].state \in Open /\ x \notin S
          /\ request'[x[1]].frontend = req[x[1]].frontend
          /\ request'[x[1]].epoch = req[x[1]].epoch
          /\ request'[x[1]].cancelled = req[x[1]].cancelled
          /\ request'[x[1]].retired = req[x[1]].retired
      <4> HIDE DEF departed, ended, S, C, saved, marked, req
      <4>1. slot'[x].state \in Open
        BY <2>8, Zenon DEF Live
      <4>. QED BY <2>5, <4>1 DEF KeptOpen
    <3>2. x \notin C
      <4>1. x \in C => marked[x].state = "cancelling"
        <5>1. x \in C => marked[x] = [slot[x] EXCEPT !.state = "cancelling"]
          BY Zenon DEF Cancelling
        <5> HIDE DEF departed, ended, S, C, saved, marked, req
        <5>2. slot[x] \in SlotRecord
          BY <2>6
        <5>. QED BY <5>1, <5>2 DEF SlotRecord
      <4> HIDE DEF marked, C
      <4>. QED BY <2>8, <3>1, <4>1 DEF Live
    <3>3. slot'[x] = slot[x] /\ slot[x].state \in Live
      BY <2>8, <3>1, <3>2 DEF Cancelling
    <3>4. x[1] \in Ids /\ request[x[1]].exists
      BY <3>3, SlotHasRecord DEF LedgerInv, Live, Open, Queued, Charged
    <3>5. x[1] \notin departed
      BY <2>6, <3>1, <3>2, <3>3, Zenon DEF RequestsOf, SlotsIn, Unsubmitted, Live, Open, Queued, Charged
    <3>6. req[x[1]] = request[x[1]] /\ request[x[1]].frontend \in F
      BY <3>4, <3>5 DEF Retired
    <3>7. owner'[request[x[1]].frontend] = owner[request[x[1]].frontend]
      BY <2>4, <3>6
    <3> HIDE DEF departed, ended, S, C, saved, marked, req
    <3>8. owner[request[x[1]].frontend] = request[x[1]].epoch
      BY <3>3, OwnerFacts
    <3>. QED BY <2>4, <3>1, <3>3, <3>6, <3>7, <3>8
  <2>9. backend' \in [Pods -> Nat]
    BY <2>4, <2>6
  <2> HIDE DEF S, marked, req, saved
  <2>. QED BY <2>7, <2>8, <2>9, OwnerStep DEF LedgerInv
<1>2. CASE ~(v > membershipVersion)
  <2>1. /\ UNCHANGED <<request, slot, frontends, backends, owner, backend>>
    BY <1>2 DEF ApplyMembership, requestVars
  <2>. QED BY <2>1 DEF OwnerInv, LiveWorkHasOwner, EngineWorkIsLocated, SlotsIn, CurrentOwner
<1>. QED BY <1>1, <1>2

\* enqueue: only the current process of a member frontend queues work.
LEMMA EnqueueOwner ==
  ASSUME LedgerInv, OwnerInv, NEW id \in Ids, NEW f \in Frontends, NEW e \in Nat,
         NEW c \in AnyCaller, NEW r \in Roles, NEW units \in SlotIndex,
         Enqueue(id, f, e, c, r, units)
  PROVE  OwnerInv'
<1>1. /\ request' = [request EXCEPT ![id] = NewRequest(c, r, f, e, units)]
      /\ slot' = [x \in Slots |-> IF x[1] = id /\ x[2] <= units THEN NewSlot ELSE slot[x]]
      /\ ~request[id].exists
      /\ frontends' = frontends /\ owner' = owner /\ backends' = backends /\ backend' = backend
  BY DEF Enqueue, publicationVars, epochVars
<1>2. f \in frontends /\ owner[f] = e
  BY <1>1 DEF Enqueue, EnqueueReply, LiveEnqueueReply, CurrentOwner
<1>3. request \in [Ids -> RequestRecord]
  BY DEF LedgerInv, TypeOK
<1>4. \A x \in Slots : x[1] \in Ids /\ (x[1] = id => slot[x].state = "absent")
  BY <1>1 DEF LedgerInv, RemainingExact, SlotsOf, Slots
<1>5. ASSUME NEW x \in Slots, slot'[x].state \in Live
      PROVE  /\ ~request'[x[1]].cancelled /\ ~request'[x[1]].retired
             /\ request'[x[1]].frontend \in Frontends
             /\ request'[x[1]].frontend \in frontends'
             /\ owner'[request'[x[1]].frontend] = request'[x[1]].epoch
  <2>1. CASE x[1] = id
    <3> DEFINE new == NewRequest(c, r, f, e, units)
    <3>1. request'[x[1]] = new
      BY <1>1, <1>3, <2>1
    <3>2. ~new.cancelled /\ ~new.retired /\ new.frontend = f /\ new.epoch = e
      BY DEF NewRequest
    <3>3. f \in frontends' /\ owner'[f] = e
      BY <1>1, <1>2
    <3> HIDE DEF new
    <3>. QED BY <3>1, <3>2, <3>3
  <2>2. CASE x[1] # id
    <3>1. request'[x[1]] = request[x[1]] /\ slot'[x] = slot[x]
      BY <1>1, <1>3, <1>4, <2>2
    <3>2. slot[x].state \in Live
      BY <1>5, <3>1
    <3>3. frontends' = frontends /\ owner' = owner
      BY <1>1
    <3>. QED BY <3>1, <3>2, <3>3, OwnerFacts
  <2>. QED BY <2>1, <2>2
<1>6. ASSUME NEW x \in Slots, slot'[x].state \in Engine
      PROVE  slot'[x] = slot[x]
  <2>1. NewSlot.state = "waiting"
    BY DEF NewSlot, NoSlot
  <2>. QED BY <1>1, <1>6, <2>1 DEF Engine
<1>. QED BY <1>1, <1>5, <1>6, OwnerFacts, Zenon
         DEF OwnerInv, LiveWorkHasOwner, EngineWorkIsLocated, SlotsIn, Live, CurrentOwner

\* dispatch and retry move candidates between two live states.
LEMMA ReserveOwner ==
  ASSUME LedgerInv, OwnerInv, NEW id \in Ids, Dispatch(id) \/ Retry(id)
  PROVE  OwnerInv'
<1>1. request[id].exists /\ ~Disposable(request[id])
  BY StoredStays DEF LedgerInv, Dispatch, DispatchReply, Retry, RetryReply
<1>2. /\ request \in [Ids -> RequestRecord] /\ \A x \in Slots : slot[x] \in SlotRecord
      /\ backend \in [Pods -> Nat]
  BY DEF LedgerInv, TypeOK
<1>3. /\ frontends' = frontends /\ owner' = owner /\ backends' = backends /\ backend' = backend
      /\ request' = request
  BY <1>1, <1>2 DEF Dispatch, Retry, Save, publicationVars, epochVars
<1>4. ASSUME NEW x \in Slots
      PROVE  \/ slot'[x] = slot[x]
             \/ slot'[x].state \in {"waiting", "reserved"} /\ slot[x].state \in {"waiting", "reserved"}
  <2>1. CASE Dispatch(id)
    <3>1. slot'[x] = IF x \in SlotsOfIn(id, {"waiting"})
                     THEN [slot[x] EXCEPT !.state = "reserved"] ELSE slot[x]
      BY <1>1, <2>1 DEF Dispatch, Save
    <3>. QED BY <1>2, <3>1 DEF SlotsOfIn, SlotsIn, SlotRecord
  <2>2. CASE Retry(id)
    <3>1. slot'[x] = IF x \in SlotsOfIn(id, {"reserved"})
                     THEN [slot[x] EXCEPT !.state = "waiting"] ELSE slot[x]
      BY <1>1, <2>2 DEF Retry, Save
    <3>. QED BY <1>2, <3>1 DEF SlotsOfIn, SlotsIn, SlotRecord
  <2>. QED BY <2>1, <2>2
<1>5. ASSUME NEW x \in Slots, slot'[x].state \in Live
      PROVE  /\ slot[x].state \in Live
             /\ request[x[1]].frontend \in frontends'
             /\ owner'[request[x[1]].frontend] = request[x[1]].epoch
  <2>1. slot[x].state \in Live
    BY <1>4, <1>5 DEF Live, Open, Queued
  <2>. QED BY <1>3, <2>1, OwnerFacts
<1>6. ASSUME NEW x \in Slots, slot'[x].state \in Engine
      PROVE  /\ slot[x].state \in Engine /\ slot'[x] = slot[x]
             /\ slot[x].pod \in backends' /\ backend'[slot[x].pod] >= backend[slot[x].pod]
  <2>1. slot'[x] = slot[x] /\ slot[x].state \in Engine
    BY <1>4, <1>6 DEF Engine
  <2>2. slot[x].pod \in backends /\ slot[x].pod \in Pods
    BY <2>1, OwnerFacts DEF LedgerInv, TypeOK
  <2>. QED BY <1>2, <1>3, <2>1, <2>2
<1>7. backend' \in [Pods -> Nat]
  BY <1>2, <1>3
<1>. QED BY <1>3, <1>5, <1>6, <1>7, OwnerStep DEF LedgerInv

\* accept: a reserved or handoff slot is live, and its new owner has not
\* reported yet.
LEMMA AcceptOwner ==
  ASSUME LedgerInv, OwnerInv, NEW x \in Slots, NEW o \in Owners, NEW p \in Pods, NEW e \in Nat,
         Accept(x, o, p, e)
  PROVE  OwnerInv'
<1>1. /\ request \in [Ids -> RequestRecord] /\ slot \in [Slots -> SlotRecord] /\ x[1] \in Ids
      /\ request[x[1]] \in RequestRecord /\ slot[x] \in SlotRecord /\ backend \in [Pods -> Nat]
      /\ \A y \in Slots : slot[y] \in SlotRecord /\ y[1] \in Ids
  BY DEF LedgerInv, TypeOK, Slots
<1>2. /\ slot[x].state \in {"reserved", "handoff"} /\ request[x[1]].exists
      /\ slot[x].state \in Live
  BY SlotHasRecord DEF Accept, LedgerInv, Live, Open, Queued, Charged
<1>3. p \in backends /\ e >= backend[p] /\ o \notin slot[x].finished
  <2>1. AcceptReply(x, o, p, e) = "ok"
    BY DEF Accept
  <2>2. p \in backends /\ ~Obsolete(x, o, p, e)
    BY <2>1 DEF AcceptReply
  <2>. QED BY <1>1, <2>2 DEF Obsolete
<1> DEFINE req == [request EXCEPT ![x[1]].accepted = TRUE]
           moved == [slot EXCEPT ![x].state = "accepted", ![x].owner = o,
                                 ![x].pod = p, ![x].epoch = e]
<1>4. \A id \in Ids : /\ req[id].frontend = request[id].frontend
                      /\ req[id].epoch = request[id].epoch
                      /\ req[id].remaining = request[id].remaining
                      /\ req[id].cancelled = request[id].cancelled
                      /\ req[id].retired = request[id].retired
  BY <1>1 DEF RequestRecord
<1>5. /\ moved[x].state = "accepted" /\ moved[x].owner = o /\ moved[x].pod = p
      /\ moved[x].epoch = e /\ moved[x].finished = slot[x].finished
      /\ \A y \in Slots \ {x} : moved[y] = slot[y]
  BY <1>1 DEF SlotRecord
<1>6. Save(req, moved, {x[1]})
  BY DEF Accept
<1> HIDE DEF req, moved
<1>7. ~Disposable(req[x[1]])
  BY <1>1, <1>2, <1>4, StoredStays DEF LedgerInv, Disposable
<1>8. \A y \in Slots : request'[y[1]] = req[y[1]] /\ slot'[y] = moved[y]
  BY <1>1, <1>6, <1>7 DEF Save
<1>9. /\ frontends' = frontends /\ owner' = owner /\ backends' = backends
      /\ backend' = [backend EXCEPT ![p] = e]
  BY DEF Accept, publicationVars
<1>10. /\ backend'[p] = e /\ e \in Nat
       /\ \A q \in Pods : q # p => backend'[q] = backend[q]
  BY <1>1, <1>9
<1>11. ASSUME NEW y \in Slots, slot'[y].state \in Live
       PROVE  /\ ~request'[y[1]].cancelled /\ ~request'[y[1]].retired
              /\ request'[y[1]].frontend \in Frontends
              /\ request'[y[1]].frontend \in frontends'
              /\ owner'[request'[y[1]].frontend] = request'[y[1]].epoch
  <2>1. slot[y].state \in Live
    BY <1>2, <1>5, <1>8, <1>11, Zenon
  <2>2. /\ ~request[y[1]].cancelled /\ ~request[y[1]].retired
        /\ request[y[1]].frontend \in Frontends
        /\ request[y[1]].frontend \in frontends
        /\ owner[request[y[1]].frontend] = request[y[1]].epoch
    BY <2>1, OwnerFacts
  <2>3. /\ request'[y[1]].cancelled = request[y[1]].cancelled
        /\ request'[y[1]].retired = request[y[1]].retired
        /\ request'[y[1]].frontend = request[y[1]].frontend
        /\ request'[y[1]].epoch = request[y[1]].epoch
    <3>1. y[1] \in Ids /\ request'[y[1]] = req[y[1]]
      BY <1>1, <1>8
    <3>. QED BY <1>4, <3>1
  <2>4. frontends' = frontends /\ owner' = owner
    BY <1>9
  <2>. QED BY <2>2, <2>3, <2>4
<1>12. ASSUME NEW y \in Slots, slot'[y].state \in Engine
       PROVE  /\ slot'[y].pod \in backends' /\ slot'[y].epoch <= backend'[slot'[y].pod]
              /\ slot'[y].owner \notin slot'[y].finished
  <2>1. CASE y = x
    <3>1. /\ slot'[x].pod = p /\ slot'[x].epoch = e /\ slot'[x].owner = o
          /\ slot'[x].finished = slot[x].finished
      BY <1>5, <1>8
    <3>2. backend'[p] = e /\ p \in backends' /\ e <= e
      BY <1>3, <1>9, <1>10
    <3>. QED BY <1>3, <2>1, <3>1, <3>2
  <2>2. CASE y # x
    <3>1. slot'[y] = slot[y]
      BY <1>5, <1>8, <2>2
    <3>2. /\ slot[y].pod \in backends /\ slot[y].epoch <= backend[slot[y].pod]
          /\ slot[y].owner \notin slot[y].finished
      BY <1>12, <3>1, OwnerFacts
    <3>3. slot[y].pod \in Pods /\ slot[y].epoch \in Nat /\ backend[slot[y].pod] \in Nat
      BY <1>1, <3>2 DEF LedgerInv, TypeOK, SlotRecord
    <3>4. CASE slot[y].pod = p
      <4>1. slot[y].epoch <= e
        BY <1>3, <1>10, <3>2, <3>3, <3>4
      <4>. QED BY <1>9, <1>10, <3>1, <3>2, <3>4, <4>1
    <3>5. CASE slot[y].pod # p
      <4>1. backend'[slot[y].pod] = backend[slot[y].pod]
        BY <1>10, <3>3, <3>5
      <4>. QED BY <1>9, <3>1, <3>2, <4>1
    <3>. QED BY <3>4, <3>5
  <2>. QED BY <2>1, <2>2
<1>. QED BY <1>11, <1>12, Zenon
         DEF OwnerInv, LiveWorkHasOwner, EngineWorkIsLocated, SlotsIn, Live, CurrentOwner

----------------------------------------------------------------------------
(* The invariant *)

\* The empty ledger has no slot that could lack an owner.
LEMMA InitOwner == Init => OwnerInv
<1> SUFFICES ASSUME Init PROVE OwnerInv
  OBVIOUS
<1>1. \A x \in Slots : slot[x].state = "absent"
  BY DEF Init, NoSlot
<1>. QED BY <1>1 DEF OwnerInv, LiveWorkHasOwner, EngineWorkIsLocated, SlotsIn, Open, Queued,
                      Charged, Engine

\* Every transition of the script preserves ownership.
LEMMA NextOwner == LedgerInv /\ OwnerInv /\ [Next]_vars => OwnerInv'
<1> SUFFICES ASSUME LedgerInv, OwnerInv, [Next]_vars PROVE OwnerInv'
  OBVIOUS
<1>1. ASSUME \/ UNCHANGED vars
             \/ \E f \in Frontends : AllocateOwner(f)
             \/ \E id \in Ids : RetainCompletion(id) \/ Acknowledge(id)
      PROVE  OwnerInv'
  <2>1. UNCHANGED <<request, slot, frontends, backends, owner, backend>>
    BY <1>1 DEF vars, requestVars, publicationVars, epochVars, AllocateOwner, RetainCompletion,
                Acknowledge
  <2>. QED BY <2>1 DEF OwnerInv, LiveWorkHasOwner, EngineWorkIsLocated, SlotsIn, CurrentOwner
<1>2. CASE Publication
  <2>1. PICK v \in 0 .. MaxVersion, F \in SUBSET Frontends, B \in SUBSET Pods :
          ApplyMembership(v, F, B)
    BY <1>2 DEF Publication, Publish, PublishMembership
  <2>2. v \in Nat
    BY LedgerAssumption
  <2>. QED BY <2>1, <2>2, ApplyMembershipOwner
<1>3. CASE ProcessEpoch
  <2>1. ASSUME NEW p \in Pods, NEW e \in 1 .. MaxEngineEpoch, RecoverBackend(p, e)
        PROVE  OwnerInv'
    BY <2>1, LedgerAssumption, RecoverBackendOwner
  <2>2. ASSUME NEW f \in Frontends, NEW e \in 1 .. ownerEpoch, RegisterOwner(f, e)
        PROVE  OwnerInv'
    <3>1. e \in Nat
      BY DEF LedgerInv, TypeOK
    <3>. QED BY <2>2, <3>1, RegisterOwnerOwner
  <2>. QED BY <1>3, <1>1, <2>1, <2>2 DEF ProcessEpoch
<1>4. CASE RequestTransition
  <2>1. ASSUME NEW id \in Ids, NEW f \in Frontends, NEW e \in 1 .. ownerEpoch,
               NEW c \in AnyCaller,
               \/ \E r \in Roles, units \in SlotIndex : Enqueue(id, f, e, c, r, units)
               \/ CancelEntry(id, f, e, c)
        PROVE  OwnerInv'
    <3>1. e \in Nat
      BY DEF LedgerInv, TypeOK
    <3>. QED BY <2>1, <3>1, EnqueueOwner, CancelEntryOwner
  <2>2. ASSUME NEW id \in Ids, Dispatch(id) \/ Retry(id)
        PROVE  OwnerInv'
    BY <2>2, ReserveOwner
  <2>. QED BY <1>4, <1>1, <2>1, <2>2 DEF RequestTransition
<1>5. CASE SlotTransition
  <2>1. ASSUME NEW x \in Slots, NEW o \in Owners, NEW p \in Pods,
               NEW e \in 1 .. MaxEngineEpoch, Accept(x, o, p, e)
        PROVE  OwnerInv'
    BY <2>1, LedgerAssumption, AcceptOwner
  <2>2. ASSUME NEW x \in Slots, Drop(x)
        PROVE  OwnerInv'
    BY <2>2, DropOwner
  <2>3. ASSUME NEW x \in Slots, NEW o \in Owners,
               \/ RejectBeforeSubmission(x, o)
               \/ \E finalStage \in BOOLEAN : Complete(x, o, finalStage)
        PROVE  OwnerInv'
    BY <2>3, SlotEndOwner
  <2>. QED BY <1>5, <2>1, <2>2, <2>3 DEF SlotTransition
<1>. QED BY <1>1, <1>2, <1>3, <1>4, <1>5 DEF Next

\* Ownership holds in every state: retire_frontends, register_owner and
\* cancel_entry leave no live work of a lost process, finish_backend_slots no
\* engine work of a lost pod.
THEOREM OwnerInvariant == Spec => []OwnerInv
<1>1. Init => LedgerInv /\ OwnerInv
  BY InitLedger, InitOwner
<1>2. LedgerInv /\ OwnerInv /\ [Next]_vars => (LedgerInv /\ OwnerInv)'
  BY NextLedger, NextOwner
<1>. QED BY <1>1, <1>2, PTL DEF Spec

\* Live work belongs to the registered process of a member frontend.
THEOREM LiveWorkOwned == Spec => []LiveWorkHasOwner
<1>1. OwnerInv => LiveWorkHasOwner
  BY DEF OwnerInv
<1>. QED BY <1>1, OwnerInvariant, PTL

\* Engine work names a member pod, a known process and an unreported execution.
THEOREM EngineWorkLocated == Spec => []EngineWorkIsLocated
<1>1. OwnerInv => EngineWorkIsLocated
  BY DEF OwnerInv
<1>. QED BY <1>1, OwnerInvariant, PTL

=============================================================================
