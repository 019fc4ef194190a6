----------------------- MODULE RequestLedgerProofs ------------------------
(*****************************************************************************)
(* Safety of the request ledger for any finite set of ids and any callers,   *)
(* frontends, pods and settings: the transitions that queue, reserve, return *)
(* and accept slots, and the theorems on types, counters and "remaining".    *)
(*****************************************************************************)
EXTENDS RequestLedgerReleaseProofs

----------------------------------------------------------------------------
(* The transitions that queue, reserve, return and accept slots *)

\* enqueue: the new candidates enter the waiting counters together.
LEMMA EnqueueKeeps ==
  ASSUME LedgerInv, NEW id \in Ids, NEW f \in Frontends, NEW e \in Nat, NEW c \in AnyCaller,
         NEW r \in Roles, NEW units \in SlotIndex, Enqueue(id, f, e, c, r, units)
  PROVE  LedgerInv'
<1> DEFINE new == {x \in SlotsOf(id) : x[2] <= units}
<1>1. units \in Nat /\ units # 0
  BY LedgerAssumption DEF SlotIndex
<1>2. Cardinality(new) = units
  <2>1. new = {id} \X (1 .. units)
    BY <1>1, LedgerAssumption DEF SlotsOf, Slots, SlotIndex
  <2>2. IsFiniteSet({id}) /\ Cardinality({id}) = 1
    BY FS_Singleton, Zenon
  <2>3. IsFiniteSet(1 .. units) /\ Cardinality(1 .. units) = units
    BY <1>1, FS_Interval
  <2>4. Cardinality({id} \X (1 .. units)) = Cardinality({id}) * Cardinality(1 .. units)
    BY <2>2, <2>3, FS_Product, Zenon
  <2> HIDE DEF new
  <2>. QED BY <1>1, <2>1, <2>2, <2>3, <2>4
<1>3. /\ request' = [request EXCEPT ![id] = NewRequest(c, r, f, e, units)]
      /\ slot' = [x \in Slots |-> IF x[1] = id /\ x[2] <= units THEN NewSlot ELSE slot[x]]
      /\ waiting' = waiting + units
      /\ waitingOf' = [waitingOf EXCEPT ![c] = @ + units]
      /\ active' = active /\ activeOf' = activeOf /\ ~request[id].exists
  BY DEF Enqueue
<1>4. NewRequest(c, r, f, e, units) \in RequestRecord /\ NewSlot \in SlotRecord
  BY <1>1 DEF NewRequest, RequestRecord, NewSlot, NoSlot, SlotRecord, SlotState
<1>5. request' \in [Ids -> RequestRecord] /\ slot' \in [Slots -> SlotRecord]
  BY <1>3, <1>4 DEF LedgerInv, TypeOK
<1>6. \A x \in SlotsOf(id) : slot[x].state = "absent"
  BY <1>3 DEF LedgerInv, RemainingExact
<1>7. \A x \in Slots : /\ x \in new => slot'[x].state = "waiting" /\ slot[x].state = "absent"
                       /\ x \notin new => slot'[x] = slot[x]
  BY <1>3, <1>6 DEF SlotsOf, NewSlot, NoSlot
<1>8. \A x \in Slots : /\ x[1] # id => request'[x[1]] = request[x[1]]
                       /\ x[1] = id => request'[x[1]] = NewRequest(c, r, f, e, units)
  BY <1>3 DEF Slots, LedgerInv, TypeOK
<1>9. new \in SUBSET Slots /\ \A x \in new : x[1] = id
  BY DEF SlotsOf
<1>10. /\ SlotsIn(Queued)' = SlotsIn(Queued) \cup new
       /\ SlotsIn(Queued) \cap new = {}
       /\ SlotsIn(Charged)' = SlotsIn(Charged)
  BY <1>7, <1>9 DEF SlotsIn, Queued, Charged
<1>11. \A x \in SlotsIn(Queued) \cup SlotsIn(Charged) : x[1] # id
  BY <1>6 DEF SlotsIn, SlotsOf, Queued, Charged
<1>12. \A d \in AnyCaller :
         /\ ByCaller(SlotsIn(Charged), d)' = ByCaller(SlotsIn(Charged), d)
         /\ ByCaller(SlotsIn(Queued), d)' =
              IF d = c THEN ByCaller(SlotsIn(Queued), d) \cup new ELSE ByCaller(SlotsIn(Queued), d)
         /\ ByCaller(SlotsIn(Queued), d) \in SUBSET Slots
         /\ ByCaller(SlotsIn(Queued), d) \cap new = {}
  <2> HIDE DEF new
  <2>1. \A x \in Slots : /\ x[1] # id => CallerOf(x)' = CallerOf(x)
                         /\ x[1] = id => CallerOf(x)' = c
    BY <1>8 DEF CallerOf, NewRequest
  <2>. QED BY <2>1, <1>9, <1>10, <1>11 DEF ByCaller, SlotsIn
<1> HIDE DEF new
<1>13. CountersExact'
  <2>1. /\ waiting' = Cardinality(SlotsIn(Queued)') /\ active' = Cardinality(SlotsIn(Charged)')
    BY <1>2, <1>3, <1>9, <1>10, CountAdded, Zenon DEF LedgerInv, CountersExact, SlotsIn
  <2>2. ASSUME NEW d \in AnyCaller
        PROVE  /\ waitingOf'[d] = Cardinality(ByCaller(SlotsIn(Queued), d)')
               /\ activeOf'[d] = Cardinality(ByCaller(SlotsIn(Charged), d)')
    <3>1. /\ waitingOf'[d] = IF d = c THEN waitingOf[d] + units ELSE waitingOf[d]
          /\ activeOf'[d] = activeOf[d]
      BY <1>3 DEF LedgerInv, TypeOK
    <3>2. /\ waitingOf[d] = Cardinality(ByCaller(SlotsIn(Queued), d))
          /\ activeOf[d] = Cardinality(ByCaller(SlotsIn(Charged), d))
      BY DEF LedgerInv, CountersExact
    <3>3. Cardinality(ByCaller(SlotsIn(Queued), d) \cup new) =
            Cardinality(ByCaller(SlotsIn(Queued), d)) + units
      BY <1>2, <1>9, <1>12, CountAdded
    <3>. QED BY <3>1, <3>2, <3>3, <1>12, Zenon
  <2>. QED BY <2>1, <2>2 DEF CountersExact
<1>14. RemainingExact'
  <2> SUFFICES ASSUME NEW j \in Ids
               PROVE  /\ request'[j].remaining = Cardinality(SlotsOfIn(j, Open)')
                      /\ ~request'[j].exists => \A x \in SlotsOf(j) : slot'[x].state = "absent"
                      /\ request'[j].exists /\ request'[j].remaining = 0 =>
                            request'[j].cancelled /\ ~request'[j].retired
    BY DEF RemainingExact, SlotsOf
  <2>1. CASE j = id
    <3>1. SlotsOfIn(j, Open)' = new
      BY <2>1, <1>7, <1>6 DEF SlotsOfIn, SlotsOf, SlotsIn, Open, Queued, Charged, new
    <3>2. request'[j] = NewRequest(c, r, f, e, units)
      BY <2>1, <1>3 DEF LedgerInv, TypeOK
    <3>. QED BY <3>1, <3>2, <1>1, <1>2 DEF NewRequest
  <2>2. CASE j # id
    <3>1. request'[j] = request[j] /\ \A x \in SlotsOf(j) : slot'[x] = slot[x]
      BY <2>2, <1>3, <1>7, <1>9 DEF LedgerInv, TypeOK, SlotsOf
    <3>2. SlotsOfIn(j, Open)' = SlotsOfIn(j, Open)
      BY <3>1 DEF SlotsOfIn, SlotsOf, SlotsIn
    <3>. QED BY <3>1, <3>2 DEF LedgerInv, RemainingExact
  <2>. QED BY <2>1, <2>2
<1>15. Counted'
  <2>1. /\ waiting' \in Int /\ active' \in Int
        /\ waitingOf' \in [AnyCaller -> Int] /\ activeOf' \in [AnyCaller -> Int]
    BY <1>3, <1>1 DEF LedgerInv, TypeOK
  <2>. QED BY <2>1, <1>5, <1>13, <1>14 DEF Counted
<1>16. owner' \in [Frontends -> Nat] /\ backend' \in [Pods -> Nat] /\ ownerEpoch' \in Nat
  BY DEF Enqueue, epochVars, LedgerInv, TypeOK
<1>. QED BY <1>15, <1>16, ReleaseType DEF Enqueue

\* A caller's counter follows slots of that caller into and out of a class.
LEMMA CallerCountRaised ==
  ASSUME NEW A \in SUBSET Slots, NEW B \in SUBSET Slots, A \cap B = {},
         NEW c \in AnyCaller, \A x \in B : CallerOf(x) = c,
         NEW n \in [AnyCaller -> Int], \A d \in AnyCaller : n[d] = Cardinality(ByCaller(A, d))
  PROVE  \A d \in AnyCaller :
           [n EXCEPT ![c] = @ + Cardinality(B)][d] = Cardinality(ByCaller(A \cup B, d))
<1> TAKE d \in AnyCaller
<1>1. ByCaller(A \cup B, d) = IF d = c THEN ByCaller(A, d) \cup B ELSE ByCaller(A, d)
  BY DEF ByCaller
<1>2. ByCaller(A, d) \in SUBSET Slots /\ ByCaller(A, d) \cap B = {}
  BY DEF ByCaller
<1>3. Cardinality(ByCaller(A, d) \cup B) = Cardinality(ByCaller(A, d)) + Cardinality(B)
  BY <1>2, CountAdded, Zenon
<1>. QED BY <1>1, <1>3

\* The same when slots of one caller leave a class.
LEMMA CallerCountLowered ==
  ASSUME NEW A \in SUBSET Slots, NEW B \in SUBSET A,
         NEW c \in AnyCaller, \A x \in B : CallerOf(x) = c,
         NEW n \in [AnyCaller -> Int], \A d \in AnyCaller : n[d] = Cardinality(ByCaller(A, d))
  PROVE  \A d \in AnyCaller :
           [n EXCEPT ![c] = @ - Cardinality(B)][d] = Cardinality(ByCaller(A \ B, d))
<1> TAKE d \in AnyCaller
<1>1. ByCaller(A \ B, d) = IF d = c THEN ByCaller(A, d) \ B ELSE ByCaller(A, d)
  BY DEF ByCaller
<1>2. ByCaller(A, d) \in SUBSET Slots /\ (d = c => B \in SUBSET ByCaller(A, d))
  BY DEF ByCaller
<1>3. d = c => Cardinality(ByCaller(A, d) \ B) = Cardinality(ByCaller(A, d)) - Cardinality(B)
  BY <1>2, CountRemoved
<1>. QED BY <1>1, <1>3

\* A step that moves open slots of a live request between open states.
LEMMA MoveKeeps ==
  ASSUME LedgerInv, NEW moved \in SUBSET SlotsIn(Open),
         slot' \in [Slots -> SlotRecord], request' \in [Ids -> RequestRecord],
         \A x \in Slots \ moved : slot'[x] = slot[x],
         \A x \in moved : slot'[x].state \in Open,
         \A id \in Ids : /\ request'[id].remaining = request[id].remaining
                         /\ request'[id].exists = request[id].exists
                         /\ request'[id].caller = request[id].caller
                         /\ request'[id].cancelled = request[id].cancelled
                         /\ request'[id].retired = request[id].retired
  PROVE  /\ RemainingExact'
         /\ \A d \in AnyCaller :
              /\ ByCaller(SlotsIn(Queued), d)' = ByCaller(SlotsIn(Queued)', d)
              /\ ByCaller(SlotsIn(Charged), d)' = ByCaller(SlotsIn(Charged)', d)
<1>1. \A x \in Slots : CallerOf(x)' = CallerOf(x)
  BY DEF CallerOf, Slots
<1>2. \A x \in Slots : slot'[x].state \in Open <=> slot[x].state \in Open
  BY DEF SlotsIn
<1>3. \A x \in Slots : slot[x].state = "absent" => slot'[x].state = "absent"
  BY DEF SlotsIn, Open, Queued, Charged
<1>4. \A id \in Ids : SlotsOfIn(id, Open)' = SlotsOfIn(id, Open)
  BY <1>2 DEF SlotsOfIn, SlotsOf, SlotsIn
<1>5. RemainingExact'
  BY <1>3, <1>4 DEF LedgerInv, RemainingExact, SlotsOf
<1>. QED BY <1>1, <1>5 DEF ByCaller, SlotsIn

\* dispatch reserves the waiting candidates; retry returns the reserved ones.
LEMMA DispatchKeeps ==
  ASSUME LedgerInv, NEW id \in Ids, Dispatch(id)
  PROVE  LedgerInv'
<1> DEFINE needed == SlotsOfIn(id, {"waiting"})
           c == request[id].caller
<1>1. request[id].exists
  BY DEF Dispatch, DispatchReply
<1>2. ~Disposable(request[id])
  BY <1>1, StoredStays DEF LedgerInv
<1>3. request \in [Ids -> RequestRecord] /\ slot \in [Slots -> SlotRecord]
  BY DEF LedgerInv, TypeOK
<1>4. /\ request' = request
      /\ slot' = [x \in Slots |-> IF x \in needed THEN [slot[x] EXCEPT !.state = "reserved"]
                                  ELSE slot[x]]
      /\ active' = active + Cardinality(needed)
      /\ activeOf' = [activeOf EXCEPT ![c] = @ + Cardinality(needed)]
      /\ waiting' = waiting /\ waitingOf' = waitingOf
  BY <1>2, <1>3 DEF Dispatch, Save
<1>5. needed \in SUBSET Slots /\ \A x \in needed : slot[x].state = "waiting" /\ x[1] = id
  BY DEF SlotsOfIn, SlotsOf, SlotsIn
<1> HIDE DEF needed
<1>6. slot' \in [Slots -> SlotRecord] /\ \A x \in needed : slot'[x].state = "reserved"
  BY <1>3, <1>4, <1>5 DEF SlotRecord, SlotState
<1>7. \A x \in Slots \ needed : slot'[x] = slot[x]
  BY <1>4
<1>8. /\ SlotsIn(Queued)' = SlotsIn(Queued)
      /\ SlotsIn(Charged)' = SlotsIn(Charged) \cup needed
      /\ SlotsIn(Charged) \cap needed = {}
      /\ needed \in SUBSET SlotsIn(Open) /\ \A x \in needed : slot'[x].state \in Open
  BY <1>5, <1>6, <1>7 DEF SlotsIn, Queued, Charged, Open
<1>9. /\ RemainingExact'
      /\ \A d \in AnyCaller :
           /\ ByCaller(SlotsIn(Queued), d)' = ByCaller(SlotsIn(Queued)', d)
           /\ ByCaller(SlotsIn(Charged), d)' = ByCaller(SlotsIn(Charged)', d)
  BY <1>3, <1>4, <1>6, <1>7, <1>8, MoveKeeps, Zenon
<1>10. active' = Cardinality(SlotsIn(Charged)')
  BY <1>4, <1>5, <1>8, CountAdded, Zenon DEF LedgerInv, CountersExact, SlotsIn
<1>11. \A d \in AnyCaller : activeOf'[d] = Cardinality(ByCaller(SlotsIn(Charged)', d))
  <2>1. c \in AnyCaller /\ \A x \in needed : CallerOf(x) = c
    BY <1>3, <1>5 DEF CallerOf, RequestRecord
  <2>2. /\ activeOf \in [AnyCaller -> Int]
        /\ \A d \in AnyCaller : activeOf[d] = Cardinality(ByCaller(SlotsIn(Charged), d))
    BY DEF LedgerInv, TypeOK, CountersExact
  <2>3. SlotsIn(Charged) \in SUBSET Slots
    BY DEF SlotsIn
  <2> HIDE DEF c
  <2>4. \A d \in AnyCaller : [activeOf EXCEPT ![c] = @ + Cardinality(needed)][d]
                               = Cardinality(ByCaller(SlotsIn(Charged) \cup needed, d))
    BY <1>5, <1>8, <2>1, <2>2, <2>3, CallerCountRaised, Zenon
  <2>. QED BY <1>4, <1>8, <2>4
<1>12. CountersExact'
  BY <1>4, <1>8, <1>9, <1>10, <1>11, Zenon DEF LedgerInv, CountersExact
<1>13. active' \in Int /\ activeOf' \in [AnyCaller -> Int]
  <2>1. Cardinality(needed) \in Nat
    BY <1>5, SlotsFinite, FS_CardinalityType
  <2>2. active \in Int /\ activeOf \in [AnyCaller -> Int]
    BY DEF LedgerInv, TypeOK
  <2> DEFINE n == Cardinality(needed)
  <2>3. /\ active' = active + n
        /\ activeOf' = [activeOf EXCEPT ![c] = @ + n]
        /\ n \in Int
    BY <1>4, <2>1
  <2>4. c \in AnyCaller
    BY <1>3 DEF RequestRecord
  <2> HIDE DEF n, c
  <2>5. active' \in Int /\ activeOf[c] + n \in Int
    BY <2>2, <2>3, <2>4
  <2>. QED BY <2>2, <2>3, <2>5, Zenon
<1>14. Counted'
  BY <1>3, <1>4, <1>6, <1>9, <1>12, <1>13 DEF Counted, LedgerInv, TypeOK
<1>. QED BY <1>14, ReleaseType DEF Dispatch, epochVars, LedgerInv, TypeOK

\* retry: the reserved candidates leave the active counters together.
LEMMA RetryKeeps ==
  ASSUME LedgerInv, NEW id \in Ids, Retry(id)
  PROVE  LedgerInv'
<1> DEFINE returned == SlotsOfIn(id, {"reserved"})
           c == request[id].caller
<1>1. request[id].exists
  BY DEF Retry, RetryReply
<1>2. ~Disposable(request[id])
  BY <1>1, StoredStays DEF LedgerInv
<1>3. request \in [Ids -> RequestRecord] /\ slot \in [Slots -> SlotRecord]
  BY DEF LedgerInv, TypeOK
<1>4. /\ request' = request
      /\ slot' = [x \in Slots |-> IF x \in returned THEN [slot[x] EXCEPT !.state = "waiting"]
                                  ELSE slot[x]]
      /\ active' = active - Cardinality(returned)
      /\ activeOf' = [activeOf EXCEPT ![c] = @ - Cardinality(returned)]
      /\ waiting' = waiting /\ waitingOf' = waitingOf
  BY <1>2, <1>3 DEF Retry, Save
<1>5. returned \in SUBSET Slots /\ \A x \in returned : slot[x].state = "reserved" /\ x[1] = id
  BY DEF SlotsOfIn, SlotsOf, SlotsIn
<1> HIDE DEF returned
<1>6. slot' \in [Slots -> SlotRecord] /\ \A x \in returned : slot'[x].state = "waiting"
  BY <1>3, <1>4, <1>5 DEF SlotRecord, SlotState
<1>7. \A x \in Slots \ returned : slot'[x] = slot[x]
  BY <1>4
<1>8. /\ SlotsIn(Queued)' = SlotsIn(Queued)
      /\ SlotsIn(Charged)' = SlotsIn(Charged) \ returned
      /\ returned \in SUBSET SlotsIn(Charged)
      /\ returned \in SUBSET SlotsIn(Open) /\ \A x \in returned : slot'[x].state \in Open
  BY <1>5, <1>6, <1>7 DEF SlotsIn, Queued, Charged, Open
<1>9. /\ RemainingExact'
      /\ \A d \in AnyCaller :
           /\ ByCaller(SlotsIn(Queued), d)' = ByCaller(SlotsIn(Queued)', d)
           /\ ByCaller(SlotsIn(Charged), d)' = ByCaller(SlotsIn(Charged)', d)
  BY <1>3, <1>4, <1>6, <1>7, <1>8, MoveKeeps, Zenon
<1>10. active' = Cardinality(SlotsIn(Charged)')
  BY <1>4, <1>5, <1>8, CountRemoved, Zenon DEF LedgerInv, CountersExact, SlotsIn
<1>11. \A d \in AnyCaller : activeOf'[d] = Cardinality(ByCaller(SlotsIn(Charged)', d))
  <2>1. c \in AnyCaller /\ \A x \in returned : CallerOf(x) = c
    BY <1>3, <1>5 DEF CallerOf, RequestRecord
  <2>2. /\ activeOf \in [AnyCaller -> Int]
        /\ \A d \in AnyCaller : activeOf[d] = Cardinality(ByCaller(SlotsIn(Charged), d))
    BY DEF LedgerInv, TypeOK, CountersExact
  <2>3. SlotsIn(Charged) \in SUBSET Slots
    BY DEF SlotsIn
  <2> HIDE DEF c
  <2>. QED BY <1>4, <1>8, <2>1, <2>2, <2>3, CallerCountLowered
<1>12. CountersExact'
  BY <1>4, <1>8, <1>9, <1>10, <1>11, Zenon DEF LedgerInv, CountersExact
<1>13. active' \in Int /\ activeOf' \in [AnyCaller -> Int]
  <2>1. Cardinality(returned) \in Nat
    BY <1>5, SlotsFinite, FS_CardinalityType
  <2>2. active \in Int /\ activeOf \in [AnyCaller -> Int]
    BY DEF LedgerInv, TypeOK
  <2> DEFINE n == Cardinality(returned)
  <2>3. /\ active' = active - n
        /\ activeOf' = [activeOf EXCEPT ![c] = @ - n]
        /\ n \in Int
    BY <1>4, <2>1
  <2>4. c \in AnyCaller
    BY <1>3 DEF RequestRecord
  <2> HIDE DEF n, c
  <2>5. active' \in Int /\ activeOf[c] - n \in Int
    BY <2>2, <2>3, <2>4
  <2>. QED BY <2>2, <2>3, <2>5, Zenon
<1>14. Counted'
  BY <1>3, <1>4, <1>6, <1>9, <1>12, <1>13 DEF Counted, LedgerInv, TypeOK
<1>. QED BY <1>14, ReleaseType DEF Retry, epochVars, LedgerInv, TypeOK

\* accept: a reserved slot leaves the waiting counters and stays charged; a
\* handoff slot moves to its next execution owner.
LEMMA AcceptKeeps ==
  ASSUME LedgerInv, NEW x \in Slots, NEW o \in Owners, NEW p \in Pods, NEW e \in Nat,
         Accept(x, o, p, e)
  PROVE  LedgerInv'
<1> DEFINE leaving == {x} \cap SlotsIn({"reserved"})
           c == CallerOf(x)
           req == [request EXCEPT ![x[1]].accepted = TRUE]
           moved == [slot EXCEPT ![x].state = "accepted", ![x].owner = o,
                                 ![x].pod = p, ![x].epoch = e]
<1>1. /\ request \in [Ids -> RequestRecord] /\ slot \in [Slots -> SlotRecord] /\ x[1] \in Ids
      /\ request[x[1]] \in RequestRecord /\ slot[x] \in SlotRecord
  BY DEF LedgerInv, TypeOK, Slots
<1>2. slot[x].state \in {"reserved", "handoff"} /\ request[x[1]].exists
  BY SlotHasRecord DEF Accept, LedgerInv
<1>3. /\ req \in [Ids -> RequestRecord]
      /\ \A id \in Ids : /\ req[id].remaining = request[id].remaining
                         /\ req[id].exists = request[id].exists
                         /\ req[id].caller = request[id].caller
                         /\ req[id].cancelled = request[id].cancelled
                         /\ req[id].retired = request[id].retired
  BY <1>1, Zenon DEF RequestRecord
<1>4. /\ moved \in [Slots -> SlotRecord] /\ moved[x].state = "accepted"
      /\ \A y \in Slots \ {x} : moved[y] = slot[y]
  BY <1>1, Zenon DEF SlotRecord, SlotState
<1>5. Save(req, moved, {x[1]})
  BY DEF Accept
<1> HIDE DEF req, moved
<1>6. ~Disposable(req[x[1]])
  BY <1>1, <1>2, <1>3, StoredStays DEF LedgerInv, Disposable
<1>7. request' = req /\ slot' = moved
  BY <1>3, <1>4, <1>5, <1>6 DEF Save
<1>8. /\ waiting' = waiting - Cardinality(leaving)
      /\ waitingOf' = [waitingOf EXCEPT ![c] = @ - Cardinality(leaving)]
      /\ active' = active /\ activeOf' = activeOf
      /\ c \in AnyCaller /\ Cardinality(leaving) \in Int
  <2>1. waiting \in Int /\ waitingOf \in [AnyCaller -> Int] /\ c \in AnyCaller
    BY <1>1 DEF LedgerInv, TypeOK, CallerOf, RequestRecord
  <2>2. CASE slot[x].state = "reserved"
    <3>1. Cardinality(leaving) = 1
      <4>1. leaving = {x}
        BY <2>2 DEF SlotsIn
      <4>. QED BY <4>1, FS_Singleton
    <3>. QED BY <2>1, <2>2, <3>1 DEF Accept
  <2>3. CASE slot[x].state # "reserved"
    <3>1. Cardinality(leaving) = 0
      <4>1. leaving = {}
        BY <2>3 DEF SlotsIn
      <4>. QED BY <4>1, FS_EmptySet
    <3>2. waiting' = waiting /\ waitingOf' = waitingOf /\ active' = active /\ activeOf' = activeOf
      BY <2>3 DEF Accept
    <3>3. waiting = waiting - 0 /\ waitingOf = [waitingOf EXCEPT ![c] = @ - 0]
      BY <2>1
    <3>. QED BY <2>1, <3>1, <3>2, <3>3
  <2>. QED BY <2>2, <2>3
<1>9. /\ SlotsIn(Queued)' = SlotsIn(Queued) \ leaving
      /\ leaving \in SUBSET SlotsIn(Queued)
      /\ SlotsIn(Charged)' = SlotsIn(Charged)
      /\ {x} \in SUBSET SlotsIn(Open) /\ slot'[x].state \in Open
  BY <1>2, <1>4, <1>7 DEF SlotsIn, Queued, Charged, Open
<1>10. /\ RemainingExact'
       /\ \A d \in AnyCaller :
            /\ ByCaller(SlotsIn(Queued), d)' = ByCaller(SlotsIn(Queued)', d)
            /\ ByCaller(SlotsIn(Charged), d)' = ByCaller(SlotsIn(Charged)', d)
  BY <1>3, <1>4, <1>7, <1>9, MoveKeeps, Zenon
<1>11. \A y \in leaving : CallerOf(y) = c
  OBVIOUS
<1> HIDE DEF leaving, c
<1>12. waiting' = Cardinality(SlotsIn(Queued)')
  BY <1>8, <1>9, CountRemoved, ZenonT(30) DEF LedgerInv, CountersExact, SlotsIn
<1>13. \A d \in AnyCaller : waitingOf'[d] = Cardinality(ByCaller(SlotsIn(Queued)', d))
  <2>1. /\ waitingOf \in [AnyCaller -> Int]
        /\ \A d \in AnyCaller : waitingOf[d] = Cardinality(ByCaller(SlotsIn(Queued), d))
    BY DEF LedgerInv, TypeOK, CountersExact
  <2>2. SlotsIn(Queued) \in SUBSET Slots
    BY DEF SlotsIn
  <2>3. \A d \in AnyCaller : [waitingOf EXCEPT ![c] = @ - Cardinality(leaving)][d]
                               = Cardinality(ByCaller(SlotsIn(Queued) \ leaving, d))
    BY <1>8, <1>9, <1>11, <2>1, <2>2, CallerCountLowered, ZenonT(30)
  <2>. QED BY <1>8, <1>9, <2>3, Zenon
<1>14. CountersExact'
  BY <1>8, <1>9, <1>10, <1>12, <1>13, Zenon DEF LedgerInv, CountersExact
<1>15. waiting' \in Int /\ waitingOf' \in [AnyCaller -> Int]
  <2> DEFINE n == Cardinality(leaving)
  <2>1. /\ waiting' = waiting - n /\ waitingOf' = [waitingOf EXCEPT ![c] = @ - n]
        /\ n \in Int /\ c \in AnyCaller
    BY <1>8
  <2>2. waiting \in Int /\ waitingOf \in [AnyCaller -> Int]
    BY DEF LedgerInv, TypeOK
  <2> HIDE DEF n
  <2>3. waitingOf[c] - n \in Int
    BY <2>1, <2>2
  <2>. QED BY <2>1, <2>2, <2>3
<1>16. Counted'
  BY <1>3, <1>4, <1>7, <1>8, <1>10, <1>14, <1>15 DEF Counted, LedgerInv, TypeOK
<1>. QED BY <1>16, ReleaseType DEF Accept, LedgerInv, TypeOK

----------------------------------------------------------------------------
(* The invariant *)

\* The empty hash satisfies the invariant.
LEMMA InitLedger == Init => LedgerInv
<1> SUFFICES ASSUME Init PROVE LedgerInv
  OBVIOUS
<1>1. NoRequest \in RequestRecord /\ NoSlot \in SlotRecord
  <2>1. NoRequest \in RequestRecord
    BY DEF NoRequest, RequestRecord, AnyCaller
  <2>2. NoSlot \in SlotRecord
    BY DEF NoSlot, SlotRecord, SlotState
  <2>. QED BY <2>1, <2>2
<1>2. TypeOK
  BY <1>1 DEF Init, TypeOK
<1>3. \A x \in Slots : slot[x].state = "absent"
  BY DEF Init, NoSlot
<1>4. SlotsIn(Queued) = {} /\ SlotsIn(Charged) = {} /\ SlotsIn(Open) = {}
  BY <1>3 DEF SlotsIn, Queued, Charged, Open
<1>5. CountersExact
  BY <1>4, FS_EmptySet DEF Init, CountersExact, ByCaller
<1>6. RemainingExact
  BY <1>3, <1>4, FS_EmptySet DEF Init, RemainingExact, NoRequest, SlotsOfIn, SlotsOf
<1>. QED BY <1>2, <1>5, <1>6 DEF LedgerInv

\* Transitions that write neither requests, slots nor counters.
LEMMA BookkeepingKeeps ==
  ASSUME LedgerInv,
         \/ \E f \in Frontends : AllocateOwner(f)
         \/ \E id \in Ids : RetainCompletion(id) \/ Acknowledge(id)
         \/ UNCHANGED vars
  PROVE  LedgerInv'
<1>1. UNCHANGED <<requestVars, counterVars>>
  BY DEF AllocateOwner, RetainCompletion, Acknowledge, vars
<1>2. Counted'
  BY <1>1, CountsUnchanged
<1>3. /\ retained' \subseteq Ids /\ ownerEpoch' \in Nat
      /\ UNCHANGED <<publicationVars, owner, backend>>
  BY DEF LedgerInv, TypeOK, AllocateOwner, RetainCompletion, Acknowledge, vars, epochVars,
         publicationVars
<1>. QED BY <1>2, <1>3 DEF Counted, LedgerInv, TypeOK, publicationVars

\* Every transition of the script preserves the invariant.
LEMMA NextLedger == LedgerInv /\ [Next]_vars => LedgerInv'
<1> SUFFICES ASSUME LedgerInv, [Next]_vars PROVE LedgerInv'
  OBVIOUS
<1>1. CASE UNCHANGED vars
  BY <1>1, BookkeepingKeeps
<1>2. CASE Publication
  <2>1. PICK v \in 0 .. MaxVersion, F \in SUBSET Frontends, B \in SUBSET Pods :
          \/ \E cfg \in Configs : Publish(v, cfg, F, B)
          \/ PublishMembership(v, F, B)
    BY <1>2 DEF Publication
  <2>2. v \in Nat
    BY LedgerAssumption
  <2>3. ASSUME NEW cfg \in Configs, Publish(v, cfg, F, B) PROVE LedgerInv'
    <3>1. version' \in Nat \cup {-1} /\ config' \in Config \cup {NoConfig}
      BY <2>2, <2>3, LedgerAssumption DEF Publish, LedgerInv, TypeOK
    <3>. QED BY <2>2, <2>3, <3>1, ApplyMembershipKeeps DEF Publish
  <2>4. CASE PublishMembership(v, F, B)
    BY <2>2, <2>4, ApplyMembershipKeeps, Zenon DEF PublishMembership, LedgerInv, TypeOK
  <2>. QED BY <2>1, <2>3, <2>4
<1>3. CASE ProcessEpoch
  <2>1. ASSUME NEW p \in Pods, NEW e \in 1 .. MaxEngineEpoch, RecoverBackend(p, e)
        PROVE  LedgerInv'
    BY <2>1, LedgerAssumption, RecoverBackendKeeps
  <2>2. ASSUME NEW f \in Frontends, NEW e \in 1 .. ownerEpoch, RegisterOwner(f, e)
        PROVE  LedgerInv'
    <3>1. e \in Nat
      BY DEF LedgerInv, TypeOK
    <3>. QED BY <2>2, <3>1, RegisterOwnerKeeps
  <2>. QED BY <1>3, <2>1, <2>2, BookkeepingKeeps DEF ProcessEpoch
<1>4. CASE RequestTransition
  <2>1. ASSUME NEW id \in Ids, NEW f \in Frontends, NEW e \in 1 .. ownerEpoch,
               NEW c \in AnyCaller,
               \/ \E r \in Roles, units \in SlotIndex : Enqueue(id, f, e, c, r, units)
               \/ CancelEntry(id, f, e, c)
        PROVE  LedgerInv'
    <3>1. e \in Nat
      BY DEF LedgerInv, TypeOK
    <3>. QED BY <2>1, <3>1, EnqueueKeeps, CancelEntryKeeps
  <2>2. ASSUME NEW id \in Ids, Dispatch(id) \/ Retry(id)
        PROVE  LedgerInv'
    BY <2>2, DispatchKeeps, RetryKeeps
  <2>. QED BY <1>4, <2>1, <2>2, BookkeepingKeeps DEF RequestTransition
<1>5. CASE SlotTransition
  <2>1. ASSUME NEW x \in Slots, NEW o \in Owners, NEW p \in Pods,
               NEW e \in 1 .. MaxEngineEpoch, Accept(x, o, p, e)
        PROVE  LedgerInv'
    BY <2>1, LedgerAssumption, AcceptKeeps
  <2>2. ASSUME NEW x \in Slots, Drop(x)
        PROVE  LedgerInv'
    BY <2>2, DropKeeps
  <2>3. ASSUME NEW x \in Slots, NEW o \in Owners,
               \/ RejectBeforeSubmission(x, o)
               \/ \E finalStage \in BOOLEAN : Complete(x, o, finalStage)
        PROVE  LedgerInv'
    BY <2>3, SlotEndKeeps
  <2>. QED BY <1>5, <2>1, <2>2, <2>3 DEF SlotTransition
<1>. QED BY <1>1, <1>2, <1>3, <1>4, <1>5 DEF Next

\* The hash always has its type, its counters are exact and "remaining" counts
\* the unfinished slots: transition.lua, under commands in any order.
THEOREM LedgerInvariant == Spec => []LedgerInv
BY InitLedger, NextLedger, PTL DEF Spec

\* Every hash field keeps its type.
THEOREM LedgerType == Spec => []TypeOK
<1>1. LedgerInv => TypeOK
  BY DEF LedgerInv
<1>. QED BY <1>1, LedgerInvariant, PTL

\* No transition leaks or double-releases a reservation (finish_slot, adjust).
THEOREM LedgerCounters == Spec => []CountersExact
<1>1. LedgerInv => CountersExact
  BY DEF LedgerInv
<1>. QED BY <1>1, LedgerInvariant, PTL

\* save() deletes a record only after its last unfinished slot.
THEOREM LedgerRemaining == Spec => []RemainingExact
<1>1. LedgerInv => RemainingExact
  BY DEF LedgerInv
<1>. QED BY <1>1, LedgerInvariant, PTL

=============================================================================
