-------------------- MODULE RequestLedgerReleaseProofs --------------------
(*****************************************************************************)
(* The inductive invariant of the request ledger and the transitions that    *)
(* finish slots: it joins the type of the hash, the exactness of its         *)
(* counters and the exactness of "remaining".  The last two belong           *)
(* together: a record may only be deleted when none of its slots is open,    *)
(* and "remaining" is all that save() looks at.                              *)
(*****************************************************************************)
EXTENDS RequestLedger, FiniteSetTheorems, TLAPS

LedgerInv == TypeOK /\ CountersExact /\ RemainingExact

\* The part of LedgerInv about requests, slots and counters.
Counted ==
    /\ request \in [Ids -> RequestRecord] /\ slot \in [Slots -> SlotRecord]
    /\ waiting \in Int /\ active \in Int
    /\ waitingOf \in [AnyCaller -> Int] /\ activeOf \in [AnyCaller -> Int]
    /\ CountersExact /\ RemainingExact

----------------------------------------------------------------------------
(* Counting *)

\* Slots are finite, and so is every set of them.
LEMMA SlotsFinite == IsFiniteSet(Slots) /\ \A S \in SUBSET Slots : IsFiniteSet(S)
<1>1. IsFiniteSet(SlotIndex)
  BY LedgerAssumption, FS_Interval, SMT DEF SlotIndex
<1>2. IsFiniteSet(Slots)
  BY <1>1, LedgerAssumption, FS_Product DEF Slots
<1>. QED BY <1>2, FS_Subset

\* Removing a subset lowers a count by the size of the subset.
LEMMA CountRemoved ==
  ASSUME NEW A \in SUBSET Slots, NEW B \in SUBSET A
  PROVE  /\ Cardinality(A) \in Nat /\ Cardinality(B) \in Nat
         /\ Cardinality(A \ B) = Cardinality(A) - Cardinality(B)
<1>1. IsFiniteSet(A) /\ IsFiniteSet(B)
  BY SlotsFinite
<1>2. A \cap B = B
  OBVIOUS
<1>3. Cardinality(A) \in Nat /\ Cardinality(B) \in Nat
  BY <1>1, FS_CardinalityType
<1>4. Cardinality(A \ B) = Cardinality(A) - Cardinality(A \cap B)
  BY <1>1, FS_Difference, Zenon
<1>. QED BY <1>2, <1>3, <1>4

\* Adding a disjoint set raises a count by its size.
LEMMA CountAdded ==
  ASSUME NEW A \in SUBSET Slots, NEW B \in SUBSET Slots, A \cap B = {}
  PROVE  /\ Cardinality(A) \in Nat /\ Cardinality(B) \in Nat
         /\ Cardinality(A \cup B) = Cardinality(A) + Cardinality(B)
<1>1. IsFiniteSet(A) /\ IsFiniteSet(B)
  BY SlotsFinite
<1>2. Cardinality(A) \in Nat /\ Cardinality(B) \in Nat
  BY <1>1, FS_CardinalityType
<1>3. Cardinality(A \cup B) = Cardinality(A) + Cardinality(B) - Cardinality(A \cap B)
  BY <1>1, FS_Union
<1>. QED BY <1>2, <1>3, FS_EmptySet

\* Only the empty set counts zero.
LEMMA CountZero ==
  ASSUME NEW A \in SUBSET Slots
  PROVE  Cardinality(A) = 0 <=> A = {}
BY SlotsFinite, FS_EmptySet

----------------------------------------------------------------------------
(* Finishing slots *)

\* What a transition may change besides finishing slots: it keeps every slot
\* among the queued, the charged and the other ones, and it changes no record
\* it does not save, no caller of a live record and no "remaining".
KeepsClasses(marked) ==
    \A x \in Slots : /\ marked[x].state \in Queued <=> slot[x].state \in Queued
                     /\ marked[x].state \in Charged <=> slot[x].state \in Charged
                     /\ marked[x].state = "absent" <=> slot[x].state = "absent"

\* A slot in any state but "absent" has a stored record.
LEMMA SlotHasRecord ==
  ASSUME RemainingExact, NEW x \in Slots, slot[x].state # "absent"
  PROVE  x[1] \in Ids /\ request[x[1]].exists
BY DEF RemainingExact, SlotsOf, Slots

KeepsRecords(req, saved) ==
    \A id \in Ids : /\ req[id].remaining = request[id].remaining
                    /\ request[id].exists => req[id].exists /\ req[id].caller = request[id].caller
                    /\ id \notin saved => req[id] = request[id]
                    /\ id \in saved => req[id].exists

\* Release lowers each counter by exactly the open slots it finishes, and
\* deletes a record only after its last open slot.
LEMMA ReleaseKeepsCounts ==
  ASSUME LedgerInv,
         NEW S \in SUBSET Slots, NEW marked \in [Slots -> SlotRecord],
         NEW req \in [Ids -> RequestRecord], NEW saved \in SUBSET Ids,
         KeepsClasses(marked), KeepsRecords(req, saved),
         \A x \in S : slot[x].state \in Open => x[1] \in saved,
         Release(S, marked, req, saved)
  PROVE  Counted'
<1> DEFINE open == S \cap SlotsIn(Open)
           left(id) == Cardinality(SlotsOfIn(id, Open) \ open)
           rest == [id \in Ids |->
                      [req[id] EXCEPT !.remaining = @ - Cardinality(open \cap SlotsOf(id))]]
           after == [x \in Slots |->
                      IF x \in open THEN [marked[x] EXCEPT !.state = "completed"] ELSE marked[x]]
           dropped == {id \in saved : Disposable(rest[id])}
<1> USE DEF LedgerInv
<1>1. /\ request' = [id \in Ids |-> IF id \in dropped THEN NoRequest ELSE rest[id]]
      /\ slot' = [x \in Slots |-> IF x[1] \in dropped THEN NoSlot ELSE after[x]]
      /\ Uncharge(open)
  BY DEF Release, Save
<1>2. \A id \in Ids : /\ rest[id].remaining = left(id) /\ left(id) \in Nat
                      /\ rest[id].remaining = req[id].remaining - Cardinality(open \cap SlotsOf(id))
                      /\ Cardinality(open \cap SlotsOf(id)) \in Nat
  <2> TAKE id \in Ids
  <2>1. req[id].remaining = Cardinality(SlotsOfIn(id, Open))
    BY DEF KeepsRecords, RemainingExact
  <2>2. /\ open \cap SlotsOf(id) \in SUBSET SlotsOfIn(id, Open)
        /\ SlotsOfIn(id, Open) \in SUBSET Slots
        /\ SlotsOfIn(id, Open) \ (open \cap SlotsOf(id)) = SlotsOfIn(id, Open) \ open
    BY DEF SlotsOfIn, SlotsOf, SlotsIn
  <2>3. /\ left(id) = Cardinality(SlotsOfIn(id, Open)) - Cardinality(open \cap SlotsOf(id))
        /\ Cardinality(SlotsOfIn(id, Open)) \in Nat
        /\ Cardinality(open \cap SlotsOf(id)) \in Nat
    BY <2>2, CountRemoved, Zenon
  <2>4. left(id) \in Nat
    BY <2>2, CountRemoved, SlotsFinite, FS_CardinalityType
  <2>5. rest[id].remaining = req[id].remaining - Cardinality(open \cap SlotsOf(id))
    BY DEF RequestRecord
  <2>. QED BY <2>1, <2>3, <2>4, <2>5
<1>3. \A x \in Slots : x[1] \in dropped => ~(slot[x].state \in Open /\ x \notin open)
  <2> SUFFICES ASSUME NEW x \in Slots, x[1] \in dropped, slot[x].state \in Open, x \notin open
               PROVE  FALSE
    BY Zenon
  <2>1. left(x[1]) = 0
    BY <1>2, Zenon DEF Disposable
  <2>2. SlotsOfIn(x[1], Open) \ open = {}
    BY <2>1, CountZero, Zenon DEF SlotsOfIn, SlotsOf, SlotsIn
  <2>. QED BY <2>2 DEF SlotsOfIn, SlotsOf, SlotsIn
<1>4. /\ request' \in [Ids -> RequestRecord] /\ slot' \in [Slots -> SlotRecord]
  <2>1. NoRequest \in RequestRecord /\ NoSlot \in SlotRecord
    BY DEF NoRequest, NoSlot, RequestRecord, SlotRecord, AnyCaller, SlotState
  <2>2. rest \in [Ids -> RequestRecord]
    <3>1. ASSUME NEW id \in Ids
          PROVE  [req[id] EXCEPT !.remaining = @ - Cardinality(open \cap SlotsOf(id))] \in RequestRecord
      <4>1. Cardinality(open \cap SlotsOf(id)) \in Nat
        BY <1>2, Zenon
      <4> HIDE DEF open
      <4>. QED BY <4>1 DEF RequestRecord
    <3>. QED BY <3>1, Zenon
  <2>3. after \in [Slots -> SlotRecord]
    BY DEF SlotRecord, SlotState
  <2>. QED BY <1>1, <2>1, <2>2, <2>3, Zenon
<1>5. \A x \in Slots : /\ slot'[x].state \in Queued <=> slot[x].state \in Queued /\ x \notin open
                       /\ slot'[x].state \in Charged <=> slot[x].state \in Charged /\ x \notin open
                       /\ slot'[x].state \in Open <=> slot[x].state \in Open /\ x \notin open
  <2> HIDE DEF open, dropped, after
  <2> SUFFICES ASSUME NEW x \in Slots
               PROVE  /\ slot'[x].state \in Queued <=> slot[x].state \in Queued /\ x \notin open
                      /\ slot'[x].state \in Charged <=> slot[x].state \in Charged /\ x \notin open
    BY DEF Open
  <2>1. CASE x[1] \in dropped
    <3>1. slot'[x].state = "absent"
      BY <2>1, <1>1 DEF NoSlot
    <3>2. slot[x].state \in Open => x \in open
      BY <2>1, <1>3
    <3>. QED BY <3>1, <3>2 DEF Queued, Charged, Open
  <2>2. CASE x[1] \notin dropped /\ x \in open
    BY <2>2, <1>1 DEF after, Queued, Charged, SlotRecord
  <2>3. CASE x[1] \notin dropped /\ x \notin open
    BY <2>3, <1>1 DEF after, KeepsClasses
  <2>. QED BY <2>1, <2>2, <2>3
<1>6. \A x \in Slots : slot[x].state \in Open /\ x \notin open => CallerOf(x)' = CallerOf(x)
  <2> TAKE x \in Slots
  <2> HAVE slot[x].state \in Open /\ x \notin open
  <2>1. x[1] \in Ids /\ x[1] \notin dropped /\ request[x[1]].exists
    <3>1. slot[x].state # "absent"
      BY DEF Open, Queued, Charged
    <3>2. x[1] \in Ids /\ request[x[1]].exists
      BY <3>1, SlotHasRecord
    <3>. QED BY <1>3, <3>2
  <2>. QED BY <2>1, <1>1, ZenonT(30) DEF CallerOf, KeepsRecords, RequestRecord
<1> HIDE DEF open, dropped, after
<1>7. open \in SUBSET Slots
  BY DEF open
<1>8. ASSUME NEW states \in {Queued, Charged},
             \A x \in Slots : slot'[x].state \in states <=> slot[x].state \in states /\ x \notin open
      PROVE  /\ Cardinality(SlotsIn(states)') = Cardinality(SlotsIn(states)) - Cardinality(open \cap SlotsIn(states))
             /\ \A c \in AnyCaller :
                  Cardinality(ByCaller(SlotsIn(states), c)') =
                    Cardinality(ByCaller(SlotsIn(states), c)) - Cardinality(ByCaller(open \cap SlotsIn(states), c))
             /\ Cardinality(SlotsIn(states)) \in Nat /\ Cardinality(open \cap SlotsIn(states)) \in Nat
  <2>1. SlotsIn(states)' = SlotsIn(states) \ (open \cap SlotsIn(states))
    BY <1>8 DEF SlotsIn
  <2>2. ASSUME NEW c \in AnyCaller
        PROVE  ByCaller(SlotsIn(states), c)' =
                 ByCaller(SlotsIn(states), c) \ ByCaller(open \cap SlotsIn(states), c)
    <3>1. \A x \in Slots : slot[x].state \in states /\ x \notin open => CallerOf(x)' = CallerOf(x)
      BY <1>6 DEF Open
    <3>. QED BY <1>8, <3>1 DEF ByCaller, SlotsIn
  <2>3. /\ SlotsIn(states) \in SUBSET Slots
        /\ open \cap SlotsIn(states) \in SUBSET SlotsIn(states)
        /\ \A c \in AnyCaller :
             /\ ByCaller(SlotsIn(states), c) \in SUBSET Slots
             /\ ByCaller(open \cap SlotsIn(states), c) \in SUBSET ByCaller(SlotsIn(states), c)
    BY DEF SlotsIn, ByCaller
  <2>. QED BY <2>1, <2>2, <2>3, CountRemoved, Zenon
<1>9. /\ waiting' \in Int /\ active' \in Int
      /\ waitingOf' \in [AnyCaller -> Int] /\ activeOf' \in [AnyCaller -> Int]
      /\ CountersExact'
  <2>1. /\ Cardinality(SlotsIn(Queued)') = Cardinality(SlotsIn(Queued)) - Cardinality(open \cap SlotsIn(Queued))
        /\ \A c \in AnyCaller :
             Cardinality(ByCaller(SlotsIn(Queued), c)') =
               Cardinality(ByCaller(SlotsIn(Queued), c)) - Cardinality(ByCaller(open \cap SlotsIn(Queued), c))
    BY <1>5, <1>8, Zenon
  <2>2. /\ Cardinality(SlotsIn(Charged)') = Cardinality(SlotsIn(Charged)) - Cardinality(open \cap SlotsIn(Charged))
        /\ \A c \in AnyCaller :
             Cardinality(ByCaller(SlotsIn(Charged), c)') =
               Cardinality(ByCaller(SlotsIn(Charged), c)) - Cardinality(ByCaller(open \cap SlotsIn(Charged), c))
    BY <1>5, <1>8, Zenon
  <2>3. CountersExact'
    BY <2>1, <2>2, <1>1, Zenon DEF CountersExact, Uncharge
  <2>4. /\ Cardinality(SlotsIn(Queued)') \in Nat /\ Cardinality(SlotsIn(Charged)') \in Nat
        /\ \A c \in AnyCaller : /\ Cardinality(ByCaller(SlotsIn(Queued), c)') \in Nat
                                /\ Cardinality(ByCaller(SlotsIn(Charged), c)') \in Nat
    BY SlotsFinite, FS_CardinalityType DEF SlotsIn, ByCaller
  <2>5. /\ DOMAIN waitingOf' = AnyCaller /\ waitingOf' = [c \in AnyCaller |-> waitingOf'[c]]
        /\ DOMAIN activeOf' = AnyCaller /\ activeOf' = [c \in AnyCaller |-> activeOf'[c]]
    BY <1>1 DEF Uncharge
  <2>. QED BY <2>3, <2>4, <2>5 DEF CountersExact
<1>10. RemainingExact'
  <2> SUFFICES ASSUME NEW id \in Ids
               PROVE  /\ request'[id].remaining = Cardinality(SlotsOfIn(id, Open)')
                      /\ ~request'[id].exists => \A x \in SlotsOf(id) : slot'[x].state = "absent"
                      /\ request'[id].exists /\ request'[id].remaining = 0 =>
                            request'[id].cancelled /\ ~request'[id].retired
    BY DEF RemainingExact, SlotsOf
  <2>1. SlotsOfIn(id, Open)' = SlotsOfIn(id, Open) \ open
    BY <1>5 DEF SlotsOfIn, SlotsOf, SlotsIn
  <2>2. rest[id].remaining = Cardinality(SlotsOfIn(id, Open)')
    BY <1>2, <2>1, Zenon
  <2>3. CASE id \in dropped
    <3>1. request'[id] = NoRequest /\ \A x \in SlotsOf(id) : slot'[x] = NoSlot
      BY <1>1, <2>3 DEF SlotsOf
    <3>2. rest[id].remaining = 0
      BY <2>3, Zenon DEF dropped, Disposable
    <3>. QED BY <3>1, <3>2, <2>2 DEF NoRequest, NoSlot
  <2>4. CASE id \notin dropped
    <3>1. request'[id] = rest[id] /\ \A x \in SlotsOf(id) : slot'[x] = after[x]
      BY <1>1, <2>4 DEF SlotsOf
    <3>2. CASE id \in saved
      <4>1. ~Disposable(rest[id])
        BY <3>2, <2>4 DEF dropped
      <4>2. rest[id].exists
        BY <3>2 DEF KeepsRecords, RequestRecord
      <4>. QED BY <4>1, <4>2, <3>1, <2>2 DEF Disposable, RequestRecord
    <3>3. CASE id \notin saved
      <4>1. req[id] = request[id]
        BY <3>3 DEF KeepsRecords
      <4>2. \A x \in SlotsOf(id) : x \notin open
        BY <3>3 DEF open, SlotsIn, SlotsOf
      <4>3. open \cap SlotsOf(id) = {}
        BY <4>2
      <4>4. rest[id].remaining = request[id].remaining
        <5>1. rest[id].remaining = req[id].remaining - 0
          BY <1>2, <4>3, FS_EmptySet, Zenon
        <5>2. request[id].remaining \in Int
          BY DEF TypeOK, RequestRecord
        <5>. QED BY <5>1, <5>2, <4>1
      <4>5. /\ rest[id].exists = request[id].exists
            /\ rest[id].cancelled = request[id].cancelled
            /\ rest[id].retired = request[id].retired
        BY <4>1 DEF RequestRecord
      <4>6. \A x \in SlotsOf(id) : slot[x].state = "absent" => slot'[x].state = "absent"
        BY <4>2, <3>1, Zenon DEF after, KeepsClasses, SlotsOf
      <4>. QED BY <4>4, <4>5, <4>6, <3>1, <2>2 DEF RemainingExact
    <3>. QED BY <3>2, <3>3
  <2>. QED BY <2>3, <2>4
<1>. QED BY <1>4, <1>9, <1>10 DEF Counted

----------------------------------------------------------------------------
(* The transitions that finish slots *)

\* A stored record is never disposable, so save() keeps what a transition on a
\* live request does not finish.
LEMMA StoredStays ==
  ASSUME RemainingExact, NEW id \in Ids, request[id].exists
  PROVE  ~Disposable(request[id])
BY DEF RemainingExact, Disposable

\* Marking accepted slots as cancelling keeps every slot in its class.
LEMMA CancellingKeeps ==
  ASSUME TypeOK, NEW C \in SUBSET SlotsIn({"accepted"})
  PROVE  Cancelling(C) \in [Slots -> SlotRecord] /\ KeepsClasses(Cancelling(C))
<1>1. \A x \in Slots : slot[x] \in SlotRecord
  BY DEF TypeOK
<1>2. Cancelling(C) \in [Slots -> SlotRecord]
  BY <1>1 DEF Cancelling, SlotRecord, SlotState
<1>3. ASSUME NEW x \in Slots
      PROVE  /\ Cancelling(C)[x].state \in Queued <=> slot[x].state \in Queued
             /\ Cancelling(C)[x].state \in Charged <=> slot[x].state \in Charged
             /\ Cancelling(C)[x].state = "absent" <=> slot[x].state = "absent"
  <2>1. CASE x \in C
    <3>1. slot[x].state = "accepted" /\ Cancelling(C)[x].state = "cancelling"
      BY <1>1, <2>1 DEF Cancelling, SlotsIn, SlotRecord
    <3>. QED BY <3>1 DEF Queued, Charged
  <2>2. CASE x \notin C
    BY <2>2 DEF Cancelling
  <2>. QED BY <2>1, <2>2
<1>. QED BY <1>2, <1>3 DEF KeepsClasses

\* Records that only have flags set are kept in the sense of Release.
LEMMA RetiredKeeps ==
  ASSUME TypeOK, NEW ids \in SUBSET Ids, \A id \in ids : request[id].exists,
         NEW saved \in SUBSET Ids, ids \subseteq saved, \A id \in saved : request[id].exists
  PROVE  Retired(ids) \in [Ids -> RequestRecord] /\ KeepsRecords(Retired(ids), saved)
<1>1. \A id \in Ids : request[id] \in RequestRecord
  BY DEF TypeOK
<1>2. ASSUME NEW id \in Ids
      PROVE  /\ Retired(ids)[id] \in RequestRecord
             /\ Retired(ids)[id].remaining = request[id].remaining
             /\ Retired(ids)[id].exists = request[id].exists
             /\ Retired(ids)[id].caller = request[id].caller
             /\ id \notin ids => Retired(ids)[id] = request[id]
  <2>1. request[id] \in RequestRecord
    BY <1>1
  <2>2. Retired(ids)[id] = IF id \in ids THEN [request[id] EXCEPT !.retired = TRUE] ELSE request[id]
    BY DEF Retired
  <2>. QED BY <2>1, <2>2 DEF RequestRecord
<1>3. Retired(ids) \in [Ids -> RequestRecord]
  BY <1>2 DEF Retired
<1>4. KeepsRecords(Retired(ids), saved)
  BY <1>2 DEF KeepsRecords
<1>. QED BY <1>3, <1>4

\* The part of the type the finishing transitions change.
LEMMA ReleaseType ==
  ASSUME LedgerInv, UNCHANGED <<retained, publicationVars>>,
         owner' \in [Frontends -> Nat], backend' \in [Pods -> Nat], ownerEpoch' \in Nat,
         Counted'
  PROVE  LedgerInv'
BY DEF Counted, LedgerInv, TypeOK, publicationVars

\* Counts depend on the requests, the slots and the counters alone.
LEMMA CountsUnchanged ==
  ASSUME LedgerInv, UNCHANGED <<requestVars, counterVars>>
  PROVE  Counted'
<1>1. /\ request' = request /\ slot' = slot /\ waiting' = waiting /\ active' = active
      /\ waitingOf' = waitingOf /\ activeOf' = activeOf
  BY DEF requestVars, counterVars
<1>2. CountersExact'
  BY <1>1, Zenon DEF LedgerInv, CountersExact, SlotsIn, ByCaller, CallerOf
<1>3. RemainingExact'
  BY <1>1 DEF LedgerInv, RemainingExact, SlotsOfIn, SlotsOf, SlotsIn
<1>. QED BY <1>1, <1>2, <1>3 DEF Counted, LedgerInv, TypeOK

\* recover_backend: a newer engine process ends its predecessor's slots.
LEMMA RecoverBackendKeeps ==
  ASSUME LedgerInv, NEW p \in Pods, NEW e \in Nat, RecoverBackend(p, e)
  PROVE  LedgerInv'
<1> DEFINE S == OnEarlierProcess(p, e)
<1>1. S \in SUBSET Slots /\ \A x \in S : slot[x].state # "absent"
  BY DEF OnEarlierProcess, SlotsIn, Engine
<1>2. IdsOf(S) \in SUBSET Ids /\ \A id \in IdsOf(S) : request[id].exists
  BY <1>1, SlotHasRecord DEF IdsOf, LedgerInv
<1>3. Release(S, slot, request, IdsOf(S))
  BY DEF RecoverBackend
<1>4. KeepsClasses(slot) /\ KeepsRecords(request, IdsOf(S))
  BY <1>2 DEF KeepsClasses, KeepsRecords
<1>5. slot \in [Slots -> SlotRecord] /\ request \in [Ids -> RequestRecord]
  BY DEF LedgerInv, TypeOK
<1>6. \A x \in S : x[1] \in IdsOf(S)
  BY DEF IdsOf
<1>7. backend' \in [Pods -> Nat] /\ owner' \in [Frontends -> Nat] /\ ownerEpoch' \in Nat
  BY DEF RecoverBackend, LedgerInv, TypeOK
<1> HIDE DEF S
<1>8. Counted'
  BY <1>1, <1>2, <1>3, <1>4, <1>5, <1>6, ReleaseKeepsCounts
<1>. QED BY <1>7, <1>8, ReleaseType DEF RecoverBackend

\* publish and publish_membership: requests of removed frontends are retired
\* and slots of removed pods are finished in the same run of the script.
LEMMA ApplyMembershipKeeps ==
  ASSUME LedgerInv, NEW v \in Nat, NEW F \in SUBSET Frontends, NEW B \in SUBSET Pods,
         ApplyMembership(v, F, B), retained' = retained, ownerEpoch' = ownerEpoch,
         version' \in Nat \cup {-1}, config' \in Config \cup {NoConfig}
  PROVE  LedgerInv'
<1>1. CASE v > membershipVersion
  <2> DEFINE departed == {id \in Ids : request[id].exists /\ request[id].frontend \notin F}
             ended == OnRemovedPods(B)
             S == (RequestsOf(departed) \cap SlotsIn(Unsubmitted)) \cup ended
             C == RequestsOf(departed) \cap SlotsIn({"accepted"})
             saved == departed \cup IdsOf(ended)
  <2>1. ended \in SUBSET Slots /\ \A x \in ended : slot[x].state # "absent"
    BY DEF OnRemovedPods, SlotsIn, Engine
  <2>2. IdsOf(ended) \in SUBSET Ids /\ \A id \in IdsOf(ended) : request[id].exists
    BY <2>1, SlotHasRecord DEF IdsOf, LedgerInv
  <2>3. saved \in SUBSET Ids /\ departed \subseteq saved /\ \A id \in saved : request[id].exists
    BY <2>2
  <2>4. S \in SUBSET Slots /\ \A x \in S : x[1] \in saved
    BY <2>1 DEF IdsOf, RequestsOf, SlotsIn
  <2>5. Cancelling(C) \in [Slots -> SlotRecord] /\ KeepsClasses(Cancelling(C))
    BY CancellingKeeps, Zenon DEF LedgerInv
  <2>6. Retired(departed) \in [Ids -> RequestRecord] /\ KeepsRecords(Retired(departed), saved)
    BY <2>3, RetiredKeeps, Zenon DEF LedgerInv
  <2>7. /\ Release(S, Cancelling(C), Retired(departed), saved)
        /\ membershipVersion' = v /\ frontends' = F /\ backends' = B
        /\ owner' = [f \in Frontends |-> IF f \in F THEN owner[f] ELSE 0]
        /\ backend' = [p \in Pods |-> IF p \in B THEN backend[p] ELSE 0]
    BY <1>1 DEF ApplyMembership
  <2>8. owner' \in [Frontends -> Nat] /\ backend' \in [Pods -> Nat]
    <3>1. owner \in [Frontends -> Nat] /\ backend \in [Pods -> Nat]
      BY DEF LedgerInv, TypeOK
    <3> HIDE DEF S, C, saved, departed, ended
    <3>. QED BY <2>7, <3>1
  <2> HIDE DEF S, C, saved, departed
  <2>9. Counted'
    BY <2>3, <2>4, <2>5, <2>6, <2>7, ReleaseKeepsCounts
  <2>. QED BY <2>7, <2>8, <2>9 DEF Counted, LedgerInv, TypeOK
<1>2. CASE ~(v > membershipVersion)
  <2>1. UNCHANGED <<membershipVersion, frontends, backends, owner, backend, requestVars, counterVars>>
    BY <1>2 DEF ApplyMembership
  <2>2. Counted'
    BY <2>1, CountsUnchanged
  <2>. QED BY <2>1, <2>2 DEF Counted, LedgerInv, TypeOK
<1>. QED BY <1>1, <1>2

\* cancel_slot keeps the counts: it finishes unsubmitted slots and leaves
\* accepted ones charged.
LEMMA CancelKeeps ==
  ASSUME LedgerInv, NEW S \in SUBSET Slots, NEW req \in [Ids -> RequestRecord],
         NEW saved \in SUBSET Ids, KeepsRecords(req, saved),
         \A x \in S : x[1] \in saved, Cancel(S, req, saved)
  PROVE  Counted'
<1> DEFINE U == S \cap SlotsIn(Unsubmitted)
           C == S \cap SlotsIn({"accepted"})
<1>1. Release(U, Cancelling(C), req, saved)
  BY DEF Cancel
<1>2. Cancelling(C) \in [Slots -> SlotRecord] /\ KeepsClasses(Cancelling(C))
  BY CancellingKeeps DEF LedgerInv
<1>3. U \in SUBSET Slots /\ \A x \in U : slot[x].state \in Open => x[1] \in saved
  OBVIOUS
<1> HIDE DEF U, C
<1>. QED BY <1>1, <1>2, <1>3, ReleaseKeepsCounts

\* register_owner: the predecessor process loses its unsubmitted work.
LEMMA RegisterOwnerKeeps ==
  ASSUME LedgerInv, NEW f \in Frontends, NEW e \in Nat, RegisterOwner(f, e)
  PROVE  LedgerInv'
<1> DEFINE departed == {id \in Ids : /\ request[id].exists
                                     /\ request[id].frontend = f
                                     /\ request[id].epoch # e}
<1>1. Cancel(RequestsOf(departed), Retired(departed), departed)
  BY DEF RegisterOwner
<1>2. Retired(departed) \in [Ids -> RequestRecord] /\ KeepsRecords(Retired(departed), departed)
  BY RetiredKeeps, Zenon DEF LedgerInv
<1>3. RequestsOf(departed) \in SUBSET Slots /\ \A x \in RequestsOf(departed) : x[1] \in departed
  BY DEF RequestsOf
<1>4. Counted'
  BY <1>1, <1>2, <1>3, CancelKeeps
<1>5. owner' \in [Frontends -> Nat] /\ backend' \in [Pods -> Nat] /\ ownerEpoch' \in Nat
  BY DEF RegisterOwner, LedgerInv, TypeOK
<1>. QED BY <1>4, <1>5, ReleaseType DEF RegisterOwner

\* The record cancel_entry stores, a new one included, is kept in the sense of
\* Release: a record without slots has nothing remaining.
LEMMA FencedRecord ==
  ASSUME LedgerInv, NEW id \in Ids, NEW f \in Frontends, NEW e \in Nat, NEW c \in AnyCaller
  PROVE  LET entry == IF request[id].exists THEN request[id] ELSE NewRequest(c, None, f, e, 0)
             req == [request EXCEPT ![id] = [entry EXCEPT !.cancelled = TRUE]]
         IN  req \in [Ids -> RequestRecord] /\ KeepsRecords(req, {id})
<1> DEFINE entry == IF request[id].exists THEN request[id] ELSE NewRequest(c, None, f, e, 0)
           req == [request EXCEPT ![id] = [entry EXCEPT !.cancelled = TRUE]]
<1>1. entry \in RequestRecord /\ entry.exists
  <2>1. request[id] \in RequestRecord
    BY DEF LedgerInv, TypeOK
  <2>2. NewRequest(c, None, f, e, 0) \in RequestRecord /\ NewRequest(c, None, f, e, 0).exists
    BY DEF RequestRecord, NewRequest
  <2>. QED BY <2>1, <2>2
<1>2. req \in [Ids -> RequestRecord]
  <2> HIDE DEF entry
  <2>1. [entry EXCEPT !.cancelled = TRUE] \in RequestRecord
    BY <1>1, Zenon DEF RequestRecord
  <2>. QED BY <2>1 DEF LedgerInv, TypeOK
<1>3. entry.remaining = request[id].remaining
  <2>1. CASE request[id].exists
    BY <2>1
  <2>2. CASE ~request[id].exists
    <3>1. SlotsOfIn(id, Open) = {}
      BY <2>2, Zenon DEF LedgerInv, RemainingExact, SlotsOfIn, SlotsOf, SlotsIn, Open, Queued, Charged
    <3>2. request[id].remaining = 0
      BY <3>1, FS_EmptySet, Zenon DEF LedgerInv, RemainingExact
    <3>. QED BY <2>2, <3>2 DEF NewRequest
  <2>. QED BY <2>1, <2>2
<1>4. KeepsRecords(req, {id})
  <2>1. request[id].exists => entry.caller = request[id].caller
    OBVIOUS
  <2> HIDE DEF entry
  <2>. QED BY <1>1, <1>3, <2>1 DEF KeepsRecords, RequestRecord, LedgerInv, TypeOK
<1>. QED BY <1>2, <1>4

\* cancel_entry: also the record it creates as a fence has no open slot.
LEMMA CancelEntryKeeps ==
  ASSUME LedgerInv, NEW id \in Ids, NEW f \in Frontends, NEW e \in Nat, NEW c \in AnyCaller,
         CancelEntry(id, f, e, c)
  PROVE  LedgerInv'
<1> DEFINE entry == IF request[id].exists THEN request[id] ELSE NewRequest(c, None, f, e, 0)
           req == [request EXCEPT ![id] = [entry EXCEPT !.cancelled = TRUE]]
<1>1. Cancel(SlotsOf(id), req, {id})
  BY DEF CancelEntry
<1>2. req \in [Ids -> RequestRecord] /\ KeepsRecords(req, {id})
  BY FencedRecord
<1>3. SlotsOf(id) \in SUBSET Slots /\ \A x \in SlotsOf(id) : x[1] \in {id}
  BY DEF SlotsOf
<1> HIDE DEF req
<1>4. Counted'
  BY <1>1, <1>2, <1>3, CancelKeeps
<1>5. owner' \in [Frontends -> Nat] /\ backend' \in [Pods -> Nat] /\ ownerEpoch' \in Nat
  BY DEF CancelEntry, epochVars, LedgerInv, TypeOK
<1>. QED BY <1>4, <1>5, ReleaseType DEF CancelEntry

\* drop: cancelling finishes at most its own slot.
LEMMA DropKeeps ==
  ASSUME LedgerInv, NEW x \in Slots, Drop(x)
  PROVE  LedgerInv'
<1>1. request \in [Ids -> RequestRecord] /\ x[1] \in Ids /\ request[x[1]].exists
  BY DEF LedgerInv, TypeOK, Slots, Drop, Addressed
<1>2. {x[1]} \in SUBSET Ids /\ KeepsRecords(request, {x[1]})
  BY <1>1 DEF KeepsRecords
<1>3. Counted'
  BY <1>1, <1>2, CancelKeeps DEF Drop
<1>. QED BY <1>3, ReleaseType DEF Drop, epochVars, LedgerInv, TypeOK

\* reject_before_submission and complete: the report of an execution's end.
LEMMA SlotEndKeeps ==
  ASSUME LedgerInv, NEW x \in Slots, NEW o \in Owners,
         \/ RejectBeforeSubmission(x, o)
         \/ \E finalStage \in BOOLEAN : Complete(x, o, finalStage)
  PROVE  LedgerInv'
<1>1. request \in [Ids -> RequestRecord] /\ slot \in [Slots -> SlotRecord] /\ x[1] \in Ids
  BY DEF LedgerInv, TypeOK, Slots
<1>2. request[x[1]].exists
  BY Zenon DEF RejectBeforeSubmission, Complete, Addressed
<1>3. {x[1]} \in SUBSET Ids /\ KeepsRecords(request, {x[1]}) /\ KeepsClasses(slot)
  BY <1>1, <1>2 DEF KeepsRecords, KeepsClasses
<1>4. /\ UNCHANGED <<retained, publicationVars>>
      /\ owner' \in [Frontends -> Nat] /\ backend' \in [Pods -> Nat] /\ ownerEpoch' \in Nat
  BY Zenon DEF RejectBeforeSubmission, Complete, epochVars, LedgerInv, TypeOK
<1>5. CASE RejectBeforeSubmission(x, o)
  <2>1. PICK S \in SUBSET {x} : Release(S, slot, request, {x[1]})
    BY <1>5 DEF RejectBeforeSubmission
  <2>2. S \in SUBSET Slots /\ \A y \in S : y[1] \in {x[1]}
    OBVIOUS
  <2>3. Counted'
    BY <1>1, <1>3, <2>1, <2>2, ReleaseKeepsCounts
  <2>. QED BY <1>4, <2>3, ReleaseType
<1>6. ASSUME NEW finalStage \in BOOLEAN, Complete(x, o, finalStage)
      PROVE  LedgerInv'
  <2> DEFINE final == finalStage \/ slot[x].state = "cancelling"
             reported == [slot EXCEPT ![x].finished = @ \cup {o},
                                      ![x].state = IF final THEN @ ELSE "handoff"]
  <2>1. slot[x] \in SlotRecord /\ slot[x].state \in {"accepted", "cancelling"}
    BY <1>1, <1>6, Zenon DEF Complete, OwnedBy, Engine
  <2>2. reported \in [Slots -> SlotRecord]
    BY <1>1, <2>1, Zenon DEF SlotRecord, SlotState
  <2>3. KeepsClasses(reported)
    BY <1>1, <2>1 DEF KeepsClasses, Queued, Charged, SlotRecord
  <2>4. PICK S \in SUBSET {x} : Release(S, reported, request, {x[1]})
    BY <1>6 DEF Complete
  <2> HIDE DEF reported
  <2>. QED BY <2>2, <2>3, <2>4, <1>1, <1>3, ReleaseKeepsCounts, <1>4, ReleaseType
<1>. QED BY <1>5, <1>6

============================================================================
