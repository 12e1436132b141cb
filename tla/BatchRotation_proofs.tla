-------------------------- MODULE BatchRotation_proofs --------------------------
(***************************************************************************)
(* Theorems about BatchRotation, for every list of boards, batch size,     *)
(* number of dispatch tasks and number of faults.                          *)
(***************************************************************************)
EXTENDS BatchRotation, TLAPS

\* There is at least one batch.
LEMMA NBatchesType == NBatches \in Nat \ {0}
  <1> DEFINE n == NBoards + BatchSize - 1
  <1>1. n \in Nat /\ BatchSize \in Nat \ {0} /\ n >= BatchSize
    BY RotationAssumption
  <1>2. n \div BatchSize \in Int
    BY <1>1
  <1>3. n \div BatchSize >= 1
    BY <1>1
  <1>4. QED BY <1>2, <1>3 DEF NBatches

\* The cursor steps to the next batch, and from the last one to the first.
LEMMA AdvanceSteps ==
  ASSUME NEW k \in BatchNos
  PROVE  /\ k + 1 = NBatches => Advance(k) = 0
         /\ k + 1 # NBatches => Advance(k) = k + 1
         /\ Advance(k) \in BatchNos
  <1>1. k \in Nat /\ k < NBatches /\ NBatches \in Nat \ {0}
    BY NBatchesType DEF BatchNos
  <1>2. k + 1 = NBatches => (k + 1) % NBatches = 0
    BY <1>1
  <1>3. k + 1 # NBatches => (k + 1) % NBatches = k + 1
    BY <1>1
  <1>4. QED BY <1>1, <1>2, <1>3 DEF Advance, BatchNos
\* Every board of the list belongs to a batch, the last and shorter one included, and
\* to one only (the slices of _next_batch).
THEOREM SlicesPartition ==
  /\ \A b \in Boards : \E k \in BatchNos : b \in Slice(k)
  /\ \A j, k \in BatchNos : j # k => Slice(j) \cap Slice(k) = {}
  <1>1. ASSUME NEW b \in Boards
        PROVE  \E k \in BatchNos : b \in Slice(k)
    <2> DEFINE k == b \div BatchSize
    <2>1. b \in Nat /\ b <= NBoards - 1 /\ BatchSize \in Nat \ {0} /\ NBoards \in Nat \ {0}
      BY <1>1, RotationAssumption DEF Boards
    <2>2. k \in Nat /\ k * BatchSize <= b /\ b < k * BatchSize + BatchSize
      BY <2>1
    <2>3. b < (k + 1) * BatchSize
      BY <2>1, <2>2
    <2>4. b \in Slice(k)
      BY <2>2, <2>3 DEF Slice
    <2>5. k + 1 <= NBatches
      <3>1. NBatches \in Nat /\ NBoards + BatchSize - 1 < NBatches * BatchSize + BatchSize
        BY <2>1, NBatchesType DEF NBatches
      <3>2. k * BatchSize + BatchSize <= NBoards + BatchSize - 1
        BY <2>1, <2>2
      <3>3. k * BatchSize < NBatches * BatchSize
        BY <2>1, <2>2, <3>1, <3>2
      <3>4. k < NBatches
        BY <2>1, <2>2, <3>1, <3>3
      <3>5. QED BY <2>2, <3>1, <3>4
    <2>6. k \in BatchNos
      BY <2>2, <2>5, NBatchesType DEF BatchNos
    <2>7. QED BY <2>4, <2>6
  <1>2. ASSUME NEW j \in BatchNos, NEW k \in BatchNos, j < k
        PROVE  Slice(j) \cap Slice(k) = {}
    <2>1. j \in Nat /\ k \in Nat /\ BatchSize \in Nat \ {0} /\ NBoards \in Nat
      BY NBatchesType, RotationAssumption DEF BatchNos
    <2>2. (j + 1) * BatchSize <= k * BatchSize
      BY <1>2, <2>1
    <2>3. (j + 1) * BatchSize \in Nat /\ k * BatchSize \in Nat
      BY <2>1
    <2> DEFINE x == (j + 1) * BatchSize
               y == k * BatchSize
    <2>4. \A b \in Slice(j) : b \in Int /\ b < x
      BY DEF Slice, Boards
    <2>5. \A b \in Slice(k) : b \in Int /\ y <= b
      BY DEF Slice, Boards
    <2>6. x <= y /\ x \in Nat /\ y \in Nat
      BY <2>2, <2>3
    <2> HIDE DEF x, y
    <2>7. QED BY <2>4, <2>5, <2>6
  <1>3. ASSUME NEW j \in BatchNos, NEW k \in BatchNos, j # k
        PROVE  Slice(j) \cap Slice(k) = {}
    <2>1. j \in Int /\ k \in Int
      BY NBatchesType DEF BatchNos
    <2>2. j < k \/ k < j
      BY <1>3, <2>1
    <2>3. QED BY <1>2, <2>2
  <1>4. QED BY <1>1, <1>3

-----------------------------------------------------------------------------
LEMMA TypeInit == Init => TypeOK
  <1> SUFFICES ASSUME Init PROVE TypeOK
    OBVIOUS
  <1>1. 0 \in BatchNos
    BY NBatchesType DEF BatchNos
  <1>2. QED BY <1>1, RotationAssumption DEF Init, TypeOK, Ages

LEMMA IncrementTypes ==
  TypeOK /\ Increment => cursor' \in BatchNos /\ round' \subseteq BatchNos
  BY AdvanceSteps DEF TypeOK, Increment

LEMMA TypeStep == TypeOK /\ [Next]_vars => TypeOK'
  <1> SUFFICES ASSUME TypeOK, [Next]_vars PROVE TypeOK'
    OBVIOUS
  <1> USE RotationAssumption
  <1>a. \A k : Slice(k) \subseteq Boards
    BY DEF Slice
  <1>b. \A k : Fault(k) => faults' \in Nat
    BY DEF Fault, TypeOK
  <1>1. CASE Fire
    <2>1. slot' \in 0 .. PerDay - 1 /\ uptime' \in 0 .. Window + 1
      BY <1>1 DEF Fire, TypeOK
    <2>2. covered' \subseteq Boards /\ today' \subseteq Boards
      BY <1>1 DEF Fire, TypeOK
    <2>3. firings' \in Nat /\ faults' \in Nat
      BY <1>1, <1>b DEF Fire, TypeOK
    <2>4. QED BY <1>1, <2>1, <2>2, <2>3 DEF Fire, TypeOK
  <1>2. ASSUME NEW d \in Dispatchers, TakeBatch(d)
        PROVE  TypeOK'
    <2>1. cursor' \in BatchNos /\ round' \subseteq BatchNos
      BY <1>2, IncrementTypes DEF TakeBatch
    <2>2. firings' \in Nat
      BY <1>2 DEF TakeBatch, TypeOK
    <2>3. QED BY <1>2, <1>a, <2>1, <2>2 DEF TakeBatch, TypeOK
  <1>3. ASSUME NEW d \in Dispatchers, TakeFirstBatch(d)
        PROVE  TypeOK'
    <2>1. cursor' \in BatchNos /\ round' \subseteq BatchNos
      BY <1>3, IncrementTypes DEF TakeFirstBatch, TypeOK
    <2>2. QED BY <1>3, <1>a, <1>b, <2>1 DEF TakeFirstBatch, TypeOK
  <1>4. ASSUME NEW d \in Dispatchers, NEW b \in Boards, SendFetch(d, b)
        PROVE  TypeOK'
    BY <1>4 DEF SendFetch, TypeOK
  <1>5. ASSUME NEW d \in Dispatchers, Refused(d) \/ Crash(d)
        PROVE  TypeOK'
    BY <1>5, <1>b DEF Refused, Crash, TypeOK
  <1>6. ASSUME NEW b \in Boards, FetchOk(b)
        PROVE  TypeOK'
    <2>1. FirstAge \in Ages
      BY DEF FirstAge, Ages
    <2>2. age' \in [Boards -> Ages]
      BY <1>6, <2>1 DEF FetchOk, TypeOK
    <2>3. QED BY <1>6, <2>2 DEF FetchOk, TypeOK
  <1>7. ASSUME NEW b \in Boards, FetchFailed(b)
        PROVE  TypeOK'
    BY <1>7, <1>b DEF FetchFailed, TypeOK
  <1>8. CASE RedisRestored
    BY <1>8, <1>b DEF RedisRestored, TypeOK
  <1>9. CASE UNCHANGED vars
    BY <1>9 DEF vars, TypeOK
  <1>10. QED
    BY <1>1, <1>2, <1>3, <1>4, <1>5, <1>6, <1>7, <1>8, <1>9 DEF Next, Dispatch, FetchBoard

\* Every reachable state of the rotation is well formed.
THEOREM TypeCorrect == Spec => []TypeOK
  BY TypeInit, TypeStep, PTL DEF Spec

-----------------------------------------------------------------------------
(* The batches given in the round are those below the cursor, so the one that is *)
(* given next is not among them.                                                 *)

LEMMA RoundStep ==
  ASSUME TypeOK, RoundIsPrefix, [Next]_vars
  PROVE  RoundIsPrefix'
  <1>1. CASE Increment
    <2>1. cursor \in BatchNos /\ cursor' = Advance(cursor)
      BY <1>1 DEF Increment, TypeOK
    <2>2. \A k \in BatchNos : k \in Nat
      BY NBatchesType DEF BatchNos
    <2>3. CASE cursor' = 0
      <3>1. round' = {}
        BY <1>1, <2>3 DEF Increment
      <3>2. QED BY <2>2, <2>3, <3>1 DEF RoundIsPrefix
    <2>4. CASE cursor' # 0
      <3>1. cursor' = cursor + 1
        BY <2>1, <2>4, AdvanceSteps
      <3>2. round' = round \cup {cursor}
        BY <1>1, <2>4 DEF Increment
      <3>3. QED BY <2>1, <2>2, <3>1, <3>2 DEF RoundIsPrefix
    <2>5. QED BY <2>3, <2>4
  <1>2. CASE RedisRestored
    BY <1>2 DEF RedisRestored, RoundIsPrefix
  <1>3. CASE UNCHANGED <<cursor, round>>
    BY <1>3 DEF RoundIsPrefix
  <1>4. Fire \/ UNCHANGED vars => UNCHANGED <<cursor, round>>
    BY DEF Fire, vars
  <1>5. \A d \in Dispatchers : Dispatch(d) => Increment \/ UNCHANGED <<cursor, round>>
    BY DEF Dispatch, TakeBatch, TakeFirstBatch, SendFetch, Refused, Crash
  <1>6. \A b \in Boards : FetchBoard(b) => UNCHANGED <<cursor, round>>
    BY DEF FetchBoard, FetchOk, FetchFailed
  <1>7. QED BY <1>1, <1>2, <1>3, <1>4, <1>5, <1>6 DEF Next

LEMMA RoundIsPrefixHolds == Spec => []RoundIsPrefix
  <1>1. Init => RoundIsPrefix
    BY NBatchesType DEF Init, RoundIsPrefix, BatchNos
  <1>2. TypeOK /\ RoundIsPrefix /\ [Next]_vars => RoundIsPrefix'
    BY RoundStep
  <1>3. QED BY <1>1, <1>2, TypeCorrect, PTL DEF Spec

\* Whatever firings are concurrent, doubled or redelivered, a batch is not taken again
\* before the cursor has been through the whole list or Redis was restored.
THEOREM TakenOnceARound == Spec => NoBatchTwice
  <1>1. TypeOK /\ RoundIsPrefix /\ [Next]_vars
        => [\A d \in Dispatchers : TakeBatch(d) => cursor \notin round]_vars
    <2> SUFFICES ASSUME TypeOK, RoundIsPrefix PROVE cursor \notin round
      OBVIOUS
    <2>1. \A k \in BatchNos : ~(k < k)
      BY NBatchesType DEF BatchNos
    <2>2. QED BY <2>1 DEF RoundIsPrefix
  <1>2. QED BY <1>1, TypeCorrect, RoundIsPrefixHolds, PTL DEF Spec, NoBatchTwice
=============================================================================
