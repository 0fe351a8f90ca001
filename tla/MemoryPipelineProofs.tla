------------------------- MODULE MemoryPipelineProofs -------------------------
(***************************************************************************)
(* The invariants of MemoryPipeline, for any sessions, batch sizes, turns  *)
(* and faults: NothingSkipped for a store that writes the rows of a turn   *)
(* in one step, and for any store the types, PersonaCurrent, and that      *)
(* neither stored memories (RecordsHaveWakeUp) nor rows (RowsHaveWakeUp)   *)
(* are left without a timer, a task or a known exception.                  *)
(***************************************************************************)
EXTENDS MemoryPipeline, FiniteSetTheorems, SequenceTheorems, WellFoundedInduction, TLAPS

Turn == [stamp : Nat, todo : 0..BatchProcess, step : {"none", "write", "save"}, at : Nat]
Task1 == [session : Sessions \cup {NoKey}, phase : {"idle", "read", "extracted", "marked"},
          batch : SUBSET Nat, left : {"none", "tail", "full"}, stored : BOOLEAN]

\* The states of the keys, and what L2 reads into them.
StatesOK ==
  /\ state \in [Keys -> SessionState \cup {NoState}]
  /\ saved \in [Keys -> SessionState \cup {NoState}]
  /\ records \in [Sessions -> Nat] /\ l2.upTo \in Nat

DataOK ==
  /\ rows \in [Sessions -> Seq(Nat)] /\ capture \in [Sessions -> Turn]
  /\ cursor \in [Sessions -> Nat] /\ extracted \in [Sessions -> SUBSET Nat]
  /\ l1 \in Task1

\* The rows of a session are in the order of their times.
Sorted == \A s \in Sessions : \A i, j \in DOMAIN rows[s] : i <= j => rows[s][i] <= rows[s][j]

\* Neither a row nor the cursor is ahead of the last turn; one that is yet to
\* be written is later than all of them.
NotAhead(s, t) == t <= capture[s].stamp /\ (capture[s].todo > 0 => t < capture[s].stamp)
InTime == \A s \in Sessions :
  NotAhead(s, cursor[s]) /\ \A i \in DOMAIN rows[s] : NotAhead(s, rows[s][i])

\* At most one batch of rows has the same time.
Block(s, t) == {i \in DOMAIN rows[s] : rows[s][i] = t}
SmallBlocks == \A s \in Sessions : \A t \in Nat : Cardinality(Block(s, t)) <= BatchProcess

\* A batch has every row past the cursor and up to its last one.
Whole(s, batch) ==
  /\ batch \subseteq DOMAIN rows[s]
  /\ \A b \in batch : \A i \in DOMAIN rows[s] :
       cursor[s] < rows[s][i] /\ rows[s][i] <= rows[s][b] => i \in batch

BatchOK == \A s \in Sessions :
  /\ l1.session = s /\ l1.phase \in {"read", "extracted"} => Whole(s, l1.batch)
  /\ l1.session = s /\ l1.phase = "extracted" => l1.batch \subseteq extracted[s]

Inv == DataOK /\ Sorted /\ InTime /\ SmallBlocks /\ BatchOK /\ NothingSkipped

-----------------------------------------------------------------------------
\* A set of rows is finite.
LEMMA RowsFinite ==
  ASSUME DataOK, NEW s \in Sessions, NEW S \in SUBSET DOMAIN rows[s]
  PROVE  IsFiniteSet(S) /\ Cardinality(S) \in Nat
<1>1. DOMAIN rows[s] = 1..Len(rows[s]) /\ Len(rows[s]) \in Nat
  BY DEF DataOK
<1>2. IsFiniteSet(DOMAIN rows[s])
  BY <1>1, FS_Interval
<1>3. IsFiniteSet(S)
  BY <1>2, FS_Subset
<1> QED BY <1>3, FS_CardinalityType

\* A query of twice the batch size sees the end of the block of one time in
\* which the first batch ends, and so a slice of it leaves nothing behind.
LEMMA SliceWhole ==
  ASSUME DataOK, Sorted, SmallBlocks, NEW s \in Sessions
  PROVE  Whole(s, Slice(s))
<1> DEFINE before(i) == {h \in Past(s) : h < i}
           B == BatchProcess
<1>1. /\ DOMAIN rows[s] = 1..Len(rows[s]) /\ Len(rows[s]) \in Nat /\ B \in Nat \ {0}
      /\ \A i \in DOMAIN rows[s] : rows[s][i] \in Nat
      /\ Past(s) \subseteq DOMAIN rows[s] /\ Queried(s) \subseteq Past(s) /\ cursor[s] \in Nat
  BY BoundsAssumption DEF DataOK, Past, Queried
<1>2. \A i : IsFiniteSet(before(i)) /\ Cardinality(before(i)) \in Nat
  BY <1>1, RowsFinite
<1>3. ASSUME NEW b \in Slice(s), NEW i \in DOMAIN rows[s],
             cursor[s] < rows[s][i], rows[s][i] <= rows[s][b]
      PROVE  i \in Slice(s)
  <2>1. PICK j \in Queried(s) : Cardinality(before(j)) < B /\ rows[s][b] <= rows[s][j]
    BY DEF Slice
  <2>2. i \in Past(s) /\ rows[s][i] <= rows[s][j] /\ j \in DOMAIN rows[s] /\ b \in DOMAIN rows[s]
    BY <1>1, <1>3, <2>1 DEF Past, Slice
  <2>3. Cardinality(before(i)) < 2 * B
    <3>1. CASE i <= j
      <4>1. before(i) \subseteq before(j)
        BY <1>1, <2>2, <3>1
      <4>2. Cardinality(before(i)) <= Cardinality(before(j))
        <5> HIDE DEF before
        <5>1. before(i) \in SUBSET before(j) /\ IsFiniteSet(before(j))
          BY <1>2, <4>1
        <5> QED BY <5>1, FS_Subset
      <4>3. Cardinality(before(i)) \in Nat /\ Cardinality(before(j)) \in Nat
        BY <1>2
      <4> HIDE DEF before
      <4> QED BY <1>1, <2>1, <4>2, <4>3
    <3>2. CASE j < i
      <4> DEFINE t == rows[s][j]
                 rest == Block(s, t) \ {i}
      <4>1. rows[s][i] = t /\ i \in Block(s, t) /\ t \in Nat
        BY <1>1, <2>2, <3>2 DEF Sorted, Block
      <4>2. before(i) \subseteq before(j) \cup rest
        <5>1. ASSUME NEW h \in before(i), h \notin before(j) PROVE h \in rest
          <6>1. h \in DOMAIN rows[s] /\ h < i /\ j <= h
            BY <1>1, <2>2, <5>1
          <6>2. rows[s][j] <= rows[s][h] /\ rows[s][h] <= rows[s][i]
            BY <1>1, <2>2, <6>1 DEF Sorted
          <6> QED BY <1>1, <2>2, <4>1, <6>1, <6>2 DEF Block
        <5> QED BY <5>1
      <4>3. IsFiniteSet(rest) /\ Cardinality(rest) \in Nat /\ Cardinality(rest) < B
        <5>1. IsFiniteSet(Block(s, t)) /\ Cardinality(Block(s, t)) \in Nat
          BY RowsFinite DEF Block
        <5>2. IsFiniteSet(rest) /\ Cardinality(rest) = Cardinality(Block(s, t)) - 1
          BY <4>1, <5>1, FS_RemoveElement
        <5>3. Cardinality(Block(s, t)) <= B
          BY <4>1 DEF SmallBlocks
        <5> QED BY <1>1, <5>1, <5>2, <5>3, FS_CardinalityType
      <4>4. /\ IsFiniteSet(before(j) \cup rest)
            /\ Cardinality(before(j) \cup rest) \in Nat
            /\ Cardinality(before(j) \cup rest) <= Cardinality(before(j)) + Cardinality(rest)
        <5> HIDE DEF before, rest
        <5>1. IsFiniteSet(before(j) \cap rest) /\ IsFiniteSet(before(j) \cup rest)
          BY <1>2, <4>3, FS_Intersection, FS_Union
        <5>2. Cardinality(before(j) \cap rest) \in Nat /\ Cardinality(before(j) \cup rest) \in Nat
          BY <5>1, FS_CardinalityType
        <5>3. Cardinality(before(j) \cup rest)
                = Cardinality(before(j)) + Cardinality(rest) - Cardinality(before(j) \cap rest)
          BY <1>2, <4>3, FS_Union
        <5> QED BY <1>2, <4>3, <5>1, <5>2, <5>3
      <4>5. Cardinality(before(i)) <= Cardinality(before(j) \cup rest)
        <5> HIDE DEF before, rest
        <5>1. before(i) \in SUBSET (before(j) \cup rest)
          BY <4>2
        <5> QED BY <4>4, <5>1, FS_Subset
      <4>6. Cardinality(before(i)) \in Nat /\ Cardinality(before(j)) \in Nat
        BY <1>2
      <4> HIDE DEF before, rest
      <4> QED BY <1>1, <2>1, <4>3, <4>4, <4>5, <4>6
    <3> QED BY <1>1, <2>2, <3>1, <3>2
  <2>4. i \in Queried(s)
    BY <2>2, <2>3 DEF Queried
  <2> QED BY <2>1, <2>2, <2>4 DEF Slice
<1> QED BY <1>1, <1>3 DEF Whole, Slice

-----------------------------------------------------------------------------
\* Steps that add no row and extract nothing: a turn begins, or goes on, and a
\* running L1 may end.
LEMMA TurnFrame ==
  ASSUME Inv, UNCHANGED <<rows, cursor, extracted>>, l1' = l1 \/ l1' = NoTask1,
         capture' \in [Sessions -> Turn],
         \A s \in Sessions :
           /\ capture[s].stamp <= capture'[s].stamp
           /\ capture'[s].todo > 0 =>
                capture[s].todo > 0 \/ capture[s].stamp < capture'[s].stamp
  PROVE  Inv'
<1>1. NoTask1 \in Task1 /\ NoTask1.phase = "idle"
  BY DEF NoTask1, Task1
<1>2. DataOK'
  BY <1>1 DEF Inv, DataOK
<1>3. InTime'
  <2>1. ASSUME NEW s \in Sessions, NEW t \in Nat, NotAhead(s, t)
        PROVE  t <= capture'[s].stamp /\ (capture'[s].todo > 0 => t < capture'[s].stamp)
    <3>1. /\ capture[s].stamp \in Nat /\ capture'[s].stamp \in Nat
          /\ capture[s].todo \in Nat /\ capture'[s].todo \in Nat
      BY BoundsAssumption DEF Inv, DataOK, Turn
    <3> QED BY <2>1, <3>1 DEF NotAhead
  <2>2. ASSUME NEW s \in Sessions
        PROVE  cursor[s] \in Nat /\ \A i \in DOMAIN rows[s] : rows[s][i] \in Nat
    BY DEF Inv, DataOK
  <2> QED BY <2>1, <2>2 DEF Inv, InTime, NotAhead
<1>4. SmallBlocks' /\ Sorted' /\ NothingSkipped'
  BY DEF Inv, SmallBlocks, Block, Sorted, NothingSkipped
<1>5. BatchOK'
  BY <1>1 DEF Inv, BatchOK, Whole
<1> QED BY <1>2, <1>3, <1>4, <1>5 DEF Inv

\* The rows of a turn come after all others, and after the cursor.
LEMMA RowsAppended ==
  ASSUME Inv, ~StoreAwaits, NEW s \in Sessions, UpsertRows(s)
  PROVE  Inv'
<1> DEFINE n == capture[s].todo
           t == capture[s].stamp
           old == Len(rows[s])
<1>1. /\ n \in 1..BatchProcess /\ BatchProcess \in Nat /\ t \in Nat
      /\ rows[s] \in Seq(Nat) /\ old \in Nat /\ DOMAIN rows[s] = 1..old
  BY BoundsAssumption DEF Inv, DataOK, Turn, UpsertRows
<1>2. /\ rows' = [rows EXCEPT ![s] = @ \o [i \in 1..n |-> t]]
      /\ capture' = [capture EXCEPT ![s].todo = @ - n]
      /\ UNCHANGED <<cursor, extracted, l1>>
  BY DEF UpsertRows, L1Side
<1>3. /\ rows'[s] \in Seq(Nat) /\ DOMAIN rows'[s] = 1..(old + n)
      /\ \A i \in 1..old : rows'[s][i] = rows[s][i]
      /\ \A i \in (old + 1)..(old + n) : rows'[s][i] = t
  <2>1. [i \in 1..n |-> t] \in Seq(Nat) /\ Len([i \in 1..n |-> t]) = n
    BY <1>1
  <2>2. rows'[s] = rows[s] \o [i \in 1..n |-> t]
    BY <1>2 DEF Inv, DataOK
  <2> QED BY <1>1, <2>1, <2>2
<1>4. \A r \in Sessions \ {s} : rows'[r] = rows[r] /\ capture'[r] = capture[r]
  BY <1>2 DEF Inv, DataOK
<1>5. capture'[s].stamp = t /\ capture'[s].todo = 0 /\ capture'[s] \in Turn
  <2>1. capture[s] \in Turn /\ capture'[s] = [capture[s] EXCEPT !.todo = n - n] /\ n - n = 0
    BY <1>1, <1>2 DEF Inv, DataOK
  <2>2. capture'[s] = [capture[s] EXCEPT !.todo = 0]
    BY <2>1
  <2> QED BY <1>1, <2>1, <2>2 DEF Turn
<1>6. DataOK'
  BY <1>2, <1>3, <1>4, <1>5 DEF Inv, DataOK
<1>7. \A i \in 1..old : rows[s][i] < t /\ rows[s][i] \in Nat
  BY <1>1 DEF Inv, InTime, NotAhead, DataOK
<1>8. cursor[s] < t /\ cursor[s] \in Nat
  BY <1>1 DEF Inv, InTime, NotAhead, DataOK
<1>9. \A i \in 1..(old + n) : i \notin 1..old => i \in (old + 1)..(old + n)
  BY <1>1
<1>10. old \in Nat /\ n \in Nat /\ n <= BatchProcess /\ BatchProcess \in Nat /\ t \in Nat
  BY <1>1
<1> HIDE DEF n, t, old
<1>11. \A i \in 1..(old + n) : rows'[s][i] <= t
  <2>1. ASSUME NEW i \in 1..(old + n) PROVE rows'[s][i] <= t
    <3>1. CASE i \in 1..old
      BY <1>3, <1>7, <1>10, <3>1
    <3>2. CASE rows'[s][i] = t
      BY <1>10, <3>2
    <3> QED BY <1>3, <1>9, <3>1, <3>2
  <2> QED BY <2>1
<1>12. Sorted'
  <2>1. ASSUME NEW i \in 1..(old + n), NEW j \in 1..(old + n), i <= j
        PROVE  rows'[s][i] <= rows'[s][j]
    <3>1. CASE j \in 1..old
      <4>1. i \in 1..old
        BY <1>10, <2>1, <3>1
      <4>2. rows'[s][i] = rows[s][i] /\ rows'[s][j] = rows[s][j]
        BY <1>3, <3>1, <4>1
      <4>3. rows[s][i] <= rows[s][j]
        BY <1>1, <2>1, <3>1, <4>1 DEF Inv, Sorted
      <4> QED BY <4>2, <4>3
    <3>2. CASE j \in (old + 1)..(old + n)
      <4>1. rows'[s][j] = t
        BY <1>3, <3>2
      <4> QED BY <1>11, <4>1
    <3> QED BY <1>9, <3>1, <3>2
  <2> QED BY <1>3, <1>4, <2>1 DEF Inv, Sorted
<1>13. InTime'
  <2>1. cursor'[s] <= capture'[s].stamp /\ ~(capture'[s].todo > 0)
    BY <1>2, <1>5, <1>8, <1>10
  <2>2. \A i \in DOMAIN rows'[s] : rows'[s][i] <= capture'[s].stamp
    BY <1>3, <1>5, <1>11
  <2> QED BY <1>2, <1>4, <2>1, <2>2 DEF Inv, InTime, NotAhead
<1>14. SmallBlocks'
  <2>1. ASSUME NEW u \in Nat PROVE Cardinality({i \in DOMAIN rows'[s] : rows'[s][i] = u}) <= BatchProcess
    <3>1. CASE u = t
      <4>1. \A i \in 1..(old + n) : rows'[s][i] = u <=> i \notin 1..old
        <5>1. ASSUME NEW i \in 1..old PROVE rows'[s][i] # t
          <6>1. rows'[s][i] = rows[s][i]
            BY <1>3, <1>10, <5>1
          <6> QED BY <1>7, <1>10, <5>1, <6>1
        <5> QED BY <1>3, <1>9, <3>1, <5>1
      <4>2. (1..(old + n)) \ (1..old) = (old + 1)..(old + n)
        BY <1>10
      <4>3. {i \in DOMAIN rows'[s] : rows'[s][i] = u} = (old + 1)..(old + n)
        BY <1>3, <4>1, <4>2
      <4>4. Cardinality((old + 1)..(old + n)) = IF old + 1 > old + n THEN 0 ELSE (old + n) - (old + 1) + 1
        BY <1>10, FS_Interval
      <4>5. Cardinality((old + 1)..(old + n)) <= BatchProcess
        BY <1>10, <4>4
      <4> QED BY <4>3, <4>5
    <3>2. CASE u # t
      <4>1. \A i \in 1..(old + n) : rows'[s][i] = u <=> i \in 1..old /\ rows[s][i] = u
        BY <1>3, <1>9, <3>2
      <4>2. \A i \in 1..old : i \in 1..(old + n)
        BY <1>10
      <4>3. {i \in DOMAIN rows'[s] : rows'[s][i] = u} = Block(s, u)
        BY <1>1, <1>3, <4>1, <4>2 DEF Block
      <4> QED BY <4>3 DEF Inv, SmallBlocks
    <3> QED BY <3>1, <3>2
  <2> QED BY <1>4, <2>1 DEF Inv, SmallBlocks, Block
<1>15. BatchOK'
  <2>1. ASSUME l1.session = s, l1.phase \in {"read", "extracted"} PROVE Whole(s, l1.batch)'
    <3>1. Whole(s, l1.batch)
      BY <2>1 DEF Inv, BatchOK
    <3>2. l1.batch \subseteq 1..(old + n)
      BY <1>1, <1>10, <3>1 DEF Whole
    <3>3. ASSUME NEW b \in l1.batch, NEW i \in 1..(old + n),
                 cursor[s] < rows'[s][i], rows'[s][i] <= rows'[s][b]
          PROVE  i \in l1.batch
      <4>1. b \in 1..old /\ rows'[s][b] = rows[s][b] /\ rows[s][b] < t /\ rows[s][b] \in Nat
        BY <1>1, <1>3, <1>7, <3>1 DEF Whole
      <4>2. i \in 1..old
        <5>1. rows'[s][i] # t
          BY <1>10, <3>3, <4>1
        <5> QED BY <1>3, <1>9, <5>1
      <4>3. rows'[s][i] = rows[s][i]
        BY <1>3, <4>2
      <4> QED BY <1>1, <3>1, <3>3, <4>1, <4>2, <4>3 DEF Whole
    <3> QED BY <1>2, <1>3, <3>2, <3>3 DEF Whole
  <2> QED BY <1>2, <1>4, <2>1 DEF Inv, BatchOK, Whole
<1>16. NothingSkipped'
  <2>1. ASSUME NEW i \in 1..(old + n), rows'[s][i] <= cursor[s] PROVE i \in extracted[s]
    <3>1. i \in 1..old
      <4>1. rows'[s][i] # t
        BY <1>8, <1>10, <2>1
      <4> QED BY <1>3, <1>9, <4>1
    <3> QED BY <1>1, <1>3, <2>1, <3>1 DEF Inv, NothingSkipped
  <2> QED BY <1>2, <1>3, <1>4, <2>1 DEF Inv, NothingSkipped
<1> QED BY <1>6, <1>12, <1>13, <1>14, <1>15, <1>16 DEF Inv

\* A batch is read whole; a query that fails reads an empty one.
LEMMA BatchRead ==
  ASSUME Inv, NEW s \in Sessions, L1Read(s)
  PROVE  Inv'
<1>1. /\ UNCHANGED <<rows, capture, cursor, extracted>>
      /\ l1'.session = s /\ l1'.phase = "read" /\ l1' \in Task1
      /\ l1'.batch \in {Slice(s), {}}
  <2>1. Slice(s) \in SUBSET Nat
    <3>1. Slice(s) \subseteq DOMAIN rows[s] /\ rows[s] \in Seq(Nat)
      BY DEF Slice, Queried, Past, Inv, DataOK
    <3> QED BY <3>1
  <2>2. Backlog(s) \in {"none", "tail", "full"}
    BY DEF Backlog
  <2>3. UNCHANGED <<rows, capture, cursor, extracted>>
    BY DEF L1Read, Data
  <2>4. CASE l1' = [session |-> s, phase |-> "read", batch |-> Slice(s), left |-> Backlog(s), stored |-> FALSE]
    BY <2>1, <2>2, <2>3, <2>4 DEF Task1
  <2>5. CASE l1' = [NoTask1 EXCEPT !.session = s, !.phase = "read"]
    <3>1. l1' = [session |-> s, phase |-> "read", batch |-> {}, left |-> "none", stored |-> FALSE]
      BY <2>5 DEF NoTask1
    <3> QED BY <2>3, <3>1 DEF Task1
  <2> QED BY <2>4, <2>5 DEF L1Read
<1>2. DataOK'
  BY <1>1 DEF Inv, DataOK
<1>3. BatchOK'
  <2>1. Whole(s, Slice(s)) /\ Whole(s, {})
    BY SliceWhole DEF Inv, Whole
  <2> QED BY <1>1, <2>1 DEF BatchOK, Whole
<1> QED BY <1>1, <1>2, <1>3
        DEF Inv, Sorted, InTime, NotAhead, SmallBlocks, Block, NothingSkipped

\* The rows of the batch are extracted.
LEMMA BatchExtracted ==
  ASSUME Inv, NEW stored \in BOOLEAN, L1Extract(stored)
  PROVE  Inv'
<1> DEFINE s == l1.session
<1>1. /\ l1 \in Task1 /\ l1.phase = "read" /\ UNCHANGED <<rows, capture, cursor>>
      /\ l1' = [l1 EXCEPT !.phase = "extracted", !.stored = stored]
      /\ extracted' = [extracted EXCEPT ![s] = @ \cup l1.batch]
  BY DEF Inv, DataOK, L1Extract
<1>2. /\ l1' \in Task1 /\ l1'.session = s /\ l1'.batch = l1.batch /\ l1'.phase = "extracted"
      /\ l1.batch \in SUBSET Nat
  BY <1>1 DEF Task1
<1>3. DataOK'
  BY <1>1, <1>2 DEF Inv, DataOK
<1>4. \A r \in Sessions : extracted[r] \subseteq extracted'[r]
  BY <1>1 DEF Inv, DataOK
<1>5. s \in Sessions => l1.batch \subseteq extracted'[s]
  BY <1>1 DEF Inv, DataOK
<1>6. BatchOK'
  BY <1>1, <1>2, <1>5 DEF Inv, BatchOK, Whole
<1>7. NothingSkipped'
  BY <1>1, <1>4 DEF Inv, NothingSkipped
<1> QED BY <1>1, <1>3, <1>6, <1>7 DEF Inv, Sorted, InTime, NotAhead, SmallBlocks, Block

\* The cursor moves to the last row of the batch, which has all rows up to it.
LEMMA CursorMoved ==
  ASSUME Inv, NEW s \in Sessions, L1Mark(s)
  PROVE  Inv'
<1>1. /\ l1 \in Task1 /\ l1.session = s /\ l1.phase = "extracted"
      /\ l1' = [l1 EXCEPT !.phase = "marked"]
      /\ UNCHANGED <<rows, capture, extracted>>
  BY DEF Inv, DataOK, L1Mark
<1>2. l1' \in Task1 /\ l1'.session = s /\ l1'.phase = "marked"
  BY <1>1 DEF Task1
<1>3. PICK last \in l1.batch :
        /\ \A j \in l1.batch : rows[s][j] <= rows[s][last]
        /\ cursor' = [cursor EXCEPT ![s] = IF rows[s][last] > @ THEN rows[s][last] ELSE @]
  BY DEF L1Mark
<1>4. /\ Whole(s, l1.batch) /\ l1.batch \subseteq extracted[s]
      /\ last \in DOMAIN rows[s] /\ \A i \in DOMAIN rows[s] : rows[s][i] \in Nat
      /\ cursor[s] \in Nat
  BY <1>1, <1>3 DEF Inv, BatchOK, Whole, DataOK
<1>5. /\ cursor'[s] = IF rows[s][last] > cursor[s] THEN rows[s][last] ELSE cursor[s]
      /\ \A r \in Sessions \ {s} : cursor'[r] = cursor[r]
      /\ cursor' \in [Sessions -> Nat]
  BY <1>3, <1>4 DEF Inv, DataOK
<1>6. DataOK'
  BY <1>1, <1>2, <1>5 DEF Inv, DataOK
<1>7. InTime'
  BY <1>1, <1>4, <1>5 DEF Inv, InTime, NotAhead
<1>8. NothingSkipped'
  <2>1. ASSUME NEW i \in DOMAIN rows[s], rows[s][i] <= cursor'[s] PROVE i \in extracted[s]
    <3>1. CASE rows[s][i] <= cursor[s]
      BY <3>1 DEF Inv, NothingSkipped
    <3>2. CASE cursor[s] < rows[s][i]
      <4>1. rows[s][i] <= rows[s][last]
        BY <1>4, <1>5, <2>1, <3>2
      <4> QED BY <1>3, <1>4, <3>2, <4>1 DEF Whole
    <3> QED BY <1>4, <3>1, <3>2
  <2> QED BY <1>1, <1>5, <2>1 DEF Inv, NothingSkipped
<1>9. BatchOK'
  BY <1>2 DEF BatchOK
<1> QED BY <1>1, <1>6, <1>7, <1>8, <1>9 DEF Inv, Sorted, SmallBlocks, Block

-----------------------------------------------------------------------------
\* The states that the steps compute are states.
LEMMA StateType ==
  ASSUME StatesOK, NEW k \in Keys
  PROVE  StateOf(k) \in SessionState /\ EffectiveThreshold(StateOf(k)) \in Nat
<1>1. NewState \in SessionState
  BY BoundsAssumption DEF NewState, SessionState
<1>2. StateOf(k) \in SessionState
  BY <1>1 DEF StatesOK, StateOf
<1> QED BY <1>2, BoundsAssumption DEF EffectiveThreshold, SessionState

LEMMA PersistType ==
  ASSUME StatesOK, NEW new \in [Keys -> SessionState \cup {NoState}], Persist(new)
  PROVE  saved' \in [Keys -> SessionState \cup {NoState}]
BY DEF StatesOK, Persist

LEMMA WarmType ==
  ASSUME NEW st \in SessionState PROVE AdvanceWarmup(st) \in SessionState
BY BoundsAssumption DEF AdvanceWarmup, SessionState

\* What the steps that write no state leave as it was.
LEMMA StatesSame ==
  ASSUME StatesOK, UNCHANGED <<state, saved, records>>, l2'.upTo \in Nat
  PROVE  StatesOK'
BY DEF StatesOK

LEMMA L1States ==
  ASSUME StatesOK, NEW s \in Sessions,
         Notify(s) \/ NotifySaved(s) \/ L1Finish(s)
  PROVE  StatesOK'
<1>1. s \in Keys /\ ProfileOf[s] \in Keys
  BY KeysAssumption DEF Keys
<1>2. CASE Notify(s)
  <2> DEFINE st == [StateOf(s) EXCEPT !.count = @ + 1]
  <2>1. st \in SessionState
    BY <1>1, StateType DEF SessionState
  <2>2. state' = [state EXCEPT ![s] = st] \/ state' = state
    BY <1>2 DEF Notify
  <2>3. state' \in [Keys -> SessionState \cup {NoState}]
    BY <2>1, <2>2 DEF StatesOK
  <2> QED BY <1>2, <2>3 DEF Notify, StatesOK, L2Side
<1>3. CASE NotifySaved(s)
  <2>1. saved' \in [Keys -> SessionState \cup {NoState}]
    BY <1>3, PersistType DEF NotifySaved, StatesOK
  <2>2. \/ UNCHANGED state
        \/ \E gone : state' = [k \in Keys |-> IF k \in gone THEN NoState ELSE state[k]]
    BY <1>3 DEF NotifySaved
  <2>3. state' \in [Keys -> SessionState \cup {NoState}]
    BY <2>2 DEF StatesOK
  <2> QED BY <1>3, <2>1, <2>3 DEF NotifySaved, StatesOK
<1>4. CASE L1Finish(s)
  <2> DEFINE key == IF l1.stored THEN ProfileOf[s] ELSE s
             counted == [state EXCEPT ![s] = AdvanceWarmup([StateOf(s) EXCEPT !.count = 0])]
             entry == [(IF counted[key] = NoState THEN NewState ELSE counted[key]) EXCEPT !.pending = 1]
             new == [counted EXCEPT ![key] = entry]
  <2>1. [StateOf(s) EXCEPT !.count = 0] \in SessionState
    BY <1>1, StateType DEF SessionState
  <2>2. counted \in [Keys -> SessionState \cup {NoState}]
    BY <2>1, WarmType DEF StatesOK
  <2>3. entry \in SessionState
    <3>1. NewState \in SessionState
      BY BoundsAssumption DEF NewState, SessionState
    <3>2. key \in Keys
      BY <1>1
    <3> HIDE DEF counted, key
    <3> QED BY <2>2, <3>1, <3>2 DEF SessionState
  <2>4. new \in [Keys -> SessionState \cup {NoState}]
    <3> HIDE DEF counted, key, entry
    <3> QED BY <2>2, <2>3
  <2>5. state' = new /\ Persist(new) /\ UNCHANGED <<records, l2>>
    BY <1>4 DEF L1Finish, Data, L2Side
  <2>6. saved' \in [Keys -> SessionState \cup {NoState}]
    <3> HIDE DEF new
    <3> QED BY <2>4, <2>5, PersistType
  <2> QED BY <2>4, <2>5, <2>6 DEF StatesOK
<1> QED BY <1>2, <1>3, <1>4

LEMMA L2States ==
  ASSUME StatesOK, NEW k \in Keys,
         L2Read(k) \/ L2Fail(k) \/ \E how \in {"ok", "failed", "empty"} : L2Finish(k, how)
  PROVE  StatesOK'
<1>1. CASE L2Read(k)
  <2>1. RecordsOf(k) \in Nat
    <3>1. CASE k \in Sessions
      BY <3>1 DEF StatesOK, RecordsOf
    <3>2. CASE k \notin Sessions /\ \E s \in Sessions : ProfileOf[s] = k
      <4>1. (CHOOSE s \in Sessions : ProfileOf[s] = k) \in Sessions
        BY <3>2
      <4> QED BY <3>2, <4>1 DEF StatesOK, RecordsOf
    <3>3. CASE k \notin Sessions /\ ~\E s \in Sessions : ProfileOf[s] = k
      BY <3>3 DEF RecordsOf
    <3> QED BY <3>1, <3>2, <3>3
  <2>2. l2'.upTo = RecordsOf(k)
    BY <1>1 DEF L2Read
  <2> QED BY <1>1, <2>1, <2>2, StatesSame DEF L2Read, Data, Memory
<1>2. CASE L2Fail(k)
  BY <1>2, StatesSame DEF L2Fail, Data, Memory, NoTask2
<1>3. ASSUME NEW how, L2Finish(k, how) PROVE StatesOK'
  <2>1. PICK upTo \in {StateOf(k).upTo, l2.upTo} :
          LET new == [state EXCEPT ![k] = [StateOf(k) EXCEPT !.pending = 0, !.upTo = upTo]]
          IN  state' = new /\ Persist(new)
    BY <1>3 DEF L2Finish, SeenByL2
  <2> DEFINE st == [StateOf(k) EXCEPT !.pending = 0, !.upTo = upTo]
             new == [state EXCEPT ![k] = st]
  <2>2. st \in SessionState
    BY <2>1, StateType DEF SessionState, StatesOK
  <2>3. new \in [Keys -> SessionState \cup {NoState}]
    <3> HIDE DEF st
    <3> QED BY <2>2 DEF StatesOK
  <2>4. saved' \in [Keys -> SessionState \cup {NoState}]
    <3> HIDE DEF new
    <3> QED BY <2>1, <2>3, PersistType DEF new
  <2> QED BY <1>3, <2>1, <2>3, <2>4 DEF L2Finish, StatesOK, Data, NoTask2
<1> QED BY <1>1, <1>2, <1>3

LEMMA RestartStates ==
  ASSUME StatesOK, Restart PROVE StatesOK'
<1>1. saved' \in [Keys -> SessionState \cup {NoState}]
  <2>1. CASE Persist(state)
    BY <2>1, PersistType DEF StatesOK
  <2>2. CASE UNCHANGED saved
    BY <2>2 DEF StatesOK
  <2> QED BY <2>1, <2>2 DEF Restart
<1>2. ASSUME NEW st \in SessionState \cup {NoState} PROVE Recovered(st) \in SessionState \cup {NoState}
  BY DEF Recovered, SessionState
<1>3. state' \in [Keys -> SessionState \cup {NoState}]
  BY <1>1, <1>2 DEF Restart
<1> QED BY <1>1, <1>3 DEF Restart, StatesOK, NoTask2

LEMMA StatesStep == StatesOK /\ [Next]_vars => StatesOK'
<1> SUFFICES ASSUME StatesOK, [Next]_vars PROVE StatesOK'
  OBVIOUS
<1>0. l2.upTo \in Nat
  BY DEF StatesOK
<1>1. CASE UNCHANGED vars
  BY <1>0, <1>1, StatesSame DEF vars
<1>2. ASSUME NEW s \in Sessions,
             \/ \E n \in RowsPerCapture : Capture(s, n)
             \/ UpsertRows(s) \/ FlushSession(s) \/ IdleFires(s) \/ L1Read(s) \/ L1Mark(s) \/ L1Fail(s)
      PROVE  StatesOK'
  BY <1>0, <1>2, StatesSame
     DEF Capture, UpsertRows, FlushSession, IdleFires, L1Read, L1Mark, L1Fail, Data, Memory, L2Side
<1>3. ASSUME NEW s \in Sessions, Notify(s) \/ NotifySaved(s) \/ L1Finish(s) PROVE StatesOK'
  BY <1>3, L1States
<1>4. ASSUME NEW stored \in BOOLEAN, L1Extract(stored) PROVE StatesOK'
  <2>1. records' \in [Sessions -> Nat]
    <3> DEFINE more == [records EXCEPT ![l1.session] = @ + 1]
    <3>1. records' = more \/ records' = records
      BY <1>4 DEF L1Extract
    <3>2. records \in [Sessions -> Nat]
      BY DEF StatesOK
    <3>3. more \in [Sessions -> Nat]
      <4>1. CASE l1.session \in Sessions
        BY <3>2, <4>1
      <4>2. CASE l1.session \notin Sessions
        <5>1. more = records
          BY <3>2, <4>2
        <5> QED BY <3>2, <5>1
      <4> QED BY <4>1, <4>2
    <3> HIDE DEF more
    <3> QED BY <3>1, <3>2, <3>3
  <2> QED BY <1>4, <2>1 DEF L1Extract, StatesOK, Memory, L2Side
<1>5. ASSUME NEW k \in Keys, L2Read(k) \/ L2Fail(k)
                               \/ \E how \in {"ok", "failed", "empty"} : L2Finish(k, how)
      PROVE  StatesOK'
  BY <1>5, L2States
<1>6. CASE (\E k \in Keys : L2Fires(k)) \/ L3End \/ Destroy \/ FlushTimers
  BY <1>0, <1>6, StatesSame DEF L2Fires, L3End, Destroy, FlushTimers, Data, Memory, L2Side
<1>7. CASE Restart
  BY <1>7, RestartStates
<1> QED BY <1>1, <1>2, <1>3, <1>4, <1>5, <1>6, <1>7 DEF Next

-----------------------------------------------------------------------------
LEMMA InvInit == Init => Inv /\ StatesOK
<1> SUFFICES ASSUME Init PROVE Inv /\ StatesOK
  OBVIOUS
<1>1. NoTask1 \in Task1 /\ NoTask1.phase = "idle"
  BY DEF NoTask1, Task1
<1>2. NoTurn \in Turn /\ NoTurn.stamp = 0 /\ NoTurn.todo = 0
  BY BoundsAssumption DEF NoTurn, Turn
<1>3. DataOK
  BY <1>1, <1>2 DEF Init, DataOK
<1>4. \A s \in Sessions : DOMAIN rows[s] = {}
  BY DEF Init
<1>5. SmallBlocks
  <2>1. \A s \in Sessions : \A t : Block(s, t) = {}
    BY <1>4 DEF Block
  <2> QED BY <2>1, FS_EmptySet, BoundsAssumption DEF SmallBlocks
<1>6. Sorted /\ InTime /\ BatchOK /\ NothingSkipped
  BY <1>1, <1>2, <1>4 DEF Init, Sorted, InTime, NotAhead, BatchOK, NothingSkipped
<1>7. StatesOK
  BY DEF Init, StatesOK, NoTask2
<1> QED BY <1>3, <1>5, <1>6, <1>7 DEF Inv

\* The steps of a turn but for its rows.
LEMMA TurnSteps ==
  ASSUME Inv, StatesOK, NEW s \in Sessions,
         (\E n \in RowsPerCapture : Capture(s, n)) \/ Notify(s) \/ NotifySaved(s)
  PROVE  Inv'
<1>1. UNCHANGED <<rows, cursor, extracted, l1>>
  BY DEF Capture, Notify, NotifySaved, L1Side
<1>2. capture \in [Sessions -> Turn] /\ capture[s].stamp \in Nat /\ s \in Keys /\ s \in Sessions
  BY DEF Inv, DataOK, Turn, Keys
<1>3. ASSUME NEW turn \in Turn, capture' = [capture EXCEPT ![s] = turn],
             capture[s].stamp <= turn.stamp,
             turn.todo > 0 => capture[s].todo > 0 \/ capture[s].stamp < turn.stamp
      PROVE  Inv'
  <2>1. capture' \in [Sessions -> Turn]
    BY <1>2, <1>3
  <2>2. \A r \in Sessions :
          /\ capture[r].stamp <= capture'[r].stamp
          /\ capture'[r].todo > 0 => capture[r].todo > 0 \/ capture[r].stamp < capture'[r].stamp
    BY <1>2, <1>3 DEF Turn
  <2> QED BY <1>1, <2>1, <2>2, TurnFrame
<1>4. ASSUME NEW n \in RowsPerCapture, Capture(s, n) PROVE Inv'
  <2> DEFINE turn == [capture[s] EXCEPT !.stamp = @ + 1, !.todo = n, !.step = "write"]
  <2>1. n \in 0..BatchProcess
    BY BoundsAssumption
  <2>2. turn \in Turn /\ turn.stamp = capture[s].stamp + 1
    <3> DEFINE next == capture[s].stamp + 1
    <3>1. capture[s] \in Turn /\ next \in Nat
      BY <1>2
    <3> HIDE DEF next
    <3>2. [capture[s] EXCEPT !.stamp = next, !.todo = n, !.step = "write"] \in Turn
      BY <2>1, <3>1 DEF Turn
    <3>3. [capture[s] EXCEPT !.stamp = next, !.todo = n, !.step = "write"].stamp = next
      BY <3>1 DEF Turn
    <3> QED BY <3>2, <3>3 DEF next
  <2>3. capture' = [capture EXCEPT ![s] = turn]
    BY <1>2, <1>4 DEF Capture
  <2>4. capture[s].stamp < turn.stamp /\ capture[s].stamp <= turn.stamp
    BY <1>2, <2>2
  <2> HIDE DEF turn
  <2> QED BY <1>3, <2>2, <2>3, <2>4
<1>5. CASE Notify(s)
  <2> DEFINE at == EffectiveThreshold([StateOf(s) EXCEPT !.count = @ + 1])
             ended == [capture[s] EXCEPT !.step = "none"]
             turn == [capture[s] EXCEPT !.step = "save", !.at = at]
  <2>1. at \in Nat
    BY <1>2, StateType, BoundsAssumption DEF EffectiveThreshold, SessionState
  <2>2. /\ ended \in Turn /\ ended.stamp = capture[s].stamp /\ ended.todo = capture[s].todo
        /\ turn \in Turn /\ turn.stamp = capture[s].stamp /\ turn.todo = capture[s].todo
    <3> HIDE DEF at
    <3> QED BY <1>2, <2>1 DEF Turn
  <2>3. capture' = [capture EXCEPT ![s] = ended] \/ capture' = [capture EXCEPT ![s] = turn]
    BY <1>2, <1>5 DEF Notify
  <2>4. capture[s].stamp <= capture[s].stamp
    BY <1>2
  <2> HIDE DEF turn, ended
  <2> QED BY <1>3, <2>2, <2>3, <2>4
<1>6. CASE NotifySaved(s)
  <2> DEFINE turn == [capture[s] EXCEPT !.step = "none", !.at = 0]
  <2>1. turn \in Turn /\ turn.stamp = capture[s].stamp /\ turn.todo = capture[s].todo
    BY <1>2 DEF Turn
  <2>2. capture' = [capture EXCEPT ![s] = turn]
    BY <1>2, <1>6 DEF NotifySaved
  <2>3. capture[s].stamp <= capture[s].stamp
    BY <1>2
  <2> HIDE DEF turn
  <2> QED BY <1>3, <2>1, <2>2, <2>3
<1> QED BY <1>4, <1>5, <1>6

LEMMA InvStep ==
  ASSUME ~StoreAwaits, Inv, StatesOK, [Next]_vars PROVE Inv'
<1>1. capture \in [Sessions -> Turn]
      /\ \A s \in Sessions : capture[s].stamp \in Nat /\ capture[s].stamp <= capture[s].stamp
  BY DEF Inv, DataOK, Turn
<1>2. ASSUME UNCHANGED <<rows, capture, cursor, extracted>>, l1' = l1 \/ l1' = NoTask1
      PROVE  Inv'
  BY <1>1, <1>2, TurnFrame
<1>3. CASE UNCHANGED vars
  BY <1>2, <1>3 DEF vars
<1>4. ASSUME NEW s \in Sessions,
             (\E n \in RowsPerCapture : Capture(s, n)) \/ Notify(s) \/ NotifySaved(s)
      PROVE  Inv'
  BY <1>4, TurnSteps
<1>5. ASSUME NEW s \in Sessions, FlushSession(s) \/ IdleFires(s) \/ L1Finish(s) \/ L1Fail(s)
      PROVE  Inv'
  BY <1>2, <1>5 DEF FlushSession, IdleFires, L1Finish, L1Fail, Data, L1Side
<1>6. ASSUME NEW s \in Sessions, UpsertRows(s) PROVE Inv'
  BY <1>6, RowsAppended
<1>7. ASSUME NEW s \in Sessions, L1Read(s) PROVE Inv'
  BY <1>7, BatchRead
<1>8. ASSUME NEW s \in Sessions, L1Mark(s) PROVE Inv'
  BY <1>8, CursorMoved
<1>9. ASSUME NEW stored \in BOOLEAN, L1Extract(stored) PROVE Inv'
  BY <1>9, BatchExtracted
<1>10. ASSUME NEW k \in Keys, L2Fires(k) \/ L2Read(k) \/ L2Fail(k)
                                \/ \E how \in {"ok", "failed", "empty"} : L2Finish(k, how)
       PROVE  Inv'
  BY <1>2, <1>10 DEF L2Fires, L2Read, L2Fail, L2Finish, Data, L1Side
<1>11. CASE L3End \/ Destroy \/ FlushTimers
  BY <1>2, <1>11 DEF L3End, Destroy, FlushTimers, Data, L1Side
<1>12. CASE Restart
  <2> DEFINE fresh == [s \in Sessions |-> [NoTurn EXCEPT !.stamp = capture[s].stamp]]
  <2>1. ASSUME NEW s \in Sessions
        PROVE  fresh[s] \in Turn /\ fresh[s].stamp = capture[s].stamp /\ fresh[s].todo = 0
    BY <1>1, BoundsAssumption DEF NoTurn, Turn
  <2>2. capture' = fresh /\ UNCHANGED <<rows, cursor, extracted>> /\ l1' = NoTask1
    BY <1>12 DEF Restart
  <2>3. fresh \in [Sessions -> Turn]
    BY <2>1
  <2> HIDE DEF fresh
  <2> QED BY <1>1, <2>1, <2>2, <2>3, TurnFrame
<1> QED BY <1>3, <1>4, <1>5, <1>6, <1>7, <1>8, <1>9, <1>10, <1>11, <1>12 DEF Next

\* With a store that writes the rows of a turn in one step, no row is ever at
\* or below the cursor without having been handed to the extraction: a query
\* of twice the batch size and a batch that ends with a millisecond suffice.
THEOREM NothingSkippedCorrect == ASSUME ~StoreAwaits PROVE Spec => []NothingSkipped
<1>1. Inv /\ StatesOK /\ [Next]_vars => (Inv /\ StatesOK)'
  BY InvStep, StatesStep
<1>2. Inv => NothingSkipped
  BY DEF Inv
<1> QED BY <1>1, <1>2, InvInit, PTL DEF Spec

-----------------------------------------------------------------------------
\* An L2 that ends while an L3 runs has another one follow.
PersonaInv ==
  /\ l3 \in [running : BOOLEAN, pending : BOOLEAN]
  /\ life = "up" /\ personaOwed => l3.running /\ l3.pending

LEMMA PersonaStep == PersonaInv /\ [Next]_vars => PersonaInv'
<1> SUFFICES ASSUME PersonaInv, [Next]_vars PROVE PersonaInv'
  OBVIOUS
<1>1. ASSUME UNCHANGED <<l3, personaOwed>>, life' = life \/ life' # "up" PROVE PersonaInv'
  BY <1>1 DEF PersonaInv
<1>2. CASE UNCHANGED vars
  BY <1>1, <1>2 DEF vars, L3Side
<1>3. ASSUME NEW s \in Sessions,
             \/ \E n \in RowsPerCapture : Capture(s, n)
             \/ UpsertRows(s) \/ Notify(s) \/ NotifySaved(s) \/ FlushSession(s) \/ IdleFires(s)
             \/ L1Read(s) \/ L1Mark(s) \/ L1Finish(s) \/ L1Fail(s)
      PROVE  PersonaInv'
  BY <1>1, <1>3 DEF Capture, UpsertRows, Notify, NotifySaved, FlushSession, IdleFires,
                    L1Read, L1Mark, L1Finish, L1Fail, L3Side
<1>4. ASSUME NEW stored \in BOOLEAN, L1Extract(stored) PROVE PersonaInv'
  BY <1>1, <1>4 DEF L1Extract, L3Side
<1>5. ASSUME NEW k \in Keys, L2Fires(k) \/ L2Read(k) \/ L2Fail(k) PROVE PersonaInv'
  BY <1>1, <1>5 DEF L2Fires, L2Read, L2Fail, L3Side
<1>6. ASSUME NEW k \in Keys, NEW how, L2Finish(k, how) PROVE PersonaInv'
  <2>1. UNCHANGED life /\ (UNCHANGED <<l3, personaOwed>> \/ TriggerL3)
    BY <1>6 DEF L2Finish, L3Side
  <2>2. CASE TriggerL3
    BY <2>1, <2>2 DEF TriggerL3, PersonaInv
  <2> QED BY <1>1, <2>1, <2>2
<1>7. CASE L3End
  <2>1. CASE l3.pending /\ life = "up"
    <3>1. l3' = [running |-> TRUE, pending |-> FALSE] /\ personaOwed' = FALSE
      BY <1>7, <2>1 DEF L3End
    <3> QED BY <3>1 DEF PersonaInv
  <2>2. CASE ~(l3.pending /\ life = "up")
    <3>1. l3' = [l3 EXCEPT !.running = FALSE] /\ UNCHANGED <<personaOwed, life>>
      BY <1>7, <2>2 DEF L3End
    <3> QED BY <2>2, <3>1 DEF PersonaInv
  <2> QED BY <2>1, <2>2
<1>8. CASE Destroy \/ FlushTimers
  BY <1>1, <1>8 DEF Destroy, FlushTimers, L3Side
<1>9. CASE Restart
  BY <1>9 DEF Restart, PersonaInv
<1> QED BY <1>2, <1>3, <1>4, <1>5, <1>6, <1>7, <1>8, <1>9 DEF Next

\* Whenever no L3 runs, one has started after the last L2 that ended.
THEOREM PersonaCorrect == Spec => []PersonaCurrent
<1>1. Init => PersonaInv
  BY DEF Init, PersonaInv
<1>2. PersonaInv => PersonaCurrent
  BY DEF PersonaInv, PersonaCurrent
<1> QED BY <1>1, <1>2, PersonaStep, PTL DEF Spec
-----------------------------------------------------------------------------
\* The queues, the timers and what else a process keeps.
RestOK ==
  /\ idle \subseteq Sessions /\ l2timer \in [Keys -> {"none", "soon", "max"}]
  /\ l1q \in Seq(Sessions) /\ retries \in [Sessions -> Nat]
  /\ l2q \in Seq(Keys) /\ l2 \in [key : Keys \cup {NoKey}, upTo : Nat] /\ ran \subseteq Keys
  /\ l3 \in [running : BOOLEAN, pending : BOOLEAN]
  /\ life \in {"up", "flushL1", "flushL2"}
  /\ forgot \subseteq Keys /\ personaOwed \in BOOLEAN /\ faults \in Nat

\* The batch of a task that has not moved the cursor yet is one of rows.
BatchRows == \A s \in Sessions :
  l1.session = s /\ l1.phase \in {"read", "extracted"} => l1.batch \subseteq DOMAIN rows[s]

TypeInv == DataOK /\ StatesOK /\ RestOK /\ BatchRows

LEMMA SessionKeys == ASSUME NEW s \in Sessions PROVE s \in Keys /\ ProfileOf[s] \in Keys
BY KeysAssumption DEF Keys

\* A fault, or none, leaves the count of faults a number.
LEMMA FaultType == ASSUME RestOK, NEW kind, Fault(kind) PROVE faults' \in Nat
BY DEF RestOK, Fault

LEMMA EnqueueType ==
  ASSUME RestOK, NEW s \in Sessions, NEW others \in SUBSET Sessions, EnqueueL1(s, others)
  PROVE  idle' \subseteq Sessions /\ forgot' \subseteq Keys /\ (UNCHANGED l1q \/ l1q' = Append(l1q, s))
         /\ l1q' \in Seq(Sessions)
<1>1. l1q \in Seq(Sessions) /\ Append(l1q, s) \in Seq(Sessions) /\ s \in Keys
  BY SessionKeys DEF RestOK
<1> QED BY <1>1 DEF EnqueueL1, RestOK

LEMMA TurnRest ==
  ASSUME TypeInv, NEW s \in Sessions,
         \/ \E n \in RowsPerCapture : Capture(s, n)
         \/ UpsertRows(s) \/ Notify(s) \/ NotifySaved(s) \/ FlushSession(s) \/ IdleFires(s)
  PROVE  RestOK'
<1>0. s \in Keys
  BY SessionKeys
<1>1. ASSUME NEW n \in RowsPerCapture, Capture(s, n) PROVE RestOK'
  BY <1>1 DEF TypeInv, RestOK, Capture, Timers, L1Side, L2Side, L3Side
<1>2. CASE UpsertRows(s)
  BY <1>2 DEF TypeInv, RestOK, UpsertRows, Timers, L1Side, L2Side, L3Side
<1>3. CASE Notify(s)
  <2>1. retries' \in [Sessions -> Nat]
    BY <1>3 DEF TypeInv, RestOK, Notify
  <2> QED BY <1>3, <2>1 DEF TypeInv, RestOK, Notify, Timers, L2Side, L3Side
<1>4. CASE NotifySaved(s)
  <2>1. CASE state[s].count >= capture[s].at
    <3>1. EnqueueL1(s, idle) /\ idle \in SUBSET Sessions /\ RestOK
      BY <1>4, <2>1 DEF NotifySaved, TypeInv, RestOK
    <3>2. idle' \subseteq Sessions /\ forgot' \subseteq Keys /\ l1q' \in Seq(Sessions)
      BY <3>1, EnqueueType
    <3> QED BY <1>4, <2>1, <3>1, <3>2 DEF RestOK, NotifySaved, L3Side
  <2>2. CASE ~(state[s].count >= capture[s].at)
    <3>1. PICK gone \in SUBSET {k \in Keys : Dormant(k)} :
            /\ idle' = idle \cup {s}
            /\ l2timer' = [k \in Keys |-> IF k \in gone THEN "none" ELSE l2timer[k]]
            /\ ran' = ran \ gone
            /\ forgot' = forgot \cup gone
      BY <1>4, <2>2 DEF NotifySaved
    <3>2. RestOK /\ UNCHANGED l1q
      BY <1>4, <2>2 DEF TypeInv, NotifySaved
    <3>3. l2timer' \in [Keys -> {"none", "soon", "max"}]
      BY <3>1, <3>2 DEF RestOK
    <3>4. idle' \subseteq Sessions /\ ran' \subseteq Keys /\ forgot' \subseteq Keys
      BY <3>1, <3>2 DEF RestOK
    <3> QED BY <1>4, <3>2, <3>3, <3>4 DEF RestOK, NotifySaved, L3Side
  <2> QED BY <2>1, <2>2
<1>5. CASE FlushSession(s)
  BY <1>0, <1>5 DEF TypeInv, RestOK, FlushSession, L1Side, L2Side, L3Side
<1>6. CASE IdleFires(s)
  <2>1. RestOK /\ idle \ {s} \in SUBSET Sessions
    BY DEF TypeInv, RestOK
  <2>2. idle' \subseteq Sessions /\ forgot' \subseteq Keys /\ l1q' \in Seq(Sessions)
    <3>1. CASE EnqueueL1(s, idle \ {s})
      BY <2>1, <3>1, EnqueueType
    <3>2. CASE idle' = idle \ {s} /\ UNCHANGED <<l1q, forgot>>
      BY <2>1, <3>2 DEF RestOK
    <3> QED BY <1>6, <3>1, <3>2 DEF IdleFires
  <2> QED BY <1>6, <2>1, <2>2 DEF RestOK, IdleFires, L2Side, L3Side
<1> QED BY <1>1, <1>2, <1>3, <1>4, <1>5, <1>6

LEMMA L1Rest ==
  ASSUME TypeInv, NEW s \in Sessions,
         L1Read(s) \/ L1Mark(s) \/ L1Finish(s) \/ L1Fail(s)
  PROVE  RestOK'
<1>0. s \in Keys /\ ProfileOf[s] \in Keys /\ RestOK
  BY SessionKeys DEF TypeInv
<1>1. CASE L1Read(s)
  <2>1. l1q' \in Seq(Sessions)
    BY <1>0, <1>1 DEF L1Read, RestOK
  <2>2. forgot' \subseteq Keys
    BY <1>0, <1>1 DEF L1Read, RestOK
  <2>3. faults' \in Nat
    BY <1>0, <1>1, FaultType DEF L1Read, RestOK
  <2> QED BY <1>0, <1>1, <2>1, <2>2, <2>3 DEF RestOK, L1Read, Timers, L2Side, L3Side
<1>2. CASE L1Mark(s)
  BY <1>0, <1>2 DEF RestOK, L1Mark, Timers, L2Side, L3Side
<1>3. CASE L1Finish(s)
  <2> DEFINE key == IF l1.stored THEN ProfileOf[s] ELSE s
  <2>1. PICK t \in Advanced(key) : l2timer' = [l2timer EXCEPT ![key] = t]
    BY <1>3 DEF L1Finish
  <2>2. key \in Keys /\ t \in {"none", "soon", "max"}
    BY <1>0, <2>1 DEF Advanced, RestOK
  <2>3. l2timer' \in [Keys -> {"none", "soon", "max"}]
    <3> HIDE DEF key
    <3> QED BY <1>0, <2>1, <2>2 DEF RestOK
  <2>4. idle' \subseteq Sessions
    BY <1>0, <1>3 DEF L1Finish, LeftToIdle, RestOK
  <2>5. forgot' \subseteq Keys
    BY <1>0, <1>3 DEF L1Finish, RestOK
  <2>6. retries' \in [Sessions -> Nat]
    BY <1>0, <1>3 DEF L1Finish, RestOK
  <2>7. UNCHANGED <<l1q, L2Side, L3Side, life, faults>>
    BY <1>3 DEF L1Finish
  <2> QED BY <1>0, <2>3, <2>4, <2>5, <2>6, <2>7 DEF RestOK, L2Side, L3Side
<1>4. CASE L1Fail(s)
  <2>1. forgot' \subseteq Keys
    BY <1>0, <1>4 DEF L1Fail, RestOK
  <2>2. faults' \in Nat
    BY <1>0, <1>4, FaultType DEF L1Fail
  <2>3. retries' \in [Sessions -> Nat]
    BY <1>0, <1>4 DEF L1Fail, RestOK
  <2>4. idle' \subseteq Sessions
    BY <1>0, <1>4 DEF L1Fail, RestOK
  <2> QED BY <1>0, <1>4, <2>1, <2>2, <2>3, <2>4 DEF RestOK, L1Fail, L2Side, L3Side
<1> QED BY <1>1, <1>2, <1>3, <1>4

LEMMA PersonaType ==
  ASSUME NEW p \in [running : BOOLEAN, pending : BOOLEAN]
  PROVE  /\ [p EXCEPT !.running = FALSE] \in [running : BOOLEAN, pending : BOOLEAN]
         /\ [p EXCEPT !.pending = TRUE] \in [running : BOOLEAN, pending : BOOLEAN]
         /\ [running |-> TRUE, pending |-> FALSE] \in [running : BOOLEAN, pending : BOOLEAN]
         /\ p.running \in BOOLEAN
OBVIOUS

LEMMA L2Rest ==
  ASSUME TypeInv, StatesOK', NEW k \in Keys,
         L2Fires(k) \/ L2Read(k) \/ L2Fail(k) \/ \E how \in {"ok", "failed", "empty"} : L2Finish(k, how)
  PROVE  RestOK'
<1>0. RestOK /\ l2'.upTo \in Nat
  BY DEF TypeInv, StatesOK
<1>1. CASE L2Fires(k)
  <2>1. l2timer' \in [Keys -> {"none", "soon", "max"}]
    BY <1>0, <1>1 DEF L2Fires, RestOK
  <2>2. l2q' \in Seq(Keys)
    <3>1. l2q \in Seq(Keys) /\ Append(l2q, k) \in Seq(Keys)
      BY <1>0 DEF RestOK
    <3>2. l2q' = l2q \/ l2q' = Append(l2q, k)
      BY <1>1 DEF L2Fires, EnqueueL2
    <3> QED BY <3>1, <3>2
  <2>3. forgot' \subseteq Keys
    BY <1>0, <1>1 DEF L2Fires, RestOK
  <2> QED BY <1>0, <1>1, <2>1, <2>2, <2>3 DEF RestOK, L2Fires, L1Side, L3Side
<1>2. CASE L2Read(k)
  <2>1. l2q' \in Seq(Keys)
    BY <1>0, <1>2 DEF L2Read, RestOK
  <2>2. l2' \in [key : Keys \cup {NoKey}, upTo : Nat]
    BY <1>0, <1>2 DEF L2Read
  <2> QED BY <1>0, <1>2, <2>1, <2>2 DEF RestOK, L2Read, Timers, L1Side, L3Side
<1>3. ASSUME Poll(k) PROVE l2timer' \in [Keys -> {"none", "soon", "max"}]
  BY <1>0, <1>3 DEF Poll, RestOK
<1>4. NoTask2 \in [key : Keys \cup {NoKey}, upTo : Nat]
  BY DEF NoTask2
<1>5. CASE L2Fail(k)
  BY <1>0, <1>3, <1>4, <1>5, FaultType DEF RestOK, L2Fail, L1Side, L3Side
<1>6. ASSUME NEW how, L2Finish(k, how) PROVE RestOK'
  <2>1. faults' \in Nat
    BY <1>0, <1>6, FaultType DEF L2Finish, RestOK
  <2>2. /\ ran' = ran \/ ran' = ran \cup {k}
        /\ UNCHANGED L3Side \/ TriggerL3
    BY <1>6 DEF L2Finish
  <2>3. ran' \subseteq Keys
    BY <1>0, <2>2 DEF RestOK
  <2>4. l3' \in [running : BOOLEAN, pending : BOOLEAN] /\ personaOwed' \in BOOLEAN
    <3>1. CASE UNCHANGED L3Side
      BY <1>0, <3>1 DEF RestOK, L3Side
    <3>2. CASE TriggerL3
      BY <1>0, <3>2, PersonaType DEF RestOK, TriggerL3
    <3> QED BY <2>2, <3>1, <3>2
  <2>5. Poll(k) /\ l2' = NoTask2 /\ UNCHANGED <<idle, L1Side, l2q, life, forgot>>
    BY <1>6 DEF L2Finish
  <2> QED BY <1>0, <1>3, <1>4, <2>1, <2>3, <2>4, <2>5 DEF RestOK, L1Side
<1> QED BY <1>1, <1>2, <1>5, <1>6

LEMMA LifeRest ==
  ASSUME TypeInv, L3End \/ Destroy \/ FlushTimers \/ Restart
  PROVE  RestOK'
<1>0. RestOK
  BY DEF TypeInv
<1>1. CASE L3End
  <2>1. l3' \in [running : BOOLEAN, pending : BOOLEAN] /\ personaOwed' \in BOOLEAN
    <3>1. CASE l3' = [running |-> TRUE, pending |-> FALSE] /\ personaOwed' = FALSE
      BY <3>1, PersonaType
    <3>2. CASE l3' = [l3 EXCEPT !.running = FALSE] /\ UNCHANGED personaOwed
      BY <1>0, <3>2, PersonaType DEF RestOK
    <3> QED BY <1>1, <3>1, <3>2 DEF L3End
  <2> QED BY <1>0, <1>1, <2>1 DEF RestOK, L3End, Timers, L1Side, L2Side
<1>2. CASE Destroy
  BY <1>0, <1>2 DEF RestOK, Destroy, L1Side, L2Side, L3Side
<1>3. CASE FlushTimers
  <2>1. PICK cold \in SUBSET {k \in Keys : Cold(k)} :
          \E keys \in SetToSeqs({k \in Keys \ cold : l2timer[k] # "none" /\ ~L2Queued(k)}) :
            l2q' = l2q \o keys
    BY <1>3 DEF FlushTimers
  <2> DEFINE due == {k \in Keys \ cold : l2timer[k] # "none" /\ ~L2Queued(k)}
  <2>2. due \subseteq Keys /\ Cardinality(due) \in Nat
    BY FiniteAssumption, FS_Subset, FS_CardinalityType
  <2>3. PICK keys \in SetToSeqs(due) : l2q' = l2q \o keys
    BY <2>1
  <2>4. keys \in Seq(Keys)
    <3>1. keys \in [1..Cardinality(due) -> due]
      BY <2>3 DEF SetToSeqs
    <3> HIDE DEF due
    <3> QED BY <2>2, <3>1
  <2>5. l2q' \in Seq(Keys)
    BY <1>0, <2>3, <2>4 DEF RestOK
  <2> QED BY <1>0, <1>3, <2>5 DEF RestOK, FlushTimers, L1Side, L3Side
<1>4. CASE Restart
  <2>1. faults' \in Nat
    BY <1>0, <1>4, FaultType DEF Restart, RestOK
  <2>2. /\ l2' = NoTask2 /\ ran' = {} /\ life' = "up" /\ idle' = {} /\ l1q' = <<>> /\ l2q' = <<>>
        /\ l3' = [running |-> FALSE, pending |-> FALSE] /\ personaOwed' = FALSE
        /\ retries' = [s \in Sessions |-> 0]
        /\ \E S : l2timer' = [k \in Keys |-> IF k \in S THEN "soon" ELSE "none"]
        /\ forgot' \subseteq Keys
    <3> DEFINE S == {k \in Keys : state'[k] # NoState /\ state'[k].pending > 0}
    <3>1. l2timer' = [k \in Keys |-> IF k \in S THEN "soon" ELSE "none"]
      BY <1>4 DEF Restart
    <3>2. forgot' \subseteq Keys
      BY <1>4 DEF Restart, Keys
    <3> HIDE DEF S
    <3> QED BY <1>4, <3>1, <3>2 DEF Restart
  <2>3. l2timer' \in [Keys -> {"none", "soon", "max"}] /\ l2' \in [key : Keys \cup {NoKey}, upTo : Nat]
    BY <2>2 DEF NoTask2
  <2>4. l1q' \in Seq(Sessions) /\ l2q' \in Seq(Keys) /\ retries' \in [Sessions -> Nat]
    BY <2>2
  <2>5. l3' \in [running : BOOLEAN, pending : BOOLEAN] /\ personaOwed' \in BOOLEAN
    BY <2>2
  <2> QED BY <2>1, <2>2, <2>3, <2>4, <2>5 DEF RestOK
<1> QED BY <1>1, <1>2, <1>3, <1>4

-----------------------------------------------------------------------------
\* A step that writes no row and reads no batch.
LEMMA DataFrame ==
  ASSUME TypeInv, UNCHANGED <<rows, cursor, extracted>>, capture' \in [Sessions -> Turn],
         l1' = l1 \/ l1' = NoTask1
  PROVE  DataOK' /\ BatchRows'
<1>1. NoTask1 \in Task1 /\ NoTask1.phase = "idle"
  BY DEF NoTask1, Task1
<1> QED BY <1>1 DEF TypeInv, DataOK, BatchRows

\* A turn goes on: one step more, and no more rows to write.
LEMMA TurnTypes ==
  ASSUME TypeInv, NEW s \in Sessions,
         (\E n \in RowsPerCapture : Capture(s, n)) \/ Notify(s) \/ NotifySaved(s)
  PROVE  capture' \in [Sessions -> Turn]
<1>1. capture \in [Sessions -> Turn] /\ capture[s] \in Turn /\ s \in Keys /\ StatesOK
  BY SessionKeys DEF TypeInv, DataOK
<1>2. ASSUME NEW turn \in Turn, capture' = [capture EXCEPT ![s] = turn]
      PROVE  capture' \in [Sessions -> Turn]
  BY <1>1, <1>2
<1>3. ASSUME NEW n \in RowsPerCapture, Capture(s, n) PROVE capture' \in [Sessions -> Turn]
  <2> DEFINE next == capture[s].stamp + 1
             turn == [capture[s] EXCEPT !.stamp = next, !.todo = n, !.step = "write"]
  <2>1. n \in 0..BatchProcess /\ next \in Nat
    BY <1>1, BoundsAssumption DEF Turn
  <2>2. capture' = [capture EXCEPT ![s] = turn]
    BY <1>1, <1>3 DEF Capture
  <2>3. turn \in Turn
    <3> HIDE DEF next
    <3> QED BY <1>1, <2>1 DEF Turn
  <2> HIDE DEF turn
  <2> QED BY <1>2, <2>2, <2>3
<1>4. CASE Notify(s)
  <2> DEFINE at == EffectiveThreshold([StateOf(s) EXCEPT !.count = @ + 1])
             ended == [capture[s] EXCEPT !.step = "none"]
             turn == [capture[s] EXCEPT !.step = "save", !.at = at]
  <2>1. at \in Nat
    BY <1>1, StateType, BoundsAssumption DEF EffectiveThreshold, SessionState
  <2>2. capture' = [capture EXCEPT ![s] = ended] \/ capture' = [capture EXCEPT ![s] = turn]
    BY <1>1, <1>4 DEF Notify
  <2>3. ended \in Turn /\ turn \in Turn
    <3> HIDE DEF at
    <3> QED BY <1>1, <2>1 DEF Turn
  <2> HIDE DEF turn, ended
  <2> QED BY <1>2, <2>2, <2>3
<1>5. CASE NotifySaved(s)
  <2> DEFINE turn == [capture[s] EXCEPT !.step = "none", !.at = 0]
  <2>1. turn \in Turn /\ capture' = [capture EXCEPT ![s] = turn]
    BY <1>1, <1>5 DEF Turn, NotifySaved
  <2> HIDE DEF turn
  <2> QED BY <1>2, <2>1
<1> QED BY <1>3, <1>4, <1>5

\* What appending does to a sequence of times.
LEMMA Longer ==
  ASSUME NEW times \in Seq(Nat), NEW more \in Seq(Nat)
  PROVE  /\ times \o more \in Seq(Nat) /\ Len(times \o more) = Len(times) + Len(more)
         /\ DOMAIN times \subseteq DOMAIN (times \o more)
         /\ \A i \in 1..Len(times) : (times \o more)[i] = times[i]
<1>1. times \o more \in Seq(Nat) /\ Len(times \o more) = Len(times) + Len(more)
  OBVIOUS
<1>2. DOMAIN times \subseteq DOMAIN (times \o more)
  BY <1>1
<1>3. ASSUME NEW i \in 1..Len(times) PROVE (times \o more)[i] = times[i]
  OBVIOUS
<1> QED BY <1>1, <1>2, <1>3

\* Rows are appended, whether all of a turn or one.
LEMMA RowsTypes ==
  ASSUME TypeInv, NEW s \in Sessions, UpsertRows(s)
  PROVE  DataOK' /\ BatchRows'
<1>1. /\ capture \in [Sessions -> Turn] /\ rows \in [Sessions -> Seq(Nat)]
      /\ capture[s].todo \in 0..BatchProcess /\ capture[s].todo > 0
      /\ capture[s] \in Turn /\ capture[s].stamp \in Nat /\ BatchProcess \in Nat
  BY BoundsAssumption DEF TypeInv, DataOK, Turn, UpsertRows
<1>2. PICK n \in {1, capture[s].todo} :
        /\ rows' = [rows EXCEPT ![s] = @ \o [i \in 1..n |-> capture[s].stamp]]
        /\ capture' = [capture EXCEPT ![s].todo = @ - n]
  BY DEF UpsertRows
<1>3. n \in Nat /\ capture[s].todo - n \in 0..BatchProcess
  BY <1>1, <1>2
<1>4. capture' \in [Sessions -> Turn]
  <2> DEFINE left == capture[s].todo - n
  <2>1. capture' = [capture EXCEPT ![s] = [capture[s] EXCEPT !.todo = left]]
    BY <1>1, <1>2
  <2>2. [capture[s] EXCEPT !.todo = left] \in Turn
    <3>1. left \in 0..BatchProcess
      BY <1>3
    <3> HIDE DEF left
    <3> QED BY <1>1, <3>1 DEF Turn
  <2> HIDE DEF left
  <2> QED BY <1>1, <2>1, <2>2
<1>5. /\ rows' \in [Sessions -> Seq(Nat)]
      /\ \A r \in Sessions : DOMAIN rows[r] \subseteq DOMAIN rows'[r]
  <2>1. [i \in 1..n |-> capture[s].stamp] \in Seq(Nat)
    BY <1>1, <1>3
  <2>2. rows'[s] = rows[s] \o [i \in 1..n |-> capture[s].stamp]
    BY <1>1, <1>2
  <2>3. rows'[s] \in Seq(Nat) /\ DOMAIN rows[s] \subseteq DOMAIN rows'[s]
    <3>1. rows[s] \in Seq(Nat)
      BY <1>1
    <3> QED BY <2>1, <2>2, <3>1, Longer
  <2> QED BY <1>1, <1>2, <2>3
<1>6. UNCHANGED <<cursor, extracted, l1>>
  BY DEF UpsertRows, L1Side
<1>7. DataOK'
  BY <1>4, <1>5, <1>6 DEF TypeInv, DataOK
<1>8. BatchRows'
  BY <1>5, <1>6 DEF TypeInv, BatchRows
<1> QED BY <1>7, <1>8

LEMMA L1Types ==
  ASSUME TypeInv, NEW s \in Sessions,
         L1Read(s) \/ L1Mark(s)
  PROVE  DataOK' /\ BatchRows'
<1>1. DataOK /\ BatchRows /\ l1 \in Task1 /\ rows[s] \in Seq(Nat)
  BY DEF TypeInv, DataOK
<1>2. CASE L1Read(s)
  <2>1. UNCHANGED <<rows, capture, cursor, extracted>>
    BY <1>2 DEF L1Read, Data
  <2>2. Slice(s) \subseteq DOMAIN rows[s] /\ Slice(s) \in SUBSET Nat
    <3>1. Slice(s) \subseteq DOMAIN rows[s]
      BY DEF Slice, Queried, Past
    <3> QED BY <1>1, <3>1
  <2>3. Backlog(s) \in {"none", "tail", "full"}
    BY DEF Backlog
  <2>4. l1' \in Task1 /\ l1'.session = s /\ l1'.batch \subseteq DOMAIN rows[s]
    <3>1. CASE l1' = [session |-> s, phase |-> "read", batch |-> Slice(s), left |-> Backlog(s), stored |-> FALSE]
      BY <2>2, <2>3, <3>1 DEF Task1
    <3>2. CASE l1' = [NoTask1 EXCEPT !.session = s, !.phase = "read"]
      <4>1. l1' = [session |-> s, phase |-> "read", batch |-> {}, left |-> "none", stored |-> FALSE]
        BY <3>2 DEF NoTask1
      <4> QED BY <4>1 DEF Task1
    <3> QED BY <1>2, <3>1, <3>2 DEF L1Read
  <2> QED BY <1>1, <2>1, <2>4 DEF DataOK, BatchRows
<1>3. CASE L1Mark(s)
  <2>1. /\ l1.session = s /\ l1.phase = "extracted" /\ l1' = [l1 EXCEPT !.phase = "marked"]
        /\ UNCHANGED <<rows, capture, extracted>>
    BY <1>3 DEF L1Mark
  <2>2. PICK i \in l1.batch : cursor' = [cursor EXCEPT ![s] = IF rows[s][i] > @ THEN rows[s][i] ELSE @]
    BY <1>3 DEF L1Mark
  <2>3. rows[s][i] \in Nat
    BY <1>1, <2>1, <2>2 DEF BatchRows
  <2>4. cursor' \in [Sessions -> Nat]
    BY <1>1, <2>2, <2>3 DEF DataOK
  <2>5. l1' \in Task1 /\ l1'.phase = "marked"
    BY <1>1, <2>1 DEF Task1
  <2> QED BY <1>1, <2>1, <2>4, <2>5 DEF DataOK, BatchRows
<1> QED BY <1>2, <1>3

LEMMA ExtractTypes ==
  ASSUME TypeInv, NEW stored \in BOOLEAN, L1Extract(stored)
  PROVE  DataOK' /\ BatchRows' /\ RestOK'
<1>1. DataOK /\ BatchRows /\ l1 \in Task1
  BY DEF TypeInv, DataOK
<1>2. /\ l1.phase = "read" /\ UNCHANGED <<rows, capture, cursor>>
      /\ l1' = [l1 EXCEPT !.phase = "extracted", !.stored = stored]
      /\ extracted' = [extracted EXCEPT ![l1.session] = @ \cup l1.batch]
  BY DEF L1Extract
<1>3. l1' \in Task1 /\ l1'.session = l1.session /\ l1'.batch = l1.batch /\ l1.batch \in SUBSET Nat
  BY <1>1, <1>2 DEF Task1
<1>4. extracted' \in [Sessions -> SUBSET Nat]
  BY <1>1, <1>2, <1>3 DEF DataOK
<1>5. DataOK' /\ BatchRows'
  BY <1>1, <1>2, <1>3, <1>4 DEF DataOK, BatchRows
<1>6. RestOK'
  BY DEF TypeInv, RestOK, L1Extract, Timers, L2Side, L3Side
<1> QED BY <1>5, <1>6

LEMMA TypeStep == TypeInv /\ [Next]_vars => TypeInv'
<1> SUFFICES ASSUME TypeInv, [Next]_vars PROVE TypeInv'
  OBVIOUS
<1>1. StatesOK'
  BY StatesStep DEF TypeInv
<1>2. capture \in [Sessions -> Turn]
  BY DEF TypeInv, DataOK
<1>3. CASE UNCHANGED vars
  <2>1. DataOK' /\ BatchRows'
    BY <1>2, <1>3, DataFrame DEF vars
  <2>2. RestOK'
    BY <1>3 DEF vars, TypeInv, RestOK
  <2> QED BY <1>1, <2>1, <2>2 DEF TypeInv
<1>4. ASSUME NEW s \in Sessions,
             (\E n \in RowsPerCapture : Capture(s, n)) \/ Notify(s) \/ NotifySaved(s)
      PROVE  TypeInv'
  <2>1. UNCHANGED <<rows, cursor, extracted, l1>>
    BY <1>4 DEF Capture, Notify, NotifySaved, L1Side
  <2> QED BY <1>1, <1>4, <2>1, TurnTypes, DataFrame, TurnRest DEF TypeInv
<1>5. ASSUME NEW s \in Sessions, UpsertRows(s) PROVE TypeInv'
  BY <1>1, <1>5, RowsTypes, TurnRest DEF TypeInv
<1>6. ASSUME NEW s \in Sessions, FlushSession(s) \/ IdleFires(s) PROVE TypeInv'
  <2>1. UNCHANGED <<rows, capture, cursor, extracted, l1>>
    BY <1>6 DEF FlushSession, IdleFires, Data, L1Side
  <2> QED BY <1>1, <1>2, <1>6, <2>1, DataFrame, TurnRest DEF TypeInv
<1>7. ASSUME NEW s \in Sessions, L1Read(s) \/ L1Mark(s) PROVE TypeInv'
  BY <1>1, <1>7, L1Types, L1Rest DEF TypeInv
<1>8. ASSUME NEW s \in Sessions, L1Finish(s) \/ L1Fail(s) PROVE TypeInv'
  <2>1. UNCHANGED <<rows, capture, cursor, extracted>> /\ l1' = NoTask1
    BY <1>8 DEF L1Finish, L1Fail, Data
  <2> QED BY <1>1, <1>2, <1>8, <2>1, DataFrame, L1Rest DEF TypeInv
<1>9. ASSUME NEW stored \in BOOLEAN, L1Extract(stored) PROVE TypeInv'
  BY <1>1, <1>9, ExtractTypes DEF TypeInv
<1>10. ASSUME NEW k \in Keys,
              L2Fires(k) \/ L2Read(k) \/ L2Fail(k) \/ \E how \in {"ok", "failed", "empty"} : L2Finish(k, how)
       PROVE  TypeInv'
  <2>1. UNCHANGED <<rows, capture, cursor, extracted, l1>>
    BY <1>10 DEF L2Fires, L2Read, L2Fail, L2Finish, Data, L1Side
  <2> QED BY <1>1, <1>2, <1>10, <2>1, DataFrame, L2Rest DEF TypeInv
<1>11. CASE L3End \/ Destroy \/ FlushTimers
  <2>1. UNCHANGED <<rows, capture, cursor, extracted, l1>>
    BY <1>11 DEF L3End, Destroy, FlushTimers, Data, L1Side
  <2> QED BY <1>1, <1>2, <1>11, <2>1, DataFrame, LifeRest DEF TypeInv
<1>12. CASE Restart
  <2> DEFINE fresh == [s \in Sessions |-> [NoTurn EXCEPT !.stamp = capture[s].stamp]]
  <2>1. fresh \in [Sessions -> Turn]
    BY <1>2, BoundsAssumption DEF NoTurn, Turn
  <2>2. capture' = fresh /\ UNCHANGED <<rows, cursor, extracted>> /\ l1' = NoTask1
    BY <1>12 DEF Restart
  <2> HIDE DEF fresh
  <2> QED BY <1>1, <1>12, <2>1, <2>2, DataFrame, LifeRest DEF TypeInv
<1> QED BY <1>3, <1>4, <1>5, <1>6, <1>7, <1>8, <1>9, <1>10, <1>11, <1>12 DEF Next

LEMMA TypeInit == Init => TypeInv
<1> SUFFICES ASSUME Init PROVE TypeInv
  OBVIOUS
<1>1. DataOK /\ StatesOK
  BY InvInit DEF Inv
<1>2. RestOK
  <2>1. l2 \in [key : Keys \cup {NoKey}, upTo : Nat]
    BY DEF Init, NoTask2
  <2>2. retries \in [Sessions -> Nat] /\ l2timer \in [Keys -> {"none", "soon", "max"}]
    BY DEF Init
  <2>3. idle = {} /\ l1q = <<>> /\ l2q = <<>> /\ ran = {} /\ forgot = {} /\ life = "up"
        /\ personaOwed = FALSE /\ faults = 0 /\ l3 = [running |-> FALSE, pending |-> FALSE]
    BY DEF Init
  <2>4. l3 \in [running : BOOLEAN, pending : BOOLEAN] /\ personaOwed \in BOOLEAN
    BY <2>3
  <2>5. l1q \in Seq(Sessions) /\ l2q \in Seq(Keys)
    BY <2>3
  <2> QED BY <2>1, <2>2, <2>3, <2>4, <2>5 DEF RestOK
<1>3. BatchRows
  BY DEF Init, BatchRows, NoTask1
<1> QED BY <1>1, <1>2, <1>3 DEF TypeInv

\* Every variable keeps its type: a timer has one of three states, a queue
\* holds keys, a batch numbers of rows, and the counters never leave Nat.
THEOREM TypeCorrect == Spec => []TypeOK
<1>1. TypeInv => TypeOK
  <2> SUFFICES ASSUME TypeInv PROVE TypeOK
    OBVIOUS
  <2>1. \A turn \in Turn : turn \in [stamp : Nat, todo : Nat, step : {"none", "write", "save"}, at : Nat]
    BY BoundsAssumption DEF Turn
  <2>2. capture \in [Sessions -> [stamp : Nat, todo : Nat, step : {"none", "write", "save"}, at : Nat]]
    BY <2>1 DEF TypeInv, DataOK
  <2> QED BY <2>2 DEF TypeInv, DataOK, StatesOK, RestOK, Task1, TypeOK
<1> QED BY <1>1, TypeInit, TypeStep, PTL DEF Spec

-----------------------------------------------------------------------------
\* RecordsHaveWakeUp, a session at a time: a task that has not extracted has
\* stored nothing.
Woken(s) == l2timer[ProfileOf[s]] # "none" \/ L2Queued(ProfileOf[s]) \/ (l1.session = s /\ l1.stored)
Seen(s) == StateOf(ProfileOf[s]).upTo
RecordsWoken(s) ==
  life = "up" /\ ProfileOf[s] \notin forgot /\ records[s] > Seen(s) => Woken(s)

RecordsInv ==
  /\ TypeInv
  /\ l1.phase = "read" => ~l1.stored
  /\ \A s \in Sessions : RecordsWoken(s)

\* A step that neither stores nor reads a record, and takes no wake-up away.
LEMMA RecordsFrame ==
  ASSUME NEW s \in Sessions, RecordsWoken(s), life' = "up" => life = "up",
         ProfileOf[s] \in forgot => ProfileOf[s] \in forgot',
         records'[s] = records[s], Seen(s)' = Seen(s), Woken(s) => Woken(s)'
  PROVE  RecordsWoken(s)'
BY DEF RecordsWoken

\* What L2 has seen depends on the state of the profile alone.
LEMMA SeenSame ==
  ASSUME NEW s \in Sessions, state'[ProfileOf[s]] = state[ProfileOf[s]]
  PROVE  Seen(s)' = Seen(s)
BY DEF Seen, StateOf

LEMMA QueuedSame ==
  ASSUME NEW k \in Keys, UNCHANGED <<l2q, l2>> PROVE L2Queued(k)' = L2Queued(k)
BY DEF L2Queued

LEMMA RecordsTurn ==
  ASSUME RecordsInv, NEW r \in Sessions, NEW s \in Sessions,
         \/ \E n \in RowsPerCapture : Capture(r, n)
         \/ UpsertRows(r) \/ Notify(r) \/ NotifySaved(r) \/ FlushSession(r) \/ IdleFires(r)
  PROVE  RecordsWoken(s)'
<1> DEFINE p == ProfileOf[s]
<1>0. /\ p \in Keys /\ p \notin Sessions /\ RecordsWoken(s)
      /\ state \in [Keys -> SessionState \cup {NoState}] /\ l2timer \in [Keys -> {"none", "soon", "max"}]
  BY KeysAssumption DEF RecordsInv, TypeInv, StatesOK, RestOK, Keys
<1>1. UNCHANGED <<records, l1, l2, l2q, life>>
  BY DEF Capture, UpsertRows, Notify, NotifySaved, FlushSession, IdleFires, Data, L1Side, L2Side
<1>2. L2Queued(p)' = L2Queued(p)
  BY <1>0, <1>1, QueuedSame
<1>3. ASSUME state'[p] = state[p], l2timer'[p] = l2timer[p], p \in forgot => p \in forgot'
      PROVE  RecordsWoken(s)'
  BY <1>0, <1>1, <1>2, <1>3, SeenSame, RecordsFrame DEF Woken
<1>4. CASE \/ UNCHANGED <<Memory, Timers, forgot>>
           \/ UNCHANGED <<Memory, l2timer>> /\ forgot' \in {forgot, forgot \cup {r}}
  BY <1>3, <1>4 DEF Memory, Timers
<1>5. CASE Notify(r)
  <2>1. state'[p] = state[p] /\ UNCHANGED <<l2timer, forgot>>
    BY <1>0, <1>5 DEF Notify, Timers
  <2> QED BY <1>3, <2>1
<1>6. CASE NotifySaved(r)
  <2>1. CASE state[r].count >= capture[r].at
    <3>1. UNCHANGED <<state, l2timer>> /\ forgot \subseteq forgot'
      BY <1>6, <2>1 DEF NotifySaved, EnqueueL1
    <3> QED BY <1>3, <3>1
  <2>2. CASE ~(state[r].count >= capture[r].at)
    <3>1. PICK gone \in SUBSET {k \in Keys : Dormant(k)} :
            /\ l2timer' = [k \in Keys |-> IF k \in gone THEN "none" ELSE l2timer[k]]
            /\ state' = [k \in Keys |-> IF k \in gone THEN NoState ELSE state[k]]
            /\ forgot' = forgot \cup gone
      BY <1>6, <2>2 DEF NotifySaved
    <3>2. CASE p \in gone
      BY <3>1, <3>2 DEF RecordsWoken
    <3>3. CASE p \notin gone
      BY <1>0, <1>3, <3>1, <3>3
    <3> QED BY <3>2, <3>3
  <2> QED BY <2>1, <2>2
<1>7. CASE (\E n \in RowsPerCapture : Capture(r, n)) \/ UpsertRows(r)
  BY <1>4, <1>7 DEF Capture, UpsertRows
<1>8. CASE FlushSession(r) \/ IdleFires(r)
  BY <1>4, <1>8 DEF FlushSession, IdleFires, EnqueueL1
<1> QED BY <1>5, <1>6, <1>7, <1>8

LEMMA RecordsL1 ==
  ASSUME RecordsInv, NEW r \in Sessions, NEW s \in Sessions,
         L1Read(r) \/ L1Mark(r) \/ L1Finish(r) \/ L1Fail(r)
  PROVE  RecordsWoken(s)'
<1> DEFINE p == ProfileOf[s]
<1>0. /\ p \in Keys /\ p \notin Sessions /\ NoKey \notin Sessions /\ RecordsWoken(s) /\ l1 \in Task1
      /\ ProfileOf[r] \in Keys /\ r \in Keys
      /\ state \in [Keys -> SessionState \cup {NoState}] /\ l2timer \in [Keys -> {"none", "soon", "max"}]
  BY KeysAssumption DEF RecordsInv, TypeInv, StatesOK, RestOK, DataOK, Keys
<1>1. UNCHANGED <<records, l2, l2q, life>>
  BY DEF L1Read, L1Mark, L1Finish, L1Fail, Data, L2Side
<1>2. L2Queued(p)' = L2Queued(p)
  BY <1>0, <1>1, QueuedSame
<1>3. CASE L1Read(r)
  <2>1. l1.session # s /\ UNCHANGED <<state, l2timer>> /\ (p \in forgot => p \in forgot')
    BY <1>0, <1>3 DEF L1Read, Memory, Timers
  <2> QED BY <1>0, <1>1, <1>2, <2>1, SeenSame, RecordsFrame DEF Woken
<1>4. CASE L1Mark(r)
  <2>1. l1'.session = l1.session /\ l1'.stored = l1.stored /\ UNCHANGED <<state, l2timer, forgot>>
    BY <1>0, <1>4 DEF L1Mark, Memory, Timers, Task1
  <2> QED BY <1>0, <1>1, <1>2, <2>1, SeenSame, RecordsFrame DEF Woken
<1>5. CASE L1Finish(r)
  <2> DEFINE key == IF l1.stored THEN ProfileOf[r] ELSE r
             counted == [state EXCEPT ![r] = AdvanceWarmup([StateOf(r) EXCEPT !.count = 0])]
             entry == [(IF counted[key] = NoState THEN NewState ELSE counted[key]) EXCEPT !.pending = 1]
  <2>1. /\ state' = [counted EXCEPT ![key] = entry]
        /\ \E t \in Advanced(key) : l2timer' = [l2timer EXCEPT ![key] = t]
        /\ forgot \ {key} \subseteq forgot'
        /\ l1.session = r
    BY <1>5 DEF L1Finish
  <2>2. counted[p] = state[p] /\ key \in Keys
    BY <1>0
  <2>3. CASE key = p
    <3>1. l1.stored /\ r = s
      BY <1>0, <2>3, KeysAssumption
    <3>2. state'[p] = entry
      <4> HIDE DEF counted, entry, key
      <4>1. DOMAIN counted = Keys
        BY <1>0 DEF counted
      <4> QED BY <1>0, <2>1, <2>2, <2>3, <4>1
    <3>3. StateOf(p)'.upTo = StateOf(p).upTo
      <4>1. StateOf(p) \in SessionState /\ NewState \in SessionState
        BY <1>0, StateType, BoundsAssumption DEF RecordsInv, TypeInv, NewState, SessionState
      <4>2. entry = [StateOf(p) EXCEPT !.pending = 1]
        BY <2>2, <2>3 DEF StateOf
      <4>3. StateOf(p)' = entry
        <5>1. entry # NoState
          BY <4>1, <4>2, NoStateAssumption DEF SessionState
        <5>2. state'[p] = entry
          BY <3>2
        <5> HIDE DEF entry
        <5> QED BY <5>1, <5>2 DEF StateOf
      <4> QED BY <4>1, <4>2, <4>3 DEF SessionState
    <3>4. life = "up" => l2timer'[p] # "none"
      BY <1>0, <2>1, <2>3 DEF Advanced
    <3> QED BY <1>0, <1>1, <3>4 DEF RecordsWoken, Woken
  <2>4. CASE key # p
    <3>1. state'[p] = state[p] /\ l2timer'[p] = l2timer[p]
      BY <1>0, <2>1, <2>2, <2>4
    <3>2. ~(l1.session = s /\ l1.stored)
      BY <2>1, <2>4
    <3> QED BY <1>0, <1>1, <1>2, <2>1, <2>4, <3>1, <3>2, SeenSame, RecordsFrame DEF Woken
  <2> QED BY <2>3, <2>4
<1>6. CASE L1Fail(r)
  <2>1. /\ UNCHANGED <<state, l2timer>> /\ l1.session = r
        /\ forgot \subseteq forgot' /\ (l1.stored => ProfileOf[r] \in forgot')
    BY <1>6 DEF L1Fail, Memory
  <2>2. CASE l1.session = s /\ l1.stored
    BY <2>1, <2>2 DEF RecordsWoken
  <2>3. CASE ~(l1.session = s /\ l1.stored)
    BY <1>0, <1>1, <1>2, <2>1, <2>3, SeenSame, RecordsFrame DEF Woken
  <2> QED BY <2>2, <2>3
<1> QED BY <1>3, <1>4, <1>5, <1>6

LEMMA RecordsStored ==
  ASSUME RecordsInv, NEW stored \in BOOLEAN, L1Extract(stored), NEW s \in Sessions
  PROVE  RecordsWoken(s)'
<1> DEFINE p == ProfileOf[s]
<1>0. /\ p \in Keys /\ RecordsWoken(s) /\ l1 \in Task1 /\ records \in [Sessions -> Nat] /\ ~l1.stored
  BY KeysAssumption DEF RecordsInv, TypeInv, StatesOK, DataOK, Keys, L1Extract
<1>1. /\ UNCHANGED <<state, l2timer, l2, l2q, life, forgot>>
      /\ l1'.session = l1.session /\ l1'.stored = stored
      /\ records' = IF stored THEN [records EXCEPT ![l1.session] = @ + 1] ELSE records
  BY <1>0 DEF L1Extract, Memory, Timers, L2Side, Task1
<1>2. L2Queued(p)' = L2Queued(p)
  BY <1>0, <1>1, QueuedSame
<1>3. CASE stored /\ l1.session = s
  BY <1>1, <1>3 DEF RecordsWoken, Woken
<1>4. CASE ~(stored /\ l1.session = s)
  <2>1. records'[s] = records[s]
    BY <1>0, <1>1, <1>4
  <2> QED BY <1>0, <1>1, <1>2, <2>1, SeenSame, RecordsFrame DEF Woken
<1> QED BY <1>3, <1>4

LEMMA RecordsL2 ==
  ASSUME RecordsInv, NEW k \in Keys, NEW s \in Sessions,
         L2Fires(k) \/ L2Read(k) \/ L2Fail(k) \/ \E how \in {"ok", "failed", "empty"} : L2Finish(k, how)
  PROVE  RecordsWoken(s)'
<1> DEFINE p == ProfileOf[s]
<1>0. /\ p \in Keys /\ NoKey \notin Keys /\ RecordsWoken(s) /\ l2q \in Seq(Keys)
      /\ state \in [Keys -> SessionState \cup {NoState}] /\ l2timer \in [Keys -> {"none", "soon", "max"}]
  BY KeysAssumption DEF RecordsInv, TypeInv, StatesOK, RestOK, Keys
<1>1. UNCHANGED <<records, l1, life>>
  BY DEF L2Fires, L2Read, L2Fail, L2Finish, Data, L1Side
<1>2. CASE L2Fires(k)
  <2>1. UNCHANGED <<state, l2>> /\ forgot \subseteq forgot'
    BY <1>2 DEF L2Fires, Memory
  <2>2. CASE life # "up"
    BY <1>1, <2>2 DEF RecordsWoken
  <2>3. CASE k = p /\ k \in forgot'
    BY <2>3 DEF RecordsWoken
  <2>4. CASE k = p /\ EnqueueL2(k)
    <3>1. CASE L2Queued(k)
      BY <2>1, <2>4, <3>1 DEF EnqueueL2, L2Queued, RecordsWoken, Woken
    <3>2. CASE ~L2Queued(k)
      <4>1. l2q' = Append(l2q, k)
        BY <2>4, <3>2 DEF EnqueueL2
      <4>2. Len(l2q) + 1 \in DOMAIN l2q' /\ l2q'[Len(l2q) + 1] = k
        BY <1>0, <4>1
      <4> QED BY <2>4, <4>2 DEF L2Queued, RecordsWoken, Woken
    <3> QED BY <3>1, <3>2
  <2>5. CASE k # p
    <3>1. l2timer'[p] = l2timer[p]
      BY <1>0, <1>2, <2>5 DEF L2Fires
    <3>2. L2Queued(p) => L2Queued(p)'
      <4>1. l2q' = l2q \/ l2q' = Append(l2q, k)
        BY <1>2 DEF L2Fires, EnqueueL2
      <4>2. \A i \in DOMAIN l2q : i \in DOMAIN l2q' /\ l2q'[i] = l2q[i]
        BY <1>0, <4>1
      <4> QED BY <2>1, <4>2 DEF L2Queued
    <3> QED BY <1>0, <1>1, <2>1, <3>1, <3>2, SeenSame, RecordsFrame DEF Woken
  <2> QED BY <1>2, <2>2, <2>3, <2>4, <2>5 DEF L2Fires
<1>3. CASE L2Read(k)
  <2>1. UNCHANGED <<state, l2timer, forgot>> /\ l2.key = NoKey /\ l2'.key = k
        /\ l2q # <<>> /\ l2q[1] = k /\ l2q' = Tail(l2q)
    BY <1>0, <1>3 DEF L2Read, Memory, Timers
  <2>2. L2Queued(p) => L2Queued(p)'
    <3>1. ASSUME NEW i \in DOMAIN l2q, l2q[i] = p PROVE L2Queued(p)'
      <4>1. CASE i = 1
        BY <2>1, <3>1, <4>1 DEF L2Queued
      <4>2. CASE i # 1
        <5>1. i - 1 \in DOMAIN l2q' /\ l2q'[i - 1] = l2q[i]
          BY <1>0, <2>1, <4>2
        <5> QED BY <3>1, <5>1 DEF L2Queued
      <4> QED BY <4>1, <4>2
    <3>2. l2.key # p
      BY <1>0, <2>1
    <3> QED BY <3>1, <3>2 DEF L2Queued
  <2> QED BY <1>0, <1>1, <2>1, <2>2, SeenSame, RecordsFrame DEF Woken
<1>4. CASE L2Fail(k) \/ \E how \in {"ok", "failed", "empty"} : L2Finish(k, how)
  <2>1. /\ Poll(k) /\ l2.key = k /\ UNCHANGED <<l2q, forgot>>
        /\ UNCHANGED state \/ \E st : state' = [state EXCEPT ![k] = st]
    BY <1>4 DEF L2Fail, L2Finish, Memory
  <2>2. CASE k = p
    <3>1. life = "up" => l2timer'[p] = "max"
      BY <1>0, <2>1, <2>2 DEF Poll
    <3> QED BY <1>1, <3>1 DEF RecordsWoken, Woken
  <2>3. CASE k # p
    <3>1. l2timer'[p] = l2timer[p] /\ state'[p] = state[p]
      BY <1>0, <2>1, <2>3 DEF Poll
    <3>2. L2Queued(p) => L2Queued(p)'
      BY <2>1, <2>3 DEF L2Queued
    <3> QED BY <1>0, <1>1, <2>1, <3>1, <3>2, SeenSame, RecordsFrame DEF Woken
  <2> QED BY <2>2, <2>3
<1> QED BY <1>2, <1>3, <1>4

LEMMA RecordsStep == RecordsInv /\ [Next]_vars => RecordsInv'
<1> SUFFICES ASSUME RecordsInv, [Next]_vars PROVE RecordsInv'
  OBVIOUS
<1>1. TypeInv' /\ l1 \in Task1
  BY TypeStep DEF RecordsInv, TypeInv, DataOK
<1>2. l1'.phase = "read" => ~l1'.stored
  <2>1. CASE UNCHANGED l1 \/ l1' = NoTask1
    BY <2>1 DEF RecordsInv, NoTask1
  <2>2. ASSUME NEW s \in Sessions, L1Read(s) PROVE ~l1'.stored
    <3>1. CASE l1' = [session |-> s, phase |-> "read", batch |-> Slice(s), left |-> Backlog(s), stored |-> FALSE]
      BY <3>1
    <3>2. CASE l1' = [NoTask1 EXCEPT !.session = s, !.phase = "read"]
      BY <3>2 DEF NoTask1
    <3> QED BY <2>2, <3>1, <3>2 DEF L1Read
  <2>3. ASSUME NEW s \in Sessions, L1Mark(s) PROVE l1'.phase # "read"
    BY <1>1, <2>3 DEF L1Mark, Task1
  <2>4. ASSUME NEW stored, L1Extract(stored) PROVE l1'.phase # "read"
    BY <1>1, <2>4 DEF L1Extract, Task1
  <2>5. ASSUME NEW s \in Sessions,
               \/ \E n \in RowsPerCapture : Capture(s, n)
               \/ UpsertRows(s) \/ Notify(s) \/ NotifySaved(s) \/ FlushSession(s) \/ IdleFires(s)
               \/ L1Finish(s) \/ L1Fail(s)
        PROVE  UNCHANGED l1 \/ l1' = NoTask1
    BY <2>5 DEF Capture, UpsertRows, Notify, NotifySaved, FlushSession, IdleFires, L1Finish, L1Fail, L1Side
  <2>6. ASSUME NEW k \in Keys,
               L2Fires(k) \/ L2Read(k) \/ L2Fail(k) \/ \E how \in {"ok", "failed", "empty"} : L2Finish(k, how)
        PROVE  UNCHANGED l1
    BY <2>6 DEF L2Fires, L2Read, L2Fail, L2Finish, L1Side
  <2>7. CASE L3End \/ Destroy \/ FlushTimers \/ Restart \/ UNCHANGED vars
    BY <2>1, <2>7 DEF L3End, Destroy, FlushTimers, Restart, L1Side, vars
  <2> QED BY <2>1, <2>2, <2>3, <2>4, <2>5, <2>6, <2>7 DEF Next
<1>3. ASSUME NEW s \in Sessions PROVE RecordsWoken(s)'
  <2>0. RecordsWoken(s) /\ ProfileOf[s] \in Keys
    BY SessionKeys, <1>3 DEF RecordsInv
  <2>1. CASE UNCHANGED vars
    <3>1. UNCHANGED <<records, state, l2timer, l2, l2q, l1, life, forgot>>
      BY <2>1 DEF vars
    <3>2. Woken(s)' = Woken(s)
      BY <2>0, <3>1, QueuedSame DEF Woken
    <3> QED BY <2>0, <3>1, <3>2, SeenSame, RecordsFrame
  <2>2. ASSUME NEW r \in Sessions,
               \/ \E n \in RowsPerCapture : Capture(r, n)
               \/ UpsertRows(r) \/ Notify(r) \/ NotifySaved(r) \/ FlushSession(r) \/ IdleFires(r)
        PROVE  RecordsWoken(s)'
    BY <2>2, RecordsTurn
  <2>3. ASSUME NEW r \in Sessions, L1Read(r) \/ L1Mark(r) \/ L1Finish(r) \/ L1Fail(r)
        PROVE  RecordsWoken(s)'
    BY <2>3, RecordsL1
  <2>4. ASSUME NEW stored \in BOOLEAN, L1Extract(stored) PROVE RecordsWoken(s)'
    BY <2>4, RecordsStored
  <2>5. ASSUME NEW k \in Keys,
               L2Fires(k) \/ L2Read(k) \/ L2Fail(k) \/ \E how \in {"ok", "failed", "empty"} : L2Finish(k, how)
        PROVE  RecordsWoken(s)'
    BY <2>5, RecordsL2
  <2>6. CASE L3End
    <3>1. UNCHANGED <<records, state, l2timer, l2, l2q, l1, life, forgot>>
      BY <2>6 DEF L3End, Data, Memory, Timers, L1Side, L2Side
    <3>2. Woken(s)' = Woken(s)
      BY <2>0, <3>1, QueuedSame DEF Woken
    <3> QED BY <2>0, <3>1, <3>2, SeenSame, RecordsFrame
  <2>7. CASE Destroy \/ FlushTimers
    BY <2>7 DEF Destroy, FlushTimers, RecordsWoken
  <2>8. CASE Restart
    <3>1. ProfileOf[s] \notin forgot' => l2timer'[ProfileOf[s]] # "none"
      BY <2>0, <2>8 DEF Restart
    <3> QED BY <3>1 DEF RecordsWoken, Woken
  <2> QED BY <2>1, <2>2, <2>3, <2>4, <2>5, <2>6, <2>7, <2>8 DEF Next
<1> QED BY <1>1, <1>2, <1>3 DEF RecordsInv

\* Until a known exception strikes, a memory that L1 has stored and L2 has not
\* read has its profile's timer armed, its L2 queued or running, or the L1
\* that stored it still to finish: no step drops the last of them.
THEOREM RecordsWakeUpCorrect == Spec => []RecordsHaveWakeUp
<1>1. Init => RecordsInv
  <2>1. ASSUME Init, NEW s \in Sessions PROVE records[s] = 0 /\ Seen(s) = 0
    BY <2>1, SessionKeys DEF Init, Seen, StateOf, NewState
  <2>2. Init => l1.phase = "idle"
    BY DEF Init, NoTask1
  <2> QED BY <2>1, <2>2, TypeInit DEF RecordsInv, RecordsWoken
<1>2. RecordsInv => RecordsHaveWakeUp
  BY DEF RecordsInv, RecordsWoken, RecordsHaveWakeUp, Woken, Seen
<1> QED BY <1>1, <1>2, RecordsStep, PTL DEF Spec

-----------------------------------------------------------------------------
LEMMA LeastOf ==
  ASSUME NEW S \in SUBSET Nat, S # {}
  PROVE  \E m \in S : \A k \in S : m <= k
<1>1. \E m \in S : \A k \in S : ~(<<k, m>> \in OpToRel(<, Nat))
  BY NatLessThanWellFounded, WFMin
<1>2. ASSUME NEW m \in S, NEW k \in S, ~(<<k, m>> \in OpToRel(<, Nat)) PROVE m <= k
  <2>1. CASE k < m
    <3>1. <<k, m>> \in Nat \X Nat
      OBVIOUS
    <3>2. <<k, m>> \in OpToRel(<, Nat)
      BY <2>1, <3>1 DEF OpToRel
    <3> QED BY <1>2, <3>2
  <2> QED BY <2>1
<1> QED BY <1>1, <1>2

LEMMA LastOf ==
  ASSUME NEW n \in Nat, NEW S \in SUBSET (1..n), S # {}
  PROVE  \E m \in S : \A k \in S : k <= m
<1> DEFINE U == {k \in Nat : \A h \in S : h <= k}
<1>1. n \in U
  OBVIOUS
<1>2. PICK m \in U : \A k \in U : m <= k
  <2> HIDE DEF U
  <2>1. U \in SUBSET Nat
    BY DEF U
  <2> QED BY <1>1, <2>1, LeastOf
<1>3. m \in S
  <2> SUFFICES ASSUME m \notin S PROVE FALSE
    OBVIOUS
  <2>1. \A h \in S : h <= m - 1
    BY <1>2
  <2>2. m - 1 \in U
    <3>1. PICK h \in S : TRUE
      OBVIOUS
    <3>2. m \in Nat /\ 1 <= h /\ h <= m
      BY <1>2, <3>1
    <3>3. m - 1 \in Nat
      BY <3>2
    <3> QED BY <2>1, <3>3
  <2> QED BY <1>2, <2>2
<1> QED BY <1>2, <1>3

\* When the first batch takes all that the query has returned, it has returned
\* all rows past the cursor: a batch and the rest of its last block are fewer
\* than the rows asked for.
LEMMA NothingBehind ==
  ASSUME DataOK, Sorted, SmallBlocks, NEW s \in Sessions, Queried(s) = Slice(s)
  PROVE  Past(s) \subseteq Slice(s)
<1> DEFINE before(i) == {h \in Past(s) : h < i}
           B == BatchProcess
<1> SUFFICES ASSUME ~(Past(s) \subseteq Slice(s)) PROVE FALSE
  OBVIOUS
<1>1. /\ DOMAIN rows[s] = 1..Len(rows[s]) /\ Len(rows[s]) \in Nat /\ B \in Nat \ {0}
      /\ \A i \in DOMAIN rows[s] : rows[s][i] \in Nat
      /\ Past(s) \subseteq DOMAIN rows[s] /\ Queried(s) \subseteq Past(s)
  BY BoundsAssumption DEF DataOK, Past, Queried
<1>2. \A i : IsFiniteSet(before(i)) /\ Cardinality(before(i)) \in Nat
  BY <1>1, RowsFinite
<1>3. PICK i \in Past(s) \ Slice(s) : \A k \in Past(s) \ Slice(s) : i <= k
  <2>1. Past(s) \ Slice(s) \in SUBSET Nat /\ Past(s) \ Slice(s) # {}
    BY <1>1
  <2> QED BY <2>1, LeastOf
<1>4. ~(Cardinality(before(i)) < 2 * B)
  BY <1>3 DEF Queried
<1>5. before(i) \subseteq Slice(s)
  BY <1>1, <1>3
<1>6. before(i) # {}
  <2>1. CASE before(i) = {}
    <3>1. Cardinality(before(i)) = 0
      BY <2>1, FS_EmptySet
    <3> HIDE DEF before
    <3> QED BY <1>1, <1>4, <3>1
  <2> QED BY <2>1
<1>7. PICK m \in before(i) : \A h \in before(i) : h <= m
  <2> DEFINE S == before(i)
  <2>1. S \in SUBSET (1..Len(rows[s]))
    BY <1>1
  <2>2. S # {}
    BY <1>6
  <2>3. Len(rows[s]) \in Nat
    BY <1>1
  <2> HIDE DEF S
  <2>4. \E m \in S : \A h \in S : h <= m
    BY <2>1, <2>2, <2>3, LastOf
  <2> QED BY <2>4 DEF S
<1>8. PICK j \in Queried(s) : Cardinality(before(j)) < B /\ rows[s][m] <= rows[s][j]
  BY <1>5, <1>7 DEF Slice
<1> DEFINE block == Block(s, rows[s][j])
<1>9. j \in DOMAIN rows[s] /\ m \in DOMAIN rows[s] /\ rows[s][j] \in Nat
  BY <1>1, <1>7, <1>8
<1>10. before(i) \subseteq before(j) \cup block
  <2>1. ASSUME NEW h \in before(i), h \notin before(j) PROVE h \in block
    <3>1. h \in DOMAIN rows[s] /\ j <= h /\ h <= m
      BY <1>1, <1>7, <1>9, <2>1
    <3>2. rows[s][j] <= rows[s][h] /\ rows[s][h] <= rows[s][m]
      BY <1>9, <3>1 DEF Sorted
    <3> QED BY <1>1, <1>8, <1>9, <3>1, <3>2 DEF Block
  <2> QED BY <2>1
<1>11. IsFiniteSet(block) /\ Cardinality(block) \in Nat /\ Cardinality(block) <= B
  <2>1. IsFiniteSet(block) /\ Cardinality(block) \in Nat
    BY RowsFinite DEF Block
  <2> QED BY <1>9, <2>1 DEF SmallBlocks
<1>12. Cardinality(before(i)) <= Cardinality(before(j)) + Cardinality(block)
  <2> DEFINE X == before(i) Y == before(j)
  <2>1. X \subseteq Y \cup block /\ IsFiniteSet(X) /\ IsFiniteSet(Y) /\ IsFiniteSet(block)
    BY <1>2, <1>10, <1>11
  <2> HIDE DEF X, Y, block
  <2>2. IsFiniteSet(Y \cap block) /\ IsFiniteSet(Y \cup block)
        /\ Cardinality(Y \cup block) = Cardinality(Y) + Cardinality(block) - Cardinality(Y \cap block)
    BY <2>1, FS_Intersection, FS_Union
  <2>3. Cardinality(X) <= Cardinality(Y \cup block)
    <3>1. X \in SUBSET (Y \cup block)
      BY <2>1
    <3> QED BY <2>2, <3>1, FS_Subset
  <2>4. /\ Cardinality(X) \in Nat /\ Cardinality(Y) \in Nat /\ Cardinality(block) \in Nat
        /\ Cardinality(Y \cap block) \in Nat /\ Cardinality(Y \cup block) \in Nat
    BY <2>1, <2>2, FS_CardinalityType
  <2>5. Cardinality(X) <= Cardinality(Y) + Cardinality(block)
    BY <2>2, <2>3, <2>4
  <2> QED BY <2>5 DEF X, Y
<1> DEFINE ci == Cardinality(before(i)) cj == Cardinality(before(j)) cb == Cardinality(block)
<1>13. ci \in Nat /\ cj \in Nat /\ cb \in Nat /\ cb <= B /\ cj < B /\ ci <= cj + cb /\ ~(ci < 2 * B) /\ B \in Nat
  BY <1>1, <1>2, <1>4, <1>8, <1>11, <1>12
<1> HIDE DEF ci, cj, cb, B
<1> QED BY <1>13

-----------------------------------------------------------------------------
\* The order of the rows, for a store that writes them one at a time as well:
\* none is ahead of the last turn, whose rows fit a batch, those to come too.
Ordered(s) ==
  /\ \A i \in DOMAIN rows[s] : rows[s][i] <= capture[s].stamp
  /\ Cardinality(Block(s, capture[s].stamp)) + capture[s].todo <= BatchProcess

OrderInv == Sorted /\ SmallBlocks /\ \A s \in Sessions : Ordered(s)

\* A step that writes no row: a turn stays as it is, ends, or begins.
LEMMA OrderFrame ==
  ASSUME TypeInv, OrderInv, UNCHANGED rows, capture' \in [Sessions -> Turn],
         \A s \in Sessions :
           \/ capture'[s].stamp = capture[s].stamp /\ capture'[s].todo <= capture[s].todo
           \/ capture'[s].stamp = capture[s].stamp + 1
  PROVE  OrderInv'
<1>1. Sorted' /\ SmallBlocks'
  BY DEF OrderInv, Sorted, SmallBlocks, Block
<1>2. ASSUME NEW s \in Sessions PROVE Ordered(s)'
  <2> DEFINE t == capture'[s].stamp
             u == capture[s].stamp
  <2>1. /\ Ordered(s) /\ DataOK /\ t \in Nat /\ u \in Nat /\ BatchProcess \in Nat
        /\ capture[s].todo \in Nat /\ capture'[s].todo \in 0..BatchProcess
        /\ \A i \in DOMAIN rows[s] : rows[s][i] \in Nat
    BY BoundsAssumption DEF OrderInv, TypeInv, DataOK, Turn
  <2>2. Cardinality(Block(s, u)) \in Nat
    BY <2>1, RowsFinite DEF Block
  <2>3. {i \in DOMAIN rows'[s] : rows'[s][i] = t} = Block(s, t)
    BY DEF Block
  <2>4. CASE t = u /\ capture'[s].todo <= capture[s].todo
    <3>1. Cardinality(Block(s, t)) + capture'[s].todo <= BatchProcess
      BY <2>1, <2>2, <2>4 DEF Ordered
    <3>2. \A i \in DOMAIN rows[s] : rows[s][i] <= t
      BY <2>1, <2>4 DEF Ordered
    <3> QED BY <2>3, <3>1, <3>2 DEF Ordered, Block
  <2>5. CASE t = u + 1
    <3>1. \A i \in DOMAIN rows[s] : rows[s][i] < t
      BY <2>1, <2>5 DEF Ordered
    <3>2. Block(s, t) = {}
      BY <2>1, <3>1 DEF Block
    <3>3. Cardinality(Block(s, t)) = 0
      BY <3>2, FS_EmptySet
    <3>4. Cardinality(Block(s, t)) + capture'[s].todo <= BatchProcess
      BY <2>1, <3>3
    <3>5. \A i \in DOMAIN rows[s] : rows[s][i] <= t
      BY <2>1, <3>1
    <3> QED BY <2>3, <3>4, <3>5 DEF Ordered, Block
  <2> QED BY <2>4, <2>5
<1> QED BY <1>1, <1>2 DEF OrderInv

\* The rows of a turn come after all others.
LEMMA OrderAppended ==
  ASSUME TypeInv, OrderInv, NEW s \in Sessions, UpsertRows(s)
  PROVE  OrderInv'
<1> DEFINE todo == capture[s].todo
           t == capture[s].stamp
           old == Len(rows[s])
<1>1. /\ capture \in [Sessions -> Turn] /\ rows \in [Sessions -> Seq(Nat)] /\ capture[s] \in Turn
      /\ todo \in 1..BatchProcess /\ t \in Nat /\ BatchProcess \in Nat /\ old \in Nat
      /\ DOMAIN rows[s] = 1..old /\ rows[s] \in Seq(Nat) /\ DataOK /\ Ordered(s)
  <2>1. /\ DataOK /\ capture \in [Sessions -> Turn] /\ rows \in [Sessions -> Seq(Nat)]
        /\ capture[s] \in Turn /\ rows[s] \in Seq(Nat)
    BY DEF TypeInv, DataOK
  <2>2. capture[s].todo > 0 /\ capture[s].todo \in 0..BatchProcess /\ capture[s].stamp \in Nat
    BY <2>1 DEF Turn, UpsertRows
  <2>3. Ordered(s) /\ BatchProcess \in Nat
    BY BoundsAssumption DEF OrderInv
  <2> QED BY <2>1, <2>2, <2>3
<1>2. PICK n \in {1, todo} :
        /\ rows' = [rows EXCEPT ![s] = @ \o [i \in 1..n |-> t]]
        /\ capture' = [capture EXCEPT ![s].todo = @ - n]
  BY DEF UpsertRows
<1>3. n \in Nat /\ todo - n \in Nat
  BY <1>1, <1>2
<1>4. /\ DOMAIN rows'[s] = 1..(old + n)
      /\ \A i \in 1..old : rows'[s][i] = rows[s][i] /\ rows'[s][i] <= t /\ rows[s][i] \in Nat
      /\ \A i \in (old + 1)..(old + n) : rows'[s][i] = t
  <2>1. [i \in 1..n |-> t] \in Seq(Nat) /\ Len([i \in 1..n |-> t]) = n
    BY <1>1, <1>3
  <2>2. rows'[s] = rows[s] \o [i \in 1..n |-> t]
    BY <1>1, <1>2
  <2>3. \A i \in 1..old : rows[s][i] <= t /\ rows[s][i] \in Nat
    BY <1>1 DEF Ordered
  <2> DEFINE new == [i \in 1..n |-> t]
  <2>4. new \in Seq(Nat) /\ Len(new) = n /\ \A i \in 1..n : new[i] = t
    BY <2>1
  <2>5. rows'[s] = rows[s] \o new
    BY <2>2
  <2> HIDE DEF new, old
  <2>6. DOMAIN rows'[s] = 1..(old + n) /\ \A i \in 1..old : rows'[s][i] = rows[s][i]
    <3>1. rows[s] \in Seq(Nat) /\ Len(rows[s]) = old /\ DOMAIN rows[s] = 1..old /\ old \in Nat
      BY <1>1 DEF old
    <3>2. \A i \in 1..old : (rows[s] \o new)[i] = rows[s][i]
      BY <2>4, <3>1, Longer
    <3>3. Len(rows[s] \o new) = old + n /\ rows[s] \o new \in Seq(Nat)
      BY <2>4, <3>1, Longer
    <3> QED BY <1>3, <2>5, <3>1, <3>2, <3>3
  <2>7. ASSUME NEW i \in (old + 1)..(old + n) PROVE rows'[s][i] = t
    <3>1. i - old \in 1..n /\ rows'[s][i] = new[i - old]
      BY <1>1, <1>3, <2>4, <2>5 DEF old
    <3> QED BY <2>4, <3>1
  <2> QED BY <2>3, <2>6, <2>7 DEF old
<1>5. \A r \in Sessions \ {s} : rows'[r] = rows[r] /\ capture'[r] = capture[r]
  BY <1>1, <1>2
<1>6. capture'[s].stamp = t /\ capture'[s].todo = todo - n
  <2> DEFINE left == todo - n
  <2>1. capture'[s] = [capture[s] EXCEPT !.todo = left]
    BY <1>1, <1>2
  <2> HIDE DEF left
  <2>2. capture'[s].todo = left /\ capture'[s].stamp = t
    BY <1>1, <2>1 DEF Turn
  <2> QED BY <2>2 DEF left
<1>7. /\ old \in Nat /\ n \in Nat /\ todo \in Nat /\ t \in Nat /\ BatchProcess \in Nat /\ todo - n \in Nat
      /\ \A i \in 1..(old + n) : i \in 1..old \/ i \in (old + 1)..(old + n)
  BY <1>1, <1>3
<1>8. Cardinality(Block(s, t)) \in Nat /\ IsFiniteSet(Block(s, t)) /\ Cardinality(Block(s, t)) + todo <= BatchProcess
      /\ Block(s, t) \subseteq 1..old
  <2>1. Cardinality(Block(s, t)) \in Nat /\ IsFiniteSet(Block(s, t)) /\ Block(s, t) \subseteq 1..old
    BY <1>1, RowsFinite DEF Block
  <2> QED BY <1>1, <2>1 DEF Ordered
<1> DEFINE now(u) == {i \in DOMAIN rows'[s] : rows'[s][i] = u}
<1> HIDE DEF todo, t, old
<1>9. now(t) = Block(s, t) \cup ((old + 1)..(old + n))
  <2>1. \A i \in 1..old : rows[s][i] = t <=> i \in Block(s, t)
    BY <1>1 DEF Block, old
  <2>2. \A i \in Block(s, t) \cup ((old + 1)..(old + n)) : i \in 1..(old + n)
    BY <1>7, <1>8
  <2> QED BY <1>4, <1>7, <1>8, <2>1, <2>2
<1>10. Cardinality(now(t)) = Cardinality(Block(s, t)) + n
  <2> DEFINE new == (old + 1)..(old + n)
             blk == Block(s, t)
  <2>1. IsFiniteSet(new) /\ Cardinality(new) = n
    BY <1>7, FS_Interval
  <2>2. blk \cap new = {}
    BY <1>7, <1>8
  <2> HIDE DEF new, blk
  <2>3. Cardinality(blk \cup new) = Cardinality(blk) + Cardinality(new) - Cardinality(blk \cap new)
    BY <1>8, <2>1, FS_Union DEF blk
  <2>4. Cardinality(blk \cap new) = 0 /\ Cardinality(blk) \in Nat
    BY <1>8, <2>2, FS_EmptySet DEF blk
  <2>5. Cardinality(blk \cup new) = Cardinality(blk) + n
    BY <1>7, <2>1, <2>3, <2>4
  <2> QED BY <1>9, <2>5 DEF new, blk
<1>11. ASSUME NEW u \in Nat, u # t PROVE now(u) = Block(s, u)
  <2>1. Block(s, u) = {i \in 1..old : rows[s][i] = u}
    BY <1>1 DEF Block, old
  <2>2. \A i \in 1..old : i \in 1..(old + n)
    BY <1>7
  <2> QED BY <1>4, <1>7, <1>11, <2>1, <2>2
<1>12. SmallBlocks'
  <2>1. ASSUME NEW u \in Nat PROVE Cardinality(now(u)) <= BatchProcess
    <3>1. CASE u = t
      <4>1. n <= todo
        BY <1>7
      <4> HIDE DEF now
      <4> QED BY <1>7, <1>8, <1>10, <3>1, <4>1
    <3>2. CASE u # t
      <4>1. Cardinality(Block(s, u)) <= BatchProcess
        BY DEF OrderInv, SmallBlocks
      <4> QED BY <1>11, <3>2, <4>1
    <3> QED BY <3>1, <3>2
  <2> QED BY <1>5, <2>1 DEF OrderInv, SmallBlocks, Block
<1>13. ASSUME NEW i \in 1..(old + n) PROVE rows'[s][i] <= t
  <2>1. CASE i \in 1..old
    BY <1>4, <2>1
  <2>2. CASE i \in (old + 1)..(old + n)
    <3>1. rows'[s][i] = t
      BY <1>4, <2>2
    <3> QED BY <1>7, <3>1
  <2> QED BY <1>7, <2>1, <2>2
<1>14. Sorted'
  <2>1. ASSUME NEW i \in 1..(old + n), NEW j \in 1..(old + n), i <= j
        PROVE  rows'[s][i] <= rows'[s][j]
    <3>1. CASE j \in 1..old
      <4>1. i \in 1..old /\ 1..old = DOMAIN rows[s]
        BY <1>1, <1>7, <2>1, <3>1 DEF old
      <4>2. rows[s][i] <= rows[s][j]
        BY <2>1, <3>1, <4>1 DEF OrderInv, Sorted
      <4> QED BY <1>4, <3>1, <4>1, <4>2
    <3>2. CASE j \in (old + 1)..(old + n)
      <4>1. rows'[s][j] = t
        BY <1>4, <3>2
      <4> QED BY <1>13, <4>1
    <3> QED BY <1>7, <3>1, <3>2
  <2> QED BY <1>4, <1>5, <2>1 DEF OrderInv, Sorted
<1>15. ASSUME NEW r \in Sessions PROVE Ordered(r)'
  <2>1. CASE r = s
    <3>2. Cardinality(now(t)) + (todo - n) <= BatchProcess
      <4> HIDE DEF now
      <4> QED BY <1>7, <1>8, <1>10
    <3>3. \A i \in DOMAIN rows'[s] : rows'[s][i] <= t
      BY <1>4, <1>13
    <3> QED BY <1>6, <2>1, <3>2, <3>3 DEF Ordered, Block
  <2>2. CASE r # s
    BY <1>5, <2>2 DEF OrderInv, Ordered, Block
  <2> QED BY <2>1, <2>2
<1> QED BY <1>12, <1>14, <1>15 DEF OrderInv

LEMMA OrderStep ==
  ASSUME TypeInv, OrderInv, [Next]_vars PROVE OrderInv'
<1>1. /\ capture \in [Sessions -> Turn] /\ capture' \in [Sessions -> Turn]
      /\ \A s \in Sessions : /\ capture[s] \in Turn /\ capture[s].stamp \in Nat
                             /\ capture[s].todo \in Nat /\ capture[s].todo <= capture[s].todo
  BY TypeStep, BoundsAssumption DEF TypeInv, DataOK, Turn
<1>2. ASSUME UNCHANGED <<rows, capture>> PROVE OrderInv'
  BY <1>1, <1>2, OrderFrame
<1>3. CASE UNCHANGED vars
  BY <1>2, <1>3 DEF vars
<1>4. ASSUME NEW s \in Sessions, NEW turn, capture' = [capture EXCEPT ![s] = turn], UNCHANGED rows,
             \/ turn.stamp = capture[s].stamp /\ turn.todo = capture[s].todo
             \/ turn.stamp = capture[s].stamp + 1
      PROVE  OrderInv'
  <2>1. \A r \in Sessions :
           \/ capture'[r].stamp = capture[r].stamp /\ capture'[r].todo <= capture[r].todo
           \/ capture'[r].stamp = capture[r].stamp + 1
    BY <1>1, <1>4
  <2> QED BY <1>1, <1>4, <2>1, OrderFrame
<1>5. ASSUME NEW s \in Sessions, NEW n \in RowsPerCapture, Capture(s, n) PROVE OrderInv'
  <2> DEFINE next == capture[s].stamp + 1
             turn == [capture[s] EXCEPT !.stamp = next, !.todo = n, !.step = "write"]
  <2>1. capture' = [capture EXCEPT ![s] = turn] /\ UNCHANGED rows
    BY <1>1, <1>5 DEF Capture
  <2>2. turn.stamp = next
    <3> HIDE DEF next
    <3> QED BY <1>1 DEF Turn
  <2> HIDE DEF turn
  <2> QED BY <1>4, <2>1, <2>2
<1>6. ASSUME NEW s \in Sessions, UpsertRows(s) PROVE OrderInv'
  BY <1>6, OrderAppended
<1>7. ASSUME NEW s \in Sessions, Notify(s) \/ NotifySaved(s) PROVE OrderInv'
  <2> DEFINE at(x) == [capture[s] EXCEPT !.step = "save", !.at = x]
             ended == [capture[s] EXCEPT !.step = "none"]
             over == [capture[s] EXCEPT !.step = "none", !.at = 0]
  <2>1. /\ UNCHANGED rows
        /\ \/ capture' = [capture EXCEPT ![s] = ended]
           \/ capture' = [capture EXCEPT ![s] = over]
           \/ \E x : capture' = [capture EXCEPT ![s] = at(x)]
    BY <1>1, <1>7 DEF Notify, NotifySaved
  <2>2. /\ ended.stamp = capture[s].stamp /\ ended.todo = capture[s].todo
        /\ over.stamp = capture[s].stamp /\ over.todo = capture[s].todo
        /\ \A x : at(x).stamp = capture[s].stamp /\ at(x).todo = capture[s].todo
    BY <1>1 DEF Turn
  <2> HIDE DEF at, ended, over
  <2> QED BY <1>4, <2>1, <2>2
<1>8. ASSUME NEW s \in Sessions,
             FlushSession(s) \/ IdleFires(s) \/ L1Read(s) \/ L1Mark(s) \/ L1Finish(s) \/ L1Fail(s)
      PROVE  OrderInv'
  BY <1>2, <1>8 DEF FlushSession, IdleFires, L1Read, L1Mark, L1Finish, L1Fail, Data
<1>9. ASSUME NEW stored, L1Extract(stored) PROVE OrderInv'
  BY <1>2, <1>9 DEF L1Extract
<1>10. ASSUME NEW k \in Keys,
              L2Fires(k) \/ L2Read(k) \/ L2Fail(k) \/ \E how \in {"ok", "failed", "empty"} : L2Finish(k, how)
       PROVE  OrderInv'
  BY <1>2, <1>10 DEF L2Fires, L2Read, L2Fail, L2Finish, Data
<1>11. CASE L3End \/ Destroy \/ FlushTimers
  BY <1>2, <1>11 DEF L3End, Destroy, FlushTimers, Data
<1>12. CASE Restart
  <2>1. \A s \in Sessions : capture'[s].stamp = capture[s].stamp /\ capture'[s].todo = 0
    BY <1>12 DEF Restart, NoTurn
  <2>2. \A s \in Sessions : 0 <= capture[s].todo
    BY <1>1
  <2> QED BY <1>1, <1>12, <2>1, <2>2, OrderFrame DEF Restart
<1> QED BY <1>3, <1>5, <1>6, <1>7, <1>8, <1>9, <1>10, <1>11, <1>12 DEF Next

LEMMA OrderInit == Init => OrderInv
<1> SUFFICES ASSUME Init PROVE OrderInv
  OBVIOUS
<1>1. \A s \in Sessions : DOMAIN rows[s] = {} /\ capture[s].todo = 0 /\ capture[s].stamp = 0
  BY DEF Init, NoTurn
<1>2. \A s \in Sessions : \A t : Block(s, t) = {}
  BY <1>1 DEF Block
<1>3. \A s \in Sessions : \A t : Cardinality(Block(s, t)) = 0
  BY <1>2, FS_EmptySet
<1> QED BY <1>1, <1>3, BoundsAssumption DEF OrderInv, Sorted, SmallBlocks, Ordered

-----------------------------------------------------------------------------
\* RowsHaveWakeUp, a session at a time.  Only a turn that is being written has
\* rows to come; a task that leaves nothing behind has all rows in its batch.
LeavesNothing(s) ==
  l1.left = "none" =>
    /\ l1.phase \in {"read", "extracted"} => Past(s) \subseteq l1.batch
    /\ l1.phase = "marked" => Past(s) = {}

InQueue(s) == \E i \in DOMAIN l1q : l1q[i] = s
Settled(s) == life = "up" /\ capture[s].step = "none" /\ s \notin forgot /\ s \notin idle /\ ~InQueue(s)
RowsWoken(s) == Settled(s) => IF l1.session = s THEN LeavesNothing(s) ELSE Past(s) = {}

WritesFirst == \A s \in Sessions : capture[s].todo > 0 => capture[s].step = "write"

RowsInv == TypeInv /\ OrderInv /\ WritesFirst /\ \A s \in Sessions : RowsWoken(s)

LEMMA PastSame ==
  ASSUME NEW s \in Sessions, rows'[s] = rows[s], cursor'[s] = cursor[s] PROVE Past(s)' = Past(s)
BY DEF Past

\* A step that leaves the rows of a session alone, its task as well, and
\* takes no wake-up away.
LEMMA RowsFrame ==
  ASSUME NEW s \in Sessions, RowsWoken(s), Settled(s)' => Settled(s),
         rows'[s] = rows[s], cursor'[s] = cursor[s],
         l1' = l1 \/ (l1.session # s /\ l1'.session # s)
  PROVE  RowsWoken(s)'
<1>1. Past(s)' = Past(s)
  BY PastSame
<1> QED BY <1>1 DEF RowsWoken, LeavesNothing

LEMMA QueueStays ==
  ASSUME RestOK, NEW s \in Sessions, NEW r \in Sessions,
         l1q' = l1q \/ l1q' = Append(l1q, r) \/ (l1q # <<>> /\ l1q[1] # s /\ l1q' = Tail(l1q)),
         InQueue(s)
  PROVE  InQueue(s)'
<1>1. l1q \in Seq(Sessions)
  BY DEF RestOK
<1>2. PICK i \in DOMAIN l1q : l1q[i] = s
  BY DEF InQueue
<1>3. CASE l1q' = l1q
  BY <1>2, <1>3 DEF InQueue
<1>4. CASE l1q' = Append(l1q, r)
  <2>1. i \in DOMAIN l1q' /\ l1q'[i] = l1q[i]
    BY <1>1, <1>2, <1>4
  <2> QED BY <1>2, <2>1 DEF InQueue
<1>5. CASE l1q # <<>> /\ l1q[1] # s /\ l1q' = Tail(l1q)
  <2>1. i - 1 \in DOMAIN l1q' /\ l1q'[i - 1] = l1q[i]
    BY <1>1, <1>2, <1>5
  <2> QED BY <1>2, <2>1 DEF InQueue
<1> QED BY <1>3, <1>4, <1>5

LEMMA Queues ==
  ASSUME RestOK, NEW r \in Sessions, l1q' = Append(l1q, r) PROVE InQueue(r)'
<1>1. l1q \in Seq(Sessions)
  BY DEF RestOK
<1>2. Len(l1q) + 1 \in DOMAIN l1q' /\ l1q'[Len(l1q) + 1] = r
  BY <1>1
<1> QED BY <1>2 DEF InQueue

\* Whoever asks for an L1 gets one, or is forgotten behind the one it has.
LEMMA Enqueues ==
  ASSUME RestOK, NEW r \in Sessions, NEW s \in Sessions, NEW others,
         EnqueueL1(r, others), UNCHANGED <<life, l1>>
  PROVE  /\ s = r => ~Settled(s)'
         /\ s # r /\ (s \in others <=> s \in idle) /\ capture'[s] = capture[s] /\ Settled(s)' => Settled(s)
<1>1. CASE L1Queued(r)
  <2>1. idle' = others /\ forgot' = forgot \cup {r} /\ UNCHANGED l1q
    BY <1>1 DEF EnqueueL1
  <2> QED BY <2>1 DEF Settled, InQueue
<1>2. CASE ~L1Queued(r)
  <2>1. idle' = others \ {r} /\ l1q' = Append(l1q, r) /\ UNCHANGED forgot
    BY <1>2 DEF EnqueueL1
  <2>2. InQueue(s) => InQueue(s)'
    BY <2>1, QueueStays
  <2> QED BY <2>1, <2>2, Queues DEF Settled
<1> QED BY <1>1, <1>2

LEMMA RowsTurn ==
  ASSUME RowsInv, NEW r \in Sessions, NEW s \in Sessions,
         \/ \E n \in RowsPerCapture : Capture(r, n)
         \/ UpsertRows(r) \/ Notify(r) \/ NotifySaved(r) \/ FlushSession(r) \/ IdleFires(r)
  PROVE  RowsWoken(s)'
<1>0. /\ RowsWoken(s) /\ RestOK /\ capture[s] \in Turn /\ capture[r] \in Turn
      /\ capture \in [Sessions -> Turn] /\ rows \in [Sessions -> Seq(Nat)]
      /\ capture[r].todo > 0 => capture[r].step = "write"
  BY DEF RowsInv, TypeInv, DataOK, WritesFirst
<1>1. UNCHANGED <<cursor, l1, life>>
  BY DEF Capture, UpsertRows, Notify, NotifySaved, FlushSession, IdleFires, Data, L1Side
<1>2. ASSUME rows'[s] = rows[s], Settled(s)' => Settled(s) PROVE RowsWoken(s)'
  BY <1>0, <1>1, <1>2, RowsFrame
<1>3. ASSUME ~Settled(s)' PROVE RowsWoken(s)'
  BY <1>3 DEF RowsWoken
<1>4. ASSUME NEW n \in RowsPerCapture, Capture(r, n) PROVE RowsWoken(s)'
  <2>1. UNCHANGED <<rows, idle, l1q, forgot>>
    BY <1>4 DEF Capture, Timers, L1Side
  <2>2. s = r => capture'[s].step = "write"
    <3>1. capture'[r].step = "write"
      BY <1>0, <1>4 DEF Capture, Turn
    <3> QED BY <3>1
  <2>3. s # r => capture'[s] = capture[s]
    BY <1>0, <1>4 DEF Capture
  <2>4. Settled(s)' => Settled(s)
    BY <1>1, <2>1, <2>2, <2>3 DEF Settled, InQueue
  <2> QED BY <1>2, <2>1, <2>4
<1>5. CASE UpsertRows(r)
  <2>1. /\ UNCHANGED <<idle, l1q, forgot>>
        /\ \E n : capture' = [capture EXCEPT ![r].todo = @ - n]
        /\ \E new : rows' = [rows EXCEPT ![r] = new]
    BY <1>5 DEF UpsertRows, Timers, L1Side
  <2>2. capture[r].step = "write" /\ capture'[r].step = "write"
    BY <1>0, <1>5, <2>1 DEF UpsertRows, Turn
  <2>3. CASE s = r
    BY <1>3, <2>2, <2>3 DEF Settled
  <2>4. CASE s # r
    <3>1. capture'[s] = capture[s] /\ rows'[s] = rows[s]
      BY <1>0, <2>1, <2>4
    <3> QED BY <1>1, <1>2, <2>1, <3>1 DEF Settled, InQueue
  <2> QED BY <2>3, <2>4
<1>6. CASE Notify(r)
  <2>1. UNCHANGED <<rows, idle, l1q, forgot>> /\ capture[r].step = "write"
    BY <1>6 DEF Notify, Timers
  <2>2. CASE s = r
    <3>1. life # "up" \/ capture'[s].step = "save"
      BY <1>0, <1>6, <2>2 DEF Notify, Turn
    <3> QED BY <1>1, <1>3, <3>1 DEF Settled
  <2>3. CASE s # r
    <3>1. capture'[s] = capture[s]
      BY <1>0, <1>6, <2>3 DEF Notify
    <3> QED BY <1>1, <1>2, <2>1, <3>1 DEF Settled, InQueue
  <2> QED BY <2>2, <2>3
<1>7. CASE NotifySaved(r)
  <2>1. UNCHANGED rows /\ (s # r => capture'[s] = capture[s])
    BY <1>0, <1>7 DEF NotifySaved
  <2>2. CASE EnqueueL1(r, idle)
    BY <1>0, <1>1, <1>2, <1>3, <2>1, <2>2, Enqueues
  <2>3. CASE ~(state[r].count >= capture[r].at)
    <3>1. /\ idle' = idle \cup {r} /\ forgot \subseteq forgot' /\ UNCHANGED l1q
      BY <1>7, <2>3 DEF NotifySaved
    <3>2. s = r => ~Settled(s)'
      BY <3>1 DEF Settled
    <3>3. s # r => (Settled(s)' => Settled(s))
      BY <1>1, <2>1, <3>1 DEF Settled, InQueue
    <3> QED BY <1>2, <1>3, <2>1, <3>2, <3>3
  <2> QED BY <1>7, <2>2, <2>3 DEF NotifySaved
<1>8. CASE FlushSession(r)
  <2>1. UNCHANGED <<rows, capture, l1q>> /\ idle' = idle \ {r} /\ forgot' = forgot \cup {r}
    BY <1>8 DEF FlushSession, Data, L1Side
  <2>2. Settled(s)' => Settled(s)
    BY <1>1, <2>1 DEF Settled, InQueue
  <2> QED BY <1>2, <2>1, <2>2
<1>9. CASE IdleFires(r)
  <2>1. UNCHANGED <<rows, capture>>
    BY <1>9 DEF IdleFires, Data
  <2>2. CASE life = "up"
    <3>1. EnqueueL1(r, idle \ {r})
      BY <1>9, <2>2 DEF IdleFires
    <3> QED BY <1>0, <1>1, <1>2, <1>3, <2>1, <3>1, Enqueues
  <2>3. CASE life # "up"
    BY <1>1, <1>3, <2>3 DEF Settled
  <2> QED BY <2>2, <2>3
<1> QED BY <1>4, <1>5, <1>6, <1>7, <1>8, <1>9

LEMMA RowsL1 ==
  ASSUME RowsInv, NEW r \in Sessions, NEW s \in Sessions,
         L1Read(r) \/ L1Mark(r) \/ L1Finish(r) \/ L1Fail(r)
  PROVE  RowsWoken(s)'
<1>0. /\ RowsWoken(s) /\ RestOK /\ l1 \in Task1 /\ NoKey \notin Sessions /\ cursor \in [Sessions -> Nat]
      /\ rows \in [Sessions -> Seq(Nat)] /\ l1q \in Seq(Sessions)
  BY KeysAssumption DEF RowsInv, TypeInv, RestOK, DataOK, Keys
<1>1. UNCHANGED <<rows, capture, life>>
  BY DEF L1Read, L1Mark, L1Finish, L1Fail, Data
<1>2. CASE L1Read(r)
  <2>1. /\ l1.session = NoKey /\ l1q # <<>> /\ l1q[1] = r /\ l1q' = Tail(l1q)
        /\ UNCHANGED <<cursor, idle>>
    BY <1>0, <1>2 DEF L1Read, Data, Timers
  <2>2. CASE s # r
    <3>1. l1.session # s /\ l1'.session # s /\ (s \in forgot => s \in forgot')
      <4>1. l1'.session = r
        <5>1. CASE l1' = [NoTask1 EXCEPT !.session = r, !.phase = "read"]
          BY <5>1 DEF NoTask1
        <5> QED BY <1>2, <5>1 DEF L1Read
      <4>2. s \in forgot => s \in forgot'
        BY <1>2, <2>2 DEF L1Read
      <4> QED BY <1>0, <2>1, <2>2, <4>1, <4>2
    <3>2. InQueue(s) => InQueue(s)'
      BY <1>0, <2>1, <2>2, QueueStays
    <3>3. Settled(s)' => Settled(s)
      BY <1>1, <2>1, <3>1, <3>2 DEF Settled
    <3> QED BY <1>0, <1>1, <2>1, <3>1, <3>3, RowsFrame
  <2>3. CASE s = r
    <3>1. CASE s \in forgot'
      BY <3>1 DEF RowsWoken, Settled
    <3>2. CASE l1' = [session |-> r, phase |-> "read", batch |-> Slice(r), left |-> Backlog(r), stored |-> FALSE]
      <4>1. l1'.left = "none" => Past(s) \subseteq Slice(s)
        BY <2>3, <3>2, NothingBehind DEF Backlog, RowsInv, TypeInv, OrderInv
      <4>2. Past(s)' = Past(s)
        BY <1>1, <2>1, PastSame
      <4> QED BY <2>3, <3>2, <4>1, <4>2 DEF RowsWoken, LeavesNothing
    <3> QED BY <1>2, <2>3, <3>1, <3>2 DEF L1Read
  <2> QED BY <2>2, <2>3
<1>3. CASE L1Mark(r)
  <2>1. /\ l1.session = r /\ l1.phase = "extracted" /\ l1' = [l1 EXCEPT !.phase = "marked"]
        /\ UNCHANGED <<idle, forgot, l1q>>
    BY <1>3 DEF L1Mark, Timers
  <2>2. l1'.session = r /\ l1'.phase = "marked" /\ l1'.left = l1.left
    BY <1>0, <2>1 DEF Task1
  <2>3. Settled(s)' => Settled(s)
    BY <1>1, <2>1 DEF Settled, InQueue
  <2>4. PICK last \in l1.batch :
          /\ \A j \in l1.batch : rows[r][j] <= rows[r][last]
          /\ cursor' = [cursor EXCEPT ![r] = IF rows[r][last] > @ THEN rows[r][last] ELSE @]
    BY <1>3 DEF L1Mark
  <2>5. CASE s # r
    <3>1. cursor'[s] = cursor[s]
      BY <1>0, <2>4, <2>5
    <3> QED BY <1>0, <1>1, <2>1, <2>2, <2>3, <2>5, <3>1, RowsFrame
  <2>6. CASE s = r
    <3>1. ASSUME Settled(s), l1.left = "none" PROVE Past(s)' = {}
      <4>1. Past(s) \subseteq l1.batch
        BY <1>0, <2>1, <2>6, <3>1 DEF RowsWoken, LeavesNothing
      <4>2. l1.batch \subseteq DOMAIN rows[s]
        BY <2>1, <2>6 DEF RowsInv, TypeInv, BatchRows
      <4>3. /\ \A i \in DOMAIN rows[s] : rows[s][i] \in Nat
            /\ cursor[s] \in Nat /\ cursor'[s] = IF rows[s][last] > cursor[s] THEN rows[s][last] ELSE cursor[s]
        BY <1>0, <2>4, <2>6
      <4>4. ASSUME NEW i \in DOMAIN rows[s], rows[s][i] > cursor'[s] PROVE FALSE
        <5>1. i \in Past(s)
          BY <2>4, <4>2, <4>3, <4>4 DEF Past
        <5>2. rows[s][i] <= rows[s][last]
          BY <2>4, <2>6, <4>1, <5>1
        <5> QED BY <2>4, <4>2, <4>3, <4>4, <5>2
      <4> QED BY <1>1, <4>4 DEF Past
    <3> QED BY <2>2, <2>3, <2>6, <3>1 DEF RowsWoken, LeavesNothing
  <2> QED BY <2>5, <2>6
<1>4. CASE L1Finish(r)
  <2>1. /\ l1.session = r /\ l1' = NoTask1 /\ UNCHANGED <<cursor, l1q>>
        /\ l1.phase = "marked" \/ (l1.phase = "read" /\ l1.batch = {})
        /\ idle' = LeftToIdle(r)
        /\ s \in forgot => s \in forgot'
        /\ l1.left = "full" => r \in forgot'
    <3> DEFINE key == IF l1.stored THEN ProfileOf[r] ELSE r
    <3>1. forgot' = (forgot \ (IF life = "up" THEN {key} \ {r} ELSE {}))
                       \cup (IF l1.left = "full" THEN {r} ELSE {})
      BY <1>4 DEF L1Finish
    <3>2. s \notin {key} \ {r}
      BY KeysAssumption
    <3> HIDE DEF key
    <3>3. s \in forgot => s \in forgot'
      BY <3>1, <3>2
    <3>4. l1.left = "full" => r \in forgot'
      BY <3>1
    <3> QED BY <1>4, <3>3, <3>4 DEF L1Finish, Data
  <2>2. NoTask1.session = NoKey
    BY DEF NoTask1
  <2>3. idle \subseteq idle'
    BY <2>1 DEF LeftToIdle
  <2>4. Settled(s)' => Settled(s)
    BY <1>1, <2>1, <2>3 DEF Settled, InQueue
  <2>5. CASE s # r
    BY <1>0, <1>1, <2>1, <2>2, <2>4, <2>5, RowsFrame
  <2>6. CASE s = r
    <3>1. Settled(s)' => l1.left = "none"
      BY <1>0, <2>1, <2>6 DEF Settled, LeftToIdle, Task1
    <3>2. Settled(s) /\ l1.left = "none" => Past(s) = {}
      BY <1>0, <2>1, <2>6 DEF RowsWoken, LeavesNothing
    <3>3. Past(s)' = Past(s)
      BY <1>1, <2>1, PastSame
    <3> QED BY <1>0, <2>1, <2>2, <2>4, <3>1, <3>2, <3>3 DEF RowsWoken
  <2> QED BY <2>5, <2>6
<1>5. CASE L1Fail(r)
  <2>1. /\ l1.session = r /\ l1' = NoTask1 /\ UNCHANGED <<cursor, l1q>>
        /\ idle \subseteq idle' /\ forgot \subseteq forgot'
        /\ r \in idle' \/ r \in forgot'
    <3>1. retries[r] \in Nat /\ MaxRetries \in Nat
      BY <1>0, BoundsAssumption DEF RestOK
    <3>2. RetryAgain(r) \/ retries[r] >= MaxRetries
      BY <3>1 DEF RetryAgain
    <3>3. r \in idle' \/ r \in forgot'
      BY <1>5, <3>2 DEF L1Fail
    <3> QED BY <1>5, <3>3 DEF L1Fail, Data
  <2>2. NoTask1.session = NoKey
    BY DEF NoTask1
  <2>3. Settled(s)' => Settled(s)
    BY <1>1, <2>1 DEF Settled, InQueue
  <2>4. CASE s # r
    BY <1>0, <1>1, <2>1, <2>2, <2>3, <2>4, RowsFrame
  <2>5. CASE s = r
    BY <2>1, <2>5 DEF RowsWoken, Settled
  <2> QED BY <2>4, <2>5
<1> QED BY <1>2, <1>3, <1>4, <1>5

LEMMA RowsStep ==
  ASSUME RowsInv, [Next]_vars PROVE RowsInv'
<1>1. TypeInv' /\ OrderInv'
  BY TypeStep, OrderStep DEF RowsInv
<1>2. capture \in [Sessions -> Turn] /\ l1 \in Task1 /\ RestOK
  BY DEF RowsInv, TypeInv, DataOK
<1>3. WritesFirst'
  <2>1. CASE UNCHANGED capture
    BY <2>1 DEF RowsInv, WritesFirst
  <2>2. ASSUME NEW r \in Sessions, NEW turn, capture' = [capture EXCEPT ![r] = turn],
               turn.todo > 0 => turn.step = "write"
        PROVE  WritesFirst'
    BY <1>2, <2>2 DEF RowsInv, WritesFirst
  <2>3. ASSUME NEW r \in Sessions, NEW n \in RowsPerCapture, Capture(r, n) PROVE WritesFirst'
    <3> DEFINE turn == [capture[r] EXCEPT !.stamp = @ + 1, !.todo = n, !.step = "write"]
    <3>1. capture' = [capture EXCEPT ![r] = turn]
      BY <1>2, <2>3 DEF Capture
    <3>2. turn.step = "write"
      BY <1>2 DEF Turn
    <3> HIDE DEF turn
    <3> QED BY <2>2, <3>1, <3>2
  <2>4. ASSUME NEW r \in Sessions, UpsertRows(r) PROVE WritesFirst'
    <3>1. PICK n : capture' = [capture EXCEPT ![r].todo = @ - n]
      BY <2>4 DEF UpsertRows
    <3> DEFINE left == capture[r].todo - n
               turn == [capture[r] EXCEPT !.todo = left]
    <3>2. capture' = [capture EXCEPT ![r] = turn]
      BY <1>2, <3>1
    <3>3. capture[r].step = "write" /\ capture[r] \in Turn
      BY <1>2, <2>4 DEF RowsInv, WritesFirst, UpsertRows
    <3>4. turn.step = "write"
      <4> HIDE DEF left
      <4> QED BY <3>3 DEF Turn
    <3> HIDE DEF turn
    <3> QED BY <2>2, <3>2, <3>4
  <2>5. ASSUME NEW r \in Sessions, Notify(r) \/ NotifySaved(r) PROVE WritesFirst'
    <3>1. capture[r].step = "save" \/ capture[r].todo = 0
      BY <2>5 DEF Notify, NotifySaved
    <3>2. ~(capture[r].todo > 0) /\ capture[r] \in Turn
      BY <1>2, <3>1 DEF RowsInv, WritesFirst
    <3>3. PICK step, at : capture' = [capture EXCEPT ![r] = [capture[r] EXCEPT !.step = step, !.at = at]]
      <4>1. CASE capture' = [capture EXCEPT ![r].step = "none"]
        <5>1. [capture[r] EXCEPT !.step = "none"] = [capture[r] EXCEPT !.step = "none", !.at = capture[r].at]
          BY <3>2 DEF Turn
        <5> QED BY <1>2, <4>1, <5>1
      <4>2. CASE capture' # [capture EXCEPT ![r].step = "none"]
        <5>1. PICK step, at : capture' = [capture EXCEPT ![r].step = step, ![r].at = at]
          <6>1. CASE NotifySaved(r)
            BY <6>1 DEF NotifySaved
          <6>2. CASE Notify(r)
            <7> DEFINE x == EffectiveThreshold([StateOf(r) EXCEPT !.count = @ + 1])
            <7>1. capture' = [capture EXCEPT ![r].step = "save", ![r].at = x]
              BY <4>2, <6>2 DEF Notify
            <7> HIDE DEF x
            <7> QED BY <7>1
          <6> QED BY <2>5, <6>1, <6>2
        <5>2. capture' = [capture EXCEPT ![r] = [capture[r] EXCEPT !.step = step, !.at = at]]
          BY <1>2, <5>1
        <5> QED BY <5>2
      <4> QED BY <4>1, <4>2
    <3> DEFINE turn == [capture[r] EXCEPT !.step = step, !.at = at]
    <3>4. turn.todo = capture[r].todo
      BY <3>2 DEF Turn
    <3> HIDE DEF turn
    <3> QED BY <2>2, <3>2, <3>3, <3>4 DEF turn
  <2>6. ASSUME NEW r \in Sessions,
               FlushSession(r) \/ IdleFires(r) \/ L1Read(r) \/ L1Mark(r) \/ L1Finish(r) \/ L1Fail(r)
        PROVE  UNCHANGED capture
    BY <2>6 DEF FlushSession, IdleFires, L1Read, L1Mark, L1Finish, L1Fail, Data
  <2>7. ASSUME NEW k \in Keys,
               L2Fires(k) \/ L2Read(k) \/ L2Fail(k) \/ \E how \in {"ok", "failed", "empty"} : L2Finish(k, how)
        PROVE  UNCHANGED capture
    BY <2>7 DEF L2Fires, L2Read, L2Fail, L2Finish, Data
  <2>8. ASSUME NEW stored, L1Extract(stored) PROVE UNCHANGED capture
    BY <2>8 DEF L1Extract
  <2>9. CASE L3End \/ Destroy \/ FlushTimers \/ UNCHANGED vars
    BY <2>1, <2>9 DEF L3End, Destroy, FlushTimers, Data, vars
  <2>10. CASE Restart
    BY <2>10 DEF Restart, WritesFirst, NoTurn
  <2> QED BY <2>1, <2>3, <2>4, <2>5, <2>6, <2>7, <2>8, <2>9, <2>10 DEF Next
<1>4. ASSUME NEW s \in Sessions PROVE RowsWoken(s)'
  <2>0. RowsWoken(s)
    BY <1>4 DEF RowsInv
  <2>1. ASSUME UNCHANGED <<rows, cursor, l1, idle, l1q, capture>>, life' = "up" => life = "up",
               forgot \subseteq forgot'
        PROVE  RowsWoken(s)'
    <3>1. Settled(s)' => Settled(s)
      BY <2>1 DEF Settled, InQueue
    <3> QED BY <2>0, <2>1, <3>1, RowsFrame
  <2>2. CASE UNCHANGED vars
    BY <2>1, <2>2 DEF vars
  <2>3. ASSUME NEW r \in Sessions,
               \/ \E n \in RowsPerCapture : Capture(r, n)
               \/ UpsertRows(r) \/ Notify(r) \/ NotifySaved(r) \/ FlushSession(r) \/ IdleFires(r)
        PROVE  RowsWoken(s)'
    BY <2>3, RowsTurn
  <2>4. ASSUME NEW r \in Sessions, L1Read(r) \/ L1Mark(r) \/ L1Finish(r) \/ L1Fail(r)
        PROVE  RowsWoken(s)'
    BY <2>4, RowsL1
  <2>5. ASSUME NEW stored \in BOOLEAN, L1Extract(stored) PROVE RowsWoken(s)'
    <3>1. /\ UNCHANGED <<rows, cursor, idle, l1q, capture, life, forgot>>
          /\ l1.phase = "read" /\ l1' = [l1 EXCEPT !.phase = "extracted", !.stored = stored]
      BY <2>5 DEF L1Extract, Timers
    <3>2. l1'.session = l1.session /\ l1'.batch = l1.batch /\ l1'.left = l1.left /\ l1'.phase = "extracted"
      BY <1>2, <3>1 DEF Task1
    <3>3. Past(s)' = Past(s) /\ Settled(s)' = Settled(s)
      BY <3>1, PastSame DEF Settled, InQueue
    <3> QED BY <2>0, <3>1, <3>2, <3>3 DEF RowsWoken, LeavesNothing
  <2>6. ASSUME NEW k \in Keys,
               L2Fires(k) \/ L2Read(k) \/ L2Fail(k) \/ \E how \in {"ok", "failed", "empty"} : L2Finish(k, how)
        PROVE  RowsWoken(s)'
    <3>1. UNCHANGED <<rows, cursor, l1, idle, l1q, capture, life>> /\ forgot \subseteq forgot'
      BY <2>6 DEF L2Fires, L2Read, L2Fail, L2Finish, Data, L1Side, Timers
    <3> QED BY <2>1, <3>1
  <2>7. CASE L3End
    BY <2>1, <2>7 DEF L3End, Data, Timers, L1Side
  <2>8. CASE Destroy \/ FlushTimers
    BY <2>8 DEF Destroy, FlushTimers, RowsWoken, Settled
  <2>9. CASE Restart
    <3>1. s \in forgot'
      BY <2>9 DEF Restart
    <3> QED BY <3>1 DEF RowsWoken, Settled
  <2> QED BY <2>2, <2>3, <2>4, <2>5, <2>6, <2>7, <2>8, <2>9 DEF Next
<1> QED BY <1>1, <1>3, <1>4 DEF RowsInv

\* A row past the cursor of a session whose turns are over waits for the
\* session's idle timer or its queued or running L1, unless a known exception
\* has taken the wake-up: an L1 run that ends with "nothing left" has read all.
THEOREM RowsWakeUpCorrect == Spec => []RowsHaveWakeUp
<1>1. Init => RowsInv
  <2>1. ASSUME Init, NEW s \in Sessions PROVE Past(s) = {} /\ l1.session # s /\ ~(capture[s].todo > 0)
    BY <2>1, KeysAssumption DEF Init, Past, NoTask1, NoTurn, Keys
  <2> QED BY <2>1, OrderInit, TypeInit DEF RowsInv, RowsWoken, WritesFirst
<1>2. RowsInv => RowsHaveWakeUp
  BY DEF RowsInv, RowsWoken, Settled, InQueue, RowsHaveWakeUp, L1Queued
<1>3. RowsInv /\ [Next]_vars => RowsInv'
  BY RowsStep
<1> QED BY <1>1, <1>2, <1>3, PTL DEF Spec
=============================================================================
