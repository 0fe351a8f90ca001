------------------------- MODULE OversizeLoopProofs -------------------------
(***************************************************************************)
(* CutIsLongest for payloads of any length and any sizes: the loops of     *)
(* applyOversizeStrategy compute the cut that Oversize states.             *)
(***************************************************************************)
EXTENDS OversizeLoop, SequenceProofs, TLAPS

\* A sequence of sizes: no message is empty.
Positive(s) == Len(s) \in Nat /\ DOMAIN s = 1..Len(s) /\ \A j \in 1..Len(s) : s[j] \in Nat \ {0}

\* The messages that the second loop visits, in its order.
Back == FromTheBack(sizes, head)

\* What a loop that has kept n messages of s, of so many bytes, maintains.
Keeping(s, n, bytes, budget) ==
  n \in 0..Len(s) /\ bytes = Total(s, 1..n) /\ Fits(s, n, budget)

\* Head and tail never overlap, and the tail is counted after the head.
TypeInv ==
  /\ Positive(sizes)
  /\ pc \in {"start", "head", "tail", "cut", "done"}
  /\ head \in 0..Len(sizes) /\ tail \in 0..(Len(sizes) - head)
  /\ pc = "head" => tail = 0 /\ tailBytes = 0

\* The index and the sums of the loop that runs.
LoopInv ==
  /\ pc = "start" => head = 0 /\ tail = 0 /\ headBytes = 0 /\ tailBytes = 0 /\ truncated = FALSE
  /\ pc = "head" => i = head + 1 /\ Keeping(sizes, head, headBytes, HeadKeepBytes)
  /\ pc = "tail" => i = Len(sizes) - tail /\ Keeping(Back, tail, tailBytes, TailKeepBytes)

\* What the loops that have ended found.
EndInv ==
  /\ pc \in {"head", "tail", "cut"} => Total(sizes, DOMAIN sizes) > ChunkMaxBytes
  /\ pc \in {"tail", "cut"} => head = HeadCount(sizes)
  /\ pc = "cut" => tail = TailCount(sizes)
  /\ pc = "done" => truncated = IsCut(sizes)

CutInv == TypeInv /\ LoopInv /\ EndInv

\* A prefix that fits is the longest one if it is all, or if its next message
\* does not fit.
LEMMA NoLonger ==
  ASSUME NEW s, Positive(s), NEW n \in 0..Len(s), NEW budget \in Nat, Fits(s, n, budget),
         n < Len(s) => n > 0 /\ Total(s, 1..(n + 1)) > budget
  PROVE  Longest(s, budget) = n
<1>1. ASSUME NEW m \in (n + 1)..Len(s), Fits(s, m, budget)
      PROVE  FALSE
  <2>1. n < Len(s) /\ n > 0 /\ m > 1
    BY <1>1 DEF Positive
  <2>2. m \in Nat /\ 1..(n + 1) \subseteq 1..m /\ 1..m \subseteq 1..Len(s)
    BY DEF Positive
  <2>3. IsFiniteSet(1..m) /\ IsFiniteSet(1..(n + 1))
    BY <2>2, FS_Interval
  <2>4. \A j \in 1..m : s[j] \in Nat
    BY <2>2 DEF Positive
  <2>5. Total(s, 1..(n + 1)) <= Total(s, 1..m)
    BY <2>2, <2>3, <2>4, TotalMonotone
  <2>6. Total(s, 1..m) \in Nat /\ Total(s, 1..(n + 1)) \in Nat
    BY <2>2, <2>3, <2>4, TotalType
  <2>7. Total(s, 1..m) <= budget
    BY <1>1, <2>1 DEF Fits
  <2> QED BY <2>1, <2>5, <2>6, <2>7
<1> QED BY <1>1, LongestUnique DEF Positive

\* The messages from the back are positive, too.
LEMMA BackPositive ==
  ASSUME NEW s, Positive(s), NEW n \in 0..Len(s)
  PROVE  /\ Positive(FromTheBack(s, n))
         /\ Len(FromTheBack(s, n)) = Len(s) - n
         /\ \A j \in 1..(Len(s) - n) : FromTheBack(s, n)[j] = s[Len(s) + 1 - j]
<1> DEFINE f == FromTheBack(s, n)
<1>1. Len(s) - n \in Nat /\ f = [j \in 1..(Len(s) - n) |-> s[Len(s) + 1 - j]]
  BY DEF Positive, FromTheBack
<1>2. ASSUME NEW j \in 1..(Len(s) - n)
      PROVE  s[Len(s) + 1 - j] \in Nat \ {0}
  <2>1. Len(s) + 1 - j \in 1..Len(s)
    BY DEF Positive
  <2> QED BY <2>1 DEF Positive
<1>3. Len(f) = Len(s) - n
  BY <1>1
<1> QED BY <1>1, <1>2, <1>3 DEF Positive

\* One more message is kept: the sum is that of one more.
LEMMA KeepOne ==
  ASSUME NEW s, Positive(s), NEW n \in 0..Len(s), NEW budget \in Nat, NEW bytes,
         Keeping(s, n, bytes, budget), n < Len(s),
         n = 0 \/ bytes + s[n + 1] <= budget
  PROVE  Keeping(s, n + 1, bytes + s[n + 1], budget)
<1>1. n \in Nat /\ n + 1 \in 0..Len(s) /\ \A j \in 1..(n + 1) : s[j] \in Nat
  BY DEF Positive
<1>2. Total(s, 1..(n + 1)) = Total(s, 1..n) + s[n + 1]
  BY <1>1, TotalOfPrefix
<1> QED BY <1>1, <1>2 DEF Keeping, Fits

\* The two exits of a loop: the budget is used up or would be exceeded, or
\* no message is left.
LEMMA LoopEnds ==
  ASSUME NEW s, Positive(s), NEW n \in 0..Len(s), NEW budget \in Nat, NEW bytes,
         Keeping(s, n, bytes, budget),
         n < Len(s) => n > 0 /\ (bytes >= budget \/ bytes + s[n + 1] > budget)
  PROVE  Longest(s, budget) = n
<1>1. ASSUME n < Len(s)
      PROVE  n > 0 /\ Total(s, 1..(n + 1)) > budget
  <2>1. n \in Nat /\ s[n + 1] \in Nat \ {0} /\ \A j \in 1..(n + 1) : s[j] \in Nat
    BY <1>1 DEF Positive
  <2>2. Total(s, 1..(n + 1)) = Total(s, 1..n) + s[n + 1]
    BY <2>1, TotalOfPrefix
  <2>3. bytes = Total(s, 1..n)
    BY DEF Keeping
  <2>4. IsFiniteSet(1..n) /\ \A j \in 1..n : s[j] \in Nat
    BY <2>1, FS_Interval
  <2>5. bytes \in Nat
    BY <2>3, <2>4, TotalType
  <2> QED BY <1>1, <2>1, <2>2, <2>3, <2>5
<1> QED BY <1>1, NoLonger DEF Keeping

\* Before the strategy begins nothing is kept.
LEMMA CutInit == Init => CutInv
<1> SUFFICES ASSUME Init PROVE CutInv
  OBVIOUS
<1>1. PICK n \in 0..MaxMessages : sizes \in [1..n -> 1..MaxSize]
  BY DEF Init
<1>2. n \in Nat /\ MaxSize \in Nat /\ Len(sizes) = n /\ DOMAIN sizes = 1..n
  BY <1>1, BoundsAssumption
<1>3. Positive(sizes)
  BY <1>1, <1>2 DEF Positive
<1> QED BY <1>2, <1>3 DEF Init, CutInv, TypeInv, LoopInv, EndInv

\* A payload within the chunk limit is left alone; a larger one is gone through.
LEMMA CutStart == CutInv /\ Start => CutInv'
<1> SUFFICES ASSUME CutInv, Start PROVE CutInv'
  OBVIOUS
<1>1. Positive(sizes) /\ pc = "start" /\ head = 0 /\ tail = 0 /\ headBytes = 0 /\ tailBytes = 0 /\ truncated = FALSE
  BY DEF CutInv, TypeInv, LoopInv, Start
<1>2. UNCHANGED <<sizes, head, headBytes, tail, tailBytes, truncated>>
  BY DEF Start
<1>3. Total(sizes, DOMAIN sizes) \in Nat
  <2>1. IsFiniteSet(DOMAIN sizes) /\ \A j \in DOMAIN sizes : sizes[j] \in Nat
    BY <1>1, FS_Interval DEF Positive
  <2> QED BY <2>1, TotalType
<1>4. ChunkMaxBytes \in Nat
  BY BudgetsAssumption
<1>5. CASE sizes = <<>> \/ Total(sizes, DOMAIN sizes) <= ChunkMaxBytes
  <2>1. pc' = "done"
    BY <1>5 DEF Start
  <2>2. sizes = <<>> => Total(sizes, DOMAIN sizes) = 0
    BY TotalOfNone
  <2>3. IsCut(sizes) = FALSE
    BY <1>3, <1>4, <1>5, <2>2 DEF IsCut
  <2>4. TypeInv'
    BY <1>1, <1>2, <2>1 DEF TypeInv
  <2>5. LoopInv'
    BY <2>1 DEF LoopInv
  <2>6. EndInv'
    BY <1>1, <1>2, <2>1, <2>3 DEF EndInv
  <2> QED BY <2>4, <2>5, <2>6 DEF CutInv
<1>6. CASE ~(sizes = <<>> \/ Total(sizes, DOMAIN sizes) <= ChunkMaxBytes)
  <2>1. pc' = "head" /\ i' = 1
    BY <1>6 DEF Start
  <2>2. Total(sizes, DOMAIN sizes) > ChunkMaxBytes
    BY <1>3, <1>4, <1>6
  <2>3. Keeping(sizes, 0, 0, HeadKeepBytes)
    <3>1. 1..0 = {}
      OBVIOUS
    <3>2. Total(sizes, 1..0) = 0
      BY <3>1, TotalOfNone
    <3> QED BY <1>1, <3>2 DEF Keeping, Fits, Positive
  <2>4. TypeInv'
    BY <1>1, <1>2, <2>1 DEF TypeInv
  <2>5. LoopInv'
    BY <1>1, <1>2, <2>1, <2>3 DEF LoopInv
  <2>6. EndInv'
    BY <1>2, <2>1, <2>2 DEF EndInv
  <2> QED BY <2>4, <2>5, <2>6 DEF CutInv
<1> QED BY <1>5, <1>6

\* The first loop ends: the second begins with nothing kept.
LEMMA TailBegins ==
  ASSUME CutInv, pc = "head", pc' = "tail", i' = Len(sizes),
         UNCHANGED <<sizes, tail, tailBytes, truncated>>,
         head' \in 0..Len(sizes), head' = HeadCount(sizes)
  PROVE  CutInv'
<1>1. Positive(sizes) /\ tail = 0 /\ tailBytes = 0 /\ Total(sizes, DOMAIN sizes) > ChunkMaxBytes
  BY DEF CutInv, TypeInv, EndInv
<1>2. TypeInv'
  BY <1>1 DEF TypeInv, Positive
<1>3. Back' = FromTheBack(sizes, head')
  BY DEF Back
<1>4. Keeping(FromTheBack(sizes, head'), 0, 0, TailKeepBytes)
  <2>1. 1..0 = {}
    OBVIOUS
  <2>2. Total(FromTheBack(sizes, head'), 1..0) = 0
    BY <2>1, TotalOfNone
  <2>3. Len(FromTheBack(sizes, head')) \in Nat
    BY <1>1, BackPositive DEF Positive
  <2> QED BY <2>2, <2>3 DEF Keeping, Fits
<1>5. LoopInv'
  BY <1>1, <1>3, <1>4 DEF LoopInv, Positive
<1>6. EndInv'
  BY <1>1 DEF EndInv
<1> QED BY <1>2, <1>5, <1>6 DEF CutInv

\* The first loop keeps one more message, or has used up its budget by it.
LEMMA CutHeadStep == CutInv /\ HeadStep => CutInv'
<1> SUFFICES ASSUME CutInv, HeadStep PROVE CutInv'
  OBVIOUS
<1>1. /\ Positive(sizes) /\ pc = "head" /\ head \in 0..Len(sizes) /\ i = head + 1
      /\ tail = 0 /\ tailBytes = 0
      /\ Keeping(sizes, head, headBytes, HeadKeepBytes) /\ Len(sizes) \in Nat
      /\ Total(sizes, DOMAIN sizes) > ChunkMaxBytes
  BY DEF CutInv, TypeInv, LoopInv, EndInv, HeadStep, Positive
<1>2. head < Len(sizes) /\ head + 1 \in 0..Len(sizes)
  BY <1>1 DEF HeadStep
<1>3. head' = head + 1 /\ headBytes' = headBytes + sizes[head + 1] /\ UNCHANGED <<sizes, tail, tailBytes, truncated>>
  BY <1>1 DEF HeadStep
<1>4. HeadKeepBytes \in Nat
  BY BudgetsAssumption
<1>5. Keeping(sizes, head + 1, headBytes + sizes[head + 1], HeadKeepBytes)
  BY <1>1, <1>2, <1>4, KeepOne DEF HeadStep
<1>6. CASE headBytes' >= HeadKeepBytes
  <2>1. pc' = "tail" /\ i' = Len(sizes)
    BY <1>6 DEF HeadStep
  <2>2. Longest(sizes, HeadKeepBytes) = head + 1
    <3>1. head + 1 > 0 /\ headBytes + sizes[head + 1] >= HeadKeepBytes
      BY <1>1, <1>3, <1>6
    <3> QED BY <1>1, <1>2, <1>4, <1>5, <3>1, LoopEnds
  <2> QED BY <1>1, <1>2, <1>3, <2>1, <2>2, TailBegins DEF HeadCount
<1>7. CASE ~(headBytes' >= HeadKeepBytes)
  <2>1. pc' = "head" /\ i' = head + 1 + 1
    BY <1>1, <1>7 DEF HeadStep
  <2>2. TypeInv'
    BY <1>1, <1>2, <1>3, <2>1 DEF TypeInv, Positive
  <2>3. LoopInv'
    BY <1>3, <1>5, <2>1 DEF LoopInv
  <2>4. EndInv'
    BY <1>1, <1>3, <2>1 DEF EndInv
  <2> QED BY <2>2, <2>3, <2>4 DEF CutInv
<1> QED BY <1>6, <1>7

\* The first loop meets a message that exceeds its budget, or the end.
LEMMA CutHeadEnd == CutInv /\ HeadEnd => CutInv'
<1> SUFFICES ASSUME CutInv, HeadEnd PROVE CutInv'
  OBVIOUS
<1>1. /\ Positive(sizes) /\ pc = "head" /\ head \in 0..Len(sizes) /\ i = head + 1
      /\ Keeping(sizes, head, headBytes, HeadKeepBytes) /\ Len(sizes) \in Nat
  BY DEF CutInv, TypeInv, LoopInv, HeadEnd, Positive
<1>2. HeadKeepBytes \in Nat
  BY BudgetsAssumption
<1>3. head < Len(sizes) => head > 0 /\ headBytes + sizes[head + 1] > HeadKeepBytes
  BY <1>1 DEF HeadEnd
<1>4. Longest(sizes, HeadKeepBytes) = head
  BY <1>1, <1>2, <1>3, LoopEnds
<1>5. pc' = "tail" /\ i' = Len(sizes) /\ UNCHANGED <<sizes, head, tail, tailBytes, truncated>>
  BY DEF HeadEnd
<1> QED BY <1>1, <1>4, <1>5, TailBegins DEF HeadCount

\* The second loop, from the back, as the first.
LEMMA CutTailStep == CutInv /\ TailStep => CutInv'
<1> SUFFICES ASSUME CutInv, TailStep PROVE CutInv'
  OBVIOUS
<1>1. /\ Positive(sizes) /\ pc = "tail" /\ head \in 0..Len(sizes) /\ tail \in 0..(Len(sizes) - head)
      /\ i = Len(sizes) - tail /\ Len(sizes) \in Nat
      /\ Keeping(Back, tail, tailBytes, TailKeepBytes)
      /\ Total(sizes, DOMAIN sizes) > ChunkMaxBytes /\ head = HeadCount(sizes)
  BY DEF CutInv, TypeInv, LoopInv, EndInv, TailStep, Positive
<1>2. tail < Len(sizes) - head /\ tail + 1 \in 0..(Len(sizes) - head)
  BY <1>1 DEF TailStep
<1>3. Positive(Back) /\ Len(Back) = Len(sizes) - head /\ Back[tail + 1] = sizes[i]
  <2>1. tail + 1 \in 1..(Len(sizes) - head) /\ Len(sizes) + 1 - (tail + 1) = i
    BY <1>1, <1>2
  <2>2. \A j \in 1..(Len(sizes) - head) : Back[j] = sizes[Len(sizes) + 1 - j]
    BY <1>1, BackPositive DEF Back
  <2>3. Back[tail + 1] = sizes[i]
    BY <2>1, <2>2
  <2> QED BY <1>1, <2>3, BackPositive DEF Back
<1>4. tail' = tail + 1 /\ tailBytes' = tailBytes + Back[tail + 1] /\ UNCHANGED <<sizes, head, truncated>>
  BY <1>3 DEF TailStep
<1>5. TailKeepBytes \in Nat
  BY BudgetsAssumption
<1>6. Keeping(Back, tail + 1, tailBytes + Back[tail + 1], TailKeepBytes)
  BY <1>1, <1>2, <1>3, <1>5, KeepOne DEF TailStep
<1>7. Back' = Back
  BY <1>4 DEF Back
<1>8. CASE tailBytes' >= TailKeepBytes
  <2>1. pc' = "cut"
    BY <1>8 DEF TailStep
  <2>2. Longest(Back, TailKeepBytes) = tail + 1
    <3>1. tail + 1 > 0 /\ tailBytes + Back[tail + 1] >= TailKeepBytes
      BY <1>1, <1>4, <1>8
    <3> QED BY <1>2, <1>3, <1>5, <1>6, <3>1, LoopEnds
  <2>3. tail' = TailCount(sizes)
    BY <1>1, <1>4, <2>2 DEF TailCount, Back
  <2>4. TypeInv'
    BY <1>1, <1>2, <1>4, <2>1 DEF TypeInv
  <2>5. LoopInv'
    BY <2>1 DEF LoopInv
  <2>6. EndInv'
    BY <1>1, <1>4, <2>1, <2>3 DEF EndInv
  <2> QED BY <2>4, <2>5, <2>6 DEF CutInv
<1>9. CASE ~(tailBytes' >= TailKeepBytes)
  <2>1. pc' = "tail" /\ i' = Len(sizes) - (tail + 1)
    BY <1>1, <1>9 DEF TailStep
  <2>2. TypeInv'
    BY <1>1, <1>2, <1>4, <2>1 DEF TypeInv
  <2>3. LoopInv'
    BY <1>4, <1>6, <1>7, <2>1 DEF LoopInv
  <2>4. EndInv'
    BY <1>1, <1>4, <2>1 DEF EndInv
  <2> QED BY <2>2, <2>3, <2>4 DEF CutInv
<1> QED BY <1>8, <1>9

\* The second loop meets a message that exceeds its budget, or the head.
LEMMA CutTailEnd == CutInv /\ TailEnd => CutInv'
<1> SUFFICES ASSUME CutInv, TailEnd PROVE CutInv'
  OBVIOUS
<1>1. /\ Positive(sizes) /\ pc = "tail" /\ head \in 0..Len(sizes) /\ tail \in 0..(Len(sizes) - head)
      /\ i = Len(sizes) - tail /\ Len(sizes) \in Nat
      /\ Keeping(Back, tail, tailBytes, TailKeepBytes)
      /\ Total(sizes, DOMAIN sizes) > ChunkMaxBytes /\ head = HeadCount(sizes)
  BY DEF CutInv, TypeInv, LoopInv, EndInv, TailEnd, Positive
<1>2. Positive(Back) /\ Len(Back) = Len(sizes) - head
  BY <1>1, BackPositive DEF Back
<1>3. ASSUME tail < Len(Back)
      PROVE  tail > 0 /\ tailBytes + Back[tail + 1] > TailKeepBytes
  <2>1. tail + 1 \in 1..(Len(sizes) - head) /\ Len(sizes) + 1 - (tail + 1) = i /\ i > head
    BY <1>1, <1>2, <1>3
  <2>2. \A j \in 1..(Len(sizes) - head) : Back[j] = sizes[Len(sizes) + 1 - j]
    BY <1>1, BackPositive DEF Back
  <2>3. Back[tail + 1] = sizes[i]
    BY <2>1, <2>2
  <2> QED BY <2>1, <2>3 DEF TailEnd
<1>4. TailKeepBytes \in Nat
  BY BudgetsAssumption
<1>5. Longest(Back, TailKeepBytes) = tail
  BY <1>1, <1>2, <1>3, <1>4, LoopEnds
<1>6. pc' = "cut" /\ UNCHANGED <<sizes, i, head, headBytes, tail, tailBytes, truncated>>
  BY DEF TailEnd
<1>7. tail' = TailCount(sizes)
  BY <1>1, <1>5, <1>6 DEF TailCount, Back
<1>8. TypeInv'
  BY <1>1, <1>6 DEF TypeInv
<1>9. LoopInv'
  BY <1>6 DEF LoopInv
<1>10. EndInv'
  BY <1>1, <1>6, <1>7 DEF EndInv
<1> QED BY <1>8, <1>9, <1>10 DEF CutInv

\* The messages between the two are cut, if there are any.
LEMMA CutCut == CutInv /\ Cut => CutInv'
<1> SUFFICES ASSUME CutInv, Cut PROVE CutInv'
  OBVIOUS
<1>1. /\ Positive(sizes) /\ pc = "cut" /\ head \in 0..Len(sizes) /\ tail \in 0..(Len(sizes) - head)
      /\ Total(sizes, DOMAIN sizes) > ChunkMaxBytes /\ head = HeadCount(sizes) /\ tail = TailCount(sizes)
      /\ Len(sizes) \in Nat
  BY DEF CutInv, TypeInv, EndInv, Cut, Positive
<1>2. truncated' = (head + tail # Len(sizes)) /\ pc' = "done" /\ UNCHANGED <<sizes, head, tail>>
  BY DEF Cut
<1>3. (head + tail # Len(sizes)) <=> (head + tail < Len(sizes))
  BY <1>1
<1>7. IsCut(sizes) = (head + tail # Len(sizes))
  BY <1>1, <1>3, Zenon DEF IsCut
<1>4. TypeInv'
  BY <1>1, <1>2 DEF TypeInv
<1>5. LoopInv'
  BY <1>2 DEF LoopInv
<1>6. EndInv'
  BY <1>2, <1>7 DEF EndInv
<1> QED BY <1>4, <1>5, <1>6 DEF CutInv

\* For payloads of any length and any sizes and budgets, applyOversizeStrategy
\* keeps the longest head and, of the rest, the longest tail that the budgets
\* allow, never a message twice, and reports a cut exactly if it made one.
THEOREM CutCorrect == Spec => []CutIsLongest
<1>1. CutInv => CutIsLongest
  <2> SUFFICES ASSUME CutInv PROVE CutIsLongest
    OBVIOUS
  <2>1. Len(sizes) \in Nat /\ head \in 0..Len(sizes) /\ tail \in 0..(Len(sizes) - head)
    BY DEF CutInv, TypeInv, Positive
  <2>2. head + tail <= Len(sizes)
    BY <2>1
  <2> QED BY <2>2 DEF CutInv, EndInv, CutIsLongest
<1>2. CutInv /\ UNCHANGED vars => CutInv'
  BY DEF CutInv, TypeInv, LoopInv, EndInv, vars, Back, Keeping, Positive
<1>3. CutInv /\ [Next]_vars => CutInv'
  BY <1>2, CutStart, CutHeadStep, CutHeadEnd, CutTailStep, CutTailEnd, CutCut DEF Next
<1> QED BY CutInit, <1>1, <1>3, PTL DEF Spec
=============================================================================
