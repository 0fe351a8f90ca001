----------------------------- MODULE OversizeLoop -----------------------------
(***************************************************************************)
(* applyOversizeStrategy (oversize-strategy.ts), one loop iteration per    *)
(* step, for every payload of up to MaxMessages messages of up to MaxSize  *)
(* bytes each.                                                             *)
(***************************************************************************)
EXTENDS Oversize

CONSTANTS MaxMessages, MaxSize

ASSUME BoundsAssumption == MaxMessages \in Nat /\ MaxSize \in Nat

VARIABLES sizes, pc, i, head, headBytes, tail, tailBytes, truncated

vars == <<sizes, pc, i, head, headBytes, tail, tailBytes, truncated>>

Init ==
  /\ sizes \in UNION {[1..n -> 1..MaxSize] : n \in 0..MaxMessages}
  /\ pc = "start" /\ i = 0
  /\ head = 0 /\ headBytes = 0 /\ tail = 0 /\ tailBytes = 0
  /\ truncated = FALSE

\* Empty or small payloads are returned whole.
Start ==
  /\ pc = "start"
  /\ IF sizes = <<>> \/ Total(sizes, DOMAIN sizes) <= ChunkMaxBytes
     THEN pc' = "done" /\ UNCHANGED i
     ELSE pc' = "head" /\ i' = 1
  /\ UNCHANGED <<sizes, head, headBytes, tail, tailBytes, truncated>>

\* Mutant: the budget is compared before the message is added.
HeadStepLate ==
  /\ pc = "head" /\ i <= Len(sizes)
  /\ head = 0 \/ headBytes <= HeadKeepBytes
  /\ head' = head + 1 /\ headBytes' = headBytes + sizes[i] /\ i' = i + 1
  /\ UNCHANGED <<sizes, pc, tail, tailBytes, truncated>>

HeadStep ==
  /\ pc = "head" /\ i <= Len(sizes)
  /\ head = 0 \/ headBytes + sizes[i] <= HeadKeepBytes
  /\ head' = head + 1 /\ headBytes' = headBytes + sizes[i]
  /\ IF headBytes' >= HeadKeepBytes
     THEN pc' = "tail" /\ i' = Len(sizes)
     ELSE i' = i + 1 /\ UNCHANGED pc
  /\ UNCHANGED <<sizes, tail, tailBytes, truncated>>

HeadEnd ==
  /\ pc = "head"
  /\ i <= Len(sizes) => head > 0 /\ headBytes + sizes[i] > HeadKeepBytes
  /\ pc' = "tail" /\ i' = Len(sizes)
  /\ UNCHANGED <<sizes, head, headBytes, tail, tailBytes, truncated>>

TailStep ==
  /\ pc = "tail" /\ i > head
  /\ tail = 0 \/ tailBytes + sizes[i] <= TailKeepBytes
  /\ tail' = tail + 1 /\ tailBytes' = tailBytes + sizes[i]
  /\ IF tailBytes' >= TailKeepBytes
     THEN pc' = "cut" /\ UNCHANGED i
     ELSE i' = i - 1 /\ UNCHANGED pc
  /\ UNCHANGED <<sizes, head, headBytes, truncated>>

TailEnd ==
  /\ pc = "tail"
  /\ i > head => tail > 0 /\ tailBytes + sizes[i] > TailKeepBytes
  /\ pc' = "cut"
  /\ UNCHANGED <<sizes, i, head, headBytes, tail, tailBytes, truncated>>

\* Nothing between head and tail: the payload passes through.
Cut ==
  /\ pc = "cut"
  /\ truncated' = (head + tail # Len(sizes))
  /\ pc' = "done"
  /\ UNCHANGED <<sizes, i, head, headBytes, tail, tailBytes>>

Next == Start \/ HeadStep \/ HeadEnd \/ TailStep \/ TailEnd \/ Cut

Spec == Init /\ [][Next]_vars

\* The loops keep what Oversize says, at every exit of either loop: the
\* greedy accumulation with its early break finds the longest prefix and
\* suffix within their budgets, one message at least, and the two never share
\* a message, so no message is delivered twice.
CutIsLongest ==
  /\ head + tail <= Len(sizes)
  /\ pc \in {"tail", "cut"} => head = HeadCount(sizes)
  /\ pc = "cut" => tail = TailCount(sizes)
  /\ pc = "done" => truncated = IsCut(sizes)
=============================================================================
