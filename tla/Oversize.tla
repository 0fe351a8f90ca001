------------------------------- MODULE Oversize -------------------------------
(***************************************************************************)
(* The cut that SkillOversizeStrategy (oversize-strategy.ts) makes in a    *)
(* payload, stated on the sizes of its messages.  OversizeLoop shows that  *)
(* the loops of the code compute it.                                       *)
(***************************************************************************)
EXTENDS Totals, Functions

CONSTANTS
  ChunkMaxBytes,  \* payloads up to this size are left alone
  HeadKeepBytes,  \* budget of the messages kept at the front
  TailKeepBytes   \* budget of the messages kept at the back

ASSUME BudgetsAssumption ==
  ChunkMaxBytes \in Nat /\ HeadKeepBytes \in Nat \ {0} /\ TailKeepBytes \in Nat \ {0}

\* sizes read from the back, without the first n.
FromTheBack(sizes, n) == [i \in 1..(Len(sizes) - n) |-> sizes[Len(sizes) + 1 - i]]

\* How many messages are kept at the front and at the back.
HeadCount(sizes) == Longest(sizes, HeadKeepBytes)
TailCount(sizes) == Longest(FromTheBack(sizes, HeadCount(sizes)), TailKeepBytes)

IsCut(sizes) ==
  /\ Total(sizes, DOMAIN sizes) > ChunkMaxBytes
  /\ HeadCount(sizes) + TailCount(sizes) < Len(sizes)
=============================================================================
