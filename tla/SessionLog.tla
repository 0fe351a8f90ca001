------------------------------ MODULE SessionLog ------------------------------
(***************************************************************************)
(* What the conversation buffer of one session promises its caller.  Every *)
(* accepted round is appended to one log, whole and once; the log is       *)
(* handed to the extraction from its front, in pieces, and only a piece    *)
(* that is too large loses its middle, leaving a placeholder there.        *)
(***************************************************************************)
EXTENDS Naturals, Sequences

CONSTANTS Rounds, Batch, Placeholder

VARIABLES
  archived,  \* handed to the extraction
  pending,   \* accepted, not handed over yet
  unsent     \* the rounds neither accepted nor rejected yet

vars == <<archived, pending, unsent>>

Init == archived = <<>> /\ pending = <<>> /\ unsent = Rounds

WithoutMiddle(msgs, first, last) ==
  SubSeq(msgs, 1, first - 1) \o <<Placeholder>> \o SubSeq(msgs, last + 1, Len(msgs))

\* msgs, or msgs without a part that is neither its first nor its last message.
Deliveries(msgs) ==
  {msgs} \cup {WithoutMiddle(msgs, first, last) : first, last \in 2..(Len(msgs) - 1)}

Take(r) == r \in unsent /\ unsent' = unsent \ {r}

Accept(r) ==
  /\ Take(r)
  /\ pending' = pending \o Batch[r]
  /\ UNCHANGED archived

\* r starts anew after what is pending.
SwitchTopic(r) ==
  /\ Take(r)
  /\ pending # <<>>
  /\ archived' = archived \o pending
  /\ pending' = Batch[r]

AcceptAndDeliver(r) ==
  /\ Take(r)
  /\ \E piece \in Deliveries(pending \o Batch[r]) : archived' = archived \o piece
  /\ pending' = <<>>

Deliver ==
  /\ pending # <<>>
  /\ archived' = archived \o pending
  /\ pending' = <<>>
  /\ UNCHANGED unsent

\* The caller learns that r was not taken.
Reject(r) == Take(r) /\ UNCHANGED <<archived, pending>>

Next ==
  \/ \E r \in Rounds : Accept(r) \/ SwitchTopic(r) \/ AcceptAndDeliver(r) \/ Reject(r)
  \/ Deliver

Spec == Init /\ [][Next]_vars
=============================================================================
