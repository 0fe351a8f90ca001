---------------------- MODULE ConversationBufferProofs ----------------------
(***************************************************************************)
(* Theorems about the buffer of a session: the types; that rounds stay     *)
(* whole; and of behaviours in which the handlers take turns, what holds   *)
(* of what was acknowledged, of the counters and of the thresholds, that   *)
(* files which a fault has made disagree are made to agree again, and that *)
(* the handlers implement the log of SessionLog.                           *)
(***************************************************************************)
EXTENDS ConversationBuffer, SequenceProofs, TLAPS

\* A flush archives what it read, without a cut.
OnlyRoundsCut == \A c \in Calls \ Rounds : plan[c].payload \in Texts

TypeInv == TypeOK /\ OnlyRoundsCut

\* Two sequences after one another.
LEMMA Joined ==
  ASSUME NEW S, NEW s \in Seq(S), NEW t \in Seq(S)
  PROVE  /\ s \o t \in Seq(S)
         /\ Len(s \o t) = Len(s) + Len(t)
         /\ Range(s \o t) = Range(s) \cup Range(t)
BY ConcatProperties, RangeConcatenation

\* A text has a natural number of tool calls and of bytes.
LEMMA CountersTyped ==
  ASSUME NEW t \in Texts
  PROVE  ToolCallCount(t) \in Nat /\ ByteCount(t) \in Nat /\ Counters(t) \in CountersType
<1>1. Len(t) \in Nat /\ DOMAIN t = 1..Len(t) /\ \A i \in DOMAIN t : t[i] \in Messages
  BY LenProperties DEF Texts
<1>2. IsFiniteSet(DOMAIN t)
  BY <1>1, FS_Interval
<1>3. ToolCallCount(t) \in Nat
  <2>1. {i \in DOMAIN t : t[i] \in ToolCalls} \subseteq DOMAIN t
    OBVIOUS
  <2>2. IsFiniteSet({i \in DOMAIN t : t[i] \in ToolCalls})
    BY <1>2, <2>1, FS_Subset
  <2> QED BY <2>2, FS_CardinalityType DEF ToolCallCount
<1>4. ByteCount(t) \in Nat
  <2> DEFINE raw == [i \in DOMAIN t |-> RawBytes[t[i]]]
  <2>1. \A i \in DOMAIN t : raw[i] \in Nat
    BY <1>1, SizesAssumption
  <2> HIDE DEF raw
  <2>2. Total(raw, DOMAIN t) \in Nat
    BY <1>2, <2>1, TotalType
  <2> QED BY <2>2 DEF ByteCount, raw
<1> QED BY <1>3, <1>4 DEF Counters, CountersType

\* The sizes of a payload are as many as its messages.
LEMMA SizesLen ==
  ASSUME NEW s \in Texts, NEW t \in Texts
  PROVE  Len(Sizes(s, t)) = Len(s \o t) /\ Len(s \o t) \in Nat
<1>1. Len(s) \in Nat /\ Len(t) \in Nat /\ DOMAIN s = 1..Len(s) /\ DOMAIN t = 1..Len(t)
  BY LenProperties DEF Texts
<1>2. \A i \in 1..Len(s) : s[i] \in Messages
  BY ElementOfSeq DEF Texts
<1>3. \A i \in 1..Len(t) : t[i] \in Messages
  BY ElementOfSeq DEF Texts
<1> DEFINE a == [i \in DOMAIN s |-> RawBytes[s[i]]]
           b == [i \in DOMAIN t |-> CompressedBytes[t[i]]]
<1>4. a \in Seq(Nat) /\ b \in Seq(Nat) /\ Len(a) = Len(s) /\ Len(b) = Len(t)
  BY <1>1, <1>2, <1>3, SizesAssumption
<1> HIDE DEF a, b
<1>7. Len(a \o b) = Len(a) + Len(b)
  BY <1>4, Joined
<1>5. Len(a \o b) = Len(s) + Len(t)
  BY <1>4, <1>7
<1>6. Len(s \o t) = Len(s) + Len(t)
  BY ConcatProperties DEF Texts
<1> QED BY <1>1, <1>5, <1>6 DEF Sizes, a, b

\* The number of messages that a cut keeps at the front and at the back, for
\* a payload that is not empty.
LEMMA CutCounts ==
  ASSUME NEW sizes, Len(sizes) \in Nat
  PROVE  /\ HeadCount(sizes) \in 0..Len(sizes)
         /\ TailCount(sizes) \in 0..(Len(sizes) - HeadCount(sizes))
         /\ Len(sizes) > 0 => HeadCount(sizes) > 0
         /\ HeadCount(sizes) < Len(sizes) => TailCount(sizes) > 0
<1> DEFINE h == HeadCount(sizes)
           back == FromTheBack(sizes, h)
<1>1. h \in 0..Len(sizes) /\ (Len(sizes) > 0 => h > 0)
  BY LongestProperties DEF HeadCount
<1> HIDE DEF h
<1>2. Len(sizes) - h \in Nat /\ back = [i \in 1..(Len(sizes) - h) |-> sizes[Len(sizes) + 1 - i]]
  BY <1>1 DEF FromTheBack
<1>3. Len(back) = Len(sizes) - h
  BY <1>2
<1> HIDE DEF back
<1>4. Longest(back, TailKeepBytes) \in 0..Len(back) /\ (Len(back) > 0 => Longest(back, TailKeepBytes) > 0)
  BY <1>2, <1>3, LongestProperties
<1>5. TailCount(sizes) = Longest(back, TailKeepBytes)
  BY DEF TailCount, back, h
<1> QED BY <1>1, <1>2, <1>3, <1>4, <1>5 DEF h

\* A cut keeps messages and adds the placeholder.
LEMMA OmissionProperties ==
  ASSUME NEW t \in Texts, NEW h \in Nat, NEW k \in Nat, h + k <= Len(t)
  PROVE  /\ Omission(t, h, k) \in Seq(Messages \cup {Placeholder})
         /\ Placeholder \in Range(Omission(t, h, k))
<1>1. Len(t) \in Nat /\ DOMAIN t = 1..Len(t)
  BY LenProperties DEF Texts
<1>2. \A i \in 1..Len(t) : t[i] \in Messages
  BY ElementOfSeq DEF Texts
<1> DEFINE front == SubSeq(t, 1, h)
           back == SubSeq(t, Len(t) - k + 1, Len(t))
           note == <<Placeholder>>
           Both == Messages \cup {Placeholder}
<1>3. front \in Seq(Both)
  <2>1. \A i \in 1..h : t[i] \in Both
    BY <1>1, <1>2
  <2> QED BY <2>1, SubSeqProperties
<1>4. back \in Seq(Both)
  <2>1. Len(t) - k + 1 \in Int /\ Len(t) \in Int
    BY <1>1
  <2>2. \A i \in (Len(t) - k + 1)..Len(t) : t[i] \in Both
    BY <1>1, <1>2
  <2> QED BY <2>1, <2>2, SubSeqProperties
<1>5. note \in Seq(Both) /\ Placeholder \in Range(note)
  BY DEF Range
<1> HIDE DEF front, back, note, Both
<1>6. front \o note \in Seq(Both) /\ Range(front \o note) = Range(front) \cup Range(note)
  BY <1>3, <1>5, Joined
<1> DEFINE first == front \o note
<1>7. first \in Seq(Both) /\ Placeholder \in Range(first)
  BY <1>5, <1>6
<1>8. Omission(t, h, k) = first \o back
  BY DEF Omission, front, back, note
<1> HIDE DEF first
<1>9. first \o back \in Seq(Both) /\ Range(first \o back) = Range(first) \cup Range(back)
  BY <1>4, <1>7, Joined
<1> QED BY <1>7, <1>8, <1>9 DEF Both

\* What a round archives together with what it read.
LEMMA PayloadType ==
  ASSUME TypeOK, NEW r \in Rounds
  PROVE  /\ PreparedPayload(r) \in Seq(Messages \cup {Placeholder})
         /\ \/ PreparedPayload(r) = seen[r].current \o Batch[r]
            \/ Placeholder \in Range(PreparedPayload(r))
<1> DEFINE all == seen[r].current \o Batch[r]
           sizes == Sizes(seen[r].current, Batch[r])
<1>1. seen[r].current \in Texts /\ Batch[r] \in Texts
  BY SessionAssumption DEF TypeOK, Texts, Calls
<1>2. all \in Texts
  BY <1>1, ConcatProperties DEF Texts
<1>3. Len(sizes) = Len(all) /\ Len(all) \in Nat
  BY <1>1, SizesLen
<1> HIDE DEF all, sizes
<1>4. all \in Seq(Messages \cup {Placeholder})
  BY <1>2, SeqMonotonic DEF Texts
<1>5. HeadCount(sizes) \in Nat /\ TailCount(sizes) \in Nat /\ HeadCount(sizes) + TailCount(sizes) <= Len(all)
  BY <1>3, CutCounts
<1>6. /\ Omission(all, HeadCount(sizes), TailCount(sizes)) \in Seq(Messages \cup {Placeholder})
      /\ Placeholder \in Range(Omission(all, HeadCount(sizes), TailCount(sizes)))
  BY <1>2, <1>5, OmissionProperties
<1>7. PreparedPayload(r) = IF UseCompress(r) /\ IsCut(sizes)
                           THEN Omission(all, HeadCount(sizes), TailCount(sizes)) ELSE all
  BY DEF PreparedPayload, all, sizes
<1>8. CASE UseCompress(r) /\ IsCut(sizes)
  BY <1>6, <1>7, <1>8
<1>9. CASE ~(UseCompress(r) /\ IsCut(sizes))
  BY <1>4, <1>7, <1>9 DEF all
<1> QED BY <1>8, <1>9

\* The parts of TypeOK that hold of the handlers' local states.
LEMMA LocalTypes ==
  ASSUME TypeOK, NEW c \in Calls
  PROVE  /\ seen[c].current \in Texts /\ seen[c].meta \in CountersType
         /\ plan[c].payload \in Seq(Messages \cup {Placeholder})
         /\ plan[c].current \in Texts /\ plan[c].meta \in CountersType
         /\ todo[c] \subseteq Files
BY DEF TypeOK

\* The types of what a handler has decided, and of where it stands.
PlanType == [payload : Seq(Messages \cup {Placeholder}), current : Texts, meta : CountersType]
Stages == {"new", "read", "archive", "write", "done", "failed", "dead"}

\* What the assumptions say of a round.
LEMMA BatchType ==
  ASSUME NEW r \in Rounds
  PROVE  Batch[r] \in Texts /\ Batch[r] # <<>> /\ r \in Calls
BY SessionAssumption DEF Texts, Calls

\* The values with which a session begins.
LEMMA EmptyType == <<>> \in Texts /\ ZeroCounters \in CountersType /\ NoPlan \in PlanType
                   /\ NothingSeen \in [current : Texts, meta : CountersType]
<1>1. <<>> \in Texts /\ <<>> \in Seq(Messages \cup {Placeholder})
  BY DEF Texts
<1>2. ZeroCounters \in CountersType
  BY DEF ZeroCounters, CountersType
<1> QED BY <1>1, <1>2 DEF NoPlan, Plan, PlanType, NothingSeen

\* The initial state is typed.
LEMMA TypeInit == Init => TypeInv
<1> SUFFICES ASSUME Init PROVE TypeInv
  OBVIOUS
<1>1. current \in Texts /\ meta \in CountersType
  BY EmptyType DEF Init
<1>2. seen \in [Calls -> [current : Texts, meta : CountersType]]
  BY EmptyType DEF Init
<1>3. plan \in [Calls -> PlanType]
  BY EmptyType DEF Init
<1>4. \A c \in Calls \ Rounds : plan[c].payload \in Texts
  BY EmptyType DEF Init, NoPlan, Plan
<1>5. /\ pc \in [Calls -> {"new", "read", "archive", "write", "done", "failed", "dead"}]
      /\ todo \in [Calls -> SUBSET Files] /\ inFlight \in Calls \cup {NoCall}
      /\ archived \in Seq(Messages \cup {Placeholder}) /\ omitted \subseteq Messages
      /\ faults \in Nat
  BY DEF Init
<1>6. overlapped \in BOOLEAN
  BY DEF Init
<1> QED BY <1>1, <1>2, <1>3, <1>4, <1>5, <1>6 DEF TypeInv, TypeOK, OnlyRoundsCut, PlanType

\* What a round archives, and what it writes back, is typed.
LEMMA RoundPlanTypes ==
  ASSUME TypeOK, NEW r \in Rounds
  PROVE  /\ Plan(seen[r].current, Batch[r], Counters(Batch[r])) \in PlanType
         /\ Plan(PreparedPayload(r), <<>>, ZeroCounters) \in PlanType
         /\ Plan(<<>>, seen[r].current \o Batch[r], NextCounters(r)) \in PlanType
<1>1. r \in Calls /\ Batch[r] \in Texts
  BY BatchType
<1>2. seen[r].current \in Texts /\ seen[r].meta \in CountersType
  BY <1>1, LocalTypes
<1>3. seen[r].current \in Seq(Messages \cup {Placeholder}) /\ <<>> \in Seq(Messages \cup {Placeholder})
  BY <1>2, SeqMonotonic DEF Texts
<1>4. Counters(Batch[r]) \in CountersType /\ ToolCallCount(Batch[r]) \in Nat /\ ByteCount(Batch[r]) \in Nat
  BY <1>1, CountersTyped
<1>5. NextCounters(r) \in CountersType
  BY <1>2, <1>4 DEF NextCounters, CountersType
<1>6. seen[r].current \o Batch[r] \in Texts
  BY <1>1, <1>2, Joined DEF Texts
<1>7. PreparedPayload(r) \in Seq(Messages \cup {Placeholder})
  BY PayloadType
<1>8. Plan(seen[r].current, Batch[r], Counters(Batch[r])) \in PlanType
  BY <1>1, <1>3, <1>4 DEF Plan, PlanType
<1>9. Plan(PreparedPayload(r), <<>>, ZeroCounters) \in PlanType
  BY <1>7, EmptyType DEF Plan, PlanType
<1>10. Plan(<<>>, seen[r].current \o Batch[r], NextCounters(r)) \in PlanType
  BY <1>3, <1>5, <1>6 DEF Plan, PlanType
<1> QED BY <1>8, <1>9, <1>10

\* A decision of a plan that is typed.
LEMMA TypeDecide ==
  ASSUME TypeInv, NEW c \in Calls, NEW p \in PlanType, c \notin Rounds => p.payload \in Texts,
         Decide(c, p), pc' \in [Calls -> Stages], todo' \in [Calls -> SUBSET Files]
  PROVE  TypeInv'
<1>1. /\ plan' = [plan EXCEPT ![c] = p] /\ UNCHANGED <<current, meta, seen, inFlight, archived, omitted, overlapped, faults>>
  BY DEF Decide, Buffer, History
<1>2. plan \in [Calls -> PlanType]
  BY DEF TypeInv, TypeOK, PlanType
<1>3. plan' \in [Calls -> PlanType]
  BY <1>1, <1>2
<1>4. OnlyRoundsCut'
  BY <1>1, <1>2 DEF TypeInv, OnlyRoundsCut
<1>5. TypeOK'
  BY <1>1, <1>3 DEF TypeInv, TypeOK, PlanType, Stages
<1> QED BY <1>4, <1>5 DEF TypeInv

\* Steps that leave the plans alone.
LEMMA TypeLocal ==
  ASSUME TypeInv, pc' \in [Calls -> Stages], todo' \in [Calls -> SUBSET Files],
         inFlight' \in Calls \cup {NoCall}, faults' \in Nat,
         current' \in Texts, meta' \in CountersType, UNCHANGED plan,
         seen' \in [Calls -> [current : Texts, meta : CountersType]],
         archived' \in Seq(Messages \cup {Placeholder}), omitted' \subseteq Messages,
         overlapped' \in BOOLEAN
  PROVE  TypeInv'
BY DEF TypeInv, TypeOK, OnlyRoundsCut, Stages

\* The history that an archive extends.
LEMMA TypeRegister ==
  ASSUME TypeInv, NEW c \in Calls, Register(c)
  PROVE  /\ archived' \in Seq(Messages \cup {Placeholder}) /\ omitted' \subseteq Messages
         /\ overlapped' \in BOOLEAN
<1>0. overlapped' \in BOOLEAN
  BY DEF Register, TypeInv, TypeOK
<1>1. archived' = archived \o plan[c].payload
  BY DEF Register
<1>2. archived \in Seq(Messages \cup {Placeholder}) /\ plan[c].payload \in Seq(Messages \cup {Placeholder})
      /\ seen[c].current \in Texts /\ omitted \subseteq Messages
  BY LocalTypes DEF TypeInv, TypeOK
<1>3. archived' \in Seq(Messages \cup {Placeholder})
  BY <1>1, <1>2, Joined
<1>4. CASE \E i \in DOMAIN plan[c].payload : plan[c].payload[i] = Placeholder
  <2>1. plan[c].payload \notin Texts
    <3>1. SUFFICES ASSUME plan[c].payload \in Texts PROVE FALSE
      OBVIOUS
    <3>2. PICK i \in DOMAIN plan[c].payload : plan[c].payload[i] = Placeholder
      BY <1>4
    <3>3. plan[c].payload[i] \in Messages
      BY <3>1, LenProperties, ElementOfSeq DEF Texts
    <3> QED BY <3>2, <3>3, SessionAssumption
  <2>2. c \in Rounds
    BY <2>1 DEF TypeInv, OnlyRoundsCut
  <2>3. seen[c].current \o Batch[c] \in Seq(Messages)
    BY <1>2, <2>2, BatchType, Joined DEF Texts
  <2>4. Range(seen[c].current \o Batch[c]) \subseteq Messages
    BY <2>3, RangeOfSeq
  <2>5. omitted' = omitted \cup (Range(seen[c].current \o Batch[c]) \ Range(plan[c].payload))
    BY <1>4 DEF Register
  <2> QED BY <1>0, <1>2, <1>3, <2>4, <2>5
<1>5. CASE ~\E i \in DOMAIN plan[c].payload : plan[c].payload[i] = Placeholder
  <2>1. omitted' = omitted
    BY <1>5 DEF Register
  <2> QED BY <1>0, <1>2, <1>3, <2>1
<1> QED BY <1>0, <1>4, <1>5

\* Every step keeps the types.
LEMMA TypeNext == TypeInv /\ [Next]_vars => TypeInv'
<1> SUFFICES ASSUME TypeInv, [Next]_vars PROVE TypeInv'
  OBVIOUS
<1>0. /\ TypeOK /\ pc \in [Calls -> Stages] /\ todo \in [Calls -> SUBSET Files]
      /\ seen \in [Calls -> [current : Texts, meta : CountersType]]
      /\ current \in Texts /\ meta \in CountersType
      /\ inFlight \in Calls \cup {NoCall} /\ faults \in Nat
      /\ archived \in Seq(Messages \cup {Placeholder}) /\ omitted \subseteq Messages
      /\ overlapped \in BOOLEAN
  BY DEF TypeInv, TypeOK, Stages
<1> DEFINE Same == UNCHANGED <<seen, plan>>
           SameHistory == UNCHANGED <<archived, omitted, overlapped>>
           SameBuffer == UNCHANGED <<current, meta>>
<1>1. ASSUME NEW c \in Calls, Call(c)
      PROVE  TypeInv'
  <2>1. Same /\ UNCHANGED <<archived, omitted>> /\ SameBuffer /\ UNCHANGED faults
    BY <1>1 DEF Call, Buffer
  <2>4. overlapped' \in BOOLEAN
    BY <1>1 DEF Call
  <2>2. inFlight' \in Calls \cup {NoCall}
    BY <1>0, <1>1 DEF Call
  <2>3. pc' \in [Calls -> Stages] /\ todo' \in [Calls -> SUBSET Files]
    BY <1>0, <1>1 DEF Call, Stages
  <2> QED BY <1>0, <2>1, <2>2, <2>3, <2>4, TypeLocal
<1>2. ASSUME NEW c \in Calls, ReadCurrent(c)
      PROVE  TypeInv'
  <2>1. UNCHANGED plan /\ SameHistory /\ SameBuffer /\ UNCHANGED <<faults, pc, inFlight>>
    BY <1>2 DEF ReadCurrent, Buffer, History
  <2>2. todo' \in [Calls -> SUBSET Files]
    BY <1>0, <1>2 DEF ReadCurrent
  <2>3. seen' \in [Calls -> [current : Texts, meta : CountersType]]
    BY <1>0, <1>2 DEF ReadCurrent
  <2> QED BY <1>0, <2>1, <2>2, <2>3, TypeLocal
<1>3. ASSUME NEW c \in Calls, ReadMeta(c)
      PROVE  TypeInv'
  <2>1. UNCHANGED plan /\ SameHistory /\ SameBuffer /\ UNCHANGED <<faults, pc, inFlight>>
    BY <1>3 DEF ReadMeta, Buffer, History
  <2>2. todo' \in [Calls -> SUBSET Files]
    BY <1>0, <1>3 DEF ReadMeta
  <2>3. seen' \in [Calls -> [current : Texts, meta : CountersType]]
    BY <1>0, <1>3 DEF ReadMeta
  <2> QED BY <1>0, <2>1, <2>2, <2>3, TypeLocal
<1>4. ASSUME NEW c \in Calls, Archive(c)
      PROVE  TypeInv'
  <2>1. Same /\ SameBuffer /\ UNCHANGED <<faults, inFlight>>
    BY <1>4 DEF Archive, Buffer
  <2>2. pc' \in [Calls -> Stages] /\ todo' \in [Calls -> SUBSET Files]
    BY <1>0, <1>4 DEF Archive, ThenWrite, Stages
  <2>3. archived' \in Seq(Messages \cup {Placeholder}) /\ omitted' \subseteq Messages
        /\ overlapped' \in BOOLEAN
    BY <1>4, TypeRegister DEF Archive
  <2> QED BY <1>0, <2>1, <2>2, <2>3, TypeLocal
<1>5. ASSUME NEW c \in Calls, NEW file \in Files, Wrote(c, file), current' \in Texts, meta' \in CountersType
      PROVE  TypeInv'
  <2>1. Same /\ SameHistory /\ UNCHANGED <<faults, inFlight>>
    BY <1>5 DEF Wrote, History
  <2>2. todo' \in [Calls -> SUBSET Files]
    BY <1>0, <1>5 DEF Wrote
  <2>3. pc' \in [Calls -> Stages]
    BY <1>0, <1>5 DEF Wrote, Stages
  <2> QED BY <1>0, <1>5, <2>1, <2>2, <2>3, TypeLocal
<1>6. ASSUME NEW c \in Calls, WriteCurrent(c) \/ WriteMeta(c)
      PROVE  TypeInv'
  <2>1. current' \in Texts /\ meta' \in CountersType
    BY <1>0, <1>6, LocalTypes DEF WriteCurrent, WriteMeta
  <2>2. \E file \in Files : Wrote(c, file)
    BY <1>6 DEF WriteCurrent, WriteMeta, Files
  <2> QED BY <1>5, <2>1, <2>2
<1>7. ASSUME NEW c \in Calls, Reply(c)
      PROVE  TypeInv'
  BY <1>0, <1>7, TypeLocal DEF Reply, Buffer, History
<1>8. ASSUME NEW c \in Calls, Timeout(c)
      PROVE  TypeInv'
  BY <1>0, <1>8, TypeLocal DEF Timeout, Fault, Buffer, History
<1>9. ASSUME NEW c \in Calls, ReadFails(c) \/ Crash(c)
      PROVE  TypeInv'
  <2>1. Same /\ SameHistory /\ SameBuffer /\ UNCHANGED inFlight /\ faults' \in Nat
    BY <1>0, <1>9 DEF ReadFails, Crash, Fault, Buffer, History
  <2>2. pc' \in [Calls -> Stages] /\ todo' \in [Calls -> SUBSET Files]
    BY <1>0, <1>9 DEF ReadFails, Crash, Stages
  <2> QED BY <1>0, <2>1, <2>2, TypeLocal
<1>10. ASSUME NEW c \in Calls, ArchiveFails(c)
       PROVE  TypeInv'
  <2>1. Same /\ SameBuffer /\ UNCHANGED <<todo, inFlight>> /\ faults' \in Nat
    BY <1>0, <1>10 DEF ArchiveFails, Fault, Buffer
  <2>2. pc' \in [Calls -> Stages]
    BY <1>0, <1>10 DEF ArchiveFails, Stages
  <2>3. archived' \in Seq(Messages \cup {Placeholder}) /\ omitted' \subseteq Messages
        /\ overlapped' \in BOOLEAN
    BY <1>0, <1>10, TypeRegister DEF ArchiveFails, History
  <2> QED BY <1>0, <2>1, <2>2, <2>3, TypeLocal
<1>11. ASSUME NEW c \in Calls, NEW file \in Files, WriteFails(c, file)
       PROVE  TypeInv'
  <2>1. Same /\ SameHistory /\ UNCHANGED inFlight /\ faults' \in Nat
    BY <1>0, <1>11 DEF WriteFails, Fault, History
  <2>2. pc' \in [Calls -> Stages] /\ todo' \in [Calls -> SUBSET Files]
    BY <1>0, <1>11 DEF WriteFails, Stages
  <2>3. current' \in Texts /\ meta' \in CountersType
    BY <1>0, <1>11, LocalTypes DEF WriteFails, Buffer
  <2> QED BY <1>0, <2>1, <2>2, <2>3, TypeLocal
<1>12. ASSUME NEW c \in Calls, ThenArchive(c) \/ ThenWrite(c)
       PROVE  pc' \in [Calls -> Stages] /\ todo' \in [Calls -> SUBSET Files]
  BY <1>0, <1>12 DEF ThenArchive, ThenWrite, Stages
<1>13. ASSUME NEW r \in Rounds, SwitchTopic(r) \/ ArchiveAll(r) \/ KeepBuffering(r)
       PROVE  TypeInv'
  <2>1. PICK p \in PlanType : Decide(r, p)
    BY <1>0, <1>13, RoundPlanTypes DEF SwitchTopic, ArchiveAll, KeepBuffering
  <2>2. r \in Calls
    BY BatchType
  <2>3. pc' \in [Calls -> Stages] /\ todo' \in [Calls -> SUBSET Files]
    BY <1>12, <1>13, <2>2 DEF SwitchTopic, ArchiveAll, KeepBuffering
  <2> QED BY <2>1, <2>2, <2>3, TypeDecide
<1>14. ASSUME NEW f \in Calls, FlushAll(f)
       PROVE  TypeInv'
  <2>1. seen[f].current \in Texts
    BY <1>0, LocalTypes
  <2>2. seen[f].current \in Seq(Messages \cup {Placeholder})
    BY <2>1, SeqMonotonic DEF Texts
  <2>3. Plan(seen[f].current, <<>>, ZeroCounters) \in PlanType
    BY <2>2, EmptyType DEF Plan, PlanType
  <2>4. Plan(seen[f].current, <<>>, ZeroCounters).payload = seen[f].current
    BY DEF Plan
  <2>5. Decide(f, Plan(seen[f].current, <<>>, ZeroCounters)) /\ ThenArchive(f)
    BY <1>14 DEF FlushAll
  <2>6. pc' \in [Calls -> Stages] /\ todo' \in [Calls -> SUBSET Files]
    BY <1>12, <2>5
  <2> QED BY <2>1, <2>3, <2>4, <2>5, <2>6, TypeDecide
<1>15. ASSUME NEW f \in Calls, FlushNothing(f)
       PROVE  TypeInv'
  <2>1. UNCHANGED <<current, meta, seen, inFlight, archived, omitted, overlapped, faults, todo>> /\ plan' = [plan EXCEPT ![f] = plan[f]]
    BY <1>15 DEF FlushNothing, Decide, Buffer, History
  <2>2. plan' = plan
    BY <2>1 DEF TypeInv, TypeOK
  <2>3. pc' \in [Calls -> Stages]
    BY <1>0, <1>15 DEF FlushNothing, Stages
  <2> QED BY <1>0, <2>1, <2>2, <2>3, TypeLocal
<1>16. CASE UNCHANGED vars
  BY <1>16 DEF vars, TypeInv, TypeOK, OnlyRoundsCut
<1>17. CASE Next
  <2>1. Flushes \cup PanelFlushes \subseteq Calls
    BY DEF Calls
  <2> QED
    BY <1>1, <1>2, <1>3, <1>4, <1>6, <1>7, <1>8, <1>9, <1>10, <1>11, <1>13, <1>14, <1>15, <1>17, <2>1 DEF Next
<1> QED BY <1>16, <1>17

\* The buffer files, what the handlers have read and decided, and the archived
\* history are of the types that add-handler.ts gives them, whatever overlaps
\* and whatever fails; and only a round ever cuts what it archives.
THEOREM TypeCorrect == Spec => []TypeOK
<1>1. TypeInv => TypeOK
  BY DEF TypeInv
<1> QED BY TypeInit, TypeNext, <1>1, PTL DEF Spec

-----------------------------------------------------------------------------

\* WholeRounds for one round and one text.
Whole(r, t) ==
  \/ Range(Batch[r]) \cap Range(t) = {}
  \/ \E before, after \in 0..Len(t) :
       /\ before + Len(Batch[r]) + after = Len(t)
       /\ SubSeq(t, before + 1, Len(t) - after) = Batch[r]
       /\ Range(Batch[r]) \cap Range(SubSeq(t, 1, before)) = {}
       /\ Range(Batch[r]) \cap Range(SubSeq(t, Len(t) - after + 1, Len(t))) = {}

\* The same, with the parts before and after the round themselves.
Once(r, t) ==
  \/ Range(Batch[r]) \cap Range(t) = {}
  \/ \E b, a \in Texts :
       /\ t = (b \o Batch[r]) \o a
       /\ Range(Batch[r]) \cap Range(b) = {}
       /\ Range(Batch[r]) \cap Range(a) = {}

\* The second form says what the property says.
LEMMA OnceIsWhole ==
  ASSUME NEW r \in Rounds, NEW t \in Texts, Once(r, t)
  PROVE  Whole(r, t)
<1>1. CASE Range(Batch[r]) \cap Range(t) = {}
  BY <1>1 DEF Whole
<1>2. CASE \E b, a \in Texts :
             /\ t = (b \o Batch[r]) \o a
             /\ Range(Batch[r]) \cap Range(b) = {}
             /\ Range(Batch[r]) \cap Range(a) = {}
  <2>1. PICK b, a \in Texts : /\ t = (b \o Batch[r]) \o a
                              /\ Range(Batch[r]) \cap Range(b) = {}
                              /\ Range(Batch[r]) \cap Range(a) = {}
    BY <1>2
  <2> DEFINE m == Batch[r]
             bm == b \o m
             before == Len(b)
             after == Len(a)
  <2>2. m \in Seq(Messages) /\ b \in Seq(Messages) /\ a \in Seq(Messages) /\ t \in Seq(Messages)
    BY BatchType DEF Texts
  <2>3. Len(m) \in Nat /\ Len(b) \in Nat /\ Len(a) \in Nat /\ Len(t) \in Nat
    BY <2>2, LenProperties
  <2> HIDE DEF m
  <2>4. bm \in Seq(Messages) /\ Len(bm) = Len(b) + Len(m)
    BY <2>2, Joined
  <2>5. \A i \in 1..(Len(b) + Len(m)) : bm[i] = IF i <= Len(b) THEN b[i] ELSE m[i - Len(b)]
    BY <2>2, ConcatProperties
  <2> HIDE DEF bm
  <2>6. t = bm \o a
    BY <2>1 DEF bm, m
  <2>7. Len(t) = Len(bm) + Len(a)
    BY <2>2, <2>4, <2>6, Joined
  <2>8. \A i \in 1..(Len(bm) + Len(a)) : t[i] = IF i <= Len(bm) THEN bm[i] ELSE a[i - Len(bm)]
    BY <2>2, <2>4, <2>6, ConcatProperties
  <2>9. \A i \in 1..Len(b) : t[i] = b[i]
    BY <2>3, <2>4, <2>5, <2>8
  <2>10. \A i \in 1..Len(m) : t[Len(b) + i] = m[i]
    <3>1. SUFFICES ASSUME NEW i \in 1..Len(m) PROVE t[Len(b) + i] = m[i]
      OBVIOUS
    <3>2. t[Len(b) + i] = bm[Len(b) + i]
      BY <2>3, <2>4, <2>8
    <3>3. bm[Len(b) + i] = m[(Len(b) + i) - Len(b)]
      BY <2>3, <2>5
    <3> QED BY <2>3, <3>2, <3>3
  <2>11. \A i \in 1..Len(a) : t[Len(b) + Len(m) + i] = a[i]
    <3>1. SUFFICES ASSUME NEW i \in 1..Len(a) PROVE t[Len(b) + Len(m) + i] = a[i]
      OBVIOUS
    <3>2. t[Len(b) + Len(m) + i] = a[(Len(b) + Len(m) + i) - Len(bm)]
      BY <2>3, <2>4, <2>8
    <3> QED BY <2>3, <2>4, <3>2
  <2>12. before \in 0..Len(t) /\ after \in 0..Len(t) /\ before + Len(m) + after = Len(t)
    BY <2>3, <2>4, <2>7
  <2>13. SubSeq(t, 1, before) = b
    <3>1. \A i \in 1..before : t[i] \in Messages
      BY <2>2, <2>9, ElementOfSeq
    <3>2. /\ SubSeq(t, 1, before) \in Seq(Messages)
          /\ Len(SubSeq(t, 1, before)) = (IF 1 <= before THEN before - 1 + 1 ELSE 0)
          /\ \A i \in 1..(before - 1 + 1) : SubSeq(t, 1, before)[i] = t[1 + i - 1]
      BY <2>3, <3>1, SubSeqProperties
    <3>3. Len(SubSeq(t, 1, before)) = Len(b)
      BY <2>3, <3>2
    <3>4. \A i \in 1..Len(b) : SubSeq(t, 1, before)[i] = b[i]
      BY <2>3, <2>9, <3>2
    <3> QED BY <2>2, <3>2, <3>3, <3>4, SeqEqual
  <2>14. SubSeq(t, before + 1, Len(t) - after) = m
    <3> DEFINE lo == before + 1
               hi == Len(t) - after
               sub == SubSeq(t, lo, hi)
    <3>1. lo \in Int /\ hi \in Int /\ lo = Len(b) + 1 /\ hi = Len(b) + Len(m)
      BY <2>3, <2>4, <2>7
    <3>2. \A i \in lo..hi : t[i] \in Messages
      <4>1. SUFFICES ASSUME NEW i \in lo..hi PROVE t[i] \in Messages
        OBVIOUS
      <4>2. i - Len(b) \in 1..Len(m) /\ Len(b) + (i - Len(b)) = i
        BY <2>3, <3>1
      <4> QED BY <2>2, <2>10, <4>2, ElementOfSeq
    <3> HIDE DEF lo, hi
    <3>3. /\ sub \in Seq(Messages)
          /\ Len(sub) = (IF lo <= hi THEN hi - lo + 1 ELSE 0)
          /\ \A i \in 1..(hi - lo + 1) : sub[i] = t[lo + i - 1]
      BY <3>1, <3>2, SubSeqProperties
    <3> HIDE DEF sub
    <3>4. Len(sub) = Len(m)
      BY <2>3, <3>1, <3>3
    <3>5. ASSUME NEW i \in 1..Len(m)
          PROVE  sub[i] = m[i]
      <4>1. i \in 1..(hi - lo + 1) /\ lo + i - 1 = Len(b) + i
        BY <2>3, <3>1
      <4> QED BY <2>10, <3>3, <4>1
    <3>6. sub = m
      BY <2>2, <3>3, <3>4, <3>5, SeqEqual
    <3> QED BY <3>6 DEF sub, lo, hi
  <2>15. SubSeq(t, Len(t) - after + 1, Len(t)) = a
    <3> DEFINE lo == Len(t) - after + 1
               hi == Len(t)
               sub == SubSeq(t, lo, hi)
    <3>1. lo \in Int /\ hi \in Int /\ lo = Len(b) + Len(m) + 1 /\ hi = Len(b) + Len(m) + Len(a)
      BY <2>3, <2>4, <2>7
    <3>2. \A i \in lo..hi : t[i] \in Messages
      BY <2>2, <2>3, <3>1, ElementOfSeq
    <3> HIDE DEF lo, hi
    <3>3. /\ sub \in Seq(Messages)
          /\ Len(sub) = (IF lo <= hi THEN hi - lo + 1 ELSE 0)
          /\ \A i \in 1..(hi - lo + 1) : sub[i] = t[lo + i - 1]
      BY <3>1, <3>2, SubSeqProperties
    <3> HIDE DEF sub
    <3>4. Len(sub) = Len(a)
      BY <2>3, <3>1, <3>3
    <3>5. ASSUME NEW i \in 1..Len(a)
          PROVE  sub[i] = a[i]
      <4>1. i \in 1..(hi - lo + 1) /\ lo + i - 1 = Len(b) + Len(m) + i
        BY <2>3, <3>1
      <4> QED BY <2>11, <3>3, <4>1
    <3>6. sub = a
      BY <2>2, <3>3, <3>4, <3>5, SeqEqual
    <3> QED BY <3>6 DEF sub, lo, hi
  <2>16. \E x, y \in 0..Len(t) :
           /\ x + Len(m) + y = Len(t)
           /\ SubSeq(t, x + 1, Len(t) - y) = m
           /\ Range(m) \cap Range(SubSeq(t, 1, x)) = {}
           /\ Range(m) \cap Range(SubSeq(t, Len(t) - y + 1, Len(t))) = {}
    BY <2>1, <2>12, <2>13, <2>14, <2>15 DEF m
  <2> QED BY <2>16 DEF Whole, m
<1> QED BY <1>1, <1>2 DEF Once

\* A text that a round was appended to has the other rounds as before, and the
\* round itself once, if it was not there.
LEMMA OnceAppended ==
  ASSUME NEW q \in Rounds, NEW r \in Rounds, NEW t \in Texts, Once(r, t),
         Range(Batch[q]) \cap Range(t) = {}
  PROVE  Once(r, t \o Batch[q])
<1>1. Batch[q] \in Seq(Messages) /\ Batch[r] \in Seq(Messages) /\ t \in Seq(Messages)
  BY BatchType DEF Texts
<1>2. t \o Batch[q] \in Texts /\ Range(t \o Batch[q]) = Range(t) \cup Range(Batch[q])
  BY <1>1, Joined DEF Texts
<1>3. CASE q = r
  <2>1. (t \o Batch[q]) \o <<>> = t \o Batch[q]
    BY <1>2, ConcatEmptySeq DEF Texts
  <2>2. <<>> \in Texts /\ Range(<<>>) = {}
    BY DEF Texts, Range
  <2> QED BY <1>3, <2>1, <2>2 DEF Once
<1>4. CASE q # r
  <2>1. Range(Batch[r]) \cap Range(Batch[q]) = {}
    BY <1>4, OccurrencesAssumption
  <2>2. CASE Range(Batch[r]) \cap Range(t) = {}
    BY <1>2, <2>1, <2>2 DEF Once
  <2>3. CASE ~(Range(Batch[r]) \cap Range(t) = {})
    <3>1. PICK b, a \in Texts : /\ t = (b \o Batch[r]) \o a
                                /\ Range(Batch[r]) \cap Range(b) = {}
                                /\ Range(Batch[r]) \cap Range(a) = {}
      BY <2>3 DEF Once
    <3> DEFINE front == b \o Batch[r]
    <3>2. front \in Seq(Messages) /\ a \in Seq(Messages)
      BY <1>1, Joined DEF Texts
    <3>3. a \o Batch[q] \in Seq(Messages) /\ Range(a \o Batch[q]) = Range(a) \cup Range(Batch[q])
      BY <1>1, <3>2, Joined
    <3> HIDE DEF front
    <3>4. (front \o a) \o Batch[q] = front \o (a \o Batch[q])
      <4> DEFINE n == Batch[q]
      <4>1. n \in Seq(Messages)
        BY <1>1
      <4> HIDE DEF n
      <4>2. (front \o a) \o n = front \o (a \o n)
        BY <3>2, <4>1, ConcatAssociative
      <4> QED BY <4>2 DEF n
    <3>5. t \o Batch[q] = (b \o Batch[r]) \o (a \o Batch[q])
      BY <3>1, <3>4 DEF front
    <3>6. Range(Batch[r]) \cap Range(a \o Batch[q]) = {}
      BY <2>1, <3>1, <3>3
    <3>7. b \in Texts /\ a \o Batch[q] \in Texts
      BY <3>1, <3>3 DEF Texts
    <3> QED BY <3>1, <3>5, <3>6, <3>7 DEF Once
  <2> QED BY <2>2, <2>3
<1> QED BY <1>3, <1>4

\* No message is in the empty text, and a round is in itself once.
LEMMA OnceEmpty == \A r : Once(r, <<>>)
BY DEF Once, Range

\* The texts of the session: the buffer, and those that handlers hold.
\* Every round is in each of them once or not at all, and a round that is not
\* decided yet is in none.
GoodText(t) ==
  /\ \A r \in Rounds : Once(r, t)
  /\ \A r \in Rounds : pc[r] \in {"new", "read"} => Range(Batch[r]) \cap Range(t) = {}

TextsInv ==
  /\ GoodText(current)
  /\ \A c \in Calls : GoodText(seen[c].current) /\ GoodText(plan[c].current)

WholeInv == TypeInv /\ TextsInv

\* At first no text holds a message.
LEMMA WholeInit == Init => WholeInv
<1> SUFFICES ASSUME Init PROVE WholeInv
  OBVIOUS
<1>1. GoodText(<<>>)
  BY OnceEmpty DEF GoodText, Range
<1>2. current = <<>> /\ \A c \in Calls : seen[c].current = <<>> /\ plan[c].current = <<>>
  BY DEF Init, NothingSeen, NoPlan, Plan
<1> QED BY <1>1, <1>2, TypeInit DEF WholeInv, TextsInv

\* A handler only goes on: no round becomes undecided again.
Onward == \A r \in Rounds : pc'[r] \in {"new", "read"} => pc[r] \in {"new", "read"}

\* The texts after a step that brings no new one.
LEMMA WholeKeep ==
  ASSUME WholeInv, Onward, TypeInv',
         current' \in {current} \cup {seen[c].current : c \in Calls} \cup {plan[c].current : c \in Calls},
         \A c \in Calls : seen'[c].current \in {seen[c].current, current},
         \A c \in Calls : plan'[c].current \in {plan[c].current, <<>>, seen[c].current}
  PROVE  WholeInv'
<1> DEFINE Good(t) == /\ \A r \in Rounds : Once(r, t)
                      /\ \A r \in Rounds : pc'[r] \in {"new", "read"} => Range(Batch[r]) \cap Range(t) = {}
<1>1. \A t : GoodText(t) => Good(t)
  BY DEF GoodText, Onward
<1>2. GoodText(<<>>)
  BY OnceEmpty DEF GoodText, Range
<1>3. Good(current') /\ \A c \in Calls : Good(seen'[c].current) /\ Good(plan'[c].current)
  BY <1>1, <1>2 DEF WholeInv, TextsInv
<1>4. TextsInv'
  BY <1>3 DEF TextsInv, GoodText
<1> QED BY <1>4 DEF WholeInv

\* A round is decided: it is in the text that it writes back, or it is not.
LEMMA WholeDecide ==
  ASSUME WholeInv, TypeInv', NEW r \in Rounds, NEW p,
         pc[r] = "read", pc' = [pc EXCEPT ![r] = pc'[r]], pc'[r] \notin {"new", "read"},
         UNCHANGED <<current, seen>>, plan' = [plan EXCEPT ![r] = p],
         p.current \in {<<>>, Batch[r], seen[r].current \o Batch[r]}
  PROVE  WholeInv'
<1>1. r \in Calls /\ Batch[r] \in Texts
  BY BatchType
<1>2. \A q \in Rounds : q \in Calls
  BY BatchType
<1>3. pc \in [Calls -> Stages] /\ plan \in [Calls -> PlanType] /\ seen[r].current \in Texts
  BY <1>1 DEF WholeInv, TypeInv, TypeOK, PlanType, Stages
<1>4. \A c \in Calls \ {r} : pc'[c] = pc[c] /\ plan'[c] = plan[c]
  BY <1>3
<1>5. plan'[r] = p
  BY <1>1, <1>3
<1> DEFINE Good(t) == /\ \A q \in Rounds : Once(q, t)
                      /\ \A q \in Rounds : pc'[q] \in {"new", "read"} => Range(Batch[q]) \cap Range(t) = {}
<1>6. \A t : GoodText(t) => Good(t)
  BY <1>2, <1>4 DEF GoodText
<1>7. Good(<<>>)
  BY OnceEmpty DEF Range
<1>8. ASSUME NEW t \in Texts, GoodText(t)
      PROVE  Good(t \o Batch[r])
  <2>1. Range(Batch[r]) \cap Range(t) = {}
    BY <1>8 DEF GoodText
  <2>2. \A q \in Rounds : Once(q, t \o Batch[r])
    BY <1>8, <2>1, OnceAppended DEF GoodText
  <2>3. Range(t \o Batch[r]) = Range(t) \cup Range(Batch[r])
    BY <1>1, Joined DEF Texts
  <2>4. ASSUME NEW q \in Rounds, pc'[q] \in {"new", "read"}
        PROVE  Range(Batch[q]) \cap Range(t \o Batch[r]) = {}
    <3>1. q # r
      BY <2>4
    <3>2. pc[q] \in {"new", "read"}
      BY <1>2, <1>4, <2>4, <3>1
    <3>3. Range(Batch[q]) \cap Range(Batch[r]) = {}
      BY <3>1, OccurrencesAssumption
    <3> QED BY <1>8, <2>3, <3>2, <3>3 DEF GoodText
  <2> QED BY <2>2, <2>4
<1>9. GoodText(<<>>)
  BY OnceEmpty DEF GoodText, Range
<1>10. Good(Batch[r])
  <2>1. Good(<<>> \o Batch[r])
    BY <1>8, <1>9, EmptyType
  <2>2. <<>> \o Batch[r] = Batch[r]
    BY <1>1, ConcatEmptySeq DEF Texts
  <2> QED BY <2>1, <2>2
<1>11. Good(seen[r].current \o Batch[r])
  BY <1>1, <1>3, <1>8 DEF WholeInv, TextsInv
<1> HIDE DEF Good
<1>12. Good(p.current)
  BY <1>7, <1>10, <1>11
<1>13. Good(current') /\ \A c \in Calls : Good(seen'[c].current)
  BY <1>6 DEF WholeInv, TextsInv
<1>14. ASSUME NEW c \in Calls
       PROVE  Good(plan'[c].current)
  <2>1. CASE c = r
    BY <1>5, <1>12, <2>1
  <2>2. CASE c # r
    BY <1>4, <1>6, <2>2 DEF WholeInv, TextsInv
  <2> QED BY <2>1, <2>2
<1>15. TextsInv'
  BY <1>13, <1>14 DEF TextsInv, GoodText, Good
<1> QED BY <1>15 DEF WholeInv

\* Every step keeps the texts made of whole rounds.
LEMMA WholeNext == WholeInv /\ [Next]_vars => WholeInv'
<1> SUFFICES ASSUME WholeInv, [Next]_vars PROVE WholeInv'
  OBVIOUS
<1>0. /\ TypeInv' /\ pc \in [Calls -> Stages] /\ plan \in [Calls -> PlanType]
      /\ seen \in [Calls -> [current : Texts, meta : CountersType]]
  BY TypeNext DEF WholeInv, TypeInv, TypeOK, Stages, PlanType
<1>a. \A r \in Rounds : r \in Calls
  BY BatchType
<1>1. ASSUME NEW c \in Calls, Call(c)
      PROVE  WholeInv'
  <2>1. UNCHANGED <<current, seen, plan>> /\ pc[c] = "new" /\ pc' = [pc EXCEPT ![c] = "read"]
    BY <1>1 DEF Call, Buffer
  <2>2. Onward
    BY <1>0, <1>a, <2>1 DEF Onward
  <2> QED BY <1>0, <2>1, <2>2, WholeKeep
<1>2. ASSUME NEW c \in Calls, ReadCurrent(c)
      PROVE  WholeInv'
  <2>1. UNCHANGED <<current, pc, plan>> /\ seen' = [seen EXCEPT ![c].current = current]
    BY <1>2 DEF ReadCurrent, Buffer
  <2>2. \A d \in Calls : seen'[d].current \in {seen[d].current, current}
    BY <1>0, <2>1
  <2> QED BY <1>0, <2>1, <2>2, WholeKeep DEF Onward
<1>3. ASSUME NEW c \in Calls, ReadMeta(c)
      PROVE  WholeInv'
  <2>1. UNCHANGED <<current, pc, plan>> /\ seen' = [seen EXCEPT ![c].meta = meta]
    BY <1>3 DEF ReadMeta, Buffer
  <2>2. \A d \in Calls : seen'[d].current \in {seen[d].current, current}
    BY <1>0, <2>1
  <2> QED BY <1>0, <2>1, <2>2, WholeKeep DEF Onward
<1>4. ASSUME NEW c \in Calls, Archive(c)
      PROVE  WholeInv'
  <2>1. UNCHANGED <<current, seen, plan>> /\ pc' = [pc EXCEPT ![c] = "write"]
    BY <1>4 DEF Archive, ThenWrite, Buffer
  <2>2. Onward
    BY <1>0, <1>a, <2>1 DEF Onward
  <2> QED BY <1>0, <2>1, <2>2, WholeKeep
<1>5. ASSUME NEW c \in Calls, NEW file \in Files, Wrote(c, file), current' \in {current, plan[c].current}
      PROVE  WholeInv'
  <2>1. UNCHANGED <<seen, plan>> /\ (pc' = pc \/ pc' = [pc EXCEPT ![c] = "done"])
    BY <1>5 DEF Wrote
  <2>2. Onward
    BY <1>0, <1>a, <2>1 DEF Onward
  <2> QED BY <1>0, <1>5, <2>1, <2>2, WholeKeep
<1>6. ASSUME NEW c \in Calls, WriteCurrent(c) \/ WriteMeta(c)
      PROVE  WholeInv'
  BY <1>5, <1>6 DEF WriteCurrent, WriteMeta, Files
<1>7. ASSUME NEW c \in Calls, Reply(c) \/ Timeout(c)
      PROVE  WholeInv'
  <2>1. UNCHANGED <<current, pc, seen, plan>>
    BY <1>7 DEF Reply, Timeout, Buffer
  <2> QED BY <1>0, <2>1, WholeKeep DEF Onward
<1>8. ASSUME NEW c \in Calls, NEW s, s \notin {"new", "read"}, pc' = [pc EXCEPT ![c] = s],
             UNCHANGED <<seen, plan>>, current' \in {current, plan[c].current}
      PROVE  WholeInv'
  <2>1. Onward
    BY <1>0, <1>8, <1>a DEF Onward
  <2> QED BY <1>0, <1>8, <2>1, WholeKeep
<1>9. ASSUME NEW c \in Calls, ReadFails(c) \/ Crash(c) \/ ArchiveFails(c)
      PROVE  WholeInv'
  <2>1. UNCHANGED <<current, seen, plan>> /\ \E s \in {"failed", "dead"} : pc' = [pc EXCEPT ![c] = s]
    BY <1>9 DEF ReadFails, Crash, ArchiveFails, Buffer
  <2> QED BY <1>8, <2>1
<1>10. ASSUME NEW c \in Calls, NEW file \in Files, WriteFails(c, file)
       PROVE  WholeInv'
  <2>1. /\ UNCHANGED <<seen, plan>> /\ pc' = [pc EXCEPT ![c] = "failed"]
        /\ current' \in {current, plan[c].current}
    BY <1>10 DEF WriteFails, Buffer
  <2> QED BY <1>8, <2>1
<1>15. ASSUME NEW r \in Rounds, NEW x, NEW y, NEW z, Decide(r, Plan(x, y, z)),
              ThenArchive(r) \/ ThenWrite(r), y \in {<<>>, Batch[r], seen[r].current \o Batch[r]}
       PROVE  WholeInv'
  <2>1. Plan(x, y, z).current = y
    BY DEF Plan
  <2>2. pc[r] = "read" /\ plan' = [plan EXCEPT ![r] = Plan(x, y, z)] /\ UNCHANGED <<current, seen>>
    BY <1>15 DEF Decide, Buffer
  <2>3. pc' = [pc EXCEPT ![r] = pc'[r]] /\ pc'[r] \notin {"new", "read"}
    BY <1>0, <1>15, <1>a DEF ThenArchive, ThenWrite
  <2> QED BY <1>0, <1>15, <2>1, <2>2, <2>3, WholeDecide
<1>11. ASSUME NEW r \in Rounds, SwitchTopic(r) \/ ArchiveAll(r) \/ KeepBuffering(r)
       PROVE  WholeInv'
  <2>1. CASE SwitchTopic(r)
    BY <1>15, <2>1 DEF SwitchTopic
  <2>2. CASE ArchiveAll(r)
    BY <1>15, <2>2 DEF ArchiveAll
  <2>3. CASE KeepBuffering(r)
    BY <1>15, <2>3 DEF KeepBuffering
  <2> QED BY <1>11, <2>1, <2>2, <2>3
<1>12. ASSUME NEW f \in Calls, FlushAll(f) \/ FlushNothing(f)
       PROVE  WholeInv'
  <2>1. UNCHANGED <<current, seen>> /\ \E s \in {"archive", "done"} : pc' = [pc EXCEPT ![f] = s]
    BY <1>12 DEF FlushAll, FlushNothing, Decide, ThenArchive, Buffer
  <2>2. Onward
    BY <1>0, <1>a, <2>1 DEF Onward
  <2>3. plan' = [plan EXCEPT ![f] = Plan(seen[f].current, <<>>, ZeroCounters)] \/ plan' = [plan EXCEPT ![f] = plan[f]]
    BY <1>12 DEF FlushAll, FlushNothing, Decide
  <2>4. Plan(seen[f].current, <<>>, ZeroCounters).current = <<>>
    BY DEF Plan
  <2>5. \A d \in Calls : plan'[d].current \in {plan[d].current, <<>>, seen[d].current}
    BY <1>0, <2>3, <2>4
  <2> QED BY <1>0, <2>1, <2>2, <2>5, WholeKeep
<1>13. CASE UNCHANGED vars
  BY <1>0, <1>13, WholeKeep DEF vars, Onward
<1>14. CASE Next
  <2>1. Flushes \cup PanelFlushes \subseteq Calls
    BY DEF Calls
  <2> QED
    BY <1>1, <1>2, <1>3, <1>4, <1>6, <1>7, <1>9, <1>10, <1>11, <1>12, <1>14, <2>1 DEF Next
<1> QED BY <1>13, <1>14

\* A round is in the buffer whole and in order, once, or not at all: whatever
\* handlers overlap and whatever fails, no interleaving of the two reads and
\* the two writes of conversation-add splits a round or buffers it twice.
THEOREM WholeCorrect == Spec => []WholeRounds
<1>1. WholeInv => WholeRounds
  <2> SUFFICES ASSUME WholeInv, NEW r \in Rounds PROVE Whole(r, current)
    BY DEF WholeRounds, Whole
  <2>1. current \in Texts /\ Once(r, current)
    BY DEF WholeInv, TypeInv, TypeOK, TextsInv, GoodText
  <2> QED BY <2>1, OnceIsWhole
<1> QED BY WholeInit, WholeNext, <1>1, PTL DEF Spec

-----------------------------------------------------------------------------

\* Where a message that has left the buffer is safe.
Safe == Range(archived) \cup omitted

\* What is safe, or written back, once call c has archived.
Covered(c) ==
  Range(plan[c].payload) \cup Range(plan[c].current)
    \cup (IF Placeholder \in Range(plan[c].payload) THEN Range(seen[c].current \o Batch[c]) ELSE {})

\* The messages that call c brings.
RoundOf(c) == IF c \in Rounds THEN Range(Batch[c]) ELSE {}

\* Per call, why what it does loses nothing, as long as no other handler works.
KeepOf(c) ==
  /\ pc[c] = "done" => RoundOf(c) \subseteq Range(current) \cup Safe
  /\ pc[c] = "read" /\ "current" \notin todo[c] => seen[c].current = current
  /\ pc[c] = "archive" => Range(current) \cup RoundOf(c) \subseteq Covered(c)
  /\ pc[c] \in {"write", "failed"} /\ "current" \in todo[c] =>
       Range(current) \subseteq Range(plan[c].current) \cup Safe
  /\ pc[c] = "write" =>
       RoundOf(c) \subseteq Safe \cup (IF "current" \in todo[c] THEN Range(plan[c].current) ELSE Range(current))
  /\ pc[c] \in {"new", "archive", "done", "dead"} => todo[c] = {}

KeepInv == TypeInv /\ \A c \in Calls : KeepOf(c)

\* Before the first call there is nothing to lose.
LEMMA KeepInit == Init => KeepInv
<1> SUFFICES ASSUME Init PROVE KeepInv
  OBVIOUS
<1>1. \A c \in Calls : pc[c] = "new" /\ todo[c] = {}
  BY DEF Init
<1>2. \A c \in Calls : KeepOf(c)
  BY <1>1 DEF KeepOf
<1> QED BY <1>2, TypeInit DEF KeepInv

\* A step of one handler that loses nothing, and changes the buffer only when
\* no other handler works.
LEMMA KeepStep ==
  ASSUME KeepInv, TypeInv', NEW c \in Calls,
         \A d \in Calls \ {c} : pc'[d] = pc[d] /\ todo'[d] = todo[d] /\ seen'[d] = seen[d] /\ plan'[d] = plan[d],
         Safe \subseteq Safe',
         Range(current) \subseteq Range(current') \cup Safe',
         current' # current => \A d \in Calls \ {c} : ~Busy(d),
         KeepOf(c)'
  PROVE  KeepInv'
<1>1. ASSUME NEW d \in Calls, d # c
      PROVE  KeepOf(d)'
  <2>1. pc'[d] = pc[d] /\ todo'[d] = todo[d] /\ seen'[d] = seen[d] /\ plan'[d] = plan[d] /\ KeepOf(d)
    BY <1>1 DEF KeepInv
  <2>2. (pc[d] = "done" => RoundOf(d) \subseteq Range(current) \cup Safe)'
    <3>1. pc[d] = "done" => RoundOf(d) \subseteq Range(current) \cup Safe
      BY <2>1 DEF KeepOf
    <3> QED BY <2>1, <3>1 DEF RoundOf
  <2>3. CASE current' = current
    <3>1. (pc[d] = "read" /\ "current" \notin todo[d] => seen[d].current = current)'
      BY <2>1, <2>3 DEF KeepOf
    <3>2. (pc[d] = "archive" => Range(current) \cup RoundOf(d) \subseteq Covered(d))'
      BY <2>1, <2>3 DEF KeepOf, Covered, RoundOf
    <3>3. (pc[d] \in {"write", "failed"} /\ "current" \in todo[d] =>
             Range(current) \subseteq Range(plan[d].current) \cup Safe)'
      BY <2>1, <2>3 DEF KeepOf
    <3>4. (pc[d] = "write" =>
             RoundOf(d) \subseteq Safe \cup (IF "current" \in todo[d] THEN Range(plan[d].current) ELSE Range(current)))'
      BY <2>1, <2>3 DEF KeepOf, RoundOf
    <3>5. (pc[d] \in {"new", "archive", "done", "dead"} => todo[d] = {})'
      BY <2>1 DEF KeepOf
    <3> QED BY <2>2, <3>1, <3>2, <3>3, <3>4, <3>5 DEF KeepOf
  <2>4. CASE current' # current
    <3>1. pc[d] \notin {"read", "archive", "write"} /\ todo[d] = {}
      BY <1>1, <2>4 DEF Busy
    <3> QED BY <2>1, <2>2, <3>1 DEF KeepOf
  <2> QED BY <2>3, <2>4
<1> QED BY <1>1 DEF KeepInv

\* What an archive registers makes all that its call covers safe.
LEMMA Registered ==
  ASSUME TypeInv, NEW c \in Calls, Register(c)
  PROVE  Safe \subseteq Safe' /\ Covered(c) \subseteq Range(plan[c].current) \cup Safe'
<1>1. archived' = archived \o plan[c].payload
  BY DEF Register
<1>2. archived \in Seq(Messages \cup {Placeholder}) /\ plan[c].payload \in Seq(Messages \cup {Placeholder})
  BY LocalTypes DEF TypeInv, TypeOK
<1>3. Range(archived') = Range(archived) \cup Range(plan[c].payload)
  BY <1>1, <1>2, Joined
<1>4. (\E i \in DOMAIN plan[c].payload : plan[c].payload[i] = Placeholder) <=> Placeholder \in Range(plan[c].payload)
  BY DEF Range
<1>5. CASE Placeholder \in Range(plan[c].payload)
  <2>1. omitted' = omitted \cup (Range(seen[c].current \o Batch[c]) \ Range(plan[c].payload))
    BY <1>4, <1>5 DEF Register
  <2> QED BY <1>3, <1>5, <2>1 DEF Safe, Covered
<1>6. CASE Placeholder \notin Range(plan[c].payload)
  <2>1. omitted' = omitted
    BY <1>4, <1>6 DEF Register
  <2> QED BY <1>3, <1>6, <2>1 DEF Safe, Covered
<1> QED BY <1>5, <1>6

\* The fields of a new plan, and what a decision leaves alone.
LEMMA Decided ==
  ASSUME TypeInv, NEW c \in Calls, NEW x, NEW y, NEW z, Decide(c, Plan(x, y, z))
  PROVE  /\ plan'[c].payload = x /\ plan'[c].current = y /\ plan'[c].meta = z
         /\ \A d \in Calls \ {c} : plan'[d] = plan[d]
         /\ pc[c] = "read" /\ todo[c] = {}
         /\ UNCHANGED <<current, meta, seen, inFlight, archived, omitted, faults>>
<1>1. plan \in [Calls -> PlanType]
  BY DEF TypeInv, TypeOK, PlanType
<1>2. plan' = [plan EXCEPT ![c] = Plan(x, y, z)]
  BY DEF Decide
<1>3. plan'[c] = Plan(x, y, z)
  BY <1>1, <1>2
<1>4. plan'[c].payload = x /\ plan'[c].current = y /\ plan'[c].meta = z
  BY <1>3 DEF Plan
<1>5. \A d \in Calls \ {c} : plan'[d] = plan[d]
  BY <1>1, <1>2
<1> QED BY <1>4, <1>5 DEF Decide, Buffer, History

\* A decision to archive covers what was read and the round.
LEMMA KeepArchive ==
  ASSUME KeepInv, TypeInv', NEW c \in Calls, NEW x, NEW y, NEW z,
         Decide(c, Plan(x, y, z)), ThenArchive(c),
         Range(seen[c].current) \cup RoundOf(c) \subseteq
           Range(x) \cup Range(y)
             \cup (IF Placeholder \in Range(x) THEN Range(seen[c].current \o Batch[c]) ELSE {})
  PROVE  KeepInv'
<1>1. TypeInv /\ pc \in [Calls -> Stages]
  BY DEF KeepInv, TypeInv, TypeOK, Stages
<1>2. /\ plan'[c].payload = x /\ plan'[c].current = y
      /\ \A d \in Calls \ {c} : plan'[d] = plan[d]
      /\ pc[c] = "read" /\ todo[c] = {}
      /\ UNCHANGED <<current, seen, archived, omitted>>
  BY <1>1, Decided
<1>3. seen[c].current = current
  BY <1>2 DEF KeepInv, KeepOf
<1>4. pc'[c] = "archive" /\ todo'[c] = {} /\ \A d \in Calls \ {c} : pc'[d] = pc[d] /\ todo'[d] = todo[d]
  BY <1>1, <1>2 DEF ThenArchive
<1>5. (Range(current) \cup RoundOf(c) \subseteq Covered(c))'
  BY <1>2, <1>3 DEF Covered, RoundOf
<1>6. KeepOf(c)'
  BY <1>4, <1>5 DEF KeepOf
<1> QED BY <1>2, <1>4, <1>6, KeepStep DEF Safe

\* A decision to buffer writes back what was read and the round.
LEMMA KeepWrite ==
  ASSUME KeepInv, TypeInv', NEW c \in Rounds, NEW x, NEW z,
         Decide(c, Plan(x, seen[c].current \o Batch[c], z)), ThenWrite(c)
  PROVE  KeepInv'
<1>0. c \in Calls /\ Batch[c] \in Texts
  BY BatchType
<1>1. TypeInv /\ pc \in [Calls -> Stages] /\ todo \in [Calls -> SUBSET Files]
  BY DEF KeepInv, TypeInv, TypeOK, Stages
<1>2. /\ plan'[c].current = seen[c].current \o Batch[c]
      /\ \A d \in Calls \ {c} : plan'[d] = plan[d]
      /\ pc[c] = "read" /\ todo[c] = {}
      /\ UNCHANGED <<current, seen, archived, omitted>>
  <2> DEFINE y == seen[c].current \o Batch[c]
  <2>1. Decide(c, Plan(x, y, z))
    OBVIOUS
  <2> HIDE DEF y
  <2>2. /\ plan'[c].current = y
        /\ \A d \in Calls \ {c} : plan'[d] = plan[d]
        /\ pc[c] = "read" /\ todo[c] = {}
        /\ UNCHANGED <<current, seen, archived, omitted>>
    BY <1>0, <1>1, <2>1, Decided
  <2> QED BY <2>2 DEF y
<1>3. seen[c].current = current /\ seen[c].current \in Texts
  BY <1>0, <1>1, <1>2, LocalTypes DEF KeepInv, KeepOf, TypeInv
<1>4. pc'[c] = "write" /\ todo'[c] = Files /\ \A d \in Calls \ {c} : pc'[d] = pc[d] /\ todo'[d] = todo[d]
  BY <1>0, <1>1 DEF ThenWrite
<1>5. Range(seen[c].current \o Batch[c]) = Range(seen[c].current) \cup Range(Batch[c])
  BY <1>0, <1>3, Joined DEF Texts
<1>6. Range(current') \subseteq Range(plan'[c].current) /\ RoundOf(c) \subseteq Range(plan'[c].current)
  BY <1>2, <1>3, <1>5 DEF RoundOf
<1>7. KeepOf(c)'
  BY <1>4, <1>6 DEF KeepOf, Files, RoundOf
<1> QED BY <1>0, <1>2, <1>4, <1>7, KeepStep DEF Safe

\* The three ways in which a round is handled.
LEMMA KeepRound ==
  ASSUME KeepInv, TypeInv', NEW r \in Rounds, SwitchTopic(r) \/ ArchiveAll(r) \/ KeepBuffering(r)
  PROVE  KeepInv'
<1>0. r \in Calls /\ Batch[r] \in Texts /\ TypeOK
  BY BatchType DEF KeepInv, TypeInv
<1>1. seen[r].current \in Texts
  BY <1>0, LocalTypes
<1>2. Range(seen[r].current \o Batch[r]) = Range(seen[r].current) \cup Range(Batch[r])
  BY <1>0, <1>1, Joined DEF Texts
<1>3. CASE SwitchTopic(r)
  <2>1. Range(seen[r].current) \cup RoundOf(r) \subseteq Range(seen[r].current) \cup Range(Batch[r])
    BY DEF RoundOf
  <2>2. Decide(r, Plan(seen[r].current, Batch[r], Counters(Batch[r]))) /\ ThenArchive(r)
    BY <1>3 DEF SwitchTopic
  <2> QED BY <1>0, <2>1, <2>2, KeepArchive
<1>4. CASE ArchiveAll(r)
  <2>1. Decide(r, Plan(PreparedPayload(r), <<>>, ZeroCounters)) /\ ThenArchive(r)
    BY <1>4 DEF ArchiveAll
  <2>2. \/ PreparedPayload(r) = seen[r].current \o Batch[r]
        \/ Placeholder \in Range(PreparedPayload(r))
    BY <1>0, PayloadType
  <2>3. Range(seen[r].current) \cup RoundOf(r) \subseteq
           Range(PreparedPayload(r)) \cup Range(<<>>)
             \cup (IF Placeholder \in Range(PreparedPayload(r)) THEN Range(seen[r].current \o Batch[r]) ELSE {})
    BY <1>2, <2>2 DEF RoundOf
  <2> QED BY <1>0, <2>1, <2>3, KeepArchive
<1>5. CASE KeepBuffering(r)
  BY <1>5, KeepWrite DEF KeepBuffering
<1> QED BY <1>3, <1>4, <1>5

\* A step taken while at most one handler works loses nothing.
LEMMA KeepNext == KeepInv /\ SessionSerial /\ [Next]_vars => KeepInv'
<1> SUFFICES ASSUME KeepInv, SessionSerial, [Next]_vars PROVE KeepInv'
  OBVIOUS
<1>0. /\ TypeInv /\ TypeInv' /\ pc \in [Calls -> Stages] /\ plan \in [Calls -> PlanType]
      /\ todo \in [Calls -> SUBSET Files]
      /\ seen \in [Calls -> [current : Texts, meta : CountersType]]
      /\ \A c \in Calls : KeepOf(c)
  BY TypeNext DEF KeepInv, TypeInv, TypeOK, Stages, PlanType
<1>1. ASSUME NEW c \in Calls, Call(c)
      PROVE  KeepInv'
  <2>1. UNCHANGED <<current, seen, plan, archived, omitted>>
    BY <1>1 DEF Call, Buffer, History
  <2>2. /\ pc'[c] = "read" /\ todo'[c] = Files
        /\ \A d \in Calls \ {c} : pc'[d] = pc[d] /\ todo'[d] = todo[d]
    BY <1>0, <1>1 DEF Call
  <2>3. KeepOf(c)'
    BY <2>2 DEF KeepOf, Files
  <2> QED BY <1>0, <2>1, <2>2, <2>3, KeepStep DEF Safe
<1>2. ASSUME NEW c \in Calls, ReadCurrent(c) \/ ReadMeta(c)
      PROVE  KeepInv'
  <2>1. UNCHANGED <<current, pc, plan, archived, omitted>> /\ pc[c] = "read"
    BY <1>2 DEF ReadCurrent, ReadMeta, Buffer, History
  <2>2. \A d \in Calls \ {c} : seen'[d] = seen[d] /\ todo'[d] = todo[d]
    BY <1>0, <1>2 DEF ReadCurrent, ReadMeta
  <2>3. "current" \notin todo'[c] => seen'[c].current = current
    <3>1. CASE ReadCurrent(c)
      <4>1. seen' = [seen EXCEPT ![c].current = current]
        BY <3>1 DEF ReadCurrent
      <4> QED BY <1>0, <4>1
    <3>2. CASE ReadMeta(c)
      <4>1. seen' = [seen EXCEPT ![c].meta = meta] /\ todo' = [todo EXCEPT ![c] = @ \ {"meta"}]
        BY <3>2 DEF ReadMeta
      <4>2. seen'[c].current = seen[c].current /\ ("current" \in todo'[c] <=> "current" \in todo[c])
        BY <1>0, <4>1
      <4> QED BY <1>0, <2>1, <4>2 DEF KeepOf
    <3> QED BY <1>2, <3>1, <3>2
  <2>4. KeepOf(c)'
    BY <2>1, <2>3 DEF KeepOf
  <2> QED BY <1>0, <2>1, <2>2, <2>4, KeepStep DEF Safe
<1>3. ASSUME NEW c \in Calls, Archive(c)
      PROVE  KeepInv'
  <2>1. UNCHANGED <<current, seen, plan>> /\ pc[c] = "archive" /\ Register(c)
    BY <1>3 DEF Archive, Buffer
  <2>2. /\ pc'[c] = "write" /\ todo'[c] = Files
        /\ \A d \in Calls \ {c} : pc'[d] = pc[d] /\ todo'[d] = todo[d]
    BY <1>0, <1>3 DEF Archive, ThenWrite
  <2>3. Safe \subseteq Safe' /\ Covered(c) \subseteq Range(plan[c].current) \cup Safe'
    BY <1>0, <2>1, Registered
  <2>4. Range(current) \cup RoundOf(c) \subseteq Covered(c)
    BY <1>0, <2>1 DEF KeepOf
  <2>5. Range(current') \cup RoundOf(c) \subseteq Range(plan'[c].current) \cup Safe'
    BY <2>1, <2>3, <2>4
  <2>6. KeepOf(c)'
    BY <2>2, <2>5 DEF KeepOf, Files, RoundOf
  <2> QED BY <1>0, <2>1, <2>2, <2>3, <2>6, KeepStep
<1>4. ASSUME NEW c \in Calls, Writing(c, "current"), current' = plan[c].current,
             UNCHANGED <<seen, plan, archived, omitted>>, todo' = [todo EXCEPT ![c] = @ \ {"current"}],
             \/ pc' = [pc EXCEPT ![c] = "failed"]
             \/ pc' = pc
             \/ pc[c] = "write" /\ pc' = [pc EXCEPT ![c] = "done"] /\ todo[c] = {"current"}
      PROVE  KeepInv'
  <2>1. /\ \A d \in Calls \ {c} : pc'[d] = pc[d] /\ todo'[d] = todo[d]
        /\ "current" \notin todo'[c]
        /\ pc[c] \in {"write", "failed"} /\ "current" \in todo[c]
    BY <1>0, <1>4 DEF Writing
  <2>2. Range(current) \subseteq Range(current') \cup Safe /\ Safe' = Safe
    BY <1>0, <1>4, <2>1 DEF KeepOf, Safe
  <2>3. \A d \in Calls \ {c} : ~Busy(d)
    BY <2>1 DEF SessionSerial, Busy
  <2>4. pc[c] = "write" => RoundOf(c) \subseteq Safe' \cup Range(current')
    BY <1>0, <1>4, <2>1, <2>2 DEF KeepOf
  <2>5. pc'[c] \in {"failed", "write"} \/ (pc[c] = "write" /\ pc'[c] = "done" /\ todo'[c] = {})
    BY <1>0, <1>4, <2>1
  <2>6. pc'[c] \in {"write", "done"} => pc[c] = "write"
    BY <1>0, <1>4, <2>1
  <2>7. KeepOf(c)'
    BY <2>1, <2>4, <2>5, <2>6 DEF KeepOf, RoundOf
  <2> QED BY <1>0, <1>4, <2>1, <2>2, <2>3, <2>7, KeepStep
<1>5. ASSUME NEW c \in Calls, NEW file \in Files, Writing(c, file), UNCHANGED current,
             UNCHANGED <<seen, plan, archived, omitted>>, todo' = [todo EXCEPT ![c] = @ \ {file}],
             \/ pc' = [pc EXCEPT ![c] = "failed"]
             \/ file = "meta" /\ pc' = pc
             \/ file = "meta" /\ pc[c] = "write" /\ pc' = [pc EXCEPT ![c] = "done"] /\ todo[c] = {file}
      PROVE  KeepInv'
  <2>1. /\ \A d \in Calls \ {c} : pc'[d] = pc[d] /\ todo'[d] = todo[d]
        /\ todo'[c] = todo[c] \ {file}
        /\ pc[c] \in {"write", "failed"}
    BY <1>0, <1>5 DEF Writing
  <2>2. Safe' = Safe /\ Range(current) \subseteq Range(current') \cup Safe'
    BY <1>5 DEF Safe
  <2>3. \/ pc'[c] = "failed"
        \/ file = "meta" /\ pc'[c] = pc[c]
        \/ file = "meta" /\ pc[c] = "write" /\ pc'[c] = "done" /\ todo'[c] = {} /\ "current" \notin todo[c]
    BY <1>0, <1>5, <2>1
  <2>4. (pc[c] = "done" => RoundOf(c) \subseteq Range(current) \cup Safe)'
    BY <1>0, <1>5, <2>1, <2>2, <2>3 DEF KeepOf, RoundOf
  <2>5. (pc[c] \in {"write", "failed"} /\ "current" \in todo[c] => Range(current) \subseteq Range(plan[c].current) \cup Safe)'
    BY <1>0, <1>5, <2>1, <2>2 DEF KeepOf
  <2>6. (pc[c] = "write" =>
           RoundOf(c) \subseteq Safe \cup (IF "current" \in todo[c] THEN Range(plan[c].current) ELSE Range(current)))'
    BY <1>0, <1>5, <2>1, <2>2, <2>3 DEF KeepOf, RoundOf
  <2>7. KeepOf(c)'
    BY <2>1, <2>3, <2>4, <2>5, <2>6 DEF KeepOf
  <2> QED BY <1>0, <1>5, <2>1, <2>2, <2>7, KeepStep
<1>6. ASSUME NEW c \in Calls, WriteCurrent(c)
      PROVE  KeepInv'
  <2>1. Writing(c, "current") /\ current' = plan[c].current /\ Wrote(c, "current")
    BY <1>6 DEF WriteCurrent
  <2>2. /\ UNCHANGED <<seen, plan, archived, omitted>> /\ todo' = [todo EXCEPT ![c] = @ \ {"current"}]
        /\ \/ pc' = pc
           \/ pc[c] = "write" /\ pc' = [pc EXCEPT ![c] = "done"] /\ todo[c] = {"current"}
    BY <2>1 DEF Wrote, History
  <2> QED BY <1>4, <2>1, <2>2
<1>7. ASSUME NEW c \in Calls, WriteMeta(c)
      PROVE  KeepInv'
  <2>1. Writing(c, "meta") /\ UNCHANGED current /\ Wrote(c, "meta") /\ "meta" \in Files
    BY <1>7 DEF WriteMeta, Files
  <2>2. /\ UNCHANGED <<seen, plan, archived, omitted>> /\ todo' = [todo EXCEPT ![c] = @ \ {"meta"}]
        /\ \/ pc' = pc
           \/ pc[c] = "write" /\ pc' = [pc EXCEPT ![c] = "done"] /\ todo[c] = {"meta"}
    BY <2>1 DEF Wrote, History
  <2> QED BY <1>5, <2>1, <2>2
<1>8. ASSUME NEW c \in Calls, NEW file \in Files, WriteFails(c, file)
      PROVE  KeepInv'
  <2>1. /\ Writing(c, file) /\ UNCHANGED <<seen, plan, archived, omitted>>
        /\ todo' = [todo EXCEPT ![c] = @ \ {file}] /\ pc' = [pc EXCEPT ![c] = "failed"]
    BY <1>8 DEF WriteFails, History
  <2>2. UNCHANGED current \/ (file = "current" /\ current' = plan[c].current)
    BY <1>8 DEF WriteFails, Buffer
  <2>3. CASE UNCHANGED current
    BY <1>5, <2>1, <2>3
  <2>4. CASE file = "current" /\ current' = plan[c].current
    BY <1>4, <2>1, <2>4
  <2> QED BY <2>2, <2>3, <2>4
<1>9. ASSUME NEW c \in Calls, Reply(c) \/ Timeout(c)
      PROVE  KeepInv'
  <2>1. UNCHANGED <<current, pc, todo, seen, plan, archived, omitted>>
    BY <1>9 DEF Reply, Timeout, Buffer, History
  <2>2. KeepOf(c)'
    BY <1>0, <2>1 DEF KeepOf, Covered, RoundOf, Safe
  <2> QED BY <1>0, <2>1, <2>2, KeepStep DEF Safe
<1>10. ASSUME NEW c \in Calls, ReadFails(c) \/ Crash(c)
       PROVE  KeepInv'
  <2>1. UNCHANGED <<current, seen, plan, archived, omitted>>
    BY <1>10 DEF ReadFails, Crash, Buffer, History
  <2>2. /\ todo'[c] = {} /\ pc'[c] \in {"failed", "dead"}
        /\ \A d \in Calls \ {c} : pc'[d] = pc[d] /\ todo'[d] = todo[d]
    BY <1>0, <1>10 DEF ReadFails, Crash
  <2>3. KeepOf(c)'
    BY <2>2 DEF KeepOf
  <2> QED BY <1>0, <2>1, <2>2, <2>3, KeepStep DEF Safe
<1>11. ASSUME NEW c \in Calls, ArchiveFails(c)
       PROVE  KeepInv'
  <2>1. UNCHANGED <<current, seen, plan, todo>> /\ pc[c] = "archive"
    BY <1>11 DEF ArchiveFails, Buffer
  <2>2. /\ todo'[c] = {} /\ pc'[c] = "failed"
        /\ \A d \in Calls \ {c} : pc'[d] = pc[d]
    BY <1>0, <1>11, <2>1 DEF ArchiveFails, KeepOf
  <2>3. Safe \subseteq Safe'
    BY <1>0, <1>11, Registered DEF ArchiveFails, History, Safe
  <2>4. KeepOf(c)'
    BY <2>2 DEF KeepOf
  <2> QED BY <1>0, <2>1, <2>2, <2>3, <2>4, KeepStep
<1>12. ASSUME NEW f \in Flushes \cup PanelFlushes, FlushAll(f)
       PROVE  KeepInv'
  <2>1. f \in Calls /\ f \notin Rounds
    BY SessionAssumption DEF Calls
  <2>2. RoundOf(f) = {}
    BY <2>1 DEF RoundOf
  <2>3. Decide(f, Plan(seen[f].current, <<>>, ZeroCounters)) /\ ThenArchive(f)
    BY <1>12 DEF FlushAll
  <2> QED BY <1>0, <2>1, <2>2, <2>3, KeepArchive
<1>13. ASSUME NEW f \in Flushes \cup PanelFlushes, FlushNothing(f)
       PROVE  KeepInv'
  <2>1. f \in Calls /\ f \notin Rounds
    BY SessionAssumption DEF Calls
  <2>2. UNCHANGED <<current, seen, archived, omitted, todo>> /\ plan' = [plan EXCEPT ![f] = plan[f]] /\ todo[f] = {}
    BY <1>13 DEF FlushNothing, Decide, Buffer, History
  <2>3. plan' = plan
    BY <1>0, <2>2
  <2>4. pc'[f] = "done" /\ \A d \in Calls \ {f} : pc'[d] = pc[d]
    BY <1>0, <1>13, <2>1 DEF FlushNothing
  <2>5. KeepOf(f)'
    BY <2>1, <2>2, <2>4 DEF KeepOf, RoundOf
  <2> QED BY <1>0, <2>1, <2>2, <2>3, <2>4, <2>5, KeepStep DEF Safe
<1>14. CASE UNCHANGED vars
  BY <1>0, <1>14 DEF vars, KeepInv, KeepOf, Covered, RoundOf, Safe
<1>15. CASE Next
  <2>1. Flushes \cup PanelFlushes \subseteq Calls
    BY DEF Calls
  <2> QED
    BY <1>0, <1>1, <1>2, <1>3, <1>6, <1>7, <1>8, <1>9, <1>10, <1>11, <1>12, <1>13, <1>15, <2>1, KeepRound DEF Next
<1> QED BY <1>14, <1>15

\* As long as the handlers of a session take turns, every message of a round
\* that was acknowledged is in the buffer, in an archive or, cut, named by a
\* placeholder: whatever fails in between, the archive before the buffer is
\* cleared, the order in add-handler.ts, loses none.
THEOREM SurviveCorrect == Spec => SerialSurvive
<1>1. KeepInv => AckedSurvive
  <2> SUFFICES ASSUME KeepInv, NEW r \in Rounds, pc[r] = "done"
               PROVE  Range(Batch[r]) \subseteq Range(current) \cup Range(archived) \cup omitted
    BY DEF AckedSurvive
  <2>1. r \in Calls
    BY BatchType
  <2> QED BY <2>1 DEF KeepInv, KeepOf, RoundOf, Safe
<1> QED BY KeepInit, KeepNext, <1>1, PTL DEF Spec, SerialSurvive

-----------------------------------------------------------------------------

\* The domains of the two functions that the steps below update.
Shape ==
  /\ pc = [c \in Calls |-> pc[c]]
  /\ todo = [c \in Calls |-> todo[c]]

\* A handler that neither reads nor writes has no file left to access.
NoFiles == {"new", "archive", "done", "failed", "dead"}

IdleHasNothingToDo == \A c \in Calls : pc[c] \in NoFiles => todo[c] = {}

IdleInv == Shape /\ IdleHasNothingToDo

\* Handlers take turns, and the one whose turn it is over does nothing.
SerialInv == IdleInv /\ SessionSerial

\* Before the first call nothing is at work.
LEMMA SerialInit == Init => SerialInv
BY DEF Init, SerialInv, IdleInv, Shape, IdleHasNothingToDo, NoFiles, SessionSerial, Busy

\* Steps of one handler.
LEMMA HandlerStep ==
  ASSUME IdleInv, NEW c \in Calls,
         pc' = [pc EXCEPT ![c] = pc'[c]],
         todo' = [todo EXCEPT ![c] = todo'[c]],
         pc'[c] \in NoFiles => todo'[c] = {}
  PROVE  IdleInv'
<1>1. Shape'
  BY DEF IdleInv, Shape
<1>2. ASSUME NEW d \in Calls, d # c
      PROVE  pc'[d] = pc[d] /\ todo'[d] = todo[d]
  BY <1>2 DEF IdleInv, Shape
<1>3. IdleHasNothingToDo'
  BY <1>2 DEF IdleInv, IdleHasNothingToDo
<1> QED
  BY <1>1, <1>3 DEF IdleInv

\* Steps that do not touch the handlers.
LEMMA OtherStep ==
  ASSUME IdleInv, UNCHANGED <<pc, todo>>
  PROVE  IdleInv'
BY DEF IdleInv, Shape, IdleHasNothingToDo

\* Without a failing write no handler leaves a late one behind.
LEMMA IdleNext ==
  ASSUME "write" \notin FaultKinds, IdleInv, [Next]_vars
  PROVE  IdleInv'
<1> USE DEF Shape, NoFiles
<1>0. IdleHasNothingToDo /\ Shape
  BY DEF IdleInv
<1>1. ASSUME NEW c \in Calls, Call(c)
      PROVE  IdleInv'
  <2>1. pc' = [pc EXCEPT ![c] = "read"] /\ todo' = [todo EXCEPT ![c] = Files]
    BY <1>1 DEF Call
  <2>2. pc' = [pc EXCEPT ![c] = pc'[c]] /\ todo' = [todo EXCEPT ![c] = todo'[c]] /\ pc'[c] = "read"
    BY <1>0, <2>1
  <2> QED
    BY <2>2, HandlerStep
<1>2. ASSUME NEW c \in Calls, ReadCurrent(c) \/ ReadMeta(c)
      PROVE  IdleInv'
  <2>1. UNCHANGED pc /\ pc[c] = "read"
    BY <1>2 DEF ReadCurrent, ReadMeta
  <2>2. todo' = [todo EXCEPT ![c] = todo'[c]]
    BY <1>0, <1>2 DEF ReadCurrent, ReadMeta
  <2>3. pc' = [pc EXCEPT ![c] = pc'[c]] /\ pc'[c] = "read"
    BY <1>0, <2>1
  <2> QED
    BY <2>2, <2>3, HandlerStep
<1>3. ASSUME NEW c \in Calls, Archive(c)
      PROVE  IdleInv'
  <2>1. pc' = [pc EXCEPT ![c] = "write"] /\ todo' = [todo EXCEPT ![c] = Files]
    BY <1>3 DEF Archive, ThenWrite
  <2>2. pc' = [pc EXCEPT ![c] = pc'[c]] /\ todo' = [todo EXCEPT ![c] = todo'[c]] /\ pc'[c] = "write"
    BY <1>0, <2>1
  <2> QED
    BY <2>2, HandlerStep
<1>4. ASSUME NEW c \in Calls, NEW file \in Files, Writing(c, file), Wrote(c, file)
      PROVE  IdleInv'
  <2>1. todo' = [todo EXCEPT ![c] = @ \ {file}] /\ file \in todo[c]
    BY <1>4 DEF Wrote, Writing
  <2>2. pc[c] = "write"
    BY <1>0, <1>4 DEF Writing, IdleHasNothingToDo
  <2>3. CASE todo[c] = {file}
    <3>1. pc' = [pc EXCEPT ![c] = "done"]
      BY <1>4, <2>2, <2>3 DEF Wrote
    <3>2. todo'[c] = {} /\ todo' = [todo EXCEPT ![c] = todo'[c]] /\ pc' = [pc EXCEPT ![c] = pc'[c]]
      BY <1>0, <2>1, <2>3, <3>1
    <3> QED
      BY <3>2, HandlerStep
  <2>4. CASE todo[c] # {file}
    <3>1. pc' = pc
      BY <1>4, <2>4 DEF Wrote
    <3>2. todo' = [todo EXCEPT ![c] = todo'[c]] /\ pc' = [pc EXCEPT ![c] = pc'[c]] /\ pc'[c] = "write"
      BY <1>0, <2>1, <2>2, <3>1
    <3> QED
      BY <3>2, HandlerStep
  <2> QED
    BY <2>3, <2>4
<1>5. ASSUME NEW c \in Calls, WriteCurrent(c) \/ WriteMeta(c)
      PROVE  IdleInv'
  BY <1>4, <1>5 DEF WriteCurrent, WriteMeta, Files
<1>6. ASSUME NEW c \in Calls, Reply(c) \/ Timeout(c)
      PROVE  IdleInv'
  BY <1>6, OtherStep DEF Reply, Timeout
<1>7. ASSUME NEW c \in Calls, ReadFails(c) \/ Crash(c)
      PROVE  IdleInv'
  <2>1. todo' = [todo EXCEPT ![c] = {}]
    BY <1>7 DEF ReadFails, Crash
  <2>2. pc' = [pc EXCEPT ![c] = "failed"] \/ pc' = [pc EXCEPT ![c] = "dead"]
    BY <1>7 DEF ReadFails, Crash
  <2>3. pc' = [pc EXCEPT ![c] = pc'[c]] /\ todo' = [todo EXCEPT ![c] = todo'[c]] /\ todo'[c] = {}
    BY <1>0, <2>1, <2>2
  <2> QED
    BY <2>3, HandlerStep
<1>8. ASSUME NEW c \in Calls, ArchiveFails(c)
      PROVE  IdleInv'
  <2>1. UNCHANGED todo /\ pc[c] = "archive" /\ pc' = [pc EXCEPT ![c] = "failed"]
    BY <1>8 DEF ArchiveFails
  <2>2. todo[c] = {}
    BY <1>0, <2>1 DEF IdleHasNothingToDo
  <2>3. pc' = [pc EXCEPT ![c] = pc'[c]] /\ todo' = [todo EXCEPT ![c] = todo'[c]] /\ todo'[c] = {}
    BY <1>0, <2>1, <2>2
  <2> QED
    BY <2>3, HandlerStep
<1>9. ASSUME NEW c \in Calls, NEW p, Decide(c, p), ThenArchive(c) \/ ThenWrite(c)
      PROVE  IdleInv'
  <2>1. todo[c] = {}
    BY <1>9 DEF Decide
  <2>2. CASE ThenArchive(c)
    <3>1. pc' = [pc EXCEPT ![c] = "archive"] /\ UNCHANGED todo
      BY <2>2 DEF ThenArchive
    <3>2. pc' = [pc EXCEPT ![c] = pc'[c]] /\ todo' = [todo EXCEPT ![c] = todo'[c]] /\ todo'[c] = {}
      BY <1>0, <2>1, <3>1
    <3> QED
      BY <3>2, HandlerStep
  <2>3. CASE ThenWrite(c)
    <3>1. pc' = [pc EXCEPT ![c] = "write"] /\ todo' = [todo EXCEPT ![c] = Files]
      BY <2>3 DEF ThenWrite
    <3>2. pc' = [pc EXCEPT ![c] = pc'[c]] /\ todo' = [todo EXCEPT ![c] = todo'[c]] /\ pc'[c] = "write"
      BY <1>0, <3>1
    <3> QED
      BY <3>2, HandlerStep
  <2> QED
    BY <1>9, <2>2, <2>3
<1>10. ASSUME NEW r \in Rounds, SwitchTopic(r) \/ ArchiveAll(r) \/ KeepBuffering(r)
       PROVE  IdleInv'
  <2>1. r \in Calls
    BY DEF Calls
  <2> QED
    BY <1>9, <1>10, <2>1 DEF SwitchTopic, ArchiveAll, KeepBuffering
<1>11. ASSUME NEW f \in Calls, FlushAll(f)
       PROVE  IdleInv'
  BY <1>9, <1>11 DEF FlushAll
<1>12. ASSUME NEW f \in Calls, FlushNothing(f)
       PROVE  IdleInv'
  <2>1. todo[f] = {} /\ pc' = [pc EXCEPT ![f] = "done"] /\ UNCHANGED todo
    BY <1>12 DEF FlushNothing, Decide
  <2>2. pc' = [pc EXCEPT ![f] = pc'[f]] /\ todo' = [todo EXCEPT ![f] = todo'[f]] /\ todo'[f] = {}
    BY <1>0, <2>1
  <2> QED
    BY <2>2, HandlerStep
<1>13. \A c \in Calls : \A file \in Files : ~WriteFails(c, file)
  BY DEF WriteFails, Fault
<1>14. CASE UNCHANGED vars
  BY <1>14, OtherStep DEF vars
<1>15. CASE Next
  <2>1. Flushes \cup PanelFlushes \subseteq Calls
    BY DEF Calls
  <2> QED
    BY <1>1, <1>2, <1>3, <1>5, <1>6, <1>7, <1>8, <1>10, <1>11, <1>12, <1>13, <1>15, <2>1 DEF Next
<1> QED
  BY <1>14, <1>15

\* A step of a behaviour in which handlers take turns is one of the session,
\* and the handlers have their turns after it too.
LEMMA TurnStep ==
  ASSUME SessionSerial, [SerialNext]_vars
  PROVE  [Next]_vars /\ SessionSerial'
<1>1. CASE SerialNext
  BY <1>1 DEF SerialNext
<1>2. CASE UNCHANGED vars
  BY <1>2 DEF vars, SessionSerial, Busy
<1> QED BY <1>1, <1>2

\* In such a behaviour a call begins when no handler works.
LEMMA SerialStep ==
  ASSUME "write" \notin FaultKinds, SerialInv, [SerialNext]_vars
  PROVE  SerialInv' /\ [Next]_vars
         /\ \A c \in Calls : Call(c) => \A d \in Calls : ~Busy(d)
<1>1. [Next]_vars /\ SerialInv'
  BY TurnStep, IdleNext DEF SerialInv
<1>2. ASSUME NEW c \in Calls, Call(c), NEW d \in Calls
      PROVE  ~Busy(d)
  <2>1. pc[c] = "new" /\ pc' = [pc EXCEPT ![c] = "read"] /\ todo' = [todo EXCEPT ![c] = Files]
    BY <1>2 DEF Call
  <2>2. CASE d = c
    BY <2>1, <2>2 DEF SerialInv, IdleInv, IdleHasNothingToDo, NoFiles, Busy
  <2>3. CASE d # c
    <3>1. pc'[c] = "read" /\ pc'[d] = pc[d] /\ todo'[d] = todo[d]
      BY <2>1, <2>3 DEF SerialInv, IdleInv, Shape
    <3>2. Busy(c)'
      BY <3>1 DEF Busy
    <3>3. ~Busy(d)'
      BY <1>1, <2>3, <3>2 DEF SerialInv, SessionSerial
    <3> QED BY <3>1, <3>3 DEF Busy
  <2> QED BY <2>2, <2>3
<1> QED BY <1>1, <1>2

-----------------------------------------------------------------------------

\* Where the messages of two texts stand in the text made of both.
LEMMA JoinedPlaces ==
  ASSUME NEW s \in Texts, NEW t \in Texts
  PROVE  /\ Len(s) \in Nat /\ Len(t) \in Nat
         /\ DOMAIN s = 1..Len(s) /\ DOMAIN t = 1..Len(t)
         /\ s \o t \in Texts
         /\ DOMAIN (s \o t) = (1..Len(s)) \cup ((Len(s) + 1)..(Len(s) + Len(t)))
         /\ \A i \in 1..Len(s) : (s \o t)[i] = s[i]
         /\ \A i \in 1..Len(t) : (s \o t)[Len(s) + i] = t[i]
         /\ [i \in 1..Len(t) |-> Len(s) + i] \in Bijection(1..Len(t), (Len(s) + 1)..(Len(s) + Len(t)))
<1>1. s \in Seq(Messages) /\ t \in Seq(Messages)
  BY DEF Texts
<1>2. Len(s) \in Nat /\ Len(t) \in Nat /\ DOMAIN s = 1..Len(s) /\ DOMAIN t = 1..Len(t)
  BY <1>1, LenProperties
<1>3. s \o t \in Seq(Messages) /\ Len(s \o t) = Len(s) + Len(t)
  BY <1>1, Joined
<1>4. DOMAIN (s \o t) = 1..(Len(s) + Len(t))
  BY <1>3, LenProperties
<1>5. \A i \in 1..(Len(s) + Len(t)) : (s \o t)[i] = IF i <= Len(s) THEN s[i] ELSE t[i - Len(s)]
  BY <1>1, ConcatProperties
<1>6. \A i \in 1..Len(s) : (s \o t)[i] = s[i]
  BY <1>2, <1>5
<1>7. ASSUME NEW i \in 1..Len(t)
      PROVE  (s \o t)[Len(s) + i] = t[i]
  <2>1. Len(s) + i \in 1..(Len(s) + Len(t)) /\ ~(Len(s) + i <= Len(s)) /\ (Len(s) + i) - Len(s) = i
    BY <1>2
  <2> QED BY <1>5, <2>1
<1> DEFINE g == [i \in 1..Len(t) |-> Len(s) + i]
           Q == (Len(s) + 1)..(Len(s) + Len(t))
<1>8. g \in [1..Len(t) -> Q] /\ IsInjective(g)
  BY <1>2 DEF IsInjective
<1>9. ASSUME NEW q \in Q
      PROVE  \E i \in 1..Len(t) : g[i] = q
  <2>1. q - Len(s) \in 1..Len(t) /\ g[q - Len(s)] = q
    BY <1>2
  <2> QED BY <2>1
<1>10. g \in Bijection(1..Len(t), Q)
  BY <1>8, <1>9 DEF Bijection, Injection, Surjection
<1>11. DOMAIN (s \o t) = (1..Len(s)) \cup Q
  BY <1>2, <1>4
<1> QED BY <1>2, <1>3, <1>6, <1>7, <1>10, <1>11 DEF Texts

\* The bytes of a text are those of its parts.
LEMMA ByteCountJoined ==
  ASSUME NEW s \in Texts, NEW t \in Texts
  PROVE  ByteCount(s \o t) = ByteCount(s) + ByteCount(t)
<1> DEFINE n == Len(s)
           m == Len(t)
           u == s \o t
           rs == [i \in DOMAIN s |-> RawBytes[s[i]]]
           rt == [i \in DOMAIN t |-> RawBytes[t[i]]]
           ru == [i \in DOMAIN u |-> RawBytes[u[i]]]
           P == 1..n
           Q == (n + 1)..(n + m)
           g == [i \in 1..m |-> n + i]
<1>1. /\ n \in Nat /\ m \in Nat /\ DOMAIN s = 1..n /\ DOMAIN t = 1..m
      /\ u \in Texts /\ DOMAIN u = P \cup Q
      /\ \A i \in 1..n : u[i] = s[i]
      /\ \A i \in 1..m : u[n + i] = t[i]
      /\ g \in Bijection(1..m, Q)
  BY JoinedPlaces
<1>2. /\ \A i \in DOMAIN s : s[i] \in Messages
      /\ \A i \in DOMAIN t : t[i] \in Messages
      /\ \A i \in DOMAIN u : u[i] \in Messages
  BY <1>1, LenProperties, ElementOfSeq DEF Texts
<1> HIDE DEF n, m, u, g
<1>3. \A i \in 1..n : rs[i] \in Nat /\ ru[i] = rs[i]
  BY <1>1, <1>2, SizesAssumption
<1>4. \A i \in 1..m : rt[i] \in Nat /\ ru[n + i] = rt[i]
  <2>1. SUFFICES ASSUME NEW i \in 1..m PROVE rt[i] \in Nat /\ ru[n + i] = rt[i]
    OBVIOUS
  <2>2. n + i \in DOMAIN u
    BY <1>1
  <2> QED BY <1>1, <1>2, <2>2, SizesAssumption
<1>5. \A i \in P \cup Q : ru[i] \in Nat
  <2>1. \A i \in DOMAIN u : ru[i] \in Nat
    BY <1>2, SizesAssumption
  <2> QED BY <1>1, <2>1
<1>6. IsFiniteSet(1..n) /\ IsFiniteSet(1..m)
  <2>1. IsFiniteSet(1..n)
    BY <1>1, FS_Interval
  <2>2. IsFiniteSet(1..m)
    BY <1>1, FS_Interval
  <2> QED BY <2>1, <2>2
<1>7. IsFiniteSet(P) /\ IsFiniteSet(Q) /\ P \cap Q = {}
  <2>1. n + 1 \in Int /\ n + m \in Int
    BY <1>1
  <2>2. IsFiniteSet(Q)
    BY <2>1, FS_Interval
  <2> QED BY <1>1, <1>6, <2>2
<1> HIDE DEF rs, rt, ru, Q
<1>8. Total(ru, P \cup Q) = Total(ru, P) + Total(ru, Q)
  BY <1>5, <1>7, TotalOfUnion
<1>9. Total(ru, Q) = Total(rt, 1..m)
  <2>1. \A i \in 1..m : g[i] = n + i
    BY DEF g
  <2>2. \A i \in 1..m : rt[i] \in Nat /\ ru[g[i]] = rt[i]
    BY <1>4, <2>1
  <2> QED BY <1>1, <1>6, <2>2, TotalMoved
<1>10. Total(ru, P) = Total(rs, 1..n)
  <2>1. \A i \in P : {i} \X (1..ru[i]) = {i} \X (1..rs[i])
    BY <1>3
  <2>2. Units(ru, P) = Units(rs, P)
    BY <2>1 DEF Units
  <2> QED BY <2>2 DEF Total
<1>11. ByteCount(s) = Total(rs, 1..n) /\ ByteCount(t) = Total(rt, 1..m) /\ ByteCount(u) = Total(ru, P \cup Q)
  BY <1>1 DEF ByteCount, rs, rt, ru
<1>12. ByteCount(u) = ByteCount(s) + ByteCount(t)
  BY <1>8, <1>9, <1>10, <1>11
<1> QED BY <1>12 DEF u

\* So are its tool calls.
LEMMA ToolCallCountJoined ==
  ASSUME NEW s \in Texts, NEW t \in Texts
  PROVE  ToolCallCount(s \o t) = ToolCallCount(s) + ToolCallCount(t)
<1> DEFINE n == Len(s)
           m == Len(t)
           u == s \o t
           A == {i \in 1..n : s[i] \in ToolCalls}
           B == {i \in 1..m : t[i] \in ToolCalls}
           C == {i \in (n + 1)..(n + m) : u[i] \in ToolCalls}
           h == [i \in B |-> n + i]
<1>1. /\ n \in Nat /\ m \in Nat /\ DOMAIN s = 1..n /\ DOMAIN t = 1..m
      /\ DOMAIN u = (1..n) \cup ((n + 1)..(n + m))
      /\ \A i \in 1..n : u[i] = s[i]
      /\ \A i \in 1..m : u[n + i] = t[i]
  BY JoinedPlaces
<1> HIDE DEF n, m, u
<1>2. {i \in DOMAIN u : u[i] \in ToolCalls} = A \cup C
  BY <1>1
<1>3. A \cap C = {}
  BY <1>1
<1>4. IsFiniteSet(A) /\ IsFiniteSet(B)
  <2>1. IsFiniteSet(1..n)
    BY <1>1, FS_Interval
  <2>2. IsFiniteSet(1..m)
    BY <1>1, FS_Interval
  <2>3. A \subseteq 1..n /\ B \subseteq 1..m
    OBVIOUS
  <2>4. IsFiniteSet(A)
    BY <2>1, <2>3, FS_Subset
  <2>5. IsFiniteSet(B)
    BY <2>2, <2>3, FS_Subset
  <2> QED BY <2>4, <2>5
<1>5. h \in Bijection(B, C)
  <2>1. h \in [B -> C] /\ IsInjective(h)
    BY <1>1 DEF IsInjective
  <2>2. ASSUME NEW c \in C
        PROVE  \E i \in B : h[i] = c
    <3>1. c - n \in 1..m /\ n + (c - n) = c
      BY <1>1
    <3>2. c - n \in B
      BY <1>1, <3>1
    <3> QED BY <3>1, <3>2
  <2> QED BY <2>1, <2>2 DEF Bijection, Injection, Surjection
<1> HIDE DEF h
<1>6. IsFiniteSet(C) /\ Cardinality(C) = Cardinality(B)
  BY <1>4, <1>5, FS_Bijection DEF ExistsBijection
<1>7. Cardinality(A \cup C) = Cardinality(A) + Cardinality(C) - Cardinality(A \cap C)
  BY <1>4, <1>6, FS_Union
<1>8. Cardinality(A \cap C) = 0
  BY <1>3, FS_EmptySet
<1>9. Cardinality(A) \in Nat /\ Cardinality(C) \in Nat
  BY <1>4, <1>6, FS_CardinalityType
<1>10. ToolCallCount(s) = Cardinality(A) /\ ToolCallCount(t) = Cardinality(B) /\ ToolCallCount(u) = Cardinality(A \cup C)
  BY <1>1, <1>2 DEF ToolCallCount
<1>11. ToolCallCount(u) = ToolCallCount(s) + ToolCallCount(t)
  <2> HIDE DEF A, B, C
  <2> QED BY <1>6, <1>7, <1>8, <1>9, <1>10
<1> QED BY <1>11 DEF u

\* The counters of an empty buffer.
LEMMA CountersOfNone == Counters(<<>>) = ZeroCounters
<1>1. ToolCallCount(<<>>) = 0
  <2>1. {i \in DOMAIN <<>> : <<>>[i] \in ToolCalls} = {}
    OBVIOUS
  <2> QED BY <2>1, FS_EmptySet DEF ToolCallCount
<1>2. ByteCount(<<>>) = 0
  <2>1. DOMAIN <<>> = {}
    OBVIOUS
  <2> QED BY <2>1, TotalOfNone DEF ByteCount
<1> QED BY <1>1, <1>2 DEF Counters, ZeroCounters

\* Both counters are below their thresholds.
Small(t) == ToolCallCount(t) < ToolCallThreshold /\ ByteCount(t) < BytesThreshold

\* What call c may leave in the buffer.
FineFor(c, t) == t = <<>> \/ Small(t) \/ (c \in Rounds /\ t = Batch[c])

\* What the buffer may hold when nobody writes.
Fine(t) == t = <<>> \/ Small(t) \/ \E r \in Rounds : pc[r] = "done" /\ t = Batch[r]

\* Per call: what it has read is what the files hold, and it writes counters
\* that match what it writes.
BufferOf(c) ==
  /\ pc[c] = "read" /\ "current" \notin todo[c] => seen[c].current = current
  /\ pc[c] = "read" /\ "meta" \notin todo[c] => seen[c].meta = meta
  /\ pc[c] \in {"archive", "write"} =>
       plan[c].meta = Counters(plan[c].current) /\ FineFor(c, plan[c].current)
  /\ pc[c] = "write" /\ "current" \notin todo[c] => current = plan[c].current
  /\ pc[c] = "write" /\ "meta" \notin todo[c] => meta = plan[c].meta

\* Between the writes, the files agree.
AtRest == (\A c \in Calls : pc[c] # "write") => meta = Counters(current) /\ Fine(current)

BufferInv == TypeInv /\ SerialInv /\ AtRest /\ \A c \in Calls : BufferOf(c)

\* The faults after which the files still agree.
MildFaults ==
  "write" \notin FaultKinds /\ "crash" \notin FaultKinds

\* At first both files are empty.
LEMMA BufferInit == Init => BufferInv
<1> SUFFICES ASSUME Init PROVE BufferInv
  OBVIOUS
<1>1. \A c \in Calls : pc[c] = "new"
  BY DEF Init
<1>2. \A c \in Calls : BufferOf(c)
  BY <1>1 DEF BufferOf
<1>3. AtRest
  BY CountersOfNone DEF Init, AtRest, Fine
<1> QED BY <1>2, <1>3, TypeInit, SerialInit DEF BufferInv

\* While one handler works, the others do not.
LEMMA Alone ==
  ASSUME SerialInv, NEW c \in Calls, Busy(c), NEW d \in Calls, d # c
  PROVE  ~Busy(d)
BY DEF SerialInv, SessionSerial

\* A step of a handler while the others do not work.
LEMMA BufferStep ==
  ASSUME BufferInv, TypeInv', SerialInv', NEW c \in Calls,
         \A d \in Calls \ {c} : ~Busy(d) /\ pc'[d] = pc[d],
         BufferOf(c)', AtRest'
  PROVE  BufferInv'
<1>1. ASSUME NEW d \in Calls, d # c
      PROVE  BufferOf(d)'
  <2>1. pc'[d] \notin {"read", "archive", "write"}
    BY <1>1 DEF Busy
  <2> QED BY <2>1 DEF BufferOf
<1> QED BY <1>1 DEF BufferInv

\* The files at rest are not touched.
LEMMA RestKept ==
  ASSUME BufferInv, NEW c \in Calls, UNCHANGED <<current, meta>>,
         \A d \in Calls \ {c} : ~Busy(d) /\ pc'[d] = pc[d],
         pc[c] # "write", pc[c] # "done"
  PROVE  AtRest'
<1>1. \A d \in Calls : pc[d] # "write"
  BY DEF Busy
<1>2. meta = Counters(current) /\ Fine(current)
  BY <1>1 DEF BufferInv, AtRest
<1>3. \A r \in Rounds : r \in Calls
  BY BatchType
<1>4. ASSUME NEW r \in Rounds, pc[r] = "done"
      PROVE  pc'[r] = "done"
  BY <1>3, <1>4
<1>5. Fine(current)'
  BY <1>2, <1>4 DEF Fine
<1>6. (meta = Counters(current))'
  BY <1>2
<1> QED BY <1>5, <1>6 DEF AtRest

\* A decision plans counters that match.
LEMMA BufferDecide ==
  ASSUME BufferInv, TypeInv', SerialInv', NEW c \in Calls, NEW x, NEW y, NEW z,
         Decide(c, Plan(x, y, z)), ThenArchive(c) \/ ThenWrite(c),
         z = Counters(y), FineFor(c, y)
  PROVE  BufferInv'
<1>1. /\ TypeInv /\ pc \in [Calls -> Stages] /\ todo \in [Calls -> SUBSET Files] /\ SerialInv
  BY DEF BufferInv, TypeInv, TypeOK, Stages
<1>2. /\ plan'[c].current = y /\ plan'[c].meta = z /\ pc[c] = "read" /\ todo[c] = {}
      /\ UNCHANGED <<current, meta>>
  BY <1>1, Decided
<1>3. \A d \in Calls \ {c} : ~Busy(d) /\ pc'[d] = pc[d]
  <2>1. Busy(c)
    BY <1>2 DEF Busy
  <2>2. \A d \in Calls \ {c} : pc'[d] = pc[d]
    BY <1>1 DEF ThenArchive, ThenWrite
  <2> QED BY <1>1, <2>1, <2>2, Alone
<1>4. pc'[c] = "archive" \/ (pc'[c] = "write" /\ todo'[c] = Files)
  BY <1>1 DEF ThenArchive, ThenWrite
<1>5. BufferOf(c)'
  BY <1>2, <1>4 DEF BufferOf, FineFor, Files
<1>6. AtRest'
  BY <1>2, <1>3, RestKept
<1> QED BY <1>3, <1>5, <1>6, BufferStep

\* The counters of a round that is buffered add up, and stay small.
LEMMA BufferRound ==
  ASSUME BufferInv, TypeInv', SerialInv', NEW r \in Rounds,
         SwitchTopic(r) \/ ArchiveAll(r) \/ KeepBuffering(r)
  PROVE  BufferInv'
<1>0. r \in Calls /\ Batch[r] \in Texts /\ TypeOK
  BY BatchType DEF BufferInv, TypeInv
<1>1. seen[r].current \in Texts
  BY <1>0, LocalTypes
<1>2. CASE SwitchTopic(r)
  <2>1. Decide(r, Plan(seen[r].current, Batch[r], Counters(Batch[r]))) /\ ThenArchive(r)
    BY <1>2 DEF SwitchTopic
  <2>2. FineFor(r, Batch[r])
    BY DEF FineFor
  <2> QED BY <1>0, <2>1, <2>2, BufferDecide
<1>3. CASE ArchiveAll(r)
  <2>1. Decide(r, Plan(PreparedPayload(r), <<>>, ZeroCounters)) /\ ThenArchive(r)
    BY <1>3 DEF ArchiveAll
  <2>2. FineFor(r, <<>>)
    BY DEF FineFor
  <2> QED BY <1>0, <2>1, <2>2, CountersOfNone, BufferDecide
<1>4. CASE KeepBuffering(r)
  <2> DEFINE s == seen[r].current
             b == Batch[r]
             y == s \o b
  <2>1. Decide(r, Plan(<<>>, y, NextCounters(r))) /\ ThenWrite(r) /\ ~HitsThreshold(r)
    BY <1>4 DEF KeepBuffering
  <2>2. pc[r] = "read" /\ todo[r] = {}
    BY <2>1 DEF Decide
  <2>3. seen[r].current = current /\ seen[r].meta = meta
    BY <1>0, <2>2 DEF BufferInv, BufferOf
  <2>4. meta = Counters(current)
    <3>1. \A d \in Calls : pc[d] # "write"
      BY <1>0, <2>2, Alone DEF Busy, BufferInv
    <3> QED BY <3>1 DEF BufferInv, AtRest
  <2>5. seen[r].meta.tools = ToolCallCount(s) /\ seen[r].meta.bytes = ByteCount(s)
    BY <2>3, <2>4 DEF Counters
  <2>6. ToolCallCount(y) = ToolCallCount(s) + ToolCallCount(b) /\ ByteCount(y) = ByteCount(s) + ByteCount(b)
    BY <1>0, <1>1, ToolCallCountJoined, ByteCountJoined
  <2>7. NextCounters(r).tools = ToolCallCount(y) /\ NextCounters(r).bytes = ByteCount(y)
        /\ NextCounters(r) = Counters(y)
    BY <2>5, <2>6 DEF NextCounters, Counters
  <2>8. Small(y)
    <3>1. y \in Texts
      BY <1>0, <1>1, Joined DEF Texts
    <3> HIDE DEF y
    <3>2. ToolCallCount(y) \in Nat /\ ByteCount(y) \in Nat
      BY <3>1, CountersTyped
    <3>3. ToolCallThreshold \in Nat /\ BytesThreshold \in Nat
      BY SizesAssumption
    <3> QED BY <2>1, <2>7, <3>2, <3>3 DEF HitsThreshold, Small
  <2> HIDE DEF y
  <2>9. FineFor(r, y)
    BY <2>8 DEF FineFor
  <2> QED BY <1>0, <2>1, <2>7, <2>9, BufferDecide
<1> QED BY <1>2, <1>3, <1>4

\* One of the two writes; after the second one the files agree again.
LEMMA BufferWrite ==
  ASSUME BufferInv, TypeInv', SerialInv', NEW c \in Calls, WriteCurrent(c) \/ WriteMeta(c)
  PROVE  BufferInv'
<1>0. /\ TypeInv /\ pc \in [Calls -> Stages] /\ todo \in [Calls -> SUBSET Files] /\ SerialInv
      /\ BufferOf(c)
  BY DEF BufferInv, TypeInv, TypeOK, Stages
<1>1. PICK file \in Files : /\ Writing(c, file) /\ Wrote(c, file)
                            /\ file = "current" => current' = plan[c].current /\ UNCHANGED meta
                            /\ file = "meta" => meta' = plan[c].meta /\ UNCHANGED current
  BY DEF WriteCurrent, WriteMeta, Files
<1>2. pc[c] = "write" /\ file \in todo[c]
  BY <1>0, <1>1 DEF Writing, SerialInv, IdleInv, IdleHasNothingToDo, NoFiles
<1>3. /\ UNCHANGED <<seen, plan>> /\ todo' = [todo EXCEPT ![c] = @ \ {file}]
      /\ pc' = IF todo[c] = {file} THEN [pc EXCEPT ![c] = "done"] ELSE pc
  BY <1>1, <1>2 DEF Wrote
<1>4. \A d \in Calls \ {c} : ~Busy(d) /\ pc'[d] = pc[d]
  <2>1. Busy(c)
    BY <1>2 DEF Busy
  <2>2. \A d \in Calls \ {c} : pc'[d] = pc[d]
    BY <1>0, <1>3
  <2> QED BY <1>0, <2>1, <2>2, Alone
<1>5. todo'[c] = todo[c] \ {file}
  BY <1>0, <1>3
<1>6. plan[c].meta = Counters(plan[c].current) /\ FineFor(c, plan[c].current)
  BY <1>0, <1>2 DEF BufferOf
<1>7. "current" \notin todo'[c] => current' = plan[c].current
  BY <1>0, <1>1, <1>2, <1>5 DEF BufferOf, Files
<1>8. "meta" \notin todo'[c] => meta' = plan[c].meta
  BY <1>0, <1>1, <1>2, <1>5 DEF BufferOf, Files
<1>9. CASE todo[c] = {file}
  <2>1. pc'[c] = "done" /\ todo'[c] = {}
    BY <1>0, <1>3, <1>5, <1>9
  <2>2. current' = plan[c].current /\ meta' = plan[c].meta
    BY <1>7, <1>8, <2>1
  <2>3. (meta = Counters(current))'
    BY <1>6, <2>2
  <2>4. Fine(current)'
    <3>1. current' = <<>> \/ Small(current') \/ (c \in Rounds /\ current' = Batch[c])
      BY <1>6, <2>2 DEF FineFor
    <3> QED BY <2>1, <3>1 DEF Fine
  <2>5. AtRest'
    BY <2>3, <2>4 DEF AtRest
  <2>6. BufferOf(c)'
    BY <2>1 DEF BufferOf
  <2> QED BY <1>4, <2>5, <2>6, BufferStep
<1>10. CASE todo[c] # {file}
  <2>1. pc'[c] = "write"
    BY <1>2, <1>3, <1>10
  <2>2. AtRest'
    BY <2>1 DEF AtRest
  <2>3. BufferOf(c)'
    BY <1>3, <1>6, <1>7, <1>8, <2>1 DEF BufferOf, FineFor
  <2> QED BY <1>4, <2>2, <2>3, BufferStep
<1> QED BY <1>9, <1>10

\* Every step keeps the files in agreement.
LEMMA BufferNext ==
  ASSUME MildFaults, BufferInv, [SerialNext]_vars
  PROVE  BufferInv'
<1>0. /\ TypeInv /\ TypeInv' /\ pc \in [Calls -> Stages] /\ todo \in [Calls -> SUBSET Files]
      /\ seen \in [Calls -> [current : Texts, meta : CountersType]]
      /\ plan \in [Calls -> PlanType]
      /\ [Next]_vars /\ \A c \in Calls : Call(c) => \A d \in Calls : ~Busy(d)
      /\ SerialInv /\ SerialInv' /\ AtRest /\ \A c \in Calls : BufferOf(c)
  BY TypeNext, SerialStep DEF BufferInv, TypeInv, TypeOK, Stages, PlanType, MildFaults
<1>1. ASSUME NEW c \in Calls, Call(c)
      PROVE  BufferInv'
  <2>1. UNCHANGED <<current, meta>> /\ pc[c] = "new"
    BY <1>1 DEF Call, Buffer
  <2>2. pc'[c] = "read" /\ todo'[c] = Files /\ \A d \in Calls \ {c} : pc'[d] = pc[d]
    BY <1>0, <1>1 DEF Call
  <2>3. \A d \in Calls : ~Busy(d)
    BY <1>0, <1>1
  <2>4. BufferOf(c)'
    BY <2>2 DEF BufferOf, Files
  <2>5. AtRest'
    BY <2>1, <2>2, <2>3, RestKept
  <2> QED BY <1>0, <2>2, <2>3, <2>4, <2>5, BufferStep
<1>2. ASSUME NEW c \in Calls, ReadCurrent(c) \/ ReadMeta(c)
      PROVE  BufferInv'
  <2>1. UNCHANGED <<current, meta, pc, plan>> /\ pc[c] = "read"
    BY <1>2 DEF ReadCurrent, ReadMeta, Buffer
  <2>2. \A d \in Calls \ {c} : ~Busy(d) /\ pc'[d] = pc[d]
    <3>1. Busy(c)
      BY <2>1 DEF Busy
    <3> QED BY <1>0, <2>1, <3>1, Alone
  <2>3. /\ "current" \notin todo'[c] => seen'[c].current = current
        /\ "meta" \notin todo'[c] => seen'[c].meta = meta
    <3>1. CASE ReadCurrent(c)
      <4>1. seen' = [seen EXCEPT ![c].current = current] /\ todo' = [todo EXCEPT ![c] = @ \ {"current"}]
        BY <3>1 DEF ReadCurrent
      <4>2. seen'[c].current = current /\ seen'[c].meta = seen[c].meta /\ ("meta" \in todo'[c] <=> "meta" \in todo[c])
        BY <1>0, <4>1
      <4> QED BY <1>0, <2>1, <4>2 DEF BufferOf
    <3>2. CASE ReadMeta(c)
      <4>1. seen' = [seen EXCEPT ![c].meta = meta] /\ todo' = [todo EXCEPT ![c] = @ \ {"meta"}]
        BY <3>2 DEF ReadMeta
      <4>2. seen'[c].meta = meta /\ seen'[c].current = seen[c].current /\ ("current" \in todo'[c] <=> "current" \in todo[c])
        BY <1>0, <4>1
      <4> QED BY <1>0, <2>1, <4>2 DEF BufferOf
    <3> QED BY <1>2, <3>1, <3>2
  <2>4. BufferOf(c)'
    BY <2>1, <2>3 DEF BufferOf
  <2>5. AtRest'
    BY <2>1, <2>2, RestKept
  <2> QED BY <1>0, <2>2, <2>4, <2>5, BufferStep
<1>3. ASSUME NEW c \in Calls, Archive(c)
      PROVE  BufferInv'
  <2>1. UNCHANGED <<current, meta, seen, plan>> /\ pc[c] = "archive"
    BY <1>3 DEF Archive, Buffer
  <2>2. pc'[c] = "write" /\ todo'[c] = Files /\ \A d \in Calls \ {c} : pc'[d] = pc[d]
    BY <1>0, <1>3 DEF Archive, ThenWrite
  <2>3. \A d \in Calls \ {c} : ~Busy(d) /\ pc'[d] = pc[d]
    <3>1. Busy(c)
      BY <2>1 DEF Busy
    <3> QED BY <1>0, <2>2, <3>1, Alone
  <2>4. plan[c].meta = Counters(plan[c].current) /\ FineFor(c, plan[c].current)
    BY <1>0, <2>1 DEF BufferOf
  <2>5. BufferOf(c)'
    BY <2>1, <2>2, <2>4 DEF BufferOf, FineFor, Files
  <2>6. AtRest'
    BY <2>2 DEF AtRest
  <2> QED BY <1>0, <2>3, <2>5, <2>6, BufferStep
<1>4. ASSUME NEW c \in Calls, Reply(c) \/ Timeout(c)
      PROVE  BufferInv'
  <2>1. UNCHANGED <<current, meta, pc, todo, seen, plan>>
    BY <1>4 DEF Reply, Timeout, Buffer
  <2>2. AtRest'
    BY <1>0, <2>1 DEF AtRest, Fine
  <2>3. \A d \in Calls : BufferOf(d)'
    BY <1>0, <2>1 DEF BufferOf
  <2> QED BY <1>0, <2>2, <2>3 DEF BufferInv
<1>5. ASSUME NEW c \in Calls, ReadFails(c) \/ ArchiveFails(c)
      PROVE  BufferInv'
  <2>1. UNCHANGED <<current, meta>> /\ pc[c] \in {"read", "archive"}
    BY <1>5 DEF ReadFails, ArchiveFails, Buffer
  <2>2. pc'[c] = "failed" /\ \A d \in Calls \ {c} : pc'[d] = pc[d]
    BY <1>0, <1>5 DEF ReadFails, ArchiveFails
  <2>3. \A d \in Calls \ {c} : ~Busy(d) /\ pc'[d] = pc[d]
    <3>1. Busy(c)
      BY <2>1 DEF Busy
    <3> QED BY <1>0, <2>2, <3>1, Alone
  <2>4. BufferOf(c)'
    BY <2>2 DEF BufferOf
  <2>5. AtRest'
    BY <2>1, <2>3, RestKept
  <2> QED BY <1>0, <2>3, <2>4, <2>5, BufferStep
<1>6. ASSUME NEW f \in Calls, FlushAll(f)
      PROVE  BufferInv'
  <2>1. FineFor(f, <<>>)
    BY DEF FineFor
  <2> QED BY <1>0, <1>6, <2>1, CountersOfNone, BufferDecide DEF FlushAll
<1>7. ASSUME NEW f \in Calls, FlushNothing(f), f \notin Rounds
      PROVE  BufferInv'
  <2>1. UNCHANGED <<current, meta>> /\ pc[f] = "read"
    BY <1>7 DEF FlushNothing, Decide, Buffer
  <2>2. pc'[f] = "done" /\ \A d \in Calls \ {f} : pc'[d] = pc[d]
    BY <1>0, <1>7 DEF FlushNothing
  <2>3. \A d \in Calls \ {f} : ~Busy(d) /\ pc'[d] = pc[d]
    <3>1. Busy(f)
      BY <2>1 DEF Busy
    <3> QED BY <1>0, <2>2, <3>1, Alone
  <2>4. BufferOf(f)'
    BY <2>2 DEF BufferOf
  <2>5. AtRest'
    BY <2>1, <2>3, RestKept
  <2> QED BY <1>0, <2>3, <2>4, <2>5, BufferStep
<1>8. \A c \in Calls : ~Crash(c) /\ \A file \in Files : ~WriteFails(c, file)
  BY DEF Crash, WriteFails, Fault, MildFaults
<1>9. CASE UNCHANGED vars
  BY <1>0, <1>9 DEF vars, BufferInv, AtRest, Fine, BufferOf
<1>10. CASE Next
  <2>1. Flushes \cup PanelFlushes \subseteq Calls /\ Rounds \cap (Flushes \cup PanelFlushes) = {}
    BY SessionAssumption DEF Calls
  <2> QED
    BY <1>0, <1>1, <1>2, <1>3, <1>4, <1>5, <1>6, <1>7, <1>8, <1>10, <2>1, BufferWrite, BufferRound DEF Next
<1> QED BY <1>0, <1>9, <1>10

\* So they always agree.
LEMMA BufferCorrect ==
  ASSUME MildFaults
  PROVE  SerialSpec => []BufferInv
BY BufferInit, BufferNext, PTL DEF SerialSpec

\* Between two calls the counters of meta.json are those of data-current:
\* where handlers take turns and neither a write nor the process fails
\* between the two writes, they never drift, for any number of rounds, with
\* streamed rounds, calls of the panel and time-outs.
THEOREM CountersCorrect ==
  ASSUME {"write", "crash"} \cap FaultKinds = {}
  PROVE  SerialSpec => []CountersMatch
<1>1. BufferInv => CountersMatch
  <2> SUFFICES ASSUME BufferInv, Quiet PROVE meta = Counters(current)
    BY DEF CountersMatch
  <2>1. \A c \in Calls : pc[c] # "write"
    BY DEF Quiet, Busy
  <2> QED BY <2>1 DEF BufferInv, AtRest
<1>2. MildFaults
  BY DEF MildFaults
<1> QED BY <1>1, <1>2, BufferCorrect, PTL

\* Between two calls the buffer is below both thresholds, or holds just the
\* round that started a new topic: under the same conditions a session never
\* piles up more than that, however many rounds it has.
THEOREM BoundedCorrect ==
  ASSUME {"write", "crash"} \cap FaultKinds = {},
         ToolCallThreshold > 0, BytesThreshold > 0
  PROVE  SerialSpec => []BufferBounded
<1>1. BufferInv => BufferBounded
  <2> SUFFICES ASSUME BufferInv, Quiet
               PROVE  \/ Small(current)
                      \/ \E r \in Rounds : pc[r] = "done" /\ current = Batch[r]
    BY DEF BufferBounded, Small
  <2>1. \A c \in Calls : pc[c] # "write"
    BY DEF Quiet, Busy
  <2>2. Fine(current)
    BY <2>1 DEF BufferInv, AtRest
  <2>3. Counters(<<>>).tools = ToolCallCount(<<>>) /\ Counters(<<>>).bytes = ByteCount(<<>>)
    BY DEF Counters
  <2>4. ToolCallCount(<<>>) = 0 /\ ByteCount(<<>>) = 0
    BY <2>3, CountersOfNone DEF ZeroCounters
  <2>5. Small(<<>>)
    BY <2>4 DEF Small
  <2> QED BY <2>2, <2>5 DEF Fine
<1>2. MildFaults
  BY DEF MildFaults
<1> QED BY <1>1, <1>2, BufferCorrect, PTL

-----------------------------------------------------------------------------

\* The messages a handler leaves are those its counters count, if it archives
\* or found both files in agreement.
Agrees(c) == plan[c].payload # <<>> \/ seen[c].meta = Counters(seen[c].current)

\* Per call: its plan agrees with itself, and what it has written is there.
AgreeOf(c) ==
  /\ pc[c] \in {"archive", "write"} /\ Agrees(c) => plan[c].meta = Counters(plan[c].current)
  /\ pc[c] = "write" /\ "current" \notin todo[c] => current = plan[c].current
  /\ pc[c] = "write" /\ "meta" \notin todo[c] => meta = plan[c].meta

AgreeInv == TypeInv /\ SessionSerial /\ \A c \in Calls : AgreeOf(c)

\* A step of a handler that is not writing, or that writes what it planned.
LEMMA AgreeStep ==
  ASSUME AgreeInv, TypeInv', SessionSerial', NEW c \in Calls,
         \A d \in Calls \ {c} : UNCHANGED <<pc[d], todo[d], seen[d], plan[d]>>,
         UNCHANGED <<current, meta>> \/ Busy(c),
         AgreeOf(c)'
  PROVE  AgreeInv'
<1>1. ASSUME NEW d \in Calls, d # c
      PROVE  AgreeOf(d)'
  <2>1. UNCHANGED <<pc[d], todo[d], seen[d], plan[d]>> /\ AgreeOf(d)
    BY <1>1 DEF AgreeInv
  <2>2. CASE UNCHANGED <<current, meta>>
    BY <2>1, <2>2 DEF AgreeOf, Agrees
  <2>3. CASE Busy(c)
    <3>1. pc[d] \notin {"read", "archive", "write"}
      BY <1>1, <2>3 DEF AgreeInv, SessionSerial, Busy
    <3> QED BY <2>1, <3>1 DEF AgreeOf
  <2> QED BY <2>2, <2>3
<1> QED BY <1>1 DEF AgreeInv

\* A decision whose counters agree when the handler does.
LEMMA AgreeDecide ==
  ASSUME AgreeInv, TypeInv', SessionSerial', NEW c \in Calls, NEW x, NEW y, NEW z,
         Decide(c, Plan(x, y, z)), ThenArchive(c) \/ ThenWrite(c),
         x # <<>> \/ seen[c].meta = Counters(seen[c].current) => z = Counters(y)
  PROVE  AgreeInv'
<1>1. pc \in [Calls -> Stages] /\ todo \in [Calls -> SUBSET Files] /\ plan \in [Calls -> PlanType]
  BY DEF AgreeInv, TypeInv, TypeOK, Stages, PlanType
<1>2. /\ plan' = [plan EXCEPT ![c] = Plan(x, y, z)] /\ UNCHANGED <<current, meta, seen>>
      /\ todo[c] = {}
  BY DEF Decide, Buffer
<1>3. plan'[c].payload = x /\ plan'[c].current = y /\ plan'[c].meta = z
  BY <1>1, <1>2 DEF Plan
<1>4. pc'[c] = "archive" \/ (pc'[c] = "write" /\ todo'[c] = Files)
  BY <1>1 DEF ThenArchive, ThenWrite
<1>5. AgreeOf(c)'
  BY <1>2, <1>3, <1>4 DEF AgreeOf, Agrees, Files
<1>6. \A d \in Calls \ {c} : UNCHANGED <<pc[d], todo[d], seen[d], plan[d]>>
  BY <1>1, <1>2 DEF ThenArchive, ThenWrite
<1> QED BY <1>2, <1>5, <1>6, AgreeStep

\* A round that is buffered adds its own counters to those it read.
LEMMA AgreeRound ==
  ASSUME AgreeInv, TypeInv', SessionSerial', NEW r \in Rounds,
         SwitchTopic(r) \/ ArchiveAll(r) \/ KeepBuffering(r)
  PROVE  AgreeInv'
<1>0. r \in Calls /\ Batch[r] \in Texts /\ seen[r].current \in Texts
  BY BatchType, LocalTypes DEF AgreeInv, TypeInv
<1>1. CASE SwitchTopic(r)
  BY <1>0, <1>1, AgreeDecide DEF SwitchTopic
<1>2. CASE ArchiveAll(r)
  BY <1>0, <1>2, CountersOfNone, AgreeDecide DEF ArchiveAll
<1>3. CASE KeepBuffering(r)
  <2> DEFINE s == seen[r].current
             b == Batch[r]
             y == s \o b
  <2>1. Decide(r, Plan(<<>>, y, NextCounters(r))) /\ ThenWrite(r)
    BY <1>3 DEF KeepBuffering
  <2>2. ToolCallCount(y) = ToolCallCount(s) + ToolCallCount(b) /\ ByteCount(y) = ByteCount(s) + ByteCount(b)
    BY <1>0, ToolCallCountJoined, ByteCountJoined
  <2>3. ASSUME seen[r].meta = Counters(seen[r].current)
        PROVE  NextCounters(r) = Counters(y)
    <3>1. seen[r].meta.tools = ToolCallCount(s) /\ seen[r].meta.bytes = ByteCount(s)
      BY <2>3 DEF Counters
    <3> QED BY <2>2, <3>1 DEF NextCounters, Counters
  <2> HIDE DEF y
  <2> QED BY <1>0, <2>1, <2>3, AgreeDecide
<1> QED BY <1>1, <1>2, <1>3

\* One of the two writes, also one that comes after the other one failed.
LEMMA AgreeWrite ==
  ASSUME AgreeInv, TypeInv', SessionSerial', NEW c \in Calls, NEW file \in Files,
         Writing(c, file),
         \/ file = "current" /\ current' = plan[c].current /\ UNCHANGED meta
         \/ file = "meta" /\ meta' = plan[c].meta /\ UNCHANGED current,
         Wrote(c, file)
  PROVE  AgreeInv' /\ (pc[c] = "write" /\ pc'[c] = "done" /\ Agrees(c) => meta' = Counters(current'))
<1>0. pc \in [Calls -> Stages] /\ todo \in [Calls -> SUBSET Files] /\ AgreeOf(c)
  BY DEF AgreeInv, TypeInv, TypeOK, Stages
<1>1. /\ UNCHANGED <<seen, plan>> /\ todo' = [todo EXCEPT ![c] = @ \ {file}] /\ file \in todo[c]
      /\ pc' = IF pc[c] = "write" /\ todo[c] = {file} THEN [pc EXCEPT ![c] = "done"] ELSE pc
      /\ pc[c] \in {"write", "failed"}
  BY DEF Wrote, Writing
<1>2. Busy(c)
  BY <1>1 DEF Busy
<1>3. todo'[c] = todo[c] \ {file} /\ \A d \in Calls \ {c} : UNCHANGED <<pc[d], todo[d], seen[d], plan[d]>>
  BY <1>0, <1>1
<1>4. pc[c] = "write" => /\ "current" \notin todo'[c] => current' = plan[c].current
                         /\ "meta" \notin todo'[c] => meta' = plan[c].meta
  BY <1>0, <1>3 DEF AgreeOf, Files
<1>5. pc'[c] = pc[c] \/ (pc[c] = "write" /\ pc'[c] = "done" /\ todo'[c] = {})
  BY <1>0, <1>1, <1>3
<1>6. AgreeOf(c)'
  BY <1>0, <1>1, <1>4, <1>5 DEF AgreeOf, Agrees
<1>7. AgreeInv'
  BY <1>2, <1>3, <1>6, AgreeStep
<1>8. ASSUME pc[c] = "write", pc'[c] = "done", Agrees(c)
      PROVE  meta' = Counters(current')
  <2>1. todo'[c] = {}
    BY <1>5, <1>8
  <2>2. plan[c].meta = Counters(plan[c].current)
    BY <1>0, <1>8 DEF AgreeOf
  <2> QED BY <1>4, <1>8, <2>1, <2>2
<1> QED BY <1>7, <1>8

\* What one step of handlers that take turns leaves in the files.
FilesAgreeStep ==
  \A c \in Calls : pc[c] = "write" /\ pc'[c] = "done" /\ Agrees(c) => meta' = Counters(current')

\* Every step keeps the plans in agreement with themselves, whatever fails.
LEMMA AgreeNext ==
  ASSUME AgreeInv, [SerialNext]_vars
  PROVE  AgreeInv' /\ FilesAgreeStep
<1>0. /\ TypeInv /\ TypeInv' /\ SessionSerial /\ SessionSerial' /\ [Next]_vars
      /\ pc \in [Calls -> Stages] /\ todo \in [Calls -> SUBSET Files]
      /\ seen \in [Calls -> [current : Texts, meta : CountersType]] /\ plan \in [Calls -> PlanType]
      /\ \A c \in Calls : AgreeOf(c)
  BY TurnStep, TypeNext DEF AgreeInv, TypeInv, TypeOK, Stages, PlanType
<1> DEFINE Goal == AgreeInv' /\ FilesAgreeStep
<1>1. ASSUME NEW c \in Calls, Call(c)
      PROVE  Goal
  <2>1. /\ UNCHANGED <<current, meta, seen, plan>> /\ pc'[c] = "read"
        /\ \A d \in Calls \ {c} : UNCHANGED <<pc[d], todo[d], seen[d], plan[d]>>
    BY <1>0, <1>1 DEF Call, Buffer
  <2>2. AgreeOf(c)'
    BY <2>1 DEF AgreeOf
  <2> QED BY <1>0, <2>1, <2>2, AgreeStep DEF FilesAgreeStep
<1>2. ASSUME NEW c \in Calls, ReadCurrent(c) \/ ReadMeta(c)
      PROVE  Goal
  <2>1. /\ UNCHANGED <<current, meta, pc, plan>> /\ pc[c] = "read"
        /\ \A d \in Calls \ {c} : UNCHANGED <<pc[d], todo[d], seen[d], plan[d]>>
    BY <1>0, <1>2 DEF ReadCurrent, ReadMeta, Buffer
  <2>2. AgreeOf(c)'
    BY <2>1 DEF AgreeOf
  <2> QED BY <1>0, <2>1, <2>2, AgreeStep DEF FilesAgreeStep
<1>3. ASSUME NEW c \in Calls, Archive(c)
      PROVE  Goal
  <2>1. /\ UNCHANGED <<current, meta, seen, plan>> /\ pc[c] = "archive"
        /\ pc'[c] = "write" /\ todo'[c] = Files
        /\ \A d \in Calls \ {c} : UNCHANGED <<pc[d], todo[d], seen[d], plan[d]>>
    BY <1>0, <1>3 DEF Archive, ThenWrite, Buffer
  <2>2. AgreeOf(c)'
    BY <1>0, <2>1 DEF AgreeOf, Agrees, Files
  <2> QED BY <1>0, <2>1, <2>2, AgreeStep DEF FilesAgreeStep
<1>4. ASSUME NEW c \in Calls, NEW file \in Files, Writing(c, file), Wrote(c, file),
             \/ file = "current" /\ current' = plan[c].current /\ UNCHANGED meta
             \/ file = "meta" /\ meta' = plan[c].meta /\ UNCHANGED current
      PROVE  Goal
  <2>1. \A d \in Calls \ {c} : pc'[d] = pc[d]
    BY <1>0, <1>4 DEF Wrote
  <2> QED BY <1>0, <1>4, <2>1, AgreeWrite DEF FilesAgreeStep
<1>5. ASSUME NEW c \in Calls, WriteCurrent(c) \/ WriteMeta(c)
      PROVE  Goal
  <2> HIDE DEF Goal
  <2> QED BY <1>4, <1>5 DEF WriteCurrent, WriteMeta, Files
<1>6. ASSUME NEW c \in Calls, Reply(c) \/ Timeout(c)
      PROVE  Goal
  <2>1. UNCHANGED <<current, meta, pc, todo, seen, plan>>
    BY <1>6 DEF Reply, Timeout, Buffer
  <2> QED BY <1>0, <2>1 DEF FilesAgreeStep, AgreeInv, AgreeOf, Agrees
<1>7. ASSUME NEW c \in Calls, ReadFails(c) \/ ArchiveFails(c) \/ Crash(c)
      PROVE  Goal
  <2>1. /\ UNCHANGED <<current, meta, seen, plan>> /\ pc'[c] \in {"failed", "dead"}
        /\ \A d \in Calls \ {c} : UNCHANGED <<pc[d], todo[d], seen[d], plan[d]>>
    BY <1>0, <1>7 DEF ReadFails, ArchiveFails, Crash, Buffer
  <2>2. AgreeOf(c)'
    BY <2>1 DEF AgreeOf
  <2> QED BY <1>0, <2>1, <2>2, AgreeStep DEF FilesAgreeStep
<1>8. ASSUME NEW c \in Calls, NEW file \in Files, WriteFails(c, file)
      PROVE  Goal
  <2>1. /\ Writing(c, file) /\ UNCHANGED <<seen, plan>> /\ pc'[c] = "failed"
        /\ \A d \in Calls \ {c} : UNCHANGED <<pc[d], todo[d], seen[d], plan[d]>>
    BY <1>0, <1>8 DEF WriteFails
  <2>2. Busy(c)
    BY <2>1 DEF Busy, Writing
  <2>3. AgreeOf(c)'
    BY <2>1 DEF AgreeOf
  <2> QED BY <1>0, <2>1, <2>2, <2>3, AgreeStep DEF FilesAgreeStep
<1>9. ASSUME NEW r \in Rounds, SwitchTopic(r) \/ ArchiveAll(r) \/ KeepBuffering(r)
      PROVE  Goal
  <2>1. \A c \in Calls : ~(pc[c] = "write" /\ pc'[c] = "done")
    BY <1>0, <1>9 DEF SwitchTopic, ArchiveAll, KeepBuffering, ThenArchive, ThenWrite
  <2> QED BY <1>0, <1>9, <2>1, AgreeRound DEF FilesAgreeStep
<1>10. ASSUME NEW f \in Calls, FlushAll(f)
       PROVE  Goal
  <2>1. \A c \in Calls : ~(pc[c] = "write" /\ pc'[c] = "done")
    BY <1>0, <1>10 DEF FlushAll, ThenArchive
  <2> QED BY <1>0, <1>10, <2>1, CountersOfNone, AgreeDecide DEF FilesAgreeStep, FlushAll
<1>11. ASSUME NEW f \in Calls, FlushNothing(f)
       PROVE  Goal
  <2>1. /\ UNCHANGED <<current, meta, seen, todo>> /\ pc[f] = "read" /\ pc'[f] = "done"
        /\ \A d \in Calls \ {f} : UNCHANGED <<pc[d], todo[d], seen[d], plan[d]>>
    BY <1>0, <1>11 DEF FlushNothing, Decide, Buffer
  <2>2. AgreeOf(f)'
    BY <2>1 DEF AgreeOf
  <2> QED BY <1>0, <2>1, <2>2, AgreeStep DEF FilesAgreeStep
<1>12. CASE UNCHANGED vars
  BY <1>0, <1>12 DEF vars, FilesAgreeStep, AgreeInv, AgreeOf, Agrees
<1>13. CASE Next
  <2>1. Flushes \cup PanelFlushes \subseteq Calls
    BY DEF Calls
  <2> HIDE DEF Goal
  <2>2. Goal
    BY <1>1, <1>2, <1>3, <1>5, <1>6, <1>7, <1>8, <1>9, <1>10, <1>11, <1>13, <2>1 DEF Next
  <2> QED BY <2>2 DEF Goal
<1> QED BY <1>0, <1>12, <1>13

\* Only a call puts a handler to work, and it takes note of another one.
LEMMA TakeTurns ==
  ASSUME TypeOK, [Next]_vars, ~overlapped => SessionSerial, ~overlapped'
  PROVE  ~overlapped /\ SessionSerial'
<1> DEFINE NobodyStarts == overlapped' = overlapped /\ \A d \in Calls : Busy(d)' => Busy(d)
<1>0. pc \in [Calls -> Stages] /\ todo \in [Calls -> SUBSET Files]
  BY DEF TypeOK, Stages
<1>1. ASSUME NEW c \in Calls, Call(c)
      PROVE  ~overlapped /\ SessionSerial'
  <2>1. ~overlapped /\ \A d \in Calls : ~Busy(d)
    BY <1>1 DEF Call
  <2>2. \A d \in Calls \ {c} : pc'[d] = pc[d] /\ todo'[d] = todo[d]
    BY <1>0, <1>1 DEF Call
  <2>3. \A d \in Calls \ {c} : ~Busy(d)'
    BY <2>1, <2>2 DEF Busy
  <2> QED BY <2>1, <2>3 DEF SessionSerial
<1>2. ASSUME NEW c \in Calls, ReadCurrent(c) \/ ReadMeta(c) \/ Archive(c)
      PROVE  NobodyStarts
  BY <1>0, <1>2 DEF ReadCurrent, ReadMeta, Archive, Register, ThenWrite, History, Busy
<1>3. ASSUME NEW c \in Calls, NEW file \in Files, Writing(c, file),
             Wrote(c, file) \/ WriteFails(c, file)
      PROVE  NobodyStarts
  BY <1>0, <1>3 DEF Writing, Wrote, WriteFails, History, Busy
<1>4. ASSUME NEW c \in Calls, WriteCurrent(c) \/ WriteMeta(c)
      PROVE  NobodyStarts
  <2> HIDE DEF NobodyStarts
  <2> QED BY <1>3, <1>4 DEF WriteCurrent, WriteMeta, Files
<1>5. ASSUME NEW c \in Calls, Reply(c) \/ Timeout(c)
      PROVE  NobodyStarts
  BY <1>5 DEF Reply, Timeout, History, Busy
<1>6. ASSUME NEW c \in Calls, ReadFails(c) \/ ArchiveFails(c) \/ Crash(c)
      PROVE  NobodyStarts
  BY <1>0, <1>6 DEF ReadFails, ArchiveFails, Crash, Register, History, Busy
<1>7. ASSUME NEW c \in Calls, NEW p, Decide(c, p),
             \/ ThenArchive(c) \/ ThenWrite(c)
             \/ pc' = [pc EXCEPT ![c] = "done"] /\ UNCHANGED todo
      PROVE  NobodyStarts
  BY <1>0, <1>7 DEF Decide, ThenArchive, ThenWrite, History, Busy
<1>8. ASSUME NEW c \in Calls,
             \/ SwitchTopic(c) \/ ArchiveAll(c) \/ KeepBuffering(c)
             \/ FlushAll(c) \/ FlushNothing(c)
      PROVE  NobodyStarts
  <2> HIDE DEF NobodyStarts
  <2> QED BY <1>7, <1>8 DEF SwitchTopic, ArchiveAll, KeepBuffering, FlushAll, FlushNothing
<1>9. CASE UNCHANGED vars
  BY <1>9 DEF vars, Busy, SessionSerial
<1>10. ASSUME NobodyStarts
       PROVE  ~overlapped /\ SessionSerial'
  BY <1>10 DEF SessionSerial
<1>11. CASE Next
  <2>1. Rounds \subseteq Calls /\ Flushes \cup PanelFlushes \subseteq Calls
    BY DEF Calls
  <2>2. ASSUME NEW c \in Calls, NEW file \in Files, WriteFails(c, file)
        PROVE  NobodyStarts
    <3>1. Writing(c, file)
      BY <2>2 DEF WriteFails
    <3> HIDE DEF NobodyStarts
    <3> QED BY <1>3, <2>2, <3>1
  <2> HIDE DEF NobodyStarts
  <2> QED BY <1>1, <1>2, <1>4, <1>5, <1>6, <1>8, <1>10, <1>11, <2>1, <2>2 DEF Next
<1> QED BY <1>9, <1>11

\* While handlers take turns, counters that a failed write or a crash left
\* wrong are wrong until the next archive and no longer: the theorem assumes
\* nothing of the faults, so it holds whatever fails.
THEOREM AgreeAgainCorrect == Spec => FilesAgreeAgain
<1> DEFINE TurnInv == TypeInv /\ (~overlapped => AgreeInv)
           AgreedWrites ==
             \A c \in Calls :
               /\ ~overlapped' /\ pc[c] = "write" /\ pc'[c] = "done"
               /\ plan[c].payload # <<>> \/ seen[c].meta = Counters(seen[c].current)
               => meta' = Counters(current')
<1>1. Init => TurnInv
  <2> SUFFICES ASSUME Init PROVE AgreeInv
    BY DEF AgreeInv
  <2>1. \A c \in Calls : pc[c] = "new" /\ todo[c] = {}
    BY DEF Init
  <2> QED BY <2>1, TypeInit DEF AgreeInv, AgreeOf, SessionSerial, Busy
<1>2. ASSUME TurnInv, [Next]_vars
      PROVE  TurnInv' /\ AgreedWrites
  <2>1. TypeInv'
    BY <1>2, TypeNext
  <2>2. ASSUME ~overlapped'
        PROVE  AgreeInv' /\ FilesAgreeStep
    <3>1. TypeOK /\ (~overlapped => AgreeInv /\ SessionSerial)
      BY <1>2 DEF TypeInv, AgreeInv
    <3>2. ~overlapped /\ SessionSerial'
      BY <1>2, <2>2, <3>1, TakeTurns
    <3>3. [SerialNext]_vars
      BY <1>2, <3>2 DEF SerialNext
    <3> QED BY <3>1, <3>2, <3>3, AgreeNext
  <2>3. ASSUME FilesAgreeStep
        PROVE  AgreedWrites
    BY <2>3 DEF FilesAgreeStep, Agrees
  <2> QED BY <2>1, <2>2, <2>3
<1> QED BY <1>1, <1>2, PTL DEF Spec, FilesAgreeAgain

-----------------------------------------------------------------------------

\* The rounds that the log has still to decide.
Unsent == {r \in Rounds : pc[r] \in {"new", "read", "archive"}}

\* The handler that has still to write what it accepted.
Writer(c) == pc[c] = "write" /\ "current" \in todo[c]

\* What the log has accepted is what the writer has still to write,
LEMMA AcceptedOfWriter ==
  ASSUME NEW c \in Calls, Writer(c), \A d \in Calls : Writer(d) => d = c
  PROVE  AcceptedCurrent = plan[c].current
<1>1. (CHOOSE d \in Calls : pc[d] = "write" /\ "current" \in todo[d]) = c
  BY DEF Writer
<1> QED BY <1>1 DEF AcceptedCurrent, Writer

\* also after a step,
LEMMA AcceptedOfWriterNext ==
  ASSUME NEW c \in Calls, Writer(c)', \A d \in Calls : Writer(d)' => d = c
  PROVE  AcceptedCurrent' = plan'[c].current
<1>1. (CHOOSE d \in Calls : pc'[d] = "write" /\ "current" \in todo'[d]) = c
  BY DEF Writer
<1> QED BY <1>1 DEF AcceptedCurrent, Writer

\* and what the buffer holds when there is no writer.
LEMMA AcceptedIdle ==
  /\ (\A d \in Calls : ~Writer(d)) => AcceptedCurrent = current
  /\ (\A d \in Calls : ~Writer(d)') => AcceptedCurrent' = current'
BY DEF AcceptedCurrent, Writer

\* A handler archives what it read, which is what the buffer still holds,
\* with its own round or without.
ArchiveOf(c) ==
  IF c \in Rounds
  THEN \/ plan[c].payload = current /\ current # <<>> /\ plan[c].current = Batch[c]
       \/ plan[c].payload \in Log!Deliveries(current \o Batch[c]) /\ plan[c].current = <<>>
  ELSE plan[c].payload = current /\ current # <<>> /\ plan[c].current = <<>>

\* Per call: it has read, and archives, what the buffer holds.
LogOf(c) ==
  /\ pc[c] = "read" /\ "current" \notin todo[c] => seen[c].current = current
  /\ pc[c] = "archive" => ArchiveOf(c)

LogInv == TypeInv /\ SerialInv /\ \A c \in Calls : LogOf(c)

\* The faults after which a session is still one log.
LoggedFaults ==
  "write" \notin FaultKinds
    /\ "crash" \notin FaultKinds /\ "archiveLate" \notin FaultKinds

\* Before the first call the log is empty.
LEMMA LogInit == Init => LogInv /\ Log!Init
<1> SUFFICES ASSUME Init PROVE LogInv /\ Log!Init
  OBVIOUS
<1>1. \A c \in Calls : pc[c] = "new"
  BY DEF Init
<1>2. \A c \in Calls : LogOf(c)
  BY <1>1 DEF LogOf
<1>3. AcceptedCurrent = <<>>
  BY <1>1, AcceptedIdle DEF Init, Writer
<1>4. {r \in Rounds : pc[r] \in {"new", "read", "archive"}} = Rounds
  BY <1>1, BatchType
<1> QED BY <1>2, <1>3, <1>4, TypeInit, SerialInit DEF LogInv, Log!Init, Init

\* What a round archives is what the log delivers.
LEMMA PayloadDelivered ==
  ASSUME TypeOK, NEW r \in Rounds
  PROVE  PreparedPayload(r) \in Log!Deliveries(seen[r].current \o Batch[r])
<1> DEFINE all == seen[r].current \o Batch[r]
           sizes == Sizes(seen[r].current, Batch[r])
           h == HeadCount(sizes)
           k == TailCount(sizes)
<1>1. seen[r].current \in Texts /\ Batch[r] \in Texts
  BY BatchType, LocalTypes
<1>2. Len(sizes) = Len(all) /\ Len(all) \in Nat
  BY <1>1, SizesLen
<1> HIDE DEF all, sizes
<1>3. PreparedPayload(r) = IF UseCompress(r) /\ IsCut(sizes) THEN Omission(all, h, k) ELSE all
  BY DEF PreparedPayload, all, sizes
<1>4. CASE ~(UseCompress(r) /\ IsCut(sizes))
  <2>1. PreparedPayload(r) = all
    BY <1>3, <1>4
  <2>2. all \in Log!Deliveries(all)
    BY DEF Log!Deliveries
  <2> QED BY <2>1, <2>2 DEF all
<1>5. CASE UseCompress(r) /\ IsCut(sizes)
  <2>1. h \in 0..Len(all) /\ k \in 0..(Len(all) - h)
        /\ (Len(all) > 0 => h > 0) /\ (h < Len(all) => k > 0)
    BY <1>2, CutCounts
  <2>2. h + k < Len(all)
    BY <1>2, <1>5 DEF IsCut
  <2> HIDE DEF h, k
  <2> DEFINE first == h + 1
             last == Len(all) - k
  <2>3. first \in 2..(Len(all) - 1) /\ last \in 2..(Len(all) - 1) /\ first - 1 = h
    BY <1>2, <2>1, <2>2
  <2>4. Log!WithoutMiddle(all, first, last) = Omission(all, h, k)
    BY <2>3 DEF Log!WithoutMiddle, Omission
  <2>5. Log!WithoutMiddle(all, first, last) \in Log!Deliveries(all)
    BY <2>3 DEF Log!Deliveries
  <2> QED BY <1>3, <1>5, <2>4, <2>5 DEF all, h, k
<1> QED BY <1>4, <1>5

\* A step of a handler while the others do not work.
LEMMA LogStep ==
  ASSUME LogInv, TypeInv', SerialInv', NEW c \in Calls,
         \A d \in Calls \ {c} : ~Busy(d) /\ pc'[d] = pc[d],
         LogOf(c)'
  PROVE  LogInv'
<1>1. ASSUME NEW d \in Calls, d # c
      PROVE  LogOf(d)'
  <2>1. pc'[d] \notin {"read", "archive", "write"}
    BY <1>1 DEF Busy
  <2> QED BY <2>1 DEF LogOf
<1> QED BY <1>1 DEF LogInv

\* What the abstract log sees of the session.
LogVars == <<archived, AcceptedCurrent, Unsent>>

\* A decision to archive: nothing that the log knows changes.
LEMMA LogDecide ==
  ASSUME LogInv, TypeInv', SerialInv', NEW c \in Calls, NEW x, NEW y, NEW z,
         Decide(c, Plan(x, y, z)), ThenArchive(c),
         IF c \in Rounds
         THEN \/ x = seen[c].current /\ seen[c].current # <<>> /\ y = Batch[c]
              \/ x \in Log!Deliveries(seen[c].current \o Batch[c]) /\ y = <<>>
         ELSE x = seen[c].current /\ seen[c].current # <<>> /\ y = <<>>
  PROVE  LogInv' /\ UNCHANGED LogVars
<1>1. /\ TypeInv /\ pc \in [Calls -> Stages] /\ todo \in [Calls -> SUBSET Files] /\ SerialInv
  BY DEF LogInv, TypeInv, TypeOK, Stages
<1>2. /\ plan'[c].payload = x /\ plan'[c].current = y /\ pc[c] = "read" /\ todo[c] = {}
      /\ UNCHANGED <<current, archived>>
  BY <1>1, Decided
<1>3. seen[c].current = current
  BY <1>2 DEF LogInv, LogOf
<1>4. pc'[c] = "archive" /\ todo'[c] = {}
  BY <1>1, <1>2 DEF ThenArchive
<1>5. \A d \in Calls \ {c} : ~Busy(d) /\ pc'[d] = pc[d]
  <2>1. Busy(c)
    BY <1>2 DEF Busy
  <2>2. \A d \in Calls \ {c} : pc'[d] = pc[d]
    BY <1>1 DEF ThenArchive
  <2> QED BY <1>1, <2>1, <2>2, Alone
<1>6. LogOf(c)'
  BY <1>2, <1>3, <1>4 DEF LogOf, ArchiveOf
<1>7. LogInv'
  BY <1>5, <1>6, LogStep
<1>8. (\A d \in Calls : ~Writer(d)) /\ (\A d \in Calls : ~Writer(d)')
  BY <1>2, <1>4, <1>5 DEF Writer, Busy
<1>9. UNCHANGED AcceptedCurrent
  BY <1>2, <1>8, AcceptedIdle
<1>10. UNCHANGED Unsent
  <2>1. \A r \in Rounds : pc'[r] \in {"new", "read", "archive"} <=> pc[r] \in {"new", "read", "archive"}
    BY <1>2, <1>4, <1>5, BatchType
  <2> QED BY <2>1 DEF Unsent
<1> QED BY <1>2, <1>7, <1>9, <1>10 DEF LogVars

\* A step before a handler has accepted its round, or of one that keeps a
\* round: the log does not change.
LEMMA LogQuiet ==
  ASSUME LogInv, TypeInv', SerialInv', NEW c \in Calls,
         \A d \in Calls \ {c} : ~Busy(d) /\ pc'[d] = pc[d],
         LogOf(c)', ~Writer(c), ~Writer(c)', UNCHANGED <<current, archived>>
  PROVE  /\ LogInv' /\ UNCHANGED <<archived, AcceptedCurrent>>
         /\ (c \in Rounds =>
               (pc'[c] \in {"new", "read", "archive"} <=> pc[c] \in {"new", "read", "archive"}))
              => UNCHANGED Unsent
         /\ c \in Rounds /\ pc[c] \in {"new", "read", "archive"} /\ pc'[c] \notin {"new", "read", "archive"}
              => c \in Unsent /\ Unsent' = Unsent \ {c}
<1>1. LogInv'
  BY LogStep
<1>2. (\A d \in Calls : ~Writer(d)) /\ (\A d \in Calls : ~Writer(d)')
  BY DEF Writer, Busy
<1>3. UNCHANGED AcceptedCurrent
  BY <1>2, AcceptedIdle
<1>4. ASSUME c \in Rounds =>
               (pc'[c] \in {"new", "read", "archive"} <=> pc[c] \in {"new", "read", "archive"})
      PROVE  UNCHANGED Unsent
  <2>1. \A r \in Rounds : pc'[r] \in {"new", "read", "archive"} <=> pc[r] \in {"new", "read", "archive"}
    BY <1>4, BatchType
  <2> QED BY <2>1 DEF Unsent
<1>5. ASSUME c \in Rounds, pc[c] \in {"new", "read", "archive"}, pc'[c] \notin {"new", "read", "archive"}
      PROVE  c \in Unsent /\ Unsent' = Unsent \ {c}
  <2>1. \A r \in Rounds \ {c} : pc'[r] = pc[r]
    BY BatchType
  <2> QED BY <1>5, <2>1 DEF Unsent
<1> QED BY <1>1, <1>3, <1>4, <1>5

\* The step of the log that a handler takes when it begins to write.
LEMMA LogArchive ==
  ASSUME LogInv, TypeInv', SerialInv', NEW c \in Calls, Archive(c)
  PROVE  LogInv' /\ Log!Next
<1>1. /\ TypeInv /\ pc \in [Calls -> Stages] /\ todo \in [Calls -> SUBSET Files] /\ SerialInv
  BY DEF LogInv, TypeInv, TypeOK, Stages
<1>2. /\ pc[c] = "archive" /\ UNCHANGED <<current, plan>> /\ archived' = archived \o plan[c].payload
  BY DEF Archive, Register, Buffer
<1>3. pc'[c] = "write" /\ todo'[c] = Files /\ \A d \in Calls \ {c} : pc'[d] = pc[d] /\ todo'[d] = todo[d]
  BY <1>1 DEF Archive, ThenWrite
<1>4. \A d \in Calls \ {c} : ~Busy(d) /\ pc'[d] = pc[d]
  <2>1. Busy(c)
    BY <1>2 DEF Busy
  <2> QED BY <1>1, <1>3, <2>1, Alone
<1>5. LogInv'
  <2>1. LogOf(c)'
    BY <1>3 DEF LogOf
  <2> QED BY <1>4, <2>1, LogStep
<1>6. AcceptedCurrent = current
  <2>1. \A d \in Calls : ~Writer(d)
    BY <1>2, <1>4 DEF Writer, Busy
  <2> QED BY <2>1, AcceptedIdle
<1>7. AcceptedCurrent' = plan[c].current
  <2>1. Writer(c)'
    BY <1>3 DEF Writer, Files
  <2>2. \A d \in Calls : Writer(d)' => d = c
    BY <1>4 DEF Writer, Busy
  <2>3. AcceptedCurrent' = plan'[c].current
    BY <2>1, <2>2, AcceptedOfWriterNext
  <2> QED BY <1>2, <2>3
<1>8. ArchiveOf(c)
  BY <1>2 DEF LogInv, LogOf
<1>9. c \in Rounds => c \in Unsent /\ Unsent' = Unsent \ {c}
  <2>1. \A r \in Rounds \ {c} : pc'[r] = pc[r]
    BY <1>4, BatchType
  <2> QED BY <1>2, <1>3, <2>1 DEF Unsent
<1>10. c \notin Rounds => UNCHANGED Unsent
  <2>1. ASSUME c \notin Rounds PROVE \A r \in Rounds : pc'[r] = pc[r]
    BY <1>4, <2>1, BatchType
  <2> QED BY <2>1 DEF Unsent
<1>11. CASE c \in Rounds
  <2>1. CASE plan[c].payload = current /\ current # <<>> /\ plan[c].current = Batch[c]
    <3>1. Log!SwitchTopic(c)
      BY <1>2, <1>6, <1>7, <1>9, <1>11, <2>1 DEF Log!SwitchTopic, Log!Take, Unsent
    <3> QED BY <1>5, <1>11, <3>1 DEF Log!Next
  <2>2. CASE plan[c].payload \in Log!Deliveries(current \o Batch[c]) /\ plan[c].current = <<>>
    <3>1. Log!Take(c)
      BY <1>9, <1>11 DEF Log!Take, Unsent
    <3>2. \E piece \in Log!Deliveries(AcceptedCurrent \o Batch[c]) : archived' = archived \o piece
      BY <1>2, <1>6, <2>2
    <3>3. AcceptedCurrent' = <<>>
      BY <1>7, <2>2
    <3>4. Log!AcceptAndDeliver(c)
      BY <3>1, <3>2, <3>3 DEF Log!AcceptAndDeliver
    <3> QED BY <1>5, <1>11, <3>4 DEF Log!Next
  <2> QED BY <1>8, <1>11, <2>1, <2>2 DEF ArchiveOf
<1>12. CASE c \notin Rounds
  <2>1. plan[c].payload = current /\ current # <<>> /\ plan[c].current = <<>>
    BY <1>8, <1>12 DEF ArchiveOf
  <2>2. Log!Deliver
    BY <1>2, <1>6, <1>7, <1>10, <1>12, <2>1 DEF Log!Deliver, Unsent
  <2> QED BY <1>5, <2>2 DEF Log!Next
<1> QED BY <1>11, <1>12

\* A round that is buffered is accepted.
LEMMA LogAccept ==
  ASSUME LogInv, TypeInv', SerialInv', NEW r \in Rounds, KeepBuffering(r)
  PROVE  LogInv' /\ Log!Next
<1>1. /\ TypeInv /\ pc \in [Calls -> Stages] /\ todo \in [Calls -> SUBSET Files] /\ SerialInv /\ r \in Calls
  BY BatchType DEF LogInv, TypeInv, TypeOK, Stages
<1> DEFINE y == seen[r].current \o Batch[r]
<1>2. Decide(r, Plan(<<>>, y, NextCounters(r))) /\ ThenWrite(r)
  BY DEF KeepBuffering
<1> HIDE DEF y
<1>3. /\ plan'[r].current = y /\ pc[r] = "read" /\ todo[r] = {} /\ UNCHANGED <<current, archived>>
  BY <1>1, <1>2, Decided
<1>4. seen[r].current = current
  BY <1>1, <1>3 DEF LogInv, LogOf
<1>5. pc'[r] = "write" /\ todo'[r] = Files /\ \A d \in Calls \ {r} : pc'[d] = pc[d] /\ todo'[d] = todo[d]
  BY <1>1, <1>2 DEF ThenWrite
<1>6. \A d \in Calls \ {r} : ~Busy(d) /\ pc'[d] = pc[d]
  <2>1. Busy(r)
    BY <1>3 DEF Busy
  <2> QED BY <1>1, <1>5, <2>1, Alone
<1>7. LogInv'
  <2>1. LogOf(r)'
    BY <1>5 DEF LogOf
  <2> QED BY <1>1, <1>6, <2>1, LogStep
<1>8. AcceptedCurrent = current
  <2>1. \A d \in Calls : ~Writer(d)
    BY <1>3, <1>6 DEF Writer, Busy
  <2> QED BY <2>1, AcceptedIdle
<1>9. AcceptedCurrent' = y
  <2>1. Writer(r)'
    BY <1>5 DEF Writer, Files
  <2>2. \A d \in Calls : Writer(d)' => d = r
    BY <1>6 DEF Writer, Busy
  <2>3. AcceptedCurrent' = plan'[r].current
    BY <1>1, <2>1, <2>2, AcceptedOfWriterNext
  <2> QED BY <1>3, <2>3
<1>10. r \in Unsent /\ Unsent' = Unsent \ {r}
  <2>1. \A q \in Rounds \ {r} : pc'[q] = pc[q]
    BY <1>6, BatchType
  <2> QED BY <1>3, <1>5, <2>1 DEF Unsent
<1>11. Log!Take(r)
  BY <1>10 DEF Log!Take, Unsent
<1>12. AcceptedCurrent' = AcceptedCurrent \o Batch[r]
  BY <1>4, <1>8, <1>9 DEF y
<1>13. Log!Accept(r)
  BY <1>3, <1>11, <1>12 DEF Log!Accept
<1> QED BY <1>7, <1>13 DEF Log!Next

\* The two writes carry out what the log has already recorded.
LEMMA LogWrite ==
  ASSUME LogInv, TypeInv', SerialInv', NEW c \in Calls, WriteCurrent(c) \/ WriteMeta(c)
  PROVE  LogInv' /\ UNCHANGED LogVars
<1>0. /\ TypeInv /\ pc \in [Calls -> Stages] /\ todo \in [Calls -> SUBSET Files] /\ SerialInv
  BY DEF LogInv, TypeInv, TypeOK, Stages
<1>1. PICK file \in Files : /\ Writing(c, file) /\ Wrote(c, file)
                            /\ file = "current" => current' = plan[c].current
                            /\ file = "meta" => UNCHANGED current
  BY DEF WriteCurrent, WriteMeta, Files
<1>2. pc[c] = "write" /\ file \in todo[c]
  BY <1>0, <1>1 DEF Writing, SerialInv, IdleInv, IdleHasNothingToDo, NoFiles
<1>3. /\ UNCHANGED <<seen, plan, archived>> /\ todo' = [todo EXCEPT ![c] = @ \ {file}]
      /\ pc' = IF todo[c] = {file} THEN [pc EXCEPT ![c] = "done"] ELSE pc
  BY <1>1, <1>2 DEF Wrote, History
<1>4. /\ todo'[c] = todo[c] \ {file} /\ pc'[c] = (IF todo[c] = {file} THEN "done" ELSE "write")
      /\ \A d \in Calls \ {c} : pc'[d] = pc[d] /\ todo'[d] = todo[d]
  BY <1>0, <1>2, <1>3
<1>5. \A d \in Calls \ {c} : ~Busy(d) /\ pc'[d] = pc[d]
  <2>1. Busy(c)
    BY <1>2 DEF Busy
  <2> QED BY <1>0, <1>4, <2>1, Alone
<1>6. LogInv'
  <2>1. LogOf(c)'
    BY <1>4 DEF LogOf
  <2> QED BY <1>5, <2>1, LogStep
<1>7. \A d \in Calls : (Writer(d) => d = c) /\ (Writer(d)' => d = c)
  BY <1>5 DEF Writer, Busy
<1>8. UNCHANGED AcceptedCurrent
  <2>1. CASE file = "current"
    <3>1. Writer(c) /\ ~Writer(c)'
      BY <1>2, <1>4, <2>1 DEF Writer
    <3>2. AcceptedCurrent = plan[c].current
      BY <1>7, <3>1, AcceptedOfWriter
    <3>3. AcceptedCurrent' = current'
      BY <1>7, <3>1, AcceptedIdle
    <3> QED BY <1>1, <2>1, <3>2, <3>3
  <2>2. CASE file = "meta" /\ "current" \in todo[c]
    <3>1. Writer(c) /\ Writer(c)'
      BY <1>2, <1>4, <2>2 DEF Writer
    <3>2. AcceptedCurrent = plan[c].current
      BY <1>7, <3>1, AcceptedOfWriter
    <3>3. AcceptedCurrent' = plan'[c].current
      BY <1>7, <3>1, AcceptedOfWriterNext
    <3> QED BY <1>3, <3>2, <3>3
  <2>3. CASE file = "meta" /\ "current" \notin todo[c]
    <3>1. ~Writer(c) /\ ~Writer(c)'
      BY <1>4, <2>3 DEF Writer
    <3>2. AcceptedCurrent = current /\ AcceptedCurrent' = current'
      BY <1>7, <3>1, AcceptedIdle
    <3> QED BY <1>1, <2>3, <3>2
  <2> QED BY <2>1, <2>2, <2>3 DEF Files
<1>9. UNCHANGED Unsent
  <2>1. \A r \in Rounds : pc'[r] \in {"new", "read", "archive"} <=> pc[r] \in {"new", "read", "archive"}
    BY <1>2, <1>4, BatchType
  <2> QED BY <2>1 DEF Unsent
<1> QED BY <1>3, <1>6, <1>8, <1>9 DEF LogVars

\* A call that fails before it has accepted its round rejects it.
LEMMA LogReject ==
  ASSUME LogInv, TypeInv', SerialInv', LoggedFaults, NEW c \in Calls, ReadFails(c) \/ ArchiveFails(c)
  PROVE  LogInv' /\ (Log!Next \/ UNCHANGED LogVars)
<1>0. /\ TypeInv /\ pc \in [Calls -> Stages] /\ SerialInv
  BY DEF LogInv, TypeInv, TypeOK, Stages
<1>1. UNCHANGED <<current, archived>> /\ pc[c] \in {"read", "archive"} /\ pc' = [pc EXCEPT ![c] = "failed"]
  BY DEF ReadFails, ArchiveFails, Fault, LoggedFaults, Buffer, History
<1>2. pc'[c] = "failed" /\ \A d \in Calls \ {c} : pc'[d] = pc[d]
  BY <1>0, <1>1
<1>3. \A d \in Calls \ {c} : ~Busy(d) /\ pc'[d] = pc[d]
  <2>1. Busy(c)
    BY <1>1 DEF Busy
  <2> QED BY <1>0, <1>2, <2>1, Alone
<1>4. LogOf(c)' /\ ~Writer(c) /\ ~Writer(c)'
  BY <1>1, <1>2 DEF LogOf, Writer
<1>5. CASE c \in Rounds
  <2>1. LogInv' /\ UNCHANGED <<archived, AcceptedCurrent>> /\ c \in Unsent /\ Unsent' = Unsent \ {c}
    BY <1>1, <1>2, <1>3, <1>4, <1>5, LogQuiet
  <2>2. Log!Reject(c)
    BY <2>1 DEF Log!Reject, Log!Take, Unsent
  <2> QED BY <1>5, <2>1, <2>2 DEF Log!Next
<1>6. CASE c \notin Rounds
  BY <1>1, <1>3, <1>4, <1>6, LogQuiet DEF LogVars
<1> QED BY <1>5, <1>6

\* Every step of the session is a step of the log, or none.
LEMMA LogNext ==
  ASSUME LoggedFaults, LogInv, [SerialNext]_vars
  PROVE  LogInv' /\ (Log!Next \/ UNCHANGED LogVars)
<1>0. /\ TypeInv /\ TypeInv' /\ pc \in [Calls -> Stages] /\ todo \in [Calls -> SUBSET Files]
      /\ seen \in [Calls -> [current : Texts, meta : CountersType]]
      /\ plan \in [Calls -> PlanType] /\ TypeOK
      /\ [Next]_vars /\ \A c \in Calls : Call(c) => \A d \in Calls : ~Busy(d)
      /\ SerialInv /\ SerialInv' /\ \A c \in Calls : LogOf(c)
  BY TypeNext, SerialStep DEF LogInv, TypeInv, TypeOK, Stages, PlanType, LoggedFaults
<1> DEFINE Goal == LogInv' /\ (Log!Next \/ UNCHANGED LogVars)
<1>1. ASSUME NEW c \in Calls, Call(c)
      PROVE  Goal
  <2>1. UNCHANGED <<current, archived>> /\ pc[c] = "new"
    BY <1>1 DEF Call, Buffer, History
  <2>2. pc'[c] = "read" /\ todo'[c] = Files /\ \A d \in Calls \ {c} : pc'[d] = pc[d]
    BY <1>0, <1>1 DEF Call
  <2>3. \A d \in Calls : ~Busy(d)
    BY <1>0, <1>1
  <2>4. LogOf(c)' /\ ~Writer(c) /\ ~Writer(c)'
    BY <2>1, <2>2 DEF LogOf, Files, Writer
  <2> QED BY <1>0, <2>1, <2>2, <2>3, <2>4, LogQuiet DEF LogVars
<1>2. ASSUME NEW c \in Calls, ReadCurrent(c) \/ ReadMeta(c)
      PROVE  Goal
  <2>1. UNCHANGED <<current, archived, pc, plan>> /\ pc[c] = "read"
    BY <1>2 DEF ReadCurrent, ReadMeta, Buffer, History
  <2>2. \A d \in Calls \ {c} : ~Busy(d) /\ pc'[d] = pc[d]
    <3>1. Busy(c)
      BY <2>1 DEF Busy
    <3> QED BY <1>0, <2>1, <3>1, Alone
  <2>3. "current" \notin todo'[c] => seen'[c].current = current
    <3>1. CASE ReadCurrent(c)
      <4>1. seen' = [seen EXCEPT ![c].current = current]
        BY <3>1 DEF ReadCurrent
      <4> QED BY <1>0, <4>1
    <3>2. CASE ReadMeta(c)
      <4>1. seen' = [seen EXCEPT ![c].meta = meta] /\ todo' = [todo EXCEPT ![c] = @ \ {"meta"}]
        BY <3>2 DEF ReadMeta
      <4>2. seen'[c].current = seen[c].current /\ ("current" \in todo'[c] <=> "current" \in todo[c])
        BY <1>0, <4>1
      <4> QED BY <1>0, <2>1, <4>2 DEF LogOf
    <3> QED BY <1>2, <3>1, <3>2
  <2>4. LogOf(c)' /\ ~Writer(c) /\ ~Writer(c)'
    BY <2>1, <2>3 DEF LogOf, Writer
  <2> QED BY <1>0, <2>1, <2>2, <2>4, LogQuiet DEF LogVars
<1>3. ASSUME NEW r \in Rounds, SwitchTopic(r)
      PROVE  Goal
  <2>1. r \in Calls
    BY BatchType
  <2>2. seen[r].current # <<>> /\ ThenArchive(r) /\ Decide(r, Plan(seen[r].current, Batch[r], Counters(Batch[r])))
    BY <1>3 DEF SwitchTopic
  <2> QED BY <1>0, <2>1, <2>2, LogDecide
<1>4. ASSUME NEW r \in Rounds, ArchiveAll(r)
      PROVE  Goal
  <2>1. r \in Calls
    BY BatchType
  <2>2. ThenArchive(r) /\ Decide(r, Plan(PreparedPayload(r), <<>>, ZeroCounters))
    BY <1>4 DEF ArchiveAll
  <2>3. PreparedPayload(r) \in Log!Deliveries(seen[r].current \o Batch[r])
    BY <1>0, PayloadDelivered
  <2> QED BY <1>0, <2>1, <2>2, <2>3, LogDecide
<1>5. ASSUME NEW f \in Calls, f \notin Rounds, FlushAll(f)
      PROVE  Goal
  <2>1. seen[f].current # <<>> /\ ThenArchive(f) /\ Decide(f, Plan(seen[f].current, <<>>, ZeroCounters))
    BY <1>5 DEF FlushAll
  <2> QED BY <1>0, <1>5, <2>1, LogDecide
<1>6. ASSUME NEW f \in Calls, f \notin Rounds, FlushNothing(f)
      PROVE  Goal
  <2>1. UNCHANGED <<current, archived>> /\ pc[f] = "read"
    BY <1>6 DEF FlushNothing, Decide, Buffer, History
  <2>2. pc'[f] = "done" /\ \A d \in Calls \ {f} : pc'[d] = pc[d]
    BY <1>0, <1>6 DEF FlushNothing
  <2>3. \A d \in Calls \ {f} : ~Busy(d) /\ pc'[d] = pc[d]
    <3>1. Busy(f)
      BY <2>1 DEF Busy
    <3> QED BY <1>0, <2>2, <3>1, Alone
  <2>4. LogOf(f)' /\ ~Writer(f) /\ ~Writer(f)'
    BY <2>1, <2>2 DEF LogOf, Writer
  <2> QED BY <1>0, <1>6, <2>1, <2>3, <2>4, LogQuiet DEF LogVars
<1>7. ASSUME NEW c \in Calls, Reply(c) \/ Timeout(c)
      PROVE  Goal
  <2>1. UNCHANGED <<current, archived, pc, todo, seen, plan>>
    BY <1>7 DEF Reply, Timeout, Buffer, History
  <2>2. \A d \in Calls : LogOf(d)'
    BY <1>0, <2>1 DEF LogOf, ArchiveOf
  <2>3. UNCHANGED <<AcceptedCurrent, Unsent>>
    BY <2>1 DEF AcceptedCurrent, Unsent
  <2> QED BY <1>0, <2>1, <2>2, <2>3 DEF LogInv, LogVars
<1>8. \A c \in Calls : ~Crash(c) /\ \A file \in Files : ~WriteFails(c, file)
  BY DEF Crash, WriteFails, Fault, LoggedFaults
<1>9. CASE UNCHANGED vars
  <2>1. \A d \in Calls : LogOf(d)'
    BY <1>0, <1>9 DEF LogOf, ArchiveOf, vars
  <2>2. UNCHANGED <<AcceptedCurrent, Unsent, archived>>
    BY <1>9 DEF AcceptedCurrent, Unsent, vars
  <2> QED BY <1>0, <2>1, <2>2 DEF LogInv, LogVars
<1>10. CASE Next
  <2>1. Flushes \cup PanelFlushes \subseteq Calls /\ Rounds \cap (Flushes \cup PanelFlushes) = {}
    BY SessionAssumption DEF Calls
  <2>2. ASSUME NEW c \in Calls, Archive(c) PROVE Goal
    BY <1>0, <2>2, LogArchive
  <2>3. ASSUME NEW c \in Calls, WriteCurrent(c) \/ WriteMeta(c) PROVE Goal
    BY <1>0, <2>3, LogWrite
  <2>4. ASSUME NEW c \in Calls, ReadFails(c) \/ ArchiveFails(c) PROVE Goal
    BY <1>0, <2>4, LogReject
  <2>5. ASSUME NEW r \in Rounds, KeepBuffering(r) PROVE Goal
    BY <1>0, <2>5, LogAccept
  <2> HIDE DEF Goal
  <2>6. Goal
    BY <1>1, <1>2, <1>3, <1>4, <1>5, <1>6, <1>7, <1>8, <1>10, <2>1, <2>2, <2>3, <2>4, <2>5 DEF Next
  <2> QED BY <2>6 DEF Goal
<1> QED BY <1>0, <1>9, <1>10

\* The handlers of a session, with their reads, decisions, archives and two
\* writes, implement a log that takes a round whole, delivers it once and in
\* order, or rejects it: step by step, where handlers take turns and no write
\* or crash tears a call apart, whoever calls and whatever times out.
THEOREM LogCorrect ==
  ASSUME {"write", "crash", "archiveLate"} \cap FaultKinds = {}
  PROVE  SerialSpec => ImplementsLog
<1>1. LoggedFaults
  BY DEF LoggedFaults
<1>2. LogInv /\ [SerialNext]_vars => LogInv' /\ [Log!Next]_(Log!vars)
  <2> SUFFICES ASSUME LogInv, [SerialNext]_vars PROVE LogInv' /\ [Log!Next]_(Log!vars)
    OBVIOUS
  <2>1. LogInv' /\ (Log!Next \/ UNCHANGED LogVars)
    BY <1>1, LogNext
  <2>2. UNCHANGED LogVars => UNCHANGED Log!vars
    BY DEF LogVars, Log!vars, Unsent
  <2> QED BY <2>1, <2>2
<1> QED BY LogInit, <1>2, PTL DEF SerialSpec, ImplementsLog, Log!Spec
=============================================================================
