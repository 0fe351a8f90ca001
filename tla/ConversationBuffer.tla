-------------------------- MODULE ConversationBuffer --------------------------
(***************************************************************************)
(* One session's conversation buffer in Core: the data-current and         *)
(* meta.json files, the handlers of conversation/add and                   *)
(* conversation/force-archive that read, archive and write them without a  *)
(* lock, and the proxy, which sends a round and waits for its answer, or,  *)
(* when it streams, sends it in the background while the session goes on.  *)
(* trigger.archive is one step here; SkillTrigger has its inside.  A       *)
(* message is an atom with the size it has raw and after compression.      *)
(***************************************************************************)
EXTENDS Oversize

CONSTANTS
  Messages, Placeholder,          \* what batches hold; the note left by a cut
  Rounds,                         \* the conversation/add calls of the session
  Batch,                          \* Batch[r]: the messages that round r sends
  Streamed,                       \* the rounds whose answer the proxy streams
  Flushes, PanelFlushes,          \* force-archive from the session / the panel
  RawBytes, CompressedBytes,      \* size of a message before and after compression
  ToolCalls,                      \* the messages whose role is tool_call
  ToolCallThreshold, BytesThreshold, RequestCompressThresholdBytes,
  BoundaryProfile, MinToolCalls,  \* "legacy" detects no boundary
  FaultKinds, MaxFaults,          \* which faults happen, and how many at most
  NoCall

Calls == Rounds \cup Flushes \cup PanelFlushes

\* The calls that the session's next call need not wait for.
Background == Streamed \cup PanelFlushes

Files == {"current", "meta"}
AllFaults == {"timeout", "read", "write", "archive", "archiveLate", "crash"}

ASSUME SessionAssumption ==
  /\ Batch \in [Rounds -> Seq(Messages) \ {<<>>}]
  /\ Placeholder \notin Messages
  /\ Streamed \subseteq Rounds
  /\ Rounds \cap (Flushes \cup PanelFlushes) = {}
  /\ NoCall \notin Calls
  /\ IsFiniteSet(Calls)

\* A message is an occurrence, not its text: two rounds share none.
ASSUME OccurrencesAssumption ==
  \A q, r \in Rounds : q # r => Range(Batch[q]) \cap Range(Batch[r]) = {}

ASSUME SizesAssumption ==
  /\ RawBytes \in [Messages -> Nat] /\ CompressedBytes \in [Messages -> Nat]
  /\ ToolCalls \subseteq Messages
  /\ {ToolCallThreshold, BytesThreshold, RequestCompressThresholdBytes, MinToolCalls} \subseteq Nat
  /\ BoundaryProfile \in {"legacy", "sop_v1"}
  /\ FaultKinds \subseteq AllFaults /\ MaxFaults \in Nat

VARIABLES
  current,    \* data-current: the messages not archived yet
  meta,       \* meta.json: the counters of current
  pc,         \* where each call's handler stands
  todo,       \* files the handler has still to read, or still to write
  seen,       \* what the handler read
  plan,       \* what it archives, writes back, and omits from the archive
  inFlight,   \* the call that the session's proxy waits for
  archived,   \* history: the messages handed to the extraction, in order
  omitted,    \* history: the messages cut out of archives
  overlapped, \* history: two handlers have worked at the same time
  faults      \* counter, bounded by MaxFaults

vars == <<current, meta, pc, todo, seen, plan, inFlight, archived, omitted, overlapped, faults>>

-----------------------------------------------------------------------------
ToolCallCount(msgs) == Cardinality({i \in DOMAIN msgs : msgs[i] \in ToolCalls})
ByteCount(msgs) == Total([i \in DOMAIN msgs |-> RawBytes[msgs[i]]], DOMAIN msgs)
Counters(msgs) == [tools |-> ToolCallCount(msgs), bytes |-> ByteCount(msgs)]
ZeroCounters == [tools |-> 0, bytes |-> 0]

UseCompress(r) == ByteCount(Batch[r]) >= RequestCompressThresholdBytes

NextCounters(r) ==
  [tools |-> seen[r].meta.tools + ToolCallCount(Batch[r]),
   bytes |-> seen[r].meta.bytes + ByteCount(Batch[r])]

\* Mutant: a threshold that is reached exactly does not count.
HitsThresholdLate(r) ==
  \/ NextCounters(r).tools > ToolCallThreshold
  \/ NextCounters(r).bytes > BytesThreshold

HitsThreshold(r) ==
  \/ NextCounters(r).tools >= ToolCallThreshold
  \/ NextCounters(r).bytes >= BytesThreshold

\* evaluateSopBoundary: the score of the texts is any, its guards are kept.
MayOpenTopic(r) ==
  BoundaryProfile # "legacy" /\ ToolCallCount(seen[r].current) >= MinToolCalls
MayCloseTopic(r) ==
  BoundaryProfile # "legacy" /\ ToolCallCount(seen[r].current \o Batch[r]) >= MinToolCalls

\* Existing messages keep their raw size, incoming ones are compressed.
Sizes(existing, batch) ==
  [i \in DOMAIN existing |-> RawBytes[existing[i]]]
    \o [i \in DOMAIN batch |-> CompressedBytes[batch[i]]]

Omission(msgs, head, tail) ==
  SubSeq(msgs, 1, head) \o <<Placeholder>> \o SubSeq(msgs, Len(msgs) - tail + 1, Len(msgs))

PreparedPayload(r) ==
  LET all == seen[r].current \o Batch[r]
      sizes == Sizes(seen[r].current, Batch[r])
  IN IF UseCompress(r) /\ IsCut(sizes)
     THEN Omission(all, HeadCount(sizes), TailCount(sizes))
     ELSE all

\* The plans of a handler: what to archive, then what to write back.
Plan(payload, rest, counters) == [payload |-> payload, current |-> rest, meta |-> counters]

NothingSeen == [current |-> <<>>, meta |-> ZeroCounters]
NoPlan == Plan(<<>>, <<>>, ZeroCounters)

-----------------------------------------------------------------------------
Init ==
  /\ current = <<>> /\ meta = ZeroCounters
  /\ pc = [c \in Calls |-> "new"]
  /\ todo = [c \in Calls |-> {}]
  /\ seen = [c \in Calls |-> NothingSeen]
  /\ plan = [c \in Calls |-> NoPlan]
  /\ inFlight = NoCall
  /\ archived = <<>> /\ omitted = {} /\ overlapped = FALSE /\ faults = 0

Buffer == <<current, meta>>
History == <<archived, omitted, overlapped>>

\* A call whose handler works in Core, a late write of a failed one included.
Busy(c) == pc[c] \in {"read", "archive", "write"} \/ todo[c] # {}

\* A round that is not streamed, or a command of the session, is answered
\* after its call.  A streamed round was answered from the other half of the
\* tee before; its call, like the panel's, comes and ends any time.
Call(c) ==
  /\ pc[c] = "new"
  /\ IF c \in Background
     THEN UNCHANGED inFlight
     ELSE inFlight = NoCall /\ inFlight' = c
  /\ pc' = [pc EXCEPT ![c] = "read"]
  /\ todo' = [todo EXCEPT ![c] = Files]
  /\ overlapped' = (overlapped \/ \E d \in Calls : Busy(d))
  /\ UNCHANGED <<Buffer, seen, plan, archived, omitted, faults>>

ReadCurrent(c) ==
  /\ pc[c] = "read" /\ "current" \in todo[c]
  /\ seen' = [seen EXCEPT ![c].current = current]
  /\ todo' = [todo EXCEPT ![c] = @ \ {"current"}]
  /\ UNCHANGED <<Buffer, pc, plan, inFlight, History, faults>>

ReadMeta(c) ==
  /\ pc[c] = "read" /\ "meta" \in todo[c]
  /\ seen' = [seen EXCEPT ![c].meta = meta]
  /\ todo' = [todo EXCEPT ![c] = @ \ {"meta"}]
  /\ UNCHANGED <<Buffer, pc, plan, inFlight, History, faults>>

\* A handler that has read both files picks one of the following.
Decide(c, p) ==
  /\ pc[c] = "read" /\ todo[c] = {}
  /\ plan' = [plan EXCEPT ![c] = p]
  /\ UNCHANGED <<Buffer, seen, inFlight, History, faults>>

ThenArchive(c) == pc' = [pc EXCEPT ![c] = "archive"] /\ UNCHANGED todo

ThenWrite(c) ==
  /\ pc' = [pc EXCEPT ![c] = "write"]
  /\ todo' = [todo EXCEPT ![c] = Files]

\* Mutant: the new round is archived with the previous workflow.
SwitchTopicArchivingRound(r) ==
  /\ ~UseCompress(r) /\ seen[r].current # <<>> /\ MayOpenTopic(r)
  /\ Decide(r, Plan(seen[r].current \o Batch[r], Batch[r], Counters(Batch[r])))
  /\ ThenArchive(r)

\* Mutant: the counters of the previous workflow count for the next one.
SwitchTopicKeepingCounters(r) ==
  /\ ~UseCompress(r) /\ seen[r].current # <<>> /\ MayOpenTopic(r)
  /\ Decide(r, Plan(seen[r].current, Batch[r], NextCounters(r)))
  /\ ThenArchive(r)

\* before_append: only the previous workflow is archived.
SwitchTopic(r) ==
  /\ ~UseCompress(r) /\ seen[r].current # <<>> /\ MayOpenTopic(r)
  /\ Decide(r, Plan(seen[r].current, Batch[r], Counters(Batch[r])))
  /\ ThenArchive(r)

\* Mutant: the buffer is cleared before the archive is written.
ArchiveAllClearingFirst(r) ==
  /\ UseCompress(r) \/ HitsThreshold(r) \/ MayCloseTopic(r)
  /\ pc[r] = "read" /\ todo[r] = {}
  /\ plan' = [plan EXCEPT ![r] = Plan(PreparedPayload(r), <<>>, ZeroCounters)]
  /\ current' = <<>>
  /\ ThenArchive(r)
  /\ UNCHANGED <<meta, seen, inFlight, History, faults>>

ArchiveAll(r) ==
  /\ UseCompress(r) \/ HitsThreshold(r) \/ MayCloseTopic(r)
  /\ Decide(r, Plan(PreparedPayload(r), <<>>, ZeroCounters))
  /\ ThenArchive(r)

KeepBuffering(r) ==
  /\ ~UseCompress(r) /\ ~HitsThreshold(r)
  /\ Decide(r, Plan(<<>>, seen[r].current \o Batch[r], NextCounters(r)))
  /\ ThenWrite(r)

\* Mutant: the counters survive the archive.
FlushAllKeepingCounters(f) ==
  /\ seen[f].current # <<>>
  /\ Decide(f, Plan(seen[f].current, <<>>, seen[f].meta))
  /\ ThenArchive(f)

FlushAll(f) ==
  /\ seen[f].current # <<>>
  /\ Decide(f, Plan(seen[f].current, <<>>, ZeroCounters))
  /\ ThenArchive(f)

FlushNothing(f) ==
  /\ seen[f].current = <<>>
  /\ Decide(f, plan[f])
  /\ pc' = [pc EXCEPT ![f] = "done"] /\ UNCHANGED todo

\* trigger.archive: the payload is stored and its task registered.
Register(c) ==
  /\ archived' = archived \o plan[c].payload
  /\ omitted' = IF \E i \in DOMAIN plan[c].payload : plan[c].payload[i] = Placeholder
                THEN omitted \cup (Range(seen[c].current \o Batch[c]) \ Range(plan[c].payload))
                ELSE omitted
  /\ UNCHANGED overlapped

Archive(c) ==
  /\ pc[c] = "archive"
  /\ Register(c)
  /\ ThenWrite(c)
  /\ UNCHANGED <<Buffer, seen, plan, inFlight, faults>>

\* A write of a handler that failed already still takes place: Promise.all
\* rejects with the first failure and cancels nothing.
Writing(c, file) == pc[c] \in {"write", "failed"} /\ file \in todo[c]

Wrote(c, file) ==
  /\ todo' = [todo EXCEPT ![c] = @ \ {file}]
  /\ pc' = IF pc[c] = "write" /\ todo[c] = {file} THEN [pc EXCEPT ![c] = "done"] ELSE pc
  /\ UNCHANGED <<seen, plan, inFlight, History, faults>>

\* Mutant: the write appends to the file.
WriteCurrentAppending(c) ==
  /\ Writing(c, "current")
  /\ current' = current \o plan[c].current
  /\ Wrote(c, "current")
  /\ UNCHANGED meta

\* Mutant: what was archived is written back.
WriteCurrentPayload(c) ==
  /\ Writing(c, "current")
  /\ current' = plan[c].payload
  /\ Wrote(c, "current")
  /\ UNCHANGED meta

WriteCurrent(c) ==
  /\ Writing(c, "current")
  /\ current' = plan[c].current
  /\ Wrote(c, "current")
  /\ UNCHANGED meta

WriteMeta(c) ==
  /\ Writing(c, "meta")
  /\ meta' = plan[c].meta
  /\ Wrote(c, "meta")
  /\ UNCHANGED current

\* The proxy has its answer, or the connection broke.  It never sends a
\* round again.
Reply(c) ==
  /\ inFlight = c /\ pc[c] \in {"done", "failed", "dead"}
  /\ inFlight' = NoCall
  /\ UNCHANGED <<Buffer, pc, todo, seen, plan, History, faults>>

-----------------------------------------------------------------------------
Fault(kind) ==
  /\ kind \in FaultKinds /\ faults < MaxFaults
  /\ faults' = faults + 1

\* AbortSignal.timeout: the proxy goes on, the handler too.
Timeout(c) ==
  /\ Fault("timeout")
  /\ inFlight = c /\ pc[c] \in {"read", "archive", "write"}
  /\ inFlight' = NoCall
  /\ UNCHANGED <<Buffer, pc, todo, seen, plan, History>>

ReadFails(c) ==
  /\ Fault("read")
  /\ pc[c] = "read" /\ todo[c] # {}
  /\ pc' = [pc EXCEPT ![c] = "failed"]
  /\ todo' = [todo EXCEPT ![c] = {}]
  /\ UNCHANGED <<Buffer, seen, plan, inFlight, History>>

\* The archive throws before it registered its task, or after.
ArchiveFails(c) ==
  /\ \/ Fault("archive") /\ UNCHANGED History
     \/ Fault("archiveLate") /\ Register(c)
  /\ pc[c] = "archive"
  /\ pc' = [pc EXCEPT ![c] = "failed"]
  /\ UNCHANGED <<Buffer, todo, seen, plan, inFlight>>

\* The write throws, with or without having reached the storage.
WriteFails(c, file) ==
  /\ Fault("write")
  /\ Writing(c, file)
  /\ \/ UNCHANGED Buffer
     \/ file = "current" /\ current' = plan[c].current /\ UNCHANGED meta
     \/ file = "meta" /\ meta' = plan[c].meta /\ UNCHANGED current
  /\ todo' = [todo EXCEPT ![c] = @ \ {file}]
  /\ pc' = [pc EXCEPT ![c] = "failed"]
  /\ UNCHANGED <<seen, plan, inFlight, History>>

\* The Core node of this call stops; what it had not written is not written.
Crash(c) ==
  /\ Fault("crash")
  /\ pc[c] \in {"read", "archive", "write"}
  /\ pc' = [pc EXCEPT ![c] = "dead"]
  /\ todo' = [todo EXCEPT ![c] = {}]
  /\ UNCHANGED <<Buffer, seen, plan, inFlight, History>>

Next ==
  \/ \E c \in Calls :
       \/ Call(c) \/ ReadCurrent(c) \/ ReadMeta(c)
       \/ Archive(c) \/ WriteCurrent(c) \/ WriteMeta(c) \/ Reply(c)
       \/ Timeout(c) \/ ReadFails(c) \/ ArchiveFails(c) \/ Crash(c)
       \/ \E file \in Files : WriteFails(c, file)
  \/ \E r \in Rounds : SwitchTopic(r) \/ ArchiveAll(r) \/ KeepBuffering(r)
  \/ \E f \in Flushes \cup PanelFlushes : FlushAll(f) \/ FlushNothing(f)

Spec == Init /\ [][Next]_vars

Quiet == \A c \in Calls : ~Busy(c)

\* What Core's handlers take for granted of their callers: two handlers of a
\* session never work on its files at the same time.
SessionSerial == \A c, d \in Calls : Busy(c) /\ Busy(d) => c = d

\* The behaviours in which they may: calls still come from everywhere and
\* time out, but none while the handler of another one works.
SerialNext == Next /\ SessionSerial'
SerialSpec == Init /\ [][SerialNext]_vars

-----------------------------------------------------------------------------
Texts == Seq(Messages)
CountersType == [tools : Nat, bytes : Nat]

TypeOK ==
  /\ current \in Texts /\ meta \in CountersType
  /\ pc \in [Calls -> {"new", "read", "archive", "write", "done", "failed", "dead"}]
  /\ todo \in [Calls -> SUBSET Files]
  /\ seen \in [Calls -> [current : Texts, meta : CountersType]]
  /\ plan \in [Calls -> [payload : Seq(Messages \cup {Placeholder}), current : Texts, meta : CountersType]]
  /\ inFlight \in Calls \cup {NoCall}
  /\ archived \in Seq(Messages \cup {Placeholder}) /\ omitted \subseteq Messages
  /\ overlapped \in BOOLEAN /\ faults \in Nat

\* The two files are written by two parallel writes, and agree again when no
\* handler works: the counters that decide about archiving are those of the
\* messages that would be archived.
CountersMatch == Quiet => meta = Counters(current)

\* A write that fails, or a node that dies between the two, leaves counters
\* that are not those of the messages.  That lasts to the next archive and no
\* longer: while handlers take turns, one that archives, or that found the
\* files in agreement, leaves them in agreement, whatever failed before it.
FilesAgreeAgain ==
  [][\A c \in Calls :
       /\ ~overlapped' /\ pc[c] = "write" /\ pc'[c] = "done"
       /\ plan[c].payload # <<>> \/ seen[c].meta = Counters(seen[c].current)
       => meta' = Counters(current')]_vars

\* What is left in the buffer is below both thresholds, except after a topic
\* switch, which writes the new round back without comparing it to them.
BufferBounded == Quiet =>
  \/ ToolCallCount(current) < ToolCallThreshold /\ ByteCount(current) < BytesThreshold
  \/ \E r \in Rounds : pc[r] = "done" /\ current = Batch[r]

\* No message of a round that was answered with success is lost: it is still
\* buffered, or it was archived, or it was in the middle of an oversize cut.
AckedSurvive == \A r \in Rounds : pc[r] = "done" =>
  Range(Batch[r]) \subseteq Range(current) \cup Range(archived) \cup omitted

\* That holds for a behaviour whose handlers never overlap, whatever fails
\* and wherever the process dies in it.
SerialSurvive == []SessionSerial => []AckedSurvive

\* Whatever handlers overlap and fail, the buffer holds rounds whole and
\* once: no handler leaves part of a round, which would tear a tool call from
\* its result, and none writes a round over itself.
WholeRounds == \A r \in Rounds :
  \/ Range(Batch[r]) \cap Range(current) = {}
  \/ \E before, after \in 0..Len(current) :
       /\ before + Len(Batch[r]) + after = Len(current)
       /\ SubSeq(current, before + 1, Len(current) - after) = Batch[r]
       /\ Range(Batch[r]) \cap Range(SubSeq(current, 1, before)) = {}
       /\ Range(Batch[r]) \cap Range(SubSeq(current, Len(current) - after + 1, Len(current))) = {}

\* A handler that has begun to write has accepted its round.
AcceptedCurrent ==
  IF \E c \in Calls : pc[c] = "write" /\ "current" \in todo[c]
  THEN plan[CHOOSE c \in Calls : pc[c] = "write" /\ "current" \in todo[c]].current
  ELSE current

Log == INSTANCE SessionLog WITH
  pending <- AcceptedCurrent,
  unsent <- {r \in Rounds : pc[r] \in {"new", "read", "archive"}}

\* The handlers implement the log: rounds are archived once, whole and in
\* the order in which they were accepted, over any number of archives.
ImplementsLog == Log!Spec
=============================================================================
