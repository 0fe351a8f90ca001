-------------------------- MODULE SkillVersionsProofs --------------------------
(***************************************************************************)
(* What holds for any calls, clean-ups and faults.  The transaction keeps  *)
(* one newest head whatever interleaves (OneHead), and the reports agree   *)
(* with the table (LedgerMatches).  While calls do not overlap, the        *)
(* version that was checked is still the head when the transaction runs    *)
(* (SerialNoOverwrite), and the next version is free (NextDirFree); and    *)
(* every version can be read to its last file, but for the names that      *)
(* copies leave out and copies whose listing failed (SerialReadable).      *)
(***************************************************************************)
EXTENDS SkillVersions, FiniteSetTheorems, TLAPS

\* What the steps need to know of the form of rows and calls.
IsRow(r) ==
  /\ r = [version |-> r.version, isHead |-> r.isHead, dir |-> r.dir,
          manifest |-> r.manifest, base |-> r.base, expected |-> r.expected]
  /\ r.version \in Nat /\ r.isHead \in BOOLEAN

IsCall(x) ==
  x = [kind |-> x.kind, pc |-> x.pc, expected |-> x.expected, base |-> x.base,
       from |-> x.from, dir |-> x.dir, manifest |-> x.manifest, path |-> x.path,
       todo |-> x.todo, seen |-> x.seen, count |-> x.count]

Shape ==
  /\ \A r \in rows : IsRow(r)
  /\ call = [c \in Calls |-> call[c]] /\ \A c \in Calls : IsCall(call[c])
  /\ \A c \in Calls : At(c, {"insert"}) => call[c].seen \in Nat

HeadInv == Shape /\ OneHead

\* From the check to the transaction.
Working == {"source", "target", "copy", "apply", "store", "insert"}
Creating == {"read", "called"} \cup Working

\* Before the row of a creation, nothing but the creation has been called.
CreateAlone == \A c \in Calls :
  call[c].kind = "create" /\ At(c, Creating)
  => /\ rows = {} /\ call[c].expected = 0 /\ call[c].base = 0
     /\ \A d \in Calls \ {c} : At(d, {"new"})

Started == rows # {} => \E c \in Calls : ~At(c, {"new"})

OneBusy == \A c, d \in Calls : Busy(c) /\ Busy(d) => c = d

\* A call on its way to the table still has the head that it checked.
Based == \A c \in Calls :
  /\ At(c, Working) => call[c].expected = HeadVersion /\ call[c].base = HeadVersion
  /\ At(c, {"insert"}) => call[c].seen = HeadVersion

SerialInv ==
  /\ HeadInv /\ CreateAlone /\ Started
  /\ ~overlapped => OneBusy /\ Based /\ NoOverwrite

-----------------------------------------------------------------------------
\* The head of a skill that has one.
LEMMA HeadOf ==
  ASSUME HeadInv, rows # {}
  PROVE  /\ HeadVersion \in Nat
         /\ \E h \in rows : /\ h.isHead /\ h.version = HeadVersion
                            /\ \A r \in rows \ {h} : ~r.isHead /\ r.version < HeadVersion
<1>1. PICK h \in rows : Heads = {h} /\ \A r \in rows \ {h} : r.version < h.version
  BY DEF HeadInv, OneHead
<1>2. HeadVersion = h.version
  BY <1>1 DEF HeadVersion
<1>3. h.isHead /\ \A r \in rows \ {h} : ~r.isHead
  BY <1>1 DEF Heads
<1> QED BY <1>1, <1>2, <1>3 DEF HeadInv, Shape, IsRow

\* Without rows there is no head.
LEMMA NoHead == rows = {} => HeadVersion = 0
BY DEF HeadVersion, Heads

\* The head version is a number, 0 without rows.
LEMMA HeadIsNat == HeadInv => HeadVersion \in Nat
BY HeadOf, NoHead

\* A step of one call that leaves the table alone.
LEMMA CallStep ==
  ASSUME HeadInv, NEW c \in Calls, UNCHANGED rows,
         call' = [call EXCEPT ![c] = call'[c]], IsCall(call'[c]),
         call'[c].pc = "insert" => call'[c].seen \in Nat
  PROVE  HeadInv'
<1>1. \A d \in Calls : d # c => call'[d] = call[d]
  BY DEF HeadInv, Shape
<1>2. Shape'
  <2>1. call' = [d \in Calls |-> call'[d]]
    BY DEF HeadInv, Shape
  <2>2. \A d \in Calls : IsCall(call'[d])
    BY <1>1 DEF HeadInv, Shape
  <2>3. \A d \in Calls : At(d, {"insert"})' => call'[d].seen \in Nat
    BY <1>1 DEF HeadInv, Shape, At
  <2> QED BY <2>1, <2>2, <2>3 DEF HeadInv, Shape, IsRow
<1> QED BY <1>2 DEF HeadInv, OneHead, Heads

\* Unset changes nothing but the flag of the row it is for.
LEMMA UnsetRow ==
  ASSUME NEW r, IsRow(r), NEW v
  PROVE  /\ IsRow(Unset(r, v)) /\ Unset(r, v).version = r.version
         /\ Unset(r, v).isHead <=> r.isHead /\ r.version # v
         /\ Unset(r, v).base = r.base /\ Unset(r, v).expected = r.expected
<1> DEFINE like(flags) == [version : {r.version}, isHead : flags, dir : {r.dir},
                           manifest : {r.manifest}, base : {r.base}, expected : {r.expected}]
<1>1. r \in like(BOOLEAN)
  BY DEF IsRow
<1>2. [r EXCEPT !.isHead = FALSE] \in like({FALSE})
  BY <1>1
<1>3. ASSUME NEW q \in like({FALSE})
      PROVE  /\ IsRow(q) /\ q.version = r.version /\ q.isHead = FALSE
             /\ q.base = r.base /\ q.expected = r.expected
  BY <1>3 DEF IsRow
<1>4. CASE r.version = v
  BY <1>2, <1>3, <1>4 DEF Unset
<1>5. CASE r.version # v
  BY <1>5 DEF Unset, IsRow
<1> QED BY <1>4, <1>5

\* The transaction: the row it adds becomes the one and newest head.
LEMMA InsertKeepsHead ==
  ASSUME HeadInv, NEW c \in Calls, Insert(c), ~Conflict(call[c].seen)
  PROVE  HeadInv'
<1> DEFINE s == call[c].seen
           new == NewRow(c)
<1>1. s \in Nat /\ IsCall(call[c])
  BY DEF HeadInv, Shape, Insert
<1>2. /\ rows' = {Unset(r, s) : r \in rows} \cup {new}
      /\ \A r \in rows : r.version # s + 1 /\ (r.isHead => r.version = s)
  BY DEF Insert, Conflict
<1>3. IsRow(new) /\ new.isHead /\ new.version = s + 1
  BY <1>1 DEF NewRow, IsRow
<1>4. ASSUME NEW r \in rows
      PROVE  IsRow(Unset(r, s)) /\ ~Unset(r, s).isHead /\ Unset(r, s).version < s + 1
  <2>1. IsRow(r)
    BY DEF HeadInv, Shape
  <2>2. r.version <= s
    <3>1. PICK h \in rows : /\ h.isHead /\ h.version = HeadVersion
                            /\ \A q \in rows \ {h} : q.version < HeadVersion
      BY HeadOf, <1>4
    <3>2. h.version = s /\ HeadVersion = s
      BY <1>2, <3>1
    <3> QED BY <1>1, <2>1, <3>1, <3>2 DEF IsRow
  <2> QED BY <1>1, <1>2, <2>1, <2>2, UnsetRow DEF IsRow
<1>5. Heads' = {new} /\ \A r \in rows' \ {new} : r.version < new.version
  BY <1>2, <1>3, <1>4 DEF Heads
<1>6. OneHead'
  BY <1>2, <1>5 DEF OneHead
<1>7. call'[c].pc \in {"asset", "expire"} /\ call' = [call EXCEPT ![c].pc = call'[c].pc]
  <2>1. PICK to \in {"asset", "expire"} : call' = [call EXCEPT ![c].pc = to]
    BY DEF Insert, Go
  <2>2. call'[c].pc = to
    BY <1>1, <2>1 DEF HeadInv, Shape, IsCall
  <2> QED BY <2>1, <2>2
<1>8. \A d \in Calls : IsCall(call'[d]) /\ (At(d, {"insert"})' => d # c /\ call'[d] = call[d])
  BY <1>1, <1>7 DEF HeadInv, Shape, IsCall, At
<1>9. Shape'
  <2>1. \A r \in rows' : IsRow(r)
    BY <1>2, <1>3, <1>4
  <2>2. call' = [d \in Calls |-> call'[d]]
    BY <1>7 DEF HeadInv, Shape
  <2>3. \A d \in Calls : At(d, {"insert"})' => call'[d].seen \in Nat
    BY <1>8 DEF HeadInv, Shape, At
  <2> QED BY <1>8, <2>1, <2>2, <2>3 DEF Shape
<1> QED BY <1>6, <1>9 DEF HeadInv

\* A deletion of rows that are no head, with a step of the call.
LEMMA PurgeKeepsHead ==
  ASSUME HeadInv, NEW c \in Calls, Purge(c)
  PROVE  HeadInv' /\ Heads' = Heads /\ \E keep \in SUBSET rows : rows' = keep
<1>1. PICK gone \in SUBSET rows : rows' = rows \ gone /\ \A r \in gone : ~r.isHead
  <2>1. CASE UNCHANGED rows
    <3>1. {} \in SUBSET rows /\ rows' = rows \ {}
      BY <2>1
    <3> QED BY <3>1
  <2>2. CASE \E v \in call[c].todo :
               rows' = rows \ {r \in rows : r.version = v.version /\ ~r.isHead}
    BY <2>2
  <2> QED BY <2>1, <2>2 DEF Purge
<1>2. Heads' = Heads
  BY <1>1 DEF Heads
<1>3. OneHead'
  <2>1. SUFFICES ASSUME rows' # {} PROVE OneHead'
    BY DEF OneHead
  <2>2. PICK h \in rows : Heads = {h} /\ \A r \in rows \ {h} : r.version < h.version
    BY <1>1, <2>1 DEF HeadInv, OneHead
  <2>3. h \in rows'
    BY <1>1, <2>2 DEF Heads
  <2> QED BY <1>1, <1>2, <2>2, <2>3 DEF OneHead
<1>4. call' = [call EXCEPT ![c] = call'[c]] /\ IsCall(call'[c]) /\ call'[c].pc # "insert"
  <2>0. IsCall(call[c]) /\ call = [d \in Calls |-> call[d]]
    BY DEF HeadInv, Shape
  <2>1. CASE Go(c, "done")
    BY <2>0, <2>1 DEF Go, IsCall
  <2>2. CASE \E to \in {"purge", "purgeDir"} : \E left, dir :
               call' = [call EXCEPT ![c].pc = to, ![c].todo = left, ![c].dir = dir]
    <3>0. PICK to \in {"purge", "purgeDir"} : \E left, dir :
            call' = [call EXCEPT ![c].pc = to, ![c].todo = left, ![c].dir = dir]
      BY <2>2
    <3>1. PICK left, dir : call' = [call EXCEPT ![c].pc = to, ![c].todo = left, ![c].dir = dir]
      BY <3>0
    <3>2. call'[c] = [call[c] EXCEPT !.pc = to, !.todo = left, !.dir = dir]
      BY <2>0, <3>1
    <3>3. call' = [call EXCEPT ![c] = call'[c]]
      BY <2>0, <3>1, <3>2
    <3>4. IsCall(call'[c]) /\ call'[c].pc = to
      BY <2>0, <3>2 DEF IsCall
    <3> QED BY <3>3, <3>4
  <2> QED BY <2>1, <2>2 DEF Purge
<1>5. Shape'
  <2>1. \A d \in Calls : d # c => call'[d] = call[d]
    BY <1>4 DEF HeadInv, Shape
  <2> QED BY <1>1, <1>4, <2>1 DEF HeadInv, Shape, At
<1> QED BY <1>1, <1>2, <1>3, <1>5 DEF HeadInv

\* The steps that move one call and leave the table alone.
Quietly(c) ==
  \/ Read(c) \/ Begin(c) \/ Create(c) \/ Check(c) \/ Source(c) \/ Target(c) \/ Copy(c)
  \/ Apply(c) \/ Store(c) \/ Asset(c) \/ Undo(c) \/ List(c) \/ RemoveDirs(c)
  \/ Expire(c) \/ PurgeDir(c) \/ (Insert(c) /\ Conflict(call[c].seen))

\* Their form: fields of one call change, and only a read head goes to the
\* transaction.
LEMMA QuietForm ==
  ASSUME HeadInv, NEW c \in Calls, Quietly(c)
  PROVE  /\ UNCHANGED rows
         /\ call' = [call EXCEPT ![c] = call'[c]] /\ IsCall(call'[c])
         /\ call'[c].pc = "insert" => Store(c) /\ call'[c].seen = HeadVersion
<1>0. IsCall(call[c]) /\ call = [d \in Calls |-> call[d]]
  BY DEF HeadInv, Shape
<1>1. CASE Read(c)
  BY <1>0, <1>1 DEF Read, NewCall, IsCall
<1>2. CASE Begin(c)
  BY <1>0, <1>2 DEF Begin, Go, IsCall
<1>3. CASE Create(c)
  BY <1>0, <1>3 DEF Create, IsCall
<1>4. CASE Check(c)
  BY <1>0, <1>4 DEF Check, Go, IsCall
<1>5. CASE Source(c)
  <2>1. \E to \in {"apply", "target"} : \E left :
          call' = [call EXCEPT ![c].pc = to, ![c].todo = left]
    BY <1>5 DEF Source
  <2>2. UNCHANGED rows
    BY <1>5 DEF Source
  <2> QED BY <1>0, <2>1, <2>2 DEF IsCall
<1>6. CASE Target(c)
  <2>1. \/ Go(c, "done")
        \/ \E to \in {"apply", "copy"} : \E left :
             call' = [call EXCEPT ![c].pc = to, ![c].todo = left]
    BY <1>6 DEF Target, Copying
  <2>2. UNCHANGED rows
    BY <1>6 DEF Target
  <2> QED BY <1>0, <2>1, <2>2 DEF Go, IsCall
<1>7. CASE Copy(c)
  <2>1. \/ Go(c, "done")
        \/ \E to \in {"apply", "copy"} : \E left :
             call' = [call EXCEPT ![c].pc = to, ![c].todo = left]
    BY <1>7 DEF Copy, Copying
  <2>2. UNCHANGED rows
    BY <1>7 DEF Copy
  <2> QED BY <1>0, <2>1, <2>2 DEF Go, IsCall
<1>8. CASE Apply(c)
  BY <1>0, <1>8 DEF Apply, Go, At, IsCall
<1>9. CASE Store(c)
  BY <1>0, <1>9 DEF Store, IsCall
<1>10. CASE Asset(c)
  BY <1>0, <1>10 DEF Asset, Go, IsCall
<1>11. CASE Undo(c)
  BY <1>0, <1>11 DEF Undo, Go, IsCall
<1>12. CASE List(c)
  BY <1>0, <1>12 DEF List, IsCall
<1>13. CASE RemoveDirs(c)
  <2>1. \/ Go(c, Leave(c))
        \/ \E left : call' = [call EXCEPT ![c].todo = left]
    BY <1>13 DEF RemoveDirs
  <2>2. UNCHANGED rows /\ call[c].pc = "rmdirs" /\ Leave(c) \in {"undo", "done"}
    BY <1>13 DEF RemoveDirs, At, Leave
  <2> QED BY <1>0, <2>1, <2>2 DEF Go, IsCall
<1>14. CASE Expire(c)
  <2>1. \E to \in {"done", "purge"} : \E left :
          call' = [call EXCEPT ![c].pc = to, ![c].todo = left]
    BY <1>14 DEF Expire
  <2>2. UNCHANGED rows
    BY <1>14 DEF Expire
  <2> QED BY <1>0, <2>1, <2>2 DEF IsCall
<1>15. CASE PurgeDir(c)
  BY <1>0, <1>15 DEF PurgeDir, Go, IsCall
<1>16. CASE Insert(c) /\ Conflict(call[c].seen)
  BY <1>0, <1>16 DEF Insert, Go, IsCall
<1> QED BY <1>1, <1>2, <1>3, <1>4, <1>5, <1>6, <1>7, <1>8, <1>9, <1>10, <1>11, <1>12,
           <1>13, <1>14, <1>15, <1>16 DEF Quietly

\* A deletion of the skill leaves neither rows nor heads.
LEMMA DeleteForm ==
  ASSUME HeadInv, NEW c \in Calls, DeleteRows(c)
  PROVE  /\ HeadInv' /\ rows' = {}
         /\ call' = [call EXCEPT ![c] = call'[c]]
         /\ call'[c].pc \in {"rmdirs", "undo", "done"}
<1>1. IsCall(call[c]) /\ call = [d \in Calls |-> call[d]]
  BY DEF HeadInv, Shape
<1>2. rows' = {} /\ \E to \in {"rmdirs", "undo", "done"} : \E n :
                     call' = [call EXCEPT ![c].pc = to, ![c].count = n]
  BY DEF DeleteRows, Leave
<1>3. /\ call' = [call EXCEPT ![c] = call'[c]] /\ IsCall(call'[c])
      /\ call'[c].pc \in {"rmdirs", "undo", "done"}
  <2>1. PICK to \in {"rmdirs", "undo", "done"} :
          \E n : call' = [call EXCEPT ![c].pc = to, ![c].count = n]
    BY <1>2
  <2>2. PICK n : call' = [call EXCEPT ![c].pc = to, ![c].count = n]
    BY <2>1
  <2>3. call'[c] = [call[c] EXCEPT !.pc = to, !.count = n]
    BY <1>1, <2>2
  <2>4. call' = [call EXCEPT ![c] = call'[c]]
    BY <1>1, <2>2, <2>3
  <2>5. IsCall(call'[c]) /\ call'[c].pc = to
    BY <1>1, <2>3 DEF IsCall
  <2> QED BY <2>4, <2>5
<1>4. \A d \in Calls : d # c => call'[d] = call[d]
  BY <1>1, <1>3
<1>5. Shape'
  BY <1>2, <1>3, <1>4 DEF HeadInv, Shape, At
<1> QED BY <1>2, <1>3, <1>5 DEF HeadInv, OneHead

\* A crash ends calls and clean-ups where they are.
LEMMA CrashForm ==
  ASSUME HeadInv, Crash
  PROVE  /\ HeadInv' /\ UNCHANGED <<rows, overlapped>>
         /\ \A c \in Calls :
              IF At(c, InCall \cup InCleanUp) THEN At(c, {"done"})' ELSE call'[c] = call[c]
<1>1. /\ UNCHANGED <<rows, overlapped>>
      /\ call' = [c \in Calls |-> call'[c]]
      /\ \A c \in Calls : call'[c] = IF At(c, InCall \cup InCleanUp)
                                    THEN [call[c] EXCEPT !.pc = "done"] ELSE call[c]
  BY DEF Crash
<1>2. ASSUME NEW c \in Calls
      PROVE  /\ IsCall(call'[c]) /\ (call'[c].pc = "insert" => call'[c] = call[c])
             /\ IF At(c, InCall \cup InCleanUp) THEN call'[c].pc = "done" ELSE call'[c] = call[c]
  <2>1. IsCall(call[c])
    BY DEF HeadInv, Shape
  <2>2. CASE At(c, InCall \cup InCleanUp)
    <3>1. call'[c] = [call[c] EXCEPT !.pc = "done"]
      BY <1>1, <2>2
    <3>2. DOMAIN call[c] = {"kind", "pc", "expected", "base", "from", "dir", "manifest",
                            "path", "todo", "seen", "count"}
      BY <2>1 DEF IsCall
    <3>3. call'[c].pc = "done"
      BY <3>1, <3>2
    <3>4. IsCall(call'[c])
      BY <2>1, <3>1, <3>2 DEF IsCall
    <3> QED BY <2>2, <3>3, <3>4
  <2>3. CASE ~At(c, InCall \cup InCleanUp)
    BY <1>1, <2>1, <2>3
  <2> QED BY <2>2, <2>3
<1>3. Shape'
  BY <1>1, <1>2 DEF HeadInv, Shape, At
<1> QED BY <1>1, <1>2, <1>3 DEF HeadInv, OneHead, Heads, At

\* The table is empty at the start.
LEMMA HeadInit == Init => HeadInv
BY DEF Init, HeadInv, Shape, OneHead, NewCall, IsCall, At

\* Every step is one of these.
LEMMA Steps ==
  ASSUME [Next]_vars
  PROVE  \/ \E c \in Calls : \/ Quietly(c) \/ Purge(c) \/ DeleteRows(c)
                             \/ Insert(c) /\ ~Conflict(call[c].seen)
         \/ Crash \/ UNCHANGED vars
BY DEF Next, Step, Quietly

\* Every step keeps the invariant.
LEMMA HeadNext == HeadInv /\ [Next]_vars => HeadInv'
<1> SUFFICES ASSUME HeadInv, [Next]_vars PROVE HeadInv'
  OBVIOUS
<1>1. ASSUME NEW c \in Calls, Quietly(c)
      PROVE  HeadInv'
  <2>1. call'[c].pc = "insert" => call'[c].seen \in Nat
    BY <1>1, QuietForm, HeadIsNat
  <2> QED BY <1>1, <2>1, QuietForm, CallStep
<1>2. CASE UNCHANGED vars
  BY <1>2 DEF vars, HeadInv, Shape, OneHead, Heads, At
<1> QED BY <1>1, <1>2, Steps, PurgeKeepsHead, DeleteForm, InsertKeepsHead, CrashForm

\* A skill has one head, its newest version, for any calls and faults.
THEOREM HeadCorrect == Spec => []OneHead
<1>1. HeadInv => OneHead
  BY DEF HeadInv
<1> QED BY <1>1, HeadInit, HeadNext, PTL DEF Spec

-----------------------------------------------------------------------------
\* A step of a call at work that leaves the table alone.
LEMMA WorkStep ==
  ASSUME SerialInv, HeadInv', NEW c \in Calls, UNCHANGED <<rows, overlapped>>,
         call' = [call EXCEPT ![c] = call'[c]],
         call'[c].kind = call[c].kind, ~At(c, {"new"}), ~At(c, {"new"})',
         Busy(c)' => Busy(c),
         call[c].kind = "create" /\ At(c, Creating)' =>
           At(c, Creating) /\ call'[c].expected = call[c].expected /\ call'[c].base = call[c].base,
         ~overlapped /\ At(c, Working)' =>
           /\ call'[c].expected = HeadVersion /\ call'[c].base = HeadVersion
           /\ call'[c].pc = "insert" => call'[c].seen = HeadVersion
  PROVE  SerialInv'
<1>1. \A d \in Calls : d # c => call'[d] = call[d]
  BY DEF SerialInv, HeadInv, Shape
<1>2. UNCHANGED HeadVersion
  BY DEF HeadVersion, Heads
<1>3. CreateAlone'
  BY <1>1 DEF SerialInv, CreateAlone, Creating, At
<1>4. Started'
  BY DEF Started
<1>5. ~overlapped' => OneBusy'
  BY <1>1 DEF SerialInv, OneBusy, Busy, At
<1>6. ~overlapped' => Based'
  BY <1>1, <1>2 DEF SerialInv, Based, Working, At
<1>7. ~overlapped' => NoOverwrite'
  BY DEF SerialInv, NoOverwrite
<1> QED BY <1>3, <1>4, <1>5, <1>6, <1>7 DEF SerialInv

\* What stays when the label of a call, or its label and its list, change.
LEMMA Moved ==
  ASSUME HeadInv, NEW c \in Calls, NEW to,
         \/ Go(c, to)
         \/ \E left : call' = [call EXCEPT ![c].pc = to, ![c].todo = left]
  PROVE  /\ call'[c].pc = to /\ call'[c].kind = call[c].kind
         /\ call'[c].base = call[c].base /\ call'[c].expected = call[c].expected
<1>1. IsCall(call[c]) /\ call = [d \in Calls |-> call[d]]
  BY DEF HeadInv, Shape
<1>2. CASE Go(c, to)
  BY <1>1, <1>2 DEF Go, IsCall
<1>3. CASE \E left : call' = [call EXCEPT ![c].pc = to, ![c].todo = left]
  <2>1. PICK left : call' = [call EXCEPT ![c].pc = to, ![c].todo = left]
    BY <1>3
  <2>2. call'[c] = [call[c] EXCEPT !.pc = to, !.todo = left]
    BY <1>1, <2>1
  <2> QED BY <1>1, <2>2 DEF IsCall
<1> QED BY <1>2, <1>3

\* A call comes, the creation of the skill before any other.
LEMMA ReadSerial ==
  ASSUME SerialInv, HeadInv', NEW c \in Calls, Read(c)
  PROVE  SerialInv'
<1>1. /\ At(c, {"new"}) /\ UNCHANGED <<rows, overlapped>>
      /\ call' = [call EXCEPT ![c] = call'[c]] /\ call'[c].pc = "read"
      /\ call'[c].base = 0 /\ call'[c].expected = HeadVersion
      /\ IF call'[c].kind = "create" THEN \A d \in Calls : At(d, {"new"}) ELSE rows # {}
  <2>1. PICK kind \in Kinds, path \in SUBSET Paths :
          /\ IF kind = "create" THEN \A d \in Calls : At(d, {"new"}) ELSE rows # {}
          /\ call' = [call EXCEPT ![c] = [NewCall EXCEPT
                        !.kind = kind, !.path = path, !.pc = "read", !.expected = HeadVersion]]
    BY DEF Read
  <2>2. call'[c] = [NewCall EXCEPT
                      !.kind = kind, !.path = path, !.pc = "read", !.expected = HeadVersion]
    BY <2>1 DEF SerialInv, HeadInv, Shape
  <2>3. /\ call'[c].pc = "read" /\ call'[c].kind = kind
        /\ call'[c].base = 0 /\ call'[c].expected = HeadVersion
    BY <2>2 DEF NewCall
  <2>4. At(c, {"new"}) /\ UNCHANGED <<rows, overlapped>> /\ call' = [call EXCEPT ![c] = call'[c]]
    BY <2>1, <2>2 DEF Read
  <2> QED BY <2>1, <2>3, <2>4
<1>2. \A d \in Calls : d # c => call'[d] = call[d]
  BY <1>1 DEF SerialInv, HeadInv, Shape
<1>3. UNCHANGED HeadVersion
  BY <1>1 DEF HeadVersion, Heads
<1>4. CreateAlone'
  <2>1. SUFFICES ASSUME NEW d \in Calls, (call[d].kind = "create" /\ At(d, Creating))'
                 PROVE  /\ rows = {} /\ call'[d].expected = 0 /\ call'[d].base = 0
                        /\ \A e \in Calls \ {d} : At(e, {"new"})'
    BY <1>1 DEF CreateAlone, Creating
  <2>2. CASE d = c
    BY <1>1, <1>2, <2>1, <2>2, NoHead DEF SerialInv, Started, At
  <2>3. CASE d # c
    <3>1. rows = {} /\ ~At(d, {"new"})
      <4>1. call[d].kind = "create" /\ At(d, Creating)
        BY <1>2, <2>1, <2>3 DEF At
      <4> QED BY <4>1 DEF SerialInv, CreateAlone, Creating, Working, At
    <3> QED BY <1>1, <3>1
  <2> QED BY <2>2, <2>3
<1>5. Started'
  BY <1>1 DEF Started, At
<1>6. ~overlapped' => OneBusy' /\ Based' /\ NoOverwrite'
  BY <1>1, <1>2, <1>3
  DEF SerialInv, OneBusy, Based, NoOverwrite, Busy, Working, InCall, At
<1> QED BY <1>4, <1>5, <1>6 DEF SerialInv

\* A call begins, alone unless it is noted that it overlaps another one.
LEMMA BeginSerial ==
  ASSUME SerialInv, HeadInv', NEW c \in Calls, Begin(c)
  PROVE  SerialInv'
<1>1. /\ At(c, {"read"}) /\ UNCHANGED rows
      /\ call' = [call EXCEPT ![c] = call'[c]] /\ call'[c].pc = "called"
      /\ call'[c].base = call[c].base /\ call'[c].expected = call[c].expected
      /\ call'[c].kind = call[c].kind
      /\ ~overlapped' => ~overlapped /\ \A d \in Calls : ~Busy(d)
  <2>1. Go(c, "called") /\ At(c, {"read"}) /\ UNCHANGED rows
        /\ overlapped' = (overlapped \/ \E d \in Calls : Busy(d))
    BY DEF Begin
  <2>2. call' = [call EXCEPT ![c] = call'[c]]
    BY <2>1 DEF Go, SerialInv, HeadInv, Shape
  <2> QED BY <2>1, <2>2, Moved DEF SerialInv
<1>2. \A d \in Calls : d # c => call'[d] = call[d]
  BY <1>1 DEF SerialInv, HeadInv, Shape
<1>3. CreateAlone'
  <2>1. \A d \in Calls : /\ call'[d].pc = "new" <=> call[d].pc = "new"
                         /\ call'[d].pc \in Creating <=> call[d].pc \in Creating
    BY <1>1, <1>2 DEF At, Creating
  <2>2. \A d \in Calls : /\ call'[d].kind = call[d].kind
                         /\ call'[d].base = call[d].base /\ call'[d].expected = call[d].expected
    BY <1>1, <1>2
  <2>3. ASSUME NEW d \in Calls, (call[d].kind = "create")', At(d, Creating)'
        PROVE  /\ rows' = {} /\ call'[d].expected = 0 /\ call'[d].base = 0
               /\ \A e \in Calls \ {d} : At(e, {"new"})'
    <3>1. call[d].kind = "create" /\ At(d, Creating)
      BY <2>1, <2>2, <2>3 DEF At, Creating, Working
    <3>2. /\ rows = {} /\ call[d].expected = 0 /\ call[d].base = 0
          /\ \A e \in Calls \ {d} : At(e, {"new"})
      BY <3>1 DEF SerialInv, CreateAlone
    <3>3. \A e \in Calls \ {d} : call'[e].pc = "new"
      <4>1. ASSUME NEW e \in Calls \ {d} PROVE call[e].pc = "new"
        BY <3>2 DEF At
      <4> QED BY <2>1, <4>1
    <3> QED BY <1>1, <2>2, <3>2, <3>3 DEF At
  <2> QED BY <2>3 DEF CreateAlone
<1>4. Started'
  BY <1>1 DEF Started, At
<1>5. ~overlapped' => OneBusy' /\ Based' /\ NoOverwrite'
  BY <1>1, <1>2 DEF SerialInv, OneBusy, Based, NoOverwrite, Busy, Working, InCall, At
<1> QED BY <1>3, <1>4, <1>5 DEF SerialInv

\* The steps between the two that leave the table alone.
LEMMA QuietSerial ==
  ASSUME SerialInv, HeadInv', NEW c \in Calls, Quietly(c), ~Read(c), ~Begin(c)
  PROVE  SerialInv'
<1>0. /\ IsCall(call[c]) /\ call = [d \in Calls |-> call[d]]
      /\ UNCHANGED rows /\ call' = [call EXCEPT ![c] = call'[c]]
  BY QuietForm DEF SerialInv, HeadInv, Shape
<1>1. CASE Create(c)
  <2>1. /\ At(c, {"called"}) /\ call[c].kind = "create" /\ UNCHANGED overlapped
        /\ call'[c].pc \in {"apply", "store"} /\ call'[c].kind = call[c].kind
        /\ call'[c].expected = call[c].expected /\ call'[c].base = call[c].base
    BY <1>0, <1>1 DEF Create, IsCall
  <2>2. call[c].expected = HeadVersion /\ call[c].base = HeadVersion
    <3>1. At(c, Creating)
      BY <2>1 DEF At, Creating
    <3>2. rows = {} /\ call[c].expected = 0 /\ call[c].base = 0
      BY <2>1, <3>1 DEF SerialInv, CreateAlone
    <3> QED BY <3>2, NoHead
  <2> QED BY <1>0, <2>1, <2>2, WorkStep DEF At, Busy, InCall, Creating, Working
<1>2. CASE Check(c)
  <2>1. /\ At(c, {"called"}) /\ call[c].kind # "create" /\ UNCHANGED overlapped
        /\ call'[c].kind = call[c].kind
        /\ \/ call'[c].pc \in {"done", "list"}
           \/ /\ call'[c].pc = "source" /\ call'[c].base = HeadVersion
              /\ call'[c].expected = HeadVersion
    <3>1. At(c, {"called"}) /\ call[c].kind # "create" /\ UNCHANGED overlapped
      BY <1>2 DEF Check
    <3> DEFINE from == Row(HeadVersion).dir
               dir == HeadVersion + 1
               changed == IF call[c].kind = "write" THEN Row(HeadVersion).manifest \cup call[c].path
                          ELSE Row(HeadVersion).manifest \ call[c].path
    <3>2. \/ Go(c, "done") \/ Go(c, "list")
          \/ /\ HeadVersion = call[c].expected
             /\ call' = [call EXCEPT ![c].pc = "source", ![c].base = HeadVersion,
                                     ![c].from = from, ![c].dir = dir, ![c].manifest = changed]
      BY <1>2 DEF Check, Fresh
    <3> HIDE DEF from, dir, changed
    <3>3. CASE Go(c, "done") \/ Go(c, "list")
      BY <3>1, <3>3, Moved DEF SerialInv
    <3>4. CASE /\ HeadVersion = call[c].expected
               /\ call' = [call EXCEPT ![c].pc = "source", ![c].base = HeadVersion,
                                       ![c].from = from, ![c].dir = dir, ![c].manifest = changed]
      <4>1. call'[c] = [call[c] EXCEPT !.pc = "source", !.base = HeadVersion,
                                       !.from = from, !.dir = dir, !.manifest = changed]
        BY <1>0, <3>4
      <4>2. /\ call'[c].kind = call[c].kind /\ call'[c].pc = "source"
            /\ call'[c].base = HeadVersion /\ call'[c].expected = HeadVersion
        BY <1>0, <3>4, <4>1 DEF IsCall
      <4> QED BY <3>1, <4>2
    <3> QED BY <3>2, <3>3, <3>4
  <2> QED BY <1>0, <2>1, WorkStep DEF At, Busy, InCall, Creating, Working
<1>3. CASE Source(c) \/ Target(c) \/ Copy(c) \/ Apply(c)
  <2>1. At(c, {"source", "target", "copy", "apply"}) /\ UNCHANGED overlapped
    BY <1>3 DEF Source, Target, Copy, Apply, At
  <2>2. /\ call'[c].kind = call[c].kind /\ call'[c].base = call[c].base
        /\ call'[c].expected = call[c].expected
        /\ call'[c].pc \in {"target", "copy", "apply", "store", "undo", "done"}
    <3>1. \E to \in {"target", "copy", "apply", "store", "undo", "done"} :
            \/ Go(c, to)
            \/ \E left : call' = [call EXCEPT ![c].pc = to, ![c].todo = left]
            \/ to = "apply" /\ \E left : call' = [call EXCEPT ![c].todo = left] /\ At(c, {"apply"})
      <4>1. CASE Source(c)
        BY <4>1 DEF Source
      <4>2. CASE Target(c)
        BY <4>2 DEF Target, Copying
      <4>3. CASE Copy(c)
        BY <4>3 DEF Copy, Copying
      <4>4. CASE Apply(c)
        BY <4>4 DEF Apply
      <4> QED BY <1>3, <4>1, <4>2, <4>3, <4>4
    <3>2. ASSUME NEW left, call' = [call EXCEPT ![c].todo = left], At(c, {"apply"})
          PROVE  /\ call'[c].kind = call[c].kind /\ call'[c].base = call[c].base
                 /\ call'[c].expected = call[c].expected /\ call'[c].pc = "apply"
      BY <1>0, <3>2 DEF At, IsCall
    <3> QED BY <3>1, <3>2, Moved DEF SerialInv
  <2>3. ~overlapped => call[c].expected = HeadVersion /\ call[c].base = HeadVersion
    BY <2>1 DEF SerialInv, Based, Working, At
  <2> QED BY <1>0, <2>1, <2>2, <2>3, WorkStep DEF At, Busy, InCall, Creating, Working
<1>4. CASE Store(c)
  <2>1. /\ At(c, {"store"}) /\ UNCHANGED overlapped
        /\ call'[c].kind = call[c].kind /\ call'[c].base = call[c].base
        /\ call'[c].expected = call[c].expected
        /\ call'[c].pc = "insert" /\ call'[c].seen = HeadVersion
    BY <1>0, <1>4 DEF Store, IsCall
  <2>2. ~overlapped => call[c].expected = HeadVersion /\ call[c].base = HeadVersion
    BY <2>1 DEF SerialInv, Based, Working, At
  <2> QED BY <1>0, <2>1, <2>2, WorkStep DEF At, Busy, InCall, Creating, Working
<1>5. CASE \/ Asset(c) \/ Undo(c) \/ List(c) \/ RemoveDirs(c) \/ Expire(c) \/ PurgeDir(c)
           \/ Insert(c) /\ Conflict(call[c].seen)
  <2>1. /\ At(c, {"asset", "undo", "list", "rmdirs", "expire", "purgeDir", "insert"})
        /\ UNCHANGED overlapped
        /\ At(c, {"expire", "purgeDir"}) => call'[c].pc \in {"done", "purge"}
        /\ call'[c].pc \in {"done", "list", "delete", "undo", "rmdirs", "purge"}
        /\ call'[c].kind = call[c].kind
    <3>1. CASE Asset(c)
      BY <1>0, <3>1 DEF Asset, Go, At, IsCall
    <3>2. CASE Undo(c)
      BY <1>0, <3>2 DEF Undo, Go, At, IsCall
    <3>3. CASE List(c)
      BY <1>0, <3>3 DEF List, At, IsCall
    <3>4. CASE RemoveDirs(c)
      <4>1. \/ Go(c, Leave(c))
            \/ \E left : call' = [call EXCEPT ![c].todo = left]
        BY <3>4 DEF RemoveDirs
      <4>2. call[c].pc = "rmdirs" /\ Leave(c) \in {"undo", "done"} /\ UNCHANGED overlapped
        BY <3>4 DEF RemoveDirs, At, Leave
      <4> QED BY <1>0, <4>1, <4>2 DEF Go, At, IsCall
    <3>5. CASE Expire(c)
      <4>1. \E to \in {"done", "purge"} : \E left :
              call' = [call EXCEPT ![c].pc = to, ![c].todo = left]
        BY <3>5 DEF Expire
      <4>2. At(c, {"expire"}) /\ UNCHANGED overlapped
        BY <3>5 DEF Expire
      <4>3. call'[c].pc \in {"done", "purge"} /\ call'[c].kind = call[c].kind
        BY <4>1, Moved DEF SerialInv
      <4> QED BY <4>2, <4>3 DEF At
    <3>6. CASE PurgeDir(c)
      BY <1>0, <3>6 DEF PurgeDir, Go, At, IsCall
    <3>7. CASE Insert(c) /\ Conflict(call[c].seen)
      BY <1>0, <3>7 DEF Insert, Go, At, IsCall
    <3> QED BY <1>5, <3>1, <3>2, <3>3, <3>4, <3>5, <3>6, <3>7
  <2> QED BY <1>0, <2>1, WorkStep DEF At, Busy, InCall, Creating, Working
<1> QED BY <1>1, <1>2, <1>3, <1>4, <1>5 DEF Quietly

\* The transaction adds a row whose base is the head that was expected.
LEMMA InsertSerial ==
  ASSUME SerialInv, HeadInv', NEW c \in Calls, Insert(c), ~Conflict(call[c].seen)
  PROVE  SerialInv'
<1> DEFINE s == call[c].seen
           new == NewRow(c)
<1>1. /\ IsCall(call[c]) /\ call = [d \in Calls |-> call[d]]
      /\ At(c, {"insert"}) /\ UNCHANGED overlapped
      /\ rows' = {Unset(r, s) : r \in rows} \cup {new}
      /\ \E to \in {"asset", "expire"} : Go(c, to)
  BY DEF Insert, SerialInv, HeadInv, Shape
<1>2. /\ call'[c].pc \in {"asset", "expire"}
      /\ \A d \in Calls : d # c => call'[d] = call[d]
  BY <1>1, Moved DEF Go, SerialInv
<1>3. CreateAlone'
  <2>1. SUFFICES ASSUME NEW d \in Calls, (call[d].kind = "create")', At(d, Creating)'
                 PROVE  FALSE
    BY DEF CreateAlone
  <2>2. d # c
    BY <1>2, <2>1 DEF At, Creating, Working
  <2>3. call[d].kind = "create" /\ At(d, Creating)
    BY <1>2, <2>1, <2>2 DEF At
  <2>4. At(c, {"new"})
    BY <2>2, <2>3 DEF SerialInv, CreateAlone
  <2> QED BY <1>1, <2>4 DEF At
<1>4. Started'
  BY <1>2 DEF Started, At
<1>5. ASSUME ~overlapped'
      PROVE  OneBusy' /\ Based' /\ NoOverwrite'
  <2>1. OneBusy /\ Based /\ NoOverwrite
    BY <1>1, <1>5 DEF SerialInv
  <2>2. \A d \in Calls : d # c => ~Busy(d)
    BY <1>1, <2>1 DEF OneBusy, Busy, InCall, At
  <2>3. OneBusy'
    BY <1>2, <2>2 DEF OneBusy, Busy, InCall, At
  <2>4. ASSUME NEW d \in Calls PROVE ~At(d, Working)'
    <3>1. CASE d = c
      BY <1>2, <3>1 DEF At, Working
    <3>2. CASE d # c
      BY <1>2, <2>2, <3>2 DEF At, Working, Busy, InCall
    <3> QED BY <3>1, <3>2
  <2>5. Based'
    BY <2>4 DEF Based, At, Working
  <2>6. s \in Nat /\ call[c].base = s /\ call[c].expected = s
    BY <1>1, <2>1 DEF Based, Working, At, SerialInv, HeadInv, Shape
  <2>7. new.base = new.expected /\ new.base = new.version - 1
    BY <2>6 DEF NewRow
  <2>8. \A r \in rows : LET q == Unset(r, s) IN q.base = q.expected /\ q.base = q.version - 1
    BY <2>1, UnsetRow DEF NoOverwrite, SerialInv, HeadInv, Shape
  <2>9. NoOverwrite'
    BY <1>1, <2>7, <2>8 DEF NoOverwrite
  <2> QED BY <2>3, <2>5, <2>9
<1> QED BY <1>1, <1>3, <1>4, <1>5 DEF SerialInv

\* A deletion of the skill is the one call at work, or noted as overlapping.
LEMMA DeleteSerial ==
  ASSUME SerialInv, HeadInv', NEW c \in Calls, DeleteRows(c)
  PROVE  SerialInv'
<1>1. /\ rows' = {} /\ call'[c].pc \in {"rmdirs", "undo", "done"}
      /\ call = [d \in Calls |-> call[d]] /\ call' = [call EXCEPT ![c] = call'[c]]
      /\ At(c, {"delete"}) /\ UNCHANGED overlapped
  BY DeleteForm DEF DeleteRows, SerialInv, HeadInv, Shape
<1>2. \A d \in Calls : d # c => call'[d] = call[d]
  BY <1>1
<1>3. CreateAlone'
  <2>1. SUFFICES ASSUME NEW d \in Calls, (call[d].kind = "create")', At(d, Creating)'
                 PROVE  FALSE
    BY DEF CreateAlone
  <2>2. d # c
    BY <1>1, <2>1 DEF At, Creating, Working
  <2>3. call[d].kind = "create" /\ At(d, Creating)
    BY <1>2, <2>1, <2>2 DEF At
  <2>4. At(c, {"new"})
    BY <2>2, <2>3 DEF SerialInv, CreateAlone
  <2> QED BY <1>1, <2>4 DEF At
<1>4. Started' /\ NoOverwrite'
  BY <1>1 DEF Started, NoOverwrite
<1>5. ASSUME ~overlapped'
      PROVE  OneBusy' /\ Based'
  <2>1. OneBusy
    BY <1>1, <1>5 DEF SerialInv
  <2>2. \A d \in Calls : d # c => ~Busy(d)
    BY <1>1, <2>1 DEF OneBusy, Busy, InCall, At
  <2>3. OneBusy'
    BY <1>2, <2>2 DEF OneBusy, Busy, InCall, At
  <2>4. ASSUME NEW d \in Calls PROVE ~At(d, Working)'
    <3>1. CASE d = c
      BY <1>1, <3>1 DEF At, Working
    <3>2. CASE d # c
      BY <1>2, <2>2, <3>2 DEF At, Working, Busy, InCall
    <3> QED BY <3>1, <3>2
  <2>5. Based'
    BY <2>4 DEF Based, At, Working
  <2> QED BY <2>3, <2>5
<1> QED BY <1>1, <1>3, <1>4, <1>5 DEF SerialInv

\* A clean-up beside a call takes rows away, and never the head.
LEMMA PurgeSerial ==
  ASSUME SerialInv, NEW c \in Calls, Purge(c)
  PROVE  SerialInv'
<1>1. /\ HeadInv' /\ UNCHANGED <<HeadVersion, overlapped>> /\ rows' \in SUBSET rows
      /\ At(c, {"purge"}) /\ call = [d \in Calls |-> call[d]] /\ IsCall(call[c])
  <2>1. HeadInv' /\ Heads' = Heads /\ rows' \in SUBSET rows
    BY PurgeKeepsHead DEF SerialInv
  <2>2. UNCHANGED HeadVersion
    BY <2>1 DEF HeadVersion
  <2> QED BY <2>1, <2>2 DEF Purge, SerialInv, HeadInv, Shape
<1>2. /\ \A d \in Calls : d # c => call'[d] = call[d]
      /\ call'[c].pc \in {"done", "purge", "purgeDir"}
  <2>1. CASE Go(c, "done")
    BY <1>1, <2>1 DEF Go, IsCall
  <2>2. CASE \E to \in {"purge", "purgeDir"} : \E left, dir :
               call' = [call EXCEPT ![c].pc = to, ![c].todo = left, ![c].dir = dir]
    BY <1>1, <2>2 DEF IsCall
  <2> QED BY <2>1, <2>2 DEF Purge
<1>3. /\ ~At(c, {"new"})' /\ ~At(c, Creating)' /\ ~At(c, Working)' /\ ~Busy(c)'
      /\ ~At(c, {"new"}) /\ ~At(c, {"insert"})'
  BY <1>1, <1>2 DEF At, Creating, Working, Busy, InCall
<1>4. CreateAlone'
  <2>1. SUFFICES ASSUME NEW d \in Calls, (call[d].kind = "create")', At(d, Creating)'
                 PROVE  FALSE
    BY DEF CreateAlone
  <2>2. call[d].kind = "create" /\ At(d, Creating) /\ d # c
    BY <1>2, <1>3, <2>1 DEF At
  <2>3. At(c, {"new"})
    BY <2>2 DEF SerialInv, CreateAlone
  <2> QED BY <1>3, <2>3
<1>5. Started'
  BY <1>3 DEF Started
<1>6. ASSUME ~overlapped'
      PROVE  OneBusy' /\ Based' /\ NoOverwrite'
  <2>1. OneBusy /\ Based /\ NoOverwrite
    BY <1>1, <1>6 DEF SerialInv
  <2> QED BY <1>1, <1>2, <1>3, <2>1 DEF OneBusy, Based, NoOverwrite, Busy, At
<1> QED BY <1>1, <1>4, <1>5, <1>6 DEF SerialInv

\* After a crash nothing is at work.
LEMMA CrashSerial ==
  ASSUME SerialInv, Crash
  PROVE  SerialInv'
<1>1. /\ HeadInv' /\ UNCHANGED <<rows, overlapped, HeadVersion>>
      /\ \A c \in Calls :
           IF At(c, InCall \cup InCleanUp) THEN At(c, {"done"})' ELSE call'[c] = call[c]
  BY CrashForm DEF HeadVersion, Heads, SerialInv
<1>2. \A c \in Calls :
        /\ call'[c].pc \notin InCall \cup Working
        /\ call'[c].pc = "new" <=> call[c].pc = "new"
        /\ call'[c].pc \in Creating => call'[c] = call[c]
  BY <1>1 DEF At, InCall, InCleanUp, Creating, Working
<1>3. CreateAlone'
  <2>1. ASSUME NEW d \in Calls, (call[d].kind = "create")', At(d, Creating)'
        PROVE  /\ rows' = {} /\ call'[d].expected = 0 /\ call'[d].base = 0
               /\ \A e \in Calls \ {d} : At(e, {"new"})'
    <3>1. call[d].kind = "create" /\ At(d, Creating) /\ call'[d] = call[d]
      BY <1>2, <2>1 DEF At
    <3>2. /\ rows = {} /\ call[d].expected = 0 /\ call[d].base = 0
          /\ \A e \in Calls \ {d} : At(e, {"new"})
      BY <3>1 DEF SerialInv, CreateAlone
    <3> QED BY <1>1, <1>2, <3>1, <3>2 DEF At
  <2> QED BY <2>1 DEF CreateAlone
<1>4. Started'
  BY <1>1, <1>2 DEF SerialInv, Started, At
<1>5. OneBusy' /\ Based' /\ (~overlapped' => NoOverwrite')
  BY <1>1, <1>2 DEF SerialInv, OneBusy, Based, NoOverwrite, Busy, Working, At
<1> QED BY <1>1, <1>3, <1>4, <1>5 DEF SerialInv

\* Before the first call the table is empty.
LEMMA SerialInit == Init => SerialInv
<1> SUFFICES ASSUME Init PROVE SerialInv
  OBVIOUS
<1>1. rows = {} /\ \A c \in Calls : call[c].pc = "new"
  BY DEF Init, NewCall
<1> QED BY <1>1, HeadInit
        DEF SerialInv, CreateAlone, Started, OneBusy, Based, NoOverwrite, Busy, At, InCall,
            Creating, Working

\* Every step keeps the invariant.
LEMMA SerialNext == SerialInv /\ [Next]_vars => SerialInv'
<1> SUFFICES ASSUME SerialInv, [Next]_vars PROVE SerialInv'
  OBVIOUS
<1>0. HeadInv'
  BY HeadNext DEF SerialInv
<1>1. CASE UNCHANGED vars
  BY <1>0, <1>1 DEF vars, SerialInv, CreateAlone, Started, OneBusy, Based, NoOverwrite, Busy, At,
                    HeadVersion, Heads
<1> QED BY <1>0, <1>1, Steps, ReadSerial, BeginSerial, QuietSerial, InsertSerial, DeleteSerial,
           PurgeSerial, CrashSerial

\* While calls do not overlap every version is based on the head that its
\* writer expected: the check of the version holds until the transaction.
THEOREM SerialCorrect == Spec => []SerialNoOverwrite
<1>1. SerialInv => SerialNoOverwrite
  BY DEF SerialInv, SerialNoOverwrite
<1> QED BY <1>1, SerialInit, SerialNext, PTL DEF Spec

-----------------------------------------------------------------------------
\* The types.  A version number is at most the number of calls that have gone
\* through their transaction or have ended, a new directory one more.
Labels == {"new", "read", "done"} \cup InCall \cup InCleanUp
Early == {"new"} \cup Creating
Spent == {c \in Calls : ~At(c, Early)}
Number == Cardinality(Spent)

Names == Paths \cup {Here}
RowRec == [version : Nat, isHead : BOOLEAN, dir : Nat, manifest : SUBSET Paths,
           base : Nat, expected : Nat]
CallRec == [kind : AllKinds, pc : Labels, expected : Nat, base : Nat, from : Nat, dir : Nat,
            manifest : SUBSET Paths, path : SUBSET Paths,
            todo : SUBSET (Paths \cup Nat \cup RowRec), seen : Nat, count : Nat]

RowUpTo(r, n) ==
  /\ r \in RowRec /\ r.version \in 1..n /\ r.dir \in 1..n
  /\ r.base \in 0..n /\ r.expected \in 0..n

\* The rollback of a creation ends with its directory.
Leaving == {"asset", "list", "delete", "rmdirs"}

CallUpTo(x, n) ==
  /\ x \in CallRec
  /\ x.expected \in 0..n /\ x.base \in 0..n /\ x.from \in 0..n /\ x.seen \in 0..n
  /\ x.dir \in 0..(IF x.pc \in Early THEN n + 1 ELSE n)
  /\ x.pc \in Working \cup {"undo", "purgeDir"} => x.dir # 0
  /\ x.kind = "create" /\ x.pc \in Leaving => x.dir # 0
  /\ x.pc \in {"source", "target", "copy"} => x.from # 0
  /\ x.pc \in {"target", "copy", "apply"} => x.todo \subseteq Paths
  /\ x.pc \in {"delete", "rmdirs"} => x.todo \subseteq 1..n
  /\ x.pc \in {"purge", "purgeDir"} => \A r \in x.todo : RowUpTo(r, n)

TypeInv ==
  /\ IsFiniteSet(rows) /\ \A r \in rows : RowUpTo(r, Number)
  /\ call \in [Calls -> CallRec] /\ \A c \in Calls : CallUpTo(call[c], Number)
  /\ files \in [Versions -> SUBSET Names]
  /\ ledger \in Int /\ faults \subseteq AllFaults /\ overlapped \in BOOLEAN

\* No more versions than calls, and one fewer while a call is on its way.
LEMMA NumberType ==
  /\ IsFiniteSet(Spent) /\ Number \in Nat /\ Number <= MaxVersion
  /\ \A c \in Calls : At(c, Early) => Number + 1 <= MaxVersion
<1>1. IsFiniteSet(Calls) /\ Cardinality(Calls) \in Nat /\ Cardinality(Calls) <= MaxVersion /\ MaxVersion \in Nat
  BY VersionsAssumption, FS_CardinalityType
<1>2. Spent \in SUBSET Calls
  BY DEF Spent
<1>3. IsFiniteSet(Spent) /\ Number \in Nat /\ Number <= Cardinality(Calls)
  BY <1>1, <1>2, FS_Subset, FS_CardinalityType DEF Number
<1>4. ASSUME NEW c \in Calls, At(c, Early) PROVE Number + 1 <= Cardinality(Calls)
  <2>1. c \notin Spent
    BY <1>4 DEF Spent
  <2>2. IsFiniteSet(Spent \cup {c}) /\ Cardinality(Spent \cup {c}) = Number + 1
    BY <1>3, <2>1, FS_AddElement DEF Number
  <2>3. Spent \cup {c} \in SUBSET Calls
    BY <1>2
  <2>4. Cardinality(Spent \cup {c}) <= Cardinality(Calls)
    BY <1>1, <2>3, FS_Subset
  <2> QED BY <2>2, <2>4
<1> QED BY <1>1, <1>3, <1>4

\* A call that leaves the early labels counts once more.
LEMMA NumberStep ==
  ASSUME call \in [Calls -> CallRec], NEW c \in Calls, NEW x, call' = [call EXCEPT ![c] = x],
         x.pc \in Early => call[c].pc \in Early
  PROVE  /\ Number' \in Nat /\ Number <= Number'
         /\ Number' = IF call[c].pc \in Early /\ x.pc \notin Early THEN Number + 1 ELSE Number
<1>1. Spent' = IF call[c].pc \in Early /\ x.pc \notin Early THEN Spent \cup {c} ELSE Spent
  BY DEF Spent, At
<1>2. IsFiniteSet(Spent) /\ Number \in Nat
  BY NumberType
<1>3. CASE call[c].pc \in Early /\ x.pc \notin Early
  <2>1. c \notin Spent
    BY <1>3 DEF Spent, At
  <2>2. Cardinality(Spent \cup {c}) = Number + 1
    BY <1>2, <2>1, FS_AddElement DEF Number
  <2>3. Number' = Cardinality(Spent \cup {c})
    BY <1>1, <1>3 DEF Number
  <2> QED BY <1>2, <1>3, <2>2, <2>3
<1>4. CASE ~(call[c].pc \in Early /\ x.pc \notin Early)
  <2>1. Number' = Number
    BY <1>1, <1>4 DEF Number
  <2> QED BY <1>2, <1>4, <2>1
<1> QED BY <1>3, <1>4

\* A greater bound holds what a smaller one holds.
LEMMA Grows ==
  ASSUME NEW m \in Nat, NEW n \in Nat, m <= n
  PROVE  /\ \A r : RowUpTo(r, m) => RowUpTo(r, n)
         /\ \A x : CallUpTo(x, m) => CallUpTo(x, n)
<1>1. ASSUME NEW r, RowUpTo(r, m) PROVE RowUpTo(r, n)
  BY <1>1 DEF RowUpTo
<1>2. ASSUME NEW x, CallUpTo(x, m) PROVE CallUpTo(x, n)
  <2>1. \A r \in x.todo : RowUpTo(r, m) => RowUpTo(r, n)
    BY <1>1
  <2>2. /\ x.expected \in 0..n /\ x.base \in 0..n /\ x.from \in 0..n /\ x.seen \in 0..n
        /\ x.dir \in 0..(IF x.pc \in Early THEN n + 1 ELSE n)
    BY <1>2 DEF CallUpTo
  <2>3. x.pc \in {"delete", "rmdirs"} => x.todo \subseteq 1..n
    BY <1>2 DEF CallUpTo
  <2> QED BY <1>2, <2>1, <2>2, <2>3 DEF CallUpTo
<1> QED BY <1>1, <1>2

\* The versions that there may be once a call has got to a label.
Room(c, to) == IF call[c].pc \in Early /\ to \notin Early THEN Number + 1 ELSE Number

\* A step of one call keeps the types when its new record has them.
LEMMA TypeFrame ==
  ASSUME TypeInv, NEW c \in Calls, NEW x, call' = [call EXCEPT ![c] = x],
         x.pc \in Early => call[c].pc \in Early, CallUpTo(x, Room(c, x.pc)),
         IsFiniteSet(rows'), \A r \in rows' : r \in rows \/ RowUpTo(r, Room(c, x.pc)),
         files' \in [Versions -> SUBSET Names], ledger' \in Int, faults' \subseteq AllFaults,
         overlapped' \in BOOLEAN
  PROVE  TypeInv'
<1>1. /\ call \in [Calls -> CallRec] /\ Number \in Nat
  BY NumberType DEF TypeInv
<1>2. /\ Number' \in Nat /\ Number <= Number'
      /\ Number' = Room(c, x.pc)
  BY <1>1, NumberStep DEF Room
<1>3. CallUpTo(x, Number') /\ x \in CallRec
  BY <1>2 DEF CallUpTo
<1>4. \A r \in rows' : RowUpTo(r, Number')
  BY <1>1, <1>2, Grows DEF TypeInv
<1>5. \A d \in Calls : CallUpTo(call'[d], Number')
  <2>1. \A d \in Calls : CallUpTo(call[d], Number')
    BY <1>1, <1>2, Grows DEF TypeInv
  <2>2. \A d \in Calls : call'[d] = IF d = c THEN x ELSE call[d]
    BY <1>1
  <2> QED BY <1>3, <2>1, <2>2
<1>6. call' \in [Calls -> CallRec]
  BY <1>1, <1>3
<1> QED BY <1>4, <1>5, <1>6 DEF TypeInv

\* The fields of a call that no step after the reading of the version changes,
\* those that no step after the check changes, and those that only the steps
\* named for it change.
Asked(x, y) == x.kind = y.kind /\ x.expected = y.expected /\ x.path = y.path
Same(x, y) == x.kind = y.kind /\ x.expected = y.expected /\ x.path = y.path /\ x.from = y.from
Moves(x, y) == /\ Same(x, y) /\ x.base = y.base /\ x.dir = y.dir /\ x.manifest = y.manifest
               /\ x.seen = y.seen /\ x.count = y.count

Things == SUBSET (Paths \cup Nat \cup RowRec)

\* The record of a call after each form of step.
LEMMA GoForm ==
  ASSUME call \in [Calls -> CallRec], NEW c \in Calls, NEW to \in Labels, Go(c, to)
  PROVE  /\ call' = [call EXCEPT ![c] = call'[c]] /\ call'[c] \in CallRec
         /\ call'[c].pc = to /\ call'[c].todo = call[c].todo /\ Moves(call'[c], call[c])
<1>1. call[c] \in CallRec /\ call'[c] = [call[c] EXCEPT !.pc = to]
  BY DEF Go
<1>2. call' = [call EXCEPT ![c] = call'[c]]
  BY <1>1 DEF Go
<1> QED BY <1>1, <1>2 DEF CallRec, Moves, Same

\* A step that moves a call and replaces its list.
LEMMA TodoForm ==
  ASSUME call \in [Calls -> CallRec], NEW c \in Calls, NEW to \in Labels, NEW left \in Things,
         \/ call' = [call EXCEPT ![c].pc = to, ![c].todo = left]
         \/ call' = [call EXCEPT ![c].todo = left] /\ call[c].pc = to
  PROVE  /\ call' = [call EXCEPT ![c] = call'[c]] /\ call'[c] \in CallRec
         /\ call'[c].pc = to /\ call'[c].todo = left /\ Moves(call'[c], call[c])
<1>1. CASE call' = [call EXCEPT ![c].pc = to, ![c].todo = left]
  <2>1. call[c] \in CallRec /\ call'[c] = [call[c] EXCEPT !.pc = to, !.todo = left]
    BY <1>1
  <2>2. call' = [call EXCEPT ![c] = call'[c]]
    BY <1>1, <2>1
  <2> QED BY <2>1, <2>2 DEF CallRec, Moves, Same, Things
<1>2. CASE call' = [call EXCEPT ![c].todo = left] /\ call[c].pc = to
  <2>1. call[c] \in CallRec /\ call'[c] = [call[c] EXCEPT !.todo = left]
    BY <1>2
  <2>2. call' = [call EXCEPT ![c] = call'[c]]
    BY <1>2, <2>1
  <2> QED BY <1>2, <2>1, <2>2 DEF CallRec, Moves, Same, Things
<1> QED BY <1>1, <1>2

\* The first step of a creation.
LEMMA CreateForm ==
  ASSUME TypeInv, NEW c \in Calls, Create(c)
  PROVE  /\ call' = [call EXCEPT ![c] = call'[c]] /\ call'[c] \in CallRec
         /\ Same(call'[c], call[c]) /\ call'[c].base = call[c].base /\ call'[c].seen = call[c].seen
         /\ call'[c].pc \in {"store", "apply"} /\ (call'[c].pc = "store" => call[c].path = {})
         /\ call'[c].dir = 1 /\ call'[c].todo = call[c].path /\ call'[c].manifest = call[c].path
<1> DEFINE to == IF call[c].path = {} THEN "store" ELSE "apply"
<1>1. /\ call[c] \in CallRec /\ to \in {"store", "apply"} /\ (to = "store" => call[c].path = {})
      /\ call' = [call EXCEPT ![c].pc = to, ![c].dir = 1, ![c].todo = call[c].path,
                              ![c].manifest = call[c].path]
  BY DEF TypeInv, Create
<1>2. to \in Labels /\ call[c].path \in Things /\ call[c].path \in SUBSET Paths
  BY <1>1 DEF Labels, InCall, Things, CallRec
<1> HIDE DEF to
<1>3. call'[c] = [call[c] EXCEPT !.pc = to, !.dir = 1, !.todo = call[c].path,
                                 !.manifest = call[c].path]
  BY <1>1 DEF TypeInv
<1>4. call' = [call EXCEPT ![c] = call'[c]]
  BY <1>1, <1>3 DEF TypeInv
<1>5. call[c] \in CallRec
  BY <1>1
<1>6. /\ call'[c] \in CallRec /\ Same(call'[c], call[c])
      /\ call'[c].base = call[c].base /\ call'[c].seen = call[c].seen /\ call'[c].pc = to
      /\ call'[c].dir = 1 /\ call'[c].todo = call[c].path /\ call'[c].manifest = call[c].path
  <2> DEFINE p == call[c].path
             one == 1
  <2>1. /\ call'[c] = [call[c] EXCEPT !.pc = to, !.dir = one, !.todo = p, !.manifest = p]
        /\ p \in Things /\ p \in SUBSET Paths /\ one \in Nat
    BY <1>2, <1>3
  <2>2. p = call[c].path /\ one = 1
    OBVIOUS
  <2> HIDE DEF p, one
  <2>3. /\ call'[c] \in CallRec /\ Same(call'[c], call[c])
        /\ call'[c].base = call[c].base /\ call'[c].seen = call[c].seen /\ call'[c].pc = to
        /\ call'[c].dir = one /\ call'[c].todo = p /\ call'[c].manifest = p
    BY ONLY <1>2, <1>5, <2>1 DEF CallRec, Same, Things
  <2> QED BY <2>2, <2>3
<1> QED BY <1>1, <1>4, <1>6

\* The manifest that an append writes.
Changed(c) == IF call[c].kind = "write" THEN Row(HeadVersion).manifest \cup call[c].path
              ELSE Row(HeadVersion).manifest \ call[c].path

\* The record of a call that has found the head to append to.
LEMMA CheckForm ==
  ASSUME TypeInv, NEW c \in Calls,
         HeadVersion \in Nat, Row(HeadVersion).dir \in Nat, Changed(c) \in SUBSET Paths,
         call' = [call EXCEPT ![c].pc = "source", ![c].base = HeadVersion,
                              ![c].from = Row(HeadVersion).dir, ![c].dir = HeadVersion + 1,
                              ![c].manifest = Changed(c)]
  PROVE  /\ call' = [call EXCEPT ![c] = call'[c]] /\ call'[c] \in CallRec
         /\ Asked(call'[c], call[c]) /\ call'[c].pc = "source" /\ call'[c].base = HeadVersion
         /\ call'[c].from = Row(HeadVersion).dir /\ call'[c].dir = HeadVersion + 1
         /\ call'[c].manifest = Changed(c) /\ call'[c].seen = call[c].seen
<1> DEFINE v == HeadVersion
           u == Row(HeadVersion).dir
           w == HeadVersion + 1
           m == Changed(c)
<1>1. call[c] \in CallRec /\ v \in Nat /\ u \in Nat /\ w \in Nat /\ m \in SUBSET Paths
  BY DEF TypeInv
<1>2. call' = [call EXCEPT ![c].pc = "source", ![c].base = v, ![c].from = u, ![c].dir = w,
                           ![c].manifest = m]
  OBVIOUS
<1> HIDE DEF v, u, w, m
<1>3. call'[c] = [call[c] EXCEPT !.pc = "source", !.base = v, !.from = u, !.dir = w, !.manifest = m]
  BY <1>2 DEF TypeInv
<1>4. call' = [call EXCEPT ![c] = call'[c]]
  BY <1>2, <1>3 DEF TypeInv
<1>5. /\ call'[c] \in CallRec /\ Asked(call'[c], call[c]) /\ call'[c].pc = "source"
      /\ call'[c].base = v /\ call'[c].from = u /\ call'[c].dir = w /\ call'[c].manifest = m
      /\ call'[c].seen = call[c].seen
  <2>1. "source" \in Labels
    BY DEF Labels, InCall
  <2> QED BY ONLY <1>1, <1>3, <2>1 DEF CallRec, Asked
<1> QED BY <1>4, <1>5 DEF v, u, w, m

\* The reading of the head before the transaction.
LEMMA StoreForm ==
  ASSUME TypeInv, NEW c \in Calls, Store(c), HeadVersion \in Nat
  PROVE  /\ call' = [call EXCEPT ![c] = call'[c]] /\ call'[c] \in CallRec
         /\ Same(call'[c], call[c]) /\ call'[c].pc = "insert" /\ call'[c].seen = HeadVersion
         /\ call'[c].base = call[c].base /\ call'[c].dir = call[c].dir
         /\ call'[c].manifest = call[c].manifest /\ call'[c].todo = call[c].todo
<1>1. call[c] \in CallRec /\ call' = [call EXCEPT ![c].pc = "insert", ![c].seen = HeadVersion]
  BY DEF TypeInv, Store
<1>2. call'[c] = [call[c] EXCEPT !.pc = "insert", !.seen = HeadVersion]
  BY <1>1 DEF TypeInv
<1>3. call' = [call EXCEPT ![c] = call'[c]]
  BY <1>1, <1>2 DEF TypeInv
<1>4. call[c] \in CallRec /\ "insert" \in Labels
  BY <1>1 DEF Labels, InCall
<1>5. /\ call'[c] \in CallRec /\ Same(call'[c], call[c]) /\ call'[c].pc = "insert"
      /\ call'[c].seen = HeadVersion /\ call'[c].base = call[c].base
      /\ call'[c].dir = call[c].dir /\ call'[c].manifest = call[c].manifest
      /\ call'[c].todo = call[c].todo
  BY <1>2, <1>4 DEF CallRec, Same
<1> QED BY <1>3, <1>5

\* The deletion of the rows, counted.
LEMMA DeleteRowsForm ==
  ASSUME TypeInv, NEW c \in Calls, DeleteRows(c), Cardinality(rows) \in Nat
  PROVE  /\ call' = [call EXCEPT ![c] = call'[c]] /\ call'[c] \in CallRec
         /\ Same(call'[c], call[c]) /\ call'[c].count = Cardinality(rows)
         /\ call'[c].pc = IF rows = {} THEN Leave(c) ELSE "rmdirs"
         /\ call'[c].base = call[c].base /\ call'[c].dir = call[c].dir
         /\ call'[c].seen = call[c].seen /\ call'[c].todo = call[c].todo
<1> DEFINE to == IF rows = {} THEN Leave(c) ELSE "rmdirs"
           n == Cardinality(rows)
<1>1. call[c] \in CallRec /\ call' = [call EXCEPT ![c].pc = to, ![c].count = n]
  BY DEF TypeInv, DeleteRows
<1>2. to \in Labels /\ n \in Nat
  BY DEF Leave, Labels, InCall
<1> HIDE DEF to, n
<1>3. call'[c] = [call[c] EXCEPT !.pc = to, !.count = n]
  BY <1>1 DEF TypeInv
<1>4. call' = [call EXCEPT ![c] = call'[c]]
  BY <1>1, <1>3 DEF TypeInv
<1>5. /\ call'[c] \in CallRec /\ Same(call'[c], call[c]) /\ call'[c].count = n /\ call'[c].pc = to
      /\ call'[c].base = call[c].base /\ call'[c].dir = call[c].dir
      /\ call'[c].seen = call[c].seen /\ call'[c].todo = call[c].todo
  <2>1. call[c] \in CallRec
    BY <1>1
  <2> QED BY <1>2, <1>3, <2>1 DEF CallRec, Same
<1> QED BY <1>4, <1>5 DEF to, n

\* The deletion of one expired row.
LEMMA PurgeForm ==
  ASSUME TypeInv, NEW c \in Calls, NEW to \in Labels, NEW v, v \in call[c].todo, v.dir \in Nat,
         call' = [call EXCEPT ![c].pc = to, ![c].todo = @ \ {v}, ![c].dir = v.dir]
  PROVE  /\ call' = [call EXCEPT ![c] = call'[c]] /\ call'[c] \in CallRec
         /\ Same(call'[c], call[c]) /\ call'[c].pc = to
         /\ call'[c].todo = call[c].todo \ {v} /\ call'[c].dir = v.dir
         /\ call'[c].base = call[c].base /\ call'[c].seen = call[c].seen
         /\ call'[c].count = call[c].count
<1> DEFINE left == call[c].todo \ {v}
           d == v.dir
<1>1. call[c] \in CallRec /\ call' = [call EXCEPT ![c].pc = to, ![c].todo = left, ![c].dir = d]
  BY DEF TypeInv
<1>2. left \in Things /\ d \in Nat
  BY <1>1 DEF CallRec, Things
<1> HIDE DEF left, d
<1>3. call'[c] = [call[c] EXCEPT !.pc = to, !.todo = left, !.dir = d]
  BY <1>1 DEF TypeInv
<1>4. call' = [call EXCEPT ![c] = call'[c]]
  BY <1>1, <1>3 DEF TypeInv
<1>5. /\ call'[c] \in CallRec /\ Same(call'[c], call[c]) /\ call'[c].pc = to
      /\ call'[c].todo = left /\ call'[c].dir = d /\ call'[c].base = call[c].base
      /\ call'[c].seen = call[c].seen /\ call'[c].count = call[c].count
  <2>1. call[c] \in CallRec
    BY <1>1
  <2>2. to \in Labels
    OBVIOUS
  <2> QED BY ONLY <1>2, <1>3, <2>1, <2>2 DEF CallRec, Same, Things
<1> QED BY <1>4, <1>5 DEF left, d

\* The room of a step is at least the number there is.
LEMMA RoomType ==
  ASSUME NEW c \in Calls, NEW to
  PROVE  Number \in Nat /\ Room(c, to) \in Nat /\ Number <= Room(c, to)
BY NumberType DEF Room

\* The head is in the table, under a number that there may be.
LEMMA HeadUpTo ==
  ASSUME TypeInv, HeadInv
  PROVE  /\ HeadVersion \in 0..Number
         /\ HeadVersion # 0 <=> rows # {}
         /\ rows # {} => Row(HeadVersion) \in rows /\ Row(HeadVersion).version = HeadVersion
<1>1. CASE rows = {}
  BY <1>1, NoHead, NumberType
<1>2. CASE rows # {}
  <2>1. PICK h \in rows : h.version = HeadVersion
    BY <1>2, HeadOf
  <2>2. RowUpTo(h, Number)
    BY DEF TypeInv
  <2>3. Row(HeadVersion) \in rows /\ Row(HeadVersion).version = HeadVersion
    BY <2>1 DEF Row
  <2> QED BY <1>2, <2>1, <2>2, <2>3, NumberType DEF RowUpTo
<1> QED BY <1>1, <1>2

\* A step that changes label and list.
LEMMA MovedTypes ==
  ASSUME TypeInv, NEW c \in Calls, NEW x \in CallRec, Same(x, call[c]), x.base = call[c].base,
         x.dir = call[c].dir, x.seen = call[c].seen, x.pc \in Early => call[c].pc \in Early,
         x.pc \in Working \cup {"undo", "purgeDir"} => x.dir # 0,
         x.kind = "create" /\ x.pc \in Leaving => x.dir # 0,
         x.pc \in {"source", "target", "copy"} => x.from # 0,
         x.pc \in {"target", "copy", "apply"} => x.todo \subseteq Paths,
         x.pc \in {"delete", "rmdirs"} => x.todo \subseteq 1..Number,
         x.pc \in {"purge", "purgeDir"} => \A r \in x.todo : RowUpTo(r, Number)
  PROVE  CallUpTo(x, Room(c, x.pc))
<1>1. CallUpTo(call[c], Number) /\ call[c] \in CallRec
  BY DEF TypeInv
<1>2. Number \in Nat /\ Room(c, x.pc) \in Nat /\ Number <= Room(c, x.pc)
  BY RoomType
<1>3. /\ x.expected \in 0..Room(c, x.pc) /\ x.base \in 0..Room(c, x.pc)
      /\ x.from \in 0..Room(c, x.pc) /\ x.seen \in 0..Room(c, x.pc)
  BY <1>1, <1>2 DEF CallUpTo, Same
<1>4. x.dir \in 0..(IF x.pc \in Early THEN Room(c, x.pc) + 1 ELSE Room(c, x.pc))
  BY <1>1, <1>2 DEF CallUpTo, Room
<1>5. x.pc \in {"delete", "rmdirs"} => x.todo \subseteq 1..Room(c, x.pc)
  <2>1. 1..Number \subseteq 1..Room(c, x.pc)
    BY <1>2
  <2> QED BY <2>1
<1>6. x.pc \in {"purge", "purgeDir"} => \A r \in x.todo : RowUpTo(r, Room(c, x.pc))
  BY <1>2, Grows
<1> QED BY <1>3, <1>4, <1>5, <1>6 DEF CallUpTo

\* A step of that form which leaves the table alone.
LEMMA MovedFrame ==
  ASSUME TypeInv, NEW c \in Calls, call' = [call EXCEPT ![c] = call'[c]], call'[c] \in CallRec,
         Moves(call'[c], call[c]), call'[c].pc \in Early => call[c].pc \in Early,
         call'[c].pc \in Working \cup {"undo", "purgeDir"} => call[c].dir # 0,
         call[c].kind = "create" /\ call'[c].pc \in Leaving => call[c].dir # 0,
         call'[c].pc \in {"source", "target", "copy"} => call[c].from # 0,
         call'[c].pc \in {"target", "copy", "apply"} => call'[c].todo \subseteq Paths,
         call'[c].pc \in {"delete", "rmdirs"} => call'[c].todo \subseteq 1..Number,
         call'[c].pc \in {"purge", "purgeDir"} => \A r \in call'[c].todo : RowUpTo(r, Number),
         rows' = rows, files' \in [Versions -> SUBSET Names], ledger' \in Int,
         faults' \subseteq AllFaults, overlapped' \in BOOLEAN
  PROVE  TypeInv'
<1>1. CallUpTo(call'[c], Room(c, call'[c].pc))
  BY MovedTypes DEF Moves, Same
<1>2. IsFiniteSet(rows') /\ \A r \in rows' : r \in rows
  BY DEF TypeInv
<1> QED BY <1>1, <1>2, TypeFrame

\* Fault names.
LEMMA FaultType ==
  ASSUME TypeInv, NEW k, Fault(k) PROVE faults' \subseteq AllFaults
BY VersionsAssumption DEF TypeInv, Fault

\* What a directory may become.
LEMMA FilesType ==
  ASSUME TypeInv, NEW d, NEW set \in SUBSET Names, files' = [files EXCEPT ![d] = set]
  PROVE  files' \in [Versions -> SUBSET Names]
BY DEF TypeInv

\* A client takes the head version as expected.
LEMMA ReadTypes ==
  ASSUME TypeInv, HeadInv, NEW c \in Calls, Read(c) PROVE TypeInv'
<1>1. PICK kind \in Kinds, path \in SUBSET Paths :
        call' = [call EXCEPT ![c] = [NewCall EXCEPT
                      !.kind = kind, !.path = path, !.pc = "read", !.expected = HeadVersion]]
  BY DEF Read
<1> DEFINE h == HeadVersion
           x == [NewCall EXCEPT !.kind = kind, !.path = path, !.pc = "read", !.expected = h]
<1>2. h \in Nat /\ h \in 0..Number /\ kind \in AllKinds /\ "read" \in Labels /\ Number \in Nat
  BY HeadUpTo, VersionsAssumption, NumberType DEF Labels
<1>3. At(c, {"new"}) /\ UNCHANGED <<rows, files, ledger, faults, overlapped>>
      /\ call' = [call EXCEPT ![c] = x]
  BY <1>1 DEF Read
<1> HIDE DEF h
<1>4. x \in CallRec /\ x.pc = "read" /\ x.expected = h /\ x.base = 0 /\ x.from = 0
      /\ x.seen = 0 /\ x.dir = 0
  <2>1. NewCall \in CallRec
    BY DEF NewCall, CallRec, AllKinds, Labels
  <2>2. x \in CallRec
    BY <1>2, <2>1 DEF CallRec
  <2> QED BY <2>2 DEF NewCall
<1>5. "read" \in Early /\ "new" \in Early
  BY DEF Early, Creating
<1> HIDE DEF x
<1>6. CallUpTo(x, Number)
  <2>1. x.pc \notin Working \cup {"undo", "purgeDir", "delete", "rmdirs", "purge"} \cup Leaving
    BY <1>4 DEF Working, Leaving
  <2> QED BY <1>2, <1>4, <1>5, <2>1 DEF CallUpTo, Working
<1>7. Room(c, x.pc) = Number
  BY <1>4, <1>5 DEF Room
<1> QED BY <1>3, <1>4, <1>5, <1>6, <1>7, TypeFrame DEF TypeInv, At

\* A creation works in directory 1.
LEMMA CreateTypes ==
  ASSUME TypeInv, NEW c \in Calls, Create(c) PROVE TypeInv'
<1>1. /\ call' = [call EXCEPT ![c] = call'[c]] /\ call'[c] \in CallRec
      /\ Same(call'[c], call[c]) /\ call'[c].base = call[c].base /\ call'[c].seen = call[c].seen
      /\ call'[c].pc \in {"store", "apply"} /\ call'[c].dir = 1 /\ call'[c].todo = call[c].path
  BY CreateForm
<1>2. call[c].pc = "called" /\ UNCHANGED <<rows, files, ledger, faults, overlapped>>
  BY DEF Create, At
<1>3. call[c].pc \in Early /\ call'[c].pc \in Early
  BY <1>1, <1>2 DEF Early, Creating, Working
<1>4. CallUpTo(call[c], Number) /\ call[c] \in CallRec /\ Number \in Nat /\ Room(c, call'[c].pc) = Number
  BY <1>3, NumberType DEF TypeInv, Room
<1>5. CallUpTo(call'[c], Number)
  <2>1. call[c].path \subseteq Paths
    BY <1>4 DEF CallRec
  <2>2. call'[c].dir \in 0..(Number + 1) /\ call'[c].dir # 0
    BY <1>1, <1>4
  <2>3. call'[c].pc \notin Leaving
    BY <1>1 DEF Leaving
  <2> QED BY <1>1, <1>3, <1>4, <2>1, <2>2, <2>3 DEF CallUpTo, Same
<1> QED BY <1>1, <1>2, <1>3, <1>4, <1>5, TypeFrame DEF TypeInv

\* An append works in the directory after the head.
LEMMA CheckTypes ==
  ASSUME TypeInv, HeadInv, NEW c \in Calls, Check(c) PROVE TypeInv'
<1> DEFINE head == Row(HeadVersion)
           changed == IF call[c].kind = "write" THEN head.manifest \cup call[c].path
                      ELSE head.manifest \ call[c].path
<1>1. /\ call[c].pc = "called" /\ call[c].kind # "create"
      /\ UNCHANGED <<rows, files, ledger, faults, overlapped>>
      /\ \/ Go(c, "done") \/ Go(c, "list")
         \/ /\ HeadVersion # 0
            /\ call' = [call EXCEPT ![c].pc = "source", ![c].base = HeadVersion,
                                    ![c].from = head.dir, ![c].dir = HeadVersion + 1,
                                    ![c].manifest = changed]
  BY DEF Check, At, Fresh
<1>2. call[c].pc \in Early /\ "done" \in Labels /\ "list" \in Labels
  BY <1>1 DEF Early, Creating, Labels, InCall
<1>3. CASE Go(c, "done") \/ Go(c, "list")
  <2>1. /\ call' = [call EXCEPT ![c] = call'[c]] /\ call'[c] \in CallRec
        /\ call'[c].pc \in {"done", "list"} /\ Moves(call'[c], call[c])
    BY <1>2, <1>3, GoForm DEF TypeInv
  <2> QED BY <1>1, <1>2, <2>1, MovedFrame DEF TypeInv, Working
<1>4. CASE /\ HeadVersion # 0
           /\ call' = [call EXCEPT ![c].pc = "source", ![c].base = HeadVersion,
                                   ![c].from = head.dir, ![c].dir = HeadVersion + 1,
                                   ![c].manifest = changed]
  <2>1. HeadVersion \in 1..Number /\ HeadVersion \in Nat /\ head \in rows /\ Number \in Nat
    BY <1>4, HeadUpTo, NumberType
  <2>2. changed \in SUBSET Paths
    <3>1. head.manifest \subseteq Paths /\ call[c].path \subseteq Paths
      BY <2>1 DEF TypeInv, RowUpTo, RowRec, CallRec
    <3> QED BY <3>1
  <2>6. head.dir \in 1..Number /\ head.dir \in Nat
    BY <2>1 DEF TypeInv, RowUpTo
  <2> HIDE DEF changed, head
  <2>3. /\ call' = [call EXCEPT ![c] = call'[c]] /\ call'[c] \in CallRec
        /\ Asked(call'[c], call[c]) /\ call'[c].pc = "source" /\ call'[c].base = HeadVersion
        /\ call'[c].from = head.dir /\ call'[c].dir = HeadVersion + 1
        /\ call'[c].seen = call[c].seen
    <3>1. changed = Changed(c)
      BY DEF changed, head, Changed
    <3>2. call' = [call EXCEPT ![c].pc = "source", ![c].base = HeadVersion,
                               ![c].from = Row(HeadVersion).dir, ![c].dir = HeadVersion + 1,
                               ![c].manifest = Changed(c)]
      BY <1>4, <3>1 DEF head
    <3>3. Changed(c) \in SUBSET Paths /\ Row(HeadVersion).dir \in Nat
      BY <2>2, <2>6, <3>1 DEF head
    <3> QED BY <2>1, <3>2, <3>3, CheckForm DEF head
  <2>4. call'[c].pc \in Early /\ Room(c, call'[c].pc) = Number /\ CallUpTo(call[c], Number)
    BY <1>2, <2>3 DEF Early, Creating, Working, Room, TypeInv
  <2>5. CallUpTo(call'[c], Number)
    <3>1. call'[c].dir \in 0..(Number + 1) /\ call'[c].dir # 0
      BY <2>1, <2>3
    <3> QED BY <2>1, <2>3, <2>4, <2>6, <3>1 DEF CallUpTo, Asked
  <2> QED BY <1>1, <1>2, <2>3, <2>4, <2>5, TypeFrame DEF TypeInv
<1> QED BY <1>1, <1>3, <1>4

\* The directories that a call works in are version directories.
LEMMA PlacesType ==
  ASSUME TypeInv, NEW c \in Calls
  PROVE  /\ call[c] \in CallRec /\ CallUpTo(call[c], Number) /\ Number \in Nat
         /\ 1..Number \subseteq Versions
         /\ call[c].pc \in Working \cup {"undo", "purgeDir"} => call[c].dir \in Versions
         /\ call[c].pc \in {"source", "target", "copy"} => call[c].from \in Versions
<1>1. /\ call[c] \in CallRec /\ CallUpTo(call[c], Number) /\ Number \in Nat /\ Number <= MaxVersion
      /\ (At(c, Early) => Number + 1 <= MaxVersion) /\ MaxVersion \in Nat
  BY NumberType, VersionsAssumption DEF TypeInv
<1>2. 1..Number \subseteq Versions
  BY <1>1 DEF Versions
<1>3. call[c].pc \in Working \cup {"undo", "purgeDir"} => call[c].dir \in Versions
  BY <1>1 DEF CallUpTo, Versions, At
<1>4. call[c].pc \in {"source", "target", "copy"} => call[c].from \in Versions
  BY <1>1 DEF CallUpTo, Versions
<1> QED BY <1>1, <1>2, <1>3, <1>4

\* Labels.
LEMMA LabelTypes ==
  /\ InCall \subseteq Labels /\ InCleanUp \subseteq Labels /\ "done" \in Labels
  /\ "called" \in Labels
BY DEF Labels, InCall

\* Where the loop of the copy goes on.
LEMMA CopyingForm ==
  ASSUME TypeInv, NEW c \in Calls, NEW todo \in SUBSET Paths, Copying(c, todo)
  PROVE  /\ call' = [call EXCEPT ![c] = call'[c]] /\ call'[c] \in CallRec /\ Moves(call'[c], call[c])
         /\ \/ todo = {} /\ call'[c].pc = "apply" /\ call'[c].todo = call[c].path
            \/ call'[c].pc = "copy" /\ call'[c].todo = todo
<1> DEFINE to == IF todo = {} THEN "apply" ELSE "copy"
           left == IF todo = {} THEN call[c].path ELSE todo
<1>1. call[c] \in CallRec /\ call \in [Calls -> CallRec]
  BY DEF TypeInv
<1>2. call' = [call EXCEPT ![c].pc = to, ![c].todo = left]
  BY DEF Copying
<1>3. to \in Labels /\ left \in Things
  BY <1>1, LabelTypes DEF Things, InCall, CallRec
<1>4. (todo = {} /\ to = "apply" /\ left = call[c].path) \/ (to = "copy" /\ left = todo)
  OBVIOUS
<1> HIDE DEF to, left
<1>5. /\ call' = [call EXCEPT ![c] = call'[c]] /\ call'[c] \in CallRec
      /\ call'[c].pc = to /\ call'[c].todo = left /\ Moves(call'[c], call[c])
  BY <1>1, <1>2, <1>3, TodoForm
<1> QED BY <1>4, <1>5

\* What is put is there, and what was there stays.
LEMMA PutForm ==
  ASSUME TypeInv, NEW d \in Versions, NEW paths \in SUBSET Paths, Put(d, paths)
  PROVE  \E set \in SUBSET Names :
           files' = [files EXCEPT ![d] = set] /\ files[d] \cup paths \subseteq set
<1> DEFINE set == IF paths = {} THEN files[d] ELSE files[d] \cup paths \cup {Here}
<1>1. files \in [Versions -> SUBSET Names]
  BY DEF TypeInv
<1>2. files' = [files EXCEPT ![d] = set]
  BY <1>1 DEF Put
<1>3. set \in SUBSET Names /\ files[d] \cup paths \subseteq set
  BY <1>1 DEF Names
<1> HIDE DEF set
<1> QED BY <1>2, <1>3

\* The steps of the copy and of the changes to it.
LEMMA SourceForm ==
  ASSUME TypeInv, NEW c \in Calls, Source(c)
  PROVE  /\ call[c].pc = "source" /\ UNCHANGED <<rows, files, ledger, overlapped>>
         /\ UNCHANGED faults \/ Fault("list")
         /\ call' = [call EXCEPT ![c] = call'[c]] /\ call'[c] \in CallRec /\ Moves(call'[c], call[c])
         /\ call[c].from \in Versions
         /\ IF files[call[c].from] = {} THEN call'[c].pc = "apply" /\ call'[c].todo = call[c].path
            ELSE call'[c].pc = "target" /\ call'[c].todo \subseteq Paths
         /\ \/ "list" \in faults' \/ call'[c].pc = "apply"
            \/ call'[c].todo = Listed(call[c].from)
<1>1. /\ call[c].pc = "source" /\ UNCHANGED <<rows, files, ledger, overlapped>>
  BY DEF Source, At
<1>2. call[c].from \in Versions /\ call[c] \in CallRec /\ call \in [Calls -> CallRec]
  BY <1>1, PlacesType DEF TypeInv
<1>3. PICK found \in SUBSET Listed(call[c].from) :
        /\ IF found = Listed(call[c].from) THEN UNCHANGED faults ELSE Fault("list")
        /\ call' = IF files[call[c].from] = {}
                   THEN [call EXCEPT ![c].pc = "apply", ![c].todo = call[c].path]
                   ELSE [call EXCEPT ![c].pc = "target", ![c].todo = found]
  BY DEF Source
<1> DEFINE to == IF files[call[c].from] = {} THEN "apply" ELSE "target"
           left == IF files[call[c].from] = {} THEN call[c].path ELSE found
<1>4. call' = [call EXCEPT ![c].pc = to, ![c].todo = left]
  BY <1>3
<1>5. to \in Labels /\ left \in Things /\ found \subseteq Paths
  BY <1>2, LabelTypes DEF Things, InCall, CallRec, Listed
<1>6. IF files[call[c].from] = {} THEN to = "apply" /\ left = call[c].path
      ELSE to = "target" /\ left = found
  OBVIOUS
<1> HIDE DEF to, left
<1>7. /\ call' = [call EXCEPT ![c] = call'[c]] /\ call'[c] \in CallRec
      /\ call'[c].pc = to /\ call'[c].todo = left /\ Moves(call'[c], call[c])
  BY <1>2, <1>4, <1>5, TodoForm
<1>8. \/ found = Listed(call[c].from) /\ UNCHANGED faults
      \/ Fault("list") /\ "list" \in faults'
  BY <1>3 DEF Fault
<1> QED BY <1>1, <1>2, <1>5, <1>6, <1>7, <1>8

\* A directory that is seen to have files ends the call.
LEMMA TargetForm ==
  ASSUME TypeInv, NEW c \in Calls, Target(c)
  PROVE  /\ call[c].pc = "target" /\ UNCHANGED <<rows, files, ledger, overlapped>>
         /\ UNCHANGED faults \/ Fault("list")
         /\ call' = [call EXCEPT ![c] = call'[c]] /\ call'[c] \in CallRec /\ Moves(call'[c], call[c])
         /\ call[c].todo \subseteq Paths
         /\ \/ call'[c].pc = "done"
            \/ /\ call[c].todo = {}
               /\ call'[c].pc = "apply" /\ call'[c].todo = call[c].path
            \/ call'[c].pc = "copy" /\ call'[c].todo = call[c].todo
<1>1. /\ call[c].pc = "target" /\ UNCHANGED <<rows, files, ledger, overlapped>>
      /\ UNCHANGED faults \/ Fault("list")
      /\ Go(c, "done") \/ Copying(c, call[c].todo)
  BY DEF Target, At
<1>2. call[c].todo \in SUBSET Paths
  BY <1>1, PlacesType DEF CallUpTo
<1>3. CASE Go(c, "done")
  <2>1. /\ call' = [call EXCEPT ![c] = call'[c]] /\ call'[c] \in CallRec
        /\ call'[c].pc = "done" /\ Moves(call'[c], call[c])
    BY <1>3, GoForm, LabelTypes DEF TypeInv
  <2> QED BY <1>1, <1>2, <2>1
<1>4. CASE Copying(c, call[c].todo)
  BY <1>1, <1>2, <1>4, CopyingForm
<1> QED BY <1>1, <1>3, <1>4

\* One file is copied, or the copy fails.
LEMMA CopyForm ==
  ASSUME TypeInv, NEW c \in Calls, Copy(c)
  PROVE  /\ call[c].pc = "copy" /\ UNCHANGED <<rows, ledger, overlapped>>
         /\ call' = [call EXCEPT ![c] = call'[c]] /\ call'[c] \in CallRec /\ Moves(call'[c], call[c])
         /\ call[c].dir \in Versions /\ call[c].from \in Versions /\ call[c].todo \subseteq Paths
         /\ \/ /\ call'[c].pc = "done" /\ UNCHANGED files /\ Fault("copy")
            \/ /\ UNCHANGED faults
               /\ \E p \in call[c].todo :
                    /\ \E set \in SUBSET Names :
                         /\ files' = [files EXCEPT ![call[c].dir] = set]
                         /\ files[call[c].dir] \cup ({p} \cap files[call[c].from]) \subseteq set
                    /\ \/ /\ call[c].todo \ {p} = {}
                          /\ call'[c].pc = "apply" /\ call'[c].todo = call[c].path
                       \/ call'[c].pc = "copy" /\ call'[c].todo = call[c].todo \ {p}
<1>0. /\ call[c].pc = "copy" /\ UNCHANGED <<rows, ledger, overlapped>>
      /\ call[c] \in CallRec /\ call \in [Calls -> CallRec]
  BY DEF Copy, At, TypeInv
<1>1. call[c].dir \in Versions /\ call[c].from \in Versions /\ call[c].todo \subseteq Paths
  BY <1>0, PlacesType DEF Working, CallUpTo
<1>2. CASE Fault("copy") /\ Go(c, "done") /\ UNCHANGED files
  BY <1>0, <1>1, <1>2, GoForm, LabelTypes
<1>3. CASE \E p \in call[c].todo : /\ Put(call[c].dir, {p} \cap files[call[c].from])
                                   /\ Copying(c, call[c].todo \ {p})
                                   /\ UNCHANGED faults
  <2>1. PICK p \in call[c].todo : /\ Put(call[c].dir, {p} \cap files[call[c].from])
                                  /\ Copying(c, call[c].todo \ {p})
                                  /\ UNCHANGED faults
    BY <1>3
  <2>2. \E set \in SUBSET Names :
          /\ files' = [files EXCEPT ![call[c].dir] = set]
          /\ files[call[c].dir] \cup ({p} \cap files[call[c].from]) \subseteq set
    <3>1. {p} \cap files[call[c].from] \in SUBSET Paths
      BY <1>1
    <3> QED BY <1>1, <2>1, <3>1, PutForm
  <2>3. /\ call' = [call EXCEPT ![c] = call'[c]] /\ call'[c] \in CallRec
        /\ Moves(call'[c], call[c])
        /\ \/ /\ call[c].todo \ {p} = {}
              /\ call'[c].pc = "apply" /\ call'[c].todo = call[c].path
           \/ call'[c].pc = "copy" /\ call'[c].todo = call[c].todo \ {p}
    <3>1. call[c].todo \ {p} \in SUBSET Paths
      BY <1>1
    <3> QED BY <2>1, <3>1, CopyingForm
  <2> QED BY <1>0, <1>1, <2>1, <2>2, <2>3
<1> QED BY <1>2, <1>3 DEF Copy

\* One file is written or removed, or a write fails.
LEMMA ApplyForm ==
  ASSUME TypeInv, NEW c \in Calls, Apply(c)
  PROVE  /\ call[c].pc = "apply" /\ UNCHANGED <<rows, ledger, overlapped>>
         /\ call' = [call EXCEPT ![c] = call'[c]] /\ call'[c] \in CallRec /\ Moves(call'[c], call[c])
         /\ call[c].dir \in Versions /\ call[c].todo \subseteq Paths
         /\ \/ /\ call[c].todo = {} /\ call'[c].pc = "store" /\ call'[c].todo = {}
               /\ UNCHANGED <<files, faults>>
            \/ call'[c].pc = "undo" /\ UNCHANGED files /\ Fault("put")
            \/ /\ call'[c].pc = "apply" /\ UNCHANGED faults
               /\ \E p \in call[c].todo :
                    /\ \E set \in SUBSET Names :
                         /\ files' = [files EXCEPT ![call[c].dir] = set]
                         /\ IF call[c].kind = "remove" THEN set = files[call[c].dir] \ {p}
                            ELSE files[call[c].dir] \cup {p} \subseteq set
                    /\ call'[c].todo = call[c].todo \ {p}
<1>0. /\ call[c].pc = "apply" /\ UNCHANGED <<rows, ledger, overlapped>>
      /\ call[c] \in CallRec /\ call \in [Calls -> CallRec] /\ CallUpTo(call[c], Number)
      /\ files \in [Versions -> SUBSET Names]
  BY PlacesType DEF Apply, At, TypeInv
<1>1. call[c].dir \in Versions /\ call[c].todo \subseteq Paths
  BY <1>0, PlacesType DEF Working, CallUpTo
<1>2. CASE call[c].todo = {} /\ Go(c, "store") /\ UNCHANGED <<files, faults>>
  BY <1>0, <1>1, <1>2, GoForm, LabelTypes DEF InCall
<1>3. CASE Fault("put") /\ Go(c, "undo") /\ UNCHANGED files
  BY <1>0, <1>1, <1>3, GoForm, LabelTypes DEF InCall
<1>4. ASSUME NEW p \in call[c].todo, call' = [call EXCEPT ![c].todo = @ \ {p}],
             IF call[c].kind = "remove" THEN files' = [files EXCEPT ![call[c].dir] = @ \ {p}]
             ELSE Put(call[c].dir, {p})
      PROVE  /\ call' = [call EXCEPT ![c] = call'[c]] /\ call'[c] \in CallRec
             /\ Moves(call'[c], call[c]) /\ call'[c].pc = "apply"
             /\ call'[c].todo = call[c].todo \ {p}
             /\ \E set \in SUBSET Names :
                  /\ files' = [files EXCEPT ![call[c].dir] = set]
                  /\ IF call[c].kind = "remove" THEN set = files[call[c].dir] \ {p}
                     ELSE files[call[c].dir] \cup {p} \subseteq set
  <2> DEFINE left == call[c].todo \ {p}
  <2>1. call' = [call EXCEPT ![c].todo = left] /\ left \in Things /\ "apply" \in Labels
    BY <1>0, <1>4, LabelTypes DEF Things, InCall, CallRec
  <2>2. CASE call[c].kind = "remove"
    <3>1. /\ files' = [files EXCEPT ![call[c].dir] = files[call[c].dir] \ {p}]
          /\ files[call[c].dir] \ {p} \in SUBSET Names
      BY <1>0, <1>1, <1>4, <2>2
    <3> HIDE DEF left
    <3>2. /\ call' = [call EXCEPT ![c] = call'[c]] /\ call'[c] \in CallRec
          /\ call'[c].pc = "apply" /\ call'[c].todo = left /\ Moves(call'[c], call[c])
      BY <1>0, <2>1, TodoForm
    <3> QED BY <2>2, <3>1, <3>2 DEF left
  <2>3. CASE call[c].kind # "remove"
    <3>1. \E set \in SUBSET Names :
            files' = [files EXCEPT ![call[c].dir] = set] /\ files[call[c].dir] \cup {p} \subseteq set
      BY <1>1, <1>4, <2>3, PutForm
    <3> HIDE DEF left
    <3>2. /\ call' = [call EXCEPT ![c] = call'[c]] /\ call'[c] \in CallRec
          /\ call'[c].pc = "apply" /\ call'[c].todo = left /\ Moves(call'[c], call[c])
      BY <1>0, <2>1, TodoForm
    <3> QED BY <2>3, <3>1, <3>2 DEF left
  <2> QED BY <2>2, <2>3
<1>5. CASE \E p \in call[c].todo :
             /\ IF call[c].kind = "remove" THEN files' = [files EXCEPT ![call[c].dir] = @ \ {p}]
                ELSE Put(call[c].dir, {p})
             /\ call' = [call EXCEPT ![c].todo = @ \ {p}]
             /\ UNCHANGED faults
  <2>1. PICK p \in call[c].todo :
             /\ IF call[c].kind = "remove" THEN files' = [files EXCEPT ![call[c].dir] = @ \ {p}]
                ELSE Put(call[c].dir, {p})
             /\ call' = [call EXCEPT ![c].todo = @ \ {p}]
             /\ UNCHANGED faults
    BY <1>5
  <2>2. /\ call' = [call EXCEPT ![c] = call'[c]] /\ call'[c] \in CallRec
        /\ Moves(call'[c], call[c]) /\ call'[c].pc = "apply"
        /\ call'[c].todo = call[c].todo \ {p}
        /\ \E set \in SUBSET Names :
             /\ files' = [files EXCEPT ![call[c].dir] = set]
             /\ IF call[c].kind = "remove" THEN set = files[call[c].dir] \ {p}
                ELSE files[call[c].dir] \cup {p} \subseteq set
    BY <1>4, <2>1
  <2> QED BY <1>0, <1>1, <2>1, <2>2
<1> QED BY <1>2, <1>3, <1>5 DEF Apply

\* The copy keeps to files of version directories.
LEMMA CopyTypes ==
  ASSUME TypeInv, NEW c \in Calls, Source(c) \/ Target(c) \/ Copy(c) \/ Apply(c) PROVE TypeInv'
<1>0. /\ call[c] \in CallRec /\ CallUpTo(call[c], Number) /\ call[c].path \in SUBSET Paths
      /\ files \in [Versions -> SUBSET Names] /\ ledger \in Int /\ overlapped \in BOOLEAN
      /\ faults \subseteq AllFaults
  BY PlacesType DEF TypeInv, CallRec
<1>1. /\ call[c].pc \in {"source", "target", "copy", "apply"}
      /\ UNCHANGED <<rows, ledger, overlapped>>
      /\ call' = [call EXCEPT ![c] = call'[c]] /\ call'[c] \in CallRec
      /\ Moves(call'[c], call[c])
  BY SourceForm, TargetForm, CopyForm, ApplyForm
<1>2. call[c].pc \in Early /\ call[c].pc \in Working /\ call[c].dir # 0
  BY <1>0, <1>1 DEF Early, Creating, Working, CallUpTo
<1>3. /\ call'[c].pc \in {"target", "copy", "apply", "store", "undo", "done"}
      /\ call'[c].pc \in {"target", "copy"} => call[c].pc \in {"source", "target", "copy"}
      /\ call'[c].pc \in {"target", "copy", "apply"} => call'[c].todo \subseteq Paths
      /\ files' \in [Versions -> SUBSET Names] /\ faults' \subseteq AllFaults
  <2>1. CASE Source(c)
    BY <1>0, <2>1, SourceForm, FaultType
  <2>2. CASE Target(c)
    BY <1>0, <2>2, TargetForm, FaultType
  <2>3. CASE Copy(c)
    BY <1>0, <2>3, CopyForm, FaultType, FilesType
  <2>4. CASE Apply(c)
    <3>1. /\ call[c].pc = "apply" /\ call[c].todo \subseteq Paths
          /\ call'[c].pc \in {"store", "undo", "apply"}
          /\ call'[c].pc = "apply" => call'[c].todo \subseteq Paths
          /\ UNCHANGED files \/ \E set \in SUBSET Names : files' = [files EXCEPT ![call[c].dir] = set]
          /\ UNCHANGED faults \/ Fault("put")
      BY <2>4, ApplyForm
    <3> QED BY <1>0, <3>1, FaultType, FilesType
  <2> QED BY <2>1, <2>2, <2>3, <2>4
<1>4. call'[c].pc \in {"source", "target", "copy"} => call[c].from # 0
  BY <1>0, <1>1, <1>3 DEF CallUpTo
<1>5. call'[c].pc \notin Leaving \cup {"delete", "rmdirs", "purge", "purgeDir"}
  BY <1>3 DEF Leaving
<1> QED BY <1>0, <1>1, <1>2, <1>3, <1>4, <1>5, MovedFrame

\* The head that the transaction will compare is a version.
LEMMA StoreTypes ==
  ASSUME TypeInv, HeadInv, NEW c \in Calls, Store(c) PROVE TypeInv'
<1>1. HeadVersion \in Nat /\ HeadVersion \in 0..Number /\ Number \in Nat
  BY HeadUpTo, NumberType
<1>2. /\ call' = [call EXCEPT ![c] = call'[c]] /\ call'[c] \in CallRec
      /\ Same(call'[c], call[c]) /\ call'[c].pc = "insert" /\ call'[c].seen = HeadVersion
      /\ call'[c].base = call[c].base /\ call'[c].dir = call[c].dir
  BY <1>1, StoreForm
<1>3. call[c].pc = "store" /\ UNCHANGED <<rows, files, ledger, faults, overlapped>>
  BY DEF Store, At
<1>4. call[c].pc \in Early /\ call'[c].pc \in Early /\ CallUpTo(call[c], Number)
      /\ Room(c, call'[c].pc) = Number
  BY <1>2, <1>3 DEF Early, Creating, Working, TypeInv, Room
<1>5. CallUpTo(call'[c], Number)
  BY <1>1, <1>2, <1>3, <1>4 DEF CallUpTo, Same, Working
<1> QED BY <1>2, <1>3, <1>4, <1>5, TypeFrame DEF TypeInv

\* Unset keeps the fields that have types.
LEMMA UnsetTypes ==
  ASSUME NEW n, NEW r, RowUpTo(r, n), NEW v
  PROVE  /\ RowUpTo(Unset(r, v), n) /\ Unset(r, v).dir = r.dir
         /\ Unset(r, v).manifest = r.manifest
<1>1. CASE r.version = v
  <2>1. r \in RowRec /\ Unset(r, v) = [r EXCEPT !.isHead = FALSE]
    BY <1>1 DEF Unset, RowUpTo
  <2>2. /\ Unset(r, v) \in RowRec /\ Unset(r, v).version = r.version /\ Unset(r, v).dir = r.dir
        /\ Unset(r, v).base = r.base /\ Unset(r, v).expected = r.expected
        /\ Unset(r, v).manifest = r.manifest
    BY ONLY <2>1 DEF RowRec
  <2> QED BY <2>2 DEF RowUpTo
<1>2. CASE r.version # v
  BY <1>2 DEF Unset
<1> QED BY <1>1, <1>2

\* The transaction adds one row, and changes the flag of the head there was.
LEMMA InsertRows ==
  ASSUME TypeInv, HeadInv, NEW c \in Calls, Insert(c), ~Conflict(call[c].seen)
  PROVE  /\ rows' = {Unset(r, call[c].seen) : r \in rows} \cup {NewRow(c)}
         /\ IsFiniteSet(rows') /\ Cardinality(rows') = Cardinality(rows) + 1
<1> DEFINE s == call[c].seen
           old == {Unset(r, s) : r \in rows}
           new == NewRow(c)
<1>1. /\ rows' = old \cup {new} /\ s \in Nat
      /\ \A r \in rows : r.version # s + 1 /\ (r.isHead => r.version = s)
  BY DEF Insert, Conflict, TypeInv, CallUpTo, CallRec
<1>2. IsFiniteSet(rows) /\ Cardinality(rows) \in Nat
  BY FS_CardinalityType DEF TypeInv
<1>3. IsFiniteSet(old) /\ Cardinality(old) = Cardinality(rows)
  <2>1. CASE rows = {}
    <3>1. old = rows
      BY <2>1
    <3> QED BY <1>2, <3>1
  <2>2. CASE rows # {}
    <3>1. PICK h \in rows : /\ h.isHead
                            /\ \A r \in rows \ {h} : r.version < HeadVersion
                            /\ h.version = HeadVersion
      BY <2>2, HeadOf
    <3>2. h.version = s /\ HeadVersion = s
      BY <1>1, <3>1
    <3>3. \A r \in rows \ {h} : Unset(r, s) = r
      <4>1. ASSUME NEW r \in rows \ {h} PROVE r.version # s
        BY <1>1, <3>1, <3>2
      <4> QED BY <4>1 DEF Unset
    <3>4. old = (rows \ {h}) \cup {Unset(h, s)}
      BY <3>3
    <3>5. Unset(h, s) \notin rows \ {h}
      <4>1. IsRow(h)
        BY DEF HeadInv, Shape
      <4>2. Unset(h, s).version = s
        BY <3>2, <4>1, UnsetRow
      <4> QED BY <1>1, <3>1, <3>2, <4>2
    <3>6. IsFiniteSet(rows \ {h}) /\ Cardinality(rows \ {h}) = Cardinality(rows) - 1
      BY <1>2, FS_RemoveElement
    <3>7. IsFiniteSet((rows \ {h}) \cup {Unset(h, s)})
          /\ Cardinality((rows \ {h}) \cup {Unset(h, s)}) = Cardinality(rows \ {h}) + 1
      BY <3>5, <3>6, FS_AddElement
    <3> DEFINE n == Cardinality(rows)
    <3>8. Cardinality((rows \ {h}) \cup {Unset(h, s)}) = (n - 1) + 1 /\ n \in Nat
      BY <1>2, <3>6, <3>7
    <3>9. n \in Nat => (n - 1) + 1 = n
      <4> HIDE DEF n
      <4> QED OBVIOUS
    <3>10. Cardinality(old) = Cardinality((rows \ {h}) \cup {Unset(h, s)})
      BY <3>4
    <3>11. IsFiniteSet(old)
      BY <3>4, <3>7
    <3> HIDE DEF old
    <3> QED BY <3>8, <3>9, <3>10, <3>11
  <2> QED BY <2>1, <2>2
<1>4. new \notin old
  <2>1. new.version = s + 1
    BY DEF NewRow
  <2>2. \A r \in rows : Unset(r, s).version # s + 1
    BY <1>1, UnsetRow DEF HeadInv, Shape
  <2> QED BY <2>1, <2>2
<1>5. IsFiniteSet(old \cup {new}) /\ Cardinality(old \cup {new}) = Cardinality(old) + 1
  BY <1>3, <1>4, FS_AddElement
<1> QED BY <1>1, <1>3, <1>5

\* The row that the transaction adds has a version that there may be.
LEMMA InsertTypes ==
  ASSUME TypeInv, HeadInv, NEW c \in Calls, Insert(c) PROVE TypeInv'
<1>1. /\ call[c].pc = "insert" /\ UNCHANGED <<files, faults, overlapped>>
      /\ call[c] \in CallRec /\ CallUpTo(call[c], Number) /\ Number \in Nat
      /\ call \in [Calls -> CallRec]
  BY PlacesType DEF Insert, At, TypeInv
<1>2. \E to \in {"undo", "asset", "expire"} :
        Go(c, to) /\ (to = "undo" => rows' = rows)
        /\ (to # "undo" => rows' = {Unset(r, call[c].seen) : r \in rows} \cup {NewRow(c)}
                           /\ ~Conflict(call[c].seen))
        /\ (to = "asset" => call[c].kind = "create")
  BY DEF Insert
<1>3. ledger' \in Int
  BY DEF Insert, TypeInv
<1>4. PICK to \in {"undo", "asset", "expire"} :
        Go(c, to) /\ (to = "undo" => rows' = rows)
        /\ (to # "undo" => rows' = {Unset(r, call[c].seen) : r \in rows} \cup {NewRow(c)}
                           /\ ~Conflict(call[c].seen))
  BY <1>2
<1>5. /\ call' = [call EXCEPT ![c] = call'[c]] /\ call'[c] \in CallRec
      /\ call'[c].pc = to /\ Moves(call'[c], call[c])
  <2>1. to \in Labels
    BY LabelTypes DEF InCall, InCleanUp
  <2> QED BY <1>1, <1>4, <2>1, GoForm
<1>6. call[c].pc \in Early /\ to \notin Early /\ Room(c, to) = Number + 1
  BY <1>1 DEF Early, Creating, Working, Room
<1>7. CallUpTo(call'[c], Room(c, to))
  <2>1. call'[c].dir # 0
    BY <1>1, <1>5 DEF CallUpTo, Moves, Working
  <2>2. call'[c].pc \notin {"source", "target", "copy", "apply", "delete", "rmdirs", "purge", "purgeDir"}
    BY <1>4, <1>5
  <2> QED BY <1>5, <1>6, <2>1, <2>2, MovedTypes DEF Moves
<1>8. /\ IsFiniteSet(rows') /\ \A r \in rows' : r \in rows \/ RowUpTo(r, Room(c, to))
  <2>1. CASE to = "undo"
    BY <1>4, <2>1 DEF TypeInv
  <2>2. CASE to # "undo"
    <3> DEFINE s == call[c].seen
               old == {Unset(r, s) : r \in rows}
    <3>1. rows' = old \cup {NewRow(c)}
      BY <1>4, <2>2
    <3>3. IsFiniteSet(rows')
      BY <1>4, <2>2, InsertRows
    <3>4. \A r \in old : RowUpTo(r, Number + 1)
      <4>1. ASSUME NEW r \in rows PROVE RowUpTo(Unset(r, s), Number)
        BY UnsetTypes DEF TypeInv
      <4>2. Number + 1 \in Nat /\ Number <= Number + 1
        BY <1>1
      <4>3. \A r : RowUpTo(r, Number) => RowUpTo(r, Number + 1)
        BY <1>1, <4>2, Grows
      <4> QED BY <4>1, <4>3
    <3>5. RowUpTo(NewRow(c), Number + 1)
      <4>1. /\ s \in 0..Number /\ call[c].dir \in 0..(Number + 1) /\ call[c].dir # 0
            /\ call[c].base \in 0..Number /\ call[c].expected \in 0..Number
            /\ call[c].manifest \subseteq Paths
        BY <1>1, <1>6 DEF CallUpTo, Working, CallRec
      <4>2. /\ s + 1 \in 1..(Number + 1) /\ call[c].dir \in 1..(Number + 1)
            /\ call[c].base \in 0..(Number + 1) /\ call[c].expected \in 0..(Number + 1)
        BY <1>1, <4>1
      <4>3. /\ NewRow(c) \in RowRec /\ NewRow(c).version = s + 1 /\ NewRow(c).dir = call[c].dir
            /\ NewRow(c).base = call[c].base /\ NewRow(c).expected = call[c].expected
        BY <1>1, <4>1 DEF NewRow, RowRec, CallRec
      <4> QED BY <4>2, <4>3 DEF RowUpTo
    <3> QED BY <1>6, <3>1, <3>3, <3>4, <3>5
  <2> QED BY <2>1, <2>2
<1> QED BY <1>1, <1>3, <1>5, <1>6, <1>7, <1>8, TypeFrame DEF TypeInv

\* Rows can be counted.
LEMMA RowNumbers ==
  ASSUME TypeInv, NEW some \in SUBSET rows
  PROVE  Cardinality(some) \in Nat /\ IsFiniteSet(some)
BY FS_Subset, FS_CardinalityType DEF TypeInv

\* Where a deletion ends.
LEMMA LeaveLabel ==
  ASSUME NEW c \in Calls
  PROVE  Leave(c) \in {"undo", "done"} /\ Leave(c) \in Labels
BY LabelTypes DEF Leave, InCall

\* A deletion lists directories of versions.
LEMMA DeleteTypes ==
  ASSUME TypeInv, NEW c \in Calls, Asset(c) \/ List(c) \/ DeleteRows(c) \/ RemoveDirs(c)
  PROVE  TypeInv'
<1>0. /\ call[c] \in CallRec /\ CallUpTo(call[c], Number) /\ call \in [Calls -> CallRec]
      /\ Number \in Nat /\ files \in [Versions -> SUBSET Names] /\ ledger \in Int
      /\ call[c].count \in Nat
  BY PlacesType DEF TypeInv, CallRec
<1>1. CASE Asset(c)
  <2>1. \E to \in {"done", "list"} : Go(c, to)
    BY <1>1 DEF Asset
  <2>2. /\ call' = [call EXCEPT ![c] = call'[c]] /\ call'[c] \in CallRec
        /\ call'[c].pc \in {"done", "list"} /\ Moves(call'[c], call[c])
    BY <1>0, <2>1, GoForm, LabelTypes DEF InCall
  <2>3. UNCHANGED <<rows, files, overlapped>> /\ faults' \subseteq AllFaults /\ ledger' \in Int
    BY <1>0, <1>1, FaultType DEF Asset, TypeInv
  <2>4. call[c].kind = "create" => call[c].dir # 0
    BY <1>0, <1>1 DEF Asset, At, CallUpTo, Leaving
  <2> QED BY <2>2, <2>3, <2>4, MovedFrame DEF TypeInv, Early, Creating, Working
<1>2. CASE List(c)
  <2> DEFINE dirs == {r.dir : r \in rows}
  <2>1. dirs \subseteq 1..Number /\ dirs \in Things
    BY <1>0 DEF TypeInv, RowUpTo, Things
  <2>2. /\ UNCHANGED <<rows, files, ledger, faults, overlapped>>
        /\ call' = [call EXCEPT ![c].pc = "delete", ![c].todo = dirs] /\ "delete" \in Labels
    BY <1>2, LabelTypes DEF List, InCall
  <2> HIDE DEF dirs
  <2>3. /\ call' = [call EXCEPT ![c] = call'[c]] /\ call'[c] \in CallRec
        /\ call'[c].pc = "delete" /\ call'[c].todo = dirs /\ Moves(call'[c], call[c])
    BY <1>0, <2>1, <2>2, TodoForm
  <2>4. call[c].kind = "create" => call[c].dir # 0
    BY <1>0, <1>2 DEF List, At, CallUpTo, Leaving
  <2> QED BY <2>1, <2>2, <2>3, <2>4, MovedFrame DEF TypeInv, Early, Creating, Working
<1>3. CASE DeleteRows(c)
  <2>1. Cardinality(rows) \in Nat
    BY RowNumbers
  <2>2. /\ call' = [call EXCEPT ![c] = call'[c]] /\ call'[c] \in CallRec
        /\ Same(call'[c], call[c]) /\ call'[c].pc \in {"undo", "done", "rmdirs"}
        /\ call'[c].base = call[c].base /\ call'[c].dir = call[c].dir
        /\ call'[c].seen = call[c].seen /\ call'[c].todo = call[c].todo
        /\ call'[c].pc = "undo" => call[c].kind = "create"
    BY <1>3, <2>1, DeleteRowsForm DEF Leave
  <2>3. call[c].pc = "delete" /\ rows' = {} /\ UNCHANGED <<files, ledger, faults, overlapped>>
    BY <1>3 DEF DeleteRows, At
  <2>4. call[c].todo \subseteq 1..Number /\ (call[c].kind = "create" => call[c].dir # 0)
    BY <1>0, <2>3 DEF CallUpTo, Leaving
  <2>5. call[c].pc \notin Early /\ call'[c].pc \notin Early
    BY <2>2, <2>3 DEF Early, Creating, Working
  <2>6. CallUpTo(call'[c], Room(c, call'[c].pc))
    <3>1. call'[c].pc \in {"undo", "purgeDir"} => call'[c].dir # 0
      BY <2>2, <2>4
    <3>2. call'[c].kind = "create" => call'[c].dir # 0
      BY <2>2, <2>4 DEF Same
    <3>3. call'[c].pc \notin Working
      BY <2>2 DEF Working
    <3> QED BY <2>2, <2>4, <2>5, <3>1, <3>2, <3>3, MovedTypes
  <2>7. IsFiniteSet(rows') /\ rows' = {}
    BY <2>3, FS_EmptySet
  <2> QED BY <2>2, <2>3, <2>5, <2>6, <2>7, TypeFrame DEF TypeInv
<1>4. CASE RemoveDirs(c)
  <2>1. call[c].pc = "rmdirs" /\ UNCHANGED <<rows, overlapped>>
    BY <1>4 DEF RemoveDirs, At
  <2>2. /\ call[c].todo \subseteq 1..Number /\ (call[c].kind = "create" => call[c].dir # 0)
        /\ 1..Number \subseteq Versions
    BY <1>0, <2>1, PlacesType DEF CallUpTo, Leaving
  <2>3. CASE call[c].todo = {} /\ Go(c, Leave(c)) /\ UNCHANGED <<files, faults>>
             /\ ledger' = IF call[c].kind = "delete" THEN ledger - call[c].count ELSE ledger
    <3>1. /\ call' = [call EXCEPT ![c] = call'[c]] /\ call'[c] \in CallRec
          /\ call'[c].pc = Leave(c) /\ Moves(call'[c], call[c])
      BY <1>0, <2>3, GoForm, LeaveLabel
    <3>2. Leave(c) \in {"undo", "done"} /\ (Leave(c) = "undo" => call[c].kind = "create")
      BY DEF Leave
    <3>3. ledger' \in Int
      BY <1>0, <2>3
    <3> QED BY <2>1, <2>2, <2>3, <3>1, <3>2, <3>3, MovedFrame DEF TypeInv, Early, Creating, Working, Leaving
  <2>4. ASSUME NEW d \in call[c].todo, call' = [call EXCEPT ![c].todo = @ \ {d}],
               UNCHANGED ledger,
               \/ files' = [files EXCEPT ![d] = {}] /\ UNCHANGED faults
               \/ Fault("rmdir") /\ UNCHANGED files
        PROVE  TypeInv'
    <3> DEFINE left == call[c].todo \ {d}
    <3>1. call' = [call EXCEPT ![c].todo = left] /\ left \subseteq 1..Number /\ left \in Things
      BY <1>0, <2>2, <2>4 DEF Things
    <3> HIDE DEF left
    <3>2. /\ call' = [call EXCEPT ![c] = call'[c]] /\ call'[c] \in CallRec
          /\ call'[c].pc = "rmdirs" /\ call'[c].todo = left /\ Moves(call'[c], call[c])
      BY <1>0, <2>1, <3>1, TodoForm, LabelTypes DEF InCall
    <3>3. files' \in [Versions -> SUBSET Names] /\ faults' \subseteq AllFaults
      BY <1>0, <2>2, <2>4, FaultType DEF TypeInv
    <3> QED BY <2>1, <2>2, <2>4, <3>1, <3>2, <3>3, MovedFrame DEF TypeInv, Early, Creating, Working, Leaving
  <2> QED BY <1>4, <2>3, <2>4 DEF RemoveDirs
<1> QED BY <1>1, <1>2, <1>3, <1>4

\* Begin and the steps of removals and clean-ups.
LEMMA CleanUpTypes ==
  ASSUME TypeInv, NEW c \in Calls, Begin(c) \/ Undo(c) \/ Expire(c) \/ PurgeDir(c)
  PROVE  TypeInv'
<1>0. /\ call[c] \in CallRec /\ CallUpTo(call[c], Number) /\ call \in [Calls -> CallRec]
      /\ Number \in Nat /\ files \in [Versions -> SUBSET Names] /\ ledger \in Int
  BY PlacesType DEF TypeInv
<1>1. CASE Begin(c)
  <2>1. /\ call[c].pc = "read" /\ Go(c, "called") /\ UNCHANGED <<rows, files, ledger, faults>>
        /\ overlapped' \in BOOLEAN
    BY <1>1 DEF Begin, At, TypeInv
  <2>2. /\ call' = [call EXCEPT ![c] = call'[c]] /\ call'[c] \in CallRec
        /\ call'[c].pc = "called" /\ Moves(call'[c], call[c])
    BY <1>0, <2>1, GoForm, LabelTypes
  <2> QED BY <2>1, <2>2, MovedFrame DEF TypeInv, Early, Creating, Working, Leaving
<1>2. CASE Undo(c) \/ PurgeDir(c)
  <2>1. /\ call[c].pc \in {"undo", "purgeDir"} /\ UNCHANGED <<rows, ledger, overlapped>>
        /\ \/ call[c].pc = "undo" /\ Go(c, "done")
           \/ call[c].pc = "purgeDir" /\ Go(c, "purge")
        /\ \/ files' = [files EXCEPT ![call[c].dir] = {}] /\ UNCHANGED faults
           \/ Fault("rmdir") /\ UNCHANGED files
    BY <1>2 DEF Undo, PurgeDir, At
  <2>2. /\ call' = [call EXCEPT ![c] = call'[c]] /\ call'[c] \in CallRec
        /\ call'[c].pc \in {"done", "purge"} /\ Moves(call'[c], call[c])
        /\ call'[c].todo = call[c].todo /\ (call'[c].pc = "purge" => call[c].pc = "purgeDir")
    BY <1>0, <2>1, GoForm, LabelTypes DEF InCleanUp
  <2>3. files' \in [Versions -> SUBSET Names] /\ faults' \subseteq AllFaults
    BY <1>0, <2>1, FaultType DEF TypeInv
  <2>4. call'[c].pc = "purge" => \A r \in call'[c].todo : RowUpTo(r, Number)
    BY <1>0, <2>2 DEF CallUpTo
  <2> QED BY <1>0, <2>1, <2>2, <2>3, <2>4, MovedFrame DEF TypeInv, Early, Creating, Working, Leaving
<1>3. CASE Expire(c)
  <2>1. PICK age \in 0..MaxVersion :
          LET victims == {r \in rows \ Heads : r.version <= age /\ r.version \notin Protected}
          IN call' = [call EXCEPT ![c].pc = IF Heads = {} \/ victims = {} THEN "done" ELSE "purge",
                                  ![c].todo = victims]
    BY <1>3 DEF Expire
  <2> DEFINE victims == {r \in rows \ Heads : r.version <= age /\ r.version \notin Protected}
             to == IF Heads = {} \/ victims = {} THEN "done" ELSE "purge"
  <2>2. /\ victims \subseteq rows /\ to \in {"done", "purge"}
        /\ call' = [call EXCEPT ![c].pc = to, ![c].todo = victims]
    BY <2>1
  <2>3. call[c].pc = "expire" /\ UNCHANGED <<rows, files, ledger, faults, overlapped>>
    BY <1>3 DEF Expire, At
  <2> HIDE DEF victims, to
  <2>4. /\ \A r \in victims : RowUpTo(r, Number) /\ r \in RowRec
        /\ victims \in Things
    BY <2>2 DEF TypeInv, RowUpTo, Things
  <2>5. to \in Labels
    BY <2>2, LabelTypes DEF InCleanUp
  <2>6. /\ call' = [call EXCEPT ![c] = call'[c]] /\ call'[c] \in CallRec
        /\ call'[c].pc = to /\ call'[c].todo = victims /\ Moves(call'[c], call[c])
    BY <1>0, <2>2, <2>4, <2>5, TodoForm
  <2>7. call'[c].pc \in {"purge", "purgeDir"} => \A r \in call'[c].todo : RowUpTo(r, Number)
    BY <2>4, <2>6
  <2>8. to \notin Early \cup Leaving \cup Working \cup {"delete", "rmdirs", "undo", "purgeDir"}
    BY <2>2 DEF Early, Creating, Working, Leaving
  <2> QED BY <2>3, <2>6, <2>7, <2>8, MovedFrame DEF TypeInv, Working, Leaving
<1> QED BY <1>1, <1>2, <1>3

\* What a step of a purge does.
LEMMA PurgeSteps ==
  ASSUME TypeInv, NEW c \in Calls, Purge(c)
  PROVE  /\ call[c].pc = "purge" /\ UNCHANGED <<files, faults, overlapped>>
         /\ call' = [call EXCEPT ![c] = call'[c]] /\ call'[c] \in CallRec
         /\ Same(call'[c], call[c]) /\ call'[c].base = call[c].base /\ call'[c].seen = call[c].seen
         /\ call'[c].pc \in {"done", "purge", "purgeDir"}
         /\ call'[c].todo \subseteq call[c].todo
         /\ \E gone \in SUBSET rows :
              /\ rows' = rows \ gone /\ ledger' = ledger - Cardinality(gone)
              /\ \A r \in gone : ~r.isHead
              /\ \/ call'[c].pc = "done" /\ call'[c].dir = call[c].dir
                 \/ /\ call'[c].pc \in {"purge", "purgeDir"}
                    /\ \E v \in call[c].todo :
                         /\ call'[c].dir = v.dir
                         /\ gone = {r \in rows : r.version = v.version /\ ~r.isHead}
<1>0. /\ call[c] \in CallRec /\ CallUpTo(call[c], Number) /\ call \in [Calls -> CallRec]
      /\ Number \in Nat /\ call[c].pc = "purge" /\ UNCHANGED <<files, faults, overlapped>>
  BY PlacesType DEF TypeInv, Purge, At
<1>1. CASE call[c].todo = {} /\ Go(c, "done") /\ UNCHANGED <<rows, ledger>>
  <2>1. /\ call' = [call EXCEPT ![c] = call'[c]] /\ call'[c] \in CallRec
        /\ call'[c].pc = "done" /\ Moves(call'[c], call[c]) /\ call'[c].todo = call[c].todo
    BY <1>0, <1>1, GoForm, LabelTypes
  <2>2. {} \in SUBSET rows /\ rows' = rows \ {} /\ Cardinality({}) = 0 /\ ledger' = ledger - 0
    BY <1>1, FS_EmptySet DEF TypeInv
  <2>3. /\ rows' = rows \ {} /\ ledger' = ledger - Cardinality({})
    BY <2>2
  <2> QED BY <1>0, <2>1, <2>2, <2>3 DEF Moves
<1>2. ASSUME NEW v \in call[c].todo, NEW gone,
             gone = {r \in rows : r.version = v.version /\ ~r.isHead},
             rows' = rows \ gone, ledger' = ledger - Cardinality(gone),
             call' = [call EXCEPT ![c].pc = IF gone = {} THEN "purge" ELSE "purgeDir",
                                  ![c].todo = @ \ {v}, ![c].dir = v.dir]
      PROVE  /\ call' = [call EXCEPT ![c] = call'[c]] /\ call'[c] \in CallRec
             /\ Same(call'[c], call[c]) /\ call'[c].base = call[c].base
             /\ call'[c].seen = call[c].seen /\ call'[c].pc \in {"purge", "purgeDir"}
             /\ call'[c].todo \subseteq call[c].todo /\ call'[c].dir = v.dir
             /\ gone \in SUBSET rows /\ \A r \in gone : ~r.isHead
  <2> DEFINE to == IF gone = {} THEN "purge" ELSE "purgeDir"
  <2>1. call' = [call EXCEPT ![c].pc = to, ![c].todo = @ \ {v}, ![c].dir = v.dir]
    BY <1>2
  <2>2. v.dir \in Nat
    BY <1>0 DEF CallUpTo, RowUpTo, RowRec
  <2>3. to \in Labels /\ to \in {"purge", "purgeDir"}
    BY LabelTypes DEF InCleanUp
  <2> HIDE DEF to
  <2>4. /\ call' = [call EXCEPT ![c] = call'[c]] /\ call'[c] \in CallRec
        /\ Same(call'[c], call[c]) /\ call'[c].pc = to
        /\ call'[c].todo = call[c].todo \ {v} /\ call'[c].dir = v.dir
        /\ call'[c].base = call[c].base /\ call'[c].seen = call[c].seen
    BY <2>1, <2>2, <2>3, PurgeForm
  <2> QED BY <1>2, <2>3, <2>4
<1>3. CASE \E v \in call[c].todo :
             LET gone == {r \in rows : r.version = v.version /\ ~r.isHead}
             IN /\ rows' = rows \ gone /\ ledger' = ledger - Cardinality(gone)
                /\ call' = [call EXCEPT ![c].pc = IF gone = {} THEN "purge" ELSE "purgeDir",
                                        ![c].todo = @ \ {v}, ![c].dir = v.dir]
  <2>1. PICK v \in call[c].todo :
             LET gone == {r \in rows : r.version = v.version /\ ~r.isHead}
             IN /\ rows' = rows \ gone /\ ledger' = ledger - Cardinality(gone)
                /\ call' = [call EXCEPT ![c].pc = IF gone = {} THEN "purge" ELSE "purgeDir",
                                        ![c].todo = @ \ {v}, ![c].dir = v.dir]
    BY <1>3
  <2> DEFINE gone == {r \in rows : r.version = v.version /\ ~r.isHead}
  <2>2. /\ rows' = rows \ gone /\ ledger' = ledger - Cardinality(gone)
        /\ call' = [call EXCEPT ![c].pc = IF gone = {} THEN "purge" ELSE "purgeDir",
                                ![c].todo = @ \ {v}, ![c].dir = v.dir]
    BY <2>1
  <2>3. gone = {r \in rows : r.version = v.version /\ ~r.isHead}
    OBVIOUS
  <2> HIDE DEF gone
  <2>4. /\ call' = [call EXCEPT ![c] = call'[c]] /\ call'[c] \in CallRec
        /\ Same(call'[c], call[c]) /\ call'[c].base = call[c].base
        /\ call'[c].seen = call[c].seen /\ call'[c].pc \in {"purge", "purgeDir"}
        /\ call'[c].todo \subseteq call[c].todo /\ call'[c].dir = v.dir
        /\ gone \in SUBSET rows /\ \A r \in gone : ~r.isHead
    BY <1>2, <2>2, <2>3
  <2>5. rows' = rows \ gone /\ ledger' = ledger - Cardinality(gone)
    BY <2>2
  <2> QED BY <1>0, <2>3, <2>4, <2>5
<1> QED BY <1>1, <1>3 DEF Purge

\* A clean-up takes rows away.
LEMMA PurgeTypes ==
  ASSUME TypeInv, NEW c \in Calls, Purge(c) PROVE TypeInv'
<1>1. CallUpTo(call[c], Number) /\ Number \in Nat
  BY PlacesType
<1>2. /\ call[c].pc = "purge" /\ UNCHANGED <<files, faults, overlapped>>
      /\ call' = [call EXCEPT ![c] = call'[c]] /\ call'[c] \in CallRec
      /\ Same(call'[c], call[c]) /\ call'[c].base = call[c].base /\ call'[c].seen = call[c].seen
      /\ call'[c].pc \in {"done", "purge", "purgeDir"}
      /\ call'[c].todo \subseteq call[c].todo
  BY PurgeSteps
<1>3. PICK gone \in SUBSET rows :
        /\ rows' = rows \ gone /\ ledger' = ledger - Cardinality(gone)
        /\ \/ call'[c].pc = "done" /\ call'[c].dir = call[c].dir
           \/ \E v \in call[c].todo : call'[c].dir = v.dir
  BY PurgeSteps
<1>4. call[c].pc \notin Early /\ call'[c].pc \notin Early
  BY <1>2 DEF Early, Creating, Working
<1>5. \A r \in call[c].todo : RowUpTo(r, Number)
  BY <1>1, <1>2 DEF CallUpTo
<1>6. CallUpTo(call'[c], Room(c, call'[c].pc))
  <2>1. Room(c, call'[c].pc) = Number
    BY <1>4 DEF Room
  <2>2. call'[c].dir \in 0..Number /\ (call'[c].pc = "purgeDir" => call'[c].dir # 0)
    BY <1>1, <1>2, <1>3, <1>4, <1>5 DEF CallUpTo, RowUpTo
  <2>3. call'[c].pc \notin Working \cup Leaving
    BY <1>2 DEF Working, Leaving
  <2> QED BY <1>1, <1>2, <1>4, <1>5, <2>1, <2>2, <2>3 DEF CallUpTo, Same, Working
<1>7. IsFiniteSet(rows') /\ ledger' \in Int
  <2>1. Cardinality(gone) \in Nat /\ rows' \in SUBSET rows
    BY <1>3, RowNumbers
  <2> QED BY <1>3, <2>1, RowNumbers DEF TypeInv
<1> QED BY <1>2, <1>3, <1>4, <1>6, <1>7, TypeFrame DEF TypeInv

\* The calls that a crash ends may have had no version yet.
LEMMA CrashTypes ==
  ASSUME TypeInv, Crash PROVE TypeInv'
<1>1. /\ UNCHANGED <<rows, files, ledger, overlapped>> /\ faults' \subseteq AllFaults
      /\ call \in [Calls -> CallRec]
      /\ call' = [c \in Calls |-> IF At(c, InCall \cup InCleanUp)
                                  THEN [call[c] EXCEPT !.pc = "done"] ELSE call[c]]
  BY FaultType DEF Crash, TypeInv
<1>2. Number \in Nat /\ Number' \in Nat /\ Number <= Number'
      /\ \A c \in Calls : At(c, Early) /\ ~At(c, Early)' => Number + 1 <= Number'
  <2>1. IsFiniteSet(Spent) /\ IsFiniteSet(Calls) /\ Spent' \subseteq Calls
    BY NumberType, VersionsAssumption DEF Spent
  <2>2. \A c \in Calls : call'[c].pc \in Early => call[c].pc \in Early
    <3>1. ASSUME NEW c \in Calls PROVE call'[c].pc = "done" \/ call'[c] = call[c]
      <4>1. call[c] \in CallRec
        BY <1>1
      <4>2. CASE At(c, InCall \cup InCleanUp)
        <5>1. call'[c] = [call[c] EXCEPT !.pc = "done"]
          BY <1>1, <4>2
        <5>2. call'[c].pc = "done"
          BY ONLY <4>1, <5>1 DEF CallRec
        <5> QED BY <5>2
      <4>3. CASE ~At(c, InCall \cup InCleanUp)
        BY <1>1, <4>3
      <4> QED BY <4>2, <4>3
    <3> QED BY <3>1 DEF Early, Creating, Working
  <2>3. Spent \subseteq Spent'
    BY <2>2 DEF Spent, At
  <2>4. IsFiniteSet(Spent') /\ Number' \in Nat /\ Number \in Nat /\ Number <= Number'
    BY <2>1, <2>3, FS_Subset, FS_CardinalityType DEF Number
  <2>5. ASSUME NEW c \in Calls, At(c, Early), ~At(c, Early)' PROVE Number + 1 <= Number'
    <3>1. c \notin Spent /\ c \in Spent'
      BY <2>5 DEF Spent
    <3>2. Spent \cup {c} \subseteq Spent' /\ Cardinality(Spent \cup {c}) = Number + 1
      BY <2>1, <2>3, <3>1, FS_AddElement DEF Number
    <3>3. Cardinality(Spent \cup {c}) <= Cardinality(Spent')
      BY <2>4, <3>2, FS_Subset
    <3> QED BY <3>2, <3>3 DEF Number
  <2> QED BY <2>4, <2>5
<1>3. ASSUME NEW c \in Calls PROVE CallUpTo(call'[c], Number') /\ call'[c] \in CallRec
  <2>1. call[c] \in CallRec /\ CallUpTo(call[c], Number)
    BY <1>1 DEF TypeInv
  <2>2. CASE At(c, InCall \cup InCleanUp)
    <3>1. call'[c] = [call[c] EXCEPT !.pc = "done"] /\ "done" \in Labels
      BY <1>1, <2>2, LabelTypes
    <3>2. /\ call'[c] \in CallRec /\ call'[c].pc = "done" /\ Moves(call'[c], call[c])
      BY ONLY <2>1, <3>1 DEF CallRec, Moves, Same
    <3>3. call'[c].pc \notin Early \cup Working \cup Leaving \cup {"undo", "purgeDir"}
      BY <3>2 DEF Early, Creating, Working, Leaving
    <3>4. call'[c].dir \in 0..Number'
      <4>1. CASE At(c, Early)
        BY <1>2, <2>1, <3>2, <3>3, <4>1 DEF CallUpTo, At, Moves
      <4>2. CASE ~At(c, Early)
        BY <1>2, <2>1, <3>2, <4>2 DEF CallUpTo, At, Moves
      <4> QED BY <4>1, <4>2
    <3>5. /\ call'[c].expected \in 0..Number' /\ call'[c].base \in 0..Number'
          /\ call'[c].from \in 0..Number' /\ call'[c].seen \in 0..Number'
      BY <1>2, <2>1, <3>2 DEF CallUpTo, Moves, Same
    <3> QED BY <3>2, <3>3, <3>4, <3>5 DEF CallUpTo
  <2>3. CASE ~At(c, InCall \cup InCleanUp)
    BY <1>1, <1>2, <2>1, <2>3, Grows
  <2> QED BY <2>2, <2>3
<1>4. \A r \in rows' : RowUpTo(r, Number')
  BY <1>1, <1>2, Grows DEF TypeInv
<1>5. call' \in [Calls -> CallRec]
  BY <1>1, <1>3
<1> QED BY <1>1, <1>3, <1>4, <1>5 DEF TypeInv

\* Before the first call.
LEMMA TypeInit == Init => TypeInv
<1> SUFFICES ASSUME Init PROVE TypeInv
  OBVIOUS
<1>1. Number \in Nat
  BY NumberType
<1>2. NewCall \in CallRec
  BY DEF NewCall, CallRec, AllKinds, Labels
<1>3. CallUpTo(NewCall, Number)
  BY <1>1, <1>2 DEF CallUpTo, NewCall, Early, Creating, Working, Leaving
<1>4. call \in [Calls -> CallRec] /\ \A c \in Calls : CallUpTo(call[c], Number)
  BY <1>2, <1>3 DEF Init
<1>5. rows = {} /\ IsFiniteSet(rows) /\ files \in [Versions -> SUBSET Names]
  BY FS_EmptySet DEF Init
<1>6. ledger \in Int /\ faults \subseteq AllFaults /\ overlapped \in BOOLEAN
  <2>1. ledger = 0 /\ faults = {} /\ overlapped = FALSE
    BY DEF Init
  <2>2. faults \subseteq AllFaults
    BY <2>1
  <2>3. overlapped \in BOOLEAN
    BY <2>1
  <2>4. ledger \in Int
    BY <2>1
  <2> QED BY <2>2, <2>3, <2>4
<1> QED BY <1>4, <1>5, <1>6 DEF TypeInv

\* Every step keeps the types.
LEMMA TypeNext == HeadInv /\ TypeInv /\ [Next]_vars => TypeInv'
<1> SUFFICES ASSUME HeadInv, TypeInv, [Next]_vars PROVE TypeInv'
  OBVIOUS
<1>1. ASSUME NEW c \in Calls, Read(c) \/ Begin(c) \/ Step(c) PROVE TypeInv'
  <2>1. CASE Read(c) \/ Create(c) \/ Check(c)
    BY <2>1, ReadTypes, CreateTypes, CheckTypes
  <2>2. CASE Source(c) \/ Target(c) \/ Copy(c) \/ Apply(c)
    BY <2>2, CopyTypes
  <2>3. CASE Store(c) \/ Insert(c)
    BY <2>3, StoreTypes, InsertTypes
  <2>4. CASE Asset(c) \/ List(c) \/ DeleteRows(c) \/ RemoveDirs(c)
    BY <2>4, DeleteTypes
  <2>5. CASE Begin(c) \/ Undo(c) \/ Expire(c) \/ PurgeDir(c)
    BY <2>5, CleanUpTypes
  <2>6. CASE Purge(c)
    BY <2>6, PurgeTypes
  <2> QED BY <1>1, <2>1, <2>2, <2>3, <2>4, <2>5, <2>6 DEF Step
<1>2. CASE UNCHANGED vars
  <2>1. UNCHANGED Number
    BY <1>2 DEF vars, Number, Spent, At
  <2> QED BY <1>2, <2>1 DEF vars, TypeInv
<1> QED BY <1>1, <1>2, CrashTypes DEF Next

\* The tables and the calls have their types: the version numbers never go
\* beyond the calls, so that MaxVersion bounds no behaviour.
THEOREM TypeCorrect == Spec => []TypeOK
<1>1. TypeInv => TypeOK
  <2> SUFFICES ASSUME TypeInv PROVE TypeOK
    OBVIOUS
  <2>1. /\ Number \in Nat /\ Number <= MaxVersion /\ MaxVersion \in Nat
        /\ \A c \in Calls : At(c, Early) => Number + 1 <= MaxVersion
    BY NumberType, VersionsAssumption
  <2>2. rows \subseteq RowSet
    <3>1. ASSUME NEW r \in rows PROVE r \in RowSet
      <4>1. /\ r \in RowRec /\ r.version \in Versions /\ r.dir \in Versions
            /\ r.base \in 0..MaxVersion /\ r.expected \in 0..MaxVersion
        BY <2>1 DEF TypeInv, RowUpTo, Versions
      <4> QED BY <4>1 DEF RowRec, RowSet
    <3> QED BY <3>1
  <2>3. ASSUME NEW c \in Calls
        PROVE  call[c].dir \in 0..MaxVersion /\ call[c].seen \in 0..MaxVersion
    BY <2>1 DEF TypeInv, CallUpTo, At
  <2> QED BY <2>2, <2>3 DEF TypeInv, TypeOK, Names
<1> QED BY <1>1, HeadInit, HeadNext, TypeInit, TypeNext, PTL DEF Spec

-----------------------------------------------------------------------------
\* Creations that are in the table and not yet reported, and versions that a
\* deletion has taken from the table and will report.
Unreported == {c \in Calls : At(c, {"asset"})}
Owed == {p \in Calls \X Nat : At(p[1], {"rmdirs"}) /\ p[2] \in 1..call[p[1]].count}

NothingLost == faults \cap {"crash", "asset"} = {}
Balance == ledger + Cardinality(Unreported) = Cardinality(rows) + Cardinality(Owed)

LedgerInv ==
  /\ IsFiniteSet(Owed)
  /\ NothingLost =>
       /\ \A c \in Calls : At(c, {"list", "delete", "rmdirs"}) => call[c].kind = "delete"
       /\ Balance

\* What the balance adds up is finite.
LEMMA Counts ==
  ASSUME TypeInv, IsFiniteSet(Owed)
  PROVE  /\ IsFiniteSet(Unreported) /\ Cardinality(Unreported) \in Nat
         /\ Cardinality(rows) \in Nat /\ Cardinality(Owed) \in Nat /\ ledger \in Int
<1>1. Unreported \in SUBSET Calls
  BY DEF Unreported
<1>2. IsFiniteSet(Unreported)
  BY <1>1, FS_Subset, VersionsAssumption
<1> QED BY <1>2, FS_CardinalityType DEF TypeInv

\* A deletion comes to owe what it has taken, and is done with it.
LEMMA OwedStep ==
  ASSUME TypeInv, NEW c \in Calls, call' = [call EXCEPT ![c] = call'[c]], call'[c] \in CallRec
  PROVE  /\ call[c].pc # "rmdirs" /\ call'[c].pc # "rmdirs" => Owed' = Owed
         /\ call[c].pc = "rmdirs" /\ call'[c].pc = "rmdirs" /\ call'[c].count = call[c].count
              => Owed' = Owed
         /\ call[c].pc # "rmdirs" /\ call'[c].pc = "rmdirs" /\ IsFiniteSet(Owed)
              => IsFiniteSet(Owed') /\ Cardinality(Owed') = Cardinality(Owed) + call'[c].count
         /\ call[c].pc = "rmdirs" /\ call'[c].pc # "rmdirs" /\ IsFiniteSet(Owed)
              => IsFiniteSet(Owed') /\ Cardinality(Owed') = Cardinality(Owed) - call[c].count
<1>1. call \in [Calls -> CallRec] /\ call[c] \in CallRec
  BY DEF TypeInv
<1>2. \A d \in Calls : call'[d] = IF d = c THEN call'[c] ELSE call[d]
  BY <1>1
<1>3. call[c].count \in Nat /\ call'[c].count \in Nat
  BY <1>1 DEF CallRec
<1> DEFINE mine(n) == {c} \X (1..n)
<1>4. ASSUME NEW n \in Nat
      PROVE  IsFiniteSet(mine(n)) /\ Cardinality(mine(n)) = n
  <2>1. IsFiniteSet(1..n) /\ Cardinality(1..n) = n
    <3>1. 1 \in Int /\ n \in Int /\ (1 > n => n = 0) /\ n - 1 + 1 = n
      BY <1>4
    <3>2. IsFiniteSet(1..n) /\ Cardinality(1..n) = IF 1 > n THEN 0 ELSE n - 1 + 1
      BY <3>1, FS_Interval
    <3> QED BY <3>1, <3>2
  <2>2. IsFiniteSet({c}) /\ Cardinality({c}) = 1
    BY FS_Singleton
  <2>3. IsFiniteSet({c} \X (1..n)) /\ Cardinality({c} \X (1..n)) = Cardinality({c}) * Cardinality(1..n)
    BY <2>1, <2>2, FS_Product
  <2>4. 1 * n = n
    BY <1>4
  <2> QED BY <2>1, <2>2, <2>3, <2>4
<1>5. CASE call[c].pc # "rmdirs" /\ call'[c].pc # "rmdirs"
  BY <1>2, <1>5 DEF Owed, At
<1>6. CASE call[c].pc = "rmdirs" /\ call'[c].pc = "rmdirs" /\ call'[c].count = call[c].count
  BY <1>2, <1>6 DEF Owed, At
<1>7. CASE call[c].pc # "rmdirs" /\ call'[c].pc = "rmdirs" /\ IsFiniteSet(Owed)
  <2> DEFINE n == call'[c].count
  <2>1. Owed' = Owed \cup mine(n)
    BY <1>2, <1>3, <1>7 DEF Owed, At
  <2>2. Owed \cap mine(n) = {}
    BY <1>7 DEF Owed, At
  <2>3. IsFiniteSet(mine(n)) /\ Cardinality(mine(n)) = n
    BY <1>3, <1>4
  <2>4. Cardinality({}) = 0 /\ Cardinality(Owed) \in Nat
    BY <1>7, FS_EmptySet, FS_CardinalityType
  <2> HIDE DEF mine
  <2>5. IsFiniteSet(Owed \cup mine(n)) /\ Cardinality(Owed \cup mine(n)) = Cardinality(Owed) + n - 0
    BY <1>7, <2>2, <2>3, <2>4, FS_Union
  <2>6. Cardinality(Owed) + n - 0 = Cardinality(Owed) + n
    BY <1>3, <2>4
  <2> QED BY <1>7, <2>1, <2>5, <2>6
<1>8. CASE call[c].pc = "rmdirs" /\ call'[c].pc # "rmdirs" /\ IsFiniteSet(Owed)
  <2> DEFINE n == call[c].count
  <2>1. Owed' = Owed \ mine(n)
    <3>1. \A p \in Calls \X Nat :
            /\ p \in Owed' <=> p[1] # c /\ p \in Owed
            /\ p \in Owed => (p[1] = c <=> p \in mine(n))
      BY <1>2, <1>3, <1>8 DEF Owed, At
    <3>2. Owed \subseteq Calls \X Nat /\ Owed' \subseteq Calls \X Nat
      BY DEF Owed
    <3> HIDE DEF mine
    <3> QED BY <3>1, <3>2
  <2>2. Owed \cap mine(n) = mine(n)
    BY <1>3, <1>8 DEF Owed, At
  <2>3. IsFiniteSet(mine(n)) /\ Cardinality(mine(n)) = n
    BY <1>3, <1>4
  <2> HIDE DEF mine
  <2>4. IsFiniteSet(Owed \ mine(n)) /\ Cardinality(Owed \ mine(n)) = Cardinality(Owed) - n
    <3>1. Cardinality(Owed \cap mine(n)) = n
      BY <2>2, <2>3
    <3>2. /\ IsFiniteSet(Owed \ mine(n))
          /\ Cardinality(Owed \ mine(n)) = Cardinality(Owed) - Cardinality(Owed \cap mine(n))
      BY <1>8, FS_Difference
    <3> QED BY <3>1, <3>2
  <2> QED BY <1>8, <2>1, <2>4
<1> QED BY <1>5, <1>6, <1>7, <1>8

\* A creation waits for its report, and gets it.
LEMMA UnreportedStep ==
  ASSUME TypeInv, NEW c \in Calls, call' = [call EXCEPT ![c] = call'[c]]
  PROVE  /\ (call[c].pc = "asset" <=> call'[c].pc = "asset") => Unreported' = Unreported
         /\ call[c].pc # "asset" /\ call'[c].pc = "asset"
              => Cardinality(Unreported') = Cardinality(Unreported) + 1
         /\ call[c].pc = "asset" /\ call'[c].pc # "asset"
              => Cardinality(Unreported') = Cardinality(Unreported) - 1
<1>1. \A d \in Calls : call'[d] = IF d = c THEN call'[c] ELSE call[d]
  BY DEF TypeInv
<1>2. IsFiniteSet(Unreported)
  <2>1. Unreported \in SUBSET Calls
    BY DEF Unreported
  <2> QED BY <2>1, FS_Subset, VersionsAssumption
<1>3. (call[c].pc = "asset" <=> call'[c].pc = "asset") => Unreported' = Unreported
  BY <1>1 DEF Unreported, At
<1>4. CASE call[c].pc # "asset" /\ call'[c].pc = "asset"
  <2>1. Unreported' = Unreported \cup {c} /\ c \notin Unreported
    BY <1>1, <1>4 DEF Unreported, At
  <2>2. Cardinality(Unreported \cup {c}) = Cardinality(Unreported) + 1
    BY <1>2, <2>1, FS_AddElement
  <2> QED BY <1>4, <2>1, <2>2
<1>5. CASE call[c].pc = "asset" /\ call'[c].pc # "asset"
  <2>1. Unreported' = Unreported \ {c} /\ c \in Unreported
    BY <1>1, <1>5 DEF Unreported, At
  <2>2. Cardinality(Unreported \ {c}) = Cardinality(Unreported) - 1
    BY <1>2, <2>1, FS_RemoveElement
  <2> QED BY <1>5, <2>1, <2>2
<1> QED BY <1>3, <1>4, <1>5

\* A step that touches neither the table nor the books.
LEMMA LedgerFrame ==
  ASSUME TypeInv, LedgerInv, NEW c \in Calls, call' = [call EXCEPT ![c] = call'[c]],
         call'[c] \in CallRec, UNCHANGED <<rows, ledger>>, faults \subseteq faults',
         call[c].pc = "asset" <=> call'[c].pc = "asset",
         call[c].pc = "rmdirs" <=> call'[c].pc = "rmdirs",
         call[c].pc = "rmdirs" => call'[c].count = call[c].count,
         call'[c].pc \in {"list", "delete", "rmdirs"} =>
           \/ call[c].pc \in {"list", "delete", "rmdirs"} /\ call'[c].kind = call[c].kind
           \/ call'[c].kind = "delete"
  PROVE  LedgerInv'
<1>1. Owed' = Owed /\ Unreported' = Unreported
  BY OwedStep, UnreportedStep
<1>2. \A d \in Calls : call'[d] = IF d = c THEN call'[c] ELSE call[d]
  BY DEF TypeInv
<1>3. NothingLost' => NothingLost
  BY DEF NothingLost
<1>4. Balance => Balance'
  BY <1>1 DEF Balance
<1>5. NothingLost' => \A d \in Calls : At(d, {"list", "delete", "rmdirs"})' => call'[d].kind = "delete"
  <2>1. SUFFICES ASSUME NothingLost', NEW d \in Calls, call'[d].pc \in {"list", "delete", "rmdirs"}
                 PROVE  call'[d].kind = "delete"
    BY DEF At
  <2>2. call[d].pc \in {"list", "delete", "rmdirs"} => call[d].kind = "delete"
    BY <1>3, <2>1 DEF LedgerInv, At
  <2> QED BY <1>2, <2>1, <2>2
<1> QED BY <1>1, <1>3, <1>4, <1>5 DEF LedgerInv

\* No fault is forgotten.
LEMMA FaultsGrow ==
  ASSUME NEW c \in Calls, Read(c) \/ Begin(c) \/ Step(c) PROVE faults \subseteq faults'
BY DEF Step, Read, Begin, Create, Check, Source, Target, Copy, Apply, Store, Insert, Asset, Undo,
       List, DeleteRows, RemoveDirs, Expire, Purge, PurgeDir, Fault

\* The steps before the table is changed, and after it.
LEMMA PlainLedger ==
  ASSUME TypeInv, HeadInv, LedgerInv, NEW c \in Calls,
         \/ Read(c) \/ Begin(c) \/ Create(c) \/ Check(c) \/ Source(c) \/ Target(c) \/ Copy(c)
         \/ Apply(c) \/ Store(c) \/ Undo(c) \/ List(c) \/ Expire(c) \/ PurgeDir(c)
  PROVE  LedgerInv'
<1>0. /\ IsCall(call[c]) /\ call = [d \in Calls |-> call[d]]
      /\ UNCHANGED <<rows, ledger>> /\ call' = [call EXCEPT ![c] = call'[c]]
      /\ faults \subseteq faults' /\ call'[c] \in CallRec
  <2>1. TypeInv'
    BY TypeNext DEF Next, Step
  <2>2. UNCHANGED rows /\ call' = [call EXCEPT ![c] = call'[c]]
    BY QuietForm DEF Quietly
  <2>3. UNCHANGED ledger
    BY DEF Read, Begin, Create, Check, Source, Target, Copy, Apply, Store, Undo, List, Expire, PurgeDir
  <2> QED BY <2>1, <2>2, <2>3, FaultsGrow DEF Step, TypeInv, HeadInv, Shape
<1>1. CASE \/ Read(c) \/ Begin(c) \/ Create(c) \/ Source(c) \/ Target(c) \/ Copy(c)
           \/ Apply(c) \/ Store(c) \/ Undo(c) \/ Expire(c) \/ PurgeDir(c)
  <2>1. call[c].pc \notin {"asset", "list", "delete", "rmdirs"}
    BY <1>1 DEF Read, Begin, Create, Source, Target, Copy, Apply, Store, Undo, Expire, PurgeDir, At
  <2>2. call'[c].pc \notin {"asset", "list", "delete", "rmdirs"}
    <3>1. CASE Read(c)
      <4>1. PICK kind \in Kinds, path \in SUBSET Paths :
              call' = [call EXCEPT ![c] = [NewCall EXCEPT
                        !.kind = kind, !.path = path, !.pc = "read", !.expected = HeadVersion]]
        BY <3>1 DEF Read
      <4>2. call'[c] = [NewCall EXCEPT
                         !.kind = kind, !.path = path, !.pc = "read", !.expected = HeadVersion]
        BY <1>0, <4>1
      <4>3. call'[c].pc = "read"
        BY <4>2 DEF NewCall
      <4> QED BY <4>3
    <3>2. CASE Begin(c) \/ Undo(c) \/ PurgeDir(c)
      BY <1>0, <3>2 DEF Begin, Undo, PurgeDir, Go, IsCall
    <3>3. CASE Create(c)
      BY <1>0, <3>3 DEF Create, IsCall
    <3>4. CASE Store(c)
      BY <1>0, <3>4 DEF Store, IsCall
    <3>5. CASE Source(c) \/ Target(c) \/ Copy(c) \/ Apply(c) \/ Expire(c)
      <4>1. \E to \in {"target", "copy", "apply", "store", "undo", "done", "purge"} :
              \/ Go(c, to)
              \/ \E left : call' = [call EXCEPT ![c].pc = to, ![c].todo = left]
              \/ to = "apply" /\ \E left : call' = [call EXCEPT ![c].todo = left] /\ At(c, {"apply"})
        <5>1. CASE Source(c)
          BY <5>1 DEF Source
        <5>2. CASE Target(c)
          BY <5>2 DEF Target, Copying
        <5>3. CASE Copy(c)
          BY <5>3 DEF Copy, Copying
        <5>4. CASE Apply(c)
          BY <5>4 DEF Apply
        <5>5. CASE Expire(c)
          BY <5>5 DEF Expire
        <5> QED BY <3>5, <5>1, <5>2, <5>3, <5>4, <5>5
      <4>2. ASSUME NEW left, call' = [call EXCEPT ![c].todo = left], At(c, {"apply"})
            PROVE  call'[c].pc = "apply"
        BY <1>0, <4>2 DEF At, IsCall
      <4> QED BY <4>1, <4>2, Moved
    <3> QED BY <1>1, <3>1, <3>2, <3>3, <3>4, <3>5
  <2> QED BY <1>0, <2>1, <2>2, LedgerFrame
<1>2. CASE Check(c)
  <2>1. call[c].pc = "called"
    BY <1>2 DEF Check, At
  <2>2. call'[c].pc \in {"done", "source"} \/ (call'[c].pc = "list" /\ call'[c].kind = "delete")
    BY <1>0, <1>2 DEF Check, Go, IsCall
  <2> QED BY <1>0, <2>1, <2>2, LedgerFrame
<1>3. CASE List(c)
  <2>1. call[c].pc = "list" /\ call'[c].pc = "delete" /\ call'[c].kind = call[c].kind
    BY <1>0, <1>3 DEF List, At, IsCall
  <2> QED BY <1>0, <2>1, LedgerFrame
<1> QED BY <1>1, <1>2, <1>3

\* The transaction adds a row, and either a report or one that is due.
LEMMA InsertLedger ==
  ASSUME TypeInv, HeadInv, LedgerInv, NEW c \in Calls, Insert(c)
  PROVE  LedgerInv'
<1>0. /\ call \in [Calls -> CallRec] /\ call[c].pc = "insert" /\ UNCHANGED faults /\ IsFiniteSet(Owed)
  BY DEF TypeInv, Insert, At, LedgerInv
<1>1. CASE Conflict(call[c].seen)
  <2>1. Go(c, "undo") /\ UNCHANGED <<rows, ledger>>
    BY <1>1 DEF Insert
  <2>2. /\ call' = [call EXCEPT ![c] = call'[c]] /\ call'[c] \in CallRec /\ call'[c].pc = "undo"
    BY <1>0, <2>1, GoForm, LabelTypes DEF InCall
  <2> QED BY <1>0, <2>1, <2>2, LedgerFrame
<1>2. CASE ~Conflict(call[c].seen)
  <2>1. Cardinality(rows') = Cardinality(rows) + 1
    BY <1>2, InsertRows
  <2>2. \/ Go(c, "asset") /\ ledger' = ledger
        \/ Go(c, "expire") /\ ledger' = ledger + 1
    BY <1>2 DEF Insert
  <2>3. /\ call' = [call EXCEPT ![c] = call'[c]] /\ call'[c] \in CallRec
        /\ \/ call'[c].pc = "asset" /\ ledger' = ledger
           \/ call'[c].pc = "expire" /\ ledger' = ledger + 1
    BY <1>0, <2>2, GoForm, LabelTypes DEF InCall, InCleanUp
  <2>4. Owed' = Owed
    BY <1>0, <2>3, OwedStep
  <2>5. /\ call'[c].pc = "asset" => Cardinality(Unreported') = Cardinality(Unreported) + 1
        /\ call'[c].pc # "asset" => Unreported' = Unreported
    BY <1>0, <2>3, UnreportedStep
  <2>6. ledger' + Cardinality(Unreported') = ledger + Cardinality(Unreported) + 1
    <3>1. CASE call'[c].pc = "asset" /\ ledger' = ledger
      BY <1>0, <2>5, <3>1, Counts
    <3>2. CASE call'[c].pc = "expire" /\ ledger' = ledger + 1
      <4>1. Cardinality(Unreported') = Cardinality(Unreported)
        BY <2>5, <3>2
      <4> QED BY <1>0, <3>2, <4>1, Counts
    <3> QED BY <2>3, <3>1, <3>2
  <2>7. NothingLost => Balance'
    <3>1. Cardinality(Owed') = Cardinality(Owed)
      BY <2>4
    <3>2. NothingLost => Balance
      BY DEF LedgerInv
    <3>3. Cardinality(rows) + 1 + Cardinality(Owed) = Cardinality(rows) + Cardinality(Owed) + 1
      BY <1>0, Counts
    <3> QED BY <2>1, <2>6, <3>1, <3>2, <3>3 DEF Balance
  <2>8. NothingLost => \A d \in Calls : At(d, {"list", "delete", "rmdirs"})' => call'[d].kind = "delete"
    <3>1. \A d \in Calls : d # c => call'[d] = call[d]
      BY <1>0, <2>3
    <3> QED BY <2>3, <3>1 DEF LedgerInv, At
  <2> QED BY <1>0, <2>4, <2>7, <2>8 DEF LedgerInv, NothingLost
<1> QED BY <1>1, <1>2

\* The rows that a deletion takes are owed until it reports them.
LEMMA DeleteLedger ==
  ASSUME TypeInv, HeadInv, LedgerInv, NEW c \in Calls, DeleteRows(c) \/ RemoveDirs(c)
  PROVE  LedgerInv'
<1>0. /\ call \in [Calls -> CallRec] /\ call[c] \in CallRec /\ IsFiniteSet(Owed) /\ ledger \in Int
      /\ Cardinality(Unreported) \in Nat /\ Cardinality(rows) \in Nat /\ Cardinality(Owed) \in Nat
  BY Counts DEF TypeInv, LedgerInv
<1>1. ASSUME NothingLost' PROVE NothingLost
  BY <1>1, FaultsGrow DEF Step, NothingLost
<1>2. CASE DeleteRows(c)
  <2> DEFINE n == Cardinality(rows)
  <2>1. /\ call' = [call EXCEPT ![c] = call'[c]] /\ call'[c] \in CallRec
        /\ call'[c].kind = call[c].kind /\ call'[c].count = n
        /\ call'[c].pc = IF rows = {} THEN Leave(c) ELSE "rmdirs"
    BY <1>0, <1>2, DeleteRowsForm DEF Same
  <2>2. call[c].pc = "delete" /\ rows' = {} /\ UNCHANGED <<ledger, faults>>
    BY <1>2 DEF DeleteRows, At
  <2>3. Leave(c) \notin {"asset", "rmdirs", "list", "delete"}
    BY DEF Leave
  <2>4. Unreported' = Unreported
    BY <2>1, <2>2, <2>3, UnreportedStep
  <2>5. IsFiniteSet(Owed') /\ Cardinality(Owed') = Cardinality(Owed) + n
    <3>1. CASE rows = {}
      <4>1. n = 0
        BY <3>1, FS_EmptySet
      <4>2. Owed' = Owed
        BY <2>1, <2>2, <2>3, <3>1, OwedStep
      <4> QED BY <1>0, <4>1, <4>2
    <3>2. CASE rows # {}
      BY <1>0, <2>1, <2>2, <3>2, OwedStep
    <3> QED BY <3>1, <3>2
  <2>6. Cardinality(rows') = 0
    BY <2>2, FS_EmptySet
  <2>7. Balance => Balance'
    <3>1. Cardinality(Unreported') = Cardinality(Unreported) /\ ledger' = ledger
      BY <2>2, <2>4
    <3> QED BY <1>0, <2>5, <2>6, <3>1 DEF Balance
  <2>8. NothingLost => \A d \in Calls : At(d, {"list", "delete", "rmdirs"})' => call'[d].kind = "delete"
    <3>1. \A d \in Calls : d # c => call'[d] = call[d]
      BY <1>0, <2>1
    <3>2. NothingLost => call[c].kind = "delete"
      BY <2>2 DEF LedgerInv, At
    <3> QED BY <2>1, <3>1, <3>2 DEF LedgerInv, At
  <2> QED BY <1>1, <2>5, <2>7, <2>8 DEF LedgerInv
<1>3. CASE RemoveDirs(c)
  <2>1. call[c].pc = "rmdirs" /\ UNCHANGED <<rows, overlapped>>
    BY <1>3 DEF RemoveDirs, At
  <2>2. CASE /\ Go(c, Leave(c))
             /\ ledger' = IF call[c].kind = "delete" THEN ledger - call[c].count ELSE ledger
    <3>1. /\ call' = [call EXCEPT ![c] = call'[c]] /\ call'[c] \in CallRec
          /\ call'[c].pc = Leave(c) /\ Moves(call'[c], call[c])
      BY <1>0, <2>2, GoForm, LeaveLabel
    <3>2. Leave(c) \notin {"asset", "rmdirs", "list", "delete"}
      BY DEF Leave
    <3>3. Unreported' = Unreported
      BY <2>1, <3>1, <3>2, UnreportedStep
    <3>4. IsFiniteSet(Owed') /\ Cardinality(Owed') = Cardinality(Owed) - call[c].count
      BY <1>0, <2>1, <3>1, <3>2, OwedStep
    <3>5. NothingLost => Balance'
      <4>1. ASSUME NothingLost PROVE Balance /\ ledger' = ledger - call[c].count
        BY <2>1, <2>2, <4>1 DEF LedgerInv, At
      <4>2. Cardinality(Unreported') = Cardinality(Unreported) /\ Cardinality(rows') = Cardinality(rows)
        BY <2>1, <3>3
      <4>3. call[c].count \in Nat
        BY <1>0 DEF CallRec
      <4> QED BY <1>0, <3>4, <4>1, <4>2, <4>3 DEF Balance
    <3>6. NothingLost => \A d \in Calls : At(d, {"list", "delete", "rmdirs"})' => call'[d].kind = "delete"
      <4>1. \A d \in Calls : d # c => call'[d] = call[d]
        BY <1>0, <3>1
      <4> QED BY <3>1, <3>2, <4>1 DEF LedgerInv, At
    <3> QED BY <1>1, <3>4, <3>5, <3>6 DEF LedgerInv
  <2>3. ASSUME NEW d \in call[c].todo, call' = [call EXCEPT ![c].todo = @ \ {d}], UNCHANGED ledger
        PROVE  LedgerInv'
    <3> DEFINE left == call[c].todo \ {d}
    <3>1. call' = [call EXCEPT ![c].todo = left] /\ left \in Things
      BY <1>0, <2>3 DEF Things, CallRec
    <3> HIDE DEF left
    <3>2. /\ call' = [call EXCEPT ![c] = call'[c]] /\ call'[c] \in CallRec
          /\ call'[c].pc = "rmdirs" /\ call'[c].todo = left /\ Moves(call'[c], call[c])
      BY <1>0, <2>1, <3>1, TodoForm, LabelTypes DEF InCall
    <3>3. faults \subseteq faults'
      BY <1>3, FaultsGrow DEF Step
    <3> QED BY <2>1, <2>3, <3>2, <3>3, LedgerFrame DEF Moves, Same
  <2> QED BY <1>3, <2>2, <2>3 DEF RemoveDirs
<1> QED BY <1>2, <1>3

\* A report settles what was due.
LEMMA ReportLedger ==
  ASSUME TypeInv, LedgerInv, NEW c \in Calls, Asset(c) PROVE LedgerInv'
<1>0. /\ call \in [Calls -> CallRec] /\ call[c] \in CallRec /\ IsFiniteSet(Owed) /\ ledger \in Int
      /\ Cardinality(Unreported) \in Nat /\ Cardinality(rows) \in Nat /\ Cardinality(Owed) \in Nat
      /\ call[c].pc = "asset" /\ UNCHANGED rows
  BY Counts DEF TypeInv, LedgerInv, Asset, At
<1>1. PICK to \in {"done", "list"} : Go(c, to)
  BY DEF Asset
<1>2. call' = [call EXCEPT ![c] = call'[c]] /\ call'[c] \in CallRec /\ call'[c].pc = to
  BY <1>0, <1>1, GoForm, LabelTypes DEF InCall
<1>3. Owed' = Owed /\ Cardinality(Unreported') = Cardinality(Unreported) - 1
  BY <1>0, <1>1, <1>2, OwedStep, UnreportedStep
<1>4. CASE Fault("asset")
  BY <1>0, <1>3, <1>4 DEF LedgerInv, NothingLost, Fault
<1>5. CASE Go(c, "done") /\ ledger' = ledger + 1 /\ UNCHANGED faults
  <2>1. call'[c].pc = "done"
    BY <1>0, <1>5, GoForm, LabelTypes
  <2>2. Balance => Balance'
    <3>1. Cardinality(Owed') = Cardinality(Owed) /\ Cardinality(rows') = Cardinality(rows)
      BY <1>0, <1>3
    <3> QED BY <1>0, <1>3, <1>5, <3>1 DEF Balance
  <2>3. NothingLost => \A d \in Calls : At(d, {"list", "delete", "rmdirs"})' => call'[d].kind = "delete"
    <3>1. \A d \in Calls : d # c => call'[d] = call[d]
      BY <1>0, <1>2
    <3> QED BY <2>1, <3>1 DEF LedgerInv, At
  <2> QED BY <1>0, <1>3, <1>5, <2>2, <2>3 DEF LedgerInv, NothingLost
<1> QED BY <1>4, <1>5 DEF Asset

\* A clean-up reports as many rows as it has taken.
LEMMA PurgeLedger ==
  ASSUME TypeInv, LedgerInv, NEW c \in Calls, Purge(c) PROVE LedgerInv'
<1>0. /\ call \in [Calls -> CallRec] /\ IsFiniteSet(Owed) /\ ledger \in Int
      /\ Cardinality(Unreported) \in Nat /\ Cardinality(rows) \in Nat /\ Cardinality(Owed) \in Nat
      /\ IsFiniteSet(rows)
  BY Counts DEF TypeInv, LedgerInv
<1>1. /\ call[c].pc = "purge" /\ UNCHANGED faults
      /\ call' = [call EXCEPT ![c] = call'[c]] /\ call'[c] \in CallRec
      /\ call'[c].pc \in {"done", "purge", "purgeDir"}
  BY PurgeSteps
<1>2. PICK gone \in SUBSET rows : rows' = rows \ gone /\ ledger' = ledger - Cardinality(gone)
  BY PurgeSteps
<1>3. Cardinality(gone) \in Nat /\ Cardinality(rows') = Cardinality(rows) - Cardinality(gone)
  <2>1. rows \cap gone = gone
    BY <1>2
  <2>2. Cardinality(rows \ gone) = Cardinality(rows) - Cardinality(rows \cap gone)
    BY <1>0, FS_Difference
  <2> QED BY <1>2, <2>1, <2>2, RowNumbers
<1>4. Owed' = Owed /\ Unreported' = Unreported
  BY <1>1, OwedStep, UnreportedStep
<1>5. Balance => Balance'
  <2>1. Cardinality(Owed') = Cardinality(Owed) /\ Cardinality(Unreported') = Cardinality(Unreported)
    BY <1>4
  <2> QED BY <1>0, <1>2, <1>3, <2>1 DEF Balance
<1>6. NothingLost => \A d \in Calls : At(d, {"list", "delete", "rmdirs"})' => call'[d].kind = "delete"
  <2>1. \A d \in Calls : d # c => call'[d] = call[d]
    BY <1>0, <1>1
  <2> QED BY <1>1, <2>1 DEF LedgerInv, At
<1> QED BY <1>0, <1>1, <1>4, <1>5, <1>6 DEF LedgerInv, NothingLost

\* After a crash nothing is claimed.
LEMMA CrashLedger ==
  ASSUME TypeInv, HeadInv, LedgerInv, Crash PROVE LedgerInv'
<1>1. ~NothingLost'
  BY DEF Crash, Fault, NothingLost
<1>2. Owed' \subseteq Owed
  <2>1. \A c \in Calls : IF At(c, InCall \cup InCleanUp) THEN call'[c].pc = "done" ELSE call'[c] = call[c]
    BY CrashForm DEF At
  <2>2. \A c \in Calls : call'[c].pc = "rmdirs" => call'[c] = call[c]
    BY <2>1
  <2> QED BY <2>2 DEF Owed, At
<1>3. IsFiniteSet(Owed')
  BY <1>2, FS_Subset DEF LedgerInv
<1> QED BY <1>1, <1>3 DEF LedgerInv

\* An empty table, and nothing reported.
LEMMA LedgerInit == Init => LedgerInv
<1> SUFFICES ASSUME Init PROVE LedgerInv
  OBVIOUS
<1>1. \A c \in Calls : call[c].pc = "new"
  BY DEF Init, NewCall
<1>2. Owed = {} /\ Unreported = {} /\ rows = {} /\ ledger = 0
  BY <1>1 DEF Init, Owed, Unreported, At
<1>3. IsFiniteSet(Owed) /\ Balance
  <2>1. Cardinality(Owed) = 0 /\ Cardinality(Unreported) = 0 /\ Cardinality(rows) = 0
    BY <1>2, FS_EmptySet
  <2> QED BY <1>2, <2>1, FS_EmptySet DEF Balance
<1> QED BY <1>1, <1>3 DEF LedgerInv, At

\* Every step keeps table and reports in balance.
LEMMA LedgerNext == HeadInv /\ TypeInv /\ LedgerInv /\ [Next]_vars => LedgerInv'
<1> SUFFICES ASSUME HeadInv, TypeInv, LedgerInv, [Next]_vars PROVE LedgerInv'
  OBVIOUS
<1>1. ASSUME NEW c \in Calls, Read(c) \/ Begin(c) \/ Step(c) PROVE LedgerInv'
  <2>1. CASE \/ Read(c) \/ Begin(c) \/ Create(c) \/ Check(c) \/ Source(c) \/ Target(c) \/ Copy(c)
             \/ Apply(c) \/ Store(c) \/ Undo(c) \/ List(c) \/ Expire(c) \/ PurgeDir(c)
    BY <2>1, PlainLedger
  <2>2. CASE Insert(c) \/ Asset(c) \/ DeleteRows(c) \/ RemoveDirs(c) \/ Purge(c)
    BY <2>2, InsertLedger, ReportLedger, DeleteLedger, PurgeLedger
  <2> QED BY <1>1, <2>1, <2>2 DEF Step
<1>2. CASE UNCHANGED vars
  BY <1>2 DEF vars, LedgerInv, NothingLost, Balance, Owed, Unreported, At
<1> QED BY <1>1, <1>2, CrashLedger DEF Next

\* Once nothing runs the books agree with the table, for any calls, overlaps
\* and clean-ups: what is in the table and not reported is a creation that
\* waits for its report, what is reported and not there a deletion that has
\* not finished.
THEOREM LedgerCorrect == Spec => []LedgerMatches
<1>1. TypeInv /\ LedgerInv => LedgerMatches
  <2> SUFFICES ASSUME TypeInv, LedgerInv, Quiet, NothingLost PROVE ledger = Cardinality(rows)
    BY DEF LedgerMatches, NothingLost
  <2>1. Owed = {} /\ Unreported = {}
    BY DEF Quiet, Owed, Unreported, At, InCall
  <2>2. Cardinality(Owed) = 0 /\ Cardinality(Unreported) = 0
    BY <2>1, FS_EmptySet
  <2> QED BY <2>2, Counts DEF LedgerInv, Balance
<1> QED BY <1>1, HeadInit, HeadNext, TypeInit, TypeNext, LedgerInit, LedgerNext, PTL DEF Spec

-----------------------------------------------------------------------------
\* While calls do not overlap: where the call of record x may be, given the
\* table and its head ...
Placed(x, table, head) ==
  /\ x.pc \in Working => x.dir = head + 1 /\ (table = {} => x.kind = "create")
  /\ x.pc \in {"source", "target", "copy"} => x.from = head
  /\ x.pc = "undo" => table = {} \/ x.dir = head + 1
  /\ x.pc = "rmdirs" => table = {}
  /\ x.pc \in {"purge", "purgeDir"} =>
       \A r \in x.todo : r.dir = r.version /\ (table = {} \/ r.version < head)
  /\ x.pc = "purgeDir" => table = {} \/ (x.dir < head /\ \A r \in table : r.version # x.dir)

\* ... and which files of its new version are where, of those that walkDir is
\* sure to find: under the head until they are copied, in the copy, or among
\* the changes that are left.
OldFiles(x, sure) == sure \cap (IF x.kind = "remove" THEN x.manifest ELSE x.manifest \ x.path)

Held(x, dirs, sure) ==
  /\ x.kind = "remove" /\ x.pc \in Working => x.manifest \cap x.path = {}
  /\ x.pc \in {"source", "target", "copy"} =>
       x.kind # "create" /\ OldFiles(x, sure) \subseteq dirs[x.from]
  /\ x.pc \in {"target", "copy"} => OldFiles(x, sure) \subseteq x.todo \cup dirs[x.dir]
  /\ x.pc = "apply" =>
       IF x.kind = "remove"
       THEN x.manifest \cap sure \subseteq dirs[x.dir] /\ x.manifest \cap x.todo = {}
       ELSE x.manifest \cap sure \subseteq dirs[x.dir] \cup x.todo
  /\ x.pc \in {"store", "insert"} => x.manifest \cap sure \subseteq dirs[x.dir]

Stored(table, dirs, sure) ==
  \A r \in table : r.dir = r.version /\ r.manifest \cap sure \subseteq dirs[r.version]

FilesFor(sure) == ~overlapped =>
  /\ Stored(rows, files, sure)
  /\ \A c \in Calls : Placed(call[c], rows, HeadVersion) /\ Held(call[c], files, sure)

\* Without a failed listing these are the files that do not pass for sidecars.
Sure == IF "list" \in faults THEN {} ELSE Paths \ Hidden
FilesInv == FilesFor(Sure)

\* The versions of a table are at most the head.
LEMMA VersionsUpToHead ==
  ASSUME HeadInv, NEW r \in rows
  PROVE  /\ r.version \in Nat /\ HeadVersion \in Nat /\ r.version <= HeadVersion
         /\ r.isHead <=> r.version = HeadVersion
<1>1. PICK h \in rows : /\ h.isHead /\ h.version = HeadVersion
                        /\ \A q \in rows \ {h} : ~q.isHead /\ q.version < HeadVersion
  BY HeadOf
<1>2. r.version \in Nat /\ HeadVersion \in Nat
  BY HeadIsNat DEF HeadInv, Shape, IsRow
<1> QED BY <1>1, <1>2

\* At a label outside these nothing is claimed of a call.
LEMMA AtRest ==
  ASSUME NEW x, NEW table, NEW head, NEW dirs, NEW sure,
         x.pc \notin Working \cup {"undo", "rmdirs", "purge", "purgeDir"}
  PROVE  Placed(x, table, head) /\ Held(x, dirs, sure)
BY DEF Placed, Held, Working

\* What is claimed of some files is claimed of fewer.
LEMMA LessSure ==
  ASSUME NEW some, NEW sure, sure \subseteq some, FilesFor(some)
  PROVE  FilesFor(sure)
<1>1. SUFFICES ASSUME ~overlapped
               PROVE  /\ Stored(rows, files, sure)
                      /\ \A c \in Calls : Placed(call[c], rows, HeadVersion) /\ Held(call[c], files, sure)
  BY DEF FilesFor
<1>2. Stored(rows, files, sure)
  BY <1>1 DEF FilesFor, Stored
<1>3. ASSUME NEW c \in Calls PROVE Placed(call[c], rows, HeadVersion) /\ Held(call[c], files, sure)
  <2>1. Placed(call[c], rows, HeadVersion) /\ Held(call[c], files, some)
    BY <1>1 DEF FilesFor
  <2>2. OldFiles(call[c], sure) \subseteq OldFiles(call[c], some)
    BY DEF OldFiles
  <2>3. call[c].manifest \cap sure \subseteq call[c].manifest \cap some
    OBVIOUS
  <2> QED BY <2>1, <2>2, <2>3 DEF Held
<1> QED BY <1>2, <1>3

\* Calls that have overlapped stay so.
LEMMA OverlapGrows ==
  ASSUME TypeInv, NEW c \in Calls, Read(c) \/ Begin(c) \/ Step(c), ~overlapped'
  PROVE  ~overlapped
<1>1. CASE Begin(c)
  BY <1>1 DEF Begin
<1>2. CASE ~Begin(c)
  BY <1>2 DEF Step, Read, Create, Check, Source, Target, Copy, Apply, Store, Insert, Asset, Undo,
              List, DeleteRows, RemoveDirs, Expire, Purge, PurgeDir
<1> QED BY <1>1, <1>2

\* A step that leaves table and files alone: only its own call has to be looked at.
LEMMA FilesFrame ==
  ASSUME TypeInv, NEW sure, FilesFor(sure), NEW c \in Calls, call' = [call EXCEPT ![c] = call'[c]],
         UNCHANGED <<rows, files>>, ~overlapped' => ~overlapped,
         ~overlapped => Placed(call'[c], rows, HeadVersion) /\ Held(call'[c], files, sure)
  PROVE  FilesFor(sure)'
<1>1. UNCHANGED HeadVersion
  BY DEF HeadVersion, Heads
<1>2. \A d \in Calls : call'[d] = IF d = c THEN call'[c] ELSE call[d]
  BY DEF TypeInv
<1>3. SUFFICES ASSUME ~overlapped'
               PROVE  /\ Stored(rows', files', sure)
                      /\ \A d \in Calls : Placed(call'[d], rows', HeadVersion') /\ Held(call'[d], files', sure)
  BY DEF FilesFor
<1>4. Stored(rows', files', sure)
  BY <1>3 DEF FilesFor
<1>5. ASSUME NEW d \in Calls
      PROVE  Placed(call'[d], rows', HeadVersion') /\ Held(call'[d], files', sure)
  <2>1. CASE d = c
    <3>1. rows' = rows /\ files' = files /\ HeadVersion' = HeadVersion
      BY <1>1
    <3> QED BY <1>3, <2>1, <3>1
  <2>2. CASE d # c
    <3>1. rows' = rows /\ files' = files /\ HeadVersion' = HeadVersion /\ call'[d] = call[d]
      BY <1>1, <1>2, <2>2
    <3>2. Placed(call[d], rows, HeadVersion) /\ Held(call[d], files, sure)
      BY <1>3 DEF FilesFor
    <3> QED BY <3>1, <3>2
  <2> QED BY <2>1, <2>2
<1> QED BY <1>4, <1>5

\* A step of the one call at work that writes under the next version.
LEMMA WriteFrame ==
  ASSUME SerialInv, TypeInv, NEW sure, FilesFor(sure), NEW c \in Calls, call' = [call EXCEPT ![c] = call'[c]],
         UNCHANGED <<rows, overlapped>>, Busy(c), NEW d, d = HeadVersion + 1 \/ rows = {},
         \A v \in Versions : v # d => files'[v] = files[v],
         ~overlapped => Placed(call'[c], rows, HeadVersion) /\ Held(call'[c], files', sure)
  PROVE  FilesFor(sure)'
<1>1. UNCHANGED HeadVersion
  BY DEF HeadVersion, Heads
<1>2. \A e \in Calls : call'[e] = IF e = c THEN call'[c] ELSE call[e]
  BY DEF TypeInv
<1>3. SUFFICES ASSUME ~overlapped'
               PROVE  /\ Stored(rows', files', sure)
                      /\ \A e \in Calls : Placed(call'[e], rows', HeadVersion') /\ Held(call'[e], files', sure)
  BY DEF FilesFor
<1>4. Stored(rows', files', sure)
  <2>1. SUFFICES ASSUME NEW r \in rows
                 PROVE  r.dir = r.version /\ r.manifest \cap sure \subseteq files'[r.version]
    BY DEF Stored
  <2>2. r.version <= HeadVersion /\ r.version \in Nat /\ HeadVersion \in Nat
    BY VersionsUpToHead DEF SerialInv
  <2>3. r.version # d
    BY <2>1, <2>2
  <2>4. r.version \in Versions
    BY NumberType, VersionsAssumption DEF TypeInv, RowUpTo, Versions
  <2> QED BY <1>3, <2>3, <2>4 DEF FilesFor, Stored
<1>5. ASSUME NEW e \in Calls
      PROVE  Placed(call'[e], rows', HeadVersion') /\ Held(call'[e], files', sure)
  <2>0. rows' = rows /\ HeadVersion' = HeadVersion
    BY <1>1
  <2>1. CASE e = c
    BY <1>3, <2>0, <2>1
  <2>2. CASE e # c
    <3>1. call'[e] = call[e] /\ ~Busy(e)
      BY <1>2, <1>3, <2>2 DEF SerialInv, OneBusy
    <3>2. call[e].pc \notin Working
      BY <3>1 DEF Working, Busy, At, InCall
    <3>3. Placed(call[e], rows, HeadVersion)
      BY <1>3 DEF FilesFor
    <3>4. Held(call[e], files', sure)
      BY <3>2 DEF Held, Working
    <3> QED BY <2>0, <3>1, <3>3, <3>4
  <2> QED BY <2>1, <2>2
<1> QED BY <1>4, <1>5

\* The steps between the reading of the version and the copy.
LEMMA StartFiles ==
  ASSUME SerialInv, TypeInv, NEW sure, FilesFor(sure), NEW c \in Calls, Read(c) \/ Begin(c) \/ Create(c) \/ Check(c)
  PROVE  FilesFor(sure)'
<1>0. /\ UNCHANGED <<rows, files>> /\ call' = [call EXCEPT ![c] = call'[c]]
      /\ ~overlapped' => ~overlapped
      /\ IsCall(call[c]) /\ call = [d \in Calls |-> call[d]]
  <2>1. UNCHANGED rows /\ call' = [call EXCEPT ![c] = call'[c]]
    BY QuietForm DEF Quietly, SerialInv
  <2>2. UNCHANGED files
    BY DEF Read, Begin, Create, Check
  <2> QED BY <2>1, <2>2, OverlapGrows DEF Step, SerialInv, HeadInv, Shape
<1>1. CASE Read(c)
  <2>1. PICK kind \in Kinds, path \in SUBSET Paths :
          call' = [call EXCEPT ![c] = [NewCall EXCEPT
                        !.kind = kind, !.path = path, !.pc = "read", !.expected = HeadVersion]]
    BY <1>1 DEF Read
  <2>2. call'[c] = [NewCall EXCEPT
                     !.kind = kind, !.path = path, !.pc = "read", !.expected = HeadVersion]
    BY <1>0, <2>1
  <2>3. call'[c].pc = "read"
    BY <2>2 DEF NewCall
  <2>4. call'[c].pc \notin Working \cup {"undo", "rmdirs", "purge", "purgeDir"}
    BY <2>3 DEF Working
  <2> QED BY <1>0, <2>4, AtRest, FilesFrame
<1>2. CASE Begin(c)
  <2>1. call'[c].pc = "called"
    BY <1>0, <1>2 DEF Begin, Go, IsCall
  <2>2. call'[c].pc \notin Working \cup {"undo", "rmdirs", "purge", "purgeDir"}
    BY <2>1 DEF Working
  <2> QED BY <1>0, <2>2, AtRest, FilesFrame
<1>3. CASE Create(c)
  <2>1. /\ Same(call'[c], call[c]) /\ call'[c].pc \in {"store", "apply"}
        /\ call'[c].pc = "store" => call[c].path = {}
        /\ call'[c].dir = 1 /\ call'[c].todo = call[c].path /\ call'[c].manifest = call[c].path
    BY <1>3, CreateForm
  <2>2. call[c].pc = "called" /\ call[c].kind = "create"
    BY <1>3 DEF Create, At
  <2>3. HeadVersion = 0
    <3>1. At(c, Creating)
      BY <2>2 DEF At, Creating
    <3> QED BY <2>2, <3>1, NoHead DEF SerialInv, CreateAlone
  <2>4. Placed(call'[c], rows, HeadVersion)
    BY <2>1, <2>2, <2>3 DEF Placed, Same
  <2>5. Held(call'[c], files, sure)
    BY <2>1, <2>2 DEF Held, Same
  <2> QED BY <1>0, <2>4, <2>5, FilesFrame
<1>4. CASE Check(c)
  <2> DEFINE head == Row(HeadVersion)
             changed == IF call[c].kind = "write" THEN head.manifest \cup call[c].path
                        ELSE head.manifest \ call[c].path
  <2>1. /\ call[c].pc = "called" /\ call[c].kind # "create"
        /\ \/ Go(c, "done") \/ Go(c, "list")
           \/ /\ HeadVersion # 0
              /\ call' = [call EXCEPT ![c].pc = "source", ![c].base = HeadVersion,
                                      ![c].from = head.dir, ![c].dir = HeadVersion + 1,
                                      ![c].manifest = changed]
    BY <1>4 DEF Check, At, Fresh
  <2>2. CASE Go(c, "done") \/ Go(c, "list")
    <3>1. call'[c].pc \in {"done", "list"}
      BY <2>2, Moved DEF SerialInv
    <3>2. call'[c].pc \notin Working \cup {"undo", "rmdirs", "purge", "purgeDir"}
      BY <3>1 DEF Working
    <3> QED BY <1>0, <3>2, AtRest, FilesFrame
  <2>3. CASE /\ HeadVersion # 0
             /\ call' = [call EXCEPT ![c].pc = "source", ![c].base = HeadVersion,
                                     ![c].from = head.dir, ![c].dir = HeadVersion + 1,
                                     ![c].manifest = changed]
    <3>1. /\ HeadVersion \in Nat /\ head \in rows /\ rows # {} /\ head.version = HeadVersion
      BY <2>3, HeadUpTo, NumberType DEF SerialInv
    <3>2. changed \in SUBSET Paths
      <4>1. head.manifest \subseteq Paths /\ call[c].path \subseteq Paths
        BY <3>1 DEF TypeInv, RowUpTo, RowRec, CallRec
      <4> QED BY <4>1
    <3>3. /\ call[c].kind = "remove" => changed \cap call[c].path = {} /\ changed \subseteq head.manifest
          /\ changed \ call[c].path \subseteq head.manifest
      OBVIOUS
    <3>4. ~overlapped => head.manifest \cap sure \subseteq files[HeadVersion] /\ head.dir = HeadVersion
      BY <3>1 DEF FilesFor, Stored
    <3>8. head.dir \in Nat
      BY <3>1 DEF TypeInv, RowUpTo
    <3> HIDE DEF changed, head
    <3>5. /\ Asked(call'[c], call[c]) /\ call'[c].pc = "source" /\ call'[c].from = head.dir
          /\ call'[c].dir = HeadVersion + 1 /\ call'[c].manifest = changed
      <4>1. changed = Changed(c)
        BY DEF changed, head, Changed
      <4>2. call' = [call EXCEPT ![c].pc = "source", ![c].base = HeadVersion,
                                 ![c].from = Row(HeadVersion).dir, ![c].dir = HeadVersion + 1,
                                 ![c].manifest = Changed(c)]
        BY <2>3, <4>1 DEF head
      <4>3. Changed(c) \in SUBSET Paths /\ Row(HeadVersion).dir \in Nat
        BY <3>2, <3>8, <4>1 DEF head
      <4> QED BY <3>1, <4>1, <4>2, <4>3, CheckForm DEF head
    <3>6. ~overlapped => Placed(call'[c], rows, HeadVersion)
      BY <3>1, <3>4, <3>5 DEF Placed
    <3>7. ~overlapped => Held(call'[c], files, sure)
      BY <2>1, <3>3, <3>4, <3>5 DEF Held, Asked, OldFiles
    <3> QED BY <1>0, <3>6, <3>7, FilesFrame
  <2> QED BY <2>1, <2>2, <2>3
<1> QED BY <1>1, <1>2, <1>3, <1>4

\* The copy and the changes to it.
LEMMA CopyFiles ==
  ASSUME SerialInv, TypeInv, NEW sure, FilesFor(sure), NEW c \in Calls,
         Source(c) \/ Target(c) \/ Copy(c) \/ Apply(c),
         sure \subseteq Paths \ Hidden, "list" \in faults' => sure = {}
  PROVE  FilesFor(sure)'
<1>0. /\ call[c].pc \in {"source", "target", "copy", "apply"}
      /\ UNCHANGED <<rows, ledger, overlapped>>
      /\ call' = [call EXCEPT ![c] = call'[c]] /\ call'[c] \in CallRec
      /\ Moves(call'[c], call[c])
  BY SourceForm, TargetForm, CopyForm, ApplyForm
<1>1. /\ call[c].pc \in Working /\ Busy(c)
      /\ ~overlapped => Placed(call[c], rows, HeadVersion) /\ Held(call[c], files, sure)
      /\ ~overlapped => call[c].dir = HeadVersion + 1 /\ (rows = {} => call[c].kind = "create")
  BY <1>0 DEF Working, Busy, At, InCall, FilesFor, Placed
<1>2. ~overlapped => Placed(call'[c], rows, HeadVersion)
  <2>1. /\ call'[c].pc \in {"target", "copy", "apply", "store", "undo", "done"}
        /\ call'[c].pc \in {"target", "copy"} => call[c].pc \in {"source", "target", "copy"}
    <3>1. CASE Source(c)
      BY <3>1, SourceForm
    <3>2. CASE Target(c)
      BY <3>2, TargetForm
    <3>3. CASE Copy(c)
      BY <3>3, CopyForm
    <3>4. CASE Apply(c)
      BY <3>4, ApplyForm
    <3> QED BY <3>1, <3>2, <3>3, <3>4
  <2> QED BY <1>0, <1>1, <2>1 DEF Placed, Moves, Same
<1>3. call[c].dir \in Versions /\ HeadVersion \in Nat /\ files \in [Versions -> SUBSET Names]
  BY <1>1, PlacesType, HeadIsNat DEF SerialInv, TypeInv
<1>4. ~overlapped /\ call[c].pc \in {"source", "target", "copy"} => call[c].from = HeadVersion
  BY <1>1 DEF Placed
<1>5. CASE Source(c)
  <2>1. ~overlapped => Held(call'[c], files, sure)
    <3>1. SUFFICES ASSUME ~overlapped PROVE Held(call'[c], files, sure)
      OBVIOUS
    <3>2. /\ call[c].pc = "source" /\ call[c].kind # "create"
          /\ OldFiles(call[c], sure) \subseteq files[call[c].from]
          /\ call[c].kind = "remove" => call[c].manifest \cap call[c].path = {}
      BY <1>1, <1>5, <3>1, SourceForm DEF Held
    <3>3. OldFiles(call'[c], sure) = OldFiles(call[c], sure)
      BY <1>0 DEF OldFiles, Moves, Same
    <3>4. CASE files[call[c].from] = {}
      <4>1. OldFiles(call[c], sure) = {} /\ call'[c].pc = "apply" /\ call'[c].todo = call[c].path
        BY <1>5, <3>2, <3>4, SourceForm
      <4> QED BY <1>0, <3>2, <4>1 DEF Held, Moves, Same, OldFiles
    <3>5. CASE files[call[c].from] # {}
      <4>1. call'[c].pc = "target" /\ ("list" \in faults' \/ call'[c].todo = Listed(call[c].from))
        BY <1>5, <3>5, SourceForm
      <4>2. OldFiles(call[c], sure) \subseteq call'[c].todo
        BY <3>2, <4>1 DEF OldFiles, Listed
      <4> QED BY <1>0, <3>2, <3>3, <4>1, <4>2 DEF Held, Moves, Same
    <3> QED BY <3>4, <3>5
  <2> QED BY <1>0, <1>2, <1>5, <2>1, SourceForm, FilesFrame
<1>6. CASE Target(c)
  <2>1. ~overlapped => Held(call'[c], files, sure)
    <3>1. SUFFICES ASSUME ~overlapped PROVE Held(call'[c], files, sure)
      OBVIOUS
    <3>2. /\ call[c].pc = "target" /\ call[c].kind # "create"
          /\ OldFiles(call[c], sure) \subseteq files[call[c].from]
          /\ OldFiles(call[c], sure) \subseteq call[c].todo \cup files[call[c].dir]
          /\ call[c].kind = "remove" => call[c].manifest \cap call[c].path = {}
      BY <1>1, <1>6, <3>1, TargetForm DEF Held
    <3>3. OldFiles(call'[c], sure) = OldFiles(call[c], sure)
      BY <1>0 DEF OldFiles, Moves, Same
    <3>4. CASE call'[c].pc = "done"
      BY <3>4 DEF Held, Working
    <3>5. CASE call'[c].pc = "copy" /\ call'[c].todo = call[c].todo
      BY <1>0, <3>2, <3>3, <3>5 DEF Held, Moves, Same
    <3>6. CASE call[c].todo = {} /\ call'[c].pc = "apply" /\ call'[c].todo = call[c].path
      BY <1>0, <3>2, <3>6 DEF Held, Moves, Same, OldFiles
    <3> QED BY <1>6, <3>4, <3>5, <3>6, TargetForm
  <2> QED BY <1>0, <1>2, <1>6, <2>1, TargetForm, FilesFrame
<1>7. CASE Copy(c)
  <2>1. CASE call'[c].pc = "done" /\ UNCHANGED files
    <3>1. call'[c].pc \notin Working \cup {"undo", "rmdirs", "purge", "purgeDir"}
      BY <2>1 DEF Working
    <3> QED BY <1>0, <2>1, <3>1, AtRest, FilesFrame
  <2>2. CASE ~(call'[c].pc = "done" /\ UNCHANGED files)
    <3>1. PICK p \in call[c].todo :
            /\ \E set \in SUBSET Names :
                 /\ files' = [files EXCEPT ![call[c].dir] = set]
                 /\ files[call[c].dir] \cup ({p} \cap files[call[c].from]) \subseteq set
            /\ \/ /\ call[c].todo \ {p} = {}
                  /\ call'[c].pc = "apply" /\ call'[c].todo = call[c].path
               \/ call'[c].pc = "copy" /\ call'[c].todo = call[c].todo \ {p}
      BY <1>7, <2>2, CopyForm
    <3>2. /\ files[call[c].dir] \cup ({p} \cap files[call[c].from]) \subseteq files'[call[c].dir]
          /\ \A v \in Versions : v # call[c].dir => files'[v] = files[v]
      BY <1>3, <3>1
    <3>3. call[c].pc = "copy" /\ call[c].from \in Versions
      BY <1>7, CopyForm
    <3>4. ~overlapped => Held(call'[c], files', sure)
      <4>1. SUFFICES ASSUME ~overlapped PROVE Held(call'[c], files', sure)
        OBVIOUS
      <4>2. call[c].dir = HeadVersion + 1 /\ call[c].from = HeadVersion /\ call[c].from # call[c].dir
        BY <1>1, <1>3, <1>4, <3>3, <4>1
      <4>3. files'[call[c].from] = files[call[c].from]
        BY <3>2, <3>3, <4>2
      <4>4. /\ call[c].kind # "create" /\ OldFiles(call[c], sure) \subseteq files[call[c].from]
            /\ OldFiles(call[c], sure) \subseteq call[c].todo \cup files[call[c].dir]
            /\ call[c].kind = "remove" => call[c].manifest \cap call[c].path = {}
        BY <1>1, <3>3, <4>1 DEF Held
      <4>5. OldFiles(call[c], sure) \subseteq (call[c].todo \ {p}) \cup files'[call[c].dir]
        BY <3>2, <4>4
      <4>6. OldFiles(call'[c], sure) = OldFiles(call[c], sure)
        BY <1>0 DEF OldFiles, Moves, Same
      <4>7. CASE call'[c].pc = "copy" /\ call'[c].todo = call[c].todo \ {p}
        BY <1>0, <4>3, <4>4, <4>5, <4>6, <4>7 DEF Held, Moves, Same
      <4>8. CASE call[c].todo \ {p} = {} /\ call'[c].pc = "apply" /\ call'[c].todo = call[c].path
        <5>1. OldFiles(call[c], sure) \subseteq files'[call[c].dir]
          BY <4>5, <4>8
        <5> QED BY <1>0, <4>4, <4>8, <5>1 DEF Held, Moves, Same, OldFiles
      <4> QED BY <3>1, <4>7, <4>8
    <3>5. ~overlapped => call[c].dir = HeadVersion + 1
      BY <1>1
    <3>6. CASE ~overlapped
      BY <1>0, <1>1, <1>2, <3>2, <3>4, <3>5, <3>6, WriteFrame
    <3>7. CASE overlapped
      BY <1>0, <3>7 DEF FilesFor
    <3> QED BY <3>6, <3>7
  <2> QED BY <2>1, <2>2
<1>8. CASE Apply(c)
  <2>0. call[c].pc = "apply" /\ call[c].todo \subseteq Paths
    BY <1>8, ApplyForm
  <2>1. CASE UNCHANGED files /\ call[c].todo = {} /\ call'[c].pc = "store"
    <3>1. ~overlapped => Held(call'[c], files, sure)
      BY <1>0, <1>1, <2>0, <2>1 DEF Held, Moves, Same, Working
    <3> QED BY <1>0, <1>2, <2>1, <3>1, FilesFrame
  <2>2. CASE UNCHANGED files /\ call'[c].pc = "undo"
    <3>1. Held(call'[c], files, sure)
      BY <2>2 DEF Held, Working
    <3> QED BY <1>0, <1>2, <2>2, <3>1, FilesFrame
  <2>3. ASSUME NEW p \in call[c].todo, call'[c].pc = "apply", call'[c].todo = call[c].todo \ {p},
               \E set \in SUBSET Names :
                 /\ files' = [files EXCEPT ![call[c].dir] = set]
                 /\ IF call[c].kind = "remove" THEN set = files[call[c].dir] \ {p}
                    ELSE files[call[c].dir] \cup {p} \subseteq set
        PROVE  FilesFor(sure)'
    <3>1. /\ IF call[c].kind = "remove" THEN files'[call[c].dir] = files[call[c].dir] \ {p}
             ELSE files[call[c].dir] \cup {p} \subseteq files'[call[c].dir]
          /\ \A v \in Versions : v # call[c].dir => files'[v] = files[v]
      BY <1>3, <2>3
    <3>2. ~overlapped => Held(call'[c], files', sure)
      <4>1. SUFFICES ASSUME ~overlapped PROVE Held(call'[c], files', sure)
        OBVIOUS
      <4>2. /\ IF call[c].kind = "remove" THEN /\ call[c].manifest \cap sure \subseteq files[call[c].dir]
                                               /\ call[c].manifest \cap call[c].todo = {}
               ELSE call[c].manifest \cap sure \subseteq files[call[c].dir] \cup call[c].todo
            /\ call[c].kind = "remove" => call[c].manifest \cap call[c].path = {}
        BY <1>1, <2>0, <4>1 DEF Held
      <4>3. IF call[c].kind = "remove" THEN /\ call[c].manifest \cap sure \subseteq files'[call[c].dir]
                                            /\ call[c].manifest \cap (call[c].todo \ {p}) = {}
            ELSE call[c].manifest \cap sure \subseteq files'[call[c].dir] \cup (call[c].todo \ {p})
        BY <2>3, <3>1, <4>2
      <4> QED BY <1>0, <2>3, <4>2, <4>3 DEF Held, Moves, Same
    <3>3. CASE ~overlapped
      BY <1>0, <1>1, <1>2, <3>1, <3>2, <3>3, WriteFrame
    <3>4. CASE overlapped
      BY <1>0, <3>4 DEF FilesFor
    <3> QED BY <3>3, <3>4
  <2> QED BY <1>8, <2>1, <2>2, <2>3, ApplyForm
<1> QED BY <1>5, <1>6, <1>7, <1>8

\* The reading of the head, the transaction and the steps after it that leave
\* table and files alone.
LEMMA RestFiles ==
  ASSUME SerialInv, TypeInv, NEW sure, FilesFor(sure), NEW c \in Calls,
         Store(c) \/ Asset(c) \/ List(c) \/ Expire(c) \/ (Insert(c) /\ Conflict(call[c].seen))
  PROVE  FilesFor(sure)'
<1>0. /\ UNCHANGED <<rows, files, overlapped>> /\ call' = [call EXCEPT ![c] = call'[c]]
      /\ IsCall(call[c]) /\ call = [d \in Calls |-> call[d]]
      /\ call \in [Calls -> CallRec] /\ HeadVersion \in Nat
  <2>1. UNCHANGED rows /\ call' = [call EXCEPT ![c] = call'[c]]
    BY QuietForm DEF Quietly, SerialInv
  <2>2. UNCHANGED <<files, overlapped>>
    BY DEF Store, Asset, List, Expire, Insert
  <2> QED BY <2>1, <2>2, HeadIsNat DEF SerialInv, HeadInv, Shape, TypeInv
<1>1. CASE Store(c)
  <2>1. /\ Same(call'[c], call[c]) /\ call'[c].pc = "insert"
        /\ call'[c].base = call[c].base /\ call'[c].dir = call[c].dir
        /\ call'[c].manifest = call[c].manifest
    BY <1>0, <1>1, StoreForm
  <2>2. call[c].pc = "store"
    BY <1>1 DEF Store, At
  <2>3. ~overlapped => Placed(call[c], rows, HeadVersion) /\ Held(call[c], files, sure)
    BY DEF FilesFor
  <2>4. ~overlapped => Placed(call'[c], rows, HeadVersion)
    BY <2>1, <2>2, <2>3 DEF Placed, Same, Working
  <2>5. ~overlapped => Held(call'[c], files, sure)
    BY <2>1, <2>2, <2>3 DEF Held, Same, Working
  <2> QED BY <1>0, <2>4, <2>5, FilesFrame
<1>2. CASE Asset(c) \/ List(c)
  <2>1. call'[c].pc \in {"done", "list", "delete"}
    <3>1. CASE Asset(c)
      BY <1>0, <3>1 DEF Asset, Go, IsCall
    <3>2. CASE List(c)
      BY <1>0, <3>2 DEF List, IsCall
    <3> QED BY <1>2, <3>1, <3>2
  <2>2. call'[c].pc \notin Working \cup {"undo", "rmdirs", "purge", "purgeDir"}
    BY <2>1 DEF Working
  <2> QED BY <1>0, <2>2, AtRest, FilesFrame
<1>3. CASE Expire(c)
  <2>1. \E to \in {"done", "purge"} : \E left \in SUBSET (rows \ Heads) :
          call' = [call EXCEPT ![c].pc = to, ![c].todo = left]
    <3>1. PICK age \in 0..MaxVersion :
            LET victims == {r \in rows \ Heads : r.version <= age /\ r.version \notin Protected}
            IN call' = [call EXCEPT ![c].pc = IF Heads = {} \/ victims = {} THEN "done" ELSE "purge",
                                    ![c].todo = victims]
      BY <1>3 DEF Expire
    <3> DEFINE victims == {r \in rows \ Heads : r.version <= age /\ r.version \notin Protected}
               to == IF Heads = {} \/ victims = {} THEN "done" ELSE "purge"
    <3>2. victims \in SUBSET (rows \ Heads) /\ to \in {"done", "purge"}
      OBVIOUS
    <3>3. call' = [call EXCEPT ![c].pc = to, ![c].todo = victims]
      BY <3>1
    <3> HIDE DEF victims, to
    <3> QED BY <3>2, <3>3
  <2>2. PICK to \in {"done", "purge"}, left \in SUBSET (rows \ Heads) :
          call' = [call EXCEPT ![c].pc = to, ![c].todo = left]
    BY <2>1
  <2>3. call'[c] = [call[c] EXCEPT !.pc = to, !.todo = left]
    BY <1>0, <2>2
  <2>4. call'[c].pc = to /\ call'[c].todo = left
    BY <1>0, <2>3 DEF IsCall
  <2>5. ~overlapped => \A r \in left : r.dir = r.version /\ r.version < HeadVersion
    <3>1. SUFFICES ASSUME ~overlapped, NEW r \in left
                   PROVE  r.dir = r.version /\ r.version < HeadVersion
      OBVIOUS
    <3>2. r \in rows /\ ~r.isHead
      BY <3>1 DEF Heads
    <3>3. r.version \in Nat /\ r.version <= HeadVersion /\ r.version # HeadVersion
      BY <3>2, VersionsUpToHead DEF SerialInv
    <3> QED BY <1>0, <3>1, <3>2, <3>3 DEF FilesFor, Stored
  <2>6. ~overlapped => Placed(call'[c], rows, HeadVersion)
    BY <2>2, <2>4, <2>5 DEF Placed, Working
  <2>7. Held(call'[c], files, sure)
    BY <2>2, <2>4 DEF Held, Working
  <2> QED BY <1>0, <2>6, <2>7, FilesFrame
<1>4. CASE Insert(c) /\ Conflict(call[c].seen)
  <2>1. call[c].pc = "insert" /\ Go(c, "undo")
    BY <1>4 DEF Insert, At
  <2>2. call'[c].pc = "undo" /\ Moves(call'[c], call[c])
    BY <1>0, <2>1, GoForm, LabelTypes DEF InCall
  <2>3. ~overlapped => Placed(call[c], rows, HeadVersion)
    BY DEF FilesFor
  <2>4. ~overlapped => Placed(call'[c], rows, HeadVersion)
    BY <2>1, <2>2, <2>3 DEF Placed, Working, Moves
  <2>5. Held(call'[c], files, sure)
    BY <2>2 DEF Held, Working
  <2> QED BY <1>0, <2>4, <2>5, FilesFrame
<1> QED BY <1>1, <1>2, <1>3, <1>4

\* The transaction: the files of the new row are in its directory.
LEMMA InsertFiles ==
  ASSUME SerialInv, SerialInv', TypeInv, NEW sure, FilesFor(sure), NEW c \in Calls, Insert(c), ~Conflict(call[c].seen)
  PROVE  FilesFor(sure)'
<1>0. SUFFICES ASSUME ~overlapped'
               PROVE  /\ Stored(rows', files', sure)
                      /\ \A d \in Calls : Placed(call'[d], rows', HeadVersion') /\ Held(call'[d], files', sure)
  BY DEF FilesFor
<1> DEFINE s == call[c].seen
           new == NewRow(c)
<1>1. /\ ~overlapped /\ UNCHANGED files /\ call[c].pc = "insert"
      /\ rows' = {Unset(r, s) : r \in rows} \cup {new}
      /\ call \in [Calls -> CallRec] /\ HeadVersion \in Nat
  BY <1>0, InsertRows, HeadIsNat DEF Insert, At, SerialInv, TypeInv
<1>2. PICK to \in {"asset", "expire"} : Go(c, to)
  BY DEF Insert
<1>3. call' = [call EXCEPT ![c] = call'[c]] /\ call'[c].pc = to
  BY <1>1, <1>2, GoForm, LabelTypes DEF InCall, InCleanUp
<1>4. s = HeadVersion
  BY <1>1 DEF SerialInv, Based, At
<1>5. /\ Placed(call[c], rows, HeadVersion) /\ Held(call[c], files, sure)
      /\ call[c].dir = HeadVersion + 1 /\ call[c].manifest \cap sure \subseteq files[call[c].dir]
  BY <1>1 DEF FilesFor, Placed, Held, Working
<1>6. Stored(rows', files', sure)
  <2>1. ASSUME NEW r \in rows
        PROVE  LET q == Unset(r, s) IN q.dir = q.version /\ q.manifest \cap sure \subseteq files[q.version]
    <3>1. IsRow(r) /\ RowUpTo(r, Number)
      BY DEF SerialInv, HeadInv, Shape, TypeInv
    <3>2. /\ Unset(r, s).version = r.version /\ Unset(r, s).dir = r.dir
          /\ Unset(r, s).manifest = r.manifest
      BY <3>1, UnsetRow, UnsetTypes
    <3> QED BY <1>1, <3>2 DEF FilesFor, Stored
  <2>2. new.dir = new.version /\ new.manifest \cap sure \subseteq files[new.version]
    BY <1>4, <1>5 DEF NewRow
  <2> QED BY <1>1, <2>1, <2>2 DEF Stored
<1>7. HeadVersion' = HeadVersion + 1
  <2>1. new \in rows' /\ new.isHead /\ new.version = HeadVersion + 1
    BY <1>1, <1>4 DEF NewRow
  <2>2. \E h \in rows' : h.isHead /\ h.version = HeadVersion' /\ \A r \in rows' \ {h} : ~r.isHead
    <3>1. PICK h \in rows' : Heads' = {h}
      BY <2>1 DEF SerialInv, HeadInv, OneHead
    <3>2. HeadVersion' = h.version
      BY <3>1 DEF HeadVersion
    <3> QED BY <3>1, <3>2 DEF Heads
  <2> QED BY <2>1, <2>2
<1>8. ASSUME NEW d \in Calls
      PROVE  Placed(call'[d], rows', HeadVersion') /\ Held(call'[d], files', sure)
  <2>1. CASE d = c
    <3>1. call'[d].pc \notin Working \cup {"undo", "rmdirs", "purge", "purgeDir"}
      BY <1>3, <2>1 DEF Working
    <3> QED BY <3>1, AtRest
  <2>2. CASE d # c
    <3>1. call'[d] = call[d] /\ ~Busy(d)
      BY <1>1, <1>3, <2>2 DEF SerialInv, OneBusy, Busy, InCall, At
    <3>2. call[d].pc \notin Working \cup {"undo", "rmdirs"}
      BY <3>1 DEF Working, Busy, At, InCall
    <3>3. Held(call'[d], files', sure)
      BY <3>1, <3>2 DEF Held, Working
    <3>4. CASE call[d].pc \notin {"purge", "purgeDir"}
      <4>1. call'[d].pc \notin Working \cup {"undo", "rmdirs", "purge", "purgeDir"}
        BY <3>1, <3>2, <3>4
      <4> QED BY <4>1, AtRest
    <3>5. CASE call[d].pc \in {"purge", "purgeDir"}
      <4>1. rows # {}
        <5>1. SUFFICES ASSUME rows = {} PROVE FALSE
          OBVIOUS
        <5>2. call[c].kind = "create"
          BY <1>1, <1>5, <5>1 DEF Placed, Working
        <5>3. At(c, Creating)
          BY <1>1 DEF At, Creating, Working
        <5>4. At(d, {"new"})
          BY <2>2, <5>2, <5>3 DEF SerialInv, CreateAlone
        <5>5. call[d].pc = "new"
          BY <5>4 DEF At
        <5> QED BY <3>5, <5>5
      <4>2. Placed(call[d], rows, HeadVersion) /\ call[d] \in CallRec /\ CallUpTo(call[d], Number)
        BY <1>1 DEF FilesFor, TypeInv
      <4>3. \A r \in call[d].todo : r.dir = r.version /\ r.version < HeadVersion'
        <5>1. \A r \in call[d].todo : r.dir = r.version /\ r.version < HeadVersion /\ r.version \in Nat
          BY <3>5, <4>1, <4>2 DEF Placed, CallUpTo, RowUpTo, RowRec
        <5> QED BY <1>1, <1>7, <5>1
      <4>4. CASE call[d].pc = "purge"
        <5>1. /\ call'[d].pc = "purge" /\ call'[d].todo = call[d].todo
          BY <3>1, <4>4
        <5>2. \A r \in call'[d].todo : r.dir = r.version /\ r.version < HeadVersion'
          BY <4>3, <5>1
        <5>3. Placed(call'[d], rows', HeadVersion')
          BY <5>1, <5>2 DEF Placed, Working
        <5> QED BY <3>3, <5>3
      <4>5. CASE call[d].pc = "purgeDir"
        <5>1. /\ call[d].dir < HeadVersion /\ call[d].dir \in Nat
              /\ \A r \in rows : r.version # call[d].dir
          BY <4>1, <4>2, <4>5 DEF Placed, CallRec
        <5>2. \A r \in rows' : r.version # call[d].dir
          <6>1. new.version # call[d].dir
            BY <1>1, <1>4, <5>1 DEF NewRow
          <6>2. \A r \in rows : Unset(r, s).version = r.version
            BY UnsetRow DEF SerialInv, HeadInv, Shape
          <6> QED BY <1>1, <5>1, <6>1, <6>2
        <5>3. call[d].dir < HeadVersion'
          BY <1>1, <1>7, <5>1
        <5>4. /\ call'[d].pc = "purgeDir" /\ call'[d].todo = call[d].todo
              /\ call'[d].dir = call[d].dir
          BY <3>1, <4>5
        <5>5. \A r \in call'[d].todo : r.dir = r.version /\ r.version < HeadVersion'
          BY <4>3, <5>4
        <5>6. call'[d].dir < HeadVersion' /\ \A r \in rows' : r.version # call'[d].dir
          BY <5>2, <5>3, <5>4
        <5>7. Placed(call'[d], rows', HeadVersion')
          BY <5>4, <5>5, <5>6 DEF Placed, Working
        <5> QED BY <3>3, <5>7
      <4> QED BY <3>5, <4>4, <4>5
    <3> QED BY <3>3, <3>4, <3>5
  <2> QED BY <2>1, <2>2
<1> QED BY <1>6, <1>8

\* What the removal of directories does, after a failed call, after the rows
\* of a skill and after a row that has expired.
LEMMA RemovalForm ==
  ASSUME TypeInv, NEW c \in Calls, Undo(c) \/ RemoveDirs(c) \/ PurgeDir(c)
  PROVE  /\ call' = [call EXCEPT ![c] = call'[c]] /\ Moves(call'[c], call[c])
         /\ call'[c].todo \subseteq call[c].todo
         /\ UNCHANGED <<rows, overlapped>>
         /\ \/ call[c].pc = "undo" /\ call'[c].pc = "done"
            \/ call[c].pc = "rmdirs" /\ call'[c].pc \in {"undo", "done", "rmdirs"}
            \/ call[c].pc = "purgeDir" /\ call'[c].pc = "purge"
         /\ \/ UNCHANGED files
            \/ \E d : /\ \A v \in Versions : files'[v] = IF v = d THEN {} ELSE files[v]
                      /\ call[c].pc # "rmdirs" => d = call[c].dir
<1>0. call \in [Calls -> CallRec] /\ files \in [Versions -> SUBSET Names] /\ call[c] \in CallRec
  BY DEF TypeInv
<1>1. CASE Undo(c) \/ PurgeDir(c)
  <2>1. /\ call[c].pc \in {"undo", "purgeDir"} /\ UNCHANGED <<rows, overlapped>>
        /\ \/ call[c].pc = "undo" /\ Go(c, "done")
           \/ call[c].pc = "purgeDir" /\ Go(c, "purge")
        /\ files' = [files EXCEPT ![call[c].dir] = {}] \/ UNCHANGED files
    BY <1>1 DEF Undo, PurgeDir, At
  <2>2. /\ call' = [call EXCEPT ![c] = call'[c]] /\ Moves(call'[c], call[c])
        /\ call'[c].todo = call[c].todo
        /\ \/ call[c].pc = "undo" /\ call'[c].pc = "done"
           \/ call[c].pc = "purgeDir" /\ call'[c].pc = "purge"
    BY <1>0, <2>1, GoForm, LabelTypes DEF InCleanUp
  <2>3. \/ UNCHANGED files
        \/ \A v \in Versions : files'[v] = IF v = call[c].dir THEN {} ELSE files[v]
    BY <1>0, <2>1
  <2> QED BY <2>1, <2>2, <2>3
<1>2. CASE RemoveDirs(c)
  <2>1. call[c].pc = "rmdirs" /\ UNCHANGED <<rows, overlapped>>
    BY <1>2 DEF RemoveDirs, At
  <2>2. CASE Go(c, Leave(c)) /\ UNCHANGED files
    <3>1. /\ call' = [call EXCEPT ![c] = call'[c]] /\ call'[c].pc = Leave(c)
          /\ Moves(call'[c], call[c]) /\ call'[c].todo = call[c].todo
      BY <1>0, <2>2, GoForm, LeaveLabel
    <3> QED BY <2>1, <2>2, <3>1, LeaveLabel
  <2>3. ASSUME NEW d \in call[c].todo, call' = [call EXCEPT ![c].todo = @ \ {d}],
               files' = [files EXCEPT ![d] = {}] \/ UNCHANGED files
        PROVE  /\ call' = [call EXCEPT ![c] = call'[c]] /\ Moves(call'[c], call[c])
               /\ call'[c].todo \subseteq call[c].todo /\ call'[c].pc = "rmdirs"
               /\ \/ UNCHANGED files
                  \/ \A v \in Versions : files'[v] = IF v = d THEN {} ELSE files[v]
    <3> DEFINE left == call[c].todo \ {d}
    <3>1. call' = [call EXCEPT ![c].todo = left] /\ left \in Things
      BY <1>0, <2>3 DEF Things, CallRec
    <3>2. left \subseteq call[c].todo /\ "rmdirs" \in Labels
      BY LabelTypes DEF InCall
    <3> HIDE DEF left
    <3>3. /\ call' = [call EXCEPT ![c] = call'[c]] /\ Moves(call'[c], call[c])
          /\ call'[c].pc = "rmdirs" /\ call'[c].todo = left
      BY <1>0, <2>1, <3>1, <3>2, TodoForm
    <3>4. \/ UNCHANGED files
          \/ \A v \in Versions : files'[v] = IF v = d THEN {} ELSE files[v]
      BY <1>0, <2>3
    <3> QED BY <3>2, <3>3, <3>4
  <2>4. \/ Go(c, Leave(c)) /\ UNCHANGED files
        \/ \E d \in call[c].todo : /\ call' = [call EXCEPT ![c].todo = @ \ {d}]
                                   /\ files' = [files EXCEPT ![d] = {}] \/ UNCHANGED files
    BY <1>2 DEF RemoveDirs
  <2>5. CASE \E d \in call[c].todo : /\ call' = [call EXCEPT ![c].todo = @ \ {d}]
                                     /\ files' = [files EXCEPT ![d] = {}] \/ UNCHANGED files
    <3>1. PICK d \in call[c].todo : /\ call' = [call EXCEPT ![c].todo = @ \ {d}]
                                    /\ files' = [files EXCEPT ![d] = {}] \/ UNCHANGED files
      BY <2>5
    <3>2. /\ call' = [call EXCEPT ![c] = call'[c]] /\ Moves(call'[c], call[c])
          /\ call'[c].todo \subseteq call[c].todo /\ call'[c].pc = "rmdirs"
          /\ \/ UNCHANGED files
             \/ \A v \in Versions : files'[v] = IF v = d THEN {} ELSE files[v]
      BY <2>3, <3>1
    <3> QED BY <2>1, <3>2
  <2> QED BY <2>2, <2>4, <2>5
<1> QED BY <1>1, <1>2

\* What is taken back or deleted is under no row.
LEMMA RemovalFiles ==
  ASSUME SerialInv, TypeInv, NEW sure, FilesFor(sure), NEW c \in Calls, Undo(c) \/ RemoveDirs(c)
  PROVE  FilesFor(sure)'
<1>1. /\ call' = [call EXCEPT ![c] = call'[c]] /\ Moves(call'[c], call[c])
      /\ UNCHANGED <<rows, overlapped>>
      /\ \/ call[c].pc = "undo" /\ call'[c].pc = "done"
         \/ call[c].pc = "rmdirs" /\ call'[c].pc \in {"undo", "done", "rmdirs"}
  <2>1. call[c].pc # "purgeDir"
    BY DEF Undo, RemoveDirs, At
  <2> QED BY <2>1, RemovalForm
<1>2. \/ UNCHANGED files
      \/ \E d : /\ \A v \in Versions : files'[v] = IF v = d THEN {} ELSE files[v]
                /\ call[c].pc # "rmdirs" => d = call[c].dir
  BY RemovalForm
<1>3. ~overlapped => Placed(call[c], rows, HeadVersion)
  BY DEF FilesFor
<1>4. ~overlapped => Placed(call'[c], rows, HeadVersion)
  BY <1>1, <1>3 DEF Placed, Working
<1>5. \A dirs : Held(call'[c], dirs, sure)
  BY <1>1 DEF Held, Working
<1>6. CASE UNCHANGED files
  BY <1>1, <1>4, <1>5, <1>6, FilesFrame
<1>7. CASE overlapped
  BY <1>1, <1>7 DEF FilesFor
<1>8. ASSUME ~overlapped, NEW d, \A v \in Versions : files'[v] = IF v = d THEN {} ELSE files[v],
             call[c].pc # "rmdirs" => d = call[c].dir
      PROVE  FilesFor(sure)'
  <2>1. Busy(c)
    BY <1>1 DEF Busy, At, InCall
  <2>2. d = HeadVersion + 1 \/ rows = {}
    BY <1>1, <1>3, <1>8 DEF Placed
  <2>3. \A v \in Versions : v # d => files'[v] = files[v]
    BY <1>8
  <2> QED BY <1>1, <1>4, <1>5, <2>1, <2>2, <2>3, WriteFrame
<1> QED BY <1>2, <1>6, <1>7, <1>8

\* The directory of an expired row: another call neither reads it nor writes it.
LEMMA PurgeDirFiles ==
  ASSUME SerialInv, TypeInv, NEW sure, FilesFor(sure), NEW c \in Calls, PurgeDir(c)
  PROVE  FilesFor(sure)'
<1>0. /\ call[c].pc = "purgeDir" /\ call'[c].pc = "purge"
      /\ call' = [call EXCEPT ![c] = call'[c]] /\ Moves(call'[c], call[c])
      /\ call'[c].todo \subseteq call[c].todo /\ UNCHANGED <<rows, overlapped>>
      /\ \/ UNCHANGED files
         \/ \A v \in Versions : files'[v] = IF v = call[c].dir THEN {} ELSE files[v]
  <2>1. call[c].pc = "purgeDir"
    BY DEF PurgeDir, At
  <2> QED BY <2>1, RemovalForm
<1>1. SUFFICES ASSUME ~overlapped'
               PROVE  /\ Stored(rows', files', sure)
                      /\ \A e \in Calls : Placed(call'[e], rows', HeadVersion') /\ Held(call'[e], files', sure)
  BY DEF FilesFor
<1>2. /\ UNCHANGED <<rows, HeadVersion>> /\ ~overlapped
      /\ \A e \in Calls : call'[e] = IF e = c THEN call'[c] ELSE call[e]
  BY <1>0, <1>1 DEF TypeInv, HeadVersion, Heads
<1>3. /\ Placed(call[c], rows, HeadVersion) /\ call[c] \in CallRec /\ HeadVersion \in Nat
      /\ \A v \in Versions : v # call[c].dir => files'[v] = files[v]
  BY <1>0, <1>2, HeadIsNat DEF FilesFor, TypeInv, SerialInv
<1>4. /\ \A r \in call[c].todo : r.dir = r.version /\ (rows = {} \/ r.version < HeadVersion)
      /\ rows = {} \/ (call[c].dir < HeadVersion /\ \A r \in rows : r.version # call[c].dir)
  BY <1>0, <1>3 DEF Placed
<1>5. Stored(rows', files', sure)
  <2>1. SUFFICES ASSUME NEW r \in rows
                 PROVE  r.dir = r.version /\ r.manifest \cap sure \subseteq files'[r.version]
    BY <1>2 DEF Stored
  <2>2. r.version \in Versions
    BY NumberType, VersionsAssumption DEF TypeInv, RowUpTo, Versions
  <2>3. files'[r.version] = files[r.version]
    BY <1>3, <1>4, <2>1, <2>2
  <2> QED BY <1>2, <2>3 DEF FilesFor, Stored
<1>6. ASSUME NEW e \in Calls
      PROVE  Placed(call'[e], rows', HeadVersion') /\ Held(call'[e], files', sure)
  <2>1. CASE e = c
    <3>1. Placed(call'[c], rows, HeadVersion)
      BY <1>0, <1>4 DEF Placed, Working
    <3>2. Held(call'[c], files', sure)
      BY <1>0 DEF Held, Working
    <3> QED BY <1>2, <2>1, <3>1, <3>2
  <2>2. CASE e # c
    <3>1. call'[e] = call[e] /\ Placed(call[e], rows, HeadVersion) /\ Held(call[e], files, sure)
      BY <1>2, <2>2 DEF FilesFor
    <3>2. CASE call[e].pc \notin Working
      <4>1. Held(call[e], files', sure)
        BY <3>2 DEF Held, Working
      <4> QED BY <1>2, <3>1, <4>1
    <3>3. CASE call[e].pc \in Working
      <4>1. rows # {}
        <5>1. SUFFICES ASSUME rows = {} PROVE FALSE
          OBVIOUS
        <5>2. call[e].kind = "create" /\ At(e, Creating)
          BY <3>1, <3>3, <5>1 DEF Placed, At, Creating
        <5>3. At(c, {"new"})
          BY <2>2, <5>2 DEF SerialInv, CreateAlone
        <5> QED BY <1>0, <5>3 DEF At
      <4>2. /\ call[e].dir = HeadVersion + 1
            /\ call[e].pc \in {"source", "target", "copy"} => call[e].from = HeadVersion
            /\ call[c].dir < HeadVersion /\ call[c].dir \in Nat
        <5>1. call[e].pc \in {"source", "target", "copy"} => call[e].from = HeadVersion
          BY <3>1 DEF Placed
        <5>2. call[e].dir = HeadVersion + 1
          BY <3>1, <3>3 DEF Placed
        <5>3. call[c].dir \in Nat
          BY <1>3 DEF CallRec
        <5> QED BY <1>4, <4>1, <5>1, <5>2, <5>3
      <4>3. /\ call[e].dir # call[c].dir
            /\ call[e].pc \in {"source", "target", "copy"} => call[e].from # call[c].dir
        BY <1>3, <4>2
      <4>4. call[e].dir \in Versions /\ (call[e].pc \in {"source", "target", "copy"} => call[e].from \in Versions)
        BY <3>3, PlacesType
      <4>5. files'[call[e].dir] = files[call[e].dir]
        BY <1>3, <4>3, <4>4
      <4>6. call[e].pc \in {"source", "target", "copy"} => files'[call[e].from] = files[call[e].from]
        BY <1>3, <4>3, <4>4
      <4>7. Held(call[e], files', sure)
        BY <3>1, <4>5, <4>6 DEF Held
      <4> QED BY <1>2, <3>1, <4>7
    <3> QED BY <3>2, <3>3
  <2> QED BY <2>1, <2>2
<1> QED BY <1>5, <1>6

\* The deletion of the rows leaves their files for the removal after it.
LEMMA DeleteFiles ==
  ASSUME SerialInv, TypeInv, NEW sure, FilesFor(sure), NEW c \in Calls, DeleteRows(c)
  PROVE  FilesFor(sure)'
<1>0. /\ rows' = {} /\ call'[c].pc \in {"rmdirs", "undo", "done"}
      /\ call' = [call EXCEPT ![c] = call'[c]]
      /\ call[c].pc = "delete" /\ UNCHANGED <<files, overlapped>>
  BY DeleteForm DEF DeleteRows, SerialInv, At
<1>1. SUFFICES ASSUME ~overlapped'
               PROVE  /\ Stored(rows', files', sure)
                      /\ \A e \in Calls : Placed(call'[e], rows', HeadVersion') /\ Held(call'[e], files', sure)
  BY DEF FilesFor
<1>2. ~overlapped /\ \A e \in Calls : call'[e] = IF e = c THEN call'[c] ELSE call[e]
  BY <1>0, <1>1 DEF TypeInv
<1>3. Stored(rows', files', sure)
  BY <1>0 DEF Stored
<1>4. ASSUME NEW e \in Calls
      PROVE  Placed(call'[e], rows', HeadVersion') /\ Held(call'[e], files', sure)
  <2>1. CASE e = c
    <3>1. Placed(call'[c], {}, HeadVersion') /\ Held(call'[c], files', sure)
      BY <1>0 DEF Placed, Held, Working
    <3> QED BY <1>0, <2>1, <3>1
  <2>2. CASE e # c
    <3>1. call'[e] = call[e] /\ ~Busy(e) /\ Placed(call[e], rows, HeadVersion)
      BY <1>0, <1>2, <2>2 DEF SerialInv, OneBusy, Busy, At, InCall, FilesFor
    <3>2. call[e].pc \notin Working
      BY <3>1 DEF Busy, At, InCall, Working
    <3>3. Held(call[e], files', sure)
      BY <3>2 DEF Held, Working
    <3>4. Placed(call[e], {}, HeadVersion')
      BY <3>1, <3>2 DEF Placed, Working
    <3> QED BY <1>0, <3>1, <3>3, <3>4
  <2> QED BY <2>1, <2>2
<1> QED BY <1>3, <1>4

\* A row goes before its files.
LEMMA PurgeFiles ==
  ASSUME SerialInv, TypeInv, NEW sure, FilesFor(sure), NEW c \in Calls, Purge(c)
  PROVE  FilesFor(sure)'
<1>0. /\ call[c].pc = "purge" /\ UNCHANGED <<files, overlapped>>
      /\ call' = [call EXCEPT ![c] = call'[c]]
      /\ call'[c].pc \in {"done", "purge", "purgeDir"} /\ call'[c].todo \subseteq call[c].todo
  BY PurgeSteps
<1>1. PICK gone \in SUBSET rows :
        /\ rows' = rows \ gone
        /\ \/ call'[c].pc = "done"
           \/ \E v \in call[c].todo :
                /\ call'[c].dir = v.dir
                /\ gone = {r \in rows : r.version = v.version /\ ~r.isHead}
  BY PurgeSteps
<1>2. SUFFICES ASSUME ~overlapped'
               PROVE  /\ Stored(rows', files', sure)
                      /\ \A e \in Calls : Placed(call'[e], rows', HeadVersion') /\ Held(call'[e], files', sure)
  BY DEF FilesFor
<1>3. /\ ~overlapped /\ UNCHANGED HeadVersion /\ HeadVersion \in Nat
      /\ \A e \in Calls : call'[e] = IF e = c THEN call'[c] ELSE call[e]
      /\ \A r \in rows' : r \in rows
  <2>1. Heads' = Heads
    BY PurgeKeepsHead DEF SerialInv
  <2>2. UNCHANGED HeadVersion
    BY <2>1 DEF HeadVersion
  <2> QED BY <1>0, <1>1, <1>2, <2>2, HeadIsNat DEF SerialInv, TypeInv
<1>4. rows' = {} => rows = {}
  <2>1. SUFFICES ASSUME rows # {} PROVE rows' # {}
    OBVIOUS
  <2>2. PICK h \in rows : h.isHead
    BY <2>1, HeadOf DEF SerialInv
  <2>3. h \in Heads /\ Heads' = Heads
    BY <2>2, PurgeKeepsHead DEF Heads, SerialInv
  <2>4. h \in rows'
    BY <2>3 DEF Heads
  <2> QED BY <2>4
<1>5. rows = {} => rows' = {}
  BY <1>1
<1>6. Stored(rows', files', sure)
  BY <1>0, <1>3 DEF FilesFor, Stored
<1>7. ASSUME NEW e \in Calls
      PROVE  Placed(call'[e], rows', HeadVersion') /\ Held(call'[e], files', sure)
  <2>1. CASE e = c
    <3>1. /\ \A r \in call[c].todo : r.dir = r.version /\ (rows = {} \/ r.version < HeadVersion)
      BY <1>0, <1>3 DEF FilesFor, Placed
    <3>2. \A r \in call'[c].todo : r.dir = r.version /\ (rows' = {} \/ r.version < HeadVersion)
      BY <1>0, <1>5, <3>1
    <3>3. call'[c].pc = "purgeDir" =>
            rows' = {} \/ (call'[c].dir < HeadVersion /\ \A r \in rows' : r.version # call'[c].dir)
      <4>1. SUFFICES ASSUME call'[c].pc = "purgeDir", rows' # {}
                     PROVE  call'[c].dir < HeadVersion /\ \A r \in rows' : r.version # call'[c].dir
        OBVIOUS
      <4>2. PICK v \in call[c].todo :
              /\ call'[c].dir = v.dir
              /\ gone = {r \in rows : r.version = v.version /\ ~r.isHead}
        BY <1>1, <4>1
      <4>3. v.dir = v.version /\ v.version < HeadVersion
        BY <1>5, <3>1, <4>1
      <4>4. ASSUME NEW r \in rows', r.version = v.version PROVE FALSE
        <5>1. r \in rows /\ r.isHead
          BY <1>1, <4>2, <4>4
        <5>2. r.version = HeadVersion
          BY <5>1, VersionsUpToHead DEF SerialInv
        <5> QED BY <1>3, <4>3, <4>4, <5>2
      <4> QED BY <4>2, <4>3, <4>4
    <3>4. Placed(call'[c], rows', HeadVersion)
      BY <1>0, <3>2, <3>3 DEF Placed, Working
    <3>5. Held(call'[c], files', sure)
      BY <1>0 DEF Held, Working
    <3> QED BY <1>3, <2>1, <3>4, <3>5
  <2>2. CASE e # c
    <3>1. call'[e] = call[e] /\ Placed(call[e], rows, HeadVersion) /\ Held(call[e], files, sure)
      BY <1>3, <2>2 DEF FilesFor
    <3>2. Placed(call[e], rows', HeadVersion)
      BY <1>3, <1>4, <1>5, <3>1 DEF Placed
    <3> QED BY <1>0, <1>3, <3>1, <3>2
  <2> QED BY <2>1, <2>2
<1> QED BY <1>6, <1>7

\* A crash takes nothing from the table or from the store.
LEMMA CrashFiles ==
  ASSUME SerialInv, NEW sure, FilesFor(sure), Crash
  PROVE  FilesFor(sure)'
<1>1. /\ UNCHANGED <<rows, files, overlapped, HeadVersion>>
      /\ \A c \in Calls :
           IF At(c, InCall \cup InCleanUp) THEN At(c, {"done"})' ELSE call'[c] = call[c]
  <2>1. UNCHANGED <<rows, overlapped>> /\ UNCHANGED files
    BY CrashForm DEF SerialInv, Crash
  <2> QED BY <2>1, CrashForm DEF SerialInv, HeadVersion, Heads
<1>2. SUFFICES ASSUME ~overlapped'
               PROVE  /\ Stored(rows', files', sure)
                      /\ \A e \in Calls : Placed(call'[e], rows', HeadVersion') /\ Held(call'[e], files', sure)
  BY DEF FilesFor
<1>3. Stored(rows', files', sure)
  BY <1>1, <1>2 DEF FilesFor, Stored
<1>4. ASSUME NEW e \in Calls
      PROVE  Placed(call'[e], rows', HeadVersion') /\ Held(call'[e], files', sure)
  <2>1. CASE At(e, InCall \cup InCleanUp)
    <3>1. call'[e].pc \notin Working \cup {"undo", "rmdirs", "purge", "purgeDir"}
      BY <1>1, <2>1 DEF At, Working
    <3> QED BY <3>1, AtRest
  <2>2. CASE ~At(e, InCall \cup InCleanUp)
    <3>1. call'[e] = call[e] /\ rows' = rows /\ files' = files /\ HeadVersion' = HeadVersion
      BY <1>1, <2>2
    <3>2. Placed(call[e], rows, HeadVersion) /\ Held(call[e], files, sure)
      BY <1>1, <1>2 DEF FilesFor
    <3> QED BY <3>1, <3>2
  <2> QED BY <2>1, <2>2
<1> QED BY <1>3, <1>4

\* Before the first call there is nothing to read.
LEMMA FilesInit == Init => FilesInv
<1> SUFFICES ASSUME Init PROVE FilesInv
  OBVIOUS
<1>1. rows = {} /\ \A c \in Calls : call[c].pc = "new"
  BY DEF Init, NewCall
<1>2. \A c \in Calls : call[c].pc \notin Working \cup {"undo", "rmdirs", "purge", "purgeDir"}
  BY <1>1 DEF Working
<1>3. \A c \in Calls : Placed(call[c], rows, HeadVersion) /\ Held(call[c], files, Sure)
  BY <1>2, AtRest
<1>4. Stored(rows, files, Sure)
  BY <1>1 DEF Stored
<1> QED BY <1>3, <1>4 DEF FilesInv, FilesFor

\* A step leaves the faults that have happened alone or adds one.
LEMMA FaultsOnly == [Next]_vars => UNCHANGED faults \/ \E kind : Fault(kind)
<1> SUFFICES ASSUME [Next]_vars PROVE UNCHANGED faults \/ \E kind : Fault(kind)
  OBVIOUS
<1>1. ASSUME NEW c \in Calls, Read(c) \/ Begin(c) \/ Step(c)
      PROVE  UNCHANGED faults \/ \E kind : Fault(kind)
  <2>1. CASE Read(c) \/ Begin(c) \/ Create(c) \/ Check(c) \/ Store(c) \/ Insert(c) \/ List(c)
             \/ DeleteRows(c) \/ Expire(c) \/ Purge(c)
    BY <2>1 DEF Read, Begin, Create, Check, Store, Insert, List, DeleteRows, Expire, Purge
  <2>2. CASE Source(c)
    BY <2>2 DEF Source
  <2>3. CASE Target(c) \/ Copy(c) \/ Apply(c)
    BY <2>3 DEF Target, Copy, Apply
  <2>4. CASE Asset(c) \/ Undo(c) \/ RemoveDirs(c) \/ PurgeDir(c)
    BY <2>4 DEF Asset, Undo, RemoveDirs, PurgeDir
  <2> QED BY <1>1, <2>1, <2>2, <2>3, <2>4 DEF Step
<1>2. CASE Crash
  BY <1>2 DEF Crash
<1>3. CASE UNCHANGED vars
  BY <1>3 DEF vars
<1> QED BY <1>1, <1>2, <1>3 DEF Next

\* Every step keeps the files of every row.
LEMMA FilesNext == SerialInv /\ TypeInv /\ FilesInv /\ [Next]_vars => FilesInv'
<1> SUFFICES ASSUME SerialInv, TypeInv, FilesInv, [Next]_vars PROVE FilesInv'
  OBVIOUS
<1>3. PICK sure \in SUBSET Paths : sure = Sure'
  BY VersionsAssumption DEF Sure
<1>4. /\ sure \subseteq Sure /\ sure \subseteq Paths \ Hidden
      /\ "list" \in faults' => sure = {}
  <2>1. faults \subseteq faults'
    <3>1. CASE UNCHANGED faults
      BY <3>1
    <3>2. CASE \E kind : Fault(kind)
      BY <3>2 DEF Fault
    <3> QED BY <3>1, <3>2, FaultsOnly
  <2> QED BY <1>3, <2>1 DEF Sure
<1>5. FilesFor(sure)
  BY <1>4, LessSure DEF FilesInv
<1>0. SerialInv'
  BY SerialNext
<1>1. ASSUME NEW c \in Calls, Read(c) \/ Begin(c) \/ Step(c) PROVE FilesFor(sure)'
  <2>1. CASE Read(c) \/ Begin(c) \/ Create(c) \/ Check(c)
    BY <1>5, <2>1, StartFiles
  <2>2. CASE Source(c) \/ Target(c) \/ Copy(c) \/ Apply(c)
    BY <1>4, <1>5, <2>2, CopyFiles
  <2>3. CASE Store(c) \/ Asset(c) \/ List(c) \/ Expire(c) \/ (Insert(c) /\ Conflict(call[c].seen))
    BY <1>5, <2>3, RestFiles
  <2>4. CASE Insert(c) /\ ~Conflict(call[c].seen)
    BY <1>0, <1>5, <2>4, InsertFiles
  <2>5. CASE Undo(c) \/ RemoveDirs(c)
    BY <1>5, <2>5, RemovalFiles
  <2>6. CASE PurgeDir(c)
    BY <1>5, <2>6, PurgeDirFiles
  <2>7. CASE DeleteRows(c)
    BY <1>5, <2>7, DeleteFiles
  <2>8. CASE Purge(c)
    BY <1>5, <2>8, PurgeFiles
  <2> QED BY <1>1, <2>1, <2>2, <2>3, <2>4, <2>5, <2>6, <2>7, <2>8 DEF Step
<1>2. ASSUME UNCHANGED vars PROVE FilesFor(sure)'
  <2>1. /\ UNCHANGED <<rows, files, call, overlapped>>
        /\ UNCHANGED HeadVersion
    BY <1>2 DEF vars, HeadVersion, Heads
  <2> QED BY <1>5, <2>1 DEF FilesFor
<1>6. FilesFor(sure)'
  BY <1>1, <1>2, <1>5, CrashFiles DEF Next
<1> QED BY <1>3, <1>6 DEF FilesInv

\* While calls do not overlap, every file that a version names is under its
\* directory: whatever else fails, whenever the server dies and beside any
\* clean-ups, unless its name is that of a sidecar or a listing has failed.
THEOREM ReadableCorrect == Spec => []SerialReadable
<1>1. TypeInv /\ FilesInv => SerialReadable
  <2>1. SUFFICES ASSUME TypeInv, FilesInv, ~overlapped, "list" \notin faults, NEW r \in rows
                 PROVE  r.manifest \ Hidden \subseteq files[r.version]
    BY DEF SerialReadable
  <2>2. r.manifest \subseteq Paths
    BY <2>1 DEF TypeInv, RowUpTo, RowRec
  <2>3. r.manifest \cap (Paths \ Hidden) \subseteq files[r.version]
    BY <2>1 DEF FilesInv, FilesFor, Stored, Sure
  <2> QED BY <2>2, <2>3
<1>2. SerialInv => HeadInv
  BY DEF SerialInv
<1> QED BY <1>1, <1>2, SerialInit, SerialNext, TypeInit, TypeNext, FilesInit, FilesNext, PTL DEF Spec

-----------------------------------------------------------------------------
\* Where files may be while calls do not overlap and no removal fails: none
\* beyond the next version, and none there unless a call fills it or takes it
\* back.
Filling == {"copy", "apply", "store", "insert", "undo"}

Sound == ~overlapped /\ faults \cap {"crash", "rmdir", "copy"} = {}

Starting == \E c \in Calls : At(c, Creating) /\ call[c].kind = "create"

DirsInv ==
  /\ (\A c \in Calls : At(c, {"new"})) => \A v \in Versions : files[v] = {}
  /\ Sound /\ (rows # {} \/ Starting) =>
       \A v \in Versions : v > HeadVersion + 1 => files[v] = {}
  /\ Sound /\ rows # {} /\ (\A c \in Calls : ~At(c, Filling)) =>
       \A v \in Versions : v = HeadVersion + 1 => files[v] = {}

\* A step of one call that leaves the table alone.
LEMMA DirsFrame ==
  ASSUME TypeInv, DirsInv, NEW c \in Calls, call' = [call EXCEPT ![c] = call'[c]],
         UNCHANGED rows, call'[c].pc # "new", Sound' => Sound,
         call'[c].pc \in Creating => call[c].pc \in Creating /\ call'[c].kind = call[c].kind,
         Sound' => \A v \in Versions : v > HeadVersion + 1 => files'[v] \subseteq files[v],
         Sound' /\ rows # {} =>
           \/ call'[c].pc \in Filling
           \/ \A v \in Versions : v = HeadVersion + 1 => files'[v] = {}
           \/ /\ call[c].pc \notin Filling
              /\ \A v \in Versions : v = HeadVersion + 1 => files'[v] \subseteq files[v]
  PROVE  DirsInv'
<1>1. UNCHANGED HeadVersion /\ rows' = rows
  BY DEF HeadVersion, Heads
<1>2. \A d \in Calls : call'[d] = IF d = c THEN call'[c] ELSE call[d]
  BY DEF TypeInv
<1>3. ~(\A d \in Calls : At(d, {"new"}))'
  BY DEF At
<1>4. ASSUME Sound', rows' # {} \/ Starting'
      PROVE  \A v \in Versions : v > HeadVersion' + 1 => files'[v] = {}
  <2>1. rows # {} \/ Starting
    BY <1>1, <1>2, <1>4 DEF Starting, At
  <2>2. Sound
    BY <1>4
  <2>3. \A v \in Versions : v > HeadVersion + 1 => files[v] = {}
    BY <2>1, <2>2 DEF DirsInv
  <2>4. \A v \in Versions : v > HeadVersion + 1 => files'[v] \subseteq files[v]
    BY <1>4
  <2> QED BY <1>1, <2>3, <2>4
<1>5. ASSUME Sound', rows' # {}, (\A d \in Calls : ~At(d, Filling))'
      PROVE  \A v \in Versions : v = HeadVersion' + 1 => files'[v] = {}
  <2>1. call'[c].pc \notin Filling
    BY <1>5 DEF At
  <2>2. CASE \A v \in Versions : v = HeadVersion + 1 => files'[v] = {}
    BY <1>1, <2>2
  <2>3. CASE /\ call[c].pc \notin Filling
             /\ \A v \in Versions : v = HeadVersion + 1 => files'[v] \subseteq files[v]
    <3>1. \A d \in Calls : ~At(d, Filling)
      BY <1>2, <1>5, <2>3 DEF At
    <3>2. \A v \in Versions : v = HeadVersion + 1 => files[v] = {}
      BY <1>1, <1>5, <3>1 DEF DirsInv
    <3> QED BY <1>1, <2>3, <3>2
  <2> QED BY <1>1, <1>5, <2>1, <2>2, <2>3
<1> QED BY <1>3, <1>4, <1>5 DEF DirsInv

\* What has failed or overlapped stays so.
LEMMA SoundStays ==
  ASSUME TypeInv, NEW c \in Calls, Read(c) \/ Begin(c) \/ Step(c)
  PROVE  Sound' => Sound
<1>1. SUFFICES ASSUME Sound' PROVE Sound
  OBVIOUS
<1>2. ~overlapped
  BY <1>1, OverlapGrows DEF Sound
<1>3. faults \subseteq faults'
  BY DEF Step, Begin, Read, Create, Check, Source, Target, Copy, Apply, Store, Insert, Asset, Undo,
         List, DeleteRows, RemoveDirs, Expire, Purge, PurgeDir, Fault
<1> QED BY <1>1, <1>2, <1>3 DEF Sound

\* The call of a client.
LEMMA ReadDirs ==
  ASSUME SerialInv, TypeInv, DirsInv, NEW c \in Calls, Read(c) PROVE DirsInv'
<1>1. PICK kind \in Kinds, path \in SUBSET Paths :
        /\ IF kind = "create" THEN \A d \in Calls : At(d, {"new"}) ELSE rows # {}
        /\ call' = [call EXCEPT ![c] = [NewCall EXCEPT
                      !.kind = kind, !.path = path, !.pc = "read", !.expected = HeadVersion]]
  BY DEF Read
<1>2. /\ call'[c].kind = kind /\ call'[c].pc = "read"
      /\ UNCHANGED <<rows, files, faults, overlapped, HeadVersion>> /\ At(c, {"new"})
      /\ \A d \in Calls : d # c => call'[d] = call[d]
  <2>1. call'[c] = [NewCall EXCEPT
                      !.kind = kind, !.path = path, !.pc = "read", !.expected = HeadVersion]
    BY <1>1 DEF TypeInv
  <2>2. call'[c].kind = kind /\ call'[c].pc = "read"
    BY <2>1 DEF NewCall
  <2>3. UNCHANGED <<rows, files, faults, overlapped>> /\ At(c, {"new"})
    BY DEF Read
  <2>4. UNCHANGED HeadVersion
    BY <2>3 DEF HeadVersion, Heads
  <2>5. \A d \in Calls : d # c => call'[d] = call[d]
    BY <1>1 DEF TypeInv
  <2> QED BY <2>2, <2>3, <2>4, <2>5
<1>3. CASE \A d \in Calls : At(d, {"new"})
  <2>1. \A v \in Versions : files'[v] = {}
    BY <1>2, <1>3 DEF DirsInv
  <2> QED BY <2>1 DEF DirsInv
<1>4. CASE ~\A d \in Calls : At(d, {"new"})
  <2>1. rows # {}
    BY <1>1, <1>4
  <2>2. ~(\A d \in Calls : At(d, {"new"}))'
    BY <1>2 DEF At
  <2>3. (\A d \in Calls : ~At(d, Filling))' => \A d \in Calls : ~At(d, Filling)
    BY <1>2 DEF At, Filling
  <2>4. Sound' => Sound
    BY <1>2 DEF Sound
  <2> QED BY <1>2, <2>1, <2>2, <2>3, <2>4 DEF DirsInv
<1> QED BY <1>3, <1>4

\* The steps that change neither table nor files, and those that leave the
\* next version to the call that fills it.
LEMMA QuietDirs ==
  ASSUME SerialInv, TypeInv, DirsInv, NEW c \in Calls,
         \/ Begin(c) \/ Create(c) \/ Check(c) \/ Source(c) \/ Target(c) \/ Store(c)
         \/ Asset(c) \/ List(c) \/ Expire(c) \/ (Insert(c) /\ Conflict(call[c].seen))
  PROVE  DirsInv'
<1>1. /\ UNCHANGED <<rows, files>> /\ call' = [call EXCEPT ![c] = call'[c]]
      /\ IsCall(call[c]) /\ call = [d \in Calls |-> call[d]]
  <2>1. UNCHANGED rows /\ call' = [call EXCEPT ![c] = call'[c]]
    BY QuietForm DEF Quietly, SerialInv
  <2>2. UNCHANGED files
    BY DEF Begin, Create, Check, Source, Target, Store, Asset, List, Expire, Insert
  <2> QED BY <2>1, <2>2 DEF SerialInv, HeadInv, Shape
<1>2. Sound' => Sound
  BY SoundStays DEF Step
<1>3. /\ call'[c].pc # "new"
      /\ call'[c].pc \in Creating => call[c].pc \in Creating /\ call'[c].kind = call[c].kind
      /\ call'[c].pc \in Filling \/ call[c].pc \notin Filling
  <2>1. CASE Begin(c)
    <3>1. call[c].pc = "read" /\ call'[c].pc = "called" /\ call'[c].kind = call[c].kind
      BY <1>1, <2>1 DEF Begin, Go, At, IsCall
    <3> QED BY <3>1 DEF Creating, Filling
  <2>2. CASE Create(c)
    BY <2>2, CreateForm DEF Create, At, Creating, Working, Filling, Same
  <2>3. CASE Check(c)
    <3>1. call[c].pc = "called"
      BY <2>3 DEF Check, At
    <3>2. call'[c].kind = call[c].kind /\ call'[c].pc \in {"done", "list", "source"}
      BY <1>1, <2>3 DEF Check, Go, IsCall
    <3> QED BY <3>1, <3>2 DEF Creating, Filling
  <2>4. CASE Source(c)
    <3>1. /\ call[c].pc = "source" /\ call'[c].pc \in {"apply", "target"}
          /\ call'[c].kind = call[c].kind
      BY <2>4, SourceForm DEF Moves, Same
    <3> QED BY <3>1 DEF Creating, Working, Filling
  <2>5. CASE Target(c)
    <3>1. /\ call[c].pc = "target" /\ call'[c].pc \in {"done", "copy", "apply"}
          /\ call'[c].kind = call[c].kind
      BY <2>5, TargetForm DEF Moves, Same
    <3> QED BY <3>1 DEF Creating, Working, Filling
  <2>6. CASE Store(c)
    <3>1. HeadVersion \in Nat
      BY HeadIsNat DEF SerialInv
    <3>2. /\ call[c].pc = "store" /\ call'[c].pc = "insert" /\ call'[c].kind = call[c].kind
      BY <2>6, <3>1, StoreForm DEF Store, At, Same
    <3> QED BY <3>2 DEF Creating, Working, Filling
  <2>7. CASE Asset(c) \/ List(c)
    <3>1. call[c].pc \in {"asset", "list"} /\ call'[c].pc \in {"done", "list", "delete"}
      <4>1. CASE Asset(c)
        BY <1>1, <4>1 DEF Asset, Go, At, IsCall
      <4>2. CASE List(c)
        BY <1>1, <4>2 DEF List, At, IsCall
      <4> QED BY <2>7, <4>1, <4>2
    <3> QED BY <3>1 DEF Creating, Working, Filling
  <2>8. CASE Expire(c)
    <3>1. PICK to \in {"done", "purge"} : \E left :
            call' = [call EXCEPT ![c].pc = to, ![c].todo = left]
      BY <2>8 DEF Expire
    <3>2. call[c].pc = "expire" /\ call'[c].pc = to
      BY <2>8, <3>1, Moved DEF Expire, At, SerialInv
    <3> QED BY <3>2 DEF Creating, Working, Filling
  <2>9. CASE Insert(c) /\ Conflict(call[c].seen)
    <3>1. call'[c].pc = "undo"
      BY <1>1, <2>9 DEF Insert, Go, IsCall
    <3> QED BY <3>1 DEF Creating, Working, Filling
  <2> QED BY <2>1, <2>2, <2>3, <2>4, <2>5, <2>6, <2>7, <2>8, <2>9
<1>4. \A v \in Versions : files'[v] \subseteq files[v]
  BY <1>1
<1> QED BY <1>1, <1>2, <1>3, <1>4, DirsFrame

\* The copy and the changes to it stay under the next version.
LEMMA CopyDirs ==
  ASSUME SerialInv, TypeInv, FilesInv, DirsInv, NEW c \in Calls, Copy(c) \/ Apply(c)
  PROVE  DirsInv'
<1>0. Sound' => Sound
  BY SoundStays DEF Step
<1>1. /\ call[c].pc \in {"copy", "apply"} /\ UNCHANGED <<rows, overlapped>>
      /\ call' = [call EXCEPT ![c] = call'[c]] /\ Moves(call'[c], call[c])
      /\ call[c].dir \in Versions
  BY CopyForm, ApplyForm
<1>2. call'[c].pc \in Filling \/ (call'[c].pc = "done" /\ ~Sound')
  <2>1. CASE Copy(c)
    <3>1. call'[c].pc \in {"apply", "copy"} \/ (call'[c].pc = "done" /\ Fault("copy"))
      BY <2>1, CopyForm
    <3> QED BY <3>1 DEF Filling, Fault, Sound
  <2>2. CASE Apply(c)
    BY <2>2, ApplyForm DEF Filling
  <2> QED BY <2>1, <2>2
<1>3. \A v \in Versions : v # call[c].dir => files'[v] = files[v]
  <2>1. files \in [Versions -> SUBSET Names]
    BY DEF TypeInv
  <2>2. UNCHANGED files \/ \E set : files' = [files EXCEPT ![call[c].dir] = set]
    <3>1. CASE Copy(c)
      BY <3>1, CopyForm
    <3>2. CASE Apply(c)
      BY <3>2, ApplyForm
    <3> QED BY <3>1, <3>2
  <2> QED BY <2>1, <2>2
<1>4. Sound => call[c].dir = HeadVersion + 1
  BY <1>1 DEF Sound, FilesInv, FilesFor, Placed, Working
<1>5. Sound' => \A v \in Versions : v > HeadVersion + 1 => files'[v] \subseteq files[v]
  <2>1. HeadVersion \in Nat
    BY HeadIsNat DEF SerialInv
  <2>2. \A v \in Versions : v > HeadVersion + 1 => v # HeadVersion + 1
    BY <2>1 DEF Versions
  <2> QED BY <1>0, <1>3, <1>4, <2>2
<1>6. /\ call'[c].pc # "new"
      /\ call'[c].pc \in Creating => call[c].pc \in Creating /\ call'[c].kind = call[c].kind
  <2>1. call'[c].pc # "new"
    BY <1>2 DEF Filling
  <2>2. call[c].pc \in Creating /\ call'[c].kind = call[c].kind
    BY <1>1 DEF Creating, Working, Moves, Same
  <2> QED BY <2>1, <2>2
<1> QED BY <1>0, <1>1, <1>2, <1>5, <1>6, DirsFrame

\* The transaction: what was the next version is the head, and the version
\* after it is free.
LEMMA InsertDirs ==
  ASSUME SerialInv, SerialInv', TypeInv, FilesInv, DirsInv, NEW c \in Calls,
         Insert(c), ~Conflict(call[c].seen)
  PROVE  DirsInv'
<1>1. /\ call[c].pc = "insert" /\ UNCHANGED <<files, faults, overlapped>>
      /\ NewRow(c) \in rows' /\ NewRow(c).isHead /\ NewRow(c).version = call[c].seen + 1
      /\ HeadVersion \in Nat
  BY InsertRows, HeadIsNat DEF Insert, At, SerialInv, NewRow
<1>2. PICK to \in {"asset", "expire"} : Go(c, to)
  BY DEF Insert
<1>3. call'[c].pc = to
  BY <1>2, Moved DEF SerialInv
<1>4. ~(\A d \in Calls : At(d, {"new"}))'
  BY <1>3 DEF At
<1>5. ASSUME Sound'
      PROVE  /\ \A v \in Versions : v > HeadVersion' + 1 => files'[v] = {}
             /\ \A v \in Versions : v = HeadVersion' + 1 => files'[v] = {}
  <2>1. Sound /\ call[c].seen = HeadVersion
    BY <1>1, <1>5 DEF Sound, SerialInv, Based, At
  <2>2. HeadVersion' = HeadVersion + 1
    <3>1. PICK h \in rows' : Heads' = {h}
      BY <1>1 DEF SerialInv, HeadInv, OneHead
    <3>2. NewRow(c) = h
      <4>1. NewRow(c) \in Heads'
        BY <1>1 DEF Heads
      <4> QED BY <3>1, <4>1
    <3>3. HeadVersion' = h.version
      BY <3>1 DEF HeadVersion
    <3> QED BY <1>1, <2>1, <3>2, <3>3
  <2>3. rows # {} \/ Starting
    <3>1. SUFFICES ASSUME rows = {} PROVE Starting
      OBVIOUS
    <3>2. call[c].kind = "create"
      BY <1>1, <2>1, <3>1 DEF FilesInv, FilesFor, Placed, Working, Sound
    <3> QED BY <1>1, <3>2 DEF Starting, At, Creating, Working
  <2>4. \A v \in Versions : v > HeadVersion + 1 => files[v] = {}
    BY <2>1, <2>3 DEF DirsInv
  <2>5. \A v \in Versions : v > HeadVersion' + 1 \/ v = HeadVersion' + 1 => v > HeadVersion + 1
    BY <1>1, <2>2 DEF Versions
  <2> QED BY <1>1, <2>4, <2>5
<1> QED BY <1>4, <1>5 DEF DirsInv

\* A removal that does not fail leaves nothing behind.
LEMMA RemovalDirs ==
  ASSUME SerialInv, TypeInv, FilesInv, DirsInv, NEW c \in Calls,
         Undo(c) \/ RemoveDirs(c) \/ PurgeDir(c)
  PROVE  DirsInv'
<1>0. Sound' => Sound
  BY SoundStays DEF Step
<1>1. /\ call' = [call EXCEPT ![c] = call'[c]] /\ Moves(call'[c], call[c])
      /\ UNCHANGED <<rows, overlapped>>
      /\ \/ call[c].pc = "undo" /\ call'[c].pc = "done"
         \/ call[c].pc = "rmdirs" /\ call'[c].pc \in {"undo", "done", "rmdirs"}
         \/ call[c].pc = "purgeDir" /\ call'[c].pc = "purge"
  BY RemovalForm
<1>2. \A v \in Versions : files'[v] \subseteq files[v]
  BY RemovalForm
<1>3. call'[c].pc # "new" /\ call'[c].pc \notin Creating
  BY <1>1 DEF Creating, Working
<1>4. ASSUME Sound', rows # {}
      PROVE  \/ call[c].pc \notin Filling
             \/ \A v \in Versions : v = HeadVersion + 1 => files'[v] = {}
  <2>1. CASE call[c].pc # "undo"
    BY <1>1, <2>1 DEF Filling
  <2>2. CASE call[c].pc = "undo"
    <3>1. call[c].dir = HeadVersion + 1
      BY <1>0, <1>4, <2>2 DEF Sound, FilesInv, FilesFor, Placed
    <3>2. Undo(c)
      BY <2>2 DEF RemoveDirs, PurgeDir, At
    <3>3. files' = [files EXCEPT ![call[c].dir] = {}]
      BY <1>4, <3>2 DEF Undo, Fault, Sound
    <3> QED BY <3>1, <3>3 DEF TypeInv
  <2> QED BY <2>1, <2>2
<1> QED BY <1>0, <1>1, <1>2, <1>3, <1>4, DirsFrame

\* Without rows nothing is claimed, until a creation that found nothing.
LEMMA DeleteDirs ==
  ASSUME SerialInv, TypeInv, DirsInv, NEW c \in Calls, DeleteRows(c)
  PROVE  DirsInv'
<1>1. /\ rows' = {} /\ call'[c].pc \in {"rmdirs", "undo", "done"} /\ call[c].pc = "delete"
      /\ call' = [call EXCEPT ![c] = call'[c]]
  BY DeleteForm DEF DeleteRows, SerialInv, At
<1>2. ~Starting'
  <2>1. SUFFICES ASSUME NEW d \in Calls, call'[d].pc \in Creating, call'[d].kind = "create"
                 PROVE  FALSE
    BY DEF Starting, At
  <2>2. d # c
    BY <1>1, <2>1 DEF Creating, Working
  <2>3. call[d] = call'[d]
    BY <1>1, <2>2 DEF TypeInv
  <2>4. At(c, {"new"})
    BY <2>1, <2>2, <2>3 DEF SerialInv, CreateAlone, At
  <2> QED BY <1>1, <2>4 DEF At
<1>3. ~(\A d \in Calls : At(d, {"new"}))'
  BY <1>1 DEF At
<1> QED BY <1>1, <1>2, <1>3 DEF DirsInv

\* A clean-up takes rows, and never the head.
LEMMA PurgeDirs ==
  ASSUME SerialInv, TypeInv, DirsInv, NEW c \in Calls, Purge(c)
  PROVE  DirsInv'
<1>0. Sound' => Sound
  BY SoundStays DEF Step
<1>1. /\ call[c].pc = "purge" /\ UNCHANGED <<files, overlapped>>
      /\ call' = [call EXCEPT ![c] = call'[c]]
      /\ call'[c].pc \in {"done", "purge", "purgeDir"}
  BY PurgeSteps
<1>2. UNCHANGED HeadVersion /\ (rows' # {} => rows # {})
  <2>1. Heads' = Heads /\ \E keep \in SUBSET rows : rows' = keep
    BY PurgeKeepsHead DEF SerialInv
  <2>2. UNCHANGED HeadVersion
    BY <2>1 DEF HeadVersion
  <2>3. rows' # {} => rows # {}
    BY <2>1
  <2> QED BY <2>2, <2>3
<1>3. \A d \in Calls : call'[d] = IF d = c THEN call'[c] ELSE call[d]
  BY <1>1 DEF TypeInv
<1>4. ~(\A d \in Calls : At(d, {"new"}))'
  BY <1>1 DEF At
<1>5. Starting' => Starting
  BY <1>1, <1>3 DEF Starting, At, Creating, Working
<1>6. (\A d \in Calls : ~At(d, Filling))' => \A d \in Calls : ~At(d, Filling)
  BY <1>1, <1>3 DEF At, Filling
<1> QED BY <1>0, <1>1, <1>2, <1>4, <1>5, <1>6 DEF DirsInv

\* Before the first call every directory is empty.
LEMMA DirsInit == Init => DirsInv
BY DEF Init, DirsInv

\* Every step keeps the next version free.
LEMMA DirsNext == SerialInv /\ TypeInv /\ FilesInv /\ DirsInv /\ [Next]_vars => DirsInv'
<1> SUFFICES ASSUME SerialInv, TypeInv, FilesInv, DirsInv, [Next]_vars PROVE DirsInv'
  OBVIOUS
<1>0. SerialInv'
  BY SerialNext
<1>1. ASSUME NEW c \in Calls, Read(c) \/ Begin(c) \/ Step(c) PROVE DirsInv'
  <2>1. CASE Read(c)
    BY <2>1, ReadDirs
  <2>2. CASE \/ Begin(c) \/ Create(c) \/ Check(c) \/ Source(c) \/ Target(c) \/ Store(c)
             \/ Asset(c) \/ List(c) \/ Expire(c) \/ (Insert(c) /\ Conflict(call[c].seen))
    BY <2>2, QuietDirs
  <2>3. CASE Copy(c) \/ Apply(c)
    BY <2>3, CopyDirs
  <2>4. CASE Insert(c) /\ ~Conflict(call[c].seen)
    BY <1>0, <2>4, InsertDirs
  <2>5. CASE Undo(c) \/ RemoveDirs(c) \/ PurgeDir(c)
    BY <2>5, RemovalDirs
  <2>6. CASE DeleteRows(c)
    BY <2>6, DeleteDirs
  <2>7. CASE Purge(c)
    BY <2>7, PurgeDirs
  <2> QED BY <1>1, <2>1, <2>2, <2>3, <2>4, <2>5, <2>6, <2>7 DEF Step
<1>2. CASE Crash
  <2>1. ~Sound'
    BY <1>2 DEF Crash, Fault, Sound
  <2>2. ~(\A d \in Calls : At(d, {"new"}))'
    <3>1. PICK c \in Calls : At(c, InCall \cup InCleanUp)
      BY <1>2 DEF Crash
    <3>2. At(c, {"done"})'
      BY <1>2, <3>1, CrashForm DEF SerialInv
    <3> QED BY <3>2 DEF At
  <2> QED BY <2>1, <2>2 DEF DirsInv
<1>3. CASE UNCHANGED vars
  <2>1. UNCHANGED <<rows, files, call, overlapped, faults>> /\ UNCHANGED HeadVersion
    BY <1>3 DEF vars, HeadVersion, Heads
  <2> QED BY <2>1 DEF DirsInv, Sound, Starting, At
<1> QED BY <1>1, <1>2, <1>3 DEF Next

\* A call that fails leaves the next version free, so that no later append
\* ends with DESTINATION_EXISTS, unless a removal, a copy or the server fails.
THEOREM NextDirCorrect == Spec => []NextDirFree
<1>1. SerialInv /\ DirsInv => NextDirFree
  <2>1. SUFFICES ASSUME SerialInv, DirsInv, Quiet, Sound, HeadVersion \in 1..(MaxVersion - 1)
                 PROVE  files[HeadVersion + 1] = {}
    BY DEF NextDirFree, Sound
  <2>2. rows # {} /\ HeadVersion + 1 \in Versions
    BY <2>1, NoHead, VersionsAssumption DEF Versions
  <2>3. \A c \in Calls : ~At(c, Filling)
    BY <2>1 DEF Quiet, At, Filling, InCall
  <2> QED BY <2>1, <2>2, <2>3 DEF DirsInv
<1>2. SerialInv => HeadInv
  BY DEF SerialInv
<1> QED BY <1>1, <1>2, SerialInit, SerialNext, TypeInit, TypeNext, FilesInit, FilesNext,
           DirsInit, DirsNext, PTL DEF Spec
=============================================================================
