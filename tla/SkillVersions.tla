----------------------------- MODULE SkillVersions -----------------------------
(***************************************************************************)
(* The versions of one skill: SkillCore checks the expected version,       *)
(* SkillVersioning copies the directory of the head, changes the copy and  *)
(* appends a row to the SQLite table; deletion and the clean-up of old     *)
(* versions remove rows first and directories afterwards.                  *)
(*                                                                         *)
(* One server process; calls interleave at their awaits.  The object store *)
(* is the local backend, of the version directories and the names in them: *)
(* what a file holds, and the sidecar with its metadata, is left out.      *)
(***************************************************************************)
EXTENDS Integers, FiniteSets

CONSTANTS
  Calls,       \* calls that change the skill
  Paths,       \* resource files
  Hidden,      \* those that end in ".meta.json", as sidecars do
  Here,        \* an entry that every existing directory has
  MaxVersion,  \* bound of the version numbers
  KeepRecent,  \* KEEP_RECENT, 3 in the code
  Kinds,       \* what a call may be
  FaultKinds, MaxFaults

AllKinds == {"create", "write", "remove", "content", "delete"}
AllFaults == {"list", "copy", "put", "asset", "rmdir", "crash"}

ASSUME VersionsAssumption ==
  /\ IsFiniteSet(Calls) /\ Cardinality(Calls) <= MaxVersion
  /\ MaxVersion \in Nat /\ KeepRecent \in Nat /\ MaxFaults \in Nat
  /\ Hidden \subseteq Paths /\ Here \notin Paths
  /\ Kinds \subseteq AllKinds /\ FaultKinds \subseteq AllFaults

Versions == 1..MaxVersion

VARIABLES
  rows,       \* the table: version, isHead, manifest, base
  files,      \* [Versions -> the files under versionDir, and Here if it exists]
  call,       \* what every call does, and where it is
  ledger,     \* sum of onSkillVdbChanged
  faults,     \* the faults that have happened
  overlapped  \* history: two calls have worked at the same time

vars == <<rows, files, call, ledger, faults, overlapped>>

\* Between the call of the client and its return ...
InCall == {"called", "source", "target", "copy", "apply", "store", "insert", "asset",
           "list", "delete", "rmdirs", "undo"}
\* ... and in the clean-up that an append leaves running.
InCleanUp == {"expire", "purge", "purgeDir"}

\* base is the head version that the call saw, from the directory of that row,
\* dir the new version directory, path the file it writes or removes, todo the
\* files, directories or versions that its loop has left, seen the head that
\* appendVersion read.
NewCall == [kind |-> "content", pc |-> "new", expected |-> 0, base |-> 0, from |-> 0, dir |-> 0,
            manifest |-> {}, path |-> {}, todo |-> {}, seen |-> 0, count |-> 0]

At(c, pcs) == call[c].pc \in pcs
Go(c, pc) == call' = [call EXCEPT ![c].pc = pc]
Busy(c) == At(c, InCall)

Fault(kind) ==
  /\ kind \in FaultKinds /\ Cardinality(faults) < MaxFaults
  /\ faults' = faults \cup {kind}

Heads == {r \in rows : r.isHead}
HeadVersion == IF Heads = {} THEN 0 ELSE (CHOOSE r \in Heads : TRUE).version
Row(v) == CHOOSE r \in rows : r.version = v

Init ==
  /\ rows = {} /\ files = [v \in Versions |-> {}] /\ call = [c \in Calls |-> NewCall]
  /\ ledger = 0 /\ faults = {} /\ overlapped = FALSE

\* The client knows a version; a skill id is created once.
Read(c) ==
  /\ At(c, {"new"})
  /\ \E kind \in Kinds, path \in SUBSET Paths :
       /\ IF kind = "create" THEN \A d \in Calls : At(d, {"new"}) ELSE rows # {}
       /\ kind \in {"write", "remove"} => Cardinality(path) = 1
       /\ kind \in {"content", "delete"} => path = {}
       /\ call' = [call EXCEPT ![c] = [NewCall EXCEPT
                     !.kind = kind, !.path = path, !.pc = "read", !.expected = HeadVersion]]
  /\ UNCHANGED <<rows, files, ledger, faults, overlapped>>

Begin(c) ==
  /\ At(c, {"read"}) /\ Go(c, "called")
  /\ overlapped' = (overlapped \/ \E d \in Calls : Busy(d))
  /\ UNCHANGED <<rows, files, ledger, faults>>

\* Mutant: assertVersionFresh is left out.
FreshAlways(c) == HeadVersion # 0

\* requireHead and assertVersionFresh.
Fresh(c) == HeadVersion # 0 /\ HeadVersion = call[c].expected

Create(c) ==
  /\ At(c, {"called"}) /\ call[c].kind = "create"
  /\ call' = [call EXCEPT ![c].pc = IF call[c].path = {} THEN "store" ELSE "apply",
                          ![c].dir = 1, ![c].todo = call[c].path, ![c].manifest = call[c].path]
  /\ UNCHANGED <<rows, files, ledger, faults, overlapped>>

\* A removal of what the manifest does not have changes nothing.
Check(c) ==
  LET k == call[c].kind
      head == Row(HeadVersion)
      changed == IF k = "write" THEN head.manifest \cup call[c].path
                 ELSE head.manifest \ call[c].path
  IN /\ At(c, {"called"}) /\ k # "create"
     /\ IF ~Fresh(c) \/ (k = "remove" /\ changed = head.manifest) THEN Go(c, "done")
        ELSE IF k = "delete" THEN Go(c, "list")
        ELSE call' = [call EXCEPT ![c].pc = "source", ![c].base = HeadVersion,
                                  ![c].from = head.dir, ![c].dir = HeadVersion + 1,
                                  ![c].manifest = changed]
     /\ UNCHANGED <<rows, files, ledger, faults, overlapped>>

-----------------------------------------------------------------------------
\* walkDir of the local backend, which takes other files for sidecars.
Listed(dir) == (files[dir] \cap Paths) \ Hidden

\* Mutant: a directory that has files counts as not found.
SourceNotFound(c) ==
  /\ At(c, {"source"})
  /\ call' = [call EXCEPT ![c].pc = "apply", ![c].todo = call[c].path]
  /\ UNCHANGED <<rows, files, ledger, faults, overlapped>>

\* copyTree lists the source.  STORAGE_NOT_FOUND, of a directory that does not
\* exist, means no copy; what walkDir cannot read is missing in its list.
Source(c) ==
  /\ At(c, {"source"})
  /\ \E found \in SUBSET Listed(call[c].from) :
       /\ IF found = Listed(call[c].from) THEN UNCHANGED faults ELSE Fault("list")
       /\ call' = IF files[call[c].from] = {}
                  THEN [call EXCEPT ![c].pc = "apply", ![c].todo = call[c].path]
                  ELSE [call EXCEPT ![c].pc = "target", ![c].todo = found]
  /\ UNCHANGED <<rows, files, ledger, overlapped>>

\* The loop over the files ends.
Copying(c, todo) ==
  call' = IF todo = {} THEN [call EXCEPT ![c].pc = "apply", ![c].todo = call[c].path]
          ELSE [call EXCEPT ![c].pc = "copy", ![c].todo = todo]

\* DESTINATION_EXISTS ends the call, if walkDir sees a file there.
Target(c) ==
  /\ At(c, {"target"})
  /\ \/ Listed(call[c].dir) # {} /\ Go(c, "done") /\ UNCHANGED faults
     \/ Listed(call[c].dir) = {} /\ Copying(c, call[c].todo) /\ UNCHANGED faults
     \/ Listed(call[c].dir) # {} /\ Fault("list") /\ Copying(c, call[c].todo)
  /\ UNCHANGED <<rows, files, ledger, overlapped>>

\* putObject makes the directories above the file.
Put(dir, paths) ==
  files' = [files EXCEPT ![dir] = IF paths = {} THEN @ ELSE @ \cup paths \cup {Here}]

\* File by file, unless the file is gone; a failure leaves what was copied.
Copy(c) ==
  /\ At(c, {"copy"})
  /\ \/ \E p \in call[c].todo :
          /\ Put(call[c].dir, {p} \cap files[call[c].from])
          /\ Copying(c, call[c].todo \ {p})
          /\ UNCHANGED faults
     \/ Fault("copy") /\ Go(c, "done") /\ UNCHANGED files
  /\ UNCHANGED <<rows, ledger, overlapped>>

Apply(c) ==
  /\ At(c, {"apply"})
  /\ \/ call[c].todo = {} /\ Go(c, "store") /\ UNCHANGED <<files, faults>>
     \/ \E p \in call[c].todo :
          /\ IF call[c].kind = "remove" THEN files' = [files EXCEPT ![call[c].dir] = @ \ {p}]
             ELSE Put(call[c].dir, {p})
          /\ call' = [call EXCEPT ![c].todo = @ \ {p}]
          /\ UNCHANGED faults
     \/ /\ call[c].todo # {} /\ call[c].kind # "remove" /\ Fault("put")
        /\ Go(c, "undo") /\ UNCHANGED files
  /\ UNCHANGED <<rows, ledger, overlapped>>

\* SqliteSkillStore.appendVersion reads the head, and awaits.
Store(c) ==
  /\ At(c, {"store"})
  /\ call' = [call EXCEPT ![c].pc = "insert", ![c].seen = HeadVersion]
  /\ UNCHANGED <<rows, files, ledger, faults, overlapped>>

\* UNIQUE(skill_id, version), and one active head of a name.
Conflict(seen) == \E r \in rows : r.version = seen + 1 \/ (r.isHead /\ r.version # seen)

\* Mutant: the number is counted up twice.
NewRowSkippingOne(c) ==
  [version |-> call[c].seen + 2, isHead |-> TRUE, dir |-> call[c].dir,
   manifest |-> call[c].manifest, base |-> call[c].base, expected |-> call[c].expected]

NewRow(c) == [version |-> call[c].seen + 1, isHead |-> TRUE, dir |-> call[c].dir,
              manifest |-> call[c].manifest, base |-> call[c].base,
              expected |-> call[c].expected]

Unset(r, v) == IF r.version = v THEN [r EXCEPT !.isHead = FALSE] ELSE r

\* Mutant: the old head is looked for under the version that was expected.
InsertUnsettingBase(c) ==
  /\ At(c, {"insert"})
  /\ IF \E r \in rows : r.version = call[c].seen + 1
     THEN Go(c, "undo") /\ UNCHANGED <<rows, ledger>>
     ELSE /\ rows' = {Unset(r, call[c].base) : r \in rows} \cup {NewRow(c)}
          /\ IF call[c].kind = "create" THEN Go(c, "asset") /\ UNCHANGED ledger
             ELSE Go(c, "expire") /\ ledger' = ledger + 1
  /\ UNCHANGED <<files, faults, overlapped>>

\* The transaction; an append is then reported, and leaves the clean-up.
Insert(c) ==
  /\ At(c, {"insert"})
  /\ IF Conflict(call[c].seen)
     THEN Go(c, "undo") /\ UNCHANGED <<rows, ledger>>
     ELSE /\ rows' = {Unset(r, call[c].seen) : r \in rows} \cup {NewRow(c)}
          /\ IF call[c].kind = "create" THEN Go(c, "asset") /\ UNCHANGED ledger
             ELSE Go(c, "expire") /\ ledger' = ledger + 1
  /\ UNCHANGED <<files, faults, overlapped>>

\* onSkillCreated; its failure takes the skill back, unreported.
Asset(c) ==
  /\ At(c, {"asset"})
  /\ \/ Go(c, "done") /\ ledger' = ledger + 1 /\ UNCHANGED faults
     \/ Fault("asset") /\ Go(c, "list") /\ UNCHANGED ledger
  /\ UNCHANGED <<rows, files, overlapped>>

\* Mutant: the copy stays when a write or the transaction fails.
UndoNothing(c) ==
  /\ At(c, {"undo"}) /\ Go(c, "done")
  /\ UNCHANGED <<rows, files, ledger, faults, overlapped>>

\* cleanupVersionDir, whose failure is ignored.
Undo(c) ==
  /\ At(c, {"undo"}) /\ Go(c, "done")
  /\ \/ files' = [files EXCEPT ![call[c].dir] = {}] /\ UNCHANGED faults
     \/ Fault("rmdir") /\ UNCHANGED files
  /\ UNCHANGED <<rows, ledger, overlapped>>

-----------------------------------------------------------------------------
\* deleteSkill, also as the rollback of a creation.
List(c) ==
  /\ At(c, {"list"})
  /\ call' = [call EXCEPT ![c].pc = "delete", ![c].todo = {r.dir : r \in rows}]
  /\ UNCHANGED <<rows, files, ledger, faults, overlapped>>

Leave(c) == IF call[c].kind = "create" THEN "undo" ELSE "done"

DeleteRows(c) ==
  /\ At(c, {"delete"}) /\ rows' = {}
  /\ call' = [call EXCEPT ![c].pc = IF rows = {} THEN Leave(c) ELSE "rmdirs",
                          ![c].count = Cardinality(rows)]
  /\ UNCHANGED <<files, ledger, faults, overlapped>>

RemoveDirs(c) ==
  /\ At(c, {"rmdirs"})
  /\ \/ /\ call[c].todo = {} /\ Go(c, Leave(c))
        /\ ledger' = IF call[c].kind = "delete" THEN ledger - call[c].count ELSE ledger
        /\ UNCHANGED <<files, faults>>
     \/ \E d \in call[c].todo :
          /\ call' = [call EXCEPT ![c].todo = @ \ {d}]
          /\ \/ files' = [files EXCEPT ![d] = {}] /\ UNCHANGED faults
             \/ Fault("rmdir") /\ UNCHANGED files
          /\ UNCHANGED ledger
  /\ UNCHANGED <<rows, overlapped>>

-----------------------------------------------------------------------------
\* cleanupExpiredVersionsForSkill: the versions up to some age have expired;
\* the head and the most recent others are kept.
Protected ==
  LET others == {r.version : r \in rows \ Heads}
  IN {v \in others : Cardinality({w \in others : w >= v}) <= KeepRecent}

Expire(c) ==
  /\ At(c, {"expire"})
  /\ \E age \in 0..MaxVersion :
       LET victims == {r \in rows \ Heads : r.version <= age /\ r.version \notin Protected}
       IN call' = [call EXCEPT ![c].pc = IF Heads = {} \/ victims = {} THEN "done" ELSE "purge",
                               ![c].todo = victims]
  /\ UNCHANGED <<rows, files, ledger, faults, overlapped>>

\* Mutant: the deletion is reported although another clean-up was first.
PurgeReportingAll(c) ==
  /\ At(c, {"purge"})
  /\ \/ call[c].todo = {} /\ Go(c, "done") /\ UNCHANGED <<rows, ledger>>
     \/ \E v \in call[c].todo :
          /\ \A w \in call[c].todo : w.version <= v.version
          /\ rows' = {r \in rows : r.version # v.version \/ r.isHead}
          /\ ledger' = ledger - 1
          /\ call' = [call EXCEPT ![c].pc = "purgeDir", ![c].todo = @ \ {v}, ![c].dir = v.dir]
  /\ UNCHANGED <<files, faults, overlapped>>

\* deleteVersion deletes no head; the row first, and its directory after it.
Purge(c) ==
  /\ At(c, {"purge"})
  /\ \/ call[c].todo = {} /\ Go(c, "done") /\ UNCHANGED <<rows, ledger>>
     \/ \E v \in call[c].todo :
          LET gone == {r \in rows : r.version = v.version /\ ~r.isHead}
          IN /\ \A w \in call[c].todo : w.version <= v.version
             /\ rows' = rows \ gone /\ ledger' = ledger - Cardinality(gone)
             /\ call' = [call EXCEPT ![c].pc = IF gone = {} THEN "purge" ELSE "purgeDir",
                                     ![c].todo = @ \ {v}, ![c].dir = v.dir]
  /\ UNCHANGED <<files, faults, overlapped>>

PurgeDir(c) ==
  /\ At(c, {"purgeDir"}) /\ Go(c, "purge")
  /\ \/ files' = [files EXCEPT ![call[c].dir] = {}] /\ UNCHANGED faults
     \/ Fault("rmdir") /\ UNCHANGED files
  /\ UNCHANGED <<rows, ledger, overlapped>>

\* The server dies: rows and files stay, reports that were due do not come.
Crash ==
  /\ Fault("crash")
  /\ \E c \in Calls : At(c, InCall \cup InCleanUp)
  /\ call' = [c \in Calls |->
                IF At(c, InCall \cup InCleanUp) THEN [call[c] EXCEPT !.pc = "done"] ELSE call[c]]
  /\ UNCHANGED <<rows, files, ledger, overlapped>>

Step(c) ==
  \/ Create(c) \/ Check(c) \/ Source(c) \/ Target(c) \/ Copy(c) \/ Apply(c)
  \/ Store(c) \/ Insert(c) \/ Asset(c) \/ Undo(c)
  \/ List(c) \/ DeleteRows(c) \/ RemoveDirs(c)
  \/ Expire(c) \/ Purge(c) \/ PurgeDir(c)

Next == (\E c \in Calls : Read(c) \/ Begin(c) \/ Step(c)) \/ Crash

Spec == Init /\ [][Next]_vars

-----------------------------------------------------------------------------
RowSet == [version : Versions, isHead : BOOLEAN, dir : Versions, manifest : SUBSET Paths,
           base : 0..MaxVersion, expected : 0..MaxVersion]

TypeOK ==
  /\ rows \subseteq RowSet /\ files \in [Versions -> SUBSET (Paths \cup {Here})]
  /\ \A c \in Calls : call[c].dir \in 0..MaxVersion /\ call[c].seen \in 0..MaxVersion
  /\ ledger \in Int /\ faults \subseteq AllFaults /\ overlapped \in BOOLEAN

\* Whatever calls and clean-ups overlap and fail, a skill that exists has one
\* head, and the head is its newest version: two appends of one version
\* number end in a conflict, and the clean-up of a stale list deletes no head.
OneHead == rows # {} =>
  \E h \in rows : Heads = {h} /\ \A r \in rows \ {h} : r.version < h.version

\* Every file in the manifest of a version is under its directory: rows come
\* after their files and go before them.  It holds while calls do not overlap,
\* whatever fails but a listing and whenever the server dies, with any number
\* of clean-ups running, of every file whose name is not that of a sidecar.
SerialReadable == ~overlapped /\ "list" \notin faults =>
  \A r \in rows : r.manifest \ Hidden \subseteq files[r.version]

\* The optimistic lock: a write is refused unless it was based on the head.
NoOverwrite == \A r \in rows : r.base = r.expected /\ r.base = r.version - 1
SerialNoOverwrite == ~overlapped => NoOverwrite

Quiet == \A c \in Calls : ~At(c, InCall \cup InCleanUp)

\* Billing agrees with the table once nothing runs, overlapping calls and
\* clean-ups included: every row is counted when it comes and when it goes.
LedgerMatches == Quiet /\ faults \cap {"crash", "asset"} = {} => ledger = Cardinality(rows)

\* A call that fails leaves no directory that would make every later append
\* end with DESTINATION_EXISTS, unless the clean-up itself or copyTree fails.
NextDirFree ==
  /\ Quiet /\ ~overlapped /\ faults \cap {"crash", "rmdir", "copy"} = {}
  /\ HeadVersion \in 1..(MaxVersion - 1)
  => files[HeadVersion + 1] = {}
=============================================================================
