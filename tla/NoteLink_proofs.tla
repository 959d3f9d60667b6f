------------------------- MODULE NoteLink_proofs -------------------------
(***************************************************************************)
(* Theorems about NoteLink, for any texts, uploads, saves, removals and    *)
(* changes of other devices: every variable keeps its type, the pending    *)
(* count is exact, what the watcher has noticed is not lost, and what      *)
(* other devices wrote is neither buried nor hidden; and about Conflicts,  *)
(* for any documents, branches and files: the badge of the conflict        *)
(* folder counts what stands in conflict once the feed and the start are   *)
(* through.                                                                *)
(***************************************************************************)
EXTENDS NoteLink, Conflicts, FiniteSetTheorems, TLAPS

(* The type invariant in the parts that the actions touch together.         *)

Text == Texts \cup {Missing}
Event == {"modify", "removed", "archived"}
UpPc == {"idle", "read", "get", "put", "record"}
JobPc == {"idle", "decide", "write", "delete", "writeWinner", "materialize"}

FileType == vault \in Text /\ newer \in BOOLEAN /\ events \in Seq(Event)
GuardType == mark \in Text /\ armed \in BOOLEAN /\ suppressed \in BOOLEAN
WatchType == checking \subseteq Texts /\ timer \in BOOLEAN /\ pend \in Nat
UpType == up \in [Uploaders -> [pc : UpPc, text : Text, seen : Rev, attempt : 0..MaxAttempts]]
DelType == del \in [pc : {"idle", "get", "put", "leaves"}, seen : Rev, conf : SUBSET Rev,
                    attempt : 0..MaxAttempts]
DbType == doc \in Rev /\ leaves \subseteq Rev /\ nextId \in Nat /\ unseen \in BOOLEAN
            /\ reached \subseteq Texts
FeedType == feed \in Seq([doc : Rev, conf : SUBSET Rev])
JobType == job \in [pc : JobPc, doc : Rev, conf : SUBSET Rev, local : Text]
KeepType == versions \subseteq Texts /\ copy \in Text /\ backup \in Text /\ trash \subseteq Texts
              /\ held \in BOOLEAN
HistoryType == typed \in Text /\ swallowed \in BOOLEAN /\ noticed \in Text /\ owed \in Text
BoundType == saves \in 0..MaxSaves /\ removes \in 0..MaxRemoves /\ pulls \in 0..MaxPulls

Parts == /\ FileType /\ GuardType /\ WatchType /\ UpType /\ DelType /\ DbType /\ FeedType
         /\ JobType /\ KeepType /\ HistoryType /\ BoundType

\* The winner has a text that has been in the database, and its id is not one to come;
\* what the feed has still to deliver, and what is in conflict, exists.
Revisions ==
    /\ nextId > 0 /\ doc.id < nextId
    /\ IF Exists(doc) THEN doc.text \in reached ELSE ~doc.deleted
    /\ unseen \/ leaves # {} => Exists(doc)
    /\ \A r \in leaves : r.text \in Texts

\* What an upload or a deletion goes by, once it has read it.
Reading ==
    /\ \A u \in Uploaders : /\ up[u].pc \in {"get", "put", "record"} => up[u].text \in Texts
                            /\ up[u].seen.id < nextId
    /\ del.pc \in {"put", "leaves"} => del.seen.text \in Texts

\* A change that was delivered comes from the database, and so does the marked text.
Delivered(c) == c.doc.text \in reached /\ \A r \in c.conf : r.text \in Texts
Changes ==
    /\ \A i \in 1..Len(feed) : Delivered(feed[i])
    /\ job.pc # "idle" => Delivered(job)
    /\ mark \in reached \cup {Missing}

Typed == Parts /\ Revisions /\ Reading /\ Changes

\* A text that is in the database or in the version history, or no text.
Safe == versions \cup reached \cup {Missing}

\* The file's text x is on its way to the database: a timer runs, or an upload is about to
\* read it or has read it.
Carried(x) ==
    \/ timer
    \/ \E u \in Uploaders : \/ up[u].pc = "read"
                            \/ up[u].pc \in {"get", "put", "record"} /\ up[u].text = x

Happened(e) == \E i \in 1..Len(events) : events[i] = e

\* The text of the file is safe, or on its way, or the watcher will still hear of it.
Heard == vault \in Safe \/ Happened("modify") \/ vault \in checking \/ Carried(vault)

\* What the watcher has noticed is safe, or on its way, or no longer what the file shows:
\* now, and of the time the current change was started.  A change that was let through
\* found nothing on its way.
Traced(x) == x \in Safe \/ vault # x \/ Carried(x)
Noticed ==
    /\ Traced(noticed) /\ Traced(owed)
    /\ job.pc \in {"write", "writeWinner"} => owed \in Safe \/ vault # owed

EditInv == Typed /\ PendingExact /\ Heard /\ Noticed

\* Another device's text that an upload or a deletion is about to replace is in the history.
Witnessed ==
    VersionHistory =>
        /\ \A u \in Uploaders :
              LET r == up[u].seen
              IN  up[u].pc = "put" /\ Exists(r) /\ ~r.mine /\ ~r.deleted => r.text \in versions
        /\ del.pc = "put" => del.seen.text \in versions

\* An upload that is about to replace a tombstone was compared with it.
Compared ==
    \A u \in Uploaders : up[u].pc = "put" /\ up[u].seen = doc /\ doc.deleted
                            => ModifiedAfterTombstone(up[u].text, doc)

\* The last change under way shows the document as it is, unless there is another to come.
UpToDate ==
    ~unseen => /\ feed # <<>> => feed[Len(feed)] = [doc |-> doc, conf |-> leaves]
               /\ feed = <<>> /\ job.pc # "idle" => job.doc = doc /\ job.conf = leaves

\* The file's text has still to be noticed, or to be compared with the document.
Waiting ==
    \/ Happened("modify") \/ vault \in checking \/ timer
    \/ \E u \in Uploaders :
          \/ up[u].pc = "read"
          \/ up[u].text = vault /\ (up[u].pc = "get" \/ (up[u].pc = "put" /\ up[u].seen = doc))
Edited == vault # Missing /\ typed = vault /\ Waiting

\* The file shows the winner, or what the user did to it last will change the document
\* again.
Diverging ==
    \/ vault = doc.text \/ swallowed \/ Edited
    \/ /\ vault = Missing
       /\ Happened("removed") \/ del.pc = "get" \/ (del.pc = "put" /\ del.seen = doc)

\* Once the last change is applied, a conflict that another device wins has its copy, unless
\* the user was faster than the applier; an absent file that is about to be written was
\* left absent, or the same holds.
Latest == ~unseen /\ feed = <<>>
Surfaced ==
    /\ Latest /\ ~doc.deleted /\ job.pc = "idle" /\ leaves # {} /\ ~doc.mine
         => copy # Missing \/ Diverging
    /\ Latest /\ ~doc.deleted /\ job.pc \in {"decide", "writeWinner"} /\ job.local = Missing
         => vault = Missing \/ Diverging
    /\ job.pc = "write" => job.conf = {}
    /\ job.pc = "writeWinner" => job.local = Missing

\* Which changes are on the way to which end.
Sorted ==
    /\ job.pc = "delete" => job.doc.deleted
    /\ job.pc \in {"write", "writeWinner", "materialize"} => ~job.doc.deleted

\* Once a deletion by another device is applied, the file is gone or the user is asked, or
\* the file was edited since and will be uploaded.
Gone ==
    Latest /\ doc.deleted /\ ~doc.mine /\ DeletePolicy # "ignore-delete" /\ job.pc = "idle"
      => vault = Missing \/ held \/ swallowed \/ (Edited /\ newer)

ConflictInv == Typed /\ PendingExact /\ UpToDate /\ Sorted /\ Surfaced /\ Gone

-----------------------------------------------------------------------------
(* The constants, and what each group of actions leaves alone.              *)

LEMMA Constants ==
    /\ Missing \notin Texts /\ IsFiniteSet(Uploaders)
    /\ MaxAttempts \in Nat /\ MaxAttempts > 0
    /\ MaxSaves \in Nat /\ MaxRemoves \in Nat /\ MaxPulls \in Nat
BY NoteLinkAssumption

LEMMA Sequences ==
    ASSUME NEW S
    PROVE  /\ <<>> \in Seq(S)
           /\ \A s \in Seq(S) : /\ \A e \in S : Append(s, e) \in Seq(S)
                               /\ s # <<>> => Head(s) \in S /\ Tail(s) \in Seq(S)
OBVIOUS

LEMMA PartsAreType == TypeOK <=> Parts
BY DEF TypeOK, Parts, FileType, GuardType, WatchType, UpType, DelType, DbType, FeedType, JobType,
       KeepType, HistoryType, BoundType, Text, Event, UpPc, JobPc

LEMMA UserFrame ==
    User => UNCHANGED <<swallowed, guardVars, watchVars, up, del, dbVars, feed, job, keepVars, pulls>>
BY DEF User, Save, Remove

LEMMA WatcherFrame ==
    Watcher => UNCHANGED <<vault, newer, up, dbVars, feed, job, keepVars, bounds, typed, owed>>
BY DEF Watcher, OnModify, OnStructural, GuardReleases, SuppressExpires, EchoChecked, guardVars,
       watchVars, dbVars, keepVars, bounds, vaultVars, history

LEMMA UploadFrame ==
    ASSUME NEW u \in Uploaders, Upload(u)
    PROVE  UNCHANGED <<vaultVars, guardVars, checking, del, feed, job, copy, backup, trash, held,
                       bounds, typed, noticed, owed>>
BY DEF Upload, TimerFires, UploadRead, UploadGet, UploadPut, UploadConflict, UploadRecord,
       UploadFails, history, watchVars, keepVars

LEMMA TombstoneFrame ==
    Tombstone => UNCHANGED <<vault, events, guardVars, watchVars, up, feed, job, copy, backup, trash,
                             held, bounds, history>>
BY DEF Tombstone, TombGet, TombPut, TombLeaves, vaultVars, keepVars

LEMMA ApplierFrame ==
    Applier => UNCHANGED <<watchVars, up, del, doc, nextId, reached, bounds, swallowed, noticed>>
BY DEF Applier, FeedDelivers, ApplyStarts, ApplySame, ApplyHeldBack, ApplyConflict,
       ApplyMaterialize, ApplySelf, ApplyPrepares, ApplyWrites, DeletionSkipped, DeletionHeld,
       DeletionPrepares, ApplyDeletes, dbVars, bounds, history

LEMMA ReplicationFrame ==
    Replication => UNCHANGED <<vault, events, guardVars, watchVars, up, del, feed, job, keepVars,
                               saves, removes, history>>
BY DEF Replication, PullDelete, PullEdit, PullBranch, PullResolution, PulledRev

\* The applier's steps that leave the file alone, and its two that do not.
LEMMA ApplierFile ==
    Applier => ApplyWrites \/ ApplyDeletes \/ UNCHANGED <<vaultVars, typed>>
BY DEF Applier, FeedDelivers, ApplyStarts, ApplySame, ApplyHeldBack, ApplyConflict,
       ApplyMaterialize, ApplySelf, ApplyPrepares, DeletionSkipped, DeletionHeld,
       DeletionPrepares, history, vaultVars

LEMMA WatcherMark ==
    Watcher => UNCHANGED <<mark>> \/ GuardReleases
BY DEF Watcher, OnModify, OnStructural, GuardReleases, SuppressExpires, EchoChecked, guardVars,
       watchVars, dbVars, keepVars, bounds, vaultVars, history

-----------------------------------------------------------------------------
(* Types.                                                                   *)

LEMMA TypedInit == Init => Typed
<1> SUFFICES ASSUME Init PROVE Typed
  OBVIOUS
<1>1. NoDoc \in Rev
  BY DEF NoDoc, Rev
<1>2. doc \in Rev /\ vault \in Text /\ reached \subseteq Texts
  <2>1. CASE doc = NoDoc /\ vault = Missing /\ reached = {}
    BY <2>1, <1>1 DEF Text
  <2>2. ASSUME NEW t \in Texts, doc = [id |-> 1, text |-> t, mine |-> FALSE, deleted |-> FALSE],
               vault = t, reached = {t}
        PROVE  doc \in Rev /\ vault \in Text /\ reached \subseteq Texts
    BY <2>2 DEF Rev, Text
  <2> QED BY <2>1, <2>2 DEF Init
<1>3. FileType /\ GuardType /\ WatchType /\ KeepType /\ HistoryType
  BY <1>2, Sequences DEF Init, FileType, GuardType, WatchType, KeepType, HistoryType, Text
<1>4. UpType /\ DelType /\ JobType
  BY <1>1, Constants, SMT DEF Init, UpType, DelType, JobType, IdleUp, IdleDel, IdleJob, UpPc, JobPc, Text
<1>5. DbType /\ FeedType /\ BoundType
  <2>1. feed \in Seq([doc : Rev, conf : SUBSET Rev])
    BY Sequences DEF Init
  <2>2. leaves \subseteq Rev /\ nextId \in Nat /\ unseen \in BOOLEAN
    BY DEF Init
  <2>3. BoundType
    BY Constants DEF Init, BoundType
  <2> QED BY <1>2, <2>1, <2>2, <2>3 DEF DbType, FeedType
<1>6. Revisions
  BY SMT DEF Init, Revisions, Exists, NoDoc
<1>7. Reading /\ Changes
  BY SMT DEF Init, Reading, Changes, IdleUp, IdleDel, IdleJob, NoDoc
<1> QED
  BY <1>3, <1>4, <1>5, <1>6, <1>7 DEF Typed, Parts

LEMMA FileStep == Typed /\ [Next]_vars => FileType'
<1> SUFFICES ASSUME Typed, [Next]_vars PROVE FileType'
  OBVIOUS
<1> USE DEF Typed, Parts, FileType, Text
<1>0. \A e \in {"modify", "removed", "archived"} : Append(events, e) \in Seq(Event)
  BY Sequences DEF Event
<1>1. CASE User
  BY <1>0, <1>1 DEF User, Save, Remove
<1>2. CASE Watcher
  <2>1. events' = events \/ (events # <<>> /\ events' = Tail(events))
    BY <1>2 DEF Watcher, OnModify, OnStructural, EchoChecked, GuardReleases, SuppressExpires, vaultVars
  <2> QED BY <1>2, <2>1, WatcherFrame, Sequences
<1>3. ASSUME NEW u \in Uploaders, Upload(u) PROVE FileType'
  BY <1>3, UploadFrame DEF vaultVars
<1>4. CASE Tombstone
  <2>1. newer' \in BOOLEAN
    BY <1>4 DEF Tombstone, TombGet, TombPut, TombLeaves, vaultVars
  <2> QED BY <1>4, <2>1, TombstoneFrame
<1>5. CASE Applier
  <2>1. CASE ApplyWrites
    BY <1>0, <2>1 DEF ApplyWrites, JobType, Rev, vaultVars
  <2>2. CASE ApplyDeletes
    BY <1>0, <2>2 DEF ApplyDeletes
  <2> QED BY <1>5, <2>1, <2>2, ApplierFile DEF vaultVars
<1>6. CASE Replication
  <2>1. newer' \in BOOLEAN
    BY <1>6 DEF Replication, PullDelete, PullEdit, PullBranch, PullResolution
  <2> QED BY <1>6, <2>1, ReplicationFrame
<1>7. CASE UNCHANGED vars
  BY <1>7 DEF vars, vaultVars
<1> QED
  BY <1>1, <1>2, <1>3, <1>4, <1>5, <1>6, <1>7 DEF Next

LEMMA GuardStep == Typed /\ [Next]_vars => GuardType'
<1> SUFFICES ASSUME Typed, [Next]_vars PROVE GuardType'
  OBVIOUS
<1> USE DEF Typed, Parts, GuardType, Text, guardVars
<1>1. CASE User
  BY <1>1, UserFrame
<1>2. CASE Watcher
  BY <1>2 DEF Watcher, OnModify, OnStructural, EchoChecked, GuardReleases, SuppressExpires
<1>3. ASSUME NEW u \in Uploaders, Upload(u) PROVE GuardType'
  BY <1>3, UploadFrame
<1>4. CASE Tombstone
  BY <1>4, TombstoneFrame
<1>5. CASE Applier
  <2>1. job.doc.text \in Texts \cup {Missing}
    BY DEF JobType, Rev
  <2> QED
    BY <1>5, <2>1 DEF Applier, FeedDelivers, ApplyStarts, ApplySame, ApplyHeldBack, ApplyConflict,
       ApplyMaterialize, ApplySelf, ApplyPrepares, ApplyWrites, DeletionSkipped, DeletionHeld,
       DeletionPrepares, ApplyDeletes
<1>6. CASE Replication
  BY <1>6, ReplicationFrame
<1>7. CASE UNCHANGED vars
  BY <1>7 DEF vars
<1> QED
  BY <1>1, <1>2, <1>3, <1>4, <1>5, <1>6, <1>7 DEF Next

LEMMA WatchStep == Typed /\ [Next]_vars => WatchType'
<1> SUFFICES ASSUME Typed, [Next]_vars PROVE WatchType'
  OBVIOUS
<1> USE DEF Typed, Parts, WatchType, watchVars
<1>1. CASE User
  BY <1>1, UserFrame
<1>2. CASE Watcher
  <2>1. checking' \subseteq checking \cup ({vault} \ {Missing})
    BY <1>2 DEF Watcher, OnModify, OnStructural, EchoChecked, GuardReleases, SuppressExpires
  <2>2. Schedule \/ UNCHANGED <<timer, pend>>
    BY <1>2 DEF Watcher, OnModify, OnStructural, EchoChecked, GuardReleases, SuppressExpires
  <2>3. pend' \in Nat
    BY <2>2 DEF Schedule
  <2>4. timer' \in BOOLEAN
    BY <2>2, Zenon DEF Schedule
  <2> QED BY <2>1, <2>3, <2>4 DEF FileType, Text
<1>3. ASSUME NEW u \in Uploaders, Upload(u) PROVE WatchType'
  <2>1. pend' \in Nat
    <3>1. Release \/ pend' = pend
      BY <1>3 DEF Upload, TimerFires, UploadRead, UploadGet, UploadPut, UploadConflict, UploadRecord,
         UploadFails, UploadEnds
    <3> QED BY <3>1 DEF Release
  <2>2. timer' = FALSE \/ timer' = timer
    BY <1>3 DEF Upload, TimerFires, UploadRead, UploadGet, UploadPut, UploadConflict, UploadRecord,
       UploadFails
  <2> QED BY <1>3, <2>1, <2>2, UploadFrame, Zenon
<1>4. CASE Tombstone
  BY <1>4, TombstoneFrame
<1>5. CASE Applier
  BY <1>5, ApplierFrame
<1>6. CASE Replication
  BY <1>6, ReplicationFrame
<1>7. CASE UNCHANGED vars
  BY <1>7 DEF vars
<1> QED
  BY <1>1, <1>2, <1>3, <1>4, <1>5, <1>6, <1>7 DEF Next

LEMMA UpStep == Typed /\ [Next]_vars => UpType'
<1> SUFFICES ASSUME Typed, [Next]_vars PROVE UpType'
  OBVIOUS
<1> USE DEF Typed, Parts, UpType
<1>1. CASE User
  BY <1>1, UserFrame
<1>2. CASE Watcher
  BY <1>2, WatcherFrame
<1>3. ASSUME NEW u \in Uploaders, Upload(u) PROVE UpType'
  <2>1. IdleUp \in [pc : UpPc, text : Text, seen : Rev, attempt : 0..MaxAttempts]
    BY Constants DEF IdleUp, NoDoc, Rev, UpPc, Text
  <2>2. [IdleUp EXCEPT !.pc = "read"] \in [pc : UpPc, text : Text, seen : Rev, attempt : 0..MaxAttempts]
    BY <2>1 DEF UpPc
  <2>3. [IdleUp EXCEPT !.pc = "get", !.text = vault, !.attempt = 1]
           \in [pc : UpPc, text : Text, seen : Rev, attempt : 0..MaxAttempts]
    <3>1. vault \in Text /\ 1 \in 0..MaxAttempts
      BY Constants DEF FileType
    <3> QED BY <2>1, <3>1 DEF UpPc
  <2>4. CASE TimerFires(u)
    BY <2>4, <2>2 DEF TimerFires
  <2>5. CASE UploadRead(u)
    BY <2>5, <2>1, <2>3 DEF UploadRead, UploadEnds
  <2>6. CASE UploadGet(u)
    BY <2>6, <2>1 DEF UploadGet, UploadEnds, UpPc, DbType
  <2>7. CASE UploadPut(u)
    BY <2>7, <2>1 DEF UploadPut, UpPc
  <2>8. CASE UploadConflict(u)
    BY <2>8, <2>1, Constants DEF UploadConflict, UploadEnds, UpPc
  <2>9. CASE UploadRecord(u) \/ UploadFails(u)
    BY <2>9, <2>1 DEF UploadRecord, UploadFails, UploadEnds
  <2> QED BY <1>3, <2>4, <2>5, <2>6, <2>7, <2>8, <2>9 DEF Upload
<1>4. CASE Tombstone
  BY <1>4, TombstoneFrame
<1>5. CASE Applier
  BY <1>5, ApplierFrame
<1>6. CASE Replication
  BY <1>6, ReplicationFrame
<1>7. CASE UNCHANGED vars
  BY <1>7 DEF vars
<1> QED
  BY <1>1, <1>2, <1>3, <1>4, <1>5, <1>6, <1>7 DEF Next

LEMMA DelStep == Typed /\ [Next]_vars => DelType'
<1> SUFFICES ASSUME Typed, [Next]_vars PROVE DelType'
  OBVIOUS
<1> USE DEF Typed, Parts, DelType
<1>0. IdleDel \in [pc : {"idle", "get", "put", "leaves"}, seen : Rev, conf : SUBSET Rev,
                   attempt : 0..MaxAttempts]
  BY Constants DEF IdleDel, NoDoc, Rev
<1>1. CASE User
  BY <1>1, UserFrame
<1>2. CASE Watcher
  <2>1. del' = del \/ del' = [IdleDel EXCEPT !.pc = "get", !.attempt = 1]
    BY <1>2 DEF Watcher, OnModify, OnStructural, EchoChecked, GuardReleases, SuppressExpires
  <2>2. 1 \in 0..MaxAttempts
    BY Constants
  <2> QED BY <1>0, <2>1, <2>2
<1>3. ASSUME NEW u \in Uploaders, Upload(u) PROVE DelType'
  BY <1>3, UploadFrame
<1>4. CASE Tombstone
  <2>1. CASE TombGet
    BY <2>1, <1>0 DEF TombGet, DbType
  <2>2. CASE TombPut
    <3>1. \/ del' = [del EXCEPT !.pc = "leaves"] \/ del' = IdleDel
          \/ del.attempt < MaxAttempts /\ del' = [del EXCEPT !.pc = "get", !.attempt = @ + 1]
      BY <2>2 DEF TombPut
    <3>2. del.attempt < MaxAttempts => del.attempt + 1 \in 0..MaxAttempts
      BY Constants
    <3> QED BY <1>0, <3>1, <3>2
  <2>3. CASE TombLeaves
    BY <2>3, <1>0 DEF TombLeaves
  <2> QED BY <1>4, <2>1, <2>2, <2>3 DEF Tombstone
<1>5. CASE Applier
  BY <1>5, ApplierFrame
<1>6. CASE Replication
  BY <1>6, ReplicationFrame
<1>7. CASE UNCHANGED vars
  BY <1>7 DEF vars
<1> QED
  BY <1>1, <1>2, <1>3, <1>4, <1>5, <1>6, <1>7 DEF Next

\* A put on a leaf: the database stays in order.
LEMMA PutKeeps ==
    ASSUME Typed, NEW seen, IsLeaf(seen), NEW text \in Texts, NEW mine \in BOOLEAN,
           NEW deleted \in BOOLEAN, PutOn(seen, NewRev(text, mine, deleted))
    PROVE  DbType' /\ Revisions'
<1> USE DEF Typed, Parts
<1> DEFINE new == NewRev(text, mine, deleted)
<1>1. new \in Rev /\ new.id = nextId /\ new.text = text
  BY DEF NewRev, Rev, DbType, Text
<1>2. nextId' = nextId + 1 /\ unseen' = TRUE /\ reached' = reached \cup {text}
  BY <1>1 DEF PutOn
<1> HIDE DEF new
<1>3. CASE doc' = new /\ leaves' = leaves
  BY <1>1, <1>2, <1>3 DEF DbType, Revisions, Exists
<1>4. CASE seen # doc /\ doc' = new /\ leaves' = (leaves \ {seen}) \cup {doc}
  <2>1. Exists(doc)
    BY <1>4 DEF IsLeaf, Revisions
  <2> QED BY <1>1, <1>2, <1>4, <2>1 DEF DbType, Revisions, Exists
<1>5. CASE seen # doc /\ doc' = doc /\ leaves' = (leaves \ {seen}) \cup {new}
  <2>1. Exists(doc)
    BY <1>5 DEF IsLeaf, Revisions
  <2>2. doc.id < nextId'
    BY <1>2 DEF DbType, Rev, Revisions
  <2> QED BY <1>1, <1>2, <1>5, <2>1, <2>2 DEF DbType, Revisions, Exists
<1> QED BY <1>3, <1>4, <1>5 DEF PutOn, new

LEMMA UploadDb ==
    ASSUME NEW u \in Uploaders, Upload(u) PROVE UploadPut(u) \/ UNCHANGED dbVars
BY DEF Upload, TimerFires, UploadRead, UploadGet, UploadConflict, UploadRecord, UploadFails

LEMMA ApplierDb ==
    Applier => /\ leaves' \subseteq leaves
               /\ unseen' = FALSE \/ unseen' = unseen \/ (leaves # {} /\ unseen' = TRUE)
<1> SUFFICES ASSUME Applier
             PROVE  /\ leaves' \subseteq leaves
                    /\ unseen' = FALSE \/ unseen' = unseen \/ (leaves # {} /\ unseen' = TRUE)
  OBVIOUS
<1>1. CASE UNCHANGED <<leaves, unseen>>
  BY <1>1
<1>2. CASE FeedDelivers
  BY <1>2 DEF FeedDelivers
<1>3. ASSUME Materialize
      PROVE  /\ leaves' \subseteq leaves
             /\ unseen' = FALSE \/ unseen' = unseen \/ (leaves # {} /\ unseen' = TRUE)
  <2>1. CASE UNCHANGED <<leaves, unseen>>
    BY <2>1
  <2>2. CASE leaves' = leaves \ job.conf /\ unseen' = (unseen \/ leaves \cap job.conf # {})
    <3>1. CASE leaves \cap job.conf = {}
      BY <2>2, <3>1
    <3>2. CASE leaves \cap job.conf # {}
      BY <2>2, <3>2
    <3> QED BY <3>1, <3>2
  <2> QED BY <1>3, <2>1, <2>2 DEF Materialize
<1>4. Materialize \/ UNCHANGED <<leaves, unseen>> \/ FeedDelivers
  BY DEF Applier, ApplyStarts, ApplySame, ApplyHeldBack, ApplyConflict, ApplyMaterialize, ApplySelf,
     ApplyPrepares, ApplyWrites, DeletionSkipped, DeletionHeld, DeletionPrepares, ApplyDeletes, dbVars
<1> QED BY <1>1, <1>2, <1>3, <1>4

LEMMA DbStep == Typed /\ [Next]_vars => DbType' /\ Revisions'
<1> SUFFICES ASSUME Typed, [Next]_vars PROVE DbType' /\ Revisions'
  OBVIOUS
<1> USE DEF Typed, Parts
<1>0. CASE UNCHANGED dbVars
  BY <1>0 DEF dbVars, DbType, Revisions
<1>1. CASE User \/ Watcher
  BY <1>0, <1>1, UserFrame, WatcherFrame
<1>2. ASSUME NEW u \in Uploaders, UploadPut(u) PROVE DbType' /\ Revisions'
  <2>1. up[u].text \in Texts /\ IsLeaf(up[u].seen)
           /\ PutOn(up[u].seen, NewRev(up[u].text, TRUE, FALSE))
    BY <1>2 DEF UploadPut, Reading
  <2> QED BY <2>1, PutKeeps
<1>3. CASE Tombstone
  <2>1. CASE TombPut
    <3>1. CASE IsLeaf(del.seen) /\ PutOn(del.seen, NewRev(del.seen.text, TRUE, TRUE))
      <4>1. del.seen.text \in Texts
        BY <2>1 DEF TombPut, Reading
      <4> QED BY <3>1, <4>1, PutKeeps
    <3> QED BY <1>0, <2>1, <3>1 DEF TombPut
  <2>2. CASE TombLeaves
    <3>1. leaves' \subseteq leaves /\ (leaves = {} => unseen' = unseen) /\ unseen' \in BOOLEAN
      BY <2>2 DEF TombLeaves, DbType
    <3>2. UNCHANGED <<doc, nextId, reached>>
      BY <2>2 DEF TombLeaves
    <3> QED BY <3>1, <3>2 DEF DbType, Revisions
  <2> QED BY <1>0, <1>3, <2>1, <2>2 DEF Tombstone, TombGet
<1>4. CASE Applier
  <2>1. unseen' \in BOOLEAN /\ (unseen' => unseen \/ leaves # {})
    <3>1. CASE unseen' = FALSE
      BY <3>1
    <3>2. CASE unseen' = unseen
      BY <3>2 DEF DbType
    <3>3. CASE leaves # {} /\ unseen' = TRUE
      BY <3>3
    <3> QED BY <1>4, <3>1, <3>2, <3>3, ApplierDb
  <2> QED BY <1>4, <2>1, ApplierDb, ApplierFrame DEF DbType, Revisions
<1>5. CASE Replication
  <2>1. ASSUME NEW text \in Texts, NEW deleted \in BOOLEAN, PulledRev(text, deleted),
               \/ doc' = NewRev(text, FALSE, deleted)
                  /\ (leaves' = leaves \/ leaves' = {} \/ (Exists(doc) /\ leaves' = leaves \cup {doc}))
               \/ Exists(doc) /\ doc' = doc /\ leaves' = leaves \cup {NewRev(text, FALSE, deleted)}
        PROVE  DbType' /\ Revisions'
    <3> DEFINE new == NewRev(text, FALSE, deleted)
    <3>1. new \in Rev /\ new.id = nextId /\ new.text = text
      BY DEF NewRev, Rev, DbType, Text
    <3>2. nextId' = nextId + 1 /\ unseen' = TRUE /\ reached' = reached \cup {text}
      BY <2>1 DEF PulledRev
    <3> HIDE DEF new
    <3>3. CASE doc' = new /\ (leaves' = leaves \/ leaves' = {} \/ (Exists(doc) /\ leaves' = leaves \cup {doc}))
      BY <3>1, <3>2, <3>3 DEF DbType, Revisions, Exists
    <3>4. CASE Exists(doc) /\ doc' = doc /\ leaves' = leaves \cup {new}
      <4>1. doc.id < nextId'
        BY <3>2 DEF DbType, Rev, Revisions
      <4> QED BY <3>1, <3>2, <3>4, <4>1 DEF DbType, Revisions, Exists
    <3> QED BY <2>1, <3>3, <3>4 DEF new
  <2>2. CASE PullDelete
    <3>1. doc.text \in Texts
      BY <2>2 DEF PullDelete, Revisions, DbType
    <3> QED BY <2>1, <2>2, <3>1 DEF PullDelete
  <2>3. ASSUME NEW t \in Texts, PullEdit(t) PROVE DbType' /\ Revisions'
    BY <2>1, <2>3 DEF PullEdit
  <2>4. ASSUME NEW t \in Texts, PullBranch(t) PROVE DbType' /\ Revisions'
    <3>1. Exists(doc)
      BY <2>4 DEF PullBranch, Exists, DbType, Rev
    <3> QED BY <2>1, <2>4, <3>1 DEF PullBranch
  <2>5. ASSUME NEW t \in Texts, PullResolution(t) PROVE DbType' /\ Revisions'
    BY <2>1, <2>5 DEF PullResolution
  <2> QED BY <1>5, <2>2, <2>3, <2>4, <2>5 DEF Replication
<1>6. CASE UNCHANGED vars
  BY <1>0, <1>6 DEF vars
<1> QED
  BY <1>0, <1>1, <1>2, <1>3, <1>4, <1>5, <1>6, UploadDb DEF Next

LEMMA ApplierJob ==
    Applier =>
        \/ FeedDelivers /\ UNCHANGED <<job, mark>>
        \/ ApplyStarts /\ UNCHANGED mark
        \/ /\ UNCHANGED feed
           /\ \/ job' = IdleJob
              \/ job.pc # "idle" /\ \E pc \in JobPc \ {"idle"} : job' = [job EXCEPT !.pc = pc]
           /\ mark' \in {mark, job.doc.text} /\ (job.pc = "idle" => mark' = mark)
<1> USE DEF JobContinues, JobEnds, JobPc, Live, Deciding, guardVars
<1>1. FeedDelivers => UNCHANGED <<job, mark>>
  BY DEF FeedDelivers
<1>2. ApplyStarts => UNCHANGED mark
  BY DEF ApplyStarts
<1>3. ApplySame \/ ApplyHeldBack \/ ApplyMaterialize \/ ApplySelf \/ DeletionSkipped \/ DeletionHeld
        \/ ApplyDeletes => UNCHANGED <<feed, mark>> /\ job' = IdleJob
  BY DEF ApplySame, ApplyHeldBack, ApplyMaterialize, ApplySelf, DeletionSkipped, DeletionHeld, ApplyDeletes
<1>4. ApplyConflict \/ ApplyPrepares \/ DeletionPrepares
        => /\ job.pc = "decide" /\ UNCHANGED feed /\ mark' \in {mark, job.doc.text}
           /\ \/ job' = [job EXCEPT !.pc = "materialize"] \/ job' = [job EXCEPT !.pc = "writeWinner"]
              \/ job' = [job EXCEPT !.pc = "write"] \/ job' = [job EXCEPT !.pc = "delete"]
  BY DEF ApplyConflict, ApplyPrepares, DeletionPrepares
<1>5. ApplyWrites => /\ job.pc # "idle" /\ UNCHANGED <<feed, mark>>
                     /\ job' = IdleJob \/ job' = [job EXCEPT !.pc = "materialize"]
  BY DEF ApplyWrites
<1> QED BY <1>1, <1>2, <1>3, <1>4, <1>5 DEF Applier

LEMMA QueueStep == Typed /\ [Next]_vars => FeedType' /\ JobType'
<1> SUFFICES ASSUME Typed, [Next]_vars PROVE FeedType' /\ JobType'
  OBVIOUS
<1> USE DEF Typed, Parts, FeedType, JobType
<1> DEFINE Changed == [doc : Rev, conf : SUBSET Rev]
<1>1. CASE User \/ Watcher \/ (\E u \in Uploaders : Upload(u)) \/ Tombstone \/ Replication
  BY <1>1, UserFrame, WatcherFrame, UploadFrame, TombstoneFrame, ReplicationFrame
<1>2. CASE FeedDelivers
  <2>1. [doc |-> doc, conf |-> leaves] \in Changed
    BY DEF DbType
  <2>2. feed' = Append(feed, [doc |-> doc, conf |-> leaves]) /\ job' = job
    BY <1>2 DEF FeedDelivers
  <2> HIDE DEF Changed
  <2>3. feed' \in Seq(Changed)
    BY <2>1, <2>2, Sequences DEF Changed
  <2> QED BY <2>2, <2>3 DEF Changed
<1>3. CASE ApplyStarts
  <2>1. Head(feed) \in Changed /\ feed' \in Seq(Changed)
    <3> feed \in Seq(Changed) /\ feed # <<>> /\ feed' = Tail(feed)
      BY <1>3 DEF ApplyStarts
    <3> HIDE DEF Changed
    <3> QED BY Sequences
  <2>2. job' = [pc |-> "decide", doc |-> Head(feed).doc, conf |-> Head(feed).conf, local |-> vault]
    BY <1>3 DEF ApplyStarts
  <2> QED BY <2>1, <2>2 DEF JobPc, FileType
<1>4. CASE Applier /\ ~FeedDelivers /\ ~ApplyStarts
  <2>1. IdleJob \in [pc : JobPc, doc : Rev, conf : SUBSET Rev, local : Text]
    BY DEF IdleJob, NoDoc, Rev, JobPc, Text
  <2> QED BY <1>4, <2>1, ApplierJob
<1>5. CASE UNCHANGED vars
  BY <1>5 DEF vars
<1> QED
  BY <1>1, <1>2, <1>3, <1>4, <1>5 DEF Next, Applier

LEMMA KeepStep == Typed /\ [Next]_vars => KeepType'
<1> SUFFICES ASSUME Typed, [Next]_vars PROVE KeepType'
  OBVIOUS
<1> USE DEF Typed, Parts, KeepType, Text, keepVars
<1>1. CASE User \/ Watcher \/ Replication
  BY <1>1, UserFrame, WatcherFrame, ReplicationFrame
<1>2. ASSUME NEW u \in Uploaders, Upload(u) PROVE KeepType'
  <2>1. versions' \subseteq Texts
    <3>1. Intervening(up[u].text, doc) \subseteq Text /\ {up[u].text} \subseteq Text
      BY DEF Intervening, DbType, Rev, UpType
    <3>2. \A texts \in SUBSET Text : Keep(texts) \subseteq Texts
      BY DEF Keep
    <3>3. \/ versions' = versions \/ versions' = Keep(Intervening(up[u].text, doc))
          \/ versions' = Keep({up[u].text})
      BY <1>2 DEF Upload, TimerFires, UploadRead, UploadGet, UploadPut, UploadConflict, UploadRecord,
         UploadFails
    <3> QED BY <3>1, <3>2, <3>3
  <2> QED BY <1>2, <2>1, UploadFrame
<1>3. CASE Tombstone
  <2>1. versions' \subseteq Texts
    <3>1. {doc.text} \subseteq Text /\ {r.text : r \in del.conf} \subseteq Text
      BY DEF DbType, Rev, DelType
    <3>2. \A texts \in SUBSET Text : Keep(texts) \subseteq Texts
      BY DEF Keep
    <3>3. \/ versions' = versions \/ versions' = Keep({doc.text})
          \/ versions' = Keep({r.text : r \in del.conf})
      BY <1>3 DEF Tombstone, TombGet, TombPut, TombLeaves
    <3> QED BY <3>1, <3>2, <3>3
  <2> QED BY <1>3, <2>1, TombstoneFrame
<1>4. CASE Applier
  <2>0. job.doc.text \in Text /\ \A r \in job.conf : r.text \in Text
    BY DEF JobType, Rev
  <2>1. held' \in BOOLEAN /\ UNCHANGED versions
    BY <1>4 DEF Applier, FeedDelivers, ApplyStarts, ApplySame, ApplyHeldBack, ApplyConflict,
       ApplyMaterialize, ApplySelf, ApplyPrepares, ApplyWrites, DeletionSkipped, DeletionHeld,
       DeletionPrepares, ApplyDeletes
  <2>2. backup' \in Text
    <3>1. backup' \in {backup, job.local, Missing}
      BY <1>4 DEF Applier, FeedDelivers, ApplyStarts, ApplySame, ApplyHeldBack, ApplyConflict,
         ApplyMaterialize, ApplySelf, ApplyPrepares, ApplyWrites, DeletionSkipped, DeletionHeld,
         DeletionPrepares, ApplyDeletes
    <3> QED BY <3>1 DEF JobType
  <2>3. copy' \in Text /\ trash' \subseteq Texts
    <3>1. Materialize => copy' \in Text /\ trash' \subseteq Texts
      BY <2>0 DEF Materialize, RemoteLeaf, DropCopy
    <3>2. \/ Materialize \/ DropCopy \/ UNCHANGED <<copy, trash>>
          \/ copy' = Missing /\ trash' = trash \cup ({copy, backup} \ {Missing})
          \/ vault # Missing /\ trash' = trash \cup {vault} /\ UNCHANGED copy
      BY <1>4 DEF Applier, FeedDelivers, ApplyStarts, ApplySame, ApplyHeldBack, ApplyConflict,
         ApplyMaterialize, ApplySelf, ApplyPrepares, ApplyWrites, DeletionSkipped, DeletionHeld,
         DeletionPrepares, ApplyDeletes
    <3> QED BY <3>1, <3>2 DEF DropCopy, FileType
  <2> QED BY <2>1, <2>2, <2>3
<1>5. CASE UNCHANGED vars
  BY <1>5 DEF vars
<1> QED
  BY <1>1, <1>2, <1>3, <1>4, <1>5 DEF Next

LEMMA RestStep == Typed /\ [Next]_vars => HistoryType' /\ BoundType'
<1> SUFFICES ASSUME Typed, [Next]_vars PROVE HistoryType' /\ BoundType'
  OBVIOUS
<1> USE DEF Typed, Parts, HistoryType, Text, history, bounds
<1>1. CASE User
  <2>1. HistoryType'
    BY <1>1, UserFrame DEF User, Save, Remove
  <2>2. BoundType'
    BY <1>1, UserFrame, Constants DEF User, Save, Remove, BoundType
  <2> QED BY <2>1, <2>2
<1>2. CASE Watcher
  <2>1. noticed' \in Text
    BY <1>2 DEF Watcher, OnModify, OnStructural, GuardReleases, SuppressExpires, EchoChecked, Schedule,
       FileType
  <2>2. swallowed' \in BOOLEAN
    BY <1>2 DEF Watcher, OnModify, OnStructural, GuardReleases, SuppressExpires, EchoChecked
  <2> QED BY <1>2, <2>1, <2>2, WatcherFrame DEF BoundType
<1>3. ASSUME NEW u \in Uploaders, Upload(u) PROVE HistoryType' /\ BoundType'
  <2>1. swallowed' \in BOOLEAN
    BY <1>3 DEF Upload, TimerFires, UploadRead, UploadGet, UploadPut, UploadConflict, UploadRecord,
       UploadFails
  <2> QED BY <1>3, <2>1, UploadFrame DEF BoundType
<1>4. CASE Tombstone
  BY <1>4, TombstoneFrame DEF BoundType
<1>5. CASE Applier
  <2>1. typed' \in Text
    BY <1>5, ApplierFile DEF ApplyWrites, ApplyDeletes
  <2>2. owed' \in Text
    BY <1>5 DEF Applier, FeedDelivers, ApplyStarts, ApplySame, ApplyHeldBack, ApplyConflict,
       ApplyMaterialize, ApplySelf, ApplyPrepares, ApplyWrites, DeletionSkipped, DeletionHeld,
       DeletionPrepares, ApplyDeletes
  <2> QED BY <1>5, <2>1, <2>2, ApplierFrame DEF BoundType
<1>6. CASE Replication
  <2>1. pulls < MaxPulls /\ pulls' = pulls + 1
    BY <1>6 DEF Replication, PullDelete, PullEdit, PullBranch, PullResolution, PulledRev
  <2> QED BY <1>6, <2>1, ReplicationFrame, Constants DEF BoundType
<1>7. CASE UNCHANGED vars
  BY <1>7 DEF vars, BoundType
<1> QED
  BY <1>1, <1>2, <1>3, <1>4, <1>5, <1>6, <1>7 DEF Next

\* The database forgets no text, and ids are not used twice.
LEMMA Growing == Typed /\ [Next]_vars => reached \subseteq reached' /\ nextId <= nextId'
<1> SUFFICES ASSUME Typed, [Next]_vars PROVE reached \subseteq reached' /\ nextId <= nextId'
  OBVIOUS
<1>1. \/ UNCHANGED <<reached, nextId>>
      \/ nextId' = nextId + 1 /\ \E text : reached' = reached \cup {text}
  <2>1. CASE UNCHANGED dbVars \/ Applier \/ User \/ Watcher
    BY <2>1, ApplierFrame, UserFrame, WatcherFrame DEF dbVars
  <2>2. ASSUME NEW u \in Uploaders, UploadPut(u)
        PROVE  nextId' = nextId + 1 /\ \E text : reached' = reached \cup {text}
    BY <2>2 DEF UploadPut, PutOn
  <2>3. CASE Tombstone
    BY <2>3 DEF Tombstone, TombGet, TombPut, TombLeaves, PutOn, dbVars
  <2>4. CASE Replication
    BY <2>4 DEF Replication, PullDelete, PullEdit, PullBranch, PullResolution, PulledRev
  <2> QED BY <2>1, <2>2, <2>3, <2>4, UploadDb DEF Next, vars
<1> QED BY <1>1 DEF Typed, Parts, DbType

LEMMA ReadingStep == Typed /\ [Next]_vars => Reading'
<1> SUFFICES ASSUME Typed, [Next]_vars PROVE Reading'
  OBVIOUS
<1> USE DEF Typed, Parts, Reading
<1>0. nextId \in Nat /\ nextId' \in Nat /\ nextId <= nextId' /\ nextId > 0
  BY Growing, DbStep DEF DbType, Revisions
<1>a. \A u \in Uploaders : up[u].seen.id \in Nat
  BY DEF UpType, Rev
<1>1. ASSUME UNCHANGED <<up, del>> PROVE Reading'
  BY <1>0, <1>a, <1>1
<1>2. ASSUME NEW u \in Uploaders, Upload(u) PROVE Reading'
  <2>1. UNCHANGED del
    BY <1>2, UploadFrame
  <2>2. \A v \in Uploaders \ {u} : up'[v] = up[v]
    BY <1>2 DEF Upload, TimerFires, UploadRead, UploadGet, UploadPut, UploadConflict, UploadRecord,
       UploadFails, UploadEnds, UpType
  <2>3. /\ up'[u].pc \in {"get", "put", "record"} => up'[u].text \in Texts
        /\ up'[u].seen.id < nextId'
    <3> up \in [Uploaders -> [pc : UpPc, text : Text, seen : Rev, attempt : 0..MaxAttempts]]
      BY DEF UpType
    <3>1. CASE up'[u] = IdleUp \/ up'[u] = [IdleUp EXCEPT !.pc = "read"]
      BY <1>0, <3>1 DEF IdleUp, NoDoc
    <3>2. CASE vault # Missing /\ up'[u] = [IdleUp EXCEPT !.pc = "get", !.text = vault, !.attempt = 1]
      BY <1>0, <3>2 DEF IdleUp, NoDoc, FileType, Text
    <3>3. CASE up[u].pc = "get" /\ up'[u] = [up[u] EXCEPT !.pc = "put", !.seen = doc]
      BY <1>0, <3>3 DEF Revisions, DbType, Rev
    <3>4. CASE up[u].pc = "put" /\ up'[u] = [up[u] EXCEPT !.pc = "record"]
      BY <1>0, <1>a, <3>4
    <3>5. CASE up[u].pc = "put" /\ up'[u] = [up[u] EXCEPT !.pc = "get", !.attempt = @ + 1]
      BY <1>0, <1>a, <3>5
    <3> QED BY <1>2, <3>1, <3>2, <3>3, <3>4, <3>5 DEF Upload, TimerFires, UploadRead, UploadGet,
               UploadPut, UploadConflict, UploadRecord, UploadFails, UploadEnds
  <2> QED BY <1>0, <1>a, <2>1, <2>2, <2>3
<1>3. CASE Watcher
  <2>1. UNCHANGED up
    BY <1>3, WatcherFrame
  <2>2. del' = del \/ del'.pc = "get"
    BY <1>3 DEF Watcher, OnModify, OnStructural, GuardReleases, SuppressExpires, EchoChecked, IdleDel
  <2> QED BY <1>0, <1>a, <2>1, <2>2
<1>4. CASE Tombstone
  <2>1. UNCHANGED up
    BY <1>4, TombstoneFrame
  <2>2. del'.pc \in {"put", "leaves"} => del'.seen.text \in Texts
    <3>0. IdleDel.pc = "idle"
      BY DEF IdleDel
    <3>1. CASE TombGet
      <4>1. \/ Exists(doc) /\ del' = [del EXCEPT !.pc = "put", !.seen = doc, !.conf = leaves]
            \/ del' = IdleDel
        BY <3>1 DEF TombGet
      <4>2. Exists(doc) => doc.text \in Texts
        BY DEF Revisions, DbType
      <4> QED BY <3>0, <4>1, <4>2 DEF DelType
    <3>2. CASE TombPut
      <4>1. CASE del' = [del EXCEPT !.pc = "leaves"]
        BY <3>2, <4>1 DEF TombPut, DelType
      <4>2. CASE del' = [del EXCEPT !.pc = "get", !.attempt = del.attempt + 1]
        BY <4>2 DEF DelType
      <4> QED BY <3>0, <3>2, <4>1, <4>2 DEF TombPut
    <3>3. CASE TombLeaves
      BY <3>3 DEF TombLeaves, IdleDel
    <3> QED BY <1>4, <3>1, <3>2, <3>3 DEF Tombstone
  <2> QED BY <1>0, <1>a, <2>1, <2>2
<1>5. CASE User \/ Applier \/ Replication \/ UNCHANGED vars
  BY <1>1, <1>5, UserFrame, ApplierFrame, ReplicationFrame DEF vars
<1> QED
  BY <1>2, <1>3, <1>4, <1>5 DEF Next

LEMMA ChangesStep == Typed /\ [Next]_vars => Changes'
<1> SUFFICES ASSUME Typed, [Next]_vars PROVE Changes'
  OBVIOUS
<1> USE DEF Typed, Parts, Delivered
<1>0. reached \subseteq reached' /\ feed \in Seq([doc : Rev, conf : SUBSET Rev])
  BY Growing DEF FeedType
<1>1. CASE UNCHANGED <<feed, job, mark>>
  BY <1>0, <1>1 DEF Changes
<1>2. CASE FeedDelivers
  <2>1. Delivered([doc |-> doc, conf |-> leaves])
    BY <1>2 DEF FeedDelivers, Revisions
  <2>2. feed' = Append(feed, [doc |-> doc, conf |-> leaves]) /\ UNCHANGED <<job, mark>>
    BY <1>2 DEF FeedDelivers, guardVars
  <2>3. \A i \in 1..Len(feed') : feed'[i] = IF i \in 1..Len(feed) THEN feed[i]
                                            ELSE [doc |-> doc, conf |-> leaves]
    BY <1>0, <2>2, [doc |-> doc, conf |-> leaves] \in [doc : Rev, conf : SUBSET Rev] DEF DbType
  <2>4. \A i \in 1..Len(feed') : /\ feed'[i].doc.text \in reached'
                                  /\ \A r \in feed'[i].conf : r.text \in Texts
    BY <1>0, <2>1, <2>3 DEF Changes
  <2> QED BY <1>0, <2>2, <2>4 DEF Changes
<1>3. CASE ApplyStarts
  <2>1. feed # <<>> /\ feed' = Tail(feed) /\ mark' = mark
          /\ job' = [pc |-> "decide", doc |-> Head(feed).doc, conf |-> Head(feed).conf, local |-> vault]
    BY <1>3 DEF ApplyStarts, guardVars
  <2>2. Delivered(feed[1]) /\ Head(feed) = feed[1]
    BY <1>0, <2>1 DEF Changes
  <2>3. \A i \in 1..Len(feed') : i + 1 \in 1..Len(feed) /\ feed'[i] = feed[i + 1]
    BY <1>0, <2>1
  <2> QED BY <1>0, <2>1, <2>2, <2>3 DEF Changes
<1>4. CASE Applier /\ ~FeedDelivers /\ ~ApplyStarts
  <2>1. \/ job' = IdleJob
        \/ job.pc # "idle" /\ \E pc \in JobPc \ {"idle"} : job' = [job EXCEPT !.pc = pc]
    BY <1>4, ApplierJob
  <2>2. job'.pc # "idle" => job.pc # "idle" /\ job'.doc = job.doc /\ job'.conf = job.conf
    BY <2>1 DEF JobType, IdleJob
  <2> QED BY <1>0, <1>4, <2>2, ApplierJob DEF Changes
<1>5. CASE Watcher
  <2>1. mark' = mark \/ mark' = Missing
    BY <1>5, WatcherMark DEF GuardReleases
  <2> QED BY <1>0, <1>5, <2>1, WatcherFrame DEF Changes
<1>6. CASE User \/ (\E u \in Uploaders : Upload(u)) \/ Tombstone \/ Replication \/ UNCHANGED vars
  BY <1>1, <1>6, UserFrame, UploadFrame, TombstoneFrame, ReplicationFrame DEF vars, guardVars
<1> QED
  BY <1>2, <1>3, <1>4, <1>5, <1>6 DEF Next, Applier

LEMMA TypedStep == Typed /\ [Next]_vars => Typed'
BY FileStep, GuardStep, WatchStep, UpStep, DelStep, DbStep, QueueStep, KeepStep, RestStep,
   ReadingStep, ChangesStep DEF Typed, Parts

\* Every variable keeps its type.
THEOREM TypeCorrect == Spec => []TypeOK
<1>1. Typed => TypeOK
  BY PartsAreType DEF Typed
<1> QED BY <1>1, TypedInit, TypedStep, PTL DEF Spec

-----------------------------------------------------------------------------
(* The pending count.                                                       *)

LEMMA InFlightFinite == IsFiniteSet(InFlight) /\ Cardinality(InFlight) \in Nat
<1>1. IsFiniteSet(InFlight)
  BY Constants, FS_Subset DEF InFlight
<1> QED BY <1>1, FS_CardinalityType

\* The debounce timer and the set of uploads in flight change only with the count.
LEMMA PendingStep == Typed /\ PendingExact /\ [Next]_vars => PendingExact'
<1> SUFFICES ASSUME Typed, PendingExact, [Next]_vars PROVE PendingExact'
  OBVIOUS
<1> USE DEF Typed, Parts
<1>0. Cardinality(InFlight) \in Nat /\ IsFiniteSet(InFlight)
  BY InFlightFinite
<1>1. ASSUME UNCHANGED <<up, timer, pend>> PROVE PendingExact'
  BY <1>1 DEF PendingExact, InFlight
<1>2. ASSUME Schedule, UNCHANGED up PROVE PendingExact'
  <2>1. InFlight' = InFlight
    BY <1>2 DEF InFlight
  <2>2. CASE timer
    BY <1>0, <1>2, <2>1, <2>2 DEF Schedule, PendingExact
  <2>3. CASE ~timer
    BY <1>0, <1>2, <2>1, <2>3 DEF Schedule, PendingExact
  <2> QED BY <2>2, <2>3
<1>3. CASE Watcher
  <2>1. Schedule \/ UNCHANGED <<timer, pend>>
    BY <1>3 DEF Watcher, OnModify, OnStructural, EchoChecked, GuardReleases, SuppressExpires, watchVars
  <2> QED BY <1>1, <1>2, <1>3, <2>1, WatcherFrame
<1>4. ASSUME NEW u \in Uploaders, Upload(u) PROVE PendingExact'
  <2>0. \A v \in Uploaders \ {u} : up'[v] = up[v]
    BY <1>4 DEF Upload, TimerFires, UploadRead, UploadGet, UploadPut, UploadConflict, UploadRecord,
       UploadFails, UploadEnds, UpType
  <2>1. CASE TimerFires(u)
    <3>1. up[u].pc = "idle" /\ up'[u].pc = "read" /\ timer /\ timer' = FALSE /\ pend' = pend
      BY <2>1 DEF TimerFires, IdleUp, UpType
    <3>2. InFlight' = InFlight \cup {u} /\ u \notin InFlight
      BY <2>0, <3>1 DEF InFlight
    <3>3. Cardinality(InFlight') = Cardinality(InFlight) + 1
      BY <1>0, <3>2, FS_AddElement
    <3> QED BY <1>0, <3>1, <3>3 DEF PendingExact
  <2>2. ASSUME UploadEnds(u), up[u].pc # "idle", timer' = timer PROVE PendingExact'
    <3>1. up'[u].pc = "idle"
      BY <2>2 DEF UploadEnds, IdleUp, UpType
    <3>2. InFlight' = InFlight \ {u} /\ u \in InFlight
      BY <2>0, <2>2, <3>1 DEF InFlight
    <3>3. Cardinality(InFlight') = Cardinality(InFlight) - 1
      BY <1>0, <3>2, FS_RemoveElement
    <3>4. Cardinality(InFlight') \in Nat
      BY <1>0, <3>2, FS_RemoveElement, FS_CardinalityType
    <3>5. CASE timer
      BY <1>0, <2>2, <3>3, <3>4, <3>5 DEF PendingExact, UploadEnds, Release
    <3>6. CASE ~timer
      BY <1>0, <2>2, <3>3, <3>4, <3>6 DEF PendingExact, UploadEnds, Release
    <3> QED BY <3>5, <3>6
  <2>3. ASSUME up[u].pc # "idle", up'[u].pc # "idle", UNCHANGED <<timer, pend>> PROVE PendingExact'
    <3>1. InFlight' = InFlight
      BY <2>0, <2>3 DEF InFlight
    <3> QED BY <2>3, <3>1 DEF PendingExact
  <2>4. CASE UploadRead(u)
    BY <2>2, <2>3, <2>4 DEF UploadRead, IdleUp, UpType
  <2>5. CASE UploadGet(u)
    BY <2>2, <2>3, <2>5 DEF UploadGet, UpType
  <2>6. CASE UploadPut(u)
    BY <2>3, <2>6 DEF UploadPut, UpType, watchVars
  <2>7. CASE UploadConflict(u)
    BY <2>2, <2>3, <2>7 DEF UploadConflict, UpType
  <2>8. CASE UploadRecord(u) \/ UploadFails(u)
    BY <2>2, <2>8 DEF UploadRecord, UploadFails
  <2> QED BY <1>4, <2>1, <2>4, <2>5, <2>6, <2>7, <2>8 DEF Upload
<1>5. CASE User \/ Tombstone \/ Applier \/ Replication \/ UNCHANGED vars
  BY <1>1, <1>5, UserFrame, TombstoneFrame, ApplierFrame, ReplicationFrame DEF watchVars, vars
<1> QED BY <1>3, <1>4, <1>5 DEF Next

LEMMA PendingInit == Init => PendingExact
<1> SUFFICES ASSUME Init PROVE PendingExact
  OBVIOUS
<1>1. InFlight = {}
  BY DEF Init, InFlight, IdleUp
<1> QED BY <1>1, FS_EmptySet DEF Init, PendingExact

\* The pending count is exact.
THEOREM PendingIsExact == Spec => []PendingExact
BY TypedInit, TypedStep, PendingInit, PendingStep, PTL DEF Spec

-----------------------------------------------------------------------------
(* Texts of other devices.                                                  *)

LEMMA VersionsGrow == [Next]_vars => versions \subseteq versions'
<1> SUFFICES ASSUME [Next]_vars PROVE versions \subseteq versions'
  OBVIOUS
<1>1. CASE User \/ Watcher \/ Applier \/ Replication \/ UNCHANGED vars
  <2>1. Applier => UNCHANGED versions
    BY DEF Applier, FeedDelivers, ApplyStarts, ApplySame, ApplyHeldBack, ApplyConflict,
       ApplyMaterialize, ApplySelf, ApplyPrepares, ApplyWrites, DeletionSkipped, DeletionHeld,
       DeletionPrepares, ApplyDeletes, keepVars
  <2> QED BY <1>1, <2>1, UserFrame, WatcherFrame, ReplicationFrame DEF keepVars, vars
<1>2. ASSUME NEW u \in Uploaders, Upload(u) PROVE versions \subseteq versions'
  BY <1>2 DEF Upload, TimerFires, UploadRead, UploadGet, UploadPut, UploadConflict, UploadRecord,
     UploadFails, keepVars, Keep
<1>3. CASE Tombstone
  BY <1>3 DEF Tombstone, TombGet, TombPut, TombLeaves, keepVars, Keep
<1> QED BY <1>1, <1>2, <1>3 DEF Next

\* Of the winner, an upload under way sees this one or none of those to come.
LEMMA WinnerStep == Typed /\ [Next]_vars => doc' = doc \/ doc'.id = nextId
<1> SUFFICES ASSUME Typed, [Next]_vars PROVE doc' = doc \/ doc'.id = nextId
  OBVIOUS
<1>0. ASSUME NEW text, NEW mine, NEW deleted
      PROVE  /\ NewRev(text, mine, deleted).id = nextId
             /\ \A seen : PutOn(seen, NewRev(text, mine, deleted))
                            => doc' = doc \/ doc' = NewRev(text, mine, deleted)
  <2>1. NewRev(text, mine, deleted).id = nextId
    BY DEF NewRev
  <2>2. \A new, seen : PutOn(seen, new) => doc' = doc \/ doc' = new
    BY DEF PutOn
  <2> QED BY <2>1, <2>2
<1>1. CASE User \/ Watcher \/ Applier \/ UNCHANGED vars
  BY <1>1, UserFrame, WatcherFrame, ApplierFrame DEF dbVars, vars
<1>2. ASSUME NEW u \in Uploaders, Upload(u) PROVE doc' = doc \/ doc'.id = nextId
  <2>1. CASE UploadPut(u)
    <3>1. PutOn(up[u].seen, NewRev(up[u].text, TRUE, FALSE))
      BY <2>1 DEF UploadPut
    <3> QED BY <1>0, <3>1
  <2> QED BY <1>2, <2>1, UploadDb DEF dbVars
<1>3. CASE Tombstone
  <2>1. PutOn(del.seen, NewRev(del.seen.text, TRUE, TRUE)) \/ doc' = doc
    BY <1>3 DEF Tombstone, TombGet, TombPut, TombLeaves, dbVars
  <2> QED BY <1>0, <2>1
<1>4. CASE Replication
  <2>1. doc' = doc \/ \E text, deleted : doc' = NewRev(text, FALSE, deleted)
    BY <1>4 DEF Replication, PullDelete, PullEdit, PullBranch, PullResolution
  <2> QED BY <1>0, <2>1
<1> QED BY <1>1, <1>2, <1>3, <1>4 DEF Next

\* A step of one upload leaves the others alone.
LEMMA UploadAlone ==
    ASSUME Typed, NEW u \in Uploaders, Upload(u)
    PROVE  \A v \in Uploaders \ {u} : up'[v] = up[v]
BY DEF Upload, TimerFires, UploadRead, UploadGet, UploadPut, UploadConflict, UploadRecord,
   UploadFails, UploadEnds, UpType, Typed, Parts

\* An upload is ready to put when it has just read the document, and the document differs.
LEMMA BecomesPut ==
    ASSUME Typed, NEW u \in Uploaders, Upload(u), up'[u].pc = "put"
    PROVE  /\ ~NothingToUpload(up[u].text, doc)
           /\ versions' = Keep(Intervening(up[u].text, doc))
           /\ up'[u].text = up[u].text /\ up'[u].seen = doc /\ doc' = doc
<1>0. up \in [Uploaders -> [pc : UpPc, text : Text, seen : Rev, attempt : 0..MaxAttempts]]
  BY DEF Typed, Parts, UpType
<1>1. UploadEnds(u) => up'[u].pc = "idle"
  BY <1>0 DEF UploadEnds, IdleUp
<1>2. TimerFires(u) \/ UploadRead(u) => up'[u].pc # "put"
  BY <1>0, <1>1 DEF TimerFires, UploadRead, IdleUp
<1>3. UploadPut(u) \/ UploadConflict(u) \/ UploadRecord(u) \/ UploadFails(u) => up'[u].pc # "put"
  BY <1>0, <1>1 DEF UploadPut, UploadConflict, UploadRecord, UploadFails
<1>4. CASE UploadGet(u)
  BY <1>0, <1>1, <1>4 DEF UploadGet, dbVars
<1> QED BY <1>2, <1>3, <1>4 DEF Upload

\* What another device wrote is in the history before an upload or a deletion replaces it.
LEMMA WitnessedStep == Typed /\ Witnessed /\ [Next]_vars => Witnessed'
<1> SUFFICES ASSUME Typed, Witnessed, [Next]_vars, VersionHistory
             PROVE  /\ \A u \in Uploaders :
                          up'[u].pc = "put" /\ Exists(up'[u].seen) /\ ~up'[u].seen.mine
                             /\ ~up'[u].seen.deleted => up'[u].seen.text \in versions'
                    /\ del'.pc = "put" => del'.seen.text \in versions'
  BY DEF Witnessed
<1> DEFINE Kept(w) == w.pc = "put" /\ Exists(w.seen) /\ ~w.seen.mine /\ ~w.seen.deleted
                         => w.seen.text \in versions
           KeptNow(w) == w.pc = "put" /\ Exists(w.seen) /\ ~w.seen.mine /\ ~w.seen.deleted
                         => w.seen.text \in versions'
<1>0. versions \subseteq versions' /\ \A u \in Uploaders : Kept(up[u])
  BY VersionsGrow DEF Witnessed
<1>1. \A u \in Uploaders : KeptNow(up'[u])
  <2>1. CASE UNCHANGED up
    BY <1>0, <2>1
  <2>2. ASSUME NEW u \in Uploaders, Upload(u) PROVE \A v \in Uploaders : KeptNow(up'[v])
    <3>1. \A v \in Uploaders \ {u} : KeptNow(up'[v])
      BY <1>0, <2>2, UploadAlone
    <3>2. ASSUME up'[u].pc = "put" PROVE KeptNow(up'[u])
      <4>1. /\ ~NothingToUpload(up[u].text, doc) /\ up'[u].seen = doc
            /\ versions' = Keep(Intervening(up[u].text, doc))
        BY <2>2, <3>2, BecomesPut
      <4>2. Exists(doc) => doc.text # Missing
        BY NoteLinkAssumption DEF Typed, Parts, Revisions, DbType
      <4>3. Exists(doc) /\ ~doc.mine /\ ~doc.deleted => doc.text \in versions'
        BY <4>1, <4>2 DEF NothingToUpload, Keep, Intervening
      <4> QED BY <4>1, <4>3
    <3> QED BY <3>1, <3>2
  <2>3. CASE User \/ Watcher \/ Tombstone \/ Applier \/ Replication \/ UNCHANGED vars
    BY <2>1, <2>3, UserFrame, WatcherFrame, TombstoneFrame, ApplierFrame, ReplicationFrame DEF vars
  <2> QED BY <2>2, <2>3 DEF Next
<1>2. del'.pc = "put" => del'.seen.text \in versions'
  <2>1. CASE UNCHANGED del
    BY <1>0, <2>1 DEF Witnessed
  <2>2. CASE Watcher
    <3>1. del' = del \/ del'.pc = "get"
      BY <2>2 DEF Watcher, OnModify, OnStructural, GuardReleases, SuppressExpires, EchoChecked, IdleDel
    <3> QED BY <2>1, <3>1
  <2>3. CASE Tombstone
    <3>0. del \in [pc : {"idle", "get", "put", "leaves"}, seen : Rev, conf : SUBSET Rev,
                    attempt : 0..MaxAttempts] /\ IdleDel.pc = "idle"
      BY DEF IdleDel, Typed, Parts, DelType
    <3>1. ASSUME TombGet, del'.pc = "put" PROVE del'.seen.text \in versions'
      <4>1. /\ Exists(doc) /\ versions' = Keep({doc.text})
            /\ del' = [del EXCEPT !.pc = "put", !.seen = doc, !.conf = leaves]
        BY <3>0, <3>1 DEF TombGet
      <4>2. doc.text # Missing /\ del'.seen = doc
        BY <3>0, <4>1, NoteLinkAssumption DEF Typed, Parts, Revisions, DbType
      <4> QED BY <4>1, <4>2 DEF Keep
    <3>2. TombPut => del'.pc # "put"
      <4>1. TombPut => del' \in {[del EXCEPT !.pc = "leaves"], IdleDel,
                                  [del EXCEPT !.pc = "get", !.attempt = @ + 1]}
        BY DEF TombPut
      <4> QED BY <3>0, <4>1
    <3>3. TombLeaves => del'.pc # "put"
      BY <3>0 DEF TombLeaves
    <3> QED BY <2>3, <3>1, <3>2, <3>3 DEF Tombstone
  <2>4. CASE User \/ (\E u \in Uploaders : Upload(u)) \/ Applier \/ Replication \/ UNCHANGED vars
    BY <2>1, <2>4, UserFrame, UploadFrame, ApplierFrame, ReplicationFrame DEF vars
  <2> QED BY <2>2, <2>3, <2>4 DEF Next
<1> QED BY <1>1, <1>2

\* A tombstone that an upload is about to replace was compared with its text.
LEMMA ComparedStep == Typed /\ Compared /\ [Next]_vars => Compared'
<1> SUFFICES ASSUME Typed, Compared, [Next]_vars,
                    NEW v \in Uploaders, up'[v].pc = "put", up'[v].seen = doc', doc'.deleted
             PROVE  up'[v].text # doc'.text \/ newer' = TRUE
  BY DEF Compared, ModifiedAfterTombstone
<1> USE DEF ModifiedAfterTombstone
<1>0. /\ up \in [Uploaders -> [pc : UpPc, text : Text, seen : Rev, attempt : 0..MaxAttempts]]
      /\ nextId \in Nat /\ newer \in BOOLEAN
  BY DEF Typed, Parts, UpType, DbType, FileType
<1>1. ASSUME up'[v] = up[v] PROVE doc' = doc
  <2>1. up[v].seen.id < nextId
    BY DEF Typed, Reading
  <2> QED BY <1>0, <1>1, <2>1, WinnerStep
<1>2. ASSUME up'[v] = up[v], newer' = newer \/ newer' = TRUE
      PROVE  up'[v].text # doc'.text \/ newer' = TRUE
  BY <1>0, <1>1, <1>2 DEF Compared
<1>3. CASE User \/ Watcher \/ Applier \/ UNCHANGED vars
  <2>1. newer' = newer \/ newer' = TRUE
    <3>1. User => newer' = newer \/ newer' = TRUE
      BY DEF User, Save, Remove
    <3>2. ApplyWrites \/ ApplyDeletes => newer' = newer \/ newer' = TRUE
      BY DEF ApplyWrites, ApplyDeletes, vaultVars
    <3> QED BY <1>3, <3>1, <3>2, WatcherFrame, ApplierFile DEF vars, vaultVars
  <2>2. up' = up
    BY <1>3, UserFrame, WatcherFrame, ApplierFrame DEF vars
  <2> QED BY <1>2, <2>1, <2>2
<1>4. ASSUME NEW u \in Uploaders, Upload(u) PROVE up'[v].text # doc'.text \/ newer' = TRUE
  <2>1. newer' = newer
    BY <1>4, UploadFrame DEF vaultVars
  <2>2. CASE v # u
    BY <1>2, <1>4, <2>1, <2>2, UploadAlone
  <2>3. CASE v = u
    <3>1. ~NothingToUpload(up[u].text, doc) /\ up'[u].text = up[u].text /\ doc' = doc
      BY <1>4, <2>3, BecomesPut
    <3>2. Exists(doc)
      BY <3>1 DEF Typed, Revisions
    <3> QED BY <1>0, <2>1, <2>3, <3>1, <3>2 DEF NothingToUpload
  <2> QED BY <2>2, <2>3
<1>5. CASE Tombstone
  <2>1. up'[v] = up[v]
    BY <1>5, TombstoneFrame
  <2>2. newer' = newer
    BY <1>1, <1>5, <2>1 DEF Tombstone, TombGet, TombPut, TombLeaves, vaultVars
  <2> QED BY <1>2, <2>1, <2>2
<1>6. CASE Replication
  <2>1. up'[v] = up[v]
    BY <1>6, ReplicationFrame
  <2>2. PullDelete => doc'.id = nextId
    BY DEF PullDelete, NewRev
  <2>3. ~PullDelete => newer' = newer
    BY <1>6 DEF Replication, PullEdit, PullBranch, PullResolution
  <2>4. CASE PullDelete
    <3>1. up[v].seen.id < nextId
      BY DEF Typed, Reading
    <3>2. up'[v].seen.id = nextId
      BY <2>2, <2>4
    <3> QED BY <1>0, <2>1, <3>1, <3>2
  <2> QED BY <1>2, <2>1, <2>3, <2>4
<1> QED BY <1>3, <1>4, <1>5, <1>6 DEF Next

OthersInv == Typed /\ Witnessed /\ Compared

\* A put replaces one leaf and keeps the others.
LEMMA PutReplacesOne ==
    ASSUME NEW seen, NEW new, PutOn(seen, new)
    PROVE  (leaves \cup {doc}) \ {seen} \subseteq leaves' \cup {doc'}
BY DEF PutOn

\* What the deletion or the collapse of conflicting leaves removes was kept, or is the file's.
LEMMA BuriesNothing ==
    ASSUME Typed, Witnessed, [Next]_vars, VersionHistory, pulls' = pulls,
           NEW r \in leaves \cup {doc}, Exists(r), ~r.mine, ~r.deleted
    PROVE  r \in leaves' \cup {doc'} \/ r.text \in versions' \cup {vault'}
<1> DEFINE Goal == r \in leaves' \cup {doc'} \/ r.text \in versions' \cup {vault'}
<1>0. r.text \in Texts /\ r.text # Missing /\ versions \subseteq versions'
  BY VersionsGrow, NoteLinkAssumption DEF Typed, Parts, Revisions, DbType
<1>1. CASE UNCHANGED <<doc, leaves>>
  BY <1>1
<1>2. ASSUME NEW u \in Uploaders, UploadPut(u) PROVE Goal
  <2>1. (leaves \cup {doc}) \ {up[u].seen} \subseteq leaves' \cup {doc'}
    BY <1>2, PutReplacesOne DEF UploadPut
  <2>2. r = up[u].seen => r.text \in versions
    BY <1>2 DEF UploadPut, Witnessed
  <2> QED BY <1>0, <2>1, <2>2
<1>3. CASE Tombstone
  <2>1. CASE TombPut
    <3>1. CASE PutOn(del.seen, NewRev(del.seen.text, TRUE, TRUE))
      <4>1. (leaves \cup {doc}) \ {del.seen} \subseteq leaves' \cup {doc'}
        BY <3>1, PutReplacesOne
      <4>2. r = del.seen => r.text \in versions
        BY <2>1 DEF TombPut, Witnessed
      <4> QED BY <1>0, <4>1, <4>2
    <3> QED BY <1>1, <2>1, <3>1 DEF TombPut, dbVars
  <2>2. CASE TombLeaves
    <3>1. doc' = doc /\ leaves' = leaves \ del.conf /\ versions' = Keep({x.text : x \in del.conf})
      BY <2>2 DEF TombLeaves
    <3>2. r \in del.conf => r.text \in versions'
      BY <1>0, <3>1 DEF Keep
    <3> QED BY <3>1, <3>2
  <2> QED BY <1>1, <1>3, <2>1, <2>2 DEF Tombstone, TombGet, dbVars
<1>4. CASE Applier
  <2>1. CASE Materialize /\ UNCHANGED vaultVars
    <3>1. CASE RemoteLeaf = {} /\ leaves' = leaves \ job.conf
      <4>1. \A x \in job.conf : x.text = vault
        BY <3>1 DEF RemoteLeaf
      <4> QED BY <1>4, <2>1, <3>1, <4>1, ApplierFrame DEF vaultVars
    <3> QED BY <1>1, <1>4, <2>1, <3>1, ApplierFrame DEF Materialize
  <2>2. (Materialize /\ UNCHANGED vaultVars) \/ UNCHANGED leaves
    BY <1>4 DEF Applier, FeedDelivers, ApplyStarts, ApplySame, ApplyHeldBack, ApplyConflict,
       ApplyMaterialize, ApplySelf, ApplyPrepares, ApplyWrites, DeletionSkipped, DeletionHeld,
       DeletionPrepares, ApplyDeletes, dbVars
  <2> QED BY <1>1, <1>4, <2>1, <2>2, ApplierFrame
<1>5. ~Replication
  <2>1. Replication => pulls' = pulls + 1
    BY DEF Replication, PullDelete, PullEdit, PullBranch, PullResolution, PulledRev
  <2> QED BY <2>1 DEF Typed, Parts, BoundType
<1>6. CASE User \/ Watcher \/ UNCHANGED vars
  BY <1>1, <1>6, UserFrame, WatcherFrame DEF dbVars, vars
<1>7. ASSUME NEW u \in Uploaders, Upload(u) PROVE Goal
  BY <1>1, <1>2, <1>7, UploadDb DEF dbVars
<1> QED BY <1>3, <1>4, <1>5, <1>6, <1>7 DEF Next

\* The texts of other devices are not buried and a tombstone stands until the file differs,
\* for any number of devices, edits and attempts.
THEOREM OthersAreKept == Spec => OthersStand
<1>1. Init => OthersInv
  <2>1. Init => Witnessed /\ Compared
    BY DEF Init, Witnessed, Compared, IdleUp, IdleDel
  <2> QED BY <2>1, TypedInit DEF OthersInv
<1>2. OthersInv /\ [Next]_vars => OthersInv'
  BY TypedStep, WitnessedStep, ComparedStep DEF OthersInv
<1>3. OthersInv /\ [Next]_vars
        => (VersionHistory /\ pulls' = pulls
              => RemoteTexts \ RemoteTexts' \subseteq versions' \cup {vault', doc'.text})
  <2> SUFFICES ASSUME OthersInv, [Next]_vars, VersionHistory, pulls' = pulls,
                      NEW t \in RemoteTexts \ RemoteTexts'
               PROVE  t \in versions' \cup {vault'}
    OBVIOUS
  <2>1. PICK r \in leaves \cup {doc} : Exists(r) /\ ~r.mine /\ ~r.deleted /\ t = r.text
    BY DEF RemoteTexts
  <2>2. r \notin leaves' \cup {doc'}
    BY <2>1 DEF RemoteTexts, Exists
  <2> QED BY <2>1, <2>2, BuriesNothing DEF OthersInv
<1>4. OthersInv => \A u \in Uploaders :
         (up[u].pc = "put" /\ up'[u].pc = "record" /\ up[u].seen = doc /\ doc.deleted)
           => ModifiedAfterTombstone(up[u].text, doc)
  BY DEF OthersInv, Compared
<1> QED BY <1>1, <1>2, <1>3, <1>4, PTL DEF Spec, OthersStand, RemoteNeverBuried, TombstoneStands

-----------------------------------------------------------------------------
(* Edits of this device.                                                    *)

LEMMA SafeGrows == Typed /\ [Next]_vars => Safe \subseteq Safe'
BY VersionsGrow, Growing DEF Safe

\* Nothing is on its way when the count is zero.
LEMMA NothingCarried ==
    ASSUME Typed, PendingExact, pend = 0, NEW x
    PROVE  ~Carried(x)
<1>1. Cardinality(InFlight) \in Nat /\ IsFiniteSet(InFlight)
  BY InFlightFinite
<1>2. ~timer
  <2>1. timer => pend = Cardinality(InFlight) + 1
    BY DEF PendingExact
  <2> QED BY <1>1, <2>1
<1>3. Cardinality(InFlight) = 0
  BY <1>1, <1>2 DEF PendingExact
<1>4. InFlight = {}
  BY <1>1, <1>3, FS_EmptySet
<1>5. \A u \in Uploaders : up[u].pc = "idle"
  BY <1>4 DEF InFlight
<1> QED BY <1>2, <1>5 DEF Carried

\* What an upload has read goes on to the database or to the history.
LEMMA CarriedOn ==
    ASSUME VersionHistory = TRUE, PutMayFail = FALSE, Typed, [Next]_vars,
           NEW x, vault = x, Carried(x)
    PROVE  Carried(x)' \/ x \in Safe'
<1> DEFINE Bears(v) == up[v].pc = "read" \/ (up[v].pc \in {"get", "put", "record"} /\ up[v].text = x)
           BearsNow(v) == up'[v].pc = "read" \/ (up'[v].pc \in {"get", "put", "record"} /\ up'[v].text = x)
<1>1. ASSUME UNCHANGED up, timer => timer' PROVE Carried(x)'
  BY <1>1 DEF Carried
<1>2. CASE User \/ Tombstone \/ Applier \/ Replication \/ UNCHANGED vars
  BY <1>1, <1>2, UserFrame, TombstoneFrame, ApplierFrame, ReplicationFrame DEF watchVars, vars
<1>3. CASE Watcher
  <2>1. timer => timer'
    BY <1>3 DEF Watcher, OnModify, OnStructural, EchoChecked, GuardReleases, SuppressExpires, Schedule,
       watchVars
  <2> QED BY <1>1, <1>3, <2>1, WatcherFrame
<1>4. ASSUME NEW u \in Uploaders, Upload(u) PROVE Carried(x)' \/ x \in Safe'
  <2>0. /\ up \in [Uploaders -> [pc : UpPc, text : Text, seen : Rev, attempt : 0..MaxAttempts]]
        /\ Missing \in Safe' /\ Safe \subseteq Safe'
    BY SafeGrows DEF Typed, Parts, UpType, Safe
  <2>1. CASE TimerFires(u)
    <3>1. up'[u].pc = "read"
      BY <2>0, <2>1 DEF TimerFires, IdleUp
    <3> QED BY <3>1 DEF Carried
  <2>2. ASSUME timer' = timer, Bears(u) => BearsNow(u) \/ x \in Safe' PROVE Carried(x)' \/ x \in Safe'
    <3>1. \A v \in Uploaders : Bears(v) => BearsNow(v) \/ x \in Safe'
      BY <1>4, <2>2, UploadAlone
    <3>2. CASE timer
      BY <2>2, <3>2 DEF Carried
    <3>3. CASE ~timer
      <4>1. PICK v \in Uploaders : Bears(v)
        BY <3>3 DEF Carried
      <4>2. BearsNow(v) \/ x \in Safe'
        BY <3>1, <4>1
      <4> QED BY <4>2 DEF Carried
    <3> QED BY <3>2, <3>3
  <2>3. CASE UploadRead(u)
    <3>1. CASE vault = Missing
      BY <2>0, <3>1
    <3>2. CASE vault # Missing
      <4>1. up'[u].pc = "get" /\ up'[u].text = x /\ timer' = timer
        BY <2>0, <2>3, <3>2 DEF UploadRead, UploadEnds, IdleUp
      <4> QED BY <2>2, <4>1
    <3> QED BY <3>1, <3>2
  <2>4. CASE UploadGet(u)
    <3>1. CASE NothingToUpload(up[u].text, doc)
      <4>1. up[u].text = doc.text /\ doc.text \in reached
        BY <3>1 DEF NothingToUpload, ModifiedAfterTombstone, Typed, Revisions
      <4>2. Bears(u) => x \in Safe'
        BY <2>0, <2>4, <4>1 DEF UploadGet, Safe
      <4> QED BY <2>2, <2>4, <4>2 DEF UploadGet
    <3>2. CASE ~NothingToUpload(up[u].text, doc)
      <4>1. up'[u].pc = "put" /\ up'[u].text = up[u].text /\ timer' = timer /\ up[u].pc = "get"
        BY <2>0, <2>4, <3>2 DEF UploadGet
      <4> QED BY <2>2, <4>1
    <3> QED BY <3>1, <3>2
  <2>5. CASE UploadPut(u)
    <3>1. up'[u].pc = "record" /\ up'[u].text = up[u].text /\ timer' = timer /\ up[u].pc = "put"
      BY <2>0, <2>5 DEF UploadPut, watchVars
    <3> QED BY <2>2, <3>1
  <2>6. ASSUME versions' = Keep({up[u].text}), up[u].pc \in {"put", "record"}, timer' = timer
        PROVE  Carried(x)' \/ x \in Safe'
    <3>1. Bears(u) => x \in Safe'
      BY <2>6 DEF Keep, Safe
    <3> QED BY <2>2, <2>6, <3>1
  <2>7. CASE UploadConflict(u)
    <3>1. CASE up' = [up EXCEPT ![u].pc = "get", ![u].attempt = @ + 1]
      <4>1. up'[u].pc = "get" /\ up'[u].text = up[u].text /\ timer' = timer /\ up[u].pc = "put"
        BY <2>0, <2>7, <3>1 DEF UploadConflict
      <4> QED BY <2>2, <4>1
    <3> QED BY <2>6, <2>7, <3>1 DEF UploadConflict
  <2>8. CASE UploadRecord(u)
    BY <2>6, <2>8 DEF UploadRecord
  <2>9. ~UploadFails(u)
    BY DEF UploadFails
  <2> QED BY <1>4, <2>1, <2>3, <2>4, <2>5, <2>7, <2>8, <2>9 DEF Upload
<1> QED BY <1>2, <1>3, <1>4 DEF Next

\* The applier writes what comes from the database.
LEMMA WrittenIsSafe ==
    ASSUME Typed, Next, ~User
    PROVE  vault' = vault \/ vault' \in Safe'
<1>0. Safe \subseteq Safe' /\ Missing \in Safe
  BY SafeGrows DEF Safe
<1>1. ApplyWrites => vault' = vault \/ vault' \in Safe
  BY DEF ApplyWrites, Typed, Changes, Delivered, Safe, vaultVars
<1>2. ApplyDeletes => vault' = vault \/ vault' = Missing
  BY DEF ApplyDeletes
<1> QED
  BY <1>0, <1>1, <1>2, WatcherFrame, UploadFrame, TombstoneFrame, ReplicationFrame, ApplierFile
  DEF Next, vaultVars

\* Unless the user acts, a text stays where it was to be found.
LEMMA TracedOn ==
    ASSUME VersionHistory = TRUE, PutMayFail = FALSE, Typed, [Next]_vars, ~User,
           NEW x, Traced(x)
    PROVE  x \in Safe' \/ vault' # x \/ Carried(x)'
<1>1. CASE UNCHANGED vars
  BY <1>1 DEF vars, vaultVars, watchVars, dbVars, keepVars, Traced, Carried, Safe
<1>2. CASE Next
  <2>1. CASE vault = x
    BY <1>2, <2>1, CarriedOn, SafeGrows DEF Traced
  <2>2. CASE vault # x
    BY <1>2, <2>2, WrittenIsSafe
  <2> QED BY <2>1, <2>2
<1> QED BY <1>1, <1>2

LEMMA NoticedStep ==
    ASSUME VersionHistory = TRUE, PutMayFail = FALSE
    PROVE  Typed /\ PendingExact /\ Noticed /\ [Next]_vars => Noticed'
<1> SUFFICES ASSUME Typed, PendingExact, Noticed, [Next]_vars PROVE Noticed'
  OBVIOUS
<1> DEFINE CarriedNow(x) ==
             \/ timer'
             \/ \E u \in Uploaders : \/ up'[u].pc = "read"
                                     \/ up'[u].pc \in {"get", "put", "record"} /\ up'[u].text = x
           TracedNow(x) == x \in Safe' \/ vault' # x \/ CarriedNow(x)
           Written == job'.pc \in {"write", "writeWinner"} => owed' \in Safe' \/ vault' # owed'
<1>0. Safe \subseteq Safe' /\ Missing \in Safe'
  BY SafeGrows DEF Safe
<1>1. CASE User
  <2>1. noticed' = Missing /\ owed' = Missing
    BY <1>1 DEF User, Save, Remove
  <2> QED BY <1>0, <2>1 DEF Noticed, Traced
<1>2. ASSUME ~User
      PROVE  TracedNow(noticed) /\ TracedNow(owed)
  <2>1. \A x : Traced(x) => x \in Safe' \/ vault' # x \/ Carried(x)'
    BY <1>2, TracedOn
  <2>2. \A x : Traced(x) => TracedNow(x)
    BY <2>1 DEF Carried
  <2> HIDE DEF TracedNow
  <2> QED BY <2>2 DEF Noticed
<1>3. ASSUME ~User, owed' = owed, Written,
             noticed' = noticed \/ (Schedule /\ vault' = vault)
      PROVE  Noticed'
  <2>1. CASE noticed' = noticed
    BY <1>2, <1>3, <2>1 DEF Noticed, Traced, Carried
  <2>2. CASE Schedule /\ vault' = vault
    <3>1. timer'
      BY <2>2 DEF Schedule
    <3> QED BY <1>3, <3>1 DEF Noticed, Traced, Carried
  <2> QED BY <1>3, <2>1, <2>2
<1>4. ASSUME ~User, UNCHANGED <<job, owed, vault>> PROVE Written
  BY <1>0, <1>4 DEF Noticed
<1>5. CASE Watcher /\ ~User
  <2>1. noticed' = noticed \/ Schedule
    BY <1>5 DEF Watcher, OnModify, OnStructural, EchoChecked, GuardReleases, SuppressExpires, history
  <2> QED BY <1>3, <1>4, <1>5, <2>1, WatcherFrame
<1>6. ASSUME NEW u \in Uploaders, Upload(u), ~User PROVE Noticed'
  BY <1>3, <1>4, <1>6, UploadFrame DEF vaultVars
<1>7. CASE (Tombstone \/ Replication \/ UNCHANGED vars) /\ ~User
  BY <1>3, <1>4, <1>7, TombstoneFrame, ReplicationFrame DEF history, vars, vaultVars
<1>8. CASE Applier /\ ~User
  <2>1. CASE ApplyStarts
    <3>1. owed' = noticed /\ noticed' = noticed /\ job'.pc = "decide"
      BY <2>1 DEF ApplyStarts
    <3> QED BY <1>2, <1>8, <3>1 DEF Noticed, Traced, Carried
  <2>2. ASSUME ~ApplyStarts PROVE owed' = owed
    BY <1>8, <2>2 DEF Applier, FeedDelivers, ApplySame, ApplyHeldBack, ApplyConflict,
       ApplyMaterialize, ApplySelf, ApplyPrepares, ApplyWrites, DeletionSkipped, DeletionHeld,
       DeletionPrepares, ApplyDeletes, history
  <2>3. ASSUME ~ApplyStarts, job'.pc \in {"write", "writeWinner"}
        PROVE  owed \in Safe \/ vault' # owed
    <3>1. CASE ApplyConflict \/ ApplyPrepares
      <4>1. pend = 0 /\ vault' = vault
        <5>1. ~Pending /\ vault' = vault
          BY <3>1 DEF ApplyConflict, ApplyPrepares, vaultVars
        <5> QED BY <5>1 DEF Pending, Typed, Parts, WatchType
      <4>2. ~Carried(owed)
        BY <4>1, NothingCarried
      <4> QED BY <4>1, <4>2 DEF Noticed, Traced
    <3>2. FeedDelivers \/ ApplyConflict \/ ApplyPrepares
      <4> USE DEF JobEnds, JobContinues, IdleJob
      <4>1. ~(ApplySame \/ ApplyHeldBack \/ ApplyMaterialize \/ ApplySelf \/ DeletionSkipped
                \/ DeletionHeld \/ ApplyDeletes)
        BY <2>3 DEF ApplySame, ApplyHeldBack, ApplyMaterialize, ApplySelf, DeletionSkipped,
           DeletionHeld, ApplyDeletes
      <4>2. ~(ApplyWrites \/ DeletionPrepares)
        BY <2>3 DEF ApplyWrites, DeletionPrepares, Typed, Parts, JobType
      <4> QED BY <1>8, <2>3, <4>1, <4>2 DEF Applier
    <3>3. CASE FeedDelivers
      BY <2>3, <3>3 DEF FeedDelivers, Noticed, vaultVars
    <3> QED BY <3>1, <3>2, <3>3
  <2>4. ASSUME ~ApplyStarts PROVE Written
    BY <1>0, <2>2, <2>3, <2>4
  <2>5. CASE ~ApplyStarts
    <3>1. noticed' = noticed /\ ~User
      BY <1>8, ApplierFrame
    <3> QED BY <1>3, <2>2, <2>4, <2>5, <3>1
  <2> QED BY <2>1, <2>5
<1> QED BY <1>1, <1>5, <1>6, <1>7, <1>8 DEF Next

LEMMA HeardStep ==
    ASSUME VersionHistory = TRUE, PutMayFail = FALSE
    PROVE  Typed /\ Heard /\ [Next]_vars => Heard'
<1> SUFFICES ASSUME Typed, Heard, [Next]_vars PROVE Heard'
  OBVIOUS
<1>0. Safe \subseteq Safe' /\ Missing \in Safe' /\ events \in Seq(Event)
  BY SafeGrows DEF Safe, Typed, Parts, FileType
<1>1. ASSUME vault' = vault, Happened("modify") => Happened("modify")',
             vault \in checking => vault \in checking'
      PROVE  Heard'
  <2>1. Carried(vault) => Carried(vault') \/ Heard'
    <3> SUFFICES ASSUME Carried(vault) PROVE Heard'
      OBVIOUS
    <3>1. \A x : vault = x /\ Carried(x) => Carried(x)' \/ x \in Safe'
      BY CarriedOn
    <3> QED BY <1>1, <3>1 DEF Heard, Carried
  <2>2. CASE ~Carried(vault)
    BY <1>0, <1>1, <2>2 DEF Heard
  <2>3. CASE Carried(vault)
    <3>1. \A x : vault = x /\ Carried(x) => Carried(x)' \/ x \in Safe'
      BY CarriedOn
    <3> QED BY <1>1, <2>3, <3>1 DEF Heard, Carried
  <2> QED BY <2>2, <2>3
<1>2. ASSUME timer' PROVE Heard'
  BY <1>2 DEF Heard, Carried
<1>3. CASE User
  <2>1. ASSUME NEW t \in Texts, Save(t) PROVE Heard'
    <3>1. events' = Append(events, "modify")
      BY <2>1 DEF Save
    <3>2. Len(events') \in 1..Len(events') /\ events'[Len(events')] = "modify"
      BY <1>0, <3>1
    <3> QED BY <3>2 DEF Heard, Happened
  <2>2. Remove => vault' = Missing
    BY DEF Remove
  <2> QED BY <1>0, <1>3, <2>1, <2>2 DEF User, Heard
<1>4. CASE OnModify
  <2>1. Schedule => timer'
    BY DEF Schedule
  <2>2. Schedule \/ (checking' = checking \cup ({vault} \ {Missing}) /\ vault' = vault)
    BY <1>4 DEF OnModify
  <2>3. vault' \in checking' \/ vault' = Missing \/ timer'
    BY <2>1, <2>2
  <2> QED BY <1>0, <1>2, <2>3 DEF Heard
<1>5. CASE OnStructural
  <2>1. events # <<>> /\ Head(events) # "modify" /\ events' = Tail(events) /\ vault' = vault
          /\ checking' = checking
    BY <1>5 DEF OnStructural, watchVars
  <2>2. Happened("modify") => Happened("modify")'
    <3> SUFFICES ASSUME NEW i \in 1..Len(events), events[i] = "modify"
                 PROVE  \E j \in 1..Len(events') : events'[j] = "modify"
      BY DEF Happened
    <3>1. i # 1
      BY <1>0, <2>1
    <3>2. i - 1 \in 1..Len(events') /\ events'[i - 1] = events[i]
      BY <1>0, <2>1, <3>1
    <3> QED BY <3>2
  <2> QED BY <1>1, <2>1, <2>2
<1>6. ASSUME NEW t \in Texts, EchoChecked(t) PROVE Heard'
  <2>1. CASE Schedule
    BY <1>2, <2>1 DEF Schedule
  <2>2. CASE mark = t /\ vault = t
    <3>1. vault' = vault /\ t \in Safe
      BY <1>6, <2>2 DEF EchoChecked, vaultVars, Typed, Changes, Safe
    <3> QED BY <1>0, <2>2, <3>1 DEF Heard
  <2>3. CASE vault # t
    <3>1. UNCHANGED <<vault, events>> /\ checking' = checking \ {t}
      BY <1>6 DEF EchoChecked, vaultVars
    <3> QED BY <1>1, <2>3, <3>1 DEF Happened
  <2> QED BY <1>6, <2>1, <2>2, <2>3 DEF EchoChecked
<1>7. CASE ApplyWrites \/ ApplyDeletes
  <2>1. CASE vault' \in Safe'
    BY <2>1 DEF Heard
  <2>2. CASE vault' = vault
    <3>1. checking' = checking
      BY <1>7 DEF ApplyWrites, ApplyDeletes, watchVars
    <3>2. \E e : events' = Append(events, e) \/ events' = events
      BY <1>7 DEF ApplyWrites, ApplyDeletes, vaultVars
    <3>3. Happened("modify") => Happened("modify")'
      <4> SUFFICES ASSUME NEW i \in 1..Len(events), events[i] = "modify"
                   PROVE  \E j \in 1..Len(events') : events'[j] = "modify"
        BY DEF Happened
      <4>1. i \in 1..Len(events') /\ events'[i] = "modify"
        BY <1>0, <3>2
      <4> QED BY <4>1
    <3> QED BY <1>1, <2>2, <3>1, <3>3
  <2>3. Applier /\ ~User
    <3>1. User => saves' = saves + 1 \/ removes' = removes + 1
      BY DEF User, Save, Remove
    <3>2. UNCHANGED <<saves, removes>>
      BY <1>7 DEF ApplyWrites, ApplyDeletes, bounds
    <3> QED BY <1>7, <3>1, <3>2 DEF Applier, Typed, Parts, BoundType
  <2> QED BY <2>1, <2>2, <2>3, WrittenIsSafe DEF Next
<1>8. ASSUME UNCHANGED <<vault, events, checking>> PROVE Heard'
  BY <1>1, <1>8 DEF Happened
<1>9. ASSUME NEW u \in Uploaders, Upload(u) PROVE Heard'
  BY <1>8, <1>9, UploadFrame DEF vaultVars
<1>10. CASE GuardReleases \/ SuppressExpires \/ Tombstone \/ Replication \/ UNCHANGED vars
  BY <1>8, <1>10, TombstoneFrame, ReplicationFrame DEF GuardReleases, SuppressExpires, watchVars,
     vaultVars, vars
<1>11. CASE Applier
  BY <1>7, <1>8, <1>11, ApplierFrame, ApplierFile DEF watchVars, vaultVars
<1> QED BY <1>3, <1>4, <1>5, <1>6, <1>9, <1>10, <1>11 DEF Next, Watcher

LEMMA EditInit == Init => EditInv
<1> SUFFICES ASSUME Init PROVE EditInv
  OBVIOUS
<1>1. vault \in Safe /\ Missing \in Safe
  <2>1. vault = Missing \/ vault \in reached
    BY DEF Init
  <2> QED BY <2>1 DEF Safe
<1>2. Heard /\ Noticed
  BY <1>1 DEF Init, Heard, Noticed, Traced, IdleJob
<1> QED BY <1>2, TypedInit, PendingInit DEF EditInv

LEMMA EditStep ==
    ASSUME VersionHistory = TRUE, PutMayFail = FALSE
    PROVE  EditInv /\ [Next]_vars => EditInv'
BY TypedStep, PendingStep, HeardStep, NoticedStep DEF EditInv

\* No edit stays on this device alone once everything is at rest.
THEOREM EditsReachHistory ==
    ASSUME VersionHistory = TRUE, PutMayFail = FALSE
    PROVE  Spec => []EditReachesHistory
<1>1. EditInv => EditReachesHistory
  <2> SUFFICES ASSUME EditInv, Settled PROVE vault \in Safe
    BY DEF EditReachesHistory, Safe
  <2>1. ~Carried(vault)
    BY NothingCarried DEF Settled, EditInv
  <2>2. ~Happened("modify") /\ vault \notin checking
    BY DEF Settled, Happened
  <2> QED BY <2>1, <2>2 DEF EditInv, Heard
<1> QED BY <1>1, EditInit, EditStep, PTL DEF Spec

\* What the watcher had noticed when a change was started survives the change's write.
THEOREM NoticedEditsAreKept ==
    ASSUME VersionHistory = TRUE, PutMayFail = FALSE
    PROVE  Spec => NoticedEditKept
<1>1. EditInv => (Overwrites => vault # owed \/ owed \in Recoverable)
  BY DEF EditInv, Noticed, Overwrites, Recoverable, Safe
<1> QED BY <1>1, EditInit, EditStep, PTL DEF Spec, NoticedEditKept

-----------------------------------------------------------------------------
(* Conflicts that another device wins.                                      *)

\* A step that leaves the feed nothing to deliver has not touched the document.
LEMMA QuietStep ==
    ASSUME Typed, [Next]_vars, ~unseen'
    PROVE  UNCHANGED <<doc, leaves>> /\ (unseen => FeedDelivers)
<1>0. unseen \in BOOLEAN /\ unseen' \in BOOLEAN
  BY DbStep DEF Typed, Parts, DbType
<1>1. ASSUME UNCHANGED <<doc, leaves, unseen>>
      PROVE  UNCHANGED <<doc, leaves>> /\ (unseen => FeedDelivers)
  BY <1>1
<1>2. ASSUME NEW u \in Uploaders, Upload(u) PROVE UNCHANGED <<doc, leaves, unseen>>
  BY <1>2, UploadDb DEF UploadPut, PutOn, dbVars
<1>3. CASE Tombstone
  <2>1. CASE TombLeaves
    <3>1. leaves \cap del.conf = {} /\ ~unseen
      BY <2>1 DEF TombLeaves
    <3> QED BY <1>0, <1>1, <2>1, <3>1 DEF TombLeaves
  <2>2. TombPut => UNCHANGED <<doc, leaves, unseen>>
    BY DEF TombPut, PutOn, dbVars
  <2> QED BY <1>1, <1>3, <2>1, <2>2 DEF Tombstone, TombGet, dbVars
<1>4. CASE Applier
  <2>1. CASE Materialize
    <3>1. UNCHANGED <<leaves, unseen>>
             \/ (leaves' = leaves \ job.conf /\ unseen' = (unseen \/ leaves \cap job.conf # {}))
      BY <2>1 DEF Materialize
    <3>2. leaves' = leaves /\ unseen' = unseen
      BY <1>0, <3>1
    <3> QED BY <1>1, <1>4, <3>2, ApplierFrame
  <2>2. Materialize \/ UNCHANGED <<leaves, unseen>> \/ FeedDelivers
    BY <1>4 DEF Applier, ApplyStarts, ApplySame, ApplyHeldBack, ApplyConflict, ApplyMaterialize,
       ApplySelf, ApplyPrepares, ApplyWrites, DeletionSkipped, DeletionHeld, DeletionPrepares,
       ApplyDeletes, dbVars
  <2>3. FeedDelivers => leaves' = leaves
    BY DEF FeedDelivers
  <2> QED BY <1>1, <1>4, <2>1, <2>2, <2>3, ApplierFrame
<1>5. Replication => unseen'
  BY DEF Replication, PullDelete, PullEdit, PullBranch, PullResolution, PulledRev
<1>6. CASE User \/ Watcher \/ UNCHANGED vars
  BY <1>1, <1>6, UserFrame, WatcherFrame DEF dbVars, vars
<1> QED BY <1>1, <1>2, <1>3, <1>4, <1>5, <1>6 DEF Next

\* Only the applier moves its queue.
LEMMA QueueFrame ==
    ASSUME [Next]_vars, ~Applier
    PROVE  UNCHANGED <<feed, job, copy>>
BY UserFrame, WatcherFrame, UploadFrame, TombstoneFrame, ReplicationFrame
   DEF Next, vars, keepVars

LEMMA UpToDateStep == Typed /\ UpToDate /\ [Next]_vars => UpToDate'
<1> SUFFICES ASSUME Typed, UpToDate, [Next]_vars, ~unseen'
             PROVE  /\ feed' # <<>> => feed'[Len(feed')] = [doc |-> doc', conf |-> leaves']
                    /\ feed' = <<>> /\ job'.pc # "idle" => job'.doc = doc' /\ job'.conf = leaves'
  BY DEF UpToDate
<1> DEFINE Change == [doc : Rev, conf : SUBSET Rev]
           Now == [doc |-> doc, conf |-> leaves]
<1>0. /\ doc' = doc /\ leaves' = leaves /\ (unseen => FeedDelivers)
      /\ feed \in Seq(Change) /\ Now \in Change
      /\ job \in [pc : JobPc, doc : Rev, conf : SUBSET Rev, local : Text]
  BY QuietStep DEF Typed, Parts, DbType, FeedType, JobType
<1>1. CASE FeedDelivers
  <2>1. feed' = Append(feed, Now)
    BY <1>1 DEF FeedDelivers
  <2> HIDE DEF Change, Now
  <2>2. Len(feed') = Len(feed) + 1 /\ feed'[Len(feed')] = Now /\ feed' # <<>>
    BY <1>0, <2>1
  <2> QED BY <1>0, <2>2 DEF Now
<1>2. CASE ApplyStarts /\ ~FeedDelivers
  <2>1. /\ feed # <<>> /\ feed' = Tail(feed) /\ feed[Len(feed)] = Now
        /\ job' = [pc |-> "decide", doc |-> Head(feed).doc, conf |-> Head(feed).conf, local |-> vault]
    BY <1>0, <1>2 DEF ApplyStarts, UpToDate
  <2>2. job'.doc = Head(feed).doc /\ job'.conf = Head(feed).conf
    BY <2>1
  <2> HIDE DEF Change, Now
  <2>3. feed' # <<>> => feed'[Len(feed')] = Now
    <3>1. ASSUME feed' # <<>> PROVE feed'[Len(feed')] = feed[Len(feed)]
      <4>1. Len(feed') = Len(feed) - 1 /\ Len(feed') > 0
        BY <1>0, <2>1, <3>1
      <4> QED BY <1>0, <2>1, <4>1
    <3> QED BY <2>1, <3>1
  <2>4. feed' = <<>> => Head(feed) = Now
    <3>1. Len(feed') = Len(feed) - 1 /\ Head(feed) = feed[1]
      BY <1>0, <2>1
    <3>2. feed' = <<>> => Len(feed) = 1
      BY <1>0, <3>1
    <3> QED BY <2>1, <3>1, <3>2
  <2> QED BY <1>0, <2>2, <2>3, <2>4 DEF Now
<1>3. CASE Applier /\ ~FeedDelivers /\ ~ApplyStarts
  <2>1. feed' = feed
    BY <1>3, ApplierJob
  <2>2. job'.pc # "idle" => job.pc # "idle" /\ job'.doc = job.doc /\ job'.conf = job.conf
    <3>1. job' = IdleJob \/ (job.pc # "idle" /\ \E pc \in JobPc \ {"idle"} : job' = [job EXCEPT !.pc = pc])
      BY <1>3, ApplierJob
    <3> QED BY <1>0, <3>1 DEF IdleJob
  <2> QED BY <1>0, <1>3, <2>1, <2>2 DEF UpToDate
<1>4. CASE ~Applier
  <2>1. ~FeedDelivers
    BY <1>4 DEF Applier
  <2> QED BY <1>0, <1>4, <2>1, QueueFrame DEF UpToDate
<1> QED BY <1>1, <1>2, <1>3, <1>4

\* Unless the feed has something to bring or the change is being taken up, the last change
\* was under way before.
LEMMA LatestStep ==
    ASSUME Typed, [Next]_vars, Latest', ~ApplyStarts
    PROVE  Latest /\ UNCHANGED <<doc, leaves, feed>>
<1>0. /\ feed \in Seq([doc : Rev, conf : SUBSET Rev]) /\ unseen \in BOOLEAN
      /\ [doc |-> doc, conf |-> leaves] \in [doc : Rev, conf : SUBSET Rev]
  BY DEF Typed, Parts, FeedType, DbType
<1>1. UNCHANGED <<doc, leaves>> /\ (unseen => FeedDelivers) /\ feed' = <<>>
  BY QuietStep DEF Latest
<1>2. ~FeedDelivers
  <2>1. FeedDelivers => feed' = Append(feed, [doc |-> doc, conf |-> leaves])
    BY DEF FeedDelivers
  <2>2. FeedDelivers => Len(feed') = Len(feed) + 1 /\ Len(feed) \in Nat
    BY <1>0, <2>1
  <2> QED BY <1>1, <2>2
<1>3. feed' = feed
  <2>1. Applier => feed' = feed
    BY <1>2, ApplierJob
  <2> QED BY <2>1, QueueFrame
<1> QED BY <1>1, <1>2, <1>3 DEF Latest

\* An event that is not the one delivered is still to come.
LEMMA StillHappens ==
    ASSUME Typed, NEW e, Happened(e),
           \/ events' = events
           \/ \E f : events' = Append(events, f)
           \/ events # <<>> /\ Head(events) # e /\ events' = Tail(events)
    PROVE  Happened(e)'
<1> SUFFICES ASSUME NEW i \in 1..Len(events), events[i] = e
             PROVE  \E j \in 1..Len(events') : events'[j] = e
  BY DEF Happened
<1>0. events \in Seq(Event)
  BY DEF Typed, Parts, FileType
<1>1. CASE events' = events \/ \E f : events' = Append(events, f)
  <2>1. i \in 1..Len(events') /\ events'[i] = e
    BY <1>0, <1>1
  <2> QED BY <2>1
<1>2. CASE events # <<>> /\ Head(events) # e /\ events' = Tail(events)
  <2>1. i # 1
    BY <1>0, <1>2
  <2>2. i - 1 \in 1..Len(events') /\ events'[i - 1] = events[i]
    BY <1>0, <1>2, <2>1
  <2> QED BY <2>2
<1> QED BY <1>1, <1>2

LEMMA JustHappened ==
    ASSUME Typed, NEW e, events' = Append(events, e)
    PROVE  Happened(e)'
<1>0. events \in Seq(Event)
  BY DEF Typed, Parts, FileType
<1>1. Len(events') \in 1..Len(events') /\ events'[Len(events')] = e
  BY <1>0
<1> QED BY <1>1 DEF Happened

\* A text that waits to be compared with the document waits on, or is taken for an echo, or
\* the comparison finds nothing to upload.
LEMMA WaitingOn ==
    ASSUME Typed, [Next]_vars, ~User, UNCHANGED <<vault, doc>>, ~unseen, ~unseen',
           vault # Missing, typed = vault, Waiting
    PROVE  Waiting' \/ swallowed' \/ NothingToUpload(vault, doc)
<1>0. /\ up \in [Uploaders -> [pc : UpPc, text : Text, seen : Rev, attempt : 0..MaxAttempts]]
      /\ swallowed \in BOOLEAN /\ timer \in BOOLEAN
  BY DEF Typed, Parts, UpType, HistoryType, WatchType
<1>1. ASSUME UNCHANGED up, timer => timer', Happened("modify") => Happened("modify")',
             vault \in checking => vault \in checking'
      PROVE  Waiting'
  BY <1>1 DEF Waiting
<1>2. ASSUME Happened("modify")' \/ vault' \in checking' \/ timer' PROVE Waiting'
  BY <1>2 DEF Waiting
<1>3. ASSUME NEW u \in Uploaders,
             \/ up'[u].pc = "read"
             \/ up'[u].text = vault' /\ (up'[u].pc = "get" \/ (up'[u].pc = "put" /\ up'[u].seen = doc'))
      PROVE  Waiting'
  BY <1>3 DEF Waiting
<1>4. Schedule => timer'
  BY DEF Schedule
<1>5. CASE Watcher
  <2>0. up' = up /\ vault' = vault
    BY <1>5, WatcherFrame
  <2>1. timer => timer'
    BY <1>5 DEF Watcher, OnModify, OnStructural, EchoChecked, GuardReleases, SuppressExpires, Schedule,
       watchVars
  <2>2. CASE OnModify
    <3>1. Schedule \/ checking' = checking \cup ({vault} \ {Missing})
      BY <2>2 DEF OnModify
    <3> QED BY <1>2, <1>4, <3>1
  <2>3. CASE OnStructural
    <3>1. events # <<>> /\ Head(events) # "modify" /\ events' = Tail(events) /\ checking' = checking
      BY <2>3 DEF OnStructural, watchVars
    <3>2. Happened("modify") => Happened("modify")'
      BY <3>1, StillHappens
    <3> QED BY <1>1, <2>0, <2>1, <3>1, <3>2
  <2>4. ASSUME NEW t \in Texts, EchoChecked(t) PROVE Waiting' \/ swallowed'
    <3>1. events' = events /\ checking' = checking \ {t}
      BY <2>4 DEF EchoChecked, vaultVars
    <3>2. Schedule \/ (mark = t /\ swallowed' = (swallowed \/ typed = t))
      BY <2>4 DEF EchoChecked
    <3>3. CASE typed # t
      BY <1>1, <2>0, <2>1, <3>1, <3>3 DEF Happened
    <3> QED BY <1>2, <1>4, <3>2, <3>3
  <2>5. CASE GuardReleases \/ SuppressExpires
    BY <1>1, <2>0, <2>1, <2>5 DEF GuardReleases, SuppressExpires, vaultVars, watchVars, Happened
  <2> QED BY <1>5, <2>2, <2>3, <2>4, <2>5 DEF Watcher
<1>6. ASSUME NEW u \in Uploaders, Upload(u)
      PROVE  Waiting' \/ swallowed' \/ NothingToUpload(vault, doc)
  <2>0. UNCHANGED <<events, checking>>
    BY <1>6, UploadFrame DEF vaultVars
  <2>1. CASE Happened("modify") \/ vault \in checking
    BY <1>2, <2>0, <2>1 DEF Happened
  <2>2. CASE TimerFires(u)
    <3>1. up'[u].pc = "read"
      BY <1>0, <2>2 DEF TimerFires, IdleUp
    <3> QED BY <1>3, <3>1
  <2>3. CASE timer /\ ~TimerFires(u)
    <3>1. timer'
      BY <1>6, <2>3 DEF Upload, UploadRead, UploadGet, UploadPut, UploadConflict, UploadRecord,
         UploadFails, watchVars
    <3> QED BY <1>2, <3>1
  <2>4. ASSUME NEW v \in Uploaders \ {u},
               \/ up[v].pc = "read"
               \/ up[v].text = vault /\ (up[v].pc = "get" \/ (up[v].pc = "put" /\ up[v].seen = doc))
        PROVE  Waiting'
    <3>1. up'[v] = up[v]
      BY <1>6, UploadAlone
    <3> QED BY <1>3, <2>4, <3>1
  <2>5. CASE up[u].pc = "read"
    <3>1. UploadRead(u)
      BY <1>6, <2>5 DEF Upload, TimerFires, UploadGet, UploadPut, UploadConflict, UploadRecord,
         UploadFails
    <3>2. up' = [up EXCEPT ![u] = [IdleUp EXCEPT !.pc = "get", !.text = vault, !.attempt = 1]]
      BY <3>1 DEF UploadRead
    <3>3. up'[u].pc = "get" /\ up'[u].text = vault
      BY <1>0, <3>2 DEF IdleUp
    <3> QED BY <1>3, <3>3
  <2>6. CASE up[u].text = vault /\ UploadFails(u)
    BY <2>6 DEF UploadFails
  <2>7. CASE up[u].text = vault /\ up[u].pc = "get" /\ ~UploadFails(u)
    <3>1. UploadGet(u)
      BY <1>6, <2>7 DEF Upload, TimerFires, UploadRead, UploadPut, UploadConflict, UploadRecord
    <3>2. CASE ~NothingToUpload(vault, doc)
      <4>1. up'[u].pc = "put" /\ up'[u].text = vault /\ up'[u].seen = doc
        BY <1>0, <2>7, <3>1, <3>2 DEF UploadGet
      <4> QED BY <1>3, <4>1
    <3> QED BY <3>2
  <2>8. ~(up[u].pc = "put" /\ up[u].seen = doc /\ ~UploadFails(u))
    <3>1. ~UploadPut(u)
      BY DEF UploadPut, PutOn
    <3>2. up[u].pc = "put" /\ up[u].seen = doc => ~UploadConflict(u)
      BY DEF UploadConflict, IsLeaf
    <3> QED BY <1>6, <3>1, <3>2 DEF Upload, TimerFires, UploadRead, UploadGet, UploadRecord
  <2>9. CASE \E v \in Uploaders :
                \/ up[v].pc = "read"
                \/ up[v].text = vault /\ (up[v].pc = "get" \/ (up[v].pc = "put" /\ up[v].seen = doc))
    BY <2>4, <2>5, <2>6, <2>7, <2>8, <2>9
  <2> QED BY <2>1, <2>2, <2>3, <2>9 DEF Waiting
<1>7. ASSUME UNCHANGED <<checking, timer, up>>, events' = events \/ \E e : events' = Append(events, e)
      PROVE  Waiting'
  <2>1. Happened("modify") => Happened("modify")'
    BY <1>7, StillHappens
  <2> QED BY <1>1, <1>7, <2>1
<1>8. CASE Tombstone \/ Replication \/ UNCHANGED vars
  BY <1>7, <1>8, TombstoneFrame, ReplicationFrame DEF watchVars, vaultVars, vars
<1>9. CASE Applier
  <2>1. events' = events \/ \E e : events' = Append(events, e)
    BY <1>9, ApplierFile DEF ApplyWrites, ApplyDeletes, vaultVars
  <2> QED BY <1>7, <1>9, <2>1, ApplierFrame DEF watchVars
<1> QED BY <1>5, <1>6, <1>8, <1>9 DEF Next

\* The user's act makes the file wait, or leaves a removal to deliver.
LEMMA UserActs ==
    ASSUME Typed, User
    PROVE  (Edited' /\ newer' = TRUE) \/ (vault' = Missing /\ Happened("removed")')
<1>1. ASSUME NEW t \in Texts, Save(t) PROVE Edited' /\ newer' = TRUE
  <2>1. vault' = t /\ typed' = t /\ events' = Append(events, "modify") /\ t # Missing /\ newer' = TRUE
    BY <1>1, NoteLinkAssumption DEF Save
  <2>2. Happened("modify")'
    BY <2>1, JustHappened
  <2> QED BY <2>1, <2>2 DEF Edited, Waiting
<1>2. CASE Remove
  <2>1. vault' = Missing /\ events' = Append(events, "removed")
    BY <1>2 DEF Remove
  <2> QED BY <2>1, JustHappened
<1> QED BY <1>1, <1>2 DEF User

LEMMA SwallowedOn == [Next]_vars /\ swallowed => swallowed'
<1> SUFFICES ASSUME [Next]_vars, swallowed PROVE swallowed'
  OBVIOUS
<1>1. Watcher => swallowed'
  BY DEF Watcher, OnModify, OnStructural, EchoChecked, GuardReleases, SuppressExpires, history
<1>2. ASSUME NEW u \in Uploaders, Upload(u) PROVE swallowed'
  BY <1>2 DEF Upload, TimerFires, UploadRead, UploadGet, UploadPut, UploadConflict, UploadRecord,
     UploadFails, history
<1> QED BY <1>1, <1>2, UserFrame, TombstoneFrame, ApplierFrame, ReplicationFrame
    DEF Next, vars, history

\* What the applier does to the file, when the change at hand is the last.
LEMMA LastChange ==
    ASSUME Typed, UpToDate, Sorted, [Next]_vars, ~User, Latest
    PROVE  \/ UNCHANGED <<vault, typed>>
           \/ ~doc.deleted /\ vault' = doc.text
           \/ doc.deleted /\ vault' = Missing
<1>1. CASE ApplyWrites
  <2>1. feed = <<>> /\ job.pc # "idle" /\ ~job.doc.deleted
    BY <1>1 DEF ApplyWrites, Latest, Sorted
  <2>2. job.doc = doc
    BY <2>1 DEF UpToDate, Latest
  <2> QED BY <1>1, <2>1, <2>2 DEF ApplyWrites, vaultVars
<1>2. CASE ApplyDeletes
  <2>1. feed = <<>> /\ job.pc # "idle" /\ job.doc.deleted
    BY <1>2 DEF ApplyDeletes, Latest, Sorted
  <2>2. job.doc = doc
    BY <2>1 DEF UpToDate, Latest
  <2> QED BY <1>2, <2>1, <2>2 DEF ApplyDeletes
<1> QED
  BY <1>1, <1>2, WatcherFrame, UploadFrame, TombstoneFrame, ReplicationFrame, ApplierFile
  DEF Next, vars, vaultVars, history

\* The file differs from the winner because the user was faster: as long as the document
\* stays what it is, that remains so.
LEMMA DivergingOn ==
    ASSUME Typed, UpToDate, Sorted, [Next]_vars, Latest, Latest', ~doc.deleted,
           UNCHANGED <<doc, feed>>, Diverging \/ User
    PROVE  Diverging' \/ (vault' = Missing /\ ~Exists(doc))
<1>0. /\ ~unseen /\ ~unseen'
      /\ del \in [pc : {"idle", "get", "put", "leaves"}, seen : Rev, conf : SUBSET Rev,
                  attempt : 0..MaxAttempts]
  BY DEF Typed, Parts, Latest, DelType
<1>1. CASE User
  BY <1>1, UserActs DEF Diverging
<1>2. CASE swallowed /\ ~User
  BY <1>2, SwallowedOn DEF Diverging
<1>3. CASE vault' = doc.text
  BY <1>3 DEF Diverging
<1>4. CASE ~User /\ ~swallowed /\ UNCHANGED <<vault, typed>> /\ Edited
  <2>1. Waiting' \/ swallowed' \/ NothingToUpload(vault, doc)
    BY <1>0, <1>4, WaitingOn DEF Edited
  <2>2. NothingToUpload(vault, doc) => vault' = doc.text
    BY <1>4 DEF NothingToUpload
  <2> QED BY <1>3, <1>4, <2>1, <2>2 DEF Diverging, Edited
<1> DEFINE Deletes == Happened("removed") \/ del.pc = "get" \/ (del.pc = "put" /\ del.seen = doc)
<1>5. CASE ~User /\ ~swallowed /\ vault = Missing /\ vault' = vault /\ Deletes /\ Exists(doc)
  <2>1. ASSUME Happened("removed")' \/ del'.pc = "get" \/ (del'.pc = "put" /\ del'.seen = doc)
        PROVE  Diverging'
    BY <1>5, <2>1 DEF Diverging
  <2>2. ASSUME del' = del, Happened("removed") => Happened("removed")' PROVE Diverging'
    BY <1>5, <2>1, <2>2
  <2>3. CASE Watcher /\ ~OnStructural
    <3>1. del' = del
      BY <2>3 DEF Watcher, OnModify, EchoChecked, GuardReleases, SuppressExpires
    <3>2. events' = events \/ (events # <<>> /\ Head(events) # "removed" /\ events' = Tail(events))
      BY <2>3 DEF Watcher, OnModify, EchoChecked, GuardReleases, SuppressExpires, vaultVars
    <3>3. Happened("removed") => Happened("removed")'
      BY <3>2, StillHappens
    <3> QED BY <2>2, <3>1, <3>3
  <2>4. CASE OnStructural
    <3>1. events # <<>> /\ events' = Tail(events)
      BY <2>4 DEF OnStructural
    <3>2. CASE ~suppressed
      <4>1. del' = [IdleDel EXCEPT !.pc = "get", !.attempt = 1]
        BY <2>4, <3>2 DEF OnStructural
      <4>2. del'.pc = "get"
        BY <4>1 DEF IdleDel
      <4> QED BY <2>1, <4>2
    <3>3. CASE suppressed /\ Head(events) = "removed"
      <4>1. swallowed'
        BY <2>4, <3>3 DEF OnStructural
      <4> QED BY <4>1 DEF Diverging
    <3>4. CASE suppressed /\ Head(events) # "removed"
      <4>1. Happened("removed") => Happened("removed")'
        BY <3>1, <3>4, StillHappens
      <4>2. del' = del
        BY <2>4, <3>4 DEF OnStructural
      <4> QED BY <2>2, <4>1, <4>2
    <3> QED BY <3>2, <3>3, <3>4
  <2>5. CASE Tombstone
    <3>1. events' = events
      BY <2>5, TombstoneFrame
    <3>2. CASE Happened("removed")
      BY <2>1, <3>1, <3>2 DEF Happened
    <3>3. CASE del.pc = "get"
      <4>1. TombGet
        BY <2>5, <3>3 DEF Tombstone, TombPut, TombLeaves
      <4>2. del'.pc = "put" /\ del'.seen = doc
        BY <1>0, <1>5, <4>1 DEF TombGet
      <4> QED BY <2>1, <4>2
    <3>4. ~(del.pc = "put" /\ del.seen = doc)
      <4>1. TombPut => ~IsLeaf(del.seen)
        BY <1>0 DEF TombPut, PutOn
      <4> QED BY <2>5, <4>1 DEF Tombstone, TombGet, TombLeaves, IsLeaf
    <3> QED BY <1>5, <3>2, <3>3, <3>4
  <2>6. CASE Applier
    <3>1. del' = del
      BY <2>6, ApplierFrame
    <3>2. events' = events \/ \E e : events' = Append(events, e)
      BY <2>6, ApplierFile DEF ApplyWrites, ApplyDeletes, vaultVars
    <3>3. Happened("removed") => Happened("removed")'
      BY <3>2, StillHappens
    <3> QED BY <2>2, <3>1, <3>3
  <2>7. ASSUME UNCHANGED <<del, events>> PROVE Diverging'
    BY <2>2, <2>7 DEF Happened
  <2> QED BY <1>5, <2>3, <2>4, <2>5, <2>6, <2>7, UploadFrame, ReplicationFrame
      DEF Next, Watcher, vars, vaultVars
<1> QED
  <2>1. CASE ~User /\ UNCHANGED <<vault, typed>> /\ vault = Missing /\ Exists(doc) /\ ~swallowed
             /\ vault # doc.text
    <3>1. Deletes
      BY <2>1 DEF Diverging, Edited
    <3> QED BY <1>5, <2>1, <3>1
  <2>2. ~User => UNCHANGED <<vault, typed>> \/ vault' = doc.text
    BY LastChange
  <2>3. CASE ~User /\ UNCHANGED <<vault, typed>> /\ vault = Missing /\ ~Exists(doc)
    BY <2>3
  <2>4. CASE ~User /\ UNCHANGED <<vault, typed>> /\ vault # Missing /\ ~swallowed /\ vault # doc.text
    <3>1. Edited
      BY <2>4 DEF Diverging
    <3> QED BY <1>4, <2>4, <3>1
  <2> QED BY <1>1, <1>2, <1>3, <2>1, <2>2, <2>3, <2>4

\* Materialising a conflict makes a copy or removes what is in conflict.
LEMMA MaterializeCopies ==
    ASSUME Typed, UpToDate, Materialize, job.pc # "idle", Latest, Latest', leaves # {},
           leaves' = leaves
    PROVE  copy' # Missing
<1>1. job.doc = doc /\ job.conf = leaves
  BY DEF UpToDate, Latest
<1>2. \A r \in {job.doc} \cup job.conf : r.text # Missing
  <2>1. job.doc.text \in reached /\ reached \subseteq Texts
    BY DEF Typed, Parts, Changes, Delivered, DbType
  <2>2. \A r \in job.conf : r.text \in Texts
    BY DEF Typed, Changes, Delivered
  <2> QED BY <2>1, <2>2, NoteLinkAssumption
<1>3. CASE RemoteLeaf # {}
  <2>1. \E r \in RemoteLeaf : copy' = r.text
    BY <1>3 DEF Materialize
  <2>2. RemoteLeaf \subseteq {job.doc} \cup job.conf
    BY DEF RemoteLeaf
  <2> QED BY <1>2, <2>1, <2>2
<1>4. CASE RemoteLeaf = {}
  <2>1. leaves' = leaves \ job.conf
    BY <1>1, <1>4 DEF Materialize
  <2> QED BY <1>1, <2>1
<1> QED BY <1>3, <1>4

LEMMA SortedStep ==
    ASSUME Typed, Sorted, Surfaced, [Next]_vars
    PROVE  /\ Sorted'
           /\ job'.pc = "write" => job'.conf = {}
           /\ job'.pc = "writeWinner" => job'.local = Missing
<1> DEFINE Goal == /\ Sorted'
                   /\ job'.pc = "write" => job'.conf = {}
                   /\ job'.pc = "writeWinner" => job'.local = Missing
<1>0. job \in [pc : JobPc, doc : Rev, conf : SUBSET Rev, local : Text]
  BY DEF Typed, Parts, JobType
<1>1. CASE job' = job
  BY <1>1 DEF Surfaced, Sorted
<1>2. CASE job' = IdleJob \/ ApplyStarts
  <2>1. job'.pc \in {"idle", "decide"}
    BY <1>2 DEF ApplyStarts, IdleJob
  <2> QED BY <2>1 DEF Sorted
<1>3. CASE ApplyConflict
  <2>1. /\ ~job.doc.deleted
        /\ \/ job' = [job EXCEPT !.pc = "materialize"]
           \/ job.local = Missing /\ job' = [job EXCEPT !.pc = "writeWinner"]
    BY <1>3 DEF ApplyConflict, JobContinues, Live
  <2> QED BY <1>0, <2>1 DEF Sorted
<1>4. CASE ApplyPrepares
  <2>1. job.conf = {} /\ ~job.doc.deleted /\ job' = [job EXCEPT !.pc = "write"]
    BY <1>4 DEF ApplyPrepares, JobContinues, Live
  <2> QED BY <1>0, <2>1 DEF Sorted
<1>5. CASE DeletionPrepares
  <2>1. job.doc.deleted /\ job' = [job EXCEPT !.pc = "delete"]
    BY <1>5 DEF DeletionPrepares, JobContinues
  <2> QED BY <1>0, <2>1 DEF Sorted
<1>6. CASE ApplyWrites
  <2>1. ~job.doc.deleted /\ (job' = IdleJob \/ job' = [job EXCEPT !.pc = "materialize"])
    BY <1>6 DEF ApplyWrites, JobContinues, JobEnds, Sorted
  <2> QED BY <1>0, <1>2, <2>1 DEF Sorted
<1>7. Applier => \/ job' = job \/ job' = IdleJob \/ ApplyStarts \/ ApplyConflict \/ ApplyPrepares
                 \/ DeletionPrepares \/ ApplyWrites
  BY DEF Applier, FeedDelivers, ApplySame, ApplyHeldBack, ApplyMaterialize, ApplySelf,
     DeletionSkipped, DeletionHeld, ApplyDeletes, JobEnds
<1> QED BY <1>1, <1>2, <1>3, <1>4, <1>5, <1>6, <1>7, QueueFrame

LEMMA SurfacedStep == Typed /\ UpToDate /\ Sorted /\ Surfaced /\ [Next]_vars => Surfaced'
<1> SUFFICES ASSUME Typed, UpToDate, Sorted, Surfaced, [Next]_vars PROVE Surfaced'
  OBVIOUS
<1> DEFINE InConflict == job.pc = "idle" /\ leaves # {} /\ ~doc.mine
           Absent == job.pc \in {"decide", "writeWinner"} /\ job.local = Missing
<1>0. job \in [pc : JobPc, doc : Rev, conf : SUBSET Rev, local : Text]
  BY DEF Typed, Parts, JobType
<1>a. job.pc = "delete" => job.doc.deleted
  BY DEF Sorted
<1>1. /\ job'.pc = "write" => job'.conf = {}
      /\ job'.pc = "writeWinner" => job'.local = Missing
  BY SortedStep
\* Diverging goes on, unless there is no document.
<1>2. ASSUME Latest', ~ApplyStarts, ~doc'.deleted, Diverging \/ User
      PROVE  Diverging' \/ (vault' = Missing /\ ~Exists(doc))
  BY <1>2, LatestStep, DivergingOn
\* An absent file.
<1>3. ASSUME Latest', ~doc'.deleted, job'.pc \in {"decide", "writeWinner"}, job'.local = Missing
      PROVE  vault' = Missing \/ Diverging'
  <2>1. CASE ApplyStarts
    <3>1. job'.local = vault /\ vault' = vault
      BY <2>1 DEF ApplyStarts, vaultVars
    <3> QED BY <1>3, <3>1
  <2>2. CASE ~ApplyStarts /\ (User \/ Diverging)
    BY <1>2, <1>3, <2>2
  <2>3. CASE ~ApplyStarts /\ ~User /\ ~Diverging
    <3>1. Absent
      <4>1. job' = job \/ (ApplyConflict /\ job.pc = "decide" /\ job'.local = job.local)
        <5>1. CASE ApplyConflict
          <6>1. job.pc = "decide" /\ \E pc \in JobPc : job' = [job EXCEPT !.pc = pc]
            BY <5>1 DEF ApplyConflict, JobContinues, Live, Deciding, JobPc
          <6> QED BY <1>0, <5>1, <6>1
        <5>2. ApplyPrepares \/ DeletionPrepares \/ ApplyWrites
                => job'.pc \notin {"decide", "writeWinner"}
          <6>1. ApplyPrepares \/ DeletionPrepares \/ ApplyWrites
                  => \/ job' = IdleJob
                     \/ \E pc \in {"write", "delete", "materialize"} : job' = [job EXCEPT !.pc = pc]
            BY DEF ApplyPrepares, DeletionPrepares, ApplyWrites, JobContinues, JobEnds
          <6> QED BY <1>0, <6>1 DEF IdleJob
        <5>3. Applier => \/ job' = job \/ job' = IdleJob \/ ApplyConflict \/ ApplyPrepares
                         \/ DeletionPrepares \/ ApplyWrites
          BY <2>3 DEF Applier, FeedDelivers, ApplySame, ApplyHeldBack, ApplyMaterialize, ApplySelf,
             DeletionSkipped, DeletionHeld, ApplyDeletes, JobEnds
        <5>4. IdleJob.pc = "idle"
          BY DEF IdleJob
        <5> QED BY <1>3, <5>1, <5>2, <5>3, <5>4, QueueFrame
      <4> QED BY <1>3, <4>1
    <3>2. vault = Missing
      BY <1>3, <2>3, <3>1, LatestStep DEF Surfaced
    <3>3. vault' = vault
      <4>1. ApplyDeletes => vault' = Missing
        BY DEF ApplyDeletes
      <4>2. ~ApplyWrites
        <5>1. ApplyWrites => job' = IdleJob \/ job' = [job EXCEPT !.pc = "materialize"]
          BY DEF ApplyWrites, JobContinues, JobEnds
        <5> QED BY <1>0, <1>3, <5>1 DEF IdleJob
      <4> QED BY <2>3, <3>2, <4>1, <4>2, WatcherFrame, UploadFrame, TombstoneFrame, ReplicationFrame,
              ApplierFile DEF Next, vars, vaultVars
    <3> QED BY <3>2, <3>3
  <2> QED BY <2>1, <2>2, <2>3
\* A conflict.
<1>4. ASSUME Latest', ~doc'.deleted, job'.pc = "idle", leaves' # {}, ~doc'.mine PROVE copy' # Missing \/ Diverging'
  <2>0. ~ApplyStarts
    BY <1>4 DEF ApplyStarts
  <2>1. Latest /\ UNCHANGED <<doc, leaves, feed>> /\ Exists(doc)
    <3>1. Latest /\ UNCHANGED <<doc, leaves, feed>>
      BY <1>4, <2>0, LatestStep
    <3> QED BY <1>4, <3>1 DEF Typed, Revisions
  <2>2. CASE User \/ Diverging
    BY <1>2, <1>4, <2>0, <2>1, <2>2
  <2>3. CASE job.pc = "idle"
    <3>1. copy # Missing \/ Diverging
      BY <1>4, <2>1, <2>3 DEF Surfaced
    <3>2. copy' = copy
      <4>1. Applier => UNCHANGED copy
        BY <2>0, <2>3 DEF Applier, FeedDelivers, ApplySame, ApplyHeldBack, ApplyConflict,
           ApplyMaterialize, ApplySelf, ApplyPrepares, ApplyWrites, DeletionSkipped, DeletionHeld,
           DeletionPrepares, ApplyDeletes, Live, Deciding, keepVars
      <4> QED BY <4>1, QueueFrame
    <3> QED BY <2>2, <3>1, <3>2
  <2>4. CASE job.pc # "idle" /\ ~Diverging
    <3>0. job.doc = doc /\ job.conf = leaves /\ ~doc.deleted /\ Applier
      <4>1. job' # job
        BY <1>4, <2>4
      <4> QED BY <1>4, <2>1, <2>4, <4>1, QueueFrame DEF UpToDate, Latest
    <3>1. CASE Materialize
      BY <1>4, <2>1, <2>4, <3>1, MaterializeCopies
    <3>2. ~ApplySame /\ ~ApplySelf /\ ~ApplyPrepares
      BY <1>4, <2>1, <3>0 DEF ApplySame, Same, ApplySelf, ApplyPrepares
    <3>3. ~DeletionSkipped /\ ~DeletionHeld /\ ~DeletionPrepares /\ ~ApplyDeletes
      BY <1>a, <3>0 DEF DeletionSkipped, DeletionHeld, DeletionPrepares, ApplyDeletes
    <3>4. ~FeedDelivers
      BY <1>4, <2>4 DEF FeedDelivers
    <3>5. ~ApplyConflict
      <4>1. ApplyConflict => \E pc \in {"materialize", "writeWinner"} : job' = [job EXCEPT !.pc = pc]
        BY DEF ApplyConflict, JobContinues
      <4> QED BY <1>0, <1>4, <4>1
    <3>6. ~ApplyWrites
      <4> SUFFICES ASSUME ApplyWrites PROVE FALSE
        OBVIOUS
      <4>1. job.pc # "write"
        BY <1>4, <2>1, <3>0 DEF Surfaced
      <4>2. job.pc = "writeWinner" /\ job.local = Missing
        BY <4>1 DEF ApplyWrites, Surfaced
      <4>3. vault # job.local
        <5>1. vault = job.local => job' = [job EXCEPT !.pc = "materialize"]
          BY <4>2 DEF ApplyWrites, JobContinues
        <5> QED BY <1>0, <1>4, <5>1
      <4> QED BY <2>1, <2>4, <3>0, <4>2, <4>3 DEF Surfaced
    <3>7. ApplyHeldBack \/ ApplyMaterialize
      BY <2>0, <3>0, <3>2, <3>3, <3>4, <3>5, <3>6 DEF Applier
    <3> QED BY <1>4, <2>1, <3>0, <3>1, <3>7 DEF ApplyHeldBack, ApplyMaterialize
  <2> QED BY <2>2, <2>3, <2>4
<1> QED BY <1>1, <1>3, <1>4 DEF Surfaced

LEMMA GoneStep == Typed /\ UpToDate /\ Sorted /\ Gone /\ [Next]_vars => Gone'
<1> SUFFICES ASSUME Typed, UpToDate, Sorted, Gone, [Next]_vars,
                    Latest', doc'.deleted, ~doc'.mine, DeletePolicy # "ignore-delete",
                    job'.pc = "idle"
             PROVE  vault' = Missing \/ held' \/ swallowed' \/ (Edited' /\ newer')
  BY DEF Gone
<1>1. ~ApplyStarts
  BY DEF ApplyStarts
<1>2. Latest /\ UNCHANGED <<doc, leaves, feed>>
  BY <1>1, LatestStep
<1>3. CASE User
  BY <1>3, UserActs
<1>4. CASE ~User /\ Edited /\ newer /\ vault' = vault /\ typed' = typed
  <2>1. ~NothingToUpload(vault, doc)
    BY <1>2, <1>4 DEF NothingToUpload, ModifiedAfterTombstone
  <2>2. Waiting' \/ swallowed'
    BY <1>2, <1>4, <2>1, WaitingOn DEF Edited, Latest
  <2>3. newer'
    <3>1. Tombstone => newer' = newer
      BY <1>2 DEF Tombstone, TombGet, TombPut, TombLeaves, vaultVars
    <3>2. Applier => newer' = newer \/ newer' = TRUE
      BY ApplierFile DEF ApplyWrites, ApplyDeletes, vaultVars
    <3>3. ~Replication
      <4>1. Replication => unseen'
        BY DEF Replication, PullDelete, PullEdit, PullBranch, PullResolution, PulledRev
      <4> QED BY <4>1 DEF Latest
    <3> QED BY <1>4, <3>1, <3>2, <3>3, WatcherFrame, UploadFrame DEF Next, vars, vaultVars
  <2> QED BY <1>4, <2>2, <2>3 DEF Edited
<1>5. CASE swallowed
  BY <1>5, SwallowedOn
<1>6. ASSUME held PROVE held'
  <2>1. Applier => held' = held \/ held' = TRUE
    BY DEF Applier, FeedDelivers, ApplyStarts, ApplySame, ApplyHeldBack, ApplyConflict,
       ApplyMaterialize, ApplySelf, ApplyPrepares, ApplyWrites, DeletionSkipped, DeletionHeld,
       DeletionPrepares, ApplyDeletes, keepVars
  <2> QED BY <1>6, <2>1, UserFrame, WatcherFrame, UploadFrame, TombstoneFrame, ReplicationFrame
      DEF Next, vars, keepVars
<1>7. ~User => UNCHANGED <<vault, typed>> \/ vault' = Missing
  BY <1>2, LastChange
<1>8. CASE ~User /\ job.pc = "idle"
  <2>1. vault = Missing \/ held \/ swallowed \/ (Edited /\ newer)
    BY <1>2, <1>8 DEF Gone
  <2> QED BY <1>4, <1>5, <1>6, <1>7, <1>8, <2>1
<1>9. CASE ~User /\ job.pc # "idle"
  <2>0. job.doc = doc /\ Applier /\ job.doc.deleted /\ ~job.doc.mine
    <3>1. job' # job
      BY <1>9
    <3> QED BY <1>2, <1>9, <3>1, QueueFrame DEF UpToDate, Latest
  <2>1. CASE ApplyDeletes
    BY <2>1 DEF ApplyDeletes
  <2>2. CASE DeletionHeld
    BY <2>2 DEF DeletionHeld
  <2>3. ~DeletionSkipped
    BY <2>0 DEF DeletionSkipped
  <2>4. ~ApplySame /\ ~ApplyHeldBack /\ ~ApplyConflict /\ ~ApplySelf /\ ~ApplyPrepares
    BY <2>0 DEF ApplySame, ApplyHeldBack, ApplyConflict, ApplySelf, ApplyPrepares, Live
  <2>5. ~ApplyMaterialize /\ ~ApplyWrites
    BY <2>0 DEF ApplyMaterialize, ApplyWrites, Sorted
  <2>6. ~FeedDelivers
    BY <1>9 DEF FeedDelivers
  <2>7. ~DeletionPrepares
    <3>1. DeletionPrepares => job' = [job EXCEPT !.pc = "delete"]
      BY DEF DeletionPrepares, JobContinues
    <3> QED BY <3>1 DEF Typed, Parts, JobType
  <2> QED BY <1>1, <2>0, <2>1, <2>2, <2>3, <2>4, <2>5, <2>6, <2>7 DEF Applier
<1> QED BY <1>3, <1>8, <1>9

LEMMA ConflictStart == Init => ConflictInv
<1>1. Init => UpToDate /\ Sorted /\ Surfaced /\ Gone
  <2> SUFFICES ASSUME Init PROVE UpToDate /\ Sorted /\ Surfaced /\ Gone
    OBVIOUS
  <2>1. job.pc = "idle" /\ feed = <<>> /\ leaves = {} /\ ~doc.deleted
    BY DEF Init, IdleJob, NoDoc
  <2> QED BY <2>1 DEF UpToDate, Sorted, Surfaced, Gone
<1> QED BY <1>1, TypedInit, PendingInit DEF ConflictInv

LEMMA ConflictStep == ConflictInv /\ [Next]_vars => ConflictInv'
BY TypedStep, PendingStep, UpToDateStep, SortedStep, SurfacedStep, GoneStep DEF ConflictInv

\* At rest nothing waits for the watcher or for an upload.
LEMMA NothingWaits ==
    ASSUME Typed, PendingExact, Settled
    PROVE  ~Waiting /\ ~Happened("removed") /\ del.pc = "idle" /\ Latest /\ job.pc = "idle"
<1>1. ~Happened("modify") /\ ~Happened("removed") /\ vault \notin checking /\ del.pc = "idle"
        /\ Latest /\ job.pc = "idle" /\ pend = 0
  BY DEF Settled, Happened, Latest
<1>2. ~timer /\ \A u \in Uploaders : up[u].pc \notin {"read", "get", "put", "record"}
  <2>1. \A x : ~Carried(x)
    BY <1>1, NothingCarried
  <2>2. \A u \in Uploaders : ~(up[u].pc \in {"get", "put", "record"} /\ up[u].text = up[u].text)
    BY <2>1 DEF Carried
  <2> QED BY <2>1, <2>2 DEF Carried
<1> QED BY <1>1, <1>2 DEF Waiting

\* At rest, a conflict that another device wins and the file does not show is in the
\* conflict folder (ConflictManager.materialize), whatever failed on the way.
THEOREM WinnersSurface == Spec => []RemoteWinnerSurfaced
<1>1. ConflictInv => RemoteWinnerSurfaced
  <2> SUFFICES ASSUME ConflictInv, Settled, ~swallowed, Conflicting, ~doc.mine, doc.text # vault
               PROVE  copy # Missing
    BY DEF RemoteWinnerSurfaced
  <2>1. ~Diverging /\ Latest /\ job.pc = "idle"
    BY NothingWaits DEF ConflictInv, Diverging, Edited
  <2> QED BY <2>1 DEF ConflictInv, Surfaced, Conflicting
<1> QED BY <1>1, ConflictStart, ConflictStep, PTL DEF Spec

\* At rest, a deletion by another device was applied, or the user is asked about it, under
\* every deletion policy but "ignore-delete" (MirrorApplier.applyDeletion).
THEOREM DeletionsAreSettled == Spec => []DeletionNotForgotten
<1>1. ConflictInv => DeletionNotForgotten
  <2> SUFFICES ASSUME ConflictInv, Settled, ~swallowed, doc.deleted, ~doc.mine,
                      DeletePolicy # "ignore-delete"
               PROVE  vault = Missing \/ held
    BY DEF DeletionNotForgotten
  <2>1. ~Edited /\ Latest /\ job.pc = "idle"
    BY NothingWaits DEF ConflictInv, Edited
  <2> QED BY <2>1 DEF ConflictInv, Gone
<1> QED BY <1>1, ConflictStart, ConflictStep, PTL DEF Spec

\* At rest the edits of this device and of the others are where they can be found, while the
\* version history is on and the local database accepts what it is given.
THEOREM EditsAreKept ==
    ASSUME VersionHistory = TRUE, PutMayFail = FALSE
    PROVE  Spec => []EditsStand
BY TypeCorrect, PendingIsExact, EditsReachHistory, WinnersSurface, PTL DEF EditsStand

-----------------------------------------------------------------------------

(* Conflicts: the invariant.                                                 *)

\* The feed has reported and the queue applied all there is of a document.
FeedDone(d) == d \notin unreported /\ \A k \in DOMAIN changes : changes[k].doc # d
StandsInConflict(d) == _conflicts(branches[d]) # {}
Differs(d) == \E l \in branches[d] : l.text # fileSays[d]
InHand(who, d) == \E s \in jobs[who].hand : s.doc = d
Looking == {"look", "keep", "collapse"}

\* The start will still look at the document as it is.
StartWillLook(d) ==
    \/ jobs["start"].step = "clear"
    \/ /\ jobs["start"].step \in {"notes"} \cup Looking
       /\ \E s \in jobs["start"].todo \cup jobs["start"].hand : s.doc = d /\ s.branches = branches[d]
PendingAttachment(d) ==
    \/ jobs["start"].step \in {"clear", "notes"} \cup Looking
    \/ /\ jobs["start"].step = "attachments"
       /\ \E s \in jobs["start"].todo : s.doc = d /\ s.branches = branches[d]

AJob(j) == j = [todo |-> j.todo, hand |-> j.hand, step |-> j.step]
BadgeTypes ==
    /\ branches = [d \in Docs |-> branches[d]] /\ fileSays = [d \in Docs |-> fileSays[d]]
    /\ conflictIds \in SUBSET Docs /\ rows \in SUBSET Docs
    /\ \E S : changes \in Seq(S)
    /\ \A k \in DOMAIN changes : changes[k].doc \in Docs
    /\ jobs = [who \in Lookers |-> jobs[who]]
    /\ \A who \in Lookers : AJob(jobs[who])

\* A job that looks has one document in hand; notes come before attachments.
JobInOrder(j) ==
    /\ j.step \notin Looking => j.hand = {}
    /\ j.step \in Looking => \E s : j.hand = {s}
    /\ j.step \notin {"resolve", "attachments"} =>
          \A s \in j.todo \cup j.hand : s.doc \in Pages /\ _conflicts(s.branches) # {}
    /\ j.step = "attachments" =>
          \A s \in j.todo : s.doc \in Attachments /\ _conflicts(s.branches) # {}
    /\ j.step = "resolve" => \A s \in j.todo : s.doc \in Docs
JobsInOrder ==
    /\ jobs["feed"].step \in {"rest"} \cup Looking
    /\ jobs["start"].step \in {"clear", "notes", "attachments", "rest"} \cup Looking
    /\ \A who \in Lookers : JobInOrder(jobs[who])

\* What is reported and not written since is the document as it is.
LastReportStands ==
    \A d \in Docs \ unreported : \A k \in DOMAIN changes :
        changes[k].doc = d /\ (\A j \in DOMAIN changes : k < j => changes[j].doc # d)
            => changes[k].branches = branches[d]

FeedLooksAtWhatIs ==
    \A s \in jobs["feed"].hand : FeedDone(s.doc) =>
        /\ s.branches = branches[s.doc]
        /\ jobs["feed"].step = "keep" => Differs(s.doc)
        /\ jobs["feed"].step = "collapse" => ~Differs(s.doc)
StartKeepsWhatDiffers ==
    jobs["start"].step = "keep" =>
        \A s \in jobs["start"].hand :
            s.branches = branches[s.doc] /\ FeedDone(s.doc) /\ ~InHand("feed", s.doc) => Differs(s.doc)

CountedNotes ==
    \A d \in Pages \ overtaken : FeedDone(d) =>
        /\ InHand("feed", d) => d \in conflictIds \/ StartWillLook(d)
        /\ ~InHand("feed", d) =>
              /\ d \in conflictIds => StandsInConflict(d) /\ Differs(d)
              /\ StandsInConflict(d) /\ Differs(d) => d \in conflictIds \/ StartWillLook(d)
CountedAttachments ==
    \A d \in Attachments \ overtaken : FeedDone(d) =>
        /\ d \in conflictIds => StandsInConflict(d)
        /\ StandsInConflict(d) => d \in conflictIds \/ PendingAttachment(d)

BadgeInv == /\ BadgeTypes /\ JobsInOrder /\ LastReportStands /\ FeedLooksAtWhatIs
            /\ StartKeepsWhatDiffers /\ CountedNotes /\ CountedAttachments

LEMMA BadgeInvInit == ConflictsInit => BadgeInv
<1> SUFFICES ASSUME ConflictsInit PROVE BadgeInv
  OBVIOUS
<1>0. /\ changes = <<>> /\ conflictIds = {} /\ unreported = {} /\ overtaken = {} /\ rows = {}
      /\ jobs = [who \in Lookers |-> IF who = "start" THEN [NoJob EXCEPT !.step = "clear"] ELSE NoJob]
  BY DEF ConflictsInit
<1>1. /\ jobs["start"] = [todo |-> {}, hand |-> {}, step |-> "clear"]
      /\ jobs["feed"] = [todo |-> {}, hand |-> {}, step |-> "rest"]
      /\ jobs["list"] = [todo |-> {}, hand |-> {}, step |-> "rest"]
  BY <1>0 DEF Lookers, NoJob
<1>2. Lookers = {"feed", "start", "list"}
  BY DEF Lookers
<1>3. BadgeTypes
  <2>1. branches = [d \in Docs |-> branches[d]] /\ fileSays = [d \in Docs |-> fileSays[d]]
    BY DEF ConflictsInit
  <2>2. changes \in Seq({})
    BY <1>0
  <2>3. \A who \in Lookers : AJob(jobs[who])
    BY <1>1, <1>2 DEF AJob
  <2>4. jobs = [who \in Lookers |-> jobs[who]]
    BY <1>0
  <2>5. \A k \in DOMAIN changes : changes[k].doc \in Docs
    BY <1>0
  <2>6. QED
    BY <1>0, <2>1, <2>2, <2>3, <2>4, <2>5 DEF BadgeTypes
<1>4. JobsInOrder
  BY <1>1, <1>2 DEF JobsInOrder, JobInOrder, Looking
<1>5. LastReportStands
  BY <1>0 DEF LastReportStands
<1>6. FeedLooksAtWhatIs /\ StartKeepsWhatDiffers
  BY <1>1 DEF FeedLooksAtWhatIs, StartKeepsWhatDiffers
<1>7. CountedNotes /\ CountedAttachments
  <2>1. \A d : StartWillLook(d) /\ PendingAttachment(d) /\ ~InHand("feed", d)
    BY <1>1 DEF StartWillLook, PendingAttachment, InHand
  <2>2. QED
    BY <1>0, <2>1 DEF CountedNotes, CountedAttachments
<1>8. QED
  BY <1>3, <1>4, <1>5, <1>6, <1>7 DEF BadgeInv

----------------------------------------------------------------------------
(* Frames.                                                                  *)

\* One job moves, the others stay.
LEMMA OneJob ==
    ASSUME BadgeTypes, JobsInOrder, NEW who \in Lookers, NEW r, AJob(r), JobInOrder(r),
           jobs' = [jobs EXCEPT ![who] = r],
           who = "feed" => r.step \in {"rest"} \cup Looking,
           who = "start" => r.step \in {"clear", "notes", "attachments", "rest"} \cup Looking
    PROVE  /\ jobs'[who] = r /\ \A w \in Lookers \ {who} : jobs'[w] = jobs[w]
           /\ jobs' = [w \in Lookers |-> jobs'[w]] /\ \A w \in Lookers : AJob(jobs'[w])
           /\ JobsInOrder'
<1>1. /\ jobs'[who] = r /\ \A w \in Lookers \ {who} : jobs'[w] = jobs[w]
      /\ jobs' = [w \in Lookers |-> jobs'[w]]
  BY DEF BadgeTypes
<1>2. \A w \in Lookers : AJob(jobs'[w]) /\ JobInOrder(jobs'[w])
  BY <1>1 DEF BadgeTypes, JobsInOrder
<1>3. "feed" \in Lookers /\ "start" \in Lookers
  BY DEF Lookers
<1>4. /\ jobs'["feed"].step \in {"rest"} \cup Looking
      /\ jobs'["start"].step \in {"clear", "notes", "attachments", "rest"} \cup Looking
  BY <1>1, <1>3 DEF JobsInOrder
<1>5. QED
  BY <1>1, <1>2, <1>4 DEF JobsInOrder

\* The documents a step leaves alone are counted as before.
LEMMA CountStays ==
    ASSUME BadgeInv, jobs'["feed"] = jobs["feed"], jobs'["start"] = jobs["start"],
           \A d \in Docs : FeedDone(d)' => FeedDone(d) /\ branches'[d] = branches[d]
                                           /\ fileSays'[d] = fileSays[d],
           \A d \in Docs \ overtaken' : FeedDone(d)' =>
               d \notin overtaken /\ (d \in conflictIds' <=> d \in conflictIds)
    PROVE  FeedLooksAtWhatIs' /\ StartKeepsWhatDiffers' /\ CountedNotes' /\ CountedAttachments'
<1>0. /\ \A s \in jobs["feed"].hand : s.doc \in Docs
      /\ jobs["start"].step = "keep" => \A s \in jobs["start"].hand : s.doc \in Docs
      /\ Pages \subseteq Docs /\ Attachments \subseteq Docs
  <2>1. /\ jobs["feed"].step \in {"rest"} \cup Looking
        /\ JobInOrder(jobs["feed"]) /\ JobInOrder(jobs["start"])
    BY DEF BadgeInv, JobsInOrder, Lookers
  <2>2. QED
    BY <2>1 DEF JobInOrder, Looking, Docs
<1>1. \A d \in Docs : FeedDone(d)' => /\ Differs(d)' <=> Differs(d)
                                      /\ StandsInConflict(d)' <=> StandsInConflict(d)
                                      /\ StartWillLook(d)' <=> StartWillLook(d)
                                      /\ PendingAttachment(d)' <=> PendingAttachment(d)
  BY DEF Differs, StandsInConflict, StartWillLook, PendingAttachment
<1>2. \A d : InHand("feed", d)' <=> InHand("feed", d)
  BY DEF InHand
<1>3. FeedLooksAtWhatIs'
  <2> SUFFICES ASSUME NEW s \in jobs["feed"].hand, FeedDone(s.doc)'
               PROVE  /\ s.branches = branches'[s.doc]
                      /\ jobs["feed"].step = "keep" => Differs(s.doc)'
                      /\ jobs["feed"].step = "collapse" => ~Differs(s.doc)'
    BY DEF FeedLooksAtWhatIs
  <2>1. s.doc \in Docs /\ FeedDone(s.doc) /\ branches'[s.doc] = branches[s.doc]
        /\ (Differs(s.doc)' <=> Differs(s.doc))
    BY <1>0, <1>1
  <2>2. QED
    BY <2>1 DEF BadgeInv, FeedLooksAtWhatIs
<1>4. StartKeepsWhatDiffers'
  <2> SUFFICES ASSUME jobs["start"].step = "keep", NEW s \in jobs["start"].hand,
                      s.branches = branches'[s.doc], FeedDone(s.doc)', ~InHand("feed", s.doc)'
               PROVE  Differs(s.doc)'
    BY DEF StartKeepsWhatDiffers
  <2>1. s.doc \in Docs /\ FeedDone(s.doc) /\ branches'[s.doc] = branches[s.doc]
        /\ (Differs(s.doc)' <=> Differs(s.doc)) /\ ~InHand("feed", s.doc)
    BY <1>0, <1>1, <1>2
  <2>2. QED
    BY <2>1 DEF BadgeInv, StartKeepsWhatDiffers
<1>5. CountedNotes'
  BY <1>0, <1>1, <1>2 DEF BadgeInv, CountedNotes
<1>6. CountedAttachments'
  BY <1>0, <1>1 DEF BadgeInv, CountedAttachments
<1>7. QED
  BY <1>3, <1>4, <1>5, <1>6

\* Writing one document: the changes feed has it to report.
LEMMA Writes ==
    ASSUME BadgeTypes, LastReportStands, NEW d \in Docs, NEW ls, Write(d, ls), UNCHANGED changes
    PROVE  /\ branches' = [e \in Docs |-> branches'[e]]
           /\ d \in unreported' /\ ~FeedDone(d)'
           /\ \A e \in Docs \ {d} : branches'[e] = branches[e] /\ (FeedDone(e)' <=> FeedDone(e))
           /\ LastReportStands'
<1>1. /\ branches' = [e \in Docs |-> branches'[e]] /\ d \in unreported'
      /\ \A e \in Docs \ {d} : branches'[e] = branches[e] /\ (e \in unreported' <=> e \in unreported)
  BY DEF BadgeTypes, Write
<1>2. LastReportStands'
  BY <1>1 DEF LastReportStands
<1>3. QED
  BY <1>1, <1>2 DEF FeedDone

----------------------------------------------------------------------------
(* Writers                                                                  *)

LEMMA SaveFileStep ==
    ASSUME BadgeInv, NEW d \in Docs, NEW text \in Contents, SaveFile(d, text) PROVE BadgeInv'
<1>1. /\ fileSays' = [fileSays EXCEPT ![d] = text]
      /\ UNCHANGED <<conflictIds, changes, jobs, rows, overtaken>>
      /\ Write(d, _conflicts(branches[d]) \cup {[rank |-> NextRank(d), text |-> text]})
  BY DEF SaveFile
<1>2. /\ branches' = [e \in Docs |-> branches'[e]]
      /\ d \in unreported' /\ ~FeedDone(d)'
      /\ \A e \in Docs \ {d} : branches'[e] = branches[e] /\ (FeedDone(e)' <=> FeedDone(e))
      /\ LastReportStands'
  BY <1>1, Writes DEF BadgeInv
<1>3. /\ fileSays' = [e \in Docs |-> fileSays'[e]]
      /\ \A e \in Docs \ {d} : fileSays'[e] = fileSays[e]
  BY <1>1 DEF BadgeInv, BadgeTypes
<1>4. BadgeTypes' /\ JobsInOrder'
  BY <1>1, <1>2, <1>3 DEF BadgeInv, BadgeTypes, JobsInOrder
<1>5. FeedLooksAtWhatIs' /\ StartKeepsWhatDiffers' /\ CountedNotes' /\ CountedAttachments'
  BY <1>1, <1>2, <1>3, CountStays
<1>6. QED
  BY <1>2, <1>4, <1>5 DEF BadgeInv

LEMMA LeafArrivesStep ==
    ASSUME BadgeInv, NEW d \in Docs, NEW text \in Contents, NEW below, LeafArrives(d, text, below)
    PROVE  BadgeInv'
<1>1. /\ UNCHANGED <<fileSays, conflictIds, changes, jobs, rows, overtaken>>
      /\ Write(d, (branches[d] \ below) \cup {[rank |-> NextRank(d), text |-> text]})
  BY DEF LeafArrives
<1>2. /\ branches' = [e \in Docs |-> branches'[e]]
      /\ d \in unreported' /\ ~FeedDone(d)'
      /\ \A e \in Docs \ {d} : branches'[e] = branches[e] /\ (FeedDone(e)' <=> FeedDone(e))
      /\ LastReportStands'
  BY <1>1, Writes DEF BadgeInv
<1>4. BadgeTypes' /\ JobsInOrder'
  BY <1>1, <1>2 DEF BadgeInv, BadgeTypes, JobsInOrder
<1>5. FeedLooksAtWhatIs' /\ StartKeepsWhatDiffers' /\ CountedNotes' /\ CountedAttachments'
  BY <1>1, <1>2, CountStays
<1>6. QED
  BY <1>2, <1>4, <1>5 DEF BadgeInv

----------------------------------------------------------------------------
(* The changes feed                                                         *)

LEMMA ReportStep == ASSUME BadgeInv, NEW d \in Docs, Report(d) PROVE BadgeInv'
<1>1. /\ d \in unreported /\ unreported' = unreported \ {d}
      /\ changes' = Append(changes, Seen(d))
      /\ UNCHANGED <<branches, fileSays, conflictIds, jobs, rows, overtaken>>
  BY DEF Report
<1>2. PICK S : changes \in Seq(S)
  BY DEF BadgeInv, BadgeTypes
<1>3. changes' \in Seq(S \cup {Seen(d)})
  BY <1>1, <1>2
<1>4. /\ Len(changes) \in Nat /\ DOMAIN changes = 1..Len(changes) /\ DOMAIN changes' = 1..(Len(changes) + 1)
      /\ \A k \in DOMAIN changes : changes'[k] = changes[k]
      /\ changes'[Len(changes) + 1] = Seen(d)
  BY <1>1, <1>2
<1>5. Seen(d).doc = d /\ Seen(d).branches = branches[d]
  BY DEF Seen
<1>6. \A k \in DOMAIN changes' : changes'[k].doc \in Docs
  BY <1>4, <1>5 DEF BadgeInv, BadgeTypes
<1>7. BadgeTypes' /\ JobsInOrder'
  BY <1>1, <1>3, <1>6 DEF BadgeInv, BadgeTypes, JobsInOrder
<1>8. LastReportStands'
  <2> SUFFICES ASSUME NEW e \in Docs \ unreported', NEW k \in DOMAIN changes',
                      changes'[k].doc = e, \A j \in DOMAIN changes' : k < j => changes'[j].doc # e
               PROVE  changes'[k].branches = branches[e]
    BY <1>1 DEF LastReportStands
  <2>1. CASE k = Len(changes) + 1
    BY <1>4, <1>5, <2>1
  <2>2. CASE k \in DOMAIN changes
    <3>1. \A j \in DOMAIN changes : j \in DOMAIN changes'
      BY <1>4
    <3>2. changes[k].doc = e /\ \A j \in DOMAIN changes : k < j => changes[j].doc # e
      BY <1>4, <2>2, <3>1
    <3>3. e # d
      BY <1>4, <1>5, <2>2
    <3>4. QED
      BY <1>1, <1>4, <2>2, <3>2, <3>3 DEF BadgeInv, LastReportStands
  <2>3. QED
    BY <1>4, <2>1, <2>2
<1>9. /\ ~FeedDone(d)'
      /\ \A e \in Docs : FeedDone(e)' => FeedDone(e)
  <2>1. ~FeedDone(d)'
    BY <1>4, <1>5 DEF FeedDone
  <2>2. ASSUME NEW e \in Docs, FeedDone(e)' PROVE FeedDone(e)
    <3>1. e # d
      BY <2>1, <2>2
    <3>2. \A k \in DOMAIN changes : k \in DOMAIN changes'
      BY <1>4
    <3>3. QED
      BY <1>1, <1>4, <2>2, <3>1, <3>2 DEF FeedDone
  <2>3. QED
    BY <2>1, <2>2
<1>10. FeedLooksAtWhatIs' /\ StartKeepsWhatDiffers' /\ CountedNotes' /\ CountedAttachments'
  BY <1>1, <1>9, CountStays
<1>11. QED
  BY <1>7, <1>8, <1>10 DEF BadgeInv

\* Taking the first change: the rest of the queue, and what is known of its document.
LEMMA TakesChange ==
    ASSUME BadgeInv, ApplyChange, NEW change, change = Head(changes), NEW d, d = change.doc
    PROVE  /\ d \in Docs /\ \E S : changes' \in Seq(S)
           /\ \A k \in DOMAIN changes' : changes'[k].doc \in Docs
           /\ LastReportStands'
           /\ FeedDone(d)' => change.branches = branches[d]
           /\ \A e \in Docs \ {d} : FeedDone(e)' => FeedDone(e)
           /\ UNCHANGED <<branches, unreported>>
<1>1. /\ changes # <<>> /\ changes' = Tail(changes) /\ UNCHANGED <<branches, unreported>>
  BY DEF ApplyChange
<1>2. PICK S : changes \in Seq(S)
  BY DEF BadgeInv, BadgeTypes
<1>3. /\ Len(changes) \in Nat /\ Len(changes) > 0 /\ DOMAIN changes = 1..Len(changes)
      /\ changes' \in Seq(S) /\ DOMAIN changes' = 1..(Len(changes) - 1)
      /\ \A k \in 1..(Len(changes) - 1) : changes'[k] = changes[k + 1]
      /\ change = changes[1]
  BY <1>1, <1>2
<1>4. d \in Docs /\ \A k \in DOMAIN changes' : changes'[k].doc \in Docs
  <2>1. 1 \in DOMAIN changes /\ \A k \in DOMAIN changes' : k + 1 \in DOMAIN changes
    BY <1>3
  <2>2. QED
    BY <1>3, <2>1 DEF BadgeInv, BadgeTypes
<1>5. LastReportStands'
  <2> SUFFICES ASSUME NEW e \in Docs \ unreported, NEW k \in DOMAIN changes',
                      changes'[k].doc = e, \A j \in DOMAIN changes' : k < j => changes'[j].doc # e
               PROVE  changes'[k].branches = branches[e]
    BY <1>1 DEF LastReportStands
  <2>1. k + 1 \in DOMAIN changes /\ changes'[k] = changes[k + 1]
    BY <1>3
  <2>2. ASSUME NEW j \in DOMAIN changes, k + 1 < j PROVE changes[j].doc # e
    <3>1. j - 1 \in DOMAIN changes' /\ k < j - 1 /\ changes'[j - 1] = changes[j]
      BY <1>3, <2>2
    <3>2. QED
      BY <3>1
  <2>3. QED
    BY <2>1, <2>2 DEF BadgeInv, LastReportStands
<1>6. ASSUME FeedDone(d)' PROVE change.branches = branches[d]
  <2>1. d \notin unreported /\ \A k \in DOMAIN changes' : changes'[k].doc # d
    BY <1>1, <1>6 DEF FeedDone
  <2>2. ASSUME NEW j \in DOMAIN changes, 1 < j PROVE changes[j].doc # d
    <3>1. j - 1 \in DOMAIN changes' /\ changes'[j - 1] = changes[j]
      BY <1>3, <2>2
    <3>2. QED
      BY <2>1, <3>1
  <2>3. 1 \in DOMAIN changes
    BY <1>3
  <2>4. QED
    BY <1>3, <1>4, <2>1, <2>2, <2>3 DEF BadgeInv, LastReportStands
<1>7. ASSUME NEW e \in Docs \ {d}, FeedDone(e)' PROVE FeedDone(e)
  <2>1. ASSUME NEW j \in DOMAIN changes PROVE changes[j].doc # e
    <3>1. CASE j = 1
      BY <1>3, <3>1
    <3>2. CASE j # 1
      <4>1. j - 1 \in DOMAIN changes' /\ changes'[j - 1] = changes[j]
        BY <1>3, <3>2
      <4>2. QED
        BY <1>7, <4>1 DEF FeedDone
    <3>3. QED
      BY <3>1, <3>2
  <2>2. QED
    BY <1>1, <1>7, <2>1 DEF FeedDone
<1>8. QED
  BY <1>1, <1>3, <1>4, <1>5, <1>6, <1>7

\* A document without conflict is taken off and written to the file.
LEMMA AppliesPlain ==
    ASSUME BadgeInv, ApplyChange, _conflicts(Head(changes).branches) = {}
    PROVE  BadgeInv'
<1>c. PICK c : c = Head(changes)
  OBVIOUS
<1>2. PICK e : e = c.doc
  OBVIOUS
<1>0. /\ e \in Docs /\ \E S : changes' \in Seq(S)
      /\ \A k \in DOMAIN changes' : changes'[k].doc \in Docs
      /\ LastReportStands'
      /\ FeedDone(e)' => c.branches = branches[e]
      /\ \A f \in Docs \ {e} : FeedDone(f)' => FeedDone(f)
      /\ UNCHANGED <<branches, unreported>>
  BY <1>c, <1>2, TakesChange
<1>1. /\ conflictIds' = conflictIds \ {e} /\ overtaken' = overtaken \ {e} /\ UNCHANGED <<jobs, rows>>
      /\ \E text : fileSays' \in {[fileSays EXCEPT ![e] = text], fileSays}
      /\ jobs["feed"].step = "rest"
  BY <1>c, <1>2 DEF ApplyChange, Counted, AtWork
<1>3. /\ fileSays' = [f \in Docs |-> fileSays'[f]] /\ \A f \in Docs \ {e} : fileSays'[f] = fileSays[f]
  BY <1>0, <1>1 DEF BadgeInv, BadgeTypes
<1>4. BadgeTypes' /\ JobsInOrder'
  BY <1>0, <1>1, <1>3 DEF BadgeInv, BadgeTypes, JobsInOrder
<1>5. jobs["feed"].hand = {}
  BY <1>1 DEF BadgeInv, JobsInOrder, JobInOrder, Looking, Lookers
<1>6. FeedDone(e)' => ~StandsInConflict(e) /\ ~StandsInConflict(e)'
  BY <1>0, <1>c DEF StandsInConflict
<1>7. \A f \in Docs \ {e} : FeedDone(f)' => /\ FeedDone(f)
                                            /\ Differs(f)' <=> Differs(f)
                                            /\ StandsInConflict(f)' <=> StandsInConflict(f)
                                            /\ StartWillLook(f)' <=> StartWillLook(f)
                                            /\ PendingAttachment(f)' <=> PendingAttachment(f)
  BY <1>0, <1>1, <1>2, <1>3 DEF Differs, StandsInConflict, StartWillLook, PendingAttachment
<1>8. \A f : ~InHand("feed", f) /\ ~InHand("feed", f)'
  BY <1>1, <1>5 DEF InHand
<1>9. FeedLooksAtWhatIs'
  BY <1>1, <1>5 DEF FeedLooksAtWhatIs
<1>10. StartKeepsWhatDiffers'
  <2> SUFFICES ASSUME jobs["start"].step = "keep", NEW s \in jobs["start"].hand,
                      s.branches = branches[s.doc], FeedDone(s.doc)'
               PROVE  Differs(s.doc)'
    BY <1>0, <1>1 DEF StartKeepsWhatDiffers
  <2>1. s.doc \in Docs /\ _conflicts(s.branches) # {}
    BY DEF BadgeInv, JobsInOrder, JobInOrder, Lookers, Docs
  <2>2. s.doc # e
    BY <1>6, <2>1 DEF StandsInConflict
  <2>3. QED
    BY <1>7, <1>8, <2>1, <2>2 DEF BadgeInv, StartKeepsWhatDiffers
<1>11. CountedNotes'
  <2> SUFFICES ASSUME NEW f \in Pages \ overtaken', FeedDone(f)'
               PROVE  /\ f \in conflictIds' => StandsInConflict(f)' /\ Differs(f)'
                      /\ StandsInConflict(f)' /\ Differs(f)' => f \in conflictIds' \/ StartWillLook(f)'
    BY <1>8 DEF CountedNotes
  <2>1. f \in Docs
    BY DEF Docs
  <2>2. CASE f = e
    BY <1>1, <1>2, <1>6, <2>2
  <2>3. CASE f # e
    BY <1>1, <1>2, <1>7, <1>8, <2>1, <2>3 DEF BadgeInv, CountedNotes
  <2>4. QED
    BY <2>2, <2>3
<1>12. CountedAttachments'
  <2> SUFFICES ASSUME NEW f \in Attachments \ overtaken', FeedDone(f)'
               PROVE  /\ f \in conflictIds' => StandsInConflict(f)'
                      /\ StandsInConflict(f)' => f \in conflictIds' \/ PendingAttachment(f)'
    BY DEF CountedAttachments
  <2>1. f \in Docs
    BY DEF Docs
  <2>2. CASE f = e
    BY <1>1, <1>2, <1>6, <2>2
  <2>3. CASE f # e
    BY <1>1, <1>2, <1>7, <2>1, <2>3 DEF BadgeInv, CountedAttachments
  <2>4. QED
    BY <2>2, <2>3
<1>13. QED
  BY <1>0, <1>4, <1>9, <1>10, <1>11, <1>12 DEF BadgeInv

\* A document in conflict is counted; if it is a note the feed looks at it.
LEMMA AppliesConflict ==
    ASSUME BadgeInv, ApplyChange, _conflicts(Head(changes).branches) # {}
    PROVE  BadgeInv'
<1>c. PICK c : c = Head(changes)
  OBVIOUS
<1>2. PICK e : e = c.doc
  OBVIOUS
<1>0. /\ e \in Docs /\ \E S : changes' \in Seq(S)
      /\ \A k \in DOMAIN changes' : changes'[k].doc \in Docs
      /\ LastReportStands'
      /\ FeedDone(e)' => c.branches = branches[e]
      /\ \A f \in Docs \ {e} : FeedDone(f)' => FeedDone(f)
      /\ UNCHANGED <<branches, unreported>>
  BY <1>c, <1>2, TakesChange
<1> DEFINE r == [todo |-> {}, hand |-> {c}, step |-> "look"]
<1>1. /\ conflictIds' = conflictIds \cup {e} /\ overtaken' = overtaken \ {e} /\ UNCHANGED <<fileSays, rows>>
      /\ jobs' = IF e \in Pages THEN [jobs EXCEPT !["feed"] = r] ELSE jobs
      /\ jobs["feed"].step = "rest"
  BY <1>c, <1>2 DEF ApplyChange, Counted, AtWork
<1>3. /\ "feed" \in Lookers /\ "start" \in Lookers
      /\ AJob(r) /\ r.hand = {c} /\ r.step = "look"
  BY DEF AJob, Lookers
<1>4. e \in Pages => JobInOrder(r)
  BY <1>c, <1>2 DEF JobInOrder, Looking
<1> HIDE DEF r
<1>5. /\ jobs' = [w \in Lookers |-> jobs'[w]] /\ \A w \in Lookers : AJob(jobs'[w])
      /\ jobs'["start"] = jobs["start"]
      /\ jobs'["feed"] = IF e \in Pages THEN r ELSE jobs["feed"]
      /\ JobsInOrder'
  <2>1. CASE e \in Pages
    <3>1. jobs' = [jobs EXCEPT !["feed"] = r] /\ r.step \in {"rest"} \cup Looking
      BY <1>1, <1>3, <2>1 DEF Looking
    <3>2. QED
      BY <1>3, <1>4, <2>1, <3>1, OneJob DEF BadgeInv
  <2>2. CASE e \notin Pages
    BY <1>1, <2>2 DEF BadgeInv, BadgeTypes, JobsInOrder
  <2>3. QED
    BY <2>1, <2>2
<1>6. BadgeTypes'
  BY <1>0, <1>1, <1>5 DEF BadgeInv, BadgeTypes
<1>7. /\ jobs["feed"].hand = {} /\ \A f : ~InHand("feed", f)
  <2>1. jobs["feed"].hand = {}
    BY <1>1, <1>3 DEF BadgeInv, JobsInOrder, JobInOrder, Looking
  <2>2. QED
    BY <2>1 DEF InHand
<1>8. \A f \in Docs \ {e} : FeedDone(f)' => /\ FeedDone(f) /\ ~InHand("feed", f)'
                                            /\ Differs(f)' <=> Differs(f)
                                            /\ StandsInConflict(f)' <=> StandsInConflict(f)
                                            /\ StartWillLook(f)' <=> StartWillLook(f)
                                            /\ PendingAttachment(f)' <=> PendingAttachment(f)
  BY <1>0, <1>1, <1>2, <1>3, <1>5, <1>7 DEF Differs, StandsInConflict, StartWillLook, PendingAttachment, InHand
<1>9. FeedDone(e)' => StandsInConflict(e)' /\ (e \in Pages => InHand("feed", e)')
  BY <1>c, <1>0, <1>2, <1>3, <1>5 DEF StandsInConflict, InHand
<1>10. FeedLooksAtWhatIs'
  <2> SUFFICES ASSUME NEW s \in jobs'["feed"].hand, FeedDone(s.doc)'
               PROVE  /\ s.branches = branches[s.doc] /\ jobs'["feed"].step = "look"
    BY <1>0 DEF FeedLooksAtWhatIs
  <2>1. e \in Pages /\ s = c
    BY <1>3, <1>5, <1>7
  <2>2. QED
    BY <1>0, <1>2, <1>3, <1>5, <2>1
<1>11. StartKeepsWhatDiffers'
  <2> SUFFICES ASSUME jobs["start"].step = "keep", NEW s \in jobs["start"].hand,
                      s.branches = branches[s.doc], FeedDone(s.doc)', ~InHand("feed", s.doc)'
               PROVE  Differs(s.doc)'
    BY <1>0, <1>5 DEF StartKeepsWhatDiffers
  <2>1. s.doc \in Pages /\ s.doc \in Docs
    BY <1>3 DEF BadgeInv, JobsInOrder, JobInOrder, Docs
  <2>2. s.doc # e
    BY <1>9, <2>1
  <2>3. QED
    BY <1>7, <1>8, <2>1, <2>2 DEF BadgeInv, StartKeepsWhatDiffers
<1>12. CountedNotes'
  <2> SUFFICES ASSUME NEW f \in Pages \ overtaken', FeedDone(f)'
               PROVE  /\ InHand("feed", f)' => f \in conflictIds' \/ StartWillLook(f)'
                      /\ ~InHand("feed", f)' =>
                            /\ f \in conflictIds' => StandsInConflict(f)' /\ Differs(f)'
                            /\ StandsInConflict(f)' /\ Differs(f)' => f \in conflictIds' \/ StartWillLook(f)'
    BY DEF CountedNotes
  <2>1. f \in Docs
    BY DEF Docs
  <2>2. CASE f = e
    BY <1>1, <1>9, <2>2
  <2>3. CASE f # e
    BY <1>1, <1>7, <1>8, <2>1, <2>3 DEF BadgeInv, CountedNotes
  <2>4. QED
    BY <2>2, <2>3
<1>13. CountedAttachments'
  <2> SUFFICES ASSUME NEW f \in Attachments \ overtaken', FeedDone(f)'
               PROVE  /\ f \in conflictIds' => StandsInConflict(f)'
                      /\ StandsInConflict(f)' => f \in conflictIds' \/ PendingAttachment(f)'
    BY DEF CountedAttachments
  <2>1. f \in Docs
    BY DEF Docs
  <2>2. CASE f = e
    BY <1>1, <1>9, <2>2
  <2>3. CASE f # e
    BY <1>1, <1>8, <2>1, <2>3 DEF BadgeInv, CountedAttachments
  <2>4. QED
    BY <2>2, <2>3
<1>14. QED
  BY <1>0, <1>5, <1>6, <1>10, <1>11, <1>12, <1>13 DEF BadgeInv

LEMMA ApplyChangeStep == ASSUME BadgeInv, ApplyChange PROVE BadgeInv'
  BY AppliesPlain, AppliesConflict

----------------------------------------------------------------------------
(* Looking at conflicts: what each step makes of the job.                   *)

LEMMA Listed ==
    ASSUME NEW docs \in {Pages, Attachments}, NEW s \in WithConflicts(docs)
    PROVE  s.doc \in docs /\ s.branches = branches[s.doc] /\ _conflicts(s.branches) # {}
  BY DEF WithConflicts, Seen

LEMMA ListedAll ==
    ASSUME NEW docs \in {Pages, Attachments}, NEW d \in docs, StandsInConflict(d)
    PROVE  \E s \in WithConflicts(docs) : s.doc = d /\ s.branches = branches[d]
<1>1. Seen(d) \in WithConflicts(docs) /\ Seen(d).doc = d /\ Seen(d).branches = branches[d]
  BY DEF WithConflicts, Seen, StandsInConflict
<1>2. QED
  BY <1>1

\* Setting one part of a job leaves the others.
LEMMA JobParts ==
    ASSUME NEW j, AJob(j), NEW x
    PROVE  /\ [j EXCEPT !.todo = x] = [todo |-> x, hand |-> j.hand, step |-> j.step]
           /\ [j EXCEPT !.hand = x] = [todo |-> j.todo, hand |-> x, step |-> j.step]
           /\ [j EXCEPT !.step = x] = [todo |-> j.todo, hand |-> j.hand, step |-> x]
<1>1. PICK a, b, c : j = [todo |-> a, hand |-> b, step |-> c]
  BY DEF AJob
<1>2. a = j.todo /\ b = j.hand /\ c = j.step
  BY <1>1
<1>3. [j EXCEPT !.todo = x] = [todo |-> x, hand |-> b, step |-> c]
  BY <1>1
<1>4. [j EXCEPT !.hand = x] = [todo |-> a, hand |-> x, step |-> c]
  BY <1>1
<1>5. [j EXCEPT !.step = x] = [todo |-> a, hand |-> b, step |-> x]
  BY <1>1
<1>6. QED
  BY <1>2, <1>3, <1>4, <1>5

LEMMA TakenJob ==
    ASSUME BadgeInv, NEW who \in Lookers, NEW seen, Take(who, seen), NEW r,
           r = [todo |-> jobs[who].todo \ {seen}, hand |-> {seen}, step |-> "look"]
    PROVE  /\ jobs' = [jobs EXCEPT ![who] = r] /\ AJob(r) /\ JobInOrder(r)
           /\ r.todo = jobs[who].todo \ {seen} /\ r.hand = {seen} /\ r.step = "look"
           /\ r.todo \cup r.hand = jobs[who].todo \cup jobs[who].hand
<1>1. jobs' = [jobs EXCEPT ![who] = r]
  BY DEF Take
<1>2. /\ r.todo = jobs[who].todo \ {seen} /\ r.hand = {seen} /\ r.step = "look" /\ AJob(r)
  BY DEF AJob
<1>3. /\ jobs[who].step = "notes" /\ seen \in jobs[who].todo /\ JobInOrder(jobs[who])
  BY DEF Take, BadgeInv, JobsInOrder
<1>4. jobs[who].hand = {}
  BY <1>3 DEF JobInOrder, Looking
<1>5. JobInOrder(r)
  BY <1>2, <1>3 DEF JobInOrder, Looking
<1>6. QED
  BY <1>1, <1>2, <1>3, <1>4, <1>5

LEMMA LookedJob ==
    ASSUME BadgeInv, NEW who \in Lookers, NEW seen, Look(who, seen), NEW r,
           r = [todo |-> jobs[who].todo, hand |-> jobs[who].hand,
                step |-> IF \E l \in seen.branches : l.text # fileSays[seen.doc] THEN "keep" ELSE "collapse"]
    PROVE  /\ jobs' = [jobs EXCEPT ![who] = r] /\ AJob(r) /\ JobInOrder(r)
           /\ r.todo = jobs[who].todo /\ r.hand = jobs[who].hand /\ jobs[who].hand = {seen}
           /\ r.step = IF \E l \in seen.branches : l.text # fileSays[seen.doc] THEN "keep" ELSE "collapse"
<1> DEFINE step == IF \E l \in seen.branches : l.text # fileSays[seen.doc] THEN "keep" ELSE "collapse"
<1>0. step \in {"keep", "collapse"}
  OBVIOUS
<1>1. /\ jobs' = [jobs EXCEPT ![who].step = step] /\ jobs[who].step = "look" /\ seen \in jobs[who].hand
  BY DEF Look
<1> HIDE DEF step
<1>2. jobs[who] = [todo |-> jobs[who].todo, hand |-> jobs[who].hand, step |-> jobs[who].step]
  BY DEF BadgeInv, BadgeTypes, AJob
<1>3. [jobs[who] EXCEPT !.step = step] = [todo |-> jobs[who].todo, hand |-> jobs[who].hand, step |-> step]
  BY <1>2
<1>4. r = [todo |-> jobs[who].todo, hand |-> jobs[who].hand, step |-> step]
  BY DEF step
<1>5. jobs' = [jobs EXCEPT ![who] = r]
  BY <1>1, <1>3, <1>4
<1>6. r.todo = jobs[who].todo /\ r.hand = jobs[who].hand /\ r.step = step /\ AJob(r)
  BY <1>4 DEF AJob
<1>7. JobInOrder(jobs[who])
  BY DEF BadgeInv, JobsInOrder
<1>8. jobs[who].hand = {seen}
  BY <1>1, <1>7 DEF JobInOrder, Looking
<1>9. JobInOrder(r)
  BY <1>0, <1>1, <1>6, <1>7 DEF JobInOrder, Looking
<1>10. QED
  BY <1>5, <1>6, <1>8, <1>9 DEF step

LEMMA LookedAtJob ==
    ASSUME BadgeInv, NEW who \in Lookers, jobs[who].step \in Looking, LookedAt(who), NEW r,
           r = [todo |-> jobs[who].todo, hand |-> {}, step |-> IF who = "feed" THEN "rest" ELSE "notes"]
    PROVE  /\ jobs' = [jobs EXCEPT ![who] = r] /\ AJob(r) /\ JobInOrder(r)
           /\ r.todo = jobs[who].todo /\ r.hand = {} /\ r.step = IF who = "feed" THEN "rest" ELSE "notes"
<1> DEFINE step == IF who = "feed" THEN "rest" ELSE "notes"
<1>0. step \in {"rest", "notes"}
  OBVIOUS
<1>1. jobs' = [jobs EXCEPT ![who].hand = {}, ![who].step = step]
  BY DEF LookedAt
<1> HIDE DEF step
<1>2. jobs[who] = [todo |-> jobs[who].todo, hand |-> jobs[who].hand, step |-> jobs[who].step]
  BY DEF BadgeInv, BadgeTypes, AJob
<1>3. r = [todo |-> jobs[who].todo, hand |-> {}, step |-> step]
  BY DEF step
<1>4. [[jobs[who] EXCEPT !.hand = {}] EXCEPT !.step = step] = r
  <2>1. [jobs[who] EXCEPT !.hand = {}] = [todo |-> jobs[who].todo, hand |-> {}, step |-> jobs[who].step]
    BY JobParts DEF BadgeInv, BadgeTypes
  <2>2. PICK j : j = [todo |-> jobs[who].todo, hand |-> {}, step |-> jobs[who].step]
    OBVIOUS
  <2>3. AJob(j) /\ j.todo = jobs[who].todo /\ j.hand = {}
    BY <2>2 DEF AJob
  <2>4. [j EXCEPT !.step = step] = r
    <3>1. [j EXCEPT !.step = step] = [todo |-> j.todo, hand |-> j.hand, step |-> step]
      BY <2>3, JobParts
    <3>2. QED
      BY <1>3, <2>3, <3>1
  <2>5. QED
    BY <2>1, <2>2, <2>4
<1>5. jobs' = [jobs EXCEPT ![who] = r]
  <2>1. jobs = [w \in Lookers |-> jobs[w]]
    BY DEF BadgeInv, BadgeTypes
  <2>2. QED
    BY <1>1, <1>4, <2>1
<1>6. r.todo = jobs[who].todo /\ r.hand = {} /\ r.step = step /\ AJob(r)
  BY <1>3 DEF AJob
<1>7. JobInOrder(jobs[who])
  BY DEF BadgeInv, JobsInOrder
<1>8. JobInOrder(r)
  BY <1>0, <1>6, <1>7 DEF JobInOrder, Looking
<1>9. QED
  BY <1>5, <1>6, <1>8 DEF step

----------------------------------------------------------------------------
(* The list a person opens: it counts nothing.                              *)

LEMMA ListMoves ==
    ASSUME BadgeInv, NEW r, AJob(r), JobInOrder(r), jobs' = [jobs EXCEPT !["list"] = r],
           UNCHANGED <<branches, fileSays, conflictIds, unreported, changes, overtaken>>,
           rows' \in SUBSET Docs
    PROVE  BadgeInv'
<1>1. /\ jobs' = [w \in Lookers |-> jobs'[w]] /\ \A w \in Lookers : AJob(jobs'[w])
      /\ jobs'["feed"] = jobs["feed"] /\ jobs'["start"] = jobs["start"]
      /\ JobsInOrder'
  <2>1. "list" \in Lookers /\ "feed" \in Lookers /\ "start" \in Lookers
    BY DEF Lookers
  <2>2. QED
    BY <2>1, OneJob DEF BadgeInv
<1>2. BadgeTypes'
  BY <1>1 DEF BadgeInv, BadgeTypes
<1>3. LastReportStands'
  BY DEF BadgeInv, LastReportStands
<1>4. \A d : FeedDone(d)' <=> FeedDone(d)
  BY DEF FeedDone
<1>5. FeedLooksAtWhatIs' /\ StartKeepsWhatDiffers' /\ CountedNotes' /\ CountedAttachments'
  BY <1>1, <1>4, CountStays
<1>6. QED
  BY <1>1, <1>2, <1>3, <1>5 DEF BadgeInv

LEMMA ListAnewStep == ASSUME BadgeInv, ListAnew PROVE BadgeInv'
<1> DEFINE r == [todo |-> WithConflicts(Pages), hand |-> {}, step |-> "notes"]
<1>1. /\ jobs' = [jobs EXCEPT !["list"] = r]
      /\ UNCHANGED <<branches, fileSays, conflictIds, unreported, changes, overtaken>>
      /\ rows' \in SUBSET Docs
  BY DEF ListAnew
<1>2. AJob(r) /\ r.todo = WithConflicts(Pages) /\ r.hand = {} /\ r.step = "notes"
  BY DEF AJob
<1> HIDE DEF r
<1>3. JobInOrder(r)
  BY <1>2, Listed DEF JobInOrder, Looking
<1>4. QED
  BY <1>1, <1>2, <1>3, ListMoves

LEMMA ChooseStep == ASSUME BadgeInv, NEW which \in SUBSET Docs, Choose(which) PROVE BadgeInv'
<1> DEFINE r == [todo |-> {Seen(d) : d \in which}, hand |-> {}, step |-> "resolve"]
<1>1. /\ jobs' = [jobs EXCEPT !["list"] = r]
      /\ UNCHANGED <<branches, fileSays, conflictIds, unreported, changes, overtaken>>
      /\ rows' \in SUBSET Docs
  BY DEF Choose, BadgeInv, BadgeTypes
<1>2. AJob(r) /\ r.hand = {} /\ r.step = "resolve" /\ \A s \in r.todo : s.doc \in Docs
  BY DEF AJob, Seen
<1> HIDE DEF r
<1>3. JobInOrder(r)
  BY <1>2 DEF JobInOrder, Looking
<1>4. QED
  BY <1>1, <1>2, <1>3, ListMoves

LEMMA ResolveStep == ASSUME BadgeInv, NEW seen, Resolve(seen) PROVE BadgeInv'
<1> DEFINE r == [todo |-> jobs["list"].todo \ {seen}, hand |-> jobs["list"].hand, step |-> "resolve"]
<1>1. /\ jobs' = [jobs EXCEPT !["list"].todo = @ \ {seen}] /\ jobs["list"].step = "resolve"
      /\ UNCHANGED <<conflictIds, changes, rows, overtaken>>
  BY DEF Resolve
<1>2. /\ jobs["list"] = [todo |-> jobs["list"].todo, hand |-> jobs["list"].hand, step |-> jobs["list"].step]
      /\ JobInOrder(jobs["list"]) /\ jobs = [w \in Lookers |-> jobs[w]]
      /\ "list" \in Lookers /\ "feed" \in Lookers /\ "start" \in Lookers
  BY DEF BadgeInv, BadgeTypes, AJob, JobsInOrder, Lookers
<1>3. jobs' = [jobs EXCEPT !["list"] = r]
  <2>1. [jobs["list"] EXCEPT !.todo = jobs["list"].todo \ {seen}] = r
    BY SMTT(60), <1>1, <1>2, JobParts DEF r, AJob
  <2>2. QED
    BY <1>1, <1>2, <2>1
<1>4. AJob(r) /\ r.todo = jobs["list"].todo \ {seen} /\ r.hand = jobs["list"].hand /\ r.step = "resolve"
  BY DEF AJob
<1> HIDE DEF r
<1>5. JobInOrder(r)
  BY <1>1, <1>2, <1>4 DEF JobInOrder, Looking
<1>a. rows \in SUBSET Docs
  BY DEF BadgeInv, BadgeTypes
<1>6. CASE UNCHANGED <<branches, unreported, fileSays>>
  BY <1>1, <1>a, <1>3, <1>4, <1>5, <1>6, ListMoves
<1>7. ASSUME NEW d \in Docs, NEW ls, NEW text, fileSays' = [fileSays EXCEPT ![d] = text], Write(d, ls)
      PROVE  BadgeInv'
  <2>1. /\ branches' = [e \in Docs |-> branches'[e]]
        /\ d \in unreported' /\ ~FeedDone(d)'
        /\ \A e \in Docs \ {d} : branches'[e] = branches[e] /\ (FeedDone(e)' <=> FeedDone(e))
        /\ LastReportStands'
    BY <1>1, <1>7, Writes DEF BadgeInv
  <2>2. /\ fileSays' = [e \in Docs |-> fileSays'[e]]
        /\ \A e \in Docs \ {d} : fileSays'[e] = fileSays[e]
    BY <1>7 DEF BadgeInv, BadgeTypes
  <2>3. /\ jobs' = [w \in Lookers |-> jobs'[w]] /\ \A w \in Lookers : AJob(jobs'[w])
        /\ jobs'["feed"] = jobs["feed"] /\ jobs'["start"] = jobs["start"]
        /\ JobsInOrder'
    BY <1>2, <1>3, <1>4, <1>5, OneJob DEF BadgeInv
  <2>4. BadgeTypes'
    BY <1>1, <2>1, <2>2, <2>3 DEF BadgeInv, BadgeTypes
  <2>5. FeedLooksAtWhatIs' /\ StartKeepsWhatDiffers' /\ CountedNotes' /\ CountedAttachments'
    BY <1>1, <2>1, <2>2, <2>3, CountStays
  <2>6. QED
    BY <2>1, <2>3, <2>4, <2>5 DEF BadgeInv
<1>8. seen.doc \in Docs
  BY <1>1, <1>2 DEF Resolve, JobInOrder
<1>9. QED
  <2>1. PICK d \in Docs : d = seen.doc
    BY <1>8
  <2>2. CASE \E text : \E ls : fileSays' = [fileSays EXCEPT ![d] = text] /\ Write(d, ls)
    BY <1>7, <2>2
  <2>3. QED
    BY <1>6, <2>1, <2>2 DEF Resolve

----------------------------------------------------------------------------
(* The start of the link: what it takes into the count, and when.           *)

LEMMA FeedsHand ==
    ASSUME BadgeInv, NEW d, InHand("feed", d), FeedDone(d)
    PROVE  d \in Pages /\ StandsInConflict(d)
<1>1. PICK s \in jobs["feed"].hand : s.doc = d
  BY DEF InHand
<1>2. /\ jobs["feed"].step \in {"rest"} \cup Looking /\ JobInOrder(jobs["feed"])
  BY DEF BadgeInv, JobsInOrder, Lookers
<1>3. s.doc \in Pages /\ _conflicts(s.branches) # {}
  BY <1>1, <1>2 DEF JobInOrder, Looking
<1>4. s.branches = branches[d]
  BY <1>1 DEF BadgeInv, FeedLooksAtWhatIs
<1>5. QED
  BY <1>1, <1>3, <1>4 DEF StandsInConflict

\* What the start does to the count, of the documents the feed is done with.
LEMMA CountMoves ==
    ASSUME BadgeInv, jobs'["feed"] = jobs["feed"],
           \A d \in Docs : FeedDone(d)' => FeedDone(d) /\ branches'[d] = branches[d]
                                           /\ fileSays'[d] = fileSays[d],
           jobs'["start"].step = "keep" => \A s \in jobs'["start"].hand :
               /\ s.doc \in Docs
               /\ s.branches = branches[s.doc] /\ FeedDone(s.doc) /\ ~InHand("feed", s.doc)
                      => Differs(s.doc),
           \A d \in Docs \ overtaken' : FeedDone(d)' =>
               /\ d \notin overtaken
               /\ d \in conflictIds' => \/ d \in conflictIds
                                        \/ StandsInConflict(d) /\ (d \in Pages /\ ~InHand("feed", d) => Differs(d))
               /\ d \in Pages /\ StandsInConflict(d) /\ (d \in conflictIds \/ StartWillLook(d))
                      => d \in conflictIds' \/ StartWillLook(d)'
               /\ d \in Attachments /\ StandsInConflict(d) /\ (d \in conflictIds \/ PendingAttachment(d))
                      => d \in conflictIds' \/ PendingAttachment(d)'
    PROVE  FeedLooksAtWhatIs' /\ StartKeepsWhatDiffers' /\ CountedNotes' /\ CountedAttachments'
<1>0. /\ \A s \in jobs["feed"].hand : s.doc \in Docs
      /\ Pages \subseteq Docs /\ Attachments \subseteq Docs
  <2>1. /\ jobs["feed"].step \in {"rest"} \cup Looking /\ JobInOrder(jobs["feed"])
    BY DEF BadgeInv, JobsInOrder, Lookers
  <2>2. QED
    BY <2>1 DEF JobInOrder, Looking, Docs
<1>1. \A d \in Docs : FeedDone(d)' => /\ Differs(d)' <=> Differs(d)
                                      /\ StandsInConflict(d)' <=> StandsInConflict(d)
  BY DEF Differs, StandsInConflict
<1>2. \A d : InHand("feed", d)' <=> InHand("feed", d)
  BY DEF InHand
<1>3. FeedLooksAtWhatIs'
  <2> SUFFICES ASSUME NEW s \in jobs["feed"].hand, FeedDone(s.doc)'
               PROVE  /\ s.branches = branches'[s.doc]
                      /\ jobs["feed"].step = "keep" => Differs(s.doc)'
                      /\ jobs["feed"].step = "collapse" => ~Differs(s.doc)'
    BY DEF FeedLooksAtWhatIs
  <2>1. s.doc \in Docs /\ FeedDone(s.doc) /\ branches'[s.doc] = branches[s.doc]
        /\ (Differs(s.doc)' <=> Differs(s.doc))
    BY <1>0, <1>1
  <2>2. QED
    BY <2>1 DEF BadgeInv, FeedLooksAtWhatIs
<1>4. StartKeepsWhatDiffers'
  <2> SUFFICES ASSUME jobs'["start"].step = "keep", NEW s \in jobs'["start"].hand,
                      s.branches = branches'[s.doc], FeedDone(s.doc)', ~InHand("feed", s.doc)'
               PROVE  Differs(s.doc)'
    BY DEF StartKeepsWhatDiffers
  <2>1. s.doc \in Docs /\ FeedDone(s.doc) /\ branches'[s.doc] = branches[s.doc]
        /\ (Differs(s.doc)' <=> Differs(s.doc)) /\ ~InHand("feed", s.doc)
    BY <1>1, <1>2
  <2>2. QED
    BY <2>1
<1>5. CountedNotes'
  <2> SUFFICES ASSUME NEW d \in Pages \ overtaken', FeedDone(d)'
               PROVE  /\ InHand("feed", d) => d \in conflictIds' \/ StartWillLook(d)'
                      /\ ~InHand("feed", d) =>
                            /\ d \in conflictIds' => StandsInConflict(d) /\ Differs(d)
                            /\ StandsInConflict(d) /\ Differs(d) => d \in conflictIds' \/ StartWillLook(d)'
    BY <1>0, <1>1, <1>2 DEF CountedNotes
  <2>1. d \in Docs /\ d \notin overtaken /\ FeedDone(d)
    BY <1>0
  <2>2. /\ InHand("feed", d) => StandsInConflict(d) /\ (d \in conflictIds \/ StartWillLook(d))
        /\ ~InHand("feed", d) =>
              /\ d \in conflictIds => StandsInConflict(d) /\ Differs(d)
              /\ StandsInConflict(d) /\ Differs(d) => d \in conflictIds \/ StartWillLook(d)
    BY <2>1, FeedsHand DEF BadgeInv, CountedNotes
  <2>3. QED
    BY <2>1, <2>2
<1>6. CountedAttachments'
  <2> SUFFICES ASSUME NEW d \in Attachments \ overtaken', FeedDone(d)'
               PROVE  /\ d \in conflictIds' => StandsInConflict(d)
                      /\ StandsInConflict(d) => d \in conflictIds' \/ PendingAttachment(d)'
    BY <1>0, <1>1 DEF CountedAttachments
  <2>1. d \in Docs /\ d \notin overtaken /\ FeedDone(d)
    BY <1>0
  <2>2. /\ d \in conflictIds => StandsInConflict(d)
        /\ StandsInConflict(d) => d \in conflictIds \/ PendingAttachment(d)
    BY <2>1 DEF BadgeInv, CountedAttachments
  <2>3. QED
    BY <2>1, <2>2
<1>7. QED
  BY <1>3, <1>4, <1>5, <1>6

\* A step of the start that writes nothing.
LEMMA StartMoves ==
    ASSUME BadgeInv, NEW r, AJob(r), JobInOrder(r), jobs' = [jobs EXCEPT !["start"] = r],
           r.step \in {"clear", "notes", "attachments", "rest"} \cup Looking,
           UNCHANGED <<branches, fileSays, unreported, changes, rows>>, conflictIds' \in SUBSET Docs
    PROVE  /\ jobs'["start"] = r /\ jobs'["feed"] = jobs["feed"]
           /\ BadgeTypes' /\ JobsInOrder' /\ LastReportStands'
           /\ \A d : FeedDone(d)' <=> FeedDone(d)
<1>1. /\ jobs' = [w \in Lookers |-> jobs'[w]] /\ \A w \in Lookers : AJob(jobs'[w])
      /\ jobs'["feed"] = jobs["feed"] /\ jobs'["start"] = r
      /\ JobsInOrder'
  <2>1. "feed" \in Lookers /\ "start" \in Lookers
    BY DEF Lookers
  <2>2. QED
    BY <2>1, OneJob DEF BadgeInv
<1>2. BadgeTypes'
  BY <1>1 DEF BadgeInv, BadgeTypes
<1>3. LastReportStands'
  BY DEF BadgeInv, LastReportStands
<1>4. QED
  BY <1>1, <1>2, <1>3 DEF FeedDone

LEMMA StartClearsStep == ASSUME BadgeInv, StartClears PROVE BadgeInv'
<1> DEFINE r == [todo |-> WithConflicts(Pages), hand |-> {}, step |-> "notes"]
<1>1. /\ jobs' = [jobs EXCEPT !["start"] = r] /\ conflictIds' = {}
      /\ UNCHANGED <<branches, fileSays, unreported, changes, rows, overtaken>>
  BY DEF StartClears
<1>2. AJob(r) /\ r.todo = WithConflicts(Pages) /\ r.hand = {} /\ r.step = "notes"
  BY DEF AJob
<1> HIDE DEF r
<1>3. JobInOrder(r)
  BY <1>2, Listed DEF JobInOrder, Looking
<1>4. /\ jobs'["start"] = r /\ jobs'["feed"] = jobs["feed"]
      /\ BadgeTypes' /\ JobsInOrder' /\ LastReportStands'
      /\ \A d : FeedDone(d)' <=> FeedDone(d)
  BY <1>1, <1>2, <1>3, StartMoves
<1>5. \A d \in Pages : StandsInConflict(d) => StartWillLook(d)'
  BY <1>1, <1>2, <1>4, ListedAll DEF StartWillLook
<1>6. \A d : PendingAttachment(d)'
  BY <1>2, <1>4 DEF PendingAttachment
<1>7. FeedLooksAtWhatIs' /\ StartKeepsWhatDiffers' /\ CountedNotes' /\ CountedAttachments'
  BY <1>1, <1>2, <1>4, <1>5, <1>6, CountMoves
<1>8. QED
  BY <1>4, <1>7 DEF BadgeInv

LEMMA TakeStep == ASSUME BadgeInv, NEW who \in Lookers, NEW seen, Take(who, seen) PROVE BadgeInv'
<1>0. PICK r : r = [todo |-> jobs[who].todo \ {seen}, hand |-> {seen}, step |-> "look"]
  OBVIOUS
<1>1. /\ jobs' = [jobs EXCEPT ![who] = r] /\ AJob(r) /\ JobInOrder(r)
      /\ r.todo = jobs[who].todo \ {seen} /\ r.hand = {seen} /\ r.step = "look"
      /\ r.todo \cup r.hand = jobs[who].todo \cup jobs[who].hand
  BY <1>0, TakenJob
<1>2. /\ jobs[who].step = "notes" /\ rows \in SUBSET Docs /\ conflictIds \in SUBSET Docs
      /\ UNCHANGED <<branches, fileSays, conflictIds, unreported, changes, rows, overtaken>>
  BY DEF Take, BadgeInv, BadgeTypes
<1>3. CASE who = "list"
  BY <1>1, <1>2, <1>3, ListMoves
<1>4. CASE who = "start"
  <2>1. /\ jobs'["start"] = r /\ jobs'["feed"] = jobs["feed"]
        /\ BadgeTypes' /\ JobsInOrder' /\ LastReportStands'
        /\ \A d : FeedDone(d)' <=> FeedDone(d)
    BY <1>1, <1>2, <1>4, StartMoves DEF Looking
  <2>2. \A d : (StartWillLook(d)' <=> StartWillLook(d)) /\ (PendingAttachment(d)' <=> PendingAttachment(d))
    BY <1>1, <1>2, <1>4, <2>1 DEF StartWillLook, PendingAttachment, Looking
  <2>3. FeedLooksAtWhatIs' /\ StartKeepsWhatDiffers' /\ CountedNotes' /\ CountedAttachments'
    BY <1>1, <1>2, <2>1, <2>2, CountMoves
  <2>4. QED
    BY <2>1, <2>3 DEF BadgeInv
<1>5. who # "feed"
  BY <1>2 DEF BadgeInv, JobsInOrder, Looking
<1>6. QED
  BY <1>3, <1>4, <1>5 DEF Lookers

\* A step of the feed that looks: the start and the list are not concerned.
LEMMA FeedMoves ==
    ASSUME BadgeInv, NEW r, AJob(r), JobInOrder(r), jobs' = [jobs EXCEPT !["feed"] = r],
           r.step \in {"rest"} \cup Looking,
           UNCHANGED <<branches, fileSays, unreported, changes, conflictIds, rows>>
    PROVE  /\ jobs'["feed"] = r /\ jobs'["start"] = jobs["start"]
           /\ BadgeTypes' /\ JobsInOrder' /\ LastReportStands'
           /\ \A d : FeedDone(d)' <=> FeedDone(d)
           /\ \A d : /\ Differs(d)' <=> Differs(d)
                     /\ StandsInConflict(d)' <=> StandsInConflict(d)
                     /\ StartWillLook(d)' <=> StartWillLook(d)
                     /\ PendingAttachment(d)' <=> PendingAttachment(d)
<1>1. /\ jobs' = [w \in Lookers |-> jobs'[w]] /\ \A w \in Lookers : AJob(jobs'[w])
      /\ jobs'["feed"] = r /\ jobs'["start"] = jobs["start"]
      /\ JobsInOrder'
  <2>1. "feed" \in Lookers /\ "start" \in Lookers
    BY DEF Lookers
  <2>2. QED
    BY <2>1, OneJob DEF BadgeInv
<1>2. BadgeTypes'
  BY <1>1 DEF BadgeInv, BadgeTypes
<1>3. LastReportStands'
  BY DEF BadgeInv, LastReportStands
<1>4. \A d : /\ Differs(d)' <=> Differs(d)
             /\ StandsInConflict(d)' <=> StandsInConflict(d)
             /\ StartWillLook(d)' <=> StartWillLook(d)
             /\ PendingAttachment(d)' <=> PendingAttachment(d)
  BY <1>1 DEF Differs, StandsInConflict, StartWillLook, PendingAttachment
<1>5. QED
  BY <1>1, <1>2, <1>3, <1>4 DEF FeedDone

LEMMA FeedLooks == ASSUME BadgeInv, NEW seen, Look("feed", seen) PROVE BadgeInv'
<1> DEFINE differs == \E l \in seen.branches : l.text # fileSays[seen.doc]
<1>0. PICK r : r = [todo |-> jobs["feed"].todo, hand |-> jobs["feed"].hand,
                    step |-> IF differs THEN "keep" ELSE "collapse"]
  OBVIOUS
<1>1. /\ jobs' = [jobs EXCEPT !["feed"] = r] /\ AJob(r) /\ JobInOrder(r)
      /\ r.hand = jobs["feed"].hand /\ jobs["feed"].hand = {seen}
      /\ r.step = IF differs THEN "keep" ELSE "collapse"
  BY <1>0, LookedJob DEF Lookers
<1>2. UNCHANGED <<branches, fileSays, conflictIds, unreported, changes, rows, overtaken>>
  BY DEF Look
<1>3. /\ jobs'["feed"] = r /\ jobs'["start"] = jobs["start"]
      /\ BadgeTypes' /\ JobsInOrder' /\ LastReportStands'
      /\ \A d : FeedDone(d)' <=> FeedDone(d)
      /\ \A d : /\ Differs(d)' <=> Differs(d)
                /\ StandsInConflict(d)' <=> StandsInConflict(d)
                /\ StartWillLook(d)' <=> StartWillLook(d)
                /\ PendingAttachment(d)' <=> PendingAttachment(d)
  BY <1>1, <1>2, FeedMoves DEF Looking
<1>4. \A d : InHand("feed", d)' <=> InHand("feed", d)
  BY <1>1, <1>3 DEF InHand
<1>5. FeedLooksAtWhatIs'
  <2> SUFFICES ASSUME FeedDone(seen.doc)
               PROVE  /\ seen.branches = branches[seen.doc]
                      /\ r.step = "keep" => Differs(seen.doc)
                      /\ r.step = "collapse" => ~Differs(seen.doc)
    BY <1>1, <1>2, <1>3 DEF FeedLooksAtWhatIs
  <2>1. seen.branches = branches[seen.doc]
    BY <1>1 DEF BadgeInv, FeedLooksAtWhatIs
  <2>2. differs <=> Differs(seen.doc)
    BY <2>1 DEF Differs
  <2>3. QED
    BY <1>1, <2>1, <2>2
<1>6. StartKeepsWhatDiffers'
  BY <1>2, <1>3, <1>4 DEF BadgeInv, StartKeepsWhatDiffers
<1>7. CountedNotes'
  BY <1>2, <1>3, <1>4 DEF BadgeInv, CountedNotes
<1>8. CountedAttachments'
  BY <1>2, <1>3 DEF BadgeInv, CountedAttachments
<1>9. QED
  BY <1>3, <1>5, <1>6, <1>7, <1>8 DEF BadgeInv

LEMMA LookStep == ASSUME BadgeInv, NEW who \in Lookers, NEW seen, Look(who, seen) PROVE BadgeInv'
<1> DEFINE differs == \E l \in seen.branches : l.text # fileSays[seen.doc]
<1>0. PICK r : r = [todo |-> jobs[who].todo, hand |-> jobs[who].hand,
                    step |-> IF differs THEN "keep" ELSE "collapse"]
  OBVIOUS
<1>1. /\ jobs' = [jobs EXCEPT ![who] = r] /\ AJob(r) /\ JobInOrder(r)
      /\ r.todo = jobs[who].todo /\ r.hand = jobs[who].hand /\ jobs[who].hand = {seen}
      /\ r.step = IF differs THEN "keep" ELSE "collapse"
  BY <1>0, LookedJob
<1>2. /\ jobs[who].step = "look" /\ rows \in SUBSET Docs /\ conflictIds \in SUBSET Docs
      /\ UNCHANGED <<branches, fileSays, conflictIds, unreported, changes, rows, overtaken>>
      /\ JobInOrder(jobs[who])
  BY DEF Look, BadgeInv, BadgeTypes, JobsInOrder
<1>3. CASE who = "list"
  BY <1>1, <1>2, <1>3, ListMoves
<1>4. CASE who = "start"
  <2>1. /\ jobs'["start"] = r /\ jobs'["feed"] = jobs["feed"]
        /\ BadgeTypes' /\ JobsInOrder' /\ LastReportStands'
        /\ \A d : FeedDone(d)' <=> FeedDone(d)
    BY <1>1, <1>2, <1>4, StartMoves DEF Looking
  <2>2. \A d : (StartWillLook(d)' <=> StartWillLook(d)) /\ (PendingAttachment(d)' <=> PendingAttachment(d))
    BY <1>1, <1>2, <1>4, <2>1 DEF StartWillLook, PendingAttachment, Looking
  <2>3. r.step = "keep" => \A s \in r.hand : /\ s.doc \in Docs
                                             /\ s.branches = branches[s.doc] => Differs(s.doc)
    BY <1>1, <1>2 DEF Differs, JobInOrder, Looking, Docs
  <2>4. FeedLooksAtWhatIs' /\ StartKeepsWhatDiffers' /\ CountedNotes' /\ CountedAttachments'
    BY <1>1, <1>2, <2>1, <2>2, <2>3, CountMoves
  <2>5. QED
    BY <2>1, <2>4 DEF BadgeInv
<1>5. CASE who = "feed"
  BY <1>5, FeedLooks
<1>6. QED
  BY <1>3, <1>4, <1>5 DEF Lookers

\* What a looker has in hand is a note in conflict, as it was read.
LEMMA HandOf ==
    ASSUME BadgeInv, NEW who \in Lookers, NEW seen, seen \in jobs[who].hand
    PROVE  /\ jobs[who].step \in Looking /\ jobs[who].hand = {seen}
           /\ seen.doc \in Pages /\ seen.doc \in Docs /\ _conflicts(seen.branches) # {}
           /\ rows \in SUBSET Docs /\ conflictIds \in SUBSET Docs
<1>1. JobInOrder(jobs[who])
  BY DEF BadgeInv, JobsInOrder
<1>2. jobs[who].step \in Looking /\ jobs[who].hand = {seen}
  BY <1>1 DEF JobInOrder
<1>3. seen.doc \in Pages /\ _conflicts(seen.branches) # {}
  BY <1>1, <1>2 DEF JobInOrder, Looking
<1>4. QED
  BY <1>2, <1>3 DEF Docs, BadgeInv, BadgeTypes

LEMMA StaleOnes ==
    ASSUME NEW seen, NEW P \in BOOLEAN, Judged({s \in {seen} : P /\ Stale(s)})
    PROVE  /\ overtaken \subseteq overtaken'
           /\ ~P => overtaken' = overtaken
           /\ P /\ FeedDone(seen.doc) /\ seen.doc \notin overtaken' => seen.branches = branches[seen.doc]
           /\ overtaken' \subseteq overtaken \cup {seen.doc}
  BY DEF Judged, Stale, FeedDone

LEMMA KeepNoteStep ==
    ASSUME BadgeInv, NEW who \in Lookers, NEW seen, KeepNote(who, seen) PROVE BadgeInv'
<1>0. PICK r : r = [todo |-> jobs[who].todo, hand |-> {}, step |-> IF who = "feed" THEN "rest" ELSE "notes"]
  OBVIOUS
<1>1. /\ jobs[who].step = "keep" /\ seen \in jobs[who].hand /\ LookedAt(who)
      /\ UNCHANGED <<branches, fileSays, unreported, changes>>
      /\ conflictIds' = IF who = "start" THEN conflictIds \cup {seen.doc} ELSE conflictIds
      /\ rows' = IF who = "list" THEN rows \cup {seen.doc} ELSE rows
      /\ Judged({s \in {seen} : who = "start" /\ Stale(s)})
  BY DEF KeepNote
<1>2. /\ jobs[who].step \in Looking /\ jobs[who].hand = {seen}
      /\ seen.doc \in Pages /\ seen.doc \in Docs /\ _conflicts(seen.branches) # {}
      /\ rows \in SUBSET Docs /\ conflictIds \in SUBSET Docs
  BY <1>1, HandOf
<1>3. /\ jobs' = [jobs EXCEPT ![who] = r] /\ AJob(r) /\ JobInOrder(r)
      /\ r.todo = jobs[who].todo /\ r.hand = {} /\ r.step = IF who = "feed" THEN "rest" ELSE "notes"
  BY <1>0, <1>1, <1>2, LookedAtJob
<1>4. /\ overtaken \subseteq overtaken'
      /\ who # "start" => overtaken' = overtaken
      /\ who = "start" /\ FeedDone(seen.doc) /\ seen.doc \notin overtaken' => seen.branches = branches[seen.doc]
  BY <1>1, StaleOnes
<1>5. CASE who = "list"
  BY <1>1, <1>2, <1>3, <1>4, <1>5, ListMoves
<1>6. CASE who = "start"
  <2>0. conflictIds' = conflictIds \cup {seen.doc} /\ rows' = rows
    BY <1>1, <1>6
  <2>1. /\ jobs'["start"] = r /\ jobs'["feed"] = jobs["feed"]
        /\ BadgeTypes' /\ JobsInOrder' /\ LastReportStands'
        /\ \A d : FeedDone(d)' <=> FeedDone(d)
    BY <1>1, <1>2, <1>3, <1>6, <2>0, StartMoves
  <2>2. \A d : StartWillLook(d) => d = seen.doc \/ StartWillLook(d)'
    BY <1>1, <1>2, <1>3, <1>6, <2>1 DEF StartWillLook
  <2>3. \A d : PendingAttachment(d)'
    BY <1>3, <1>6, <2>1 DEF PendingAttachment
  <2>4. FeedDone(seen.doc) /\ seen.doc \notin overtaken' =>
            StandsInConflict(seen.doc) /\ (~InHand("feed", seen.doc) => Differs(seen.doc))
    BY <1>1, <1>2, <1>4, <1>6 DEF BadgeInv, StartKeepsWhatDiffers, StandsInConflict
  <2>5. FeedLooksAtWhatIs' /\ StartKeepsWhatDiffers' /\ CountedNotes' /\ CountedAttachments'
    BY <1>1, <1>3, <1>4, <1>6, <2>0, <2>1, <2>2, <2>3, <2>4, CountMoves
  <2>6. QED
    BY <2>1, <2>5 DEF BadgeInv
<1>7. CASE who = "feed"
  <2>0. conflictIds' = conflictIds /\ rows' = rows /\ overtaken' = overtaken
    BY <1>1, <1>4, <1>7
  <2>1. /\ jobs'["feed"] = r /\ jobs'["start"] = jobs["start"]
        /\ BadgeTypes' /\ JobsInOrder' /\ LastReportStands'
        /\ \A d : FeedDone(d)' <=> FeedDone(d)
        /\ \A d : /\ Differs(d)' <=> Differs(d)
                  /\ StandsInConflict(d)' <=> StandsInConflict(d)
                  /\ StartWillLook(d)' <=> StartWillLook(d)
                  /\ PendingAttachment(d)' <=> PendingAttachment(d)
    BY <1>1, <1>3, <1>7, <2>0, FeedMoves
  <2>2. /\ \A d : ~InHand("feed", d)'
        /\ \A d : InHand("feed", d) <=> d = seen.doc
    BY <1>2, <1>3, <1>7, <2>1 DEF InHand
  <2>3. FeedDone(seen.doc) => StandsInConflict(seen.doc) /\ Differs(seen.doc)
    BY <1>1, <1>2, <1>7 DEF BadgeInv, FeedLooksAtWhatIs, StandsInConflict
  <2>4. FeedLooksAtWhatIs'
    BY <1>3, <2>1 DEF FeedLooksAtWhatIs
  <2>5. StartKeepsWhatDiffers'
    BY <1>1, <2>1, <2>2, <2>3 DEF BadgeInv, StartKeepsWhatDiffers
  <2>6. CountedNotes'
    BY <2>0, <2>1, <2>2, <2>3 DEF BadgeInv, CountedNotes
  <2>7. CountedAttachments'
    BY <2>0, <2>1 DEF BadgeInv, CountedAttachments
  <2>8. QED
    BY <2>1, <2>4, <2>5, <2>6, <2>7 DEF BadgeInv
<1>8. QED
  BY <1>5, <1>6, <1>7 DEF Lookers

\* What collapsing does to the replica: the feed hears of it, or what was read is no more.
LEMMA CollapseWrites ==
    ASSUME BadgeInv, NEW who \in Lookers, NEW seen, Collapse(who, seen)
    PROVE  /\ branches' = [e \in Docs |-> branches'[e]] /\ LastReportStands'
           /\ \A e \in Docs : FeedDone(e)' => FeedDone(e) /\ branches'[e] = branches[e]
           /\ \A e \in Docs \ {seen.doc} : FeedDone(e) => FeedDone(e)'
           /\ FeedDone(seen.doc)' => seen.branches # branches[seen.doc]
           /\ \A e \in Docs \ overtaken' : FeedDone(e)' => e # seen.doc /\ e \notin overtaken
           /\ \A e \in Docs \ {seen.doc} : e \in overtaken' <=> e \in overtaken
<1> DEFINE removed == _conflicts(seen.branches) \cap branches[seen.doc]
<1>1. /\ seen \in jobs[who].hand /\ UNCHANGED changes
      /\ IF removed = {} THEN UNCHANGED <<branches, unreported>>
                         ELSE Write(seen.doc, branches[seen.doc] \ removed)
      /\ Judged({s \in {seen} : removed = {} /\ Stale(s)})
  BY DEF Collapse
<1>2. seen.doc \in Docs /\ _conflicts(seen.branches) # {}
  BY <1>1, HandOf
<1>3. removed = {} => seen.branches # branches[seen.doc]
  BY <1>2 DEF _conflicts
<1> HIDE DEF removed
<1>4. /\ overtaken \subseteq overtaken'
      /\ removed = {} /\ FeedDone(seen.doc) /\ seen.doc \notin overtaken' => seen.branches = branches[seen.doc]
      /\ overtaken' \subseteq overtaken \cup {seen.doc}
  BY <1>1, StaleOnes
<1>5. CASE removed = {}
  <2>1. UNCHANGED <<branches, unreported>>
    BY <1>1, <1>5
  <2>2. /\ branches = [e \in Docs |-> branches[e]] /\ LastReportStands'
        /\ \A e : FeedDone(e)' <=> FeedDone(e)
    BY <1>1, <2>1 DEF BadgeInv, BadgeTypes, LastReportStands, FeedDone
  <2>3. QED
    BY <1>2, <1>3, <1>4, <1>5, <2>1, <2>2
<1>6. CASE removed # {}
  <2>1. Write(seen.doc, branches[seen.doc] \ removed)
    BY <1>1, <1>6
  <2>2. /\ branches' = [e \in Docs |-> branches'[e]]
        /\ seen.doc \in unreported' /\ ~FeedDone(seen.doc)'
        /\ \A e \in Docs \ {seen.doc} : branches'[e] = branches[e] /\ (FeedDone(e)' <=> FeedDone(e))
        /\ LastReportStands'
    BY <1>1, <1>2, <2>1, Writes DEF BadgeInv
  <2>3. QED
    BY <1>2, <1>4, <2>2
<1>7. QED
  BY <1>5, <1>6

LEMMA CollapseStep ==
    ASSUME BadgeInv, NEW who \in Lookers, NEW seen, Collapse(who, seen) PROVE BadgeInv'
<1>0. PICK r : r = [todo |-> jobs[who].todo, hand |-> {}, step |-> IF who = "feed" THEN "rest" ELSE "notes"]
  OBVIOUS
<1>1. /\ jobs[who].step = "collapse" /\ seen \in jobs[who].hand /\ LookedAt(who)
      /\ UNCHANGED <<fileSays, changes, rows>>
      /\ conflictIds' = conflictIds \ {seen.doc}
  BY DEF Collapse
<1>2. /\ jobs[who].step \in Looking /\ jobs[who].hand = {seen}
      /\ seen.doc \in Pages /\ seen.doc \in Docs /\ _conflicts(seen.branches) # {}
      /\ rows \in SUBSET Docs /\ conflictIds \in SUBSET Docs
  BY <1>1, HandOf
<1>3. /\ jobs' = [jobs EXCEPT ![who] = r] /\ AJob(r) /\ JobInOrder(r)
      /\ r.todo = jobs[who].todo /\ r.hand = {} /\ r.step = IF who = "feed" THEN "rest" ELSE "notes"
  BY <1>0, <1>1, <1>2, LookedAtJob
<1>4. /\ branches' = [e \in Docs |-> branches'[e]] /\ LastReportStands'
      /\ \A e \in Docs : FeedDone(e)' => FeedDone(e) /\ branches'[e] = branches[e]
      /\ \A e \in Docs \ {seen.doc} : FeedDone(e) => FeedDone(e)'
      /\ FeedDone(seen.doc)' => seen.branches # branches[seen.doc]
      /\ \A e \in Docs \ overtaken' : FeedDone(e)' => e # seen.doc /\ e \notin overtaken
  BY CollapseWrites
<1>5. /\ jobs'[who] = r /\ \A w \in Lookers \ {who} : jobs'[w] = jobs[w]
      /\ jobs' = [w \in Lookers |-> jobs'[w]] /\ \A w \in Lookers : AJob(jobs'[w])
      /\ JobsInOrder'
  BY <1>3, OneJob DEF BadgeInv
<1>6. BadgeTypes'
  BY <1>1, <1>2, <1>4, <1>5 DEF BadgeInv, BadgeTypes
<1>7. /\ "feed" \in Lookers /\ "start" \in Lookers /\ Pages \subseteq Docs /\ Attachments \subseteq Docs
  BY DEF Lookers, Docs
<1>8. CASE who = "list"
  <2>1. jobs'["feed"] = jobs["feed"] /\ jobs'["start"] = jobs["start"]
    BY <1>5, <1>7, <1>8
  <2>2. FeedLooksAtWhatIs' /\ StartKeepsWhatDiffers' /\ CountedNotes' /\ CountedAttachments'
    BY <1>1, <1>4, <2>1, CountStays
  <2>3. QED
    BY <1>4, <1>5, <1>6, <2>2 DEF BadgeInv
<1>9. CASE who = "start"
  <2>1. jobs'["feed"] = jobs["feed"] /\ jobs'["start"] = r
    BY <1>5, <1>7, <1>9
  <2>2. \A e \in Docs \ {seen.doc} : FeedDone(e)' /\ StartWillLook(e) => StartWillLook(e)'
    BY <1>1, <1>2, <1>3, <1>4, <1>9, <2>1 DEF StartWillLook
  <2>3. \A e : PendingAttachment(e)'
    BY <1>3, <1>9, <2>1 DEF PendingAttachment
  <2>4. FeedLooksAtWhatIs' /\ StartKeepsWhatDiffers' /\ CountedNotes' /\ CountedAttachments'
    BY <1>1, <1>3, <1>4, <1>9, <2>1, <2>2, <2>3, CountMoves
  <2>5. QED
    BY <1>4, <1>5, <1>6, <2>4 DEF BadgeInv
<1>10. CASE who = "feed"
  <2>1. jobs'["feed"] = r /\ jobs'["start"] = jobs["start"]
    BY <1>5, <1>7, <1>10
  <2>2. /\ \A d : ~InHand("feed", d)'
        /\ \A d : InHand("feed", d) <=> d = seen.doc
    BY <1>2, <1>3, <1>10, <2>1 DEF InHand
  <2>3. ~FeedDone(seen.doc)'
    BY <1>2, <1>4, <1>10 DEF BadgeInv, FeedLooksAtWhatIs
  <2>4. \A e \in Docs : FeedDone(e)' => /\ Differs(e)' <=> Differs(e)
                                        /\ StandsInConflict(e)' <=> StandsInConflict(e)
                                        /\ StartWillLook(e)' <=> StartWillLook(e)
                                        /\ PendingAttachment(e)' <=> PendingAttachment(e)
    BY <1>1, <1>4, <2>1 DEF Differs, StandsInConflict, StartWillLook, PendingAttachment
  <2>5. FeedLooksAtWhatIs'
    BY <1>3, <2>1 DEF FeedLooksAtWhatIs
  <2>6. StartKeepsWhatDiffers'
    <3> SUFFICES ASSUME jobs["start"].step = "keep", NEW s \in jobs["start"].hand,
                        s.branches = branches'[s.doc], FeedDone(s.doc)'
                 PROVE  Differs(s.doc)'
      BY <2>1 DEF StartKeepsWhatDiffers
    <3>1. s.doc \in Docs /\ s.doc # seen.doc
      BY <1>7, <2>3, HandOf
    <3>2. QED
      BY <1>4, <2>2, <2>4, <3>1 DEF BadgeInv, StartKeepsWhatDiffers
  <2>7. CountedNotes'
    BY <1>1, <1>4, <1>7, <2>2, <2>3, <2>4 DEF BadgeInv, CountedNotes
  <2>8. CountedAttachments'
    BY <1>1, <1>4, <1>7, <2>3, <2>4 DEF BadgeInv, CountedAttachments
  <2>9. QED
    BY <1>4, <1>5, <1>6, <2>5, <2>6, <2>7, <2>8 DEF BadgeInv
<1>11. QED
  BY <1>8, <1>9, <1>10 DEF Lookers

LEMMA ListAttachmentsStep ==
    ASSUME BadgeInv, NEW who \in Lookers, ListAttachments(who) PROVE BadgeInv'
<1>0. PICK todo : todo = IF who = "start" \/ syncAssets THEN WithConflicts(Attachments) ELSE {}
  OBVIOUS
<1>a. PICK r : r = [todo |-> todo, hand |-> jobs[who].hand, step |-> "attachments"]
  OBVIOUS
<1>1. /\ jobs[who].step = "notes" /\ jobs[who].todo = {} /\ who # "feed"
      /\ jobs' = [jobs EXCEPT ![who].todo = todo, ![who].step = "attachments"]
      /\ UNCHANGED <<branches, fileSays, conflictIds, unreported, changes, rows, overtaken>>
  BY <1>0 DEF ListAttachments
<1>2. /\ JobInOrder(jobs[who]) /\ AJob(jobs[who]) /\ jobs = [w \in Lookers |-> jobs[w]]
      /\ rows \in SUBSET Docs /\ conflictIds \in SUBSET Docs
  BY DEF BadgeInv, BadgeTypes, JobsInOrder
<1>3. jobs[who].hand = {}
  BY <1>1, <1>2 DEF JobInOrder, Looking
<1>4. [[jobs[who] EXCEPT !.todo = todo] EXCEPT !.step = "attachments"] = r
  <2>1. [jobs[who] EXCEPT !.todo = todo] = [todo |-> todo, hand |-> jobs[who].hand, step |-> jobs[who].step]
    BY <1>2, JobParts
  <2>2. PICK j : j = [todo |-> todo, hand |-> jobs[who].hand, step |-> jobs[who].step]
    OBVIOUS
  <2>3. AJob(j) /\ j.todo = todo /\ j.hand = jobs[who].hand
    BY <2>2 DEF AJob
  <2>4. [j EXCEPT !.step = "attachments"] = [todo |-> j.todo, hand |-> j.hand, step |-> "attachments"]
    BY <2>3, JobParts
  <2>5. QED
    BY <1>a, <2>1, <2>2, <2>3, <2>4
<1>5. jobs' = [jobs EXCEPT ![who] = r]
  BY <1>1, <1>2, <1>4
<1>6. AJob(r) /\ r.todo = todo /\ r.hand = {} /\ r.step = "attachments"
  BY <1>3, <1>a DEF AJob
<1>7. \A s \in todo : s.doc \in Attachments /\ s.branches = branches[s.doc] /\ _conflicts(s.branches) # {}
  BY <1>0, Listed
<1>8. JobInOrder(r)
  BY <1>6, <1>7 DEF JobInOrder, Looking
<1>9. CASE who = "list"
  BY <1>1, <1>2, <1>5, <1>6, <1>8, <1>9, ListMoves
<1>10. CASE who = "start"
  <2>1. /\ jobs'["start"] = r /\ jobs'["feed"] = jobs["feed"]
        /\ BadgeTypes' /\ JobsInOrder' /\ LastReportStands'
        /\ \A d : FeedDone(d)' <=> FeedDone(d)
    BY <1>1, <1>2, <1>5, <1>6, <1>8, <1>10, StartMoves
  <2>2. \A d : ~StartWillLook(d)
    BY <1>1, <1>3, <1>10 DEF StartWillLook
  <2>3. \A d \in Attachments : StandsInConflict(d) => PendingAttachment(d)'
    <3> SUFFICES ASSUME NEW d \in Attachments, StandsInConflict(d)
                 PROVE  \E s \in r.todo : s.doc = d /\ s.branches = branches[d]
      BY <1>1, <1>6, <2>1 DEF PendingAttachment
    <3>1. \E s \in WithConflicts(Attachments) : s.doc = d /\ s.branches = branches[d]
      BY ListedAll
    <3>2. QED
      BY <1>0, <1>6, <1>10, <3>1
  <2>4. FeedLooksAtWhatIs' /\ StartKeepsWhatDiffers' /\ CountedNotes' /\ CountedAttachments'
    BY <1>1, <1>6, <2>1, <2>2, <2>3, CountMoves
  <2>5. QED
    BY <2>1, <2>4 DEF BadgeInv
<1>11. QED
  BY <1>1, <1>9, <1>10 DEF Lookers

LEMMA KeepAttachmentsStep ==
    ASSUME BadgeInv, NEW who \in Lookers, KeepAttachments(who) PROVE BadgeInv'
<1>0. PICK todo, listed : todo = jobs[who].todo /\ listed = {s.doc : s \in todo}
  OBVIOUS
<1>1. /\ jobs[who].step = "attachments" /\ jobs' = [jobs EXCEPT ![who] = NoJob]
      /\ conflictIds' = IF who = "start" THEN conflictIds \cup listed ELSE conflictIds
      /\ rows' = IF who = "list" THEN rows \cup listed ELSE rows
      /\ overtaken' = overtaken \cup {s.doc : s \in {t \in todo : who = "start" /\ Stale(t)}}
      /\ UNCHANGED <<branches, fileSays, unreported, changes>>
  BY <1>0 DEF KeepAttachments, Judged
<1>2. /\ JobInOrder(jobs[who]) /\ rows \in SUBSET Docs /\ conflictIds \in SUBSET Docs
      /\ Attachments \subseteq Docs
  BY DEF BadgeInv, BadgeTypes, JobsInOrder, Docs
<1>3. \A s \in todo : s.doc \in Attachments /\ _conflicts(s.branches) # {}
  BY <1>0, <1>1, <1>2 DEF JobInOrder
<1>4. listed \subseteq Attachments
  BY <1>0, <1>3
<1>5. AJob(NoJob) /\ NoJob.hand = {} /\ NoJob.todo = {} /\ NoJob.step = "rest" /\ JobInOrder(NoJob)
  BY DEF NoJob, AJob, JobInOrder, Looking
<1>6. CASE who = "list"
  BY <1>1, <1>2, <1>4, <1>5, <1>6, ListMoves
<1>7. CASE who = "start"
  <2>1. conflictIds' = conflictIds \cup listed /\ rows' = rows /\ conflictIds' \in SUBSET Docs
    BY <1>1, <1>2, <1>4, <1>7
  <2>2. /\ jobs'["start"] = NoJob /\ jobs'["feed"] = jobs["feed"]
        /\ BadgeTypes' /\ JobsInOrder' /\ LastReportStands'
        /\ \A d : FeedDone(d)' <=> FeedDone(d)
    BY <1>1, <1>5, <1>7, <2>1, StartMoves
  <2>3. /\ overtaken \subseteq overtaken'
        /\ \A d \in listed : FeedDone(d) /\ d \notin overtaken' => StandsInConflict(d)
    <3> SUFFICES ASSUME NEW s \in todo, FeedDone(s.doc), s.doc \notin overtaken' PROVE StandsInConflict(s.doc)
      BY <1>0, <1>1
    <3>1. ~Stale(s)
      BY <1>1, <1>7
    <3>2. s.branches = branches[s.doc]
      BY <3>1 DEF Stale, FeedDone
    <3>3. QED
      BY <1>3, <3>2 DEF StandsInConflict
  <2>4. \A d : ~StartWillLook(d)
    BY <1>1, <1>7 DEF StartWillLook, Looking
  <2>5. \A d : PendingAttachment(d) => d \in listed
    BY <1>0, <1>1, <1>7 DEF PendingAttachment, Looking
  <2>6. \A d \in listed : d \notin Pages
    BY <1>4, ConflictsAssumption
  <2>7. FeedLooksAtWhatIs' /\ StartKeepsWhatDiffers' /\ CountedNotes' /\ CountedAttachments'
    BY <1>1, <1>5, <2>1, <2>2, <2>3, <2>4, <2>5, <2>6, CountMoves
  <2>8. QED
    BY <2>2, <2>7 DEF BadgeInv
<1>8. who # "feed"
  BY <1>1 DEF BadgeInv, JobsInOrder, Looking
<1>9. QED
  BY <1>6, <1>7, <1>8 DEF Lookers

----------------------------------------------------------------------------
(* The badge.                                                               *)

LEMMA BadgeInvStep == BadgeInv /\ [ConflictsNext]_conflictVars => BadgeInv'
<1> SUFFICES ASSUME BadgeInv, [ConflictsNext]_conflictVars PROVE BadgeInv'
  OBVIOUS
<1>1. ASSUME NEW d \in Docs, Report(d) PROVE BadgeInv'
  BY <1>1, ReportStep
<1>2. ASSUME NEW which \in SUBSET rows, Choose(which) PROVE BadgeInv'
  <2>1. which \in SUBSET Docs
    BY DEF BadgeInv, BadgeTypes
  <2>2. QED
    BY <1>2, <2>1, ChooseStep
<1>3. ASSUME NEW d \in Docs, NEW text \in Contents, SaveFile(d, text) PROVE BadgeInv'
  BY <1>3, SaveFileStep
<1>4. ASSUME NEW d \in Docs, NEW text \in Contents, NEW below, LeafArrives(d, text, below) PROVE BadgeInv'
  BY <1>4, LeafArrivesStep
<1>5. ASSUME ApplyChange PROVE BadgeInv'
  BY <1>5, ApplyChangeStep
<1>6. ASSUME StartClears PROVE BadgeInv'
  BY <1>6, StartClearsStep
<1>7. ASSUME OpenList \/ ListAgain PROVE BadgeInv'
  BY <1>7, ListAnewStep DEF OpenList, ListAgain
<1>8. ASSUME NEW seen, Resolve(seen) PROVE BadgeInv'
  BY <1>8, ResolveStep
<1>9. ASSUME NEW who \in Lookers, ListAttachments(who) \/ KeepAttachments(who) PROVE BadgeInv'
  BY <1>9, ListAttachmentsStep, KeepAttachmentsStep
<1>10. ASSUME NEW who \in Lookers, NEW seen, Take(who, seen) PROVE BadgeInv'
  BY <1>10, TakeStep
<1>11. ASSUME NEW who \in Lookers, NEW seen, Look(who, seen) \/ KeepNote(who, seen) \/ Collapse(who, seen)
       PROVE  BadgeInv'
  BY <1>11, LookStep, KeepNoteStep, CollapseStep
<1>12. CASE UNCHANGED conflictVars
  <2>1. UNCHANGED <<branches, fileSays, conflictIds, unreported, changes, jobs, rows, overtaken>>
    BY <1>12 DEF conflictVars
  <2>2. BadgeTypes' /\ JobsInOrder' /\ LastReportStands'
    BY <2>1 DEF BadgeInv, BadgeTypes, JobsInOrder, LastReportStands
  <2>3. \A d : FeedDone(d)' <=> FeedDone(d)
    BY <2>1 DEF FeedDone
  <2>4. FeedLooksAtWhatIs' /\ StartKeepsWhatDiffers' /\ CountedNotes' /\ CountedAttachments'
    BY <2>1, <2>3, CountStays
  <2>5. QED
    BY <2>2, <2>4 DEF BadgeInv
<1>13. \A d : {d} \cap rows \in SUBSET rows
  OBVIOUS
<1>14. CASE ConflictsNext
  BY <1>1, <1>2, <1>3, <1>4, <1>5, <1>6, <1>7, <1>8, <1>9, <1>10, <1>11, <1>13, <1>14 DEF ConflictsNext
<1>15. QED
  BY <1>12, <1>14

LEMMA BadgeInvTellsTheTruth == BadgeInv => BadgeIsTrue
<1> SUFFICES ASSUME BadgeInv, Quiet, overtaken = {} PROVE conflictCount = Cardinality(Unresolved)
  BY DEF BadgeIsTrue
<1>1. /\ unreported = {} /\ changes = <<>>
      /\ jobs["feed"].step = "rest" /\ jobs["start"].step = "rest"
  BY DEF Quiet, AtWork, Lookers
<1>2. \A d : FeedDone(d) /\ ~StartWillLook(d) /\ ~PendingAttachment(d)
  BY <1>1 DEF FeedDone, StartWillLook, PendingAttachment, Looking
<1>3. \A d : ~InHand("feed", d)
  <2>1. JobInOrder(jobs["feed"])
    BY DEF BadgeInv, JobsInOrder, Lookers
  <2>2. QED
    BY <1>1, <2>1 DEF JobInOrder, Looking, InHand
<1>4. /\ \A d \in Pages : d \in conflictIds <=> StandsInConflict(d) /\ Differs(d)
      /\ \A d \in Attachments : d \in conflictIds <=> StandsInConflict(d)
  BY <1>2, <1>3 DEF BadgeInv, CountedNotes, CountedAttachments
<1>5. conflictIds \subseteq Docs /\ \A d \in Docs : d \in Pages <=> d \notin Attachments
  BY ConflictsAssumption DEF BadgeInv, BadgeTypes, Docs
<1>6. {d \in conflictIds : d \in Pages \/ syncAssets} = Unresolved
  BY <1>4, <1>5 DEF Unresolved, StandsInConflict, Differs
<1>7. QED
  BY <1>6 DEF conflictCount

\* Once every change has been applied and nobody is looking, the badge counts exactly the
\* conflicts a person has to resolve (MirrorSync.ts:424-462, ConflictManager.ts:312-331),
\* for any notes, attachments and texts and however often anyone writes.
THEOREM TheBadgeIsTrue == ConflictsSpec => []BadgeIsTrue
<1>1. ConflictsInit => BadgeInv
  BY BadgeInvInit
<1>2. BadgeInv /\ [ConflictsNext]_conflictVars => BadgeInv'
  BY BadgeInvStep
<1>3. QED
  BY <1>1, <1>2, BadgeInvTellsTheTruth, PTL DEF ConflictsSpec
=============================================================================
