------------------------------ MODULE NoteLink ------------------------------
(***************************************************************************)
(* One Markdown note of one link, on one device: the vault file, the local *)
(* database replica and the three activities that race over them.          *)
(*                                                                         *)
(*   - LocalWatcher/Uploader: file events, debounce, upload, tombstone;    *)
(*   - LocalApplier/MirrorApplier: the changes feed applied to the vault;  *)
(*   - replication, which brings in the revisions of other devices.        *)
(*                                                                         *)
(* Every await of the source is a step boundary.  Left to other modules:   *)
(* real-time sessions, read-only shared spaces, attachments, the feed's    *)
(* checkpoint (Checkpoint), upload slots over many paths (UploadQueue).    *)
(* The path is valid, inside the link and not excluded.                    *)
(***************************************************************************)
EXTENDS Naturals, Sequences, FiniteSets

CONSTANTS
    Texts,          \* what a note may contain
    Missing,        \* no file, no mark, no copy
    Uploaders,      \* identities of concurrent uploadPath calls on this path
    DeletePolicy,   \* settings.deletePolicy of this vault
    VersionHistory, \* settings.versionHistory
    PutMayFail,     \* may the local database reject a read or a write?
    EventLag,       \* may the applier read a save before the watcher hears of it?
    MaxAttempts,    \* 3 in Uploader
    MaxSaves, MaxRemoves, MaxActs, MaxPulls, MaxLeaves  \* exploration bounds

ASSUME NoteLinkAssumption ==
    /\ Missing \notin Texts /\ IsFiniteSet(Uploaders)
    /\ DeletePolicy \in {"archive", "propagate-delete", "ignore-delete"}
    /\ {VersionHistory, PutMayFail, EventLag} \subseteq BOOLEAN
    /\ MaxAttempts \in Nat \ {0}
    /\ {MaxSaves, MaxRemoves, MaxActs, MaxPulls, MaxLeaves} \subseteq Nat

VARIABLES
    vault,      \* content of the file, Missing when there is none
    newer,      \* file mtime > mtime of the current tombstone
    events,     \* vault events not yet delivered to the watcher: a write, a removal by
                \* the user, a removal by the applier (the code cannot tell the last two)
    mark,       \* RemoteApplyGuard.marks for this path
    armed,      \* its release timer runs
    suppressed, \* MirrorContext.suppressed for this path
    checking,   \* texts whose echo check (hash) is in progress
    timer,      \* the debounce timer of this path runs
    pend,       \* MirrorContext.pending for this path
    up,         \* in-flight uploadNote calls
    del,        \* in-flight tombstonePath call
    doc,        \* winning revision in the local database
    leaves,     \* its conflicting leaf revisions
    nextId,     \* fresh revision ids
    unseen,     \* a database change the feed has not delivered yet
    feed,       \* LocalApplier.queue: captured changes awaiting application
    job,        \* the change being applied
    versions,   \* contents in the version history
    copy,       \* remote copy under the conflict folder (and its history flag)
    backup,     \* "my edit" copy under the conflict folder
    trash,      \* contents moved to the archive or to .trash
    held,       \* the path is in the delete/modify queue
    saves, removes, pulls,  \* bounds
    typed,      \* history: the text the user saved, while the file shows it
    swallowed,  \* history: an act of the user was taken for an echo, or its upload failed
    noticed,    \* history: the text the watcher took on last
    owed,       \* history: noticed, when the current change was started, and left in place
    reached     \* history: texts that have been in the database

vaultVars == <<vault, newer, events>>
guardVars == <<mark, armed, suppressed>>
watchVars == <<checking, timer, pend>>
dbVars    == <<doc, leaves, nextId, unseen, reached>>
keepVars  == <<versions, copy, backup, trash, held>>
bounds    == <<saves, removes, pulls>>
history   == <<typed, swallowed, noticed, owed>>
vars == <<vaultVars, guardVars, watchVars, up, del, dbVars, feed, job,
          keepVars, bounds, history>>

-----------------------------------------------------------------------------
(* Revisions.  A tombstone is a live revision with deleted = TRUE that      *)
(* keeps the text it deletes; id 0 stands for "no document".                *)

Rev == [id : Nat, text : Texts \cup {Missing}, mine : BOOLEAN, deleted : BOOLEAN]
NoDoc == [id |-> 0, text |-> Missing, mine |-> FALSE, deleted |-> FALSE]
Exists(r) == r.id # 0
NewRev(text, mine, deleted) ==
    [id |-> nextId, text |-> text, mine |-> mine, deleted |-> deleted]

IdleJob == [pc |-> "idle", doc |-> NoDoc, conf |-> {}, local |-> Missing]
IdleUp  == [pc |-> "idle", text |-> Missing, seen |-> NoDoc, attempt |-> 0]
IdleDel == [pc |-> "idle", seen |-> NoDoc, conf |-> {}, attempt |-> 0]

TypeOK ==
    /\ vault \in Texts \cup {Missing}
    /\ newer \in BOOLEAN
    /\ events \in Seq({"modify", "removed", "archived"})
    /\ mark \in Texts \cup {Missing}
    /\ {armed, suppressed, timer, unseen, held, swallowed} \subseteq BOOLEAN
    /\ checking \subseteq Texts
    /\ pend \in Nat
    /\ up \in [Uploaders -> [pc : {"idle", "read", "get", "put", "record"},
                             text : Texts \cup {Missing}, seen : Rev,
                             attempt : 0..MaxAttempts]]
    /\ del \in [pc : {"idle", "get", "put", "leaves"}, seen : Rev,
                conf : SUBSET Rev, attempt : 0..MaxAttempts]
    /\ doc \in Rev /\ leaves \subseteq Rev /\ nextId \in Nat
    /\ feed \in Seq([doc : Rev, conf : SUBSET Rev])
    /\ job \in [pc : {"idle", "decide", "write", "delete", "writeWinner", "materialize"},
                doc : Rev, conf : SUBSET Rev, local : Texts \cup {Missing}]
    /\ versions \subseteq Texts
    /\ {copy, backup, typed, noticed, owed} \subseteq Texts \cup {Missing}
    /\ trash \subseteq Texts /\ reached \subseteq Texts
    /\ saves \in 0..MaxSaves /\ removes \in 0..MaxRemoves /\ pulls \in 0..MaxPulls

-----------------------------------------------------------------------------
(* Helpers shared by the handlers.                                          *)

\* VersionStore.snapshot
Keep(texts) == IF VersionHistory THEN versions \cup (texts \ {Missing}) ELSE versions

\* PouchService.putWithRev: succeeds only on top of a leaf, or of nothing.
IsLeaf(r) == r = doc \/ r \in leaves

\* The new revision replaces the leaf it was written on; when that leaf was
\* not the winner, the revision hashes decide whether it becomes the winner.
PutOn(seen, new) ==
    /\ nextId' = nextId + 1 /\ unseen' = TRUE /\ reached' = reached \cup {new.text}
    /\ \/ seen = doc /\ doc' = new /\ leaves' = leaves
       \/ seen # doc /\ doc' = new /\ leaves' = (leaves \ {seen}) \cup {doc}
       \/ seen # doc /\ doc' = doc /\ leaves' = (leaves \ {seen}) \cup {new}

\* Uploader.modifiedAfterTombstone
ModifiedAfterTombstone(text, tomb) == text # tomb.text \/ newer

\* LocalWatcher: markPending + scheduleUpload; the replaced timer gives its count back.
Schedule ==
    /\ pend' = IF timer THEN pend ELSE pend + 1
    /\ timer' = TRUE
    /\ noticed' = vault

\* Faulty Release: pending as a set instead of a count.
ReleaseAll == pend' = 0

\* MirrorContext.clearPending
Release == pend' = IF pend = 0 THEN 0 ELSE pend - 1

-----------------------------------------------------------------------------
(* The user and the editor.                                                 *)

Save(text) ==
    /\ saves < MaxSaves /\ saves + removes < MaxActs /\ text # vault
    /\ vault' = text /\ newer' = TRUE /\ events' = Append(events, "modify")
    /\ saves' = saves + 1 /\ typed' = text /\ noticed' = Missing /\ owed' = Missing
    /\ UNCHANGED <<swallowed, guardVars, watchVars, up, del, dbVars, feed, job, keepVars, removes, pulls>>

Remove ==
    /\ removes < MaxRemoves /\ saves + removes < MaxActs /\ vault # Missing
    /\ vault' = Missing /\ events' = Append(events, "removed")
    /\ removes' = removes + 1 /\ typed' = Missing /\ noticed' = Missing /\ owed' = Missing
    /\ UNCHANGED <<swallowed, newer, guardVars, watchVars, up, del, dbVars, feed, job, keepVars, saves, pulls>>

-----------------------------------------------------------------------------
(* LocalWatcher.                                                            *)

\* onChange + maybeSchedule up to the first await.
OnModify ==
    /\ events # <<>> /\ Head(events) = "modify"
    /\ events' = Tail(events)
    /\ \/ mark = Missing /\ Schedule /\ UNCHANGED checking
       \/ mark # Missing /\ checking' = checking \cup ({vault} \ {Missing})
          /\ UNCHANGED <<timer, pend, noticed>>
    /\ UNCHANGED <<vault, newer, guardVars, up, del, dbVars, feed, job, keepVars, bounds,
                   typed, swallowed, owed>>

\* Faulty EchoChecked: any event on a marked path counts as an echo.
EchoByPath(text) ==
    /\ text \in checking
    /\ checking' = checking \ {text}
    /\ \/ mark # Missing /\ swallowed' = (swallowed \/ typed = text)
                          /\ UNCHANGED <<timer, pend, noticed>>
       \/ mark = Missing /\ Schedule /\ UNCHANGED swallowed
    /\ UNCHANGED <<vaultVars, guardVars, up, del, dbVars, feed, job, keepVars, bounds,
                   typed, owed>>

\* maybeSchedule after the hash: an echo of the applier's own write is ignored.
EchoChecked(text) ==
    /\ text \in checking
    /\ checking' = checking \ {text}
    /\ \/ mark = text /\ swallowed' = (swallowed \/ typed = text)
                       /\ UNCHANGED <<timer, pend, noticed>>
       \/ mark # text /\ Schedule /\ UNCHANGED swallowed
    /\ UNCHANGED <<vaultVars, guardVars, up, del, dbVars, feed, job, keepVars, bounds,
                   typed, owed>>

\* onDelete/onRename of this path: the applier's own moves are suppressed.
OnStructural ==
    /\ events # <<>> /\ Head(events) # "modify"
    /\ events' = Tail(events)
    /\ \/ suppressed /\ swallowed' = (swallowed \/ Head(events) = "removed") /\ UNCHANGED del
       \/ /\ ~suppressed /\ del.pc = "idle" /\ UNCHANGED swallowed
          /\ del' = [IdleDel EXCEPT !.pc = "get", !.attempt = 1]
    /\ UNCHANGED <<vault, newer, guardVars, watchVars, up, dbVars, feed, job, keepVars,
                   bounds, typed, noticed, owed>>

\* The debounce timer fires: its pending count passes to flushUpload.
TimerFires(u) ==
    /\ timer /\ up[u].pc = "idle"
    /\ timer' = FALSE
    /\ up' = [up EXCEPT ![u] = [IdleUp EXCEPT !.pc = "read"]]
    /\ UNCHANGED <<vaultVars, guardVars, checking, pend, del, dbVars, feed, job, keepVars,
                   bounds, history>>

\* RemoteApplyGuard: the release delay outlasts the delivery of the echo event.
GuardReleases ==
    /\ armed
    /\ \A i \in 1..Len(events) : events[i] # "modify"
    /\ mark' = Missing /\ armed' = FALSE
    /\ UNCHANGED <<vaultVars, suppressed, watchVars, up, del, dbVars, feed, job, keepVars,
                   bounds, history>>

SuppressExpires ==
    /\ suppressed
    /\ \A i \in 1..Len(events) : events[i] # "archived"
    /\ suppressed' = FALSE
    /\ UNCHANGED <<vaultVars, mark, armed, watchVars, up, del, dbVars, feed, job, keepVars,
                   bounds, history>>

-----------------------------------------------------------------------------
(* Uploader.uploadNote, one action per stretch between awaits.              *)

UploadEnds(u) == up' = [up EXCEPT ![u] = IdleUp] /\ Release

UploadRead(u) ==
    /\ up[u].pc = "read"
    /\ \/ vault = Missing /\ UploadEnds(u)
       \/ /\ vault # Missing /\ UNCHANGED pend
          /\ up' = [up EXCEPT ![u] = [IdleUp EXCEPT !.pc = "get", !.text = vault, !.attempt = 1]]
    /\ UNCHANGED <<vaultVars, guardVars, checking, timer, del, dbVars, feed, job, keepVars,
                   bounds, history>>

NothingToUpload(text, existing) ==
    /\ Exists(existing)
    /\ IF existing.deleted THEN ~ModifiedAfterTombstone(text, existing)
                           ELSE text = existing.text

\* Faulty Intervening: the superseded text is not kept.
KeepsNothing(text, existing) == {}

\* preserveInterveningNote
Intervening(text, existing) ==
    IF Exists(existing) /\ ~existing.deleted /\ ~existing.mine /\ existing.text # text
    THEN {existing.text} ELSE {}

UploadGet(u) ==
    /\ up[u].pc = "get"
    /\ \/ NothingToUpload(up[u].text, doc) /\ UploadEnds(u) /\ UNCHANGED versions
       \/ /\ ~NothingToUpload(up[u].text, doc) /\ UNCHANGED pend
          /\ versions' = Keep(Intervening(up[u].text, doc))
          /\ up' = [up EXCEPT ![u].pc = "put", ![u].seen = doc]
    /\ UNCHANGED <<vaultVars, guardVars, checking, timer, del, dbVars, feed, job, copy,
                   backup, trash, held, bounds, history>>

UploadPut(u) ==
    /\ up[u].pc = "put" /\ IsLeaf(up[u].seen)
    /\ PutOn(up[u].seen, NewRev(up[u].text, TRUE, FALSE))
    /\ up' = [up EXCEPT ![u].pc = "record"]
    /\ UNCHANGED <<vaultVars, guardVars, watchVars, del, feed, job, keepVars, bounds, history>>

UploadConflict(u) ==
    /\ up[u].pc = "put" /\ ~IsLeaf(up[u].seen)
    /\ \/ /\ up[u].attempt < MaxAttempts
          /\ up' = [up EXCEPT ![u].pc = "get", ![u].attempt = @ + 1]
          /\ UNCHANGED <<pend, versions>>
       \/ /\ up[u].attempt = MaxAttempts   \* preserveUnuploaded
          /\ versions' = Keep({up[u].text}) /\ UploadEnds(u)
    /\ UNCHANGED <<vaultVars, guardVars, checking, timer, del, dbVars, feed, job, copy,
                   backup, trash, held, bounds, history>>

UploadRecord(u) ==
    /\ up[u].pc = "record"
    /\ versions' = Keep({up[u].text}) /\ UploadEnds(u)
    /\ UNCHANGED <<vaultVars, guardVars, checking, timer, del, dbVars, feed, job, copy,
                   backup, trash, held, bounds, history>>

\* Faulty UploadFails: clearPending is not in a finally.
FailsPending(u) ==
    /\ PutMayFail /\ up[u].pc \in {"get", "put"}
    /\ up' = [up EXCEPT ![u] = IdleUp] /\ swallowed' = (swallowed \/ typed = up[u].text)
    /\ UNCHANGED <<vaultVars, guardVars, watchVars, del, dbVars, feed, job, keepVars,
                   bounds, typed, noticed, owed>>

\* flushUpload catches the error and gives the count back all the same.
UploadFails(u) ==
    /\ PutMayFail /\ up[u].pc \in {"get", "put"}
    /\ UploadEnds(u) /\ swallowed' = (swallowed \/ typed = up[u].text)
    /\ UNCHANGED <<vaultVars, guardVars, checking, timer, del, dbVars, feed, job, keepVars,
                   bounds, typed, noticed, owed>>

-----------------------------------------------------------------------------
(* Uploader.tombstonePath.                                                  *)

TombGet ==
    /\ del.pc = "get"
    /\ \/ (~Exists(doc) \/ doc.deleted) /\ del' = IdleDel /\ UNCHANGED versions
       \/ /\ Exists(doc) /\ ~doc.deleted
          /\ versions' = Keep({doc.text})
          /\ del' = [del EXCEPT !.pc = "put", !.seen = doc, !.conf = leaves]
    /\ UNCHANGED <<vaultVars, guardVars, watchVars, up, dbVars, feed, job, copy, backup,
                   trash, held, bounds, history>>

\* A file that is there again may have been saved before or after the tombstone's mtime.
TombPut ==
    /\ del.pc = "put"
    /\ \/ /\ IsLeaf(del.seen)
          /\ PutOn(del.seen, NewRev(del.seen.text, TRUE, TRUE))
          /\ newer' \in (IF doc' = doc THEN {newer}
                         ELSE IF vault = Missing THEN {FALSE} ELSE BOOLEAN)
          /\ del' = [del EXCEPT !.pc = "leaves"]
       \/ /\ ~IsLeaf(del.seen)
          /\ del' = IF del.attempt < MaxAttempts
                    THEN [del EXCEPT !.pc = "get", !.attempt = @ + 1] ELSE IdleDel
          /\ UNCHANGED <<newer, dbVars>>
    /\ UNCHANGED <<vault, events, guardVars, watchVars, up, feed, job, keepVars, bounds, history>>

\* tombstoneConflictLeaves: every leaf seen with the winner is saved, then removed.
TombLeaves ==
    /\ del.pc = "leaves"
    /\ versions' = Keep({r.text : r \in del.conf})
    /\ leaves' = leaves \ del.conf
    /\ unseen' = (unseen \/ leaves \cap del.conf # {})
    /\ del' = IdleDel
    /\ UNCHANGED <<vaultVars, guardVars, watchVars, up, doc, nextId, reached, feed, job,
                   copy, backup, trash, held, bounds, history>>

-----------------------------------------------------------------------------
(* LocalApplier and MirrorApplier.                                          *)

\* The live changes feed hands over the winner of the moment; changes that
\* arrive before it does are coalesced.
FeedDelivers ==
    /\ unseen /\ unseen' = FALSE
    /\ feed' = Append(feed, [doc |-> doc, conf |-> leaves])
    /\ UNCHANGED <<vaultVars, guardVars, watchVars, up, del, doc, leaves, nextId, reached,
                   job, keepVars, bounds, history>>

\* The serial queue starts the next change; applyDoc reads the vault file.
ApplyStarts ==
    /\ job.pc = "idle" /\ feed # <<>>
    /\ EventLag \/ \A i \in 1..Len(events) : events[i] # "modify"
    /\ job' = [pc |-> "decide", doc |-> Head(feed).doc, conf |-> Head(feed).conf,
               local |-> vault]
    /\ feed' = Tail(feed)
    /\ owed' = noticed
    /\ UNCHANGED <<vaultVars, guardVars, watchVars, up, del, dbVars, keepVars, bounds,
                   typed, swallowed, noticed>>

JobEnds == job' = IdleJob
JobContinues(pc) == job' = [job EXCEPT !.pc = pc]
Deciding == job.pc = "decide"
Live == Deciding /\ ~job.doc.deleted
Same == job.local = job.doc.text /\ job.conf = {}
Pending == pend > 0

\* removeConflictCopy: the copy goes to the vault's .trash.
DropCopy == copy' = Missing /\ trash' = trash \cup ({copy} \ {Missing})

\* pickRemoteLeaf: the winner if it differs from the live file, else a leaf that does.
RemoteLeaf == IF job.doc.text # vault THEN {job.doc} ELSE {r \in job.conf : r.text # vault}

\* ConflictManager.materialize; identical leaves are collapsed instead.  The file is read and the
\* leaves removed in one step, between which the code awaits: what is removed has the text of the
\* winner read, and a leaf that comes meanwhile is not among the leaves removed.
Materialize ==
    \/ /\ RemoteLeaf # {}
       /\ \E r \in RemoteLeaf : copy' = r.text
       /\ UNCHANGED <<leaves, unseen, trash>>
    \/ /\ RemoteLeaf = {} /\ job.conf # {}
       /\ leaves' = leaves \ job.conf
       /\ unseen' = (unseen \/ leaves \cap job.conf # {})
       /\ DropCopy
    \/ RemoteLeaf = {} /\ job.conf = {} /\ UNCHANGED <<leaves, unseen, copy, trash>>

ApplySame ==
    /\ Live /\ Same /\ DropCopy /\ JobEnds
    /\ UNCHANGED <<vaultVars, guardVars, watchVars, up, del, dbVars, feed, versions, backup,
                   held, bounds, history>>

\* An edit awaits upload: the vault is left alone, another device's text is set aside.
ApplyHeldBack ==
    /\ Live /\ ~Same /\ Pending /\ JobEnds
    /\ IF job.doc.mine THEN UNCHANGED <<leaves, unseen, copy, trash>> ELSE Materialize
    /\ UNCHANGED <<vaultVars, guardVars, watchVars, up, del, doc, nextId, reached, feed,
                   versions, backup, held, bounds, history>>

\* Conflicting leaves: keep the local file; an absent file first gets the winner.
ApplyConflict ==
    /\ Live /\ ~Same /\ ~Pending /\ job.conf # {}
    /\ \/ job.local # Missing /\ JobContinues("materialize") /\ UNCHANGED mark
       \/ job.local = Missing /\ JobContinues("writeWinner") /\ mark' = job.doc.text
    /\ UNCHANGED <<vaultVars, armed, suppressed, watchVars, up, del, dbVars, feed, keepVars,
                   bounds, history>>

ApplyMaterialize ==
    /\ job.pc = "materialize" /\ Materialize /\ JobEnds
    /\ UNCHANGED <<vaultVars, guardVars, watchVars, up, del, doc, nextId, reached, feed,
                   versions, backup, held, bounds, history>>

\* A revision of this device: the vault holds something newer.
ApplySelf ==
    /\ Live /\ ~Same /\ ~Pending /\ job.conf = {} /\ job.doc.mine /\ JobEnds
    /\ UNCHANGED <<vaultVars, guardVars, watchVars, up, del, dbVars, feed, keepVars,
                   bounds, history>>

\* A clean remote update: back up a once-conflicting local text, drop the copy,
\* mark the guard; the write itself comes after another await.
ApplyPrepares ==
    /\ Live /\ ~Same /\ ~Pending /\ job.conf = {} /\ ~job.doc.mine
    /\ backup' = IF job.local # Missing /\ copy # Missing THEN job.local ELSE backup
    /\ DropCopy
    /\ mark' = job.doc.text
    /\ JobContinues("write")
    /\ UNCHANGED <<vaultVars, armed, suppressed, watchVars, up, del, dbVars, feed, versions,
                   held, bounds, history>>

\* writeVaultFileIf: the file is replaced only if it still is what was read.
ApplyWrites ==
    /\ job.pc \in {"write", "writeWinner"}
    /\ armed' = TRUE
    /\ \/ /\ vault = job.local
          /\ vault' = job.doc.text /\ newer' = TRUE /\ events' = Append(events, "modify")
          /\ typed' = Missing
          /\ IF job.pc = "write" THEN JobEnds ELSE JobContinues("materialize")
       \/ vault # job.local /\ JobEnds /\ UNCHANGED <<vaultVars, typed>>
    /\ UNCHANGED <<mark, suppressed, watchVars, up, del, dbVars, feed, keepVars, bounds,
                   swallowed, noticed, owed>>

\* applyDeletion up to the removal of the file.
DeletionSkipped ==
    /\ Deciding /\ job.doc.deleted /\ JobEnds
    /\ job.doc.mine \/ (~Pending /\ DeletePolicy = "ignore-delete")
    /\ UNCHANGED <<vaultVars, guardVars, watchVars, up, del, dbVars, feed, keepVars,
                   bounds, history>>

DeletionHeld ==
    /\ Deciding /\ job.doc.deleted /\ ~job.doc.mine /\ Pending /\ JobEnds
    /\ held' = TRUE
    /\ UNCHANGED <<vaultVars, guardVars, watchVars, up, del, dbVars, feed, versions, copy,
                   backup, trash, bounds, history>>

DeletionPrepares ==
    /\ Deciding /\ job.doc.deleted /\ ~job.doc.mine /\ ~Pending
    /\ DeletePolicy # "ignore-delete"
    /\ copy' = Missing /\ backup' = Missing     \* cleanupOnDelete
    /\ trash' = trash \cup ({copy, backup} \ {Missing})
    /\ JobContinues("delete")
    /\ UNCHANGED <<vaultVars, guardVars, watchVars, up, del, dbVars, feed, versions, held,
                   bounds, history>>

\* The file goes to the archive folder or to .trash.
ApplyDeletes ==
    /\ job.pc = "delete" /\ JobEnds
    /\ \/ vault = Missing /\ UNCHANGED <<vault, events, suppressed, trash, typed>>
       \/ /\ vault # Missing
          /\ vault' = Missing /\ trash' = trash \cup {vault} /\ typed' = Missing
          /\ suppressed' = TRUE /\ events' = Append(events, "archived")
    /\ UNCHANGED <<newer, mark, armed, watchVars, up, del, dbVars, feed, versions, copy,
                   backup, held, bounds, swallowed, noticed, owed>>

-----------------------------------------------------------------------------
(* Replication: revisions written by the other devices of the link.         *)

PulledRev(text, deleted) ==
    /\ pulls < MaxPulls /\ pulls' = pulls + 1
    /\ nextId' = nextId + 1 /\ unseen' = TRUE /\ reached' = reached \cup {text}
    /\ UNCHANGED <<vault, events, guardVars, watchVars, up, del, feed, job, keepVars,
                   saves, removes, history>>

\* Another device edited (or re-created) the revision that is the winner here.
PullEdit(text) ==
    /\ PulledRev(text, FALSE)
    /\ ~Exists(doc) \/ doc.deleted \/ text # doc.text
    /\ doc' = NewRev(text, FALSE, FALSE) /\ UNCHANGED <<leaves, newer>>

\* Another device deleted the note; its clock decides how the mtimes compare.
PullDelete ==
    /\ Exists(doc) /\ ~doc.deleted
    /\ PulledRev(doc.text, TRUE)
    /\ doc' = NewRev(doc.text, FALSE, TRUE) /\ newer' \in BOOLEAN /\ UNCHANGED leaves

\* Another device edited an older revision: a conflict, won by either side.
PullBranch(text) ==
    /\ doc.id > 1 /\ Cardinality(leaves) < MaxLeaves
    /\ PulledRev(text, FALSE)
    /\ \/ doc' = NewRev(text, FALSE, FALSE) /\ leaves' = leaves \cup {doc}
       \/ doc' = doc /\ leaves' = leaves \cup {NewRev(text, FALSE, FALSE)}
    /\ UNCHANGED newer

\* Another device resolved the conflict.
PullResolution(text) ==
    /\ leaves # {}
    /\ PulledRev(text, FALSE)
    /\ doc' = NewRev(text, FALSE, FALSE) /\ leaves' = {} /\ UNCHANGED newer

-----------------------------------------------------------------------------
Init ==
    /\ \/ doc = NoDoc /\ vault = Missing /\ reached = {}
       \/ \E t \in Texts : /\ doc = [id |-> 1, text |-> t, mine |-> FALSE, deleted |-> FALSE]
                           /\ vault = t /\ reached = {t}
    /\ leaves = {} /\ nextId = 2 /\ unseen = FALSE
    /\ newer = FALSE /\ events = <<>>
    /\ mark = Missing /\ armed = FALSE /\ suppressed = FALSE
    /\ checking = {} /\ timer = FALSE /\ pend = 0
    /\ up = [u \in Uploaders |-> IdleUp] /\ del = IdleDel
    /\ feed = <<>> /\ job = IdleJob
    /\ versions = {} /\ copy = Missing /\ backup = Missing /\ trash = {} /\ held = FALSE
    /\ saves = 0 /\ removes = 0 /\ pulls = 0
    /\ typed = Missing /\ swallowed = FALSE /\ noticed = Missing /\ owed = Missing

User == Remove \/ \E t \in Texts : Save(t)
Watcher == OnModify \/ OnStructural \/ GuardReleases \/ SuppressExpires
             \/ \E t \in Texts : EchoChecked(t)
Upload(u) == TimerFires(u) \/ UploadRead(u) \/ UploadGet(u) \/ UploadPut(u)
               \/ UploadConflict(u) \/ UploadRecord(u) \/ UploadFails(u)
Tombstone == TombGet \/ TombPut \/ TombLeaves
Applier == FeedDelivers \/ ApplyStarts \/ ApplySame \/ ApplyHeldBack \/ ApplyConflict
             \/ ApplyMaterialize \/ ApplySelf \/ ApplyPrepares \/ ApplyWrites
             \/ DeletionSkipped \/ DeletionHeld \/ DeletionPrepares \/ ApplyDeletes
Replication == PullDelete
                 \/ \E t \in Texts : PullEdit(t) \/ PullBranch(t) \/ PullResolution(t)

Next == User \/ Watcher \/ (\E u \in Uploaders : Upload(u)) \/ Tombstone \/ Applier
          \/ Replication

Spec == Init /\ [][Next]_vars

\* Timers fire, promises settle and the serial queue advances; the user and the
\* other devices may stop at any point.
Fairness == /\ WF_vars(Watcher) /\ WF_vars(Tombstone) /\ WF_vars(Applier)
            /\ \A u \in Uploaders : WF_vars(Upload(u))

FairSpec == Spec /\ Fairness

-----------------------------------------------------------------------------
(* Properties.                                                              *)

InFlight == {u \in Uploaders : up[u].pc # "idle"}

\* The pending count is exactly the debounce timer plus the uploads in flight,
\* so finishing one upload never erases the mark of a later edit
\* (MirrorContext.markPending/clearPending, LocalWatcher.scheduleUpload).
PendingExact == pend = Cardinality(InFlight) + (IF timer THEN 1 ELSE 0)

Recoverable == versions \cup trash \cup reached \cup {copy, backup, Missing}

\* The applier's write replaces the file.
Overwrites == job.pc \in {"write", "writeWinner"} /\ job'.pc # job.pc /\ vault' # vault

\* An edit the watcher had taken on when a change is started is not replaced by
\* that change unless it is in the database, the version history or a copy:
\* the pending count outlives every upload but the edit's own, and the write is
\* compare-and-swap (MirrorContext.isPending, writeVaultFileIf).
NoticedEditKept == [][Overwrites => vault # owed \/ owed \in Recoverable]_vars

\* The applier never replaces this device's own text, already the winner in the
\* database, by what a queued change held earlier (MirrorApplier's rule "content of
\* this device is not overwritten").
OwnTextKept == [][Overwrites => ~(doc.mine /\ ~doc.deleted /\ doc.text = vault)]_vars

\* Texts of other devices in the live leaves of the document.
RemoteTexts == {r.text : r \in {x \in leaves \cup {doc} : Exists(x) /\ ~x.mine /\ ~x.deleted}}

\* A step of this device never makes another device's text disappear from the
\* document unless the text is in the version history, in the file, or in the new
\* winner (preserveInterveningNote, the snapshots of tombstonePath and of its
\* conflict leaves, and the collapse of identical leaves only).
RemoteNeverBuried ==
    [][VersionHistory /\ pulls' = pulls
         => RemoteTexts \ RemoteTexts' \subseteq versions' \cup {vault', doc'.text}]_vars

\* A tombstone is replaced by an upload only if the uploaded text differs from what
\* was deleted or the file was modified after the deletion, also when the tombstone
\* arrived between the upload's read and its put (the retry re-checks).
TombstoneStands ==
    [][\A u \in Uploaders :
         (up[u].pc = "put" /\ up'[u].pc = "record" /\ up[u].seen = doc /\ doc.deleted)
           => ModifiedAfterTombstone(up[u].text, doc)]_vars

\* Everything at rest: no event, timer, upload, deletion or change to apply.
Settled == /\ events = <<>> /\ checking = {} /\ pend = 0 /\ del.pc = "idle"
           /\ ~unseen /\ feed = <<>> /\ job.pc = "idle"

\* At rest the text of the file has been in the database or is in the version
\* history: no edit stays on this device alone, whichever of the echo guard, the
\* skips of uploadNote and its exhausted retries it met.
EditReachesHistory == Settled => vault \in reached \cup versions \cup {Missing}

\* The document holds a live conflict that is not merely two copies of the file.
Conflicting == leaves # {} /\ ~doc.deleted /\ \E r \in leaves \cup {doc} : r.text # vault

\* At rest such a conflict won by another device's revision that the file does not show
\* is in the conflict folder (ConflictManager.materialize, also when an edit awaits upload).
RemoteWinnerSurfaced ==
    Settled /\ ~swallowed /\ Conflicting /\ ~doc.mine /\ doc.text # vault => copy # Missing

\* At rest a remote deletion was applied, or is in the delete/modify queue.
DeletionNotForgotten ==
    Settled /\ ~swallowed /\ doc.deleted /\ ~doc.mine /\ DeletePolicy # "ignore-delete"
      => vault = Missing \/ held

\* The applier and the uploader never keep each other busy: once the user and the
\* other devices stop, everything comes to rest (RemoteApplyGuard's purpose).
ComesToRest == <>[]Settled

\* At rest the edits of this device and of the others are where they can be found: counted
\* while they wait, in the database or the history, a winner of another device in the
\* conflict folder.
EditsStand == TypeOK /\ PendingExact /\ EditReachesHistory /\ RemoteWinnerSurfaced

\* What other devices wrote and deleted gives way to a text of this one only where it may.
OthersStand == RemoteNeverBuried /\ TombstoneStands

\* Deletions and rest: a remote deletion is applied or asked about, and the link comes to
\* rest.
RemovalsSettle == []DeletionNotForgotten /\ ComesToRest
=============================================================================
