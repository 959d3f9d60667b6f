------------------------------ MODULE LinkRestore ------------------------------
(***************************************************************************)
(* Bringing things back in one link that is on: restoring a deleted file,  *)
(* purging and undoing a purge, answering a delete/modify question,        *)
(* resolving a conflict, restoring a version, stripping old tombstones,    *)
(* repairing the remote database.  Each is a sequence of reads and writes  *)
(* of the database, of the vault and of two local lists; other devices,    *)
(* the user and a second operation run between any two of them, and the    *)
(* app may be killed there.                                                *)
(*                                                                         *)
(* Path 1 is the file all this is about; path 2 is the name a second copy  *)
(* gets ("restored copy", "conflict copy", "remote edit").                 *)
(***************************************************************************)
EXTENDS RevisionTrees

CONSTANTS
    Texts,     \* what a file may contain
    Ops,       \* operations that may be in progress at once
    Attempts,  \* 3: attempts of resolve and restoreVersion
    MaxPurges, \* PURGE_MAX_COUNT, 20: the length of the list of purges
    MaxOps, MaxEvents  \* exploration bounds: operations begun; acts of others

ASSUME LinkRestoreAssumption ==
    /\ NoText \notin Texts
    /\ {Attempts, MaxPurges} \subseteq Nat \ {0} /\ MaxOps \in Nat /\ MaxEvents \in Nat

VARIABLES
    notes,     \* the file is a note, not an attachment
    vault,     \* text of the file of each path
    archive,   \* the file moved to the archive folder by a deletion
    local,     \* the document of each path in the local replica
    remote,    \* and in the remote database
    versions,  \* texts in the version history
    queue,     \* _local/delete-modify
    purges,    \* _local/recent-purge: what was purged and under which revision
    op,        \* the operations in progress
    clock,     \* numbers the revisions and dates the purges
    dropped,   \* entries taken off the list of purges, or not placed on it (history)
    swept,     \* texts that the sweep took out of the version history (history)
    begun, events \* bounds

filesVars == <<vault, archive>>
dbVars    == <<local, remote, versions>>
lists     == <<queue, purges, dropped>>
bounds    == <<begun, events>>
vars == <<notes, filesVars, dbVars, lists, op, clock, swept, bounds>>

Paths == 1..2
Copy == 2
Doc(p) == Winner(local[p])
Idle == [kind |-> "none", pc |-> "idle", path |-> 1, target |-> 1, text |-> NoText, live |-> NoText,
         seen |-> NoRev, conf |-> {}, choice |-> "none", list |-> {}, tries |-> 0, at |-> 0]

TypeOK ==
    /\ notes \in BOOLEAN
    /\ {vault, archive} \subseteq [Paths -> Texts \cup {NoText}]
    /\ \A p \in Paths : local[p] \subseteq Rev(Texts) /\ remote[p] \subseteq Rev(Texts)
    /\ versions \in [Paths -> SUBSET Texts]
    /\ queue \subseteq Paths
    /\ purges \cup dropped \subseteq [path : Paths, rev : Int, text : Texts \cup {NoText}, at : Nat]
    /\ swept \subseteq Texts
    /\ \A o \in Ops : op[o].path \in Paths /\ op[o].target \in Paths /\ op[o].tries \in 0..Attempts

-----------------------------------------------------------------------------
(* Effects shared by the operations.                                        *)

KeepText(p, texts) ==
    versions' = IF notes THEN [versions EXCEPT ![p] = @ \cup (texts \ {NoText})] ELSE versions
WriteFile(p, text) == vault' = [vault EXCEPT ![p] = text]
Goto(o, pc) == op' = [op EXCEPT ![o].pc = pc]
End(o) == op' = [op EXCEPT ![o] = Idle]
Runs(o, kind, pc) == op[o].kind = kind /\ op[o].pc = pc

\* pouch.put: on whatever the winner is by now.  The same for assets.
Put(p, text) ==
    /\ local' = [local EXCEPT ![p] = WithText(@, clock + 1, text, TRUE)]
    /\ clock' = clock + 1

\* putWithRev succeeds while the revision read is still a leaf.
StillLeaf(p, rev) == IF rev = NoRev THEN Present(local[p]) = {} ELSE rev \in Leaves(local[p])
PutOn(p, rev, text, state) ==
    [local EXCEPT ![p] = @ \cup {Child(IF rev = NoRev THEN Base(@) ELSE rev, clock + 1, text, state, TRUE, clock + 1)}]

\* tombstonePath: a note keeps its text in the tombstone, an attachment loses its binary.
Buried(text) == IF notes THEN text ELSE NoText
Tombstoned(doc, id, mine) ==
    doc \cup {Child(Winner(doc), id, Buried(Winner(doc).text), "deleted", mine, id)}

\* A person drives one operation at a time; the sweep and the purge of a file
\* deleted from the archive start by themselves.
Begin(o, kind, pc, p) ==
    /\ kind # "sweep" => \A other \in Ops : op[other].kind \in {"none", "sweep", "purge"}
    /\ op[o] = Idle /\ begun < MaxOps /\ begun' = begun + 1
    /\ op' = [op EXCEPT ![o] = [Idle EXCEPT !.kind = kind, !.pc = pc, !.path = p]]
    /\ UNCHANGED <<notes, filesVars, dbVars, lists, clock, swept, events>>

-----------------------------------------------------------------------------
(* RestoreManager.restore: read the tombstone, choose the name, write the   *)
(* file, put the document, drop the archived copy and, under another name,  *)
(* the old document.                                                        *)

RestoreTarget(p, choice) ==
    IF choice = "other-name" THEN Copy
    ELSE IF vault[p] # NoText /\ choice = "keep-both" THEN Copy ELSE p

\* A note comes back from its tombstone, an attachment from the archive.
Recoverable(p) == IF notes THEN Doc(p).text ELSE archive[p]

RestoreReads(o, choice) ==
    LET p == op[o].path IN
    /\ Runs(o, "restore", "read")
    /\ op' = [op EXCEPT ![o] =
          IF ~IsDeleted(local[p]) \/ Recoverable(p) = NoText
             \/ (choice = "skip" /\ vault[p] # NoText) THEN Idle
          ELSE [@ EXCEPT !.pc = "write", !.target = RestoreTarget(p, choice), !.text = Recoverable(p)]]
    /\ UNCHANGED <<notes, filesVars, dbVars, lists, clock, swept, bounds>>

BringsBack == {"restore", "undo", "keep-remote", "keep-both"}

\* Writes the file of a restored, undone or kept text (guarded against its echo).
FileWritten(o) ==
    /\ op[o].kind \in BringsBack /\ op[o].pc = "write"
    /\ WriteFile(op[o].target, op[o].text) /\ Goto(o, "put")
    /\ UNCHANGED <<notes, archive, dbVars, lists, clock, swept, bounds>>

NextAfterPut(o) ==
    CASE op[o].kind = "restore"     -> "tidy"
      [] op[o].kind = "undo"        -> "load"
      [] op[o].kind = "keep-remote" -> "load"
      [] op[o].kind = "keep-both"   -> "delete"

DocumentPut(o) ==
    /\ op[o].kind \in BringsBack /\ op[o].pc = "put"
    /\ Put(op[o].target, op[o].text) /\ KeepText(op[o].target, {op[o].text})
    /\ Goto(o, NextAfterPut(o))
    /\ UNCHANGED <<notes, filesVars, remote, lists, swept, bounds>>

RestoreTidies(o) ==
    LET p == op[o].path IN
    /\ Runs(o, "restore", "tidy") /\ End(o)
    /\ archive' = [archive EXCEPT ![p] = NoText]
    /\ IF op[o].target # p /\ Present(local[p]) # {}
       THEN /\ local' = [local EXCEPT ![p] = WithoutLeaves(@, {Doc(p)})]
       ELSE UNCHANGED local
    /\ UNCHANGED <<notes, vault, remote, versions, lists, clock, swept, bounds>>

-----------------------------------------------------------------------------
(* Uploader.purgePath and the list of recent purges.                        *)

PurgeReads(o) ==
    LET p == op[o].path IN
    /\ Runs(o, "purge", "read")
    /\ op' = [op EXCEPT ![o] =
          IF Present(local[p]) = {} THEN Idle
          ELSE [@ EXCEPT !.pc = "load", !.seen = Doc(p), !.conf = Conflicts(local[p]), !.at = clock]]
    /\ UNCHANGED <<notes, filesVars, dbVars, lists, clock, swept, bounds>>

\* Faulty Snapshot: with the text of a live document only.
SnapshotLiveOnly(o) ==
    [path |-> op[o].path, rev |-> op[o].seen.id, at |-> op[o].at,
     text |-> IF op[o].seen.state = "deleted" THEN NoText ELSE IF notes THEN op[o].seen.text ELSE op[o].text]

\* A note is listed with its text, an attachment with the binary found by then, if any.
Snapshot(o) ==
    [path |-> op[o].path, rev |-> op[o].seen.id, at |-> op[o].at,
     text |-> IF notes THEN op[o].seen.text ELSE op[o].text]

\* The list is read and written in two steps.  The binary of an attachment is that of
\* the winner by now; above PURGE_ASSET_CAP, or where it cannot be read, there is none.
PurgeLoads(o) ==
    /\ Runs(o, "purge", "load")
    /\ \E binary \in {NoText} \cup IF notes THEN {} ELSE {Doc(op[o].path).text} :
         op' = [op EXCEPT ![o] = [@ EXCEPT !.pc = "save", !.list = purges, !.text = binary]]
    /\ UNCHANGED <<notes, filesVars, dbVars, lists, clock, swept, bounds>>

\* trimPurges: of two purges at one time that of the later revision counts as the newer.
Newer(e, f) == e.at > f.at \/ (e.at = f.at /\ e.rev > f.rev)
Newest(entries) ==
    {e \in entries : Cardinality({f \in entries : Newer(f, e)}) < MaxPurges}
SameId(o) == {e \in op[o].list : e.path = op[o].path /\ e.rev = op[o].seen.id}

\* The purge goes on where the list cannot be written.
PurgeSaves(o) ==
    /\ Runs(o, "purge", "save")
    /\ \/ /\ purges' = Newest((op[o].list \ SameId(o)) \cup {Snapshot(o)})
          /\ dropped' = dropped \cup ((purges \cup {Snapshot(o)}) \ purges') /\ Goto(o, "remove")
       \/ /\ UNCHANGED <<purges, dropped>>
          /\ op' = [op EXCEPT ![o] = [@ EXCEPT !.pc = "remove", !.choice = "unlisted"]]
    /\ UNCHANGED <<notes, filesVars, dbVars, queue, clock, swept, bounds>>

\* removeRev of the winner fails when it is no leaf any more.
PurgeRemoves(o) ==
    LET p == op[o].path IN
    /\ Runs(o, "purge", "remove") /\ End(o)
    /\ IF op[o].seen \in Leaves(local[p])
       THEN /\ local' = [local EXCEPT ![p] = WithoutLeaves(@, {op[o].seen} \cup (op[o].conf \cap Leaves(@)))]
       ELSE UNCHANGED local
    /\ UNCHANGED <<notes, filesVars, remote, versions, lists, clock, swept, bounds>>

\* A person sees an entry once its purge is over.
Listed(e) == e \in purges /\ \A o \in Ops : op[o].kind = "purge" => op[o].seen.id # e.rev

UndoReads(o, e) ==
    /\ Runs(o, "undo", "read") /\ Listed(e) /\ e.text # NoText
    /\ op' = [op EXCEPT ![o] = [@ EXCEPT !.pc = "write", !.path = e.path, !.seen.id = e.rev,
                                         !.text = e.text, !.target = RestoreTarget(e.path, "keep-both")]]
    /\ UNCHANGED <<notes, filesVars, dbVars, lists, clock, swept, bounds>>

ClearReads(o, e) ==
    /\ Runs(o, "clear", "read") /\ Listed(e)
    /\ op' = [op EXCEPT ![o] = [@ EXCEPT !.pc = "load", !.path = e.path, !.seen.id = e.rev, !.text = e.text]]
    /\ UNCHANGED <<notes, filesVars, dbVars, lists, clock, swept, bounds>>

EntryLoads(o) ==
    /\ op[o].kind \in {"undo", "clear"} /\ op[o].pc = "load"
    /\ op' = [op EXCEPT ![o].list = purges, ![o].pc = "save"]
    /\ UNCHANGED <<notes, filesVars, dbVars, lists, clock, swept, bounds>>

EntrySaves(o) ==
    /\ op[o].kind \in {"undo", "clear"} /\ op[o].pc = "save" /\ End(o)
    /\ purges' = op[o].list \ SameId(o)
    /\ dropped' = dropped \cup (purges \ purges')
    /\ UNCHANGED <<notes, filesVars, dbVars, queue, clock, swept, bounds>>

-----------------------------------------------------------------------------
(* RestoreManager.resolveDeleteModify.                                      *)

AnswerReads(o, choice) ==
    LET p == op[o].path IN
    /\ Runs(o, "answer", "read") /\ choice \in {"keep-remote", "keep-both", "delete"}
    /\ op' = [op EXCEPT ![o] =
          CASE choice = "delete" -> [@ EXCEPT !.kind = "delete", !.pc = "delete"]
            [] choice = "keep-remote" ->
                 IF IsLive(local[p])
                 THEN [@ EXCEPT !.kind = choice, !.pc = "write", !.target = p, !.text = Doc(p).text]
                 ELSE [@ EXCEPT !.kind = choice, !.pc = "load"]
            [] choice = "keep-both" ->
                 IF Doc(p).text # NoText
                 THEN [@ EXCEPT !.kind = choice, !.pc = "write", !.target = Copy, !.text = Doc(p).text]
                 ELSE [@ EXCEPT !.kind = choice, !.pc = "delete"]]
    /\ UNCHANGED <<notes, filesVars, dbVars, lists, clock, swept, bounds>>

\* The file goes, and the document is tombstoned with all its leaves.
AnswerDeletes(o) ==
    LET p == op[o].path IN
    /\ op[o].kind \in {"delete", "keep-both"} /\ op[o].pc = "delete" /\ Goto(o, "load")
    /\ WriteFile(p, NoText)
    /\ IF IsLive(local[p])
       THEN /\ local' = [local EXCEPT ![p] = WithoutLeaves(Tombstoned(@, clock + 1, TRUE), Conflicts(@))]
            /\ KeepText(p, {r.text : r \in Present(local[p])})
            /\ clock' = clock + 1
       ELSE UNCHANGED <<local, versions, clock>>
    /\ UNCHANGED <<notes, archive, remote, lists, swept, bounds>>

QueueLoads(o) ==
    /\ op[o].kind \in {"delete", "keep-both", "keep-remote"} /\ op[o].pc = "load"
    /\ op' = [op EXCEPT ![o].list = queue, ![o].pc = "save"]
    /\ UNCHANGED <<notes, filesVars, dbVars, lists, clock, swept, bounds>>

QueueSaves(o) ==
    /\ op[o].kind \in {"delete", "keep-both", "keep-remote"} /\ op[o].pc = "save" /\ End(o)
    /\ queue' = op[o].list \ {op[o].path}
    /\ UNCHANGED <<notes, filesVars, dbVars, purges, dropped, clock, swept, bounds>>

-----------------------------------------------------------------------------
(* ConflictManager.resolve and resolveAsset.                                *)

\* pickRemoteLeaf: a leaf that differs from the file, the winner first; of an
\* attachment, one that has a binary.
Differing(p) == {r \in Present(local[p]) : r.text # vault[p] /\ (notes \/ r.text # NoText)}
RemoteSide(p) ==
    IF Doc(p) \in Differing(p) THEN {Doc(p)}
    ELSE IF Differing(p) = {} THEN {NoRev} ELSE Differing(p)
LocalSide(p) == IF vault[p] = NoText THEN Doc(p).text ELSE vault[p]

Chosen(choice, mine, theirs) ==
    IF theirs # NoText /\ (choice \in {"remote", "both-remote"} \/ (~notes /\ mine = NoText))
    THEN theirs ELSE mine

\* A second copy is kept of two sides; of an attachment, if both are there.
KeepsBoth(p, choice, r) ==
    choice \in {"both", "both-remote"} /\ r # NoRev /\ (notes \/ LocalSide(p) # NoText)

\* There is no conflict any more, or no binary at all.
NothingLeft(p) ==
    \/ Conflicts(local[p]) = {}
    \/ ~notes /\ vault[p] = NoText /\ \A r \in Present(local[p]) : r.text = NoText

\* One attempt: both sides go to the history, the other one to a copy if asked.
ResolveReads(o, choice) ==
    LET p == op[o].path IN
    /\ Runs(o, "resolve", "read")
    /\ op[o].choice \in {"none", choice}
    /\ \/ /\ NothingLeft(p) /\ End(o) /\ UNCHANGED <<vault, versions>>
       \/ /\ ~NothingLeft(p)
          /\ \E r \in RemoteSide(p) :
               /\ KeepText(p, {vault[p], r.text})
               /\ vault' = IF KeepsBoth(p, choice, r)
                           THEN [vault EXCEPT ![Copy] = IF choice = "both" THEN r.text ELSE LocalSide(p)]
                           ELSE vault
               /\ op' = [op EXCEPT ![o] =
                     [@ EXCEPT !.pc = "write", !.choice = choice, !.seen = Doc(p),
                               !.conf = Conflicts(local[p]), !.live = vault[p],
                               !.text = Chosen(choice, LocalSide(p), r.text)]]
    /\ UNCHANGED <<notes, archive, local, remote, lists, clock, swept, bounds>>

ResolveWrites(o) ==
    /\ Runs(o, "resolve", "write") /\ Goto(o, "put")
    /\ WriteFile(op[o].path, op[o].text)
    /\ UNCHANGED <<notes, archive, dbVars, lists, clock, swept, bounds>>

\* The collapse: the chosen text on the winner read, the other leaves removed.
\* Only the side shown was kept; the texts of further leaves are lost.
ResolvePuts(o) ==
    LET p == op[o].path IN
    /\ Runs(o, "resolve", "put") /\ StillLeaf(p, op[o].seen) /\ End(o)
    /\ local' = [PutOn(p, op[o].seen, op[o].text, "live") EXCEPT ![p] =
                    WithoutLeaves(@, op[o].conf \cap Leaves(@))]
    /\ clock' = clock + 1
    /\ UNCHANGED <<notes, filesVars, remote, versions, lists, swept, bounds>>

\* A revision arrived meanwhile: once more, at most Attempts times.
ResolveRetries(o) ==
    /\ Runs(o, "resolve", "put") /\ ~StillLeaf(op[o].path, op[o].seen)
    /\ op' = [op EXCEPT ![o] = IF @.tries + 1 = Attempts THEN Idle
                               ELSE [@ EXCEPT !.pc = "read", !.tries = op[o].tries + 1]]
    /\ UNCHANGED <<notes, filesVars, dbVars, lists, clock, swept, bounds>>

-----------------------------------------------------------------------------
(* VersionStore.restoreVersion: the database first, the file after.         *)

VersionReads(o, text) ==
    LET p == op[o].path IN
    /\ Runs(o, "version", "read") /\ notes /\ text \in versions[p]
    /\ op' = [op EXCEPT ![o] = [@ EXCEPT !.pc = "get", !.text = text, !.live = vault[p]]]
    /\ KeepText(p, {vault[p]}) \* backupCurrent
    /\ UNCHANGED <<notes, filesVars, local, remote, lists, clock, swept, bounds>>

VersionGets(o) ==
    /\ Runs(o, "version", "get")
    /\ op' = [op EXCEPT ![o].pc = "put", ![o].seen = Doc(op[o].path)]
    /\ UNCHANGED <<notes, filesVars, dbVars, lists, clock, swept, bounds>>

\* After the last attempt the text is put without asking.
VersionPuts(o) ==
    LET p == op[o].path IN
    /\ Runs(o, "version", "put")
    /\ \/ /\ StillLeaf(p, op[o].seen)
          /\ local' = PutOn(p, op[o].seen, op[o].text, "live") /\ clock' = clock + 1 /\ Goto(o, "write")
       \/ /\ ~StillLeaf(p, op[o].seen) /\ op[o].tries + 1 < Attempts
          /\ op' = [op EXCEPT ![o] = [@ EXCEPT !.pc = "get", !.tries = op[o].tries + 1]]
          /\ UNCHANGED <<local, clock>>
       \/ /\ ~StillLeaf(p, op[o].seen) /\ op[o].tries + 1 = Attempts
          /\ Put(p, op[o].text) /\ Goto(o, "write")
    /\ UNCHANGED <<notes, filesVars, remote, versions, lists, swept, bounds>>

VersionWrites(o) ==
    /\ Runs(o, "version", "write") /\ End(o)
    /\ WriteFile(op[o].path, op[o].text)
    /\ UNCHANGED <<notes, archive, dbVars, lists, clock, swept, bounds>>

-----------------------------------------------------------------------------
(* sweepTombstones: an old tombstone loses its text, and the versions the   *)
(* policy gives up go with it.                                              *)

\* Past the retention: deleted before the model's first step.
FirstStep == 10
Expired(doc) == IsDeleted(doc) /\ Winner(doc).text # NoText /\ Winner(doc).at < FirstStep

SweepReads(o) ==
    LET p == op[o].path IN
    /\ Runs(o, "sweep", "read") /\ notes
    /\ op' = [op EXCEPT ![o] = IF Expired(local[p])
                              THEN [@ EXCEPT !.pc = "put", !.seen = Doc(p)] ELSE Idle]
    /\ UNCHANGED <<notes, filesVars, dbVars, lists, clock, swept, bounds>>

Stripped(p, rev) ==
    [local EXCEPT ![p] = @ \cup {Child(rev, clock + 1, NoText, "deleted", rev.mine, rev.at)}]

\* Faulty SweepPuts: a plain put, on whatever the winner is by now.
SweepsOver(o) ==
    LET p == op[o].path IN
    /\ Runs(o, "sweep", "put") /\ End(o)
    /\ local' = Stripped(p, Doc(p)) /\ clock' = clock + 1
    /\ UNCHANGED <<notes, filesVars, remote, versions, lists, swept, bounds>>

SweepPuts(o) ==
    LET p == op[o].path IN
    /\ Runs(o, "sweep", "put") /\ End(o)
    /\ \/ /\ StillLeaf(p, op[o].seen)
          /\ local' = Stripped(p, op[o].seen) /\ clock' = clock + 1
          /\ \E kept \in {{}, versions[p]} :
               versions' = [versions EXCEPT ![p] = kept] /\ swept' = swept \cup (versions[p] \ kept)
       \/ ~StillLeaf(p, op[o].seen) /\ UNCHANGED <<local, clock, versions, swept>>
    /\ UNCHANGED <<notes, filesVars, remote, lists, bounds>>

-----------------------------------------------------------------------------
(* repairSharedConsistency: documents alive on the server that have no file *)
(* here are shown; once confirmed they are tombstoned on the server.        *)

RepairScans(o) ==
    LET p == op[o].path IN
    /\ Runs(o, "repair", "read")
    /\ op' = [op EXCEPT ![o] = IF IsLive(remote[p]) /\ vault[p] = NoText
                              THEN [@ EXCEPT !.pc = "put"] ELSE Idle]
    /\ UNCHANGED <<notes, filesVars, dbVars, lists, clock, swept, bounds>>

RepairTombstones(o) ==
    LET p == op[o].path IN
    /\ Runs(o, "repair", "put") /\ End(o)
    /\ IF IsLive(remote[p])
       THEN /\ remote' = [remote EXCEPT ![p] = Tombstoned(@, clock + 1, TRUE)]
            /\ clock' = clock + 1
       ELSE UNCHANGED <<remote, clock>>
    /\ UNCHANGED <<notes, filesVars, local, versions, lists, swept, bounds>>

-----------------------------------------------------------------------------
(* The user, the other devices, replication and a killed app.               *)

Event == events < MaxEvents /\ events' = events + 1

\* An edit is uploaded at once (LinkRestore leaves the wait to NoteLink).
UserEdits(text) ==
    /\ Event /\ text # vault[1] /\ WriteFile(1, text) /\ Put(1, text) /\ KeepText(1, {text})
    /\ UNCHANGED <<notes, archive, remote, lists, op, swept, begun>>

UserDeletes ==
    /\ Event /\ vault[1] # NoText /\ IsLive(local[1]) /\ WriteFile(1, NoText)
    /\ local' = [local EXCEPT ![1] = WithoutLeaves(Tombstoned(@, clock + 1, TRUE), Conflicts(@))]
    /\ KeepText(1, {r.text : r \in Present(local[1])}) /\ clock' = clock + 1
    /\ UNCHANGED <<notes, archive, remote, lists, op, swept, begun>>

\* The archived copy deleted by hand: the document is purged.
PurgeBegins(o) ==
    /\ archive[1] # NoText /\ archive' = [archive EXCEPT ![1] = NoText]
    /\ op[o] = Idle /\ begun < MaxOps /\ begun' = begun + 1
    /\ op' = [op EXCEPT ![o] = [Idle EXCEPT !.kind = "purge", !.pc = "read"]]
    /\ UNCHANGED <<notes, vault, dbVars, lists, clock, swept, events>>

OtherEdits(text) ==
    /\ Event /\ text # Winner(remote[1]).text
    /\ remote' = [remote EXCEPT ![1] = WithText(@, clock + 1, text, FALSE)] /\ clock' = clock + 1
    /\ UNCHANGED <<notes, filesVars, local, versions, lists, op, swept, begun>>

OtherDeletes ==
    /\ Event /\ IsLive(remote[1])
    /\ remote' = [remote EXCEPT ![1] = Tombstoned(@, clock + 1, FALSE)] /\ clock' = clock + 1
    /\ UNCHANGED <<notes, filesVars, local, versions, lists, op, swept, begun>>

\* What the applier does with a document that has changed.
Applied(p, doc) ==
    LET new == Winner(doc) IN
    IF new = Doc(p) \/ new.mine THEN [file |-> vault[p], arch |-> archive[p]]
    ELSE IF new = NoRev THEN [file |-> vault[p], arch |-> NoText]
    ELSE IF new.state = "deleted"
    THEN [file |-> NoText, arch |-> IF vault[p] = NoText THEN archive[p] ELSE vault[p]]
    ELSE IF vault[p] # NoText /\ Conflicts(doc) # {} THEN [file |-> vault[p], arch |-> archive[p]]
    ELSE [file |-> new.text, arch |-> archive[p]]

Exchange ==
    /\ local # remote
    /\ LET docs == [p \in Paths |-> local[p] \cup remote[p]] IN
       /\ local' = docs /\ remote' = docs
       /\ vault' = [p \in Paths |-> Applied(p, docs[p]).file]
       /\ archive' = [p \in Paths |-> Applied(p, docs[p]).arch]
    /\ UNCHANGED <<notes, versions, lists, op, clock, swept, bounds>>

\* The second name is uploaded after resolve wrote it; the note may be queued.
CopyUploaded ==
    /\ vault[Copy] # NoText /\ vault[Copy] # Doc(Copy).text
    /\ \A o \in Ops : op[o].target # Copy
    /\ Put(Copy, vault[Copy]) /\ KeepText(Copy, {vault[Copy]})
    /\ UNCHANGED <<notes, filesVars, remote, lists, op, swept, bounds>>

\* The next start uploads the files that differ from their documents.
Killed ==
    LET left == {p \in Paths : vault[p] \notin {NoText, Doc(p).text} /\ Conflicts(local[p]) = {}} IN
    /\ \E o \in Ops : op[o] # Idle
    /\ op' = [o \in Ops |-> Idle]
    /\ local' = [p \in Paths |-> IF p \in left THEN WithText(local[p], clock + p, vault[p], TRUE) ELSE local[p]]
    /\ versions' = [p \in Paths |-> IF p \in left /\ notes THEN versions[p] \cup {vault[p]} ELSE versions[p]]
    /\ clock' = IF left = {} THEN clock ELSE clock + Cardinality(Paths)
    /\ UNCHANGED <<notes, filesVars, remote, lists, swept, bounds>>

-----------------------------------------------------------------------------
Old(id, text, state, mine) == Child(NoRev, id, text, state, mine, 0)
Deleted(text, mine) ==
    LET r == Old(1, text, "live", mine) IN {r, Child(r, 2, Buried(text), "deleted", mine, 2)}
Branches(texts, mine) ==
    LET r == Old(1, NoText, "live", mine) IN
    {r} \cup {Child(r, i + 1, texts[i], "live", mine, 0) : i \in DOMAIN texts}

\* Purged with the text t, or after that made again with another and deleted again.
Purged(t) == WithoutLeaves({Old(1, t, "live", FALSE)}, {Old(1, t, "live", FALSE)})
PurgedBefore(t, text) ==
    LET r == Child(Removal(Old(1, t, "live", FALSE)), 2, text, "live", FALSE, 0) IN
    (Purged(t) \cup {r}) \cup {Child(r, 3, Buried(text), "deleted", FALSE, 3)}
FirstEntry(t) == [path |-> 1, rev |-> Old(1, t, "live", FALSE).id, text |-> t, at |-> 0]

Start(file, arch, doc, kept, queued, purged) ==
    /\ vault = [p \in Paths |-> IF p = 1 THEN file ELSE NoText]
    /\ archive = [p \in Paths |-> IF p = 1 THEN arch ELSE NoText]
    /\ local = [p \in Paths |-> IF p = 1 THEN doc ELSE {}]
    /\ versions = [p \in Paths |-> IF p = 1 /\ notes THEN kept ELSE {}]
    /\ queue = queued /\ purges = purged

Init ==
    /\ notes \in BOOLEAN
    /\ \/ \E s \in Texts, mine \in BOOLEAN, kept \in SUBSET Texts : \* deleted, archived here
            /\ Cardinality(kept) <= 1
            /\ Start(NoText, IF mine THEN NoText ELSE s, Deleted(s, mine), kept, {}, {})
       \/ \E s, t \in Texts :                              \* an old text in the history
            s # t /\ Start(s, NoText, {Old(1, s, "live", FALSE)}, {t}, {}, {})
       \/ \E s \in Texts :                                 \* deleted here, edited there
            Start(NoText, NoText, {Old(1, s, "live", FALSE)}, {}, {1}, {})
       \/ \E texts \in [1..2 -> Texts] \cup [1..3 -> Texts] : \* edited on both sides, or on three
            /\ \A i, j \in DOMAIN texts : i # j => texts[i] # texts[j]
            /\ Start(texts[1], NoText, Branches(texts, FALSE), {}, {}, {})
       \/ \E t \in Texts : Start(NoText, NoText, Purged(t), {}, {}, {FirstEntry(t)}) \* purged
       \/ \E s, t \in Texts :                    \* purged, made again, deleted and archived
            s # t /\ Start(NoText, s, PurgedBefore(t, s), {}, {}, {FirstEntry(t)})
    /\ remote = local
    /\ op = [o \in Ops |-> Idle]
    /\ clock = FirstStep /\ dropped = {} /\ swept = {} /\ begun = 0 /\ events = 0

Begins(o) ==
    \/ Begin(o, "restore", "read", 1)
    \/ Begin(o, "sweep", "read", 1)
    \/ Begin(o, "repair", "read", 1)
    \/ Begin(o, "version", "read", 1)
    \/ 1 \in queue /\ Begin(o, "answer", "read", 1)
    \/ Conflicts(local[1]) # {} /\ Begin(o, "resolve", "read", 1)
    \/ purges # {} /\ (Begin(o, "undo", "read", 1) \/ Begin(o, "clear", "read", 1))
    \/ PurgeBegins(o)

Steps(o) ==
    \/ \E choice \in {"keep-both", "overwrite", "skip", "other-name"} : RestoreReads(o, choice)
    \/ FileWritten(o) \/ DocumentPut(o) \/ RestoreTidies(o)
    \/ PurgeReads(o) \/ PurgeLoads(o) \/ PurgeSaves(o) \/ PurgeRemoves(o)
    \/ \E e \in purges : UndoReads(o, e) \/ ClearReads(o, e)
    \/ EntryLoads(o) \/ EntrySaves(o)
    \/ \E choice \in {"keep-remote", "keep-both", "delete"} : AnswerReads(o, choice)
    \/ AnswerDeletes(o) \/ QueueLoads(o) \/ QueueSaves(o)
    \/ \E choice \in {"local", "remote", "both", "both-remote"} : ResolveReads(o, choice)
    \/ ResolveWrites(o) \/ ResolvePuts(o) \/ ResolveRetries(o)
    \/ \E text \in Texts : VersionReads(o, text)
    \/ VersionGets(o) \/ VersionPuts(o) \/ VersionWrites(o)
    \/ SweepReads(o) \/ SweepPuts(o) \/ RepairScans(o) \/ RepairTombstones(o)

Next ==
    \/ \E o \in Ops : Begins(o) \/ Steps(o)
    \/ \E text \in Texts : UserEdits(text) \/ OtherEdits(text)
    \/ UserDeletes \/ OtherDeletes \/ Exchange \/ CopyUploaded \/ Killed

Spec == Init /\ [][Next]_vars

-----------------------------------------------------------------------------
Kept ==
    {vault[p] : p \in Paths} \cup {archive[p] : p \in Paths}
    \cup {e.text : e \in purges}
    \cup UNION {{r.text : r \in Present(local[p])} \cup versions[p] : p \in Paths}

\* What a step may take away, and why.
Surrendered(o) ==
    LET p == op[o].path
        onlyAttachments(texts) == IF notes THEN {} ELSE texts  \* they have no history
        \* the file brought back was edited or deleted before the operation ended
        editedSince == IF notes THEN {op[o].text} \cap swept ELSE {op[o].text} \ {vault[op[o].target]}
        \* what an operation read in the file and kept is not given up, except by the sweep
        backedUp == IF notes THEN {op[o].live} \ swept ELSE {}
        \* the list of purges is written back as it was read
        overwritten == {e.text : e \in purges \ op[o].list}
        \* a list of MaxPurges entries has no place for the oldest
        entries == op[o].list \cup {Snapshot(o)}
        crowdedOut == IF Cardinality(op[o].list) < MaxPurges THEN {}
                      ELSE {e.text : e \in entries \ Newest(entries)}
        \* of an attachment the entry may hold another binary, read at another time
        relisted == onlyAttachments({e.text : e \in SameId(o)}) \ {op[o].text}
        resolved == op[o].conf \cup {op[o].seen}
    IN CASE op[o].kind = "clear" -> {op[o].text} \cup overwritten \cup relisted
         [] op[o].kind \in {"resolve", "version"} /\ op[o].pc = "write" -> {vault[p]} \ backedUp
         \* the file in the place of the one brought back, or the last second copy
         [] op[o].kind \in BringsBack /\ op[o].pc = "write" -> {vault[op[o].target]}
         [] op[o].kind = "resolve" /\ op[o].pc = "read" -> {vault[Copy]}
         \* a plain put covers what it has not read
         [] op[o].kind \in BringsBack /\ op[o].pc = "put" -> {Doc(op[o].target).text}
         \* under another name the old document goes, whatever it is by now; the
         \* archived copy goes, although it may be of an earlier deletion
         [] op[o].kind = "restore" /\ op[o].pc = "tidy" ->
              (({archive[p]} \cup IF op[o].target = p THEN {} ELSE {Doc(p).text}) \ {op[o].text})
              \cup editedSince
         [] op[o].kind = "purge" /\ op[o].pc = "save" -> overwritten \cup crowdedOut \cup relisted
         [] op[o].kind = "undo" /\ op[o].pc = "save" -> overwritten \cup editedSince \cup relisted
         \* the other leaves of a purged document are not kept for an undo; nor is
         \* the winner, once a second operation took it off the list or the list
         \* could not be written, nor a binary above PURGE_ASSET_CAP
         [] op[o].kind = "purge" /\ op[o].pc = "remove" ->
              {r.text : r \in op[o].conf} \cup onlyAttachments({op[o].seen.text} \ {op[o].text})
              \cup IF Snapshot(o) \in dropped \/ op[o].choice = "unlisted" THEN {op[o].seen.text} ELSE {}
         [] op[o].kind \in {"delete", "keep-both"} /\ op[o].pc = "delete" ->
              {vault[p]} \cup onlyAttachments({r.text : r \in Present(local[p])})
         \* of the branches that differ from the file one is shown and kept
         [] op[o].kind = "resolve" /\ op[o].pc = "put" ->
              LET texts == {r.text : r \in resolved} IN
              IF \E r, s \in resolved : r # s /\ op[o].live \notin {r.text, s.text}
              THEN texts ELSE onlyAttachments(texts) \cup (texts \cap swept)
         \* what arrived since the backup
         [] op[o].kind = "version" /\ op[o].pc = "put" -> {Doc(p).text, op[o].seen.text} \ backedUp
         [] op[o].kind = "sweep" -> {op[o].seen.text} \cup versions[p] \* past the retention
         [] OTHER -> {}

\* No operation takes the last copy of a text from the device, be it in the
\* files, the archive, the documents, the history or the list of purges,
\* except what it surrenders by design or by a race named there.  About the
\* order of reads, writes and removals in RestoreManager, ConflictManager,
\* Uploader.purgePath and VersionStore, with other steps between any two; the
\* state is well formed throughout.
NothingVanishes ==
    /\ []TypeOK
    /\ [][\A o \in Ops : Steps(o) => Kept \ (Surrendered(o) \cup {NoText}) \subseteq Kept']_vars

\* The sweep of old tombstones never deletes again a note that was revived on
\* top of the tombstone it read (putWithRev in sweepTombstones).
SweepBuriesNothing ==
    [][\A o \in Ops :
         Runs(o, "sweep", "put") /\ op'[o] = Idle /\ IsLive(local[1]) /\ op[o].seen.id \in Doc(1).anc
         => IsLive(local'[1])]_vars

=============================================================================
