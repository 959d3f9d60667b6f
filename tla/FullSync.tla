------------------------------- MODULE FullSync -------------------------------
(***************************************************************************)
(* The reconciliation of one link: what FullSync does when the link starts *)
(* and when the user asks for a full synchronisation, among everything     *)
(* that may happen meanwhile: the user's edits, removals and renames, with *)
(* and without a watcher listening, the other devices, the network that    *)
(* fails, and the plugin being stopped or killed at any point.             *)
(*                                                                         *)
(* One call on one path is one step here (NoteLink takes those calls       *)
(* apart); the loops over the paths and the phases of a synchronisation    *)
(* are what this module interleaves.                                       *)
(***************************************************************************)
EXTENDS RevisionTrees

CONSTANTS
    Paths,              \* paths of one kind inside the link
    Texts,              \* what a file may contain
    DeletePolicy,       \* settings.deletePolicy of this vault
    DeleteReconcileMax, \* settings.deleteReconcileMax; 0: half of the baseline, at least 5
    MaxEvents, FewEvents \* exploration bounds: acts of the user, of the network and of the other
                        \* devices, for settled notes and for the other initial states

ASSUME FullSyncAssumption ==
    /\ NoText \notin Texts
    /\ DeletePolicy \in {"archive", "propagate-delete", "ignore-delete"}
    /\ DeleteReconcileMax \in Nat /\ MaxEvents \in Nat /\ FewEvents \in 0..MaxEvents

VARIABLES
    space,     \* "notes", "assets", or "readonly": a shared space this member only reads
    root,      \* settings: the folder the link is mapped to
    vault,     \* the file of each path: text and modification time
    copy,      \* the remote copy in the conflict folder
    local,     \* the document of each path in the local replica
    remote,    \* and in the remote database
    versions,  \* texts in the version history
    manifest,  \* _local/manifest: the baseline of the last synchronisation
    queue,     \* _local/delete-modify
    unread,    \* changes LocalApplier has not applied (its checkpoint survives a restart)
    pending,   \* changes of the user the watcher has noticed
    phase,     \* "off", "starting", "on"
    sync,      \* the reconciliation in progress
    clock,     \* wall clock; also numbers the revisions
    events,    \* bounded
    gone,      \* history: paths whose file the user removed
    had,       \* history: texts each file has had
    owed       \* history: removals made while off that a baseline documents

vaultVars == <<vault, copy>>
dbVars    == <<local, remote, versions, queue, unread>>
history   == <<gone, had, owed>>
vars == <<space, root, vaultVars, dbVars, manifest, pending, phase, sync, clock, events, history>>

NoFile  == [text |-> NoText, at |-> 0]
NoEntry == [rev |-> 0, text |-> NoText, at |-> 0]
NoBaseline == [root |-> 0, entry |-> [p \in Paths |-> NoEntry]]
Idle == [dir |-> "none", step |-> "idle", todo |-> {}, base |-> NoBaseline]

ReadOnly == space = "readonly"
MoreEvents == events < MaxEvents
Notes == space # "assets"
Files == {p \in Paths : vault[p] # NoFile}
Doc(p) == Winner(local[p])

TypeOK ==
    /\ space \in {"notes", "assets", "readonly"} /\ root \in 1..2
    /\ vault \in [Paths -> [text : Texts \cup {NoText}, at : Nat]]
    /\ copy \in [Paths -> Texts \cup {NoText}]
    /\ \A p \in Paths : local[p] \subseteq Rev(Texts) /\ remote[p] \subseteq Rev(Texts)
    /\ versions \in [Paths -> SUBSET Texts]
    /\ manifest.root \in 0..2 /\ DOMAIN manifest.entry = Paths
    /\ queue \subseteq Paths /\ unread \subseteq Paths /\ pending \subseteq Paths
    /\ phase \in {"off", "starting", "on"}
    /\ sync.dir \in {"none", "start", "both", "up", "down"}
    /\ sync.step \in {"idle", "upload", "pull", "compare", "tombstone", "push", "download", "record"}
    /\ sync.todo \subseteq Paths
    /\ gone \subseteq Paths /\ had \in [Paths -> SUBSET Texts]
    /\ owed \in [Paths -> {"no", "yes", "troubled", "retry"}]

-----------------------------------------------------------------------------
(* Effects shared by the handlers.                                          *)

\* About to be tombstoned by a comparison that saw no file.
Condemned(p) == sync.step = "tombstone" /\ p \in sync.todo

\* After any step that changes the vault other than by the user's removal.
FilesWritten ==
    /\ had' = [p \in Paths |-> had[p] \cup ({vault'[p].text} \ {NoText})]
    /\ gone' = {p \in gone : vault'[p] = NoFile \/ Condemned(p)}
    /\ owed' = [p \in Paths |-> IF vault'[p] = NoFile THEN owed[p] ELSE "no"]

NoFileWritten == UNCHANGED <<vault, history>>

\* Every change of the local database reaches the feed.
Changed(paths) == unread' = unread \cup paths

\* Uploader.modifiedAfterTombstone
ModifiedAfterTombstone(file, tomb) == file.text # tomb.text \/ file.at > tomb.at

\* Uploader.uploadPath: what it answers for a file over a document.
UploadResult(file, doc) ==
    IF file = NoFile THEN "skipped-missing"
    ELSE IF IsDeleted(doc) /\ ~ModifiedAfterTombstone(file, Winner(doc)) THEN "skipped-deleted"
    ELSE IF IsLive(doc) /\ Winner(doc).text = file.text THEN "skipped-same"
    ELSE "uploaded"

Uploaded(file, doc, id) ==
    IF UploadResult(file, doc) = "uploaded" THEN WithText(doc, id, file.text, TRUE) ELSE doc

\* Uploader.preserveInterveningNote / preserveInterveningAsset
Intervenes(file, doc) ==
    /\ UploadResult(file, doc) = "uploaded"
    /\ IsLive(doc) /\ ~Winner(doc).mine

\* Faulty KeptByUpload: the text put over is not looked at.
KeptOwnOnly(file, doc) ==
    IF ~Notes \/ UploadResult(file, doc) # "uploaded" THEN {} ELSE {file.text}

\* The texts an upload adds to the version history (assets have none).
KeptByUpload(file, doc) ==
    IF ~Notes \/ UploadResult(file, doc) # "uploaded" THEN {}
    ELSE {file.text} \cup (IF Intervenes(file, doc) THEN {Winner(doc).text} ELSE {})

\* Uploader.tombstonePath with tombstoneConflictLeaves.
Tombstoned(doc, id) ==
    IF IsLive(doc)
    THEN WithoutLeaves(WithTombstone(doc, id, TRUE), Conflicts(doc))
    ELSE doc
KeptByTombstone(doc) ==
    IF Notes /\ IsLive(doc) THEN {r.text : r \in Present(doc)} \ {NoText} ELSE {}

Upload(p) ==
    LET file == vault[p]  doc == local[p] IN
    /\ local' = [local EXCEPT ![p] = Uploaded(file, doc, clock + 1)]
    /\ versions' = [versions EXCEPT ![p] = @ \cup KeptByUpload(file, doc)]
    /\ copy' = IF ~Notes /\ Intervenes(file, doc)
               THEN [copy EXCEPT ![p] = Winner(doc).text] ELSE copy
    /\ IF local' = local THEN UNCHANGED <<clock, unread>> ELSE clock' = clock + 1 /\ Changed({p})

Tombstone(p) ==
    /\ local' = [local EXCEPT ![p] = Tombstoned(local[p], clock + 1)]
    /\ versions' = [versions EXCEPT ![p] = @ \cup KeptByTombstone(local[p])]
    /\ IF local' = local THEN UNCHANGED <<clock, unread>> ELSE clock' = clock + 1 /\ Changed({p})

-----------------------------------------------------------------------------
(* MirrorApplier: a document onto the vault.                                *)

IsPending(p) == p \in pending /\ ~ReadOnly
DropCopy(p) == copy' = [copy EXCEPT ![p] = NoText]
WriteFile(p, text) == vault' = [vault EXCEPT ![p] = [text |-> text, at |-> clock + 1]]

\* ConflictManager.materialize / preserveRemoteAsset: the first leaf that
\* differs from the file goes to the conflict folder; leaves that all equal
\* the file are collapsed (notes) or shown anyway (assets).
Preserve(p, live) ==
    LET differ == {r \in Present(local[p]) : r.text # live}
        shown  == IF Doc(p) \in differ THEN {Doc(p)} ELSE differ
    IN \/ /\ shown # {} /\ UNCHANGED local
          /\ \E r \in shown : copy' = [copy EXCEPT ![p] = r.text]
       \/ /\ shown = {} /\ Notes
          /\ local' = [local EXCEPT ![p] = WithoutLeaves(@, Conflicts(@))]
          /\ DropCopy(p)
       \/ /\ shown = {} /\ ~Notes /\ UNCHANGED local
          /\ copy' = [copy EXCEPT ![p] = Doc(p).text]

ApplyDeletion(p) ==
    /\ IsDeleted(local[p]) /\ UNCHANGED local
    /\ \/ /\ Doc(p).mine \/ (DeletePolicy = "ignore-delete" /\ ~IsPending(p))
          /\ UNCHANGED <<vault, copy, queue>>
       \/ /\ ~Doc(p).mine /\ IsPending(p)
          /\ queue' = queue \cup {p} /\ UNCHANGED <<vault, copy>>
       \/ /\ ~Doc(p).mine /\ ~IsPending(p) /\ DeletePolicy # "ignore-delete"
          /\ vault' = [vault EXCEPT ![p] = NoFile] /\ DropCopy(p) /\ UNCHANGED queue

InConflict(p) == Conflicts(local[p]) # {} /\ (Notes \/ ~ReadOnly)
\* A note that equals its document is settled before anything else is asked;
\* an attachment only once it is neither pending nor in conflict.
Same(p) == vault[p].text = Doc(p).text /\ ~InConflict(p) /\ (Notes \/ ~IsPending(p))

ApplyLive(p, restoreMissing) ==
    /\ IsLive(local[p]) /\ UNCHANGED queue
    /\ \/ Same(p) /\ DropCopy(p) /\ UNCHANGED <<vault, local>>
       \/ /\ ~Same(p) /\ IsPending(p) /\ UNCHANGED vault
          /\ \/ Doc(p).mine /\ UNCHANGED <<copy, local>>
             \/ ~Doc(p).mine /\ Preserve(p, vault[p].text)
       \/ /\ ~Same(p) /\ ~IsPending(p) /\ InConflict(p)
          /\ IF Notes /\ vault[p] = NoFile
             THEN WriteFile(p, Doc(p).text) ELSE UNCHANGED vault
          /\ Preserve(p, vault'[p].text)
       \/ /\ ~Same(p) /\ ~IsPending(p) /\ ~InConflict(p) /\ UNCHANGED local
          /\ IF Doc(p).mine /\ ~(restoreMissing /\ vault[p] = NoFile)
             THEN UNCHANGED <<vault, copy>>
             ELSE WriteFile(p, Doc(p).text) /\ DropCopy(p)

Apply(p, restoreMissing) ==
    /\ ApplyDeletion(p) \/ ApplyLive(p, restoreMissing)
    /\ FilesWritten
    /\ clock' = IF vault' = vault THEN clock ELSE clock + 1

-----------------------------------------------------------------------------
(* The user.  Only while the link is on does the watcher hear of a change;  *)
(* removals and renames are handled as they are heard, edits wait.          *)

Heard == phase = "on"

Edit(p, text) ==
    /\ MoreEvents /\ text # vault[p].text
    /\ WriteFile(p, text) /\ FilesWritten
    /\ pending' = IF Heard THEN pending \cup {p} ELSE pending
    /\ clock' = clock + 1 /\ events' = events + 1
    /\ UNCHANGED <<space, root, copy, dbVars, manifest, phase, sync>>

\* A removal the link does not hear of, while the baseline knows the file.
Documented(p) == phase = "off" /\ manifest.root = root /\ manifest.entry[p] # NoEntry

Vanish(p) ==
    /\ gone' = (gone \cup {p}) \ {q \in Paths : vault'[q] # NoFile /\ ~Condemned(q)}
    /\ had' = [q \in Paths |-> had[q] \cup ({vault'[q].text} \ {NoText})]
    /\ owed' = [q \in Paths |-> IF vault'[q] # NoFile THEN "no"
                                ELSE IF q = p /\ Documented(p) /\ ~ReadOnly THEN "yes" ELSE owed[q]]

RemoveFile(p) ==
    /\ MoreEvents /\ vault[p] # NoFile
    /\ vault' = [vault EXCEPT ![p] = NoFile] /\ Vanish(p)
    /\ \/ Heard /\ ~ReadOnly /\ Tombstone(p) /\ UNCHANGED pending
       \/ Heard /\ ReadOnly /\ pending' = pending \cup {p} /\ UNCHANGED <<local, versions, clock, unread>>
       \/ ~Heard /\ UNCHANGED <<local, versions, clock, unread, pending>>
    /\ events' = events + 1
    /\ UNCHANGED <<space, root, copy, remote, manifest, queue, phase, sync>>

\* A rename keeps the modification time: the old path is tombstoned, the new
\* one uploaded.
Rename(p, q) ==
    /\ MoreEvents /\ vault[p] # NoFile /\ vault[q] = NoFile
    /\ vault' = [vault EXCEPT ![p] = NoFile, ![q] = vault[p]] /\ Vanish(p)
    /\ \/ /\ Heard /\ ~ReadOnly
          /\ local' = [local EXCEPT ![p] = Tombstoned(@, clock + 1),
                                    ![q] = Uploaded(vault[p], @, clock + 2)]
          /\ versions' = [versions EXCEPT ![p] = @ \cup KeptByTombstone(local[p]),
                                          ![q] = @ \cup KeptByUpload(vault[p], local[q])]
          /\ copy' = IF ~Notes /\ Intervenes(vault[p], local[q])
                     THEN [copy EXCEPT ![q] = Doc(q).text] ELSE copy
          /\ clock' = clock + 2 /\ Changed({p, q}) /\ UNCHANGED pending
       \/ Heard /\ ReadOnly /\ pending' = pending \cup {p, q} /\ UNCHANGED <<local, versions, copy, clock, unread>>
       \/ ~Heard /\ UNCHANGED <<local, versions, copy, clock, unread, pending>>
    /\ events' = events + 1
    /\ UNCHANGED <<space, root, remote, manifest, queue, phase, sync>>

\* The link is mapped to another, still empty folder.
Remap ==
    /\ phase = "off" /\ root = 1 /\ MoreEvents
    /\ root' = 2 /\ events' = events + 1
    /\ vault' = [p \in Paths |-> NoFile] /\ copy' = [p \in Paths |-> NoText]
    /\ gone' = {} /\ owed' = [p \in Paths |-> "no"] /\ UNCHANGED had
    /\ UNCHANGED <<space, dbVars, manifest, pending, phase, sync, clock>>

\* The debounce ends: the edit is uploaded; in a read-only space the file goes
\* back to what the database says.
Flush(p) ==
    /\ p \in pending /\ pending' = pending \ {p}
    /\ \/ ~ReadOnly /\ Upload(p) /\ NoFileWritten
       \/ /\ ReadOnly
          /\ IF IsLive(local[p]) THEN WriteFile(p, Doc(p).text)
             ELSE vault' = [vault EXCEPT ![p] = NoFile]
          /\ clock' = IF vault' = vault THEN clock ELSE clock + 1
          /\ FilesWritten /\ UNCHANGED <<local, versions, copy, unread>>
    /\ UNCHANGED <<space, root, remote, manifest, queue, phase, sync, events>>

Feed(p) ==
    /\ phase = "on" /\ p \in unread
    /\ Apply(p, FALSE)
    /\ unread' = IF local' = local THEN unread \ {p} ELSE unread
    /\ UNCHANGED <<space, root, remote, versions, manifest, pending, phase, sync, events>>

-----------------------------------------------------------------------------
(* The other devices, and live replication once the link is on.             *)

RemoteWrites(p, new) ==
    /\ MoreEvents /\ events' = events + 1
    /\ remote' = [remote EXCEPT ![p] = new]
    /\ clock' = clock + 1
    /\ UNCHANGED <<space, root, vaultVars, local, versions, queue, unread, manifest, pending, phase, sync,
                   history>>

\* The hash of a revision of theirs may sort before or after one of ours.
RemoteEdit(p, text, id) == text # Winner(remote[p]).text /\ RemoteWrites(p, WithText(remote[p], id, text, FALSE))
RemoteDelete(p) == IsLive(remote[p]) /\ RemoteWrites(p, WithTombstone(remote[p], clock + 1, FALSE))

Received == {p \in Paths : ~(remote[p] \subseteq local[p])}
PullAll ==
    /\ local' = [p \in Paths |-> local[p] \cup remote[p]]
    /\ Changed(Received)
PushAll == remote' = [p \in Paths |-> local[p] \cup remote[p]]

\* One exchange; a member's writes to a read-only space are denied by the server.
Replicate ==
    /\ phase = "on" /\ local # remote
    /\ PullAll
    /\ IF ReadOnly THEN Received # {} /\ UNCHANGED remote ELSE PushAll
    /\ UNCHANGED <<space, root, vaultVars, versions, queue, manifest, pending, phase, sync, clock, events, history>>

-----------------------------------------------------------------------------
(* FullSync.run and FullSync.runStartup.                                    *)

FirstStep(dir) == IF dir = "down" THEN "pull" ELSE "upload"
StepAfter(dir, step) ==
    CASE step = "upload"    -> IF dir = "up" THEN "compare" ELSE "pull"
      [] step = "pull"      -> IF dir = "down" THEN "download" ELSE "compare"
      [] step = "compare"   -> "tombstone"
      [] step = "tombstone" -> "push"
      [] step = "push"      -> IF dir = "both" THEN "download" ELSE "record"
      [] step = "download"  -> IF dir = "down" THEN "idle" ELSE "record"
\* Where the catch around pull, reconcile and push continues.
StepAfterFailure(dir) == IF dir \in {"both", "down"} THEN "download" ELSE "record"

\* A download goes through the documents one by one.
Goto(step) ==
    sync' = [sync EXCEPT !.step = step,
                         !.todo = IF step = "download" THEN {p \in Paths : Present(local'[p]) # {}} ELSE {}]

Begin(dir) ==
    /\ sync = Idle
    /\ \/ dir = "start" /\ phase = "off" /\ phase' = "starting" /\ UNCHANGED events
       \/ dir # "start" /\ phase = "on" /\ MoreEvents /\ events' = events + 1 /\ UNCHANGED phase
    /\ sync' = [dir |-> dir, step |-> FirstStep(dir), base |-> manifest,
                todo |-> IF dir = "down" \/ ReadOnly THEN {} ELSE Files]
    /\ UNCHANGED <<space, root, vaultVars, dbVars, manifest, pending, clock, history>>

Usable(base) == base.root = root
StatMatches(p) ==
    Usable(sync.base) /\ sync.base.entry[p] # NoEntry /\ sync.base.entry[p].at = vault[p].at

\* A step is reached when the one before it has nothing left to do.
Reached(step) ==
    \/ sync.step = step
    \/ sync.step \in {"upload", "tombstone", "download"} /\ sync.todo = {}
       /\ StepAfter(sync.dir, sync.step) = step

Done(p) == sync' = [sync EXCEPT !.todo = @ \ {p}]

\* One file of the upload loop; a file a tombstone refuses has the deletion
\* applied to it again (applyPendingDeletion).
UploadNext(p) ==
    /\ sync.step = "upload" /\ p \in sync.todo /\ Done(p)
    /\ \/ StatMatches(p) /\ UNCHANGED <<vaultVars, local, versions, queue, unread, clock, history>>
       \/ /\ ~StatMatches(p) /\ UploadResult(vault[p], local[p]) # "skipped-deleted"
          /\ Upload(p) /\ NoFileWritten /\ UNCHANGED queue
       \/ /\ ~StatMatches(p) /\ UploadResult(vault[p], local[p]) = "skipped-deleted"
          /\ ApplyDeletion(p) /\ FilesWritten /\ UNCHANGED <<versions, unread, clock>>
    /\ UNCHANGED <<space, root, remote, manifest, pending, phase, events>>

Pull ==
    /\ Reached("pull")
    /\ PullAll /\ Goto(StepAfter(sync.dir, "pull"))
    /\ UNCHANGED <<space, root, vaultVars, remote, versions, queue, manifest, pending, phase, clock, events, history>>

\* The network fails: the rest of the exchange is given up, the end of the
\* synchronisation is not.
Trouble ==
    /\ (Reached("pull") \/ Reached("push")) /\ MoreEvents /\ events' = events + 1
    /\ UNCHANGED local /\ Goto(StepAfterFailure(sync.dir))
    /\ owed' = [p \in Paths |-> IF owed[p] # "no" THEN "troubled" ELSE "no"]
    /\ UNCHANGED <<space, root, vaultVars, remote, versions, queue, unread, manifest, pending, phase, clock,
                   gone, had>>

\* Faulty Compares: the folder of the baseline is not compared.
ComparesAnyRoot == ~ReadOnly

\* The guards of reconcileDeletions.
Compares == ~ReadOnly /\ Usable(sync.base)

\* selectManifestOrphans and selectDeleteModifyConflicts: a document of the
\* baseline without a file is deleted when it is still the one the baseline saw.
Unfiled(p) == sync.base.entry[p] # NoEntry /\ vault[p] = NoFile /\ IsLive(local[p])
AsRecorded(p) == sync.base.entry[p].rev = Doc(p).id /\ sync.base.entry[p].text = Doc(p).text
Orphan(p) == Unfiled(p) /\ AsRecorded(p)

\* Faulty Modified: the same text under another revision counts as unchanged.
ModifiedText(p) == Unfiled(p) /\ sync.base.entry[p].text # Doc(p).text

Modified(p) == Unfiled(p) /\ ~AsRecorded(p)

\* exceedsBulkThreshold
ExceedsBulkThreshold(count, size) ==
    IF DeleteReconcileMax > 0 THEN count > DeleteReconcileMax
    ELSE count > 5 /\ count > size \div 2

Compare ==
    LET known   == {p \in Paths : sync.base.entry[p] # NoEntry}
        orphans == {p \in Paths : Orphan(p)}
        spared  == ExceedsBulkThreshold(Cardinality(orphans), Cardinality(known))
    IN /\ Reached("compare")
       /\ sync' = [sync EXCEPT !.step = "tombstone", !.todo = IF Compares /\ ~spared THEN orphans ELSE {}]
       /\ queue' = IF Compares THEN queue \cup {p \in Paths : Modified(p)} ELSE queue
       /\ owed' = [p \in Paths |-> IF Compares /\ spared /\ p \in orphans THEN "no" ELSE owed[p]]
       /\ UNCHANGED <<space, root, vaultVars, local, remote, versions, unread, manifest, pending, phase, clock,
                      events, gone, had>>

TombstoneNext(p) ==
    /\ sync.step = "tombstone" /\ p \in sync.todo /\ Done(p)
    /\ Tombstone(p)
    /\ UNCHANGED <<space, root, vaultVars, remote, queue, manifest, pending, phase, events, history>>

Push ==
    /\ Reached("push")
    /\ IF ReadOnly THEN UNCHANGED remote ELSE PushAll
    /\ UNCHANGED local /\ Goto(StepAfter(sync.dir, "push"))
    /\ UNCHANGED <<space, root, vaultVars, versions, queue, unread, manifest, pending, phase, clock, events, history>>

DownloadNext(p) ==
    /\ sync.step = "download" /\ p \in sync.todo /\ Done(p)
    /\ Apply(p, TRUE)
    /\ Changed(IF local' = local THEN {} ELSE {p})
    /\ UNCHANGED <<space, root, remote, versions, manifest, pending, phase, events>>

\* A download alone leaves the baseline as it is.
EndDown ==
    /\ Reached("idle") /\ sync.dir = "down" /\ sync' = Idle
    /\ UNCHANGED <<space, root, vaultVars, dbVars, manifest, pending, phase, clock, events, history>>

\* verifiedEntry: only what the vault and the database agree on is recorded.
VerifiedEntry(p) ==
    IF vault[p] # NoFile /\ IsLive(local[p]) /\ Conflicts(local[p]) = {} /\ Doc(p).text = vault[p].text
    THEN [rev |-> Doc(p).id, text |-> Doc(p).text, at |-> vault[p].at]
    ELSE NoEntry

\* writeManifestSnapshot; after it the watcher, the applier and replication start.
Record ==
    /\ Reached("record")
    /\ manifest' = [root |-> root, entry |-> [p \in Paths |-> VerifiedEntry(p)]]
    /\ sync' = Idle /\ phase' = "on"
    /\ owed' = [p \in Paths |-> IF owed[p] = "troubled" THEN "retry" ELSE "no"]
    /\ UNCHANGED <<space, root, vaultVars, dbVars, pending, clock, events, gone, had>>

\* Unloading, a settings change, or the app being killed, at any point.
Stop ==
    /\ phase # "off" /\ MoreEvents /\ events' = events + 1
    /\ phase' = "off" /\ sync' = Idle /\ pending' = {}
    /\ UNCHANGED <<space, root, vaultVars, dbVars, manifest, clock, history>>

-----------------------------------------------------------------------------
(* The link starts settled after an earlier session, or for the first time. *)

FirstRev(text) == Child(NoRev, 1, text, "live", FALSE, 0)
Settled ==
    \E text \in [Paths -> Texts \cup {NoText}] :
        /\ vault = [p \in Paths |-> IF text[p] = NoText THEN NoFile ELSE [text |-> text[p], at |-> 1]]
        /\ local = [p \in Paths |-> IF text[p] = NoText THEN {} ELSE {FirstRev(text[p])}]
        /\ remote = local
        /\ manifest = [root |-> 1, entry |-> [p \in Paths |->
              IF text[p] = NoText THEN NoEntry ELSE [rev |-> FirstRev(text[p]).id, text |-> text[p], at |-> 1]]]
Fresh ==
    \E mine, theirs \in [Paths -> Texts \cup {NoText}] :
        /\ vault = [p \in Paths |-> IF mine[p] = NoText THEN NoFile ELSE [text |-> mine[p], at |-> 1]]
        /\ local = [p \in Paths |-> {}]
        /\ remote = [p \in Paths |-> IF theirs[p] = NoText THEN {} ELSE {FirstRev(theirs[p])}]
        /\ manifest = NoBaseline

Init ==
    /\ space \in {"notes", "assets", "readonly"} /\ root = 1
    /\ Settled \/ Fresh
    /\ copy = [p \in Paths |-> NoText] /\ versions = [p \in Paths |-> {}]
    /\ queue = {} /\ unread = {} /\ pending = {}
    /\ phase = "off" /\ sync = Idle /\ clock = 1
    /\ events = IF space = "notes" /\ manifest.root = 1 THEN 0 ELSE MaxEvents - FewEvents
    /\ gone = {} /\ had = [p \in Paths |-> {vault[p].text} \ {NoText}]
    /\ owed = [p \in Paths |-> "no"]

Next ==
    \/ \E p \in Paths :
          \/ \E text \in Texts : Edit(p, text)
          \/ RemoveFile(p)
          \/ \E q \in Paths : Rename(p, q)
          \/ Flush(p) \/ Feed(p)
          \/ \E text \in Texts, id \in {clock + 1, -(clock + 1)} : RemoteEdit(p, text, id)
          \/ RemoteDelete(p)
          \/ UploadNext(p) \/ TombstoneNext(p) \/ DownloadNext(p)
    \/ Remap \/ Replicate
    \/ \E dir \in {"start", "both", "up", "down"} : Begin(dir)
    \/ Pull \/ Trouble \/ Compare \/ Push \/ EndDown \/ Record \/ Stop

Spec == Init /\ [][Next]_vars

-----------------------------------------------------------------------------
(* Properties.                                                              *)

\* Comparing the vault with the baseline deletes only what the user removed
\* from this vault, never a file that was simply not there yet, or not in
\* this folder; and what it deletes at a start is a text this vault has shown.
ReconcileDeletesOnlyRemoved ==
    [][\A p \in Paths :
          Condemned(p) /\ sync' = [sync EXCEPT !.todo = @ \ {p}] /\ IsLive(local[p])
              => /\ p \in gone
                 /\ sync.dir = "start" => Doc(p).text \in had[p]]_vars

\* A removal made while the link was off, of a file the baseline knows, is
\* sent or offered to the user once a start has run to its end without
\* network trouble and below the threshold for bulk deletions.
OfflineRemovalSettled ==
    [][phase = "starting" /\ phase' = "on" =>
          \A p \in Paths : owed[p] = "yes" => IsDeleted(local[p]) \/ p \in queue]_vars

\* The state is well formed, and a text another device wrote and this device has put
\* over, deleted or collapsed is in the version history (or still there as another
\* revision).
OthersTextKept ==
    /\ TypeOK
    /\ Notes =>
        \A p \in Paths : \A r \in local[p] :
            /\ r.state = "live" /\ ~r.mine
            /\ \E c \in local[p] : c.mine /\ c.anc = r.anc \cup {r.id}
            => \/ r.text \in versions[p]
               \/ \E s \in local[p] : s.id # r.id /\ s.text = r.text

\* A start makes the database agree with the vault about removals, no more and no less
\* (FullSync.ts reconcileDeletions).
RemovalsReconciled == ReconcileDeletesOnlyRemoved /\ OfflineRemovalSettled
=============================================================================
