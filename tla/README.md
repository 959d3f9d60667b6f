# TLA+ verification of CoVault

CoVault is an Obsidian plugin that keeps the vaults of a classroom (a teacher, the *manager*, and students,
the *members*) in step through CouchDB: every member has a personal database mirrored to the teacher, shared
spaces have a database of their own, and notes can be edited together through a Hocuspocus (Yjs) server.
This directory holds TLA+ models of it, their TLC configurations and TLAPS proofs. Paths below are relative to
the repository.

## 1. The system

| Component | State it keeps | Operations | Talks to |
|---|---|---|---|
| `LocalWatcher`, `Uploader` (`src/core/sync`) | debounce timers, upload slots, folder moves | file events, echo check, upload with compare-and-swap retries, tombstone, purge | vault events; local PouchDB; `MirrorContext` |
| `MirrorContext`, `RemoteApplyGuard` | pending counts, structural suppressions, echo marks, `lastSeq` | mark/clear pending, suppress, CAS file writes | shared by watcher and applier |
| `LocalApplier`, `MirrorApplier`, `ConflictManager` | serial queue, stall flag, conflict count and copies | apply note/asset/purge/deletion, materialize, collapse and resolve conflicts | changes feed of the local PouchDB; vault |
| `VersionStore`, `RestoreManager`, delete/modify and purge queues | version files, `_local` documents | snapshot, restore, revive, undo purge | local PouchDB; vault |
| `FullSync`, `LinkManifest` | baseline of the last known state | startup replication, download, upload, offline-deletion reconciliation | all of the above |
| `MirrorSync` | live handle, chain of one-shot replications, paused/stopped flags | start, stop, pause, resume, push/pull on request, fall back to live | PouchDB replication |
| `ManagerMode`, `DbUpdatesWatcher` | one watcher for all links, safety timer | `_db_updates` loop, debounced pulls, fallback | CouchDB; `MirrorSync`s |
| `ModeLifecycle`, `MemberMode`, `AsyncLifecycle` | chain of requests, links, reconciliation flags | replace/stop mode, rebuild links when the shares document changes | plugin entry, applier of the personal link |
| `CoreServices`, settings | settings and checkpoints in `data.json` | throttled save | everything |
| `RealtimeManager`, editor strategies | sessions per file, presence, snapshots, retry timers | open, bind, seed, end, dispose | Hocuspocus; vault |
| Hocuspocus server (`server/hocuspocus`) | documents, control watchers, expiries | load, seed, store, authenticate, close | CouchDB |
| `MemberController`, `DeploymentController`, `CouchAdmin`, invitations | accounts, databases, security and policy documents | provision, rotate, revoke, deploy, withdraw | CouchDB |
| Group requests, participants, plugin deployment | request, designation and deployment documents | propose, approve, name, install | shares and control documents |
| Classroom (lessons, assignments, messages, routines, feedback) | documents by type | create, submit, grade, tick, chat | shared databases |
| UI, settings tab, translations, build scripts | presentation | – | – |

What is hard here: everything runs in one JavaScript thread, but every `await` lets timers, file events,
database changes and other promises in. The applier and the uploader react to each other's effects; the
revision a handler decided on may be superseded before it writes; modes and links are stopped while they are
being started; a crash may come between any two writes; other devices write concurrently, and CouchDB resolves
concurrent revisions by its own rule. `PROJECT.json` lists the places ("hazards") with their lines.

### What makes each part correct

- *Watching, uploading, applying*: no text of the user and no text of another device disappears from vault,
  database, history and conflict copies together; deletions are neither lost nor applied to unsaved edits;
  the two directions do not feed each other; the badge counts the conflicts there are.
- *Checkpoint*: no restart skips a change.
- *Modes and links*: a stopped mode is quiet, the links follow the shares document.
- *Transport*: a change reaches the other side eventually, in live and in event-driven operation; a stopped
  link does not replicate.
- *Startup reconciliation*: a note that was never here is not taken for a deleted one, a removed one is settled.
- *Restoring*: no operation takes the last copy of a text.
- *Real-time*: no word or scene stands twice, no snapshot covers what nobody merged, a removed participant ends
  up outside and an admitted one inside, renewed tokens bring devices back.
- *Administration*: no database stays open to everybody, what the settings say of the server is true.
- *Classroom and panel*: files and their notices agree, what one person wrote another does not undo, what the
  screen shows is what is stored.

## 2. Modules

Each module says at its head what it models; definitions keep the source's names. An action is what runs
between two awaits of a handler; parts that never touch the same document are composed by a variable (`side` or
`part`) which says which of them a behaviour moves, so that one run checks several of them without multiplying
their states. In such a run a part that does not move is at rest, and the fairness of its actions asks nothing.

| Module | Models | In the run |
|---|---|---|
| `NoteLink` | one note of one link: watcher, uploader, applier, replication | `note_edits`, `note_deletions`, `note_own_text` |
| `Conflicts` | counting and listing the conflicts of a link | `note_edits` |
| `Checkpoint` | the applier's queue and the checkpoint across failures, crashes, resets | `device` |
| `MemberLinks` | lifecycle of modes, reconciliation, lifecycle of links | `device` |
| `Access` | real-time tokens: minted, replicated, expiring, refused, renewed | `device` |
| `Seeding` | who fills a drawing that several devices open | `device` |
| `LinkTransport` | how one link replicates: live, event-driven, paused, stopped | `spaces` |
| `Designations` | participants named for a file, following it, and the policy made of them | `spaces` |
| `Duplicates` | the clean-up of notes whose text repeats | `spaces` |
| `BulkCopies` | copying files to members | `spaces` |
| `RtDocument` | the document of one note in the real-time server | `rt_document` |
| `VersionedNote` | what that server promises of a note others write, too (abstract) | `rt_document` |
| `RevisionTrees` | a document's revision tree and what replication does to it | `full_sync`, `link_restore` |
| `FullSync` | the start of a link: reconciliation of removals, uploads and downloads | `full_sync` |
| `LinkRestore` | restoring, purging, resolving, versions, sweep, repair | `link_restore` |
| `Administration` | the manager's commands on the server, call by call | `administration` |
| `RtSessions` | admission to the session of a note: documents, devices, server | `rt_sessions` |
| `Lessons`, `Assignments` | lessons, notices and timetables; the life of an assignment | `classroom` |
| `Chat`, `Routines`, `Feedback` | three tabs that read and draw asynchronously | `panel` |
| `LineDiff` | the comparison of two texts shown for a conflict | `panel` |
| `PluginDeploy` | plugins offered to members | `panel` |
| `Invitations` | accounts, invites and their passwords, commands overlapping | `full_sync` |
| `..._proofs` | theorems about the modules named in section 4 | – |
| `MC...` | what a run checks: composition, symmetry | – |

### `NoteLink`

One path is enough for what the properties say: every decision of watcher, uploader and applier is made per
path. Its state is `vault` (file), `events` (not yet delivered), `mark`/`armed` (the echo
guard and its release timer), `suppressed`, `checking` (echo checks computing a hash), `timer`/`pend`
(debounce timer and pending count), `up` (concurrent uploads), `del` (a tombstone being written),
`doc`/`leaves` (winner and conflicting leaves), `unseen`/`feed`/`job` (changes feed, queue, change being
applied) and what is kept aside (`versions`, `copy`, `backup`, `trash`, `held`).

- *Revisions.* A revision is an identity, a text, whether this device made it and whether it is a tombstone.
  A put succeeds on a leaf; if that leaf was not the winner the revision hashes decide which revision wins,
  so both outcomes are possible. Replication of other devices' writes is modelled by the four effects it can
  have on the tree of one note (edit of the winner, deletion, concurrent branch, resolution).
- *Hashes* identify texts, so a hash is its text.
- *Time.* Guard marks and suppressions end by timers. The model assumes what the delays are chosen for: they
  outlast the delivery of the echo they wait for. They may last arbitrarily longer, and then swallow an act of
  the user; `swallowed` records it and the settled-state properties on conflicts and deletions except it (the
  code cannot tell such an act from an echo).
- *Version history.* `snapshot` keeps a text; pruning and the optional switch-off of the history are left to
  the constant `VersionHistory`.
- *History variables* record what the properties talk about; no guard reads them: `typed` (the user's last text),
  `noticed` (what the watcher was told), `owed` (what it had been told when the current change was started),
  `reached` (texts that were in the database), `swallowed` (an act of the user was taken for an echo, or its upload
  failed).

Not in it: notes in a real-time session, read-only shared spaces, attachments, folder events, the limit of three
uploads at once. A path that leaves the link's root or is excluded is ignored by every handler. When a copy for a
conflict is to be made and all leaves say what the file says, the file is read and the leaves are removed in one step
(`Materialize`), though the code awaits between (`ConflictManager.ts:316-354`): what is removed has the text of the
winner, which stays, and a leaf that comes meanwhile is not among those removed.

### `Conflicts`

`conflictIds` is kept by the feed, filled once at the start, and lowered by whoever finds that all leaves say
what the file says. Each of the three looks at one document after the other: reads the leaves, then the file,
then acts; a job is where it stands. Edits are uploaded at once, nothing is deleted, no session is open, a
resolution is one step (its interleavings are in `LinkRestore`). Whether this device made the revision a change brings,
and so skips it (`MirrorApplier.ts:128`), is left open. `BadgeIsTrue` excepts documents the start or
the list judged by leaves that had changed, with the change already applied (`overtaken`): this happens, see
"known races".

### `Checkpoint`

An applier is a record of what the feed handed it, what waits in its queue and what failed. Every start of the
link makes a new applier; a stopped one gets nothing more but drains its queue, as nothing in the code waits
for it. `lastSeq` is the checkpoint in the settings object, `durable` the one on disk. A crash keeps the local
database, falls back to `durable` and empties all queues. A reset of the cache makes a new database; `overrun`
records one made while a stopped applier still had work, which the properties except.

### `MemberLinks`

Every mode ever created is kept, because an old one may still be finishing work. `flags` are MemberMode's
booleans, `rec` says where its `reconcile` stands, `link` is the life of each `MirrorSync`: new, starting,
cancelled (stopped while starting: the start runs to its end and goes no further), on, off. The personal link
is link 1; it brings the shares document, whose versions are numbers. `told` is the checkpoint that tells a
rebuilt personal link which version was already reported. Where both `stop` and the starting loop of
`reconcile` await the same start, the loop continues first: it awaits the start itself while
`MirrorSync.stop` still saves the settings and closes the databases afterwards.

### `LinkTransport`

One `MirrorSync` with the mode around it. `manager` says whether that mode is a `ManagerMode`, whose links may be
event-driven, or a `MemberMode`, whose links are live. Several links of one manager share the watcher and the
safety net but never look at each other, so one link is enough. `life` is the `AsyncLifecycle`, `startup` the
phase of `FullSync.runStartup`, `paused`/`eventDriven`/`authStopped` the flags of `MirrorSync`, `errored` its
status `"error"`, `live` the replication handle of `PouchService`, `timer` the push timer, `queued`/`run` the
promise chain of one-shot replications (repetitions of the same direction are the same, and runs of the chain do
not overlap). `watch`, `since` and `at` are the watcher's loop: the request is on its way, is waiting at the
server, or has failed; `"now"` gets its meaning when the request arrives. `armed` is the interval
`safetyTimer` holds, `stray` an interval it held before it was overwritten, which nothing can clear any more.
Both databases are counts of writes, of which the other side has a prefix. A request may fail, be rejected for
its credentials, or (for the watcher) come back without a sequence; `MaxFaults` counts them together. The
startup is its pull and its push. Not in it: automatic synchronisation switched off, a manual full
synchronisation, what the repair does, denied documents.

### `RtDocument`

One Markdown note's document in the Hocuspocus server (`docLifecycle.js`). `note`, `versions` and `ystate` are
the documents in CouchDB (note, version history, sidecar with the Yjs state), `sqlite` the server's own row,
`doc` the document in memory, `dirty` the pending call of the debouncer, `known` the server's `lastCouchHash`.
`loading` and `storing` say at which `await` `loadDocument` and `storeDocument` stand. A client is `new` until
its first synchronisation, `on`, or `off` with the history it `held` when it lost the connection, which it may
go on editing.

- *Yjs.* A document is a set of inserted items and the set of those deleted again; merging is union. An item is
  a word and a count of its insertions, so the same word inserted independently stands twice (`Twice`).
  `applyTextDiff` keeps the items of what the new text still has and inserts the rest anew (`Converge`). Order
  within the text is abstracted.
- *Hocuspocus* is external: it calls store again after a failure, one store at a time, loads once for all
  clients that wait, and unloads when no client is on and nothing is to be stored.
- *`moved`* stands for the revision check of `putDocWithRev`; `owed` is history: the last file text the server
  has not read.
- *`lost`* is history: the row of SQLite was lost while the sidecar held another document, or the sidecar was not
  found. An emptied note does the former, since its sidecar is not written (`docLifecycle.js:273`).
- *An empty note* counts as read though its text is not brought into the document (`docLifecycle.js:209`): it has no
  text that could be lost.
- *Closing* a note uploads its text if no other client is seen, which is also the case of a client without
  connection; the upload may fail or lose against another write.

`VersionedNote` is the abstract specification which `RtDocument` implements (`PromiseKept`): texts are written past
the server, seen, kept and covered, and the note is deleted or stands.

`sqliteAhead` is written by the code and read by nobody, so the model leaves it out. Not in it: Excalidraw
documents, deletion by members, an undecodable sidecar, authentication.

### `FullSync` and `LinkRestore`, over `RevisionTrees`

A document is the set of its revisions; replication is union, the winner is the same everywhere. A put makes a
revision with an even number; a removal has the odd number after that of the revision it removes, because in the
code two devices that remove the same revision make the same tombstone. In `FullSync`
one call on one path is one step (`NoteLink` takes those calls apart), and what is interleaved is the loops over
the paths and the phases of a start. `LinkRestore` is about one file and the name its second copy gets: every
operation is a sequence of reads and writes with the user, other devices, a second operation or a kill between
any two. The list of recent purges is cut to its newest `MaxPurges` entries, an entry of an attachment has the binary
that is found when it is made, if it can be read and is not above the cap, the tombstone of an attachment has none,
and a purge goes on where the list cannot be written. `Surrendered` names, per step, the texts an operation gives up by
design (the text the user chose to replace) or by a race of the code (`overwritten`: the list of purges is written back
as it was read; `crowdedOut`: that list is full; `relisted`, `onlyAttachments`: attachments have no history);
`NothingVanishes` allows nothing else. Two history variables that no guard reads tell what went before: `dropped`
(entries taken off the list of recent purges or not placed on it) and `swept` (versions that the sweep of old
tombstones gave up, past the retention).

### `Administration`

A command is a list of calls of the server still to be made; a step is one call with the statements that follow
its answer. One member, one request and two commands at once, among them what a restart of the mode starts; one
fault (refused, lost, end of the process) at any point. Requests are made while somebody has an account. A list of
shares is made in one step and put in a later one, in the place of whatever is there, as `putDoc` repeats the same body
after a conflict; with one request the settings are read in one step, though the code awaits the signing of tokens on
the way. A policy is taken by the server in one step and recorded in a later one. Of the history variables, `outdated`
are the members whose list was already wrong when it was put, `unsure` the databases whose record of a policy may be
belied by an answer to come, overtaken or lost. Passwords, tokens, invites and the real-time service account are
abstracted.

### `RtSessions`

One note, in a shared space or one-to-one. The documents (designation, policy, request) reach device and server
on their own ways; a device is a record, every handler ends in `SyncedOpen`. A session ends only after the last
one of the note was torn down, at most two look-ups are under way and are answered in their order; a retry is
tried again when its timer ends (in the code the refusal is over a moment before the timer, armed later, fires,
`RealtimeManager.ts:397-405`); a provider being closed causes no retry of its own (`RealtimeManager.ts:327-334`: it
would evaluate the note once more); the manager's writes do not fail. `misled` is history: a device that was told
something that had changed in between. Strong fairness is assumed of a replication pull and of the answer to a
look-up, which new look-ups and a hidden app can disable again and again but not for ever.

### `Access` and `Seeding`

A token is the moment it expires and the clock ticks only between commands. `passed` and `forgotten` record the
two situations `TokensInOrder` excepts: a command that was overtaken by another between its check and its write,
and an expiry record the sweep of the server deleted while a connection was still loading. Sleeping devices and
lost sockets are left out. In `Seeding` time is discrete: a message takes at most `Hop`, mounting an editor at
most `Mounting`, and the waits are just long enough for them (`Settle = 4`, `Fallback = 9`), which is what the
constants of the code are chosen for; a reopened drawing is another device. `SeededOnce` is about two devices: of
three it is false, see "known races".

### `Designations`

The manager's device: files change places one event at a time, handlers and redeployments run side by side.
`hurried` (a second rename before the handler of the first has written) and `doubted` (a policy built before the
designation had reached the server) are the exceptions, both of them behaviours of the code.

### `Duplicates`, `BulkCopies`, `LineDiff`

Algorithms with the command around them. Texts are all sequences over two letters up to the bound: the search
for repetition is compared with its definition, the comparison of two texts with what a comparison is. The
command's reads, questions and writes interleave with others' writes (`raced`, `disturbed`).

### `Lessons`, `Assignments`, `Routines`, `Chat`, `Feedback`, `PluginDeploy`

Handlers of file events, polls, redraws and saves are tasks that have read something and will write or draw it
later. The history variables that name an exception are `behind` (a handler that threw, or overlapped another of
the same file), `overlapped` and `unsure` (two reloads at once; two saves of one item under way when one
failed) and `strayed` (a file that became active again before the list of another was drawn). One routine and one
day, written from one device; each note of `Feedback` in a database of its own. In `Chat` one message is sent at a
time, and the poll waits for the reads of the one before; the code asks for neither (`ChatSection.ts:81-84,274-284`):
a poll that does not wait only replaces reads that are outdated by it.

### `Invitations`

A command of the manager is a record of where it is and what it holds; nothing serialises two. What decides is what it
read before it waited: `users` is the list of accounts it will admit to the database, taken by `provision` at its start
(`MemberController.ts:129`) and by `refreshAccountAccess` once the account is made or gone; `passed`, history, are the
accounts that came onto the manager's list since. A refused or lost request, and the end of either program, may fall at
every step; the security request that fails takes back a database the command made. A device applies an invite,
stores it, probes, and replaces the password. `admitted`, history, are the devices let in by an account that is on the
manager's list, in memory and stored; what ends it is a new password, the deletion of the account or its name taken off
the list, another device that replaces the password, an answer lost before it is stored, a list written by a command
that read before the account came onto it, and the rollback of the database. One member, with and without secret storage.

## 3. Runs

Every run uses small instances.

| Run | What it asks | Bounds |
|---|---|---|
| `note_edits` | is any text of this or another device lost or hidden around concurrent edits? Does the badge count the conflicts? | 3 texts, 2 uploads at once, 2 saves or 1 save and 1 removal, 1 remote change, retries cut to 2; one note or one attachment in conflict, 2 writes or lists |
| `note_deletions` | are deletions neither lost nor forced, and does everything come to rest? | 2 texts, 1 save or 1 removal, 2 remote changes, failing database |
| `device` | checkpoint, modes, tokens, drawing | 2 changes, 2 failures, 3 starts, 1 reset; 3 links, 2 modes, 2 versions of the shares; 2 commands over 3 moments; 2 devices at a drawing |
| `spaces` | replication, designations, duplicates, copies | 1 write per side, 2 changes of visibility, 1 repair, 1 fault; 2 files, 3 turns; texts of up to 6 letters; 2 files copied twice to 2 members |
| `rt_document` | does a document survive reconnections, foreign writes, faults and crashes, does the server keep its promise (`VersionedNote`), does every edit reach the note? | 2 clients, 2 words, 1 file write, 1 erasure, 2 troubles |
| `full_sync` | does a start delete only what was removed, and settle it? Does a device that was let in stay in? | 2 paths, 2 texts, 3 events; 2 commands, 2 devices, 2 accounts, 4 turns, 1 mishap |
| `link_restore` | does any operation take the last copy? | 3 texts, 2 operations at once, 1 event, a list of 1 purge |
| `administration` | what do overlapping and failing commands leave on the server? | 1 member, 1 request, 3 commands, 1 fault; the slots that commands take are interchangeable (`MCAdministration`) |
| `rt_sessions` | do sessions become what the documents say? | 1 member, 2 events, 2 toggles |
| `classroom` | do notices, timetables and records of work survive overlapping writers? | 2 files, 2 lessons, 2 cells; 1 assignment, 5 acts |
| `panel` | is what is shown what is stored, and is what was typed, ticked or deployed kept? | 1 group besides the class, 4 messages of which 3 fit a page, 2 plugins of 2 files, 3 deployments, 2 items and 2 taps, 2 notes with remarks, texts of up to 3 lines |
| `note_own_text` | a statement of a comment the code does not keep | 1 save, 1 remote change |

*Bounds.* The constants `Max...` and `FewEvents` cap what the environment does, never what the code does. The
constants of the code that are cut are `MaxAttempts` (3 in `Uploader`; with 2, the two other writes of the run
exhaust the retries), `MaxPurges` (entries of the list of purges, 20; with 1, the second purge finds it full), `PAGE`
(messages of the chat list), `MinUnit` (characters of a repeated unit) and `DeleteReconcileMax` (removals a start
settles without asking). Two saves are what it takes for an edit to overlap the upload of the one before it, three
texts for a remote text that differs from both; one remote change can hit every window, since each window is between
two steps of one handler. In `note_deletions` the user acts once (`MaxActs`): the act, the applier's echoes and two
changes of other devices already produce re-creation, conflict and retries. Two modes are all that ever overlap, since
the chain admits a new mode only after the old one was stopped; three starts give a stopped, a crashed and a running
applier at once. In the part `link` of `spaces` one write per side suffices because a link either has it or not; the
one repair and the one fault fall at every point between two changes of visibility. In `rt_document` the two troubles
(connections lost, crashes, losses of SQLite, failing requests) fall in every pair and order; duplication takes two.
Wherever two operations, handlers or commands interleave, two is also the most that share a document at a time.

*Composite properties.* A run is asked at most a dozen questions; properties of one component that belong
together are one definition over named parts (`EditsStand`, `RemovalsSettle`, `TabIsTrue`, `RecordsStand`,
`SettingsStand`, `NamedAreLetIn`, `AdmissionFollowed`, ...), whose first conjunct is often the type invariant.
Parts are broken by mutants of their own where a plausible fault of the code reaches them.

*Symmetry.* Texts, uploads, files and cells are permuted where only invariants and step properties are checked.

*Deadlock.* Checking is off everywhere: once the environment has used up its bounds the system rests, which is
its normal state. What must not block is stated as liveness (`RemovalsSettle`, `EveryChangeTried`,
`SharesFollowed`, `ComesBackRenewed`, `DrawingComesBack`, `CatchesUp`, `EditsReachNote`, `AdmissionFollowed`,
`DeploymentArrives`).

*Fairness.* Weak fairness of the groups of actions a single activity consists of: timers fire, promises settle,
the changes feed delivers, a queue goes on. Nothing is assumed of the user, of other devices, of failures, or
of crashes. Each activity is a promise chain or a timer of the JavaScript runtime, which runs every ready
task. Strong fairness is assumed where another activity can disable a step again: of pulls and look-ups in
`RtSessions`, and of the end of a session in `PluginDeploy` (the member closes the app now and then; a plugin
put off is offered once a session).

### What the violated statement shows

`OwnTextKept`: a change that waits in the applier's queue was captured before this device uploaded a newer
text. Nothing is pending any more, the queued revision is another device's, so it replaces the newer text in
the file. The file then stays behind the database.

### Known races

Behaviours of the code met while modelling, which the properties except by name or which no run states:

- *Editing.* During the echo check of a real edit the edit is not pending yet (`LocalWatcher.ts:92`). An upload
  that fails releases its pending mark (`LocalWatcher.ts:377`). A real deletion within the 5 s of a suppression
  is taken for an echo (`MirrorContext.ts:152`).
- *Conflicts.* The start's count adds back a conflict the feed has already seen resolved, and a collapse by
  old leaves counts down one that is real again (`MirrorSync.ts:448`). Resolving three branches, or one whose
  file is gone, removes a branch that nothing else holds (`ConflictManager.ts:201`); a resolution given up after
  its retries counts as resolved (`RecoveryController.ts:57`).
- *Restoring.* A text of the file that is not uploaded yet goes when a restoration or an answer writes over it
  (`RestoreManager.ts:134`); a revision that arrived after the last read is covered by the plain put
  (`RestoreManager.ts:136`). Two operations that read the list of recent purges write it back without each other's
  change (`localQueue.ts`). The list keeps 20 purges, the next one takes the oldest text off it (`recentPurge.ts:24`).
  An attachment above 512 KiB, or one already tombstoned, is purged for good (`Uploader.ts:245`, `Uploader.ts:306`),
  and a purge goes on when the list cannot be written (`Uploader.ts:316`).
- *Reset.* A cache reset while a stopped applier still works lets it move the new checkpoint
  (`ServerResetController.ts:70`).
- *Transport.* A link paused while it starts goes on to replicate (`MirrorSync.ts:208`); what the watcher
  announces while a link starts is found by the safety net only (`MirrorSync.ts:220`).
- *Real-time.* A failing read of the sidecar counts as none (`docLifecycle.js:190`). A record of the earliest
  expiry is deleted while a connection is loading (`server.js:240`). A drawing is
  seeded twice with a third device: one whose seeder left, or gave way to a newcomer with a smaller id, seeds when
  `SEED_FALLBACK_MS` is over without looking at the ids again, at the moment the newcomer may do so
  (`excalidrawBinding.ts:129-138`). A member who joins while the policy is being
  switched on may stay (`MemberMode.ts:163`).
- *Administration.* Automatic approval restarts the mode inside an approval and approves twice (`main.ts:386`).
  A list of shares computed before another command finished is written after it, again after a conflict
  (`MemberController.ts:286`, `CouchAdmin.ts:283`). A policy is recorded when its answer comes, though another's may
  have been put since (`DeploymentController.ts:143`). A quick
  second rename leaves a designation behind (`ParticipantController.ts:290`); a policy rebuilt before a
  designation has replicated is not rebuilt (`DeploymentController.ts:165`).
- *Classroom and panel.* Overlapping handlers of one file leave its notice behind until the next save
  (`NoticeController.ts`). A first write of a timetable taken for missing replaces what was stored meanwhile.
  Two overlapping reloads leave two lists (`RoutinesView.ts:65`). Text typed while a message is being sent is
  cleared with it (`ChatSection.ts:278`), and text sent twice before the answer stands twice (`ChatSection.ts:274`). A
  note made active again at once shows the remarks of the one between (`FeedbackSection.ts:65`). A note written between
  the clean-up's last look and its write loses that text (`RepairController.ts:207`).
- *Invitations.* A program that ends between the server's new password and its storing shuts the device out
  (`OnboardingController.ts:83`). A device invited while a reissue is under way is shut out by the older list of
  accounts the reissue writes (`MemberController.ts:129`). A provisioning that made the database and is refused takes it
  away with those let in meanwhile (`CouchAdmin.ts:163`). Two commands may find the same name for a new device.

## 4. Proofs

The theorems hold for every value of the constants that the named assumption of the module admits (finite sets,
natural bounds), unless a further hypothesis is named here. Each is of the form: an inductive invariant, checked
by TLC as an invariant of the module's instance first, follows from `Init`, is kept by every action and implies the
property. Properties that a run checks are set in bold; the others are proved only.

| Module | Theorems | Further hypotheses |
|---|---|---|
| `Device_proofs` | `TypeCorrect`, **`CheckpointIsSafe`**, `NothingIsOverlooked`, `StartsAreSafe` (`Checkpoint`); **`StoppedModesAreQuiet`** (`MemberLinks`); **`TokensAreInOrder`** (`Access`) | – |
| `Spaces_proofs` | `TypeCorrect`, **`EventLinksAreWatched`**, **`StopIsQuiet`** (`LinkTransport`); **`NamedOnesAreLetIn`** (`Designations`); **`TheReportIsTrue`** (`BulkCopies`); **`TheTabIsTrue`** (`Chat`); **`NothingStaysOpen`**, `RecordsOfPoliciesStand` (`Administration`) | – |
| `NoteLink_proofs` | `TypeCorrect`, `PendingIsExact`, **`OthersAreKept`**, `WinnersSurface`, `DeletionsAreSettled` | – |
| | `EditsReachHistory`, **`NoticedEditsAreKept`**, **`EditsAreKept`** | `VersionHistory`, `~PutMayFail` |
| | **`TheBadgeIsTrue`** (`Conflicts`) | – |
| `RtDocument_proofs` | **`DeletionIsFinal`**, **`NoWordTwice`** | – |
| | **`ExternalTextsAreKept`**, **`ServerKeepsItsPromise`** (refinement) | `NoteExists` |
| `RevisionTrees_proofs` | lemmas about revision trees for the next three | – |
| `FullSync_proofs` | `TypeCorrect`, **`OthersTextsAreKept`** | – |
| `LinkRestore_proofs` | `RestoreInvariant`, **`NothingIsLost`**, **`SweepSparesRevived`** | – |
| `Classroom_proofs` | **`TheAdmittedStayIn`** (`Invitations`), **`TheFeedbackIsShown`** (`Feedback`), **`TheRecordsStand`** (`Assignments`), **`LessonsKeepTheirCells`** (`Lessons`), **`TheTicksAgree`** (`Routines`) | – |

### The checkpoint

`CheckpointSafe` alone is not inductive: whether the checkpoint may move depends on what the applier did with the
changes before. `IInv` adds `QueueFed` (a queue holds only changes that were handed over), `LiveExists` and, unless
a reset overran a stopped applier, `Orderly`: `OneDatabase`, `BothSafe`, and for every applier that has or may get
work `Accounted`: each change it was ever handed is applied, waiting or failed. `NextIsLowest` is the heart: the
serial queue takes the oldest change, so if nothing failed everything before it is applied, and the checkpoint may
move to it. A crash empties all queues, which is why `Accounted` is stated of working appliers only.
`StartsBeforeUnapplied` follows from `CheckpointIsSafe` and is therefore not asked of the run as well.

### The transport of a link

`EventLinkIsWatched` speaks of a link that runs and a mode that has begun; what turns the watcher on and off
happens before and between. The invariant adds `Phases` (how far mode and link can be apart), `Agreement` (a running
link is event-driven only while its mode is: the fallback changes both in one step), `Watched` (an event-driven mode
of a visible app watches from the start, and has its timer once it has begun) and `Quiet` (what a stop ends at once,
and what at last). `Quiet` with `OffStays` gives `StopIsQuiet`: every path back into the link - a run of the chain,
a timer, an announcement, the end of a repair, the end of a startup - is closed by `started`, by the generation or
by the closed database.

### One note of a link

`Typed` is the type invariant in the parts the actions touch together, strengthened by what a handler has read: the
identity of a revision it holds is below `nextId`, and a change that was delivered has a text that was in the
database. On it rest three invariants.

- `Typed /\ Witnessed /\ Compared` for `OthersStand`: an upload about to put has put another device's text it goes
  by into the history; one that is about to replace a tombstone compared its file with that very tombstone. Both
  speak of the revision that was *read*; that a put on it can only replace the leaf it read is what closes the race
  with replication. `TombstoneStands` needs no hypothesis, `RemoteNeverBuried` is about installations with a history.
- `EditInv == Typed /\ PendingExact /\ Heard /\ Noticed` for the edits of this device. `Heard`: the file's text is
  safe, on its way to the database (`Carried`), or the watcher will still hear of it. `Noticed` says the same of the
  text the watcher noticed, and of what it had noticed when the current change was started (`owed`); for a change
  that was let through it says that nothing was on its way. `PendingExact` is what links the two: a change is let
  through when `pend = 0`, and only with an exact count does this mean that no timer and no upload is under way. The
  hypotheses are needed: `preserveFailedUpload` writes to the history, and an upload that fails releases its mark
  (see "known races").
- `ConflictInv == Typed /\ PendingExact /\ UpToDate /\ Sorted /\ Surfaced /\ Gone` for conflicts and deletions of other
  devices. `UpToDate`: the last change under way shows the document as it is, or there is another to come.
  `Surfaced` and `Gone` say what was done once that last change is applied, or why it was not: an act of the user
  that will change the document again (`Diverging`, `Edited`) or that was taken for an echo.

### The real-time document

- `DeletionIsFinal`: `DeletionIsSeen` says that a store which has read the note is refused by the revision once the
  manager has deleted it.
- `ExternalTextsAreKept`: `KeptInv` adds `Knows` (while a document is loaded or stored, `lastCouchHash` is set), `Owes`
  (an owed text stands in the note and differs from what the server knows, so the next store keeps it first) and
  `Covers` (a store about to put, with nothing written since it read, owes nothing). `NoteExists` is needed: if the
  first text of a note comes while its document is already open, `lastCouchHash` is unset, the comparison is skipped
  (`docLifecycle.js:303`) and the snapshot covers the text; TLC finds this with `NoteExists = FALSE` and three words.
- `NoWordTwice`: a document has a word twice if it is brought to a text with a word which it lacks but a client holds,
  and the client returns. So the invariant `Sound` has to say, of everything that loads, now or later, may insert
  (`Awaited`), that no client holds these words apart (`Basis`): an item which the document lacks is the only one of
  its word and not of an awaited one. It is stated of the document the server has or would restore (`Main`) and of
  the one in the sidecar (`Base`); `Exclusive` says that what the document lacks has one holder, which fails only
  after a crash; `AsStored` says a document that is not dirty is the stored one.
  The proof showed that an earlier form of the property was false beyond the bounds of the run: a note emptied in a
  session leaves the sidecar behind (`docLifecycle.js:273` writes no sidecar for an empty note), and if the row of
  SQLite is lost then, a returning client brings a second copy. `lost` records when a history that clients may hold was
  lost, and the property excepts it.
- `ServerKeepsItsPromise` is the refinement. `VersionedNote` says what the server promises of a note that others write,
  too: it puts its text only when every text written past it was seen or is in the history, and never over a
  deletion. `RtDocument` implements it with `text`, `standing`, `kept` and `unseen` read off the note, the versions
  and `owed`; the steps of loading, storing, retrying, crashing map to a read, a version, a snapshot or a stutter.
  The proof has `Sound` and `KeptInv` for invariants; TLC checks the same property in `rt_document`.

### The start of a link

`RevisionTrees_proofs` says what a revision tree keeps when it grows by a put, by the removals of losing revisions and by
replication, and that a tree with anything to show has exactly one winner. In `FullSync_proofs`, `SyncInv ==
Databases /\ Vault /\ Control`; `Databases` has for each path `Replicas`: the union of both databases is a tree,
made before the clock's time, worded; this device's revisions are all in its own database; and each revision's
parent is where the revision is. `OthersTextsAreKept` is `Saved`, which says of every revision of another device on
which one of this device was put that its text is in the history or in another revision. That a put needs a
history version, and a removal of a losing branch, too, are `preserveInterveningNote` and
`tombstoneConflictLeaves`.

### Restoring, purging, resolving

`RestoreInv == Typed /\ Entries /\ Reading /\ Listing /\ Keeping`. An operation acts on what it read some steps
ago, so the invariant says what of it is still true when it acts. `Typed` has, for each path, that the revisions
of both databases together are one tree made before the clock's time; a document only grows, which is why a
revision once read stays in it. `Reading`: what is to be removed was read of that document and is no removal.
`Entries` and `Listing`: an entry of the list of purges, or of a copy of it that an operation is about to write
back, is of a revision of that document and, of a note, with that text; so two entries of one revision have the same
text, and taking the wrong one off the list takes none away. The list is finite, so that a list below its bound drops
nothing. A purge that is about to remove has its snapshot on the list, unless it was dropped from it (`dropped`) or
could not be written (the operation is marked `"unlisted"`). `Keeping`: what was brought back, and what a
resolution or a version restore found in the file, is in the history, unless the sweep took it out (`swept`); of a
conflict all texts are, or there are two branches that both differ from the file.

- `NothingIsLost` follows step by step: a put hides one revision, a removal hides what it removes
  (`PutAndRemovalsHide` in `RevisionTrees_proofs`), and each text that goes from one place is shown to be in
  another by `RestoreInv`, or is in `Surrendered`. The attempt showed that an earlier `Surrendered` was too small
  beyond the bounds of the run: it did not name the sweep that takes the version of a note just brought back, nor
  a text of the file that is not uploaded yet when an answer or a restoration writes over it. It also showed that
  a version restore backs up the file once, before its retries (`VersionStore.ts:96-109`), where the model had it
  backed up at each.
- `SweepSparesRevived`: a revision that is an ancestor of the winner is no leaf, so the put of the sweep on the
  tombstone it read is refused; an ending of the app in that step puts on the winner, and its put wins.

### The links of a vault and the tokens of real time

`LinksInv` of `Device_proofs` puts the two loops that touch the links of a mode side by side. `OldLinks`, `OldStop` and
`NewStart` say what `reconcile` has made of each link where it is; `StopLinks` says it of `MemberMode.stop`. Between
the two stands `NotAhead`: a stopped mode whose `reconcile` still starts links has a stop under way that is not past
the link being started, so each link that is started late is halted after. `RequestsCounted` gives every request its
mode; `Served` says that all modes but the current one have been stopped. That stop does not get ahead rests on the
order in which two waiters of one start go on, which is a guard of `StopNext` and explained there.

`AccessInv` is about commands that overlap. `ComesRight`: what is not right yet - the token the manager keeps, each of the
two documents - some command still has before it. `HoldsRight`: what a command holds was read from the settings
there still are, and if its revision is no longer the newest, the write that was faster made the document right;
therefore giving up after three attempts does no harm. Both are stated for `~passed`, which only a command that
runs alone sets again. For `ExpiryIsWatched` the server's record has one expiry at most (`OneExpiry`), and `Watched`
speaks of connections that are loading, too. `AccessInv` was checked with three commands at once (7.4 million
states), one more than in the run.

### The badge of the conflict folder

`BadgeInv` of `NoteLink_proofs` follows the feed and the start past each other. `LastReportStands`: the last change
of a document that is still to be applied has its branches as they are, unless another report is to come; so what
the feed looks at last is what there is (`FeedLooksAtWhatIs`). For a document the feed is through with (`FeedDone`),
`CountedNotes` says that it is counted only if it stands in conflict with a branch that differs from the file, and
that it is counted if it does, or the start still has it before it as it is (`StartWillLook`); while the feed has it
in hand, what its handler may take away is put back by that same handler. `CountedAttachments` says the same where no
file is compared. `overtaken` is the exception the property names; without it neither half is kept by the steps of
the start that judge by leaves they read earlier.

### Participants of a space

Two invariants of `Spaces_proofs`, for the two halves of `NamedAreLetIn`. `FollowInv`: a path no handler is busy with
says what the manager last named (`RestingPaths`); a handler of a rename, of which several may be under way, says what
of its two paths is already true (`LeavesNobody`, `TakesAlong`), and two handlers whose paths meet have marked all
their paths `hurried` (`MeetingsAreKnown`), so that of the others the documents are the handler's own. `PolicyInv`:
`HeldPolicyIsTrue` says of each read-only database that its policy, or the one about to be put, is built from the
documents as they are, unless a new one is due: by a timer, by a deployment that has not come to it, or by a handler
that will set the timer (`Due`). At most one deployment holds a policy of it (`OneHolder`), unless it is `doubted`.

### Copies for members

A copy reports only counts; `CopyInv` of `Spaces_proofs` says of what. `Counted` ties the counts of a member to the
files passed so far (`Progress`: all for a member that is done, those before the current one for the one whose turn it
is, none for the others) and says that each of these stands as the policy wants it (`Fits`). It is kept because what a
later file writes takes away none of these: the target chosen is the file's own (`TargetFits`), the names of two files
differ, and a numbered name is taken only if nothing stands there. Assumed is that members are numbered
(`Receivers \subseteq Int`: they have an order) and that there is something to copy, both as in the code's loop.

### The chat tab

`ChatInv` of `Spaces_proofs`. `OneCurrent`: only the last reload can be the current one, and it has the channel and the
limit of the moment (after a room on screen was deleted they may be gone until the next reload, which is due).
`RenderedAs`: the remembered signature is the one of what is rendered on the list on screen, which is why a reload that
finds the same signature, or only appends, leaves the right list. `ReadsTheStore`: unless a change is unread, what the
current reload has read is what is stored, and without such a reload the window of the channel is on screen, but for a
change the signature missed. `WordsAreKept`: what stands in the input and is not in the message under way was typed
since it was taken. Message numbers and the page are naturals (`ChatAssumption`); how many there are does not matter.

### The databases of the server

`AdminInv` of `Spaces_proofs`. `Tended`: a database without a security list is excused, or the task that made it has
its list, or its removal, as the very next call. That it is the maker's is what makes it inductive: a second command
that finds the database there is going to secure it as well, but if refused it leaves it alone, and if the first then
rolls back and a third makes it anew it is the third that tends it. `RecordsTrue`: the policy recorded of a database is
its own, or `unsure` says why it may not be (its answer is still to come, or came after another's policy); and one that
does not exist has none, so that making it anew belies no record but those already in doubt. Both rest on `Shaped`
alone (settings, databases and lists of calls have their parts; the lists are finite because members and requests are,
`AdministrationAssumption`): which calls a list contains does not matter. `RecordsTrue` speaks of all databases,
`RecordedPolicyStands` (in `SettingsStand`) of those the settings call provisioned.

### Invitations, feedback, assignments, timetables, checklists

- `InvitesInv == InviteTypes /\ CommandInOrder /\ DiskFollows /\ LetInAreIn` for `AdmittedStaysIn`. `LetInAreIn`: a
  device let in reaches the database by an account on the manager's lists, in memory and stored, so that neither an
  end of the program nor a command that reads them shuts it out. That a command which read earlier does not either is
  `CommandInOrder`: a command that will write accounts (`HoldsList`) has read every account now on the manager's list,
  or has it in `passed` (`Covers`), and those its list lacks are not admitted any more once it writes. `DiskFollows`
  says when memory and disk of a device agree.
- `FeedbackInv` for `FeedbackIsShown`. At most one list is the latest (`OneLatest`); what it has read so far is what
  the notes it has passed say now (`LatestReads`) - if a remark changed since, the listeners are still to be told and
  will outdate it; and what is drawn while no list is the latest is what the tab is to show (`DrawnStands`).
- `AssignInv` for `RecordsStand`, over `RevisionTrees_proofs`: the copies of one record on all sites together are a
  tree (`Tended`) in which every revision continues the one it is put on, so merging, winning and losing branches
  do not matter to it. `SweepIsExact` says what a cleanup that nothing came between has established: before it
  lists, all sites have the same copies of a record without a definition; then such a record is gone, or listed and
  the same everywhere. `{MaxActs, MaxSends} \subseteq Nat` is all that is assumed.
- `ReadsAreStored` for `PlacementsAccumulate`: whatever a queued placement, a cleanup or the view has read of a
  timetable is of an older revision or has the lessons that are stored. So a put that is not refused replaces exactly
  what it was computed from, and what it leaves out is what its own step left out.
- `RoutinesInv` for `TicksAgree`. `ReadIsStored`: a save that has read and not been outdated read what is stored.
  `Asked`: the saves of an item whose last tap is known stand in one queue, and the last of them, or what is stored,
  is what the tap asked for. `Drawn`: while no change is unheard and no reload is due, the list in the making or on
  screen shows each item as stored, or as the one save of it will leave it (`Pictured`); of several saves of one
  item nothing is said of the picture until but one is left, which is why an item becomes `unsure` when one of two fails.

### Model-checked only

- Liveness: `ComesToRest` (in `RemovalsSettle`), `RemovalsReconciled`, `EveryChangeTried`, `SharesFollowed`,
  `ComesBackRenewed`, `DrawingComesBack`, `CatchesUp`, `EditsReachNote`, `AdmissionFollowed`, `DeploymentArrives`.
  TLAPS reasons neither about fairness nor about `ENABLED`.
- What is computed by recursion over data: `DiffIsExact`, `CollapsesExactly` (comparison and search over sequences).
- The safety properties of the remaining components, for which no inductive invariant is written:
  `NoticeFollowsFile`; of `SettingsStand` the types and `SharesFollowSettings`, which depend on what every list of
  calls still contains (`RecordsOfPoliciesStand` is its other part); and `SeededOnce`, whose invariant would speak of
  the age of every message, and which holds of two devices only.

## 5. Not modelled, and the plan

- *Proofs*: section 4 names what is model-checked only; of it `SharesFollowSettings` would gain most from an
  inductive invariant.
- *Version history*: pruning by age and number, which compares clocks of several devices.
- *Uploads*: the limit of three at once (`withUploadSlot`), attachments.
- *Policy text*: `validatePolicy.ts` generates the source of a function the server runs; what it lets through is
  modelled where it matters (`RtSessions`, `Designations`), the generated text is not.
- *Responses to notices, statistics*: lists and sums of documents without a life cycle.
- *User interface, settings forms, translations, logging and formatting, cryptography of stored secrets, HTTP
  plumbing, build scripts*: they keep no shared state whose interleavings matter, or are calls into libraries.
