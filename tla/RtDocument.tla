----------------------------- MODULE RtDocument -----------------------------
(***************************************************************************)
(* The life of one note's document in the real-time server: loading and    *)
(* seeding it, storing and snapshotting it, unloading it (docLifecycle.js, *)
(* called from server.js), against clients that lose their connection and  *)
(* come back with the history they hold, against files synchronised past   *)
(* the server, deletion by the manager, failing requests and crashes.      *)
(*                                                                         *)
(* A text is a set of words, each typed once.  A Yjs document is a set of  *)
(* inserted items and the set of those deleted again; merging is union.    *)
(* Inserting a word that was inserted before makes a new item, and if both *)
(* survive the word stands in the note twice.                              *)
(***************************************************************************)
EXTENDS Integers, FiniteSets, FiniteSetsExt

CONSTANTS
    Clients,
    MaxWords,     \* words there are; the note starts with the first
    NoteExists,   \* whether there is a note at the beginning
    MaxFiles,     \* writes of the note by file synchronisation
    MaxErasures,  \* words erased in a session
    MaxTroubles   \* connections lost, crashes of the server, losses of its SQLite file and
                  \* failing requests to CouchDB, together

ASSUME RtDocumentAssumption ==
    /\ {MaxFiles, MaxErasures, MaxTroubles} \subseteq Nat
    /\ MaxWords \in Nat \ {0} /\ NoteExists \in BOOLEAN

Words == 1..MaxWords
None == {0}                                    \* no text
Texts == (SUBSET Words) \cup {None}
Empty == [ins |-> {}, del |-> {}]
NoDoc == [ins |-> {}, del |-> {<<0, 0>>}]      \* no document at all

VARIABLES
    note,      \* the note document in CouchDB
    versions,  \* texts in the version history
    ystate,    \* the sidecar document with the Yjs state
    sqlite,    \* the row in SQLite
    doc,       \* the document in the server's memory
    loading,   \* where loadDocument is, and the note it has read
    storing,   \* where storeDocument is, and the text it took
    dirty,     \* the debouncer holds a pending store
    moved,     \* somebody wrote the note after storeDocument read it
    known,     \* lastCouchHash
    session,   \* of each client: none, new (nothing received yet), on, off
    held,      \* the document a disconnected client holds
    typed,     \* words there have been
    owed,      \* the file text that the server has not seen while loading (history)
    lost,      \* a history was lost that clients may hold: the row of SQLite was lost while the
               \* sidecar held another, or the sidecar was not found (history)
    files, erasures, drops, crashes, losses, faults   \* bounds

couchVars == <<note, versions, ystate>>
serverVars == <<sqlite, doc, loading, storing, dirty, moved, known>>
clientVars == <<session, held, typed>>
bounds == <<files, erasures, drops, crashes, losses, faults>>
vars == <<couchVars, serverVars, clientVars, owed, lost, bounds>>

Docs == {sqlite, ystate, doc} \cup {held[c] : c \in Clients}
Live(d) == d.ins \ d.del
Text(d) == {i[1] : i \in Live(d)}
Twice(d) == \E i, j \in Live(d) : i # j /\ i[1] = j[1]

Merge(a, b) == [ins |-> a.ins \cup b.ins, del |-> a.del \cup b.del]

\* applyTextDiff: what the text does not have is deleted, what it has besides is inserted
\* anew, the rest keeps its items.
Converge(d, t) ==
    LET kept == {i \in Live(d) : i[1] \in t /\ \A j \in Live(d) : j[1] = i[1] => i[2] <= j[2]}
        items == UNION {x.ins : x \in Docs}
        nth(w) == 1 + Max({0} \cup {i[2] : i \in {k \in items : k[1] = w}})
    IN  [ins |-> d.ins \cup {<<w, nth(w)>> : w \in t \ {i[1] : i \in kept}},
         del |-> d.del \cup (Live(d) \ kept)]

Differs(d, t) == Text(d) # t \/ Twice(d)

NoNote == [text |-> {}, by |-> "none", deleted |-> "no"]
Standing(n) == n.by # "none" /\ n.deleted = "no"

IsDoc(d) == d.del \subseteq d.ins /\ \A i \in d.ins : i[1] \in Words /\ i[2] \in Nat \ {0}

TypeOK ==
    /\ note \in [text : SUBSET Words, by : {"none", "file", "server"},
                 deleted : {"no", "manager"}]
    /\ versions \subseteq SUBSET Words
    /\ \A d \in {ystate, sqlite, doc} : d = NoDoc \/ IsDoc(d)
    /\ loading.at \in {"no", "note", "ystate", "persist"}
    /\ storing.at \in {"no", "get", "keep", "put", "persist"} /\ storing.text \subseteq Words
    /\ {dirty, moved, lost} \subseteq BOOLEAN /\ known \in Texts /\ owed \in Texts
    /\ session \in [Clients -> {"none", "new", "on", "off"}]
    /\ \A c \in Clients : IsDoc(held[c])
    /\ typed \in Words
    /\ files \in 0..MaxFiles /\ erasures \in 0..MaxErasures
    /\ drops + crashes + losses + faults \in 0..MaxTroubles

NotLoading == [at |-> "no", note |-> NoNote]
NotStoring == [at |-> "no", text |-> {}, read |-> {}]

Init ==
    /\ note = IF NoteExists THEN [text |-> {1}, by |-> "file", deleted |-> "no"] ELSE NoNote
    /\ versions = {} /\ ystate = NoDoc /\ sqlite = NoDoc /\ doc = NoDoc
    /\ loading = NotLoading /\ storing = NotStoring
    /\ dirty = FALSE /\ moved = FALSE /\ known = None
    /\ session = [c \in Clients |-> "none"] /\ held = [c \in Clients |-> Empty]
    /\ typed = 1 /\ owed = None /\ lost = FALSE
    /\ files = 0 /\ erasures = 0 /\ drops = 0 /\ crashes = 0 /\ losses = 0 /\ faults = 0

Bearable == drops + crashes + losses + faults < MaxTroubles
Fault == Bearable /\ faults' = faults + 1

-----------------------------------------------------------------------------
(* loadDocument.  Its row cannot change meanwhile: only a loaded document    *)
(* is stored.                                                                *)

Open == doc # NoDoc /\ loading.at = "no"

LoadBegins ==
    /\ doc = NoDoc /\ loading.at = "no"
    /\ \E c \in Clients : session[c] \in {"new", "off"}
    /\ loading' = [NotLoading EXCEPT !.at = "note"]
    /\ UNCHANGED <<couchVars, sqlite, doc, storing, dirty, moved, known, clientVars, owed, lost,
                   bounds>>

\* The connection is refused; the client tries again.
LoadFails ==
    /\ loading.at = "note" /\ Fault /\ loading' = NotLoading
    /\ UNCHANGED <<couchVars, sqlite, doc, storing, dirty, moved, known, clientVars, owed, lost,
                   files, erasures, drops, crashes, losses>>

LoadRefused ==
    /\ loading.at = "note" /\ note.deleted = "manager"
    /\ sqlite' = NoDoc /\ loading' = NotLoading
    /\ UNCHANGED <<couchVars, doc, storing, dirty, moved, known, clientVars, owed, lost, bounds>>

\* Faulty Reseed: the seed is only in memory.
ReseedUnsaved(d, t) ==
    /\ doc' = Converge(d, t) /\ UNCHANGED sqlite
    /\ loading' = NotLoading

\* The note's text becomes the text of d, and the result is kept at once.
Reseed(d, t) ==
    /\ doc' = Converge(d, t) /\ sqlite' = doc'
    /\ loading' = [NotLoading EXCEPT !.at = "persist"]

\* getDoc of the note answers; a row in SQLite is restored.  An empty note is not brought into the
\* document, but counts as read: an empty text has nothing to keep.
LoadNote ==
    /\ loading.at = "note" /\ note.deleted # "manager"
    /\ known' = IF Standing(note) THEN note.text ELSE known
    /\ owed' = IF Standing(note) THEN None ELSE owed
    /\ CASE sqlite = NoDoc ->
              loading' = [at |-> "ystate", note |-> note] /\ UNCHANGED <<doc, sqlite>>
         [] sqlite # NoDoc /\ Standing(note) /\ note.text # {} /\ Differs(sqlite, note.text)
              /\ note.by = "file" -> Reseed(sqlite, note.text)
         [] OTHER -> doc' = sqlite /\ loading' = NotLoading /\ UNCHANGED sqlite
    /\ UNCHANGED <<couchVars, storing, dirty, moved, clientVars, bounds, lost>>

\* Without a row the sidecar is restored, and always brought to the note's text; without
\* either the note's text is the seed.  A failing request counts as no sidecar.
LoadYstate ==
    /\ loading.at = "ystate"
    /\ \E found \in {ystate, NoDoc} :
         /\ IF found = ystate THEN UNCHANGED <<faults, lost>> ELSE Fault /\ lost' = TRUE
         /\ LET d == IF found = NoDoc THEN Empty ELSE found
            IN  IF Standing(loading.note) /\ loading.note.text # {}
                   /\ (found = NoDoc \/ Differs(d, loading.note.text))
                THEN Reseed(d, loading.note.text)
                ELSE doc' = d /\ loading' = NotLoading /\ UNCHANGED sqlite
    /\ UNCHANGED <<couchVars, storing, dirty, moved, known, clientVars, owed, files, erasures,
                   drops, crashes, losses>>

\* persistYState: its failure is only logged.
LoadPersists ==
    /\ loading.at = "persist" /\ loading' = NotLoading
    /\ \/ ystate' = doc /\ UNCHANGED faults
       \/ UNCHANGED ystate /\ Fault
    /\ UNCHANGED <<note, versions, sqlite, doc, storing, dirty, moved, known, clientVars, owed,
                   lost, files, erasures, drops, crashes, losses>>

-----------------------------------------------------------------------------
(* storeDocument, called by the debouncer one at a time.  What it throws     *)
(* makes the debouncer call it again.                                        *)

Stored == storing' = NotStoring

\* Faulty Retry: a store that failed is forgotten.
RetryForgotten == Stored /\ UNCHANGED dirty

Retry == Stored /\ dirty' = TRUE

\* Every client loses its connection and keeps the history it has.
Disconnect ==
    /\ session' = [c \in Clients |-> IF session[c] = "on" THEN "off" ELSE session[c]]
    /\ held' = [c \in Clients |-> IF session[c] = "on" THEN doc ELSE held[c]]

\* The row is written first; an empty text goes no further.
StoreBegins ==
    /\ Open /\ dirty /\ storing.at = "no"
    /\ sqlite' = doc /\ dirty' = FALSE
    /\ storing' = IF Text(doc) = {} THEN NotStoring ELSE [at |-> "get", text |-> Text(doc), read |-> {}]
    /\ UNCHANGED <<couchVars, doc, loading, moved, known, clientVars, owed, lost, bounds>>

StoreFails ==
    /\ storing.at \in {"get", "keep", "put"} /\ Fault /\ Retry
    /\ UNCHANGED <<couchVars, sqlite, doc, loading, moved, known, clientVars, owed, lost, files,
                   erasures, drops, crashes, losses>>

\* The manager has deleted the note: the row goes and the sessions are closed.
StoreEndsSessions ==
    /\ storing.at = "get" /\ note.deleted = "manager"
    /\ sqlite' = NoDoc /\ Stored /\ Disconnect
    /\ UNCHANGED <<couchVars, doc, loading, dirty, moved, known, typed, owed, lost, bounds>>

\* The note has been read: it is up to date, holds a text the server has never seen, or
\* neither.
StoreReads ==
    /\ storing.at = "get" /\ note.deleted # "manager"
    /\ LET unseen == Standing(note) /\ known # None /\ note.text # known
           same == Standing(note) /\ note.text = storing.text
       IN  /\ known' = IF same THEN storing.text ELSE known
           /\ storing' = [storing EXCEPT
                            !.at = IF same THEN "persist" ELSE IF unseen THEN "keep" ELSE "put",
                            !.read = note.text]
           /\ owed' = IF same THEN None ELSE owed
    /\ moved' = FALSE
    /\ UNCHANGED <<couchVars, sqlite, doc, loading, dirty, clientVars, bounds, lost>>

\* Faulty StoreKeeps: the version gets the new text.
StoreKeepsOwn ==
    /\ storing.at = "keep" /\ storing' = [storing EXCEPT !.at = "put"]
    /\ versions' = versions \cup {storing.text}
    /\ UNCHANGED <<note, ystate, sqlite, doc, loading, dirty, moved, known, clientVars, owed,
                   lost, bounds>>

\* The text it read goes to the version history.
StoreKeeps ==
    /\ storing.at = "keep" /\ storing' = [storing EXCEPT !.at = "put"]
    /\ versions' = versions \cup {storing.read}
    /\ UNCHANGED <<note, ystate, sqlite, doc, loading, dirty, moved, known, clientVars, owed,
                   lost, bounds>>

Snapshot == note' = [text |-> storing.text, by |-> "server", deleted |-> "no"]

\* Faulty StorePuts: without the revision the last writer wins.
StoreOverwrites ==
    /\ storing.at = "put" /\ Snapshot /\ known' = storing.text
    /\ storing' = [storing EXCEPT !.at = "persist"]
    /\ UNCHANGED <<versions, ystate, sqlite, doc, loading, dirty, moved, clientVars, owed, lost,
                   bounds>>

\* putDocWithRev is refused when somebody wrote since the note was read; its answer may be
\* lost.
StorePuts ==
    /\ storing.at = "put"
    /\ \/ moved /\ Retry /\ UNCHANGED <<note, known, faults>>
       \/ /\ ~moved /\ Snapshot /\ known' = storing.text
          /\ storing' = [storing EXCEPT !.at = "persist"] /\ UNCHANGED <<dirty, faults>>
       \/ ~moved /\ Snapshot /\ Fault /\ Retry /\ UNCHANGED known
    /\ UNCHANGED <<versions, ystate, sqlite, doc, loading, moved, clientVars, owed, lost, files,
                   erasures, drops, crashes, losses>>

\* persistYState writes what the document is by now; its failure is only logged.
StorePersists ==
    /\ storing.at = "persist" /\ Stored
    /\ \/ ystate' = doc /\ UNCHANGED faults
       \/ UNCHANGED ystate /\ Fault
    /\ UNCHANGED <<note, versions, sqlite, doc, loading, dirty, moved, known, clientVars, owed,
                   lost, files, erasures, drops, crashes, losses>>

\* The last client is gone and everything is stored.
Unload ==
    /\ Open /\ ~dirty /\ storing.at = "no" /\ \A c \in Clients : session[c] # "on"
    /\ doc' = NoDoc /\ known' = None
    /\ UNCHANGED <<couchVars, sqlite, loading, storing, dirty, moved, clientVars, owed, lost,
                   bounds>>

-----------------------------------------------------------------------------
(* The clients.  While one is on, its document is the server's.              *)

Opens(c) ==
    /\ session[c] = "none" /\ session' = [session EXCEPT ![c] = "new"]
    /\ UNCHANGED <<couchVars, serverVars, held, typed, owed, lost, bounds>>

\* The two histories are merged.
Connects(c) ==
    /\ Open /\ session[c] \in {"new", "off"}
    /\ doc' = Merge(doc, held[c]) /\ dirty' = (dirty \/ doc' # doc)
    /\ session' = [session EXCEPT ![c] = "on"] /\ held' = [held EXCEPT ![c] = Empty]
    /\ UNCHANGED <<couchVars, sqlite, loading, storing, moved, known, typed, owed, lost, bounds>>

Drops(c) ==
    /\ session[c] = "on" /\ Bearable /\ drops' = drops + 1
    /\ session' = [session EXCEPT ![c] = "off"] /\ held' = [held EXCEPT ![c] = doc]
    /\ UNCHANGED <<couchVars, serverVars, typed, owed, lost, files, erasures, crashes, losses,
                   faults>>

Holds(c) == IF session[c] = "on" THEN doc ELSE held[c]

\* The client's document becomes d, with the connection or without.
Edits(c, d) ==
    \/ session[c] = "on" /\ Open /\ doc' = d /\ dirty' = TRUE /\ UNCHANGED held
    \/ session[c] = "off" /\ held' = [held EXCEPT ![c] = d] /\ UNCHANGED <<doc, dirty>>

Types(c) ==
    /\ typed < MaxWords /\ typed' = typed + 1
    /\ Edits(c, [Holds(c) EXCEPT !.ins = @ \cup {<<typed + 1, 1>>}])
    /\ UNCHANGED <<couchVars, sqlite, loading, storing, moved, known, session, owed, lost,
                   bounds>>

Erases(c) ==
    /\ erasures < MaxErasures /\ erasures' = erasures + 1
    /\ \E i \in Live(Holds(c)) : Edits(c, [Holds(c) EXCEPT !.del = @ \cup {i}])
    /\ UNCHANGED <<couchVars, sqlite, loading, storing, moved, known, session, typed, owed, lost,
                   files, drops, crashes, losses, faults>>

\* A text is written past the server.
WritesFile(t) ==
    /\ note.deleted = "no" /\ note.text # t /\ files < MaxFiles /\ files' = files + 1
    /\ note' = [text |-> t, by |-> "file", deleted |-> "no"]
    /\ owed' = (IF t = known THEN None ELSE t) /\ moved' = TRUE

\* Closing the note leaves its text in the file and uploads it, if no other client is seen;
\* the upload may fail or lose to another write.
Closes(c) ==
    /\ session[c] # "none"
    /\ session' = [session EXCEPT ![c] = "none"] /\ held' = [held EXCEPT ![c] = Empty]
    /\ \/ UNCHANGED <<note, owed, moved, files>>
       \/ /\ session[c] = "on" => \A o \in Clients \ {c} : session[o] # "on"
          /\ Text(Holds(c)) # {} /\ WritesFile(Text(Holds(c)))
    /\ UNCHANGED <<versions, ystate, sqlite, doc, loading, storing, dirty, known, typed, erasures,
                   drops, crashes, losses, faults, lost>>

-----------------------------------------------------------------------------
(* The environment: other members' files, the manager, crashes.              *)

FileChanges ==
    /\ \/ typed < MaxWords /\ typed' = typed + 1 /\ WritesFile(note.text \cup {typed'})
       \/ UNCHANGED typed /\ \E w \in note.text : WritesFile(note.text \ {w})
    /\ UNCHANGED <<versions, ystate, sqlite, doc, loading, storing, dirty, known, session, held,
                   erasures, drops, crashes, losses, faults, lost>>

ManagerDeletes ==
    /\ Standing(note) /\ note' = [note EXCEPT !.deleted = "manager"] /\ moved' = TRUE
    /\ owed' = None
    /\ UNCHANGED <<versions, ystate, sqlite, doc, loading, storing, dirty, known, clientVars,
                   bounds, lost>>

Crash ==
    /\ Bearable /\ crashes' = crashes + 1
    /\ doc' = NoDoc /\ loading' = NotLoading /\ storing' = NotStoring
    /\ dirty' = FALSE /\ known' = None
    /\ Disconnect
    /\ UNCHANGED <<couchVars, sqlite, moved, typed, owed, lost, files, erasures, drops, losses,
                   faults>>

\* The server is started without its volume.
LosesSqlite ==
    /\ Bearable /\ losses' = losses + 1
    /\ doc = NoDoc /\ loading.at = "no" /\ sqlite # NoDoc /\ sqlite' = NoDoc
    /\ lost' = (lost \/ sqlite # ystate)
    /\ UNCHANGED <<couchVars, doc, loading, storing, dirty, moved, known, clientVars, owed,
                   files, erasures, drops, crashes, faults>>

Loading == LoadNote \/ LoadYstate \/ LoadPersists \/ LoadRefused
Storage == StoreBegins \/ StoreEndsSessions \/ StoreReads \/ StoreKeeps \/ StorePuts
             \/ StorePersists
ClientStep(c) == Opens(c) \/ Connects(c) \/ Drops(c) \/ Types(c) \/ Erases(c) \/ Closes(c)

Next ==
    \/ LoadBegins \/ LoadFails \/ Loading \/ Storage \/ StoreFails \/ Unload
    \/ \E c \in Clients : ClientStep(c)
    \/ FileChanges \/ ManagerDeletes \/ Crash \/ LosesSqlite

Spec == Init /\ [][Next]_vars /\ WF_vars(Loading) /\ WF_vars(Storage)

-----------------------------------------------------------------------------
(* Properties.                                                             *)

\* A client that comes back with the history it holds does not make a word of the note stand
\* twice, as long as the row of SQLite is not lost or the sidecar has the same history, and
\* a crash, which loses what only the clients hold then, does not meet files written past
\* the server.  The state is well formed throughout.
NoDuplicates ==
    /\ TypeOK
    /\ ~lost /\ (crashes = 0 \/ files = 0) => ~Twice(doc)

\* A text written past the server is in the note or in the version history until another
\* one replaces it: no snapshot covers a text the server has not seen.
ExternalTextKept == owed # None => note.text = owed \/ owed \in versions

\* A snapshot in flight does not bring back what the manager deleted.
TombstoneStands == [][note.deleted = "manager" => note'.deleted = "manager"]_vars

\* For a note that existed before its first session the server keeps the promise of
\* VersionedNote: each of its steps is a read, a write past it, a version, a snapshot over
\* nothing unseen, the deletion, or none of the note's business.
Promise == INSTANCE VersionedNote WITH
    Texts <- SUBSET Words, NoText <- None, text <- note.text,
    standing <- note.deleted = "no", kept <- versions, unseen <- owed
PromiseKept == Promise!Spec

\* A pending edit is in the note in the end, unless the text is empty, the note deleted or the
\* document no longer in memory.
EditsReachNote ==
    dirty ~> (note.text = Text(doc) \/ Text(doc) = {} \/ doc = NoDoc
                \/ note.deleted = "manager")
=============================================================================
