------------------------- MODULE RtDocument_proofs -------------------------
(***************************************************************************)
(* Proofs about RtDocument, for every number of clients, words, writes and *)
(* faults: a snapshot never brings back a note that the manager deleted,   *)
(* covers no text that was written past the server, and a client that      *)
(* comes back makes no word stand twice.                                   *)
(***************************************************************************)
EXTENDS RtDocument, FiniteSetTheorems, TLAPS

\* A store that has read a standing note knows it when the manager has deleted it since:
\* the revision it puts with is then no longer the note's.
DeletionIsSeen ==
    storing.at \in {"keep", "put"} /\ note.deleted = "manager" => moved

LEMMA InitSees == Init => DeletionIsSeen
BY DEF Init, DeletionIsSeen, NotStoring

\* Every step keeps the two facts; the put is the only one that writes a standing note.
LEMMA StepSees ==
    DeletionIsSeen /\ [Next]_vars =>
        /\ DeletionIsSeen'
        /\ note.deleted = "manager" => note'.deleted = "manager"
<1> SUFFICES ASSUME DeletionIsSeen, [Next]_vars
             PROVE  DeletionIsSeen' /\ (note.deleted = "manager" => note'.deleted = "manager")
    OBVIOUS
<1> USE DEF DeletionIsSeen
<1>1. CASE LoadBegins
    BY <1>1 DEF LoadBegins, couchVars
<1>2. CASE LoadFails
    BY <1>2 DEF LoadFails, couchVars
<1>3. CASE Loading
    <2>1. UNCHANGED <<note, storing, moved>>
        BY <1>3 DEF Loading, LoadNote, LoadYstate, LoadPersists, LoadRefused, couchVars
    <2> QED BY <2>1
<1>4. CASE Storage
    <2>1. CASE StoreBegins
        BY <2>1 DEF StoreBegins, couchVars, NotStoring
    <2>2. CASE StoreEndsSessions
        BY <2>2 DEF StoreEndsSessions, couchVars, Stored, NotStoring
    <2>3. CASE StoreReads
        BY <2>3 DEF StoreReads, couchVars
    <2>4. CASE StoreKeeps
        BY <2>4 DEF StoreKeeps
    <2>5. CASE StorePuts
        <3>1. storing.at = "put" /\ UNCHANGED moved
            BY <2>5 DEF StorePuts
        <3>2. CASE moved
            BY <2>5, <3>1, <3>2 DEF StorePuts, Retry, Stored, NotStoring
        <3>3. CASE ~moved
            <4>1. note.deleted # "manager" /\ note'.deleted = "no"
                BY <2>5, <3>1, <3>3 DEF StorePuts, Snapshot
            <4> QED BY <4>1
        <3> QED BY <3>2, <3>3
    <2>6. CASE StorePersists
        BY <2>6 DEF StorePersists, Stored, NotStoring
    <2> QED BY <1>4, <2>1, <2>2, <2>3, <2>4, <2>5, <2>6 DEF Storage
<1>5. CASE StoreFails
    BY <1>5 DEF StoreFails, couchVars, Retry, Stored, NotStoring
<1>6. CASE Unload
    BY <1>6 DEF Unload, couchVars
<1>7. ASSUME NEW c \in Clients, ClientStep(c)
      PROVE  DeletionIsSeen' /\ (note.deleted = "manager" => note'.deleted = "manager")
    <2>1. CASE Closes(c)
        \* An upload goes to a standing note only.
        <3>1. UNCHANGED storing /\ (UNCHANGED <<note, moved>> \/ WritesFile(Text(Holds(c))))
            BY <2>1 DEF Closes
        <3> QED BY <3>1 DEF WritesFile
    <2>2. CASE ~Closes(c)
        <3>1. UNCHANGED <<note, storing, moved>>
            BY <1>7, <2>2 DEF ClientStep, Opens, Connects, Drops, Types, Erases, couchVars,
                              serverVars
        <3> QED BY <3>1
    <2> QED BY <2>1, <2>2
<1>8. CASE FileChanges
    BY <1>8 DEF FileChanges, WritesFile
<1>9. CASE ManagerDeletes
    BY <1>9 DEF ManagerDeletes, Standing
<1>10. CASE Crash
    BY <1>10 DEF Crash, couchVars, NotStoring
<1>11. CASE LosesSqlite
    BY <1>11 DEF LosesSqlite, couchVars
<1>12. CASE UNCHANGED vars
    BY <1>12 DEF vars, couchVars, serverVars
<1> QED BY <1>1, <1>2, <1>3, <1>4, <1>5, <1>6, <1>7, <1>8, <1>9, <1>10, <1>11, <1>12 DEF Next

\* The manager's deletion is final for the real-time server: no store that was under way,
\* no retry and no upload at the end of a session makes the note stand again
\* (docLifecycle.js: isManagerTombstone, putDocWithRev).
THEOREM DeletionIsFinal == Spec => TombstoneStands
<1>1. Init => DeletionIsSeen
    BY InitSees
<1>2. DeletionIsSeen /\ [Next]_vars => DeletionIsSeen'
    BY StepSees
<1>3. DeletionIsSeen /\ [Next]_vars
        => [note.deleted = "manager" => note'.deleted = "manager"]_vars
    BY StepSees
<1> QED BY <1>1, <1>2, <1>3, PTL DEF Spec, TombstoneStands

-----------------------------------------------------------------------------
(* Texts written past the server.  What the argument needs of the types is   *)
(* that no text has the word 0, which None has.                              *)

Word == Nat \ {0}
Notes == [text : SUBSET Word, by : {"none", "file", "server"}, deleted : {"no", "manager"}]
IsHistory(d) == d = [ins |-> d.ins, del |-> d.del] /\ \A i \in d.ins : i[1] \in Word

Typed ==
    /\ typed \in Nat
    /\ note \in Notes
    /\ loading \in [at : {"no", "note", "ystate", "persist"}, note : Notes]
    /\ storing \in [at : {"no", "get", "keep", "put", "persist"}, text : SUBSET Word,
                    read : SUBSET Word]
    /\ IsHistory(ystate) /\ IsHistory(sqlite) /\ IsHistory(doc)
    /\ held = [c \in Clients |-> held[c]] /\ \A c \in Clients : IsHistory(held[c])

LEMMA TextOfHistory == ASSUME NEW d, IsHistory(d) PROVE Text(d) \in SUBSET Word
BY DEF IsHistory, Text, Live

LEMMA MergedHistory ==
    ASSUME NEW a, NEW b, IsHistory(a), IsHistory(b) PROVE IsHistory(Merge(a, b))
BY DEF IsHistory, Merge

LEMMA ConvergedHistory ==
    ASSUME NEW d, NEW t \in SUBSET Word, IsHistory(d) PROVE IsHistory(Converge(d, t))
<1> DEFINE kept == {i \in Live(d) : i[1] \in t /\ \A j \in Live(d) : j[1] = i[1] => i[2] <= j[2]}
           items == UNION {x.ins : x \in Docs}
           nth(w) == 1 + Max({0} \cup {i[2] : i \in {k \in items : k[1] = w}})
           new == {<<w, nth(w)>> : w \in t \ {i[1] : i \in kept}}
<1>1. Converge(d, t) = [ins |-> d.ins \cup new, del |-> d.del \cup (Live(d) \ kept)]
    BY DEF Converge
<1>2. \A i \in new : i[1] \in Word
    <2> HIDE DEF nth, kept
    <2> QED OBVIOUS
<1> HIDE DEF new, kept
<1> QED BY <1>1, <1>2 DEF IsHistory

LEMMA ExtendedHistory ==
    ASSUME NEW d, NEW S, IsHistory(d), \A i \in S : i[1] \in Word
    PROVE  IsHistory([d EXCEPT !.ins = d.ins \cup S])
<1>1. PICK p, q : d = [ins |-> p, del |-> q]
    BY DEF IsHistory
<1>2. [d EXCEPT !.ins = d.ins \cup S] = [ins |-> p \cup S, del |-> q]
    BY <1>1
<1>3. \A i \in p \cup S : i[1] \in Word
    BY <1>1 DEF IsHistory
<1> QED BY <1>2, <1>3 DEF IsHistory

LEMMA ErasedHistory ==
    ASSUME NEW d, NEW D, IsHistory(d) PROVE IsHistory([d EXCEPT !.del = D])
<1>1. PICK p, q : d = [ins |-> p, del |-> q]
    BY DEF IsHistory
<1>2. [d EXCEPT !.del = D] = [ins |-> p, del |-> D]
    BY <1>1
<1> QED BY <1>1, <1>2 DEF IsHistory

LEMMA FixedHistories == IsHistory(Empty) /\ IsHistory(NoDoc)
BY DEF IsHistory, Empty, NoDoc

LEMMA InitTyped == Init => Typed
<1> SUFFICES ASSUME Init PROVE Typed OBVIOUS
<1>1. NoNote \in Notes /\ note \in Notes
    BY DEF Init, NoNote, Notes, Word
<1> QED BY <1>1, FixedHistories DEF Init, Typed, NotLoading, NotStoring, Word

LEMMA StepTyped == Typed /\ [Next]_vars => Typed'
<1> SUFFICES ASSUME Typed, [Next]_vars PROVE Typed' OBVIOUS
<1> USE DEF Typed
<1>0. NotLoading \in [at : {"no", "note", "ystate", "persist"}, note : Notes]
      /\ NotStoring \in [at : {"no", "get", "keep", "put", "persist"}, text : SUBSET Word,
                          read : SUBSET Word]
    BY DEF NotLoading, NotStoring, NoNote, Notes, Word
<1>1. CASE LoadBegins
    BY <1>0, <1>1 DEF LoadBegins, couchVars, clientVars
<1>2. CASE LoadFails
    BY <1>0, <1>2 DEF LoadFails, couchVars, clientVars
<1>3. CASE LoadRefused
    BY <1>0, <1>3, FixedHistories DEF LoadRefused, couchVars, clientVars
<1>4. CASE LoadNote
    <2>1. UNCHANGED <<ystate, note, storing, clientVars>>
        BY <1>4 DEF LoadNote, couchVars
    <2>2. note.text \in SUBSET Word
        BY DEF Notes
    <2>3. IsHistory(Converge(sqlite, note.text))
        BY <2>2, ConvergedHistory
    <2>4. loading' \in [at : {"no", "note", "ystate", "persist"}, note : Notes]
          /\ IsHistory(doc') /\ IsHistory(sqlite')
        BY <1>0, <1>4, <2>3 DEF LoadNote, Reseed
    <2> QED BY <2>1, <2>4 DEF clientVars
<1>5. CASE LoadYstate
    <2>1. UNCHANGED <<ystate, note, storing, clientVars>>
        BY <1>5 DEF LoadYstate, couchVars
    <2>2. loading.note.text \in SUBSET Word
        BY DEF Notes
    <2>3. \A d : IsHistory(d) => IsHistory(Converge(d, loading.note.text))
        BY <2>2, ConvergedHistory
    <2>4. PICK found \in {ystate, NoDoc} :
            LET d == IF found = NoDoc THEN Empty ELSE found
            IN  IF Standing(loading.note) /\ loading.note.text # {}
                   /\ (found = NoDoc \/ Differs(d, loading.note.text))
                THEN Reseed(d, loading.note.text)
                ELSE doc' = d /\ loading' = NotLoading /\ UNCHANGED sqlite
        BY <1>5 DEF LoadYstate
    <2>5. loading' \in [at : {"no", "note", "ystate", "persist"}, note : Notes]
          /\ IsHistory(doc') /\ IsHistory(sqlite')
        BY <1>0, <2>3, <2>4, FixedHistories DEF Reseed
    <2> QED BY <2>1, <2>5 DEF clientVars
<1>6. CASE LoadPersists
    BY <1>0, <1>6 DEF LoadPersists, clientVars
<1>7. CASE StoreBegins
    <2>1. Text(doc) \in SUBSET Word
        BY TextOfHistory
    <2> QED BY <1>0, <1>7, <2>1 DEF StoreBegins, couchVars, clientVars
<1>8. CASE StoreFails
    BY <1>0, <1>8 DEF StoreFails, Retry, Stored, couchVars, clientVars
<1>9. CASE StoreEndsSessions
    BY <1>0, <1>9, FixedHistories DEF StoreEndsSessions, Stored, Disconnect, couchVars
<1>10. CASE StoreReads
    BY <1>10 DEF StoreReads, Notes, couchVars, clientVars
<1>11. CASE StoreKeeps
    BY <1>11 DEF StoreKeeps, clientVars
<1>12. CASE StorePuts
    <2>1. UNCHANGED <<typed, loading, ystate, sqlite, doc, held>>
        BY <1>12 DEF StorePuts, clientVars
    <2>2. note' \in Notes
        BY <1>12 DEF StorePuts, Snapshot, Notes
    <2>3. storing' = NotStoring \/ storing' = [storing EXCEPT !.at = "persist"]
        BY <1>12 DEF StorePuts, Retry, Stored
    <2>4. storing' \in [at : {"no", "get", "keep", "put", "persist"}, text : SUBSET Word,
                        read : SUBSET Word]
        BY <1>0, <2>3
    <2> QED BY <2>1, <2>2, <2>4
<1>13. CASE StorePersists
    BY <1>0, <1>13 DEF StorePersists, Stored, clientVars
<1>14. CASE Unload
    BY <1>14, FixedHistories DEF Unload, couchVars, clientVars
<1>15. ASSUME NEW c \in Clients, ClientStep(c) PROVE Typed'
    <2>0. IsHistory(Holds(c)) /\ Text(Holds(c)) \in SUBSET Word
        BY TextOfHistory DEF Holds
    <2>1. CASE Opens(c)
        BY <2>1 DEF Opens, couchVars, serverVars
    <2>2. CASE Connects(c)
        <3>1. IsHistory(Merge(doc, held[c]))
            BY MergedHistory
        <3> QED BY <2>2, <3>1, FixedHistories DEF Connects, couchVars
    <2>3. CASE Drops(c)
        BY <2>3 DEF Drops, couchVars, serverVars
    <2>4. ASSUME NEW d, IsHistory(d), Edits(c, d),
                 UNCHANGED <<couchVars, sqlite, loading, storing>>, typed' \in Nat
          PROVE  Typed'
        BY <2>4 DEF Edits, couchVars
    <2>5. CASE Types(c)
        <3>1. \A i \in {<<typed + 1, 1>>} : i[1] \in Word
            BY DEF Word
        <3>2. IsHistory([Holds(c) EXCEPT !.ins = Holds(c).ins \cup {<<typed + 1, 1>>}])
            BY <2>0, <3>1, ExtendedHistory
        <3> QED BY <2>4, <2>5, <3>2 DEF Types
    <2>6. CASE Erases(c)
        <3>1. PICK i \in Live(Holds(c)) : Edits(c, [Holds(c) EXCEPT !.del = @ \cup {i}])
            BY <2>6 DEF Erases
        <3>2. IsHistory([Holds(c) EXCEPT !.del = Holds(c).del \cup {i}])
            BY <2>0, ErasedHistory
        <3> QED BY <2>4, <2>6, <3>1, <3>2 DEF Erases
    <2>7. CASE Closes(c)
        <3>1. note' \in Notes
            BY <2>0, <2>7 DEF Closes, WritesFile, Notes
        <3> QED BY <2>7, <3>1, FixedHistories DEF Closes
    <2> QED BY <1>15, <2>1, <2>2, <2>3, <2>5, <2>6, <2>7 DEF ClientStep
<1>16. CASE FileChanges
    <2>1. note' \in Notes /\ typed' \in Nat
        BY <1>16 DEF FileChanges, WritesFile, Notes, Word
    <2> QED BY <1>16, <2>1 DEF FileChanges
<1>17. CASE ManagerDeletes
    BY <1>17 DEF ManagerDeletes, Notes, clientVars
<1>18. CASE Crash
    BY <1>0, <1>18, FixedHistories DEF Crash, Disconnect, couchVars
<1>19. CASE LosesSqlite
    BY <1>19, FixedHistories DEF LosesSqlite, couchVars, clientVars
<1>20. CASE UNCHANGED vars
    BY <1>20 DEF vars, couchVars, serverVars, clientVars
<1> QED BY <1>1, <1>2, <1>3, <1>4, <1>5, <1>6, <1>7, <1>8, <1>9, <1>10, <1>11, <1>12, <1>13,
           <1>14, <1>15, <1>16, <1>17, <1>18, <1>19, <1>20 DEF Next, Loading, Storage

\* While a document is in memory or being stored the server knows a text of its note, if
\* there was a note from the beginning.
Knows ==
    /\ note.by # "none"
    /\ doc # NoDoc \/ loading.at \in {"ystate", "persist"} \/ storing.at # "no"
         => known # None

\* The text owed is kept, or it stands in the note and the server does not know it: the next
\* store will read it and keep it first.
Owes ==
    \/ owed = None
    \/ owed \in versions
    \/ note.text = owed /\ note.by = "file" /\ note.deleted = "no" /\ owed # known

\* So a store about to put, with nothing written since it read the note, owes nothing.
Covers ==
    /\ storing.at = "keep" /\ ~moved => owed \in {None, storing.read} \cup versions
    /\ storing.at = "put" /\ ~moved => owed \in {None} \cup versions

LEMMA NoneIsNoText == ASSUME NEW t \in SUBSET Word PROVE t # None
BY DEF Word, None

KeptInv == Typed /\ Knows /\ Owes /\ Covers

LEMMA InitKept == NoteExists /\ Init => KeptInv
<1> SUFFICES ASSUME NoteExists, Init PROVE KeptInv OBVIOUS
<1>1. Typed
    BY InitTyped
<1>2. Knows
    BY DEF Init, Knows, NotLoading, NotStoring
<1>3. Owes /\ Covers
    BY DEF Init, Owes, Covers, NotStoring
<1> QED BY <1>1, <1>2, <1>3 DEF KeptInv

LEMMA StepKnows == Typed /\ Knows /\ [Next]_vars => Knows'
<1> SUFFICES ASSUME Typed, Knows, [Next]_vars PROVE Knows' OBVIOUS
<1> USE DEF Knows
<1>0. NotLoading.at = "no" /\ NotStoring.at = "no"
      /\ note.text # None /\ storing.text # None
    BY NoneIsNoText DEF NotLoading, NotStoring, Typed, Notes
<1>1. CASE LoadBegins
    BY <1>1 DEF LoadBegins, NotLoading, couchVars
<1>2. CASE LoadFails
    BY <1>0, <1>2 DEF LoadFails, couchVars
<1>3. CASE LoadRefused
    BY <1>0, <1>3 DEF LoadRefused, couchVars
<1>4. CASE LoadNote
    <2>1. Standing(note)
        BY <1>4 DEF LoadNote, Typed, Notes, Standing
    <2>2. known' # None /\ UNCHANGED note
        BY <1>0, <1>4, <2>1 DEF LoadNote, couchVars
    <2> QED BY <2>2
<1>5. CASE LoadYstate
    <2>1. known # None /\ UNCHANGED <<note, known>>
        BY <1>5 DEF LoadYstate, couchVars
    <2> QED BY <2>1
<1>6. CASE LoadPersists
    <2>1. known # None /\ UNCHANGED <<note, known>>
        BY <1>6 DEF LoadPersists
    <2> QED BY <2>1
<1>7. CASE StoreBegins
    BY <1>0, <1>7 DEF StoreBegins, Open, couchVars
<1>8. CASE StoreFails
    BY <1>0, <1>8 DEF StoreFails, Retry, Stored, couchVars
<1>9. CASE StoreEndsSessions
    BY <1>0, <1>9 DEF StoreEndsSessions, Stored, couchVars
<1>10. CASE StoreReads
    BY <1>0, <1>10 DEF StoreReads, couchVars
<1>11. CASE StoreKeeps
    BY <1>11 DEF StoreKeeps
<1>12. CASE StorePuts
    <2>1. note'.by # "none" /\ known # None
        BY <1>12 DEF StorePuts, Snapshot
    <2>2. known' # None
        BY <1>0, <1>12, <2>1 DEF StorePuts
    <2> QED BY <2>1, <2>2
<1>13. CASE StorePersists
    BY <1>0, <1>13 DEF StorePersists, Stored
<1>14. CASE Unload
    BY <1>14 DEF Unload, Open, couchVars
<1>15. ASSUME NEW c \in Clients, ClientStep(c) PROVE Knows'
    <2>1. UNCHANGED <<loading, storing, known>> /\ note'.by # "none"
        BY <1>15 DEF ClientStep, Opens, Connects, Drops, Types, Erases, Closes, WritesFile,
                     couchVars, serverVars
    <2>2. doc' = doc \/ Open
        BY <1>15 DEF ClientStep, Opens, Connects, Drops, Types, Erases, Edits, Closes,
                     serverVars
    <2> QED BY <2>1, <2>2 DEF Open
<1>16. CASE FileChanges
    BY <1>16 DEF FileChanges, WritesFile
<1>17. CASE ManagerDeletes
    BY <1>17 DEF ManagerDeletes, Typed, Notes
<1>18. CASE Crash
    BY <1>0, <1>18 DEF Crash, couchVars
<1>19. CASE LosesSqlite
    BY <1>19 DEF LosesSqlite, couchVars
<1>20. CASE UNCHANGED vars
    BY <1>20 DEF vars, couchVars, serverVars
<1> QED BY <1>1, <1>2, <1>3, <1>4, <1>5, <1>6, <1>7, <1>8, <1>9, <1>10, <1>11, <1>12, <1>13,
           <1>14, <1>15, <1>16, <1>17, <1>18, <1>19, <1>20 DEF Next, Loading, Storage

\* A write past the server owes its text, and no store can put with the revision it read.
LEMMA WriteOwes ==
    ASSUME NEW t, WritesFile(t), UNCHANGED <<known, storing, versions>>
    PROVE  Owes' /\ Covers'
BY DEF WritesFile, Owes, Covers

LEMMA StepOwes == Typed /\ Knows /\ Owes /\ Covers /\ [Next]_vars => Owes' /\ Covers'
<1> SUFFICES ASSUME Typed, Knows, Owes, Covers, [Next]_vars PROVE Owes' /\ Covers'
    OBVIOUS
<1> DEFINE rest == <<note, versions, known, owed>>
<1>0. NotStoring.at = "no"
    BY DEF NotStoring
<1>1. ASSUME UNCHANGED rest, UNCHANGED <<storing, moved>> \/ storing'.at \in {"no", "get"}
      PROVE  Owes' /\ Covers'
    BY <1>1 DEF Owes, Covers
<1>2. CASE LoadNote
    <2>1. Standing(note)
        BY <1>2 DEF LoadNote, Typed, Notes, Standing, Knows
    <2>2. owed' = None /\ UNCHANGED <<storing, moved, versions>>
        BY <1>2, <2>1 DEF LoadNote, couchVars
    <2> QED BY <2>2 DEF Owes, Covers
<1>3. CASE LoadBegins \/ LoadFails \/ LoadRefused \/ LoadYstate \/ LoadPersists
    <2>1. UNCHANGED rest /\ UNCHANGED <<storing, moved>>
        BY <1>3 DEF LoadBegins, LoadFails, LoadRefused, LoadYstate, LoadPersists, couchVars
    <2> QED BY <1>1, <2>1
<1>4. CASE StoreBegins \/ StoreFails \/ StoreEndsSessions \/ StorePersists
    <2>1. UNCHANGED rest /\ storing'.at \in {"no", "get"}
        BY <1>0, <1>4 DEF StoreBegins, StoreFails, StoreEndsSessions, StorePersists, Retry,
                          Stored, couchVars
    <2> QED BY <1>1, <2>1
<1>5. CASE StoreReads
    <2> DEFINE unseen == Standing(note) /\ known # None /\ note.text # known
               same == Standing(note) /\ note.text = storing.text
    <2>1. storing' = [storing EXCEPT !.at = IF same THEN "persist"
                                            ELSE IF unseen THEN "keep" ELSE "put",
                                     !.read = note.text]
          /\ known' = (IF same THEN storing.text ELSE known)
          /\ owed' = (IF same THEN None ELSE owed)
          /\ UNCHANGED <<note, versions>> /\ known # None
        BY <1>5 DEF StoreReads, Knows, couchVars
    <2>2. storing'.at = (IF same THEN "persist" ELSE IF unseen THEN "keep" ELSE "put")
          /\ storing'.read = note.text
        BY <2>1 DEF Typed
    <2>3. CASE same
        BY <2>1, <2>2, <2>3 DEF Owes, Covers
    <2>4. CASE ~same
        <3>1. UNCHANGED <<known, owed>>
            BY <2>1, <2>4
        <3>2. ~unseen => owed \in {None} \cup versions
            BY <2>1 DEF Owes, Standing
        <3>3. owed \in {None, note.text} \cup versions
            BY DEF Owes
        <3> QED BY <2>1, <2>2, <2>4, <3>1, <3>2, <3>3 DEF Owes, Covers
    <2> QED BY <2>3, <2>4
<1>6. CASE StoreKeeps
    <2>1. storing'.at = "put" /\ UNCHANGED <<note, known, owed, moved>>
          /\ versions' = versions \cup {storing.read} /\ storing.at = "keep"
        BY <1>6 DEF StoreKeeps, Typed
    <2> QED BY <2>1 DEF Owes, Covers
<1>7. CASE StorePuts
    <2>1. storing.at = "put" /\ UNCHANGED <<versions, owed>>
        BY <1>7 DEF StorePuts
    <2>2. storing'.at \in {"no", "persist"}
        BY <1>0, <1>7 DEF StorePuts, Retry, Stored, Typed
    <2>3. CASE moved
        <3>1. UNCHANGED <<note, known>>
            BY <1>7, <2>3 DEF StorePuts
        <3> QED BY <2>1, <2>2, <3>1 DEF Owes, Covers
    <2>4. CASE ~moved
        <3>1. owed \in {None} \cup versions
            BY <2>1, <2>4 DEF Covers
        <3> QED BY <2>1, <2>2, <3>1 DEF Owes, Covers
    <2> QED BY <2>3, <2>4
<1>8. CASE Unload \/ Crash
    <2>1. known' = None /\ UNCHANGED <<note, versions, owed>> /\ storing'.at = "no"
        BY <1>0, <1>8 DEF Unload, Crash, couchVars
    <2> QED BY <2>1 DEF Owes, Covers
<1>9. ASSUME NEW c \in Clients, ClientStep(c) PROVE Owes' /\ Covers'
    <2>1. CASE Closes(c) /\ WritesFile(Text(Holds(c)))
        BY <2>1, WriteOwes DEF Closes
    <2>2. CASE ~(Closes(c) /\ WritesFile(Text(Holds(c))))
        <3>1. UNCHANGED rest /\ UNCHANGED <<storing, moved>>
            BY <1>9, <2>2 DEF ClientStep, Opens, Connects, Drops, Types, Erases, Closes,
                              couchVars, serverVars
        <3> QED BY <1>1, <3>1
    <2> QED BY <2>1, <2>2
<1>10. CASE FileChanges
    <2>1. \E t : WritesFile(t)
        BY <1>10 DEF FileChanges
    <2> QED BY <1>10, <2>1, WriteOwes DEF FileChanges
<1>11. CASE ManagerDeletes
    BY <1>11 DEF ManagerDeletes, Owes, Covers
<1>12. CASE LosesSqlite \/ UNCHANGED vars
    <2>1. UNCHANGED rest /\ UNCHANGED <<storing, moved>>
        BY <1>12 DEF LosesSqlite, vars, couchVars, serverVars
    <2> QED BY <1>1, <2>1
<1> QED BY <1>2, <1>3, <1>4, <1>5, <1>6, <1>7, <1>8, <1>9, <1>10, <1>11, <1>12
        DEF Next, Loading, Storage

\* If the note existed before its first session, no snapshot ever covers a text that file
\* synchronisation wrote past the server: it stands in the note or was put in the version
\* history first (storeDocument's comparison with lastCouchHash and its put with the revision
\* it read).
THEOREM ExternalTextsAreKept ==
    ASSUME NoteExists PROVE Spec => []ExternalTextKept
<1>1. Init => KeptInv
    BY InitKept
<1>2. KeptInv /\ [Next]_vars => KeptInv'
    BY StepTyped, StepKnows, StepOwes DEF KeptInv
<1>3. KeptInv => ExternalTextKept
    BY DEF KeptInv, Owes, ExternalTextKept
<1> QED BY <1>1, <1>2, <1>3, PTL DEF Spec

-----------------------------------------------------------------------------
(* Words that stand twice.  Loading inserts anew what the note has and the   *)
(* document lacks; what a client holds besides must be of other words.       *)

Item == Word \X Word
Items == sqlite.ins \cup ystate.ins \cup doc.ins \cup UNION {held[c].ins : c \in Clients}
WordsOf(d) == {i[1] : i \in d.ins}

\* The document that a load would restore, and the one that counts.
Base == IF sqlite # NoDoc THEN sqlite ELSE ystate
Main == IF doc # NoDoc THEN doc ELSE Base

\* Whether the document is in memory or may be again.
Alive == doc # NoDoc \/ note.deleted # "manager" \/ loading.at = "ystate"

\* The words that a load, now or later, may insert.
Awaited ==
    (IF note.deleted # "manager" THEN note.text ELSE {})
    \cup (IF loading.at = "ystate" THEN loading.note.text ELSE {})
    \cup (IF storing.at # "no" THEN storing.text ELSE {})

\* X can be brought to any text of words in T, and merged with any document of items in I: an
\* item that X lacks is the only one of its word, and not of a word in T.
Basis(X, I, T) ==
    /\ ~Twice(X)
    /\ \A i \in I : i \in X.ins \/ (i[2] = 1 /\ i[1] \notin WordsOf(X))
    /\ \A i \in I : i[1] \in T => i \in X.ins

\* Without a crash, what X lacks is held by one client only.
Exclusive(X) ==
    /\ sqlite.ins \subseteq X.ins /\ ystate.ins \subseteq X.ins
    /\ \A c, o \in Clients : c # o => held[c].ins \cap held[o].ins \subseteq X.ins

Quiet == ~lost /\ (crashes = 0 \/ files = 0)
AsStored == doc = Base \/ (Base = NoDoc /\ doc = Empty)

Good ==
    Quiet =>
        /\ Alive => Basis(Main, Items, Awaited)
        /\ files = 0 /\ note.deleted # "manager" => Basis(Base, Items, Awaited)
        /\ crashes = 0 /\ Alive => Exclusive(Main)
        /\ doc # NoDoc /\ note.deleted # "manager" /\ ~dirty => AsStored

Stages ==
    /\ loading.at \in {"note", "ystate"} => doc = NoDoc /\ storing.at = "no"
    /\ loading.at = "ystate" => sqlite = NoDoc
    /\ loading.at = "persist" => doc # NoDoc /\ sqlite # NoDoc /\ storing.at = "no"
    /\ storing.at # "no" => doc # NoDoc /\ sqlite # NoDoc
    /\ \A c \in Clients : session[c] = "on" => doc # NoDoc

Proper(d) == d.del \subseteq d.ins
Shaped ==
    /\ \A d \in {ystate, sqlite, doc} : d = NoDoc \/ Proper(d)
    /\ \A c \in Clients : Proper(held[c])
    /\ Items \subseteq Item
    /\ \E n \in Nat : \A i \in Items : i[2] <= n

Counted ==
    /\ typed \in 1..MaxWords
    /\ \A i \in Items : i[1] <= typed
    /\ note.text \subseteq 1..typed /\ loading.note.text \subseteq 1..typed
    /\ storing.text \subseteq 1..typed /\ storing.read \subseteq 1..typed
    /\ versions \subseteq SUBSET (1..typed)
    /\ known \subseteq 1..typed \/ known = None
    /\ owed \subseteq 1..typed \/ owed = None

Flags == dirty \in BOOLEAN /\ moved \in BOOLEAN /\ lost \in BOOLEAN
Bounded ==
    /\ session \in [Clients -> {"none", "new", "on", "off"}]
    /\ files \in 0..MaxFiles /\ erasures \in 0..MaxErasures
    /\ drops \in Nat /\ crashes \in Nat /\ losses \in Nat /\ faults \in Nat
    /\ drops + crashes + losses + faults <= MaxTroubles

(* What may be done to a basis.                                              *)

LEMMA BasisShrinks ==
    ASSUME NEW X, NEW I, NEW T, NEW J, NEW U, Basis(X, I, T), J \subseteq I, U \subseteq T
    PROVE  Basis(X, J, U)
BY DEF Basis

\* The words of its own text may be awaited.
LEMMA BasisReads ==
    ASSUME NEW X, NEW I, NEW T, Basis(X, I, T)
    PROVE  Basis(X, I, T \cup Text(X))
BY DEF Basis, Text, Live, WordsOf

LEMMA BasisMerges ==
    ASSUME NEW X, NEW I \in SUBSET Item, NEW T, Basis(X, I, T), X.ins \subseteq I,
           NEW d, d.ins \subseteq I
    PROVE  Basis(Merge(X, d), I, T)
<1> DEFINE Y == Merge(X, d)
<1>1. Y.ins = X.ins \cup d.ins /\ Y.del = X.del \cup d.del
    BY DEF Merge
<1> HIDE DEF Y
<1>2. \A i, j \in I : i[2] = 1 /\ j[2] = 1 /\ i[1] = j[1] => i = j
    BY DEF Item
<1>3. ASSUME NEW i \in Live(Y), NEW j \in Live(Y), i # j, i[1] = j[1] PROVE FALSE
    <2>1. i \in I /\ j \in I
        BY <1>1 DEF Live
    <2>2. CASE i \in X.ins /\ j \in X.ins
        BY <1>1, <1>3, <2>2 DEF Live, Basis, Twice
    <2>3. CASE i \notin X.ins
        BY <1>2, <1>3, <2>1, <2>3 DEF Basis, WordsOf
    <2>4. CASE j \notin X.ins
        BY <1>2, <1>3, <2>1, <2>4 DEF Basis, WordsOf
    <2> QED BY <2>2, <2>3, <2>4
<1>4. ASSUME NEW i \in I, i \notin Y.ins PROVE i[2] = 1 /\ i[1] \notin WordsOf(Y)
    <2>1. i[2] = 1 /\ i[1] \notin WordsOf(X)
        BY <1>1, <1>4 DEF Basis
    <2>2. ASSUME NEW j \in Y.ins, j[1] = i[1] PROVE FALSE
        BY <1>1, <1>2, <1>4, <2>1, <2>2 DEF Basis, WordsOf
    <2> QED BY <2>1, <2>2 DEF WordsOf
<1>5. \A i \in I : i[1] \in T => i \in Y.ins
    BY <1>1 DEF Basis
<1> QED BY <1>3, <1>4, <1>5 DEF Basis, Twice, Y

\* A word that was never there before, typed into X or elsewhere.
LEMMA BasisTypes ==
    ASSUME NEW X, NEW I \in SUBSET Item, NEW T, Basis(X, I, T), X.ins \subseteq I,
           NEW w \in Word, \A i \in I : i[1] # w, w \notin T
    PROVE  /\ Basis(X, I \cup {<<w, 1>>}, T)
           /\ \A Y : Y.ins = X.ins \cup {<<w, 1>>} /\ Y.del = X.del => Basis(Y, I \cup {<<w, 1>>}, T)
<1> DEFINE x == <<w, 1>>
<1>1. x[1] = w /\ x[2] = 1
    OBVIOUS
<1> HIDE DEF x
<1>2. Basis(X, I \cup {x}, T)
    BY <1>1 DEF Basis, WordsOf
<1>3. ASSUME NEW Y, Y.ins = X.ins \cup {x}, Y.del = X.del PROVE Basis(Y, I \cup {x}, T)
    <2>1. ~Twice(Y)
        BY <1>1, <1>3 DEF Basis, Twice, Live
    <2>2. \A i \in I \cup {x} : i \in Y.ins \/ (i[2] = 1 /\ i[1] \notin WordsOf(Y))
        BY <1>1, <1>3 DEF Basis, WordsOf
    <2>3. \A i \in I \cup {x} : i[1] \in T => i \in Y.ins
        BY <1>1, <1>3 DEF Basis
    <2> QED BY <2>1, <2>2, <2>3 DEF Basis
<1> QED BY <1>2, <1>3 DEF x

LEMMA BasisErases ==
    ASSUME NEW X, NEW I, NEW T, Basis(X, I, T), NEW Y, Y.ins = X.ins, X.del \subseteq Y.del
    PROVE  Basis(Y, I, T)
BY DEF Basis, Twice, Live, WordsOf

LEMMA EmptyBasis ==
    ASSUME NEW I, NEW T, Basis(NoDoc, I, T) PROVE Basis(Empty, I, T)
BY DEF Basis, Twice, Live, WordsOf, NoDoc, Empty

\* A set of naturals with a bound has a maximum.
LEMMA MaxOfSome ==
    ASSUME NEW n \in Nat, NEW S, S # {}, \A k \in S : k \in Nat /\ k <= n
    PROVE  Max(S) \in S /\ \A k \in S : k <= Max(S)
<1> DEFINE C == {k..n : k \in S}
<1>1. \A k \in S : k..n \in SUBSET Int /\ IsFiniteSet(k..n)
    BY FS_Interval
<1>2. C \subseteq FiniteSubsetsOf(Int) /\ C # {}
    BY <1>1 DEF FiniteSubsetsOf
<1>3. IsWellFoundedOn(StrictSubsetOrdering(Int), FiniteSubsetsOf(Int))
    BY FS_StrictSubsetOrderingWellFounded
<1>4. \E U \in C : \A V \in C : <<V, U>> \notin StrictSubsetOrdering(Int)
    <2> HIDE DEF C
    <2> QED BY <1>2, <1>3, WFMin
<1>5. PICK m \in S : \A k \in S : <<k..n, m..n>> \notin StrictSubsetOrdering(Int)
    BY <1>4
<1>6. \A k \in S : k..n \subseteq m..n => k..n = m..n
    BY <1>1, <1>5 DEF StrictSubsetOrdering
<1>7. ASSUME NEW k \in S, m < k PROVE FALSE
    <2>1. k..n \subseteq m..n /\ m \in m..n /\ m \notin k..n
        BY <1>7
    <2> QED BY <1>6, <2>1
<1>8. \A k \in S : m >= k
    BY <1>7
<1>9. Max(S) = CHOOSE x \in S : \A y \in S : x >= y
    BY DEF Max
<1> QED BY <1>8, <1>9

\* What applyTextDiff makes of a document.
LEMMA Converged ==
    ASSUME NEW d, NEW t \in SUBSET Word, NEW n \in Nat, d.ins \subseteq Item,
           \A i \in Items : i \in Item /\ i[2] <= n
    PROVE  /\ d.ins \subseteq Converge(d, t).ins /\ d.del \subseteq Converge(d, t).del
           /\ \A i \in Converge(d, t).ins \ d.ins : i \in Item /\ i[1] \in t /\ i[2] <= n + 1
           /\ d.del \subseteq d.ins => Converge(d, t).del \subseteq Converge(d, t).ins
           /\ ~Twice(d) => ~Twice(Converge(d, t))
<1> DEFINE kept == {i \in Live(d) : i[1] \in t /\ \A j \in Live(d) : j[1] = i[1] => i[2] <= j[2]}
           items == UNION {x.ins : x \in Docs}
           S(w) == {0} \cup {i[2] : i \in {k \in items : k[1] = w}}
           nth(w) == 1 + Max(S(w))
           new == {<<w, nth(w)>> : w \in t \ {i[1] : i \in kept}}
           e == Converge(d, t)
<1>1. e.ins = d.ins \cup new /\ e.del = d.del \cup (Live(d) \ kept)
    BY DEF Converge
<1>2. ASSUME NEW w \in Word PROVE nth(w) \in Word /\ nth(w) <= n + 1
    <2>1. S(w) # {} /\ \A k \in S(w) : k \in Nat /\ k <= n
        BY DEF Items, Docs, Item, Word
    <2> HIDE DEF S
    <2>2. Max(S(w)) \in Nat /\ Max(S(w)) <= n
        BY <2>1, MaxOfSome
    <2> QED BY <2>2 DEF Word
<1>3. kept \subseteq d.ins /\ Live(d) \subseteq d.ins
    BY DEF Live
<1> HIDE DEF nth
<1>4. ASSUME NEW i \in new PROVE i \in Item /\ i[1] \in t /\ i[2] <= n + 1 /\ \A k \in kept : k[1] # i[1]
    BY <1>2 DEF Item
<1>5. \A i, j \in new : i[1] = j[1] => i = j
    OBVIOUS
<1>6. ASSUME ~Twice(d) PROVE ~Twice(e)
    <2>1. \A i, j \in kept : i[1] = j[1] => i = j
        BY <1>6 DEF Twice
    <2> HIDE DEF kept, new, e
    <2>2. Live(e) \subseteq kept \cup new
        BY <1>1 DEF Live
    <2> QED BY <1>4, <1>5, <2>1, <2>2 DEF Twice
<1> HIDE DEF kept, new
<1> QED BY <1>1, <1>3, <1>4, <1>6

LEMMA BasisConverges ==
    ASSUME NEW X, NEW I, NEW T, Basis(X, I, T), X.ins \subseteq I, NEW t \in SUBSET T,
           NEW Y, X.ins \subseteq Y.ins, \A i \in Y.ins \ X.ins : i[1] \in t, ~Twice(Y)
    PROVE  Basis(Y, I \cup Y.ins, T)
<1>1. ASSUME NEW i \in I, i \notin Y.ins PROVE i[2] = 1 /\ i[1] \notin WordsOf(Y)
    <2>1. i \notin X.ins /\ i[2] = 1 /\ i[1] \notin WordsOf(X) /\ i[1] \notin T
        BY <1>1 DEF Basis
    <2> QED BY <2>1 DEF WordsOf
<1>2. \A i \in I : i[1] \in T => i \in Y.ins
    BY DEF Basis
<1> QED BY <1>1, <1>2 DEF Basis

(* The stages of loading and storing.                                        *)

LEMMA ProperDoc == /\ \A d : Proper(d) => d # NoDoc
                   /\ Proper(Empty) /\ ~Proper(NoDoc)
<1>1. NoDoc.ins = {} /\ <<0, 0>> \in NoDoc.del
    BY DEF NoDoc
<1>2. ~Proper(NoDoc)
    BY <1>1 DEF Proper
<1> QED BY <1>2 DEF Proper, Empty

\* What a document becomes is one.
LEMMA ProperLater ==
    ASSUME NEW d, Proper(d)
    PROVE  /\ \A e : Proper(e) => Proper(Merge(d, e))
           /\ \A S : Proper([d EXCEPT !.ins = d.ins \cup S]) \/ d # [ins |-> d.ins, del |-> d.del]
           /\ \A i \in Live(d) : Proper([d EXCEPT !.del = d.del \cup {i}])
                                 \/ d # [ins |-> d.ins, del |-> d.del]
<1>1. \A e : Proper(e) => Proper(Merge(d, e))
    BY DEF Proper, Merge
<1>2. ASSUME d = [ins |-> d.ins, del |-> d.del]
      PROVE  /\ \A S : Proper([d EXCEPT !.ins = d.ins \cup S])
             /\ \A i \in Live(d) : Proper([d EXCEPT !.del = d.del \cup {i}])
    <2>1. PICK p, q : d = [ins |-> p, del |-> q]
        BY <1>2
    <2>2. \A S : [d EXCEPT !.ins = d.ins \cup S] = [ins |-> p \cup S, del |-> q]
        BY <2>1
    <2>3. \A i : [d EXCEPT !.del = d.del \cup {i}] = [ins |-> p, del |-> q \cup {i}]
        <3>1. d.del = q /\ d.ins = p
            BY <2>1
        <3>2. \A V : [[ins |-> p, del |-> q] EXCEPT !.del = V] = [ins |-> p, del |-> V]
            OBVIOUS
        <3> QED BY <2>1, <3>1, <3>2
    <2> QED BY <2>1, <2>2, <2>3 DEF Proper, Live
<1> QED BY <1>1, <1>2

LEMMA ConvergedDoc ==
    ASSUME NEW d, Proper(d), NEW t PROVE Proper(Converge(d, t))
<1> DEFINE kept == {i \in Live(d) : i[1] \in t /\ \A j \in Live(d) : j[1] = i[1] => i[2] <= j[2]}
           items == UNION {x.ins : x \in Docs}
           nth(w) == 1 + Max({0} \cup {i[2] : i \in {k \in items : k[1] = w}})
           new == {<<w, nth(w)>> : w \in t \ {i[1] : i \in kept}}
<1>1. Converge(d, t) = [ins |-> d.ins \cup new, del |-> d.del \cup (Live(d) \ kept)]
    BY DEF Converge
<1>2. Live(d) \subseteq d.ins
    BY DEF Live
<1> HIDE DEF new, kept
<1> QED BY <1>1, <1>2 DEF Proper

LEMMA InitStages == Init => Stages
BY DEF Init, Stages, NotLoading, NotStoring

LEMMA StepStages == Typed /\ Bounded /\ Shaped /\ Stages /\ [Next]_vars => Stages'
<1> SUFFICES ASSUME Typed, Bounded, Shaped, Stages, [Next]_vars PROVE Stages' OBVIOUS
<1>0. NotLoading.at = "no" /\ NotStoring.at = "no"
    BY DEF NotLoading, NotStoring
<1>1. CASE LoadBegins
    <2>1. loading'.at = "note" /\ doc' = NoDoc /\ UNCHANGED <<storing, session>>
        BY <1>1 DEF LoadBegins, clientVars, NotLoading
    <2> QED BY <2>1, <1>1 DEF Stages, LoadBegins
<1>2. CASE LoadFails
    BY <1>0, <1>2 DEF LoadFails, couchVars, clientVars, Stages
<1>3. CASE LoadRefused
    BY <1>0, <1>3 DEF LoadRefused, couchVars, clientVars, Stages
<1>4. CASE LoadNote
    <2>1. loading.at = "note" /\ doc = NoDoc /\ storing.at = "no" /\ UNCHANGED <<storing, session>>
        BY <1>4 DEF LoadNote, Stages, clientVars
    <2>2. CASE sqlite = NoDoc
        <3>1. loading'.at = "ystate" /\ UNCHANGED <<doc, sqlite>>
            BY <1>4, <2>2 DEF LoadNote
        <3> QED BY <2>1, <2>2, <3>1 DEF Stages
    <2>3. CASE sqlite # NoDoc /\ Reseed(sqlite, note.text)
        <3>1. Proper(Converge(sqlite, note.text))
            BY <2>3, ConvergedDoc DEF Shaped
        <3>2. doc' # NoDoc /\ sqlite' # NoDoc /\ loading'.at = "persist"
            BY <2>3, <3>1, ProperDoc DEF Reseed, NotLoading
        <3> QED BY <2>1, <3>2 DEF Stages
    <2>4. CASE sqlite # NoDoc /\ ~Reseed(sqlite, note.text)
        <3>1. doc' = sqlite /\ loading' = NotLoading /\ UNCHANGED sqlite
            BY <1>4, <2>4 DEF LoadNote
        <3> QED BY <1>0, <2>1, <2>4, <3>1 DEF Stages
    <2> QED BY <2>2, <2>3, <2>4
<1>5. CASE LoadYstate
    <2>1. loading.at = "ystate" /\ storing.at = "no" /\ UNCHANGED <<storing, session>>
        BY <1>5 DEF LoadYstate, Stages, clientVars
    <2>2. PICK found \in {ystate, NoDoc} :
            LET d == IF found = NoDoc THEN Empty ELSE found
            IN  IF Standing(loading.note) /\ loading.note.text # {}
                   /\ (found = NoDoc \/ Differs(d, loading.note.text))
                THEN Reseed(d, loading.note.text)
                ELSE doc' = d /\ loading' = NotLoading /\ UNCHANGED sqlite
        BY <1>5 DEF LoadYstate
    <2> DEFINE d == IF found = NoDoc THEN Empty ELSE found
    <2>3. Proper(d)
        BY ProperDoc DEF Shaped
    <2>4. CASE Reseed(d, loading.note.text)
        <3>1. Proper(Converge(d, loading.note.text))
            BY <2>3, ConvergedDoc
        <3>2. doc' # NoDoc /\ sqlite' # NoDoc /\ loading'.at = "persist"
            BY <2>4, <3>1, ProperDoc DEF Reseed, NotLoading
        <3> QED BY <2>1, <3>2 DEF Stages
    <2>5. CASE ~Reseed(d, loading.note.text)
        <3>1. doc' = d /\ loading' = NotLoading
            BY <2>2, <2>5
        <3>2. doc' # NoDoc
            BY <2>3, <3>1, ProperDoc
        <3> QED BY <1>0, <2>1, <3>1, <3>2 DEF Stages
    <2> QED BY <2>4, <2>5
<1>6. CASE LoadPersists
    BY <1>0, <1>6 DEF LoadPersists, clientVars, Stages
<1>7. CASE StoreBegins
    <2>1. UNCHANGED <<doc, loading, session>> /\ sqlite' = doc /\ doc # NoDoc /\ loading.at = "no"
        BY <1>7 DEF StoreBegins, clientVars, Open
    <2> QED BY <2>1 DEF Stages
<1>8. CASE StoreFails
    BY <1>0, <1>8 DEF StoreFails, Retry, Stored, clientVars, Stages
<1>9. CASE StoreEndsSessions
    <2>1. storing'.at = "no" /\ UNCHANGED <<doc, loading>> /\ loading.at # "persist" /\ sqlite' = NoDoc
        BY <1>0, <1>9 DEF StoreEndsSessions, Stored, Stages
    <2>2. \A c \in Clients : session'[c] # "on"
        BY <1>9 DEF StoreEndsSessions, Disconnect
    <2> QED BY <2>1, <2>2 DEF Stages
<1>10. CASE StoreReads
    <2>1. storing.at # "no" /\ UNCHANGED <<doc, sqlite, loading, session>>
        BY <1>10 DEF StoreReads, clientVars
    <2> QED BY <2>1 DEF Stages
<1>11. CASE StoreKeeps
    BY <1>11 DEF StoreKeeps, clientVars, Stages
<1>12. CASE StorePuts
    <2>1. storing.at # "no" /\ UNCHANGED <<doc, sqlite, loading, session>>
        BY <1>12 DEF StorePuts, clientVars
    <2> QED BY <2>1 DEF Stages
<1>13. CASE StorePersists
    BY <1>0, <1>13 DEF StorePersists, Stored, clientVars, Stages
<1>14. CASE Unload
    BY <1>14 DEF Unload, Open, clientVars, Stages
<1>15. ASSUME NEW c \in Clients, ClientStep(c) PROVE Stages'
    <2>0. UNCHANGED <<sqlite, loading, storing>>
        BY <1>15 DEF ClientStep, Opens, Connects, Drops, Types, Erases, Closes, serverVars
    <2>1. CASE UNCHANGED doc
        <3>1. \A o \in Clients : session'[o] = "on" => session[o] = "on" \/ doc # NoDoc
            <4>1. session \in [Clients -> {"none", "new", "on", "off"}]
                BY DEF Bounded
            <4>2. CASE Connects(c)
                BY <4>1, <4>2 DEF Connects, Open
            <4>3. CASE ~Connects(c)
                <5>1. session' = session \/ session' = [session EXCEPT ![c] = "new"]
                      \/ session' = [session EXCEPT ![c] = "off"] \/ session' = [session EXCEPT ![c] = "none"]
                    BY <1>15, <4>3 DEF ClientStep, Opens, Drops, Types, Erases, Closes
                <5> QED BY <4>1, <5>1
            <4> QED BY <4>2, <4>3
        <3> QED BY <2>0, <2>1, <3>1 DEF Stages
    <2>2. CASE ~UNCHANGED doc
        <3>1. Proper(doc)
            BY <1>15, <2>2 DEF ClientStep, Opens, Connects, Drops, Types, Erases, Edits, Closes,
                               serverVars, Open, Shaped
        <3>2. doc = [ins |-> doc.ins, del |-> doc.del]
            BY DEF Typed, IsHistory
        <3>3. Open /\ Proper(doc')
            <4>1. CASE Connects(c)
                BY <3>1, <4>1, ProperLater DEF Connects, Shaped
            <4>2. CASE Types(c)
                <5>1. Open /\ doc' = [doc EXCEPT !.ins = doc.ins \cup {<<typed + 1, 1>>}]
                    BY <2>2, <4>2 DEF Types, Edits, Holds
                <5> QED BY <3>1, <3>2, <5>1, ProperLater
            <4>3. CASE Erases(c)
                <5>1. PICK i \in Live(Holds(c)) : Edits(c, [Holds(c) EXCEPT !.del = @ \cup {i}])
                    BY <4>3 DEF Erases
                <5>2. Open /\ i \in Live(doc) /\ doc' = [doc EXCEPT !.del = doc.del \cup {i}]
                    BY <2>2, <5>1 DEF Edits, Holds
                <5> QED BY <3>1, <3>2, <5>2, ProperLater
            <4> QED BY <1>15, <2>2, <4>1, <4>2, <4>3
                    DEF ClientStep, Opens, Drops, Closes, serverVars
        <3>4. doc' # NoDoc /\ loading.at = "no"
            BY <3>3, ProperDoc DEF Open
        <3> QED BY <2>0, <3>4 DEF Stages
    <2> QED BY <2>1, <2>2
<1>16. CASE FileChanges \/ ManagerDeletes
    BY <1>16 DEF FileChanges, ManagerDeletes, clientVars, Stages
<1>17. CASE Crash
    <2>1. \A c \in Clients : session'[c] # "on"
        BY <1>17 DEF Crash, Disconnect
    <2> QED BY <1>0, <1>17, <2>1 DEF Crash, Stages
<1>18. CASE LosesSqlite
    BY <1>18 DEF LosesSqlite, clientVars, Stages
<1>19. CASE UNCHANGED vars
    BY <1>19 DEF vars, serverVars, clientVars, Stages
<1> QED BY <1>1, <1>2, <1>3, <1>4, <1>5, <1>6, <1>7, <1>8, <1>9, <1>10, <1>11, <1>12, <1>13,
           <1>14, <1>15, <1>16, <1>17, <1>18, <1>19 DEF Next, Loading, Storage

(* The items there are.                                                      *)

\* A load that brings the document d to the text t and keeps it.
Reseeds(d, t) ==
    /\ Proper(d) /\ d.ins \subseteq Items /\ t \subseteq Word /\ Reseed(d, t)
    /\ \/ LoadNote /\ d = sqlite /\ t = note.text
       \/ LoadYstate /\ t = loading.note.text /\ (lost' \/ d = ystate \/ (ystate = NoDoc /\ d = Empty))

\* One that restores the document d.
Restores(d) ==
    /\ Proper(d) /\ d.ins \subseteq Items
    /\ doc' = d /\ loading' = NotLoading /\ UNCHANGED sqlite
    /\ \/ LoadNote /\ d = sqlite
       \/ LoadYstate /\ (lost' \/ d = ystate \/ (ystate = NoDoc /\ d = Empty))

LEMMA LoadSteps ==
    ASSUME Typed, Shaped, Bounded, Stages, LoadNote \/ LoadYstate
    PROVE  \/ LoadNote /\ sqlite = NoDoc /\ UNCHANGED <<doc, sqlite>>
              /\ loading' = [at |-> "ystate", note |-> note]
           \/ \E d : Restores(d)
           \/ \E d, t : Reseeds(d, t)
<1>1. CASE LoadNote
    <2>1. sqlite.ins \subseteq Items /\ note.text \subseteq Word
        BY DEF Items, Typed, Notes
    <2>2. CASE sqlite = NoDoc
        BY <1>1, <2>2 DEF LoadNote
    <2>3. CASE sqlite # NoDoc /\ Reseed(sqlite, note.text)
        <3>1. Reseeds(sqlite, note.text)
            BY <1>1, <2>1, <2>3 DEF Reseeds, Shaped
        <3> QED BY <3>1
    <2>4. CASE sqlite # NoDoc /\ ~Reseed(sqlite, note.text)
        <3>1. doc' = sqlite /\ loading' = NotLoading /\ UNCHANGED sqlite
            BY <1>1, <2>4 DEF LoadNote
        <3>2. Restores(sqlite)
            BY <1>1, <2>1, <2>4, <3>1 DEF Restores, Shaped
        <3> QED BY <3>2
    <2> QED BY <2>2, <2>3, <2>4
<1>2. CASE LoadYstate
    <2>1. loading.note.text \subseteq Word
        BY DEF Typed, Notes
    <2>2. PICK found \in {ystate, NoDoc} :
            /\ IF found = ystate THEN UNCHANGED <<faults, lost>> ELSE Fault /\ lost' = TRUE
            /\ LET d == IF found = NoDoc THEN Empty ELSE found
               IN  IF Standing(loading.note) /\ loading.note.text # {}
                      /\ (found = NoDoc \/ Differs(d, loading.note.text))
                   THEN Reseed(d, loading.note.text)
                   ELSE doc' = d /\ loading' = NotLoading /\ UNCHANGED sqlite
        BY <1>2 DEF LoadYstate
    <2> DEFINE d == IF found = NoDoc THEN Empty ELSE found
    <2>3. Proper(d) /\ d.ins \subseteq Items
        <3>1. Empty.ins \subseteq Items /\ Proper(Empty)
            BY ProperDoc DEF Empty
        <3>2. ystate.ins \subseteq Items /\ (ystate = NoDoc \/ Proper(ystate))
            BY DEF Items, Shaped
        <3> QED BY <3>1, <3>2
    <2>4. lost' \/ d = ystate \/ (ystate = NoDoc /\ d = Empty)
        BY <2>2
    <2>5. Reseed(d, loading.note.text) \/ (doc' = d /\ loading' = NotLoading /\ UNCHANGED sqlite)
        BY <2>2
    <2> HIDE DEF d
    <2>6. Reseeds(d, loading.note.text) \/ Restores(d)
        BY <1>2, <2>1, <2>3, <2>4, <2>5 DEF Reseeds, Restores
    <2> QED BY <2>6
<1> QED BY <1>1, <1>2

\* Where one client's document changes, and the server's.
LEMMA HeldItems ==
    ASSUME NEW S, Typed, NEW c \in Clients, NEW d, d.ins \subseteq Items \cup S,
           held' = held \/ held' = [held EXCEPT ![c] = d], doc'.ins \subseteq Items \cup S,
           UNCHANGED <<sqlite, ystate>>
    PROVE  Items' \subseteq Items \cup S
<1>1. held = [o \in Clients |-> held[o]]
    BY DEF Typed
<1>2. \A o \in Clients : held'[o] = held[o] \/ held'[o] = d
    BY <1>1
<1>3. \A o \in Clients : held'[o].ins \subseteq Items \cup S
    BY <1>2 DEF Items
<1>4. sqlite'.ins \subseteq Items /\ ystate'.ins \subseteq Items
    BY DEF Items
<1> QED BY <1>3, <1>4 DEF Items

\* A client that is on or off types or erases in its document.
LEMMA EditedDoc ==
    ASSUME Typed, NEW c \in Clients
    PROVE  /\ Types(c) => \E d : /\ d.ins = Holds(c).ins \cup {<<typed + 1, 1>>} /\ d.del = Holds(c).del
                                 /\ d = [ins |-> d.ins, del |-> d.del] /\ Edits(c, d)
           /\ Erases(c) => \E d : /\ d.ins = Holds(c).ins /\ \E i \in Live(Holds(c)) : d.del = Holds(c).del \cup {i}
                                  /\ d = [ins |-> d.ins, del |-> d.del] /\ Edits(c, d)
<1>1. Holds(c) = [ins |-> Holds(c).ins, del |-> Holds(c).del]
    BY DEF Typed, IsHistory, Holds
<1>2. PICK p, q : Holds(c) = [ins |-> p, del |-> q]
    BY <1>1
<1>3. ASSUME Types(c)
      PROVE  \E d : /\ d.ins = Holds(c).ins \cup {<<typed + 1, 1>>} /\ d.del = Holds(c).del
                    /\ d = [ins |-> d.ins, del |-> d.del] /\ Edits(c, d)
    <2>1. Edits(c, [Holds(c) EXCEPT !.ins = @ \cup {<<typed + 1, 1>>}])
        BY <1>3 DEF Types
    <2>2. [Holds(c) EXCEPT !.ins = @ \cup {<<typed + 1, 1>>}] = [ins |-> p \cup {<<typed + 1, 1>>}, del |-> q]
        BY <1>2
    <2> DEFINE d == [ins |-> p \cup {<<typed + 1, 1>>}, del |-> q]
    <2>3. d.ins = p \cup {<<typed + 1, 1>>} /\ d.del = q /\ d = [ins |-> d.ins, del |-> d.del]
        OBVIOUS
    <2>4. Edits(c, d)
        BY <2>1, <2>2
    <2> HIDE DEF d
    <2>5. Holds(c).ins = p /\ Holds(c).del = q
        BY <1>2
    <2> QED BY <2>3, <2>4, <2>5
<1>4. ASSUME Erases(c)
      PROVE  \E d : /\ d.ins = Holds(c).ins /\ \E i \in Live(Holds(c)) : d.del = Holds(c).del \cup {i}
                    /\ d = [ins |-> d.ins, del |-> d.del] /\ Edits(c, d)
    <2>1. PICK i \in Live(Holds(c)) : Edits(c, [Holds(c) EXCEPT !.del = @ \cup {i}])
        BY <1>4 DEF Erases
    <2>2. [Holds(c) EXCEPT !.del = @ \cup {i}] = [ins |-> p, del |-> q \cup {i}]
        BY <1>2
    <2> DEFINE d == [ins |-> p, del |-> q \cup {i}]
    <2>3. d.ins = p /\ d.del = q \cup {i} /\ d = [ins |-> d.ins, del |-> d.del]
        OBVIOUS
    <2>4. Edits(c, d)
        BY <2>1, <2>2
    <2> HIDE DEF d
    <2>5. Holds(c).ins = p /\ Holds(c).del = q
        BY <1>2
    <2> QED BY <2>1, <2>3, <2>4, <2>5
<1> QED BY <1>3, <1>4

LEMMA ClientItems ==
    ASSUME Typed, NEW c \in Clients, ClientStep(c)
    PROVE  Items' \subseteq Items \/ (Types(c) /\ Items' \subseteq Items \cup {<<typed + 1, 1>>})
<1>0. UNCHANGED <<sqlite, ystate>>
    BY DEF ClientStep, Opens, Connects, Drops, Types, Erases, Closes, couchVars, serverVars
<1>1. doc.ins \subseteq Items /\ held[c].ins \subseteq Items /\ Holds(c).ins \subseteq Items /\ Empty.ins = {}
    BY DEF Items, Holds, Empty
<1>2. CASE Opens(c)
    <2>1. UNCHANGED <<doc, held>>
        BY <1>2 DEF Opens, serverVars
    <2> QED BY <1>0, <2>1 DEF Items
<1>3. CASE Connects(c) \/ Drops(c) \/ Closes(c)
    <2>1. doc'.ins \subseteq Items
        BY <1>1, <1>3 DEF Connects, Drops, Closes, serverVars, Merge
    <2>2. held' = [held EXCEPT ![c] = Empty] \/ held' = [held EXCEPT ![c] = doc]
        BY <1>3 DEF Connects, Drops, Closes
    <2>3. Items' \subseteq Items \cup {}
        BY <1>0, <1>1, <2>1, <2>2, HeldItems
    <2> QED BY <2>3
<1>4. CASE Types(c)
    <2>1. PICK d : d.ins = Holds(c).ins \cup {<<typed + 1, 1>>} /\ Edits(c, d)
        BY <1>4, EditedDoc
    <2>2. doc'.ins \subseteq Items \cup {<<typed + 1, 1>>} /\ (held' = held \/ held' = [held EXCEPT ![c] = d])
        BY <1>1, <2>1 DEF Edits
    <2>3. Items' \subseteq Items \cup {<<typed + 1, 1>>}
        BY <1>0, <1>1, <2>1, <2>2, HeldItems
    <2> QED BY <1>4, <2>3
<1>5. CASE Erases(c)
    <2>1. PICK d : d.ins = Holds(c).ins /\ Edits(c, d)
        BY <1>5, EditedDoc
    <2>2. doc'.ins \subseteq Items \cup {} /\ (held' = held \/ held' = [held EXCEPT ![c] = d])
        BY <1>1, <2>1 DEF Edits
    <2>3. Items' \subseteq Items \cup {}
        BY <1>0, <1>1, <2>1, <2>2, HeldItems
    <2> QED BY <2>3
<1> QED BY <1>2, <1>3, <1>4, <1>5 DEF ClientStep

\* No other step makes documents.
LEMMA OtherDocs ==
    ASSUME [Next]_vars
    PROVE  \/ LoadNote \/ LoadYstate \/ \E c \in Clients : ClientStep(c)
           \/ /\ sqlite' \in {sqlite, doc, NoDoc} /\ ystate' \in {ystate, doc} /\ doc' \in {doc, NoDoc}
              /\ UNCHANGED held \/ Disconnect
<1>1. CASE UNCHANGED vars \/ LoadBegins \/ LoadFails \/ LoadRefused \/ LoadPersists \/ StoreFails \/ Unload
    BY <1>1 DEF vars, LoadBegins, LoadFails, LoadRefused, LoadPersists, StoreFails, Unload,
                couchVars, serverVars, clientVars
<1>2. CASE Storage
    BY <1>2 DEF Storage, StoreBegins, StoreEndsSessions, StoreReads, StoreKeeps, StorePuts, StorePersists,
                couchVars, clientVars
<1>3. CASE ManagerDeletes \/ Crash \/ LosesSqlite \/ FileChanges
    BY <1>3 DEF ManagerDeletes, Crash, LosesSqlite, FileChanges, couchVars, clientVars
<1> QED BY <1>1, <1>2, <1>3 DEF Next, Loading

LEMMA OtherItems ==
    ASSUME Typed, [Next]_vars
    PROVE  \/ Items' \subseteq Items \/ LoadNote \/ LoadYstate
           \/ \E c \in Clients : ClientStep(c)
<1>0. sqlite.ins \subseteq Items /\ ystate.ins \subseteq Items /\ doc.ins \subseteq Items
      /\ (\A c \in Clients : held[c].ins \subseteq Items) /\ NoDoc.ins = {}
    BY DEF Items, NoDoc
<1>1. ASSUME sqlite' \in {sqlite, doc, NoDoc}, ystate' \in {ystate, doc}, doc' \in {doc, NoDoc},
             UNCHANGED held \/ Disconnect
      PROVE  Items' \subseteq Items
    <2>1. sqlite'.ins \subseteq Items /\ ystate'.ins \subseteq Items /\ doc'.ins \subseteq Items
        BY <1>0, <1>1
    <2>2. \A c \in Clients : held'[c].ins \subseteq Items
        BY <1>0, <1>1 DEF Disconnect
    <2> QED BY <2>1, <2>2 DEF Items
<1> QED BY <1>1, OtherDocs

LEMMA ClientDocs ==
    ASSUME Typed, Bounded, Shaped, Stages, NEW c \in Clients, ClientStep(c)
    PROVE  /\ UNCHANGED <<sqlite, ystate>> /\ (doc' = NoDoc \/ Proper(doc'))
           /\ \A o \in Clients : Proper(held'[o])
<1>0. UNCHANGED <<sqlite, ystate>>
    BY DEF ClientStep, Opens, Connects, Drops, Types, Erases, Closes, couchVars, serverVars
<1>1. held = [o \in Clients |-> held[o]] /\ (\A o \in Clients : Proper(held[o])) /\ Proper(Empty)
    BY ProperDoc DEF Typed, Shaped
<1>2. session[c] = "on" => Proper(doc)
    BY DEF Stages, Shaped
<1>3. ASSUME NEW d, Proper(d), held' = [held EXCEPT ![c] = d] PROVE \A o \in Clients : Proper(held'[o])
    BY <1>1, <1>3
<1>4. ASSUME NEW d, Proper(d), Edits(c, d)
      PROVE  (doc' = NoDoc \/ Proper(doc')) /\ \A o \in Clients : Proper(held'[o])
    <2>1. CASE doc' = d /\ UNCHANGED held
        BY <1>1, <1>4, <2>1
    <2>2. CASE UNCHANGED doc /\ held' = [held EXCEPT ![c] = d]
        BY <1>3, <1>4, <2>2 DEF Shaped
    <2> QED BY <1>4, <2>1, <2>2 DEF Edits
<1>5. Types(c) \/ Erases(c) => Proper(Holds(c))
    BY <1>1, <1>2 DEF Holds
<1>6. CASE Opens(c)
    BY <1>0, <1>1, <1>6 DEF Opens, serverVars, Shaped
<1>7. CASE Connects(c)
    <2>1. Proper(Merge(doc, held[c]))
        BY <1>1, <1>7, ProperLater DEF Connects, Open, Shaped
    <2> QED BY <1>0, <1>1, <1>3, <1>7, <2>1 DEF Connects
<1>8. CASE Drops(c)
    BY <1>0, <1>2, <1>3, <1>8 DEF Drops, serverVars
<1>9. CASE Types(c)
    <2>1. PICK d : d.ins = Holds(c).ins \cup {<<typed + 1, 1>>} /\ d.del = Holds(c).del /\ Edits(c, d)
        BY <1>9, EditedDoc
    <2>2. Proper(d)
        BY <1>5, <1>9, <2>1 DEF Proper
    <2> QED BY <1>0, <1>4, <2>1, <2>2
<1>10. CASE Erases(c)
    <2>1. PICK d : d.ins = Holds(c).ins /\ (\E i \in Live(Holds(c)) : d.del = Holds(c).del \cup {i}) /\ Edits(c, d)
        BY <1>10, EditedDoc
    <2>2. Proper(d)
        BY <1>5, <1>10, <2>1 DEF Proper, Live
    <2> QED BY <1>0, <1>4, <2>1, <2>2
<1>11. CASE Closes(c)
    BY <1>0, <1>1, <1>3, <1>11 DEF Closes, Shaped
<1> QED BY <1>6, <1>7, <1>8, <1>9, <1>10, <1>11 DEF ClientStep

\* What a load that changes the document makes of it.
LEMMA Reseeded ==
    ASSUME Typed, Shaped, NEW d, NEW t, Reseeds(d, t)
    PROVE  /\ sqlite' = doc' /\ UNCHANGED <<ystate, held>> /\ loading'.at = "persist"
           /\ Proper(doc') /\ d.ins \subseteq doc'.ins /\ d.del \subseteq doc'.del
           /\ \A i \in doc'.ins \ d.ins : i \in Item /\ i[1] \in t
           /\ \A n \in Nat : (\A i \in Items : i[2] <= n) => \A i \in doc'.ins \ d.ins : i[2] <= n + 1
           /\ ~Twice(d) => ~Twice(doc')
<1>1. doc' = Converge(d, t) /\ sqlite' = doc' /\ loading'.at = "persist"
    BY DEF Reseeds, Reseed, NotLoading
<1>2. UNCHANGED <<ystate, held>>
    BY DEF Reseeds, LoadNote, LoadYstate, couchVars, clientVars
<1>3. Proper(d) /\ d.ins \subseteq Item /\ t \in SUBSET Word /\ \A i \in Items : i \in Item
    BY DEF Reseeds, Shaped
<1>4. Proper(doc')
    BY <1>1, <1>3, ConvergedDoc
<1>5. ASSUME NEW n \in Nat, \A i \in Items : i[2] <= n
      PROVE  /\ d.ins \subseteq doc'.ins /\ d.del \subseteq doc'.del
             /\ \A i \in doc'.ins \ d.ins : i \in Item /\ i[1] \in t /\ i[2] <= n + 1
             /\ ~Twice(d) => ~Twice(doc')
    BY <1>1, <1>3, <1>5, Converged
<1>6. PICK n \in Nat : \A i \in Items : i[2] <= n
    BY DEF Shaped
<1> QED BY <1>1, <1>2, <1>4, <1>5, <1>6

LEMMA LoadedItems ==
    ASSUME Typed, Bounded, Shaped, Stages, LoadNote \/ LoadYstate
    PROVE  /\ UNCHANGED <<ystate, held>>
           /\ \A d \in {sqlite', doc'} : d = NoDoc \/ Proper(d)
           /\ \A i \in Items' \ Items : i \in Item /\ i[1] \in note.text \cup loading.note.text
           /\ \A n \in Nat : (\A i \in Items : i[2] <= n) => \A i \in Items' \ Items : i[2] <= n + 1
<1>1. UNCHANGED <<ystate, held>>
    BY DEF LoadNote, LoadYstate, couchVars, clientVars
<1>2. sqlite.ins \cup ystate.ins \cup (UNION {held[c].ins : c \in Clients}) \subseteq Items
    BY DEF Items
<1>3. CASE UNCHANGED <<doc, sqlite>>
    <2>1. Items' = Items
        BY <1>1, <1>3 DEF Items
    <2> QED BY <1>1, <1>3, <2>1 DEF Shaped
<1>4. ASSUME NEW d, Restores(d)
      PROVE  Items' \subseteq Items /\ \A e \in {sqlite', doc'} : e = NoDoc \/ Proper(e)
    <2>1. doc' = d /\ d.ins \subseteq Items /\ Proper(d) /\ UNCHANGED sqlite
        BY <1>4 DEF Restores
    <2>2. Items' \subseteq Items
        BY <1>1, <1>2, <2>1 DEF Items
    <2> QED BY <2>1, <2>2 DEF Shaped
<1>5. ASSUME NEW d, NEW t, Reseeds(d, t)
      PROVE  /\ \A e \in {sqlite', doc'} : e = NoDoc \/ Proper(e)
             /\ \A i \in Items' \ Items : i \in Item /\ i[1] \in note.text \cup loading.note.text
             /\ \A n \in Nat : (\A i \in Items : i[2] <= n) => \A i \in Items' \ Items : i[2] <= n + 1
    <2>1. d.ins \subseteq Items /\ t \subseteq note.text \cup loading.note.text
        BY <1>5 DEF Reseeds
    <2>2. sqlite' = doc'
        BY <1>5, Reseeded
    <2>3. Items' \ Items \subseteq doc'.ins \ d.ins
        BY <1>1, <1>2, <2>1, <2>2 DEF Items
    <2> QED BY <1>5, <2>1, <2>2, <2>3, Reseeded
<1>6. CASE \E d : Restores(d)
    BY <1>1, <1>4, <1>6
<1>7. CASE \E d, t : Reseeds(d, t)
    BY <1>1, <1>5, <1>7
<1> QED BY <1>3, <1>6, <1>7, LoadSteps

LEMMA InitShaped == Init => Shaped
<1> SUFFICES ASSUME Init PROVE Shaped OBVIOUS
<1>1. Items = {}
    BY DEF Init, Items, NoDoc, Empty
<1>2. \E n \in Nat : \A i \in Items : i[2] <= n
    BY <1>1
<1> QED BY <1>1, <1>2, ProperDoc DEF Init, Shaped

LEMMA StepShaped == Typed /\ Bounded /\ Shaped /\ Stages /\ [Next]_vars => Shaped'
<1> SUFFICES ASSUME Typed, Bounded, Shaped, Stages, [Next]_vars PROVE Shaped' OBVIOUS
<1>1. PICK n \in Nat : \A i \in Items : i[2] <= n
    BY DEF Shaped
<1>2. CASE LoadNote \/ LoadYstate
    <2>1. (\A d \in {ystate, sqlite, doc} : d = NoDoc \/ Proper(d))'
        BY <1>2, LoadedItems DEF Shaped
    <2>2. (\A c \in Clients : Proper(held[c]))'
        BY <1>2, LoadedItems DEF Shaped
    <2>3. Items' \subseteq Item
        BY <1>2, LoadedItems DEF Shaped
    <2>4. \A i \in Items' \ Items : i[2] <= n + 1
        BY <1>1, <1>2, LoadedItems
    <2>5. \A i \in Items' : i[2] <= n + 1
        BY <1>1, <2>4 DEF Shaped, Item, Word
    <2> QED BY <2>1, <2>2, <2>3, <2>5 DEF Shaped
<1>3. CASE ~(LoadNote \/ LoadYstate)
    <2>1. (\A d \in {ystate, sqlite, doc} : d = NoDoc \/ Proper(d))' /\ (\A c \in Clients : Proper(held[c]))'
        <3>1. CASE \E c \in Clients : ClientStep(c)
            BY <3>1, ClientDocs DEF Shaped
        <3>2. CASE ~(\E c \in Clients : ClientStep(c))
            <4>1. /\ sqlite' \in {sqlite, doc, NoDoc} /\ ystate' \in {ystate, doc} /\ doc' \in {doc, NoDoc}
                  /\ UNCHANGED held \/ Disconnect
                BY <1>3, <3>2, OtherDocs
            <4>2. \A c \in Clients : Proper(held'[c])
                BY <4>1 DEF Disconnect, Shaped, Stages
            <4> QED BY <4>1, <4>2 DEF Shaped
        <3> QED BY <3>1, <3>2
    <2>2. Items' \subseteq Items \cup {<<typed + 1, 1>>}
        BY <1>3, ClientItems, OtherItems
    <2>3. \A i \in Items' : i \in Item /\ i[2] <= n + 1
        <3>1. <<typed + 1, 1>> \in Item /\ <<typed + 1, 1>>[2] <= n + 1
            BY DEF Typed, Item, Word
        <3> QED BY <1>1, <2>2, <3>1 DEF Shaped, Item, Word
    <2> QED BY <2>1, <2>3 DEF Shaped
<1> QED BY <1>2, <1>3

(* The counters, and the words the note and the server have.                 *)

LEMMA StepFlags == Flags /\ [Next]_vars => Flags'
<1> SUFFICES ASSUME Flags, [Next]_vars PROVE Flags' OBVIOUS
<1> USE DEF Flags
<1>1. CASE LoadBegins \/ LoadFails \/ LoadRefused \/ LoadNote \/ LoadPersists \/ Unload \/ UNCHANGED vars
    BY <1>1 DEF LoadBegins, LoadFails, LoadRefused, LoadNote, LoadPersists, Unload, vars, serverVars
<1>2. CASE LoadYstate
    <2>1. UNCHANGED <<dirty, moved>> /\ (UNCHANGED lost \/ lost' = TRUE)
        BY <1>2 DEF LoadYstate
    <2> QED BY <2>1
<1>3. CASE Storage
    BY <1>3 DEF Storage, StoreBegins, StoreEndsSessions, StoreReads, StoreKeeps, StorePuts, StorePersists, Retry
<1>4. CASE StoreFails
    BY <1>4 DEF StoreFails, Retry
<1>5. ASSUME NEW c \in Clients, ClientStep(c) PROVE Flags'
    <2>1. CASE Connects(c)
        <3>1. UNCHANGED <<moved, lost>> /\ dirty' = (dirty \/ doc' # doc)
            BY <2>1 DEF Connects
        <3>2. CASE doc' = doc
            BY <3>1, <3>2
        <3>3. CASE doc' # doc
            BY <3>1, <3>3
        <3> QED BY <3>2, <3>3
    <2>2. CASE Opens(c) \/ Drops(c)
        BY <2>2 DEF Opens, Drops, serverVars
    <2>3. CASE Types(c) \/ Erases(c)
        BY <2>3 DEF Types, Erases, Edits
    <2>4. CASE Closes(c)
        BY <2>4 DEF Closes, WritesFile
    <2> QED BY <1>5, <2>1, <2>2, <2>3, <2>4 DEF ClientStep
<1>6. CASE FileChanges \/ ManagerDeletes \/ Crash
    BY <1>6 DEF FileChanges, WritesFile, ManagerDeletes, Crash
<1>7. CASE LosesSqlite
    <2>1. UNCHANGED <<dirty, moved>> /\ lost' = (lost \/ sqlite # ystate)
        BY <1>7 DEF LosesSqlite
    <2>2. CASE sqlite = ystate
        BY <2>1, <2>2
    <2>3. CASE sqlite # ystate
        BY <2>1, <2>3
    <2> QED BY <2>2, <2>3
<1> QED BY <1>1, <1>2, <1>3, <1>4, <1>5, <1>6, <1>7 DEF Next, Loading

LEMMA InitBounded == Init => Bounded /\ Flags
<1> SUFFICES ASSUME Init PROVE Bounded /\ Flags OBVIOUS
<1>1. MaxFiles \in Nat /\ MaxErasures \in Nat /\ MaxTroubles \in Nat
    BY RtDocumentAssumption
<1>2. Flags
    BY DEF Init, Flags
<1>3. files \in 0..MaxFiles /\ erasures \in 0..MaxErasures /\ drops = 0 /\ crashes = 0 /\ losses = 0 /\ faults = 0
    BY <1>1 DEF Init
<1>4. session \in [Clients -> {"none", "new", "on", "off"}]
    BY DEF Init
<1> QED BY <1>1, <1>2, <1>3, <1>4 DEF Bounded

\* What each step does to the counters.
LEMMA Counters ==
    ASSUME [Next]_vars
    PROVE  /\ UNCHANGED files \/ (files < MaxFiles /\ files' = files + 1)
           /\ UNCHANGED erasures \/ (erasures < MaxErasures /\ erasures' = erasures + 1)
           /\ \/ UNCHANGED <<drops, crashes, losses, faults>>
              \/ Bearable /\ drops' = drops + 1 /\ UNCHANGED <<crashes, losses, faults>>
              \/ Bearable /\ crashes' = crashes + 1 /\ UNCHANGED <<drops, losses, faults>>
              \/ Bearable /\ losses' = losses + 1 /\ UNCHANGED <<drops, crashes, faults>>
              \/ Bearable /\ faults' = faults + 1 /\ UNCHANGED <<drops, crashes, losses>>
<1>1. CASE LoadBegins \/ LoadFails \/ Unload \/ UNCHANGED vars
    BY <1>1 DEF LoadBegins, LoadFails, Unload, vars, bounds, Fault
<1>2. CASE LoadRefused \/ LoadNote
    BY <1>2 DEF LoadRefused, LoadNote, bounds
<1>3. CASE LoadYstate
    <2>1. UNCHANGED <<files, erasures, drops, crashes, losses>> /\ (UNCHANGED faults \/ Fault)
        BY <1>3 DEF LoadYstate
    <2> QED BY <2>1 DEF Fault
<1>4. CASE LoadPersists
    BY <1>4 DEF LoadPersists, Fault
<1>5. CASE StoreBegins \/ StoreEndsSessions \/ StoreReads \/ StoreKeeps
    BY <1>5 DEF StoreBegins, StoreEndsSessions, StoreReads, StoreKeeps, bounds
<1>6. CASE StorePuts \/ StorePersists \/ StoreFails
    BY <1>6 DEF StorePuts, StorePersists, StoreFails, Fault
<1>7. ASSUME NEW c \in Clients, Opens(c) \/ Connects(c) \/ Types(c)
      PROVE  UNCHANGED <<files, erasures, drops, crashes, losses, faults>>
    BY <1>7 DEF Opens, Connects, Types, bounds
<1>8. ASSUME NEW c \in Clients, Drops(c)
      PROVE  UNCHANGED <<files, erasures, crashes, losses, faults>> /\ Bearable /\ drops' = drops + 1
    BY <1>8 DEF Drops
<1>9. ASSUME NEW c \in Clients, Erases(c)
      PROVE  UNCHANGED <<files, drops, crashes, losses, faults>> /\ erasures < MaxErasures /\ erasures' = erasures + 1
    BY <1>9 DEF Erases
<1>10. ASSUME NEW c \in Clients, Closes(c)
       PROVE  /\ UNCHANGED <<erasures, drops, crashes, losses, faults>>
              /\ UNCHANGED files \/ (files < MaxFiles /\ files' = files + 1)
    BY <1>10 DEF Closes, WritesFile
<1>11. CASE FileChanges
    BY <1>11 DEF FileChanges, WritesFile
<1>12. CASE ManagerDeletes \/ Crash \/ LosesSqlite
    BY <1>12 DEF ManagerDeletes, Crash, LosesSqlite, bounds
<1> QED BY <1>1, <1>2, <1>3, <1>4, <1>5, <1>6, <1>7, <1>8, <1>9, <1>10, <1>11, <1>12
        DEF Next, Loading, Storage, ClientStep

LEMMA Sessions ==
    ASSUME session \in [Clients -> {"none", "new", "on", "off"}], [Next]_vars
    PROVE  session' \in [Clients -> {"none", "new", "on", "off"}]
<1>1. ASSUME NEW c \in Clients, ClientStep(c) PROVE session' \in [Clients -> {"none", "new", "on", "off"}]
    <2>1. UNCHANGED session \/ \E s \in {"none", "new", "on", "off"} : session' = [session EXCEPT ![c] = s]
        BY <1>1 DEF ClientStep, Opens, Connects, Drops, Types, Erases, Closes
    <2> QED BY <2>1
<1>2. UNCHANGED session \/ Disconnect \/ \E c \in Clients : ClientStep(c)
    <2>1. CASE Loading \/ LoadBegins \/ LoadFails \/ StoreFails \/ Unload \/ UNCHANGED vars
        BY <2>1 DEF Loading, LoadNote, LoadYstate, LoadPersists, LoadRefused, LoadBegins, LoadFails, StoreFails,
                    Unload, vars, clientVars
    <2>2. CASE Storage
        BY <2>2 DEF Storage, StoreBegins, StoreEndsSessions, StoreReads, StoreKeeps, StorePuts, StorePersists,
                    clientVars
    <2>3. CASE FileChanges \/ ManagerDeletes \/ Crash \/ LosesSqlite
        BY <2>3 DEF FileChanges, ManagerDeletes, Crash, LosesSqlite, clientVars
    <2> QED BY <2>1, <2>2, <2>3 DEF Next
<1> QED BY <1>1, <1>2 DEF Disconnect

LEMMA StepBounded == Bounded /\ [Next]_vars => Bounded'
<1> SUFFICES ASSUME Bounded, [Next]_vars PROVE Bounded' OBVIOUS
<1>1. MaxFiles \in Nat /\ MaxErasures \in Nat /\ MaxTroubles \in Nat
    BY RtDocumentAssumption
<1>2. session' \in [Clients -> {"none", "new", "on", "off"}]
    BY Sessions DEF Bounded
<1>3. files' \in 0..MaxFiles
    BY <1>1, Counters DEF Bounded
<1>4. erasures' \in 0..MaxErasures
    BY <1>1, Counters DEF Bounded
<1>5. /\ drops' \in Nat /\ crashes' \in Nat /\ losses' \in Nat /\ faults' \in Nat
      /\ drops' + crashes' + losses' + faults' <= MaxTroubles
    BY <1>1, Counters DEF Bounded, Bearable
<1> QED BY <1>2, <1>3, <1>4, <1>5 DEF Bounded

LEMMA InitCounted == Init => Counted
<1> SUFFICES ASSUME Init PROVE Counted OBVIOUS
<1>1. MaxWords \in Nat \ {0}
    BY RtDocumentAssumption
<1>2. Items = {}
    BY DEF Init, Items, NoDoc, Empty
<1>3. note.text \subseteq 1..1
    BY DEF Init, NoNote
<1> QED BY <1>1, <1>2, <1>3 DEF Init, Counted, NotLoading, NoNote, NotStoring

\* Every word in use has been typed.
LEMMA StepCounted ==
    Typed /\ Bounded /\ Shaped /\ Stages /\ Counted /\ [Next]_vars => Counted'
<1> SUFFICES ASSUME Typed, Bounded, Shaped, Stages, Counted, [Next]_vars PROVE Counted' OBVIOUS
<1>1. typed' = typed \/ (typed < MaxWords /\ typed' = typed + 1)
    <2>1. CASE Loading \/ LoadBegins \/ LoadFails \/ StoreFails \/ Unload \/ UNCHANGED vars
        BY <2>1 DEF Loading, LoadNote, LoadYstate, LoadPersists, LoadRefused, LoadBegins, LoadFails, StoreFails,
                    Unload, vars, clientVars
    <2>2. CASE Storage
        BY <2>2 DEF Storage, StoreBegins, StoreEndsSessions, StoreReads, StoreKeeps, StorePuts, StorePersists,
                    clientVars
    <2>3. CASE FileChanges \/ ManagerDeletes \/ Crash \/ LosesSqlite
        BY <2>3 DEF FileChanges, ManagerDeletes, Crash, LosesSqlite, clientVars
    <2>4. CASE \E c \in Clients : ClientStep(c)
        BY <2>4 DEF ClientStep, Opens, Connects, Drops, Types, Erases, Closes
    <2> QED BY <2>1, <2>2, <2>3, <2>4 DEF Next
<1>2. typed' \in 1..MaxWords /\ 1..typed \subseteq 1..typed' /\ typed \in Nat /\ typed' \in Nat /\ typed <= typed'
    BY <1>1, RtDocumentAssumption DEF Counted
<1> DEFINE W == 1..typed'
<1>3. /\ note.text \subseteq W /\ loading.note.text \subseteq W /\ storing.text \subseteq W /\ storing.read \subseteq W
      /\ versions \subseteq SUBSET W
      /\ known \subseteq W \/ known = None
      /\ owed \subseteq W \/ owed = None
    BY <1>2 DEF Counted
<1>4. \A i \in Items : i[1] \in W
    BY <1>2 DEF Counted, Shaped, Item, Word
<1>5. /\ NotLoading.note.text = {} /\ NotStoring.text = {} /\ NotStoring.read = {}
      /\ Text(doc) \subseteq W /\ \A c \in Clients : Text(Holds(c)) \subseteq W
    BY <1>4 DEF Text, Live, Holds, Items, NotLoading, NoNote, NotStoring
<1> HIDE DEF W
<1>6. \A i \in Items' : i[1] \in W
    <2>1. CASE LoadNote \/ LoadYstate
        BY <1>3, <1>4, <2>1, LoadedItems
    <2>2. CASE \E c \in Clients : ClientStep(c) /\ Types(c)
        <3>1. Items' \subseteq Items \cup {<<typed + 1, 1>>}
            BY <2>2, ClientItems
        <3>2. typed + 1 \in W
            BY <1>2, <2>2 DEF Types, W
        <3> QED BY <1>4, <3>1, <3>2
    <2>3. CASE ~(LoadNote \/ LoadYstate \/ \E c \in Clients : ClientStep(c) /\ Types(c))
        BY <1>4, <2>3, ClientItems, OtherItems
    <2> QED BY <2>1, <2>2, <2>3
<1>7. ASSUME NEW t, t \subseteq W, WritesFile(t)
      PROVE  note'.text \subseteq W /\ (owed' \subseteq W \/ owed' = None)
    BY <1>7 DEF WritesFile
<1>8. note'.text \subseteq W /\ (owed' \subseteq W \/ owed' = None)
    <2>1. CASE Loading \/ LoadBegins \/ LoadFails \/ StoreFails \/ Unload \/ UNCHANGED vars \/ LosesSqlite \/ Crash
        <3>1. UNCHANGED note /\ (UNCHANGED owed \/ owed' = None)
            BY <2>1 DEF Loading, LoadNote, LoadYstate, LoadPersists, LoadRefused, LoadBegins, LoadFails, StoreFails,
                        Unload, vars, LosesSqlite, Crash, couchVars
        <3> QED BY <1>3, <3>1
    <2>2. CASE Storage
        <3>1. (UNCHANGED note \/ Snapshot) /\ (UNCHANGED owed \/ owed' = None)
            BY <2>2 DEF Storage, StoreBegins, StoreEndsSessions, StoreReads, StoreKeeps, StorePuts, StorePersists,
                        couchVars
        <3> QED BY <1>3, <3>1 DEF Snapshot
    <2>3. CASE FileChanges
        <3>1. CASE WritesFile(note.text \cup {typed'})
            <4>1. note.text \cup {typed'} \subseteq W
                BY <1>2, <1>3 DEF W
            <4> QED BY <1>7, <3>1, <4>1
        <3>2. CASE \E w \in note.text : WritesFile(note.text \ {w})
            <4>1. PICK w \in note.text : WritesFile(note.text \ {w})
                BY <3>2
            <4>2. note.text \ {w} \subseteq W
                BY <1>3
            <4> QED BY <1>7, <4>1, <4>2
        <3> QED BY <2>3, <3>1, <3>2 DEF FileChanges
    <2>4. CASE ManagerDeletes
        <3>1. note'.text = note.text /\ owed' = None
            BY <2>4 DEF ManagerDeletes, Typed, Notes
        <3> QED BY <1>3, <3>1
    <2>5. ASSUME NEW c \in Clients, ClientStep(c) PROVE note'.text \subseteq W /\ (owed' \subseteq W \/ owed' = None)
        <3>1. UNCHANGED <<note, owed>> \/ WritesFile(Text(Holds(c)))
            BY <2>5 DEF ClientStep, Opens, Connects, Drops, Types, Erases, Closes, couchVars
        <3> QED BY <1>3, <1>5, <1>7, <3>1
    <2> QED BY <2>1, <2>2, <2>3, <2>4, <2>5 DEF Next
<1>9. loading'.note.text \subseteq W
    <2>1. CASE LoadNote
        <3>1. loading' = [at |-> "ystate", note |-> note] \/ loading' = NotLoading
              \/ loading' = [NotLoading EXCEPT !.at = "persist"]
            BY <2>1 DEF LoadNote, Reseed
        <3> QED BY <1>3, <1>5, <3>1 DEF NotLoading
    <2>2. CASE LoadYstate \/ LoadPersists \/ LoadRefused \/ LoadBegins \/ LoadFails \/ Crash
        <3>1. loading' = NotLoading \/ \E a : loading' = [NotLoading EXCEPT !.at = a]
            BY <2>2 DEF LoadYstate, LoadPersists, LoadRefused, LoadBegins, LoadFails, Crash, Reseed
        <3> QED BY <1>5, <3>1 DEF NotLoading
    <2>3. CASE Storage
        BY <1>3, <2>3 DEF Storage, StoreBegins, StoreEndsSessions, StoreReads, StoreKeeps, StorePuts, StorePersists
    <2>4. CASE StoreFails \/ Unload \/ FileChanges \/ ManagerDeletes \/ LosesSqlite \/ UNCHANGED vars
        BY <1>3, <2>4 DEF StoreFails, Unload, FileChanges, ManagerDeletes, LosesSqlite, vars, serverVars
    <2>5. CASE \E c \in Clients : ClientStep(c)
        BY <1>3, <2>5 DEF ClientStep, Opens, Connects, Drops, Types, Erases, Closes, serverVars
    <2> QED BY <2>1, <2>2, <2>3, <2>4, <2>5 DEF Next, Loading
<1>10. storing'.text \subseteq W /\ storing'.read \subseteq W
    <2>1. CASE StoreBegins
        BY <1>5, <2>1 DEF StoreBegins
    <2>2. CASE StoreReads
        <3>1. storing'.text = storing.text /\ storing'.read = note.text
            BY <2>2 DEF StoreReads, Typed
        <3> QED BY <1>3, <3>1
    <2>3. CASE StoreKeeps \/ StorePuts
        <3>1. storing' = NotStoring \/ \E a : storing' = [storing EXCEPT !.at = a]
            BY <2>3 DEF StoreKeeps, StorePuts, Retry, Stored
        <3> QED BY <1>3, <1>5, <3>1 DEF Typed
    <2>4. CASE StoreEndsSessions \/ StorePersists \/ StoreFails \/ Crash
        BY <1>5, <2>4 DEF StoreEndsSessions, StorePersists, StoreFails, Retry, Stored, Crash
    <2>5. CASE Loading \/ LoadBegins \/ LoadFails \/ Unload \/ UNCHANGED vars
        BY <1>3, <2>5 DEF Loading, LoadNote, LoadYstate, LoadPersists, LoadRefused, LoadBegins, LoadFails, Unload,
                          vars, serverVars
    <2>6. CASE FileChanges \/ ManagerDeletes \/ LosesSqlite
        BY <1>3, <2>6 DEF FileChanges, ManagerDeletes, LosesSqlite
    <2>7. CASE \E c \in Clients : ClientStep(c)
        BY <1>3, <2>7 DEF ClientStep, Opens, Connects, Drops, Types, Erases, Closes, serverVars
    <2> QED BY <2>1, <2>2, <2>3, <2>4, <2>5, <2>6, <2>7 DEF Next, Storage
<1>11. versions' \subseteq SUBSET W
    <2>1. UNCHANGED versions \/ versions' = versions \cup {storing.read}
        <3>1. CASE Storage
            BY <3>1 DEF Storage, StoreBegins, StoreEndsSessions, StoreReads, StoreKeeps, StorePuts, StorePersists,
                        couchVars
        <3>2. CASE Loading \/ LoadBegins \/ LoadFails \/ StoreFails \/ Unload \/ UNCHANGED vars
            BY <3>2 DEF Loading, LoadNote, LoadYstate, LoadPersists, LoadRefused, LoadBegins, LoadFails, StoreFails,
                        Unload, vars, couchVars
        <3>3. CASE FileChanges \/ ManagerDeletes \/ LosesSqlite \/ Crash
            BY <3>3 DEF FileChanges, ManagerDeletes, LosesSqlite, Crash, couchVars
        <3>4. CASE \E c \in Clients : ClientStep(c)
            BY <3>4 DEF ClientStep, Opens, Connects, Drops, Types, Erases, Closes, couchVars
        <3> QED BY <3>1, <3>2, <3>3, <3>4 DEF Next
    <2> QED BY <1>3, <2>1
<1>12. known' \subseteq W \/ known' = None
    <2>1. known' \in {known, note.text, storing.text, None}
        <3>1. CASE Storage
            BY <3>1 DEF Storage, StoreBegins, StoreEndsSessions, StoreReads, StoreKeeps, StorePuts, StorePersists
        <3>2. CASE Loading \/ LoadBegins \/ LoadFails \/ StoreFails \/ Unload \/ UNCHANGED vars
            BY <3>2 DEF Loading, LoadNote, LoadYstate, LoadPersists, LoadRefused, LoadBegins, LoadFails, StoreFails,
                        Unload, vars, serverVars
        <3>3. CASE FileChanges \/ ManagerDeletes \/ LosesSqlite \/ Crash
            BY <3>3 DEF FileChanges, ManagerDeletes, LosesSqlite, Crash
        <3>4. CASE \E c \in Clients : ClientStep(c)
            BY <3>4 DEF ClientStep, Opens, Connects, Drops, Types, Erases, Closes, serverVars
        <3> QED BY <3>1, <3>2, <3>3, <3>4 DEF Next
    <2> QED BY <1>3, <2>1
<1>13. \A i \in Items' : i[1] <= typed'
    BY <1>2, <1>6 DEF W
<1> QED BY <1>2, <1>8, <1>9, <1>10, <1>11, <1>12, <1>13 DEF Counted, W

(* What a client that comes back makes of the document.                      *)

Sound == Typed /\ Bounded /\ Flags /\ Shaped /\ Stages /\ Counted /\ DeletionIsSeen /\ Good

LEMMA LostStays == Flags /\ [Next]_vars => (lost => lost')
<1> SUFFICES ASSUME Flags, [Next]_vars, lost PROVE lost' OBVIOUS
<1>1. CASE LoadBegins \/ LoadFails \/ LoadRefused \/ LoadNote \/ LoadPersists \/ Unload \/ UNCHANGED vars
    BY <1>1 DEF LoadBegins, LoadFails, LoadRefused, LoadNote, LoadPersists, Unload, vars
<1>2. CASE LoadYstate
    <2>1. CASE UNCHANGED lost
        BY <2>1
    <2>2. CASE lost' = TRUE
        BY <2>2
    <2> QED BY <1>2, <2>1, <2>2 DEF LoadYstate
<1>3. CASE Storage \/ StoreFails
    BY <1>3 DEF Storage, StoreBegins, StoreEndsSessions, StoreReads, StoreKeeps, StorePuts, StorePersists, StoreFails
<1>4. CASE \E c \in Clients : ClientStep(c)
    BY <1>4 DEF ClientStep, Opens, Connects, Drops, Types, Erases, Closes
<1>5. CASE FileChanges \/ ManagerDeletes \/ Crash \/ LosesSqlite
    BY <1>5 DEF FileChanges, ManagerDeletes, Crash, LosesSqlite
<1> QED BY <1>1, <1>2, <1>3, <1>4, <1>5 DEF Next, Loading

\* What is the case after a step and was before.
LEMMA Backwards ==
    ASSUME Sound, [Next]_vars
    PROVE  /\ Quiet' => Quiet
           /\ files' = 0 => files = 0 /\ UNCHANGED files
           /\ crashes' = 0 => crashes = 0
           /\ note'.deleted # "manager" => note.deleted # "manager"
           /\ Alive' => Alive
<1>1. files \in Nat /\ crashes \in Nat
    BY RtDocumentAssumption DEF Sound, Bounded
<1>2. (files' = 0 => files = 0 /\ UNCHANGED files) /\ (crashes' = 0 => crashes = 0)
    BY <1>1, Counters
<1>3. lost => lost'
    BY LostStays DEF Sound
<1>4. note'.deleted # "manager" => note.deleted # "manager"
    BY StepSees DEF Sound
<1>5. Quiet' => Quiet
    BY <1>2, <1>3 DEF Quiet
<1>6. ASSUME ~Alive PROVE ~Alive'
    <2>1. doc = NoDoc /\ note.deleted = "manager" /\ loading.at # "ystate" /\ note'.deleted = "manager"
        BY <1>4, <1>6, StepSees DEF Alive, Sound
    <2>2. ~LoadNote /\ ~LoadYstate
        BY <2>1 DEF LoadNote, LoadYstate
    <2>3. doc' = NoDoc
        <3>1. ASSUME NEW c \in Clients, ClientStep(c) PROVE UNCHANGED doc
            BY <2>1, <3>1 DEF ClientStep, Opens, Connects, Drops, Types, Erases, Edits, Closes, Open, serverVars
        <3> QED BY <2>1, <2>2, <3>1, OtherDocs
    <2>4. loading'.at # "ystate"
        <3>1. CASE LoadPersists \/ LoadRefused \/ LoadBegins \/ LoadFails \/ Crash
            <4>1. loading' = NotLoading \/ loading' = [NotLoading EXCEPT !.at = "note"]
                BY <3>1 DEF LoadPersists, LoadRefused, LoadBegins, LoadFails, Crash
            <4> QED BY <4>1 DEF NotLoading
        <3>2. CASE Storage
            BY <2>1, <3>2 DEF Storage, StoreBegins, StoreEndsSessions, StoreReads, StoreKeeps, StorePuts, StorePersists
        <3>3. CASE StoreFails \/ Unload \/ FileChanges \/ ManagerDeletes \/ LosesSqlite \/ UNCHANGED vars
            BY <2>1, <3>3 DEF StoreFails, Unload, FileChanges, ManagerDeletes, LosesSqlite, vars, serverVars
        <3>4. CASE \E c \in Clients : ClientStep(c)
            BY <2>1, <3>4 DEF ClientStep, Opens, Connects, Drops, Types, Erases, Closes, serverVars
        <3> QED BY <2>2, <3>1, <3>2, <3>3, <3>4 DEF Next, Loading
    <2> QED BY <2>1, <2>3, <2>4 DEF Alive
<1> QED BY <1>2, <1>4, <1>5, <1>6

\* The four parts of Good after a step.
LEMMA GoodLater ==
    ASSUME Quiet' =>
             /\ Alive' => Basis(Main', Items', Awaited')
             /\ files' = 0 /\ note'.deleted # "manager" => Basis(Base', Items', Awaited')
             /\ crashes' = 0 /\ Alive' =>
                  /\ sqlite'.ins \subseteq Main'.ins /\ ystate'.ins \subseteq Main'.ins
                  /\ \A c, o \in Clients : c # o => held'[c].ins \cap held'[o].ins \subseteq Main'.ins
             /\ doc' # NoDoc /\ note'.deleted # "manager" /\ ~dirty' => AsStored'
    PROVE  Good'
<1>1. Quiet' /\ Alive' => Basis(Main, Items, Awaited)'
    BY DEF Basis, Twice, Live, WordsOf
<1>2. Quiet' /\ files' = 0 /\ note'.deleted # "manager" => Basis(Base, Items, Awaited)'
    BY DEF Basis, Twice, Live, WordsOf
<1>3. Quiet' /\ crashes' = 0 /\ Alive' => Exclusive(Main)'
    BY DEF Exclusive
<1> QED BY <1>1, <1>2, <1>3 DEF Good

\* A step that leaves the documents of the server.
LEMMA StillGood ==
    ASSUME Sound, [Next]_vars, UNCHANGED doc, ~dirty' => ~dirty, Awaited' \subseteq Awaited, Items' \subseteq Items,
           Quiet' => Base' = Base,
           Quiet' => sqlite'.ins \subseteq sqlite.ins \cup Main.ins /\ ystate'.ins \subseteq ystate.ins \cup Main.ins,
           \A c, o \in Clients : c # o =>
             held'[c].ins \cap held'[o].ins \subseteq (held[c].ins \cap held[o].ins) \cup Main.ins
    PROVE  Good'
<1>1. SUFFICES ASSUME Quiet'
               PROVE  /\ Alive' => Basis(Main', Items', Awaited')
                      /\ files' = 0 /\ note'.deleted # "manager" => Basis(Base', Items', Awaited')
                      /\ crashes' = 0 /\ Alive' =>
                           /\ sqlite'.ins \subseteq Main'.ins /\ ystate'.ins \subseteq Main'.ins
                           /\ \A c, o \in Clients : c # o => held'[c].ins \cap held'[o].ins \subseteq Main'.ins
                      /\ doc' # NoDoc /\ note'.deleted # "manager" /\ ~dirty' => AsStored'
    BY GoodLater
<1>2. Base' = Base /\ Main' = Main
    BY <1>1 DEF Main
<1>3. Quiet
    BY <1>1, Backwards
<1>4. Alive' => Basis(Main', Items', Awaited')
    BY <1>2, <1>3, Backwards, BasisShrinks DEF Sound, Good
<1>5. files' = 0 /\ note'.deleted # "manager" => Basis(Base', Items', Awaited')
    BY <1>2, <1>3, Backwards, BasisShrinks DEF Sound, Good
<1>6. ASSUME crashes' = 0, Alive'
      PROVE  /\ sqlite'.ins \subseteq Main'.ins /\ ystate'.ins \subseteq Main'.ins
             /\ \A c, o \in Clients : c # o => held'[c].ins \cap held'[o].ins \subseteq Main'.ins
    <2>1. Exclusive(Main)
        BY <1>3, <1>6, Backwards DEF Sound, Good
    <2> QED BY <1>1, <1>2, <2>1 DEF Exclusive
<1>7. doc' # NoDoc /\ note'.deleted # "manager" /\ ~dirty' => AsStored'
    <2>1. doc # NoDoc /\ note.deleted # "manager" /\ ~dirty => AsStored
        BY <1>3 DEF Sound, Good
    <2> QED BY <1>2, <2>1, Backwards DEF AsStored
<1> QED BY <1>4, <1>5, <1>6, <1>7

LEMMA Loads ==
    ASSUME Sound, [Next]_vars, LoadNote \/ LoadYstate PROVE Good'
<1>1. doc = NoDoc /\ storing.at = "no" /\ Alive /\ UNCHANGED <<note, ystate, storing, held>>
    BY DEF LoadNote, LoadYstate, Sound, Stages, Alive, couchVars, clientVars
<1>2. sqlite.ins \subseteq Items /\ ystate.ins \subseteq Items /\ \A c \in Clients : held[c].ins \subseteq Items
    BY DEF Items
<1>3. CASE LoadNote /\ sqlite = NoDoc /\ UNCHANGED <<doc, sqlite>> /\ loading' = [at |-> "ystate", note |-> note]
    <2>1. Items' = Items /\ Base' = Base /\ UNCHANGED dirty
        BY <1>1, <1>3 DEF Items, Base, LoadNote
    <2>2. Awaited' \subseteq Awaited
        BY <1>1, <1>3 DEF Awaited, LoadNote
    <2> QED BY <1>1, <1>3, <2>1, <2>2, StillGood
<1>4. ASSUME NEW d, Quiet', \/ LoadNote /\ d = sqlite /\ Proper(d)
                            \/ LoadYstate /\ (lost' \/ d = ystate \/ (ystate = NoDoc /\ d = Empty))
      PROVE  /\ Basis(d, Items, Awaited) /\ (d = Base \/ (Base = NoDoc /\ d = Empty))
             /\ crashes = 0 => Exclusive(d)
    <2>1. d = Base \/ (Base = NoDoc /\ d = Empty)
        <3>1. CASE LoadNote /\ d = sqlite /\ Proper(d)
            BY <3>1, ProperDoc DEF Base
        <3>2. CASE LoadYstate /\ (d = ystate \/ (ystate = NoDoc /\ d = Empty))
            BY <3>2 DEF Base, LoadYstate, Sound, Stages
        <3> QED BY <1>4, <3>1, <3>2 DEF Quiet
    <2>2. Main = Base
        BY <1>1 DEF Main
    <2>3. Basis(Base, Items, Awaited) /\ (crashes = 0 => Exclusive(Base))
        BY <1>1, <1>4, <2>2, Backwards DEF Sound, Good
    <2>4. CASE d = Base
        BY <2>1, <2>3, <2>4
    <2>5. CASE Base = NoDoc /\ d = Empty
        <3>1. Basis(Empty, Items, Awaited)
            BY <2>3, <2>5, EmptyBasis
        <3>2. Exclusive(NoDoc) => Exclusive(Empty)
            BY DEF Exclusive, NoDoc, Empty
        <3> QED BY <2>1, <2>3, <2>5, <3>1, <3>2
    <2> QED BY <2>1, <2>4, <2>5
<1>5. ASSUME NEW d, Restores(d) PROVE Good'
    <2>1. doc' = d /\ loading'.at = "no" /\ UNCHANGED sqlite /\ d.ins \subseteq Items /\ Proper(d)
        BY <1>5 DEF Restores, NotLoading
    <2>2. Main' = d /\ Base' = Base /\ doc' # NoDoc
        BY <1>1, <2>1, ProperDoc DEF Main, Base
    <2>3. Items' \subseteq Items
        BY <1>1, <1>2, <2>1 DEF Items
    <2>4. Awaited' \subseteq Awaited
        BY <1>1, <2>1 DEF Awaited
    <2>5. SUFFICES ASSUME Quiet'
                   PROVE  /\ Basis(d, Items', Awaited')
                          /\ files' = 0 /\ note'.deleted # "manager" => Basis(Base, Items', Awaited')
                          /\ crashes' = 0 =>
                               /\ sqlite'.ins \subseteq d.ins /\ ystate'.ins \subseteq d.ins
                               /\ \A c, o \in Clients : c # o => held'[c].ins \cap held'[o].ins \subseteq d.ins
                          /\ AsStored'
        BY <2>2, GoodLater
    <2>6. /\ Basis(d, Items, Awaited) /\ (d = Base \/ (Base = NoDoc /\ d = Empty))
          /\ crashes = 0 => Exclusive(d)
        BY <1>4, <1>5, <2>5 DEF Restores
    <2>7. Basis(d, Items', Awaited')
        BY <2>3, <2>4, <2>6, BasisShrinks
    <2>8. files' = 0 /\ note'.deleted # "manager" => Basis(Base, Items', Awaited')
        BY <2>3, <2>4, <2>5, Backwards, BasisShrinks DEF Sound, Good
    <2>9. AsStored'
        BY <2>1, <2>2, <2>6 DEF AsStored
    <2> QED BY <1>1, <2>1, <2>6, <2>7, <2>8, <2>9, Backwards DEF Exclusive
<1>6. ASSUME NEW d, NEW t, Reseeds(d, t) PROVE Good'
    <2>1. /\ sqlite' = doc' /\ loading'.at = "persist" /\ Proper(doc') /\ d.ins \subseteq doc'.ins
          /\ \A i \in doc'.ins \ d.ins : i[1] \in t
          /\ ~Twice(d) => ~Twice(doc')
        BY <1>6, Reseeded DEF Sound
    <2>2. d.ins \subseteq Items /\ t \subseteq Awaited
        BY <1>6 DEF Reseeds, Awaited, LoadNote, LoadYstate
    <2>3. Main' = doc' /\ Base' = doc' /\ doc' # NoDoc
        BY <2>1, ProperDoc DEF Main, Base
    <2>4. Items' \subseteq Items \cup doc'.ins
        BY <1>1, <1>2, <2>1 DEF Items
    <2>5. Awaited' \subseteq Awaited
        BY <1>1, <2>1 DEF Awaited
    <2>6. SUFFICES ASSUME Quiet'
                   PROVE  /\ Basis(doc', Items', Awaited')
                          /\ crashes' = 0 =>
                               /\ ystate'.ins \subseteq doc'.ins
                               /\ \A c, o \in Clients : c # o => held'[c].ins \cap held'[o].ins \subseteq doc'.ins
        BY <2>1, <2>3, GoodLater DEF AsStored
    <2>7. Basis(d, Items, Awaited) /\ (crashes = 0 => Exclusive(d))
        BY <1>4, <1>6, <2>6 DEF Reseeds
    <2>8. Basis(doc', Items \cup doc'.ins, Awaited)
        <3>1. ~Twice(d)
            BY <2>7 DEF Basis
        <3> QED BY <2>1, <2>2, <2>7, <3>1, BasisConverges
    <2>9. Basis(doc', Items', Awaited')
        BY <2>4, <2>5, <2>8, BasisShrinks
    <2> QED BY <1>1, <2>1, <2>7, <2>9, Backwards DEF Exclusive
<1> QED BY <1>3, <1>5, <1>6, LoadSteps DEF Sound

LEMMA DisconnectShares ==
    ASSUME Sound, Disconnect, NEW c \in Clients, NEW o \in Clients
    PROVE  held'[c].ins \cap held'[o].ins \subseteq (held[c].ins \cap held[o].ins) \cup doc.ins
BY DEF Disconnect

LEMMA Stores ==
    ASSUME Sound, [Next]_vars, Storage \/ StoreFails PROVE Good'
<1>1. doc # NoDoc /\ storing.at # "no" => sqlite # NoDoc /\ loading.at \notin {"note", "ystate", "persist"}
    BY DEF Sound, Stages
<1>2. NotStoring.at = "no"
    BY DEF NotStoring
<1>3. CASE StoreBegins
    <2>1. /\ sqlite' = doc /\ UNCHANGED <<doc, ystate, held, note, loading, crashes>> /\ doc # NoDoc
          /\ storing' = NotStoring \/ storing' = [at |-> "get", text |-> Text(doc), read |-> {}]
        BY <1>3 DEF StoreBegins, couchVars, clientVars, bounds, Open
    <2>2. Main = doc /\ Main' = doc /\ Base' = doc /\ Alive /\ AsStored'
        BY <2>1 DEF Main, Base, Alive, AsStored
    <2>3. Items' \subseteq Items
        BY <2>1 DEF Items
    <2>4. Awaited' \subseteq Awaited \cup Text(doc)
        BY <1>2, <2>1 DEF Awaited
    <2>5. SUFFICES ASSUME Quiet'
                   PROVE  /\ Basis(doc, Items', Awaited')
                          /\ crashes' = 0 =>
                               /\ sqlite'.ins \subseteq doc.ins /\ ystate'.ins \subseteq doc.ins
                               /\ \A c, o \in Clients : c # o => held'[c].ins \cap held'[o].ins \subseteq doc.ins
        BY <2>2, GoodLater
    <2>6. Basis(doc, Items, Awaited) /\ (crashes = 0 => Exclusive(doc))
        BY <2>2, <2>5, Backwards DEF Sound, Good
    <2>7. Basis(doc, Items', Awaited')
        BY <2>3, <2>4, <2>6, BasisReads, BasisShrinks
    <2> QED BY <2>1, <2>6, <2>7 DEF Exclusive
<1>4. CASE StoreFails
    <2>1. UNCHANGED <<sqlite, ystate, doc, held, note, loading>> /\ storing' = NotStoring /\ dirty' = TRUE
        BY <1>4 DEF StoreFails, Retry, Stored, couchVars, clientVars
    <2>2. Items' = Items /\ Base' = Base /\ Awaited' \subseteq Awaited
        BY <1>2, <2>1 DEF Items, Base, Awaited
    <2> QED BY <2>1, <2>2, StillGood
<1>5. CASE StoreEndsSessions
    <2>1. /\ note'.deleted = "manager" /\ storing' = NotStoring /\ UNCHANGED <<note, doc, ystate, loading>>
          /\ sqlite' = NoDoc /\ Disconnect /\ doc # NoDoc
        BY <1>5 DEF StoreEndsSessions, Stored, couchVars, Sound, Stages
    <2>2. Main = doc /\ Main' = doc /\ Alive
        BY <2>1 DEF Main, Alive
    <2>3. Items' \subseteq Items
        BY <2>1 DEF Items, Disconnect, NoDoc
    <2>4. Awaited' \subseteq Awaited
        BY <1>2, <2>1 DEF Awaited
    <2>5. SUFFICES ASSUME Quiet'
                   PROVE  /\ Basis(doc, Items', Awaited')
                          /\ crashes' = 0 =>
                               /\ sqlite'.ins \subseteq doc.ins /\ ystate'.ins \subseteq doc.ins
                               /\ \A c, o \in Clients : c # o => held'[c].ins \cap held'[o].ins \subseteq doc.ins
        BY <2>1, <2>2, GoodLater
    <2>6. Basis(doc, Items, Awaited) /\ (crashes' = 0 => Exclusive(doc))
        BY <2>2, <2>5, Backwards DEF Sound, Good
    <2>7. Basis(doc, Items', Awaited')
        BY <2>3, <2>4, <2>6, BasisShrinks
    <2> QED BY <2>1, <2>6, <2>7, DisconnectShares DEF Exclusive, NoDoc
<1>6. CASE StoreReads \/ StoreKeeps
    <2>1. /\ UNCHANGED <<sqlite, ystate, doc, held, note, loading, dirty>> /\ storing.at # "no"
          /\ storing'.text = storing.text
        BY <1>6 DEF StoreReads, StoreKeeps, couchVars, clientVars, Sound, Typed
    <2>2. Items' = Items /\ Base' = Base /\ Awaited' \subseteq Awaited
        BY <2>1 DEF Items, Base, Awaited
    <2> QED BY <2>1, <2>2, StillGood
<1>7. CASE StorePuts
    <2>1. UNCHANGED <<sqlite, ystate, doc, held, loading>> /\ storing.at # "no" /\ (UNCHANGED dirty \/ dirty' = TRUE)
        BY <1>7 DEF StorePuts, Retry, clientVars
    <2>2. storing' = NotStoring \/ storing' = [storing EXCEPT !.at = "persist"]
        BY <1>7 DEF StorePuts, Retry, Stored
    <2>3. (IF storing'.at # "no" THEN storing'.text ELSE {}) \subseteq storing.text
        BY <1>2, <2>2 DEF Sound, Typed
    <2>4. loading.at # "ystate" /\ storing.text \subseteq Awaited
        BY <2>1 DEF Sound, Stages, Awaited
    <2>5. Awaited' \subseteq Awaited
        <3>1. CASE UNCHANGED note
            BY <2>1, <2>3, <2>4, <3>1 DEF Awaited
        <3>2. CASE Snapshot
            <4>1. note'.text = storing.text
                BY <3>2 DEF Snapshot
            <4> QED BY <2>1, <2>3, <2>4, <4>1 DEF Awaited
        <3> QED BY <1>7, <3>1, <3>2 DEF StorePuts
    <2>6. Items' = Items /\ Base' = Base
        BY <2>1 DEF Items, Base
    <2> QED BY <2>1, <2>5, <2>6, StillGood
<1>8. CASE StorePersists
    <2>1. /\ UNCHANGED <<sqlite, doc, held, note, loading, dirty>> /\ storing' = NotStoring /\ ystate' \in {ystate, doc}
          /\ doc # NoDoc /\ sqlite # NoDoc
        BY <1>8 DEF StorePersists, Stored, clientVars, Sound, Stages
    <2>2. Base' = Base /\ Main = doc /\ ystate'.ins \subseteq ystate.ins \cup Main.ins
        BY <2>1 DEF Base, Main
    <2>3. Items' \subseteq Items
        BY <2>1 DEF Items
    <2>4. Awaited' \subseteq Awaited
        BY <1>2, <2>1 DEF Awaited
    <2> QED BY <2>1, <2>2, <2>3, <2>4, StillGood
<1> QED BY <1>3, <1>4, <1>5, <1>6, <1>7, <1>8 DEF Storage

LEMMA OtherServerSteps ==
    ASSUME Sound, [Next]_vars, LoadBegins \/ LoadFails \/ LoadRefused \/ LoadPersists \/ Unload PROVE Good'
<1>1. CASE LoadBegins \/ LoadFails
    <2>1. /\ UNCHANGED <<sqlite, ystate, doc, held, note, storing, dirty>> /\ loading.at # "ystate"
          /\ loading' = NotLoading \/ loading' = [NotLoading EXCEPT !.at = "note"]
        BY <1>1 DEF LoadBegins, LoadFails, couchVars, clientVars
    <2>2. loading'.at # "ystate"
        BY <2>1 DEF NotLoading
    <2>3. Items' = Items /\ Base' = Base /\ Awaited' \subseteq Awaited
        BY <2>1, <2>2 DEF Items, Base, Awaited
    <2> QED BY <2>1, <2>3, StillGood
<1>2. CASE LoadRefused
    <2>1. note'.deleted = "manager" /\ doc' = NoDoc /\ loading'.at = "no"
        BY <1>2 DEF LoadRefused, Sound, Stages, couchVars, NotLoading
    <2>2. ~Alive'
        BY <2>1 DEF Alive
    <2> QED BY <2>1, <2>2, GoodLater
<1>3. CASE LoadPersists
    <2>1. /\ UNCHANGED <<sqlite, doc, held, note, storing, dirty>> /\ loading'.at = "no" /\ ystate' \in {ystate, doc}
          /\ doc # NoDoc /\ sqlite # NoDoc
        BY <1>3 DEF LoadPersists, NotLoading, clientVars, Sound, Stages
    <2>2. Base' = Base /\ Main = doc /\ ystate'.ins \subseteq ystate.ins \cup Main.ins
        BY <2>1 DEF Base, Main
    <2>3. Items' \subseteq Items
        BY <2>1 DEF Items
    <2>4. Awaited' \subseteq Awaited
        BY <2>1 DEF Awaited
    <2> QED BY <2>1, <2>2, <2>3, <2>4, StillGood
<1>4. CASE Unload
    <2>1. /\ UNCHANGED <<sqlite, ystate, held, note, loading, storing>> /\ doc' = NoDoc /\ doc # NoDoc /\ ~dirty
          /\ loading.at = "no"
        BY <1>4 DEF Unload, Open, couchVars, clientVars
    <2>2. Base' = Base /\ Main = doc /\ Main' = Base /\ Alive /\ (Alive' => note.deleted # "manager")
        BY <2>1 DEF Base, Main, Alive
    <2>3. Items' \subseteq Items /\ Awaited' = Awaited
        BY <2>1 DEF Items, NoDoc, Awaited
    <2>4. SUFFICES ASSUME Quiet', note.deleted # "manager"
                   PROVE  /\ Basis(Base, Items', Awaited')
                          /\ crashes' = 0 =>
                               /\ sqlite'.ins \subseteq Base.ins /\ ystate'.ins \subseteq Base.ins
                               /\ \A c, o \in Clients : c # o => held'[c].ins \cap held'[o].ins \subseteq Base.ins
        BY <2>1, <2>2, Backwards, GoodLater
    <2>5. Basis(doc, Items, Awaited) /\ (crashes' = 0 => Exclusive(doc)) /\ AsStored
        BY <2>1, <2>2, <2>4, Backwards DEF Sound, Good
    <2>6. Basis(Base, Items, Awaited) /\ Base.ins = doc.ins
        <3>1. CASE doc = Base
            BY <2>5, <3>1
        <3>2. CASE Base = NoDoc /\ doc = Empty
            BY <2>5, <3>2 DEF Basis, Twice, Live, WordsOf, NoDoc, Empty
        <3> QED BY <2>5, <3>1, <3>2 DEF AsStored
    <2>7. Basis(Base, Items', Awaited')
        BY <2>3, <2>6, BasisShrinks
    <2> QED BY <2>1, <2>5, <2>6, <2>7 DEF Exclusive
<1> QED BY <1>1, <1>2, <1>3, <1>4

\* A word that is typed next is nowhere yet.
LEMMA FreshWord ==
    ASSUME Sound, typed' = typed + 1
    PROVE  /\ typed + 1 \in Word /\ typed + 1 \notin Awaited /\ Items \in SUBSET Item
           /\ \A i \in Items : i[1] # typed + 1
<1>1. typed \in Nat /\ typed + 1 \notin 1..typed /\ typed + 1 \in Word
    BY DEF Sound, Typed, Word
<1>2. Awaited \subseteq 1..typed
    BY DEF Sound, Counted, Awaited
<1>3. Items \in SUBSET Item /\ \A i \in Items : i[1] \in Nat /\ i[1] <= typed
    BY DEF Sound, Counted, Shaped, Item, Word
<1> QED BY <1>1, <1>2, <1>3

LEMMA HeldBy ==
    ASSUME Sound
    PROVE  /\ held = [o \in Clients |-> held[o]]
           /\ \A c \in Clients : held[c].ins \subseteq Items
           /\ sqlite.ins \subseteq Items /\ ystate.ins \subseteq Items /\ doc.ins \subseteq Items
           /\ Main.ins \subseteq Items /\ Base.ins \subseteq Items
BY DEF Sound, Typed, Items, Main, Base

\* The document in memory becomes d, of the same items and x.
LEMMA ServerEdited ==
    ASSUME Sound, [Next]_vars, NEW d, NEW x, doc # NoDoc, d # NoDoc, doc' = d, dirty' = TRUE,
           UNCHANGED <<sqlite, ystate, held, note, loading, storing>>,
           d.ins = doc.ins \cup x, Quiet' => Basis(d, Items \cup x, Awaited),
           Quiet' /\ files = 0 /\ note.deleted # "manager" => Basis(Base, Items \cup x, Awaited)
    PROVE  Good'
<1>1. Main = doc /\ Main' = d /\ Base' = Base /\ Alive /\ Awaited' = Awaited
    BY DEF Main, Base, Alive, Awaited
<1>2. Items' \subseteq Items \cup x
    BY DEF Items
<1>3. SUFFICES ASSUME Quiet'
               PROVE  /\ Basis(d, Items', Awaited')
                      /\ files' = 0 /\ note'.deleted # "manager" => Basis(Base, Items', Awaited')
                      /\ crashes' = 0 =>
                           /\ sqlite'.ins \subseteq d.ins /\ ystate'.ins \subseteq d.ins
                           /\ \A c, o \in Clients : c # o => held'[c].ins \cap held'[o].ins \subseteq d.ins
    BY <1>1, GoodLater
<1>4. Basis(d, Items', Awaited')
    BY <1>1, <1>2, <1>3, BasisShrinks
<1>5. files' = 0 /\ note'.deleted # "manager" => Basis(Base, Items', Awaited')
    BY <1>1, <1>2, <1>3, Backwards, BasisShrinks
<1>6. crashes' = 0 => Exclusive(doc)
    BY <1>1, <1>3, Backwards DEF Sound, Good
<1> QED BY <1>4, <1>5, <1>6 DEF Exclusive

LEMMA ClientTypes ==
    ASSUME Sound, [Next]_vars, NEW c \in Clients, ClientStep(c), Types(c) PROVE Good'
<1> DEFINE x == <<typed + 1, 1>>
<1>1. PICK d : d.ins = Holds(c).ins \cup {x} /\ d.del = Holds(c).del /\ Edits(c, d)
    BY EditedDoc DEF Sound
<1>2. typed' = typed + 1 /\ UNCHANGED <<sqlite, ystate, note, loading, storing, files, crashes, lost>>
    BY DEF Types, couchVars, bounds
<1>3. /\ typed + 1 \in Word /\ typed + 1 \notin Awaited /\ Items \in SUBSET Item
      /\ \A i \in Items : i[1] # typed + 1
    BY <1>2, FreshWord
<1>4. ASSUME Quiet', Alive
      PROVE  /\ Basis(Main, Items \cup {x}, Awaited)
             /\ \A Y : Y.ins = Main.ins \cup {x} /\ Y.del = Main.del => Basis(Y, Items \cup {x}, Awaited)
    <2>1. Basis(Main, Items, Awaited)
        BY <1>4, Backwards DEF Sound, Good
    <2> QED BY <1>3, <2>1, HeldBy, BasisTypes
<1>5. ASSUME Quiet', files = 0, note.deleted # "manager" PROVE Basis(Base, Items \cup {x}, Awaited)
    <2>1. Basis(Base, Items, Awaited)
        BY <1>5, Backwards DEF Sound, Good
    <2> QED BY <1>3, <2>1, HeldBy, BasisTypes
<1>6. x \notin Items
    BY <1>3
<1> HIDE DEF x
<1>7. CASE session[c] = "on" /\ Open /\ doc' = d /\ dirty' = TRUE /\ UNCHANGED held
    <2>1. Holds(c) = doc /\ doc # NoDoc /\ Main = doc /\ Alive
        BY <1>7 DEF Holds, Open, Main, Alive
    <2>2. d # NoDoc
        BY <1>1 DEF NoDoc
    <2>3. Quiet' => Basis(d, Items \cup {x}, Awaited)
        BY <1>1, <1>4, <2>1
    <2> QED BY <1>1, <1>2, <1>5, <1>7, <2>1, <2>2, <2>3, ServerEdited
<1>8. CASE session[c] = "off" /\ held' = [held EXCEPT ![c] = d] /\ UNCHANGED <<doc, dirty>>
    <2>1. d.ins = held[c].ins \cup {x} /\ held'[c] = d /\ \A o \in Clients \ {c} : held'[o] = held[o]
        BY <1>1, <1>8, HeldBy DEF Holds
    <2>2. Main' = Main /\ Base' = Base /\ Awaited' = Awaited
        BY <1>2, <1>8 DEF Main, Base, Awaited
    <2>3. Items' \subseteq Items \cup {x}
        BY <1>2, <1>8, <2>1, HeldBy DEF Items
    <2>4. \A o \in Clients : o # c => held'[c].ins \cap held'[o].ins = held[c].ins \cap held[o].ins
        BY <1>6, <2>1, HeldBy
    <2>5. \A o, p \in Clients : o # p => held'[o].ins \cap held'[p].ins = held[o].ins \cap held[p].ins
        BY <2>1, <2>4
    <2>6. SUFFICES ASSUME Quiet'
                   PROVE  /\ Alive' => Basis(Main, Items', Awaited')
                          /\ files' = 0 /\ note'.deleted # "manager" => Basis(Base, Items', Awaited')
                          /\ crashes' = 0 /\ Alive' =>
                               /\ sqlite'.ins \subseteq Main.ins /\ ystate'.ins \subseteq Main.ins
                               /\ \A o, p \in Clients : o # p => held'[o].ins \cap held'[p].ins \subseteq Main.ins
                          /\ doc' # NoDoc /\ note'.deleted # "manager" /\ ~dirty' => AsStored'
        BY <2>2, GoodLater
    <2>7. Alive' => Basis(Main, Items', Awaited')
        BY <1>4, <2>2, <2>3, <2>6, Backwards, BasisShrinks
    <2>8. files' = 0 /\ note'.deleted # "manager" => Basis(Base, Items', Awaited')
        BY <1>5, <2>2, <2>3, <2>6, Backwards, BasisShrinks
    <2>9. crashes' = 0 /\ Alive' => Exclusive(Main)
        BY <2>6, Backwards DEF Sound, Good
    <2>10. doc' # NoDoc /\ note'.deleted # "manager" /\ ~dirty' => AsStored'
        <3>1. doc # NoDoc /\ note.deleted # "manager" /\ ~dirty => AsStored
            BY <2>6, Backwards DEF Sound, Good
        <3> QED BY <1>2, <1>8, <2>2, <3>1 DEF AsStored
    <2> QED BY <1>2, <2>5, <2>7, <2>8, <2>9, <2>10 DEF Exclusive
<1> QED BY <1>1, <1>7, <1>8 DEF Edits

LEMMA ClientErases ==
    ASSUME Sound, [Next]_vars, NEW c \in Clients, ClientStep(c), Erases(c) PROVE Good'
<1>1. PICK d : d.ins = Holds(c).ins /\ (\E i \in Live(Holds(c)) : d.del = Holds(c).del \cup {i}) /\ Edits(c, d)
    BY EditedDoc DEF Sound
<1>2. UNCHANGED <<sqlite, ystate, note, loading, storing>>
    BY DEF Erases, couchVars
<1>3. CASE session[c] = "on" /\ Open /\ doc' = d /\ dirty' = TRUE /\ UNCHANGED held
    <2>1. Holds(c) = doc /\ doc # NoDoc /\ Main = doc /\ Alive
        BY <1>3 DEF Holds, Open, Main, Alive
    <2>2. d # NoDoc
        <3>1. PICK i \in Live(doc) : d.ins = doc.ins
            BY <1>1, <2>1
        <3> QED BY <3>1 DEF NoDoc, Live
    <2>3. Quiet' => Basis(doc, Items, Awaited)
        BY <2>1, Backwards DEF Sound, Good
    <2>4. Quiet' => Basis(d, Items, Awaited)
        <3>1. d.ins = doc.ins /\ doc.del \subseteq d.del
            BY <1>1, <2>1
        <3> QED BY <2>3, <3>1, BasisErases
    <2>5. Quiet' /\ files = 0 /\ note.deleted # "manager" => Basis(Base, Items, Awaited)
        BY Backwards DEF Sound, Good
    <2>6. Items \cup {} = Items /\ d.ins = doc.ins \cup {}
        BY <1>1, <2>1
    <2> QED BY <1>2, <1>3, <2>1, <2>2, <2>4, <2>5, <2>6, ServerEdited
<1>4. CASE session[c] = "off" /\ held' = [held EXCEPT ![c] = d] /\ UNCHANGED <<doc, dirty>>
    <2>1. \A o \in Clients : held'[o].ins = held[o].ins
        BY <1>1, <1>4, HeldBy DEF Holds
    <2>2. Base' = Base /\ Awaited' = Awaited
        BY <1>2 DEF Base, Awaited
    <2>3. Items' \subseteq Items
        BY <1>2, <1>4, <2>1 DEF Items
    <2> QED BY <1>2, <1>4, <2>1, <2>2, <2>3, StillGood
<1> QED BY <1>1, <1>3, <1>4 DEF Edits

\* A text of words in use is written to the note.
LEMMA FileWritten ==
    ASSUME Sound, [Next]_vars, NEW t, WritesFile(t), UNCHANGED <<sqlite, ystate, doc, loading, storing, dirty, crashes>>,
           Items' \subseteq Items,
           \A c, o \in Clients : c # o => held'[c].ins \cap held'[o].ins \subseteq held[c].ins \cap held[o].ins,
           Quiet' /\ crashes = 0 => \A i \in Items' : i[1] \in t => i \in Main.ins
    PROVE  Good'
<1>1. /\ note.deleted = "no" /\ note' = [text |-> t, by |-> "file", deleted |-> "no"]
      /\ files' # 0 /\ files \in Nat
    BY DEF WritesFile, Sound, Bounded
<1>2. Main' = Main /\ Base' = Base /\ Alive
    BY <1>1 DEF Main, Base, Alive
<1>3. Awaited' \subseteq Awaited \cup t
    BY <1>1 DEF Awaited
<1>4. SUFFICES ASSUME Quiet'
               PROVE  /\ Basis(Main, Items', Awaited')
                      /\ sqlite'.ins \subseteq Main.ins /\ ystate'.ins \subseteq Main.ins
                      /\ \A o, p \in Clients : o # p => held'[o].ins \cap held'[p].ins \subseteq Main.ins
                      /\ doc' # NoDoc /\ note'.deleted # "manager" /\ ~dirty' => AsStored'
    BY <1>1, <1>2, GoodLater
<1>5. crashes = 0 /\ Quiet
    BY <1>1, <1>4, Backwards DEF Quiet
<1>6. Basis(Main, Items, Awaited) /\ Exclusive(Main)
    BY <1>2, <1>5 DEF Sound, Good
<1>7. Basis(Main, Items', Awaited')
    BY <1>3, <1>4, <1>5, <1>6 DEF Basis
<1>8. doc' # NoDoc /\ note'.deleted # "manager" /\ ~dirty' => AsStored'
    <2>1. doc # NoDoc /\ note.deleted # "manager" /\ ~dirty => AsStored
        BY <1>5 DEF Sound, Good
    <2> QED BY <1>1, <1>2, <2>1 DEF AsStored
<1> QED BY <1>6, <1>7, <1>8 DEF Exclusive

LEMMA ClientCloses ==
    ASSUME Sound, [Next]_vars, NEW c \in Clients, Closes(c) PROVE Good'
<1>1. /\ UNCHANGED <<sqlite, ystate, doc, loading, storing, dirty, crashes>> /\ held' = [held EXCEPT ![c] = Empty]
    BY DEF Closes
<1>2. \A o \in Clients : held'[o] = IF o = c THEN Empty ELSE held[o]
    BY <1>1, HeldBy
<1>3. Items' \subseteq Items /\ \A o, p \in Clients : held'[o].ins \cap held'[p].ins \subseteq held[o].ins \cap held[p].ins
    BY <1>1, <1>2 DEF Items, Empty
<1>4. CASE UNCHANGED note
    <2>1. Base' = Base /\ Awaited' = Awaited
        BY <1>1, <1>4 DEF Base, Awaited
    <2> QED BY <1>1, <1>3, <2>1, StillGood
<1>5. CASE WritesFile(Text(Holds(c)))
    <2>1. ASSUME Quiet', crashes = 0, NEW i \in Items', i[1] \in Text(Holds(c)), i \notin Main.ins PROVE FALSE
        <3>1. Alive
            BY <1>5 DEF WritesFile, Alive
        <3>2. Basis(Main, Items, Awaited) /\ Exclusive(Main)
            BY <2>1, <3>1, Backwards DEF Sound, Good
        <3>3. i[2] = 1 /\ i[1] \notin WordsOf(Main) /\ i \in Items
            BY <1>3, <2>1, <3>2 DEF Basis
        <3>4. PICK j \in Holds(c).ins : j[1] = i[1]
            BY <2>1 DEF Text, Live
        <3>5. j \in Items /\ j \notin Main.ins /\ j[2] = 1
            BY <3>2, <3>3, <3>4, HeldBy DEF Holds, Basis, WordsOf
        <3>6. i = j
            BY <3>3, <3>4, <3>5 DEF Sound, Shaped, Item
        <3>7. doc.ins \subseteq Main.ins
            BY DEF Main, NoDoc
        <3>8. i \in held[c].ins
            BY <3>4, <3>5, <3>6, <3>7 DEF Holds
        <3>9. i \notin sqlite'.ins /\ i \notin ystate'.ins /\ i \notin doc'.ins
            BY <1>1, <2>1, <3>2, <3>7 DEF Exclusive
        <3>10. \E o \in Clients : i \in held'[o].ins
            BY <2>1, <3>9 DEF Items
        <3>11. PICK o \in Clients \ {c} : i \in held[o].ins
            BY <1>2, <3>10 DEF Empty
        <3> QED BY <2>1, <3>2, <3>8, <3>11 DEF Exclusive
    <2> QED BY <1>1, <1>3, <1>5, <2>1, FileWritten
<1> QED BY <1>4, <1>5 DEF Closes

LEMMA ClientComesAndGoes ==
    ASSUME Sound, [Next]_vars, NEW c \in Clients, Opens(c) \/ Connects(c) \/ Drops(c) PROVE Good'
<1>1. CASE Opens(c)
    <2>1. UNCHANGED <<sqlite, ystate, doc, held, note, loading, storing, dirty>>
        BY <1>1 DEF Opens, couchVars, serverVars
    <2>2. Items' = Items /\ Base' = Base /\ Awaited' = Awaited
        BY <2>1 DEF Items, Base, Awaited
    <2> QED BY <2>1, <2>2, StillGood
<1>2. CASE Drops(c)
    <2>1. UNCHANGED <<sqlite, ystate, doc, note, loading, storing, dirty>> /\ held' = [held EXCEPT ![c] = doc]
          /\ doc # NoDoc
        BY <1>2 DEF Drops, couchVars, serverVars, Sound, Stages
    <2>2. \A o \in Clients : held'[o] = held[o] \/ held'[o] = doc
        BY <2>1, HeldBy
    <2>3. Items' \subseteq Items
        BY <2>1, <2>2 DEF Items
    <2>4. Base' = Base /\ Awaited' = Awaited /\ Main = doc
        BY <2>1 DEF Base, Awaited, Main
    <2>5. \A o, p \in Clients : held'[o].ins \cap held'[p].ins \subseteq (held[o].ins \cap held[p].ins) \cup Main.ins
        BY <2>2, <2>4
    <2> QED BY <2>1, <2>3, <2>4, <2>5, StillGood
<1>3. CASE Connects(c)
    <2> DEFINE d == Merge(doc, held[c])
    <2>1. /\ UNCHANGED <<sqlite, ystate, note, loading, storing>> /\ held' = [held EXCEPT ![c] = Empty]
          /\ doc' = d /\ dirty' = (dirty \/ doc' # doc) /\ doc # NoDoc
        BY <1>3 DEF Connects, couchVars, Open
    <2>2. d.ins = doc.ins \cup held[c].ins /\ Proper(d)
        BY <2>1, ProperLater DEF Merge, Sound, Shaped
    <2> HIDE DEF d
    <2>3. Main = doc /\ Main' = d /\ Base' = Base /\ Alive /\ Awaited' = Awaited
        BY <2>1, <2>2, ProperDoc DEF Main, Base, Alive, Awaited
    <2>4. \A o \in Clients : held'[o] = IF o = c THEN Empty ELSE held[o]
        BY <2>1, HeldBy
    <2>5. Items' \subseteq Items /\ \A o, p \in Clients : held'[o].ins \cap held'[p].ins \subseteq held[o].ins \cap held[p].ins
        BY <2>1, <2>2, <2>4 DEF Items, Empty
    <2>6. SUFFICES ASSUME Quiet'
                   PROVE  /\ Basis(d, Items', Awaited')
                          /\ files' = 0 /\ note'.deleted # "manager" => Basis(Base, Items', Awaited')
                          /\ crashes' = 0 =>
                               /\ sqlite'.ins \subseteq d.ins /\ ystate'.ins \subseteq d.ins
                               /\ \A o, p \in Clients : o # p => held'[o].ins \cap held'[p].ins \subseteq d.ins
                          /\ note'.deleted # "manager" /\ ~dirty' => AsStored'
        BY <2>3, GoodLater
    <2>7. Basis(doc, Items, Awaited) /\ (crashes' = 0 => Exclusive(doc))
        BY <2>3, <2>6, Backwards DEF Sound, Good
    <2>8. Basis(d, Items, Awaited)
        <3>1. Items \in SUBSET Item
            BY DEF Sound, Shaped
        <3> QED BY <2>7, <3>1, HeldBy, BasisMerges DEF d
    <2>9. Basis(d, Items', Awaited')
        BY <2>3, <2>5, <2>8, BasisShrinks
    <2>10. files' = 0 /\ note'.deleted # "manager" => Basis(Base, Items', Awaited')
        BY <2>3, <2>5, <2>6, Backwards, BasisShrinks DEF Sound, Good
    <2>11. ASSUME note'.deleted # "manager", ~dirty' PROVE AsStored'
        <3>1. ~dirty /\ doc' = doc
            BY <2>1, <2>11
        <3>2. AsStored
            BY <2>1, <2>6, <2>11, <3>1, Backwards DEF Sound, Good
        <3> QED BY <2>3, <3>1, <3>2 DEF AsStored
    <2> QED BY <2>1, <2>2, <2>5, <2>7, <2>9, <2>10, <2>11 DEF Exclusive
<1> QED BY <1>1, <1>2, <1>3

LEMMA Surroundings ==
    ASSUME Sound, [Next]_vars, FileChanges \/ ManagerDeletes \/ Crash \/ LosesSqlite \/ UNCHANGED vars
    PROVE  Good'
<1>1. CASE FileChanges
    <2>1. UNCHANGED <<sqlite, ystate, doc, held, loading, storing, dirty, crashes>>
        BY <1>1 DEF FileChanges
    <2>2. Items' = Items
        BY <2>1 DEF Items
    <2>3. ASSUME NEW t, WritesFile(t), \A i \in Items : i[1] \in t => i[1] \in note.text PROVE Good'
        <3>1. ASSUME Quiet', crashes = 0, NEW i \in Items', i[1] \in t PROVE i \in Main.ins
            <4>1. Alive /\ note.text \subseteq Awaited
                BY <2>3 DEF WritesFile, Alive, Awaited
            <4>2. Basis(Main, Items, Awaited)
                BY <3>1, <4>1, Backwards DEF Sound, Good
            <4> QED BY <2>2, <2>3, <3>1, <4>1, <4>2 DEF Basis
        <3> QED BY <2>1, <2>2, <2>3, <3>1, FileWritten
    <2>4. CASE typed' = typed + 1 /\ WritesFile(note.text \cup {typed'})
        <3>1. \A i \in Items : i[1] # typed'
            BY <2>4, FreshWord
        <3> QED BY <2>3, <2>4, <3>1
    <2>5. CASE \E w \in note.text : WritesFile(note.text \ {w})
        BY <2>3, <2>5
    <2> QED BY <1>1, <2>4, <2>5 DEF FileChanges
<1>2. CASE ManagerDeletes
    <2>1. UNCHANGED <<sqlite, ystate, doc, held, loading, storing, dirty>> /\ note' = [note EXCEPT !.deleted = "manager"]
        BY <1>2 DEF ManagerDeletes, clientVars
    <2>2. note'.deleted = "manager"
        BY <2>1 DEF Sound, Typed, Notes
    <2>3. Items' = Items /\ Base' = Base /\ Awaited' \subseteq Awaited
        BY <2>1, <2>2 DEF Items, Base, Awaited
    <2> QED BY <2>1, <2>3, StillGood
<1>3. CASE Crash
    <2>1. /\ UNCHANGED <<sqlite, ystate, note>> /\ doc' = NoDoc /\ loading'.at = "no" /\ storing'.at = "no" /\ Disconnect
          /\ crashes' # 0
        BY <1>3 DEF Crash, couchVars, NotLoading, NotStoring, Sound, Bounded
    <2>2. Base' = Base /\ Main' = Base /\ (Alive' => note'.deleted # "manager")
        BY <2>1 DEF Base, Main, Alive
    <2>3. Items' \subseteq Items
        <3>1. \A c \in Clients : held'[c] = held[c] \/ held'[c] = doc
            BY <2>1 DEF Disconnect
        <3> QED BY <2>1, <3>1 DEF Items, NoDoc
    <2>4. Awaited' \subseteq Awaited
        BY <2>1 DEF Awaited
    <2>5. SUFFICES ASSUME Quiet', note'.deleted # "manager" PROVE Basis(Base, Items', Awaited')
        BY <2>1, <2>2, GoodLater
    <2>6. files = 0 /\ Basis(Base, Items, Awaited)
        BY <2>1, <2>5, Backwards DEF Sound, Good, Quiet
    <2> QED BY <2>3, <2>4, <2>6, BasisShrinks
<1>4. CASE LosesSqlite
    <2>1. UNCHANGED <<doc, ystate, held, note, loading, storing, dirty>> /\ sqlite' = NoDoc
          /\ lost' = (lost \/ sqlite # ystate)
        BY <1>4 DEF LosesSqlite, couchVars, clientVars
    <2>2. Quiet' => Base' = Base
        BY <2>1 DEF Quiet, Base
    <2>3. Items' \subseteq Items /\ Awaited' = Awaited /\ NoDoc.ins = {}
        BY <2>1 DEF Items, NoDoc, Awaited
    <2> QED BY <2>1, <2>2, <2>3, StillGood
<1>5. CASE UNCHANGED vars
    <2>1. UNCHANGED <<sqlite, ystate, doc, held, note, loading, storing, dirty>>
        BY <1>5 DEF vars, couchVars, serverVars, clientVars
    <2>2. Items' = Items /\ Base' = Base /\ Awaited' = Awaited
        BY <2>1 DEF Items, Base, Awaited
    <2> QED BY <2>1, <2>2, StillGood
<1> QED BY <1>1, <1>2, <1>3, <1>4, <1>5

LEMMA InitSound == Init => Sound
<1> SUFFICES ASSUME Init PROVE Sound OBVIOUS
<1>1. Items = {} /\ Main = NoDoc /\ Base = NoDoc /\ doc = NoDoc /\ Live(NoDoc) = {}
    BY DEF Init, Items, NoDoc, Empty, Main, Base, Live
<1>2. Good
    BY <1>1 DEF Init, Good, Basis, Exclusive, Twice, Empty, NoDoc
<1> QED BY <1>2, InitTyped, InitBounded, InitShaped, InitStages, InitCounted, InitSees DEF Sound

LEMMA StepSound == Sound /\ [Next]_vars => Sound'
<1> SUFFICES ASSUME Sound, [Next]_vars PROVE Sound' OBVIOUS
<1>1. Good'
    BY Loads, Stores, OtherServerSteps, ClientTypes, ClientErases, ClientCloses, ClientComesAndGoes, Surroundings
       DEF Next, Loading, Storage, ClientStep
<1> QED BY <1>1, StepTyped, StepBounded, StepFlags, StepShaped, StepStages, StepCounted, StepSees DEF Sound

LEMMA SoundIsRight == Sound => NoDuplicates
<1> SUFFICES ASSUME Sound PROVE NoDuplicates OBVIOUS
<1>1. ~lost /\ (crashes = 0 \/ files = 0) => ~Twice(doc)
    <2>1. CASE doc = NoDoc
        BY <2>1 DEF Twice, Live, NoDoc
    <2>2. CASE doc # NoDoc
        BY <2>2 DEF Sound, Good, Quiet, Alive, Main, Basis
    <2> QED BY <2>1, <2>2
<1> DEFINE W == 1..typed
<1>2. W \subseteq Words /\ typed \in Words
    BY RtDocumentAssumption DEF Sound, Counted, Words
<1>3. \A i \in Items : i[1] \in Words /\ i[2] \in Nat \ {0}
    BY <1>2 DEF Sound, Counted, Shaped, Item, Word
<1>4. \A d : Proper(d) /\ d.ins \subseteq Items => IsDoc(d)
    BY <1>3 DEF Proper, IsDoc
<1>5. /\ \A d \in {ystate, sqlite, doc} : d = NoDoc \/ IsDoc(d)
      /\ \A c \in Clients : IsDoc(held[c])
    <2>1. \A d \in {ystate, sqlite, doc} : d.ins \subseteq Items
        BY DEF Items
    <2>2. \A c \in Clients : held[c].ins \subseteq Items
        BY DEF Items
    <2> QED BY <1>4, <2>1, <2>2 DEF Sound, Shaped
<1>6. /\ note.text \subseteq W /\ storing.text \subseteq W /\ versions \subseteq SUBSET W
      /\ known \subseteq W \/ known = None
      /\ owed \subseteq W \/ owed = None
    BY DEF Sound, Counted
<1>7. /\ note \in [text : SUBSET Words, by : {"none", "file", "server"}, deleted : {"no", "manager"}]
      /\ storing.text \subseteq Words /\ versions \subseteq SUBSET Words /\ known \in Texts /\ owed \in Texts
    <2>1. note \in Notes
        BY DEF Sound, Typed
    <2> HIDE DEF W
    <2>2. note.text \subseteq Words
        BY <1>2, <1>6
    <2>3. note \in [text : SUBSET Words, by : {"none", "file", "server"}, deleted : {"no", "manager"}]
        BY <2>1, <2>2 DEF Notes
    <2>4. storing.text \subseteq Words /\ versions \subseteq SUBSET Words
        BY <1>2, <1>6
    <2>5. known \in Texts /\ owed \in Texts
        BY <1>2, <1>6 DEF Texts
    <2> QED BY <2>3, <2>4, <2>5
<1>8. /\ loading.at \in {"no", "note", "ystate", "persist"}
      /\ storing.at \in {"no", "get", "keep", "put", "persist"}
    BY DEF Sound, Typed
<1>9. /\ session \in [Clients -> {"none", "new", "on", "off"}]
      /\ files \in 0..MaxFiles /\ erasures \in 0..MaxErasures
    BY DEF Sound, Bounded
<1>10. drops + crashes + losses + faults \in 0..MaxTroubles
    BY RtDocumentAssumption DEF Sound, Bounded
<1>11. {dirty, moved, lost} \subseteq BOOLEAN
    BY DEF Sound, Flags
<1>12. TypeOK
    BY <1>2, <1>5, <1>7, <1>8, <1>9, <1>10, <1>11 DEF TypeOK
<1> QED BY <1>1, <1>12 DEF NoDuplicates

\* A client that comes back with the history it holds makes no word stand twice, however
\* loading, storing, unloading and losses of the file meet: what a load inserts anew is of
\* words that no client holds apart from the document, so long as no history is lost and no
\* crash meets a file written past the server (loadDocument's two reseedings and
\* persistYState in docLifecycle.js).
THEOREM NoWordTwice == Spec => []NoDuplicates
<1>1. Init => Sound
    BY InitSound
<1>2. Sound /\ [Next]_vars => Sound'
    BY StepSound
<1>3. Sound => NoDuplicates
    BY SoundIsRight
<1> QED BY <1>1, <1>2, <1>3, PTL DEF Spec

-----------------------------------------------------------------------------
(* The abstract specification.                                               *)

LEMMA WriteIsWrite ==
    ASSUME NEW t \in SUBSET Words, WritesFile(t), UNCHANGED versions PROVE Promise!Next
<1>1. Promise!Write(t)
    BY DEF WritesFile, Promise!Write
<1> QED BY <1>1 DEF Promise!Next

LEMMA InitPromise == NoteExists /\ Init => Promise!Init
<1> SUFFICES ASSUME NoteExists, Init PROVE Promise!Init OBVIOUS
<1>1. note = [text |-> {1}, by |-> "file", deleted |-> "no"] /\ 1 \in Words
    BY RtDocumentAssumption DEF Init, Words
<1> QED BY <1>1 DEF Init, Promise!Init

\* Every step is one of VersionedNote or leaves its variables alone.
LEMMA StepPromise ==
    ASSUME Sound, Knows, Owes, Covers, [Next]_vars
    PROVE  Promise!Next \/ UNCHANGED <<note, versions, owed>>
<1>1. note \in Notes /\ (note.deleted # "manager" => note.deleted = "no")
    BY DEF Sound, Typed, Notes
<1>2. /\ note.text \in SUBSET Words /\ storing.text \in SUBSET Words /\ storing.read \in SUBSET Words
      /\ \A c \in Clients : Text(Holds(c)) \in SUBSET Words
    <2>1. 1..typed \subseteq Words
        BY RtDocumentAssumption DEF Sound, Counted, Words
    <2>2. \A i \in Items : i[1] \in Words
        BY <2>1 DEF Sound, Counted, Shaped, Item, Word
    <2>3. \A c \in Clients : Text(Holds(c)) \in SUBSET Words
        BY <2>2 DEF Text, Live, Holds, Items
    <2> QED BY <2>1, <2>3 DEF Sound, Counted
<1>3. CASE LoadNote
    <2>1. Standing(note)
        BY <1>1, <1>3 DEF LoadNote, Standing, Knows
    <2>2. UNCHANGED <<note, versions>> /\ owed' = None /\ note.deleted = "no"
        BY <1>3, <2>1 DEF LoadNote, Standing, couchVars
    <2>3. Promise!See
        BY <2>2 DEF Promise!See
    <2> QED BY <2>3 DEF Promise!Next
<1>4. CASE StoreReads
    <2>1. UNCHANGED <<note, versions>> /\ (UNCHANGED owed \/ owed' = None) /\ note.deleted = "no"
        BY <1>1, <1>4 DEF StoreReads, couchVars
    <2>2. CASE owed' = None
        <3>1. Promise!See
            BY <2>1, <2>2 DEF Promise!See
        <3> QED BY <3>1 DEF Promise!Next
    <2> QED BY <2>1, <2>2
<1>5. CASE StoreKeeps
    <2>1. Promise!Keep(storing.read)
        BY <1>5 DEF StoreKeeps, Promise!Keep
    <2> QED BY <1>2, <2>1 DEF Promise!Next
<1>6. CASE StorePuts
    <2>1. CASE moved
        BY <1>6, <2>1 DEF StorePuts
    <2>2. CASE ~moved
        <3>1. Snapshot /\ UNCHANGED <<versions, owed>> /\ storing.at = "put"
            BY <1>6, <2>2 DEF StorePuts
        <3>2. note.deleted = "no" /\ owed \in versions \cup {None}
            BY <1>1, <2>2, <3>1 DEF Sound, DeletionIsSeen, Covers
        <3>3. note'.text = storing.text /\ note'.deleted = "no"
            BY <3>1 DEF Snapshot
        <3>4. Promise!Snapshot(storing.text)
            BY <3>1, <3>2, <3>3 DEF Promise!Snapshot
        <3> QED BY <1>2, <3>4 DEF Promise!Next
    <2> QED BY <2>1, <2>2
<1>7. CASE ManagerDeletes
    <2>1. /\ note.deleted = "no" /\ note'.text = note.text /\ note'.deleted = "manager" /\ owed' = None
          /\ UNCHANGED versions
        BY <1>1, <1>7 DEF ManagerDeletes, Standing, Notes
    <2>2. Promise!Delete
        BY <2>1 DEF Promise!Delete
    <2> QED BY <2>2 DEF Promise!Next
<1>8. CASE FileChanges
    <2>1. typed' \in Words \/ UNCHANGED typed
        BY <1>8, RtDocumentAssumption DEF FileChanges, Sound, Counted, Words
    <2>2. UNCHANGED versions /\ \E t \in SUBSET Words : WritesFile(t)
        BY <1>2, <1>8, <2>1 DEF FileChanges, Sound, Counted, Words
    <2> QED BY <2>2, WriteIsWrite
<1>9. ASSUME NEW c \in Clients, ClientStep(c) PROVE Promise!Next \/ UNCHANGED <<note, versions, owed>>
    <2>1. UNCHANGED versions /\ (UNCHANGED <<note, owed>> \/ WritesFile(Text(Holds(c))))
        BY <1>9 DEF ClientStep, Opens, Connects, Drops, Types, Erases, Closes, couchVars
    <2> QED BY <1>2, <2>1, WriteIsWrite
<1>10. CASE \/ LoadYstate \/ LoadPersists \/ LoadRefused \/ LoadBegins \/ LoadFails
            \/ StoreBegins \/ StoreEndsSessions \/ StorePersists \/ StoreFails
    BY <1>10 DEF LoadYstate, LoadPersists, LoadRefused, LoadBegins, LoadFails, StoreBegins, StoreEndsSessions,
                 StorePersists, StoreFails, couchVars
<1>11. CASE Unload \/ Crash \/ LosesSqlite \/ UNCHANGED vars
    BY <1>11 DEF Unload, Crash, LosesSqlite, vars, couchVars
<1> QED BY <1>3, <1>4, <1>5, <1>6, <1>7, <1>8, <1>9, <1>10, <1>11 DEF Next, Loading, Storage

\* The server implements VersionedNote: to the note and its version history loading, storing,
\* retrying and crashing are a server that reads, keeps versions and puts its text over
\* nothing it has not seen (docLifecycle.js: loadDocument, storeDocument).
THEOREM ServerKeepsItsPromise ==
    ASSUME NoteExists PROVE Spec => PromiseKept
<1>1. Init => Sound /\ KeptInv /\ Promise!Init
    BY InitSound, InitKept, InitPromise
<1>2. Sound /\ KeptInv /\ [Next]_vars => (Sound /\ KeptInv)'
    BY StepSound, StepTyped, StepKnows, StepOwes DEF KeptInv
<1>3. Sound /\ KeptInv /\ [Next]_vars => [Promise!Next]_(Promise!vars)
    BY StepPromise DEF KeptInv, Promise!vars
<1> QED BY <1>1, <1>2, <1>3, PTL DEF Spec, PromiseKept, Promise!Spec
=============================================================================
