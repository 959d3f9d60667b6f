------------------------- MODULE LinkRestore_proofs -------------------------
(***************************************************************************)
(* Proofs about LinkRestore: whatever the user, other devices, a second    *)
(* operation and an ending of the app do between the reads and writes of   *)
(* restoring, purging, resolving and sweeping, no operation takes the last *)
(* copy of a text except what it surrenders, and the sweep buries nothing  *)
(* that was revived.                                                       *)
(***************************************************************************)
EXTENDS LinkRestore, RevisionTrees_proofs, FiniteSetTheorems

Text == Texts \cup {NoText}
Entry == [path : Paths, rev : Int, text : Text, at : Nat]
Kinds == {"none", "restore", "sweep", "repair", "version", "answer", "resolve", "undo", "clear",
          "purge", "keep-remote", "keep-both", "delete"}
Pcs == {"idle", "read", "get", "write", "put", "tidy", "load", "save", "remove", "delete"}
Choices == {"none", "local", "remote", "both", "both-remote", "unlisted"}

Files == notes \in BOOLEAN /\ vault \in [Paths -> Text] /\ archive \in [Paths -> Text]

Documents ==
    /\ clock \in Nat
    /\ local \in [Paths -> SUBSET Rev(Texts)] /\ remote \in [Paths -> SUBSET Rev(Texts)]
    /\ \A p \in Paths : Tree(local[p] \cup remote[p]) /\ Dated(local[p] \cup remote[p], clock)

History == versions \in [Paths -> SUBSET Texts] /\ swept \subseteq Texts
Lists == queue \subseteq Paths /\ purges \subseteq Entry /\ dropped \subseteq Entry /\ IsFiniteSet(purges)

Operation ==
    [kind : Kinds, pc : Pcs, path : Paths, target : Paths, text : Text, live : Text,
     seen : Rev(Texts), conf : SUBSET Rev(Texts), choice : Choices,
     list : SUBSET (Paths \cup Entry), tries : 0..(Attempts - 1),
     at : Nat]
Operations == op \in [Ops -> Operation]

Typed == Files /\ Documents /\ History /\ Lists /\ Operations

\* What was read of the database can be removed there; the sweep is about the file.
Reading(o) ==
    /\ \A r \in op[o].conf : r.state # "removed"
    /\ op[o].kind = "purge" /\ op[o].pc # "read" =>
          op[o].seen.state # "removed" /\ op[o].seen \in local[op[o].path]
    /\ op[o].kind = "sweep" => op[o].path = 1

\* An entry of the list of purges, kept or read, tells the text of the note that was purged.
Tells(path, rev, text) == notes => \E r \in local[path] : r.id = rev /\ r.text = text
Listing(o) ==
    /\ op[o].pc = "save" /\ op[o].kind \in {"delete", "keep-both", "keep-remote"} => op[o].list \subseteq Paths
    /\ op[o].pc = "save" /\ op[o].kind \in {"purge", "undo", "clear"} =>
          /\ op[o].list \subseteq Entry /\ IsFiniteSet(op[o].list)
          /\ \A e \in op[o].list : Tells(e.path, e.rev, e.text)
    /\ op[o].pc # "read" /\ op[o].kind \in {"undo", "clear"} =>
          Tells(op[o].path, op[o].seen.id, op[o].text)
    /\ op[o].pc = "remove" /\ op[o].kind = "purge" /\ op[o].choice # "unlisted" =>
          Snapshot(o) \in purges \cup dropped

\* A text is in the history, unless the sweep took it out.
Recorded(p, t) == notes => t \in versions[p] \cup swept \cup {NoText}

\* What an operation has brought back, and what it found in the file before it writes, is
\* in the history; of two texts in conflict both are.
Keeping(o) ==
    /\ op[o].kind = "restore" /\ op[o].pc = "tidy" => Recorded(op[o].target, op[o].text)
    /\ op[o].kind = "undo" /\ op[o].pc \in {"load", "save"} => Recorded(op[o].target, op[o].text)
    /\ op[o].kind = "resolve" /\ op[o].pc \in {"write", "put"} =>
          /\ Recorded(op[o].path, op[o].live)
          /\ \/ \A r \in op[o].conf \cup {op[o].seen} : Recorded(op[o].path, r.text)
             \/ \E r, s \in op[o].conf \cup {op[o].seen} : r # s /\ op[o].live \notin {r.text, s.text}
    /\ op[o].kind = "version" /\ op[o].pc # "read" => notes /\ Recorded(op[o].path, op[o].live)

Entries == \A e \in purges : Tells(e.path, e.rev, e.text)

RestoreInv ==
    /\ Typed /\ Entries
    /\ \A o \in Ops : Reading(o) /\ Listing(o) /\ Keeping(o)

-----------------------------------------------------------------------------
(* The documents.                                                           *)

LEMMA NoRevFields ==
    /\ NoRev \in Rev(Texts) /\ NoRev.state = "removed" /\ NoRev.text = NoText /\ NoRev.anc = {}
    /\ NoRev.id = 0
BY DEF NoRev, Rev

\* What a replica of a document shows.
LEMMA Shows ==
    ASSUME Documents, NEW p \in Paths, NEW doc \in SUBSET (local[p] \cup remote[p])
    PROVE  /\ doc \subseteq Rev(Texts) /\ Winner(doc) \in Rev(Texts)
           /\ Present(doc) \subseteq doc /\ Leaves(doc) \subseteq doc
           /\ Conflicts(doc) \subseteq Present(doc)
           /\ \A r \in Present(doc) : r.state # "removed"
           /\ Present(doc) # {} => Winner(doc) \in Present(doc) /\ Base(doc) = Winner(doc)
           /\ Present(doc) = {} => Winner(doc) = NoRev /\ \A r \in Leaves(doc) : r.state = "removed"
           /\ IsLive(doc) \/ IsDeleted(doc) => Present(doc) # {}
           /\ Base(doc) = NoRev \/ Base(doc) \in Leaves(doc)
<1>1. /\ local[p] \cup remote[p] \subseteq Rev(Texts) /\ clock \in Nat
      /\ Tree(local[p] \cup remote[p]) /\ Dated(local[p] \cup remote[p], clock)
    BY DEF Documents
<1>2. /\ Present(doc) # {} => Winner(doc) \in Present(doc)
      /\ Present(doc) = {} => Winner(doc) = NoRev
      /\ Present(doc) # {} => Base(doc) = Winner(doc)
      /\ doc # {} => Base(doc) \in Leaves(doc)
      /\ doc = {} => Base(doc) = NoRev
    BY <1>1, WinnerShows
<1>3. /\ Present(doc) \subseteq doc /\ Leaves(doc) \subseteq doc
      /\ Conflicts(doc) \subseteq Present(doc)
      /\ \A r \in Present(doc) : r.state # "removed"
      /\ Present(doc) = {} => \A r \in Leaves(doc) : r.state = "removed"
    BY DEF Present, Leaves, Conflicts
<1>4. Winner(doc) \in Rev(Texts)
    BY <1>1, <1>2, <1>3, NoRevFields
<1>5. IsLive(doc) \/ IsDeleted(doc) => Present(doc) # {}
    BY <1>2, NoRevFields DEF IsLive, IsDeleted
<1> QED BY <1>1, <1>2, <1>3, <1>4, <1>5

LEMMA RemovalTyped ==
    ASSUME NEW r \in Rev(Texts)
    PROVE  Removal(r) \in Rev(Texts)
BY DEF Removal, Rev

LEMMA OneDocument ==
    ASSUME Documents, NEW p \in Paths
    PROVE  /\ clock \in Nat /\ clock + 1 \in Nat /\ clock < clock + 1
           /\ local[p] \in SUBSET Rev(Texts) /\ remote[p] \in SUBSET Rev(Texts)
           /\ local[p] \cup remote[p] \in SUBSET Rev(Texts)
           /\ Tree(local[p] \cup remote[p]) /\ Dated(local[p] \cup remote[p], clock)
<1>1. clock \in Nat
    BY DEF Documents
<1>2. local[p] \in SUBSET Rev(Texts)
    BY DEF Documents
<1>3. remote[p] \in SUBSET Rev(Texts)
    BY DEF Documents
<1>4. Tree(local[p] \cup remote[p]) /\ Dated(local[p] \cup remote[p], clock)
    BY DEF Documents
<1> QED BY <1>1, <1>2, <1>3, <1>4

\* Both replicas of one document change.
LEMMA Changed ==
    ASSUME Documents, NEW p \in Paths, NEW l, NEW r, l \cup r \subseteq Rev(Texts),
           local' = [local EXCEPT ![p] = l], remote' = [remote EXCEPT ![p] = r],
           clock' \in Nat, clock <= clock', Tree(l \cup r), Dated(l \cup r, clock')
    PROVE  Documents'
<1>1. /\ local' \in [Paths -> SUBSET Rev(Texts)] /\ remote' \in [Paths -> SUBSET Rev(Texts)]
      /\ local'[p] = l /\ remote'[p] = r
      /\ \A q \in Paths \ {p} : local'[q] = local[q] /\ remote'[q] = remote[q]
    <2>1. l \in SUBSET Rev(Texts) /\ r \in SUBSET Rev(Texts)
        OBVIOUS
    <2>2. local \in [Paths -> SUBSET Rev(Texts)] /\ remote \in [Paths -> SUBSET Rev(Texts)]
        BY DEF Documents
    <2> HIDE DEF Documents
    <2> QED BY <2>1, <2>2
<1>2. \A q \in Paths \ {p} : Dated(local[q] \cup remote[q], clock')
    BY DatedLater DEF Documents
<1>3. \A q \in Paths : Tree(local'[q] \cup remote'[q]) /\ Dated(local'[q] \cup remote'[q], clock')
    BY <1>1, <1>2 DEF Documents
<1> QED BY <1>1, <1>3 DEF Documents

\* A revision of this device, and removals with it.
LEMMA PutHere ==
    ASSUME Documents, NEW p \in Paths, NEW c \in Rev(Texts), c.state # "removed",
           c.id = 2 * (clock + 1), c.anc = {} \/ \E b \in local[p] : c.anc = Past(b),
           NEW S \in SUBSET (local[p] \cup {c}), \A r \in S : r.state # "removed",
           local' = [local EXCEPT ![p] = WithoutLeaves(local[p] \cup {c}, S)],
           remote' = remote, clock' = clock + 1
    PROVE  Documents' /\ \A q \in Paths : local[q] \subseteq local'[q]
<1> DEFINE U == local[p] \cup remote[p]
           D == {Removal(r) : r \in S}
           l == local[p] \cup {c} \cup D
<1>1. /\ clock \in Nat /\ clock + 1 \in Nat /\ clock < clock + 1
      /\ Tree(U) /\ Dated(U, clock) /\ U \subseteq Rev(Texts)
    BY OneDocument
<1>2. Tree(U \cup {c}) /\ Dated(U \cup {c}, clock + 1)
    <2>1. c.anc = {} \/ \E b \in U : c.anc = Past(b)
        OBVIOUS
    <2>2. c.id \in {2 * (clock + 1), -2 * (clock + 1)}
        OBVIOUS
    <2> HIDE DEF U
    <2> QED BY <1>1, <2>1, <2>2, LaterPut
<1>3. Tree((U \cup {c}) \cup D) /\ Dated((U \cup {c}) \cup D, clock + 1)
    <2>1. S \in SUBSET (U \cup {c})
        OBVIOUS
    <2> HIDE DEF U
    <2> QED BY <1>1, <1>2, <2>1, LaterRemovals
<1>4. (U \cup {c}) \cup D = l \cup remote[p]
    OBVIOUS
<1>5. D \subseteq Rev(Texts)
    BY <1>1, RemovalTyped
<1>6. l \cup remote[p] \subseteq Rev(Texts)
    BY <1>1, <1>5
<1>7. local' = [local EXCEPT ![p] = l] /\ remote' = [remote EXCEPT ![p] = remote[p]]
    BY DEF Documents, WithoutLeaves
<1>8. Documents'
    <2>1. Tree(l \cup remote[p]) /\ Dated(l \cup remote[p], clock')
        BY <1>3, <1>4
    <2>2. clock' \in Nat /\ clock <= clock'
        BY <1>1
    <2> HIDE DEF l
    <2> QED BY <1>6, <1>7, <2>1, <2>2, Changed
<1>9. \A q \in Paths : local[q] \subseteq local'[q]
    <2>1. local'[p] = l /\ \A q \in Paths \ {p} : local'[q] = local[q]
        BY <1>7 DEF Documents
    <2> QED BY <2>1
<1> QED BY <1>8, <1>9

LEMMA PutOnly ==
    ASSUME Documents, NEW p \in Paths, NEW c \in Rev(Texts), c.state # "removed",
           c.id = 2 * (clock + 1), c.anc = {} \/ \E b \in local[p] : c.anc = Past(b),
           local' = [local EXCEPT ![p] = @ \cup {c}],
           remote' = remote, clock' = clock + 1
    PROVE  Documents' /\ \A q \in Paths : local[q] \subseteq local'[q]
<1>1. PICK S \in SUBSET (local[p] \cup {c}) : S = {}
    OBVIOUS
<1>2. WithoutLeaves(local[p] \cup {c}, S) = local[p] \cup {c}
    BY <1>1 DEF WithoutLeaves
<1>3. local' = [local EXCEPT ![p] = WithoutLeaves(local[p] \cup {c}, S)]
    BY <1>2
<1>4. \A r \in S : r.state # "removed"
    BY <1>1
<1> QED BY <1>3, <1>4, PutHere

LEMMA RemoveHere ==
    ASSUME Documents, NEW p \in Paths,
           NEW S \in SUBSET local[p], \A r \in S : r.state # "removed",
           local' = [local EXCEPT ![p] = WithoutLeaves(local[p], S)], remote' = remote, clock' = clock
    PROVE  Documents' /\ \A q \in Paths : local[q] \subseteq local'[q]
<1> DEFINE U == local[p] \cup remote[p]
           D == {Removal(r) : r \in S}
           l == local[p] \cup D
<1>1. clock \in Nat /\ Tree(U) /\ Dated(U, clock) /\ U \subseteq Rev(Texts)
    BY OneDocument
<1>2. Tree(U \cup D) /\ Dated(U \cup D, clock)
    <2>1. S \in SUBSET U
        OBVIOUS
    <2> HIDE DEF U
    <2> QED BY <1>1, <2>1, LaterRemovals
<1>3. U \cup D = l \cup remote[p]
    OBVIOUS
<1>4. D \subseteq Rev(Texts)
    BY <1>1, RemovalTyped
<1>5. l \cup remote[p] \subseteq Rev(Texts)
    BY <1>1, <1>4
<1>6. local' = [local EXCEPT ![p] = l] /\ remote' = [remote EXCEPT ![p] = remote[p]]
    BY DEF Documents, WithoutLeaves
<1>7. Documents'
    <2>1. Tree(l \cup remote[p]) /\ Dated(l \cup remote[p], clock')
        BY <1>2, <1>3
    <2>2. clock' \in Nat /\ clock <= clock'
        BY <1>1
    <2> HIDE DEF l
    <2> QED BY <1>5, <1>6, <2>1, <2>2, Changed
<1>8. \A q \in Paths : local[q] \subseteq local'[q]
    <2>1. local'[p] = l /\ \A q \in Paths \ {p} : local'[q] = local[q]
        BY <1>6 DEF Documents
    <2> QED BY <2>1
<1> QED BY <1>7, <1>8

\* A revision on the server.
LEMMA PutThere ==
    ASSUME Documents, NEW p \in Paths, NEW c \in Rev(Texts), c.state # "removed",
           c.id = 2 * (clock + 1), c.anc = {} \/ \E b \in remote[p] : c.anc = Past(b),
           remote' = [remote EXCEPT ![p] = @ \cup {c}], local' = local, clock' = clock + 1
    PROVE  Documents'
<1> DEFINE U == local[p] \cup remote[p]
           r == remote[p] \cup {c}
<1>1. /\ clock \in Nat /\ clock + 1 \in Nat /\ clock < clock + 1
      /\ Tree(U) /\ Dated(U, clock) /\ U \subseteq Rev(Texts)
    BY OneDocument
<1>2. Tree(U \cup {c}) /\ Dated(U \cup {c}, clock + 1)
    <2>1. c.anc = {} \/ \E b \in U : c.anc = Past(b)
        OBVIOUS
    <2>2. c.id \in {2 * (clock + 1), -2 * (clock + 1)}
        OBVIOUS
    <2> HIDE DEF U
    <2> QED BY <1>1, <2>1, <2>2, LaterPut
<1>3. U \cup {c} = local[p] \cup r
    OBVIOUS
<1>4. remote' = [remote EXCEPT ![p] = r] /\ local' = [local EXCEPT ![p] = local[p]]
    <2>1. local \in [Paths -> SUBSET Rev(Texts)]
        BY DEF Documents
    <2>2. local' = [local EXCEPT ![p] = local[p]]
        BY <2>1
    <2> QED BY <2>2
<1>5. Tree(local[p] \cup r) /\ Dated(local[p] \cup r, clock') /\ local[p] \cup r \subseteq Rev(Texts)
    BY <1>1, <1>2, <1>3
<1>6. clock' \in Nat /\ clock <= clock'
    BY <1>1
<1> HIDE DEF r
<1> QED BY <1>4, <1>5, <1>6, Changed

-----------------------------------------------------------------------------
(* What every step does.                                                    *)

Good(o) == Reading(o) /\ Listing(o) /\ Keeping(o)

\* No step forgets a revision, a recorded text or a purged entry.
Grows ==
    /\ notes' = notes
    /\ \A p \in Paths : local[p] \subseteq local'[p] /\ versions[p] \cup swept \subseteq versions'[p] \cup swept'
    /\ purges \cup dropped \subseteq purges' \cup dropped'

LEMMA OneOperation ==
    ASSUME RestoreInv, NEW o \in Ops
    PROVE  /\ op[o] \in Operation /\ op[o].kind \in Kinds /\ op[o].pc \in Pcs /\ op[o].path \in Paths
           /\ op[o].target \in Paths /\ op[o].text \in Text /\ op[o].live \in Text
           /\ op[o].seen \in Rev(Texts) /\ op[o].conf \in SUBSET Rev(Texts)
           /\ op[o].choice \in Choices /\ op[o].list \in SUBSET (Paths \cup Entry)
           /\ op[o].tries \in 0..(Attempts - 1) /\ op[o].at \in Nat
           /\ Good(o)
<1>1. op[o] \in Operation
    BY DEF RestoreInv, Typed, Operations
<1>2. Good(o)
    BY DEF RestoreInv, Good
<1> QED BY <1>1, <1>2 DEF Operation

LEMMA GrowsTells ==
    ASSUME Grows, NEW p \in Paths, NEW rev, NEW text
    PROVE  /\ Tells(p, rev, text) => (notes' => \E r \in local'[p] : r.id = rev /\ r.text = text)
           /\ Recorded(p, text) => (notes' => text \in versions'[p] \cup swept' \cup {NoText})
BY DEF Grows, Tells, Recorded

LEMMA ReadingStays ==
    ASSUME RestoreInv, Grows, NEW o \in Ops, op'[o] = op[o]
    PROVE  Reading(o)'
BY OneOperation DEF Good, Reading, Grows

LEMMA ListingStays ==
    ASSUME RestoreInv, Grows, NEW o \in Ops, op'[o] = op[o]
    PROVE  Listing(o)'
<1>1. Listing(o) /\ op[o].path \in Paths
    BY OneOperation DEF Good
<1>2. \A e \in Entry : e.path \in Paths
    BY DEF Entry
<1>3. Snapshot(o)' = Snapshot(o)
    BY DEF Snapshot, Grows
<1>4. \A e \in Entry : Tells(e.path, e.rev, e.text)
                        => (notes' => \E r \in local'[e.path] : r.id = e.rev /\ r.text = e.text)
    BY <1>2, GrowsTells
<1>5. Tells(op[o].path, op[o].seen.id, op[o].text)
        => (notes' => \E r \in local'[op[o].path] : r.id = op[o].seen.id /\ r.text = op[o].text)
    BY <1>1, GrowsTells
<1>6. purges \cup dropped \subseteq purges' \cup dropped'
    BY DEF Grows
<1> QED BY <1>1, <1>3, <1>4, <1>5, <1>6 DEF Listing, Tells

LEMMA KeepingStays ==
    ASSUME RestoreInv, Grows, NEW o \in Ops, op'[o] = op[o]
    PROVE  Keeping(o)'
<1>1. Keeping(o) /\ op[o].path \in Paths /\ op[o].target \in Paths
    BY OneOperation DEF Good
<1>2. \A p \in Paths : \A t : Recorded(p, t) => (notes' => t \in versions'[p] \cup swept' \cup {NoText})
    BY GrowsTells
<1>3. notes' = notes
    BY DEF Grows
<1> QED BY <1>1, <1>2, <1>3 DEF Keeping, Recorded

LEMMA IdleIs ==
    /\ Idle \in Operation /\ Idle.kind = "none" /\ Idle.pc = "idle" /\ Idle.conf = {} /\ Idle.path = 1
    /\ Idle.target = 1 /\ Idle.text = NoText
BY LinkRestoreAssumption, NoRevFields DEF Idle, Operation, Kinds, Pcs, Paths, Text, Choices

LEMMA IdleGood ==
    ASSUME NEW o \in Ops, op'[o] = Idle
    PROVE  Good(o)'
BY IdleIs DEF Good, Reading, Listing, Keeping

LEMMA EntriesStay ==
    ASSUME RestoreInv, Grows, NEW s \in SUBSET Entry, purges' \subseteq purges \cup s,
           \A e \in s : Tells(e.path, e.rev, e.text)
    PROVE  Entries'
<1>1. \A e \in purges' : e \in Entry /\ e.path \in Paths /\ Tells(e.path, e.rev, e.text)
    BY DEF RestoreInv, Typed, Lists, Entries, Entry
<1>2. \A e \in purges' : notes' => \E r \in local'[e.path] : r.id = e.rev /\ r.text = e.text
    BY <1>1, GrowsTells
<1> QED BY <1>2 DEF Entries, Tells

\* One operation goes on.
LEMMA GoesOn ==
    ASSUME RestoreInv, Grows, Files', Documents', History', Lists', Entries',
           NEW o \in Ops, NEW n \in Operation, op' = [op EXCEPT ![o] = n], op'[o] = n => Good(o)'
    PROVE  RestoreInv'
<1>1. op \in [Ops -> Operation]
    BY DEF RestoreInv, Typed, Operations
<1>2. op' \in [Ops -> Operation] /\ op'[o] = n /\ \A q \in Ops \ {o} : op'[q] = op[q]
    BY <1>1
<1>3. ASSUME NEW q \in Ops PROVE Reading(q)' /\ Listing(q)' /\ Keeping(q)'
    <2>1. CASE q = o
        BY <1>2, <2>1 DEF Good
    <2>2. CASE q # o
        BY <1>2, <2>2, ReadingStays, ListingStays, KeepingStays
    <2> QED BY <2>1, <2>2
<1>4. Operations'
    BY <1>2 DEF Operations
<1> QED BY <1>3, <1>4 DEF RestoreInv, Typed

\* None does.
LEMMA NoneGoesOn ==
    ASSUME RestoreInv, Grows, Files', Documents', History', Lists', Entries', op' = op
    PROVE  RestoreInv'
<1>1. ASSUME NEW q \in Ops PROVE Reading(q)' /\ Listing(q)' /\ Keeping(q)'
    BY ReadingStays, ListingStays, KeepingStays
<1>2. Operations'
    BY DEF RestoreInv, Typed, Operations
<1> QED BY <1>1, <1>2 DEF RestoreInv, Typed

LEMMA Same ==
    ASSUME RestoreInv
    PROVE  /\ UNCHANGED <<notes, filesVars>> => Files'
           /\ UNCHANGED <<local, remote, clock>> => Documents'
           /\ UNCHANGED <<versions, swept>> => History'
           /\ UNCHANGED lists => Lists'
           /\ UNCHANGED <<notes, local, purges>> => Entries'
           /\ UNCHANGED <<notes, local, versions, swept, purges, dropped>> => Grows
<1>1. UNCHANGED <<notes, filesVars>> => Files'
    BY DEF RestoreInv, Typed, Files, filesVars
<1>2. UNCHANGED <<local, remote, clock>> => Documents'
    BY DEF RestoreInv, Typed, Documents
<1>3. UNCHANGED <<versions, swept>> => History'
    BY DEF RestoreInv, Typed, History
<1>4. UNCHANGED lists => Lists'
    BY DEF RestoreInv, Typed, Lists, lists
<1>5. UNCHANGED <<notes, local, purges>> => Entries'
    BY DEF RestoreInv, Entries, Tells
<1>6. UNCHANGED <<notes, local, versions, swept, purges, dropped>> => Grows
    BY DEF Grows
<1> QED BY <1>1, <1>2, <1>3, <1>4, <1>5, <1>6

\* A step that only reads.
LEMMA OnlyReads ==
    ASSUME RestoreInv, UNCHANGED <<notes, filesVars, dbVars, lists, clock, swept>>,
           NEW o \in Ops, NEW n \in Operation, op' = [op EXCEPT ![o] = n], op'[o] = n => Good(o)'
    PROVE  RestoreInv'
<1>1. Files' /\ Documents' /\ History' /\ Lists' /\ Entries' /\ Grows
    BY Same DEF dbVars, lists
<1> QED BY <1>1, GoesOn

LEMMA Ends ==
    ASSUME RestoreInv, UNCHANGED <<notes, filesVars, dbVars, lists, clock, swept>>,
           NEW o \in Ops, op' = [op EXCEPT ![o] = Idle]
    PROVE  RestoreInv'
BY OnlyReads, IdleIs, IdleGood

-----------------------------------------------------------------------------
(* The steps of the operations that only read.                              *)

LEMMA BeginInv ==
    ASSUME RestoreInv, NEW o \in Ops,
           NEW kind \in {"restore", "sweep", "repair", "version", "answer", "resolve", "undo", "clear"},
           Begin(o, kind, "read", 1)
    PROVE  RestoreInv'
<1> DEFINE n == [Idle EXCEPT !.kind = kind, !.pc = "read", !.path = 1]
<1>1. op' = [op EXCEPT ![o] = n] /\ UNCHANGED <<notes, filesVars, dbVars, lists, clock, swept>>
    BY DEF Begin
<1>2. n \in Operation /\ n.kind = kind /\ n.pc = "read" /\ n.path = 1 /\ n.conf = {}
    BY IdleIs DEF Operation, Kinds, Pcs, Paths
<1>3. op'[o] = n => Good(o)'
    BY <1>2 DEF Good, Reading, Listing, Keeping
<1> HIDE DEF n
<1> QED BY <1>1, <1>2, <1>3, OnlyReads

LEMMA RestoreReadsInv ==
    ASSUME RestoreInv, NEW o \in Ops, NEW choice, RestoreReads(o, choice)
    PROVE  RestoreInv'
<1> DEFINE p == op[o].path
           n == [op[o] EXCEPT !.pc = "write", !.target = RestoreTarget(p, choice), !.text = Recoverable(p)]
<1>1. /\ Runs(o, "restore", "read") /\ UNCHANGED <<notes, filesVars, dbVars, lists, clock, swept>>
      /\ op' = [op EXCEPT ![o] = Idle] \/ op' = [op EXCEPT ![o] = n]
    BY DEF RestoreReads
<1>2. op[o] \in Operation /\ p \in Paths /\ op[o].kind = "restore" /\ Good(o)
    BY <1>1, OneOperation DEF Runs
<1>3. Recoverable(p) \in Text
    <2>1. Winner(local[p]) \in Rev(Texts)
        BY <1>2, Shows DEF RestoreInv, Typed
    <2>2. archive[p] \in Text
        BY <1>2 DEF RestoreInv, Typed, Files
    <2> QED BY <2>1, <2>2 DEF Recoverable, Doc, Rev, Text
<1>4. n \in Operation /\ n.kind = "restore" /\ n.pc = "write" /\ n.conf = op[o].conf
    <2>1. RestoreTarget(p, choice) \in Paths
        BY <1>2 DEF RestoreTarget, Copy, Paths
    <2> QED BY <1>2, <1>3, <2>1 DEF Operation, Pcs
<1>5. op'[o] = n => Good(o)'
    BY <1>2, <1>4 DEF Good, Reading, Listing, Keeping
<1> HIDE DEF n
<1> QED BY <1>1, <1>4, <1>5, OnlyReads, Ends

LEMMA PurgeReadsInv ==
    ASSUME RestoreInv, NEW o \in Ops, PurgeReads(o)
    PROVE  RestoreInv'
<1> DEFINE p == op[o].path
           n == [op[o] EXCEPT !.pc = "load", !.seen = Doc(p), !.conf = Conflicts(local[p]), !.at = clock]
<1>1. /\ Runs(o, "purge", "read") /\ UNCHANGED <<notes, filesVars, dbVars, lists, clock, swept>>
      /\ \/ op' = [op EXCEPT ![o] = Idle]
         \/ Present(local[p]) # {} /\ op' = [op EXCEPT ![o] = n]
    BY DEF PurgeReads
<1>2. op[o] \in Operation /\ p \in Paths /\ op[o].kind = "purge" /\ Good(o) /\ clock \in Nat
    BY <1>1, OneOperation DEF Runs, RestoreInv, Typed, Documents
<1>3. CASE op' = [op EXCEPT ![o] = Idle]
    BY <1>1, <1>3, Ends
<1>4. CASE Present(local[p]) # {} /\ op' = [op EXCEPT ![o] = n]
    <2>1. /\ Doc(p) \in Rev(Texts) /\ Doc(p) \in Present(local[p]) /\ Present(local[p]) \subseteq local[p]
          /\ Conflicts(local[p]) \subseteq Present(local[p]) /\ local[p] \subseteq Rev(Texts)
          /\ \A r \in Present(local[p]) : r.state # "removed"
        BY <1>2, <1>4, Shows DEF RestoreInv, Typed, Doc
    <2>2. /\ n \in Operation /\ n.kind = "purge" /\ n.pc = "load" /\ n.path = p /\ n.seen = Doc(p)
          /\ n.conf = Conflicts(local[p])
        BY <1>2, <2>1 DEF Operation, Pcs
    <2>3. local' = local
        BY <1>1 DEF dbVars
    <2>4. op'[o] = n => Good(o)'
        BY <2>1, <2>2, <2>3 DEF Good, Reading, Listing, Keeping
    <2> HIDE DEF n
    <2> QED BY <1>1, <1>4, <2>2, <2>4, OnlyReads
<1> QED BY <1>1, <1>3, <1>4

LEMMA EntryLoadsInv ==
    ASSUME RestoreInv, NEW o \in Ops, EntryLoads(o)
    PROVE  RestoreInv'
<1> DEFINE n == [op[o] EXCEPT !.list = purges, !.pc = "save"]
<1>1. /\ op[o].kind \in {"undo", "clear"} /\ op[o].pc = "load"
      /\ UNCHANGED <<notes, filesVars, dbVars, lists, clock, swept>>
      /\ op' = [op EXCEPT ![o] = n]
    BY DEF EntryLoads
<1>2. op[o] \in Operation /\ Good(o)
    BY OneOperation
<1>3. purges \subseteq Entry /\ IsFiniteSet(purges) /\ Entries
    BY DEF RestoreInv, Typed, Lists
<1>4. /\ n \in Operation /\ n.kind = op[o].kind /\ n.pc = "save" /\ n.list = purges
      /\ n.path = op[o].path /\ n.seen = op[o].seen /\ n.conf = op[o].conf /\ n.text = op[o].text
      /\ n.target = op[o].target
    BY <1>2, <1>3 DEF Operation, Pcs
<1>5. UNCHANGED <<notes, local, versions, swept, purges, dropped>>
    BY <1>1 DEF dbVars, lists
<1>6. op'[o] = n => Good(o)'
    <2>1. op'[o] = n => Reading(o)'
        BY <1>1, <1>2, <1>4, <1>5 DEF Good, Reading
    <2>2. op'[o] = n => Listing(o)'
        BY <1>1, <1>2, <1>3, <1>4, <1>5 DEF Good, Listing, Entries, Tells
    <2>3. op'[o] = n => Keeping(o)'
        BY <1>1, <1>2, <1>4, <1>5 DEF Good, Keeping, Recorded
    <2> QED BY <2>1, <2>2, <2>3 DEF Good
<1> HIDE DEF n
<1> QED BY <1>1, <1>4, <1>6, OnlyReads

LEMMA EntryReadsInv ==
    ASSUME RestoreInv, NEW o \in Ops, NEW e \in purges, UndoReads(o, e) \/ ClearReads(o, e)
    PROVE  RestoreInv'
<1>1. /\ e \in Entry /\ e.path \in Paths /\ e.rev \in Int /\ e.text \in Text
      /\ Tells(e.path, e.rev, e.text)
    BY DEF RestoreInv, Typed, Lists, Entries, Entry
<1>2. op[o] \in Operation /\ Good(o) /\ op[o].seen \in Rev(Texts)
    BY OneOperation
<1>3. [op[o].seen EXCEPT !.id = e.rev] \in Rev(Texts)
    BY <1>1, <1>2 DEF Rev
<1>4. PICK n : /\ op' = [op EXCEPT ![o] = n] /\ n \in Operation
               /\ \/ n.kind = "undo" /\ n.pc = "write"
                  \/ n.kind = "clear" /\ n.pc = "load"
               /\ n.path = e.path /\ n.seen.id = e.rev /\ n.text = e.text /\ n.conf = op[o].conf
    <2>1. CASE UndoReads(o, e)
        <3> DEFINE n == [op[o] EXCEPT !.pc = "write", !.path = e.path, !.seen.id = e.rev,
                            !.text = e.text, !.target = RestoreTarget(e.path, "keep-both")]
        <3>1. op[o].kind = "undo" /\ op' = [op EXCEPT ![o] = n]
            BY <2>1 DEF UndoReads, Runs
        <3>2. RestoreTarget(e.path, "keep-both") \in Paths
            BY <1>1 DEF RestoreTarget, Copy, Paths
        <3>3. n \in Operation
            BY <1>1, <1>2, <1>3, <3>2 DEF Operation, Pcs, Text
        <3>4. n.kind = "undo" /\ n.pc = "write" /\ n.path = e.path /\ n.seen.id = e.rev
              /\ n.text = e.text /\ n.conf = op[o].conf
            BY <1>2, <1>3, <3>1 DEF Operation, Rev
        <3> HIDE DEF n
        <3> QED BY <3>1, <3>3, <3>4
    <2>2. CASE ClearReads(o, e)
        <3> DEFINE n == [op[o] EXCEPT !.pc = "load", !.path = e.path, !.seen.id = e.rev, !.text = e.text]
        <3>1. op[o].kind = "clear" /\ op' = [op EXCEPT ![o] = n]
            BY <2>2 DEF ClearReads, Runs
        <3>2. n \in Operation
            BY <1>1, <1>2, <1>3 DEF Operation, Pcs, Text
        <3>3. n.kind = "clear" /\ n.pc = "load" /\ n.path = e.path /\ n.seen.id = e.rev
              /\ n.text = e.text /\ n.conf = op[o].conf
            BY <1>2, <1>3, <3>1 DEF Operation, Rev
        <3> HIDE DEF n
        <3> QED BY <3>1, <3>2, <3>3
    <2> QED BY <2>1, <2>2
<1>5. UNCHANGED <<notes, filesVars, dbVars, lists, clock, swept>> /\ local' = local
    BY DEF UndoReads, ClearReads, dbVars
<1>6. op'[o] = n => Good(o)'
    <2>1. op'[o] = n => Reading(o)'
        BY <1>2, <1>4 DEF Good, Reading
    <2>2. op'[o] = n => Listing(o)'
        BY <1>1, <1>4, <1>5 DEF Listing, Tells
    <2>3. op'[o] = n => Keeping(o)'
        BY <1>4 DEF Keeping
    <2> QED BY <2>1, <2>2, <2>3 DEF Good
<1> QED BY <1>4, <1>5, <1>6, OnlyReads

LEMMA DocTyped ==
    ASSUME RestoreInv, NEW p \in Paths
    PROVE  Doc(p) \in Rev(Texts) /\ Doc(p).text \in Text
<1>1. Doc(p) \in Rev(Texts)
    BY Shows DEF RestoreInv, Typed, Doc
<1> QED BY <1>1 DEF Rev, Text

LEMMA PurgeLoadsInv ==
    ASSUME RestoreInv, NEW o \in Ops, PurgeLoads(o)
    PROVE  RestoreInv'
<1>1. /\ op[o].kind = "purge" /\ op[o].pc = "load"
      /\ UNCHANGED <<notes, filesVars, dbVars, lists, clock, swept>>
    BY DEF PurgeLoads, Runs
<1>2. op[o] \in Operation /\ Good(o) /\ op[o].path \in Paths
    BY OneOperation
<1>3. PICK binary \in {NoText} \cup IF notes THEN {} ELSE {Doc(op[o].path).text} :
         op' = [op EXCEPT ![o] = [@ EXCEPT !.pc = "save", !.list = purges, !.text = binary]]
    BY DEF PurgeLoads
<1>4. binary \in Text
    BY <1>2, <1>3, DocTyped DEF Text
<1>5. purges \subseteq Entry /\ IsFiniteSet(purges) /\ Entries
    BY DEF RestoreInv, Typed, Lists
<1> DEFINE n == [op[o] EXCEPT !.pc = "save", !.list = purges, !.text = binary]
<1>6. op' = [op EXCEPT ![o] = n]
    BY <1>3
<1>7. /\ n \in Operation /\ n.kind = "purge" /\ n.pc = "save" /\ n.list = purges
      /\ n.path = op[o].path /\ n.seen = op[o].seen /\ n.conf = op[o].conf
    BY <1>1, <1>2, <1>4, <1>5 DEF Operation, Pcs
<1>8. UNCHANGED <<notes, local, versions, swept, purges, dropped>>
    BY <1>1 DEF dbVars, lists
<1>9. op'[o] = n => Good(o)'
    <2> HIDE DEF n
    <2>1. op'[o] = n => Reading(o)'
        BY <1>1, <1>2, <1>7, <1>8 DEF Good, Reading
    <2>2. op'[o] = n => Listing(o)'
        BY <1>5, <1>7, <1>8 DEF Listing, Entries, Tells
    <2>3. op'[o] = n => Keeping(o)'
        BY <1>7 DEF Keeping
    <2> QED BY <2>1, <2>2, <2>3 DEF Good
<1> HIDE DEF n
<1> QED BY <1>1, <1>6, <1>7, <1>9, OnlyReads

LEMMA AnswerReadsInv ==
    ASSUME RestoreInv, NEW o \in Ops, NEW choice, AnswerReads(o, choice)
    PROVE  RestoreInv'
<1> DEFINE p == op[o].path
           n1 == [op[o] EXCEPT !.kind = "delete", !.pc = "delete"]
           n2 == [op[o] EXCEPT !.kind = choice, !.pc = "write", !.target = p, !.text = Doc(p).text]
           n3 == [op[o] EXCEPT !.kind = choice, !.pc = "load"]
           n4 == [op[o] EXCEPT !.kind = choice, !.pc = "write", !.target = Copy, !.text = Doc(p).text]
           n5 == [op[o] EXCEPT !.kind = choice, !.pc = "delete"]
<1>1. op[o] \in Operation /\ p \in Paths /\ Good(o) /\ Doc(p).text \in Text /\ Copy \in Paths
    BY OneOperation, DocTyped DEF Copy, Paths
<1>2. /\ UNCHANGED <<notes, filesVars, dbVars, lists, clock, swept>>
      /\ choice \in {"keep-remote", "keep-both", "delete"} /\ op[o].pc = "read"
    BY DEF AnswerReads, Runs
<1>3. CASE choice = "delete"
    <2>1. op' = [op EXCEPT ![o] = n1]
        BY <1>3 DEF AnswerReads
    <2>2. n1 \in Operation
        BY <1>1 DEF Operation, Kinds, Pcs
    <2>3. n1.kind = "delete" /\ n1.pc = "delete" /\ n1.conf = op[o].conf
        BY <1>1 DEF Operation
    <2>4. op'[o] = n1 => Good(o)'
        BY <1>1, <2>3 DEF Good, Reading, Listing, Keeping
    <2> HIDE DEF n1
    <2> QED BY <1>2, <2>1, <2>2, <2>4, OnlyReads
<1>4. CASE choice # "delete"
    <2>1. PICK n \in {n2, n3, n4, n5} : op' = [op EXCEPT ![o] = n]
        <3> HIDE DEF n2, n3, n4, n5
        <3>1. CASE choice = "keep-remote"
            BY <3>1 DEF AnswerReads, n2, n3
        <3>2. CASE choice = "keep-both"
            BY <3>2 DEF AnswerReads, n4, n5
        <3> QED BY <1>2, <1>4, <3>1, <3>2
    <2>2. \A m \in {n2, n3, n4, n5} : m \in Operation
        <3>1. n2 \in Operation
            BY <1>1, <1>2 DEF Operation, Kinds, Pcs
        <3>2. n3 \in Operation
            BY <1>1, <1>2 DEF Operation, Kinds, Pcs
        <3>3. n4 \in Operation
            BY <1>1, <1>2 DEF Operation, Kinds, Pcs
        <3>4. n5 \in Operation
            BY <1>1, <1>2 DEF Operation, Kinds, Pcs
        <3> QED BY <3>1, <3>2, <3>3, <3>4
    <2>3. \A m \in {n2, n3, n4, n5} :
             /\ m.kind = choice /\ m.pc \in {"write", "load", "delete"} /\ m.conf = op[o].conf
        BY <1>1 DEF Operation
    <2> HIDE DEF n2, n3, n4, n5
    <2>4. n \in Operation /\ n.kind = choice /\ n.pc \in {"write", "load", "delete"} /\ n.conf = op[o].conf
        BY <2>1, <2>2, <2>3
    <2>5. op'[o] = n => Good(o)'
        BY <1>1, <1>2, <1>4, <2>4 DEF Good, Reading, Listing, Keeping
    <2> QED BY <1>2, <2>1, <2>4, <2>5, OnlyReads
<1> QED BY <1>3, <1>4

LEMMA QueueLoadsInv ==
    ASSUME RestoreInv, NEW o \in Ops, QueueLoads(o)
    PROVE  RestoreInv'
<1> DEFINE n == [op[o] EXCEPT !.list = queue, !.pc = "save"]
<1>1. /\ op[o].kind \in {"delete", "keep-both", "keep-remote"}
      /\ UNCHANGED <<notes, filesVars, dbVars, lists, clock, swept>> /\ op' = [op EXCEPT ![o] = n]
    BY DEF QueueLoads
<1>2. op[o] \in Operation /\ Good(o) /\ queue \subseteq Paths
    BY OneOperation DEF RestoreInv, Typed, Lists
<1>3. n \in Operation
    BY <1>2 DEF Operation, Pcs
<1>4. n.kind = op[o].kind /\ n.pc = "save" /\ n.list = queue /\ n.conf = op[o].conf
    BY <1>2 DEF Operation
<1>5. op'[o] = n => Good(o)'
    BY <1>1, <1>2, <1>4 DEF Good, Reading, Listing, Keeping
<1> HIDE DEF n
<1> QED BY <1>1, <1>3, <1>5, OnlyReads

LEMMA ResolveRetriesInv ==
    ASSUME RestoreInv, NEW o \in Ops, ResolveRetries(o)
    PROVE  RestoreInv'
<1> DEFINE n == [op[o] EXCEPT !.pc = "read", !.tries = op[o].tries + 1]
<1>1. /\ op[o].kind = "resolve" /\ UNCHANGED <<notes, filesVars, dbVars, lists, clock, swept>>
      /\ \/ op' = [op EXCEPT ![o] = Idle]
         \/ op[o].tries + 1 # Attempts /\ op' = [op EXCEPT ![o] = n]
    <2>1. CASE op[o].tries + 1 = Attempts
        BY <2>1 DEF ResolveRetries, Runs
    <2>2. CASE op[o].tries + 1 # Attempts
        BY <2>2 DEF ResolveRetries, Runs
    <2> QED BY <2>1, <2>2
<1>2. op[o] \in Operation /\ Good(o) /\ op[o].tries \in 0..(Attempts - 1)
    BY OneOperation
<1>3. CASE op' = [op EXCEPT ![o] = Idle]
    BY <1>1, <1>3, Ends
<1>4. CASE op[o].tries + 1 # Attempts /\ op' = [op EXCEPT ![o] = n]
    <2>1. op[o].tries + 1 \in 0..(Attempts - 1)
        BY <1>2, <1>4, LinkRestoreAssumption
    <2>2. n \in Operation
        BY <1>2, <2>1 DEF Operation, Pcs
    <2>3. n.kind = "resolve" /\ n.pc = "read" /\ n.conf = op[o].conf
        BY <1>1, <1>2 DEF Operation
    <2>4. op'[o] = n => Good(o)'
        BY <1>2, <2>3 DEF Good, Reading, Listing, Keeping
    <2> HIDE DEF n
    <2> QED BY <1>1, <1>4, <2>2, <2>4, OnlyReads
<1> QED BY <1>1, <1>3, <1>4

LEMMA VersionGetsInv ==
    ASSUME RestoreInv, NEW o \in Ops, VersionGets(o)
    PROVE  RestoreInv'
<1> DEFINE n == [op[o] EXCEPT !.pc = "put", !.seen = Doc(op[o].path)]
<1>1. /\ op[o].kind = "version" /\ op[o].pc = "get"
      /\ UNCHANGED <<notes, filesVars, dbVars, lists, clock, swept>>
      /\ op' = [op EXCEPT ![o] = n]
    BY DEF VersionGets, Runs
<1>2. op[o] \in Operation /\ Good(o) /\ Doc(op[o].path) \in Rev(Texts)
    BY OneOperation, DocTyped
<1>3. n \in Operation
    BY <1>2 DEF Operation, Pcs
<1>4. /\ n.kind = "version" /\ n.pc = "put" /\ n.conf = op[o].conf /\ n.live = op[o].live
      /\ n.path = op[o].path
    BY <1>1, <1>2 DEF Operation
<1>5. UNCHANGED <<notes, versions, swept>>
    BY <1>1 DEF dbVars
<1>6. op'[o] = n => Good(o)'
    BY <1>1, <1>2, <1>4, <1>5 DEF Good, Reading, Listing, Keeping, Recorded
<1> HIDE DEF n
<1> QED BY <1>1, <1>3, <1>6, OnlyReads

LEMMA SweepReadsInv ==
    ASSUME RestoreInv, NEW o \in Ops, SweepReads(o)
    PROVE  RestoreInv'
<1> DEFINE n == [op[o] EXCEPT !.pc = "put", !.seen = Doc(op[o].path)]
<1>1. /\ op[o].kind = "sweep" /\ UNCHANGED <<notes, filesVars, dbVars, lists, clock, swept>>
      /\ op' = [op EXCEPT ![o] = Idle] \/ op' = [op EXCEPT ![o] = n]
    BY DEF SweepReads, Runs
<1>2. op[o] \in Operation /\ Good(o) /\ Doc(op[o].path) \in Rev(Texts)
    BY OneOperation, DocTyped
<1>3. n \in Operation
    BY <1>2 DEF Operation, Pcs
<1>4. n.kind = "sweep" /\ n.pc = "put" /\ n.conf = op[o].conf /\ n.path = op[o].path
    BY <1>1, <1>2 DEF Operation
<1>5. op'[o] = n => Good(o)'
    BY <1>1, <1>2, <1>4 DEF Good, Reading, Listing, Keeping
<1> HIDE DEF n
<1> QED BY <1>1, <1>3, <1>5, OnlyReads, Ends

LEMMA RepairScansInv ==
    ASSUME RestoreInv, NEW o \in Ops, RepairScans(o)
    PROVE  RestoreInv'
<1> DEFINE n == [op[o] EXCEPT !.pc = "put"]
<1>1. /\ op[o].kind = "repair" /\ UNCHANGED <<notes, filesVars, dbVars, lists, clock, swept>>
      /\ op' = [op EXCEPT ![o] = Idle] \/ op' = [op EXCEPT ![o] = n]
    BY DEF RepairScans, Runs
<1>2. op[o] \in Operation /\ Good(o)
    BY OneOperation
<1>3. n \in Operation
    BY <1>2 DEF Operation, Pcs
<1>4. n.kind = "repair" /\ n.pc = "put" /\ n.conf = op[o].conf
    BY <1>1, <1>2 DEF Operation
<1>5. op'[o] = n => Good(o)'
    BY <1>1, <1>2, <1>4 DEF Good, Reading, Listing, Keeping
<1> HIDE DEF n
<1> QED BY <1>1, <1>3, <1>5, OnlyReads, Ends

-----------------------------------------------------------------------------
(* What the steps that write have in common.                                *)

LEMMA GotoIs ==
    ASSUME RestoreInv, NEW o \in Ops, NEW pc \in Pcs, Goto(o, pc)
    PROVE  \E n \in Operation :
              /\ op' = [op EXCEPT ![o] = n]
              /\ n.kind = op[o].kind /\ n.pc = pc /\ n.path = op[o].path /\ n.target = op[o].target
              /\ n.text = op[o].text /\ n.live = op[o].live /\ n.seen = op[o].seen
              /\ n.conf = op[o].conf /\ n.list = op[o].list
              /\ n.choice = op[o].choice /\ n.at = op[o].at
<1> DEFINE n == [op[o] EXCEPT !.pc = pc]
<1>1. op[o] \in Operation
    BY OneOperation
<1>2. n \in Operation
    BY <1>1 DEF Operation
<1>3. /\ n.kind = op[o].kind /\ n.pc = pc /\ n.path = op[o].path /\ n.target = op[o].target
      /\ n.text = op[o].text /\ n.live = op[o].live /\ n.seen = op[o].seen
      /\ n.conf = op[o].conf /\ n.list = op[o].list
      /\ n.choice = op[o].choice /\ n.at = op[o].at
    BY <1>1 DEF Operation
<1>4. op' = [op EXCEPT ![o] = n]
    BY DEF Goto
<1> HIDE DEF n
<1> QED BY <1>2, <1>3, <1>4

LEMMA WriteFileIs ==
    ASSUME RestoreInv, NEW p \in Paths, NEW text \in Text, WriteFile(p, text), UNCHANGED <<notes, archive>>
    PROVE  Files'
BY DEF WriteFile, RestoreInv, Typed, Files

LEMMA KeepTextIs ==
    ASSUME RestoreInv, NEW p \in Paths, NEW texts \in SUBSET Text, KeepText(p, texts), swept' = swept
    PROVE  /\ History'
           /\ \A q \in Paths : versions[q] \subseteq versions'[q]
           /\ notes => texts \subseteq versions'[p] \cup {NoText}
<1>1. versions \in [Paths -> SUBSET Texts] /\ swept \subseteq Texts
    BY DEF RestoreInv, Typed, History
<1>2. texts \ {NoText} \subseteq Texts
    BY DEF Text
<1>3. CASE notes
    <2>1. versions' = [versions EXCEPT ![p] = @ \cup (texts \ {NoText})]
        BY <1>3 DEF KeepText
    <2>2. versions' \in [Paths -> SUBSET Texts]
        BY <1>1, <1>2, <2>1
    <2>3. versions'[p] = versions[p] \cup (texts \ {NoText})
          /\ \A q \in Paths \ {p} : versions'[q] = versions[q]
        BY <1>1, <2>1
    <2> QED BY <1>1, <2>2, <2>3 DEF History
<1>4. CASE ~notes
    BY <1>1, <1>4 DEF KeepText, History
<1> QED BY <1>3, <1>4

\* What a put, a put on a revision and a tombstone add.
LEMMA PutIs ==
    ASSUME RestoreInv, NEW p \in Paths, NEW text \in Text, Put(p, text), remote' = remote
    PROVE  /\ Documents' /\ \A q \in Paths : local[q] \subseteq local'[q]
           /\ \A q \in Paths \ {p} : local'[q] = local[q]
           /\ \E c : /\ local'[p] = local[p] \cup {c}
                     /\ \/ c.anc = {}
                        \/ Base(local[p]) \in local[p] /\ c.anc = Past(Base(local[p]))
<1> DEFINE b == Base(local[p])
           c == Child(b, clock + 1, text, "live", TRUE, 0)
<1>1. Documents /\ clock \in Nat
    BY DEF RestoreInv, Typed, Documents
<1>2. (b = NoRev \/ b \in local[p]) /\ b \in Rev(Texts)
    BY <1>1, Shows, NoRevFields, OneDocument
<1>3. c \in Rev(Texts) /\ c.state # "removed" /\ c.id = 2 * (clock + 1)
      /\ c.anc = IF b = NoRev THEN {} ELSE Past(b)
    <2> HIDE DEF b
    <2>1. b.anc \subseteq Int /\ b.id \in Int
        BY <1>1, <1>2 DEF Rev
    <2>2. c.state # "removed" /\ c.id = 2 * (clock + 1)
        BY <1>1, <1>2 DEF Child
    <2>3. c.anc = IF b = NoRev THEN {} ELSE Past(b)
        BY <1>1, <1>2 DEF Child, Past
    <2>4. c \in Rev(Texts)
        BY <1>1, <1>2, <2>1 DEF Child, Rev, Text
    <2> QED BY <2>2, <2>3, <2>4
<1>4. local' = [local EXCEPT ![p] = @ \cup {c}] /\ clock' = clock + 1
    BY DEF Put, WithText
<1>5. c.anc = {} \/ \E x \in local[p] : c.anc = Past(x)
    BY <1>2, <1>3
<1>6. Documents' /\ \A q \in Paths : local[q] \subseteq local'[q]
    <2> HIDE DEF c
    <2> QED BY <1>1, <1>3, <1>4, <1>5, PutOnly
<1>7. local'[p] = local[p] \cup {c} /\ \A q \in Paths \ {p} : local'[q] = local[q]
    <2>1. local \in [Paths -> SUBSET Rev(Texts)]
        BY <1>1 DEF Documents
    <2> HIDE DEF c
    <2> QED BY <1>4, <2>1
<1> QED BY <1>2, <1>3, <1>6, <1>7

LEMMA PutOnIs ==
    ASSUME RestoreInv, NEW p \in Paths, NEW rev \in Rev(Texts), StillLeaf(p, rev),
           NEW text \in Text, NEW state \in {"live", "deleted"}
    PROVE  \E c \in Rev(Texts) :
              /\ c.state # "removed" /\ c.id = 2 * (clock + 1)
              /\ PutOn(p, rev, text, state) = [local EXCEPT ![p] = @ \cup {c}]
              /\ \/ c.anc = {}
                 \/ rev \in local[p] /\ c.anc = Past(rev)
                 \/ rev = NoRev /\ Present(local[p]) = {} /\ \E b \in local[p] : c.anc = Past(b)
<1> DEFINE b == IF rev = NoRev THEN Base(local[p]) ELSE rev
           c == Child(b, clock + 1, text, state, TRUE, clock + 1)
<1>1. Documents /\ clock + 1 \in Nat
    BY OneDocument DEF RestoreInv, Typed
<1>2. Leaves(local[p]) \subseteq local[p] /\ local[p] \subseteq Rev(Texts)
    BY <1>1, Shows, OneDocument
<1>3. Base(local[p]) = NoRev \/ Base(local[p]) \in local[p]
    BY <1>1, <1>2, Shows
<1>4. rev # NoRev => rev \in local[p]
    BY <1>2 DEF StillLeaf
<1>5. rev = NoRev => Present(local[p]) = {}
    BY DEF StillLeaf
<1>6. b \in Rev(Texts)
    BY <1>2, <1>3, NoRevFields
<1>7. c \in Rev(Texts) /\ c.state # "removed" /\ c.id = 2 * (clock + 1)
      /\ c.anc = IF b = NoRev THEN {} ELSE Past(b)
    <2> HIDE DEF b
    <2>1. b.anc \subseteq Int /\ b.id \in Int
        BY <1>1, <1>6 DEF Rev
    <2>2. c.state # "removed" /\ c.id = 2 * (clock + 1)
        BY <1>1, <1>6 DEF Child
    <2>3. c.anc = IF b = NoRev THEN {} ELSE Past(b)
        BY <1>1, <1>6 DEF Child, Past
    <2>4. c \in Rev(Texts)
        BY <1>1, <1>6, <2>1 DEF Child, Rev, Text
    <2> QED BY <2>2, <2>3, <2>4
<1>8. PutOn(p, rev, text, state) = [local EXCEPT ![p] = @ \cup {c}]
    BY DEF PutOn
<1>9. \/ c.anc = {}
      \/ rev \in local[p] /\ c.anc = Past(rev)
      \/ rev = NoRev /\ Present(local[p]) = {} /\ \E x \in local[p] : c.anc = Past(x)
    <2> HIDE DEF c
    <2> QED BY <1>3, <1>4, <1>5, <1>7
<1> HIDE DEF c
<1> QED BY <1>7, <1>8, <1>9

\* A live document is deleted with all that it shows.
LEMMA DeletedHere ==
    ASSUME RestoreInv, NEW p \in Paths, IsLive(local[p]), remote' = remote, clock' = clock + 1,
           local' = [local EXCEPT ![p] = WithoutLeaves(Tombstoned(@, clock + 1, TRUE), Conflicts(@))]
    PROVE  /\ Documents' /\ \A q \in Paths : local[q] \subseteq local'[q]
           /\ \A q \in Paths \ {p} : local'[q] = local[q]
<1> DEFINE w == Winner(local[p])
           c == Child(w, clock + 1, Buried(w.text), "deleted", TRUE, clock + 1)
<1>1. Documents /\ clock + 1 \in Nat
    BY OneDocument DEF RestoreInv, Typed
<1>2. /\ w \in Rev(Texts) /\ w \in local[p] /\ Conflicts(local[p]) \in SUBSET local[p]
      /\ \A r \in Conflicts(local[p]) : r.state # "removed"
    BY <1>1, Shows
<1>3. Buried(w.text) \in Text
    BY <1>2 DEF Rev, Text, Buried
<1>4. c \in Rev(Texts) /\ c.state # "removed" /\ c.id = 2 * (clock + 1)
      /\ c.anc = IF w = NoRev THEN {} ELSE Past(w)
    <2> HIDE DEF w
    <2>1. w.anc \subseteq Int /\ w.id \in Int
        BY <1>1, <1>2, <1>3 DEF Rev
    <2>2. c.state # "removed" /\ c.id = 2 * (clock + 1)
        BY <1>1, <1>2, <1>3 DEF Child
    <2>3. c.anc = IF w = NoRev THEN {} ELSE Past(w)
        BY <1>1, <1>2, <1>3 DEF Child, Past
    <2>4. c \in Rev(Texts)
        BY <1>1, <1>2, <1>3, <2>1 DEF Child, Rev, Text
    <2> QED BY <2>2, <2>3, <2>4
<1>5. local' = [local EXCEPT ![p] = WithoutLeaves(local[p] \cup {c}, Conflicts(local[p]))]
    BY DEF Tombstoned
<1>6. c.anc = {} \/ \E x \in local[p] : c.anc = Past(x)
    BY <1>2, <1>4
<1>7. Documents' /\ \A q \in Paths : local[q] \subseteq local'[q]
    <2>1. Conflicts(local[p]) \in SUBSET (local[p] \cup {c})
        BY <1>2
    <2> HIDE DEF c
    <2> QED BY <1>1, <1>2, <1>4, <1>5, <1>6, <2>1, PutHere
<1>8. \A q \in Paths \ {p} : local'[q] = local[q]
    BY <1>1, <1>5 DEF Documents
<1> QED BY <1>7, <1>8

-----------------------------------------------------------------------------
(* The steps of the operations that write.                                  *)

LEMMA FileWrittenInv ==
    ASSUME RestoreInv, NEW o \in Ops, FileWritten(o)
    PROVE  RestoreInv'
<1>1. /\ op[o].kind \in BringsBack /\ op[o].pc = "write" /\ Goto(o, "put")
      /\ WriteFile(op[o].target, op[o].text)
      /\ UNCHANGED <<notes, archive, dbVars, lists, clock, swept>>
    BY DEF FileWritten
<1>2. Good(o) /\ op[o].target \in Paths /\ op[o].text \in Text /\ op[o].path \in Paths
    BY OneOperation
<1>3. PICK n \in Operation :
         /\ op' = [op EXCEPT ![o] = n] /\ n.kind = op[o].kind /\ n.pc = "put" /\ n.path = op[o].path
         /\ n.text = op[o].text /\ n.seen = op[o].seen /\ n.conf = op[o].conf
    <2>1. "put" \in Pcs
        BY DEF Pcs
    <2> QED BY <1>1, <2>1, GotoIs
<1>4. Files' /\ Documents' /\ History' /\ Lists' /\ Entries' /\ Grows
    BY <1>1, <1>2, WriteFileIs, Same DEF dbVars, lists
<1>5. op'[o] = n => Good(o)'
    <2>1. local' = local
        BY <1>1 DEF dbVars
    <2> QED BY <1>1, <1>2, <1>3, <2>1 DEF Good, Reading, Listing, Keeping, Tells, BringsBack
<1> QED BY <1>3, <1>4, <1>5, GoesOn

LEMMA DocumentPutInv ==
    ASSUME RestoreInv, NEW o \in Ops, DocumentPut(o)
    PROVE  RestoreInv'
<1> DEFINE q == op[o].target
           t == op[o].text
<1>1. /\ op[o].kind \in BringsBack /\ op[o].pc = "put" /\ Goto(o, NextAfterPut(o))
      /\ Put(q, t) /\ KeepText(q, {t}) /\ UNCHANGED <<notes, filesVars, remote, lists, swept>>
    BY DEF DocumentPut
<1>2. Good(o) /\ q \in Paths /\ t \in Text /\ op[o].path \in Paths
    BY OneOperation
<1>3. Documents' /\ \A p \in Paths : local[p] \subseteq local'[p]
    BY <1>1, <1>2, PutIs
<1>4. /\ History' /\ \A p \in Paths : versions[p] \subseteq versions'[p]
      /\ notes => {t} \subseteq versions'[q] \cup {NoText}
    BY <1>1, <1>2, KeepTextIs
<1>5. NextAfterPut(o) \in Pcs /\ NextAfterPut(o) \in {"tidy", "load", "delete"}
      /\ (NextAfterPut(o) = "tidy" => op[o].kind = "restore")
    BY <1>1 DEF NextAfterPut, BringsBack, Pcs
<1>6. PICK n \in Operation :
         /\ op' = [op EXCEPT ![o] = n] /\ n.kind = op[o].kind /\ n.pc = NextAfterPut(o)
         /\ n.path = op[o].path /\ n.target = q /\ n.text = t /\ n.seen = op[o].seen
         /\ n.conf = op[o].conf
    BY <1>1, <1>5, GotoIs
<1>7. Grows
    BY <1>1, <1>3, <1>4 DEF Grows, lists
<1>8. Files' /\ Lists' /\ Entries'
    <2>1. {} \in SUBSET Entry /\ purges' \subseteq purges \cup {}
        BY <1>1 DEF lists
    <2> QED BY <1>1, <1>7, <2>1, Same, EntriesStay
<1>9. op'[o] = n => Good(o)'
    <2>1. notes' => t \in versions'[q] \cup swept' \cup {NoText}
        BY <1>1, <1>4
    <2>2. op'[o] = n => Reading(o)'
        BY <1>1, <1>2, <1>6 DEF Good, Reading, BringsBack
    <2>3. op'[o] = n => Listing(o)'
        <3>1. op[o].kind = "undo" => Tells(op[o].path, op[o].seen.id, t)
            BY <1>1, <1>2 DEF Good, Listing
        <3>2. op[o].kind = "undo" =>
                 (notes' => \E r \in local'[op[o].path] : r.id = op[o].seen.id /\ r.text = t)
            BY <1>2, <1>7, <3>1, GrowsTells
        <3> QED BY <1>1, <1>5, <1>6, <3>2 DEF Listing, Tells, BringsBack
    <2>4. op'[o] = n => Keeping(o)'
        BY <1>1, <1>5, <1>6, <2>1 DEF Keeping, BringsBack, Recorded
    <2> QED BY <2>2, <2>3, <2>4 DEF Good
<1> QED BY <1>3, <1>4, <1>6, <1>7, <1>8, <1>9, GoesOn

LEMMA RestoreTidiesInv ==
    ASSUME RestoreInv, NEW o \in Ops, RestoreTidies(o)
    PROVE  RestoreInv'
<1> DEFINE p == op[o].path
<1>1. /\ op' = [op EXCEPT ![o] = Idle] /\ archive' = [archive EXCEPT ![p] = NoText]
      /\ UNCHANGED <<notes, vault, remote, versions, lists, clock, swept>>
      /\ \/ /\ Present(local[p]) # {}
            /\ local' = [local EXCEPT ![p] = WithoutLeaves(local[p], {Doc(p)})]
         \/ local' = local
    BY DEF RestoreTidies, End
<1>2. p \in Paths /\ Documents
    BY OneOperation DEF RestoreInv, Typed
<1>3. Documents' /\ \A q \in Paths : local[q] \subseteq local'[q]
    <2>1. CASE /\ Present(local[p]) # {}
               /\ local' = [local EXCEPT ![p] = WithoutLeaves(local[p], {Doc(p)})]
        <3>1. {Doc(p)} \in SUBSET local[p] /\ \A r \in {Doc(p)} : r.state # "removed"
            BY <1>2, <2>1, Shows DEF Doc
        <3> QED BY <1>1, <1>2, <2>1, <3>1, RemoveHere
    <2>2. CASE local' = local
        BY <1>1, <2>2, Same
    <2> QED BY <1>1, <2>1, <2>2
<1>4. Grows
    BY <1>1, <1>3 DEF Grows, lists
<1>5. Files'
    BY <1>1, <1>2 DEF RestoreInv, Typed, Files, Text
<1>6. History' /\ Lists' /\ Entries'
    <2>1. {} \in SUBSET Entry /\ purges' \subseteq purges \cup {}
        BY <1>1 DEF lists
    <2> QED BY <1>1, <1>4, <2>1, Same, EntriesStay
<1> QED BY <1>1, <1>3, <1>4, <1>5, <1>6, GoesOn, IdleIs, IdleGood

LEMMA SnapshotIs ==
    ASSUME RestoreInv, NEW o \in Ops, op[o].kind = "purge", op[o].pc # "read"
    PROVE  /\ Snapshot(o) \in Entry
           /\ LET e == Snapshot(o) IN Tells(e.path, e.rev, e.text)
<1>1. /\ op[o].path \in Paths /\ op[o].seen \in Rev(Texts) /\ op[o].seen \in local[op[o].path]
      /\ op[o].text \in Text /\ op[o].at \in Nat
    BY OneOperation DEF Good, Reading
<1>2. op[o].seen.id \in Int /\ op[o].seen.text \in Text
    BY <1>1 DEF Rev, Text
<1>3. Snapshot(o) \in Entry
    BY <1>1, <1>2 DEF Snapshot, Entry
<1>4. /\ Snapshot(o).path = op[o].path /\ Snapshot(o).rev = op[o].seen.id
      /\ notes => Snapshot(o).text = op[o].seen.text
    BY DEF Snapshot
<1> QED BY <1>1, <1>3, <1>4 DEF Tells

LEMMA PurgeSavesInv ==
    ASSUME RestoreInv, NEW o \in Ops, PurgeSaves(o)
    PROVE  RestoreInv'
<1> DEFINE s == op[o].list \cup {Snapshot(o)}
<1>1. /\ op[o].kind = "purge" /\ op[o].pc = "save"
      /\ UNCHANGED <<notes, filesVars, dbVars, queue, clock, swept>>
      /\ \/ /\ Goto(o, "remove") /\ purges' \subseteq s
            /\ dropped' = dropped \cup ((purges \cup {Snapshot(o)}) \ purges')
         \/ /\ UNCHANGED <<purges, dropped>>
            /\ op' = [op EXCEPT ![o] = [@ EXCEPT !.pc = "remove", !.choice = "unlisted"]]
    BY DEF PurgeSaves, Runs, Newest
<1>2. /\ s \in SUBSET Entry /\ \A e \in s : Tells(e.path, e.rev, e.text)
      /\ Good(o) /\ op[o] \in Operation /\ Snapshot(o) \in Entry /\ IsFiniteSet(s)
    <2>1. /\ Good(o) /\ op[o].list \subseteq Entry /\ op[o] \in Operation /\ IsFiniteSet(op[o].list)
          /\ \A e \in op[o].list : Tells(e.path, e.rev, e.text)
        BY <1>1, OneOperation DEF Good, Listing
    <2>2. Snapshot(o) \in Entry /\ Tells(Snapshot(o).path, Snapshot(o).rev, Snapshot(o).text)
        BY <1>1, SnapshotIs
    <2>3. IsFiniteSet(s)
        BY <2>1, FS_AddElement
    <2> QED BY <2>1, <2>2, <2>3
<1> HIDE DEF s
<1>3. Grows
    BY <1>1 DEF Grows, dbVars
<1>4. Files' /\ Documents' /\ History'
    BY <1>1, Same DEF dbVars
<1>5. Lists'
    <2>1. IsFiniteSet(purges')
        BY <1>1, <1>2, FS_Subset DEF RestoreInv, Typed, Lists
    <2> QED BY <1>1, <1>2, <2>1 DEF RestoreInv, Typed, Lists
<1>6. Entries'
    <2>1. purges' \subseteq purges \cup s
        BY <1>1
    <2> QED BY <1>2, <1>3, <2>1, EntriesStay
<1>7. PICK n \in Operation :
         /\ op' = [op EXCEPT ![o] = n] /\ n.kind = "purge" /\ n.pc = "remove" /\ n.path = op[o].path
         /\ n.seen = op[o].seen /\ n.conf = op[o].conf /\ n.text = op[o].text /\ n.at = op[o].at
         /\ n.choice = "unlisted" \/ Snapshot(o) \in purges' \cup dropped'
    <2>1. CASE Goto(o, "remove") /\ dropped' = dropped \cup ((purges \cup {Snapshot(o)}) \ purges')
        <3>1. "remove" \in Pcs
            BY DEF Pcs
        <3>2. Snapshot(o) \in purges' \cup dropped'
            BY <2>1
        <3> QED BY <1>1, <2>1, <3>1, <3>2, GotoIs
    <2>2. CASE op' = [op EXCEPT ![o] = [@ EXCEPT !.pc = "remove", !.choice = "unlisted"]]
        <3> DEFINE n == [op[o] EXCEPT !.pc = "remove", !.choice = "unlisted"]
        <3>1. n \in Operation
            BY <1>2 DEF Operation, Pcs, Choices
        <3>2. /\ n.kind = "purge" /\ n.pc = "remove" /\ n.path = op[o].path /\ n.seen = op[o].seen
              /\ n.conf = op[o].conf /\ n.text = op[o].text /\ n.at = op[o].at /\ n.choice = "unlisted"
            BY <1>1, <1>2 DEF Operation
        <3>3. op' = [op EXCEPT ![o] = n]
            BY <2>2
        <3> HIDE DEF n
        <3> QED BY <3>1, <3>2, <3>3
    <2> QED BY <1>1, <2>1, <2>2
<1>8. op'[o] = n => Good(o)'
    <2>1. local' = local /\ notes' = notes
        BY <1>1 DEF dbVars
    <2>2. op'[o] = n => Snapshot(o)' = Snapshot(o)
        BY <1>7, <2>1 DEF Snapshot
    <2>3. op'[o] = n => Reading(o)'
        BY <1>1, <1>2, <1>7, <2>1 DEF Good, Reading
    <2>4. op'[o] = n => Listing(o)'
        BY <1>7, <2>2 DEF Listing
    <2>5. op'[o] = n => Keeping(o)'
        BY <1>7 DEF Keeping
    <2> QED BY <2>3, <2>4, <2>5 DEF Good
<1> QED BY <1>3, <1>4, <1>5, <1>6, <1>7, <1>8, GoesOn

LEMMA PurgeRemovesInv ==
    ASSUME RestoreInv, NEW o \in Ops, PurgeRemoves(o)
    PROVE  RestoreInv'
<1> DEFINE p == op[o].path
           S == {op[o].seen} \cup (op[o].conf \cap Leaves(local[p]))
<1>1. /\ op[o].kind = "purge" /\ op[o].pc = "remove" /\ op' = [op EXCEPT ![o] = Idle]
      /\ UNCHANGED <<notes, filesVars, remote, versions, lists, clock, swept>>
      /\ \/ local' = [local EXCEPT ![p] = WithoutLeaves(local[p], S)]
         \/ local' = local
    BY DEF PurgeRemoves, End, Runs
<1>2. p \in Paths /\ Documents /\ Reading(o)
    BY OneOperation DEF RestoreInv, Typed, Good
<1>3. Documents' /\ \A q \in Paths : local[q] \subseteq local'[q]
    <2>1. S \in SUBSET local[p] /\ \A r \in S : r.state # "removed"
        BY <1>1, <1>2 DEF Reading, Leaves
    <2>2. CASE local' = [local EXCEPT ![p] = WithoutLeaves(local[p], S)]
        <3> HIDE DEF S
        <3> QED BY <1>1, <1>2, <2>1, <2>2, RemoveHere
    <2>3. CASE local' = local
        BY <1>1, <2>3, Same
    <2> QED BY <1>1, <2>2, <2>3
<1>4. Grows
    BY <1>1, <1>3 DEF Grows, lists
<1>5. Files' /\ History' /\ Lists' /\ Entries'
    <2>1. {} \in SUBSET Entry /\ purges' \subseteq purges \cup {}
        BY <1>1 DEF lists
    <2> QED BY <1>1, <1>4, <2>1, Same, EntriesStay
<1> QED BY <1>1, <1>3, <1>4, <1>5, GoesOn, IdleIs, IdleGood

LEMMA EntrySavesInv ==
    ASSUME RestoreInv, NEW o \in Ops, EntrySaves(o)
    PROVE  RestoreInv'
<1> DEFINE s == op[o].list
<1>1. /\ op[o].kind \in {"undo", "clear"} /\ op[o].pc = "save" /\ op' = [op EXCEPT ![o] = Idle]
      /\ purges' \subseteq s /\ dropped' = dropped \cup (purges \ purges')
      /\ UNCHANGED <<notes, filesVars, dbVars, queue, clock, swept>>
    BY DEF EntrySaves, End
<1>2. s \in SUBSET Entry /\ IsFiniteSet(s) /\ \A e \in s : Tells(e.path, e.rev, e.text)
    BY <1>1, OneOperation DEF Good, Listing
<1>3. Grows
    BY <1>1 DEF Grows, dbVars
<1>4. Lists'
    <2> HIDE DEF s
    <2>1. IsFiniteSet(purges')
        BY <1>1, <1>2, FS_Subset
    <2> QED BY <1>1, <1>2, <2>1 DEF RestoreInv, Typed, Lists
<1>5. Entries'
    <2> HIDE DEF s
    <2>1. purges' \subseteq purges \cup s
        BY <1>1
    <2> QED BY <1>2, <1>3, <2>1, EntriesStay
<1>6. Files' /\ Documents' /\ History'
    BY <1>1, Same DEF dbVars
<1> QED BY <1>1, <1>3, <1>4, <1>5, <1>6, GoesOn, IdleIs, IdleGood

LEMMA QueueSavesInv ==
    ASSUME RestoreInv, NEW o \in Ops, QueueSaves(o)
    PROVE  RestoreInv'
<1>1. /\ op[o].kind \in {"delete", "keep-both", "keep-remote"} /\ op[o].pc = "save"
      /\ op' = [op EXCEPT ![o] = Idle] /\ queue' \subseteq op[o].list
      /\ UNCHANGED <<notes, filesVars, dbVars, purges, dropped, clock, swept>>
    BY DEF QueueSaves, End
<1>2. op[o].list \subseteq Paths
    BY <1>1, OneOperation DEF Good, Listing
<1>3. Files' /\ Documents' /\ History' /\ Entries' /\ Grows
    BY <1>1, Same DEF dbVars
<1>4. Lists'
    BY <1>1, <1>2 DEF RestoreInv, Typed, Lists
<1> QED BY <1>1, <1>3, <1>4, GoesOn, IdleIs, IdleGood

LEMMA AnswerDeletesInv ==
    ASSUME RestoreInv, NEW o \in Ops, AnswerDeletes(o)
    PROVE  RestoreInv'
<1> DEFINE p == op[o].path
           texts == {r.text : r \in Present(local[p])}
<1>1. /\ op[o].kind \in {"delete", "keep-both"} /\ op[o].pc = "delete" /\ Goto(o, "load")
      /\ WriteFile(p, NoText) /\ UNCHANGED <<notes, archive, remote, lists, swept>>
      /\ \/ /\ IsLive(local[p]) /\ KeepText(p, texts) /\ clock' = clock + 1
            /\ local' = [local EXCEPT ![p] = WithoutLeaves(Tombstoned(@, clock + 1, TRUE), Conflicts(@))]
         \/ UNCHANGED <<local, versions, clock>>
    BY DEF AnswerDeletes
<1>2. p \in Paths /\ Documents /\ Good(o) /\ NoText \in Text
    BY OneOperation DEF RestoreInv, Typed, Text
<1>3. texts \in SUBSET Text
    <2>1. Present(local[p]) \subseteq Rev(Texts)
        BY <1>2, Shows, OneDocument
    <2> QED BY <2>1 DEF Rev, Text
<1>4. /\ Documents' /\ History'
      /\ \A q \in Paths : local[q] \subseteq local'[q] /\ versions[q] \subseteq versions'[q]
    <2>1. CASE UNCHANGED <<local, versions, clock>>
        BY <1>1, <2>1, Same
    <2>2. CASE /\ IsLive(local[p]) /\ KeepText(p, texts) /\ clock' = clock + 1
               /\ local' = [local EXCEPT ![p] =
                               WithoutLeaves(Tombstoned(@, clock + 1, TRUE), Conflicts(@))]
        <3>1. Documents' /\ \A q \in Paths : local[q] \subseteq local'[q]
            BY <1>1, <1>2, <2>2, DeletedHere
        <3> HIDE DEF texts
        <3>2. History' /\ \A q \in Paths : versions[q] \subseteq versions'[q]
            BY <1>1, <1>2, <1>3, <2>2, KeepTextIs
        <3> QED BY <3>1, <3>2
    <2> QED BY <1>1, <2>1, <2>2
<1>5. Grows
    BY <1>1, <1>4 DEF Grows, lists
<1>6. Files' /\ Lists' /\ Entries'
    <2>1. {} \in SUBSET Entry /\ purges' \subseteq purges \cup {}
        BY <1>1 DEF lists
    <2> QED BY <1>1, <1>2, <1>5, <2>1, WriteFileIs, Same, EntriesStay
<1>7. PICK n \in Operation :
         op' = [op EXCEPT ![o] = n] /\ n.kind = op[o].kind /\ n.pc = "load" /\ n.conf = op[o].conf
    <2>1. "load" \in Pcs
        BY DEF Pcs
    <2> QED BY <1>1, <2>1, GotoIs
<1>8. op'[o] = n => Good(o)'
    BY <1>1, <1>2, <1>7 DEF Good, Reading, Listing, Keeping
<1> QED BY <1>4, <1>5, <1>6, <1>7, <1>8, GoesOn

\* Of what is shown, either everything has the text of the file or the text chosen to be
\* the other side, or two branches differ from the file.
LEMMA BothSides ==
    ASSUME RestoreInv, NEW p \in Paths, Conflicts(local[p]) # {}, NEW r \in RemoteSide(p)
    PROVE  /\ r \in Rev(Texts) /\ Doc(p) \in Present(local[p]) /\ Present(local[p]) \subseteq Rev(Texts)
           /\ Conflicts(local[p]) \cup {Doc(p)} = Present(local[p])
           /\ \A x \in Present(local[p]) : x.state # "removed"
           /\ \/ \A x \in Present(local[p]) : notes => x.text \in {vault[p], r.text}
              \/ \E x, y \in Present(local[p]) : x # y /\ vault[p] \notin {x.text, y.text}
<1>1. /\ Conflicts(local[p]) \subseteq Present(local[p]) /\ Present(local[p]) \subseteq Rev(Texts)
      /\ Present(local[p]) # {} => Doc(p) \in Present(local[p])
      /\ \A x \in Present(local[p]) : x.state # "removed"
    BY Shows, OneDocument DEF RestoreInv, Typed, Doc
<1>2. Doc(p) \in Present(local[p]) /\ Conflicts(local[p]) \cup {Doc(p)} = Present(local[p])
    BY <1>1 DEF Conflicts, Doc
<1>3. r \in Differing(p) \/ (r = NoRev /\ Differing(p) = {})
    BY DEF RemoteSide
<1>4. Differing(p) = {x \in Present(local[p]) : x.text # vault[p] /\ (notes \/ x.text # NoText)}
    BY DEF Differing
<1>5. r \in Rev(Texts)
    BY <1>1, <1>3, <1>4, NoRevFields
<1>6. ASSUME notes, NEW x \in Present(local[p]), x.text \notin {vault[p], r.text}
      PROVE  \E y \in Present(local[p]) : x # y /\ vault[p] \notin {x.text, y.text}
    <2>1. x \in Differing(p) /\ r \in Differing(p) /\ r # x
        BY <1>3, <1>4, <1>6
    <2>2. r \in Present(local[p]) /\ r.text # vault[p]
        BY <1>4, <2>1
    <2> QED BY <1>6, <2>1, <2>2
<1> QED BY <1>1, <1>2, <1>5, <1>6

LEMMA ResolveReadsInv ==
    ASSUME RestoreInv, NEW o \in Ops,
           NEW choice \in {"local", "remote", "both", "both-remote"}, ResolveReads(o, choice)
    PROVE  RestoreInv'
<1> DEFINE p == op[o].path
<1>1. /\ Runs(o, "resolve", "read") /\ UNCHANGED <<notes, archive, local, remote, lists, clock, swept>>
      /\ \/ op' = [op EXCEPT ![o] = Idle] /\ UNCHANGED <<vault, versions>>
         \/ ~NothingLeft(p) /\ Conflicts(local[p]) # {}
    <2>1. Runs(o, "resolve", "read") /\ UNCHANGED <<notes, archive, local, remote, lists, clock, swept>>
        BY DEF ResolveReads
    <2>2. \/ End(o) /\ UNCHANGED <<vault, versions>>
          \/ ~NothingLeft(p) /\ Conflicts(local[p]) # {}
        BY DEF ResolveReads, NothingLeft
    <2> QED BY <2>1, <2>2 DEF End
<1>2. p \in Paths /\ Documents /\ Good(o) /\ op[o] \in Operation /\ vault \in [Paths -> Text]
      /\ archive \in [Paths -> Text] /\ notes \in BOOLEAN
    BY OneOperation DEF RestoreInv, Typed, Files
<1>3. CASE op' = [op EXCEPT ![o] = Idle] /\ UNCHANGED <<vault, versions>>
    <2>1. UNCHANGED <<notes, filesVars, dbVars, lists, clock, swept>>
        BY <1>1, <1>3 DEF filesVars, dbVars
    <2> QED BY <1>3, <2>1, Ends
<1>4. CASE ~NothingLeft(p) /\ Conflicts(local[p]) # {}
    <2>1. PICK r \in RemoteSide(p) :
             /\ KeepText(p, {vault[p], r.text})
             /\ vault' = IF KeepsBoth(p, choice, r)
                         THEN [vault EXCEPT ![Copy] = IF choice = "both" THEN r.text ELSE LocalSide(p)]
                         ELSE vault
             /\ op' = [op EXCEPT ![o] =
                   [@ EXCEPT !.pc = "write", !.choice = choice, !.seen = Doc(p),
                             !.conf = Conflicts(local[p]), !.live = vault[p],
                             !.text = Chosen(choice, LocalSide(p), r.text)]]
        BY <1>4 DEF ResolveReads
    <2> DEFINE n == [op[o] EXCEPT !.pc = "write", !.choice = choice, !.seen = Doc(p),
                               !.conf = Conflicts(local[p]), !.live = vault[p],
                               !.text = Chosen(choice, LocalSide(p), r.text)]
    <2>13. op' = [op EXCEPT ![o] = n]
        BY <2>1
    <2>2. /\ r \in Rev(Texts) /\ Doc(p) \in Present(local[p]) /\ Present(local[p]) \subseteq Rev(Texts)
          /\ Conflicts(local[p]) \cup {Doc(p)} = Present(local[p])
          /\ \A x \in Present(local[p]) : x.state # "removed"
          /\ \/ \A x \in Present(local[p]) : notes => x.text \in {vault[p], r.text}
             \/ \E x, y \in Present(local[p]) : x # y /\ vault[p] \notin {x.text, y.text}
        BY <1>2, <1>4, BothSides
    <2>3. r.text \in Text /\ LocalSide(p) \in Text /\ vault[p] \in Text
        <3>1. Doc(p).text \in Text
            BY <1>2, DocTyped
        <3>2. r.text \in Text
            BY <2>2 DEF Rev, Text
        <3> QED BY <1>2, <3>1, <3>2 DEF LocalSide
    <2>4. Files'
        <3>1. Copy \in Paths
            BY DEF Copy, Paths
        <3>2. vault' \in [Paths -> Text]
            BY <1>2, <2>1, <2>3, <3>1
        <3> QED BY <1>1, <1>2, <3>2 DEF Files
    <2>5. /\ History' /\ \A q \in Paths : versions[q] \subseteq versions'[q]
          /\ notes => {vault[p], r.text} \subseteq versions'[p] \cup {NoText}
        <3>1. {vault[p], r.text} \in SUBSET Text
            BY <2>3
        <3> QED BY <1>1, <1>2, <2>1, <3>1, KeepTextIs
    <2>6. Documents' /\ Lists'
        BY <1>1, Same
    <2>7. Grows
        BY <1>1, <2>5 DEF Grows, lists
    <2>8. Entries'
        BY <1>1, Same DEF lists
    <2>9. Chosen(choice, LocalSide(p), r.text) \in Text
        BY <2>3 DEF Chosen
    <2>10. n \in Operation
        <3>1. Doc(p) \in Rev(Texts) /\ Conflicts(local[p]) \in SUBSET Rev(Texts)
            BY <2>2
        <3> QED BY <1>2, <2>3, <2>9, <3>1 DEF Operation, Pcs, Choices
    <2>11. /\ n.kind = "resolve" /\ n.pc = "write" /\ n.path = p /\ n.live = vault[p]
           /\ n.conf = Conflicts(local[p]) /\ n.seen = Doc(p)
        BY <1>1, <1>2 DEF Operation, Runs
    <2> HIDE DEF n
    <2>12. op'[o] = n => Good(o)'
        <3>1. op'[o] = n => Reading(o)' /\ Listing(o)'
            BY <2>2, <2>11 DEF Reading, Listing
        <3>2. notes' => vault[p] \in versions'[p] \cup swept' \cup {NoText}
                        /\ r.text \in versions'[p] \cup swept' \cup {NoText}
            BY <1>1, <2>5
        <3>3. \/ \A x \in Conflicts(local[p]) \cup {Doc(p)} :
                    notes' => x.text \in versions'[p] \cup swept' \cup {NoText}
              \/ \E x, y \in Conflicts(local[p]) \cup {Doc(p)} : x # y /\ vault[p] \notin {x.text, y.text}
            BY <1>1, <2>2, <3>2
        <3>4. op'[o] = n => Keeping(o)'
            BY <2>11, <3>2, <3>3 DEF Keeping, Recorded
        <3> QED BY <3>1, <3>4 DEF Good
    <2> QED BY <2>4, <2>5, <2>6, <2>7, <2>8, <2>10, <2>12, <2>13, GoesOn
<1> QED BY <1>1, <1>3, <1>4

LEMMA ResolveWritesInv ==
    ASSUME RestoreInv, NEW o \in Ops, ResolveWrites(o)
    PROVE  RestoreInv'
<1>1. /\ op[o].kind = "resolve" /\ op[o].pc = "write" /\ Goto(o, "put")
      /\ WriteFile(op[o].path, op[o].text)
      /\ UNCHANGED <<notes, archive, dbVars, lists, clock, swept>>
    BY DEF ResolveWrites, Runs
<1>2. Good(o) /\ op[o].text \in Text /\ op[o].path \in Paths
    BY OneOperation
<1>3. PICK n \in Operation :
         /\ op' = [op EXCEPT ![o] = n] /\ n.kind = op[o].kind /\ n.pc = "put" /\ n.path = op[o].path
         /\ n.live = op[o].live /\ n.seen = op[o].seen /\ n.conf = op[o].conf
    <2>1. "put" \in Pcs
        BY DEF Pcs
    <2> QED BY <1>1, <2>1, GotoIs
<1>4. Files' /\ Documents' /\ History' /\ Lists' /\ Entries' /\ Grows
    BY <1>1, <1>2, WriteFileIs, Same DEF dbVars, lists
<1>5. op'[o] = n => Good(o)'
    <2>1. UNCHANGED <<notes, versions, swept>>
        BY <1>1 DEF dbVars
    <2>2. op'[o] = n => Reading(o)' /\ Listing(o)'
        BY <1>1, <1>2, <1>3 DEF Good, Reading, Listing
    <2>3. op'[o] = n => Keeping(o)'
        BY <1>1, <1>2, <1>3, <2>1 DEF Good, Keeping, Recorded
    <2> QED BY <2>2, <2>3 DEF Good
<1> QED BY <1>3, <1>4, <1>5, GoesOn

\* The text chosen goes on the winner that was read; the other leaves go.
LEMMA ResolvePutsIs ==
    ASSUME RestoreInv, NEW o \in Ops, ResolvePuts(o)
    PROVE  LET p == op[o].path IN
           \E c \in Rev(Texts) : \E S \in SUBSET (op[o].conf \cap (local[p] \cup {c})) :
              /\ c.state # "removed" /\ c.id = 2 * (clock + 1)
              /\ local' = [local EXCEPT ![p] = WithoutLeaves(local[p] \cup {c}, S)]
              /\ \/ c.anc = {}
                 \/ op[o].seen \in local[p] /\ c.anc = Past(op[o].seen)
                 \/ Present(local[p]) = {} /\ \E b \in local[p] : c.anc = Past(b)
<1> DEFINE p == op[o].path
           seen == op[o].seen
           text == op[o].text
           gone(doc) == op[o].conf \cap Leaves(doc)
<1>1. p \in Paths /\ seen \in Rev(Texts) /\ text \in Text /\ Documents
    BY OneOperation DEF RestoreInv, Typed
<1>2. StillLeaf(p, seen)
      /\ local' = [PutOn(p, seen, text, "live") EXCEPT ![p] = WithoutLeaves(@, gone(@))]
    BY DEF ResolvePuts
<1>3. PICK c \in Rev(Texts) :
         /\ c.state # "removed" /\ c.id = 2 * (clock + 1)
         /\ PutOn(p, seen, text, "live") = [local EXCEPT ![p] = @ \cup {c}]
         /\ \/ c.anc = {}
            \/ seen \in local[p] /\ c.anc = Past(seen)
            \/ seen = NoRev /\ Present(local[p]) = {} /\ \E b \in local[p] : c.anc = Past(b)
    <2>1. "live" \in {"live", "deleted"}
        OBVIOUS
    <2> HIDE DEF p, seen, text
    <2> QED BY <1>1, <1>2, <2>1, PutOnIs
<1>4. local \in [Paths -> SUBSET Rev(Texts)]
    BY <1>1 DEF Documents
<1> DEFINE doc == local[p] \cup {c}
<1>5. local' = [local EXCEPT ![p] = WithoutLeaves(doc, gone(doc))]
    <2> HIDE DEF p, gone
    <2> QED BY <1>1, <1>2, <1>3, <1>4
<1>6. gone(doc) \in SUBSET (op[o].conf \cap doc)
    BY DEF Leaves
<1> HIDE DEF gone
<1> QED BY <1>3, <1>5, <1>6

LEMMA ResolvePutsInv ==
    ASSUME RestoreInv, NEW o \in Ops, ResolvePuts(o)
    PROVE  RestoreInv'
<1> DEFINE p == op[o].path
<1>1. /\ op' = [op EXCEPT ![o] = Idle] /\ clock' = clock + 1
      /\ UNCHANGED <<notes, filesVars, remote, versions, lists, swept>>
    BY DEF ResolvePuts, End
<1>2. p \in Paths /\ Documents /\ \A r \in op[o].conf : r.state # "removed"
    BY OneOperation DEF RestoreInv, Typed, Good, Reading
<1>3. Documents' /\ \A q \in Paths : local[q] \subseteq local'[q]
    <2>1. PICK c \in Rev(Texts) : \E S \in SUBSET (op[o].conf \cap (local[p] \cup {c})) :
             /\ c.state # "removed" /\ c.id = 2 * (clock + 1)
             /\ local' = [local EXCEPT ![p] = WithoutLeaves(local[p] \cup {c}, S)]
             /\ c.anc = {} \/ \E b \in local[p] : c.anc = Past(b)
        BY ResolvePutsIs
    <2>3. PICK S \in SUBSET (op[o].conf \cap (local[p] \cup {c})) :
             /\ c.state # "removed" /\ c.id = 2 * (clock + 1)
             /\ local' = [local EXCEPT ![p] = WithoutLeaves(local[p] \cup {c}, S)]
             /\ c.anc = {} \/ \E b \in local[p] : c.anc = Past(b)
        BY <2>1
    <2>2. S \in SUBSET (local[p] \cup {c}) /\ \A r \in S : r.state # "removed"
        BY <1>2, <2>3
    <2> QED BY <1>1, <1>2, <2>2, <2>3, PutHere
<1>4. Grows
    BY <1>1, <1>3 DEF Grows, lists
<1>5. Files' /\ History' /\ Lists' /\ Entries'
    <2>1. {} \in SUBSET Entry /\ purges' \subseteq purges \cup {}
        BY <1>1 DEF lists
    <2> QED BY <1>1, <1>4, <2>1, Same, EntriesStay
<1> QED BY <1>1, <1>3, <1>4, <1>5, GoesOn, IdleIs, IdleGood

LEMMA VersionReadsInv ==
    ASSUME RestoreInv, NEW o \in Ops, NEW text \in Texts, VersionReads(o, text)
    PROVE  RestoreInv'
<1> DEFINE p == op[o].path
           n == [op[o] EXCEPT !.pc = "get", !.text = text, !.live = vault[p]]
<1>1. /\ op[o].kind = "version" /\ notes /\ op' = [op EXCEPT ![o] = n] /\ KeepText(p, {vault[p]})
      /\ UNCHANGED <<notes, filesVars, local, remote, lists, clock, swept>>
    BY DEF VersionReads, Runs
<1>2. p \in Paths /\ Good(o) /\ op[o] \in Operation /\ vault[p] \in Text
    BY OneOperation DEF RestoreInv, Typed, Files
<1>3. /\ History' /\ \A q \in Paths : versions[q] \subseteq versions'[q]
      /\ {vault[p]} \subseteq versions'[p] \cup {NoText}
    <2>1. {vault[p]} \in SUBSET Text
        BY <1>2
    <2> QED BY <1>1, <1>2, <2>1, KeepTextIs
<1>4. n \in Operation
    BY <1>2 DEF Operation, Pcs, Text
<1>5. n.kind = "version" /\ n.pc = "get" /\ n.path = p /\ n.live = vault[p] /\ n.conf = op[o].conf
    BY <1>1, <1>2 DEF Operation
<1>6. Grows
    BY <1>1, <1>3 DEF Grows, lists
<1>7. Files' /\ Documents' /\ Lists' /\ Entries'
    BY <1>1, Same DEF lists
<1>8. op'[o] = n => Good(o)'
    <2>1. op'[o] = n => Reading(o)' /\ Listing(o)'
        BY <1>2, <1>5 DEF Good, Reading, Listing
    <2>2. notes' /\ vault[p] \in versions'[p] \cup swept' \cup {NoText}
        BY <1>1, <1>3
    <2>3. op'[o] = n => Keeping(o)'
        BY <1>5, <2>2 DEF Keeping, Recorded
    <2> QED BY <2>1, <2>3 DEF Good
<1> HIDE DEF n
<1> QED BY <1>1, <1>3, <1>4, <1>6, <1>7, <1>8, GoesOn

LEMMA VersionGoesOn ==
    ASSUME RestoreInv, Grows, NEW o \in Ops, op[o].kind = "version", op[o].pc = "put",
           NEW n \in Operation, n.kind = "version", n.path = op[o].path, n.live = op[o].live,
           n.conf = op[o].conf, op'[o] = n
    PROVE  Good(o)'
<1>1. op[o].path \in Paths /\ Good(o)
    BY OneOperation
<1>2. Reading(o)' /\ Listing(o)'
    BY <1>1 DEF Good, Reading, Listing
<1>3. notes /\ Recorded(op[o].path, op[o].live)
    BY <1>1 DEF Good, Keeping
<1>4. notes' /\ op[o].live \in versions'[op[o].path] \cup swept' \cup {NoText}
    BY <1>1, <1>3, GrowsTells DEF Grows
<1>5. Keeping(o)'
    BY <1>4 DEF Keeping, Recorded
<1> QED BY <1>2, <1>5 DEF Good

LEMMA VersionPutsInv ==
    ASSUME RestoreInv, NEW o \in Ops, VersionPuts(o)
    PROVE  RestoreInv'
<1> DEFINE p == op[o].path
           n == [op[o] EXCEPT !.pc = "get", !.tries = op[o].tries + 1]
<1>1. /\ op[o].kind = "version" /\ op[o].pc = "put"
      /\ UNCHANGED <<notes, filesVars, remote, versions, lists, swept>>
    BY DEF VersionPuts, Runs
<1>2. \/ /\ StillLeaf(p, op[o].seen) /\ Goto(o, "write")
         /\ local' = PutOn(p, op[o].seen, op[o].text, "live") /\ clock' = clock + 1
      \/ op[o].tries + 1 < Attempts /\ op' = [op EXCEPT ![o] = n] /\ UNCHANGED <<local, clock>>
      \/ Put(p, op[o].text) /\ Goto(o, "write")
    BY DEF VersionPuts
<1>3. /\ p \in Paths /\ Documents /\ op[o] \in Operation /\ op[o].seen \in Rev(Texts)
      /\ op[o].text \in Text /\ op[o].tries \in 0..(Attempts - 1)
    BY OneOperation DEF RestoreInv, Typed
<1>4. Documents' /\ \A q \in Paths : local[q] \subseteq local'[q]
    <2>1. CASE /\ StillLeaf(p, op[o].seen)
               /\ local' = PutOn(p, op[o].seen, op[o].text, "live") /\ clock' = clock + 1
        <3>1. "live" \in {"live", "deleted"}
            OBVIOUS
        <3>2. PICK c \in Rev(Texts) :
                /\ c.state # "removed" /\ c.id = 2 * (clock + 1)
                /\ PutOn(p, op[o].seen, op[o].text, "live") = [local EXCEPT ![p] = @ \cup {c}]
                /\ \/ c.anc = {}
                   \/ op[o].seen \in local[p] /\ c.anc = Past(op[o].seen)
                   \/ op[o].seen = NoRev /\ Present(local[p]) = {} /\ \E b \in local[p] : c.anc = Past(b)
            BY <1>3, <2>1, <3>1, PutOnIs
        <3>3. c.anc = {} \/ \E b \in local[p] : c.anc = Past(b)
            BY <3>2
        <3> QED BY <1>1, <1>3, <2>1, <3>2, <3>3, PutOnly
    <2>2. CASE UNCHANGED <<local, clock>>
        BY <1>1, <2>2, Same
    <2>3. CASE Put(p, op[o].text)
        BY <1>1, <1>3, <2>3, PutIs
    <2> QED BY <1>2, <2>1, <2>2, <2>3
<1>5. Grows
    BY <1>1, <1>4 DEF Grows, lists
<1>6. Files' /\ History' /\ Lists' /\ Entries'
    <2>1. {} \in SUBSET Entry /\ purges' \subseteq purges \cup {}
        BY <1>1 DEF lists
    <2> QED BY <1>1, <1>5, <2>1, Same, EntriesStay
<1>7. \E m \in Operation : /\ op' = [op EXCEPT ![o] = m] /\ m.kind = "version" /\ m.path = p
                           /\ m.live = op[o].live /\ m.conf = op[o].conf
    <2>1. CASE Goto(o, "write")
        <3>1. "write" \in Pcs
            BY DEF Pcs
        <3> QED BY <1>1, <2>1, <3>1, GotoIs
    <2>2. CASE op[o].tries + 1 < Attempts /\ op' = [op EXCEPT ![o] = n]
        <3>1. op[o].tries + 1 \in 0..(Attempts - 1)
            BY <1>3, <2>2, LinkRestoreAssumption
        <3>2. n \in Operation
            BY <1>3, <3>1 DEF Operation, Pcs
        <3>3. n.kind = "version" /\ n.path = p /\ n.live = op[o].live /\ n.conf = op[o].conf
            BY <1>1, <1>3 DEF Operation
        <3> HIDE DEF n
        <3> QED BY <2>2, <3>2, <3>3
    <2> QED BY <1>2, <2>1, <2>2
<1>8. PICK m \in Operation : /\ op' = [op EXCEPT ![o] = m] /\ m.kind = "version" /\ m.path = p
                             /\ m.live = op[o].live /\ m.conf = op[o].conf
    BY <1>7
<1>9. op'[o] = m => Good(o)'
    BY <1>1, <1>5, <1>8, VersionGoesOn
<1> QED BY <1>4, <1>5, <1>6, <1>8, <1>9, GoesOn

LEMMA VersionWritesInv ==
    ASSUME RestoreInv, NEW o \in Ops, VersionWrites(o)
    PROVE  RestoreInv'
<1>1. /\ WriteFile(op[o].path, op[o].text) /\ op' = [op EXCEPT ![o] = Idle]
      /\ UNCHANGED <<notes, archive, dbVars, lists, clock, swept>>
    BY DEF VersionWrites, End
<1>2. op[o].text \in Text /\ op[o].path \in Paths
    BY OneOperation
<1>3. Files' /\ Documents' /\ History' /\ Lists' /\ Entries' /\ Grows
    BY <1>1, <1>2, WriteFileIs, Same DEF dbVars, lists
<1> QED BY <1>1, <1>3, GoesOn, IdleIs, IdleGood

LEMMA SweepPutsInv ==
    ASSUME RestoreInv, NEW o \in Ops, SweepPuts(o)
    PROVE  RestoreInv'
<1> DEFINE p == op[o].path
           seen == op[o].seen
           c == Child(seen, clock + 1, NoText, "deleted", seen.mine, seen.at)
<1>1. /\ op' = [op EXCEPT ![o] = Idle] /\ UNCHANGED <<notes, filesVars, remote, lists>>
      /\ \/ /\ StillLeaf(p, seen) /\ local' = [local EXCEPT ![p] = @ \cup {c}] /\ clock' = clock + 1
            /\ \E kept \in {{}, versions[p]} :
                 versions' = [versions EXCEPT ![p] = kept] /\ swept' = swept \cup (versions[p] \ kept)
         \/ UNCHANGED <<local, clock, versions, swept>>
    BY DEF SweepPuts, End, Stripped
<1>2. p \in Paths /\ Documents /\ seen \in Rev(Texts)
    BY OneOperation DEF RestoreInv, Typed
<1>3. versions \in [Paths -> SUBSET Texts] /\ swept \subseteq Texts
    BY DEF RestoreInv, Typed, History
<1>4. Documents' /\ \A q \in Paths : local[q] \subseteq local'[q]
    <2>1. CASE StillLeaf(p, seen) /\ local' = [local EXCEPT ![p] = @ \cup {c}] /\ clock' = clock + 1
        <3>1. seen = NoRev \/ seen \in local[p]
            BY <2>1 DEF StillLeaf, Leaves
        <3>2. clock + 1 \in Nat /\ seen.id \in Int /\ seen.anc \subseteq Int /\ seen.at \in Nat
              /\ seen.mine \in BOOLEAN
            BY <1>2, OneDocument DEF Rev
        <3>3. c.state # "removed" /\ c.id = 2 * (clock + 1) /\ c.anc = IF seen = NoRev THEN {} ELSE Past(seen)
            BY DEF Child, Past
        <3>4. c \in Rev(Texts)
            <4> HIDE DEF seen
            <4> QED BY <3>2 DEF Child, Rev
        <3>5. c.anc = {} \/ \E b \in local[p] : c.anc = Past(b)
            BY <3>1, <3>3
        <3> HIDE DEF c
        <3> QED BY <1>1, <1>2, <2>1, <3>3, <3>4, <3>5, PutOnly
    <2>2. CASE UNCHANGED <<local, clock>>
        BY <1>1, <2>2, Same
    <2> QED BY <1>1, <2>1, <2>2
<1>5. History' /\ \A q \in Paths : versions[q] \cup swept \subseteq versions'[q] \cup swept'
    <2>1. CASE UNCHANGED <<versions, swept>>
        BY <2>1, Same
    <2>2. ASSUME NEW kept \in {{}, versions[p]}, versions' = [versions EXCEPT ![p] = kept],
                 swept' = swept \cup (versions[p] \ kept)
          PROVE  History' /\ \A q \in Paths : versions[q] \cup swept \subseteq versions'[q] \cup swept'
        <3>1. versions[p] \subseteq Texts /\ kept \subseteq Texts
            BY <1>2, <1>3
        <3>2. versions' \in [Paths -> SUBSET Texts] /\ swept' \subseteq Texts
            BY <1>3, <2>2, <3>1
        <3>3. versions'[p] = kept /\ \A q \in Paths \ {p} : versions'[q] = versions[q]
            BY <1>2, <1>3, <2>2
        <3> QED BY <2>2, <3>2, <3>3 DEF History
    <2> QED BY <1>1, <2>1, <2>2
<1>6. Grows
    BY <1>1, <1>4, <1>5 DEF Grows, lists
<1>7. Files' /\ Lists' /\ Entries'
    <2>1. {} \in SUBSET Entry /\ purges' \subseteq purges \cup {}
        BY <1>1 DEF lists
    <2> QED BY <1>1, <1>6, <2>1, Same, EntriesStay
<1> QED BY <1>1, <1>4, <1>5, <1>6, <1>7, GoesOn, IdleIs, IdleGood

\* The deletion or the text of a revision on the server: of another device or of a repair.
LEMMA ThereInv ==
    ASSUME RestoreInv, NEW p \in Paths, NEW b, b = NoRev \/ b \in remote[p], NEW text \in Text,
           NEW state \in {"live", "deleted"}, NEW mine, NEW at \in Nat,
           Child(b, clock + 1, text, state, mine, at) \in Rev(Texts),
           remote' = [remote EXCEPT ![p] = @ \cup {Child(b, clock + 1, text, state, mine, at)}],
           local' = local, clock' = clock + 1
    PROVE  Documents'
<1> DEFINE c == Child(b, clock + 1, text, state, mine, at)
<1>1. Documents /\ c \in Rev(Texts)
    BY DEF RestoreInv, Typed
<1>3. c.state # "removed" /\ c.id = 2 * (clock + 1) /\ c.anc = IF b = NoRev THEN {} ELSE Past(b)
    BY DEF Child, Past
<1>5. c.anc = {} \/ \E x \in remote[p] : c.anc = Past(x)
    BY <1>3
<1>6. remote' = [remote EXCEPT ![p] = @ \cup {c}]
    OBVIOUS
<1> HIDE DEF c
<1> QED BY <1>1, <1>3, <1>5, <1>6, PutThere

LEMMA RepairTombstonesInv ==
    ASSUME RestoreInv, NEW o \in Ops, RepairTombstones(o)
    PROVE  RestoreInv'
<1> DEFINE p == op[o].path
           w == Winner(remote[p])
<1>1. /\ op' = [op EXCEPT ![o] = Idle] /\ UNCHANGED <<notes, filesVars, local, versions, lists, swept>>
      /\ \/ /\ IsLive(remote[p]) /\ clock' = clock + 1
            /\ remote' = [remote EXCEPT ![p] = @ \cup {Child(w, clock + 1, Buried(w.text), "deleted", TRUE, clock + 1)}]
         \/ UNCHANGED <<remote, clock>>
    BY DEF RepairTombstones, End, Tombstoned
<1>2. p \in Paths /\ Documents /\ clock + 1 \in Nat
    BY OneOperation, OneDocument DEF RestoreInv, Typed
<1>3. Documents'
    <2>1. CASE /\ IsLive(remote[p]) /\ clock' = clock + 1
               /\ remote' = [remote EXCEPT ![p] =
                     @ \cup {Child(w, clock + 1, Buried(w.text), "deleted", TRUE, clock + 1)}]
        <3>1. w \in remote[p] /\ w \in Rev(Texts)
            BY <1>2, <2>1, Shows
        <3>2. Buried(w.text) \in Text /\ w.id \in Int /\ w.anc \subseteq Int
            BY <3>1 DEF Rev, Text, Buried
        <3> HIDE DEF w
        <3>3. Child(w, clock + 1, Buried(w.text), "deleted", TRUE, clock + 1) \in Rev(Texts)
            BY <1>2, <3>2 DEF Child, Rev, Text
        <3> QED BY <1>1, <1>2, <2>1, <3>1, <3>2, <3>3, ThereInv
    <2>2. CASE UNCHANGED <<remote, clock>>
        BY <1>1, <2>2, Same
    <2> QED BY <1>1, <2>1, <2>2
<1>4. Files' /\ History' /\ Lists' /\ Entries' /\ Grows
    BY <1>1, Same DEF lists
<1> QED BY <1>1, <1>3, <1>4, GoesOn, IdleIs, IdleGood

-----------------------------------------------------------------------------
(* The user, the other devices, replication and an ending.                  *)

LEMMA PutAndKeep ==
    ASSUME RestoreInv, NEW p \in Paths, NEW text \in Text, Put(p, text), KeepText(p, {text}),
           UNCHANGED <<notes, archive, remote, lists, op, swept>>, Files'
    PROVE  RestoreInv'
<1>1. Documents' /\ \A q \in Paths : local[q] \subseteq local'[q]
    BY PutIs
<1>2. History' /\ \A q \in Paths : versions[q] \subseteq versions'[q]
    <2>1. {text} \in SUBSET Text
        OBVIOUS
    <2> QED BY <2>1, KeepTextIs
<1>3. Grows
    BY <1>1, <1>2 DEF Grows, lists
<1>4. Lists' /\ Entries'
    <2>1. {} \in SUBSET Entry /\ purges' \subseteq purges \cup {}
        BY DEF lists
    <2> QED BY <1>3, <2>1, Same, EntriesStay
<1> QED BY <1>1, <1>2, <1>3, <1>4, NoneGoesOn

LEMMA UserEditsInv ==
    ASSUME RestoreInv, NEW text \in Texts, UserEdits(text)
    PROVE  RestoreInv'
<1>1. /\ WriteFile(1, text) /\ Put(1, text) /\ KeepText(1, {text})
      /\ UNCHANGED <<notes, archive, remote, lists, op, swept>>
    BY DEF UserEdits
<1>2. text \in Text /\ 1 \in Paths
    BY DEF Text, Paths
<1>3. Files'
    BY <1>1, <1>2, WriteFileIs
<1> QED BY <1>1, <1>2, <1>3, PutAndKeep

LEMMA CopyUploadedInv ==
    ASSUME RestoreInv, CopyUploaded
    PROVE  RestoreInv'
<1>1. /\ Put(Copy, vault[Copy]) /\ KeepText(Copy, {vault[Copy]})
      /\ UNCHANGED <<notes, filesVars, remote, lists, op, swept>>
    BY DEF CopyUploaded
<1>2. Copy \in Paths /\ vault[Copy] \in Text
    BY DEF Copy, Paths, RestoreInv, Typed, Files
<1>3. Files' /\ archive' = archive
    BY <1>1, Same DEF filesVars
<1> QED BY <1>1, <1>2, <1>3, PutAndKeep

LEMMA UserDeletesInv ==
    ASSUME RestoreInv, UserDeletes
    PROVE  RestoreInv'
<1> DEFINE texts == {r.text : r \in Present(local[1])}
<1>1. /\ IsLive(local[1]) /\ WriteFile(1, NoText) /\ KeepText(1, texts) /\ clock' = clock + 1
      /\ local' = [local EXCEPT ![1] = WithoutLeaves(Tombstoned(@, clock + 1, TRUE), Conflicts(@))]
      /\ UNCHANGED <<notes, archive, remote, lists, op, swept>>
    BY DEF UserDeletes
<1>2. 1 \in Paths /\ NoText \in Text /\ Documents
    BY DEF Paths, Text, RestoreInv, Typed
<1>3. texts \in SUBSET Text
    <2>1. Present(local[1]) \subseteq Rev(Texts)
        BY <1>2, Shows, OneDocument
    <2> QED BY <2>1 DEF Rev, Text
<1>4. Documents' /\ \A q \in Paths : local[q] \subseteq local'[q]
    BY <1>1, <1>2, DeletedHere
<1>5. History' /\ \A q \in Paths : versions[q] \subseteq versions'[q]
    <2> HIDE DEF texts
    <2> QED BY <1>1, <1>2, <1>3, KeepTextIs
<1>6. Grows
    BY <1>1, <1>4, <1>5 DEF Grows, lists
<1>7. Files' /\ Lists' /\ Entries'
    <2>1. {} \in SUBSET Entry /\ purges' \subseteq purges \cup {}
        BY <1>1 DEF lists
    <2> QED BY <1>1, <1>2, <1>6, <2>1, WriteFileIs, Same, EntriesStay
<1> QED BY <1>1, <1>4, <1>5, <1>6, <1>7, NoneGoesOn

LEMMA PurgeBeginsInv ==
    ASSUME RestoreInv, NEW o \in Ops, PurgeBegins(o)
    PROVE  RestoreInv'
<1> DEFINE n == [Idle EXCEPT !.kind = "purge", !.pc = "read"]
<1>1. /\ archive' = [archive EXCEPT ![1] = NoText] /\ op' = [op EXCEPT ![o] = n]
      /\ UNCHANGED <<notes, vault, dbVars, lists, clock, swept>>
    BY DEF PurgeBegins
<1>2. n \in Operation /\ n.kind = "purge" /\ n.pc = "read" /\ n.conf = {}
    BY IdleIs DEF Operation, Kinds, Pcs
<1>3. Files'
    BY <1>1 DEF RestoreInv, Typed, Files, Text, Paths
<1>4. Documents' /\ History' /\ Lists' /\ Entries' /\ Grows
    BY <1>1, Same DEF dbVars, lists
<1>5. op'[o] = n => Good(o)'
    BY <1>2 DEF Good, Reading, Listing, Keeping
<1> HIDE DEF n
<1> QED BY <1>1, <1>2, <1>3, <1>4, <1>5, GoesOn

LEMMA OthersInv ==
    ASSUME RestoreInv, (\E text \in Texts : OtherEdits(text)) \/ OtherDeletes
    PROVE  RestoreInv'
<1> DEFINE b == Base(remote[1])
           w == Winner(remote[1])
<1>1. 1 \in Paths /\ Documents /\ clock + 1 \in Nat
    BY OneDocument DEF Paths, RestoreInv, Typed
<1>2. UNCHANGED <<notes, filesVars, local, versions, lists, op, swept>> /\ clock' = clock + 1
    BY DEF OtherEdits, OtherDeletes
<1>3. Documents'
    <2>1. ASSUME NEW text \in Texts, OtherEdits(text) PROVE Documents'
        <3>1. remote' = [remote EXCEPT ![1] = @ \cup {Child(b, clock + 1, text, "live", FALSE, 0)}]
            BY <2>1 DEF OtherEdits, WithText
        <3>2. (b = NoRev \/ b \in remote[1]) /\ b \in Rev(Texts)
            BY <1>1, Shows, NoRevFields, OneDocument
        <3>3. text \in Text /\ b.id \in Int /\ b.anc \subseteq Int
            BY <3>2 DEF Rev, Text
        <3> HIDE DEF b
        <3>4. Child(b, clock + 1, text, "live", FALSE, 0) \in Rev(Texts)
            BY <1>1, <3>3 DEF Child, Rev, Text
        <3>5. 0 \in Nat /\ "live" \in {"live", "deleted"}
            OBVIOUS
        <3> QED BY <1>1, <1>2, <3>1, <3>2, <3>3, <3>4, <3>5, ThereInv
    <2>2. CASE OtherDeletes
        <3>1. /\ IsLive(remote[1])
              /\ remote' = [remote EXCEPT ![1] =
                    @ \cup {Child(w, clock + 1, Buried(w.text), "deleted", FALSE, clock + 1)}]
            BY <2>2 DEF OtherDeletes, Tombstoned
        <3>2. w \in remote[1] /\ w \in Rev(Texts)
            BY <1>1, <3>1, Shows
        <3>3. Buried(w.text) \in Text /\ w.id \in Int /\ w.anc \subseteq Int
            BY <3>2 DEF Rev, Text, Buried
        <3> HIDE DEF w
        <3>4. Child(w, clock + 1, Buried(w.text), "deleted", FALSE, clock + 1) \in Rev(Texts)
            BY <1>1, <3>3 DEF Child, Rev, Text
        <3>5. "deleted" \in {"live", "deleted"}
            OBVIOUS
        <3> QED BY <1>1, <1>2, <3>1, <3>2, <3>3, <3>4, <3>5, ThereInv
    <2> QED BY <2>1, <2>2
<1>4. Files' /\ History' /\ Lists' /\ Entries' /\ Grows
    BY <1>2, Same DEF lists
<1> QED BY <1>2, <1>3, <1>4, NoneGoesOn

LEMMA ExchangeInv ==
    ASSUME RestoreInv, Exchange
    PROVE  RestoreInv'
<1> DEFINE docs == [p \in Paths |-> local[p] \cup remote[p]]
<1>1. /\ local' = docs /\ remote' = docs
      /\ vault' = [p \in Paths |-> Applied(p, docs[p]).file]
      /\ archive' = [p \in Paths |-> Applied(p, docs[p]).arch]
      /\ UNCHANGED <<notes, versions, lists, op, clock, swept>>
    BY DEF Exchange
<1>2. Files /\ Documents
    BY DEF RestoreInv, Typed
<1>3. Documents'
    <2>1. docs \in [Paths -> SUBSET Rev(Texts)]
        BY <1>2, OneDocument
    <2>2. \A p \in Paths : docs[p] \cup docs[p] = local[p] \cup remote[p]
        OBVIOUS
    <2> HIDE DEF docs
    <2>3. \A p \in Paths : Tree(docs[p] \cup docs[p]) /\ Dated(docs[p] \cup docs[p], clock')
        BY <1>1, <1>2, <2>2 DEF Documents
    <2> QED BY <1>1, <1>2, <2>1, <2>3 DEF Documents
<1>4. Files'
    <2>1. ASSUME NEW p \in Paths, NEW doc \in SUBSET (local[p] \cup remote[p])
          PROVE  Applied(p, doc).file \in Text /\ Applied(p, doc).arch \in Text
        <3>1. Winner(doc) \in Rev(Texts)
            BY <1>2, <2>1, Shows
        <3>2. Winner(doc).text \in Text
            BY <3>1 DEF Rev, Text
        <3>3. vault[p] \in Text /\ archive[p] \in Text /\ NoText \in Text
            BY <1>2 DEF Files, Text
        <3> QED BY <3>2, <3>3 DEF Applied
    <2>2. \A p \in Paths : Applied(p, docs[p]).file \in Text /\ Applied(p, docs[p]).arch \in Text
        BY <2>1
    <2> HIDE DEF docs
    <2> QED BY <1>1, <1>2, <2>2 DEF Files
<1>5. Grows
    BY <1>1 DEF Grows, lists
<1>6. History' /\ Lists' /\ Entries'
    <2>1. {} \in SUBSET Entry /\ purges' \subseteq purges \cup {}
        BY <1>1 DEF lists
    <2> QED BY <1>1, <1>5, <2>1, Same, EntriesStay
<1> QED BY <1>1, <1>3, <1>4, <1>5, <1>6, NoneGoesOn

\* What the next start puts is numbered after the path.
LEMMA KilledIs ==
    ASSUME RestoreInv, Killed, NEW p \in Paths
    PROVE  /\ local'[p] \in SUBSET Rev(Texts) /\ local[p] \subseteq local'[p]
           /\ Tree(local'[p] \cup remote[p]) /\ Dated(local'[p] \cup remote[p], clock')
           /\ clock' \in Nat
<1> DEFINE left == {q \in Paths : vault[q] \notin {NoText, Doc(q).text} /\ Conflicts(local[q]) = {}}
           U == local[p] \cup remote[p]
<1>1. local'[p] = IF p \in left THEN WithText(local[p], clock + p, vault[p], TRUE) ELSE local[p]
    BY DEF Killed
<1>2. /\ clock \in Nat /\ local[p] \in SUBSET Rev(Texts) /\ U \in SUBSET Rev(Texts)
      /\ Tree(U) /\ Dated(U, clock) /\ Documents
    BY OneDocument DEF RestoreInv, Typed
<1>3. clock' = IF left = {} THEN clock ELSE clock + 2
    <2>1. Cardinality(1..2) = 2
        <3>1. 1..2 = {1, 2} /\ 1 # 2
            OBVIOUS
        <3>2. Cardinality({1, 2}) = 2
            <4>1. IsFiniteSet({1}) /\ Cardinality({1}) = 1
                BY FS_Singleton
            <4>2. Cardinality({1} \cup {2}) = 1 + 1
                BY <3>1, <4>1, FS_AddElement
            <4>3. {1} \cup {2} = {1, 2}
                OBVIOUS
            <4> QED BY <4>2, <4>3
        <3> QED BY <3>1, <3>2
    <2> QED BY <2>1 DEF Killed, Paths
<1>4. CASE p \notin left
    <2>1. local'[p] = local[p]
        BY <1>1, <1>4
    <2>2. clock' \in Nat /\ clock <= clock'
        BY <1>2, <1>3
    <2>3. Dated(U, clock')
        <3> HIDE DEF U
        <3> QED BY <1>2, <2>2, DatedLater
    <2> QED BY <1>2, <2>1, <2>2, <2>3
<1>5. CASE p \in left
    <2> DEFINE b == Base(local[p])
               c == Child(b, clock + p, vault[p], "live", TRUE, 0)
    <2>1. local'[p] = local[p] \cup {c}
        BY <1>1, <1>5 DEF WithText
    <2>2. (b = NoRev \/ b \in local[p]) /\ b \in Rev(Texts)
        BY <1>2, Shows, NoRevFields
    <2>3. vault[p] \in Text /\ clock + p \in Nat /\ clock < clock + p /\ clock + p <= clock + 2
        BY <1>2 DEF RestoreInv, Typed, Files, Paths
    <2>4. c.state # "removed" /\ c.id = 2 * (clock + p) /\ c.anc = IF b = NoRev THEN {} ELSE Past(b)
        BY DEF Child, Past
    <2>5. c \in Rev(Texts)
        <3>1. b.id \in Int /\ b.anc \subseteq Int
            BY <2>2 DEF Rev
        <3> HIDE DEF b
        <3> QED BY <2>3, <3>1 DEF Child, Rev, Text
    <2>6. c.anc = {} \/ \E x \in U : c.anc = Past(x)
        BY <2>2, <2>4
    <2> HIDE DEF c
    <2>7. Tree(U \cup {c}) /\ Dated(U \cup {c}, clock + p)
        <3> HIDE DEF U
        <3>1. c.id \in {2 * (clock + p), -2 * (clock + p)}
            BY <2>4
        <3> QED BY <1>2, <2>3, <2>4, <2>6, <3>1, LaterPut
    <2>8. clock' = clock + 2 /\ clock' \in Nat
        BY <1>2, <1>3, <1>5
    <2>9. Dated(U \cup {c}, clock')
        <3> HIDE DEF U
        <3> QED BY <2>3, <2>7, <2>8, DatedLater
    <2>10. local'[p] \cup remote[p] = U \cup {c}
        BY <2>1
    <2> QED BY <1>2, <2>1, <2>5, <2>7, <2>8, <2>9, <2>10
<1> QED BY <1>4, <1>5

LEMMA KilledInv ==
    ASSUME RestoreInv, Killed
    PROVE  RestoreInv'
<1>1. UNCHANGED <<notes, filesVars, remote, lists, swept>> /\ op' = [o \in Ops |-> Idle]
    BY DEF Killed
<1>2. Documents'
    <2>1. clock' \in Nat
        <3>1. 1 \in Paths
            BY DEF Paths
        <3> QED BY <3>1, KilledIs
    <2>2. local' \in [Paths -> SUBSET Rev(Texts)]
        <3>1. local' = [p \in Paths |-> local'[p]]
            BY DEF Killed
        <3> QED BY <3>1, KilledIs
    <2>3. remote' \in [Paths -> SUBSET Rev(Texts)]
        BY <1>1 DEF RestoreInv, Typed, Documents
    <2>4. \A p \in Paths : Tree(local'[p] \cup remote'[p]) /\ Dated(local'[p] \cup remote'[p], clock')
        BY <1>1, KilledIs
    <2> QED BY <2>1, <2>2, <2>3, <2>4 DEF Documents
<1>3. History' /\ \A p \in Paths : versions[p] \subseteq versions'[p]
    <2>1. /\ versions \in [Paths -> SUBSET Texts] /\ swept \subseteq Texts
          /\ \A p \in Paths : vault[p] # NoText => vault[p] \in Texts
        BY DEF RestoreInv, Typed, History, Files, Text
    <2> DEFINE left == {p \in Paths : vault[p] \notin {NoText, Doc(p).text} /\ Conflicts(local[p]) = {}}
    <2>4. versions' = [p \in Paths |-> IF p \in left /\ notes THEN versions[p] \cup {vault[p]} ELSE versions[p]]
        BY DEF Killed
    <2>5. \A p \in left : vault[p] # NoText
        OBVIOUS
    <2> HIDE DEF left
    <2>2. \A p \in Paths :
             \/ versions'[p] = versions[p]
             \/ vault[p] # NoText /\ versions'[p] = versions[p] \cup {vault[p]}
        <3> SUFFICES ASSUME NEW p \in Paths
                     PROVE  \/ versions'[p] = versions[p]
                            \/ vault[p] # NoText /\ versions'[p] = versions[p] \cup {vault[p]}
            OBVIOUS
        <3>1. versions'[p] = IF p \in left /\ notes THEN versions[p] \cup {vault[p]} ELSE versions[p]
            BY <2>4
        <3>2. p \in left => vault[p] # NoText
            BY <2>5
        <3> QED BY <3>1, <3>2
    <2>6. versions' = [p \in Paths |-> versions'[p]]
        BY <2>4
    <2>3. \A p \in Paths : versions'[p] \in SUBSET Texts /\ versions[p] \subseteq versions'[p]
        BY <2>1, <2>2
    <2> QED BY <1>1, <2>1, <2>3, <2>6 DEF History
<1>4. Grows
    BY <1>1, <1>3, KilledIs DEF Grows, lists
<1>5. Files' /\ Lists' /\ Entries'
    <2>1. {} \in SUBSET Entry /\ purges' \subseteq purges \cup {}
        BY <1>1 DEF lists
    <2> QED BY <1>1, <1>4, <2>1, Same, EntriesStay
<1>6. Operations' /\ \A o \in Ops : op'[o] = Idle
    BY <1>1, IdleIs DEF Operations
<1>7. \A o \in Ops : Reading(o)' /\ Listing(o)' /\ Keeping(o)'
    BY <1>6, IdleGood DEF Good
<1> QED BY <1>2, <1>3, <1>5, <1>6, <1>7 DEF RestoreInv, Typed

-----------------------------------------------------------------------------
(* The first state.                                                         *)

LEMMA FirstDocuments ==
    ASSUME NEW s \in Text, NEW mine \in BOOLEAN
    PROVE  /\ Tree({Old(1, s, "live", mine)}) /\ Dated({Old(1, s, "live", mine)}, 1)
           /\ Old(1, s, "live", mine) \in Rev(Texts)
           /\ Old(1, s, "live", mine).id = 2 /\ Old(1, s, "live", mine).text = s
           /\ Old(1, s, "live", mine).state = "live" /\ Old(1, s, "live", mine) # NoRev
<1> DEFINE c == Old(1, s, "live", mine)
<1>1. c = [id |-> 2, anc |-> {}, text |-> s, state |-> "live", mine |-> mine, at |-> 0]
    BY DEF Old, Child
<1>2. c.id = 2 /\ c.anc = {} /\ c.text = s /\ c.state = "live"
    BY <1>1
<1>3. c \in Rev(Texts)
    BY <1>1 DEF Rev, Text
<1>4. Tree({}) /\ Dated({}, 0)
    BY DEF Tree, Identified, Descending, Acyclic, Rooted, Numbered, Removing, Dated
<1>5. Tree({} \cup {c}) /\ Dated({} \cup {c}, 1)
    <2>1. 0 \in Nat /\ 1 \in Nat /\ 0 < 1 /\ c.state # "removed" /\ c.id \in {2 * 1, -2 * 1}
        BY <1>2
    <2>2. c.anc = {} \/ \E b \in {} : c.anc = Past(b)
        BY <1>2
    <2> HIDE DEF c
    <2> QED BY <1>4, <2>1, <2>2, LaterPut
<1>6. c # NoRev
    BY <1>2, NoRevFields
<1> HIDE DEF c
<1> QED BY <1>2, <1>3, <1>5, <1>6 DEF c

Fit(doc, n) == doc \in SUBSET Rev(Texts) /\ Tree(doc) /\ Dated(doc, n)

LEMMA Branch ==
    ASSUME NEW doc, NEW n \in Nat, Fit(doc, n), NEW m \in Nat, n < m, NEW r \in doc, r # NoRev,
           NEW text \in Text, NEW state \in {"live", "deleted"}, NEW mine \in BOOLEAN, NEW at \in Nat,
           NEW new, new = doc \cup {Child(r, m, text, state, mine, at)}
    PROVE  Fit(new, m)
<1> DEFINE c == Child(r, m, text, state, mine, at)
<1>1. r.anc \subseteq Int /\ r.id \in Int /\ Tree(doc) /\ Dated(doc, n)
    BY DEF Fit, Rev
<1>2. c.state # "removed" /\ c.id = 2 * m /\ c.anc = Past(r)
    BY DEF Child, Past
<1>3. c \in Rev(Texts)
    BY <1>1 DEF Child, Rev, Text
<1>4. c.id \in {2 * m, -2 * m} /\ (c.anc = {} \/ \E b \in doc : c.anc = Past(b))
    BY <1>2
<1>5. Tree(doc \cup {c}) /\ Dated(doc \cup {c}, m)
    <2> HIDE DEF c
    <2> QED BY <1>1, <1>2, <1>4, LaterPut
<1> QED BY <1>3, <1>5 DEF Fit

LEMMA FitLater ==
    ASSUME NEW doc, NEW n \in Nat, Fit(doc, n), NEW m \in Nat, n <= m
    PROVE  Fit(doc, m)
BY DatedLater DEF Fit

LEMMA FirstFits ==
    ASSUME NEW s \in Text, NEW mine \in BOOLEAN
    PROVE  Fit({Old(1, s, "live", mine)}, 1)
BY FirstDocuments DEF Fit

LEMMA BranchesFit ==
    ASSUME NEW texts \in [1..2 -> Texts] \cup [1..3 -> Texts]
    PROVE  Fit(Branches(texts, FALSE), 10)
<1> DEFINE r == Old(1, NoText, "live", FALSE)
           c(i) == Child(r, i + 1, texts[i], "live", FALSE, 0)
<1>1. NoText \in Text /\ FALSE \in BOOLEAN /\ "live" \in {"live", "deleted"} /\ 0 \in Nat
      /\ 1 \in Nat /\ 2 \in Nat /\ 3 \in Nat /\ 4 \in Nat /\ 10 \in Nat
      /\ 1 < 2 /\ 2 < 3 /\ 3 < 4 /\ 3 <= 10 /\ 4 <= 10
    BY DEF Text
<1>2. Fit({r}, 1) /\ r # NoRev
    BY <1>1, FirstFits, FirstDocuments
<1>3. Branches(texts, FALSE) = {r} \cup {c(i) : i \in DOMAIN texts}
    BY DEF Branches
<1>4. texts[1] \in Text /\ texts[2] \in Text
    BY DEF Text
<1>5. Fit({r} \cup {c(1)}, 2)
    <2>1. c(1) = Child(r, 2, texts[1], "live", FALSE, 0) /\ r \in {r}
        OBVIOUS
    <2> HIDE DEF r, c
    <2> QED BY <1>1, <1>2, <1>4, <2>1, Branch, ZenonT(20)
<1>6. Fit(({r} \cup {c(1)}) \cup {c(2)}, 3)
    <2>1. r \in {r} \cup {c(1)}
        OBVIOUS
    <2>2. Fit(({r} \cup {c(1)}) \cup {Child(r, 3, texts[2], "live", FALSE, 0)}, 3)
        <3> HIDE DEF r, c
        <3> QED BY <1>1, <1>2, <1>4, <1>5, <2>1, Branch, ZenonT(20)
    <2> QED BY <2>2
<1>7. CASE texts \in [1..2 -> Texts]
    <2>1. DOMAIN texts = {1, 2}
        BY <1>7
    <2>2. Branches(texts, FALSE) = ({r} \cup {c(1)}) \cup {c(2)}
        <3> HIDE DEF r, c
        <3> QED BY <1>3, <2>1
    <2> HIDE DEF r, c
    <2> QED BY <1>1, <1>6, <2>2, FitLater
<1>8. CASE texts \in [1..3 -> Texts]
    <2>1. DOMAIN texts = {1, 2, 3} /\ texts[3] \in Text
        BY <1>8 DEF Text
    <2>2. Branches(texts, FALSE) = (({r} \cup {c(1)}) \cup {c(2)}) \cup {c(3)}
        <3> HIDE DEF r, c
        <3> QED BY <1>3, <2>1
    <2>3. Fit((({r} \cup {c(1)}) \cup {c(2)}) \cup {Child(r, 4, texts[3], "live", FALSE, 0)}, 4)
        <3> DEFINE doc == ({r} \cup {c(1)}) \cup {c(2)}
        <3>1. r \in doc /\ Fit(doc, 3) /\ texts[3] \in Text
            BY <1>6, <2>1
        <3> DEFINE new == doc \cup {Child(r, 4, texts[3], "live", FALSE, 0)}
        <3>2. r # NoRev /\ 3 \in Nat /\ 4 \in Nat /\ 3 < 4 /\ 0 \in Nat /\ FALSE \in BOOLEAN
              /\ "live" \in {"live", "deleted"}
            <4> HIDE DEF r, c, doc
            <4> QED BY <1>2
        <3>3. new = doc \cup {Child(r, 4, texts[3], "live", FALSE, 0)}
            OBVIOUS
        <3>4. Fit(new, 4)
            <4> HIDE DEF r, doc, new
            <4> QED BY <3>1, <3>2, <3>3, Branch, ZenonT(30)
        <3> QED BY <3>4
    <2>4. c(3) = Child(r, 4, texts[3], "live", FALSE, 0)
        OBVIOUS
    <2> HIDE DEF r, c
    <2> QED BY <1>1, <2>2, <2>3, <2>4, FitLater
<1> QED BY <1>7, <1>8

\* The documents that Init may start with.
LEMMA FirstDocumentFits ==
    ASSUME Init
    PROVE  /\ Fit(local[1], 10) /\ local = [p \in Paths |-> IF p = 1 THEN local[1] ELSE {}]
           /\ vault \in [Paths -> Text] /\ archive \in [Paths -> Text]
           /\ versions \in [Paths -> SUBSET Texts]
           /\ queue \subseteq Paths /\ purges \subseteq Entry /\ Entries /\ IsFiniteSet(purges)
<1> DEFINE Good1(doc) ==
              /\ Fit(doc, 10) /\ local = [p \in Paths |-> IF p = 1 THEN doc ELSE {}]
              /\ vault \in [Paths -> Text] /\ archive \in [Paths -> Text]
              /\ versions \in [Paths -> SUBSET Texts] /\ queue \subseteq Paths
<1>0. /\ NoText \in Text /\ FALSE \in BOOLEAN /\ TRUE \in BOOLEAN
      /\ "live" \in {"live", "deleted"} /\ "deleted" \in {"live", "deleted"}
      /\ 0 \in Nat /\ 1 \in Nat /\ 2 \in Nat /\ 10 \in Nat /\ 1 < 2 /\ 1 <= 10 /\ 2 <= 10
      /\ \A t \in Texts : t \in Text
    BY DEF Text
<1>1. ASSUME NEW file \in Text, NEW arch \in Text, NEW doc, NEW kept \in SUBSET Texts,
             NEW queued \in SUBSET Paths, NEW purged,
             Start(file, arch, doc, kept, queued, purged), Fit(doc, 10)
      PROVE  Good1(doc) /\ purges = purged /\ local[1] = doc
    <2>1. /\ vault = [p \in Paths |-> IF p = 1 THEN file ELSE NoText]
          /\ archive = [p \in Paths |-> IF p = 1 THEN arch ELSE NoText]
          /\ local = [p \in Paths |-> IF p = 1 THEN doc ELSE {}]
          /\ versions = [p \in Paths |-> IF p = 1 /\ notes THEN kept ELSE {}]
          /\ queue = queued /\ purges = purged
        BY <1>1 DEF Start
    <2>2. vault \in [Paths -> Text] /\ archive \in [Paths -> Text]
        BY <1>0, <2>1
    <2>3. versions \in [Paths -> SUBSET Texts]
        BY <2>1
    <2>4. local[1] = doc
        BY <2>1 DEF Paths
    <2> QED BY <1>1, <2>1, <2>2, <2>3, <2>4
<1>2. \E doc : Good1(doc) /\ local[1] = doc /\ purges \subseteq Entry /\ Entries /\ IsFiniteSet(purges)
    <2>1. ASSUME NEW s \in Texts, NEW mine \in BOOLEAN, NEW kept \in SUBSET Texts,
                 Start(NoText, IF mine THEN NoText ELSE s, Deleted(s, mine), kept, {}, {})
          PROVE  \E doc : Good1(doc) /\ local[1] = doc /\ purges \subseteq Entry /\ Entries /\ IsFiniteSet(purges)
        <3> DEFINE r == Old(1, s, "live", mine)
        <3>1. Fit({r}, 1) /\ r # NoRev /\ r \in {r}
            BY <1>0, FirstFits, FirstDocuments
        <3>2. /\ Deleted(s, mine) = {r} \cup {Child(r, 2, Buried(s), "deleted", mine, 2)}
              /\ Buried(s) \in Text
            BY <1>0 DEF Deleted, Buried
        <3>3. Fit(Deleted(s, mine), 2)
            <4> HIDE DEF r
            <4> QED BY <1>0, <3>1, <3>2, Branch, ZenonT(30)
        <3>4. Fit(Deleted(s, mine), 10)
            BY <1>0, <3>3, FitLater
        <3>5. (IF mine THEN NoText ELSE s) \in Text
            BY <1>0
        <3>6. Good1(Deleted(s, mine)) /\ purges = {} /\ local[1] = Deleted(s, mine)
            BY <1>0, <1>1, <2>1, <3>4, <3>5
        <3> HIDE DEF Good1
        <3> QED BY <3>6, FS_EmptySet DEF Entries
    <2>2. ASSUME NEW s \in Texts, NEW file \in Text, NEW kept \in SUBSET Texts, NEW queued \in SUBSET Paths,
                 Start(file, NoText, {Old(1, s, "live", FALSE)}, kept, queued, {})
          PROVE  \E doc : Good1(doc) /\ local[1] = doc /\ purges \subseteq Entry /\ Entries /\ IsFiniteSet(purges)
        <3> DEFINE d == {Old(1, s, "live", FALSE)}
        <3>1. Fit(d, 10)
            BY <1>0, FirstFits, FitLater
        <3>2. Good1(d) /\ purges = {} /\ local[1] = d
            BY <1>0, <1>1, <2>2, <3>1
        <3> HIDE DEF Good1, d
        <3> QED BY <3>2, FS_EmptySet DEF Entries
    <2>3. ASSUME NEW texts \in [1..2 -> Texts] \cup [1..3 -> Texts],
                 Start(texts[1], NoText, Branches(texts, FALSE), {}, {}, {})
          PROVE  \E doc : Good1(doc) /\ local[1] = doc /\ purges \subseteq Entry /\ Entries /\ IsFiniteSet(purges)
        <3>1. Fit(Branches(texts, FALSE), 10)
            BY BranchesFit
        <3>2. texts[1] \in Text
            BY <1>0
        <3>3. Good1(Branches(texts, FALSE)) /\ purges = {} /\ local[1] = Branches(texts, FALSE)
            BY <1>0, <1>1, <2>3, <3>1, <3>2
        <3> HIDE DEF Good1
        <3> QED BY <3>3, FS_EmptySet DEF Entries
    <2>4. ASSUME NEW t \in Texts
          PROVE  /\ Fit(Purged(t), 1) /\ FirstEntry(t) \in Entry /\ FirstEntry(t).path = 1
                 /\ Old(1, t, "live", FALSE) \in Purged(t)
                 /\ Old(1, t, "live", FALSE).id = FirstEntry(t).rev
                 /\ Old(1, t, "live", FALSE).text = FirstEntry(t).text
                 /\ Removal(Old(1, t, "live", FALSE)) \in Purged(t)
                 /\ Removal(Old(1, t, "live", FALSE)) # NoRev
        <3> DEFINE r == Old(1, t, "live", FALSE)
                   d == WithoutLeaves({r}, {r})
        <3>1. /\ Tree({r}) /\ Dated({r}, 1) /\ r \in Rev(Texts) /\ r.id = 2 /\ r.text = t
              /\ r.state # "removed"
            BY <1>0, FirstDocuments
        <3>2. /\ FirstEntry(t) \in Entry /\ FirstEntry(t).path = 1 /\ FirstEntry(t).rev = r.id
              /\ FirstEntry(t).text = t
            <4>1. FirstEntry(t) = [path |-> 1, rev |-> r.id, text |-> t, at |-> 0]
                BY DEF FirstEntry
            <4> HIDE DEF r
            <4>2. t \in Text /\ 1 \in Paths /\ r.id \in Int /\ 0 \in Nat
                BY <3>1 DEF Paths, Text
            <4> QED BY <4>1, <4>2 DEF Entry
        <3>3. Purged(t) = d
            BY DEF Purged
        <3> HIDE DEF r
        <3>4. Tree(d) /\ Dated(d, 1)
            BY <1>0, <3>1, LaterRemovals DEF WithoutLeaves
        <3>5. d \in SUBSET Rev(Texts) /\ r \in d /\ Removal(r) \in d
            BY <3>1, RemovalTyped DEF WithoutLeaves
        <3>6. Removal(r) # NoRev
            BY <3>1, NoRevFields DEF Removal
        <3> HIDE DEF d
        <3>7. Fit(Purged(t), 1)
            BY <3>3, <3>4, <3>5 DEF Fit
        <3> QED BY <3>1, <3>2, <3>3, <3>5, <3>6, <3>7 DEF r
    <2>9. ASSUME NEW t \in Texts, NEW arch \in Text, NEW doc, Purged(t) \subseteq doc, Fit(doc, 10),
                 Start(NoText, arch, doc, {}, {}, {FirstEntry(t)})
          PROVE  \E d : Good1(d) /\ local[1] = d /\ purges \subseteq Entry /\ Entries /\ IsFiniteSet(purges)
        <3>1. Good1(doc) /\ purges = {FirstEntry(t)} /\ local[1] = doc
            BY <1>0, <1>1, <2>9
        <3>2. Old(1, t, "live", FALSE) \in local[1] /\ FirstEntry(t) \in Entry
            BY <2>4, <2>9, <3>1
        <3> HIDE DEF Good1
        <3>3. Entries
            BY <2>4, <3>1, <3>2 DEF Entries, Tells
        <3> QED BY <3>1, <3>2, <3>3, FS_Singleton
    <2>10. ASSUME NEW t \in Texts, Start(NoText, NoText, Purged(t), {}, {}, {FirstEntry(t)})
           PROVE  \E doc : Good1(doc) /\ local[1] = doc /\ purges \subseteq Entry /\ Entries /\ IsFiniteSet(purges)
        <3>1. Fit(Purged(t), 10)
            BY <1>0, <2>4, FitLater
        <3> HIDE DEF Good1
        <3> QED BY <1>0, <2>9, <2>10, <3>1
    <2>11. ASSUME NEW s \in Texts, NEW t \in Texts,
                  Start(NoText, s, PurgedBefore(t, s), {}, {}, {FirstEntry(t)})
           PROVE  \E doc : Good1(doc) /\ local[1] = doc /\ purges \subseteq Entry /\ Entries /\ IsFiniteSet(purges)
        <3> DEFINE b == Removal(Old(1, t, "live", FALSE))
                   r == Child(b, 2, s, "live", FALSE, 0)
                   once == Purged(t) \cup {r}
                   again == once \cup {Child(r, 3, Buried(s), "deleted", FALSE, 3)}
        <3>1. PurgedBefore(t, s) = again
            BY DEF PurgedBefore
        <3>2. Fit(Purged(t), 1) /\ b \in Purged(t) /\ b # NoRev
            BY <2>4
        <3>3. s \in Text /\ Buried(s) \in Text /\ 3 \in Nat /\ 2 < 3 /\ 3 <= 10
            BY <1>0 DEF Buried
        <3>4. r.id = 4
            BY DEF Child
        <3>5. r # NoRev
            <4>1. NoRev.id = 0
                BY NoRevFields
            <4> HIDE DEF r
            <4> QED BY <3>4, <4>1
        <3> HIDE DEF b
        <3>6. Fit(once, 2)
            BY <1>0, <3>2, <3>3, Branch, ZenonT(30)
        <3>7. r \in once
            OBVIOUS
        <3> HIDE DEF r, once
        <3>8. Fit(again, 3)
            BY <1>0, <3>3, <3>5, <3>6, <3>7, Branch, ZenonT(30)
        <3>9. Purged(t) \subseteq again
            BY DEF once
        <3> HIDE DEF again
        <3>10. Fit(again, 10)
            BY <1>0, <3>3, <3>8, FitLater
        <3> HIDE DEF Good1
        <3> QED BY <2>9, <2>11, <3>1, <3>3, <3>9, <3>10
    <2> DEFINE Claim == \E doc : Good1(doc) /\ local[1] = doc /\ purges \subseteq Entry /\ Entries /\ IsFiniteSet(purges)
    <2>5. \/ \E s \in Texts, mine \in BOOLEAN, kept \in SUBSET Texts :
               Start(NoText, IF mine THEN NoText ELSE s, Deleted(s, mine), kept, {}, {})
          \/ \E s, t \in Texts : Start(s, NoText, {Old(1, s, "live", FALSE)}, {t}, {}, {})
          \/ \E s \in Texts : Start(NoText, NoText, {Old(1, s, "live", FALSE)}, {}, {1}, {})
          \/ \E texts \in [1..2 -> Texts] \cup [1..3 -> Texts] :
               Start(texts[1], NoText, Branches(texts, FALSE), {}, {}, {})
          \/ \E t \in Texts : Start(NoText, NoText, Purged(t), {}, {}, {FirstEntry(t)})
          \/ \E s, t \in Texts : Start(NoText, s, PurgedBefore(t, s), {}, {}, {FirstEntry(t)})
        BY DEF Init
    <2>6. \A s, t \in Texts : Start(s, NoText, {Old(1, s, "live", FALSE)}, {t}, {}, {}) => Claim
        <3> SUFFICES ASSUME NEW s \in Texts, NEW t \in Texts,
                            Start(s, NoText, {Old(1, s, "live", FALSE)}, {t}, {}, {})
                     PROVE  Claim
            OBVIOUS
        <3>1. {t} \in SUBSET Texts /\ {} \in SUBSET Paths /\ s \in Text
            BY <1>0
        <3> HIDE DEF Good1
        <3> QED BY <2>2, <3>1
    <2>7. \A s \in Texts : Start(NoText, NoText, {Old(1, s, "live", FALSE)}, {}, {1}, {}) => Claim
        <3> SUFFICES ASSUME NEW s \in Texts,
                            Start(NoText, NoText, {Old(1, s, "live", FALSE)}, {}, {1}, {})
                     PROVE  Claim
            OBVIOUS
        <3>1. {} \in SUBSET Texts /\ {1} \in SUBSET Paths
            BY DEF Paths
        <3> HIDE DEF Good1
        <3> QED BY <1>0, <2>2, <3>1
    <2>8. Claim
        <3> HIDE DEF Good1
        <3> QED BY <2>1, <2>3, <2>5, <2>6, <2>7, <2>10, <2>11
    <2> QED BY <2>8
<1> QED BY <1>2

-----------------------------------------------------------------------------
(* The invariant.                                                           *)

\* Every situation the model starts from satisfies the invariant.
LEMMA InitInv == Init => RestoreInv
<1> SUFFICES ASSUME Init PROVE RestoreInv
    OBVIOUS
<1>1. /\ Fit(local[1], 10) /\ local = [p \in Paths |-> IF p = 1 THEN local[1] ELSE {}]
      /\ vault \in [Paths -> Text] /\ archive \in [Paths -> Text]
      /\ versions \in [Paths -> SUBSET Texts]
      /\ queue \subseteq Paths /\ purges \subseteq Entry /\ Entries /\ IsFiniteSet(purges)
    BY FirstDocumentFits
<1>2. notes \in BOOLEAN /\ remote = local /\ op = [o \in Ops |-> Idle] /\ clock = 10
      /\ dropped = {} /\ swept = {}
    BY DEF Init, FirstStep
<1>3. Documents
    <2>1. Tree({}) /\ Dated({}, 10) /\ {} \in SUBSET Rev(Texts)
        BY DEF Tree, Identified, Descending, Acyclic, Rooted, Numbered, Removing, Dated
    <2>2. \A p \in Paths : local[p] \in SUBSET Rev(Texts) /\ Tree(local[p]) /\ Dated(local[p], 10)
        BY <1>1, <2>1 DEF Fit
    <2>3. local \in [Paths -> SUBSET Rev(Texts)]
        BY <1>1, <2>2
    <2>4. \A p \in Paths : local[p] \cup remote[p] = local[p]
        BY <1>2
    <2> QED BY <1>2, <2>2, <2>3, <2>4 DEF Documents
<1>4. Files /\ History /\ Lists
    BY <1>1, <1>2 DEF Files, History, Lists
<1>5. Operations
    BY <1>2, IdleIs DEF Operations
<1>6. ASSUME NEW o \in Ops PROVE Reading(o) /\ Listing(o) /\ Keeping(o)
    BY <1>2, IdleIs DEF Reading, Listing, Keeping
<1> QED BY <1>1, <1>3, <1>4, <1>5, <1>6 DEF RestoreInv, Typed

LEMMA BeginsInv ==
    ASSUME RestoreInv, NEW o \in Ops, Begins(o)
    PROVE  RestoreInv'
BY BeginInv, PurgeBeginsInv DEF Begins

LEMMA StepsInv ==
    ASSUME RestoreInv, NEW o \in Ops, Steps(o)
    PROVE  RestoreInv'
<1>1. CASE \/ \E choice \in {"keep-both", "overwrite", "skip", "other-name"} : RestoreReads(o, choice)
           \/ FileWritten(o) \/ DocumentPut(o) \/ RestoreTidies(o)
    BY <1>1, RestoreReadsInv, FileWrittenInv, DocumentPutInv, RestoreTidiesInv
<1>2. CASE \/ PurgeReads(o) \/ PurgeLoads(o) \/ PurgeSaves(o) \/ PurgeRemoves(o)
           \/ EntryLoads(o) \/ EntrySaves(o)
           \/ \E e \in purges : UndoReads(o, e) \/ ClearReads(o, e)
    BY <1>2, PurgeReadsInv, PurgeLoadsInv, PurgeSavesInv, PurgeRemovesInv, EntryLoadsInv, EntrySavesInv,
       EntryReadsInv
<1>3. CASE \/ \E choice \in {"keep-remote", "keep-both", "delete"} : AnswerReads(o, choice)
           \/ AnswerDeletes(o) \/ QueueLoads(o) \/ QueueSaves(o)
    BY <1>3, AnswerReadsInv, AnswerDeletesInv, QueueLoadsInv, QueueSavesInv
<1>4. CASE \/ \E choice \in {"local", "remote", "both", "both-remote"} : ResolveReads(o, choice)
           \/ ResolveWrites(o) \/ ResolvePuts(o) \/ ResolveRetries(o)
    BY <1>4, ResolveReadsInv, ResolveWritesInv, ResolvePutsInv, ResolveRetriesInv
<1>5. CASE \/ \E text \in Texts : VersionReads(o, text)
           \/ VersionGets(o) \/ VersionPuts(o) \/ VersionWrites(o)
    BY <1>5, VersionReadsInv, VersionGetsInv, VersionPutsInv, VersionWritesInv
<1>6. CASE SweepReads(o) \/ SweepPuts(o) \/ RepairScans(o) \/ RepairTombstones(o)
    BY <1>6, SweepReadsInv, SweepPutsInv, RepairScansInv, RepairTombstonesInv
<1> QED BY <1>1, <1>2, <1>3, <1>4, <1>5, <1>6 DEF Steps

\* Every step, of an operation, of a person, of another device or of an ending, keeps it.
LEMMA NextInv == RestoreInv /\ [Next]_vars => RestoreInv'
<1> SUFFICES ASSUME RestoreInv, [Next]_vars PROVE RestoreInv'
    OBVIOUS
<1>1. CASE \E o \in Ops : Begins(o) \/ Steps(o)
    BY <1>1, BeginsInv, StepsInv
<1>2. CASE (\E text \in Texts : UserEdits(text) \/ OtherEdits(text)) \/ UserDeletes \/ OtherDeletes
           \/ Exchange \/ CopyUploaded \/ Killed
    BY <1>2, UserEditsInv, OthersInv, UserDeletesInv, ExchangeInv, CopyUploadedInv, KilledInv
<1>3. CASE UNCHANGED vars
    <2>1. Files' /\ Documents' /\ History' /\ Lists' /\ Entries' /\ Grows /\ op' = op
        BY <1>3, Same DEF vars, dbVars, lists
    <2> QED BY <2>1, NoneGoesOn
<1> QED BY <1>1, <1>2, <1>3 DEF Next

\* The invariant holds throughout: what is read of the documents and of the list of purges
\* stays true of them, whatever comes between, and what an operation is about to take
\* away is in the history, on the list or given up (RestoreManager, ConflictManager,
\* Uploader.purgePath, VersionStore, sweepTombstones).
THEOREM RestoreInvariant == Spec => []RestoreInv
<1> QED BY InitInv, NextInv, PTL DEF Spec

\* It contains the type invariant of the runs.
LEMMA InvTyped == RestoreInv => TypeOK
<1> SUFFICES ASSUME RestoreInv PROVE TypeOK
    OBVIOUS
<1>1. Files /\ Documents /\ History /\ Lists
    BY DEF RestoreInv, Typed
<1>2. {vault, archive} \subseteq [Paths -> Texts \cup {NoText}] /\ notes \in BOOLEAN
    BY <1>1 DEF Files, Text
<1>3. \A p \in Paths : local[p] \subseteq Rev(Texts) /\ remote[p] \subseteq Rev(Texts)
    BY <1>1, OneDocument
<1>4. /\ purges \cup dropped \subseteq [path : Paths, rev : Int, text : Texts \cup {NoText}, at : Nat]
      /\ queue \subseteq Paths
    BY <1>1 DEF Lists, Entry, Text
<1>5. \A o \in Ops : op[o].path \in Paths /\ op[o].target \in Paths /\ op[o].tries \in 0..Attempts
    <2> SUFFICES ASSUME NEW o \in Ops
                 PROVE  op[o].path \in Paths /\ op[o].target \in Paths /\ op[o].tries \in 0..Attempts
        OBVIOUS
    <2>1. op[o].path \in Paths /\ op[o].target \in Paths /\ op[o].tries \in 0..(Attempts - 1)
        BY OneOperation
    <2> QED BY <2>1, LinkRestoreAssumption
<1> QED BY <1>1, <1>2, <1>3, <1>4, <1>5 DEF TypeOK, History

-----------------------------------------------------------------------------
(* The sweep.                                                               *)

\* A step that does not end the sweep of o leaves it where it is.
LEMMA SweepGoesOn ==
    ASSUME RestoreInv, [Next]_vars, NEW o \in Ops, Runs(o, "sweep", "put"), op'[o] = Idle
    PROVE  SweepPuts(o) \/ Killed
<1>1. op \in [Ops -> Operation] /\ op[o].kind = "sweep" /\ op[o].pc = "put" /\ op[o] # Idle
    BY IdleIs DEF RestoreInv, Typed, Operations, Runs
<1>2. op' # op
    BY <1>1
<1>3. ASSUME NEW q \in Ops, NEW n, op' = [op EXCEPT ![q] = n], q # o PROVE FALSE
    BY <1>1, <1>3
<1>4. ASSUME NEW q \in Ops, Begins(q) PROVE FALSE
    <2>1. op[q] = Idle /\ \E n : op' = [op EXCEPT ![q] = n]
        BY <1>4 DEF Begins, Begin, PurgeBegins
    <2> QED BY <1>1, <1>3, <2>1
<1>5. ASSUME NEW q \in Ops, Steps(q), q # o PROVE FALSE
    <2>1. op'[o] = op[o]
        <3>1. CASE \/ \E choice \in {"keep-both", "overwrite", "skip", "other-name"} : RestoreReads(q, choice)
                   \/ FileWritten(q) \/ DocumentPut(q) \/ RestoreTidies(q) \/ PurgeReads(q) \/ PurgeLoads(q) \/ EntryLoads(q)
            BY <1>1, <1>5, <3>1 DEF RestoreReads, FileWritten, DocumentPut, RestoreTidies, PurgeReads, PurgeLoads, EntryLoads, Goto, End
        <3>2. CASE \/ PurgeSaves(q) \/ PurgeRemoves(q) \/ EntrySaves(q)
                   \/ \E e \in purges : UndoReads(q, e) \/ ClearReads(q, e)
            BY <1>1, <1>5, <3>2 DEF PurgeSaves, PurgeRemoves, EntrySaves, UndoReads, ClearReads, Goto, End
        <3>3. CASE \/ \E choice \in {"keep-remote", "keep-both", "delete"} : AnswerReads(q, choice)
                   \/ AnswerDeletes(q) \/ QueueLoads(q) \/ QueueSaves(q)
            BY <1>1, <1>5, <3>3 DEF AnswerReads, AnswerDeletes, QueueLoads, QueueSaves, Goto, End
        <3>4. CASE \/ \E choice \in {"local", "remote", "both", "both-remote"} : ResolveReads(q, choice)
                   \/ ResolveWrites(q) \/ ResolvePuts(q) \/ ResolveRetries(q)
            BY <1>1, <1>5, <3>4 DEF ResolveReads, ResolveWrites, ResolvePuts, ResolveRetries, Goto, End
        <3>5. CASE \/ \E text \in Texts : VersionReads(q, text)
                   \/ VersionGets(q) \/ VersionPuts(q) \/ VersionWrites(q)
            BY <1>1, <1>5, <3>5 DEF VersionReads, VersionGets, VersionPuts, VersionWrites, Goto, End
        <3>6. CASE SweepReads(q) \/ SweepPuts(q) \/ RepairScans(q) \/ RepairTombstones(q)
            BY <1>1, <1>5, <3>6 DEF SweepReads, SweepPuts, RepairScans, RepairTombstones, End
        <3> QED BY <1>5, <3>1, <3>2, <3>3, <3>4, <3>5, <3>6 DEF Steps
    <2> QED BY <1>1, <2>1
<1>6. ASSUME Steps(o) PROVE SweepPuts(o)
    BY <1>1, <1>6 DEF Steps, RestoreReads, FileWritten, DocumentPut, RestoreTidies, PurgeReads, PurgeLoads, EntryLoads,
       PurgeSaves, PurgeRemoves, UndoReads, ClearReads, EntrySaves, AnswerReads, AnswerDeletes, QueueLoads,
       QueueSaves, ResolveReads, ResolveWrites, ResolvePuts, ResolveRetries, VersionReads, VersionGets,
       VersionPuts, VersionWrites, SweepReads, RepairScans, RepairTombstones, Runs, BringsBack
<1>7. CASE \E text \in Texts : UserEdits(text) \/ OtherEdits(text)
    BY <1>2, <1>7 DEF UserEdits, OtherEdits
<1>8. CASE UserDeletes \/ OtherDeletes \/ Exchange \/ CopyUploaded
    BY <1>2, <1>8 DEF UserDeletes, OtherDeletes, Exchange, CopyUploaded
<1>9. CASE UNCHANGED vars
    BY <1>2, <1>9 DEF vars
<1> QED BY <1>4, <1>5, <1>6, <1>7, <1>8, <1>9 DEF Next

\* A step that ends a sweep leaves alive what was revived on the tombstone it had read.
LEMMA SweepStep ==
    ASSUME RestoreInv, [Next]_vars, NEW o \in Ops, Runs(o, "sweep", "put"), op'[o] = Idle,
           IsLive(local[1]), op[o].seen.id \in Doc(1).anc
    PROVE  IsLive(local'[1])
<1>1. 1 \in Paths /\ Documents /\ op[o].path = 1
    BY OneOperation DEF Paths, RestoreInv, Typed, Good, Reading, Runs
<1>2. /\ Winner(local[1]) \in Present(local[1]) /\ Base(local[1]) = Winner(local[1])
      /\ Present(local[1]) \subseteq local[1] /\ Present(local[1]) # {}
      /\ Winner(local[1]) # NoRev
    BY <1>1, Shows, NoRevFields DEF IsLive
<1>3. CASE SweepPuts(o)
    <2>1. ASSUME StillLeaf(1, op[o].seen) PROVE FALSE
        <3>1. op[o].seen \in Leaves(local[1])
            BY <1>2, <2>1 DEF StillLeaf
        <3>2. Doc(1) \in local[1]
            BY <1>2 DEF Doc
        <3> QED BY <3>1, <3>2 DEF Leaves
    <2>2. UNCHANGED local
        BY <1>1, <1>3, <2>1 DEF SweepPuts
    <2> QED BY <2>2
<1>4. CASE Killed
    <2> DEFINE w == Winner(local[1])
               c == Child(w, clock + 1, vault[1], "live", TRUE, 0)
    <2>1. local'[1] = local[1] \/ local'[1] = local[1] \cup {c}
        BY <1>1, <1>2, <1>4 DEF Killed, WithText
    <2>2. CASE local'[1] = local[1]
        BY <2>2
    <2>3. CASE local'[1] = local[1] \cup {c}
        <3>1. c.anc = Past(w) /\ c.state = "live" /\ c.id = 2 * (clock + 1)
            BY <1>2 DEF Child, Past
        <3>2. /\ Tree(local[1] \cup remote[1]) /\ Dated(local[1] \cup remote[1], clock) /\ clock \in Nat
              /\ w \in local[1]
            BY <1>1, <1>2, OneDocument
        <3>3. \A r \in local[1] \cup {c} : c.id \notin r.anc
            <4>1. clock + 1 \in Nat /\ clock < clock + 1 /\ c.id \in {2 * (clock + 1), -2 * (clock + 1)}
                <5> HIDE DEF c, w
                <5> QED BY <3>1, <3>2
            <4>2. c.state # "removed" /\ \E b \in local[1] \cup remote[1] : c.anc = Past(b)
                <5>1. c.state # "removed"
                    BY <3>1
                <5> HIDE DEF c, w
                <5> QED BY <3>1, <3>2, <5>1
            <4> HIDE DEF c, w
            <4> QED BY <3>2, <4>1, <4>2, LaterPut
        <3>4. Winner(local[1] \cup {c}) = c
            <4>1. c.state # "removed" /\ local[1] \in SUBSET (local[1] \cup remote[1])
                BY <3>1
            <4> HIDE DEF c
            <4> QED BY <1>2, <3>1, <3>2, <3>3, <4>1, PutWins
        <3> HIDE DEF c, w
        <3> QED BY <2>3, <3>1, <3>4 DEF IsLive
    <2> QED BY <2>1, <2>2, <2>3
<1> QED BY <1>3, <1>4, SweepGoesOn

\* The sweep of old tombstones never deletes again a note that was revived on top of the
\* tombstone it read (putWithRev in sweepTombstones), whatever comes between the two.
THEOREM SweepSparesRevived == Spec => SweepBuriesNothing
<1>1. RestoreInv /\ [Next]_vars =>
        [\A o \in Ops : Runs(o, "sweep", "put") /\ op'[o] = Idle /\ IsLive(local[1])
                        /\ op[o].seen.id \in Doc(1).anc => IsLive(local'[1])]_vars
    BY SweepStep
<1> QED BY <1>1, RestoreInvariant, PTL DEF Spec, SweepBuriesNothing

-----------------------------------------------------------------------------
(* What is kept.                                                            *)

\* The places where a text is kept.
LEMMA KeptNext ==
    \A p \in Paths :
       /\ vault'[p] \in Kept' /\ archive'[p] \in Kept' /\ versions'[p] \subseteq Kept'
       /\ \A r \in Present(local'[p]) : r.text \in Kept'
       /\ \A e \in purges' : e.text \in Kept'
<1> DEFINE S(p) == {r.text : r \in Present(local'[p])} \cup versions'[p]
<1>1. Kept' = {vault'[p] : p \in Paths} \cup {archive'[p] : p \in Paths}
              \cup {e.text : e \in purges'} \cup UNION {S(p) : p \in Paths}
    BY DEF Kept
<1>2. \A p \in Paths : S(p) \subseteq UNION {S(q) : q \in Paths}
    <2> HIDE DEF S
    <2> QED OBVIOUS
<1>3. \A p \in Paths : versions'[p] \subseteq S(p) /\ \A r \in Present(local'[p]) : r.text \in S(p)
    OBVIOUS
<1>4. ASSUME NEW p \in Paths
      PROVE  /\ vault'[p] \in Kept' /\ archive'[p] \in Kept' /\ versions'[p] \subseteq Kept'
             /\ \A r \in Present(local'[p]) : r.text \in Kept'
    <2>1. vault'[p] \in Kept'
        BY <1>1
    <2>2. archive'[p] \in Kept'
        BY <1>1
    <2>3. S(p) \subseteq Kept'
        <3> HIDE DEF S
        <3> QED BY <1>1, <1>2
    <2> HIDE DEF S
    <2> QED BY <1>3, <2>1, <2>2, <2>3
<1>5. \A e \in purges' : e.text \in Kept'
    <2>1. \A e \in purges' : e.text \in {d.text : d \in purges'}
        OBVIOUS
    <2> HIDE DEF S
    <2> QED BY <1>1, <2>1
<1> QED BY <1>4, <1>5

\* The text t is kept on, or surrendered by o.
Stays(o, t) == t \in Kept' \/ t \in Surrendered(o) \/ t = NoText
Keeps(o) == Kept \ (Surrendered(o) \cup {NoText}) \subseteq Kept'

\* A step keeps everything if it keeps the texts of each place.
LEMMA KeepsAll ==
    ASSUME NEW o,
           \A p \in Paths : /\ Stays(o, vault[p]) /\ Stays(o, archive[p])
                            /\ \A t \in versions[p] : Stays(o, t)
                            /\ \A r \in Present(local[p]) : Stays(o, r.text),
           \A e \in purges : Stays(o, e.text)
    PROVE  Keeps(o)
<1> SUFFICES ASSUME NEW t \in Kept PROVE Stays(o, t)
    BY DEF Keeps, Stays
<1> DEFINE S(p) == {r.text : r \in Present(local[p])} \cup versions[p]
<1>1. \/ \E p \in Paths : t = vault[p] \/ t = archive[p]
      \/ t \in UNION {S(p) : p \in Paths}
      \/ \E e \in purges : t = e.text
    <2>1. Kept = {vault[p] : p \in Paths} \cup {archive[p] : p \in Paths}
                 \cup {e.text : e \in purges} \cup UNION {S(p) : p \in Paths}
        BY DEF Kept
    <2>2. /\ t \in {vault[p] : p \in Paths} => \E p \in Paths : t = vault[p]
          /\ t \in {archive[p] : p \in Paths} => \E p \in Paths : t = archive[p]
          /\ t \in {e.text : e \in purges} => \E e \in purges : t = e.text
        OBVIOUS
    <2> HIDE DEF S
    <2> QED BY <2>1, <2>2
<1>2. CASE t \in UNION {S(p) : p \in Paths}
    <2>1. \E p \in Paths : t \in S(p)
        <3> HIDE DEF S
        <3> QED BY <1>2
    <2> QED BY <2>1
<1> QED BY <1>1, <1>2

LEMMA Unchanged ==
    ASSUME NEW o
    PROVE  /\ vault' = vault => \A p \in Paths : Stays(o, vault[p])
           /\ archive' = archive => \A p \in Paths : Stays(o, archive[p])
           /\ local' = local => \A p \in Paths : \A r \in Present(local[p]) : Stays(o, r.text)
           /\ (\A p \in Paths : versions[p] \subseteq versions'[p])
                 => \A p \in Paths : \A t \in versions[p] : Stays(o, t)
           /\ versions' = versions => \A p \in Paths : \A t \in versions[p] : Stays(o, t)
           /\ purges' = purges => \A e \in purges : Stays(o, e.text)
<1>1. vault' = vault => \A p \in Paths : Stays(o, vault[p])
    BY KeptNext DEF Stays
<1>2. archive' = archive => \A p \in Paths : Stays(o, archive[p])
    BY KeptNext DEF Stays
<1>3. local' = local => \A p \in Paths : \A r \in Present(local[p]) : Stays(o, r.text)
    BY KeptNext DEF Stays
<1>4. (\A p \in Paths : versions[p] \subseteq versions'[p])
         => \A p \in Paths : \A t \in versions[p] : Stays(o, t)
    BY KeptNext DEF Stays
<1>5. purges' = purges => \A e \in purges : Stays(o, e.text)
    <2>1. 1 \in Paths
        BY DEF Paths
    <2> QED BY <2>1, KeptNext DEF Stays
<1> QED BY <1>1, <1>2, <1>3, <1>4, <1>5

LEMMA ReadsKeep ==
    ASSUME NEW o, UNCHANGED <<filesVars, dbVars, purges>>
    PROVE  Keeps(o)
BY KeepsAll, Unchanged DEF filesVars, dbVars

\* A file that is written over goes, in its place alone.
LEMMA WriteFileKeeps ==
    ASSUME RestoreInv, NEW o, NEW p \in Paths, NEW text, WriteFile(p, text), Stays(o, vault[p])
    PROVE  \A q \in Paths : Stays(o, vault[q])
<1>1. \A q \in Paths \ {p} : vault'[q] = vault[q]
    BY DEF WriteFile, RestoreInv, Typed, Files
<1>2. \A q \in Paths \ {p} : Stays(o, vault[q])
    BY <1>1, KeptNext DEF Stays
<1> QED BY <1>2

\* A revision and removals hide what it is put on and what is removed.
LEMMA PutKeeps ==
    ASSUME RestoreInv, NEW o, NEW p \in Paths, NEW c, NEW b,
           c.anc = {} \/ (b \in local[p] /\ c.anc = Past(b)),
           NEW S \in SUBSET (local[p] \cup {c}), S \subseteq local[p] \/ c.id = 2 * (clock + 1),
           local'[p] = WithoutLeaves(local[p] \cup {c}, S),
           \A q \in Paths \ {p} : local'[q] = local[q],
           \A r \in Present(local[p]) : r \in S \/ r = b => Stays(o, r.text)
    PROVE  \A q \in Paths : \A r \in Present(local[q]) : Stays(o, r.text)
<1>1. Identified(local[p])
    BY OneDocument DEF RestoreInv, Typed, Tree, Identified
<1>2. Present(local[p]) \ (S \cup {b}) \subseteq Present(local'[p])
    <2>1. CASE c \in local[p]
        <3>1. S \in SUBSET local[p] /\ local[p] \cup {c} = local[p]
            BY <2>1
        <3> QED BY <1>1, <3>1, RemovalsHide
    <2>2. CASE c \notin local[p]
        <3>1. c \in S => \A r \in local[p] : r.id # c.id
            <4>1. SUFFICES ASSUME c.id = 2 * (clock + 1), NEW r \in local[p] PROVE r.id # c.id
                BY <2>2
            <4>2. clock \in Nat /\ Dated(local[p] \cup remote[p], clock)
                BY OneDocument DEF RestoreInv, Typed
            <4>3. r.id \in (-2 * clock)..(2 * clock + 1)
                BY <4>2 DEF Dated, Past
            <4> QED BY <4>1, <4>2, <4>3
        <3> QED BY <1>1, <3>1, PutAndRemovalsHide
    <2> QED BY <2>1, <2>2
<1>3. ASSUME NEW q \in Paths, NEW r \in Present(local[q]) PROVE Stays(o, r.text)
    <2>1. CASE q # p
        <3>1. r \in Present(local'[q])
            BY <2>1
        <3> QED BY <3>1, KeptNext DEF Stays
    <2>2. CASE q = p /\ r \notin S \cup {b}
        <3>1. r \in Present(local'[p])
            BY <1>2, <1>3, <2>2
        <3> QED BY <3>1, KeptNext DEF Stays
    <2>3. CASE q = p /\ r \in S \cup {b}
        BY <2>3
    <2> QED BY <2>1, <2>2, <2>3
<1> QED BY <1>3

LEMMA PutOnlyKeeps ==
    ASSUME RestoreInv, NEW o, NEW p \in Paths, NEW c, NEW b,
           c.anc = {} \/ (b \in local[p] /\ c.anc = Past(b)),
           local'[p] = local[p] \cup {c},
           \A q \in Paths \ {p} : local'[q] = local[q],
           b \in Present(local[p]) => Stays(o, b.text)
    PROVE  \A q \in Paths : \A r \in Present(local[q]) : Stays(o, r.text)
<1>1. PICK S \in SUBSET local[p] : S = {}
    OBVIOUS
<1>2. local'[p] = WithoutLeaves(local[p] \cup {c}, S)
    BY <1>1 DEF WithoutLeaves
<1>3. \A r \in Present(local[p]) : r \in S \/ r = b => Stays(o, r.text)
    BY <1>1
<1> QED BY <1>2, <1>3, PutKeeps

\* Removals hide what is removed.
LEMMA RemoveKeeps ==
    ASSUME RestoreInv, NEW o, NEW p \in Paths, NEW S \in SUBSET local[p],
           local' = [local EXCEPT ![p] = WithoutLeaves(local[p], S)],
           \A r \in Present(local[p]) : r \in S => Stays(o, r.text)
    PROVE  \A q \in Paths : \A r \in Present(local[q]) : Stays(o, r.text)
<1>1. Identified(local[p])
    BY OneDocument DEF RestoreInv, Typed, Tree, Identified
<1>2. /\ local'[p] = WithoutLeaves(local[p], S)
      /\ \A q \in Paths \ {p} : local'[q] = local[q]
    BY DEF RestoreInv, Typed, Documents
<1>3. Present(local[p]) \ S \subseteq Present(local'[p])
    BY <1>1, <1>2, RemovalsHide
<1>4. ASSUME NEW q \in Paths, NEW r \in Present(local[q]) PROVE Stays(o, r.text)
    <2>1. CASE q # p
        <3>1. r \in Present(local'[q])
            BY <1>2, <2>1
        <3> QED BY <3>1, KeptNext DEF Stays
    <2>2. CASE q = p /\ r \notin S
        <3>1. r \in Present(local'[p])
            BY <1>3, <1>4, <2>2
        <3> QED BY <3>1, KeptNext DEF Stays
    <2>3. CASE q = p /\ r \in S
        BY <2>3
    <2> QED BY <2>1, <2>2, <2>3
<1> QED BY <1>4
\* A step that changes no file, document or entry, and takes nothing from the history.
LEMMA AddsKeep ==
    ASSUME NEW o, UNCHANGED <<vault, archive, local, purges>>,
           \A p \in Paths : versions[p] \subseteq versions'[p]
    PROVE  Keeps(o)
BY KeepsAll, Unchanged

Overwritten(o) == {e.text : e \in purges \ op[o].list}
EditedSince(o) == IF notes THEN {op[o].text} \cap swept ELSE {op[o].text} \ {vault[op[o].target]}
BackedUp(o) == IF notes THEN {op[o].live} \ swept ELSE {}
OnlyAttachments(texts) == IF notes THEN {} ELSE texts
CrowdedOut(o) ==
    IF Cardinality(op[o].list) < MaxPurges THEN {}
    ELSE {e.text : e \in (op[o].list \cup {Snapshot(o)}) \ Newest(op[o].list \cup {Snapshot(o)})}
Relisted(o) == OnlyAttachments({e.text : e \in SameId(o)}) \ {op[o].text}

\* What the steps surrender, one by one.
LEMMA BringsSurrender ==
    ASSUME NEW o, op[o].kind \in BringsBack
    PROVE  /\ op[o].pc = "write" => Surrendered(o) = {vault[op[o].target]}
           /\ op[o].pc = "put" => Surrendered(o) = {Doc(op[o].target).text}
BY DEF Surrendered, BringsBack

LEMMA RestoreSurrenders ==
    ASSUME NEW o, Runs(o, "restore", "tidy")
    PROVE  Surrendered(o) =
              (({archive[op[o].path]} \cup IF op[o].target = op[o].path THEN {} ELSE {Doc(op[o].path).text})
                 \ {op[o].text}) \cup EditedSince(o)
BY DEF Surrendered, Runs, BringsBack, EditedSince

LEMMA PurgeSurrenders ==
    ASSUME NEW o, op[o].kind = "purge"
    PROVE  /\ op[o].pc = "save" => Surrendered(o) = Overwritten(o) \cup CrowdedOut(o) \cup Relisted(o)
           /\ op[o].pc = "remove" =>
                 Surrendered(o) =
                    {r.text : r \in op[o].conf} \cup OnlyAttachments({op[o].seen.text} \ {op[o].text})
                    \cup IF Snapshot(o) \in dropped \/ op[o].choice = "unlisted" THEN {op[o].seen.text} ELSE {}
BY DEF Surrendered, BringsBack, Overwritten, CrowdedOut, Relisted, OnlyAttachments

LEMMA EntrySurrenders ==
    ASSUME NEW o, op[o].pc = "save"
    PROVE  /\ op[o].kind = "clear" => Surrendered(o) = {op[o].text} \cup Overwritten(o) \cup Relisted(o)
           /\ op[o].kind = "undo" => Surrendered(o) = Overwritten(o) \cup EditedSince(o) \cup Relisted(o)
BY DEF Surrendered, BringsBack, Overwritten, EditedSince, Relisted, OnlyAttachments

LEMMA AnswerSurrenders ==
    ASSUME NEW o, op[o].kind \in {"delete", "keep-both"}, op[o].pc = "delete"
    PROVE  Surrendered(o) =
              {vault[op[o].path]} \cup OnlyAttachments({r.text : r \in Present(local[op[o].path])})
BY DEF Surrendered, BringsBack, OnlyAttachments

LEMMA ResolveSurrenders ==
    ASSUME NEW o, op[o].kind = "resolve"
    PROVE  /\ op[o].pc = "read" => Surrendered(o) = {vault[Copy]}
           /\ op[o].pc = "write" => Surrendered(o) = {vault[op[o].path]} \ BackedUp(o)
           /\ op[o].pc = "put" =>
                 LET resolved == op[o].conf \cup {op[o].seen}
                     texts == {r.text : r \in resolved} IN
                 Surrendered(o) =
                    IF \E r, s \in resolved : r # s /\ op[o].live \notin {r.text, s.text}
                    THEN texts ELSE OnlyAttachments(texts) \cup (texts \cap swept)
BY DEF Surrendered, BringsBack, OnlyAttachments, BackedUp

LEMMA VersionSurrenders ==
    ASSUME NEW o, op[o].kind = "version"
    PROVE  /\ op[o].pc = "write" => Surrendered(o) = {vault[op[o].path]} \ BackedUp(o)
           /\ op[o].pc = "put" =>
                 Surrendered(o) = {Doc(op[o].path).text, op[o].seen.text} \ BackedUp(o)
BY DEF Surrendered, BringsBack, BackedUp

LEMMA SweepSurrenders ==
    ASSUME NEW o, op[o].kind = "sweep"
    PROVE  Surrendered(o) = {op[o].seen.text} \cup versions[op[o].path]
BY DEF Surrendered, BringsBack
-----------------------------------------------------------------------------
(* No step of an operation takes away more than it surrenders.              *)

LEMMA FileWrittenKeeps ==
    ASSUME RestoreInv, NEW o \in Ops, FileWritten(o)
    PROVE  Keeps(o)
<1>1. /\ op[o].kind \in BringsBack /\ op[o].pc = "write" /\ op[o].target \in Paths
      /\ WriteFile(op[o].target, op[o].text) /\ UNCHANGED <<archive, local, versions, purges>>
    BY OneOperation DEF FileWritten, dbVars, lists
<1>2. Stays(o, vault[op[o].target])
    BY <1>1, BringsSurrender DEF Stays
<1>3. \A p \in Paths : Stays(o, vault[p])
    BY <1>1, <1>2, WriteFileKeeps
<1> QED BY <1>1, <1>3, KeepsAll, Unchanged

LEMMA DocumentPutKeeps ==
    ASSUME RestoreInv, NEW o \in Ops, DocumentPut(o)
    PROVE  Keeps(o)
<1> DEFINE p == op[o].target
           b == Base(local[p])
<1>1. /\ op[o].kind \in BringsBack /\ op[o].pc = "put" /\ p \in Paths /\ op[o].text \in Text
      /\ Put(p, op[o].text) /\ KeepText(p, {op[o].text}) /\ UNCHANGED <<vault, archive, remote, purges, swept>>
    BY OneOperation DEF DocumentPut, filesVars, lists
<1>2. \A q \in Paths : versions[q] \subseteq versions'[q]
    <2>1. {op[o].text} \in SUBSET Text
        BY <1>1
    <2> QED BY <1>1, <2>1, KeepTextIs
<1>3. b \in Present(local[p]) => Stays(o, b.text)
    <2> SUFFICES ASSUME b \in Present(local[p]) PROVE Stays(o, b.text)
        OBVIOUS
    <2>1. b = Doc(p)
        BY <1>1, Shows DEF RestoreInv, Typed, Doc
    <2> QED BY <1>1, <2>1, BringsSurrender DEF Stays
<1>4. \A q \in Paths : \A r \in Present(local[q]) : Stays(o, r.text)
    <2>1. PICK c : /\ local'[p] = local[p] \cup {c}
                   /\ c.anc = {} \/ (b \in local[p] /\ c.anc = Past(b))
        BY <1>1, PutIs
    <2>2. \A q \in Paths \ {p} : local'[q] = local[q]
        BY <1>1, PutIs
    <2> HIDE DEF p, b
    <2> QED BY <1>1, <1>3, <2>1, <2>2, PutOnlyKeeps
<1> QED BY <1>1, <1>2, <1>4, KeepsAll, Unchanged

\* The text that was brought back is in the history, or the file brought back was edited since.
LEMMA BroughtBackStays ==
    ASSUME RestoreInv, NEW o \in Ops, Recorded(op[o].target, op[o].text), EditedSince(o) \subseteq Surrendered(o),
           UNCHANGED <<vault, versions>>
    PROVE  Stays(o, op[o].text)
<1>1. op[o].target \in Paths
    BY OneOperation
<1>2. CASE notes
    <2>1. CASE op[o].text \in versions[op[o].target]
        BY <1>1, <2>1, KeptNext DEF Stays
    <2>2. CASE op[o].text \in swept
        BY <1>2, <2>2 DEF Stays, EditedSince
    <2>3. CASE op[o].text = NoText
        BY <2>3 DEF Stays
    <2> QED BY <1>2, <2>1, <2>2, <2>3 DEF Recorded
<1>3. CASE ~notes
    <2>1. CASE op[o].text = vault[op[o].target]
        BY <1>1, <2>1, KeptNext DEF Stays
    <2>2. CASE op[o].text # vault[op[o].target]
        BY <1>3, <2>2 DEF Stays, EditedSince
    <2> QED BY <2>1, <2>2
<1> QED BY <1>2, <1>3

LEMMA RestoreTidiesKeeps ==
    ASSUME RestoreInv, NEW o \in Ops, RestoreTidies(o)
    PROVE  Keeps(o)
<1> DEFINE p == op[o].path
<1>1. /\ Runs(o, "restore", "tidy") /\ p \in Paths /\ Keeping(o)
      /\ archive' = [archive EXCEPT ![p] = NoText] /\ UNCHANGED <<vault, versions, purges>>
    BY OneOperation DEF RestoreTidies, lists, Good
<1>2. Stays(o, op[o].text)
    BY <1>1, RestoreSurrenders, BroughtBackStays DEF Keeping, Runs
<1>3. \A q \in Paths : Stays(o, archive[q])
    <2>1. Stays(o, archive[p])
        BY <1>1, <1>2, RestoreSurrenders DEF Stays
    <2>2. \A q \in Paths \ {p} : archive'[q] = archive[q]
        BY <1>1 DEF RestoreInv, Typed, Files
    <2>3. \A q \in Paths \ {p} : Stays(o, archive[q])
        BY <2>2, KeptNext DEF Stays
    <2> QED BY <2>1, <2>3
<1>4. \A q \in Paths : \A r \in Present(local[q]) : Stays(o, r.text)
    <2>1. CASE local' = local
        BY <2>1, Unchanged
    <2>2. CASE op[o].target # p /\ Present(local[p]) # {} /\ local' = [local EXCEPT ![p] = WithoutLeaves(@, {Doc(p)})]
        <3>1. Stays(o, Doc(p).text)
            BY <1>1, <1>2, <2>2, RestoreSurrenders DEF Stays
        <3>2. Doc(p) \in local[p]
            BY <1>1, <2>2, Shows DEF RestoreInv, Typed, Doc
        <3>5. PICK S \in SUBSET local[p] : S = {Doc(p)}
            BY <3>2
        <3>3. \A r \in Present(local[p]) : r \in S => Stays(o, r.text)
            BY <3>1, <3>5
        <3>4. local' = [local EXCEPT ![p] = WithoutLeaves(local[p], S)]
            BY <2>2, <3>5
        <3> HIDE DEF p
        <3> QED BY <1>1, <3>3, <3>4, RemoveKeeps
    <2> QED BY <2>1, <2>2 DEF RestoreTidies
<1> QED BY <1>1, <1>3, <1>4, KeepsAll, Unchanged

\* A list that is not full keeps all its entries beside a new one.
LEMMA NotCrowdedOut ==
    ASSUME NEW list, IsFiniteSet(list), Cardinality(list) < MaxPurges, list \subseteq Entry,
           NEW new \in Entry, NEW e \in list \cup {new}
    PROVE  e \in Newest(list \cup {new})
<1> DEFINE all == list \cup {new}
           ahead == {f \in all : Newer(f, e)}
<1>1. e.at \in Nat /\ e.rev \in Int
    BY DEF Entry
<1>2. ~Newer(e, e)
    BY <1>1 DEF Newer
<1>3. IsFiniteSet(all) /\ Cardinality(all) <= Cardinality(list) + 1
    <2>1. /\ IsFiniteSet(all)
          /\ Cardinality(all) = IF new \in list THEN Cardinality(list) ELSE Cardinality(list) + 1
        BY FS_AddElement
    <2>2. Cardinality(list) \in Nat
        BY FS_CardinalityType
    <2> QED BY <2>1, <2>2
<1>4. e \in all /\ ahead \subseteq all \ {e}
    BY <1>2
<1> HIDE DEF all, ahead
<1>5. IsFiniteSet(all \ {e}) /\ Cardinality(all \ {e}) = Cardinality(all) - 1
    BY <1>3, <1>4, FS_RemoveElement
<1>6. IsFiniteSet(ahead) /\ Cardinality(ahead) <= Cardinality(all \ {e})
    BY <1>4, <1>5, FS_Subset
<1>7. /\ Cardinality(ahead) \in Nat /\ Cardinality(all) \in Nat /\ Cardinality(list) \in Nat
      /\ MaxPurges \in Nat
    BY <1>3, <1>6, FS_CardinalityType, LinkRestoreAssumption
<1>8. Cardinality(ahead) < MaxPurges
    BY <1>3, <1>5, <1>6, <1>7
<1> QED BY <1>4, <1>8 DEF Newest, ahead, all

\* What is among the newest of many is among the newest of some of them.
LEMMA NewestOfFewer ==
    ASSUME NEW all, IsFiniteSet(all), NEW some \in SUBSET all, NEW e \in some, e \in Newest(all)
    PROVE  e \in Newest(some)
<1> DEFINE many == {f \in all : Newer(f, e)}
           few == {f \in some : Newer(f, e)}
<1>1. Cardinality(many) < MaxPurges
    BY DEF Newest
<1>2. IsFiniteSet(many) /\ few \subseteq many /\ many \subseteq all
    BY FS_Subset
<1>3. /\ Cardinality(few) <= Cardinality(many) /\ Cardinality(few) \in Nat
      /\ Cardinality(many) \in Nat /\ MaxPurges \in Nat
    <2> HIDE DEF many, few
    <2> QED BY <1>2, FS_Subset, FS_CardinalityType, LinkRestoreAssumption
<1>4. Cardinality(few) < MaxPurges
    <2> HIDE DEF many, few
    <2> QED BY <1>1, <1>3
<1> QED BY <1>4 DEF Newest

LEMMA PurgeSavesKeeps ==
    ASSUME RestoreInv, NEW o \in Ops, PurgeSaves(o)
    PROVE  Keeps(o)
<1> DEFINE list == op[o].list
           kept == (list \ SameId(o)) \cup {Snapshot(o)}
<1>1. /\ op[o].kind = "purge" /\ op[o].pc = "save" /\ UNCHANGED <<notes, vault, archive, local, versions>>
      /\ purges' = purges \/ purges' = Newest(kept)
    BY DEF PurgeSaves, Runs, filesVars, dbVars
<1>2. Surrendered(o) = Overwritten(o) \cup CrowdedOut(o) \cup Relisted(o)
    BY <1>1, PurgeSurrenders
<1>3. CASE purges' = purges
    BY <1>1, <1>3, KeepsAll, Unchanged
<1>4. CASE purges' = Newest(kept)
    <2>1. /\ list \subseteq Entry /\ IsFiniteSet(list) /\ \A e \in list : Tells(e.path, e.rev, e.text)
          /\ Reading(o) /\ op[o].path \in Paths
        BY <1>1, OneOperation DEF Good, Listing
    <2>2. Snapshot(o) \in Entry /\ IsFiniteSet(list \cup {Snapshot(o)})
        BY <1>1, <2>1, SnapshotIs, FS_AddElement
    <2>3. ASSUME NEW e \in purges' PROVE Stays(o, e.text)
        BY KeptNext DEF Stays, Paths
    <2>4. ASSUME NEW e \in (list \ SameId(o)) \cup {Snapshot(o)} PROVE Stays(o, e.text)
        <3>1. CASE e \in Newest(list \cup {Snapshot(o)})
            <4>1. e \in kept /\ kept \in SUBSET (list \cup {Snapshot(o)})
                OBVIOUS
            <4>2. e \in Newest(kept)
                <5> HIDE DEF kept, list
                <5> QED BY <2>2, <3>1, <4>1, NewestOfFewer
            <4> QED BY <1>4, <2>3, <4>2
        <3>2. CASE e \notin Newest(list \cup {Snapshot(o)})
            <4>1. ~(Cardinality(list) < MaxPurges) /\ e \in list \cup {Snapshot(o)}
                <5>1. e \in list \cup {Snapshot(o)}
                    OBVIOUS
                <5> HIDE DEF list
                <5> QED BY <2>1, <2>2, <3>2, <5>1, NotCrowdedOut
            <4>2. e.text \in CrowdedOut(o)
                BY <3>2, <4>1 DEF CrowdedOut
            <4> QED BY <1>2, <4>2 DEF Stays
        <3> QED BY <3>1, <3>2
    <2>5. ASSUME NEW e \in SameId(o) PROVE Stays(o, e.text)
        <3>1. e \in list /\ e.path = op[o].path /\ e.rev = op[o].seen.id
            BY <2>5 DEF SameId
        <3>2. e.text \in Relisted(o) \/ e.text = Snapshot(o).text
            <4>1. CASE ~notes
                BY <2>5, <4>1 DEF Relisted, OnlyAttachments, Snapshot
            <4>2. CASE notes
                <5>1. Tells(op[o].path, op[o].seen.id, e.text)
                    BY <2>1, <3>1
                <5>2. op[o].seen \in local[op[o].path] /\ Identified(local[op[o].path] \cup remote[op[o].path])
                    BY <1>1, <2>1, OneDocument DEF Reading, RestoreInv, Typed, Tree
                <5>3. e.text = op[o].seen.text
                    BY <4>2, <5>1, <5>2 DEF Tells, Identified
                <5> QED BY <4>2, <5>3 DEF Snapshot
            <4> QED BY <4>1, <4>2
        <3>3. CASE e.text \in Relisted(o)
            BY <1>2, <3>3 DEF Stays
        <3>4. CASE e.text = Snapshot(o).text
            <4>1. Stays(o, Snapshot(o).text)
                <5> HIDE DEF list
                <5> QED BY <2>4
            <4> QED BY <3>4, <4>1
        <3> QED BY <3>2, <3>3, <3>4
    <2>6. ASSUME NEW e \in purges PROVE Stays(o, e.text)
        <3>1. CASE e \notin list
            BY <1>2, <3>1 DEF Stays, Overwritten
        <3>2. CASE e \in SameId(o)
            BY <2>5, <3>2
        <3>3. CASE e \in list \ SameId(o)
            <4>1. e \in (list \ SameId(o)) \cup {Snapshot(o)}
                BY <3>3
            <4> QED BY <2>4, <4>1
        <3> QED BY <3>1, <3>2, <3>3
    <2> HIDE DEF kept, list
    <2> QED BY <1>1, <2>6, KeepsAll, Unchanged
<1> QED BY <1>1, <1>3, <1>4

LEMMA EntrySavesKeeps ==
    ASSUME RestoreInv, NEW o \in Ops, EntrySaves(o)
    PROVE  Keeps(o)
<1>1. /\ op[o].kind \in {"undo", "clear"} /\ op[o].pc = "save" /\ Listing(o) /\ Keeping(o) /\ op[o].path \in Paths
      /\ purges' = op[o].list \ SameId(o)
      /\ UNCHANGED <<vault, archive, local, versions>>
    BY OneOperation DEF EntrySaves, filesVars, dbVars, Good
<1>2. Overwritten(o) \subseteq Surrendered(o) /\ Relisted(o) \subseteq Surrendered(o)
    BY <1>1, EntrySurrenders
<1>3. Stays(o, op[o].text)
    <2>1. CASE op[o].kind = "clear"
        BY <1>1, <2>1, EntrySurrenders DEF Stays
    <2>2. CASE op[o].kind = "undo"
        BY <1>1, <2>2, EntrySurrenders, BroughtBackStays DEF Keeping
    <2> QED BY <1>1, <2>1, <2>2
<1>4. ASSUME NEW e \in purges PROVE Stays(o, e.text)
    <2>1. CASE e \notin op[o].list
        BY <1>2, <2>1 DEF Stays, Overwritten
    <2>2. CASE e \in purges'
        <3>1. 1 \in Paths
            BY DEF Paths
        <3> QED BY <2>2, <3>1, KeptNext DEF Stays
    <2>3. CASE e \in SameId(o)
        <3>1. e.path = op[o].path /\ e.rev = op[o].seen.id
            BY <2>3 DEF SameId
        <3>2. CASE ~notes
            <4>1. e.text \in Relisted(o) \/ e.text = op[o].text
                BY <2>3, <3>2 DEF Relisted, OnlyAttachments
            <4> QED BY <1>2, <1>3, <4>1 DEF Stays
        <3>3. CASE notes
            <4>1. Tells(op[o].path, op[o].seen.id, e.text)
                BY <1>4, <3>1 DEF RestoreInv, Entries
            <4>2. Tells(op[o].path, op[o].seen.id, op[o].text)
                BY <1>1 DEF Listing
            <4>3. Identified(local[op[o].path] \cup remote[op[o].path])
                BY <1>1, OneDocument DEF RestoreInv, Typed, Tree
            <4>4. e.text = op[o].text
                BY <3>3, <4>1, <4>2, <4>3 DEF Tells, Identified
            <4> QED BY <1>3, <4>4
        <3> QED BY <3>2, <3>3
    <2> QED BY <1>1, <2>1, <2>2, <2>3
<1> QED BY <1>1, <1>4, KeepsAll, Unchanged
LEMMA PurgeRemovesKeeps ==
    ASSUME RestoreInv, NEW o \in Ops, PurgeRemoves(o)
    PROVE  Keeps(o)
<1> DEFINE p == op[o].path
           seen == op[o].seen
           gone == {seen} \cup (op[o].conf \cap Leaves(local[p]))
<1>1. /\ op[o].kind = "purge" /\ op[o].pc = "remove" /\ p \in Paths /\ Listing(o)
      /\ UNCHANGED <<vault, archive, versions, purges>>
      /\ \/ local' = local
         \/ seen \in Leaves(local[p]) /\ local' = [local EXCEPT ![p] = WithoutLeaves(@, gone)]
    BY OneOperation DEF PurgeRemoves, Runs, filesVars, lists, Good
<1>2. Surrendered(o) =
         {r.text : r \in op[o].conf} \cup OnlyAttachments({seen.text} \ {op[o].text})
         \cup IF Snapshot(o) \in dropped \/ op[o].choice = "unlisted" THEN {seen.text} ELSE {}
    BY <1>1, PurgeSurrenders
<1>3. Stays(o, seen.text)
    <2>1. op[o].choice = "unlisted" \/ Snapshot(o) \in purges \cup dropped
        BY <1>1 DEF Listing
    <2>2. CASE op[o].choice = "unlisted" \/ Snapshot(o) \in dropped
        BY <1>2, <2>2 DEF Stays
    <2>3. CASE ~notes /\ seen.text # op[o].text
        BY <1>2, <2>3 DEF Stays, OnlyAttachments
    <2>4. CASE Snapshot(o) \in purges /\ (notes \/ seen.text = op[o].text)
        <3>1. Snapshot(o).text = seen.text
            BY <2>4 DEF Snapshot
        <3>2. Snapshot(o) \in purges'
            BY <1>1, <2>4
        <3>3. Snapshot(o).text \in Kept'
            BY <1>1, <3>2, KeptNext
        <3> QED BY <3>1, <3>3 DEF Stays
    <2> QED BY <2>1, <2>2, <2>3, <2>4
<1>4. \A r \in op[o].conf : Stays(o, r.text)
    BY <1>2 DEF Stays
<1>5. \A q \in Paths : \A r \in Present(local[q]) : Stays(o, r.text)
    <2>1. CASE local' = local
        BY <2>1, Unchanged
    <2>2. CASE seen \in Leaves(local[p]) /\ local' = [local EXCEPT ![p] = WithoutLeaves(@, gone)]
        <3>1. gone \in SUBSET local[p] /\ \A r \in gone : Stays(o, r.text)
            BY <1>3, <1>4, <2>2 DEF Leaves
        <3>2. local' = [local EXCEPT ![p] = WithoutLeaves(local[p], gone)]
            BY <2>2
        <3> HIDE DEF p, gone
        <3> QED BY <1>1, <3>1, <3>2, RemoveKeeps
    <2> QED BY <1>1, <2>1, <2>2
<1> QED BY <1>1, <1>5, KeepsAll, Unchanged

\* Where one document changes, it is enough that its texts are kept.
LEMMA OneDocumentKeeps ==
    ASSUME NEW o, NEW p \in Paths, \A q \in Paths \ {p} : local'[q] = local[q],
           \A r \in Present(local[p]) : Stays(o, r.text)
    PROVE  \A q \in Paths : \A r \in Present(local[q]) : Stays(o, r.text)
<1>1. ASSUME NEW q \in Paths \ {p}, NEW r \in Present(local[q]) PROVE Stays(o, r.text)
    <2>1. r \in Present(local'[q])
        BY <1>1
    <2> QED BY <2>1, KeptNext DEF Stays
<1> QED BY <1>1

LEMMA AnswerDeletesKeeps ==
    ASSUME RestoreInv, NEW o \in Ops, AnswerDeletes(o)
    PROVE  Keeps(o)
<1> DEFINE p == op[o].path
           texts == {r.text : r \in Present(local[p])}
<1>1. /\ op[o].kind \in {"delete", "keep-both"} /\ op[o].pc = "delete" /\ p \in Paths
      /\ WriteFile(p, NoText) /\ UNCHANGED <<notes, archive, remote, purges, swept>>
      /\ \/ UNCHANGED <<local, versions>>
         \/ /\ IsLive(local[p]) /\ KeepText(p, texts) /\ clock' = clock + 1
            /\ local' = [local EXCEPT ![p] = WithoutLeaves(Tombstoned(@, clock + 1, TRUE), Conflicts(@))]
    BY OneOperation DEF AnswerDeletes, lists
<1>2. Surrendered(o) = {vault[p]} \cup OnlyAttachments(texts)
    BY <1>1, AnswerSurrenders
<1>3. \A q \in Paths : Stays(o, vault[q])
    <2>1. Stays(o, vault[p])
        BY <1>2 DEF Stays
    <2> HIDE DEF p
    <2> QED BY <1>1, <2>1, WriteFileKeeps
<1>4. texts \in SUBSET Text
    <2>1. Present(local[p]) \subseteq Rev(Texts)
        BY <1>1, Shows, OneDocument DEF RestoreInv, Typed
    <2> QED BY <2>1 DEF Rev, Text
<1>5. CASE UNCHANGED <<local, versions>>
    BY <1>1, <1>3, <1>5, KeepsAll, Unchanged
<1>6. CASE /\ IsLive(local[p]) /\ KeepText(p, texts) /\ clock' = clock + 1
           /\ local' = [local EXCEPT ![p] = WithoutLeaves(Tombstoned(@, clock + 1, TRUE), Conflicts(@))]
    <2>1. /\ \A q \in Paths : versions[q] \subseteq versions'[q]
          /\ notes => texts \subseteq versions'[p] \cup {NoText}
        <3> HIDE DEF p, texts
        <3> QED BY <1>1, <1>4, <1>6, KeepTextIs
    <2>2. \A r \in Present(local[p]) : Stays(o, r.text)
        <3> SUFFICES ASSUME NEW t \in texts PROVE Stays(o, t)
            OBVIOUS
        <3>1. CASE notes
            <4> HIDE DEF p, texts
            <4> QED BY <1>1, <2>1, <3>1, KeptNext DEF Stays
        <3>2. CASE ~notes
            <4> HIDE DEF p, texts
            <4> QED BY <1>2, <3>2 DEF Stays, OnlyAttachments
        <3> QED BY <3>1, <3>2
    <2>3. \A q \in Paths \ {p} : local'[q] = local[q]
        <3> HIDE DEF p
        <3> QED BY <1>1, <1>6, DeletedHere
    <2>4. \A q \in Paths : \A r \in Present(local[q]) : Stays(o, r.text)
        <3> HIDE DEF p
        <3> QED BY <1>1, <2>2, <2>3, OneDocumentKeeps
    <2> QED BY <1>1, <1>3, <2>1, <2>4, KeepsAll, Unchanged
<1> QED BY <1>1, <1>5, <1>6

LEMMA ResolveReadsKeeps ==
    ASSUME RestoreInv, NEW o \in Ops,
           NEW choice \in {"local", "remote", "both", "both-remote"}, ResolveReads(o, choice)
    PROVE  Keeps(o)
<1> DEFINE p == op[o].path
<1>1. /\ op[o].kind = "resolve" /\ op[o].pc = "read" /\ p \in Paths
      /\ UNCHANGED <<notes, archive, local, purges, swept>>
    <2>1. Runs(o, "resolve", "read") /\ UNCHANGED <<notes, archive, local, lists, swept>>
        BY DEF ResolveReads
    <2> QED BY <2>1, OneOperation DEF Runs, lists
<1>2. CASE UNCHANGED <<vault, versions>>
    BY <1>1, <1>2, KeepsAll, Unchanged
<1>3. ASSUME NEW r \in RemoteSide(p), KeepText(p, {vault[p], r.text}),
             vault' = IF KeepsBoth(p, choice, r)
                      THEN [vault EXCEPT ![Copy] = IF choice = "both" THEN r.text ELSE LocalSide(p)]
                      ELSE vault
      PROVE  Keeps(o)
    <2>1. \A q \in Paths : versions[q] \subseteq versions'[q]
        BY <1>1, <1>3 DEF KeepText, RestoreInv, Typed, History
    <2>2. \A q \in Paths \ {Copy} : vault'[q] = vault[q]
        BY <1>3 DEF RestoreInv, Typed, Files
    <2>3. ASSUME NEW q \in Paths PROVE Stays(o, vault[q])
        <3>1. CASE q = Copy
            BY <1>1, <3>1, ResolveSurrenders DEF Stays
        <3>2. CASE q # Copy
            BY <2>2, <3>2, KeptNext DEF Stays
        <3> QED BY <3>1, <3>2
    <2> QED BY <1>1, <2>1, <2>3, KeepsAll, Unchanged
<1>4. \/ UNCHANGED <<vault, versions>>
      \/ \E r \in RemoteSide(p) :
            /\ KeepText(p, {vault[p], r.text})
            /\ vault' = IF KeepsBoth(p, choice, r)
                        THEN [vault EXCEPT ![Copy] = IF choice = "both" THEN r.text ELSE LocalSide(p)]
                        ELSE vault
    BY DEF ResolveReads
<1> QED BY <1>2, <1>3, <1>4
\* The file that an operation read and recorded is written over.
LEMMA BackedUpStays ==
    ASSUME RestoreInv, NEW o \in Ops, Recorded(op[o].path, op[o].live), versions' = versions,
           NEW t \in BackedUp(o)
    PROVE  Stays(o, t)
<1>1. notes /\ t = op[o].live /\ t \notin swept
    BY DEF BackedUp
<1>2. t \in versions[op[o].path] \cup {NoText}
    BY <1>1 DEF Recorded
<1>3. op[o].path \in Paths
    BY OneOperation
<1> QED BY <1>2, <1>3, KeptNext DEF Stays

LEMMA WritesOverKeeps ==
    ASSUME RestoreInv, NEW o \in Ops, ResolveWrites(o) \/ VersionWrites(o)
    PROVE  Keeps(o)
<1> DEFINE p == op[o].path
<1>1. /\ op[o].kind \in {"resolve", "version"} /\ op[o].pc = "write" /\ p \in Paths /\ Keeping(o)
      /\ WriteFile(p, op[o].text) /\ UNCHANGED <<archive, local, versions, purges>>
    BY OneOperation DEF ResolveWrites, VersionWrites, Runs, dbVars, lists, Good
<1>2. Surrendered(o) = {vault[p]} \ BackedUp(o)
    BY <1>1, ResolveSurrenders, VersionSurrenders
<1>3. Recorded(p, op[o].live)
    BY <1>1 DEF Keeping
<1>4. Stays(o, vault[p])
    <2>1. CASE vault[p] \in BackedUp(o)
        BY <1>1, <1>3, <2>1, BackedUpStays
    <2>2. CASE vault[p] \notin BackedUp(o)
        BY <1>2, <2>2 DEF Stays
    <2> QED BY <2>1, <2>2
<1>5. \A q \in Paths : Stays(o, vault[q])
    <2> HIDE DEF p
    <2> QED BY <1>1, <1>4, WriteFileKeeps
<1> QED BY <1>1, <1>5, KeepsAll, Unchanged

\* A revision that was put on the revision read, or on a document that shows nothing.
LEMMA PutOnKeeps ==
    ASSUME RestoreInv, NEW o \in Ops, NEW p \in Paths, NEW c, c.id = 2 * (clock + 1), NEW seen,
           \/ c.anc = {}
           \/ seen \in local[p] /\ c.anc = Past(seen)
           \/ Present(local[p]) = {} /\ \E b \in local[p] : c.anc = Past(b),
           NEW S \in SUBSET (local[p] \cup {c}),
           local' = [local EXCEPT ![p] = WithoutLeaves(local[p] \cup {c}, S)],
           \A r \in Present(local[p]) : r \in S \/ r = seen => Stays(o, r.text)
    PROVE  \A q \in Paths : \A r \in Present(local[q]) : Stays(o, r.text)
<1>1. /\ local'[p] = WithoutLeaves(local[p] \cup {c}, S)
      /\ \A q \in Paths \ {p} : local'[q] = local[q]
    BY DEF RestoreInv, Typed, Documents
<1>2. CASE Present(local[p]) = {}
    <2>1. \A r \in Present(local[p]) : Stays(o, r.text)
        BY <1>2
    <2> QED BY <1>1, <2>1, OneDocumentKeeps
<1>3. CASE c.anc = {} \/ (seen \in local[p] /\ c.anc = Past(seen))
    BY <1>1, <1>3, PutKeeps
<1> QED BY <1>2, <1>3

LEMMA ResolvePutsKeeps ==
    ASSUME RestoreInv, NEW o \in Ops, ResolvePuts(o)
    PROVE  Keeps(o)
<1> DEFINE p == op[o].path
           resolved == op[o].conf \cup {op[o].seen}
           texts == {r.text : r \in resolved}
<1>1. /\ op[o].kind = "resolve" /\ op[o].pc = "put" /\ p \in Paths /\ Keeping(o)
      /\ UNCHANGED <<vault, archive, versions, purges>>
    BY OneOperation DEF ResolvePuts, Runs, filesVars, lists, Good
<1>2. Surrendered(o) = IF \E r, s \in resolved : r # s /\ op[o].live \notin {r.text, s.text}
                       THEN texts ELSE OnlyAttachments(texts) \cup (texts \cap swept)
    BY <1>1, ResolveSurrenders
<1>3. ASSUME NEW r \in resolved PROVE Stays(o, r.text)
    <2>1. r.text \in texts
        OBVIOUS
    <2>2. CASE \E x, s \in resolved : x # s /\ op[o].live \notin {x.text, s.text}
        <3> HIDE DEF texts, resolved
        <3> QED BY <1>2, <2>1, <2>2 DEF Stays
    <2>3. CASE ~\E x, s \in resolved : x # s /\ op[o].live \notin {x.text, s.text}
        <3>1. Recorded(p, r.text)
            BY <1>1, <2>3 DEF Keeping
        <3>2. Surrendered(o) = OnlyAttachments(texts) \cup (texts \cap swept)
            BY <1>2, <2>3
        <3> HIDE DEF texts, resolved
        <3>3. CASE notes /\ r.text \in versions[p]
            BY <1>1, <3>3, KeptNext DEF Stays
        <3>4. CASE notes /\ r.text \in swept
            BY <2>1, <3>2, <3>4 DEF Stays
        <3>5. CASE ~notes
            BY <2>1, <3>2, <3>5 DEF Stays, OnlyAttachments
        <3> QED BY <3>1, <3>3, <3>4, <3>5 DEF Recorded, Stays
    <2> QED BY <2>2, <2>3
<1>4. \A q \in Paths : \A r \in Present(local[q]) : Stays(o, r.text)
    <2>1. PICK c \in Rev(Texts) : \E S \in SUBSET (op[o].conf \cap (local[p] \cup {c})) :
             /\ c.state # "removed" /\ c.id = 2 * (clock + 1)
             /\ local' = [local EXCEPT ![p] = WithoutLeaves(local[p] \cup {c}, S)]
             /\ \/ c.anc = {}
                \/ op[o].seen \in local[p] /\ c.anc = Past(op[o].seen)
                \/ Present(local[p]) = {} /\ \E b \in local[p] : c.anc = Past(b)
        BY ResolvePutsIs
    <2>2. PICK S \in SUBSET (op[o].conf \cap (local[p] \cup {c})) :
             /\ c.state # "removed" /\ c.id = 2 * (clock + 1)
             /\ local' = [local EXCEPT ![p] = WithoutLeaves(local[p] \cup {c}, S)]
             /\ \/ c.anc = {}
                \/ op[o].seen \in local[p] /\ c.anc = Past(op[o].seen)
                \/ Present(local[p]) = {} /\ \E b \in local[p] : c.anc = Past(b)
        BY <2>1
    <2>3. S \in SUBSET (local[p] \cup {c}) /\ S \subseteq resolved /\ op[o].seen \in resolved
        BY <2>2
    <2>4. \A r \in Present(local[p]) : r \in S \/ r = op[o].seen => Stays(o, r.text)
        BY <1>3, <2>3
    <2> HIDE DEF p
    <2> QED BY <1>1, <2>2, <2>3, <2>4, PutOnKeeps
<1> QED BY <1>1, <1>4, KeepsAll, Unchanged

LEMMA VersionPutsKeeps ==
    ASSUME RestoreInv, NEW o \in Ops, VersionPuts(o)
    PROVE  Keeps(o)
<1> DEFINE p == op[o].path
           seen == op[o].seen
           text == op[o].text
<1>1. /\ op[o].kind = "version" /\ op[o].pc = "put" /\ UNCHANGED <<vault, archive, remote, versions, purges>>
      /\ \/ StillLeaf(p, seen) /\ local' = PutOn(p, seen, text, "live")
         \/ UNCHANGED local
         \/ Put(p, text)
    BY DEF VersionPuts, Runs, filesVars, lists
<1>2. p \in Paths /\ seen \in Rev(Texts) /\ text \in Text /\ Keeping(o)
    BY OneOperation DEF Good
<1>3. \A t \in {Doc(p).text, seen.text} : Stays(o, t)
    <2>1. Surrendered(o) = {Doc(p).text, seen.text} \ BackedUp(o)
        BY <1>1, VersionSurrenders
    <2>2. \A t \in BackedUp(o) : Stays(o, t)
        BY <1>1, <1>2, BackedUpStays DEF Keeping
    <2> HIDE DEF p, seen
    <2> QED BY <2>1, <2>2 DEF Stays
<1>4. CASE StillLeaf(p, seen) /\ local' = PutOn(p, seen, text, "live")
    <2>1. "live" \in {"live", "deleted"}
        OBVIOUS
    <2>2. PICK c \in Rev(Texts) :
            /\ c.id = 2 * (clock + 1)
            /\ PutOn(p, seen, text, "live") = [local EXCEPT ![p] = @ \cup {c}]
            /\ \/ c.anc = {}
               \/ seen \in local[p] /\ c.anc = Past(seen)
               \/ Present(local[p]) = {} /\ \E b \in local[p] : c.anc = Past(b)
        <3> HIDE DEF p, seen, text
        <3> QED BY <1>2, <1>4, <2>1, PutOnIs
    <2>3. PICK S \in SUBSET (local[p] \cup {c}) : S = {}
        OBVIOUS
    <2>4. local' = [local EXCEPT ![p] = WithoutLeaves(local[p] \cup {c}, S)]
        BY <1>4, <2>2, <2>3 DEF WithoutLeaves
    <2>5. \A r \in Present(local[p]) : r \in S \/ r = seen => Stays(o, r.text)
        BY <1>3, <2>3
    <2>6. \A q \in Paths : \A r \in Present(local[q]) : Stays(o, r.text)
        <3> HIDE DEF p, seen
        <3> QED BY <1>2, <2>2, <2>4, <2>5, PutOnKeeps
    <2> QED BY <1>1, <2>6, KeepsAll, Unchanged
<1>5. CASE UNCHANGED local
    BY <1>1, <1>5, KeepsAll, Unchanged
<1>6. CASE Put(p, text)
    <2> DEFINE b == Base(local[p])
    <2>1. b \in Present(local[p]) => Stays(o, b.text)
        <3>1. b \in Present(local[p]) => b = Doc(p)
            BY <1>2, Shows DEF RestoreInv, Typed, Doc
        <3> QED BY <1>3, <3>1
    <2>2. PICK c : /\ local'[p] = local[p] \cup {c}
                   /\ c.anc = {} \/ (b \in local[p] /\ c.anc = Past(b))
        BY <1>1, <1>2, <1>6, PutIs
    <2>3. \A q \in Paths \ {p} : local'[q] = local[q]
        BY <1>1, <1>2, <1>6, PutIs
    <2>4. \A q \in Paths : \A r \in Present(local[q]) : Stays(o, r.text)
        <3> HIDE DEF p, b
        <3> QED BY <1>2, <2>1, <2>2, <2>3, PutOnlyKeeps
    <2> QED BY <1>1, <2>4, KeepsAll, Unchanged
<1> QED BY <1>1, <1>4, <1>5, <1>6
LEMMA SweepPutsKeeps ==
    ASSUME RestoreInv, NEW o \in Ops, SweepPuts(o)
    PROVE  Keeps(o)
<1> DEFINE p == op[o].path
           seen == op[o].seen
           c == Child(seen, clock + 1, NoText, "deleted", seen.mine, seen.at)
<1>1. /\ op[o].kind = "sweep" /\ UNCHANGED <<vault, archive, purges>>
      /\ \/ /\ StillLeaf(p, seen) /\ local' = [local EXCEPT ![p] = @ \cup {c}]
            /\ \E kept : versions' = [versions EXCEPT ![p] = kept]
         \/ UNCHANGED <<local, versions>>
    <2>1. Runs(o, "sweep", "put") /\ UNCHANGED <<filesVars, lists>>
        BY DEF SweepPuts
    <2>2. \/ /\ StillLeaf(p, seen) /\ local' = [local EXCEPT ![p] = @ \cup {c}]
             /\ \E kept \in {{}, versions[p]} : versions' = [versions EXCEPT ![p] = kept]
          \/ UNCHANGED <<local, versions>>
        BY DEF SweepPuts, Stripped
    <2> HIDE DEF c
    <2> QED BY <2>1, <2>2 DEF Runs, filesVars, lists
<1>2. p \in Paths /\ Surrendered(o) = {seen.text} \cup versions[p]
    BY <1>1, OneOperation, SweepSurrenders
<1>3. CASE UNCHANGED <<local, versions>>
    BY <1>1, <1>3, KeepsAll, Unchanged
<1>4. CASE /\ StillLeaf(p, seen) /\ local' = [local EXCEPT ![p] = @ \cup {c}]
           /\ \E kept : versions' = [versions EXCEPT ![p] = kept]
    <2>1. \A q \in Paths : \A t \in versions[q] : Stays(o, t)
        <3>1. \A q \in Paths \ {p} : versions'[q] = versions[q]
            BY <1>4 DEF RestoreInv, Typed, History
        <3>2. \A q \in Paths \ {p} : \A t \in versions[q] : Stays(o, t)
            BY <3>1, KeptNext DEF Stays
        <3>3. \A t \in versions[p] : Stays(o, t)
            BY <1>2 DEF Stays
        <3> QED BY <3>2, <3>3
    <2>2. \A q \in Paths : \A r \in Present(local[q]) : Stays(o, r.text)
        <3>1. c.anc = {} \/ (seen \in local[p] /\ c.anc = Past(seen))
            BY <1>4 DEF Child, Past, StillLeaf, Leaves
        <3>2. Stays(o, seen.text)
            BY <1>2 DEF Stays
        <3>3. local'[p] = local[p] \cup {c} /\ \A q \in Paths \ {p} : local'[q] = local[q]
            <4> HIDE DEF c
            <4> QED BY <1>2, <1>4 DEF RestoreInv, Typed, Documents
        <3> HIDE DEF c, p, seen
        <3> QED BY <1>2, <3>1, <3>2, <3>3, PutOnlyKeeps
    <2> QED BY <1>1, <2>1, <2>2, KeepsAll, Unchanged
<1> QED BY <1>1, <1>3, <1>4

LEMMA ReadStepsKeep ==
    ASSUME NEW o \in Ops,
           \/ \E choice \in {"keep-both", "overwrite", "skip", "other-name"} : RestoreReads(o, choice)
           \/ \E choice \in {"keep-remote", "keep-both", "delete"} : AnswerReads(o, choice)
           \/ \E e \in purges : UndoReads(o, e) \/ ClearReads(o, e)
           \/ PurgeReads(o) \/ PurgeLoads(o) \/ EntryLoads(o) \/ QueueLoads(o) \/ QueueSaves(o)
           \/ ResolveRetries(o) \/ VersionGets(o) \/ SweepReads(o) \/ RepairScans(o)
    PROVE  Keeps(o)
<1>1. UNCHANGED <<filesVars, dbVars, purges>>
    <2>1. CASE \E choice \in {"keep-both", "overwrite", "skip", "other-name"} : RestoreReads(o, choice)
        BY <2>1 DEF RestoreReads, lists
    <2>2. CASE \E choice \in {"keep-remote", "keep-both", "delete"} : AnswerReads(o, choice)
        BY <2>2 DEF AnswerReads, lists
    <2>3. CASE \E e \in purges : UndoReads(o, e) \/ ClearReads(o, e)
        <3>1. ASSUME NEW e \in purges, UndoReads(o, e) PROVE UNCHANGED <<filesVars, dbVars, purges>>
            BY <3>1 DEF UndoReads, lists
        <3>2. ASSUME NEW e \in purges, ClearReads(o, e) PROVE UNCHANGED <<filesVars, dbVars, purges>>
            BY <3>2 DEF ClearReads, lists
        <3> QED BY <2>3, <3>1, <3>2
    <2>4. CASE PurgeReads(o) \/ PurgeLoads(o) \/ EntryLoads(o)
        BY <2>4 DEF PurgeReads, PurgeLoads, EntryLoads, lists
    <2>5. CASE QueueLoads(o) \/ QueueSaves(o)
        BY <2>5 DEF QueueLoads, QueueSaves, lists
    <2>6. CASE ResolveRetries(o) \/ VersionGets(o)
        BY <2>6 DEF ResolveRetries, VersionGets, lists
    <2>7. CASE SweepReads(o) \/ RepairScans(o)
        BY <2>7 DEF SweepReads, RepairScans, lists
    <2> QED BY <2>1, <2>2, <2>3, <2>4, <2>5, <2>6, <2>7
<1> QED BY <1>1, ReadsKeep

LEMMA OtherStepsKeep ==
    ASSUME RestoreInv, NEW o \in Ops,
           (\E text \in Texts : VersionReads(o, text)) \/ RepairTombstones(o)
    PROVE  Keeps(o)
<1>1. CASE RepairTombstones(o)
    <2>1. UNCHANGED <<vault, archive, local, versions, purges>>
        BY <1>1 DEF RepairTombstones, filesVars, lists
    <2> QED BY <2>1, AddsKeep
<1>2. ASSUME NEW text \in Texts, VersionReads(o, text) PROVE Keeps(o)
    <2>1. UNCHANGED <<vault, archive, local, purges>> /\ KeepText(op[o].path, {vault[op[o].path]})
        <3>1. UNCHANGED <<filesVars, local, lists>>
            BY <1>2 DEF VersionReads
        <3>2. KeepText(op[o].path, {vault[op[o].path]})
            BY <1>2 DEF VersionReads
        <3> QED BY <3>1, <3>2 DEF filesVars, lists
    <2>2. \A p \in Paths : versions[p] \subseteq versions'[p]
        BY <2>1 DEF KeepText, RestoreInv, Typed, History
    <2> QED BY <2>1, <2>2, AddsKeep
<1> QED BY <1>1, <1>2

LEMMA StepsKeep ==
    ASSUME RestoreInv, NEW o \in Ops, Steps(o)
    PROVE  Kept \ (Surrendered(o) \cup {NoText}) \subseteq Kept'
<1> SUFFICES Keeps(o)
    BY DEF Keeps
<1>1. CASE \/ \E choice \in {"keep-both", "overwrite", "skip", "other-name"} : RestoreReads(o, choice)
           \/ \E choice \in {"keep-remote", "keep-both", "delete"} : AnswerReads(o, choice)
           \/ \E e \in purges : UndoReads(o, e) \/ ClearReads(o, e)
           \/ PurgeReads(o) \/ PurgeLoads(o) \/ EntryLoads(o) \/ QueueLoads(o) \/ QueueSaves(o)
           \/ ResolveRetries(o) \/ VersionGets(o) \/ SweepReads(o) \/ RepairScans(o)
    BY <1>1, ReadStepsKeep
<1>2. CASE (\E text \in Texts : VersionReads(o, text)) \/ RepairTombstones(o)
    BY <1>2, OtherStepsKeep
<1>3. CASE FileWritten(o) \/ DocumentPut(o) \/ RestoreTidies(o)
    BY <1>3, FileWrittenKeeps, DocumentPutKeeps, RestoreTidiesKeeps
<1>4. CASE PurgeSaves(o) \/ PurgeRemoves(o) \/ EntrySaves(o) \/ AnswerDeletes(o)
    BY <1>4, PurgeSavesKeeps, PurgeRemovesKeeps, EntrySavesKeeps, AnswerDeletesKeeps
<1>5. CASE \/ \E choice \in {"local", "remote", "both", "both-remote"} : ResolveReads(o, choice)
           \/ ResolveWrites(o) \/ ResolvePuts(o)
    BY <1>5, ResolveReadsKeeps, WritesOverKeeps, ResolvePutsKeeps
<1>6. CASE VersionPuts(o) \/ VersionWrites(o) \/ SweepPuts(o)
    BY <1>6, VersionPutsKeeps, WritesOverKeeps, SweepPutsKeeps
<1> QED BY <1>1, <1>2, <1>3, <1>4, <1>5, <1>6 DEF Steps

\* No operation takes the last copy of a text from the device, except what it surrenders
\* (RestoreManager, ConflictManager, Uploader.purgePath, VersionStore), however many
\* operations, devices and revisions there are.
THEOREM NothingIsLost == Spec => NothingVanishes
<1>1. RestoreInv /\ [Next]_vars =>
        [\A o \in Ops : Steps(o) => Kept \ (Surrendered(o) \cup {NoText}) \subseteq Kept']_vars
    BY StepsKeep
<1>2. Spec => []TypeOK
    BY RestoreInvariant, InvTyped, PTL
<1>3. Spec => [][\A o \in Ops : Steps(o) => Kept \ (Surrendered(o) \cup {NoText}) \subseteq Kept']_vars
    BY <1>1, RestoreInvariant, PTL DEF Spec
<1> QED BY <1>2, <1>3 DEF NothingVanishes
=============================================================================
