-------------------------- MODULE FullSync_proofs --------------------------
(***************************************************************************)
(* Proofs about FullSync: whatever the user, the network, the other        *)
(* devices and an ending of the app do during a synchronisation, what      *)
(* other devices wrote is not lost in the version history.                 *)
(***************************************************************************)
EXTENDS FullSync, RevisionTrees_proofs

(* The two replicas of one document.                                        *)

Worded(U) == \A r \in U : r.state = "live" => r.text # NoText

\* What this device wrote came from its replica, and was put on a revision that it has.
Own(L, R) == \A c \in R : c.mine => c \in L
Parents(L, R) == \A c \in L, r \in L \cup R : c.mine /\ c.anc = Past(r) => r \in L

\* L is here and R on the server, at time n.
Replicas(L, R, n) ==
    /\ L \subseteq Rev(Texts) /\ R \subseteq Rev(Texts)
    /\ Tree(L \cup R) /\ Dated(L \cup R, n) /\ Worded(L \cup R)
    /\ Own(L, R) /\ Parents(L, R)

\* What others wrote and this device put something over is in the history V.
Saved(L, V) ==
    \A r, c \in L :
        r.state = "live" /\ ~r.mine /\ c.mine /\ c.anc = Past(r)
            => r.text \in V \/ \E s \in L : s.id # r.id /\ s.text = r.text

Databases ==
    /\ clock \in Nat
    /\ local \in [Paths -> SUBSET Rev(Texts)] /\ remote \in [Paths -> SUBSET Rev(Texts)]
    /\ versions \in [Paths -> SUBSET Texts]
    /\ \A p \in Paths : Replicas(local[p], remote[p], clock)
    /\ Notes => \A p \in Paths : Saved(local[p], versions[p])

File == [text : Texts \cup {NoText}, at : Nat]
Dir == {"none", "start", "both", "up", "down"}
Step == {"idle", "upload", "pull", "compare", "tombstone", "push", "download", "record"}

Vault ==
    /\ space \in {"notes", "assets", "readonly"} /\ root \in 1..2
    /\ vault \in [Paths -> File] /\ copy \in [Paths -> Texts \cup {NoText}]
    /\ \A p \in Paths : vault[p].text = NoText => vault[p] = NoFile
    /\ gone \subseteq Paths /\ had \in [Paths -> SUBSET Texts]
    /\ owed \in [Paths -> {"no", "yes", "troubled", "retry"}]

Control ==
    /\ manifest.root \in 0..2 /\ DOMAIN manifest.entry = Paths
    /\ queue \subseteq Paths /\ unread \subseteq Paths /\ pending \subseteq Paths
    /\ phase \in {"off", "starting", "on"}
    /\ sync = [dir |-> sync.dir, step |-> sync.step, base |-> sync.base, todo |-> sync.todo]
    /\ sync.dir \in Dir /\ sync.step \in Step /\ sync.todo \subseteq Paths

SyncInv == Databases /\ Vault /\ Control

-----------------------------------------------------------------------------
(* One document: what each operation does to its replicas.                  *)

LEMMA ReplicasLater ==
    ASSUME NEW L, NEW R, NEW n \in Nat, NEW m \in Nat, n <= m, Replicas(L, R, n)
    PROVE  Replicas(L, R, m)
BY DatedLater DEF Replicas

\* A revision of the documents is no NoRev, and what the winner is.
LEMMA Winners ==
    ASSUME NEW L, NEW R, NEW n \in Nat, Replicas(L, R, n), NEW doc \in SUBSET (L \cup R)
    PROVE  /\ \A r \in doc : r # NoRev
           /\ IsLive(doc) \/ IsDeleted(doc) => Winner(doc) \in Present(doc)
           /\ Present(doc) # {} => Base(doc) = Winner(doc) /\ Winner(doc) \in Present(doc)
           /\ Present(doc) = {} => \A r \in Leaves(doc) : r.state = "removed"
           /\ Base(doc) = NoRev \/ Base(doc) \in Leaves(doc)
           /\ Present(doc) \subseteq doc /\ Leaves(doc) \subseteq doc
           /\ \A r \in Present(doc) : r.state # "removed"
<1>1. Tree(L \cup R) /\ Dated(L \cup R, n)
    BY DEF Replicas
<1>2. ASSUME NEW r \in doc, r = NoRev PROVE FALSE
    <2>1. \E k \in Int : r.id = 2 * k + (IF r.state = "removed" THEN 1 ELSE 0)
        BY <1>1 DEF Tree, Numbered
    <2>2. r.id = 0 /\ r.state = "removed"
        BY <1>2 DEF NoRev
    <2> QED BY <2>1, <2>2
<1>3. NoRev.state = "removed"
    BY DEF NoRev
<1>4. /\ Present(doc) # {} => Winner(doc) \in Present(doc)
      /\ Present(doc) = {} => Winner(doc) = NoRev
      /\ Present(doc) # {} => Base(doc) = Winner(doc)
      /\ doc # {} => Base(doc) \in Leaves(doc)
      /\ doc = {} => Base(doc) = NoRev
    BY <1>1, WinnerShows
<1>5. Present(doc) \subseteq doc /\ Leaves(doc) \subseteq doc
    BY DEF Present, Leaves
<1>9. \A r \in Present(doc) : r.state # "removed"
    BY DEF Present
<1>10. Present(doc) = {} => \A r \in Leaves(doc) : r.state = "removed"
    BY DEF Present
<1>6. ASSUME IsLive(doc) \/ IsDeleted(doc) PROVE Winner(doc) \in Present(doc)
    <2>1. Winner(doc).state # "removed"
        BY <1>6 DEF IsLive, IsDeleted
    <2> QED BY <1>3, <1>4, <2>1
<1>7. \A r \in doc : r # NoRev
    BY <1>2
<1>8. Base(doc) = NoRev \/ Base(doc) \in Leaves(doc)
    BY <1>4
<1>11. Present(doc) # {} => Base(doc) = Winner(doc) /\ Winner(doc) \in Present(doc)
    BY <1>4
<1> QED BY <1>5, <1>6, <1>7, <1>8, <1>9, <1>10, <1>11

\* A revision with a new id, put on another or on none.
Follows(c, b) ==
    /\ c.anc = IF b = NoRev THEN {} ELSE Past(b)
    /\ c.state # "removed" /\ (c.state = "live" => c.text # NoText)

LEMMA PutGrows ==
    ASSUME NEW U, NEW n \in Nat, Tree(U), Dated(U, n), Worded(U),
           NEW b, b = NoRev \/ b \in U, NEW m \in Nat, n < m,
           NEW c, Follows(c, b), c.id \in {2 * m, -2 * m}
    PROVE  /\ Tree(U \cup {c}) /\ Dated(U \cup {c}, m) /\ Worded(U \cup {c})
           /\ \A r \in U \cup {c} : c.id \notin r.anc
<1>1. c.state # "removed" /\ (c.anc = {} \/ \E x \in U : c.anc = Past(x))
    BY DEF Follows
<1>2. Worded(U \cup {c})
    BY DEF Worded, Follows
<1> QED BY <1>1, <1>2, LaterPut

\* Another device puts a revision on the server's.
LEMMA OthersPut ==
    ASSUME NEW L, NEW R, NEW n \in Nat, Replicas(L, R, n), NEW b, b = NoRev \/ b \in R,
           NEW c \in Rev(Texts), Follows(c, b), c.id \in {2 * (n + 1), -2 * (n + 1)}, ~c.mine
    PROVE  Replicas(L, R \cup {c}, n + 1)
<1> DEFINE U == L \cup R
<1>1. Tree(U) /\ Dated(U, n) /\ Worded(U)
    BY DEF Replicas
<1>2. Tree(U \cup {c}) /\ Dated(U \cup {c}, n + 1) /\ Worded(U \cup {c})
      /\ \A r \in U \cup {c} : c.id \notin r.anc
    <2>1. n + 1 \in Nat /\ n < n + 1 /\ (b = NoRev \/ b \in U)
        OBVIOUS
    <2> HIDE DEF U
    <2> QED BY <1>1, <2>1, PutGrows
<1>3. Own(L, R \cup {c})
    BY DEF Replicas, Own
<1>4. Parents(L, R \cup {c})
    <2>1. ASSUME NEW d \in L, d.anc = Past(c) PROVE FALSE
        BY <1>2, <2>1 DEF Past
    <2> QED BY <2>1 DEF Replicas, Parents
<1>5. L \cup (R \cup {c}) = U \cup {c}
    OBVIOUS
<1> QED BY <1>2, <1>3, <1>4, <1>5 DEF Replicas

\* This device puts one on a leaf of its replica.
LEMMA OwnPut ==
    ASSUME NEW L, NEW R, NEW n \in Nat, Replicas(L, R, n), NEW b, b = NoRev \/ b \in L,
           NEW m \in Nat, n < m,
           NEW c \in Rev(Texts), Follows(c, b), c.id = 2 * m
    PROVE  /\ Replicas(L \cup {c}, R, m)
           /\ \A r \in L \cup {c} : c.anc = Past(r) => r = b
<1> DEFINE U == L \cup R
<1>1. Tree(U) /\ Dated(U, n) /\ Worded(U)
    BY DEF Replicas
<1>2. Tree(U \cup {c}) /\ Dated(U \cup {c}, m) /\ Worded(U \cup {c})
      /\ \A r \in U \cup {c} : c.id \notin r.anc
    <2>1. b = NoRev \/ b \in U
        OBVIOUS
    <2> HIDE DEF U
    <2> QED BY <1>1, <2>1, PutGrows
<1>3. c.anc = IF b = NoRev THEN {} ELSE Past(b)
    BY DEF Follows
<1>4. Own(L \cup {c}, R)
    BY DEF Replicas, Own
<1>5. ASSUME NEW r \in U \cup {c}, c.anc = Past(r) PROVE r = b
    <2>1. b \in U /\ Past(b) = Past(r)
        BY <1>3, <1>5 DEF Past
    <2>2. r # c
        BY <1>2, <1>5 DEF Past
    <2> QED BY <1>1, <2>1, <2>2, PartIsTree
<1>6. ASSUME NEW d \in L PROVE d.anc # Past(c)
    BY <1>2 DEF Past
<1>7. Parents(L \cup {c}, R)
    <2>1. ASSUME NEW r \in U \cup {c}, c.anc = Past(r) PROVE r \in L
        BY <1>3, <1>5, <2>1 DEF Past
    <2> QED BY <1>6, <2>1 DEF Replicas, Parents
<1>8. (L \cup {c}) \cup R = U \cup {c}
    OBVIOUS
<1>9. Replicas(L \cup {c}, R, m)
    BY <1>2, <1>4, <1>7, <1>8 DEF Replicas
<1> QED BY <1>5, <1>9

\* It removes some of its leaves.
LEMMA OwnRemovals ==
    ASSUME NEW L, NEW R, NEW n \in Nat, Replicas(L, R, n), NEW S \in SUBSET Present(L)
    PROVE  /\ Replicas(WithoutLeaves(L, S), R, n)
           /\ \A r, c \in WithoutLeaves(L, S) :
                  c.anc = Past(r) => (r \in L /\ c \in L) \/ r \in S \/ r.state = "removed"
<1> DEFINE D == {Removal(r) : r \in S}
           U == L \cup R
<1>1. Tree(U) /\ Dated(U, n) /\ Worded(U) /\ S \in SUBSET U /\ (\A r \in S : r.state # "removed")
      /\ S \subseteq L
    BY Winners DEF Replicas
<1>2. Tree(U \cup D) /\ Dated(U \cup D, n)
    <2> HIDE DEF U
    <2> QED BY <1>1, LaterRemovals
<1>3. \A r \in S : /\ Removal(r).id = r.id + 1 /\ Removal(r).anc = Past(r)
                   /\ Removal(r).state = "removed" /\ Removal(r).text = NoText
                   /\ Removal(r).mine = TRUE
    BY RemovalFields
<1>4. Worded(U \cup D)
    BY <1>1, <1>3 DEF Worded
<1>5. \A r \in S : Removal(r) \in Rev(Texts)
    <2> SUFFICES ASSUME NEW r \in S PROVE Removal(r) \in Rev(Texts)
        OBVIOUS
    <2>1. r \in Rev(Texts)
        BY <1>1 DEF Replicas
    <2>2. r.id \in Int /\ r.anc \in SUBSET Int
        BY <2>1 DEF Rev
    <2> QED BY <2>2 DEF Removal, Rev
<1>6. WithoutLeaves(L, S) = L \cup D
    BY DEF WithoutLeaves
<1>7. ASSUME NEW x \in U \cup D, NEW y \in S, Removal(y).anc = Past(x)
      PROVE  x = y
    <2>1. y \in U \cup D /\ Past(y) = Past(x)
        BY <1>1, <1>3, <1>7
    <2> HIDE DEF U, D
    <2> QED BY <1>2, <2>1, PartIsTree
<1>8. Own(L \cup D, R)
    BY DEF Replicas, Own
<1>9. Parents(L \cup D, R)
    BY <1>1, <1>7 DEF Replicas, Parents
<1>10. (L \cup D) \cup R = U \cup D /\ L \cup D \subseteq Rev(Texts)
    BY <1>5 DEF Replicas
<1>11. Replicas(L \cup D, R, n)
    BY <1>2, <1>4, <1>8, <1>9, <1>10 DEF Replicas
<1>12. ASSUME NEW r \in L \cup D, NEW c \in L \cup D, c.anc = Past(r)
       PROVE  (r \in L /\ c \in L) \/ r \in S \/ r.state = "removed"
    BY <1>3, <1>7, <1>12
<1> QED BY <1>6, <1>11, <1>12

-----------------------------------------------------------------------------
(* The operations of this device.                                           *)

\* What is saved stays saved where a step adds a revision this device made.
LEMMA SavedLater ==
    ASSUME NEW L, NEW M, NEW V, NEW W, L \subseteq M, V \subseteq W, Saved(L, V),
           \A r, c \in M :
               r.state = "live" /\ ~r.mine /\ c.mine /\ c.anc = Past(r) /\ ~(r \in L /\ c \in L)
                   => r.text \in W \/ \E s \in M : s.id # r.id /\ s.text = r.text
    PROVE  Saved(M, W)
BY DEF Saved

LEMMA FileTyped == NoFile \in File
BY DEF NoFile, File

LEMMA UploadedReplicas ==
    ASSUME NEW L, NEW R, NEW n \in Nat, Replicas(L, R, n), NEW m \in Nat, n < m,
           NEW file \in File, file.text = NoText => file = NoFile, NEW V
    PROVE  /\ Replicas(Uploaded(file, L, m), R, m)
           /\ KeptByUpload(file, L) \subseteq Texts
           /\ Notes /\ Saved(L, V) => Saved(Uploaded(file, L, m), V \cup KeptByUpload(file, L))
<1>0. Winner(L).state = "live" => Winner(L) \in Present(L)
    BY Winners DEF IsLive
<1>1. CASE UploadResult(file, L) # "uploaded"
    <2>1. Uploaded(file, L, m) = L /\ KeptByUpload(file, L) = {}
        BY <1>1 DEF Uploaded, KeptByUpload
    <2>2. Replicas(L, R, m)
        BY ReplicasLater
    <2> QED BY <2>1, <2>2
<1>2. CASE UploadResult(file, L) = "uploaded"
    <2> DEFINE b == Base(L)
               c == Child(b, m, file.text, "live", TRUE, 0)
               K == KeptByUpload(file, L)
    <2>1. file.text \in Texts
        BY <1>2 DEF UploadResult, File
    <2>2. Uploaded(file, L, m) = L \cup {c}
        BY <1>2 DEF Uploaded, WithText
    <2>3. b = NoRev \/ b \in Leaves(L)
        BY Winners
    <2>4. /\ Replicas(L \cup {c}, R, m)
          /\ \A r \in L \cup {c} : c.anc = Past(r) => r = b
        <3>1. b = NoRev \/ b \in L
            BY <2>3 DEF Leaves
        <3>2. b = NoRev \/ b \in Rev(Texts)
            BY <3>1 DEF Replicas
        <3>3. c \in Rev(Texts)
            BY <2>1, <3>2 DEF Child, Rev
        <3>4. Follows(c, b) /\ c.id = 2 * m
            BY <2>1, FullSyncAssumption DEF Child, Follows, Past
        <3> HIDE DEF b, c
        <3> QED BY <3>1, <3>3, <3>4, OwnPut
    <2>5. c.mine = TRUE
        BY DEF Child
    <2>6. K \subseteq Texts
        <3>1. Winner(L).state = "live" => Winner(L).text \in Texts
            <4>1. \A r \in Present(L) : r \in L /\ r \in Rev(Texts)
                BY DEF Replicas, Present, Leaves
            <4> QED BY <1>0, <4>1 DEF Rev, Replicas, Worded
        <3> QED BY <2>1, <3>1 DEF KeptByUpload, Intervenes, IsLive
    <2>7. ASSUME Notes, Saved(L, V) PROVE Saved(L \cup {c}, V \cup K)
        <3>1. ASSUME NEW r \in L, r.state = "live", ~r.mine, c.anc = Past(r)
              PROVE  r.text \in K
            <4>1. r = b /\ r # NoRev
                BY <2>4, <3>1, Winners
            <4>2. r = Winner(L)
                BY <2>3, <3>1, <4>1, Winners
            <4> QED BY <1>2, <2>7, <3>1, <4>2 DEF KeptByUpload, Intervenes, IsLive
        <3> HIDE DEF c, K
        <3>2. \A r, d \in L \cup {c} :
                r.state = "live" /\ ~r.mine /\ d.mine /\ d.anc = Past(r) /\ ~(r \in L /\ d \in L)
                  => r.text \in V \cup K
            BY <2>5, <3>1
        <3> QED BY <2>7, <3>2, SavedLater
    <2> QED BY <2>2, <2>4, <2>6, <2>7
<1> QED BY <1>1, <1>2

LEMMA TombstonedReplicas ==
    ASSUME NEW L, NEW R, NEW n \in Nat, Replicas(L, R, n), NEW m \in Nat, n < m, NEW V
    PROVE  /\ Replicas(Tombstoned(L, m), R, m)
           /\ KeptByTombstone(L) \subseteq Texts
           /\ Notes /\ Saved(L, V) => Saved(Tombstoned(L, m), V \cup KeptByTombstone(L))
<1>1. CASE ~IsLive(L)
    <2>1. Tombstoned(L, m) = L /\ KeptByTombstone(L) = {}
        BY <1>1 DEF Tombstoned, KeptByTombstone
    <2>2. Replicas(L, R, m)
        BY ReplicasLater
    <2> QED BY <2>1, <2>2
<1>2. CASE IsLive(L)
    <2> DEFINE w == Winner(L)
               c == Child(w, m, w.text, "deleted", TRUE, m)
               T == L \cup {c}
               S == Conflicts(L)
               K == KeptByTombstone(L)
               M == WithoutLeaves(T, S)
    <2>1. w \in Present(L) /\ w \in L /\ w \in Rev(Texts) /\ w.text \in Texts \cup {NoText} /\ w # NoRev
        <3>1. w \in Present(L)
            BY <1>2, Winners
        <3>2. w \in L /\ w \in Rev(Texts)
            BY <3>1 DEF Present, Leaves, Replicas
        <3> HIDE DEF w
        <3> QED BY <3>1, <3>2, Winners DEF Rev
    <2>2. Tombstoned(L, m) = M
        BY <1>2 DEF Tombstoned, WithTombstone
    <2>3. /\ Replicas(T, R, m)
          /\ \A r \in T : c.anc = Past(r) => r = w
        <3>1. c \in Rev(Texts)
            <4> HIDE DEF w
            <4> QED BY <2>1 DEF Child, Rev
        <3>2. Follows(c, w) /\ c.id = 2 * m
            BY DEF Child, Follows, Past
        <3> HIDE DEF w, c
        <3> QED BY <2>1, <3>1, <3>2, OwnPut
    <2>4. c.mine = TRUE /\ c.state = "deleted" /\ c.anc = Past(w)
        BY <2>1 DEF Child, Past
    <2>5. \A r \in Present(L) : r.text # NoText /\ r.state # "removed"
                                   => r.text \in Texts
        BY DEF Present, Leaves, Replicas, Rev
    <2>6. S \in SUBSET Present(T)
        <3> SUFFICES ASSUME NEW r \in Present(L), r # w PROVE r \in Present(T)
            BY DEF Conflicts
        <3>1. r \in L /\ r.state # "removed" /\ \A d \in L : r.id \notin d.anc
            BY DEF Present, Leaves
        <3>2. r.id # w.id
            BY <2>1, <3>1 DEF Replicas, Tree, Identified
        <3>3. r.id \notin c.anc
            BY <2>1, <2>4, <3>1, <3>2 DEF Past
        <3> HIDE DEF c
        <3> QED BY <3>1, <3>3 DEF Present, Leaves
    <2>7. /\ Replicas(M, R, m)
          /\ \A r, d \in M : d.anc = Past(r) => (r \in T /\ d \in T) \/ r \in S \/ r.state = "removed"
        <3> HIDE DEF T, S
        <3> QED BY <2>3, <2>6, OwnRemovals
    <2>8. K \subseteq Texts
        <3>1. \A r \in Present(L) : r \in Rev(Texts)
            BY DEF Present, Leaves, Replicas
        <3> QED BY <3>1 DEF KeptByTombstone, Rev
    <2>9. ASSUME Notes, Saved(L, V) PROVE Saved(M, V \cup K)
        <3>1. ASSUME NEW r \in Present(L), r.state = "live" PROVE r.text \in K
            <4>1. r.text # NoText
                BY <3>1 DEF Present, Leaves, Replicas, Worded
            <4> QED BY <1>2, <2>9, <4>1 DEF KeptByTombstone
        <3>2. S \subseteq Present(L) /\ L \subseteq M
            BY DEF Conflicts, WithoutLeaves
        <3>3. ASSUME NEW r \in M, NEW d \in M, r.state = "live", ~r.mine, d.mine, d.anc = Past(r),
                     ~(r \in L /\ d \in L)
              PROVE  r.text \in K
            <4>1. (r \in T /\ d \in T) \/ r \in S
                BY <2>7, <3>3
            <4>2. r \in T /\ d \in T => r = w
                BY <2>3, <2>4, <3>3
            <4>3. r \in Present(L)
                BY <2>1, <3>2, <4>1, <4>2
            <4> QED BY <3>1, <3>3, <4>3
        <3> HIDE DEF K, M
        <3>4. \A r, d \in M :
                r.state = "live" /\ ~r.mine /\ d.mine /\ d.anc = Past(r) /\ ~(r \in L /\ d \in L)
                  => r.text \in V \cup K
            BY <3>3
        <3> QED BY <2>9, <3>2, <3>4, SavedLater
    <2> QED BY <2>2, <2>7, <2>8, <2>9
<1> QED BY <1>1, <1>2

\* Collapsing leaves with one text leaves the winner to show it.
LEMMA CollapsedReplicas ==
    ASSUME NEW L, NEW R, NEW n \in Nat, Replicas(L, R, n), IsLive(L),
           NEW text, \A r \in Present(L) : r.text = text, NEW V
    PROVE  /\ Replicas(WithoutLeaves(L, Conflicts(L)), R, n)
           /\ Saved(L, V) => Saved(WithoutLeaves(L, Conflicts(L)), V)
<1> DEFINE w == Winner(L)
           S == Conflicts(L)
           M == WithoutLeaves(L, S)
<1>1. w \in Present(L) /\ w \in L
    BY Winners DEF Present, Leaves
<1>2. S \in SUBSET Present(L) /\ L \subseteq M /\ w \notin S
    BY DEF Conflicts, WithoutLeaves
<1>3. /\ Replicas(M, R, n)
      /\ \A r, c \in M : c.anc = Past(r) => (r \in L /\ c \in L) \/ r \in S \/ r.state = "removed"
    <2> HIDE DEF S
    <2> QED BY <1>2, OwnRemovals
<1>4. ASSUME NEW r \in S PROVE w.id # r.id /\ w.text = r.text
    <2>1. r \in L /\ r # w
        BY <1>2 DEF Present, Leaves
    <2>2. r.text = text /\ w.text = text
        BY <1>1, <1>2
    <2> QED BY <1>1, <2>1, <2>2 DEF Replicas, Tree, Identified
<1> HIDE DEF w, S, M
<1>5. ASSUME Saved(L, V) PROVE Saved(M, V)
    <2>1. \A r, c \in M :
            r.state = "live" /\ ~r.mine /\ c.mine /\ c.anc = Past(r) /\ ~(r \in L /\ c \in L)
               => r.text \in V \/ \E s \in M : s.id # r.id /\ s.text = r.text
        <3> SUFFICES ASSUME NEW r \in S PROVE \E s \in M : s.id # r.id /\ s.text = r.text
            BY <1>3
        <3> QED BY <1>1, <1>2, <1>4
    <2> QED BY <1>2, <1>5, <2>1, SavedLater
<1> QED BY <1>3, <1>5 DEF w, S, M

LEMMA ExchangedReplicas ==
    ASSUME NEW L, NEW R, NEW n, Replicas(L, R, n), NEW V
    PROVE  /\ Replicas(L \cup R, R, n) /\ Replicas(L \cup R, L \cup R, n) /\ Replicas(L, L \cup R, n)
           /\ Saved(L, V) => Saved(L \cup R, V)
<1>1. (L \cup R) \cup R = L \cup R /\ (L \cup R) \cup (L \cup R) = L \cup R /\ L \cup (L \cup R) = L \cup R
    OBVIOUS
<1>2. Own(L \cup R, R) /\ Own(L \cup R, L \cup R) /\ Own(L, L \cup R)
    BY DEF Replicas, Own
<1>3. Parents(L \cup R, R) /\ Parents(L \cup R, L \cup R) /\ Parents(L, L \cup R)
    BY DEF Replicas, Parents
<1>4. \A r, c \in L \cup R : c.mine /\ c.anc = Past(r) => c \in L /\ r \in L
    BY DEF Replicas, Own, Parents
<1> QED BY <1>1, <1>2, <1>3, <1>4 DEF Replicas, Saved

-----------------------------------------------------------------------------
(* The databases at a step.                                                 *)

\* The effects on the databases that actions share.
Still == UNCHANGED <<local, remote, versions>> /\ clock' \in {clock, clock + 1}
Collapses(p) ==
    /\ IsLive(local[p]) /\ \E text : \A r \in Present(local[p]) : r.text = text
    /\ local' = [local EXCEPT ![p] = WithoutLeaves(@, Conflicts(@))]
    /\ UNCHANGED <<remote, versions>> /\ clock' \in {clock, clock + 1}
Exchanged ==
    LET all == [p \in Paths |-> local[p] \cup remote[p]]
    IN  /\ local' \in {local, all} /\ remote' \in {remote, all}
        /\ UNCHANGED <<versions, clock>>

LEMMA OnePath ==
    ASSUME Databases, UNCHANGED space, NEW p \in Paths, NEW L, NEW V \in SUBSET Texts,
           local' = [local EXCEPT ![p] = L], versions' = [versions EXCEPT ![p] = V],
           UNCHANGED remote, clock' \in Nat, clock <= clock',
           Replicas(L, remote[p], clock'), Notes => Saved(L, V)
    PROVE  Databases'
<1>1. L \in SUBSET Rev(Texts) /\ Notes' = Notes
    BY DEF Replicas, Notes
<1>2. local' \in [Paths -> SUBSET Rev(Texts)] /\ versions' \in [Paths -> SUBSET Texts]
      /\ remote' \in [Paths -> SUBSET Rev(Texts)]
    BY <1>1 DEF Databases
<1>3. ASSUME NEW q \in Paths
      PROVE  Replicas(local'[q], remote'[q], clock') /\ (Notes => Saved(local'[q], versions'[q]))
    <2>1. CASE q = p
        <3>1. local'[q] = L /\ versions'[q] = V /\ remote'[q] = remote[p]
            BY <2>1 DEF Databases
        <3> QED BY <3>1
    <2>2. CASE q # p
        <3>1. local'[q] = local[q] /\ versions'[q] = versions[q] /\ remote'[q] = remote[q]
            BY <2>2 DEF Databases
        <3>2. Replicas(local[q], remote[q], clock')
            BY ReplicasLater DEF Databases
        <3>3. Notes => Saved(local[q], versions[q])
            BY DEF Databases
        <3> QED BY <3>1, <3>2, <3>3
    <2> QED BY <2>1, <2>2
<1> QED BY <1>1, <1>2, <1>3 DEF Databases

LEMMA AfterStill ==
    ASSUME Databases, UNCHANGED space, Still PROVE Databases'
<1>1. clock' \in Nat /\ clock <= clock' /\ Notes' = Notes
    BY DEF Databases, Still, Notes
<1>2. \A p \in Paths : Replicas(local[p], remote[p], clock')
    BY <1>1, ReplicasLater DEF Databases
<1> QED BY <1>1, <1>2 DEF Databases, Still

LEMMA AfterUpload ==
    ASSUME Databases, Vault, UNCHANGED <<space, remote>>, NEW p \in Paths, Upload(p)
    PROVE  Databases'
<1> DEFINE L == Uploaded(vault[p], local[p], clock + 1)
           V == versions[p] \cup KeptByUpload(vault[p], local[p])
<1>1. /\ local' = [local EXCEPT ![p] = L] /\ versions' = [versions EXCEPT ![p] = V]
      /\ IF local' = local THEN clock' = clock ELSE clock' = clock + 1
    BY DEF Upload
<1>2. /\ Replicas(L, remote[p], clock + 1) /\ KeptByUpload(vault[p], local[p]) \subseteq Texts
      /\ Notes /\ Saved(local[p], versions[p]) => Saved(L, V)
    <2>1. clock + 1 \in Nat /\ clock < clock + 1 /\ vault[p] \in File
          /\ (vault[p].text = NoText => vault[p] = NoFile)
          /\ clock \in Nat /\ Replicas(local[p], remote[p], clock)
        BY DEF Databases, Vault
    <2> QED BY <2>1, UploadedReplicas
<1>3. V \in SUBSET Texts /\ (Notes => Saved(L, V))
    BY <1>2 DEF Databases
<1> HIDE DEF V
<1>4. CASE local' = local
    <2>1. L = local[p]
        BY <1>1, <1>4 DEF Databases
    <2>2. Replicas(L, remote[p], clock') /\ clock' \in Nat /\ clock <= clock'
        BY <1>1, <1>4, <2>1 DEF Databases
    <2> HIDE DEF L
    <2> QED BY <1>1, <1>3, <2>2, OnePath
<1>5. CASE local' # local
    <2>1. clock' = clock + 1 /\ clock' \in Nat /\ clock <= clock'
        BY <1>1, <1>5 DEF Databases
    <2> HIDE DEF L
    <2> QED BY <1>1, <1>2, <1>3, <2>1, OnePath
<1> QED BY <1>4, <1>5

LEMMA AfterTombstone ==
    ASSUME Databases, UNCHANGED <<space, remote>>, NEW p \in Paths, Tombstone(p)
    PROVE  Databases'
<1> DEFINE L == Tombstoned(local[p], clock + 1)
           V == versions[p] \cup KeptByTombstone(local[p])
<1>1. /\ local' = [local EXCEPT ![p] = L] /\ versions' = [versions EXCEPT ![p] = V]
      /\ IF local' = local THEN clock' = clock ELSE clock' = clock + 1
    BY DEF Tombstone
<1>2. /\ Replicas(L, remote[p], clock + 1) /\ KeptByTombstone(local[p]) \subseteq Texts
      /\ Notes /\ Saved(local[p], versions[p]) => Saved(L, V)
    <2>1. clock + 1 \in Nat /\ clock < clock + 1
          /\ clock \in Nat /\ Replicas(local[p], remote[p], clock)
        BY DEF Databases
    <2> QED BY <2>1, TombstonedReplicas
<1>3. V \in SUBSET Texts /\ (Notes => Saved(L, V))
    BY <1>2 DEF Databases
<1> HIDE DEF V
<1>4. CASE local' = local
    <2>1. L = local[p]
        BY <1>1, <1>4 DEF Databases
    <2>2. Replicas(L, remote[p], clock') /\ clock' \in Nat /\ clock <= clock'
        BY <1>1, <1>4, <2>1 DEF Databases
    <2> HIDE DEF L
    <2> QED BY <1>1, <1>3, <2>2, OnePath
<1>5. CASE local' # local
    <2>1. clock' = clock + 1 /\ clock' \in Nat /\ clock <= clock'
        BY <1>1, <1>5 DEF Databases
    <2> HIDE DEF L
    <2> QED BY <1>1, <1>2, <1>3, <2>1, OnePath
<1> QED BY <1>4, <1>5

LEMMA AfterCollapse ==
    ASSUME Databases, UNCHANGED space, NEW p \in Paths, Collapses(p)
    PROVE  Databases'
<1> DEFINE L == WithoutLeaves(local[p], Conflicts(local[p]))
           V == versions[p]
<1>1. PICK text : \A r \in Present(local[p]) : r.text = text
    BY DEF Collapses
<1>2. clock \in Nat /\ clock' \in Nat /\ clock <= clock' /\ Replicas(local[p], remote[p], clock)
      /\ IsLive(local[p])
    BY DEF Databases, Collapses
<1>3. Replicas(L, remote[p], clock) /\ (Saved(local[p], V) => Saved(L, V))
    BY <1>1, <1>2, CollapsedReplicas
<1>4. local' = [local EXCEPT ![p] = L] /\ versions' = [versions EXCEPT ![p] = V]
      /\ UNCHANGED remote /\ V \in SUBSET Texts /\ (Notes => Saved(local[p], V))
    BY DEF Collapses, Databases
<1> HIDE DEF L, V
<1>5. Replicas(L, remote[p], clock')
    BY <1>2, <1>3, ReplicasLater
<1> QED BY <1>2, <1>3, <1>4, <1>5, OnePath

LEMMA AfterExchange ==
    ASSUME Databases, UNCHANGED space, Exchanged
    PROVE  Databases'
<1> DEFINE all == [p \in Paths |-> local[p] \cup remote[p]]
<1>1. all \in [Paths -> SUBSET Rev(Texts)] /\ Notes' = Notes
    BY DEF Databases, Notes
<1>2. local' \in {local, all} /\ remote' \in {remote, all} /\ UNCHANGED <<versions, clock>>
    BY DEF Exchanged
<1>3. ASSUME NEW p \in Paths
      PROVE  Replicas(local'[p], remote'[p], clock) /\ (Notes => Saved(local'[p], versions[p]))
    <2>1. Replicas(local[p], remote[p], clock) /\ (Notes => Saved(local[p], versions[p]))
        BY DEF Databases
    <2>2. all[p] = local[p] \cup remote[p]
        OBVIOUS
    <2>3. /\ Replicas(all[p], remote[p], clock) /\ Replicas(all[p], all[p], clock)
          /\ Replicas(local[p], all[p], clock)
          /\ Notes => Saved(all[p], versions[p])
        BY <2>1, ExchangedReplicas
    <2>4. local'[p] = local[p] \/ local'[p] = all[p]
        BY <1>2
    <2>5. remote'[p] = remote[p] \/ remote'[p] = all[p]
        BY <1>2
    <2> HIDE DEF all
    <2> QED BY <2>1, <2>3, <2>4, <2>5
<1> HIDE DEF all
<1> QED BY <1>1, <1>2, <1>3 DEF Databases

LEMMA AfterOthers ==
    ASSUME Databases, NEW p \in Paths, NEW b, b = NoRev \/ b \in remote[p],
           NEW c \in Rev(Texts), Follows(c, b), ~c.mine,
           c.id \in {2 * (clock + 1), -2 * (clock + 1)}, RemoteWrites(p, remote[p] \cup {c})
    PROVE  Databases'
<1> DEFINE new == remote[p] \cup {c}
<1>1. /\ UNCHANGED <<space, local, versions>> /\ clock' = clock + 1
      /\ remote' = [remote EXCEPT ![p] = new]
    BY DEF RemoteWrites
<1>2. clock \in Nat /\ Replicas(local[p], remote[p], clock)
    BY DEF Databases
<1>3. Replicas(local[p], new, clock + 1)
    BY <1>2, OthersPut
<1>4. new \in SUBSET Rev(Texts)
    BY <1>3 DEF Replicas
<1> HIDE DEF new
<1>5. remote' \in [Paths -> SUBSET Rev(Texts)] /\ clock' \in Nat /\ Notes' = Notes
    BY <1>1, <1>2, <1>4 DEF Databases, Notes
<1>6. ASSUME NEW q \in Paths PROVE Replicas(local'[q], remote'[q], clock')
    <2>1. CASE q = p
        BY <1>1, <1>3, <2>1 DEF Databases
    <2>2. CASE q # p
        <3>1. remote'[q] = remote[q]
            BY <1>1, <2>2 DEF Databases
        <3>2. clock <= clock + 1 /\ clock + 1 \in Nat /\ Replicas(local[q], remote[q], clock)
            BY <1>2 DEF Databases
        <3>3. Replicas(local[q], remote[q], clock + 1)
            BY <1>2, <3>2, ReplicasLater
        <3> QED BY <1>1, <3>1, <3>3
    <2> QED BY <2>1, <2>2
<1> QED BY <1>1, <1>5, <1>6 DEF Databases

LEMMA AfterRename ==
    ASSUME Databases, Vault, NEW p \in Paths, NEW q \in Paths, Rename(p, q)
    PROVE  Databases'
<1> DEFINE L == Tombstoned(local[p], clock + 1)
           V == versions[p] \cup KeptByTombstone(local[p])
           M == Uploaded(vault[p], local[q], clock + 2)
           W == versions[q] \cup KeptByUpload(vault[p], local[q])
<1>0. p # q /\ UNCHANGED <<space, remote>> /\ Notes' = Notes
    BY DEF Rename, Notes
<1>1. CASE UNCHANGED <<local, versions, clock>>
    BY <1>0, <1>1, AfterStill DEF Still
<1>2. CASE ~UNCHANGED <<local, versions, clock>>
    <2>1. /\ local' = [local EXCEPT ![p] = Tombstoned(@, clock + 1),
                                    ![q] = Uploaded(vault[p], @, clock + 2)]
          /\ versions' = [versions EXCEPT ![p] = @ \cup KeptByTombstone(local[p]),
                                          ![q] = @ \cup KeptByUpload(vault[p], local[q])]
          /\ clock' = clock + 2
        BY <1>2 DEF Rename
    <2>2. /\ local' = [local EXCEPT ![p] = L, ![q] = M]
          /\ versions' = [versions EXCEPT ![p] = V, ![q] = W]
        BY <1>0, <2>1 DEF Databases
    <2>3. clock \in Nat /\ clock + 1 \in Nat /\ clock + 2 \in Nat /\ clock < clock + 1
          /\ clock < clock + 2 /\ clock + 1 <= clock + 2 /\ clock <= clock + 2
        BY DEF Databases
    <2>4. \A x \in Paths : Replicas(local[x], remote[x], clock)
                           /\ (Notes => Saved(local[x], versions[x])) /\ versions[x] \subseteq Texts
        BY DEF Databases
    <2>5. /\ Replicas(L, remote[p], clock + 1) /\ KeptByTombstone(local[p]) \subseteq Texts
          /\ Notes /\ Saved(local[p], versions[p]) => Saved(L, V)
        BY <2>3, <2>4, TombstonedReplicas
    <2>6. /\ Replicas(M, remote[q], clock + 2) /\ KeptByUpload(vault[p], local[q]) \subseteq Texts
          /\ Notes /\ Saved(local[q], versions[q]) => Saved(M, W)
        <3>1. vault[p] \in File /\ (vault[p].text = NoText => vault[p] = NoFile)
            BY DEF Vault
        <3> QED BY <2>3, <2>4, <3>1, UploadedReplicas
    <2>7. V \in SUBSET Texts /\ W \in SUBSET Texts /\ (Notes => Saved(L, V) /\ Saved(M, W))
        BY <2>4, <2>5, <2>6
    <2> HIDE DEF V, W, L, M
    <2>8. Replicas(L, remote[p], clock + 2)
        BY <2>3, <2>5, ReplicasLater
    <2>9. L \in SUBSET Rev(Texts) /\ M \in SUBSET Rev(Texts)
        BY <2>6, <2>8 DEF Replicas
    <2>10. /\ local' \in [Paths -> SUBSET Rev(Texts)] /\ versions' \in [Paths -> SUBSET Texts]
           /\ local'[p] = L /\ local'[q] = M /\ versions'[p] = V /\ versions'[q] = W
           /\ \A x \in Paths \ {p, q} : local'[x] = local[x] /\ versions'[x] = versions[x]
        BY <1>0, <2>2, <2>7, <2>9 DEF Databases
    <2>11. ASSUME NEW x \in Paths
           PROVE  Replicas(local'[x], remote[x], clock + 2)
                  /\ (Notes => Saved(local'[x], versions'[x]))
        <3>1. CASE x = p
            BY <2>7, <2>8, <2>10, <3>1
        <3>2. CASE x = q
            BY <2>6, <2>7, <2>10, <3>2
        <3>3. CASE x \notin {p, q}
            <4>1. Replicas(local[x], remote[x], clock + 2)
                BY <2>3, <2>4, ReplicasLater
            <4> QED BY <2>4, <2>10, <3>3, <4>1
        <3> QED BY <3>1, <3>2, <3>3
    <2> QED BY <1>0, <2>1, <2>3, <2>10, <2>11 DEF Databases
<1> QED BY <1>1, <1>2

\* Applying a document leaves the databases alone or collapses its leaves.
LEMMA ApplyEffect ==
    ASSUME NEW p \in Paths, NEW restoreMissing, Apply(p, restoreMissing), UNCHANGED <<remote, versions>>
    PROVE  Still \/ Collapses(p)
<1>1. clock' \in {clock, clock + 1}
    BY DEF Apply
<1>2. CASE UNCHANGED local
    BY <1>1, <1>2 DEF Still
<1>3. CASE ~UNCHANGED local
    <2>1. IsLive(local[p]) /\ \E live : Preserve(p, live)
        BY <1>3 DEF Apply, ApplyDeletion, ApplyLive
    <2>2. PICK live : Preserve(p, live)
        BY <2>1
    <2>3. {r \in Present(local[p]) : r.text # live} = {}
        BY <1>3, <2>2 DEF Preserve
    <2>4. local' = [local EXCEPT ![p] = WithoutLeaves(@, Conflicts(@))]
        BY <1>3, <2>2 DEF Preserve
    <2> QED BY <1>1, <2>1, <2>3, <2>4 DEF Collapses
<1> QED BY <1>2, <1>3

LEMMA NextSpace == Next => UNCHANGED space
BY DEF Next, Edit, RemoveFile, Rename, Flush, Feed, RemoteEdit, RemoteDelete, RemoteWrites, UploadNext,
       TombstoneNext, DownloadNext, Remap, Replicate, Begin, Pull, Trouble, Compare, Push, EndDown,
       Record, Stop

LEMMA RemoteEditStep ==
    ASSUME Databases, NEW p \in Paths, NEW text \in Texts, NEW id \in {clock + 1, -(clock + 1)},
           RemoteEdit(p, text, id)
    PROVE  Databases'
<1> DEFINE b == Base(remote[p])
           c == Child(b, id, text, "live", FALSE, 0)
<1>1. Replicas(local[p], remote[p], clock) /\ clock \in Nat /\ remote[p] \in SUBSET (local[p] \cup remote[p])
    BY DEF Databases
<1>2. b = NoRev \/ b \in remote[p]
    BY <1>1, Winners DEF Leaves
<1>3. b = NoRev \/ b \in Rev(Texts)
    BY <1>1, <1>2 DEF Replicas
<1>4. c \in Rev(Texts)
    <2> HIDE DEF b
    <2>1. id \in Int
        BY <1>1
    <2> QED BY <1>3, <2>1 DEF Child, Rev
<1>5. Follows(c, b) /\ c.id = 2 * id
    BY FullSyncAssumption DEF Child, Follows, Past
<1>6. c.mine = FALSE
    BY DEF Child
<1>7. RemoteWrites(p, remote[p] \cup {c})
    BY DEF RemoteEdit, WithText
<1> HIDE DEF b, c
<1>8. c.id \in {2 * (clock + 1), -2 * (clock + 1)}
    BY <1>1, <1>5
<1>9. ~c.mine
    BY <1>6
<1> QED BY <1>2, <1>4, <1>5, <1>7, <1>8, <1>9, AfterOthers

LEMMA RemoteDeleteStep ==
    ASSUME Databases, NEW p \in Paths, RemoteDelete(p)
    PROVE  Databases'
<1> DEFINE b == Winner(remote[p])
           c == Child(b, clock + 1, b.text, "deleted", FALSE, clock + 1)
<1>1. Replicas(local[p], remote[p], clock) /\ clock \in Nat /\ remote[p] \in SUBSET (local[p] \cup remote[p])
    BY DEF Databases
<1>2. b \in remote[p]
    BY <1>1, Winners DEF RemoteDelete
<1>3. b \in Rev(Texts)
    BY <1>1, <1>2 DEF Replicas
<1>4. c \in Rev(Texts)
    <2> HIDE DEF b
    <2> QED BY <1>1, <1>3 DEF Child, Rev
<1>5. Follows(c, b) /\ c.id = 2 * (clock + 1)
    BY DEF Child, Follows, Past
<1>6. c.mine = FALSE
    BY DEF Child
<1>7. RemoteWrites(p, remote[p] \cup {c})
    BY DEF RemoteDelete, WithTombstone
<1> HIDE DEF b, c
<1>8. ~c.mine
    BY <1>6
<1> QED BY <1>2, <1>4, <1>5, <1>7, <1>8, AfterOthers

LEMMA StepDatabases == Databases /\ Vault /\ [Next]_vars => Databases'
<1> SUFFICES ASSUME Databases, Vault, [Next]_vars PROVE Databases'
    OBVIOUS
<1>0. UNCHANGED space
    BY NextSpace DEF vars
<1>1. ASSUME NEW p \in Paths, NEW text \in Texts, Edit(p, text) PROVE Databases'
    BY <1>0, <1>1, AfterStill DEF Edit, dbVars, Still
<1>2. ASSUME NEW p \in Paths, RemoveFile(p) PROVE Databases'
    <2>1. CASE Tombstone(p)
        BY <1>0, <1>2, <2>1, AfterTombstone DEF RemoveFile
    <2>2. CASE ~Tombstone(p)
        <3>1. Still
            BY <1>2, <2>2 DEF RemoveFile, Still
        <3> QED BY <1>0, <3>1, AfterStill
    <2> QED BY <2>1, <2>2
<1>3. ASSUME NEW p \in Paths, Flush(p) PROVE Databases'
    <2>1. CASE Upload(p)
        BY <1>0, <1>3, <2>1, AfterUpload DEF Flush
    <2>2. CASE ~Upload(p)
        <3>1. Still
            BY <1>3, <2>2 DEF Flush, Still
        <3> QED BY <1>0, <3>1, AfterStill
    <2> QED BY <2>1, <2>2
<1>4. ASSUME NEW p \in Paths, Feed(p) PROVE Databases'
    <2>1. Still \/ Collapses(p)
        BY <1>4, ApplyEffect DEF Feed
    <2> QED BY <1>0, <2>1, AfterStill, AfterCollapse
<1>5. ASSUME NEW p \in Paths, DownloadNext(p) PROVE Databases'
    <2>1. Still \/ Collapses(p)
        BY <1>5, ApplyEffect DEF DownloadNext
    <2> QED BY <1>0, <2>1, AfterStill, AfterCollapse
<1>6. ASSUME NEW p \in Paths, UploadNext(p) PROVE Databases'
    <2>1. CASE Upload(p)
        BY <1>0, <1>6, <2>1, AfterUpload DEF UploadNext
    <2>2. CASE ~Upload(p)
        <3>1. Still
            BY <1>6, <2>2 DEF UploadNext, ApplyDeletion, Still
        <3> QED BY <1>0, <3>1, AfterStill
    <2> QED BY <2>1, <2>2
<1>7. ASSUME NEW p \in Paths, TombstoneNext(p) PROVE Databases'
    BY <1>0, <1>7, AfterTombstone DEF TombstoneNext
<1>8. CASE Replicate \/ Pull \/ Push
    <2>1. Exchanged
        BY <1>8 DEF Replicate, Pull, Push, PullAll, PushAll, Exchanged
    <2> QED BY <1>0, <2>1, AfterExchange
<1>9. CASE UNCHANGED vars \/ Remap \/ Trouble \/ Compare \/ EndDown \/ Record \/ Stop
           \/ \E dir \in {"start", "both", "up", "down"} : Begin(dir)
    <2>1. Still
        BY <1>9 DEF vars, Remap, Trouble, Compare, EndDown, Record, Stop, Begin, dbVars, Still
    <2> QED BY <1>0, <2>1, AfterStill
<1> QED BY <1>1, <1>2, <1>3, <1>4, <1>5, <1>6, <1>7, <1>8, <1>9, AfterRename, RemoteEditStep,
           RemoteDeleteStep DEF Next

-----------------------------------------------------------------------------
(* The vault at a step.                                                     *)

\* A live document has a text.
LEMMA LiveText ==
    ASSUME Databases, NEW p \in Paths, IsLive(local[p])
    PROVE  Doc(p).text \in Texts
<1>1. Replicas(local[p], remote[p], clock) /\ clock \in Nat /\ local[p] \in SUBSET (local[p] \cup remote[p])
    BY DEF Databases
<1>2. Doc(p) \in local[p] /\ Doc(p).state = "live"
    BY <1>1, Winners DEF Doc, IsLive
<1>3. Doc(p) \in Rev(Texts) /\ Doc(p).text # NoText
    BY <1>1, <1>2 DEF Replicas, Worded
<1> QED BY <1>3 DEF Rev

LEMMA Written ==
    ASSUME Databases, Vault, NEW p \in Paths, NEW text \in Texts, WriteFile(p, text)
    PROVE  vault' \in [Paths -> File] /\ \A q \in Paths : vault'[q].text = NoText => vault'[q] = NoFile
<1> DEFINE f == [text |-> text, at |-> clock + 1]
<1>1. f \in File /\ f.text # NoText
    BY FullSyncAssumption DEF Databases, File
<1>2. vault' = [vault EXCEPT ![p] = f]
    BY DEF WriteFile
<1> HIDE DEF f
<1> QED BY <1>1, <1>2 DEF Vault

LEMMA Erased ==
    ASSUME Vault, NEW p \in Paths, vault' = [vault EXCEPT ![p] = NoFile]
    PROVE  vault' \in [Paths -> File] /\ \A q \in Paths : vault'[q].text = NoText => vault'[q] = NoFile
BY FileTyped DEF Vault

\* The history variables keep their types.
LEMMA HistoryTyped ==
    ASSUME Vault, vault' \in [Paths -> File]
    PROVE  /\ FilesWritten => /\ gone' \subseteq Paths /\ had' \in [Paths -> SUBSET Texts]
                              /\ owed' \in [Paths -> {"no", "yes", "troubled", "retry"}]
           /\ \A p \in Paths : Vanish(p) =>
                  /\ gone' \subseteq Paths /\ had' \in [Paths -> SUBSET Texts]
                  /\ owed' \in [Paths -> {"no", "yes", "troubled", "retry"}]
<1>1. \A q \in Paths : had[q] \cup ({vault'[q].text} \ {NoText}) \in SUBSET Texts
    BY DEF Vault, File
<1>2. ASSUME FilesWritten
      PROVE  /\ gone' \subseteq Paths /\ had' \in [Paths -> SUBSET Texts]
             /\ owed' \in [Paths -> {"no", "yes", "troubled", "retry"}]
    BY <1>1, <1>2 DEF FilesWritten, Vault
<1>3. ASSUME NEW p \in Paths, Vanish(p)
      PROVE  /\ gone' \subseteq Paths /\ had' \in [Paths -> SUBSET Texts]
             /\ owed' \in [Paths -> {"no", "yes", "troubled", "retry"}]
    BY <1>1, <1>3 DEF Vanish, Vault
<1> QED BY <1>2, <1>3

LEMMA CopyTyped ==
    ASSUME Databases, Vault, NEW p \in Paths
    PROVE  /\ DropCopy(p) => copy' \in [Paths -> Texts \cup {NoText}]
           /\ \A live : IsLive(local[p]) /\ Preserve(p, live) => copy' \in [Paths -> Texts \cup {NoText}]
<1>1. DropCopy(p) => copy' \in [Paths -> Texts \cup {NoText}]
    BY DEF DropCopy, Vault
<1>2. ASSUME NEW live, IsLive(local[p]), Preserve(p, live)
      PROVE  copy' \in [Paths -> Texts \cup {NoText}]
    <2>1. \A r \in Present(local[p]) : r.text \in Texts \cup {NoText}
        BY DEF Present, Leaves, Databases, Rev
    <2>2. Doc(p).text \in Texts
        BY <1>2, LiveText
    <2>3. \A t \in Texts \cup {NoText} :
            copy' = [copy EXCEPT ![p] = t] => copy' \in [Paths -> Texts \cup {NoText}]
        BY DEF Vault
    <2>4. DropCopy(p) \/ \E t \in Texts \cup {NoText} : copy' = [copy EXCEPT ![p] = t]
        BY <1>2, <2>1, <2>2 DEF Preserve
    <2> QED BY <1>1, <2>3, <2>4
<1> QED BY <1>1, <1>2

\* A document applied to the vault, with what it brings to the lists.
LEMMA AppliedVault ==
    ASSUME Databases, Vault, NEW p \in Paths,
           ApplyDeletion(p) \/ \E restoreMissing \in BOOLEAN : ApplyLive(p, restoreMissing)
    PROVE  /\ vault' \in [Paths -> File]
           /\ \A q \in Paths : vault'[q].text = NoText => vault'[q] = NoFile
           /\ copy' \in [Paths -> Texts \cup {NoText}]
           /\ queue' = queue \/ queue' = queue \cup {p}
<1> DEFINE Good ==
        vault' \in [Paths -> File] /\ \A q \in Paths : vault'[q].text = NoText => vault'[q] = NoFile
<1>1. UNCHANGED vault => Good
    BY DEF Vault
<1>2. CASE ApplyDeletion(p)
    <2>1. vault' = vault \/ vault' = [vault EXCEPT ![p] = NoFile]
        BY <1>2 DEF ApplyDeletion
    <2>2. copy' = copy \/ DropCopy(p)
        BY <1>2 DEF ApplyDeletion
    <2>3. queue' = queue \/ queue' = queue \cup {p}
        BY <1>2 DEF ApplyDeletion
    <2>4. Good
        BY <1>1, <2>1, Erased
    <2>5. copy' \in [Paths -> Texts \cup {NoText}]
        BY <2>2, CopyTyped DEF Vault
    <2> QED BY <2>3, <2>4, <2>5
<1>3. ASSUME NEW restoreMissing \in BOOLEAN, ApplyLive(p, restoreMissing)
      PROVE  Good /\ copy' \in [Paths -> Texts \cup {NoText}] /\ queue' = queue
    <2>1. IsLive(local[p]) /\ queue' = queue
        BY <1>3 DEF ApplyLive
    <2>2. vault' = vault \/ WriteFile(p, Doc(p).text)
        BY <1>3 DEF ApplyLive
    <2>3. copy' = copy \/ DropCopy(p) \/ \E live : Preserve(p, live)
        BY <1>3 DEF ApplyLive
    <2>4. Good
        BY <1>1, <2>1, <2>2, LiveText, Written
    <2>5. copy' \in [Paths -> Texts \cup {NoText}]
        BY <2>1, <2>3, CopyTyped DEF Vault
    <2> QED BY <2>1, <2>4, <2>5
<1> QED BY <1>2, <1>3

LEMMA UploadedCopy ==
    ASSUME Databases, Vault, NEW p \in Paths, NEW q \in Paths,
           copy' = (IF ~Notes /\ Intervenes(vault[q], local[p])
                    THEN [copy EXCEPT ![p] = Doc(p).text] ELSE copy)
    PROVE  copy' \in [Paths -> Texts \cup {NoText}]
<1>1. CASE ~Notes /\ Intervenes(vault[q], local[p])
    <2>1. Doc(p).text \in Texts
        BY <1>1, LiveText DEF Intervenes
    <2> QED BY <1>1, <2>1 DEF Vault
<1>2. CASE ~(~Notes /\ Intervenes(vault[q], local[p]))
    BY <1>2 DEF Vault
<1> QED BY <1>1, <1>2

\* The vault of a step that writes files, or removes some, and says so.
LEMMA VaultLater ==
    ASSUME Vault, UNCHANGED <<space, root>>,
           vault' \in [Paths -> File], \A q \in Paths : vault'[q].text = NoText => vault'[q] = NoFile,
           copy' \in [Paths -> Texts \cup {NoText}],
           FilesWritten \/ UNCHANGED history \/ \E p \in Paths : Vanish(p)
    PROVE  Vault'
<1>1. gone' \subseteq Paths /\ had' \in [Paths -> SUBSET Texts]
      /\ owed' \in [Paths -> {"no", "yes", "troubled", "retry"}]
    BY HistoryTyped DEF Vault, history
<1> QED BY <1>1 DEF Vault

LEMMA RenameVault ==
    ASSUME Databases, Vault, NEW p \in Paths, NEW q \in Paths, Rename(p, q)
    PROVE  Vault'
<1>1. vault' = [vault EXCEPT ![p] = NoFile, ![q] = vault[p]] /\ vault[p] # NoFile /\ Vanish(p)
    BY DEF Rename
<1>2. vault' \in [Paths -> File] /\ \A x \in Paths : vault'[x].text = NoText => vault'[x] = NoFile
    BY <1>1, FileTyped DEF Vault
<1>3. \/ copy' = copy
      \/ copy' = (IF ~Notes /\ Intervenes(vault[p], local[q])
                  THEN [copy EXCEPT ![q] = Doc(q).text] ELSE copy)
    BY DEF Rename
<1>4. copy' \in [Paths -> Texts \cup {NoText}]
    BY <1>3, UploadedCopy DEF Vault
<1>5. UNCHANGED <<space, root>>
    BY DEF Rename
<1> QED BY <1>1, <1>2, <1>4, <1>5, VaultLater

LEMMA FlushVault ==
    ASSUME Databases, Vault, NEW p \in Paths, Flush(p)
    PROVE  Vault'
<1>0. UNCHANGED <<space, root>>
    BY DEF Flush
<1>1. CASE Upload(p) /\ NoFileWritten
    <2>1. UNCHANGED <<vault, history>>
        BY <1>1 DEF NoFileWritten
    <2>2. copy' \in [Paths -> Texts \cup {NoText}]
        BY <1>1, UploadedCopy DEF Upload, Doc
    <2>3. vault' \in [Paths -> File] /\ \A q \in Paths : vault'[q].text = NoText => vault'[q] = NoFile
        BY <2>1 DEF Vault
    <2> QED BY <1>0, <2>1, <2>2, <2>3, VaultLater
<1>2. CASE ~(Upload(p) /\ NoFileWritten)
    <2>1. FilesWritten /\ UNCHANGED copy
        BY <1>2 DEF Flush
    <2>2. \/ IsLive(local[p]) /\ WriteFile(p, Doc(p).text)
          \/ vault' = [vault EXCEPT ![p] = NoFile]
        BY <1>2 DEF Flush
    <2>3. vault' \in [Paths -> File] /\ \A q \in Paths : vault'[q].text = NoText => vault'[q] = NoFile
        BY <2>2, LiveText, Written, Erased
    <2>4. copy' \in [Paths -> Texts \cup {NoText}]
        BY <2>1 DEF Vault
    <2> QED BY <1>0, <2>1, <2>3, <2>4, VaultLater
<1> QED BY <1>1, <1>2

LEMMA UploadNextVault ==
    ASSUME Databases, Vault, NEW p \in Paths, UploadNext(p)
    PROVE  Vault'
<1>0. UNCHANGED <<space, root>>
    BY DEF UploadNext
<1>1. CASE StatMatches(p)
    <2>1. UNCHANGED <<vaultVars, history>>
        BY <1>1 DEF UploadNext
    <2> QED BY <1>0, <2>1 DEF Vault, vaultVars, history
<1>2. CASE Upload(p) /\ NoFileWritten
    <2>1. UNCHANGED <<vault, history>>
        BY <1>2 DEF NoFileWritten
    <2>2. copy' \in [Paths -> Texts \cup {NoText}]
        BY <1>2, UploadedCopy DEF Upload, Doc
    <2>3. vault' \in [Paths -> File] /\ \A q \in Paths : vault'[q].text = NoText => vault'[q] = NoFile
        BY <2>1 DEF Vault
    <2> QED BY <1>0, <2>1, <2>2, <2>3, VaultLater
<1>3. CASE ApplyDeletion(p) /\ FilesWritten
    BY <1>0, <1>3, AppliedVault, VaultLater
<1> QED BY <1>1, <1>2, <1>3 DEF UploadNext

LEMMA StepVault == Databases /\ Vault /\ [Next]_vars => Vault'
<1> SUFFICES ASSUME Databases, Vault, [Next]_vars PROVE Vault'
    OBVIOUS
<1>1. ASSUME NEW p \in Paths, NEW text \in Texts, Edit(p, text) PROVE Vault'
    <2>1. WriteFile(p, text) /\ FilesWritten /\ UNCHANGED <<space, root, copy>>
        BY <1>1 DEF Edit
    <2>2. copy' \in [Paths -> Texts \cup {NoText}]
        BY <2>1 DEF Vault
    <2> QED BY <2>1, <2>2, Written, VaultLater
<1>2. ASSUME NEW p \in Paths, RemoveFile(p) PROVE Vault'
    <2>1. vault' = [vault EXCEPT ![p] = NoFile] /\ Vanish(p) /\ UNCHANGED <<space, root, copy>>
        BY <1>2 DEF RemoveFile
    <2>2. copy' \in [Paths -> Texts \cup {NoText}]
        BY <2>1 DEF Vault
    <2> QED BY <2>1, <2>2, Erased, VaultLater
<1>3. ASSUME NEW p \in Paths, Feed(p) \/ DownloadNext(p) PROVE Vault'
    <2>1. UNCHANGED <<space, root>>
        BY <1>3 DEF Feed, DownloadNext
    <2>2. \E restoreMissing \in BOOLEAN : Apply(p, restoreMissing)
        BY <1>3 DEF Feed, DownloadNext
    <2>3. (ApplyDeletion(p) \/ \E restoreMissing \in BOOLEAN : ApplyLive(p, restoreMissing)) /\ FilesWritten
        BY <2>2 DEF Apply
    <2> QED BY <2>1, <2>3, AppliedVault, VaultLater
<1>4. CASE Remap
    BY <1>4, FileTyped DEF Remap, Vault, File, NoFile
<1>5. CASE Trouble
    BY <1>5 DEF Trouble, Vault, vaultVars
<1>6. CASE Compare
    BY <1>6 DEF Compare, Vault, vaultVars
<1>7. CASE Record
    BY <1>7 DEF Record, Vault, vaultVars
<1>8. ASSUME NEW p \in Paths,
             \/ \E text \in Texts, id \in {clock + 1, -(clock + 1)} : RemoteEdit(p, text, id)
             \/ RemoteDelete(p) \/ TombstoneNext(p)
      PROVE  Vault'
    <2>1. UNCHANGED <<space, root, vaultVars, history>>
        BY <1>8 DEF RemoteEdit, RemoteDelete, RemoteWrites, TombstoneNext
    <2> QED BY <2>1 DEF Vault, vaultVars, history
<1>9. CASE UNCHANGED vars \/ Replicate \/ Pull \/ Push \/ EndDown \/ Stop
           \/ \E dir \in {"start", "both", "up", "down"} : Begin(dir)
    <2>1. UNCHANGED <<space, root, vaultVars, history>>
        BY <1>9 DEF vars, Replicate, Pull, Push, EndDown, Stop, Begin
    <2> QED BY <2>1 DEF Vault, vaultVars, history
<1> QED BY <1>1, <1>2, <1>3, <1>4, <1>5, <1>6, <1>7, <1>8, <1>9, RenameVault, FlushVault, UploadNextVault
       DEF Next

-----------------------------------------------------------------------------
(* The synchronisation at a step.                                           *)

\* The run goes on, with another step or other paths to visit.
LEMMA SyncLater ==
    ASSUME Control, sync'.dir = sync.dir, sync'.step \in Step, sync'.todo \in SUBSET Paths,
           sync' = [sync EXCEPT !.step = sync'.step, !.todo = sync'.todo]
    PROVE  /\ sync' = [dir |-> sync'.dir, step |-> sync'.step, base |-> sync'.base, todo |-> sync'.todo]
           /\ sync'.dir \in Dir /\ sync'.step \in Step /\ sync'.todo \subseteq Paths
<1>1. sync = [dir |-> sync.dir, step |-> sync.step, base |-> sync.base, todo |-> sync.todo]
    BY DEF Control
<1>2. sync' = [dir |-> sync.dir, step |-> sync'.step, base |-> sync.base, todo |-> sync'.todo]
    BY <1>1
<1> QED BY <1>2 DEF Control

LEMMA DoneLater ==
    ASSUME Control, NEW p \in Paths, Done(p)
    PROVE  /\ sync' = [dir |-> sync'.dir, step |-> sync'.step, base |-> sync'.base, todo |-> sync'.todo]
           /\ sync'.dir \in Dir /\ sync'.step \in Step /\ sync'.todo \subseteq Paths
<1>1. sync = [dir |-> sync.dir, step |-> sync.step, base |-> sync.base, todo |-> sync.todo]
    BY DEF Control
<1>2. sync' = [dir |-> sync.dir, step |-> sync.step, base |-> sync.base, todo |-> sync.todo \ {p}]
    BY <1>1 DEF Done
<1> QED BY <1>2 DEF Control

LEMMA StepsTyped ==
    ASSUME NEW dir
    PROVE  /\ FirstStep(dir) \in Step /\ StepAfterFailure(dir) \in Step
           /\ StepAfter(dir, "pull") \in Step /\ StepAfter(dir, "push") \in Step
BY DEF FirstStep, StepAfter, StepAfterFailure, Step

LEMMA StepControl == Databases /\ Vault /\ Control /\ [Next]_vars => Control'
<1> SUFFICES ASSUME Databases, Vault, Control, [Next]_vars PROVE Control'
    OBVIOUS
<1> DEFINE Running ==
        /\ sync' = [dir |-> sync'.dir, step |-> sync'.step, base |-> sync'.base, todo |-> sync'.todo]
        /\ sync'.dir \in Dir /\ sync'.step \in Step /\ sync'.todo \subseteq Paths
<1>0. UNCHANGED sync => Running
    BY DEF Control
<1>1. ASSUME NEW p \in Paths, NEW text \in Texts, Edit(p, text) PROVE Control'
    BY <1>1 DEF Edit, dbVars, Control
<1>2. ASSUME NEW p \in Paths, RemoveFile(p) PROVE Control'
    BY <1>2 DEF RemoveFile, Tombstone, Changed, Control
<1>3. ASSUME NEW p \in Paths, NEW q \in Paths, Rename(p, q) PROVE Control'
    BY <1>3 DEF Rename, Changed, Control
<1>4. ASSUME NEW p \in Paths, Flush(p) PROVE Control'
    BY <1>4 DEF Flush, Upload, Changed, Control
<1>5. ASSUME NEW p \in Paths, Feed(p) PROVE Control'
    <2>1. \E restoreMissing \in BOOLEAN : Apply(p, restoreMissing)
        BY <1>5 DEF Feed
    <2>2. queue' = queue \/ queue' = queue \cup {p}
        BY <2>1, AppliedVault DEF Apply
    <2>3. UNCHANGED <<manifest, pending, phase, sync>> /\ unread' \in {unread, unread \ {p}}
        BY <1>5 DEF Feed
    <2> QED BY <2>2, <2>3 DEF Control
<1>6. ASSUME NEW p \in Paths,
             \/ \E text \in Texts, id \in {clock + 1, -(clock + 1)} : RemoteEdit(p, text, id)
             \/ RemoteDelete(p)
      PROVE  Control'
    BY <1>6 DEF RemoteEdit, RemoteDelete, RemoteWrites, Control
<1>7. ASSUME NEW p \in Paths, UploadNext(p) PROVE Control'
    <2>1. Running
        BY <1>7, DoneLater DEF UploadNext
    <2>2. UNCHANGED <<manifest, pending, phase>>
        BY <1>7 DEF UploadNext
    <2>3. unread' = unread \/ unread' = unread \cup {p}
        BY <1>7 DEF UploadNext, Upload, Changed
    <2>4. queue' = queue \/ queue' = queue \cup {p}
        BY <1>7, AppliedVault DEF UploadNext
    <2> QED BY <2>1, <2>2, <2>3, <2>4 DEF Control
<1>8. ASSUME NEW p \in Paths, TombstoneNext(p) PROVE Control'
    <2>1. Running
        BY <1>8, DoneLater DEF TombstoneNext
    <2>2. UNCHANGED <<manifest, pending, phase, queue>>
        BY <1>8 DEF TombstoneNext
    <2>3. unread' = unread \/ unread' = unread \cup {p}
        BY <1>8 DEF TombstoneNext, Tombstone, Changed
    <2> QED BY <2>1, <2>2, <2>3 DEF Control
<1>9. ASSUME NEW p \in Paths, DownloadNext(p) PROVE Control'
    <2>1. Running
        BY <1>9, DoneLater DEF DownloadNext
    <2>2. UNCHANGED <<manifest, pending, phase>>
        BY <1>9 DEF DownloadNext
    <2>3. unread' = unread \/ unread' = unread \cup {p}
        BY <1>9 DEF DownloadNext, Changed
    <2>4. Apply(p, TRUE)
        BY <1>9 DEF DownloadNext
    <2>5. ApplyDeletion(p) \/ \E restoreMissing \in BOOLEAN : ApplyLive(p, restoreMissing)
        BY <2>4 DEF Apply
    <2>6. queue' = queue \/ queue' = queue \cup {p}
        BY <2>5, AppliedVault
    <2> QED BY <2>1, <2>2, <2>3, <2>6 DEF Control
<1>10. CASE Remap
    BY <1>10 DEF Remap, dbVars, Control
<1>11. CASE Replicate
    BY <1>11 DEF Replicate, PullAll, Changed, Received, Control
<1>12. ASSUME NEW dir \in {"start", "both", "up", "down"}, Begin(dir) PROVE Control'
    <2> DEFINE todo == IF dir = "down" \/ ReadOnly THEN {} ELSE Files
    <2>1. sync' = [dir |-> dir, step |-> FirstStep(dir), base |-> manifest, todo |-> todo]
        BY <1>12 DEF Begin
    <2>2. todo \subseteq Paths
        BY DEF Files
    <2> HIDE DEF todo
    <2>3. Running
        BY <2>1, <2>2, StepsTyped DEF Dir
    <2>4. UNCHANGED <<manifest, pending, unread, queue>> /\ phase' \in {phase, "starting"}
        BY <1>12 DEF Begin, dbVars
    <2> QED BY <2>3, <2>4 DEF Control
<1>13. ASSUME NEW step \in Step, Goto(step) PROVE Running
    <2> DEFINE todo == IF step = "download" THEN {p \in Paths : Present(local'[p]) # {}} ELSE {}
    <2>1. sync' = [sync EXCEPT !.step = step, !.todo = todo]
        BY <1>13 DEF Goto
    <2>2. todo \in SUBSET Paths
        OBVIOUS
    <2> HIDE DEF todo
    <2>3. sync = [dir |-> sync.dir, step |-> sync.step, base |-> sync.base, todo |-> sync.todo]
        BY DEF Control
    <2>4. sync'.dir = sync.dir /\ sync'.step = step /\ sync'.todo = todo
        BY <2>1, <2>3
    <2> QED BY <1>13, <2>1, <2>2, <2>4, SyncLater
<1>14. CASE Pull \/ Trouble \/ Push
    <2>1. Running
        BY <1>13, <1>14, StepsTyped DEF Pull, Trouble, Push
    <2>2. UNCHANGED <<manifest, pending, phase, queue>> /\ unread' \subseteq unread \cup Paths
        BY <1>14 DEF Pull, Trouble, Push, PullAll, Changed, Received
    <2> QED BY <2>1, <2>2 DEF Control
<1>15. CASE Compare
    <2> DEFINE todo == sync'.todo
    <2>0. sync = [dir |-> sync.dir, step |-> sync.step, base |-> sync.base, todo |-> sync.todo]
        BY DEF Control
    <2>1. sync' = [sync EXCEPT !.step = "tombstone", !.todo = todo]
        BY <1>15, <2>0 DEF Compare
    <2>4. todo \in SUBSET Paths
        BY <1>15, <2>0 DEF Compare
    <2> HIDE DEF todo
    <2>5. "tombstone" \in Step
        BY DEF Step
    <2>6. sync'.dir = sync.dir /\ sync'.step = "tombstone" /\ sync'.todo = todo
        BY <1>15, <2>0 DEF Compare, todo
    <2>2. Running
        BY <2>1, <2>4, <2>5, <2>6, SyncLater
    <2>3. UNCHANGED <<manifest, pending, phase, unread>> /\ queue' \subseteq queue \cup Paths
        BY <1>15 DEF Compare
    <2> QED BY <2>2, <2>3 DEF Control
<1>16. ASSUME sync' = Idle PROVE Running
    BY <1>16 DEF Idle, Dir, Step
<1>17. CASE EndDown \/ Stop
    <2>1. Running
        BY <1>16, <1>17 DEF EndDown, Stop
    <2>2. UNCHANGED <<manifest, unread, queue>> /\ phase' \in {phase, "off"} /\ pending' \in {pending, {}}
        BY <1>17 DEF EndDown, Stop, dbVars
    <2> QED BY <2>1, <2>2 DEF Control
<1>18. CASE Record
    <2>1. Running
        BY <1>16, <1>18 DEF Record
    <2>2. UNCHANGED <<pending, unread, queue>> /\ phase' = "on"
          /\ manifest' = [root |-> root, entry |-> [p \in Paths |-> VerifiedEntry(p)]]
        BY <1>18 DEF Record, dbVars
    <2>3. manifest'.root \in 0..2 /\ DOMAIN manifest'.entry = Paths
        BY <2>2 DEF Vault
    <2> QED BY <2>1, <2>2, <2>3 DEF Control
<1>19. CASE UNCHANGED vars
    BY <1>19 DEF vars, dbVars, Control
<1> QED BY <1>1, <1>2, <1>3, <1>4, <1>5, <1>6, <1>7, <1>8, <1>9, <1>10, <1>11, <1>12, <1>14, <1>15,
           <1>17, <1>18, <1>19 DEF Next

-----------------------------------------------------------------------------
(* The beginning.                                                           *)

LEMMA FirstRevision ==
    ASSUME NEW text \in Texts
    PROVE  /\ FirstRev(text) \in Rev(Texts) /\ FirstRev(text).id = 2 /\ FirstRev(text).anc = {}
           /\ FirstRev(text).state = "live" /\ FirstRev(text).text = text /\ FirstRev(text).mine = FALSE
BY DEF FirstRev, Child, Rev, NoRev

\* Nothing, or one revision of another device, here or on the server or on both.
LEMMA FirstReplicas ==
    ASSUME NEW text \in Texts, NEW L, NEW R,
           L = {} \/ L = {FirstRev(text)}, R = {} \/ R = {FirstRev(text)}
    PROVE  Replicas(L, R, 1) /\ \A V : Saved(L, V)
<1> DEFINE r == FirstRev(text)
<1>1. r \in Rev(Texts) /\ r.id = 2 /\ r.anc = {} /\ r.state = "live" /\ r.text = text /\ r.mine = FALSE
    BY FirstRevision
<1>2. L = {} \/ L = {r}
    OBVIOUS
<1>3. R = {} \/ R = {r}
    OBVIOUS
<1> HIDE DEF r
<1>4. text # NoText
    BY FullSyncAssumption
<1>5. L \subseteq Rev(Texts) /\ R \subseteq Rev(Texts)
    BY <1>1, <1>2, <1>3
<1>6. \A c \in L \cup R : c = r /\ ~c.mine
    BY <1>1, <1>2, <1>3
<1>7. Identified(L \cup R) /\ Descending(L \cup R) /\ Rooted(L \cup R)
    BY <1>1, <1>6 DEF Identified, Descending, Rooted
<1>8. Acyclic(L \cup R) /\ Removing(L \cup R)
    BY <1>1, <1>6 DEF Acyclic, Removing
<1>9. Numbered(L \cup R)
    <2>1. r.id = 2 * 1 + (IF r.state = "removed" THEN 1 ELSE 0)
        BY <1>1
    <2> QED BY <1>1, <1>6, <2>1 DEF Numbered
<1>10. Dated(L \cup R, 1)
    <2>1. Past(r) = {2} /\ 2 \in (-2 * 1)..(2 * 1 + 1)
        BY <1>1 DEF Past
    <2> QED BY <1>6, <2>1 DEF Dated
<1>11. Worded(L \cup R)
    BY <1>1, <1>4, <1>6 DEF Worded
<1>12. Own(L, R) /\ Parents(L, R) /\ \A V : Saved(L, V)
    BY <1>6 DEF Own, Parents, Saved
<1> QED BY <1>5, <1>7, <1>8, <1>9, <1>10, <1>11, <1>12 DEF Replicas, Tree

LEMMA NoReplicas == Replicas({}, {}, 1) /\ \A V : Saved({}, V)
BY DEF Replicas, Saved, Tree, Identified, Descending, Acyclic, Rooted, Numbered, Removing, Dated,
       Worded, Own, Parents

\* The replicas of a link at its beginning, settled or not.
LEMMA InitReplicas ==
    ASSUME Settled \/ Fresh
    PROVE  /\ local \in [Paths -> SUBSET Rev(Texts)] /\ remote \in [Paths -> SUBSET Rev(Texts)]
           /\ \A p \in Paths : Replicas(local[p], remote[p], 1) /\ \A V : Saved(local[p], V)
           /\ vault \in [Paths -> File] /\ \A p \in Paths : vault[p].text = NoText => vault[p] = NoFile
           /\ manifest.root \in 0..2 /\ DOMAIN manifest.entry = Paths
<1>1. \A t \in Texts : [text |-> t, at |-> 1] \in File /\ t # NoText
    BY FullSyncAssumption DEF File
<1>2. \A t \in Texts : {FirstRev(t)} \in SUBSET Rev(Texts)
    BY FirstRevision
<1>3. CASE Settled
    <2>1. PICK text \in [Paths -> Texts \cup {NoText}] :
            /\ vault = [p \in Paths |-> IF text[p] = NoText THEN NoFile ELSE [text |-> text[p], at |-> 1]]
            /\ local = [p \in Paths |-> IF text[p] = NoText THEN {} ELSE {FirstRev(text[p])}]
            /\ remote = local
            /\ manifest = [root |-> 1, entry |-> [p \in Paths |->
                  IF text[p] = NoText THEN NoEntry ELSE [rev |-> FirstRev(text[p]).id, text |-> text[p], at |-> 1]]]
        BY <1>3 DEF Settled
    <2>2. \A p \in Paths : text[p] = NoText \/ text[p] \in Texts
        OBVIOUS
    <2>3. local \in [Paths -> SUBSET Rev(Texts)] /\ remote \in [Paths -> SUBSET Rev(Texts)]
        BY <1>2, <2>1, <2>2
    <2>4. vault \in [Paths -> File] /\ \A p \in Paths : vault[p].text = NoText => vault[p] = NoFile
        BY <1>1, <2>1, <2>2, FileTyped
    <2>5. manifest.root \in 0..2 /\ DOMAIN manifest.entry = Paths
        BY <2>1
    <2>6. ASSUME NEW p \in Paths PROVE Replicas(local[p], remote[p], 1) /\ \A V : Saved(local[p], V)
        <3>1. CASE text[p] = NoText
            <4>1. local[p] = {} /\ remote[p] = {}
                BY <2>1, <3>1
            <4> QED BY <4>1, NoReplicas
        <3>2. CASE text[p] \in Texts
            <4>1. local[p] = {FirstRev(text[p])} /\ remote[p] = {FirstRev(text[p])}
                BY <1>1, <2>1, <3>2
            <4> QED BY <3>2, <4>1, FirstReplicas
        <3> QED BY <2>2, <3>1, <3>2
    <2> QED BY <2>3, <2>4, <2>5, <2>6
<1>4. CASE Fresh
    <2>1. PICK mine \in [Paths -> Texts \cup {NoText}], theirs \in [Paths -> Texts \cup {NoText}] :
            /\ vault = [p \in Paths |-> IF mine[p] = NoText THEN NoFile ELSE [text |-> mine[p], at |-> 1]]
            /\ local = [p \in Paths |-> {}]
            /\ remote = [p \in Paths |-> IF theirs[p] = NoText THEN {} ELSE {FirstRev(theirs[p])}]
            /\ manifest = NoBaseline
        BY <1>4 DEF Fresh
    <2>2. \A p \in Paths : (mine[p] = NoText \/ mine[p] \in Texts) /\ (theirs[p] = NoText \/ theirs[p] \in Texts)
        OBVIOUS
    <2>3. local \in [Paths -> SUBSET Rev(Texts)] /\ remote \in [Paths -> SUBSET Rev(Texts)]
        BY <1>2, <2>1, <2>2
    <2>4. vault \in [Paths -> File] /\ \A p \in Paths : vault[p].text = NoText => vault[p] = NoFile
        BY <1>1, <2>1, <2>2, FileTyped
    <2>5. manifest.root \in 0..2 /\ DOMAIN manifest.entry = Paths
        BY <2>1 DEF NoBaseline
    <2>6. ASSUME NEW p \in Paths PROVE Replicas(local[p], remote[p], 1) /\ \A V : Saved(local[p], V)
        <3>1. CASE theirs[p] = NoText
            <4>1. local[p] = {} /\ remote[p] = {}
                BY <2>1, <3>1
            <4> QED BY <4>1, NoReplicas
        <3>2. CASE theirs[p] \in Texts
            <4>1. local[p] = {} /\ remote[p] = {FirstRev(theirs[p])}
                BY <1>1, <2>1, <3>2
            <4> QED BY <3>2, <4>1, FirstReplicas
        <3> QED BY <2>2, <3>1, <3>2
    <2> QED BY <2>3, <2>4, <2>5, <2>6
<1> QED BY <1>3, <1>4

LEMMA InitSync == Init => SyncInv
<1> SUFFICES ASSUME Init PROVE SyncInv
    OBVIOUS
<1>1. Settled \/ Fresh
    BY DEF Init
<1>2. clock = 1 /\ versions \in [Paths -> SUBSET Texts]
    BY DEF Init
<1>3. Databases
    BY <1>1, <1>2, InitReplicas DEF Databases
<1>4. \A p \in Paths : {vault[p].text} \ {NoText} \in SUBSET Texts
    BY <1>1, InitReplicas DEF File
<1>5. Vault
    <2>1. /\ space \in {"notes", "assets", "readonly"} /\ root = 1
          /\ copy = [p \in Paths |-> NoText] /\ gone = {}
          /\ had = [p \in Paths |-> {vault[p].text} \ {NoText}] /\ owed = [p \in Paths |-> "no"]
        BY DEF Init
    <2> QED BY <1>1, <1>4, <2>1, InitReplicas DEF Vault
<1>6. Control
    <2>1. queue = {} /\ unread = {} /\ pending = {} /\ phase = "off" /\ sync = Idle
        BY DEF Init
    <2> QED BY <1>1, <2>1, InitReplicas DEF Control, Idle, Dir, Step
<1> QED BY <1>3, <1>5, <1>6 DEF SyncInv

-----------------------------------------------------------------------------

LEMMA SyncTyped == SyncInv => TypeOK
BY DEF SyncInv, Databases, Vault, Control, File, Dir, Step, TypeOK

\* The databases, the vault and the control state keep their invariant together.
LEMMA Synchronising == Spec => []SyncInv
<1>1. SyncInv /\ [Next]_vars => SyncInv'
    BY StepDatabases, StepVault, StepControl DEF SyncInv
<1> QED BY <1>1, InitSync, PTL DEF Spec

\* Every variable keeps its type, whatever the user, the network and the other devices do
\* around a synchronisation (FullSync.ts, Uploader.ts, MirrorApplier.ts).
THEOREM TypeCorrect == Spec => []TypeOK
BY Synchronising, SyncTyped, PTL

\* What another device wrote and this device put something over, by uploading, deleting or
\* reconciling, is a text of the version history or still of another revision, for any
\* number of paths and texts and however long the device runs (Uploader.ts
\* preserveInterveningNote and tombstoneConflictLeaves).
THEOREM OthersTextsAreKept == Spec => []OthersTextKept
<1>1. SyncInv => OthersTextKept
    BY SyncTyped DEF SyncInv, Databases, Saved, Past, OthersTextKept
<1> QED BY <1>1, Synchronising, PTL
=============================================================================
