------------------------ MODULE RevisionTrees_proofs ------------------------
(***************************************************************************)
(* What the modules that use RevisionTrees need to know of revisions: the  *)
(* revisions of a document that some replica has form a tree, putting and  *)
(* removing keep it one, a replica's part of it has a winner, and the      *)
(* history of a revision tells it from all others.                         *)
(***************************************************************************)
EXTENDS RevisionTrees, FiniteSetTheorems, TLAPS

Past(r) == r.anc \cup {r.id}

\* All revisions of one document, wherever they are.
Identified(U) == \A r, s \in U : r.id = s.id => r = s
Descending(U) == \A r, s \in U : r.id \in s.anc => Past(r) \subseteq s.anc
Acyclic(U) == \A r \in U : r.id \notin r.anc /\ (r.state # "removed" => r.id + 1 \notin r.anc)
Rooted(U) == \A r \in U : \A i \in r.anc : \E s \in U : s.id = i
Numbered(U) ==
    \A r \in U : /\ r.id \in Int /\ r.anc \subseteq Int
                 /\ \E k \in Int : r.id = 2 * k + (IF r.state = "removed" THEN 1 ELSE 0)
Removing(U) == \A r, s \in U : r.state # "removed" /\ s.id = r.id + 1 => s = Removal(r)

Tree(U) ==
    Identified(U) /\ Descending(U) /\ Acyclic(U) /\ Rooted(U) /\ Numbered(U) /\ Removing(U)

\* The revisions were made before the clock passed n.
Dated(U, n) == \A r \in U : Past(r) \subseteq (-2 * n)..(2 * n + 1)

LEMMA DatedLater ==
    ASSUME NEW U, NEW n \in Nat, NEW m \in Nat, n <= m, Dated(U, n)
    PROVE  Dated(U, m)
<1> SUFFICES ASSUME NEW r \in U PROVE Past(r) \subseteq (-2 * m)..(2 * m + 1)
    BY DEF Dated
<1>1. Past(r) \subseteq (-2 * n)..(2 * n + 1)
    BY DEF Dated
<1>2. (-2 * n)..(2 * n + 1) \subseteq (-2 * m)..(2 * m + 1)
    OBVIOUS
<1> QED BY <1>1, <1>2

\* A set of integers with a bound has a greatest element.
LEMMA Greatest ==
    ASSUME NEW n \in Int, NEW T, T # {}, \A k \in T : k \in Int /\ k <= n
    PROVE  \E m \in T : \A k \in T : k <= m
<1> DEFINE C == {k..n : k \in T}
<1>1. \A k \in T : k..n \in SUBSET Int /\ IsFiniteSet(k..n)
    BY FS_Interval
<1>2. C \subseteq FiniteSubsetsOf(Int) /\ C # {}
    BY <1>1 DEF FiniteSubsetsOf
<1>3. IsWellFoundedOn(StrictSubsetOrdering(Int), FiniteSubsetsOf(Int))
    BY FS_StrictSubsetOrderingWellFounded
<1>4. \E S \in C : \A U \in C : <<U, S>> \notin StrictSubsetOrdering(Int)
    <2> HIDE DEF C
    <2> QED BY <1>2, <1>3, WFMin
<1>5. PICK m \in T : \A k \in T : <<k..n, m..n>> \notin StrictSubsetOrdering(Int)
    BY <1>4
<1>6. \A k \in T : k..n \subseteq m..n => k..n = m..n
    BY <1>1, <1>5 DEF StrictSubsetOrdering
<1>7. ASSUME NEW k \in T, m < k PROVE FALSE
    <2>1. k..n \subseteq m..n /\ m \in m..n /\ m \notin k..n
        BY <1>7
    <2> QED BY <1>6, <2>1
<1> QED BY <1>7

-----------------------------------------------------------------------------
(* The tree grows.                                                          *)

\* By a revision with a new id, on any other or on none.
LEMMA GrowsByPut ==
    ASSUME NEW U, Tree(U), NEW n, NEW k \in Int,
           n.id = 2 * k, n.state # "removed",
           n.anc = {} \/ \E b \in U : n.anc = Past(b),
           \A r \in U : 2 * k \notin Past(r) /\ 2 * k + 1 \notin Past(r)
    PROVE  Tree(U \cup {n})
<1> DEFINE V == U \cup {n}
<1> USE DEF Tree
<1>1. \A r \in U : r.id # n.id /\ n.id \notin r.anc /\ r.id # n.id + 1 /\ n.id + 1 \notin r.anc
    BY DEF Past
<1>2. n.id \notin n.anc /\ n.id + 1 \notin n.anc
    BY <1>1 DEF Past
<1>3. Identified(V)
    BY <1>1 DEF Identified
<1>4. Descending(V)
    <2>1. ASSUME NEW r \in U, r.id \in n.anc PROVE Past(r) \subseteq n.anc
        BY <2>1 DEF Past, Descending, Identified
    <2> QED BY <1>1, <1>2, <2>1 DEF Descending
<1>5. Acyclic(V)
    BY <1>2 DEF Acyclic
<1>6. Rooted(V)
    BY DEF Rooted, Past
<1>7. Numbered(V)
    BY DEF Numbered, Past
<1>8. Removing(V)
    <2>1. ASSUME NEW r \in U, r.state # "removed" PROVE n.id # r.id + 1
        BY <2>1 DEF Numbered
    <2> QED BY <1>1, <2>1 DEF Removing, Numbered
<1> QED BY <1>3, <1>4, <1>5, <1>6, <1>7, <1>8

LEMMA RemovalFields ==
    ASSUME NEW r
    PROVE  /\ Removal(r).id = r.id + 1 /\ Removal(r).anc = Past(r)
           /\ Removal(r).state = "removed" /\ Removal(r).text = NoText /\ Removal(r).mine = TRUE
           /\ Removal(r).at = 0
BY DEF Removal, Past

\* By the removals of some revisions; a revision that was removed before gets no other.
LEMMA GrowsByRemovals ==
    ASSUME NEW U, Tree(U), NEW S \in SUBSET U, \A r \in S : r.state # "removed"
    PROVE  Tree(U \cup {Removal(r) : r \in S})
<1> DEFINE D == {Removal(r) : r \in S}
           V == U \cup D
<1> USE DEF Tree
<1>1. \A r \in S : /\ Removal(r).id = r.id + 1 /\ Removal(r).anc = Past(r)
                   /\ Removal(r).state = "removed"
                   /\ \E k \in Int : r.id = 2 * k
    <2>1. ASSUME NEW r \in S PROVE \E k \in Int : r.id = 2 * k
        BY DEF Numbered
    <2> QED BY <2>1, RemovalFields
<1>2. \A r \in U : r.id \in Int /\ r.anc \subseteq Int
                   /\ \E k \in Int : r.id = 2 * k \/ r.id = 2 * k + 1
    BY DEF Numbered
\* Whoever descends from a removal descends from what was removed.
<1>3. ASSUME NEW r \in S, NEW s \in U, r.id + 1 \in s.anc PROVE Past(Removal(r)) \subseteq s.anc
    <2>1. PICK t \in U : t.id = r.id + 1
        BY <1>3 DEF Rooted
    <2>2. t = Removal(r)
        BY <2>1 DEF Removing
    <2> QED BY <1>3, <2>1, <2>2 DEF Descending
<1>4. ASSUME NEW r \in S, NEW s \in S, r.id + 1 \in Past(s) PROVE Past(Removal(r)) \subseteq Past(s)
    <2>1. r.id + 1 # s.id
        BY <1>1
    <2> QED BY <1>3, <1>4, <2>1 DEF Past
<1>5. Identified(V)
    <2>1. ASSUME NEW r \in S, NEW s \in U, s.id = r.id + 1 PROVE s = Removal(r)
        BY <2>1 DEF Removing
    <2>2. ASSUME NEW r \in S, NEW s \in S, Removal(r).id = Removal(s).id
          PROVE  Removal(r) = Removal(s)
        <3>1. r.id = s.id
            BY <1>1, <1>2, <2>2
        <3> QED BY <3>1 DEF Identified
    <2> QED BY <1>1, <2>1, <2>2 DEF Identified
<1>6. Descending(V)
    <2>1. ASSUME NEW r \in U, NEW s \in S, r.id \in Removal(s).anc
          PROVE  Past(r) \subseteq Removal(s).anc
        BY <1>1, <2>1 DEF Past, Descending, Identified
    <2> QED BY <1>1, <1>3, <1>4, <2>1 DEF Descending
<1>7. Acyclic(V)
    <2>1. ASSUME NEW r \in S PROVE Removal(r).id \notin Removal(r).anc
        BY <1>1, <1>2 DEF Acyclic, Past
    <2> QED BY <1>1, <2>1 DEF Acyclic
<1>8. Rooted(V)
    BY <1>1 DEF Rooted, Past
<1>9. Numbered(V)
    <2>1. ASSUME NEW r \in S
          PROVE  /\ Removal(r).id \in Int /\ Removal(r).anc \subseteq Int
                 /\ \E k \in Int : Removal(r).id = 2 * k + 1
        BY <1>1, <1>2 DEF Past
    <2> QED BY <1>1, <2>1 DEF Numbered
<1>10. Removing(V)
    <2>1. ASSUME NEW r \in U, r.state # "removed", NEW s \in S, Removal(s).id = r.id + 1
          PROVE  Removal(s) = Removal(r)
        <3>1. r.id = s.id
            BY <1>1, <1>2, <2>1
        <3> QED BY <3>1 DEF Identified
    <2> QED BY <1>1, <2>1 DEF Removing
<1> QED BY <1>5, <1>6, <1>7, <1>8, <1>9, <1>10

\* A replica gets no revision that is not in the tree.
LEMMA PartIsTree ==
    ASSUME NEW U, Tree(U), NEW r \in U, NEW s \in U, Past(r) = Past(s)
    PROVE  r = s
<1>1. CASE r.id = s.id
    BY <1>1 DEF Tree, Identified
<1>2. CASE r.id # s.id
    <2>1. r.id \in s.anc /\ s.id \in r.anc
        BY <1>2 DEF Past
    <2>2. s.id \in s.anc
        BY <2>1 DEF Tree, Descending, Past
    <2> QED BY <2>2 DEF Tree, Acyclic
<1> QED BY <1>1, <1>2

\* A put at a later time: on another revision or on none.
LEMMA LaterPut ==
    ASSUME NEW U, NEW n \in Nat, Tree(U), Dated(U, n), NEW m \in Nat, n < m,
           NEW c, c.state # "removed", c.id \in {2 * m, -2 * m},
           c.anc = {} \/ \E b \in U : c.anc = Past(b)
    PROVE  /\ Tree(U \cup {c}) /\ Dated(U \cup {c}, m)
           /\ \A r \in U \cup {c} : c.id \notin r.anc
<1>1. PICK id \in {m, -m} : c.id = 2 * id
    OBVIOUS
<1>2. ASSUME NEW r \in U PROVE 2 * id \notin Past(r) /\ 2 * id + 1 \notin Past(r)
    <2>1. Past(r) \subseteq (-2 * n)..(2 * n + 1)
        BY DEF Dated
    <2>2. 2 * id \notin (-2 * n)..(2 * n + 1) /\ 2 * id + 1 \notin (-2 * n)..(2 * n + 1)
        OBVIOUS
    <2> QED BY <2>1, <2>2
<1>3. id \in Int
    OBVIOUS
<1>4. Tree(U \cup {c})
    BY <1>1, <1>2, <1>3, GrowsByPut
<1>5. Dated(U \cup {c}, m)
    <2>1. Dated(U, m)
        BY DatedLater
    <2>2. c.id \in (-2 * m)..(2 * m + 1)
        BY <1>1
    <2>3. Past(c) \subseteq (-2 * m)..(2 * m + 1)
        BY <2>1, <2>2 DEF Dated, Past
    <2> QED BY <2>1, <2>3 DEF Dated
<1>6. ASSUME NEW r \in U \cup {c} PROVE c.id \notin r.anc
    BY <1>1, <1>2 DEF Past
<1> QED BY <1>4, <1>5, <1>6

LEMMA LaterRemovals ==
    ASSUME NEW U, NEW n \in Nat, Tree(U), Dated(U, n),
           NEW S \in SUBSET U, \A r \in S : r.state # "removed"
    PROVE  LET V == U \cup {Removal(r) : r \in S} IN Tree(V) /\ Dated(V, n)
<1> DEFINE D == {Removal(r) : r \in S}
<1>1. Tree(U \cup D)
    BY GrowsByRemovals
<1>2. Dated(U \cup D, n)
    <2> SUFFICES ASSUME NEW r \in S PROVE Past(Removal(r)) \subseteq (-2 * n)..(2 * n + 1)
        BY DEF Dated
    <2>1. Past(r) \subseteq (-2 * n)..(2 * n + 1)
        BY DEF Dated
    <2>2. PICK k \in Int : r.id = 2 * k
        BY DEF Tree, Numbered
    <2>3. r.id \in (-2 * n)..(2 * n + 1)
        BY <2>1 DEF Past
    <2>4. r.id + 1 \in (-2 * n)..(2 * n + 1)
        BY <2>2, <2>3
    <2>5. Past(Removal(r)) = Past(r) \cup {r.id + 1}
        BY RemovalFields DEF Past
    <2> QED BY <2>1, <2>4, <2>5
<1> QED BY <1>1, <1>2

-----------------------------------------------------------------------------
(* The winner.                                                              *)

\* Among some revisions one beats the others.
LEMMA SomeoneWins ==
    ASSUME NEW U, Tree(U), NEW n \in Nat, Dated(U, n), NEW P \in SUBSET U, P # {}
    PROVE  /\ \E r \in P : \A s \in P \ {r} : Beats(r, s)
           /\ \E r \in P : \A s \in P : Cardinality(s.anc) <= Cardinality(r.anc)
<1> DEFINE M == 4 * n + 2
           D == {Cardinality(r.anc) : r \in P}
<1>1. \A r \in P : /\ r.id \in Int /\ r.id <= 2 * n + 1
                   /\ Cardinality(r.anc) \in Int /\ Cardinality(r.anc) <= M
    <2> SUFFICES ASSUME NEW r \in P
                 PROVE  /\ r.id \in Int /\ r.id <= 2 * n + 1
                        /\ Cardinality(r.anc) \in Int /\ Cardinality(r.anc) <= M
        OBVIOUS
    <2>1. r.anc \subseteq (-2 * n)..(2 * n + 1) /\ r.id \in (-2 * n)..(2 * n + 1)
        BY DEF Dated, Past
    <2>2. IsFiniteSet((-2 * n)..(2 * n + 1)) /\ Cardinality((-2 * n)..(2 * n + 1)) = M
        BY FS_Interval
    <2>3. IsFiniteSet(r.anc) /\ Cardinality(r.anc) <= M
        BY <2>1, <2>2, FS_Subset
    <2> QED BY <2>1, <2>3, FS_CardinalityType
<1>2. PICK d \in D : \A e \in D : e <= d
    <2> HIDE DEF M
    <2>1. M \in Int
        BY DEF M
    <2>2. D # {} /\ \A e \in D : e \in Int /\ e <= M
        BY <1>1
    <2> HIDE DEF D
    <2> QED BY <2>1, <2>2, Greatest
<1> DEFINE Q == {r \in P : Cardinality(r.anc) = d}
           I == {r.id : r \in Q}
<1>3. PICK i \in I : \A j \in I : j <= i
    <2>1. I # {} /\ \A j \in I : j \in Int /\ j <= 2 * n + 1
        BY <1>1, <1>2
    <2> HIDE DEF I
    <2> QED BY <2>1, Greatest
<1>4. PICK r \in Q : r.id = i
    BY <1>3
<1>5. ASSUME NEW s \in P \ {r} PROVE Beats(r, s)
    <2>1. Cardinality(s.anc) <= Cardinality(r.anc)
        BY <1>2, <1>4
    <2>2. CASE Cardinality(s.anc) = Cardinality(r.anc)
        <3>1. s.id <= r.id /\ s.id # r.id
            BY <1>3, <1>4, <2>2 DEF Tree, Identified
        <3> QED BY <1>1, <1>4, <2>2, <3>1 DEF Beats
    <2>3. CASE Cardinality(s.anc) # Cardinality(r.anc)
        BY <1>1, <1>4, <2>1, <2>3 DEF Beats
    <2> QED BY <2>2, <2>3
<1>6. \A s \in P : Cardinality(s.anc) <= Cardinality(r.anc)
    BY <1>2, <1>4
<1> QED BY <1>4, <1>5, <1>6

\* A document that has a revision to show has a winner among them, and one that has any
\* revision has leaves; the next one is put on a leaf.
LEMMA WinnerShows ==
    ASSUME NEW U, Tree(U), NEW n \in Nat, Dated(U, n), NEW doc \in SUBSET U
    PROVE  /\ Present(doc) # {} => Winner(doc) \in Present(doc)
           /\ Present(doc) = {} => Winner(doc) = NoRev
           /\ Present(doc) # {} => Base(doc) = Winner(doc)
           /\ doc # {} => Base(doc) \in Leaves(doc)
           /\ doc = {} => Base(doc) = NoRev
<1>1. Present(doc) # {} => Winner(doc) \in Present(doc)
    <2> SUFFICES ASSUME Present(doc) # {} PROVE Winner(doc) \in Present(doc)
        OBVIOUS
    <2>1. Present(doc) \in SUBSET U
        BY DEF Present, Leaves
    <2>2. \E r \in Present(doc) : \A s \in Present(doc) \ {r} : Beats(r, s)
        BY <2>1, SomeoneWins
    <2> QED BY <2>2 DEF Winner
<1>2. Present(doc) = {} => Winner(doc) = NoRev
    BY DEF Winner
<1>3. Present(doc) # {} => Base(doc) = Winner(doc)
    BY DEF Base
<1>4. doc = {} => Present(doc) = {} /\ Base(doc) = Winner(doc)
    BY DEF Base, Present, Leaves
<1>5. ASSUME doc # {} PROVE Base(doc) \in Leaves(doc)
    <2>1. PICK r \in doc : \A s \in doc : Cardinality(s.anc) <= Cardinality(r.anc)
        BY <1>5, SomeoneWins
    <2>2. ASSUME NEW c \in doc, r.id \in c.anc PROVE FALSE
        <3>1. Past(r) \subseteq c.anc
            BY <2>2 DEF Tree, Descending
        <3>2. c.anc \subseteq (-2 * n)..(2 * n + 1)
            BY DEF Dated, Past
        <3>3. IsFiniteSet(c.anc)
            <4>1. IsFiniteSet((-2 * n)..(2 * n + 1))
                BY FS_Interval
            <4> QED BY <3>2, <4>1, FS_Subset
        <3>4. IsFiniteSet(r.anc) /\ r.anc \in SUBSET c.anc
            BY <3>1, <3>3, FS_Subset DEF Past
        <3>5. Cardinality(r.anc) = Cardinality(c.anc)
            <4>1. Cardinality(r.anc) <= Cardinality(c.anc)
                BY <3>3, <3>4, FS_Subset
            <4>2. Cardinality(r.anc) \in Nat /\ Cardinality(c.anc) \in Nat
                BY <3>3, <3>4, FS_CardinalityType
            <4> QED BY <2>1, <4>1, <4>2
        <3>6. c.anc = r.anc
            BY <3>3, <3>4, <3>5, FS_Subset
        <3>7. r.id \notin r.anc
            BY DEF Tree, Acyclic
        <3> QED BY <2>2, <3>6, <3>7
    <2>3. r \in Leaves(doc)
        BY <2>2 DEF Leaves
    <2>4. CASE Present(doc) = {}
        <3>1. Leaves(doc) \in SUBSET U /\ Leaves(doc) # {}
            BY <2>3 DEF Leaves
        <3>2. \E x \in Leaves(doc) : \A s \in Leaves(doc) \ {x} : Beats(x, s)
            BY <3>1, SomeoneWins
        <3>3. Base(doc) = CHOOSE x \in Leaves(doc) : \A s \in Leaves(doc) \ {x} : Beats(x, s)
            BY <1>5, <2>4 DEF Base
        <3> QED BY <3>2, <3>3
    <2>5. CASE Present(doc) # {}
        BY <1>1, <1>3, <2>5 DEF Present
    <2> QED BY <2>4, <2>5
<1> QED BY <1>1, <1>2, <1>3, <1>4, <1>5

-----------------------------------------------------------------------------
(* What a document shows after a put or a removal.                          *)

\* Removals hide what was removed.
LEMMA RemovalsHide ==
    ASSUME NEW doc, Identified(doc), NEW S \in SUBSET doc
    PROVE  Present(doc) \ S \subseteq Present(WithoutLeaves(doc, S))
<1> SUFFICES ASSUME NEW r \in Present(doc), r \notin S
             PROVE  r \in Present(WithoutLeaves(doc, S))
    OBVIOUS
<1>1. r \in doc /\ r.state # "removed" /\ \A d \in doc : r.id \notin d.anc
    BY DEF Present, Leaves
<1>2. ASSUME NEW s \in S PROVE r.id \notin Removal(s).anc
    <2>1. s \in doc /\ r.id # s.id
        BY <1>1 DEF Identified
    <2>2. Removal(s).anc = s.anc \cup {s.id}
        BY DEF Removal
    <2> QED BY <1>1, <2>1, <2>2
<1> QED BY <1>1, <1>2 DEF Present, Leaves, WithoutLeaves

\* A revision put on b, or on none, and removals with it hide b and what was removed.
LEMMA PutAndRemovalsHide ==
    ASSUME NEW doc, Identified(doc), NEW c, NEW b,
           c.anc = {} \/ (b \in doc /\ c.anc = Past(b)),
           NEW S \in SUBSET (doc \cup {c}), c \in S => \A r \in doc : r.id # c.id
    PROVE  Present(doc) \ (S \cup {b}) \subseteq Present(WithoutLeaves(doc \cup {c}, S))
<1> SUFFICES ASSUME NEW r \in Present(doc), r \notin S, r # b
             PROVE  r \in Present(WithoutLeaves(doc \cup {c}, S))
    OBVIOUS
<1>1. r \in doc /\ r.state # "removed" /\ \A d \in doc : r.id \notin d.anc
    BY DEF Present, Leaves
<1>2. r.id \notin c.anc
    <2>1. b \in doc => r.id # b.id
        BY <1>1 DEF Identified
    <2> QED BY <1>1, <2>1 DEF Past
<1>3. ASSUME NEW s \in S PROVE r.id \notin Removal(s).anc
    <2>1. CASE s \in doc
        BY <1>1, <2>1 DEF Identified, Removal
    <2>2. CASE s = c
        BY <1>1, <1>2, <2>2 DEF Removal
    <2> QED BY <2>1, <2>2
<1> QED BY <1>1, <1>2, <1>3 DEF Present, Leaves, WithoutLeaves

\* A revision put on the winner wins.
LEMMA PutWins ==
    ASSUME NEW U, Tree(U), NEW n \in Nat, Dated(U, n), NEW doc \in SUBSET U,
           Present(doc) # {}, NEW c, c.anc = Past(Winner(doc)), c.state # "removed",
           \A r \in doc \cup {c} : c.id \notin r.anc
    PROVE  Winner(doc \cup {c}) = c
<1> DEFINE w == Winner(doc)
           V == doc \cup {c}
<1>1. w \in Present(doc)
    BY WinnerShows
<1>2. Present(doc) \in SUBSET U /\ w \in doc /\ w \in U
    BY <1>1 DEF Present, Leaves
<1>3. \A s \in Present(doc) \ {w} : Beats(w, s)
    <2>1. \E r \in Present(doc) : \A s \in Present(doc) \ {r} : Beats(r, s)
        BY <1>2, SomeoneWins
    <2> QED BY <2>1 DEF Winner
<1>4. c \in Present(V)
    BY DEF Present, Leaves
<1>5. \A s \in Present(V) \ {c} : s \in Present(doc) /\ s # w
    BY DEF Present, Leaves, Past
<1>6. \A r \in U : IsFiniteSet(r.anc) /\ Cardinality(r.anc) \in Nat
    <2> SUFFICES ASSUME NEW r \in U PROVE IsFiniteSet(r.anc) /\ Cardinality(r.anc) \in Nat
        OBVIOUS
    <2>1. r.anc \subseteq (-2 * n)..(2 * n + 1)
        BY DEF Dated, Past
    <2>2. IsFiniteSet((-2 * n)..(2 * n + 1))
        BY FS_Interval
    <2>3. IsFiniteSet(r.anc)
        BY <2>1, <2>2, FS_Subset
    <2> QED BY <2>3, FS_CardinalityType
<1>7. Cardinality(c.anc) = Cardinality(w.anc) + 1
    <2>1. w.id \notin w.anc /\ c.anc = w.anc \cup {w.id}
        BY <1>2 DEF Tree, Acyclic, Past
    <2> HIDE DEF w
    <2> QED BY <1>2, <1>6, <2>1, FS_AddElement
<1>8. \A s \in Present(V) \ {c} : Cardinality(c.anc) > Cardinality(s.anc)
                                /\ Cardinality(s.anc) \in Nat /\ Cardinality(c.anc) \in Nat
    <2> SUFFICES ASSUME NEW s \in Present(V) \ {c}
                 PROVE  Cardinality(c.anc) > Cardinality(s.anc)
                        /\ Cardinality(s.anc) \in Nat /\ Cardinality(c.anc) \in Nat
        OBVIOUS
    <2>1. Beats(w, s) /\ s \in U
        BY <1>2, <1>3, <1>5
    <2>2. Cardinality(w.anc) >= Cardinality(s.anc)
        BY <1>2, <1>6, <2>1 DEF Beats
    <2> HIDE DEF w
    <2> QED BY <1>2, <1>6, <1>7, <2>1, <2>2
<1>9. \A s \in Present(V) \ {c} : Beats(c, s) /\ ~Beats(s, c)
    BY <1>8 DEF Beats
<1>10. \A r \in Present(V) : (\A s \in Present(V) \ {r} : Beats(r, s)) <=> r = c
    BY <1>4, <1>9
<1>11. Winner(V) = CHOOSE r \in Present(V) : \A s \in Present(V) \ {r} : Beats(r, s)
    BY <1>4 DEF Winner
<1>12. Winner(V) \in Present(V) /\ \A s \in Present(V) \ {Winner(V)} : Beats(Winner(V), s)
    <2>1. \E r \in Present(V) : \A s \in Present(V) \ {r} : Beats(r, s)
        BY <1>4, <1>10
    <2> HIDE DEF V
    <2> QED BY <1>11, <2>1
<1>13. Winner(V) = c
    <2> HIDE DEF V
    <2> QED BY <1>10, <1>12
<1> QED BY <1>13
=============================================================================
