---------------------------- MODULE RevisionTrees ----------------------------
(***************************************************************************)
(* The document model PouchDB and CouchDB give the plugin: a document is   *)
(* the set of its revisions, a revision knows its ancestors, the leaves    *)
(* that were not removed compete and one of them wins on every replica     *)
(* alike.  Replicating a document is the union of two sets of revisions.   *)
(*                                                                         *)
(* A deletion of the plugin is an ordinary revision that carries           *)
(* deleted = TRUE and keeps the text ("deleted"); db.remove() leaves a     *)
(* revision that no read returns ("removed").                              *)
(***************************************************************************)
EXTENDS Integers, FiniteSets

CONSTANT NoText  \* no content

Rev(texts) ==
    [id : Int, anc : SUBSET Int, text : texts \cup {NoText},
     state : {"live", "deleted", "removed"}, mine : BOOLEAN, at : Nat]
NoRev == [id |-> 0, anc |-> {}, text |-> NoText, state |-> "removed", mine |-> FALSE, at |-> 0]

Leaves(doc) == {r \in doc : \A c \in doc : r.id \notin c.anc}
Present(doc) == {r \in Leaves(doc) : r.state # "removed"}

\* The longer history wins; among equals the revision hash decides.
Beats(r, s) ==
    \/ Cardinality(r.anc) > Cardinality(s.anc)
    \/ Cardinality(r.anc) = Cardinality(s.anc) /\ r.id > s.id

\* What db.get returns, and its _conflicts.
Winner(doc) ==
    IF Present(doc) = {} THEN NoRev
    ELSE CHOOSE r \in Present(doc) : \A s \in Present(doc) \ {r} : Beats(r, s)
Conflicts(doc) == Present(doc) \ {Winner(doc)}
IsLive(doc) == Winner(doc).state = "live"
IsDeleted(doc) == Winner(doc).state = "deleted"

\* A document whose leaves were all removed continues from one of them.
Base(doc) ==
    IF Present(doc) # {} \/ doc = {} THEN Winner(doc)
    ELSE CHOOSE r \in Leaves(doc) : \A s \in Leaves(doc) \ {r} : Beats(r, s)

\* The plugin's own revisions have even ids, so that no other revision has a removal's.
Child(r, id, text, state, mine, at) ==
    [id |-> 2 * id, anc |-> IF r = NoRev THEN {} ELSE r.anc \cup {r.id},
     text |-> text, state |-> state, mine |-> mine, at |-> at]

\* put on the winning revision: a live text, or a tombstone that keeps the text.
WithText(doc, id, text, mine) ==
    doc \cup {Child(Base(doc), id, text, "live", mine, 0)}
WithTombstone(doc, id, mine) ==
    doc \cup {Child(Winner(doc), id, Winner(doc).text, "deleted", mine, id)}

\* removeRev of some leaves; removing one twice makes the same revision.
Removal(r) ==
    [id |-> r.id + 1, anc |-> r.anc \cup {r.id}, text |-> NoText, state |-> "removed",
     mine |-> TRUE, at |-> 0]
WithoutLeaves(doc, leaves) == doc \cup {Removal(r) : r \in leaves}
=============================================================================
