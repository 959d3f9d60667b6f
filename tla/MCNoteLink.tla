---- MODULE MCNoteLink ----
EXTENDS NoteLink, TLC
Symmetry == Permutations(Uploaders) \cup Permutations(Texts)
====
