---- MODULE MCLinkEdits ----
(* Overlapping edits of one note, and the count of the conflicts they leave, side by side: a *)
(* behaviour moves one of them, and of the documents in conflict the notes or the attachments. *)
EXTENDS NoteLink, Conflicts, TLC
VARIABLE side
linkVars == <<vars, conflictVars, side>>
Symmetry == Permutations(Uploaders) \cup Permutations(Texts)
AtPeace(ds) == \A d \in ds : Cardinality(branches[d]) = 1
LinkInit == /\ side \in {"edits", "notes", "attachments"}
            /\ Init /\ ConflictsInit
            /\ side # "notes" => AtPeace(Pages) /\ fileSays \in [Docs -> {CHOOSE c \in Contents : TRUE}]
            /\ side # "attachments" => AtPeace(Attachments)
            /\ side = "edits" => ~syncAssets
Still(ds) == \A d \in ds : branches'[d] = branches[d]
LinkNext == \/ side = "edits" /\ Next /\ UNCHANGED <<conflictVars, side>>
            \/ side = "notes" /\ ConflictsNext /\ Still(Attachments) /\ UNCHANGED <<vars, side>>
            \/ side = "attachments" /\ ConflictsNext /\ Still(Pages) /\ UNCHANGED <<vars, side>>
LinkSpec == LinkInit /\ [][LinkNext]_linkVars
====
