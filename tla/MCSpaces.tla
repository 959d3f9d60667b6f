---- MODULE MCSpaces ----
(* The replication of one link and what is done to shared spaces by command, *)
(* side by side: naming participants and deploying the policy made of them,  *)
(* collapsing duplicated notes, copying files to members.  A behaviour moves *)
(* one of them; they share no document.                                      *)
EXTENDS LinkTransport, Designations, Duplicates, BulkCopies
VARIABLE side
spacesVars == <<vars, designationVars, duplicatesVars, copyVars, side>>
SharedSpaces == [A |-> {"a1", "a2"}]
First == CHOOSE f \in SharedNotes : TRUE
SourceFiles == <<"a", "b">>

OfLink(action) == side = "link" /\ action /\ UNCHANGED <<designationVars, duplicatesVars, copyVars, side>>
OfNotes(action) == side = "notes" /\ action /\ UNCHANGED <<vars, duplicatesVars, copyVars, side>>
OfCleanup(action) == side = "cleanup" /\ action /\ UNCHANGED <<vars, designationVars, copyVars, side>>
OfCopies(action) == side = "copies" /\ action /\ UNCHANGED <<vars, designationVars, duplicatesVars, side>>

SpacesInit ==
    /\ side \in {"link", "notes", "cleanup", "copies"}
    /\ Init /\ DesignationsInit /\ DuplicatesInit /\ CopyInit
    /\ side # "link" => manager /\ ~hidden
    /\ readOnly /\ place = [f \in SharedNotes |-> IF f = First THEN "a1" ELSE Gone]
    /\ side # "cleanup" => content = [f \in NoteFiles |-> <<>>]
    /\ side # "copies" => folder = [m \in Receivers |-> [n \in Names |-> NoContent]]
SpacesNext == \/ OfLink(Next) \/ OfNotes(DesignationsNext)
              \/ OfCleanup(DuplicatesNext) \/ OfCopies(CopyNext)
\* While the link is at rest, nothing is enabled that is fair of it.
SpacesSpec == SpacesInit /\ [][SpacesNext]_spacesVars /\ Fairness
====
