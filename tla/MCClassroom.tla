---- MODULE MCClassroom ----
(* Lessons and assignments side by side: they share no document, so a     *)
(* behaviour moves one of them and leaves the other at rest.              *)
EXTENDS Lessons, Assignments
VARIABLE part
vars == <<lessonVars, assignmentVars, part>>
Symmetry == Permutations(Uids) \cup Permutations(Paths) \cup Permutations(Cells)
Init == /\ part \in {"lessons", "assignments"}
        /\ LessonsInit /\ AssignmentsInit
        /\ part = "assignments" => file = [p \in Paths |-> None]
Next == \/ part = "lessons" /\ LessonsNext /\ UNCHANGED <<assignmentVars, part>>
        \/ part = "assignments" /\ AssignmentsNext /\ UNCHANGED <<lessonVars, part>>
Spec == Init /\ [][Next]_vars
====
