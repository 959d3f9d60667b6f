----------------------------- MODULE Assignments -----------------------------
(***************************************************************************)
(* Assignments of one student.  The teacher's settings hold the            *)
(* definitions; one state document per assignment lives in the student's   *)
(* mirror space and has three copies: the server's, the teacher's local    *)
(* one and the student's.  Distribution and deletion write the server's    *)
(* copy over HTTP, grading and archiving the teacher's, handing in the     *)
(* student's; replication carries revisions between them, so branches      *)
(* made at the same time meet later and one of them wins.                  *)
(***************************************************************************)
EXTENDS RevisionTrees, FiniteSetsExt

CONSTANTS
    Assignments,  \* uids of assignments
    Absent,       \* no definition, or no cleanup running
    MaxActs,      \* bound: actions of teacher and student
    MaxSends      \* bound: HTTP operations under way at once

VARIABLES
    defs,     \* [Assignments -> definition or Absent]: settings.assignments
    copies,   \* [Sites -> [Assignments -> state document]]
    sending,  \* distributions and deletions under way
    sweep,    \* cleanupClassroomDocs, its last phase
    swept,    \* history: a cleanup began with equal copies, nothing came between
    born,     \* revisions made so far
    acts      \* bound: actions so far

assignmentVars == <<defs, copies, sending, sweep, swept, born, acts>>

Sites == {"server", "teacher", "student"}
Progress == {"assigned", "submitted", "returned"}

\* What the properties tell apart of a state document; "by" is history.
State(progress, grade, archived, by) ==
    [progress |-> progress, grade |-> grade, archived |-> archived, by |-> by]
States == [progress : Progress, grade : Nat, archived : BOOLEAN,
           by : {"distribute", "submit", "unsubmit", "archive", "return", "sweep"}]
Def == [archived : BOOLEAN]
Sweep == [pc : {"list", "put"}, defined : SUBSET Assignments, left : SUBSET (Assignments \X States)]

ASSUME AssignmentsAssumption == {MaxActs, MaxSends} \subseteq Nat /\ Absent \notin Sweep

Defined(a) == defs[a] # Absent
Copy(site, a) == copies[site][a]
Agree == \A s \in Sites : copies[s] = copies["server"]
Resting == Agree /\ sending = {} /\ sweep = Absent
MayDo == acts < MaxActs /\ acts' = acts + 1

\* update and updateDoc: the change is applied to the revision it replaces.
Write(site, a, state) ==
    /\ copies' = [copies EXCEPT ![site][a] = WithText(@, born + 1, state, site = "student")]
    /\ born' = born + 1
\* Faulty WriteDeleted: the document is written back without its deleted mark.
WriteUnmarked(site, a, state) == Write(site, a, state)
WriteDeleted(site, a, state) ==
    /\ copies' = [copies EXCEPT ![site][a] =
                    @ \cup {Child(Winner(@), born + 1, state, "deleted", FALSE, 0)}]
    /\ born' = born + 1

AssignmentsInit ==
    /\ defs = [a \in Assignments |-> Absent]
    /\ copies = [s \in Sites |-> [a \in Assignments |-> {}]]
    /\ sending = {} /\ sweep = Absent
    /\ swept = FALSE /\ born = 0 /\ acts = 0

-----------------------------------------------------------------------------
(* The teacher.                                                            *)

Send(op, a, archived) ==
    /\ Cardinality(sending) < MaxSends
    /\ sending' = sending \cup {[op |-> op, uid |-> a, archived |-> archived]}

\* A new uid every time, so an assignment is created once.
CreateAssignment(a) ==
    /\ MayDo /\ ~Defined(a) /\ \A s \in Sites : Copy(s, a) = {}
    /\ \A m \in sending : m.uid # a
    /\ defs' = [defs EXCEPT ![a] = [archived |-> FALSE]]
    /\ Send("distribute", a, FALSE)
    /\ swept' = FALSE
    /\ UNCHANGED <<copies, sweep, born>>
UpdateAssignment(a) ==
    /\ MayDo /\ Defined(a)
    /\ Send("distribute", a, defs[a].archived)
    /\ swept' = FALSE
    /\ UNCHANGED <<defs, copies, sweep, born>>
DeleteAssignment(a) ==
    /\ MayDo /\ Defined(a)
    /\ defs' = [defs EXCEPT ![a] = Absent]
    /\ Send("delete", a, FALSE)
    /\ swept' = FALSE
    /\ UNCHANGED <<copies, sweep, born>>

\* The definition, then the teacher's copy; a student whose document has not
\* arrived is passed over.
ArchiveAssignment(a, archived) ==
    LET doc == Copy("teacher", a) IN
    /\ MayDo /\ Defined(a)
    /\ defs' = [defs EXCEPT ![a].archived = archived]
    /\ IF IsLive(doc)
       THEN Write("teacher", a, [Winner(doc).text EXCEPT !.archived = archived, !.by = "archive"])
       ELSE UNCHANGED <<copies, born>>
    /\ swept' = FALSE
    /\ UNCHANGED <<sending, sweep>>
ReturnAssignment(a) ==
    LET doc == Copy("teacher", a) IN
    /\ MayDo /\ IsLive(doc)
    /\ Write("teacher", a, [Winner(doc).text EXCEPT !.progress = "returned", !.grade = @ + 1, !.by = "return"])
    /\ swept' = FALSE
    /\ UNCHANGED <<defs, sending, sweep>>

-----------------------------------------------------------------------------
(* The student.                                                            *)

SubmitAssignment(a) ==
    LET doc == Copy("student", a) IN
    /\ MayDo /\ IsLive(doc) /\ Winner(doc).text.progress # "returned"
    /\ Write("student", a, [Winner(doc).text EXCEPT !.progress = "submitted", !.by = "submit"])
    /\ swept' = FALSE
    /\ UNCHANGED <<defs, sending, sweep>>
UnsubmitAssignment(a) ==
    LET doc == Copy("student", a) IN
    /\ MayDo /\ IsLive(doc) /\ Winner(doc).text.progress # "returned"
    /\ Write("student", a, [Winner(doc).text EXCEPT !.progress = "assigned", !.by = "unsubmit"])
    /\ swept' = FALSE
    /\ UNCHANGED <<defs, sending, sweep>>

-----------------------------------------------------------------------------
(* Operations on the server.                                               *)

\* What a distribution makes of the document it finds there: a live one keeps
\* the student's progress and grade.
\* Faulty Redistributed: every distribution starts over.
StartedOver(doc, archived) == State("assigned", 0, archived, "distribute")
Redistributed(doc, archived) ==
    IF IsLive(doc) THEN [Winner(doc).text EXCEPT !.archived = archived, !.by = "distribute"]
    ELSE State("assigned", 0, archived, "distribute")
DistributeAssignment(m) ==
    /\ m \in sending /\ m.op = "distribute"
    /\ sending' = sending \ {m}
    /\ Write("server", m.uid, Redistributed(Copy("server", m.uid), m.archived))
    /\ UNCHANGED <<defs, sweep, swept, acts>>
RetractAssignment(m) ==
    LET doc == Copy("server", m.uid) IN
    /\ m \in sending /\ m.op = "delete"
    /\ sending' = sending \ {m}
    /\ IF IsLive(doc) THEN WriteDeleted("server", m.uid, Winner(doc).text) ELSE UNCHANGED <<copies, born>>
    /\ UNCHANGED <<defs, sweep, swept, acts>>
\* The request fails or the write never wins: logged at most.
SendFails(m) ==
    /\ m \in sending
    /\ sending' = sending \ {m}
    /\ UNCHANGED <<defs, copies, sweep, swept, born, acts>>

-----------------------------------------------------------------------------
(* cleanupClassroomDocs, its last phase: the definitions are read once, the *)
(* teacher's copies listed, and those without a definition overwritten on   *)
(* the server, deleted.                                                     *)

StartSweep ==
    /\ MayDo /\ sweep = Absent
    /\ sweep' = [pc |-> "list", defined |-> {a \in Assignments : Defined(a)}, left |-> {}]
    /\ swept' = Resting
    /\ UNCHANGED <<defs, copies, sending, born>>
ListOrphanStates ==
    /\ sweep # Absent /\ sweep.pc = "list"
    /\ sweep' = [sweep EXCEPT !.pc = "put",
                   !.left = {<<a, Winner(Copy("teacher", a)).text>> :
                               a \in {b \in Assignments \ sweep.defined : IsLive(Copy("teacher", b))}}]
    /\ UNCHANGED <<defs, copies, sending, swept, born, acts>>
PutOrphanState ==
    /\ sweep # Absent /\ sweep.pc = "put" /\ sweep.left # {}
    /\ \E orphan \in sweep.left :
         /\ sweep' = [sweep EXCEPT !.left = @ \ {orphan}]
         /\ \/ WriteDeleted("server", orphan[1], [orphan[2] EXCEPT !.by = "sweep"]) /\ UNCHANGED swept
            \/ UNCHANGED <<copies, born>> /\ swept' = FALSE
    /\ UNCHANGED <<defs, sending, acts>>
EndSweep ==
    /\ sweep # Absent /\ sweep.pc = "put" /\ sweep.left = {}
    /\ sweep' = Absent
    /\ UNCHANGED <<defs, copies, sending, swept, born, acts>>

-----------------------------------------------------------------------------
\* The links of teacher and student: either end sends what the other lacks.
ReplicateState(from, to, a) ==
    /\ "server" \in {from, to} /\ ~(Copy(from, a) \subseteq Copy(to, a))
    /\ copies' = [copies EXCEPT ![to][a] = @ \cup Copy(from, a)]
    /\ UNCHANGED <<defs, sending, sweep, swept, born, acts>>

TeacherStep ==
    \/ \E a \in Assignments :
         \/ CreateAssignment(a) \/ UpdateAssignment(a) \/ DeleteAssignment(a) \/ ReturnAssignment(a)
         \/ \E b \in BOOLEAN : ArchiveAssignment(a, b)
    \/ StartSweep
StudentStep == \E a \in Assignments : SubmitAssignment(a) \/ UnsubmitAssignment(a)
ServerStep ==
    \/ \E m \in sending : DistributeAssignment(m) \/ RetractAssignment(m) \/ SendFails(m)
    \/ ListOrphanStates \/ PutOrphanState \/ EndSweep
    \/ \E from, to \in Sites, a \in Assignments : ReplicateState(from, to, a)
AssignmentsNext == TeacherStep \/ StudentStep \/ ServerStep
AssignmentsSpec == AssignmentsInit /\ [][AssignmentsNext]_assignmentVars

-----------------------------------------------------------------------------
AssignmentsTypeOK ==
    /\ defs \in [Assignments -> Def \cup {Absent}]
    /\ \A s \in Sites, a \in Assignments : copies[s][a] \subseteq Rev(States)
    /\ \A m \in sending : m.uid \in Assignments /\ m.op \in {"distribute", "delete"}
    /\ sweep # Absent => sweep.defined \subseteq Assignments
    /\ swept \in BOOLEAN /\ acts \in 0..MaxActs

Revisions(a) == UNION {Copy(s, a) : s \in Sites}
Parent(doc, r) == {q \in doc : r.anc = q.anc \cup {q.id}}

\* Whatever teacher, student and server write at the same time, along a branch
\* of a state document the work a student handed in and the grade it got stay:
\* what was submitted becomes unsubmitted only by the student, and what was
\* returned stays returned, with its grade or a newer one, until it is deleted.
ProgressStands ==
    \A a \in Assignments : \A r \in Revisions(a) : \A q \in Parent(Revisions(a), r) :
      q.state = "live" /\ r.state = "live" =>
        /\ q.text.progress = "submitted" => r.text.progress # "assigned" \/ r.text.by = "unsubmit"
        /\ q.text.progress = "returned" => r.text.progress = "returned" /\ r.text.grade >= q.text.grade

\* A cleanup that began at rest, with nobody doing anything else and no write of
\* it failing, leaves no live state document without a definition.
SweepSettles ==
    (swept /\ Resting) => \A a \in Assignments : IsLive(Copy("student", a)) => Defined(a)

\* The records of an assignment stand: what student and teacher wrote is not undone by a
\* later write of another, and a cleanup leaves exactly what has a definition
\* (AssignmentController.ts, NoticeController.ts).  The state is well formed.
RecordsStand == AssignmentsTypeOK /\ ProgressStands /\ SweepSettles
=============================================================================
