----------------------------- MODULE BulkCopies -----------------------------
(***************************************************************************)
(* Copying a file or a folder to the folders of the selected members       *)
(* (BulkCopy.ts, called by DeploymentController.bulkCopy and retried for   *)
(* the members that failed by DeploySection.ts).  Writing into a member's  *)
(* folder is all it does: the ordinary synchronisation carries the files   *)
(* on, and also writes and removes files there while the copy runs.        *)
(*                                                                         *)
(* A file name is a source name and a number, 0 for the name itself; a     *)
(* content is the copy or what somebody else wrote.                        *)
(***************************************************************************)
EXTENDS Integers, FiniteSets, FiniteSetsExt, Sequences, SequencesExt

CONSTANTS
    Receivers,       \* the members selected
    Sources,         \* the files to copy, in order
    Policies,        \* what to do with a file that exists
    MaxNumber,       \* highest number of an alternative name
    MaxCopies, MaxIntrusions, MaxBadWrites   \* bounds

\* Members are numbered in the order they are copied to; a folder without notes copies nothing.
ASSUME BulkCopiesAssumption ==
    /\ Receivers \subseteq Int
    /\ Sources \in Seq(ToSet(Sources)) \ {<<>>}
    /\ Policies \subseteq {"skip", "overwrite", "rename"}
    /\ {MaxNumber, MaxCopies, MaxIntrusions, MaxBadWrites} \subseteq Nat

Names == ToSet(Sources) \X (0..MaxNumber)
NoContent == 0
Other == 1              \* written by somebody else
Copied(nth) == 1 + nth  \* the copy made by a run

VARIABLES
    folder,     \* folder[m][n]: the content of a file of member m
    copying,    \* the run: policy, members and items left, the target of a pending creation
    report,     \* per member of the last run: its policy, files written, skipped, and a failure
    copies, intrusions, badWrites,   \* bounds
    disturbed   \* members in whose folder others have written since the run began (history)

copyVars == <<folder, copying, report, copies, intrusions, badWrites, disturbed>>

NoCopy == [policy |-> "none", members |-> {}, item |-> 0, target |-> <<>>]
NoReport == [policy |-> "none", written |-> 0, skipped |-> 0, failed |-> FALSE]
Running(m) == copying.policy # "none" /\ copying.item > 0 /\ m \in copying.members
                /\ \A o \in copying.members : m <= o

CopyInit ==
    /\ folder \in [Receivers -> {[n \in Names |-> IF n \in has THEN Other ELSE NoContent] :
                                   has \in SUBSET (ToSet(Sources) \X {0})}]
    /\ copying = NoCopy /\ report = [m \in Receivers |-> NoReport]
    /\ copies = 0 /\ intrusions = 0 /\ badWrites = 0 /\ disturbed = {}

\* bulkCopy: the source has been read before the first file is written.  A retry takes the
\* members whose report has an error.
CopyBegins(policy, members) ==
    /\ copying = NoCopy /\ copies < MaxCopies /\ members # {}
    /\ copies > 0 => members = {m \in Receivers : report[m].failed}
    /\ copies' = copies + 1
    /\ copying' = [policy |-> policy, members |-> members, item |-> 1, target |-> <<>>]
    /\ report' = [m \in Receivers |-> IF m \in members THEN [NoReport EXCEPT !.policy = policy] ELSE NoReport]
    /\ disturbed' = {}
    /\ UNCHANGED <<folder, intrusions, badWrites>>

\* run: the next item of this member, or the next member.
Go(m) ==
    copying' = IF copying.item < Len(Sources) THEN [copying EXCEPT !.item = @ + 1, !.target = <<>>]
            ELSE IF copying.members = {m} THEN NoCopy
            ELSE [copying EXCEPT !.members = @ \ {m}, !.item = 1, !.target = <<>>]

\* An exception ends this member, not the run.
GoPast(m) ==
    copying' = IF copying.members = {m} THEN NoCopy
            ELSE [copying EXCEPT !.members = @ \ {m}, !.item = 1, !.target = <<>>]

Here == <<Sources[copying.item], 0>>
Stands(m, n) == folder[m][n] # NoContent
decideAction(existing, policy) ==
    IF ~existing THEN "create" ELSE policy

\* availableName: the first number that is free.
availableName(m, n) ==
    LET free == {k \in 1..MaxNumber : ~Stands(m, <<n[1], k>>)}
    IN  <<n[1], Min(free)>>

Count(m, what) == report' = [report EXCEPT ![m][what] = @ + 1]

Skip(m) ==
    /\ Running(m) /\ copying.target = <<>>
    /\ decideAction(Stands(m, Here), copying.policy) = "skip"
    /\ Count(m, "skipped") /\ Go(m)
    /\ UNCHANGED <<folder, copies, intrusions, badWrites, disturbed>>

Overwrite(m) ==
    /\ Running(m) /\ copying.target = <<>>
    /\ decideAction(Stands(m, Here), copying.policy) = "overwrite"
    /\ folder' = [folder EXCEPT ![m][Here] = Copied(copies)]
    /\ Count(m, "written") /\ Go(m)
    /\ UNCHANGED <<copies, intrusions, badWrites, disturbed>>

\* The folders above the target are made before it is: the choice may be old by then.
ChooseTarget(m) ==
    /\ Running(m) /\ copying.target = <<>>
    /\ decideAction(Stands(m, Here), copying.policy) \in {"create", "rename"}
    /\ Stands(m, Here) => \E k \in 1..MaxNumber : ~Stands(m, <<Here[1], k>>)
    /\ copying' = [copying EXCEPT !.target = IF Stands(m, Here) THEN availableName(m, Here) ELSE Here]
    /\ UNCHANGED <<folder, report, copies, intrusions, badWrites, disturbed>>

\* vault.create refuses a path that exists.
Create(m) ==
    /\ Running(m) /\ copying.target # <<>>
    /\ IF Stands(m, copying.target)
       THEN /\ report' = [report EXCEPT ![m].failed = TRUE]
            /\ GoPast(m)
            /\ UNCHANGED folder
       ELSE /\ folder' = [folder EXCEPT ![m][copying.target] = Copied(copies)]
            /\ Count(m, "written") /\ Go(m)
    /\ UNCHANGED <<copies, intrusions, badWrites, disturbed>>

\* Faulty WriteFails: the failure counts as skipped, and the member as done.
FailsUnnoticed(m) ==
    /\ Running(m) /\ badWrites < MaxBadWrites
    /\ badWrites' = badWrites + 1
    /\ Count(m, "skipped") /\ Go(m)
    /\ UNCHANGED <<folder, copies, intrusions, disturbed>>

WriteFails(m) ==
    /\ Running(m) /\ badWrites < MaxBadWrites
    /\ badWrites' = badWrites + 1
    /\ report' = [report EXCEPT ![m].failed = TRUE]
    /\ GoPast(m)
    /\ UNCHANGED <<folder, copies, intrusions, disturbed>>

\* The synchronisation, or the user, creates or removes a file.
Intrudes(m, n, present) ==
    /\ intrusions < MaxIntrusions /\ Stands(m, n) # present
    /\ intrusions' = intrusions + 1
    /\ folder' = [folder EXCEPT ![m][n] = IF present THEN Other ELSE NoContent]
    /\ disturbed' = disturbed \cup {m}
    /\ UNCHANGED <<copying, report, copies, badWrites>>

CopyNext ==
    \/ \E policy \in Policies, members \in SUBSET Receivers : CopyBegins(policy, members)
    \/ \E m \in Receivers : Skip(m) \/ Overwrite(m) \/ ChooseTarget(m) \/ Create(m) \/ WriteFails(m)
                            \/ \E n \in Names, present \in BOOLEAN : Intrudes(m, n, present)
CopySpec == CopyInit /\ [][CopyNext]_copyVars

-----------------------------------------------------------------------------
(* ReportIsTrue: what the table says when a copy has ended is so: a member     *)
(* that is not marked as failed has every file, as the policy wants it, and    *)
(* every file is counted; members in whose folder somebody else has written    *)
(* meanwhile are excepted (BulkCopy.ts:24, DeploySection.ts:157-169).          *)
ReportIsTrue ==
    copying = NoCopy =>
        \A m \in Receivers :
            \/ report[m].policy = "none" \/ report[m].failed \/ m \in disturbed
            \/ /\ report[m].written + report[m].skipped = Len(Sources)
               /\ \A s \in ToSet(Sources) :
                    CASE report[m].policy = "skip" -> Stands(m, <<s, 0>>)
                      [] report[m].policy = "overwrite" -> folder[m][<<s, 0>>] = Copied(copies)
                      [] report[m].policy = "rename" ->
                            \E k \in 0..MaxNumber : folder[m][<<s, k>>] = Copied(copies)
=============================================================================
