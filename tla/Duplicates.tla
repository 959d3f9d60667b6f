----------------------------- MODULE Duplicates -----------------------------
(***************************************************************************)
(* Reducing a note whose whole content stands in it several times: the     *)
(* search for exact repetition (dedupRepeat.ts) and the command that backs *)
(* the note up and writes one copy (RepairController.cleanupDuplicates),   *)
(* while the user and the synchronisation go on writing notes.             *)
(*                                                                         *)
(* A text is a sequence of letters; every word of Alphabet up to MaxLength *)
(* occurs.  A backup is named by the time it is made, so none is replaced. *)
(***************************************************************************)
EXTENDS Integers, Sequences, SequencesExt, FiniteSets

CONSTANTS
    Alphabet, MaxLength,  \* texts
    MinUnit,              \* MIN_UNIT_CHARS
    NoteFiles,            \* notes under the shared folders
    MaxCleanups, MaxWrites, MaxRefusals   \* bounds

ASSUME DuplicatesAssumption ==
    /\ {MaxLength, MaxCleanups, MaxWrites, MaxRefusals} \subseteq Nat /\ MinUnit \in Nat \ {0}

Contents == UNION {[1..n -> Alphabet] : n \in 0..MaxLength}

VARIABLES
    content,     \* of each note
    backups,     \* what stands in the conflict folder
    cleanup,     \* where the command is: no, scan, ask, read, backup or write of a note
    candidates,  \* notes still to be looked at, and what the scan found in them
    found,         \* the unit of the repetition last read
    collapsed,   \* what has been replaced by what (history)
    written,     \* notes written since the command last read them (history)
    cleanups, writes, refusals            \* bounds

duplicatesVars == <<content, backups, cleanup, candidates, found, collapsed, written, cleanups, writes,
                    refusals>>

\* smallestPeriod: the failure function of Knuth, Morris and Pratt.  fail[i] is the length of
\* the longest proper prefix of s[1..i] that is its suffix as well.
failures(s) ==
    LET fail[i \in 1..Len(s)] ==
            LET border[j \in 0..i - 1] ==
                    IF j > 0 /\ s[i] # s[j + 1] THEN border[fail[j]]
                    ELSE IF s[i] = s[j + 1] THEN j + 1 ELSE j
            IN  IF i = 1 THEN 0 ELSE border[fail[i - 1]]
    IN  fail

smallestPeriod(s) == IF s = <<>> THEN 0 ELSE Len(s) - failures(s)[Len(s)]

NoHit == <<>>
\* detectPeriodicRepeat: the unit of an exact repetition that is not too short.
detectPeriodicRepeat(s) ==
    LET p == smallestPeriod(s)
    IN  IF Len(s) >= 2 * MinUnit /\ p < Len(s) /\ Len(s) % p = 0 /\ p >= MinUnit
        THEN SubSeq(s, 1, p) ELSE NoHit

Stage(step) == <<step>>

DuplicatesInit ==
    /\ content \in [NoteFiles -> Contents] /\ backups = {}
    /\ cleanup = Stage("no") /\ candidates = {} /\ found = NoHit
    /\ collapsed = {} /\ written = {}
    /\ cleanups = 0 /\ writes = 0 /\ refusals = 0

\* scanDuplicates, one note after the other: what is found is listed for the question.
StartCleanup ==
    /\ cleanup = Stage("no") /\ cleanups < MaxCleanups
    /\ cleanup' = Stage("scan") /\ cleanups' = cleanups + 1
    /\ UNCHANGED <<content, backups, candidates, found, collapsed, written, writes, refusals>>

ScanEnds ==
    /\ cleanup = Stage("scan")
    /\ candidates' = {f \in NoteFiles : detectPeriodicRepeat(content[f]) # NoHit}
    /\ cleanup' = Stage(IF candidates' = {} THEN "no" ELSE "ask")
    /\ UNCHANGED <<content, backups, found, collapsed, written, cleanups, writes, refusals>>

Answered(yes) ==
    /\ cleanup = Stage("ask")
    /\ cleanup' = Stage(IF yes THEN "read" ELSE "no")
    /\ candidates' = IF yes THEN candidates ELSE {}
    /\ UNCHANGED <<content, backups, found, collapsed, written, cleanups, writes, refusals>>

Continue(left) == /\ candidates' = left
               /\ cleanup' = Stage(IF left = {} THEN "no" ELSE "read")

\* What the note holds by now decides.
ReadsAgain(f) ==
    /\ cleanup = Stage("read") /\ f \in candidates
    /\ found' = detectPeriodicRepeat(content[f])
    /\ written' = written \ {f}
    /\ IF found' = NoHit THEN Continue(candidates \ {f})
       ELSE cleanup' = <<"backup", f>> /\ UNCHANGED candidates
    /\ UNCHANGED <<content, backups, collapsed, cleanups, writes, refusals>>

\* Faulty BackUp: what is kept is the unit, not the note.
BackUpUnit(f) ==
    /\ cleanup = <<"backup", f>>
    /\ backups' = backups \cup {found}
    /\ cleanup' = <<"write", f>>
    /\ UNCHANGED <<content, candidates, found, collapsed, written, cleanups, writes, refusals>>

\* backupBeforeCollapse reads the note once more.
BackUp(f) ==
    /\ cleanup = <<"backup", f>>
    /\ backups' = backups \cup {content[f]}
    /\ cleanup' = <<"write", f>>
    /\ UNCHANGED <<content, candidates, found, collapsed, written, cleanups, writes, refusals>>

Collapse(f) ==
    /\ cleanup = <<"write", f>>
    /\ content' = [content EXCEPT ![f] = found]
    /\ collapsed' = collapsed \cup {[of |-> f, from |-> content[f], to |-> found, raced |-> f \in written]}
    /\ Continue(candidates \ {f})
    /\ UNCHANGED <<backups, found, written, cleanups, writes, refusals>>

\* A failing backup or write is logged, and the next note is taken.
CollapseFails(f) ==
    /\ cleanup \in {<<"backup", f>>, <<"write", f>>}
    /\ refusals < MaxRefusals /\ refusals' = refusals + 1
    /\ Continue(candidates \ {f})
    /\ UNCHANGED <<content, backups, found, collapsed, written, cleanups, writes>>

\* The user or the synchronisation writes the note; the command is not told.
NoteWritten(f, text) ==
    /\ writes < MaxWrites /\ text # content[f]
    /\ writes' = writes + 1
    /\ content' = [content EXCEPT ![f] = text]
    /\ written' = IF cleanup = Stage("no") THEN {} ELSE written \cup {f}
    /\ UNCHANGED <<backups, cleanup, candidates, found, collapsed, cleanups, refusals>>

DuplicatesNext ==
    \/ StartCleanup \/ ScanEnds \/ \E yes \in BOOLEAN : Answered(yes)
    \/ \E f \in NoteFiles : ReadsAgain(f) \/ BackUp(f) \/ Collapse(f) \/ CollapseFails(f)
                            \/ \E text \in Contents : NoteWritten(f, text)

-----------------------------------------------------------------------------
Times(u, k) == [i \in 1..k * Len(u) |-> u[((i - 1) % Len(u)) + 1]]
Repeats(s, u) == u # <<>> /\ Len(s) > Len(u) /\ \E k \in 2..Len(s) : s = Times(u, k)
PrefixesOf(s) == {SubSeq(s, 1, n) : n \in 1..Len(s)}

(* CollapsesExactly: what the command replaces is an exact repetition of what  *)
(* it leaves, which repeats nothing itself, and the whole note stands in a     *)
(* backup; a note written between the last look at it and the write is         *)
(* excepted (dedupRepeat.ts:8-10, RepairController.ts:158-159).                *)
CollapsesExactly ==
    \A c \in collapsed :
        \/ c.raced
        \/ /\ Repeats(c.from, c.to) /\ Len(c.to) >= MinUnit
           /\ \A u \in PrefixesOf(c.to) : ~Repeats(c.to, u)
           /\ c.from \in backups
=============================================================================
