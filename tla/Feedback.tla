------------------------------ MODULE Feedback ------------------------------
(***************************************************************************)
(* The feedback tab: remarks about a note live in the database of the note *)
(* (FeedbackStore), the tab lists those of the active note or all that are *)
(* unresolved (FeedbackSection), and draws again whenever the active file  *)
(* or a remark changes.  Every drawing reads the databases first; a later  *)
(* one outdates it.                                                        *)
(*                                                                         *)
(* Every note is synchronised and in a database of its own; the tab is     *)
(* built anew each time the panel shows it.  Reading does not fail.        *)
(***************************************************************************)
EXTENDS Naturals, FiniteSets

CONSTANTS Remarks,          \* ids of remarks
          RemarkNotes, Elsewhere,   \* files with a link, and any other
          MaxRemarkChanges, \* bounds: remarks written; files, tabs and views changed;
          MaxGlances, MaxListings   \* lists being read at once

ASSUME FeedbackAssumption ==
    /\ Elsewhere \notin RemarkNotes
    /\ {MaxRemarkChanges, MaxGlances, MaxListings} \subseteq Nat

VARIABLES
    remarks,    \* FeedbackDoc by id: revision, note, resolved, deleted; revision 0 for none
    active,     \* the active file
    tab,        \* the section: open, viewMode, renderedPath
    drawn,      \* its cards, as they were read
    listings,   \* lists being read; latest: its sequence number is still renderSeq
    untold,     \* a remark was written and the listeners have not been told
    strayed,    \* history: the file drawn last became active again while another's list was read
    remarkTally

feedbackVars == <<remarks, active, tab, drawn, listings, untold, strayed, remarkTally>>

AllUnresolved == "*all*"
NothingDrawn == "null"
ClosedTab == [open |-> FALSE, mode |-> "current", rendered |-> NothingDrawn]

Remark(rev, note, resolved, deleted) ==
    [rev |-> rev, note |-> note, resolved |-> resolved, deleted |-> deleted]
Card(r) == [id |-> r, doc |-> remarks[r]]

\* listFor, and what listAllUnresolved takes of one database.
listFor(note) == {Card(r) : r \in {q \in Remarks : /\ remarks[q].rev > 0 /\ remarks[q].note = note
                                                   /\ ~remarks[q].deleted}}
listUnresolved(note) == {c \in listFor(note) : ~c.doc.resolved}

FeedbackInit ==
    /\ remarks \in [Remarks -> {Remark(0, Elsewhere, FALSE, FALSE)}
                             \cup {Remark(1, note, FALSE, FALSE) : note \in RemarkNotes}]
    /\ active \in RemarkNotes \cup {Elsewhere}
    /\ tab = ClosedTab /\ drawn = {} /\ listings = {}
    /\ untold = FALSE /\ strayed = FALSE
    /\ remarkTally = [changes |-> 0, glances |-> 0]

Tallies(what, most) == remarkTally[what] < most /\ remarkTally' = [remarkTally EXCEPT ![what] = @ + 1]

----------------------------------------------------------------------------
(* Drawing                                                                 *)

\* ++renderSeq
OlderLists == {[l EXCEPT !.latest = FALSE] : l \in listings}

\* renderList: what is under way is outdated; without a note of a link there is nothing to read.
RenderList(t, leaf) ==
    /\ strayed' = FALSE
    /\ IF t.mode = "all" \/ leaf \in RemarkNotes
       THEN /\ Cardinality(listings) < MaxListings
            /\ listings' = OlderLists \cup
                   {[latest |-> TRUE, mode |-> t.mode, note |-> leaf, found |-> {},
                     left |-> IF t.mode = "all" THEN RemarkNotes ELSE {leaf}]}
            /\ tab' = t /\ UNCHANGED drawn
       ELSE drawn' = {} /\ tab' = [t EXCEPT !.rendered = leaf] /\ listings' = OlderLists

\* Faulty Outdated: the list that was asked for last is not told from the others.
NeverOutdated(l) == ~tab.open
Outdated(l) == ~l.latest \/ ~tab.open

\* The databases are read one after the other.
ReadRemarks(l, note) ==
    /\ note \in l.left
    /\ listings' = (listings \ {l}) \cup
           {[l EXCEPT !.left = @ \ {note},
                      !.found = @ \cup IF l.mode = "all" THEN listUnresolved(note) ELSE listFor(note)]}
    /\ UNCHANGED <<remarks, active, tab, drawn, untold, strayed, remarkTally>>

ShowRemarks(l) ==
    /\ l.left = {} /\ listings' = listings \ {l}
    /\ IF Outdated(l) THEN UNCHANGED <<drawn, tab>>
       ELSE /\ drawn' = l.found
            /\ tab' = [tab EXCEPT !.rendered = IF l.mode = "all" THEN AllUnresolved ELSE l.note]
    /\ UNCHANGED <<remarks, active, untold, strayed, remarkTally>>

----------------------------------------------------------------------------
(* The user                                                                *)

\* onLeafChange: the tab draws again if the file is not the one it shows.
ActivateFile(leaf) ==
    /\ leaf # active /\ active' = leaf /\ Tallies("glances", MaxGlances)
    /\ IF tab.open /\ tab.mode = "current" /\ leaf # tab.rendered THEN RenderList(tab, leaf)
       ELSE /\ UNCHANGED <<tab, drawn, listings>>
            /\ strayed' = (strayed \/ \E l \in listings : ~Outdated(l) /\ tab.mode = "current")
    /\ UNCHANGED <<remarks, untold>>

ToggleView ==
    /\ tab.open /\ Tallies("glances", MaxGlances)
    /\ RenderList([tab EXCEPT !.mode = IF @ = "all" THEN "current" ELSE "all",
                              !.rendered = NothingDrawn], active)
    /\ UNCHANGED <<remarks, active, untold>>

ShowFeedback ==
    /\ ~tab.open /\ Tallies("glances", MaxGlances)
    /\ RenderList([ClosedTab EXCEPT !.open = TRUE], active)
    /\ UNCHANGED <<remarks, active, untold>>

\* dispose; what the old section was reading finds no list to draw in.
LeaveFeedback ==
    /\ tab.open /\ Tallies("glances", MaxGlances)
    /\ tab' = ClosedTab /\ drawn' = {} /\ listings' = OlderLists /\ strayed' = FALSE
    /\ UNCHANGED <<remarks, active, untold>>

WriteRemark(r, doc) == remarks' = [remarks EXCEPT ![r] = [doc EXCEPT !.rev = @ + 1]] /\ untold' = TRUE

\* resolveMarkdownView: the active note; from the list of all, perhaps the one whose list was
\* drawn before (currentPath).
Addressed(note) == active = note \/ (tab.open /\ tab.mode = "all")

AddFeedback(r, note) ==
    /\ Addressed(note)
    /\ remarks[r].rev = 0 /\ Tallies("changes", MaxRemarkChanges)
    /\ WriteRemark(r, Remark(0, note, FALSE, FALSE))
    /\ UNCHANGED <<active, tab, drawn, listings, strayed>>

\* setResolved and remove write the remark as the card holds it; if it has changed since, the
\* database refuses, and nobody is told.
PutRemark(c, doc) ==
    /\ c.doc.rev = remarks[c.id].rev
    /\ WriteRemark(c.id, doc)
SetResolved(c) ==
    /\ c \in drawn /\ Tallies("changes", MaxRemarkChanges)
    /\ PutRemark(c, [c.doc EXCEPT !.resolved = ~@])
    /\ UNCHANGED <<active, tab, drawn, listings, strayed>>
RemoveRemark(c) ==
    /\ c \in drawn /\ Tallies("changes", MaxRemarkChanges)
    /\ PutRemark(c, [c.doc EXCEPT !.deleted = TRUE])
    /\ UNCHANGED <<active, tab, drawn, listings, strayed>>

----------------------------------------------------------------------------
\* A remark written on another device is replicated.
RemarkArrives(r) ==
    /\ Tallies("changes", MaxRemarkChanges)
    /\ \E note \in RemarkNotes, resolved, deleted \in BOOLEAN :
          /\ remarks[r].rev > 0 => note = remarks[r].note
          /\ WriteRemark(r, Remark(remarks[r].rev, note, resolved, deleted))
    /\ UNCHANGED <<active, tab, drawn, listings, strayed>>

\* notify: after a write of this device, and when the feed reports one.
TellListeners ==
    /\ untold /\ untold' = FALSE
    /\ IF tab.open THEN RenderList(tab, active)
       ELSE UNCHANGED <<tab, drawn, listings, strayed>>
    /\ UNCHANGED <<remarks, active, remarkTally>>

FeedbackNext ==
    \/ \E leaf \in RemarkNotes \cup {Elsewhere} : ActivateFile(leaf)
    \/ ToggleView \/ ShowFeedback \/ LeaveFeedback \/ TellListeners
    \/ \E r \in Remarks : RemarkArrives(r) \/ \E note \in RemarkNotes : AddFeedback(r, note)
    \/ \E c \in drawn : SetResolved(c) \/ RemoveRemark(c)
    \/ \E l \in listings : ShowRemarks(l) \/ \E note \in RemarkNotes : ReadRemarks(l, note)

FeedbackSpec == FeedbackInit /\ [][FeedbackNext]_feedbackVars

----------------------------------------------------------------------------
(* FeedbackIsShown: once every list asked for has been read and the listeners *)
(* have been told, the tab shows the remarks about the active file, or all    *)
(* that are unresolved, as they stand; excepted is a file that became active  *)
(* again before the list of another was drawn (FeedbackSection.ts:62-97).     *)
FeedbackIsShown ==
    tab.open /\ ~untold /\ ~strayed /\ (\A l \in listings : Outdated(l)) =>
        drawn = IF tab.mode = "all" THEN UNION {listUnresolved(note) : note \in RemarkNotes}
                ELSE listFor(active)
============================================================================
