------------------------------ MODULE Conflicts ------------------------------
(***************************************************************************)
(* Counting the conflicts of one link.  The changes feed keeps the set     *)
(* conflictIds up to date (LocalApplier), the start of the link fills it   *)
(* once (MirrorSync.refreshConflictIds), and whoever looks at a conflict   *)
(* whose leaves all say what the file says removes it on the spot          *)
(* (ConflictManager.collapseIdentical): the feed, the start, and the list  *)
(* a person opens.  Each reads the leaves, then the file, then acts.       *)
(*                                                                         *)
(* A leaf is its rank, the highest wins, and its text.  An edit of the     *)
(* user is uploaded at once, nothing is deleted, no session is open.       *)
(***************************************************************************)
EXTENDS Naturals, Sequences, FiniteSets

CONSTANTS Pages, Attachments,  \* ids of note and asset documents
          Contents,            \* what a file may say
          MaxWritings          \* bound: leaves written, lists opened, resolutions

ASSUME ConflictsAssumption ==
    /\ Pages \cap Attachments = {} /\ MaxWritings \in Nat

VARIABLES
    syncAssets,  \* settings.syncAssets
    branches,      \* of each document in the local replica
    fileSays,       \* what its file says
    conflictIds, \* ctx.conflictIds
    unreported,  \* documents written since the changes feed last read them
    changes,     \* what the feed reported and the queue has not applied
    jobs,        \* what the feed, the start and the list are looking at
    rows,        \* the list of the conflict window
    overtaken,   \* history: judged, after the feed was done with them, by what they were before
    writings     \* leaves written, lists opened, resolutions

conflictVars == <<syncAssets, branches, fileSays, conflictIds, unreported, changes, jobs, rows,
                  overtaken, writings>>

Docs == Pages \cup Attachments
Winning(ls) == CHOOSE l \in ls : \A k \in ls : k.rank <= l.rank
_conflicts(ls) == ls \ {Winning(ls)}
Seen(d) == [doc |-> d, branches |-> branches[d]]

\* listConflicts and listAssetConflicts
WithConflicts(docs) == {Seen(d) : d \in {e \in docs : _conflicts(branches[e]) # {}}}

\* A job looks at one document after the other; at most one is in hand.
Lookers == {"feed", "start", "list"}
NoJob == [todo |-> {}, hand |-> {}, step |-> "rest"]
AtWork(who) == jobs[who].step # "rest"

ConflictsInit ==
    /\ syncAssets \in BOOLEAN
    /\ fileSays \in [Docs -> Contents]
    /\ branches \in [Docs -> {{[rank |-> 1, text |-> c]} : c \in Contents}
                      \cup {{[rank |-> 1, text |-> c], [rank |-> 2, text |-> e]} : c, e \in Contents}]
    /\ \A d \in Docs : \E l \in branches[d] : l.text = fileSays[d]
    /\ conflictIds = {} /\ unreported = {} /\ changes = <<>> /\ rows = {} /\ overtaken = {}
    /\ jobs = [who \in Lookers |-> IF who = "start" THEN [NoJob EXCEPT !.step = "clear"] ELSE NoJob]
    /\ writings = 0

----------------------------------------------------------------------------
(* Writers                                                                 *)

NextRank(d) == Winning(branches[d]).rank + 1
Write(d, ls) == branches' = [branches EXCEPT ![d] = ls] /\ unreported' = unreported \cup {d}
Bounded == writings < MaxWritings /\ writings' = writings + 1

\* The user saves the file and the upload puts it on the winner.
SaveFile(d, text) ==
    /\ Bounded /\ text # fileSays[d] /\ fileSays' = [fileSays EXCEPT ![d] = text]
    /\ Write(d, _conflicts(branches[d]) \cup {[rank |-> NextRank(d), text |-> text]})
    /\ UNCHANGED <<syncAssets, conflictIds, changes, jobs, rows, overtaken>>

\* Replication brings a leaf of its own, one on top of another, or a resolution.
LeafArrives(d, text, below) ==
    /\ Bounded /\ below \in SUBSET branches[d] /\ Cardinality(branches[d] \ below) < 2
    /\ Write(d, (branches[d] \ below) \cup {[rank |-> NextRank(d), text |-> text]})
    /\ UNCHANGED <<syncAssets, fileSays, conflictIds, changes, jobs, rows, overtaken>>

----------------------------------------------------------------------------
(* The changes feed                                                        *)

Report(d) ==
    /\ d \in unreported /\ unreported' = unreported \ {d}
    /\ changes' = Append(changes, Seen(d))
    /\ UNCHANGED <<syncAssets, branches, fileSays, conflictIds, jobs, rows, overtaken, writings>>

\* Faulty Counted: a document is counted and stays counted.
CountedOnly(change) ==
    IF _conflicts(change.branches) # {} THEN conflictIds \cup {change.doc} ELSE conflictIds
Counted(change) ==
    IF _conflicts(change.branches) # {} THEN conflictIds \cup {change.doc} ELSE conflictIds \ {change.doc}

\* applyChange: count, then applyDoc or applyAsset: a conflict of a note is looked at, a
\* document without conflict is written to the file, unless this device made it (whose
\* it is the model leaves open).
ApplyChange ==
    /\ changes # <<>> /\ ~AtWork("feed")
    /\ LET change == Head(changes) d == change.doc IN
       /\ changes' = Tail(changes)
       /\ conflictIds' = Counted(change)
       /\ overtaken' = overtaken \ {d}
       /\ IF _conflicts(change.branches) = {}
          THEN /\ \/ /\ d \in Pages \/ syncAssets
                     /\ fileSays' = [fileSays EXCEPT ![d] = Winning(change.branches).text]
                  \/ UNCHANGED fileSays
               /\ UNCHANGED jobs
          ELSE /\ jobs' = IF d \in Pages
                          THEN [jobs EXCEPT !["feed"] = [todo |-> {}, hand |-> {change}, step |-> "look"]]
                          ELSE jobs
               /\ UNCHANGED fileSays
    /\ UNCHANGED <<syncAssets, branches, unreported, rows, writings>>

----------------------------------------------------------------------------
(* Looking at conflicts                                                    *)

\* refreshConflictIds, once: forget, then list the notes, then the attachments.
StartClears ==
    /\ jobs["start"].step = "clear"
    /\ conflictIds' = {}
    /\ jobs' = [jobs EXCEPT !["start"] = [todo |-> WithConflicts(Pages), hand |-> {}, step |-> "notes"]]
    /\ UNCHANGED <<syncAssets, branches, fileSays, unreported, changes, rows, overtaken, writings>>

\* render: the window lists anew when it is opened, and after it resolved something.
ListAnew ==
    /\ rows' = {}
    /\ jobs' = [jobs EXCEPT !["list"] = [todo |-> WithConflicts(Pages), hand |-> {}, step |-> "notes"]]
    /\ UNCHANGED <<syncAssets, branches, fileSays, conflictIds, unreported, changes, overtaken>>
OpenList == ~AtWork("list") /\ WithConflicts(Docs) # {} /\ Bounded /\ ListAnew
ListAgain == jobs["list"].step = "resolve" /\ jobs["list"].todo = {} /\ ListAnew /\ UNCHANGED writings

Take(who, seen) ==
    /\ jobs[who].step = "notes" /\ seen \in jobs[who].todo
    /\ jobs' = [jobs EXCEPT ![who] = [todo |-> @.todo \ {seen}, hand |-> {seen}, step |-> "look"]]
    /\ UNCHANGED <<syncAssets, branches, fileSays, conflictIds, unreported, changes, rows, overtaken, writings>>

\* pickRemoteLeaf: is there a leaf that says something else than the file?
Look(who, seen) ==
    /\ jobs[who].step = "look" /\ seen \in jobs[who].hand
    /\ jobs' = [jobs EXCEPT ![who].step =
                   IF \E l \in seen.branches : l.text # fileSays[seen.doc] THEN "keep" ELSE "collapse"]
    /\ UNCHANGED <<syncAssets, branches, fileSays, conflictIds, unreported, changes, rows, overtaken, writings>>

\* The feed is done; the others go on with the next note.
LookedAt(who) == jobs' = [jobs EXCEPT ![who].hand = {}, ![who].step = IF who = "feed" THEN "rest" ELSE "notes"]

\* What was read is no more, and no change of it is still to be applied.
Stale(seen) ==
    /\ seen.branches # branches[seen.doc] /\ seen.doc \notin unreported
    /\ \A k \in DOMAIN changes : changes[k].doc # seen.doc
Judged(stale) == overtaken' = overtaken \cup {seen.doc : seen \in stale}

\* materialize and listNotes: a real conflict.
KeepNote(who, seen) ==
    /\ jobs[who].step = "keep" /\ seen \in jobs[who].hand
    /\ conflictIds' = IF who = "start" THEN conflictIds \cup {seen.doc} ELSE conflictIds
    /\ rows' = IF who = "list" THEN rows \cup {seen.doc} ELSE rows
    /\ Judged({s \in {seen} : who = "start" /\ Stale(s)}) /\ LookedAt(who)
    /\ UNCHANGED <<syncAssets, branches, fileSays, unreported, changes, writings>>

\* collapseIdentical: remove the leaves that lost, as far as they are leaves, and count down.
Collapse(who, seen) ==
    LET d == seen.doc
        removed == _conflicts(seen.branches) \cap branches[d]
    IN /\ jobs[who].step = "collapse" /\ seen \in jobs[who].hand
       /\ IF removed = {} THEN UNCHANGED <<branches, unreported>> ELSE Write(d, branches[d] \ removed)
       /\ conflictIds' = conflictIds \ {d}
       /\ Judged({s \in {seen} : removed = {} /\ Stale(s)}) /\ LookedAt(who)
       /\ UNCHANGED <<syncAssets, fileSays, changes, rows, writings>>

\* Attachments are taken as they are listed.
ListAttachments(who) ==
    /\ jobs[who].step = "notes" /\ jobs[who].todo = {} /\ who # "feed"
    /\ jobs' = [jobs EXCEPT ![who].todo = IF who = "start" \/ syncAssets THEN WithConflicts(Attachments) ELSE {},
                            ![who].step = "attachments"]
    /\ UNCHANGED <<syncAssets, branches, fileSays, conflictIds, unreported, changes, rows, overtaken, writings>>
KeepAttachments(who) ==
    LET listed == {seen.doc : seen \in jobs[who].todo} IN
    /\ jobs[who].step = "attachments"
    /\ conflictIds' = IF who = "start" THEN conflictIds \cup listed ELSE conflictIds
    /\ rows' = IF who = "list" THEN rows \cup listed ELSE rows
    /\ Judged({s \in jobs[who].todo : who = "start" /\ Stale(s)})
    /\ jobs' = [jobs EXCEPT ![who] = NoJob]
    /\ UNCHANGED <<syncAssets, branches, fileSays, unreported, changes, writings>>

\* act and actAll: one row, or all of them in turn.
Choose(which) ==
    /\ Bounded /\ ~AtWork("list") /\ which # {}
    /\ jobs' = [jobs EXCEPT !["list"] = [todo |-> {Seen(d) : d \in which}, hand |-> {}, step |-> "resolve"]]
    /\ UNCHANGED <<syncAssets, branches, fileSays, conflictIds, unreported, changes, rows, overtaken>>

\* resolve: one text goes on the winner, the other leaves are removed.
Resolve(seen) ==
    LET d == seen.doc IN
    /\ jobs["list"].step = "resolve" /\ seen \in jobs["list"].todo
    /\ jobs' = [jobs EXCEPT !["list"].todo = @ \ {seen}]
    /\ IF _conflicts(branches[d]) = {} THEN UNCHANGED <<branches, unreported, fileSays>>
       ELSE \E text \in {fileSays[d]} \cup {l.text : l \in branches[d]} :
               /\ fileSays' = [fileSays EXCEPT ![d] = text]
               /\ Write(d, {[rank |-> NextRank(d), text |-> text]})
    /\ UNCHANGED <<syncAssets, conflictIds, changes, rows, overtaken, writings>>

ConflictsNext ==
    \/ \E d \in Docs : Report(d) \/ Choose({d} \cap rows)
    \/ \E d \in Docs, text \in Contents :
          SaveFile(d, text) \/ \E below \in SUBSET branches[d] : LeafArrives(d, text, below)
    \/ ApplyChange \/ StartClears \/ OpenList \/ Choose(rows) \/ ListAgain
    \/ \E seen \in jobs["list"].todo : Resolve(seen)
    \/ \E who \in Lookers :
          \/ ListAttachments(who) \/ KeepAttachments(who)
          \/ \E seen \in jobs[who].todo : Take(who, seen)
          \/ \E seen \in jobs[who].hand : Look(who, seen) \/ KeepNote(who, seen) \/ Collapse(who, seen)

ConflictsSpec == ConflictsInit /\ [][ConflictsNext]_conflictVars

----------------------------------------------------------------------------
\* conflictCount leaves out what the list does not show.
conflictCount == Cardinality({d \in conflictIds : d \in Pages \/ syncAssets})

\* What a person has to resolve.
Unresolved ==
    {d \in Docs : /\ _conflicts(branches[d]) # {}
                  /\ IF d \in Attachments THEN syncAssets ELSE \E l \in branches[d] : l.text # fileSays[d]}

Quiet == unreported = {} /\ changes = <<>> /\ \A who \in Lookers : ~AtWork(who)

(* BadgeIsTrue: once every change has been applied and nobody is looking, the  *)
(* badge counts exactly the conflicts a person has to resolve, the removed     *)
(* ones of equal texts not among them; excepted are documents the start or the *)
(* list judged by leaves that had changed since, with the change applied       *)
(* already (MirrorSync.ts:424-462, ConflictManager.ts:312-331).                *)
BadgeIsTrue == Quiet /\ overtaken = {} => conflictCount = Cardinality(Unresolved)
============================================================================
