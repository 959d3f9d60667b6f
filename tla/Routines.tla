------------------------------- MODULE Routines -------------------------------
(***************************************************************************)
(* The checklist of a member, as the dashboard of the panel shows it.  A   *)
(* tap changes the list on screen at once and is saved behind it, one save *)
(* at a time for each list; a save that fails takes the tap back.  Changes *)
(* of the class documents redraw the list after a pause, unless a save is  *)
(* under way or the focus is in the list; redraws read the store in two    *)
(* steps and may overlap.  One routine and one day are modelled.           *)
(***************************************************************************)
EXTENDS Integers, Sequences, FiniteSets, SequencesExt

CONSTANTS
    Items,     \* items a routine may have
    MaxViews,  \* bound: times the checklist is opened
    MaxTaps,   \* bound: taps
    MaxMoves,  \* bound: redraws asked for, edits of the manager, restarts
    MaxReloads,\* bound: reloads under way at once
    MaxLosses  \* bound: saves the store refuses

ASSUME RoutinesAssumption == {MaxViews, MaxTaps, MaxMoves, MaxReloads, MaxLosses} \subseteq Nat

VARIABLES
    routine,   \* the definition: its items, none when deleted
    ticks,     \* the stored state document of the day
    running,   \* whether the mode runs, and with it the links
    page,      \* "none" (another tab), "hub" or "routines"
    opened,    \* checklists opened so far; the last is the active one
    queues,    \* [1..MaxViews -> Seq(save)]: persistQueue of each checklist
    drawing,   \* reloads under way
    lists,     \* the lists on screen, in the order they were added
    focus,     \* whether a checkbox of the panel has the focus
    liveTimer, \* whether a refresh is due
    unheard,   \* whether the feed has a class document to report
    tapped,    \* history: what the last tap on an item asked for, if it counts
    unsure,    \* history: items whose saves failed twice on one list
    overlapped,\* history: a reload began while another was under way
    used       \* bounds: what has been used up

panel == <<drawing, lists, focus, liveTimer>>
history == <<tapped, unsure, overlapped>>
routinesVars == <<routine, ticks, running, page, opened, queues, panel, unheard, history, used>>

Views == 1..MaxViews
Off == 0
On == 1
Unknown == 2
Asks(on) == IF on THEN On ELSE Off
Use(what) == used' = [used EXCEPT ![what] = @ + 1]

RoutinesInit ==
    /\ routine \in {{}, Items} /\ ticks = {} /\ running = TRUE
    /\ page = "hub" /\ opened = 0 /\ queues = [v \in Views |-> <<>>]
    /\ drawing = <<>> /\ lists = <<>> /\ focus = FALSE /\ liveTimer = FALSE /\ unheard = FALSE
    /\ tapped = [i \in Items |-> Unknown] /\ unsure = {} /\ overlapped = FALSE
    /\ used = [taps |-> 0, moves |-> 0, losses |-> 0]

-----------------------------------------------------------------------------
(* Drawing.  The panel is emptied when a reload or another page begins; the *)
(* saves under way keep a list that is no longer on screen.               *)

OffScreen(qs) == [v \in Views |-> [k \in DOMAIN qs[v] |-> [qs[v][k] EXCEPT !.list = 0]]]
Emptied(qs) == lists' = <<>> /\ focus' = FALSE /\ queues' = OffScreen(qs) /\ unsure' = {}

\* A reload stops at once without the class space.
BeginList(v, qs) ==
    /\ Len(drawing) < MaxReloads
    /\ Emptied(qs)
    /\ overlapped' = (drawing # <<>>)
    /\ drawing' = IF running THEN Append(drawing, [view |-> v, at |-> "list", items |-> {}, on |-> {}]) ELSE drawing

Leave(to) ==
    /\ page' = to /\ liveTimer' = FALSE /\ Emptied(queues)
    /\ UNCHANGED <<drawing, opened, overlapped>>
OpenRoutines ==
    /\ page = "hub" /\ opened < MaxViews
    /\ page' = "routines" /\ opened' = opened + 1 /\ liveTimer' = FALSE /\ BeginList(opened + 1, queues)
    /\ UNCHANGED <<routine, ticks, running, unheard, tapped, used>>
\* onReactivate and the arrow lead back to the hub; another tab disposes of the
\* section, and the dashboard begins at the hub again.
BackToHub ==
    /\ page # "hub" /\ Leave("hub")
    /\ UNCHANGED <<routine, ticks, running, unheard, tapped, used>>
OtherTab ==
    /\ page # "none" /\ Leave("none")
    /\ UNCHANGED <<routine, ticks, running, unheard, tapped, used>>
\* Another month or day, or the refresh button.
AskReload ==
    /\ page = "routines" /\ used.moves < MaxMoves /\ Use("moves")
    /\ BeginList(opened, queues)
    /\ UNCHANGED <<routine, ticks, running, page, opened, liveTimer, unheard, tapped>>

Without(k) == RemoveAt(drawing, k)
ReadRoutines(k) ==
    /\ k \in DOMAIN drawing /\ drawing[k].at = "list"
    /\ drawing' = IF running /\ routine # {} THEN [drawing EXCEPT ![k].at = "days", ![k].items = routine] ELSE Without(k)
    /\ UNCHANGED <<routine, ticks, running, page, opened, queues, lists, focus, liveTimer, unheard, history, used>>
ReadDays(k) ==
    /\ k \in DOMAIN drawing /\ drawing[k].at = "days"
    /\ drawing' = [drawing EXCEPT ![k].at = "draw", ![k].on = IF running THEN ticks \cap drawing[k].items ELSE {}]
    /\ UNCHANGED <<routine, ticks, running, page, opened, queues, lists, focus, liveTimer, unheard, history, used>>
RenderMember(k) ==
    /\ k \in DOMAIN drawing /\ drawing[k].at = "draw"
    /\ lists' = Append(lists, [view |-> drawing[k].view, items |-> drawing[k].items, on |-> drawing[k].on])
    /\ drawing' = Without(k)
    /\ UNCHANGED <<routine, ticks, running, page, opened, queues, focus, liveTimer, unheard, history, used>>

-----------------------------------------------------------------------------
(* Taps and their saves.                                                    *)

QueuedElsewhere(v, i) == \E w \in Views \ {v} : \E k \in DOMAIN queues[w] : queues[w][k].item = i
Tap(n, i) ==
    /\ n \in DOMAIN lists /\ i \in lists[n].items /\ used.taps < MaxTaps /\ Use("taps")
    /\ LET v == lists[n].view
           on == i \notin lists[n].on
       IN /\ lists' = [lists EXCEPT ![n].on = IF on THEN @ \cup {i} ELSE @ \ {i}]
          /\ queues' = [queues EXCEPT ![v] = Append(@, [item |-> i, on |-> on, list |-> n, at |-> "queued", got |-> {}])]
          /\ tapped' = [tapped EXCEPT ![i] = IF QueuedElsewhere(v, i) THEN Unknown ELSE Asks(on)]
    /\ focus' = TRUE
    /\ UNCHANGED <<routine, ticks, running, page, opened, drawing, liveTimer, unheard, unsure, overlapped>>
Blur ==
    /\ focus /\ focus' = FALSE
    /\ UNCHANGED <<routine, ticks, running, page, opened, queues, drawing, lists, liveTimer, unheard, history, used>>

\* Faulty Runnable: a save does not wait for the one before it.
AllAtOnce(v) == DOMAIN queues[v]
\* The saves of a list that may run: the first.
Runnable(v) == DOMAIN queues[v] \cap {1}
Pop(v, k) == [queues EXCEPT ![v] = RemoveAt(@, k)]
\* update drawing the document, and drawing it again when another save has written
\* it since.
SaveRead(v, k) ==
    /\ k \in Runnable(v)
    /\ queues[v][k].at = "again" \/ (queues[v][k].at = "queued" /\ running)
    /\ queues' = [queues EXCEPT ![v][k].at = "read", ![v][k].got = ticks]
    /\ UNCHANGED <<routine, ticks, running, page, opened, panel, unheard, history, used>>
Refused(save) == IF save.at = "read" THEN [save EXCEPT !.at = "again", !.got = {}] ELSE save
SaveWrite(v, k) ==
    /\ k \in Runnable(v) /\ queues[v][k].at = "read"
    /\ LET save == queues[v][k]
       IN ticks' = IF save.on THEN save.got \cup {save.item} ELSE save.got \ {save.item}
    /\ unheard' = TRUE
    /\ queues' = [w \in Views |-> [j \in DOMAIN Pop(v, k)[w] |-> Refused(Pop(v, k)[w][j])]]
    /\ UNCHANGED <<routine, running, page, opened, panel, history, used>>
\* No link, or the store refuses: the tap is taken back on its list.
SaveFails(v, k) ==
    /\ k \in Runnable(v)
    /\ IF running \/ queues[v][k].at # "queued" THEN used.losses < MaxLosses /\ Use("losses") ELSE UNCHANGED used
    /\ LET save == queues[v][k]
       IN /\ lists' = IF save.list = 0 THEN lists
                      ELSE [lists EXCEPT ![save.list].on = IF save.on THEN @ \ {save.item} ELSE @ \cup {save.item}]
          /\ tapped' = [tapped EXCEPT ![save.item] = Unknown]
          /\ unsure' = IF \E j \in DOMAIN queues[v] : j # k /\ queues[v][j].item = save.item
                       THEN unsure \cup {save.item} ELSE unsure
    /\ queues' = Pop(v, k)
    /\ UNCHANGED <<routine, ticks, running, page, opened, drawing, focus, liveTimer, unheard, overlapped>>

-----------------------------------------------------------------------------
(* Changes of the class documents.                                          *)

\* The hub is redrawn at once, a checklist after a pause, another tab not.
Notified ==
    IF page = "hub" THEN Emptied(queues) /\ UNCHANGED liveTimer
    ELSE liveTimer' = (liveTimer \/ page = "routines") /\ UNCHANGED <<lists, focus, queues, unsure>>
FeedReports ==
    /\ unheard /\ running /\ unheard' = FALSE /\ Notified
    /\ UNCHANGED <<routine, ticks, running, page, opened, drawing, tapped, overlapped, used>>
\* While the focus is in the panel or a save is under way the timer is set again.
busy(v) == queues[v] # <<>>
LiveRefresh ==
    /\ liveTimer /\ page = "routines" /\ ~focus /\ ~busy(opened)
    /\ liveTimer' = FALSE /\ BeginList(opened, queues)
    /\ UNCHANGED <<routine, ticks, running, page, opened, unheard, tapped, used>>
\* createRoutine, updateRoutine and deleteRoutine on the manager's device, as
\* they arrive here.
ManagerEdits ==
    /\ used.moves < MaxMoves /\ Use("moves")
    /\ running /\ routine' \in SUBSET Items \ {routine} /\ unheard' = TRUE
    /\ UNCHANGED <<ticks, running, page, opened, queues, panel, history>>
StopMode ==
    /\ running /\ used.moves < MaxMoves /\ Use("moves") /\ running' = FALSE
    /\ UNCHANGED <<routine, ticks, page, opened, queues, panel, unheard, history>>
StartMode ==
    /\ ~running /\ running' = TRUE /\ Notified
    /\ UNCHANGED <<routine, ticks, page, opened, drawing, unheard, tapped, overlapped, used>>

RoutinesNext ==
    \/ OpenRoutines \/ BackToHub \/ OtherTab \/ AskReload
    \/ \E k \in DOMAIN drawing : ReadRoutines(k) \/ ReadDays(k) \/ RenderMember(k)
    \/ \E n \in DOMAIN lists, i \in Items : Tap(n, i)
    \/ Blur
    \/ \E v \in Views : \E k \in DOMAIN queues[v] : SaveRead(v, k) \/ SaveWrite(v, k) \/ SaveFails(v, k)
    \/ FeedReports \/ LiveRefresh \/ ManagerEdits \/ StopMode \/ StartMode
RoutinesSpec == RoutinesInit /\ [][RoutinesNext]_routinesVars

-----------------------------------------------------------------------------
ListSettled ==
    /\ page = "routines" /\ running /\ ~unheard /\ ~liveTimer /\ drawing = <<>>
    /\ \A v \in Views : ~busy(v)

\* The checklist on screen, the stored document and the member's own taps agree
\* once everything has settled: the panel shows one list, with the items of the
\* routine as it is and exactly the ticks that are stored, and an item the
\* member tapped is stored as the last tap left it.  No claim is made for a list
\* drawn by overlapping reloads, nor for an item of which two saves were under
\* way when one failed (RoutinesView.reload, persistToggle;
\* DashboardSection.scheduleLiveRefresh).
TicksAgree ==
    ListSettled =>
      /\ ~overlapped =>
           /\ Len(lists) = IF routine = {} THEN 0 ELSE 1
           /\ \A n \in DOMAIN lists :
                /\ lists[n].items = routine
                /\ lists[n].on \ unsure = (ticks \cap routine) \ unsure
      /\ \A i \in Items : tapped[i] # Unknown => tapped[i] = Asks(i \in ticks)
=============================================================================
