---------------------------- MODULE MemberLinks ----------------------------
(***************************************************************************)
(* Which links a member's vault runs: the lifecycle of the mode, the       *)
(* reconciliation of its links with the shared spaces the teacher          *)
(* deployed, and the lifecycle of each link.                               *)
(*                                                                         *)
(*   - ModeLifecycle runs replace and stop one after the other;            *)
(*   - MemberMode rebuilds its links whenever the shares document changes; *)
(*   - AsyncLifecycle lets a stop overtake the start of a MirrorSync.      *)
(*                                                                         *)
(* A reconciliation builds the personal link, which brings in the shares   *)
(* document, and the links of the shared spaces the document names.  What  *)
(* a link does while it runs is left to the other modules.                 *)
(***************************************************************************)
EXTENDS Naturals, Sequences

CONSTANTS
    Spaces,        \* shared spaces named by each version of the document
    MaxModes,      \* modes created (loads, restarts, settings applied)
    MaxVersions,   \* versions of the shares document
    MaxTasks,      \* replace and stop requests, no more than there can be modes
    MaxRefreshes,  \* "refresh shared spaces" commands
    StartMayFail   \* may what follows the start of the links throw?

ASSUME MemberLinksAssumption ==
    /\ {Spaces, MaxModes, MaxVersions, MaxTasks, MaxRefreshes} \subseteq Nat
    /\ MaxTasks <= MaxModes
    /\ StartMayFail \in BOOLEAN

Modes == 1..MaxModes
Links == 1..(Spaces + 1)   \* positions in this.syncs; 1 is the personal link
Versions == 0..MaxVersions

VARIABLES
    tasks,     \* ModeLifecycle.chain: unfinished requests, the first one running
    step,      \* where the running request is
    stopAt,    \* the link MemberMode.stop has reached
    created,   \* modes created so far; the last one is being served
    current,   \* ModeLifecycle.current, 0 for null
    flags,     \* per mode: stopped, reconciling, pendingReconcile, reconcileTimer
    rec,       \* per mode: where reconcile is, and the version it read
    link,      \* per mode: the MirrorSyncs built last
    built,     \* per mode: the version they were built from
    shares,    \* version of the shares document in the local database
    told,      \* version the checkpoint of the personal link has reached
    queued,    \* per mode: version waiting in the queue of its LocalApplier, 0 for none
    asked, refreshed   \* bounds

lifecycle == <<tasks, step, stopAt, created, current, asked>>
feed == <<shares, told, queued>>
linksVars == <<lifecycle, flags, rec, link, built, feed, refreshed>>

Flags == [stopped : BOOLEAN, reconciling : BOOLEAN, pending : BOOLEAN, timer : BOOLEAN]
LinkStates == {"new", "starting", "cancelled", "on", "off"}

LinksTypeOK ==
    /\ tasks \in Seq({"replace", "stop"})
    /\ step \in {"idle", "stop", "start", "ready", "undo"} /\ stopAt \in 0..(Spaces + 2)
    /\ created \in 0..MaxModes /\ current \in 0..MaxModes
    /\ flags \in [Modes -> Flags]
    /\ rec \in [Modes -> [pc : {"idle", "read", "stop", "start"}, at : Links,
                          ver : Versions]]
    /\ link \in [Modes -> [Links -> LinkStates]] /\ built \in [Modes -> Versions]
    /\ shares \in Versions /\ told \in Versions /\ queued \in [Modes -> Versions]
    /\ asked \in 0..MaxTasks /\ refreshed \in 0..MaxRefreshes

Idle == [pc |-> "idle", at |-> 1, ver |-> 0]
NoFlags == [stopped |-> FALSE, reconciling |-> FALSE, pending |-> FALSE, timer |-> FALSE]

LinksInit ==
    /\ tasks = <<>> /\ step = "idle" /\ stopAt = 0 /\ created = 0 /\ current = 0
    /\ flags = [m \in Modes |-> NoFlags] /\ rec = [m \in Modes |-> Idle]
    /\ link = [m \in Modes |-> [i \in Links |-> "off"]] /\ built = [m \in Modes |-> 0]
    /\ shares = 0 /\ told = 0 /\ queued = [m \in Modes |-> 0]
    /\ asked = 0 /\ refreshed = 0

-----------------------------------------------------------------------------
(* AsyncLifecycle and MirrorSync.start/stop of one link.                    *)

\* What MirrorSync.stop makes of a link: one that was never started stays as it is.
Halted(s) == CASE s = "starting" -> "cancelled" [] s = "on" -> "off" [] OTHER -> s

\* The promises of its start and stop are settled.
Settled(m, i) == link[m][i] \notin {"starting", "cancelled"}

\* runStartup ends; a link that was stopped meanwhile goes no further.
LinkStarted(m, i) ==
    /\ ~Settled(m, i)
    /\ link' = [link EXCEPT ![m][i] = IF @ = "starting" THEN "on" ELSE "off"]
    /\ UNCHANGED <<lifecycle, flags, rec, built, feed, refreshed>>

-----------------------------------------------------------------------------
(* MemberMode.                                                              *)

\* Faulty Reconcile: a request during a reconciliation is not remembered.
ReconcileForgets(m, f) ==
    IF f.stopped \/ f.reconciling
    THEN flags' = [flags EXCEPT ![m] = f] /\ UNCHANGED rec
    ELSE /\ flags' = [flags EXCEPT ![m] = [f EXCEPT !.reconciling = TRUE]]
         /\ rec' = [rec EXCEPT ![m] = [Idle EXCEPT !.pc = "read"]]

\* reconcile up to its first await, of mode m whose flags are f.
Reconcile(m, f) ==
    IF f.stopped THEN flags' = [flags EXCEPT ![m] = f] /\ UNCHANGED rec
    ELSE IF f.reconciling
    THEN flags' = [flags EXCEPT ![m] = [f EXCEPT !.pending = TRUE]] /\ UNCHANGED rec
    ELSE /\ flags' = [flags EXCEPT ![m] = [f EXCEPT !.reconciling = TRUE]]
         /\ rec' = [rec EXCEPT ![m] = [Idle EXCEPT !.pc = "read"]]

ScheduleReconcile(f) == IF f.stopped THEN f ELSE [f EXCEPT !.timer = TRUE]

TimerFires(m) ==
    /\ flags[m].timer
    /\ Reconcile(m, [flags[m] EXCEPT !.timer = FALSE])
    /\ UNCHANGED <<lifecycle, link, built, feed, refreshed>>

\* refreshShares, by command or panel.
Refresh ==
    /\ current # 0 /\ refreshed < MaxRefreshes /\ refreshed' = refreshed + 1
    /\ Reconcile(current, flags[current])
    /\ UNCHANGED <<lifecycle, link, built, feed>>

\* applyRtConfig and readShares; then the loop that stops the links of the last time.
ReadShares(m) ==
    /\ rec[m].pc = "read"
    /\ rec' = [rec EXCEPT ![m] = [pc |-> "stop", at |-> 1, ver |-> shares]]
    /\ link' = [link EXCEPT ![m][1] = Halted(@)]
    /\ UNCHANGED <<lifecycle, flags, built, feed, refreshed>>

StopNextOld(m) ==
    /\ rec[m].pc = "stop" /\ rec[m].at < Spaces + 1 /\ Settled(m, rec[m].at)
    /\ rec' = [rec EXCEPT ![m].at = @ + 1]
    /\ link' = [link EXCEPT ![m][rec[m].at + 1] = Halted(@)]
    /\ UNCHANGED <<lifecycle, flags, built, feed, refreshed>>

\* The finally block of reconcile; ModeLifecycle waits for the first reconciliation.
Ends(m) ==
    /\ rec' = [rec EXCEPT ![m] = Idle]
    /\ flags' = LET f == [flags[m] EXCEPT !.reconciling = FALSE, !.pending = FALSE]
                IN [flags EXCEPT ![m] = IF @.pending THEN ScheduleReconcile(f) ELSE f]
    /\ step' = IF step = "start" /\ m = current THEN "ready" ELSE step

OldStopped(m) == rec[m].pc = "stop" /\ rec[m].at = Spaces + 1 /\ Settled(m, Spaces + 1)

\* Faulty BuildLinks: a stop during the reconciliation goes unnoticed.
BuildsAnyway(m) ==
    /\ OldStopped(m)
    /\ link' = [link EXCEPT ![m] = [i \in Links |-> IF i = 1 THEN "starting" ELSE "new"]]
    /\ built' = [built EXCEPT ![m] = rec[m].ver]
    /\ rec' = [rec EXCEPT ![m].pc = "start", ![m].at = 1]
    /\ UNCHANGED <<lifecycle, flags, feed, refreshed>>

\* The new links; nothing is awaited before the first one is started.
BuildLinks(m) ==
    /\ OldStopped(m) /\ ~flags[m].stopped
    /\ link' = [link EXCEPT ![m] = [i \in Links |-> IF i = 1 THEN "starting" ELSE "new"]]
    /\ built' = [built EXCEPT ![m] = rec[m].ver]
    /\ rec' = [rec EXCEPT ![m].pc = "start", ![m].at = 1]
    /\ UNCHANGED <<lifecycle, flags, feed, refreshed>>

\* The mode was stopped meanwhile: the new links are dropped unstarted.
DropLinks(m) ==
    /\ OldStopped(m) /\ flags[m].stopped /\ Ends(m)
    /\ UNCHANGED <<tasks, stopAt, created, current, asked, link, built, feed, refreshed>>

\* Each start is awaited before the next.
StartNext(m) ==
    /\ rec[m].pc = "start" /\ rec[m].at < Spaces + 1 /\ Settled(m, rec[m].at)
    /\ rec' = [rec EXCEPT ![m].at = @ + 1]
    /\ link' = [link EXCEPT ![m][rec[m].at + 1] = "starting"]
    /\ UNCHANGED <<lifecycle, flags, built, feed, refreshed>>

ReconcileEnds(m) ==
    /\ rec[m].pc = "start" /\ rec[m].at = Spaces + 1 /\ Settled(m, Spaces + 1)
    /\ Ends(m)
    /\ UNCHANGED <<tasks, stopAt, created, current, asked, link, built, feed, refreshed>>

-----------------------------------------------------------------------------
(* The personal link: replication and LocalApplier.                         *)

\* The teacher's new version of the document reaches the local database.
SharesArrive ==
    /\ shares < MaxVersions /\ \E m \in Modes : link[m][1] \in {"starting", "cancelled", "on"}
    /\ shares' = shares + 1
    /\ UNCHANGED <<lifecycle, flags, rec, link, built, told, queued, refreshed>>

FeedDelivers(m) ==
    /\ link[m][1] = "on" /\ told < shares /\ queued[m] = 0
    /\ queued' = [queued EXCEPT ![m] = shares]
    /\ UNCHANGED <<lifecycle, flags, rec, link, built, shares, told, refreshed>>

\* applyChange of the shares document, also after the link was stopped.
SharesApplied(m) ==
    /\ queued[m] # 0
    /\ told' = queued[m] /\ queued' = [queued EXCEPT ![m] = 0]
    /\ flags' = [flags EXCEPT ![m] = ScheduleReconcile(@)]
    /\ UNCHANGED <<lifecycle, rec, link, built, shares, refreshed>>

-----------------------------------------------------------------------------
(* ModeLifecycle.                                                           *)

Ask ==
    /\ asked < MaxTasks /\ asked' = asked + 1
    /\ \E t \in {"replace", "stop"} : tasks' = Append(tasks, t)
    /\ UNCHANGED <<step, stopAt, created, current, flags, rec, link, built, feed, refreshed>>

\* MemberMode.stop up to its first await, of the mode served so far.
StopMode ==
    /\ flags' = [flags EXCEPT ![created].stopped = TRUE, ![created].timer = FALSE]
    /\ link' = [link EXCEPT ![created][1] = Halted(@)]
    /\ stopAt' = 1

\* replace and stop begin alike.
TaskBegins ==
    /\ step = "idle" /\ tasks # <<>> /\ step' = "stop" /\ current' = 0
    /\ IF current = 0 THEN stopAt' = Spaces + 2 /\ UNCHANGED <<flags, link>> ELSE StopMode
    /\ UNCHANGED <<tasks, created, asked, rec, built, feed, refreshed>>

\* MemberMode.stop goes on to the next link.  Where it waits for the same start as the
\* loop of reconcile, that loop goes first: it awaits the start itself, MirrorSync.stop
\* also saves the settings and closes the databases.
StopNext ==
    /\ stopAt \in Links /\ Settled(created, stopAt)
    /\ ~(rec[created].pc = "start" /\ rec[created].at = stopAt)
    /\ stopAt' = stopAt + 1
    /\ link' = IF stopAt + 1 \in Links
               THEN [link EXCEPT ![created][stopAt + 1] = Halted(@)] ELSE link
    /\ UNCHANGED <<tasks, step, created, current, asked, flags, rec, built, feed, refreshed>>

StopDone == stopAt = Spaces + 2
TaskEnds == tasks' = Tail(tasks) /\ step' = "idle" /\ stopAt' = 0

\* The previous mode is stopped: create the next one and start it.
CreateMode ==
    /\ step = "stop" /\ StopDone /\ Head(tasks) = "replace"
    /\ created' = created + 1 /\ current' = created + 1 /\ step' = "start" /\ stopAt' = 0
    /\ Reconcile(created + 1, NoFlags)
    /\ UNCHANGED <<tasks, asked, link, built, feed, refreshed>>

StopTaskEnds ==
    /\ step = "stop" /\ StopDone /\ Head(tasks) = "stop" /\ TaskEnds
    /\ UNCHANGED <<created, current, asked, flags, rec, link, built, feed, refreshed>>

\* start returns; what follows it in startMode may throw, and the mode is stopped again.
ModeStarted ==
    /\ step = "ready" /\ TaskEnds
    /\ UNCHANGED <<created, current, asked, flags, rec, link, built, feed, refreshed>>

ModeFails ==
    /\ step = "ready" /\ StartMayFail
    /\ step' = "undo" /\ current' = 0 /\ StopMode
    /\ UNCHANGED <<tasks, created, asked, rec, built, feed, refreshed>>

FailureUndone ==
    /\ step = "undo" /\ StopDone /\ TaskEnds
    /\ UNCHANGED <<created, current, asked, flags, rec, link, built, feed, refreshed>>

-----------------------------------------------------------------------------
ModeLife == TaskBegins \/ StopNext \/ CreateMode \/ StopTaskEnds \/ ModeStarted \/ FailureUndone
Rebuild(m) == TimerFires(m) \/ ReadShares(m) \/ StopNextOld(m) \/ BuildLinks(m)
                \/ DropLinks(m) \/ StartNext(m) \/ ReconcileEnds(m)
ApplierStep(m) == FeedDelivers(m) \/ SharesApplied(m)

LinksNext ==
    \/ Ask \/ Refresh \/ SharesArrive \/ ModeLife \/ ModeFails
    \/ \E m \in Modes : Rebuild(m) \/ ApplierStep(m) \/ \E i \in Links : LinkStarted(m, i)

LinksSpec == LinksInit /\ [][LinksNext]_linksVars

\* Promises settle, timers fire and the feed delivers; nobody has to ask for anything.
LinksFairness ==
    /\ WF_linksVars(ModeLife)
    /\ \A m \in Modes : /\ WF_linksVars(Rebuild(m)) /\ WF_linksVars(ApplierStep(m))
                        /\ \A i \in Links : WF_linksVars(LinkStarted(m, i))

-----------------------------------------------------------------------------
(* Properties.                                                              *)

\* MemberMode.stop has returned for this mode.
Retired(m) == m <= created /\ flags[m].stopped /\ ~(m = created /\ stopAt \in Links)

\* Once stop has returned, no link of the mode runs or has a start pending, whatever a
\* reconciliation, a pending start or a scheduled timer was doing when it was called:
\* two modes never work on the same files (MemberMode.stop, AsyncLifecycle.stop); and the
\* state is well formed.
RetiredModeIsQuiet ==
    /\ LinksTypeOK
    /\ \A m \in Modes : Retired(m) => \A i \in Links : link[m][i] = "off"

\* The links follow the shares document: whatever a change of it coincides with, the
\* running mode ends up with links built from the last version (pendingReconcile, the
\* timer, and the checkpoint that outlives the rebuilt personal link).
SharesFollowed == <>[](current # 0 => built[current] = shares)
=============================================================================
