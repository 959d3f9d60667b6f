--------------------------- MODULE LinkTransport ---------------------------
(***************************************************************************)
(* How one link moves changes between its local and its remote database:   *)
(* MirrorSync, and around it ManagerMode with its DbUpdatesWatcher.        *)
(*                                                                         *)
(*   - "live": one continuous replication in both directions;              *)
(*   - "event": a watcher of the server's _db_updates wakes one-shot       *)
(*     replications, a timer pushes local writes, a safety net runs a      *)
(*     one-shot replication every five minutes;                            *)
(*   - hiding the app and repairing the database pause the link.           *)
(*                                                                         *)
(* The databases are counts: what the other side has written, what has     *)
(* been brought over.  A one-shot replication transfers at one instant     *)
(* what is there then; what is written later waits for the next one.       *)
(* Automatic synchronisation and pausing while hidden are switched on, and *)
(* a server is configured.                                                 *)
(***************************************************************************)
EXTENDS Integers

CONSTANTS
    MaxRemote,    \* writes of the other side
    MaxLocal,     \* writes of this side
    MaxToggles,   \* times the app is hidden or shown
    MaxRepairs,   \* repairs of the database
    MaxFaults     \* requests that fail, are rejected for their credentials, or come back maimed

ASSUME LinkTransportAssumption ==
    {MaxRemote, MaxLocal, MaxToggles, MaxRepairs, MaxFaults} \subseteq Nat

Now == -1   \* since: "now"

VARIABLES
    manager,     \* the link belongs to a ManagerMode; members only know "live"
    begun,       \* ManagerMode.start has returned
    transport,   \* ManagerMode.transport
    watch,       \* its watcher: off, request sent, listening, waiting to retry
    since,       \* DbUpdatesWatcher.since
    at,          \* the update the open request listens from
    hit,         \* PerDbDebouncer: the timer of this database runs
    armed,       \* ManagerMode.safetyTimer is set
    stray,       \* an interval runs that no variable holds any more
    hidden,      \* document.hidden
    repairing,   \* RepairController.withConnectionsFreed is running
    life,        \* AsyncLifecycle of the link
    startup,     \* where runStartup is
    paused,      \* pausedByHidden
    eventDriven, \* eventDriven, and notifyLocalWrite set
    authStopped, \* authStopped
    errored,     \* status.state is "error"
    live,        \* PouchService.replication runs
    timer,       \* pushTimer
    queued,      \* one-shot replications waiting in syncChain
    run,         \* the one under way
    remote, got, \* writes of the other side; of those, in the local database
    local, sent, \* writes of this side; of those, in the remote database
    toggles, repairs, faults   \* bounds

managerVars == <<manager, begun, transport, armed, stray>>
watchVars == <<watch, since, at, hit>>
appVars == <<hidden, repairing>>
lifeVars == <<life, startup>>
stateVars == <<paused, eventDriven, authStopped, errored>>
moveVars == <<live, timer, queued, run>>
dataVars == <<remote, got, local, sent>>
bounds == <<toggles, repairs, faults>>
vars == <<managerVars, watchVars, appVars, lifeVars, stateVars, moveVars, dataVars, bounds>>

Flags == {manager, begun, hit, armed, stray, hidden, repairing, paused, eventDriven,
          authStopped, errored, live, timer} \subseteq BOOLEAN

Ranges ==
    /\ transport \in {"live", "event"}
    /\ watch \in {"off", "sent", "open", "retry"}
    /\ since \in Now..remote /\ at \in 0..remote
    /\ life \in {"new", "starting", "on", "stopping", "off"}
    /\ startup \in {"none", "pull", "push", "end"}
    /\ queued \subseteq {"both", "push"} /\ run \in {"none", "pull", "push"}
    /\ remote \in 0..MaxRemote /\ got \in 0..remote
    /\ local \in 0..MaxLocal /\ sent \in 0..local
    /\ toggles \in 0..MaxToggles /\ repairs \in 0..MaxRepairs
    /\ faults \in 0..MaxFaults

TypeOK == Flags /\ Ranges

Init ==
    /\ manager \in BOOLEAN /\ begun = FALSE /\ transport = "live"
    /\ watch = "off" /\ since = Now /\ at = 0 /\ hit = FALSE
    /\ armed = FALSE /\ stray = FALSE
    /\ hidden \in BOOLEAN /\ repairing = FALSE
    /\ life = "new" /\ startup = "none"
    /\ paused = FALSE /\ eventDriven = FALSE /\ authStopped = FALSE /\ errored = FALSE
    /\ live = FALSE /\ timer = FALSE /\ queued = {} /\ run = "none"
    /\ remote = 0 /\ got = 0 /\ local = 0 /\ sent = 0
    /\ toggles = 0 /\ repairs = 0 /\ faults = 0

-----------------------------------------------------------------------------
(* MirrorSync.                                                              *)

Started == life \in {"starting", "on"}

\* The guard of syncOnce, requestPush and, but for eventDriven, of replicateOnce.
MayMove == Started /\ ~authStopped /\ ~paused

SyncOnce == queued' = IF MayMove /\ eventDriven THEN queued \cup {"both"} ELSE queued

RequestPush == timer' = (timer \/ (MayMove /\ eventDriven))

PauseReplication ==
    IF Started /\ ~paused /\ ~errored
    THEN /\ paused' = TRUE
         /\ IF eventDriven THEN timer' = FALSE /\ UNCHANGED live
                           ELSE live' = FALSE /\ UNCHANGED timer
    ELSE UNCHANGED <<paused, live, timer>>

\* Faulty ResumeReplication: a link stopped meanwhile is resumed.
ResumesStopped ==
    /\ paused' = FALSE
    /\ IF paused
       THEN IF eventDriven
            THEN /\ queued' = IF authStopped THEN queued ELSE queued \cup {"both"}
                 /\ UNCHANGED <<live, errored>>
            ELSE live' = TRUE /\ errored' = FALSE /\ UNCHANGED queued
       ELSE UNCHANGED <<live, errored, queued>>

ResumeReplication ==
    /\ paused' = FALSE
    /\ IF paused /\ Started
       THEN IF eventDriven
            THEN /\ queued' = IF authStopped THEN queued ELSE queued \cup {"both"}
                 /\ UNCHANGED <<live, errored>>
            ELSE live' = TRUE /\ errored' = FALSE /\ UNCHANGED queued
       ELSE UNCHANGED <<live, errored, queued>>

\* Faulty FallbackToLive: the link leaves the event mode and replicates no more.
FallsSilent ==
    IF Started /\ eventDriven
    THEN eventDriven' = FALSE /\ timer' = FALSE /\ UNCHANGED live
    ELSE UNCHANGED <<eventDriven, timer, live>>

FallbackToLive ==
    IF Started /\ eventDriven
    THEN /\ eventDriven' = FALSE /\ timer' = FALSE
         /\ live' = (live \/ (~authStopped /\ ~paused))
    ELSE UNCHANGED <<eventDriven, timer, live>>

\* startInternal; runStartup uploads what changed, pulls and pushes.
Start ==
    /\ life' = "starting" /\ startup' = "pull"

StartupPulls ==
    /\ startup = "pull" /\ startup' = "push" /\ got' = remote
    /\ UNCHANGED <<managerVars, watchVars, appVars, life, stateVars, moveVars, remote, local,
                   sent, bounds>>

StartupPushes ==
    /\ startup = "push" /\ startup' = "end" /\ sent' = local
    /\ UNCHANGED <<managerVars, watchVars, appVars, life, stateVars, moveVars, remote, got,
                   local, bounds>>

\* A failure is only logged.
StartupFails ==
    /\ startup \in {"pull", "push"} /\ startup' = "end"
    /\ faults < MaxFaults /\ faults' = faults + 1
    /\ UNCHANGED <<managerVars, watchVars, appVars, life, stateVars, moveVars, dataVars,
                   toggles, repairs>>

\* The transport is chosen at this point; a link stopped meanwhile goes no further.
StartupEnds ==
    /\ startup = "end" /\ startup' = "none"
    /\ IF life = "stopping" THEN UNCHANGED <<life, eventDriven, errored, live>>
       ELSE /\ life' = "on"
            /\ IF transport = "event"
               THEN eventDriven' = TRUE /\ errored' = FALSE /\ UNCHANGED live
               ELSE live' = TRUE /\ UNCHANGED <<eventDriven, errored>>
    /\ UNCHANGED <<managerVars, watchVars, appVars, paused, authStopped, timer, queued, run,
                   dataVars, bounds>>

\* replicateOnce when its turn in the chain has come.
RunStarts ==
    /\ run = "none"
    /\ \E r \in queued :
         /\ queued' = queued \ {r}
         /\ run' = IF ~MayMove THEN "none" ELSE IF r = "both" THEN "pull" ELSE "push"
    /\ errored' = (errored /\ ~MayMove)
    /\ UNCHANGED <<managerVars, watchVars, appVars, lifeVars, paused, eventDriven,
                   authStopped, live, timer, dataVars, bounds>>

\* The databases of a stopped link are closed.
RunPulls ==
    /\ run = "pull" /\ life # "off" /\ run' = "push" /\ got' = remote
    /\ UNCHANGED <<managerVars, watchVars, appVars, lifeVars, stateVars, live, timer, queued,
                   remote, local, sent, bounds>>

RunPushes ==
    /\ run = "push" /\ life # "off" /\ run' = "none" /\ sent' = local /\ errored' = FALSE
    /\ UNCHANGED <<managerVars, watchVars, appVars, lifeVars, paused, eventDriven,
                   authStopped, live, timer, queued, remote, got, local, bounds>>

RunFails ==
    /\ run # "none" /\ run' = "none" /\ errored' = FALSE
    /\ \/ life = "off" /\ UNCHANGED faults
       \/ faults < MaxFaults /\ faults' = faults + 1
    /\ UNCHANGED <<managerVars, watchVars, appVars, lifeVars, paused, eventDriven,
                   authStopped, live, timer, queued, dataVars, toggles, repairs>>

RunRejected ==
    /\ run # "none" /\ run' = "none" /\ life # "off"
    /\ faults < MaxFaults /\ faults' = faults + 1
    /\ authStopped' = TRUE /\ errored' = TRUE
    /\ UNCHANGED <<managerVars, watchVars, appVars, lifeVars, paused, eventDriven, live,
                   timer, queued, dataVars, toggles, repairs>>

PushTimerFires ==
    /\ timer /\ timer' = FALSE /\ queued' = queued \cup {"push"}
    /\ UNCHANGED <<managerVars, watchVars, appVars, lifeVars, stateVars, live, run, dataVars,
                   bounds>>

\* Live replication retries by itself, except after a rejection.
LivePulls ==
    /\ live /\ got < remote /\ got' = remote /\ errored' = FALSE
    /\ UNCHANGED <<managerVars, watchVars, appVars, lifeVars, paused, eventDriven,
                   authStopped, moveVars, remote, local, sent, bounds>>

LivePushes ==
    /\ live /\ sent < local /\ sent' = local /\ errored' = FALSE
    /\ UNCHANGED <<managerVars, watchVars, appVars, lifeVars, paused, eventDriven,
                   authStopped, moveVars, remote, got, local, bounds>>

LiveRejected ==
    /\ live /\ faults < MaxFaults /\ faults' = faults + 1
    /\ live' = FALSE /\ errored' = TRUE
    /\ UNCHANGED <<managerVars, watchVars, appVars, lifeVars, paused, eventDriven,
                   authStopped, timer, queued, run, dataVars, toggles, repairs>>

-----------------------------------------------------------------------------
(* DbUpdatesWatcher.                                                        *)

WatcherStarts == IF watch = "off" THEN watch' = "sent" /\ since' = Now
                                  ELSE UNCHANGED <<watch, since>>

WatcherStops == watch' = "off" /\ hit' = FALSE

\* The request reaches the server, where "now" gets its meaning.
WatchArrives ==
    /\ watch = "sent" /\ watch' = "open" /\ at' = IF since = Now THEN remote ELSE since
    /\ UNCHANGED <<managerVars, since, hit, appVars, lifeVars, stateVars, moveVars, dataVars,
                   bounds>>

\* The answer: an update, or none when the long poll times out.
WatchHears ==
    /\ watch = "open" /\ watch' = "sent" /\ since' = remote /\ hit' = (hit \/ at < remote)
    /\ UNCHANGED <<managerVars, at, appVars, lifeVars, stateVars, moveVars, dataVars, bounds>>

\* An answer without a sequence wakes the link in any case.
WatchLosesSeq ==
    /\ watch = "open" /\ watch' = "sent" /\ since' = Now /\ hit' = TRUE
    /\ faults < MaxFaults /\ faults' = faults + 1
    /\ UNCHANGED <<managerVars, at, appVars, lifeVars, stateVars, moveVars, dataVars,
                   toggles, repairs>>

WatchFails ==
    /\ watch \in {"sent", "open"} /\ watch' = "retry"
    /\ faults < MaxFaults /\ faults' = faults + 1
    /\ UNCHANGED <<managerVars, since, at, hit, appVars, lifeVars, stateVars, moveVars,
                   dataVars, toggles, repairs>>

WatchRetries ==
    /\ watch = "retry" /\ watch' = "sent"
    /\ UNCHANGED <<managerVars, since, at, hit, appVars, lifeVars, stateVars, moveVars,
                   dataVars, bounds>>

\* onWatcherFatal: every link goes on with live replication.
WatchRejected ==
    /\ watch \in {"sent", "open"} /\ WatcherStops
    /\ faults < MaxFaults /\ faults' = faults + 1
    /\ armed' = FALSE /\ transport' = "live" /\ FallbackToLive
    /\ UNCHANGED <<manager, begun, stray, since, at, appVars, lifeVars, paused, authStopped,
                   errored, queued, run, dataVars, toggles, repairs>>

HitFires ==
    /\ hit /\ hit' = FALSE /\ SyncOnce
    /\ UNCHANGED <<managerVars, watch, since, at, appVars, lifeVars, stateVars, live, timer,
                   run, dataVars, bounds>>

-----------------------------------------------------------------------------
(* The mode: ManagerMode, or MemberMode as far as it starts and stops.      *)

\* initTransport chooses (the option may be off, the probe may fail); then the link.
ModeStarts ==
    /\ life = "new" /\ Start
    /\ \/ UNCHANGED <<transport, watch, since>>
       \/ manager /\ transport' = "event" /\ WatcherStarts
    /\ UNCHANGED <<manager, begun, armed, stray, at, hit, appVars, stateVars, moveVars,
                   dataVars, bounds>>

\* Faulty StartSafetyNet: the timer is not set again.
NoSafetyNet == UNCHANGED <<armed, stray>>

\* The interval held so far, if any, is no longer reachable.
StartSafetyNet == armed' = TRUE /\ stray' = (stray \/ armed)

ModeStarted ==
    /\ manager /\ ~begun /\ life = "on" /\ begun' = TRUE
    /\ IF transport = "event" THEN StartSafetyNet ELSE UNCHANGED <<armed, stray>>
    /\ UNCHANGED <<manager, transport, watchVars, appVars, lifeVars, stateVars, moveVars,
                   dataVars, bounds>>

SafetyTick ==
    /\ armed \/ stray
    /\ SyncOnce
    /\ UNCHANGED <<managerVars, watchVars, appVars, lifeVars, stateVars, live, timer, run,
                   dataVars, bounds>>

\* ModeLifecycle stops a manager's mode only after its start; a member's link is also
\* stopped while it starts.
Stops ==
    /\ Started /\ (manager => begun)
    /\ life' = "stopping" /\ timer' = FALSE
    /\ WatcherStops /\ armed' = FALSE
    /\ UNCHANGED <<manager, begun, transport, stray, since, at, appVars, startup, stateVars,
                   live, queued, run, dataVars, bounds>>

\* The start has settled: the databases are closed.
Stopped ==
    /\ life = "stopping" /\ startup = "none"
    /\ life' = "off" /\ live' = FALSE
    /\ UNCHANGED <<managerVars, watchVars, appVars, startup, stateVars, timer, queued, run,
                   dataVars, bounds>>

-----------------------------------------------------------------------------
(* The app and the user.                                                    *)

\* onVisibilityChange reaches the links of the current mode.
Current == life \in {"new", "starting", "on"}

Hide ==
    /\ ~hidden /\ toggles < MaxToggles /\ hidden' = TRUE /\ toggles' = toggles + 1
    /\ IF Current THEN PauseReplication ELSE UNCHANGED <<paused, live, timer>>
    /\ IF Current /\ transport = "event"
       THEN WatcherStops /\ armed' = FALSE ELSE UNCHANGED <<watch, hit, armed>>
    /\ UNCHANGED <<manager, begun, transport, stray, since, at, repairing, lifeVars,
                   eventDriven, authStopped, errored, queued, run, dataVars, repairs, faults>>

Show ==
    /\ hidden /\ toggles < MaxToggles /\ hidden' = FALSE /\ toggles' = toggles + 1
    /\ IF Current /\ transport = "event"
       THEN WatcherStarts /\ StartSafetyNet ELSE UNCHANGED <<watch, since, armed, stray>>
    /\ IF Current THEN ResumeReplication ELSE UNCHANGED <<paused, live, errored, queued>>
    /\ UNCHANGED <<manager, begun, transport, at, hit, repairing, lifeVars, eventDriven,
                   authStopped, timer, run, dataVars, repairs, faults>>

RepairBegins ==
    /\ manager /\ Current /\ ~repairing /\ repairs < MaxRepairs
    /\ repairing' = TRUE /\ repairs' = repairs + 1
    /\ PauseReplication
    /\ UNCHANGED <<managerVars, watchVars, hidden, lifeVars, eventDriven, authStopped,
                   errored, queued, run, dataVars, toggles, faults>>

\* The links were collected before: also one that has been stopped is resumed.
RepairEnds ==
    /\ repairing /\ repairing' = FALSE
    /\ ResumeReplication
    /\ UNCHANGED <<managerVars, watchVars, hidden, lifeVars, eventDriven, authStopped, timer,
                   run, dataVars, bounds>>

RemoteWrite ==
    /\ remote < MaxRemote /\ remote' = remote + 1
    /\ UNCHANGED <<managerVars, watchVars, appVars, lifeVars, stateVars, moveVars, got,
                   local, sent, bounds>>

\* An upload announces its write; documents of the classroom are written silently.
LocalWrite ==
    /\ Started /\ local < MaxLocal /\ local' = local + 1
    /\ RequestPush \/ UNCHANGED timer
    /\ UNCHANGED <<managerVars, watchVars, appVars, lifeVars, stateVars, live, queued, run,
                   remote, got, sent, bounds>>

-----------------------------------------------------------------------------
Startup == StartupPulls \/ StartupPushes \/ StartupFails \/ StartupEnds
Runs == RunStarts \/ RunPulls \/ RunPushes \/ RunFails \/ RunRejected
Watching == WatchArrives \/ WatchHears \/ WatchLosesSeq \/ WatchFails \/ WatchRetries \/ WatchRejected
Mode == ModeStarts \/ ModeStarted \/ Stopped
App == Hide \/ Show \/ RepairBegins \/ RemoteWrite \/ LocalWrite \/ Stops

Next ==
    \/ Startup \/ Runs \/ PushTimerFires \/ LivePulls \/ LivePushes \/ LiveRejected
    \/ Watching \/ HitFires \/ Mode \/ SafetyTick \/ App \/ RepairEnds

Spec == Init /\ [][Next]_vars

\* Requests are answered, timers fire, the repair ends; nobody has to write, hide the
\* app or stop the mode.
Fairness ==
    /\ WF_vars(Startup) /\ WF_vars(Runs) /\ WF_vars(PushTimerFires)
    /\ WF_vars(LivePulls) /\ WF_vars(LivePushes)
    /\ WF_vars(Watching) /\ WF_vars(HitFires) /\ WF_vars(Mode)
    /\ WF_vars(SafetyTick) /\ WF_vars(RepairEnds)

FairSpec == Spec /\ Fairness

-----------------------------------------------------------------------------
(* Properties.                                                              *)

\* The link is running and the user may expect it to synchronise.
Awake == life = "on" /\ ~hidden /\ ~paused /\ ~authStopped /\ ~errored

\* In the end a link that is awake has what the other side wrote, and the other side has
\* what was written here: whatever was hidden, repaired, missed by the watcher, or fell
\* back to live replication before (ManagerMode.startSafetyNet, fallbackToLive).
CatchesUp == <>[](Awake => got = remote /\ sent = local)

\* An event-driven link of a visible app has its watcher and its safety net, however
\* start, visibility and fallback interleave (ManagerMode.onVisibility, onWatcherFatal).
EventLinkIsWatched ==
    begun /\ life = "on" /\ eventDriven /\ ~hidden => watch # "off" /\ (armed \/ stray)

\* After stop has returned nothing is transferred and no replication, watcher or push
\* timer is started, whatever startup, replication, repair or timer was under way.
StoppedIsQuiet ==
    [][life = "off" => /\ got' = got /\ sent' = sent
                       /\ ~live' /\ ~timer' /\ watch' = "off"]_vars

=============================================================================
