-------------------------- MODULE Spaces_proofs --------------------------
(***************************************************************************)
(* Proofs about the transport of a shared space's link (LinkTransport),    *)
(* about its participants (Designations), about copies made into the       *)
(* folders of members (BulkCopies), about the chat of a space (Chat) and   *)
(* about the server's databases (Administration), for every value of the   *)
(* constants: that an event-driven link of a visible app keeps its watcher *)
(* and its safety net, that a stopped link is quiet, that who is named for *)
(* a place of a space is let in there, that the report of a copy is true,  *)
(* that the chat tab is, that no database is left open and that what is    *)
(* recorded of a database's policy is so.                                  *)
(***************************************************************************)
EXTENDS LinkTransport, Designations, BulkCopies, Chat, Administration, WellFoundedInduction, FiniteSetTheorems, TLAPS

(* LinkTransport: the invariant.                                             *)

\* Before the mode starts nothing is chosen, and while a link starts it is known to.
Phases ==
    /\ life = "new" => ~begun /\ transport = "live" /\ ~eventDriven /\ startup = "none"
    /\ startup # "none" => life \in {"starting", "stopping"}
    /\ life = "starting" => startup # "none"

\* The mode and its link agree on the transport.
Agreement == Started /\ eventDriven => transport = "event"

\* An event-driven mode of a visible app watches, and has its timer once it has begun.
Watched ==
    Started /\ transport = "event" /\ ~hidden =>
        watch # "off" /\ (begun => armed \/ stray)

\* What a stop ends at once, and what it ends at last.
Quiet ==
    /\ life \in {"stopping", "off"} => watch = "off" /\ ~timer
    /\ life = "off" => ~live /\ startup = "none"

IInv == TypeOK /\ Phases /\ Agreement /\ Watched /\ Quiet

-----------------------------------------------------------------------------
\* The bounds are natural numbers.
LEMMA Bounds == /\ MaxRemote \in Nat /\ MaxLocal \in Nat /\ MaxToggles \in Nat
                /\ MaxRepairs \in Nat /\ MaxFaults \in Nat
BY LinkTransportAssumption

\* Flags stay truth values.
LEMMA FlagsStep == Flags /\ [Next]_vars => Flags'
<1> SUFFICES ASSUME Flags, [Next]_vars PROVE Flags'
  OBVIOUS
<1>1. CASE StartupPulls
  BY <1>1, Zenon DEF Flags, StartupPulls, managerVars, watchVars, appVars, stateVars,
     moveVars, bounds
<1>2. CASE StartupPushes
  BY <1>2, Zenon DEF Flags, StartupPushes, managerVars, watchVars, appVars, stateVars,
     moveVars, bounds
<1>3. CASE StartupFails
  BY <1>3, Zenon DEF Flags, StartupFails, managerVars, watchVars, appVars, stateVars,
     moveVars, dataVars
<1>4. CASE StartupEnds
  BY <1>4, Zenon DEF Flags, StartupEnds, managerVars, watchVars, appVars, dataVars,
     bounds
<1>5. CASE RunStarts
  BY <1>5, SMT DEF Flags, RunStarts, Started, MayMove, managerVars, watchVars, appVars,
     lifeVars, dataVars, bounds
<1>6. CASE RunPulls
  BY <1>6, Zenon DEF Flags, RunPulls, managerVars, watchVars, appVars, lifeVars,
     stateVars, bounds
<1>7. CASE RunPushes
  BY <1>7, Zenon DEF Flags, RunPushes, managerVars, watchVars, appVars, lifeVars, bounds
<1>8. CASE RunFails
  BY <1>8, Zenon DEF Flags, RunFails, managerVars, watchVars, appVars, lifeVars,
     dataVars
<1>9. CASE RunRejected
  BY <1>9, Zenon DEF Flags, RunRejected, managerVars, watchVars, appVars, lifeVars,
     dataVars
<1>10. CASE PushTimerFires
  BY <1>10, Zenon DEF Flags, PushTimerFires, managerVars, watchVars, appVars, lifeVars,
     stateVars, dataVars, bounds
<1>11. CASE LivePulls
  BY <1>11, Zenon DEF Flags, LivePulls, managerVars, watchVars, appVars, lifeVars,
     moveVars, bounds
<1>12. CASE LivePushes
  BY <1>12, Zenon DEF Flags, LivePushes, managerVars, watchVars, appVars, lifeVars,
     moveVars, bounds
<1>13. CASE LiveRejected
  BY <1>13, Zenon DEF Flags, LiveRejected, managerVars, watchVars, appVars, lifeVars,
     dataVars
<1>14. CASE WatchArrives
  BY <1>14, Zenon DEF Flags, WatchArrives, Now, managerVars, watchVars, appVars,
     lifeVars, stateVars, moveVars, dataVars, bounds
<1>15. CASE WatchHears
  BY <1>15, Zenon DEF Flags, WatchHears, managerVars, appVars, lifeVars, stateVars,
     moveVars, dataVars, bounds
<1>16. CASE WatchLosesSeq
  BY <1>16, Zenon DEF Flags, WatchLosesSeq, Now, managerVars, watchVars, appVars,
     lifeVars, stateVars, moveVars, dataVars, bounds
<1>17. CASE WatchFails
  BY <1>17, Zenon DEF Flags, WatchFails, managerVars, appVars, lifeVars, stateVars,
     moveVars, dataVars
<1>18. CASE WatchRetries
  BY <1>18, Zenon DEF Flags, WatchRetries, managerVars, appVars, lifeVars, stateVars,
     moveVars, dataVars, bounds
<1>19. CASE WatchRejected
  BY <1>19, Zenon DEF Flags, WatchRejected, Started, FallbackToLive, WatcherStops,
     appVars, lifeVars, dataVars
<1>20. CASE HitFires
  BY <1>20, Zenon DEF Flags, HitFires, Started, MayMove, SyncOnce, managerVars, appVars,
     lifeVars, stateVars, dataVars, bounds
<1>21. CASE ModeStarts
  BY <1>21, Zenon DEF Flags, ModeStarts, Start, WatcherStarts, Now, managerVars,
     watchVars, appVars, lifeVars, stateVars, moveVars, dataVars, bounds
<1>22. CASE ModeStarted
  BY <1>22, ZenonT(60) DEF Flags, ModeStarted, StartSafetyNet, watchVars, appVars, lifeVars,
     stateVars, moveVars, dataVars, bounds
<1>23. CASE Stopped
  BY <1>23, Zenon DEF Flags, Stopped, managerVars, watchVars, appVars, stateVars,
     dataVars, bounds
<1>24. CASE SafetyTick
  BY <1>24, Zenon DEF Flags, SafetyTick, Started, MayMove, SyncOnce, managerVars,
     watchVars, appVars, lifeVars, stateVars, dataVars, bounds
<1>25. CASE Hide
  BY <1>25, ZenonT(60) DEF Flags, Hide, Started, PauseReplication, WatcherStops, Current,
     lifeVars, dataVars
<1>26. CASE Show
  BY <1>26, ZenonT(60) DEF Flags, Show, Started, ResumeReplication, WatcherStarts,
     StartSafetyNet, Current, Now, managerVars, watchVars, appVars, lifeVars, stateVars,
     moveVars, dataVars, bounds
<1>27. CASE RepairBegins
  BY <1>27, Zenon DEF Flags, RepairBegins, Started, PauseReplication, Current,
     managerVars, watchVars, lifeVars, dataVars
<1>28. CASE RemoteWrite
  BY <1>28, Zenon DEF Flags, RemoteWrite, managerVars, watchVars, appVars, lifeVars,
     stateVars, moveVars, bounds
<1>29. CASE LocalWrite
  BY <1>29, Zenon DEF Flags, LocalWrite, Started, MayMove, RequestPush, managerVars,
     watchVars, appVars, lifeVars, stateVars, bounds
<1>30. CASE Stops
  BY <1>30, Zenon DEF Flags, Stops, Started, WatcherStops, appVars, stateVars, dataVars,
     bounds
<1>31. CASE RepairEnds
  BY <1>31, Zenon DEF Flags, RepairEnds, Started, ResumeReplication, managerVars,
     watchVars, lifeVars, dataVars, bounds
<1>32. CASE UNCHANGED vars
  BY <1>32 DEF Flags, vars, managerVars, watchVars, appVars, lifeVars, stateVars,
     moveVars, dataVars, bounds
<1>33. QED
  BY <1>1, <1>2, <1>3, <1>4, <1>5, <1>6, <1>7, <1>8, <1>9, <1>10, <1>11, <1>12, <1>13,
     <1>14, <1>15, <1>16, <1>17, <1>18, <1>19, <1>20, <1>21, <1>22, <1>23, <1>24, <1>25,
     <1>26, <1>27, <1>28, <1>29, <1>30, <1>31, <1>32 DEF Next, Startup, Runs, Watching,
     Mode, App

\* Every other variable keeps its range.
LEMMA RangesStep == Ranges /\ [Next]_vars => Ranges'
<1> SUFFICES ASSUME Ranges, [Next]_vars PROVE Ranges'
  OBVIOUS
<1>1. CASE StartupPulls
  BY <1>1, Bounds DEF Ranges, Now, StartupPulls, managerVars, watchVars, appVars,
     stateVars, moveVars, bounds
<1>2. CASE StartupPushes
  BY <1>2, Bounds DEF Ranges, Now, StartupPushes, managerVars, watchVars, appVars,
     stateVars, moveVars, bounds
<1>3. CASE StartupFails
  BY <1>3, Bounds DEF Ranges, Now, StartupFails, managerVars, watchVars, appVars,
     stateVars, moveVars, dataVars
<1>4. CASE StartupEnds
  BY <1>4, Bounds DEF Ranges, Now, StartupEnds, managerVars, watchVars, appVars,
     dataVars, bounds
<1>5. CASE RunStarts
  BY <1>5, Bounds DEF Ranges, Now, RunStarts, Started, MayMove, managerVars, watchVars,
     appVars, lifeVars, dataVars, bounds
<1>6. CASE RunPulls
  BY <1>6, Bounds DEF Ranges, Now, RunPulls, managerVars, watchVars, appVars, lifeVars,
     stateVars, bounds
<1>7. CASE RunPushes
  BY <1>7, Bounds DEF Ranges, Now, RunPushes, managerVars, watchVars, appVars, lifeVars,
     bounds
<1>8. CASE RunFails
  BY <1>8, Bounds DEF Ranges, Now, RunFails, managerVars, watchVars, appVars, lifeVars,
     dataVars
<1>9. CASE RunRejected
  BY <1>9, Bounds DEF Ranges, Now, RunRejected, managerVars, watchVars, appVars,
     lifeVars, dataVars
<1>10. CASE PushTimerFires
  BY <1>10, Bounds DEF Ranges, Now, PushTimerFires, managerVars, watchVars, appVars,
     lifeVars, stateVars, dataVars, bounds
<1>11. CASE LivePulls
  BY <1>11, Bounds DEF Ranges, Now, LivePulls, managerVars, watchVars, appVars,
     lifeVars, moveVars, bounds
<1>12. CASE LivePushes
  BY <1>12, Bounds DEF Ranges, Now, LivePushes, managerVars, watchVars, appVars,
     lifeVars, moveVars, bounds
<1>13. CASE LiveRejected
  BY <1>13, Bounds DEF Ranges, Now, LiveRejected, managerVars, watchVars, appVars,
     lifeVars, dataVars
<1>14. CASE WatchArrives
  BY <1>14, Bounds DEF Ranges, Now, WatchArrives, managerVars, watchVars, appVars,
     lifeVars, stateVars, moveVars, dataVars, bounds
<1>15. CASE WatchHears
  BY <1>15, Bounds DEF Ranges, Now, WatchHears, managerVars, appVars, lifeVars,
     stateVars, moveVars, dataVars, bounds
<1>16. CASE WatchLosesSeq
  BY <1>16, Bounds DEF Ranges, Now, WatchLosesSeq, managerVars, watchVars, appVars,
     lifeVars, stateVars, moveVars, dataVars, bounds
<1>17. CASE WatchFails
  BY <1>17, Bounds DEF Ranges, Now, WatchFails, managerVars, appVars, lifeVars,
     stateVars, moveVars, dataVars
<1>18. CASE WatchRetries
  BY <1>18, Bounds DEF Ranges, Now, WatchRetries, managerVars, appVars, lifeVars,
     stateVars, moveVars, dataVars, bounds
<1>19. CASE WatchRejected
  BY <1>19, Bounds DEF Ranges, Now, WatchRejected, Started, FallbackToLive,
     WatcherStops, appVars, lifeVars, dataVars
<1>20. CASE HitFires
  BY <1>20, Bounds DEF Ranges, Now, HitFires, Started, MayMove, SyncOnce, managerVars,
     appVars, lifeVars, stateVars, dataVars, bounds
<1>21. CASE ModeStarts
  BY <1>21, Bounds DEF Ranges, Now, ModeStarts, Start, WatcherStarts, managerVars,
     watchVars, appVars, lifeVars, stateVars, moveVars, dataVars, bounds
<1>22. CASE ModeStarted
  BY <1>22, Bounds DEF Ranges, Now, ModeStarted, StartSafetyNet, watchVars, appVars,
     lifeVars, stateVars, moveVars, dataVars, bounds
<1>23. CASE Stopped
  BY <1>23, Bounds DEF Ranges, Now, Stopped, managerVars, watchVars, appVars, stateVars,
     dataVars, bounds
<1>24. CASE SafetyTick
  BY <1>24, Bounds DEF Ranges, Now, SafetyTick, Started, MayMove, SyncOnce, managerVars,
     watchVars, appVars, lifeVars, stateVars, dataVars, bounds
<1>25. CASE Hide
  BY <1>25, Bounds DEF Ranges, Now, Hide, Started, PauseReplication, WatcherStops,
     Current, lifeVars, dataVars
<1>26. CASE Show
  <2>1. since' \in Now..remote' /\ watch' \in {"off", "sent", "open", "retry"}
    BY <1>26 DEF Ranges, Now, Show, WatcherStarts, dataVars
  <2>2. queued' \subseteq {"both", "push"}
    BY <1>26 DEF Ranges, Show, ResumeReplication
  <2>3. transport' = transport /\ toggles' \in 0..MaxToggles
    BY <1>26, Bounds DEF Ranges, Show
  <2>4. UNCHANGED <<at, lifeVars, run, dataVars, repairs, faults>>
    BY <1>26 DEF Show
  <2>5. QED
    BY <2>1, <2>2, <2>3, <2>4 DEF Ranges, lifeVars, dataVars
<1>27. CASE RepairBegins
  BY <1>27, Bounds DEF Ranges, Now, RepairBegins, Started, PauseReplication, Current,
     managerVars, watchVars, lifeVars, dataVars
<1>28. CASE RemoteWrite
  BY <1>28, Bounds DEF Ranges, Now, RemoteWrite, managerVars, watchVars, appVars,
     lifeVars, stateVars, moveVars, bounds
<1>29. CASE LocalWrite
  BY <1>29, Bounds DEF Ranges, Now, LocalWrite, Started, MayMove, RequestPush,
     managerVars, watchVars, appVars, lifeVars, stateVars, bounds
<1>30. CASE Stops
  BY <1>30, Bounds DEF Ranges, Now, Stops, Started, WatcherStops, appVars, stateVars,
     dataVars, bounds
<1>31. CASE RepairEnds
  BY <1>31, Bounds DEF Ranges, Now, RepairEnds, Started, ResumeReplication, managerVars,
     watchVars, lifeVars, dataVars, bounds
<1>32. CASE UNCHANGED vars
  BY <1>32 DEF Ranges, Now, vars, managerVars, watchVars, appVars, lifeVars, stateVars,
     moveVars, dataVars, bounds
<1>33. QED
  BY <1>1, <1>2, <1>3, <1>4, <1>5, <1>6, <1>7, <1>8, <1>9, <1>10, <1>11, <1>12, <1>13,
     <1>14, <1>15, <1>16, <1>17, <1>18, <1>19, <1>20, <1>21, <1>22, <1>23, <1>24, <1>25,
     <1>26, <1>27, <1>28, <1>29, <1>30, <1>31, <1>32 DEF Next, Startup, Runs, Watching,
     Mode, App

\* The phases of mode and link stay in step.
LEMMA PhasesStep == IInv /\ [Next]_vars => Phases'
<1> SUFFICES ASSUME IInv, [Next]_vars PROVE Phases'
  OBVIOUS
<1>1. CASE StartupPulls
  BY <1>1 DEF IInv, Phases, Started, StartupPulls, managerVars, watchVars, appVars,
     stateVars, moveVars, bounds
<1>2. CASE StartupPushes
  BY <1>2 DEF IInv, Phases, Started, StartupPushes, managerVars, watchVars, appVars,
     stateVars, moveVars, bounds
<1>3. CASE StartupFails
  BY <1>3 DEF IInv, Phases, Started, StartupFails, managerVars, watchVars, appVars,
     stateVars, moveVars, dataVars
<1>4. CASE StartupEnds
  BY <1>4 DEF IInv, Phases, Started, StartupEnds, managerVars, watchVars, appVars,
     dataVars, bounds
<1>5. CASE WatchRejected
  BY <1>5 DEF IInv, Phases, Started, WatchRejected, FallbackToLive, WatcherStops,
     appVars, lifeVars, dataVars
<1>6. CASE ModeStarts
  BY <1>6 DEF IInv, Phases, Started, ModeStarts, Start, WatcherStarts, Now, managerVars,
     watchVars, appVars, lifeVars, stateVars, moveVars, dataVars, bounds
<1>7. CASE ModeStarted
  BY <1>7 DEF IInv, Phases, Started, ModeStarted, StartSafetyNet, watchVars, appVars,
     lifeVars, stateVars, moveVars, dataVars, bounds
<1>8. CASE Stopped
  BY <1>8 DEF IInv, Phases, Started, Stopped, managerVars, watchVars, appVars,
     stateVars, dataVars, bounds
<1>9. CASE Stops
  BY <1>9 DEF IInv, Phases, Started, Stops, WatcherStops, appVars, stateVars, dataVars,
     bounds
<1>10. CASE UNCHANGED <<life, begun, transport, eventDriven, startup>>
  BY <1>10 DEF IInv, Phases, Started
<1>11. CASE RunStarts \/ RunPulls \/ RunPushes \/ RunFails \/ RunRejected
  BY <1>11, <1>10 DEF RunStarts, RunPulls, RunPushes, RunFails, RunRejected,
     managerVars, watchVars, appVars, lifeVars, dataVars, bounds, stateVars
<1>12. CASE WatchArrives \/ WatchHears \/ WatchLosesSeq \/ WatchFails \/ WatchRetries
  BY <1>12, <1>10 DEF WatchArrives, WatchHears, WatchLosesSeq, WatchFails, WatchRetries,
     managerVars, watchVars, appVars, lifeVars, stateVars, moveVars, dataVars, bounds
<1>13. CASE PushTimerFires \/ LivePulls \/ LivePushes \/ LiveRejected \/ HitFires \/
          SafetyTick \/ Hide \/ Show \/ RepairBegins \/ RemoteWrite \/ LocalWrite \/
          RepairEnds
  BY <1>13, <1>10 DEF PushTimerFires, LivePulls, LivePushes, LiveRejected, HitFires,
     SafetyTick, Hide, Show, RepairBegins, RemoteWrite, LocalWrite, RepairEnds,
     managerVars, watchVars, appVars, lifeVars, stateVars, dataVars, bounds, moveVars,
     SyncOnce, PauseReplication, ResumeReplication, RequestPush
<1>14. CASE UNCHANGED vars
  BY <1>14, <1>10 DEF vars, managerVars, watchVars, appVars, lifeVars, stateVars,
     moveVars, dataVars, bounds
<1>15. QED
  BY <1>1, <1>2, <1>3, <1>4, <1>5, <1>6, <1>7, <1>8, <1>9, <1>11, <1>12, <1>13, <1>14
     DEF Next, Startup, Runs, Watching, Mode, App

\* A link is event-driven only while its mode is.
LEMMA AgreementStep == IInv /\ [Next]_vars => Agreement'
<1> SUFFICES ASSUME IInv, [Next]_vars PROVE Agreement'
  OBVIOUS
<1>1. CASE StartupEnds
  BY <1>1 DEF IInv, Phases, Agreement, Started, StartupEnds, managerVars, watchVars,
     appVars, dataVars, bounds
<1>2. CASE WatchRejected
  BY <1>2 DEF IInv, Phases, Agreement, Started, WatchRejected, FallbackToLive,
     WatcherStops, appVars, lifeVars, dataVars
<1>3. CASE ModeStarts
  BY <1>3 DEF IInv, Phases, Agreement, Started, ModeStarts, Start, WatcherStarts, Now,
     managerVars, watchVars, appVars, lifeVars, stateVars, moveVars, dataVars, bounds
<1>4. CASE Stopped
  BY <1>4 DEF IInv, Phases, Agreement, Started, Stopped, managerVars, watchVars,
     appVars, stateVars, dataVars, bounds
<1>5. CASE Stops
  BY <1>5 DEF IInv, Phases, Agreement, Started, Stops, WatcherStops, appVars, stateVars,
     dataVars, bounds
<1>6. CASE UNCHANGED <<life, eventDriven, transport>>
  BY <1>6 DEF IInv, Phases, Agreement, Started
<1>7. CASE StartupPulls \/ StartupPushes \/ StartupFails
  BY <1>7, <1>6 DEF StartupPulls, StartupPushes, StartupFails, managerVars, watchVars,
     appVars, stateVars, moveVars, bounds, dataVars
<1>8. CASE RunStarts \/ RunPulls \/ RunPushes \/ RunFails \/ RunRejected
  BY <1>8, <1>6 DEF RunStarts, RunPulls, RunPushes, RunFails, RunRejected, managerVars,
     watchVars, appVars, lifeVars, dataVars, bounds, stateVars
<1>9. CASE WatchArrives \/ WatchHears \/ WatchLosesSeq \/ WatchFails \/ WatchRetries
  BY <1>9, <1>6 DEF WatchArrives, WatchHears, WatchLosesSeq, WatchFails, WatchRetries,
     managerVars, watchVars, appVars, lifeVars, stateVars, moveVars, dataVars, bounds
<1>10. CASE PushTimerFires \/ LivePulls \/ LivePushes \/ LiveRejected \/ HitFires \/
          ModeStarted \/ SafetyTick \/ Hide \/ Show \/ RepairBegins \/ RemoteWrite \/
          LocalWrite \/ RepairEnds
  BY <1>10, <1>6 DEF PushTimerFires, LivePulls, LivePushes, LiveRejected, HitFires,
     ModeStarted, SafetyTick, Hide, Show, RepairBegins, RemoteWrite, LocalWrite,
     RepairEnds, managerVars, watchVars, appVars, lifeVars, stateVars, dataVars, bounds,
     moveVars, SyncOnce, PauseReplication, ResumeReplication, RequestPush
<1>11. CASE UNCHANGED vars
  BY <1>11, <1>6 DEF vars, managerVars, watchVars, appVars, lifeVars, stateVars,
     moveVars, dataVars, bounds
<1>12. QED
  BY <1>1, <1>2, <1>3, <1>4, <1>5, <1>7, <1>8, <1>9, <1>10, <1>11 DEF Next, Startup,
     Runs, Watching, Mode, App

\* Whatever turns the watcher or the timer off ends the need for it.
LEMMA WatchedStep == IInv /\ [Next]_vars => Watched'
<1> SUFFICES ASSUME IInv, [Next]_vars PROVE Watched'
  OBVIOUS
<1>1. CASE StartupEnds
  BY <1>1 DEF IInv, Phases, Watched, Started, StartupEnds, managerVars, watchVars,
     appVars, dataVars, bounds
<1>2. CASE WatchArrives
  BY <1>2 DEF IInv, Phases, Watched, Started, WatchArrives, Now, managerVars, watchVars,
     appVars, lifeVars, stateVars, moveVars, dataVars, bounds
<1>3. CASE WatchHears
  BY <1>3 DEF IInv, Phases, Watched, Started, WatchHears, managerVars, appVars,
     lifeVars, stateVars, moveVars, dataVars, bounds
<1>4. CASE WatchLosesSeq
  BY <1>4 DEF IInv, Phases, Watched, Started, WatchLosesSeq, Now, managerVars,
     watchVars, appVars, lifeVars, stateVars, moveVars, dataVars, bounds
<1>5. CASE WatchFails
  BY <1>5 DEF IInv, Phases, Watched, Started, WatchFails, managerVars, appVars,
     lifeVars, stateVars, moveVars, dataVars
<1>6. CASE WatchRetries
  BY <1>6 DEF IInv, Phases, Watched, Started, WatchRetries, managerVars, appVars,
     lifeVars, stateVars, moveVars, dataVars, bounds
<1>7. CASE WatchRejected
  BY <1>7 DEF IInv, Phases, Watched, Started, WatchRejected, FallbackToLive,
     WatcherStops, appVars, lifeVars, dataVars
<1>8. CASE ModeStarts
  BY <1>8 DEF IInv, Phases, Watched, Started, ModeStarts, Start, WatcherStarts, Now,
     managerVars, watchVars, appVars, lifeVars, stateVars, moveVars, dataVars, bounds
<1>9. CASE ModeStarted
  BY <1>9 DEF IInv, Phases, Watched, Started, ModeStarted, StartSafetyNet, watchVars,
     appVars, lifeVars, stateVars, moveVars, dataVars, bounds
<1>10. CASE Stopped
  BY <1>10 DEF IInv, Phases, Watched, Started, Stopped, managerVars, watchVars, appVars,
     stateVars, dataVars, bounds
<1>11. CASE Stops
  BY <1>11 DEF IInv, Phases, Watched, Started, Stops, WatcherStops, appVars, stateVars,
     dataVars, bounds
<1>12. CASE Hide
  BY <1>12 DEF IInv, Phases, Watched, Started, Hide, PauseReplication, WatcherStops,
     Current, lifeVars, dataVars
<1>13. CASE Show
  BY <1>13 DEF IInv, Phases, Watched, Started, Show, ResumeReplication, WatcherStarts,
     StartSafetyNet, Current, Now, managerVars, watchVars, appVars, lifeVars, stateVars,
     moveVars, dataVars, bounds
<1>14. CASE UNCHANGED <<life, transport, hidden, watch, begun, armed, stray>>
  BY <1>14 DEF IInv, Phases, Watched, Started
<1>15. CASE StartupPulls \/ StartupPushes \/ StartupFails
  BY <1>15, <1>14 DEF StartupPulls, StartupPushes, StartupFails, managerVars, watchVars,
     appVars, stateVars, moveVars, bounds, dataVars
<1>16. CASE RunStarts \/ RunPulls \/ RunPushes \/ RunFails \/ RunRejected
  BY <1>16, <1>14 DEF RunStarts, RunPulls, RunPushes, RunFails, RunRejected,
     managerVars, watchVars, appVars, lifeVars, dataVars, bounds, stateVars
<1>17. CASE PushTimerFires \/ LivePulls \/ LivePushes \/ LiveRejected \/ HitFires \/
          SafetyTick \/ RepairBegins \/ RemoteWrite \/ LocalWrite \/ RepairEnds
  BY <1>17, <1>14 DEF PushTimerFires, LivePulls, LivePushes, LiveRejected, HitFires,
     SafetyTick, RepairBegins, RemoteWrite, LocalWrite, RepairEnds, managerVars,
     watchVars, appVars, lifeVars, stateVars, dataVars, bounds, moveVars, SyncOnce,
     PauseReplication, RequestPush, ResumeReplication
<1>18. CASE UNCHANGED vars
  BY <1>18, <1>14 DEF vars, managerVars, watchVars, appVars, lifeVars, stateVars,
     moveVars, dataVars, bounds
<1>19. QED
  BY <1>1, <1>2, <1>3, <1>4, <1>5, <1>6, <1>7, <1>8, <1>9, <1>10, <1>11, <1>12, <1>13,
     <1>15, <1>16, <1>17, <1>18 DEF Next, Startup, Runs, Watching, Mode, App

\* What has been ended stays ended.
LEMMA QuietStep == IInv /\ [Next]_vars => Quiet'
<1> SUFFICES ASSUME IInv, [Next]_vars PROVE Quiet'
  OBVIOUS
<1>1. CASE StartupPulls
  BY <1>1 DEF IInv, Phases, Quiet, Started, MayMove, StartupPulls, managerVars,
     watchVars, appVars, stateVars, moveVars, bounds
<1>2. CASE StartupPushes
  BY <1>2 DEF IInv, Phases, Quiet, Started, MayMove, StartupPushes, managerVars,
     watchVars, appVars, stateVars, moveVars, bounds
<1>3. CASE StartupFails
  BY <1>3 DEF IInv, Phases, Quiet, Started, MayMove, StartupFails, managerVars,
     watchVars, appVars, stateVars, moveVars, dataVars
<1>4. CASE StartupEnds
  BY <1>4 DEF IInv, Phases, Quiet, Started, MayMove, StartupEnds, managerVars,
     watchVars, appVars, dataVars, bounds
<1>5. CASE PushTimerFires
  BY <1>5 DEF IInv, Phases, Quiet, Started, MayMove, PushTimerFires, managerVars,
     watchVars, appVars, lifeVars, stateVars, dataVars, bounds
<1>6. CASE LiveRejected
  BY <1>6 DEF IInv, Phases, Quiet, Started, MayMove, LiveRejected, managerVars,
     watchVars, appVars, lifeVars, dataVars
<1>7. CASE WatchArrives
  BY <1>7 DEF IInv, Phases, Quiet, Started, MayMove, WatchArrives, Now, managerVars,
     watchVars, appVars, lifeVars, stateVars, moveVars, dataVars, bounds
<1>8. CASE WatchHears
  BY <1>8 DEF IInv, Phases, Quiet, Started, MayMove, WatchHears, managerVars, appVars,
     lifeVars, stateVars, moveVars, dataVars, bounds
<1>9. CASE WatchLosesSeq
  BY <1>9 DEF IInv, Phases, Quiet, Started, MayMove, WatchLosesSeq, Now, managerVars,
     watchVars, appVars, lifeVars, stateVars, moveVars, dataVars, bounds
<1>10. CASE WatchFails
  BY <1>10 DEF IInv, Phases, Quiet, Started, MayMove, WatchFails, managerVars, appVars,
     lifeVars, stateVars, moveVars, dataVars
<1>11. CASE WatchRetries
  BY <1>11 DEF IInv, Phases, Quiet, Started, MayMove, WatchRetries, managerVars,
     appVars, lifeVars, stateVars, moveVars, dataVars, bounds
<1>12. CASE WatchRejected
  BY <1>12 DEF IInv, Phases, Quiet, Started, MayMove, WatchRejected, FallbackToLive,
     WatcherStops, appVars, lifeVars, dataVars
<1>13. CASE ModeStarts
  BY <1>13 DEF IInv, Phases, Quiet, Started, MayMove, ModeStarts, Start, WatcherStarts,
     Now, managerVars, watchVars, appVars, lifeVars, stateVars, moveVars, dataVars,
     bounds
<1>14. CASE Stopped
  BY <1>14 DEF IInv, Phases, Quiet, Started, MayMove, Stopped, managerVars, watchVars,
     appVars, stateVars, dataVars, bounds
<1>15. CASE Hide
  BY <1>15 DEF IInv, Phases, Quiet, Started, MayMove, Hide, PauseReplication,
     WatcherStops, Current, lifeVars, dataVars
<1>16. CASE Show
  BY <1>16 DEF IInv, Phases, Quiet, Started, MayMove, Show, ResumeReplication,
     WatcherStarts, StartSafetyNet, Current, Now, managerVars, watchVars, appVars,
     lifeVars, stateVars, moveVars, dataVars, bounds
<1>17. CASE RepairBegins
  BY <1>17 DEF IInv, Phases, Quiet, Started, MayMove, RepairBegins, PauseReplication,
     Current, managerVars, watchVars, lifeVars, dataVars
<1>18. CASE LocalWrite
  BY <1>18 DEF IInv, Phases, Quiet, Started, MayMove, LocalWrite, RequestPush,
     managerVars, watchVars, appVars, lifeVars, stateVars, bounds
<1>19. CASE Stops
  BY <1>19 DEF IInv, Phases, Quiet, Started, MayMove, Stops, WatcherStops, appVars,
     stateVars, dataVars, bounds
<1>20. CASE RepairEnds
  BY <1>20 DEF IInv, Phases, Quiet, Started, MayMove, RepairEnds, ResumeReplication,
     managerVars, watchVars, lifeVars, dataVars, bounds
<1>21. CASE UNCHANGED <<life, watch, timer, live, startup>>
  BY <1>21 DEF IInv, Phases, Quiet, Started, MayMove
<1>22. CASE RunStarts \/ RunPulls \/ RunPushes \/ RunFails \/ RunRejected
  BY <1>22, <1>21 DEF RunStarts, RunPulls, RunPushes, RunFails, RunRejected,
     managerVars, watchVars, appVars, lifeVars, dataVars, bounds, stateVars
<1>23. CASE LivePulls \/ LivePushes \/ HitFires \/ ModeStarted \/ SafetyTick \/
          RemoteWrite
  BY <1>23, <1>21 DEF LivePulls, LivePushes, HitFires, ModeStarted, SafetyTick,
     RemoteWrite, managerVars, watchVars, appVars, lifeVars, moveVars, bounds, SyncOnce,
     stateVars, dataVars
<1>24. CASE UNCHANGED vars
  BY <1>24, <1>21 DEF vars, managerVars, watchVars, appVars, lifeVars, stateVars,
     moveVars, dataVars, bounds
<1>25. QED
  BY <1>1, <1>2, <1>3, <1>4, <1>5, <1>6, <1>7, <1>8, <1>9, <1>10, <1>11, <1>12, <1>13,
     <1>14, <1>15, <1>16, <1>17, <1>18, <1>19, <1>20, <1>22, <1>23, <1>24 DEF Next,
     Startup, Runs, Watching, Mode, App

\* The first state.
LEMMA InitIInv == Init => IInv
<1> SUFFICES ASSUME Init PROVE IInv
  OBVIOUS
<1>1. Flags
  BY DEF Init, Flags
<1>2. Ranges
  BY Bounds DEF Init, Ranges, Now
<1>3. Phases /\ Agreement /\ Watched /\ Quiet
  BY DEF Init, Phases, Agreement, Watched, Quiet, Started
<1>4. QED
  BY <1>1, <1>2, <1>3 DEF IInv, TypeOK

LEMMA Step == IInv /\ [Next]_vars => IInv'
BY FlagsStep, RangesStep, PhasesStep, AgreementStep, WatchedStep, QuietStep
   DEF IInv, TypeOK

\* Every reachable state satisfies the inductive invariant.
LEMMA Inductive == Spec => []IInv
BY InitIInv, Step, PTL DEF Spec

\* Every variable keeps its type, for any number of writes, pauses, repairs and faults.
THEOREM TypeCorrect == Spec => []TypeOK
<1>1. IInv => TypeOK
  BY DEF IInv
<1>2. QED
  BY <1>1, Inductive, PTL

\* A visible event-driven link has its watcher and its safety net, however its start,
\* hiding and showing, and the fallback interleave (ManagerMode.onVisibility, start,
\* onWatcherFatal).
THEOREM EventLinksAreWatched == Spec => []EventLinkIsWatched
<1>1. IInv => EventLinkIsWatched
  BY DEF IInv, Agreement, Watched, Started, EventLinkIsWatched
<1>2. QED
  BY <1>1, Inductive, PTL

\* A step of a stopped link neither transfers anything nor revives the link.
LEMMA OffStays ==
    IInv /\ [Next]_vars /\ life = "off" => life' = "off" /\ got' = got /\ sent' = sent
<1> SUFFICES ASSUME IInv, [Next]_vars, life = "off"
             PROVE  life' = "off" /\ got' = got /\ sent' = sent
  OBVIOUS
<1>1. ~live /\ startup = "none"
  BY DEF IInv, Quiet
<1>2. CASE StartupPulls \/ StartupPushes \/ StartupEnds \/ RunPulls \/ RunPushes \/
          LivePulls \/ LivePushes \/ ModeStarts \/ Stopped \/ Stops \/ StartupFails
  BY <1>1, <1>2 DEF StartupPulls, StartupPushes, StartupEnds, RunPulls, RunPushes,
     LivePulls, LivePushes, ModeStarts, Stopped, Stops, StartupFails, Start, Started
<1>3. CASE RunStarts \/ RunFails \/ RunRejected \/ PushTimerFires \/ LiveRejected \/
          WatchArrives \/ WatchHears \/ WatchLosesSeq \/ WatchFails \/ WatchRetries \/
          WatchRejected \/ HitFires \/ ModeStarted \/ SafetyTick \/ Hide \/ Show \/
          RepairBegins \/ RemoteWrite \/ LocalWrite \/ RepairEnds \/ UNCHANGED vars
  BY <1>3 DEF RunStarts, RunFails, RunRejected, PushTimerFires, LiveRejected,
     WatchArrives, WatchHears, WatchLosesSeq, WatchFails, WatchRetries, WatchRejected,
     HitFires, ModeStarted, SafetyTick, Hide, Show, RepairBegins, RemoteWrite,
     LocalWrite, RepairEnds, vars, dataVars, lifeVars
<1>4. QED
  BY <1>2, <1>3 DEF Next, Startup, Runs, Watching, Mode, App

\* After the stop nothing is transferred or started, whatever was under way
\* (MirrorSync.stop, AsyncLifecycle.isCurrent).
THEOREM StopIsQuiet == Spec => StoppedIsQuiet
<1> DEFINE Still == life = "off" => /\ got' = got /\ sent' = sent
                                    /\ ~live' /\ ~timer' /\ watch' = "off"
<1>1. IInv /\ [Next]_vars => Still
  BY OffStays, Step DEF IInv, Quiet
<1>2. IInv /\ [Next]_vars => [Still]_vars
  BY <1>1
<1>3. QED
  BY <1>2, Inductive, PTL DEF Spec, StoppedIsQuiet

-----------------------------------------------------------------------------

(* Designations: the invariants.                                             *)

InTheSpace == {"name", "renamed", "deleted", "write", "clear"}
AHandler(h) == h = [at |-> h.at, file |-> h.file, paths |-> h.paths, from |-> h.from, to |-> h.to, old |-> h.old]
Handler(h) ==
    /\ h.at \in InTheSpace
    /\ AHandler(h) /\ h.file \in SharedNotes /\ h.paths = {h.from, h.to}
    /\ h.from \in Places \cup Outside /\ h.to \in Places \cup Outside
    /\ h.at \in {"name", "deleted"} => h.from = h.to
    /\ h.at = "name" => h.from \in Places
    /\ h.at \in {"write", "clear"} => h.from \in Places
    /\ h.at = "renamed" => h.from # h.to
    /\ h.at = "write" => h.from # h.to /\ h.to \in Places

PartTypes ==
    /\ part = [p \in Places |-> part[p]] /\ \A p \in Places : part[p] = [rev |-> part[p].rev, who |-> part[p].who]
    /\ place = [f \in SharedNotes |-> place[f]] /\ wanted = [f \in SharedNotes |-> wanted[f]]
    /\ \A f \in SharedNotes : place[f] \in Places \cup Outside \cup {Gone}
    /\ job = [j \in Hands |-> job[j]] /\ \A j \in Hands : job[j] = NoJob \/ Handler(job[j])

OneFileAPath == \A f, g \in SharedNotes : f # g => place[f] = Gone \/ place[f] # place[g]
OutsideHasNoList == \A f \in SharedNotes : place[f] \notin Places => wanted[f] = NoPart

Occupied(j) == job[j] # NoJob
Untouched(p) == \A j \in Hands : Occupied(j) => p \notin job[j].paths
\* Two handlers that met have hurried all their paths.
MeetingsAreKnown ==
    \A i, j \in Hands : i # j /\ Occupied(i) /\ Occupied(j) /\ job[i].paths \cap job[j].paths # {}
                            => job[i].paths \subseteq hurried
\* The document at a path says what the manager last named for the file there.
AtRest(p) ==
    /\ \A f \in SharedNotes : place[f] = p => part[p].who = wanted[f]
    /\ (\A f \in SharedNotes : place[f] # p) => part[p].who = NoPart
RestingPaths == \A p \in Places \ hurried : Untouched(p) => AtRest(p)
\* What a handler leaves behind, and what it brings along.
LeavesNobody(h) ==
    h.from \in Places \ hurried =>
        /\ h.at = "name" => place[h.file] = h.from
        /\ h.at # "name" => \A g \in SharedNotes : place[g] # h.from
        /\ h.at \in {"write", "clear"} => part[h.from] = h.old
TakesAlong(h) ==
    h.from # h.to /\ h.to \in Places \ hurried =>
        /\ place[h.file] = h.to
        /\ h.at = "renamed" => /\ part[h.to].who = NoPart
                               /\ wanted[h.file] = IF h.from \in Places THEN part[h.from].who ELSE NoPart
        /\ h.at = "write" => wanted[h.file] = h.old.who
        /\ h.at = "clear" => wanted[h.file] = part[h.to].who
HandlersFollow == \A j \in Hands : Occupied(j) => LeavesNobody(job[j]) /\ TakesAlong(job[j])

FollowInv == PartTypes /\ OneFileAPath /\ OutsideHasNoList /\ MeetingsAreKnown /\ RestingPaths /\ HandlersFollow

\* The policy.
NamedOf(db) == [p \in {q \in Homes[db] : part[q].who # NoPart} |-> part[p].who]
PolicyNow(db) == [ro |-> readOnly, allow |-> NamedOf(db)]
Task(t) ==
    \/ t = NoJob
    \/ t.at = "build" /\ t = [at |-> "build", left |-> t.left] /\ t.left \subseteq Databases
    \/ /\ t.at = "put" /\ t = [at |-> "put", db |-> t.db, policy |-> t.policy, left |-> t.left]
       /\ t.left \subseteq Databases /\ t.db \in Databases
PolicyTypes ==
    /\ redeploy = [r \in Hands |-> redeploy[r]] /\ \A r \in Hands : Task(redeploy[r])
    /\ deployed = [db \in Databases |-> deployed[db]] /\ doubted = [db \in Databases |-> doubted[db]]
    /\ recorded = deployed /\ readOnly \in BOOLEAN /\ \A db \in Databases : doubted[db] \in BOOLEAN
\* The policy of the database will be built anew.
Due(db) ==
    \/ db \in validateTimers
    \/ \E r \in Hands : redeploy[r] # NoJob /\ db \in redeploy[r].left
    \/ \E j \in Hands : job[j].at = "clear" /\ (job[j].from \in Homes[db] \/ job[j].to \in Homes[db])
OneHolder ==
    \A db \in Databases : ~doubted[db] => \A r, i \in Hands : HoldsPolicy(r, db) /\ HoldsPolicy(i, db) => r = i
HeldPolicyIsTrue ==
    \A db \in Databases : readOnly /\ ~doubted[db] /\ ~Due(db) =>
        /\ \A r \in Hands : HoldsPolicy(r, db) => redeploy[r].policy = PolicyNow(db)
        /\ (\A r \in Hands : ~HoldsPolicy(r, db)) => deployed[db] = PolicyNow(db)
PolicyInv == PolicyTypes /\ OneHolder /\ HeldPolicyIsTrue

----------------------------------------------------------------------------
(* The files and their handlers.                                            *)

LEMMA FollowInvInit == DesignationsInit => FollowInv
<1> SUFFICES ASSUME DesignationsInit PROVE FollowInv
  OBVIOUS
<1>1. /\ place \in [SharedNotes -> Places \cup {Gone}]
      /\ \A f, g \in SharedNotes : f # g => place[f] = Gone \/ place[f] # place[g]
      /\ part = [p \in Places |-> [rev |-> 0, who |-> NoPart]]
      /\ job = [j \in Hands |-> NoJob] /\ wanted = [f \in SharedNotes |-> NoPart] /\ hurried = {}
  BY DEF DesignationsInit
<1>2. \A j \in Hands : job[j] = NoJob /\ ~Occupied(j)
  BY <1>1 DEF Occupied
<1>3. PartTypes
  <2>1. part = [p \in Places |-> part[p]] /\ \A p \in Places : part[p] = [rev |-> part[p].rev, who |-> part[p].who]
    BY <1>1
  <2>2. /\ place = [f \in SharedNotes |-> place[f]] /\ wanted = [f \in SharedNotes |-> wanted[f]]
        /\ \A f \in SharedNotes : place[f] \in Places \cup Outside \cup {Gone}
        /\ job = [j \in Hands |-> job[j]]
    BY <1>1
  <2>3. QED
    BY <1>2, <2>1, <2>2 DEF PartTypes
<1>4. OneFileAPath /\ OutsideHasNoList
  BY <1>1 DEF OneFileAPath, OutsideHasNoList
<1>5. MeetingsAreKnown /\ HandlersFollow
  BY <1>2 DEF MeetingsAreKnown, HandlersFollow
<1>6. RestingPaths
  BY <1>1 DEF RestingPaths, AtRest
<1>7. QED
  BY <1>3, <1>4, <1>5, <1>6 DEF FollowInv

\* A handler starts: it and whomever it meets hurry their paths.
LEMMA StartsOne ==
    ASSUME PartTypes, NEW f \in SharedNotes, NEW paths, NEW rec, paths = {rec.from, rec.to},
           rec.at \in {"name", "renamed", "deleted"},
           rec.from \in Places \cup Outside, rec.to \in Places \cup Outside,
           rec.at \in {"name", "deleted"} => rec.from = rec.to,
           rec.at = "name" => rec.from \in Places, rec.at = "renamed" => rec.from # rec.to,
           Starts(f, paths, rec)
    PROVE  \E j \in Hands :
        /\ ~Occupied(j) /\ job'[j] # NoJob /\ Handler(job'[j]) /\ \A i \in Hands \ {j} : job'[i] = job[i]
        /\ job' = [i \in Hands |-> job'[i]]
        /\ job'[j].at = rec.at /\ job'[j].file = f /\ job'[j].paths = paths
        /\ job'[j].from = rec.from /\ job'[j].to = rec.to
        /\ \A i \in Hands : Occupied(i) /\ job[i].paths \cap paths # {}
                               => job[i].paths \subseteq hurried' /\ paths \subseteq hurried'
        /\ \A p \in hurried : p \in hurried' \/ (rec.at = "name" /\ p \in paths /\ Untouched(p))
        /\ rec.at # "name" /\ rec.from \in hurried => paths \subseteq hurried'
<1> DEFINE met == Touching(paths)
<1>1. PICK j \in Hands :
        /\ job[j] = NoJob
        /\ job' = [job EXCEPT ![j] = [at |-> rec.at, file |-> f, paths |-> paths, from |-> rec.from,
                                      to |-> rec.to, old |-> [rev |-> 0, who |-> NoPart]]]
        /\ hurried' = IF met # {} THEN hurried \cup UNION {paths, UNION {job[i].paths : i \in met}}
                      ELSE IF rec.at = "name" THEN hurried \ paths
                      ELSE hurried \cup IF rec.from \in hurried THEN paths ELSE {}
  BY DEF Starts
<1>2. \A i \in Hands : Occupied(i) /\ job[i].paths \cap paths # {} => i \in met
  BY DEF PartTypes, Handler, InTheSpace, Occupied, Touching
<1> HIDE DEF met
<1>3. PICK h : h = [at |-> rec.at, file |-> f, paths |-> paths, from |-> rec.from,
                    to |-> rec.to, old |-> [rev |-> 0, who |-> NoPart]]
  OBVIOUS
<1>4. /\ h.at = rec.at /\ h.file = f /\ h.paths = paths /\ h.from = rec.from /\ h.to = rec.to /\ AHandler(h)
  BY <1>3 DEF AHandler
<1>5. Handler(h) /\ h # NoJob
  <2>1. Handler(h)
    BY <1>4 DEF Handler, InTheSpace
  <2>2. h.at # "idle" /\ NoJob.at = "idle"
    BY <1>4 DEF NoJob
  <2>3. QED
    BY <2>1, <2>2
<1>6. /\ job'[j] = h /\ job' = [i \in Hands |-> job'[i]] /\ \A i \in Hands \ {j} : job'[i] = job[i]
  BY <1>1, <1>3 DEF PartTypes
<1>7. \A i \in Hands : Occupied(i) /\ job[i].paths \cap paths # {}
                               => job[i].paths \subseteq hurried' /\ paths \subseteq hurried'
  BY <1>1, <1>2
<1>8. \A p \in hurried : p \in hurried' \/ (rec.at = "name" /\ p \in paths /\ Untouched(p))
  <2> SUFFICES ASSUME NEW p \in hurried, p \notin hurried'
               PROVE  rec.at = "name" /\ p \in paths /\ Untouched(p)
    OBVIOUS
  <2>1. rec.at = "name" /\ p \in paths
    BY <1>1
  <2>2. Untouched(p)
    BY <1>7, <2>1 DEF Untouched
  <2>3. QED
    BY <2>1, <2>2
<1>9. rec.at # "name" /\ rec.from \in hurried => paths \subseteq hurried'
  BY <1>1
<1>10. ~Occupied(j)
  BY <1>1 DEF Occupied
<1>11. QED
  BY <1>4, <1>5, <1>6, <1>7, <1>8, <1>9, <1>10

LEMMA StartStep ==
    ASSUME FollowInv, NEW f \in SharedNotes, NEW paths, NEW rec, paths = {rec.from, rec.to},
           rec.at \in {"name", "renamed", "deleted"}, rec.from = place[f], rec.from # Gone,
           rec.to \in Places \cup Outside,
           rec.at \in {"name", "deleted"} => rec.from = rec.to,
           rec.at = "name" => rec.from \in Places,
           rec.at = "renamed" => \A g \in SharedNotes : place[g] # rec.to,
           Starts(f, paths, rec), UNCHANGED part,
           NEW x, NEW w, place' = [place EXCEPT ![f] = x], wanted' = [wanted EXCEPT ![f] = w],
           rec.at = "name" => x = rec.from,
           rec.at = "renamed" => x = rec.to /\ w = IF x \in Places THEN wanted[f] ELSE NoPart,
           rec.at = "deleted" => x = Gone /\ w = NoPart
    PROVE  FollowInv'
<1>1. /\ PartTypes /\ rec.from \in Places \cup Outside /\ Gone \notin Places \cup Outside
      /\ rec.at = "renamed" => rec.from # rec.to
  BY DesignationsAssumption DEF FollowInv, PartTypes
<1>2. PICK j \in Hands :
        /\ ~Occupied(j) /\ job'[j] # NoJob /\ Handler(job'[j]) /\ \A i \in Hands \ {j} : job'[i] = job[i]
        /\ job' = [i \in Hands |-> job'[i]]
        /\ job'[j].at = rec.at /\ job'[j].file = f /\ job'[j].paths = paths
        /\ job'[j].from = rec.from /\ job'[j].to = rec.to
        /\ \A i \in Hands : Occupied(i) /\ job[i].paths \cap paths # {}
                               => job[i].paths \subseteq hurried' /\ paths \subseteq hurried'
        /\ \A p \in hurried : p \in hurried' \/ (rec.at = "name" /\ p \in paths /\ Untouched(p))
        /\ rec.at # "name" /\ rec.from \in hurried => paths \subseteq hurried'
  BY <1>1, StartsOne
<1>3. /\ place' = [g \in SharedNotes |-> place'[g]] /\ wanted' = [g \in SharedNotes |-> wanted'[g]]
      /\ place'[f] = x /\ wanted'[f] = w
      /\ \A g \in SharedNotes \ {f} : place'[g] = place[g] /\ wanted'[g] = wanted[g]
      /\ x \in paths \cup {Gone} /\ x \in Places \cup Outside \cup {Gone} /\ place[f] \in paths
  BY <1>1 DEF PartTypes
<1>4. /\ \A i \in Hands : Occupied(i)' <=> i = j \/ Occupied(i)
      /\ \A i \in Hands : Occupied(i) => i # j /\ job'[i] = job[i] /\ Handler(job[i])
  BY <1>1, <1>2 DEF Occupied, PartTypes
<1>5. \A i \in Hands : Occupied(i) => \A p \in job[i].paths : p \notin hurried' => p \notin hurried /\ p \notin paths
  BY <1>2 DEF Untouched
<1>6. PartTypes'
  <2>1. part' = [p \in Places |-> part'[p]] /\ \A p \in Places : part'[p] = [rev |-> part'[p].rev, who |-> part'[p].who]
    BY <1>1 DEF PartTypes
  <2>2. \A i \in Hands : job'[i] = NoJob \/ Handler(job'[i])
    BY <1>1, <1>2 DEF PartTypes
  <2>3. \A g \in SharedNotes : place'[g] \in Places \cup Outside \cup {Gone}
    BY <1>1, <1>3 DEF PartTypes
  <2>4. QED
    BY <1>2, <1>3, <2>1, <2>2, <2>3 DEF PartTypes, Handler, AHandler
<1>7. OneFileAPath'
  BY <1>1, <1>3 DEF FollowInv, OneFileAPath
<1>8. OutsideHasNoList'
  BY <1>1, <1>3 DEF FollowInv, OutsideHasNoList
<1>9. MeetingsAreKnown'
  <2> SUFFICES ASSUME NEW i \in Hands, NEW k \in Hands, i # k, Occupied(i)', Occupied(k)',
                      job'[i].paths \cap job'[k].paths # {}
               PROVE  job'[i].paths \subseteq hurried'
    BY DEF MeetingsAreKnown
  <2>1. CASE i # j /\ k # j
    <3>1. job[i].paths \subseteq hurried /\ Occupied(i) /\ job'[i] = job[i]
      BY <1>4, <2>1 DEF FollowInv, MeetingsAreKnown
    <3>2. QED
      BY <1>5, <3>1
  <2>2. CASE i = j \/ k = j
    BY <1>2, <1>4, <2>2
  <2>3. QED
    BY <2>1, <2>2
<1>10. RestingPaths'
  <2> SUFFICES ASSUME NEW p \in Places \ hurried', Untouched(p)' PROVE AtRest(p)'
    BY DEF RestingPaths
  <2>1. p \notin paths /\ Untouched(p)
    BY <1>2, <1>4 DEF Untouched
  <2>2. p \notin hurried
    BY <1>2, <2>1
  <2>3. AtRest(p)
    BY <2>1, <2>2 DEF FollowInv, RestingPaths
  <2>4. \A g \in SharedNotes : /\ place'[g] = p <=> place[g] = p
                               /\ place[g] = p => wanted'[g] = wanted[g]
    BY <1>1, <1>3, <2>1
  <2>5. QED
    BY <2>3, <2>4 DEF AtRest
<1>11. HandlersFollow'
  <2>1. ASSUME NEW i \in Hands, Occupied(i) PROVE LeavesNobody(job[i])' /\ TakesAlong(job[i])'
    <3> DEFINE h == job[i]
    <3>0. /\ Handler(h) /\ LeavesNobody(h) /\ TakesAlong(h) /\ h.paths = {h.from, h.to} /\ job'[i] = job[i]
      BY <1>4, <2>1 DEF FollowInv, HandlersFollow, Handler
    <3>1. \A p \in {h.from, h.to} : p \notin hurried' => p \notin hurried /\ p \notin paths
      BY <1>5, <2>1, <3>0
    <3> HIDE DEF h
    <3>2. h.file \in SharedNotes
      BY <3>0 DEF Handler
    <3>3. \A p \in Places \ hurried' : p \in {h.from, h.to} =>
             \A g \in SharedNotes : (place'[g] = p <=> place[g] = p) /\ (place[g] = p => wanted'[g] = wanted[g])
      BY <1>1, <1>3, <3>1
    <3>4. LeavesNobody(h)'
      <4> SUFFICES ASSUME h.from \in Places \ hurried'
                   PROVE  /\ h.at = "name" => place'[h.file] = h.from
                          /\ h.at # "name" => \A g \in SharedNotes : place'[g] # h.from
                          /\ h.at \in {"write", "clear"} => part[h.from] = h.old
        BY <3>0 DEF LeavesNobody, h
      <4>1. h.from \notin hurried
        BY <3>1
      <4>2. QED
        BY <3>0, <3>2, <3>3, <4>1 DEF LeavesNobody
    <3>5. TakesAlong(h)'
      <4> SUFFICES ASSUME h.from # h.to, h.to \in Places \ hurried'
                   PROVE  /\ place'[h.file] = h.to
                          /\ h.at = "renamed" =>
                                /\ part[h.to].who = NoPart
                                /\ wanted'[h.file] = IF h.from \in Places THEN part[h.from].who ELSE NoPart
                          /\ h.at = "write" => wanted'[h.file] = h.old.who
                          /\ h.at = "clear" => wanted'[h.file] = part[h.to].who
        BY <3>0 DEF TakesAlong, h
      <4>1. h.to \notin hurried
        BY <3>1
      <4>2. QED
        BY <3>0, <3>2, <3>3, <4>1 DEF TakesAlong
    <3>6. QED
      BY <3>4, <3>5, <3>0 DEF h
  <2>2. LeavesNobody(job[j])' /\ TakesAlong(job[j])'
    <3>1. PICK h : h = job'[j]
      OBVIOUS
    <3>2. h.at = rec.at /\ h.file = f /\ h.from = rec.from /\ h.to = rec.to
      BY <1>2, <3>1
    <3>3. h.from \in Places \ hurried' =>
              /\ h.at = "name" => place'[h.file] = h.from
              /\ h.at # "name" => \A g \in SharedNotes : place'[g] # h.from
              /\ h.at \notin {"write", "clear"}
      <4>1. \A g \in SharedNotes \ {f} : place[g] # rec.from
        BY DEF FollowInv, OneFileAPath
      <4>2. QED
        BY <1>1, <1>3, <3>2, <4>1
    <3>4. ASSUME h.from # h.to, h.to \in Places \ hurried'
          PROVE  /\ place'[h.file] = h.to /\ h.at = "renamed"
                 /\ part[h.to].who = NoPart
                 /\ wanted'[h.file] = IF h.from \in Places THEN part[h.from].who ELSE NoPart
      <4>1. rec.at = "renamed" /\ place'[f] = rec.to /\ wanted'[f] = wanted[f]
        BY <1>3, <3>2, <3>4
      <4>2. /\ Untouched(rec.to) /\ Untouched(rec.from)
            /\ rec.to \notin hurried /\ rec.from \notin hurried
        BY <1>2, <3>2, <3>4, <4>1 DEF Untouched
      <4>3. AtRest(rec.to) /\ (rec.from \in Places => AtRest(rec.from))
        BY <3>2, <3>4, <4>2 DEF FollowInv, RestingPaths
      <4>4. part[rec.to].who = NoPart
        BY <4>1, <4>3 DEF AtRest
      <4>5. wanted[f] = IF rec.from \in Places THEN part[rec.from].who ELSE NoPart
        BY <4>3 DEF AtRest, FollowInv, OutsideHasNoList
      <4>6. QED
        BY <3>2, <4>1, <4>4, <4>5
    <3>5. /\ h.from \in Places \ hurried' =>
                /\ h.at = "name" => place'[h.file] = h.from
                /\ h.at # "name" => \A g \in SharedNotes : place'[g] # h.from
                /\ h.at \in {"write", "clear"} => part'[h.from] = h.old
          /\ h.from # h.to /\ h.to \in Places \ hurried' =>
                /\ place'[h.file] = h.to
                /\ h.at = "renamed" => /\ part'[h.to].who = NoPart
                                       /\ wanted'[h.file] = IF h.from \in Places THEN part'[h.from].who ELSE NoPart
                /\ h.at = "write" => wanted'[h.file] = h.old.who
                /\ h.at = "clear" => wanted'[h.file] = part'[h.to].who
      BY <3>3, <3>4
    <3>6. QED
      BY <3>1, <3>5 DEF LeavesNobody, TakesAlong
  <2>3. QED
    BY <1>2, <1>4, <2>1, <2>2 DEF HandlersFollow
<1>12. QED
  BY <1>6, <1>7, <1>8, <1>9, <1>10, <1>11 DEF FollowInv

LEMMA CreateStep == ASSUME FollowInv, NEW f \in SharedNotes, NEW p \in Places \cup Outside, CreateNote(f, p)
                    PROVE  FollowInv'
<1>1. /\ place[f] = Gone /\ \A g \in SharedNotes : place[g] # p
      /\ place' = [place EXCEPT ![f] = p] /\ wanted' = [wanted EXCEPT ![f] = NoPart]
      /\ hurried' = hurried \cup IF Touching({p}) = {} THEN {} ELSE {p}
      /\ UNCHANGED <<part, job>>
  BY DEF CreateNote
<1>2. /\ place' = [g \in SharedNotes |-> place'[g]] /\ wanted' = [g \in SharedNotes |-> wanted'[g]]
      /\ place'[f] = p /\ wanted'[f] = NoPart
      /\ \A g \in SharedNotes \ {f} : place'[g] = place[g] /\ wanted'[g] = wanted[g]
      /\ Gone \notin Places \cup Outside
  BY <1>1, DesignationsAssumption DEF FollowInv, PartTypes
<1>3. \A i \in Hands : (Occupied(i)' <=> Occupied(i)) /\ (Occupied(i) => Handler(job[i]) /\ (p \in job[i].paths => p \in hurried'))
  <2>1. \A i \in Hands : Occupied(i) /\ p \in job[i].paths => i \in Touching({p})
    BY DEF FollowInv, PartTypes, Handler, InTheSpace, Occupied, Touching
  <2>2. QED
    BY <1>1, <2>1 DEF Occupied, FollowInv, PartTypes
<1>4. PartTypes'
  BY <1>1, <1>2 DEF FollowInv, PartTypes, Handler, AHandler
<1>5. OneFileAPath' /\ OutsideHasNoList'
  BY <1>1, <1>2 DEF FollowInv, OneFileAPath, OutsideHasNoList
<1>6. MeetingsAreKnown'
  BY <1>1, <1>3 DEF FollowInv, MeetingsAreKnown
<1>7. RestingPaths'
  <2> SUFFICES ASSUME NEW q \in Places \ hurried', Untouched(q)' PROVE AtRest(q)'
    BY DEF RestingPaths
  <2>1. q \notin hurried /\ Untouched(q)
    BY <1>1, <1>3 DEF Untouched
  <2>2. AtRest(q)
    BY <2>1 DEF FollowInv, RestingPaths
  <2>3. QED
    BY <1>1, <1>2, <2>2 DEF AtRest
<1>8. HandlersFollow'
  <2> SUFFICES ASSUME NEW i \in Hands, Occupied(i) PROVE LeavesNobody(job[i])' /\ TakesAlong(job[i])'
    BY <1>1, <1>3 DEF HandlersFollow
  <2>1. PICK h : h = job[i]
    OBVIOUS
  <2>2. Handler(h) /\ LeavesNobody(h) /\ TakesAlong(h) /\ job'[i] = h /\ (p \in {h.from, h.to} => p \in hurried')
    BY <1>1, <1>3, <2>1 DEF FollowInv, HandlersFollow, Handler
  <2>3. h.file \in SharedNotes /\ hurried \subseteq hurried'
    BY <1>1, <2>2 DEF Handler
  <2>4. h.from \in Places \ hurried' =>
                /\ h.at = "name" => place'[h.file] = h.from
                /\ h.at # "name" => \A g \in SharedNotes : place'[g] # h.from
                /\ h.at \in {"write", "clear"} => part'[h.from] = h.old
    BY <1>1, <1>2, <2>2, <2>3 DEF LeavesNobody
  <2>5. h.from # h.to /\ h.to \in Places \ hurried' =>
                /\ place'[h.file] = h.to
                /\ h.at = "renamed" => /\ part'[h.to].who = NoPart
                                       /\ wanted'[h.file] = IF h.from \in Places THEN part'[h.from].who ELSE NoPart
                /\ h.at = "write" => wanted'[h.file] = h.old.who
                /\ h.at = "clear" => wanted'[h.file] = part'[h.to].who
    BY <1>1, <1>2, <2>2, <2>3 DEF TakesAlong
  <2>6. QED
    BY <2>2, <2>4, <2>5 DEF LeavesNobody, TakesAlong
<1>9. QED
  BY <1>4, <1>5, <1>6, <1>7, <1>8 DEF FollowInv

\* A handler at work changes the documents of its own paths only.
LEMMA WorkStep ==
    ASSUME FollowInv, NEW j \in Hands, Occupied(j), NEW h, job' = [job EXCEPT ![j] = h],
           h = NoJob \/ (Handler(h) /\ h.paths = job[j].paths),
           UNCHANGED <<place, wanted>>,
           part' = [p \in Places |-> part'[p]],
           \A p \in Places : part'[p] = [rev |-> part'[p].rev, who |-> part'[p].who],
           \A p \in Places : p \in job[j].paths \/ part'[p] = part[p],
           hurried \subseteq hurried', hurried' \subseteq hurried \cup job[j].paths,
           \A p \in job[j].paths \cap Places : h = NoJob /\ p \notin hurried' =>
               /\ \A f \in SharedNotes : place[f] = p => part'[p].who = wanted[f]
               /\ (\A f \in SharedNotes : place[f] # p) => part'[p].who = NoPart,
           h # NoJob /\ h.from \in Places \ hurried' =>
                /\ h.at = "name" => place[h.file] = h.from
                /\ h.at # "name" => \A g \in SharedNotes : place[g] # h.from
                /\ h.at \in {"write", "clear"} => part'[h.from] = h.old,
           h # NoJob /\ h.from # h.to /\ h.to \in Places \ hurried' =>
                /\ place[h.file] = h.to
                /\ h.at = "renamed" => /\ part'[h.to].who = NoPart
                                       /\ wanted[h.file] = IF h.from \in Places THEN part'[h.from].who ELSE NoPart
                /\ h.at = "write" => wanted[h.file] = h.old.who
                /\ h.at = "clear" => wanted[h.file] = part'[h.to].who
    PROVE  FollowInv'
<1>1. /\ job'[j] = h /\ job' = [i \in Hands |-> job'[i]] /\ \A i \in Hands \ {j} : job'[i] = job[i]
      /\ \A i \in Hands : Occupied(i)' => Occupied(i) /\ job'[i].paths = job[i].paths
  BY DEF FollowInv, PartTypes, Occupied
<1>2. PartTypes'
  <2>1. \A i \in Hands : job'[i] = NoJob \/ Handler(job'[i])
    BY <1>1 DEF FollowInv, PartTypes
  <2>2. QED
    BY <1>1, <2>1 DEF FollowInv, PartTypes, Handler, AHandler
<1>3. OneFileAPath' /\ OutsideHasNoList'
  BY DEF FollowInv, OneFileAPath, OutsideHasNoList
<1>4. MeetingsAreKnown'
  BY <1>1 DEF FollowInv, MeetingsAreKnown
<1>5. RestingPaths'
  <2> SUFFICES ASSUME NEW p \in Places \ hurried', Untouched(p)' PROVE AtRest(p)'
    BY DEF RestingPaths
  <2>1. CASE p \in job[j].paths
    <3>1. h = NoJob
      BY <1>1, <2>1 DEF Untouched, Occupied
    <3>2. QED
      BY <2>1, <3>1 DEF AtRest
  <2>2. CASE p \notin job[j].paths
    <3>1. Untouched(p) /\ p \notin hurried /\ part'[p] = part[p]
      BY <1>1, <2>2 DEF Untouched, Occupied
    <3>2. QED
      BY <3>1 DEF AtRest, FollowInv, RestingPaths
  <2>3. QED
    BY <2>1, <2>2
<1>6. HandlersFollow'
  <2>1. ASSUME NEW i \in Hands \ {j}, Occupied(i) PROVE LeavesNobody(job[i])' /\ TakesAlong(job[i])'
    <3>1. PICK k : k = job[i]
      OBVIOUS
    <3>2. Handler(k) /\ LeavesNobody(k) /\ TakesAlong(k) /\ job'[i] = k /\ k.paths = {k.from, k.to}
      BY <1>1, <2>1, <3>1 DEF FollowInv, HandlersFollow, Handler, PartTypes, Occupied
    <3>3. k.from \notin hurried' \/ k.to \notin hurried' => {k.from, k.to} \cap job[j].paths = {}
      BY <2>1, <3>1, <3>2 DEF FollowInv, MeetingsAreKnown
    <3>4. k.from \in Places \ hurried' =>
                /\ k.at = "name" => place'[k.file] = k.from
                /\ k.at # "name" => \A g \in SharedNotes : place'[g] # k.from
                /\ k.at \in {"write", "clear"} => part'[k.from] = k.old
      BY <3>2, <3>3 DEF LeavesNobody
    <3>5. k.from # k.to /\ k.to \in Places \ hurried' =>
                /\ place'[k.file] = k.to
                /\ k.at = "renamed" => /\ part'[k.to].who = NoPart
                                       /\ wanted'[k.file] = IF k.from \in Places THEN part'[k.from].who ELSE NoPart
                /\ k.at = "write" => wanted'[k.file] = k.old.who
                /\ k.at = "clear" => wanted'[k.file] = part'[k.to].who
      BY <3>2, <3>3 DEF TakesAlong
    <3>6. QED
      BY <3>2, <3>4, <3>5 DEF LeavesNobody, TakesAlong
  <2>2. ASSUME h # NoJob PROVE LeavesNobody(job[j])' /\ TakesAlong(job[j])'
    BY <1>1, <2>2 DEF LeavesNobody, TakesAlong
  <2>3. QED
    BY <1>1, <2>1, <2>2 DEF HandlersFollow, Occupied
<1>7. QED
  BY <1>2, <1>3, <1>4, <1>5, <1>6 DEF FollowInv

LEMMA WriteOne ==
    ASSUME PartTypes, NEW p \in Places, NEW who, Write(p, who)
    PROVE  /\ part' = [q \in Places |-> part'[q]]
           /\ \A q \in Places : part'[q] = [rev |-> part'[q].rev, who |-> part'[q].who]
           /\ part'[p].who = who /\ \A q \in Places \ {p} : part'[q] = part[q]
<1>1. PICK r : r = part[p].rev + 1
  OBVIOUS
<1>2. part' = [part EXCEPT ![p] = [rev |-> r, who |-> who]]
  BY <1>1 DEF Write
<1>3. QED
  BY <1>2 DEF PartTypes

LEMMA NamedStep == ASSUME FollowInv, NEW j \in Hands, Named(j) PROVE FollowInv'
<1>1. PICK p, f, w : p = job[j].from /\ f = job[j].file /\ w = wanted[f]
  OBVIOUS
<1>2. /\ job[j].at = "name" /\ job' = [job EXCEPT ![j] = NoJob] /\ UNCHANGED <<place, wanted, hurried>>
      /\ IF w = NoPart /\ part[p].who = NoPart THEN UNCHANGED part ELSE Write(p, w)
  BY <1>1 DEF Named, Ends
<1>3. /\ Occupied(j) /\ job[j].paths = {p} /\ p \in Places /\ f \in SharedNotes /\ LeavesNobody(job[j])
  BY <1>1, <1>2 DEF FollowInv, PartTypes, HandlersFollow, Handler, Occupied, NoJob
<1>4. /\ part' = [q \in Places |-> part'[q]]
      /\ \A q \in Places : part'[q] = [rev |-> part'[q].rev, who |-> part'[q].who]
      /\ part'[p].who = w /\ \A q \in Places \ {p} : part'[q] = part[q]
  <2>1. CASE UNCHANGED part /\ part[p].who = w
    BY <2>1 DEF FollowInv, PartTypes
  <2>2. CASE Write(p, w)
    BY <1>3, <2>2, WriteOne DEF FollowInv
  <2>3. QED
    BY <1>2, <2>1, <2>2
<1>5. p \notin hurried => place[f] = p
  BY <1>1, <1>2, <1>3 DEF LeavesNobody
<1>6. p \notin hurried => \A g \in SharedNotes : place[g] = p => g = f
  BY <1>3, <1>5, DesignationsAssumption DEF FollowInv, OneFileAPath
<1>7. \A s \in job[j].paths \cap Places : s \notin hurried =>
          /\ \A g \in SharedNotes : place[g] = s => part'[s].who = wanted[g]
          /\ (\A g \in SharedNotes : place[g] # s) => part'[s].who = NoPart
  BY <1>1, <1>3, <1>4, <1>5, <1>6
<1>8. QED
  BY <1>2, <1>3, <1>4, <1>7, WorkStep

LEMMA ClearsOldStep == ASSUME FollowInv, NEW j \in Hands, ClearsOld(j) PROVE FollowInv'
<1>1. PICK p, q, f, old : p = job[j].from /\ q = job[j].to /\ f = job[j].file /\ old = job[j].old
  OBVIOUS
<1>2. /\ job[j].at = "clear" /\ job' = [job EXCEPT ![j] = NoJob] /\ UNCHANGED <<place, wanted, hurried>>
      /\ IF part[p] = old THEN Write(p, NoPart) ELSE UNCHANGED part
  BY <1>1 DEF ClearsOld, Ends
<1>3. /\ Occupied(j) /\ job[j].paths = {p, q} /\ p \in Places /\ f \in SharedNotes
      /\ LeavesNobody(job[j]) /\ TakesAlong(job[j])
  BY <1>1, <1>2 DEF FollowInv, PartTypes, HandlersFollow, Handler, Occupied, NoJob
<1>4. /\ part' = [s \in Places |-> part'[s]]
      /\ \A s \in Places : part'[s] = [rev |-> part'[s].rev, who |-> part'[s].who]
      /\ part[p] = old => part'[p].who = NoPart
      /\ \A s \in Places \ {p} : part'[s] = part[s]
  <2>1. CASE UNCHANGED part /\ part[p] # old
    BY <2>1 DEF FollowInv, PartTypes
  <2>2. CASE Write(p, NoPart)
    BY <1>3, <2>2, WriteOne DEF FollowInv
  <2>3. QED
    BY <1>2, <2>1, <2>2
<1>5. p \notin hurried => (\A g \in SharedNotes : place[g] # p) /\ part'[p].who = NoPart
  BY <1>1, <1>2, <1>3, <1>4 DEF LeavesNobody
<1>6. p # q /\ q \in Places \ hurried => /\ \A g \in SharedNotes : place[g] = q => g = f
                                         /\ place[f] = q /\ part'[q].who = wanted[f]
  BY <1>1, <1>2, <1>3, <1>4, DesignationsAssumption DEF TakesAlong, FollowInv, OneFileAPath
<1>7. \A s \in job[j].paths \cap Places : s \notin hurried =>
          /\ \A g \in SharedNotes : place[g] = s => part'[s].who = wanted[g]
          /\ (\A g \in SharedNotes : place[g] # s) => part'[s].who = NoPart
  BY <1>3, <1>5, <1>6
<1>8. QED
  BY <1>2, <1>3, <1>4, <1>7, WorkStep

\* The two parts of a handler that change as it reads.
HandlerAt(h, stage, old) ==
    [at |-> stage, file |-> h.file, paths |-> h.paths, from |-> h.from, to |-> h.to, old |-> old]
MovedTo(h, stage) == [h EXCEPT !.at = stage]
HavingRead(h, stage, old) == [[h EXCEPT !.at = stage] EXCEPT !.old = old]

LEMMA HandlerParts ==
    ASSUME NEW h, AHandler(h), NEW stage, NEW old
    PROVE  /\ MovedTo(h, stage) = HandlerAt(h, stage, h.old)
           /\ HavingRead(h, stage, old) = HandlerAt(h, stage, old)
<1>1. PICK a, b, c, d, e, g : h = [at |-> a, file |-> b, paths |-> c, from |-> d, to |-> e, old |-> g]
  BY DEF AHandler
<1>2. b = h.file /\ c = h.paths /\ d = h.from /\ e = h.to /\ g = h.old
  BY <1>1
<1>3. [h EXCEPT !.at = stage] = [at |-> stage, file |-> b, paths |-> c, from |-> d, to |-> e, old |-> g]
  BY <1>1
<1>4. [[h EXCEPT !.at = stage] EXCEPT !.old = old] = [at |-> stage, file |-> b, paths |-> c, from |-> d, to |-> e, old |-> old]
  <2>1. PICK k : k = [at |-> stage, file |-> b, paths |-> c, from |-> d, to |-> e, old |-> g]
    OBVIOUS
  <2>2. [k EXCEPT !.old = old] = [at |-> stage, file |-> b, paths |-> c, from |-> d, to |-> e, old |-> old]
    BY <2>1
  <2>3. QED
    BY <1>3, <2>1, <2>2
<1>5. QED
  BY <1>2, <1>3, <1>4 DEF MovedTo, HavingRead, HandlerAt

LEMMA WritesNewStep == ASSUME FollowInv, NEW j \in Hands, WritesNew(j) PROVE FollowInv'
<1>1. PICK p, q, f, old : p = job[j].from /\ q = job[j].to /\ f = job[j].file /\ old = job[j].old
  OBVIOUS
<1>2. /\ job[j].at = "write" /\ UNCHANGED <<place, wanted>>
      /\ \/ Write(q, old.who) /\ job' = [job EXCEPT ![j].at = "clear"] /\ hurried' = hurried
         \/ job' = [job EXCEPT ![j] = NoJob] /\ hurried' = hurried \cup job[j].paths /\ part' = part
  BY <1>1 DEF WritesNew, Ends
<1>3. /\ Occupied(j) /\ Handler(job[j]) /\ job[j].paths = {p, q} /\ p \in Places /\ q \in Places /\ p # q
      /\ f \in SharedNotes /\ LeavesNobody(job[j]) /\ TakesAlong(job[j]) /\ AHandler(job[j])
  BY <1>1, <1>2 DEF FollowInv, PartTypes, HandlersFollow, Handler, Occupied, NoJob
<1>4. CASE job' = [job EXCEPT ![j] = NoJob] /\ hurried' = hurried \cup job[j].paths /\ part' = part
  <2>1. part' = [s \in Places |-> part'[s]] /\ \A s \in Places : part'[s] = [rev |-> part'[s].rev, who |-> part'[s].who]
    BY <1>4 DEF FollowInv, PartTypes
  <2>2. QED
    BY <1>2, <1>3, <1>4, <2>1, WorkStep
<1>5. CASE Write(q, old.who) /\ job' = [job EXCEPT ![j].at = "clear"] /\ hurried' = hurried
  <2>1. PICK h : h = [at |-> "clear", file |-> f, paths |-> job[j].paths, from |-> p, to |-> q, old |-> old]
    OBVIOUS
  <2>2. /\ h.at = "clear" /\ h.file = f /\ h.paths = job[j].paths /\ h.from = p /\ h.to = q /\ h.old = old
        /\ AHandler(h)
    BY <2>1 DEF AHandler
  <2>3. job' = [job EXCEPT ![j] = h]
    <3>1. [job[j] EXCEPT !.at = "clear"] = h
      <4>1. MovedTo(job[j], "clear") = HandlerAt(job[j], "clear", job[j].old)
        BY <1>3, HandlerParts
      <4>2. QED
        BY <1>1, <2>1, <4>1 DEF MovedTo, HandlerAt
    <3>2. job = [i \in Hands |-> job[i]]
      BY DEF FollowInv, PartTypes
    <3>3. QED
      BY <1>5, <3>1, <3>2
  <2>4. Handler(h) /\ h # NoJob
    <3>1. Handler(h)
      BY <1>3, <2>2 DEF Handler, InTheSpace
    <3>2. NoJob.at = "idle"
      BY DEF NoJob
    <3>3. QED
      BY <2>2, <3>1, <3>2
  <2>5. /\ part' = [s \in Places |-> part'[s]]
        /\ \A s \in Places : part'[s] = [rev |-> part'[s].rev, who |-> part'[s].who]
        /\ part'[q].who = old.who
        /\ \A s \in Places \ {q} : part'[s] = part[s]
    BY <1>3, <1>5, WriteOne DEF FollowInv
  <2>6. p \notin hurried => part[p] = old /\ \A g \in SharedNotes : place[g] # p
    BY <1>1, <1>2, <1>3 DEF LeavesNobody
  <2>7. q \notin hurried => place[f] = q /\ wanted[f] = old.who
    BY <1>1, <1>2, <1>3 DEF TakesAlong
  <2>8. h.from \in Places \ hurried => (\A g \in SharedNotes : place[g] # h.from) /\ part'[h.from] = h.old
    BY <1>3, <2>2, <2>5, <2>6
  <2>9. h.to \in Places \ hurried => place[h.file] = h.to /\ wanted[h.file] = part'[h.to].who
    BY <2>2, <2>5, <2>7
  <2>10. \A s \in Places : s \in job[j].paths \/ part'[s] = part[s]
    BY <1>3, <2>5
  <2>11. /\ h.at \notin {"name", "renamed", "write"} /\ hurried \subseteq hurried'
         /\ hurried' \subseteq hurried \cup job[j].paths /\ place' = place /\ wanted' = wanted
         /\ hurried' = hurried
    BY <1>2, <1>5, <2>2
  <2>12. /\ h.from \in Places \ hurried' =>
                /\ h.at = "name" => place[h.file] = h.from
                /\ h.at # "name" => \A g \in SharedNotes : place[g] # h.from
                /\ h.at \in {"write", "clear"} => part'[h.from] = h.old
         /\ h.from # h.to /\ h.to \in Places \ hurried' =>
                /\ place[h.file] = h.to
                /\ h.at = "renamed" => /\ part'[h.to].who = NoPart
                                       /\ wanted[h.file] = IF h.from \in Places THEN part'[h.from].who ELSE NoPart
                /\ h.at = "write" => wanted[h.file] = h.old.who
                /\ h.at = "clear" => wanted[h.file] = part'[h.to].who
    BY <2>8, <2>9, <2>11
  <2>13. QED
    BY <1>3, <2>2, <2>3, <2>4, <2>5, <2>10, <2>11, <2>12, WorkStep
<1>6. QED
  BY <1>2, <1>4, <1>5

LEMMA ReadsPartStep == ASSUME FollowInv, NEW j \in Hands, ReadsPart(j) PROVE FollowInv'
<1>1. PICK p, q, f, stage, old : /\ p = job[j].from /\ q = job[j].to /\ f = job[j].file
                                 /\ stage = IF job[j].at = "renamed" /\ q \in Places THEN "write" ELSE "clear"
                                 /\ old = part[p]
  OBVIOUS
<1>2. /\ job[j].at \in {"renamed", "deleted"} /\ UNCHANGED <<place, part, wanted, hurried>>
      /\ IF p \notin Places \/ part[p].who = NoPart THEN job' = [job EXCEPT ![j] = NoJob]
         ELSE job' = [job EXCEPT ![j].at = stage, ![j].old = old]
  BY <1>1 DEF ReadsPart, Ends
<1>3. /\ Occupied(j) /\ Handler(job[j]) /\ job[j].paths = {p, q}
      /\ job[j].at = "renamed" => p # q
      /\ job[j].at = "deleted" => p = q
      /\ f \in SharedNotes /\ LeavesNobody(job[j]) /\ TakesAlong(job[j]) /\ AHandler(job[j])
  BY <1>1, <1>2 DEF FollowInv, PartTypes, HandlersFollow, Handler, Occupied, NoJob
<1>4. part' = [s \in Places |-> part'[s]] /\ \A s \in Places : part'[s] = [rev |-> part'[s].rev, who |-> part'[s].who]
  BY <1>2 DEF FollowInv, PartTypes
<1>5. p \in Places \ hurried => \A g \in SharedNotes : place[g] # p
  BY <1>1, <1>2, <1>3 DEF LeavesNobody
<1>6. p # q /\ q \in Places \ hurried =>
          /\ place[f] = q /\ part[q].who = NoPart
          /\ wanted[f] = IF p \in Places THEN part[p].who ELSE NoPart
  BY <1>1, <1>2, <1>3 DEF TakesAlong
<1>7. CASE p \notin Places \/ part[p].who = NoPart
  <2>1. p # q /\ q \in Places \ hurried => wanted[f] = NoPart /\ \A g \in SharedNotes : place[g] = q => g = f
    BY <1>3, <1>6, <1>7, DesignationsAssumption DEF FollowInv, OneFileAPath
  <2>2. \A s \in job[j].paths \cap Places : s \notin hurried =>
          /\ \A g \in SharedNotes : place[g] = s => part[s].who = wanted[g]
          /\ (\A g \in SharedNotes : place[g] # s) => part[s].who = NoPart
    BY <1>3, <1>5, <1>6, <1>7, <2>1
  <2>3. QED
    BY SMTT(60), <1>2, <1>3, <1>4, <1>7, <2>2, WorkStep
<1>8. CASE ~(p \notin Places \/ part[p].who = NoPart)
  <2>1. PICK h : h = [at |-> stage, file |-> f, paths |-> job[j].paths, from |-> p, to |-> q, old |-> old]
    OBVIOUS
  <2>2. /\ h.at = stage /\ h.file = f /\ h.paths = job[j].paths /\ h.from = p /\ h.to = q /\ h.old = old
        /\ AHandler(h) /\ stage \in {"write", "clear"}
    BY <1>1, <2>1 DEF AHandler
  <2>3. job' = [job EXCEPT ![j] = h]
    <3>1. [[job[j] EXCEPT !.at = stage] EXCEPT !.old = old] = h
      <4>1. HavingRead(job[j], stage, old) = HandlerAt(job[j], stage, old)
        BY <1>3, HandlerParts
      <4>2. QED
        BY <1>1, <2>1, <4>1 DEF HavingRead, HandlerAt
    <3>2. job = [i \in Hands |-> job[i]]
      BY DEF FollowInv, PartTypes
    <3>3. QED
      BY <1>2, <1>8, <3>1, <3>2
  <2>4. Handler(h) /\ h # NoJob
    <3>1. Handler(h)
      BY <1>1, <1>3, <1>8, <2>2 DEF Handler, InTheSpace
    <3>2. NoJob.at = "idle"
      BY DEF NoJob
    <3>3. QED
      BY <2>2, <3>1, <3>2
  <2>5. h.from \in Places \ hurried => (\A g \in SharedNotes : place[g] # h.from) /\ part[h.from] = h.old
    BY <1>1, <1>5, <2>2
  <2>6. h.from # h.to /\ h.to \in Places \ hurried => /\ place[h.file] = h.to /\ h.at = "write"
                                                      /\ wanted[h.file] = h.old.who
    BY <1>1, <1>2, <1>3, <1>6, <1>8, <2>2
  <2>7. QED
    BY <1>2, <1>3, <1>4, <2>2, <2>3, <2>4, <2>5, <2>6, WorkStep
<1>9. QED
  BY <1>7, <1>8

LEMMA FollowInvStep == FollowInv /\ [DesignationsNext]_designationVars => FollowInv'
<1> SUFFICES ASSUME FollowInv, [DesignationsNext]_designationVars PROVE FollowInv'
  OBVIOUS
<1>0. /\ \A f \in SharedNotes : place[f] \in Places \cup Outside \cup {Gone}
      /\ Gone \notin Places \cup Outside
  BY DesignationsAssumption DEF FollowInv, PartTypes
<1>1. ASSUME NEW f \in SharedNotes, NEW p \in Places \cup Outside, CreateNote(f, p) PROVE FollowInv'
  BY <1>1, CreateStep
<1>2. ASSUME NEW f \in SharedNotes, NEW p \in Places \cup Outside, RenameNote(f, p) PROVE FollowInv'
  <2>1. PICK rec : rec = [at |-> "renamed", from |-> place[f], to |-> p]
    OBVIOUS
  <2>2. rec.at = "renamed" /\ rec.from = place[f] /\ rec.to = p
    BY <2>1
  <2>3. PICK w : w = IF p \in Places THEN wanted[f] ELSE NoPart
    OBVIOUS
  <2>4. /\ place[f] # Gone /\ \A g \in SharedNotes : place[g] # p
        /\ place' = [place EXCEPT ![f] = p] /\ wanted' = [wanted EXCEPT ![f] = w]
        /\ Starts(f, {rec.from, rec.to}, rec) /\ UNCHANGED part
    BY <1>2, <2>1, <2>2, <2>3 DEF RenameNote
  <2>5. QED
    BY <2>2, <2>3, <2>4, StartStep
<1>3. ASSUME NEW f \in SharedNotes, NEW who, NameParticipantsOf(f, who) PROVE FollowInv'
  <2>1. PICK rec : rec = [at |-> "name", from |-> place[f], to |-> place[f]]
    OBVIOUS
  <2>2. rec.at = "name" /\ rec.from = place[f] /\ rec.to = place[f] /\ {rec.from, rec.to} = {place[f]}
    BY <2>1
  <2>3. /\ place[f] \in Places /\ place' = place /\ wanted' = [wanted EXCEPT ![f] = who]
        /\ Starts(f, {rec.from, rec.to}, rec) /\ UNCHANGED part
    BY <1>3, <2>1, <2>2 DEF NameParticipantsOf
  <2>4. place' = [place EXCEPT ![f] = place[f]]
    BY <2>3 DEF FollowInv, PartTypes
  <2>5. PICK x : x = place[f]
    OBVIOUS
  <2>6. /\ rec.at = "name" /\ rec.from = place[f] /\ rec.to \in Places \cup Outside /\ rec.from # Gone
        /\ rec.from \in Places /\ rec.from = rec.to /\ x = rec.from
    BY <1>0, <2>2, <2>3, <2>5
  <2>7. /\ place' = [place EXCEPT ![f] = x] /\ wanted' = [wanted EXCEPT ![f] = who]
        /\ Starts(f, {rec.from, rec.to}, rec) /\ UNCHANGED part
    BY <2>3, <2>4, <2>5
  <2>8. QED
    BY <2>6, <2>7, StartStep
<1>4. ASSUME NEW f \in SharedNotes, DeleteNote(f) PROVE FollowInv'
  <2>1. PICK rec : rec = [at |-> "deleted", from |-> place[f], to |-> place[f]]
    OBVIOUS
  <2>2. rec.at = "deleted" /\ rec.from = place[f] /\ rec.to = place[f] /\ {rec.from, rec.to} = {place[f]}
    BY <2>1
  <2>3. /\ place[f] # Gone /\ place' = [place EXCEPT ![f] = Gone] /\ wanted' = [wanted EXCEPT ![f] = NoPart]
        /\ Starts(f, {rec.from, rec.to}, rec) /\ UNCHANGED part
    BY <1>4, <2>1, <2>2 DEF DeleteNote
  <2>4. rec.to \in Places \cup Outside
    BY <1>0, <2>2, <2>3
  <2>5. QED
    BY <2>2, <2>3, <2>4, StartStep
<1>5. ASSUME NEW j \in Hands, Named(j) \/ ReadsPart(j) \/ WritesNew(j) \/ ClearsOld(j) PROVE FollowInv'
  BY <1>5, NamedStep, ReadsPartStep, WritesNewStep, ClearsOldStep
<1>6. ASSUME UNCHANGED <<place, part, job, wanted, hurried>> PROVE FollowInv'
  BY SMTT(60), <1>6 DEF FollowInv, PartTypes, OneFileAPath, OutsideHasNoList, MeetingsAreKnown, RestingPaths, AtRest,
              HandlersFollow, Untouched, Occupied, LeavesNobody, TakesAlong, Handler, AHandler
<1>7. ASSUME \/ \E p \in Places : ReplicatePart(p)
             \/ SetReadOnlyPolicy
             \/ \E db \in Databases : ValidateTimer(db)
             \/ \E r \in Hands : BuildPolicy(r) \/ PutPolicy(r)
             \/ UNCHANGED designationVars
      PROVE  UNCHANGED <<place, part, job, wanted, hurried>>
  BY <1>7 DEF ReplicatePart, SetReadOnlyPolicy, ValidateTimer, BuildPolicy, PutPolicy, partVars, designationVars
<1>8. QED
  BY <1>1, <1>2, <1>3, <1>4, <1>5, <1>6, <1>7 DEF DesignationsNext

----------------------------------------------------------------------------
(* The policy.                                                              *)

LEMMA PolicyInvInit == DesignationsInit => PolicyInv
<1> SUFFICES ASSUME DesignationsInit PROVE PolicyInv
  OBVIOUS
<1>1. /\ part = [p \in Places |-> [rev |-> 0, who |-> NoPart]]
      /\ replicated = [p \in Places |-> NoPart]
      /\ redeploy = [r \in Hands |-> NoJob] /\ readOnly \in BOOLEAN
      /\ deployed = [db \in Databases |-> [ro |-> readOnly, allow |-> allowMapFromRtParts(db)]]
      /\ recorded = deployed /\ doubted = [db \in Databases |-> FALSE]
  BY DEF DesignationsInit
<1>2. \A r \in Hands : redeploy[r] = NoJob /\ redeploy[r].at = "idle"
  BY <1>1 DEF NoJob
<1>3. \A db \in Databases : \A p \in Homes[db] : p \in Places
  BY DEF Places
<1>4. \A db \in Databases : allowMapFromRtParts(db) = NamedOf(db)
  BY <1>1, <1>3 DEF allowMapFromRtParts, NamedOf
<1>5. PolicyTypes
  BY <1>1, <1>2 DEF PolicyTypes, Task
<1>6. OneHolder /\ HeldPolicyIsTrue
  BY <1>1, <1>2, <1>4 DEF OneHolder, HeldPolicyIsTrue, HoldsPolicy, PolicyNow
<1>7. QED
  BY <1>5, <1>6 DEF PolicyInv

\* While no redeployment moves: what changes a list is followed by one.
LEMMA PolicyStays ==
    ASSUME PolicyInv, UNCHANGED <<readOnly, redeploy, deployed, recorded, doubted>>,
           \A db \in Databases : readOnly /\ ~Due(db)' => ~Due(db) /\ \A p \in Homes[db] : part'[p] = part[p]
    PROVE  PolicyInv'
<1>1. PolicyTypes' /\ OneHolder'
  BY DEF PolicyInv, PolicyTypes, OneHolder, HoldsPolicy
<1>2. HeldPolicyIsTrue'
  <2> SUFFICES ASSUME NEW db \in Databases, readOnly, ~doubted[db], ~Due(db)'
               PROVE  /\ \A r \in Hands : HoldsPolicy(r, db)' => redeploy[r].policy = PolicyNow(db)'
                      /\ (\A r \in Hands : ~HoldsPolicy(r, db)') => deployed[db] = PolicyNow(db)'
    BY DEF HeldPolicyIsTrue
  <2>1. ~Due(db) /\ \A p \in Homes[db] : part'[p] = part[p]
    OBVIOUS
  <2>2. NamedOf(db)' = NamedOf(db)
    BY <2>1 DEF NamedOf
  <2>3. PolicyNow(db)' = PolicyNow(db) /\ \A r \in Hands : HoldsPolicy(r, db)' <=> HoldsPolicy(r, db)
    BY <2>2 DEF PolicyNow, HoldsPolicy
  <2>4. QED
    BY <2>1, <2>3 DEF PolicyInv, HeldPolicyIsTrue
<1>3. QED
  BY <1>1, <1>2 DEF PolicyInv

\* A database is due no less when timers are added and no handler leaves its last step.
LEMMA StaysDue ==
    ASSUME NEW db \in Databases, UNCHANGED redeploy, validateTimers \subseteq validateTimers',
           \A j \in Hands : job[j].at = "clear" => job'[j] = job[j] \/ db \in validateTimers'
    PROVE  Due(db) => Due(db)'
  BY DEF Due

LEMMA StartsLeavesClears ==
    ASSUME PartTypes, NEW f, NEW paths, NEW rec, Starts(f, paths, rec)
    PROVE  \A j \in Hands : job[j].at = "clear" => job'[j] = job[j]
<1>1. PICK j, h : j \in Hands /\ job[j] = NoJob /\ job' = [job EXCEPT ![j] = h]
  BY DEF Starts
<1>2. job[j].at # "clear"
  BY <1>1 DEF NoJob
<1>3. QED
  BY <1>1, <1>2 DEF PartTypes

LEMMA DbOfHome == ASSUME NEW db \in Databases, NEW p \in Homes[db] PROVE p \in Places /\ DbOf(p) = db
<1>1. \E d \in Databases : p \in Homes[d]
  OBVIOUS
<1>2. DbOf(p) \in Databases /\ p \in Homes[DbOf(p)]
  BY <1>1 DEF DbOf
<1>3. QED
  BY <1>1, <1>2, DesignationsAssumption DEF Places

LEMMA HandlersAskForThePolicy ==
    ASSUME FollowInv, PolicyInv,
           \/ \E f \in SharedNotes : \/ \E p \in Places \cup Outside : CreateNote(f, p) \/ RenameNote(f, p)
                                     \/ \E who \in Lists \cup {NoPart} : NameParticipantsOf(f, who)
                                     \/ DeleteNote(f)
           \/ \E j \in Hands : Named(j) \/ ReadsPart(j) \/ WritesNew(j) \/ ClearsOld(j)
           \/ \E p \in Places : ReplicatePart(p)
    PROVE  PolicyInv'
<1>1. ASSUME UNCHANGED <<part, policyVars>>, \A j \in Hands : job[j].at = "clear" => job'[j] = job[j]
      PROVE  PolicyInv'
  <2>1. UNCHANGED <<readOnly, validateTimers, redeploy, deployed, recorded, doubted>>
    BY <1>1 DEF policyVars
  <2>2. \A db \in Databases : Due(db) => Due(db)'
    BY <1>1, <2>1, StaysDue
  <2>3. QED
    BY <1>1, <2>1, <2>2, PolicyStays
<1>2. ASSUME NEW f \in SharedNotes, NEW p \in Places \cup Outside, CreateNote(f, p) \/ RenameNote(f, p)
      PROVE  PolicyInv'
  <2>1. UNCHANGED <<part, policyVars>> /\ \A j \in Hands : job[j].at = "clear" => job'[j] = job[j]
    BY <1>2, StartsLeavesClears DEF CreateNote, RenameNote, FollowInv
  <2>2. QED
    BY <1>1, <2>1
<1>3. ASSUME NEW f \in SharedNotes, NEW who, NameParticipantsOf(f, who) \/ DeleteNote(f) PROVE PolicyInv'
  <2>1. UNCHANGED <<part, policyVars>> /\ \A j \in Hands : job[j].at = "clear" => job'[j] = job[j]
    BY <1>3, StartsLeavesClears DEF NameParticipantsOf, DeleteNote, FollowInv
  <2>2. QED
    BY <1>1, <2>1
<1>4. ASSUME NEW p \in Places, ReplicatePart(p) PROVE PolicyInv'
  BY <1>1, <1>4 DEF ReplicatePart
<1>5. ASSUME NEW j \in Hands, ReadsPart(j) PROVE PolicyInv'
  <2>1. /\ UNCHANGED <<part, policyVars>> /\ job[j].at # "clear"
        /\ \E h : job' = [job EXCEPT ![j] = h]
    <3>1. /\ UNCHANGED <<part, policyVars>> /\ job[j].at # "clear"
          /\ \/ job' = [job EXCEPT ![j] = NoJob]
             \/ \E stage, old : job' = [job EXCEPT ![j].at = stage, ![j].old = old]
      BY <1>5 DEF ReadsPart, Ends
    <3>2. ASSUME NEW stage, NEW old, job' = [job EXCEPT ![j].at = stage, ![j].old = old]
          PROVE  \E h : job' = [job EXCEPT ![j] = h]
      BY <3>2 DEF FollowInv, PartTypes
    <3>3. QED
      BY <3>1, <3>2
  <2>2. \A i \in Hands : job[i].at = "clear" => job'[i] = job[i]
    BY <2>1 DEF FollowInv, PartTypes
  <2>3. QED
    BY <1>1, <2>1, <2>2
<1>6. ASSUME NEW j \in Hands, Named(j) PROVE PolicyInv'
  <2>1. PICK p : p = job[j].from
    OBVIOUS
  <2>2. /\ job[j].at = "name" /\ job' = [job EXCEPT ![j] = NoJob]
        /\ part' = part \/ \E who : Write(p, who)
        /\ validateTimers' = IF readOnly THEN validateTimers \cup {DbOf(p)} ELSE validateTimers
        /\ UNCHANGED <<readOnly, redeploy, deployed, recorded, doubted>>
    BY <1>6, <2>1 DEF Named, Later, Ends
  <2>3. \A i \in Hands : job[i].at = "clear" => job'[i] = job[i]
    BY <2>2 DEF FollowInv, PartTypes
  <2>4. \A db \in Databases : Due(db) => Due(db)'
    BY <2>2, <2>3, StaysDue
  <2>5. ASSUME NEW db \in Databases, readOnly, ~Due(db)', NEW q \in Homes[db] PROVE part'[q] = part[q]
    <3>1. db \notin validateTimers' /\ q \in Places
      BY <2>5, DbOfHome DEF Due
    <3>2. q # p
      BY <2>2, <2>5, <3>1, DbOfHome
    <3>3. QED
      BY <2>2, <3>1, <3>2 DEF Write, FollowInv, PartTypes
  <2>6. QED
    BY <2>2, <2>4, <2>5, PolicyStays
<1>7. ASSUME NEW j \in Hands, WritesNew(j) PROVE PolicyInv'
  <2>1. PICK q, h : q = job[j].to /\ h = [job[j] EXCEPT !.at = "clear"]
    OBVIOUS
  <2>2. /\ job[j].at = "write"
        /\ \/ (\E who : Write(q, who)) /\ job' = [job EXCEPT ![j] = h]
           \/ job' = [job EXCEPT ![j] = NoJob] /\ part' = part
        /\ UNCHANGED <<readOnly, validateTimers, redeploy, deployed, recorded, doubted>>
    <3>1. /\ job[j].at = "write"
          /\ \/ (\E who : Write(q, who)) /\ job' = [job EXCEPT ![j].at = "clear"]
             \/ job' = [job EXCEPT ![j] = NoJob] /\ part' = part
          /\ UNCHANGED <<readOnly, validateTimers, redeploy, deployed, recorded, doubted>>
      BY <1>7, <2>1 DEF WritesNew, Ends, policyVars
    <3>2. [job EXCEPT ![j].at = "clear"] = [job EXCEPT ![j] = h]
      BY <2>1 DEF FollowInv, PartTypes
    <3>3. QED
      BY <3>1, <3>2
  <2>3. h.at = "clear" /\ h.to = q
    <3>1. AHandler(job[j])
      BY <2>2 DEF FollowInv, PartTypes, Handler, NoJob
    <3>2. h = [at |-> "clear", file |-> job[j].file, paths |-> job[j].paths,
               from |-> job[j].from, to |-> job[j].to, old |-> job[j].old]
      <4>1. MovedTo(job[j], "clear") = HandlerAt(job[j], "clear", job[j].old)
        BY <3>1, HandlerParts
      <4>2. QED
        BY <2>1, <4>1 DEF MovedTo, HandlerAt
    <3>3. QED
      BY <2>1, <3>2
  <2>4. \A i \in Hands : job[i].at = "clear" => job'[i] = job[i]
    BY <2>2 DEF FollowInv, PartTypes
  <2>5. \A db \in Databases : Due(db) => Due(db)'
    BY <2>2, <2>4, StaysDue
  <2>6. ASSUME NEW db \in Databases, ~Due(db)', NEW s \in Homes[db] PROVE part'[s] = part[s]
    <3>1. s \in Places
      BY DbOfHome
    <3>2. CASE job' = [job EXCEPT ![j] = h]
      <4>1. job'[j] = h
        BY <3>2 DEF FollowInv, PartTypes
      <4>2. s # q
        BY <2>3, <2>6, <4>1 DEF Due
      <4>3. QED
        BY <2>2, <3>1, <4>2 DEF Write, FollowInv, PartTypes
    <3>3. QED
      BY <2>2, <3>2
  <2>7. QED
    BY <2>2, <2>5, <2>6, PolicyStays
<1>8. ASSUME NEW j \in Hands, ClearsOld(j) PROVE PolicyInv'
  <2>1. PICK p, q : p = job[j].from /\ q = job[j].to
    OBVIOUS
  <2>2. /\ job[j].at = "clear" /\ job' = [job EXCEPT ![j] = NoJob]
        /\ part' = part \/ Write(p, NoPart)
        /\ validateTimers' = IF readOnly THEN validateTimers \cup {DbOf(s) : s \in {p, q} \cap Places} ELSE validateTimers
        /\ UNCHANGED <<readOnly, redeploy, deployed, recorded, doubted>>
    BY <1>8, <2>1 DEF ClearsOld, Ends
  <2>3. \A i \in Hands \ {j} : job'[i] = job[i]
    BY <2>2 DEF FollowInv, PartTypes
  <2>4. \A db \in Databases : readOnly /\ (p \in Homes[db] \/ q \in Homes[db]) => db \in validateTimers'
    BY <2>2, DbOfHome
  <2>5. ASSUME NEW db \in Databases, readOnly, ~Due(db)' PROVE ~Due(db)
    <3>1. db \notin validateTimers' /\ p \notin Homes[db] /\ q \notin Homes[db] /\ db \notin validateTimers
      BY <2>2, <2>4, <2>5 DEF Due
    <3>2. QED
      BY <2>1, <2>2, <2>3, <2>5, <3>1 DEF Due
  <2>6. ASSUME NEW db \in Databases, readOnly, ~Due(db)', NEW s \in Homes[db] PROVE part'[s] = part[s]
    <3>1. s # p /\ s \in Places
      BY <2>4, <2>6, DbOfHome DEF Due
    <3>2. QED
      BY <2>2, <3>1 DEF Write, FollowInv, PartTypes
  <2>7. QED
    BY <2>2, <2>5, <2>6, PolicyStays
<1>9. QED
  BY <1>2, <1>3, <1>4, <1>5, <1>6, <1>7, <1>8

\* A hand takes up work, or puts it down: who holds what, and which databases are left.
LEMMA OneHandMoves ==
    ASSUME PolicyInv, NEW r \in Hands, NEW t, Task(t), redeploy' = [redeploy EXCEPT ![r] = t]
    PROVE  /\ redeploy'[r] = t /\ \A i \in Hands \ {r} : redeploy'[i] = redeploy[i]
           /\ redeploy' = [i \in Hands |-> redeploy'[i]] /\ \A i \in Hands : Task(redeploy'[i])
           /\ \A i \in Hands \ {r} : \A db : HoldsPolicy(i, db)' <=> HoldsPolicy(i, db)
           /\ \A db : HoldsPolicy(r, db)' <=> t.at = "put" /\ t.db = db
  BY DEF PolicyInv, PolicyTypes, HoldsPolicy

LEMMA StartsOneHand ==
    ASSUME PolicyInv, NEW dbs \in SUBSET Databases, StartsRedeploy(dbs)
    PROVE  /\ redeploy' = [i \in Hands |-> redeploy'[i]] /\ \A i \in Hands : Task(redeploy'[i])
           /\ \A i \in Hands : \A db : HoldsPolicy(i, db)' <=> HoldsPolicy(i, db)
           /\ \A i \in Hands : redeploy[i] = NoJob \/ redeploy'[i] = redeploy[i]
           /\ \E i \in Hands : redeploy'[i] # NoJob /\ redeploy'[i].left = dbs
<1>1. PICK r, t : /\ r \in Hands /\ redeploy[r] = NoJob /\ t = [at |-> "build", left |-> dbs]
                  /\ redeploy' = [redeploy EXCEPT ![r] = t]
  BY DEF StartsRedeploy
<1>2. t.at = "build" /\ t.left = dbs /\ NoJob.at = "idle"
  BY <1>1 DEF NoJob
<1>3. r \in Hands /\ Task(t) /\ redeploy' = [redeploy EXCEPT ![r] = t]
  BY <1>1, <1>2 DEF Task
<1>4. /\ redeploy'[r] = t /\ \A i \in Hands \ {r} : redeploy'[i] = redeploy[i]
      /\ redeploy' = [i \in Hands |-> redeploy'[i]] /\ \A i \in Hands : Task(redeploy'[i])
      /\ \A i \in Hands \ {r} : \A db : HoldsPolicy(i, db)' <=> HoldsPolicy(i, db)
      /\ \A db : HoldsPolicy(r, db)' <=> t.at = "put" /\ t.db = db
  BY ZenonT(60), <1>3, OneHandMoves
<1>5. \A db : ~HoldsPolicy(r, db) /\ ~HoldsPolicy(r, db)'
  BY <1>1, <1>2, <1>4 DEF HoldsPolicy
<1>6. \A i \in Hands : \A db : HoldsPolicy(i, db)' <=> HoldsPolicy(i, db)
  BY <1>4, <1>5
<1>7. t # NoJob
  BY <1>2
<1>8. QED
  BY <1>1, <1>2, <1>4, <1>6, <1>7

LEMMA RedeploysStart ==
    ASSUME PolicyInv, SetReadOnlyPolicy \/ \E db \in Databases : ValidateTimer(db) PROVE PolicyInv'
<1>1. PICK dbs \in SUBSET Databases :
          /\ StartsRedeploy(dbs) /\ UNCHANGED <<part, job, deployed, recorded, doubted>>
          /\ validateTimers \subseteq validateTimers' \cup dbs
          /\ readOnly' \in BOOLEAN /\ (readOnly' # readOnly => dbs = Databases)
  <2>1. CASE SetReadOnlyPolicy
    BY <2>1 DEF SetReadOnlyPolicy, partVars, PolicyInv, PolicyTypes
  <2>2. ASSUME NEW db \in Databases, ValidateTimer(db)
        PROVE  \E dbs \in SUBSET Databases :
                  /\ StartsRedeploy(dbs) /\ UNCHANGED <<part, job, deployed, recorded, doubted>>
                  /\ validateTimers \subseteq validateTimers' \cup dbs
                  /\ readOnly' \in BOOLEAN /\ (readOnly' # readOnly => dbs = Databases)
    <3>1. {db} \in SUBSET Databases
      OBVIOUS
    <3>2. QED
      BY <2>2, <3>1 DEF ValidateTimer, partVars, PolicyInv, PolicyTypes
  <2>3. QED
    BY <2>1, <2>2
<1>2. /\ redeploy' = [i \in Hands |-> redeploy'[i]] /\ \A i \in Hands : Task(redeploy'[i])
      /\ \A i \in Hands : \A db : HoldsPolicy(i, db)' <=> HoldsPolicy(i, db)
      /\ \A i \in Hands : redeploy[i] = NoJob \/ redeploy'[i] = redeploy[i]
      /\ \E i \in Hands : redeploy'[i] # NoJob /\ redeploy'[i].left = dbs
  BY <1>1, StartsOneHand
<1>3. PolicyTypes'
  BY <1>1, <1>2 DEF PolicyInv, PolicyTypes
<1>4. OneHolder'
  BY <1>1, <1>2 DEF PolicyInv, OneHolder
<1>5. \A db \in Databases : ~Due(db)' => ~Due(db) /\ db \notin dbs /\ readOnly' = readOnly
  BY <1>1, <1>2 DEF Due
<1>6. \A db : NamedOf(db)' = NamedOf(db)
  BY <1>1 DEF NamedOf
<1>7. HeldPolicyIsTrue'
  <2> SUFFICES ASSUME NEW db \in Databases, readOnly', ~doubted[db], ~Due(db)'
               PROVE  /\ \A r \in Hands : HoldsPolicy(r, db)' => redeploy'[r].policy = PolicyNow(db)'
                      /\ (\A r \in Hands : ~HoldsPolicy(r, db)') => deployed[db] = PolicyNow(db)'
    BY <1>1 DEF HeldPolicyIsTrue
  <2>1. PolicyNow(db)' = PolicyNow(db) /\ readOnly /\ ~Due(db)
    BY <1>5, <1>6 DEF PolicyNow
  <2>2. \A r \in Hands : HoldsPolicy(r, db) => redeploy'[r] = redeploy[r]
    BY <1>2 DEF HoldsPolicy, NoJob
  <2>3. QED
    BY <1>2, <2>1, <2>2 DEF PolicyInv, HeldPolicyIsTrue
<1>8. QED
  BY <1>3, <1>4, <1>7 DEF PolicyInv

\* What comes after a database is done.
LEMMA GoesOnTask ==
    ASSUME NEW r \in Hands, NEW left \in SUBSET Databases, GoesOn(r, left)
    PROVE  \E t : /\ redeploy' = [redeploy EXCEPT ![r] = t] /\ Task(t) /\ t.at # "put"
                  /\ \A db \in left : t # NoJob /\ db \in t.left
                  /\ t # NoJob => t.left = left
<1>1. PICK t : t = IF left = {} THEN NoJob ELSE [at |-> "build", left |-> left]
  OBVIOUS
<1>2. redeploy' = [redeploy EXCEPT ![r] = t]
  BY <1>1 DEF GoesOn
<1>3. CASE left = {}
  BY <1>1, <1>2, <1>3 DEF Task, NoJob
<1>4. CASE left # {}
  <2>1. t = [at |-> "build", left |-> left] /\ t.at = "build" /\ t.left = left
    BY <1>1, <1>4
  <2>2. Task(t) /\ t # NoJob
    BY <2>1 DEF Task, NoJob
  <2>3. QED
    BY <1>2, <2>1, <2>2
<1>5. QED
  BY <1>3, <1>4

LEMMA PutStep == ASSUME PolicyInv, NEW r \in Hands, PutPolicy(r) PROVE PolicyInv'
<1>1. PICK db, policy, left : db = redeploy[r].db /\ policy = redeploy[r].policy /\ left = redeploy[r].left
  OBVIOUS
<1>2. /\ redeploy[r].at = "put" /\ GoesOn(r, left) /\ UNCHANGED <<part, job, readOnly, validateTimers>>
      /\ \/ /\ deployed' = [deployed EXCEPT ![db] = policy]
            /\ recorded' = [recorded EXCEPT ![db] = policy] /\ UNCHANGED doubted
         \/ /\ doubted' = [doubted EXCEPT ![db] = TRUE] /\ UNCHANGED <<deployed, recorded>>
  BY <1>1 DEF PutPolicy, partVars
<1>3. db \in Databases /\ left \in SUBSET Databases /\ HoldsPolicy(r, db) /\ redeploy[r] # NoJob
  BY <1>1, <1>2 DEF PolicyInv, PolicyTypes, Task, NoJob, HoldsPolicy
<1>4. PICK t : /\ redeploy' = [redeploy EXCEPT ![r] = t] /\ Task(t) /\ t.at # "put"
               /\ \A d \in left : t # NoJob /\ d \in t.left
               /\ t # NoJob => t.left = left
  BY <1>2, <1>3, GoesOnTask
<1>5. /\ redeploy'[r] = t /\ \A i \in Hands \ {r} : redeploy'[i] = redeploy[i]
      /\ redeploy' = [i \in Hands |-> redeploy'[i]] /\ \A i \in Hands : Task(redeploy'[i])
      /\ \A i \in Hands \ {r} : \A d : HoldsPolicy(i, d)' <=> HoldsPolicy(i, d)
      /\ \A d : ~HoldsPolicy(r, d)'
  BY <1>4, OneHandMoves
<1>6. PolicyTypes'
  BY <1>2, <1>3, <1>5 DEF PolicyInv, PolicyTypes
<1>7. \A d \in Databases : /\ ~doubted'[d] => ~doubted[d] /\ (d = db => deployed'[d] = policy)
                           /\ d # db => deployed'[d] = deployed[d]
  BY <1>2, <1>3 DEF PolicyInv, PolicyTypes
<1>8. OneHolder'
  BY <1>5, <1>7 DEF PolicyInv, OneHolder
<1>9. \A d \in Databases : ~Due(d)' => ~Due(d)
  BY <1>1, <1>2, <1>3, <1>4, <1>5 DEF Due
<1>10. HeldPolicyIsTrue'
  <2> SUFFICES ASSUME NEW d \in Databases, readOnly', ~doubted'[d], ~Due(d)'
               PROVE  /\ \A i \in Hands : HoldsPolicy(i, d)' => redeploy'[i].policy = PolicyNow(d)'
                      /\ (\A i \in Hands : ~HoldsPolicy(i, d)') => deployed'[d] = PolicyNow(d)'
    BY DEF HeldPolicyIsTrue
  <2>1. PolicyNow(d)' = PolicyNow(d) /\ readOnly /\ ~Due(d) /\ ~doubted[d]
    BY <1>2, <1>7, <1>9 DEF PolicyNow, NamedOf
  <2>2. /\ \A i \in Hands : HoldsPolicy(i, d) => redeploy[i].policy = PolicyNow(d)
        /\ (\A i \in Hands : ~HoldsPolicy(i, d)) => deployed[d] = PolicyNow(d)
    BY <2>1 DEF PolicyInv, HeldPolicyIsTrue
  <2>3. \A i \in Hands : HoldsPolicy(i, d)' => i # r
    BY <1>5
  <2>4. CASE d = db
    BY <1>1, <1>3, <1>5, <1>7, <2>1, <2>2, <2>3, <2>4
  <2>5. CASE d # db
    <3>1. ~HoldsPolicy(r, d)
      BY <1>1, <2>5 DEF HoldsPolicy
    <3>2. QED
      BY <1>5, <1>7, <2>1, <2>2, <2>3, <2>5, <3>1
  <2>6. QED
    BY <2>4, <2>5
<1>11. QED
  BY <1>6, <1>8, <1>10 DEF PolicyInv

LEMMA BuildStep == ASSUME PolicyInv, NEW r \in Hands, BuildPolicy(r) PROVE PolicyInv'
<1>1. PICK db, policy, left :
        /\ db \in redeploy[r].left
        /\ policy = [ro |-> readOnly, allow |-> allowMapFromRtParts(db)] /\ left = redeploy[r].left \ {db}
        /\ redeploy[r].at = "build" /\ UNCHANGED <<part, job, readOnly, validateTimers, deployed, recorded>>
        /\ doubted' = [doubted EXCEPT ![db] = \/ \E p \in Homes[db] : replicated[p] # part[p].who
                                              \/ \E i \in Hands \ {r} : HoldsPolicy(i, db)]
        /\ IF recorded[db] = policy THEN GoesOn(r, left)
           ELSE redeploy' = [redeploy EXCEPT ![r] = [at |-> "put", db |-> db, policy |-> policy, left |-> left]]
  BY ZenonT(60) DEF BuildPolicy, partVars
<1>2. db \in Databases /\ left \in SUBSET Databases /\ redeploy[r] # NoJob /\ \A d : ~HoldsPolicy(r, d)
  BY <1>1 DEF PolicyInv, PolicyTypes, Task, NoJob, HoldsPolicy
<1>3. PICK t : /\ redeploy' = [redeploy EXCEPT ![r] = t] /\ Task(t)
               /\ \A d \in left : t # NoJob /\ d \in t.left
               /\ t # NoJob => t.left = left
               /\ IF recorded[db] = policy THEN t.at # "put"
                  ELSE t.at = "put" /\ t.db = db /\ t.policy = policy
  <2>1. CASE recorded[db] = policy
    BY <1>1, <1>2, <2>1, GoesOnTask
  <2>2. CASE recorded[db] # policy
    <3>1. PICK t : t = [at |-> "put", db |-> db, policy |-> policy, left |-> left]
      OBVIOUS
    <3>2. /\ t.at = "put" /\ t.db = db /\ t.policy = policy /\ t.left = left /\ t # NoJob
          /\ redeploy' = [redeploy EXCEPT ![r] = t]
      BY <1>1, <2>2, <3>1 DEF NoJob
    <3>3. Task(t)
      BY <1>2, <3>1, <3>2 DEF Task
    <3>4. QED
      BY <2>2, <3>2, <3>3
  <2>3. QED
    BY <2>1, <2>2
<1>a. Task(t) /\ redeploy' = [redeploy EXCEPT ![r] = t]
  BY <1>3
<1>4. /\ redeploy'[r] = t /\ \A i \in Hands \ {r} : redeploy'[i] = redeploy[i]
      /\ redeploy' = [i \in Hands |-> redeploy'[i]] /\ \A i \in Hands : Task(redeploy'[i])
      /\ \A i \in Hands \ {r} : \A d : HoldsPolicy(i, d)' <=> HoldsPolicy(i, d)
      /\ \A d : HoldsPolicy(r, d)' <=> t.at = "put" /\ t.db = d
  BY ZenonT(60), <1>a, OneHandMoves
<1>5. /\ \A d \in Databases \ {db} : doubted'[d] = doubted[d]
      /\ \A d \in Databases : doubted'[d] \in BOOLEAN
      /\ doubted' = [d \in Databases |-> doubted'[d]]
      /\ ~doubted'[db] => /\ \A p \in Homes[db] : replicated[p] = part[p].who
                          /\ \A i \in Hands \ {r} : ~HoldsPolicy(i, db)
  BY <1>1, <1>2 DEF PolicyInv, PolicyTypes
<1>6. PolicyTypes'
  BY <1>1, <1>4, <1>5 DEF PolicyInv, PolicyTypes
<1>7. \A d \in Databases \ {db} : ~HoldsPolicy(r, d)'
  BY <1>3, <1>4
<1>8. OneHolder'
  <2> SUFFICES ASSUME NEW d \in Databases, ~doubted'[d], NEW i \in Hands, NEW k \in Hands,
                      HoldsPolicy(i, d)', HoldsPolicy(k, d)'
               PROVE  i = k
    BY DEF OneHolder
  <2>1. CASE d = db
    BY <1>4, <1>5, <2>1
  <2>2. CASE d # db
    BY <1>4, <1>5, <1>7, <2>2 DEF PolicyInv, OneHolder
  <2>3. QED
    BY <2>1, <2>2
<1>9. \A d \in Databases \ {db} : ~Due(d)' => ~Due(d)
  BY <1>1, <1>3, <1>4 DEF Due
<1>10. HeldPolicyIsTrue'
  <2> SUFFICES ASSUME NEW d \in Databases, readOnly', ~doubted'[d], ~Due(d)'
               PROVE  /\ \A i \in Hands : HoldsPolicy(i, d)' => redeploy'[i].policy = PolicyNow(d)'
                      /\ (\A i \in Hands : ~HoldsPolicy(i, d)') => deployed'[d] = PolicyNow(d)'
    BY DEF HeldPolicyIsTrue
  <2>1. PolicyNow(d)' = PolicyNow(d) /\ readOnly /\ deployed' = deployed
    BY <1>1 DEF PolicyNow, NamedOf
  <2>2. CASE d = db
    <3>1. policy = PolicyNow(db)
      <4>1. allowMapFromRtParts(db) = NamedOf(db)
        BY <1>5, <2>2 DEF allowMapFromRtParts, NamedOf
      <4>2. QED
        BY <1>1, <4>1 DEF PolicyNow
    <3>2. \A i \in Hands \ {r} : ~HoldsPolicy(i, db)'
      BY <1>4, <1>5, <2>2
    <3>3. CASE recorded[db] = policy
      <4>1. deployed[db] = policy /\ \A i \in Hands : ~HoldsPolicy(i, db)'
        BY <1>3, <1>4, <3>2, <3>3 DEF PolicyInv, PolicyTypes
      <4>2. QED
        BY <2>1, <2>2, <3>1, <4>1
    <3>4. CASE recorded[db] # policy
      <4>1. HoldsPolicy(r, db)' /\ redeploy'[r].policy = policy
        BY <1>3, <1>4, <3>4
      <4>2. QED
        BY <2>1, <2>2, <3>1, <3>2, <4>1
    <3>5. QED
      BY <3>3, <3>4
  <2>3. CASE d # db
    <3>1. /\ \A i \in Hands : HoldsPolicy(i, d) => redeploy[i].policy = PolicyNow(d)
          /\ (\A i \in Hands : ~HoldsPolicy(i, d)) => deployed[d] = PolicyNow(d)
      BY <1>5, <1>9, <2>1, <2>3 DEF PolicyInv, HeldPolicyIsTrue
    <3>2. \A i \in Hands : HoldsPolicy(i, d)' => i # r /\ HoldsPolicy(i, d) /\ redeploy'[i] = redeploy[i]
      BY <1>4, <1>7, <2>3
    <3>3. (\A i \in Hands : ~HoldsPolicy(i, d)') => \A i \in Hands : ~HoldsPolicy(i, d)
      BY <1>2, <1>4
    <3>4. QED
      BY <2>1, <3>1, <3>2, <3>3
  <2>4. QED
    BY <2>2, <2>3
<1>11. QED
  BY <1>6, <1>8, <1>10 DEF PolicyInv

LEMMA PolicyInvStep == FollowInv /\ PolicyInv /\ [DesignationsNext]_designationVars => PolicyInv'
<1> SUFFICES ASSUME FollowInv, PolicyInv, [DesignationsNext]_designationVars PROVE PolicyInv'
  OBVIOUS
<1>1. ASSUME SetReadOnlyPolicy \/ \E db \in Databases : ValidateTimer(db) PROVE PolicyInv'
  BY <1>1, RedeploysStart
<1>2. ASSUME NEW r \in Hands, BuildPolicy(r) \/ PutPolicy(r) PROVE PolicyInv'
  BY <1>2, BuildStep, PutStep
<1>3. CASE UNCHANGED designationVars
  <2>1. UNCHANGED <<part, job, readOnly, validateTimers, redeploy, deployed, recorded, doubted>>
    BY <1>3 DEF designationVars, partVars, policyVars
  <2>2. \A db \in Databases : Due(db)' <=> Due(db)
    BY <2>1 DEF Due
  <2>3. QED
    BY <2>1, <2>2, PolicyStays
<1>4. QED
  BY <1>1, <1>2, <1>3, HandlersAskForThePolicy DEF DesignationsNext

----------------------------------------------------------------------------

LEMMA InvsLetIn == FollowInv /\ PolicyInv => NamedAreLetIn
<1> SUFFICES ASSUME FollowInv, PolicyInv PROVE NamedAreLetIn
  OBVIOUS
<1>1. DesignationFollows
  <2> SUFFICES ASSUME NEW f \in SharedNotes, place[f] \in Places, place[f] \notin hurried,
                      Touching({place[f]}) = {}
               PROVE  part[place[f]].who = wanted[f]
    BY DEF DesignationFollows
  <2>1. Untouched(place[f])
    BY DEF Touching, Untouched, Occupied, FollowInv, PartTypes, Handler, InTheSpace
  <2>2. QED
    BY <2>1 DEF FollowInv, RestingPaths, AtRest
<1>2. PolicyFollows
  <2> SUFFICES ASSUME NEW db \in Databases, readOnly, db \notin validateTimers, ~doubted[db],
                      \A r \in Hands : redeploy[r] = NoJob, \A j \in Hands : job[j] = NoJob
               PROVE  deployed[db] = [ro |-> TRUE, allow |-> NamedOf(db)]
    BY DEF PolicyFollows, NamedOf
  <2>1. ~Due(db) /\ \A r \in Hands : ~HoldsPolicy(r, db)
    BY DEF Due, HoldsPolicy, NoJob
  <2>2. deployed[db] = PolicyNow(db)
    BY <2>1 DEF PolicyInv, HeldPolicyIsTrue
  <2>3. readOnly = TRUE
    BY DEF PolicyInv, PolicyTypes
  <2>4. QED
    BY <2>2, <2>3 DEF PolicyNow
<1>3. QED
  BY <1>1, <1>2 DEF NamedAreLetIn

\* Whom the manager names for a file, and nobody else, gets at the file in its place, and in the
\* end the database lets in whom the documents name (ParticipantController.ts:248-332,
\* DeploymentController.ts:101-175), for any files, spaces and lists.
THEOREM NamedOnesAreLetIn == DesignationsSpec => []NamedAreLetIn
<1>1. DesignationsInit => FollowInv /\ PolicyInv
  BY FollowInvInit, PolicyInvInit
<1>2. FollowInv /\ PolicyInv /\ [DesignationsNext]_designationVars => FollowInv' /\ PolicyInv'
  BY FollowInvStep, PolicyInvStep
<1>3. QED
  BY <1>1, <1>2, InvsLetIn, PTL DEF DesignationsSpec

----------------------------------------------------------------------------
(* BulkCopies: the invariant.                                                *)

CopyTypes ==
    /\ folder \in [Receivers -> [Names -> Nat]]
    /\ report \in [Receivers -> [policy : Policies \cup {"none"}, written : Nat, skipped : Nat, failed : BOOLEAN]]
    /\ copying \in [policy : Policies \cup {"none"}, members : SUBSET Receivers, item : Nat,
                    target : {<<>>} \cup Names]
    /\ copying.policy = "none" => copying = NoCopy
    /\ copying.policy # "none" => copying.members # {} /\ copying.item \in 1..Len(Sources)
    /\ copies \in Nat

\* A file is to be created where the policy wants it.
TargetFits ==
    copying.target # <<>> =>
        /\ copying.target[1] = Sources[copying.item]
        /\ copying.policy # "rename" => copying.target = Here

\* A member that is still to be copied to has a report without a failure.
Reported ==
    \A m \in copying.members : report[m].policy = copying.policy /\ ~report[m].failed

Progress(m) ==
    IF m \notin copying.members THEN Len(Sources)
    ELSE IF Running(m) THEN copying.item - 1 ELSE 0
Fits(m, policy, s) ==
    CASE policy = "skip" -> Stands(m, <<s, 0>>)
      [] policy = "overwrite" -> folder[m][<<s, 0>>] = Copied(copies)
      [] policy = "rename" -> \E k \in 0..MaxNumber : folder[m][<<s, k>>] = Copied(copies)
Counted(m) ==
    \/ report[m].policy = "none" \/ report[m].failed
    \/ /\ report[m].written + report[m].skipped = Progress(m)
       /\ m \in disturbed \/ \A i \in 1..Progress(m) : Fits(m, report[m].policy, Sources[i])
CopyInv == CopyTypes /\ TargetFits /\ Reported /\ \A m \in Receivers : Counted(m)

----------------------------------------------------------------------------
LEMMA SourcesAreListed ==
    /\ Len(Sources) \in Nat \ {0}
    /\ \A i \in 1..Len(Sources) : Sources[i] \in ToSet(Sources)
    /\ ToSet(Sources) = {Sources[i] : i \in 1..Len(Sources)}
    /\ MaxNumber \in Nat /\ "none" \notin Policies
  BY BulkCopiesAssumption DEF ToSet

LEMMA CopyInvInit == CopyInit => CopyInv
<1> SUFFICES ASSUME CopyInit PROVE CopyInv
  OBVIOUS
<1> USE SourcesAreListed
<1>1. folder \in [Receivers -> [Names -> Nat]]
  BY DEF CopyInit, Other, NoContent
<1>2. CopyTypes
  BY <1>1 DEF CopyInit, CopyTypes, NoCopy, NoReport
<1>3. TargetFits /\ Reported /\ \A m \in Receivers : Counted(m)
  BY DEF CopyInit, TargetFits, Reported, Counted, NoCopy, NoReport
<1>4. QED
  BY <1>2, <1>3 DEF CopyInv

LEMMA ReportHolds == CopyInv => ReportIsTrue
<1> SUFFICES ASSUME CopyInv, copying = NoCopy, NEW m \in Receivers,
                    report[m].policy # "none", ~report[m].failed, m \notin disturbed
             PROVE  /\ report[m].written + report[m].skipped = Len(Sources)
                    /\ \A s \in ToSet(Sources) : Fits(m, report[m].policy, s)
  BY DEF ReportIsTrue, Fits
<1>1. Progress(m) = Len(Sources)
  BY DEF Progress, NoCopy
<1>2. Counted(m)
  BY DEF CopyInv
<1>3. QED
  BY <1>1, <1>2, SourcesAreListed DEF Counted

LEMMA CopyFacts ==
    ASSUME CopyTypes
    PROVE  /\ copying = [f \in {"policy", "members", "item", "target"} |-> copying[f]]
           /\ copying.policy \in Policies \cup {"none"} /\ copying.members \subseteq Receivers
           /\ copying.item \in Nat /\ copying.target \in {<<>>} \cup Names
  BY DEF CopyTypes

LEMMA RunningIsOne ==
    ASSUME CopyTypes, NEW m \in Receivers, Running(m)
    PROVE  /\ m \in copying.members /\ copying.policy \in Policies /\ copying.item \in 1..Len(Sources)
           /\ \A o \in copying.members : Running(o) => o = m
<1>1. \A o \in copying.members : o \in Int
  BY CopyFacts, BulkCopiesAssumption
<1>2. m \in copying.members /\ \A o \in copying.members : m <= o
  BY DEF Running
<1>3. ASSUME NEW o \in copying.members, Running(o) PROVE o = m
  <2>1. o <= m /\ m <= o
    BY <1>2, <1>3 DEF Running
  <2>2. QED
    BY <1>1, <1>2, <2>1
<1>4. copying.policy \in Policies /\ copying.item \in 1..Len(Sources)
  BY CopyFacts DEF Running, CopyTypes
<1>5. QED
  BY <1>2, <1>3, <1>4

\* What the policy wants of a member is a matter of his folder.
LEMMA FitsHolds ==
    ASSUME NEW o, folder'[o] = folder[o], copies' = copies, NEW p, NEW s, Fits(o, p, s)
    PROVE  Fits(o, p, s)'
  BY DEF Fits, Stands, Copied

LEMMA CountedHolds ==
    ASSUME NEW o, Counted(o), folder'[o] = folder[o], copies' = copies, report'[o] = report[o],
           disturbed \subseteq disturbed', Progress(o)' = Progress(o)
    PROVE  Counted(o)'
<1>1. CASE report[o].policy = "none" \/ report[o].failed
  BY <1>1 DEF Counted
<1>2. CASE ~(report[o].policy = "none" \/ report[o].failed)
  <2>1. o \in disturbed' \/ \A i \in 1..Progress(o) : Fits(o, report[o].policy, Sources[i])'
    BY <1>2, FitsHolds DEF Counted
  <2>2. report'[o].written + report'[o].skipped = Progress(o)'
    BY <1>2 DEF Counted
  <2>3. o \in disturbed' \/ \A i \in 1..Progress(o)' : Fits(o, report[o].policy, Sources[i])'
    BY <2>1
  <2>4. o \in disturbed' \/ (\A i \in 1..Progress(o) : Fits(o, report[o].policy, Sources[i]))'
    BY <2>3, Zenon DEF Fits, Stands
  <2>5. QED
    BY <2>2, <2>4 DEF Counted
<1>3. QED
  BY <1>1, <1>2

LEMMA ReportOne ==
    ASSUME CopyTypes, NEW m \in Receivers
    PROVE  /\ report \in [Receivers -> [policy : Policies \cup {"none"}, written : Nat, skipped : Nat, failed : BOOLEAN]]
           /\ \A o \in Receivers : report[o] \in [policy : Policies \cup {"none"}, written : Nat, skipped : Nat, failed : BOOLEAN]
  BY DEF CopyTypes

LEMMA CountOne ==
    ASSUME CopyTypes, NEW m \in Receivers, NEW what \in {"written", "skipped"}, Count(m, what)
    PROVE  /\ report' \in [Receivers -> [policy : Policies \cup {"none"}, written : Nat, skipped : Nat, failed : BOOLEAN]]
           /\ \A o \in Receivers : report'[o].policy = report[o].policy /\ report'[o].failed = report[o].failed
           /\ \A o \in Receivers \ {m} : report'[o] = report[o]
           /\ report'[m].written + report'[m].skipped = report[m].written + report[m].skipped + 1
<1>1. /\ report \in [Receivers -> [policy : Policies \cup {"none"}, written : Nat, skipped : Nat, failed : BOOLEAN]]
      /\ report' = [report EXCEPT ![m][what] = @ + 1]
  BY DEF CopyTypes, Count
<1>2. CASE what = "written"
  BY <1>1, <1>2
<1>3. CASE what = "skipped"
  BY <1>1, <1>3
<1>4. QED
  BY <1>2, <1>3

CopyingSet ==
    [policy : Policies \cup {"none"}, members : SUBSET Receivers, item : Nat, target : {<<>>} \cup Names]
\* Where a run is after a file or a failure of member m.
MovedOn(m, left, progress) ==
    /\ copying' \in CopyingSet
    /\ copying'.policy = "none" => copying' = NoCopy
    /\ copying'.policy # "none" => /\ copying'.members # {} /\ copying'.item \in 1..Len(Sources)
                                   /\ copying'.policy = copying.policy
    /\ copying'.target = <<>> /\ copying'.members = left
    /\ Progress(m)' = progress
    /\ \A o \in Receivers \ {m} : Progress(o)' = Progress(o)

LEMMA GoPastMoves ==
    ASSUME CopyTypes, NEW m \in Receivers, Running(m), GoPast(m)
    PROVE  MovedOn(m, copying.members \ {m}, Len(Sources))
<1> USE SourcesAreListed
<1>1. /\ m \in copying.members /\ copying.policy \in Policies /\ copying.item \in 1..Len(Sources)
      /\ \A o \in copying.members : Running(o) => o = m
  BY RunningIsOne
<1>2. CASE copying.members = {m}
  <2>1. copying' = NoCopy
    BY <1>2 DEF GoPast
  <2>2. \A o \in Receivers : Progress(o)' = Len(Sources)
    BY <2>1 DEF Progress, NoCopy
  <2>3. \A o \in Receivers \ {m} : Progress(o) = Len(Sources)
    BY <1>2 DEF Progress
  <2>4. copying' \in CopyingSet /\ copying'.policy = "none" /\ copying'.target = <<>> /\ copying'.members = {}
    BY <2>1 DEF NoCopy, CopyingSet
  <2>5. QED
    BY <1>2, <2>1, <2>2, <2>3, <2>4 DEF MovedOn
<1>3. CASE copying.members # {m}
  <2>1. copying' = [copying EXCEPT !.members = @ \ {m}, !.item = 1, !.target = <<>>]
    BY <1>3 DEF GoPast
  <2>2. /\ copying'.policy = copying.policy /\ copying'.members = copying.members \ {m}
        /\ copying'.item = 1 /\ copying'.target = <<>>
    BY <2>1, CopyFacts
  <2>3. copying' \in CopyingSet
    BY <2>1, CopyFacts DEF CopyingSet
  <2>4. \A o \in Receivers : Progress(o)' = IF o \in copying.members \ {m} THEN 0 ELSE Len(Sources)
    BY <2>2 DEF Progress
  <2>5. \A o \in Receivers \ {m} : Progress(o) = IF o \in copying.members \ {m} THEN 0 ELSE Len(Sources)
    BY <1>1 DEF Progress
  <2>6. QED
    BY <1>1, <1>3, <2>2, <2>3, <2>4, <2>5 DEF MovedOn
<1>4. QED
  BY <1>2, <1>3

LEMMA GoMoves ==
    ASSUME CopyTypes, NEW m \in Receivers, Running(m), Go(m)
    PROVE  \E left \in SUBSET copying.members : MovedOn(m, left, copying.item)
<1> USE SourcesAreListed
<1>1. /\ m \in copying.members /\ copying.policy \in Policies /\ copying.item \in 1..Len(Sources)
      /\ \A o \in copying.members : Running(o) => o = m
  BY RunningIsOne
<1>2. CASE copying.item < Len(Sources)
  <2>1. copying' = [copying EXCEPT !.item = @ + 1, !.target = <<>>]
    BY <1>2 DEF Go
  <2>2. /\ copying'.policy = copying.policy /\ copying'.members = copying.members
        /\ copying'.item = copying.item + 1 /\ copying'.target = <<>>
    BY <2>1, CopyFacts
  <2>3. copying' \in CopyingSet
    <3>1. copying' = [policy |-> copying.policy, members |-> copying.members, item |-> copying.item + 1,
                      target |-> <<>>]
      BY <2>1, CopyFacts
    <3>2. QED
      BY <3>1, CopyFacts DEF CopyingSet
  <2>4. \A o \in copying.members : Running(o)' = Running(o)
    BY <1>1, <2>2 DEF Running
  <2>5. Progress(m)' = copying.item
    <3>1. m \in copying'.members /\ Running(m)'
      BY <1>1, <2>2, <2>4
    <3>2. Progress(m)' = copying'.item - 1
      BY <3>1 DEF Progress
    <3>3. QED
      BY <1>1, <2>2, <3>2
  <2>6. \A o \in Receivers \ {m} : Progress(o) = IF o \in copying.members THEN 0 ELSE Len(Sources)
    BY <1>1 DEF Progress
  <2>7. \A o \in Receivers \ {m} : Progress(o)' = IF o \in copying.members THEN 0 ELSE Len(Sources)
    BY <1>1, <2>2, <2>4 DEF Progress
  <2>8. MovedOn(m, copying.members, copying.item)
    BY <1>1, <1>2, <2>2, <2>3, <2>5, <2>6, <2>7 DEF MovedOn
  <2>9. QED
    BY <2>8
<1>3. CASE ~(copying.item < Len(Sources))
  <2>1. GoPast(m) /\ copying.item = Len(Sources)
    BY <1>1, <1>3 DEF Go, GoPast
  <2>2. MovedOn(m, copying.members \ {m}, copying.item)
    BY <2>1, GoPastMoves
  <2>3. QED
    BY <2>2
<1>4. QED
  BY <1>2, <1>3

\* One more file of the member a run is at.
LEMMA GoStep ==
    ASSUME CopyInv, NEW m \in Receivers, Running(m), Go(m), NEW what \in {"written", "skipped"},
           Count(m, what), UNCHANGED <<copies, disturbed>>,
           folder' \in [Receivers -> [Names -> Nat]], \A o \in Receivers \ {m} : folder'[o] = folder[o],
           NEW p, p = copying.policy, NEW now, now = Sources[copying.item],
           m \in disturbed \/ \A s \in ToSet(Sources) : Fits(m, p, s) => Fits(m, p, s)',
           m \in disturbed \/ Fits(m, p, now)'
    PROVE  CopyInv'
<1> USE SourcesAreListed
<1>1. /\ m \in copying.members /\ copying.policy \in Policies /\ copying.item \in 1..Len(Sources)
      /\ \A o \in copying.members : Running(o) => o = m
  BY RunningIsOne DEF CopyInv
<1>2. /\ report' \in [Receivers -> [policy : Policies \cup {"none"}, written : Nat, skipped : Nat, failed : BOOLEAN]]
      /\ \A o \in Receivers : report'[o].policy = report[o].policy /\ report'[o].failed = report[o].failed
      /\ \A o \in Receivers \ {m} : report'[o] = report[o]
      /\ report'[m].written + report'[m].skipped = report[m].written + report[m].skipped + 1
  BY CountOne DEF CopyInv
<1>3. PICK left \in SUBSET copying.members : MovedOn(m, left, copying.item)
  BY GoMoves DEF CopyInv
<1>4. CopyTypes'
  BY <1>2, <1>3 DEF CopyInv, CopyTypes, MovedOn, CopyingSet
<1>5. TargetFits' /\ Reported'
  <2>1. TargetFits'
    BY <1>3 DEF TargetFits, MovedOn
  <2>2. ASSUME NEW o \in left PROVE report'[o].policy = copying'.policy /\ ~report'[o].failed
    <3>1. copying'.policy = copying.policy
      BY <1>3 DEF MovedOn, NoCopy
    <3>2. o \in Receivers
      BY CopyFacts DEF CopyInv
    <3>3. QED
      BY <1>2, <3>1, <3>2 DEF CopyInv, Reported
  <2>3. QED
    BY <1>3, <2>1, <2>2 DEF Reported, MovedOn
<1>6. Progress(m)' = copying.item /\ \A o \in Receivers \ {m} : Progress(o)' = Progress(o)
  BY <1>3 DEF MovedOn
<1>7. Progress(m) = copying.item - 1 /\ report[m].policy = copying.policy /\ Counted(m) /\ ~report[m].failed
  BY <1>1 DEF Progress, CopyInv, Reported
<1>8. Counted(m)'
  <2>1. report'[m].written + report'[m].skipped = Progress(m)'
    BY <1>1, <1>2, <1>6, <1>7 DEF Counted
  <2>2. PICK q : q = report[m].policy /\ q = report'[m].policy /\ q = p
    BY <1>2, <1>7
  <2>3. ASSUME m \notin disturbed, NEW i \in 1..copying.item PROVE Fits(m, q, Sources[i])'
    <3>1. CASE i = copying.item
      BY <2>2, <2>3, <3>1
    <3>2. CASE i # copying.item
      <4>1. i \in 1..(copying.item - 1) /\ Sources[i] \in ToSet(Sources)
        BY <1>1, <3>2
      <4>2. Fits(m, p, Sources[i])
        BY <1>1, <1>7, <2>2, <2>3, <4>1 DEF Counted
      <4>3. Fits(m, p, Sources[i])'
        BY <2>3, <4>1, <4>2
      <4>4. QED
        BY <2>2, <4>3
    <3>3. QED
      BY <3>1, <3>2
  <2>4. m \in disturbed' \/ \A i \in 1..Progress(m)' : Fits(m, q, Sources[i])'
    BY <1>6, <2>3
  <2>5. QED
    BY <2>1, <2>2, <2>4 DEF Counted
<1>9. ASSUME NEW o \in Receivers \ {m} PROVE Counted(o)'
  BY <1>2, <1>6, CountedHolds DEF CopyInv
<1>10. QED
  BY <1>4, <1>5, <1>8, <1>9 DEF CopyInv

\* A failure ends the member.
LEMMA GoPastStep ==
    ASSUME CopyInv, NEW m \in Receivers, Running(m), GoPast(m),
           report' = [report EXCEPT ![m].failed = TRUE], UNCHANGED <<folder, copies, disturbed>>
    PROVE  CopyInv'
<1> USE SourcesAreListed
<1>2. /\ report' \in [Receivers -> [policy : Policies \cup {"none"}, written : Nat, skipped : Nat, failed : BOOLEAN]]
      /\ \A o \in Receivers \ {m} : report'[o] = report[o]
      /\ report'[m].failed
  BY DEF CopyInv, CopyTypes
<1>3. MovedOn(m, copying.members \ {m}, Len(Sources))
  BY GoPastMoves DEF CopyInv
<1>4. CopyTypes'
  BY <1>2, <1>3 DEF CopyInv, CopyTypes, MovedOn, CopyingSet
<1>5. TargetFits' /\ Reported'
  <2>1. TargetFits'
    BY <1>3 DEF TargetFits, MovedOn
  <2>2. ASSUME NEW o \in copying.members \ {m} PROVE report'[o].policy = copying'.policy /\ ~report'[o].failed
    <3>1. copying'.policy = copying.policy
      BY <1>3 DEF MovedOn, NoCopy
    <3>2. o \in Receivers
      BY CopyFacts DEF CopyInv
    <3>3. QED
      BY <1>2, <3>1, <3>2 DEF CopyInv, Reported
  <2>3. QED
    BY <1>3, <2>1, <2>2 DEF Reported, MovedOn
<1>6. \A o \in Receivers \ {m} : Progress(o)' = Progress(o)
  BY <1>3 DEF MovedOn
<1>7. Counted(m)'
  BY <1>2 DEF Counted
<1>8. ASSUME NEW o \in Receivers \ {m} PROVE Counted(o)'
  BY <1>2, <1>6, CountedHolds DEF CopyInv
<1>9. QED
  BY <1>4, <1>5, <1>7, <1>8 DEF CopyInv

----------------------------------------------------------------------------
LEMMA HereIsNamed ==
    ASSUME CopyTypes, NEW m \in Receivers, Running(m)
    PROVE  Here \in Names /\ Sources[copying.item] \in ToSet(Sources)
  BY RunningIsOne, SourcesAreListed DEF Here, Names

\* Writing a file of a member leaves every other.
LEMMA WriteCopy ==
    ASSUME CopyTypes, NEW m \in Receivers, NEW n \in Names, NEW v \in Nat, folder' = [folder EXCEPT ![m][n] = v]
    PROVE  /\ folder' \in [Receivers -> [Names -> Nat]]
           /\ \A o \in Receivers \ {m} : folder'[o] = folder[o]
           /\ folder'[m][n] = v
           /\ \A other \in Names \ {n} : folder'[m][other] = folder[m][other]
  BY DEF CopyTypes

\* A copy written to a member takes nothing away from what is in place for him.
LEMMA CopyKeeps ==
    ASSUME CopyTypes, NEW m \in Receivers, NEW n \in Names, UNCHANGED copies,
           folder' = [folder EXCEPT ![m][n] = Copied(copies)],
           NEW p \in Policies, NEW s \in ToSet(Sources), Fits(m, p, s)
    PROVE  Fits(m, p, s)'
<1> USE SourcesAreListed
<1>1. /\ folder'[m][n] = Copied(copies) /\ \A other \in Names \ {n} : folder'[m][other] = folder[m][other]
      /\ Copied(copies) \in Nat /\ Copied(copies) # NoContent
  <2>1. Copied(copies) \in Nat /\ Copied(copies) # NoContent
    BY DEF Copied, NoContent, CopyTypes
  <2>2. QED
    BY <2>1, WriteCopy
<1>2. Copied(copies)' = Copied(copies)
  BY DEF Copied
<1>3. \A k \in 0..MaxNumber : <<s, k>> \in Names
  BY DEF Names
<1>4. CASE p = "skip"
  BY <1>1, <1>3, <1>4 DEF Fits, Stands, NoContent
<1>5. CASE p = "overwrite"
  BY <1>1, <1>2, <1>3, <1>5 DEF Fits
<1>6. CASE p = "rename"
  BY <1>1, <1>2, <1>3, <1>6 DEF Fits
<1>7. QED
  BY <1>4, <1>5, <1>6, BulkCopiesAssumption

LEMMA SkipStep == ASSUME CopyInv, NEW m \in Receivers, Skip(m) PROVE CopyInv'
<1>1. Running(m) /\ Count(m, "skipped") /\ Go(m) /\ UNCHANGED <<folder, copies, disturbed>> /\ CopyTypes
  BY DEF Skip, CopyInv
<1>2. PICK p : p = copying.policy
  OBVIOUS
<1>3. PICK now : now = Sources[copying.item]
  OBVIOUS
<1>4. p = "skip" /\ Stands(m, <<now, 0>>)
  BY <1>1, <1>2, <1>3, RunningIsOne, BulkCopiesAssumption DEF Skip, decideAction, Here
<1>5. Fits(m, p, now)
  BY <1>4 DEF Fits
<1>6. \A s \in ToSet(Sources) : Fits(m, p, s) => Fits(m, p, s)'
  BY <1>1, FitsHolds
<1>7. Fits(m, p, now)'
  BY <1>1, <1>5, FitsHolds
<1>8. QED
  BY <1>1, <1>2, <1>3, <1>6, <1>7, GoStep DEF CopyTypes

LEMMA OverwriteStep == ASSUME CopyInv, NEW m \in Receivers, Overwrite(m) PROVE CopyInv'
<1>1. /\ Running(m) /\ Count(m, "written") /\ Go(m) /\ UNCHANGED <<copies, disturbed>> /\ CopyTypes
      /\ folder' = [folder EXCEPT ![m][Here] = Copied(copies)] /\ Here \in Names
  BY HereIsNamed DEF Overwrite, CopyInv
<1>2. PICK p : p = copying.policy
  OBVIOUS
<1>3. PICK now : now = Sources[copying.item]
  OBVIOUS
<1>4. p = "overwrite" /\ p \in Policies /\ Here = <<now, 0>>
  BY <1>1, <1>2, <1>3, RunningIsOne DEF Overwrite, decideAction, Here
<1>5. Copied(copies) \in Nat
  BY <1>1 DEF Copied, CopyTypes
<1>6. /\ folder' \in [Receivers -> [Names -> Nat]] /\ folder'[m][Here] = Copied(copies)
      /\ \A o \in Receivers \ {m} : folder'[o] = folder[o]
  BY <1>1, <1>5, WriteCopy
<1>7. Fits(m, p, now)'
  BY <1>1, <1>4, <1>6 DEF Fits, Copied
<1>8. \A s \in ToSet(Sources) : Fits(m, p, s) => Fits(m, p, s)'
  BY <1>1, <1>4, CopyKeeps
<1>9. QED
  BY <1>1, <1>2, <1>3, <1>6, <1>7, <1>8, GoStep

\* The first free number is one of the numbers.
LEMMA FirstFree ==
    ASSUME NEW free \in SUBSET (1..MaxNumber), free # {} PROVE Min(free) \in free
<1>1. MaxNumber \in Nat /\ free \subseteq Nat
  BY SourcesAreListed
<1>2. PICK k \in free : \A j \in free : ~ (<<j, k>> \in OpToRel(<, Nat))
  BY <1>1, NatLessThanWellFounded, WFMin, Zenon
<1>3. ASSUME NEW j \in free PROVE k <= j
  <2>1. j < k => <<j, k>> \in OpToRel(<, Nat)
    <3>1. j \in Nat /\ k \in Nat
      BY <1>1
    <3>2. OpToRel(<, Nat) = {ss \in Nat \X Nat : ss[1] < ss[2]}
      BY Zenon DEF OpToRel
    <3>3. QED
      BY <3>1, <3>2
  <2>2. ~(j < k)
    BY <1>2, <2>1, Zenon
  <2>3. QED
    BY <1>1, <2>2
<1>4. QED
  BY <1>3 DEF Min

LEMMA ChooseTargetStep == ASSUME CopyInv, NEW m \in Receivers, ChooseTarget(m) PROVE CopyInv'
<1> USE SourcesAreListed
<1>1. /\ Running(m) /\ CopyTypes /\ Here \in Names /\ UNCHANGED <<folder, report, copies, disturbed>>
      /\ copying.policy \in Policies /\ m \in copying.members /\ copying.item \in 1..Len(Sources)
  BY HereIsNamed, RunningIsOne DEF ChooseTarget, CopyInv
<1>2. PICK t : t = IF Stands(m, Here) THEN availableName(m, Here) ELSE Here
  OBVIOUS
<1>3. copying' = [copying EXCEPT !.target = t]
  BY <1>2 DEF ChooseTarget
<1>4. t \in Names /\ t[1] = Sources[copying.item] /\ (copying.policy # "rename" => t = Here)
  <2>1. Here[1] = Sources[copying.item]
    BY DEF Here
  <2>2. CASE ~Stands(m, Here)
    BY <1>1, <1>2, <2>1, <2>2
  <2>3. CASE Stands(m, Here)
    <3>1. PICK free : free = {k \in 1..MaxNumber : ~Stands(m, <<Here[1], k>>)}
      OBVIOUS
    <3>2. free # {} /\ free \subseteq 1..MaxNumber
      BY <2>3, <3>1 DEF ChooseTarget
    <3>3. Min(free) \in 1..MaxNumber
      BY <3>2, FirstFree
    <3>4. t = <<Here[1], Min(free)>>
      BY <1>2, <2>3, <3>1 DEF availableName
    <3>5. copying.policy = "rename"
      BY <2>3, BulkCopiesAssumption, <1>1 DEF ChooseTarget, decideAction
    <3>6. Here[1] \in ToSet(Sources)
      BY <1>1, <2>1
    <3>7. QED
      BY <2>1, <3>3, <3>4, <3>5, <3>6 DEF Names
  <2>4. QED
    BY <2>2, <2>3
<1>5. copying' = [policy |-> copying.policy, members |-> copying.members, item |-> copying.item, target |-> t]
  BY <1>1, <1>3, CopyFacts
<1>6. /\ copying'.policy = copying.policy /\ copying'.members = copying.members
      /\ copying'.item = copying.item /\ copying'.target = t
  BY <1>5
<1>7. CopyTypes'
  BY <1>1, <1>4, <1>5, <1>6, CopyFacts DEF CopyTypes
<1>8. TargetFits' /\ Reported'
  BY <1>1, <1>4, <1>6 DEF CopyInv, TargetFits, Reported, Here
<1>9. ASSUME NEW o \in Receivers PROVE Counted(o)'
  <2>1. Progress(o)' = Progress(o)
    BY <1>6 DEF Progress, Running
  <2>2. QED
    BY <1>1, <2>1, CountedHolds DEF CopyInv
<1>10. QED
  BY <1>7, <1>8, <1>9 DEF CopyInv

LEMMA CreateCopyStep == ASSUME CopyInv, NEW m \in Receivers, Create(m) PROVE CopyInv'
<1>1. /\ Running(m) /\ CopyTypes /\ UNCHANGED <<copies, disturbed>> /\ copying.target \in Names /\ copying.target # <<>>
      /\ copying.policy \in Policies
  BY RunningIsOne, CopyFacts DEF Create, CopyInv
<1>2. CASE Stands(m, copying.target)
  <2>1. GoPast(m) /\ report' = [report EXCEPT ![m].failed = TRUE] /\ UNCHANGED folder
    BY <1>2 DEF Create
  <2>2. QED
    BY <1>1, <2>1, GoPastStep
<1>3. CASE ~Stands(m, copying.target)
  <2>1. PICK t : t = copying.target
    OBVIOUS
  <2>2. t \in Names /\ folder' = [folder EXCEPT ![m][t] = Copied(copies)] /\ Count(m, "written") /\ Go(m)
    BY <1>1, <1>3, <2>1 DEF Create
  <2>3. PICK p : p = copying.policy
    OBVIOUS
  <2>4. PICK now : now = Sources[copying.item]
    OBVIOUS
  <2>5. /\ p \in Policies /\ t[1] = now /\ (p # "rename" => t = <<now, 0>>)
    BY <1>1, <2>1, <2>3, <2>4 DEF CopyInv, TargetFits, Here
  <2>6. Copied(copies) \in Nat /\ Copied(copies) # NoContent /\ Copied(copies)' = Copied(copies)
    BY <1>1 DEF Copied, CopyTypes, NoContent
  <2>7. /\ folder' \in [Receivers -> [Names -> Nat]] /\ folder'[m][t] = Copied(copies)
        /\ \A o \in Receivers \ {m} : folder'[o] = folder[o]
    BY <1>1, <2>2, <2>6, WriteCopy
  <2>8. Fits(m, p, now)'
    <3>1. CASE p = "rename"
      <4>1. PICK k \in 0..MaxNumber : t = <<now, k>>
        BY <2>2, <2>5 DEF Names
      <4>2. QED
        BY <2>6, <2>7, <3>1, <4>1 DEF Fits
    <3>2. CASE p # "rename"
      BY <2>5, <2>6, <2>7, <3>2, BulkCopiesAssumption DEF Fits, Stands, NoContent
    <3>3. QED
      BY <3>1, <3>2
  <2>9. \A s \in ToSet(Sources) : Fits(m, p, s) => Fits(m, p, s)'
    BY <1>1, <2>2, <2>5, CopyKeeps
  <2>10. QED
    BY <1>1, <2>2, <2>3, <2>4, <2>7, <2>8, <2>9, GoStep
<1>4. QED
  BY <1>2, <1>3

LEMMA WriteFailsStep == ASSUME CopyInv, NEW m \in Receivers, WriteFails(m) PROVE CopyInv'
  BY GoPastStep DEF WriteFails

LEMMA IntrudesStep ==
    ASSUME CopyInv, NEW m \in Receivers, NEW n \in Names, NEW present \in BOOLEAN, Intrudes(m, n, present)
    PROVE  CopyInv'
<1>1. PICK v \in Nat : v = IF present THEN Other ELSE NoContent
  BY DEF Other, NoContent
<1>2. folder' = [folder EXCEPT ![m][n] = v] /\ CopyTypes
  BY <1>1 DEF Intrudes, CopyInv
<1>3. folder' \in [Receivers -> [Names -> Nat]] /\ \A o \in Receivers \ {m} : folder'[o] = folder[o]
  BY <1>2, WriteCopy
<1>4. UNCHANGED <<copying, report, copies>> /\ disturbed' = disturbed \cup {m}
  BY DEF Intrudes
<1>5. CopyTypes' /\ TargetFits' /\ Reported'
  BY <1>3, <1>4 DEF CopyInv, CopyTypes, TargetFits, Reported, Here
<1>6. \A o \in Receivers : Progress(o)' = Progress(o)
  BY <1>4 DEF Progress, Running
<1>7. ASSUME NEW o \in Receivers \ {m} PROVE Counted(o)'
  BY <1>3, <1>4, <1>6, CountedHolds DEF CopyInv
<1>8. Counted(m)'
  BY <1>4, <1>6 DEF CopyInv, Counted
<1>9. QED
  BY <1>5, <1>7, <1>8 DEF CopyInv

LEMMA CopyBeginsStep ==
    ASSUME CopyInv, NEW policy \in Policies, NEW members \in SUBSET Receivers, CopyBegins(policy, members)
    PROVE  CopyInv'
<1> USE SourcesAreListed
<1>1. /\ copies' = copies + 1 /\ members # {} /\ UNCHANGED folder
      /\ copying' = [policy |-> policy, members |-> members, item |-> 1, target |-> <<>>]
      /\ report' = [m \in Receivers |-> IF m \in members THEN [NoReport EXCEPT !.policy = policy] ELSE NoReport]
  BY DEF CopyBegins
<1>2. /\ copying'.policy = policy /\ copying'.members = members /\ copying'.item = 1 /\ copying'.target = <<>>
      /\ policy # "none"
  BY <1>1
<1>3. /\ \A m \in members : report'[m] = [policy |-> policy, written |-> 0, skipped |-> 0, failed |-> FALSE]
      /\ \A m \in Receivers \ members : report'[m] = [policy |-> "none", written |-> 0, skipped |-> 0, failed |-> FALSE]
  BY <1>1 DEF NoReport
<1>4. report' \in [Receivers -> [policy : Policies \cup {"none"}, written : Nat, skipped : Nat, failed : BOOLEAN]]
  BY <1>1 DEF NoReport
<1>5. CopyTypes'
  <2>1. copying' \in CopyingSet
    BY <1>1 DEF CopyingSet
  <2>2. folder' \in [Receivers -> [Names -> Nat]] /\ copies' \in Nat
    BY <1>1 DEF CopyInv, CopyTypes
  <2>3. members # {} /\ 1 \in 1..Len(Sources)
    BY <1>1
  <2>4. QED
    BY <1>2, <1>4, <2>1, <2>2, <2>3 DEF CopyTypes, CopyingSet
<1>6. TargetFits' /\ Reported'
  BY <1>2, <1>3 DEF TargetFits, Reported
<1>7. ASSUME NEW m \in members PROVE Counted(m)'
  <2>1. Progress(m)' = 0
    BY <1>2 DEF Progress
  <2>2. QED
    BY <1>3, <2>1 DEF Counted
<1>8. ASSUME NEW m \in Receivers \ members PROVE Counted(m)'
  BY <1>3 DEF Counted
<1>9. QED
  BY <1>5, <1>6, <1>7, <1>8 DEF CopyInv

LEMMA CopyInvStep == CopyInv /\ [CopyNext]_copyVars => CopyInv'
<1>1. CASE UNCHANGED copyVars
  <2>1. UNCHANGED <<folder, copying, report, copies, disturbed>>
    BY <1>1 DEF copyVars
  <2>2. \A o \in Receivers : Progress(o)' = Progress(o)
    BY <2>1 DEF Progress, Running
  <2>3. ASSUME CopyInv PROVE \A o \in Receivers : Counted(o)'
    BY <2>1, <2>2, <2>3, CountedHolds DEF CopyInv
  <2>4. CopyInv => CopyTypes' /\ TargetFits' /\ Reported'
    BY <2>1 DEF CopyInv, CopyTypes, TargetFits, Here, Reported
  <2>5. QED
    BY <2>3, <2>4 DEF CopyInv
<1>2. CASE CopyNext
  BY <1>2, CopyBeginsStep, SkipStep, OverwriteStep, ChooseTargetStep, CreateCopyStep, WriteFailsStep, IntrudesStep
     DEF CopyNext
<1>3. QED
  BY <1>1, <1>2

\* What the table says when a copy has ended is so (BulkCopy.run, DeploySection), for any
\* members, files and policies, whatever the synchronisation and failures do meanwhile.
THEOREM TheReportIsTrue == CopySpec => []ReportIsTrue
<1>1. CopyInit => CopyInv
  BY CopyInvInit
<1>2. CopyInv /\ [CopyNext]_copyVars => CopyInv'
  BY CopyInvStep
<1>3. CopyInv => ReportIsTrue
  BY ReportHolds
<1>4. QED
  BY <1>1, <1>2, <1>3, PTL DEF CopySpec

----------------------------------------------------------------------------
(* Chat: the invariant.                                                      *)

IsList(s) == \E S : s \in Seq(S)
ARead(r) ==
    /\ r = [of |-> r.of, limit |-> r.limit, current |-> r.current, got |-> r.got]
    /\ r.of \in Channels /\ r.limit \in Nat /\ r.current \in BOOLEAN /\ IsList(r.got)

ChatTypes ==
    /\ messages \in [Channels -> SUBSET Ids] /\ channel \in Channels /\ limit \in Nat
    /\ IsList(reads) /\ \A i \in DOMAIN reads : ARead(reads[i])
    /\ IsList(renderedIds)
    /\ unread \in BOOLEAN /\ missed \in BOOLEAN /\ home \in BOOLEAN
    /\ typed = [all |-> typed.all, sent |-> typed.sent, late |-> typed.late] /\ typed.all \in Nat

\* At most the last reload is current, and it is the channel's own, unless the
\* room on screen was deleted and nothing has been drawn since.
OneCurrent ==
    /\ \A i \in DOMAIN reads : reads[i].current =>
          i = Len(reads) /\ reads[i].of = loadedChannel /\ reads[i].limit = limit
    /\ loadedChannel # channel => channel = Class /\ unread

\* The signature is that of what is rendered on the list on screen.
RenderedAs(c, sig, list, rendered) ==
    \/ sig = <<>> /\ rendered = <<>>
    \/ sig = <<NoHome>> /\ rendered = <<>> /\ list.of = NoHome
    \/ list = Shown(c, rendered) /\ \E l \in Nat : sig = MessageListSig(c, l, rendered)
Rendered == loadedChannel = channel => RenderedAs(channel, lastSig, screen, renderedIds)

\* What the current reload has read is what is stored; shown, it is on screen.
ReadsTheStore ==
    ~unread =>
      IF Answered(channel) THEN screen.of = NoHome /\ \A i \in DOMAIN reads : ~reads[i].current
      ELSE IF \E i \in DOMAIN reads : reads[i].current
           THEN \A i \in DOMAIN reads : reads[i].current => reads[i].got = Recent(messages[channel], limit + 1)
           ELSE missed \/ screen = Shown(channel, Recent(messages[channel], limit))

\* What was typed since the message under way was taken from the input is late.
WordsAreKept ==
    /\ sends = <<>> \/ \E s : sends = <<s>> /\ input \ s.words \subseteq typed.late
    /\ TypedIsKept

ChatInv == ChatTypes /\ OneCurrent /\ Rendered /\ ReadsTheStore /\ WordsAreKept

----------------------------------------------------------------------------
(* The window of the last messages.                                          *)

LEMMA OrderIsList == ASSUME NEW ids \in SUBSET Ids PROVE \E S, m : m \in Nat /\ InOrder(ids) \in [1..m -> S]
<1>1. IsFiniteSet(ids)
  <2>1. MaxId \in Nat /\ 1 \in Int
    BY ChatAssumption
  <2>2. IsFiniteSet(1..MaxId)
    BY <2>1, FS_Interval
  <2>3. QED
    BY <2>2, FS_Subset DEF Ids
<1>2. PICK m \in Nat : m = Cardinality(ids)
  BY <1>1, FS_CardinalityType
<1>3. InOrder(ids) = [i \in 1..m |-> InOrder(ids)[i]]
  BY <1>2 DEF InOrder
<1>4. InOrder(ids) \in [1..m -> {InOrder(ids)[i] : i \in 1..m}]
  BY <1>3
<1>5. QED
  BY <1>4

LEMMA Window ==
    ASSUME NEW ids \in SUBSET Ids, NEW n \in Nat
    PROVE  /\ IsList(Recent(ids, n)) /\ IsList(Recent(ids, n + 1))
           /\ (IF Len(Recent(ids, n + 1)) > n THEN Tail(Recent(ids, n + 1)) ELSE Recent(ids, n + 1)) = Recent(ids, n)
<1>1. PICK S, m : m \in Nat /\ InOrder(ids) \in [1..m -> S]
  BY OrderIsList
<1>2. PICK s \in Seq(S) : s = InOrder(ids) /\ Len(s) = m
  BY <1>1
<1>3. \A k \in Nat : Recent(ids, k) = IF m > k THEN SubSeq(s, m - k + 1, m) ELSE s
  BY <1>2 DEF Recent
<1>4. n + 1 \in Nat
  OBVIOUS
<1>5. ASSUME NEW k \in Nat PROVE Recent(ids, k) \in Seq(S)
  <2>1. CASE m > k
    <3>1. SubSeq(s, m - k + 1, m) \in Seq(S)
      BY <1>1, <1>2, <2>1
    <3>2. QED
      BY <1>3, <2>1, <3>1
  <2>2. CASE ~(m > k)
    BY <1>3, <2>2
  <2>3. QED
    BY <2>1, <2>2
<1>6. IsList(Recent(ids, n)) /\ IsList(Recent(ids, n + 1))
  BY <1>4, <1>5 DEF IsList
<1>7. CASE m > n + 1
  <2>1. PICK a : a = SubSeq(s, m - n, m)
    OBVIOUS
  <2>2. Recent(ids, n + 1) = a
    BY <1>1, <1>3, <1>7, <2>1
  <2>3. a \in Seq(S) /\ Len(a) = n + 1 /\ \A k \in 1..(n + 1) : a[k] = s[m - n + k - 1]
    BY <1>1, <1>2, <1>7, <2>1
  <2>4. Tail(a) \in Seq(S) /\ Len(Tail(a)) = n /\ \A k \in 1..n : Tail(a)[k] = s[m - n + k]
    BY <1>1, <1>2, <1>7, <2>3
  <2>5. PICK b : b = SubSeq(s, m - n + 1, m)
    OBVIOUS
  <2>6. Recent(ids, n) = b
    BY <1>1, <1>3, <1>7, <2>5
  <2>7. b \in Seq(S) /\ Len(b) = n /\ \A k \in 1..n : b[k] = s[m - n + k]
    BY <1>1, <1>2, <1>7, <2>5
  <2>8. Tail(a) = b
    BY <2>4, <2>7
  <2>9. QED
    BY <1>6, <2>2, <2>3, <2>6, <2>8
<1>8. CASE m = n + 1
  <2>1. Recent(ids, n + 1) = s
    BY <1>1, <1>3, <1>8
  <2>2. Recent(ids, n) = SubSeq(s, 2, n + 1)
    BY <1>1, <1>3, <1>8
  <2>3. SubSeq(s, 2, n + 1) \in Seq(S) /\ Len(SubSeq(s, 2, n + 1)) = n
        /\ \A k \in 1..n : SubSeq(s, 2, n + 1)[k] = s[k + 1]
    BY <1>2, <1>8
  <2>4. Tail(s) \in Seq(S) /\ Len(Tail(s)) = n /\ \A k \in 1..n : Tail(s)[k] = s[k + 1]
    BY <1>2, <1>8
  <2>5. Tail(s) = SubSeq(s, 2, n + 1)
    BY <2>3, <2>4
  <2>6. QED
    BY <1>2, <1>6, <1>8, <2>1, <2>2, <2>5
<1>9. CASE m <= n
  <2>1. Recent(ids, n + 1) = s /\ Recent(ids, n) = s /\ ~(m > n)
    BY <1>1, <1>3, <1>9
  <2>2. QED
    BY <1>2, <1>6, <2>1
<1>10. QED
  BY <1>1, <1>7, <1>8, <1>9

----------------------------------------------------------------------------
(* Reloading.                                                                *)

\* What BeginReload may meet and leaves.
ListTypes ==
    /\ limit \in Nat /\ IsList(reads) /\ (\A i \in DOMAIN reads : ARead(reads[i]))
    /\ IsList(renderedIds) /\ unread \in BOOLEAN /\ missed \in BOOLEAN

LEMMA Outdated ==
    ASSUME NEW rs, IsList(rs), \A i \in DOMAIN rs : ARead(rs[i])
    PROVE  LET old == [i \in DOMAIN rs |-> [rs[i] EXCEPT !.current = FALSE]]
           IN  /\ IsList(old) /\ DOMAIN old = DOMAIN rs /\ Len(old) = Len(rs)
               /\ \A i \in DOMAIN old : ARead(old[i]) /\ ~old[i].current
<1> DEFINE old == [i \in DOMAIN rs |-> [rs[i] EXCEPT !.current = FALSE]]
<1>1. PICK n \in Nat : DOMAIN rs = 1..n /\ Len(rs) = n
  BY DEF IsList
<1>2. old = [i \in 1..n |-> old[i]] /\ DOMAIN old = 1..n
  BY <1>1
<1>3. old \in [1..n -> {old[i] : i \in 1..n}]
  BY <1>2
<1>4. old \in Seq({old[i] : i \in 1..n}) /\ Len(old) = n
  BY <1>3
<1>5. ASSUME NEW i \in DOMAIN rs PROVE ARead(old[i]) /\ ~old[i].current
  <2>1. PICK r : r = rs[i] /\ ARead(r)
    OBVIOUS
  <2>2. old[i] = [r EXCEPT !.current = FALSE]
    BY <2>1
  <2>3. QED
    BY <2>1, <2>2 DEF ARead
<1>6. QED
  BY <1>1, <1>2, <1>4, <1>5 DEF IsList

LEMMA NewRead ==
    ASSUME NEW rs, IsList(rs), \A i \in DOMAIN rs : ARead(rs[i]) /\ ~rs[i].current, NEW r, ARead(r)
    PROVE  /\ IsList(Append(rs, r)) /\ Len(Append(rs, r)) = Len(rs) + 1
           /\ \A i \in DOMAIN Append(rs, r) :
                /\ ARead(Append(rs, r)[i])
                /\ Append(rs, r)[i].current => i = Len(rs) + 1 /\ Append(rs, r)[i] = r
           /\ Len(rs) + 1 \in DOMAIN Append(rs, r) /\ Append(rs, r)[Len(rs) + 1] = r
<1>1. PICK S : rs \in Seq(S)
  BY DEF IsList
<1>2. PICK T : T = S \cup {r}
  OBVIOUS
<1>3. rs \in Seq(T) /\ r \in T
  BY <1>1, <1>2
<1>4. PICK n \in Nat : Len(rs) = n /\ DOMAIN rs = 1..n
  BY <1>3
<1>5. /\ Append(rs, r) \in Seq(T) /\ Len(Append(rs, r)) = n + 1 /\ DOMAIN Append(rs, r) = 1..(n + 1)
      /\ Append(rs, r)[n + 1] = r /\ \A i \in 1..n : Append(rs, r)[i] = rs[i]
  BY <1>3, <1>4
<1>6. ASSUME NEW i \in 1..(n + 1)
      PROVE  ARead(Append(rs, r)[i]) /\ (Append(rs, r)[i].current => i = n + 1 /\ Append(rs, r)[i] = r)
  <2>1. CASE i = n + 1
    BY <1>5, <2>1
  <2>2. CASE i \in 1..n
    BY <1>4, <1>5, <2>2
  <2>3. i = n + 1 \/ i \in 1..n
    BY <1>4
  <2>4. QED
    BY <2>1, <2>2, <2>3
<1>7. QED
  BY <1>4, <1>5, <1>6 DEF IsList

LEMMA BeginsReload ==
    ASSUME ListTypes, NEW c \in Channels, NEW l \in Nat, NEW list, NEW rendered, NEW sig,
           BeginReload(c, l, list, rendered, sig), channel' = c, home' = home,
           IsList(rendered), RenderedAs(c, sig, list, rendered)
    PROVE  ListTypes' /\ OneCurrent' /\ Rendered' /\ ReadsTheStore'
<1> DEFINE old == [i \in DOMAIN reads |-> [reads[i] EXCEPT !.current = FALSE]]
<1>1. /\ IsList(old) /\ DOMAIN old = DOMAIN reads /\ Len(old) = Len(reads)
      /\ \A i \in DOMAIN old : ARead(old[i]) /\ ~old[i].current
  BY Outdated DEF ListTypes
<1>2. loadedChannel' = c
  BY DEF BeginReload
<1>3. Answered(channel)' = Answered(c)
  BY DEF Answered
<1>4. CASE Answered(c)
  <2>1. PICK new : new = old
    OBVIOUS
  <2>2. /\ reads' = new /\ limit' = l /\ unread' = FALSE /\ missed' = FALSE /\ lastSig' = <<NoHome>>
        /\ screen' = IF sig = <<NoHome>> THEN list ELSE Shown(NoHome, <<>>)
        /\ renderedIds' = IF sig = <<NoHome>> THEN rendered ELSE <<>>
    BY <1>4, <2>1 DEF BeginReload
  <2>3. screen'.of = NoHome /\ renderedIds' = <<>>
    <3>1. CASE sig = <<NoHome>>
      <4>1. rendered = <<>> /\ list.of = NoHome
        <5>1. sig # <<>>
          BY <3>1
        <5>2. \A k, r : MessageListSig(c, k, r) # <<NoHome>>
          BY DEF MessageListSig
        <5>3. QED
          BY <3>1, <5>1, <5>2 DEF RenderedAs
      <4>2. QED
        BY <2>2, <3>1, <4>1
    <3>2. CASE sig # <<NoHome>>
      BY <2>2, <3>2 DEF Shown
    <3>3. QED
      BY <3>1, <3>2
  <2>4. IsList(<<>>)
    BY DEF IsList
  <2>5. ListTypes'
    BY <1>1, <2>1, <2>2, <2>3, <2>4 DEF ListTypes
  <2>6. OneCurrent'
    BY <1>1, <1>2, <2>1, <2>2 DEF OneCurrent
  <2>7. Rendered'
    BY <2>2, <2>3 DEF Rendered, RenderedAs
  <2>8. ReadsTheStore'
    BY <1>1, <1>3, <1>4, <2>1, <2>2, <2>3 DEF ReadsTheStore
  <2>9. QED
    BY <2>5, <2>6, <2>7, <2>8
<1>5. CASE ~Answered(c)
  <2>1. PICK r : r = [of |-> c, limit |-> l, current |-> TRUE, got |-> <<Blank>>]
    OBVIOUS
  <2>2. PICK new : new = Append(old, r)
    OBVIOUS
  <2>3. /\ reads' = new /\ limit' = l /\ unread' = TRUE /\ missed' = missed /\ lastSig' = sig
        /\ screen' = list /\ renderedIds' = rendered
    BY <1>5, <2>1, <2>2 DEF BeginReload
  <2>4. IsList(<<Blank>>)
    <3>1. <<Blank>> \in Seq({Blank})
      OBVIOUS
    <3>2. QED
      BY <3>1 DEF IsList
  <2>5. ARead(r)
    BY <2>1, <2>4 DEF ARead
  <2>6. /\ IsList(new) /\ Len(new) = Len(old) + 1
        /\ \A i \in DOMAIN new : ARead(new[i]) /\ (new[i].current => i = Len(old) + 1 /\ new[i] = r)
    BY <1>1, <2>2, <2>5, NewRead
  <2>7. ListTypes'
    BY <2>3, <2>6 DEF ListTypes
  <2>8. OneCurrent'
    BY <1>2, <2>1, <2>3, <2>6 DEF OneCurrent
  <2>9. Rendered'
    BY <2>3 DEF Rendered
  <2>10. ReadsTheStore'
    BY <2>3 DEF ReadsTheStore
  <2>11. QED
    BY <2>7, <2>8, <2>9, <2>10
<1>6. QED
  BY <1>4, <1>5

\* What the list on screen depends on.
listed == <<messages, home, channel, loadedChannel, limit, lastSig, renderedIds, screen, reads, unread, missed>>

LEMMA ChatInvLists == ChatInv => ListTypes
  BY DEF ChatInv, ChatTypes, ListTypes

LEMMA Reloads ==
    ASSUME ChatInv, NEW c \in Channels, Reload(c), channel' = c, home' = home, c = loadedChannel => channel = c
    PROVE  ListTypes' /\ OneCurrent' /\ Rendered' /\ ReadsTheStore'
<1>1. PICK l \in Nat : l = LimitFor(c)
  BY ChatAssumption DEF LimitFor, ChatInv, ChatTypes
<1>2. PICK rendered, sig : /\ rendered = (IF Reset(c) THEN <<>> ELSE renderedIds)
                           /\ sig = (IF Reset(c) THEN <<>> ELSE lastSig)
  OBVIOUS
<1>3. BeginReload(c, l, screen, rendered, sig)
  BY <1>1, <1>2 DEF Reload
<1>4. IsList(<<>>)
  BY DEF IsList
<1>5. IsList(rendered) /\ RenderedAs(c, sig, screen, rendered)
  <2>1. CASE Reset(c)
    BY <1>2, <1>4, <2>1 DEF RenderedAs
  <2>2. CASE ~Reset(c)
    BY <1>2, <2>2 DEF Reset, ChatInv, ChatTypes, Rendered
  <2>3. QED
    BY <2>1, <2>2
<1>6. QED
  BY <1>1, <1>3, <1>5, ChatInvLists, BeginsReload

LEMMA Draws ==
    ASSUME ChatInv, NEW c \in Channels, Draw(c), channel' = c, home' = home
    PROVE  ListTypes' /\ OneCurrent' /\ Rendered' /\ ReadsTheStore'
<1>1. PICK l \in Nat : l = LimitFor(c)
  BY ChatAssumption DEF LimitFor, ChatInv, ChatTypes
<1>2. BeginReload(c, l, EmptyList, <<>>, <<>>)
  BY <1>1 DEF Draw
<1>3. IsList(<<>>) /\ RenderedAs(c, <<>>, EmptyList, <<>>)
  BY DEF IsList, RenderedAs
<1>4. QED
  BY <1>1, <1>2, <1>3, ChatInvLists, BeginsReload

\* A step that leaves list and reloads alone; what changes in the store is noted.
LEMMA ListStands ==
    ASSUME ChatInv, UNCHANGED <<channel, loadedChannel, limit, lastSig, renderedIds, screen, reads, missed>>,
           unread' \in BOOLEAN,
           ~unread' => ~unread /\ messages'[channel] = messages[channel] /\ (Answered(channel)' <=> Answered(channel))
    PROVE  ListTypes' /\ OneCurrent' /\ Rendered' /\ ReadsTheStore'
<1>1. ListTypes'
  BY DEF ChatInv, ChatTypes, ListTypes
<1>2. OneCurrent'
  BY DEF ChatInv, ChatTypes, OneCurrent
<1>3. Rendered'
  BY DEF ChatInv, Rendered
<1>4. ReadsTheStore'
  <2>1. CASE unread'
    BY <2>1 DEF ReadsTheStore
  <2>2. CASE ~unread'
    BY <2>2 DEF ChatInv, ReadsTheStore
  <2>3. QED
    BY <2>1, <2>2
<1>5. QED
  BY <1>1, <1>2, <1>3, <1>4

\* What makes up the invariant after a step.
LEMMA Together ==
    ASSUME ListTypes', OneCurrent', Rendered', ReadsTheStore', WordsAreKept',
           messages' \in [Channels -> SUBSET Ids], channel' \in Channels, home' \in BOOLEAN,
           typed' = [all |-> typed'.all, sent |-> typed'.sent, late |-> typed'.late], typed'.all \in Nat
    PROVE  ChatInv'
  BY DEF ListTypes, ChatTypes, ChatInv

LEMMA WordsStand == ASSUME ChatInv, UNCHANGED text PROVE WordsAreKept'
  BY DEF ChatInv, WordsAreKept, TypedIsKept, text

----------------------------------------------------------------------------
(* The steps.                                                                *)

LEMMA ReadStep == ASSUME ChatInv, NEW i \in DOMAIN reads, ReadMessages(i) PROVE ChatInv'
<1>1. /\ UNCHANGED <<messages, rooms, home, channel, loadedChannel, limit, lastSig, renderedIds, screen, missed>>
      /\ UNCHANGED text
  BY DEF ReadMessages, stored
<1>2. PICK r : r = reads[i] /\ ARead(r)
  BY DEF ChatInv, ChatTypes
<1>3. PICK found \in SUBSET Ids : found = IF Answered(r.of) THEN {} ELSE messages[r.of]
  BY <1>2 DEF ChatInv, ChatTypes, ARead
<1>4. PICK n \in Nat : n = r.limit
  BY <1>2 DEF ARead
<1>5. PICK latest : latest = Recent(found, n + 1) /\ IsList(latest)
  BY <1>3, <1>4, Window
<1>6. PICK new : new = [reads EXCEPT ![i].got = latest]
  OBVIOUS
<1>7. reads' = new
  BY <1>2, <1>3, <1>4, <1>5, <1>6 DEF ReadMessages
<1>8. unread' = (unread /\ ~(r.current /\ r.of = channel /\ ~Answered(r.of)))
  BY <1>2 DEF ReadMessages
<1>9. PICK s : s = [r EXCEPT !.got = latest]
  OBVIOUS
<1>10. ARead(s) /\ s.current = r.current /\ s.of = r.of /\ s.limit = r.limit /\ s.got = latest
  BY <1>2, <1>5, <1>9 DEF ARead
<1>11. /\ DOMAIN new = DOMAIN reads /\ new[i] = s /\ \A j \in DOMAIN reads : j # i => new[j] = reads[j]
       /\ IsList(new) /\ Len(new) = Len(reads)
  <2>1. PICK S : reads \in Seq(S)
    BY DEF ChatInv, ChatTypes, IsList
  <2>2. PICK m \in Nat : Len(reads) = m /\ DOMAIN reads = 1..m
    BY <2>1
  <2>3. new = [reads EXCEPT ![i] = s]
    BY <1>2, <1>6, <1>9
  <2>4. PICK T : T = S \cup {s}
    OBVIOUS
  <2>5. reads \in [1..m -> T] /\ s \in T
    BY <2>1, <2>2, <2>4
  <2>6. new \in [1..m -> T]
    BY <2>3, <2>5
  <2>7. new \in Seq(T) /\ Len(new) = m
    BY <2>6
  <2>8. QED
    BY <2>2, <2>3, <2>7 DEF IsList
<1>12. ListTypes'
  <2>1. \A j \in DOMAIN new : ARead(new[j])
    BY <1>10, <1>11 DEF ChatInv, ChatTypes
  <2>2. QED
    BY <1>1, <1>7, <1>8, <1>11, <2>1 DEF ListTypes, ChatInv, ChatTypes
<1>13. \A j \in DOMAIN new :
         new[j].current = reads[j].current /\ new[j].of = reads[j].of /\ new[j].limit = reads[j].limit
  BY <1>2, <1>10, <1>11
<1>14. OneCurrent'
  <2>1. \A j \in DOMAIN new : new[j].current =>
           j = Len(new) /\ new[j].of = loadedChannel /\ new[j].limit = limit
    BY <1>11, <1>13 DEF ChatInv, OneCurrent
  <2>2. loadedChannel # channel => unread'
    BY <1>2, <1>8 DEF ChatInv, OneCurrent
  <2>3. QED
    BY <1>1, <1>7, <2>1, <2>2 DEF ChatInv, OneCurrent
<1>15. Rendered'
  BY <1>1 DEF ChatInv, Rendered
<1>16. Answered(channel)' <=> Answered(channel)
  BY <1>1 DEF Answered
<1>17. ReadsTheStore'
  <2>1. CASE unread'
    BY <2>1 DEF ReadsTheStore
  <2>2. CASE ~unread /\ ~unread'
    <3>1. CASE Answered(channel)
      BY <1>1, <1>7, <1>11, <1>13, <1>16, <2>2, <3>1 DEF ChatInv, ReadsTheStore
    <3>2. CASE ~Answered(channel) /\ \E j \in DOMAIN reads : reads[j].current
      <4>1. ASSUME NEW j \in DOMAIN new, new[j].current PROVE new[j].got = Recent(messages[channel], limit + 1)
        <5>1. reads[j].current /\ reads[j].of = loadedChannel /\ reads[j].limit = limit
          BY <1>11, <1>13, <4>1 DEF ChatInv, OneCurrent
        <5>2. CASE j # i
          BY <1>11, <2>2, <3>2, <4>1, <5>1, <5>2 DEF ChatInv, ReadsTheStore
        <5>3. CASE j = i
          <6>1. r.of = channel /\ n = limit
            BY <1>2, <1>4, <2>2, <5>1, <5>3 DEF ChatInv, OneCurrent
          <6>2. QED
            BY <1>3, <1>5, <1>10, <1>11, <3>2, <5>3, <6>1
        <5>4. QED
          BY <5>2, <5>3
      <4>2. \E j \in DOMAIN new : new[j].current
        BY <1>11, <1>13, <3>2
      <4>3. QED
        BY <1>1, <1>7, <1>16, <3>2, <4>1, <4>2 DEF ReadsTheStore
    <3>3. CASE ~Answered(channel) /\ ~\E j \in DOMAIN reads : reads[j].current
      <4>1. ~\E j \in DOMAIN new : new[j].current
        BY <1>11, <1>13, <3>3
      <4>2. missed \/ screen = Shown(channel, Recent(messages[channel], limit))
        BY <2>2, <3>3 DEF ChatInv, ReadsTheStore
      <4>3. QED
        BY <1>1, <1>7, <1>16, <3>3, <4>1, <4>2 DEF ReadsTheStore
    <3>4. QED
      BY <3>1, <3>2, <3>3
  <2>3. CASE unread /\ ~unread'
    <3>1. r.current /\ r.of = channel /\ ~Answered(channel)
      BY <1>8, <2>3
    <3>2. i = Len(reads) /\ n = limit
      BY <1>2, <1>4, <3>1 DEF ChatInv, OneCurrent
    <3>3. latest = Recent(messages[channel], limit + 1)
      BY <1>3, <1>5, <3>1, <3>2
    <3>4. \A j \in DOMAIN new : new[j].current => j = i
      BY <1>11, <1>13, <3>2 DEF ChatInv, OneCurrent
    <3>5. \A j \in DOMAIN new : new[j].current => new[j].got = Recent(messages[channel], limit + 1)
      BY <1>10, <1>11, <3>3, <3>4
    <3>6. \E j \in DOMAIN new : new[j].current
      BY <1>10, <1>11, <3>1
    <3>7. QED
      BY <1>1, <1>7, <1>16, <3>1, <3>5, <3>6 DEF ReadsTheStore
  <2>4. QED
    BY <2>1, <2>2, <2>3
<1>18. WordsAreKept'
  BY <1>1, WordsStand
<1>19. QED
  BY <1>1, <1>12, <1>14, <1>15, <1>17, <1>18, Together DEF ChatInv, ChatTypes, text

LEMMA Joined ==
    ASSUME NEW S, NEW a \in Seq(S), NEW b \in Seq(S)
    PROVE  a \o b \in Seq(S) /\ Len(a \o b) = Len(a) + Len(b)
  OBVIOUS

LEMMA Removed ==
    ASSUME NEW rs, IsList(rs), NEW i \in DOMAIN rs, NEW new, new = RemoveAt(rs, i)
    PROVE  /\ IsList(new) /\ Len(rs) \in Nat /\ Len(new) = Len(rs) - 1 /\ DOMAIN new = 1..(Len(rs) - 1)
           /\ DOMAIN rs = 1..Len(rs)
           /\ \A j \in DOMAIN new : new[j] = IF j < i THEN rs[j] ELSE rs[j + 1]
<1>1. PICK S : rs \in Seq(S)
  BY DEF IsList
<1>2. PICK n \in Nat : Len(rs) = n /\ DOMAIN rs = 1..n /\ i \in 1..n
  BY <1>1
<1>3. PICK a : a = SubSeq(rs, 1, i - 1)
  OBVIOUS
<1>4. PICK b : b = SubSeq(rs, i + 1, n)
  OBVIOUS
<1>5. a \in Seq(S) /\ Len(a) = i - 1 /\ \A k \in 1..(i - 1) : a[k] = rs[k]
  BY <1>1, <1>2, <1>3
<1>6. b \in Seq(S) /\ Len(b) = n - i /\ \A k \in 1..(n - i) : b[k] = rs[i + k]
  BY <1>1, <1>2, <1>4
<1>7. new = a \o b
  BY <1>2, <1>3, <1>4 DEF RemoveAt
<1>8. new \in Seq(S) /\ Len(new) = n - 1 /\ DOMAIN new = 1..(n - 1)
  <2>1. new \in Seq(S) /\ Len(new) = Len(a) + Len(b)
    BY <1>5, <1>6, <1>7, Joined
  <2>2. Len(a) + Len(b) = n - 1
    BY <1>2, <1>5, <1>6
  <2>3. QED
    BY <2>1, <2>2
<1>9. ASSUME NEW j \in 1..(n - 1) PROVE new[j] = IF j < i THEN rs[j] ELSE rs[j + 1]
  <2>1. CASE j < i
    BY <1>2, <1>5, <1>6, <1>7, <2>1
  <2>2. CASE ~(j < i)
    <3>1. new[j] = b[j - (i - 1)]
      <4>1. PICK u, v \in Nat : Len(a) = u /\ Len(b) = v /\ u = i - 1 /\ v = n - i /\ j > u /\ j <= u + v
        BY <1>2, <1>5, <1>6, <2>2
      <4>2. j \in u + 1 .. u + v
        BY <4>1
      <4>3. (a \o b)[j] = b[j - u]
        BY SMTT(60), <1>5, <1>6, <4>1, <4>2
      <4>4. QED
        BY <1>7, <4>1, <4>3
    <3>2. j - (i - 1) \in 1..(n - i) /\ i + (j - (i - 1)) = j + 1
      BY <1>2, <2>2
    <3>3. QED
      BY <1>6, <2>2, <3>1, <3>2
  <2>3. QED
    BY <2>1, <2>2
<1>10. QED
  BY <1>2, <1>8, <1>9 DEF IsList

LEMMA Appended ==
    ASSUME NEW shown, NEW ids, IsList(shown), IsList(ids), IsAppendable(shown, ids)
    PROVE  shown \o SubSeq(ids, Len(shown) + 1, Len(ids)) = ids
<1>1. PICK S, T : shown \in Seq(S) /\ ids \in Seq(T)
  BY DEF IsList
<1>2. PICK U : U = S \cup T
  OBVIOUS
<1>3. shown \in Seq(U) /\ ids \in Seq(U)
  BY <1>1, <1>2
<1>4. PICK m, n \in Nat : Len(shown) = m /\ Len(ids) = n /\ DOMAIN shown = 1..m /\ DOMAIN ids = 1..n
  BY <1>3
<1>5. m < n /\ SubSeq(shown, 1, m) = SubSeq(ids, 1, m)
  BY <1>4 DEF IsAppendable, IsPrefix
<1>6. \A k \in 1..m : SubSeq(shown, 1, m)[k] = shown[k] /\ SubSeq(ids, 1, m)[k] = ids[k]
  BY <1>3, <1>4, <1>5
<1>7. \A k \in 1..m : shown[k] = ids[k]
  BY <1>5, <1>6
<1>8. PICK b : b = SubSeq(ids, m + 1, n)
  OBVIOUS
<1>9. b \in Seq(U) /\ Len(b) = n - m /\ \A k \in 1..(n - m) : b[k] = ids[m + k]
  BY <1>3, <1>4, <1>5, <1>8
<1>10. PICK w : w = shown \o b
  OBVIOUS
<1>11. w \in Seq(U) /\ Len(w) = n
  <2>1. w \in Seq(U) /\ Len(w) = m + Len(b)
    <3>1. shown \in Seq(U) /\ b \in Seq(U) /\ Len(shown) = m
      BY <1>3, <1>4, <1>9
    <3>2. QED
      BY <1>10, <3>1, Joined
  <2>2. QED
    BY <1>4, <1>5, <1>9, <2>1
<1>12. ASSUME NEW k \in 1..n PROVE w[k] = ids[k]
  <2>1. CASE k <= m
    BY <1>3, <1>4, <1>5, <1>7, <1>9, <1>10, <2>1
  <2>2. CASE ~(k <= m)
    <3>1. w[k] = b[k - m]
      BY <1>3, <1>4, <1>5, <1>9, <1>10, <2>2
    <3>2. k - m \in 1..(n - m) /\ m + (k - m) = k
      BY <1>4, <1>5, <2>2
    <3>3. QED
      BY <1>9, <3>1, <3>2
  <2>3. QED
    BY <2>1, <2>2
<1>13. w = ids
  BY <1>3, <1>4, <1>11, <1>12
<1>14. QED
  BY <1>4, <1>8, <1>10, <1>13

\* A signature that is the same misses at most a change in the middle.
LEMMA SameSignature ==
    ASSUME NEW c, NEW d, NEW k, NEW l, NEW s, NEW m, IsList(s), IsList(m),
           MessageListSig(c, k, s) = MessageListSig(d, l, m)
    PROVE  s = m \/ SameEnds(s, m)
<1>1. CASE s = <<>> /\ m = <<>>
  BY <1>1
<1>2. CASE s # <<>> /\ m # <<>>
  <2>1. <<c, k, Len(s), Head(s), Last(s)>> = <<d, l, Len(m), Head(m), Last(m)>>
    BY <1>2 DEF MessageListSig
  <2>2. QED
    BY <1>2, <2>1 DEF SameEnds
<1>3. CASE s = <<>> /\ m # <<>>
  BY <1>3 DEF MessageListSig
<1>4. CASE s # <<>> /\ m = <<>>
  BY <1>4 DEF MessageListSig
<1>5. QED
  BY <1>1, <1>2, <1>3, <1>4

LEMMA ShowStep == ASSUME ChatInv, NEW i \in DOMAIN reads, ShowMessages(i) PROVE ChatInv'
<1>1. UNCHANGED <<messages, rooms, home, channel, loadedChannel, limit, unread>> /\ UNCHANGED text
  BY DEF ShowMessages, stored
<1>2. PICK r : r = reads[i] /\ ARead(r)
  BY DEF ChatInv, ChatTypes
<1>3. PICK new : new = RemoveAt(reads, i)
  OBVIOUS
<1>4. reads' = new
  BY <1>3 DEF ShowMessages
<1>5. /\ IsList(new) /\ Len(reads) \in Nat /\ Len(new) = Len(reads) - 1 /\ DOMAIN new = 1..(Len(reads) - 1)
      /\ DOMAIN reads = 1..Len(reads)
      /\ \A j \in DOMAIN new : new[j] = IF j < i THEN reads[j] ELSE reads[j + 1]
  BY <1>3, Removed DEF ChatInv, ChatTypes
<1>6. \A j \in DOMAIN new : \E k \in DOMAIN reads : k # i /\ (k = j + 1 \/ (j < i /\ k = j)) /\ new[j] = reads[k]
  <2>1. ASSUME NEW j \in DOMAIN new
        PROVE \E k \in DOMAIN reads : k # i /\ (k = j + 1 \/ (j < i /\ k = j)) /\ new[j] = reads[k]
    <3>1. PICK n \in Nat : Len(reads) = n /\ DOMAIN reads = 1..n /\ i \in 1..n /\ j \in 1..(n - 1)
      BY <1>5
    <3>2. CASE j < i
      <4>1. j \in 1..n /\ j # i /\ new[j] = reads[j]
        BY <1>5, <3>1, <3>2
      <4>2. QED
        BY <3>1, <3>2, <4>1
    <3>3. CASE ~(j < i)
      <4>1. j + 1 \in 1..n /\ j + 1 # i /\ new[j] = reads[j + 1]
        BY <1>5, <3>1, <3>3
      <4>2. PICK k \in 1..n : k = j + 1
        BY <4>1
      <4>3. QED
        BY <3>1, <4>1, <4>2
    <3>4. QED
      BY <3>2, <3>3
  <2>2. QED
    BY <2>1
<1>7. \A j \in DOMAIN new : ARead(new[j])
  BY <1>6 DEF ChatInv, ChatTypes
<1>8. PICK msgs : msgs = IF Len(r.got) > limit THEN Tail(r.got) ELSE r.got
  OBVIOUS
<1>9. IsList(msgs)
  <2>1. PICK S : r.got \in Seq(S)
    BY <1>2 DEF ARead, IsList
  <2>2. PICK n \in Nat : n = limit
    BY DEF ChatInv, ChatTypes
  <2>3. Len(r.got) > n => Tail(r.got) \in Seq(S)
    BY <2>1
  <2>4. msgs \in Seq(S)
    BY <1>8, <2>1, <2>2, <2>3
  <2>5. QED
    BY <2>4 DEF IsList
<1>10. PICK sig : sig = MessageListSig(channel, limit, msgs)
  OBVIOUS
<1>11. sig # <<>> /\ sig # <<NoHome>>
  BY <1>10 DEF MessageListSig
<1>12. WordsAreKept'
  BY <1>1, WordsStand
<1>13. CASE ~r.current
  <2>1. UNCHANGED <<lastSig, renderedIds, screen>>
    BY <1>2, <1>13 DEF ShowMessages, Overtaken
  <2>2. missed' = missed
    <3>1. Overtaken(r)
      BY <1>13 DEF Overtaken
    <3>2. missed' = (missed \/ (~Overtaken(r) /\ SameEnds(renderedIds, msgs) /\ renderedIds # msgs))
      BY <1>2, <1>8, <3>1 DEF ShowMessages
    <3>3. missed \in BOOLEAN
      BY DEF ChatInv, ChatTypes
    <3>4. QED
      BY <3>1, <3>2, <3>3
  <2>3. ListTypes'
    BY <1>1, <1>4, <1>5, <1>7, <2>1, <2>2 DEF ListTypes, ChatInv, ChatTypes
  <2>4. ASSUME NEW j \in DOMAIN new, new[j].current
        PROVE  j = Len(new) /\ j + 1 \in DOMAIN reads /\ new[j] = reads[j + 1]
    <3>1. PICK k \in DOMAIN reads : k # i /\ (k = j + 1 \/ (j < i /\ k = j)) /\ new[j] = reads[k]
      BY <1>6
    <3>2. k = Len(reads)
      BY <2>4, <3>1 DEF ChatInv, OneCurrent
    <3>3. i \in 1..Len(reads) /\ j \in 1..(Len(reads) - 1)
      BY <1>5
    <3>4. k = j + 1
      BY <1>5, <3>1, <3>2, <3>3
    <3>5. QED
      BY <1>5, <3>1, <3>2, <3>3, <3>4
  <2>5. \A j \in DOMAIN new : new[j].current => j = Len(new) /\ new[j].of = loadedChannel /\ new[j].limit = limit
    BY <2>4 DEF ChatInv, OneCurrent
  <2>6. OneCurrent'
    BY <1>1, <1>4, <2>5 DEF ChatInv, OneCurrent
  <2>7. Rendered'
    BY <1>1, <2>1 DEF ChatInv, Rendered
  <2>8. (\E j \in DOMAIN new : new[j].current) <=> (\E j \in DOMAIN reads : reads[j].current)
    <3>1. ASSUME NEW j \in DOMAIN reads, reads[j].current PROVE \E k \in DOMAIN new : new[k].current
      <4>1. j = Len(reads) /\ j # i
        BY <1>2, <1>13, <3>1 DEF ChatInv, OneCurrent
      <4>2. PICK n \in Nat : n = Len(reads) /\ i \in 1..n /\ DOMAIN new = 1..(n - 1)
        BY <1>5
      <4>3. n - 1 \in DOMAIN new /\ ~(n - 1 < i) /\ n - 1 + 1 = n
        BY <4>1, <4>2
      <4>4. new[n - 1] = reads[n - 1 + 1]
        BY <1>5, <4>3
      <4>5. new[n - 1] = reads[j]
        BY <4>1, <4>2, <4>3, <4>4
      <4>6. QED
        BY <3>1, <4>3, <4>5
    <3>2. QED
      BY <2>4, <3>1
  <2>9. Answered(channel)' <=> Answered(channel)
    BY <1>1 DEF Answered
  <2>10. ReadsTheStore'
    BY <1>1, <1>4, <2>1, <2>2, <2>4, <2>8, <2>9 DEF ChatInv, ReadsTheStore
  <2>11. QED
    BY <1>1, <1>12, <2>3, <2>6, <2>7, <2>10, Together DEF ChatInv, ChatTypes, text
<1>14. CASE r.current
  <2>1. /\ i = Len(reads) /\ r.of = loadedChannel /\ r.limit = limit
    BY <1>2, <1>14 DEF ChatInv, OneCurrent
  <2>2. \A j \in DOMAIN new : ~new[j].current
    <3>1. ASSUME NEW j \in DOMAIN new, new[j].current PROVE FALSE
      <4>1. PICK k \in DOMAIN reads : k # i /\ new[j] = reads[k]
        BY <1>6
      <4>2. QED
        BY <2>1, <3>1, <4>1 DEF ChatInv, OneCurrent
    <3>2. QED
      BY <3>1
  <2>3. OneCurrent'
    BY <1>1, <1>4, <2>2 DEF ChatInv, OneCurrent
  <2>4. Answered(channel)' <=> Answered(channel)
    BY <1>1 DEF Answered
  <2>5. ~unread => ~Answered(channel) /\ msgs = Recent(messages[channel], limit)
    <3>1. ASSUME ~unread PROVE ~Answered(channel) /\ msgs = Recent(messages[channel], limit)
      <4>1. ~Answered(channel) /\ r.got = Recent(messages[channel], limit + 1)
        BY <1>2, <1>14, <3>1 DEF ChatInv, ReadsTheStore
      <4>2. PICK ids \in SUBSET Ids : ids = messages[channel]
        BY DEF ChatInv, ChatTypes
      <4>3. PICK n \in Nat : n = limit
        BY DEF ChatInv, ChatTypes
      <4>4. (IF Len(Recent(ids, n + 1)) > n THEN Tail(Recent(ids, n + 1)) ELSE Recent(ids, n + 1)) = Recent(ids, n)
        BY <4>2, <4>3, Window
      <4>5. QED
        BY <1>8, <4>1, <4>2, <4>3, <4>4
    <3>2. QED
      BY <3>1
  <2>6. CASE sig = lastSig
    <3>1. /\ UNCHANGED <<lastSig, renderedIds, screen>>
          /\ missed' = (missed \/ (~Overtaken(r) /\ SameEnds(renderedIds, msgs) /\ renderedIds # msgs))
      BY <1>2, <1>8, <1>10, <2>6 DEF ShowMessages
    <3>2. ListTypes'
      BY <1>1, <1>4, <1>5, <1>7, <3>1 DEF ListTypes, ChatInv, ChatTypes
    <3>3. Rendered'
      BY <1>1, <3>1 DEF ChatInv, Rendered
    <3>4. ReadsTheStore'
      <4>1. SUFFICES ASSUME ~unread, ~missed' PROVE screen = Shown(channel, Recent(messages[channel], limit))
        BY <1>1, <1>4, <2>2, <2>4, <2>5, <3>1 DEF ReadsTheStore
      <4>2. loadedChannel = channel
        BY <4>1 DEF ChatInv, OneCurrent
      <4>3. PICK l \in Nat : lastSig = MessageListSig(channel, l, renderedIds) /\ screen = Shown(channel, renderedIds)
        BY <1>11, <2>6, <4>2 DEF ChatInv, Rendered, RenderedAs
      <4>4. IsList(renderedIds) /\ MessageListSig(channel, l, renderedIds) = MessageListSig(channel, limit, msgs)
        BY <1>10, <2>6, <4>3 DEF ChatInv, ChatTypes
      <4>5. renderedIds = msgs \/ SameEnds(renderedIds, msgs)
        BY <1>9, <4>4, SameSignature
      <4>6. renderedIds = msgs
        BY <1>14, <3>1, <4>1, <4>5 DEF Overtaken
      <4>7. QED
        BY <2>5, <4>1, <4>3, <4>6
    <3>5. QED
      BY <1>1, <1>12, <2>3, <3>2, <3>3, <3>4, Together DEF ChatInv, ChatTypes, text
  <2>7. CASE sig # lastSig
    <3>1. /\ lastSig' = sig /\ renderedIds' = msgs /\ missed' = FALSE
          /\ screen' = IF IsAppendable(renderedIds, msgs)
                       THEN Shown(r.of, screen.ids \o SubSeq(msgs, Len(renderedIds) + 1, Len(msgs)))
                       ELSE Shown(r.of, msgs)
      BY <1>2, <1>8, <1>10, <1>14, <2>7 DEF ShowMessages, Overtaken
    <3>2. ListTypes'
      BY <1>1, <1>4, <1>5, <1>7, <1>9, <3>1 DEF ListTypes, ChatInv, ChatTypes
    <3>3. loadedChannel = channel => screen' = Shown(channel, msgs)
      <4>1. SUFFICES ASSUME loadedChannel = channel PROVE screen' = Shown(channel, msgs)
        OBVIOUS
      <4>2. CASE IsAppendable(renderedIds, msgs)
        <5>1. screen.ids = renderedIds
          BY <4>1, <4>2 DEF ChatInv, Rendered, RenderedAs, IsAppendable, Shown
        <5>2. renderedIds \o SubSeq(msgs, Len(renderedIds) + 1, Len(msgs)) = msgs
          BY <1>9, <4>2, Appended DEF ChatInv, ChatTypes
        <5>3. QED
          BY <2>1, <3>1, <4>1, <4>2, <5>1, <5>2
      <4>3. CASE ~IsAppendable(renderedIds, msgs)
        BY <2>1, <3>1, <4>1, <4>3
      <4>4. QED
        BY <4>2, <4>3
    <3>4. Rendered'
      <4>1. SUFFICES ASSUME loadedChannel = channel PROVE RenderedAs(channel, sig, screen', msgs)
        BY <1>1, <3>1 DEF Rendered
      <4>2. limit \in Nat
        BY DEF ChatInv, ChatTypes
      <4>3. QED
        BY <1>10, <3>3, <4>1, <4>2 DEF RenderedAs
    <3>5. ReadsTheStore'
      <4>1. ~unread => screen' = Shown(channel, Recent(messages[channel], limit))
        BY <2>5, <3>3 DEF ChatInv, OneCurrent
      <4>2. QED
        BY <1>1, <1>4, <2>2, <2>4, <2>5, <4>1 DEF ReadsTheStore
    <3>6. QED
      BY <1>1, <1>12, <2>3, <3>2, <3>4, <3>5, Together DEF ChatInv, ChatTypes, text
  <2>8. QED
    BY <2>6, <2>7
<1>15. QED
  BY <1>2, <1>13, <1>14 DEF ARead

LEMMA GroupsReadStep == ASSUME ChatInv, NEW i \in DOMAIN refreshes, ReadGroups(i) PROVE ChatInv'
<1>1. /\ UNCHANGED listed
      /\ UNCHANGED text
  BY DEF ReadGroups, stored, listed
<1>2. ListTypes' /\ OneCurrent' /\ Rendered' /\ ReadsTheStore'
  BY <1>1, ListStands DEF ChatInv, ChatTypes, Answered, listed
<1>3. QED
  BY <1>1, <1>2, WordsStand, Together DEF ChatInv, ChatTypes, text, listed

LEMMA GroupsShownStep == ASSUME ChatInv, NEW i \in DOMAIN refreshes, ShowGroups(i) PROVE ChatInv'
<1>1. PICK next : next = IF channel \in Groups /\ channel \notin refreshes[i].got THEN Class ELSE channel
  OBVIOUS
<1>2. next \in Channels
  BY <1>1 DEF ChatInv, ChatTypes, Channels
<1>3. channel' = next /\ UNCHANGED <<messages, home, sends, typed>>
  BY <1>1 DEF ShowGroups, stored
<1>4. ListTypes' /\ OneCurrent' /\ Rendered' /\ ReadsTheStore' /\ input' = input
  <2>1. CASE Draw(next)
    <3>1. input' = input
      BY <2>1 DEF Draw
    <3>2. QED
      BY <1>2, <1>3, <2>1, <3>1, Draws
  <2>2. CASE ~Draw(next)
    <3>1. /\ ~(channel \in Groups /\ channel \notin refreshes[i].got)
          /\ UNCHANGED <<loadedChannel, limit, lastSig, renderedIds, screen, reads, input, unread, missed>>
      BY <1>1, <2>2 DEF ShowGroups
    <3>2. channel' = channel
      BY <1>1, <1>3, <3>1
    <3>3. QED
      BY <1>3, <3>1, <3>2, ListStands DEF ChatInv, ChatTypes, Answered
  <2>3. QED
    BY <2>1, <2>2
<1>5. WordsAreKept'
  BY <1>3, <1>4, WordsStand DEF text
<1>6. QED
  BY <1>2, <1>3, <1>4, <1>5, Together DEF ChatInv, ChatTypes

LEMMA PollStep == ASSUME ChatInv, Poll PROVE ChatInv'
<1>1. UNCHANGED <<messages, home, channel>> /\ UNCHANGED text /\ Reload(channel) /\ channel \in Channels
  BY DEF Poll, stored, ChatInv, ChatTypes
<1>2. ListTypes' /\ OneCurrent' /\ Rendered' /\ ReadsTheStore'
  BY <1>1, Reloads
<1>3. QED
  BY <1>1, <1>2, WordsStand, Together DEF ChatInv, ChatTypes, text

LEMMA StoreStep ==
    ASSUME ChatInv, NEW c \in Channels, NEW ids \in SUBSET Ids, StoreChanges(c, ids), UNCHANGED text
    PROVE  ChatInv'
<1>1. messages' = [messages EXCEPT ![c] = ids] /\ UNCHANGED <<home, channel>> /\ channel \in Channels
  BY DEF StoreChanges, ChatInv, ChatTypes
<1>2. messages' \in [Channels -> SUBSET Ids]
  BY <1>1 DEF ChatInv, ChatTypes
<1>3. ListTypes' /\ OneCurrent' /\ Rendered' /\ ReadsTheStore'
  <2>1. CASE c = Class /\ channel = Class
    <3>1. Reload(channel)
      BY <2>1 DEF StoreChanges
    <3>2. QED
      BY <1>1, <3>1, Reloads
  <2>2. CASE ~(c = Class /\ channel = Class)
    <3>1. /\ UNCHANGED <<loadedChannel, limit, lastSig, renderedIds, screen, reads, missed>>
          /\ unread' = (unread \/ c = channel)
      BY <2>2 DEF StoreChanges
    <3>2. unread' \in BOOLEAN
      BY <3>1 DEF ChatInv, ChatTypes
    <3>3. ~unread' => ~unread /\ c # channel
      BY <3>1
    <3>4. c # channel => messages'[channel] = messages[channel]
      BY <1>1 DEF ChatInv, ChatTypes
    <3>5. Answered(channel)' <=> Answered(channel)
      BY <1>1 DEF Answered
    <3>6. QED
      BY <1>1, <3>1, <3>2, <3>3, <3>4, <3>5, ListStands
  <2>3. QED
    BY <2>1, <2>2
<1>4. QED
  BY <1>1, <1>2, <1>3, WordsStand, Together DEF ChatInv, ChatTypes, text

LEMMA ArrivesStep == ASSUME ChatInv, NEW c \in Channels, NEW m \in Ids, MessageArrives(c, m) PROVE ChatInv'
<1>1. messages[c] \cup {m} \in SUBSET Ids
  BY DEF ChatInv, ChatTypes
<1>2. StoreChanges(c, messages[c] \cup {m}) /\ UNCHANGED text
  BY DEF MessageArrives
<1>3. QED
  BY <1>1, <1>2, StoreStep

LEMMA DeletedStep == ASSUME ChatInv, NEW c \in Channels, NEW m \in Ids, MessageDeleted(c, m) PROVE ChatInv'
<1>1. messages[c] \ {m} \in SUBSET Ids
  BY DEF ChatInv, ChatTypes
<1>2. StoreChanges(c, messages[c] \ {m}) /\ UNCHANGED text
  BY DEF MessageDeleted
<1>3. QED
  BY <1>1, <1>2, StoreStep

LEMMA RoomsStep == ASSUME ChatInv, NEW g \in Groups, RoomsChange(g) PROVE ChatInv'
<1>1. /\ UNCHANGED listed
      /\ UNCHANGED text
  BY DEF RoomsChange, listed
<1>2. ListTypes' /\ OneCurrent' /\ Rendered' /\ ReadsTheStore'
  BY <1>1, ListStands DEF ChatInv, ChatTypes, Answered, listed
<1>3. QED
  BY <1>1, <1>2, WordsStand, Together DEF ChatInv, ChatTypes, text, listed

LEMMA HomeStep == ASSUME ChatInv, HomeChanges PROVE ChatInv'
<1>1. /\ UNCHANGED <<messages, channel, loadedChannel, limit, lastSig, renderedIds, screen, reads, missed>>
      /\ UNCHANGED text /\ home' = ~home /\ unread' = (unread \/ channel = Class)
  BY DEF HomeChanges
<1>2. unread' \in BOOLEAN /\ home' \in BOOLEAN
  BY <1>1 DEF ChatInv, ChatTypes
<1>3. ~unread' => ~unread /\ (Answered(channel)' <=> Answered(channel))
  BY <1>1 DEF Answered
<1>4. ListTypes' /\ OneCurrent' /\ Rendered' /\ ReadsTheStore'
  BY <1>1, <1>2, <1>3, ListStands
<1>5. QED
  BY <1>1, <1>2, <1>4, WordsStand, Together DEF ChatInv, ChatTypes, text

LEMMA ChooseStep == ASSUME ChatInv, NEW c \in Channels, ChooseChannel(c) PROVE ChatInv'
<1>1. UNCHANGED <<messages, home, sends, typed>> /\ channel' = c /\ Draw(c) /\ input' = input
  BY DEF ChooseChannel, stored, Draw
<1>2. ListTypes' /\ OneCurrent' /\ Rendered' /\ ReadsTheStore'
  BY <1>1, Draws
<1>3. QED
  BY <1>1, <1>2, WordsStand, Together DEF ChatInv, ChatTypes, text

LEMMA MoreStep == ASSUME ChatInv, LoadMore PROVE ChatInv'
<1>1. /\ UNCHANGED <<messages, home, channel>> /\ UNCHANGED text /\ channel = loadedChannel
      /\ BeginReload(channel, limit + PAGE, screen, renderedIds, lastSig)
  BY DEF LoadMore, stored
<1>2. PICK l \in Nat : l = limit + PAGE
  BY ChatAssumption DEF ChatInv, ChatTypes
<1>3. channel \in Channels /\ IsList(renderedIds) /\ RenderedAs(channel, lastSig, screen, renderedIds)
  BY <1>1 DEF ChatInv, ChatTypes, Rendered
<1>4. ListTypes' /\ OneCurrent' /\ Rendered' /\ ReadsTheStore'
  BY <1>1, <1>2, <1>3, ChatInvLists, BeginsReload
<1>5. QED
  BY <1>1, <1>4, WordsStand, Together DEF ChatInv, ChatTypes, text

LEMMA DeleteStep == ASSUME ChatInv, DeleteRoom PROVE ChatInv'
<1>1. /\ UNCHANGED <<messages, home, loadedChannel, limit, lastSig, renderedIds, screen, reads, missed>>
      /\ UNCHANGED text /\ channel' = Class /\ unread' = TRUE
  BY DEF DeleteRoom
<1>2. ListTypes'
  BY <1>1 DEF ChatInv, ChatTypes, ListTypes
<1>3. OneCurrent'
  BY <1>1 DEF ChatInv, OneCurrent
<1>4. Rendered'
  BY <1>1 DEF ChatInv, OneCurrent, Rendered
<1>5. ReadsTheStore'
  BY <1>1 DEF ReadsTheStore
<1>6. QED
  BY <1>1, <1>2, <1>3, <1>4, <1>5, WordsStand, Together DEF ChatInv, ChatTypes, text, Channels

LEMMA TypeStep == ASSUME ChatInv, Type PROVE ChatInv'
<1>1. /\ UNCHANGED listed
      /\ sends' = sends /\ input' = input \cup {typed.all + 1}
  BY DEF Type, stored, listed
<1>2. PICK n \in Nat : n = typed.all
  BY DEF ChatInv, ChatTypes
<1>3. /\ typed' = [all |-> typed'.all, sent |-> typed'.sent, late |-> typed'.late] /\ typed'.sent = typed.sent
      /\ typed'.all = n + 1 /\ typed'.late = IF sends = <<>> THEN typed.late ELSE typed.late \cup {n + 1}
  BY <1>2 DEF Type, ChatInv, ChatTypes
<1>4. ListTypes' /\ OneCurrent' /\ Rendered' /\ ReadsTheStore'
  BY <1>1, ListStands DEF ChatInv, ChatTypes, Answered, listed
<1>5. TypedIsKept'
  <2>1. 1..n \subseteq input \cup typed.sent \cup typed.late
    BY <1>2 DEF ChatInv, WordsAreKept, TypedIsKept
  <2>2. 1..(n + 1) = 1..n \cup {n + 1}
    OBVIOUS
  <2>3. typed.late \subseteq typed'.late
    BY <1>3
  <2>4. QED
    BY <1>1, <1>2, <1>3, <2>1, <2>2, <2>3 DEF TypedIsKept
<1>6. WordsAreKept'
  BY <1>1, <1>2, <1>3, <1>5 DEF ChatInv, WordsAreKept
<1>7. QED
  BY <1>1, <1>3, <1>4, <1>6, Together DEF ChatInv, ChatTypes, listed

LEMMA SendStep == ASSUME ChatInv, Send PROVE ChatInv'
<1>1. /\ UNCHANGED listed
      /\ UNCHANGED <<input, typed>> /\ sends' = <<[to |-> channel, words |-> input]>>
  BY DEF Send, stored, listed
<1>2. ListTypes' /\ OneCurrent' /\ Rendered' /\ ReadsTheStore'
  BY <1>1, ListStands DEF ChatInv, ChatTypes, Answered, listed
<1>3. WordsAreKept'
  BY <1>1 DEF ChatInv, WordsAreKept, TypedIsKept
<1>4. QED
  BY <1>1, <1>2, <1>3, Together DEF ChatInv, ChatTypes, listed

LEMMA SentStep == ASSUME ChatInv, NEW m \in Ids, Sent(m) PROVE ChatInv'
<1>1. PICK s : sends = <<s>> /\ input \ s.words \subseteq typed.late
  BY DEF Sent, ChatInv, WordsAreKept
<1>2. PICK ok \in BOOLEAN : ok <=> (s.to # Class \/ home)
  OBVIOUS
<1>3. /\ sends' = <<>> /\ UNCHANGED <<home, channel>> /\ Reload(channel) /\ channel \in Channels
      /\ messages' = IF ok THEN [messages EXCEPT ![s.to] = @ \cup {m}] ELSE messages
      /\ input' = IF ok THEN {} ELSE input
      /\ typed' = IF ok THEN [typed EXCEPT !.sent = @ \cup s.words] ELSE typed
  BY <1>1, <1>2 DEF Sent, ChatInv, ChatTypes
<1>4. messages' \in [Channels -> SUBSET Ids]
  BY <1>3 DEF ChatInv, ChatTypes
<1>5. /\ typed' = [all |-> typed'.all, sent |-> typed'.sent, late |-> typed'.late]
      /\ typed'.all = typed.all /\ typed'.late = typed.late
      /\ typed'.sent = IF ok THEN typed.sent \cup s.words ELSE typed.sent
  BY <1>3 DEF ChatInv, ChatTypes
<1>6. ListTypes' /\ OneCurrent' /\ Rendered' /\ ReadsTheStore'
  BY <1>3, Reloads
<1>7. TypedIsKept'
  BY <1>1, <1>3, <1>5 DEF ChatInv, WordsAreKept, TypedIsKept
<1>8. WordsAreKept'
  BY <1>3, <1>7 DEF WordsAreKept
<1>9. QED
  BY <1>3, <1>4, <1>5, <1>6, <1>8, Together DEF ChatInv, ChatTypes

LEMMA ChatInvInit == ChatInit => ChatInv
<1> SUFFICES ASSUME ChatInit PROVE ChatInv
  OBVIOUS
<1>1. IsList(<<>>)
  BY DEF IsList
<1>2. messages \in [Channels -> SUBSET Ids] /\ channel \in Channels /\ limit \in Nat
  BY ChatAssumption DEF ChatInit, Channels, Ids
<1>3. ChatTypes
  <2>1. reads = <<>> /\ renderedIds = <<>> /\ unread = TRUE /\ missed = FALSE /\ home = TRUE
    BY DEF ChatInit
  <2>2. typed = [all |-> typed.all, sent |-> typed.sent, late |-> typed.late] /\ typed.all \in Nat
    BY DEF ChatInit
  <2>3. \A i \in DOMAIN reads : ARead(reads[i])
    BY <2>1
  <2>4. IsList(reads) /\ IsList(renderedIds)
    BY <1>1, <2>1
  <2>5. unread \in BOOLEAN /\ missed \in BOOLEAN /\ home \in BOOLEAN
    BY <2>1
  <2>6. QED
    BY <1>2, <2>2, <2>3, <2>4, <2>5 DEF ChatTypes
<1>4. OneCurrent /\ Rendered /\ ReadsTheStore
  BY DEF ChatInit, OneCurrent, Rendered, RenderedAs, ReadsTheStore
<1>5. WordsAreKept
  BY DEF ChatInit, WordsAreKept, TypedIsKept
<1>6. QED
  BY <1>3, <1>4, <1>5 DEF ChatInv

LEMMA ChatInvNext == ChatInv /\ [ChatNext]_chatVars => ChatInv'
<1> SUFFICES ASSUME ChatInv, [ChatNext]_chatVars PROVE ChatInv'
  OBVIOUS
<1>1. CASE ChatNext
  BY <1>1, ReadStep, ShowStep, GroupsReadStep, GroupsShownStep, PollStep, HomeStep, MoreStep, DeleteStep, TypeStep,
     SendStep, ChooseStep, ArrivesStep, DeletedStep, RoomsStep, SentStep DEF ChatNext
<1>2. CASE UNCHANGED chatVars
  <2>1. UNCHANGED listed
        /\ UNCHANGED text
    BY <1>2 DEF chatVars, text, listed
  <2>2. ListTypes' /\ OneCurrent' /\ Rendered' /\ ReadsTheStore'
    BY <2>1, ListStands DEF ChatInv, ChatTypes, Answered, listed
  <2>3. QED
    BY <2>1, <2>2, WordsStand, Together DEF ChatInv, ChatTypes, text, listed
<1>3. QED
  BY <1>1, <1>2

\* The chat tab comes to show what is stored in the channel it names, however
\* reloads, redraws and the list of rooms overlap, and nothing that was typed is
\* lost (ChatSection.ts), for any channels, messages and number of reloads.
THEOREM TheTabIsTrue == ChatSpec => []TabIsTrue
<1>1. ChatInv => TabIsTrue
  <2>1. SUFFICES ASSUME ChatInv, reads = <<>>, ~unread, ~missed
                 PROVE  IF Answered(channel) THEN screen.of = NoHome
                        ELSE screen = Shown(channel, Recent(messages[channel], limit))
    BY DEF ChatInv, WordsAreKept, TabIsTrue, ShownIsCurrent
  <2>2. DOMAIN reads = {}
    BY <2>1
  <2>3. QED
    BY <2>1, <2>2 DEF ChatInv, ReadsTheStore
<1>2. QED
  BY <1>1, ChatInvInit, ChatInvNext, PTL DEF ChatSpec

----------------------------------------------------------------------------
(* Administration: the invariant.                                            *)

\* The settings in the parts the commands change.
Kept(st) ==
    /\ st = [field \in {"members", "named", "provisioned", "devices", "spaces", "groups", "recorded"} |-> st[field]]
    /\ st.recorded = [db \in Dbs |-> st.recorded[db]]
    /\ IsList(st.members) /\ IsFiniteSet(st.spaces)
ADatabase(d) == d = [field \in {"exists", "secured", "users", "policy", "shares"} |-> d[field]]
Shaped ==
    /\ Kept(settings) /\ Kept(disk)
    /\ server = [db \in Dbs |-> server[db]] /\ \A db \in Dbs : ADatabase(server[db])
    /\ tasks = [s \in Slots |-> tasks[s]] /\ \A s \in Slots : IsList(tasks[s])

\* Who made an open database is about to give it its list or to take it back: what another
\* command finds there it gives a list as well, but need not.
Open(db) == server[db].exists /\ ~server[db].secured
Makes(s) == Busy(s) /\ NextCall(s).do \in {"secureNew", "rollback"}
Tended ==
    \A db \in Dbs : Open(db) => db \in excused \/ \E s \in Slots : Makes(s) /\ NextCall(s).on = db

\* The policy recorded of a database is its own, or the record is in doubt; what does not
\* exist has none.
RecordsTrue ==
    \A db \in Dbs :
        /\ server[db].exists \/ server[db].policy = {}
        /\ settings.recorded[db] = {} \/ db \in unsure \/ server[db].policy = settings.recorded[db]

AdminInv == Shaped /\ Tended /\ RecordsTrue

----------------------------------------------------------------------------
(* ShortLists of calls.                                                           *)

LEMMA ShortLists ==
    /\ IsList(<<>>)
    /\ \A a : IsList(<<a>>)
    /\ \A a, b : IsList(<<a, b>>)
    /\ \A a, b, c : IsList(<<a, b, c>>)
    /\ \A a, b, c, d : IsList(<<a, b, c, d>>)
    /\ \A a, b, c, d, e : IsList(<<a, b, c, d, e>>)
    /\ \A a, b, c, d, e, f : IsList(<<a, b, c, d, e, f>>)
<1>1. \A a, b, c, d, e, f : <<a, b, c, d, e, f>> \in Seq({a, b, c, d, e, f})
  OBVIOUS
<1>2. \A a, b, c, d, e : <<a, b, c, d, e>> \in Seq({a, b, c, d, e})
  OBVIOUS
<1>3. \A a, b, c, d : <<a, b, c, d>> \in Seq({a, b, c, d})
  OBVIOUS
<1>4. \A a, b : <<a, b>> \in Seq({a, b})
  OBVIOUS
<1>8. \A a, b, c : <<a, b, c>> \in Seq({a, b, c})
  OBVIOUS
<1>5. \A a : <<a>> \in Seq({a})
  OBVIOUS
<1>6. <<>> \in Seq({})
  OBVIOUS
<1>7. QED
  BY <1>1, <1>2, <1>3, <1>4, <1>5, <1>6, <1>8 DEF IsList

LEMMA Concat == ASSUME NEW s, NEW t, IsList(s), IsList(t) PROVE IsList(s \o t)
<1>1. PICK S, T : s \in Seq(S) /\ t \in Seq(T)
  BY DEF IsList
<1>2. PICK U : U = S \cup T
  OBVIOUS
<1>3. s \in Seq(U) /\ t \in Seq(U)
  BY <1>1, <1>2
<1>4. s \o t \in Seq(U)
  BY <1>3
<1>5. QED
  BY <1>4 DEF IsList

LEMMA Rest == ASSUME NEW s, IsList(s), s # <<>> PROVE IsList(Tail(s))
<1>1. PICK S : s \in Seq(S)
  BY DEF IsList
<1>2. Tail(s) \in Seq(S)
  BY <1>1
<1>3. QED
  BY <1>2 DEF IsList

LEMMA First == ASSUME NEW x, NEW s, IsList(s) PROVE <<x>> \o s # <<>> /\ Head(<<x>> \o s) = x /\ IsList(<<x>> \o s)
<1>1. PICK S : s \in Seq(S)
  BY DEF IsList
<1>2. PICK U : U = S \cup {x}
  OBVIOUS
<1>3. s \in Seq(U) /\ x \in U
  BY <1>1, <1>2
<1>4. <<x>> \o s \in Seq(U) /\ Len(<<x>> \o s) = 1 + Len(s) /\ (<<x>> \o s)[1] = x
  BY <1>3
<1>5. Len(<<x>> \o s) # 0
  BY <1>3, <1>4
<1>6. QED
  BY <1>4, <1>5 DEF IsList

LEMMA Mapped == ASSUME NEW s, IsList(s), NEW t, t = [i \in DOMAIN s |-> t[i]] PROVE IsList(t)
<1>1. PICK n \in Nat : DOMAIN s = 1..n
  BY DEF IsList
<1>2. t \in [1..n -> {t[i] : i \in 1..n}]
  BY <1>1
<1>3. t \in Seq({t[i] : i \in 1..n})
  BY <1>2
<1>4. QED
  BY <1>3 DEF IsList

LEMMA InARow == ASSUME NEW S, IsFiniteSet(S) PROVE IsList(SetToSeq(S))
<1>1. PICK n \in Nat : n = Cardinality(S) /\ ExistsBijection(1..n, S)
  BY FS_CardinalityType
<1>2. PICK f \in [1..n -> S] : IsInjective(f)
  BY <1>1, Zenon DEF ExistsBijection, Bijection, Injection
<1>3. SetToSeq(S) \in [1..n -> S]
  BY <1>1, <1>2 DEF SetToSeq
<1>4. SetToSeq(S) \in Seq(S)
  BY <1>3
<1>5. QED
  BY <1>4 DEF IsList

LEMMA Least == ASSUME NEW S \in SUBSET Nat, S # {} PROVE \E i \in S : \A j \in S : i <= j
<1>1. PICK i \in S : \A j \in S : ~ (<<j, i>> \in OpToRel(<, Nat))
  BY NatLessThanWellFounded, WFMin, Zenon
<1>2. ASSUME NEW j \in S PROVE i <= j
  <2>1. j < i => <<j, i>> \in OpToRel(<, Nat)
    <3>1. ASSUME j < i PROVE <<j, i>> \in OpToRel(<, Nat)
      <4>1. <<j, i>> \in Nat \X Nat /\ <<j, i>>[1] = j /\ <<j, i>>[2] = i
        OBVIOUS
      <4>2. OpToRel(<, Nat) = {ss \in Nat \X Nat : ss[1] < ss[2]}
        BY Zenon DEF OpToRel
      <4>3. QED
        BY <3>1, <4>1, <4>2
    <3>2. QED
      BY <3>1
  <2>2. i \in Nat /\ j \in Nat
    OBVIOUS
  <2>3. ~(j < i)
    BY <1>1, <2>1
  <2>4. QED
    BY <2>2, <2>3
<1>3. QED
  BY <1>2

\* The image of a finite set.
LEMMA FiniteImage == ASSUME NEW S, IsFiniteSet(S), NEW f PROVE IsFiniteSet({f[x] : x \in S})
<1>1. PICK T : T = {f[x] : x \in S}
  OBVIOUS
<1>2. PICK g : g = [x \in S |-> f[x]]
  OBVIOUS
<1>3. g \in [S -> T] /\ \A t \in T : \E x \in S : g[x] = t
  BY <1>1, <1>2
<1>4. g \in Surjection(S, T)
  BY <1>3, Zenon DEF Surjection
<1>5. QED
  BY <1>1, <1>4, FS_Surjection

LEMMA FinitelyMany ==
    ASSUME NEW st, Kept(st)
    PROVE  /\ IsFiniteSet(Roster(st)) /\ IsFiniteSet(Targets(st)) /\ IsFiniteSet(accountsMap(st))
           /\ \A m : IsFiniteSet(accountsOf(st, m)) /\ IsFiniteSet({sp.req : sp \in {x \in st.spaces : m \in x.members}})
           /\ IsFiniteSet({Mirror(m) : m \in st.named \cap Roster(st)} \cup {Share(sp.req) : sp \in st.spaces})
<1>1. IsFiniteSet(Roster(st))
  <2>1. PICK n \in Nat : DOMAIN st.members = 1..n
    BY DEF Kept, IsList
  <2>2. IsFiniteSet(1..n)
    BY <2>1, FS_Interval
  <2>3. IsFiniteSet({st.members[i] : i \in 1..n})
    BY <2>2, FiniteImage
  <2>4. QED
    BY <2>1, <2>3 DEF Roster, ToSet
<1>2. ASSUME NEW S, IsFiniteSet(S) PROVE IsFiniteSet({Mirror(m) : m \in S})
  <2>1. PICK f : f = [m \in S |-> Mirror(m)]
    OBVIOUS
  <2>2. IsFiniteSet({f[m] : m \in S})
    BY <1>2, FiniteImage
  <2>3. {f[m] : m \in S} = {Mirror(m) : m \in S}
    BY <2>1
  <2>4. QED
    BY <2>2, <2>3
<1>3. ASSUME NEW S, IsFiniteSet(S) PROVE IsFiniteSet({Share(sp.req) : sp \in S}) /\ IsFiniteSet({sp.req : sp \in S})
  <2>1. PICK f, g : f = [sp \in S |-> Share(sp.req)] /\ g = [sp \in S |-> sp.req]
    OBVIOUS
  <2>2. IsFiniteSet({f[sp] : sp \in S}) /\ IsFiniteSet({g[sp] : sp \in S})
    BY <1>3, FiniteImage
  <2>3. {f[sp] : sp \in S} = {Share(sp.req) : sp \in S} /\ {g[sp] : sp \in S} = {sp.req : sp \in S}
    BY <2>1
  <2>4. QED
    BY <2>2, <2>3
<1>4. IsFiniteSet(st.spaces)
  BY DEF Kept
<1>5. IsFiniteSet(Targets(st))
  <2>1. IsFiniteSet(st.provisioned \cap Roster(st)) /\ IsFiniteSet({x \in st.spaces : x.provisioned})
    BY <1>1, <1>4, FS_Subset
  <2>2. IsFiniteSet({Mirror(m) : m \in st.provisioned \cap Roster(st)})
    BY <1>2, <2>1
  <2>3. IsFiniteSet({Share(sp.req) : sp \in {x \in st.spaces : x.provisioned}})
    BY <1>3, <2>1
  <2>4. QED
    BY <2>2, <2>3, FS_Union DEF Targets
<1>6. ASSUME NEW m PROVE IsFiniteSet(accountsOf(st, m))
  <2>1. IsFiniteSet({Base(m)}) /\ IsFiniteSet({Device(m)})
    BY FS_Singleton
  <2>2. IsFiniteSet({a \in {Base(m)} : m \in st.named}) /\ IsFiniteSet({a \in {Device(m)} : m \in st.devices})
    BY <2>1, FS_Subset
  <2>3. QED
    BY <2>2, FS_Union DEF accountsOf
<1>7. ASSUME NEW m PROVE IsFiniteSet({sp.req : sp \in {x \in st.spaces : m \in x.members}})
  <2>1. IsFiniteSet({x \in st.spaces : m \in x.members})
    BY <1>4, FS_Subset
  <2>2. QED
    BY <1>3, <2>1
<1>8. IsFiniteSet(accountsMap(st))
  <2>1. PICK f : f = [m \in Roster(st) |-> accountsOf(st, m)]
    OBVIOUS
  <2>2. PICK T : T = {f[m] : m \in Roster(st)}
    OBVIOUS
  <2>3. T = {accountsOf(st, m) : m \in Roster(st)} /\ IsFiniteSet(T)
    BY <1>1, <2>1, <2>2, FiniteImage
  <2>4. \A S \in T : IsFiniteSet(S)
    BY <1>6, <2>3
  <2>5. IsFiniteSet(UNION T)
    BY <2>3, <2>4, FS_UNION
  <2>6. QED
    BY <2>3, <2>5 DEF accountsMap
<1>9. IsFiniteSet({Mirror(m) : m \in st.named \cap Roster(st)} \cup {Share(sp.req) : sp \in st.spaces})
  <2>1. IsFiniteSet(st.named \cap Roster(st))
    BY <1>1, FS_Subset
  <2>2. IsFiniteSet({Mirror(m) : m \in st.named \cap Roster(st)}) /\ IsFiniteSet({Share(sp.req) : sp \in st.spaces})
    BY <1>2, <1>3, <1>4, <2>1
  <2>3. QED
    BY <2>2, FS_Union
<1>10. QED
  BY <1>1, <1>5, <1>6, <1>7, <1>8, <1>9

\* One call for each member of a finite set.
LEMMA CallEach ==
    ASSUME NEW S, IsFiniteSet(S), NEW order, order = SetToSeq(S), NEW todo, todo = [i \in DOMAIN order |-> todo[i]]
    PROVE  IsList(todo)
  BY InARow, Mapped

LEMMA TodoLists ==
    ASSUME NEW st, Kept(st)
    PROVE  /\ \A ms : IsFiniteSet(ms) => IsList(SharesOf(ms))
           /\ \A m : IsList(ProvisionCalls(st, m)) /\ IsList(InviteDeviceCalls(m)) /\ IsList(RevokeDeviceCalls(m))
           /\ \A sp : IsList(DeployCalls(st, sp))
           /\ \A index : IsList(DeleteMemberCalls(st, index))
           /\ \A r : IsList(DeleteGroupCalls(st, r))
           /\ \A all : IsList(ResetCalls(st, all))
           /\ \A m : IsList(AccessCalls(st, m))
           /\ \A dbs : IsList(PolicyCalls(st, dbs))
<1>1. ASSUME NEW ms, IsFiniteSet(ms) PROVE IsList(SharesOf(ms))
  <2>1. PICK order : order = SetToSeq(ms)
    OBVIOUS
  <2>2. PICK todo : todo = [i \in DOMAIN order |-> Call("shares", order[i], {})]
    OBVIOUS
  <2>3. IsList(todo)
    BY <1>1, <2>1, <2>2, CallEach
  <2>4. QED
    BY <2>1, <2>2, <2>3 DEF SharesOf
<1>2. ASSUME NEW m PROVE IsList(ProvisionCalls(st, m)) /\ IsList(InviteDeviceCalls(m)) /\ IsList(RevokeDeviceCalls(m))
  BY ShortLists DEF ProvisionCalls, InviteDeviceCalls, RevokeDeviceCalls
<1>3. ASSUME NEW sp PROVE IsList(DeployCalls(st, sp))
  BY ShortLists DEF DeployCalls
<1>4. ASSUME NEW index PROVE IsList(DeleteMemberCalls(st, index))
  <2>1. PICK m, order : m = st.members[index] /\ order = SetToSeq(accountsOf(st, m))
    OBVIOUS
  <2>2. PICK todo : todo = [i \in DOMAIN order |-> Call("dropUser", order[i], {})]
    OBVIOUS
  <2>3. IsList(todo)
    BY <2>1, <2>2, CallEach, FinitelyMany
  <2>4. PICK a, b : a = << Call("dropDb", Mirror(m), {}) >> /\ b = << Call("removeMember", index, {}), Call("restart", m, {}) >>
    OBVIOUS
  <2>5. IsList(a) /\ IsList(b)
    BY <2>4, ShortLists
  <2>6. IsList(a \o todo \o b)
    BY <2>3, <2>5, Concat
  <2>7. DeleteMemberCalls(st, index) = a \o todo \o b
    BY <2>1, <2>2, <2>4 DEF DeleteMemberCalls
  <2>8. QED
    BY <2>6, <2>7
<1>5. ASSUME NEW r PROVE IsList(DeleteGroupCalls(st, r))
  BY ShortLists DEF DeleteGroupCalls
<1>6. ASSUME NEW all PROVE IsList(ResetCalls(st, all))
  <2>1. PICK dbs, users : /\ dbs = SetToSeq({Mirror(m) : m \in st.named \cap Roster(st)} \cup {Share(sp.req) : sp \in st.spaces})
                          /\ users = SetToSeq(IF all THEN accountsMap(st) ELSE {})
    OBVIOUS
  <2>2. PICK a, b : /\ a = [i \in DOMAIN dbs |-> Call("dropDb", dbs[i], {})]
                    /\ b = [i \in DOMAIN users |-> Call("dropUser", users[i], {})]
    OBVIOUS
  <2>3. IsList(a)
    BY <2>1, <2>2, CallEach, FinitelyMany
  <2>4. IsFiniteSet(IF all THEN accountsMap(st) ELSE {})
    BY FinitelyMany, FS_EmptySet
  <2>5. IsList(b)
    BY <2>1, <2>2, <2>4, CallEach
  <2>6. PICK c : c = << Call(IF all THEN "clearAll" ELSE "clear", "all", {}) >>
    OBVIOUS
  <2>7. IsList(a \o b \o c)
    BY <2>3, <2>5, <2>6, ShortLists, Concat
  <2>8. ResetCalls(st, all) = a \o b \o c
    BY <2>1, <2>2, <2>6 DEF ResetCalls
  <2>9. QED
    BY <2>7, <2>8
<1>7. ASSUME NEW m PROVE IsList(AccessCalls(st, m))
  <2>1. PICK shared : shared = SetToSeq({sp.req : sp \in {x \in st.spaces : m \in x.members}})
    OBVIOUS
  <2>2. PICK a : a = [i \in DOMAIN shared |-> Call("grant", Share(shared[i]), {})]
    OBVIOUS
  <2>3. IsList(a)
    BY <2>1, <2>2, CallEach, FinitelyMany
  <2>4. PICK b, c : b = << Call("grant", Mirror(m), {}) >> /\ c = << Call("policies", m, Dbs) >>
    OBVIOUS
  <2>5. IsList(b \o a \o c)
    BY <2>3, <2>4, ShortLists, Concat
  <2>6. AccessCalls(st, m) = b \o a \o c
    BY <2>1, <2>2, <2>4 DEF AccessCalls
  <2>7. QED
    BY <2>5, <2>6
<1>8. ASSUME NEW dbs PROVE IsList(PolicyCalls(st, dbs))
  <2>1. PICK order : order = SetToSeq(Targets(st) \cap dbs)
    OBVIOUS
  <2>2. PICK a : a = [i \in DOMAIN order |-> Call("policy", order[i], accountsMap(st))]
    OBVIOUS
  <2>3. IsFiniteSet(Targets(st) \cap dbs)
    BY FinitelyMany, FS_Subset
  <2>4. IsList(a)
    BY <2>1, <2>2, <2>3, CallEach
  <2>5. PICK b : b = << Call("saveIfChanged", "all", {}) >>
    OBVIOUS
  <2>6. IsList(a \o b)
    BY <2>4, <2>5, ShortLists, Concat
  <2>7. PolicyCalls(st, dbs) = a \o b
    BY <2>1, <2>2, <2>5 DEF PolicyCalls
  <2>8. QED
    BY <2>6, <2>7
<1>9. QED
  BY <1>1, <1>2, <1>3, <1>4, <1>5, <1>6, <1>7, <1>8

LEMMA PartOf == ASSUME NEW s, IsList(s), NEW i \in Int, i > 0 PROVE IsList(SubSeq(s, i, Len(s)))
<1>1. PICK S : s \in Seq(S)
  BY DEF IsList
<1>2. SubSeq(s, i, Len(s)) \in Seq(S)
  BY <1>1
<1>3. QED
  BY <1>2 DEF IsList

\* What a refusal leaves of a command.
EndsOf(todo) == {i \in DOMAIN todo : todo[i].do = "restart"}
AfterEnd(todo) ==
    IF EndsOf(todo) = {} THEN <<>>
    ELSE SubSeq(todo, 1 + CHOOSE i \in EndsOf(todo) : \A j \in EndsOf(todo) : i <= j, Len(todo))
Refused(todo) ==
    IF AfterEnd(todo) # <<>> /\ Head(AfterEnd(todo)).do = "saveGroup"
    THEN <<Call("takeBack", Head(AfterEnd(todo)).on, {})>> \o SubSeq(AfterEnd(todo), 3, Len(AfterEnd(todo)))
    ELSE AfterEnd(todo)

LEMMA WaysOn ==
    ASSUME Shaped, NEW s \in Slots, Busy(s)
    PROVE  /\ IsList(Tail(tasks[s])) /\ IsList(MustSave(Tail(tasks[s])))
           /\ AfterRefusal(s) => \E todo : IsList(todo) /\ Goto(s, todo)
<1>1. PICK now : now = tasks[s] /\ IsList(now) /\ now # <<>>
  BY DEF Shaped, Busy
<1>2. IsList(Tail(now))
  BY <1>1, Rest
<1>3. IsList(MustSave(Tail(now)))
  BY <1>2, Mapped DEF MustSave
<1>4. ASSUME AfterRefusal(s) PROVE \E todo : IsList(todo) /\ Goto(s, todo)
  <2>1. PICK n \in Nat : DOMAIN now = 1..n /\ Len(now) = n
    BY <1>1 DEF IsList
  <2>2. PICK ends : ends = EndsOf(now)
    OBVIOUS
  <2>3. PICK rest : rest = AfterEnd(now)
    OBVIOUS
  <2>4. IsList(rest)
    <3>1. CASE ends = {}
      BY <2>2, <2>3, <3>1, ShortLists DEF AfterEnd
    <3>2. CASE ends # {}
      <4>1. ends \in SUBSET Nat
        BY <2>1, <2>2 DEF EndsOf
      <4>2. PICK k : k = CHOOSE i \in ends : \A j \in ends : i <= j
        OBVIOUS
      <4>3. k \in Nat
        BY <3>2, <4>1, <4>2, Least
      <4>4. 1 + k \in Int /\ 1 + k > 0
        BY <4>3
      <4>5. IsList(SubSeq(now, 1 + k, Len(now)))
        BY <1>1, <4>4, PartOf
      <4>6. QED
        BY <2>2, <2>3, <3>2, <4>2, <4>5 DEF AfterEnd
    <3>3. QED
      BY <3>1, <3>2
  <2>5. PICK todo : todo = Refused(now)
    OBVIOUS
  <2>6. IsList(todo)
    BY <2>3, <2>4, <2>5, PartOf, First DEF Refused
  <2>7. Goto(s, todo)
    <3>1. Goto(s, Refused(tasks[s]))
      BY <1>4, Zenon DEF AfterRefusal, Refused, AfterEnd, EndsOf
    <3>2. QED
      BY <1>1, <2>5, <3>1
  <2>8. QED
    BY <2>6, <2>7
<1>5. QED
  BY <1>1, <1>2, <1>3, <1>4

----------------------------------------------------------------------------
(* What a step keeps.                                                        *)

LEMMA KeptChanges ==
    ASSUME NEW st, Kept(st), NEW X
    PROVE  /\ Kept([st EXCEPT !.named = X]) /\ [st EXCEPT !.named = X].recorded = st.recorded
           /\ Kept([st EXCEPT !.provisioned = X]) /\ [st EXCEPT !.provisioned = X].recorded = st.recorded
           /\ Kept([st EXCEPT !.devices = X]) /\ [st EXCEPT !.devices = X].recorded = st.recorded
           /\ Kept([st EXCEPT !.groups = X]) /\ [st EXCEPT !.groups = X].recorded = st.recorded
           /\ IsFiniteSet(X) => Kept([st EXCEPT !.spaces = X]) /\ [st EXCEPT !.spaces = X].recorded = st.recorded
           /\ IsList(X) => Kept([st EXCEPT !.members = X]) /\ [st EXCEPT !.members = X].recorded = st.recorded
  BY DEF Kept

\* A step of another command leaves who made a database at it.
LEMMA TendedElsewhere ==
    ASSUME Shaped, Tended, NEW s \in Slots, NEW todo, Goto(s, todo), ~Makes(s),
           \A db \in Dbs : Open(db)' => Open(db) /\ (db \in excused => db \in excused')
    PROVE  Tended'
<1>1. \A x \in Slots : x # s => tasks'[x] = tasks[x]
  BY DEF Goto, Shaped
<1>2. \A x \in Slots : Makes(x) => x # s /\ Makes(x)' /\ NextCall(x)' = NextCall(x)
  BY <1>1 DEF Makes, Busy, NextCall
<1>3. ASSUME NEW db \in Dbs, Open(db)' PROVE db \in excused' \/ \E x \in Slots : Makes(x)' /\ NextCall(x)'.on = db
  <2>1. Open(db) /\ (db \in excused => db \in excused')
    BY <1>3
  <2>2. db \in excused \/ \E x \in Slots : Makes(x) /\ NextCall(x).on = db
    BY <2>1 DEF Tended
  <2>3. QED
    BY <1>2, <2>1, <2>2
<1>4. QED
  BY <1>3 DEF Tended

LEMMA TasksStand ==
    ASSUME Shaped, NEW s \in Slots, NEW todo, IsList(todo), Goto(s, todo)
    PROVE  /\ tasks' = [x \in Slots |-> tasks'[x]] /\ (\A x \in Slots : IsList(tasks'[x]))
           /\ tasks'[s] = todo /\ \A x \in Slots : x # s => tasks'[x] = tasks[x]
  BY DEF Goto, Shaped

\* A step that leaves the server and the records alone.
LEMMA OwnStep ==
    ASSUME AdminInv, NEW s \in Slots, NEW todo, IsList(todo), Goto(s, todo), ~Makes(s),
           Kept(settings'), Kept(disk'), settings'.recorded = settings.recorded, UNCHANGED <<server, excused, unsure>>
    PROVE  AdminInv'
<1>1. Shaped'
  BY TasksStand DEF AdminInv, Shaped
<1>2. Tended'
  BY TendedElsewhere DEF AdminInv, Open
<1>3. RecordsTrue'
  BY DEF AdminInv, RecordsTrue
<1>4. QED
  BY <1>1, <1>2, <1>3 DEF AdminInv

\* A command in a free slot.
LEMMA BeginStep ==
    ASSUME AdminInv, NEW todo, IsList(todo), (\E s \in Slots : ~Busy(s)), Goto(FreeSlot, todo),
           Kept(settings'), Kept(disk'), settings'.recorded = settings.recorded, UNCHANGED <<server, excused, unsure>>
    PROVE  AdminInv'
<1>1. PICK s : s = FreeSlot
  OBVIOUS
<1>2. s \in Slots /\ ~Busy(s)
  BY <1>1 DEF FreeSlot
<1>3. ~Makes(s)
  BY <1>2 DEF Makes
<1>4. Goto(s, todo)
  BY <1>1
<1>5. QED
  BY <1>2, <1>3, <1>4, OwnStep

----------------------------------------------------------------------------
(* The steps of a task.                                                      *)

\* What every step of a task knows.
LEMMA AtCall ==
    ASSUME AdminInv, NEW s \in Slots, NEW do, At(s, do)
    PROVE  /\ Busy(s) /\ (do \notin {"secureNew", "rollback"} => ~Makes(s))
           /\ IsList(Tail(tasks[s])) /\ IsList(MustSave(Tail(tasks[s]))) /\ IsList(<<>>)
           /\ AfterRefusal(s) => \E todo : IsList(todo) /\ Goto(s, todo)
           /\ Kept(settings) /\ Kept(disk)
  BY WaysOn, ShortLists DEF At, Makes, AdminInv, Shaped

LEMMA EnsureUserStep == ASSUME AdminInv, NEW s \in Slots, EnsureUser(s) PROVE AdminInv'
<1>1. At(s, "user") /\ UNCHANGED <<settings, disk, server, excused, unsure>>
  BY DEF EnsureUser, held
<1>2. \E todo : IsList(todo) /\ Goto(s, todo)
  BY <1>1, AtCall DEF EnsureUser, Advance, Raise
<1>3. ~Makes(s) /\ Kept(settings') /\ Kept(disk')
  BY <1>1, AtCall
<1>4. QED
  BY <1>1, <1>2, <1>3, OwnStep

LEMMA KeepMemberStep == ASSUME AdminInv, NEW s \in Slots, KeepMember(s) PROVE AdminInv'
<1>1. /\ At(s, "keepMember") /\ UNCHANGED <<server, excused, unsure>> /\ Goto(s, Tail(tasks[s]))
      /\ disk' = settings'
      /\ settings' = [settings EXCEPT !.provisioned = @ \cup ({NextCall(s).on} \cap Roster(settings))]
  BY DEF KeepMember, Save, Advance
<1>2. ~Makes(s) /\ IsList(Tail(tasks[s])) /\ Kept(settings)
  BY <1>1, AtCall
<1>3. PICK X : X = settings.provisioned \cup ({NextCall(s).on} \cap Roster(settings))
  OBVIOUS
<1>4. settings' = [settings EXCEPT !.provisioned = X]
  BY <1>1, <1>3
<1>5. Kept(settings') /\ settings'.recorded = settings.recorded
  BY <1>2, <1>4, KeptChanges
<1>6. QED
  BY <1>1, <1>2, <1>5, OwnStep

LEMMA SaveGroupStep == ASSUME AdminInv, NEW s \in Slots, SaveGroup(s) PROVE AdminInv'
<1>1. /\ At(s, "saveGroup") /\ UNCHANGED <<server, excused, unsure>> /\ Goto(s, Tail(tasks[s]))
      /\ disk' = settings' /\ settings' = [settings EXCEPT !.groups = @ \cup {NextCall(s).on}]
  BY DEF SaveGroup, Save, Advance
<1>2. ~Makes(s) /\ IsList(Tail(tasks[s])) /\ Kept(settings)
  BY <1>1, AtCall
<1>3. PICK X : X = settings.groups \cup {NextCall(s).on}
  OBVIOUS
<1>4. settings' = [settings EXCEPT !.groups = X]
  BY <1>1, <1>3
<1>5. Kept(settings') /\ settings'.recorded = settings.recorded
  BY <1>2, <1>4, KeptChanges
<1>6. QED
  BY <1>1, <1>2, <1>5, OwnStep

LEMMA DeviceStep == ASSUME AdminInv, NEW s \in Slots, AddDevice(s) \/ RemoveDevice(s) PROVE AdminInv'
<1>1. /\ At(s, "addDevice") \/ At(s, "removeDevice")
      /\ UNCHANGED <<disk, server, excused, unsure>> /\ Goto(s, Tail(tasks[s]))
  BY DEF AddDevice, RemoveDevice, Advance
<1>2. PICK X : settings' = [settings EXCEPT !.devices = X]
  BY DEF AddDevice, RemoveDevice
<1>3. ~Makes(s) /\ IsList(Tail(tasks[s])) /\ Kept(settings) /\ Kept(disk)
  BY <1>1, AtCall
<1>4. Kept(settings') /\ settings'.recorded = settings.recorded
  BY <1>2, <1>3, KeptChanges
<1>5. QED
  BY <1>1, <1>3, <1>4, OwnStep

LEMMA SaveStep == ASSUME AdminInv, NEW s \in Slots, SaveSettings(s) PROVE AdminInv'
<1>1. /\ At(s, "save") \/ At(s, "saveIfChanged")
      /\ UNCHANGED <<server, excused, unsure>> /\ Goto(s, Tail(tasks[s]))
      /\ settings' = settings /\ disk' \in {disk, settings}
  BY DEF SaveSettings, Advance, Save, held
<1>2. ~Makes(s) /\ IsList(Tail(tasks[s])) /\ Kept(settings) /\ Kept(disk)
  BY <1>1, AtCall
<1>3. Kept(settings') /\ Kept(disk')
  BY <1>1, <1>2
<1>4. QED
  BY <1>1, <1>2, <1>3, OwnStep

LEMMA ExpandStep ==
    ASSUME AdminInv, NEW s \in Slots, WriteAllShares(s) \/ RedeployValidate(s) \/ RefreshAccountAccess(s)
    PROVE  AdminInv'
<1>1. /\ At(s, "allShares") \/ At(s, "refreshShares") \/ At(s, "policies") \/ At(s, "access")
      /\ UNCHANGED <<settings, disk, server, excused, unsure>>
  BY DEF WriteAllShares, RedeployValidate, RefreshAccountAccess, held
<1>2. ~Makes(s) /\ IsList(Tail(tasks[s])) /\ Kept(settings) /\ Kept(disk)
  BY <1>1, AtCall
<1>3. \A X : IsFiniteSet(Roster(settings) \cap X)
  BY <1>2, FinitelyMany, FS_Subset
<1>4. \A X : IsList(SharesOf(Roster(settings) \cap X))
  BY <1>2, <1>3, TodoLists
<1>5. \E todo : IsList(todo) /\ Goto(s, todo)
  <2>1. CASE WriteAllShares(s)
    <3>1. \E X : Goto(s, SharesOf(Roster(settings) \cap X) \o Tail(tasks[s]))
      BY <2>1 DEF WriteAllShares
    <3>2. QED
      BY <1>2, <1>4, <3>1, Concat
  <2>2. CASE RedeployValidate(s)
    <3>1. \E X : Goto(s, PolicyCalls(settings, X) \o Tail(tasks[s]))
      BY <2>2 DEF RedeployValidate
    <3>2. QED
      BY <1>2, <3>1, TodoLists, Concat
  <2>3. CASE RefreshAccountAccess(s)
    <3>1. \E m : Goto(s, AccessCalls(settings, m) \o Tail(tasks[s]))
      BY <2>3 DEF RefreshAccountAccess
    <3>2. QED
      BY <1>2, <3>1, TodoLists, Concat
  <2>4. QED
    BY <2>1, <2>2, <2>3
<1>6. QED
  BY <1>1, <1>2, <1>5, OwnStep

LEMMA DropUserStep == ASSUME AdminInv, NEW s \in Slots, DropUser(s) PROVE AdminInv'
<1>1. (At(s, "dropUser") \/ At(s, "dropDevice")) /\ UNCHANGED <<settings, disk, server, excused, unsure>>
  BY DEF DropUser, held
<1>2. \E todo : IsList(todo) /\ Goto(s, todo)
  BY <1>1, AtCall DEF DropUser, Advance, Raise
<1>3. ~Makes(s) /\ Kept(settings') /\ Kept(disk')
  BY <1>1, AtCall
<1>4. QED
  BY <1>1, <1>2, <1>3, OwnStep

LEMMA RestartStep == ASSUME AdminInv, NEW s \in Slots, RestartMode(s) \/ Decide(s) PROVE AdminInv'
<1>1. /\ At(s, "restart") \/ At(s, "approved") \/ At(s, "rejected")
      /\ UNCHANGED <<settings, disk, server, excused, unsure>>
  BY DEF RestartMode, Decide, held
<1>2. \E todo : IsList(todo) /\ Goto(s, todo)
  BY <1>1, AtCall DEF RestartMode, Decide, Advance, Raise
<1>3. ~Makes(s) /\ Kept(settings') /\ Kept(disk')
  BY <1>1, AtCall
<1>4. QED
  BY <1>1, <1>2, <1>3, OwnStep

----------------------------------------------------------------------------
(* Steps that change the server.                                             *)

LEMMA DatabaseParts ==
    /\ ADatabase(NewDb) /\ NewDb.policy = {} /\ NewDb.exists
    /\ ADatabase(Absent) /\ ~Absent.exists
    /\ \A x, u : ADatabase(x) => /\ ADatabase(Secured(x, u)) /\ Secured(x, u).secured
                                /\ Secured(x, u).policy = x.policy /\ Secured(x, u).exists = x.exists
                                /\ ADatabase([x EXCEPT !.policy = u]) /\ [x EXCEPT !.policy = u].policy = u
                                /\ [x EXCEPT !.policy = u].exists = x.exists /\ [x EXCEPT !.policy = u].secured = x.secured
                                /\ ADatabase([x EXCEPT !.shares = u]) /\ [x EXCEPT !.shares = u].policy = x.policy
                                /\ [x EXCEPT !.shares = u].exists = x.exists /\ [x EXCEPT !.shares = u].secured = x.secured
<1>1. ADatabase(Absent) /\ ~Absent.exists /\ Absent.policy = {}
  BY DEF ADatabase, Absent
<1>2. ADatabase(NewDb) /\ NewDb.policy = {} /\ NewDb.exists
  BY <1>1 DEF ADatabase, NewDb
<1>3. ASSUME NEW x, NEW u, ADatabase(x)
      PROVE  /\ ADatabase(Secured(x, u)) /\ Secured(x, u).secured
             /\ Secured(x, u).policy = x.policy /\ Secured(x, u).exists = x.exists
  BY <1>3 DEF ADatabase, Secured
<1>4. ASSUME NEW x, NEW u, ADatabase(x)
      PROVE  /\ ADatabase([x EXCEPT !.policy = u]) /\ [x EXCEPT !.policy = u].policy = u
             /\ [x EXCEPT !.policy = u].exists = x.exists /\ [x EXCEPT !.policy = u].secured = x.secured
  BY <1>4 DEF ADatabase
<1>5. ASSUME NEW x, NEW u, ADatabase(x)
      PROVE  /\ ADatabase([x EXCEPT !.shares = u]) /\ [x EXCEPT !.shares = u].policy = x.policy
             /\ [x EXCEPT !.shares = u].exists = x.exists /\ [x EXCEPT !.shares = u].secured = x.secured
  BY <1>5 DEF ADatabase
<1>6. QED
  BY <1>1, <1>2, <1>3, <1>4, <1>5

\* A map that gives every database its parts.
IsServer(f) == f = [db \in Dbs |-> f[db]] /\ \A db \in Dbs : ADatabase(f[db])

\* A call changes at most one database.
Changed(d, X) == server' = [server EXCEPT ![d] = X]

LEMMA OneChanged ==
    ASSUME IsServer(server), NEW d, NEW X, d \in Dbs => ADatabase(X), Changed(d, X)
    PROVE  IsServer(server') /\ \A db \in Dbs : server'[db] = IF db = d THEN X ELSE server[db]
  BY DEF IsServer, Changed

\* What a call must show of the database it works on.
LookedAfter(db, todo) ==
    \/ db \in excused'
    \/ todo # <<>> /\ Head(todo).do \in {"secureNew", "rollback"} /\ Head(todo).on = db

LEMMA ServerStep ==
    ASSUME AdminInv, NEW s \in Slots, NEW todo, IsList(todo), Goto(s, todo), Kept(settings'), Kept(disk'), IsServer(server'),
           \A db \in Dbs : Open(db)' => LookedAfter(db, todo) \/ (Open(db) /\ (db \in excused => db \in excused')),
           Makes(s) => \A db \in Dbs : db = NextCall(s).on /\ Open(db)' => LookedAfter(db, todo),
           RecordsTrue'
    PROVE  AdminInv'
<1>1. Shaped'
  BY TasksStand DEF AdminInv, Shaped, IsServer
<1>2. tasks'[s] = todo /\ \A x \in Slots : x # s => tasks'[x] = tasks[x]
  BY TasksStand DEF AdminInv
<1>3. \A x \in Slots : Makes(x) /\ x # s => Makes(x)' /\ NextCall(x)' = NextCall(x)
  BY <1>2 DEF Makes, Busy, NextCall
<1>4. ASSUME NEW db \in Dbs, LookedAfter(db, todo) PROVE db \in excused' \/ (Makes(s)' /\ NextCall(s)'.on = db)
  BY <1>2, <1>4 DEF LookedAfter, Makes, Busy, NextCall
<1>5. ASSUME NEW db \in Dbs, Open(db)' PROVE db \in excused' \/ \E x \in Slots : Makes(x)' /\ NextCall(x)'.on = db
  <2>1. CASE LookedAfter(db, todo)
    BY <1>4, <2>1
  <2>2. CASE ~LookedAfter(db, todo)
    <3>1. Open(db) /\ (db \in excused => db \in excused')
      BY <1>5, <2>2
    <3>2. db \in excused \/ \E x \in Slots : Makes(x) /\ NextCall(x).on = db
      BY <3>1 DEF AdminInv, Tended
    <3>3. ASSUME NEW x \in Slots, Makes(x), NextCall(x).on = db PROVE x # s
      BY <1>5, <2>2, <3>3
    <3>4. QED
      BY <1>3, <3>1, <3>2, <3>3
  <2>3. QED
    BY <2>1, <2>2
<1>6. Tended'
  BY <1>5 DEF Tended
<1>7. QED
  BY <1>1, <1>6 DEF AdminInv

LEMMA ServerKnown == AdminInv => IsServer(server)
  BY DEF AdminInv, Shaped, IsServer

LEMMA RecordsStay ==
    ASSUME AdminInv, settings'.recorded = settings.recorded, unsure \subseteq unsure',
           \A db \in Dbs : \/ (server'[db].policy = server[db].policy /\ (server[db].exists => server'[db].exists))
                          \/ (server'[db] = Absent /\ db \in unsure')
    PROVE  RecordsTrue'
<1>1. Absent.policy = {}
  BY DEF Absent
<1>2. ASSUME NEW db \in Dbs
      PROVE  /\ server'[db].exists \/ server'[db].policy = {}
             /\ settings'.recorded[db] = {} \/ db \in unsure' \/ server'[db].policy = settings'.recorded[db]
  BY <1>1 DEF AdminInv, RecordsTrue
<1>3. QED
  BY <1>2 DEF RecordsTrue

\* A call that leaves the databases alone.
LEMMA ServerLeft ==
    ASSUME AdminInv, NEW s \in Slots, NEW todo, IsList(todo), Goto(s, todo), ~Makes(s), Kept(settings'), Kept(disk'),
           settings'.recorded = settings.recorded, server' = server, excused \subseteq excused', unsure \subseteq unsure'
    PROVE  AdminInv'
<1>1. RecordsTrue'
  BY RecordsStay
<1>2. \A db \in Dbs : Open(db)' => Open(db) /\ (db \in excused => db \in excused')
  BY DEF Open
<1>3. QED
  BY <1>1, <1>2, ServerKnown, ServerStep

\* A call that changes one.
LEMMA OneDatabase ==
    ASSUME AdminInv, NEW s \in Slots, NEW todo, IsList(todo), Goto(s, todo), Kept(settings'), Kept(disk'),
           settings'.recorded = settings.recorded,
           NEW d, NEW X, server' = [server EXCEPT ![d] = X], excused \ {d} \subseteq excused', unsure \subseteq unsure',
           d \in Dbs => /\ ADatabase(X)
                        /\ \/ (X.policy = server[d].policy /\ (server[d].exists => X.exists))
                           \/ (X = Absent /\ d \in unsure')
                        /\ (X.exists /\ ~X.secured) =>
                             LookedAfter(d, todo) \/ (~Makes(s) /\ Open(d) /\ (d \in excused => d \in excused')),
           Makes(s) => NextCall(s).on = d
    PROVE  AdminInv'
<1>1. PICK f : f = server'
  OBVIOUS
<1>2. IsServer(f) /\ \A db \in Dbs : f[db] = IF db = d THEN X ELSE server[db]
  <2>1. IsServer(server) /\ (d \in Dbs => ADatabase(X)) /\ Changed(d, X)
    BY ServerKnown DEF Changed
  <2>2. IsServer(server') /\ \A db \in Dbs : server'[db] = IF db = d THEN X ELSE server[db]
    BY <2>1, OneChanged
  <2>3. QED
    BY <1>1, <2>2
<1>3. \A db \in Dbs : \/ (f[db].policy = server[db].policy /\ (server[db].exists => f[db].exists))
                       \/ (f[db] = Absent /\ db \in unsure')
  BY <1>2
<1>4. RecordsTrue'
  BY <1>1, <1>3, RecordsStay
<1>5. ASSUME NEW db \in Dbs, Open(db)'
      PROVE  LookedAfter(db, todo) \/ (~(Makes(s) /\ db = NextCall(s).on) /\ Open(db) /\ (db \in excused => db \in excused'))
  <2>1. f[db].exists /\ ~f[db].secured
    BY <1>1, <1>5 DEF Open
  <2>2. CASE db = d
    BY <1>2, <2>1, <2>2
  <2>3. CASE db # d
    BY <1>2, <2>1, <2>3 DEF Open
  <2>4. QED
    BY <2>2, <2>3
<1>6. QED
  BY <1>1, <1>2, <1>4, <1>5, ServerStep

LEMMA CreateDbStep == ASSUME AdminInv, NEW s \in Slots, CreateDb(s) PROVE AdminInv'
<1>1. At(s, "create") /\ UNCHANGED <<settings, disk, unsure>>
  BY DEF CreateDb, held
<1>2. ~Makes(s) /\ IsList(Tail(tasks[s])) /\ IsList(<<>>) /\ Kept(settings') /\ Kept(disk')
  BY <1>1, AtCall
<1>3. PICK db, made, rest : db = NextCall(s).on /\ made = ~server[db].exists /\ rest = Tail(tasks[s])
  OBVIOUS
<1>4. PICK next : next = Call(IF made THEN "secureNew" ELSE "secure", db, NextCall(s).who)
  OBVIOUS
<1>5. next.on = db /\ next.do = IF made THEN "secureNew" ELSE "secure"
  BY <1>4 DEF Call
<1>6. <<next>> \o rest # <<>> /\ Head(<<next>> \o rest) = next /\ IsList(<<next>> \o rest)
  BY <1>2, <1>3, First
<1>7. \/ ~made /\ Goto(s, <<next>> \o rest) /\ UNCHANGED <<server, excused>>
      \/ made /\ Goto(s, <<next>> \o rest) /\ server' = [server EXCEPT ![db] = NewDb] /\ excused' = excused
      \/ AfterRefusal(s) /\ UNCHANGED <<server, excused>>
      \/ Goto(s, <<>>) /\ UNCHANGED <<server, excused>>
      \/ made /\ Goto(s, <<>>) /\ server' = [server EXCEPT ![db] = NewDb] /\ excused' = excused \cup {db}
  BY <1>1, <1>3, <1>4 DEF CreateDb, Raise
<1>8. CASE server' = server /\ excused' = excused
  <2>1. PICK todo : IsList(todo) /\ Goto(s, todo)
    BY <1>1, <1>2, <1>6, <1>7, AtCall
  <2>2. QED
    BY <1>1, <1>2, <1>8, <2>1, ServerLeft
<1>9. CASE ~(server' = server /\ excused' = excused)
  <2>1. /\ made /\ server' = [server EXCEPT ![db] = NewDb]
        /\ \/ Goto(s, <<next>> \o rest) /\ excused' = excused
           \/ Goto(s, <<>>) /\ excused' = excused \cup {db}
    BY <1>7, <1>9
  <2>2. excused \subseteq excused'
    BY <2>1
  <2>3. PICK todo : IsList(todo) /\ Goto(s, todo) /\ LookedAfter(db, todo)
    <3>1. CASE Goto(s, <<next>> \o rest)
      BY <1>5, <1>6, <2>1, <3>1 DEF LookedAfter
    <3>2. CASE Goto(s, <<>>) /\ excused' = excused \cup {db}
      BY <1>2, <3>2 DEF LookedAfter
    <3>3. QED
      BY <2>1, <3>1, <3>2
  <2>4. db \in Dbs => NewDb.policy = server[db].policy /\ ~server[db].exists
    BY <1>3, <2>1, DatabaseParts DEF AdminInv, RecordsTrue
  <2>5. QED
    BY <1>1, <1>2, <2>1, <2>2, <2>3, <2>4, DatabaseParts, OneDatabase
<1>10. QED
  BY <1>8, <1>9

\* A database given its list is looked after.
LEMMA Secures ==
    ASSUME AdminInv, NEW s \in Slots, NEW todo, IsList(todo), Goto(s, todo), Kept(settings'), Kept(disk'),
           settings'.recorded = settings.recorded, NEW d, Makes(s) => NextCall(s).on = d,
           NEW users, server' = [server EXCEPT ![d] = Secured(@, users)],
           excused \ {d} \subseteq excused', unsure \subseteq unsure'
    PROVE  AdminInv'
<1>1. PICK X : X = Secured(server[d], users)
  OBVIOUS
<1>2. d \in Dbs => ADatabase(server[d])
  BY DEF AdminInv, Shaped
<1>3. d \in Dbs => ADatabase(X) /\ X.policy = server[d].policy /\ X.exists = server[d].exists /\ X.secured
  <2>1. PICK x : x = server[d]
    OBVIOUS
  <2>2. X = Secured(x, users) /\ (d \in Dbs => ADatabase(x))
    BY <1>1, <1>2, <2>1
  <2>3. ADatabase(x) => ADatabase(Secured(x, users)) /\ Secured(x, users).policy = x.policy
                        /\ Secured(x, users).exists = x.exists /\ Secured(x, users).secured
    BY ZenonT(60), DatabaseParts
  <2>4. QED
    BY <2>1, <2>2, <2>3
<1>4. server' = [server EXCEPT ![d] = X]
  BY <1>1
<1>5. QED
  BY <1>3, <1>4, OneDatabase

\* A database taken away.
LEMMA Removes ==
    ASSUME AdminInv, NEW s \in Slots, NEW todo, IsList(todo), Goto(s, todo), Kept(settings'), Kept(disk'),
           settings'.recorded = settings.recorded, NEW d, Makes(s) => NextCall(s).on = d,
           server' = [server EXCEPT ![d] = Absent],
           excused \ {d} \subseteq excused', unsure' = unsure \cup {d}
    PROVE  AdminInv'
  BY DatabaseParts, OneDatabase

LEMMA SecureDbStep == ASSUME AdminInv, NEW s \in Slots, SecureDb(s) PROVE AdminInv'
<1>1. (At(s, "secure") \/ At(s, "secureNew")) /\ UNCHANGED <<settings, disk, unsure>>
  BY DEF SecureDb, held
<1>2. /\ Busy(s) /\ IsList(Tail(tasks[s])) /\ IsList(<<>>) /\ Kept(settings') /\ Kept(disk')
      /\ AfterRefusal(s) => \E todo : IsList(todo) /\ Goto(s, todo)
  BY <1>1, AtCall
<1>3. PICK db, users : db = NextCall(s).on /\ users = NextCall(s).who
  OBVIOUS
<1>4. \/ /\ server' = [server EXCEPT ![db] = Secured(@, users)] /\ excused' = excused \ {db}
         /\ Goto(s, Tail(tasks[s])) \/ Goto(s, <<>>)
      \/ UndoCreation(s) /\ UNCHANGED <<server, excused>>
      \/ Goto(s, <<>>) /\ server' = server /\ excused' = excused \cup {db}
  BY <1>3 DEF SecureDb, Advance, Raise
<1>5. CASE server' = [server EXCEPT ![db] = Secured(@, users)] /\ excused' = excused \ {db} /\ (Goto(s, Tail(tasks[s])) \/ Goto(s, <<>>))
  BY <1>1, <1>2, <1>3, <1>5, Secures
<1>6. ASSUME NEW todo, IsList(todo), Goto(s, todo), server' = server, excused \subseteq excused', LookedAfter(db, todo) PROVE AdminInv'
  <2>1. RecordsTrue'
    BY <1>1, <1>6, RecordsStay
  <2>2. \A d \in Dbs : Open(d)' => Open(d)
    BY <1>6 DEF Open
  <2>3. IsServer(server')
    BY <1>6, ServerKnown
  <2>4. QED
    BY <1>2, <1>3, <1>6, <2>1, <2>2, <2>3, ServerStep
<1>7. CASE Goto(s, <<>>) /\ server' = server /\ excused' = excused \cup {db}
  BY <1>2, <1>6, <1>7 DEF LookedAfter
<1>8. CASE UndoCreation(s) /\ UNCHANGED <<server, excused>>
  <2>1. CASE NextCall(s).do = "secureNew"
    <3>1. PICK next, rest : next = Call("rollback", db, {}) /\ rest = Tail(tasks[s])
      OBVIOUS
    <3>2. Goto(s, <<next>> \o rest)
      BY <1>3, <1>8, <2>1, <3>1 DEF UndoCreation
    <3>3. <<next>> \o rest # <<>> /\ Head(<<next>> \o rest) = next /\ IsList(<<next>> \o rest)
      BY <1>2, <3>1, First
    <3>4. LookedAfter(db, <<next>> \o rest)
      BY <3>1, <3>3 DEF LookedAfter, Call
    <3>5. QED
      BY <1>6, <1>8, <3>2, <3>3, <3>4
  <2>2. CASE NextCall(s).do # "secureNew"
    <3>1. AfterRefusal(s) /\ At(s, "secure")
      BY <1>1, <1>8, <2>2 DEF UndoCreation, At
    <3>2. PICK todo : IsList(todo) /\ Goto(s, todo)
      BY <1>2, <3>1
    <3>3. ~Makes(s)
      BY <3>1, AtCall
    <3>4. QED
      BY <1>1, <1>2, <1>8, <3>2, <3>3, ServerLeft
  <2>3. QED
    BY <2>1, <2>2
<1>9. QED
  BY <1>4, <1>5, <1>7, <1>8

LEMMA RollbackStep == ASSUME AdminInv, NEW s \in Slots, Rollback(s) PROVE AdminInv'
<1>1. At(s, "rollback") /\ UNCHANGED <<settings, disk>> /\ unsure' = unsure \cup {NextCall(s).on}
  BY DEF Rollback, held
<1>2. PICK db : db = NextCall(s).on
  OBVIOUS
<1>3. Kept(settings') /\ Kept(disk') /\ Busy(s)
  BY <1>1, AtCall
<1>4. PICK todo : IsList(todo) /\ Goto(s, todo)
  BY <1>1, AtCall DEF Rollback, Raise
<1>5. \/ server' = [server EXCEPT ![db] = Absent] /\ excused \subseteq excused'
      \/ server' = server /\ excused' = excused \cup {db}
  BY <1>2 DEF Rollback
<1>6. CASE server' = [server EXCEPT ![db] = Absent] /\ excused \subseteq excused'
  BY <1>1, <1>2, <1>3, <1>4, <1>6, Removes
<1>7. CASE server' = server /\ excused' = excused \cup {db}
  <2>1. RecordsTrue'
    BY <1>1, <1>7, RecordsStay
  <2>2. \A d \in Dbs : Open(d)' => Open(d)
    BY <1>7 DEF Open
  <2>3. LookedAfter(db, todo)
    BY <1>7 DEF LookedAfter
  <2>4. IsServer(server')
    BY <1>7, ServerKnown
  <2>5. QED
    BY <1>2, <1>3, <1>4, <1>7, <2>1, <2>2, <2>3, <2>4, ServerStep
<1>8. QED
  BY <1>5, <1>6, <1>7

LEMMA KeepSpaceStep == ASSUME AdminInv, NEW s \in Slots, KeepSpace(s) PROVE AdminInv'
<1>1. At(s, "keepSpace") /\ UNCHANGED <<disk, server, excused>> /\ Goto(s, Tail(tasks[s]))
  BY DEF KeepSpace, Advance
<1>2. ~Makes(s) /\ IsList(Tail(tasks[s])) /\ Kept(settings) /\ Kept(disk)
  BY <1>1, AtCall
<1>3. PICK on, d, R : on = NextCall(s).on /\ d = Share(on[1]) /\ R = [settings.recorded EXCEPT ![d] = {}]
  OBVIOUS
<1>4. PICK f : f = [sp \in settings.spaces |-> IF <<sp.req, sp.folder>> = on THEN [sp EXCEPT !.provisioned = TRUE] ELSE sp]
  OBVIOUS
<1>5. PICK X : X = {f[sp] : sp \in settings.spaces}
  OBVIOUS
<1>6. IsFiniteSet(X)
  BY <1>2, <1>5, FiniteImage DEF Kept
<1>7. X = {IF <<sp.req, sp.folder>> = on THEN [sp EXCEPT !.provisioned = TRUE] ELSE sp : sp \in settings.spaces}
  BY <1>4, <1>5
<1>8. settings' = [settings EXCEPT !.spaces = X, !.recorded = R]
  BY <1>3, <1>7 DEF KeepSpace
<1>9. R = [db \in Dbs |-> R[db]] /\ \A db \in Dbs : R[db] = IF db = d THEN {} ELSE settings.recorded[db]
  BY <1>2, <1>3 DEF Kept
<1>10. Kept(settings') /\ settings'.recorded = R
  BY <1>2, <1>6, <1>8, <1>9 DEF Kept
<1>11. unsure' = unsure \ {d}
  BY <1>3 DEF KeepSpace
<1>12. RecordsTrue'
  BY <1>1, <1>9, <1>10, <1>11 DEF AdminInv, RecordsTrue
<1>13. \A db \in Dbs : Open(db)' => Open(db)
  BY <1>1 DEF Open
<1>14. IsServer(server')
  BY <1>1, ServerKnown
<1>15. QED
  BY <1>1, <1>2, <1>10, <1>12, <1>13, <1>14, ServerStep

LEMMA WriteMemberSyncStep == ASSUME AdminInv, NEW s \in Slots, WriteMemberSync(s) PROVE AdminInv'
<1>1. At(s, "shares") /\ UNCHANGED <<settings, disk, server, excused, unsure>>
  BY DEF WriteMemberSync, held
<1>2. ~Makes(s) /\ IsList(Tail(tasks[s])) /\ Kept(settings') /\ Kept(disk')
  BY <1>1, AtCall
<1>3. \E x : Goto(s, <<x>> \o Tail(tasks[s]))
  BY DEF WriteMemberSync
<1>4. PICK todo : IsList(todo) /\ Goto(s, todo)
  BY <1>2, <1>3, First
<1>5. QED
  BY <1>1, <1>2, <1>4, OwnStep

LEMMA PutSharesStep == ASSUME AdminInv, NEW s \in Slots, PutShares(s) PROVE AdminInv'
<1>1. At(s, "putShares") /\ UNCHANGED <<settings, disk, excused, unsure>>
  BY DEF PutShares, held
<1>2. ~Makes(s) /\ Kept(settings') /\ Kept(disk')
  BY <1>1, AtCall
<1>3. PICK d, L : d = Mirror(NextCall(s).on) /\ L = NextCall(s).who
  OBVIOUS
<1>4. server' = server \/ server' = [server EXCEPT ![d].shares = L]
  BY <1>3 DEF PutShares
<1>5. PICK todo : IsList(todo) /\ Goto(s, todo)
  BY <1>1, AtCall DEF PutShares, Advance, Raise
<1>6. PICK X : X = [server[d] EXCEPT !.shares = L]
  OBVIOUS
<1>7. CASE server' = [server EXCEPT ![d].shares = L]
  <2>1. PICK x : x = server[d] /\ X = [x EXCEPT !.shares = L] /\ (d \in Dbs => ADatabase(x))
    BY <1>6 DEF AdminInv, Shaped
  <2>2. ADatabase(x) => /\ ADatabase([x EXCEPT !.shares = L]) /\ [x EXCEPT !.shares = L].policy = x.policy
                        /\ [x EXCEPT !.shares = L].exists = x.exists /\ [x EXCEPT !.shares = L].secured = x.secured
    BY DatabaseParts
  <2>3. d \in Dbs => ADatabase(X) /\ X.policy = server[d].policy /\ X.exists = server[d].exists /\ X.secured = server[d].secured
    BY <2>1, <2>2
  <2>4. server' = [server EXCEPT ![d] = X]
    BY <1>6, <1>7
  <2>5. d \in Dbs /\ X.exists /\ ~X.secured => Open(d)
    BY <2>3 DEF Open
  <2>6. QED
    BY <1>1, <1>2, <1>5, <2>3, <2>4, <2>5, OneDatabase
<1>8. CASE server' = server
  BY <1>1, <1>2, <1>5, <1>8, ServerLeft
<1>9. QED
  BY <1>4, <1>7, <1>8

LEMMA PutPolicyStep == ASSUME AdminInv, NEW s \in Slots, PutValidateDesignDoc(s) PROVE AdminInv'
<1>1. At(s, "policy") /\ UNCHANGED <<settings, disk, excused>>
  BY DEF PutValidateDesignDoc, held
<1>2. ~Makes(s) /\ IsList(Tail(tasks[s])) /\ Kept(settings') /\ Kept(disk')
  BY <1>1, AtCall
<1>3. PICK d, P : d = NextCall(s).on /\ P = {NextCall(s).who}
  OBVIOUS
<1>4. PICK X : X = [server[d] EXCEPT !.policy = P]
  OBVIOUS
<1>5. /\ \/ server' = server /\ unsure' = unsure
         \/ server[d].exists /\ server' = [server EXCEPT ![d] = X] /\ unsure' = unsure \cup {d}
      /\ Goto(s, Tail(tasks[s])) \/ \E x : Goto(s, <<x>> \o Tail(tasks[s]))
  BY <1>3, <1>4 DEF PutValidateDesignDoc, Advance
<1>6. PICK todo : IsList(todo) /\ Goto(s, todo)
  BY <1>2, <1>5, First
<1>7. d \in Dbs => ADatabase(X) /\ X.exists = server[d].exists /\ X.secured = server[d].secured
  <2>1. PICK x : x = server[d] /\ X = [x EXCEPT !.policy = P] /\ (d \in Dbs => ADatabase(x))
    BY <1>4 DEF AdminInv, Shaped
  <2>2. ADatabase(x) => /\ ADatabase([x EXCEPT !.policy = P])
                        /\ [x EXCEPT !.policy = P].exists = x.exists /\ [x EXCEPT !.policy = P].secured = x.secured
    BY DEF ADatabase
  <2>3. QED
    BY <2>1, <2>2
<1>8. CASE server' = server /\ unsure' = unsure
  BY <1>1, <1>2, <1>6, <1>8, ServerLeft
<1>9. CASE server[d].exists /\ server' = [server EXCEPT ![d] = X] /\ unsure' = unsure \cup {d}
  <2>1. IsServer(server') /\ \A db \in Dbs : server'[db] = IF db = d THEN X ELSE server[db]
    <3>1. IsServer(server) /\ (d \in Dbs => ADatabase(X)) /\ Changed(d, X)
      BY <1>7, <1>9, ServerKnown DEF Changed
    <3>2. QED
      BY <3>1, OneChanged
  <2>2. \A db \in Dbs : /\ server[db].exists \/ server[db].policy = {}
                        /\ settings.recorded[db] = {} \/ db \in unsure \/ server[db].policy = settings.recorded[db]
    BY DEF AdminInv, RecordsTrue
  <2>3. ASSUME NEW db \in Dbs
        PROVE  /\ server'[db].exists \/ server'[db].policy = {}
               /\ settings'.recorded[db] = {} \/ db \in unsure' \/ server'[db].policy = settings'.recorded[db]
    BY <1>1, <1>7, <1>9, <2>1, <2>2
  <2>4. RecordsTrue'
    BY <2>3 DEF RecordsTrue
  <2>5. \A db \in Dbs : Open(db)' => Open(db)
    BY <1>7, <2>1 DEF Open
  <2>6. QED
    BY <1>1, <1>2, <1>6, <2>1, <2>4, <2>5, ServerStep
<1>10. QED
  BY <1>5, <1>8, <1>9

LEMMA RecordStep == ASSUME AdminInv, NEW s \in Slots, RecordPolicy(s) PROVE AdminInv'
<1>1. At(s, "record") /\ UNCHANGED <<disk, server, excused>>
  BY DEF RecordPolicy
<1>2. /\ ~Makes(s) /\ IsList(Tail(tasks[s])) /\ IsList(MustSave(Tail(tasks[s])))
      /\ Kept(settings) /\ Kept(disk')
  BY <1>1, AtCall
<1>3. PICK d, P : d = NextCall(s).on /\ P = {NextCall(s).who}
  OBVIOUS
<1>4. PICK R : R = [settings.recorded EXCEPT ![d] = P]
  OBVIOUS
<1>5. PICK todo : IsList(todo) /\ Goto(s, todo)
  BY <1>2 DEF RecordPolicy, Advance
<1>6. \/ settings' = settings /\ unsure' = unsure
      \/ /\ settings' = [settings EXCEPT !.recorded = R]
         /\ unsure' = IF server[d].policy = P THEN unsure \ {d} ELSE unsure \cup {d}
  BY <1>3, <1>4 DEF RecordPolicy
<1>7. CASE settings' = settings /\ unsure' = unsure
  BY <1>1, <1>2, <1>5, <1>7, ServerLeft
<1>8. CASE /\ settings' = [settings EXCEPT !.recorded = R]
           /\ unsure' = IF server[d].policy = P THEN unsure \ {d} ELSE unsure \cup {d}
  <2>1. R = [db \in Dbs |-> R[db]] /\ \A db \in Dbs : R[db] = IF db = d THEN P ELSE settings.recorded[db]
    BY <1>2, <1>4 DEF Kept
  <2>2. Kept(settings') /\ settings'.recorded = R
    BY <1>2, <1>8, <2>1 DEF Kept
  <2>3. \A db \in Dbs : /\ server[db].exists \/ server[db].policy = {}
                        /\ settings.recorded[db] = {} \/ db \in unsure \/ server[db].policy = settings.recorded[db]
    BY DEF AdminInv, RecordsTrue
  <2>4. ASSUME NEW db \in Dbs
        PROVE  /\ server'[db].exists \/ server'[db].policy = {}
               /\ settings'.recorded[db] = {} \/ db \in unsure' \/ server'[db].policy = settings'.recorded[db]
    <3>1. CASE db = d
      BY <1>1, <1>8, <2>1, <2>2, <2>3, <3>1
    <3>2. CASE db # d
      BY <1>1, <1>8, <2>1, <2>2, <2>3, <3>2
    <3>3. QED
      BY <3>1, <3>2
  <2>5. RecordsTrue'
    BY <2>4 DEF RecordsTrue
  <2>6. IsServer(server') /\ \A db \in Dbs : Open(db)' => Open(db)
    BY <1>1, ServerKnown DEF Open
  <2>7. QED
    BY <1>1, <1>2, <1>5, <2>2, <2>5, <2>6, ServerStep
<1>9. QED
  BY <1>6, <1>7, <1>8

LEMMA GrantStep == ASSUME AdminInv, NEW s \in Slots, Grant(s) PROVE AdminInv'
<1>1. At(s, "grant") /\ UNCHANGED <<settings, disk, unsure>>
  BY DEF Grant, held
<1>2. ~Makes(s) /\ Kept(settings') /\ Kept(disk')
  BY <1>1, AtCall
<1>3. PICK todo : IsList(todo) /\ Goto(s, todo)
  BY <1>1, AtCall DEF Grant, Advance, Raise
<1>4. PICK d, users : /\ d = NextCall(s).on
                      /\ users = IF d[1] = "mirror" THEN accountsOf(settings, d[2])
                                 ELSE UNION {SpaceUsers(settings, sp) : sp \in {x \in settings.spaces : x.req = d[2]}}
  OBVIOUS
<1>5. \/ server' = server /\ excused' = excused
      \/ server' = server /\ ~server[d].exists /\ excused' = excused \ {d}
      \/ server' = [server EXCEPT ![d] = Secured(@, users)] /\ excused' \in {excused, excused \ {d}}
  BY <1>4 DEF Grant
<1>6. CASE server' = server /\ excused' = excused
  BY <1>1, <1>2, <1>3, <1>6, ServerLeft
<1>7. CASE server' = server /\ ~server[d].exists /\ excused' = excused \ {d}
  <2>1. RecordsTrue'
    BY <1>1, <1>7, RecordsStay
  <2>2. \A db \in Dbs : Open(db)' => Open(db) /\ db # d
    BY <1>7 DEF Open
  <2>3. IsServer(server')
    BY <1>7, ServerKnown
  <2>4. QED
    BY <1>2, <1>3, <1>7, <2>1, <2>2, <2>3, ServerStep
<1>8. CASE server' = [server EXCEPT ![d] = Secured(@, users)] /\ excused' \in {excused, excused \ {d}}
  BY <1>1, <1>2, <1>3, <1>8, Secures
<1>9. QED
  BY <1>5, <1>6, <1>7, <1>8

LEMMA DropDbStep == ASSUME AdminInv, NEW s \in Slots, DropDb(s) PROVE AdminInv'
<1>1. /\ At(s, "dropDb") /\ UNCHANGED <<settings, disk>> /\ unsure' = unsure \cup {NextCall(s).on}
      /\ excused' = {d \in excused : server'[d].exists}
  BY DEF DropDb, held
<1>2. ~Makes(s) /\ Kept(settings') /\ Kept(disk')
  BY <1>1, AtCall
<1>3. PICK todo : IsList(todo) /\ Goto(s, todo)
  BY <1>1, AtCall DEF DropDb, Advance, Raise
<1>4. PICK d : d = NextCall(s).on
  OBVIOUS
<1>5. server' = server \/ server' = [server EXCEPT ![d] = Absent]
  BY <1>4 DEF DropDb
<1>6. IsServer(server') /\ \A db \in Dbs : server'[db] = server[db] \/ (server'[db] = Absent /\ db = d)
  <2>1. CASE server' = server
    BY <2>1, ServerKnown
  <2>2. CASE server' = [server EXCEPT ![d] = Absent]
    <3>1. Changed(d, Absent) /\ ADatabase(Absent) /\ IsServer(server)
      BY <2>2, ServerKnown, DatabaseParts DEF Changed
    <3>2. QED
      BY <3>1, OneChanged
  <2>3. QED
    BY <1>5, <2>1, <2>2
<1>7. RecordsTrue'
  BY <1>1, <1>4, <1>6, RecordsStay
<1>8. ~Absent.exists
  BY DatabaseParts
<1>9. \A db \in Dbs : Open(db)' => Open(db) /\ (db \in excused => db \in excused')
  BY <1>1, <1>6, <1>8 DEF Open
<1>10. QED
  BY <1>2, <1>3, <1>6, <1>7, <1>9, ServerStep

----------------------------------------------------------------------------
(* Cards and spaces.                                                         *)

LEMMA Fewer == ASSUME NEW s, IsList(s), NEW index \in DOMAIN s PROVE IsList(RemoveAt(s, index))
<1>1. PICK S : s \in Seq(S)
  BY DEF IsList
<1>2. PICK n \in Nat : n = Len(s) /\ index \in 1..n
  BY <1>1
<1>3. SubSeq(s, 1, index - 1) \in Seq(S) /\ SubSeq(s, index + 1, Len(s)) \in Seq(S)
  BY <1>1, <1>2
<1>4. SubSeq(s, 1, index - 1) \o SubSeq(s, index + 1, Len(s)) \in Seq(S)
  BY <1>3
<1>5. QED
  BY <1>4 DEF IsList, RemoveAt

LEMMA WithoutKept ==
    ASSUME NEW st, Kept(st), NEW index
    PROVE  Kept(Without(st, index)) /\ Without(st, index).recorded = st.recorded
<1>1. PICK gone : gone = {st.members[i] : i \in DOMAIN st.members \cap {index}}
  OBVIOUS
<1>2. PICK L : L = IF gone = {} THEN st.members ELSE RemoveAt(st.members, index)
  OBVIOUS
<1>3. IsList(L)
  <2>1. CASE gone = {}
    BY <1>2, <2>1 DEF Kept
  <2>2. CASE gone # {}
    <3>1. index \in DOMAIN st.members
      BY <1>1, <2>2
    <3>2. QED
      BY <1>2, <2>2, <3>1, Fewer DEF Kept
  <2>3. QED
    BY <2>1, <2>2
<1>4. PICK a, b, c : a = st.named \ gone /\ b = st.provisioned \ gone /\ c = st.devices \ gone
  OBVIOUS
<1>5. Without(st, index) = [st EXCEPT !.members = L, !.named = a, !.provisioned = b, !.devices = c]
  BY <1>1, <1>2, <1>4 DEF Without
<1>6. QED
  BY <1>3, <1>5 DEF Kept

LEMMA RemoveMemberStep == ASSUME AdminInv, NEW s \in Slots, RemoveMember(s) PROVE AdminInv'
<1>1. /\ At(s, "removeMember") /\ UNCHANGED <<server, excused, unsure>> /\ Goto(s, Tail(tasks[s]))
      /\ settings' = Without(settings, NextCall(s).on) /\ disk' = settings'
  BY DEF RemoveMember, Save, Advance
<1>2. ~Makes(s) /\ IsList(Tail(tasks[s])) /\ Kept(settings)
  BY <1>1, AtCall
<1>3. Kept(settings') /\ settings'.recorded = settings.recorded
  BY <1>1, <1>2, WithoutKept
<1>4. QED
  BY <1>1, <1>2, <1>3, OwnStep

LEMMA RemoveSpaceStep == ASSUME AdminInv, NEW s \in Slots, RemoveSpace(s) PROVE AdminInv'
<1>1. /\ At(s, "removeSpace") \/ At(s, "takeBack")
      /\ UNCHANGED <<server, excused, unsure>> /\ Goto(s, Tail(tasks[s])) /\ disk' = settings'
      /\ settings' = [settings EXCEPT !.spaces = {sp \in @ : sp.req # NextCall(s).on}]
  BY DEF RemoveSpace, Save, Advance
<1>2. ~Makes(s) /\ IsList(Tail(tasks[s])) /\ Kept(settings)
  BY <1>1, AtCall
<1>3. PICK X : X = {sp \in settings.spaces : sp.req # NextCall(s).on}
  OBVIOUS
<1>4. IsFiniteSet(X) /\ settings' = [settings EXCEPT !.spaces = X]
  BY <1>1, <1>2, <1>3, FS_Subset DEF Kept
<1>5. Kept(settings') /\ settings'.recorded = settings.recorded
  BY <1>2, <1>4, KeptChanges
<1>6. QED
  BY <1>1, <1>2, <1>5, OwnStep

LEMMA ClearStateStep == ASSUME AdminInv, NEW s \in Slots, ClearState(s) PROVE AdminInv'
<1>1. (At(s, "clear") \/ At(s, "clearAll")) /\ UNCHANGED <<server, excused>> /\ Goto(s, Tail(tasks[s])) /\ disk' = settings'
  BY DEF ClearState, Save, Advance
<1>2. ~Makes(s) /\ IsList(Tail(tasks[s])) /\ Kept(settings)
  BY <1>1, AtCall
<1>3. PICK kept : /\ settings' = Forgotten(kept)
                  /\ kept = IF NextCall(s).do = "clear"
                            THEN [settings EXCEPT !.spaces = {[sp EXCEPT !.provisioned = FALSE] : sp \in @}]
                            ELSE [settings EXCEPT !.members = <<>>, !.named = {}, !.devices = {}, !.spaces = {}]
  BY DEF ClearState, Save
<1>4. Kept(kept)
  <2>1. CASE NextCall(s).do = "clear"
    <3>1. PICK f : f = [sp \in settings.spaces |-> [sp EXCEPT !.provisioned = FALSE]]
      OBVIOUS
    <3>2. PICK X : X = {f[sp] : sp \in settings.spaces}
      OBVIOUS
    <3>3. IsFiniteSet(X)
      BY <1>2, <3>2, FiniteImage DEF Kept
    <3>4. X = {[sp EXCEPT !.provisioned = FALSE] : sp \in settings.spaces}
      BY <3>1, <3>2
    <3>5. kept = [settings EXCEPT !.spaces = X]
      BY <1>3, <2>1, <3>4
    <3>6. QED
      BY <1>2, <3>3, <3>5, KeptChanges
  <2>2. CASE NextCall(s).do # "clear"
    <3>1. kept = [settings EXCEPT !.members = <<>>, !.named = {}, !.devices = {}, !.spaces = {}]
      BY <1>3, <2>2
    <3>2. IsList(<<>>) /\ IsFiniteSet({})
      BY ShortLists, FS_EmptySet
    <3>3. QED
      BY <1>2, <3>1, <3>2 DEF Kept
  <2>3. QED
    BY <2>1, <2>2
<1>5. PICK R : R = [db \in Dbs |-> {}]
  OBVIOUS
<1>6. settings' = [kept EXCEPT !.provisioned = {}, !.recorded = R]
  BY <1>3, <1>5 DEF Forgotten
<1>7. Kept(settings') /\ settings'.recorded = R
  BY <1>4, <1>5, <1>6 DEF Kept
<1>8. RecordsTrue'
  BY <1>1, <1>5, <1>7 DEF AdminInv, RecordsTrue
<1>9. \A db \in Dbs : Open(db)' => Open(db)
  BY <1>1 DEF Open
<1>10. IsServer(server')
  BY <1>1, ServerKnown
<1>11. QED
  BY <1>1, <1>2, <1>7, <1>8, <1>9, <1>10, ServerStep

LEMMA ApproveStep == ASSUME AdminInv, NEW s \in Slots, ApproveRequest(s) PROVE AdminInv'
<1>1. At(s, "approve") /\ UNCHANGED <<server, excused, unsure>>
  BY DEF ApproveRequest
<1>2. ~Makes(s) /\ IsList(Tail(tasks[s])) /\ Kept(settings) /\ Kept(disk)
  BY <1>1, AtCall
<1>3. CASE Roster(settings) = {}
  <2>1. PICK next : Goto(s, <<next>> \o Tail(tasks[s])) /\ settings' = settings /\ disk' = disk
    BY <1>3 DEF ApproveRequest, held
  <2>2. IsList(<<next>> \o Tail(tasks[s]))
    BY <1>2, First
  <2>3. QED
    BY <1>1, <1>2, <2>1, <2>2, OwnStep
<1>4. CASE Roster(settings) # {}
  <2>1. PICK space, st, a, b :
           /\ st = [settings EXCEPT !.spaces = @ \cup {space}] /\ settings' = st /\ disk' = st
           /\ Goto(s, DeployCalls(st, space) \o <<a, b>> \o Tail(tasks[s]))
    BY <1>4 DEF ApproveRequest, Save
  <2>2. PICK X : X = settings.spaces \cup {space}
    OBVIOUS
  <2>3. IsFiniteSet(X)
    BY <1>2, <2>2, FS_AddElement DEF Kept
  <2>4. Kept(st) /\ st.recorded = settings.recorded
    BY <1>2, <2>1, <2>2, <2>3, KeptChanges
  <2>5. IsList(DeployCalls(st, space)) /\ IsList(<<a, b>>)
    BY <2>4, TodoLists, ShortLists
  <2>6. IsList(DeployCalls(st, space) \o <<a, b>> \o Tail(tasks[s]))
    BY <1>2, <2>5, Concat
  <2>7. QED
    BY <1>1, <1>2, <2>1, <2>4, <2>6, OwnStep
<1>5. QED
  BY <1>3, <1>4

----------------------------------------------------------------------------
(* Commands, the member's side and the end of the process.                   *)

LEMMA CardCommands ==
    ASSUME AdminInv, NEW m, AddMember(m) \/ Provision(m) \/ InviteDevice(m) \/ RevokeDevice(m)
    PROVE  AdminInv'
<1>1. Kept(settings) /\ Kept(disk)
  BY DEF AdminInv, Shaped
<1>2. CASE AddMember(m)
  <2>1. /\ UNCHANGED <<server, excused, unsure>> /\ (\E s \in Slots : ~Busy(s)) /\ Goto(FreeSlot, <<>>)
        /\ settings' = [settings EXCEPT !.members = Append(@, m)] /\ disk' = settings'
    BY <1>2 DEF AddMember, Begin, Save
  <2>2. PICK L : L = Append(settings.members, m)
    OBVIOUS
  <2>3. IsList(L)
    <3>1. PICK S : settings.members \in Seq(S)
      BY <1>1 DEF Kept, IsList
    <3>2. settings.members \in Seq(S \cup {m}) /\ m \in S \cup {m}
      BY <3>1
    <3>3. L \in Seq(S \cup {m})
      BY <2>2, <3>2
    <3>4. QED
      BY <3>3 DEF IsList
  <2>4. settings' = [settings EXCEPT !.members = L]
    BY <2>1, <2>2
  <2>5. Kept(settings') /\ settings'.recorded = settings.recorded
    BY <1>1, <2>3, <2>4 DEF Kept
  <2>6. QED
    BY <2>1, <2>5, ShortLists, BeginStep
<1>3. CASE Provision(m)
  <2>1. /\ UNCHANGED <<disk, server, excused, unsure>> /\ (\E s \in Slots : ~Busy(s))
        /\ Goto(FreeSlot, ProvisionCalls(settings, m)) /\ settings' = [settings EXCEPT !.named = @ \cup {m}]
    BY <1>3 DEF Provision, Begin
  <2>2. PICK X : X = settings.named \cup {m}
    OBVIOUS
  <2>3. settings' = [settings EXCEPT !.named = X]
    BY <2>1, <2>2
  <2>4. Kept(settings') /\ settings'.recorded = settings.recorded /\ Kept(disk')
    BY <1>1, <2>1, <2>3 DEF Kept
  <2>5. IsList(ProvisionCalls(settings, m))
    BY <1>1, TodoLists
  <2>6. QED
    BY <2>1, <2>4, <2>5, BeginStep
<1>4. CASE InviteDevice(m)
  <2>1. /\ UNCHANGED <<settings, disk, server, excused, unsure>> /\ (\E s \in Slots : ~Busy(s))
        /\ Goto(FreeSlot, InviteDeviceCalls(m))
    BY <1>4 DEF InviteDevice, Begin, held
  <2>2. QED
    BY <1>1, <2>1, TodoLists, BeginStep
<1>5. CASE RevokeDevice(m)
  <2>1. /\ UNCHANGED <<settings, disk, server, excused, unsure>> /\ (\E s \in Slots : ~Busy(s))
        /\ Goto(FreeSlot, RevokeDeviceCalls(m))
    BY <1>5 DEF RevokeDevice, Begin, held
  <2>2. QED
    BY <1>1, <2>1, TodoLists, BeginStep
<1>6. QED
  BY <1>2, <1>3, <1>4, <1>5

LEMMA DeleteMemberStep == ASSUME AdminInv, NEW index, DeleteMember(index) PROVE AdminInv'
<1>1. Kept(settings) /\ Kept(disk)
  BY DEF AdminInv, Shaped
<1>2. PICK todo : /\ UNCHANGED <<server, excused, unsure>> /\ (\E s \in Slots : ~Busy(s)) /\ Goto(FreeSlot, todo)
                  /\ \/ UNCHANGED <<settings, disk>> /\ todo = DeleteMemberCalls(settings, index)
                     \/ settings' = Without(settings, index) /\ disk' = settings' /\ todo = << Call("restart", "all", {}) >>
  BY DEF DeleteMember, Begin, held, Save
<1>3. IsList(todo)
  BY <1>1, <1>2, TodoLists, ShortLists
<1>4. Kept(settings') /\ Kept(disk') /\ settings'.recorded = settings.recorded
  BY <1>1, <1>2, WithoutKept
<1>5. QED
  BY <1>2, <1>3, <1>4, BeginStep

LEMMA ServerCommands ==
    ASSUME AdminInv,
           (\E sp \in settings.spaces : DeployShared(sp)) \/ (\E all \in BOOLEAN : ResetServerData(all))
           \/ (\E r \in Requests : DecideRequest(r)) \/ RedeployRealtime
    PROVE  AdminInv'
<1>1. Kept(settings) /\ Kept(disk)
  BY DEF AdminInv, Shaped
<1>2. UNCHANGED <<settings, disk>>
  BY DEF DeployShared, ResetServerData, DecideRequest, RedeployRealtime, held
<1>3. PICK todo : IsList(todo) /\ Begin(todo)
  <2>1. CASE \E sp \in settings.spaces : DeployShared(sp)
    BY <1>1, <2>1, TodoLists DEF DeployShared
  <2>2. CASE \E all \in BOOLEAN : ResetServerData(all)
    BY <1>1, <2>2, TodoLists DEF ResetServerData
  <2>3. CASE \E r \in Requests : DecideRequest(r)
    BY <2>3, ShortLists DEF DecideRequest
  <2>4. CASE RedeployRealtime
    <3>1. PICK dbs : dbs = SetToSeq(Targets(settings))
      OBVIOUS
    <3>2. PICK a, b, c : /\ a = << Call("save", "all", {}) >>
                         /\ b = [i \in DOMAIN dbs |-> Call("grant", dbs[i], {})]
                         /\ c = << Call("refreshShares", "all", {}), Call("policies", "all", Dbs),
                                   Call("restart", "all", {}) >>
      OBVIOUS
    <3>3. Begin(a \o b \o c)
      BY <2>4, <3>1, <3>2 DEF RedeployRealtime
    <3>4. IsList(b)
      BY <1>1, <3>1, <3>2, FinitelyMany, CallEach
    <3>5. IsList(a) /\ IsList(c)
      BY <3>2, ShortLists
    <3>6. QED
      BY <3>3, <3>4, <3>5, Concat
  <2>5. QED
    BY <2>1, <2>2, <2>3, <2>4
<1>4. UNCHANGED <<server, excused, unsure>> /\ (\E s \in Slots : ~Busy(s)) /\ Goto(FreeSlot, todo)
  BY <1>3 DEF Begin
<1>5. QED
  BY <1>1, <1>2, <1>3, <1>4, BeginStep

LEMMA DeleteGroupStep == ASSUME AdminInv, NEW r, DeleteGroup(r) PROVE AdminInv'
<1>1. Kept(settings) /\ Kept(disk)
  BY DEF AdminInv, Shaped
<1>2. /\ UNCHANGED <<server, excused, unsure>> /\ (\E s \in Slots : ~Busy(s)) /\ Goto(FreeSlot, DeleteGroupCalls(settings, r))
      /\ settings' = [settings EXCEPT !.groups = @ \ {r}] /\ disk' = settings'
  BY DEF DeleteGroup, Begin, Save
<1>3. PICK X : X = settings.groups \ {r}
  OBVIOUS
<1>4. settings' = [settings EXCEPT !.groups = X]
  BY <1>2, <1>3
<1>5. Kept(settings') /\ settings'.recorded = settings.recorded
  BY <1>1, <1>4, KeptChanges
<1>6. IsList(DeleteGroupCalls(settings, r))
  BY <1>1, TodoLists
<1>7. QED
  BY <1>2, <1>5, <1>6, BeginStep

LEMMA StartDueStep == ASSUME AdminInv, NEW what, StartDue(what) PROVE AdminInv'
<1>1. Kept(settings) /\ Kept(disk)
  BY DEF AdminInv, Shaped
<1>2. PICK pending : pending = SetToSeq({r \in Requests : requests[r].manager.status = "pending"})
  OBVIOUS
<1>3. PICK a, b : /\ a = << Call("policies", "all", Dbs) >>
                  /\ b = [i \in DOMAIN pending |-> Call("approve", <<pending[i], requests[pending[i]].manager.rev>>, {})]
  OBVIOUS
<1>4. PICK todo : /\ todo \in {a, b} /\ UNCHANGED <<settings, disk, server, excused, unsure>>
                  /\ (\E s \in Slots : ~Busy(s)) /\ Goto(FreeSlot, todo)
  BY <1>2, <1>3 DEF StartDue, held
<1>5. IsFiniteSet({r \in Requests : requests[r].manager.status = "pending"})
  BY AdministrationAssumption, FS_Subset
<1>6. IsList(a) /\ IsList(b)
  BY <1>2, <1>3, <1>5, ShortLists, CallEach
<1>7. QED
  BY <1>1, <1>4, <1>6, BeginStep

LEMMA NothingDone ==
    ASSUME AdminInv, UNCHANGED <<settings, disk, server, tasks, excused, unsure>>
    PROVE  AdminInv'
  BY DEF AdminInv, Shaped, Tended, RecordsTrue, Open, Makes, Busy, NextCall

LEMMA EndProcessStep == ASSUME AdminInv, EndProcess PROVE AdminInv'
<1>1. /\ settings' = disk /\ disk' = disk /\ server' = server /\ tasks' = [s \in Slots |-> <<>>]
      /\ excused' = excused \cup {db \in Dbs : server[db].exists /\ ~server[db].secured}
      /\ unsure' = unsure \cup {db \in Dbs : server[db].policy # disk.recorded[db]}
  BY DEF EndProcess
<1>2. Shaped'
  BY <1>1, ShortLists DEF AdminInv, Shaped
<1>3. Tended'
  BY <1>1 DEF Tended, Open
<1>4. \A db \in Dbs : db \in unsure' \/ server[db].policy = disk.recorded[db]
  BY <1>1
<1>5. RecordsTrue'
  BY <1>1, <1>4 DEF AdminInv, RecordsTrue
<1>6. QED
  BY <1>2, <1>3, <1>5 DEF AdminInv

LEMMA AdminStarts == ASSUME AdminInit PROVE AdminInv
<1>1. Kept(settings) /\ disk = settings
  <2>1. PICK L, R : L = SetToSeq(Members) /\ R = [db \in Dbs |-> {}]
    OBVIOUS
  <2>2. IsList(L) /\ IsFiniteSet({})
    BY <2>1, AdministrationAssumption, InARow, FS_EmptySet
  <2>3. settings = [members |-> L, named |-> {}, provisioned |-> {}, devices |-> {}, spaces |-> {}, groups |-> {},
                    recorded |-> R]
    BY <2>1 DEF AdminInit
  <2>4. settings = [field \in {"members", "named", "provisioned", "devices", "spaces", "groups", "recorded"} |-> settings[field]]
    BY <2>3
  <2>5. settings.members = L /\ settings.spaces = {} /\ settings.recorded = R
    BY <2>3
  <2>6. settings.recorded = [db \in Dbs |-> settings.recorded[db]]
    BY <2>1, <2>5
  <2>7. disk = settings
    BY DEF AdminInit
  <2>8. QED
    BY <2>2, <2>4, <2>5, <2>6, <2>7 DEF Kept
<1>2. /\ server = [db \in Dbs |-> server[db]] /\ (\A db \in Dbs : server[db] = Absent)
      /\ tasks = [s \in Slots |-> tasks[s]] /\ (\A s \in Slots : tasks[s] = <<>>)
  BY DEF AdminInit
<1>3. Shaped
  BY <1>1, <1>2, DatabaseParts, ShortLists DEF Shaped
<1>4. Tended
  BY <1>2, DatabaseParts DEF Tended, Open
<1>5. \A db \in Dbs : settings.recorded[db] = {}
  BY DEF AdminInit
<1>6. RecordsTrue
  BY <1>2, <1>5 DEF RecordsTrue, Absent
<1>7. QED
  BY <1>3, <1>4, <1>6 DEF AdminInv

LEMMA AdminSteps == ASSUME AdminInv, [AdminNext]_adminVars PROVE AdminInv'
<1>1. ASSUME NEW s \in Slots, TaskStep(s) PROVE AdminInv'
  BY <1>1, EnsureUserStep, CreateDbStep, SecureDbStep, RollbackStep, KeepMemberStep, KeepSpaceStep,
     WriteMemberSyncStep, PutSharesStep, ExpandStep, PutPolicyStep, RecordStep, SaveStep, DeviceStep, GrantStep, DropDbStep, DropUserStep,
     RemoveMemberStep, RemoveSpaceStep, ClearStateStep, RestartStep, ApproveStep, SaveGroupStep DEF TaskStep
<1>2. ASSUME NEW m \in Members, AddMember(m) \/ Provision(m) \/ InviteDevice(m) \/ RevokeDevice(m) PROVE AdminInv'
  BY <1>2, CardCommands
<1>3. ASSUME NEW index, DeleteMember(index) PROVE AdminInv'
  BY <1>3, DeleteMemberStep
<1>4. CASE (\E sp \in settings.spaces : DeployShared(sp)) \/ (\E all \in BOOLEAN : ResetServerData(all)) \/ RedeployRealtime
  BY <1>4, ServerCommands
<1>5. ASSUME NEW r \in Requests, DeleteGroup(r) \/ DecideRequest(r) \/ RequestGroup(r) \/ CancelRequest(r) \/ Exchange(r)
      PROVE  AdminInv'
  <2>1. CASE DeleteGroup(r)
    BY <2>1, DeleteGroupStep
  <2>2. CASE DecideRequest(r)
    BY <2>2, ServerCommands
  <2>3. CASE RequestGroup(r) \/ CancelRequest(r) \/ Exchange(r)
    <3>1. UNCHANGED <<settings, disk, server, tasks, excused, unsure>>
      BY <2>3 DEF RequestGroup, CancelRequest, Exchange, others, held
    <3>2. QED
      BY <3>1, NothingDone
  <2>4. QED
    BY <1>5, <2>1, <2>2, <2>3
<1>6. ASSUME NEW what, StartDue(what) PROVE AdminInv'
  BY <1>6, StartDueStep
<1>7. CASE EndProcess
  BY <1>7, EndProcessStep
<1>8. CASE UNCHANGED adminVars
  BY <1>8, NothingDone DEF adminVars
<1>9. QED
  BY <1>1, <1>2, <1>3, <1>4, <1>5, <1>6, <1>7, <1>8 DEF AdminNext

\* However commands, refusals, lost calls and ends of the process overlap, no database stays
\* without a security list that nobody is about to secure or remove, unless a call about it
\* was lost or its removal refused (CouchAdmin.createDbWithSecurity).
THEOREM NothingStaysOpen == AdminSpec => []NothingLeftOpen
<1>1. AdminInit => AdminInv
  BY AdminStarts
<1>2. AdminInv /\ [AdminNext]_adminVars => AdminInv'
  BY AdminSteps
<1>3. AdminInv => NothingLeftOpen
  BY DEF AdminInv, Tended, NothingLeftOpen, Open, Makes
<1>4. QED
  BY <1>1, <1>2, <1>3, PTL DEF AdminSpec

\* What the settings record as the write policy of a database is the policy it has, unless the
\* record is in doubt (DeploymentController.redeployValidate).
THEOREM RecordsOfPoliciesStand == AdminSpec => []RecordsTrue
<1>1. AdminInit => AdminInv
  BY AdminStarts
<1>2. AdminInv /\ [AdminNext]_adminVars => AdminInv'
  BY AdminSteps
<1>3. AdminInv => RecordsTrue
  BY DEF AdminInv
<1>4. QED
  BY <1>1, <1>2, <1>3, PTL DEF AdminSpec

=============================================================================
