----------------------------- MODULE RtSessions -----------------------------
(***************************************************************************)
(* Who takes part in the real-time session of one note: the participants   *)
(* the manager names (ParticipantController), the gate and the sessions of *)
(* each device (RealtimeManager), and the admission and re-admission of    *)
(* the server (server.js, authz.js, the watcher of couch.js).              *)
(*                                                                         *)
(* The note lies in a shared space or in the personal space of one member  *)
(* (a mirror, "one-to-one").  The manager alone writes the participants    *)
(* (rtpart) and the policy; replication carries rtpart to the devices, the *)
(* policy reaches the server as rtcontrol and the devices as rtconfig.     *)
(*                                                                         *)
(* A device is a record; what a handler does to it is an operator from     *)
(* record to record, SyncedOpen above all, which ends every handler.       *)
(* Real time is switched on, every space has its token, and no token       *)
(* expires.  The text itself is in RtDocument.                             *)
(***************************************************************************)
EXTENDS Integers, Sequences

CONSTANTS
    Members,     \* the devices of the members
    Manager,     \* the device of the manager
    MaxEvents,   \* participants named, policies set, requests made, reads of the server that fail
    MaxToggles   \* times a note is opened or closed

ASSUME RtSessionsAssumption ==
    /\ Manager \notin Members
    /\ {MaxEvents, MaxToggles} \subseteq Nat

Users == Members \cup {Manager}

\* An rtpart document: none (or soft-deleted), or the members it lists.
NoPart == {}
Parts == {NoPart} \cup {{listed} : listed \in SUBSET Members}
Unread == {{Manager}}   \* a read that has not returned: no document lists the manager
ConnStates == {"none", "asked", "default", "loading", "joined", "refused", "closed"}

VARIABLES
    kind,      \* the space of the note: "share" or "mirror"
    client,    \* the devices
    misled,    \* history: the answer in the cache of this device is not the one its documents give
    part,      \* rtpart in the database of the space
    control,   \* rtcontrol.sharedReadOnly in the database of the space
    rtconfig,  \* rtconfig.sharedReadOnly in the databases of the members
    policy,    \* where setSharedReadOnly is
    request,   \* the request of a member for a one-to-one (rtrequest)
    approving, \* processMirrorRequests has this member's request in hand
    active,    \* the server has the document loaded (activeDocs)
    watch,     \* the watcher: off, reading where to start, waiting, changes to report
    blind,     \* it starts from "now": currentSeq failed
    reauth,    \* runs of reauthDocument: nothing read yet, or the rtpart read
    events, toggles   \* bounds

dbVars == <<part, control, rtconfig>>
managerVars == <<policy, request, approving>>
serverVars == <<active, watch, blind, reauth>>
bounds == <<events, toggles>>
vars == <<kind, client, misled, dbVars, managerVars, serverVars, bounds>>

----------------------------------------------------------------------------
(* What a device knows and decides                                         *)

NewClient == [open |-> FALSE, part |-> NoPart, ro |-> FALSE,
              cache |-> "unknown",   \* participantOk
              pending |-> FALSE,     \* participantPending
              lookups |-> <<>>,      \* canEditRealtime under way: not read yet, or the rtpart read
              session |-> "none",    \* none, joining, ready
              conn |-> "none",       \* its connection at the server
              old |-> "none",        \* that of a session that has ended but is not torn down
              after |-> "no",        \* endSession waits for the snapshot; what follows it
              timer |-> FALSE,       \* retryTimers: the note is to be looked at again
              locked |-> FALSE]      \* the editor is read-only

Listed(u, p) == u \in UNION p

\* canEditRealtime, from the rtpart read and the settings of the device.
CanEdit(u, p, ro) ==
    IF kind = "mirror" THEN \E listed \in p : listed # {} /\ u \in listed \cup {Manager}
    ELSE u = Manager \/ IF p # NoPart THEN Listed(u, p) ELSE ~ro

\* inBackoff: from a refusal to its timer.  In the code it is over when the delay is, and the timer,
\* armed after the last snapshot, fires a moment later.
InBackoff(c) == c.after = "retry" \/ c.timer

\* enforceReadOnly: the policy holds wherever the note belongs to a space.
Enforced(u, c) == [c EXCEPT !.locked = c.open /\ u # Manager /\ c.ro /\ c.session = "none"]

\* allowedToStart on a path without a cached answer.
Asked(c) ==
    IF c.pending THEN c
    ELSE [c EXCEPT !.pending = TRUE, !.lookups = Append(@, Unread)]

\* endSession up to the snapshot it waits for.
Ended(c, then) ==
    [c EXCEPT !.session = "none", !.conn = "none", !.old = c.conn, !.after = then]

\* startSession.
Started(c) == [c EXCEPT !.session = "joining", !.conn = "asked"]

\* presenceFor of the device is 0 while it is not ready, and at least 1 after.
OthersPresent(u) == \E v \in Users \ {u} : client[v].session = "ready" /\ client[v].conn = "joined"
Alone(u, c) == c.session = "joining" \/ ~OthersPresent(u)

\* syncOpenEditors.
SyncedOpen(u, c) ==
    LET seen == Enforced(u, c)
        closed == [seen EXCEPT !.cache = "unknown"]
    IN  CASE ~c.open /\ c.session # "none" ->
                 Ended(closed, IF kind = "mirror" /\ Alone(u, c) THEN "expire" ELSE "rest")
          [] ~c.open -> closed
          [] c.open /\ c.cache = "unknown" -> Asked(seen)
          [] c.open /\ c.cache = "no" ->
                 IF c.session # "none" THEN Enforced(u, Ended(c, "rest")) ELSE seen
          [] OTHER -> IF c.session = "none" /\ ~InBackoff(c) THEN Started(seen) ELSE seen

\* Faulty Invalidated: a lookup under way is taken for the new one.
InvalidatedInPart(u, c) == SyncedOpen(u, [c EXCEPT !.cache = "unknown"])

\* invalidateParticipants.
Invalidated(u, c) == SyncedOpen(u, [c EXCEPT !.cache = "unknown", !.pending = FALSE])

\* Bounds on timing: a session ends only after the last one is torn down, and
\* two lookups of one note are under way at most.
MayEnd(u) == client[u].after = "no"
MayAsk(u) == Len(client[u].lookups) < 2

----------------------------------------------------------------------------
Init ==
    /\ kind \in {"share", "mirror"}
    /\ client = [u \in Users |-> NewClient]
    /\ misled = [u \in Users |-> FALSE]
    /\ part = NoPart /\ control = FALSE /\ rtconfig = FALSE
    /\ policy = "idle" /\ request = {} /\ approving = {}
    /\ active = FALSE /\ watch = "off" /\ blind = FALSE /\ reauth = {}
    /\ events = 0 /\ toggles = 0

Update(u, c) == client' = [client EXCEPT ![u] = c]
Event == events < MaxEvents /\ events' = events + 1
Toggle == toggles < MaxToggles /\ toggles' = toggles + 1

\* An answer asked for anew is taken from the documents again.
Told(u) == misled' = [misled EXCEPT ![u] = FALSE]

\* A document the watcher looks at is written into the database of the space.
Reported == watch' = IF watch = "waiting" THEN "news" ELSE watch

----------------------------------------------------------------------------
(* The user                                                                *)

\* A note is opened or closed, and file-open or layout-change follows.
ToggleNote(u) ==
    /\ Toggle /\ MayEnd(u) /\ MayAsk(u)
    /\ Update(u, SyncedOpen(u, [client[u] EXCEPT !.open = ~@]))
    /\ Told(u)
    /\ UNCHANGED <<kind, dbVars, managerVars, serverVars, events>>

\* The user moves between panes: onWorkspaceChange.
WorkspaceChange(u) ==
    /\ MayEnd(u) /\ MayAsk(u)
    /\ Update(u, SyncedOpen(u, client[u]))
    /\ UNCHANGED <<kind, misled, dbVars, managerVars, serverVars, bounds>>

----------------------------------------------------------------------------
(* The manager                                                             *)

\* setFileRealtimeParticipants on the local database of the manager.
Assign(p, c) == Invalidated(Manager, [c EXCEPT !.part = p])

ManagerFree == MayEnd(Manager) /\ MayAsk(Manager)

\* setFileRealtimeParticipants from the panel; setMirrorRealtime names one
\* member or none.
NameParticipants ==
    /\ Event /\ ManagerFree
    /\ \E p \in Parts \ {client[Manager].part} :
        /\ kind = "mirror" => p = NoPart \/ \E m \in Members : p = {{m}}
        /\ Update(Manager, Assign(p, client[Manager]))
    /\ Told(Manager)
    /\ UNCHANGED <<kind, dbVars, managerVars, serverVars, toggles>>

\* setSharedReadOnly: the settings, then rtconfig for the members, then
\* rtcontrol; the editors of the manager are looked at at the end.
SetSharedReadOnly ==
    /\ Event /\ policy = "idle"
    /\ Update(Manager, [client[Manager] EXCEPT !.ro = ~@])
    /\ policy' = "config"
    /\ UNCHANGED <<kind, misled, dbVars, request, approving, serverVars, toggles>>

RefreshMemberShares ==
    /\ policy = "config"
    /\ rtconfig' = client[Manager].ro
    /\ policy' = "control"
    /\ UNCHANGED <<kind, client, misled, part, control, request, approving, serverVars, bounds>>

WriteRtControl ==
    /\ policy = "control" /\ ManagerFree
    /\ control' = client[Manager].ro
    /\ Reported
    /\ policy' = "idle"
    /\ Update(Manager, SyncedOpen(Manager, client[Manager]))
    /\ UNCHANGED <<kind, misled, part, rtconfig, request, approving, active, blind, reauth, bounds>>

\* requestMirrorRealtime: a member asks for a one-to-one, or takes it back.
RequestMirror(m) ==
    /\ kind = "mirror" /\ Event
    /\ request' = IF m \in request THEN request \ {m} ELSE request \cup {m}
    /\ UNCHANGED <<kind, client, misled, dbVars, policy, approving, serverVars, toggles>>

\* processMirrorRequests reads the requests...
ListRequests(m) ==
    /\ m \in request \ approving
    /\ approving' = approving \cup {m}
    /\ UNCHANGED <<kind, client, misled, dbVars, policy, request, serverVars, bounds>>

\* ... and grants each one it has read, whatever became of it since.
ApproveRequest(m) ==
    /\ m \in approving /\ ManagerFree
    /\ LET c == client[Manager]
       IN  Update(Manager, IF Listed(m, c.part) THEN c ELSE Assign({{m}}, c))
    /\ misled' = [misled EXCEPT ![Manager] = @ /\ Listed(m, client[Manager].part)]
    /\ approving' = approving \ {m}
    /\ request' = request \ {m}
    /\ UNCHANGED <<kind, dbVars, policy, serverVars, bounds>>

----------------------------------------------------------------------------
(* What reaches the databases and the devices                              *)

\* The link of the manager sends rtpart (notifyLocalWrite).
PushPart ==
    /\ part # client[Manager].part
    /\ part' = client[Manager].part
    /\ Reported
    /\ UNCHANGED <<kind, client, misled, control, rtconfig, managerVars, active, blind, reauth, bounds>>

\* The link of a member brings rtpart: onParticipantsChange.
PullPart(m) ==
    /\ client[m].part # part
    /\ MayEnd(m) /\ MayAsk(m)
    /\ Update(m, Invalidated(m, [client[m] EXCEPT !.part = part]))
    /\ Told(m)
    /\ UNCHANGED <<kind, dbVars, managerVars, serverVars, bounds>>

\* MemberMode.applyRtConfig: the settings change, and nobody looks at the gate.
ApplyRtConfig(m) ==
    /\ client[m].ro # rtconfig
    /\ Update(m, [client[m] EXCEPT !.ro = rtconfig])
    /\ misled' = [misled EXCEPT ![m] = client[m].open]
    /\ UNCHANGED <<kind, dbVars, managerVars, serverVars, bounds>>

----------------------------------------------------------------------------
(* The gate of a device                                                    *)

\* canEditRealtime reads the rtpart document of the device...
ReadPart(u) ==
    LET c == client[u] IN
    /\ \E i \in DOMAIN c.lookups :
        /\ c.lookups[i] = Unread
        /\ \A j \in 1..(i - 1) : c.lookups[j] # Unread
        /\ Update(u, [c EXCEPT !.lookups[i] = c.part])
    /\ UNCHANGED <<kind, misled, dbVars, managerVars, serverVars, bounds>>

Answered(u, p) ==
    LET c == client[u] IN
    SyncedOpen(u, [c EXCEPT !.lookups = Tail(@), !.pending = FALSE,
                            !.cache = IF CanEdit(u, p, c.ro) THEN "yes" ELSE "no"])

\* ... and the answer enters the cache, even if it was invalidated meanwhile.
LookupAnswers(u) ==
    /\ client[u].lookups # <<>> /\ Head(client[u].lookups) # Unread
    /\ MayEnd(u)
    /\ Update(u, Answered(u, Head(client[u].lookups)))
    /\ UNCHANGED <<kind, misled, dbVars, managerVars, serverVars, bounds>>

----------------------------------------------------------------------------
(* The session of a device                                                 *)

\* onSynced.
Synced(u) ==
    /\ client[u].session = "joining" /\ client[u].conn = "joined"
    /\ MayEnd(u) /\ MayAsk(u)
    /\ Update(u, SyncedOpen(u, [client[u] EXCEPT !.session = "ready"]))
    /\ UNCHANGED <<kind, misled, dbVars, managerVars, serverVars, bounds>>

\* onAuthenticationFailed and onClose: noteServerRefusal.  That the provider being closed may report
\* its end too, and have one more retry, is left out: a retry evaluates the note once more.
ServerRefuses(u) ==
    /\ client[u].conn \in {"refused", "closed"}
    /\ MayEnd(u)
    /\ Update(u, Ended(client[u], "retry"))
    /\ UNCHANGED <<kind, misled, dbVars, managerVars, serverVars, bounds>>

\* The timer of noteServerRefusal.
RetryTimer(u) ==
    /\ client[u].timer
    /\ MayEnd(u) /\ MayAsk(u)
    /\ Update(u, Invalidated(u, [client[u] EXCEPT !.timer = FALSE]))
    /\ Told(u)
    /\ UNCHANGED <<kind, dbVars, managerVars, serverVars, bounds>>

\* Faulty TornDown: no timer after a refusal.
TornDownForGood(c) == [c EXCEPT !.old = "none", !.after = "no"]

\* The snapshot is written: endSession destroys the provider, and what its
\* caller does next is done.  The last one out of a one-to-one ends it
\* (onMirrorSessionClosedAlone; the device of a member may not).
TornDown(c) == [c EXCEPT !.old = "none", !.after = "no", !.timer = @ \/ c.after = "retry"]

FinishEnd(u) ==
    LET c == client[u]
        expires == c.after = "expire" /\ u = Manager /\ UNION c.part # {}
    IN  /\ c.after # "no"
        /\ expires => MayAsk(u)
        /\ Update(u, IF expires THEN Assign(NoPart, TornDown(c)) ELSE TornDown(c))
        /\ misled' = [misled EXCEPT ![u] = @ /\ ~expires]
        /\ UNCHANGED <<kind, dbVars, managerVars, serverVars, bounds>>

----------------------------------------------------------------------------
(* The server                                                              *)

\* memberAllowed of authz.js.
Allowed(u, p, readOnly) ==
    u = Manager \/ kind = "mirror" \/ IF p # NoPart THEN Listed(u, p) ELSE ~readOnly

Conn(u, state) == Update(u, [client[u] EXCEPT !.conn = state])

\* authorize reads rtpart; a manager and a mirror need no document.
AuthorizePart(u) ==
    /\ client[u].conn = "asked"
    /\ Conn(u, IF Allowed(u, part, TRUE) THEN "loading"
               ELSE IF part = NoPart THEN "default" ELSE "refused")
    /\ UNCHANGED <<kind, misled, dbVars, managerVars, serverVars, bounds>>

\* No rtpart: authorize reads rtcontrol.
AuthorizeControl(u) ==
    /\ client[u].conn = "default"
    /\ Conn(u, IF Allowed(u, NoPart, control) THEN "loading" ELSE "refused")
    /\ UNCHANGED <<kind, misled, dbVars, managerVars, serverVars, bounds>>

\* A failed read of rtpart refuses the connection; one of rtcontrol counts as
\* no read-only policy.
AuthorizeFails(u) ==
    /\ Event
    /\ \/ client[u].conn = "asked" /\ ~Allowed(u, {{}}, TRUE) /\ Conn(u, "refused")
       \/ client[u].conn = "default" /\ Conn(u, "loading")
    /\ UNCHANGED <<kind, misled, dbVars, managerVars, serverVars, toggles>>

\* onLoadDocument and afterLoadDocument for the first connection, which starts
\* the watcher (not for a mirror); the connection joins the document.
Join(u) ==
    /\ client[u].conn = "loading"
    /\ Conn(u, "joined")
    /\ active' = TRUE
    /\ watch' = IF active \/ kind = "mirror" THEN watch ELSE "starting"
    /\ blind' = (blind /\ active)
    /\ UNCHANGED <<kind, misled, dbVars, managerVars, reauth, bounds>>

\* watchChanges asks where the changes stand...
WatchFrom ==
    /\ watch = "starting"
    /\ watch' = "waiting"
    /\ \/ UNCHANGED <<blind, events>>
       \/ Event /\ blind' = TRUE
    /\ UNCHANGED <<kind, client, misled, dbVars, managerVars, active, reauth, toggles>>

\* ... and reports them to onControlChange; from then on it knows its place.
WatchReports ==
    /\ watch = "news"
    /\ watch' = "waiting"
    /\ blind' = FALSE
    /\ reauth' = reauth \cup {Unread}
    /\ UNCHANGED <<kind, client, misled, dbVars, managerVars, active, bounds>>

\* A request of the watcher fails.  It asks again from the same place: nothing
\* is lost, unless that place is "now".
WatchFails ==
    /\ watch = "news" /\ blind
    /\ watch' = "waiting"
    /\ UNCHANGED <<kind, client, misled, dbVars, managerVars, active, blind, reauth, bounds>>

\* reauthDocument reads rtpart; a failed read counts as no document.
ReauthReads ==
    /\ Unread \in reauth
    /\ \E read \in {part, NoPart} :
        /\ IF read = part THEN UNCHANGED events ELSE Event
        /\ reauth' = (reauth \ {Unread}) \cup {read}
    /\ UNCHANGED <<kind, client, misled, dbVars, managerVars, active, watch, blind, toggles>>

\* connectionsToClose, applied to what is connected now.
Revoke(u, c, p, readOnly) ==
    IF Allowed(u, p, readOnly) THEN c
    ELSE [c EXCEPT !.conn = IF @ = "joined" THEN "closed" ELSE @,
                   !.old = IF @ = "joined" THEN "none" ELSE @]

\* It reads rtcontrol, a failed read counting as no policy, and closes the
\* connections that are no longer allowed.
ReauthCloses ==
    /\ \E p \in reauth \ {Unread}, readOnly \in {control, FALSE} :
        /\ IF readOnly = control THEN UNCHANGED events ELSE Event
        /\ client' = [u \in Users |-> Revoke(u, client[u], p, readOnly)]
        /\ reauth' = reauth \ {p}
    /\ UNCHANGED <<kind, misled, dbVars, managerVars, active, watch, blind, toggles>>

\* The last connection is gone: afterUnloadDocument stops the watcher, and a
\* re-authentication under way finds no document.
Unload ==
    /\ active
    /\ \A u \in Users : "joined" \notin {client[u].conn, client[u].old}
    /\ active' = FALSE /\ watch' = "off" /\ blind' = FALSE /\ reauth' = {}
    /\ UNCHANGED <<kind, client, misled, dbVars, managerVars, bounds>>

----------------------------------------------------------------------------
ManagerStep ==
    \/ RefreshMemberShares \/ WriteRtControl \/ PushPart
    \/ \E m \in Members : ListRequests(m) \/ ApproveRequest(m)

DeviceStep(u) ==
    ReadPart(u) \/ Synced(u) \/ ServerRefuses(u) \/ RetryTimer(u) \/ FinishEnd(u)

Admission(u) == AuthorizePart(u) \/ AuthorizeControl(u) \/ Join(u)

WatcherStep == WatchFrom \/ WatchReports \/ ReauthReads \/ ReauthCloses

Next ==
    \/ NameParticipants \/ SetSharedReadOnly \/ ManagerStep
    \/ \E m \in Members : RequestMirror(m) \/ PullPart(m) \/ ApplyRtConfig(m)
    \/ \E u \in Users :
        \/ ToggleNote(u) \/ WorkspaceChange(u)
        \/ LookupAnswers(u) \/ DeviceStep(u)
        \/ Admission(u) \/ AuthorizeFails(u)
    \/ WatcherStep \/ WatchFails \/ Unload

\* Writes, replication, timers and requests come to an end; users, decisions
\* and failures owe nothing.  What a bound on timing delays is not lost.
Fairness ==
    /\ WF_vars(ManagerStep) /\ WF_vars(WatcherStep)
    /\ \A m \in Members : SF_vars(PullPart(m)) /\ WF_vars(ApplyRtConfig(m))
    /\ \A u \in Users : /\ SF_vars(LookupAnswers(u)) /\ WF_vars(DeviceStep(u))
                        /\ WF_vars(Admission(u))

Spec == Init /\ [][Next]_vars /\ Fairness

----------------------------------------------------------------------------
(* Properties                                                              *)

ClientType(c) ==
    /\ {c.open, c.ro, c.pending, c.timer, c.locked} \subseteq BOOLEAN
    /\ c.part \in Parts
    /\ c.cache \in {"unknown", "yes", "no"}
    /\ Len(c.lookups) <= 2
    /\ c.session \in {"none", "joining", "ready"}
    /\ {c.conn, c.old} \subseteq ConnStates
    /\ c.after \in {"no", "rest", "retry", "expire"}
    /\ c.conn = "none" <=> c.session = "none"
    /\ c.old # "none" => c.after # "no"
    /\ c.locked => c.open

\* Every variable keeps its type; a session has a connection of its own, and
\* only a session being torn down has the old one (sessions, endSession).
TypeOK ==
    /\ \A u \in Users : ClientType(client[u])
    /\ part \in Parts /\ {control, rtconfig, active, blind} \subseteq BOOLEAN
    /\ policy \in {"idle", "config", "control"}
    /\ request \subseteq Members /\ approving \subseteq Members
    /\ watch \in {"off", "starting", "waiting", "news"}

\* What the documents of the space say of a user.
MayTakePart(u) == CanEdit(u, part, control)

InSession(u) == client[u].session # "none" \/ "joined" \in {client[u].conn, client[u].old}

\* Once decisions stop, a member the documents exclude is out of the session
\* and its editor is locked if the policy says so: whatever of admission,
\* watcher, replication and cached answers ran in which order, and though the
\* server fails to read.  A device whose settings changed under its cached
\* answer (applyRtConfig) is excepted.
Excluded(u) ==
    /\ ~InSession(u)
    /\ u # Manager /\ client[u].open /\ client[u].ro => client[u].locked
RemovedLeave == <>[](\A u \in Users : MayTakePart(u) \/ misled[u] \/ Excluded(u))

\* And one they admit, with the note open, is in the session and can type.
TakesPart(u) ==
    client[u].session = "ready" /\ client[u].conn = "joined" /\ ~client[u].locked
ListedJoin ==
    <>[](\A u \in Users : client[u].open /\ MayTakePart(u) /\ ~misled[u] => TakesPart(u))

\* Sessions come to be what the documents of the space say of their users.
AdmissionFollowed == []TypeOK /\ RemovedLeave /\ ListedJoin

=============================================================================
