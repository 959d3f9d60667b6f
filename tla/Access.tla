------------------------------- MODULE Access -------------------------------
(***************************************************************************)
(* The tokens of real time.  The manager signs them and hands them to a    *)
(* member in the shares document (RealtimeController, MemberController);   *)
(* the device of the member takes them from there (MemberMode), a session  *)
(* presents one (RealtimeManager), and the server admits it, remembers the *)
(* earliest expiry of a document and closes its connections once it has    *)
(* passed (auth.js, server.js).  Who may edit a note is in RtSessions.     *)
(*                                                                         *)
(* One member, one shared space, one note in it that the manager and the   *)
(* member open; a token is the moment it expires, the signing key is the   *)
(* server's.  Sleeping devices and lost sockets are left out.              *)
(***************************************************************************)
EXTENDS Integers, FiniteSets

CONSTANTS Commands,     \* commands of the manager that may be under way at once
          Lifetime,     \* yjsTokenTtlDays
          LastMoment,   \* bounds: the clock, commands, notes opened or closed, failed writes
          MaxCommands, MaxOpenings, MaxFailedPuts
ASSUME AccessAssumption ==
    /\ {Lifetime, LastMoment, MaxCommands, MaxOpenings, MaxFailedPuts} \subseteq Nat /\ Lifetime > 0

Accounts == {"member", "manager"}
NoToken == 0            \* the clock starts at 1
Documents == {"shares", "rtconfig"}
Nowhere == [at |-> "idle", restarts |-> FALSE]

VARIABLES
    settings,   \* realtimeEnabled and realtimeBlocked
    stored,     \* tokens the manager keeps: for the space, the mirror of the member, and his own there
    command,    \* where each command is
    shared,        \* the documents of the member's database: revision and body
    passed,     \* history: the settings changed while a command held what it read before, or a write failed
    device,     \* real time on, the token it knows, and the session of the note
    docMinExp,  \* server: earliest expiry of the document
    inMemory,     \* server: the document is loaded
    forgotten,  \* history: its expiry was struck out while the connection was loading
    clock, counts

managerSide == <<settings, stored, command, shared, passed>>
serverSide == <<docMinExp, inMemory, forgotten>>
accessVars == <<managerSide, device, serverSide, clock, counts>>

Blank(d) == IF d = "shares" THEN [space |-> NoToken, mirror |-> NoToken, realtime |-> FALSE]
            ELSE [enabled |-> FALSE]
AccessInit ==
    /\ settings = [enabled |-> FALSE, blocked |-> FALSE]
    /\ stored = [space |-> NoToken, member |-> NoToken, manager |-> NoToken]
    /\ command = [c \in Commands |-> Nowhere]
    /\ shared = [d \in Documents |-> [rev |-> 0, body |-> Blank(d)]]
    /\ passed = FALSE
    /\ device = [u \in Accounts |-> [on |-> FALSE, token |-> NoToken, open |-> TRUE,
                                     session |-> NoToken, conn |-> "none", timer |-> FALSE]]
    /\ docMinExp = {} /\ inMemory = FALSE /\ forgotten = [u \in Accounts |-> FALSE]
    /\ clock = 1 /\ counts = [commands |-> 0, openings |-> 0, failed |-> 0]

Counted(what, most) == counts[what] < most /\ counts' = [counts EXCEPT ![what] = @ + 1]
Fresh == clock + Lifetime                        \* ttl
Allowed == settings.enabled /\ ~settings.blocked
Expired(token) == clock > token

----------------------------------------------------------------------------
(* The manager                                                             *)

Goes(c, to) == command' = [command EXCEPT ![c] = to]
At(c, place) == command[c].at = place
To(c, place) == Goes(c, [command[c] EXCEPT !.at = place])

\* A command that is past the point where it looked at the settings.
Holding(c) == command[c].at \notin {"idle", "mint"}
Changing == passed' = (passed \/ \E c \in Commands : Holding(c))

\* Faulty MintMirror: a member who is blocked keeps the tokens.
MintMirrorOnly(c, allowed, kept, restarts) ==
    /\ Goes(c, [at |-> IF allowed THEN "mirror" ELSE "sync", restarts |-> restarts])
    /\ stored' = kept

\* mintMirror up to the signing: a member who may not have real time loses both tokens.
MintMirror(c, allowed, kept, restarts) ==
    /\ Goes(c, [at |-> IF allowed THEN "mirror" ELSE "sync", restarts |-> restarts])
    /\ stored' = IF allowed THEN kept ELSE [kept EXCEPT !.member = NoToken, !.manager = NoToken]

\* setMemberRealtime.
SetMemberRealtime(c) ==
    /\ At(c, "idle") /\ Counted("commands", MaxCommands)
    /\ settings' = [settings EXCEPT !.blocked = ~@]
    /\ Changing
    /\ MintMirror(c, settings'.enabled /\ ~settings'.blocked, stored, FALSE)
    /\ UNCHANGED <<shared, device, serverSide, clock>>

\* The switch of real time, or the button that renews the tokens: the settings are saved and
\* redeployRealtime follows.  Alone, it makes up for what went wrong before.
RedeployRealtime(c) ==
    /\ At(c, "idle") /\ Counted("commands", MaxCommands)
    /\ \E on \in BOOLEAN : settings' = [settings EXCEPT !.enabled = on]
    /\ IF \A o \in Commands : At(o, "idle") THEN passed' = FALSE
       ELSE IF settings' # settings THEN Changing ELSE UNCHANGED passed
    /\ Goes(c, [at |-> "mint", restarts |-> TRUE])
    /\ UNCHANGED <<stored, shared, device, serverSide, clock>>

\* mintAll: with real time on the token of the space is signed first.
MintAll(c) ==
    /\ At(c, "mint")
    /\ IF settings.enabled THEN To(c, "space") /\ UNCHANGED stored
       ELSE MintMirror(c, FALSE, [stored EXCEPT !.space = NoToken], TRUE)
    /\ UNCHANGED <<settings, shared, passed, device, serverSide, clock, counts>>
SpaceSigned(c) ==
    /\ At(c, "space") /\ MintMirror(c, Allowed, [stored EXCEPT !.space = Fresh], TRUE)
    /\ UNCHANGED <<settings, shared, passed, device, serverSide, clock, counts>>

\* mintMirror once both are signed: they are kept whatever the settings say by now.
MirrorSigned(c) ==
    /\ At(c, "mirror") /\ To(c, "sync")
    /\ stored' = [stored EXCEPT !.member = Fresh, !.manager = Fresh]
    /\ UNCHANGED <<settings, shared, passed, device, serverSide, clock, counts>>

\* putDoc: the revision is asked for, the body is as the caller built it.
Asks(c, d, body) == Goes(c, [at |-> "put", restarts |-> command[c].restarts, d |-> d,
                             body |-> body, rev |-> shared[d].rev, attempt |-> 1])

\* writeMemberSync: whether the member has real time is settled before the token of the space is
\* signed, the token of the mirror is read after.
WriteMemberSync(c) ==
    /\ At(c, "sync")
    /\ IF Allowed THEN Goes(c, [at |-> "signed", restarts |-> command[c].restarts, space |-> Fresh])
       ELSE Asks(c, "shares", Blank("shares"))
    /\ UNCHANGED <<settings, stored, shared, passed, device, serverSide, clock, counts>>
MemberTokenSigned(c) ==
    /\ At(c, "signed")
    /\ Asks(c, "shares", [space |-> command[c].space, mirror |-> stored.member, realtime |-> TRUE])
    /\ UNCHANGED <<settings, stored, shared, passed, device, serverSide, clock, counts>>

\* syncOpenEditors: real time on and a token known, an open note has a session, unless the server
\* refused one and its timer still runs; anything else has none.
Ended(d) == [d EXCEPT !.session = NoToken, !.conn = "none"]
SyncedOpen(on, d) ==
    IF ~on \/ ~d.open THEN Ended(d)
    ELSE IF d.session # NoToken \/ d.timer \/ d.token = NoToken THEN d
    ELSE [d EXCEPT !.session = d.token, !.conn = "asked"]
On(u) == IF u = "manager" THEN settings.enabled ELSE device[u].on
Update(u, d) == device' = [device EXCEPT ![u] = d]

\* After shares comes rtconfig, whatever became of shares; then the restart of the mode by
\* redeployRealtime, which takes the token and refreshes the sessions.
PutDone(c) ==
    IF command[c].d = "shares"
    THEN Asks(c, "rtconfig", [enabled |-> settings.enabled]) /\ UNCHANGED device
    ELSE /\ Goes(c, Nowhere)
         /\ IF command[c].restarts
            THEN Update("manager", SyncedOpen(settings.enabled,
                     [Ended(device["manager"]) EXCEPT !.token = stored.space]))
            ELSE UNCHANGED device

\* The PUT: with a revision that is no longer the newest it is tried again, three times in all.
Put(c) ==
    LET put == command[c] IN
    /\ At(c, "put")
    /\ IF put.rev = shared[put.d].rev
       THEN shared' = [shared EXCEPT ![put.d] = [rev |-> @.rev + 1, body |-> put.body]] /\ PutDone(c)
       ELSE /\ UNCHANGED shared
            /\ IF put.attempt < 3
               THEN /\ Goes(c, [put EXCEPT !.attempt = @ + 1, !.rev = shared[put.d].rev])
                    /\ UNCHANGED device
               ELSE PutDone(c)
    /\ UNCHANGED <<settings, stored, passed, serverSide, clock, counts>>
PutFails(c) ==
    /\ At(c, "put") /\ Counted("failed", MaxFailedPuts) /\ PutDone(c) /\ passed' = TRUE
    /\ UNCHANGED <<settings, stored, shared, serverSide, clock>>

----------------------------------------------------------------------------
(* The devices                                                             *)

\* A document reaches the device, and reconcile takes what rtconfig or the shares say.  The sessions
\* are left as they are.
Replicate(d) ==
    LET mine == device["member"] IN
    /\ IF d = "rtconfig"
       THEN Update("member", [mine EXCEPT !.on = shared[d].body.enabled])
       ELSE Update("member", [mine EXCEPT !.token = shared[d].body.space])
    /\ device' # device
    /\ UNCHANGED <<managerSide, serverSide, clock, counts>>

OpenOrClose(u) ==
    /\ Counted("openings", MaxOpenings)
    /\ Update(u, SyncedOpen(On(u), [device[u] EXCEPT !.open = ~@]))
    /\ UNCHANGED <<managerSide, serverSide, clock>>

\* onWorkspaceChange.
WorkspaceChange(u) ==
    /\ Update(u, SyncedOpen(On(u), device[u]))
    /\ UNCHANGED <<managerSide, serverSide, clock, counts>>

\* Faulty Refused: the session stays in the table.
RefusedStays(u) ==
    /\ device[u].conn \in {"refused", "closed"}
    /\ Update(u, [device[u] EXCEPT !.conn = "none", !.timer = TRUE])
    /\ UNCHANGED <<managerSide, serverSide, clock, counts>>

\* noteServerRefusal: the session ends and the note is looked at again after a while.
Refused(u) ==
    /\ device[u].conn \in {"refused", "closed"}
    /\ Update(u, [Ended(device[u]) EXCEPT !.timer = TRUE])
    /\ UNCHANGED <<managerSide, serverSide, clock, counts>>
RetryTimer(u) ==
    /\ device[u].timer
    /\ Update(u, SyncedOpen(On(u), [device[u] EXCEPT !.timer = FALSE]))
    /\ UNCHANGED <<managerSide, serverSide, clock, counts>>

----------------------------------------------------------------------------
(* The server                                                              *)

Least(exps) == {e \in exps : \A o \in exps : e <= o}

\* Faulty noteTokenExp: the latest expiry is kept.
noteLatestExp(exp) == docMinExp' = {e \in docMinExp \cup {exp} : \A o \in docMinExp \cup {exp} : e >= o}
noteTokenExp(exp) == docMinExp' = Least(docMinExp \cup {exp})

\* onAuthenticate: verifyToken, then the expiry is noted; the document is loaded after.
OnAuthenticate(u) ==
    /\ device[u].conn = "asked"
    /\ IF Expired(device[u].session)
       THEN Update(u, [device[u] EXCEPT !.conn = "refused"]) /\ UNCHANGED <<docMinExp, forgotten>>
       ELSE /\ Update(u, [device[u] EXCEPT !.conn = "loading"])
            /\ noteTokenExp(device[u].session)
            /\ forgotten' = [forgotten EXCEPT ![u] = FALSE]
    /\ UNCHANGED <<managerSide, inMemory, clock, counts>>
AfterLoadDocument(u) ==
    /\ device[u].conn = "loading"
    /\ Update(u, [device[u] EXCEPT !.conn = "joined"]) /\ inMemory' = TRUE
    /\ UNCHANGED <<managerSide, docMinExp, forgotten, clock, counts>>

\* The expiry is struck out; connections that are still loading are not closed with the others.
Forget == /\ docMinExp' = {}
          /\ forgotten' = [u \in Accounts |-> forgotten[u] \/ device[u].conn = "loading"]
Sweep ==
    /\ \E exp \in docMinExp : Expired(exp)
    /\ Forget
    /\ device' = [u \in Accounts |-> IF device[u].conn = "joined"
                                     THEN [device[u] EXCEPT !.conn = "closed"] ELSE device[u]]
    /\ UNCHANGED <<managerSide, inMemory, clock, counts>>

\* afterUnloadDocument.
AfterUnloadDocument ==
    /\ inMemory /\ \A u \in Accounts : device[u].conn # "joined"
    /\ inMemory' = FALSE /\ Forget
    /\ UNCHANGED <<managerSide, device, clock, counts>>

\* A token lives for days: no command of the manager takes that long.
Tick == /\ clock < LastMoment /\ \A c \in Commands : At(c, "idle")
        /\ clock' = clock + 1
        /\ UNCHANGED <<managerSide, device, serverSide, counts>>

----------------------------------------------------------------------------
CommandStep(c) == \/ MintAll(c) \/ SpaceSigned(c) \/ MirrorSigned(c)
                  \/ WriteMemberSync(c) \/ MemberTokenSigned(c) \/ Put(c)
ReplicateStep == \E d \in Documents : Replicate(d)
SessionStep(u) == Refused(u) \/ RetryTimer(u) \/ OnAuthenticate(u) \/ AfterLoadDocument(u)
AccessNext ==
    \/ \E c \in Commands : SetMemberRealtime(c) \/ RedeployRealtime(c) \/ PutFails(c) \/ CommandStep(c)
    \/ \E u \in Accounts : OpenOrClose(u) \/ WorkspaceChange(u) \/ SessionStep(u)
    \/ ReplicateStep \/ Sweep \/ AfterUnloadDocument \/ Tick

AccessSpec == AccessInit /\ [][AccessNext]_accessVars

----------------------------------------------------------------------------
(* Properties                                                              *)

\* When no command of the manager is under way, the tokens he keeps for the member and those in
\* the member's documents are there exactly if real time is on and the member is not blocked,
\* unless the settings changed while a command held what it had read before or a document could
\* not be written (MemberController.ts:283-318, RealtimeController.ts:101-149).
AccessAsSettled ==
    passed \/ (\E c \in Commands : ~At(c, "idle")) \/ counts.commands = 0 \/
    LET given == shared["shares"].body IN
    /\ (stored.member # NoToken) = Allowed
    /\ given.realtime = Allowed
    /\ (given.space # NoToken) = Allowed /\ (given.mirror # NoToken) = Allowed
    /\ shared["rtconfig"].body.enabled = settings.enabled

\* The server knows of every connection when its token expires, so that the sweep closes it, unless
\* the expiry was struck out while the connection was loading (server.js:130-135, 235-248, 311-318).
ExpiryIsWatched ==
    \A u \in Accounts : device[u].conn = "joined" /\ ~forgotten[u]
        => \E exp \in docMinExp : exp <= device[u].session

\* The tokens of the member do what the settings say: they are handed out exactly to a member with
\* real time, and none of them keeps a connection open past its expiry (RealtimeController.ts,
\* server.js).
TokensInOrder == AccessAsSettled /\ ExpiryIsWatched

\* A device that was in the session, or waits for its next attempt, is in it in the end when real
\* time is on and it knows a token that has not expired: renewed tokens bring the devices back
\* (RealtimeManager.ts:396-410, MemberMode.ts:74-87).
ComesBackRenewed ==
    <>[](\A u \in Accounts : LET d == device[u] IN
           On(u) /\ d.open /\ (d.session # NoToken \/ d.timer) /\ clock <= d.token
           => d.conn = "joined")
============================================================================
