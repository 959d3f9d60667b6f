--------------------------- MODULE Administration ---------------------------
(***************************************************************************)
(* The manager's device administering the server: accounts, databases,     *)
(* security lists, write policies, share lists and group requests.         *)
(*                                                                         *)
(* Every command of the settings tab or of the panel is an asynchronous    *)
(* function that calls CouchDB several times and changes the one settings  *)
(* object in between; nothing serialises two of them, and restarting the   *)
(* mode starts two more (main.ts startMode).  A command is therefore a     *)
(* TASK with the list of the calls it still has to make, and one step of   *)
(* a task is one call of the server with the statements that follow its    *)
(* answer.  A call is answered, refused with an HTTP status (the result    *)
(* says ok: false), or lost (requestUrl rejects: the exception ends the    *)
(* task, and the server may have acted).  The process may end at any step  *)
(* and start again from the settings last saved.                           *)
(*                                                                         *)
(* Abstracted: passwords, tokens and invites; names and folders beyond     *)
(* their uniqueness; the realtime service account, taken as configured and *)
(* left out of the lists it is always in; the caches of the databases.     *)
(***************************************************************************)
EXTENDS Naturals, FiniteSets, Sequences, SequencesExt

CONSTANTS Members,       \* people who may be on the roster
          Requests,      \* group requests members may make
          AutoApprove,   \* settings.groupAutoApprove
          Slots,         \* commands that can be under way at once (bound)
          MaxCommands,   \* commands the manager gives (bound)
          MaxAdminFaults      \* refused or lost calls and ends of the process (bound)

ASSUME AdministrationAssumption ==
    /\ IsFiniteSet(Members) /\ IsFiniteSet(Requests)
    /\ AutoApprove \in BOOLEAN
    /\ {MaxCommands, MaxAdminFaults} \subseteq Nat

VARIABLES settings,   \* the settings object of the running plugin
          disk,       \* the settings as saveSettings last wrote them
          accounts,   \* accounts the server has
          server,     \* the databases of the server
          requests,   \* per request its document on both sides
          tasks,      \* per slot the calls still to make
          due,        \* work startMode and the change feed ask for
          commands, adminFaults,
          takenBack,  \* history: requests whose space was given up again
          excused,    \* history: databases a fault may have left open
          unsure,     \* history: databases whose record an answer or a fault may belie
          outdated    \* history: members whose list of spaces was out of date when it was written

adminVars == <<settings, disk, accounts, server, requests, tasks, due, commands,
          adminFaults, takenBack, excused, unsure, outdated>>

Mirror(m) == <<"mirror", m>>
Share(r) == <<"share", r>>
Dbs == {Mirror(m) : m \in Members} \cup {Share(r) : r \in Requests}

Base(m) == <<m, 1>>
Device(m) == <<m, 2>>
Accounts == {Base(m) : m \in Members} \cup {Device(m) : m \in Members}

\* Folders uniqueGroupFolder may come up with: one per space of a request.
Folders == 1..2

Spaces == [req : Requests, folder : Folders, members : SUBSET Members,
           provisioned : BOOLEAN]

-----------------------------------------------------------------------------
(* What is read out of the settings. *)

Roster(st) == ToSet(st.members)

accountsOf(st, m) ==
    {a \in {Base(m)} : m \in st.named} \cup {a \in {Device(m)} : m \in st.devices}

accountsMap(st) == UNION {accountsOf(st, m) : m \in Roster(st)}

SpaceUsers(st, sp) == UNION {accountsOf(st, m) : m \in sp.members \cap Roster(st)}

Targets(st) == {Mirror(m) : m \in st.provisioned \cap Roster(st)}
               \cup {Share(sp.req) : sp \in {x \in st.spaces : x.provisioned}}

ListedFor(st, m) == {sp.req : sp \in {x \in st.spaces : m \in x.members}}

FreeFolder(st) ==
    LET taken == {sp.folder : sp \in st.spaces}
    IN  CHOOSE f \in Folders : f \notin taken /\ \A g \in Folders \ taken : f <= g

-----------------------------------------------------------------------------
(* The lists of calls the commands make. *)

Call(do, on, who) == [do |-> do, on |-> on, who |-> who]

SharesOf(ms) == LET order == SetToSeq(ms)
                IN  [i \in DOMAIN order |-> Call("shares", order[i], {})]

ProvisionCalls(st, m) ==
    LET users == {Base(m)} \cup {a \in {Device(m)} : m \in st.devices}
    IN  << Call("user", Base(m), {}), Call("create", Mirror(m), users),
           Call("keepMember", m, {}), Call("shares", m, {}),
           Call("policies", m, {Mirror(m)}), Call("restart", m, {}) >>

InviteDeviceCalls(m) ==
    << Call("user", Device(m), {}), Call("addDevice", m, {}),
       Call("access", m, {}), Call("save", m, {}) >>

RevokeDeviceCalls(m) ==
    << Call("dropDevice", Device(m), {}), Call("removeDevice", m, {}),
       Call("access", m, {}), Call("save", m, {}) >>

\* Faulty DeployCalls: nobody's list of spaces is written.
DeployQuietly(st, sp) ==
    << Call("create", Share(sp.req), SpaceUsers(st, sp)),
       Call("keepSpace", <<sp.req, sp.folder>>, {}),
       Call("policies", sp.req, {Share(sp.req)}), Call("save", sp.req, {}),
       Call("restart", sp.req, {}) >>

DeployCalls(st, sp) ==
    << Call("create", Share(sp.req), SpaceUsers(st, sp)),
       Call("keepSpace", <<sp.req, sp.folder>>, {}),
       Call("policies", sp.req, {Share(sp.req)}), Call("save", sp.req, {}),
       Call("allShares", sp.req, {}), Call("restart", sp.req, {}) >>

DeleteMemberCalls(st, index) ==
    LET m == st.members[index]
        order == SetToSeq(accountsOf(st, m))
    IN  << Call("dropDb", Mirror(m), {}) >>
        \o [i \in DOMAIN order |-> Call("dropUser", order[i], {})]
        \o << Call("removeMember", index, {}), Call("restart", m, {}) >>

\* The card takes out whatever stands at the place it was drawn for.
Without(st, index) ==
    LET gone == {st.members[i] : i \in DOMAIN st.members \cap {index}}
    IN  [st EXCEPT !.members = IF gone = {} THEN @ ELSE RemoveAt(@, index),
                   !.named = @ \ gone, !.provisioned = @ \ gone, !.devices = @ \ gone]

DeleteGroupCalls(st, r) ==
    IF \E sp \in st.spaces : sp.req = r
    THEN << Call("dropDb", Share(r), {}), Call("removeSpace", r, {}),
            Call("refreshShares", r, {}), Call("restart", r, {}) >>
    ELSE <<>>

ResetCalls(st, deleteAccounts) ==
    LET dbs == SetToSeq({Mirror(m) : m \in st.named \cap Roster(st)}
                        \cup {Share(sp.req) : sp \in st.spaces})
        users == SetToSeq(IF deleteAccounts THEN accountsMap(st) ELSE {})
    IN  [i \in DOMAIN dbs |-> Call("dropDb", dbs[i], {})]
        \o [i \in DOMAIN users |-> Call("dropUser", users[i], {})]
        \o << Call(IF deleteAccounts THEN "clearAll" ELSE "clear", "all", {}) >>

AccessCalls(st, m) ==
    LET shared == SetToSeq({sp.req : sp \in {x \in st.spaces : m \in x.members}})
    IN  << Call("grant", Mirror(m), {}) >>
        \o [i \in DOMAIN shared |-> Call("grant", Share(shared[i]), {})]
        \o << Call("policies", m, Dbs) >>

\* redeployValidate takes the accounts and the targets when it starts.
PolicyCalls(st, dbs) ==
    LET order == SetToSeq(Targets(st) \cap dbs)
    IN  [i \in DOMAIN order |-> Call("policy", order[i], accountsMap(st))]
        \o << Call("saveIfChanged", "all", {}) >>

-----------------------------------------------------------------------------
(* The server's side of a call. *)

Absent == [exists |-> FALSE, secured |-> FALSE, users |-> {}, policy |-> {},
           shares |-> {}]

NewDb == [Absent EXCEPT !.exists = TRUE]

Secured(db, users) == [db EXCEPT !.secured = TRUE, !.users = users]

-----------------------------------------------------------------------------
(* Steps of a task. *)

Busy(s) == tasks[s] # <<>>
NextCall(s) == Head(tasks[s])
At(s, do) == Busy(s) /\ NextCall(s).do = do

Goto(s, todo) == tasks' = [tasks EXCEPT ![s] = todo]
Advance(s) == Goto(s, Tail(tasks[s]))

\* An exception: nothing of the command catches it.
Raise(s) == Goto(s, <<>>)

\* A refused provisioning ends the deployment; approveRequest then goes on and
\* takes the space it pushed back out, where another command just returns.
AfterRefusal(s) ==
    LET todo == tasks[s]
        ends == {i \in DOMAIN todo : todo[i].do = "restart"}
        rest == IF ends = {} THEN <<>>
                ELSE SubSeq(todo, 1 + CHOOSE i \in ends : \A j \in ends : i <= j, Len(todo))
    IN  Goto(s, IF rest # <<>> /\ Head(rest).do = "saveGroup"
                THEN <<Call("takeBack", Head(rest).on, {})>> \o SubSeq(rest, 3, Len(rest))
                ELSE rest)

MustSave(todo) == [i \in DOMAIN todo |->
                      IF todo[i].do = "saveIfChanged" THEN Call("save", "all", {}) ELSE todo[i]]

Fault == adminFaults < MaxAdminFaults /\ adminFaults' = adminFaults + 1

Save(st) == settings' = st /\ disk' = st

Restart == due' = due \cup {"validate"}
                      \cup {d \in {"pending"} : AutoApprove}

held == <<settings, disk>>
rest1 == <<requests, due, commands, takenBack, outdated>>

\* ensureUser reads the account and puts it, again after a conflict.
EnsureUser(s) ==
    /\ At(s, "user")
    /\ \/ /\ accounts' = accounts \cup {NextCall(s).on}
          /\ Advance(s)
          /\ UNCHANGED adminFaults
       \/ /\ Fault
          /\ UNCHANGED accounts
          /\ AfterRefusal(s)
       \/ /\ Fault
          /\ accounts' \in {accounts, accounts \cup {NextCall(s).on}}
          /\ Raise(s)
    /\ UNCHANGED <<held, server, rest1, excused, unsure>>

\* PUT of the database: 201 makes it, 412 says that it is there.
CreateDb(s) ==
    /\ At(s, "create")
    /\ LET db == NextCall(s).on
           made == ~server[db].exists
           next == Call(IF made THEN "secureNew" ELSE "secure", db, NextCall(s).who)
       IN  \/ /\ server' = IF made THEN [server EXCEPT ![db] = NewDb] ELSE server
              /\ Goto(s, <<next>> \o Tail(tasks[s]))
              /\ UNCHANGED <<adminFaults, excused>>
           \/ /\ Fault
              /\ AfterRefusal(s)
              /\ UNCHANGED <<server, excused>>
           \/ /\ Fault
              /\ Raise(s)
              /\ \/ UNCHANGED <<server, excused>>
                 \/ /\ made
                    /\ server' = [server EXCEPT ![db] = NewDb]
                    /\ excused' = excused \cup {db}
    /\ UNCHANGED <<held, accounts, rest1, unsure>>

\* Faulty UndoCreation: no rollback.
LeavesDatabase(s) == AfterRefusal(s)

UndoCreation(s) ==
    IF NextCall(s).do = "secureNew"
    THEN Goto(s, <<Call("rollback", NextCall(s).on, {})>> \o Tail(tasks[s]))
    ELSE AfterRefusal(s)

\* setSecurity of createDbWithSecurity: a refusal takes the database this call
\* made back; an exception passes over that.
SecureDb(s) ==
    /\ At(s, "secure") \/ At(s, "secureNew")
    /\ LET db == NextCall(s).on
           secured == [server EXCEPT ![db] = Secured(@, NextCall(s).who)]
       IN  \/ /\ server[db].exists
              /\ server' = secured
              /\ excused' = excused \ {db}
              /\ Advance(s)
              /\ UNCHANGED adminFaults
           \/ /\ UndoCreation(s)
              /\ IF server[db].exists THEN Fault ELSE UNCHANGED adminFaults
              /\ UNCHANGED <<server, excused>>
           \/ /\ Fault
              /\ Raise(s)
              /\ \/ /\ UNCHANGED server
                    /\ excused' = excused \cup {db}
                 \/ /\ server[db].exists
                    /\ server' = secured
                    /\ excused' = excused \ {db}
    /\ UNCHANGED <<held, accounts, rest1, unsure>>

Rollback(s) ==
    /\ At(s, "rollback")
    /\ LET db == NextCall(s).on
           gone == [server EXCEPT ![db] = Absent]
       IN  \/ /\ server' = gone
              /\ AfterRefusal(s)
              /\ UNCHANGED <<adminFaults, excused>>
           \/ /\ Fault
              /\ excused' = excused \cup {db}
              /\ AfterRefusal(s)
              /\ UNCHANGED server
           \/ /\ Fault
              /\ excused' = excused \cup {db}
              /\ Raise(s)
              /\ server' \in {server, gone}
    /\ unsure' = unsure \cup {NextCall(s).on}
    /\ UNCHANGED <<held, accounts, rest1>>

KeepMember(s) ==
    /\ At(s, "keepMember")
    /\ Save([settings EXCEPT !.provisioned = @ \cup ({NextCall(s).on} \cap Roster(settings))])
    /\ Advance(s)
    /\ UNCHANGED <<accounts, server, rest1, adminFaults, excused, unsure>>

\* After provisioning deployShared drops the record of the database's policy:
\* the database may be a new one.
KeepSpace(s) ==
    /\ At(s, "keepSpace")
    /\ LET isIt(sp) == <<sp.req, sp.folder>> = NextCall(s).on
       IN  settings' = [settings EXCEPT
               !.spaces = {IF isIt(sp) THEN [sp EXCEPT !.provisioned = TRUE] ELSE sp : sp \in @},
               !.recorded[Share(NextCall(s).on[1])] = {}]
    /\ Advance(s)
    /\ unsure' = unsure \ {Share(NextCall(s).on[1])}
    /\ UNCHANGED <<disk, accounts, server, rest1, adminFaults, excused>>

\* writeMemberSync makes the list of the settings of the moment and holds it over the
\* signing of the tokens and the calls of putDoc.
WriteMemberSync(s) ==
    /\ At(s, "shares")
    /\ LET m == NextCall(s).on
       IN  Goto(s, <<Call("putShares", m, ListedFor(settings, m))>> \o Tail(tasks[s]))
    /\ UNCHANGED <<held, accounts, server, rest1, adminFaults, excused, unsure>>

\* putDoc asks for the revision again after a conflict and puts the same list, so it takes
\* the place of any other; three conflicts in a row count as a refusal.  A refusal is
\* logged and no more.
PutShares(s) ==
    /\ At(s, "putShares")
    /\ LET m == NextCall(s).on
           list == NextCall(s).who
           written == IF server[Mirror(m)].exists
                      THEN [server EXCEPT ![Mirror(m)].shares = list] ELSE server
           ages == IF ~server[Mirror(m)].exists THEN outdated
                   ELSE IF list = ListedFor(settings, m) THEN outdated \ {m} ELSE outdated \cup {m}
       IN  \/ /\ server' = written
              /\ outdated' = ages
              /\ Advance(s)
              /\ UNCHANGED adminFaults
           \/ /\ Fault
              /\ UNCHANGED <<server, outdated>>
              /\ Advance(s)
           \/ /\ Fault
              /\ Raise(s)
              /\ \/ UNCHANGED <<server, outdated>>
                 \/ server' = written /\ outdated' = ages
    /\ UNCHANGED <<held, accounts, requests, due, commands, takenBack, excused, unsure>>

\* deployShared writes the list of everyone on the roster, refreshMemberShares
\* that of those provisioned.
WriteAllShares(s) ==
    /\ At(s, "allShares") \/ At(s, "refreshShares")
    /\ LET invited == IF NextCall(s).do = "allShares" THEN Members ELSE settings.provisioned
       IN  Goto(s, SharesOf(Roster(settings) \cap invited) \o Tail(tasks[s]))
    /\ UNCHANGED <<held, accounts, server, rest1, adminFaults, excused, unsure>>

RedeployValidate(s) ==
    /\ At(s, "policies")
    /\ Goto(s, PolicyCalls(settings, NextCall(s).who) \o Tail(tasks[s]))
    /\ UNCHANGED <<held, accounts, server, rest1, adminFaults, excused, unsure>>

\* One database of redeployValidate: what has the policy on record is passed over.  The
\* server takes the policy, in the place of any other; until its answer the record is in
\* doubt.  Every failure is caught.
PutValidateDesignDoc(s) ==
    /\ At(s, "policy")
    /\ LET db == NextCall(s).on
           policy == NextCall(s).who
       IN  IF settings.recorded[db] = {policy}
           THEN Advance(s) /\ UNCHANGED <<server, adminFaults, unsure>>
           ELSE \/ /\ server[db].exists
                   /\ server' = [server EXCEPT ![db].policy = {policy}]
                   /\ unsure' = unsure \cup {db}
                   /\ Goto(s, <<Call("record", db, policy)>> \o Tail(tasks[s]))
                   /\ UNCHANGED adminFaults
                \/ /\ IF server[db].exists THEN Fault ELSE UNCHANGED adminFaults
                   /\ Advance(s)
                   /\ UNCHANGED <<server, unsure>>
    /\ UNCHANGED <<held, accounts, rest1, excused>>

\* The answer, which another task's policy may have overtaken, or which is lost.
RecordPolicy(s) ==
    /\ At(s, "record")
    /\ LET db == NextCall(s).on
           policy == NextCall(s).who
       IN  \/ /\ settings' = [settings EXCEPT !.recorded[db] = {policy}]
              /\ unsure' = IF server[db].policy = {policy} THEN unsure \ {db} ELSE unsure \cup {db}
              /\ Goto(s, MustSave(Tail(tasks[s])))
              /\ UNCHANGED adminFaults
           \/ /\ Fault
              /\ Advance(s)
              /\ UNCHANGED <<settings, unsure>>
    /\ UNCHANGED <<disk, accounts, server, rest1, excused>>

SaveSettings(s) ==
    /\ \/ At(s, "save") /\ Save(settings)
       \/ At(s, "saveIfChanged") /\ UNCHANGED held
    /\ Advance(s)
    /\ UNCHANGED <<accounts, server, rest1, adminFaults, excused, unsure>>

AddDevice(s) ==
    /\ At(s, "addDevice")
    /\ settings' = [settings EXCEPT !.devices = @ \cup ({NextCall(s).on} \cap Roster(settings))]
    /\ Advance(s)
    /\ UNCHANGED <<disk, accounts, server, rest1, adminFaults, excused, unsure>>

RemoveDevice(s) ==
    /\ At(s, "removeDevice")
    /\ settings' = [settings EXCEPT !.devices = @ \ {NextCall(s).on}]
    /\ Advance(s)
    /\ UNCHANGED <<disk, accounts, server, rest1, adminFaults, excused, unsure>>

RefreshAccountAccess(s) ==
    /\ At(s, "access")
    /\ Goto(s, AccessCalls(settings, NextCall(s).on) \o Tail(tasks[s]))
    /\ UNCHANGED <<held, accounts, server, rest1, adminFaults, excused, unsure>>

\* The results of these setSecurity calls are not looked at.
Grant(s) ==
    /\ At(s, "grant")
    /\ LET db == NextCall(s).on
           users == IF db[1] = "mirror" THEN accountsOf(settings, db[2])
                    ELSE UNION {SpaceUsers(settings, sp) : sp \in {x \in settings.spaces : x.req = db[2]}}
           granted == IF server[db].exists
                      THEN [server EXCEPT ![db] = Secured(@, users)] ELSE server
           opens == db[1] = "mirror"
                    \/ \E sp \in settings.spaces : sp.req = db[2] /\ sp.provisioned
       IN  IF ~opens
           THEN Advance(s) /\ UNCHANGED <<server, adminFaults, excused>>
           ELSE \/ /\ server' = granted
                   /\ excused' = excused \ {db}
                   /\ Advance(s)
                   /\ UNCHANGED adminFaults
                \/ /\ Fault
                   /\ Advance(s)
                   /\ UNCHANGED <<server, excused>>
                \/ /\ Fault
                   /\ Raise(s)
                   /\ server' \in {server, granted}
                   /\ UNCHANGED excused
    /\ UNCHANGED <<held, accounts, rest1, unsure>>

\* deleteMemberServer, deleteSharedServer and resetServerData log a refusal and
\* go on.  Only the last of them forgets the recorded policies.
DropDb(s) ==
    /\ At(s, "dropDb")
    /\ LET gone == [server EXCEPT ![NextCall(s).on] = Absent]
       IN  \/ /\ server' = gone
              /\ Advance(s)
              /\ UNCHANGED adminFaults
           \/ /\ Fault
              /\ Advance(s)
              /\ UNCHANGED server
           \/ /\ Fault
              /\ Raise(s)
              /\ server' \in {server, gone}
    /\ unsure' = unsure \cup {NextCall(s).on}
    /\ excused' = {d \in excused : server'[d].exists}
    /\ UNCHANGED <<held, accounts, rest1>>

DropUser(s) ==
    /\ At(s, "dropUser") \/ At(s, "dropDevice")
    /\ \/ /\ accounts' = accounts \ {NextCall(s).on}
          /\ Advance(s)
          /\ UNCHANGED adminFaults
       \/ /\ Fault
          /\ IF NextCall(s).do = "dropDevice" THEN Raise(s) ELSE Advance(s)
          /\ UNCHANGED accounts
       \/ /\ Fault
          /\ Raise(s)
          /\ accounts' \in {accounts, accounts \ {NextCall(s).on}}
    /\ UNCHANGED <<held, server, rest1, excused, unsure>>

RemoveMember(s) ==
    /\ At(s, "removeMember")
    /\ Save(Without(settings, NextCall(s).on))
    /\ Advance(s)
    /\ UNCHANGED <<accounts, server, rest1, adminFaults, excused, unsure>>

RemoveSpace(s) ==
    /\ \/ At(s, "removeSpace") /\ UNCHANGED takenBack
       \/ At(s, "takeBack") /\ takenBack' = takenBack \cup {NextCall(s).on}
    /\ Save([settings EXCEPT !.spaces = {sp \in @ : sp.req # NextCall(s).on}])
    /\ Advance(s)
    /\ UNCHANGED <<accounts, server, requests, due, commands, adminFaults, excused, unsure, outdated>>

\* Faulty Forgotten: the records of the policies stay.
ForgottenInPart(st) == [st EXCEPT !.provisioned = {}]

Forgotten(st) == [st EXCEPT !.provisioned = {}, !.recorded = [db \in Dbs |-> {}]]

\* End of resetServerData.
ClearState(s) ==
    /\ At(s, "clear") \/ At(s, "clearAll")
    /\ LET kept == IF NextCall(s).do = "clear"
                   THEN [settings EXCEPT !.spaces = {[sp EXCEPT !.provisioned = FALSE] : sp \in @}]
                   ELSE [settings EXCEPT !.members = <<>>, !.named = {}, !.devices = {}, !.spaces = {}]
       IN  Save(Forgotten(kept))
    /\ Advance(s)
    /\ unsure' = {}
    /\ UNCHANGED <<accounts, server, rest1, adminFaults, excused>>

RestartMode(s) ==
    /\ At(s, "restart")
    /\ Restart
    /\ Advance(s)
    /\ UNCHANGED <<held, accounts, server, requests, commands, adminFaults, takenBack, excused, unsure,
                   outdated>>

\* approveRequest up to its first await: the space is pushed and saved, then
\* deployed; the group and the verdict follow, whatever came in between.
ApproveRequest(s) ==
    /\ At(s, "approve")
    /\ LET r == NextCall(s).on[1]
           rev == NextCall(s).on[2]
           space == [req |-> r, folder |-> FreeFolder(settings),
                     members |-> Roster(settings), provisioned |-> FALSE]
           st == [settings EXCEPT !.spaces = @ \cup {space}]
       IN  IF Roster(settings) = {}
           THEN /\ Goto(s, <<Call("rejected", <<r, rev>>, {})>> \o Tail(tasks[s]))
                /\ UNCHANGED held
           ELSE /\ \E f \in Folders : \A sp \in settings.spaces : sp.folder # f
                /\ Save(st)
                /\ Goto(s, DeployCalls(st, space)
                           \o << Call("saveGroup", r, {}), Call("approved", <<r, rev>>, {}) >>
                           \o Tail(tasks[s]))
    /\ UNCHANGED <<accounts, server, rest1, adminFaults, excused, unsure>>

SaveGroup(s) ==
    /\ At(s, "saveGroup")
    /\ Save([settings EXCEPT !.groups = @ \cup {NextCall(s).on}])
    /\ Advance(s)
    /\ UNCHANGED <<accounts, server, rest1, adminFaults, excused, unsure>>

\* The verdict is a plain put of the document read at the start: a conflict
\* throws.
Decide(s) ==
    /\ At(s, "approved") \/ At(s, "rejected")
    /\ LET r == NextCall(s).on[1]
           rev == NextCall(s).on[2]
       IN  IF requests[r].manager.rev = rev
           THEN /\ requests' = [requests EXCEPT ![r].manager = [status |-> NextCall(s).do, rev |-> rev + 1]]
                /\ Advance(s)
           ELSE Raise(s) /\ UNCHANGED requests
    /\ UNCHANGED <<held, accounts, server, due, commands, adminFaults, takenBack, excused, unsure,
                   outdated>>

-----------------------------------------------------------------------------
(* Commands of the manager. *)

FreeSlot == CHOOSE s \in Slots : ~Busy(s)

Begin(todo) ==
    /\ commands < MaxCommands
    /\ commands' = commands + 1
    /\ \E s \in Slots : ~Busy(s)
    /\ Goto(FreeSlot, todo)
    /\ UNCHANGED <<accounts, server, requests, due, adminFaults, takenBack, excused, unsure, outdated>>

AddMember(m) ==
    /\ m \notin Roster(settings)
    /\ Save([settings EXCEPT !.members = Append(@, m)])
    /\ Begin(<<>>)

Provision(m) ==
    /\ m \in Roster(settings)
    /\ settings' = [settings EXCEPT !.named = @ \cup {m}]
    /\ Begin(ProvisionCalls(settings, m))
    /\ UNCHANGED disk

InviteDevice(m) ==
    /\ m \in settings.provisioned \ settings.devices
    /\ Begin(InviteDeviceCalls(m))
    /\ UNCHANGED held

RevokeDevice(m) ==
    /\ m \in settings.devices
    /\ Begin(RevokeDeviceCalls(m))
    /\ UNCHANGED held

\* With the box ticked the server's data goes first, and the card at the end.
DeleteMember(index) ==
    /\ index \in DOMAIN settings.members
    /\ \/ /\ settings.members[index] \in settings.provisioned
          /\ Begin(DeleteMemberCalls(settings, index))
          /\ UNCHANGED held
       \/ /\ Save(Without(settings, index))
          /\ Begin(<< Call("restart", "all", {}) >>)

DeployShared(sp) ==
    /\ sp \in settings.spaces
    /\ Begin(DeployCalls(settings, sp))
    /\ UNCHANGED held

RedeployRealtime ==
    /\ LET dbs == SetToSeq(Targets(settings))
       IN  Begin(<< Call("save", "all", {}) >>
                 \o [i \in DOMAIN dbs |-> Call("grant", dbs[i], {})]
                 \o << Call("refreshShares", "all", {}), Call("policies", "all", Dbs),
                       Call("restart", "all", {}) >>)
    /\ UNCHANGED held

ResetServerData(deleteAccounts) ==
    /\ Begin(ResetCalls(settings, deleteAccounts))
    /\ UNCHANGED held

DeleteGroup(r) ==
    /\ r \in settings.groups
    /\ Save([settings EXCEPT !.groups = @ \ {r}])
    /\ Begin(DeleteGroupCalls(settings, r))

\* The buttons of the groups tab: the request as the panel has listed it.
DecideRequest(r) ==
    /\ requests[r].manager.status = "pending"
    /\ \E do \in {"approve", "rejected"} :
          Begin(<< Call(do, <<r, requests[r].manager.rev>>, {}) >>)
    /\ UNCHANGED held

\* What startMode and the change feed start without awaiting it.
StartDue(what) ==
    /\ what \in due
    /\ \E s \in Slots : ~Busy(s)
    /\ due' = due \ {what}
    /\ LET pending == SetToSeq({r \in Requests : requests[r].manager.status = "pending"})
       IN  Goto(FreeSlot, IF what = "validate" THEN << Call("policies", "all", Dbs) >>
                          ELSE [i \in DOMAIN pending |->
                                  Call("approve", <<pending[i], requests[pending[i]].manager.rev>>, {})])
    /\ UNCHANGED <<held, accounts, server, requests, commands, adminFaults, takenBack, excused, unsure,
                   outdated>>

-----------------------------------------------------------------------------
(* The member's device and the replication between the two. *)

others == <<held, accounts, server, tasks, commands, adminFaults, takenBack, excused, unsure, outdated>>

\* In the space of the class, which a member reaches with an account.
RequestGroup(r) ==
    /\ accounts # {} /\ requests[r].member.rev = 0
    /\ requests' = [requests EXCEPT ![r].member = [status |-> "pending", rev |-> 1]]
    /\ UNCHANGED <<others, due>>

CancelRequest(r) ==
    /\ requests[r].member.status = "pending"
    /\ requests' = [requests EXCEPT ![r].member = [status |-> "cancelled", rev |-> @.rev + 1]]
    /\ UNCHANGED <<others, due>>

\* Both sides come to hold the longer history, or the same one of two.
Exchange(r) ==
    /\ requests[r].manager # requests[r].member
    /\ \E doc \in {requests[r].manager, requests[r].member} :
          /\ doc.rev >= requests[r].manager.rev /\ doc.rev >= requests[r].member.rev
          /\ requests' = [requests EXCEPT ![r] = [manager |-> doc, member |-> doc]]
          /\ due' = due \cup {d \in {"pending"} : AutoApprove /\ doc # requests[r].manager}
    /\ UNCHANGED others

\* The process ends and starts again from the settings it saved last.
EndProcess ==
    /\ \E s \in Slots : Busy(s)
    /\ Fault
    /\ settings' = disk
    /\ tasks' = [s \in Slots |-> <<>>]
    /\ due' = {"validate"} \cup {d \in {"pending"} : AutoApprove}
    /\ excused' = excused \cup {db \in Dbs : server[db].exists /\ ~server[db].secured}
    /\ unsure' = unsure \cup {db \in Dbs : server[db].policy # disk.recorded[db]}
    /\ UNCHANGED <<disk, accounts, server, requests, commands, takenBack, outdated>>

-----------------------------------------------------------------------------

NoRequest == [status |-> "none", rev |-> 0]

\* A class of members entered on the cards and not invited yet.
AdminInit ==
    /\ settings = [members |-> SetToSeq(Members), named |-> {}, provisioned |-> {},
                   devices |-> {}, spaces |-> {}, groups |-> {},
                   recorded |-> [db \in Dbs |-> {}]]
    /\ disk = settings
    /\ accounts = {}
    /\ server = [db \in Dbs |-> Absent]
    /\ requests = [r \in Requests |-> [manager |-> NoRequest, member |-> NoRequest]]
    /\ tasks = [s \in Slots |-> <<>>]
    /\ due = {}
    /\ commands = 0 /\ adminFaults = 0
    /\ takenBack = {} /\ excused = {} /\ unsure = {} /\ outdated = {}

TaskStep(s) ==
    \/ EnsureUser(s) \/ CreateDb(s) \/ SecureDb(s) \/ Rollback(s)
    \/ KeepMember(s) \/ KeepSpace(s) \/ WriteMemberSync(s) \/ PutShares(s)
    \/ WriteAllShares(s) \/ RedeployValidate(s) \/ PutValidateDesignDoc(s) \/ RecordPolicy(s)
    \/ SaveSettings(s) \/ AddDevice(s) \/ RemoveDevice(s) \/ RefreshAccountAccess(s) \/ Grant(s)
    \/ DropDb(s) \/ DropUser(s) \/ RemoveMember(s) \/ RemoveSpace(s)
    \/ ClearState(s) \/ RestartMode(s)
    \/ ApproveRequest(s) \/ SaveGroup(s) \/ Decide(s)

AdminNext ==
    \/ \E s \in Slots : TaskStep(s)
    \/ \E m \in Members : AddMember(m) \/ Provision(m) \/ InviteDevice(m) \/ RevokeDevice(m)
    \/ \E index \in DOMAIN settings.members : DeleteMember(index)
    \/ \E sp \in settings.spaces : DeployShared(sp)
    \/ RedeployRealtime
    \/ \E deleteAccounts \in BOOLEAN : ResetServerData(deleteAccounts)
    \/ \E r \in Requests : \/ DeleteGroup(r) \/ DecideRequest(r)
                           \/ RequestGroup(r) \/ CancelRequest(r) \/ Exchange(r)
    \/ \E what \in {"validate", "pending"} : StartDue(what)
    \/ EndProcess

AdminSpec == AdminInit /\ [][AdminNext]_adminVars

-----------------------------------------------------------------------------
(* Properties. *)

\* Type correctness of the settings, the server and the documents; a request is
\* decided or withdrawn once.
AdminTypeOK ==
    /\ \A st \in {settings, disk} :
          /\ st.members \in Seq(Members)
          /\ st.named \cup st.provisioned \cup st.devices \subseteq Members
          /\ st.spaces \subseteq Spaces
          /\ st.groups \subseteq Requests
          /\ st.recorded \in [Dbs -> SUBSET SUBSET Accounts]
    /\ accounts \subseteq Accounts
    /\ \A db \in Dbs : /\ server[db].users \subseteq Accounts
                       /\ server[db].policy \subseteq SUBSET Accounts
                       /\ server[db].shares \subseteq Requests
    /\ \A r \in Requests : {requests[r].manager.rev, requests[r].member.rev} \subseteq 0..2
    /\ due \subseteq {"validate", "pending"}

\* CouchDB opens a database without a security list to every account, so no
\* database stays one: whenever one is found so, a task is about to give it
\* its list or to take it back, or a call of that task was lost (the process
\* ended, the network failed, the removal was refused).  Two commands that
\* provision or remove the same database do not change that
\* (CouchAdmin.createDbWithSecurity).
NothingLeftOpen ==
    \A db \in Dbs : server[db].exists /\ ~server[db].secured =>
        \/ db \in excused
        \/ \E s \in Slots : /\ Busy(s)
                           /\ NextCall(s).do \in {"secureNew", "secure", "rollback"}
                           /\ NextCall(s).on = db

\* settings.validatePolicyByDb says which write policy a database has, and
\* redeployValidate skips the database on its word.  The word is true of every
\* database the settings call provisioned, whatever redeployments overlap and
\* however often the server is reset and provisioned again -- unless the answer to
\* a policy is still to come, was lost or came after another task's policy, the
\* process ended before saving, or the database was removed and no policy put or
\* record dropped since.
RecordedPolicyStands ==
    \A db \in Targets(settings) :
        server[db].exists /\ settings.recorded[db] # {} /\ db \notin unsure
            => server[db].policy = settings.recorded[db]

\* With no call lost or refused, once every command has ended the shares
\* document of each invited member lists exactly the spaces the settings put
\* the member in: no space a member still lists has been removed, and none the
\* member belongs to is missing (writeMemberSync, refreshMemberShares) -- but for a
\* request whose space was given up, after which nobody's list is written, and for
\* a list that another command's change of the settings overtook before it was
\* written, and that no later one has replaced.
SharesFollowSettings ==
    adminFaults = 0 /\ (\A s \in Slots : ~Busy(s)) =>
        \A m \in (settings.provisioned \cap Roster(settings)) \ outdated :
            server[Mirror(m)].exists
                => server[Mirror(m)].shares \ takenBack = ListedFor(settings, m) \ takenBack

\* What the settings say of the server is true of it, however commands overlap: the policy
\* recorded of a database is the one it has, and the shares documents list the spaces of
\* the settings (redeployValidate, writeMemberSync).  The state is well formed.
SettingsStand == AdminTypeOK /\ RecordedPolicyStands /\ SharesFollowSettings

=============================================================================
