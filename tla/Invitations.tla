----------------------------- MODULE Invitations -----------------------------
(***************************************************************************)
(* Accounts, invites and passwords.  The manager makes an account for a    *)
(* member, and one for each further device, and hands its password out in  *)
(* an invite.  The device that applies the invite replaces the password at *)
(* once, on the server and then in its own store.  Several commands of the *)
(* manager may be under way, each with the accounts it read before it      *)
(* waited.  Requests fail or lose their answers, and either program may be *)
(* killed between two steps.                                               *)
(* Abstracted: one member and its mirror; the write policy and the tokens  *)
(* the same commands bring up to date (see Administration and Access).     *)
(***************************************************************************)
EXTENDS Integers

CONSTANTS
    Commands,      \* commands of the manager that may be under way at once
    Devices,       \* devices of the member
    Own,           \* the member's own account
    MoreAccounts,  \* names of device accounts
    MaxTurns,      \* bound: commands, invites applied, settings reset
    MaxMishaps     \* bound: failures, lost answers, restarts

VARIABLES
    accounts,  \* [Users -> password], 0 when there is no such account
    database,  \* whether the member's database exists
    security,  \* users it admits
    invites,   \* invites shown
    manager,   \* what the manager's program knows, and
    managerDisk, \* what it has stored
    command,   \* [Commands -> where each is, and what it holds]
    device,    \* [Devices -> what each knows and does], and
    deviceDisk,\* what each has stored
    secretStorage, \* whether passwords are stored apart from the settings, at once
    passwords, \* passwords made so far
    admitted,  \* history: devices let in since, whose account nobody cut off
    turns, mishaps \* bounds: used up

inviteVars == <<accounts, database, security, invites, manager, managerDisk, command, device, deviceDisk,
                secretStorage, passwords, admitted, turns, mishaps>>
server == <<accounts, database, security>>
managerSide == <<manager, managerDisk, command, invites>>
deviceSide == <<device, deviceDisk>>
fixed == secretStorage

Users == {Own} \cup MoreAccounts
\* users: the list of accounts a command has read and will write; passed is history: accounts
\* that came onto the manager's list since; made: the command created the database.
NoCommand == [op |-> "none", user |-> Own, pw |-> 0, prev |-> 0, at |-> "idle",
              users |-> {}, passed |-> {}, made |-> FALSE]
NewPassword == passwords + 1
Turn == turns < MaxTurns /\ turns' = turns + 1
Mishap == mishaps < MaxMishaps /\ mishaps' = mishaps + 1
accountsOf(m) == {Own} \cup m.more

InvitationsInit ==
    /\ accounts = [u \in Users |-> 0] /\ database = FALSE /\ security = {} /\ invites = {}
    /\ manager = [provisioned |-> FALSE, pw |-> 0, more |-> {}] /\ managerDisk = manager
    /\ command = [c \in Commands |-> NoCommand]
    /\ device = [d \in Devices |-> [setup |-> FALSE, user |-> Own, pw |-> 0, at |-> "idle", next |-> 0]]
    /\ deviceDisk = [d \in Devices |-> [setup |-> FALSE, user |-> Own, pw |-> 0]]
    /\ secretStorage \in BOOLEAN /\ passwords = 0 /\ admitted = {} /\ turns = 0 /\ mishaps = 0

Lets(user, pw) == pw # 0 /\ accounts[user] = pw
Reaches(user, pw) == Lets(user, pw) /\ user \in security
\* The manager has the account on its list, and has stored that.
OnLists(u) == u \in accountsOf(manager) /\ u \in accountsOf(managerDisk)
CutOff(users) == admitted' = {d \in admitted : device[d].user \notin users}

-----------------------------------------------------------------------------
(* The manager's commands; nothing serialises them.  A password goes to    *)
(* the secret storage, where there is one, before the settings are saved.  *)

Remember(pw) ==
    /\ manager' = [manager EXCEPT !.pw = pw]
    /\ managerDisk' = IF secretStorage THEN [managerDisk EXCEPT !.pw = pw] ELSE managerDisk
At(c, step) == command[c].at = step
Unused(c) == command[c].op = "none"
Becoming(c, r) == command' = [command EXCEPT ![c] = r]
Goes(c, step) == Becoming(c, [command[c] EXCEPT !.at = step])

\* Faulty ProvisionedUsers: the accounts of the further devices are left out.
OwnOnly(m) == {Own}
ProvisionedUsers(m) == accountsOf(m)
\* provision: a member who has an account gets a new password; the accounts that the database is
\* to admit are read here.
Provision(c, m, pw, prev) ==
    Becoming(c, [NoCommand EXCEPT !.op = "member", !.pw = pw, !.prev = prev, !.at = "account",
                                  !.users = ProvisionedUsers(m)])
InviteMember(c) ==
    /\ Unused(c) /\ Turn /\ passwords' = NewPassword
    /\ Provision(c, manager, IF manager.provisioned \/ manager.pw = 0 THEN NewPassword ELSE manager.pw, -1)
    /\ UNCHANGED <<server, manager, managerDisk, invites, deviceSide, fixed, admitted, mishaps>>
\* The new password is remembered before the account has it.
RotateMemberPassword(c) ==
    /\ Unused(c) /\ Turn /\ Remember(NewPassword) /\ passwords' = NewPassword
    /\ Provision(c, manager, NewPassword, manager.pw)
    /\ UNCHANGED <<server, invites, deviceSide, fixed, admitted, mishaps>>
\* nextDeviceUsername: a name of a device account that is not taken; two commands may find the same.
InviteDevice(c) ==
    /\ Unused(c) /\ Turn /\ manager.provisioned /\ passwords' = NewPassword
    /\ \E u \in MoreAccounts \ manager.more :
         Becoming(c, [NoCommand EXCEPT !.op = "device", !.user = u, !.pw = NewPassword, !.at = "account"])
    /\ UNCHANGED <<server, manager, managerDisk, invites, deviceSide, fixed, admitted, mishaps>>
RevokeDevice(c, u) ==
    /\ Unused(c) /\ u \in manager.more /\ Turn
    /\ Becoming(c, [NoCommand EXCEPT !.op = "revoke", !.user = u, !.at = "account"])
    /\ UNCHANGED <<server, manager, managerDisk, invites, deviceSide, fixed, passwords, admitted, mishaps>>

\* A reissue that fails goes back to the password it had.
GiveUp(c) ==
    /\ Becoming(c, NoCommand)
    /\ IF command[c].prev # -1 /\ command[c].op = "member" THEN Remember(command[c].prev)
       ELSE UNCHANGED <<manager, managerDisk>>
\* ensureUser and deleteUser: the account gets the password of the command, or
\* is gone; a failure, or an answer that is lost, ends the command.
EnsureUser(c) ==
    /\ At(c, "account")
    /\ accounts' = [accounts EXCEPT ![command[c].user] = command[c].pw] /\ CutOff({command[c].user})
    /\ \/ Goes(c, "access") /\ UNCHANGED <<manager, managerDisk, mishaps>>
       \/ Mishap /\ GiveUp(c)
    /\ UNCHANGED <<database, security, invites, deviceSide, fixed, turns, passwords>>
EnsureUserFails(c) ==
    /\ At(c, "account") /\ Mishap /\ GiveUp(c)
    /\ UNCHANGED <<server, invites, deviceSide, fixed, turns, passwords, admitted>>

\* createDbWithSecurity, first request: an answer that is lost leaves the database behind.
CreateDb(c) ==
    /\ command[c].op = "member" /\ At(c, "access") /\ database' = TRUE
    /\ \/ /\ Becoming(c, [command[c] EXCEPT !.at = "put", !.made = ~database])
          /\ UNCHANGED <<manager, managerDisk, mishaps>>
       \/ Mishap /\ GiveUp(c)
    /\ UNCHANGED <<accounts, security, invites, deviceSide, fixed, turns, passwords, admitted>>
CreateDbFails(c) ==
    /\ command[c].op = "member" /\ At(c, "access") /\ Mishap /\ GiveUp(c)
    /\ UNCHANGED <<server, invites, deviceSide, fixed, turns, passwords, admitted>>
\* inviteDevice and revokeDevice change the list, refreshAccountAccess reads it.  What a
\* revocation takes off the list is cut off, even if the name was given out again meanwhile.
RefreshAccountAccess(c) ==
    LET u == command[c].user
        added == IF command[c].op = "device" THEN {u} ELSE {}
        m == [manager EXCEPT !.more = IF command[c].op = "device" THEN @ \cup {u} ELSE @ \ {u}]
    IN /\ command[c].op \in {"device", "revoke"} /\ At(c, "access")
       /\ manager' = m /\ IF command[c].op = "revoke" THEN CutOff({u}) ELSE UNCHANGED admitted
       /\ command' = [k \in Commands |->
             IF k = c THEN [command[c] EXCEPT !.at = "put", !.users = accountsOf(m)]
             ELSE IF Unused(k) THEN command[k] ELSE [command[k] EXCEPT !.passed = @ \cup added]]
       /\ UNCHANGED <<server, invites, managerDisk, deviceSide, fixed, turns, passwords, mishaps>>

\* setSecurity has its answer: provision remembers the member, refreshAccountAccess goes on.
Answered(c) ==
    /\ Goes(c, "save")
    /\ IF command[c].op = "member"
       THEN /\ manager' = [manager EXCEPT !.pw = command[c].pw, !.provisioned = TRUE]
            /\ managerDisk' = IF secretStorage THEN [managerDisk EXCEPT !.pw = command[c].pw] ELSE managerDisk
       ELSE UNCHANGED <<manager, managerDisk>>
\* It fails: provision takes back a database it made, refreshAccountAccess does not look.
Declined(c) ==
    IF command[c].op # "member" THEN Goes(c, "save") /\ UNCHANGED <<manager, managerDisk>>
    ELSE IF command[c].made THEN Goes(c, "roll") /\ UNCHANGED <<manager, managerDisk>>
    ELSE GiveUp(c)
\* The list is written as it was read; accounts that came onto the manager's list since are shut
\* out unless they were on it.
SetSecurity(c) ==
    /\ At(c, "put") /\ database
    /\ security' = command[c].users /\ CutOff(command[c].passed \ command[c].users)
    /\ \/ Answered(c) /\ UNCHANGED mishaps
       \/ Declined(c) /\ Mishap
    /\ UNCHANGED <<accounts, database, invites, deviceSide, fixed, turns, passwords>>
SetSecurityFails(c) ==
    /\ At(c, "put") /\ Declined(c) /\ IF database THEN Mishap ELSE UNCHANGED mishaps
    /\ UNCHANGED <<server, invites, deviceSide, fixed, turns, passwords, admitted>>
\* deleteDatabase, whoever has been let into it meanwhile.
RollBack(c) ==
    /\ At(c, "roll") /\ GiveUp(c)
    /\ \/ database' = FALSE /\ security' = {} /\ admitted' = {} /\ UNCHANGED mishaps
       \/ Mishap /\ UNCHANGED <<database, security, admitted>>
    /\ UNCHANGED <<accounts, invites, deviceSide, fixed, turns, passwords>>
SaveManager(c) ==
    /\ At(c, "save") /\ managerDisk' = manager
    /\ IF command[c].op = "revoke" THEN Becoming(c, NoCommand) ELSE Goes(c, "show")
    /\ UNCHANGED <<server, manager, invites, deviceSide, fixed, turns, passwords, admitted, mishaps>>
ShowInvite(c) ==
    /\ At(c, "show") /\ Becoming(c, NoCommand)
    /\ invites' = invites \cup {[user |-> command[c].user, pw |-> command[c].pw]}
    /\ UNCHANGED <<server, manager, managerDisk, deviceSide, fixed, turns, passwords, admitted, mishaps>>
RestartManager ==
    /\ \E c \in Commands : ~Unused(c)
    /\ Mishap /\ manager' = managerDisk /\ command' = [c \in Commands |-> NoCommand]
    /\ UNCHANGED <<server, managerDisk, invites, deviceSide, fixed, turns, passwords, admitted>>

-----------------------------------------------------------------------------
(* A device applies an invite.                                              *)

Becomes(d, r) == device' = [device EXCEPT ![d] = r]
Stored(r) == [setup |-> r.setup, user |-> r.user, pw |-> r.pw]
Restored(r) == [setup |-> r.setup, user |-> r.user, pw |-> r.pw, at |-> "idle", next |-> 0]
\* persistCouchPassword: apart from the settings, or with them when they are saved.
PersistPassword(d, pw) ==
    deviceDisk' = IF secretStorage THEN [deviceDisk EXCEPT ![d].pw = pw] ELSE deviceDisk
\* An invite that cannot be read, has expired or is not confirmed changes nothing.
ApplyInvite(d, i) ==
    /\ device[d].at = "idle" /\ Turn
    /\ Becomes(d, [setup |-> TRUE, user |-> i.user, pw |-> i.pw, at |-> "save", next |-> 0])
    /\ PersistPassword(d, i.pw) /\ admitted' = admitted \ {d}
    /\ UNCHANGED <<server, managerSide, fixed, passwords, mishaps>>
SaveSettings(d) ==
    /\ device[d].at \in {"save", "kept"}
    /\ deviceDisk' = [deviceDisk EXCEPT ![d] = Stored(device[d])]
    /\ Becomes(d, [device[d] EXCEPT !.at = IF @ = "save" THEN "probe" ELSE "idle"])
    /\ UNCHANGED <<server, managerSide, fixed, turns, passwords, admitted, mishaps>>
\* Declined, or no answer: the mode starts all the same.
ProbeStatus(d) ==
    /\ device[d].at = "probe"
    /\ \/ /\ Reaches(device[d].user, device[d].pw)
          /\ Becomes(d, [device[d] EXCEPT !.at = "rotate"]) /\ UNCHANGED mishaps
          /\ admitted' = IF OnLists(device[d].user) THEN admitted \cup {d} ELSE admitted
       \/ /\ IF Reaches(device[d].user, device[d].pw) THEN Mishap ELSE UNCHANGED mishaps
          /\ Becomes(d, [device[d] EXCEPT !.at = "idle"]) /\ UNCHANGED admitted
    /\ UNCHANGED <<server, managerSide, deviceDisk, fixed, turns, passwords>>
\* rotateOwnPassword, with the password of the invite; when its answer is lost
\* the device keeps a password that has been replaced.
RotateOwnPassword(d) ==
    LET u == device[d].user IN
    /\ device[d].at = "rotate" /\ Lets(u, device[d].pw) /\ passwords' = NewPassword
    /\ accounts' = [accounts EXCEPT ![u] = NewPassword]
    /\ \/ /\ Becomes(d, [device[d] EXCEPT !.at = "keep", !.next = NewPassword])
          /\ admitted' = {e \in admitted : device[e].user # u \/ e = d} /\ UNCHANGED mishaps
       \/ Becomes(d, [device[d] EXCEPT !.at = "idle"]) /\ CutOff({u}) /\ Mishap
    /\ UNCHANGED <<database, security, managerSide, deviceDisk, fixed, turns>>
\* Declined by the server, or failed before it did anything.
RotateFails(d) ==
    /\ device[d].at = "rotate" /\ Becomes(d, [device[d] EXCEPT !.at = "idle"])
    /\ IF Lets(device[d].user, device[d].pw) THEN Mishap ELSE UNCHANGED mishaps
    /\ UNCHANGED <<server, managerSide, deviceDisk, fixed, turns, passwords, admitted>>
KeepPassword(d) ==
    /\ device[d].at = "keep"
    /\ Becomes(d, [device[d] EXCEPT !.at = "kept", !.pw = device[d].next, !.next = 0])
    /\ PersistPassword(d, device[d].next)
    /\ UNCHANGED <<server, managerSide, fixed, turns, passwords, admitted, mishaps>>
\* A restart between the server's new password and its being stored shuts the
\* device out.
RestartDevice(d) ==
    /\ device[d].at # "idle" /\ Mishap
    /\ Becomes(d, Restored(deviceDisk[d]))
    /\ admitted' = IF device[d].at \in {"save", "keep"} \/ (device[d].at = "kept" /\ ~secretStorage)
                   THEN admitted \ {d} ELSE admitted
    /\ UNCHANGED <<server, managerSide, deviceDisk, fixed, turns, passwords>>
\* resetSetup keeps the account; an import of settings forgets the password.
ResetSetup(d) ==
    /\ device[d].at = "idle" /\ Turn /\ device[d].setup
    /\ Becomes(d, [device[d] EXCEPT !.setup = FALSE])
    /\ deviceDisk' = [deviceDisk EXCEPT ![d] = Stored([device[d] EXCEPT !.setup = FALSE])]
    /\ admitted' = admitted \ {d}
    /\ UNCHANGED <<server, managerSide, fixed, passwords, mishaps>>
ImportSettings(d) ==
    /\ device[d].at = "idle" /\ Turn /\ device[d].pw # 0
    /\ Becomes(d, [device[d] EXCEPT !.pw = 0])
    /\ deviceDisk' = [deviceDisk EXCEPT ![d] = Stored([device[d] EXCEPT !.pw = 0])]
    /\ admitted' = admitted \ {d}
    /\ UNCHANGED <<server, managerSide, fixed, passwords, mishaps>>

InvitationsNext ==
    \/ \E c \in Commands :
         \/ InviteMember(c) \/ RotateMemberPassword(c) \/ InviteDevice(c) \/ \E u \in Users : RevokeDevice(c, u)
         \/ EnsureUser(c) \/ EnsureUserFails(c) \/ CreateDb(c) \/ CreateDbFails(c)
         \/ RefreshAccountAccess(c) \/ SetSecurity(c) \/ SetSecurityFails(c) \/ RollBack(c)
         \/ SaveManager(c) \/ ShowInvite(c)
    \/ RestartManager
    \/ \E i \in invites, d \in Devices : ApplyInvite(d, i)
    \/ \E d \in Devices :
         \/ SaveSettings(d) \/ ProbeStatus(d) \/ RotateOwnPassword(d) \/ RotateFails(d)
         \/ KeepPassword(d) \/ RestartDevice(d) \/ ResetSetup(d) \/ ImportSettings(d)

InvitationsSpec == InvitationsInit /\ [][InvitationsNext]_inviteVars

-----------------------------------------------------------------------------
\* A device that an account of the manager's list lets in stays in: with what it has stored, or
\* with the password it is about to store, it reaches the member's database, however the manager's
\* commands overlap, whichever requests fail and whichever program restarts.  What ends it is named
\* by admitted: the account gets a new password, is deleted or taken off the list; another device
\* replaces the password, or the answer with the new one is lost before it is stored; a command
\* that had read the accounts before this one came onto the list writes them after it; the
\* provisioning that created the database takes it back (OnboardingController.ingestInvite,
\* MemberController.provision, inviteDevice, revokeDevice, CouchAdmin.createDbWithSecurity).
AdmittedStaysIn ==
    \A d \in admitted :
      /\ Reaches(device[d].user, IF device[d].at = "keep" THEN device[d].next ELSE device[d].pw)
      /\ device[d].at = "idle" => Reaches(deviceDisk[d].user, deviceDisk[d].pw)
=============================================================================
