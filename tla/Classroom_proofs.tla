------------------------- MODULE Classroom_proofs -------------------------
(***************************************************************************)
(* Proofs about what a class shares through the panel, for every value of  *)
(* the constants: invitations and who is admitted by them (Invitations),   *)
(* the remarks the panel shows (Feedback), the records of assignments      *)
(* (Assignments), on any trees of revisions, the weekly timetables         *)
(* (Lessons) and the checklists with their saves (Routines).               *)
(***************************************************************************)
EXTENDS Invitations, Feedback, Assignments, Lessons, Routines, RevisionTrees_proofs

(* Invitations: the invariant.                                               *)

Books == [provisioned : BOOLEAN, pw : Nat, more : SUBSET MoreAccounts]
CommandStates ==
    [op : {"none", "member", "device", "revoke"}, user : Users, pw : Nat, prev : Nat \cup {-1},
     at : {"idle", "account", "access", "put", "roll", "save", "show"},
     users : SUBSET Users, passed : SUBSET Users, made : BOOLEAN]
DeviceStates == [setup : BOOLEAN, user : Users, pw : Nat,
                 at : {"idle", "save", "probe", "rotate", "keep", "kept"}, next : Nat]
DiskStates == [setup : BOOLEAN, user : Users, pw : Nat]

InviteTypes ==
    /\ accounts \in [Users -> Nat] /\ database \in BOOLEAN
    /\ invites \in SUBSET [user : Users, pw : Nat]
    /\ manager \in Books /\ managerDisk \in Books
    /\ command \in [Commands -> CommandStates]
    /\ device \in [Devices -> DeviceStates] /\ deviceDisk \in [Devices -> DiskStates]
    /\ secretStorage \in BOOLEAN /\ passwords \in Nat /\ admitted \in SUBSET Devices

\* A command that will write the accounts it has read, or has begun to.
HoldsList(r) == r.op = "member" \/ (r.op # "none" /\ r.at = "put")
\* What is on the manager's list now it has read, or it is known to have come since.
Covers(r, m) == accountsOf(m) \subseteq r.users \cup r.passed
CommandInOrder ==
    \A c \in Commands :
        /\ command[c].op = "none" => command[c].at = "idle"
        /\ command[c].op = "device" => command[c].user \in MoreAccounts
        /\ HoldsList(command[c]) => Covers(command[c], manager)

\* Apart from the steps between, a device has stored what it knows.
DiskFollows ==
    \A d \in Devices :
        device[d].at \in {"idle", "probe", "rotate", "keep"} \/ (device[d].at = "kept" /\ secretStorage)
            => deviceDisk[d].user = device[d].user /\ deviceDisk[d].pw = device[d].pw

Current(d) == IF device[d].at = "keep" THEN device[d].next ELSE device[d].pw
\* Who was let in is let in still, by an account the manager has on its list.
LetInAreIn ==
    \A d \in admitted : /\ device[d].at \notin {"save", "probe"}
                        /\ Reaches(device[d].user, Current(d)) /\ OnLists(device[d].user)

InvitesInv == InviteTypes /\ CommandInOrder /\ DiskFollows /\ LetInAreIn

LEMMA NoCommandTyped == NoCommand \in CommandStates
  BY DEF NoCommand, CommandStates, Users

LEMMA InvitesInvInit == InvitationsInit => InvitesInv
<1> SUFFICES ASSUME InvitationsInit PROVE InvitesInv
  OBVIOUS
<1>1. InviteTypes
  BY NoCommandTyped DEF InvitationsInit, InviteTypes, Books, DeviceStates, DiskStates, Users
<1>2. CommandInOrder
  BY DEF InvitationsInit, CommandInOrder, NoCommand, HoldsList
<1>3. DiskFollows /\ LetInAreIn
  BY DEF InvitationsInit, DiskFollows, LetInAreIn
<1>4. QED
  BY <1>1, <1>2, <1>3 DEF InvitesInv

\* What the types give of one device.
LEMMA DeviceTyped ==
    ASSUME InviteTypes, NEW d \in Devices
    PROVE  /\ device[d] \in DeviceStates /\ deviceDisk[d] \in DiskStates
           /\ device[d].user \in Users /\ device[d].pw \in Nat /\ device[d].next \in Nat
           /\ deviceDisk[d].user \in Users /\ deviceDisk[d].pw \in Nat
           /\ accounts[device[d].user] \in Nat
  BY DEF InviteTypes, DeviceStates, DiskStates

\* And of one command and of what the manager knows.
LEMMA CommandTyped ==
    ASSUME InvitesInv, NEW c \in Commands
    PROVE  /\ command[c] \in CommandStates
           /\ command[c].op \in {"none", "member", "device", "revoke"} /\ command[c].user \in Users
           /\ command[c].pw \in Nat /\ command[c].prev \in Nat \cup {-1}
           /\ command[c].users \subseteq Users /\ command[c].passed \subseteq Users
           /\ command[c].at = "idle" \/ command[c].op # "none"
           /\ command[c].op = "device" => command[c].user \in MoreAccounts
           /\ HoldsList(command[c]) => Covers(command[c], manager)
  BY DEF InvitesInv, InviteTypes, CommandStates, CommandInOrder

LEMMA BooksTyped ==
    ASSUME InvitesInv
    PROVE  /\ manager \in Books /\ managerDisk \in Books /\ passwords \in Nat /\ NewPassword \in Nat
           /\ manager.pw \in Nat /\ manager.more \subseteq MoreAccounts
           /\ accountsOf(manager) \subseteq Users /\ accountsOf(managerDisk) \subseteq Users
  BY DEF InvitesInv, InviteTypes, Books, NewPassword, accountsOf, Users

----------------------------------------------------------------------------
(* The manager's commands.                                                  *)

\* Whoever is counted as let in after a step of the manager still reaches the database, if the
\* step leaves his account, his admission and his place on the lists.
LEMMA LetInStay ==
    ASSUME InviteTypes, LetInAreIn, UNCHANGED deviceSide, admitted' \in SUBSET admitted,
           \A d \in admitted' : /\ accounts'[device[d].user] = accounts[device[d].user]
                                /\ device[d].user \in security'
                                /\ device[d].user \in accountsOf(manager')
                                /\ device[d].user \in accountsOf(managerDisk')
    PROVE  LetInAreIn'
  BY DEF LetInAreIn, Reaches, Lets, Current, OnLists, deviceSide, accountsOf

LEMMA DisksStay ==
    ASSUME DiskFollows, UNCHANGED <<deviceSide, fixed>>
    PROVE  DiskFollows'
  BY DEF DiskFollows, deviceSide, fixed

\* One command moves on; the manager's list stays, and the stored one stays or becomes the same.
LEMMA CommandMoves ==
    ASSUME InvitesInv, NEW c \in Commands, NEW r \in CommandStates, Becoming(c, r),
           manager' \in Books, managerDisk' \in Books, manager'.more = manager.more,
           managerDisk'.more \in {managerDisk.more, manager.more},
           accounts' \in [Users -> Nat], database' \in BOOLEAN, passwords' \in Nat,
           invites' \in SUBSET [user : Users, pw : Nat], UNCHANGED <<deviceSide, fixed>>,
           admitted' \in SUBSET admitted,
           \A d \in admitted' : /\ accounts'[device[d].user] = accounts[device[d].user]
                                /\ device[d].user \in security => device[d].user \in security',
           r.op = "none" => r.at = "idle", r.op = "device" => r.user \in MoreAccounts,
           HoldsList(r) => Covers(r, manager)
    PROVE  InvitesInv'
<1>1. command \in [Commands -> CommandStates] /\ InviteTypes
  BY DEF InvitesInv, InviteTypes
<1>2. /\ command' \in [Commands -> CommandStates] /\ command'[c] = r
      /\ \A k \in Commands \ {c} : command'[k] = command[k]
  BY <1>1 DEF Becoming
<1>3. InviteTypes'
  BY <1>1, <1>2 DEF InviteTypes, deviceSide, fixed
<1>4. accountsOf(manager') = accountsOf(manager)
      /\ accountsOf(managerDisk') \in {accountsOf(managerDisk), accountsOf(manager)}
  BY DEF accountsOf
<1>5. CommandInOrder'
  <2> SUFFICES ASSUME NEW k \in Commands
               PROVE  /\ command'[k].op = "none" => command'[k].at = "idle"
                      /\ command'[k].op = "device" => command'[k].user \in MoreAccounts
                      /\ HoldsList(command'[k]) => Covers(command'[k], manager')
    BY DEF CommandInOrder, HoldsList, Covers, accountsOf
  <2>1. Covers(command'[k], manager') <=> Covers(command'[k], manager)
    BY <1>4 DEF Covers
  <2>2. CASE k = c
    BY <1>2, <2>1, <2>2
  <2>3. CASE k # c
    BY <1>2, <2>1, <2>3 DEF InvitesInv, CommandInOrder
  <2>4. QED
    BY <2>2, <2>3
<1>6. \A d \in admitted' : /\ device[d].user \in security
                           /\ device[d].user \in accountsOf(manager) /\ device[d].user \in accountsOf(managerDisk)
  BY DEF InvitesInv, LetInAreIn, Reaches, OnLists
<1>7. LetInAreIn' /\ DiskFollows'
  BY <1>1, <1>4, <1>6, LetInStay, DisksStay DEF InvitesInv
<1>8. QED
  BY <1>3, <1>5, <1>7 DEF InvitesInv

\* As above, and all that is outside the manager's program stays.
LEMMA CommandMovesAlone ==
    ASSUME InvitesInv, NEW c \in Commands, NEW r \in CommandStates, Becoming(c, r),
           manager' \in Books, managerDisk' \in Books, manager'.more = manager.more,
           managerDisk'.more \in {managerDisk.more, manager.more}, passwords' \in Nat,
           UNCHANGED <<server, invites, deviceSide, fixed, admitted>>,
           r.op = "none" => r.at = "idle", r.op = "device" => r.user \in MoreAccounts,
           HoldsList(r) => Covers(r, manager)
    PROVE  InvitesInv'
<1>1. /\ accounts' \in [Users -> Nat] /\ database' \in BOOLEAN /\ invites' \in SUBSET [user : Users, pw : Nat]
      /\ admitted' \in SUBSET admitted
  BY DEF InvitesInv, InviteTypes, server
<1>2. UNCHANGED <<deviceSide, fixed>> /\ accounts' = accounts /\ security' = security
  BY DEF server
<1>3. \A d \in admitted' : /\ accounts'[device[d].user] = accounts[device[d].user]
                           /\ device[d].user \in security => device[d].user \in security'
  BY <1>2
<1>4. QED
  BY <1>1, <1>2, <1>3, CommandMoves

\* Remembering a password touches no list.
LEMMA Remembered ==
    ASSUME InvitesInv, NEW p \in Nat, Remember(p)
    PROVE  /\ manager' \in Books /\ managerDisk' \in Books
           /\ manager'.more = manager.more /\ managerDisk'.more = managerDisk.more
  BY BooksTyped DEF Remember, Books

\* The accounts provision reads are those of the list.
LEMMA Provisions ==
    ASSUME InvitesInv, NEW c \in Commands, NEW p \in Nat, NEW q \in Nat \cup {-1},
           Provision(c, manager, p, q)
    PROVE  \E r \in CommandStates : /\ Becoming(c, r) /\ r.op = "member" /\ Covers(r, manager)
<1> DEFINE r == [NoCommand EXCEPT !.op = "member", !.pw = p, !.prev = q, !.at = "account",
                                  !.users = ProvisionedUsers(manager)]
<1>1. accountsOf(manager) \subseteq Users
  BY BooksTyped
<1>2. r \in CommandStates /\ r.op = "member" /\ r.users = accountsOf(manager)
  BY <1>1 DEF NoCommand, CommandStates, ProvisionedUsers, Users
<1>3. Covers(r, manager)
  BY <1>2 DEF Covers
<1>4. Becoming(c, r)
  BY DEF Provision
<1>5. QED
  BY <1>2, <1>3, <1>4

LEMMA InviteMemberStep ==
    ASSUME InvitesInv, NEW c \in Commands, InviteMember(c) PROVE InvitesInv'
<1>1. /\ manager \in Books /\ managerDisk \in Books /\ manager.pw \in Nat /\ NewPassword \in Nat
  BY BooksTyped
<1>2. PICK p \in Nat : Provision(c, manager, p, -1)
  BY <1>1 DEF InviteMember
<1>3. PICK r \in CommandStates : Becoming(c, r) /\ r.op = "member" /\ Covers(r, manager)
  BY <1>2, Provisions
<1>4. /\ passwords' \in Nat /\ UNCHANGED <<server, manager, managerDisk, invites, deviceSide, fixed, admitted>>
  BY <1>1 DEF InviteMember
<1>5. QED
  BY <1>1, <1>3, <1>4, CommandMovesAlone

LEMMA RotateMemberPasswordStep ==
    ASSUME InvitesInv, NEW c \in Commands, RotateMemberPassword(c) PROVE InvitesInv'
<1>1. /\ manager.pw \in Nat /\ NewPassword \in Nat
  BY BooksTyped
<1>2. Provision(c, manager, NewPassword, manager.pw) /\ Remember(NewPassword)
  BY DEF RotateMemberPassword
<1>3. PICK r \in CommandStates : Becoming(c, r) /\ r.op = "member" /\ Covers(r, manager)
  BY <1>1, <1>2, Provisions
<1>4. /\ passwords' \in Nat /\ UNCHANGED <<server, invites, deviceSide, fixed, admitted>>
  BY <1>1 DEF RotateMemberPassword
<1>5. /\ manager' \in Books /\ managerDisk' \in Books
      /\ manager'.more = manager.more /\ managerDisk'.more = managerDisk.more
  BY <1>1, <1>2, Remembered
<1>6. QED
  BY <1>3, <1>4, <1>5, CommandMovesAlone

LEMMA InviteDeviceStep ==
    ASSUME InvitesInv, NEW c \in Commands, InviteDevice(c) PROVE InvitesInv'
<1>1. /\ manager \in Books /\ managerDisk \in Books /\ NewPassword \in Nat
  BY BooksTyped
<1>2. PICK u \in MoreAccounts :
         Becoming(c, [NoCommand EXCEPT !.op = "device", !.user = u, !.pw = NewPassword, !.at = "account"])
  BY DEF InviteDevice
<1> DEFINE r == [NoCommand EXCEPT !.op = "device", !.user = u, !.pw = NewPassword, !.at = "account"]
<1>3. r \in CommandStates /\ r.op = "device" /\ r.user = u /\ r.at = "account"
  BY <1>1 DEF NoCommand, CommandStates, Users
<1>4. Becoming(c, r)
  BY <1>2
<1> HIDE DEF r
<1>5. /\ passwords' \in Nat /\ UNCHANGED <<server, manager, managerDisk, invites, deviceSide, fixed, admitted>>
  BY <1>1 DEF InviteDevice
<1>6. ~HoldsList(r)
  BY <1>3 DEF HoldsList
<1>7. QED
  BY <1>1, <1>3, <1>4, <1>5, <1>6, CommandMovesAlone

LEMMA RevokeDeviceStep ==
    ASSUME InvitesInv, NEW c \in Commands, NEW u \in Users, RevokeDevice(c, u) PROVE InvitesInv'
<1> DEFINE r == [NoCommand EXCEPT !.op = "revoke", !.user = u, !.at = "account"]
<1>1. /\ manager \in Books /\ managerDisk \in Books /\ passwords \in Nat
  BY BooksTyped
<1>2. r \in CommandStates /\ r.op = "revoke" /\ r.at = "account"
  BY DEF NoCommand, CommandStates, Users
<1>3. Becoming(c, r) /\ UNCHANGED <<server, manager, managerDisk, invites, deviceSide, fixed, admitted, passwords>>
  BY DEF RevokeDevice
<1> HIDE DEF r
<1>4. ~HoldsList(r)
  BY <1>2 DEF HoldsList
<1>5. QED
  BY <1>1, <1>2, <1>3, <1>4, CommandMovesAlone

\* A command that ends: the password it goes back to is on no list.
LEMMA GivenUp ==
    ASSUME InvitesInv, NEW c \in Commands, GiveUp(c)
    PROVE  /\ Becoming(c, NoCommand)
           /\ manager' \in Books /\ managerDisk' \in Books
           /\ manager'.more = manager.more /\ managerDisk'.more = managerDisk.more
<1>1. command[c].prev \in Nat \cup {-1}
  BY CommandTyped
<1>2. CASE command[c].prev # -1 /\ command[c].op = "member"
  <2>1. command[c].prev \in Nat /\ Remember(command[c].prev)
    BY <1>1, <1>2 DEF GiveUp
  <2>2. QED
    BY <2>1, Remembered DEF GiveUp
<1>3. CASE ~(command[c].prev # -1 /\ command[c].op = "member")
  BY <1>3, BooksTyped DEF GiveUp
<1>4. QED
  BY <1>2, <1>3

LEMMA NoCommandInOrder == NoCommand.op = "none" /\ NoCommand.at = "idle" /\ ~HoldsList(NoCommand)
  BY DEF NoCommand, HoldsList

LEMMA CommandEnds ==
    ASSUME InvitesInv, NEW c \in Commands, GiveUp(c),
           UNCHANGED <<server, invites, deviceSide, fixed, passwords, admitted>>
    PROVE  InvitesInv'
<1>1. /\ Becoming(c, NoCommand)
      /\ manager' \in Books /\ managerDisk' \in Books
      /\ manager'.more = manager.more /\ managerDisk'.more = managerDisk.more
  BY GivenUp
<1>2. /\ passwords' \in Nat /\ UNCHANGED <<server, invites, deviceSide, fixed, admitted>>
  BY BooksTyped
<1>3. QED
  BY <1>1, <1>2, NoCommandTyped, NoCommandInOrder, CommandMovesAlone

LEMMA EnsureUserFailsStep ==
    ASSUME InvitesInv, NEW c \in Commands, EnsureUserFails(c) PROVE InvitesInv'
  BY CommandEnds DEF EnsureUserFails

LEMMA CreateDbFailsStep ==
    ASSUME InvitesInv, NEW c \in Commands, CreateDbFails(c) PROVE InvitesInv'
  BY CommandEnds DEF CreateDbFails

\* A command goes on to its next step with what it holds.
LEMMA CommandGoes ==
    ASSUME InvitesInv, NEW c \in Commands, command[c].at # "idle",
           NEW step \in {"access", "roll", "save", "show"}, Goes(c, step)
    PROVE  \E r \in CommandStates :
              /\ Becoming(c, r) /\ r.op # "none" /\ r.op = command[c].op /\ r.user = command[c].user
              /\ r.op = "device" => r.user \in MoreAccounts
              /\ HoldsList(r) => Covers(r, manager)
<1> DEFINE r == [command[c] EXCEPT !.at = step]
<1>1. command[c] \in CommandStates /\ command[c].op # "none"
      /\ (command[c].op = "device" => command[c].user \in MoreAccounts)
      /\ (HoldsList(command[c]) => Covers(command[c], manager))
  BY CommandTyped
<1>2. /\ r \in CommandStates /\ r.op = command[c].op /\ r.user = command[c].user
      /\ r.users = command[c].users /\ r.passed = command[c].passed /\ r.at = step
  BY <1>1 DEF CommandStates
<1>3. HoldsList(r) => HoldsList(command[c])
  BY <1>1, <1>2 DEF HoldsList
<1>4. HoldsList(r) => Covers(r, manager)
  BY <1>1, <1>2, <1>3 DEF Covers
<1>5. Becoming(c, r)
  BY DEF Goes
<1> HIDE DEF r
<1>6. QED
  BY <1>1, <1>2, <1>4, <1>5

\* Setting one account to the password of a command; whoever used it is counted no longer.
LEMMA AccountSet ==
    ASSUME InvitesInv, NEW c \in Commands, EnsureUser(c)
    PROVE  /\ accounts' \in [Users -> Nat] /\ admitted' \in SUBSET admitted
           /\ \A d \in admitted' : accounts'[device[d].user] = accounts[device[d].user]
<1>1. accounts \in [Users -> Nat] /\ admitted \in SUBSET Devices
  BY DEF InvitesInv, InviteTypes
<1>2. command[c].user \in Users /\ command[c].pw \in Nat
  BY CommandTyped
<1>3. accounts' = [accounts EXCEPT ![command[c].user] = command[c].pw]
      /\ admitted' = {d \in admitted : device[d].user \notin {command[c].user}}
  BY DEF EnsureUser, CutOff
<1>4. \A d \in admitted' : device[d].user # command[c].user /\ device[d].user \in Users
  BY <1>1, <1>3, DeviceTyped DEF InvitesInv
<1>5. QED
  BY <1>1, <1>2, <1>3, <1>4

LEMMA EnsureUserStep == ASSUME InvitesInv, NEW c \in Commands, EnsureUser(c) PROVE InvitesInv'
<1>1. /\ accounts' \in [Users -> Nat] /\ admitted' \in SUBSET admitted
      /\ \A d \in admitted' : accounts'[device[d].user] = accounts[device[d].user]
  BY AccountSet
<1>2. /\ database' \in BOOLEAN /\ passwords' \in Nat /\ invites' \in SUBSET [user : Users, pw : Nat]
      /\ UNCHANGED <<deviceSide, fixed>> /\ security' = security /\ command[c].at # "idle"
  BY DEF EnsureUser, At, InvitesInv, InviteTypes
<1>3. CASE Goes(c, "access") /\ UNCHANGED <<manager, managerDisk>>
  <2>1. PICK r \in CommandStates : /\ Becoming(c, r) /\ r.op # "none" /\ (r.op = "device" => r.user \in MoreAccounts)
                                   /\ (HoldsList(r) => Covers(r, manager))
    BY <1>2, <1>3, CommandGoes
  <2>2. QED
    BY <1>1, <1>2, <1>3, <2>1, BooksTyped, CommandMoves
<1>4. CASE GiveUp(c)
  <2>1. /\ Becoming(c, NoCommand)
        /\ manager' \in Books /\ managerDisk' \in Books
        /\ manager'.more = manager.more /\ managerDisk'.more = managerDisk.more
    BY <1>4, GivenUp
  <2>2. QED
    BY <1>1, <1>2, <2>1, NoCommandTyped, NoCommandInOrder, CommandMoves
<1>5. QED
  BY <1>3, <1>4 DEF EnsureUser

LEMMA CreateDbStep == ASSUME InvitesInv, NEW c \in Commands, CreateDb(c) PROVE InvitesInv'
<1>1. /\ database' \in BOOLEAN /\ passwords' \in Nat /\ invites' \in SUBSET [user : Users, pw : Nat]
      /\ accounts' \in [Users -> Nat] /\ admitted' \in SUBSET admitted
      /\ UNCHANGED <<deviceSide, fixed>> /\ security' = security /\ accounts' = accounts
      /\ command[c].op = "member"
  BY DEF CreateDb, InvitesInv, InviteTypes
<1>2. CASE Becoming(c, [command[c] EXCEPT !.at = "put", !.made = ~database]) /\ UNCHANGED <<manager, managerDisk>>
  <2> DEFINE r == [command[c] EXCEPT !.at = "put", !.made = ~database]
  <2>1. command[c] \in CommandStates /\ Covers(command[c], manager) /\ database \in BOOLEAN
    BY <1>1, CommandTyped DEF HoldsList, InvitesInv, InviteTypes
  <2>2. /\ r \in CommandStates /\ r.op = "member" /\ r.users = command[c].users /\ r.passed = command[c].passed
    BY <1>1, <2>1 DEF CommandStates
  <2>3. Covers(r, manager)
    BY <2>1, <2>2 DEF Covers
  <2>4. Becoming(c, r)
    BY <1>2
  <2> HIDE DEF r
  <2>5. QED
    BY <1>1, <1>2, <2>2, <2>3, <2>4, BooksTyped, CommandMoves
<1>3. CASE GiveUp(c)
  <2>1. /\ Becoming(c, NoCommand)
        /\ manager' \in Books /\ managerDisk' \in Books
        /\ manager'.more = manager.more /\ managerDisk'.more = managerDisk.more
    BY <1>3, GivenUp
  <2>2. QED
    BY <1>1, <2>1, NoCommandTyped, NoCommandInOrder, CommandMoves
<1>4. QED
  BY <1>2, <1>3 DEF CreateDb

\* The list changes: every command under way but this one holds what it read before.
LEMMA RefreshAccountAccessStep ==
    ASSUME InvitesInv, NEW c \in Commands, RefreshAccountAccess(c) PROVE InvitesInv'
<1> DEFINE u == command[c].user
           added == IF command[c].op = "device" THEN {u} ELSE {}
           r == [command[c] EXCEPT !.at = "put", !.users = accountsOf(manager')]
<1>0. /\ command[c] \in CommandStates /\ u \in Users /\ command[c].op \in {"device", "revoke"}
      /\ (command[c].op = "device" => u \in MoreAccounts)
      /\ manager \in Books /\ InviteTypes
  BY CommandTyped, BooksTyped DEF RefreshAccountAccess, InvitesInv
<1>1. manager' = [manager EXCEPT !.more = IF command[c].op = "device" THEN @ \cup {u} ELSE @ \ {u}]
  BY DEF RefreshAccountAccess
<1>2. manager'.more = IF command[c].op = "device" THEN manager.more \cup {u} ELSE manager.more \ {u}
  BY <1>0, <1>1 DEF Books
<1>3. manager' \in Books
  BY <1>0, <1>1 DEF Books
<1>4. accountsOf(manager') \subseteq accountsOf(manager) \cup added
      /\ accountsOf(manager') \subseteq Users /\ added \subseteq Users
  BY <1>0, <1>2, BooksTyped DEF accountsOf, Users
<1>5. command' = [k \in Commands |->
         IF k = c THEN r
         ELSE IF Unused(k) THEN command[k] ELSE [command[k] EXCEPT !.passed = @ \cup added]]
  BY <1>1 DEF RefreshAccountAccess
<1>6. r \in CommandStates /\ r.op = command[c].op /\ r.user = u /\ r.users = accountsOf(manager')
  BY <1>0, <1>4 DEF CommandStates
<1> HIDE DEF r
<1>7. ASSUME NEW k \in Commands, k # c, ~Unused(k)
      PROVE  /\ command'[k] \in CommandStates /\ command'[k].op = command[k].op
             /\ command'[k].user = command[k].user /\ command'[k].users = command[k].users
             /\ command'[k].at = command[k].at /\ command'[k].passed = command[k].passed \cup added
  <2>1. command'[k] = [command[k] EXCEPT !.passed = @ \cup added]
    BY <1>5, <1>7
  <2>2. command[k] \in CommandStates
    BY CommandTyped
  <2>3. QED
    BY <1>4, <2>1, <2>2 DEF CommandStates
<1>8. \A k \in Commands : k # c /\ Unused(k) => command'[k] = command[k]
  BY <1>5
<1>9. command'[c] = r
  BY <1>5
<1>10. command' \in [Commands -> CommandStates]
  <2>1. \A k \in Commands : command'[k] \in CommandStates
    BY <1>6, <1>7, <1>8, <1>9, CommandTyped
  <2>2. QED
    BY <1>5, <2>1
<1>11. CommandInOrder'
  <2> SUFFICES ASSUME NEW k \in Commands
               PROVE  /\ command'[k].op = "none" => command'[k].at = "idle"
                      /\ command'[k].op = "device" => command'[k].user \in MoreAccounts
                      /\ HoldsList(command'[k]) => Covers(command'[k], manager')
    BY DEF CommandInOrder, HoldsList, Covers, accountsOf
  <2>1. CASE k = c
    BY <1>0, <1>6, <1>9, <2>1 DEF Covers
  <2>2. CASE k # c /\ Unused(k)
    BY <1>8, <2>2, CommandTyped DEF Unused, HoldsList
  <2>3. CASE k # c /\ ~Unused(k)
    <3>1. /\ command'[k].op = command[k].op /\ command'[k].user = command[k].user
          /\ command'[k].users = command[k].users /\ command'[k].at = command[k].at
          /\ command'[k].passed = command[k].passed \cup added
      BY <1>7, <2>3
    <3>2. HoldsList(command'[k]) => Covers(command[k], manager)
      BY <3>1, CommandTyped DEF HoldsList
    <3>3. Covers(command[k], manager) => Covers(command'[k], manager')
      BY <1>4, <3>1 DEF Covers
    <3>4. QED
      BY <3>1, <3>2, <3>3, CommandTyped
  <2>4. QED
    BY <2>1, <2>2, <2>3
<1>12. /\ UNCHANGED <<accounts, database, security, invites, managerDisk, deviceSide, fixed, passwords>>
       /\ admitted' = IF command[c].op = "revoke" THEN {d \in admitted : device[d].user \notin {u}} ELSE admitted
  BY DEF RefreshAccountAccess, server, CutOff
<1>13. InviteTypes'
  <2>1. admitted' \in SUBSET Devices
    BY <1>0, <1>12 DEF InviteTypes
  <2>2. QED
    BY <1>0, <1>3, <1>10, <1>12, <2>1 DEF InviteTypes, deviceSide, fixed
<1>14. LetInAreIn' /\ DiskFollows'
  <2>1. \A d \in admitted' : /\ device[d].user \in security /\ device[d].user \in accountsOf(manager)
                             /\ device[d].user \in accountsOf(managerDisk)
                             /\ command[c].op = "revoke" => device[d].user # u
    BY <1>12 DEF InvitesInv, LetInAreIn, Reaches, OnLists
  <2>2. \A d \in admitted' : device[d].user \in accountsOf(manager')
    BY <1>0, <1>2, <2>1 DEF accountsOf
  <2>3. admitted' \in SUBSET admitted
    BY <1>12
  <2>4. QED
    BY <1>0, <1>12, <2>1, <2>2, <2>3, LetInStay, DisksStay DEF InvitesInv
<1>15. QED
  BY <1>11, <1>13, <1>14 DEF InvitesInv

\* What a command does once it knows how its list was received: the lists stay.
LEMMA AnsweredOrRefused ==
    ASSUME InvitesInv, NEW c \in Commands, At(c, "put"), Answered(c) \/ Declined(c)
    PROVE  /\ \E r \in CommandStates : /\ Becoming(c, r) /\ (r.op = "none" => r.at = "idle")
                                        /\ (r.op = "device" => r.user \in MoreAccounts)
                                        /\ (HoldsList(r) => Covers(r, manager))
           /\ manager' \in Books /\ managerDisk' \in Books
           /\ manager'.more = manager.more /\ managerDisk'.more = managerDisk.more
<1>1. /\ manager \in Books /\ managerDisk \in Books /\ command[c].at # "idle" /\ command[c].pw \in Nat
  BY BooksTyped, CommandTyped DEF At
<1>2. CASE Answered(c)
  <2>1. \E r \in CommandStates : /\ Becoming(c, r) /\ r.op # "none" /\ (r.op = "device" => r.user \in MoreAccounts)
                                 /\ (HoldsList(r) => Covers(r, manager))
    BY <1>1, <1>2, CommandGoes DEF Answered
  <2>2. /\ manager' \in Books /\ managerDisk' \in Books
        /\ manager'.more = manager.more /\ managerDisk'.more = managerDisk.more
    BY <1>1, <1>2 DEF Answered, Books
  <2>3. QED
    BY <2>1, <2>2
<1>3. CASE \E step \in {"save", "roll"} : Goes(c, step) /\ UNCHANGED <<manager, managerDisk>>
  <2>1. PICK step \in {"save", "roll"} : Goes(c, step) /\ UNCHANGED <<manager, managerDisk>>
    BY <1>3
  <2>2. \E r \in CommandStates : /\ Becoming(c, r) /\ r.op # "none" /\ (r.op = "device" => r.user \in MoreAccounts)
                                 /\ (HoldsList(r) => Covers(r, manager))
    BY <1>1, <2>1, CommandGoes
  <2>3. QED
    BY <1>1, <2>1, <2>2
<1>4. CASE GiveUp(c)
  BY <1>4, GivenUp, NoCommandTyped, NoCommandInOrder
<1>5. Declined(c) => \/ \E step \in {"save", "roll"} : Goes(c, step) /\ UNCHANGED <<manager, managerDisk>>
                   \/ GiveUp(c)
  BY DEF Declined
<1>6. QED
  BY <1>2, <1>3, <1>4, <1>5

LEMMA SetSecurityStep == ASSUME InvitesInv, NEW c \in Commands, SetSecurity(c) PROVE InvitesInv'
<1>1. /\ At(c, "put") /\ security' = command[c].users
      /\ admitted' = {d \in admitted : device[d].user \notin command[c].passed \ command[c].users}
      /\ UNCHANGED <<accounts, database, invites, deviceSide, fixed, passwords>>
  BY DEF SetSecurity, CutOff
<1>a. Answered(c) \/ Declined(c)
  BY DEF SetSecurity
<1>2. PICK r \in CommandStates : /\ Becoming(c, r) /\ (r.op = "none" => r.at = "idle")
                                 /\ (r.op = "device" => r.user \in MoreAccounts)
                                 /\ (HoldsList(r) => Covers(r, manager))
  BY <1>1, <1>a, AnsweredOrRefused
<1>3. /\ manager' \in Books /\ managerDisk' \in Books
      /\ manager'.more = manager.more /\ managerDisk'.more = managerDisk.more
  BY <1>1, <1>a, AnsweredOrRefused
<1>4. Covers(command[c], manager)
  BY <1>1, CommandTyped DEF At, HoldsList
<1>5. ASSUME NEW d \in admitted' PROVE device[d].user \in security'
  <2>1. device[d].user \in accountsOf(manager)
    BY <1>1 DEF InvitesInv, LetInAreIn, OnLists
  <2>2. QED
    BY <1>1, <1>4, <2>1 DEF Covers
<1>6. /\ accounts' \in [Users -> Nat] /\ database' \in BOOLEAN /\ passwords' \in Nat
      /\ invites' \in SUBSET [user : Users, pw : Nat] /\ admitted' \in SUBSET admitted
      /\ \A d \in admitted' : accounts'[device[d].user] = accounts[device[d].user]
  BY <1>1 DEF InvitesInv, InviteTypes
<1>7. UNCHANGED <<deviceSide, fixed>>
  BY <1>1
<1>8. QED
  BY <1>2, <1>3, <1>5, <1>6, <1>7, CommandMoves

LEMMA SetSecurityFailsStep ==
    ASSUME InvitesInv, NEW c \in Commands, SetSecurityFails(c) PROVE InvitesInv'
<1>0. /\ At(c, "put") /\ Declined(c) /\ UNCHANGED <<server, invites, deviceSide, fixed, passwords, admitted>>
  BY DEF SetSecurityFails
<1>1. /\ At(c, "put") /\ Declined(c) /\ UNCHANGED <<server, invites, deviceSide, fixed, admitted>> /\ passwords' \in Nat
  BY <1>0, BooksTyped
<1>2. PICK r \in CommandStates : /\ Becoming(c, r) /\ (r.op = "none" => r.at = "idle")
                                 /\ (r.op = "device" => r.user \in MoreAccounts)
                                 /\ (HoldsList(r) => Covers(r, manager))
  BY <1>1, AnsweredOrRefused
<1>3. /\ manager' \in Books /\ managerDisk' \in Books
      /\ manager'.more = manager.more /\ managerDisk'.more = managerDisk.more
  BY <1>1, AnsweredOrRefused
<1>4. QED
  BY <1>1, <1>2, <1>3, CommandMovesAlone

LEMMA RollBackStep == ASSUME InvitesInv, NEW c \in Commands, RollBack(c) PROVE InvitesInv'
<1>1. /\ Becoming(c, NoCommand)
      /\ manager' \in Books /\ managerDisk' \in Books
      /\ manager'.more = manager.more /\ managerDisk'.more = managerDisk.more
  BY GivenUp DEF RollBack
<1>2. /\ UNCHANGED <<accounts, invites, deviceSide, fixed, passwords>>
      /\ admitted' = {} \/ (admitted' = admitted /\ security' = security)
      /\ database' \in {FALSE, database}
  BY DEF RollBack
<1>3. /\ accounts' \in [Users -> Nat] /\ database' \in BOOLEAN /\ passwords' \in Nat
      /\ invites' \in SUBSET [user : Users, pw : Nat] /\ admitted' \in SUBSET admitted
  BY <1>2 DEF InvitesInv, InviteTypes
<1>4. UNCHANGED <<deviceSide, fixed>>
  BY <1>2
<1>5. \A d \in admitted' : /\ accounts'[device[d].user] = accounts[device[d].user]
                           /\ device[d].user \in security => device[d].user \in security'
  BY <1>2
<1>6. managerDisk'.more \in {managerDisk.more, manager.more}
  BY <1>1
<1>7. QED
  BY <1>1, <1>3, <1>4, <1>5, <1>6, NoCommandTyped, NoCommandInOrder, CommandMoves

LEMMA SaveManagerStep == ASSUME InvitesInv, NEW c \in Commands, SaveManager(c) PROVE InvitesInv'
<1>1. /\ command[c].at = "save" /\ managerDisk' = manager /\ manager' = manager
      /\ UNCHANGED <<server, invites, deviceSide, fixed, admitted>> /\ passwords' \in Nat
  BY BooksTyped DEF SaveManager, At
<1>2. PICK r \in CommandStates : /\ Becoming(c, r) /\ (r.op = "none" => r.at = "idle")
                                 /\ (r.op = "device" => r.user \in MoreAccounts)
                                 /\ (HoldsList(r) => Covers(r, manager))
  <2>1. CASE Becoming(c, NoCommand)
    BY <2>1, NoCommandTyped, NoCommandInOrder
  <2>2. CASE Goes(c, "show")
    BY <1>1, <2>2, CommandGoes
  <2>3. QED
    BY <2>1, <2>2 DEF SaveManager
<1>3. QED
  BY <1>1, <1>2, BooksTyped, CommandMovesAlone

LEMMA ShowInviteStep == ASSUME InvitesInv, NEW c \in Commands, ShowInvite(c) PROVE InvitesInv'
<1>1. /\ Becoming(c, NoCommand) /\ invites' = invites \cup {[user |-> command[c].user, pw |-> command[c].pw]}
      /\ UNCHANGED <<accounts, database, security, manager, managerDisk, deviceSide, fixed, passwords, admitted>>
  BY DEF ShowInvite, server
<1>2. /\ accounts' \in [Users -> Nat] /\ database' \in BOOLEAN /\ passwords' \in Nat
      /\ invites' \in SUBSET [user : Users, pw : Nat] /\ admitted' \in SUBSET admitted
      /\ UNCHANGED <<deviceSide, fixed>>
      /\ \A d \in admitted' : /\ accounts'[device[d].user] = accounts[device[d].user]
                               /\ device[d].user \in security => device[d].user \in security'
  BY <1>1, CommandTyped DEF InvitesInv, InviteTypes
<1>3. QED
  BY <1>1, <1>2, BooksTyped, NoCommandTyped, NoCommandInOrder, CommandMoves

LEMMA RestartManagerStep == ASSUME InvitesInv, RestartManager PROVE InvitesInv'
<1>1. /\ manager' = managerDisk /\ command' = [c \in Commands |-> NoCommand]
      /\ UNCHANGED <<accounts, database, security, managerDisk, invites, deviceSide, fixed, passwords, admitted>>
  BY DEF RestartManager, server
<1>2. InviteTypes'
  BY <1>1, BooksTyped, NoCommandTyped DEF InvitesInv, InviteTypes, deviceSide, fixed
<1>3. CommandInOrder'
  BY <1>1, NoCommandInOrder DEF CommandInOrder, HoldsList
<1>4. LetInAreIn' /\ DiskFollows'
  <2>1. \A d \in admitted : device[d].user \in security /\ device[d].user \in accountsOf(managerDisk)
    BY DEF InvitesInv, LetInAreIn, Reaches, OnLists
  <2>2. QED
    BY <1>1, <2>1, LetInStay, DisksStay DEF InvitesInv
<1>5. QED
  BY <1>2, <1>3, <1>4 DEF InvitesInv

----------------------------------------------------------------------------
(* The devices.                                                             *)

\* A step that replaces what one device knows: only that device changes.
LEMMA OneBecomes ==
    ASSUME InviteTypes, NEW d \in Devices, NEW r \in DeviceStates, Becomes(d, r)
    PROVE  /\ device' \in [Devices -> DeviceStates] /\ device'[d] = r
           /\ \A e \in Devices \ {d} : device'[e] = device[e]
  BY DEF InviteTypes, Becomes

\* A step of one device that leaves the server and the manager.
LEMMA DeviceMoves ==
    ASSUME InvitesInv, NEW d \in Devices,
           device' \in [Devices -> DeviceStates], deviceDisk' \in [Devices -> DiskStates],
           \A e \in Devices \ {d} : device'[e] = device[e] /\ deviceDisk'[e] = deviceDisk[e],
           UNCHANGED <<server, manager, managerDisk, command, invites, fixed, passwords>>,
           admitted' \in SUBSET (admitted \cup {d}),
           device'[d].at \in {"idle", "probe", "rotate", "keep"} \/ (device'[d].at = "kept" /\ secretStorage)
               => deviceDisk'[d].user = device'[d].user /\ deviceDisk'[d].pw = device'[d].pw,
           d \in admitted' => /\ device'[d].at \notin {"save", "probe"}
                              /\ Reaches(device'[d].user, IF device'[d].at = "keep"
                                           THEN device'[d].next ELSE device'[d].pw)
                              /\ OnLists(device'[d].user)
    PROVE  InvitesInv'
<1>1. InviteTypes'
  BY DEF InvitesInv, InviteTypes, server, fixed
<1>3. CommandInOrder'
  BY DEF InvitesInv, CommandInOrder, HoldsList, Covers, accountsOf
<1>4. DiskFollows'
  BY DEF InvitesInv, DiskFollows, fixed
<1>5. LetInAreIn'
  <2> DEFINE Uses(e) == IF device'[e].at = "keep" THEN device'[e].next ELSE device'[e].pw
  <2>0. ASSUME NEW e \in admitted'
        PROVE  device'[e].at \notin {"save", "probe"} /\ Reaches(device'[e].user, Uses(e)) /\ OnLists(device'[e].user)
    <3>1. CASE e = d
      BY <2>0, <3>1
    <3>2. CASE e # d
      <4>1. e \in admitted /\ e \in Devices /\ device'[e] = device[e]
        BY <2>0, <3>2 DEF InvitesInv, InviteTypes
      <4>2. QED
        BY <4>1 DEF InvitesInv, LetInAreIn, Current
    <3>3. QED
      BY <3>1, <3>2
  <2>1. QED
    BY <2>0 DEF LetInAreIn, Current, Reaches, Lets, OnLists, accountsOf, server
<1>6. QED
  BY <1>1, <1>3, <1>4, <1>5 DEF InvitesInv

\* persistCouchPassword: at most the password of this device changes on disk.
LEMMA PasswordPersisted ==
    ASSUME InviteTypes, NEW d \in Devices, NEW p \in Nat, PersistPassword(d, p)
    PROVE  /\ deviceDisk' \in [Devices -> DiskStates]
           /\ \A e \in Devices \ {d} : deviceDisk'[e] = deviceDisk[e]
           /\ deviceDisk'[d].user = deviceDisk[d].user
           /\ deviceDisk'[d].pw = IF secretStorage THEN p ELSE deviceDisk[d].pw
<1>1. deviceDisk \in [Devices -> DiskStates] /\ deviceDisk[d] \in DiskStates
  BY DEF InviteTypes
<1>2. CASE secretStorage
  <2>1. deviceDisk' = [deviceDisk EXCEPT ![d].pw = p]
    BY <1>2 DEF PersistPassword
  <2>2. QED
    BY <1>1, <1>2, <2>1 DEF DiskStates
<1>3. CASE ~secretStorage
  BY <1>1, <1>3 DEF PersistPassword
<1>4. QED
  BY <1>2, <1>3

\* The settings of one device are saved.
LEMMA SettingsStored ==
    ASSUME InviteTypes, NEW d \in Devices, NEW r \in DeviceStates,
           deviceDisk' = [deviceDisk EXCEPT ![d] = Stored(r)]
    PROVE  /\ deviceDisk' \in [Devices -> DiskStates]
           /\ \A e \in Devices \ {d} : deviceDisk'[e] = deviceDisk[e]
           /\ deviceDisk'[d].user = r.user /\ deviceDisk'[d].pw = r.pw
<1>1. Stored(r) \in DiskStates
  BY DEF Stored, DeviceStates, DiskStates
<1>2. deviceDisk \in [Devices -> DiskStates]
  BY DEF InviteTypes
<1>3. QED
  BY <1>1, <1>2 DEF Stored

LEMMA ApplyInviteStep ==
    ASSUME InvitesInv, NEW d \in Devices, NEW i \in invites, ApplyInvite(d, i) PROVE InvitesInv'
<1> DEFINE r == [setup |-> TRUE, user |-> i.user, pw |-> i.pw, at |-> "save", next |-> 0]
<1>1. InviteTypes /\ i.user \in Users /\ i.pw \in Nat
  BY DEF InvitesInv, InviteTypes
<1>2. r \in DeviceStates
  BY <1>1 DEF DeviceStates
<1>3. /\ Becomes(d, r) /\ PersistPassword(d, i.pw) /\ admitted' = admitted \ {d}
      /\ UNCHANGED <<server, manager, managerDisk, command, invites, fixed, passwords>>
  BY DEF ApplyInvite, managerSide
<1>4. r.pw = i.pw /\ r.next = 0 /\ r.at = "save"
  OBVIOUS
<1> HIDE DEF r
<1>5. /\ device' \in [Devices -> DeviceStates] /\ device'[d] = r
      /\ \A e \in Devices \ {d} : device'[e] = device[e]
  BY <1>1, <1>2, <1>3, OneBecomes
<1>6. /\ deviceDisk' \in [Devices -> DiskStates]
      /\ \A e \in Devices \ {d} : deviceDisk'[e] = deviceDisk[e]
      /\ deviceDisk'[d].pw \in {i.pw, deviceDisk[d].pw}
  BY <1>1, <1>3, PasswordPersisted
<1>7. QED
  BY <1>3, <1>4, <1>5, <1>6, DeviceMoves

LEMMA SaveSettingsStep == ASSUME InvitesInv, NEW d \in Devices, SaveSettings(d) PROVE InvitesInv'
<1> DEFINE at == IF device[d].at = "save" THEN "probe" ELSE "idle"
           r == [device[d] EXCEPT !.at = at]
<1>1. InviteTypes /\ device[d] \in DeviceStates
  BY DeviceTyped DEF InvitesInv
<1>2. /\ device[d].at \in {"save", "kept"} /\ Becomes(d, r)
      /\ deviceDisk' = [deviceDisk EXCEPT ![d] = Stored(device[d])]
      /\ UNCHANGED <<server, manager, managerDisk, command, invites, fixed, passwords, admitted>>
  BY DEF SaveSettings, managerSide
<1>3. /\ r \in DeviceStates /\ r.user = device[d].user /\ r.pw = device[d].pw
      /\ r.next = device[d].next /\ r.at = at
  BY <1>1 DEF DeviceStates
<1> HIDE DEF r
<1>4. /\ device' \in [Devices -> DeviceStates] /\ device'[d] = r
      /\ \A e \in Devices \ {d} : device'[e] = device[e]
  BY <1>1, <1>2, <1>3, OneBecomes
<1>5. /\ deviceDisk' \in [Devices -> DiskStates]
      /\ \A e \in Devices \ {d} : deviceDisk'[e] = deviceDisk[e]
      /\ deviceDisk'[d].user = device[d].user /\ deviceDisk'[d].pw = device[d].pw
  BY <1>1, <1>2, SettingsStored
<1>7. d \in admitted => /\ device[d].at \notin {"save", "probe"}
                        /\ Reaches(device[d].user, Current(d)) /\ OnLists(device[d].user)
  BY DEF InvitesInv, LetInAreIn
<1>8. d \in admitted' => /\ device'[d].at \notin {"save", "probe"}
                         /\ Reaches(device'[d].user, IF device'[d].at = "keep"
                                      THEN device'[d].next ELSE device'[d].pw)
                         /\ OnLists(device'[d].user)
  BY <1>2, <1>3, <1>4, <1>7 DEF Current
<1>9. QED
  BY <1>2, <1>3, <1>4, <1>5, <1>8, DeviceMoves

\* The steps that only move the device along, keeping what it knows.
LEMMA DeviceGoesOn ==
    ASSUME InvitesInv, NEW d \in Devices, NEW at \in {"idle", "rotate"},
           device[d].at \in {"probe", "rotate"}, Becomes(d, [device[d] EXCEPT !.at = at]),
           UNCHANGED <<server, manager, managerDisk, command, invites, deviceDisk, fixed, passwords>>,
           \/ admitted' = admitted
           \/ /\ admitted' = admitted \cup {d}
              /\ Reaches(device[d].user, device[d].pw) /\ OnLists(device[d].user)
    PROVE  InvitesInv'
<1> DEFINE r == [device[d] EXCEPT !.at = at]
<1>1. InviteTypes /\ device[d] \in DeviceStates
  BY DeviceTyped DEF InvitesInv
<1>2. Becomes(d, r)
  OBVIOUS
<1>3. /\ r \in DeviceStates /\ r.user = device[d].user /\ r.pw = device[d].pw
      /\ r.next = device[d].next /\ r.at = at
  BY <1>1 DEF DeviceStates
<1> HIDE DEF r
<1>4. /\ device' \in [Devices -> DeviceStates] /\ device'[d] = r
      /\ \A e \in Devices \ {d} : device'[e] = device[e]
  BY <1>1, <1>2, <1>3, OneBecomes
<1>5. deviceDisk[d].user = device[d].user /\ deviceDisk[d].pw = device[d].pw
  BY DEF InvitesInv, DiskFollows
<1>7. d \in admitted => Reaches(device[d].user, device[d].pw) /\ OnLists(device[d].user)
  BY DEF InvitesInv, LetInAreIn, Current
<1>8. d \in admitted' => /\ device'[d].at \notin {"save", "probe"}
                         /\ Reaches(device'[d].user, IF device'[d].at = "keep"
                                      THEN device'[d].next ELSE device'[d].pw)
                         /\ OnLists(device'[d].user)
  BY <1>3, <1>4, <1>7
<1>9. deviceDisk' \in [Devices -> DiskStates] /\ admitted' \in SUBSET (admitted \cup {d})
  BY <1>1 DEF InviteTypes
<1>10. QED
  BY <1>3, <1>4, <1>5, <1>8, <1>9, DeviceMoves

LEMMA ProbeStatusStep == ASSUME InvitesInv, NEW d \in Devices, ProbeStatus(d) PROVE InvitesInv'
<1>1. device[d].at \in {"probe", "rotate"}
      /\ UNCHANGED <<server, manager, managerDisk, command, invites, deviceDisk, fixed, passwords>>
  BY DEF ProbeStatus, managerSide
<1>2. PICK at \in {"idle", "rotate"} : Becomes(d, [device[d] EXCEPT !.at = at])
         /\ \/ admitted' = admitted
            \/ /\ admitted' = admitted \cup {d}
               /\ Reaches(device[d].user, device[d].pw) /\ OnLists(device[d].user)
  BY DEF ProbeStatus
<1>3. QED
  BY <1>1, <1>2, DeviceGoesOn

LEMMA RotateFailsStep == ASSUME InvitesInv, NEW d \in Devices, RotateFails(d) PROVE InvitesInv'
<1>1. /\ device[d].at \in {"probe", "rotate"} /\ Becomes(d, [device[d] EXCEPT !.at = "idle"])
      /\ admitted' = admitted
      /\ UNCHANGED <<server, manager, managerDisk, command, invites, deviceDisk, fixed, passwords>>
  BY DEF RotateFails, managerSide
<1>2. QED
  BY <1>1, DeviceGoesOn

LEMMA KeepPasswordStep == ASSUME InvitesInv, NEW d \in Devices, KeepPassword(d) PROVE InvitesInv'
<1> DEFINE r == [device[d] EXCEPT !.at = "kept", !.pw = device[d].next, !.next = 0]
<1>1. InviteTypes /\ device[d] \in DeviceStates /\ device[d].next \in Nat
  BY DeviceTyped DEF InvitesInv
<1>2. /\ device[d].at = "keep" /\ Becomes(d, r) /\ PersistPassword(d, device[d].next)
      /\ UNCHANGED <<server, manager, managerDisk, command, invites, fixed, passwords, admitted>>
  BY DEF KeepPassword, managerSide
<1>3. /\ r \in DeviceStates /\ r.user = device[d].user /\ r.pw = device[d].next
      /\ r.next = 0 /\ r.at = "kept"
  BY <1>1 DEF DeviceStates
<1> HIDE DEF r
<1>4. /\ device' \in [Devices -> DeviceStates] /\ device'[d] = r
      /\ \A e \in Devices \ {d} : device'[e] = device[e]
  BY <1>1, <1>2, <1>3, OneBecomes
<1>5. /\ deviceDisk' \in [Devices -> DiskStates]
      /\ \A e \in Devices \ {d} : deviceDisk'[e] = deviceDisk[e]
      /\ deviceDisk'[d].user = deviceDisk[d].user
      /\ deviceDisk'[d].pw = IF secretStorage THEN device[d].next ELSE deviceDisk[d].pw
  BY <1>1, <1>2, PasswordPersisted
<1>7. deviceDisk[d].user = device[d].user
  BY <1>2 DEF InvitesInv, DiskFollows
<1>8. d \in admitted => Reaches(device[d].user, device[d].next) /\ OnLists(device[d].user)
  BY <1>2 DEF InvitesInv, LetInAreIn, Current
<1>9. d \in admitted' => /\ device'[d].at \notin {"save", "probe"}
                         /\ Reaches(device'[d].user, IF device'[d].at = "keep"
                                      THEN device'[d].next ELSE device'[d].pw)
                         /\ OnLists(device'[d].user)
  BY <1>2, <1>3, <1>4, <1>8
<1>10. QED
  BY <1>2, <1>3, <1>4, <1>5, <1>7, <1>9, DeviceMoves

LEMMA RestartDeviceStep == ASSUME InvitesInv, NEW d \in Devices, RestartDevice(d) PROVE InvitesInv'
<1> DEFINE r == Restored(deviceDisk[d])
<1>1. InviteTypes /\ deviceDisk[d] \in DiskStates /\ device[d] \in DeviceStates
  BY DeviceTyped DEF InvitesInv
<1>2. /\ Becomes(d, r)
      /\ admitted' = IF device[d].at \in {"save", "keep"} \/ (device[d].at = "kept" /\ ~secretStorage)
                     THEN admitted \ {d} ELSE admitted
      /\ device[d].at # "idle"
      /\ UNCHANGED <<server, manager, managerDisk, command, invites, deviceDisk, fixed, passwords>>
  BY DEF RestartDevice, managerSide
<1>3. /\ r \in DeviceStates /\ r.user = deviceDisk[d].user /\ r.pw = deviceDisk[d].pw
      /\ r.next = 0 /\ r.at = "idle"
  BY <1>1 DEF DeviceStates, DiskStates, Restored
<1> HIDE DEF r
<1>4. /\ device' \in [Devices -> DeviceStates] /\ device'[d] = r
      /\ \A e \in Devices \ {d} : device'[e] = device[e]
  BY <1>1, <1>2, <1>3, OneBecomes
<1>6. ASSUME d \in admitted'
      PROVE  Reaches(deviceDisk[d].user, deviceDisk[d].pw) /\ OnLists(deviceDisk[d].user)
  <2>1. d \in admitted /\ device[d].at \notin {"save", "keep"} /\ (device[d].at = "kept" => secretStorage)
    BY <1>2, <1>6
  <2>2. /\ device[d].at \notin {"save", "probe"} /\ Reaches(device[d].user, device[d].pw)
        /\ OnLists(device[d].user)
    BY <2>1 DEF InvitesInv, LetInAreIn, Current
  <2>3. device[d].at \in {"rotate", "kept"}
    BY <1>1, <1>2, <2>1, <2>2 DEF DeviceStates
  <2>4. deviceDisk[d].user = device[d].user /\ deviceDisk[d].pw = device[d].pw
    BY <2>1, <2>3 DEF InvitesInv, DiskFollows
  <2>5. QED
    BY <2>2, <2>4
<1>7. deviceDisk' \in [Devices -> DiskStates] /\ admitted' \in SUBSET (admitted \cup {d})
  BY <1>1, <1>2 DEF InviteTypes
<1>8. QED
  BY <1>2, <1>3, <1>4, <1>6, <1>7, DeviceMoves

\* Giving up the setup or the password: the device is let in no longer.
LEMMA DeviceForgets ==
    ASSUME InvitesInv, NEW d \in Devices, NEW r \in DeviceStates, r.at = "idle",
           r.pw \in {0, device[d].pw}, r.next = device[d].next,
           Becomes(d, r), deviceDisk' = [deviceDisk EXCEPT ![d] = Stored(r)],
           UNCHANGED <<server, manager, managerDisk, command, invites, fixed, passwords>>,
           admitted' = admitted \ {d}
    PROVE  InvitesInv'
<1>1. InviteTypes
  BY DEF InvitesInv
<1>2. /\ device' \in [Devices -> DeviceStates] /\ device'[d] = r
      /\ \A e \in Devices \ {d} : device'[e] = device[e]
  BY <1>1, OneBecomes
<1>3. /\ deviceDisk' \in [Devices -> DiskStates]
      /\ \A e \in Devices \ {d} : deviceDisk'[e] = deviceDisk[e]
      /\ deviceDisk'[d].user = r.user /\ deviceDisk'[d].pw = r.pw
  BY <1>1, SettingsStored
<1>4. QED
  BY <1>2, <1>3, DeviceMoves

LEMMA ResetSetupStep == ASSUME InvitesInv, NEW d \in Devices, ResetSetup(d) PROVE InvitesInv'
<1> DEFINE r == [device[d] EXCEPT !.setup = FALSE]
<1>1. device[d] \in DeviceStates
  BY DeviceTyped DEF InvitesInv
<1>2. /\ device[d].at = "idle" /\ Becomes(d, r) /\ deviceDisk' = [deviceDisk EXCEPT ![d] = Stored(r)]
      /\ admitted' = admitted \ {d}
      /\ UNCHANGED <<server, manager, managerDisk, command, invites, fixed, passwords>>
  BY DEF ResetSetup, managerSide
<1>3. /\ r \in DeviceStates /\ r.pw = device[d].pw /\ r.next = device[d].next /\ r.at = device[d].at
  BY <1>1 DEF DeviceStates
<1> HIDE DEF r
<1>4. QED
  BY <1>2, <1>3, DeviceForgets

LEMMA ImportSettingsStep == ASSUME InvitesInv, NEW d \in Devices, ImportSettings(d) PROVE InvitesInv'
<1> DEFINE r == [device[d] EXCEPT !.pw = 0]
<1>1. device[d] \in DeviceStates
  BY DeviceTyped DEF InvitesInv
<1>2. /\ device[d].at = "idle" /\ Becomes(d, r) /\ deviceDisk' = [deviceDisk EXCEPT ![d] = Stored(r)]
      /\ admitted' = admitted \ {d}
      /\ UNCHANGED <<server, manager, managerDisk, command, invites, fixed, passwords>>
  BY DEF ImportSettings, managerSide
<1>3. /\ r \in DeviceStates /\ r.pw = 0 /\ r.next = device[d].next /\ r.at = device[d].at
  BY <1>1 DEF DeviceStates
<1> HIDE DEF r
<1>4. QED
  BY <1>2, <1>3, DeviceForgets

\* The account has a new password: only the device that made it is let in by it.
LEMMA RotateOwnPasswordStep ==
    ASSUME InvitesInv, NEW d \in Devices, RotateOwnPassword(d) PROVE InvitesInv'
<1> DEFINE u == device[d].user
<1>1. /\ InviteTypes /\ device[d] \in DeviceStates /\ u \in Users /\ NewPassword \in Nat /\ NewPassword # 0
      /\ device[d].pw \in Nat
  BY DeviceTyped DEF InvitesInv, InviteTypes, NewPassword
<1>2. /\ device[d].at = "rotate" /\ passwords' = NewPassword
      /\ accounts' = [accounts EXCEPT ![u] = NewPassword]
      /\ UNCHANGED <<database, security, manager, managerDisk, command, invites, deviceDisk, fixed>>
  BY DEF RotateOwnPassword, managerSide
<1>3. PICK r \in {[device[d] EXCEPT !.at = "keep", !.next = NewPassword], [device[d] EXCEPT !.at = "idle"]} :
         /\ Becomes(d, r)
         /\ \/ r = [device[d] EXCEPT !.at = "keep", !.next = NewPassword]
               /\ admitted' = {e \in admitted : device[e].user # u \/ e = d}
            \/ r = [device[d] EXCEPT !.at = "idle"] /\ CutOff({u})
  BY DEF RotateOwnPassword
<1>4. /\ r \in DeviceStates /\ r.user = u /\ r.pw = device[d].pw
      /\ \/ /\ r.at = "keep" /\ r.next = NewPassword
            /\ admitted' = {e \in admitted : device[e].user # u \/ e = d}
         \/ /\ r.at = "idle" /\ r.next = device[d].next
            /\ admitted' = {e \in admitted : device[e].user # u}
  BY <1>1, <1>3 DEF DeviceStates, CutOff
<1>5. /\ device' \in [Devices -> DeviceStates] /\ device'[d] = r
      /\ \A e \in Devices \ {d} : device'[e] = device[e]
  BY <1>1, <1>3, <1>4, OneBecomes
<1>6. /\ accounts' \in [Users -> Nat] /\ accounts'[u] = NewPassword
      /\ \A w \in Users \ {u} : accounts'[w] = accounts[w]
  BY <1>1, <1>2 DEF InviteTypes
<1>7. InviteTypes'
  <2>1. admitted' \in SUBSET Devices
    BY <1>1, <1>4 DEF InviteTypes
  <2>2. QED
    BY <1>1, <1>2, <1>5, <1>6, <2>1 DEF InviteTypes, fixed
<1>8. CommandInOrder'
  BY <1>2 DEF InvitesInv, CommandInOrder, HoldsList, Covers, accountsOf
<1>9. DiskFollows'
  <2>1. deviceDisk[d].user = u /\ deviceDisk[d].pw = device[d].pw
    BY <1>2 DEF InvitesInv, DiskFollows
  <2>2. QED
    BY <1>2, <1>4, <1>5, <2>1 DEF InvitesInv, DiskFollows, fixed
<1>10. LetInAreIn'
  <2> SUFFICES ASSUME NEW e \in admitted'
               PROVE  /\ device'[e].at \notin {"save", "probe"} /\ Reaches(device[e].user, Current(e))'
                      /\ OnLists(device[e].user)'
    BY DEF LetInAreIn
  <2>0. /\ e \in admitted /\ e \in Devices /\ device[e].at \notin {"save", "probe"}
        /\ Reaches(device[e].user, Current(e)) /\ OnLists(device[e].user)
    BY <1>1, <1>4 DEF InvitesInv, LetInAreIn, InviteTypes
  <2>1. device'[e].user = device[e].user
    BY <1>4, <1>5, <2>0
  <2>2. OnLists(device[e].user)'
    BY <1>2, <2>0, <2>1 DEF OnLists, accountsOf
  <2>3. CASE e = d
    <3>1. r.at = "keep" /\ r.next = NewPassword
      BY <1>4, <2>3
    <3>2. u \in security
      BY <2>0, <2>3 DEF Reaches
    <3>3. QED
      BY <1>1, <1>2, <1>4, <1>5, <1>6, <2>2, <2>3, <3>1, <3>2 DEF Reaches, Lets, Current
  <2>4. CASE e # d
    <3>1. device[e].user # u /\ device[e].user \in Users
      BY <1>1, <1>4, <2>0, <2>4, DeviceTyped
    <3>2. device'[e] = device[e] /\ accounts'[device[e].user] = accounts[device[e].user]
      BY <1>5, <1>6, <2>0, <2>4, <3>1
    <3>3. QED
      BY <1>2, <2>0, <2>2, <3>2 DEF Reaches, Lets, Current
  <2>5. QED
    BY <2>3, <2>4
<1>11. QED
  BY <1>7, <1>8, <1>9, <1>10 DEF InvitesInv

----------------------------------------------------------------------------

LEMMA InvitesInvStep == InvitesInv /\ [InvitationsNext]_inviteVars => InvitesInv'
<1> SUFFICES ASSUME InvitesInv, [InvitationsNext]_inviteVars PROVE InvitesInv'
  OBVIOUS
<1>1. CASE UNCHANGED inviteVars
  <2>1. /\ UNCHANGED <<accounts, database, security, invites, manager, managerDisk, command, device, deviceDisk,
                       secretStorage, passwords, admitted>>
    BY <1>1 DEF inviteVars
  <2>2. InviteTypes' /\ DiskFollows'
    BY <2>1 DEF InvitesInv, InviteTypes, DiskFollows
  <2>3. CommandInOrder'
    BY <2>1 DEF InvitesInv, CommandInOrder, HoldsList, Covers, accountsOf
  <2>4. LetInAreIn'
    BY <2>1 DEF InvitesInv, LetInAreIn, Reaches, Lets, Current, OnLists, accountsOf
  <2>5. QED
    BY <2>2, <2>3, <2>4 DEF InvitesInv
<1>2. ASSUME NEW c \in Commands,
             \/ InviteMember(c) \/ RotateMemberPassword(c) \/ InviteDevice(c) \/ \E u \in Users : RevokeDevice(c, u)
      PROVE  InvitesInv'
  BY <1>2, InviteMemberStep, RotateMemberPasswordStep, InviteDeviceStep, RevokeDeviceStep
<1>3. ASSUME NEW c \in Commands, EnsureUser(c) \/ EnsureUserFails(c) \/ CreateDb(c) \/ CreateDbFails(c)
      PROVE  InvitesInv'
  BY <1>3, EnsureUserStep, EnsureUserFailsStep, CreateDbStep, CreateDbFailsStep
<1>4. ASSUME NEW c \in Commands, \/ RefreshAccountAccess(c) \/ SetSecurity(c) \/ SetSecurityFails(c)
                                 \/ RollBack(c) \/ SaveManager(c) \/ ShowInvite(c)
      PROVE  InvitesInv'
  BY <1>4, RefreshAccountAccessStep, SetSecurityStep, SetSecurityFailsStep, RollBackStep,
     SaveManagerStep, ShowInviteStep
<1>5. CASE RestartManager
  BY <1>5, RestartManagerStep
<1>6. CASE \E i \in invites, d \in Devices : ApplyInvite(d, i)
  BY <1>6, ApplyInviteStep
<1>7. CASE \E d \in Devices : \/ SaveSettings(d) \/ ProbeStatus(d) \/ RotateOwnPassword(d) \/ RotateFails(d)
                              \/ KeepPassword(d) \/ RestartDevice(d) \/ ResetSetup(d) \/ ImportSettings(d)
  BY <1>7, SaveSettingsStep, ProbeStatusStep, RotateOwnPasswordStep, RotateFailsStep,
     KeepPasswordStep, RestartDeviceStep, ResetSetupStep, ImportSettingsStep
<1>8. QED
  BY <1>1, <1>2, <1>3, <1>4, <1>5, <1>6, <1>7 DEF InvitationsNext

LEMMA InvitesInvHolds == InvitationsSpec => []InvitesInv
  BY InvitesInvInit, InvitesInvStep, PTL DEF InvitationsSpec

\* A device that an account of the manager's list let in reaches the member's database with the
\* password it has stored, or is about to store, in every behaviour: any number of the manager's
\* commands at once, each writing the accounts it has read before it waited, with their failures,
\* lost answers, roll backs and restarts (MemberController.provision, inviteDevice, revokeDevice),
\* and those of the devices that apply invites and replace passwords
\* (OnboardingController.ingestInvite), but for the ends that admitted names.
THEOREM TheAdmittedStayIn == InvitationsSpec => []AdmittedStaysIn
<1>1. InvitesInv => AdmittedStaysIn
  <2> SUFFICES ASSUME InvitesInv, NEW d \in admitted
               PROVE  /\ Reaches(device[d].user, IF device[d].at = "keep" THEN device[d].next ELSE device[d].pw)
                      /\ device[d].at = "idle" => Reaches(deviceDisk[d].user, deviceDisk[d].pw)
    BY DEF AdmittedStaysIn
  <2>1. d \in Devices /\ Reaches(device[d].user, IF device[d].at = "keep" THEN device[d].next ELSE device[d].pw)
    BY DEF InvitesInv, InviteTypes, LetInAreIn, Current
  <2>2. device[d].at = "idle" => deviceDisk[d].user = device[d].user /\ deviceDisk[d].pw = device[d].pw
    BY <2>1 DEF InvitesInv, DiskFollows
  <2>3. QED
    BY <2>1, <2>2
<1>2. QED
  BY <1>1, InvitesInvHolds, PTL

-----------------------------------------------------------------------------

(* Feedback: the invariant.                                                  *)

Modes == {"all", "current"}
ADoc(d) == d = [rev |-> d.rev, note |-> d.note, resolved |-> d.resolved, deleted |-> d.deleted]
\* A remark that was ever written is about a note of a link.
ACard(c) == c.id \in Remarks /\ ADoc(c.doc) /\ c.doc.note \in RemarkNotes
AListing(l) ==
    /\ l = [latest |-> l.latest, mode |-> l.mode, note |-> l.note, found |-> l.found, left |-> l.left]
    /\ l.latest \in BOOLEAN /\ l.mode \in Modes /\ l.left \subseteq RemarkNotes /\ \A c \in l.found : ACard(c)
    /\ l.mode = "current" => l.note \in RemarkNotes /\ l.left \subseteq {l.note}
ATab(t) == t = [open |-> t.open, mode |-> t.mode, rendered |-> t.rendered] /\ t.open \in BOOLEAN /\ t.mode \in Modes

FeedbackTypes ==
    /\ remarks = [r \in Remarks |-> remarks[r]] /\ \A r \in Remarks : ADoc(remarks[r]) /\ remarks[r].rev \in Nat
    /\ \A r \in Remarks : remarks[r].rev > 0 => remarks[r].note \in RemarkNotes
    /\ ATab(tab) /\ \A c \in drawn : ACard(c)
    /\ \A l \in listings : AListing(l)
    /\ untold \in BOOLEAN /\ strayed \in BOOLEAN

UnresolvedOf(notes) == UNION {listUnresolved(note) : note \in notes}
OneLatest ==
    /\ \A k, l \in listings : k.latest /\ l.latest => k = l
    /\ tab.open \/ \A l \in listings : ~l.latest
\* The list asked for last is of what the tab is to show, and what it has read stands.
LatestReads ==
    \A l \in listings : l.latest =>
        /\ l.mode = tab.mode
        /\ ~strayed /\ l.mode = "current" => l.note = active
        /\ ~untold => l.found = IF l.mode = "all" THEN UnresolvedOf(RemarkNotes \ l.left)
                                ELSE IF l.note \in l.left THEN {} ELSE listFor(l.note)
\* With nothing asked for, the tab shows what it says it shows.
DrawnStands ==
    tab.open /\ ~strayed /\ (\A l \in listings : ~l.latest) =>
        /\ tab.mode = "current" => tab.rendered = active
        /\ ~untold => drawn = IF tab.mode = "all" THEN UnresolvedOf(RemarkNotes) ELSE listFor(active)

FeedbackInv == FeedbackTypes /\ OneLatest /\ LatestReads /\ DrawnStands

----------------------------------------------------------------------------
(* Records of the tab, of lists and of remarks.                             *)

LEMMA ListingOf ==
    ASSUME NEW a, NEW b, NEW c, NEW d, NEW e, NEW k,
           k = [latest |-> a, mode |-> b, note |-> c, found |-> d, left |-> e]
    PROVE  /\ k.latest = a /\ k.mode = b /\ k.note = c /\ k.found = d /\ k.left = e
           /\ k = [latest |-> k.latest, mode |-> k.mode, note |-> k.note, found |-> k.found, left |-> k.left]
<1>1. k.latest = a /\ k.mode = b /\ k.note = c
  OBVIOUS
<1>2. k.found = d /\ k.left = e
  OBVIOUS
<1>3. QED
  BY <1>1, <1>2

LEMMA Outdates ==
    ASSUME NEW l, AListing(l), NEW k, k = [l EXCEPT !.latest = FALSE]
    PROVE  AListing(k) /\ ~k.latest
<1>1. PICK a, b, c, d, e : l = [latest |-> a, mode |-> b, note |-> c, found |-> d, left |-> e]
  BY DEF AListing
<1>2. b = l.mode /\ c = l.note /\ d = l.found /\ e = l.left
  BY <1>1
<1>a. PICK old : old = FALSE
  OBVIOUS
<1>3. k = [latest |-> old, mode |-> b, note |-> c, found |-> d, left |-> e]
  BY <1>1, <1>a
<1>4. k.latest = old /\ k.mode = b /\ k.note = c
  <2>1. k.latest = old
    BY <1>3, <1>a
  <2>2. k.mode = b
    BY <1>3
  <2>3. k.note = c
    BY <1>3
  <2>4. QED
    BY <2>1, <2>2, <2>3
<1>5. k.found = d /\ k.left = e
  BY <1>3
<1>6. k = [latest |-> k.latest, mode |-> k.mode, note |-> k.note, found |-> k.found, left |-> k.left]
  BY <1>3, <1>4, <1>5
<1>7. QED
  BY <1>2, <1>4, <1>5, <1>6, <1>a DEF AListing

Redrawn(l, left, found) == [l EXCEPT !.left = left, !.found = found]

LEMMA ReadsOne ==
    ASSUME NEW l, AListing(l), NEW left, NEW found, NEW k, k = Redrawn(l, left, found)
    PROVE  /\ k = [latest |-> k.latest, mode |-> k.mode, note |-> k.note, found |-> k.found, left |-> k.left]
           /\ k.latest = l.latest /\ k.mode = l.mode /\ k.note = l.note /\ k.found = found /\ k.left = left
<1>1. PICK a, b, c, d, e : l = [latest |-> a, mode |-> b, note |-> c, found |-> d, left |-> e]
  BY DEF AListing
<1>2. a = l.latest /\ b = l.mode /\ c = l.note
  BY <1>1
<1>3. k = [latest |-> a, mode |-> b, note |-> c, found |-> found, left |-> left]
  BY <1>1 DEF Redrawn
<1>4. k.latest = a /\ k.mode = b /\ k.note = c
  <2>1. k.latest = a
    BY <1>3
  <2>2. k.mode = b
    BY <1>3
  <2>3. k.note = c
    BY <1>3
  <2>4. QED
    BY <2>1, <2>2, <2>3
<1>5. k.found = found /\ k.left = left
  BY <1>3
<1>6. k = [latest |-> k.latest, mode |-> k.mode, note |-> k.note, found |-> k.found, left |-> k.left]
  BY <1>3, <1>4, <1>5
<1>7. QED
  BY <1>2, <1>4, <1>5, <1>6

LEMMA TabParts ==
    ASSUME NEW t, ATab(t), NEW x
    PROVE  [t EXCEPT !.rendered = x] = [open |-> t.open, mode |-> t.mode, rendered |-> x]
<1>1. PICK a, b, c : t = [open |-> a, mode |-> b, rendered |-> c]
  BY DEF ATab
<1>2. a = t.open /\ b = t.mode
  BY <1>1
<1>3. [t EXCEPT !.rendered = x] = [open |-> a, mode |-> b, rendered |-> x]
  BY <1>1
<1>4. QED
  BY <1>2, <1>3

LEMMA TabOf ==
    ASSUME NEW open \in BOOLEAN, NEW mode \in Modes, NEW rendered, NEW t,
           t = [open |-> open, mode |-> mode, rendered |-> rendered]
    PROVE  ATab(t) /\ t.open = open /\ t.mode = mode /\ t.rendered = rendered
  BY DEF ATab

\* What is found of a note is about it.
LEMMA FoundCards ==
    ASSUME FeedbackTypes, NEW note \in RemarkNotes
    PROVE  /\ \A c \in listFor(note) : ACard(c)
           /\ \A c \in listUnresolved(note) : ACard(c)
<1>1. ASSUME NEW c \in listFor(note) PROVE ACard(c)
  <2>1. PICK r \in Remarks : c = Card(r) /\ remarks[r].rev > 0 /\ remarks[r].note = note
    BY DEF listFor
  <2>2. c.id = r /\ c.doc = remarks[r]
    BY <2>1 DEF Card
  <2>3. QED
    BY <2>1, <2>2 DEF ACard, FeedbackTypes
<1>2. QED
  BY <1>1 DEF listUnresolved

\* There is nothing to show of a file without a link.
LEMMA NothingElsewhere ==
    ASSUME FeedbackTypes, NEW leaf, leaf \notin RemarkNotes PROVE listFor(leaf) = {}
  BY DEF FeedbackTypes, listFor

LEMMA SameRemarks ==
    ASSUME UNCHANGED remarks
    PROVE  /\ \A note : listFor(note)' = listFor(note) /\ listUnresolved(note)' = listUnresolved(note)
           /\ \A notes : UnresolvedOf(notes)' = UnresolvedOf(notes)
<1>1. \A note : listFor(note)' = listFor(note)
  BY DEF listFor, Card
<1>2. \A note : listUnresolved(note)' = listUnresolved(note)
  BY <1>1 DEF listUnresolved
<1>3. QED
  BY <1>1, <1>2 DEF UnresolvedOf

----------------------------------------------------------------------------

LEMMA FeedbackInvInit == FeedbackInit => FeedbackInv
<1> SUFFICES ASSUME FeedbackInit PROVE FeedbackInv
  OBVIOUS
<1>1. /\ remarks \in [Remarks -> {Remark(0, Elsewhere, FALSE, FALSE)}
                             \cup {Remark(1, note, FALSE, FALSE) : note \in RemarkNotes}]
      /\ tab = ClosedTab /\ drawn = {} /\ listings = {} /\ untold = FALSE /\ strayed = FALSE
  BY DEF FeedbackInit
<1>2. ATab(tab) /\ tab.open = FALSE
  <2>1. tab = [open |-> FALSE, mode |-> "current", rendered |-> NothingDrawn]
    BY <1>1 DEF ClosedTab
  <2>2. QED
    BY ZenonT(60), <2>1, TabOf DEF Modes
<1>3. ASSUME NEW r \in Remarks
      PROVE  /\ ADoc(remarks[r]) /\ remarks[r].rev \in Nat
             /\ remarks[r].rev > 0 => remarks[r].note \in RemarkNotes
  <2>1. PICK d : d = remarks[r]
    OBVIOUS
  <2>2. \/ d = Remark(0, Elsewhere, FALSE, FALSE)
        \/ \E note \in RemarkNotes : d = Remark(1, note, FALSE, FALSE)
    BY <1>1, <2>1
  <2>3. ADoc(d) /\ d.rev \in Nat /\ (d.rev > 0 => d.note \in RemarkNotes)
    BY <2>2 DEF Remark, ADoc
  <2>4. QED
    BY <2>1, <2>3
<1>4. FeedbackTypes
  BY <1>1, <1>2, <1>3 DEF FeedbackTypes
<1>5. OneLatest /\ LatestReads /\ DrawnStands
  BY <1>1, <1>2 DEF OneLatest, LatestReads, DrawnStands
<1>6. QED
  BY <1>4, <1>5 DEF FeedbackInv

LEMMA OlderListsAreOld ==
    ASSUME FeedbackTypes, NEW l \in OlderLists PROVE AListing(l) /\ ~l.latest
  BY Outdates DEF FeedbackTypes, OlderLists

\* Drawing: what is asked for is of the tab and of the active file.
LEMMA RenderStep ==
    ASSUME FeedbackInv, NEW t, ATab(t), t.open, NEW leaf, RenderList(t, leaf),
           active' = leaf, UNCHANGED remarks, untold' \in BOOLEAN
    PROVE  FeedbackInv'
<1>0. /\ \A note : listFor(note)' = listFor(note) /\ listUnresolved(note)' = listUnresolved(note)
      /\ \A notes : UnresolvedOf(notes)' = UnresolvedOf(notes)
  BY SameRemarks
<1>1. FeedbackTypes
  BY DEF FeedbackInv
<1>2. strayed' = FALSE
  BY DEF RenderList
<1>3. CASE t.mode = "all" \/ leaf \in RemarkNotes
  <2>1. PICK new : new = [latest |-> TRUE, mode |-> t.mode, note |-> leaf, found |-> {},
                          left |-> IF t.mode = "all" THEN RemarkNotes ELSE {leaf}]
    OBVIOUS
  <2>2. /\ listings' = OlderLists \cup {new} /\ tab' = t /\ drawn' = drawn
    BY <1>3, <2>1 DEF RenderList
  <2>3. /\ new.latest = TRUE /\ new.mode = t.mode /\ new.note = leaf /\ new.found = {}
        /\ new.left = IF t.mode = "all" THEN RemarkNotes ELSE {leaf}
    BY <2>1
  <2>4. AListing(new)
    <3>1. new = [latest |-> new.latest, mode |-> new.mode, note |-> new.note, found |-> new.found, left |-> new.left]
      BY <2>1, <2>3
    <3>2. QED
      BY <1>3, <2>3, <3>1 DEF AListing, ATab, Modes
  <2>5. FeedbackTypes'
    <3>1. \A l \in listings' : AListing(l)
      BY <1>1, <2>2, <2>4, OlderListsAreOld
    <3>2. QED
      BY <1>1, <1>2, <2>2, <3>1 DEF FeedbackTypes
  <2>6. \A l \in listings' : l.latest => l = new
    BY <1>1, <2>2, OlderListsAreOld
  <2>7. OneLatest'
    BY <2>2, <2>6 DEF OneLatest
  <2>8. LatestReads'
    <3>1. t.mode = "all" => UnresolvedOf(RemarkNotes \ new.left) = {}
      BY <2>3 DEF UnresolvedOf
    <3>2. t.mode # "all" => new.note \in new.left
      BY <2>3
    <3>3. new.found = IF new.mode = "all" THEN UnresolvedOf(RemarkNotes \ new.left)
                      ELSE IF new.note \in new.left THEN {} ELSE listFor(new.note)
      BY <2>3, <3>1, <3>2
    <3>4. QED
      BY <1>0, <2>2, <2>3, <2>6, <3>3 DEF LatestReads
  <2>9. DrawnStands'
    BY <2>2, <2>3 DEF DrawnStands
  <2>10. QED
    BY <2>5, <2>7, <2>8, <2>9 DEF FeedbackInv
<1>4. CASE ~(t.mode = "all" \/ leaf \in RemarkNotes)
  <2>1. drawn' = {} /\ tab' = [t EXCEPT !.rendered = leaf] /\ listings' = OlderLists
    BY <1>4 DEF RenderList
  <2>2. tab' = [open |-> t.open, mode |-> t.mode, rendered |-> leaf]
    BY <2>1, TabParts
  <2>3. ATab(tab') /\ tab'.open = t.open /\ tab'.mode = t.mode /\ tab'.rendered = leaf
    BY <2>2, TabOf DEF ATab
  <2>4. \A l \in listings' : AListing(l) /\ ~l.latest
    BY <1>1, <2>1, OlderListsAreOld
  <2>5. FeedbackTypes'
    BY <1>1, <1>2, <2>1, <2>3, <2>4 DEF FeedbackTypes
  <2>6. OneLatest' /\ LatestReads'
    BY <2>4 DEF OneLatest, LatestReads
  <2>7. DrawnStands'
    <3>1. listFor(leaf) = {}
      BY <1>1, <1>4, NothingElsewhere
    <3>2. QED
      BY <1>0, <1>4, <2>1, <2>3, <3>1 DEF DrawnStands
  <2>8. QED
    BY <2>5, <2>6, <2>7 DEF FeedbackInv
<1>5. QED
  BY <1>3, <1>4

LEMMA ReadStep ==
    ASSUME FeedbackInv, NEW l \in listings, NEW note \in RemarkNotes, ReadRemarks(l, note) PROVE FeedbackInv'
<1>0. /\ \A n : listFor(n)' = listFor(n) /\ listUnresolved(n)' = listUnresolved(n)
      /\ \A notes : UnresolvedOf(notes)' = UnresolvedOf(notes)
  BY SameRemarks DEF ReadRemarks
<1>a. PICK left, found : /\ left = l.left \ {note}
                         /\ found = l.found \cup IF l.mode = "all" THEN listUnresolved(note) ELSE listFor(note)
  OBVIOUS
<1>b. PICK k : k = Redrawn(l, left, found)
  OBVIOUS
<1>1. /\ left = l.left \ {note}
      /\ found = l.found \cup IF l.mode = "all" THEN listUnresolved(note) ELSE listFor(note)
      /\ k = [l EXCEPT !.left = left, !.found = found]
  BY <1>a, <1>b DEF Redrawn
<1>2. /\ note \in l.left /\ listings' = (listings \ {l}) \cup {k}
      /\ UNCHANGED <<remarks, active, tab, drawn, untold, strayed>>
  BY <1>1 DEF ReadRemarks
<1>3. FeedbackTypes /\ AListing(l)
  BY DEF FeedbackInv, FeedbackTypes
<1>4. /\ k = [latest |-> k.latest, mode |-> k.mode, note |-> k.note, found |-> k.found, left |-> k.left]
      /\ k.latest = l.latest /\ k.mode = l.mode /\ k.note = l.note /\ k.found = found /\ k.left = left
  <2>1. AListing(l)
    BY <1>3
  <2>2. QED
    BY <1>b, <2>1, ReadsOne
<1>5. \A c \in found : ACard(c)
  BY <1>1, <1>3, FoundCards DEF AListing
<1>6. AListing(k)
  BY <1>1, <1>3, <1>4, <1>5 DEF AListing
<1>7. FeedbackTypes'
  BY <1>2, <1>3, <1>6 DEF FeedbackTypes
<1>8. OneLatest'
  BY <1>2, <1>4 DEF FeedbackInv, OneLatest
<1>9. LatestReads'
  <2> SUFFICES ASSUME NEW m \in listings', m.latest
               PROVE  /\ m.mode = tab.mode
                      /\ ~strayed /\ m.mode = "current" => m.note = active
                      /\ ~untold => m.found = IF m.mode = "all" THEN UnresolvedOf(RemarkNotes \ m.left)
                                              ELSE IF m.note \in m.left THEN {} ELSE listFor(m.note)
    BY <1>0, <1>2 DEF LatestReads
  <2>1. CASE m \in listings
    BY <2>1 DEF FeedbackInv, LatestReads
  <2>2. CASE m = k
    <3>1. /\ l.latest /\ l.mode = tab.mode
          /\ ~strayed /\ l.mode = "current" => l.note = active
          /\ ~untold => l.found = IF l.mode = "all" THEN UnresolvedOf(RemarkNotes \ l.left)
                                  ELSE IF l.note \in l.left THEN {} ELSE listFor(l.note)
      BY <1>4, <2>2 DEF FeedbackInv, LatestReads
    <3>2. ASSUME ~untold, l.mode = "all" PROVE found = UnresolvedOf(RemarkNotes \ left)
      <4>1. RemarkNotes \ left = (RemarkNotes \ l.left) \cup {note}
        BY <1>1, <1>2
      <4>2. UnresolvedOf(RemarkNotes \ left) = UnresolvedOf(RemarkNotes \ l.left) \cup listUnresolved(note)
        BY <4>1 DEF UnresolvedOf
      <4>3. QED
        BY <1>1, <3>1, <3>2, <4>2
    <3>3. ASSUME ~untold, l.mode # "all" PROVE found = IF l.note \in left THEN {} ELSE listFor(l.note)
      <4>1. note = l.note /\ l.found = {}
        BY <1>2, <1>3, <3>1, <3>3 DEF AListing, Modes
      <4>2. QED
        BY <1>1, <3>3, <4>1
    <3>4. QED
      BY <1>4, <2>2, <3>1, <3>2, <3>3
  <2>3. QED
    BY <1>2, <2>1, <2>2
<1>10. DrawnStands'
  <2>1. (\A m \in listings' : ~m.latest) => \A m \in listings : ~m.latest
    BY <1>2, <1>4
  <2>2. QED
    BY <1>0, <1>2, <2>1 DEF FeedbackInv, DrawnStands
<1>11. QED
  BY <1>7, <1>8, <1>9, <1>10 DEF FeedbackInv

LEMMA ShowStep == ASSUME FeedbackInv, NEW l \in listings, ShowRemarks(l) PROVE FeedbackInv'
<1>0. /\ \A n : listFor(n)' = listFor(n) /\ listUnresolved(n)' = listUnresolved(n)
      /\ \A notes : UnresolvedOf(notes)' = UnresolvedOf(notes)
  BY SameRemarks DEF ShowRemarks
<1>1. /\ l.left = {} /\ listings' = listings \ {l} /\ UNCHANGED <<remarks, active, untold, strayed>>
      /\ FeedbackTypes /\ AListing(l) /\ ATab(tab)
  BY DEF ShowRemarks, FeedbackInv, FeedbackTypes
<1>2. CASE Outdated(l)
  <2>1. UNCHANGED <<drawn, tab>> /\ ~l.latest
    BY <1>2 DEF ShowRemarks, Outdated, FeedbackInv, OneLatest
  <2>2. FeedbackTypes'
    BY <1>1, <2>1 DEF FeedbackTypes
  <2>3. OneLatest' /\ LatestReads'
    BY <1>0, <1>1, <2>1 DEF FeedbackInv, OneLatest, LatestReads
  <2>4. DrawnStands'
    BY <1>0, <1>1, <2>1 DEF FeedbackInv, DrawnStands
  <2>5. QED
    BY <2>2, <2>3, <2>4 DEF FeedbackInv
<1>3. CASE ~Outdated(l)
  <2>1. PICK rendered : rendered = IF l.mode = "all" THEN AllUnresolved ELSE l.note
    OBVIOUS
  <2>2. /\ drawn' = l.found /\ tab' = [tab EXCEPT !.rendered = rendered] /\ l.latest /\ tab.open
    BY <1>3, <2>1 DEF ShowRemarks, Outdated
  <2>3. tab' = [open |-> tab.open, mode |-> tab.mode, rendered |-> rendered]
    BY <1>1, <2>2, TabParts
  <2>4. ATab(tab') /\ tab'.open = tab.open /\ tab'.mode = tab.mode /\ tab'.rendered = rendered
    BY <1>1, <2>3, TabOf DEF ATab
  <2>5. FeedbackTypes'
    BY <1>1, <2>2, <2>4 DEF FeedbackTypes, AListing
  <2>6. \A m \in listings' : ~m.latest
    BY <1>1, <2>2 DEF FeedbackInv, OneLatest
  <2>7. OneLatest' /\ LatestReads'
    BY <2>6 DEF OneLatest, LatestReads
  <2>8. /\ l.mode = tab.mode
        /\ ~strayed /\ l.mode = "current" => l.note = active
        /\ ~untold => l.found = IF l.mode = "all" THEN UnresolvedOf(RemarkNotes \ l.left)
                                ELSE IF l.note \in l.left THEN {} ELSE listFor(l.note)
    BY <2>2 DEF FeedbackInv, LatestReads
  <2>9. RemarkNotes \ l.left = RemarkNotes
    BY <1>1
  <2>10. DrawnStands'
    <3> SUFFICES ASSUME ~strayed
                 PROVE  /\ tab.mode = "current" => rendered = active
                        /\ ~untold => l.found = IF tab.mode = "all" THEN UnresolvedOf(RemarkNotes) ELSE listFor(active)
      BY <1>0, <1>1, <2>2, <2>4 DEF DrawnStands
    <3>1. QED
      BY <1>1, <2>1, <2>8, <2>9 DEF AListing, Modes
  <2>11. QED
    BY <2>5, <2>7, <2>10 DEF FeedbackInv
<1>4. QED
  BY <1>2, <1>3

----------------------------------------------------------------------------

LEMMA ActivateStep == ASSUME FeedbackInv, NEW leaf, ActivateFile(leaf) PROVE FeedbackInv'
<1>1. /\ leaf # active /\ active' = leaf /\ UNCHANGED <<remarks, untold>> /\ untold \in BOOLEAN /\ ATab(tab)
      /\ FeedbackTypes
  BY DEF ActivateFile, FeedbackInv, FeedbackTypes
<1>2. CASE tab.open /\ tab.mode = "current" /\ leaf # tab.rendered
  BY <1>1, <1>2, RenderStep DEF ActivateFile
<1>3. CASE ~(tab.open /\ tab.mode = "current" /\ leaf # tab.rendered)
  <2>0. /\ \A n : listFor(n)' = listFor(n) /\ listUnresolved(n)' = listUnresolved(n)
        /\ \A notes : UnresolvedOf(notes)' = UnresolvedOf(notes)
    BY <1>1, SameRemarks
  <2>1. /\ UNCHANGED <<tab, drawn, listings>>
        /\ strayed' = (strayed \/ \E l \in listings : ~Outdated(l) /\ tab.mode = "current")
    BY <1>3 DEF ActivateFile
  <2>2. FeedbackTypes' /\ OneLatest'
    BY <1>1, <2>1 DEF FeedbackInv, FeedbackTypes, OneLatest
  <2>3. ~strayed' => ~strayed /\ \A l \in listings : l.latest => tab.mode # "current"
    BY <2>1 DEF Outdated, FeedbackInv, OneLatest
  <2>4. LatestReads'
    BY <1>1, <2>0, <2>1, <2>3 DEF FeedbackInv, LatestReads
  <2>5. DrawnStands'
    <3> SUFFICES ASSUME tab.open, ~strayed, \A l \in listings : ~l.latest
                 PROVE  /\ tab.mode = "current" => tab.rendered = leaf
                        /\ ~untold => drawn = IF tab.mode = "all" THEN UnresolvedOf(RemarkNotes) ELSE listFor(leaf)
      BY <1>1, <2>0, <2>1, <2>3 DEF DrawnStands
    <3>1. /\ tab.mode = "current" => tab.rendered = active
          /\ ~untold => drawn = IF tab.mode = "all" THEN UnresolvedOf(RemarkNotes) ELSE listFor(active)
      BY DEF FeedbackInv, DrawnStands
    <3>2. tab.mode # "current"
      BY <1>1, <1>3, <3>1
    <3>3. tab.mode = "all"
      BY <1>1, <3>2 DEF ATab, Modes
    <3>4. QED
      BY <3>1, <3>3
  <2>6. QED
    BY <2>2, <2>4, <2>5 DEF FeedbackInv
<1>4. QED
  BY <1>2, <1>3

LEMMA ToggleStep == ASSUME FeedbackInv, ToggleView \/ ShowFeedback \/ TellListeners PROVE FeedbackInv'
<1>1. ATab(tab) /\ untold \in BOOLEAN /\ FeedbackTypes
  BY DEF FeedbackInv, FeedbackTypes
<1>2. CASE ToggleView
  <2>1. PICK a, b, c : tab = [open |-> a, mode |-> b, rendered |-> c]
    BY <1>1 DEF ATab
  <2>2. PICK mode : mode = IF b = "all" THEN "current" ELSE "all"
    OBVIOUS
  <2>3. PICK t : t = [tab EXCEPT !.mode = mode, !.rendered = NothingDrawn]
    OBVIOUS
  <2>4. t = [open |-> a, mode |-> mode, rendered |-> NothingDrawn] /\ tab.open = a /\ tab.mode = b
    BY <2>1, <2>3
  <2>5. ATab(t) /\ t.open = tab.open
    BY <1>1, <2>2, <2>4, TabOf DEF ATab, Modes
  <2>6. RenderList(t, active) /\ tab.open /\ UNCHANGED <<remarks, active, untold>>
    BY <1>2, <2>2, <2>3, <2>4 DEF ToggleView
  <2>7. QED
    BY <1>1, <2>5, <2>6, RenderStep
<1>3. CASE ShowFeedback
  <2>1. PICK t : t = [ClosedTab EXCEPT !.open = TRUE]
    OBVIOUS
  <2>2. t = [open |-> TRUE, mode |-> "current", rendered |-> NothingDrawn]
    BY <2>1 DEF ClosedTab
  <2>3. ATab(t) /\ t.open = TRUE
    <3>1. t.open = TRUE /\ t.mode = "current" /\ t.rendered = NothingDrawn
      BY <2>2
    <3>2. t = [open |-> t.open, mode |-> t.mode, rendered |-> t.rendered]
      BY <2>2, <3>1
    <3>3. QED
      BY <3>1, <3>2 DEF ATab, Modes
  <2>4. RenderList(t, active) /\ UNCHANGED <<remarks, active, untold>>
    BY <1>3, <2>1 DEF ShowFeedback
  <2>5. QED
    BY <1>1, <2>3, <2>4, RenderStep
<1>4. CASE TellListeners /\ tab.open
  <2>1. RenderList(tab, active) /\ UNCHANGED <<remarks, active>> /\ untold' \in BOOLEAN
    BY <1>4 DEF TellListeners
  <2>2. QED
    BY <1>1, <1>4, <2>1, RenderStep
<1>5. CASE TellListeners /\ ~tab.open
  <2>1. untold' = FALSE /\ UNCHANGED <<remarks, active, tab, drawn, listings, strayed>>
    BY <1>5 DEF TellListeners
  <2>2. FeedbackTypes' /\ OneLatest'
    BY <2>1 DEF FeedbackInv, FeedbackTypes, OneLatest
  <2>3. LatestReads' /\ DrawnStands'
    BY <1>5, <2>1 DEF FeedbackInv, OneLatest, LatestReads, DrawnStands
  <2>4. QED
    BY <2>2, <2>3 DEF FeedbackInv
<1>6. QED
  BY <1>2, <1>3, <1>4, <1>5

LEMMA LeaveStep == ASSUME FeedbackInv, LeaveFeedback PROVE FeedbackInv'
<1>1. /\ tab' = ClosedTab /\ drawn' = {} /\ listings' = OlderLists /\ strayed' = FALSE
      /\ UNCHANGED <<remarks, active, untold>> /\ FeedbackTypes
  BY DEF LeaveFeedback, FeedbackInv
<1>2. ATab(tab') /\ tab'.open = FALSE
  <2>1. tab' = [open |-> FALSE, mode |-> "current", rendered |-> NothingDrawn]
    BY <1>1 DEF ClosedTab
  <2>2. QED
    BY ZenonT(60), <2>1, TabOf DEF Modes
<1>3. \A l \in listings' : AListing(l) /\ ~l.latest
  BY <1>1, OlderListsAreOld
<1>4. FeedbackTypes'
  BY <1>1, <1>2, <1>3 DEF FeedbackTypes
<1>5. OneLatest' /\ LatestReads' /\ DrawnStands'
  BY <1>2, <1>3 DEF OneLatest, LatestReads, DrawnStands
<1>6. QED
  BY <1>4, <1>5 DEF FeedbackInv

\* A remark is written: until the listeners are told, nothing is claimed of what is drawn.
LEMMA WrittenStep ==
    ASSUME FeedbackInv, NEW r \in Remarks, NEW doc, ADoc(doc), doc.rev \in Nat, doc.note \in RemarkNotes,
           WriteRemark(r, doc), UNCHANGED <<active, tab, drawn, listings, strayed>>
    PROVE  FeedbackInv'
<1>1. PICK new : new = [doc EXCEPT !.rev = @ + 1]
  OBVIOUS
<1>2. remarks' = [remarks EXCEPT ![r] = new] /\ untold' = TRUE
  BY <1>1 DEF WriteRemark
<1>3. ADoc(new) /\ new.rev \in Nat /\ new.note \in RemarkNotes
  <2>1. PICK a, b, c, d : doc = [rev |-> a, note |-> b, resolved |-> c, deleted |-> d]
    BY DEF ADoc
  <2>2. a = doc.rev /\ b = doc.note
    BY <2>1
  <2>3. new = [rev |-> a + 1, note |-> b, resolved |-> c, deleted |-> d]
    BY <1>1, <2>1
  <2>4. new.rev = a + 1 /\ new.note = b /\ new.resolved = c /\ new.deleted = d
    BY <2>3
  <2>5. QED
    BY <2>2, <2>3, <2>4 DEF ADoc
<1>4. FeedbackTypes'
  BY <1>2, <1>3 DEF FeedbackInv, FeedbackTypes
<1>5. OneLatest' /\ LatestReads' /\ DrawnStands'
  BY <1>2 DEF FeedbackInv, OneLatest, LatestReads, DrawnStands
<1>6. QED
  BY <1>4, <1>5 DEF FeedbackInv

LEMMA RemarksStep ==
    ASSUME FeedbackInv,
           \/ \E r \in Remarks : RemarkArrives(r) \/ \E note \in RemarkNotes : AddFeedback(r, note)
           \/ \E c \in drawn : SetResolved(c) \/ RemoveRemark(c)
    PROVE  FeedbackInv'
<1>1. ASSUME NEW r \in Remarks, RemarkArrives(r) PROVE FeedbackInv'
  <2>1. PICK note \in RemarkNotes, resolved \in BOOLEAN, deleted \in BOOLEAN :
            WriteRemark(r, Remark(remarks[r].rev, note, resolved, deleted))
    BY <1>1 DEF RemarkArrives
  <2>2. PICK doc : doc = Remark(remarks[r].rev, note, resolved, deleted)
    OBVIOUS
  <2>3. ADoc(doc) /\ doc.rev = remarks[r].rev /\ doc.note = note
    BY <2>2 DEF Remark, ADoc
  <2>4. doc.rev \in Nat
    BY <2>3 DEF FeedbackInv, FeedbackTypes
  <2>5. QED
    BY <1>1, <2>1, <2>2, <2>3, <2>4, WrittenStep DEF RemarkArrives
<1>2. ASSUME NEW r \in Remarks, NEW note \in RemarkNotes, AddFeedback(r, note) PROVE FeedbackInv'
  <2>1. PICK doc : doc = Remark(0, note, FALSE, FALSE)
    OBVIOUS
  <2>2. ADoc(doc) /\ doc.rev = 0 /\ doc.note = note /\ doc.rev \in Nat
    BY <2>1 DEF Remark, ADoc
  <2>3. QED
    BY <1>2, <2>1, <2>2, WrittenStep DEF AddFeedback
<1>3. ASSUME NEW c \in drawn, SetResolved(c) \/ RemoveRemark(c) PROVE FeedbackInv'
  <2>0. ACard(c)
    BY DEF FeedbackInv, FeedbackTypes
  <2>1. PICK doc : /\ PutRemark(c, doc) /\ UNCHANGED <<active, tab, drawn, listings, strayed>>
                   /\ \/ doc = [c.doc EXCEPT !.resolved = ~@]
                      \/ doc = [c.doc EXCEPT !.deleted = TRUE]
    BY <1>3 DEF SetResolved, RemoveRemark
  <2>2. PICK a, b, e, d : c.doc = [rev |-> a, note |-> b, resolved |-> e, deleted |-> d]
    BY <2>0 DEF ACard, ADoc
  <2>3. \/ doc = [rev |-> a, note |-> b, resolved |-> ~e, deleted |-> d]
        \/ doc = [rev |-> a, note |-> b, resolved |-> e, deleted |-> TRUE]
    BY <2>1, <2>2
  <2>4. ADoc(doc) /\ doc.rev = a /\ doc.note = b
    BY <2>3 DEF ADoc
  <2>5. a \in Nat /\ b \in RemarkNotes /\ c.id \in Remarks
    BY <2>0, <2>1, <2>2 DEF ACard, PutRemark, FeedbackInv, FeedbackTypes
  <2>6. QED
    BY <2>1, <2>4, <2>5, WrittenStep DEF PutRemark
<1>4. QED
  BY <1>1, <1>2, <1>3

LEMMA FeedbackInvStep == FeedbackInv /\ [FeedbackNext]_feedbackVars => FeedbackInv'
<1> SUFFICES ASSUME FeedbackInv, [FeedbackNext]_feedbackVars PROVE FeedbackInv'
  OBVIOUS
<1>1. CASE UNCHANGED feedbackVars
  <2>1. UNCHANGED <<remarks, active, tab, drawn, listings, untold, strayed>>
    BY <1>1 DEF feedbackVars
  <2>2. FeedbackTypes' /\ OneLatest'
    BY <2>1 DEF FeedbackInv, FeedbackTypes, OneLatest
  <2>3. /\ \A n : listFor(n)' = listFor(n) /\ listUnresolved(n)' = listUnresolved(n)
        /\ \A notes : UnresolvedOf(notes)' = UnresolvedOf(notes)
    BY <2>1, SameRemarks
  <2>4. LatestReads' /\ DrawnStands'
    BY <2>1, <2>3 DEF FeedbackInv, LatestReads, DrawnStands
  <2>5. QED
    BY <2>2, <2>4 DEF FeedbackInv
<1>2. QED
  BY <1>1, ReadStep, ShowStep, ActivateStep, ToggleStep, LeaveStep, RemarksStep DEF FeedbackNext

LEMMA FeedbackInvShows == FeedbackInv => FeedbackIsShown
  BY DEF FeedbackInv, OneLatest, DrawnStands, FeedbackIsShown, Outdated, UnresolvedOf

\* Once every list asked for has been read and the listeners have been told, the tab shows the
\* remarks as they stand (FeedbackSection.ts:62-97), for any remarks and notes and however many
\* lists are read at once.
THEOREM TheFeedbackIsShown == FeedbackSpec => []FeedbackIsShown
<1>1. FeedbackInit => FeedbackInv
  BY FeedbackInvInit
<1>2. FeedbackInv /\ [FeedbackNext]_feedbackVars => FeedbackInv'
  BY FeedbackInvStep
<1>3. QED
  BY <1>1, <1>2, FeedbackInvShows, PTL DEF FeedbackSpec

-----------------------------------------------------------------------------

(* Assignments: the invariant.                                               *)

\* What may be made of a state, and by a revision r of the revision q it is put on.
Continues(before, after) ==
    /\ before.progress = "submitted" => after.progress # "assigned" \/ after.by = "unsubmit"
    /\ before.progress = "returned" => after.progress = "returned" /\ after.grade >= before.grade
Passes(q, r) == q.state = "live" /\ r.state = "live" => Continues(q.text, r.text)

\* The revisions of one state document, made before time n.
Tended(U, n) ==
    /\ U \subseteq Rev(States) /\ \A r \in U : r.text \in States /\ r.state # "removed"
    /\ Tree(U) /\ Dated(U, n)
    /\ \A r \in U, q \in U : r.anc = Past(q) => Passes(q, r)

Places(f) == f = [t \in Sites |-> [d \in Assignments |-> f[t][d]]]
ASend(m) == m.uid \in Assignments /\ m.op \in {"distribute", "delete"} /\ m.archived \in BOOLEAN
AssignTypes ==
    /\ defs \in [Assignments -> Def \cup {Absent}]
    /\ Places(copies)
    /\ \A m \in sending : ASend(m)
    /\ swept \in BOOLEAN /\ born \in Nat /\ acts \in 0..MaxActs

SweepTypes ==
    sweep # Absent =>
      /\ sweep = [pc |-> sweep.pc, defined |-> sweep.defined, left |-> sweep.left]
      /\ sweep.pc \in {"list", "put"} /\ sweep.defined \subseteq Assignments
      /\ sweep.left \subseteq Assignments \X States
      /\ \A o, p \in sweep.left : o[1] = p[1] => o = p

Histories == \A a \in Assignments : Tended(Revisions(a), born)

\* A document of which all sites have the same, and one that is gone wherever it has been heard of.
Alike(a) == \A s \in Sites : Copy(s, a) = Copy("server", a)
Settled(a) == ~IsLive(Copy("server", a)) /\ \A s \in Sites : Copy(s, a) \subseteq Copy("server", a)
Listed(a) == \E o \in sweep.left : o[1] = a

\* A cleanup nothing came between: what has no definition has the same copies everywhere until
\* it is listed, and is gone unless it is still to be put.
SweepIsExact ==
    swept =>
      /\ sending = {}
      /\ sweep # Absent => sweep.defined = {a \in Assignments : Defined(a)}
      /\ \A a \in Assignments : ~Defined(a) =>
           IF sweep # Absent /\ sweep.pc = "list" THEN Alike(a)
           ELSE IF sweep # Absent /\ Listed(a) THEN Alike(a) /\ IsLive(Copy("server", a))
           ELSE Settled(a)

AssignInv == AssignTypes /\ SweepTypes /\ Histories /\ SweepIsExact

----------------------------------------------------------------------------
(* One document.                                                            *)

LEMMA TendedLater ==
    ASSUME NEW U, NEW n \in Nat, Tended(U, n), NEW m \in Nat, n <= m
    PROVE  Tended(U, m)
  BY DatedLater DEF Tended

\* A new revision is put on b or begins the document anew.
LEMMA PutTends ==
    ASSUME NEW U, NEW n \in Nat, Tended(U, n),
           NEW c, c \in Rev(States), c.text \in States, c.state # "removed", c.id = 2 * (n + 1),
           NEW b, c.anc = {} \/ (b \in U /\ c.anc = Past(b) /\ Passes(b, c))
    PROVE  Tended(U \cup {c}, n + 1) /\ \A r \in U \cup {c} : c.id \notin r.anc
<1>1. Tree(U) /\ Dated(U, n) /\ n + 1 \in Nat /\ n < n + 1
  BY DEF Tended
<1>2. Tree(U \cup {c}) /\ Dated(U \cup {c}, n + 1) /\ \A r \in U \cup {c} : c.id \notin r.anc
  <2>1. c.anc = {} \/ \E q \in U : c.anc = Past(q)
    OBVIOUS
  <2>2. PICK m \in Nat : m = n + 1
    BY <1>1
  <2>3. n < m /\ c.id \in {2 * m, -2 * m}
    BY <2>2
  <2>4. Tree(U \cup {c}) /\ Dated(U \cup {c}, m) /\ \A r \in U \cup {c} : c.id \notin r.anc
    BY <1>1, <2>1, <2>3, LaterPut
  <2>5. QED
    BY <2>2, <2>4
<1>3. ASSUME NEW r \in U \cup {c}, NEW q \in U \cup {c}, r.anc = Past(q) PROVE Passes(q, r)
  <2>1. q # c
    BY <1>2, <1>3 DEF Past
  <2>2. CASE r = c
    <3>1. b \in U /\ c.anc = Past(b) /\ Passes(b, c)
      BY <1>3, <2>2 DEF Past
    <3>2. q = b
      BY <1>1, <1>3, <2>1, <2>2, <3>1, PartIsTree
    <3>3. QED
      BY <2>2, <3>1, <3>2
  <2>3. CASE r # c
    BY <1>3, <2>1, <2>3 DEF Tended
  <2>4. QED
    BY <2>2, <2>3
<1>4. QED
  BY <1>2, <1>3 DEF Tended

\* The winner of a document, and what the next revision is put on.
LEMMA WhatWins ==
    ASSUME NEW U, NEW n \in Nat, Tended(U, n), NEW doc \in SUBSET U
    PROVE  /\ doc = {} => Winner(doc) = NoRev /\ Base(doc) = NoRev /\ Present(doc) = {}
           /\ doc # {} => /\ Base(doc) = Winner(doc) /\ Winner(doc) \in U /\ Winner(doc) # NoRev
                          /\ Present(doc) # {}
                          /\ Winner(doc).text \in States /\ Winner(doc).state \in {"live", "deleted"}
           /\ IsLive(doc) => doc # {}
<1>1. Tree(U) /\ Dated(U, n)
  BY DEF Tended
<1>2. /\ Present(doc) # {} => Winner(doc) \in Present(doc)
      /\ Present(doc) = {} => Winner(doc) = NoRev
      /\ Present(doc) # {} => Base(doc) = Winner(doc)
      /\ doc # {} => Base(doc) \in Leaves(doc)
      /\ doc = {} => Base(doc) = NoRev
  BY <1>1, WinnerShows
<1>3. Present(doc) = Leaves(doc)
  BY DEF Present, Leaves, Tended
<1>4. ASSUME NEW r \in U PROVE r.text \in States /\ r.state \in {"live", "deleted"} /\ r # NoRev
  BY DEF Tended, Rev, NoRev
<1>5. Present(doc) \subseteq doc
  BY DEF Present, Leaves
<1>6. ASSUME doc = {}
      PROVE  Winner(doc) = NoRev /\ Base(doc) = NoRev /\ Present(doc) = {} /\ ~IsLive(doc)
  <2>1. Winner(doc) = NoRev /\ Present(doc) = {}
    BY <1>2, <1>5, <1>6
  <2>2. QED
    BY <1>2, <1>6, <2>1 DEF IsLive, NoRev
<1>7. ASSUME doc # {}
      PROVE  /\ Base(doc) = Winner(doc) /\ Winner(doc) \in U /\ Winner(doc) # NoRev /\ Present(doc) # {}
             /\ Winner(doc).text \in States /\ Winner(doc).state \in {"live", "deleted"}
  <2>1. Present(doc) # {}
    BY <1>2, <1>3, <1>7
  <2>2. Base(doc) = Winner(doc) /\ Winner(doc) \in U
    BY <1>2, <1>5, <2>1
  <2>3. QED
    BY <1>4, <2>1, <2>2
<1>8. QED
  BY <1>6, <1>7

\* The revision that a write makes.
LEMMA ChildIsRev ==
    ASSUME NEW r, NEW k \in Int, NEW text \in States, NEW state, state = "live" \/ state = "deleted",
           NEW mine, mine \in BOOLEAN, r # NoRev => r.anc \subseteq Int /\ r.id \in Int
    PROVE  Child(r, k, text, state, mine, 0) \in Rev(States)
<1>1. PICK anc, i : anc = (IF r = NoRev THEN {} ELSE Past(r)) /\ i = 2 * k
  OBVIOUS
<1>2. anc \in SUBSET Int /\ i \in Int
  BY <1>1 DEF Past
<1>3. Child(r, k, text, state, mine, 0)
        = [id |-> i, anc |-> anc, text |-> text, state |-> state, mine |-> mine, at |-> 0]
  BY <1>1 DEF Child, Past
<1>4. 0 \in Nat /\ text \in States \cup {NoText} /\ state \in {"live", "deleted", "removed"}
  OBVIOUS
<1>5. QED
  BY <1>2, <1>3, <1>4 DEF Rev

----------------------------------------------------------------------------
(* The copies.                                                              *)

LEMMA CopyIsPart ==
    ASSUME NEW s \in Sites, NEW a PROVE Copy(s, a) \in SUBSET Revisions(a)
  BY DEF Revisions

Placed(f, s, a, doc) == [f EXCEPT ![s][a] = doc]

LEMMA OneCopyChanges ==
    ASSUME NEW g, Places(g), NEW s \in Sites, NEW a \in Assignments, NEW doc
    PROVE  /\ Places(Placed(g, s, a, doc))
           /\ \A t \in Sites, d \in Assignments :
                Placed(g, s, a, doc)[t][d] = IF t = s /\ d = a THEN doc ELSE g[t][d]
<1>0. PICK f : f = Placed(g, s, a, doc)
  OBVIOUS
<1>1. f = [t \in Sites |-> IF t = s THEN [g[s] EXCEPT ![a] = doc] ELSE g[t]]
  BY <1>0 DEF Placed, Places
<1>2. [g[s] EXCEPT ![a] = doc] = [d \in Assignments |-> IF d = a THEN doc ELSE g[s][d]]
  <2>1. g[s] = [d \in Assignments |-> g[s][d]]
    BY Zenon DEF Places
  <2>2. QED
    BY <2>1
<1>3. ASSUME NEW t \in Sites
      PROVE  f[t] = IF t = s THEN [x \in Assignments |-> IF x = a THEN doc ELSE g[s][x]] ELSE g[t]
  BY <1>1, <1>2
<1>4. ASSUME NEW t \in Sites, NEW d \in Assignments
      PROVE  f[t][d] = IF t = s /\ d = a THEN doc ELSE g[t][d]
  BY <1>3
<1>5. ASSUME NEW t \in Sites PROVE f[t] = [d \in Assignments |-> f[t][d]]
  <2>1. g[t] = [d \in Assignments |-> g[t][d]]
    BY Zenon DEF Places
  <2>2. CASE t = s
    BY <1>3, <2>2
  <2>3. CASE t # s
    BY <1>3, <2>1, <2>3
  <2>4. QED
    BY <2>2, <2>3
<1>6. f = [t \in Sites |-> f[t]]
  BY <1>1
<1>7. f = [t \in Sites |-> [d \in Assignments |-> f[t][d]]]
  BY <1>5, <1>6
<1>8. QED
  BY <1>0, <1>4, <1>7 DEF Places

\* A revision is added to the copy of a site.
Adds(s, a, c) ==
    \A t \in Sites, d \in Assignments :
        Copy(t, d)' = IF t = s /\ d = a THEN Copy(s, a) \cup {c} ELSE Copy(t, d)

LEMMA PutKeepsHistories ==
    ASSUME AssignTypes, Histories, NEW s \in Sites, NEW a \in Assignments, NEW c,
           copies' = [copies EXCEPT ![s][a] = @ \cup {c}], born' = born + 1,
           c \in Rev(States), c.text \in States, c.state # "removed", c.id = 2 * (born + 1),
           NEW b, c.anc = {} \/ (b \in Copy(s, a) /\ c.anc = Past(b) /\ Passes(b, c))
    PROVE  /\ Places(copies)' /\ Adds(s, a, c)
           /\ Histories' /\ born' \in Nat
           /\ \A r \in Copy(s, a) \cup {c} : c.id \notin r.anc
<1>1. /\ Places(copies)'
      /\ \A t \in Sites, d \in Assignments :
           Copy(t, d)' = IF t = s /\ d = a THEN Copy(s, a) \cup {c} ELSE Copy(t, d)
  <2>1. PICK doc, g : doc = Copy(s, a) \cup {c} /\ g = copies
    OBVIOUS
  <2>2. Places(g)
    BY <2>1 DEF AssignTypes
  <2>3. copies' = Placed(g, s, a, doc)
    BY <2>1 DEF Copy, Placed
  <2>4. /\ Places(Placed(g, s, a, doc))
        /\ \A t \in Sites, d \in Assignments :
             Placed(g, s, a, doc)[t][d] = IF t = s /\ d = a THEN doc ELSE g[t][d]
    BY <2>2, OneCopyChanges
  <2>5. ASSUME NEW t \in Sites, NEW d \in Assignments
        PROVE  Copy(t, d)' = IF t = s /\ d = a THEN Copy(s, a) \cup {c} ELSE Copy(t, d)
    BY ZenonT(60), <2>1, <2>3, <2>4 DEF Copy
  <2>6. PICK f : f = copies'
    OBVIOUS
  <2>7. Places(f)
    BY <2>3, <2>4, <2>6
  <2>8. Places(copies)'
    BY <2>6, <2>7 DEF Places
  <2>9. QED
    BY <2>5, <2>8
<1>2. born \in Nat /\ born' \in Nat /\ born <= born'
  BY DEF AssignTypes
<1>3. Tended(Revisions(a) \cup {c}, born + 1) /\ \A r \in Revisions(a) \cup {c} : c.id \notin r.anc
  <2>1. Tended(Revisions(a), born)
    BY DEF Histories
  <2>2. c.anc = {} \/ (b \in Revisions(a) /\ c.anc = Past(b) /\ Passes(b, c))
    BY CopyIsPart
  <2>3. QED
    BY <1>2, <2>1, <2>2, PutTends
<1>4. Revisions(a)' = Revisions(a) \cup {c}
  <2>1. \A t \in Sites : Copy(t, a)' = IF t = s THEN Copy(t, a) \cup {c} ELSE Copy(t, a)
    BY <1>1
  <2>2. QED
    BY <2>1 DEF Revisions
<1>5. ASSUME NEW d \in Assignments, d # a PROVE Revisions(d)' = Revisions(d)
  <2>1. \A t \in Sites : Copy(t, d)' = Copy(t, d)
    BY <1>1, <1>5
  <2>2. QED
    BY <2>1 DEF Revisions
<1>6. Histories'
  <2>1. ASSUME NEW d \in Assignments PROVE Tended(Revisions(d)', born')
    <3>1. CASE d = a
      BY <1>3, <1>4, <3>1
    <3>2. CASE d # a
      BY <1>2, <1>5, <3>2, TendedLater DEF Histories
    <3>3. QED
      BY <3>1, <3>2
  <2>2. QED
    BY <2>1 DEF Histories
<1>7. \A r \in Copy(s, a) \cup {c} : c.id \notin r.anc
  BY <1>3, CopyIsPart
<1>8. Adds(s, a, c)
  BY <1>1 DEF Adds
<1>9. QED
  BY <1>1, <1>2, <1>6, <1>7, <1>8

\* update and updateDoc; what is written must be right over the winner.
LEMMA WriteKeeps ==
    ASSUME AssignTypes, Histories, NEW s \in Sites, NEW a \in Assignments, NEW state \in States,
           Write(s, a, state), IsLive(Copy(s, a)) => Continues(Winner(Copy(s, a)).text, state)
    PROVE  Places(copies)' /\ Histories' /\ born' \in Nat
<1>1. PICK U, n, doc : U = Revisions(a) /\ n = born /\ doc = Copy(s, a)
  OBVIOUS
<1>2. Tended(U, n) /\ n \in Nat /\ doc \in SUBSET U
  BY <1>1, CopyIsPart DEF Histories, AssignTypes
<1>3. PICK r, c : r = Base(doc) /\ c = Child(Base(Copy(s, a)), born + 1, state, "live", s = "student", 0)
  OBVIOUS
<1>4. /\ doc = {} => r = NoRev
      /\ doc # {} => r = Winner(doc) /\ r \in U /\ r # NoRev
  BY <1>2, <1>3, WhatWins
<1>5. r # NoRev => r.anc \subseteq Int /\ r.id \in Int
  BY <1>2, <1>4 DEF Tended, Tree, Numbered
<1>6. /\ c.id = 2 * (n + 1) /\ c.text = state /\ c.state = "live"
      /\ c.anc = IF r = NoRev THEN {} ELSE Past(r)
      /\ c \in Rev(States)
  <2>1. PICK mine \in BOOLEAN : mine = (s = "student")
    OBVIOUS
  <2>2. PICK k \in Int : k = n + 1
    BY <1>2
  <2>3. PICK st : st = "live"
    OBVIOUS
  <2>4. c = Child(r, k, state, st, mine, 0)
    BY <1>1, <1>3, <2>1, <2>2, <2>3
  <2>5. c \in Rev(States)
    BY <1>5, <2>1, <2>2, <2>3, <2>4, ChildIsRev
  <2>6. PICK anc, i : anc = (IF r = NoRev THEN {} ELSE Past(r)) /\ i = 2 * (n + 1)
    OBVIOUS
  <2>7. c = [id |-> i, anc |-> anc, text |-> state, state |-> st, mine |-> mine, at |-> 0]
    BY <2>2, <2>4, <2>6 DEF Child, Past
  <2>8. c.id = i /\ c.anc = anc /\ c.text = state /\ c.state = st
    BY <2>7
  <2>9. QED
    BY <2>3, <2>5, <2>6, <2>8
<1>7. c.anc = {} \/ (r \in doc /\ c.anc = Past(r) /\ Passes(r, c))
  <2>1. CASE doc = {}
    BY <1>4, <1>6, <2>1
  <2>2. CASE doc # {}
    <3>1. r \in doc
      <4>1. Present(doc) # {} => Winner(doc) \in Present(doc)
        BY <1>2, WinnerShows DEF Tended
      <4>2. QED
        BY <1>2, <1>4, <2>2, <4>1, WhatWins DEF Present, Leaves
    <3>2. Passes(r, c)
      BY <1>1, <1>4, <1>6, <2>2 DEF IsLive, Passes
    <3>3. QED
      BY <1>4, <1>6, <2>2, <3>1, <3>2
  <2>3. QED
    BY <2>1, <2>2
<1>8. copies' = [copies EXCEPT ![s][a] = @ \cup {c}] /\ born' = born + 1
  <2>1. WithText(Copy(s, a), born + 1, state, s = "student") = Copy(s, a) \cup {c}
    BY <1>3 DEF WithText
  <2>2. copies' = [copies EXCEPT ![s][a] = WithText(@, born + 1, state, s = "student")] /\ born' = born + 1
    BY DEF Write
  <2>3. QED
    BY <2>1, <2>2 DEF Copy
<1>9. QED
  BY <1>1, <1>6, <1>7, <1>8, PutKeepsHistories

----------------------------------------------------------------------------
(* Steps that change a state document.                                      *)

LEMMA StateParts ==
    ASSUME NEW t \in States
    PROVE  /\ t = [progress |-> t.progress, grade |-> t.grade, archived |-> t.archived, by |-> t.by]
           /\ t.progress \in Progress /\ t.grade \in Nat /\ t.archived \in BOOLEAN
  BY DEF States

LEMMA StateOf ==
    ASSUME NEW progress \in Progress, NEW grade \in Nat, NEW archived \in BOOLEAN, NEW by,
           by \in {"distribute", "submit", "unsubmit", "archive", "return", "sweep"}
    PROVE  /\ State(progress, grade, archived, by) \in States
           /\ State(progress, grade, archived, by).progress = progress
           /\ State(progress, grade, archived, by).grade = grade
           /\ State(progress, grade, archived, by).by = by
  BY DEF State, States

\* Every change of a state, in full.
Marked(t, archived, by) == [t EXCEPT !.archived = archived, !.by = by]
Moved(t, progress, by) == [t EXCEPT !.progress = progress, !.by = by]
Graded(t) == [t EXCEPT !.progress = "returned", !.grade = @ + 1, !.by = "return"]
SignedBy(t, by) == [t EXCEPT !.by = by]

LEMMA Changes ==
    ASSUME NEW t \in States, NEW archived, NEW by, NEW progress
    PROVE  /\ Marked(t, archived, by) = State(t.progress, t.grade, archived, by)
           /\ Moved(t, progress, by) = State(progress, t.grade, t.archived, by)
           /\ Graded(t) = State("returned", t.grade + 1, t.archived, "return")
           /\ SignedBy(t, by) = State(t.progress, t.grade, t.archived, by)
<1>1. PICK a, b, c, d : t = [progress |-> a, grade |-> b, archived |-> c, by |-> d]
  BY StateParts
<1>2. t.progress = a /\ t.grade = b /\ t.archived = c
  BY <1>1
<1>3. PICK u : u = [t EXCEPT !.archived = archived, !.by = by]
  OBVIOUS
<1>4. u = [progress |-> a, grade |-> b, archived |-> archived, by |-> by]
  BY <1>1, <1>3
<1>5. PICK v : v = [t EXCEPT !.progress = progress, !.by = by]
  OBVIOUS
<1>6. v = [progress |-> progress, grade |-> b, archived |-> c, by |-> by]
  BY <1>1, <1>5
<1>7. PICK p, g, r : p = "returned" /\ g = b + 1 /\ r = "return"
  OBVIOUS
<1>8. PICK w : w = [t EXCEPT !.progress = p, !.grade = g, !.by = r]
  OBVIOUS
<1>9. w = [progress |-> p, grade |-> g, archived |-> c, by |-> r]
  BY <1>1, <1>8
<1>10. w = Graded(t)
  BY <1>2, <1>7, <1>8 DEF Graded
<1>11. PICK x : x = [t EXCEPT !.by = by]
  OBVIOUS
<1>12. x = [progress |-> a, grade |-> b, archived |-> c, by |-> by]
  BY <1>1, <1>11
<1>13. u = State(t.progress, t.grade, archived, by) /\ v = State(progress, t.grade, t.archived, by)
  BY <1>2, <1>4, <1>6 DEF State
<1>14. w = State("returned", t.grade + 1, t.archived, "return") /\ x = State(t.progress, t.grade, t.archived, by)
  BY <1>2, <1>7, <1>9, <1>12 DEF State
<1>15. u = Marked(t, archived, by) /\ v = Moved(t, progress, by) /\ x = SignedBy(t, by)
  BY <1>3, <1>5, <1>11 DEF Marked, Moved, SignedBy
<1>16. QED
  BY <1>10, <1>13, <1>14, <1>15

\* Nothing is claimed of a cleanup that something came between.
LEMMA UnsweptStep ==
    ASSUME AssignInv, swept' = FALSE, UNCHANGED sweep,
           defs' \in [Assignments -> Def \cup {Absent}], acts' \in 0..MaxActs,
           \A m \in sending' : ASend(m),
           \/ UNCHANGED <<copies, born>>
           \/ Places(copies)' /\ Histories' /\ born' \in Nat
    PROVE  AssignInv'
<1>1. AssignTypes /\ SweepTypes /\ Histories
  BY DEF AssignInv
<1>2. Places(copies)' /\ Histories' /\ born' \in Nat
  <2>1. CASE UNCHANGED <<copies, born>>
    <3>1. \A a : Revisions(a)' = Revisions(a)
      BY <2>1 DEF Revisions, Copy
    <3>2. Histories'
      BY <1>1, <2>1, <3>1 DEF Histories
    <3>3. QED
      BY <1>1, <2>1, <3>2 DEF AssignTypes, Places
  <2>2. QED
    BY <2>1
<1>3. AssignTypes'
  BY <1>2 DEF AssignTypes
<1>4. SweepTypes'
  BY <1>1 DEF SweepTypes
<1>5. SweepIsExact'
  BY DEF SweepIsExact
<1>6. QED
  BY <1>2, <1>3, <1>4, <1>5 DEF AssignInv

LEMMA Counted == ASSUME AssignInv, MayDo PROVE acts' \in 0..MaxActs
  BY AssignmentsAssumption DEF AssignInv, AssignTypes, MayDo

LEMMA CreateStep == ASSUME AssignInv, NEW a \in Assignments, CreateAssignment(a) PROVE AssignInv'
<1>1. acts' \in 0..MaxActs
  BY Counted DEF CreateAssignment
<1>2. /\ defs' = [defs EXCEPT ![a] = [archived |-> FALSE]]
      /\ sending' = sending \cup {[op |-> "distribute", uid |-> a, archived |-> FALSE]}
      /\ swept' = FALSE /\ UNCHANGED <<copies, sweep, born>>
  BY DEF CreateAssignment, Send
<1>3. defs' \in [Assignments -> Def \cup {Absent}]
  <2>1. PICK no, d : no = FALSE /\ d = [archived |-> no]
    OBVIOUS
  <2>2. d \in Def
    BY <2>1 DEF Def
  <2>3. defs' = [defs EXCEPT ![a] = d]
    BY <1>2, <2>1
  <2>4. QED
    BY <2>2, <2>3 DEF AssignInv, AssignTypes
<1>4. \A m \in sending' : ASend(m)
  <2>1. PICK op, uid, no : op = "distribute" /\ uid = a /\ no = FALSE
    OBVIOUS
  <2>2. PICK new : new = [op |-> op, uid |-> uid, archived |-> no]
    OBVIOUS
  <2>3. new.op = op /\ new.uid = uid /\ new.archived = no
    BY <2>2
  <2>4. ASend(new)
    BY <2>1, <2>3 DEF ASend
  <2>5. sending' = sending \cup {new}
    BY <1>2, <2>1, <2>2
  <2>6. QED
    BY <2>4, <2>5 DEF AssignInv, AssignTypes
<1>5. QED
  BY <1>1, <1>2, <1>3, <1>4, UnsweptStep

LEMMA UpdateStep ==
    ASSUME AssignInv, NEW a \in Assignments, UpdateAssignment(a) \/ DeleteAssignment(a) PROVE AssignInv'
<1>1. acts' \in 0..MaxActs
  BY Counted DEF UpdateAssignment, DeleteAssignment
<1>2. /\ defs' = defs \/ defs' = [defs EXCEPT ![a] = Absent]
      /\ swept' = FALSE /\ UNCHANGED <<copies, sweep, born>>
  BY DEF UpdateAssignment, DeleteAssignment
<1>3. defs' \in [Assignments -> Def \cup {Absent}]
  BY <1>2 DEF AssignInv, AssignTypes
<1>4. \A m \in sending' : ASend(m)
  <2>1. PICK archived : archived = defs[a].archived
    OBVIOUS
  <2>2. PICK no : no = FALSE
    OBVIOUS
  <2>3. archived \in BOOLEAN
    <3>1. Defined(a)
      BY DEF UpdateAssignment, DeleteAssignment
    <3>2. QED
      BY <2>1, <3>1 DEF Defined, Def, AssignInv, AssignTypes
  <2>4. PICK distribute, delete : distribute = "distribute" /\ delete = "delete"
    OBVIOUS
  <2>5. \E op \in {distribute, delete}, b \in {archived, no} :
           sending' = sending \cup {[op |-> op, uid |-> a, archived |-> b]}
    BY <2>1, <2>2, <2>4 DEF UpdateAssignment, DeleteAssignment, Send
  <2>6. PICK op \in {distribute, delete}, b \in {archived, no} :
           sending' = sending \cup {[op |-> op, uid |-> a, archived |-> b]}
    BY <2>5
  <2>7. PICK new : new = [op |-> op, uid |-> a, archived |-> b]
    OBVIOUS
  <2>8. new.op = op /\ new.uid = a /\ new.archived = b
    BY <2>7
  <2>9. ASend(new)
    BY <2>2, <2>3, <2>4, <2>6, <2>8 DEF ASend
  <2>10. QED
    BY <2>6, <2>7, <2>9 DEF AssignInv, AssignTypes
<1>5. QED
  BY <1>1, <1>2, <1>3, <1>4, UnsweptStep

\* What is put over a live state continues it.
LEMMA LiveText ==
    ASSUME AssignInv, NEW s \in Sites, NEW a \in Assignments, IsLive(Copy(s, a))
    PROVE  Winner(Copy(s, a)).text \in States
<1>1. Tended(Revisions(a), born) /\ born \in Nat
  BY DEF AssignInv, AssignTypes, Histories
<1>2. QED
  BY <1>1, CopyIsPart, WhatWins

LEMMA StateWritten ==
    ASSUME AssignInv, NEW s \in Sites, NEW a \in Assignments, NEW state \in States, Write(s, a, state),
           IsLive(Copy(s, a)) => Continues(Winner(Copy(s, a)).text, state), swept' = FALSE,
           acts' \in 0..MaxActs, UNCHANGED sweep, defs' \in [Assignments -> Def \cup {Absent}],
           \A m \in sending' : ASend(m)
    PROVE  AssignInv'
<1>1. Places(copies)' /\ Histories' /\ born' \in Nat
  BY WriteKeeps DEF AssignInv
<1>2. QED
  BY <1>1, UnsweptStep

LEMMA SameSending ==
    ASSUME AssignInv, sending' \subseteq sending
    PROVE  \A m \in sending' : ASend(m)
  BY DEF AssignInv, AssignTypes

LEMMA ArchiveStep ==
    ASSUME AssignInv, NEW a \in Assignments, NEW archived \in BOOLEAN, ArchiveAssignment(a, archived)
    PROVE  AssignInv'
<1>1. /\ MayDo /\ Defined(a) /\ defs' = [defs EXCEPT ![a].archived = archived]
      /\ swept' = FALSE /\ UNCHANGED <<sending, sweep>>
  BY DEF ArchiveAssignment
<1>2. defs' \in [Assignments -> Def \cup {Absent}]
  <2>1. defs \in [Assignments -> Def \cup {Absent}] /\ defs[a] \in Def
    BY <1>1 DEF AssignInv, AssignTypes, Defined
  <2>2. PICK d : d = [defs[a] EXCEPT !.archived = archived]
    OBVIOUS
  <2>3. d \in Def
    BY <2>1, <2>2 DEF Def
  <2>4. defs' = [defs EXCEPT ![a] = d]
    BY <1>1, <2>2
  <2>5. QED
    BY <2>1, <2>3, <2>4
<1>3. CASE IsLive(Copy("teacher", a))
  <2>0. PICK t : t = Winner(Copy("teacher", a)).text
    OBVIOUS
  <2>1. PICK state : state = Marked(t, archived, "archive")
    OBVIOUS
  <2>2. "teacher" \in Sites
    BY DEF Sites
  <2>3. t \in States
    BY <1>3, <2>0, <2>2, LiveText
  <2>4. Write("teacher", a, state)
    BY <1>3, <2>0, <2>1 DEF ArchiveAssignment, Marked
  <2>5. state = State(t.progress, t.grade, archived, "archive")
    BY <2>1, <2>3, Changes
  <2>6. state \in States /\ state.progress = t.progress /\ state.grade = t.grade
    BY <2>3, <2>5, StateParts, StateOf
  <2>7. t.grade \in Nat
    BY <2>3, StateParts
  <2>8. Continues(t, state)
    BY <2>3, <2>6, <2>7 DEF Continues, States, Progress
  <2>9. acts' \in 0..MaxActs
    BY <1>1, Counted
  <2>10. \A m \in sending' : ASend(m)
    BY <1>1, SameSending
  <2>11. QED
    BY <1>1, <1>2, <2>0, <2>2, <2>4, <2>6, <2>8, <2>9, <2>10, StateWritten
<1>4. CASE ~IsLive(Copy("teacher", a))
  <2>1. UNCHANGED <<copies, born>>
    BY <1>4 DEF ArchiveAssignment
  <2>2. acts' \in 0..MaxActs
    BY <1>1, Counted
  <2>3. \A m \in sending' : ASend(m)
    BY <1>1 DEF AssignInv, AssignTypes
  <2>4. QED
    BY <1>1, <1>2, <2>1, <2>2, <2>3, UnsweptStep
<1>5. QED
  BY <1>3, <1>4

\* Grading, handing in and taking back.
LEMMA WorkStep ==
    ASSUME AssignInv, NEW s \in Sites, NEW a \in Assignments, IsLive(Copy(s, a)),
           NEW t, t = Winner(Copy(s, a)).text, NEW state, Write(s, a, state),
           \/ state = Graded(t)
           \/ t.progress # "returned" /\ state = Moved(t, "submitted", "submit")
           \/ t.progress # "returned" /\ state = Moved(t, "assigned", "unsubmit"),
           MayDo, swept' = FALSE, UNCHANGED <<defs, sending, sweep>>
    PROVE  AssignInv'
<1>1. t \in States
  BY LiveText
<1>2. t.progress \in Progress /\ t.grade \in Nat /\ t.archived \in BOOLEAN
  BY <1>1, StateParts
<1>3. state \in States /\ Continues(t, state)
  <2>1. CASE state = Graded(t)
    <3>1. state = State("returned", t.grade + 1, t.archived, "return")
      BY <1>1, <2>1, Changes
    <3>2. PICK g \in Nat : g = t.grade + 1 /\ g >= t.grade
      BY <1>2
    <3>3. state = State("returned", g, t.archived, "return") /\ "returned" \in Progress
      BY <3>1, <3>2 DEF Progress
    <3>4. state \in States /\ state.progress = "returned" /\ state.grade = g
      BY <1>2, <3>3, StateOf
    <3>5. QED
      BY <3>2, <3>4 DEF Continues
  <2>2. CASE t.progress # "returned" /\ state = Moved(t, "submitted", "submit")
    <3>1. state = State("submitted", t.grade, t.archived, "submit")
      BY <1>1, <2>2, Changes
    <3>2. "submitted" \in Progress
      BY DEF Progress
    <3>3. state \in States /\ state.progress = "submitted"
      BY <1>2, <3>1, <3>2, StateOf
    <3>4. QED
      BY <2>2, <3>3 DEF Continues
  <2>3. CASE t.progress # "returned" /\ state = Moved(t, "assigned", "unsubmit")
    <3>1. state = State("assigned", t.grade, t.archived, "unsubmit")
      BY <1>1, <2>3, Changes
    <3>2. "assigned" \in Progress
      BY DEF Progress
    <3>3. state \in States /\ state.by = "unsubmit"
      BY <1>2, <3>1, <3>2, StateOf
    <3>4. QED
      BY <2>3, <3>3 DEF Continues
  <2>4. QED
    BY <2>1, <2>2, <2>3
<1>4. acts' \in 0..MaxActs
  BY Counted
<1>5. \A m \in sending' : ASend(m)
  BY SameSending
<1>6. defs' \in [Assignments -> Def \cup {Absent}]
  BY DEF AssignInv, AssignTypes
<1>7. QED
  BY <1>3, <1>4, <1>5, <1>6, StateWritten

LEMMA ByAUserStep ==
    ASSUME AssignInv, NEW a \in Assignments,
           ReturnAssignment(a) \/ SubmitAssignment(a) \/ UnsubmitAssignment(a)
    PROVE  AssignInv'
<1>1. "teacher" \in Sites /\ "student" \in Sites
  BY DEF Sites
<1>2. CASE ReturnAssignment(a)
  <2>1. PICK t : t = Winner(Copy("teacher", a)).text
    OBVIOUS
  <2>2. PICK state : state = Graded(t)
    OBVIOUS
  <2>3. /\ MayDo /\ IsLive(Copy("teacher", a)) /\ Write("teacher", a, state)
        /\ swept' = FALSE /\ UNCHANGED <<defs, sending, sweep>>
    BY <1>2, <2>1, <2>2 DEF ReturnAssignment, Graded
  <2>4. QED
    BY <1>1, <2>1, <2>2, <2>3, WorkStep
<1>3. CASE SubmitAssignment(a)
  <2>1. PICK t : t = Winner(Copy("student", a)).text
    OBVIOUS
  <2>2. PICK state : state = Moved(t, "submitted", "submit")
    OBVIOUS
  <2>3. /\ MayDo /\ IsLive(Copy("student", a)) /\ Write("student", a, state) /\ t.progress # "returned"
        /\ swept' = FALSE /\ UNCHANGED <<defs, sending, sweep>>
    BY <1>3, <2>1, <2>2 DEF SubmitAssignment, Moved
  <2>4. QED
    BY <1>1, <2>1, <2>2, <2>3, WorkStep
<1>4. CASE UnsubmitAssignment(a)
  <2>1. PICK t : t = Winner(Copy("student", a)).text
    OBVIOUS
  <2>2. PICK state : state = Moved(t, "assigned", "unsubmit")
    OBVIOUS
  <2>3. /\ MayDo /\ IsLive(Copy("student", a)) /\ Write("student", a, state) /\ t.progress # "returned"
        /\ swept' = FALSE /\ UNCHANGED <<defs, sending, sweep>>
    BY <1>4, <2>1, <2>2 DEF UnsubmitAssignment, Moved
  <2>4. QED
    BY <1>1, <2>1, <2>2, <2>3, WorkStep
<1>5. QED
  BY <1>2, <1>3, <1>4

\* Nothing is sent while a cleanup counts.
LEMMA SendingIsUnswept ==
    ASSUME AssignInv, NEW m \in sending
    PROVE  swept = FALSE /\ m.uid \in Assignments /\ m.archived \in BOOLEAN
  BY DEF AssignInv, AssignTypes, SweepIsExact, ASend

LEMMA DistributeStep == ASSUME AssignInv, NEW m, DistributeAssignment(m) PROVE AssignInv'
<1>1. /\ m \in sending /\ sending' = sending \ {m} /\ UNCHANGED <<defs, sweep, swept, acts>>
  BY DEF DistributeAssignment
<1>2. swept' = FALSE /\ m.uid \in Assignments /\ m.archived \in BOOLEAN
  BY <1>1, SendingIsUnswept
<1>3. PICK a, archived, doc : a = m.uid /\ archived = m.archived /\ doc = Copy("server", m.uid)
  OBVIOUS
<1>4. PICK state : state = Redistributed(doc, archived)
  OBVIOUS
<1>5. Write("server", a, state)
  BY <1>3, <1>4 DEF DistributeAssignment
<1>6. acts' \in 0..MaxActs /\ defs' \in [Assignments -> Def \cup {Absent}]
  BY <1>1 DEF AssignInv, AssignTypes
<1>7. "server" \in Sites
  BY DEF Sites
<1>8. \A o \in sending' : ASend(o)
  BY <1>1, SameSending
<1>9. state \in States /\ (IsLive(doc) => Continues(Winner(doc).text, state))
  <2>1. CASE IsLive(doc)
    <3>1. PICK t : t = Winner(doc).text
      OBVIOUS
    <3>2. t \in States
      BY <1>2, <1>3, <1>7, <2>1, <3>1, LiveText
    <3>3. state = Marked(t, archived, "distribute")
      BY <1>4, <2>1, <3>1 DEF Redistributed, Marked
    <3>4. state = State(t.progress, t.grade, archived, "distribute")
      BY <3>2, <3>3, Changes
    <3>5. t.progress \in Progress /\ t.grade \in Nat
      BY <3>2, StateParts
    <3>6. state \in States /\ state.progress = t.progress /\ state.grade = t.grade
      BY <1>2, <1>3, <3>4, <3>5, StateOf
    <3>7. Continues(t, state)
      BY <3>5, <3>6 DEF Continues, Progress
    <3>8. QED
      BY <3>1, <3>6, <3>7
  <2>2. CASE ~IsLive(doc)
    <3>1. state = State("assigned", 0, archived, "distribute")
      BY <1>4, <2>2 DEF Redistributed
    <3>2. "assigned" \in Progress /\ 0 \in Nat
      BY DEF Progress
    <3>3. state \in States
      BY <1>2, <1>3, <3>1, <3>2, StateOf
    <3>4. QED
      BY <2>2, <3>3
  <2>3. QED
    BY <2>1, <2>2
<1>10. IsLive(Copy("server", a)) => Continues(Winner(Copy("server", a)).text, state)
  BY <1>3, <1>9
<1>11. QED
  BY <1>1, <1>2, <1>3, <1>5, <1>6, <1>7, <1>8, <1>9, <1>10, StateWritten

\* A document marked deleted is not live, as long as nothing was put on another revision.
LEMMA DeletedWritten ==
    ASSUME AssignInv, NEW s \in Sites, NEW a \in Assignments, NEW state \in States, WriteDeleted(s, a, state)
    PROVE  /\ Places(copies)' /\ Histories' /\ born' \in Nat
           /\ \A t \in Sites, d \in Assignments : t # s \/ d # a => Copy(t, d)' = Copy(t, d)
           /\ Copy(s, a) \subseteq Copy(s, a)'
           /\ Copy(s, a) # {} => ~IsLive(Copy(s, a))'
<1>1. PICK U, n, doc : U = Revisions(a) /\ n = born /\ doc = Copy(s, a)
  OBVIOUS
<1>2. Tended(U, n) /\ n \in Nat /\ doc \in SUBSET U /\ AssignTypes /\ Histories
  BY <1>1, CopyIsPart DEF AssignInv, Histories, AssignTypes
<1>3. PICK r : r = Winner(doc)
  OBVIOUS
<1>4. /\ doc = {} => r = NoRev
      /\ doc # {} => r \in U /\ r # NoRev /\ Present(doc) # {}
  BY <1>2, <1>3, WhatWins
<1>5. r # NoRev => r.anc \subseteq Int /\ r.id \in Int
  BY <1>2, <1>4 DEF Tended, Tree, Numbered
<1>6. PICK k \in Int : k = n + 1
  BY <1>2
<1>7. PICK no, del : no = FALSE /\ del = "deleted"
  OBVIOUS
<1>8. PICK c : c = Child(r, k, state, del, no, 0)
  OBVIOUS
<1>9. copies' = [copies EXCEPT ![s][a] = @ \cup {c}] /\ born' = born + 1
  BY <1>1, <1>3, <1>6, <1>7, <1>8 DEF WriteDeleted, Copy
<1>10. c \in Rev(States)
  <2>1. no \in BOOLEAN /\ (del = "live" \/ del = "deleted")
    BY <1>7
  <2>2. QED
    BY <1>5, <1>8, <2>1, ChildIsRev
<1>11. c.id = 2 * (born + 1) /\ c.text = state /\ c.state = "deleted"
       /\ c.anc = IF r = NoRev THEN {} ELSE Past(r)
  <2>1. PICK anc, i : anc = (IF r = NoRev THEN {} ELSE Past(r)) /\ i = 2 * (n + 1)
    OBVIOUS
  <2>2. c = [id |-> i, anc |-> anc, text |-> state, state |-> del, mine |-> no, at |-> 0]
    BY <1>6, <1>8, <2>1 DEF Child, Past
  <2>3. c.id = i /\ c.anc = anc /\ c.text = state /\ c.state = del
    BY <2>2
  <2>4. QED
    BY <1>1, <1>7, <2>1, <2>3
<1>12. Present(doc) # {} => r \in doc
  <2>1. Present(doc) # {} => r \in Present(doc)
    BY <1>2, <1>3, WinnerShows DEF Tended
  <2>2. QED
    BY <2>1 DEF Present, Leaves
<1>13. c.anc = {} \/ (r \in Copy(s, a) /\ c.anc = Past(r) /\ Passes(r, c))
  BY <1>1, <1>4, <1>11, <1>12 DEF Passes
<1>14. /\ Places(copies)' /\ Histories' /\ born' \in Nat
       /\ \A t \in Sites, d \in Assignments :
            Copy(t, d)' = IF t = s /\ d = a THEN Copy(s, a) \cup {c} ELSE Copy(t, d)
       /\ \A q \in Copy(s, a) \cup {c} : c.id \notin q.anc
  <2>1. c.text \in States /\ c.state # "removed" /\ c.id = 2 * (born + 1)
    BY <1>11
  <2>2. Places(copies)' /\ Histories' /\ born' \in Nat
    BY <1>2, <1>9, <1>10, <1>13, <2>1, PutKeepsHistories
  <2>3. Adds(s, a, c)
    BY <1>2, <1>9, <1>10, <1>13, <2>1, PutKeepsHistories
  <2>4. \A q \in Copy(s, a) \cup {c} : c.id \notin q.anc
    BY <1>2, <1>9, <1>10, <1>13, <2>1, PutKeepsHistories
  <2>5. QED
    BY <2>2, <2>3, <2>4 DEF Adds
<1>15. Copy(s, a)' = Copy(s, a) \cup {c}
  BY <1>14
<1>16. ASSUME doc # {} PROVE ~IsLive(Copy(s, a))'
  <2>1. Tree(U) /\ Dated(U, n) /\ Present(doc) # {}
    BY <1>2, <1>4, <1>16 DEF Tended
  <2>2. c.anc = Past(Winner(doc)) /\ c.state # "removed" /\ \A q \in doc \cup {c} : c.id \notin q.anc
    BY <1>1, <1>3, <1>4, <1>11, <1>14, <1>16
  <2>3. Winner(doc \cup {c}) = c
    BY <1>2, <2>1, <2>2, PutWins
  <2>4. PICK new : new = Copy(s, a)'
    OBVIOUS
  <2>5. ~IsLive(new)
    BY <1>1, <1>11, <1>15, <2>3, <2>4 DEF IsLive
  <2>6. QED
    BY <2>4, <2>5 DEF IsLive
<1>17. QED
  BY <1>1, <1>14, <1>15, <1>16

LEMMA RetractStep == ASSUME AssignInv, NEW m, RetractAssignment(m) \/ SendFails(m) PROVE AssignInv'
<1>1. /\ m \in sending /\ sending' = sending \ {m} /\ UNCHANGED <<defs, sweep, swept, acts>>
  BY DEF RetractAssignment, SendFails
<1>2. swept' = FALSE /\ m.uid \in Assignments
  BY <1>1, SendingIsUnswept
<1>3. acts' \in 0..MaxActs /\ defs' \in [Assignments -> Def \cup {Absent}]
  BY <1>1 DEF AssignInv, AssignTypes
<1>4. \A o \in sending' : ASend(o)
  BY <1>1, SameSending
<1>5. "server" \in Sites
  BY DEF Sites
<1>6. \/ UNCHANGED <<copies, born>>
      \/ Places(copies)' /\ Histories' /\ born' \in Nat
  <2>1. PICK a, doc : a = m.uid /\ doc = Copy("server", m.uid)
    OBVIOUS
  <2>2. CASE RetractAssignment(m) /\ IsLive(doc)
    <3>1. PICK t : t = Winner(doc).text
      OBVIOUS
    <3>2. WriteDeleted("server", a, t)
      BY <2>1, <2>2, <3>1 DEF RetractAssignment
    <3>3. t \in States
      BY <1>2, <1>5, <2>1, <2>2, <3>1, LiveText
    <3>4. QED
      BY <1>2, <1>5, <2>1, <3>2, <3>3, DeletedWritten
  <2>3. CASE ~(RetractAssignment(m) /\ IsLive(doc))
    BY <2>1, <2>3 DEF RetractAssignment, SendFails
  <2>4. QED
    BY <2>2, <2>3
<1>7. QED
  BY <1>1, <1>2, <1>3, <1>4, <1>6, UnsweptStep

----------------------------------------------------------------------------
(* The cleanup.                                                             *)

LEMMA SameDocs ==
    ASSUME UNCHANGED <<defs, copies, born>>
    PROVE  /\ \A s, a : Copy(s, a)' = Copy(s, a)
           /\ \A a : Revisions(a)' = Revisions(a) /\ (Alike(a)' <=> Alike(a)) /\ (Settled(a)' <=> Settled(a))
           /\ \A a : IsLive(Copy("server", a))' <=> IsLive(Copy("server", a))
           /\ \A a : Defined(a)' <=> Defined(a)
           /\ Histories => Histories'
<1>1. \A s, a : Copy(s, a)' = Copy(s, a)
  BY DEF Copy
<1>2. \A a : Revisions(a)' = Revisions(a)
  BY <1>1 DEF Revisions
<1>3. \A a : IsLive(Copy("server", a))' <=> IsLive(Copy("server", a))
  BY DEF Copy, IsLive
<1>4. \A a : (Alike(a)' <=> Alike(a)) /\ (Settled(a)' <=> Settled(a))
  BY <1>1, <1>3 DEF Alike, Settled
<1>5. Histories => Histories'
  BY <1>2 DEF Histories
<1>6. \A a : Defined(a)' <=> Defined(a)
  BY DEF Defined
<1>7. QED
  BY <1>1, <1>2, <1>3, <1>4, <1>5, <1>6

\* Whether the copies agree, for one assignment.
LEMMA AgreeingCopies == ASSUME Agree PROVE \A a : Alike(a)
  BY DEF Agree, Alike, Copy

LEMMA StartStep == ASSUME AssignInv, StartSweep PROVE AssignInv'
<1>1. /\ sweep = Absent /\ sweep' = [pc |-> "list", defined |-> {a \in Assignments : Defined(a)}, left |-> {}]
      /\ swept' = Resting /\ UNCHANGED <<defs, copies, sending, born>>
  BY DEF StartSweep
<1>2. acts' \in 0..MaxActs
  BY Counted DEF StartSweep
<1>3. AssignTypes'
  <2>1. swept' \in BOOLEAN
    BY <1>1 DEF Resting, Agree
  <2>2. Places(copies)'
    BY <1>1 DEF AssignInv, AssignTypes, Places
  <2>3. QED
    BY <1>1, <1>2, <2>1, <2>2 DEF AssignInv, AssignTypes
<1>4. PICK list, defined, none : /\ list = "list" /\ defined = {a \in Assignments : Defined(a)} /\ none = {}
  OBVIOUS
<1>5. PICK w : w = [pc |-> list, defined |-> defined, left |-> none]
  OBVIOUS
<1>6. w.pc = list /\ w.defined = defined /\ w.left = none
  BY <1>5
<1>7. w = [pc |-> w.pc, defined |-> w.defined, left |-> w.left]
  BY <1>5, <1>6
<1>8. sweep' = w
  BY <1>1, <1>4, <1>5
<1>9. SweepTypes'
  BY <1>4, <1>6, <1>7, <1>8 DEF SweepTypes
<1>10. SweepIsExact'
  <2>1. SUFFICES ASSUME swept'
                 PROVE  /\ sending' = {}
                        /\ w.defined = {a \in Assignments : Defined(a)'}
                        /\ w.pc = "list" /\ (w # Absent => \A a \in Assignments : Alike(a)')
                        /\ w = Absent => \A a \in Assignments : ~Defined(a)' => Settled(a)'
    BY <1>8 DEF SweepIsExact
  <2>2. Resting
    BY <1>1, <2>1
  <2>3. sending' = {} /\ w.defined = {a \in Assignments : Defined(a)'} /\ w.pc = "list"
    BY <1>1, <1>4, <1>6, <2>2 DEF Resting, Defined
  <2>4. \A a \in Assignments : Alike(a)'
    BY <1>1, <2>2, AgreeingCopies, SameDocs DEF Resting
  <2>5. w \in Sweep
    BY <1>4, <1>6, <1>7 DEF Sweep
  <2>6. QED
    BY <2>3, <2>4, <2>5, AssignmentsAssumption
<1>11. Histories'
  BY <1>1, SameDocs DEF AssignInv
<1>12. QED
  BY <1>3, <1>9, <1>10, <1>11 DEF AssignInv

\* A cleanup goes on to its next document.
Onwards(w, left) == [w EXCEPT !.pc = "put", !.left = left]

LEMMA OnwardsParts ==
    ASSUME NEW w, w = [pc |-> w.pc, defined |-> w.defined, left |-> w.left], w.defined \subseteq Assignments,
           NEW left, left \subseteq Assignments \X States
    PROVE  LET v == Onwards(w, left) IN
           /\ v = [pc |-> v.pc, defined |-> v.defined, left |-> v.left]
           /\ v.pc = "put" /\ v.defined = w.defined /\ v.left = left /\ v # Absent
<1>1. PICK a, b, c : w = [pc |-> a, defined |-> b, left |-> c]
  OBVIOUS
<1>2. w.defined = b
  BY <1>1
<1>3. PICK put : put = "put"
  OBVIOUS
<1>4. PICK v : v = [w EXCEPT !.pc = put, !.left = left]
  OBVIOUS
<1>5. v = [pc |-> put, defined |-> b, left |-> left]
  BY <1>1, <1>4
<1>6. v.pc = put /\ v.defined = b /\ v.left = left
  BY <1>5
<1>7. v = [pc |-> v.pc, defined |-> v.defined, left |-> v.left]
  BY <1>5, <1>6
<1>8. v \in Sweep
  BY <1>2, <1>3, <1>5 DEF Sweep
<1>9. v = Onwards(w, left)
  BY <1>3, <1>4 DEF Onwards
<1>10. QED
  BY <1>2, <1>3, <1>6, <1>7, <1>8, <1>9, AssignmentsAssumption

LEMMA SameRest ==
    ASSUME AssignInv, UNCHANGED <<defs, copies, sending, born, acts>>, swept' \in BOOLEAN
    PROVE  AssignTypes' /\ Histories'
<1>1. Histories'
  BY SameDocs DEF AssignInv
<1>2. AssignTypes'
  BY DEF AssignInv, AssignTypes, Places, ASend
<1>3. QED
  BY <1>1, <1>2

LEMMA ListStep == ASSUME AssignInv, ListOrphanStates PROVE AssignInv'
<1>1. PICK orphans, left : /\ orphans = {b \in Assignments \ sweep.defined : IsLive(Copy("teacher", b))}
                           /\ left = {<<a, Winner(Copy("teacher", a)).text>> : a \in {b \in Assignments \ sweep.defined : IsLive(Copy("teacher", b))}}
  OBVIOUS
<1>2. /\ sweep # Absent /\ sweep.pc = "list" /\ UNCHANGED <<defs, copies, sending, swept, born, acts>>
      /\ sweep' = Onwards(sweep, left)
  BY <1>1 DEF ListOrphanStates, Onwards
<1>3. "teacher" \in Sites
  BY DEF Sites
<1>4. left \subseteq Assignments \X States
  <2>1. ASSUME NEW o \in left PROVE o \in Assignments \X States
    <3>1. PICK a \in orphans : o = <<a, Winner(Copy("teacher", a)).text>>
      BY <1>1
    <3>2. a \in Assignments /\ IsLive(Copy("teacher", a))
      BY <1>1
    <3>3. QED
      BY <1>3, <3>1, <3>2, LiveText
  <2>2. QED
    BY <2>1
<1>5. /\ sweep = [pc |-> sweep.pc, defined |-> sweep.defined, left |-> sweep.left]
      /\ sweep.defined \subseteq Assignments
  BY <1>2 DEF AssignInv, SweepTypes
<1>6. PICK v : v = Onwards(sweep, left)
  OBVIOUS
<1>7. /\ v = [pc |-> v.pc, defined |-> v.defined, left |-> v.left]
      /\ v.pc = "put" /\ v.defined = sweep.defined /\ v.left = left /\ v # Absent
  BY <1>4, <1>5, <1>6, OnwardsParts
<1>8. AssignTypes' /\ Histories'
  <2>1. swept' \in BOOLEAN
    BY <1>2 DEF AssignInv, AssignTypes
  <2>2. QED
    BY <1>2, <2>1, SameRest
<1>9. SweepTypes'
  <2>1. \A o, p \in left : o[1] = p[1] => o = p
    BY <1>1
  <2>2. sweep' = v
    BY <1>2, <1>6
  <2>3. QED
    BY <1>4, <1>5, <1>7, <2>1, <2>2 DEF SweepTypes
<1>10. SweepIsExact'
  <2>1. sweep' = v
    BY <1>2, <1>6
  <2>2. SUFFICES ASSUME swept
                 PROVE  /\ sending' = {} /\ v.defined = {a \in Assignments : Defined(a)'}
                        /\ \A a \in Assignments : ~Defined(a)' =>
                             IF \E o \in left : o[1] = a THEN Alike(a)' /\ IsLive(Copy("server", a))'
                             ELSE Settled(a)'
    BY <1>2, <1>7, <2>1 DEF SweepIsExact, Listed
  <2>3. /\ sending = {} /\ sweep.defined = {a \in Assignments : Defined(a)}
        /\ \A a \in Assignments : ~Defined(a) => Alike(a)
    BY <1>2, <2>2 DEF AssignInv, SweepIsExact
  <2>4. sending' = {} /\ v.defined = {a \in Assignments : Defined(a)'}
    BY <1>2, <1>7, <2>3 DEF Defined
  <2>5. ASSUME NEW a \in Assignments, ~Defined(a)
        PROVE  IF \E o \in left : o[1] = a THEN Alike(a) /\ IsLive(Copy("server", a)) ELSE Settled(a)
    <3>1. Alike(a) /\ a \notin sweep.defined
      BY <2>3, <2>5
    <3>2. Copy("teacher", a) = Copy("server", a)
      BY <1>3, <3>1 DEF Alike
    <3>3. CASE IsLive(Copy("teacher", a))
      <4>1. a \in orphans
        BY <1>1, <3>1, <3>3
      <4>2. <<a, Winner(Copy("teacher", a)).text>> \in left
        BY <1>1, <4>1
      <4>3. QED
        BY <3>1, <3>2, <3>3, <4>2
    <3>4. CASE ~IsLive(Copy("teacher", a))
      <4>1. ASSUME NEW o \in left, o[1] = a PROVE FALSE
        BY <1>1, <3>4, <4>1
      <4>2. Settled(a)
        BY <3>1, <3>2, <3>4 DEF Settled, Alike
      <4>3. QED
        BY <4>1, <4>2
    <3>5. QED
      BY <3>3, <3>4
  <2>6. /\ \A a : (Alike(a)' <=> Alike(a)) /\ (Settled(a)' <=> Settled(a))
        /\ \A a : IsLive(Copy("server", a))' <=> IsLive(Copy("server", a))
        /\ \A a : Defined(a)' <=> Defined(a)
    BY <1>2, SameDocs
  <2>7. QED
    BY <2>4, <2>5, <2>6
<1>11. QED
  BY <1>8, <1>9, <1>10 DEF AssignInv

LEMMA PutStep == ASSUME AssignInv, PutOrphanState PROVE AssignInv'
<1>1. PICK o \in sweep.left :
         /\ sweep' = [sweep EXCEPT !.left = @ \ {o}]
         /\ \/ WriteDeleted("server", o[1], [o[2] EXCEPT !.by = "sweep"]) /\ UNCHANGED swept
            \/ UNCHANGED <<copies, born>> /\ swept' = FALSE
  BY DEF PutOrphanState
<1>2. sweep # Absent /\ sweep.pc = "put" /\ UNCHANGED <<defs, sending, acts>>
  BY DEF PutOrphanState
<1>3. PICK left : left = sweep.left \ {o}
  OBVIOUS
<1>4. /\ sweep = [pc |-> sweep.pc, defined |-> sweep.defined, left |-> sweep.left]
      /\ sweep.defined \subseteq Assignments /\ sweep.left \subseteq Assignments \X States
      /\ left \subseteq Assignments \X States
      /\ \A p, q \in sweep.left : p[1] = q[1] => p = q
  BY <1>2, <1>3 DEF AssignInv, SweepTypes
<1>5. PICK v : v = Onwards(sweep, left)
  OBVIOUS
<1>6. /\ v = [pc |-> v.pc, defined |-> v.defined, left |-> v.left]
      /\ v.pc = "put" /\ v.defined = sweep.defined /\ v.left = left /\ v # Absent
  BY <1>4, <1>5, OnwardsParts
<1>7. sweep' = v
  <2>1. PICK a, b, c : sweep = [pc |-> a, defined |-> b, left |-> c]
    BY <1>4
  <2>2. sweep.pc = a /\ sweep.left = c
    BY <2>1
  <2>3. PICK put : put = "put"
    OBVIOUS
  <2>4. sweep' = [sweep EXCEPT !.left = left]
    BY <1>1, <1>3
  <2>5. sweep' = [pc |-> put, defined |-> b, left |-> left]
    BY <1>2, <2>1, <2>2, <2>3, <2>4
  <2>6. v = [sweep EXCEPT !.pc = put, !.left = left]
    BY <1>5, <2>3 DEF Onwards
  <2>7. v = [pc |-> put, defined |-> b, left |-> left]
    BY <2>1, <2>6
  <2>8. QED
    BY <2>5, <2>7
<1>8. SweepTypes'
  <2>1. \A p, q \in left : p[1] = q[1] => p = q
    BY <1>3, <1>4
  <2>2. QED
    BY <1>4, <1>6, <1>7, <2>1 DEF SweepTypes
<1>9. PICK a, t : o = <<a, t>> /\ a \in Assignments /\ t \in States
  BY <1>4
<1>10. "server" \in Sites
  BY DEF Sites
<1>11. CASE UNCHANGED <<copies, born>> /\ swept' = FALSE
  <2>1. AssignTypes' /\ Histories'
    BY <1>2, <1>11, SameRest
  <2>2. SweepIsExact'
    BY <1>11 DEF SweepIsExact
  <2>3. QED
    BY <1>8, <2>1, <2>2 DEF AssignInv
<1>12. CASE WriteDeleted("server", o[1], [o[2] EXCEPT !.by = "sweep"]) /\ UNCHANGED swept
  <2>1. PICK state : state = SignedBy(t, "sweep")
    OBVIOUS
  <2>2. WriteDeleted("server", a, state)
    BY <1>9, <1>12, <2>1 DEF SignedBy
  <2>3. state \in States
    <3>1. PICK by : by = "sweep"
      OBVIOUS
    <3>2. state = State(t.progress, t.grade, t.archived, by)
      BY <1>9, <2>1, <3>1, Changes
    <3>3. QED
      BY <1>9, <3>1, <3>2, StateParts, StateOf
  <2>4. /\ Places(copies)' /\ Histories' /\ born' \in Nat
        /\ \A s \in Sites, d \in Assignments : s # "server" \/ d # a => Copy(s, d)' = Copy(s, d)
        /\ Copy("server", a) \subseteq Copy("server", a)'
        /\ Copy("server", a) # {} => ~IsLive(Copy("server", a))'
    BY <1>9, <1>10, <2>2, <2>3, DeletedWritten
  <2>5. AssignTypes'
    BY <1>2, <1>12, <2>4 DEF AssignInv, AssignTypes, ASend
  <2>6. SweepIsExact'
    <3>1. SUFFICES ASSUME swept
                   PROVE  /\ sending' = {} /\ v.defined = {d \in Assignments : Defined(d)'}
                          /\ \A d \in Assignments : ~Defined(d)' =>
                               IF \E p \in left : p[1] = d THEN Alike(d)' /\ IsLive(Copy("server", d))'
                               ELSE Settled(d)'
      BY <1>6, <1>7, <1>12 DEF SweepIsExact, Listed
    <3>2. /\ sending = {} /\ sweep.defined = {d \in Assignments : Defined(d)}
          /\ \A d \in Assignments : ~Defined(d) =>
               IF \E p \in sweep.left : p[1] = d THEN Alike(d) /\ IsLive(Copy("server", d)) ELSE Settled(d)
      BY <1>2, <3>1 DEF AssignInv, SweepIsExact, Listed
    <3>3. sending' = {} /\ v.defined = {d \in Assignments : Defined(d)'}
      BY <1>2, <1>6, <3>2 DEF Defined
    <3>4. \A d \in Assignments : Defined(d)' <=> Defined(d)
      BY <1>2 DEF Defined
    <3>5. ASSUME NEW d \in Assignments, d # a, ~Defined(d)
          PROVE  IF \E p \in left : p[1] = d THEN Alike(d)' /\ IsLive(Copy("server", d))' ELSE Settled(d)'
      <4>1. (\E p \in left : p[1] = d) <=> \E p \in sweep.left : p[1] = d
        BY <1>3, <1>9, <3>5
      <4>2. \A s \in Sites : Copy(s, d)' = Copy(s, d)
        BY <2>4, <3>5
      <4>3. IsLive(Copy("server", d))' <=> IsLive(Copy("server", d))
        BY <1>10, <4>2 DEF IsLive
      <4>4. (Alike(d)' <=> Alike(d)) /\ (Settled(d)' <=> Settled(d))
        BY <1>10, <4>2, <4>3 DEF Alike, Settled
      <4>5. QED
        BY <3>2, <3>5, <4>1, <4>3, <4>4
    <3>6. ASSUME ~Defined(a)
          PROVE  IF \E p \in left : p[1] = a THEN Alike(a)' /\ IsLive(Copy("server", a))' ELSE Settled(a)'
      <4>1. o \in sweep.left /\ o[1] = a
        BY <1>1, <1>9
      <4>2. Alike(a) /\ IsLive(Copy("server", a))
        BY <1>9, <3>2, <3>6, <4>1
      <4>3. ~\E p \in left : p[1] = a
        BY <1>3, <1>4, <4>1
      <4>4. Copy("server", a) # {}
        <5>1. Tended(Revisions(a), born) /\ born \in Nat
          BY <1>9 DEF AssignInv, AssignTypes, Histories
        <5>2. QED
          BY <1>10, <4>2, <5>1, CopyIsPart, WhatWins
      <4>5. ASSUME NEW s \in Sites PROVE Copy(s, a)' \subseteq Copy("server", a)'
        <5>1. Copy(s, a) = Copy("server", a)
          BY <4>2 DEF Alike
        <5>2. CASE s = "server"
          BY <5>2
        <5>3. CASE s # "server"
          BY <1>9, <2>4, <5>1, <5>3
        <5>4. QED
          BY <5>2, <5>3
      <4>6. ~IsLive(Copy("server", a))'
        BY <2>4, <4>4
      <4>7. QED
        BY <4>3, <4>5, <4>6 DEF Settled
    <3>7. QED
      BY <3>3, <3>4, <3>5, <3>6
  <2>7. QED
    BY <1>8, <2>4, <2>5, <2>6 DEF AssignInv
<1>13. QED
  BY <1>1, <1>11, <1>12

LEMMA EndStep == ASSUME AssignInv, EndSweep PROVE AssignInv'
<1>1. /\ sweep # Absent /\ sweep.pc = "put" /\ sweep.left = {} /\ sweep' = Absent
      /\ UNCHANGED <<defs, copies, sending, swept, born, acts>>
  BY DEF EndSweep
<1>2. AssignTypes' /\ Histories'
  <2>1. swept' \in BOOLEAN
    BY <1>1 DEF AssignInv, AssignTypes
  <2>2. QED
    BY <1>1, <2>1, SameRest
<1>3. SweepTypes'
  BY <1>1 DEF SweepTypes
<1>4. SweepIsExact'
  <2>1. SUFFICES ASSUME swept
                 PROVE  sending' = {} /\ \A a \in Assignments : ~Defined(a)' => Settled(a)'
    BY <1>1 DEF SweepIsExact
  <2>2. sending = {} /\ \A a \in Assignments : ~Defined(a) => Settled(a)
    BY <1>1, <2>1 DEF AssignInv, SweepIsExact, Listed
  <2>3. QED
    BY <1>1, <2>2, SameDocs
<1>5. QED
  BY <1>2, <1>3, <1>4 DEF AssignInv

----------------------------------------------------------------------------

LEMMA ReplicateStep ==
    ASSUME AssignInv, NEW from \in Sites, NEW to \in Sites, NEW a \in Assignments, ReplicateState(from, to, a)
    PROVE  AssignInv'
<1>1. /\ "server" \in {from, to} /\ ~(Copy(from, a) \subseteq Copy(to, a))
      /\ UNCHANGED <<defs, sending, sweep, swept, born, acts>> /\ AssignTypes /\ SweepTypes /\ Histories
  BY DEF ReplicateState, AssignInv
<1>2. PICK doc, g : doc = Copy(to, a) \cup Copy(from, a) /\ g = copies
  OBVIOUS
<1>3. copies' = Placed(g, to, a, doc)
  BY <1>2 DEF ReplicateState, Copy, Placed
<1>4. /\ Places(Placed(g, to, a, doc))
      /\ \A t \in Sites, d \in Assignments :
           Placed(g, to, a, doc)[t][d] = IF t = to /\ d = a THEN doc ELSE g[t][d]
  <2>1. Places(g)
    BY <1>1, <1>2 DEF AssignTypes
  <2>2. QED
    BY <2>1, OneCopyChanges
<1>5. ASSUME NEW t \in Sites, NEW d \in Assignments
      PROVE  Copy(t, d)' = IF t = to /\ d = a THEN doc ELSE Copy(t, d)
  BY <1>2, <1>3, <1>4 DEF Copy
<1>6. AssignTypes'
  <2>1. PICK f : f = copies'
    OBVIOUS
  <2>2. Places(f)
    BY <1>3, <1>4, <2>1
  <2>3. Places(copies)'
    BY <2>1, <2>2 DEF Places
  <2>4. QED
    BY <1>1, <2>3 DEF AssignTypes, ASend
<1>7. Histories'
  <2>1. ASSUME NEW d \in Assignments PROVE Revisions(d)' = Revisions(d)
    <3>1. CASE d = a
      <4>1. \A t \in Sites : Copy(t, a)' = IF t = to THEN Copy(to, a) \cup Copy(from, a) ELSE Copy(t, a)
        BY <1>2, <1>5
      <4>2. QED
        BY <3>1, <4>1 DEF Revisions
    <3>2. CASE d # a
      <4>1. \A t \in Sites : Copy(t, d)' = Copy(t, d)
        BY <1>5, <3>2
      <4>2. QED
        BY <4>1 DEF Revisions
    <3>3. QED
      BY <3>1, <3>2
  <2>2. QED
    BY <1>1, <2>1 DEF Histories
<1>8. SweepTypes'
  BY <1>1 DEF SweepTypes
<1>9. SweepIsExact'
  <2> SUFFICES ASSUME swept PROVE SweepIsExact'
    BY <1>1 DEF SweepIsExact
  <2>1. /\ sending = {} /\ (sweep # Absent => sweep.defined = {d \in Assignments : Defined(d)})
        /\ \A d \in Assignments : ~Defined(d) =>
             IF sweep # Absent /\ sweep.pc = "list" THEN Alike(d)
             ELSE IF sweep # Absent /\ Listed(d) THEN Alike(d) /\ IsLive(Copy("server", d))
             ELSE Settled(d)
    BY DEF AssignInv, SweepIsExact
  <2>2. "server" \in Sites
    BY DEF Sites
  <2>3. ~Alike(a)
    BY <1>1, <2>2 DEF Alike
  <2>4. ASSUME Settled(a) PROVE Settled(a)'
    <3>1. to # "server" /\ from = "server"
      BY <1>1, <2>4 DEF Settled
    <3>2. Copy("server", a)' = Copy("server", a)
      BY <1>5, <2>2, <3>1
    <3>3. ASSUME NEW s \in Sites PROVE Copy(s, a)' \subseteq Copy("server", a)'
      BY <1>2, <1>5, <2>4, <3>1, <3>2 DEF Settled
    <3>4. ~IsLive(Copy("server", a))'
      BY <2>4, <3>2 DEF Settled, IsLive
    <3>5. QED
      BY <3>3, <3>4 DEF Settled
  <2>5. ASSUME NEW d \in Assignments, d # a
        PROVE  /\ (Alike(d)' <=> Alike(d)) /\ (Settled(d)' <=> Settled(d))
               /\ (IsLive(Copy("server", d))' <=> IsLive(Copy("server", d)))
    <3>1. \A s \in Sites : Copy(s, d)' = Copy(s, d)
      BY <1>5, <2>5
    <3>2. IsLive(Copy("server", d))' <=> IsLive(Copy("server", d))
      BY <2>2, <3>1 DEF IsLive
    <3>3. QED
      BY <2>2, <3>1, <3>2 DEF Alike, Settled
  <2>6. \A d : (Defined(d)' <=> Defined(d)) /\ (Listed(d)' <=> Listed(d))
    BY <1>1 DEF Defined, Listed
  <2>7. ASSUME NEW d \in Assignments, ~Defined(d)
        PROVE  IF sweep # Absent /\ sweep.pc = "list" THEN Alike(d)'
               ELSE IF sweep # Absent /\ Listed(d) THEN Alike(d)' /\ IsLive(Copy("server", d))'
               ELSE Settled(d)'
    <3>1. CASE d = a
      BY <2>1, <2>3, <2>4, <2>7, <3>1
    <3>2. CASE d # a
      BY <2>1, <2>5, <2>7, <3>2
    <3>3. QED
      BY <3>1, <3>2
  <2>8. sending' = {} /\ (sweep' # Absent => sweep'.defined = {d \in Assignments : Defined(d)'})
    BY <1>1, <2>1 DEF Defined
  <2>9. QED
    BY <1>1, <2>6, <2>7, <2>8 DEF SweepIsExact
<1>10. QED
  BY <1>6, <1>7, <1>8, <1>9 DEF AssignInv

----------------------------------------------------------------------------

LEMMA AssignInvInit == AssignmentsInit => AssignInv
<1> SUFFICES ASSUME AssignmentsInit PROVE AssignInv
  OBVIOUS
<1>1. /\ defs = [a \in Assignments |-> Absent] /\ copies = [s \in Sites |-> [a \in Assignments |-> {}]]
      /\ sending = {} /\ sweep = Absent /\ swept = FALSE /\ born = 0 /\ acts = 0
  BY DEF AssignmentsInit
<1>2. \A a \in Assignments : Revisions(a) = {}
  BY <1>1 DEF Revisions, Copy
<1>3. Tended({}, 0)
  BY DEF Tended, Tree, Identified, Descending, Acyclic, Rooted, Numbered, Removing, Dated
<1>4. Histories
  BY <1>1, <1>2, <1>3 DEF Histories
<1>5. AssignTypes
  <2>1. Places(copies)
    BY <1>1 DEF Places
  <2>2. 0 \in 0..MaxActs
    BY AssignmentsAssumption
  <2>3. QED
    BY <1>1, <2>1, <2>2 DEF AssignTypes
<1>6. SweepTypes /\ SweepIsExact
  BY <1>1 DEF SweepTypes, SweepIsExact
<1>7. QED
  BY <1>4, <1>5, <1>6 DEF AssignInv

LEMMA AssignInvStep == AssignInv /\ [AssignmentsNext]_assignmentVars => AssignInv'
<1> SUFFICES ASSUME AssignInv, [AssignmentsNext]_assignmentVars PROVE AssignInv'
  OBVIOUS
<1>1. CASE UNCHANGED assignmentVars
  <2>1. UNCHANGED <<defs, copies, sending, sweep, swept, born, acts>>
    BY <1>1 DEF assignmentVars
  <2>2. AssignTypes' /\ Histories'
    <3>1. swept' \in BOOLEAN
      BY <2>1 DEF AssignInv, AssignTypes
    <3>2. QED
      BY <2>1, <3>1, SameRest
  <2>3. SweepTypes'
    BY <2>1 DEF AssignInv, SweepTypes
  <2>4. SweepIsExact'
    <3>1. \A d : Listed(d)' <=> Listed(d)
      BY <2>1 DEF Listed
    <3>2. {d \in Assignments : Defined(d)'} = {d \in Assignments : Defined(d)}
      BY <2>1 DEF Defined
    <3>3. QED
      BY <2>1, <3>1, <3>2, SameDocs DEF AssignInv, SweepIsExact
  <2>5. QED
    BY <2>2, <2>3, <2>4 DEF AssignInv
<1>2. CASE TeacherStep
  BY <1>2, CreateStep, UpdateStep, ByAUserStep, ArchiveStep, StartStep DEF TeacherStep
<1>3. CASE StudentStep
  BY <1>3, ByAUserStep DEF StudentStep
<1>4. CASE ServerStep
  BY <1>4, DistributeStep, RetractStep, ListStep, PutStep, EndStep, ReplicateStep DEF ServerStep
<1>5. QED
  BY <1>1, <1>2, <1>3, <1>4 DEF AssignmentsNext

LEMMA AssignInvRecords == AssignInv => RecordsStand
<1> SUFFICES ASSUME AssignInv PROVE RecordsStand
  OBVIOUS
<1>1. AssignTypes /\ SweepTypes /\ Histories /\ SweepIsExact
  BY DEF AssignInv
<1>2. AssignmentsTypeOK
  <2>1. ASSUME NEW s \in Sites, NEW a \in Assignments PROVE copies[s][a] \subseteq Rev(States)
    BY <1>1, CopyIsPart DEF Histories, Tended, Copy
  <2>2. QED
    BY <1>1, <2>1 DEF AssignmentsTypeOK, AssignTypes, SweepTypes, ASend
<1>3. ProgressStands
  <2>1. ASSUME NEW a \in Assignments, NEW r \in Revisions(a), NEW q \in Parent(Revisions(a), r),
               q.state = "live", r.state = "live"
        PROVE  /\ q.text.progress = "submitted" => r.text.progress # "assigned" \/ r.text.by = "unsubmit"
               /\ q.text.progress = "returned" =>
                    r.text.progress = "returned" /\ r.text.grade >= q.text.grade
    <3>1. q \in Revisions(a) /\ r.anc = Past(q)
      BY DEF Parent, Past
    <3>2. Passes(q, r)
      BY <1>1, <3>1 DEF Histories, Tended
    <3>3. QED
      BY <2>1, <3>2 DEF Passes, Continues
  <2>2. QED
    BY <2>1 DEF ProgressStands
<1>4. SweepSettles
  <2>1. ASSUME swept, Resting, NEW a \in Assignments, IsLive(Copy("student", a)) PROVE Defined(a)
    <3>1. sweep = Absent /\ Copy("student", a) = Copy("server", a)
      BY <2>1 DEF Resting, Agree, Copy, Sites
    <3>2. ~Defined(a) => ~IsLive(Copy("server", a))
      BY <1>1, <2>1, <3>1 DEF SweepIsExact, Settled
    <3>3. QED
      BY <2>1, <3>1, <3>2
  <2>2. QED
    BY <2>1 DEF SweepSettles
<1>5. QED
  BY <1>2, <1>3, <1>4 DEF RecordsStand

\* The records of an assignment stand, whatever teacher, student and server write at the same
\* time: work handed in and graded stays along every branch of its document, and a cleanup
\* nothing came between leaves no live state without a definition.
THEOREM TheRecordsStand == AssignmentsSpec => []RecordsStand
<1>1. AssignmentsInit => AssignInv
  BY AssignInvInit
<1>2. AssignInv /\ [AssignmentsNext]_assignmentVars => AssignInv'
  BY AssignInvStep
<1>3. AssignInv => RecordsStand
  BY AssignInvRecords
<1>4. QED
  BY <1>1, <1>2, <1>3, PTL DEF AssignmentsSpec

----------------------------------------------------------------------------
(* Lessons: the invariant.                                                   *)

DocFields == {"rev", "lessons", "subjects", "by"}
ATimetable(d) ==
    d = [f \in DocFields |-> d[f]] /\ d.rev \in Nat /\ d.lessons = [c \in Cells |-> d.lessons[c]]
TaskFields ==
    {"kind", "pc", "at", "path", "uid", "published", "slot", "rev", "victims", "seen"}
ATask(t) == t = [f \in TaskFields |-> t[f]]
AJob(j) == j = [f \in {"uid", "slot", "pc", "seen"} |-> j[f]]

\* What was read of a timetable is what is stored, unless it has been written since.
Reads(w, d) ==
    ATimetable(d) /\ d.rev <= timetable[w].rev /\ (d.rev = timetable[w].rev => d.lessons = timetable[w].lessons)
ReadAll(seen) == seen = [w \in Weeks |-> seen[w]] /\ \A w \in Weeks : Reads(w, seen[w])
Shown ==
    view = [week |-> view.week, doc |-> view.doc] /\ view.week \in Weeks /\ Reads(view.week, view.doc)
TaskReads(t) ==
    /\ ATask(t)
    /\ t.pc = "unlink" => ReadAll(t.seen)
    /\ t.pc = "link" \/ t.kind = "lesson" => Shown
JobReads(j) == AJob(j) /\ (j.pc \in {"unlink", "write"} => ReadAll(j.seen))

StoredWeeks == timetable = [w \in Weeks |-> timetable[w]] /\ \A w \in Weeks : ATimetable(timetable[w])
List(s) == \E S : s \in Seq(S)

ReadsAreStored ==
    /\ StoredWeeks
    /\ List(tasks) /\ \A i \in DOMAIN tasks : TaskReads(tasks[i])
    /\ List(queue) /\ \A i \in DOMAIN queue : JobReads(queue[i])
    /\ view = None \/ Shown

\* What PlacementsAccumulate says of a step.
Accumulates ==
    \A w \in Weeks, c \in Cells :
         LET u == timetable[w].lessons[c]
             by == timetable'[w].by
         IN (u # None /\ timetable'[w].lessons[c] # u) =>
              \/ by.kind = "place" /\ by.uid = u
              \/ by.kind \in {"place", "link"} /\ timetable'[w].lessons[c] = by.uid
              \/ by.kind = "cleanup" /\ u \in by.gone
              \/ by.kind = "first"

LEMMA ReadsAreStoredInit == LessonsInit => ReadsAreStored
<1> SUFFICES ASSUME LessonsInit PROVE ReadsAreStored
  OBVIOUS
<1>1. tasks = <<>> /\ queue = <<>> /\ view = None
  BY DEF LessonsInit
<1>2. ATimetable(DefaultDoc)
  BY DEF ATimetable, DocFields, DefaultDoc
<1>3. \A n, l, d : /\ n \in Nat /\ l = [c \in Cells |-> l[c]]
                  /\ d = [DefaultDoc EXCEPT !.rev = n, !.lessons = l] => ATimetable(d)
  BY <1>2 DEF ATimetable, DocFields
<1>4. StoredWeeks
  <2>1. timetable = [w \in Weeks |-> timetable[w]]
    BY DEF LessonsInit
  <2>2. ASSUME NEW w \in Weeks PROVE ATimetable(timetable[w])
    <3> DEFINE LessonAt(v, c) == {u \in UidsInUse : \E p \in Paths : UidAt(p) = u /\ file[p].slot = AtCell(v, c)}
               n == IF \E c \in Cells : LessonAt(w, c) # {} THEN 1 ELSE 0
               l == [c \in Cells |-> IF LessonAt(w, c) = {} THEN None ELSE CHOOSE u \in LessonAt(w, c) : TRUE]
    <3>1. timetable[w] = [DefaultDoc EXCEPT !.rev = n, !.lessons = l]
      BY DEF LessonsInit
    <3>2. n \in Nat /\ l = [c \in Cells |-> l[c]]
      OBVIOUS
    <3> HIDE DEF n, l
    <3>3. QED
      BY <1>3, <3>1, <3>2
  <2>3. QED
    BY <2>1, <2>2 DEF StoredWeeks
<1>5. List(tasks) /\ List(queue)
  BY <1>1 DEF List
<1>6. QED
  BY <1>1, <1>4, <1>5 DEF ReadsAreStored

----------------------------------------------------------------------------
(* Lists of tasks and of placements.                                        *)

\* A list of which each entry is in T or was in s.
From(r, s, T) == List(r) /\ \A i \in DOMAIN r : r[i] \in T \/ \E j \in DOMAIN s : r[i] = s[j]

LEMMA Wider ==
    ASSUME NEW s, List(s), NEW t
    PROVE  \E S : s \in Seq(S) /\ t \in S
<1>1. PICK S : s \in Seq(S)
  BY DEF List
<1>2. s \in Seq(S \cup {t})
  BY <1>1
<1>3. QED
  BY <1>2

LEMMA FromAppend == ASSUME NEW s, List(s), NEW t PROVE From(Append(s, t), s, {t})
<1>1. PICK S : s \in Seq(S) /\ t \in S
  BY Wider
<1>2. Append(s, t) \in Seq(S) /\ DOMAIN Append(s, t) = 1..Len(s)+1 /\ DOMAIN s = 1..Len(s) /\ Len(s) \in Nat
  BY <1>1
<1>3. \A i \in 1..Len(s)+1 : Append(s, t)[i] = t \/ (i \in 1..Len(s) /\ Append(s, t)[i] = s[i])
  BY <1>1, <1>2
<1>4. QED
  BY <1>2, <1>3 DEF From, List

LEMMA FromReplace ==
    ASSUME NEW s, List(s), NEW i \in DOMAIN s, NEW t
    PROVE  From([s EXCEPT ![i] = t], s, {t})
<1>1. PICK S : s \in Seq(S) /\ t \in S
  BY Wider
<1>2. [s EXCEPT ![i] = t] \in Seq(S) /\ DOMAIN [s EXCEPT ![i] = t] = DOMAIN s
  BY <1>1
<1>3. \A j \in DOMAIN s : [s EXCEPT ![i] = t][j] = t \/ [s EXCEPT ![i] = t][j] = s[j]
  BY <1>1
<1>4. QED
  BY <1>2, <1>3 DEF From, List

LEMMA FromRemove ==
    ASSUME NEW s, List(s), NEW i \in DOMAIN s
    PROVE  From(RemoveAt(s, i), s, {})
<1>1. PICK S : s \in Seq(S)
  BY DEF List
<1>2. PICK n \in Nat : n = Len(s) /\ DOMAIN s = 1..n /\ i \in 1..n
  BY <1>1
<1>3. PICK a : a = SubSeq(s, 1, i-1)
  OBVIOUS
<1>4. PICK b : b = SubSeq(s, i+1, Len(s))
  OBVIOUS
<1>5. a \in Seq(S) /\ Len(a) = i - 1 /\ \A k \in 1..(i-1) : a[k] = s[k]
  BY <1>1, <1>2, <1>3
<1>6. b \in Seq(S) /\ Len(b) = n - i /\ \A k \in 1..(n-i) : b[k] = s[i+k]
  BY <1>1, <1>2, <1>4
<1>7. a \o b \in Seq(S) /\ Len(a \o b) = n - 1
  BY SMTT(60), <1>2, <1>5, <1>6
<1>8. \A k \in 1..(n-1) : (a \o b)[k] = IF k <= i - 1 THEN s[k] ELSE s[k+1]
  BY SMTT(60), <1>2, <1>5, <1>6, <1>7
<1>9. RemoveAt(s, i) = a \o b
  BY <1>3, <1>4 DEF RemoveAt
<1>10. \A k \in DOMAIN (a \o b) : \E j \in DOMAIN s : (a \o b)[k] = s[j]
  <2>1. DOMAIN (a \o b) = 1..(n-1)
    BY <1>2, <1>7
  <2>2. \A k \in 1..(n-1) : k \in DOMAIN s /\ k+1 \in DOMAIN s
    BY <1>2
  <2>3. QED
    BY <1>8, <2>1, <2>2
<1>11. QED
  BY <1>7, <1>9, <1>10 DEF From, List

LEMMA FromTail ==
    ASSUME NEW s, List(s), s # <<>>
    PROVE  From(Tail(s), s, {}) /\ 1 \in DOMAIN s
<1>1. PICK S : s \in Seq(S)
  BY DEF List
<1>2. PICK n \in Nat : n = Len(s) /\ DOMAIN s = 1..n /\ n > 0
  BY <1>1
<1>3. Tail(s) \in Seq(S) /\ Len(Tail(s)) = n - 1 /\ \A k \in 1..(n-1) : Tail(s)[k] = s[k+1]
  BY <1>1, <1>2
<1>4. QED
  BY <1>2, <1>3 DEF From, List

----------------------------------------------------------------------------
(* Frames: what a step leaves of what was read.                             *)

\* Each timetable is left as it is or gets a new revision.
Advances ==
    /\ StoredWeeks'
    /\ \A w \in Weeks : timetable'[w] = timetable[w] \/ timetable[w].rev < timetable'[w].rev

LEMMA ReadsStay ==
    ASSUME StoredWeeks, Advances, NEW w \in Weeks, NEW d, Reads(w, d)
    PROVE  Reads(w, d)'
<1>1. ATimetable(d) /\ d.rev \in Nat /\ timetable[w].rev \in Nat /\ timetable'[w].rev \in Nat
  BY DEF StoredWeeks, Advances, ATimetable, Reads
<1>2. timetable'[w] = timetable[w] \/ timetable[w].rev < timetable'[w].rev
  BY DEF Advances
<1>3. QED
  BY <1>1, <1>2 DEF Reads

LEMMA ReadAllStays ==
    ASSUME StoredWeeks, Advances, NEW s, ReadAll(s)
    PROVE  ReadAll(s)'
  BY ReadsStay DEF ReadAll

LEMMA ShownStays ==
    ASSUME StoredWeeks, Advances, view' = view, Shown
    PROVE  Shown'
<1>1. Reads(view.week, view.doc)' 
  BY ReadsStay DEF Shown
<1>2. QED
  BY <1>1 DEF Shown

LEMMA TaskStays ==
    ASSUME StoredWeeks, Advances, Shown => Shown', NEW t, TaskReads(t)
    PROVE  TaskReads(t)'
  BY ReadAllStays DEF TaskReads

LEMMA JobStays ==
    ASSUME StoredWeeks, Advances, NEW j, JobReads(j)
    PROVE  JobReads(j)'
  BY ReadAllStays DEF JobReads

LEMMA StoredNow ==
    ASSUME StoredWeeks
    PROVE  /\ ReadAll(timetable)
           /\ \A w \in Weeks : Reads(w, timetable[w])
  BY DEF StoredWeeks, ReadAll, Reads, ATimetable

LEMMA NothingWritten ==
    ASSUME StoredWeeks, timetable' = timetable
    PROVE  Advances /\ Accumulates
<1>1. Advances
  BY DEF StoredWeeks, Advances
<1>2. Accumulates
  BY DEF Accumulates
<1>3. QED
  BY <1>1, <1>2

\* What is waiting is as it was, apart from the new tasks T and placements J.
LEMMA NextReads ==
    ASSUME ReadsAreStored, Advances, view' = view \/ Shown',
           NEW T, From(tasks', tasks, T), \A t \in T : TaskReads(t)',
           NEW J, From(queue', queue, J), \A j \in J : JobReads(j)'
    PROVE  ReadsAreStored'
<1>1. (Shown => Shown') /\ (view' = None \/ Shown')
  BY ShownStays DEF ReadsAreStored
<1>2. ASSUME NEW i \in DOMAIN tasks' PROVE TaskReads(tasks[i])'
  <2>1. PICK t : t = tasks'[i]
    OBVIOUS
  <2>2. t \in T \/ \E j \in DOMAIN tasks : t = tasks[j]
    BY <2>1 DEF From
  <2>3. TaskReads(t)'
    BY <1>1, <2>2, TaskStays DEF ReadsAreStored
  <2>4. QED
    BY <2>1, <2>3 DEF TaskReads
<1>3. ASSUME NEW i \in DOMAIN queue' PROVE JobReads(queue[i])'
  <2>1. PICK j : j = queue'[i]
    OBVIOUS
  <2>2. j \in J \/ \E k \in DOMAIN queue : j = queue[k]
    BY <2>1 DEF From
  <2>3. JobReads(j)'
    BY <2>2, JobStays DEF ReadsAreStored
  <2>4. QED
    BY <2>1, <2>3 DEF JobReads
<1>4. List(tasks)' /\ List(queue)' /\ StoredWeeks'
  BY DEF From, List, Advances
<1>5. QED
  BY <1>1, <1>2, <1>3, <1>4 DEF ReadsAreStored

LEMMA FromSame == ASSUME NEW s, List(s) PROVE From(s, s, {})
  BY DEF From

\* Steps that write no timetable.
LEMMA OfOthers ==
    ASSUME ReadsAreStored, UNCHANGED <<timetable, view>>,
           NEW T, From(tasks', tasks, T), \A t \in T : TaskReads(t),
           NEW J, From(queue', queue, J), \A j \in J : JobReads(j)
    PROVE  ReadsAreStored' /\ Accumulates
<1>1. StoredWeeks /\ Advances /\ Accumulates
  BY NothingWritten DEF ReadsAreStored
<1>2. Shown => Shown'
  BY <1>1, ShownStays
<1>3. (\A t \in T : TaskReads(t)') /\ (\A j \in J : JobReads(j)')
  BY <1>1, <1>2, TaskStays, JobStays
<1>4. ReadsAreStored'
  BY <1>1, <1>3, NextReads
<1>5. QED
  BY <1>1, <1>4

LEMMA TasksOnly ==
    ASSUME ReadsAreStored, UNCHANGED <<timetable, view, queue>>,
           NEW T, From(tasks', tasks, T), \A t \in T : TaskReads(t)
    PROVE  ReadsAreStored' /\ Accumulates
<1>1. From(queue', queue, {})
  BY FromSame DEF ReadsAreStored
<1>2. QED
  BY <1>1, OfOthers

LEMMA NoTask ==
    ASSUME ReadsAreStored, UNCHANGED <<timetable, view, queue, tasks>>
    PROVE  ReadsAreStored' /\ Accumulates
<1>1. From(tasks', tasks, {})
  BY FromSame DEF ReadsAreStored
<1>2. QED
  BY <1>1, TasksOnly

LEMMA TaskAdded ==
    ASSUME ReadsAreStored, UNCHANGED <<timetable, view, queue>>,
           NEW k, tasks' = Append(tasks, k), TaskReads(k)
    PROVE  ReadsAreStored' /\ Accumulates
<1>1. From(tasks', tasks, {k})
  BY FromAppend DEF ReadsAreStored
<1>2. QED
  BY <1>1, TasksOnly

LEMMA TaskEdited ==
    ASSUME ReadsAreStored, UNCHANGED <<timetable, view, queue>>, NEW i \in DOMAIN tasks,
           NEW k, tasks' = [tasks EXCEPT ![i] = k], ATask(k), k.kind = tasks[i].kind,
           k.pc = "unlink" => ReadAll(k.seen), k.pc # "link" \/ k.kind = "lesson"
    PROVE  ReadsAreStored' /\ Accumulates
<1>1. PICK T : T = {k}
  OBVIOUS
<1>2. From(tasks', tasks, T)
  BY <1>1, FromReplace DEF ReadsAreStored
<1>3. TaskReads(tasks[i])
  BY DEF ReadsAreStored
<1>4. \A t \in T : TaskReads(t)
  BY <1>1, <1>3 DEF TaskReads
<1>5. QED
  BY <1>2, <1>4, TasksOnly

LEMMA TaskEnded ==
    ASSUME ReadsAreStored, UNCHANGED <<timetable, view, queue>>, NEW i \in DOMAIN tasks,
           tasks' = RemoveAt(tasks, i)
    PROVE  ReadsAreStored' /\ Accumulates
<1>1. From(tasks', tasks, {})
  BY FromRemove DEF ReadsAreStored
<1>2. QED
  BY <1>1, TasksOnly

\* The fields a new task has and what is set of them.
LEMMA NewTask ==
    ASSUME NEW kind, NEW pc, NEW at, NEW u, NEW k, k = Task(kind, pc, at, u)
    PROVE  ATask(k) /\ k.kind = kind /\ k.pc = pc
  BY DEF Task, ATask, TaskFields

LEMMA NewTaskReads ==
    ASSUME NEW k, ATask(k), k.pc \notin {"unlink", "link"}, k.kind = "lesson" => Shown
    PROVE  TaskReads(k)
  BY DEF TaskReads

----------------------------------------------------------------------------
(* The user.                                                                *)

LEMMA CreateDraftStep ==
    ASSUME ReadsAreStored, NEW p, NEW u, NEW slot, NEW pc, pc = "lesson" => Shown,
           CreateDraft(p, u, slot, pc)
    PROVE  ReadsAreStored' /\ Accumulates
<1>1. PICK t : t = Task(pc, "look", p, u)
  OBVIOUS
<1>2. PICK k : k = [t EXCEPT !.slot = slot]
  OBVIOUS
<1>3. tasks' = Append(tasks, k) /\ UNCHANGED <<timetable, view, queue>>
  BY <1>1, <1>2 DEF CreateDraft, StartTask
<1>4. ATask(t) /\ t.kind = pc /\ t.pc = "look"
  BY <1>1, NewTask
<1>5. ATask(k) /\ k.kind = pc /\ k.pc = "look"
  BY <1>2, <1>4 DEF ATask, TaskFields
<1>6. TaskReads(k)
  BY <1>5, NewTaskReads
<1>7. QED
  BY <1>3, <1>6, TaskAdded

LEMMA CreateLessonStep ==
    ASSUME ReadsAreStored, NEW p, NEW u, NEW c, CreateLesson(p, u, c)
    PROVE  ReadsAreStored' /\ Accumulates
<1>1. CreateDraft(p, u, AtCell(view.week, c), "lesson") /\ Shown
  BY DEF CreateLesson, ReadsAreStored
<1>2. QED
  BY <1>1, CreateDraftStep

LEMMA EditFileStep ==
    ASSUME ReadsAreStored, NEW p, NEW f, EditFile(p, f)
    PROVE  ReadsAreStored' /\ Accumulates
  BY NoTask DEF EditFile

LEMMA RetiringTask ==
    ASSUME NEW p, NEW found, NEW k, k = [Task("deleted", "retire", p, None) EXCEPT !.victims = found]
    PROVE  TaskReads(k)
<1>1. PICK t : t = Task("deleted", "retire", p, None)
  OBVIOUS
<1>2. ATask(t) /\ t.kind = "deleted" /\ t.pc = "retire"
  BY <1>1, NewTask
<1>3. ATask(k) /\ k.kind = "deleted" /\ k.pc = "retire"
  BY <1>1, <1>2 DEF ATask, TaskFields
<1>4. QED
  BY <1>3, NewTaskReads

LEMMA DeleteFileStep ==
    ASSUME ReadsAreStored, NEW p, DeleteFile(p)
    PROVE  ReadsAreStored' /\ Accumulates
<1>1. PICK found \in OneOf(LiveAt(p)) :
          tasks' = Append(tasks, [Task("deleted", "retire", p, None) EXCEPT !.victims = found])
  BY DEF DeleteFile, FileGone
<1> DEFINE k == [Task("deleted", "retire", p, None) EXCEPT !.victims = found]
<1>2. tasks' = Append(tasks, k) /\ UNCHANGED <<timetable, view, queue>>
  BY <1>1 DEF DeleteFile
<1>3. QED
  BY <1>1, <1>2, RetiringTask, TaskAdded

LEMMA SetNoticePublishedStep ==
    ASSUME ReadsAreStored, NEW u, NEW b, SetNoticePublished(u, b)
    PROVE  ReadsAreStored' /\ Accumulates
<1>1. PICK t : t = Task("publish", "write", notice[u].path, u)
  OBVIOUS
<1>2. PICK k : k = [t EXCEPT !.rev = notice[u].rev, !.published = b]
  OBVIOUS
<1>3. tasks' = Append(tasks, k) /\ UNCHANGED <<timetable, view, queue>>
  BY <1>1, <1>2 DEF SetNoticePublished, StartTask
<1>4. ATask(t) /\ t.kind = "publish" /\ t.pc = "write"
  BY <1>1, NewTask
<1>5. ATask(k) /\ k.kind = "publish" /\ k.pc = "write"
  BY <1>2, <1>4 DEF ATask, TaskFields
<1>6. TaskReads(k)
  BY <1>5, NewTaskReads
<1>7. QED
  BY <1>3, <1>6, TaskAdded

LEMMA DeleteNoticeStep ==
    ASSUME ReadsAreStored, NEW u, DeleteNotice(u)
    PROVE  ReadsAreStored' /\ Accumulates
<1>1. PICK k : k = Task("delete", "trash", notice[u].path, u)
  OBVIOUS
<1>2. tasks' = Append(tasks, k) /\ UNCHANGED <<timetable, view, queue>>
  BY <1>1 DEF DeleteNotice, StartTask
<1>3. ATask(k) /\ k.kind = "delete" /\ k.pc = "trash"
  BY <1>1, NewTask
<1>4. TaskReads(k)
  BY <1>3, NewTaskReads
<1>5. QED
  BY <1>2, <1>4, TaskAdded

LEMMA CleanupStep ==
    ASSUME ReadsAreStored, Cleanup
    PROVE  ReadsAreStored' /\ Accumulates
<1>1. PICK k : k = Task("cleanup", "duplicates", None, None)
  OBVIOUS
<1>2. tasks' = Append(tasks, k) /\ UNCHANGED <<timetable, view, queue>>
  BY <1>1 DEF Cleanup, StartTask
<1>3. ATask(k) /\ k.kind = "cleanup" /\ k.pc = "duplicates"
  BY <1>1, NewTask
<1>4. TaskReads(k)
  BY <1>3, NewTaskReads
<1>5. QED
  BY <1>2, <1>4, TaskAdded

\* The tasks of the file that moved know where it is.
LEMMA RenameFileStep ==
    ASSUME ReadsAreStored, NEW p, NEW q, RenameFile(p, q)
    PROVE  ReadsAreStored' /\ Accumulates
<1> DEFINE moved == [i \in DOMAIN tasks |->
                       IF tasks[i].at = p /\ tasks[i].kind \in {"sync", "draft", "lesson"}
                       THEN [tasks[i] EXCEPT !.at = q] ELSE tasks[i]]
           Found(u) == [Task("renamed", "write", q, u) EXCEPT
                          !.rev = notice[u].rev, !.published = notice[u].published]
<1>1. tasks' = moved \/ \E u : tasks' = Append(moved, Found(u))
  BY DEF RenameFile
<1>2. UNCHANGED <<timetable, view, queue>>
  BY DEF RenameFile
<1>3. PICK n \in Nat : n = Len(tasks) /\ DOMAIN tasks = 1..n
  BY DEF ReadsAreStored, List
<1>4. ASSUME NEW i \in DOMAIN tasks PROVE TaskReads(moved[i])
  <2>1. PICK t : t = tasks[i]
    OBVIOUS
  <2>2. PICK k : k = [t EXCEPT !.at = q]
    OBVIOUS
  <2>3. TaskReads(t) /\ ATask(t)
    BY <2>1 DEF ReadsAreStored, TaskReads
  <2>4. ATask(k) /\ k.pc = t.pc /\ k.kind = t.kind /\ k.seen = t.seen
    BY <2>2, <2>3 DEF ATask, TaskFields
  <2>5. TaskReads(k)
    BY <2>3, <2>4 DEF TaskReads
  <2>6. moved[i] \in {t, k}
    BY <2>1, <2>2
  <2>7. QED
    BY <2>3, <2>5, <2>6
<1>5. PICK T : T = {moved[i] : i \in DOMAIN tasks}
  OBVIOUS
<1>6. moved \in Seq(T) /\ DOMAIN moved = DOMAIN tasks
  <2>1. moved = [i \in 1..n |-> moved[i]] /\ \A i \in 1..n : moved[i] \in T
    BY <1>3, <1>5
  <2> HIDE DEF moved
  <2>2. QED
    BY <1>3, <2>1
<1> HIDE DEF moved, Found
<1>7. \A t \in T : TaskReads(t)
  BY <1>4, <1>5
<1>8. CASE tasks' = moved
  <2>1. From(tasks', tasks, T)
    BY <1>5, <1>6, <1>8 DEF From, List
  <2>2. QED
    BY <1>2, <1>7, <2>1, TasksOnly
<1>9. ASSUME NEW u, tasks' = Append(moved, Found(u))
      PROVE ReadsAreStored' /\ Accumulates
  <2>1. PICK t : t = Task("renamed", "write", q, u)
    OBVIOUS
  <2>2. PICK k : k = [t EXCEPT !.rev = notice[u].rev, !.published = notice[u].published]
    OBVIOUS
  <2>3. ATask(t) /\ t.kind = "renamed" /\ t.pc = "write"
    BY <2>1, NewTask
  <2>4. ATask(k) /\ k.kind = "renamed" /\ k.pc = "write"
    BY <2>2, <2>3 DEF ATask, TaskFields
  <2>5. TaskReads(k)
    BY <2>4, NewTaskReads
  <2>6. From(tasks', moved, {k})
    BY <1>6, <1>9, <2>1, <2>2, FromAppend DEF List, Found
  <2>7. PICK U : U = T \cup {k}
    OBVIOUS
  <2>8. \A i \in DOMAIN moved : moved[i] \in T
    BY <1>5, <1>6
  <2>9. From(tasks', tasks, U)
    BY <2>6, <2>7, <2>8 DEF From
  <2>10. \A s \in U : TaskReads(s)
    BY <1>7, <2>5, <2>7
  <2>11. QED
    BY <1>2, <2>9, <2>10, TasksOnly
<1>10. QED
  BY <1>1, <1>8, <1>9

----------------------------------------------------------------------------
(* Handlers of notices.                                                     *)

LEMMA SyncNoticeFromFileStep ==
    ASSUME ReadsAreStored, NEW p, SyncNoticeFromFile(p)
    PROVE  ReadsAreStored' /\ Accumulates
<1>1. PICK pc : pc = IF SaysTheSame(notice[file[p].uid], p, file[p].published) THEN "list"
                     ELSE IF notice[file[p].uid].rev = 0 THEN "look" ELSE "write"
  OBVIOUS
<1>2. PICK t : t = Task("sync", pc, p, file[p].uid)
  OBVIOUS
<1>3. PICK k : k = [t EXCEPT !.published = file[p].published, !.slot = file[p].slot,
                             !.rev = notice[file[p].uid].rev]
  OBVIOUS
<1>4. tasks' = Append(tasks, k) /\ UNCHANGED <<timetable, view, queue>>
  BY <1>1, <1>2, <1>3 DEF SyncNoticeFromFile, StartTask
<1>5. ATask(t) /\ t.kind = "sync" /\ t.pc = pc
  BY <1>2, NewTask
<1>6. ATask(k) /\ k.kind = "sync" /\ k.pc \in {"list", "look", "write"}
  BY <1>1, <1>3, <1>5 DEF ATask, TaskFields
<1>7. TaskReads(k)
  BY <1>6, NewTaskReads
<1>8. QED
  BY <1>4, <1>7, TaskAdded

\* A task of the list, as a function on its fields.
LEMMA ListedTask ==
    ASSUME ReadsAreStored, NEW i \in DOMAIN tasks
    PROVE  /\ ATask(tasks[i]) /\ TaskReads(tasks[i])
           /\ \E n \in Nat : DOMAIN tasks = 1..n
           /\ \A k : [tasks EXCEPT ![i] = k] = [j \in DOMAIN tasks |-> IF j = i THEN k ELSE tasks[j]]
  BY DEF ReadsAreStored, TaskReads, List

LEMMA LookUpStep ==
    ASSUME ReadsAreStored, NEW i \in DOMAIN tasks, LookUp(i)
    PROVE  ReadsAreStored' /\ Accumulates
<1>1. PICK n : n = notice[tasks[i].uid].rev
  OBVIOUS
<1>2. PICK k : k = [tasks[i] EXCEPT !.pc = "write", !.rev = n]
  OBVIOUS
<1>3. tasks' = [tasks EXCEPT ![i].pc = "write", ![i].rev = n] /\ UNCHANGED <<timetable, view, queue>>
  BY <1>1 DEF LookUp
<1>4. tasks' = [tasks EXCEPT ![i] = k]
  BY <1>2, <1>3 DEF ReadsAreStored, List
<1>5. ATask(k) /\ k.kind = tasks[i].kind /\ k.pc = "write"
  BY <1>2, ListedTask DEF ATask, TaskFields
<1>6. QED
  BY <1>3, <1>4, <1>5, TaskEdited

LEMMA GotoStep ==
    ASSUME ReadsAreStored, UNCHANGED <<timetable, view, queue>>, NEW i \in DOMAIN tasks,
           NEW pc, Goto(i, pc), pc # "unlink", pc # "link" \/ tasks[i].kind = "lesson"
    PROVE  ReadsAreStored' /\ Accumulates
<1>1. PICK k : k = [tasks[i] EXCEPT !.pc = pc]
  OBVIOUS
<1>2. tasks' = [tasks EXCEPT ![i] = k]
  BY <1>1 DEF ReadsAreStored, List, Goto
<1>3. ATask(k) /\ k.kind = tasks[i].kind /\ k.pc = pc
  BY <1>1, ListedTask DEF ATask, TaskFields
<1>4. QED
  BY <1>2, <1>3, TaskEdited

LEMMA WriteNoticeStep ==
    ASSUME ReadsAreStored, NEW i \in DOMAIN tasks, WriteNotice(i)
    PROVE  ReadsAreStored' /\ Accumulates
<1>1. PICK pc : pc = AfterWrite(tasks[i].kind)
  OBVIOUS
<1>2. UNCHANGED <<timetable, view, queue>> /\ (tasks' = RemoveAt(tasks, i) \/ Goto(i, pc))
  BY <1>1 DEF WriteNotice, EndTask
<1>3. pc # "unlink" /\ (pc # "link" \/ tasks[i].kind = "lesson")
  BY <1>1 DEF AfterWrite
<1>4. QED
  BY <1>2, <1>3, TaskEnded, GotoStep

LEMMA EndingStep ==
    ASSUME ReadsAreStored, NEW i \in DOMAIN tasks, RefuseNotice(i) \/ WriteFrontmatter(i)
    PROVE  ReadsAreStored' /\ Accumulates
<1>1. tasks' = RemoveAt(tasks, i) /\ UNCHANGED <<timetable, view, queue>>
  BY DEF RefuseNotice, WriteFrontmatter, EndTask
<1>2. QED
  BY <1>1, TaskEnded

LEMMA ListingStep ==
    ASSUME ReadsAreStored, NEW i \in DOMAIN tasks, UNCHANGED <<timetable, view, queue>>,
           NEW pc \in {"retire", "orphans", "links"}, NEW found,
           tasks' = [tasks EXCEPT ![i].pc = pc, ![i].victims = found]
    PROVE  ReadsAreStored' /\ Accumulates
<1>1. PICK k : k = [tasks[i] EXCEPT !.pc = pc, !.victims = found]
  OBVIOUS
<1>2. tasks' = [tasks EXCEPT ![i] = k]
  BY <1>1 DEF ReadsAreStored, List
<1>3. ATask(k) /\ k.kind = tasks[i].kind /\ k.pc = pc
  BY <1>1, ListedTask DEF ATask, TaskFields
<1>4. QED
  BY <1>2, <1>3, TaskEdited

LEMMA ListStaleNoticesStep ==
    ASSUME ReadsAreStored, NEW i \in DOMAIN tasks, ListStaleNotices(i)
    PROVE  ReadsAreStored' /\ Accumulates
  BY ListingStep DEF ListStaleNotices

LEMMA ListDuplicatesStep ==
    ASSUME ReadsAreStored, NEW i \in DOMAIN tasks, ListDuplicates(i)
    PROVE  ReadsAreStored' /\ Accumulates
<1>1. /\ UNCHANGED <<timetable, view, queue>>
      /\ \E found : tasks' = [tasks EXCEPT ![i].pc = "orphans", ![i].victims = found]
  BY DEF ListDuplicates
<1>2. QED
  BY <1>1, ListingStep

LEMMA ListOrphansStep ==
    ASSUME ReadsAreStored, NEW i \in DOMAIN tasks, ListOrphans(i)
    PROVE  ReadsAreStored' /\ Accumulates
<1>1. /\ UNCHANGED <<timetable, view, queue>>
      /\ \E found : tasks' = [tasks EXCEPT ![i].pc = "links", ![i].victims = found]
  BY DEF ListOrphans
<1>2. QED
  BY <1>1, ListingStep

LEMMA ListLinksStep ==
    ASSUME ReadsAreStored, NEW i \in DOMAIN tasks, ListLinks(i)
    PROVE  ReadsAreStored' /\ Accumulates
<1>1. PICK found : found = {u \in Uids : ~Live(u) \/ u \in tasks[i].victims}
  OBVIOUS
<1>2. PICK k : k = [tasks[i] EXCEPT !.pc = "unlink", !.seen = timetable, !.victims = found]
  OBVIOUS
<1>3. /\ UNCHANGED <<timetable, view, queue>>
      /\ tasks' = [tasks EXCEPT ![i].pc = "unlink", ![i].seen = timetable, ![i].victims = found]
  BY <1>1 DEF ListLinks
<1>4. tasks' = [tasks EXCEPT ![i] = k]
  BY <1>2, <1>3 DEF ReadsAreStored, List
<1>5. ATask(k) /\ k.kind = tasks[i].kind /\ k.pc = "unlink" /\ k.seen = timetable
  BY <1>2, ListedTask DEF ATask, TaskFields
<1>6. ReadAll(timetable)
  BY StoredNow DEF ReadsAreStored
<1>7. QED
  BY <1>3, <1>4, <1>5, <1>6, TaskEdited

LEMMA RetireNoticesStep ==
    ASSUME ReadsAreStored, NEW i \in DOMAIN tasks, RetireNotices(i)
    PROVE  ReadsAreStored' /\ Accumulates
<1>1. PICK j : j = [uid |-> tasks[i].uid, slot |-> tasks[i].slot, pc |-> "read", seen |-> NothingSeen]
  OBVIOUS
<1>2. /\ UNCHANGED <<timetable, view>> /\ tasks' = RemoveAt(tasks, i)
      /\ queue' = Append(queue, j) \/ queue' = queue
  BY <1>1 DEF RetireNotices, EndTask
<1>3. PICK J : J = {j}
  OBVIOUS
<1>4. JobReads(j)
  BY <1>1 DEF JobReads, AJob
<1>5. From(tasks', tasks, {})
  BY <1>2, FromRemove DEF ReadsAreStored
<1>6. From(queue', queue, J) /\ \A k \in J : JobReads(k)
  <2>1. From(Append(queue, j), queue, {j}) /\ From(queue, queue, {})
    BY FromAppend, FromSame DEF ReadsAreStored
  <2>2. From(queue', queue, J)
    BY <1>2, <1>3, <2>1 DEF From
  <2>3. QED
    BY <1>3, <1>4, <2>2
<1>7. QED
  BY <1>2, <1>5, <1>6, OfOthers

LEMMA TrashFileStep ==
    ASSUME ReadsAreStored, NEW i \in DOMAIN tasks, TrashFile(i)
    PROVE  ReadsAreStored' /\ Accumulates
<1>1. PICK p, rest : p = tasks[i].at /\ rest = RemoveAt(tasks, i)
  OBVIOUS
<1>2. PICK found : FileGone(p, rest)
                   => tasks' = Append(rest, [Task("deleted", "retire", p, None) EXCEPT !.victims = found])
  BY DEF FileGone
<1> DEFINE k == [Task("deleted", "retire", p, None) EXCEPT !.victims = found]
<1>3. UNCHANGED <<timetable, view, queue>> /\ (tasks' = rest \/ tasks' = Append(rest, k))
  BY <1>1, <1>2 DEF TrashFile, EndTask
<1>4. From(rest, tasks, {})
  BY <1>1, FromRemove DEF ReadsAreStored
<1>5. From(Append(rest, k), rest, {k})
  BY <1>4, FromAppend DEF From
<1>6. PICK T : T = {k}
  OBVIOUS
<1>7. From(tasks', tasks, T)
  BY ZenonT(60), <1>3, <1>4, <1>5, <1>6 DEF From
<1>8. \A t \in T : TaskReads(t)
  BY <1>6, RetiringTask
<1>9. QED
  BY <1>3, <1>7, <1>8, TasksOnly

----------------------------------------------------------------------------
(* Writes to a timetable.                                                   *)

LEMMA PutAdvances ==
    ASSUME StoredWeeks, NEW w \in Weeks, NEW rev, NEW lessons, NEW subjects, NEW by,
           lessons = [c \in Cells |-> lessons[c]], PutTimetable(w, rev, lessons, subjects, by)
    PROVE  /\ Advances
           /\ timetable[w].rev = rev /\ rev \in Nat /\ rev < timetable'[w].rev
           /\ timetable'[w].lessons = lessons /\ timetable'[w].by = by
           /\ \A v \in Weeks : v # w => timetable'[v] = timetable[v]
<1>1. PICK d : d = [rev |-> rev + 1, lessons |-> lessons, subjects |-> subjects, by |-> by]
  OBVIOUS
<1>2. timetable[w].rev = rev /\ timetable' = [timetable EXCEPT ![w] = d]
  BY <1>1 DEF PutTimetable, TimetableRefuses
<1>3. rev \in Nat
  BY <1>2 DEF StoredWeeks, ATimetable
<1>4. d.rev = rev + 1 /\ d.lessons = lessons /\ d.by = by /\ ATimetable(d)
  BY <1>1, <1>3 DEF ATimetable, DocFields
<1>5. timetable' = [v \in Weeks |-> IF v = w THEN d ELSE timetable[v]]
  BY <1>2 DEF StoredWeeks
<1>6. StoredWeeks'
  <2>1. \A v \in Weeks : ATimetable(timetable'[v])
    BY <1>4, <1>5 DEF StoredWeeks
  <2>2. timetable' = [v \in Weeks |-> timetable'[v]]
    BY <1>5
  <2>3. QED
    BY <2>1, <2>2 DEF StoredWeeks, ATimetable
<1>7. timetable'[w] = d /\ \A v \in Weeks : v # w => timetable'[v] = timetable[v]
  BY <1>5
<1>8. Advances
  BY <1>2, <1>3, <1>4, <1>6, <1>7 DEF Advances
<1>9. QED
  BY <1>2, <1>3, <1>4, <1>7, <1>8

\* Where the week is none that has a timetable, nothing is written.
LEMMA PutElsewhere ==
    ASSUME StoredWeeks, NEW w, w \notin Weeks, NEW rev, NEW lessons, NEW subjects, NEW by,
           PutTimetable(w, rev, lessons, subjects, by)
    PROVE  timetable' = timetable
  BY DEF StoredWeeks, PutTimetable

\* A write takes away only what its author may take away.
LEMMA PutAccumulates ==
    ASSUME StoredWeeks, NEW w \in Weeks,
           \A v \in Weeks : v # w => timetable'[v] = timetable[v],
           \A c \in Cells : timetable'[w].lessons[c] # timetable[w].lessons[c] =>
             \/ timetable'[w].by.kind = "place" /\ timetable'[w].by.uid = timetable[w].lessons[c]
             \/ /\ timetable'[w].by.kind \in {"place", "link"}
                /\ timetable'[w].lessons[c] = timetable'[w].by.uid
             \/ timetable'[w].by.kind = "cleanup" /\ timetable[w].lessons[c] \in timetable'[w].by.gone
             \/ timetable'[w].by.kind = "first"
    PROVE  Accumulates
  BY DEF Accumulates

\* What was read before a write has an older revision than there is after it.
LEMMA ReadBefore ==
    ASSUME Advances, NEW w \in Weeks, NEW d, ATimetable(d), d.rev < timetable'[w].rev
    PROVE  Reads(w, d)'
<1>1. d.rev \in Nat /\ timetable'[w].rev \in Nat
  BY DEF Advances, StoredWeeks, ATimetable
<1>2. QED
  BY <1>1 DEF Reads, ATimetable

LEMMA ByFields == ASSUME NEW kind, NEW u, NEW gone, NEW b, b = By(kind, u, gone)
                  PROVE  b.kind = kind /\ b.uid = u /\ b.gone = gone
  BY DEF By

----------------------------------------------------------------------------
(* Placements.                                                              *)

LEMMA FirstJob ==
    ASSUME ReadsAreStored, queue # <<>>
    PROVE  /\ 1 \in DOMAIN queue /\ JobReads(Job) /\ AJob(Job)
           /\ From(Tail(queue), queue, {})
           /\ \A k : From([queue EXCEPT ![1] = k], queue, {k})
<1>1. 1 \in DOMAIN queue /\ From(Tail(queue), queue, {})
  BY FromTail DEF ReadsAreStored
<1>2. JobReads(Job) /\ AJob(Job)
  BY <1>1 DEF ReadsAreStored, Job, JobReads
<1>3. QED
  BY <1>1, <1>2, FromReplace DEF ReadsAreStored

LEMMA QueueOnly ==
    ASSUME ReadsAreStored, UNCHANGED <<timetable, view, tasks>>,
           NEW J, From(queue', queue, J), \A j \in J : JobReads(j)
    PROVE  ReadsAreStored' /\ Accumulates
<1>1. From(tasks', tasks, {})
  BY FromSame DEF ReadsAreStored
<1>2. QED
  BY <1>1, OfOthers

LEMMA JobEnds ==
    ASSUME ReadsAreStored, UNCHANGED <<timetable, view, tasks>>, queue # <<>>, JobDone
    PROVE  ReadsAreStored' /\ Accumulates
<1>1. From(queue', queue, {})
  BY FirstJob DEF JobDone
<1>2. QED
  BY <1>1, QueueOnly

LEMMA JobGoesOn ==
    ASSUME ReadsAreStored, UNCHANGED <<timetable, view, tasks>>, queue # <<>>,
           NEW k, queue' = [queue EXCEPT ![1] = k], JobReads(k)
    PROVE  ReadsAreStored' /\ Accumulates
<1>1. PICK J : J = {k}
  OBVIOUS
<1>2. From(queue', queue, J) /\ \A j \in J : JobReads(j)
  BY <1>1, FirstJob
<1>3. QED
  BY <1>2, QueueOnly

LEMMA PlaceReadStep ==
    ASSUME ReadsAreStored, PlaceRead
    PROVE  ReadsAreStored' /\ Accumulates
<1>1. PICK k : k = [Job EXCEPT !.pc = "unlink", !.seen = timetable]
  OBVIOUS
<1>2. /\ UNCHANGED <<timetable, view, tasks>> /\ queue # <<>>
      /\ JobDone \/ queue' = [queue EXCEPT ![1].pc = "unlink", ![1].seen = timetable]
  BY DEF PlaceRead
<1>3. JobReads(k)
  <2>1. AJob(k) /\ k.pc = "unlink" /\ k.seen = timetable
    BY <1>1, <1>2, FirstJob DEF AJob
  <2>2. QED
    BY <2>1, StoredNow DEF ReadsAreStored, JobReads
<1>4. JobDone \/ queue' = [queue EXCEPT ![1] = k]
  BY <1>1, <1>2, FirstJob DEF Job, ReadsAreStored, List
<1>5. QED
  BY <1>2, <1>3, <1>4, JobEnds, JobGoesOn

LEMMA PlaceTargetStep ==
    ASSUME ReadsAreStored, PlaceTarget
    PROVE  ReadsAreStored' /\ Accumulates
<1>1. PICK w, n : w = Job.slot.week /\ n = timetable[w].rev
  OBVIOUS
<1>2. /\ UNCHANGED <<timetable, view, tasks>> /\ queue # <<>> /\ Job.pc = "unlink"
      /\ \/ JobDone
         \/ queue' = [queue EXCEPT ![1].pc = "first", ![1].seen[w].rev = n]
         \/ queue' = [queue EXCEPT ![1].pc = "write"]
  BY <1>1 DEF PlaceTarget
<1>3. JobReads(Job) /\ AJob(Job)
  BY <1>2, FirstJob
<1>4. PICK s : s = [Job.seen EXCEPT ![w].rev = n]
  OBVIOUS
<1>5. PICK j, k : /\ j = [Job EXCEPT !.pc = "first", !.seen = s]
                  /\ k = [Job EXCEPT !.pc = "write"]
  OBVIOUS
<1>6. JobReads(j)
  <2>1. AJob(j) /\ j.pc = "first"
    BY <1>3, <1>5 DEF AJob
  <2>2. QED
    BY <2>1 DEF JobReads
<1>7. JobReads(k)
  <2>1. AJob(k) /\ k.pc = "write" /\ k.seen = Job.seen
    BY <1>3, <1>5 DEF AJob
  <2>2. QED
    BY <1>2, <1>3, <2>1 DEF JobReads
<1>8. \/ JobDone
      \/ queue' = [queue EXCEPT ![1] = j]
      \/ queue' = [queue EXCEPT ![1] = k]
  <2>1. CASE queue' = [queue EXCEPT ![1].pc = "first", ![1].seen[w].rev = n]
    BY <1>2, <1>4, <1>5, <2>1, <1>3, FirstJob DEF Job, AJob, ReadsAreStored, List
  <2>2. CASE queue' = [queue EXCEPT ![1].pc = "write"]
    BY <1>2, <1>5, <2>2, FirstJob DEF Job, ReadsAreStored, List
  <2>3. QED
    BY <1>2, <2>1, <2>2
<1>9. QED
  BY <1>2, <1>6, <1>7, <1>8, JobEnds, JobGoesOn

LEMMA PlaceUnlinkStep ==
    ASSUME ReadsAreStored, NEW w \in Weeks, PlaceUnlink(w)
    PROVE  ReadsAreStored' /\ Accumulates
<1>1. PICK doc, u : doc = Job.seen[w] /\ u = Job.uid
  OBVIOUS
<1>2. PICK rest : rest = RemoveLessonSlot(doc.lessons, u)
  OBVIOUS
<1>3. PICK by : by = By("place", u, {})
  OBVIOUS
<1>4. /\ UNCHANGED <<view, tasks>> /\ queue # <<>> /\ Job.pc = "unlink"
      /\ \/ /\ PutTimetable(w, doc.rev, rest, doc.subjects, by)
            /\ queue' = [queue EXCEPT ![1].seen[w].lessons = rest]
         \/ JobDone /\ UNCHANGED timetable
  BY <1>1, <1>2, <1>3 DEF PlaceUnlink
<1>5. JobReads(Job) /\ AJob(Job) /\ ReadAll(Job.seen)
  BY <1>4, FirstJob DEF JobReads
<1>6. CASE JobDone /\ UNCHANGED timetable
  BY <1>4, <1>6, JobEnds
<1>7. CASE /\ PutTimetable(w, doc.rev, rest, doc.subjects, by)
           /\ queue' = [queue EXCEPT ![1].seen[w].lessons = rest]
  <2>1. StoredWeeks /\ rest = [c \in Cells |-> rest[c]]
    BY <1>2 DEF ReadsAreStored, RemoveLessonSlot
  <2>2. /\ Advances
        /\ timetable[w].rev = doc.rev /\ doc.rev \in Nat /\ doc.rev < timetable'[w].rev
        /\ timetable'[w].lessons = rest /\ timetable'[w].by = by
        /\ \A v \in Weeks : v # w => timetable'[v] = timetable[v]
    BY <1>7, <2>1, PutAdvances
  <2>3. Reads(w, doc) /\ ATimetable(doc) /\ timetable[w].lessons = doc.lessons
    BY <1>1, <1>5, <2>2 DEF ReadAll, Reads
  <2>4. by.kind = "place" /\ by.uid = u
    BY <1>3, ByFields
  <2>5. Accumulates
    <3>1. \A c \in Cells : rest[c] # doc.lessons[c] => doc.lessons[c] = u
      BY <1>2 DEF RemoveLessonSlot
    <3>2. QED
      BY <2>1, <2>2, <2>3, <2>4, <3>1, PutAccumulates
  <2>6. PICK d : d = [doc EXCEPT !.lessons = rest]
    OBVIOUS
  <2>7. PICK s : s = [Job.seen EXCEPT ![w] = d]
    OBVIOUS
  <2>8. PICK k : k = [Job EXCEPT !.seen = s]
    OBVIOUS
  <2>9. ATimetable(d) /\ d.rev = doc.rev
    BY <2>1, <2>3, <2>6 DEF ATimetable, DocFields
  <2>10. Reads(w, d)'
    BY <2>2, <2>9, ReadBefore
  <2>11. ReadAll(s)'
    <3>1. s = [v \in Weeks |-> s[v]] /\ s[w] = d /\ \A v \in Weeks : v # w => s[v] = Job.seen[v]
      BY <1>5, <2>7 DEF ReadAll
    <3>2. \A v \in Weeks : v # w => Reads(v, s[v])'
      <4>1. \A v \in Weeks : Reads(v, Job.seen[v])
        BY <1>5 DEF ReadAll
      <4>2. ASSUME NEW v \in Weeks, v # w PROVE Reads(v, s[v])'
        <5>1. PICK e : e = Job.seen[v]
          OBVIOUS
        <5>2. Reads(v, e)'
          BY <2>1, <2>2, <4>1, <5>1, ReadsStay
        <5>3. QED
          BY <3>1, <4>2, <5>1, <5>2
      <4>3. QED
        BY <4>2
    <3>3. QED
      BY <2>10, <3>1, <3>2 DEF ReadAll
  <2>12. JobReads(k)'
    <3>1. AJob(k) /\ k.seen = s
      BY <1>5, <2>8 DEF AJob
    <3>2. QED
      BY <2>11, <3>1 DEF JobReads
  <2>13. queue' = [queue EXCEPT ![1] = k]
    <3>1. [Job.seen EXCEPT ![w].lessons = rest] = s
      BY <1>1, <1>5, <2>6, <2>7 DEF ReadAll
    <3>2. queue' = [queue EXCEPT ![1] = [queue[1] EXCEPT !.seen = [queue[1].seen EXCEPT ![w].lessons = rest]]]
      BY <1>7
    <3>3. QED
      BY <2>8, <3>1, <3>2 DEF Job
  <2>14. PICK J : J = {k}
    OBVIOUS
  <2>15. From(queue', queue, J) /\ \A j \in J : JobReads(j)'
    BY <1>4, <2>12, <2>13, <2>14, FirstJob
  <2>16. From(tasks', tasks, {}) /\ view' = view
    BY <1>4, FromSame DEF ReadsAreStored
  <2>17. ReadsAreStored'
    BY <2>2, <2>15, <2>16, NextReads
  <2>18. QED
    BY <2>5, <2>17
<1>8. QED
  BY <1>4, <1>6, <1>7

LEMMA PlaceWriteStep ==
    ASSUME ReadsAreStored, PlaceWrite
    PROVE  ReadsAreStored' /\ Accumulates
<1>1. PICK w, u, cell : w = Job.slot.week /\ u = Job.uid /\ cell = Job.slot.cell
  OBVIOUS
<1>2. PICK doc, kind : doc = Job.seen[w] /\ kind = IF Job.pc = "first" THEN "first" ELSE "place"
  OBVIOUS
<1>3. PICK lessons : lessons = PlaceLessonSlot(doc.lessons, u, cell)
  OBVIOUS
<1>4. PICK by : by = By(kind, u, {})
  OBVIOUS
<1>5. /\ UNCHANGED <<view, tasks>> /\ queue # <<>> /\ Job.pc \in {"first", "write"} /\ JobDone
      /\ PutTimetable(w, doc.rev, lessons, doc.subjects, by) \/ timetable' = timetable
  BY <1>1, <1>2, <1>3, <1>4 DEF PlaceWrite
<1>6. JobReads(Job) /\ StoredWeeks
  BY <1>5, FirstJob DEF ReadsAreStored
<1>7. CASE timetable' = timetable
  BY <1>5, <1>7, JobEnds
<1>8. CASE PutTimetable(w, doc.rev, lessons, doc.subjects, by) /\ w \notin Weeks
  <2>1. timetable' = timetable
    BY <1>6, <1>8, PutElsewhere
  <2>2. QED
    BY <1>5, <2>1, JobEnds
<1>9. CASE PutTimetable(w, doc.rev, lessons, doc.subjects, by) /\ w \in Weeks
  <2>1. lessons = [c \in Cells |-> lessons[c]]
    BY <1>3 DEF PlaceLessonSlot
  <2>2. /\ Advances
        /\ timetable[w].rev = doc.rev
        /\ timetable'[w].lessons = lessons /\ timetable'[w].by = by
        /\ \A v \in Weeks : v # w => timetable'[v] = timetable[v]
    BY <1>6, <1>9, <2>1, PutAdvances
  <2>3. by.kind = kind /\ by.uid = u
    BY <1>4, ByFields
  <2>4. Job.pc = "write" => timetable[w].lessons = doc.lessons
    BY <1>2, <1>6, <1>9, <2>2 DEF JobReads, ReadAll, Reads
  <2>5. \A c \in Cells : lessons[c] # doc.lessons[c] => doc.lessons[c] = u \/ lessons[c] = u
    BY <1>3 DEF PlaceLessonSlot
  <2>6. Accumulates
    <3>1. CASE Job.pc = "first"
      BY <1>2, <1>6, <1>9, <2>2, <2>3, <3>1, PutAccumulates
    <3>2. CASE Job.pc = "write"
      BY <1>2, <1>6, <1>9, <2>2, <2>3, <2>4, <2>5, <3>2, PutAccumulates
    <3>3. QED
      BY <1>5, <3>1, <3>2
  <2>7. From(tasks', tasks, {}) /\ view' = view /\ From(queue', queue, {})
    BY <1>5, FirstJob, FromSame DEF ReadsAreStored, JobDone
  <2>8. ReadsAreStored'
    BY <2>2, <2>7, NextReads
  <2>9. QED
    BY <2>6, <2>8
<1>10. QED
  BY <1>5, <1>7, <1>8, <1>9

----------------------------------------------------------------------------
(* The view of a week, and the cleanup.                                     *)

\* What is waiting while the view writes or is drawn.
LEMMA ViewWrites ==
    ASSUME ReadsAreStored, Advances, Shown', UNCHANGED queue, NEW T, T = {}, From(tasks', tasks, T)
    PROVE  ReadsAreStored'
<1>1. From(queue', queue, {})
  BY FromSame DEF ReadsAreStored
<1>2. (\A t \in T : TaskReads(t)') /\ (\A j \in {} : JobReads(j)')
  OBVIOUS
<1>3. QED
  BY <1>1, <1>2, NextReads

LEMMA ViewIs ==
    ASSUME NEW w \in Weeks, NEW d, view' = [week |-> w, doc |-> d], Reads(w, d)'
    PROVE  Shown'
<1>1. view'.week = w /\ view'.doc = d
  OBVIOUS
<1>2. QED
  BY <1>1 DEF Shown

LEMMA RenderTimetableStep ==
    ASSUME ReadsAreStored, NEW w \in Weeks, RenderTimetable(w)
    PROVE  ReadsAreStored' /\ Accumulates
<1>1. PICK d : d = timetable[w]
  OBVIOUS
<1>2. /\ UNCHANGED <<timetable, tasks, queue>> /\ view' = [week |-> w, doc |-> d]
  BY <1>1 DEF RenderTimetable
<1>3. StoredWeeks /\ Advances /\ Accumulates
  BY <1>2, NothingWritten DEF ReadsAreStored
<1>4. Reads(w, d)'
  BY <1>1, <1>3, StoredNow, ReadsStay
<1>5. Shown'
  BY <1>2, <1>4, ViewIs
<1>6. From(tasks', tasks, {})
  BY <1>2, FromSame DEF ReadsAreStored
<1>7. ReadsAreStored'
  BY <1>2, <1>3, <1>5, <1>6, ViewWrites
<1>8. QED
  BY <1>3, <1>7

\* A put of the document on screen, which need not be what is stored.
LEMMA PutViewWrites ==
    ASSUME StoredWeeks, NEW w \in Weeks, w = view.week, NEW doc, ATimetable(doc), NEW kind, NEW u, PutView(doc, kind, u)
    PROVE  /\ Advances /\ \A v \in Weeks : v # w => timetable'[v] = timetable[v]
           /\ \/ timetable' = timetable /\ doc.rev # timetable[w].rev
              \/ /\ doc.rev < timetable'[w].rev /\ timetable'[w].lessons = doc.lessons /\ timetable' # timetable
                 /\ \/ timetable'[w].by.kind = "first"
                    \/ timetable'[w].by.kind = kind /\ timetable'[w].by.uid = u /\ timetable[w].rev = doc.rev
<1>1. PICK first, by, n : first = By("first", u, {}) /\ by = By(kind, u, {}) /\ n = timetable[w].rev
  OBVIOUS
<1>2. \/ doc.rev = 0 /\ PutTimetable(w, n, doc.lessons, doc.subjects, first)
      \/ PutTimetable(w, doc.rev, doc.lessons, doc.subjects, by)
      \/ doc.rev # n /\ timetable' = timetable
  BY <1>1 DEF PutView, TimetableRefuses
<1>3. /\ first.kind = "first" /\ by.kind = kind /\ by.uid = u
      /\ doc.lessons = [c \in Cells |-> doc.lessons[c]] /\ doc.rev \in Nat /\ n \in Nat
  <2>1. first.kind = "first" /\ by.kind = kind /\ by.uid = u
    BY <1>1, ByFields
  <2>2. ATimetable(doc) /\ ATimetable(timetable[w])
    BY DEF StoredWeeks
  <2>3. QED
    BY <1>1, <2>1, <2>2 DEF ATimetable
<1>4. CASE doc.rev # n /\ timetable' = timetable
  BY <1>1, <1>4, NothingWritten
<1>5. CASE doc.rev = 0 /\ PutTimetable(w, n, doc.lessons, doc.subjects, first)
  <2>1. /\ Advances /\ n < timetable'[w].rev /\ timetable'[w].lessons = doc.lessons /\ timetable'[w].by = first
        /\ \A v \in Weeks : v # w => timetable'[v] = timetable[v]
    BY <1>3, <1>5, PutAdvances
  <2>2. timetable'[w].rev \in Nat
    BY <2>1 DEF Advances, StoredWeeks, ATimetable
  <2>3. doc.rev < timetable'[w].rev /\ timetable' # timetable
    BY <1>1, <1>3, <1>5, <2>1, <2>2
  <2>4. QED
    BY <1>3, <2>1, <2>3
<1>6. CASE PutTimetable(w, doc.rev, doc.lessons, doc.subjects, by)
  <2>1. /\ Advances /\ timetable[w].rev = doc.rev /\ doc.rev < timetable'[w].rev
        /\ timetable'[w].lessons = doc.lessons /\ timetable'[w].by = by
        /\ \A v \in Weeks : v # w => timetable'[v] = timetable[v]
    BY <1>3, <1>6, PutAdvances
  <2>2. timetable' # timetable
    BY <1>3, <2>1
  <2>3. QED
    BY <1>3, <2>1, <2>2
<1>7. QED
  BY <1>2, <1>4, <1>5, <1>6

LEMMA SetCellStep ==
    ASSUME ReadsAreStored, NEW c, SetCell(c)
    PROVE  ReadsAreStored' /\ Accumulates
<1>1. PICK w, d, s : /\ w = view.week /\ d = view.doc
                     /\ s = IF c \in d.subjects THEN d.subjects \ {c} ELSE d.subjects \cup {c}
  OBVIOUS
<1>2. PICK doc : doc = [d EXCEPT !.subjects = s]
  OBVIOUS
<1>3. /\ view # None /\ UNCHANGED <<tasks, queue>>
      /\ PutView(doc, "cell", None) /\ view' = [view EXCEPT !.doc = doc]
  BY <1>1, <1>2 DEF SetCell
<1>4. StoredWeeks /\ Shown /\ w \in Weeks /\ Reads(w, d) /\ ATimetable(d)
  BY <1>1, <1>3 DEF ReadsAreStored, Shown, Reads
<1>5. ATimetable(doc) /\ doc.rev = d.rev /\ doc.lessons = d.lessons
  BY <1>2, <1>4 DEF ATimetable, DocFields
<1>6. Reads(w, doc)
  BY <1>4, <1>5 DEF Reads
<1>7. /\ Advances /\ \A v \in Weeks : v # w => timetable'[v] = timetable[v]
      /\ \/ timetable' = timetable
         \/ /\ timetable'[w].lessons = doc.lessons
            /\ timetable'[w].by.kind = "first" \/ timetable[w].rev = doc.rev
  BY <1>1, <1>3, <1>4, <1>5, PutViewWrites
<1>8. Accumulates
  <2>1. CASE timetable' = timetable
    BY <2>1 DEF Accumulates
  <2>2. CASE timetable'[w].lessons = doc.lessons /\ timetable'[w].by.kind = "first"
    BY <1>4, <1>7, <2>2, PutAccumulates
  <2>3. CASE timetable'[w].lessons = doc.lessons /\ timetable[w].rev = doc.rev
    BY <1>4, <1>6, <1>7, <2>3, PutAccumulates DEF Reads
  <2>4. QED
    BY <1>7, <2>1, <2>2, <2>3
<1>9. view' = [week |-> w, doc |-> doc]
  BY <1>1, <1>3, <1>4 DEF Shown
<1>10. Shown'
  <2>1. Reads(w, doc)'
    BY <1>4, <1>6, <1>7, ReadsStay
  <2>2. QED
    BY <1>4, <1>9, <2>1, ViewIs
<1>11. From(tasks', tasks, {})
  BY <1>3, FromSame DEF ReadsAreStored
<1>12. ReadsAreStored'
  BY <1>3, <1>7, <1>10, <1>11, ViewWrites
<1>13. QED
  BY <1>8, <1>12

LEMMA LinkLessonStep ==
    ASSUME ReadsAreStored, NEW i \in DOMAIN tasks, LinkLesson(i)
    PROVE  ReadsAreStored' /\ Accumulates
<1>1. PICK w, d, cell, u : /\ w = view.week /\ d = view.doc
                           /\ cell = tasks[i].slot.cell /\ u = tasks[i].uid
  OBVIOUS
<1>2. PICK lessons : lessons = [d.lessons EXCEPT ![cell] = u]
  OBVIOUS
<1>3. PICK doc : doc = [d EXCEPT !.lessons = lessons]
  OBVIOUS
<1>4. /\ tasks[i].pc = "link" /\ UNCHANGED queue /\ tasks' = RemoveAt(tasks, i)
      /\ PutView(doc, "link", u)
      /\ view' = [view EXCEPT !.doc = IF timetable' = timetable THEN doc ELSE timetable'[w]]
  BY <1>1, <1>2, <1>3 DEF LinkLesson, EndTask
<1>5. StoredWeeks /\ Shown /\ w \in Weeks /\ Reads(w, d) /\ ATimetable(d)
  BY <1>1, <1>4, ListedTask DEF ReadsAreStored, TaskReads, Shown, Reads
<1>6. /\ d.lessons = [c \in Cells |-> d.lessons[c]] /\ lessons = [c \in Cells |-> lessons[c]]
      /\ \A c \in Cells : lessons[c] # d.lessons[c] => lessons[c] = u
  BY <1>2, <1>5 DEF ATimetable
<1>7. ATimetable(doc) /\ doc.rev = d.rev /\ doc.lessons = lessons
  BY <1>3, <1>5, <1>6 DEF ATimetable, DocFields
<1>8. /\ Advances /\ \A v \in Weeks : v # w => timetable'[v] = timetable[v]
      /\ \/ timetable' = timetable /\ doc.rev # timetable[w].rev
         \/ /\ doc.rev < timetable'[w].rev /\ timetable'[w].lessons = doc.lessons /\ timetable' # timetable
            /\ \/ timetable'[w].by.kind = "first"
               \/ timetable'[w].by.kind = "link" /\ timetable'[w].by.uid = u /\ timetable[w].rev = doc.rev
  BY <1>1, <1>4, <1>5, <1>7, PutViewWrites
<1>9. Accumulates
  <2>1. CASE timetable' = timetable
    BY <2>1 DEF Accumulates
  <2>2. CASE timetable'[w].lessons = doc.lessons /\ timetable'[w].by.kind = "first"
    BY <1>5, <1>8, <2>2, PutAccumulates
  <2>3. CASE /\ timetable'[w].lessons = doc.lessons
             /\ timetable'[w].by.kind = "link" /\ timetable'[w].by.uid = u /\ timetable[w].rev = doc.rev
    <3>1. timetable[w].lessons = d.lessons
      BY <1>5, <1>7, <2>3 DEF Reads
    <3>2. QED
      BY <1>5, <1>6, <1>7, <1>8, <2>3, <3>1, PutAccumulates
  <2>4. QED
    BY <1>8, <2>1, <2>2, <2>3
<1>10. PICK e : e = IF timetable' = timetable THEN doc ELSE timetable'[w]
  OBVIOUS
<1>11. view' = [week |-> w, doc |-> e]
  BY <1>1, <1>4, <1>5, <1>10 DEF Shown
<1>12. Reads(w, e)'
  <2>1. CASE timetable' = timetable
    <3>1. doc.rev # timetable[w].rev
      BY <1>8, <2>1
    <3>2. Reads(w, doc)
      BY <1>5, <1>7, <3>1 DEF Reads
    <3>3. QED
      BY <1>5, <1>8, <1>10, <2>1, <3>2, ReadsStay
  <2>2. CASE timetable' # timetable
    BY <1>5, <1>8, <1>10, <2>2 DEF Advances, StoredWeeks, Reads, ATimetable
  <2>3. QED
    BY <2>1, <2>2
<1>13. Shown'
  BY <1>5, <1>11, <1>12, ViewIs
<1>14. From(tasks', tasks, {})
  BY <1>4, FromRemove DEF ReadsAreStored
<1>15. ReadsAreStored'
  BY <1>4, <1>8, <1>13, <1>14, ViewWrites
<1>16. QED
  BY <1>9, <1>15

LEMMA UnlinkGoneStep ==
    ASSUME ReadsAreStored, NEW i \in DOMAIN tasks, UnlinkGone(i)
    PROVE  ReadsAreStored' /\ Accumulates
<1>1. PICK t : t = tasks[i]
  OBVIOUS
<1> DEFINE Rest(w) == [c \in Cells |-> IF t.seen[w].lessons[c] \in t.victims THEN None
                                       ELSE t.seen[w].lessons[c]]
<1>2. PICK by : by = By("cleanup", None, t.victims)
  OBVIOUS
<1>3. /\ t.pc = "unlink" /\ UNCHANGED <<view, queue>>
      /\ \/ tasks' = RemoveAt(tasks, i) /\ UNCHANGED timetable
         \/ \E w \in Weeks : /\ PutTimetable(w, t.seen[w].rev, Rest(w), t.seen[w].subjects, by)
                             /\ tasks' = [tasks EXCEPT ![i].seen[w].lessons = Rest(w)]
  BY <1>1, <1>2 DEF UnlinkGone, EndTask
<1>4. TaskReads(t) /\ ATask(t) /\ ReadAll(t.seen) /\ StoredWeeks
  BY <1>1, <1>3, ListedTask DEF TaskReads, ReadsAreStored
<1>5. CASE tasks' = RemoveAt(tasks, i) /\ UNCHANGED timetable
  BY <1>3, <1>5, TaskEnded
<1>6. ASSUME NEW w \in Weeks,
             PutTimetable(w, t.seen[w].rev, Rest(w), t.seen[w].subjects, by),
             tasks' = [tasks EXCEPT ![i].seen[w].lessons = Rest(w)]
      PROVE  ReadsAreStored' /\ Accumulates
  <2>1. PICK doc, rest : doc = t.seen[w] /\ rest = Rest(w)
    OBVIOUS
  <2>2. /\ rest = [c \in Cells |-> rest[c]]
        /\ \A c \in Cells : rest[c] # doc.lessons[c] => doc.lessons[c] \in t.victims
    BY <2>1
  <2>3. /\ PutTimetable(w, doc.rev, rest, doc.subjects, by)
        /\ tasks' = [tasks EXCEPT ![i].seen[w].lessons = rest]
    BY <1>6, <2>1
  <2> HIDE DEF Rest
  <2>4. /\ Advances
        /\ timetable[w].rev = doc.rev /\ doc.rev \in Nat /\ doc.rev < timetable'[w].rev
        /\ timetable'[w].lessons = rest /\ timetable'[w].by = by
        /\ \A v \in Weeks : v # w => timetable'[v] = timetable[v]
    BY <1>4, <2>2, <2>3, PutAdvances
  <2>5. Reads(w, doc) /\ ATimetable(doc) /\ timetable[w].lessons = doc.lessons
    BY <1>4, <2>1, <2>4 DEF ReadAll, Reads
  <2>6. by.kind = "cleanup" /\ by.gone = t.victims
    BY <1>2, ByFields
  <2>7. Accumulates
    BY <1>4, <2>2, <2>4, <2>5, <2>6, PutAccumulates
  <2>8. PICK d : d = [doc EXCEPT !.lessons = rest]
    OBVIOUS
  <2>9. PICK s : s = [t.seen EXCEPT ![w] = d]
    OBVIOUS
  <2>10. PICK k : k = [t EXCEPT !.seen = s]
    OBVIOUS
  <2>11. ATimetable(d) /\ d.rev = doc.rev
    BY <2>2, <2>5, <2>8 DEF ATimetable, DocFields
  <2>12. Reads(w, d)'
    BY <2>4, <2>11, ReadBefore
  <2>13. ReadAll(s)'
    <3>1. s = [v \in Weeks |-> s[v]] /\ s[w] = d /\ \A v \in Weeks : v # w => s[v] = t.seen[v]
      BY <1>4, <2>9 DEF ReadAll
    <3>2. ASSUME NEW v \in Weeks, v # w PROVE Reads(v, s[v])'
      <4>1. PICK e : e = t.seen[v]
        OBVIOUS
      <4>2. Reads(v, e)'
        BY <1>4, <2>4, <4>1, ReadsStay DEF ReadAll
      <4>3. QED
        BY <3>1, <3>2, <4>1, <4>2
    <3>3. QED
      BY <2>12, <3>1, <3>2 DEF ReadAll
  <2>14. ATask(k) /\ k.seen = s /\ k.pc = t.pc /\ k.kind = t.kind
    BY <1>4, <2>10 DEF ATask, TaskFields
  <2>15. Shown => Shown'
    BY <1>3, <1>4, <2>4, ShownStays
  <2>16. TaskReads(k)'
    BY <1>3, <1>4, <2>13, <2>14, <2>15 DEF TaskReads
  <2>17. tasks' = [tasks EXCEPT ![i] = k]
    <3>1. [t.seen EXCEPT ![w].lessons = rest] = s
      BY <1>4, <2>1, <2>8, <2>9 DEF ReadAll
    <3>2. tasks' = [tasks EXCEPT ![i] = [tasks[i] EXCEPT !.seen = [tasks[i].seen EXCEPT ![w].lessons = rest]]]
      BY <2>3
    <3>3. QED
      BY <1>1, <2>10, <3>1, <3>2
  <2>18. PICK T : T = {k}
    OBVIOUS
  <2>19. From(tasks', tasks, T) /\ \A r \in T : TaskReads(r)'
    BY <2>16, <2>17, <2>18, FromReplace DEF ReadsAreStored
  <2>20. From(queue', queue, {}) /\ view' = view
    BY <1>3, FromSame DEF ReadsAreStored
  <2>21. ReadsAreStored'
    BY <2>4, <2>19, <2>20, NextReads
  <2>22. QED
    BY <2>7, <2>21
<1>7. QED
  BY <1>3, <1>5, <1>6

----------------------------------------------------------------------------
(* Every step.                                                              *)

LEMMA LessonsStep == ReadsAreStored /\ LessonsNext => ReadsAreStored' /\ Accumulates
<1> SUFFICES ASSUME ReadsAreStored, LessonsNext PROVE ReadsAreStored' /\ Accumulates
  OBVIOUS
<1>1. CASE UserStep
  <2>1. ASSUME NEW p \in Paths, NEW u \in Uids, NewNotice(p, u) PROVE ReadsAreStored' /\ Accumulates
    BY <2>1, CreateDraftStep DEF NewNotice
  <2>2. QED
    BY <1>1, <2>1, CreateLessonStep, EditFileStep, DeleteFileStep, RenameFileStep, SetNoticePublishedStep,
       DeleteNoticeStep, SetCellStep, CleanupStep DEF UserStep
<1>2. CASE HandlerStep
  BY <1>2, SyncNoticeFromFileStep, LookUpStep, WriteNoticeStep, EndingStep, ListStaleNoticesStep,
     RetireNoticesStep, TrashFileStep, LinkLessonStep, ListDuplicatesStep, ListOrphansStep, ListLinksStep,
     UnlinkGoneStep, PlaceReadStep, PlaceTargetStep, PlaceWriteStep, PlaceUnlinkStep, RenderTimetableStep
     DEF HandlerStep
<1>3. QED
  BY <1>1, <1>2 DEF LessonsNext

LEMMA ReadsAreStoredStep == ReadsAreStored /\ [LessonsNext]_lessonVars => ReadsAreStored'
<1>1. ReadsAreStored /\ UNCHANGED lessonVars => ReadsAreStored'
  BY NoTask DEF lessonVars
<1>2. QED
  BY <1>1, LessonsStep

\* Placements accumulate on every timetable: no put of a placement, of the view, of a new lesson
\* or of the cleanup takes out of its cell a lesson that is not its own to move, replace or clean
\* up (NoticeController.ts), however many weeks, lessons, handlers and views there are.
THEOREM LessonsKeepTheirCells == LessonsSpec => PlacementsAccumulate
<1>1. ReadsAreStored /\ [LessonsNext]_lessonVars => [Accumulates]_lessonVars
  BY LessonsStep
<1>2. LessonsSpec => [][Accumulates]_lessonVars
  BY <1>1, ReadsAreStoredInit, ReadsAreStoredStep, PTL DEF LessonsSpec
<1>3. QED
  BY <1>2 DEF PlacementsAccumulate, Accumulates

----------------------------------------------------------------------------
(* Routines: the invariant. *)

SaveSet ==
    [item : Items, on : BOOLEAN, list : Nat, at : {"queued", "again", "read"}, got : SUBSET Items]
DrawingSet == [view : Views, at : {"list", "days", "draw"}, items : SUBSET Items, on : SUBSET Items]
ListSet == [view : Views, items : SUBSET Items, on : SUBSET Items]

RoutineTypes ==
    /\ routine \in SUBSET Items /\ ticks \in SUBSET Items /\ running \in BOOLEAN
    /\ page \in {"none", "hub", "routines"} /\ opened \in 0..MaxViews /\ (page = "routines" => opened > 0)
    /\ queues \in [Views -> Seq(SaveSet)] /\ drawing \in Seq(DrawingSet) /\ lists \in Seq(ListSet)
    /\ liveTimer \in BOOLEAN /\ unheard \in BOOLEAN /\ overlapped \in BOOLEAN
    /\ tapped \in [Items -> {Off, On, Unknown}] /\ unsure \in SUBSET Items

\* A save that shows on a list of the screen shows on one of its own checklist.
OnOwnLists(qs, ls) ==
    \A v \in Views : \A k \in DOMAIN qs[v] :
        qs[v][k].list # 0 =>
            /\ qs[v][k].list \in DOMAIN ls /\ ls[qs[v][k].list].view = v
            /\ qs[v][k].item \in ls[qs[v][k].list].items

\* What a save has drawn is what is stored: another save's write makes it draw again.
ReadIsStored ==
    \A v \in Views : \A k \in DOMAIN queues[v] : queues[v][k].at = "read" => queues[v][k].got = ticks

\* What the last tap on an item asked for is the last of its saves, or stored.
Asked(qs, i, t, in) ==
    t # Unknown =>
      /\ \A v, w \in Views : (\E j \in DOMAIN qs[v] : qs[v][j].item = i)
                               /\ (\E k \in DOMAIN qs[w] : qs[w][k].item = i) => v = w
      /\ \A v \in Views : \A k \in DOMAIN qs[v] :
           (qs[v][k].item = i /\ \A j \in DOMAIN qs[v] : qs[v][j].item = i => j <= k) => t = Asks(qs[v][k].on)
      /\ (\A v \in Views : \A k \in DOMAIN qs[v] : qs[v][k].item # i) => t = Asks(in)
AllAsked == \A i \in Items : Asked(queues, i, tapped[i], i \in ticks)

\* An item on screen, in a list of checklist v: as it is stored, or as the one save of it will leave
\* it; nothing is said when there are more.
Mine(q, k, i) == k \in DOMAIN q /\ q[k].list = 1 /\ q[k].item = i
Pictured(q, i, shown, in) ==
    \/ \E j, k \in DOMAIN q : j # k /\ Mine(q, j, i) /\ Mine(q, k, i)
    \/ shown # in /\ \E k \in DOMAIN q : Mine(q, k, i) /\ q[k].on = shown
    \/ shown = in /\ \A k \in DOMAIN q : ~Mine(q, k, i)

\* One list is drawn at a time, unless reloads overlapped.
OneDrawing ==
    ~overlapped => /\ Len(drawing) + Len(lists) <= 1
\* A checklist nothing has happened to since it was read shows what is stored.
Undisturbed == page = "routines" /\ running /\ ~unheard /\ ~liveTimer /\ ~overlapped
Drawn ==
    Undisturbed =>
      /\ drawing # <<>> =>
           /\ drawing[1].at # "list" => drawing[1].items = routine /\ routine # {}
           /\ drawing[1].at = "draw" => drawing[1].on = ticks \cap routine
      /\ drawing = <<>> => (lists = <<>> <=> routine = {})
      /\ lists # <<>> =>
           /\ lists[1].items = routine
           /\ \A i \in routine \ unsure :
                Pictured(queues[lists[1].view], i, i \in lists[1].on, i \in ticks)
ListsInOrder ==
    /\ \A n \in DOMAIN lists : lists[n].on \subseteq lists[n].items
    /\ \A n \in DOMAIN drawing : drawing[n].at = "draw" => drawing[n].on \subseteq drawing[n].items
RoutinesInv ==
    /\ RoutineTypes /\ OnOwnLists(queues, lists) /\ ReadIsStored /\ AllAsked
    /\ OneDrawing /\ ListsInOrder /\ Drawn

----------------------------------------------------------------------------
(* Lists and saves.                                                          *)

LEMMA PopFirst ==
    ASSUME NEW S, NEW q \in Seq(S), 1 \in DOMAIN q
    PROVE  /\ RemoveAt(q, 1) \in Seq(S) /\ Len(RemoveAt(q, 1)) = Len(q) - 1
           /\ DOMAIN RemoveAt(q, 1) = 1..(Len(q) - 1) /\ DOMAIN q = 1..Len(q) /\ Len(q) \in Nat \ {0}
           /\ \A k \in 1..(Len(q) - 1) : RemoveAt(q, 1)[k] = q[k + 1]
<1>1. PICK n \in Nat : n = Len(q) /\ DOMAIN q = 1..n /\ n > 0
  OBVIOUS
<1>2. SubSeq(q, 1, 0) = <<>>
  OBVIOUS
<1>3. SubSeq(q, 2, n) \in Seq(S) /\ Len(SubSeq(q, 2, n)) = n - 1 /\ \A k \in 1..(n-1) : SubSeq(q, 2, n)[k] = q[k+1]
  BY <1>1
<1>4. RemoveAt(q, 1) = <<>> \o SubSeq(q, 2, n)
  BY <1>1, <1>2 DEF RemoveAt
<1>5. RemoveAt(q, 1) = SubSeq(q, 2, n)
  BY <1>3, <1>4
<1>6. PICK r : r = SubSeq(q, 2, n)
  OBVIOUS
<1>7. r \in Seq(S) /\ Len(r) = n - 1 /\ DOMAIN r = 1..(n-1) /\ \A k \in 1..(n-1) : r[k] = q[k+1]
  BY <1>1, <1>3, <1>6
<1>8. RemoveAt(q, 1) = r /\ n \in Nat \ {0}
  BY <1>1, <1>5, <1>6
<1>9. QED
  BY <1>1, <1>7, <1>8

LEMMA RemoveOne ==
    ASSUME NEW S, NEW q \in Seq(S), NEW i \in DOMAIN q
    PROVE  RemoveAt(q, i) \in Seq(S) /\ Len(RemoveAt(q, i)) = Len(q) - 1
<1>1. PICK n \in Nat : n = Len(q) /\ DOMAIN q = 1..n /\ i \in 1..n
  OBVIOUS
<1>2. PICK a : a = SubSeq(q, 1, i-1)
  OBVIOUS
<1>3. PICK b : b = SubSeq(q, i+1, Len(q))
  OBVIOUS
<1>4. a \in Seq(S) /\ Len(a) = i - 1
  BY <1>1, <1>2
<1>5. b \in Seq(S) /\ Len(b) = n - i
  BY <1>1, <1>3
<1>6. RemoveAt(q, i) = a \o b
  BY <1>2, <1>3 DEF RemoveAt
<1>7. QED
  BY <1>1, <1>4, <1>5, <1>6

LEMMA RemovedFrom ==
    ASSUME NEW S, NEW q \in Seq(S), NEW i \in DOMAIN q
    PROVE  \A k \in DOMAIN RemoveAt(q, i) : \E j \in DOMAIN q : RemoveAt(q, i)[k] = q[j]
<1>1. PICK n \in Nat : n = Len(q) /\ DOMAIN q = 1..n /\ i \in 1..n
  OBVIOUS
<1>2. PICK a : a = SubSeq(q, 1, i-1)
  OBVIOUS
<1>3. PICK b : b = SubSeq(q, i+1, Len(q))
  OBVIOUS
<1>4. a \in Seq(S) /\ Len(a) = i - 1 /\ \A k \in 1..(i-1) : a[k] = q[k]
  BY <1>1, <1>2
<1>5. b \in Seq(S) /\ Len(b) = n - i /\ \A k \in 1..(n-i) : b[k] = q[i+k]
  BY <1>1, <1>3
<1>6. RemoveAt(q, i) = a \o b
  BY <1>2, <1>3 DEF RemoveAt
<1>7. DOMAIN (a \o b) = 1..(n-1)
  BY <1>1, <1>4, <1>5
<1>8. ASSUME NEW k \in 1..(n-1) PROVE (a \o b)[k] = q[k] \/ (a \o b)[k] = q[k+1]
  <2>1. CASE k < i
    BY <1>1, <1>4, <1>5, <2>1
  <2>2. CASE ~(k < i)
    <3>1. (a \o b)[k] = b[k - (i - 1)] /\ k - (i - 1) \in 1..(n-i) /\ i + (k - (i - 1)) = k + 1
      BY <1>1, <1>4, <1>5, <2>2
    <3>2. QED
      BY <1>5, <3>1
  <2>3. QED
    BY <2>1, <2>2
<1>9. \A k \in 1..(n-1) : k \in DOMAIN q /\ k + 1 \in DOMAIN q
  BY <1>1
<1>10. QED
  BY <1>6, <1>7, <1>8, <1>9

\* The same saves on the same items, at the same places of their queues.
SameSaves(qs, new) ==
    \A v \in Views :
        /\ DOMAIN new[v] = DOMAIN qs[v]
        /\ \A k \in DOMAIN qs[v] : new[v][k].item = qs[v][k].item /\ new[v][k].on = qs[v][k].on

LEMMA AskedAlike ==
    ASSUME NEW qs, NEW new, SameSaves(qs, new), NEW i, NEW t, NEW in, Asked(qs, i, t, in)
    PROVE  Asked(new, i, t, in)
<1> SUFFICES ASSUME t # Unknown
             PROVE  /\ \A v, w \in Views : (\E j \in DOMAIN new[v] : new[v][j].item = i)
                         /\ (\E k \in DOMAIN new[w] : new[w][k].item = i) => v = w
                    /\ \A v \in Views : \A k \in DOMAIN new[v] :
                         (new[v][k].item = i /\ \A j \in DOMAIN new[v] : new[v][j].item = i => j <= k)
                           => t = Asks(new[v][k].on)
                    /\ (\A v \in Views : \A k \in DOMAIN new[v] : new[v][k].item # i) => t = Asks(in)
  BY DEF Asked
<1> USE DEF SameSaves, Asked
<1>1. \A v, w \in Views : (\E j \in DOMAIN new[v] : new[v][j].item = i)
                            /\ (\E k \in DOMAIN new[w] : new[w][k].item = i) => v = w
  OBVIOUS
<1>2. ASSUME NEW v \in Views, NEW k \in DOMAIN new[v], new[v][k].item = i,
             \A j \in DOMAIN new[v] : new[v][j].item = i => j <= k
      PROVE  t = Asks(new[v][k].on)
  <2>1. k \in DOMAIN qs[v] /\ qs[v][k].item = i /\ new[v][k].on = qs[v][k].on
    BY <1>2
  <2>2. \A j \in DOMAIN qs[v] : qs[v][j].item = i => j <= k
    BY <1>2
  <2>3. t = Asks(qs[v][k].on)
    BY <2>1, <2>2
  <2>4. QED
    BY <2>1, <2>3
<1>3. (\A v \in Views : \A k \in DOMAIN new[v] : new[v][k].item # i) => t = Asks(in)
  OBVIOUS
<1>4. QED
  BY <1>1, <1>2, <1>3

\* The first save of a queue is through: it is stored, or it was of another item.
LEMMA AskedPop ==
    ASSUME NEW qs, qs \in [Views -> Seq(SaveSet)], NEW v \in Views, 1 \in DOMAIN qs[v], NEW i, NEW t, NEW in, NEW was,
           Asked(qs, i, t, was), qs[v][1].item # i => in = was, qs[v][1].item = i => in = qs[v][1].on,
           NEW new, new \in [Views -> Seq(SaveSet)], \A w \in Views \ {v} : new[w] = qs[w], new[v] = RemoveAt(qs[v], 1)
    PROVE  Asked(new, i, t, in)
<1> SUFFICES ASSUME t # Unknown
             PROVE  /\ \A u, w \in Views : (\E j \in DOMAIN new[u] : new[u][j].item = i)
                         /\ (\E k \in DOMAIN new[w] : new[w][k].item = i) => u = w
                    /\ \A w \in Views : \A k \in DOMAIN new[w] :
                         (new[w][k].item = i /\ \A j \in DOMAIN new[w] : new[w][j].item = i => j <= k)
                           => t = Asks(new[w][k].on)
                    /\ (\A w \in Views : \A k \in DOMAIN new[w] : new[w][k].item # i) => t = Asks(in)
  BY DEF Asked
<1>1. PICK n : /\ n = Len(qs[v]) /\ n \in Nat \ {0} /\ DOMAIN qs[v] = 1..n /\ DOMAIN new[v] = 1..(n-1)
               /\ \A k \in 1..(n-1) : new[v][k] = qs[v][k + 1]
  <2>1. qs[v] \in Seq(SaveSet)
    OBVIOUS
  <2>2. PICK q \in Seq(SaveSet) : q = qs[v]
    BY <2>1
  <2>3. /\ DOMAIN RemoveAt(q, 1) = 1..(Len(q) - 1) /\ DOMAIN q = 1..Len(q) /\ Len(q) \in Nat \ {0}
        /\ \A k \in 1..(Len(q) - 1) : RemoveAt(q, 1)[k] = q[k + 1]
    BY <2>2, PopFirst
  <2>4. new[v] = RemoveAt(q, 1)
    BY <2>2
  <2>5. QED
    BY <2>2, <2>3, <2>4
<1>2. \A k \in 1..(n-1) : k + 1 \in 1..n
  BY <1>1
<1>3. \A u \in Views : (\E j \in DOMAIN new[u] : new[u][j].item = i) => \E j \in DOMAIN qs[u] : qs[u][j].item = i
  <2>1. ASSUME NEW u \in Views, NEW j \in DOMAIN new[u], new[u][j].item = i
        PROVE  \E k \in DOMAIN qs[u] : qs[u][k].item = i
    <3>1. CASE u = v
      BY <1>1, <1>2, <2>1, <3>1
    <3>2. CASE u # v
      BY <2>1, <3>2
    <3>3. QED
      BY <3>1, <3>2
  <2>2. QED
    BY <2>1
<1>4. \A u, w \in Views : (\E j \in DOMAIN new[u] : new[u][j].item = i)
                            /\ (\E k \in DOMAIN new[w] : new[w][k].item = i) => u = w
  BY <1>3 DEF Asked
<1>5. ASSUME NEW w \in Views, NEW k \in DOMAIN new[w], new[w][k].item = i,
             \A j \in DOMAIN new[w] : new[w][j].item = i => j <= k
      PROVE  t = Asks(new[w][k].on)
  <2>1. CASE w # v
    BY <1>5, <2>1 DEF Asked
  <2>2. CASE w = v
    <3>1. k \in 1..(n-1) /\ k + 1 \in DOMAIN qs[v] /\ qs[v][k + 1] = new[v][k] /\ qs[v][k + 1].item = i
      BY <1>1, <1>2, <1>5, <2>2
    <3>2. ASSUME NEW j \in DOMAIN qs[v], qs[v][j].item = i PROVE j <= k + 1
      <4>1. CASE j = 1
        BY <3>1, <4>1
      <4>2. CASE j # 1
        <5>1. j - 1 \in 1..(n-1) /\ j \in Nat /\ (j - 1) + 1 = j
          BY <1>1, <4>2
        <5>2. new[v][j - 1].item = i
          BY <1>1, <3>2, <5>1
        <5>3. j - 1 <= k
          BY <1>1, <1>5, <2>2, <5>1, <5>2
        <5>4. QED
          BY <3>1, <5>1, <5>3
      <4>3. QED
        BY <4>1, <4>2
    <3>3. t = Asks(qs[v][k + 1].on)
      BY <3>1, <3>2 DEF Asked
    <3>4. QED
      BY <2>2, <3>1, <3>3
  <2>3. QED
    BY <2>1, <2>2
<1>6. ASSUME \A w \in Views : \A k \in DOMAIN new[w] : new[w][k].item # i PROVE t = Asks(in)
  <2>1. ASSUME NEW w \in Views, NEW k \in DOMAIN qs[w], qs[w][k].item = i PROVE w = v /\ k = 1
    <3>1. w = v
      BY <1>6, <2>1
    <3>2. k = 1
      <4>1. CASE k # 1
        <5>1. k - 1 \in 1..(n-1) /\ (k - 1) + 1 = k
          BY <1>1, <2>1, <3>1, <4>1
        <5>2. new[v][k - 1].item = i
          BY <1>1, <2>1, <3>1, <5>1
        <5>3. QED
          BY <1>1, <1>6, <5>1, <5>2
      <4>2. QED
        BY <4>1
    <3>3. QED
      BY <3>1, <3>2
  <2>2. CASE qs[v][1].item = i
    <3>1. \A j \in DOMAIN qs[v] : qs[v][j].item = i => j <= 1
      BY <2>1
    <3>2. t = Asks(qs[v][1].on)
      BY <2>2, <3>1 DEF Asked
    <3>3. QED
      BY <2>2, <3>2
  <2>3. CASE qs[v][1].item # i
    <3>1. \A w \in Views : \A k \in DOMAIN qs[w] : qs[w][k].item # i
      BY <2>1, <2>3
    <3>2. QED
      BY <2>3, <3>1 DEF Asked
  <2>4. QED
    BY <2>2, <2>3
<1>7. QED
  BY <1>4, <1>5, <1>6

LEMMA LastOne ==
    ASSUME NEW S, NEW q \in Seq(S), NEW s \in S
    PROVE  /\ Append(q, s) \in Seq(S) /\ DOMAIN q = 1..Len(q) /\ Len(q) \in Nat
           /\ DOMAIN Append(q, s) = 1..(Len(q) + 1) /\ Append(q, s)[Len(q) + 1] = s
           /\ Len(Append(q, s)) = Len(q) + 1
           /\ \A k \in 1..Len(q) : Append(q, s)[k] = q[k]
  OBVIOUS

\* One more save, where the item has no others but in this queue.
LEMMA AskedAppend ==
    ASSUME NEW qs, qs \in [Views -> Seq(SaveSet)], NEW v \in Views, NEW s \in SaveSet,
           NEW new, \A w \in Views \ {v} : new[w] = qs[w], new[v] = Append(qs[v], s),
           NEW i, NEW t, NEW was, NEW in, Asked(qs, i, was, in),
           s.item # i => t = was,
           s.item = i => \/ t = Unknown
                         \/ /\ t = Asks(s.on)
                            /\ \A w \in Views \ {v} : \A k \in DOMAIN qs[w] : qs[w][k].item # i
    PROVE  Asked(new, i, t, in)
<1> SUFFICES ASSUME t # Unknown
             PROVE  /\ \A u, w \in Views : (\E j \in DOMAIN new[u] : new[u][j].item = i)
                         /\ (\E k \in DOMAIN new[w] : new[w][k].item = i) => u = w
                    /\ \A w \in Views : \A k \in DOMAIN new[w] :
                         (new[w][k].item = i /\ \A j \in DOMAIN new[w] : new[w][j].item = i => j <= k)
                           => t = Asks(new[w][k].on)
                    /\ (\A w \in Views : \A k \in DOMAIN new[w] : new[w][k].item # i) => t = Asks(in)
  BY DEF Asked
<1>1. PICK n : /\ n = Len(qs[v]) /\ n \in Nat /\ DOMAIN qs[v] = 1..n /\ DOMAIN new[v] = 1..(n+1)
               /\ new[v][n+1] = s /\ \A k \in 1..n : new[v][k] = qs[v][k]
  <2>1. qs[v] \in Seq(SaveSet) /\ new[v] = Append(qs[v], s)
    OBVIOUS
  <2>2. QED
    BY <2>1, LastOne
<1>2. \A w \in Views \ {v} : new[w] = qs[w]
  OBVIOUS
<1>3. n + 1 \in DOMAIN new[v] /\ \A k \in 1..n : k \in DOMAIN new[v] /\ k <= n
  BY <1>1
<1>4. \A k \in DOMAIN new[v] : k = n + 1 \/ k \in 1..n
  BY <1>1
<1>5. CASE s.item = i
  <2>1. t = Asks(s.on) /\ \A w \in Views \ {v} : \A k \in DOMAIN new[w] : new[w][k].item # i
    BY <1>2, <1>5
  <2>2. ASSUME NEW k \in DOMAIN new[v], \A j \in DOMAIN new[v] : new[v][j].item = i => j <= k PROVE k = n + 1
    <3>1. n + 1 <= k
      BY <1>1, <1>3, <1>5, <2>2
    <3>2. QED
      BY <1>1, <3>1
  <2>3. QED
    BY SMTT(60), <1>1, <1>3, <1>5, <2>1, <2>2
<1>6. CASE s.item # i
  <2>1. \A w \in Views : \A k \in DOMAIN new[w] : new[w][k].item = i =>
          k \in DOMAIN qs[w] /\ qs[w][k] = new[w][k]
    BY <1>1, <1>2, <1>4, <1>6
  <2>2. \A w \in Views : \A k \in DOMAIN qs[w] : k \in DOMAIN new[w] /\ qs[w][k] = new[w][k]
    BY <1>1, <1>2, <1>3
  <2>3. t = was
    BY <1>6
  <2>4. \A u, w \in Views : (\E j \in DOMAIN new[u] : new[u][j].item = i)
                              /\ (\E k \in DOMAIN new[w] : new[w][k].item = i) => u = w
    BY <2>1, <2>3 DEF Asked
  <2>5. ASSUME NEW w \in Views, NEW k \in DOMAIN new[w], new[w][k].item = i,
               \A j \in DOMAIN new[w] : new[w][j].item = i => j <= k
        PROVE  t = Asks(new[w][k].on)
    <3>1. k \in DOMAIN qs[w] /\ qs[w][k] = new[w][k] /\ \A j \in DOMAIN qs[w] : qs[w][j].item = i => j <= k
      BY <2>1, <2>2, <2>5
    <3>2. t = Asks(qs[w][k].on)
      BY <2>3, <2>5, <3>1 DEF Asked
    <3>3. QED
      BY <3>1, <3>2
  <2>6. (\A w \in Views : \A k \in DOMAIN new[w] : new[w][k].item # i) => t = Asks(in)
    BY <2>2, <2>3 DEF Asked
  <2>7. QED
    BY <2>4, <2>5, <2>6
<1>7. QED
  BY <1>5, <1>6

----------------------------------------------------------------------------
(* The panel is emptied.                                                     *)

LEMMA SaveOffScreen ==
    ASSUME NEW s \in SaveSet
    PROVE  /\ [s EXCEPT !.list = 0] \in SaveSet /\ [s EXCEPT !.list = 0].list = 0
           /\ [s EXCEPT !.list = 0].item = s.item /\ [s EXCEPT !.list = 0].on = s.on
           /\ [s EXCEPT !.list = 0].at = s.at /\ [s EXCEPT !.list = 0].got = s.got
  BY DEF SaveSet

LEMMA OffScreenIsAlike ==
    ASSUME NEW qs, qs \in [Views -> Seq(SaveSet)]
    PROVE  /\ OffScreen(qs) \in [Views -> Seq(SaveSet)] /\ SameSaves(qs, OffScreen(qs))
           /\ \A v \in Views : \A k \in DOMAIN qs[v] :
                /\ OffScreen(qs)[v][k].list = 0 /\ OffScreen(qs)[v][k].at = qs[v][k].at
                /\ OffScreen(qs)[v][k].got = qs[v][k].got
<1>1. ASSUME NEW v \in Views, NEW k \in DOMAIN qs[v]
      PROVE  /\ OffScreen(qs)[v][k] \in SaveSet
             /\ OffScreen(qs)[v][k].item = qs[v][k].item /\ OffScreen(qs)[v][k].on = qs[v][k].on
             /\ OffScreen(qs)[v][k].list = 0 /\ OffScreen(qs)[v][k].at = qs[v][k].at
             /\ OffScreen(qs)[v][k].got = qs[v][k].got
  <2>1. qs[v][k] \in SaveSet
    OBVIOUS
  <2>2. PICK s \in SaveSet : s = qs[v][k]
    BY <2>1
  <2>3. OffScreen(qs)[v][k] = [s EXCEPT !.list = 0]
    BY <2>2 DEF OffScreen
  <2>4. QED
    BY <2>2, <2>3, SaveOffScreen
<1>2. ASSUME NEW v \in Views
      PROVE  OffScreen(qs)[v] \in Seq(SaveSet) /\ DOMAIN OffScreen(qs)[v] = DOMAIN qs[v]
  <2>1. PICK n \in Nat : DOMAIN qs[v] = 1..n
    OBVIOUS
  <2>2. OffScreen(qs)[v] = [k \in 1..n |-> OffScreen(qs)[v][k]]
    BY <2>1 DEF OffScreen
  <2>3. OffScreen(qs)[v] \in [1..n -> SaveSet]
    BY <1>1, <2>1, <2>2
  <2>4. QED
    BY <2>1, <2>3
<1>3. OffScreen(qs) \in [Views -> Seq(SaveSet)]
  BY <1>2 DEF OffScreen
<1>4. QED
  BY <1>1, <1>2, <1>3 DEF SameSaves

LEMMA AfterEmptying ==
    ASSUME RoutinesInv, Emptied(queues), ticks' = ticks, tapped' = tapped
    PROVE  /\ queues' \in [Views -> Seq(SaveSet)] /\ lists' = <<>> /\ unsure' = {}
           /\ OnOwnLists(queues', lists') /\ ReadIsStored' /\ AllAsked'
<1>1. queues \in [Views -> Seq(SaveSet)]
  BY DEF RoutinesInv, RoutineTypes
<1>2. queues' = OffScreen(queues) /\ lists' = <<>> /\ unsure' = {}
  BY DEF Emptied
<1>3. /\ queues' \in [Views -> Seq(SaveSet)] /\ SameSaves(queues, queues')
      /\ \A v \in Views : \A k \in DOMAIN queues[v] :
           queues'[v][k].list = 0 /\ queues'[v][k].at = queues[v][k].at /\ queues'[v][k].got = queues[v][k].got
  BY <1>1, <1>2, OffScreenIsAlike
<1>4. \A v \in Views : DOMAIN queues'[v] = DOMAIN queues[v]
  BY <1>3 DEF SameSaves
<1>5. OnOwnLists(queues', lists')
  BY <1>3, <1>4 DEF OnOwnLists
<1>6. ReadIsStored'
  BY <1>3, <1>4 DEF RoutinesInv, ReadIsStored
<1>7. AllAsked'
  BY <1>3, AskedAlike DEF RoutinesInv, AllAsked
<1>8. QED
  BY <1>2, <1>3, <1>5, <1>6, <1>7

\* A reload begins.
LEMMA BeginListStep ==
    ASSUME RoutinesInv, NEW v \in Views, BeginList(v, queues),
           UNCHANGED <<routine, ticks, running, tapped>>, page' \in {"none", "hub", "routines"},
           opened' \in 0..MaxViews, page' = "routines" => opened' > 0, liveTimer' \in BOOLEAN, unheard' \in BOOLEAN
    PROVE  RoutinesInv'
<1>1. Emptied(queues) /\ overlapped' = (drawing # <<>>)
  BY DEF BeginList
<1>2. PICK d : d = [view |-> v, at |-> "list", items |-> {}, on |-> {}]
  OBVIOUS
<1>3. d \in DrawingSet /\ d.at = "list"
  BY <1>2 DEF DrawingSet
<1>4. drawing' = IF running THEN Append(drawing, d) ELSE drawing
  BY <1>2 DEF BeginList
<1>5. drawing \in Seq(DrawingSet)
  BY DEF RoutinesInv, RoutineTypes
<1>6. drawing' \in Seq(DrawingSet)
  BY <1>3, <1>4, <1>5
<1>7. /\ queues' \in [Views -> Seq(SaveSet)] /\ lists' = <<>> /\ unsure' = {}
      /\ OnOwnLists(queues', lists') /\ ReadIsStored' /\ AllAsked'
  BY <1>1, AfterEmptying
<1>8. RoutineTypes'
  BY <1>1, <1>6, <1>7 DEF RoutinesInv, RoutineTypes
<1>9. OneDrawing'
  <2>1. ASSUME ~overlapped' PROVE Len(drawing') + Len(lists') <= 1
    <3>1. drawing = <<>>
      BY <1>1, <2>1
    <3>2. drawing' = <<>> \/ drawing' = <<d>>
      BY <1>4, <3>1
    <3>3. Len(drawing') = 0 \/ Len(drawing') = 1
      BY <3>2
    <3>4. Len(lists') = 0
      BY <1>7
    <3>5. PICK m, n : m = Len(drawing') /\ n = Len(lists')
      OBVIOUS
    <3>6. m \in {0, 1} /\ n = 0
      BY <3>3, <3>4, <3>5
    <3>7. m + n <= 1
      BY <3>6
    <3>8. QED
      BY <3>5, <3>7
  <2>2. QED
    BY <2>1, Zenon DEF OneDrawing
<1>10. ListsInOrder'
  <2>1. ASSUME NEW n \in DOMAIN drawing', drawing'[n].at = "draw" PROVE drawing'[n].on \subseteq drawing'[n].items
    BY <1>3, <1>4, <1>5, <2>1, LastOne DEF RoutinesInv, ListsInOrder
  <2>2. QED
    BY <1>7, <2>1 DEF ListsInOrder
<1>11. Drawn'
  <2>1. ASSUME Undisturbed' PROVE drawing' # <<>> /\ drawing'[1].at = "list"
    <3>1. drawing = <<>> /\ running
      BY <1>1, <2>1 DEF Undisturbed
    <3>2. QED
      BY <1>3, <1>4, <3>1
  <2>2. QED
    BY <1>7, <2>1 DEF Drawn
<1>12. QED
  BY <1>7, <1>8, <1>9, <1>10, <1>11 DEF RoutinesInv

----------------------------------------------------------------------------
(* Frames.                                                                   *)

\* Steps that leave the panel, the saves and what is stored as they are.
LEMMA PanelStays ==
    ASSUME RoutinesInv, UNCHANGED <<queues, drawing, lists, tapped, unsure, overlapped, ticks>>,
           routine' \in SUBSET Items, running' \in BOOLEAN, liveTimer' \in BOOLEAN, unheard' \in BOOLEAN,
           page' \in {"none", "hub", "routines"}, opened' \in 0..MaxViews, page' = "routines" => opened' > 0,
           Undisturbed' => Undisturbed /\ routine' = routine
    PROVE  RoutinesInv'
<1>1. RoutineTypes'
  BY DEF RoutinesInv, RoutineTypes
<1>2. OnOwnLists(queues', lists') /\ ReadIsStored' /\ AllAsked' /\ OneDrawing' /\ ListsInOrder'
  BY DEF RoutinesInv, OnOwnLists, ReadIsStored, AllAsked, OneDrawing, ListsInOrder
<1>3. Drawn'
  BY DEF RoutinesInv, Drawn
<1>4. QED
  BY <1>1, <1>2, <1>3 DEF RoutinesInv

\* The panel is emptied for another page.
LEMMA EmptiedStep ==
    ASSUME RoutinesInv, Emptied(queues), UNCHANGED <<routine, ticks, drawing, overlapped, tapped>>,
           running' \in BOOLEAN, liveTimer' \in BOOLEAN, unheard' \in BOOLEAN,
           page' \in {"none", "hub"}, opened' \in 0..MaxViews
    PROVE  RoutinesInv'
<1>1. /\ queues' \in [Views -> Seq(SaveSet)] /\ lists' = <<>> /\ unsure' = {}
      /\ OnOwnLists(queues', lists') /\ ReadIsStored' /\ AllAsked'
  BY AfterEmptying
<1>2. RoutineTypes'
  BY <1>1 DEF RoutinesInv, RoutineTypes
<1>3. OneDrawing'
  <2>1. Len(drawing) \in Nat /\ Len(lists) \in Nat /\ Len(lists') = 0
    BY <1>1 DEF RoutinesInv, RoutineTypes
  <2>2. QED
    BY <2>1 DEF RoutinesInv, OneDrawing
<1>4. ListsInOrder'
  BY <1>1 DEF RoutinesInv, ListsInOrder
<1>5. Drawn'
  BY DEF Drawn, Undisturbed
<1>6. QED
  BY <1>1, <1>2, <1>3, <1>4, <1>5 DEF RoutinesInv

LEMMA RoutinesInvInit == RoutinesInit => RoutinesInv
<1> SUFFICES ASSUME RoutinesInit PROVE RoutinesInv
  OBVIOUS
<1>1. /\ routine \in SUBSET Items /\ ticks = {} /\ running = TRUE /\ page = "hub" /\ opened = 0
      /\ \A v \in Views : queues[v] = <<>>
      /\ drawing = <<>> /\ lists = <<>> /\ liveTimer = FALSE /\ unheard = FALSE
      /\ tapped = [i \in Items |-> Unknown] /\ unsure = {} /\ overlapped = FALSE
  BY DEF RoutinesInit
<1>2. queues \in [Views -> Seq(SaveSet)]
  BY DEF RoutinesInit
<1>3. drawing \in Seq(DrawingSet) /\ lists \in Seq(ListSet)
  BY <1>1
<1>4. RoutineTypes
  <2>1. 0 \in 0..MaxViews /\ MaxViews \in Nat
    BY RoutinesAssumption
  <2>2. tapped \in [Items -> {Off, On, Unknown}] /\ unsure \in SUBSET Items /\ ticks \in SUBSET Items
    BY <1>1
  <2>3. /\ running \in BOOLEAN /\ liveTimer \in BOOLEAN /\ unheard \in BOOLEAN /\ overlapped \in BOOLEAN
        /\ page \in {"none", "hub", "routines"} /\ page # "routines" /\ opened \in 0..MaxViews
    BY <1>1, <2>1
  <2>4. QED
    BY <1>1, <1>2, <1>3, <2>2, <2>3, Zenon DEF RoutineTypes
<1>5. OnOwnLists(queues, lists) /\ ReadIsStored /\ AllAsked
  BY <1>1 DEF OnOwnLists, ReadIsStored, AllAsked, Asked
<1>6. OneDrawing /\ ListsInOrder /\ Drawn
  BY <1>1 DEF OneDrawing, ListsInOrder, Drawn, Undisturbed
<1>7. QED
  BY <1>4, <1>5, <1>6 DEF RoutinesInv

----------------------------------------------------------------------------
(* Pages and reloads.                                                        *)

LEMMA OpenRoutinesStep == ASSUME RoutinesInv, OpenRoutines PROVE RoutinesInv'
<1>1. opened + 1 \in Views /\ opened + 1 \in 0..MaxViews /\ opened + 1 > 0
  BY RoutinesAssumption DEF OpenRoutines, Views, RoutinesInv, RoutineTypes
<1>2. BeginList(opened + 1, queues) /\ page' = "routines" /\ opened' = opened + 1 /\ liveTimer' = FALSE
      /\ UNCHANGED <<routine, ticks, running, tapped>> /\ unheard' \in BOOLEAN
  BY DEF OpenRoutines, RoutinesInv, RoutineTypes
<1>3. QED
  BY <1>1, <1>2, BeginListStep

LEMMA ReloadStep == ASSUME RoutinesInv, AskReload \/ LiveRefresh PROVE RoutinesInv'
<1>1. /\ page = "routines" /\ BeginList(opened, queues) /\ UNCHANGED <<routine, ticks, running, page, opened, tapped>>
      /\ liveTimer' \in BOOLEAN /\ unheard' \in BOOLEAN
  BY DEF AskReload, LiveRefresh, RoutinesInv, RoutineTypes
<1>2. opened \in Views /\ opened \in 0..MaxViews /\ opened > 0
  BY <1>1, RoutinesAssumption DEF Views, RoutinesInv, RoutineTypes
<1>3. page' \in {"none", "hub", "routines"} /\ opened' \in 0..MaxViews /\ opened' > 0
  BY <1>1, <1>2
<1>4. QED
  BY <1>1, <1>2, <1>3, BeginListStep

LEMMA LeaveRoutinesStep == ASSUME RoutinesInv, BackToHub \/ OtherTab PROVE RoutinesInv'
<1>1. /\ Emptied(queues) /\ UNCHANGED <<routine, ticks, drawing, overlapped, tapped, running, unheard, opened>>
      /\ liveTimer' = FALSE /\ page' \in {"none", "hub"}
  BY DEF BackToHub, OtherTab, Leave
<1>2. running' \in BOOLEAN /\ unheard' \in BOOLEAN /\ opened' \in 0..MaxViews
  BY <1>1 DEF RoutinesInv, RoutineTypes
<1>3. QED
  BY <1>1, <1>2, EmptiedStep

\* A reload reads on.
LEMMA DrawingOn ==
    ASSUME RoutinesInv, NEW k \in DOMAIN drawing, NEW d \in DrawingSet, drawing' = [drawing EXCEPT ![k] = d],
           UNCHANGED <<routine, ticks, running, page, opened, queues, lists, liveTimer, unheard, history>>,
           d.at = "draw" => d.on \subseteq d.items,
           Undisturbed => /\ d.at # "list" => d.items = routine /\ routine # {}
                          /\ d.at = "draw" => d.on = ticks \cap routine
    PROVE  RoutinesInv'
<1>1. /\ drawing \in Seq(DrawingSet) /\ lists \in Seq(ListSet) /\ UNCHANGED <<tapped, unsure, overlapped>>
  BY DEF RoutinesInv, RoutineTypes, history
<1>2. /\ drawing' \in Seq(DrawingSet) /\ Len(drawing') = Len(drawing) /\ DOMAIN drawing' = DOMAIN drawing
      /\ drawing'[k] = d /\ \A n \in DOMAIN drawing : n # k => drawing'[n] = drawing[n]
  BY <1>1
<1>3. RoutineTypes'
  BY <1>1, <1>2 DEF RoutinesInv, RoutineTypes
<1>4. OnOwnLists(queues', lists') /\ ReadIsStored' /\ AllAsked' /\ OneDrawing'
  BY <1>1, <1>2 DEF RoutinesInv, OnOwnLists, ReadIsStored, AllAsked, OneDrawing
<1>5. ListsInOrder'
  BY <1>1, <1>2 DEF RoutinesInv, ListsInOrder
<1>6. Drawn'
  <2>1. ASSUME Undisturbed' PROVE k = 1 /\ lists' = <<>> /\ drawing' # <<>> /\ drawing'[1] = d /\ Undisturbed
    <3>1. Undisturbed /\ ~overlapped
      BY <1>1, <2>1 DEF Undisturbed
    <3>2. Len(drawing) + Len(lists) <= 1
      BY <3>1 DEF RoutinesInv, OneDrawing
    <3>3. Len(drawing) \in Nat /\ Len(lists) \in Nat /\ k \in 1..Len(drawing)
      BY <1>1
    <3>4. k = 1 /\ Len(lists) = 0 /\ Len(drawing') = 1
      BY <1>2, <3>2, <3>3
    <3>5. QED
      BY <1>1, <1>2, <3>1, <3>4
  <2>2. QED
    BY <2>1 DEF Drawn
<1>7. QED
  BY <1>3, <1>4, <1>5, <1>6 DEF RoutinesInv

LEMMA ReadRoutinesStep == ASSUME RoutinesInv, NEW k \in DOMAIN drawing, ReadRoutines(k) PROVE RoutinesInv'
<1>1. /\ UNCHANGED <<routine, ticks, running, page, opened, queues, lists, liveTimer, unheard, history>>
      /\ drawing \in Seq(DrawingSet) /\ lists \in Seq(ListSet) /\ routine \in SUBSET Items
  BY DEF ReadRoutines, RoutinesInv, RoutineTypes
<1>2. PICK d \in DrawingSet : d = drawing[k]
  BY <1>1
<1>3. CASE running /\ routine # {}
  <2>1. PICK e : e = [d EXCEPT !.at = "days", !.items = routine]
    OBVIOUS
  <2>2. e \in DrawingSet /\ e.at = "days" /\ e.items = routine
    BY <1>1, <1>2, <2>1 DEF DrawingSet
  <2>3. drawing' = [drawing EXCEPT ![k] = e]
    BY <1>1, <1>2, <1>3, <2>1 DEF ReadRoutines
  <2>4. QED
    BY <1>1, <1>3, <2>2, <2>3, DrawingOn
<1>4. CASE ~(running /\ routine # {})
  <2>1. drawing' = RemoveAt(drawing, k)
    BY <1>4 DEF ReadRoutines, Without
  <2>2. drawing' \in Seq(DrawingSet) /\ Len(drawing') = Len(drawing) - 1
    BY <1>1, <2>1, RemoveOne
  <2>3. PICK m, n : m = Len(drawing) /\ n = Len(lists)
    OBVIOUS
  <2>4. m \in Nat \ {0} /\ n \in Nat
    BY <1>1, <2>3
  <2>5. ~overlapped => m = 1 /\ n = 0
    <3>1. ~overlapped => m + n <= 1
      BY <2>3 DEF RoutinesInv, OneDrawing
    <3>2. QED
      BY <2>4, <3>1
  <2>6. ~overlapped => drawing' = <<>> /\ lists = <<>>
    BY <1>1, <2>2, <2>3, <2>5
  <2>7. RoutineTypes'
    BY <1>1, <2>2 DEF RoutinesInv, RoutineTypes, history
  <2>8. OnOwnLists(queues', lists') /\ ReadIsStored' /\ AllAsked'
    BY <1>1 DEF RoutinesInv, OnOwnLists, ReadIsStored, AllAsked, history
  <2>9. OneDrawing'
    BY <1>1, <2>6 DEF OneDrawing, history
  <2>10. ListsInOrder'
    <3>1. \A j \in DOMAIN drawing' : \E h \in DOMAIN drawing : drawing'[j] = drawing[h]
      BY <1>1, <2>1, RemovedFrom
    <3>2. QED
      BY <1>1, <3>1 DEF RoutinesInv, ListsInOrder
  <2>11. Drawn'
    BY <1>1, <1>4, <2>6 DEF Drawn, Undisturbed, history
  <2>12. QED
    BY <2>7, <2>8, <2>9, <2>10, <2>11 DEF RoutinesInv
<1>5. QED
  BY <1>3, <1>4

LEMMA ReadDaysStep == ASSUME RoutinesInv, NEW k \in DOMAIN drawing, ReadDays(k) PROVE RoutinesInv'
<1>1. /\ UNCHANGED <<routine, ticks, running, page, opened, queues, lists, liveTimer, unheard, history>>
      /\ drawing \in Seq(DrawingSet) /\ lists \in Seq(ListSet) /\ ticks \in SUBSET Items
  BY DEF ReadDays, RoutinesInv, RoutineTypes
<1>2. PICK d \in DrawingSet : d = drawing[k]
  BY <1>1
<1>3. PICK e : e = [d EXCEPT !.at = "draw", !.on = IF running THEN ticks \cap d.items ELSE {}]
  OBVIOUS
<1>4. /\ e \in DrawingSet /\ e.at = "draw" /\ e.items = d.items
      /\ e.on = IF running THEN ticks \cap d.items ELSE {}
  BY <1>1, <1>2, <1>3 DEF DrawingSet
<1>5. drawing' = [drawing EXCEPT ![k] = e] /\ d.at = "days"
  BY <1>1, <1>2, <1>3 DEF ReadDays
<1>6. Undisturbed => running /\ k = 1
  <2>1. ASSUME Undisturbed PROVE k = 1
    <3>1. Len(drawing) + Len(lists) <= 1
      BY <2>1 DEF RoutinesInv, OneDrawing, Undisturbed
    <3>2. QED
      BY <1>1, <3>1
  <2>2. QED
    BY <2>1 DEF Undisturbed
<1>7. Undisturbed => d.items = routine /\ routine # {}
  BY <1>1, <1>2, <1>5, <1>6 DEF RoutinesInv, Drawn
<1>8. Undisturbed => e.items = routine /\ routine # {} /\ e.on = ticks \cap routine
  BY <1>4, <1>6, <1>7
<1>9. e.on \subseteq e.items
  BY <1>4
<1>10. QED
  BY <1>1, <1>4, <1>5, <1>8, <1>9, DrawingOn

LEMMA RenderMemberStep == ASSUME RoutinesInv, NEW k \in DOMAIN drawing, RenderMember(k) PROVE RoutinesInv'
<1>1. /\ UNCHANGED <<routine, ticks, running, page, opened, queues, liveTimer, unheard, history>>
      /\ drawing \in Seq(DrawingSet) /\ lists \in Seq(ListSet) /\ drawing' = RemoveAt(drawing, k)
  BY DEF RenderMember, Without, RoutinesInv, RoutineTypes
<1>2. PICK d \in DrawingSet : d = drawing[k]
  BY <1>1
<1>3. PICK l : l = [view |-> d.view, items |-> d.items, on |-> d.on]
  OBVIOUS
<1>4. l \in ListSet /\ l.view = d.view /\ l.items = d.items /\ l.on = d.on /\ l.view \in Views
  BY <1>2, <1>3 DEF ListSet, DrawingSet
<1>5. lists' = Append(lists, l) /\ d.at = "draw"
  BY <1>2, <1>3 DEF RenderMember
<1>6. drawing' \in Seq(DrawingSet) /\ Len(drawing') = Len(drawing) - 1
  BY <1>1, RemoveOne
<1>7. PICK m, n : m = Len(drawing) /\ n = Len(lists)
  OBVIOUS
<1>8. m \in Nat \ {0} /\ n \in Nat
  BY <1>1, <1>7
<1>9. /\ lists' \in Seq(ListSet) /\ DOMAIN lists = 1..n /\ DOMAIN lists' = 1..(n+1) /\ Len(lists') = n + 1
      /\ lists'[n+1] = l /\ \A j \in 1..n : lists'[j] = lists[j]
  BY <1>1, <1>4, <1>5, <1>7, LastOne
<1>10. ~overlapped => m = 1 /\ n = 0 /\ k = 1
  <2>1. ~overlapped => m + n <= 1
    BY <1>7 DEF RoutinesInv, OneDrawing
  <2>2. k \in 1..m
    BY <1>1, <1>7
  <2>3. QED
    BY <1>8, <2>1, <2>2
<1>11. RoutineTypes'
  BY <1>1, <1>6, <1>9 DEF RoutinesInv, RoutineTypes, history
<1>12. OnOwnLists(queues', lists')
  <2>1. \A j \in DOMAIN lists : j \in DOMAIN lists' /\ lists'[j] = lists[j]
    BY <1>8, <1>9
  <2>2. QED
    BY <1>1, <2>1 DEF RoutinesInv, OnOwnLists
<1>13. ReadIsStored' /\ AllAsked'
  BY <1>1 DEF RoutinesInv, ReadIsStored, AllAsked, history
<1>14. OneDrawing'
  <2>1. ~overlapped => Len(drawing') = 0 /\ Len(lists') = 1
    BY <1>6, <1>7, <1>9, <1>10
  <2>2. PICK x, y : x = Len(drawing') /\ y = Len(lists')
    OBVIOUS
  <2>3. ~overlapped => x + y <= 1
    BY <2>1, <2>2
  <2>4. overlapped' = overlapped
    BY <1>1 DEF history
  <2>5. QED
    BY <2>2, <2>3, <2>4 DEF OneDrawing
<1>15. ListsInOrder'
  <2>1. \A j \in DOMAIN drawing' : \E h \in DOMAIN drawing : drawing'[j] = drawing[h]
    BY <1>1, RemovedFrom
  <2>2. l.on \subseteq l.items
    BY <1>2, <1>4, <1>5 DEF RoutinesInv, ListsInOrder
  <2>3. \A j \in DOMAIN lists' : lists'[j] = l \/ (j \in DOMAIN lists /\ lists'[j] = lists[j])
    BY <1>8, <1>9
  <2>4. QED
    BY <2>1, <2>2, <2>3 DEF RoutinesInv, ListsInOrder
<1>16. Drawn'
  <2>1. ASSUME Undisturbed'
        PROVE  /\ drawing' = <<>> /\ lists' # <<>> /\ routine' # {} /\ lists'[1].items = routine'
               /\ \A i \in routine' \ unsure' :
                    Pictured(queues'[lists'[1].view], i, i \in lists'[1].on, i \in ticks')
    <3>1. Undisturbed /\ ~overlapped
      BY <1>1, <2>1 DEF Undisturbed, history
    <3>2. m = 1 /\ n = 0 /\ k = 1
      BY <1>10, <3>1
    <3>3. drawing' = <<>> /\ lists' # <<>> /\ lists'[1] = l /\ drawing # <<>>
      <4>1. Len(drawing') = 0 /\ Len(lists') = 1 /\ lists'[1] = l /\ Len(drawing) = 1
        BY <1>6, <1>7, <1>9, <3>2
      <4>2. drawing' = <<>>
        BY <1>6, <4>1
      <4>3. lists' # <<>>
        BY <1>9, <4>1
      <4>4. drawing # <<>>
        OBVIOUS
      <4>5. QED
        BY <4>1, <4>2, <4>3, <4>4
    <3>4. d.items = routine /\ routine # {} /\ d.on = ticks \cap routine
      BY <1>2, <1>5, <3>1, <3>2, <3>3 DEF RoutinesInv, Drawn
    <3>5. ASSUME NEW i \in routine PROVE Pictured(queues[l.view], i, i \in l.on, i \in ticks)
      <4>1. (i \in l.on) = (i \in ticks)
        BY <1>4, <3>4, <3>5
      <4>2. \A j \in DOMAIN queues[l.view] : queues[l.view][j].list = 0
        <5>1. DOMAIN lists = {}
          BY <1>9, <3>2
        <5>2. QED
          BY <1>4, <5>1 DEF RoutinesInv, OnOwnLists
      <4>3. \A j \in DOMAIN queues[l.view] : ~Mine(queues[l.view], j, i)
        BY <4>2 DEF Mine
      <4>4. QED
        BY <4>1, <4>3 DEF Pictured
    <3>6. QED
      BY <1>1, <1>4, <3>3, <3>4, <3>5
  <2>2. QED
    BY <2>1 DEF Drawn
<1>17. QED
  BY <1>11, <1>12, <1>13, <1>14, <1>15, <1>16 DEF RoutinesInv

----------------------------------------------------------------------------
(* Taps and saves.                                                           *)

LEMMA PicturedAppend ==
    ASSUME NEW q \in Seq(SaveSet), NEW s \in SaveSet, s.list = 1, NEW i, NEW was \in BOOLEAN, NEW shown \in BOOLEAN,
           NEW in \in BOOLEAN, Pictured(q, i, was, in),
           s.item # i => shown = was, s.item = i => shown = ~was /\ s.on = shown
    PROVE  Pictured(Append(q, s), i, shown, in)
<1>1. PICK n, r : /\ n = Len(q) /\ r = Append(q, s) /\ n \in Nat /\ DOMAIN q = 1..n /\ DOMAIN r = 1..(n+1)
                  /\ r[n+1] = s /\ \A k \in 1..n : r[k] = q[k]
  <2>1. /\ DOMAIN q = 1..Len(q) /\ Len(q) \in Nat
        /\ DOMAIN Append(q, s) = 1..(Len(q) + 1) /\ Append(q, s)[Len(q) + 1] = s
        /\ \A k \in 1..Len(q) : Append(q, s)[k] = q[k]
    BY LastOne
  <2>2. QED
    BY <2>1
<1>2. \A k \in 1..n : k \in DOMAIN r /\ k # n + 1 /\ (Mine(r, k, i) <=> Mine(q, k, i))
  BY <1>1 DEF Mine
<1>3. n + 1 \in DOMAIN r /\ (Mine(r, n+1, i) <=> s.item = i) /\ \A k \in DOMAIN r : k = n + 1 \/ k \in 1..n
  BY <1>1 DEF Mine
<1>4. CASE \E j, k \in DOMAIN q : j # k /\ Mine(q, j, i) /\ Mine(q, k, i)
  <2>1. \E j, k \in DOMAIN r : j # k /\ Mine(r, j, i) /\ Mine(r, k, i)
    BY <1>1, <1>2, <1>4
  <2>2. QED
    BY <1>1, <2>1 DEF Pictured
<1>5. CASE was # in /\ \E k \in DOMAIN q : Mine(q, k, i) /\ q[k].on = was
  <2>1. PICK k \in 1..n : Mine(q, k, i) /\ q[k].on = was
    BY <1>1, <1>5
  <2>2. k \in DOMAIN r /\ k # n + 1 /\ Mine(r, k, i) /\ r[k].on = was
    BY <1>1, <1>2, <2>1
  <2>3. CASE s.item = i
    <3>1. Mine(r, n + 1, i) /\ n + 1 \in DOMAIN r
      BY <1>3, <2>3
    <3>2. QED
      BY <1>1, <2>2, <3>1 DEF Pictured
  <2>4. CASE s.item # i
    BY <1>1, <1>5, <2>2, <2>4 DEF Pictured
  <2>5. QED
    BY <2>3, <2>4
<1>6. CASE was = in /\ \A k \in DOMAIN q : ~Mine(q, k, i)
  <2>1. CASE s.item = i
    <3>1. Mine(r, n + 1, i) /\ n + 1 \in DOMAIN r /\ r[n+1].on = shown /\ shown # in
      BY <1>1, <1>3, <1>6, <2>1
    <3>2. QED
      BY <1>1, <3>1 DEF Pictured
  <2>2. CASE s.item # i
    <3>1. \A k \in DOMAIN r : ~Mine(r, k, i)
      BY <1>1, <1>2, <1>3, <1>6, <2>2
    <3>2. QED
      BY <1>1, <1>6, <2>2, <3>1 DEF Pictured
  <2>3. QED
    BY <2>1, <2>2
<1>7. QED
  BY <1>4, <1>5, <1>6 DEF Pictured

LEMMA PicturedPop ==
    ASSUME NEW q \in Seq(SaveSet), 1 \in DOMAIN q, NEW i, NEW was \in BOOLEAN, NEW shown \in BOOLEAN,
           NEW in \in BOOLEAN, Pictured(q, i, was, in),
           Mine(q, 1, i) => shown = ~q[1].on /\ \A k \in DOMAIN q : k # 1 => q[k].item # i,
           ~Mine(q, 1, i) => shown = was
    PROVE  Pictured(RemoveAt(q, 1), i, shown, in)
<1>1. PICK n, r : /\ n = Len(q) /\ r = RemoveAt(q, 1) /\ n \in Nat \ {0} /\ DOMAIN q = 1..n /\ DOMAIN r = 1..(n-1)
                  /\ \A k \in 1..(n-1) : r[k] = q[k+1]
  BY PopFirst
<1>2. \A k \in 1..(n-1) : k + 1 \in 1..n /\ k + 1 # 1 /\ (Mine(r, k, i) <=> Mine(q, k + 1, i))
  BY <1>1 DEF Mine
<1>3. \A k \in 1..n : k # 1 => k - 1 \in 1..(n-1) /\ (k - 1) + 1 = k
  BY <1>1
<1>4. \A k \in 1..n : k # 1 => k - 1 \in DOMAIN r /\ r[k-1] = q[k] /\ (Mine(r, k - 1, i) <=> Mine(q, k, i))
  BY <1>1, <1>2, <1>3
<1>5. CASE Mine(q, 1, i)
  <2>1. \A k \in DOMAIN q : k # 1 => ~Mine(q, k, i)
    BY <1>5 DEF Mine
  <2>2. q[1].on = was /\ was # in
    BY <1>1, <1>5, <2>1 DEF Pictured
  <2>3. shown = in
    BY <1>5, <2>2
  <2>4. \A k \in DOMAIN r : ~Mine(r, k, i)
    BY <1>1, <1>2, <2>1
  <2>5. QED
    BY <1>1, <2>3, <2>4 DEF Pictured
<1>6. CASE ~Mine(q, 1, i)
  <2>1. CASE \E j, k \in DOMAIN q : j # k /\ Mine(q, j, i) /\ Mine(q, k, i)
    <3>1. PICK j, k \in 1..n : j # k /\ Mine(q, j, i) /\ Mine(q, k, i)
      BY <1>1, <2>1
    <3>2. j # 1 /\ k # 1
      BY <1>6, <3>1
    <3>3. j - 1 # k - 1
      BY <3>1
    <3>4. j - 1 \in DOMAIN r /\ k - 1 \in DOMAIN r /\ Mine(r, j - 1, i) /\ Mine(r, k - 1, i)
      BY <1>4, <3>1, <3>2
    <3>5. QED
      BY <1>1, <3>3, <3>4 DEF Pictured
  <2>2. CASE was # in /\ \E k \in DOMAIN q : Mine(q, k, i) /\ q[k].on = was
    <3>1. PICK k \in 1..n : Mine(q, k, i) /\ q[k].on = was
      BY <1>1, <2>2
    <3>2. k # 1
      BY <1>6, <3>1
    <3>3. k - 1 \in DOMAIN r /\ Mine(r, k - 1, i) /\ r[k - 1].on = was
      BY <1>4, <3>1, <3>2
    <3>4. QED
      BY <1>1, <1>6, <2>2, <3>3 DEF Pictured
  <2>3. CASE was = in /\ \A k \in DOMAIN q : ~Mine(q, k, i)
    <3>1. \A k \in DOMAIN r : ~Mine(r, k, i)
      BY <1>1, <1>2, <2>3
    <3>2. QED
      BY <1>1, <1>6, <2>3, <3>1 DEF Pictured
  <2>4. QED
    BY <2>1, <2>2, <2>3 DEF Pictured
<1>7. QED
  BY <1>5, <1>6

LEMMA Truth == ASSUME NEW x, NEW S PROVE \E b \in BOOLEAN : b = (x \in S)
<1>1. CASE x \in S
  <2>1. TRUE = (x \in S) /\ TRUE \in BOOLEAN
    BY <1>1
  <2>2. QED
    BY <2>1
<1>2. CASE x \notin S
  <2>1. FALSE = (x \in S) /\ FALSE \in BOOLEAN
    BY <1>2
  <2>2. QED
    BY <2>1
<1>3. QED
  BY <1>1, <1>2

\* The list on screen, when nothing has happened to it since it was read.
LEMMA TheList ==
    ASSUME RoutinesInv, Undisturbed, NEW n \in DOMAIN lists
    PROVE  /\ n = 1 /\ DOMAIN lists = {1} /\ lists # <<>> /\ drawing = <<>> /\ lists[1] \in ListSet
           /\ routine # {} /\ lists[1].items = routine /\ lists[1].view \in Views
<1>1. PICK m, k : m = Len(drawing) /\ k = Len(lists)
  OBVIOUS
<1>2. m \in Nat /\ k \in Nat /\ m + k <= 1 /\ n \in 1..k /\ DOMAIN lists = 1..k
  BY <1>1 DEF RoutinesInv, OneDrawing, RoutineTypes, Undisturbed
<1>3. m = 0 /\ k = 1 /\ n = 1
  BY <1>2
<1>4. DOMAIN lists = {1} /\ lists # <<>>
  BY <1>2, <1>3
<1>5. drawing = <<>>
  <2>1. drawing \in Seq(DrawingSet)
    BY DEF RoutinesInv, RoutineTypes
  <2>2. Len(drawing) = 0
    BY <1>1, <1>3
  <2>3. QED
    BY <2>1, <2>2
<1>6. lists[1] \in ListSet
  BY <1>4 DEF RoutinesInv, RoutineTypes
<1>7. routine # {} /\ lists[1].items = routine
  BY <1>4, <1>5 DEF RoutinesInv, Drawn
<1>8. QED
  BY <1>3, <1>4, <1>5, <1>6, <1>7 DEF ListSet

\* A list whose ticks change.
LEMMA TicksOnList ==
    ASSUME NEW l \in ListSet, NEW on \in SUBSET Items
    PROVE  /\ [l EXCEPT !.on = on] \in ListSet /\ [l EXCEPT !.on = on].on = on
           /\ [l EXCEPT !.on = on].items = l.items /\ [l EXCEPT !.on = on].view = l.view
  BY DEF ListSet

LEMMA ListChange ==
    ASSUME lists \in Seq(ListSet), NEW n \in DOMAIN lists, NEW on \in SUBSET Items, on \subseteq lists[n].items,
           ListsInOrder, lists' = [lists EXCEPT ![n].on = on], UNCHANGED drawing
    PROVE  /\ lists' \in Seq(ListSet) /\ DOMAIN lists' = DOMAIN lists /\ Len(lists') = Len(lists) /\ lists'[n].on = on
           /\ \A j \in DOMAIN lists : lists'[j].view = lists[j].view /\ lists'[j].items = lists[j].items
           /\ \A j \in DOMAIN lists : j # n => lists'[j] = lists[j]
           /\ ListsInOrder'
<1>1. PICK l \in ListSet : l = lists[n]
  OBVIOUS
<1>2. PICK e : e = [l EXCEPT !.on = on]
  OBVIOUS
<1>3. e \in ListSet /\ e.on = on /\ e.items = l.items /\ e.view = l.view
  BY <1>2, TicksOnList
<1>4. lists' = [lists EXCEPT ![n] = e]
  BY <1>1, <1>2
<1>5. /\ lists' \in Seq(ListSet) /\ DOMAIN lists' = DOMAIN lists /\ Len(lists') = Len(lists) /\ lists'[n] = e
      /\ \A j \in DOMAIN lists : j # n => lists'[j] = lists[j]
  BY <1>3, <1>4
<1>6. ListsInOrder'
  BY <1>1, <1>3, <1>5 DEF ListsInOrder
<1>7. QED
  BY <1>1, <1>3, <1>5, <1>6

LEMMA TapStep == ASSUME RoutinesInv, NEW n \in DOMAIN lists, NEW i \in Items, Tap(n, i) PROVE RoutinesInv'
<1>1. /\ i \in lists[n].items
      /\ UNCHANGED <<routine, ticks, running, page, opened, drawing, liveTimer, unheard, unsure, overlapped>>
      /\ lists \in Seq(ListSet) /\ queues \in [Views -> Seq(SaveSet)]
  BY DEF Tap, RoutinesInv, RoutineTypes
<1>2. PICK v \in Views : v = lists[n].view
  <2>1. lists[n] \in ListSet
    BY <1>1
  <2>2. QED
    BY <2>1 DEF ListSet
<1>3. PICK on \in BOOLEAN : on = (i \notin lists[n].on)
  OBVIOUS
<1>4. PICK now \in SUBSET Items : now = IF on THEN lists[n].on \cup {i} ELSE lists[n].on \ {i}
  <2>1. lists[n] \in ListSet
    BY <1>1
  <2>2. lists[n].on \in SUBSET Items
    BY <2>1 DEF ListSet
  <2>3. QED
    BY <2>2
<1>5. PICK s : s = [item |-> i, on |-> on, list |-> n, at |-> "queued", got |-> {}]
  OBVIOUS
<1>6. s \in SaveSet /\ s.item = i /\ s.on = on /\ s.list = n /\ s.at = "queued"
  BY <1>1, <1>5 DEF SaveSet
<1>7. /\ lists' = [lists EXCEPT ![n].on = now] /\ queues' = [queues EXCEPT ![v] = Append(@, s)]
      /\ tapped' = [tapped EXCEPT ![i] = IF QueuedElsewhere(v, i) THEN Unknown ELSE Asks(on)]
  BY <1>2, <1>3, <1>4, <1>5 DEF Tap
<1>8. now \subseteq lists[n].items
  BY <1>1, <1>4 DEF RoutinesInv, ListsInOrder
<1>9. /\ lists' \in Seq(ListSet) /\ DOMAIN lists' = DOMAIN lists /\ Len(lists') = Len(lists) /\ lists'[n].on = now
      /\ \A j \in DOMAIN lists : lists'[j].view = lists[j].view /\ lists'[j].items = lists[j].items
      /\ ListsInOrder'
  BY <1>1, <1>7, <1>8, ListChange DEF RoutinesInv
<1>10. PICK m : /\ m = Len(queues[v]) /\ m \in Nat /\ DOMAIN queues[v] = 1..m /\ DOMAIN queues'[v] = 1..(m+1)
                /\ queues'[v] \in Seq(SaveSet) /\ queues'[v][m+1] = s /\ \A k \in 1..m : queues'[v][k] = queues[v][k]
  <2>1. PICK q \in Seq(SaveSet) : q = queues[v]
    BY <1>1
  <2>2. queues'[v] = Append(q, s)
    BY <1>1, <1>7, <2>1
  <2>3. QED
    BY SMTT(60), <1>6, <2>1, <2>2, LastOne
<1>11. queues' \in [Views -> Seq(SaveSet)] /\ \A w \in Views : w # v => queues'[w] = queues[w]
  BY <1>1, <1>7, <1>10
<1>12. \A w \in Views : \A k \in DOMAIN queues'[w] :
          (w = v /\ queues'[w][k] = s) \/ (k \in DOMAIN queues[w] /\ queues'[w][k] = queues[w][k])
  <2>1. \A k \in 1..(m+1) : k = m + 1 \/ k \in 1..m
    BY <1>10
  <2>2. QED
    BY <1>10, <1>11, <2>1
<1>13. tapped' \in [Items -> {Off, On, Unknown}]
  BY <1>7 DEF RoutinesInv, RoutineTypes, Asks
<1>14. RoutineTypes'
  BY <1>1, <1>9, <1>11, <1>13 DEF RoutinesInv, RoutineTypes
<1>15. OnOwnLists(queues', lists')
  <2>1. ASSUME NEW w \in Views, NEW k \in DOMAIN queues'[w], queues'[w][k].list # 0
        PROVE  /\ queues'[w][k].list \in DOMAIN lists' /\ lists'[queues'[w][k].list].view = w
               /\ queues'[w][k].item \in lists'[queues'[w][k].list].items
    <3>1. CASE w = v /\ queues'[w][k] = s
      <4>1. n \in DOMAIN lists' /\ lists'[n].view = v /\ i \in lists'[n].items
        BY <1>1, <1>2, <1>9
      <4>2. QED
        BY <1>6, <3>1, <4>1
    <3>2. CASE k \in DOMAIN queues[w] /\ queues'[w][k] = queues[w][k]
      <4>1. PICK x : x = queues[w][k].list
        OBVIOUS
      <4>2. x \in DOMAIN lists /\ lists[x].view = w /\ queues[w][k].item \in lists[x].items
        BY <2>1, <3>2, <4>1 DEF RoutinesInv, OnOwnLists
      <4>3. QED
        BY <1>9, <3>2, <4>1, <4>2
    <3>3. QED
      BY <1>12, <3>1, <3>2
  <2>2. QED
    BY <2>1 DEF OnOwnLists
<1>16. ReadIsStored'
  BY SMTT(60), <1>1, <1>6, <1>12 DEF RoutinesInv, ReadIsStored
<1>17. AllAsked'
  <2>1. ASSUME NEW j \in Items PROVE Asked(queues', j, tapped'[j], j \in ticks)
    <3>1. Asked(queues, j, tapped[j], j \in ticks)
      BY DEF RoutinesInv, AllAsked
    <3>2. j # i => tapped'[j] = tapped[j]
      BY <1>7 DEF RoutinesInv, RoutineTypes
    <3>3. j = i => \/ tapped'[j] = Unknown
                   \/ /\ tapped'[j] = Asks(on)
                      /\ \A w \in Views \ {v} : \A k \in DOMAIN queues[w] : queues[w][k].item # i
      BY <1>7 DEF RoutinesInv, RoutineTypes, QueuedElsewhere
    <3>4. PICK t : t = tapped'[j]
      OBVIOUS
    <3>5. PICK was : was = tapped[j]
      OBVIOUS
    <3>6. PICK in \in BOOLEAN : in = (j \in ticks)
      BY Truth
    <3>7. Asked(queues, j, was, in)
      BY <3>1, <3>5, <3>6
    <3>8. s.item # j => t = was
      BY <1>6, <3>2, <3>4, <3>5
    <3>9. s.item = j => \/ t = Unknown
                        \/ /\ t = Asks(s.on)
                           /\ \A w \in Views \ {v} : \A k \in DOMAIN queues[w] : queues[w][k].item # j
      BY <1>6, <3>3, <3>4
    <3>10. PICK new : new = queues' /\ (\A w \in Views \ {v} : new[w] = queues[w]) /\ new[v] = Append(queues[v], s)
      BY <1>1, <1>7, <1>11
    <3>11. Asked(new, j, t, in)
      BY <1>1, <1>6, <3>7, <3>8, <3>9, <3>10, AskedAppend
    <3>12. QED
      BY <3>4, <3>6, <3>10, <3>11
  <2>2. QED
    BY <1>1, <2>1 DEF AllAsked
<1>18. OneDrawing'
  BY <1>1, <1>9 DEF RoutinesInv, OneDrawing
<1>19. Drawn'
  <2>1. ASSUME Undisturbed'
        PROVE  /\ drawing' = <<>> /\ lists' # <<>> /\ routine' # {} /\ lists'[1].items = routine'
               /\ \A j \in routine' \ unsure' :
                    Pictured(queues'[lists'[1].view], j, j \in lists'[1].on, j \in ticks')
    <3>1. Undisturbed
      BY <1>1, <2>1 DEF Undisturbed
    <3>2. /\ n = 1 /\ DOMAIN lists = {1} /\ lists # <<>> /\ drawing = <<>> /\ routine # {} /\ lists[1].items = routine
      BY <3>1, TheList
    <3>3. lists' # <<>> /\ lists'[1].items = routine /\ lists'[1].view = v /\ lists'[1].on = now
      BY <1>2, <1>9, <3>2
    <3>4. ASSUME NEW j \in routine \ unsure PROVE Pictured(queues'[v], j, j \in now, j \in ticks)
      <4>1. PICK was \in BOOLEAN : was = (j \in lists[1].on)
        BY Truth
      <4>2. PICK shown \in BOOLEAN : shown = (j \in now)
        BY Truth
      <4>3. PICK in \in BOOLEAN : in = (j \in ticks)
        BY Truth
      <4>4. PICK q \in Seq(SaveSet) : q = queues[v]
        BY <1>1
      <4>5. Pictured(q, j, was, in)
        BY <1>2, <3>1, <3>2, <3>4, <4>1, <4>3, <4>4 DEF RoutinesInv, Drawn
      <4>6. i # j => shown = was
        BY <1>4, <3>2, <4>1, <4>2
      <4>7. i = j => shown = ~was /\ on = shown
        BY <1>3, <1>4, <3>2, <4>1, <4>2
      <4>8. s.list = 1
        BY <1>6, <3>2
      <4>9. Pictured(Append(q, s), j, shown, in)
        BY <1>6, <4>5, <4>6, <4>7, <4>8, PicturedAppend
      <4>10. queues'[v] = Append(q, s)
        BY <1>1, <1>7, <4>4
      <4>11. QED
        BY <4>2, <4>3, <4>9, <4>10
    <3>5. QED
      BY <1>1, <3>2, <3>3, <3>4
  <2>2. QED
    BY <2>1 DEF Drawn
<1>20. QED
  BY <1>9, <1>14, <1>15, <1>16, <1>17, <1>18, <1>19 DEF RoutinesInv

LEMMA BlurStep == ASSUME RoutinesInv, Blur PROVE RoutinesInv'
<1>1. UNCHANGED <<routine, ticks, running, page, opened, queues, drawing, lists, liveTimer, unheard, history>>
  BY DEF Blur
<1>2. UNCHANGED <<tapped, unsure, overlapped>>
  BY <1>1 DEF history
<1>3. /\ routine \in SUBSET Items /\ running \in BOOLEAN /\ liveTimer \in BOOLEAN /\ unheard \in BOOLEAN
      /\ page \in {"none", "hub", "routines"} /\ opened \in 0..MaxViews /\ (page = "routines" => opened > 0)
  BY DEF RoutinesInv, RoutineTypes
<1>4. Undisturbed' => Undisturbed
  BY <1>1, <1>2 DEF Undisturbed
<1>5. QED
  BY <1>1, <1>2, <1>3, <1>4, PanelStays

LEMMA SaveReadStep == ASSUME RoutinesInv, NEW v \in Views, NEW k \in DOMAIN queues[v], SaveRead(v, k) PROVE RoutinesInv'
<1>1. /\ UNCHANGED <<routine, ticks, running, page, opened, drawing, lists, liveTimer, unheard, history>>
      /\ queues \in [Views -> Seq(SaveSet)] /\ ticks \in SUBSET Items
      /\ queues' = [queues EXCEPT ![v][k].at = "read", ![v][k].got = ticks]
  BY DEF SaveRead, panel, RoutinesInv, RoutineTypes
<1>2. PICK q \in Seq(SaveSet) : q = queues[v]
  BY <1>1
<1>3. PICK s \in SaveSet : s = q[k]
  BY <1>2
<1>4. PICK e : e = [s EXCEPT !.at = "read", !.got = ticks]
  OBVIOUS
<1>5. /\ e \in SaveSet /\ e.at = "read" /\ e.got = ticks /\ e.item = s.item /\ e.on = s.on /\ e.list = s.list
  BY <1>1, <1>4 DEF SaveSet
<1>6. PICK r : r = [q EXCEPT ![k] = e]
  OBVIOUS
<1>7. /\ r \in Seq(SaveSet) /\ DOMAIN r = DOMAIN q /\ r[k] = e /\ \A j \in DOMAIN q : j # k => r[j] = q[j]
  BY <1>2, <1>5, <1>6
<1>8. queues' = [queues EXCEPT ![v] = r]
  BY <1>1, <1>2, <1>3, <1>4, <1>6
<1>9. /\ queues' \in [Views -> Seq(SaveSet)] /\ queues'[v] = r /\ \A w \in Views : w # v => queues'[w] = queues[w]
  BY <1>1, <1>7, <1>8
<1>10. \A w \in Views : /\ DOMAIN queues'[w] = DOMAIN queues[w]
                        /\ \A j \in DOMAIN queues[w] :
                             /\ queues'[w][j].item = queues[w][j].item /\ queues'[w][j].on = queues[w][j].on
                             /\ queues'[w][j].list = queues[w][j].list
                             /\ queues'[w][j] = queues[w][j] \/ (queues'[w][j].at = "read" /\ queues'[w][j].got = ticks)
  BY <1>2, <1>3, <1>5, <1>7, <1>9
<1>11. SameSaves(queues, queues')
  BY <1>10 DEF SameSaves
<1>12. RoutineTypes'
  BY <1>1, <1>9 DEF RoutinesInv, RoutineTypes, history
<1>13. OnOwnLists(queues', lists')
  <2>1. ASSUME NEW w \in Views, NEW j \in DOMAIN queues'[w], queues'[w][j].list # 0
        PROVE  /\ queues'[w][j].list \in DOMAIN lists /\ lists[queues'[w][j].list].view = w
               /\ queues'[w][j].item \in lists[queues'[w][j].list].items
    BY <1>10, <2>1 DEF RoutinesInv, OnOwnLists
  <2>2. QED
    BY <1>1, <2>1 DEF OnOwnLists
<1>14. ReadIsStored'
  BY <1>1, <1>10 DEF RoutinesInv, ReadIsStored
<1>15. AllAsked'
  BY <1>1, <1>11, AskedAlike DEF RoutinesInv, AllAsked, history
<1>16. OneDrawing' /\ ListsInOrder'
  BY <1>1 DEF RoutinesInv, OneDrawing, ListsInOrder, history
<1>17. Drawn'
  <2>1. Undisturbed' <=> Undisturbed
    BY <1>1 DEF Undisturbed, history
  <2>2. ASSUME Undisturbed, lists # <<>>, NEW i \in routine \ unsure
        PROVE  Pictured(queues'[lists[1].view], i, i \in lists[1].on, i \in ticks)
    <3>1. lists[1].view \in Views
      <4>1. 1 \in DOMAIN lists
        BY <2>2 DEF RoutinesInv, RoutineTypes
      <4>2. QED
        BY <2>2, <4>1, TheList
    <3>2. PICK o, p : o = queues[lists[1].view] /\ p = queues'[lists[1].view]
      OBVIOUS
    <3>3. DOMAIN p = DOMAIN o /\ \A j \in DOMAIN o : p[j].item = o[j].item /\ p[j].on = o[j].on /\ p[j].list = o[j].list
      BY <1>10, <3>1, <3>2
    <3>4. \A j : Mine(p, j, i) <=> Mine(o, j, i)
      BY <3>3 DEF Mine
    <3>5. PICK was \in BOOLEAN : was = (i \in lists[1].on)
      BY Truth
    <3>6. PICK in \in BOOLEAN : in = (i \in ticks)
      BY Truth
    <3>7. Pictured(o, i, was, in)
      BY <2>2, <3>2, <3>5, <3>6 DEF RoutinesInv, Drawn
    <3>8. Pictured(p, i, was, in)
      BY <3>3, <3>4, <3>7 DEF Pictured
    <3>9. QED
      BY <3>2, <3>5, <3>6, <3>8
  <2>3. QED
    BY <1>1, <2>1, <2>2 DEF RoutinesInv, Drawn, history
<1>18. QED
  BY <1>12, <1>13, <1>14, <1>15, <1>16, <1>17 DEF RoutinesInv

\* The queues without their first save of checklist v.
WithoutFirst(qs, v) == [qs EXCEPT ![v] = RemoveAt(@, 1)]
LEMMA Popped ==
    ASSUME NEW qs, qs \in [Views -> Seq(SaveSet)], NEW v \in Views, 1 \in DOMAIN qs[v],
           NEW p, p = WithoutFirst(qs, v)
    PROVE  /\ p \in [Views -> Seq(SaveSet)] /\ (\A w \in Views \ {v} : p[w] = qs[w]) /\ p[v] = RemoveAt(qs[v], 1)
           /\ \A w \in Views : \A k \in DOMAIN p[w] : \E j \in DOMAIN qs[w] : p[w][k] = qs[w][j]
<1>1. PICK q \in Seq(SaveSet) : q = qs[v]
  OBVIOUS
<1>2. RemoveAt(q, 1) \in Seq(SaveSet)
  BY <1>1, RemoveOne
<1>3. \A k \in DOMAIN RemoveAt(q, 1) : \E j \in DOMAIN q : RemoveAt(q, 1)[k] = q[j]
  BY <1>1, RemovedFrom
<1>4. p = [qs EXCEPT ![v] = RemoveAt(q, 1)]
  BY <1>1 DEF WithoutFirst
<1>5. p \in [Views -> Seq(SaveSet)] /\ (\A w \in Views \ {v} : p[w] = qs[w]) /\ p[v] = RemoveAt(q, 1)
  BY <1>2, <1>4
<1>6. ASSUME NEW w \in Views, NEW k \in DOMAIN p[w] PROVE \E j \in DOMAIN qs[w] : p[w][k] = qs[w][j]
  <2>1. CASE w = v
    BY <1>1, <1>3, <1>5, <2>1
  <2>2. CASE w # v
    BY <1>5, <2>2
  <2>3. QED
    BY <2>1, <2>2
<1>7. QED
  BY <1>1, <1>5, <1>6

LEMMA RefusedSave ==
    ASSUME NEW s \in SaveSet
    PROVE  /\ Refused(s) \in SaveSet /\ Refused(s).at # "read"
           /\ Refused(s).item = s.item /\ Refused(s).on = s.on /\ Refused(s).list = s.list
<1>1. CASE s.at = "read"
  BY <1>1 DEF Refused, SaveSet
<1>2. CASE s.at # "read"
  BY <1>2 DEF Refused
<1>3. QED
  BY <1>1, <1>2

RefusedAll(p) == [w \in Views |-> [j \in DOMAIN p[w] |-> Refused(p[w][j])]]
LEMMA RefusedSaves ==
    ASSUME NEW p, p \in [Views -> Seq(SaveSet)], NEW new, new = RefusedAll(p)
    PROVE  /\ new \in [Views -> Seq(SaveSet)] /\ SameSaves(p, new)
           /\ \A w \in Views : \A j \in DOMAIN p[w] : new[w][j].list = p[w][j].list /\ new[w][j].at # "read"
<1>1. ASSUME NEW w \in Views, NEW j \in DOMAIN p[w]
      PROVE  /\ new[w][j] \in SaveSet /\ new[w][j].at # "read" /\ new[w][j].list = p[w][j].list
             /\ new[w][j].item = p[w][j].item /\ new[w][j].on = p[w][j].on
  <2>1. PICK s \in SaveSet : s = p[w][j]
    OBVIOUS
  <2>2. new[w][j] = Refused(s)
    BY <2>1 DEF RefusedAll
  <2>3. QED
    BY <2>1, <2>2, RefusedSave
<1>2. ASSUME NEW w \in Views PROVE new[w] \in Seq(SaveSet) /\ DOMAIN new[w] = DOMAIN p[w]
  <2>1. PICK n \in Nat : DOMAIN p[w] = 1..n
    OBVIOUS
  <2>2. new[w] = [j \in 1..n |-> new[w][j]]
    BY <2>1 DEF RefusedAll
  <2>3. new[w] \in [1..n -> SaveSet]
    BY <1>1, <2>1, <2>2
  <2>4. QED
    BY SMTT(60), <2>1, <2>3
<1>3. new \in [Views -> Seq(SaveSet)]
  BY <1>2 DEF RefusedAll
<1>4. QED
  BY <1>1, <1>2, <1>3 DEF SameSaves

LEMMA SaveWriteStep == ASSUME RoutinesInv, NEW v \in Views, NEW k \in DOMAIN queues[v], SaveWrite(v, k) PROVE RoutinesInv'
<1>1. /\ UNCHANGED <<routine, running, page, opened, drawing, lists, liveTimer, history>>
      /\ queues \in [Views -> Seq(SaveSet)] /\ ticks \in SUBSET Items /\ unheard' = TRUE
      /\ k = 1 /\ 1 \in DOMAIN queues[v] /\ queues[v][1].at = "read"
  BY DEF SaveWrite, Runnable, panel, RoutinesInv, RoutineTypes
<1>2. PICK s \in SaveSet : s = queues[v][1]
  BY <1>1
<1>3. s.got = ticks /\ s.item \in Items /\ s.on \in BOOLEAN
  BY <1>1, <1>2 DEF RoutinesInv, ReadIsStored, SaveSet
<1>4. ticks' = IF s.on THEN ticks \cup {s.item} ELSE ticks \ {s.item}
  BY <1>1, <1>2, <1>3 DEF SaveWrite
<1>5. PICK p : p = WithoutFirst(queues, v)
  OBVIOUS
<1>6. p = Pop(v, k)
  BY <1>1, <1>5 DEF Pop, WithoutFirst
<1>7. queues' = RefusedAll(p)
  BY <1>6 DEF SaveWrite, RefusedAll
<1>8. /\ p \in [Views -> Seq(SaveSet)] /\ (\A w \in Views \ {v} : p[w] = queues[w]) /\ p[v] = RemoveAt(queues[v], 1)
      /\ \A w \in Views : \A j \in DOMAIN p[w] : \E h \in DOMAIN queues[w] : p[w][j] = queues[w][h]
  BY <1>1, <1>5, Popped
<1>9. /\ queues' \in [Views -> Seq(SaveSet)] /\ SameSaves(p, queues')
      /\ \A w \in Views : \A j \in DOMAIN p[w] : queues'[w][j].list = p[w][j].list /\ queues'[w][j].at # "read"
  <2>1. PICK new : new = queues' /\ new = RefusedAll(p)
    BY <1>7
  <2>2. p \in [Views -> Seq(SaveSet)]
    BY <1>8
  <2>3. /\ new \in [Views -> Seq(SaveSet)] /\ SameSaves(p, new)
        /\ \A w \in Views : \A j \in DOMAIN p[w] : new[w][j].list = p[w][j].list /\ new[w][j].at # "read"
    BY <2>1, <2>2, RefusedSaves
  <2>4. QED
    BY <2>1, <2>3
<1>10. \A w \in Views : /\ DOMAIN queues'[w] = DOMAIN p[w]
                        /\ \A j \in DOMAIN p[w] : queues'[w][j].item = p[w][j].item
  BY <1>9 DEF SameSaves
<1>11. RoutineTypes'
  BY <1>1, <1>3, <1>4, <1>9 DEF RoutinesInv, RoutineTypes, history
<1>12. OnOwnLists(queues', lists')
  <2>1. ASSUME NEW w \in Views, NEW j \in DOMAIN queues'[w], queues'[w][j].list # 0
        PROVE  /\ queues'[w][j].list \in DOMAIN lists /\ lists[queues'[w][j].list].view = w
               /\ queues'[w][j].item \in lists[queues'[w][j].list].items
    <3>1. PICK h \in DOMAIN queues[w] : p[w][j] = queues[w][h]
      BY <1>8, <1>10
    <3>2. queues'[w][j].list = queues[w][h].list /\ queues'[w][j].item = queues[w][h].item
      BY <1>9, <1>10, <3>1
    <3>3. QED
      BY <2>1, <3>2 DEF RoutinesInv, OnOwnLists
  <2>2. QED
    BY <1>1, <2>1 DEF OnOwnLists
<1>13. ReadIsStored'
  BY <1>9, <1>10 DEF ReadIsStored
<1>14. AllAsked'
  <2>1. ASSUME NEW i \in Items PROVE Asked(queues', i, tapped[i], i \in ticks')
    <3>1. PICK was \in BOOLEAN : was = (i \in ticks)
      BY Truth
    <3>2. PICK in \in BOOLEAN : in = (i \in ticks')
      BY Truth
    <3>3. Asked(queues, i, tapped[i], was)
      BY <3>1 DEF RoutinesInv, AllAsked
    <3>4. queues[v][1].item # i => in = was
      BY <1>2, <1>4, <3>1, <3>2
    <3>5. queues[v][1].item = i => in = queues[v][1].on
      BY <1>2, <1>3, <1>4, <3>2
    <3>6. Asked(p, i, tapped[i], in)
      <4>1. p \in [Views -> Seq(SaveSet)] /\ (\A w \in Views \ {v} : p[w] = queues[w]) /\ p[v] = RemoveAt(queues[v], 1)
        BY <1>8
      <4>2. queues \in [Views -> Seq(SaveSet)] /\ 1 \in DOMAIN queues[v]
        BY <1>1
      <4>3. QED
        BY <3>3, <3>4, <3>5, <4>1, <4>2, AskedPop
    <3>7. Asked(queues', i, tapped[i], in)
      BY <1>9, <3>6, AskedAlike
    <3>8. QED
      BY <3>2, <3>7
  <2>2. QED
    BY <1>1, <2>1 DEF AllAsked, history
<1>15. OneDrawing' /\ ListsInOrder' /\ Drawn'
  BY <1>1 DEF RoutinesInv, OneDrawing, ListsInOrder, Drawn, Undisturbed, history
<1>16. QED
  BY <1>11, <1>12, <1>13, <1>14, <1>15 DEF RoutinesInv

LEMMA SaveFailsStep == ASSUME RoutinesInv, NEW v \in Views, NEW k \in DOMAIN queues[v], SaveFails(v, k) PROVE RoutinesInv'
<1>1. /\ UNCHANGED <<routine, ticks, running, page, opened, drawing, liveTimer, unheard, overlapped>>
      /\ queues \in [Views -> Seq(SaveSet)] /\ ticks \in SUBSET Items /\ lists \in Seq(ListSet)
      /\ k = 1 /\ 1 \in DOMAIN queues[v] /\ drawing \in Seq(DrawingSet)
  BY DEF SaveFails, Runnable, RoutinesInv, RoutineTypes
<1>2. PICK s \in SaveSet : s = queues[v][1]
  BY <1>1
<1>3. s.item \in Items /\ s.on \in BOOLEAN
  BY DEF SaveSet
<1>4. PICK p : p = queues'
  OBVIOUS
<1>5. /\ p = [queues EXCEPT ![v] = RemoveAt(@, 1)]
      /\ tapped' = [tapped EXCEPT ![s.item] = Unknown]
      /\ unsure' = IF \E j \in DOMAIN queues[v] : j # 1 /\ queues[v][j].item = s.item
                   THEN unsure \cup {s.item} ELSE unsure
  BY <1>1, <1>2, <1>4 DEF SaveFails, Pop
<1>6. /\ p \in [Views -> Seq(SaveSet)] /\ (\A w \in Views \ {v} : p[w] = queues[w]) /\ p[v] = RemoveAt(queues[v], 1)
      /\ \A w \in Views : \A j \in DOMAIN p[w] : \E h \in DOMAIN queues[w] : p[w][j] = queues[w][h]
  <2>1. p = WithoutFirst(queues, v)
    BY <1>5 DEF WithoutFirst
  <2>2. QED
    BY <1>1, <2>1, Popped
\* What it takes back on its list.
<1>7. /\ lists' \in Seq(ListSet) /\ DOMAIN lists' = DOMAIN lists /\ Len(lists') = Len(lists) /\ ListsInOrder'
      /\ \A j \in DOMAIN lists : /\ lists'[j].view = lists[j].view /\ lists'[j].items = lists[j].items
                                 /\ j # s.list => lists'[j] = lists[j]
                                 /\ j = s.list => lists'[j].on = IF s.on THEN lists[j].on \ {s.item}
                                                                 ELSE lists[j].on \cup {s.item}
  <2>1. CASE s.list = 0
    <3>1. lists' = lists
      BY <1>1, <1>2, <2>1 DEF SaveFails
    <3>2. 0 \notin DOMAIN lists
      BY <1>1
    <3>3. QED
      BY <1>1, <2>1, <3>1, <3>2 DEF RoutinesInv, ListsInOrder
  <2>2. CASE s.list # 0
    <3>1. PICK n : n = s.list
      OBVIOUS
    <3>2. n \in DOMAIN lists /\ s.item \in lists[n].items
      BY <1>1, <1>2, <2>2, <3>1 DEF RoutinesInv, OnOwnLists
    <3>3. lists[n] \in ListSet
      BY <1>1, <3>2
    <3>4. lists[n].on \in SUBSET Items
      BY <3>3 DEF ListSet
    <3>5. PICK on \in SUBSET Items : on = IF s.on THEN lists[n].on \ {s.item} ELSE lists[n].on \cup {s.item}
      BY <1>3, <3>4
    <3>6. on \subseteq lists[n].items
      BY <3>2, <3>5 DEF RoutinesInv, ListsInOrder
    <3>7. lists' = [lists EXCEPT ![n].on = on]
      BY <1>1, <1>2, <2>2, <3>1, <3>5 DEF SaveFails
    <3>8. /\ lists' \in Seq(ListSet) /\ DOMAIN lists' = DOMAIN lists /\ Len(lists') = Len(lists) /\ lists'[n].on = on
          /\ \A j \in DOMAIN lists : lists'[j].view = lists[j].view /\ lists'[j].items = lists[j].items
          /\ \A j \in DOMAIN lists : j # n => lists'[j] = lists[j]
          /\ ListsInOrder'
      BY <1>1, <3>2, <3>6, <3>7, ListChange DEF RoutinesInv
    <3>9. \A j \in DOMAIN lists : /\ j # s.list => lists'[j] = lists[j]
                                  /\ j = s.list => lists'[j].on = IF s.on THEN lists[j].on \ {s.item}
                                                                  ELSE lists[j].on \cup {s.item}
      BY <3>1, <3>5, <3>8
    <3>10. QED
      BY <3>8, <3>9
  <2>3. QED
    BY <2>1, <2>2
<1>8. tapped' \in [Items -> {Off, On, Unknown}] /\ unsure' \in SUBSET Items
  BY <1>3, <1>5 DEF RoutinesInv, RoutineTypes
<1>9. RoutineTypes'
  BY <1>1, <1>4, <1>6, <1>7, <1>8 DEF RoutinesInv, RoutineTypes
<1>10. OnOwnLists(queues', lists')
  <2>1. ASSUME NEW w \in Views, NEW j \in DOMAIN p[w], p[w][j].list # 0
        PROVE  /\ p[w][j].list \in DOMAIN lists' /\ lists'[p[w][j].list].view = w
               /\ p[w][j].item \in lists'[p[w][j].list].items
    <3>1. PICK h \in DOMAIN queues[w] : p[w][j] = queues[w][h]
      BY <1>6
    <3>2. PICK n : n = p[w][j].list
      OBVIOUS
    <3>3. n \in DOMAIN lists /\ lists[n].view = w /\ p[w][j].item \in lists[n].items
      BY <2>1, <3>1, <3>2 DEF RoutinesInv, OnOwnLists
    <3>4. QED
      BY <1>7, <3>2, <3>3
  <2>2. QED
    BY <1>4, <2>1 DEF OnOwnLists
<1>11. ReadIsStored'
  <2>1. ASSUME NEW w \in Views, NEW j \in DOMAIN p[w], p[w][j].at = "read" PROVE p[w][j].got = ticks
    <3>1. PICK h \in DOMAIN queues[w] : p[w][j] = queues[w][h]
      BY <1>6
    <3>2. QED
      BY <2>1, <3>1 DEF RoutinesInv, ReadIsStored
  <2>2. QED
    BY <1>1, <1>4, <2>1 DEF ReadIsStored
<1>12. AllAsked'
  <2>1. ASSUME NEW i \in Items PROVE Asked(p, i, tapped'[i], i \in ticks)
    <3>1. CASE i = s.item
      <4>1. tapped'[i] = Unknown
        BY <1>3, <1>5, <3>1 DEF RoutinesInv, RoutineTypes
      <4>2. QED
        BY <4>1 DEF Asked
    <3>2. CASE i # s.item
      <4>1. tapped'[i] = tapped[i]
        BY <1>5, <3>2 DEF RoutinesInv, RoutineTypes
      <4>2. PICK was \in BOOLEAN : was = (i \in ticks)
        BY Truth
      <4>3. Asked(queues, i, tapped[i], was)
        BY <4>2 DEF RoutinesInv, AllAsked
      <4>4. Asked(p, i, tapped[i], was)
        BY <1>1, <1>2, <1>6, <3>2, <4>3, AskedPop
      <4>5. QED
        BY <4>1, <4>2, <4>4
    <3>3. QED
      BY <3>1, <3>2
  <2>2. QED
    BY <1>1, <1>4, <2>1 DEF AllAsked
<1>13. OneDrawing'
  BY <1>1, <1>7 DEF RoutinesInv, OneDrawing
<1>14. Drawn'
  <2>1. Undisturbed' <=> Undisturbed
    BY <1>1 DEF Undisturbed
  <2>2. ASSUME Undisturbed, lists # <<>>
        PROVE  /\ drawing = <<>> /\ routine # {} /\ lists' # <<>> /\ lists'[1].items = routine
               /\ lists'[1].view = lists[1].view
               /\ \A i \in routine \ unsure' : Pictured(p[lists[1].view], i, i \in lists'[1].on, i \in ticks)
    <3>1. 1 \in DOMAIN lists
      BY <1>1, <2>2
    <3>2. /\ DOMAIN lists = {1} /\ drawing = <<>> /\ routine # {} /\ lists[1].items = routine
          /\ lists[1].view \in Views
      BY <2>2, <3>1, TheList
    <3>3. lists' # <<>> /\ lists'[1].items = routine /\ lists'[1].view = lists[1].view
      BY <1>7, <3>1, <3>2
    <3>4. ASSUME NEW i \in routine \ unsure' PROVE Pictured(p[lists[1].view], i, i \in lists'[1].on, i \in ticks)
      <4>1. PICK w \in Views : w = lists[1].view
        BY <3>2
      <4>2. PICK was \in BOOLEAN : was = (i \in lists[1].on)
        BY Truth
      <4>3. PICK shown \in BOOLEAN : shown = (i \in lists'[1].on)
        BY Truth
      <4>4. PICK in \in BOOLEAN : in = (i \in ticks)
        BY Truth
      <4>5. PICK q \in Seq(SaveSet) : q = queues[w]
        BY <1>1
      <4>6. i \in routine \ unsure
        BY <1>5
      <4>7. Pictured(q, i, was, in)
        BY <2>2, <4>1, <4>2, <4>4, <4>5, <4>6 DEF RoutinesInv, Drawn
      <4>8. s.list # 0 => s.list = 1 /\ v = w
        BY <1>1, <1>2, <3>2, <4>1 DEF RoutinesInv, OnOwnLists
      <4>9. CASE v # w
        <5>1. s.list = 0 /\ p[w] = q
          BY <1>6, <4>5, <4>8, <4>9
        <5>2. shown = was
          <6>1. lists'[1] = lists[1]
            <7>1. 1 # s.list
              BY <5>1
            <7>2. QED
              BY <1>7, <3>1, <7>1
          <6>2. QED
            BY <4>2, <4>3, <6>1
        <5>3. QED
          BY <4>1, <4>3, <4>4, <4>7, <5>1, <5>2
      <4>10. CASE v = w
        <5>1. 1 \in DOMAIN q /\ q[1] = s /\ p[w] = RemoveAt(q, 1)
          BY <1>1, <1>2, <1>6, <4>5, <4>10
        <5>2. Mine(q, 1, i) => shown = ~q[1].on /\ \A j \in DOMAIN q : j # 1 => q[j].item # i
          <6>1. ASSUME Mine(q, 1, i) PROVE s.list = 1 /\ s.item = i
            BY <5>1, <6>1 DEF Mine
          <6>2. ASSUME Mine(q, 1, i), NEW j \in DOMAIN q, j # 1 PROVE q[j].item # i
            BY <1>5, <4>5, <4>10, <6>1, <6>2
          <6>3. ASSUME Mine(q, 1, i) PROVE shown = ~s.on
            <7>1. lists'[1].on = IF s.on THEN lists[1].on \ {i} ELSE lists[1].on \cup {i}
              BY <1>7, <3>1, <6>1, <6>3
            <7>2. CASE s.on
              BY <4>3, <7>1, <7>2
            <7>3. CASE ~s.on
              <8>1. i \in lists'[1].on
                BY <7>1, <7>3
              <8>2. s.on = FALSE
                BY <1>3, <7>3
              <8>3. QED
                BY <4>3, <8>1, <8>2
            <7>4. QED
              BY <7>2, <7>3
          <6>4. QED
            BY <5>1, <6>2, <6>3
        <5>3. ~Mine(q, 1, i) => shown = was
          <6>1. ASSUME ~Mine(q, 1, i) PROVE s.list # 1 \/ s.item # i
            BY <5>1, <6>1 DEF Mine
          <6>2. QED
            BY ZenonT(60), <1>7, <3>1, <4>2, <4>3, <6>1
        <5>4. Pictured(RemoveAt(q, 1), i, shown, in)
          BY <4>7, <5>1, <5>2, <5>3, PicturedPop
        <5>5. QED
          BY <4>1, <4>3, <4>4, <5>1, <5>4
      <4>11. QED
        BY <4>9, <4>10
    <3>5. QED
      BY <3>2, <3>3, <3>4
  <2>3. lists = <<>> => lists' = <<>>
    BY <1>1, <1>7
  <2>4. QED
    BY <1>1, <1>4, <2>1, <2>2, <2>3 DEF RoutinesInv, Drawn
<1>15. QED
  BY <1>7, <1>9, <1>10, <1>11, <1>12, <1>13, <1>14 DEF RoutinesInv

----------------------------------------------------------------------------
(* Changes of the class documents.                                           *)

LEMMA FeedReportsStep == ASSUME RoutinesInv, FeedReports PROVE RoutinesInv'
<1>1. UNCHANGED <<routine, ticks, running, page, opened, drawing, tapped, overlapped>> /\ unheard' = FALSE /\ Notified
  BY DEF FeedReports
<1>2. CASE page = "hub"
  <2>1. Emptied(queues) /\ UNCHANGED liveTimer
    BY <1>1, <1>2 DEF Notified
  <2>2. running' \in BOOLEAN /\ liveTimer' \in BOOLEAN /\ unheard' \in BOOLEAN /\ opened' \in 0..MaxViews /\ page' = "hub"
    BY <1>1, <1>2, <2>1 DEF RoutinesInv, RoutineTypes
  <2>3. QED
    BY <1>1, <2>1, <2>2, EmptiedStep
<1>3. CASE page # "hub"
  <2>1. liveTimer' = (liveTimer \/ page = "routines") /\ UNCHANGED <<lists, queues, unsure>>
    BY <1>1, <1>3 DEF Notified
  <2>2. /\ routine' \in SUBSET Items /\ running' \in BOOLEAN /\ liveTimer' \in BOOLEAN /\ unheard' \in BOOLEAN
        /\ page' \in {"none", "hub", "routines"} /\ opened' \in 0..MaxViews /\ (page' = "routines" => opened' > 0)
    BY <1>1, <2>1 DEF RoutinesInv, RoutineTypes
  <2>3. ~Undisturbed'
    BY <1>1, <2>1 DEF Undisturbed
  <2>4. QED
    BY <1>1, <2>1, <2>2, <2>3, PanelStays
<1>4. QED
  BY <1>2, <1>3

LEMMA StartModeStep == ASSUME RoutinesInv, StartMode PROVE RoutinesInv'
<1>1. UNCHANGED <<routine, ticks, page, opened, drawing, unheard, tapped, overlapped>> /\ running' = TRUE /\ Notified
  BY DEF StartMode
<1>2. CASE page = "hub"
  <2>1. Emptied(queues) /\ UNCHANGED liveTimer
    BY <1>1, <1>2 DEF Notified
  <2>2. running' \in BOOLEAN /\ liveTimer' \in BOOLEAN /\ unheard' \in BOOLEAN /\ opened' \in 0..MaxViews /\ page' = "hub"
    BY <1>1, <1>2, <2>1 DEF RoutinesInv, RoutineTypes
  <2>3. QED
    BY <1>1, <2>1, <2>2, EmptiedStep
<1>3. CASE page # "hub"
  <2>1. liveTimer' = (liveTimer \/ page = "routines") /\ UNCHANGED <<lists, queues, unsure>>
    BY <1>1, <1>3 DEF Notified
  <2>2. /\ routine' \in SUBSET Items /\ running' \in BOOLEAN /\ liveTimer' \in BOOLEAN /\ unheard' \in BOOLEAN
        /\ page' \in {"none", "hub", "routines"} /\ opened' \in 0..MaxViews /\ (page' = "routines" => opened' > 0)
    BY <1>1, <2>1 DEF RoutinesInv, RoutineTypes
  <2>3. ~Undisturbed'
    BY <1>1, <2>1 DEF Undisturbed
  <2>4. QED
    BY <1>1, <2>1, <2>2, <2>3, PanelStays
<1>4. QED
  BY <1>2, <1>3

LEMMA OutsideStep == ASSUME RoutinesInv, ManagerEdits \/ StopMode PROVE RoutinesInv'
<1>1. /\ UNCHANGED <<ticks, page, opened, queues, drawing, lists, liveTimer, tapped, unsure, overlapped>>
      /\ routine' \in SUBSET Items /\ running' \in BOOLEAN /\ unheard' \in BOOLEAN
      /\ unheard' = TRUE \/ running' = FALSE
  BY DEF ManagerEdits, StopMode, panel, history, RoutinesInv, RoutineTypes
<1>2. /\ liveTimer' \in BOOLEAN /\ page' \in {"none", "hub", "routines"} /\ opened' \in 0..MaxViews
      /\ (page' = "routines" => opened' > 0)
  BY <1>1 DEF RoutinesInv, RoutineTypes
<1>3. ~Undisturbed'
  BY <1>1 DEF Undisturbed
<1>4. QED
  BY <1>1, <1>2, <1>3, PanelStays

LEMMA RoutinesInvStep == RoutinesInv /\ [RoutinesNext]_routinesVars => RoutinesInv'
<1>1. ASSUME RoutinesInv, UNCHANGED routinesVars PROVE RoutinesInv'
  <2>1. UNCHANGED <<routine, ticks, running, page, opened, queues, drawing, lists, liveTimer, unheard, tapped, unsure,
                    overlapped>>
    BY <1>1 DEF routinesVars, panel, history
  <2>2. /\ routine' \in SUBSET Items /\ running' \in BOOLEAN /\ liveTimer' \in BOOLEAN /\ unheard' \in BOOLEAN
        /\ page' \in {"none", "hub", "routines"} /\ opened' \in 0..MaxViews /\ (page' = "routines" => opened' > 0)
    BY <1>1, <2>1 DEF RoutinesInv, RoutineTypes
  <2>3. Undisturbed' => Undisturbed
    BY <2>1 DEF Undisturbed
  <2>4. QED
    BY <1>1, <2>1, <2>2, <2>3, PanelStays
<1>2. ASSUME RoutinesInv, RoutinesNext PROVE RoutinesInv'
  BY <1>2, OpenRoutinesStep, LeaveRoutinesStep, ReloadStep, ReadRoutinesStep, ReadDaysStep, RenderMemberStep, TapStep, BlurStep,
     SaveReadStep, SaveWriteStep, SaveFailsStep, FeedReportsStep, OutsideStep, StartModeStep DEF RoutinesNext
<1>3. QED
  BY <1>1, <1>2

LEMMA TicksFollow == RoutinesInv => TicksAgree
<1> SUFFICES ASSUME RoutinesInv, ListSettled PROVE TicksAgree
  BY DEF TicksAgree
<1>1. /\ page = "routines" /\ running /\ ~unheard /\ ~liveTimer /\ drawing = <<>>
      /\ \A v \in Views : queues[v] = <<>>
  BY DEF ListSettled, busy
<1>2. ASSUME ~overlapped
      PROVE  /\ Len(lists) = IF routine = {} THEN 0 ELSE 1
             /\ \A n \in DOMAIN lists :
                  /\ lists[n].items = routine
                  /\ lists[n].on \ unsure = (ticks \cap routine) \ unsure
  <2>1. Undisturbed
    BY <1>1, <1>2 DEF Undisturbed
  <2>2. lists \in Seq(ListSet) /\ (lists = <<>> <=> routine = {})
    BY <1>1, <2>1 DEF RoutinesInv, Drawn, RoutineTypes
  <2>3. ASSUME NEW n \in DOMAIN lists
        PROVE  /\ lists[n].items = routine /\ lists[n].on \ unsure = (ticks \cap routine) \ unsure
               /\ DOMAIN lists = {1}
    <3>1. n = 1 /\ DOMAIN lists = {1} /\ lists # <<>> /\ lists[1].items = routine /\ lists[1].view \in Views
      BY <2>1, TheList
    <3>2. \A i \in routine \ unsure : (i \in lists[1].on) = (i \in ticks)
      BY <1>1, <2>1, <3>1 DEF RoutinesInv, Drawn, Pictured, Mine
    <3>3. lists[1].on \subseteq routine
      BY <3>1 DEF RoutinesInv, ListsInOrder
    <3>4. QED
      BY <3>1, <3>2, <3>3
  <2>4. Len(lists) = IF routine = {} THEN 0 ELSE 1
    <3>1. CASE lists = <<>>
      BY <2>2, <3>1
    <3>2. CASE lists # <<>>
      <4>1. 1 \in DOMAIN lists
        BY <2>2, <3>2
      <4>2. DOMAIN lists = {1}
        BY <2>3, <4>1
      <4>3. Len(lists) = 1
        BY <2>2, <4>2
      <4>4. QED
        BY <2>2, <3>2, <4>3
    <3>3. QED
      BY <3>1, <3>2
  <2>5. QED
    BY <2>3, <2>4
<1>3. ASSUME NEW i \in Items, tapped[i] # Unknown PROVE tapped[i] = Asks(i \in ticks)
  <2>1. Asked(queues, i, tapped[i], i \in ticks)
    BY DEF RoutinesInv, AllAsked
  <2>2. \A v \in Views : \A k \in DOMAIN queues[v] : queues[v][k].item # i
    BY <1>1
  <2>3. QED
    BY <1>3, <2>1, <2>2 DEF Asked
<1>4. QED
  BY <1>2, <1>3 DEF TicksAgree

\* The checklist on screen, the stored document and the member's taps agree once all has
\* settled (RoutinesView, DashboardSection.scheduleLiveRefresh), for any items, checklists,
\* taps, reloads and failures.
THEOREM TheTicksAgree == RoutinesSpec => []TicksAgree
<1>1. RoutinesInit => RoutinesInv
  BY RoutinesInvInit
<1>2. RoutinesInv /\ [RoutinesNext]_routinesVars => RoutinesInv'
  BY RoutinesInvStep
<1>3. RoutinesInv => TicksAgree
  BY TicksFollow
<1>4. QED
  BY <1>1, <1>2, <1>3, PTL DEF RoutinesSpec

=============================================================================
