---------------------------- MODULE Designations ----------------------------
(***************************************************************************)
(* Who may take part in a shared note, as its file is renamed, moved and   *)
(* deleted, and the write policy of the databases that is made of it.  The *)
(* manager names the participants in an rtpart document at the path of the *)
(* note, its handlers take the document along (ParticipantController), it  *)
(* is replicated to the server, and redeployValidate builds the policy     *)
(* from the documents there (DeploymentController, validatePolicy.ts).     *)
(*                                                                         *)
(* The manager's device; files change places one event at a time, the      *)
(* handlers of the events and the redeployments run side by side.  Names   *)
(* of members, accounts and the service account are left out.              *)
(***************************************************************************)
EXTENDS Naturals, FiniteSets

CONSTANTS Pupils, SharedNotes,
          Homes, Outside,   \* the paths of the shared spaces by database, and those of none
          Gone,             \* no path
          MaxTurns, MaxRefusedPuts   \* bounds: what the manager does, writes that fail

Databases == DOMAIN Homes
Places == UNION {Homes[db] : db \in Databases}
ASSUME DesignationsAssumption ==
    /\ \A a, b \in Databases : a # b => Homes[a] \cap Homes[b] = {}
    /\ Places \cap Outside = {} /\ Gone \notin Places \cup Outside
    /\ {MaxTurns, MaxRefusedPuts} \subseteq Nat

NoPart == {Outside}                 \* no document, or a deleted one; no list is that
Lists == SUBSET Pupils
DbOf(path) == CHOOSE db \in Databases : path \in Homes[db]
Hands == {1, 2}
NoJob == [at |-> "idle"]

VARIABLES
    place,     \* where each file is, Gone before its creation and after its deletion
    part,      \* rtpart documents of the manager's databases: revision and list
    replicated,\* their lists at the server
    job,       \* handlers under way
    readOnly,  \* sharedReadOnly
    validateTimers,     \* validateTimers
    redeploy,  \* redeployValidate under way
    deployed,  \* the policy in each database
    recorded,  \* validatePolicyByDb
    wanted,    \* history: what the manager last named for the file
    hurried,   \* history: paths on which two handlers met or a write failed, and where files
               \* went from there, until the manager names anew
    doubted,   \* history: the last policy of the database was built too early, or refused
    tally

partVars == <<place, part, replicated, job, wanted, hurried>>
policyVars == <<readOnly, validateTimers, redeploy, deployed, recorded, doubted>>
designationVars == <<partVars, policyVars, tally>>


\* Faulty allowMapFromRtParts: an empty list counts as none.
allowMapNonEmpty(db) == [p \in {q \in Homes[db] : replicated[q] \notin {NoPart, {}}} |-> replicated[p]]

\* The lists of the policy: an empty one lets nobody in, no document nobody but by default.
allowMapFromRtParts(db) == [p \in {q \in Homes[db] : replicated[q] # NoPart} |-> replicated[p]]

DesignationsInit ==
    /\ place \in [SharedNotes -> Places \cup {Gone}]
    /\ \A f, g \in SharedNotes : f # g => place[f] = Gone \/ place[f] # place[g]
    /\ part = [p \in Places |-> [rev |-> 0, who |-> NoPart]]
    /\ replicated = [p \in Places |-> NoPart]
    /\ job = [j \in Hands |-> NoJob] /\ redeploy = [r \in Hands |-> NoJob]
    /\ readOnly \in BOOLEAN /\ validateTimers = {}
    /\ deployed = [db \in Databases |-> [ro |-> readOnly, allow |-> allowMapFromRtParts(db)]]
    /\ recorded = deployed
    /\ wanted = [f \in SharedNotes |-> NoPart] /\ hurried = {}
    /\ doubted = [db \in Databases |-> FALSE]
    /\ tally = [turns |-> 0, refusals |-> 0]

Counts(what, most) == tally[what] < most /\ tally' = [tally EXCEPT ![what] = @ + 1]
Write(p, who) == part' = [part EXCEPT ![p] = [rev |-> @.rev + 1, who |-> who]]
Later(db) == validateTimers' = IF readOnly THEN validateTimers \cup {db} ELSE validateTimers
Ends(j) == job' = [job EXCEPT ![j] = NoJob]

\* The handlers that have one of these paths in hand, and the files they are about.
Touching(paths) == {j \in Hands : job[j].at # "idle" /\ job[j].paths \cap paths # {}}
Starts(f, paths, rec) ==
    LET met == Touching(paths) IN
    \E j \in Hands :
        /\ job[j] = NoJob /\ \A i \in Hands : i < j => job[i] # NoJob
        /\ job' = [job EXCEPT ![j] = [at |-> rec.at, file |-> f, paths |-> paths,
                                      from |-> rec.from, to |-> rec.to, old |-> [rev |-> 0, who |-> NoPart]]]
        /\ hurried' = IF met # {} THEN hurried \cup UNION {paths, UNION {job[i].paths : i \in met}}
                      ELSE IF rec.at = "name" THEN hurried \ paths
                      ELSE hurried \cup IF rec.from \in hurried THEN paths ELSE {}

----------------------------------------------------------------------------
(* The files and their handlers                                            *)

\* A file is created at a free path.
CreateNote(f, p) ==
    /\ place[f] = Gone /\ Counts("turns", MaxTurns)
    /\ \A g \in SharedNotes : place[g] # p
    /\ place' = [place EXCEPT ![f] = p] /\ wanted' = [wanted EXCEPT ![f] = NoPart]
    /\ hurried' = hurried \cup IF Touching({p}) = {} THEN {} ELSE {p}
    /\ UNCHANGED <<part, replicated, job, policyVars>>

\* setFileRealtimeParticipants: null removes the document that is there, a list is put over it.
NameParticipantsOf(f, who) ==
    /\ place[f] \in Places /\ Counts("turns", MaxTurns)
    /\ wanted' = [wanted EXCEPT ![f] = who]
    /\ Starts(f, {place[f]}, [at |-> "name", from |-> place[f], to |-> place[f]])
    /\ UNCHANGED <<place, part, replicated, policyVars>>
Named(j) ==
    /\ job[j].at = "name"
    /\ LET p == job[j].from  who == wanted[job[j].file] IN
       /\ IF who = NoPart /\ part[p].who = NoPart THEN UNCHANGED part ELSE Write(p, who)
       /\ Later(DbOf(p))
    /\ Ends(j)
    /\ UNCHANGED <<place, replicated, wanted, hurried, readOnly, redeploy, deployed, recorded, doubted, tally>>

\* The file is renamed or moved, and onFileRenamed starts; outside the spaces a list has no place.
RenameNote(f, p) ==
    /\ place[f] # Gone /\ Counts("turns", MaxTurns)
    /\ \A g \in SharedNotes : place[g] # p
    /\ place' = [place EXCEPT ![f] = p]
    /\ wanted' = [wanted EXCEPT ![f] = IF p \in Places THEN @ ELSE NoPart]
    /\ Starts(f, {place[f], p}, [at |-> "renamed", from |-> place[f], to |-> p])
    /\ UNCHANGED <<part, replicated, policyVars>>
DeleteNote(f) ==
    /\ place[f] # Gone /\ Counts("turns", MaxTurns)
    /\ place' = [place EXCEPT ![f] = Gone] /\ wanted' = [wanted EXCEPT ![f] = NoPart]
    /\ Starts(f, {place[f]}, [at |-> "deleted", from |-> place[f], to |-> place[f]])
    /\ UNCHANGED <<part, replicated, policyVars>>

\* Both handlers read the document of the old path; without one they are done.
ReadsPart(j) ==
    /\ job[j].at \in {"renamed", "deleted"}
    /\ IF job[j].from \notin Places \/ part[job[j].from].who = NoPart THEN Ends(j)
       ELSE job' = [job EXCEPT ![j].at = IF job[j].at = "renamed" /\ job[j].to \in Places
                                         THEN "write" ELSE "clear",
                               ![j].old = part[job[j].from]]
    /\ UNCHANGED <<place, part, replicated, wanted, hurried, policyVars, tally>>

\* The new path first; a write that fails ends the handler with the document at the old one.
WritesNew(j) ==
    /\ job[j].at = "write"
    /\ \/ /\ Write(job[j].to, job[j].old.who)
          /\ job' = [job EXCEPT ![j].at = "clear"] /\ UNCHANGED <<hurried, tally>>
       \/ /\ Counts("refusals", MaxRefusedPuts) /\ Ends(j)
          /\ hurried' = hurried \cup job[j].paths /\ UNCHANGED part
    /\ UNCHANGED <<place, replicated, wanted, policyVars>>

\* Faulty ClearsOld: the document stays at the old path.
LeavesOld(j) ==
    /\ job[j].at = "clear"
    /\ UNCHANGED part
    /\ validateTimers' = IF readOnly THEN validateTimers \cup {DbOf(p) : p \in {job[j].from, job[j].to} \cap Places} ELSE validateTimers
    /\ Ends(j)
    /\ UNCHANGED <<place, replicated, wanted, hurried, readOnly, redeploy, deployed, recorded, doubted, tally>>

\* The document of the old path is deleted unless it has changed since.
ClearsOld(j) ==
    /\ job[j].at = "clear"
    /\ IF part[job[j].from] = job[j].old THEN Write(job[j].from, NoPart) ELSE UNCHANGED part
    /\ validateTimers' = IF readOnly THEN validateTimers \cup {DbOf(p) : p \in {job[j].from, job[j].to} \cap Places} ELSE validateTimers
    /\ Ends(j)
    /\ UNCHANGED <<place, replicated, wanted, hurried, readOnly, redeploy, deployed, recorded, doubted, tally>>

ReplicatePart(p) ==
    /\ replicated[p] # part[p].who /\ replicated' = [replicated EXCEPT ![p] = part[p].who]
    /\ UNCHANGED <<place, part, job, wanted, hurried, policyVars, tally>>

----------------------------------------------------------------------------
(* The policy                                                              *)

StartsRedeploy(dbs) ==
    \E r \in Hands : /\ redeploy[r] = NoJob /\ \A i \in Hands : i < r => redeploy[i] # NoJob
                     /\ redeploy' = [redeploy EXCEPT ![r] = [at |-> "build", left |-> dbs]]

\* setSharedReadOnly reaches redeployValidate after the documents for members and server.
SetReadOnlyPolicy ==
    /\ Counts("turns", MaxTurns) /\ readOnly' = ~readOnly
    /\ StartsRedeploy(Databases)
    /\ UNCHANGED <<partVars, validateTimers, deployed, recorded, doubted>>

\* The timer of requestValidateRedeploy; another request would have started it anew.
ValidateTimer(db) ==
    /\ db \in validateTimers /\ validateTimers' = validateTimers \ {db}
    /\ StartsRedeploy({db})
    /\ UNCHANGED <<partVars, readOnly, deployed, recorded, doubted, tally>>

HoldsPolicy(r, db) == redeploy[r].at = "put" /\ redeploy[r].db = db
GoesOn(r, left) == redeploy' = [redeploy EXCEPT ![r] = IF left = {} THEN NoJob ELSE [at |-> "build", left |-> left]]

\* One database: the policy is built from the documents at the server; one that is recorded
\* already is not sent again.
BuildPolicy(r) ==
    /\ redeploy[r].at = "build"
    /\ \E db \in redeploy[r].left :
        LET policy == [ro |-> readOnly, allow |-> allowMapFromRtParts(db)] IN
        /\ doubted' = [doubted EXCEPT ![db] = \/ \E p \in Homes[db] : replicated[p] # part[p].who
                                              \/ \E i \in Hands \ {r} : HoldsPolicy(i, db)]
        /\ IF recorded[db] = policy THEN GoesOn(r, redeploy[r].left \ {db})
           ELSE redeploy' = [redeploy EXCEPT ![r] = [at |-> "put", db |-> db, policy |-> policy,
                                                     left |-> redeploy[r].left \ {db}]]
    /\ UNCHANGED <<partVars, readOnly, validateTimers, deployed, recorded, tally>>
PutPolicy(r) ==
    LET task == redeploy[r] IN
    /\ task.at = "put" /\ GoesOn(r, task.left)
    /\ \/ /\ deployed' = [deployed EXCEPT ![task.db] = task.policy]
          /\ recorded' = [recorded EXCEPT ![task.db] = task.policy] /\ UNCHANGED <<doubted, tally>>
       \/ /\ Counts("refusals", MaxRefusedPuts) /\ doubted' = [doubted EXCEPT ![task.db] = TRUE]
          /\ UNCHANGED <<deployed, recorded>>
    /\ UNCHANGED <<partVars, readOnly, validateTimers>>

----------------------------------------------------------------------------
DesignationsNext ==
    \/ \E f \in SharedNotes : \/ \E p \in Places \cup Outside : CreateNote(f, p) \/ RenameNote(f, p)
                        \/ \E who \in Lists \cup {NoPart} : NameParticipantsOf(f, who)
                        \/ DeleteNote(f)
    \/ \E j \in Hands : Named(j) \/ ReadsPart(j) \/ WritesNew(j) \/ ClearsOld(j)
    \/ \E p \in Places : ReplicatePart(p)
    \/ SetReadOnlyPolicy
    \/ \E db \in Databases : ValidateTimer(db)
    \/ \E r \in Hands : BuildPolicy(r) \/ PutPolicy(r)

DesignationsSpec == DesignationsInit /\ [][DesignationsNext]_designationVars

----------------------------------------------------------------------------
(* Properties                                                              *)

\* A file has at its path what the manager last named for it, wherever it was moved meanwhile, and
\* a new file inherits nothing from one that left its path, unless two handlers met on that path
\* or one the file came from, or a write failed there (ParticipantController.ts:248-332).
DesignationFollows ==
    \A f \in SharedNotes : place[f] \in Places /\ place[f] \notin hurried /\ Touching({place[f]}) = {}
        => part[place[f]].who = wanted[f]

\* Under the read-only policy, when no redeployment is under way or due, a database lets in exactly
\* those the documents of the manager name, unless the last policy was built before the documents
\* had arrived or beside another, or was refused (DeploymentController.ts:101-175).
PolicyFollows ==
    \A db \in Databases :
        readOnly /\ db \notin validateTimers /\ ~doubted[db]
        /\ (\A r \in Hands : redeploy[r] = NoJob) /\ (\A j \in Hands : job[j] = NoJob)
        => deployed[db] = [ro |-> TRUE,
                           allow |-> [p \in {q \in Homes[db] : part[q].who # NoPart} |-> part[p].who]]

\* Whom the manager names for a file, and nobody else, gets at the file in its place, and in
\* the end the database lets in whom the documents name (ParticipantController.ts,
\* DeploymentController.ts).
NamedAreLetIn == DesignationFollows /\ PolicyFollows
============================================================================
