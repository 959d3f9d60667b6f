---------------------------- MODULE PluginDeploy ----------------------------
(***************************************************************************)
(* Plugins the teacher deploys to the class.  A deployment is a document   *)
(* of the class space; a member's device offers it once a session, writes  *)
(* its files into the vault's configuration when the member agrees and     *)
(* remembers the hash of what it installed.  The session may end at any    *)
(* step: with the question on screen, between two files, or after the last *)
(* file and before the hash is saved.                                      *)
(***************************************************************************)
EXTENDS Integers, Sequences, FiniteSets, SequencesExt

CONSTANTS
    Plugins,
    Files,       \* files of a plugin
    Mine,        \* plugins whose deployment names this member, or nobody
    Nothing,     \* nothing deployed, installed, handled or under way
    MaxDeploys,  \* bound: deployments and withdrawals
    MaxTrouble   \* bound: postponed answers, failed installations, early exits

VARIABLES
    deployed,   \* [Plugins -> hash or Nothing]: the teacher's copy of the class space
    received,   \* [Plugins -> hash or Nothing]: the member's copy
    announced,  \* onPluginDeployChange is due
    session,    \* Nothing, or the session: whether the link of the class is up
    handling,   \* Nothing, or the run of handleIncoming
    prompted,   \* promptedThisSession
    handled,    \* [Plugins -> hash or Nothing]: settings.handledPluginDeploys
    files,      \* [Plugins -> [Files -> hash or Nothing]]
    torn,       \* history: plugins an installation of which broke off
    changes, trouble

deployVars == <<deployed, received, announced, session, handling, prompted, handled, files,
                torn, changes, trouble>>

\* A hash stands for the files of one state of a plugin; deploying the same files
\* again gives the same hash.
Hashes == {"a", "b"}
Trouble == trouble < MaxTrouble /\ trouble' = trouble + 1

DeployInit ==
    /\ deployed = [p \in Plugins |-> Nothing] /\ received = deployed
    /\ announced = FALSE /\ session = Nothing /\ handling = Nothing /\ prompted = {}
    /\ handled = deployed /\ files = [p \in Plugins |-> [f \in Files |-> Nothing]]
    /\ torn = {} /\ changes = 0 /\ trouble = 0

-----------------------------------------------------------------------------
Change(p, h) ==
    /\ changes < MaxDeploys /\ changes' = changes + 1
    /\ deployed' = [deployed EXCEPT ![p] = h]
    /\ UNCHANGED <<received, announced, session, handling, prompted, handled, files, torn, trouble>>
Deploy(p, h) == deployed[p] # h /\ Change(p, h)
Undeploy(p) == deployed[p] # Nothing /\ Change(p, Nothing)

\* Replication, and LocalApplier's call for a document of this kind.
Receive(p) ==
    /\ session # Nothing /\ session.ready /\ received[p] # deployed[p]
    /\ received' = [received EXCEPT ![p] = deployed[p]]
    /\ announced' = TRUE
    /\ UNCHANGED <<deployed, session, handling, prompted, handled, files, torn, changes, trouble>>

-----------------------------------------------------------------------------
\* handleIncoming: one run at a time, nothing without the class space.
HandleIncoming ==
    IF handling = Nothing /\ session.ready
    THEN handling' = [pc |-> "list", handled |-> handled, docs |-> <<>>, left |-> {}]
    ELSE UNCHANGED handling
OnPluginDeployChange ==
    /\ session # Nothing /\ announced
    /\ announced' = FALSE
    /\ HandleIncoming
    /\ UNCHANGED <<deployed, received, session, prompted, handled, files, torn, changes, trouble>>
\* The start of a session calls it once, when the mode has started.
StartSession ==
    /\ session = Nothing
    /\ session' = [ready |-> FALSE]
    /\ UNCHANGED <<deployed, received, announced, handling, prompted, handled, files, torn, changes, trouble>>
ModeStarted ==
    /\ session # Nothing /\ ~session.ready
    /\ session' = [ready |-> TRUE]
    /\ handling' = [pc |-> "list", handled |-> handled, docs |-> <<>>, left |-> {}]
    /\ UNCHANGED <<deployed, received, announced, prompted, handled, files, torn, changes, trouble>>

ListDeployments ==
    /\ handling # Nothing /\ handling.pc = "list"
    /\ handling' = [handling EXCEPT !.pc = "next",
                      !.docs = SetToSeq({[plugin |-> p, hash |-> received[p]] :
                                           p \in {q \in Plugins : received[q] # Nothing}})]
    /\ UNCHANGED <<deployed, received, announced, session, prompted, handled, files, torn, changes, trouble>>

Doc == handling.docs[1]
ShouldOfferInstall(d) == d.plugin \in Mine /\ handling.handled[d.plugin] # d.hash
NextDeployment ==
    /\ handling # Nothing /\ handling.pc = "next"
    /\ IF handling.docs = <<>> THEN handling' = Nothing /\ UNCHANGED prompted
       ELSE IF ShouldOfferInstall(Doc) /\ Doc.plugin \notin prompted
            THEN /\ handling' = [handling EXCEPT !.pc = "ask"]
                 /\ prompted' = prompted \cup {Doc.plugin}
            ELSE handling' = [handling EXCEPT !.docs = Tail(@)] /\ UNCHANGED prompted
    /\ UNCHANGED <<deployed, received, announced, session, handled, files, torn, changes, trouble>>

Proceed == handling' = [handling EXCEPT !.pc = "next", !.docs = Tail(@)]
Install ==
    /\ handling # Nothing /\ handling.pc = "ask"
    /\ handling' = [handling EXCEPT !.pc = "write", !.left = Files]
    /\ UNCHANGED <<deployed, received, announced, session, prompted, handled, files, torn, changes, trouble>>
\* What "later" leaves behind.
\* Faulty Postponed: the deployment counts as handled.
CountsAsHandled(p, h) == handled' = [handled EXCEPT ![p] = h]
Postponed(p, h) == handled' = handled
Later ==
    /\ handling # Nothing /\ handling.pc = "ask" /\ Trouble
    /\ Proceed /\ Postponed(Doc.plugin, Doc.hash)
    /\ UNCHANGED <<deployed, received, announced, session, prompted, files, torn, changes>>
WriteFile(f) ==
    /\ handling # Nothing /\ handling.pc = "write" /\ f \in handling.left
    /\ files' = [files EXCEPT ![Doc.plugin][f] = Doc.hash]
    /\ handling' = [handling EXCEPT !.left = @ \ {f}]
    /\ UNCHANGED <<deployed, received, announced, session, prompted, handled, torn, changes, trouble>>
\* All files are written and the plugin may be switched on: the hash is kept.
RecordHandled ==
    /\ handling # Nothing /\ handling.pc = "write" /\ handling.left = {}
    /\ handled' = [handled EXCEPT ![Doc.plugin] = Doc.hash]
    /\ torn' = torn \ {Doc.plugin}
    /\ Proceed
    /\ UNCHANGED <<deployed, received, announced, session, prompted, files, changes, trouble>>

Broken == IF handling # Nothing /\ handling.pc = "write" /\ handling.left # Files
          THEN torn \cup {Doc.plugin} ELSE torn
FailedHash == handled
InstallFails ==
    /\ handling # Nothing /\ handling.pc = "write" /\ Trouble
    /\ Proceed /\ torn' = Broken /\ handled' = FailedHash
    /\ UNCHANGED <<deployed, received, announced, session, prompted, files, changes>>
\* A session that ends before it has settled is trouble; one that has may end.
Settled == session.ready /\ handling = Nothing /\ ~announced /\ received = deployed
EndSession ==
    /\ session # Nothing
    /\ IF Settled THEN UNCHANGED trouble ELSE Trouble
    /\ session' = Nothing /\ handling' = Nothing /\ prompted' = {} /\ announced' = FALSE
    /\ torn' = Broken
    /\ UNCHANGED <<deployed, received, handled, files, changes>>

-----------------------------------------------------------------------------
DeployStep ==
    \/ OnPluginDeployChange \/ ModeStarted \/ ListDeployments \/ NextDeployment
    \/ Install \/ RecordHandled
    \/ \E p \in Plugins : Receive(p)
    \/ \E f \in Files : WriteFile(f)
DeployNext ==
    \/ \E p \in Plugins : Undeploy(p) \/ \E h \in Hashes : Deploy(p, h)
    \/ StartSession \/ EndSession \/ Later \/ InstallFails
    \/ DeployStep
DeployFairness == WF_deployVars(DeployStep) /\ WF_deployVars(StartSession)
                  /\ SF_deployVars(EndSession)
DeploySpec == DeployInit /\ [][DeployNext]_deployVars /\ DeployFairness

Whole(p, h) == \A f \in Files : files[p][f] = h

\* A deployment that stays reaches the members it names: an offer that was put
\* off, failed or dropped because another one was on screen comes back with a
\* later session, until it is installed.  Excepted is a plugin an installation of
\* which broke off and whose earlier state, already handled, is deployed again.
Arrived(p) ==
    deployed[p] # Nothing => Whole(p, deployed[p]) \/ (p \in torn /\ handled[p] = deployed[p])
DeploymentArrives == <>[](\A p \in Mine : Arrived(p))
=============================================================================
