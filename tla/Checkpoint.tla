----------------------------- MODULE Checkpoint -----------------------------
(***************************************************************************)
(* How far the local changes feed of one link has been applied, and what a *)
(* restart resumes from.                                                   *)
(*                                                                         *)
(* LocalApplier subscribes to the changes feed of the local database,      *)
(* applies the changes one by one and moves the checkpoint lastSeqByDb in  *)
(* the settings; CoreServices writes the settings to disk with a throttle. *)
(* Every start of the link makes a new LocalApplier.  A stopped one gets   *)
(* no further change, but nothing waits for those already in its queue:    *)
(* they are applied beside its successor's.                                *)
(*                                                                         *)
(* "Applied" means that applyDoc/applyAsset/applyPurge returned, whatever  *)
(* it decided; what it decides is the subject of NoteLink.                 *)
(***************************************************************************)
EXTENDS Naturals, FiniteSets

CONSTANTS
    MaxChanges,   \* changes of one local database
    MaxFailures,  \* failures to apply a change
    MaxStarts,    \* starts of the link
    MaxResets     \* resets of the local cache

ASSUME CheckpointAssumption == {MaxChanges, MaxFailures, MaxStarts, MaxResets} \subseteq Nat

VARIABLES
    db,        \* which local database: a reset makes a new one
    seq,       \* its update sequence
    applied,   \* its changes that have been applied
    starts,    \* appliers created so far; the last one is the current one
    live,      \* the current applier is subscribed
    applier,   \* per applier: what it was handed, what still waits, what failed
    lastSeq,   \* settings.lastSeqByDb of this link, 0 when unset
    dirty,     \* the persist timer runs
    durable,   \* lastSeqByDb in data.json
    overrun,   \* history: a reset while a stopped applier still had changes to apply
    failures   \* bound

vars == <<db, seq, applied, starts, live, applier, lastSeq, dirty, durable, overrun, failures>>

Seqs == 1..MaxChanges
Appliers == 1..MaxStarts

\* fed: the last change the feed handed over; waiting: LocalApplier.queue;
\* failed: the changes that threw (stalled once there is one).
Applier == [db : 0..MaxResets, fed : 0..MaxChanges, waiting : SUBSET Seqs, failed : SUBSET Seqs]
Unborn == [db |-> 0, fed |-> 0, waiting |-> {}, failed |-> {}]

TypeOK ==
    /\ db \in 0..MaxResets /\ seq \in 0..MaxChanges /\ applied \subseteq Seqs
    /\ starts \in 0..MaxStarts /\ live \in BOOLEAN
    /\ applier \in [Appliers -> Applier]
    /\ lastSeq \in 0..MaxChanges /\ durable \in 0..MaxChanges /\ dirty \in BOOLEAN
    /\ overrun \in BOOLEAN /\ failures \in 0..MaxFailures

-----------------------------------------------------------------------------
Init ==
    /\ db = 0 /\ seq = 0 /\ applied = {}
    /\ starts = 0 /\ live = FALSE /\ applier = [i \in Appliers |-> Unborn]
    /\ lastSeq = 0 /\ dirty = FALSE /\ durable = 0 /\ overrun = FALSE /\ failures = 0

\* Replication or an upload writes to the local database.
Change ==
    /\ seq < MaxChanges /\ seq' = seq + 1
    /\ UNCHANGED <<db, applied, starts, live, applier, lastSeq, dirty, durable, failures, overrun>>

\* LocalApplier.start, resuming after the checkpoint in memory.
Start ==
    /\ ~live /\ starts < MaxStarts
    /\ starts' = starts + 1 /\ live' = TRUE
    /\ applier' = [applier EXCEPT ![starts + 1] =
                     [db |-> db, fed |-> lastSeq, waiting |-> {}, failed |-> {}]]
    /\ UNCHANGED <<db, seq, applied, lastSeq, dirty, durable, failures, overrun>>

\* The feed hands the next change to the current applier, which queues it.
Deliver ==
    /\ live /\ applier[starts].fed < seq
    /\ applier' = [applier EXCEPT ![starts].fed = @ + 1,
                                  ![starts].waiting = @ \cup {applier[starts].fed + 1}]
    /\ UNCHANGED <<db, seq, applied, starts, live, lastSeq, dirty, durable, failures, overrun>>

\* The serial queue: the oldest change first.
NextOf(i, n) == n \in applier[i].waiting /\ \A m \in applier[i].waiting : n <= m

\* Faulty Advance: the failure of an earlier change is forgotten.
AdvanceAlways(i, n) == lastSeq' = n /\ dirty' = TRUE

\* setLastSeq, unless an earlier change of this applier failed.
Advance(i, n) ==
    IF applier[i].failed = {} THEN lastSeq' = n /\ dirty' = TRUE
                              ELSE UNCHANGED <<lastSeq, dirty>>

\* applyChange returns: also for a stopped applier, whose database may be gone.
Apply(i) ==
    /\ \E n \in Seqs :
         /\ NextOf(i, n)
         /\ applier' = [applier EXCEPT ![i].waiting = @ \ {n}]
         /\ applied' = IF applier[i].db = db THEN applied \cup {n} ELSE applied
         /\ Advance(i, n)
    /\ UNCHANGED <<db, seq, starts, live, durable, failures, overrun>>

\* Faulty Fail: the rejected promise breaks the chain of the queue.
FailBreaksQueue(i) ==
    /\ failures < MaxFailures /\ failures' = failures + 1
    /\ \E n \in Seqs :
         /\ NextOf(i, n)
         /\ applier' = [applier EXCEPT ![i].waiting = {}, ![i].failed = @ \cup {n}]
    /\ UNCHANGED <<db, seq, applied, starts, live, lastSeq, dirty, durable, overrun>>

\* applyChange catches an error: the applier stalls its checkpoint and goes on.
Fail(i) ==
    /\ failures < MaxFailures /\ failures' = failures + 1
    /\ \E n \in Seqs :
         /\ NextOf(i, n)
         /\ applier' = [applier EXCEPT ![i].waiting = @ \ {n}, ![i].failed = @ \cup {n}]
    /\ UNCHANGED <<db, seq, applied, starts, live, lastSeq, dirty, durable, overrun>>

\* CoreServices.requestPersist: the throttle timer fires.
Persist ==
    /\ dirty /\ dirty' = FALSE /\ durable' = lastSeq
    /\ UNCHANGED <<db, seq, applied, starts, live, applier, lastSeq, failures, overrun>>

\* MirrorSync.stop: unsubscribe and flush; the queue is not awaited.
Stop ==
    /\ live /\ live' = FALSE
    /\ dirty' = FALSE /\ durable' = lastSeq
    /\ UNCHANGED <<db, seq, applied, starts, applier, lastSeq, failures, overrun>>

\* The program ends without notice and is loaded again.
Crash ==
    /\ starts > 0
    /\ live' = FALSE /\ lastSeq' = durable /\ dirty' = FALSE
    /\ applier' = [i \in Appliers |-> [applier[i] EXCEPT !.waiting = {}]]
    /\ UNCHANGED <<db, seq, applied, starts, durable, failures, overrun>>

\* Faulty Reset: the checkpoint outlives the database.
ResetKeepsCheckpoint ==
    /\ ~live /\ starts > 0 /\ db < MaxResets
    /\ db' = db + 1 /\ seq' = 0 /\ applied' = {}
    /\ overrun' = (overrun \/ \E i \in Appliers : applier[i].waiting # {})
    /\ UNCHANGED <<starts, live, applier, lastSeq, dirty, durable, failures>>

\* ServerResetController.resetLocalCache between stopMode and startMode: the local
\* database is destroyed, the checkpoints are cleared and saved, and replication
\* fills a new database.
Reset ==
    /\ ~live /\ starts > 0 /\ db < MaxResets
    /\ db' = db + 1 /\ seq' = 0 /\ applied' = {}
    /\ lastSeq' = 0 /\ durable' = 0
    /\ overrun' = (overrun \/ \E i \in Appliers : applier[i].waiting # {})
    /\ UNCHANGED <<starts, live, applier, dirty, failures>>

Applies == \E i \in Appliers : Apply(i) \/ Fail(i)
Next == Change \/ Start \/ Deliver \/ Applies \/ Persist \/ Stop \/ Crash \/ Reset

Fairness ==
    /\ WF_vars(Deliver) /\ WF_vars(Persist)
    /\ \A i \in Appliers : WF_vars(Apply(i) \/ Fail(i))

Spec == Init /\ [][Next]_vars
FairSpec == Spec /\ Fairness

-----------------------------------------------------------------------------
(* Properties.                                                              *)

\* Neither checkpoint, in memory or on disk, is past a change that has not been
\* applied: whatever fails, and however stops, crashes, resets of the cache and the
\* throttled save interleave, no restart skips a change (LocalApplier.queue and
\* stalled); unless the cache was reset while a stopped applier was still at work.
CheckpointSafe == overrun \/ (1..lastSeq \subseteq applied /\ 1..durable \subseteq applied)

\* A change that has not been applied is still to be handed over, waits, or failed
\* in the current applier, whose checkpoint then stays before it; with the same
\* exception.
NothingOverlooked ==
    live /\ ~overrun =>
        LET a == applier[starts]
        IN \A n \in 1..seq : n \in applied \/ n > a.fed \/ n \in a.waiting
                               \/ (n \in a.failed /\ lastSeq < n)

\* As long as the link runs, every change is tried: a failed change does not hold up
\* the ones behind it (the queue outlives a rejected promise); with the same exception.
EveryChangeTried ==
    \A n \in Seqs :
        (live /\ n <= seq) ~> (~live \/ overrun \/ n \in applied \/ n \in applier[starts].failed)

\* Every start begins before the first change that is not applied, of the database it
\* subscribes to: what the reset of the cache promises is to receive all of it again
\* (ServerResetController.ts:82), and it does, with the same exception.
StartsBeforeUnapplied ==
    [][live' /\ ~live => overrun \/ 1..applier'[starts'].fed \subseteq applied]_vars
=============================================================================
