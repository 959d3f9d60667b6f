-------------------------- MODULE Device_proofs --------------------------
(***************************************************************************)
(* Proofs about three of the things a device keeps going, for every value  *)
(* of the constants: the checkpoint of its changes feed (Checkpoint), the  *)
(* links of a member's vault (MemberLinks) and the tokens of real time     *)
(* (Access).                                                               *)
(*                                                                         *)
(* What makes the checkpoint safe is not visible in it: an applier may     *)
(* only move it over changes it was handed, so the invariant says of each  *)
(* applier that still has work that every change it was ever handed is     *)
(* accounted for.                                                          *)
(*                                                                         *)
(* What makes a stopped mode quiet is a race between two loops: the one    *)
(* of MemberMode.stop and the one of reconcile, which starts links         *)
(* without looking at stopped again. The invariant says where each of the  *)
(* two is and what that means for every link, and that the loop of stop    *)
(* never gets ahead of a loop that still starts links.                     *)
(***************************************************************************)
EXTENDS Checkpoint, MemberLinks, Access, TLAPS

(* Checkpoint: the invariant.                                                *)

\* An applier that has or may get work: the current one, and stopped ones that drain.
Working(i) == applier[i].waiting # {} \/ (live /\ i = starts)

\* Every applier at work works on the database there is.
OneDatabase == \A i \in Appliers : Working(i) => applier[i].db = db

\* The subscribed applier exists.
LiveExists == live => starts \in Appliers

\* The queue holds changes that were handed over.
QueueFed == \A i \in Appliers : applier[i].waiting \subseteq 1..applier[i].fed

\* An applier at work accounts for every change up to the last one it was handed.  A
\* crash empties the queues, so the others need not.
Accounted(i) ==
    Working(i) =>
        1..applier[i].fed \subseteq applied \cup applier[i].waiting \cup applier[i].failed

\* Both checkpoints are before the first change that is not applied.
BothSafe == 1..lastSeq \subseteq applied /\ 1..durable \subseteq applied

\* What holds as long as no reset has overrun a stopped applier.
Orderly == OneDatabase /\ (\A i \in Appliers : Accounted(i)) /\ BothSafe

IInv ==
    /\ TypeOK
    /\ LiveExists
    /\ QueueFed
    /\ ~overrun => Orderly

-----------------------------------------------------------------------------
\* The bounds are natural numbers.
LEMMA Bounds == /\ MaxChanges \in Nat /\ MaxFailures \in Nat
                /\ MaxStarts \in Nat /\ MaxResets \in Nat
BY CheckpointAssumption

\* Taking the oldest change from a queue whose applier has seen no failure leaves
\* nothing unapplied up to that change.
LEMMA NextIsLowest ==
    ASSUME IInv, ~overrun, NEW i \in Appliers, NEW n \in Seqs, NextOf(i, n)
    PROVE  /\ n \in 1..applier[i].fed
           /\ applier[i].failed = {} => 1..n \subseteq applied \cup {n}
<1>1. n \in applier[i].waiting /\ applier[i].waiting \subseteq 1..applier[i].fed
  BY DEF NextOf, IInv, QueueFed
<1>2. applier[i].fed \in Nat
  BY Bounds DEF IInv, TypeOK, Applier
<1>3. n \in 1..applier[i].fed
  BY <1>1
<1>4. ASSUME applier[i].failed = {}, NEW m \in 1..n, m # n
      PROVE  m \in applied
  <2>1. m \in 1..applier[i].fed
    BY <1>2, <1>3
  <2>2. m \notin applier[i].waiting
    BY <1>2, <1>3, <1>4 DEF NextOf
  <2>3. QED
    BY <1>1, <1>4, <2>1, <2>2 DEF IInv, Orderly, Accounted, Working
<1>5. QED
  BY <1>3, <1>4

LEMMA InitIInv == Init => IInv
<1> SUFFICES ASSUME Init PROVE IInv
  OBVIOUS
<1>1. Unborn \in Applier
  BY Bounds DEF Unborn, Applier
<1>2. applier \in [Appliers -> Applier]
  BY <1>1 DEF Init
<1>3. TypeOK
  <2>1. 0 \in 0..MaxResets /\ 0 \in 0..MaxChanges /\ 0 \in 0..MaxStarts /\ 0 \in 0..MaxFailures
    BY Bounds
  <2>2. QED
    BY <1>2, <2>1 DEF Init, TypeOK
<1>4. ASSUME NEW i \in Appliers
      PROVE  applier[i].db = 0 /\ applier[i].waiting = {} /\ applier[i].fed = 0
  BY DEF Init, Unborn
<1>5. OneDatabase /\ LiveExists /\ BothSafe
  BY <1>4 DEF Init, OneDatabase, Working, LiveExists, BothSafe
<1>6. QueueFed /\ \A i \in Appliers : Accounted(i)
  BY <1>4 DEF Init, QueueFed, Accounted, Working
<1>7. QED
  BY <1>3, <1>5, <1>6 DEF IInv, Orderly

LEMMA StartIInv == IInv /\ Start => IInv'
<1> SUFFICES ASSUME IInv, Start PROVE IInv'
  OBVIOUS
<1> DEFINE new == [db |-> db, fed |-> lastSeq, waiting |-> {}, failed |-> {}]
<1>1. starts + 1 \in Appliers /\ starts' = starts + 1 /\ starts' \in 0..MaxStarts
  BY Bounds DEF IInv, TypeOK, Start, Appliers
<1>2. new \in Applier
  BY Bounds DEF IInv, TypeOK, Applier, Seqs
<1>3. applier' = [applier EXCEPT ![starts + 1] = new]
  BY DEF Start
<1>4. TypeOK'
  BY <1>1, <1>2, <1>3 DEF IInv, TypeOK, Start
<1>5. ASSUME ~overrun PROVE OneDatabase'
  <2>1. ASSUME NEW i \in Appliers, Working(i)' PROVE applier'[i].db = db'
    <3>1. CASE i = starts + 1
      BY <1>3, <3>1 DEF IInv, TypeOK, Start
    <3>2. CASE i # starts + 1
      BY <1>1, <1>3, <1>5, <2>1, <3>2 DEF IInv, Orderly, TypeOK, OneDatabase, Working, Start
    <3>3. QED
      BY <3>1, <3>2
  <2>2. QED
    BY <2>1 DEF OneDatabase
<1>6. LiveExists'
  BY <1>1 DEF LiveExists
<1>7. QueueFed'
  BY <1>3 DEF IInv, TypeOK, QueueFed
<1>8. ASSUME ~overrun, NEW i \in Appliers PROVE Accounted(i)'
  <2>1. CASE i = starts + 1
    <3>1. applier'[i].fed = lastSeq
      BY <1>2, <1>3, <2>1 DEF IInv, TypeOK
    <3>2. QED
      BY <1>8, <3>1 DEF IInv, Orderly, BothSafe, Accounted, Start
  <2>2. CASE i # starts + 1
    BY <1>1, <1>3, <1>8, <2>2 DEF IInv, Orderly, TypeOK, Accounted, Working, Start
  <2>3. QED
    BY <2>1, <2>2
<1>9. ASSUME ~overrun PROVE BothSafe'
  BY <1>9 DEF IInv, Orderly, BothSafe, Start
<1>10. overrun' = overrun
  BY DEF Start
<1>11. QED
  BY <1>4, <1>5, <1>6, <1>7, <1>8, <1>9, <1>10 DEF IInv, Orderly

LEMMA DeliverIInv == IInv /\ Deliver => IInv'
<1> SUFFICES ASSUME IInv, Deliver PROVE IInv'
  OBVIOUS
<1> DEFINE a == applier[starts]
           k == a.fed + 1
           new == [a EXCEPT !.fed = k, !.waiting = @ \cup {k}]
<1>1. starts \in Appliers /\ a \in Applier
  BY DEF IInv, TypeOK, LiveExists, Deliver
<1>2. k \in Seqs
  BY <1>1, Bounds DEF IInv, TypeOK, Deliver, Applier, Seqs
<1>3. /\ new \in Applier /\ new.waiting = a.waiting \cup {k}
      /\ new.fed = k /\ new.failed = a.failed /\ new.db = a.db
  <2> HIDE DEF k
  <2>1. k \in 0..MaxChanges
    BY <1>2, Bounds DEF Seqs
  <2>2. QED
    BY <1>1, <1>2, <2>1 DEF Applier
<1>4. applier' = [applier EXCEPT ![starts] = new]
  BY <1>1 DEF Deliver, IInv, TypeOK, Applier
<1>5. TypeOK'
  BY <1>1, <1>3, <1>4 DEF IInv, TypeOK, Deliver
<1>6. ASSUME ~overrun PROVE OneDatabase'
  <2>1. ASSUME NEW i \in Appliers, Working(i)' PROVE applier'[i].db = db'
    <3>1. CASE i = starts
      BY <1>1, <1>3, <1>4, <1>6, <3>1 DEF IInv, Orderly, TypeOK, OneDatabase, Working, Deliver
    <3>2. CASE i # starts
      BY <1>4, <1>6, <2>1, <3>2 DEF IInv, Orderly, TypeOK, OneDatabase, Working, Deliver
    <3>3. QED
      BY <3>1, <3>2
  <2>2. QED
    BY <2>1 DEF OneDatabase
<1>7. LiveExists'
  BY DEF IInv, LiveExists, Deliver
<1>8. a.fed \in Nat /\ 1..k = 1..a.fed \cup {k}
  BY <1>1, Bounds DEF Applier
<1>9. QueueFed'
  <2>1. ASSUME NEW i \in Appliers PROVE applier'[i].waiting \subseteq 1..applier'[i].fed
    <3>1. CASE i = starts
      BY <1>1, <1>3, <1>4, <1>8, <3>1 DEF IInv, TypeOK, QueueFed
    <3>2. CASE i # starts
      BY <1>4, <3>2 DEF IInv, TypeOK, QueueFed
    <3>3. QED
      BY <3>1, <3>2
  <2>2. QED
    BY <2>1 DEF QueueFed
<1>10. ASSUME ~overrun, NEW i \in Appliers PROVE Accounted(i)'
  <2>1. CASE i = starts
    <3>1. 1..a.fed \subseteq applied \cup a.waiting \cup a.failed
      BY <1>1, <1>10 DEF IInv, Orderly, Accounted, Working, Deliver
    <3>2. applier'[i] = new
      BY <1>1, <1>4, <2>1 DEF IInv, TypeOK
    <3>3. QED
      BY <1>3, <1>8, <3>1, <3>2 DEF Accounted, Deliver
  <2>2. CASE i # starts
    BY <1>4, <1>10, <2>2 DEF IInv, Orderly, TypeOK, Accounted, Working, Deliver
  <2>3. QED
    BY <2>1, <2>2
<1>11. ASSUME ~overrun PROVE BothSafe'
  BY <1>11 DEF IInv, Orderly, BothSafe, Deliver
<1>12. overrun' = overrun
  BY DEF Deliver
<1>13. QED
  BY <1>5, <1>6, <1>7, <1>9, <1>10, <1>11, <1>12 DEF IInv, Orderly

LEMMA ApplyIInv == ASSUME IInv, NEW i \in Appliers, Apply(i) PROVE IInv'
<1> PICK n \in Seqs : /\ NextOf(i, n)
                      /\ applier' = [applier EXCEPT ![i].waiting = @ \ {n}]
                      /\ applied' = IF applier[i].db = db THEN applied \cup {n} ELSE applied
                      /\ Advance(i, n)
  BY DEF Apply
<1> DEFINE a == applier[i]
           new == [a EXCEPT !.waiting = @ \ {n}]
<1>1. a \in Applier /\ n \in a.waiting
  BY DEF IInv, TypeOK, NextOf
<1>2. /\ new \in Applier /\ new.waiting = a.waiting \ {n}
      /\ new.fed = a.fed /\ new.failed = a.failed /\ new.db = a.db
  BY <1>1 DEF Applier
<1>3. applier' = [applier EXCEPT ![i] = new]
  BY <1>1 DEF IInv, TypeOK, Applier
<1>4. /\ applied \subseteq applied' /\ applied' \subseteq applied \cup {n}
      /\ ~overrun => applied' = applied \cup {n}
  BY <1>1 DEF IInv, Orderly, OneDatabase, Working
<1>5. TypeOK'
  <2>1. applier' \in [Appliers -> Applier]
    BY <1>2, <1>3 DEF IInv, TypeOK
  <2>2. lastSeq' \in 0..MaxChanges /\ dirty' \in BOOLEAN
    <3>1. n \in 0..MaxChanges
      BY Bounds DEF Seqs
    <3>2. lastSeq \in 0..MaxChanges /\ dirty \in BOOLEAN
      BY DEF IInv, TypeOK
    <3>3. CASE a.failed = {}
      BY <3>1, <3>3, Zenon DEF Advance
    <3>4. CASE a.failed # {}
      BY <3>2, <3>4, Zenon DEF Advance
    <3>5. QED
      BY <3>3, <3>4
  <2>3. QED
    BY <1>4, <2>1, <2>2 DEF IInv, TypeOK, Apply
<1>6. ASSUME ~overrun PROVE OneDatabase'
  <2>1. ASSUME NEW j \in Appliers, Working(j)' PROVE applier'[j].db = db'
    <3>1. CASE j = i
      BY <1>1, <1>2, <1>3, <1>6, <3>1 DEF IInv, Orderly, TypeOK, OneDatabase, Working, Apply
    <3>2. CASE j # i
      BY <1>3, <1>6, <2>1, <3>2 DEF IInv, Orderly, TypeOK, OneDatabase, Working, Apply
    <3>3. QED
      BY <3>1, <3>2
  <2>2. QED
    BY <2>1 DEF OneDatabase
<1>7. LiveExists'
  BY DEF IInv, LiveExists, Apply
<1>8. QueueFed'
  BY <1>2, <1>3 DEF IInv, TypeOK, QueueFed
<1>9. ASSUME ~overrun, NEW j \in Appliers PROVE Accounted(j)'
  <2>1. CASE j = i
    <3>1. applier'[j] = new
      BY <1>3, <2>1 DEF IInv, TypeOK
    <3>2. 1..a.fed \subseteq applied \cup a.waiting \cup a.failed
      BY <1>1, <1>9 DEF IInv, Orderly, Accounted, Working
    <3>3. QED
      BY <1>2, <1>4, <1>9, <3>1, <3>2 DEF Accounted
  <2>2. CASE j # i
    BY <1>3, <1>4, <1>9, <2>2 DEF IInv, Orderly, TypeOK, Accounted, Working, Apply
  <2>3. QED
    BY <2>1, <2>2
<1>10. ASSUME ~overrun PROVE BothSafe'
  <2>1. CASE a.failed = {}
    <3>1. lastSeq' = n /\ durable' = durable
      BY <2>1 DEF Advance, Apply
    <3>2. 1..n \subseteq applied'
      BY <1>4, <1>10, <2>1, NextIsLowest
    <3>3. QED
      BY <1>4, <1>10, <3>1, <3>2 DEF IInv, Orderly, BothSafe
  <2>2. CASE a.failed # {}
    BY <1>4, <1>10, <2>2 DEF IInv, Orderly, BothSafe, Advance, Apply
  <2>3. QED
    BY <2>1, <2>2
<1>11. overrun' = overrun
  BY DEF Apply
<1>12. QED
  BY <1>5, <1>6, <1>7, <1>8, <1>9, <1>10, <1>11 DEF IInv, Orderly

LEMMA FailIInv == ASSUME IInv, NEW i \in Appliers, Fail(i) PROVE IInv'
<1> PICK n \in Seqs : /\ NextOf(i, n)
                      /\ applier' = [applier EXCEPT ![i].waiting = @ \ {n},
                                                   ![i].failed = @ \cup {n}]
  BY DEF Fail
<1> DEFINE a == applier[i]
           new == [a EXCEPT !.waiting = @ \ {n}, !.failed = @ \cup {n}]
<1>1. a \in Applier /\ n \in a.waiting
  BY DEF IInv, TypeOK, NextOf
<1>2. /\ new \in Applier /\ new.waiting = a.waiting \ {n}
      /\ new.fed = a.fed /\ new.failed = a.failed \cup {n} /\ new.db = a.db
  BY <1>1 DEF Applier
<1>3. applier' = [applier EXCEPT ![i] = new]
  BY <1>1 DEF IInv, TypeOK, Applier
<1>4. TypeOK'
  <2>1. applier' \in [Appliers -> Applier]
    BY <1>2, <1>3 DEF IInv, TypeOK
  <2>2. failures' \in 0..MaxFailures
    BY Bounds DEF IInv, TypeOK, Fail
  <2>3. QED
    BY <2>1, <2>2 DEF IInv, TypeOK, Fail
<1>5. ASSUME ~overrun PROVE OneDatabase'
  <2>1. ASSUME NEW j \in Appliers, Working(j)' PROVE applier'[j].db = db'
    <3>1. CASE j = i
      BY <1>1, <1>2, <1>3, <1>5, <3>1 DEF IInv, Orderly, TypeOK, OneDatabase, Working, Fail
    <3>2. CASE j # i
      BY <1>3, <1>5, <2>1, <3>2 DEF IInv, Orderly, TypeOK, OneDatabase, Working, Fail
    <3>3. QED
      BY <3>1, <3>2
  <2>2. QED
    BY <2>1 DEF OneDatabase
<1>6. LiveExists' /\ overrun' = overrun /\ (~overrun => BothSafe')
  BY DEF IInv, Orderly, LiveExists, BothSafe, Fail
<1>7. QueueFed'
  BY <1>2, <1>3 DEF IInv, TypeOK, QueueFed
<1>8. ASSUME ~overrun, NEW j \in Appliers PROVE Accounted(j)'
  <2>1. CASE j = i
    <3>1. applier'[j] = new
      BY <1>3, <2>1 DEF IInv, TypeOK
    <3>2. 1..a.fed \subseteq applied \cup a.waiting \cup a.failed
      BY <1>1, <1>8 DEF IInv, Orderly, Accounted, Working
    <3>3. QED
      BY <1>2, <3>1, <3>2 DEF Accounted, Fail
  <2>2. CASE j # i
    BY <1>3, <1>8, <2>2 DEF IInv, Orderly, TypeOK, Accounted, Working, Fail
  <2>3. QED
    BY <2>1, <2>2
<1>9. QED
  BY <1>4, <1>5, <1>6, <1>7, <1>8 DEF IInv, Orderly

LEMMA CrashIInv == IInv /\ Crash => IInv'
<1> SUFFICES ASSUME IInv, Crash PROVE IInv'
  OBVIOUS
<1>1. ASSUME NEW i \in Appliers
      PROVE  /\ applier'[i] \in Applier /\ applier'[i].waiting = {}
             /\ applier'[i].db = applier[i].db
  BY DEF IInv, TypeOK, Applier, Crash
<1>2. applier' \in [Appliers -> Applier]
  BY <1>1 DEF Crash
<1>3. TypeOK'
  BY <1>2 DEF IInv, TypeOK, Crash
<1>4. LiveExists' /\ QueueFed' /\ overrun' = overrun
  BY <1>1 DEF LiveExists, QueueFed, Crash
<1>5. OneDatabase' /\ \A i \in Appliers : Accounted(i)'
  BY <1>1 DEF OneDatabase, Accounted, Working, Crash
<1>6. ~overrun => BothSafe'
  BY DEF IInv, Orderly, BothSafe, Crash
<1>7. QED
  BY <1>3, <1>4, <1>5, <1>6 DEF IInv, Orderly

\* A reset overruns nobody unless an applier still has changes waiting; then nobody is
\* at work, and nothing is checkpointed.
LEMMA ResetIInv == IInv /\ Reset => IInv'
<1> SUFFICES ASSUME IInv, Reset PROVE IInv'
  OBVIOUS
<1>1. TypeOK'
  BY Bounds DEF IInv, TypeOK, Reset
<1>2. LiveExists' /\ QueueFed'
  BY DEF IInv, LiveExists, QueueFed, Reset
<1>3. ASSUME ~overrun', NEW i \in Appliers PROVE ~Working(i)'
  BY <1>3 DEF Working, Reset
<1>4. BothSafe'
  BY DEF BothSafe, Reset
<1>5. QED
  BY <1>1, <1>2, <1>3, <1>4 DEF IInv, Orderly, OneDatabase, Accounted

LEMMA NextIInv == IInv /\ [Next]_vars => IInv'
<1> SUFFICES ASSUME IInv, [Next]_vars PROVE IInv'
  OBVIOUS
<1>1. CASE Change
  BY <1>1, Bounds DEF Change, IInv, Orderly, TypeOK, OneDatabase, LiveExists,
                      QueueFed, Accounted, Working, BothSafe
<1>2. CASE Start
  BY <1>2, StartIInv
<1>3. CASE Deliver
  BY <1>3, DeliverIInv
<1>4. CASE Applies
  BY <1>4, ApplyIInv, FailIInv DEF Applies
<1>5. CASE Persist
  BY <1>5 DEF Persist, IInv, Orderly, TypeOK, OneDatabase, LiveExists, QueueFed,
              Accounted, Working, BothSafe
<1>6. CASE Stop
  BY <1>6 DEF Stop, IInv, Orderly, TypeOK, OneDatabase, LiveExists, QueueFed,
              Accounted, Working, BothSafe
<1>7. CASE Crash
  BY <1>7, CrashIInv
<1>8. CASE Reset
  BY <1>8, ResetIInv
<1>9. CASE UNCHANGED vars
  BY <1>9 DEF vars, IInv, Orderly, TypeOK, OneDatabase, LiveExists, QueueFed,
              Accounted, Working, BothSafe
<1>10. QED
  BY <1>1, <1>2, <1>3, <1>4, <1>5, <1>6, <1>7, <1>8, <1>9 DEF Next

LEMMA Invariance == Spec => []IInv
BY InitIInv, NextIInv, PTL DEF Spec

-----------------------------------------------------------------------------
\* The variables keep their types: no applier is handed, and no checkpoint names, a
\* change the database does not have room for (LocalApplier.start, applyChange).
THEOREM TypeCorrect == Spec => []TypeOK
<1>1. IInv => TypeOK
  BY DEF IInv
<1>2. QED
  BY <1>1, Invariance, PTL

\* However failures, stops, restarts, crashes, resets and the throttled save interleave,
\* no checkpoint is past a change that was not applied, unless a reset overran a stopped
\* applier (LocalApplier.queue, stalled, setLastSeq; CoreServices.requestPersist).
THEOREM CheckpointIsSafe == Spec => []CheckpointSafe
<1>1. IInv => CheckpointSafe
  BY DEF IInv, Orderly, BothSafe, CheckpointSafe
<1>2. QED
  BY <1>1, Invariance, PTL

\* While the link runs, a change that was not applied is still to come, waits, or
\* failed and will be handed over again (LocalApplier.applyChange).
THEOREM NothingIsOverlooked == Spec => []NothingOverlooked
<1>1. IInv => NothingOverlooked
  <2> SUFFICES ASSUME IInv, live, ~overrun, NEW n \in 1..seq,
                      n \notin applied, ~(n > applier[starts].fed),
                      n \notin applier[starts].waiting
               PROVE  n \in applier[starts].failed /\ lastSeq < n
    BY DEF NothingOverlooked
  <2>1. starts \in Appliers /\ applier[starts].fed \in Nat /\ lastSeq \in Nat /\ n \in Nat \ {0}
    BY Bounds DEF IInv, TypeOK, LiveExists, Applier
  <2>2. n \in applier[starts].failed
    BY <2>1 DEF IInv, Orderly, Accounted, Working
  <2>3. lastSeq < n
    BY <2>1 DEF IInv, Orderly, BothSafe
  <2>4. QED
    BY <2>2, <2>3
<1>2. QED
  BY <1>1, Invariance, PTL

\* A start never begins after a change that was not applied, also after a reset of the
\* cache, unless that overran a stopped applier (LocalApplier.start, resetLocalCache).
THEOREM StartsAreSafe == Spec => StartsBeforeUnapplied
<1>1. IInv /\ IInv' /\ [Next]_vars
        => [live' /\ ~live => overrun \/ 1..applier'[starts'].fed \subseteq applied]_vars
  <2> SUFFICES ASSUME IInv, Next, live', ~live, ~overrun
               PROVE  1..applier'[starts'].fed \subseteq applied
    OBVIOUS
  <2>1. Start
    BY DEF Next, Change, Deliver, Applies, Apply, Fail, Persist, Stop, Crash, Reset
  <2>2. applier'[starts'].fed = lastSeq
    BY <2>1, Bounds DEF Start, IInv, TypeOK, Appliers, Applier
  <2>3. QED
    BY <2>2 DEF IInv, Orderly, BothSafe
<1>2. QED
  BY <1>1, Invariance, PTL DEF Spec, StartsBeforeUnapplied

-----------------------------------------------------------------------------

(* MemberLinks: the invariant.                                              *)

\* The running request has made its mode.
Made == IF step \in {"start", "ready", "undo"} THEN 1 ELSE 0

\* There is a mode for every request, and the running one is at the head.
RequestsCounted ==
    /\ created + Len(tasks) <= asked + Made
    /\ step # "idle" => tasks # <<>>

\* Where the lifecycle is, and the mode it serves; every other mode has been stopped.
Served ==
    /\ step = "idle" => stopAt = 0
    /\ step \in {"start", "ready"} => current # 0
    /\ step \in {"stop", "undo"} => current = 0
    /\ current # 0 => current = created /\ stopAt = 0
    /\ stopAt \in Links => created \in Modes
    /\ \A m \in Modes : m <= created /\ m # current => flags[m].stopped

\* A mode that is yet to come.
Unused(m) ==
    /\ ~flags[m].timer /\ rec[m].pc = "idle" /\ queued[m] = 0
    /\ \A i \in Links : link[m][i] = "off"

\* What reconcile has made of each link when it is at this point.
OldLinks(m) == rec[m].pc \in {"idle", "read", "stop"} => \A i \in Links : link[m][i] \in {"on", "off"}
OldStop(m) == rec[m].pc = "stop" => \A i \in 1..rec[m].at : link[m][i] = "off"
NewStart(m) ==
    rec[m].pc = "start" => \A i \in Links :
        /\ i < rec[m].at => link[m][i] \in {"on", "off"}
        /\ i = rec[m].at => link[m][i] # "new"
        /\ i > rec[m].at => link[m][i] = "new"

\* What stop has made of each link when it is at this point.
StopLinks(m) ==
    m = created /\ stopAt \in Links =>
        /\ \A i \in 1..(stopAt - 1) : link[m][i] = "off"
        /\ link[m][stopAt] \in {"cancelled", "off"}

\* A mode that is stopped while it starts its links: stop is still on its way, and not ahead.
NotAhead(m) ==
    flags[m].stopped /\ rec[m].pc = "start"
        => m = created /\ stopAt \in Links /\ stopAt <= rec[m].at

ModeOK(m) ==
    /\ ~flags[m].reconciling => rec[m].pc = "idle"
    /\ m > created => Unused(m)
    /\ OldLinks(m) /\ OldStop(m) /\ NewStart(m)
    /\ StopLinks(m) /\ NotAhead(m)
    /\ Retired(m) => \A i \in Links : link[m][i] = "off"

LinksInv == LinksTypeOK /\ RequestsCounted /\ Served /\ \A m \in Modes : ModeOK(m)
-----------------------------------------------------------------------------
(* Shapes of the state.                                                     *)

LEMMA LinksBounds ==
    /\ Spaces \in Nat /\ MaxModes \in Nat /\ MaxVersions \in Nat
    /\ MaxTasks \in Nat /\ MaxRefreshes \in Nat /\ MaxTasks <= MaxModes
    /\ 1 \in Links /\ Spaces + 1 \in Links
BY MemberLinksAssumption DEF Links

Recs == [pc : {"idle", "read", "stop", "start"}, at : Links, ver : Versions]

LEMMA IdleIsRec == Idle \in Recs /\ [Idle EXCEPT !.pc = "read"] \in Recs
BY LinksBounds DEF Idle, Recs, Versions

\* The flags a reconciliation is asked with, and the state it leaves.
LEMMA ReconcileSteps ==
    ASSUME LinksTypeOK, NEW m \in Modes, NEW f \in Flags, Reconcile(m, f)
    PROVE  /\ flags' \in [Modes -> Flags] /\ rec' \in [Modes -> Recs]
           /\ \A o \in Modes : o # m => flags'[o] = flags[o] /\ rec'[o] = rec[o]
           /\ flags'[m].stopped = f.stopped /\ flags'[m].timer = f.timer
           /\ \/ rec' = rec /\ flags'[m].reconciling = f.reconciling
              \/ ~f.stopped /\ ~f.reconciling /\ flags'[m].reconciling /\ rec'[m].pc = "read"
<1>1. flags \in [Modes -> Flags] /\ rec \in [Modes -> Recs]
  BY DEF LinksTypeOK, Recs
<1>2. CASE f.stopped
  BY <1>1, <1>2 DEF Reconcile
<1>3. CASE ~f.stopped /\ f.reconciling
  <2>1. flags' = [flags EXCEPT ![m] = [f EXCEPT !.pending = TRUE]] /\ rec' = rec
    BY <1>3 DEF Reconcile
  <2>2. [f EXCEPT !.pending = TRUE] \in Flags
    BY DEF Flags
  <2>3. QED
    BY <1>1, <2>1, <2>2 DEF Flags
<1>4. CASE ~f.stopped /\ ~f.reconciling
  <2>1. /\ flags' = [flags EXCEPT ![m] = [f EXCEPT !.reconciling = TRUE]]
        /\ rec' = [rec EXCEPT ![m] = [Idle EXCEPT !.pc = "read"]]
    BY <1>4 DEF Reconcile
  <2>2. [f EXCEPT !.reconciling = TRUE] \in Flags
    BY DEF Flags
  <2>3. [Idle EXCEPT !.pc = "read"].pc = "read"
    BY DEF Idle
  <2>4. rec'[m] = [Idle EXCEPT !.pc = "read"] /\ rec' \in [Modes -> Recs]
    BY <1>1, <2>1, IdleIsRec
  <2>5. flags'[m] = [f EXCEPT !.reconciling = TRUE] /\ flags' \in [Modes -> Flags]
    BY <1>1, <2>1, <2>2
  <2>6. flags'[m].reconciling /\ flags'[m].stopped = f.stopped /\ flags'[m].timer = f.timer
    BY <2>5 DEF Flags
  <2>7. QED
    BY <1>1, <1>4, <2>1, <2>3, <2>4, <2>5, <2>6
<1>5. QED
  BY <1>2, <1>3, <1>4

\* Halting a link leaves it off, or on its way there, unless it was never started.
LEMMA HaltedIs ==
    ASSUME NEW s \in LinkStates
    PROVE  /\ Halted(s) \in LinkStates
           /\ s # "new" => Halted(s) \in {"cancelled", "off"}
           /\ s \in {"on", "off"} => Halted(s) = "off"
           /\ s = "off" => Halted(s) = "off"
BY DEF Halted, LinkStates

-----------------------------------------------------------------------------
(* What a step does not touch.                                              *)

LEMMA OthersStay ==
    ASSUME NEW o \in Modes, ModeOK(o), UNCHANGED <<created, stopAt>>,
           flags'[o] = flags[o], rec'[o] = rec[o], link'[o] = link[o], queued'[o] = queued[o]
    PROVE  ModeOK(o)'
BY DEF ModeOK, Unused, OldLinks, OldStop, NewStart, StopLinks, NotAhead, Retired

LEMMA ServedStays ==
    ASSUME Served, UNCHANGED <<stopAt, created, current>>,
           step' = step \/ (step = "start" /\ step' = "ready"),
           \A m \in Modes : flags'[m].stopped = flags[m].stopped
    PROVE  Served'
BY DEF Served

LEMMA RequestsStay ==
    ASSUME RequestsCounted, UNCHANGED <<created, asked, tasks>>,
           step' = step \/ (step = "start" /\ step' = "ready")
    PROVE  RequestsCounted'
BY DEF RequestsCounted, Made

\* Nothing but the links of mode m, its reconciliation and its flags.
LEMMA OneMode ==
    ASSUME LinksInv, NEW m \in Modes, UNCHANGED <<tasks, stopAt, created, current, asked>>,
           step' = step \/ (step = "start" /\ step' = "ready"),
           \A o \in Modes : o # m => /\ flags'[o] = flags[o] /\ rec'[o] = rec[o]
                                     /\ link'[o] = link[o] /\ queued'[o] = queued[o],
           flags'[m].stopped = flags[m].stopped, LinksTypeOK', ModeOK(m)'
    PROVE  LinksInv'
<1>1. ASSUME NEW o \in Modes PROVE ModeOK(o)'
  BY <1>1, OthersStay DEF LinksInv
<1>2. Served' /\ RequestsCounted'
  BY ServedStays, RequestsStay DEF LinksInv
<1>3. QED
  BY <1>1, <1>2 DEF LinksInv

\* One link of a mode goes into another state.
LEMMA OneLink ==
    ASSUME link \in [Modes -> [Links -> LinkStates]], NEW m \in Modes, NEW k \in Links,
           NEW s \in LinkStates, link' = [link EXCEPT ![m][k] = s]
    PROVE  /\ link' \in [Modes -> [Links -> LinkStates]]
           /\ link'[m][k] = s
           /\ \A i \in Links : i # k => link'[m][i] = link[m][i]
           /\ \A o \in Modes : o # m => link'[o] = link[o]
<1>1. link' = [link EXCEPT ![m] = [link[m] EXCEPT ![k] = s]]
  OBVIOUS
<1>2. link[m] \in [Links -> LinkStates]
  OBVIOUS
<1>3. [link[m] EXCEPT ![k] = s] \in [Links -> LinkStates]
  BY <1>2
<1>4. link'[m] = [link[m] EXCEPT ![k] = s]
  BY <1>1
<1>5. QED
  BY <1>1, <1>2, <1>3, <1>4

-----------------------------------------------------------------------------
(* The steps of one mode.                                                   *)

\* A reconciliation is asked for, of a mode that may have one.
LEMMA AskedToReconcile ==
    ASSUME LinksInv, NEW m \in Modes, m <= created, NEW f \in Flags, Reconcile(m, f),
           f.stopped = flags[m].stopped, f.reconciling = flags[m].reconciling,
           UNCHANGED <<lifecycle, link, built, feed>>, refreshed' \in 0..MaxRefreshes
    PROVE  LinksInv'
<1>0. UNCHANGED <<created, stopAt, link>> /\ ~(m > created')
  BY LinksBounds DEF lifecycle, LinksInv, LinksTypeOK, Modes
<1>1. LinksTypeOK /\ ModeOK(m)
  BY DEF LinksInv
<1>2. LinksTypeOK'
  BY <1>1, ReconcileSteps DEF LinksTypeOK, lifecycle, feed, Recs
<1>3. ModeOK(m)'
  <2>1. CASE rec' = rec /\ flags'[m].reconciling = f.reconciling
    <3>1. flags'[m].stopped = flags[m].stopped
      BY <1>1, ReconcileSteps
    <3>2. QED
      BY <1>0, <1>1, <2>1, <3>1
         DEF ModeOK, OldLinks, OldStop, NewStart, StopLinks, NotAhead, Retired
  <2>2. CASE ~f.stopped /\ ~f.reconciling /\ flags'[m].reconciling /\ rec'[m].pc = "read"
    <3>1. rec[m].pc = "idle" /\ ~flags[m].stopped /\ ~flags'[m].stopped
      BY <1>1, <2>2, ReconcileSteps DEF ModeOK
    <3>2. QED
      BY <1>0, <1>1, <2>2, <3>1
         DEF ModeOK, OldLinks, OldStop, NewStart, StopLinks, NotAhead, Retired
  <2>3. QED
    BY <1>1, <2>1, <2>2, ReconcileSteps
<1>4. \A o \in Modes : o # m => /\ flags'[o] = flags[o] /\ rec'[o] = rec[o]
                                /\ link'[o] = link[o] /\ queued'[o] = queued[o]
  BY <1>1, ReconcileSteps DEF feed
<1>5. flags'[m].stopped = flags[m].stopped
  BY <1>1, ReconcileSteps
<1>6. QED
  BY <1>2, <1>3, <1>4, <1>5, OneMode DEF lifecycle

LEMMA TimerFiresKeeps ==
    ASSUME LinksInv, NEW m \in Modes, TimerFires(m)
    PROVE  LinksInv'
<1> DEFINE f == [flags[m] EXCEPT !.timer = FALSE]
<1>1. flags[m] \in Flags /\ created \in Nat /\ m \in Nat /\ refreshed \in 0..MaxRefreshes
  BY LinksBounds DEF LinksInv, LinksTypeOK, Modes
<1>2. f \in Flags /\ f.stopped = flags[m].stopped /\ f.reconciling = flags[m].reconciling
  BY <1>1 DEF Flags
<1>3. m <= created
  BY <1>1 DEF TimerFires, LinksInv, ModeOK, Unused
<1>4. Reconcile(m, f) /\ UNCHANGED <<lifecycle, link, built, feed, refreshed>>
  BY DEF TimerFires
<1> HIDE DEF f
<1>5. QED
  BY <1>1, <1>2, <1>3, <1>4, AskedToReconcile

LEMMA RefreshKeeps ==
    ASSUME LinksInv, Refresh
    PROVE  LinksInv'
<1>1. current \in Modes /\ current <= created
  BY LinksBounds DEF LinksInv, LinksTypeOK, Served, Refresh, Modes
<1>2. flags[current] \in Flags /\ refreshed' \in 0..MaxRefreshes
  BY <1>1, LinksBounds DEF LinksInv, LinksTypeOK, Refresh
<1>3. Reconcile(current, flags[current]) /\ UNCHANGED <<lifecycle, link, built, feed>>
  BY DEF Refresh
<1>4. QED
  BY <1>1, <1>2, <1>3, AskedToReconcile

\* A mode that reconciles, has a timer, a queue or a link has been created.
LEMMA Begun ==
    ASSUME LinksInv, NEW m \in Modes,
           \/ rec[m].pc # "idle"
           \/ queued[m] # 0
           \/ \E i \in Links : link[m][i] # "off"
    PROVE  ~(m > created)
BY DEF LinksInv, ModeOK, Unused

LEMMA ModeShape ==
    ASSUME LinksTypeOK, NEW m \in Modes
    PROVE  /\ flags \in [Modes -> Flags] /\ flags[m] \in Flags
           /\ rec \in [Modes -> Recs] /\ rec[m] \in Recs /\ rec[m].at \in Links
           /\ link \in [Modes -> [Links -> LinkStates]] /\ link[m] \in [Links -> LinkStates]
BY DEF LinksTypeOK, Recs

\* Where no link is on its way, what is off stays off.
LEMMA OffStaysOff ==
    ASSUME NEW m \in Modes, StopLinks(m), UNCHANGED <<created, stopAt>>,
           \A i \in Links : link[m][i] \in {"on", "off"},
           \A i \in Links : link[m][i] = "off" => link'[m][i] = "off"
    PROVE  StopLinks(m)'
<1>1. SUFFICES ASSUME m = created, stopAt \in Links
               PROVE  /\ \A i \in 1..(stopAt - 1) : link'[m][i] = "off"
                      /\ link'[m][stopAt] \in {"cancelled", "off"}
  BY DEF StopLinks
<1>2. 1..(stopAt - 1) \subseteq Links
  BY <1>1, LinksBounds DEF Links
<1>3. link[m][stopAt] = "off" /\ \A i \in 1..(stopAt - 1) : link[m][i] = "off"
  BY <1>1 DEF StopLinks
<1>4. QED
  BY <1>1, <1>2, <1>3

LEMMA ReadSharesKeeps ==
    ASSUME LinksInv, NEW m \in Modes, ReadShares(m)
    PROVE  LinksInv'
<1>1. LinksTypeOK /\ ModeOK(m) /\ rec[m].pc = "read" /\ ~(m > created)
  BY Begun DEF LinksInv, ReadShares
<1>2. /\ UNCHANGED <<tasks, step, stopAt, created, current, asked, flags, built, feed, refreshed>>
      /\ UNCHANGED queued
  BY DEF ReadShares, lifecycle, feed
<1>3. /\ rec' \in [Modes -> Recs]
      /\ rec'[m].pc = "stop" /\ rec'[m].at = 1
      /\ \A o \in Modes : o # m => rec'[o] = rec[o]
  <2>1. [pc |-> "stop", at |-> 1, ver |-> shares] \in Recs
    BY <1>1, LinksBounds DEF LinksTypeOK, Recs
  <2>2. rec' = [rec EXCEPT ![m] = [pc |-> "stop", at |-> 1, ver |-> shares]]
    BY DEF ReadShares
  <2>3. QED
    BY <1>1, <2>1, <2>2, ModeShape
<1>4. \A i \in Links : link[m][i] \in {"on", "off"}
  BY <1>1 DEF ModeOK, OldLinks
<1>5. /\ link' \in [Modes -> [Links -> LinkStates]]
      /\ link'[m][1] = "off"
      /\ \A i \in Links : i # 1 => link'[m][i] = link[m][i]
      /\ \A o \in Modes : o # m => link'[o] = link[o]
  <2>1. Halted(link[m][1]) \in LinkStates /\ Halted(link[m][1]) = "off"
    BY <1>4, LinksBounds, HaltedIs DEF LinkStates
  <2>2. link' = [link EXCEPT ![m][1] = Halted(link[m][1])]
    BY DEF ReadShares
  <2>3. QED
    BY <1>1, <2>1, <2>2, OneLink, ModeShape, LinksBounds
<1>6. LinksTypeOK'
  BY <1>1, <1>2, <1>3, <1>5 DEF LinksTypeOK, feed, Recs
<1>7. \A i \in Links : link'[m][i] \in {"on", "off"} /\ (link[m][i] = "off" => link'[m][i] = "off")
  BY <1>4, <1>5
<1>8. ModeOK(m)'
  <2>1. (~flags[m].reconciling => rec[m].pc = "idle")'
    BY <1>1, <1>2 DEF ModeOK
  <2>2. OldLinks(m)' /\ NewStart(m)' /\ NotAhead(m)'
    BY <1>3, <1>7 DEF OldLinks, NewStart, NotAhead
  <2>3. OldStop(m)'
    BY <1>3, <1>5 DEF OldStop
  <2>4. StopLinks(m)'
    BY <1>1, <1>2, <1>4, <1>7, OffStaysOff DEF ModeOK
  <2>5. Retired(m)' => \A i \in Links : link'[m][i] = "off"
    BY <1>1, <1>2, <1>7 DEF Retired, ModeOK
  <2>6. QED
    BY <1>1, <1>2, <2>1, <2>2, <2>3, <2>4, <2>5 DEF ModeOK
<1>9. QED
  BY <1>2, <1>3, <1>5, <1>6, <1>8, OneMode

LEMMA StopNextOldKeeps ==
    ASSUME LinksInv, NEW m \in Modes, StopNextOld(m)
    PROVE  LinksInv'
<1> DEFINE k == rec[m].at + 1
<1>1. LinksTypeOK /\ ModeOK(m) /\ rec[m].pc = "stop" /\ ~(m > created)
  BY Begun DEF LinksInv, StopNextOld
<1>2. /\ UNCHANGED <<tasks, step, stopAt, created, current, asked, flags, built, feed, refreshed>>
      /\ UNCHANGED queued
  BY DEF StopNextOld, lifecycle, feed
<1>3. rec[m].at \in Links /\ k \in Links /\ 1..k = 1..rec[m].at \cup {k}
  BY <1>1, ModeShape, LinksBounds DEF StopNextOld, Links
<1>4. /\ rec' \in [Modes -> Recs]
      /\ rec'[m].pc = "stop" /\ rec'[m].at = k
      /\ \A o \in Modes : o # m => rec'[o] = rec[o]
  <2>1. rec' = [rec EXCEPT ![m] = [rec[m] EXCEPT !.at = k]]
    BY DEF StopNextOld
  <2>2. rec[m] \in Recs /\ rec \in [Modes -> Recs]
    BY <1>1, ModeShape
  <2>3. [rec[m] EXCEPT !.at = k] \in Recs
    BY <1>3, <2>2 DEF Recs
  <2>4. rec'[m] = [rec[m] EXCEPT !.at = k]
    BY <2>1, <2>2
  <2>5. rec'[m].pc = "stop" /\ rec'[m].at = k
    BY <1>1, <2>2, <2>4 DEF Recs
  <2>6. QED
    BY <2>1, <2>2, <2>3, <2>5
<1>5. \A i \in Links : link[m][i] \in {"on", "off"}
  BY <1>1 DEF ModeOK, OldLinks
<1>6. /\ link' \in [Modes -> [Links -> LinkStates]]
      /\ link'[m][k] = "off"
      /\ \A i \in Links : i # k => link'[m][i] = link[m][i]
      /\ \A o \in Modes : o # m => link'[o] = link[o]
  <2>1. Halted(link[m][k]) \in LinkStates /\ Halted(link[m][k]) = "off"
    BY <1>3, <1>5, HaltedIs DEF LinkStates
  <2>2. link' = [link EXCEPT ![m][k] = Halted(link[m][k])]
    BY DEF StopNextOld
  <2>3. link \in [Modes -> [Links -> LinkStates]]
    BY <1>1, ModeShape
  <2> HIDE DEF k
  <2>4. QED
    BY <1>3, <2>1, <2>2, <2>3, OneLink
<1> HIDE DEF k
<1>7. LinksTypeOK'
  BY <1>1, <1>2, <1>4, <1>6 DEF LinksTypeOK, feed, Recs
<1>8. \A i \in Links : link'[m][i] \in {"on", "off"} /\ (link[m][i] = "off" => link'[m][i] = "off")
  BY <1>5, <1>6
<1>9. ModeOK(m)'
  <2>1. (~flags[m].reconciling => rec[m].pc = "idle")'
    BY <1>1, <1>2 DEF ModeOK
  <2>2. OldLinks(m)' /\ NewStart(m)' /\ NotAhead(m)'
    BY <1>4, <1>8 DEF OldLinks, NewStart, NotAhead
  <2>3. OldStop(m)'
    <3>1. 1..rec[m].at \subseteq Links
      BY <1>3, LinksBounds DEF Links
    <3>2. QED
      BY <1>1, <1>3, <1>4, <1>6, <1>8, <3>1 DEF OldStop, ModeOK
  <2>4. StopLinks(m)'
    BY <1>1, <1>2, <1>5, <1>8, OffStaysOff DEF ModeOK
  <2>5. Retired(m)' => \A i \in Links : link'[m][i] = "off"
    BY <1>1, <1>2, <1>8 DEF Retired, ModeOK
  <2>6. QED
    BY <1>1, <1>2, <2>1, <2>2, <2>3, <2>4, <2>5 DEF ModeOK
<1>10. QED
  BY <1>2, <1>4, <1>6, <1>7, <1>9, OneMode

\* The finally block of reconcile, when no link of the mode is on its way or unstarted.
LEMMA EndsKeeps ==
    ASSUME LinksInv, NEW m \in Modes, rec[m].pc # "idle", Ends(m),
           \A i \in Links : link[m][i] \in {"on", "off"},
           UNCHANGED <<tasks, stopAt, created, current, asked, link, built, feed, refreshed>>,
           Retired(m) => \A i \in Links : link[m][i] = "off"
    PROVE  LinksInv'
<1> DEFINE f == [flags[m] EXCEPT !.reconciling = FALSE, !.pending = FALSE]
           g == IF flags[m].pending THEN ScheduleReconcile(f) ELSE f
<1>1. LinksTypeOK /\ ModeOK(m) /\ ~(m > created)
  BY Begun DEF LinksInv
<1>2. rec' = [rec EXCEPT ![m] = Idle] /\ flags' = [flags EXCEPT ![m] = g]
  BY DEF Ends
<1>3. f \in Flags /\ f.stopped = flags[m].stopped /\ ~f.reconciling
  BY <1>1, ModeShape DEF Flags
<1>4. g \in Flags /\ g.stopped = flags[m].stopped /\ ~g.reconciling
  <2> HIDE DEF f
  <2>1. ScheduleReconcile(f) \in Flags
    BY <1>3 DEF ScheduleReconcile, Flags
  <2>2. ScheduleReconcile(f).stopped = f.stopped /\ ~ScheduleReconcile(f).reconciling
    BY <1>3 DEF ScheduleReconcile, Flags
  <2>3. QED
    BY <1>3, <2>1, <2>2
<1> HIDE DEF f, g
<1>5. /\ rec' \in [Modes -> Recs] /\ rec'[m] = Idle /\ flags' \in [Modes -> Flags] /\ flags'[m] = g
      /\ \A o \in Modes : o # m => rec'[o] = rec[o] /\ flags'[o] = flags[o]
  BY <1>1, <1>2, <1>4, ModeShape, IdleIsRec
<1>6. step' = step \/ (step = "start" /\ step' = "ready")
  BY DEF Ends
<1>7. LinksTypeOK'
  BY <1>1, <1>5, <1>6 DEF LinksTypeOK, feed, Recs
<1>8. rec'[m].pc = "idle"
  BY <1>5 DEF Idle
<1>9. ModeOK(m)'
  <2>1. OldLinks(m)' /\ OldStop(m)' /\ NewStart(m)' /\ NotAhead(m)'
    BY <1>8 DEF OldLinks, OldStop, NewStart, NotAhead
  <2>2. StopLinks(m)'
    BY <1>1, OffStaysOff DEF ModeOK
  <2>3. Retired(m)' => Retired(m)
    BY <1>4, <1>5 DEF Retired
  <2>4. QED
    BY <1>1, <1>8, <2>1, <2>2, <2>3 DEF ModeOK
<1>10. QED
  BY <1>4, <1>5, <1>6, <1>7, <1>9, OneMode DEF feed

LEMMA DropLinksKeeps ==
    ASSUME LinksInv, NEW m \in Modes, DropLinks(m)
    PROVE  LinksInv'
<1>1. ModeOK(m) /\ rec[m].pc = "stop"
  BY DEF LinksInv, DropLinks, OldStopped
<1>2. \A i \in Links : link[m][i] \in {"on", "off"}
  BY <1>1 DEF ModeOK, OldLinks
<1>3. QED
  BY <1>1, <1>2, EndsKeeps DEF DropLinks, ModeOK

LEMMA ReconcileEndsKeeps ==
    ASSUME LinksInv, NEW m \in Modes, ReconcileEnds(m)
    PROVE  LinksInv'
<1>1. LinksTypeOK /\ ModeOK(m) /\ rec[m].pc = "start" /\ rec[m].at = Spaces + 1
  BY DEF LinksInv, ReconcileEnds
<1>2. ASSUME NEW i \in Links PROVE link[m][i] \in {"on", "off"}
  <2>1. CASE i = Spaces + 1
    <3>1. link[m][i] \in LinkStates /\ link[m][i] \notin {"starting", "cancelled", "new"}
      BY <1>1, <2>1, ModeShape DEF ModeOK, NewStart, ReconcileEnds, Settled
    <3>2. QED
      BY <3>1 DEF LinkStates
  <2>2. CASE i # Spaces + 1
    BY <1>1, <2>2, LinksBounds DEF ModeOK, NewStart, Links
  <2>3. QED
    BY <2>1, <2>2
<1>3. QED
  BY <1>1, <1>2, EndsKeeps DEF ReconcileEnds, ModeOK

\* While stop is on its way, the mode it stops is the last one and has the flag.
LEMMA StopUnderWay ==
    ASSUME LinksInv, stopAt \in Links
    PROVE  created \in Modes /\ current = 0 /\ flags[created].stopped
<1>1. stopAt # 0 /\ current = 0 /\ created \in Modes
  BY LinksBounds DEF LinksInv, Served, Links
<1>2. created # current /\ created <= created
  BY <1>1, LinksBounds DEF Modes
<1>3. QED
  BY <1>1, <1>2 DEF LinksInv, Served

LEMMA BuildLinksKeeps ==
    ASSUME LinksInv, NEW m \in Modes, BuildLinks(m)
    PROVE  LinksInv'
<1> DEFINE fresh == [i \in Links |-> IF i = 1 THEN "starting" ELSE "new"]
<1>1. LinksTypeOK /\ ModeOK(m) /\ rec[m].pc = "stop" /\ ~flags[m].stopped /\ ~(m > created)
  BY Begun DEF LinksInv, BuildLinks, OldStopped
<1>2. /\ UNCHANGED <<tasks, step, stopAt, created, current, asked, flags, feed, refreshed>>
      /\ UNCHANGED queued
  BY DEF BuildLinks, lifecycle, feed
<1>3. /\ rec' \in [Modes -> Recs]
      /\ rec'[m].pc = "start" /\ rec'[m].at = 1
      /\ \A o \in Modes : o # m => rec'[o] = rec[o]
  <2>1. rec' = [rec EXCEPT ![m] = [rec[m] EXCEPT !.pc = "start", !.at = 1]]
    BY DEF BuildLinks
  <2>2. rec[m] \in Recs /\ rec \in [Modes -> Recs]
    BY <1>1, ModeShape
  <2>3. [rec[m] EXCEPT !.pc = "start", !.at = 1] \in Recs
    BY <2>2, LinksBounds DEF Recs
  <2>4. /\ [rec[m] EXCEPT !.pc = "start", !.at = 1].pc = "start"
        /\ [rec[m] EXCEPT !.pc = "start", !.at = 1].at = 1
    BY <2>2 DEF Recs
  <2>5. QED
    BY <2>1, <2>2, <2>3, <2>4
<1>4. fresh \in [Links -> LinkStates]
  BY DEF LinkStates
<1>5. link' \in [Modes -> [Links -> LinkStates]] /\ link'[m] = fresh
      /\ \A o \in Modes : o # m => link'[o] = link[o]
  <2>1. link' = [link EXCEPT ![m] = fresh] /\ link \in [Modes -> [Links -> LinkStates]]
    BY <1>1, ModeShape DEF BuildLinks
  <2> HIDE DEF fresh
  <2>2. QED
    BY <1>4, <2>1
<1>6. LinksTypeOK'
  <2>1. rec[m].ver \in Versions /\ built \in [Modes -> Versions]
    BY <1>1, ModeShape DEF Recs, LinksTypeOK
  <2>2. built' \in [Modes -> Versions]
    BY <2>1 DEF BuildLinks
  <2>3. QED
    BY <1>1, <1>2, <1>3, <1>5, <2>2 DEF LinksTypeOK, feed, Recs
<1>7. ModeOK(m)'
  <2>1. OldLinks(m)' /\ OldStop(m)' /\ NotAhead(m)' /\ ~Retired(m)'
    BY <1>1, <1>2, <1>3 DEF OldLinks, OldStop, NotAhead, Retired
  <2>2. NewStart(m)'
    BY <1>3, <1>5, LinksBounds DEF NewStart, Links
  <2>3. StopLinks(m)'
    BY <1>1, <1>2, StopUnderWay DEF StopLinks
  <2>4. flags[m].reconciling
    BY <1>1 DEF ModeOK
  <2>5. QED
    BY <1>1, <1>2, <2>1, <2>2, <2>3, <2>4 DEF ModeOK
<1> HIDE DEF fresh
<1>8. QED
  BY <1>2, <1>3, <1>5, <1>6, <1>7, OneMode

LEMMA StartNextKeeps ==
    ASSUME LinksInv, NEW m \in Modes, StartNext(m)
    PROVE  LinksInv'
<1> DEFINE k == rec[m].at + 1
<1>1. LinksTypeOK /\ ModeOK(m) /\ rec[m].pc = "start" /\ ~(m > created)
  BY Begun DEF LinksInv, StartNext
<1>2. /\ UNCHANGED <<tasks, step, stopAt, created, current, asked, flags, built, feed, refreshed>>
      /\ UNCHANGED queued
  BY DEF StartNext, lifecycle, feed
<1>3. rec[m].at \in Links /\ k \in Links /\ rec[m].at \in Nat
  BY <1>1, ModeShape, LinksBounds DEF StartNext, Links
<1>4. /\ rec' \in [Modes -> Recs]
      /\ rec'[m].pc = "start" /\ rec'[m].at = k
      /\ \A o \in Modes : o # m => rec'[o] = rec[o]
  <2>1. rec' = [rec EXCEPT ![m] = [rec[m] EXCEPT !.at = k]]
    BY DEF StartNext
  <2>2. rec[m] \in Recs /\ rec \in [Modes -> Recs]
    BY <1>1, ModeShape
  <2>3. [rec[m] EXCEPT !.at = k] \in Recs
    BY <1>3, <2>2 DEF Recs
  <2>4. rec'[m] = [rec[m] EXCEPT !.at = k]
    BY <2>1, <2>2
  <2>5. rec'[m].pc = "start" /\ rec'[m].at = k
    BY <1>1, <2>2, <2>4 DEF Recs
  <2>6. QED
    BY <2>1, <2>2, <2>3, <2>5
<1>5. /\ link' \in [Modes -> [Links -> LinkStates]]
      /\ link'[m][k] = "starting"
      /\ \A i \in Links : i # k => link'[m][i] = link[m][i]
      /\ \A o \in Modes : o # m => link'[o] = link[o]
  <2>1. link' = [link EXCEPT ![m][k] = "starting"] /\ "starting" \in LinkStates
    BY DEF StartNext, LinkStates
  <2>2. link \in [Modes -> [Links -> LinkStates]]
    BY <1>1, ModeShape
  <2> HIDE DEF k
  <2>3. QED
    BY <1>3, <2>1, <2>2, OneLink
<1>6. LinksTypeOK'
  BY <1>1, <1>2, <1>4, <1>5 DEF LinksTypeOK, feed, Recs
<1>7. link[m][rec[m].at] \in {"on", "off"}
  <2>1. link[m][rec[m].at] \in LinkStates \ {"starting", "cancelled", "new"}
    BY <1>1, <1>3, ModeShape DEF ModeOK, NewStart, StartNext, Settled
  <2>2. QED
    BY <2>1 DEF LinkStates
<1>8. m = created /\ stopAt \in Links => stopAt <= rec[m].at
  BY <1>1, StopUnderWay DEF ModeOK, NotAhead
<1>9. ModeOK(m)'
  <2>1. OldLinks(m)' /\ OldStop(m)'
    BY <1>4 DEF OldLinks, OldStop
  <2>2. NotAhead(m)'
    BY <1>1, <1>2, <1>3, <1>4, LinksBounds DEF ModeOK, NotAhead, Links
  <2>3. NewStart(m)'
    <3>1. ASSUME NEW i \in Links
          PROVE  /\ i < k => link'[m][i] \in {"on", "off"}
                 /\ i = k => link'[m][i] # "new"
                 /\ i > k => link'[m][i] = "new"
      BY <1>1, <1>3, <1>5, <1>7 DEF ModeOK, NewStart, Links
    <3>2. QED
      BY <1>4, <3>1 DEF NewStart
  <2>4. StopLinks(m)'
    <3>1. SUFFICES ASSUME m = created, stopAt \in Links
                   PROVE  /\ \A i \in 1..(stopAt - 1) : link'[m][i] = "off"
                          /\ link'[m][stopAt] \in {"cancelled", "off"}
      BY <1>2 DEF StopLinks
    <3>2. 1..(stopAt - 1) \subseteq Links /\ \A i \in 1..stopAt : i # k
      BY <1>3, <1>8, <3>1, LinksBounds DEF Links
    <3>3. stopAt \in 1..stopAt /\ \A i \in 1..(stopAt - 1) : i \in 1..stopAt
      BY <3>1, LinksBounds DEF Links
    <3>4. QED
      BY <1>1, <1>5, <3>1, <3>2, <3>3 DEF ModeOK, StopLinks
  <2>5. ~Retired(m)'
    BY <1>1, <1>2 DEF Retired, ModeOK, NotAhead
  <2>6. QED
    BY <1>1, <1>2, <2>1, <2>2, <2>3, <2>4, <2>5 DEF ModeOK
<1> HIDE DEF k
<1>10. QED
  BY <1>2, <1>4, <1>5, <1>6, <1>9, OneMode

LEMMA LinkStartedKeeps ==
    ASSUME LinksInv, NEW m \in Modes, NEW k \in Links, LinkStarted(m, k)
    PROVE  LinksInv'
<1>1. LinksTypeOK /\ ModeOK(m)
  BY DEF LinksInv
<1>2. /\ UNCHANGED <<tasks, step, stopAt, created, current, asked, flags, rec, built, feed, refreshed>>
      /\ UNCHANGED queued
  BY DEF LinkStarted, lifecycle, feed
<1>3. link[m][k] \in {"starting", "cancelled"}
  BY DEF LinkStarted, Settled
<1>4. ~(m > created)
  <2>1. link[m][k] # "off"
    BY <1>3
  <2>2. QED
    BY <2>1, Begun
<1>5. rec[m].pc = "start"
  <2>1. rec[m].pc \in {"idle", "read", "stop", "start"}
    BY <1>1, ModeShape DEF Recs
  <2>2. link[m][k] \notin {"on", "off"}
    BY <1>3
  <2>3. QED
    BY <1>1, <2>1, <2>2 DEF ModeOK, OldLinks
<1>6. k = rec[m].at
  <2>1. k \in Nat /\ rec[m].at \in Nat
    BY <1>1, ModeShape, LinksBounds DEF Links
  <2>2. link[m][k] # "new" /\ link[m][k] \notin {"on", "off"}
    BY <1>3
  <2>3. QED
    BY <1>1, <1>5, <2>1, <2>2 DEF ModeOK, NewStart
<1>7. /\ link' \in [Modes -> [Links -> LinkStates]]
      /\ link'[m][k] \in {"on", "off"}
      /\ link[m][k] = "cancelled" => link'[m][k] = "off"
      /\ \A i \in Links : i # k => link'[m][i] = link[m][i]
      /\ \A o \in Modes : o # m => link'[o] = link[o]
  <2> DEFINE s == IF link[m][k] = "starting" THEN "on" ELSE "off"
  <2>1. link' = [link EXCEPT ![m][k] = s]
    BY DEF LinkStarted
  <2>2. s \in LinkStates /\ s \in {"on", "off"} /\ (link[m][k] = "cancelled" => s = "off")
    BY DEF LinkStates
  <2>3. link \in [Modes -> [Links -> LinkStates]]
    BY <1>1, ModeShape
  <2> HIDE DEF s
  <2>4. QED
    BY <2>1, <2>2, <2>3, OneLink
<1>8. LinksTypeOK'
  BY <1>1, <1>2, <1>7 DEF LinksTypeOK, feed
<1>9. ModeOK(m)'
  <2>1. OldLinks(m)' /\ OldStop(m)'
    BY <1>2, <1>5 DEF OldLinks, OldStop
  <2>2. NewStart(m)'
    <3>1. "new" \notin {"on", "off"} /\ k \in Nat
      BY LinksBounds DEF Links
    <3>2. QED
      BY <1>1, <1>2, <1>5, <1>6, <1>7, <3>1 DEF ModeOK, NewStart
  <2>3. StopLinks(m)'
    <3>1. SUFFICES ASSUME m = created, stopAt \in Links
                   PROVE  /\ \A i \in 1..(stopAt - 1) : link'[m][i] = "off"
                          /\ link'[m][stopAt] \in {"cancelled", "off"}
      BY <1>2 DEF StopLinks
    <3>2. stopAt <= k /\ stopAt \in Nat /\ k \in Nat
      BY <1>1, <1>5, <1>6, <3>1, StopUnderWay, LinksBounds DEF ModeOK, NotAhead, Links
    <3>3. ASSUME NEW i \in 1..(stopAt - 1) PROVE link'[m][i] = "off"
      <4>1. i \in Links /\ i # k
        BY <3>1, <3>2, LinksBounds DEF Links
      <4>2. QED
        BY <1>1, <1>7, <3>1, <4>1 DEF ModeOK, StopLinks
    <3>4. link[m][stopAt] \in {"cancelled", "off"}
      BY <1>1, <3>1 DEF ModeOK, StopLinks
    <3>5. link'[m][stopAt] \in {"cancelled", "off"}
      BY <1>3, <1>7, <3>1, <3>4
    <3>6. QED
      BY <3>3, <3>5
  <2>4. NotAhead(m)' /\ ~Retired(m)'
    BY <1>1, <1>2, <1>5 DEF Retired, ModeOK, NotAhead
  <2>5. flags[m].reconciling
    BY <1>1, <1>5 DEF ModeOK
  <2>6. QED
    BY <1>2, <1>4, <2>1, <2>2, <2>3, <2>4, <2>5 DEF ModeOK
<1>10. QED
  BY <1>2, <1>7, <1>8, <1>9, OneMode

LEMMA FeedDeliversKeeps ==
    ASSUME LinksInv, NEW m \in Modes, FeedDelivers(m)
    PROVE  LinksInv'
<1>1. LinksTypeOK /\ ModeOK(m)
  BY DEF LinksInv
<1>2. /\ UNCHANGED <<tasks, step, stopAt, created, current, asked, flags, rec, link, built, shares,
                     told, refreshed>>
      /\ queued' = [queued EXCEPT ![m] = shares]
  BY DEF FeedDelivers, lifecycle
<1>3. ~(m > created)
  <2>1. 1 \in Links /\ link[m][1] # "off"
    BY LinksBounds DEF FeedDelivers
  <2>2. QED
    BY <2>1, Begun
<1>4. LinksTypeOK'
  BY <1>1, <1>2 DEF LinksTypeOK
<1>5. ModeOK(m)'
  BY <1>1, <1>2, <1>3 DEF ModeOK, OldLinks, OldStop, NewStart, StopLinks, NotAhead, Retired
<1>6. \A o \in Modes : o # m => queued'[o] = queued[o]
  BY <1>1, <1>2 DEF LinksTypeOK
<1>7. QED
  BY <1>2, <1>4, <1>5, <1>6, OneMode

LEMMA SharesAppliedKeeps ==
    ASSUME LinksInv, NEW m \in Modes, SharesApplied(m)
    PROVE  LinksInv'
<1> DEFINE f == ScheduleReconcile(flags[m])
<1>1. LinksTypeOK /\ ModeOK(m) /\ ~(m > created)
  BY Begun DEF LinksInv, SharesApplied
<1>2. /\ UNCHANGED <<tasks, step, stopAt, created, current, asked, rec, link, built, shares, refreshed>>
      /\ queued' = [queued EXCEPT ![m] = 0] /\ told' = queued[m]
      /\ flags' = [flags EXCEPT ![m] = f]
  BY DEF SharesApplied, lifecycle
<1>3. f \in Flags /\ f.stopped = flags[m].stopped /\ f.reconciling = flags[m].reconciling
  BY <1>1, ModeShape DEF ScheduleReconcile, Flags
<1> HIDE DEF f
<1>4. flags' \in [Modes -> Flags] /\ flags'[m] = f /\ \A o \in Modes : o # m => flags'[o] = flags[o]
  BY <1>1, <1>2, <1>3, ModeShape
<1>5. LinksTypeOK'
  <2>1. 0 \in Versions
    BY LinksBounds DEF Versions
  <2>2. QED
    BY <1>1, <1>2, <1>4, <2>1 DEF LinksTypeOK
<1>6. ModeOK(m)'
  BY <1>1, <1>2, <1>3, <1>4 DEF ModeOK, OldLinks, OldStop, NewStart, StopLinks, NotAhead, Retired
<1>7. \A o \in Modes : o # m => queued'[o] = queued[o]
  BY <1>1, <1>2 DEF LinksTypeOK
<1>8. QED
  BY <1>2, <1>3, <1>4, <1>5, <1>6, <1>7, OneMode

-----------------------------------------------------------------------------
(* The steps of the lifecycle.                                              *)

\* A step that touches neither a mode nor how far stop has got.
LEMMA ModesStay ==
    ASSUME LinksInv, UNCHANGED <<created, stopAt, flags, rec, link, queued>>
    PROVE  \A o \in Modes : ModeOK(o)'
BY OthersStay DEF LinksInv

LEMMA SharesArriveKeeps ==
    ASSUME LinksInv, SharesArrive
    PROVE  LinksInv'
<1>1. LinksTypeOK'
  <2>1. shares' \in Versions
    BY LinksBounds DEF SharesArrive, LinksInv, LinksTypeOK, Versions
  <2>2. QED
    BY <2>1 DEF LinksInv, LinksTypeOK, SharesArrive, lifecycle
<1>2. (\A o \in Modes : ModeOK(o)') /\ Served' /\ RequestsCounted'
  BY ModesStay, ServedStays, RequestsStay DEF SharesArrive, lifecycle, LinksInv
<1>3. QED
  BY <1>1, <1>2 DEF LinksInv

LEMMA AskKeeps ==
    ASSUME LinksInv, Ask
    PROVE  LinksInv'
<1>1. /\ UNCHANGED <<step, stopAt, created, current, flags, rec, link, built, shares, told, queued, refreshed>>
      /\ asked' = asked + 1
  BY DEF Ask, feed
<1>2. PICK t \in {"replace", "stop"} : tasks' = Append(tasks, t)
  BY DEF Ask
<1>3. tasks \in Seq({"replace", "stop"}) /\ asked \in Nat /\ created \in Nat
  BY LinksBounds DEF LinksInv, LinksTypeOK
<1>4. tasks' \in Seq({"replace", "stop"}) /\ Len(tasks') = Len(tasks) + 1 /\ tasks' # <<>>
  BY <1>2, <1>3
<1>5. LinksTypeOK'
  <2>1. asked' \in 0..MaxTasks
    BY <1>1, LinksBounds DEF Ask, LinksInv, LinksTypeOK
  <2>2. QED
    BY <1>1, <1>4, <2>1 DEF LinksInv, LinksTypeOK
<1>6. RequestsCounted'
  <2>1. Made' = Made /\ Made \in Nat
    BY <1>1 DEF Made
  <2>2. Len(tasks) \in Nat /\ created + Len(tasks) <= asked + Made
    BY <1>3 DEF LinksInv, RequestsCounted
  <2>3. created' + Len(tasks') <= asked' + Made'
    BY <1>1, <1>3, <1>4, <2>1, <2>2
  <2>4. QED
    BY <1>4, <2>3 DEF RequestsCounted
<1>7. (\A o \in Modes : ModeOK(o)') /\ Served'
  BY <1>1, ModesStay, ServedStays DEF LinksInv
<1>8. QED
  BY <1>5, <1>6, <1>7 DEF LinksInv

\* The mode that is served is being stopped: its flag is set, its first link halted.
LEMMA StopModeKeeps ==
    ASSUME LinksInv, current # 0, tasks # <<>>, StopMode, current' = 0, step' \in {"stop", "undo"},
           Made' = Made, UNCHANGED <<tasks, created, asked, rec, built, feed, refreshed>>
    PROVE  LinksInv'
<1>1. LinksTypeOK /\ current = created /\ created \in Modes /\ stopAt = 0
  BY LinksBounds DEF LinksInv, LinksTypeOK, Served, Modes
<1>2. ModeOK(created) /\ stopAt' = 1 /\ UNCHANGED <<queued, shares, told>>
  BY <1>1 DEF LinksInv, StopMode, feed
<1> DEFINE f == [flags[created] EXCEPT !.stopped = TRUE, !.timer = FALSE]
           s == Halted(link[created][1])
<1>3. f \in Flags /\ f.stopped /\ f.reconciling = flags[created].reconciling
  BY <1>1, ModeShape DEF Flags
<1>4. flags' = [flags EXCEPT ![created] = f] /\ link' = [link EXCEPT ![created][1] = s]
  BY DEF StopMode
<1>5. link[created][1] \in LinkStates /\ s \in LinkStates
  BY <1>1, ModeShape, HaltedIs, LinksBounds
<1>6. link[created][1] # "new"
  <2>1. CASE rec[created].pc = "start"
    <3>1. rec[created].at = 1 \/ 1 < rec[created].at
      BY <1>1, ModeShape, LinksBounds DEF Links
    <3>2. "new" \notin {"on", "off"}
      OBVIOUS
    <3>3. QED
      BY <1>2, <2>1, <3>1, <3>2, LinksBounds DEF ModeOK, NewStart
  <2>2. CASE rec[created].pc # "start"
    <3>1. rec[created].pc \in {"idle", "read", "stop"}
      BY <1>1, <2>2, ModeShape DEF Recs
    <3>2. link[created][1] \in {"on", "off"}
      BY <1>2, <3>1, LinksBounds DEF ModeOK, OldLinks
    <3>3. QED
      BY <3>2
  <2>3. QED
    BY <2>1, <2>2
<1>7. s \in {"cancelled", "off"} /\ (link[created][1] \in {"on", "off"} => s = "off")
  BY <1>5, <1>6, HaltedIs
<1> HIDE DEF f, s
<1>8. /\ flags' \in [Modes -> Flags] /\ flags'[created] = f
      /\ \A o \in Modes : o # created => flags'[o] = flags[o]
  BY <1>1, <1>3, <1>4, ModeShape
<1>9. /\ link' \in [Modes -> [Links -> LinkStates]]
      /\ link'[created][1] = s
      /\ \A i \in Links : i # 1 => link'[created][i] = link[created][i]
      /\ \A o \in Modes : o # created => link'[o] = link[o]
  BY <1>1, <1>4, <1>5, ModeShape, LinksBounds, OneLink
<1>10. LinksTypeOK'
  <2>1. stopAt' \in 0..(Spaces + 2) /\ current' \in 0..MaxModes
    BY <1>2, LinksBounds
  <2>2. step' \in {"idle", "stop", "start", "ready", "undo"}
    OBVIOUS
  <2>3. QED
    BY <1>1, <1>2, <1>8, <1>9, <2>1, <2>2 DEF LinksTypeOK
<1>11. RequestsCounted'
  BY DEF LinksInv, RequestsCounted
<1>12. Served'
  <2>1. \A m \in Modes : m <= created => flags'[m].stopped
    BY <1>1, <1>3, <1>8 DEF LinksInv, Served
  <2>2. step' # "idle" /\ step' \notin {"start", "ready"}
    OBVIOUS
  <2>3. QED
    BY <1>1, <2>1, <2>2 DEF Served
<1>13. ModeOK(created)'
  <2>1. OldLinks(created)'
    BY <1>2, <1>7, <1>9, LinksBounds DEF ModeOK, OldLinks
  <2>2. OldStop(created)'
    <3>1. SUFFICES ASSUME rec[created].pc = "stop", NEW i \in 1..rec[created].at
                   PROVE  link'[created][i] = "off"
      BY DEF OldStop
    <3>2. i \in Links
      BY <1>1, ModeShape, LinksBounds DEF Links
    <3>3. link[created][i] = "off"
      BY <1>2, <3>1 DEF ModeOK, OldStop
    <3>4. QED
      BY <1>7, <1>9, <3>2, <3>3
  <2>3. NewStart(created)'
    <3>1. s # "new" /\ rec[created].at \in Nat /\ ~(1 > rec[created].at)
      BY <1>1, <1>7, ModeShape, LinksBounds DEF Links
    <3>2. ASSUME rec[created].pc = "start", NEW i \in Links
          PROVE  /\ i < rec[created].at => link'[created][i] \in {"on", "off"}
                 /\ i = rec[created].at => link'[created][i] # "new"
                 /\ i > rec[created].at => link'[created][i] = "new"
      <4>1. CASE i = 1
        BY <1>2, <1>7, <1>9, <3>1, <3>2, <4>1 DEF ModeOK, NewStart
      <4>2. CASE i # 1
        BY <1>2, <1>9, <3>2, <4>2 DEF ModeOK, NewStart
      <4>3. QED
        BY <4>1, <4>2
    <3>3. QED
      BY <3>2 DEF NewStart
  <2>4. StopLinks(created)'
    BY <1>2, <1>7, <1>9 DEF StopLinks
  <2>5. stopAt' \in Links /\ stopAt' <= rec[created].at
    BY <1>1, <1>2, ModeShape, LinksBounds DEF Links
  <2>6. NotAhead(created)' /\ ~Retired(created)'
    BY <2>5 DEF NotAhead, Retired
  <2>7. ~(created > created)
    BY <1>1, LinksBounds DEF Modes
  <2>8. QED
    BY <1>2, <1>3, <1>8, <2>1, <2>2, <2>3, <2>4, <2>6, <2>7 DEF ModeOK
<1>14. ASSUME NEW o \in Modes, o # created PROVE ModeOK(o)'
  <2>1. /\ ModeOK(o) /\ flags'[o] = flags[o] /\ rec'[o] = rec[o] /\ link'[o] = link[o]
        /\ queued'[o] = queued[o] /\ created' = created
    BY <1>2, <1>8, <1>9, <1>14 DEF LinksInv
  <2>2. StopLinks(o)' /\ (Retired(o)' => Retired(o)) /\ NotAhead(o)'
    <3>1. 0 \notin Links
      BY LinksBounds DEF Links
    <3>2. QED
      BY <1>1, <1>14, <2>1, <3>1 DEF StopLinks, Retired, NotAhead, ModeOK
  <2>3. QED
    BY <2>1, <2>2 DEF ModeOK, Unused, OldLinks, OldStop, NewStart
<1>15. QED
  BY <1>10, <1>11, <1>12, <1>13, <1>14 DEF LinksInv

LEMMA TaskBeginsKeeps ==
    ASSUME LinksInv, TaskBegins
    PROVE  LinksInv'
<1>1. /\ step = "idle" /\ step' = "stop" /\ current' = 0 /\ tasks # <<>> /\ Made' = Made
      /\ UNCHANGED <<tasks, created, asked, rec, built, feed, refreshed>>
  BY DEF TaskBegins, Made
<1>2. CASE current = 0
  <2>1. stopAt' = Spaces + 2 /\ UNCHANGED <<current, flags, link, shares, told, queued>> /\ stopAt = 0
    BY <1>1, <1>2 DEF TaskBegins, feed, LinksInv, Served
  <2>2. stopAt \notin Links /\ stopAt' \notin Links
    BY <2>1, LinksBounds DEF Links
  <2>3. LinksTypeOK'
    <3>1. stopAt' \in 0..(Spaces + 2)
      BY <2>1, LinksBounds
    <3>2. QED
      BY <1>1, <2>1, <3>1 DEF LinksInv, LinksTypeOK
  <2>4. RequestsCounted'
    BY <1>1 DEF LinksInv, RequestsCounted
  <2>5. Served'
    BY <1>1, <1>2, <2>1, <2>2 DEF LinksInv, Served
  <2>6. ASSUME NEW o \in Modes PROVE ModeOK(o)'
    BY <1>1, <2>1, <2>2 DEF LinksInv, ModeOK, Unused, OldLinks, OldStop, NewStart, StopLinks, NotAhead, Retired
  <2>7. QED
    BY <2>3, <2>4, <2>5, <2>6 DEF LinksInv
<1>3. CASE current # 0
  BY <1>1, <1>3, StopModeKeeps DEF TaskBegins
<1>4. QED
  BY <1>2, <1>3

LEMMA ModeFailsKeeps ==
    ASSUME LinksInv, ModeFails
    PROVE  LinksInv'
<1>1. /\ step = "ready" /\ step' = "undo" /\ current' = 0 /\ StopMode
      /\ UNCHANGED <<tasks, created, asked, rec, built, feed, refreshed>>
  BY DEF ModeFails
<1>2. current # 0 /\ tasks # <<>> /\ Made' = Made
  BY <1>1 DEF LinksInv, Served, RequestsCounted, Made
<1>3. QED
  BY <1>1, <1>2, StopModeKeeps

\* The running request ends, while no stop is on its way.
LEMMA TaskEndsKeeps ==
    ASSUME LinksInv, TaskEnds, step # "idle", stopAt \notin Links,
           UNCHANGED <<created, current, asked, flags, rec, link, built, feed, refreshed>>
    PROVE  LinksInv'
<1>1. /\ tasks' = Tail(tasks) /\ step' = "idle" /\ stopAt' = 0 /\ stopAt' \notin Links
      /\ UNCHANGED <<shares, told, queued>>
  BY LinksBounds DEF TaskEnds, feed, Links
<1>2. /\ tasks \in Seq({"replace", "stop"}) /\ tasks # <<>> /\ created \in Nat /\ asked \in Nat
      /\ created + Len(tasks) <= asked + Made
  BY LinksBounds DEF LinksInv, LinksTypeOK, RequestsCounted
<1>3. tasks' \in Seq({"replace", "stop"}) /\ Len(tasks') = Len(tasks) - 1 /\ Len(tasks) \in Nat
  BY <1>1, <1>2
<1>4. LinksTypeOK'
  <2>1. 0 \in 0..(Spaces + 2)
    BY LinksBounds
  <2>2. QED
    BY <1>1, <1>3, <2>1 DEF LinksInv, LinksTypeOK
<1>5. RequestsCounted'
  <2>1. Made \in 0..1 /\ Made' = 0
    BY <1>1 DEF Made
  <2>2. created' + Len(tasks') <= asked' + Made'
    BY <1>2, <1>3, <2>1
  <2>3. QED
    BY <1>1, <2>2 DEF RequestsCounted
<1>6. Served'
  BY <1>1 DEF LinksInv, Served
<1>7. ASSUME NEW o \in Modes PROVE ModeOK(o)'
  BY <1>1 DEF LinksInv, ModeOK, Unused, OldLinks, OldStop, NewStart, StopLinks, NotAhead, Retired
<1>8. QED
  BY <1>4, <1>5, <1>6, <1>7 DEF LinksInv

LEMMA RequestEndsKeeps ==
    ASSUME LinksInv, StopTaskEnds \/ ModeStarted \/ FailureUndone
    PROVE  LinksInv'
<1>1. step # "idle" /\ TaskEnds
      /\ UNCHANGED <<created, current, asked, flags, rec, link, built, feed, refreshed>>
  BY DEF StopTaskEnds, ModeStarted, FailureUndone
<1>2. stopAt = Spaces + 2 \/ stopAt = 0
  BY DEF StopTaskEnds, ModeStarted, FailureUndone, StopDone, LinksInv, Served
<1>3. stopAt \notin Links
  BY <1>2, LinksBounds DEF Links
<1>4. QED
  BY <1>1, <1>3, TaskEndsKeeps

LEMMA StopNextKeeps ==
    ASSUME LinksInv, StopNext
    PROVE  LinksInv'
<1> DEFINE k == stopAt + 1
           s == Halted(link[created][k])
<1>1. /\ stopAt \in Links /\ stopAt' = k /\ Settled(created, stopAt)
      /\ ~(rec[created].pc = "start" /\ rec[created].at = stopAt)
      /\ UNCHANGED <<tasks, step, created, current, asked, flags, rec, built, shares, told, queued, refreshed>>
  BY DEF StopNext, feed
<1>2. created \in Modes /\ current = 0 /\ flags[created].stopped /\ LinksTypeOK /\ ModeOK(created)
  BY <1>1, StopUnderWay DEF LinksInv
<1>3. /\ rec[created].at \in Links /\ link[created] \in [Links -> LinkStates]
      /\ link \in [Modes -> [Links -> LinkStates]]
      /\ rec[created].pc \in {"idle", "read", "stop", "start"}
  BY <1>2, ModeShape DEF Recs
<1>4. link[created][stopAt] = "off" /\ \A i \in 1..(stopAt - 1) : link[created][i] = "off"
  BY <1>1, <1>2 DEF ModeOK, StopLinks, Settled
<1>5. /\ k \in Nat /\ 1..stopAt \subseteq Links
      /\ \A i \in 1..stopAt : link[created][i] = "off" /\ i # k
  BY <1>1, <1>4, LinksBounds DEF Links
<1>6. ASSUME rec[created].pc = "start"
      PROVE  k \in Links /\ k <= rec[created].at
  <2>1. stopAt <= rec[created].at /\ stopAt # rec[created].at
    BY <1>1, <1>2, <1>6 DEF ModeOK, NotAhead
  <2>2. QED
    BY <1>1, <1>3, <2>1, LinksBounds DEF Links
<1>7. ASSUME k \in Links
      PROVE  /\ s \in LinkStates /\ s \in {"cancelled", "off"}
             /\ link[created][k] \in {"on", "off"} => s = "off"
  <2>1. link[created][k] \in LinkStates
    BY <1>3, <1>7
  <2>2. link[created][k] # "new"
    <3>1. CASE rec[created].pc = "start"
      <4>1. k < rec[created].at \/ k = rec[created].at
        BY <1>3, <1>5, <1>6, <3>1, LinksBounds DEF Links
      <4>2. "new" \notin {"on", "off"}
        OBVIOUS
      <4>3. QED
        BY <1>2, <1>7, <3>1, <4>1, <4>2 DEF ModeOK, NewStart
    <3>2. CASE rec[created].pc # "start"
      <4>1. link[created][k] \in {"on", "off"}
        BY <1>2, <1>3, <1>7, <3>2 DEF ModeOK, OldLinks
      <4>2. QED
        BY <4>1
    <3>3. QED
      BY <3>1, <3>2
  <2>3. QED
    BY <2>1, <2>2, HaltedIs
<1>8. /\ link' \in [Modes -> [Links -> LinkStates]]
      /\ \A o \in Modes : o # created => link'[o] = link[o]
      /\ \A i \in Links : i # k => link'[created][i] = link[created][i]
      /\ k \in Links => link'[created][k] = s
  <2>1. CASE k \in Links
    <3>1. link' = [link EXCEPT ![created][k] = s]
      BY <2>1 DEF StopNext
    <3>2. s \in LinkStates
      BY <1>7, <2>1
    <3> HIDE DEF k, s
    <3>3. QED
      BY <1>2, <1>3, <2>1, <3>1, <3>2, OneLink
  <2>2. CASE k \notin Links
    <3>1. link' = link
      BY <2>2 DEF StopNext
    <3>2. QED
      BY <1>3, <2>2, <3>1
  <2>3. QED
    BY <2>1, <2>2
<1> HIDE DEF s
<1>9. LinksTypeOK'
  <2>1. stopAt' \in 0..(Spaces + 2)
    BY <1>1, LinksBounds DEF Links
  <2>2. QED
    BY <1>1, <1>2, <1>8, <2>1 DEF LinksTypeOK
<1>10. RequestsCounted' /\ Served'
  <2>1. stopAt # 0 /\ Made' = Made
    BY <1>1, LinksBounds DEF Links, Made
  <2>2. QED
    BY <1>1, <1>2, <2>1 DEF LinksInv, RequestsCounted, Served
<1>11. ModeOK(created)'
  <2>1. ASSUME NEW i \in Links
        PROVE  /\ link[created][i] = "off" => link'[created][i] = "off"
               /\ link[created][i] \in {"on", "off"} => link'[created][i] \in {"on", "off"}
    BY <1>7, <1>8, <2>1
  <2>2. OldLinks(created)'
    BY <1>1, <1>2, <2>1 DEF ModeOK, OldLinks
  <2>3. OldStop(created)'
    <3>1. 1..rec[created].at \subseteq Links
      BY <1>3, LinksBounds DEF Links
    <3>2. QED
      BY <1>1, <1>2, <2>1, <3>1 DEF ModeOK, OldStop
  <2>4. NewStart(created)'
    <3>1. ASSUME rec[created].pc = "start", NEW i \in Links
          PROVE  /\ i < rec[created].at => link'[created][i] \in {"on", "off"}
                 /\ i = rec[created].at => link'[created][i] # "new"
                 /\ i > rec[created].at => link'[created][i] = "new"
      <4>1. CASE i = k
        <5>1. ~(i > rec[created].at)
          BY <1>3, <1>5, <1>6, <3>1, <4>1, LinksBounds DEF Links
        <5>2. s # "new"
          BY <1>7, <3>1, <4>1
        <5>3. QED
          BY <1>2, <1>8, <2>1, <3>1, <4>1, <5>1, <5>2 DEF ModeOK, NewStart
      <4>2. CASE i # k
        BY <1>2, <1>8, <3>1, <4>2 DEF ModeOK, NewStart
      <4>3. QED
        BY <4>1, <4>2
    <3>2. QED
      BY <1>1, <3>1 DEF NewStart
  <2>5. StopLinks(created)'
    <3>1. 1..(stopAt' - 1) = 1..stopAt
      BY <1>1, LinksBounds DEF Links
    <3>2. \A i \in 1..stopAt : link'[created][i] = "off"
      BY <1>5, <2>1
    <3>3. stopAt' \in Links => link'[created][stopAt'] \in {"cancelled", "off"}
      BY <1>1, <1>7, <1>8
    <3>4. QED
      BY <1>1, <3>1, <3>2, <3>3 DEF StopLinks
  <2>6. NotAhead(created)'
    BY <1>1, <1>6 DEF NotAhead
  <2>7. Retired(created)' => \A i \in Links : link'[created][i] = "off"
    <3>1. SUFFICES ASSUME k \notin Links, NEW i \in Links
                   PROVE  link'[created][i] = "off"
      BY <1>1 DEF Retired
    <3>2. i \in 1..stopAt
      BY <1>1, <3>1, LinksBounds DEF Links
    <3>3. QED
      BY <1>5, <2>1, <3>2
  <2>8. ~(created > created)
    BY <1>2, LinksBounds DEF Modes
  <2>9. QED
    BY <1>1, <1>2, <2>2, <2>3, <2>4, <2>5, <2>6, <2>7, <2>8 DEF ModeOK
<1>12. ASSUME NEW o \in Modes, o # created PROVE ModeOK(o)'
  <2>1. ModeOK(o) /\ link'[o] = link[o]
    BY <1>8, <1>12 DEF LinksInv
  <2>2. StopLinks(o)' /\ (Retired(o)' => Retired(o)) /\ NotAhead(o)'
    BY <1>1, <1>12, <2>1 DEF StopLinks, Retired, NotAhead, ModeOK
  <2>3. QED
    BY <1>1, <2>1, <2>2 DEF ModeOK, Unused, OldLinks, OldStop, NewStart
<1>13. QED
  BY <1>1, <1>9, <1>10, <1>11, <1>12 DEF LinksInv

\* The next mode is created when the one before it has been stopped.
LEMMA CreateModeKeeps ==
    ASSUME LinksInv, CreateMode
    PROVE  LinksInv'
<1>0. PICK n \in Nat : n = created + 1
  BY LinksBounds DEF LinksInv, LinksTypeOK
<1>1. /\ step = "stop" /\ step' = "start" /\ stopAt = Spaces + 2 /\ stopAt' = 0
      /\ created' = n /\ current' = n /\ Reconcile(n, NoFlags)
      /\ UNCHANGED <<tasks, asked, link, built, shares, told, queued, refreshed>>
  BY <1>0 DEF CreateMode, StopDone, feed
<1>2. /\ LinksTypeOK /\ current = 0 /\ created \in Nat /\ asked \in 0..MaxTasks
      /\ tasks \in Seq({"replace", "stop"}) /\ tasks # <<>>
      /\ created + Len(tasks) <= asked
  BY <1>1, LinksBounds DEF LinksInv, LinksTypeOK, Served, RequestsCounted, Made
<1>3. Len(tasks) \in Nat /\ Len(tasks) >= 1
  BY <1>2
<1>4. n \in Modes
  BY <1>0, <1>2, <1>3, LinksBounds DEF Modes
<1>5. NoFlags \in Flags /\ ~NoFlags.stopped /\ ~NoFlags.reconciling
  BY DEF NoFlags, Flags
<1>6. n > created
  BY <1>0, <1>2
<1>7. ModeOK(n) /\ Unused(n)
  BY <1>2, <1>4, <1>6 DEF LinksInv, ModeOK
<1>8. rec[n].pc = "idle" /\ \A i \in Links : link[n][i] = "off"
  BY <1>7 DEF Unused
<1>9. /\ flags' \in [Modes -> Flags] /\ rec' \in [Modes -> Recs]
      /\ \A o \in Modes : o # n => flags'[o] = flags[o] /\ rec'[o] = rec[o]
      /\ ~flags'[n].stopped /\ flags'[n].reconciling /\ rec'[n].pc = "read"
  <2>1. /\ flags' \in [Modes -> Flags] /\ rec' \in [Modes -> Recs]
        /\ \A o \in Modes : o # n => flags'[o] = flags[o] /\ rec'[o] = rec[o]
        /\ flags'[n].stopped = NoFlags.stopped
    BY <1>1, <1>2, <1>4, <1>5, ReconcileSteps
  <2>2. Reconcile(n, NoFlags) => flags' = [flags EXCEPT ![n] = [NoFlags EXCEPT !.reconciling = TRUE]]
                                 /\ rec' = [rec EXCEPT ![n] = [Idle EXCEPT !.pc = "read"]]
    BY <1>5 DEF Reconcile
  <2>3. flags'[n] = [NoFlags EXCEPT !.reconciling = TRUE] /\ rec'[n] = [Idle EXCEPT !.pc = "read"]
    BY <1>1, <1>2, <1>4, <2>2, ModeShape
  <2>4. flags'[n].reconciling /\ rec'[n].pc = "read"
    BY <2>3 DEF NoFlags, Idle
  <2>5. QED
    BY <1>5, <2>1, <2>4
<1>10. LinksTypeOK'
  <2>1. 0 \in 0..(Spaces + 2) /\ n \in 0..MaxModes
    BY <1>4, LinksBounds DEF Modes
  <2>2. QED
    BY <1>1, <1>2, <1>9, <2>1 DEF LinksTypeOK, Recs
<1>11. RequestsCounted'
  <2>1. Made' = 1
    BY <1>1 DEF Made
  <2>2. created' + Len(tasks') <= asked' + Made'
    BY <1>0, <1>1, <1>2, <1>3, <2>1
  <2>3. QED
    BY <1>1, <1>2, <2>2 DEF RequestsCounted
<1>12. 0 \notin Links /\ Spaces + 2 \notin Links
  BY LinksBounds DEF Links
<1>13. Served'
  <2>1. ASSUME NEW m \in Modes, m <= n, m # n PROVE flags'[m].stopped
    <3>1. m <= created /\ m # 0
      BY <1>0, <1>2, <2>1 DEF Modes
    <3>2. QED
      BY <1>2, <1>9, <2>1, <3>1 DEF LinksInv, Served
  <2>2. n # 0
    BY <1>4 DEF Modes
  <2>3. QED
    BY <1>1, <1>12, <2>1, <2>2 DEF Served
<1>14. ModeOK(n)'
  <2>1. ~(n > n)
    BY <1>2
  <2>2. OldLinks(n)'
    BY <1>1, <1>8 DEF OldLinks
  <2>3. QED
    BY <1>1, <1>9, <1>12, <2>1, <2>2 DEF ModeOK, OldStop, NewStart, StopLinks, NotAhead, Retired
<1>15. ASSUME NEW o \in Modes, o # n PROVE ModeOK(o)'
  <2>1. /\ ModeOK(o) /\ flags'[o] = flags[o] /\ rec'[o] = rec[o]
        /\ link'[o] = link[o] /\ queued'[o] = queued[o]
    BY <1>1, <1>9, <1>15 DEF LinksInv
  <2>2. o > n => o > created
    BY <1>0, <1>2 DEF Modes
  <2>3. o <= n => o <= created
    BY <1>0, <1>2, <1>15 DEF Modes
  <2>4. NotAhead(o)' /\ StopLinks(o)'
    BY <1>1, <1>12, <2>1 DEF NotAhead, StopLinks, ModeOK
  <2>5. Retired(o)' => Retired(o)
    BY <1>1, <1>12, <2>1, <2>3 DEF Retired
  <2>6. QED
    BY <1>1, <2>1, <2>2, <2>4, <2>5 DEF ModeOK, Unused, OldLinks, OldStop, NewStart
<1>16. QED
  BY <1>10, <1>11, <1>13, <1>14, <1>15 DEF LinksInv

-----------------------------------------------------------------------------
LEMMA LinksInitInv == LinksInit => LinksInv
<1> SUFFICES ASSUME LinksInit PROVE LinksInv
  OBVIOUS
<1>1. LinksTypeOK
  <2>1. 0 \in 0..(Spaces + 2) /\ 0 \in 0..MaxModes /\ 0 \in Versions /\ 0 \in 0..MaxTasks
        /\ 0 \in 0..MaxRefreshes
    BY LinksBounds DEF Versions
  <2>2. NoFlags \in Flags /\ flags \in [Modes -> Flags]
    BY DEF LinksInit, NoFlags, Flags
  <2>3. rec \in [Modes -> Recs]
    BY IdleIsRec DEF LinksInit
  <2>4. link \in [Modes -> [Links -> LinkStates]]
    BY DEF LinksInit, LinkStates
  <2>5. tasks \in Seq({"replace", "stop"})
    BY DEF LinksInit
  <2>6. QED
    BY <2>1, <2>2, <2>3, <2>4, <2>5 DEF LinksInit, LinksTypeOK, Recs
<1>2. RequestsCounted
  BY DEF LinksInit, RequestsCounted, Made
<1>3. Served
  <2>1. 0 \notin Links /\ \A m \in Modes : ~(m <= 0)
    BY LinksBounds DEF Links, Modes
  <2>2. QED
    BY <2>1 DEF LinksInit, Served
<1>4. ASSUME NEW m \in Modes PROVE ModeOK(m)
  <2>1. /\ flags[m] = NoFlags /\ rec[m] = Idle /\ queued[m] = 0
        /\ \A i \in Links : link[m][i] = "off"
    BY DEF LinksInit
  <2>2. rec[m].pc = "idle" /\ ~flags[m].timer /\ ~flags[m].stopped
    BY <2>1 DEF NoFlags, Idle
  <2>3. stopAt \notin Links
    BY LinksBounds DEF LinksInit, Links
  <2>4. QED
    BY <2>1, <2>2, <2>3 DEF ModeOK, Unused, OldLinks, OldStop, NewStart, StopLinks, NotAhead, Retired
<1>5. QED
  BY <1>1, <1>2, <1>3, <1>4 DEF LinksInv

LEMMA LinksNextInv == LinksInv /\ [LinksNext]_linksVars => LinksInv'
<1> SUFFICES ASSUME LinksInv, [LinksNext]_linksVars PROVE LinksInv'
  OBVIOUS
<1>1. CASE Ask
  BY <1>1, AskKeeps
<1>2. CASE Refresh
  BY <1>2, RefreshKeeps
<1>3. CASE SharesArrive
  BY <1>3, SharesArriveKeeps
<1>4. CASE ModeLife
  BY <1>4, TaskBeginsKeeps, StopNextKeeps, CreateModeKeeps, RequestEndsKeeps DEF ModeLife
<1>5. CASE ModeFails
  BY <1>5, ModeFailsKeeps
<1>6. ASSUME NEW m \in Modes, Rebuild(m) PROVE LinksInv'
  BY <1>6, TimerFiresKeeps, ReadSharesKeeps, StopNextOldKeeps, BuildLinksKeeps, DropLinksKeeps,
     StartNextKeeps, ReconcileEndsKeeps DEF Rebuild
<1>7. ASSUME NEW m \in Modes, ApplierStep(m) PROVE LinksInv'
  BY <1>7, FeedDeliversKeeps, SharesAppliedKeeps DEF ApplierStep
<1>8. ASSUME NEW m \in Modes, NEW i \in Links, LinkStarted(m, i) PROVE LinksInv'
  BY <1>8, LinkStartedKeeps
<1>9. CASE UNCHANGED linksVars
  <2>1. /\ UNCHANGED <<tasks, step, stopAt, created, current, asked, flags, rec, link, built, shares>>
        /\ UNCHANGED <<told, queued, refreshed>>
    BY <1>9 DEF linksVars, lifecycle, feed
  <2>2. LinksTypeOK'
    BY <2>1 DEF LinksInv, LinksTypeOK
  <2>3. (\A o \in Modes : ModeOK(o)') /\ Served' /\ RequestsCounted'
    BY <2>1, ModesStay, ServedStays, RequestsStay DEF LinksInv
  <2>4. QED
    BY <2>2, <2>3 DEF LinksInv
<1>10. QED
  BY <1>1, <1>2, <1>3, <1>4, <1>5, <1>6, <1>7, <1>8, <1>9 DEF LinksNext

\* Once stop has returned for a mode, no link of it runs or has a start pending, whatever its
\* reconciliation, a pending start or a timer was doing when it was called (MemberMode.stop,
\* AsyncLifecycle.stop), for every number of modes, links, versions and requests.
THEOREM StoppedModesAreQuiet == LinksSpec => []RetiredModeIsQuiet
<1>1. LinksInv => RetiredModeIsQuiet
  BY DEF LinksInv, ModeOK, RetiredModeIsQuiet
<1>2. QED
  BY <1>1, LinksInitInv, LinksNextInv, PTL DEF LinksSpec

-----------------------------------------------------------------------------
(* Access: the tokens of real time.  The commands of the manager overlap,   *)
(* and a write that loses against another is given up after three attempts; *)
(* what makes the documents right all the same is that everything a command *)
(* holds was read from the settings there still are, so that whoever wins   *)
(* writes what the loser would have written.                                *)

Devices == [on : BOOLEAN, token : Nat, open : BOOLEAN, session : Nat,
            conn : {"none", "asked", "refused", "loading", "joined", "closed"}, timer : BOOLEAN]
Bodies(d) == IF d = "shares" THEN [space : Nat, mirror : Nat, realtime : BOOLEAN]
             ELSE [enabled : BOOLEAN]
PlainPlaces == [at : {"idle", "mint", "space", "mirror", "sync"}, restarts : BOOLEAN]
SignedPlaces == [at : {"signed"}, restarts : BOOLEAN, space : Nat]
PutPlaces == [at : {"put"}, restarts : BOOLEAN, d : Documents,
              body : Bodies("shares") \cup Bodies("rtconfig"), rev : Nat, attempt : 1..3]

AccessTypeOK ==
    /\ settings \in [enabled : BOOLEAN, blocked : BOOLEAN] /\ passed \in BOOLEAN
    /\ stored \in [space : Nat, member : Nat, manager : Nat]
    /\ command \in [Commands -> PlainPlaces \cup SignedPlaces \cup PutPlaces]
    /\ \A c \in Commands : At(c, "put") => command[c].body \in Bodies(command[c].d)
    /\ shared \in [Documents -> [rev : Nat, body : Bodies("shares") \cup Bodies("rtconfig")]]
    /\ \A d \in Documents : shared[d].body \in Bodies(d)
    /\ device \in [Accounts -> Devices] /\ forgotten \in [Accounts -> BOOLEAN]
    /\ docMinExp \subseteq Nat /\ clock \in Nat

\* The token of the member and the documents say what the settings say.
MemberTokenRight == (stored.member # NoToken) = Allowed
BodyRight(d, body) ==
    IF d = "shares"
    THEN /\ body.realtime = Allowed
         /\ (body.space # NoToken) = Allowed /\ (body.mirror # NoToken) = Allowed
    ELSE body.enabled = settings.enabled
DocumentRight(d) == BodyRight(d, shared[d].body)

\* A command that has the signing of the tokens, the writing of a document still before it.
Minting(c) == command[c].at \in {"mint", "space", "mirror"}
Writes(c, d) ==
    IF d = "shares"
    THEN Minting(c) \/ At(c, "sync") \/ At(c, "signed") \/ (At(c, "put") /\ command[c].d = d)
    ELSE ~At(c, "idle")

\* What is not right yet, some command will make right.
ComesRight ==
    /\ MemberTokenRight \/ \E c \in Commands : Minting(c)
    /\ \A d \in Documents : DocumentRight(d) \/ \E c \in Commands : Writes(c, d)

\* What a command holds is right, and a write it has lost against made the document right.
HoldsRight(c) ==
    /\ At(c, "mirror") => Allowed
    /\ command[c].at \in {"sync", "signed", "put"} => MemberTokenRight
    /\ At(c, "signed") => Allowed /\ command[c].space # NoToken
    /\ At(c, "put") =>
          /\ BodyRight(command[c].d, command[c].body)
          /\ command[c].rev # shared[command[c].d].rev => DocumentRight(command[c].d)

CommandsRight == ~passed => ComesRight /\ \A c \in Commands : HoldsRight(c)

\* The server keeps one expiry of the document, and it watches every connection it admits.
OneExpiry == \A e, f \in docMinExp : e = f
Watched ==
    \A u \in Accounts : device[u].conn \in {"loading", "joined"} /\ ~forgotten[u]
        => \E exp \in docMinExp : exp <= device[u].session

AccessInv == AccessTypeOK /\ CommandsRight /\ OneExpiry /\ Watched

-----------------------------------------------------------------------------
(* Shapes.                                                                  *)

LEMMA AccessBounds ==
    /\ Lifetime \in Nat /\ Lifetime > 0 /\ "shares" \in Documents /\ "rtconfig" \in Documents
    /\ NoToken \in Nat /\ Blank("shares") \in Bodies("shares") /\ Blank("rtconfig") \in Bodies("rtconfig")
BY AccessAssumption DEF Documents, NoToken, Blank, Bodies

LEMMA PlaceShapes ==
    ASSUME AccessTypeOK, NEW c \in Commands
    PROVE  /\ At(c, "signed") => command[c] \in SignedPlaces
           /\ At(c, "put") => command[c] \in PutPlaces
           /\ ~At(c, "signed") /\ ~At(c, "put") => command[c] \in PlainPlaces
           /\ command[c].restarts \in BOOLEAN
BY DEF AccessTypeOK, At, PlainPlaces, SignedPlaces, PutPlaces

\* A command goes to a place.
LEMMA GoesTo ==
    ASSUME AccessTypeOK, NEW c \in Commands, NEW p \in PlainPlaces \cup SignedPlaces \cup PutPlaces,
           Goes(c, p)
    PROVE  /\ command' \in [Commands -> PlainPlaces \cup SignedPlaces \cup PutPlaces]
           /\ command'[c] = p
           /\ \A o \in Commands : o # c => command'[o] = command[o]
BY DEF AccessTypeOK, Goes

LEMMA ToPlace ==
    ASSUME AccessTypeOK, NEW c \in Commands, NEW place \in {"space", "sync"},
           ~At(c, "signed"), ~At(c, "put"), To(c, place)
    PROVE  /\ command' \in [Commands -> PlainPlaces \cup SignedPlaces \cup PutPlaces]
           /\ command'[c].at = place
           /\ \A o \in Commands : o # c => command'[o] = command[o]
<1> DEFINE p == [command[c] EXCEPT !.at = place]
<1>1. command[c] \in PlainPlaces
  BY PlaceShapes
<1>2. p \in PlainPlaces /\ p.at = place
  BY <1>1 DEF PlainPlaces
<1>3. Goes(c, p)
  BY DEF To
<1> HIDE DEF p
<1>4. QED
  BY <1>2, <1>3, GoesTo

\* A command asks for the revision of a document and holds a body for it.
LEMMA AsksFor ==
    ASSUME AccessTypeOK, NEW c \in Commands, NEW d \in Documents, NEW body \in Bodies(d),
           Asks(c, d, body)
    PROVE  /\ command' \in [Commands -> PlainPlaces \cup SignedPlaces \cup PutPlaces]
           /\ command'[c].at = "put" /\ command'[c].d = d /\ command'[c].body = body
           /\ command'[c].rev = shared[d].rev
           /\ \A o \in Commands : o # c => command'[o] = command[o]
<1> DEFINE p == [at |-> "put", restarts |-> command[c].restarts, d |-> d, body |-> body,
                 rev |-> shared[d].rev, attempt |-> 1]
<1>1. shared[d].rev \in Nat /\ command[c].restarts \in BOOLEAN
  BY PlaceShapes DEF AccessTypeOK
<1>2. body \in Bodies("shares") \cup Bodies("rtconfig")
  BY DEF Documents
<1>3. p \in PutPlaces
  BY <1>1, <1>2 DEF PutPlaces
<1>4. Goes(c, p) /\ p.at = "put" /\ p.d = d /\ p.body = body /\ p.rev = shared[d].rev
  BY DEF Asks
<1> HIDE DEF p
<1>5. QED
  BY <1>3, <1>4, GoesTo

-----------------------------------------------------------------------------
(* What a step does not touch.                                              *)

\* A step of one command, under settings that stay.
LEMMA CommandMoves ==
    ASSUME AccessInv, NEW c \in Commands, UNCHANGED <<settings, passed>>,
           \A o \in Commands : o # c => command'[o] = command[o],
           ~passed => /\ MemberTokenRight => MemberTokenRight'
                      /\ Minting(c) => Minting(c)' \/ MemberTokenRight'
                      /\ HoldsRight(c)',
           ~passed => \A d \in Documents :
                      /\ DocumentRight(d) => DocumentRight(d)'
                      /\ Writes(c, d) => Writes(c, d)' \/ DocumentRight(d)'
                      /\ shared'[d].rev # shared[d].rev => DocumentRight(d)'
    PROVE  CommandsRight'
<1> SUFFICES ASSUME ~passed PROVE ComesRight' /\ \A o \in Commands : HoldsRight(o)'
  BY DEF CommandsRight
<1>1. ComesRight /\ \A o \in Commands : HoldsRight(o)
  BY DEF AccessInv, CommandsRight
<1>2. ASSUME NEW o \in Commands, o # c
      PROVE  /\ Minting(o) => Minting(o)'
             /\ \A d \in Documents : Writes(o, d) => Writes(o, d)'
  BY <1>2 DEF Minting, Writes, At
<1>3. MemberTokenRight' \/ \E o \in Commands : Minting(o)'
  BY <1>1, <1>2 DEF ComesRight
<1>4. ASSUME NEW d \in Documents PROVE DocumentRight(d)' \/ \E o \in Commands : Writes(o, d)'
  BY <1>1, <1>2, <1>4 DEF ComesRight
<1>5. ASSUME NEW o \in Commands, o # c PROVE HoldsRight(o)'
  <2>1. command'[o] = command[o] /\ HoldsRight(o)
    BY <1>1, <1>5
  <2>2. At(o, "mirror")' => Allowed'
    BY <2>1 DEF HoldsRight, At, Allowed
  <2>3. (command[o].at \in {"sync", "signed", "put"} => MemberTokenRight)'
    BY <2>1 DEF HoldsRight
  <2>4. (At(o, "signed") => Allowed /\ command[o].space # NoToken)'
    BY <2>1 DEF HoldsRight, At, Allowed
  <2>5. ASSUME At(o, "put")
        PROVE  /\ BodyRight(command[o].d, command[o].body)'
               /\ command[o].rev # shared'[command[o].d].rev => DocumentRight(command[o].d)'
    <3>1. command[o].d \in Documents
      BY <2>5, PlaceShapes DEF AccessInv, PutPlaces
    <3>2. BodyRight(command[o].d, command[o].body)
      BY <2>1, <2>5 DEF HoldsRight
    <3>3. BodyRight(command[o].d, command[o].body)'
      BY <2>1, <3>2 DEF BodyRight, Allowed
    <3>4. ASSUME command[o].rev # shared'[command[o].d].rev PROVE DocumentRight(command[o].d)'
      <4>1. PICK d \in Documents : d = command[o].d
        BY <3>1
      <4>2. DocumentRight(d) \/ shared'[d].rev # shared[d].rev
        BY <2>1, <2>5, <3>4, <4>1 DEF HoldsRight
      <4>3. DocumentRight(d)'
        BY <4>2
      <4>4. QED
        BY <2>1, <4>1, <4>3
    <3>5. QED
      BY <3>3, <3>4
  <2>6. QED
    BY <2>1, <2>2, <2>3, <2>4, <2>5 DEF HoldsRight, At
<1>6. QED
  BY <1>3, <1>4, <1>5 DEF ComesRight

\* A step that leaves the manager alone.
LEMMA ManagerRests ==
    ASSUME AccessInv, UNCHANGED managerSide
    PROVE  CommandsRight'
BY DEF AccessInv, managerSide, CommandsRight, ComesRight, HoldsRight, MemberTokenRight, DocumentRight,
   BodyRight, Minting, Writes, At, Allowed

\* A step that lets no connection in and strikes out no expiry.
LEMMA NobodyLetIn ==
    ASSUME Watched, UNCHANGED <<docMinExp, forgotten>>,
           \A u \in Accounts : device'[u].conn \in {"loading", "joined"} =>
               device[u].conn \in {"loading", "joined"} /\ device'[u].session = device[u].session
    PROVE  Watched'
BY DEF Watched

\* What syncOpenEditors makes of a device is not let in, unless it was before.
LEMMA SyncedIs ==
    ASSUME NEW on \in BOOLEAN, NEW d \in Devices
    PROVE  /\ Ended(d) \in Devices /\ Ended(d).conn = "none"
           /\ SyncedOpen(on, d) \in Devices
           /\ SyncedOpen(on, d).conn \in {"loading", "joined"} =>
                  SyncedOpen(on, d).conn = d.conn /\ SyncedOpen(on, d).session = d.session
<1>1. Ended(d) \in Devices /\ Ended(d).conn = "none"
  BY AccessBounds DEF Ended, Devices
<1>2. CASE ~on \/ ~d.open
  BY <1>1, <1>2 DEF SyncedOpen
<1>3. CASE on /\ d.open /\ (d.session # NoToken \/ d.timer \/ d.token = NoToken)
  <2>1. SyncedOpen(on, d) = d
    BY <1>3 DEF SyncedOpen
  <2>2. QED
    BY <1>1, <2>1
<1>4. CASE on /\ d.open /\ ~(d.session # NoToken \/ d.timer \/ d.token = NoToken)
  <2> DEFINE r == [d EXCEPT !.session = d.token, !.conn = "asked"]
  <2>1. SyncedOpen(on, d) = r
    BY <1>4 DEF SyncedOpen
  <2>2. r \in Devices /\ r.conn = "asked"
    BY DEF Devices
  <2> HIDE DEF r
  <2>3. QED
    BY <1>1, <2>1, <2>2
<1>5. QED
  BY <1>2, <1>3, <1>4 DEF Devices

\* One device moves without being let in.
LEMMA DeviceMoves ==
    ASSUME AccessTypeOK, Watched, NEW u \in Accounts, NEW r \in Devices, Update(u, r),
           UNCHANGED <<docMinExp, forgotten>>,
           r.conn \in {"loading", "joined"} =>
               device[u].conn \in {"loading", "joined"} /\ r.session = device[u].session
    PROVE  device' \in [Accounts -> Devices] /\ Watched'
<1>1. /\ device' \in [Accounts -> Devices] /\ device'[u] = r
      /\ \A o \in Accounts : o # u => device'[o] = device[o]
  BY DEF AccessTypeOK, Update
<1>2. QED
  BY <1>1, NobodyLetIn

LEMMA AreOn ==
    ASSUME AccessTypeOK, NEW u \in Accounts
    PROVE  On(u) \in BOOLEAN /\ device[u] \in Devices
BY DEF AccessTypeOK, On, Devices

\* A step of a device or of the clock.
LEMMA DeviceSide ==
    ASSUME AccessInv, UNCHANGED <<managerSide, docMinExp, forgotten>>, clock' \in Nat,
           device' \in [Accounts -> Devices], Watched'
    PROVE  AccessInv'
<1>1. AccessTypeOK'
  BY DEF AccessInv, AccessTypeOK, managerSide, At
<1>2. CommandsRight'
  BY ManagerRests DEF managerSide
<1>3. QED
  BY <1>1, <1>2 DEF AccessInv, OneExpiry

-----------------------------------------------------------------------------
(* The devices and the server.                                              *)

LEMMA DeviceStepsKeep ==
    ASSUME AccessInv, NEW u \in Accounts,
           OpenOrClose(u) \/ WorkspaceChange(u) \/ Refused(u) \/ RetryTimer(u)
    PROVE  AccessInv'
<1>1. AccessTypeOK /\ Watched /\ clock' = clock /\ clock \in Nat /\ UNCHANGED <<managerSide, docMinExp, forgotten>>
  BY DEF AccessInv, AccessTypeOK, OpenOrClose, WorkspaceChange, Refused, RetryTimer, serverSide
<1>2. device[u] \in Devices /\ On(u) \in BOOLEAN
  BY <1>1, AreOn
<1>3. PICK r \in Devices :
         /\ Update(u, r)
         /\ r.conn \in {"loading", "joined"} => r.conn = device[u].conn /\ r.session = device[u].session
  <2>1. CASE OpenOrClose(u)
    <3> DEFINE d == [device[u] EXCEPT !.open = ~@]
    <3>1. d \in Devices /\ d.conn = device[u].conn /\ d.session = device[u].session
      BY <1>2 DEF Devices
    <3>2. Update(u, SyncedOpen(On(u), d))
      BY <2>1 DEF OpenOrClose
    <3> HIDE DEF d
    <3>3. QED
      BY <1>2, <3>1, <3>2, SyncedIs
  <2>2. CASE WorkspaceChange(u)
    BY <1>2, <2>2, SyncedIs DEF WorkspaceChange
  <2>3. CASE Refused(u)
    <3> DEFINE d == [Ended(device[u]) EXCEPT !.timer = TRUE]
    <3>1. d \in Devices /\ d.conn = "none"
      <4>1. PICK e \in Devices : e = Ended(device[u]) /\ e.conn = "none"
        BY <1>2, SyncedIs
      <4>2. [e EXCEPT !.timer = TRUE] \in Devices /\ [e EXCEPT !.timer = TRUE].conn = "none"
        BY <4>1 DEF Devices
      <4>3. QED
        BY <4>1, <4>2
    <3>2. Update(u, d)
      BY <2>3 DEF Refused
    <3> HIDE DEF d
    <3>3. QED
      BY <3>1, <3>2
  <2>4. CASE RetryTimer(u)
    <3> DEFINE d == [device[u] EXCEPT !.timer = FALSE]
    <3>1. d \in Devices /\ d.conn = device[u].conn /\ d.session = device[u].session
      BY <1>2 DEF Devices
    <3>2. Update(u, SyncedOpen(On(u), d))
      BY <2>4 DEF RetryTimer
    <3> HIDE DEF d
    <3>3. QED
      BY <1>2, <3>1, <3>2, SyncedIs
  <2>5. QED
    BY <2>1, <2>2, <2>3, <2>4
<1>4. device' \in [Accounts -> Devices] /\ Watched'
  BY <1>1, <1>3, DeviceMoves
<1>5. QED
  BY <1>1, <1>4, DeviceSide

LEMMA ReplicateKeeps ==
    ASSUME AccessInv, NEW d \in Documents, Replicate(d)
    PROVE  AccessInv'
<1>1. AccessTypeOK /\ Watched /\ clock' = clock /\ clock \in Nat /\ UNCHANGED <<managerSide, docMinExp, forgotten>>
  BY DEF AccessInv, AccessTypeOK, Replicate, serverSide
<1>2. "member" \in Accounts /\ device["member"] \in Devices
  BY <1>1, AreOn DEF Accounts
<1>3. PICK r \in Devices :
         Update("member", r) /\ r.conn = device["member"].conn /\ r.session = device["member"].session
  <2>1. CASE d = "rtconfig"
    <3> DEFINE r == [device["member"] EXCEPT !.on = shared[d].body.enabled]
    <3>1. shared[d].body.enabled \in BOOLEAN
      BY <1>1, <2>1, AccessBounds DEF AccessTypeOK, Bodies
    <3>2. r \in Devices /\ r.conn = device["member"].conn /\ r.session = device["member"].session
      BY <1>2, <3>1 DEF Devices
    <3>3. Update("member", r)
      BY <2>1 DEF Replicate
    <3> HIDE DEF r
    <3>4. QED
      BY <3>2, <3>3
  <2>2. CASE d # "rtconfig"
    <3> DEFINE r == [device["member"] EXCEPT !.token = shared[d].body.space]
    <3>1. shared[d].body.space \in Nat
      BY <1>1, <2>2, AccessBounds DEF AccessTypeOK, Bodies, Documents
    <3>2. r \in Devices /\ r.conn = device["member"].conn /\ r.session = device["member"].session
      BY <1>2, <3>1 DEF Devices
    <3>3. Update("member", r)
      BY <2>2 DEF Replicate
    <3> HIDE DEF r
    <3>4. QED
      BY <3>2, <3>3
  <2>3. QED
    BY <2>1, <2>2
<1>4. device' \in [Accounts -> Devices] /\ Watched'
  BY <1>1, <1>2, <1>3, DeviceMoves
<1>5. QED
  BY <1>1, <1>4, DeviceSide

LEMMA TickKeeps ==
    ASSUME AccessInv, Tick
    PROVE  AccessInv'
<1>1. /\ UNCHANGED <<managerSide, docMinExp, forgotten>> /\ clock' \in Nat
      /\ device' = device /\ device \in [Accounts -> Devices] /\ Watched
  BY DEF AccessInv, AccessTypeOK, Tick, serverSide
<1>2. Watched'
  BY <1>1, NobodyLetIn
<1>3. QED
  BY <1>1, <1>2, DeviceSide

\* Of at most one expiry and a new one the earlier is kept.
LEMMA LeastOfTwo ==
    ASSUME OneExpiry, docMinExp \subseteq Nat, NEW exp \in Nat, noteTokenExp(exp)
    PROVE  /\ docMinExp' \subseteq Nat /\ OneExpiry'
           /\ \E e \in docMinExp' : e <= exp
           /\ \A o \in docMinExp : \E e \in docMinExp' : e <= o
<1>1. docMinExp' = {e \in docMinExp \cup {exp} : \A o \in docMinExp \cup {exp} : e <= o}
  BY DEF noteTokenExp, Least
<1>2. CASE docMinExp = {}
  <2>1. docMinExp' = {exp}
    BY <1>1, <1>2
  <2>2. QED
    BY <1>2, <2>1 DEF OneExpiry
<1>3. CASE docMinExp # {}
  <2>1. PICK o \in Nat : docMinExp = {o}
    BY <1>3 DEF OneExpiry
  <2>2. docMinExp' = {IF o <= exp THEN o ELSE exp}
    BY <1>1, <2>1
  <2>3. QED
    BY <2>1, <2>2 DEF OneExpiry
<1>4. QED
  BY <1>2, <1>3

LEMMA OnAuthenticateKeeps ==
    ASSUME AccessInv, NEW u \in Accounts, OnAuthenticate(u)
    PROVE  AccessInv'
<1>1. /\ AccessTypeOK /\ Watched /\ OneExpiry /\ UNCHANGED <<managerSide, inMemory, clock>>
      /\ device[u] \in Devices /\ device[u].conn = "asked"
  BY AreOn DEF AccessInv, OnAuthenticate
<1>2. CASE Expired(device[u].session)
  <2> DEFINE r == [device[u] EXCEPT !.conn = "refused"]
  <2>1. r \in Devices /\ r.conn = "refused"
    BY <1>1 DEF Devices
  <2>2. Update(u, r) /\ UNCHANGED <<docMinExp, forgotten>>
    BY <1>2 DEF OnAuthenticate
  <2> HIDE DEF r
  <2>3. device' \in [Accounts -> Devices] /\ Watched'
    BY <1>1, <2>1, <2>2, DeviceMoves
  <2>4. clock' \in Nat
    BY <1>1 DEF AccessTypeOK
  <2>5. QED
    BY <1>1, <2>2, <2>3, <2>4, DeviceSide
<1>3. CASE ~Expired(device[u].session)
  <2> DEFINE r == [device[u] EXCEPT !.conn = "loading"]
  <2>1. r \in Devices /\ r.session = device[u].session /\ r.session \in Nat
    BY <1>1 DEF Devices
  <2>2. /\ Update(u, r) /\ noteTokenExp(device[u].session)
        /\ forgotten' = [forgotten EXCEPT ![u] = FALSE]
    BY <1>3 DEF OnAuthenticate
  <2> HIDE DEF r
  <2>3. /\ device' \in [Accounts -> Devices] /\ device'[u] = r
        /\ \A o \in Accounts : o # u => device'[o] = device[o]
    BY <1>1, <2>1, <2>2 DEF AccessTypeOK, Update
  <2>4. /\ forgotten' \in [Accounts -> BOOLEAN]
        /\ \A o \in Accounts : o # u => forgotten'[o] = forgotten[o]
    BY <1>1, <2>2 DEF AccessTypeOK
  <2>5. docMinExp \subseteq Nat /\ device \in [Accounts -> Devices]
    BY <1>1 DEF AccessTypeOK
  <2>6. /\ docMinExp' \subseteq Nat /\ OneExpiry'
        /\ \E e \in docMinExp' : e <= r.session
        /\ \A o \in docMinExp : \E e \in docMinExp' : e <= o
    BY <1>1, <2>1, <2>2, <2>5, LeastOfTwo
  <2>7. Watched'
    <3>1. ASSUME NEW o \in Accounts, device'[o].conn \in {"loading", "joined"}, ~forgotten'[o]
          PROVE  \E e \in docMinExp' : e <= device'[o].session
      <4>1. CASE o = u
        BY <2>3, <2>6, <4>1
      <4>2. CASE o # u
        <5>1. PICK e \in docMinExp : e <= device[o].session
          BY <1>1, <2>3, <2>4, <3>1, <4>2 DEF Watched
        <5>2. PICK f \in docMinExp' : f <= e
          BY <2>6
        <5>3. e \in Nat /\ f \in Nat /\ device[o].session \in Nat
          BY <2>5, <2>6 DEF Devices
        <5>4. f <= device'[o].session
          BY <2>3, <4>2, <5>1, <5>2, <5>3
        <5>5. QED
          BY <5>4
      <4>3. QED
        BY <4>1, <4>2
    <3>2. QED
      BY <3>1 DEF Watched
  <2>8. AccessTypeOK'
    BY <1>1, <2>3, <2>4, <2>6 DEF AccessTypeOK, managerSide, At
  <2>9. CommandsRight'
    BY <1>1, ManagerRests
  <2>10. QED
    BY <2>6, <2>7, <2>8, <2>9 DEF AccessInv
<1>4. QED
  BY <1>2, <1>3

LEMMA AfterLoadDocumentKeeps ==
    ASSUME AccessInv, NEW u \in Accounts, AfterLoadDocument(u)
    PROVE  AccessInv'
<1>1. /\ AccessTypeOK /\ Watched /\ UNCHANGED <<managerSide, docMinExp, forgotten, clock>>
      /\ device[u] \in Devices /\ device[u].conn = "loading" /\ clock' \in Nat
  BY AreOn DEF AccessInv, AccessTypeOK, AfterLoadDocument
<1> DEFINE r == [device[u] EXCEPT !.conn = "joined"]
<1>2. r \in Devices /\ r.session = device[u].session
  BY <1>1 DEF Devices
<1>3. Update(u, r)
  BY DEF AfterLoadDocument
<1> HIDE DEF r
<1>4. device' \in [Accounts -> Devices] /\ Watched'
  BY <1>1, <1>2, <1>3, DeviceMoves
<1>5. QED
  BY <1>1, <1>4, DeviceSide

\* The expiries are struck out: the connections that are loading are marked, the others closed.
LEMMA ForgetKeeps ==
    ASSUME AccessInv, Forget, UNCHANGED <<managerSide, clock>>, device' \in [Accounts -> Devices],
           \A u \in Accounts : device'[u].conn # "joined",
           \A u \in Accounts : device'[u].conn = "loading" => device[u].conn = "loading"
    PROVE  AccessInv'
<1>1. docMinExp' = {} /\ forgotten' = [u \in Accounts |-> forgotten[u] \/ device[u].conn = "loading"]
  BY DEF Forget
<1>2. AccessTypeOK'
  <2>1. forgotten' \in [Accounts -> BOOLEAN]
    BY <1>1
  <2>2. QED
    BY <1>1, <2>1 DEF AccessInv, AccessTypeOK, managerSide, At
<1>3. Watched' /\ OneExpiry'
  BY <1>1 DEF Watched, OneExpiry
<1>4. QED
  BY <1>2, <1>3, ManagerRests DEF AccessInv

LEMMA SweepKeeps ==
    ASSUME AccessInv, Sweep
    PROVE  AccessInv'
<1>1. /\ Forget /\ UNCHANGED <<managerSide, clock>> /\ device \in [Accounts -> Devices]
      /\ device' = [u \in Accounts |-> IF device[u].conn = "joined"
                                       THEN [device[u] EXCEPT !.conn = "closed"] ELSE device[u]]
  BY DEF Sweep, AccessInv, AccessTypeOK
<1>2. ASSUME NEW u \in Accounts
      PROVE  /\ device'[u] \in Devices /\ device'[u].conn # "joined"
             /\ device'[u].conn = "loading" => device[u].conn = "loading"
  <2>1. PICK r \in Devices : r = device[u]
    BY <1>1
  <2>2. [r EXCEPT !.conn = "closed"] \in Devices /\ [r EXCEPT !.conn = "closed"].conn = "closed"
    BY DEF Devices
  <2>3. QED
    BY <1>1, <2>1, <2>2
<1>3. device' \in [Accounts -> Devices]
  BY <1>1, <1>2
<1>4. QED
  BY <1>1, <1>2, <1>3, ForgetKeeps

LEMMA AfterUnloadDocumentKeeps ==
    ASSUME AccessInv, AfterUnloadDocument
    PROVE  AccessInv'
<1>1. /\ Forget /\ UNCHANGED <<managerSide, device, clock>> /\ device \in [Accounts -> Devices]
      /\ \A u \in Accounts : device[u].conn # "joined"
  BY DEF AfterUnloadDocument, AccessInv, AccessTypeOK
<1>2. QED
  BY <1>1, ForgetKeeps

-----------------------------------------------------------------------------
(* The commands of the manager.                                             *)

\* A step of a command leaves a well-formed state.
LEMMA CommandSide ==
    ASSUME AccessInv, NEW c \in Commands,
           command' \in [Commands -> PlainPlaces \cup SignedPlaces \cup PutPlaces],
           \A o \in Commands : o # c => command'[o] = command[o],
           At(c, "put")' => command'[c].body \in Bodies(command'[c].d),
           UNCHANGED <<docMinExp, forgotten, clock, device>>,
           settings' \in [enabled : BOOLEAN, blocked : BOOLEAN], passed' \in BOOLEAN,
           stored' \in [space : Nat, member : Nat, manager : Nat],
           UNCHANGED shared, CommandsRight'
    PROVE  AccessInv'
<1>1. \A o \in Commands : At(o, "put")' => command'[o].body \in Bodies(command'[o].d)
  BY DEF AccessInv, AccessTypeOK, At
<1>2. AccessTypeOK'
  BY <1>1 DEF AccessInv, AccessTypeOK
<1>3. Watched' /\ OneExpiry'
  BY DEF AccessInv, Watched, OneExpiry
<1>4. QED
  BY <1>2, <1>3 DEF AccessInv

LEMMA Tokens ==
    ASSUME AccessTypeOK
    PROVE  /\ stored \in [space : Nat, member : Nat, manager : Nat]
           /\ Fresh \in Nat /\ Fresh # NoToken /\ Allowed \in BOOLEAN
BY AccessBounds DEF AccessTypeOK, Fresh, NoToken, Allowed

\* mintMirror: a member who may not have real time loses both tokens.
LEMMA Minted ==
    ASSUME AccessTypeOK, NEW c \in Commands, NEW allowed \in BOOLEAN, NEW restarts \in BOOLEAN,
           NEW kept \in [space : Nat, member : Nat, manager : Nat],
           MintMirror(c, allowed, kept, restarts)
    PROVE  /\ command' \in [Commands -> PlainPlaces \cup SignedPlaces \cup PutPlaces]
           /\ \A o \in Commands : o # c => command'[o] = command[o]
           /\ stored' \in [space : Nat, member : Nat, manager : Nat]
           /\ allowed => command'[c].at = "mirror" /\ stored'.member = kept.member
           /\ ~allowed => command'[c].at = "sync" /\ stored'.member = NoToken
<1> DEFINE p == [at |-> IF allowed THEN "mirror" ELSE "sync", restarts |-> restarts]
<1>1. p \in PlainPlaces /\ p.at = IF allowed THEN "mirror" ELSE "sync"
  BY DEF PlainPlaces
<1>2. Goes(c, p)
  BY DEF MintMirror
<1> HIDE DEF p
<1>3. /\ command' \in [Commands -> PlainPlaces \cup SignedPlaces \cup PutPlaces]
      /\ \A o \in Commands : o # c => command'[o] = command[o]
      /\ command'[c] = p
  BY <1>1, <1>2, GoesTo
<1>4. CASE allowed
  BY <1>1, <1>3, <1>4 DEF MintMirror
<1>5. CASE ~allowed
  <2>1. stored' = [kept EXCEPT !.member = NoToken, !.manager = NoToken]
    BY <1>5 DEF MintMirror
  <2>2. stored'.member = NoToken /\ stored' \in [space : Nat, member : Nat, manager : Nat]
    BY <2>1 DEF NoToken
  <2>3. QED
    BY <1>1, <1>3, <1>5, <2>2
<1>6. QED
  BY <1>4, <1>5

\* A command begins while no other has looked at the settings yet.
LEMMA StartsAlone ==
    ASSUME NEW c \in Commands,
           \A o \in Commands : o # c => command'[o] = command[o] /\ command[o].at \in {"idle", "mint"},
           command'[c].at \in {"mint", "mirror", "sync"},
           command'[c].at = "mirror" => Allowed',
           command'[c].at = "sync" => MemberTokenRight'
    PROVE  CommandsRight'
<1>1. MemberTokenRight' \/ Minting(c)'
  BY DEF Minting
<1>2. \A d \in Documents : Writes(c, d)'
  BY DEF Writes, Minting, At
<1>3. ComesRight'
  BY <1>1, <1>2 DEF ComesRight
<1>4. \A o \in Commands : HoldsRight(o)'
  BY DEF HoldsRight, At
<1>5. QED
  BY <1>3, <1>4 DEF CommandsRight

LEMMA SetMemberRealtimeKeeps ==
    ASSUME AccessInv, NEW c \in Commands, SetMemberRealtime(c)
    PROVE  AccessInv'
<1>1. /\ AccessTypeOK /\ At(c, "idle") /\ Changing
      /\ settings' = [settings EXCEPT !.blocked = ~@]
      /\ MintMirror(c, settings'.enabled /\ ~settings'.blocked, stored, FALSE)
      /\ UNCHANGED <<shared, device, docMinExp, forgotten, clock>>
  BY DEF AccessInv, SetMemberRealtime, serverSide
<1>2. settings' \in [enabled : BOOLEAN, blocked : BOOLEAN]
  BY <1>1 DEF AccessTypeOK
<1>3. PICK allowed \in BOOLEAN : allowed = (settings'.enabled /\ ~settings'.blocked)
  OBVIOUS
<1>4. Allowed' = allowed
  BY <1>3 DEF Allowed
<1>5. MintMirror(c, allowed, stored, FALSE)
  BY <1>1, <1>3
<1>6. /\ command' \in [Commands -> PlainPlaces \cup SignedPlaces \cup PutPlaces]
      /\ \A o \in Commands : o # c => command'[o] = command[o]
      /\ stored' \in [space : Nat, member : Nat, manager : Nat]
      /\ allowed => command'[c].at = "mirror"
      /\ ~allowed => command'[c].at = "sync" /\ stored'.member = NoToken
  BY <1>1, <1>5, Minted, Tokens
<1>7. command'[c].at \in {"mirror", "sync"}
  BY <1>6
<1>8. CommandsRight'
  <2>1. CASE passed'
    BY <2>1 DEF CommandsRight
  <2>2. CASE ~passed'
    <3>1. \A o \in Commands : command[o].at \in {"idle", "mint"}
      BY <1>1, <2>2 DEF Changing, Holding
    <3>2. command'[c].at = "mirror" => Allowed'
      BY <1>4, <1>6
    <3>3. command'[c].at = "sync" => MemberTokenRight'
      BY <1>4, <1>6 DEF MemberTokenRight
    <3>4. QED
      BY <1>6, <1>7, <3>1, <3>2, <3>3, StartsAlone
  <2>3. QED
    BY <2>1, <2>2
<1>9. passed' \in BOOLEAN
  BY <1>1 DEF Changing, AccessTypeOK
<1>10. ~At(c, "put")'
  BY <1>7 DEF At
<1>11. QED
  BY <1>1, <1>2, <1>6, <1>8, <1>9, <1>10, CommandSide

LEMMA RedeployRealtimeKeeps ==
    ASSUME AccessInv, NEW c \in Commands, RedeployRealtime(c)
    PROVE  AccessInv'
<1>1. /\ AccessTypeOK /\ At(c, "idle") /\ Goes(c, [at |-> "mint", restarts |-> TRUE])
      /\ \E on \in BOOLEAN : settings' = [settings EXCEPT !.enabled = on]
      /\ UNCHANGED <<stored, shared, device, docMinExp, forgotten, clock>>
  BY DEF AccessInv, RedeployRealtime, serverSide
<1>2. settings' \in [enabled : BOOLEAN, blocked : BOOLEAN]
  BY <1>1 DEF AccessTypeOK
<1>3. /\ command' \in [Commands -> PlainPlaces \cup SignedPlaces \cup PutPlaces]
      /\ command'[c].at = "mint"
      /\ \A o \in Commands : o # c => command'[o] = command[o]
  <2> DEFINE p == [at |-> "mint", restarts |-> TRUE]
  <2>1. p \in PlainPlaces /\ p.at = "mint" /\ Goes(c, p)
    BY <1>1 DEF PlainPlaces
  <2> HIDE DEF p
  <2>2. QED
    BY <1>1, <2>1, GoesTo
<1>4. passed' \in BOOLEAN
  BY <1>1 DEF RedeployRealtime, Changing, AccessTypeOK
<1>5. CommandsRight'
  <2>1. CASE \A o \in Commands : At(o, "idle")
    BY <1>3, <2>1, StartsAlone DEF At
  <2>2. CASE ~(\A o \in Commands : At(o, "idle")) /\ settings' # settings
    <3>1. Changing
      BY <2>2 DEF RedeployRealtime
    <3>2. CASE passed'
      BY <3>2 DEF CommandsRight
    <3>3. CASE ~passed'
      <4>1. \A o \in Commands : command[o].at \in {"idle", "mint"}
        BY <3>1, <3>3 DEF Changing, Holding
      <4>2. QED
        BY <1>3, <4>1, StartsAlone
    <3>4. QED
      BY <3>2, <3>3
  <2>3. CASE ~(\A o \in Commands : At(o, "idle")) /\ settings' = settings
    <3>1. UNCHANGED <<settings, passed, stored, shared>>
      BY <1>1, <2>3 DEF RedeployRealtime
    <3>2. MemberTokenRight => MemberTokenRight'
      BY <3>1 DEF MemberTokenRight, Allowed
    <3>3. Minting(c)' /\ HoldsRight(c)' /\ \A d \in Documents : Writes(c, d)'
      BY <1>3 DEF Minting, HoldsRight, Writes, At
    <3>4. \A d \in Documents : DocumentRight(d) => DocumentRight(d)'
      BY <3>1 DEF DocumentRight, BodyRight, Allowed
    <3>5. QED
      BY <1>3, <3>1, <3>2, <3>3, <3>4, CommandMoves
  <2>4. QED
    BY <2>1, <2>2, <2>3
<1>6. ~At(c, "put")'
  BY <1>3 DEF At
<1>7. stored' \in [space : Nat, member : Nat, manager : Nat]
  BY <1>1 DEF AccessTypeOK
<1>8. QED
  BY <1>1, <1>2, <1>3, <1>4, <1>5, <1>6, <1>7, CommandSide

\* A step of a command under settings that stay, which writes no document: what it had to
\* do it still has to do, or the member's token is right by it.
LEMMA CommandGoesOn ==
    ASSUME AccessInv, NEW c \in Commands,
           UNCHANGED <<settings, passed, shared, device, docMinExp, forgotten, clock>>,
           command' \in [Commands -> PlainPlaces \cup SignedPlaces \cup PutPlaces],
           \A o \in Commands : o # c => command'[o] = command[o],
           At(c, "put")' => command'[c].body \in Bodies(command'[c].d),
           stored' \in [space : Nat, member : Nat, manager : Nat],
           ~passed => /\ MemberTokenRight => MemberTokenRight'
                      /\ Minting(c) => Minting(c)' \/ MemberTokenRight'
                      /\ HoldsRight(c)'
                      /\ \A d \in Documents : Writes(c, d)'
    PROVE  AccessInv'
<1>1. \A d \in Documents : DocumentRight(d) => DocumentRight(d)'
  BY DEF DocumentRight, BodyRight, Allowed
<1>2. CommandsRight'
  BY <1>1, CommandMoves
<1>3. settings' \in [enabled : BOOLEAN, blocked : BOOLEAN] /\ passed' \in BOOLEAN
  BY DEF AccessInv, AccessTypeOK
<1>4. QED
  BY <1>2, <1>3, CommandSide

LEMMA MintAllKeeps ==
    ASSUME AccessInv, NEW c \in Commands, MintAll(c)
    PROVE  AccessInv'
<1>1. /\ AccessTypeOK /\ At(c, "mint") /\ ~At(c, "put") /\ ~At(c, "signed")
      /\ UNCHANGED <<settings, passed, shared, device, docMinExp, forgotten, clock>>
      /\ stored \in [space : Nat, member : Nat, manager : Nat]
  BY Tokens DEF AccessInv, MintAll, serverSide, At
<1>2. CASE settings.enabled
  <2>1. To(c, "space") /\ UNCHANGED stored
    BY <1>2 DEF MintAll
  <2>2. /\ command' \in [Commands -> PlainPlaces \cup SignedPlaces \cup PutPlaces]
        /\ command'[c].at = "space"
        /\ \A o \in Commands : o # c => command'[o] = command[o]
    BY <1>1, <2>1, ToPlace
  <2>3. Minting(c)' /\ HoldsRight(c)' /\ (\A d \in Documents : Writes(c, d)') /\ ~At(c, "put")'
    BY <2>2 DEF Minting, HoldsRight, Writes, At
  <2>4. MemberTokenRight => MemberTokenRight'
    BY <1>1, <2>1 DEF MemberTokenRight, Allowed
  <2>5. QED
    BY <1>1, <2>1, <2>2, <2>3, <2>4, CommandGoesOn
<1>3. CASE ~settings.enabled
  <2> DEFINE kept == [stored EXCEPT !.space = NoToken]
  <2>1. kept \in [space : Nat, member : Nat, manager : Nat]
    BY <1>1 DEF NoToken
  <2>2. MintMirror(c, FALSE, kept, TRUE)
    BY <1>3 DEF MintAll
  <2> HIDE DEF kept
  <2>3. /\ command' \in [Commands -> PlainPlaces \cup SignedPlaces \cup PutPlaces]
        /\ \A o \in Commands : o # c => command'[o] = command[o]
        /\ stored' \in [space : Nat, member : Nat, manager : Nat]
        /\ command'[c].at = "sync" /\ stored'.member = NoToken
    BY <1>1, <2>1, <2>2, Minted
  <2>4. MemberTokenRight'
    BY <1>1, <1>3, <2>3 DEF MemberTokenRight, Allowed
  <2>5. HoldsRight(c)' /\ (\A d \in Documents : Writes(c, d)') /\ ~At(c, "put")'
    BY <2>3, <2>4 DEF HoldsRight, Writes, At
  <2>6. QED
    BY <1>1, <2>3, <2>4, <2>5, CommandGoesOn
<1>4. QED
  BY <1>2, <1>3

LEMMA SpaceSignedKeeps ==
    ASSUME AccessInv, NEW c \in Commands, SpaceSigned(c)
    PROVE  AccessInv'
<1> DEFINE kept == [stored EXCEPT !.space = Fresh]
<1>1. /\ AccessTypeOK /\ UNCHANGED <<settings, passed, shared, device, docMinExp, forgotten, clock>>
      /\ MintMirror(c, Allowed, kept, TRUE)
  BY DEF AccessInv, SpaceSigned, serverSide
<1>2. kept \in [space : Nat, member : Nat, manager : Nat] /\ kept.member = stored.member
  BY <1>1, Tokens
<1>3. Allowed \in BOOLEAN /\ Allowed' = Allowed
  BY <1>1, Tokens DEF Allowed
<1> HIDE DEF kept
<1>4. /\ command' \in [Commands -> PlainPlaces \cup SignedPlaces \cup PutPlaces]
      /\ \A o \in Commands : o # c => command'[o] = command[o]
      /\ stored' \in [space : Nat, member : Nat, manager : Nat]
      /\ Allowed => command'[c].at = "mirror" /\ stored'.member = kept.member
      /\ ~Allowed => command'[c].at = "sync" /\ stored'.member = NoToken
  BY <1>1, <1>2, <1>3, Minted
<1>5. MemberTokenRight => MemberTokenRight'
  BY <1>2, <1>3, <1>4 DEF MemberTokenRight
<1>6. ~Allowed => MemberTokenRight'
  BY <1>3, <1>4 DEF MemberTokenRight
<1>7. Minting(c)' \/ MemberTokenRight'
  BY <1>4, <1>6 DEF Minting
<1>8. HoldsRight(c)' /\ (\A d \in Documents : Writes(c, d)') /\ ~At(c, "put")'
  BY <1>3, <1>4, <1>6 DEF HoldsRight, Writes, Minting, At
<1>9. QED
  BY <1>1, <1>4, <1>5, <1>7, <1>8, CommandGoesOn

LEMMA MirrorSignedKeeps ==
    ASSUME AccessInv, NEW c \in Commands, MirrorSigned(c)
    PROVE  AccessInv'
<1>1. /\ AccessTypeOK /\ At(c, "mirror") /\ ~At(c, "put") /\ ~At(c, "signed") /\ To(c, "sync")
      /\ UNCHANGED <<settings, passed, shared, device, docMinExp, forgotten, clock>>
      /\ stored' = [stored EXCEPT !.member = Fresh, !.manager = Fresh]
  BY DEF AccessInv, MirrorSigned, serverSide, At
<1>2. stored' \in [space : Nat, member : Nat, manager : Nat] /\ stored'.member # NoToken
  <2>1. PICK f \in Nat : f = Fresh /\ f # NoToken
    BY <1>1, Tokens
  <2>2. stored' = [stored EXCEPT !.member = f, !.manager = f]
    BY <1>1, <2>1
  <2>3. QED
    BY <1>1, <2>1, <2>2, Tokens
<1>3. /\ command' \in [Commands -> PlainPlaces \cup SignedPlaces \cup PutPlaces]
      /\ command'[c].at = "sync"
      /\ \A o \in Commands : o # c => command'[o] = command[o]
  BY <1>1, ToPlace
<1>4. ~passed => MemberTokenRight'
  <2>1. ~passed => Allowed
    BY <1>1 DEF AccessInv, CommandsRight, HoldsRight
  <2>2. Allowed' = Allowed /\ Allowed \in BOOLEAN
    BY <1>1, Tokens DEF Allowed
  <2>3. QED
    BY <1>2, <2>1, <2>2 DEF MemberTokenRight
<1>5. ~passed => HoldsRight(c)' /\ \A d \in Documents : Writes(c, d)'
  BY <1>3, <1>4 DEF HoldsRight, Writes, At
<1>6. ~At(c, "put")'
  BY <1>3 DEF At
<1>7. QED
  BY <1>1, <1>2, <1>3, <1>4, <1>5, <1>6, CommandGoesOn

LEMMA WriteMemberSyncKeeps ==
    ASSUME AccessInv, NEW c \in Commands, WriteMemberSync(c)
    PROVE  AccessInv'
<1>1. /\ AccessTypeOK /\ At(c, "sync")
      /\ UNCHANGED <<settings, passed, shared, device, docMinExp, forgotten, clock, stored>>
      /\ stored \in [space : Nat, member : Nat, manager : Nat] /\ Allowed \in BOOLEAN
  BY Tokens DEF AccessInv, WriteMemberSync, serverSide
<1>2. Allowed' = Allowed /\ (MemberTokenRight => MemberTokenRight')
  BY <1>1 DEF Allowed, MemberTokenRight
<1>3. ~passed => MemberTokenRight'
  BY <1>1, <1>2 DEF AccessInv, CommandsRight, HoldsRight, At
<1>4. CASE Allowed
  <2> DEFINE p == [at |-> "signed", restarts |-> command[c].restarts, space |-> Fresh]
  <2>1. p \in SignedPlaces /\ p.at = "signed" /\ p.space # NoToken
    BY <1>1, Tokens, PlaceShapes DEF SignedPlaces
  <2>2. Goes(c, p)
    BY <1>4 DEF WriteMemberSync
  <2> HIDE DEF p
  <2>3. /\ command' \in [Commands -> PlainPlaces \cup SignedPlaces \cup PutPlaces]
        /\ command'[c] = p
        /\ \A o \in Commands : o # c => command'[o] = command[o]
    BY <1>1, <2>1, <2>2, GoesTo
  <2>4. ~passed => HoldsRight(c)' /\ \A d \in Documents : Writes(c, d)'
    BY <1>2, <1>3, <1>4, <2>1, <2>3 DEF HoldsRight, Writes, At
  <2>5. ~At(c, "put")'
    BY <2>1, <2>3 DEF At
  <2>6. QED
    BY <1>1, <1>2, <1>3, <2>3, <2>4, <2>5, CommandGoesOn
<1>5. CASE ~Allowed
  <2>1. Asks(c, "shares", Blank("shares"))
    BY <1>5 DEF WriteMemberSync
  <2>2. /\ command' \in [Commands -> PlainPlaces \cup SignedPlaces \cup PutPlaces]
        /\ command'[c].at = "put" /\ command'[c].d = "shares"
        /\ command'[c].body = Blank("shares") /\ command'[c].rev = shared["shares"].rev
        /\ \A o \in Commands : o # c => command'[o] = command[o]
    BY <1>1, <2>1, AsksFor, AccessBounds
  <2>3. BodyRight("shares", Blank("shares"))'
    BY <1>1, <1>2, <1>5 DEF BodyRight, Blank, NoToken
  <2>4. ~passed => HoldsRight(c)' /\ \A d \in Documents : Writes(c, d)'
    BY <1>1, <1>3, <2>2, <2>3 DEF HoldsRight, Writes, At
  <2>5. QED
    BY <1>1, <1>2, <1>3, <2>2, <2>4, CommandGoesOn, AccessBounds
<1>6. QED
  BY <1>1, <1>4, <1>5

LEMMA MemberTokenSignedKeeps ==
    ASSUME AccessInv, NEW c \in Commands, MemberTokenSigned(c)
    PROVE  AccessInv'
<1>1. /\ AccessTypeOK /\ At(c, "signed")
      /\ Asks(c, "shares", [space |-> command[c].space, mirror |-> stored.member, realtime |-> TRUE])
      /\ UNCHANGED <<settings, passed, shared, device, docMinExp, forgotten, clock, stored>>
      /\ stored \in [space : Nat, member : Nat, manager : Nat]
  BY Tokens DEF AccessInv, MemberTokenSigned, serverSide
<1>2. PICK body \in Bodies("shares") :
         body = [space |-> command[c].space, mirror |-> stored.member, realtime |-> TRUE]
  BY <1>1, PlaceShapes DEF Bodies, SignedPlaces
<1>3. MemberTokenRight => MemberTokenRight'
  BY <1>1 DEF Allowed, MemberTokenRight
<1>4. ~passed => MemberTokenRight /\ Allowed /\ command[c].space # NoToken
  BY <1>1 DEF AccessInv, CommandsRight, HoldsRight, At
<1>5. ~passed => BodyRight("shares", body)'
  <2>1. SUFFICES ASSUME ~passed PROVE BodyRight("shares", body)'
    OBVIOUS
  <2>2. body.realtime /\ body.space # NoToken /\ body.mirror # NoToken
    BY <1>2, <1>4, <2>1 DEF MemberTokenRight
  <2>3. body.realtime = TRUE
    BY <1>2
  <2>4. Allowed' = TRUE
    BY <1>1, <1>4, <2>1, Tokens DEF Allowed
  <2>5. QED
    BY <2>2, <2>3, <2>4 DEF BodyRight
<1>6. /\ command' \in [Commands -> PlainPlaces \cup SignedPlaces \cup PutPlaces]
      /\ command'[c].at = "put" /\ command'[c].d = "shares"
      /\ command'[c].body = body /\ command'[c].rev = shared["shares"].rev
      /\ \A o \in Commands : o # c => command'[o] = command[o]
  BY <1>1, <1>2, AsksFor, AccessBounds
<1>7. ~passed => HoldsRight(c)' /\ \A d \in Documents : Writes(c, d)'
  BY <1>1, <1>3, <1>4, <1>5, <1>6 DEF HoldsRight, Writes, At
<1>8. QED
  BY <1>1, <1>2, <1>3, <1>4, <1>6, <1>7, CommandGoesOn

\* The end of a write: the next document is asked for, or the command ends and the mode of
\* the manager starts again.
LEMMA PutDoneIs ==
    ASSUME AccessInv, NEW c \in Commands, At(c, "put"), PutDone(c), UNCHANGED <<docMinExp, forgotten>>
    PROVE  /\ command' \in [Commands -> PlainPlaces \cup SignedPlaces \cup PutPlaces]
           /\ \A o \in Commands : o # c => command'[o] = command[o]
           /\ \/ /\ command[c].d = "shares"
                 /\ command'[c].at = "put" /\ command'[c].d = "rtconfig"
                 /\ command'[c].body = [enabled |-> settings.enabled]
                 /\ command'[c].rev = shared["rtconfig"].rev
              \/ command[c].d = "rtconfig" /\ command'[c].at = "idle"
           /\ At(c, "put")' => command'[c].body \in Bodies(command'[c].d)
           /\ device' \in [Accounts -> Devices] /\ Watched'
<1>1. AccessTypeOK /\ Watched /\ settings.enabled \in BOOLEAN /\ command[c].d \in Documents
  BY PlaceShapes DEF AccessInv, AccessTypeOK, PutPlaces
<1>2. CASE command[c].d = "shares"
  <2>1. PICK body \in Bodies("rtconfig") : body = [enabled |-> settings.enabled]
    BY <1>1 DEF Bodies
  <2>2. Asks(c, "rtconfig", body) /\ UNCHANGED device
    BY <1>2, <2>1 DEF PutDone
  <2>3. device' \in [Accounts -> Devices] /\ Watched'
    BY <1>1, <2>2, NobodyLetIn DEF AccessTypeOK
  <2>4. /\ command' \in [Commands -> PlainPlaces \cup SignedPlaces \cup PutPlaces]
        /\ command'[c].at = "put" /\ command'[c].d = "rtconfig" /\ command'[c].body = body
        /\ command'[c].rev = shared["rtconfig"].rev
        /\ \A o \in Commands : o # c => command'[o] = command[o]
    BY <1>1, <2>2, AsksFor, AccessBounds
  <2>5. QED
    BY <1>2, <2>1, <2>3, <2>4
<1>3. CASE command[c].d = "rtconfig"
  <2>1. Goes(c, Nowhere) /\ Nowhere \in PlainPlaces /\ Nowhere.at = "idle"
    BY <1>3 DEF PutDone, Nowhere, PlainPlaces
  <2>2. /\ command' \in [Commands -> PlainPlaces \cup SignedPlaces \cup PutPlaces]
        /\ command'[c] = Nowhere
        /\ \A o \in Commands : o # c => command'[o] = command[o]
    BY <1>1, <2>1, GoesTo
  <2>3. device' \in [Accounts -> Devices] /\ Watched'
    <3>1. CASE command[c].restarts
      <4> DEFINE d == [Ended(device["manager"]) EXCEPT !.token = stored.space]
      <4>1. "manager" \in Accounts /\ device["manager"] \in Devices /\ stored.space \in Nat
        BY <1>1, Tokens DEF AccessTypeOK, Accounts
      <4>2. d \in Devices /\ d.conn = "none"
        <5>1. PICK e \in Devices : e = Ended(device["manager"]) /\ e.conn = "none"
          BY <4>1, SyncedIs
        <5>2. PICK t \in Nat : t = stored.space
          BY <4>1
        <5>3. [e EXCEPT !.token = t] \in Devices /\ [e EXCEPT !.token = t].conn = "none"
          BY <5>1 DEF Devices
        <5>4. QED
          BY <5>1, <5>2, <5>3
      <4>3. Update("manager", SyncedOpen(settings.enabled, d))
        BY <1>3, <3>1 DEF PutDone
      <4> HIDE DEF d
      <4>4. PICK r \in Devices :
               r = SyncedOpen(settings.enabled, d) /\ r.conn \notin {"loading", "joined"}
        BY <1>1, <4>2, SyncedIs
      <4>5. QED
        BY <1>1, <4>1, <4>3, <4>4, DeviceMoves
    <3>2. CASE ~command[c].restarts
      <4>1. UNCHANGED device
        BY <1>3, <3>2 DEF PutDone
      <4>2. QED
        BY <1>1, <4>1, NobodyLetIn DEF AccessTypeOK
    <3>3. QED
      BY <3>1, <3>2
  <2>4. ~At(c, "put")' /\ command'[c].at = "idle"
    BY <2>1, <2>2 DEF At
  <2>5. QED
    BY <1>3, <2>2, <2>3, <2>4
<1>4. QED
  BY <1>1, <1>2, <1>3 DEF Documents

LEMMA PutFailsKeeps ==
    ASSUME AccessInv, NEW c \in Commands, PutFails(c)
    PROVE  AccessInv'
<1>1. /\ At(c, "put") /\ PutDone(c) /\ passed' = TRUE
      /\ UNCHANGED <<settings, stored, shared, docMinExp, forgotten, clock>>
  BY DEF PutFails, serverSide
<1>2. /\ command' \in [Commands -> PlainPlaces \cup SignedPlaces \cup PutPlaces]
      /\ \A o \in Commands : o # c => command'[o] = command[o]
      /\ At(c, "put")' => command'[c].body \in Bodies(command'[c].d)
      /\ device' \in [Accounts -> Devices] /\ Watched'
  BY <1>1, PutDoneIs
<1>3. \A o \in Commands : At(o, "put")' => command'[o].body \in Bodies(command'[o].d)
  BY <1>2 DEF AccessInv, AccessTypeOK, At
<1>4. AccessTypeOK'
  BY <1>1, <1>2, <1>3 DEF AccessInv, AccessTypeOK
<1>5. CommandsRight' /\ OneExpiry'
  BY <1>1 DEF CommandsRight, AccessInv, OneExpiry
<1>6. QED
  BY <1>2, <1>4, <1>5 DEF AccessInv

LEMMA PutKeeps ==
    ASSUME AccessInv, NEW c \in Commands, Put(c)
    PROVE  AccessInv'
<1>1. /\ AccessTypeOK /\ Watched /\ At(c, "put")
      /\ UNCHANGED <<settings, stored, passed, docMinExp, forgotten, clock>>
  BY DEF AccessInv, Put, serverSide
<1>2. PICK d \in Documents : d = command[c].d
  BY <1>1, PlaceShapes DEF PutPlaces
<1>3. PICK body \in Bodies(d) : body = command[c].body
  BY <1>1, <1>2 DEF AccessTypeOK
<1>4. Allowed' = Allowed /\ (MemberTokenRight => MemberTokenRight')
  BY <1>1 DEF Allowed, MemberTokenRight
<1>5. /\ ~passed => MemberTokenRight /\ BodyRight(d, body)
      /\ ~passed /\ command[c].rev # shared[d].rev => DocumentRight(d)
  BY <1>1, <1>2, <1>3 DEF AccessInv, CommandsRight, HoldsRight, At
<1>6. ~passed => BodyRight(d, body)'
  BY <1>1, <1>4, <1>5 DEF BodyRight
\* The document: written with a right body, or as it was.
<1>7. /\ shared' \in [Documents -> [rev : Nat, body : Bodies("shares") \cup Bodies("rtconfig")]]
      /\ \A e \in Documents : shared'[e].body \in Bodies(e)
      /\ \A e \in Documents : e # d => shared'[e] = shared[e]
      /\ ~passed /\ DocumentRight(d) => DocumentRight(d)'
      /\ ~passed /\ shared'[d].rev # shared[d].rev => DocumentRight(d)'
      /\ ~passed /\ command[c].rev = shared[d].rev => DocumentRight(d)'
  <2>1. CASE command[c].rev = shared[d].rev
    <3> DEFINE w == [rev |-> shared[d].rev + 1, body |-> body]
    <3>1. shared' = [shared EXCEPT ![d] = w]
      BY <1>2, <1>3, <2>1 DEF Put
    <3>2. w \in [rev : Nat, body : Bodies("shares") \cup Bodies("rtconfig")] /\ w.body = body
      BY <1>1 DEF AccessTypeOK, Documents
    <3> HIDE DEF w
    <3>3. /\ shared' \in [Documents -> [rev : Nat, body : Bodies("shares") \cup Bodies("rtconfig")]]
          /\ shared'[d].body = body
          /\ \A e \in Documents : e # d => shared'[e] = shared[e]
      BY <1>1, <3>1, <3>2 DEF AccessTypeOK
    <3>4. ~passed => DocumentRight(d)'
      BY <1>6, <3>3 DEF DocumentRight
    <3>5. \A e \in Documents : shared'[e].body \in Bodies(e)
      BY <1>1, <3>3 DEF AccessTypeOK
    <3>6. QED
      BY <3>3, <3>4, <3>5
  <2>2. CASE command[c].rev # shared[d].rev
    <3>1. shared' = shared
      BY <1>2, <2>2 DEF Put
    <3>2. DocumentRight(d) => DocumentRight(d)'
      BY <1>1, <1>4, <3>1 DEF DocumentRight, BodyRight
    <3>3. QED
      BY <1>1, <2>2, <3>1, <3>2 DEF AccessTypeOK
  <2>3. QED
    BY <2>1, <2>2
<1>8. ~passed => \A e \in Documents :
         /\ DocumentRight(e) => DocumentRight(e)'
         /\ shared'[e].rev # shared[e].rev => DocumentRight(e)'
  <2>1. ASSUME NEW e \in Documents, e # d PROVE DocumentRight(e) => DocumentRight(e)'
    BY <1>1, <1>4, <1>7, <2>1 DEF DocumentRight, BodyRight
  <2>2. QED
    BY <1>7, <2>1
<1>9. ~Minting(c) /\ ~At(c, "sync") /\ ~At(c, "signed") /\ ~At(c, "idle")
  BY <1>1 DEF Minting, At
\* The command: what it still has to do it does, or the document is right.
<1>10. /\ command' \in [Commands -> PlainPlaces \cup SignedPlaces \cup PutPlaces]
       /\ \A o \in Commands : o # c => command'[o] = command[o]
       /\ At(c, "put")' => command'[c].body \in Bodies(command'[c].d)
       /\ device' \in [Accounts -> Devices] /\ Watched'
       /\ ~passed => HoldsRight(c)' /\ \A e \in Documents : Writes(c, e) => Writes(c, e)' \/ DocumentRight(e)'
  <2>1. CASE PutDone(c)
    <3>1. /\ command' \in [Commands -> PlainPlaces \cup SignedPlaces \cup PutPlaces]
          /\ \A o \in Commands : o # c => command'[o] = command[o]
          /\ At(c, "put")' => command'[c].body \in Bodies(command'[c].d)
          /\ device' \in [Accounts -> Devices] /\ Watched'
          /\ \/ /\ d = "shares"
                /\ command'[c].at = "put" /\ command'[c].d = "rtconfig"
                /\ command'[c].body = [enabled |-> settings.enabled]
                /\ command'[c].rev = shared["rtconfig"].rev
             \/ d = "rtconfig" /\ command'[c].at = "idle"
      BY <1>1, <1>2, <2>1, PutDoneIs
    <3>2. ~passed => DocumentRight(d)'
      BY <1>5, <1>7
    <3>3. CASE d = "shares"
      <4>1. /\ command'[c].at = "put" /\ command'[c].d = "rtconfig"
            /\ command'[c].body = [enabled |-> settings.enabled]
            /\ command'[c].rev = shared'["rtconfig"].rev
        BY <1>7, <3>1, <3>3, AccessBounds
      <4>2. BodyRight(command[c].d, command[c].body)'
        BY <1>1, <4>1 DEF BodyRight
      <4>3. ~passed => HoldsRight(c)'
        BY <1>4, <1>5, <4>1, <4>2 DEF HoldsRight, At
      <4>4. Writes(c, "rtconfig")'
        BY <4>1 DEF Writes, At
      <4>5. QED
        BY <3>1, <3>2, <3>3, <4>3, <4>4 DEF Documents
    <3>4. CASE d # "shares"
      <4>1. command'[c].at = "idle" /\ d = "rtconfig"
        BY <3>1, <3>4
      <4>2. HoldsRight(c)'
        BY <4>1 DEF HoldsRight, At
      <4>3. ~Writes(c, "shares")
        BY <1>2, <1>9, <3>4 DEF Writes
      <4>4. QED
        BY <3>1, <3>2, <4>1, <4>2, <4>3 DEF Documents
    <3>5. QED
      BY <3>3, <3>4
  <2>2. CASE ~PutDone(c)
    <3>1. /\ command[c].rev # shared[d].rev /\ shared' = shared /\ UNCHANGED device
          /\ Goes(c, [command[c] EXCEPT !.attempt = @ + 1, !.rev = shared[d].rev])
          /\ command[c].attempt < 3
      BY <1>2, <2>2 DEF Put
    <3>2. PICK put \in PutPlaces : put = command[c]
      BY <1>1, PlaceShapes
    <3>3. PICK rev \in Nat : rev = shared[d].rev
      BY <1>1 DEF AccessTypeOK
    <3> DEFINE p == [put EXCEPT !.attempt = put.attempt + 1, !.rev = rev]
    <3>4. put.attempt + 1 \in 1..3
      BY <3>1, <3>2 DEF PutPlaces
    <3>5. /\ p \in PutPlaces /\ p.at = "put" /\ p.rev = rev
          /\ p.d = put.d /\ p.body = put.body
      BY <3>4 DEF PutPlaces
    <3>6. Goes(c, p)
      BY <3>1, <3>2, <3>3
    <3> HIDE DEF p
    <3>7. /\ command' \in [Commands -> PlainPlaces \cup SignedPlaces \cup PutPlaces]
          /\ command'[c] = p
          /\ \A o \in Commands : o # c => command'[o] = command[o]
      BY <1>1, <3>5, <3>6, GoesTo
    <3>8. command'[c].at = "put" /\ command'[c].d = d /\ command'[c].body = body
          /\ command'[c].rev = shared'[d].rev
      BY <1>2, <1>3, <3>1, <3>2, <3>3, <3>5, <3>7
    <3>9. ~passed => HoldsRight(c)'
      BY <1>4, <1>5, <1>6, <3>8 DEF HoldsRight, At
    <3>10. \A e \in Documents : Writes(c, e) => Writes(c, e)'
      BY <1>2, <1>9, <3>8 DEF Writes, Minting, At
    <3>11. device' \in [Accounts -> Devices] /\ Watched'
      BY <1>1, <3>1, NobodyLetIn DEF AccessTypeOK
    <3>12. At(c, "put")' => command'[c].body \in Bodies(command'[c].d)
      BY <3>8
    <3>13. QED
      BY <3>7, <3>9, <3>10, <3>11, <3>12
  <2>3. QED
    BY <2>1, <2>2
<1>11. CommandsRight'
  BY <1>1, <1>4, <1>8, <1>9, <1>10, CommandMoves
<1>12. \A o \in Commands : At(o, "put")' => command'[o].body \in Bodies(command'[o].d)
  BY <1>1, <1>10 DEF AccessTypeOK, At
<1>13. AccessTypeOK'
  BY <1>1, <1>7, <1>10, <1>12 DEF AccessTypeOK
<1>14. QED
  BY <1>1, <1>10, <1>11, <1>13 DEF AccessInv, OneExpiry

-----------------------------------------------------------------------------
LEMMA AccessInitInv == AccessInit => AccessInv
<1> SUFFICES ASSUME AccessInit PROVE AccessInv
  OBVIOUS
<1>1. settings \in [enabled : BOOLEAN, blocked : BOOLEAN] /\ Allowed = FALSE /\ settings.enabled = FALSE
  BY DEF AccessInit, Allowed
<1>2. stored \in [space : Nat, member : Nat, manager : Nat] /\ stored.member = NoToken
  BY DEF AccessInit, NoToken
<1>3. \A c \in Commands : command[c] = Nowhere /\ Nowhere \in PlainPlaces /\ Nowhere.at = "idle"
  BY DEF AccessInit, Nowhere, PlainPlaces
<1>4. command \in [Commands -> PlainPlaces \cup SignedPlaces \cup PutPlaces]
  BY <1>3 DEF AccessInit
<1>5. \A d \in Documents : /\ shared[d] = [rev |-> 0, body |-> Blank(d)] /\ shared[d].body = Blank(d)
                           /\ Blank(d) \in Bodies(d)
                           /\ shared[d] \in [rev : Nat, body : Bodies("shares") \cup Bodies("rtconfig")]
  BY AccessBounds DEF AccessInit, Documents
<1>6. shared \in [Documents -> [rev : Nat, body : Bodies("shares") \cup Bodies("rtconfig")]]
  BY <1>5 DEF AccessInit
<1>7. device \in [Accounts -> Devices] /\ \A u \in Accounts : device[u].conn = "none"
  BY DEF AccessInit, Devices, NoToken
<1>8. AccessTypeOK
  <2>1. \A c \in Commands : ~At(c, "put")
    BY <1>3 DEF At
  <2>2. forgotten \in [Accounts -> BOOLEAN] /\ docMinExp \subseteq Nat /\ clock \in Nat /\ passed \in BOOLEAN
    BY DEF AccessInit
  <2>3. QED
    BY <1>1, <1>2, <1>4, <1>5, <1>6, <1>7, <2>1, <2>2 DEF AccessTypeOK
<1>9. Watched /\ OneExpiry
  BY <1>7 DEF Watched, OneExpiry, AccessInit
<1>10. MemberTokenRight
  BY <1>1, <1>2 DEF MemberTokenRight
<1>11. \A d \in Documents : DocumentRight(d)
  <2>1. PICK body \in Bodies("shares") : body = shared["shares"].body /\ body = Blank("shares")
    BY <1>5, AccessBounds
  <2>2. body.space = NoToken /\ body.mirror = NoToken /\ body.realtime = FALSE
    BY <2>1 DEF Blank
  <2>3. DocumentRight("shares")
    BY <1>1, <2>1, <2>2 DEF DocumentRight, BodyRight
  <2>4. Blank("rtconfig").enabled = FALSE /\ shared["rtconfig"].body = Blank("rtconfig")
    BY <1>5, AccessBounds DEF Blank
  <2>5. DocumentRight("rtconfig")
    BY <1>1, <2>4 DEF DocumentRight, BodyRight
  <2>6. QED
    BY <2>3, <2>5 DEF Documents
<1>12. \A c \in Commands : HoldsRight(c)
  BY <1>3 DEF HoldsRight, At
<1>13. QED
  BY <1>8, <1>9, <1>10, <1>11, <1>12 DEF AccessInv, CommandsRight, ComesRight

LEMMA AccessNextInv == AccessInv /\ [AccessNext]_accessVars => AccessInv'
<1> SUFFICES ASSUME AccessInv, [AccessNext]_accessVars PROVE AccessInv'
  OBVIOUS
<1>1. ASSUME NEW c \in Commands,
             SetMemberRealtime(c) \/ RedeployRealtime(c) \/ PutFails(c) \/ CommandStep(c)
      PROVE  AccessInv'
  BY <1>1, SetMemberRealtimeKeeps, RedeployRealtimeKeeps, PutFailsKeeps, MintAllKeeps, SpaceSignedKeeps,
     MirrorSignedKeeps, WriteMemberSyncKeeps, MemberTokenSignedKeeps, PutKeeps DEF CommandStep
<1>2. ASSUME NEW u \in Accounts, OpenOrClose(u) \/ WorkspaceChange(u) \/ SessionStep(u)
      PROVE  AccessInv'
  BY <1>2, DeviceStepsKeep, OnAuthenticateKeeps, AfterLoadDocumentKeeps DEF SessionStep
<1>3. CASE ReplicateStep
  BY <1>3, ReplicateKeeps DEF ReplicateStep
<1>4. CASE Sweep \/ AfterUnloadDocument \/ Tick
  BY <1>4, SweepKeeps, AfterUnloadDocumentKeeps, TickKeeps
<1>5. CASE UNCHANGED accessVars
  <2>1. UNCHANGED <<managerSide, device, docMinExp, forgotten, clock>>
    BY <1>5 DEF accessVars, serverSide
  <2>2. clock' \in Nat /\ device' \in [Accounts -> Devices] /\ Watched'
    BY <2>1, NobodyLetIn DEF AccessInv, AccessTypeOK
  <2>3. QED
    BY <2>1, <2>2, DeviceSide
<1>6. QED
  BY <1>1, <1>2, <1>3, <1>4, <1>5 DEF AccessNext

\* When no command of the manager is under way, the tokens he keeps and those in the member's
\* documents say what the settings say, however the commands overlapped, unless the settings
\* changed under one or a write failed; and the server knows when the token of every connection
\* expires, unless the expiry was struck out while it was loading (MemberController.ts,
\* RealtimeController.ts, auth.js, server.js).
THEOREM TokensAreInOrder == AccessSpec => []TokensInOrder
<1>1. ASSUME AccessInv PROVE AccessAsSettled
  <2>1. SUFFICES ASSUME ~passed, \A c \in Commands : At(c, "idle")
                 PROVE  /\ (stored.member # NoToken) = Allowed
                        /\ shared["shares"].body.realtime = Allowed
                        /\ (shared["shares"].body.space # NoToken) = Allowed
                        /\ (shared["shares"].body.mirror # NoToken) = Allowed
                        /\ shared["rtconfig"].body.enabled = settings.enabled
    BY DEF AccessAsSettled
  <2>2. \A c \in Commands : ~Minting(c) /\ \A d \in Documents : ~Writes(c, d)
    BY <2>1 DEF Minting, Writes, At
  <2>3. MemberTokenRight /\ DocumentRight("shares") /\ DocumentRight("rtconfig")
    BY <1>1, <2>1, <2>2, AccessBounds DEF AccessInv, CommandsRight, ComesRight
  <2>4. QED
    BY <2>3 DEF MemberTokenRight, DocumentRight, BodyRight
<1>2. AccessInv => ExpiryIsWatched
  BY DEF AccessInv, Watched, ExpiryIsWatched
<1>3. AccessInv => TokensInOrder
  BY <1>1, <1>2 DEF TokensInOrder
<1>4. QED
  BY <1>3, AccessInitInv, AccessNextInv, PTL DEF AccessSpec
=============================================================================
