------------------------------ MODULE Seeding -------------------------------
(***************************************************************************)
(* Who writes a drawing into an empty shared document.  Binding a drawing  *)
(* to its session empties the canvas when the shared document is empty, so *)
(* one of the devices must put back the scene its file held: the one with  *)
(* the smallest awareness id after SEED_SETTLE_MS, any other only after    *)
(* SEED_FALLBACK_MS more (excalidrawBinding.ts, seedElection.ts, and the   *)
(* session RealtimeManager.ts builds around them).                         *)
(*                                                                         *)
(* A device is named by the awareness id of its session: one that closes   *)
(* the drawing and opens it again is another member of Devices.  Time is   *)
(* discrete; a message takes at most Hop units between device and server,  *)
(* and the two queues of a connection keep their order.                    *)
(***************************************************************************)
EXTENDS Integers, Sequences, SequencesExt, FiniteSets

CONSTANTS
    Drawers,    \* awareness ids of the sessions
    Hop,        \* longest way of a message between a device and the server
    Mounting,   \* longest wait for the canvas after the session is synchronised
    Settle,     \* SEED_SETTLE_MS
    Fallback,   \* SEED_FALLBACK_MS
    MaxStrokes  \* strokes drawn into a document that is still empty

\* What the election is built on: a peer is seen, and what it seeded arrives, before a timer
\* that started with it runs out.
ASSUME SeedingAssumption ==
    /\ Drawers \subseteq Nat /\ IsFiniteSet(Drawers)
    /\ {Hop, Mounting, Settle, Fallback, MaxStrokes} \subseteq Nat
    /\ 3 * Hop < Settle /\ 3 * Hop + Mounting + Settle < Fallback

VARIABLES
    phase,    \* of a session: out, asked (not synchronised), ready, bound, left
    waited,   \* how long it has been ready without a canvas
    yElements,\* its replica: seeds <<"seed", device>> and strokes <<"stroke", device>>
    canvas,   \* what it shows
    states,   \* awareness states it knows
    seedTimer,\* which timer runs, and how long still
    up, down, \* messages to and from the server, oldest first
    served,   \* the document the server holds
    present,  \* awareness states the server holds
    strokes   \* bound

seedingVars == <<phase, waited, yElements, canvas, states, seedTimer, up, down, served, present,
                 strokes>>

NoTimer == [runs |-> "none", left |-> 0]
File(d) == {<<"file", d>>}                     \* the scene the file has on this device
Message(say, items, ids) == [say |-> say, items |-> items, ids |-> ids, age |-> 0]
Send(d, say, items) == up' = [up EXCEPT ![d] = Append(@, Message(say, items, {d}))]

SeedingInit ==
    /\ phase = [d \in Drawers |-> "out"] /\ waited = [d \in Drawers |-> 0]
    /\ yElements = [d \in Drawers |-> {}] /\ canvas = [d \in Drawers |-> File(d)]
    /\ states = [d \in Drawers |-> {}] /\ seedTimer = [d \in Drawers |-> NoTimer]
    /\ up = [d \in Drawers |-> <<>>] /\ down = [d \in Drawers |-> <<>>]
    /\ served = {} /\ present = {} /\ strokes = 0

\* startSession: a document, an awareness of its own, and the request to join the room.
StartDrawing(d) ==
    /\ phase[d] = "out"
    /\ phase' = [phase EXCEPT ![d] = "asked"] /\ states' = [states EXCEPT ![d] = {d}]
    /\ Send(d, "join", {})
    /\ UNCHANGED <<waited, yElements, canvas, seedTimer, down, served, present, strokes>>

\* The provider merges what comes into the document and the states; onSynced with the first.
Arrives(d) ==
    /\ down[d] # <<>>
    /\ LET m == Head(down[d])
       IN  /\ yElements' = [yElements EXCEPT ![d] = @ \cup m.items]
           /\ canvas' = [canvas EXCEPT ![d] = IF phase[d] = "bound" THEN yElements'[d] ELSE @]
           /\ states' = [states EXCEPT ![d] = IF m.say = "gone" THEN @ \ m.ids ELSE @ \cup m.ids]
           /\ phase' = [phase EXCEPT ![d] = IF m.say = "state" THEN "ready" ELSE @]
    /\ down' = [down EXCEPT ![d] = Tail(@)]
    /\ UNCHANGED <<waited, seedTimer, up, served, present, strokes>>

\* The server: a join is answered with the document and the states, everything is passed on.
Relays(d) ==
    /\ up[d] # <<>>
    /\ up' = [up EXCEPT ![d] = Tail(@)]
    /\ LET m == Head(up[d])
           joins == m.say = "join" /\ phase[d] # "left"
           others == {e \in present \ {d} : phase[e] # "left"}
       IN  /\ served' = served \cup m.items
           /\ present' = IF m.say = "gone" THEN present \ {d} ELSE present \cup {d}
           /\ down' = [e \in Drawers |->
                 CASE e \in others -> Append(down[e], [m EXCEPT !.age = 0])
                   [] e = d /\ joins -> Append(down[e], Message("state", served, present))
                   [] OTHER -> down[e]]
    /\ UNCHANGED <<phase, waited, yElements, canvas, states, seedTimer, strokes>>

\* scheduleSeed: only with something to seed, into a document that is still empty.
SettleTimer(d) ==
    IF canvas[d] = {} \/ yElements[d] # {} THEN NoTimer ELSE [runs |-> "settle", left |-> Settle]

\* bind: the canvas is there and takes over the document, empty or not.
Bind(d) ==
    /\ phase[d] = "ready"
    /\ phase' = [phase EXCEPT ![d] = "bound"] /\ waited' = [waited EXCEPT ![d] = 0]
    /\ canvas' = [canvas EXCEPT ![d] = yElements[d]]
    /\ seedTimer' = [seedTimer EXCEPT ![d] = SettleTimer(d)]
    /\ UNCHANGED <<yElements, states, up, down, served, present, strokes>>

\* Faulty isSeeder: everybody is.
EverybodySeeds(id, peers) == TRUE

isSeeder(id, peers) == \A p \in peers : id <= p

\* Faulty SettleEnds: nobody but the seeder ever seeds.
SeederOnly(d) ==
    /\ seedTimer[d] = [runs |-> "settle", left |-> 0]
    /\ seedTimer' = [seedTimer EXCEPT ![d] =
            IF yElements[d] # {} \/ ~isSeeder(d, states[d]) THEN NoTimer
            ELSE [runs |-> "seed", left |-> 0]]
    /\ UNCHANGED <<phase, waited, yElements, canvas, states, up, down, served, present, strokes>>

\* The first timer: the smallest id seeds at once, the others wait for it to have done so.
SettleEnds(d) ==
    /\ seedTimer[d] = [runs |-> "settle", left |-> 0]
    /\ seedTimer' = [seedTimer EXCEPT ![d] =
            IF yElements[d] # {} THEN NoTimer
            ELSE [runs |-> "seed", left |-> IF isSeeder(d, states[d]) THEN 0 ELSE Fallback]]
    /\ UNCHANGED <<phase, waited, yElements, canvas, states, up, down, served, present, strokes>>

\* What a device puts on its canvas goes into the document and to the server.
Puts(d, items) ==
    /\ yElements' = [yElements EXCEPT ![d] = @ \cup items]
    /\ canvas' = [canvas EXCEPT ![d] = yElements'[d]]
    /\ Send(d, "items", items)

\* The second timer: the scene from before the binding is put back, unless something came.
Seed(d) ==
    /\ seedTimer[d] = [runs |-> "seed", left |-> 0]
    /\ seedTimer' = [seedTimer EXCEPT ![d] = NoTimer]
    /\ IF yElements[d] = {} THEN Puts(d, {<<"seed", d>>}) ELSE UNCHANGED <<yElements, canvas, up>>
    /\ UNCHANGED <<phase, waited, states, down, served, present, strokes>>

\* Somebody draws on the canvas the binding has emptied.
Stroke(d) ==
    /\ phase[d] = "bound" /\ yElements[d] = {} /\ strokes < MaxStrokes
    /\ strokes' = strokes + 1
    /\ Puts(d, {<<"stroke", d>>})
    /\ UNCHANGED <<phase, waited, states, seedTimer, down, served, present>>

\* endSession: the awareness state is withdrawn, the timers are cleared, the provider is gone.
CloseDrawing(d) ==
    /\ phase[d] \in {"asked", "ready", "bound"}
    /\ phase' = [phase EXCEPT ![d] = "left"] /\ waited' = [waited EXCEPT ![d] = 0]
    /\ seedTimer' = [seedTimer EXCEPT ![d] = NoTimer]
    /\ Send(d, "gone", {})
    /\ down' = [down EXCEPT ![d] = <<>>] /\ states' = [states EXCEPT ![d] = {}]
    /\ yElements' = [yElements EXCEPT ![d] = {}] /\ canvas' = [canvas EXCEPT ![d] = {}]
    /\ UNCHANGED <<served, present, strokes>>

\* Time passes while nothing is due.
Due(d) ==
    \/ \E m \in ToSet(up[d]) \cup ToSet(down[d]) : m.age = Hop
    \/ seedTimer[d].runs # "none" /\ seedTimer[d].left = 0
    \/ phase[d] = "ready" /\ waited[d] = Mounting
Older(queue) == [i \in DOMAIN queue |-> [queue[i] EXCEPT !.age = @ + 1]]
Passes ==
    /\ \E d \in Drawers : up[d] # <<>> \/ down[d] # <<>> \/ seedTimer[d] # NoTimer \/ phase[d] = "ready"
    /\ \A d \in Drawers : ~Due(d)
    /\ up' = [d \in Drawers |-> Older(up[d])] /\ down' = [d \in Drawers |-> Older(down[d])]
    /\ seedTimer' = [d \in Drawers |-> IF seedTimer[d].runs = "none" THEN NoTimer
                                       ELSE [seedTimer[d] EXCEPT !.left = @ - 1]]
    /\ waited' = [d \in Drawers |-> IF phase[d] = "ready" THEN waited[d] + 1 ELSE 0]
    /\ UNCHANGED <<phase, yElements, canvas, states, served, present, strokes>>

SeedingNext ==
    \/ \E d \in Drawers : StartDrawing(d) \/ Arrives(d) \/ Relays(d) \/ Bind(d) \/ SettleEnds(d)
                          \/ Seed(d) \/ Stroke(d) \/ CloseDrawing(d)
    \/ Passes

SeedingStep ==
    \/ \E d \in Drawers : Arrives(d) \/ Relays(d) \/ Bind(d) \/ SettleEnds(d) \/ Seed(d)
    \/ Passes

SeedingTypeOK ==
    /\ phase \in [Drawers -> {"out", "asked", "ready", "bound", "left"}]
    /\ waited \in [Drawers -> 0..Mounting]
    /\ \A d \in Drawers : states[d] \subseteq Drawers /\ seedTimer[d].left <= Settle + Fallback
    /\ present \subseteq Drawers /\ strokes \in 0..MaxStrokes

-----------------------------------------------------------------------------
(* SeededOnce: of two devices at most one ever writes its scene into the      *)
(* document, so that no element of the drawing is there twice; a stroke drawn *)
(* meanwhile counts for a scene (excalidrawBinding.ts:121-126).  It does not  *)
(* hold of three: one that waits for a seeder who has left, or for a smaller  *)
(* id that gave way to a newcomer, may seed at the moment the newcomer does.  *)
SeededOnce ==
    /\ SeedingTypeOK
    /\ LET sent == UNION {m.items : m \in UNION {ToSet(up[d]) : d \in Drawers}}
           shown == UNION {yElements[d] : d \in Drawers}
       IN  Cardinality({i \in served \cup sent \cup shown : i[1] = "seed"}) <= 1

(* DrawingComesBack: a canvas the binding has emptied does not stay empty:    *)
(* the scene comes back, from this device or another, or it is drawn on, or   *)
(* closed (seedElection.ts:11-12).                                            *)
DrawingComesBack ==
    \A d \in Drawers : (phase[d] = "bound") ~> (canvas[d] # {} \/ phase[d] # "bound")
=============================================================================
