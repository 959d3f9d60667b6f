---- MODULE MCDevice ----
(* What a device keeps going, side by side: the checkpoint of one link, the  *)
(* links of a member's vault, its access to real time and the seeding of a   *)
(* drawing.  A behaviour moves one of them; they share no state.             *)
EXTENDS Checkpoint, MemberLinks, Access, Seeding
VARIABLE side
deviceVars == <<vars, linksVars, accessVars, seedingVars, side>>
OfFeed(action) == side = "feed" /\ action /\ UNCHANGED <<linksVars, accessVars, seedingVars, side>>
OfLinks(action) == side = "links" /\ action /\ UNCHANGED <<vars, accessVars, seedingVars, side>>
OfAccess(action) == side = "access" /\ action /\ UNCHANGED <<vars, linksVars, seedingVars, side>>
OfDrawing(action) == side = "drawing" /\ action /\ UNCHANGED <<vars, linksVars, accessVars, side>>

DeviceInit == /\ side \in {"feed", "links", "access", "drawing"}
              /\ Init /\ LinksInit /\ AccessInit /\ SeedingInit
DeviceNext == OfFeed(Next) \/ OfLinks(LinksNext) \/ OfAccess(AccessNext) \/ OfDrawing(SeedingNext)

\* The fairness of each part: while a part is at rest, nothing of it but the clock of
\* Access is enabled.
DeviceSpec ==
    /\ DeviceInit /\ [][DeviceNext]_deviceVars
    /\ Fairness /\ LinksFairness
    /\ WF_accessVars(OfAccess(Tick)) /\ WF_accessVars(Sweep) /\ WF_accessVars(ReplicateStep)
    /\ \A c \in Commands : WF_accessVars(CommandStep(c))
    /\ \A u \in Accounts : WF_accessVars(SessionStep(u))
    /\ WF_seedingVars(SeedingStep)
====
