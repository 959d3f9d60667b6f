---- MODULE MCFullSync ----
(* What a device begins with: the invite it applies and the full synchronisation  *)
(* of a link.  A behaviour moves one of them; they share no document.  Paths and  *)
(* texts are interchangeable.                                                     *)
EXTENDS FullSync, Invitations, TLC
VARIABLE part
partVars == <<vars, inviteVars, part>>
Symmetry == Permutations(Paths) \cup Permutations(Texts)
PartInit == /\ part \in {"sync", "invites"} /\ Init /\ InvitationsInit
            /\ part = "sync" => ~secretStorage
            /\ part = "invites" => /\ space = "notes" /\ manifest = NoBaseline
                                   /\ \A p \in Paths : vault[p] = NoFile /\ remote[p] = {}
PartNext == \/ part = "sync" /\ Next /\ UNCHANGED <<inviteVars, part>>
            \/ part = "invites" /\ InvitationsNext /\ UNCHANGED <<vars, part>>
PartSpec == PartInit /\ [][PartNext]_partVars
====
