---------------------------- MODULE VersionedNote ----------------------------
(***************************************************************************)
(* What the real-time server promises of a note that others write, too: it *)
(* puts its own text over the note only when every text that was written   *)
(* past it was seen, or is in the version history, and never over a        *)
(* deletion by the manager.  How it finds out, through failing requests,   *)
(* crashes and writes in between, is the subject of RtDocument.            *)
(***************************************************************************)
CONSTANTS
    Texts,    \* of a note
    NoText    \* none of them

VARIABLES
    text,       \* of the note
    standing,   \* the manager has not deleted it
    kept,       \* texts in the version history
    unseen      \* the last text written past the server that it has not seen

vars == <<text, standing, kept, unseen>>

Init == text \in Texts /\ standing = TRUE /\ kept = {} /\ unseen = NoText

\* File synchronisation writes a text, which may be one that the server knows.
Write(t) ==
    /\ standing /\ text' = t /\ unseen' \in {t, NoText}
    /\ UNCHANGED <<standing, kept>>

\* The server brings its document in line with the note.
See == standing /\ unseen' = NoText /\ UNCHANGED <<text, standing, kept>>

Keep(t) == kept' = kept \cup {t} /\ UNCHANGED <<text, standing, unseen>>

\* The server puts its own text.
Snapshot(t) ==
    /\ standing /\ unseen \in kept \cup {NoText}
    /\ text' = t /\ UNCHANGED <<standing, kept, unseen>>

Delete ==
    /\ standing /\ standing' = FALSE /\ unseen' = NoText
    /\ UNCHANGED <<text, kept>>

Next == See \/ Delete \/ \E t \in Texts : Write(t) \/ Keep(t) \/ Snapshot(t)

Spec == Init /\ [][Next]_vars
=============================================================================
