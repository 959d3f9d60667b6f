------------------------------- MODULE LineDiff -------------------------------
(***************************************************************************)
(* How a conflict window compares the local text of a note with the remote *)
(* one (lineDiff): the lengths of the longest common subsequences of the   *)
(* two texts' ends, and a walk through both texts that follows them.  A    *)
(* line is what it says and how it is spaced.                              *)
(***************************************************************************)
EXTENDS Naturals, Sequences, FiniteSets

CONSTANTS Words, Spacings,  \* what a line says; its spaces and indentation
          MaxLines          \* lines of a text

ASSUME LineDiffAssumption == MaxLines \in Nat \ {0}

VARIABLES
    localText, remoteText,  \* the two texts
    ignoreWhitespace,       \* the window's checkbox
    dp,                     \* dp
    atLocal, atRemote,      \* i and j, from 1
    diffLines               \* out

diffVars == <<localText, remoteText, ignoreWhitespace, dp, atLocal, atRemote, diffLines>>

Line == [says : Words, spaced : Spacings]
\* An empty text is one empty line.
Text == UNION {[1..k -> Line] : k \in 1..MaxLines}

Norm(ignoring, line) == IF ignoring THEN line.says ELSE line
Same(i, j) == Norm(ignoreWhitespace, localText[i]) = Norm(ignoreWhitespace, remoteText[j])

Longer(a, b) == IF a > b THEN a ELSE b

\* Fills dp from the ends of the texts a and b.
Lengths(a, b, ignoring) ==
    LET length[i \in 1..Len(a) + 1, j \in 1..Len(b) + 1] ==
            IF i > Len(a) \/ j > Len(b) THEN 0
            ELSE IF Norm(ignoring, a[i]) = Norm(ignoring, b[j]) THEN length[i + 1, j + 1] + 1
            ELSE Longer(length[i + 1, j], length[i, j + 1])
    IN length

Opened(a, b) ==
    /\ localText = a /\ remoteText = b /\ ignoreWhitespace = FALSE
    /\ dp = Lengths(a, b, FALSE)
    /\ atLocal = 1 /\ atRemote = 1 /\ diffLines = <<>>

LineDiffInit == \E a, b \in Text : Opened(a, b)

Push(type, line) == diffLines' = Append(diffLines, [type |-> type, text |-> line])
LocalLeft == atLocal <= Len(localText)
RemoteLeft == atRemote <= Len(remoteText)
Compared == ~LocalLeft /\ ~RemoteLeft

----------------------------------------------------------------------------
\* Which of two differing lines goes first.
\* Faulty RemovesFirst: the shorter rest is followed.
FollowsShorter(i, j) == dp[i + 1, j] <= dp[i, j + 1]
RemovesFirst(i, j) == dp[i + 1, j] >= dp[i, j + 1]

PushEqual ==
    /\ LocalLeft /\ RemoteLeft /\ Same(atLocal, atRemote)
    /\ Push("equal", localText[atLocal])
    /\ atLocal' = atLocal + 1 /\ atRemote' = atRemote + 1
    /\ UNCHANGED <<localText, remoteText, ignoreWhitespace, dp>>

PushRemove ==
    /\ LocalLeft
    /\ RemoteLeft => ~Same(atLocal, atRemote) /\ RemovesFirst(atLocal, atRemote)
    /\ Push("remove", localText[atLocal])
    /\ atLocal' = atLocal + 1
    /\ UNCHANGED <<localText, remoteText, ignoreWhitespace, dp, atRemote>>

PushAdd ==
    /\ RemoteLeft
    /\ LocalLeft => ~Same(atLocal, atRemote) /\ ~RemovesFirst(atLocal, atRemote)
    /\ Push("add", remoteText[atRemote])
    /\ atRemote' = atRemote + 1
    /\ UNCHANGED <<localText, remoteText, ignoreWhitespace, dp, atLocal>>

\* The checkbox: both texts are compared again.
IgnoreWhitespace ==
    /\ Compared /\ ~ignoreWhitespace /\ ignoreWhitespace' = TRUE
    /\ dp' = Lengths(localText, remoteText, TRUE)
    /\ atLocal' = 1 /\ atRemote' = 1 /\ diffLines' = <<>>
    /\ UNCHANGED <<localText, remoteText>>

LineDiffNext == PushEqual \/ PushRemove \/ PushAdd \/ IgnoreWhitespace

----------------------------------------------------------------------------
\* diffStats
Count(type) == Cardinality({k \in DOMAIN diffLines : diffLines[k].type = type})
diffStats == [added |-> Count("add"), removed |-> Count("remove")]

\* The lines of the diff that are of one of the types, in their order.
LinesOf(types) ==
    LET Wanted(l) == l.type \in types
        kept == SelectSeq(diffLines, Wanted)
    IN [k \in 1..Len(kept) |-> kept[k].text]
Normed(lines) == [k \in DOMAIN lines |-> Norm(ignoreWhitespace, lines[k])]

\* By definition: the lines of some places of one text, in order, are those of as many of the other.
CommonOf(n) ==
    \E f \in [1..n -> (DOMAIN localText) \X (DOMAIN remoteText)] :
        /\ \A k \in 1..n : Same(f[k][1], f[k][2])
        /\ \A k, l \in 1..n : k < l => f[k][1] < f[l][1] /\ f[k][2] < f[l][2]

(* DiffIsExact: a finished comparison can be read back: its lines without the *)
(* added ones are the local text, without the removed ones the remote text (up *)
(* to ignored spacing); it keeps as many lines as any comparison could, and    *)
(* its counts say how far the texts differ (lineDiff.ts:22-67).                *)
DiffIsExact ==
    Compared =>
        /\ LinesOf({"equal", "remove"}) = localText
        /\ Normed(LinesOf({"equal", "add"})) = Normed(remoteText)
        /\ Len(localText) - diffStats.removed = Count("equal")
        /\ Len(remoteText) - diffStats.added = Count("equal")
        /\ ~CommonOf(Count("equal") + 1)
============================================================================
