----------------------------- MODULE EditedLine -----------------------------
(***************************************************************************)
(* What the line editor promises an operator: a text with a cursor in it,  *)
(* and the last lines given, without a line that repeats the one before.   *)
(* Moving the cursor changes nothing, and deleting takes what is beside    *)
(* the cursor and nothing else.                                            *)
(***************************************************************************)
EXTENDS Sequences, Integers

CONSTANTS
    Chars,
    Depth       \* lines remembered

VARIABLES
    left, right,    \* the text before and after the cursor
    recent          \* lines remembered, the latest last

lineVars == <<left, right, recent>>

Text == left \o right

Latest(lines) ==
    IF Len(lines) <= Depth THEN lines ELSE SubSeq(lines, Len(lines) - Depth + 1, Len(lines))

Init == left = <<>> /\ right = <<>> /\ recent = <<>>

Type == \E c \in Chars : left' = Append(left, c) /\ right' = right

Move == left' \o right' = Text

Cut ==
    /\ Len(left') <= Len(left) /\ left' = SubSeq(left, 1, Len(left'))
    /\ Len(right') <= Len(right)
    /\ right' = SubSeq(right, Len(right) - Len(right') + 1, Len(right))

\* The characters on both sides of the cursor, or the last two, change places; the cursor is
\* behind them.
Swap ==
    \E i \in {Len(left), Len(left) - 1} :
        /\ i \in 1..(Len(Text) - 1)
        /\ left' = SubSeq(Text, 1, i - 1) \o <<Text[i + 1], Text[i]>>
        /\ right' = SubSeq(Text, i + 2, Len(Text))
        /\ i = Len(left) \/ right = <<>>

Recall == right' = <<>> /\ \E i \in 1..Len(recent) : left' = recent[i]

Complete ==
    /\ right' = <<>>
    /\ Len(left') >= Len(Text)
    /\ SubSeq(left', 1, Len(Text)) = Text

Enter ==
    /\ left' = <<>> /\ right' = <<>>
    /\ recent' = IF Text = <<>> \/ (recent # <<>> /\ recent[Len(recent)] = Text)
                 THEN recent
                 ELSE Latest(Append(recent, Text))

Edit == Type \/ Move \/ Cut \/ Swap \/ Recall \/ Complete

Next == Enter \/ (Edit /\ recent' = recent)

Spec == Init /\ [][Next]_lineVars
=============================================================================
