------------------------------ MODULE Terminal ------------------------------
(***************************************************************************)
(* What the console promises, for any driver of it: a terminal of Rows     *)
(* lines of Cols characters whose text scrolls up when it is full.         *)
(***************************************************************************)
EXTENDS Integers, Sequences

CONSTANTS Rows, Cols, Glyphs, Stop

VARIABLES
    text,      \* a sequence of lines, each a sequence of characters
    row, col   \* where the next character goes, both from 1

termVars == <<text, row, col>>

BlankLine == [c \in 1 .. Cols |-> " "]

TermInit ==
    /\ text \in [1 .. Rows -> [1 .. Cols -> Glyphs]]
    /\ row \in 1 .. Rows /\ col \in 1 .. Cols
    /\ \A r \in 1 .. Rows : \A c \in 1 .. Cols :
           r > row \/ (r = row /\ c >= col) => text[r][c] = " "

\* The text t with the cursor at the start of the line after this one.
NextLine(t) ==
    /\ col' = 1
    /\ IF row < Rows THEN row' = row + 1 /\ text' = t
                     ELSE row' = row /\ text' = Append(Tail(t), BlankLine)

\* Characters at the cursor, up to the end of the line at most.
Typed(cs) ==
    LET t == [text EXCEPT ![row] =
                  [c \in 1 .. Cols |-> IF c \in col .. col + Len(cs) - 1
                                       THEN cs[c - col + 1] ELSE @[c]]]
    IN  IF col + Len(cs) > Cols THEN NextLine(t)
        ELSE text' = t /\ col' = col + Len(cs) /\ UNCHANGED row

Show == \E c \in Glyphs : Typed(<<c>>)
TabTo == Typed([i \in 1 .. Stop - ((col - 1) % Stop) |-> " "])
Newline == NextLine(text)
CarriageReturn == col' = 1 /\ UNCHANGED <<text, row>>
Back ==
    /\ UNCHANGED text
    /\ \/ col > 1 /\ col' = col - 1 /\ UNCHANGED row
       \/ col = 1 /\ row > 1 /\ row' = row - 1 /\ col' = Cols

TermNext == Show \/ TabTo \/ Newline \/ CarriageReturn \/ Back

TermSpec == TermInit /\ [][TermNext]_termVars
=============================================================================
