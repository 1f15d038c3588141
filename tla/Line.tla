-------------------------------- MODULE Line --------------------------------
(***************************************************************************)
(* What the console promises a reader: typed characters collect in a line  *)
(* that can still be edited; a newline, an end of file or a full buffer    *)
(* makes the line ready; ready characters are read in order.               *)
(***************************************************************************)
EXTENDS Naturals, Sequences

CONSTANTS Chars, Ends, Size     \* Ends are the characters that end a line

VARIABLES line, ready

Init == line = <<>> /\ ready = <<>>

Typed(c) ==
  LET longer == Append(line, c) full == Len(ready) + Len(longer) = Size
  IN /\ Len(ready) + Len(line) < Size
     /\ IF c \in Ends \/ full
        THEN ready' = ready \o longer /\ line' = <<>>
        ELSE line' = longer /\ UNCHANGED ready

Erase == line # <<>> /\ line' = SubSeq(line, 1, Len(line) - 1) /\ UNCHANGED ready

Kill == line' = <<>> /\ UNCHANGED ready

Get == ready # <<>> /\ ready' = Tail(ready) /\ UNCHANGED line

Spec == Init /\ [][(\E c \in Chars : Typed(c)) \/ Erase \/ Kill \/ Get]_<<line, ready>>
=============================================================================
