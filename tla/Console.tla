------------------------------ MODULE Console ------------------------------
(***************************************************************************)
(* Console input (kernel/console.c): consoleintr(), called for each        *)
(* character that arrives, and consoleread(), one round of its loop at a   *)
(* time.  r, w and e are unsigned counters that wrap at 2^CW.  Echoing is  *)
(* left out here: it waits for the transmitter with cons.lock held (Uart). *)
(***************************************************************************)
EXTENDS Integers, Sequences

CONSTANTS CReaders, None,
          INPUT_BUF_SIZE, CW,
          MaxRead             \* bound: longest read()

VARIABLES cons,     \* buf, r, w, e, and the holder of the lock
          rd,       \* each reader: its place, n, target - n
          rkilled   \* readers that have been killed

cvars == <<cons, rd, rkilled>>

Chars == {"x", "nl", "eof"}                  \* stored
Keys == {"x", "nl", "cr", "eof", "del", "kill"}   \* typed: cr is \r, kill is ^U
UserRead == [pc |-> "user", n |-> 0, got |-> 0]

Wrap(x) == x % 2^CW
Slot(x) == x % INPUT_BUF_SIZE
wakeup == [p \in CReaders |-> IF rd[p].pc = "asleep" THEN [rd[p] EXCEPT !.pc = "want"] ELSE rd[p]]

-----------------------------------------------------------------------------
\* consoleintr(): the default case stores the character; a whole line, or a
\* full buffer, becomes visible to readers.
Room(c) == Wrap(c.e - c.r) < INPUT_BUF_SIZE
Complete(ch, c) == ch \in {"nl", "eof"} \/ Wrap(c.e - c.r) = INPUT_BUF_SIZE
Converted(k) == IF k = "cr" THEN "nl" ELSE k
Wakes == wakeup
AllTheWay(c) == [c EXCEPT !.e = c.r]
Killed(c) ==
  LET tails == {d \in 0..Wrap(c.e - c.w) : \A j \in 1..d : c.buf[Slot(Wrap(c.e - j))] # "nl"}
      d == CHOOSE d \in tails : \A k \in tails : k <= d
  IN [c EXCEPT !.e = Wrap(@ - d)]
Erased(c) == IF c.e # c.w THEN [c EXCEPT !.e = Wrap(@ - 1)] ELSE c

consoleintr(k) ==
  /\ cons.lock = None
  /\ \/ /\ k = "kill" /\ cons' = Killed(cons) /\ UNCHANGED rd
     \/ /\ k = "del" /\ cons' = Erased(cons) /\ UNCHANGED rd
     \/ /\ k \notin {"kill", "del"} /\ Room(cons)
        /\ LET ch == Converted(k)
               c == [cons EXCEPT !.buf[Slot(cons.e)] = ch, !.e = Wrap(@ + 1)]
           IN IF Complete(ch, c)
              THEN cons' = [c EXCEPT !.w = c.e] /\ rd' = Wakes
              ELSE cons' = c /\ UNCHANGED rd
  /\ UNCHANGED rkilled

-----------------------------------------------------------------------------
\* consoleread()
consoleread(p, n) ==
  /\ rd[p].pc = "user" /\ p \notin rkilled
  /\ rd' = [rd EXCEPT ![p] = [UserRead EXCEPT !.pc = "want", !.n = n]]
  /\ UNCHANGED <<cons, rkilled>>

acquire(p) ==
  /\ rd[p].pc = "want" /\ cons.lock = None
  /\ cons' = [cons EXCEPT !.lock = p]
  /\ rd' = [rd EXCEPT ![p].pc = "loop"]
  /\ UNCHANGED rkilled

\* release(&cons.lock) and return, with the buffer as in c
Leave(p, c) == cons' = [c EXCEPT !.lock = None] /\ rd' = [rd EXCEPT ![p] = UserRead]

consoleread_empty(p) ==
  /\ rd[p].pc = "loop" /\ rd[p].n > 0 /\ cons.r = cons.w
  /\ IF p \in rkilled THEN Leave(p, cons)
     ELSE /\ cons' = [cons EXCEPT !.lock = None]
          /\ rd' = [rd EXCEPT ![p].pc = "asleep"]
  /\ UNCHANGED rkilled

\* One character is taken.  ^D ends the call; it stays in the buffer when the
\* call has characters to return.  The copy to user space may fail.
Taken(c) == [c EXCEPT !.r = Wrap(@ + 1)]
AtEof(p, c) == IF rd[p].got > 0 THEN c ELSE Taken(c)

consoleread_char(p) ==
  /\ rd[p].pc = "loop" /\ rd[p].n > 0 /\ cons.r # cons.w
  /\ LET ch == cons.buf[Slot(cons.r)]
     IN \/ ch = "eof" /\ Leave(p, AtEof(p, cons))
        \/ ch # "eof" /\ Leave(p, Taken(cons))       \* a newline, or the copy fails
        \/ /\ ch \notin {"eof", "nl"}
           /\ cons' = Taken(cons)
           /\ rd' = [rd EXCEPT ![p].n = @ - 1, ![p].got = @ + 1]
  /\ UNCHANGED rkilled

consoleread_done(p) ==
  /\ rd[p].pc = "loop" /\ rd[p].n = 0
  /\ Leave(p, cons) /\ UNCHANGED rkilled

kill(p) ==
  /\ p \notin rkilled
  /\ rkilled' = rkilled \cup {p}
  /\ rd' = IF rd[p].pc = "asleep" THEN [rd EXCEPT ![p].pc = "want"] ELSE rd
  /\ UNCHANGED cons

Init ==
  /\ cons = [buf |-> [s \in 0..(INPUT_BUF_SIZE - 1) |-> "x"], r |-> 0, w |-> 0, e |-> 0,
             lock |-> None]
  /\ rd = [p \in CReaders |-> UserRead] /\ rkilled = {}

ReadStep(p) ==
  acquire(p) \/ consoleread_empty(p) \/ consoleread_char(p) \/ consoleread_done(p)

Next ==
  \/ \E k \in Keys : consoleintr(k)
  \/ \E p \in CReaders : \/ ReadStep(p) \/ kill(p)
                         \/ \E n \in 0..MaxRead : consoleread(p, n)

Spec == Init /\ [][Next]_cvars

-----------------------------------------------------------------------------
\* The indices stay in order within one buffer, r up to w up to e, across the
\* wrap of the counters, and cons.lock has one holder.
TypeOK ==
  /\ cons.buf \in [0..(INPUT_BUF_SIZE - 1) -> Chars]
  /\ {cons.r, cons.w, cons.e} \subseteq 0..(2^CW - 1)
  /\ Wrap(cons.w - cons.r) + Wrap(cons.e - cons.w) <= INPUT_BUF_SIZE
  /\ rkilled \subseteq CReaders
  /\ \A p \in CReaders : rd[p].pc = "loop" <=> cons.lock = p

\* No wakeup is lost: a reader asleep in consoleread() has nothing to read.
ReaderWaits ==
  cons.lock = None => \A p \in CReaders : rd[p].pc = "asleep" => cons.r = cons.w

\* A buffer without room for a key has something for a reader: typing more than
\* a buffer without a newline does not lock the console up.
NeverStuck == ~Room(cons) => cons.r # cons.w

Between(a, b) == [k \in 1..Wrap(b - a) |-> cons.buf[Slot(a + k - 1)]]
input == INSTANCE Line WITH
  Ends <- {"nl", "eof"}, Size <- INPUT_BUF_SIZE,
  line <- Between(cons.w, cons.e), ready <- Between(cons.r, cons.w)

\* consoleintr() and consoleread() edit and hand over lines as promised:
\* characters a reader may already have seen are not erased or overwritten.
IsLine == input!Spec

\* An end of file reaches its reader as a call that returns nothing: ^D leaves
\* the buffer only in a call that has taken no character.
EofAlone ==
  [][\A p \in CReaders :
       cons.r # cons'.r /\ cons.lock = p /\ cons.buf[Slot(cons.r)] = "eof" => rd[p].got = 0]_cvars
=============================================================================
