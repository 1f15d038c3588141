-------------------------------- MODULE Uart --------------------------------
(***************************************************************************)
(* Console output (kernel/uart.c, consolewrite() of kernel/console.c):     *)
(* processes that put characters into the transmit ring, the interrupt     *)
(* handler, and uartputc_sync(), which takes no lock and is called by the  *)
(* handler to echo and by printf() on any CPU.  Each test of LSR and each  *)
(* write to THR is a step.  The UART itself is external.                   *)
(***************************************************************************)
EXTENDS Integers, Sequences

CONSTANTS CWriters, Intr, Printer, None,
          UART_TX_BUF_SIZE, UW,    \* the counters wrap at 2^UW
          MaxWrite                 \* bound: longest write()

VARIABLES tx,     \* uart_tx_buf, uart_tx_r, uart_tx_w, and the holder of uart_tx_lock
          thr,    \* external: characters the UART has yet to send
          irq,    \* external: its interrupt is pending at the PLIC
          ut      \* each thread: its place and what is left of its request

uvars == <<tx, thr, irq, ut>>

Threads == CWriters \cup {Intr, Printer}
FreeThread == [pc |-> "user", n |-> 0]
Wrap(x) == x % 2^UW
Slot(x) == x % UART_TX_BUF_SIZE
Empty == tx.w = tx.r
Full == tx.w = Wrap(tx.r + UART_TX_BUF_SIZE)
Idle == thr = 0                     \* LSR_TX_IDLE

Goto(t, place) == ut' = [ut EXCEPT ![t].pc = place]

-----------------------------------------------------------------------------
\* The UART sends a character, and interrupts when it has none left; input
\* interrupts as well.
uart_send == thr > 0 /\ thr' = thr - 1 /\ irq' = (irq \/ thr = 1) /\ UNCHANGED <<tx, ut>>
uart_receive == ~irq /\ irq' = TRUE /\ UNCHANGED <<tx, thr, ut>>

-----------------------------------------------------------------------------
\* consolewrite() of n characters, uartputc() for each; copyin() may fail.
consolewrite(p, n) ==
  /\ p \in CWriters /\ ut[p].pc = "user"
  /\ ut' = [ut EXCEPT ![p] = [pc |-> "putc", n |-> n]]
  /\ UNCHANGED <<tx, thr, irq>>

consolewrite_end(p) ==
  /\ ut[p].pc = "putc"
  /\ ut' = [ut EXCEPT ![p] = FreeThread]
  /\ UNCHANGED <<tx, thr, irq>>

uartputc(p) ==
  /\ ut[p].pc = "putc" /\ ut[p].n > 0 /\ tx.lock = None
  /\ IF Full THEN Goto(p, "asleep") /\ UNCHANGED tx
     ELSE /\ tx' = [tx EXCEPT !.buf[Slot(tx.w)] = p, !.w = Wrap(@ + 1), !.lock = p]
          /\ ut' = [ut EXCEPT ![p].pc = "start", ![p].n = @ - 1]
  /\ UNCHANGED <<thr, irq>>

\* uartstart(), with uart_tx_lock held.
Woken == [t \in Threads |-> IF ut[t].pc = "asleep" THEN [ut[t] EXCEPT !.pc = "putc"] ELSE ut[t]]
CanSend == ~Empty /\ Idle

uartstart_test(t) ==
  /\ ut[t].pc = "start" /\ CanSend
  /\ Goto(t, "send") /\ UNCHANGED <<tx, thr, irq>>

uartstart_send(t) ==
  /\ ut[t].pc = "send"
  /\ tx' = [tx EXCEPT !.r = Wrap(@ + 1)]
  /\ ut' = [Woken EXCEPT ![t].pc = "start"]
  /\ thr' = thr + 1
  /\ UNCHANGED irq

uartstart_end(t) ==
  /\ ut[t].pc = "start" /\ ~CanSend
  /\ tx' = [tx EXCEPT !.lock = None]
  /\ Goto(t, IF t = Intr THEN "user" ELSE "putc")
  /\ UNCHANGED <<thr, irq>>

\* uartputc_sync()
uartputc_sync(t) ==
  /\ ut[t].pc \in {"user", "input"} /\ t \in {Printer, Intr} /\ Idle
  /\ t = Intr => ut[t].pc = "input"
  /\ Goto(t, "sync") /\ UNCHANGED <<tx, thr, irq>>

uartputc_sync_write(t) ==
  /\ ut[t].pc = "sync"
  /\ thr' = thr + 1
  /\ Goto(t, IF t = Intr THEN "input" ELSE "user")
  /\ UNCHANGED <<tx, irq>>

\* uartintr(): the PLIC lets one CPU at a time serve the interrupt.  The loop
\* over the input echoes any number of characters.
uartintr ==
  /\ ut[Intr].pc = "user" /\ irq
  /\ irq' = FALSE
  /\ Goto(Intr, "input") /\ UNCHANGED <<tx, thr>>

NoOutput == Goto(Intr, "user") /\ UNCHANGED tx
SendBuffered == Goto(Intr, "start") /\ tx' = [tx EXCEPT !.lock = Intr]
AfterInput == SendBuffered

uartintr_output ==
  /\ ut[Intr].pc = "input" /\ tx.lock = None
  /\ AfterInput /\ UNCHANGED <<thr, irq>>

Init ==
  /\ tx = [buf |-> [s \in 0..(UART_TX_BUF_SIZE - 1) |-> None], r |-> 0, w |-> 0, lock |-> None]
  /\ thr = 0 /\ irq = FALSE
  /\ ut = [t \in Threads |-> FreeThread]

Step(t) ==
  \/ uartputc(t) \/ uartstart_test(t) \/ uartstart_send(t) \/ uartstart_end(t)
  \/ uartputc_sync_write(t)
  \/ t = Intr /\ (uartintr \/ uartintr_output)
  \/ t \in CWriters /\ ut[t].n = 0 /\ consolewrite_end(t)

Next ==
  \/ uart_send \/ uart_receive
  \/ \E t \in Threads : Step(t) \/ uartputc_sync(t)
  \/ \E p \in CWriters : consolewrite_end(p) \/ \E n \in 1..MaxWrite : consolewrite(p, n)

Spec == Init /\ [][Next]_uvars

-----------------------------------------------------------------------------
\* Counters, threads and the lock have their types: uart_tx_lock is held by the
\* one thread in uartstart().  The transmitter never holds more than one
\* character from uartstart() and one from each caller of uartputc_sync().
TypeOK ==
  /\ tx.buf \in [0..(UART_TX_BUF_SIZE - 1) -> CWriters \cup {None}]
  /\ tx.r \in 0..(2^UW - 1) /\ tx.w \in 0..(2^UW - 1)
  /\ thr \in 0..3 /\ irq \in BOOLEAN
  /\ \A t \in Threads : ut[t].pc \in {"start", "send"} <=> tx.lock = t

\* A writer asleep in uartputc() waits for a ring that is full.
WriterWaits ==
  tx.lock = None => \A p \in CWriters : ut[p].pc = "asleep" => Full

\* Output never stalls: while characters are in the ring, the transmitter is
\* busy and will interrupt, or the interrupt is pending, or someone is on the
\* way to uartstart() or to the transmitter.
OutputMoves ==
  ~Empty => \/ thr > 0 \/ irq
            \/ ut[Intr].pc # "user" \/ ut[Printer].pc = "sync" \/ tx.lock # None

Contents == [k \in 1..Wrap(tx.w - tx.r) |-> tx.buf[Slot(tx.r + k - 1)]]
ring == INSTANCE Fifo WITH q <- Contents, Values <- CWriters, Size <- UART_TX_BUF_SIZE

\* uart_tx_buf is a bounded queue, across the wrap of its counters: what
\* processes write is sent in the order written.
IsFifo == ring!Spec

\* The writers asleep in uartputc() are woken, if from some time on nobody uses
\* uartputc_sync(), which competes for the transmitter.
Sleepers == {p \in CWriters : ut[p].pc = "asleep"}
WriterServed ==
  <>[](\A t \in Threads : ut[t].pc # "sync") => (Sleepers # {} ~> Sleepers = {})
=============================================================================
