------------------------------ MODULE MCStreams ------------------------------
(***************************************************************************)
(* What a file descriptor may lead to, one part at a time: part says which *)
(* of the three modules moves; the others stay in their initial states.    *)
(***************************************************************************)
EXTENDS Pipe

CONSTANTS CReaders, CWriters, Intr, Printer,
          INPUT_BUF_SIZE, CW, MaxRead, UART_TX_BUF_SIZE, UW, MaxWrite

VARIABLES part, cons, rd, rkilled, tx, thr, irq, ut

console == INSTANCE Console
uart == INSTANCE Uart

cvars == <<cons, rd, rkilled>>
uvars == <<tx, thr, irq, ut>>
allvars == <<vars, part, cvars, uvars>>

AllInit ==
  /\ part \in {"pipe", "console", "uart"}
  /\ Init /\ console!Init /\ uart!Init
  /\ data = [k \in 0..(PIPESIZE - 1) |-> CHOOSE v \in Values : TRUE]   \* nothing reads it

InPipe == part = "pipe" /\ UNCHANGED <<part, cvars, uvars>>
InUart == part = "uart" /\ UNCHANGED <<part, vars, cvars>>

AllNext ==
  \/ InPipe /\ Next
  \/ InUart /\ uart!Next
  \/ part = "console" /\ console!Next /\ UNCHANGED <<part, vars, uvars>>

\* A process in a call goes on.  The UART sends what it has, its interrupt is
\* served, and the handler goes on.
AllSpec ==
  /\ AllInit /\ [][AllNext]_allvars
  /\ \A p \in Procs : WF_allvars(InPipe /\ Step(p))
  /\ WF_allvars(InUart /\ uart!uart_send)
  /\ \A t \in CWriters \cup {Intr} : WF_allvars(InUart /\ uart!Step(t))

-----------------------------------------------------------------------------
\* The properties of Console and Uart, stated and explained there.
\* Console: indices in order, one holder of cons.lock.
ConsoleTypeOK == part = "console" => console!TypeOK
\* Console: no reader of consoleread() misses its wakeup.
ConsoleReaderWaits == part = "console" => console!ReaderWaits
\* Console: a full input buffer can be read.
NeverStuck == part = "console" => console!NeverStuck
\* Console: consoleintr() and consoleread() implement Line.
IsLine == console!IsLine
\* Console: ^D reaches its reader as an empty read.
EofAlone == console!EofAlone
\* Uart: uart_tx_lock has one holder, the transmitter is not overrun.
UartTypeOK == part = "uart" => uart!TypeOK
\* Uart: a writer sleeps in uartputc() only when the ring is full.
UartWriterWaits == part = "uart" => uart!WriterWaits
\* Uart: buffered output is on its way, or an interrupt is.
OutputMoves == part = "uart" => uart!OutputMoves
\* Uart: the transmit ring is a queue.
UartIsFifo == uart!IsFifo
\* Pipe: a sleeping reader sees that all writers have closed their end.
PipeEndOfFile == part = "pipe" => EndOfFile
\* Uart: a sleeping writer is woken, once echo and printf() leave the line.
WriterServed == part = "uart" => uart!WriterServed
=============================================================================
