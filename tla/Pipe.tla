-------------------------------- MODULE Pipe --------------------------------
(***************************************************************************)
(* kernel/pipe.c: processes that write to and read from one pipe, close    *)
(* their end, and are killed.  pi->lock is explicit because kill() does    *)
(* not take it: a writer may find itself killed after any byte.  nread and *)
(* nwrite are unsigned counters that wrap at 2^W.                          *)
(***************************************************************************)
EXTENDS Integers, Sequences, FiniteSets

CONSTANTS Writers, Readers, None,
          Values,
          PIPESIZE, W,
          MaxN,        \* longest write() and read()
          Victims      \* processes that may be killed

Procs == Writers \cup Readers

ASSUME PipeAssumption ==
  /\ Writers \cap Readers = {} /\ None \notin Procs /\ Victims \subseteq Procs
  /\ PIPESIZE \in Nat \ {0} /\ W \in Nat /\ MaxN \in Nat
  /\ 2^W \in Nat /\ 2^W % PIPESIZE = 0 /\ PIPESIZE < 2^W

VARIABLES data, nread, nwrite, readopen, writeopen, freed,   \* struct pipe
          lock,
          open,      \* processes that have their end open
          killed,
          pc, n      \* where a process is, and bytes left of its request

pvars == <<data, nread, nwrite, readopen, writeopen, freed>>
vars == <<pvars, lock, open, killed, pc, n>>

PC == {"user", "want", "loop", "copy", "tosleep", "asleep", "close", "gone"}
Wrap(x) == x % 2^W
FullUnwrapped == nwrite = nread + PIPESIZE
Full == nwrite = Wrap(nread + PIPESIZE)
Empty == nread = nwrite

wakeup(S, f) == [p \in Procs |-> IF p \in S /\ f[p] = "asleep" THEN "want" ELSE f[p]]

\* read() or write() of k bytes.
Call(p, k) ==
  /\ p \in open /\ pc[p] = "user" /\ ~killed[p]
  /\ pc' = [pc EXCEPT ![p] = "want"]
  /\ n' = [n EXCEPT ![p] = k]
  /\ UNCHANGED <<pvars, lock, open, killed>>

acquire(p) ==
  /\ pc[p] = "want" /\ lock = None
  /\ lock' = p
  /\ pc' = [pc EXCEPT ![p] = "loop"]
  /\ UNCHANGED <<pvars, open, killed, n>>

\* sleep(chan, &pi->lock)
sleep(p) ==
  /\ pc[p] = "tosleep"
  /\ lock' = None
  /\ pc' = [pc EXCEPT ![p] = "asleep"]
  /\ UNCHANGED <<pvars, open, killed, n>>

\* release(&pi->lock), back to user space
Leave(p, f) ==
  /\ lock' = None
  /\ pc' = [f EXCEPT ![p] = "user"]
  /\ n' = [n EXCEPT ![p] = 0]

\* pipewrite(): killed and readopen are tested before every byte.
KeepAsleep(f) == f
FullWakes(f) == wakeup(Readers, f)
DoneWakes(f) == wakeup(Readers, f)

pipewrite_error(p) ==
  /\ p \in Writers /\ pc[p] = "loop" /\ n[p] > 0
  /\ ~readopen \/ killed[p]
  /\ Leave(p, pc)
  /\ UNCHANGED <<pvars, open, killed>>

pipewrite_full(p) ==
  /\ p \in Writers /\ pc[p] = "loop" /\ n[p] > 0 /\ readopen /\ ~killed[p] /\ Full
  /\ pc' = FullWakes([pc EXCEPT ![p] = "tosleep"])
  /\ UNCHANGED <<pvars, lock, open, killed, n>>

pipewrite_byte(p, ch) ==
  /\ p \in Writers /\ pc[p] = "loop" /\ n[p] > 0 /\ readopen /\ ~killed[p] /\ ~Full
  /\ data' = [data EXCEPT ![nwrite % PIPESIZE] = ch]
  /\ nwrite' = Wrap(nwrite + 1)
  /\ n' = [n EXCEPT ![p] = @ - 1]
  /\ UNCHANGED <<nread, readopen, writeopen, freed, lock, open, killed, pc>>

\* The request is done, or copyin() failed.
pipewrite_done(p) ==
  /\ p \in Writers /\ pc[p] = "loop"
  /\ n[p] = 0 \/ (readopen /\ ~killed[p] /\ ~Full)
  /\ Leave(p, DoneWakes(pc))
  /\ UNCHANGED <<pvars, open, killed>>

\* piperead(): wait while the pipe is empty, then take what there is.  A byte
\* whose copyout() fails has left the pipe.
Sleeps == Empty /\ writeopen

piperead_empty(p) ==
  /\ p \in Readers /\ pc[p] = "loop" /\ Sleeps
  /\ IF killed[p]
     THEN Leave(p, pc)
     ELSE pc' = [pc EXCEPT ![p] = "tosleep"] /\ UNCHANGED <<lock, n>>
  /\ UNCHANGED <<pvars, open, killed>>

piperead_ready(p) ==
  /\ p \in Readers /\ pc[p] = "loop" /\ ~Sleeps
  /\ pc' = [pc EXCEPT ![p] = "copy"]
  /\ UNCHANGED <<pvars, lock, open, killed, n>>

piperead_byte(p) ==
  /\ pc[p] = "copy" /\ n[p] > 0 /\ ~Empty
  /\ nread' = Wrap(nread + 1)
  /\ \E left \in {n[p] - 1, 0} : n' = [n EXCEPT ![p] = left]
  /\ UNCHANGED <<data, nwrite, readopen, writeopen, freed, lock, open, killed, pc>>

ReadWakes(f) == wakeup(Writers, f)

piperead_done(p) ==
  /\ pc[p] = "copy" /\ (n[p] = 0 \/ Empty)
  /\ Leave(p, ReadWakes(pc))
  /\ UNCHANGED <<pvars, open, killed>>

-----------------------------------------------------------------------------
\* close() or exit(): fileclose() drops the reference, and pipeclose() runs
\* when it was the last one of that end.
Side(p) == IF p \in Writers THEN Writers ELSE Readers

fileclose(p) ==
  /\ p \in open /\ pc[p] = "user"
  /\ open' = open \ {p}
  /\ pc' = [pc EXCEPT ![p] = IF open' \cap Side(p) = {} THEN "close" ELSE "gone"]
  /\ UNCHANGED <<pvars, lock, killed, n>>

CloseKeepsAsleep(S, f) == f
CloseWakes(S, f) == wakeup(S, f)
BothClosed == ~readopen' /\ ~writeopen'
OneClosed == ~readopen' \/ ~writeopen'
Frees == BothClosed

pipeclose(p) ==
  /\ pc[p] = "close" /\ lock = None
  /\ writeopen' = (writeopen /\ p \notin Writers)
  /\ readopen' = (readopen /\ p \notin Readers)
  /\ freed' = (freed \/ Frees)
  /\ pc' = CloseWakes(Procs \ Side(p), [pc EXCEPT ![p] = "gone"])
  /\ UNCHANGED <<data, nread, nwrite, lock, open, killed, n>>

kill(p) ==
  /\ p \in Victims /\ ~killed[p]
  /\ killed' = [killed EXCEPT ![p] = TRUE]
  /\ pc' = IF pc[p] = "asleep" THEN [pc EXCEPT ![p] = "want"] ELSE pc
  /\ UNCHANGED <<pvars, lock, open, n>>

Init ==
  /\ data \in {[k \in 0..(PIPESIZE - 1) |-> v] : v \in Values}
  /\ nread = 0 /\ nwrite = 0 /\ readopen = TRUE /\ writeopen = TRUE /\ freed = FALSE
  /\ lock = None /\ open = Procs /\ killed = [p \in Procs |-> FALSE]
  /\ pc = [p \in Procs |-> "user"] /\ n = [p \in Procs |-> 0]

Step(p) ==
  \/ acquire(p) \/ sleep(p)
  \/ pipewrite_error(p) \/ pipewrite_full(p) \/ pipewrite_done(p)
  \/ \E ch \in Values : pipewrite_byte(p, ch)
  \/ piperead_empty(p) \/ piperead_ready(p) \/ piperead_byte(p) \/ piperead_done(p)
  \/ pipeclose(p)

Next == \E p \in Procs : \/ Step(p) \/ fileclose(p) \/ kill(p)
                         \/ \E k \in 0..MaxN : Call(p, k)

Spec == Init /\ [][Next]_vars

\* Every process that is inside a system call goes on: it runs in the kernel
\* with nothing to wait for but pi->lock, which is held for a bounded time.
FairSpec == Spec /\ \A p \in Procs : WF_vars(Step(p))

-----------------------------------------------------------------------------
Inside == {"want", "loop", "copy", "tosleep", "asleep", "close"}

\* The variables have their types, and pi->lock is held by exactly the process
\* that is between acquire() and release() of pipe.c.
TypeOK ==
  /\ data \in [0..(PIPESIZE - 1) -> Values]
  /\ nread \in 0..(2^W - 1) /\ nwrite \in 0..(2^W - 1)
  /\ readopen \in BOOLEAN /\ writeopen \in BOOLEAN /\ freed \in BOOLEAN
  /\ open \subseteq Procs /\ killed \in [Procs -> BOOLEAN]
  /\ pc \in [Procs -> PC] /\ n \in [Procs -> 0..MaxN]
  /\ lock \in Procs \cup {None}
  /\ \A p \in Procs : pc[p] \in {"loop", "copy", "tosleep"} <=> lock = p

\* No wakeup is lost by a writer: once pi->lock is free, a writer sleeping in
\* pipewrite() waits for a pipe that is full and still has a reader.
WriterWaits ==
  lock = None => \A p \in Writers : pc[p] = "asleep" => Full /\ readopen

\* No wakeup is lost by a reader: once pi->lock is free, a reader sleeping in
\* piperead() waits for a pipe that is empty and still has a writer.
ReaderWaits ==
  lock = None => \A p \in Readers : pc[p] = "asleep" => Empty /\ writeopen

\* The same, as far as pipe.c ensures it: as long as no writer is killed.
ReaderWaitsUnlessKilled == (\A w \in Writers : ~killed[w]) => ReaderWaits

\* pipeclose() frees the pipe's page only when no process is in a call on it
\* or about to close it, whatever the order in which the two ends are closed.
NoUseAfterFree == freed => \A p \in Procs : pc[p] \notin Inside

\* The bytes between nread and nwrite, oldest first.
Contents == [k \in 1..Wrap(nwrite - nread) |-> data[(nread + k - 1) % PIPESIZE]]

\* The ring buffer implements a bounded FIFO queue, also when the unsigned
\* counters of pipewrite() and piperead() wrap around.
fifo == INSTANCE Fifo WITH q <- Contents, Size <- PIPESIZE
IsFifo == fifo!Spec

\* A reader asleep in piperead() when every write end is closed is woken by
\* pipeclose(), so that it can return end of file.
EndOfFile ==
  \A p \in Readers :
    (pc[p] = "asleep" /\ open \cap Writers = {}) ~> pc[p] # "asleep"
-----------------------------------------------------------------------------
\* The parts of the inductive invariant IInv of PipeProofs.

\* An end is closed by its last process, which finds the others gone.
EndsInv ==
  /\ \A p \in Procs : p \in open <=> pc[p] \notin {"close", "gone"}
  /\ \A p \in Procs : pc[p] = "close" => \A q \in Side(p) \ {p} : pc[q] = "gone"
  /\ ~readopen => \A p \in Readers : pc[p] = "gone"
  /\ ~writeopen => \A p \in Writers : pc[p] = "gone"
  /\ freed => ~readopen /\ ~writeopen

\* While the lock is held a writer may sleep on a pipe that is not full: the
\* reader that took bytes out will wake it.
WriterInv ==
  /\ \A p \in Procs : pc[p] = "copy" => p \in Readers
  /\ \A p \in Writers : pc[p] = "asleep" => readopen /\ (Full \/ \E r \in Readers : pc[r] = "copy")
  /\ \A p \in Writers : pc[p] = "tosleep" => readopen /\ Full

\* The same for a reader and the writer that puts bytes in.
ReaderInv ==
  (\A w \in Writers : ~killed[w]) =>
    /\ \A p \in Readers : pc[p] = "asleep" => writeopen /\ (Empty \/ \E w \in Writers : pc[w] = "loop")
    /\ \A p \in Readers : pc[p] = "tosleep" => writeopen /\ Empty

\* The counters are at most PIPESIZE apart.
CountInv == Wrap(nwrite - nread) <= PIPESIZE

IInv == TypeOK /\ EndsInv /\ WriterInv /\ ReaderInv /\ CountInv
=============================================================================
