----------------------------- MODULE PipeProofs -----------------------------
(***************************************************************************)
(* A pipe is correct for any number of processes, any ring size and any    *)
(* width of its counters: no wakeup is lost, its page is not used after it *)
(* is freed, and it implements a bounded queue.                            *)
(***************************************************************************)
EXTENDS Pipe, TLAPS

\* Quotient and remainder, and that they are unique.
LEMMA DivMod ==
  ASSUME NEW m \in Nat \ {0}, NEW x \in Int
  PROVE  x = m * (x \div m) + (x % m) /\ x \div m \in Int /\ x % m \in 0..(m - 1)
  OBVIOUS

\* A remainder is the number in range that differs by a multiple of the modulus.
LEMMA ModIs ==
  ASSUME NEW m \in Nat \ {0}, NEW k \in Int, NEW r \in 0..(m - 1)
  PROVE  (k * m + r) % m = r
  OBVIOUS

\* A remainder modulo a multiple of p says enough for p.
LEMMA ModMod ==
  ASSUME NEW m \in Nat \ {0}, NEW p \in Nat \ {0}, m % p = 0, NEW x \in Int
  PROVE  (x % m) % p = x % p
<1>1. PICK a \in Int : x = m * a + (x % m)
  <2>1. x = m * (x \div m) + (x % m) /\ x \div m \in Int
    BY DivMod
  <2> QED
    BY <2>1, Zenon
<1>2. PICK b \in Int : m = p * b
  <2>1. m = p * (m \div p) /\ m \div p \in Int
    BY DivMod
  <2> QED
    BY <2>1, Zenon
<1>3. x % m \in Int
  BY DivMod
<1>4. PICK c \in Int : x % m = p * c + ((x % m) % p)
  BY <1>3, DivMod
<1> DEFINE y == x % m
           r == y % p
<1>5. r \in 0..(p - 1)
  BY <1>3, DivMod
<1>6. x = (b * a + c) * p + r
  <2> HIDE DEF r
  <2>1. x = p * b * a + (p * c + r)
    BY <1>1, <1>2, <1>4 DEF r
  <2> QED
    BY <1>5, <2>1
<1>7. ((b * a + c) * p + r) % p = r
  <2> HIDE DEF r
  <2>1. b * a + c \in Int
    OBVIOUS
  <2> QED
    BY <1>5, <2>1, ModIs
<1> QED
  BY <1>6, <1>7

\* The counters' arithmetic: a remainder is in range, and is reached by
\* adding or taking away the modulus once.
LEMMA WrapRange == ASSUME NEW x \in Int PROVE Wrap(x) \in 0..(2^W - 1)
  BY PipeAssumption DEF Wrap

\* The same for the counters: a distance in range is its own remainder.
LEMMA WrapIs ==
  ASSUME NEW x \in Int
  PROVE  /\ x \in 0..(2^W - 1) => Wrap(x) = x
         /\ x \in 2^W..(2^W + 2^W - 1) => Wrap(x) = x - 2^W
         /\ x \in (0 - 2^W)..(0 - 1) => Wrap(x) = x + 2^W
<1> DEFINE M == 2^W
<1>1. M \in Nat \ {0}
  BY PipeAssumption
<1> HIDE DEF M
<1>2. x \in 0..(M - 1) => x % M = x
  BY <1>1
<1>3. x \in M..(M + M - 1) => x % M = x - M
  BY <1>1
<1>4. x \in (0 - M)..(0 - 1) => x % M = x + M
  BY <1>1
<1> QED
  BY <1>2, <1>3, <1>4 DEF M, Wrap

\* Another byte: the full test of pipewrite() leaves room for it, and the
\* distance of the counters grows by one.
LEMMA PutCount ==
  ASSUME NEW a \in 0..(2^W - 1), NEW b \in 0..(2^W - 1),
         Wrap(a - b) <= PIPESIZE, a # Wrap(b + PIPESIZE)
  PROVE  Wrap(a - b) < PIPESIZE /\ Wrap(Wrap(a + 1) - b) = Wrap(a - b) + 1
<1> DEFINE M == 2^W
<1>1. M \in Nat \ {0} /\ PIPESIZE \in Nat \ {0} /\ PIPESIZE < M /\ a \in 0..(M - 1) /\ b \in 0..(M - 1)
  BY PipeAssumption
<1>2. /\ Wrap(a - b) = IF a >= b THEN a - b ELSE a - b + M
      /\ Wrap(b + PIPESIZE) = IF b + PIPESIZE < M THEN b + PIPESIZE ELSE b + PIPESIZE - M
      /\ Wrap(a + 1) = IF a + 1 < M THEN a + 1 ELSE 0
  <2>1. a - b \in Int /\ b + PIPESIZE \in Int /\ a + 1 \in Int
    BY <1>1
  <2> QED
    BY <1>1, <2>1, WrapIs
<1>3. /\ Wrap(a + 1 - b) = IF a + 1 >= b THEN a + 1 - b ELSE a + 1 - b + M
      /\ Wrap(0 - b) = IF b = 0 THEN 0 ELSE M - b
  <2>1. CASE a + 1 - b < M
    BY <1>1, <2>1, WrapIs
  <2>2. CASE a + 1 - b = M
    BY <1>1, <1>2, <2>2
  <2> QED
    BY <1>1, <2>1, <2>2
<1> HIDE DEF M
<1> QED
  BY <1>1, <1>2, <1>3
\* A byte less: the distance shrinks by one.
LEMMA GetCount ==
  ASSUME NEW a \in 0..(2^W - 1), NEW b \in 0..(2^W - 1), a # b
  PROVE  Wrap(a - b) > 0 /\ Wrap(a - Wrap(b + 1)) = Wrap(a - b) - 1
<1> DEFINE M == 2^W
<1>1. M \in Nat \ {0} /\ a \in 0..(M - 1) /\ b \in 0..(M - 1)
  BY PipeAssumption
<1>2. /\ Wrap(a - b) = IF a >= b THEN a - b ELSE a - b + M
      /\ Wrap(b + 1) = IF b + 1 < M THEN b + 1 ELSE 0
      /\ Wrap(a - 0) = a
      /\ b + 1 < M => Wrap(a - (b + 1)) = IF a >= b + 1 THEN a - (b + 1) ELSE a - (b + 1) + M
  <2>1. a - b \in Int /\ b + 1 \in Int /\ a - 0 \in Int /\ a - (b + 1) \in Int
    BY <1>1
  <2> QED
    BY <1>1, <2>1, WrapIs
<1> HIDE DEF M
<1> QED
  BY <1>1, <1>2

\* The ring's index does not see the wrap of the counters, because PIPESIZE
\* divides 2^W.
LEMMA SlotOfWrap == ASSUME NEW x \in Int PROVE Wrap(x) % PIPESIZE = x % PIPESIZE
<1> DEFINE M == 2^W
<1>1. M \in Nat \ {0} /\ PIPESIZE \in Nat \ {0} /\ M % PIPESIZE = 0
  BY PipeAssumption
<1> HIDE DEF M
<1>2. (x % M) % PIPESIZE = x % PIPESIZE
  BY <1>1, ModMod
<1> QED
  BY <1>2 DEF M, Wrap

\* Two counters less than PIPESIZE apart have different slots.
LEMMA SlotsDiffer ==
  ASSUME NEW x \in Int, NEW d \in 1..(PIPESIZE - 1)
  PROVE  x % PIPESIZE # (x + d) % PIPESIZE
<1> DEFINE P == PIPESIZE
           q == x \div P
           r == x % P
<1>1. P \in Nat \ {0} /\ d \in 1..(P - 1)
  BY PipeAssumption
<1>2. x = q * P + r /\ q \in Int /\ r \in 0..(P - 1)
  BY <1>1
<1> HIDE DEF P, q, r
<1>3. CASE r + d < P
  <2>1. r + d \in 0..(P - 1) /\ x + d = q * P + (r + d)
    BY <1>1, <1>2, <1>3
  <2>2. (q * P + (r + d)) % P = r + d
    BY <1>1, <1>2, <2>1, ModIs
  <2> QED
    BY <1>1, <1>2, <2>1, <2>2 DEF r, P
<1>4. CASE r + d >= P
  <2>1. r + d - P \in 0..(P - 1) /\ x + d = (q + 1) * P + (r + d - P) /\ q + 1 \in Int
    BY <1>1, <1>2, <1>4
  <2>2. ((q + 1) * P + (r + d - P)) % P = r + d - P
    BY <1>1, <2>1, ModIs
  <2> QED
    BY <1>1, <1>2, <2>1, <2>2 DEF r, P
<1> QED
  BY <1>1, <1>2, <1>3, <1>4
-----------------------------------------------------------------------------
\* What wakeup() does to the places of the processes.
LEMMA WakeupIs ==
  ASSUME NEW S, NEW f \in [Procs -> PC]
  PROVE  /\ wakeup(S, f) \in [Procs -> PC]
         /\ \A p \in Procs : wakeup(S, f)[p] = IF p \in S /\ f[p] = "asleep" THEN "want" ELSE f[p]
  BY DEF wakeup, PC

\* The pipe pipealloc() makes satisfies the invariant.
LEMMA InitIInv == Init => IInv
<1> SUFFICES ASSUME Init PROVE IInv
  OBVIOUS
<1>1. TypeOK
  <2>1. 0 \in 0..(2^W - 1) /\ 0 \in 0..MaxN
    BY PipeAssumption
  <2>2. data \in [0..(PIPESIZE - 1) -> Values]
    BY DEF Init
  <2> QED
    BY <2>1, <2>2, PipeAssumption DEF Init, TypeOK, PC
<1>2. EndsInv
  BY DEF Init, EndsInv
<1>3. WriterInv
  BY DEF Init, WriterInv, Procs
<1>4. ReaderInv
  BY DEF Init, ReaderInv, Procs
<1>5. CountInv
  <2>1. Wrap(0) = 0
    BY PipeAssumption, WrapIs
  <2> QED
    BY <2>1, PipeAssumption DEF Init, CountInv
<1> QED
  BY <1>1, <1>2, <1>3, <1>4, <1>5 DEF IInv

\* A call, and the acquisition of the lock.
LEMMA CallKeeps == ASSUME IInv, NEW p \in Procs, NEW k \in 0..MaxN, Call(p, k) PROVE IInv'
<1> USE DEF IInv, Call, pvars
<1>1. TypeOK'
  BY PipeAssumption DEF TypeOK, PC
<1>2. EndsInv'
  BY DEF EndsInv, TypeOK, Side, Procs
<1>3. WriterInv'
  BY DEF WriterInv, TypeOK, Procs, Full
<1>4. ReaderInv'
  BY DEF ReaderInv, TypeOK, Procs, Empty
<1>5. CountInv'
  BY DEF CountInv
<1> QED
  BY <1>1, <1>2, <1>3, <1>4, <1>5

\* A process gets pi->lock.
LEMMA AcquireKeeps == ASSUME IInv, NEW p \in Procs, acquire(p) PROVE IInv'
<1> USE DEF IInv, acquire, pvars
<1>1. TypeOK'
  BY PipeAssumption DEF TypeOK, PC
<1>2. EndsInv'
  BY DEF EndsInv, TypeOK, Side, Procs
<1>3. WriterInv'
  BY DEF WriterInv, TypeOK, Procs, Full
<1>4. ReaderInv'
  BY DEF ReaderInv, TypeOK, Procs, Empty
<1>5. CountInv'
  BY DEF CountInv
<1> QED
  BY <1>1, <1>2, <1>3, <1>4, <1>5
\* sleep() gives the lock up: what made the process wait still holds.
LEMMA SleepKeeps == ASSUME IInv, NEW p \in Procs, sleep(p) PROVE IInv'
<1> USE DEF IInv, sleep, pvars
<1>1. TypeOK'
  BY PipeAssumption DEF TypeOK, PC
<1>2. EndsInv'
  BY DEF EndsInv, TypeOK, Side, Procs
<1>3. WriterInv'
  BY DEF WriterInv, TypeOK, Procs, Full
<1>4. ReaderInv'
  BY DEF ReaderInv, TypeOK, Procs, Empty
<1>5. CountInv'
  BY DEF CountInv
<1> QED
  BY <1>1, <1>2, <1>3, <1>4, <1>5

\* The lock is held by one process, and an end with a process inside is open.
LEMMA HeldByOne ==
  ASSUME TypeOK, NEW p \in Procs, pc[p] \in {"loop", "copy", "tosleep"}
  PROVE  lock = p /\ \A q \in Procs : q # p => pc[q] \notin {"loop", "copy", "tosleep"}
  BY DEF TypeOK

\* A process inside a call has its end open.
LEMMA OpenInside ==
  ASSUME TypeOK, EndsInv, NEW p \in Procs, pc[p] \in {"want", "loop", "copy", "tosleep", "asleep"}
  PROVE  (p \in Readers => readopen) /\ (p \in Writers => writeopen)
  BY DEF TypeOK, EndsInv

\* A writer leaves when it is killed or no reader is left.
LEMMA WriteErrorKeeps == ASSUME IInv, NEW p \in Procs, pipewrite_error(p) PROVE IInv'
<1> USE DEF IInv, pipewrite_error, pvars, Leave
<1>1. lock = p /\ \A q \in Procs : q # p => pc[q] \notin {"loop", "copy", "tosleep"}
  BY HeldByOne
<1>2. TypeOK'
  BY <1>1, PipeAssumption DEF TypeOK, PC
<1>3. EndsInv'
  BY DEF EndsInv, TypeOK, Side, Procs
<1>4. WriterInv'
  BY <1>1 DEF WriterInv, TypeOK, Procs, Full
<1>5. ReaderInv'
  <2>1. CASE killed[p]
    BY <2>1 DEF ReaderInv
  <2>2. CASE ~readopen
    BY <2>2, PipeAssumption DEF EndsInv, TypeOK, ReaderInv, Procs
  <2> QED
    BY <2>1, <2>2
<1>6. CountInv'
  BY DEF CountInv
<1> QED
  BY <1>2, <1>3, <1>4, <1>5, <1>6

\* A writer that finds the pipe full wakes the readers.
LEMMA WriteFullKeeps == ASSUME IInv, NEW p \in Procs, pipewrite_full(p) PROVE IInv'
<1> USE DEF IInv
<1>1. p \in Writers /\ p \notin Readers /\ pc[p] = "loop" /\ readopen /\ Full /\ UNCHANGED <<pvars, lock, open, killed, n>>
  BY PipeAssumption DEF pipewrite_full
<1>2. /\ pc' \in [Procs -> PC] /\ pc'[p] = "tosleep"
      /\ \A q \in Procs \ {p} : pc'[q] = IF q \in Readers /\ pc[q] = "asleep" THEN "want" ELSE pc[q]
  <2> DEFINE f == [pc EXCEPT ![p] = "tosleep"]
  <2>1. f \in [Procs -> PC] /\ pc' = wakeup(Readers, f)
    BY <1>1 DEF pipewrite_full, FullWakes, TypeOK, PC
  <2>2. f[p] = "tosleep" /\ \A q \in Procs \ {p} : f[q] = pc[q]
    BY DEF TypeOK
  <2> HIDE DEF f
  <2> QED
    BY <2>1, <2>2, WakeupIs
<1>3. lock = p /\ \A q \in Procs : q # p => pc[q] \notin {"loop", "copy", "tosleep"}
  BY <1>1, HeldByOne
<1>4. TypeOK'
  BY <1>1, <1>2, <1>3 DEF TypeOK, pvars
<1>5. EndsInv'
  BY <1>1, <1>2 DEF EndsInv, TypeOK, Side, Procs, pvars
<1>6. WriterInv'
  BY <1>1, <1>2, <1>3 DEF WriterInv, Procs, Full, pvars
<1>7. ReaderInv'
  BY <1>1, <1>2, <1>3 DEF ReaderInv, Procs, Empty, pvars
<1>8. CountInv'
  BY <1>1 DEF CountInv, pvars
<1> QED
  BY <1>4, <1>5, <1>6, <1>7, <1>8

\* So does one whose request is done.
LEMMA WriteDoneKeeps == ASSUME IInv, NEW p \in Procs, pipewrite_done(p) PROVE IInv'
<1> USE DEF IInv
<1>1. p \in Writers /\ p \notin Readers /\ pc[p] = "loop" /\ UNCHANGED <<pvars, open, killed>> /\ lock' = None
      /\ n' = [n EXCEPT ![p] = 0]
  BY PipeAssumption DEF pipewrite_done, Leave
<1>2. /\ pc' \in [Procs -> PC] /\ pc'[p] = "user"
      /\ \A q \in Procs \ {p} : pc'[q] = IF q \in Readers /\ pc[q] = "asleep" THEN "want" ELSE pc[q]
  <2>1. pc \in [Procs -> PC] /\ pc' = [wakeup(Readers, pc) EXCEPT ![p] = "user"]
    BY <1>1 DEF pipewrite_done, Leave, DoneWakes, TypeOK
  <2> QED
    BY <2>1, WakeupIs DEF PC
<1>3. lock = p /\ \A q \in Procs : q # p => pc[q] \notin {"loop", "copy", "tosleep"}
  BY <1>1, HeldByOne
<1>4. TypeOK'
  <2>1. n' \in [Procs -> 0..MaxN]
    BY <1>1, PipeAssumption DEF TypeOK
  <2>2. \A q \in Procs : pc'[q] \in {"loop", "copy", "tosleep"} <=> lock' = q
    BY <1>1, <1>2, <1>3, PipeAssumption
  <2> QED
    BY <1>1, <1>2, <2>1, <2>2 DEF TypeOK, pvars
<1>5. EndsInv'
  BY <1>1, <1>2 DEF EndsInv, TypeOK, Side, Procs, pvars
<1>6. WriterInv'
  BY <1>1, <1>2, <1>3 DEF WriterInv, Procs, Full, pvars
<1>7. ReaderInv'
  BY <1>1, <1>2, <1>3 DEF ReaderInv, Procs, Empty, pvars
<1>8. CountInv'
  BY <1>1 DEF CountInv, pvars
<1> QED
  BY <1>4, <1>5, <1>6, <1>7, <1>8
\* A reader that finds the pipe empty sleeps, or leaves if it is killed.
LEMMA ReadEmptyKeeps == ASSUME IInv, NEW p \in Procs, piperead_empty(p) PROVE IInv'
<1> USE DEF IInv
<1>1. /\ p \in Readers /\ p \notin Writers /\ pc[p] = "loop" /\ Empty /\ writeopen
      /\ UNCHANGED <<pvars, open, killed>>
  BY PipeAssumption DEF piperead_empty, Sleeps
<1>2. \/ lock' = None /\ pc' = [pc EXCEPT ![p] = "user"] /\ n' = [n EXCEPT ![p] = 0]
      \/ lock' = lock /\ pc' = [pc EXCEPT ![p] = "tosleep"] /\ n' = n
  BY DEF piperead_empty, Leave
<1>3. lock = p /\ \A q \in Procs : q # p => pc[q] \notin {"loop", "copy", "tosleep"}
  BY <1>1, HeldByOne
<1>4. TypeOK'
  <2>1. n' \in [Procs -> 0..MaxN] /\ pc' \in [Procs -> PC]
    <3>1. n \in [Procs -> 0..MaxN] /\ pc \in [Procs -> PC] /\ 0 \in 0..MaxN
      BY PipeAssumption DEF TypeOK
    <3> QED
      BY <1>2, <3>1 DEF PC
  <2>2. \A q \in Procs : pc'[q] \in {"loop", "copy", "tosleep"} <=> lock' = q
    BY <1>1, <1>2, <1>3, PipeAssumption DEF TypeOK
  <2>3. lock' \in Procs \cup {None}
    BY <1>2, <1>3
  <2> QED
    BY <1>1, <2>1, <2>2, <2>3 DEF TypeOK, pvars
<1>5. EndsInv'
  BY <1>1, <1>2 DEF EndsInv, TypeOK, Side, Procs, pvars
<1>6. WriterInv'
  BY <1>1, <1>2, <1>3 DEF WriterInv, TypeOK, Procs, Full, pvars
<1>7. ReaderInv'
  BY <1>1, <1>2, <1>3 DEF ReaderInv, TypeOK, Procs, Empty, pvars
<1>8. CountInv'
  BY <1>1 DEF CountInv, pvars
<1> QED
  BY <1>4, <1>5, <1>6, <1>7, <1>8

\* A reader that finds something, or no writer.
LEMMA ReadReadyKeeps == ASSUME IInv, NEW p \in Procs, piperead_ready(p) PROVE IInv'
<1> USE DEF IInv, piperead_ready, pvars
<1>1. lock = p /\ \A q \in Procs : q # p => pc[q] \notin {"loop", "copy", "tosleep"}
  BY HeldByOne
<1>2. TypeOK'
  BY <1>1 DEF TypeOK, PC
<1>3. EndsInv'
  BY DEF EndsInv, TypeOK, Side, Procs
<1>4. WriterInv'
  BY <1>1, PipeAssumption DEF WriterInv, TypeOK, Procs, Full
<1>5. ReaderInv'
  BY <1>1, PipeAssumption DEF ReaderInv, TypeOK, Procs, Empty
<1>6. CountInv'
  BY DEF CountInv
<1> QED
  BY <1>2, <1>3, <1>4, <1>5, <1>6

\* A reader that is done wakes the writers.
LEMMA ReadDoneKeeps == ASSUME IInv, NEW p \in Procs, piperead_done(p) PROVE IInv'
<1> USE DEF IInv
<1>1. /\ p \in Readers /\ p \notin Writers /\ pc[p] = "copy" /\ UNCHANGED <<pvars, open, killed>>
      /\ lock' = None /\ n' = [n EXCEPT ![p] = 0]
  BY PipeAssumption DEF piperead_done, Leave, WriterInv
<1>2. /\ pc' \in [Procs -> PC] /\ pc'[p] = "user"
      /\ \A q \in Procs \ {p} : pc'[q] = IF q \in Writers /\ pc[q] = "asleep" THEN "want" ELSE pc[q]
  <2>1. pc \in [Procs -> PC] /\ pc' = [wakeup(Writers, pc) EXCEPT ![p] = "user"]
    BY <1>1 DEF piperead_done, Leave, ReadWakes, TypeOK
  <2> QED
    BY <2>1, WakeupIs DEF PC
<1>3. lock = p /\ \A q \in Procs : q # p => pc[q] \notin {"loop", "copy", "tosleep"}
  BY <1>1, HeldByOne
<1>4. TypeOK'
  <2>1. n' \in [Procs -> 0..MaxN]
    BY <1>1, PipeAssumption DEF TypeOK
  <2>2. \A q \in Procs : pc'[q] \in {"loop", "copy", "tosleep"} <=> lock' = q
    BY <1>1, <1>2, <1>3, PipeAssumption
  <2> QED
    BY <1>1, <1>2, <2>1, <2>2 DEF TypeOK, pvars
<1>5. EndsInv'
  BY <1>1, <1>2 DEF EndsInv, TypeOK, Side, Procs, pvars
<1>6. WriterInv'
  BY <1>1, <1>2, <1>3 DEF WriterInv, Procs, Full, pvars
<1>7. ReaderInv'
  BY <1>1, <1>2, <1>3 DEF ReaderInv, Procs, Empty, pvars
<1>8. CountInv'
  BY <1>1 DEF CountInv, pvars
<1> QED
  BY <1>4, <1>5, <1>6, <1>7, <1>8
\* The last process of an end goes on to pipeclose().
LEMMA FilecloseKeeps == ASSUME IInv, NEW p \in Procs, fileclose(p) PROVE IInv'
<1> USE DEF IInv
<1>1. /\ p \in open /\ pc[p] = "user" /\ open' = open \ {p}
      /\ UNCHANGED <<pvars, lock, killed, n>>
  BY DEF fileclose
<1>2. /\ pc' \in [Procs -> PC] /\ \A q \in Procs \ {p} : pc'[q] = pc[q]
      /\ pc'[p] = IF open' \cap Side(p) = {} THEN "close" ELSE "gone"
  BY DEF fileclose, TypeOK, PC
<1>3. TypeOK'
  BY <1>1, <1>2, PipeAssumption DEF TypeOK, pvars
<1>4. EndsInv'
  <2>1. \A q \in Procs : q \in open' <=> pc'[q] \notin {"close", "gone"}
    BY <1>1, <1>2 DEF EndsInv
  <2>2. ASSUME NEW q \in Procs, pc'[q] = "close", NEW r \in Side(q) \ {q}
        PROVE  pc'[r] = "gone"
    <3>1. Side(q) \subseteq Procs /\ (p \in Side(q) => Side(p) = Side(q)) /\ (q = p => Side(p) = Side(q)) /\ q \in Side(q)
      BY PipeAssumption DEF Side, Procs
    <3>2. CASE q = p
      <4>1. open' \cap Side(p) = {}
        BY <1>2, <2>2, <3>2
      <4>2. pc[r] \in {"close", "gone"}
        BY <1>1, <2>2, <3>1, <3>2, <4>1 DEF EndsInv
      <4>3. pc[r] # "close"
        <5>1. p \in Side(r) \ {r}
          BY <2>2, <3>1, <3>2, PipeAssumption DEF Side, Procs
        <5> QED
          BY <1>1, <2>2, <3>1, <5>1 DEF EndsInv
      <4> QED
        BY <1>2, <2>2, <3>1, <3>2, <4>2, <4>3
    <3>3. CASE q # p
      <4>1. pc[q] = "close"
        BY <1>2, <2>2, <3>3
      <4>2. pc[r] = "gone"
        BY <2>2, <4>1 DEF EndsInv
      <4> QED
        BY <1>1, <1>2, <2>2, <3>1, <4>2
    <3> QED
      BY <3>2, <3>3
  <2>3. /\ ~readopen' => \A q \in Readers : pc'[q] = "gone"
        /\ ~writeopen' => \A q \in Writers : pc'[q] = "gone"
    BY <1>1, <1>2 DEF EndsInv, Procs, pvars
  <2> QED
    BY <1>1, <2>1, <2>2, <2>3 DEF EndsInv, Side, pvars
<1>5. WriterInv'
  BY <1>1, <1>2 DEF WriterInv, Procs, Full, pvars
<1>6. ReaderInv'
  BY <1>1, <1>2 DEF ReaderInv, Procs, Empty, pvars
<1>7. CountInv'
  BY <1>1 DEF CountInv, pvars
<1> QED
  BY <1>3, <1>4, <1>5, <1>6, <1>7

\* pipeclose() wakes the other side, and frees the page when that is closed.
LEMMA PipecloseKeeps == ASSUME IInv, NEW p \in Procs, pipeclose(p) PROVE IInv'
<1> USE DEF IInv
<1>1. /\ pc[p] = "close" /\ lock = None /\ UNCHANGED <<data, nread, nwrite, lock, open, killed, n>>
      /\ writeopen' = (writeopen /\ p \notin Writers) /\ readopen' = (readopen /\ p \notin Readers)
      /\ freed' = (freed \/ (~readopen' /\ ~writeopen'))
  BY DEF pipeclose, Frees, BothClosed
<1>2. /\ pc' \in [Procs -> PC] /\ pc'[p] = "gone"
      /\ \A q \in Procs \ {p} : pc'[q] = IF q \notin Side(p) /\ pc[q] = "asleep" THEN "want" ELSE pc[q]
  <2> DEFINE f == [pc EXCEPT ![p] = "gone"]
  <2>1. f \in [Procs -> PC] /\ pc' = wakeup(Procs \ Side(p), f)
    BY DEF pipeclose, CloseWakes, TypeOK, PC
  <2>2. f[p] = "gone" /\ \A q \in Procs \ {p} : f[q] = pc[q]
    BY DEF TypeOK
  <2> HIDE DEF f
  <2> QED
    BY <2>1, <2>2, WakeupIs
<1>3. \A q \in Side(p) \ {p} : pc[q] = "gone"
  BY <1>1 DEF EndsInv
<1>4. TypeOK'
  BY <1>1, <1>2, PipeAssumption DEF TypeOK
<1>5. EndsInv'
  BY <1>1, <1>2, <1>3, PipeAssumption DEF EndsInv, TypeOK, Side, Procs
<1>6. WriterInv'
  BY <1>1, <1>2, <1>3, PipeAssumption DEF WriterInv, TypeOK, Side, Procs, Full
<1>7. ReaderInv'
  BY <1>1, <1>2, <1>3, PipeAssumption DEF ReaderInv, TypeOK, Side, Procs, Empty
<1>8. CountInv'
  BY <1>1 DEF CountInv
<1> QED
  BY <1>4, <1>5, <1>6, <1>7, <1>8

\* kill() does not take the lock.
LEMMA KillKeeps == ASSUME IInv, NEW p \in Procs, kill(p) PROVE IInv'
<1> USE DEF IInv
<1>1. /\ killed' = [killed EXCEPT ![p] = TRUE] /\ UNCHANGED <<pvars, lock, open, n>>
      /\ pc' \in [Procs -> PC]
      /\ \A q \in Procs : pc'[q] = pc[q] \/ (pc[q] = "asleep" /\ pc'[q] = "want")
  BY DEF kill, TypeOK, PC
<1>2. TypeOK'
  BY <1>1, PipeAssumption DEF TypeOK, pvars
<1>3. EndsInv'
  BY <1>1 DEF EndsInv, Side, Procs, pvars
<1>4. WriterInv'
  BY <1>1 DEF WriterInv, Procs, Full, pvars
<1>5. ReaderInv'
  <2>1. (\A w \in Writers : ~killed'[w]) => \A w \in Writers : ~killed[w]
    BY <1>1 DEF TypeOK, Procs
  <2> QED
    BY <1>1, <2>1 DEF ReaderInv, Procs, Empty, pvars
<1>6. CountInv'
  BY <1>1 DEF CountInv, pvars
<1> QED
  BY <1>2, <1>3, <1>4, <1>5, <1>6
\* A byte goes in: no writer sleeps, and the readers will be woken.
LEMMA WriteByteKeeps == ASSUME IInv, NEW p \in Procs, NEW ch \in Values, pipewrite_byte(p, ch) PROVE IInv'
<1> USE DEF IInv
<1>1. /\ p \in Writers /\ p \notin Readers /\ pc[p] = "loop" /\ n[p] > 0 /\ ~Full
      /\ data' = [data EXCEPT ![nwrite % PIPESIZE] = ch] /\ nwrite' = Wrap(nwrite + 1)
      /\ n' = [n EXCEPT ![p] = @ - 1]
      /\ UNCHANGED <<nread, readopen, writeopen, freed, lock, open, killed, pc>>
  BY PipeAssumption DEF pipewrite_byte
<1>2. lock = p /\ \A q \in Procs : q # p => pc[q] \notin {"loop", "copy", "tosleep"}
  BY <1>1, HeldByOne
<1>3. TypeOK'
  <2>1. nwrite \in Int /\ nwrite + 1 \in Int /\ nwrite % PIPESIZE \in 0..(PIPESIZE - 1)
    BY PipeAssumption DEF TypeOK
  <2>2. data' \in [0..(PIPESIZE - 1) -> Values] /\ nwrite' \in 0..(2^W - 1)
    BY <1>1, <2>1, WrapRange DEF TypeOK
  <2>3. n' \in [Procs -> 0..MaxN]
    BY <1>1, PipeAssumption DEF TypeOK
  <2> QED
    BY <1>1, <2>2, <2>3 DEF TypeOK
<1>4. EndsInv'
  BY <1>1 DEF EndsInv, Side
<1>5. WriterInv'
  BY <1>1, <1>2 DEF WriterInv, Procs
<1>6. ReaderInv'
  BY <1>1, <1>2 DEF ReaderInv, Procs
<1>7. CountInv'
  <2>1. Wrap(nwrite - nread) < PIPESIZE /\ Wrap(Wrap(nwrite + 1) - nread) = Wrap(nwrite - nread) + 1
    BY <1>1, PutCount DEF TypeOK, CountInv, Full
  <2>2. Wrap(nwrite - nread) \in Int
    BY WrapRange DEF TypeOK
  <2> QED
    BY <1>1, <2>1, <2>2, PipeAssumption DEF CountInv
<1> QED
  BY <1>3, <1>4, <1>5, <1>6, <1>7

\* A byte goes out: no reader sleeps, and the writers will be woken.
LEMMA ReadByteKeeps == ASSUME IInv, NEW p \in Procs, piperead_byte(p) PROVE IInv'
<1> USE DEF IInv
<1>1. /\ p \in Readers /\ p \notin Writers /\ pc[p] = "copy" /\ n[p] > 0 /\ ~Empty
      /\ nread' = Wrap(nread + 1)
      /\ UNCHANGED <<data, nwrite, readopen, writeopen, freed, lock, open, killed, pc>>
  BY PipeAssumption DEF piperead_byte, WriterInv
<1>2. lock = p /\ \A q \in Procs : q # p => pc[q] \notin {"loop", "copy", "tosleep"}
  BY <1>1, HeldByOne
<1>3. TypeOK'
  <2>1. PICK left \in {n[p] - 1, 0} : n' = [n EXCEPT ![p] = left]
    BY DEF piperead_byte
  <2>2. left \in 0..MaxN
    BY <1>1, <2>1, PipeAssumption DEF TypeOK
  <2>3. n' \in [Procs -> 0..MaxN]
    BY <2>1, <2>2 DEF TypeOK
  <2>4. nread' \in 0..(2^W - 1)
    BY <1>1, WrapRange DEF TypeOK
  <2> QED
    BY <1>1, <2>3, <2>4 DEF TypeOK
<1>4. EndsInv'
  BY <1>1 DEF EndsInv, Side
<1>5. WriterInv'
  BY <1>1, <1>2 DEF WriterInv, Procs
<1>6. ReaderInv'
  BY <1>1, <1>2 DEF ReaderInv, Procs
<1>7. CountInv'
  <2>1. Wrap(nwrite - Wrap(nread + 1)) = Wrap(nwrite - nread) - 1
    BY <1>1, GetCount DEF TypeOK, Empty
  <2>2. Wrap(nwrite - nread) \in Int
    BY WrapRange DEF TypeOK
  <2> QED
    BY <1>1, <2>1, <2>2, PipeAssumption DEF CountInv
<1> QED
  BY <1>3, <1>4, <1>5, <1>6, <1>7

\* A step that changes nothing keeps the invariant.
LEMMA StutterKeeps == ASSUME IInv, UNCHANGED vars PROVE IInv'
  BY DEF IInv, vars, pvars, TypeOK, EndsInv, WriterInv, ReaderInv, CountInv, Full, Empty, Side

\* Every step keeps the invariant.
LEMMA NextKeeps == ASSUME IInv, [Next]_vars PROVE IInv'
<1>1. CASE UNCHANGED vars
  BY <1>1, StutterKeeps
<1>2. ASSUME NEW p \in Procs, Step(p) PROVE IInv'
  BY <1>2, AcquireKeeps, SleepKeeps, WriteErrorKeeps, WriteFullKeeps, WriteDoneKeeps, WriteByteKeeps,
     ReadEmptyKeeps, ReadReadyKeeps, ReadByteKeeps, ReadDoneKeeps, PipecloseKeeps DEF Step
<1>3. ASSUME NEW p \in Procs, fileclose(p) \/ kill(p) \/ \E k \in 0..MaxN : Call(p, k) PROVE IInv'
  BY <1>3, FilecloseKeeps, KillKeeps, CallKeeps
<1> QED
  BY <1>1, <1>2, <1>3 DEF Next

\* The conjunction of the properties below with what makes it inductive.
THEOREM Inductive == Spec => []IInv
<1>1. Init => IInv
  BY InitIInv
<1>2. IInv /\ [Next]_vars => IInv'
  BY NextKeeps
<1> QED
  BY <1>1, <1>2, PTL DEF Spec

\* Counters and places stay in their types, and pi->lock is held by exactly the
\* process between acquire() and release().
THEOREM TypeCorrect == Spec => []TypeOK
<1>1. IInv => TypeOK
  BY DEF IInv
<1> QED
  BY <1>1, Inductive, PTL

\* pipewrite() never sleeps through the wakeup of piperead() or pipeclose().
THEOREM WriterWaitsHolds == Spec => []WriterWaits
<1>1. IInv => WriterWaits
  BY PipeAssumption DEF IInv, TypeOK, WriterInv, WriterWaits, Procs
<1> QED
  BY <1>1, Inductive, PTL

\* piperead() never sleeps through the wakeup of pipewrite() or pipeclose(), as
\* long as no writer is killed.
THEOREM ReaderWaitsHolds == Spec => []ReaderWaitsUnlessKilled
<1>1. IInv => ReaderWaitsUnlessKilled
  BY PipeAssumption DEF IInv, TypeOK, ReaderInv, ReaderWaits, ReaderWaitsUnlessKilled, Procs
<1> QED
  BY <1>1, Inductive, PTL

\* pipeclose() frees the page when nobody is in a call on the pipe.
THEOREM NoUseAfterFreeHolds == Spec => []NoUseAfterFree
<1>1. IInv => NoUseAfterFree
  BY DEF IInv, EndsInv, NoUseAfterFree, Inside, Procs
<1> QED
  BY <1>1, Inductive, PTL
-----------------------------------------------------------------------------
\* nwrite is nread and the length of the contents.
LEMMA WriteSlot ==
  ASSUME NEW a \in 0..(2^W - 1), NEW b \in 0..(2^W - 1)
  PROVE  a % PIPESIZE = (b + Wrap(a - b)) % PIPESIZE
<1> DEFINE M == 2^W
<1>1. M \in Nat \ {0} /\ a \in 0..(M - 1) /\ b \in 0..(M - 1)
  BY PipeAssumption
<1>2. Wrap(a - b) = IF a >= b THEN a - b ELSE a - b + M
  <2>1. a - b \in Int
    BY <1>1
  <2> QED
    BY <1>1, <2>1, WrapIs
<1>3. CASE a >= b
  <2>1. b + Wrap(a - b) = a
    BY <1>1, <1>2, <1>3
  <2> QED
    BY <2>1
<1>4. CASE a < b
  <2>1. b + Wrap(a - b) = a + M /\ a + M \in M..(M + M - 1)
    BY <1>1, <1>2, <1>4
  <2>2. Wrap(a + M) = a /\ a + M \in Int
    BY <1>1, <2>1, WrapIs
  <2> QED
    BY <2>1, <2>2, SlotOfWrap
<1> QED
  BY <1>1, <1>3, <1>4

\* The next byte of the reader is in the slot behind.
LEMMA ReadSlot ==
  ASSUME NEW b \in 0..(2^W - 1), NEW k \in 0..(PIPESIZE - 1)
  PROVE  (Wrap(b + 1) + k) % PIPESIZE = (b + 1 + k) % PIPESIZE
<1> DEFINE M == 2^W
<1>1. M \in Nat \ {0} /\ b \in 0..(M - 1) /\ PIPESIZE \in Nat /\ PIPESIZE < M
  BY PipeAssumption
<1>2. CASE b + 1 < M
  BY <1>1, <1>2, WrapIs
<1>3. CASE b + 1 = M
  <2>1. Wrap(b + 1) = 0
    BY <1>1, <1>3, WrapIs
  <2>2. b + 1 + k \in Int /\ b + 1 + k \in M..(M + M - 1)
    BY <1>1, <1>3
  <2>3. Wrap(b + 1 + k) = k
    BY <1>1, <1>3, <2>2, WrapIs
  <2>4. (b + 1 + k) % PIPESIZE = k % PIPESIZE
    BY <2>2, <2>3, SlotOfWrap
  <2> QED
    BY <2>1, <2>4
<1> QED
  BY <1>1, <1>2, <1>3

\* The contents are a sequence of at most PIPESIZE bytes, found in the ring from
\* nread on.
InRing ==
  /\ Wrap(nwrite - nread) \in 0..PIPESIZE
  /\ Contents \in Seq(Values) /\ Len(Contents) = Wrap(nwrite - nread)
  /\ \A k \in 1..Len(Contents) : Contents[k] = data[(nread + k - 1) % PIPESIZE]

\* The contents are what the slots between the counters hold.
LEMMA ContentsIs == IInv => InRing
<1> SUFFICES ASSUME IInv PROVE InRing
  OBVIOUS
<1>1. Wrap(nwrite - nread) \in 0..PIPESIZE
  <2>1. nwrite - nread \in Int
    BY PipeAssumption DEF IInv, TypeOK
  <2> QED
    BY <2>1, WrapRange, PipeAssumption DEF IInv, CountInv
<1> DEFINE c == Wrap(nwrite - nread)
<1>2. \A k \in 1..c : data[(nread + k - 1) % PIPESIZE] \in Values
  <2> TAKE k \in 1..c
  <2>1. nread + k - 1 \in Int
    BY <1>1, PipeAssumption DEF IInv, TypeOK
  <2>2. (nread + k - 1) % PIPESIZE \in 0..(PIPESIZE - 1)
    BY <2>1, PipeAssumption, DivMod
  <2> QED
    BY <2>2 DEF IInv, TypeOK
<1>3. Contents = [k \in 1..c |-> data[(nread + k - 1) % PIPESIZE]]
  BY DEF Contents
<1> HIDE DEF c
<1>4. Contents \in [1..c -> Values] /\ c \in Nat
  BY <1>1, <1>2, <1>3 DEF c
<1>5. Contents \in Seq(Values) /\ Len(Contents) = c
  BY <1>4
<1> QED
  BY <1>1, <1>3, <1>5 DEF c, InRing

\* The same in the next state.
LEMMA ContentsNext == IInv' => InRing'
  BY ContentsIs, PTL

\* A new pipe is an empty queue.
LEMMA FifoInit == Init => fifo!Init
<1> SUFFICES ASSUME Init PROVE Contents = <<>>
  BY DEF fifo!Init
<1>1. IInv
  BY InitIInv
<1>2. Wrap(nwrite - nread) = 0
  BY WrapIs, PipeAssumption DEF Init
<1> QED
  BY <1>1, <1>2, ContentsIs DEF InRing
\* A byte written goes behind the others, to a slot none of them is in.
LEMMA FifoPut ==
  ASSUME IInv, NEW p \in Procs, NEW ch \in Values, pipewrite_byte(p, ch)
  PROVE  fifo!Put
<1> DEFINE c == Wrap(nwrite - nread)
<1>1. IInv'
  BY WriteByteKeeps
<1>2. /\ nread' = nread /\ nwrite' = Wrap(nwrite + 1)
      /\ data' = [data EXCEPT ![nwrite % PIPESIZE] = ch]
      /\ nread \in 0..(2^W - 1) /\ nwrite \in 0..(2^W - 1) /\ nread \in Int
      /\ data \in [0..(PIPESIZE - 1) -> Values]
  BY PipeAssumption DEF pipewrite_byte, IInv, TypeOK
<1>3. c \in 0..(PIPESIZE - 1) /\ Wrap(nwrite' - nread') = c + 1
  <2>1. c < PIPESIZE /\ Wrap(Wrap(nwrite + 1) - nread) = c + 1
    BY <1>2, PutCount DEF pipewrite_byte, IInv, CountInv, Full
  <2>2. c \in 0..PIPESIZE
    BY ContentsIs DEF InRing
  <2> QED
    BY <1>2, <2>1, <2>2, PipeAssumption
<1>4. /\ Contents \in Seq(Values) /\ Len(Contents) = c
      /\ \A k \in 1..c : Contents[k] = data[(nread + k - 1) % PIPESIZE]
  BY ContentsIs DEF InRing
<1>5. /\ Contents' \in Seq(Values) /\ Len(Contents') = c + 1
      /\ \A k \in 1..(c + 1) : Contents'[k] = data'[(nread + k - 1) % PIPESIZE]
  <2>1. /\ Contents' \in Seq(Values) /\ Len(Contents') = Wrap(nwrite' - nread')
        /\ \A k \in 1..Len(Contents') : Contents'[k] = data'[(nread' + k - 1) % PIPESIZE]
    BY <1>1, ContentsNext DEF InRing, Wrap
  <2> QED
    BY <1>2, <1>3, <2>1
<1>6. nwrite % PIPESIZE = (nread + c) % PIPESIZE /\ nwrite % PIPESIZE \in 0..(PIPESIZE - 1)
  <2>1. nwrite \in Int
    BY <1>2, PipeAssumption
  <2> QED
    BY <1>2, <2>1, WriteSlot, PipeAssumption, DivMod
<1> HIDE DEF c
<1>7. Contents'[c + 1] = ch
  <2>1. nread + (c + 1) - 1 = nread + c
    BY <1>2, <1>3
  <2>2. Contents'[c + 1] = data'[(nread + c) % PIPESIZE]
    BY <1>3, <1>5, <2>1
  <2> QED
    BY <1>2, <1>6, <2>2
<1>8. \A k \in 1..c : Contents'[k] = Contents[k]
  <2> TAKE k \in 1..c
  <2>1. nread + k - 1 \in Int /\ c - k + 1 \in 1..(PIPESIZE - 1) /\ nread + k - 1 + (c - k + 1) = nread + c
    BY <1>2, <1>3, PipeAssumption
  <2>2. (nread + k - 1) % PIPESIZE # nwrite % PIPESIZE
    BY <1>6, <2>1, SlotsDiffer
  <2>3. (nread + k - 1) % PIPESIZE \in 0..(PIPESIZE - 1)
    BY <2>1, DivMod, PipeAssumption
  <2>4. data'[(nread + k - 1) % PIPESIZE] = data[(nread + k - 1) % PIPESIZE]
    BY <1>2, <2>2, <2>3
  <2> QED
    BY <1>3, <1>4, <1>5, <2>4
<1>9. Contents' = Append(Contents, ch)
  BY <1>3, <1>4, <1>5, <1>7, <1>8
<1>10. Len(Contents) < PIPESIZE
  BY <1>3, <1>4, PipeAssumption
<1> QED
  BY <1>9, <1>10, Zenon DEF fifo!Put

\* A byte read was the first; the others keep their slots.
LEMMA FifoGet ==
  ASSUME IInv, NEW p \in Procs, piperead_byte(p)
  PROVE  fifo!Get
<1> DEFINE c == Wrap(nwrite - nread)
<1>1. IInv'
  BY ReadByteKeeps
<1>2. /\ nread' = Wrap(nread + 1) /\ nwrite' = nwrite /\ data' = data
      /\ nread \in 0..(2^W - 1) /\ nwrite \in 0..(2^W - 1) /\ nread \in Int /\ nread # nwrite
  BY PipeAssumption DEF piperead_byte, IInv, TypeOK, Empty
<1>3. c \in 1..PIPESIZE /\ Wrap(nwrite' - nread') = c - 1
  <2>1. c > 0 /\ Wrap(nwrite - Wrap(nread + 1)) = c - 1
    BY <1>2, GetCount
  <2>2. c \in 0..PIPESIZE
    BY ContentsIs DEF InRing
  <2> QED
    BY <1>2, <2>1, <2>2, PipeAssumption
<1>4. /\ Contents \in Seq(Values) /\ Len(Contents) = c
      /\ \A k \in 1..c : Contents[k] = data[(nread + k - 1) % PIPESIZE]
  BY ContentsIs DEF InRing
<1>5. /\ Contents' \in Seq(Values) /\ Len(Contents') = c - 1
      /\ \A k \in 1..(c - 1) : Contents'[k] = data[(Wrap(nread + 1) + k - 1) % PIPESIZE]
  <2>1. /\ Contents' \in Seq(Values) /\ Len(Contents') = Wrap(nwrite' - nread')
        /\ \A k \in 1..Len(Contents') : Contents'[k] = data'[(nread' + k - 1) % PIPESIZE]
    BY <1>1, ContentsNext DEF InRing, Wrap
  <2> QED
    BY <1>2, <1>3, <2>1
<1> HIDE DEF c
<1>6. \A k \in 1..(c - 1) : Contents'[k] = Contents[k + 1]
  <2> TAKE k \in 1..(c - 1)
  <2>1. k - 1 \in 0..(PIPESIZE - 1) /\ k + 1 \in 1..c
    BY <1>3, PipeAssumption
  <2>2. (Wrap(nread + 1) + (k - 1)) % PIPESIZE = (nread + 1 + (k - 1)) % PIPESIZE
    BY <1>2, <2>1, ReadSlot
  <2>3. Wrap(nread + 1) \in Int
    BY <1>2, WrapRange, PipeAssumption
  <2>4. Wrap(nread + 1) + k - 1 = Wrap(nread + 1) + (k - 1) /\ nread + 1 + (k - 1) = nread + (k + 1) - 1
    BY <1>2, <2>1, <2>3
  <2> QED
    BY <1>4, <1>5, <2>1, <2>2, <2>4
<1>7. Contents' = Tail(Contents) /\ Contents # <<>>
  BY <1>3, <1>4, <1>5, <1>6
<1> QED
  BY <1>7 DEF fifo!Get

\* The ring of a pipe is a bounded queue, whatever its size and the width of
\* its counters: pipewrite() and piperead() lose, repeat and reorder no byte.
THEOREM Refinement == Spec => IsFifo
<1>1. Init => fifo!Init
  BY FifoInit
<1>2. IInv /\ [Next]_vars => [fifo!Put \/ fifo!Get]_Contents
  <2> SUFFICES ASSUME IInv, [Next]_vars PROVE fifo!Put \/ fifo!Get \/ UNCHANGED Contents
    OBVIOUS
  <2>1. CASE UNCHANGED <<data, nread, nwrite>>
    BY <2>1 DEF Contents, Wrap
  <2>2. CASE \E p \in Procs, ch \in Values : pipewrite_byte(p, ch)
    BY <2>2, FifoPut
  <2>3. CASE \E p \in Procs : piperead_byte(p)
    BY <2>3, FifoGet
  <2>4. \/ UNCHANGED <<data, nread, nwrite>>
        \/ \E p \in Procs, ch \in Values : pipewrite_byte(p, ch)
        \/ \E p \in Procs : piperead_byte(p)
    BY DEF Next, Step, vars, pvars, acquire, sleep, pipewrite_error, pipewrite_full, pipewrite_done,
       piperead_empty, piperead_ready, piperead_done, pipeclose, fileclose, kill, Call
  <2> QED
    BY <2>1, <2>2, <2>3, <2>4
<1> QED
  BY <1>1, <1>2, Inductive, PTL DEF Spec, IsFifo, fifo!Spec
=============================================================================
