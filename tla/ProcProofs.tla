----------------------------- MODULE ProcProofs -----------------------------
(***************************************************************************)
(* The process table is correct for any number of slots and CPUs: a        *)
(* process is on one CPU, sched() holds one lock, no child is forgotten    *)
(* and no process loses its parent.                                        *)
(***************************************************************************)
EXTENDS ProcParents

\* The steps outside the code wait_lock guards: they make no process sleep in
\* wait() and no zombie.
ChildQuiet ==
  /\ parent' = parent
  /\ \A q \in Slots : th[q].at \in HoldsWait \/ th'[q].at \in HoldsWait => th'[q] = th[q]
  /\ \A s \in Slots : state'[s] = "SLEEPING" => state[s] = "SLEEPING" /\ chan'[s] = chan[s]
  /\ \A s \in Slots : state'[s] = "ZOMBIE" => state[s] = "ZOMBIE"

\* They keep ChildInv.
LEMMA ChildQuietKeeps ==
  ASSUME TypeOK, ChildInv, ChildQuiet PROVE ChildInv'
<1>1. \A q \in Slots : Waiting(q)' => Waiting(q) /\ th'[q] = th[q]
  BY DEF ChildQuiet, Waiting, HoldsWait
<1>2. \A q \in Slots : th'[q].at = "wakeup" \/ th[q].at = "wakeup" => th'[q] = th[q]
  BY DEF ChildQuiet, HoldsWait
<1>3. \A q \in Slots : state'[q] = "SLEEPING" => chan'[q] = q /\ \E s \in Slots : parent'[s] = q
  BY DEF ChildQuiet, ChildInv
<1>4. \A q, s \in Slots : state'[q] = "SLEEPING" /\ parent'[s] = q /\ state'[s] = "ZOMBIE" =>
        \E r \in Slots : WillWake(r, q)'
  <2> SUFFICES ASSUME NEW q \in Slots, NEW s \in Slots,
                      state'[q] = "SLEEPING", parent'[s] = q, state'[s] = "ZOMBIE"
               PROVE  \E r \in Slots : WillWake(r, q)'
    OBVIOUS
  <2>1. PICK r \in Slots : WillWake(r, q)
    BY DEF ChildQuiet, ChildInv
  <2> QED
    BY <2>1, <1>2 DEF WillWake
<1>5. \A q, r \in Slots : th'[r].at = "wakeup" /\ th'[r].ret = "zombie" /\ parent'[r] = q
        /\ state'[q] = "SLEEPING" => th'[r].j <= q
  BY <1>2 DEF ChildQuiet, ChildInv
<1>6. \A q \in Slots : th'[q].at = "sleep" \/ (Waiting(q)' /\ th'[q].kids) => \E s \in Slots : parent'[s] = q
  BY <1>1 DEF ChildQuiet, ChildInv, Waiting
<1>7. \A q, s \in Slots : Waiting(q)' /\ Seen(q, s)' /\ parent'[s] = q => state'[s] # "ZOMBIE"
  BY <1>1 DEF ChildQuiet, ChildInv, Seen
<1> QED
  BY <1>3, <1>4, <1>5, <1>6, <1>7 DEF ChildInv

\* While nobody announces a death, no sleeping parent has a zombie.
NoPair == \A q, s \in Slots : state[q] = "SLEEPING" /\ parent[s] = q => state[s] # "ZOMBIE"

\* ChildInv from its parts when only p may be in the code wait_lock guards and
\* it is not in wakeup() afterwards.
LEMMA ChildQuietly ==
  ASSUME TypeOK, NEW p \in Slots,
         NoPair',
         \A q \in Slots \ {p} : th'[q].at \notin HoldsWait, th'[p].at # "wakeup",
         \A q \in Slots : state'[q] = "SLEEPING" => chan'[q] = q /\ \E s \in Slots : parent'[s] = q,
         th'[p].at = "sleep" \/ (Waiting(p)' /\ th'[p].kids) => \E s \in Slots : parent'[s] = p,
         \A s \in Slots : Waiting(p)' /\ Seen(p, s)' /\ parent'[s] = p => state'[s] # "ZOMBIE"
  PROVE  ChildInv'
<1>1. \A q \in Slots : th'[q].at # "wakeup" /\ (Waiting(q)' \/ th'[q].at = "sleep" => q = p)
  BY DEF HoldsWait, Waiting
<1>2. \A q, s \in Slots : ~(state'[q] = "SLEEPING" /\ parent'[s] = q /\ state'[s] = "ZOMBIE")
  BY DEF NoPair
<1> QED
  BY <1>1, <1>2 DEF ChildInv

\* Before a step in the code wait_lock guards, other than wakeup(), there is no
\* such pair.
LEMMA NoPairBefore ==
  ASSUME TypeOK, ChildInv, \A q \in Slots : th[q].at # "wakeup" PROVE NoPair
  BY DEF ChildInv, NoPair, WillWake

\* What the bounds of the table say of the indices of a process.
LEMMA SlotFacts ==
  ASSUME TypeOK, NEW p \in Slots
  PROVE  /\ th \in [Slots -> Threads] /\ th[p] \in Threads /\ state \in [Slots -> States]
         /\ parent \in [Slots -> 0..NPROC] /\ th[p].i \in 1..(NPROC + 1) /\ NPROC \in Nat
         /\ th[p].j \in 1..(NPROC + 1) /\ chan \in [Slots -> 0..NPROC]
         /\ \A k \in 1..(NPROC + 1) : k <= NPROC => k \in Slots
         /\ \A q \in Slots : q # NoProc /\ q \in Int /\ q <= NPROC /\ ~(q < 1) /\ 1 <= q
         /\ initproc \in Slots /\ initproc = 1
<1>1. /\ th \in [Slots -> Threads] /\ state \in [Slots -> States] /\ parent \in [Slots -> 0..NPROC]
      /\ chan \in [Slots -> 0..NPROC]
  BY DEF TypeOK
<1>2. /\ \A q \in Slots : q # NoProc /\ q \in Int /\ q <= NPROC /\ ~(q < 1) /\ 1 <= q
      /\ initproc \in Slots /\ initproc = 1
  BY ProcAssumption DEF Slots, NoProc, initproc
<1> QED
  BY <1>1, <1>2, FieldFacts, ProcAssumption DEF Slots

\* A turn of the loop of allocproc() keeps ChildInv.
LEMMA ChildAlloc ==
  ASSUME TypeOK, CpuInv, WaitInv, ForkInv, ParentInv, ChildInv,
         NEW c \in CPUs, NEW p \in Slots, allocproc(c, p)
  PROVE  ChildInv'
<1>a. /\ th \in [Slots -> Threads] /\ th[p] \in Threads /\ state \in [Slots -> States]
      /\ parent \in [Slots -> 0..NPROC] /\ th[p].i \in 1..(NPROC + 1) /\ NPROC \in Nat
      /\ th[p].j \in 1..(NPROC + 1) /\ chan \in [Slots -> 0..NPROC]
      /\ \A k \in 1..(NPROC + 1) : k <= NPROC => k \in Slots
  BY SlotFacts
<1>b. /\ \A q \in Slots : q # NoProc /\ q \in Int /\ q <= NPROC /\ ~(q < 1) /\ 1 <= q
      /\ initproc \in Slots /\ initproc = 1
  BY SlotFacts
<1>0. On(c, p, "alloc")
  BY AllocEffect
<1>1. th[p].at = "alloc" /\ parent' = parent /\ chan' = chan
  BY <1>0, OnFacts, AllocEffect
<1>2. CASE UNCHANGED state /\ th'[p].at \in {"return", "alloc"} /\ \A q \in Slots \ {p} : th'[q] = th[q]
  BY <1>1, <1>2, ChildQuietKeeps DEF ChildQuiet, HoldsWait
<1>3. CASE \E s \in Slots \ {p} :
             /\ state[s] = "UNUSED" /\ state' = [state EXCEPT ![s] = "USED"]
             /\ \A d \in CPUs : cproc[d] # s
             /\ th'[p].at = "fork_parent" /\ th'[s] = At("forkret")
             /\ \A q \in Slots \ {p, s} : th'[q] = th[q]
  <2>1. PICK s \in Slots \ {p} :
             /\ state[s] = "UNUSED" /\ state' = [state EXCEPT ![s] = "USED"]
             /\ \A d \in CPUs : cproc[d] # s
             /\ th'[p].at = "fork_parent" /\ th'[s] = At("forkret")
             /\ \A q \in Slots \ {p, s} : th'[q] = th[q]
    BY <1>3
  <2>2. th[s].at \notin HoldsWait /\ th'[s].at \notin HoldsWait
    BY <2>1, Holder DEF At, HoldsWait
  <2>3. \A q \in Slots : th[q].at \in HoldsWait \/ th'[q].at \in HoldsWait => th'[q] = th[q]
    BY <1>1, <2>1, <2>2 DEF HoldsWait
  <2>4. \A q \in Slots : state'[q] = IF q = s THEN "USED" ELSE state[q]
    BY <2>1, <1>a
  <2> QED
    BY <1>1, <2>3, <2>4, ChildQuietKeeps DEF ChildQuiet
<1> QED
  BY <1>2, <1>3, AllocEffect

\* So does a turn of the loop of wait().
LEMMA ChildScan ==
  ASSUME TypeOK, CpuInv, WaitInv, ForkInv, ParentInv, ChildInv,
         NEW c \in CPUs, NEW p \in Slots, wait_scan(c, p)
  PROVE  ChildInv'
<1>a. /\ th \in [Slots -> Threads] /\ th[p] \in Threads /\ state \in [Slots -> States]
      /\ parent \in [Slots -> 0..NPROC] /\ th[p].i \in 1..(NPROC + 1) /\ NPROC \in Nat
      /\ th[p].j \in 1..(NPROC + 1) /\ chan \in [Slots -> 0..NPROC]
      /\ \A k \in 1..(NPROC + 1) : k <= NPROC => k \in Slots
  BY SlotFacts
<1>b. /\ \A q \in Slots : q # NoProc /\ q \in Int /\ q <= NPROC /\ ~(q < 1) /\ 1 <= q
      /\ initproc \in Slots /\ initproc = 1
  BY SlotFacts
<1>0. On(c, p, "scan")
  BY ScanEffect
<1>1. th[p].at = "scan" /\ state[p] = "RUNNING"
  BY <1>0, OnFacts
<1>2. \A q \in Slots \ {p} : th'[q] = th[q] /\ th'[q].at \notin HoldsWait
  <2>1. \A q \in Slots \ {p} : th'[q] = th[q]
    BY <1>a, ScanEffect
  <2> QED
    BY <1>1, <2>1, OneHolder DEF HoldsWait
<1>3. NoPair
  <2>1. \A q \in Slots : th[q].at # "wakeup"
    BY <1>1, <1>2 DEF HoldsWait
  <2> QED
    BY <2>1, NoPairBefore
<1>4. CASE UNCHANGED <<state, chan, parent>>
  <2>1. NoPair' /\ \A q \in Slots : state'[q] = "SLEEPING" => chan'[q] = q /\ \E s \in Slots : parent'[s] = q
    BY <1>3, <1>4 DEF NoPair, ChildInv
  <2>2. th'[p].at \in {"nokid", "scan", "return"}
    BY ScanEffect
  <2>3. Waiting(p)' /\ th'[p].kids => \E s \in Slots : parent'[s] = p
    BY <1>1, <1>4, <1>a, ScanEffect DEF ChildInv, Waiting
  <2>4. \A s \in Slots : Waiting(p)' /\ Seen(p, s)' /\ parent'[s] = p => state'[s] # "ZOMBIE"
    <3> SUFFICES ASSUME NEW s \in Slots, Waiting(p)', Seen(p, s)', parent[s] = p
                 PROVE  state[s] # "ZOMBIE"
      BY <1>4
    <3>1. s < th[p].i => state[s] # "ZOMBIE"
      BY <1>1 DEF ChildInv, Waiting, Seen
    <3>2. CASE th'[p].at = "nokid"
      <4>1. th[p].i > NPROC
        BY <3>2, ScanEffect
      <4> QED
        BY <3>1, <4>1, <1>a, <1>b
    <3>3. CASE th'[p].at = "scan"
      <4>1. th'[p].i = th[p].i + 1 /\ (parent[th[p].i] # p \/ state[th[p].i] # "ZOMBIE")
        BY <3>3, ScanEffect
      <4>2. s < th[p].i + 1
        BY <3>3, <4>1 DEF Seen
      <4>3. s < th[p].i \/ s = th[p].i
        BY <4>2, <1>a, <1>b
      <4> QED
        BY <3>1, <4>1, <4>3
    <3> QED
      BY <2>2, <3>2, <3>3 DEF Waiting
  <2> QED
    BY <1>2, <2>1, <2>2, <2>3, <2>4, ChildQuietly
<1>5. CASE /\ th[p].i \in Slots /\ state[th[p].i] = "ZOMBIE" /\ parent[th[p].i] = p
           /\ th'[p].at = "return"
           /\ state' = [state EXCEPT ![th[p].i] = "UNUSED"]
           /\ parent' = [parent EXCEPT ![th[p].i] = NoProc]
           /\ chan' = [chan EXCEPT ![th[p].i] = NoProc]
  <2>1. \A s \in Slots :
          /\ state'[s] = IF s = th[p].i THEN "UNUSED" ELSE state[s]
          /\ parent'[s] = IF s = th[p].i THEN NoProc ELSE parent[s]
          /\ chan'[s] = IF s = th[p].i THEN NoProc ELSE chan[s]
    <3>1. \A s \in Slots : state'[s] = IF s = th[p].i THEN "UNUSED" ELSE state[s]
      BY <1>5, <1>a
    <3>2. \A s \in Slots : parent'[s] = IF s = th[p].i THEN NoProc ELSE parent[s]
      BY <1>5, <1>a
    <3>3. \A s \in Slots : chan'[s] = IF s = th[p].i THEN NoProc ELSE chan[s]
      BY <1>5, <1>a
    <3> QED
      BY <3>1, <3>2, <3>3
  <2>2. NoPair'
    <3> SUFFICES ASSUME NEW q \in Slots, NEW s \in Slots, state'[q] = "SLEEPING", parent'[s] = q
                 PROVE  state'[s] # "ZOMBIE"
      BY DEF NoPair
    <3>1. state[q] = "SLEEPING" /\ parent[s] = q /\ s # th[p].i
      BY <2>1, <1>b
    <3> QED
      BY <1>3, <2>1, <3>1 DEF NoPair
  <2>3. \A q \in Slots : state'[q] = "SLEEPING" => chan'[q] = q /\ \E s \in Slots : parent'[s] = q
    BY <1>1, <1>5, <2>1 DEF ChildInv
  <2> QED
    BY <1>2, <1>5, <2>2, <2>3, ChildQuietly DEF Waiting
<1> QED
  BY <1>4, <1>5, ScanEffect

\* So does a turn of the loop of reparent().
LEMMA ChildReparent ==
  ASSUME TypeOK, CpuInv, WaitInv, ForkInv, ParentInv, ChildInv,
         NEW c \in CPUs, NEW p \in Slots, reparent(c, p)
  PROVE  ChildInv'
<1>a. /\ th \in [Slots -> Threads] /\ th[p] \in Threads /\ state \in [Slots -> States]
      /\ parent \in [Slots -> 0..NPROC] /\ th[p].i \in 1..(NPROC + 1) /\ NPROC \in Nat
      /\ th[p].j \in 1..(NPROC + 1) /\ chan \in [Slots -> 0..NPROC]
      /\ \A k \in 1..(NPROC + 1) : k <= NPROC => k \in Slots
  BY SlotFacts
<1>b. /\ \A q \in Slots : q # NoProc /\ q \in Int /\ q <= NPROC /\ ~(q < 1) /\ 1 <= q
      /\ initproc \in Slots /\ initproc = 1
  BY SlotFacts
<1>0. On(c, p, "reparent")
  BY ReparentEffect
<1>1. th[p].at = "reparent" /\ state[p] = "RUNNING"
  BY <1>0, OnFacts
<1>2. \A q \in Slots \ {p} : th'[q] = th[q] /\ th'[q].at \notin HoldsWait
  <2>1. \A q \in Slots \ {p} : th'[q] = th[q]
    BY <1>a, ReparentEffect
  <2> QED
    BY <1>1, <2>1, OneHolder DEF HoldsWait
<1>3. NoPair
  <2>1. \A q \in Slots : th[q].at # "wakeup"
    BY <1>1, <1>2 DEF HoldsWait
  <2> QED
    BY <2>1, NoPairBefore
<1>4. state' = state /\ chan' = chan
  BY ReparentEffect
<1>5. CASE th'[p].at = "reparent" /\ parent' = parent
  <2>1. NoPair' /\ \A q \in Slots : state'[q] = "SLEEPING" => chan'[q] = q /\ \E s \in Slots : parent'[s] = q
    BY <1>3, <1>4, <1>5 DEF NoPair, ChildInv
  <2> QED
    BY <1>2, <1>5, <2>1, ChildQuietly DEF Waiting
<1>6. CASE th'[p].at = "wakeup" /\ th'[p].j = 1 /\ th'[p].ret = "zombie" /\ parent' = parent
  <2>1. \A q \in Slots : ~Waiting(q)' /\ th'[q].at # "sleep"
    BY <1>2, <1>6 DEF Waiting, HoldsWait
  <2>2. \A q, s \in Slots : ~(state'[q] = "SLEEPING" /\ parent'[s] = q /\ state'[s] = "ZOMBIE")
    BY <1>3, <1>4, <1>6 DEF NoPair
  <2>3. \A q \in Slots : th'[q].at = "wakeup" => th'[q].j = 1
    BY <1>2, <1>6 DEF HoldsWait
  <2> QED
    BY <1>4, <1>6, <2>1, <2>2, <2>3, <1>b DEF ChildInv
<1>7. CASE /\ th[p].i \in Slots /\ parent[th[p].i] = p
           /\ parent' = [parent EXCEPT ![th[p].i] = initproc]
           /\ th'[p].at = "wakeup" /\ th'[p].j = 1 /\ th'[p].chn = initproc
  <2>1. \A q \in Slots : ~Waiting(q)' /\ th'[q].at # "sleep"
    BY <1>2, <1>7 DEF Waiting, HoldsWait
  <2>2. \A s \in Slots : parent'[s] = IF s = th[p].i THEN initproc ELSE parent[s]
    BY <1>7, <1>a
  <2>3. \A q \in Slots : state'[q] = "SLEEPING" => chan'[q] = q /\ \E s \in Slots : parent'[s] = q
    BY <1>1, <1>4, <1>7, <2>2 DEF ChildInv
  <2>4. \A q, s \in Slots : state'[q] = "SLEEPING" /\ parent'[s] = q /\ state'[s] = "ZOMBIE" =>
          \E r \in Slots : WillWake(r, q)'
    <3>1. WillWake(p, initproc)'
      BY <1>7, <1>b DEF WillWake
    <3>2. \A q, s \in Slots : state'[q] = "SLEEPING" /\ parent'[s] = q /\ state'[s] = "ZOMBIE" => q = initproc
      BY <1>3, <1>4, <2>2 DEF NoPair
    <3> QED
      BY <3>1, <3>2
  <2>5. \A q \in Slots : th'[q].at = "wakeup" => th'[q].j = 1
    BY <1>2, <1>7 DEF HoldsWait
  <2> QED
    BY <2>1, <2>3, <2>4, <2>5, <1>b DEF ChildInv
<1> QED
  BY <1>5, <1>6, <1>7, ReparentEffect

\* So does a turn of the loop of wakeup(), after which exit() makes a zombie.
LEMMA ChildWakeup ==
  ASSUME TypeOK, CpuInv, WaitInv, ForkInv, ParentInv, ChildInv,
         NEW c \in CPUs, NEW p \in Slots, wakeup(c, p)
  PROVE  ChildInv'
<1>a. /\ th \in [Slots -> Threads] /\ th[p] \in Threads /\ state \in [Slots -> States]
      /\ parent \in [Slots -> 0..NPROC] /\ th[p].i \in 1..(NPROC + 1) /\ NPROC \in Nat
      /\ th[p].j \in 1..(NPROC + 1) /\ chan \in [Slots -> 0..NPROC]
      /\ \A k \in 1..(NPROC + 1) : k <= NPROC => k \in Slots
  BY SlotFacts
<1>b. /\ \A q \in Slots : q # NoProc /\ q \in Int /\ q <= NPROC /\ ~(q < 1) /\ 1 <= q
      /\ initproc \in Slots /\ initproc = 1
  BY SlotFacts
<1>0. On(c, p, "wakeup")
  BY WakeupEffect
<1>1. th[p].at = "wakeup" /\ state[p] = "RUNNING"
  BY <1>0, OnFacts
<1>2. \A q \in Slots \ {p} : th'[q] = th[q] /\ th'[q].at \notin HoldsWait
  <2>1. \A q \in Slots \ {p} : th'[q] = th[q]
    BY <1>a, WakeupEffect
  <2> QED
    BY <1>1, <2>1, OneHolder DEF HoldsWait
<1>3. chan' = chan /\ parent' = parent
  BY WakeupEffect
<1>4. \A q, s \in Slots : state[q] = "SLEEPING" /\ parent[s] = q /\ state[s] = "ZOMBIE" => WillWake(p, q)
  <2>1. \A q, s \in Slots : state[q] = "SLEEPING" /\ parent[s] = q /\ state[s] = "ZOMBIE" =>
          \E r \in Slots : WillWake(r, q)
    BY DEF ChildInv
  <2>2. \A r \in Slots : th[r].at = "wakeup" => r = p
    BY <1>2 DEF HoldsWait
  <2> QED
    BY <2>1, <2>2 DEF WillWake
<1>5. CASE th[p].j > NPROC /\ th'[p].at = "reparent" /\ state' = state
  <2>1. NoPair'
    BY <1>3, <1>4, <1>5, <1>a, <1>b DEF NoPair, WillWake
  <2>2. th'[p].at # "wakeup" /\ th'[p].at # "sleep" /\ ~Waiting(p)'
    BY <1>5 DEF Waiting
  <2>3. \A q \in Slots : state'[q] = "SLEEPING" => chan'[q] = q /\ \E s \in Slots : parent'[s] = q
    BY <1>3, <1>5 DEF ChildInv
  <2> QED
    BY <1>2, <2>1, <2>2, <2>3, ChildQuietly
<1>6. CASE /\ th[p].j > NPROC /\ th[p].ret # "reparent"
           /\ state' = [state EXCEPT ![p] = "ZOMBIE"] /\ th'[p].at = "zombie"
  <2>1. th'[p].at = "zombie" /\ \A s \in Slots : state'[s] = IF s = p THEN "ZOMBIE" ELSE state[s]
    BY <1>6, <1>a
  <2>2. \A q \in Slots : parent[p] = q => state[q] # "SLEEPING"
    <3>1. th[p].ret = "zombie"
      BY <1>1, <1>6 DEF ParentInv
    <3> QED
      BY <1>1, <1>6, <3>1, <1>a, <1>b DEF ChildInv
  <2>3. NoPair
    BY <1>4, <1>6, <1>a, <1>b DEF NoPair, WillWake
  <2>4. NoPair'
    BY <1>3, <2>1, <2>2, <2>3 DEF NoPair
  <2>5. \A q \in Slots : state'[q] = "SLEEPING" => chan'[q] = q /\ \E s \in Slots : parent'[s] = q
    BY <1>3, <2>1 DEF ChildInv
  <2> QED
    BY <1>2, <2>1, <2>4, <2>5, ChildQuietly DEF Waiting
<1>7. CASE /\ th[p].j \in Slots
           /\ state' = IF th[p].j # p /\ Wakes(th[p].j, th[p].chn)
                       THEN [state EXCEPT ![th[p].j] = "RUNNABLE"] ELSE state
           /\ th'[p].at = "wakeup" /\ th'[p].j = th[p].j + 1
           /\ th'[p].chn = th[p].chn /\ th'[p].ret = th[p].ret
  <2>1. \A q \in Slots : ~Waiting(q)' /\ th'[q].at # "sleep"
    BY <1>2, <1>7 DEF Waiting, HoldsWait
  <2>2. \A s \in Slots : state'[s] = state[s] \/ (state[s] = "SLEEPING" /\ state'[s] = "RUNNABLE")
    BY <1>7, <1>a DEF Wakes
  <2>3. \A q \in Slots : state'[q] = "SLEEPING" /\ th[p].chn = q /\ th[p].j <= q => th[p].j + 1 <= q
    <3>1. \A q \in Slots : state[q] = "SLEEPING" /\ th[p].chn = q /\ th[p].j = q => state'[q] = "RUNNABLE"
      BY <1>1, <1>7, <1>a DEF Wakes, ChildInv
    <3>2. \A q \in Slots : th[p].j <= q => th[p].j = q \/ th[p].j + 1 <= q
      BY <1>a, <1>b
    <3> QED
      BY <2>2, <3>1, <3>2
  <2>4. \A q \in Slots : state'[q] = "SLEEPING" => chan'[q] = q /\ \E s \in Slots : parent'[s] = q
    BY <1>3, <2>2 DEF ChildInv
  <2>5. \A q, s \in Slots : state'[q] = "SLEEPING" /\ parent'[s] = q /\ state'[s] = "ZOMBIE" =>
          WillWake(p, q)'
    BY <1>3, <1>4, <1>7, <2>2, <2>3 DEF WillWake
  <2>6. \A q \in Slots : th'[p].ret = "zombie" /\ parent'[p] = q /\ state'[q] = "SLEEPING" => th'[p].j <= q
    <3>1. th[p].ret = "zombie" => th[p].chn = parent[p]
      BY <1>1 DEF ParentInv
    <3>2. \A q \in Slots : th[p].ret = "zombie" /\ parent[p] = q /\ state[q] = "SLEEPING" => th[p].j <= q
      BY <1>1 DEF ChildInv
    <3> QED
      BY <1>3, <1>7, <2>2, <2>3, <3>1, <3>2
  <2>7. \A q \in Slots \ {p} : th'[q].at # "wakeup"
    BY <1>2 DEF HoldsWait
  <2> QED
    BY <2>1, <2>4, <2>5, <2>6, <2>7 DEF ChildInv
<1>8. At("zombie").at = "zombie"
  BY DEF At
<1> QED
  BY <1>5, <1>6, <1>7, <1>8, WakeupEffect

\* A step keeps ChildInv.
LEMMA ChildStep ==
  ASSUME TypeOK, CpuInv, WaitInv, ForkInv, ParentInv, ChildInv,
         NEW c \in CPUs, NEW p \in Slots, swtch_out(c) \/ Act(c, p)
  PROVE  ChildInv'
<1>a. /\ th \in [Slots -> Threads] /\ th[p] \in Threads /\ state \in [Slots -> States]
      /\ parent \in [Slots -> 0..NPROC] /\ th[p].i \in 1..(NPROC + 1) /\ NPROC \in Nat
      /\ th[p].j \in 1..(NPROC + 1) /\ chan \in [Slots -> 0..NPROC]
      /\ \A k \in 1..(NPROC + 1) : k <= NPROC => k \in Slots
  BY SlotFacts
<1>b. /\ \A q \in Slots : q # NoProc /\ q \in Int /\ q <= NPROC /\ ~(q < 1) /\ 1 <= q
      /\ initproc \in Slots /\ initproc = 1
  BY SlotFacts
<1>1. CASE PlainStep(c, p)
  <2>1. Plain(p)
    BY <1>1, PlainSteps
  <2> QED
    BY <2>1, ChildQuietKeeps DEF Plain, Special, ChildQuiet
<1>2. CASE fork_run(c, p)
  <2>0. On(c, p, "fork_run")
    BY <1>2 DEF fork_run
  <2>1. th[p].at = "fork_run" /\ state[p] = "RUNNING"
    BY <2>0, OnFacts
  <2>2. \A q \in Slots : th[q].at \in HoldsWait \/ th'[q].at \in HoldsWait => th'[q] = th[q]
    BY <1>2, <2>1, <1>a DEF fork_run, HoldsWait, Threads
  <2>3. /\ parent' = parent
        /\ \A s \in Slots : state'[s] = "SLEEPING" => state[s] = "SLEEPING" /\ chan'[s] = chan[s]
        /\ \A s \in Slots : state'[s] = "ZOMBIE" => state[s] = "ZOMBIE"
    BY <1>2, <2>1, <1>a DEF fork_run
  <2> QED
    BY <2>2, <2>3, ChildQuietKeeps DEF ChildQuiet
<1>3. CASE allocproc(c, p)
  BY <1>3, ChildAlloc
<1>4. CASE fork_parent(c, p)
  <2>0. On(c, p, "fork_parent") /\ wait_lock = NoCpu /\ state' = state /\ chan' = chan
    BY <1>4 DEF fork_parent
  <2>1. th[p].at = "fork_parent" /\ state[p] = "RUNNING" /\ Forking(p)
    BY <2>0, OnFacts DEF Forking
  <2>2. th[p].arg \in Slots /\ state[th[p].arg] = "USED" /\ parent[th[p].arg] = NoProc
    BY <2>1 DEF ForkInv
  <2>3. /\ \A q \in Slots : parent'[q] = IF q = th[p].arg THEN p ELSE parent[q]
        /\ \A q \in Slots \ {p} : th'[q] = th[q]
        /\ th'[p].at = "fork_run"
    BY <1>4, <1>a DEF fork_parent, Threads
  <2>4. \A q \in Slots : th[q].at \notin HoldsWait /\ th'[q].at \notin HoldsWait
    BY <2>0, <2>3, OneHolder DEF HoldsWait
  <2>5. NoPair
    BY <2>4, NoPairBefore DEF HoldsWait
  <2>6. NoPair'
    BY <2>0, <2>1, <2>2, <2>3, <2>5 DEF NoPair
  <2>7. \A q \in Slots : state'[q] = "SLEEPING" => chan'[q] = q /\ \E s \in Slots : parent'[s] = q
    BY <2>0, <2>2, <2>3, <1>b DEF ChildInv
  <2> QED
    BY <2>4, <2>6, <2>7, ChildQuietly DEF HoldsWait, Waiting
<1>5. CASE wait(c, p)
  <2>0. wait_lock = NoCpu /\ UNCHANGED <<state, chan, parent>>
    BY <1>5 DEF wait
  <2>1. /\ \A q \in Slots \ {p} : th'[q] = th[q]
        /\ th'[p].at = "scan" /\ th'[p].i = 1 /\ th'[p].kids = FALSE
    BY <1>5, <1>a DEF wait, Go, At
  <2>2. \A q \in Slots : th[q].at \notin HoldsWait
    BY <2>0, OneHolder
  <2>3. NoPair
    BY <2>2, NoPairBefore DEF HoldsWait
  <2>4. NoPair'
    BY <2>0, <2>3 DEF NoPair
  <2>5. \A q \in Slots : state'[q] = "SLEEPING" => chan'[q] = q /\ \E s \in Slots : parent'[s] = q
    BY <2>0 DEF ChildInv
  <2> QED
    <3>1. \A q \in Slots \ {p} : th'[q].at \notin HoldsWait
      BY <2>1, <2>2
    <3>2. \A s \in Slots : ~(Waiting(p)' /\ Seen(p, s)')
      BY <2>1, <1>b DEF Waiting, Seen
    <3> QED
      BY <2>1, <2>4, <2>5, <3>1, <3>2, ChildQuietly
<1>6. CASE exit(c, p)
  <2>0. wait_lock = NoCpu /\ UNCHANGED <<state, chan, parent>>
    BY <1>6 DEF exit
  <2>1. /\ \A q \in Slots \ {p} : th'[q] = th[q]
        /\ th'[p].at = "reparent" /\ th'[p].i = 1 /\ th'[p].kids = FALSE
    BY <1>6, <1>a DEF exit, Go, At
  <2>2. \A q \in Slots : th[q].at \notin HoldsWait
    BY <2>0, OneHolder
  <2>3. NoPair
    BY <2>2, NoPairBefore DEF HoldsWait
  <2>4. NoPair'
    BY <2>0, <2>3 DEF NoPair
  <2>5. \A q \in Slots : state'[q] = "SLEEPING" => chan'[q] = q /\ \E s \in Slots : parent'[s] = q
    BY <2>0 DEF ChildInv
  <2> QED
    <3>1. \A q \in Slots \ {p} : th'[q].at \notin HoldsWait
      BY <2>1, <2>2
    <3>2. \A s \in Slots : ~(Waiting(p)' /\ Seen(p, s)')
      BY <2>1, <1>b DEF Waiting, Seen
    <3> QED
      BY <2>1, <2>4, <2>5, <3>1, <3>2, ChildQuietly
<1>7. CASE wait_scan(c, p)
  BY <1>7, ChildScan
<1>8. CASE wait_nokid(c, p)
  <2>0. On(c, p, "nokid")
    BY <1>8 DEF wait_nokid
  <2>1. th[p].at = "nokid" /\ state[p] = "RUNNING"
    BY <2>0, OnFacts
  <2>2. \A q \in Slots \ {p} : th'[q] = th[q] /\ th'[q].at \notin HoldsWait
    <3>1. \A q \in Slots \ {p} : th'[q] = th[q]
      BY <1>8, <1>a DEF wait_nokid, Go
    <3> QED
      BY <2>1, <3>1, OneHolder DEF HoldsWait
  <2>3. NoPair
    <3>1. \A q \in Slots : th[q].at # "wakeup"
      BY <2>1, <2>2 DEF HoldsWait
    <3> QED
      BY <3>1, NoPairBefore
  <2>4. UNCHANGED <<state, chan, parent>>
    BY <1>8 DEF wait_nokid
  <2>5. th'[p].at = "return" \/ (th'[p].at = "sleep" /\ th[p].kids)
    BY <1>8, <1>a DEF wait_nokid, Go, At
  <2>6. NoPair' /\ \A q \in Slots : state'[q] = "SLEEPING" => chan'[q] = q /\ \E s \in Slots : parent'[s] = q
    BY <2>3, <2>4 DEF NoPair, ChildInv
  <2>7. th'[p].at = "sleep" \/ (Waiting(p)' /\ th'[p].kids) => \E s \in Slots : parent'[s] = p
    BY <2>1, <2>4, <2>5 DEF ChildInv, Waiting
  <2>8. \A s \in Slots : parent'[s] = p => state'[s] # "ZOMBIE"
    BY <2>1, <2>4 DEF ChildInv, Waiting, Seen
  <2> QED
    BY <2>2, <2>5, <2>6, <2>7, <2>8, ChildQuietly
<1>9. CASE sleep(c, p)
  <2>0. On(c, p, "sleep")
    BY <1>9 DEF sleep
  <2>1. th[p].at = "sleep" /\ state[p] = "RUNNING"
    BY <2>0, OnFacts
  <2>2. \A q \in Slots \ {p} : th'[q] = th[q] /\ th'[q].at \notin HoldsWait
    <3>1. \A q \in Slots \ {p} : th'[q] = th[q]
      BY <1>9, <1>a DEF sleep, Go
    <3> QED
      BY <2>1, <3>1, OneHolder DEF HoldsWait
  <2>3. NoPair
    <3>1. \A q \in Slots : th[q].at # "wakeup"
      BY <2>1, <2>2 DEF HoldsWait
    <3> QED
      BY <3>1, NoPairBefore
  <2>4. /\ parent' = parent /\ th'[p].at = "sleep_ret"
        /\ \A q \in Slots : chan'[q] = IF q = p THEN p ELSE chan[q]
        /\ \A q \in Slots : state'[q] = IF q = p THEN "SLEEPING" ELSE state[q]
    BY <1>9, <1>a DEF sleep, Go, At
  <2>5. (\E s \in Slots : parent[s] = p) /\ \A s \in Slots : parent[s] = p => state[s] # "ZOMBIE"
    BY <2>1 DEF ChildInv, Waiting, Seen
  <2>6. NoPair'
    BY <2>3, <2>4, <2>5 DEF NoPair
  <2>7. \A q \in Slots : state'[q] = "SLEEPING" => chan'[q] = q /\ \E s \in Slots : parent'[s] = q
    BY <2>4, <2>5 DEF ChildInv
  <2> QED
    BY <2>2, <2>4, <2>6, <2>7, ChildQuietly DEF Waiting
<1>10. CASE reparent(c, p)
  BY <1>10, ChildReparent
<1>11. CASE wakeup(c, p)
  BY <1>11, ChildWakeup
<1> QED
  BY <1>1, <1>2, <1>3, <1>4, <1>5, <1>6, <1>7, <1>8, <1>9, <1>10, <1>11 DEF Act, PlainStep

-----------------------------------------------------------------------------
\* The state procinit() and userinit() leave satisfies the invariant.
LEMMA InitIInv == Init => IInv
<1> SUFFICES ASSUME Init PROVE IInv
  OBVIOUS
<1>a. At("forkret") \in Threads /\ At("forkret").at = "forkret"
  BY ThreadFacts DEF PC, At
<1>b. /\ NPROC \in Nat \ {0} /\ MaxPid \in Nat /\ NPROC <= MaxPid /\ NoCpu \notin CPUs /\ 0 \in Masks
      /\ 1 \in 0..MaxPid /\ 0 \in 0..MaxPid /\ 0 \in 0..NPROC /\ 2 \in 1..(MaxPid + 1)
      /\ initproc \in Slots /\ \A s \in Slots : s # NoProc
  BY ProcAssumption DEF initproc, Slots, NoProc
<1>c. \A s \in Slots : /\ th[s].at = "forkret" /\ plock[s] = NoCpu /\ parent[s] = NoProc
                       /\ state[s] = IF s = initproc THEN "RUNNABLE" ELSE "UNUSED"
  BY <1>a DEF Init
<1>d. (\A c \in CPUs : cproc[c] = NoProc) /\ wait_lock = NoCpu
  BY DEF Init
<1>1. TypeOK
  BY <1>a, <1>b DEF Init, TypeOK, States, NoProc
<1>2. CpuInv
  BY <1>b, <1>c, <1>d DEF CpuInv, Parked
<1>3. WaitInv
  BY <1>b, <1>d DEF WaitInv
<1>4. ForkInv
  BY <1>c DEF ForkInv, Forking
<1>5. ParentInv
  BY <1>b, <1>c DEF ParentInv, Exiting
<1>6. ChildInv
  BY <1>c DEF ChildInv, Waiting
<1> QED
  BY <1>1, <1>2, <1>3, <1>4, <1>5, <1>6 DEF IInv

\* Every step keeps it.
LEMMA NextIInv == IInv /\ [Next]_vars => IInv'
<1> SUFFICES ASSUME IInv, [Next]_vars PROVE IInv'
  OBVIOUS
<1>a. TypeOK /\ CpuInv /\ WaitInv /\ ForkInv /\ ParentInv /\ ChildInv
  BY DEF IInv
<1>1. CASE UNCHANGED vars
  <2>1. TypeOK' /\ CpuInv'
    BY <1>1, <1>a DEF vars, TypeOK, CpuInv
  <2>2. WaitInv' /\ ForkInv'
    BY <1>1, <1>a DEF vars, WaitInv, ForkInv, Forking
  <2>3. ParentInv' /\ ChildInv'
    BY <1>1, <1>a DEF vars, ParentInv, Exiting, ChildInv, Waiting, Seen, WillWake
  <2> QED
    BY <2>1, <2>2, <2>3 DEF IInv
<1>2. CASE Next
  <2>0. initproc \in Slots
    BY ProcAssumption DEF initproc, Slots
  <2>1. \E c \in CPUs, p \in Slots : swtch_out(c) \/ Act(c, p)
    BY <1>2, <2>0 DEF Next, Act
  <2>2. PICK c \in CPUs, p \in Slots : swtch_out(c) \/ Act(c, p)
    BY <2>1
  <2> QED
    BY <1>a, <2>2, TypeStep, CpuStep, WaitStep, ForkStep, ParentStep, ChildStep DEF IInv
<1> QED
  BY <1>1, <1>2

\* IInv is an invariant of the process table.
THEOREM Inductive == Spec => []IInv
  BY InitIInv, NextIInv, PTL DEF Spec

\* The fields of struct proc, the locks and the kernel threads keep their types.
THEOREM TypeCorrect == Spec => []TypeOK
<1>1. IInv => TypeOK
  BY DEF IInv
<1> QED
  BY <1>1, Inductive, PTL

\* A process is on at most one CPU, and is RUNNING exactly while it is on one,
\* whatever the schedulers pick and whenever sched() gives a CPU up.
THEOREM OneCpuHolds == Spec => []OneCpu
<1>1. IInv => OneCpu
  <2> SUFFICES ASSUME IInv PROVE OneCpu
    OBVIOUS
  <2>1. CpuInv /\ \A s \in Slots : s # NoProc
    BY DEF IInv, Slots, NoProc
  <2> QED
    BY <2>1 DEF CpuInv, OneCpu
<1> QED
  BY <1>1, Inductive, PTL

\* sched() is entered holding one lock: a process that gives the CPU up has
\* released wait_lock.
THEOREM SchedLocksHolds == Spec => []SchedLocks
<1>1. IInv => SchedLocks
  <2> SUFFICES ASSUME IInv PROVE SchedLocks
    OBVIOUS
  <2>1. WaitInv
    BY DEF IInv
  <2> QED
    BY <2>1 DEF WaitInv, SchedLocks, Parked, HoldsWait
<1> QED
  BY <1>1, Inductive, PTL

\* wait() never sleeps without a child, nor while a child of it is a zombie:
\* no exit() goes unnoticed.
THEOREM NoLostChildHolds == Spec => []NoLostChild
<1>1. IInv => NoLostChild
  <2> SUFFICES ASSUME IInv, wait_lock = NoCpu PROVE NoLostChild
    BY DEF NoLostChild
  <2>1. TypeOK /\ CpuInv /\ WaitInv /\ ChildInv
    BY DEF IInv
  <2>2. \A q \in Slots : th[q].at # "wakeup"
    BY <2>1, OneHolder DEF HoldsWait
  <2>3. NoPair
    BY <2>1, <2>2, NoPairBefore
  <2> QED
    BY <2>1, <2>3 DEF ChildInv, NoPair, NoLostChild
<1> QED
  BY <1>1, Inductive, PTL

\* Every process but init has a parent that has not exited.
THEOREM ParentAliveHolds == Spec => []ParentAlive
<1>1. IInv => ParentAlive
  BY DEF IInv, ParentInv, ParentAlive
<1> QED
  BY <1>1, Inductive, PTL
=============================================================================
