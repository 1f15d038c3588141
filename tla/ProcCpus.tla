------------------------------ MODULE ProcCpus ------------------------------
(***************************************************************************)
(* Proofs about the process table: what the steps of its loops do, and     *)
(* that they keep CpuInv, who is on which CPU under which lock.            *)
(***************************************************************************)
EXTENDS ProcTypes

\* A process that runs kernel code holds no p->lock, is RUNNING and on one CPU.
LEMMA OnFacts ==
  ASSUME TypeOK, CpuInv, NEW c \in CPUs, NEW p \in Slots, NEW x, On(c, p, x)
  PROVE  /\ plock[p] = NoCpu /\ state[p] = "RUNNING" /\ x \notin Parked
         /\ cproc[c] = p /\ th[p].at = x
         /\ \A d \in CPUs : cproc[d] = p => d = c
<1>1. cproc[c] = p /\ p # NoProc /\ th[p].at = x /\ plock[p] # c /\ plock[p] \in CPUs \cup {NoCpu}
  BY DEF On, TypeOK
<1>2. \A d \in CPUs : cproc[d] = p => d = c
  BY <1>1 DEF CpuInv
<1>3. plock[p] = NoCpu
  BY <1>1, <1>2 DEF CpuInv
<1> QED
  BY <1>1, <1>2, <1>3 DEF CpuInv

\* A slot with a free lock that is not RUNNING is on no CPU.
LEMMA OffFacts ==
  ASSUME TypeOK, CpuInv, NEW s \in Slots, Free(s), state[s] # "RUNNING"
  PROVE  \A d \in CPUs : cproc[d] # s
<1>1. s # NoProc
  BY DEF Slots, NoProc
<1> QED
  BY <1>1 DEF CpuInv, Free

\* The steps in which a process keeps its CPU and takes no p->lock.
Stays(c, p) ==
  /\ cproc[c] = p /\ plock[p] = NoCpu /\ cproc' = cproc /\ plock' = plock
  /\ \A q \in Slots : state'[q] = "RUNNING" <=> state[q] = "RUNNING"
  /\ \A q \in Slots \ {p} :
       th'[q] = th[q] \/ (th'[q] = At("forkret") /\ \A d \in CPUs : cproc[d] # q)
  /\ th'[p].at \notin Parked

\* The steps in which it takes its lock to give the CPU up.
GivesUp(c, p) ==
  /\ cproc[c] = p /\ plock[p] = NoCpu /\ cproc' = cproc /\ plock' = [plock EXCEPT ![p] = c]
  /\ state'[p] # "RUNNING"
  /\ \A q \in Slots \ {p} : state'[q] = state[q] /\ th'[q] = th[q]
  /\ th'[p].at \in Parked

\* The first kind keeps CpuInv.
LEMMA StaysCpu ==
  ASSUME TypeOK, CpuInv, NEW c \in CPUs, NEW p \in Slots, Stays(c, p) PROVE CpuInv'
<1>1. At("forkret").at \in Parked
  BY DEF At, Parked
<1>2. \A q \in Slots : (\A d \in CPUs : cproc[d] # q) => th'[q].at \in Parked
  BY <1>1 DEF Stays, CpuInv
<1>3. \A q \in Slots : plock[q] # NoCpu => th'[q].at \in Parked
  BY <1>1 DEF Stays, CpuInv
<1>4. \A d \in CPUs : cproc[d] # NoProc /\ plock[cproc[d]] = NoCpu => th'[cproc[d]].at \notin Parked
  <2> SUFFICES ASSUME NEW d \in CPUs, cproc[d] # NoProc, plock[cproc[d]] = NoCpu
               PROVE  th'[cproc[d]].at \notin Parked
    OBVIOUS
  <2>1. cproc[d] \in Slots
    BY ProcAssumption DEF TypeOK, Slots, NoProc
  <2> QED
    BY <2>1 DEF Stays, CpuInv
<1>5. \A d \in CPUs : cproc[d] # NoProc => cproc[d] \in Slots
  BY ProcAssumption DEF TypeOK, Slots, NoProc
<1> QED
  BY <1>2, <1>3, <1>4, <1>5 DEF Stays, CpuInv

\* The second kind keeps CpuInv as well.
LEMMA GivesUpCpu ==
  ASSUME TypeOK, CpuInv, NEW c \in CPUs, NEW p \in Slots, GivesUp(c, p) PROVE CpuInv'
<1>1. p # NoProc /\ NoCpu \notin CPUs
  BY ProcAssumption DEF Slots, NoProc
<1>2. \A q \in Slots : plock'[q] = IF q = p THEN c ELSE plock[q]
  BY DEF GivesUp, TypeOK
<1>3. \A d \in CPUs : cproc[d] # NoProc => cproc[d] \in Slots
  BY ProcAssumption DEF TypeOK, Slots, NoProc
<1>4. \A q \in Slots : plock'[q] # NoCpu => cproc'[plock'[q]] = q /\ th'[q].at \in Parked
  BY <1>1, <1>2 DEF GivesUp, CpuInv
<1>5. \A d \in CPUs : cproc'[d] # NoProc /\ plock'[cproc'[d]] = NoCpu =>
        state'[cproc'[d]] = "RUNNING" /\ th'[cproc'[d]].at \notin Parked
  BY <1>1, <1>2, <1>3 DEF GivesUp, CpuInv
<1>6. \A q \in Slots : state'[q] = "RUNNING" => \E d \in CPUs : cproc'[d] = q
  BY DEF GivesUp, CpuInv
<1>7. \A q \in Slots : (\A d \in CPUs : cproc'[d] # q) => th'[q].at \in Parked
  BY DEF GivesUp, CpuInv
<1> QED
  BY <1>4, <1>5, <1>6, <1>7 DEF GivesUp, CpuInv

\* What one step of the loop of wait() does.
LEMMA ScanEffect ==
  ASSUME TypeOK, NEW c \in CPUs, NEW p \in Slots, wait_scan(c, p)
  PROVE  /\ On(c, p, "scan") /\ plock' = plock /\ cproc' = cproc
         /\ \A q \in Slots \ {p} : th'[q] = th[q]
         /\ \/ /\ th[p].i > NPROC /\ th'[p].at = "nokid" /\ th'[p].kids = th[p].kids
               /\ UNCHANGED <<state, chan, parent, wait_lock>>
            \/ /\ th[p].i \in Slots /\ parent[th[p].i] # p
               /\ th'[p].at = "scan" /\ th'[p].i = th[p].i + 1 /\ th'[p].kids = th[p].kids
               /\ UNCHANGED <<state, chan, parent, wait_lock>>
            \/ /\ th[p].i \in Slots /\ parent[th[p].i] = p /\ state[th[p].i] # "ZOMBIE"
               /\ th'[p].at = "scan" /\ th'[p].i = th[p].i + 1
               /\ UNCHANGED <<state, chan, parent, wait_lock>>
            \/ /\ th[p].i \in Slots /\ state[th[p].i] = "ZOMBIE" /\ parent[th[p].i] = p
               /\ th'[p].at = "return" /\ wait_lock' = NoCpu
               /\ \/ UNCHANGED <<state, chan, parent>>
                  \/ /\ state' = [state EXCEPT ![th[p].i] = "UNUSED"]
                     /\ parent' = [parent EXCEPT ![th[p].i] = NoProc]
                     /\ chan' = [chan EXCEPT ![th[p].i] = NoProc]
<1>b. On(c, p, "scan") /\ plock' = plock /\ cproc' = cproc
  BY DEF wait_scan
<1>a. /\ th \in [Slots -> Threads] /\ th[p] \in Threads /\ th[p].at = "scan" /\ NPROC \in Nat
      /\ th[p].i \in 1..(NPROC + 1) /\ (th[p].i <= NPROC => th[p].i \in Slots)
  <2>1. th \in [Slots -> Threads] /\ th[p].at = "scan"
    BY <1>b DEF TypeOK, On
  <2> QED
    BY <2>1, FieldFacts, ProcAssumption DEF Slots
<1>c. \A q \in Slots \ {p} : th'[q] = th[q]
  BY <1>a DEF wait_scan, Go
<1>1. CASE th[p].i > NPROC
  <2>1. th' = [th EXCEPT ![p].at = "nokid"] /\ UNCHANGED <<state, chan, parent, wait_lock>>
    BY <1>1, <1>a DEF wait_scan
  <2> QED
    BY <1>1, <1>a, <1>b, <1>c, <2>1 DEF Threads
<1>2. CASE th[p].i <= NPROC /\ parent[th[p].i] # p
  <2>1. th' = [th EXCEPT ![p].i = th[p].i + 1] /\ UNCHANGED <<state, chan, parent, wait_lock>>
    BY <1>2, <1>a DEF wait_scan
  <2> QED
    BY <1>2, <1>a, <1>b, <1>c, <2>1 DEF Threads
<1>3. CASE th[p].i <= NPROC /\ parent[th[p].i] = p /\ state[th[p].i] # "ZOMBIE"
  <2>1. /\ th' = [th EXCEPT ![p] = [th[p] EXCEPT !.i = th[p].i + 1, !.kids = TRUE]]
        /\ UNCHANGED <<state, chan, parent, wait_lock>>
    BY <1>3, <1>a DEF wait_scan
  <2>2. th'[p] = [th[p] EXCEPT !.i = th[p].i + 1, !.kids = TRUE]
    BY <2>1, <1>a
  <2>3. th'[p].at = "scan" /\ th'[p].i = th[p].i + 1
    BY <2>2, <1>a DEF Threads
  <2> QED
    BY <1>3, <1>a, <1>b, <1>c, <2>1, <2>3
<1>4. CASE th[p].i <= NPROC /\ parent[th[p].i] = p /\ state[th[p].i] = "ZOMBIE"
  <2>1. th' = [th EXCEPT ![p] = At("return")] /\ wait_lock' = NoCpu /\ Free(th[p].i)
    BY <1>4, <1>a DEF wait_scan, Go
  <2>2. \/ UNCHANGED <<state, chan, parent>>
        \/ /\ state' = [state EXCEPT ![th[p].i] = "UNUSED"]
           /\ parent' = [parent EXCEPT ![th[p].i] = NoProc]
           /\ chan' = [chan EXCEPT ![th[p].i] = NoProc]
    BY <1>4, <1>a DEF wait_scan
  <2>3. th'[p].at = "return"
    BY <2>1, <1>a DEF At
  <2> QED
    BY <1>4, <1>a, <1>b, <1>c, <2>1, <2>2, <2>3
<1> QED
  BY <1>a, <1>1, <1>2, <1>3, <1>4

\* What one step of the loop of reparent() does.
LEMMA ReparentEffect ==
  ASSUME TypeOK, NEW c \in CPUs, NEW p \in Slots, reparent(c, p)
  PROVE  /\ On(c, p, "reparent") /\ UNCHANGED <<state, chan, plock, wait_lock, cproc>>
         /\ \A q \in Slots \ {p} : th'[q] = th[q]
         /\ \/ /\ th[p].i > NPROC /\ UNCHANGED parent
               /\ th'[p].at = "wakeup" /\ th'[p].i = th[p].i /\ th'[p].j = 1
               /\ th'[p].chn = parent[p] /\ th'[p].ret = "zombie"
            \/ /\ th[p].i \in Slots /\ parent[th[p].i] = p
               /\ parent' = [parent EXCEPT ![th[p].i] = initproc]
               /\ th'[p].at = "wakeup" /\ th'[p].i = th[p].i + 1 /\ th'[p].j = 1
               /\ th'[p].chn = initproc /\ th'[p].ret = "reparent"
            \/ /\ th[p].i \in Slots /\ parent[th[p].i] # p /\ UNCHANGED parent
               /\ th'[p].at = "reparent" /\ th'[p].i = th[p].i + 1
<1>a. /\ th \in [Slots -> Threads] /\ th[p] \in Threads /\ th[p].at = "reparent" /\ NPROC \in Nat
      /\ th[p].i \in 1..(NPROC + 1) /\ (th[p].i <= NPROC => th[p].i \in Slots)
  BY FieldFacts, ProcAssumption DEF TypeOK, Slots, reparent, On
<1>b. On(c, p, "reparent") /\ UNCHANGED <<state, chan, plock, wait_lock, cproc>>
  BY DEF reparent
<1>c. \A q \in Slots \ {p} : th'[q] = th[q]
  BY <1>a DEF reparent
<1>1. CASE th[p].i > NPROC
  <2>1. UNCHANGED parent /\ th'[p] = [th[p] EXCEPT !.at = "wakeup", !.j = 1, !.chn = parent[p], !.ret = "zombie"]
    BY <1>1, <1>a DEF reparent, DoneReparent
  <2> QED
    BY <1>1, <1>a, <1>b, <1>c, <2>1 DEF Threads
<1>2. CASE th[p].i <= NPROC /\ parent[th[p].i] = p
  <2>1. /\ parent' = [parent EXCEPT ![th[p].i] = initproc]
        /\ th'[p] = [th[p] EXCEPT !.at = "wakeup", !.i = th[p].i + 1, !.j = 1, !.chn = initproc, !.ret = "reparent"]
    BY <1>2, <1>a DEF reparent, DoneReparent
  <2> QED
    BY <1>2, <1>a, <1>b, <1>c, <2>1 DEF Threads
<1>3. CASE th[p].i <= NPROC /\ parent[th[p].i] # p
  <2>1. UNCHANGED parent /\ th'[p] = [th[p] EXCEPT !.i = th[p].i + 1]
    BY <1>3, <1>a DEF reparent, DoneReparent
  <2> QED
    BY <1>3, <1>a, <1>b, <1>c, <2>1 DEF Threads
<1> QED
  BY <1>a, <1>1, <1>2, <1>3

\* What one step of the loop of wakeup() does, and what exit() does after it.
LEMMA WakeupEffect ==
  ASSUME TypeOK, NEW c \in CPUs, NEW p \in Slots, wakeup(c, p)
  PROVE  /\ On(c, p, "wakeup") /\ UNCHANGED <<chan, parent, cproc>>
         /\ \A q \in Slots \ {p} : th'[q] = th[q]
         /\ \/ /\ th[p].j > NPROC /\ th[p].ret = "reparent" /\ UNCHANGED <<state, plock, wait_lock>>
               /\ th'[p].at = "reparent" /\ th'[p].i = th[p].i
            \/ /\ th[p].j > NPROC /\ th[p].ret # "reparent"
               /\ plock' = [plock EXCEPT ![p] = c] /\ wait_lock' = NoCpu
               /\ state' = [state EXCEPT ![p] = "ZOMBIE"] /\ th'[p] = At("zombie")
            \/ /\ th[p].j \in Slots /\ UNCHANGED <<plock, wait_lock>>
               /\ state' = IF th[p].j # p /\ Wakes(th[p].j, th[p].chn)
                           THEN [state EXCEPT ![th[p].j] = "RUNNABLE"] ELSE state
               /\ th'[p].at = "wakeup" /\ th'[p].i = th[p].i /\ th'[p].j = th[p].j + 1
               /\ th'[p].chn = th[p].chn /\ th'[p].ret = th[p].ret
<1>a. /\ th \in [Slots -> Threads] /\ th[p] \in Threads /\ th[p].at = "wakeup" /\ NPROC \in Nat
      /\ th[p].j \in 1..(NPROC + 1) /\ (th[p].j <= NPROC => th[p].j \in Slots)
  BY FieldFacts, ProcAssumption DEF TypeOK, Slots, wakeup, On
<1>b. On(c, p, "wakeup") /\ UNCHANGED <<chan, parent, cproc>>
  BY DEF wakeup
<1>c. \A q \in Slots \ {p} : th'[q] = th[q]
  BY <1>a DEF wakeup, Go
<1>1. CASE th[p].j > NPROC /\ th[p].ret = "reparent"
  <2>1. UNCHANGED <<state, plock, wait_lock>> /\ th'[p] = [th[p] EXCEPT !.at = "reparent"]
    BY <1>1, <1>a DEF wakeup
  <2> QED
    BY <1>1, <1>a, <1>b, <1>c, <2>1 DEF Threads
<1>2. CASE th[p].j > NPROC /\ th[p].ret # "reparent"
  <2>1. /\ plock' = [plock EXCEPT ![p] = c] /\ wait_lock' = NoCpu
        /\ state' = [state EXCEPT ![p] = "ZOMBIE"] /\ th'[p] = At("zombie")
    BY <1>2, <1>a DEF wakeup, Go
  <2> QED
    BY <1>2, <1>a, <1>b, <1>c, <2>1
<1>3. CASE th[p].j <= NPROC
  <2>1. /\ UNCHANGED <<plock, wait_lock>> /\ th'[p] = [th[p] EXCEPT !.j = th[p].j + 1]
        /\ state' = IF th[p].j # p /\ Wakes(th[p].j, th[p].chn)
                    THEN [state EXCEPT ![th[p].j] = "RUNNABLE"] ELSE state
    BY <1>3, <1>a DEF wakeup
  <2> QED
    BY <1>3, <1>a, <1>b, <1>c, <2>1 DEF Threads
<1> QED
  BY <1>a, <1>1, <1>2, <1>3

\* What one step of the loop of allocproc() does.
LEMMA AllocEffect ==
  ASSUME TypeOK, CpuInv, NEW c \in CPUs, NEW p \in Slots, allocproc(c, p)
  PROVE  /\ On(c, p, "alloc") /\ UNCHANGED <<chan, parent, plock, wait_lock, cproc>>
         /\ \/ /\ UNCHANGED state /\ th'[p].at \in {"return", "alloc"}
               /\ \A q \in Slots \ {p} : th'[q] = th[q]
            \/ \E s \in Slots \ {p} :
                 /\ state[s] = "UNUSED" /\ state' = [state EXCEPT ![s] = "USED"]
                 /\ \A d \in CPUs : cproc[d] # s
                 /\ th'[p].at = "fork_parent" /\ th'[p].arg = s /\ th'[s] = At("forkret")
                 /\ \A q \in Slots \ {p, s} : th'[q] = th[q]
<1>a. /\ th \in [Slots -> Threads] /\ th[p] \in Threads /\ th[p].at = "alloc" /\ NPROC \in Nat
      /\ th[p].i \in 1..(NPROC + 1) /\ (th[p].i <= NPROC => th[p].i \in Slots)
  BY FieldFacts, ProcAssumption DEF TypeOK, Slots, allocproc, On
<1>b. On(c, p, "alloc") /\ UNCHANGED <<chan, parent, plock, wait_lock, cproc>>
  BY DEF allocproc
<1>c. state[p] = "RUNNING"
  BY <1>b, OnFacts
<1>1. CASE Go(p, "return") /\ UNCHANGED state
  <2>1. th'[p].at = "return" /\ \A q \in Slots \ {p} : th'[q] = th[q]
    BY <1>1, <1>a DEF Go, At
  <2> QED
    BY <1>1, <1>b, <2>1
<1>2. CASE th' = [th EXCEPT ![p].i = th[p].i + 1] /\ UNCHANGED state
  <2>1. th'[p].at = "alloc" /\ \A q \in Slots \ {p} : th'[q] = th[q]
    BY <1>2, <1>a DEF Threads
  <2> QED
    BY <1>2, <1>b, <2>1
<1>3. CASE /\ th[p].i \in Slots /\ Free(th[p].i) /\ state[th[p].i] = "UNUSED"
           /\ state' = [state EXCEPT ![th[p].i] = "USED"]
           /\ th' = [th EXCEPT ![p] = [At("fork_parent") EXCEPT !.arg = th[p].i],
                               ![th[p].i] = At("forkret")]
  <2> DEFINE s == th[p].i
  <2>1. s \in Slots \ {p} /\ \A d \in CPUs : cproc[d] # s
    BY <1>3, <1>c, OffFacts
  <2>2. th'[p] = [At("fork_parent") EXCEPT !.arg = s] /\ th'[s] = At("forkret")
    BY <1>3, <1>a, <2>1
  <2>3. th'[p].at = "fork_parent" /\ th'[p].arg = s
    BY <2>2 DEF At
  <2>4. \A q \in Slots \ {p, s} : th'[q] = th[q]
    BY <1>3, <1>a
  <2> HIDE DEF s
  <2> QED
    BY <1>3, <1>b, <2>1, <2>2, <2>3, <2>4 DEF s
<1> QED
  BY <1>a, <1>1, <1>2, <1>3 DEF allocproc

\* Every step of a process is of one of these kinds.
LEMMA Kinds ==
  ASSUME TypeOK, CpuInv, ForkInv, NEW c \in CPUs, NEW p \in Slots, Act(c, p)
  PROVE  Stays(c, p) \/ GivesUp(c, p) \/ scheduler(c, p) \/ resume(c, p)
<1>a. th \in [Slots -> Threads] /\ th[p] \in Threads /\ state \in [Slots -> States]
  BY FieldFacts DEF TypeOK
<1>b. th[p].i \in 1..(NPROC + 1) /\ NPROC \in Nat /\ \A k \in 1..(NPROC + 1) : k <= NPROC => k \in Slots
  BY FieldFacts, ProcAssumption DEF Slots
<1>c. At("forkret").at = "forkret" /\ At("zombie").at = "zombie"
  BY DEF At
<1>1. CASE fork_parent(c, p)
  <2>1. On(c, p, "fork_parent")
    BY <1>1 DEF fork_parent
  <2>2. /\ plock[p] = NoCpu /\ cproc[c] = p /\ cproc' = cproc /\ plock' = plock
        /\ th[p].at = "fork_parent"
    BY <1>1, <2>1, OnFacts DEF fork_parent
  <2>3. \A q \in Slots : state'[q] = "RUNNING" <=> state[q] = "RUNNING"
    BY <1>1 DEF fork_parent
  <2>4. \A q \in Slots \ {p} : th'[q] = th[q]
    BY <1>1, <1>a DEF fork_parent
  <2>5. th'[p].at \notin Parked
    BY <1>1, <2>2, <1>a DEF fork_parent, Parked, Threads
  <2> QED
    BY <2>2, <2>3, <2>4, <2>5 DEF Stays
<1>2. CASE fork_run(c, p)
  <2>1. On(c, p, "fork_run")
    BY <1>2 DEF fork_run
  <2>2. /\ plock[p] = NoCpu /\ cproc[c] = p /\ cproc' = cproc /\ plock' = plock
        /\ th[p].at = "fork_run"
    BY <1>2, <2>1, OnFacts DEF fork_run
  <2>3. \A q \in Slots : state'[q] = "RUNNING" <=> state[q] = "RUNNING"
    BY <1>2, <2>2, <1>a, <1>b DEF fork_run, ForkInv, Forking
  <2>4. \A q \in Slots \ {p} : th'[q] = th[q]
    BY <1>2, <1>a DEF fork_run
  <2>5. th'[p].at \notin Parked
    BY <1>2, <2>2, <1>a DEF fork_run, Parked, Threads
  <2> QED
    BY <2>2, <2>3, <2>4, <2>5 DEF Stays
<1>3. CASE fork_mask(c, p)
  <2>1. On(c, p, "fork_mask")
    BY <1>3 DEF fork_mask
  <2>2. /\ plock[p] = NoCpu /\ cproc[c] = p /\ cproc' = cproc /\ plock' = plock
        /\ th[p].at = "fork_mask"
    BY <1>3, <2>1, OnFacts DEF fork_mask
  <2>3. \A q \in Slots : state'[q] = "RUNNING" <=> state[q] = "RUNNING"
    BY <1>3 DEF fork_mask
  <2>4. \A q \in Slots \ {p} : th'[q] = th[q]
    BY <1>3, <1>a DEF fork_mask, Go, At
  <2>5. th'[p].at \notin Parked
    BY <1>3, <2>2, <1>a DEF fork_mask, Go, At, Parked, Threads
  <2> QED
    BY <2>2, <2>3, <2>4, <2>5 DEF Stays
<1>4. CASE wait(c, p)
  <2>1. On(c, p, "wait")
    BY <1>4 DEF wait
  <2>2. /\ plock[p] = NoCpu /\ cproc[c] = p /\ cproc' = cproc /\ plock' = plock
        /\ th[p].at = "wait"
    BY <1>4, <2>1, OnFacts DEF wait
  <2>3. \A q \in Slots : state'[q] = "RUNNING" <=> state[q] = "RUNNING"
    BY <1>4 DEF wait
  <2>4. \A q \in Slots \ {p} : th'[q] = th[q]
    BY <1>4, <1>a DEF wait, Go, At
  <2>5. th'[p].at \notin Parked
    BY <1>4, <2>2, <1>a DEF wait, Go, At, Parked, Threads
  <2> QED
    BY <2>2, <2>3, <2>4, <2>5 DEF Stays
<1>5. CASE wait_nokid(c, p)
  <2>1. On(c, p, "nokid")
    BY <1>5 DEF wait_nokid
  <2>2. /\ plock[p] = NoCpu /\ cproc[c] = p /\ cproc' = cproc /\ plock' = plock
        /\ th[p].at = "nokid"
    BY <1>5, <2>1, OnFacts DEF wait_nokid
  <2>3. \A q \in Slots : state'[q] = "RUNNING" <=> state[q] = "RUNNING"
    BY <1>5 DEF wait_nokid
  <2>4. \A q \in Slots \ {p} : th'[q] = th[q]
    BY <1>5, <1>a DEF wait_nokid, Go, At
  <2>5. th'[p].at \notin Parked
    BY <1>5, <2>2, <1>a DEF wait_nokid, Go, At, Parked, Threads
  <2> QED
    BY <2>2, <2>3, <2>4, <2>5 DEF Stays
<1>6. CASE exit(c, p)
  <2>1. On(c, p, "exit")
    BY <1>6 DEF exit
  <2>2. /\ plock[p] = NoCpu /\ cproc[c] = p /\ cproc' = cproc /\ plock' = plock
        /\ th[p].at = "exit"
    BY <1>6, <2>1, OnFacts DEF exit
  <2>3. \A q \in Slots : state'[q] = "RUNNING" <=> state[q] = "RUNNING"
    BY <1>6 DEF exit
  <2>4. \A q \in Slots \ {p} : th'[q] = th[q]
    BY <1>6, <1>a DEF exit, Go, At
  <2>5. th'[p].at \notin Parked
    BY <1>6, <2>2, <1>a DEF exit, Go, At, Parked, Threads
  <2> QED
    BY <2>2, <2>3, <2>4, <2>5 DEF Stays
<1>7. CASE syscall(c, p)
  <2>1. On(c, p, "user")
    BY <1>7 DEF syscall
  <2>2. /\ plock[p] = NoCpu /\ cproc[c] = p /\ cproc' = cproc /\ plock' = plock
        /\ th[p].at = "user"
    BY <1>7, <2>1, OnFacts DEF syscall
  <2>3. \A q \in Slots : state'[q] = "RUNNING" <=> state[q] = "RUNNING"
    BY <1>7 DEF syscall
  <2>4. \A q \in Slots \ {p} : th'[q] = th[q]
    BY <1>7, <1>a DEF syscall, Go, At
  <2>5. th'[p].at \notin Parked
    BY <1>7, <2>2, <1>a DEF syscall, Go, At, Parked, Threads
  <2> QED
    BY <2>2, <2>3, <2>4, <2>5 DEF Stays
<1>8. CASE usertrapret(c, p)
  <2>1. On(c, p, "return")
    BY <1>8 DEF usertrapret
  <2>2. /\ plock[p] = NoCpu /\ cproc[c] = p /\ cproc' = cproc /\ plock' = plock
        /\ th[p].at = "return"
    BY <1>8, <2>1, OnFacts DEF usertrapret
  <2>3. \A q \in Slots : state'[q] = "RUNNING" <=> state[q] = "RUNNING"
    BY <1>8 DEF usertrapret
  <2>4. \A q \in Slots \ {p} : th'[q] = th[q]
    BY <1>8, <1>a DEF usertrapret, Go, At
  <2>5. th'[p].at \notin Parked
    BY <1>8, <2>2, <1>a DEF usertrapret, Go, At, Parked, Threads
  <2> QED
    BY <2>2, <2>3, <2>4, <2>5 DEF Stays
<1>9. CASE kill(c, p)
  <2>1. On(c, p, "kill")
    BY <1>9 DEF kill
  <2>2. /\ plock[p] = NoCpu /\ cproc[c] = p /\ cproc' = cproc /\ plock' = plock
        /\ th[p].at = "kill"
    BY <1>9, <2>1, OnFacts DEF kill
  <2>3. \A q \in Slots : state'[q] = "RUNNING" <=> state[q] = "RUNNING"
    BY <1>9, <2>2, <1>a, <1>b DEF kill
  <2>4. \A q \in Slots \ {p} : th'[q] = th[q]
    BY <1>9, <1>a DEF kill, Go, At
  <2>5. th'[p].at \notin Parked
    BY <1>9, <2>2, <1>a DEF kill, Go, At, Parked, Threads
  <2> QED
    BY <2>2, <2>3, <2>4, <2>5 DEF Stays
<1>10. CASE wait_scan(c, p)
  <2>1. On(c, p, "scan") /\ cproc' = cproc /\ plock' = plock
    BY <1>10, ScanEffect
  <2>2. plock[p] = NoCpu /\ cproc[c] = p
    BY <2>1, OnFacts
  <2>3. \A q \in Slots : state'[q] = "RUNNING" <=> state[q] = "RUNNING"
    BY <1>10, <1>a, ScanEffect
  <2>4. \A q \in Slots \ {p} :
          th'[q] = th[q] \/ (th'[q] = At("forkret") /\ \A d \in CPUs : cproc[d] # q)
    BY <1>10, ScanEffect
  <2>5. th'[p].at \notin Parked
    BY <1>10, ScanEffect DEF Parked
  <2> QED
    BY <2>1, <2>2, <2>3, <2>4, <2>5 DEF Stays
<1>11. CASE reparent(c, p)
  <2>1. On(c, p, "reparent") /\ cproc' = cproc /\ plock' = plock
    BY <1>11, ReparentEffect
  <2>2. plock[p] = NoCpu /\ cproc[c] = p
    BY <2>1, OnFacts
  <2>3. \A q \in Slots : state'[q] = "RUNNING" <=> state[q] = "RUNNING"
    BY <1>11, <1>a, ReparentEffect
  <2>4. \A q \in Slots \ {p} :
          th'[q] = th[q] \/ (th'[q] = At("forkret") /\ \A d \in CPUs : cproc[d] # q)
    BY <1>11, ReparentEffect
  <2>5. th'[p].at \notin Parked
    BY <1>11, ReparentEffect DEF Parked
  <2> QED
    BY <2>1, <2>2, <2>3, <2>4, <2>5 DEF Stays
<1>12. CASE allocproc(c, p)
  <2>1. On(c, p, "alloc") /\ cproc' = cproc /\ plock' = plock
    BY <1>12, AllocEffect
  <2>2. plock[p] = NoCpu /\ cproc[c] = p
    BY <2>1, OnFacts
  <2>3. \A q \in Slots : state'[q] = "RUNNING" <=> state[q] = "RUNNING"
    BY <1>12, <1>a, AllocEffect
  <2>4. \A q \in Slots \ {p} :
          th'[q] = th[q] \/ (th'[q] = At("forkret") /\ \A d \in CPUs : cproc[d] # q)
    BY <1>12, AllocEffect
  <2>5. th'[p].at \notin Parked
    BY <1>12, AllocEffect DEF Parked
  <2> QED
    BY <2>1, <2>2, <2>3, <2>4, <2>5 DEF Stays
<1>13. CASE wakeup(c, p)
  <2>1. On(c, p, "wakeup") /\ cproc' = cproc /\ \A q \in Slots \ {p} : th'[q] = th[q]
    BY <1>13, WakeupEffect
  <2>2. plock[p] = NoCpu /\ cproc[c] = p /\ state[p] = "RUNNING"
    BY <2>1, OnFacts
  <2>3. CASE plock' = plock /\ th'[p].at \notin Parked
    <3>1. \A q \in Slots : state'[q] = "RUNNING" <=> state[q] = "RUNNING"
      <4>1. CASE th[p].j > NPROC
        BY <1>13, <2>2, <2>3, <4>1, <1>a, <1>b, <1>c, WakeupEffect DEF Parked, Slots
      <4>2. CASE ~(th[p].j > NPROC)
        BY <1>13, <4>2, <1>a, WakeupEffect DEF Wakes
      <4> QED
        BY <4>1, <4>2
    <3> QED
      BY <2>1, <2>2, <2>3, <3>1 DEF Stays
  <2>4. CASE plock' = [plock EXCEPT ![p] = c] /\ state' = [state EXCEPT ![p] = "ZOMBIE"] /\ th'[p] = At("zombie")
    <3>1. state'[p] # "RUNNING" /\ \A q \in Slots \ {p} : state'[q] = state[q]
      BY <2>4, <1>a
    <3> QED
      BY <2>1, <2>2, <2>4, <3>1, <1>c DEF GivesUp, Parked
  <2> QED
    BY <1>13, <2>3, <2>4, WakeupEffect DEF Parked
<1>14. CASE sleep(c, p)
  <2>1. On(c, p, "sleep")
    BY <1>14 DEF sleep
  <2>2. plock[p] = NoCpu /\ cproc[c] = p
    BY <2>1, OnFacts
  <2>3. cproc' = cproc /\ plock' = [plock EXCEPT ![p] = c]
    BY <1>14 DEF sleep
  <2>4. state'[p] # "RUNNING" /\ \A q \in Slots \ {p} : state'[q] = state[q] /\ th'[q] = th[q]
    BY <1>14, <1>a DEF sleep, Go
  <2>5. th'[p].at \in Parked
    BY <1>14, <1>a DEF sleep, Go, At, Parked
  <2> QED
    BY <2>2, <2>3, <2>4, <2>5 DEF GivesUp
<1>15. CASE yield(c, p)
  <2>1. On(c, p, "user")
    BY <1>15 DEF yield
  <2>2. plock[p] = NoCpu /\ cproc[c] = p
    BY <2>1, OnFacts
  <2>3. cproc' = cproc /\ plock' = [plock EXCEPT ![p] = c]
    BY <1>15 DEF yield
  <2>4. state'[p] # "RUNNING" /\ \A q \in Slots \ {p} : state'[q] = state[q] /\ th'[q] = th[q]
    BY <1>15, <1>a DEF yield, Go
  <2>5. th'[p].at \in Parked
    BY <1>15, <1>a DEF yield, Go, At, Parked
  <2> QED
    BY <2>2, <2>3, <2>4, <2>5 DEF GivesUp
<1> QED
  BY <1>1, <1>2, <1>3, <1>4, <1>5, <1>6, <1>7, <1>8, <1>9, <1>10, <1>11, <1>12, <1>13, <1>14, <1>15 DEF Act

\* A step keeps CpuInv.
LEMMA CpuStep ==
  ASSUME TypeOK, CpuInv, ForkInv, NEW c \in CPUs, NEW p \in Slots, swtch_out(c) \/ Act(c, p)
  PROVE  CpuInv'
<1>a. NoCpu \notin CPUs /\ p # NoProc /\ \A d \in CPUs : cproc[d] # NoProc => cproc[d] \in Slots
  BY ProcAssumption DEF TypeOK, Slots, NoProc
<1>d. \A s \in Slots : s # NoProc
  BY DEF Slots, NoProc
<1>1. CASE swtch_out(c)
  <2> DEFINE x == cproc[c]
  <2>1. /\ x \in Slots /\ plock[x] = c /\ th[x].at \in Parked /\ state[x] # "RUNNING"
        /\ state' = state /\ th' = th
    BY <1>1, <1>a DEF swtch_out
  <2>2. /\ \A q \in Slots : plock'[q] = IF q = x THEN NoCpu ELSE plock[q]
        /\ \A d \in CPUs : cproc'[d] = IF d = c THEN NoProc ELSE cproc[d]
    BY <1>1 DEF swtch_out, TypeOK
  <2>3. \A d \in CPUs : cproc[d] = x => d = c
    BY <2>1, <1>a DEF CpuInv, Slots, NoProc
  <2>9. cproc[c] = x
    OBVIOUS
  <2> HIDE DEF x
  <2>4. \A d, e \in CPUs : cproc'[d] = cproc'[e] /\ cproc'[d] # NoProc => d = e
    BY <2>2 DEF CpuInv
  <2>5. \A s \in Slots : plock'[s] # NoCpu => cproc'[plock'[s]] = s /\ th'[s].at \in Parked
    <3>1. \A s \in Slots : plock'[s] # NoCpu => plock[s] \in CPUs /\ plock[s] # c /\ plock'[s] = plock[s]
      BY <2>1, <2>2, <2>9, <1>d DEF CpuInv, TypeOK
    <3> QED
      BY <2>1, <2>2, <3>1 DEF CpuInv
  <2>6. \A d \in CPUs : cproc'[d] # NoProc /\ plock'[cproc'[d]] = NoCpu =>
          state'[cproc'[d]] = "RUNNING" /\ th'[cproc'[d]].at \notin Parked
    <3> SUFFICES ASSUME NEW d \in CPUs, cproc'[d] # NoProc, plock'[cproc'[d]] = NoCpu
                 PROVE  state'[cproc'[d]] = "RUNNING" /\ th'[cproc'[d]].at \notin Parked
      OBVIOUS
    <3>1. cproc'[d] = cproc[d] /\ cproc[d] # x
      BY <2>2, <2>3
    <3>2. cproc[d] # NoProc /\ plock[cproc[d]] = NoCpu
      BY <2>2, <3>1, <1>a
    <3>3. state[cproc[d]] = "RUNNING" /\ th[cproc[d]].at \notin Parked
      BY <3>2 DEF CpuInv
    <3> QED
      BY <2>1, <3>1, <3>3
  <2>7. \A s \in Slots : state'[s] = "RUNNING" => \E d \in CPUs : cproc'[d] = s
    BY <2>1, <2>2, <2>9, <1>d DEF CpuInv
  <2>8. \A s \in Slots : (\A d \in CPUs : cproc'[d] # s) => th'[s].at \in Parked
    BY <2>1, <2>2, <2>9, <1>d DEF CpuInv
  <2> QED
    BY <2>4, <2>5, <2>6, <2>7, <2>8 DEF CpuInv
<1>2. CASE scheduler(c, p)
  <2>1. cproc[c] = NoProc /\ plock[p] = NoCpu /\ state[p] = "RUNNABLE" /\ th' = th
    BY <1>2 DEF scheduler, Free
  <2>2. /\ \A q \in Slots : plock'[q] = IF q = p THEN c ELSE plock[q]
        /\ \A q \in Slots : state'[q] = IF q = p THEN "RUNNING" ELSE state[q]
        /\ \A d \in CPUs : cproc'[d] = IF d = c THEN p ELSE cproc[d]
    BY <1>2 DEF scheduler, TypeOK
  <2>3. \A d \in CPUs : cproc[d] # p
    BY <2>1, OffFacts DEF Free
  <2>4. \A q \in Slots : plock[q] # c
    BY <2>1, <1>a DEF CpuInv, Slots, NoProc
  <2>5. \A d, e \in CPUs : cproc'[d] = cproc'[e] /\ cproc'[d] # NoProc => d = e
    BY <2>2, <2>3 DEF CpuInv
  <2>6. \A s \in Slots : plock'[s] # NoCpu => cproc'[plock'[s]] = s /\ th'[s].at \in Parked
    <3>1. th[p].at \in Parked
      BY <2>3 DEF CpuInv
    <3>2. \A s \in Slots \ {p} : plock'[s] # NoCpu => plock'[s] = plock[s] /\ plock[s] \in CPUs /\ plock[s] # c
      BY <2>2, <2>4 DEF TypeOK
    <3> QED
      BY <2>1, <2>2, <3>1, <3>2 DEF CpuInv
  <2>7. \A d \in CPUs : cproc'[d] # NoProc /\ plock'[cproc'[d]] = NoCpu =>
          state'[cproc'[d]] = "RUNNING" /\ th'[cproc'[d]].at \notin Parked
    BY <2>1, <2>2, <2>3, <1>a DEF CpuInv
  <2>8. \A s \in Slots : state'[s] = "RUNNING" => \E d \in CPUs : cproc'[d] = s
    BY <2>1, <2>2, <1>d DEF CpuInv
  <2>9. \A s \in Slots : (\A d \in CPUs : cproc'[d] # s) => th'[s].at \in Parked
    BY <2>1, <2>2, <1>d DEF CpuInv
  <2> QED
    BY <2>5, <2>6, <2>7, <2>8, <2>9 DEF CpuInv
<1>3. CASE resume(c, p)
  <2>1. cproc[c] = p /\ plock[p] = c /\ state[p] = "RUNNING" /\ state' = state /\ cproc' = cproc
    BY <1>3 DEF resume
  <2>2. /\ \A q \in Slots : plock'[q] = IF q = p THEN NoCpu ELSE plock[q]
        /\ \A q \in Slots \ {p} : th'[q] = th[q]
    BY <1>3 DEF resume, TypeOK, Go
  <2>3. th'[p].at \notin Parked
    BY <1>3 DEF resume, TypeOK, Go, At, Parked
  <2> QED
    BY <1>a, <2>1, <2>2, <2>3 DEF CpuInv
<1> QED
  BY <1>1, <1>2, <1>3, Kinds, StaysCpu, GivesUpCpu
=============================================================================
