----------------------------- MODULE ProcForks ------------------------------
(***************************************************************************)
(* Proofs about the process table: its steps keep WaitInv, who holds       *)
(* wait_lock, and ForkInv, the slot that fork() fills.                     *)
(***************************************************************************)
EXTENDS ProcCpus

\* wait_lock is taken and given up by the process that moves into or out of
\* the code it guards.
WaitMove(c, p) ==
  /\ cproc[c] = p /\ cproc' = cproc
  /\ \A q \in Slots \ {p} : th'[q] = th[q] \/ \A d \in CPUs : cproc[d] # q
  /\ wait_lock' = wait_lock \/ (wait_lock = NoCpu /\ wait_lock' = c) \/ (wait_lock = c /\ wait_lock' = NoCpu)
  /\ th'[p].at \in HoldsWait <=> wait_lock' = c

\* Such a move keeps WaitInv.
LEMMA WaitMoves ==
  ASSUME TypeOK, CpuInv, WaitInv, NEW c \in CPUs, NEW p \in Slots, WaitMove(c, p)
  PROVE  WaitInv'
<1>1. NoCpu \notin CPUs /\ p # NoProc /\ \A d \in CPUs : cproc[d] # NoProc => cproc[d] \in Slots
  BY ProcAssumption DEF TypeOK, Slots, NoProc
<1>2. \A d \in CPUs \ {c} : cproc[d] # NoProc => cproc[d] # p /\ th'[cproc[d]] = th[cproc[d]]
  BY <1>1 DEF WaitMove, CpuInv
<1>3. \A d \in CPUs \ {c} : wait_lock' = d <=> wait_lock = d
  BY <1>1 DEF WaitMove
<1> QED
  BY <1>1, <1>2, <1>3 DEF WaitMove, WaitInv

\* A process in kernel code holds wait_lock exactly in the code it guards.
LEMMA OnWait ==
  ASSUME TypeOK, CpuInv, WaitInv, NEW c \in CPUs, NEW p \in Slots, NEW x, On(c, p, x)
  PROVE  x \in HoldsWait <=> wait_lock = c
<1>1. cproc[c] = p /\ th[p].at = x /\ p # NoProc
  BY DEF On
<1> QED
  BY <1>1 DEF WaitInv

\* A step keeps WaitInv.
LEMMA WaitStep ==
  ASSUME TypeOK, CpuInv, WaitInv, NEW c \in CPUs, NEW p \in Slots, swtch_out(c) \/ Act(c, p)
  PROVE  WaitInv'
<1>a. NoCpu \notin CPUs /\ p # NoProc /\ th \in [Slots -> Threads] /\ th[p] \in Threads
      /\ \A d \in CPUs : cproc[d] # NoProc => cproc[d] \in Slots
  BY ProcAssumption DEF TypeOK, Slots, NoProc
<1>1. CASE fork_parent(c, p)
  <2>1. On(c, p, "fork_parent") /\ cproc' = cproc
    BY <1>1 DEF fork_parent
  <2>2. cproc[c] = p /\ th[p].at = "fork_parent" /\ ("fork_parent" \in HoldsWait <=> wait_lock = c)
    BY <2>1, OnFacts, OnWait
  <2>3. \A q \in Slots \ {p} : th'[q] = th[q]
    BY <1>1, <1>a DEF fork_parent
  <2>4. /\ wait_lock' = wait_lock \/ (wait_lock = NoCpu /\ wait_lock' = c) \/ (wait_lock = c /\ wait_lock' = NoCpu)
        /\ th'[p].at \in HoldsWait <=> wait_lock' = c
    BY <1>1, <2>2, <1>a DEF fork_parent, HoldsWait, Threads
  <2> QED
    BY <2>1, <2>2, <2>3, <2>4, WaitMoves DEF WaitMove
<1>2. CASE fork_run(c, p)
  <2>1. On(c, p, "fork_run") /\ cproc' = cproc
    BY <1>2 DEF fork_run
  <2>2. cproc[c] = p /\ th[p].at = "fork_run" /\ ("fork_run" \in HoldsWait <=> wait_lock = c)
    BY <2>1, OnFacts, OnWait
  <2>3. \A q \in Slots \ {p} : th'[q] = th[q]
    BY <1>2, <1>a DEF fork_run
  <2>4. /\ wait_lock' = wait_lock \/ (wait_lock = NoCpu /\ wait_lock' = c) \/ (wait_lock = c /\ wait_lock' = NoCpu)
        /\ th'[p].at \in HoldsWait <=> wait_lock' = c
    BY <1>2, <2>2, <1>a DEF fork_run, HoldsWait, Threads
  <2> QED
    BY <2>1, <2>2, <2>3, <2>4, WaitMoves DEF WaitMove
<1>3. CASE fork_mask(c, p)
  <2>1. On(c, p, "fork_mask") /\ cproc' = cproc
    BY <1>3 DEF fork_mask
  <2>2. cproc[c] = p /\ th[p].at = "fork_mask" /\ ("fork_mask" \in HoldsWait <=> wait_lock = c)
    BY <2>1, OnFacts, OnWait
  <2>3. \A q \in Slots \ {p} : th'[q] = th[q]
    BY <1>3, <1>a DEF fork_mask, Go, At
  <2>4. /\ wait_lock' = wait_lock \/ (wait_lock = NoCpu /\ wait_lock' = c) \/ (wait_lock = c /\ wait_lock' = NoCpu)
        /\ th'[p].at \in HoldsWait <=> wait_lock' = c
    BY <1>3, <2>2, <1>a DEF fork_mask, Go, At, HoldsWait, Threads
  <2> QED
    BY <2>1, <2>2, <2>3, <2>4, WaitMoves DEF WaitMove
<1>4. CASE wait(c, p)
  <2>1. On(c, p, "wait") /\ cproc' = cproc
    BY <1>4 DEF wait
  <2>2. cproc[c] = p /\ th[p].at = "wait" /\ ("wait" \in HoldsWait <=> wait_lock = c)
    BY <2>1, OnFacts, OnWait
  <2>3. \A q \in Slots \ {p} : th'[q] = th[q]
    BY <1>4, <1>a DEF wait, Go, At
  <2>4. /\ wait_lock' = wait_lock \/ (wait_lock = NoCpu /\ wait_lock' = c) \/ (wait_lock = c /\ wait_lock' = NoCpu)
        /\ th'[p].at \in HoldsWait <=> wait_lock' = c
    BY <1>4, <2>2, <1>a DEF wait, Go, At, HoldsWait, Threads
  <2> QED
    BY <2>1, <2>2, <2>3, <2>4, WaitMoves DEF WaitMove
<1>5. CASE wait_nokid(c, p)
  <2>1. On(c, p, "nokid") /\ cproc' = cproc
    BY <1>5 DEF wait_nokid
  <2>2. cproc[c] = p /\ th[p].at = "nokid" /\ ("nokid" \in HoldsWait <=> wait_lock = c)
    BY <2>1, OnFacts, OnWait
  <2>3. \A q \in Slots \ {p} : th'[q] = th[q]
    BY <1>5, <1>a DEF wait_nokid, Go, At
  <2>4. /\ wait_lock' = wait_lock \/ (wait_lock = NoCpu /\ wait_lock' = c) \/ (wait_lock = c /\ wait_lock' = NoCpu)
        /\ th'[p].at \in HoldsWait <=> wait_lock' = c
    BY <1>5, <2>2, <1>a DEF wait_nokid, Go, At, HoldsWait, Threads
  <2> QED
    BY <2>1, <2>2, <2>3, <2>4, WaitMoves DEF WaitMove
<1>6. CASE exit(c, p)
  <2>1. On(c, p, "exit") /\ cproc' = cproc
    BY <1>6 DEF exit
  <2>2. cproc[c] = p /\ th[p].at = "exit" /\ ("exit" \in HoldsWait <=> wait_lock = c)
    BY <2>1, OnFacts, OnWait
  <2>3. \A q \in Slots \ {p} : th'[q] = th[q]
    BY <1>6, <1>a DEF exit, Go, At
  <2>4. /\ wait_lock' = wait_lock \/ (wait_lock = NoCpu /\ wait_lock' = c) \/ (wait_lock = c /\ wait_lock' = NoCpu)
        /\ th'[p].at \in HoldsWait <=> wait_lock' = c
    BY <1>6, <2>2, <1>a DEF exit, Go, At, HoldsWait, Threads
  <2> QED
    BY <2>1, <2>2, <2>3, <2>4, WaitMoves DEF WaitMove
<1>7. CASE syscall(c, p)
  <2>1. On(c, p, "user") /\ cproc' = cproc
    BY <1>7 DEF syscall
  <2>2. cproc[c] = p /\ th[p].at = "user" /\ ("user" \in HoldsWait <=> wait_lock = c)
    BY <2>1, OnFacts, OnWait
  <2>3. \A q \in Slots \ {p} : th'[q] = th[q]
    BY <1>7, <1>a DEF syscall, Go, At
  <2>4. /\ wait_lock' = wait_lock \/ (wait_lock = NoCpu /\ wait_lock' = c) \/ (wait_lock = c /\ wait_lock' = NoCpu)
        /\ th'[p].at \in HoldsWait <=> wait_lock' = c
    BY <1>7, <2>2, <1>a DEF syscall, Go, At, HoldsWait, Threads
  <2> QED
    BY <2>1, <2>2, <2>3, <2>4, WaitMoves DEF WaitMove
<1>8. CASE usertrapret(c, p)
  <2>1. On(c, p, "return") /\ cproc' = cproc
    BY <1>8 DEF usertrapret
  <2>2. cproc[c] = p /\ th[p].at = "return" /\ ("return" \in HoldsWait <=> wait_lock = c)
    BY <2>1, OnFacts, OnWait
  <2>3. \A q \in Slots \ {p} : th'[q] = th[q]
    BY <1>8, <1>a DEF usertrapret, Go, At
  <2>4. /\ wait_lock' = wait_lock \/ (wait_lock = NoCpu /\ wait_lock' = c) \/ (wait_lock = c /\ wait_lock' = NoCpu)
        /\ th'[p].at \in HoldsWait <=> wait_lock' = c
    BY <1>8, <2>2, <1>a DEF usertrapret, Go, At, HoldsWait, Threads
  <2> QED
    BY <2>1, <2>2, <2>3, <2>4, WaitMoves DEF WaitMove
<1>9. CASE kill(c, p)
  <2>1. On(c, p, "kill") /\ cproc' = cproc
    BY <1>9 DEF kill
  <2>2. cproc[c] = p /\ th[p].at = "kill" /\ ("kill" \in HoldsWait <=> wait_lock = c)
    BY <2>1, OnFacts, OnWait
  <2>3. \A q \in Slots \ {p} : th'[q] = th[q]
    BY <1>9, <1>a DEF kill, Go, At
  <2>4. /\ wait_lock' = wait_lock \/ (wait_lock = NoCpu /\ wait_lock' = c) \/ (wait_lock = c /\ wait_lock' = NoCpu)
        /\ th'[p].at \in HoldsWait <=> wait_lock' = c
    BY <1>9, <2>2, <1>a DEF kill, Go, At, HoldsWait, Threads
  <2> QED
    BY <2>1, <2>2, <2>3, <2>4, WaitMoves DEF WaitMove
<1>10. CASE sleep(c, p)
  <2>1. On(c, p, "sleep") /\ cproc' = cproc
    BY <1>10 DEF sleep
  <2>2. cproc[c] = p /\ th[p].at = "sleep" /\ ("sleep" \in HoldsWait <=> wait_lock = c)
    BY <2>1, OnFacts, OnWait
  <2>3. \A q \in Slots \ {p} : th'[q] = th[q]
    BY <1>10, <1>a DEF sleep, Go, At, sleep_release
  <2>4. /\ wait_lock' = wait_lock \/ (wait_lock = NoCpu /\ wait_lock' = c) \/ (wait_lock = c /\ wait_lock' = NoCpu)
        /\ th'[p].at \in HoldsWait <=> wait_lock' = c
    BY <1>10, <2>2, <1>a DEF sleep, Go, At, sleep_release, HoldsWait, Threads
  <2> QED
    BY <2>1, <2>2, <2>3, <2>4, WaitMoves DEF WaitMove
<1>11. CASE yield(c, p)
  <2>1. On(c, p, "user") /\ cproc' = cproc
    BY <1>11 DEF yield
  <2>2. cproc[c] = p /\ th[p].at = "user" /\ ("user" \in HoldsWait <=> wait_lock = c)
    BY <2>1, OnFacts, OnWait
  <2>3. \A q \in Slots \ {p} : th'[q] = th[q]
    BY <1>11, <1>a DEF yield, Go, At
  <2>4. /\ wait_lock' = wait_lock \/ (wait_lock = NoCpu /\ wait_lock' = c) \/ (wait_lock = c /\ wait_lock' = NoCpu)
        /\ th'[p].at \in HoldsWait <=> wait_lock' = c
    BY <1>11, <2>2, <1>a DEF yield, Go, At, HoldsWait, Threads
  <2> QED
    BY <2>1, <2>2, <2>3, <2>4, WaitMoves DEF WaitMove
<1>12. CASE wait_scan(c, p)
  <2>1. On(c, p, "scan") /\ cproc' = cproc
    BY <1>12, ScanEffect
  <2>2. cproc[c] = p /\ th[p].at = "scan" /\ ("scan" \in HoldsWait <=> wait_lock = c)
    BY <2>1, OnFacts, OnWait
  <2>3. \A q \in Slots \ {p} : th'[q] = th[q] \/ \A d \in CPUs : cproc[d] # q
    BY <1>12, ScanEffect
  <2>4. /\ wait_lock' = wait_lock \/ (wait_lock = c /\ wait_lock' = NoCpu)
        /\ th'[p].at \in HoldsWait <=> wait_lock' = c
    BY <1>12, <2>2, <1>a, ScanEffect DEF HoldsWait
  <2> QED
    BY <2>1, <2>2, <2>3, <2>4, WaitMoves DEF WaitMove
<1>13. CASE reparent(c, p)
  <2>1. On(c, p, "reparent") /\ cproc' = cproc
    BY <1>13, ReparentEffect
  <2>2. cproc[c] = p /\ th[p].at = "reparent" /\ ("reparent" \in HoldsWait <=> wait_lock = c)
    BY <2>1, OnFacts, OnWait
  <2>3. \A q \in Slots \ {p} : th'[q] = th[q] \/ \A d \in CPUs : cproc[d] # q
    BY <1>13, ReparentEffect
  <2>4. /\ wait_lock' = wait_lock \/ (wait_lock = c /\ wait_lock' = NoCpu)
        /\ th'[p].at \in HoldsWait <=> wait_lock' = c
    BY <1>13, <2>2, <1>a, ReparentEffect DEF HoldsWait
  <2> QED
    BY <2>1, <2>2, <2>3, <2>4, WaitMoves DEF WaitMove
<1>14. CASE allocproc(c, p)
  <2>1. On(c, p, "alloc") /\ cproc' = cproc
    BY <1>14, AllocEffect
  <2>2. cproc[c] = p /\ th[p].at = "alloc" /\ ("alloc" \in HoldsWait <=> wait_lock = c)
    BY <2>1, OnFacts, OnWait
  <2>3. \A q \in Slots \ {p} : th'[q] = th[q] \/ \A d \in CPUs : cproc[d] # q
    BY <1>14, AllocEffect
  <2>4. /\ wait_lock' = wait_lock \/ (wait_lock = c /\ wait_lock' = NoCpu)
        /\ th'[p].at \in HoldsWait <=> wait_lock' = c
    BY <1>14, <2>2, <1>a, AllocEffect DEF HoldsWait
  <2> QED
    BY <2>1, <2>2, <2>3, <2>4, WaitMoves DEF WaitMove
<1>15. CASE wakeup(c, p)
  <2>1. On(c, p, "wakeup") /\ cproc' = cproc
    BY <1>15, WakeupEffect
  <2>2. cproc[c] = p /\ th[p].at = "wakeup" /\ ("wakeup" \in HoldsWait <=> wait_lock = c)
    BY <2>1, OnFacts, OnWait
  <2>3. \A q \in Slots \ {p} : th'[q] = th[q] \/ \A d \in CPUs : cproc[d] # q
    BY <1>15, WakeupEffect
  <2>4. /\ wait_lock' = wait_lock \/ (wait_lock = c /\ wait_lock' = NoCpu)
        /\ th'[p].at \in HoldsWait <=> wait_lock' = c
    BY <1>15, <2>2, <1>a, WakeupEffect DEF HoldsWait, At
  <2> QED
    BY <2>1, <2>2, <2>3, <2>4, WaitMoves DEF WaitMove
<1>16. CASE resume(c, p)
  <2>1. cproc[c] = p /\ cproc' = cproc /\ wait_lock' = wait_lock /\ th[p].at \in Parked
    BY <1>16 DEF resume
  <2>2. wait_lock # c
    BY <2>1, <1>a DEF WaitInv, HoldsWait, Parked
  <2>3. (\A q \in Slots \ {p} : th'[q] = th[q]) /\ th'[p].at \notin HoldsWait
    BY <1>16, <1>a DEF resume, Go, At, HoldsWait
  <2> QED
    BY <2>1, <2>2, <2>3, WaitMoves DEF WaitMove
<1>17. CASE scheduler(c, p)
  <2>1. cproc[c] = NoProc /\ wait_lock' = wait_lock /\ th' = th /\ Free(p) /\ state[p] # "RUNNING"
    BY <1>17 DEF scheduler
  <2>2. \A d \in CPUs : cproc'[d] = IF d = c THEN p ELSE cproc[d]
    BY <1>17 DEF scheduler, TypeOK
  <2>3. th[p].at \in Parked
    BY <2>1, OffFacts DEF CpuInv
  <2>4. th[p].at \notin HoldsWait
    BY <2>3 DEF Parked, HoldsWait
  <2>5. wait_lock # c
    BY <2>1 DEF WaitInv
  <2> QED
    BY <2>1, <2>2, <2>4, <2>5 DEF WaitInv
<1>18. CASE swtch_out(c)
  <2>1. cproc[c] # NoProc /\ th[cproc[c]].at \in Parked /\ wait_lock' = wait_lock /\ th' = th
    BY <1>18 DEF swtch_out
  <2>2. \A d \in CPUs : cproc'[d] = IF d = c THEN NoProc ELSE cproc[d]
    BY <1>18 DEF swtch_out, TypeOK
  <2>3. wait_lock # c
    BY <2>1 DEF WaitInv, Parked, HoldsWait
  <2> QED
    BY <2>1, <2>2, <2>3 DEF WaitInv
<1> QED
  BY <1>1, <1>2, <1>3, <1>4, <1>5, <1>6, <1>7, <1>8, <1>9, <1>10, <1>11, <1>12, <1>13, <1>14, <1>15, <1>16, <1>17, <1>18 DEF Act

\* The places in fork(), wait() and exit() the invariants speak of.
Special == HoldsWait \cup {"fork_parent", "fork_run"}

\* The steps elsewhere: no parent changes, no process falls asleep, is created,
\* dies or is freed.
Plain(p) ==
  /\ parent' = parent
  /\ \A q \in Slots : th'[q] = th[q] \/ (th[q].at \notin Special /\ th'[q].at \notin Special)
  /\ \A s \in Slots : state'[s] # state[s] =>
       state[s] \in {"SLEEPING", "RUNNABLE", "RUNNING"} /\ state'[s] \in {"RUNNABLE", "RUNNING"}
  /\ \A s \in Slots : state'[s] = "SLEEPING" => chan'[s] = chan[s]

PlainStep(c, p) ==
  \/ swtch_out(c) \/ fork_mask(c, p) \/ syscall(c, p) \/ usertrapret(c, p) \/ kill(c, p)
  \/ yield(c, p) \/ scheduler(c, p) \/ resume(c, p)

\* What these steps leave alone.
LEMMA PlainSteps ==
  ASSUME TypeOK, CpuInv, NEW c \in CPUs, NEW p \in Slots, PlainStep(c, p)
  PROVE  Plain(p)
<1>a. th \in [Slots -> Threads] /\ th[p] \in Threads /\ state \in [Slots -> States] /\ chan \in [Slots -> 0..NPROC]
  BY FieldFacts DEF TypeOK
<1>1. CASE fork_mask(c, p)
  <2>0. On(c, p, "fork_mask")
    BY <1>1 DEF fork_mask
  <2>1. th[p].at = "fork_mask" /\ state[p] = "RUNNING"
    BY <2>0, OnFacts
  <2>2. (\A q \in Slots \ {p} : th'[q] = th[q]) /\ th[p].at \notin Special /\ th'[p].at \notin Special
    BY <1>1, <2>1, <1>a DEF fork_mask, Go, At, Special, HoldsWait, Threads
  <2>3. /\ parent' = parent
        /\ \A s \in Slots : state'[s] # state[s] =>
             state[s] \in {"SLEEPING", "RUNNABLE", "RUNNING"} /\ state'[s] \in {"RUNNABLE", "RUNNING"}
        /\ \A s \in Slots : state'[s] = "SLEEPING" => chan'[s] = chan[s]
    BY <1>1, <2>1, <1>a DEF fork_mask
  <2> QED
    BY <2>2, <2>3 DEF Plain
<1>2. CASE syscall(c, p)
  <2>0. On(c, p, "user")
    BY <1>2 DEF syscall
  <2>1. th[p].at = "user" /\ state[p] = "RUNNING"
    BY <2>0, OnFacts
  <2>2. (\A q \in Slots \ {p} : th'[q] = th[q]) /\ th[p].at \notin Special /\ th'[p].at \notin Special
    <3>1. \A q \in Slots \ {p} : th'[q] = th[q]
      BY <1>2, <1>a DEF syscall, Go
    <3>2. th'[p].at \in {"exit", "alloc", "wait", "kill", "return"}
      BY <1>2, <1>a DEF syscall, Go, At
    <3> QED
      BY <2>1, <3>1, <3>2 DEF Special, HoldsWait
  <2>3. /\ parent' = parent
        /\ \A s \in Slots : state'[s] # state[s] =>
             state[s] \in {"SLEEPING", "RUNNABLE", "RUNNING"} /\ state'[s] \in {"RUNNABLE", "RUNNING"}
        /\ \A s \in Slots : state'[s] = "SLEEPING" => chan'[s] = chan[s]
    BY <1>2, <2>1, <1>a DEF syscall
  <2> QED
    BY <2>2, <2>3 DEF Plain
<1>3. CASE usertrapret(c, p)
  <2>0. On(c, p, "return")
    BY <1>3 DEF usertrapret
  <2>1. th[p].at = "return" /\ state[p] = "RUNNING"
    BY <2>0, OnFacts
  <2>2. (\A q \in Slots \ {p} : th'[q] = th[q]) /\ th[p].at \notin Special /\ th'[p].at \notin Special
    BY <1>3, <2>1, <1>a DEF usertrapret, Go, At, Special, HoldsWait, Threads
  <2>3. /\ parent' = parent
        /\ \A s \in Slots : state'[s] # state[s] =>
             state[s] \in {"SLEEPING", "RUNNABLE", "RUNNING"} /\ state'[s] \in {"RUNNABLE", "RUNNING"}
        /\ \A s \in Slots : state'[s] = "SLEEPING" => chan'[s] = chan[s]
    BY <1>3, <2>1, <1>a DEF usertrapret
  <2> QED
    BY <2>2, <2>3 DEF Plain
<1>4. CASE kill(c, p)
  <2>0. On(c, p, "kill")
    BY <1>4 DEF kill
  <2>1. th[p].at = "kill" /\ state[p] = "RUNNING"
    BY <2>0, OnFacts
  <2>2. (\A q \in Slots \ {p} : th'[q] = th[q]) /\ th[p].at \notin Special /\ th'[p].at \notin Special
    BY <1>4, <2>1, <1>a DEF kill, Go, At, Special, HoldsWait, Threads
  <2>3. /\ parent' = parent
        /\ \A s \in Slots : state'[s] # state[s] =>
             state[s] \in {"SLEEPING", "RUNNABLE", "RUNNING"} /\ state'[s] \in {"RUNNABLE", "RUNNING"}
        /\ \A s \in Slots : state'[s] = "SLEEPING" => chan'[s] = chan[s]
    BY <1>4, <2>1, <1>a DEF kill
  <2> QED
    BY <2>2, <2>3 DEF Plain
<1>5. CASE yield(c, p)
  <2>0. On(c, p, "user")
    BY <1>5 DEF yield
  <2>1. th[p].at = "user" /\ state[p] = "RUNNING"
    BY <2>0, OnFacts
  <2>2. (\A q \in Slots \ {p} : th'[q] = th[q]) /\ th[p].at \notin Special /\ th'[p].at \notin Special
    BY <1>5, <2>1, <1>a DEF yield, Go, At, Special, HoldsWait, Threads
  <2>3. /\ parent' = parent
        /\ \A s \in Slots : state'[s] # state[s] =>
             state[s] \in {"SLEEPING", "RUNNABLE", "RUNNING"} /\ state'[s] \in {"RUNNABLE", "RUNNING"}
        /\ \A s \in Slots : state'[s] = "SLEEPING" => chan'[s] = chan[s]
    BY <1>5, <2>1, <1>a DEF yield
  <2> QED
    BY <2>2, <2>3 DEF Plain
<1>6. CASE resume(c, p)
  <2>1. th[p].at \in Parked /\ state[p] = "RUNNING"
    BY <1>6 DEF resume
  <2>2. (\A q \in Slots \ {p} : th'[q] = th[q]) /\ th[p].at \notin Special /\ th'[p].at \notin Special
    BY <1>6, <2>1, <1>a DEF resume, Go, At, Special, HoldsWait, Threads, Parked
  <2>3. /\ parent' = parent
        /\ \A s \in Slots : state'[s] # state[s] =>
             state[s] \in {"SLEEPING", "RUNNABLE", "RUNNING"} /\ state'[s] \in {"RUNNABLE", "RUNNING"}
        /\ \A s \in Slots : state'[s] = "SLEEPING" => chan'[s] = chan[s]
    BY <1>6, <2>1, <1>a DEF resume
  <2> QED
    BY <2>2, <2>3 DEF Plain
<1>7. CASE scheduler(c, p)
  BY <1>7, <1>a DEF scheduler, Plain
<1>8. CASE swtch_out(c)
  BY <1>8, <1>a DEF swtch_out, Plain
<1> QED
  BY <1>1, <1>2, <1>3, <1>4, <1>5, <1>6, <1>7, <1>8 DEF PlainStep

\* The steps outside fork(): nobody starts or goes on filling a slot, a slot
\* being filled is left alone, and a slot that becomes unused loses its parent.
ForkQuiet(p) ==
  /\ \A q \in Slots : Forking(q)' => th'[q] = th[q]
  /\ \A s \in Slots : state[s] = "USED" => state'[s] = "USED"
  /\ \A s \in Slots : parent'[s] # parent[s] =>
       \/ parent[s] = p /\ ~Forking(p)' /\ state'[s] = state[s]
       \/ parent'[s] = NoProc /\ state[s] = "ZOMBIE"
  /\ \A s \in Slots : state'[s] = "UNUSED" => state[s] = "UNUSED" \/ parent'[s] = NoProc

\* They keep ForkInv.
LEMMA ForkQuietKeeps ==
  ASSUME TypeOK, ForkInv, NEW p \in Slots, ForkQuiet(p) PROVE ForkInv'
<1>a. p # NoProc
  BY DEF Slots, NoProc
<1>1. \A q \in Slots : Forking(q)' => Forking(q) /\ th'[q] = th[q]
  BY DEF ForkQuiet, Forking
<1>2. \A q \in Slots : Forking(q)' => th'[q].arg \in Slots /\ state'[th'[q].arg] = "USED"
  BY <1>1 DEF ForkQuiet, ForkInv
<1>3. \A q, r \in Slots : Forking(q)' /\ Forking(r)' /\ q # r => th'[q].arg # th'[r].arg
  BY <1>1 DEF ForkInv
<1>4. \A q \in Slots : Forking(q)' => parent'[th[q].arg] = parent[th[q].arg]
  <2> SUFFICES ASSUME NEW q \in Slots, Forking(q)', parent'[th[q].arg] # parent[th[q].arg]
               PROVE  FALSE
    OBVIOUS
  <2>1. th[q].arg \in Slots /\ state[th[q].arg] = "USED" /\ (parent[th[q].arg] = NoProc \/ parent[th[q].arg] = q)
    BY <1>1 DEF ForkInv, Forking
  <2> QED
    BY <2>1, <1>a DEF ForkQuiet
<1>5. /\ \A q \in Slots : th'[q].at = "fork_parent" => parent'[th'[q].arg] = NoProc
      /\ \A q \in Slots : th'[q].at = "fork_run" => parent'[th'[q].arg] = q
  BY <1>1, <1>4 DEF ForkInv, Forking
<1>6. \A s \in Slots : state'[s] = "UNUSED" => parent'[s] = NoProc
  BY <1>a DEF ForkQuiet, ForkInv
<1> QED
  BY <1>2, <1>3, <1>5, <1>6 DEF ForkInv, Forking

\* A step keeps ForkInv.
LEMMA ForkStep ==
  ASSUME TypeOK, CpuInv, ForkInv, NEW c \in CPUs, NEW p \in Slots, swtch_out(c) \/ Act(c, p)
  PROVE  ForkInv'
<1>a. /\ th \in [Slots -> Threads] /\ th[p] \in Threads /\ state \in [Slots -> States]
      /\ parent \in [Slots -> 0..NPROC] /\ th[p].i \in 1..(NPROC + 1) /\ NPROC \in Nat
      /\ \A k \in 1..(NPROC + 1) : k <= NPROC => k \in Slots
  <2>1. /\ th \in [Slots -> Threads] /\ state \in [Slots -> States] /\ parent \in [Slots -> 0..NPROC]
    BY DEF TypeOK
  <2> QED
    BY <2>1, FieldFacts, ProcAssumption DEF Slots
<1>b. \A q \in Slots : q # NoProc
  BY DEF Slots, NoProc
<1>1. CASE PlainStep(c, p)
  <2>1. Plain(p)
    BY <1>1, PlainSteps
  <2> QED
    BY <2>1, ForkQuietKeeps DEF Plain, Special, ForkQuiet, Forking
<1>2. CASE wait(c, p)
  <2>0. On(c, p, "wait")
    BY <1>2 DEF wait
  <2>1. th[p].at = "wait" /\ state[p] = "RUNNING"
    BY <2>0, OnFacts
  <2>2. \A q \in Slots : Forking(q)' => th'[q] = th[q]
    BY <1>2, <2>1, <1>a DEF wait, Go, At, Forking, Threads
  <2>3. /\ parent' = parent
        /\ \A s \in Slots : state[s] = "USED" => state'[s] = "USED"
        /\ \A s \in Slots : state'[s] = "UNUSED" => state[s] = "UNUSED"
    BY <1>2, <2>1, <1>a DEF wait
  <2> QED
    BY <2>2, <2>3, ForkQuietKeeps DEF ForkQuiet
<1>3. CASE wait_nokid(c, p)
  <2>0. On(c, p, "nokid")
    BY <1>3 DEF wait_nokid
  <2>1. th[p].at = "nokid" /\ state[p] = "RUNNING"
    BY <2>0, OnFacts
  <2>2. \A q \in Slots : Forking(q)' => th'[q] = th[q]
    BY <1>3, <2>1, <1>a DEF wait_nokid, Go, At, Forking, Threads
  <2>3. /\ parent' = parent
        /\ \A s \in Slots : state[s] = "USED" => state'[s] = "USED"
        /\ \A s \in Slots : state'[s] = "UNUSED" => state[s] = "UNUSED"
    BY <1>3, <2>1, <1>a DEF wait_nokid
  <2> QED
    BY <2>2, <2>3, ForkQuietKeeps DEF ForkQuiet
<1>4. CASE exit(c, p)
  <2>0. On(c, p, "exit")
    BY <1>4 DEF exit
  <2>1. th[p].at = "exit" /\ state[p] = "RUNNING"
    BY <2>0, OnFacts
  <2>2. \A q \in Slots : Forking(q)' => th'[q] = th[q]
    BY <1>4, <2>1, <1>a DEF exit, Go, At, Forking, Threads
  <2>3. /\ parent' = parent
        /\ \A s \in Slots : state[s] = "USED" => state'[s] = "USED"
        /\ \A s \in Slots : state'[s] = "UNUSED" => state[s] = "UNUSED"
    BY <1>4, <2>1, <1>a DEF exit
  <2> QED
    BY <2>2, <2>3, ForkQuietKeeps DEF ForkQuiet
<1>5. CASE sleep(c, p)
  <2>0. On(c, p, "sleep")
    BY <1>5 DEF sleep
  <2>1. th[p].at = "sleep" /\ state[p] = "RUNNING"
    BY <2>0, OnFacts
  <2>2. \A q \in Slots : Forking(q)' => th'[q] = th[q]
    BY <1>5, <2>1, <1>a DEF sleep, Go, At, Forking, Threads
  <2>3. /\ parent' = parent
        /\ \A s \in Slots : state[s] = "USED" => state'[s] = "USED"
        /\ \A s \in Slots : state'[s] = "UNUSED" => state[s] = "UNUSED"
    BY <1>5, <2>1, <1>a DEF sleep
  <2> QED
    BY <2>2, <2>3, ForkQuietKeeps DEF ForkQuiet
<1>6. CASE wait_scan(c, p)
  <2>1. On(c, p, "scan")
    BY <1>6, ScanEffect
  <2>2. th[p].at = "scan" /\ state[p] = "RUNNING"
    BY <2>1, OnFacts
  <2>3. ~Forking(p)' /\ \A q \in Slots : Forking(q)' => th'[q] = th[q]
    BY <1>6, <2>2, ScanEffect DEF Forking, At
  <2>4. \A s \in Slots : state[s] = "USED" => state'[s] = "USED"
    BY <1>6, <2>2, <1>a, ScanEffect DEF Wakes
  <2>5. \A s \in Slots : parent'[s] # parent[s] =>
          \/ parent[s] = p /\ ~Forking(p)' /\ state'[s] = state[s]
          \/ parent'[s] = NoProc /\ state[s] = "ZOMBIE"
    BY <1>6, <2>3, <1>a, ScanEffect
  <2>6. \A s \in Slots : state'[s] = "UNUSED" => state[s] = "UNUSED" \/ parent'[s] = NoProc
    BY <1>6, <1>a, ScanEffect
  <2> QED
    BY <2>3, <2>4, <2>5, <2>6, ForkQuietKeeps DEF ForkQuiet
<1>7. CASE reparent(c, p)
  <2>1. On(c, p, "reparent")
    BY <1>7, ReparentEffect
  <2>2. th[p].at = "reparent" /\ state[p] = "RUNNING"
    BY <2>1, OnFacts
  <2>3. ~Forking(p)' /\ \A q \in Slots : Forking(q)' => th'[q] = th[q]
    BY <1>7, <2>2, ReparentEffect DEF Forking, At
  <2>4. \A s \in Slots : state[s] = "USED" => state'[s] = "USED"
    BY <1>7, <2>2, <1>a, ReparentEffect DEF Wakes
  <2>5. \A s \in Slots : parent'[s] # parent[s] =>
          \/ parent[s] = p /\ ~Forking(p)' /\ state'[s] = state[s]
          \/ parent'[s] = NoProc /\ state[s] = "ZOMBIE"
    BY <1>7, <2>3, <1>a, ReparentEffect
  <2>6. \A s \in Slots : state'[s] = "UNUSED" => state[s] = "UNUSED" \/ parent'[s] = NoProc
    BY <1>7, <1>a, ReparentEffect
  <2> QED
    BY <2>3, <2>4, <2>5, <2>6, ForkQuietKeeps DEF ForkQuiet
<1>8. CASE wakeup(c, p)
  <2>1. On(c, p, "wakeup")
    BY <1>8, WakeupEffect
  <2>2. th[p].at = "wakeup" /\ state[p] = "RUNNING"
    BY <2>1, OnFacts
  <2>3. ~Forking(p)' /\ \A q \in Slots : Forking(q)' => th'[q] = th[q]
    BY <1>8, <2>2, WakeupEffect DEF Forking, At
  <2>4. \A s \in Slots : state[s] = "USED" => state'[s] = "USED"
    BY <1>8, <2>2, <1>a, WakeupEffect DEF Wakes
  <2>5. \A s \in Slots : parent'[s] # parent[s] =>
          \/ parent[s] = p /\ ~Forking(p)' /\ state'[s] = state[s]
          \/ parent'[s] = NoProc /\ state[s] = "ZOMBIE"
    BY <1>8, <2>3, <1>a, WakeupEffect
  <2>6. \A s \in Slots : state'[s] = "UNUSED" => state[s] = "UNUSED" \/ parent'[s] = NoProc
    BY <1>8, <1>a, WakeupEffect
  <2> QED
    BY <2>3, <2>4, <2>5, <2>6, ForkQuietKeeps DEF ForkQuiet
<1>9. CASE allocproc(c, p)
  <2>0. On(c, p, "alloc")
    BY <1>9, AllocEffect
  <2>1. th[p].at = "alloc" /\ parent' = parent
    BY <1>9, <2>0, OnFacts, AllocEffect
  <2>2. CASE UNCHANGED state /\ th'[p].at \in {"return", "alloc"} /\ \A q \in Slots \ {p} : th'[q] = th[q]
    BY <2>1, <2>2, ForkQuietKeeps DEF ForkQuiet, Forking
  <2>3. CASE \E s \in Slots \ {p} :
               /\ state[s] = "UNUSED" /\ state' = [state EXCEPT ![s] = "USED"]
               /\ th'[p].at = "fork_parent" /\ th'[p].arg = s /\ th'[s] = At("forkret")
               /\ \A q \in Slots \ {p, s} : th'[q] = th[q]
    <3>1. PICK s \in Slots \ {p} :
               /\ state[s] = "UNUSED" /\ state' = [state EXCEPT ![s] = "USED"]
               /\ th'[p].at = "fork_parent" /\ th'[p].arg = s /\ th'[s] = At("forkret")
               /\ \A q \in Slots \ {p, s} : th'[q] = th[q]
      BY <2>3
    <3>2. th'[s].at = "forkret" /\ \A q \in Slots : state'[q] = IF q = s THEN "USED" ELSE state[q]
      BY <3>1, <1>a DEF At
    <3>3. \A q \in Slots \ {p} : Forking(q)' => Forking(q) /\ th'[q] = th[q] /\ th[q].arg # s
      BY <3>1, <3>2 DEF Forking, ForkInv
    <3> QED
      BY <2>1, <3>1, <3>2, <3>3 DEF ForkInv, Forking
  <2> QED
    BY <1>9, <2>2, <2>3, AllocEffect
<1>10. CASE fork_parent(c, p)
  <2>1. th[p].at = "fork_parent" /\ state' = state /\ Forking(p)
    BY <1>10 DEF fork_parent, On, Forking
  <2>2. th[p].arg \in Slots
    BY <2>1 DEF ForkInv
  <2>3. /\ \A q \in Slots : parent'[q] = IF q = th[p].arg THEN p ELSE parent[q]
        /\ \A q \in Slots \ {p} : th'[q] = th[q]
        /\ th'[p].at = "fork_run" /\ th'[p].arg = th[p].arg
    BY <1>10, <1>a DEF fork_parent, Threads
  <2>4. \A q \in Slots : Forking(q)' => Forking(q) /\ th'[q].arg = th[q].arg
    BY <2>1, <2>3 DEF Forking
  <2>5. state[th[p].arg] = "USED"
    BY <2>1 DEF ForkInv
  <2>6. \A q \in Slots \ {p} : Forking(q) => th[q].arg # th[p].arg
    BY <2>1 DEF ForkInv
  <2>7. /\ \A q \in Slots : Forking(q)' => th'[q].arg \in Slots /\ state'[th'[q].arg] = "USED"
        /\ \A q, r \in Slots : Forking(q)' /\ Forking(r)' /\ q # r => th'[q].arg # th'[r].arg
        /\ \A s \in Slots : state'[s] = "UNUSED" => parent'[s] = NoProc
    BY <2>1, <2>3, <2>4, <2>5 DEF ForkInv
  <2>8. /\ \A q \in Slots : th'[q].at = "fork_parent" => parent'[th'[q].arg] = NoProc
        /\ \A q \in Slots : th'[q].at = "fork_run" => parent'[th'[q].arg] = q
    BY <2>2, <2>3, <2>6 DEF ForkInv, Forking
  <2> QED
    BY <2>7, <2>8 DEF ForkInv, Forking
<1>11. CASE fork_run(c, p)
  <2>1. th[p].at = "fork_run" /\ parent' = parent /\ Forking(p)
    BY <1>11 DEF fork_run, On, Forking
  <2>2. th[p].arg \in Slots /\ state[th[p].arg] = "USED"
    BY <2>1 DEF ForkInv
  <2>3. /\ \A q \in Slots : state'[q] = IF q = th[p].arg THEN "RUNNABLE" ELSE state[q]
        /\ \A q \in Slots \ {p} : th'[q] = th[q]
        /\ th'[p].at = "fork_mask"
    BY <1>11, <1>a DEF fork_run, Threads
  <2>4. \A q \in Slots : Forking(q)' => q # p /\ Forking(q) /\ th'[q] = th[q] /\ th[q].arg # th[p].arg
    BY <2>1, <2>3 DEF Forking, ForkInv
  <2> QED
    BY <2>1, <2>3, <2>4 DEF ForkInv, Forking
<1> QED
  BY <1>1, <1>2, <1>3, <1>4, <1>5, <1>6, <1>7, <1>8, <1>9, <1>10, <1>11 DEF Act, PlainStep
=============================================================================
