---------------------------- MODULE ProcParents -----------------------------
(***************************************************************************)
(* Proofs about the process table: its steps keep ParentInv, the children  *)
(* of a process that exits.                                                *)
(***************************************************************************)
EXTENDS ProcForks

\* A process inside the code wait_lock guards runs on the CPU that holds it.
LEMMA Holder ==
  ASSUME TypeOK, CpuInv, WaitInv, NEW q \in Slots, th[q].at \in HoldsWait
  PROVE  state[q] = "RUNNING" /\ \E d \in CPUs : cproc[d] = q /\ wait_lock = d
<1>1. th[q].at \notin Parked /\ q # NoProc
  BY DEF HoldsWait, Parked, Slots, NoProc
<1>2. PICK d \in CPUs : cproc[d] = q
  BY <1>1 DEF CpuInv
<1>3. plock[q] = NoCpu
  BY <1>1 DEF CpuInv
<1> QED
  BY <1>1, <1>2, <1>3 DEF CpuInv, WaitInv

\* While a process holds wait_lock no other one is in that code, and nobody is
\* while it is free.
LEMMA OneHolder ==
  ASSUME TypeOK, CpuInv, WaitInv
  PROVE  /\ \A p, q \in Slots : th[p].at \in HoldsWait /\ th[q].at \in HoldsWait => p = q
         /\ wait_lock = NoCpu => \A q \in Slots : th[q].at \notin HoldsWait
  BY Holder, ProcAssumption

Live == {"RUNNABLE", "RUNNING", "SLEEPING", "ZOMBIE"}

\* The steps outside exit() that change no parent.
ParentQuiet ==
  /\ parent' = parent
  /\ \A q \in Slots : Exiting(q)' => th'[q] = th[q]
  /\ \A s \in Slots : state'[s] \in Live => state[s] \in Live
  /\ \A s \in Slots : state'[s] \in {"UNUSED", "ZOMBIE"} => state'[s] = state[s]
  /\ \A s \in Slots : state'[s] = "USED" => state[s] \in {"UNUSED", "USED"}

\* They keep ParentInv.
LEMMA ParentQuietKeeps ==
  ASSUME TypeOK, ParentInv, ParentQuiet PROVE ParentInv'
<1>1. initproc \in Slots
  BY ProcAssumption DEF initproc, Slots
<1>2. \A q \in Slots : Exiting(q)' => Exiting(q) /\ th'[q] = th[q]
  BY DEF ParentQuiet, Exiting
<1>3. \A s \in Slots \ {initproc} : state'[s] \in Live => parent'[s] # NoProc
  BY DEF ParentQuiet, ParentInv, Live
<1>4. \A s \in Slots : parent'[s] # NoProc => state'[parent'[s]] \notin {"UNUSED", "ZOMBIE"}
  <2>1. \A s \in Slots : parent[s] # NoProc => parent[s] \in Slots
    BY ProcAssumption DEF TypeOK, Slots, NoProc
  <2> QED
    BY <2>1 DEF ParentQuiet, ParentInv
<1>5. /\ \A q \in Slots : Exiting(q)' => \A s \in Slots : s < th'[q].i => parent'[s] # q
      /\ \A q \in Slots : th'[q].at = "wakeup" => th'[q].ret \in {"reparent", "zombie"}
      /\ \A q \in Slots : th'[q].at = "wakeup" /\ th'[q].ret = "zombie" => th'[q].i > NPROC /\ th'[q].chn = parent'[q]
  BY <1>2 DEF ParentQuiet, ParentInv, Exiting
<1>6. ~Exiting(initproc)' /\ state'[initproc] \notin {"UNUSED", "USED", "ZOMBIE"}
  BY <1>1, <1>2 DEF ParentQuiet, ParentInv
<1> QED
  BY <1>3, <1>4, <1>5, <1>6 DEF ParentInv, Exiting, Live, initproc

\* A step keeps ParentInv.
LEMMA ParentStep ==
  ASSUME TypeOK, CpuInv, WaitInv, ForkInv, ParentInv,
         NEW c \in CPUs, NEW p \in Slots, swtch_out(c) \/ Act(c, p)
  PROVE  ParentInv'
<1>a. /\ th \in [Slots -> Threads] /\ th[p] \in Threads /\ state \in [Slots -> States]
      /\ parent \in [Slots -> 0..NPROC] /\ th[p].i \in 1..(NPROC + 1) /\ NPROC \in Nat
      /\ \A k \in 1..(NPROC + 1) : k <= NPROC => k \in Slots
  <2>1. /\ th \in [Slots -> Threads] /\ state \in [Slots -> States] /\ parent \in [Slots -> 0..NPROC]
    BY DEF TypeOK
  <2> QED
    BY <2>1, FieldFacts, ProcAssumption DEF Slots
<1>b. /\ \A q \in Slots : q # NoProc /\ q \in Int
      /\ \A s \in Slots : parent[s] # NoProc => parent[s] \in Slots
      /\ initproc \in Slots
  BY ProcAssumption DEF TypeOK, Slots, NoProc, initproc
<1>1. CASE PlainStep(c, p)
  <2>1. Plain(p)
    BY <1>1, PlainSteps
  <2>2. \A q \in Slots : Exiting(q)' => th'[q] = th[q]
    BY <2>1 DEF Plain, Special, HoldsWait, Exiting
  <2> QED
    BY <2>1, <2>2, ParentQuietKeeps DEF Plain, ParentQuiet, Live
<1>2. CASE wait(c, p)
  <2>0. On(c, p, "wait")
    BY <1>2 DEF wait
  <2>1. th[p].at = "wait" /\ state[p] = "RUNNING"
    BY <2>0, OnFacts
  <2>2. \A q \in Slots : Exiting(q)' => th'[q] = th[q]
    BY <1>2, <2>1, <1>a DEF wait, Go, At, Exiting, Threads
  <2>3. /\ parent' = parent
        /\ \A s \in Slots : state'[s] \in Live => state[s] \in Live
        /\ \A s \in Slots : state'[s] \in {"UNUSED", "USED", "ZOMBIE"} => state'[s] = state[s]
    BY <1>2, <2>1, <1>a DEF wait, Live
  <2> QED
    BY <2>2, <2>3, ParentQuietKeeps DEF ParentQuiet
<1>3. CASE wait_nokid(c, p)
  <2>0. On(c, p, "nokid")
    BY <1>3 DEF wait_nokid
  <2>1. th[p].at = "nokid" /\ state[p] = "RUNNING"
    BY <2>0, OnFacts
  <2>2. \A q \in Slots : Exiting(q)' => th'[q] = th[q]
    BY <1>3, <2>1, <1>a DEF wait_nokid, Go, At, Exiting, Threads
  <2>3. /\ parent' = parent
        /\ \A s \in Slots : state'[s] \in Live => state[s] \in Live
        /\ \A s \in Slots : state'[s] \in {"UNUSED", "USED", "ZOMBIE"} => state'[s] = state[s]
    BY <1>3, <2>1, <1>a DEF wait_nokid, Live
  <2> QED
    BY <2>2, <2>3, ParentQuietKeeps DEF ParentQuiet
<1>4. CASE sleep(c, p)
  <2>0. On(c, p, "sleep")
    BY <1>4 DEF sleep
  <2>1. th[p].at = "sleep" /\ state[p] = "RUNNING"
    BY <2>0, OnFacts
  <2>2. \A q \in Slots : Exiting(q)' => th'[q] = th[q]
    BY <1>4, <2>1, <1>a DEF sleep, Go, At, Exiting, Threads
  <2>3. /\ parent' = parent
        /\ \A s \in Slots : state'[s] \in Live => state[s] \in Live
        /\ \A s \in Slots : state'[s] \in {"UNUSED", "USED", "ZOMBIE"} => state'[s] = state[s]
    BY <1>4, <2>1, <1>a DEF sleep, Live
  <2> QED
    BY <2>2, <2>3, ParentQuietKeeps DEF ParentQuiet
<1>5. CASE allocproc(c, p)
  <2>1. parent' = parent /\ \A q \in Slots : Exiting(q)' => th'[q] = th[q]
    BY <1>5, AllocEffect DEF Exiting, At
  <2>2. /\ \A s \in Slots : state'[s] \in Live => state[s] \in Live
        /\ \A s \in Slots : state'[s] \in {"UNUSED", "ZOMBIE"} => state'[s] = state[s]
        /\ \A s \in Slots : state'[s] = "USED" => state[s] \in {"UNUSED", "USED"}
    BY <1>5, <1>a, AllocEffect DEF Live
  <2> QED
    BY <2>1, <2>2, ParentQuietKeeps DEF ParentQuiet
<1>6. CASE fork_parent(c, p)
  <2>0. On(c, p, "fork_parent") /\ wait_lock = NoCpu /\ state' = state
    BY <1>6 DEF fork_parent
  <2>1. th[p].at = "fork_parent" /\ state[p] = "RUNNING" /\ Forking(p)
    BY <2>0, OnFacts DEF Forking
  <2>2. th[p].arg \in Slots /\ state[th[p].arg] = "USED"
    BY <2>1 DEF ForkInv
  <2>3. /\ \A q \in Slots : parent'[q] = IF q = th[p].arg THEN p ELSE parent[q]
        /\ \A q \in Slots \ {p} : th'[q] = th[q]
        /\ th'[p].at = "fork_run"
    BY <1>6, <1>a DEF fork_parent, Threads
  <2>4. \A q \in Slots : th'[q].at \notin {"reparent", "wakeup"}
    BY <2>0, <2>3, OneHolder DEF HoldsWait
  <2>5. \A s \in Slots : parent'[s] # NoProc => state'[parent'[s]] \notin {"UNUSED", "ZOMBIE"}
    BY <2>0, <2>1, <2>3 DEF ParentInv
  <2> QED
    BY <2>0, <2>3, <2>4, <2>5, <1>b DEF ParentInv, Exiting
<1>7. CASE fork_run(c, p)
  <2>1. th[p].at = "fork_run" /\ parent' = parent /\ Forking(p)
    BY <1>7 DEF fork_run, On, Forking
  <2>2. th[p].arg \in Slots /\ state[th[p].arg] = "USED" /\ parent[th[p].arg] = p
    BY <2>1 DEF ForkInv
  <2>3. /\ \A q \in Slots : state'[q] = IF q = th[p].arg THEN "RUNNABLE" ELSE state[q]
        /\ \A q \in Slots \ {p} : th'[q] = th[q]
        /\ th'[p].at = "fork_mask"
    BY <1>7, <1>a DEF fork_run, Threads
  <2>4. \A q \in Slots : Exiting(q)' => Exiting(q) /\ th'[q] = th[q]
    BY <2>3 DEF Exiting
  <2>5. \A s \in Slots \ {initproc} : state'[s] \in Live => parent'[s] # NoProc
    BY <2>1, <2>2, <2>3, <1>b DEF ParentInv, Live
  <2>6. \A s \in Slots : parent'[s] # NoProc => state'[parent'[s]] \notin {"UNUSED", "ZOMBIE"}
    BY <2>1, <2>3, <1>b DEF ParentInv
  <2> QED
    BY <2>1, <2>3, <2>4, <2>5, <2>6, <1>b DEF ParentInv, Exiting, Live
<1>8. CASE wait_scan(c, p)
  <2>1. On(c, p, "scan")
    BY <1>8, ScanEffect
  <2>2. th[p].at = "scan"
    BY <2>1, OnFacts
  <2>3. \A q \in Slots : th'[q].at \notin {"reparent", "wakeup"}
    BY <1>8, <2>2, ScanEffect, OneHolder DEF HoldsWait
  <2>4. CASE state' = state /\ parent' = parent
    BY <2>3, <2>4, ParentQuietKeeps DEF ParentQuiet, Exiting
  <2>5. CASE /\ th[p].i \in Slots /\ state[th[p].i] = "ZOMBIE"
             /\ state' = [state EXCEPT ![th[p].i] = "UNUSED"]
             /\ parent' = [parent EXCEPT ![th[p].i] = NoProc]
    <3>1. \A s \in Slots :
            /\ state'[s] = IF s = th[p].i THEN "UNUSED" ELSE state[s]
            /\ parent'[s] = IF s = th[p].i THEN NoProc ELSE parent[s]
      BY <2>5, <1>a
    <3>2. \A s \in Slots : parent'[s] # NoProc => state'[parent'[s]] \notin {"UNUSED", "ZOMBIE"}
      <4>1. \A s \in Slots : parent[s] # th[p].i
        BY <2>5, <1>b DEF ParentInv
      <4> QED
        BY <3>1, <4>1, <1>b DEF ParentInv
    <3>3. \A s \in Slots \ {initproc} : state'[s] \in Live => parent'[s] # NoProc
      BY <3>1 DEF ParentInv, Live
    <3>4. state'[initproc] \notin {"UNUSED", "USED", "ZOMBIE"}
      BY <2>5, <3>1, <1>b DEF ParentInv
    <3> QED
      BY <2>3, <3>2, <3>3, <3>4, <1>b DEF ParentInv, Exiting, Live, initproc
  <2> QED
    BY <1>8, <2>4, <2>5, ScanEffect
<1>9. CASE exit(c, p)
  <2>1. state' = state /\ parent' = parent /\ p # initproc
    BY <1>9 DEF exit
  <2>2. th'[p].at = "reparent" /\ th'[p].i = 1 /\ \A q \in Slots \ {p} : th'[q] = th[q]
    BY <1>9, <1>a DEF exit, Go, At
  <2>3. \A s \in Slots : ~(s < 1)
    BY DEF Slots
  <2> QED
    BY <2>1, <2>2, <2>3, <1>b DEF ParentInv, Exiting
<1>10. CASE reparent(c, p)
  <2>1. On(c, p, "reparent") /\ state' = state
    BY <1>10, ReparentEffect
  <2>2. th[p].at = "reparent" /\ p # initproc /\ state[p] = "RUNNING"
    BY <2>1, OnFacts DEF ParentInv, Exiting
  <2>3. \A q \in Slots \ {p} : th'[q] = th[q] /\ th'[q].at \notin {"reparent", "wakeup"}
    BY <1>10, <2>2, ReparentEffect, OneHolder DEF HoldsWait
  <2>4. CASE th[p].i > NPROC /\ UNCHANGED parent
    <3>1. /\ th'[p].at = "wakeup" /\ th'[p].i = th[p].i /\ th'[p].chn = parent[p] /\ th'[p].ret = "zombie"
      BY <1>10, <2>4, <1>a, ReparentEffect DEF Slots
    <3> QED
      BY <2>1, <2>2, <2>3, <2>4, <3>1, <1>b DEF ParentInv, Exiting
  <2>5. CASE th[p].i \in Slots /\ parent[th[p].i] = p
    <3>1. /\ parent' = [parent EXCEPT ![th[p].i] = initproc]
          /\ th'[p].at = "wakeup" /\ th'[p].i = th[p].i + 1 /\ th'[p].ret = "reparent"
      BY <1>10, <2>5, <1>a, ReparentEffect DEF Slots
    <3>2. \A s \in Slots : parent'[s] = IF s = th[p].i THEN initproc ELSE parent[s]
      BY <3>1, <1>a
    <3>3. \A s \in Slots : s < th[p].i + 1 => parent'[s] # p
      <4>1. \A s \in Slots : s < th[p].i + 1 => s < th[p].i \/ s = th[p].i
        BY <1>a DEF Slots
      <4> QED
        BY <2>2, <3>2, <4>1 DEF ParentInv, Exiting
    <3>4. \A s \in Slots : parent'[s] # NoProc => state'[parent'[s]] \notin {"UNUSED", "ZOMBIE"}
      BY <2>1, <3>2 DEF ParentInv
    <3>5. \A s \in Slots \ {initproc} : state'[s] \in Live => parent'[s] # NoProc
      BY <2>1, <3>2, <1>b DEF ParentInv, Live
    <3> QED
      BY <2>1, <2>2, <2>3, <3>1, <3>3, <3>4, <3>5, <1>b DEF ParentInv, Exiting, Live
  <2>6. CASE th[p].i \in Slots /\ parent[th[p].i] # p /\ UNCHANGED parent
    <3>1. th'[p].at = "reparent" /\ th'[p].i = th[p].i + 1
      BY <1>10, <2>6, <1>a, ReparentEffect DEF Slots
    <3>2. \A s \in Slots : s < th[p].i + 1 => parent'[s] # p
      <4>1. \A s \in Slots : s < th[p].i + 1 => s < th[p].i \/ s = th[p].i
        BY <1>a DEF Slots
      <4> QED
        BY <2>2, <2>6, <4>1 DEF ParentInv, Exiting
    <3> QED
      BY <2>1, <2>2, <2>3, <2>6, <3>1, <3>2, <1>b DEF ParentInv, Exiting
  <2> QED
    BY <1>10, <2>4, <2>5, <2>6, ReparentEffect
<1>11. CASE wakeup(c, p)
  <2>1. On(c, p, "wakeup") /\ parent' = parent
    BY <1>11, WakeupEffect
  <2>2. th[p].at = "wakeup" /\ p # initproc /\ state[p] = "RUNNING"
    BY <2>1, OnFacts DEF ParentInv, Exiting
  <2>3. \A q \in Slots \ {p} : th'[q] = th[q] /\ th'[q].at \notin {"reparent", "wakeup"}
    BY <1>11, <2>2, WakeupEffect, OneHolder DEF HoldsWait
  <2>4. CASE th'[p].at = "reparent" /\ th'[p].i = th[p].i /\ state' = state
    BY <2>1, <2>2, <2>3, <2>4, <1>b DEF ParentInv, Exiting
  <2>5. CASE th[p].ret # "reparent" /\ state' = [state EXCEPT ![p] = "ZOMBIE"] /\ th'[p] = At("zombie")
    <3>1. /\ \A s \in Slots : state'[s] = IF s = p THEN "ZOMBIE" ELSE state[s]
          /\ th'[p].at = "zombie"
      BY <2>5, <1>a DEF At
    <3>2. \A s \in Slots : parent[s] # p
      <4>1. th[p].i > NPROC /\ \A s \in Slots : s < th[p].i => parent[s] # p
        BY <2>2, <2>5 DEF ParentInv, Exiting
      <4>2. \A s \in Slots : s < th[p].i
        BY <4>1, <1>a DEF Slots
      <4> QED
        BY <4>1, <4>2
    <3>3. \A s \in Slots : parent'[s] # NoProc => state'[parent'[s]] \notin {"UNUSED", "ZOMBIE"}
      BY <2>1, <3>1, <3>2, <1>b DEF ParentInv
    <3>4. \A s \in Slots \ {initproc} : state'[s] \in Live => parent'[s] # NoProc
      BY <2>1, <2>2, <3>1 DEF ParentInv, Live
    <3> QED
      BY <2>1, <2>2, <2>3, <3>1, <3>3, <3>4, <1>b DEF ParentInv, Exiting, Live
  <2>6. CASE /\ th[p].j \in Slots
             /\ state' = IF th[p].j # p /\ Wakes(th[p].j, th[p].chn)
                         THEN [state EXCEPT ![th[p].j] = "RUNNABLE"] ELSE state
             /\ th'[p].at = "wakeup" /\ th'[p].i = th[p].i /\ th'[p].chn = th[p].chn /\ th'[p].ret = th[p].ret
    <3>1. \A s \in Slots : state'[s] = state[s] \/ (state[s] = "SLEEPING" /\ state'[s] = "RUNNABLE")
      BY <2>6, <1>a DEF Wakes
    <3>2. \A s \in Slots : parent'[s] # NoProc => state'[parent'[s]] \notin {"UNUSED", "ZOMBIE"}
      BY <2>1, <3>1, <1>b DEF ParentInv
    <3>3. \A s \in Slots \ {initproc} : state'[s] \in Live => parent'[s] # NoProc
      BY <2>1, <3>1 DEF ParentInv, Live
    <3> QED
      BY <2>1, <2>2, <2>3, <2>6, <3>1, <3>2, <3>3, <1>b DEF ParentInv, Exiting, Live
  <2> QED
    BY <1>11, <2>4, <2>5, <2>6, WakeupEffect
<1> QED
  BY <1>1, <1>2, <1>3, <1>4, <1>5, <1>6, <1>7, <1>8, <1>9, <1>10, <1>11 DEF Act, PlainStep
=============================================================================
