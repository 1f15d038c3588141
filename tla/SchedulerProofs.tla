-------------------------- MODULE SchedulerProofs --------------------------
(***************************************************************************)
(* FCFS runs the oldest process of a scan, for every size of the table and *)
(* every number of CPUs.                                                   *)
(***************************************************************************)
EXTENDS Scheduler, TLAPS

Types ==
  /\ state \in [Slots -> {"UNUSED", "SLEEPING", "RUNNABLE", "RUNNING", "ZOMBIE"}]
  /\ ctime \in [Slots -> Nat] /\ ticks \in Nat
  /\ cproc \in [CPUs -> 0..NPROC] /\ fp \in [CPUs -> 1..End] /\ p \in [CPUs -> 0..NPROC]
  /\ since \in [CPUs -> SUBSET Slots] /\ reused \in [CPUs -> BOOLEAN]

\* What a scan is held to is still RUNNABLE.
SinceRunnable == \A c \in CPUs : since[c] \subseteq Runnable(state)

\* A scan that is under way has a choice as soon as it has passed a process it
\* is held to, and one that is no younger than any of those it has passed.
BestSoFar ==
  \A c \in CPUs : POLICY = "FCFS" /\ Goes(c) /\ ~reused[c] =>
    \A q \in since[c] : q < fp[c] => p[c] # None /\ ctime[p[c]] <= ctime[q]

IInv == Types /\ SinceRunnable /\ BestSoFar

\* The initial states satisfy the invariant: no scan has passed a slot.
LEMMA InitOld == Init => IInv
  <1> SUFFICES ASSUME Init PROVE IInv OBVIOUS
  <1>1. Types BY SchedulerAssumption DEF Init, Types, Slots, End, None
  <1>2. SinceRunnable BY SchedulerAssumption DEF Init, SinceRunnable, Runnable, Slots
  <1>3. BestSoFar BY SchedulerAssumption DEF Init, BestSoFar
  <1> QED BY <1>1, <1>2, <1>3 DEF IInv

\* A scan step: the slot it looks at is compared with the best so far.
LEMMA ScanOld == ASSUME IInv, NEW c \in CPUs, scan_rr(c) \/ scan_fcfs(c) PROVE IInv'
  <1> USE DEF IInv
  <1>1. UNCHANGED <<POLICY, state, ctime, ticks, cproc, since, reused>>
    BY DEF scan_rr, scan_fcfs, hist
  <1>2. fp[c] \in Slots /\ fp' \in [CPUs -> 1..End] /\ p' \in [CPUs -> 0..NPROC]
    <2>1. fp[c] \in Slots
      BY SchedulerAssumption DEF Types, scan_rr, scan_fcfs, Scans, Slots, End
    <2>2. fp[c] \in 0..NPROC /\ fp[c] + 1 \in 1..End
      BY <2>1, SchedulerAssumption DEF Slots, End
    <2>3. fp' = fp \/ fp' = [fp EXCEPT ![c] = fp[c] + 1] BY DEF scan_rr, scan_fcfs
    <2>4. p' = p \/ p' = [p EXCEPT ![c] = fp[c]] BY DEF scan_rr, scan_fcfs
    <2>5. fp' \in [CPUs -> 1..End] BY <2>2, <2>3 DEF Types
    <2>6. p' \in [CPUs -> 0..NPROC] BY <2>2, <2>4 DEF Types
    <2> QED BY <2>1, <2>5, <2>6
  <1>3. Types' BY <1>1, <1>2 DEF Types
  <1>4. SinceRunnable' BY <1>1 DEF SinceRunnable, Runnable
  <1>5. ASSUME NEW d \in CPUs, POLICY' = "FCFS", Goes(d)', ~reused'[d],
               NEW q \in since'[d], q < fp'[d]
        PROVE  p'[d] # None /\ ctime'[p'[d]] <= ctime'[q]
    <2>1. q \in Slots /\ state[q] = "RUNNABLE" /\ q \in since[d]
      BY <1>1, <1>5 DEF SinceRunnable, Runnable, Types
    <2>2. scan_fcfs(c) BY <1>1, <1>5 DEF scan_rr
    <2>3. Goes(d) /\ ~reused[d] /\ POLICY = "FCFS" BY <1>1, <1>5 DEF Goes
    <2>4. q < fp[d] => p[d] # None /\ ctime[p[d]] <= ctime[q] BY <2>1, <2>3 DEF BestSoFar
    <2>5. CASE d # c
      BY <1>1, <1>5, <2>2, <2>4, <2>5 DEF scan_fcfs, Types
    <2>6. CASE d = c
      <3>1. fp'[d] = fp[c] + 1 /\ fp[c] \in Nat
        BY <1>2, <2>2, <2>6 DEF scan_fcfs, Types, Slots
      <3>2. q <= fp[c] BY <1>5, <2>1, <3>1, <2>6 DEF Slots
      <3>3. ctime[q] \in Nat /\ ctime[fp[c]] \in Nat BY <1>2, <2>1 DEF Types
      <3>4. p[c] # None => ctime[p[c]] \in Nat BY DEF Types, Slots, None
      <3>5. CASE state[fp[c]] = "RUNNABLE" /\ Earlier(c, fp[c])
        <4>1. p'[c] = fp[c] BY <2>2, <3>5 DEF scan_fcfs, Types
        <4>2. fp[c] # None BY <1>2 DEF Slots, None
        <4>3. q = fp[c] \/ q < fp[c] BY <3>2, <1>2, <2>1 DEF Slots
        <4> QED BY <1>1, <2>4, <2>6, <3>3, <3>4, <3>5, <4>1, <4>2, <4>3 DEF Earlier
      <3>6. CASE ~(state[fp[c]] = "RUNNABLE" /\ Earlier(c, fp[c]))
        <4>1. p'[c] = p[c] BY <2>2, <3>6 DEF scan_fcfs, Types
        <4>2. q = fp[c] \/ q < fp[c] BY <3>2, <1>2, <2>1 DEF Slots
        <4>3. CASE q = fp[c]
          BY <1>1, <2>1, <2>6, <3>3, <3>4, <3>6, <4>1, <4>3 DEF Earlier
        <4>4. CASE q < fp[c] BY <1>1, <2>4, <2>6, <4>1, <4>4
        <4> QED BY <4>2, <4>3, <4>4
      <3> QED BY <3>5, <3>6
    <2> QED BY <2>5, <2>6
  <1> QED BY <1>3, <1>4, <1>5 DEF BestSoFar

\* A scheduler starts a new scan, after a dispatch or when its process stops: it
\* has passed nothing yet, and what the others are held to only shrinks.
LEMMA RestartOld ==
  ASSUME IInv, NEW c \in CPUs, Restart(c, state'), UNCHANGED <<POLICY, ctime, ticks>>,
         state' \in [Slots -> {"UNUSED", "SLEEPING", "RUNNABLE", "RUNNING", "ZOMBIE"}],
         cproc' \in [CPUs -> 0..NPROC], \A d \in CPUs \ {c} : cproc'[d] = cproc[d]
  PROVE  IInv'
  <1> USE DEF IInv
  <1>1. Types'
    <2>1. fp' \in [CPUs -> 1..End] /\ p' \in [CPUs -> 0..NPROC]
      BY SchedulerAssumption DEF Types, Restart, End, None
    <2>2. since' \in [CPUs -> SUBSET Slots] BY DEF Types, Restart, Runnable
    <2>3. reused' \in [CPUs -> BOOLEAN] BY DEF Types, Restart
    <2> QED BY <2>1, <2>2, <2>3 DEF Types
  <1>2. SinceRunnable' BY DEF Types, SinceRunnable, Restart, Runnable
  <1>3. ASSUME NEW d \in CPUs, POLICY' = "FCFS", Goes(d)', ~reused'[d],
               NEW q \in since'[d], q < fp'[d]
        PROVE  p'[d] # None /\ ctime'[p'[d]] <= ctime'[q]
    <2>1. CASE d = c
      <3>1. fp'[d] = 1 BY <2>1 DEF Restart, Types
      <3>2. q \in Slots BY <1>1, <1>3 DEF Types
      <3> QED BY <1>3, <3>1, <3>2 DEF Slots
    <2>2. CASE d # c
      <3>1. fp'[d] = fp[d] /\ p'[d] = p[d] /\ reused'[d] = reused[d] /\ q \in since[d]
        BY <1>3, <2>2 DEF Restart, Types
      <3>2. Goes(d) BY <1>3, <2>2 DEF Goes
      <3> QED BY <1>3, <3>1, <3>2 DEF BestSoFar
    <2> QED BY <2>1, <2>2
  <1> QED BY <1>1, <1>2, <1>3 DEF BestSoFar

\* A process is run, or given up by the CPU it was on.
LEMMA SwitchOld ==
  ASSUME IInv, NEW c \in CPUs, dispatch(c) \/ yield(c) \/ sleep(c) \/ exit(c)
  PROVE  IInv'
  <1> USE DEF IInv
  <1>1. CASE dispatch(c)
    <2>1. state' \in [Slots -> {"UNUSED", "SLEEPING", "RUNNABLE", "RUNNING", "ZOMBIE"}]
      BY <1>1 DEF dispatch, Types
    <2>2. cproc' \in [CPUs -> 0..NPROC] /\ \A d \in CPUs \ {c} : cproc'[d] = cproc[d]
      BY <1>1 DEF dispatch, Types, StillRunnable, Slots
    <2> QED BY <1>1, <2>1, <2>2, RestartOld DEF dispatch
  <1>2. ASSUME NEW st \in {"RUNNABLE", "SLEEPING", "ZOMBIE"}, Stops(c, st) PROVE IInv'
    <2>1. state' \in [Slots -> {"UNUSED", "SLEEPING", "RUNNABLE", "RUNNING", "ZOMBIE"}]
      BY <1>2 DEF Stops, Types
    <2>2. cproc' \in [CPUs -> 0..NPROC] /\ \A d \in CPUs \ {c} : cproc'[d] = cproc[d]
      BY <1>2, SchedulerAssumption DEF Stops, Types, None
    <2> QED BY <1>2, <2>1, <2>2, RestartOld DEF Stops
  <1> QED BY <1>1, <1>2 DEF yield, sleep, exit

\* What other processes do while a scan goes on: none of them makes a process the
\* scan is held to older, or its choice younger without marking it as reused.
LEMMA OthersOld ==
  ASSUME IInv,
         clockintr \/ (\E s \in Slots : wakeup(s) \/ freeproc(s) \/ \E c \in CPUs : fork(c, s))
  PROVE  IInv'
  <1> USE DEF IInv
  <1>1. CASE clockintr
    <2>1. Types' BY <1>1, SchedulerAssumption DEF clockintr, Types, hist
    <2>2. SinceRunnable' BY <1>1 DEF clockintr, SinceRunnable, Runnable, hist
    <2>3. BestSoFar' BY <1>1 DEF clockintr, BestSoFar, Goes, hist
    <2> QED BY <2>1, <2>2, <2>3
  <1>2. ASSUME NEW s \in Slots, wakeup(s) PROVE IInv'
    <2>1. Types' BY <1>2 DEF wakeup, Types, hist
    <2>2. SinceRunnable' BY <1>2 DEF wakeup, SinceRunnable, Runnable, hist, Types
    <2>3. BestSoFar' BY <1>2 DEF wakeup, BestSoFar, Goes, hist
    <2> QED BY <2>1, <2>2, <2>3
  <1>3. ASSUME NEW s \in Slots, freeproc(s) PROVE IInv'
    <2>1. Types' BY <1>3 DEF freeproc, Types, hist
    <2>2. SinceRunnable' BY <1>3 DEF freeproc, SinceRunnable, Runnable, hist, Types
    <2>3. ASSUME NEW d \in CPUs, POLICY' = "FCFS", Goes(d)', ~reused'[d],
                 NEW q \in since'[d], q < fp'[d]
          PROVE  p'[d] # None /\ ctime'[p'[d]] <= ctime'[q]
      <3>1. UNCHANGED <<POLICY, cproc, fp, p, since, reused>> BY <1>3 DEF freeproc, hist
      <3>2. p[d] # None /\ ctime[p[d]] <= ctime[q] BY <2>3, <3>1 DEF BestSoFar, Goes
      <3>3. q \in Slots /\ state[q] = "RUNNABLE" BY <2>3, <3>1 DEF SinceRunnable, Runnable
      <3>4. q # s /\ ctime'[q] = ctime[q] /\ ctime[q] \in Nat
        BY <1>3, <3>3 DEF freeproc, Types
      <3>5. p[d] \in Slots BY <3>2 DEF Types, Slots, None
      <3>6. ctime'[p[d]] = ctime[p[d]] \/ ctime'[p[d]] = 0 BY <1>3, <3>5 DEF freeproc, Types
      <3> QED BY <3>1, <3>2, <3>4, <3>6
    <2> QED BY <2>1, <2>2, <2>3 DEF BestSoFar
  <1>4. ASSUME NEW s \in Slots, NEW c \in CPUs, fork(c, s) PROVE IInv'
    <2>1. Types' BY <1>4 DEF fork, Types
    <2>2. SinceRunnable' BY <1>4 DEF fork, SinceRunnable, Runnable, Types
    <2>3. ASSUME NEW d \in CPUs, POLICY' = "FCFS", Goes(d)', ~reused'[d],
                 NEW q \in since'[d], q < fp'[d]
          PROVE  p'[d] # None /\ ctime'[p'[d]] <= ctime'[q]
      <3>1. UNCHANGED <<POLICY, cproc, fp, p, since>> /\ Goes(d) BY <1>4, <2>3 DEF fork, Goes
      <3>2. ~reused[d] /\ p[d] # s BY <1>4, <2>3, <3>1 DEF fork
      <3>3. p[d] # None /\ ctime[p[d]] <= ctime[q] BY <2>3, <3>1, <3>2 DEF BestSoFar
      <3>4. q \in Slots /\ state[q] = "RUNNABLE" BY <2>3, <3>1 DEF SinceRunnable, Runnable
      <3>5. ctime'[q] = ctime[q] BY <1>4, <3>4 DEF fork, Types
      <3>6. p[d] \in Slots BY <3>3 DEF Types, Slots, None
      <3>7. ctime'[p[d]] = ctime[p[d]] BY <1>4, <3>2, <3>6 DEF fork, Types
      <3> QED BY <3>1, <3>3, <3>5, <3>7
    <2> QED BY <2>1, <2>2, <2>3 DEF BestSoFar
  <1> QED BY <1>1, <1>2, <1>3, <1>4

\* Every step preserves the invariant.
LEMMA StepOld == IInv /\ [Next]_vars => IInv'
  <1> SUFFICES ASSUME IInv, [Next]_vars PROVE IInv' OBVIOUS
  <1>1. CASE Next
    BY <1>1, ScanOld, SwitchOld, OthersOld DEF Next, Sched
  <1>2. CASE UNCHANGED vars
    BY <1>2 DEF vars, hist, IInv, Types, SinceRunnable, BestSoFar, Runnable, Goes
  <1> QED BY <1>1, <1>2

\* A CPU gets a process only from a dispatch, at the end of a scan.
LEMMA RunsChoice ==
  ASSUME IInv, [Next]_vars, NEW c \in CPUs, POLICY = "FCFS", cproc[c] = None, cproc'[c] # None
  PROVE  fp[c] = End /\ cproc'[c] = p[c] /\ ctime' = ctime
  <1>1. Next BY DEF vars
  <1>2. ASSUME NEW d \in CPUs, Stops(d, "RUNNABLE") \/ Stops(d, "SLEEPING") \/ Stops(d, "ZOMBIE")
        PROVE  FALSE
    BY <1>2 DEF Stops, IInv, Types
  <1>3. PICK d \in CPUs : dispatch(d)
    BY <1>1, <1>2 DEF Next, Sched, scan_rr, scan_fcfs, yield, sleep, exit, wakeup, freeproc, fork,
                      clockintr
  <1>4. d = c BY <1>3 DEF dispatch, IInv, Types
  <1> QED
    BY <1>3, <1>4, SchedulerAssumption DEF dispatch, Choice, Chosen, Scans, IInv, Types, End

\* FCFS runs the process that was created first among those RUNNABLE all through
\* its scan, unless a slot it had chosen was reused, with any number of slots and
\* CPUs (OldestFirst).
THEOREM RunsOldest == Spec => OldestFirst
  <1>1. Init => IInv BY InitOld
  <1>2. IInv /\ [Next]_vars => IInv' BY StepOld
  <1>3. IInv /\ [Next]_vars =>
          [\A c \in CPUs :
             POLICY = "FCFS" /\ cproc[c] = None /\ cproc'[c] # None /\ ~reused[c] =>
               \A q \in since[c] : ctime[cproc'[c]] <= ctime[q]]_vars
    <2> SUFFICES ASSUME IInv, [Next]_vars, NEW c \in CPUs, POLICY = "FCFS", cproc[c] = None,
                        cproc'[c] # None, ~reused[c], NEW q \in since[c]
                 PROVE  ctime[cproc'[c]] <= ctime[q]
      OBVIOUS
    <2>1. fp[c] = End /\ cproc'[c] = p[c] BY RunsChoice
    <2>2. q \in Slots BY DEF IInv, Types
    <2>3. q < fp[c] BY <2>1, <2>2, SchedulerAssumption DEF Slots, End
    <2> QED BY <2>1, <2>3 DEF IInv, BestSoFar, Goes
  <1> QED BY <1>1, <1>2, <1>3, PTL DEF Spec, OldestFirst
=============================================================================
