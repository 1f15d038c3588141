----------------------------- MODULE Scheduler -----------------------------
(***************************************************************************)
(* How the RR and FCFS builds of scheduler() (kernel/proc.c) choose a      *)
(* process while other CPUs do the same: the table is scanned one p->lock  *)
(* at a time, and what was chosen is locked and looked at again before it  *)
(* is run.  Sections under one p->lock are atomic.                         *)
(***************************************************************************)
EXTENDS Integers, FiniteSets

CONSTANTS NPROC, CPUs,
          Builds,     \* the values of SCHEDULER in the Makefile: "RR", "FCFS"
          MaxTicks    \* bound: ticks that are told apart

ASSUME SchedulerAssumption ==
  NPROC \in Nat \ {0} /\ MaxTicks \in Nat /\ Builds \subseteq {"RR", "FCFS"}

Slots == 1..NPROC
None == 0
End == NPROC + 1      \* &proc[NPROC]

VARIABLES
  POLICY,      \* the build
  state, ctime, ticks,
  cproc,       \* c->proc
  fp, p,       \* of each CPU's scheduler: the slot it is at, and its choice
  since,       \* history: processes RUNNABLE all through this scan
  reused       \* history: the slot this scan had chosen got a new process

hist == <<since, reused>>
vars == <<POLICY, state, ctime, ticks, cproc, fp, p, hist>>

Runnable(S) == {s \in Slots : S[s] = "RUNNABLE"}
Goes(c) == cproc[c] = None

\* Does the loop replace its choice by slot s?
Later(c, s) == p[c] = None \/ ctime[p[c]] < ctime[s]
Earlier(c, s) == p[c] = None \/ ctime[p[c]] > ctime[s]

ScansAllButOne(c) == fp[c] < NPROC
Scans(c) == fp[c] <= NPROC

scan_rr(c) ==
  /\ POLICY = "RR" /\ Goes(c) /\ Scans(c) /\ p[c] = None
  /\ IF state[fp[c]] = "RUNNABLE"
     THEN p' = [p EXCEPT ![c] = fp[c]] /\ UNCHANGED fp       \* break
     ELSE fp' = [fp EXCEPT ![c] = @ + 1] /\ UNCHANGED p
  /\ UNCHANGED <<POLICY, state, ctime, ticks, cproc, hist>>

scan_fcfs(c) ==
  /\ POLICY = "FCFS" /\ Goes(c) /\ Scans(c)
  /\ p' = IF state[fp[c]] = "RUNNABLE" /\ Earlier(c, fp[c])
          THEN [p EXCEPT ![c] = fp[c]] ELSE p
  /\ fp' = [fp EXCEPT ![c] = @ + 1]
  /\ UNCHANGED <<POLICY, state, ctime, ticks, cproc, hist>>

\* The RR loop leaves p at the end of the table when nothing is RUNNABLE.
Choice(c) == IF POLICY = "RR" /\ p[c] = None THEN End ELSE p[c]
Chosen(c) == ~Scans(c) \/ (POLICY = "RR" /\ p[c] # None)

\* if (p) { acquire(&p->lock); if (p->state == RUNNABLE) ...
StillRunnable(s) == s \in Slots /\ state[s] = "RUNNABLE"

Restart(c, S) ==
  /\ fp' = [fp EXCEPT ![c] = 1] /\ p' = [p EXCEPT ![c] = None]
  /\ since' = [d \in CPUs |-> IF d # c THEN since[d] \cap Runnable(S)
                               ELSE IF cproc'[c] = None THEN Runnable(S) ELSE {}]
  /\ reused' = [reused EXCEPT ![c] = FALSE]

\* What lies behind the table is not a RUNNABLE process.
dispatch(c) ==
  /\ Goes(c) /\ Chosen(c)
  /\ LET s == Choice(c)
     IN IF StillRunnable(s)
        THEN /\ state' = [state EXCEPT ![s] = "RUNNING"]
             /\ cproc' = [cproc EXCEPT ![c] = s]
        ELSE UNCHANGED <<state, cproc>>
  /\ Restart(c, state')
  /\ UNCHANGED <<POLICY, ctime, ticks>>

\* The process on CPU c gives the CPU up; its scheduler starts a new scan.
Stops(c, st) ==
  /\ cproc[c] # None
  /\ state' = [state EXCEPT ![cproc[c]] = st]
  /\ cproc' = [cproc EXCEPT ![c] = None]
  /\ Restart(c, state')
  /\ UNCHANGED <<POLICY, ctime, ticks>>

\* Only the RR build yields on a timer interrupt.
yield(c) == POLICY = "RR" /\ Stops(c, "RUNNABLE")
sleep(c) == Stops(c, "SLEEPING")
exit(c) == cproc[c] # 1 /\ Stops(c, "ZOMBIE")

\* A process in wait() frees the slot of a zombie.  A scan may still have it as
\* its choice, and read the creation time it is left with.
freeproc(s) ==
  /\ state[s] = "ZOMBIE" /\ \E c \in CPUs : cproc[c] # None
  /\ state' = [state EXCEPT ![s] = "UNUSED"]
  /\ ctime' = [ctime EXCEPT ![s] = 0]
  /\ UNCHANGED <<POLICY, ticks, cproc, fp, p, hist>>

wakeup(s) ==
  /\ state[s] = "SLEEPING"
  /\ state' = [state EXCEPT ![s] = "RUNNABLE"]
  /\ UNCHANGED <<POLICY, ctime, ticks, cproc, fp, p, hist>>

fork(c, s) ==
  /\ cproc[c] # None /\ state[s] = "UNUSED"
  /\ state' = [state EXCEPT ![s] = "RUNNABLE"]
  /\ ctime' = [ctime EXCEPT ![s] = ticks]
  /\ reused' = [d \in CPUs |-> reused[d] \/ (Goes(d) /\ p[d] = s)]
  /\ UNCHANGED <<POLICY, ticks, cproc, fp, p, since>>

clockintr ==
  /\ ticks < MaxTicks
  /\ ticks' = ticks + 1
  /\ UNCHANGED <<POLICY, state, ctime, cproc, fp, p, hist>>

Init ==
  /\ POLICY \in Builds
  /\ state = [s \in Slots |-> IF s = 1 THEN "RUNNABLE" ELSE "UNUSED"]
  /\ ctime = [s \in Slots |-> 0] /\ ticks = 0
  /\ cproc = [c \in CPUs |-> None]
  /\ fp = [c \in CPUs |-> 1] /\ p = [c \in CPUs |-> None]
  /\ since = [c \in CPUs |-> {1}] /\ reused = [c \in CPUs |-> FALSE]

Sched(c) == scan_rr(c) \/ scan_fcfs(c) \/ dispatch(c)

Next ==
  \/ clockintr
  \/ \E s \in Slots : wakeup(s) \/ freeproc(s)
  \/ \E c \in CPUs : \/ Sched(c) \/ yield(c) \/ sleep(c) \/ exit(c)
                     \/ \E s \in Slots : fork(c, s)

Spec == Init /\ [][Next]_vars

\* A CPU never stops, and the timer keeps interrupting the process it runs.
FairSpec == Spec /\ \A c \in CPUs : WF_vars(Sched(c)) /\ WF_vars(yield(c))

-----------------------------------------------------------------------------
\* The table and the locals of scheduler() keep their types, and the CPUs run
\* exactly the RUNNING processes, each on one CPU: two schedulers that have
\* made the same choice do not both run it.
TypeOK ==
  /\ POLICY \in Builds
  /\ state \in [Slots -> {"UNUSED", "SLEEPING", "RUNNABLE", "RUNNING", "ZOMBIE"}]
  /\ ctime \in [Slots -> 0..MaxTicks] /\ ticks \in 0..MaxTicks
  /\ cproc \in [CPUs -> 0..NPROC] /\ fp \in [CPUs -> 1..End] /\ p \in [CPUs -> 0..NPROC]
  /\ \A s \in Slots :
       Cardinality({c \in CPUs : cproc[c] = s}) = IF state[s] = "RUNNING" THEN 1 ELSE 0

\* FCFS runs the process that was created first among those that were
\* RUNNABLE all through its scan, whatever other CPUs run, end, free and wake
\* meanwhile, unless a slot was given to a new process while it was the choice
\* of the scan: p->ctime is read without p's lock, and then names another
\* process.
OldestFirst ==
  [][\A c \in CPUs :
       POLICY = "FCFS" /\ cproc[c] = None /\ cproc'[c] # None /\ ~reused[c] =>
         \A q \in since[c] : ctime[cproc'[c]] <= ctime[q]]_vars

\* "schedules the task with the lowest creation time": the same without the
\* exception for a slot that is given to a new process.
LowestCreationTime ==
  [][\A c \in CPUs :
       POLICY = "FCFS" /\ cproc[c] = None /\ cproc'[c] # None =>
         \A q \in since[c] : ctime[cproc'[c]] <= ctime[q]]_vars

\* The CPUs do not all idle while a process is RUNNABLE: scheduler() finds it,
\* wherever in the table it is.
NoIdling ==
  \A s \in Slots : state[s] = "RUNNABLE" ~> \E c \in CPUs : cproc[c] # None

\* Round robin: a RUNNABLE process gets a CPU.
EveryoneRuns == \A s \in Slots : state[s] = "RUNNABLE" ~> state[s] = "RUNNING"

\* "choose a process to run": what the loop of scheduler() goes on with is an
\* element of the process table.
ChoiceInTable == \A c \in CPUs : Goes(c) /\ Chosen(c) => Choice(c) # End
=============================================================================
