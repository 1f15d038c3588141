-------------------------------- MODULE Pbs --------------------------------
(***************************************************************************)
(* The priority based build (PBS parts of kernel/proc.c and kernel/trap.c, *)
(* sys_set_priority): one CPU scans the table slot by slot, each under its *)
(* p->lock, while processes on other CPUs run, sleep, wake and fork.       *)
(***************************************************************************)
EXTENDS Integers, FiniteSets

CONSTANTS NB,
          Priorities,                  \* values given to set_priority()
          MaxTicks, MaxRun, MaxSch     \* bounds on ticks, pbs_rtime and sch_no

VARIABLES bp,       \* each slot: state, stime, wtime, pbs_rtime, staticP, sch_no, ctime,
                    \* and whether it is about to yield (set_priority)
          bticks,   \* ticks
          bs,       \* the scheduler: its place, fp, p (0 for none) and min_dp
          steady,   \* history: slots that have not changed since this scan began
          slept     \* history: how long a RUNNABLE process slept before, -1 for not known

bvars == <<bp, bticks, bs, steady, slept>>

BSlots == 1..NB
Unused == [state |-> "UNUSED", stime |-> 0, wtime |-> 0, pbs_rtime |-> 0, staticP |-> 60,
           sch_no |-> 0, ctime |-> 0, yields |-> FALSE]
Runnable == {s \in BSlots : bp[s].state = "RUNNABLE"}
Disturb(s) == steady' = steady \ {s} /\ UNCHANGED bs
Runs(s) == bp[s].state = "RUNNING" /\ ~bp[s].yields

\* int division: towards zero, and -1 by zero (RISC-V).
CDiv(a, b) ==
  IF b = 0 THEN -1
  ELSE IF (a < 0) = (b < 0) THEN (IF a < 0 THEN -a ELSE a) \div (IF b < 0 THEN -b ELSE b)
  ELSE -((IF a < 0 THEN -a ELSE a) \div (IF b < 0 THEN -b ELSE b))

Asleep(c) == c.wtime - c.stime
niceness(c) ==
  IF Asleep(c) = 0 /\ c.pbs_rtime = 0 THEN 5 ELSE CDiv(Asleep(c), Asleep(c) + c.pbs_rtime) * 10

Clamp(lo, x, hi) == IF x > hi THEN hi ELSE IF x < lo THEN lo ELSE x
dp(c) == Clamp(0, c.staticP - niceness(c) + 5, 100)

-----------------------------------------------------------------------------
\* The processes.
Dispatched(c) ==
  [c EXCEPT !.state = "RUNNING", !.pbs_rtime = 0, !.stime = 0, !.wtime = 0, !.sch_no = @ + 1]

dispatched(s) ==
  /\ bp[s].state = "RUNNABLE" /\ bp[s].sch_no < MaxSch
  /\ bp' = [bp EXCEPT ![s] = Dispatched(@)] /\ slept' = [slept EXCEPT ![s] = 0]
  /\ Disturb(s) /\ UNCHANGED bticks

yield(s) ==
  /\ bp[s].state = "RUNNING"
  /\ bp' = [bp EXCEPT ![s].state = "RUNNABLE", ![s].yields = FALSE]
  /\ Disturb(s) /\ UNCHANGED <<bticks, slept>>

sleep(s) ==
  /\ Runs(s)
  /\ bp' = [bp EXCEPT ![s].state = "SLEEPING", ![s].stime = bticks]
  /\ Disturb(s) /\ UNCHANGED <<bticks, slept>>

wakeup(s) ==
  /\ bp[s].state = "SLEEPING"
  /\ bp' = [bp EXCEPT ![s].state = "RUNNABLE", ![s].wtime = bticks]
  /\ Disturb(s) /\ UNCHANGED <<bticks, slept>>

\* kill() makes a sleeper RUNNABLE and leaves wtime alone.
kill(s) ==
  /\ bp[s].state = "SLEEPING"
  /\ bp' = [bp EXCEPT ![s].state = "RUNNABLE"] /\ slept' = [slept EXCEPT ![s] = -1]
  /\ Disturb(s) /\ UNCHANGED bticks

\* The child has its parent's static priority (fork).
fork(s, c) ==
  /\ Runs(s) /\ bp[c].state = "UNUSED"
  /\ bp' = [bp EXCEPT ![c] = [Unused EXCEPT !.state = "RUNNABLE", !.ctime = bticks,
                                            !.staticP = bp[s].staticP]]
  /\ slept' = [slept EXCEPT ![c] = 0]
  /\ Disturb(c) /\ UNCHANGED bticks

exit(s) ==
  /\ Runs(s) /\ s # 1
  /\ bp' = [bp EXCEPT ![s] = Unused] /\ slept' = [slept EXCEPT ![s] = 0]
  /\ Disturb(s) /\ UNCHANGED bticks

\* Process s sets the priority of t under t's lock, and yields when it has lowered
\* the value.  (A pid of 0 names an UNUSED slot, whose fields allocproc() sets.)
sys_set_priority(s, t, sp) ==
  /\ Runs(s) /\ bp[t].state # "UNUSED"
  /\ LET set == [bp EXCEPT ![t] = [@ EXCEPT !.staticP = sp, !.pbs_rtime = 0, !.stime = 0, !.wtime = 0]]
     IN  bp' = [set EXCEPT ![s].yields = bp[t].staticP > sp]
  /\ slept' = [slept EXCEPT ![t] = IF bp[t].state = "SLEEPING" THEN -1 ELSE 0]
  /\ Disturb(t) /\ UNCHANGED bticks

\* usertrap() on a timer interrupt runs over the table; the loops of several
\* CPUs mix, so any slot may be counted at any time.
usertrap(s) ==
  /\ bp[s].state = "RUNNING" /\ bp[s].pbs_rtime < MaxRun
  /\ bp' = [bp EXCEPT ![s].pbs_rtime = @ + 1]
  /\ Disturb(s) /\ UNCHANGED <<bticks, slept>>

clockintr ==
  /\ bticks < MaxTicks /\ bticks' = bticks + 1
  /\ slept' = [s \in BSlots |-> IF bp[s].state = "SLEEPING" /\ slept[s] # -1 THEN slept[s] + 1
                                ELSE slept[s]]
  /\ UNCHANGED <<bp, bs, steady>>

-----------------------------------------------------------------------------
\* scheduler(): fp against the best so far.  p is read without its lock.
Takes(f, p) ==
  \/ dp(bp[f]) < bs.min_dp
  \/ dp(bp[f]) = bs.min_dp /\ bp[f].sch_no < bp[p].sch_no
  \/ dp(bp[f]) = bs.min_dp /\ bp[f].sch_no = bp[p].sch_no /\ bp[f].ctime < bp[p].ctime

NewMin(f) == dp(bp[f])

Start == [pc |-> "scan", fp |-> 1, p |-> 0, min_dp |-> 103]

look ==
  /\ bs.pc = "scan"
  /\ LET f == bs.fp
         seen == IF bp[f].state = "RUNNABLE" /\ Takes(f, bs.p)
                 THEN [bs EXCEPT !.p = f, !.min_dp = NewMin(f)] ELSE bs
     IN  bs' = IF f < NB THEN [seen EXCEPT !.fp = @ + 1] ELSE [seen EXCEPT !.pc = "dispatch"]
  /\ UNCHANGED <<bp, bticks, slept, steady>>

\* The process runs from here on as one of the others.
run ==
  /\ bs.pc = "dispatch" /\ (bs.p # 0 => bp[bs.p].sch_no < MaxSch)
  /\ IF bs.p # 0 /\ bp[bs.p].state = "RUNNABLE"
     THEN bp' = [bp EXCEPT ![bs.p] = Dispatched(@)] /\ slept' = [slept EXCEPT ![bs.p] = 0]
     ELSE UNCHANGED <<bp, slept>>
  /\ bs' = Start /\ steady' = BSlots /\ UNCHANGED bticks

Init ==
  /\ bp = [s \in BSlots |-> IF s = 1 THEN [Unused EXCEPT !.state = "RUNNABLE"] ELSE Unused]
  /\ bticks = 0 /\ bs = Start /\ steady = BSlots /\ slept = [s \in BSlots |-> 0]

Next ==
  \/ \E s \in BSlots :
       \/ dispatched(s) \/ yield(s) \/ sleep(s) \/ wakeup(s) \/ kill(s) \/ exit(s) \/ usertrap(s)
       \/ \E t \in BSlots : fork(s, t) \/ \E sp \in Priorities : sys_set_priority(s, t, sp)
  \/ clockintr \/ look \/ run

Spec == Init /\ [][Next]_bvars

-----------------------------------------------------------------------------
\* The scheduler reads only slots it has, min_dp stays in the range of dp, and
\* the times and counts of a process are never negative.
TypeOK ==
  /\ bs.fp \in BSlots /\ bs.p \in 0..NB /\ bs.min_dp \in 0..100 \cup {103}
  /\ bs.p = 0 <=> bs.min_dp = 103
  /\ \A s \in BSlots :
       /\ bp[s].stime \in 0..MaxTicks /\ bp[s].wtime \in 0..MaxTicks /\ bp[s].ctime \in 0..MaxTicks
       /\ bp[s].pbs_rtime \in 0..MaxRun /\ bp[s].sch_no \in 0..MaxSch

\* Whatever other CPUs did during the scan, scheduler() has made a choice when some
\* process was RUNNABLE and unchanged all through it, and the choice had, when it was
\* made, a dynamic priority no greater than that process has.  When no process
\* changed, the choice has the least dynamic priority, and among those the least
\* sch_no, then the least ctime.
PicksLowest ==
  bs.pc = "dispatch" =>
    /\ \A s \in Runnable \cap steady : bs.p # 0 /\ bs.min_dp <= dp(bp[s])
    /\ bs.p # 0 /\ steady = BSlots =>
         /\ bs.p \in Runnable
         /\ LET key(s) == <<dp(bp[s]), bp[s].sch_no, bp[s].ctime>>
            IN  \A s \in Runnable : LET k == key(s)
                                        b == key(bs.p)
                                    IN  \/ b[1] < k[1]
                                        \/ b[1] = k[1] /\ b[2] < k[2]
                                        \/ b[1] = k[1] /\ b[2] = k[2] /\ b[3] <= k[3]

\* The sleeping time the niceness is computed from is the time the process
\* slept since it last ran, unless kill() woke it or set_priority() cleared it.
SleepMeasured ==
  \A s \in Runnable : slept[s] # -1 => Asleep(bp[s]) = slept[s]

\* README.md: the sleeping time is wake_time less sleep_time, a time, never negative.
SleepNonNegative == \A s \in Runnable : Asleep(bp[s]) >= 0

\* README.md: niceness is Int(sleeping time / (sleeping time + running time) * 10).
NicenessFormula ==
  \A s \in Runnable : Asleep(bp[s]) > 0 =>
    niceness(bp[s]) = (Asleep(bp[s]) * 10) \div (Asleep(bp[s]) + bp[s].pbs_rtime)
=============================================================================
