------------------------------- MODULE Clock -------------------------------
(***************************************************************************)
(* Time (kernel/trap.c, kernel/proc.c, kernel/sysproc.c): clockintr() with *)
(* update_time() and wakeup() slot by slot, sys_sleep(), and the times     *)
(* that waitx() reports.  ticks is unsigned and wraps at 2^TW.             *)
(***************************************************************************)
EXTENDS Integers, FiniteSets

CONSTANTS NC, TW,
          Elapse,        \* bound: ticks that pass
          MaxSleep       \* bound: longest sleep()

VARIABLES cp,       \* each slot: state, ctime, etime, rtime, killed, and its place
                    \* in sys_sleep() with the n and ticks0 there
          ticks,
          clk       \* clockintr(): its place and slot, and the ticks so far

kvars == <<cp, ticks, clk>>

CSlots == 1..NC
Wrap(x) == x % 2^TW
Unused == [state |-> "UNUSED", ctime |-> 0, etime |-> 0, rtime |-> 0, killed |-> FALSE,
           pc |-> "user", n |-> 0, ticks0 |-> 0]
TicksLocked == clk.pc # "idle" \/ \E s \in CSlots : cp[s].pc = "sleep"

-----------------------------------------------------------------------------
Later(t) == Wrap(t + 1)

clockintr ==
  /\ ~TicksLocked /\ clk.past < Elapse
  /\ ticks' = Later(ticks)
  /\ clk' = [pc |-> "update", at |-> 1, past |-> clk.past + 1]
  /\ UNCHANGED cp

Advance(next) ==
  clk' = IF clk.at < NC THEN [clk EXCEPT !.at = @ + 1] ELSE [clk EXCEPT !.pc = next, !.at = 1]

EveryProcess(c) == c.state # "UNUSED"
Running(c) == c.state = "RUNNING"

update_time ==
  /\ clk.pc = "update"
  /\ cp' = IF Running(cp[clk.at]) THEN [cp EXCEPT ![clk.at].rtime = @ + 1] ELSE cp
  /\ Advance("wake") /\ UNCHANGED ticks

Asleep(c) == c.state = "SLEEPING"
Wakes(c) == Asleep(c)

wakeup ==
  /\ clk.pc = "wake"
  /\ cp' = IF Wakes(cp[clk.at]) THEN [cp EXCEPT ![clk.at].state = "RUNNABLE"] ELSE cp
  /\ Advance("idle") /\ UNCHANGED ticks

-----------------------------------------------------------------------------
\* allocproc() reads ticks without tickslock.
allocproc(s) ==
  /\ cp[s].state = "UNUSED" /\ \E q \in CSlots : cp[q].state = "RUNNING"
  /\ cp' = [cp EXCEPT ![s] = [Unused EXCEPT !.state = "RUNNABLE", !.ctime = ticks]]
  /\ UNCHANGED <<ticks, clk>>

dispatch(s) ==
  /\ cp[s].state = "RUNNABLE"
  /\ cp' = [cp EXCEPT ![s].state = "RUNNING"]
  /\ UNCHANGED <<ticks, clk>>

yield(s) ==
  /\ cp[s].state = "RUNNING" /\ cp[s].pc # "sleep"
  /\ cp' = [cp EXCEPT ![s].state = "RUNNABLE"]
  /\ UNCHANGED <<ticks, clk>>

ExitTime == ticks
exit(s) ==
  /\ cp[s].state = "RUNNING" /\ cp[s].pc = "user" /\ s # 1
  /\ cp' = [cp EXCEPT ![s].state = "ZOMBIE", ![s].etime = ExitTime]
  /\ UNCHANGED <<ticks, clk>>

\* waitx() reports rtime and etime - ctime - rtime; freeproc().
Waited(c) == Wrap(c.etime - c.ctime - c.rtime)
waitx(s) ==
  /\ cp[s].state = "ZOMBIE"
  /\ cp' = [cp EXCEPT ![s] = Unused]
  /\ UNCHANGED <<ticks, clk>>

\* sys_sleep() with tickslock held: it looks at the clock and at killed and
\* then calls sleep(), which gives up tickslock with p->lock held.  kill()
\* does not take tickslock.  The first test sees no tick pass.
StillEarly(c) == Wrap(ticks - c.ticks0) < c.n /\ ~c.killed

sys_sleep(s, n) ==
  /\ cp[s].state = "RUNNING" /\ cp[s].pc = "user" /\ ~TicksLocked
  /\ 0 < n /\ ~cp[s].killed
  /\ cp' = [cp EXCEPT ![s].pc = "sleep", ![s].n = n, ![s].ticks0 = ticks]
  /\ UNCHANGED <<ticks, clk>>

sys_sleep_test(s) ==
  /\ cp[s].state = "RUNNING" /\ cp[s].pc = "test" /\ ~TicksLocked
  /\ cp' = [cp EXCEPT ![s] = IF StillEarly(@) THEN [@ EXCEPT !.pc = "sleep"]
                             ELSE [@ EXCEPT !.pc = "user", !.n = 0, !.ticks0 = 0]]
  /\ UNCHANGED <<ticks, clk>>

sleep(s) ==
  /\ cp[s].state = "RUNNING" /\ cp[s].pc = "sleep"
  /\ cp' = [cp EXCEPT ![s].state = "SLEEPING", ![s].pc = "test"]
  /\ UNCHANGED <<ticks, clk>>

kill(s) ==
  /\ cp[s].state \notin {"UNUSED", "ZOMBIE"} /\ ~cp[s].killed
  /\ cp' = [cp EXCEPT ![s].killed = TRUE,
                      ![s].state = IF @ = "SLEEPING" THEN "RUNNABLE" ELSE @]
  /\ UNCHANGED <<ticks, clk>>

\* ticks is about to wrap.
Init ==
  /\ ticks = 2^TW - 1 /\ clk = [pc |-> "idle", at |-> 1, past |-> 0]
  /\ cp = [s \in CSlots |-> IF s = 1 THEN [Unused EXCEPT !.state = "RUNNING", !.ctime = ticks]
                            ELSE Unused]

Next ==
  \/ clockintr \/ update_time \/ wakeup
  \/ \E s \in CSlots :
       \/ allocproc(s) \/ dispatch(s) \/ yield(s) \/ exit(s) \/ waitx(s)
       \/ sys_sleep_test(s) \/ sleep(s) \/ kill(s)
       \/ \E n \in 1..MaxSleep : sys_sleep(s, n)

Spec == Init /\ [][Next]_kvars

-----------------------------------------------------------------------------
\* Times have their types, and a process sleeps only inside sys_sleep().
TypeOK ==
  /\ ticks \in 0..(2^TW - 1) /\ clk.at \in CSlots
  /\ \A s \in CSlots :
       /\ {cp[s].ctime, cp[s].etime, cp[s].ticks0} \subseteq 0..(2^TW - 1)
       /\ cp[s].state = "SLEEPING" => cp[s].pc = "test"

\* The time that update_time() has counted for a process is at most its life in
\* ticks and one more, also when ticks wraps and a process comes or goes between
\* the two steps of clockintr().
CountedOnce ==
  \A s \in CSlots : cp[s].state = "ZOMBIE" => cp[s].rtime <= Wrap(cp[s].etime - cp[s].ctime) + 1

\* The waiting time that waitx() reports is not negative.
WaitNonNegative ==
  \A s \in CSlots : cp[s].state = "ZOMBIE" => cp[s].rtime <= Wrap(cp[s].etime - cp[s].ctime)

\* No tick is missed: outside clockintr() nobody is asleep in sys_sleep() whose
\* time is up.
NoOversleep == ~TicksLocked => \A s \in CSlots : ~(Asleep(cp[s]) /\ Wrap(ticks - cp[s].ticks0) >= cp[s].n)
=============================================================================
