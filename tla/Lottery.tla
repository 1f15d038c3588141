------------------------------ MODULE Lottery ------------------------------
(***************************************************************************)
(* The LOTTERY build of scheduler() (kernel/proc.c) on one CPU, while the  *)
(* processes on other CPUs go on: one pass adds the tickets up, a second   *)
(* gives each process its part of the range of rand() and looks for the    *)
(* draw.  Each slot is looked at under its own p->lock.                    *)
(***************************************************************************)
EXTENDS Integers, FiniteSets

CONSTANTS NL, RAND_MAX,
          MaxDebt, MaxTickets       \* bounds on the tickets of a process: -MaxDebt..MaxTickets

VARIABLES lp,       \* each slot: state, tickets, and the child it is about to give tickets to
          ls,       \* the scheduler: its place, fp, tot_tk, rv, sv
          lquiet    \* history: no slot has changed since this scan began

lvars == <<lp, ls, lquiet>>

LSlots == 1..NL
Unused == [state |-> "UNUSED", tickets |-> 0, child |-> 0]
Start == [pc |-> "sum", fp |-> 1, tot |-> 0, rv |-> 0, sv |-> 0]
Runnable == {s \in LSlots : lp[s].state = "RUNNABLE"}
Disturb == lquiet' = FALSE
Ints == -(MaxDebt + MaxTickets)..(MaxDebt + MaxTickets)     \* given to settickets()

-----------------------------------------------------------------------------
\* The processes, on other CPUs.
dispatched(s) ==
  /\ lp[s].state = "RUNNABLE"
  /\ lp' = [lp EXCEPT ![s].state = "RUNNING"]
  /\ Disturb /\ UNCHANGED ls

stops(s, st) ==
  /\ lp[s].state = "RUNNING" /\ lp[s].child = 0
  /\ st = "UNUSED" => s # 1 /\ \A q \in LSlots : lp[q].child # s     \* its parent has to wait for it
  /\ lp' = [lp EXCEPT ![s] = IF st = "UNUSED" THEN Unused ELSE [@ EXCEPT !.state = st]]
  /\ Disturb /\ UNCHANGED ls

wakeup(s) ==
  /\ lp[s].state = "SLEEPING"
  /\ lp' = [lp EXCEPT ![s].state = "RUNNABLE"]
  /\ Disturb /\ UNCHANGED ls

FirstTickets == 1

\* fork() makes the child RUNNABLE with the one ticket of allocproc(), and
\* gives it its parent's tickets after it has released np->lock.
fork1(s, c) ==
  /\ lp[s].state = "RUNNING" /\ lp[s].child = 0 /\ lp[c].state = "UNUSED"
  /\ lp' = [lp EXCEPT ![c] = [state |-> "RUNNABLE", tickets |-> FirstTickets, child |-> 0], ![s].child = c]
  /\ Disturb /\ UNCHANGED ls

fork2(s) ==
  /\ lp[s].child # 0
  /\ lp' = [lp EXCEPT ![lp[s].child].tickets = lp[s].tickets, ![s].child = 0]
  /\ Disturb /\ UNCHANGED ls

\* tk is any int: a process may end up with no tickets, or with less.
sys_settickets(s, tk) ==
  /\ lp[s].state = "RUNNING" /\ lp[s].child = 0
  /\ lp[s].tickets + tk \in (-MaxDebt)..MaxTickets
  /\ lp' = [lp EXCEPT ![s].tickets = @ + tk]
  /\ Disturb /\ UNCHANGED ls

-----------------------------------------------------------------------------
\* The scan: two passes over the slots.
Counts(s) == lp[s].state = "RUNNABLE"

sum ==
  /\ ls.pc = "sum" /\ ls.fp <= NL
  /\ ls' = [ls EXCEPT !.fp = @ + 1, !.tot = @ + IF Counts(ls.fp) THEN lp[ls.fp].tickets ELSE 0]
  /\ UNCHANGED <<lp, lquiet>>

\* rand() is a function of ticks: whatever the tick makes it.
rand(v) ==
  /\ ls.pc = "sum" /\ ls.fp = NL + 1
  /\ ls' = [ls EXCEPT !.pc = "draw", !.fp = 1, !.rv = v]
  /\ UNCHANGED <<lp, lquiet>>

Abs(n) == IF n < 0 THEN -n ELSE n

\* int division rounds towards zero, and by zero gives -1 on RISC-V.  tot_tk is 0
\* when the RUNNABLE processes have no tickets, or became RUNNABLE after the first
\* pass had been at their slots.
prob(s) ==
  LET n == lp[s].tickets * RAND_MAX
  IN  IF ls.tot = 0 THEN -1
      ELSE IF (n < 0) = (ls.tot < 0) THEN Abs(n) \div Abs(ls.tot) ELSE -(Abs(n) \div Abs(ls.tot))
Wins(s) == ls.sv <= ls.rv /\ ls.rv < ls.sv + prob(s)

look ==
  /\ ls.pc = "draw" /\ ls.fp <= NL
  /\ ls' = IF lp[ls.fp].state # "RUNNABLE" THEN [ls EXCEPT !.fp = @ + 1]
           ELSE IF Wins(ls.fp) THEN [ls EXCEPT !.pc = "won"]
           ELSE [ls EXCEPT !.fp = @ + 1, !.sv = @ + prob(ls.fp)]
  /\ UNCHANGED <<lp, lquiet>>

\* No winner: p is still 0, and the loop starts again.
nobody ==
  /\ ls.pc = "draw" /\ ls.fp = NL + 1
  /\ ls' = Start /\ lquiet' = TRUE /\ UNCHANGED lp

\* The winner runs if it is still RUNNABLE; this CPU scans again when it stops.
Runs(s) == lp[s].state = "RUNNABLE"

dispatch ==
  /\ ls.pc = "won"
  /\ ls' = IF Runs(ls.fp) THEN [Start EXCEPT !.pc = "runs", !.fp = ls.fp] ELSE Start
  /\ lp' = IF Runs(ls.fp) THEN [lp EXCEPT ![ls.fp].state = "RUNNING"] ELSE lp
  /\ lquiet' = TRUE

again ==
  /\ ls.pc = "runs" /\ lp[ls.fp].state # "RUNNING"
  /\ ls' = Start /\ lquiet' = TRUE /\ UNCHANGED lp

Init ==
  /\ lp = [s \in LSlots |-> IF s = 1 THEN [state |-> "RUNNABLE", tickets |-> FirstTickets, child |-> 0]
                            ELSE Unused]
  /\ ls = Start /\ lquiet = TRUE

Next ==
  \/ sum \/ look \/ nobody \/ dispatch \/ again
  \/ \E v \in 0..RAND_MAX : rand(v)
  \/ \E s \in LSlots :
       \/ dispatched(s) \/ wakeup(s) \/ fork2(s)
       \/ \E st \in {"RUNNABLE", "SLEEPING", "UNUSED"} : stops(s, st)
       \/ \E c \in LSlots : fork1(s, c)
       \/ \E tk \in Ints : sys_settickets(s, tk)

Spec == Init /\ [][Next]_lvars

-----------------------------------------------------------------------------
\* The slots and the scheduler's variables stay in their ranges.
TypeOK ==
  /\ \A s \in LSlots : lp[s].tickets \in (-MaxDebt)..MaxTickets
  /\ ls.rv \in 0..RAND_MAX /\ ls.fp \in 1..(NL + 1)
  /\ ls.tot \in -(NL * MaxDebt)..(NL * MaxTickets) /\ ls.sv \in Int

Tickets(S) == LET f[n \in 0..NL] == IF n = 0 THEN 0
                                    ELSE f[n - 1] + IF n \in S THEN lp[n].tickets ELSE 0
              IN f[NL]

\* In a scan that nothing disturbs a process wins when the draw is in its part
\* of the range, where parts are as long as its tickets say, up to the rounding
\* of one for each process before it; a process without tickets does not win.
\* (Nothing is said of scans that meet a negative number of tickets: settickets()
\* takes any int, and parts of the range then overlap.)
WinsByTickets ==
  lquiet /\ ls.pc = "won" /\ (\A s \in Runnable : lp[s].tickets >= 0) =>
    LET before == {s \in Runnable : s < ls.fp}
    IN /\ ls.fp \in Runnable
       /\ ls.rv * Tickets(Runnable) < Tickets(before \cup {ls.fp}) * RAND_MAX
       /\ (ls.rv + Cardinality(before)) * Tickets(Runnable) >= Tickets(before) * RAND_MAX

\* In such a scan nobody wins only when the draw is in the gap that rounding
\* leaves at the end of the range, shorter than the number of processes.
MissesInGap ==
  /\ lquiet /\ ls.pc = "draw" /\ ls.fp = NL + 1 /\ Tickets(Runnable) > 0
  /\ \A s \in Runnable : lp[s].tickets >= 0
  => ls.rv + Cardinality(Runnable) > RAND_MAX

\* "weighted to the number of tickets a process owns": some process wins.
SomeoneWins ==
  ~(lquiet /\ ls.pc = "draw" /\ ls.fp = NL + 1 /\ Tickets(Runnable) > 0)

\* "used to gain tickets by a process": what settickets() has added stays, until
\* the process itself calls it again.
TicketsKept ==
  [][\A s \in LSlots :
       lp[s].tickets > FirstTickets /\ lp'[s] # Unused /\ ~(\E tk \in Ints : sys_settickets(s, tk)) =>
         lp'[s].tickets >= lp[s].tickets]_lvars
=============================================================================
