---------------------------- MODULE MCSchedulers ----------------------------
(***************************************************************************)
(* Three builds of the scheduler and the clock: build says which of the    *)
(* modules moves.                                                          *)
(***************************************************************************)
EXTENDS Mlfq

CONSTANTS NL, RAND_MAX, MaxDebt, MaxTickets,
          NB, Priorities, LastTick, MaxRun, MaxSch,
          NC, TW, Elapse, MaxSleep

VARIABLES build, lp, ls, lquiet, bp, bticks, bs, steady, slept, cp, ticks, clk

lottery == INSTANCE Lottery
pbs == INSTANCE Pbs WITH MaxTicks <- LastTick
time == INSTANCE Clock

lvars == <<lp, ls, lquiet>>
bvars == <<bp, bticks, bs, steady, slept>>
kvars == <<cp, ticks, clk>>

AllInit ==
  build \in {"MLFQ", "LOTTERY", "PBS", "clock"} /\ Init /\ lottery!Init /\ pbs!Init /\ time!Init

AllNext ==
  /\ \/ build = "MLFQ" /\ Next /\ UNCHANGED <<lvars, bvars, kvars>>
     \/ build = "LOTTERY" /\ lottery!Next /\ UNCHANGED <<vars, bvars, kvars>>
     \/ build = "PBS" /\ pbs!Next /\ UNCHANGED <<vars, lvars, kvars>>
     \/ build = "clock" /\ time!Next /\ UNCHANGED <<vars, lvars, bvars>>
  /\ UNCHANGED build

AllSpec == AllInit /\ [][AllNext]_<<build, vars, lvars, bvars, kvars>>

-----------------------------------------------------------------------------
\* The properties of Lottery, Pbs and Clock, stated and explained there.
\* Lottery: tickets and parts of the range.
LotteryTypeOK == build = "LOTTERY" => lottery!TypeOK
\* Mlfq, Lottery, Pbs: the process a build picks is the one its rule names.  MLFQ:
\* the head of the first queue that is not empty, which has waited longest there;
\* processes an interrupt wakes behind the scan wait for the next pass.  LOTTERY:
\* the one in whose part of the range the draw falls, in a scan that nothing
\* disturbs and that meets no negative tickets.  PBS: one whose dynamic priority is
\* no greater than that of any process that did not change during the scan; ties
\* are broken as documented when none changed.
PicksRight == /\ PicksBest
              /\ [](build = "LOTTERY" => lottery!WinsByTickets)
              /\ [](build = "PBS" => pbs!PicksLowest)
\* Lottery: a draw that nobody wins is in the gap at the end.
MissesInGap == build = "LOTTERY" => lottery!MissesInGap
\* Lottery: somebody wins.
SomeoneWins == build = "LOTTERY" => lottery!SomeoneWins
\* Lottery: settickets() lasts.
TicketsKept == lottery!TicketsKept
\* Pbs: the scan's variables, times and counts.
PbsTypeOK == build = "PBS" => pbs!TypeOK
\* Pbs: the sleeping time is the time slept.
SleepMeasured == build = "PBS" => pbs!SleepMeasured
\* Pbs: the sleeping time is not negative.
SleepNonNegative == build = "PBS" => pbs!SleepNonNegative
\* Pbs: niceness follows the documented formula.
NicenessFormula == build = "PBS" => pbs!NicenessFormula
\* Clock: times have their types.
ClockTypeOK == build = "clock" => time!TypeOK
\* Clock: running time is at most the lifetime and one tick.
CountedOnce == build = "clock" => time!CountedOnce
\* Clock: the waiting time reported by waitx() is not negative.
WaitNonNegative == build = "clock" => time!WaitNonNegative
\* Clock: sys_sleep() does not oversleep.
NoOversleep == build = "clock" => time!NoOversleep
=============================================================================
