---------------------------- MODULE MCProcTable ----------------------------
(***************************************************************************)
(* ProcTable with a few slots and two CPUs, and below it, on its own, what *)
(* its locks do to interrupts (Locks): part says which one moves.          *)
(***************************************************************************)
EXTENDS ProcTable, TLC

CONSTANTS NCPU, NT

VARIABLES part, sie, noff, intena, on, lk, stack, lstate

locks == INSTANCE Locks WITH state <- lstate

lkvars == <<sie, noff, intena, on, lk, stack, lstate>>

Symmetry == Permutations(CPUs)

AllInit == part \in {"table", "locks"} /\ Init /\ locks!Init
AllNext ==
  \/ part = "table" /\ Next /\ UNCHANGED <<part, lkvars>>
  \/ part = "locks" /\ locks!Next /\ UNCHANGED <<part, vars>>
AllSpec == AllInit /\ [][AllNext]_<<vars, part, lkvars>>

-----------------------------------------------------------------------------
\* The properties of Locks, stated and explained there.
\* Locks: a process is on one CPU.
LocksTypeOK == part = "locks" => locks!TypeOK
\* Locks: acquire, release, pop_off and sched do not panic.
NoPanic == part = "locks" => locks!NoPanic
\* Locks: interrupts are on where no spin lock is held and no interrupt served.
InterruptsRight == part = "locks" => locks!InterruptsRight
\* Locks: no two CPUs wait for each other's locks.
NoCycle == part = "locks" => locks!NoCycle
=============================================================================
