-------------------------------- MODULE Log --------------------------------
(***************************************************************************)
(* The redo log of kernel/log.c: concurrent file-system calls between      *)
(* begin_op and end_op, group commit, a crash before any disk write, and   *)
(* recovery (itself interrupted by crashes).  A disk write of one block is *)
(* atomic.  log.lock makes each operation on the in-memory header one      *)
(* action; commit() runs without it, one disk write per action.            *)
(***************************************************************************)
EXTENDS Integers, Sequences, FiniteSets

CONSTANTS Ops,         \* threads making file-system calls
          Blocks,      \* home blocks
          Values,
          MAXOPBLOCKS, LOGSIZE,
          NLOG         \* sb.nlog: blocks of the on-disk log, header included

ASSUME LogAssumption ==
  /\ IsFiniteSet(Ops) /\ IsFiniteSet(Blocks)
  /\ MAXOPBLOCKS \in Nat \ {0} /\ LOGSIZE \in Nat /\ NLOG \in Nat
  /\ MAXOPBLOCKS <= LOGSIZE

VARIABLES
  disk, dhead, dlog,   \* on disk: home blocks, log header, log blocks
  cache,               \* contents of the home blocks in the buffer cache
  lh,                  \* log.lh.block[0 .. log.lh.n - 1]
  outstanding, committing,
  pc,                  \* of each thread
  wr,                  \* the blocks a call has written so far
  cpc, tail            \* where commit() or recovery is

dvars == <<disk, dhead, dlog>>
vars == <<disk, dhead, dlog, cache, lh, outstanding, committing, pc, wr, cpc, tail>>

PC == {"idle", "asleep", "woken", "in", "commit"}
CPC == {"none", "write_log", "write_head", "install", "clear", "done",
        "read_head", "recover", "rclear"}
Recovering == cpc \in {"read_head", "recover", "rclear"}
LogSlots == 1..LOGSIZE

InLog(b) == \E k \in 1..Len(lh) : lh[k] = b
wakeup(f) == [o \in Ops |-> IF f[o] = "asleep" THEN "woken" ELSE f[o]]

\* begin_op(): is there room for one more call that writes MAXOPBLOCKS?
FitsIgnoringOthers == Len(lh) + MAXOPBLOCKS <= LOGSIZE
Fits == Len(lh) + (outstanding + 1) * MAXOPBLOCKS <= LOGSIZE

begin_op(o) ==
  /\ ~Recovering /\ pc[o] \in {"idle", "woken"}
  /\ IF committing \/ ~Fits
     THEN /\ pc' = [pc EXCEPT ![o] = "asleep"]
          /\ UNCHANGED <<outstanding, wr>>
     ELSE /\ pc' = [pc EXCEPT ![o] = "in"]
          /\ outstanding' = outstanding + 1
          /\ wr' = [wr EXCEPT ![o] = {}]
  /\ UNCHANGED <<dvars, cache, lh, committing, cpc, tail>>

\* A call writes at most MAXOPBLOCKS different blocks (param.h).  The test
\* for "too big a transaction" is made before absorption is tried.
MayWrite(o, b) == b \in wr[o] \/ Cardinality(wr[o]) < MAXOPBLOCKS
TooBig == Len(lh) >= LOGSIZE \/ Len(lh) >= NLOG - 1

Absorb(b) == InLog(b)

log_write(o, b, v) ==
  /\ pc[o] = "in" /\ MayWrite(o, b)
  /\ ~TooBig          \* else panic: too big a transaction
  /\ outstanding >= 1 \* else panic: log_write outside of trans
  /\ cache' = [cache EXCEPT ![b] = v]
  /\ lh' = IF Absorb(b) THEN lh ELSE Append(lh, b)
  /\ wr' = [wr EXCEPT ![o] = @ \cup {b}]
  /\ UNCHANGED <<dvars, outstanding, committing, pc, cpc, tail>>

\* end_op(): the last call out commits; another one only gives back room.
LastOut == outstanding = 1

\* commit(): write_log() comes first, if anything is logged at all.
Logged == Len(lh) > 0
HeadFirst == "write_head"
CommitStart == "write_log"

end_op(o) ==
  /\ pc[o] = "in"
  /\ ~committing      \* else panic: log.committing
  /\ outstanding' = outstanding - 1
  /\ IF LastOut
     THEN /\ committing' = TRUE
          /\ pc' = [pc EXCEPT ![o] = "commit"]
          /\ cpc' = IF Logged THEN CommitStart ELSE "done"
          /\ tail' = 0
     ELSE /\ pc' = wakeup([pc EXCEPT ![o] = "idle"])
          /\ UNCHANGED <<committing, cpc, tail>>
  /\ UNCHANGED <<dvars, cache, lh, wr>>

(***************************************************************************)
(* commit(), one disk write at a time.                                     *)
(***************************************************************************)
Advance(more, next) ==
  IF tail + 1 < Len(lh)
  THEN tail' = tail + 1 /\ cpc' = more
  ELSE tail' = 0 /\ cpc' = next

write_log ==
  /\ cpc = "write_log"
  /\ dlog' = [dlog EXCEPT ![tail + 1] = cache[lh[tail + 1]]]
  /\ Advance("write_log", "write_head")
  /\ UNCHANGED <<disk, dhead, cache, lh, outstanding, committing, pc, wr>>

write_head ==
  /\ cpc = "write_head"
  /\ dhead' = lh
  /\ cpc' = "install"
  /\ UNCHANGED <<disk, dlog, cache, lh, outstanding, committing, pc, wr, tail>>

install_trans ==
  /\ cpc = "install"
  /\ disk' = [disk EXCEPT ![lh[tail + 1]] = dlog[tail + 1]]
  /\ Advance("install", "clear")
  /\ UNCHANGED <<dhead, dlog, cache, lh, outstanding, committing, pc, wr>>

\* log.lh.n = 0; write_head()
erase ==
  /\ cpc = "clear"
  /\ lh' = <<>>
  /\ dhead' = <<>>
  /\ cpc' = "done"
  /\ UNCHANGED <<disk, dlog, cache, outstanding, committing, pc, wr, tail>>

NoWakeup(f) == f
DoneWakeup(f) == wakeup(f)

\* The end of end_op().
commit_done ==
  /\ cpc = "done"
  /\ committing' = FALSE
  /\ pc' = DoneWakeup([o \in Ops |-> IF pc[o] = "commit" THEN "idle" ELSE pc[o]])
  /\ cpc' = "none"
  /\ UNCHANGED <<dvars, cache, lh, outstanding, wr, tail>>

(***************************************************************************)
(* A crash loses everything but the disk; initlog() runs recover_from_log. *)
(***************************************************************************)
Crash ==
  /\ cache' = disk
  /\ lh' = <<>>
  /\ outstanding' = 0
  /\ committing' = FALSE
  /\ pc' = [o \in Ops |-> "idle"]
  /\ wr' = [o \in Ops |-> {}]
  /\ cpc' = "read_head"
  /\ tail' = 0
  /\ UNCHANGED dvars

read_head ==
  /\ cpc = "read_head"
  /\ lh' = dhead
  /\ cpc' = IF Len(dhead) > 0 THEN "recover" ELSE "rclear"
  /\ UNCHANGED <<dvars, cache, outstanding, committing, pc, wr, tail>>

\* install_trans(1)
recover ==
  /\ cpc = "recover"
  /\ disk' = [disk EXCEPT ![lh[tail + 1]] = dlog[tail + 1]]
  /\ cache' = disk'
  /\ Advance("recover", "rclear")
  /\ UNCHANGED <<dhead, dlog, lh, outstanding, committing, pc, wr>>

recover_done ==
  /\ cpc = "rclear"
  /\ lh' = <<>>
  /\ dhead' = <<>>
  /\ cpc' = "none"
  /\ UNCHANGED <<disk, dlog, cache, outstanding, committing, pc, wr, tail>>

-----------------------------------------------------------------------------
\* A freshly booted system with an empty log (mkfs writes zeroes).
Init ==
  /\ disk \in [Blocks -> Values]
  /\ dhead = <<>>
  /\ dlog \in {[k \in LogSlots |-> v] : v \in Values}
  /\ cache = disk
  /\ lh = <<>> /\ outstanding = 0 /\ committing = FALSE
  /\ pc = [o \in Ops |-> "idle"]
  /\ wr = [o \in Ops |-> {}]
  /\ cpc = "none" /\ tail = 0

Call(o) == \/ begin_op(o) \/ end_op(o)
           \/ \E b \in Blocks, v \in Values : log_write(o, b, v)

CommitStep == \/ write_log \/ write_head \/ install_trans \/ erase \/ commit_done
RecoverStep == read_head \/ recover \/ recover_done

Next == (\E o \in Ops : Call(o)) \/ CommitStep \/ RecoverStep \/ Crash

Spec == Init /\ [][Next]_vars

\* commit() and recovery are run by a thread that is scheduled again and
\* again; a sleeping thread that was woken tries again; a call ends.
FairSpec ==
  /\ Spec
  /\ WF_vars(CommitStep) /\ WF_vars(RecoverStep)
  /\ \A o \in Ops : WF_vars(end_op(o)) /\ WF_vars(begin_op(o) /\ pc[o] = "woken")

-----------------------------------------------------------------------------
Distinct(s) == \A j, k \in 1..Len(s) : s[j] = s[k] => j = k
BlockSeq(s) == /\ s \in Seq(Blocks) /\ Len(s) <= LOGSIZE /\ Distinct(s)

\* The state of log.c keeps its types: the header in memory and the one on
\* disk name at most LOGSIZE blocks and none of them twice.
TypeOK ==
  /\ disk \in [Blocks -> Values] /\ cache \in [Blocks -> Values]
  /\ dlog \in [LogSlots -> Values]
  /\ BlockSeq(dhead) /\ BlockSeq(lh)
  /\ outstanding \in Nat /\ committing \in BOOLEAN
  /\ pc \in [Ops -> PC] /\ wr \in [Ops -> SUBSET Blocks]
  /\ cpc \in CPC /\ tail \in 0..LOGSIZE

In == {o \in Ops : pc[o] = "in"}

\* What recovery would make of the disk as it is.
Recovered ==
  [b \in Blocks |-> IF \E k \in 1..Len(dhead) : dhead[k] = b
                    THEN dlog[CHOOSE k \in 1..Len(dhead) : dhead[k] = b]
                    ELSE disk[b]]

\* log.outstanding counts the calls under way, and commit() and calls under
\* way exclude each other.
GroupCommit ==
  /\ outstanding = Cardinality(In)
  /\ committing => In = {}

\* The room begin_op reserves is there: what the calls under way may still
\* write fits in the header beside what is logged.
Reserve == {r \in In \X (1..MAXOPBLOCKS) : r[2] > Cardinality(wr[r[1]])}
Reservation == Len(lh) + Cardinality(Reserve) <= LOGSIZE

\* Somebody is there to wake a sleeping begin_op: a call under way or a commit.
NoLostWakeup ==
  (\E o \in Ops : pc[o] = "asleep") => outstanding > 0 \/ committing

\* When the last end_op has returned, every update survives a crash.
Durable == ~committing /\ outstanding = 0 /\ ~Recovering => Recovered = cache

\* A call that keeps to MAXOPBLOCKS blocks never meets "too big a transaction".
NoTooBig ==
  \A o \in Ops, b \in Blocks : pc[o] = "in" /\ MayWrite(o, b) => ~TooBig

\* The log implements atomic group commit: recovery finds the disk as of the
\* last commit, whatever disk write the crash preceded.
Atomic == INSTANCE AtomicLog
            WITH stable <- Recovered,
                 cur <- IF Recovering THEN Recovered ELSE cache,
                 active <- In
AtomicCommit == Atomic!Spec

(***************************************************************************)
(* The inductive invariant: how far commit() or recovery has come, and     *)
(* what that says of the log blocks, the header and the home blocks.       *)
(***************************************************************************)
Committing == {"write_log", "write_head", "install", "clear", "done"}

PhaseInv ==
  /\ committing <=> cpc \in Committing
  /\ Recovering => \A o \in Ops : pc[o] = "idle"
  /\ cpc = "none" /\ In = {} => lh = <<>>
  /\ cpc = "done" => lh = <<>>
  /\ cpc \in {"write_log", "install", "recover"} => tail < Len(lh)
  /\ cpc \in {"write_head", "read_head"} => tail = 0
  /\ cpc = "write_head" => Len(lh) > 0

HomeIsCache == \A b \in Blocks : InLog(b) \/ disk[b] = cache[b]
LogIsCache(n) == \A k \in 1..n : dlog[k] = cache[lh[k]]
HomeIsLog(n) == \A k \in 1..n : disk[lh[k]] = dlog[k]

DiskInv ==
  /\ cpc \in {"none", "write_log", "write_head", "done"} => dhead = <<>>
  /\ cpc \in {"install", "clear", "recover", "rclear"} => dhead = lh
  /\ cpc = "write_log" => LogIsCache(tail)
  /\ cpc \in {"write_head", "install", "clear"} => LogIsCache(Len(lh))
  /\ cpc \in {"install", "recover"} => HomeIsLog(tail)
  /\ cpc \in {"clear", "rclear"} => HomeIsLog(Len(lh))
  /\ IF Recovering THEN cache = disk ELSE HomeIsCache

IInv == TypeOK /\ GroupCommit /\ PhaseInv /\ DiskInv

\* A thread that sleeps in begin_op is woken, or the machine crashes.
SleeperWakes == \A o \in Ops : pc[o] = "asleep" ~> pc[o] # "asleep"
=============================================================================
