----------------------------- MODULE LogProofs -----------------------------
(***************************************************************************)
(* The redo log is correct for any number of threads, blocks, values and   *)
(* any log size: the type invariant, group commit, no lost wakeup, and     *)
(* the implementation of AtomicLog.                                        *)
(***************************************************************************)
EXTENDS Log, FiniteSetTheorems, TLAPS

\* The threads inside a call are finitely many.
LEMMA InFinite == IsFiniteSet(In)
  BY LogAssumption, FS_Subset DEF In

\* The initial state satisfies the inductive invariant.
LEMMA InitIInv == Init => IInv
<1> SUFFICES ASSUME Init PROVE IInv
  OBVIOUS
<1>1. In = {}
  BY DEF Init, In
<1>2. TypeOK
  <2>1. dlog \in [LogSlots -> Values] /\ disk \in [Blocks -> Values] /\ cache = disk
    BY DEF Init
  <2>2. BlockSeq(<<>>)
    BY LogAssumption DEF BlockSeq, Distinct
  <2>3. pc \in [Ops -> PC] /\ wr \in [Ops -> SUBSET Blocks]
    BY DEF Init, PC
  <2>4. outstanding \in Nat /\ cpc \in CPC /\ tail \in 0..LOGSIZE
        /\ dhead = <<>> /\ lh = <<>>
    BY LogAssumption DEF Init, CPC
  <2>5. committing \in BOOLEAN
    BY DEF Init
  <2> QED
    BY <2>1, <2>2, <2>3, <2>4, <2>5 DEF TypeOK
<1>3. GroupCommit
  BY <1>1, FS_EmptySet DEF Init, GroupCommit
<1>4. PhaseInv
  BY DEF Init, PhaseInv, Recovering, Committing
<1>5. DiskInv
  BY DEF Init, DiskInv, Recovering, HomeIsCache, InLog
<1> QED
  BY <1>2, <1>3, <1>4, <1>5 DEF IInv

\* A step that leaves outstanding and the set of calls under way alone, with
\* no commit starting, keeps GroupCommit.
LEMMA GroupCommitKept ==
  ASSUME GroupCommit, In' = In, outstanding' = outstanding,
         committing' => (committing \/ In = {})
  PROVE  GroupCommit'
  BY DEF GroupCommit

\* begin_op: a thread either goes to sleep or joins the calls under way.
LEMMA BeginOp == ASSUME IInv, NEW o \in Ops, begin_op(o) PROVE IInv'
<1> USE DEF IInv
<1>1. CASE committing \/ ~Fits
  <2>1. In' = In
    BY <1>1 DEF begin_op, TypeOK, In
  <2>2. TypeOK'
    BY <1>1 DEF begin_op, TypeOK, PC, dvars
  <2>3. GroupCommit'
    BY <2>1, <1>1, GroupCommitKept DEF begin_op
  <2>4. PhaseInv'
    BY <2>1, <1>1 DEF begin_op, PhaseInv, Recovering
  <2>5. DiskInv'
    BY <1>1 DEF begin_op, DiskInv, Recovering, HomeIsCache, InLog, LogIsCache,
                HomeIsLog, dvars
  <2> QED
    BY <2>2, <2>3, <2>4, <2>5
<1>2. CASE ~(committing \/ ~Fits)
  <2>1. In' = In \cup {o} /\ o \notin In
    BY <1>2 DEF begin_op, TypeOK, In
  <2>2. TypeOK'
    BY <1>2 DEF begin_op, TypeOK, PC, dvars
  <2>3. GroupCommit'
    <3>1. Cardinality(In') = Cardinality(In) + 1
      BY <2>1, InFinite, FS_AddElement
    <3> QED
      BY <3>1, <1>2 DEF begin_op, GroupCommit
  <2>4. PhaseInv'
    BY <2>1, <1>2 DEF begin_op, PhaseInv, Recovering
  <2>5. DiskInv'
    BY <1>2 DEF begin_op, DiskInv, Recovering, HomeIsCache, InLog, LogIsCache,
                HomeIsLog, dvars
  <2> QED
    BY <2>2, <2>3, <2>4, <2>5
<1> QED
  BY <1>1, <1>2

\* log_write: a block is logged once, and only while no commit runs.
LEMMA LogWrite ==
  ASSUME IInv, NEW o \in Ops, NEW b \in Blocks, NEW v \in Values, log_write(o, b, v)
  PROVE  IInv'
<1> USE DEF IInv
<1>1. In' = In /\ o \in In
  BY DEF log_write, TypeOK, In
<1>2. cpc = "none"
  BY <1>1 DEF GroupCommit, PhaseInv, Committing, CPC, Recovering, TypeOK, In
<1>3. Len(lh) < LOGSIZE
  BY LogAssumption DEF log_write, TooBig, TypeOK, BlockSeq
<1>4. BlockSeq(lh')
  <2>1. CASE InLog(b)
    BY <2>1 DEF log_write, Absorb, TypeOK
  <2>2. CASE ~InLog(b)
    <3>1. lh' = Append(lh, b)
      BY <2>2 DEF log_write, Absorb
    <3>2. \A j \in 1..Len(lh) : lh[j] # b
      BY <2>2 DEF InLog
    <3>3. /\ lh \in Seq(Blocks) /\ Distinct(lh) /\ LOGSIZE \in Nat
      BY LogAssumption DEF TypeOK, BlockSeq
    <3>4. /\ lh' \in Seq(Blocks) /\ Len(lh') = Len(lh) + 1
          /\ \A j \in 1..Len(lh) : lh'[j] = lh[j]
          /\ lh'[Len(lh) + 1] = b
      BY <3>1, <3>3
    <3> QED
      BY <3>2, <3>3, <3>4, <1>3 DEF BlockSeq, Distinct
  <2> QED
    BY <2>1, <2>2
<1>5. TypeOK'
  BY <1>4 DEF log_write, TypeOK, dvars
<1>6. GroupCommit'
  BY <1>1, GroupCommitKept DEF log_write
<1>7. PhaseInv'
  BY <1>1, <1>2 DEF log_write, PhaseInv, Recovering, Committing
<1>8. InLog(b)' /\ \A c \in Blocks : InLog(c) => InLog(c)'
  <2>1. CASE InLog(b)
    BY <2>1 DEF log_write, Absorb, InLog
  <2>2. CASE ~InLog(b)
    BY <2>2 DEF log_write, Absorb, InLog, TypeOK, BlockSeq
  <2> QED
    BY <2>1, <2>2
<1>9. DiskInv'
  BY <1>2, <1>8 DEF log_write, DiskInv, Recovering, HomeIsCache, dvars, TypeOK
<1> QED
  BY <1>5, <1>6, <1>7, <1>9

\* The last call out ends the group and starts the commit.
LEMMA EndOp == ASSUME IInv, NEW o \in Ops, end_op(o) PROVE IInv'
<1> USE DEF IInv
<1>1. In' = In \ {o} /\ o \in In
  BY DEF end_op, TypeOK, In, wakeup
<1>2. cpc = "none" /\ ~committing
  BY <1>1 DEF GroupCommit, PhaseInv, Committing, CPC, Recovering, TypeOK, In
<1>3. Cardinality(In') = Cardinality(In) - 1 /\ Cardinality(In') \in Nat
      /\ IsFiniteSet(In') /\ (Cardinality(In') = 0 <=> In' = {})
  <2>1. IsFiniteSet(In') /\ Cardinality(In') = Cardinality(In) - 1
    BY <1>1, InFinite, FS_RemoveElement
  <2> QED
    BY <2>1, FS_CardinalityType, FS_EmptySet
<1>4. outstanding' = Cardinality(In')
  BY <1>3 DEF end_op, GroupCommit
<1>5. TypeOK'
  <2>1. pc' \in [Ops -> PC]
    BY DEF end_op, TypeOK, PC, wakeup
  <2>2. outstanding' \in Nat
    BY <1>3, <1>4
  <2>3. cpc' \in CPC /\ tail' \in 0..LOGSIZE
    BY LogAssumption DEF end_op, TypeOK, CPC, CommitStart
  <2>4. committing' \in BOOLEAN
    BY Zenon DEF end_op, TypeOK
  <2> QED
    BY <2>1, <2>2, <2>3, <2>4 DEF end_op, TypeOK, dvars
<1>6. GroupCommit'
  BY <1>2, <1>3, <1>4 DEF end_op, GroupCommit, LastOut
<1>7. LastOut <=> In' = {}
  <2>1. outstanding \in Nat /\ outstanding' = outstanding - 1
    BY DEF end_op, TypeOK
  <2>2. LastOut <=> outstanding' = 0
    BY <2>1 DEF LastOut
  <2> QED
    BY <2>2, <1>3, <1>4
<1>8. PhaseInv'
  <2>1. CASE LastOut
    BY <2>1, <1>2, <1>7 DEF end_op, PhaseInv, Recovering, Committing, Logged,
       CommitStart, TypeOK, BlockSeq
  <2>2. CASE ~LastOut
    BY <2>2, <1>2, <1>7 DEF end_op, PhaseInv, Recovering, Committing
  <2> QED
    BY <2>1, <2>2
<1>9. DiskInv'
  <2>1. cpc' \in {"none", "write_log", "done"} /\ (cpc' = "write_log" => tail' = 0)
    BY <1>2 DEF end_op, CommitStart
  <2> QED
    BY <2>1, <1>2 DEF end_op, DiskInv, Recovering, HomeIsCache, InLog, LogIsCache,
       HomeIsLog, dvars
<1> QED
  BY <1>5, <1>6, <1>8, <1>9

\* How a loop over the logged blocks moves on.
LEMMA AdvanceFacts ==
  ASSUME TypeOK, tail < Len(lh), NEW more, NEW next, Advance(more, next)
  PROVE  /\ tail + 1 \in 1..Len(lh) /\ tail + 1 \in LogSlots
         /\ tail' \in 0..LOGSIZE
         /\ \/ cpc' = more /\ tail' = tail + 1 /\ tail' < Len(lh)
            \/ cpc' = next /\ tail' = 0 /\ tail + 1 = Len(lh)
         /\ lh[tail + 1] \in Blocks
  BY LogAssumption DEF TypeOK, BlockSeq, Advance, LogSlots

\* write_log: one more log block holds the cached contents.
LEMMA WriteLog == ASSUME IInv, write_log PROVE IInv'
<1> USE DEF IInv
<1>1. tail < Len(lh)
  BY DEF write_log, PhaseInv
<1>2. /\ tail + 1 \in 1..Len(lh) /\ tail + 1 \in LogSlots
      /\ tail' \in 0..LOGSIZE
      /\ \/ cpc' = "write_log" /\ tail' = tail + 1 /\ tail' < Len(lh)
         \/ cpc' = "write_head" /\ tail' = 0 /\ tail + 1 = Len(lh)
      /\ lh[tail + 1] \in Blocks
  BY <1>1, AdvanceFacts DEF write_log
<1>3. TypeOK'
  BY <1>2 DEF write_log, TypeOK, CPC
<1>4. In' = In
  BY DEF write_log, In
<1>5. GroupCommit'
  BY <1>4, GroupCommitKept DEF write_log
<1>6. PhaseInv'
  BY <1>2, <1>4 DEF write_log, PhaseInv, Recovering, Committing
<1>7. \A k \in 1..(tail + 1) : dlog'[k] = cache[lh[k]]
  BY <1>2 DEF write_log, DiskInv, LogIsCache, TypeOK, LogSlots, BlockSeq
<1>8. DiskInv'
  BY <1>2, <1>7 DEF write_log, DiskInv, Recovering, HomeIsCache, InLog, LogIsCache
<1> QED
  BY <1>3, <1>5, <1>6, <1>8

\* write_head: the log blocks are complete when the header names them.
LEMMA WriteHead == ASSUME IInv, write_head PROVE IInv'
<1> USE DEF IInv
<1>1. TypeOK'
  BY DEF write_head, TypeOK, CPC
<1>2. In' = In
  BY DEF write_head, In
<1>3. GroupCommit'
  BY <1>2, GroupCommitKept DEF write_head
<1>4. Len(lh) > 0
  BY DEF write_head, PhaseInv
<1>5. PhaseInv'
  BY <1>2, <1>4 DEF write_head, PhaseInv, Recovering, Committing
<1>6. DiskInv'
  BY DEF write_head, DiskInv, PhaseInv, Recovering, HomeIsCache, InLog, LogIsCache, HomeIsLog
<1> QED
  BY <1>1, <1>3, <1>5, <1>6

\* install_trans: one more home block holds what its log block holds.
LEMMA InstallTrans == ASSUME IInv, install_trans PROVE IInv'
<1> USE DEF IInv
<1>1. tail < Len(lh)
  BY DEF install_trans, PhaseInv
<1>2. /\ tail + 1 \in 1..Len(lh) /\ tail + 1 \in LogSlots
      /\ tail' \in 0..LOGSIZE
      /\ \/ cpc' = "install" /\ tail' = tail + 1 /\ tail' < Len(lh)
         \/ cpc' = "clear" /\ tail' = 0 /\ tail + 1 = Len(lh)
      /\ lh[tail + 1] \in Blocks
  BY <1>1, AdvanceFacts DEF install_trans
<1>3. TypeOK'
  BY <1>2 DEF install_trans, TypeOK, CPC
<1>4. In' = In
  BY DEF install_trans, In
<1>5. GroupCommit'
  BY <1>4, GroupCommitKept DEF install_trans
<1>6. PhaseInv'
  BY <1>2, <1>4 DEF install_trans, PhaseInv, Recovering, Committing
<1>7. \A k \in 1..(tail + 1) : disk'[lh[k]] = dlog[k]
  BY <1>2 DEF install_trans, DiskInv, HomeIsLog, TypeOK, LogSlots, BlockSeq, Distinct
<1>8. \A b \in Blocks : InLog(b) \/ disk'[b] = cache[b]
  BY <1>2 DEF install_trans, DiskInv, Recovering, HomeIsCache, InLog, TypeOK
<1>9. DiskInv'
  BY <1>2, <1>7, <1>8 DEF install_trans, DiskInv, Recovering, HomeIsCache, InLog,
     LogIsCache, HomeIsLog
<1> QED
  BY <1>3, <1>5, <1>6, <1>9

\* Clearing the header: every home block has its cached contents by then.
LEMMA Erase == ASSUME IInv, erase PROVE IInv'
<1> USE DEF IInv
<1>1. BlockSeq(<<>>)
  BY LogAssumption DEF BlockSeq, Distinct
<1>2. TypeOK'
  BY <1>1 DEF erase, TypeOK, CPC
<1>3. In' = In
  BY DEF erase, In
<1>4. GroupCommit'
  BY <1>3, GroupCommitKept DEF erase
<1>5. PhaseInv'
  BY <1>3 DEF erase, PhaseInv, Recovering, Committing
<1>6. \A b \in Blocks : disk[b] = cache[b]
  BY DEF erase, DiskInv, HomeIsCache, InLog, LogIsCache, HomeIsLog, Recovering
<1>7. DiskInv'
  BY <1>6 DEF erase, DiskInv, Recovering, HomeIsCache
<1> QED
  BY <1>2, <1>4, <1>5, <1>7

\* The end of end_op: threads waiting for the commit are woken.
LEMMA CommitDone == ASSUME IInv, commit_done PROVE IInv'
<1> USE DEF IInv
<1>1. In' = In /\ pc' \in [Ops -> PC]
  BY DEF commit_done, TypeOK, In, DoneWakeup, wakeup, PC
<1>2. TypeOK'
  BY <1>1 DEF commit_done, TypeOK, CPC, dvars
<1>3. GroupCommit'
  BY <1>1, GroupCommitKept DEF commit_done
<1>4. PhaseInv'
  BY <1>1 DEF commit_done, PhaseInv, Recovering, Committing
<1>5. DiskInv'
  BY DEF commit_done, DiskInv, Recovering, HomeIsCache, InLog, dvars
<1> QED
  BY <1>2, <1>3, <1>4, <1>5

\* A crash at any point leaves a header and log blocks recovery can use.
LEMMA CrashKeeps == ASSUME IInv, Crash PROVE IInv'
<1> USE DEF IInv
<1>1. BlockSeq(<<>>)
  BY LogAssumption DEF BlockSeq, Distinct
<1>2. TypeOK'
  <2>1. committing' \in BOOLEAN
    BY DEF Crash
  <2>2. pc' \in [Ops -> PC] /\ wr' \in [Ops -> SUBSET Blocks]
    BY DEF Crash, PC
  <2> QED
    BY <1>1, <2>1, <2>2, LogAssumption DEF Crash, TypeOK, CPC, dvars
<1>3. In' = {}
  BY DEF Crash, In
<1>4. GroupCommit'
  BY <1>3, FS_EmptySet DEF Crash, GroupCommit
<1>5. PhaseInv'
  BY DEF Crash, PhaseInv, Recovering, Committing
<1>6. DiskInv'
  BY DEF Crash, DiskInv, Recovering, dvars
<1> QED
  BY <1>2, <1>4, <1>5, <1>6

\* read_head: recovery starts from the header on disk.
LEMMA ReadHead == ASSUME IInv, read_head PROVE IInv'
<1> USE DEF IInv
<1>1. In' = In
  BY DEF read_head, In
<1>2. TypeOK'
  BY DEF read_head, TypeOK, CPC, dvars
<1>3. GroupCommit'
  BY <1>1, GroupCommitKept DEF read_head
<1>4. PhaseInv'
  BY <1>1 DEF read_head, PhaseInv, Recovering, Committing
<1>5. DiskInv'
  BY DEF read_head, DiskInv, PhaseInv, Recovering, HomeIsLog, dvars, TypeOK, BlockSeq
<1> QED
  BY <1>2, <1>3, <1>4, <1>5

\* install_trans(1): recovery replays one more log block.
LEMMA RecoverKeeps == ASSUME IInv, recover PROVE IInv'
<1> USE DEF IInv
<1>1. tail < Len(lh)
  BY DEF recover, PhaseInv
<1>2. /\ tail + 1 \in 1..Len(lh) /\ tail + 1 \in LogSlots
      /\ tail' \in 0..LOGSIZE
      /\ \/ cpc' = "recover" /\ tail' = tail + 1 /\ tail' < Len(lh)
         \/ cpc' = "rclear" /\ tail' = 0 /\ tail + 1 = Len(lh)
      /\ lh[tail + 1] \in Blocks
  BY <1>1, AdvanceFacts DEF recover
<1>3. TypeOK'
  BY <1>2 DEF recover, TypeOK, CPC
<1>4. In' = In
  BY DEF recover, In
<1>5. GroupCommit'
  BY <1>4, GroupCommitKept DEF recover
<1>6. PhaseInv'
  BY <1>2, <1>4 DEF recover, PhaseInv, Recovering, Committing
<1>7. \A k \in 1..(tail + 1) : disk'[lh[k]] = dlog[k]
  BY <1>2 DEF recover, DiskInv, HomeIsLog, TypeOK, LogSlots, BlockSeq, Distinct
<1>8. DiskInv'
  BY <1>2, <1>7 DEF recover, DiskInv, Recovering, HomeIsLog
<1> QED
  BY <1>3, <1>5, <1>6, <1>8

\* The end of recovery: the header is cleared when every block is replayed.
LEMMA RecoverDone == ASSUME IInv, recover_done PROVE IInv'
<1> USE DEF IInv
<1>1. BlockSeq(<<>>)
  BY LogAssumption DEF BlockSeq, Distinct
<1>2. TypeOK'
  BY <1>1 DEF recover_done, TypeOK, CPC
<1>3. In' = In
  BY DEF recover_done, In
<1>4. GroupCommit'
  BY <1>3, GroupCommitKept DEF recover_done
<1>5. PhaseInv'
  BY <1>3 DEF recover_done, PhaseInv, Recovering, Committing
<1>6. DiskInv'
  BY DEF recover_done, DiskInv, Recovering, HomeIsCache
<1> QED
  BY <1>2, <1>4, <1>5, <1>6

\* A step that changes nothing keeps the invariant.
LEMMA StutterKeeps == ASSUME IInv, UNCHANGED vars PROVE IInv'
  BY DEF IInv, TypeOK, GroupCommit, PhaseInv, DiskInv, vars, Recovering, In, InLog,
     HomeIsCache, LogIsCache, HomeIsLog

\* IInv is inductive: every operation of log.c, a crash at any disk write and
\* every step of recovery keep it.
THEOREM Inductive == Spec => []IInv
<1>1. IInv /\ [Next]_vars => IInv'
  <2> SUFFICES ASSUME IInv, [Next]_vars PROVE IInv'
    OBVIOUS
  <2>1. CASE \E o \in Ops : Call(o)
    BY <2>1, BeginOp, EndOp, LogWrite DEF Call
  <2>2. CASE CommitStep
    BY <2>2, WriteLog, WriteHead, InstallTrans, Erase, CommitDone DEF CommitStep
  <2>3. CASE RecoverStep
    BY <2>3, ReadHead, RecoverKeeps, RecoverDone DEF RecoverStep
  <2>4. CASE Crash
    BY <2>4, CrashKeeps
  <2>5. CASE UNCHANGED vars
    BY <2>5, StutterKeeps
  <2> QED
    BY <2>1, <2>2, <2>3, <2>4, <2>5 DEF Next
<1> QED
  BY <1>1, InitIInv, PTL DEF Spec

\* Every variable keeps its type; in particular the header never names a block
\* twice and never holds more than LOGSIZE blocks (log_write's absorption).
THEOREM TypeCorrect == Spec => []TypeOK
<1>1. IInv => TypeOK
  BY DEF IInv
<1> QED
  BY <1>1, Inductive, PTL

\* log.outstanding counts the calls under way, and commit() runs only when
\* there are none.
THEOREM GroupCommitHolds == Spec => []GroupCommit
<1>1. IInv => GroupCommit
  BY DEF IInv
<1> QED
  BY <1>1, Inductive, PTL

-----------------------------------------------------------------------------
(***************************************************************************)
(* What recovery makes of the disk.                                        *)
(***************************************************************************)
\* Recovery yields f when f is what the header's log blocks and the other
\* home blocks hold.
LEMMA RecoveredIs ==
  ASSUME NEW f, f = [b \in Blocks |-> f[b]],
         \A b \in Blocks : \A k \in 1..Len(dhead) : dhead[k] = b => dlog[k] = f[b],
         \A b \in Blocks : (\A k \in 1..Len(dhead) : dhead[k] # b) => disk[b] = f[b]
  PROVE  Recovered = f
<1> DEFINE R(b) == IF \E k \in 1..Len(dhead) : dhead[k] = b
                   THEN dlog[CHOOSE k \in 1..Len(dhead) : dhead[k] = b]
                   ELSE disk[b]
<1>1. ASSUME NEW b \in Blocks PROVE R(b) = f[b]
  <2>1. CASE \E k \in 1..Len(dhead) : dhead[k] = b
    <3> DEFINE j == CHOOSE k \in 1..Len(dhead) : dhead[k] = b
    <3>1. j \in 1..Len(dhead) /\ dhead[j] = b
      BY <2>1, Zenon
    <3>2. R(b) = dlog[j]
      BY <2>1, Zenon
    <3> HIDE DEF j
    <3> QED
      BY <3>1, <3>2, Zenon
  <2>2. CASE ~(\E k \in 1..Len(dhead) : dhead[k] = b)
    BY <2>2, Zenon
  <2> QED
    BY <2>1, <2>2
<1>2. Recovered = [b \in Blocks |-> R(b)]
  BY Zenon DEF Recovered
<1> HIDE DEF R
<1> QED
  BY <1>1, <1>2, Zenon

\* With an empty header recovery changes nothing.
LEMMA RecoveredEmpty == TypeOK /\ dhead = <<>> => Recovered = disk
<1> SUFFICES ASSUME TypeOK, dhead = <<>> PROVE Recovered = disk
  OBVIOUS
<1>1. disk = [b \in Blocks |-> disk[b]]
  BY DEF TypeOK
<1>2. \A k \in 1..Len(dhead) : FALSE
  OBVIOUS
<1> QED
  BY <1>1, <1>2, RecoveredIs, Zenon

\* Between two calls, with no commit under way, every update is on the disk.
LEMMA IInvDurable == IInv => Durable
<1> SUFFICES ASSUME IInv, ~committing, outstanding = 0, ~Recovering
             PROVE  Recovered = cache
  BY DEF Durable
<1> USE DEF IInv
<1>1. In = {}
  BY InFinite, FS_EmptySet DEF GroupCommit
<1>2. cpc = "none" /\ lh = <<>>
  BY <1>1 DEF PhaseInv, TypeOK, CPC, Committing, Recovering
<1>3. dhead = <<>> /\ \A b \in Blocks : disk[b] = cache[b]
  BY <1>2 DEF DiskInv, Recovering, HomeIsCache, InLog
<1>4. disk = cache
  BY <1>3 DEF TypeOK
<1> QED
  BY <1>3, <1>4, RecoveredEmpty

\* When the last end_op has returned, every update survives a crash: recovery
\* would find what the file-system calls saw.
THEOREM DurableHolds == Spec => []Durable
  BY IInvDurable, Inductive, PTL

\* A thread asleep in begin_op is never forgotten: there is a call under way
\* or a commit running, and either wakes it when it ends.
THEOREM NoLostWakeupHolds == Spec => []NoLostWakeup
<1>1. Init => NoLostWakeup
  BY DEF Init, NoLostWakeup
<1>2. IInv /\ NoLostWakeup /\ [Next]_vars => NoLostWakeup'
  <2> SUFFICES ASSUME IInv, NoLostWakeup, [Next]_vars PROVE NoLostWakeup'
    OBVIOUS
  <2> USE DEF IInv
  <2>1. ASSUME NEW o \in Ops, begin_op(o) PROVE NoLostWakeup'
    <3>1. CASE committing
      BY <2>1, <3>1 DEF begin_op, NoLostWakeup
    <3>2. CASE ~committing /\ Fits
      BY <2>1, <3>2 DEF begin_op, NoLostWakeup, TypeOK
    <3>3. CASE ~committing /\ ~Fits
      <4>1. cpc = "none"
        BY <2>1, <3>3 DEF begin_op, PhaseInv, TypeOK, CPC, Committing, Recovering
      <4>2. outstanding # 0
        <5> SUFFICES ASSUME outstanding = 0 PROVE FALSE
          OBVIOUS
        <5>1. In = {}
          BY InFinite, FS_EmptySet DEF GroupCommit
        <5>2. Len(lh) = 0
          BY <4>1, <5>1 DEF PhaseInv
        <5> QED
          BY <5>2, <3>3, LogAssumption DEF Fits
      <4> QED
        BY <4>2, <2>1, <3>3 DEF begin_op, NoLostWakeup, TypeOK
    <3> QED
      BY <3>1, <3>2, <3>3
  <2>2. ASSUME NEW o \in Ops, end_op(o) PROVE NoLostWakeup'
    <3>1. CASE LastOut
      BY <2>2, <3>1 DEF end_op, NoLostWakeup
    <3>2. CASE ~LastOut
      BY <2>2, <3>2 DEF end_op, NoLostWakeup, wakeup
    <3> QED
      BY <3>1, <3>2
  <2>3. ASSUME NEW o \in Ops, NEW b \in Blocks, NEW v \in Values, log_write(o, b, v)
        PROVE  NoLostWakeup'
    BY <2>3 DEF log_write, NoLostWakeup
  <2>4. CASE CommitStep
    <3>1. CASE commit_done
      BY <3>1 DEF commit_done, NoLostWakeup, DoneWakeup, wakeup
    <3>2. CASE ~commit_done
      BY <2>4, <3>2 DEF CommitStep, NoLostWakeup, write_log, write_head, install_trans, erase
    <3> QED
      BY <3>1, <3>2
  <2>5. CASE RecoverStep
    BY <2>5 DEF RecoverStep, NoLostWakeup, read_head, recover, recover_done
  <2>6. CASE Crash
    BY <2>6 DEF Crash, NoLostWakeup
  <2>7. CASE UNCHANGED vars
    BY <2>7 DEF vars, NoLostWakeup
  <2> QED
    BY <2>1, <2>2, <2>3, <2>4, <2>5, <2>6, <2>7 DEF Next, Call
<1> QED
  BY <1>1, <1>2, Inductive, PTL DEF Spec

-----------------------------------------------------------------------------
(***************************************************************************)
(* The log implements AtomicLog: stable is Recovered.                      *)
(***************************************************************************)
\* When every logged block has its cached contents in the log, what recovery
\* would find once the header is written is the cache.
LEMMA RecoveredCache ==
  TypeOK /\ dhead = lh /\ HomeIsCache /\ LogIsCache(Len(lh)) => Recovered = cache
<1> SUFFICES ASSUME TypeOK, dhead = lh, HomeIsCache, LogIsCache(Len(lh))
             PROVE  Recovered = cache
  OBVIOUS
<1>1. cache = [b \in Blocks |-> cache[b]]
  BY DEF TypeOK
<1>2. \A b \in Blocks : \A k \in 1..Len(dhead) : dhead[k] = b => dlog[k] = cache[b]
  BY DEF LogIsCache
<1>3. \A b \in Blocks : (\A k \in 1..Len(dhead) : dhead[k] # b) => disk[b] = cache[b]
  BY DEF HomeIsCache, InLog
<1> QED
  BY <1>1, <1>2, <1>3, RecoveredIs, Zenon

\* When every home block named in the header holds its log block, recovery
\* has nothing left to change.
LEMMA RecoveredHome ==
  ASSUME TypeOK, dhead = lh, HomeIsLog(Len(lh))
  PROVE  Recovered = disk
<1>1. disk = [b \in Blocks |-> disk[b]]
  BY DEF TypeOK
<1>2. \A b \in Blocks : \A k \in 1..Len(dhead) : dhead[k] = b => dlog[k] = disk[b]
  BY DEF HomeIsLog
<1> QED
  BY <1>1, <1>2, RecoveredIs, Zenon

\* The same in the next state.
LEMMA RecoveredNext ==
  /\ (TypeOK /\ dhead = <<>>)' => (Recovered = disk)'
  /\ (TypeOK /\ dhead = lh /\ HomeIsCache /\ LogIsCache(Len(lh)))'
     => (Recovered = cache)'
  BY RecoveredEmpty, RecoveredCache, PTL

\* Copying a log block to its home block does not change what recovery finds.
LEMMA RecoveredInstall ==
  ASSUME IInv, install_trans \/ recover
  PROVE  Recovered' = Recovered
<1>1. tail < Len(lh) /\ dhead = lh /\ TypeOK
  BY DEF IInv, PhaseInv, DiskInv, install_trans, recover
<1>2. tail + 1 \in 1..Len(dhead)
  BY <1>1 DEF TypeOK, BlockSeq
<1>3. dhead' = dhead /\ dlog' = dlog
      /\ disk' = [disk EXCEPT ![dhead[tail + 1]] = dlog[tail + 1]]
  BY <1>1 DEF install_trans, recover
<1>4. \A b \in Blocks : (\A k \in 1..Len(dhead) : dhead[k] # b) => disk'[b] = disk[b]
  BY <1>1, <1>2, <1>3 DEF TypeOK
<1> QED
  BY <1>3, <1>4, Zenon DEF Recovered

\* The initial state is an initial state of AtomicLog.
LEMMA AtomicInit == Init => Atomic!Init
<1> SUFFICES ASSUME Init PROVE Atomic!Init
  OBVIOUS
<1>1. Recovered = disk /\ ~Recovering
  BY InitIInv, RecoveredEmpty DEF IInv, Init, Recovering
<1>2. In = {}
  BY DEF Init, In
<1> QED
  BY <1>1, <1>2 DEF Atomic!Init, Init

\* begin_op, log_write and end_op are Begin, Write and End of AtomicLog; a
\* begin_op that goes to sleep is a stuttering step.
LEMMA AtomicCall ==
  ASSUME IInv, NEW o \in Ops, Call(o)
  PROVE  Atomic!Next \/ UNCHANGED Atomic!avars
<1> USE DEF IInv
<1>1. ~Recovering
  BY DEF Call, begin_op, log_write, end_op, PhaseInv
<1>2. UNCHANGED dvars
  BY DEF Call, begin_op, log_write, end_op
<1>3. Recovered' = Recovered
  BY <1>2, Zenon DEF Recovered, dvars
<1>4. CASE begin_op(o)
  <2>1. cache' = cache /\ ~Recovering'
    BY <1>1, <1>4 DEF begin_op, Recovering
  <2>2. (o \notin In /\ In' = In \cup {o}) \/ In' = In
    BY <1>4 DEF begin_op, In, TypeOK
  <2> QED
    BY <2>1, <2>2, <1>1, <1>3 DEF Atomic!Next, Atomic!Begin, Atomic!avars
<1>5. CASE end_op(o)
  <2>1. cpc = "none" /\ o \in In
    BY <1>5 DEF end_op, GroupCommit, PhaseInv, Committing, CPC, Recovering, TypeOK, In
  <2>2. cache' = cache /\ ~Recovering'
    BY <2>1, <1>5 DEF end_op, Recovering, CommitStart
  <2>3. In' = In \ {o}
    BY <1>5 DEF end_op, In, TypeOK, wakeup
  <2> QED
    BY <2>1, <2>2, <2>3, <1>1, <1>3 DEF Atomic!Next, Atomic!End
<1>6. ASSUME NEW b \in Blocks, NEW v \in Values, log_write(o, b, v)
      PROVE  Atomic!Next
  <2>1. cache' = [cache EXCEPT ![b] = v] /\ ~Recovering' /\ In' = In /\ o \in In
    BY <1>1, <1>6 DEF log_write, Recovering, In
  <2> QED
    BY <2>1, <1>1, <1>3 DEF Atomic!Next, Atomic!Write
<1> QED
  BY <1>4, <1>5, <1>6 DEF Call

\* The write of the header is the Commit of AtomicLog; every other disk write
\* of commit() is a stuttering step.
LEMMA AtomicCommitStep ==
  ASSUME IInv, CommitStep
  PROVE  Atomic!Next \/ UNCHANGED Atomic!avars
<1> USE DEF IInv
<1>1. ~Recovering /\ ~Recovering'
  BY DEF CommitStep, write_log, write_head, install_trans, erase, commit_done,
     Recovering, Advance
<1>2. In' = In /\ cache' = cache
  BY DEF CommitStep, write_log, write_head, install_trans, erase, commit_done,
     In, DoneWakeup, wakeup, TypeOK
<1>3. CASE write_head
  <2>1. In = {}
    BY <1>3 DEF write_head, PhaseInv, Committing, GroupCommit
  <2>2. TypeOK' /\ DiskInv'
    BY <1>3, WriteHead
  <2>3. dhead' = lh' /\ HomeIsCache' /\ LogIsCache(Len(lh))'
    BY <1>3, <2>2 DEF write_head, DiskInv, Recovering
  <2>4. Recovered' = cache'
    BY <2>2, <2>3, RecoveredNext
  <2> QED
    BY <1>1, <1>2, <2>1, <2>4 DEF Atomic!Next, Atomic!Commit
<1>4. CASE write_log
  <2>1. dhead = <<>> /\ dhead' = <<>> /\ disk' = disk /\ TypeOK'
    BY <1>4, WriteLog DEF write_log, DiskInv
  <2>2. Recovered = disk
    BY <2>1, RecoveredEmpty
  <2>3. Recovered' = disk'
    BY <2>1, RecoveredNext
  <2> QED
    BY <1>1, <1>2, <2>1, <2>2, <2>3 DEF Atomic!avars
<1>5. CASE install_trans
  BY <1>1, <1>2, <1>5, RecoveredInstall DEF Atomic!avars
<1>6. CASE erase
  <2>1. dhead = lh /\ HomeIsLog(Len(lh)) /\ dhead' = <<>> /\ disk' = disk /\ TypeOK'
    BY <1>6, Erase DEF erase, DiskInv
  <2>2. Recovered = disk
    BY <2>1, RecoveredHome
  <2>3. Recovered' = disk'
    BY <2>1, RecoveredNext
  <2> QED
    BY <1>1, <1>2, <2>1, <2>2, <2>3 DEF Atomic!avars
<1>7. CASE commit_done
  <2>1. UNCHANGED dvars
    BY <1>7 DEF commit_done
  <2>2. Recovered' = Recovered
    BY <2>1, Zenon DEF Recovered, dvars
  <2> QED
    BY <1>1, <1>2, <2>2 DEF Atomic!avars
<1> QED
  BY <1>3, <1>4, <1>5, <1>6, <1>7 DEF CommitStep

\* Recovery is invisible: it only makes the home blocks what they count as.
LEMMA AtomicRecoverStep == ASSUME IInv, RecoverStep PROVE UNCHANGED Atomic!avars
<1> USE DEF IInv
<1>1. In' = In
  BY DEF RecoverStep, read_head, recover, recover_done, In
<1>2. CASE read_head
  <2>1. UNCHANGED dvars /\ Recovering /\ Recovering'
    BY <1>2 DEF read_head, Recovering
  <2>2. Recovered' = Recovered
    BY <2>1, Zenon DEF Recovered, dvars
  <2> QED
    BY <1>1, <2>1, <2>2 DEF Atomic!avars
<1>3. CASE recover
  <2>1. Recovering /\ Recovering'
    BY <1>3 DEF recover, Recovering, Advance
  <2> QED
    BY <1>1, <1>3, <2>1, RecoveredInstall DEF Atomic!avars
<1>4. CASE recover_done
  <2>1. /\ Recovering /\ ~Recovering' /\ dhead = lh /\ HomeIsLog(Len(lh))
        /\ dhead' = <<>> /\ disk' = disk /\ cache = disk /\ cache' = cache /\ TypeOK'
    BY <1>4, RecoverDone DEF recover_done, DiskInv, Recovering
  <2>2. Recovered = disk
    BY <2>1, RecoveredHome
  <2>3. Recovered' = disk'
    BY <2>1, RecoveredNext
  <2> QED
    BY <1>1, <2>1, <2>2, <2>3 DEF Atomic!avars
<1> QED
  BY <1>2, <1>3, <1>4 DEF RecoverStep

\* Losing the memory is the Crash of AtomicLog.
LEMMA AtomicCrash == ASSUME IInv, Crash PROVE Atomic!Next
<1>1. UNCHANGED dvars /\ Recovering' /\ In' = {}
  BY DEF Crash, Recovering, In
<1>2. Recovered' = Recovered
  BY <1>1, Zenon DEF Recovered, dvars
<1> QED
  BY <1>1, <1>2 DEF Atomic!Next, Atomic!Crash

\* The redo log implements atomic group commit: whichever disk write a crash
\* precedes, in commit() or in recovery, a reboot finds the disk as of the
\* last header write, with all of that group's updates and no others.
THEOREM Refinement == Spec => AtomicCommit
<1>1. IInv /\ [Next]_vars => [Atomic!Next]_(Atomic!avars)
  <2> SUFFICES ASSUME IInv, [Next]_vars
               PROVE  Atomic!Next \/ UNCHANGED Atomic!avars
    OBVIOUS
  <2>1. CASE \E o \in Ops : Call(o)
    BY <2>1, AtomicCall
  <2>2. CASE CommitStep
    BY <2>2, AtomicCommitStep
  <2>3. CASE RecoverStep
    BY <2>3, AtomicRecoverStep
  <2>4. CASE Crash
    BY <2>4, AtomicCrash
  <2>5. CASE UNCHANGED vars
    BY <2>5, Zenon DEF vars, Atomic!avars, Recovered, Recovering, In
  <2> QED
    BY <2>1, <2>2, <2>3, <2>4, <2>5 DEF Next
<1> QED
  BY <1>1, AtomicInit, Inductive, PTL DEF Spec, AtomicCommit, Atomic!Spec

-----------------------------------------------------------------------------
(***************************************************************************)
(* begin_op's reservation.                                                 *)
(***************************************************************************)
\* What a call under way has written is in the header: it stays there until
\* the commit, which waits for the call.
WrLogged == \A o \in In : \A b \in wr[o] : InLog(b)

\* The room reserved is at most MAXOPBLOCKS for each call under way.
LEMMA ReserveBound ==
  /\ IsFiniteSet(Reserve)
  /\ Cardinality(Reserve) \in Nat
  /\ Cardinality(In) \in Nat
  /\ Cardinality(Reserve) <= Cardinality(In) * MAXOPBLOCKS
<1> DEFINE All == In \X (1..MAXOPBLOCKS)
<1>1. IsFiniteSet(1..MAXOPBLOCKS) /\ Cardinality(1..MAXOPBLOCKS) = MAXOPBLOCKS
  BY LogAssumption, FS_Interval
<1>2. IsFiniteSet(All) /\ Cardinality(All) = Cardinality(In) * MAXOPBLOCKS
  BY <1>1, InFinite, FS_Product
<1>3. Reserve \subseteq All
  BY DEF Reserve
<1> HIDE DEF All
<1> QED
  BY <1>2, <1>3, InFinite, FS_Subset, FS_CardinalityType

\* The same in the next state.
LEMMA ReserveBoundNext ==
  (/\ IsFiniteSet(Reserve)
   /\ Cardinality(Reserve) \in Nat
   /\ Cardinality(In) \in Nat
   /\ Cardinality(Reserve) <= Cardinality(In) * MAXOPBLOCKS)'
  BY ReserveBound, PTL

\* When the reserved room does not grow and the header neither, it fits.
LEMMA ReservationKept ==
  ASSUME IInv, IInv', Reservation, Reserve' \subseteq Reserve, Len(lh') <= Len(lh)
  PROVE  Reservation'
<1>1. Cardinality(Reserve') <= Cardinality(Reserve)
  BY ReserveBound, FS_Subset
<1>2. Len(lh) \in Nat /\ Len(lh') \in Nat
  BY DEF IInv, TypeOK, BlockSeq
<1> QED
  BY <1>1, <1>2, ReserveBound, ReserveBoundNext, LogAssumption DEF Reservation

\* A log_write that adds a block to the header takes it from the call's own
\* reservation; one that is absorbed takes nothing.
LEMMA LogWriteReserves ==
  ASSUME IInv, WrLogged, Reservation,
         NEW o \in Ops, NEW b \in Blocks, NEW v \in Values, log_write(o, b, v)
  PROVE  WrLogged' /\ Reservation'
<1>1. IInv'
  BY LogWrite
<1> USE DEF IInv
<1>2. In' = In /\ o \in In /\ wr' = [wr EXCEPT ![o] = @ \cup {b}]
  BY DEF log_write, In
<1>3. InLog(b)' /\ \A c \in Blocks : InLog(c) => InLog(c)'
  <2>1. CASE InLog(b)
    BY <2>1 DEF log_write, Absorb, InLog
  <2>2. CASE ~InLog(b)
    BY <2>2 DEF log_write, Absorb, InLog, TypeOK, BlockSeq
  <2> QED
    BY <2>1, <2>2
<1>4. WrLogged'
  BY <1>2, <1>3 DEF WrLogged, TypeOK, In
<1>5. \A p \in Ops : IsFiniteSet(wr[p]) /\ Cardinality(wr[p]) \in Nat
  BY LogAssumption, FS_Subset, FS_CardinalityType DEF TypeOK
<1>6. CASE b \in wr[o]
  <2>1. wr' = wr /\ InLog(b)
    BY <1>2, <1>6 DEF TypeOK, WrLogged
  <2>2. lh' = lh /\ Reserve' = Reserve
    BY <1>2, <2>1 DEF log_write, Absorb, Reserve
  <2> QED
    BY <1>1, <1>4, <2>2, ReservationKept DEF TypeOK, BlockSeq
<1>7. CASE b \notin wr[o]
  <2> DEFINE k == Cardinality(wr[o])
  <2>1. Cardinality(wr'[o]) = k + 1 /\ \A p \in In \ {o} : wr'[p] = wr[p]
    <3>1. wr'[o] = wr[o] \cup {b} /\ \A p \in In \ {o} : wr'[p] = wr[p]
      BY <1>2 DEF TypeOK, In
    <3>2. Cardinality(wr[o] \cup {b}) = k + 1
      BY <1>5, <1>7, FS_AddElement
    <3> QED
      BY <3>1, <3>2
  <2>2. k \in Nat /\ k < MAXOPBLOCKS
    BY <1>5, <1>7 DEF log_write, MayWrite
  <2> HIDE DEF k
  <2>3. Reserve' = Reserve \ {<<o, k + 1>>}
    <3>1. ASSUME NEW r \in In \X (1..MAXOPBLOCKS)
          PROVE  r[2] > Cardinality(wr'[r[1]])
                 <=> r[2] > Cardinality(wr[r[1]]) /\ r # <<o, k + 1>>
      <4>1. CASE r[1] = o
        BY <4>1, <2>1, <2>2 DEF k
      <4>2. CASE r[1] # o
        BY <4>2, <2>1
      <4> QED
        BY <4>1, <4>2
    <3> QED
      BY <3>1, <1>2 DEF Reserve
  <2>4. <<o, k + 1>> \in Reserve
    BY <1>2, <2>2, LogAssumption DEF Reserve, k
  <2>5. Cardinality(Reserve') = Cardinality(Reserve) - 1
    BY <2>3, <2>4, ReserveBound, FS_RemoveElement
  <2>6. Len(lh) \in Nat /\ (Len(lh') = Len(lh) \/ Len(lh') = Len(lh) + 1)
    BY DEF log_write, TypeOK, BlockSeq
  <2> QED
    BY <1>4, <2>5, <2>6, ReserveBound, LogAssumption DEF Reservation
<1> QED
  BY <1>6, <1>7

\* begin_op's test is enough: with every call keeping to MAXOPBLOCKS blocks,
\* what is logged and what may still be written always fits in LOGSIZE.
THEOREM ReservationHolds == Spec => []Reservation
<1> DEFINE I == WrLogged /\ Reservation
<1>1. Init => I
  <2> SUFFICES ASSUME Init PROVE I
    OBVIOUS
  <2>1. In = {} /\ Reserve = {} /\ Len(lh) = 0
    BY DEF Init, In, Reserve
  <2> QED
    BY <2>1, FS_EmptySet, LogAssumption DEF Reservation, WrLogged
<1>2. IInv /\ IInv' /\ I /\ [Next]_vars => I'
  <2> SUFFICES ASSUME IInv, IInv', I, [Next]_vars PROVE I'
    OBVIOUS
  <2>0. Len(lh) \in Nat /\ Len(lh') \in Nat
    BY DEF IInv, TypeOK, BlockSeq
  <2>1. ASSUME NEW o \in Ops, begin_op(o) PROVE I'
    <3>1. CASE committing \/ ~Fits
      <4>1. In' = In /\ wr' = wr /\ lh' = lh
        BY <2>1, <3>1 DEF begin_op, In, IInv, TypeOK
      <4>2. Reserve' \subseteq Reserve /\ WrLogged'
        BY <4>1 DEF Reserve, WrLogged, InLog
      <4> QED
        BY <2>0, <4>1, <4>2, ReservationKept
    <3>2. CASE ~(committing \/ ~Fits)
      <4>1. In' = In \cup {o} /\ lh' = lh /\ wr' = [wr EXCEPT ![o] = {}]
            /\ outstanding' = outstanding + 1
        BY <2>1, <3>2 DEF begin_op, In, IInv, TypeOK
      <4>2. WrLogged'
        BY <4>1 DEF WrLogged, InLog, IInv, TypeOK, In
      <4>3. Cardinality(In') = outstanding + 1
        BY <4>1 DEF IInv, GroupCommit
      <4>4. Len(lh) + Cardinality(In') * MAXOPBLOCKS <= LOGSIZE
        BY <4>3, <3>2 DEF Fits
      <4> QED
        <5>1. Cardinality(In') * MAXOPBLOCKS \in Nat
          BY ReserveBoundNext, LogAssumption
        <5> QED
          BY <2>0, <4>1, <4>2, <4>4, <5>1, ReserveBoundNext, LogAssumption DEF Reservation
    <3> QED
      BY <3>1, <3>2
  <2>2. ASSUME NEW o \in Ops, end_op(o) PROVE I'
    <3>1. In' \subseteq In /\ wr' = wr /\ lh' = lh
      BY <2>2 DEF end_op, In, IInv, TypeOK, wakeup
    <3>2. Reserve' \subseteq Reserve /\ WrLogged'
      BY <3>1 DEF Reserve, WrLogged, InLog
    <3> QED
      BY <2>0, <3>1, <3>2, ReservationKept
  <2>3. ASSUME NEW o \in Ops, NEW b \in Blocks, NEW v \in Values, log_write(o, b, v)
        PROVE  I'
    BY <2>3, LogWriteReserves
  <2>4. CASE CommitStep \/ RecoverStep \/ Crash
    <3>1. In' = {}
      BY <2>4 DEF CommitStep, write_log, write_head, install_trans, erase, commit_done,
         RecoverStep, read_head, recover, recover_done, Crash, Advance, IInv, PhaseInv,
         Committing, GroupCommit, Recovering, In, DoneWakeup, wakeup
    <3>2. Reserve' = {} /\ WrLogged'
      BY <3>1 DEF Reserve, WrLogged
    <3>3. Len(lh') <= LOGSIZE
      BY DEF IInv, TypeOK, BlockSeq
    <3> QED
      BY <2>0, <3>2, <3>3, FS_EmptySet, LogAssumption DEF Reservation
  <2>5. CASE UNCHANGED vars
    <3>1. In' = In /\ wr' = wr /\ lh' = lh
      BY <2>5 DEF vars, In
    <3>2. Reserve' \subseteq Reserve /\ WrLogged'
      BY <3>1 DEF Reserve, WrLogged, InLog
    <3> QED
      BY <2>0, <3>1, <3>2, ReservationKept
  <2> QED
    BY <2>1, <2>2, <2>3, <2>4, <2>5 DEF Next, Call
<1> QED
  BY <1>1, <1>2, Inductive, PTL DEF Spec
=============================================================================
