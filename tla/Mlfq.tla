-------------------------------- MODULE Mlfq --------------------------------
(***************************************************************************)
(* The multilevel feedback queue (the MLFQ parts of kernel/proc.c and      *)
(* kernel/trap.c), on one CPU, as README.md assumes for this build.  The   *)
(* queues are the arrays of the code.  In the scheduler interrupts are on: *)
(* a process may be woken between any two steps of a scheduling pass.      *)
(***************************************************************************)
EXTENDS Integers, Sequences, FiniteSets, SequencesExt

CONSTANTS NP,       \* processes
          NPROC,    \* length of a queue
          NPR,      \* priorities 0 .. NPR-1
          AGE,      \* ticks of waiting after which a process is promoted
          MaxTicks  \* bound: rticks stays there, past every time slice

ASSUME MlfqAssumption ==
  /\ NP \in 1..NPROC /\ NPR \in Nat \ {0} /\ AGE \in Nat \ {0}
  /\ MaxTicks \in Nat /\ MaxTicks > 2^(NPR - 1)

Procs == 1..NP
Null == 0
Prio == 0..(NPR - 1)
Index == 1..NPROC
User == NPR       \* of check: the process is not in usertrap's loop

VARIABLES
  state, pr, rticks, wticks,   \* struct proc
  queue,
  cur,      \* cpu->proc
  check,    \* where each process goes on with usertrap's loop over priorities
  phase, pos,   \* of the scheduler: what it does, and the slot it is at
  late      \* history: processes woken after this pass had looked at their slot

pvars == <<state, pr, rticks, wticks, check>>
vars == <<pvars, queue, cur, phase, pos, late>>

First(S) == CHOOSE k \in S : \A j \in S : k <= j

\* A dequeue that fills the gap with the last entry.
dequeue_swap(a, p) ==
  LET at == {k \in Index : a[k] = p}
      used == {k \in Index : a[k] # Null}
      last == CHOOSE k \in used : \A j \in used : k >= j
  IN IF at = {} THEN a ELSE [[a EXCEPT ![First(at)] = a[last]] EXCEPT ![last] = Null]

\* dequeue_proc: shift what follows p; the last entry keeps its value.
dequeue(a, p) ==
  LET at == {k \in Index : a[k] = p}
  IN IF at = {} THEN a
     ELSE [k \in Index |-> IF k >= First(at) /\ k < NPROC THEN a[k + 1] ELSE a[k]]

\* queue_proc: p goes to the first free entry, unless it is met before.
enqueue_first(a, p) == [a EXCEPT ![1] = p]
enqueue(a, p) ==
  LET at == {k \in Index : a[k] \in {p, Null}}
  IN IF at = {} THEN a ELSE [a EXCEPT ![First(at)] = p]

\* The entries of all queues from priority lo up, as the loops visit them.
Entries(lo) ==
  [k \in 1..((NPR - lo) * NPROC) |->
     [i |-> lo + (k - 1) \div NPROC, j |-> ((k - 1) % NPROC) + 1]]

(***************************************************************************)
(* scheduler(): queue what is RUNNABLE, promote what has waited, choose.   *)
(***************************************************************************)
sched_queue ==
  /\ cur = Null /\ phase = "queue"
  /\ IF pos <= NP
     THEN /\ queue' = IF state[pos] = "RUNNABLE"
                      THEN [queue EXCEPT ![pr[pos]] = enqueue(@, pos)] ELSE queue
          /\ pos' = pos + 1
          /\ UNCHANGED phase
     ELSE phase' = "age" /\ UNCHANGED <<queue, pos>>
  /\ UNCHANGED <<pvars, cur, late>>

Promote(r, e) ==
  LET p == r.queue[e.i][e.j]
  IN IF p = Null \/ r.wticks[p] < AGE THEN r
     ELSE [queue |-> [r.queue EXCEPT ![r.pr[p]] = dequeue(@, p),
                                     ![r.pr[p] - 1] = enqueue(@, p)],
           pr |-> [r.pr EXCEPT ![p] = @ - 1],
           wticks |-> [r.wticks EXCEPT ![p] = 0]]

sched_age ==
  /\ cur = Null /\ phase = "age"
  /\ LET r == FoldLeft(Promote, [queue |-> queue, pr |-> pr, wticks |-> wticks], Entries(1))
     IN queue' = r.queue /\ pr' = r.pr /\ wticks' = r.wticks
  /\ phase' = "pick"
  /\ UNCHANGED <<state, rticks, check, cur, pos, late>>

\* stop: the priority whose queue has been left at its first free entry
Choose(r, e) ==
  LET p == r.queue[e.i][e.j]
  IN IF r.p # Null \/ r.stop = e.i THEN r
     ELSE IF p = Null THEN [r EXCEPT !.stop = e.i]
     ELSE [r EXCEPT !.queue[pr[p]] = dequeue(@, p),
                    !.p = IF state[p] = "RUNNABLE" THEN p ELSE Null]

sched_pick ==
  /\ cur = Null /\ phase = "pick"
  /\ LET r == FoldLeft(Choose, [queue |-> queue, p |-> Null, stop |-> -1], Entries(0))
     IN /\ queue' = r.queue
        /\ cur' = r.p
        /\ IF r.p = Null THEN UNCHANGED <<state, wticks>>
           ELSE /\ state' = [state EXCEPT ![r.p] = "RUNNING"]
                /\ wticks' = [wticks EXCEPT ![r.p] = 0]
  /\ phase' = "queue" /\ pos' = 1 /\ late' = {}
  /\ UNCHANGED <<pr, rticks, check>>

(***************************************************************************)
(* Timer interrupts.                                                       *)
(***************************************************************************)
Queued(p) == \E i \in Prio, j \in Index : queue[i][j] = p
Copies(p) == {e \in Prio \X Index : queue[e[1]][e[2]] = p}

\* wticks++ for every entry that is RUNNABLE; beyond AGE it is not told apart.
Waited ==
  [p \in Procs |->
     IF state[p] # "RUNNABLE" THEN wticks[p]
     ELSE LET w == wticks[p] + Cardinality(Copies(p)) IN IF w < AGE THEN w ELSE AGE]

\* The rest of usertrap's loop, from priority i: yield at the first queue of
\* higher priority that is not empty, and go on behind it when run again.
GoesOn(p, i, lvl) ==
  LET busy == {k \in i..(lvl - 1) : queue[k][1] # Null}
  IN IF busy = {}
     THEN /\ check' = [check EXCEPT ![p] = User]
          /\ UNCHANGED <<state, cur>>
     ELSE /\ check' = [check EXCEPT ![p] = First(busy) + 1]
          /\ state' = [state EXCEPT ![p] = "RUNNABLE"]
          /\ cur' = Null

Demoted(p) == IF pr[p] # NPR - 1 THEN pr[p] + 1 ELSE pr[p]

usertrap ==
  /\ cur # Null /\ check[cur] = User
  /\ LET r == IF rticks[cur] < MaxTicks THEN rticks[cur] + 1 ELSE rticks[cur]
     IN IF r = 2^pr[cur]
        THEN /\ rticks' = [rticks EXCEPT ![cur] = 0]
             /\ pr' = [pr EXCEPT ![cur] = Demoted(cur)]
             /\ state' = [state EXCEPT ![cur] = "RUNNABLE"]
             /\ check' = [check EXCEPT ![cur] = 0]
             /\ cur' = Null
        ELSE /\ rticks' = [rticks EXCEPT ![cur] = r]
             /\ GoesOn(cur, 0, pr[cur])
             /\ UNCHANGED pr
  /\ wticks' = Waited
  /\ UNCHANGED <<queue, phase, pos, late>>

\* yield() has returned into usertrap.
usertrap_more ==
  /\ cur # Null /\ check[cur] # User
  /\ GoesOn(cur, check[cur], pr[cur])
  /\ UNCHANGED <<pr, rticks, wticks, queue, phase, pos, late>>

\* In the kernel a process always yields; the scheduler itself does not.
kerneltrap ==
  /\ cur # Null => check[cur] = User
  /\ wticks' = Waited
  /\ state' = IF cur = Null THEN state ELSE [state EXCEPT ![cur] = "RUNNABLE"]
  /\ cur' = Null
  /\ UNCHANGED <<pr, rticks, check, queue, phase, pos, late>>

(***************************************************************************)
(* sleep, wakeup, fork, and exit with wait, as far as scheduling goes.     *)
(***************************************************************************)
sleep ==
  /\ cur # Null /\ check[cur] = User
  /\ state' = [state EXCEPT ![cur] = "SLEEPING"]
  /\ cur' = Null
  /\ UNCHANGED <<pr, rticks, wticks, check, queue, phase, pos, late>>

wakeup(p) ==
  /\ state[p] = "SLEEPING"
  /\ state' = [state EXCEPT ![p] = "RUNNABLE"]
  /\ late' = IF cur = Null /\ (phase # "queue" \/ p < pos) THEN late \cup {p} ELSE late
  /\ UNCHANGED <<pr, rticks, wticks, check, queue, cur, phase, pos>>

fork(p) ==
  /\ cur # Null /\ check[cur] = User /\ state[p] = "UNUSED"
  /\ state' = [state EXCEPT ![p] = "RUNNABLE"]
  /\ pr' = [pr EXCEPT ![p] = 0]
  /\ rticks' = [rticks EXCEPT ![p] = 0]
  /\ wticks' = [wticks EXCEPT ![p] = 0]
  /\ check' = [check EXCEPT ![p] = User]
  /\ UNCHANGED <<queue, cur, phase, pos, late>>

exit ==
  /\ cur # Null /\ cur # 1 /\ check[cur] = User
  /\ state' = [state EXCEPT ![cur] = "UNUSED"]
  /\ cur' = Null
  /\ UNCHANGED <<pr, rticks, wticks, check, queue, phase, pos, late>>

Init ==
  /\ state = [p \in Procs |-> IF p = 1 THEN "RUNNABLE" ELSE "UNUSED"]
  /\ pr = [p \in Procs |-> 0] /\ rticks = [p \in Procs |-> 0] /\ wticks = [p \in Procs |-> 0]
  /\ queue = [i \in Prio |-> [j \in Index |-> Null]]
  /\ cur = Null /\ check = [p \in Procs |-> User]
  /\ phase = "queue" /\ pos = 1 /\ late = {}

Next ==
  \/ sched_queue \/ sched_age \/ sched_pick
  \/ usertrap \/ usertrap_more \/ kerneltrap \/ sleep \/ exit
  \/ \E p \in Procs : wakeup(p) \/ fork(p)

Spec == Init /\ [][Next]_vars

-----------------------------------------------------------------------------
\* The fields and queues of the MLFQ build keep their types, and cpu->proc is
\* the one process that is RUNNING.
TypeOK ==
  /\ state \in [Procs -> {"UNUSED", "SLEEPING", "RUNNABLE", "RUNNING"}]
  /\ pr \in [Procs -> Prio] /\ rticks \in [Procs -> 0..MaxTicks]
  /\ wticks \in [Procs -> 0..AGE] /\ check \in [Procs -> 0..NPR]
  /\ queue \in [Prio -> [Index -> Procs \cup {Null}]]
  /\ cur \in Procs \cup {Null} /\ phase \in {"queue", "age", "pick"}
  /\ pos \in 1..(NP + 1) /\ late \subseteq Procs
  /\ \A p \in Procs : state[p] = "RUNNING" <=> cur = p

\* The queues are sound: an entry is RUNNABLE, is in the queue of its own
\* priority and nowhere else, and no entry stands behind a free one, although
\* priorities change and dequeue_proc() shifts while loops run over the arrays.
QueueSound ==
  /\ \A i \in Prio, j \in Index : queue[i][j] # Null =>
       LET p == queue[i][j] IN state[p] = "RUNNABLE" /\ pr[p] = i /\ Copies(p) = {<<i, j>>}
  /\ \A i \in Prio, j, k \in Index : j < k /\ queue[i][j] = Null => queue[i][k] = Null

\* No process is forgotten: when a scheduling pass chooses, every process that
\* was RUNNABLE when its slot was looked at is in a queue, those an interrupt has
\* woken earlier in the pass included.
QueueComplete ==
  phase # "queue" => \A p \in Procs \ late : state[p] = "RUNNABLE" => Queued(p)

In(p, i) == \E j \in Index : queue[i][j] = p
Ahead(p, q) == \E i \in Prio, j, k \in Index : j < k /\ queue[i][j] = p /\ queue[i][k] = q

\* First come, first served within a priority.  Of the processes that were
\* RUNNABLE when their slot was looked at, the scheduler picks one of the best
\* priority and of those the head of the queue; it idles only when there is none.
\* And no step lets a process get ahead of one that has been waiting in the same
\* queue, although dequeue_proc() shifts the arrays and ageing adds to them.
PicksBest ==
  [][/\ sched_pick => \A p \in Procs \ late :
          state[p] = "RUNNABLE" =>
            cur' # Null /\ (pr[cur'] < pr[p] \/ cur' = p \/ Ahead(cur', p))
     /\ \A i \in Prio, p, q \in Procs :
          In(p, i) /\ In(p, i)' /\ In(q, i)' /\ p # q /\ ~Ahead(q, p) => Ahead(p, q)']_vars

\* "moves all processes past the removed process one space back": a process
\* that has been chosen, and so dequeued, is in no queue.
Dequeued == cur # Null => ~Queued(cur)

\* "To punish a process that expires its time slice, we reduce its priority":
\* a process in user space has not used up the slice of its priority.
SliceRespected == cur # Null /\ check[cur] = User => rticks[cur] < 2^pr[cur]

\* "If a higher priority process exists, then the current process is
\* preempted": after a timer interrupt no process of higher priority waits.
HigherPreempts ==
  [][usertrap /\ cur' # Null =>
       \A p \in Procs : state[p] = "RUNNABLE" => pr[p] >= pr[cur]]_vars

\* "To implement aging, we dequeue an aged process and enqueue it in a higher
\* queue": a pass promotes every process that has waited long enough.
AgedIsPromoted ==
  [][sched_age => \A i \in 1..(NPR - 1), j \in Index :
       queue[i][j] # Null => wticks'[queue[i][j]] < AGE]_vars
=============================================================================
