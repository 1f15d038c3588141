------------------------------- MODULE Locks -------------------------------
(***************************************************************************)
(* Spin locks and interrupts (kernel/spinlock.c): push_off and pop_off     *)
(* nest, intena belongs to a kernel thread while noff and the enable bit   *)
(* belong to a CPU, and threads change CPUs in sched().  What a thread     *)
(* does is a list of calls; sys_sleep, clockintr, yield and scheduler      *)
(* (kernel/sysproc.c, proc.c, trap.c) give the lists.                      *)
(***************************************************************************)
EXTENDS Integers, Sequences

CONSTANTS NCPU, NT      \* CPUs, processes

VARIABLES sie, noff, intena,   \* of each CPU
          on,                  \* the thread a CPU executes
          lk,                  \* spin locks: locked and cpu
          stack,               \* of each thread: the calls it has to make, innermost last
          state                \* of each process

lkvars == <<sie, noff, intena, on, lk, stack, state>>

Cpus == 1..NCPU
Procs == 1..NT
Scheduler(c) == NT + c
Threads == 1..(NT + NCPU)
tickslock == 0
Locks == {tickslock} \cup Procs      \* a process stands for its p->lock
Nobody == 0

Call(op, x) == [op |-> op, x |-> x]
acquire(l) == Call("acquire", l)
release(l) == Call("release", l)
Frame(code) == [code |-> code, st |-> "start", old |-> FALSE]

Ticks == [l \in 1..NT |-> <<acquire(l), Call("wakeup", l), release(l)>>]
Concat(ss) == LET cat[k \in 0..Len(ss)] == IF k = 0 THEN <<>> ELSE cat[k - 1] \o ss[k] IN cat[Len(ss)]

LockFirst(p) == <<acquire(tickslock), release(p), release(tickslock)>>
LockLast(p) == <<release(p), acquire(tickslock), release(tickslock)>>
Reacquire(p) == LockLast(p)
sleep(p) == <<acquire(tickslock), acquire(p), release(tickslock), Call("sched", "SLEEPING")>> \o Reacquire(p)
yield(p) == <<acquire(p), Call("sched", "RUNNABLE"), release(p)>>
clockintr == <<acquire(tickslock)>> \o Concat(Ticks) \o <<release(tickslock)>>
devintr(c) == IF c = 1 THEN clockintr ELSE <<>>
trap(c, t) == devintr(c) \o (IF t \in Procs THEN yield(t) ELSE <<>>) \o <<Call("sret", 0)>>
scheduler(p) == <<Call("intr_on", 0), acquire(p), Call("swtch", p), release(p)>>

-----------------------------------------------------------------------------
Top(t) == stack[t][Len(stack[t])]
Idle(c) == Top(on[c]).code = <<>>
Does(c, op, st) == ~Idle(c) /\ Head(Top(on[c]).code).op = op /\ Top(on[c]).st = st
Arg(c) == Head(Top(on[c]).code).x
Put(t, f) == [stack EXCEPT ![t][Len(stack[t])] = f]
Goes(c, st) == stack' = Put(on[c], [Top(on[c]) EXCEPT !.st = st])
Returns(t) == stack' = Put(t, Frame(Tail(Top(t).code)))

holding(c, l) == lk[l].locked /\ lk[l].cpu = c

\* A process in user space, or at the beginning of a system call; the scheduler.
enter(c, code) ==
  /\ Idle(c) /\ stack' = Put(on[c], Frame(code))
  /\ UNCHANGED <<sie, noff, intena, on, lk, state>>

\* An interrupt: usertrap() or kerneltrap().
interrupt(c) ==
  /\ sie[c] /\ Len(stack[on[c]]) = 1
  /\ sie' = [sie EXCEPT ![c] = FALSE]
  /\ stack' = [stack EXCEPT ![on[c]] = Append(@, Frame(trap(c, on[c])))]
  /\ UNCHANGED <<noff, intena, on, lk, state>>
sret(c) ==
  /\ Does(c, "sret", "start")
  /\ sie' = [sie EXCEPT ![c] = TRUE]
  /\ stack' = [stack EXCEPT ![on[c]] = <<Head(@)>>]
  /\ UNCHANGED <<noff, intena, on, lk, state>>

intr_on(c) ==
  /\ Does(c, "intr_on", "start")
  /\ sie' = [sie EXCEPT ![c] = TRUE] /\ Returns(on[c])
  /\ UNCHANGED <<noff, intena, on, lk, state>>

\* acquire(): push_off() reads the enable bit, and an interrupt may still come;
\* once it is off nothing else runs here.
intr_get(c) ==
  /\ Does(c, "acquire", "start")
  /\ stack' = Put(on[c], [Top(on[c]) EXCEPT !.st = "got", !.old = sie[c]])
  /\ UNCHANGED <<sie, noff, intena, on, lk, state>>
push_off(c) ==
  /\ Does(c, "acquire", "got")
  /\ sie' = [sie EXCEPT ![c] = FALSE]
  /\ intena' = IF noff[c] = 0 THEN [intena EXCEPT ![c] = Top(on[c]).old] ELSE intena
  /\ noff' = [noff EXCEPT ![c] = @ + 1]
  /\ Goes(c, "spin") /\ UNCHANGED <<on, lk, state>>
\* Only this CPU compares lk->cpu with itself: its store goes with the swap.
test_and_set(c) ==
  /\ Does(c, "acquire", "spin") /\ ~holding(c, Arg(c)) /\ ~lk[Arg(c)].locked
  /\ lk' = [lk EXCEPT ![Arg(c)] = [locked |-> TRUE, cpu |-> c]]
  /\ Returns(on[c]) /\ UNCHANGED <<sie, noff, intena, on, state>>

\* release(): lk->cpu is cleared while the lock is still held.  The second step
\* opens the lock; what pop_off() does after it concerns this CPU only.
ClearsFirst(l, st) == IF st = "start" THEN [l EXCEPT !.cpu = Nobody] ELSE [l EXCEPT !.locked = FALSE]
Opened(l, st) == ClearsFirst(l, st)
clear(c) ==
  /\ Does(c, "release", "start") /\ holding(c, Arg(c))
  /\ lk' = [lk EXCEPT ![Arg(c)] = Opened(@, "start")]
  /\ Goes(c, "cleared") /\ UNCHANGED <<sie, noff, intena, on, state>>
pop_off(c) ==
  /\ Does(c, "release", "cleared") /\ ~sie[c] /\ noff[c] >= 1
  /\ lk' = [lk EXCEPT ![Arg(c)] = Opened(@, "cleared")]
  /\ noff' = [noff EXCEPT ![c] = @ - 1]
  /\ sie' = [sie EXCEPT ![c] = noff[c] = 1 /\ intena[c]]
  /\ Returns(on[c]) /\ UNCHANGED <<intena, on, state>>

wakeup(c) ==
  /\ Does(c, "wakeup", "start")
  /\ state' = [state EXCEPT ![Arg(c)] = IF @ = "SLEEPING" THEN "RUNNABLE" ELSE @]
  /\ Returns(on[c]) /\ UNCHANGED <<sie, noff, intena, on, lk>>

\* sched() keeps intena in its frame across the switch to the scheduler, which
\* goes on behind its own swtch().
MaySched(c) == holding(c, on[c]) /\ noff[c] = 1 /\ ~sie[c]
sched(c) ==
  /\ Does(c, "sched", "start") /\ MaySched(c)
  /\ state' = [state EXCEPT ![on[c]] = Arg(c)]
  /\ stack' = [Put(on[c], [Top(on[c]) EXCEPT !.st = "out", !.old = intena[c]]) EXCEPT
                 ![Scheduler(c)] = <<Frame(Tail(@[1].code))>>]
  /\ on' = [on EXCEPT ![c] = Scheduler(c)]
  /\ UNCHANGED <<sie, noff, intena, lk>>
OfCpu(c) == intena[c]
OfThread(c) == Top(on[c]).old
Intena(c) == OfThread(c)
sched_back(c) ==
  /\ Does(c, "sched", "out")
  /\ intena' = [intena EXCEPT ![c] = Intena(c)]
  /\ Returns(on[c]) /\ UNCHANGED <<sie, noff, on, lk, state>>

IsRunnable(p) == state[p] = "RUNNABLE"
Ready(p) == IsRunnable(p)
swtch(c) ==
  /\ Does(c, "swtch", "start")
  /\ IF Ready(Arg(c))
     THEN /\ state' = [state EXCEPT ![Arg(c)] = "RUNNING"]
          /\ on' = [on EXCEPT ![c] = Arg(c)] /\ UNCHANGED stack
     ELSE Returns(on[c]) /\ UNCHANGED <<state, on>>
  /\ UNCHANGED <<sie, noff, intena, lk>>

\* A new process begins in forkret(), with p->lock held by the scheduler.
Init ==
  /\ sie = [c \in Cpus |-> FALSE] /\ noff = [c \in Cpus |-> 0] /\ intena = [c \in Cpus |-> FALSE]
  /\ on = [c \in Cpus |-> Scheduler(c)]
  /\ lk = [l \in Locks |-> [locked |-> FALSE, cpu |-> Nobody]]
  /\ stack = [t \in Threads |-> <<Frame(IF t \in Procs THEN <<release(t)>> ELSE <<>>)>>]
  /\ state = [p \in Procs |-> "RUNNABLE"]

Next ==
  \E c \in Cpus :
    \/ on[c] \in Procs /\ enter(c, sleep(on[c]))
    \/ on[c] \notin Procs /\ \E p \in Procs : enter(c, scheduler(p))
    \/ interrupt(c) \/ sret(c) \/ intr_on(c) \/ intr_get(c) \/ push_off(c) \/ test_and_set(c)
    \/ clear(c) \/ pop_off(c) \/ wakeup(c) \/ sched(c) \/ sched_back(c) \/ swtch(c)

Spec == Init /\ [][Next]_lkvars

-----------------------------------------------------------------------------
\* One CPU has a lock and each process is on one CPU.
TypeOK ==
  /\ noff \in [Cpus -> 0..(NT + 1)] /\ intena \in [Cpus -> BOOLEAN] /\ sie \in [Cpus -> BOOLEAN]
  /\ lk \in [Locks -> [locked : BOOLEAN, cpu : Cpus \cup {Nobody}]]
  /\ \A c, d \in Cpus : c # d => on[c] # on[d]

\* No call of panic() in acquire, release, pop_off and sched is reached.
NoPanic ==
  \A c \in Cpus :
    /\ Does(c, "acquire", "spin") => ~holding(c, Arg(c))
    /\ Does(c, "release", "start") => holding(c, Arg(c))
    /\ Does(c, "release", "cleared") => ~sie[c] /\ noff[c] >= 1
    /\ Does(c, "sched", "start") => MaySched(c)

\* Interrupts are on exactly where the code on the CPU holds no spin lock and
\* does not serve an interrupt, on whatever CPU a thread took the lock.  (The
\* scheduler may have them off until its next intr_on().)
InterruptsRight ==
  \A c \in Cpus :
    LET plain == Len(stack[on[c]]) = 1 /\ noff[c] = 0
    IN  /\ sie[c] => plain
        /\ plain /\ on[c] \in Procs => sie[c]

\* No two CPUs wait for locks the other has.
NoCycle ==
  \A c, d \in Cpus :
    Does(c, "acquire", "spin") /\ Does(d, "acquire", "spin") =>
      ~(lk[Arg(c)].cpu = d /\ lk[Arg(d)].cpu = c)
=============================================================================
