----------------------------- MODULE ProcTable -----------------------------
(***************************************************************************)
(* The process table of kernel/proc.c: fork, exit, wait, kill, the switch  *)
(* between a process and a CPU's scheduler, with p->lock and wait_lock as  *)
(* the code takes them.  A section under one p->lock that ends where it    *)
(* began is one action; a lock that is handed over by swtch() is explicit. *)
(* Which process a scheduler picks is left open (the choice is made        *)
(* without p->lock held and tested again), so the module covers every      *)
(* build.  Memory and files are other modules.                             *)
(***************************************************************************)
EXTENDS Integers, FiniteSets

CONSTANTS NPROC, CPUs, NoCpu,
          MaxPid,      \* bound: pids that are handed out
          KillPids,    \* arguments of kill() (killing init panics by design)
          Masks        \* arguments of trace()

ASSUME ProcAssumption ==
  /\ NPROC \in Nat \ {0} /\ MaxPid \in Nat /\ NPROC <= MaxPid
  /\ NoCpu \notin CPUs /\ KillPids \subseteq 0..MaxPid /\ 0 \in Masks

Slots == 1..NPROC
NoProc == 0
initproc == 1

VARIABLES
  state, chan, killed, pid, parent, smask,   \* struct proc
  plock, wait_lock,   \* the CPU that holds each lock
  cproc,              \* cpus[c].proc
  nextpid,
  th,                 \* the kernel thread of each process
  want,               \* history: the mask a process should be traced with
  asked               \* history: pids given to kill()

vars == <<state, chan, killed, pid, parent, smask, plock, wait_lock, cproc, nextpid,
          th, want, asked>>
hvars == <<want, asked>>

(***************************************************************************)
(* A kernel thread: where it is, its loop indices, fork()'s np or kill()'s *)
(* pid, havekids, and wakeup()'s channel and the place it returns to.      *)
(***************************************************************************)
PC == {"user", "alloc", "fork_parent", "fork_run", "fork_mask",
       "wait", "scan", "nokid", "sleep", "kill", "exit", "reparent", "wakeup", "zombie",
       "return", "yield_ret", "sleep_ret", "forkret"}
Parked == {"yield_ret", "sleep_ret", "forkret", "zombie"}
At(x) == [at |-> x, i |-> 1, j |-> 1, arg |-> NoProc, kids |-> FALSE, chn |-> NoProc,
          ret |-> "user"]
Threads == [at : PC, i : 1..(NPROC + 1), j : 1..(NPROC + 1), arg : 0..MaxPid,
            kids : BOOLEAN, chn : 0..NPROC, ret : PC]

Go(p, x) == th' = [th EXCEPT ![p] = At(x)]
On(c, p, x) == /\ cproc[c] = p /\ p # NoProc /\ th[p].at = x
               /\ plock[p] # c

\* acquire() and release(): a spin lock is taken when it is free.
AlwaysFree(s) == TRUE
Free(s) == plock[s] = NoCpu

\* allocpid(): the old value of nextpid.
allocpid == nextpid

\* Find a free slot, set it up, copy the parent: all under np->lock.
allocproc(c, p) ==
  /\ On(c, p, "alloc")
  /\ LET s == th[p].i IN
     \/ /\ s > NPROC
        /\ Go(p, "return")
        /\ UNCHANGED <<state, killed, pid, nextpid, smask>>
     \/ /\ s <= NPROC /\ Free(s) /\ state[s] # "UNUSED"
        /\ th' = [th EXCEPT ![p].i = s + 1]
        /\ UNCHANGED <<state, killed, pid, nextpid, smask>>
     \/ /\ s <= NPROC /\ Free(s) /\ state[s] = "UNUSED"
        /\ nextpid' = IF nextpid <= MaxPid THEN nextpid + 1 ELSE nextpid
        /\ \/ /\ nextpid <= MaxPid                    \* np is complete
              /\ pid' = [pid EXCEPT ![s] = allocpid]
              /\ state' = [state EXCEPT ![s] = "USED"]
              /\ smask' = [smask EXCEPT ![s] = 0]
              /\ UNCHANGED killed
              /\ th' = [th EXCEPT ![p] = [At("fork_parent") EXCEPT !.arg = s],
                                  ![s] = At("forkret")]
           \/ /\ killed' = [killed EXCEPT ![s] = FALSE]   \* no memory: freeproc(np)
              /\ Go(p, "return")
              /\ UNCHANGED <<state, pid, smask>>
  /\ UNCHANGED <<chan, parent, plock, wait_lock, cproc, hvars>>

fork_parent(c, p) ==
  /\ On(c, p, "fork_parent") /\ wait_lock = NoCpu
  /\ parent' = [parent EXCEPT ![th[p].arg] = p]
  /\ th' = [th EXCEPT ![p].at = "fork_run"]
  /\ UNCHANGED <<state, chan, killed, pid, smask, plock, wait_lock, cproc, nextpid, hvars>>

fork_run(c, p) ==
  /\ On(c, p, "fork_run") /\ Free(th[p].arg)
  /\ state' = [state EXCEPT ![th[p].arg] = "RUNNABLE"]
  /\ want' = [want EXCEPT ![th[p].arg] = smask[p]]
  /\ th' = [th EXCEPT ![p].at = "fork_mask"]
  /\ UNCHANGED <<chan, killed, pid, parent, smask, plock, wait_lock, cproc, nextpid, asked>>

\* The last statements of fork(), without a lock.
fork_mask(c, p) ==
  /\ On(c, p, "fork_mask")
  /\ smask' = [smask EXCEPT ![th[p].arg] = smask[p]]
  /\ Go(p, "return")
  /\ UNCHANGED <<state, chan, killed, pid, parent, plock, wait_lock, cproc, nextpid, hvars>>

-----------------------------------------------------------------------------
\* wait() and waitx(): scan the table under wait_lock.
wait(c, p) ==
  /\ On(c, p, "wait") /\ wait_lock = NoCpu
  /\ wait_lock' = c
  /\ Go(p, "scan")
  /\ UNCHANGED <<state, chan, killed, pid, parent, smask, plock, cproc, nextpid, hvars>>

wait_scan(c, p) ==
  /\ On(c, p, "scan")
  /\ LET s == th[p].i IN
     \/ /\ s > NPROC
        /\ th' = [th EXCEPT ![p].at = "nokid"]
        /\ UNCHANGED <<state, chan, killed, pid, parent, smask, wait_lock>>
     \/ /\ s <= NPROC /\ parent[s] # p
        /\ th' = [th EXCEPT ![p].i = s + 1]
        /\ UNCHANGED <<state, chan, killed, pid, parent, smask, wait_lock>>
     \/ /\ s <= NPROC /\ parent[s] = p /\ Free(s) /\ state[s] # "ZOMBIE"
        /\ th' = [th EXCEPT ![p] = [@ EXCEPT !.i = s + 1, !.kids = TRUE]]
        /\ UNCHANGED <<state, chan, killed, pid, parent, smask, wait_lock>>
     \/ /\ s <= NPROC /\ parent[s] = p /\ Free(s) /\ state[s] = "ZOMBIE"
        /\ \/ /\ state' = [state EXCEPT ![s] = "UNUSED"]   \* freeproc(pp)
              /\ pid' = [pid EXCEPT ![s] = 0]
              /\ parent' = [parent EXCEPT ![s] = NoProc]
              /\ chan' = [chan EXCEPT ![s] = NoProc]
              /\ killed' = [killed EXCEPT ![s] = FALSE]
              /\ smask' = [smask EXCEPT ![s] = 0]
           \/ UNCHANGED <<state, pid, parent, chan, killed, smask>>   \* copyout fails
        /\ wait_lock' = NoCpu
        /\ Go(p, "return")
  /\ UNCHANGED <<plock, cproc, nextpid, hvars>>

\* havekids and killed(p) are tested before the sleep; a kill() may come
\* between that test and sleep()'s acquire(&p->lock).
wait_nokid(c, p) ==
  /\ On(c, p, "nokid") /\ Free(p)
  /\ IF ~th[p].kids \/ killed[p]
     THEN wait_lock' = NoCpu /\ Go(p, "return")
     ELSE wait_lock' = wait_lock /\ Go(p, "sleep")
  /\ UNCHANGED <<state, chan, killed, pid, parent, smask, plock, cproc, nextpid, hvars>>

\* sleep(p, &wait_lock): p->lock is taken before wait_lock is given up.
sleep_release == NoCpu

sleep(c, p) ==
  /\ On(c, p, "sleep") /\ Free(p)
  /\ plock' = [plock EXCEPT ![p] = c]
  /\ wait_lock' = sleep_release
  /\ chan' = [chan EXCEPT ![p] = p]
  /\ state' = [state EXCEPT ![p] = "SLEEPING"]
  /\ Go(p, "sleep_ret")
  /\ UNCHANGED <<killed, pid, parent, smask, cproc, nextpid, hvars>>

-----------------------------------------------------------------------------
\* exit(): children go to init, the parent is woken, and only then does p
\* become a zombie; wait_lock is held all the while.
exit(c, p) ==
  /\ On(c, p, "exit") /\ wait_lock = NoCpu /\ p # initproc
  /\ wait_lock' = c
  /\ Go(p, "reparent")
  /\ UNCHANGED <<state, chan, killed, pid, parent, smask, plock, cproc, nextpid, hvars>>

DoneEarly == NPROC - 1
DoneReparent == NPROC

reparent(c, p) ==
  /\ On(c, p, "reparent")
  /\ LET s == th[p].i IN
     \/ /\ s > DoneReparent
        /\ th' = [th EXCEPT ![p] = [@ EXCEPT !.at = "wakeup", !.j = 1, !.chn = parent[p],
                                             !.ret = "zombie"]]
        /\ UNCHANGED parent
     \/ /\ s <= DoneReparent /\ parent[s] = p
        /\ parent' = [parent EXCEPT ![s] = initproc]
        /\ th' = [th EXCEPT ![p] = [@ EXCEPT !.at = "wakeup", !.i = s + 1, !.j = 1,
                                             !.chn = initproc, !.ret = "reparent"]]
     \/ /\ s <= DoneReparent /\ parent[s] # p
        /\ th' = [th EXCEPT ![p].i = s + 1]
        /\ UNCHANGED parent
  /\ UNCHANGED <<state, chan, killed, pid, smask, plock, wait_lock, cproc, nextpid, hvars>>

\* wakeup(): one p->lock after the other, except the caller's own.
NeverWakes(s, ch) == FALSE
Wakes(s, ch) == state[s] = "SLEEPING" /\ chan[s] = ch

wakeup(c, p) ==
  /\ On(c, p, "wakeup")
  /\ LET s == th[p].j IN
     \/ /\ s > NPROC
        /\ IF th[p].ret = "reparent"
           THEN th' = [th EXCEPT ![p].at = "reparent"] /\ UNCHANGED <<state, plock, wait_lock>>
           ELSE /\ Free(p)                           \* acquire(&p->lock)
                /\ plock' = [plock EXCEPT ![p] = c]
                /\ state' = [state EXCEPT ![p] = "ZOMBIE"]
                /\ wait_lock' = NoCpu
                /\ Go(p, "zombie")
     \/ /\ s <= NPROC /\ (s = p \/ Free(s))
        /\ state' = IF s # p /\ Wakes(s, th[p].chn)
                    THEN [state EXCEPT ![s] = "RUNNABLE"] ELSE state
        /\ th' = [th EXCEPT ![p].j = s + 1]
        /\ UNCHANGED <<plock, wait_lock>>
  /\ UNCHANGED <<chan, killed, pid, parent, smask, cproc, nextpid, hvars>>

\* kill(): the first slot with this pid, whatever its state.
kill(c, p) ==
  /\ On(c, p, "kill")
  /\ LET s == th[p].i IN
     \/ /\ s > NPROC
        /\ Go(p, "return")
        /\ UNCHANGED <<state, killed>>
     \/ /\ s <= NPROC /\ Free(s) /\ pid[s] # th[p].arg
        /\ th' = [th EXCEPT ![p].i = s + 1]
        /\ UNCHANGED <<state, killed>>
     \/ /\ s <= NPROC /\ Free(s) /\ pid[s] = th[p].arg
        /\ killed' = [killed EXCEPT ![s] = TRUE]
        /\ state' = IF state[s] = "SLEEPING" THEN [state EXCEPT ![s] = "RUNNABLE"] ELSE state
        /\ Go(p, "return")
  /\ UNCHANGED <<chan, pid, parent, smask, plock, wait_lock, cproc, nextpid, hvars>>

-----------------------------------------------------------------------------
(***************************************************************************)
(* usertrap(): a killed process exits on its way in and on its way out.    *)
(***************************************************************************)
syscall(c, p) ==
  /\ On(c, p, "user")
  /\ \/ killed[p] /\ Go(p, "exit") /\ UNCHANGED <<smask, hvars>>
     \/ /\ ~killed[p]
        /\ \/ /\ \E x \in {"alloc", "wait", "exit"} : (x = "exit" => p # initproc) /\ Go(p, x)
              /\ UNCHANGED <<smask, hvars>>
           \/ \E k \in KillPids :
                /\ th' = [th EXCEPT ![p] = [At("kill") EXCEPT !.arg = k]]
                /\ asked' = asked \cup {k}
                /\ UNCHANGED <<smask, want>>
           \/ \E m \in Masks :                              \* sys_trace
                /\ smask' = [smask EXCEPT ![p] = m]
                /\ want' = [want EXCEPT ![p] = m]
                /\ Go(p, "return")
                /\ UNCHANGED asked
  /\ UNCHANGED <<state, chan, killed, pid, parent, plock, wait_lock, cproc, nextpid>>

usertrapret(c, p) ==
  /\ On(c, p, "return")
  /\ Go(p, IF killed[p] THEN "exit" ELSE "user")
  /\ UNCHANGED <<state, chan, killed, pid, parent, smask, plock, wait_lock, cproc, nextpid, hvars>>

\* A timer interrupt in user space that ends in yield().
yield(c, p) ==
  /\ On(c, p, "user") /\ ~killed[p] /\ Free(p)
  /\ plock' = [plock EXCEPT ![p] = c]
  /\ state' = [state EXCEPT ![p] = "RUNNABLE"]
  /\ Go(p, "yield_ret")
  /\ UNCHANGED <<chan, killed, pid, parent, smask, wait_lock, cproc, nextpid, hvars>>

\* sched() and the second half of scheduler(): swtch to the scheduler, which
\* releases the lock the process took.
swtch_out(c) ==
  /\ cproc[c] # NoProc
  /\ LET p == cproc[c] IN
     /\ th[p].at \in Parked /\ plock[p] = c /\ state[p] # "RUNNING"
     /\ plock' = [plock EXCEPT ![p] = NoCpu]
  /\ cproc' = [cproc EXCEPT ![c] = NoProc]
  /\ UNCHANGED <<state, chan, killed, pid, parent, smask, wait_lock, nextpid, th, hvars>>

\* The first half: a process is picked, locked and found RUNNABLE.
scheduler(c, p) ==
  /\ cproc[c] = NoProc
  /\ Free(p) /\ state[p] = "RUNNABLE"
  /\ plock' = [plock EXCEPT ![p] = c]
  /\ state' = [state EXCEPT ![p] = "RUNNING"]
  /\ cproc' = [cproc EXCEPT ![c] = p]
  /\ UNCHANGED <<chan, killed, pid, parent, smask, wait_lock, nextpid, th, hvars>>

\* Back in yield(), sleep() or forkret(): release p->lock.
resume(c, p) ==
  /\ cproc[c] = p /\ plock[p] = c /\ state[p] = "RUNNING" /\ th[p].at \in Parked
  /\ plock' = [plock EXCEPT ![p] = NoCpu]
  /\ chan' = [chan EXCEPT ![p] = NoProc]
  /\ Go(p, IF th[p].at = "sleep_ret" THEN "wait" ELSE "user")
  /\ UNCHANGED <<state, killed, pid, parent, smask, wait_lock, cproc, nextpid, hvars>>

Init ==
  /\ state = [s \in Slots |-> IF s = initproc THEN "RUNNABLE" ELSE "UNUSED"]
  /\ chan = [s \in Slots |-> NoProc] /\ killed = [s \in Slots |-> FALSE]
  /\ pid = [s \in Slots |-> IF s = initproc THEN 1 ELSE 0]
  /\ parent = [s \in Slots |-> NoProc] /\ smask = [s \in Slots |-> 0]
  /\ plock = [s \in Slots |-> NoCpu] /\ wait_lock = NoCpu
  /\ cproc = [c \in CPUs |-> NoProc] /\ nextpid = 2
  /\ th = [s \in Slots |-> At("forkret")]
  /\ want = [s \in Slots |-> 0] /\ asked = {}

Next ==
  \E c \in CPUs :
    \/ swtch_out(c)
    \/ \E p \in Slots :
         \/ allocproc(c, p) \/ fork_parent(c, p) \/ fork_run(c, p) \/ fork_mask(c, p)
         \/ wait(c, p) \/ wait_scan(c, p) \/ wait_nokid(c, p) \/ sleep(c, p)
         \/ exit(c, p) \/ reparent(c, p) \/ wakeup(c, p) \/ kill(c, p)
         \/ syscall(c, p) \/ usertrapret(c, p) \/ yield(c, p)
         \/ scheduler(c, p) \/ resume(c, p)

Spec == Init /\ [][Next]_vars

-----------------------------------------------------------------------------
States == {"UNUSED", "USED", "SLEEPING", "RUNNABLE", "RUNNING", "ZOMBIE"}

\* The fields of struct proc, the locks and the threads of proc.c keep their
\* types; a pid in the table was handed out by allocpid().
TypeOK ==
  /\ state \in [Slots -> States] /\ chan \in [Slots -> 0..NPROC]
  /\ killed \in [Slots -> BOOLEAN] /\ pid \in [Slots -> 0..MaxPid]
  /\ parent \in [Slots -> 0..NPROC] /\ smask \in [Slots -> Masks]
  /\ plock \in [Slots -> CPUs \cup {NoCpu}] /\ wait_lock \in CPUs \cup {NoCpu}
  /\ cproc \in [CPUs -> 0..NPROC] /\ nextpid \in 1..(MaxPid + 1)
  /\ th \in [Slots -> Threads] /\ want \in [Slots -> Masks]

\* A process runs on at most one CPU, and when its lock is free it is on a CPU
\* exactly if it is RUNNING: no CPU ever uses the kernel stack of a process
\* that another CPU may pick (yield, sleep), or that wait() may free (exit).
OneCpu ==
  /\ \A c, d \in CPUs : cproc[c] = cproc[d] /\ cproc[c] # NoProc => c = d
  /\ \A s \in Slots : plock[s] = NoCpu => (state[s] = "RUNNING" <=> \E c \in CPUs : cproc[c] = s)

\* A parent asleep in wait() has a child, and none of its children is a
\* zombie: the wakeup() of exit() and of reparent() is never lost.
NoLostChild ==
  wait_lock = NoCpu =>
    \A p \in Slots : state[p] = "SLEEPING" =>
      /\ \E s \in Slots : parent[s] = p
      /\ \A s \in Slots : parent[s] = p => state[s] # "ZOMBIE"

\* exit() leaves no orphan: a process that can run or waits to be reaped has
\* a parent, which is itself neither gone nor a zombie.
ParentAlive ==
  wait_lock = NoCpu =>
    \A s \in Slots \ {initproc} :
      /\ state[s] \in {"RUNNABLE", "RUNNING", "SLEEPING", "ZOMBIE"} => parent[s] # NoProc
      /\ parent[s] # NoProc => state[parent[s]] \notin {"UNUSED", "ZOMBIE"}

\* The panic "sched locks" is unreachable: a process that has given itself up
\* holds p->lock and nothing else.
SchedLocks ==
  \A c \in CPUs : cproc[c] # NoProc /\ th[cproc[c]].at \in Parked
                  /\ state[cproc[c]] # "RUNNING" => wait_lock # c

\* "Kill the process with the given pid": a process is marked killed only if
\* its pid was given to kill().
KillHitsItsTarget ==
  \A s \in Slots : state[s] # "UNUSED" /\ killed[s] => pid[s] \in asked

\* "child process should get the same mask as the parent process": a process
\* that runs is traced with the mask it inherited or set itself.
ForkInherits ==
  \A s \in Slots : state[s] = "RUNNING" /\ th[s].at = "user" => smask[s] = want[s]
-----------------------------------------------------------------------------
\* The parts of the inductive invariant IInv of ProcProofs.

\* A lock that is held between two steps belongs to the process on the CPU,
\* which is giving itself up or has just been picked.
CpuInv ==
  /\ \A c, d \in CPUs : cproc[c] = cproc[d] /\ cproc[c] # NoProc => c = d
  /\ \A s \in Slots : plock[s] # NoCpu => cproc[plock[s]] = s /\ th[s].at \in Parked
  /\ \A c \in CPUs : cproc[c] # NoProc /\ plock[cproc[c]] = NoCpu =>
       state[cproc[c]] = "RUNNING" /\ th[cproc[c]].at \notin Parked
  /\ \A s \in Slots : state[s] = "RUNNING" => \E c \in CPUs : cproc[c] = s
  /\ \A s \in Slots : (\A c \in CPUs : cproc[c] # s) => th[s].at \in Parked

\* wait_lock is held by the CPU whose process is between its acquire and release.
HoldsWait == {"scan", "nokid", "sleep", "reparent", "wakeup"}
WaitInv ==
  /\ \A c \in CPUs : wait_lock = c => cproc[c] # NoProc /\ th[cproc[c]].at \in HoldsWait
  /\ \A c \in CPUs : cproc[c] # NoProc /\ th[cproc[c]].at \in HoldsWait => wait_lock = c

\* The slot fork() fills is nobody else's; an unused slot has no parent.
Forking(p) == th[p].at \in {"fork_parent", "fork_run"}
ForkInv ==
  /\ \A p \in Slots : Forking(p) => th[p].arg \in Slots /\ state[th[p].arg] = "USED"
  /\ \A p, q \in Slots : Forking(p) /\ Forking(q) /\ p # q => th[p].arg # th[q].arg
  /\ \A p \in Slots : th[p].at = "fork_parent" => parent[th[p].arg] = NoProc
  /\ \A p \in Slots : th[p].at = "fork_run" => parent[th[p].arg] = p
  /\ \A s \in Slots : state[s] = "UNUSED" => parent[s] = NoProc

\* An exiting process has given away the children it has passed.
Exiting(p) == th[p].at \in {"reparent", "wakeup"}
ParentInv ==
  /\ \A s \in Slots \ {initproc} :
       state[s] \in {"RUNNABLE", "RUNNING", "SLEEPING", "ZOMBIE"} => parent[s] # NoProc
  /\ \A s \in Slots : parent[s] # NoProc => state[parent[s]] \notin {"UNUSED", "ZOMBIE"}
  /\ \A p \in Slots : Exiting(p) => \A s \in Slots : s < th[p].i => parent[s] # p
  /\ \A p \in Slots : th[p].at = "wakeup" => th[p].ret \in {"reparent", "zombie"}
  /\ \A p \in Slots : th[p].at = "wakeup" /\ th[p].ret = "zombie" => th[p].i > NPROC /\ th[p].chn = parent[p]
  /\ ~Exiting(initproc) /\ state[initproc] \notin {"UNUSED", "USED", "ZOMBIE"}

\* A zombie whose parent sleeps is about to be announced to it; a parent that
\* looked for zombies has seen none so far.
WillWake(q, p) == th[q].at = "wakeup" /\ th[q].chn = p /\ th[q].j <= p
Waiting(p) == th[p].at \in {"scan", "nokid", "sleep"}
Seen(p, s) == th[p].at = "scan" => s < th[p].i
ChildInv ==
  /\ \A p \in Slots : state[p] = "SLEEPING" => chan[p] = p /\ \E s \in Slots : parent[s] = p
  /\ \A p, s \in Slots : state[p] = "SLEEPING" /\ parent[s] = p /\ state[s] = "ZOMBIE" =>
       \E q \in Slots : WillWake(q, p)
  /\ \A p, q \in Slots : th[q].at = "wakeup" /\ th[q].ret = "zombie" /\ parent[q] = p
       /\ state[p] = "SLEEPING" => th[q].j <= p
  /\ \A p \in Slots : th[p].at = "sleep" \/ (Waiting(p) /\ th[p].kids) => \E s \in Slots : parent[s] = p
  /\ \A p, s \in Slots : Waiting(p) /\ Seen(p, s) /\ parent[s] = p => state[s] # "ZOMBIE"

IInv == TypeOK /\ CpuInv /\ WaitInv /\ ForkInv /\ ParentInv /\ ChildInv
=============================================================================
