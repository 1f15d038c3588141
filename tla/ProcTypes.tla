----------------------------- MODULE ProcTypes ------------------------------
(***************************************************************************)
(* Proofs about the process table: its steps keep the types.               *)
(***************************************************************************)
EXTENDS ProcTable, TLAPS

\* A fresh thread, and one whose fields are assigned in their range, is a thread.
LEMMA ThreadFacts ==
  /\ \A x \in PC : At(x) \in Threads
  /\ \A x \in PC, a \in 0..MaxPid : [At(x) EXCEPT !.arg = a] \in Threads
  /\ \A t \in Threads, x \in PC : [t EXCEPT !.at = x] \in Threads
  /\ \A t \in Threads, k \in 1..(NPROC + 1) :
       [t EXCEPT !.i = k] \in Threads /\ [t EXCEPT !.j = k] \in Threads
  /\ \A t \in Threads, k \in 1..(NPROC + 1) : [t EXCEPT !.i = k, !.kids = TRUE] \in Threads
<1>1. \A x \in PC : At(x) \in Threads
  <2>1. 1 \in 1..(NPROC + 1) /\ 0 \in 0..MaxPid /\ 0 \in 0..NPROC
    BY ProcAssumption
  <2>2. "user" \in PC
    BY DEF PC
  <2> QED
    BY <2>1, <2>2 DEF At, Threads, NoProc
<1>2. \A x \in PC, a \in 0..MaxPid : [At(x) EXCEPT !.arg = a] \in Threads
  BY <1>1 DEF Threads
<1>3. \A t \in Threads, x \in PC : [t EXCEPT !.at = x] \in Threads
  BY DEF Threads
<1>4. \A t \in Threads, k \in 1..(NPROC + 1) :
        [t EXCEPT !.i = k] \in Threads /\ [t EXCEPT !.j = k] \in Threads
  BY DEF Threads
<1>5. \A t \in Threads, k \in 1..(NPROC + 1) : [t EXCEPT !.i = k, !.kids = TRUE] \in Threads
  BY DEF Threads
<1> QED
  BY <1>1, <1>2, <1>3, <1>4, <1>5

\* The fields of a thread.
LEMMA FieldFacts ==
  ASSUME TypeOK, NEW p \in Slots
  PROVE  /\ th[p] \in Threads
         /\ th[p].at \in PC /\ th[p].i \in 1..(NPROC + 1) /\ th[p].j \in 1..(NPROC + 1)
         /\ th[p].arg \in 0..MaxPid /\ th[p].chn \in 0..NPROC /\ th[p].kids \in BOOLEAN
  BY DEF TypeOK, Threads

\* What a CPU does with a process.
Act(c, p) ==
  \/ allocproc(c, p) \/ fork_parent(c, p) \/ fork_run(c, p) \/ fork_mask(c, p)
  \/ wait(c, p) \/ wait_scan(c, p) \/ wait_nokid(c, p) \/ sleep(c, p)
  \/ exit(c, p) \/ reparent(c, p) \/ wakeup(c, p) \/ kill(c, p)
  \/ syscall(c, p) \/ usertrapret(c, p) \/ yield(c, p)
  \/ scheduler(c, p) \/ resume(c, p)

\* A step keeps the types.
LEMMA TypeStep ==
  ASSUME TypeOK, NEW c \in CPUs, NEW p \in Slots, swtch_out(c) \/ Act(c, p)
  PROVE  TypeOK'
<1>a. /\ th[p] \in Threads /\ th[p].i \in 1..(NPROC + 1) /\ th[p].j \in 1..(NPROC + 1)
      /\ th[p].arg \in 0..MaxPid /\ th[p].chn \in 0..NPROC
  BY FieldFacts
<1>b. {"return", "fork_parent", "forkret", "fork_run", "fork_mask", "scan", "nokid", "sleep",
       "sleep_ret", "reparent", "wakeup", "zombie", "exit", "alloc", "wait", "kill", "user",
       "yield_ret"} \subseteq PC
  BY DEF PC
<1>c. {"UNUSED", "USED", "SLEEPING", "RUNNABLE", "RUNNING", "ZOMBIE"} \subseteq States
  BY DEF States
<1>d. /\ NPROC \in Nat \ {0} /\ MaxPid \in Nat /\ NPROC <= MaxPid /\ 0 \in Masks
      /\ 0 \in 0..NPROC /\ p \in 0..NPROC /\ p \in 0..MaxPid /\ 0 \in 0..MaxPid /\ 1 \in 0..NPROC
  BY ProcAssumption DEF Slots
<1>e. \A k \in 1..(NPROC + 1) : k <= NPROC => k \in Slots /\ k \in 0..MaxPid /\ k + 1 \in 1..(NPROC + 1)
  BY <1>d DEF Slots
<1>1. CASE swtch_out(c)
  <2>1. cproc[c] \in Slots
    BY <1>1, <1>d DEF swtch_out, TypeOK, NoProc, Slots
  <2> QED
    BY <1>1, <2>1, <1>d DEF swtch_out, TypeOK, hvars, NoProc
<1>2. CASE allocproc(c, p)
  <2>1. CASE th[p].i > NPROC
    <3>1. At("return") \in Threads
      BY <1>b, ThreadFacts
    <3> QED
      BY <1>2, <2>1, <3>1, <1>a, <1>d DEF allocproc, Go, TypeOK, hvars
  <2>2. CASE th[p].i <= NPROC /\ state[th[p].i] # "UNUSED"
    <3>1. [th[p] EXCEPT !.i = th[p].i + 1] \in Threads
      BY <2>2, <1>a, <1>e, ThreadFacts
    <3> QED
      BY <1>2, <2>2, <3>1, <1>a, <1>d DEF allocproc, Go, TypeOK, hvars
  <2>3. CASE th[p].i <= NPROC /\ state[th[p].i] = "UNUSED"
    <3>1. [At("fork_parent") EXCEPT !.arg = th[p].i] \in Threads /\ At("forkret") \in Threads
          /\ At("return") \in Threads
      BY <2>3, <1>a, <1>b, <1>e, ThreadFacts
    <3>2. nextpid' \in 1..(MaxPid + 1) /\ (nextpid <= MaxPid => nextpid \in 0..MaxPid)
      BY <1>2, <2>3, <1>a, <1>d DEF allocproc, TypeOK
    <3>3. CASE /\ nextpid <= MaxPid /\ state' = [state EXCEPT ![th[p].i] = "USED"]
               /\ pid' = [pid EXCEPT ![th[p].i] = nextpid] /\ smask' = [smask EXCEPT ![th[p].i] = 0]
               /\ th' = [th EXCEPT ![p] = [At("fork_parent") EXCEPT !.arg = th[p].i],
                                   ![th[p].i] = At("forkret")]
               /\ UNCHANGED killed
      <4>1. th' \in [Slots -> Threads]
        BY <3>1, <3>3 DEF TypeOK
      <4>2. pid' \in [Slots -> 0..MaxPid] /\ state' \in [Slots -> States] /\ smask' \in [Slots -> Masks]
        BY <3>2, <3>3, <1>c, <1>d DEF TypeOK
      <4> QED
        BY <1>2, <3>2, <3>3, <4>1, <4>2 DEF allocproc, TypeOK, hvars
    <3>4. CASE Go(p, "return") /\ UNCHANGED <<state, pid, smask>>
      <4>1. th' \in [Slots -> Threads]
        BY <3>1, <3>4 DEF Go, TypeOK
      <4>2. killed' \in [Slots -> BOOLEAN]
        BY <1>2, <2>3, <1>a, <1>d DEF allocproc, TypeOK
      <4> QED
        BY <1>2, <3>2, <3>4, <4>1, <4>2 DEF allocproc, TypeOK, hvars
    <3> QED
      BY <1>2, <2>3, <1>a, <1>d, <3>3, <3>4 DEF allocproc, allocpid
  <2> QED
    BY <1>a, <1>d, <2>1, <2>2, <2>3
<1>3. CASE fork_parent(c, p)
  <2>1. th' \in [Slots -> Threads]
    BY <1>3, <1>a, <1>b, ThreadFacts DEF fork_parent, TypeOK
  <2>2. parent' \in [Slots -> 0..NPROC]
    BY <1>3, <1>d DEF fork_parent, TypeOK
  <2> QED
    BY <1>3, <2>1, <2>2 DEF fork_parent, TypeOK, hvars
<1>4. CASE fork_run(c, p)
  <2>1. th' \in [Slots -> Threads]
    BY <1>4, <1>a, <1>b, <1>d, <1>e, ThreadFacts DEF fork_run, TypeOK
  <2> QED
    BY <1>4, <2>1, <1>a, <1>c, <1>d, <1>e DEF fork_run, TypeOK, hvars
<1>5. CASE fork_mask(c, p)
  <2>1. th' \in [Slots -> Threads]
    BY <1>5, <1>a, <1>b, <1>d, <1>e, ThreadFacts DEF fork_mask, Go, TypeOK
  <2> QED
    BY <1>5, <2>1, <1>a, <1>c, <1>d, <1>e DEF fork_mask, Go, TypeOK, hvars
<1>6. CASE wait(c, p)
  <2>1. th' \in [Slots -> Threads]
    BY <1>6, <1>a, <1>b, <1>d, <1>e, ThreadFacts DEF wait, Go, TypeOK
  <2> QED
    BY <1>6, <2>1, <1>a, <1>c, <1>d, <1>e DEF wait, Go, TypeOK, hvars
<1>7. CASE wait_scan(c, p)
  <2>1. CASE th[p].i > NPROC
    <3>1. [th[p] EXCEPT !.at = "nokid"] \in Threads
      BY <2>1, <1>a, <1>b, <1>d, <1>e, ThreadFacts
    <3>2. th' = [th EXCEPT ![p] = [th[p] EXCEPT !.at = "nokid"]]
      BY <1>7, <2>1, <1>a, <1>d DEF wait_scan, Go, NoProc
    <3> QED
      BY <1>7, <2>1, <3>1, <3>2, <1>a, <1>c, <1>d, <1>e DEF wait_scan, Go, NoProc, TypeOK, hvars
  <2>2. CASE th[p].i <= NPROC /\ parent[th[p].i] # p
    <3>1. [th[p] EXCEPT !.i = th[p].i + 1] \in Threads
      BY <2>2, <1>a, <1>b, <1>d, <1>e, ThreadFacts
    <3>2. th' = [th EXCEPT ![p] = [th[p] EXCEPT !.i = th[p].i + 1]]
      BY <1>7, <2>2, <1>a, <1>d DEF wait_scan, Go, NoProc
    <3> QED
      BY <1>7, <2>2, <3>1, <3>2, <1>a, <1>c, <1>d, <1>e DEF wait_scan, Go, NoProc, TypeOK, hvars
  <2>3. CASE th[p].i <= NPROC /\ parent[th[p].i] = p /\ state[th[p].i] # "ZOMBIE"
    <3>1. [th[p] EXCEPT !.i = th[p].i + 1, !.kids = TRUE] \in Threads
      BY <2>3, <1>a, <1>b, <1>d, <1>e, ThreadFacts
    <3>2. th' = [th EXCEPT ![p] = [th[p] EXCEPT !.i = th[p].i + 1, !.kids = TRUE]]
      BY <1>7, <2>3, <1>a, <1>d DEF wait_scan, Go, NoProc
    <3> QED
      BY <1>7, <2>3, <3>1, <3>2, <1>a, <1>c, <1>d, <1>e DEF wait_scan, Go, NoProc, TypeOK, hvars
  <2>4. CASE th[p].i <= NPROC /\ parent[th[p].i] = p /\ state[th[p].i] = "ZOMBIE"
    <3>1. At("return") \in Threads
      BY <2>4, <1>a, <1>b, <1>d, <1>e, ThreadFacts
    <3>2. th' = [th EXCEPT ![p] = At("return")]
      BY <1>7, <2>4, <1>a, <1>d DEF wait_scan, Go, NoProc
    <3>3. th' \in [Slots -> Threads]
      BY <3>1, <3>2 DEF TypeOK
    <3>4. CASE UNCHANGED <<state, pid, parent, chan, killed, smask>>
      BY <1>7, <2>4, <3>3, <3>4, <1>a, <1>d DEF wait_scan, TypeOK, hvars
    <3>5. CASE /\ state' = [state EXCEPT ![th[p].i] = "UNUSED"] /\ pid' = [pid EXCEPT ![th[p].i] = 0]
               /\ parent' = [parent EXCEPT ![th[p].i] = 0] /\ chan' = [chan EXCEPT ![th[p].i] = 0]
               /\ killed' = [killed EXCEPT ![th[p].i] = FALSE] /\ smask' = [smask EXCEPT ![th[p].i] = 0]
      <4>1. /\ state' \in [Slots -> States] /\ pid' \in [Slots -> 0..MaxPid]
            /\ parent' \in [Slots -> 0..NPROC] /\ chan' \in [Slots -> 0..NPROC]
            /\ killed' \in [Slots -> BOOLEAN] /\ smask' \in [Slots -> Masks]
        BY <3>5, <1>c, <1>d DEF TypeOK
      <4> QED
        BY <1>7, <2>4, <3>3, <4>1, <1>a, <1>d DEF wait_scan, TypeOK, hvars
    <3> QED
      BY <1>7, <2>4, <3>4, <3>5, <1>a, <1>d DEF wait_scan, NoProc
  <2> QED
    BY <1>7, <1>d, <1>a, <2>1, <2>2, <2>3, <2>4 DEF wait_scan, Go, NoProc
<1>8. CASE wait_nokid(c, p)
  <2>1. CASE ~th[p].kids \/ killed[p]
    <3>1. At("return") \in Threads
      BY <2>1, <1>a, <1>b, <1>d, <1>e, ThreadFacts
    <3>2. th' = [th EXCEPT ![p] = At("return")]
      BY <1>8, <2>1, <1>a, <1>d DEF wait_nokid, Go
    <3> QED
      BY <1>8, <2>1, <3>1, <3>2, <1>a, <1>c, <1>d, <1>e DEF wait_nokid, Go, TypeOK, hvars
  <2>2. CASE ~(~th[p].kids \/ killed[p])
    <3>1. At("sleep") \in Threads
      BY <2>2, <1>a, <1>b, <1>d, <1>e, ThreadFacts
    <3>2. th' = [th EXCEPT ![p] = At("sleep")]
      BY <1>8, <2>2, <1>a, <1>d DEF wait_nokid, Go
    <3> QED
      BY <1>8, <2>2, <3>1, <3>2, <1>a, <1>c, <1>d, <1>e DEF wait_nokid, Go, TypeOK, hvars
  <2> QED
    BY <1>8, <1>d, <1>a, <2>1, <2>2 DEF wait_nokid, Go
<1>9. CASE sleep(c, p)
  <2>1. th' \in [Slots -> Threads]
    BY <1>9, <1>a, <1>b, <1>d, <1>e, ThreadFacts DEF sleep, Go, sleep_release, TypeOK
  <2> QED
    BY <1>9, <2>1, <1>a, <1>c, <1>d, <1>e DEF sleep, Go, sleep_release, TypeOK, hvars
<1>10. CASE exit(c, p)
  <2>1. th' \in [Slots -> Threads]
    BY <1>10, <1>a, <1>b, <1>d, <1>e, ThreadFacts DEF exit, Go, TypeOK
  <2> QED
    BY <1>10, <2>1, <1>a, <1>c, <1>d, <1>e DEF exit, Go, TypeOK, hvars
<1>11. CASE reparent(c, p)
  <2>1. CASE th[p].i > NPROC
    <3>1. [th[p] EXCEPT !.at = "wakeup", !.j = 1, !.chn = parent[p],
                         !.ret = "zombie"] \in Threads
      <4>1. parent[p] \in 0..NPROC /\ "wakeup" \in PC /\ "zombie" \in PC /\ 1 \in 1..(NPROC + 1)
        BY <1>b, <1>d DEF TypeOK
      <4> QED
        BY <4>1, <1>a DEF Threads
    <3>2. th' = [th EXCEPT ![p] = [th[p] EXCEPT !.at = "wakeup", !.j = 1, !.chn = parent[p],
                         !.ret = "zombie"]]
      BY <1>11, <2>1, <1>a, <1>d DEF reparent, initproc, DoneReparent
    <3> QED
      BY <1>11, <2>1, <3>1, <3>2, <1>a, <1>c, <1>d, <1>e DEF reparent, initproc, DoneReparent, TypeOK, hvars
  <2>2. CASE th[p].i <= NPROC /\ parent[th[p].i] = p
    <3>1. [th[p] EXCEPT !.at = "wakeup", !.i = th[p].i + 1, !.j = 1, !.chn = 1,
                         !.ret = "reparent"] \in Threads
      <4>1. "wakeup" \in PC /\ "reparent" \in PC /\ 1 \in 1..(NPROC + 1) /\ th[p].i + 1 \in 1..(NPROC + 1)
        BY <2>2, <1>a, <1>b, <1>d, <1>e
      <4> QED
        BY <4>1, <1>a, <1>d DEF Threads
    <3>2. th' = [th EXCEPT ![p] = [th[p] EXCEPT !.at = "wakeup", !.i = th[p].i + 1, !.j = 1, !.chn = 1,
                         !.ret = "reparent"]]
      BY <1>11, <2>2, <1>a, <1>d DEF reparent, initproc, DoneReparent
    <3> QED
      BY <1>11, <2>2, <3>1, <3>2, <1>a, <1>c, <1>d, <1>e DEF reparent, initproc, DoneReparent, TypeOK, hvars
  <2>3. CASE th[p].i <= NPROC /\ parent[th[p].i] # p
    <3>1. [th[p] EXCEPT !.i = th[p].i + 1] \in Threads
      BY <2>3, <1>a, <1>b, <1>d, <1>e, ThreadFacts
    <3>2. th' = [th EXCEPT ![p] = [th[p] EXCEPT !.i = th[p].i + 1]]
      BY <1>11, <2>3, <1>a, <1>d DEF reparent, initproc, DoneReparent
    <3> QED
      BY <1>11, <2>3, <3>1, <3>2, <1>a, <1>c, <1>d, <1>e DEF reparent, initproc, DoneReparent, TypeOK, hvars
  <2> QED
    BY <1>11, <1>d, <1>a, <2>1, <2>2, <2>3 DEF reparent, initproc, DoneReparent
<1>12. CASE wakeup(c, p)
  <2>1. CASE th[p].j > NPROC /\ th[p].ret = "reparent"
    <3>1. [th[p] EXCEPT !.at = "reparent"] \in Threads
      BY <2>1, <1>a, <1>b, <1>d, <1>e, ThreadFacts
    <3>2. th' = [th EXCEPT ![p] = [th[p] EXCEPT !.at = "reparent"]]
      BY <1>12, <2>1, <1>a, <1>d DEF wakeup, Go
    <3> QED
      BY <1>12, <2>1, <3>1, <3>2, <1>a, <1>c, <1>d, <1>e DEF wakeup, Go, TypeOK, hvars
  <2>2. CASE th[p].j > NPROC /\ th[p].ret # "reparent"
    <3>1. At("zombie") \in Threads
      BY <2>2, <1>a, <1>b, <1>d, <1>e, ThreadFacts
    <3>2. th' = [th EXCEPT ![p] = At("zombie")]
      BY <1>12, <2>2, <1>a, <1>d DEF wakeup, Go
    <3> QED
      BY <1>12, <2>2, <3>1, <3>2, <1>a, <1>c, <1>d, <1>e DEF wakeup, Go, TypeOK, hvars
  <2>3. CASE th[p].j <= NPROC
    <3>1. [th[p] EXCEPT !.j = th[p].j + 1] \in Threads
      BY <2>3, <1>a, <1>b, <1>d, <1>e, ThreadFacts
    <3>2. th' = [th EXCEPT ![p] = [th[p] EXCEPT !.j = th[p].j + 1]]
      BY <1>12, <2>3, <1>a, <1>d DEF wakeup, Go
    <3>3. th' \in [Slots -> Threads]
      BY <3>1, <3>2 DEF TypeOK
    <3>4. state' = state \/ state' = [state EXCEPT ![th[p].j] = "RUNNABLE"]
      BY <1>12, <2>3, <1>a, <1>d DEF wakeup
    <3>5. state' \in [Slots -> States]
      BY <3>4, <1>c DEF TypeOK
    <3> QED
      BY <1>12, <2>3, <3>3, <3>5, <1>a, <1>d DEF wakeup, TypeOK, hvars
  <2> QED
    BY <1>12, <1>d, <1>a, <2>1, <2>2, <2>3 DEF wakeup, Go
<1>13. CASE kill(c, p)
  <2>1. CASE th[p].i > NPROC
    <3>1. At("return") \in Threads
      BY <2>1, <1>a, <1>b, <1>d, <1>e, ThreadFacts
    <3>2. th' = [th EXCEPT ![p] = At("return")]
      BY <1>13, <2>1, <1>a, <1>d DEF kill, Go
    <3> QED
      BY <1>13, <2>1, <3>1, <3>2, <1>a, <1>c, <1>d, <1>e DEF kill, Go, TypeOK, hvars
  <2>2. CASE th[p].i <= NPROC /\ pid[th[p].i] # th[p].arg
    <3>1. [th[p] EXCEPT !.i = th[p].i + 1] \in Threads
      BY <2>2, <1>a, <1>b, <1>d, <1>e, ThreadFacts
    <3>2. th' = [th EXCEPT ![p] = [th[p] EXCEPT !.i = th[p].i + 1]]
      BY <1>13, <2>2, <1>a, <1>d DEF kill, Go
    <3> QED
      BY <1>13, <2>2, <3>1, <3>2, <1>a, <1>c, <1>d, <1>e DEF kill, Go, TypeOK, hvars
  <2>3. CASE th[p].i <= NPROC /\ pid[th[p].i] = th[p].arg
    <3>1. At("return") \in Threads
      BY <2>3, <1>a, <1>b, <1>d, <1>e, ThreadFacts
    <3>2. th' = [th EXCEPT ![p] = At("return")]
      BY <1>13, <2>3, <1>a, <1>d DEF kill, Go
    <3>3. th' \in [Slots -> Threads]
      BY <3>1, <3>2 DEF TypeOK
    <3>4. state' = state \/ state' = [state EXCEPT ![th[p].i] = "RUNNABLE"]
      BY <1>13, <2>3, <1>a, <1>d DEF kill
    <3>5. state' \in [Slots -> States] /\ killed' \in [Slots -> BOOLEAN]
      BY <1>13, <2>3, <3>4, <1>a, <1>c, <1>d DEF TypeOK, kill
    <3> QED
      BY <1>13, <3>3, <3>5 DEF kill, TypeOK, hvars
  <2> QED
    BY <1>13, <1>d, <1>a, <2>1, <2>2, <2>3 DEF kill, Go
<1>14. CASE syscall(c, p)
  <2>1. CASE \E x \in {"alloc", "wait", "exit", "return"} : Go(p, x)
    <3>1. PICK x \in PC : Go(p, x)
      BY <2>1, <1>b
    <3>2. At(x) \in Threads
      BY ThreadFacts
    <3>3. th' \in [Slots -> Threads]
      BY <3>1, <3>2 DEF Go, TypeOK
    <3>4. smask' \in [Slots -> Masks] /\ want' \in [Slots -> Masks]
      BY <1>14 DEF syscall, TypeOK, hvars
    <3> QED
      BY <1>14, <3>3, <3>4 DEF syscall, TypeOK
  <2>2. CASE \E k \in KillPids : th' = [th EXCEPT ![p] = [At("kill") EXCEPT !.arg = k]]
    <3>1. PICK k \in 0..MaxPid : th' = [th EXCEPT ![p] = [At("kill") EXCEPT !.arg = k]]
      BY <2>2, ProcAssumption
    <3>2. [At("kill") EXCEPT !.arg = k] \in Threads
      BY <1>b, ThreadFacts
    <3> QED
      BY <1>14, <3>1, <3>2, <1>d DEF syscall, TypeOK, hvars
  <2> QED
    BY <1>14, <2>1, <2>2 DEF syscall
<1>15. CASE usertrapret(c, p)
  <2>1. th' \in [Slots -> Threads]
    BY <1>15, <1>a, <1>b, <1>d, <1>e, ThreadFacts DEF usertrapret, Go, TypeOK
  <2> QED
    BY <1>15, <2>1, <1>a, <1>c, <1>d, <1>e DEF usertrapret, Go, TypeOK, hvars
<1>16. CASE yield(c, p)
  <2>1. th' \in [Slots -> Threads]
    BY <1>16, <1>a, <1>b, <1>d, <1>e, ThreadFacts DEF yield, Go, TypeOK
  <2> QED
    BY <1>16, <2>1, <1>a, <1>c, <1>d, <1>e DEF yield, Go, TypeOK, hvars
<1>17. CASE scheduler(c, p)
  BY <1>17, <1>c, <1>d DEF scheduler, TypeOK, hvars
<1>18. CASE resume(c, p)
  <2>1. th' \in [Slots -> Threads]
    BY <1>18, <1>a, <1>b, <1>d, <1>e, ThreadFacts DEF resume, Go, NoProc, TypeOK
  <2> QED
    BY <1>18, <2>1, <1>a, <1>c, <1>d, <1>e DEF resume, Go, NoProc, TypeOK, hvars
<1> QED
  BY <1>1, <1>2, <1>3, <1>4, <1>5, <1>6, <1>7, <1>8, <1>9, <1>10, <1>11, <1>12, <1>13, <1>14, <1>15, <1>16, <1>17, <1>18 DEF Act
=============================================================================
