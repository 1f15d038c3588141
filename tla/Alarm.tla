------------------------------- MODULE Alarm -------------------------------
(***************************************************************************)
(* sigalarm and sigreturn: the alarm fields of struct proc, the timer      *)
(* interrupt in usertrap() that starts a handler, and sys_sigreturn, with  *)
(* fork, exec, exit and wait as far as they touch those fields.  Programs  *)
(* call sigreturn from their handler, as README.md asks.                   *)
(* A trapframe is what a user sees of it: where it executes and the        *)
(* register a0, W bits wide; an int has H bits.                            *)
(***************************************************************************)
EXTENDS Integers, FiniteSets

CONSTANTS Procs, InitProc,
          Frames,      \* pages kalloc() has for alarm contexts
          Null,
          Intervals,   \* first arguments of sigalarm
          MaxTicks,    \* bound: nticks stays there (an int wraps far beyond)
          W, H,
          Regs         \* values of a0 that programs compute

ASSUME AlarmAssumption ==
  /\ InitProc \in Procs /\ Null \notin Frames /\ Intervals \subseteq 0..(MaxTicks - 1)
  /\ W \in Nat /\ H \in 1..W /\ MaxTicks \in Nat /\ Regs \subseteq 0..(2^W - 1)

VARIABLES
  live,                           \* slots in use
  interval, nticks, alarmOn,
  alarmContext,                   \* the page a process's alarmContext points to
  tf,                             \* trapframe
  saved,                          \* contents of the context pages
  used,                           \* context pages kalloc() handed out
  orig,                           \* history: tf when main was interrupted
  fired                           \* history: the handler ran under this interval

pvars == <<interval, nticks, alarmOn, alarmContext, tf>>
vars == <<live, pvars, saved, used, orig, fired>>

Tf == [epc : {"main", "handler"}, a0 : 0..(2^W - 1)]
AnyTf == [epc |-> "main", a0 |-> 0]

\* int a0 = ...; return a0; as a uint64: truncated, then sign-extended.
AsInt(x) == LET y == x % 2^H IN IF y >= 2^(H - 1) THEN y + 2^W - 2^H ELSE y

\* A user instruction.
Compute(p, x) ==
  /\ p \in live
  /\ tf' = [tf EXCEPT ![p].a0 = x]
  /\ UNCHANGED <<live, interval, nticks, alarmOn, alarmContext, saved, used, orig, fired>>

sys_sigalarm(p, n) ==
  /\ p \in live
  /\ interval' = [interval EXCEPT ![p] = n]
  /\ tf' = [tf EXCEPT ![p].a0 = 0]
  /\ fired' = [fired EXCEPT ![p] = FALSE]
  /\ UNCHANGED <<live, nticks, alarmOn, alarmContext, saved, used, orig>>

\* A timer interrupt of a process in user space.
Tick(n) == IF n < MaxTicks THEN n + 1 ELSE n
NeverMasked(p) == FALSE
Masked(p) == alarmOn[p]

usertrap(p) ==
  /\ p \in live
  /\ IF Masked(p)
     THEN UNCHANGED <<nticks, alarmOn, alarmContext, tf, saved, used, orig>>
     ELSE /\ nticks' = [nticks EXCEPT ![p] = Tick(nticks[p])]
          /\ IF nticks'[p] = interval[p]
             THEN \E f \in Frames \ used :     \* none left: a store through 0, kernel trap
                    /\ used' = used \cup {f}
                    /\ saved' = [saved EXCEPT ![f] = tf[p]]
                    /\ alarmContext' = [alarmContext EXCEPT ![p] = f]
                    /\ alarmOn' = [alarmOn EXCEPT ![p] = TRUE]
                    /\ tf' = [tf EXCEPT ![p].epc = "handler"]
                    /\ orig' = IF alarmOn[p] THEN orig ELSE [orig EXCEPT ![p] = tf[p]]
             ELSE UNCHANGED <<alarmOn, alarmContext, tf, saved, used, orig>>
  /\ UNCHANGED <<live, interval, fired>>

ResetTicks(n) == 0

sys_sigreturn(p) ==
  /\ p \in live /\ tf[p].epc = "handler"
  /\ alarmContext[p] # Null                    \* else a load through 0: kernel trap
  /\ LET f == alarmContext[p] IN
     /\ tf' = [tf EXCEPT ![p] = [saved[f] EXCEPT !.a0 = AsInt(@)]]
     /\ used' = used \ {f}
     /\ saved' = [saved EXCEPT ![f] = AnyTf]   \* kfree() fills the page
  /\ alarmOn' = [alarmOn EXCEPT ![p] = FALSE]
  /\ nticks' = [nticks EXCEPT ![p] = ResetTicks(@)]
  /\ alarmContext' = [alarmContext EXCEPT ![p] = Null]
  /\ fired' = [fired EXCEPT ![p] = alarmOn[p] /\ interval[p] > 0]
  /\ orig' = [orig EXCEPT ![p] = AnyTf]
  /\ UNCHANGED <<live, interval>>

-----------------------------------------------------------------------------
\* fork(): allocproc() resets nticks and alarmOn and leaves alarmContext as
\* the slot's last owner left it; the trapframe is the parent's.
fork(p, c) ==
  /\ p \in live /\ c \notin live
  /\ live' = live \cup {c}
  /\ nticks' = [nticks EXCEPT ![c] = 0]
  /\ alarmOn' = [alarmOn EXCEPT ![c] = FALSE]
  /\ tf' = [tf EXCEPT ![c] = [tf[p] EXCEPT !.a0 = 0], ![p].a0 = 1]   \* a pid is positive
  /\ fired' = [fired EXCEPT ![c] = FALSE]
  /\ UNCHANGED <<interval, alarmContext, saved, used, orig>>

\* exec() replaces the trapframe and none of the alarm fields.
exec(p) ==
  /\ p \in live
  /\ tf' = [tf EXCEPT ![p] = AnyTf]
  /\ UNCHANGED <<live, interval, nticks, alarmOn, alarmContext, saved, used, orig, fired>>

\* exit() and the parent's wait(): freeproc() resets interval and nticks.
freeproc(p) ==
  /\ p \in live \ {InitProc}
  /\ live' = live \ {p}
  /\ interval' = [interval EXCEPT ![p] = 0]
  /\ nticks' = [nticks EXCEPT ![p] = 0]
  /\ tf' = [tf EXCEPT ![p] = AnyTf]
  /\ fired' = [fired EXCEPT ![p] = FALSE] /\ orig' = [orig EXCEPT ![p] = AnyTf]
  /\ UNCHANGED <<alarmOn, alarmContext, saved, used>>

Init ==
  /\ live = {InitProc}
  /\ interval = [p \in Procs |-> 0] /\ nticks = [p \in Procs |-> 0]
  /\ alarmOn = [p \in Procs |-> FALSE] /\ alarmContext = [p \in Procs |-> Null]
  /\ tf = [p \in Procs |-> AnyTf] /\ saved = [f \in Frames |-> AnyTf] /\ used = {}
  /\ orig = [p \in Procs |-> AnyTf] /\ fired = [p \in Procs |-> FALSE]

Next ==
  \E p \in Procs :
    \/ usertrap(p) \/ sys_sigreturn(p) \/ exec(p) \/ freeproc(p)
    \/ \E c \in Procs : fork(p, c)
    \/ \E n \in Intervals : sys_sigalarm(p, n)
    \/ \E x \in Regs : Compute(p, x)

Spec == Init /\ [][Next]_vars

\* The timer keeps interrupting a process that stays in user space.
FairSpec == Spec /\ \A p \in Procs : WF_vars(usertrap(p))

-----------------------------------------------------------------------------
\* The alarm fields keep their types; a0 stays a W-bit register although
\* sys_sigreturn passes it through a signed int.
TypeOK ==
  /\ live \subseteq Procs /\ used \subseteq Frames
  /\ interval \in [Procs -> Intervals \cup {0}] /\ nticks \in [Procs -> 0..MaxTicks]
  /\ alarmOn \in [Procs -> BOOLEAN] /\ alarmContext \in [Procs -> Frames \cup {Null}]
  /\ tf \in [Procs -> Tf] /\ saved \in [Frames -> Tf] /\ orig \in [Procs -> Tf]
  /\ fired \in [Procs -> BOOLEAN]

\* While a handler runs, what it interrupted is kept: no second interrupt,
\* and no other process, overwrites or frees the saved trapframe.
ContextKept ==
  \A p \in live : alarmOn[p] =>
    /\ alarmContext[p] \in used
    /\ saved[alarmContext[p]] = orig[p]

\* Once a handler has returned, and as long as the interval is not changed,
\* the next alarm is ahead: the equality test in usertrap() will be met.
NextAlarmAhead ==
  \A p \in live : fired[p] /\ ~alarmOn[p] => nticks[p] < interval[p]

\* "calls the handler function periodically": a process that asks for an
\* alarm, and goes on running, gets it.
AlarmFires ==
  \A p \in Procs :
    (p \in live /\ interval[p] > 0 /\ ~alarmOn[p]) ~> (alarmOn[p] \/ p \notin live \/ interval[p] = 0)

\* "resets the process state to that before handler was invoked": sigreturn
\* brings back the interrupted trapframe, a0 included.
SigreturnRestores ==
  [][\A p \in Procs : sys_sigreturn(p) /\ alarmOn[p] => tf'[p] = orig[p]]_vars

\* "free a proc structure and the data hanging from it": a context page that
\* is allocated belongs to a process that is in its handler.
NoContextLeak ==
  \A f \in used : \E p \in live : alarmOn[p] /\ alarmContext[p] = f
=============================================================================
