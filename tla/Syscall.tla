------------------------------ MODULE Syscall ------------------------------
(***************************************************************************)
(* syscall() (kernel/syscall.c) with its tracing: the arguments are saved, *)
(* the call runs and leaves its value in a0, and then the line is printed, *)
(* one printf() after the other, while other processes print theirs.       *)
(***************************************************************************)
EXTENDS Integers, Sequences, SequencesExt

CONSTANTS NP,         \* processes
          Words,      \* what a program puts in a0 and a1: 64 bits as two ints, <<high, low>>
          MaxCalls

VARIABLES tf,     \* trapframe: a7, a0 and a1
          smask,
          th,     \* place in the kernel, syscall()'s args and i, and fork()'s np
          out,    \* the console
          calls,  \* number of calls so far
          due     \* history: per process what its traced calls were given and returned

vars == <<tf, smask, th, out, calls, due>>

Callers == 1..NP
SYS_fork == 1
SYS_exit == 2
SYS_exec == 7
SYS_link == 19
SYS_trace == 22
Unknown == 0
Known == {SYS_fork, SYS_exit, SYS_exec, SYS_link, SYS_trace}
syscall_nargs == [n \in Known |-> CASE n = SYS_fork -> 0
                                    [] n \in {SYS_exit, SYS_trace} -> 1
                                    [] n \in {SYS_exec, SYS_link} -> 2]

\* A negative int is extended with ones.
Word(n) == <<IF n < 0 THEN -1 ELSE 0, n>>

\* argint(), and printf() of a register with %d: the low 32 bits as an int.
AsInt(w) == w[2]

Bit(m, n) == (m \div 2^n) % 2 = 1
Zero == [a7 |-> 0, a0 |-> Word(0), a1 |-> Word(0)]
At(pc) == [pc |-> pc, args |-> <<>>, i |-> 0, np |-> 0, given |-> <<>>]

argraw(p, n) == IF n = 1 THEN tf[p].a0 ELSE tf[p].a1
Saved(p) == [n \in 1..syscall_nargs[tf[p].a7] |-> AsInt(argraw(p, n))]

\* The first process may have been started by strace.
Init ==
  /\ tf = [p \in Callers |-> Zero]
  /\ \E w \in Words : smask = [p \in Callers |-> IF p = 1 THEN AsInt(w) ELSE 0]
  /\ th = [p \in Callers |-> IF p = 1 THEN At("user") ELSE At("unused")]
  /\ out = <<>> /\ calls = 0 /\ due = [p \in Callers |-> <<>>]

\* The program's ecall: registers as it sets them.  given is history.
ecall(p, n, x, y) ==
  /\ th[p].pc = "user" /\ calls < MaxCalls
  /\ calls' = calls + 1
  /\ tf' = [tf EXCEPT ![p] = [a7 |-> n, a0 |-> x, a1 |-> y]]
  /\ th' = [th EXCEPT ![p] = [At("syscall") EXCEPT !.given = <<x, y>>]]
  /\ UNCHANGED <<smask, out, due>>

unknown(p) ==
  /\ th[p].pc = "syscall" /\ tf[p].a7 \notin Known
  /\ out' = Append(out, <<p, "unknown sys call", tf[p].a7>>)
  /\ tf' = [tf EXCEPT ![p].a0 = Word(-1)]
  /\ th' = [th EXCEPT ![p] = At("user")]
  /\ UNCHANGED <<smask, calls, due>>

save(p) ==
  /\ th[p].pc = "syscall" /\ tf[p].a7 \in Known
  /\ th' = [th EXCEPT ![p].pc = "call", ![p].args = Saved(p)]
  /\ UNCHANGED <<tf, smask, out, calls, due>>

Calls(p, n) == th[p].pc = "call" /\ tf[p].a7 = n

\* The call returns v, with trapframe f and masks m: p prints if it is traced.
\* due gets what the program gave and what it will see.
Traced(m, n) == Bit(m, n)
returns(p, f, m, v) ==
  /\ smask' = m
  /\ tf' = [tf EXCEPT ![p] = [f EXCEPT !.a0 = Word(v)]]
  /\ due' = [due EXCEPT ![p] = IF ~Bit(m[p], f.a7) THEN @ ELSE
               Append(@, [num |-> f.a7, given |-> SubSeq(th[p].given, 1, syscall_nargs[f.a7]), value |-> Word(v)])]
  /\ th' = [th EXCEPT ![p] = IF Traced(m[p], f.a7) THEN [@ EXCEPT !.pc = "print"] ELSE At("user")]
  /\ UNCHANGED <<out, calls>>

link(p, v) == Calls(p, SYS_link) /\ returns(p, tf[p], smask, v)

\* exec() sets a1 for the new program and returns its argc; or it fails.
exec(p, argc, sp) ==
  /\ Calls(p, SYS_exec)
  /\ \/ returns(p, [tf[p] EXCEPT !.a1 = Word(sp)], smask, argc)
     \/ returns(p, tf[p], smask, -1)

sys_trace(p) == Calls(p, SYS_trace) /\ returns(p, tf[p], [smask EXCEPT ![p] = AsInt(argraw(p, 1))], 0)

\* fork(): the child gets the trapframe and may run; it does not return through
\* syscall().  Its mask comes later, when it may have called trace(), or exit().
fork(p, q) ==
  /\ Calls(p, SYS_fork) /\ th[q].pc = "unused"
  /\ tf' = [tf EXCEPT ![q] = [tf[p] EXCEPT !.a0 = Word(0)]]
  /\ th' = [th EXCEPT ![q] = At("user"), ![p].pc = "mask", ![p].np = q]
  /\ UNCHANGED <<smask, out, calls, due>>
fork_mask(p) ==
  /\ th[p].pc = "mask"
  /\ returns(p, tf[p], [smask EXCEPT ![th[p].np] = smask[p]], th[p].np)
fork_fails(p) == Calls(p, SYS_fork) /\ returns(p, tf[p], smask, -1)

\* exit() never returns; wait() in the parent, when it is back from fork(), frees the slot.
exit(p) ==
  /\ Calls(p, SYS_exit) /\ p # 1
  /\ th' = [th EXCEPT ![p] = At("zombie")]
  /\ UNCHANGED <<tf, smask, out, calls, due>>
freeproc(p) ==
  /\ th[p].pc = "zombie" /\ \A q \in Callers : th[q].np # p
  /\ th' = [th EXCEPT ![p] = At("unused")]
  /\ smask' = [smask EXCEPT ![p] = 0] /\ tf' = [tf EXCEPT ![p] = Zero]
  /\ UNCHANGED <<out, calls, due>>

\* The pieces of a line: its head, each argument, the value.
Piece(p, i, num, args, v) ==
  <<p, CASE i = 0 -> <<"syscall", num>> [] i > Len(args) -> <<"->", v>> [] OTHER -> <<"arg", args[i]>> >>
AfterCall(p) == Saved(p)
BeforeCall(p) == th[p].args
Shown(p) == BeforeCall(p)

print(p) ==
  /\ th[p].pc = "print"
  /\ out' = Append(out, Piece(p, th[p].i, tf[p].a7, Shown(p), AsInt(tf[p].a0)))
  /\ th' = [th EXCEPT ![p] = IF th[p].i > Len(th[p].args) THEN At("user") ELSE [@ EXCEPT !.i = @ + 1]]
  /\ UNCHANGED <<tf, smask, calls, due>>

Next ==
  \E p \in Callers :
    \/ \E n \in Known \cup {Unknown}, x \in Words : (p = 1 => n # SYS_exit) /\ ecall(p, n, x, x)
    \/ unknown(p) \/ save(p) \/ sys_trace(p) \/ fork_mask(p) \/ fork_fails(p) \/ exit(p) \/ freeproc(p) \/ print(p)
    \/ \E v \in {0, -1} : link(p, v)
    \/ \E argc \in {1}, sp \in {5} : exec(p, argc, sp)
    \/ \E q \in Callers : fork(p, q)

Spec == Init /\ [][Next]_vars

-----------------------------------------------------------------------------
Line(p, d) ==
  LET ints == [k \in DOMAIN d.given |-> AsInt(d.given[k])]
  IN  [k \in 1..(Len(ints) + 2) |-> Piece(p, k - 1, d.num, ints, AsInt(d.value))]
Lines(p) == FoldLeft(LAMBDA r, d : r \o Line(p, d), <<>>, due[p])
Printed(p) == SelectSeq(out, LAMBDA e : e[1] = p /\ e[2] # "unknown sys call")

\* What strace shows of a process, whatever others print between, is one line
\* for each of its calls in the mask that returned: the low 32 bits, as ints, of the
\* arguments the program gave, also when the call changed the registers, and of the
\* value it gets.  (The rest of a 64-bit argument is not shown.)
TraceRight ==
  \A p \in Callers : /\ IsPrefix(Printed(p), Lines(p))
                     /\ th[p].pc # "print" => Printed(p) = Lines(p)
=============================================================================
