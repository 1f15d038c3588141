------------------------------- MODULE Shell -------------------------------
(***************************************************************************)
(* The shell at work (user/sh.c, runcmd and main) below init (user/init.c):*)
(* every command runs in processes that fork, wire up descriptors and wait *)
(* for each other.  What a process does to its own descriptors between two *)
(* forks is one step.                                                      *)
(***************************************************************************)
EXTENDS ShellParser

CONSTANTS NSLOT,      \* slots for processes beside init
          NFD,        \* descriptors of a process
          Scripts     \* lines typed at the shell

VARIABLES ps,     \* each process: its place, command, descriptors and parent, and as
                  \* history the whole command and whether nobody waits for it
          sh      \* init's pid: the slot of the shell

shvars == <<ps, sh>>

Slots == 0..NSLOT
None == <<"none">>
Console == <<"console">>
Closed == [f \in 0..(NFD - 1) |-> None]
Std == [f \in 0..(NFD - 1) |-> IF f < 3 THEN Console ELSE None]
Free == [pc |-> "free", cmd |-> panic, fd |-> Closed, parent |-> 0, root |-> panic, left |-> FALSE]
Unused == {q \in Slots : ps[q].pc = "free"}
Live(q) == ps[q].pc \notin {"free", "zombie"}
Kids(p) == {q \in Slots : ps[q].parent = p /\ ps[q].pc # "free" /\ q # 0}

\* close(), and dup(), open() and pipe(), which take the lowest free descriptor.
close(fd, f) == [fd EXCEPT ![f] = None]
lowest(fd) == Least({f \in 0..(NFD - 1) : fd[f] = None})
dup(fd, x) == [fd EXCEPT ![lowest(fd)] = x]

\* exit(): the children get init as parent.  Those of a process that gives up
\* (panic) are left behind.
Exit(p, why) ==
  [q \in Slots |-> IF q = p THEN [Free EXCEPT !.pc = "zombie", !.parent = ps[p].parent]
                   ELSE IF q \in Kids(p) THEN [ps[q] EXCEPT !.parent = 0, !.left = @ \/ why = "panic"]
                   ELSE ps[q]]

exit(p, why) == ps' = Exit(p, why) /\ UNCHANGED sh

\* fork1(): a child that goes on with c and descriptors fd; p goes on as me.
fork1(p, c, fd, left, me) ==
  /\ IF Unused = {} THEN ps' = Exit(p, "panic")
     ELSE ps' = [ps EXCEPT ![Least(Unused)] = [pc |-> "start", cmd |-> c, fd |-> fd, parent |-> p,
                                               root |-> ps[p].root, left |-> left],
                           ![p] = me]
  /\ UNCHANGED sh

-----------------------------------------------------------------------------
\* runcmd(), by the type of the command.
Runs(p, type) == ps[p].pc = "start" /\ ps[p].cmd.type = type

EmptyExits(p) == ps[p].cmd.argv = <<>>
\* panic: the line did not parse.
run_exit(p) ==
  /\ Runs(p, "PANIC") \/ (Runs(p, "EXEC") /\ EmptyExits(p)) \/ ps[p].pc = "done"
  /\ exit(p, "done")

run_exec(p) ==
  /\ Runs(p, "EXEC") /\ ~EmptyExits(p)
  /\ ps' = [ps EXCEPT ![p].pc = "runs"] /\ UNCHANGED sh

\* exec() failed, or the program ends.
program_exit(p) ==
  /\ ps[p].pc = "runs" \/ (Runs(p, "EXEC") /\ ~EmptyExits(p))
  /\ exit(p, "done")

run_redir(p) ==
  /\ Runs(p, "REDIR")
  /\ LET c == ps[p].cmd
     IN  \/ /\ ps' = [ps EXCEPT ![p].cmd = c.cmd,
                                ![p].fd = dup(close(@, c.fd), <<"file", c.file>>)]
            /\ UNCHANGED sh
         \/ exit(p, "done")        \* open() failed

run_list(p) ==
  /\ Runs(p, "LIST")
  /\ fork1(p, ps[p].cmd.left, ps[p].fd, ps[p].left, [ps[p] EXCEPT !.pc = "list"])

run_back(p) ==
  /\ Runs(p, "BACK")
  /\ fork1(p, ps[p].cmd.cmd, ps[p].fd, TRUE, [ps[p] EXCEPT !.pc = "done"])

\* The two ends are x and y; a child puts the end it uses in place of f.
KeepsBoth(fd, f, use, x, y) == dup(close(fd, f), fd[use])
ClosesBoth(fd, f, use, x, y) == close(close(dup(close(fd, f), fd[use]), x), y)
Wire(fd, f, use, x, y) == ClosesBoth(fd, f, use, x, y)

run_pipe(p) ==
  /\ Runs(p, "PIPE")
  /\ LET c == ps[p].cmd
         x == lowest(ps[p].fd)
         y == lowest([ps[p].fd EXCEPT ![x] = <<"r", c>>])
         fd == [ps[p].fd EXCEPT ![x] = <<"r", c>>, ![y] = <<"w", c>>]
     IN  \/ fork1(p, c.left, Wire(fd, 1, y, x, y), ps[p].left, [ps[p] EXCEPT !.fd = fd, !.pc = "pipe2"])
         \/ exit(p, "panic")       \* pipe() failed

End(p, e) == CHOOSE f \in 3..(NFD - 1) : ps[p].fd[f] = <<e, ps[p].cmd>>

run_pipe2(p) ==
  /\ ps[p].pc = "pipe2"
  /\ LET x == End(p, "r")
         y == End(p, "w")
         fd == ps[p].fd
     IN  fork1(p, ps[p].cmd.right, Wire(fd, 0, x, x, y), ps[p].left,
               [ps[p] EXCEPT !.fd = close(close(fd, x), y), !.pc = "wait2"])

\* wait(0) takes any child that has exited.  A process that waits has a child.
ThenOne(pc) == CASE pc = "list" -> "start" [] pc = "shell" -> "prompt" [] OTHER -> "done"
ThenTwo(pc) == IF pc = "wait2" THEN "wait1" ELSE ThenOne(pc)
Then(pc) == ThenTwo(pc)

wait(p) ==
  /\ ps[p].pc \in {"wait2", "wait1", "list", "shell"}
  /\ LET me == [ps[p] EXCEPT !.pc = Then(@), !.cmd = IF ps[p].pc = "list" THEN @.right ELSE @]
     IN  \E q \in Kids(p) : ps[q].pc = "zombie" /\ ps' = [ps EXCEPT ![q] = Free, ![p] = me]
  /\ UNCHANGED sh

-----------------------------------------------------------------------------
\* The shell's main(): a line is run by a child.  At the end of input it exits.
main(p, l) ==
  /\ ps[p].pc = "prompt"
  /\ IF Unused = {} THEN ps' = Exit(p, "panic")
     ELSE ps' = [ps EXCEPT ![Least(Unused)] = [pc |-> "start", cmd |-> parsecmd(l), fd |-> ps[p].fd,
                                               parent |-> p, root |-> parsecmd(l), left |-> FALSE],
                           ![p].pc = "shell"]
  /\ UNCHANGED sh

main_eof(p) == ps[p].pc = "prompt" /\ exit(p, "done")

\* init: start a shell, and take every process that exits until it is the shell.
init_fork ==
  /\ ps[0].pc = "init"
  /\ IF Unused = {} THEN ps' = [ps EXCEPT ![0].pc = "exit"] /\ UNCHANGED sh
     ELSE /\ sh' = Least(Unused)
          /\ ps' = [ps EXCEPT ![sh'] = [Free EXCEPT !.pc = "prompt", !.fd = Std], ![0].pc = "reap"]

init_wait ==
  /\ ps[0].pc = "reap"
  /\ \E q \in Kids(0) :
       /\ ps[q].pc = "zombie"
       /\ ps' = [ps EXCEPT ![q] = Free, ![0].pc = IF q = sh THEN "init" ELSE "reap"]
  /\ UNCHANGED sh

\* init cannot exit: the kernel panics.
halted == ps[0].pc = "exit" /\ UNCHANGED shvars

RunInit ==
  /\ ps = [q \in Slots |-> IF q = 0 THEN [Free EXCEPT !.pc = "init", !.fd = Std] ELSE Free] /\ sh = 0

RunNext ==
  \/ /\ ps[0].pc # "exit"
     /\ \/ \E p \in Slots :
             \/ run_exit(p) \/ run_exec(p) \/ program_exit(p) \/ run_redir(p) \/ run_list(p)
             \/ run_back(p) \/ run_pipe(p) \/ run_pipe2(p) \/ wait(p) \/ main_eof(p)
             \/ \E l \in Scripts : main(p, l)
        \/ init_fork \/ init_wait
  \/ halted

RunSpec == RunInit /\ [][RunNext]_shvars

-----------------------------------------------------------------------------
\* The programs a command starts, each with its standard input and output.
RECURSIVE Wires(_, _, _)
Wires(c, in, out) ==
  CASE c.type = "PANIC" -> {}
    [] c.type = "EXEC" -> {<<c.argv, in, out>>}
    [] c.type = "REDIR" -> IF c.fd = 0 THEN Wires(c.cmd, <<"file", c.file>>, out)
                           ELSE Wires(c.cmd, in, <<"file", c.file>>)
    [] c.type = "BACK" -> Wires(c.cmd, in, out)
    [] c.type = "LIST" -> Wires(c.left, in, out) \cup Wires(c.right, in, out)
    [] c.type = "PIPE" -> Wires(c.left, in, <<"w", c>>) \cup Wires(c.right, <<"r", c>>, out)

\* Every process that runs has a live parent, and three open descriptors.
TypeOK ==
  /\ \A p \in Slots \ {0} : ps[p].pc # "free" => Live(ps[p].parent) \/ ps[0].pc = "exit"
  /\ \A p \in Slots : Live(p) /\ ps[0].pc # "exit" => \A f \in 0..2 : ps[p].fd[f] # None
  /\ sh \in Slots

\* A program runs with the input and output its place in the command line asks
\* for, and neither it nor a process that waits keeps any other end of a pipe
\* open: readers see the end of their input.
Wired ==
  \A p \in Slots :
    /\ ps[p].pc = "runs" =>
         /\ <<ps[p].cmd.argv, ps[p].fd[0], ps[p].fd[1]>> \in Wires(ps[p].root, Console, Console)
         /\ ps[p].fd[2] = Console
    /\ ps[p].pc # "pipe2" => \A f \in 3..(NFD - 1) : ps[p].fd[f] = None

\* When the shell prompts, every process of the lines before has ended, except
\* those in the background and those left behind when a fork or pipe failed.
ForegroundDone ==
  (\E p \in Slots : ps[p].pc = "prompt") =>
    \A q \in Slots \ {0} : Live(q) => ps[q].pc = "prompt" \/ ps[q].left
=============================================================================
