------------------------------- MODULE MCUser -------------------------------
(***************************************************************************)
(* User programs and what the kernel does around their calls, one part at  *)
(* a time: part says which module moves; the others stay as they are.      *)
(***************************************************************************)
EXTENDS Alarm, Sequences, TLC

CONSTANTS MAXARGS, Chars, MaxLine, NSLOT, NFD, Scripts,
          Core, Heap, Sizes, BUF, Text, MaxText, Patterns,
          DIRSIZ, Letters, MaxPath, MaxName, Cells, IntBits,
          NP, Words, MaxCalls,
          PG, NPG, AddrBits, WORD, ALIGN, MAXARG, Lens, ArgLens

VARIABLES part, line, ps, sh, hdr, freep, brk, held, re, text, at, buf, out, ended, input,
          frame, smask, th, trace, calls, due, req

shell == INSTANCE Shell
umalloc == INSTANCE Umalloc
grep == INSTANCE Grep WITH Letters <- Text
strings == INSTANCE Strings WITH W <- IntBits
syscall == INSTANCE Syscall WITH tf <- frame, out <- trace
usercopy == INSTANCE UserCopy WITH W <- AddrBits

hvars == <<hdr, freep, brk, held>>
gvars == <<re, text, at, buf, out, ended>>
yvars == <<frame, smask, th, trace, calls, due>>
allvars == <<vars, part, line, ps, sh, hvars, gvars, input, yvars, req>>

MCScripts == {<<"w", "|", "w">>, <<"w", ";", "w", ">", "w">>, <<"(", "w", "|", "w", ")", "&">>,
              <<"w", "<", "w", "|", "(", "w", ";", "w", ")", ">", "w">>, <<")">>}
\* 0, and a word of 33 bits that is negative as an int: as a mask it has the bits of
\* fork, exec and trace, not those of exit and link.
MCWords == {<<0, 0>>, <<1, -524293>>}
FrameSymmetry == Permutations(Frames)
MCPatterns == UNION {[1..k -> {"a", ".", "*", "^", "$"}] : k \in 0..3}
              \cup {<<"^", c, "*", d>> : c \in {"a", "."}, d \in {"a", "$"}}

Parts == {"alarm", "parser", "shell", "umalloc", "grep", "strings", "syscall", "usercopy"}
Rest(p) == CASE p = "grep" -> /\ input = strings!Case("path") /\ smask = [q \in 1..NP |-> 0]
             [] p = "strings" -> re = <<>> /\ text = <<>> /\ smask = [q \in 1..NP |-> 0]
             [] OTHER -> re = <<>> /\ text = <<>> /\ input = strings!Case("path")

AllInit ==
  /\ part \in Parts
  /\ Rest(part) /\ (part # "syscall" => smask = [q \in 1..NP |-> 0])
  /\ IF part = "usercopy" THEN usercopy!Init ELSE req = usercopy!Ask("exec")
  /\ Init /\ shell!Init /\ shell!RunInit /\ umalloc!Init /\ grep!Init /\ strings!Init /\ syscall!Init

\* The inputs are bounded: nothing more is typed, or called.
Idle == part \in {"parser", "strings", "syscall", "usercopy"} /\ UNCHANGED allvars

InAlarm == part = "alarm" /\ UNCHANGED <<part, line, ps, sh, hvars, gvars, input, yvars, req>>

AllNext ==
  \/ InAlarm /\ Next
  \/ part = "parser" /\ shell!Next /\ UNCHANGED <<part, vars, ps, sh, hvars, gvars, input, yvars, req>>
  \/ part = "shell" /\ shell!RunNext /\ UNCHANGED <<part, vars, line, hvars, gvars, input, yvars, req>>
  \/ part = "umalloc" /\ umalloc!Next /\ UNCHANGED <<part, vars, line, ps, sh, gvars, input, yvars, req>>
  \/ part = "grep" /\ grep!Next /\ UNCHANGED <<part, vars, line, ps, sh, hvars, input, yvars, req>>
  \/ part = "strings" /\ strings!Next /\ UNCHANGED <<part, vars, line, ps, sh, hvars, gvars, yvars, req>>
  \/ part = "syscall" /\ syscall!Next /\ UNCHANGED <<part, vars, line, ps, sh, hvars, gvars, input, req>>
  \/ part = "usercopy" /\ usercopy!Next /\ UNCHANGED <<part, vars, line, ps, sh, hvars, gvars, input, yvars>>
  \/ Idle

AllSpec == AllInit /\ [][AllNext]_allvars

\* For the disagreement about alarms that never come: timer interrupts go on.
AlarmSpec == AllSpec /\ \A p \in Procs : WF_allvars(InAlarm /\ usertrap(p))

-----------------------------------------------------------------------------
\* The properties of the other modules, stated and explained there.
\* ShellParser: parsecmd() builds the tree the grammar gives, or panics.
ParsesGrammar == part = "parser" => shell!ParsesGrammar
\* ShellParser: nulterminate() ends each word where it ends in the line.
WordsIntact == part = "parser" => shell!WordsIntact
\* Shell: processes have a live parent and their standard descriptors.
ShellTypeOK == part = "shell" => shell!TypeOK
\* Shell: programs get the ends of pipes their place asks for, and no others.
Wired == part = "shell" => shell!Wired
\* Shell: the prompt comes after the foreground has ended.
ForegroundDone == part = "shell" => shell!ForegroundDone
\* Umalloc: the free list is circular and in order.
UmallocTypeOK == part = "umalloc" => umalloc!TypeOK
\* Umalloc: each unit is in one block, free or held.
EveryUnitOnce == part = "umalloc" => umalloc!EveryUnitOnce
\* Umalloc: free() leaves no two free neighbours.
Coalesced == part = "umalloc" => umalloc!Coalesced
\* Grep, Strings: loops over characters compute what their definitions say.  grep()
\* prints each matching line once, whatever read() returns; match() accepts what
\* the pattern stands for; memmove() is right for overlapping ranges; namecmp()
\* finds what dirlink() stored; skipelem() finds the elements of a path;
\* safestrcpy() ends its copy inside the buffer; printint() and atoi() agree.
RoutinesRight ==
  /\ part = "grep" => grep!MatchRight /\ grep!GrepComplete
  /\ part = "strings" => /\ strings!MoveRight /\ strings!NamesFound /\ strings!PathsSplit
                         /\ strings!CopyEnds /\ strings!PrintsRight
\* Syscall: a traced line shows the arguments given and the value returned, as ints.
TraceRight == part = "syscall" => syscall!TraceRight
\* UserCopy: the kernel reads user memory as the program would.  copyin() and copyinstr() read what the program would read, or fail; fetchaddr()
\* stays below sz; the arguments of a new program lie side by side on its stack.
AccessRight == part = "usercopy" => usercopy!CopyRight /\ usercopy!FetchRight /\ usercopy!ArgsRight
=============================================================================
