----------------------------- MODULE FileTable -----------------------------
(***************************************************************************)
(* Open files and descriptors (kernel/file.c, kernel/sysfile.c): ftable    *)
(* and its reference counts, the descriptors of each process, the two ends *)
(* of pipes, and the references of open files to inodes.  One action is    *)
(* the code from one acquisition of ftable.lock to the next, so the window *)
(* in fileclose() between the last reference and the close is visible.     *)
(***************************************************************************)
EXTENDS Integers, Sequences, FiniteSets

CONSTANTS FProcs, NOFILE, NFILE, Pipes, Inodes

VARIABLES ofile,    \* each process: its descriptors, 0 or a file
          file,     \* ftable.file: ref, type, obj (the pipe or inode), writable
          pipe,     \* each pipe: whether its page is allocated, and the ends open
          iref,     \* references of open files to each inode
          alive, ft   \* ft: each process's place, the files it has to close,
                    \* and the copy that fileclose() made

fvars == <<ofile, file, pipe, iref, alive, ft>>

initproc == CHOOSE p \in FProcs : TRUE     \* it never exits
Fds == 0..(NOFILE - 1)
FileIds == 1..NFILE
NoPipe == [page |-> FALSE, readopen |-> FALSE, writeopen |-> FALSE]
Unused == [ref |-> 0, type |-> "none", obj |-> 0, writable |-> FALSE]
UserFt == [pc |-> "user", rf |-> 0, todo |-> <<>>, ff |-> Unused]

Lowest(S) == CHOOSE x \in S : \A y \in S : x <= y
FreeFiles == {f \in FileIds : file[f].ref = 0}
FreeFds(t) == {d \in Fds : t[d] = 0}

\* filealloc() and fdalloc() take the first one that is free.
filealloc(f) == FreeFiles # {} /\ f = Lowest(FreeFiles)
fdalloc(t, f) == [t EXCEPT ![Lowest(FreeFds(t))] = f]
filedup(t) == [f \in FileIds |->
  [file[f] EXCEPT !.ref = @ + Cardinality({d \in Fds : t[d] = f})]]

argfd(p, d) == p \in alive /\ ft[p].pc = "user" /\ ofile[p][d] # 0
Return(p) == ft' = [ft EXCEPT ![p] = UserFt]
Closing(p, fs) == ft' = [ft EXCEPT ![p] = [UserFt EXCEPT !.pc = "close", !.todo = fs]]

-----------------------------------------------------------------------------
\* sys_open(), from filealloc() on.
open(p, f, i) ==
  /\ p \in alive /\ ft[p].pc = "user" /\ filealloc(f)
  /\ IF FreeFds(ofile[p]) = {}
     THEN /\ file' = [file EXCEPT ![f].ref = 1]
          /\ Closing(p, <<f>>) /\ UNCHANGED <<ofile, iref>>
     ELSE /\ file' = [file EXCEPT ![f] = [ref |-> 1, type |-> "inode", obj |-> i, writable |-> TRUE]]
          /\ ofile' = [ofile EXCEPT ![p] = fdalloc(@, f)]
          /\ iref' = [iref EXCEPT ![i] = @ + 1]
          /\ UNCHANGED ft
  /\ UNCHANGED <<pipe, alive>>

\* pipealloc(): two calls of filealloc(), then a page.
pipealloc1(p, f) ==
  /\ p \in alive /\ ft[p].pc = "user" /\ filealloc(f)
  /\ file' = [file EXCEPT ![f].ref = 1]
  /\ ft' = [ft EXCEPT ![p].pc = "pipe", ![p].rf = f]
  /\ UNCHANGED <<ofile, pipe, iref, alive>>

End(f, pi, w) == [ref |-> 1, type |-> "pipe", obj |-> pi, writable |-> w]
BothEnds(f0, f1, pi) == [file EXCEPT ![f0] = End(f0, pi, FALSE), ![f1] = End(f1, pi, TRUE)]

\* fdalloc() twice in sys_pipe(); when the second fails, the first is taken back
Both(t, f0, f1) == IF Cardinality(FreeFds(t)) >= 2 THEN fdalloc(fdalloc(t, f0), f1) ELSE t

pipealloc2(p) ==
  /\ ft[p].pc = "pipe"
  /\ \/ /\ FreeFiles = {}
        /\ Closing(p, <<ft[p].rf>>) /\ UNCHANGED <<ofile, file, pipe>>
     \/ \E f1 \in FreeFiles : filealloc(f1) /\
          \/ /\ file' = [file EXCEPT ![f1].ref = 1]          \* kalloc() fails
             /\ Closing(p, <<ft[p].rf, f1>>) /\ UNCHANGED <<ofile, pipe>>
          \/ \E pi \in Pipes :
               /\ ~pipe[pi].page
               /\ pipe' = [pipe EXCEPT ![pi] = [page |-> TRUE, readopen |-> TRUE, writeopen |-> TRUE]]
               /\ file' = BothEnds(ft[p].rf, f1, pi)
               /\ ofile' = [ofile EXCEPT ![p] = Both(@, ft[p].rf, f1)]
               /\ ft' = [ft EXCEPT ![p] =
                           IF FreeFds(ofile[p]) = FreeFds(ofile'[p])
                           THEN [UserFt EXCEPT !.pc = "close", !.todo = <<ft[p].rf, f1>>]
                           ELSE [UserFt EXCEPT !.pc = "copyout", !.todo = <<ft[p].rf, f1>>]]
  /\ UNCHANGED <<iref, alive>>

\* The copyout() of the descriptors in sys_pipe() succeeds, or both go back.
TakenBack(t, fs) == [d \in Fds |-> IF t[d] \in {fs[1], fs[2]} THEN 0 ELSE t[d]]

sys_pipe(p) ==
  /\ ft[p].pc = "copyout"
  /\ \/ Return(p) /\ UNCHANGED ofile
     \/ /\ ofile' = [ofile EXCEPT ![p] = TakenBack(@, ft[p].todo)]
        /\ Closing(p, ft[p].todo)
  /\ UNCHANGED <<file, pipe, iref, alive>>

sys_dup(p, d) ==
  /\ argfd(p, d) /\ FreeFds(ofile[p]) # {}
  /\ ofile' = [ofile EXCEPT ![p] = fdalloc(@, ofile[p][d])]
  /\ file' = [file EXCEPT ![ofile[p][d]].ref = @ + 1]
  /\ UNCHANGED <<pipe, iref, alive, ft>>

sys_close(p, d) ==
  /\ argfd(p, d)
  /\ ofile' = [ofile EXCEPT ![p][d] = 0]
  /\ Closing(p, <<ofile[p][d]>>)
  /\ UNCHANGED <<file, pipe, iref, alive>>

\* The descriptors in fork(): the parent's own references keep the files.
Shared(t) == file
Inherited(t) == filedup(t)

fork(p, c) ==
  /\ p \in alive /\ ft[p].pc = "user" /\ c \notin alive
  /\ alive' = alive \cup {c}
  /\ ofile' = [ofile EXCEPT ![c] = ofile[p]]
  /\ file' = Inherited(ofile[p])
  /\ UNCHANGED <<pipe, iref, ft>>

\* exit() closes the descriptors in order.  It clears p->ofile[fd] after
\* fileclose() and not before; nobody else reads it.
exit(p) ==
  /\ p \in alive /\ p # initproc /\ ft[p].pc = "user"
  /\ ft' = [ft EXCEPT ![p].pc = "exit"]
  /\ UNCHANGED <<ofile, file, pipe, iref, alive>>

Used(p) == {d \in Fds : ofile[p][d] # 0}

exit_next(p) ==
  /\ ft[p].pc = "exit" /\ ft[p].todo = <<>> /\ ft[p].ff = Unused
  /\ LET used == Used(p)
     IN IF used = {} THEN /\ alive' = alive \ {p} /\ Return(p) /\ UNCHANGED ofile
        ELSE /\ ft' = [ft EXCEPT ![p].todo = <<ofile[p][Lowest(used)]>>]
             /\ ofile' = [ofile EXCEPT ![p][Lowest(used)] = 0]
             /\ UNCHANGED alive
  /\ UNCHANGED <<file, pipe, iref>>

\* argfd(), then fileread(), filewrite() or filestat(), which may sleep.
Usable(f, w) == IF w THEN file[f].writable ELSE file[f].type = "inode" \/ ~file[f].writable

io(p, d, w) ==
  /\ argfd(p, d) /\ Usable(ofile[p][d], w)
  /\ ft' = [ft EXCEPT ![p].pc = "io", ![p].rf = ofile[p][d]]
  /\ UNCHANGED <<ofile, file, pipe, iref, alive>>

io_end(p) == ft[p].pc = "io" /\ Return(p) /\ UNCHANGED <<ofile, file, pipe, iref, alive>>

-----------------------------------------------------------------------------
\* fileclose(): under ftable.lock, then on the copy ff.
Cleared(f) == Unused     \* under FD_NONE nothing reads what the other fields keep
Next1(t) == [t EXCEPT !.todo = Tail(@)]

fileclose(p) ==
  /\ ft[p].todo # <<>> /\ ft[p].pc \in {"close", "exit"} /\ ft[p].ff = Unused
  /\ LET f == Head(ft[p].todo) last == file[f].ref = 1
     IN /\ file' = [file EXCEPT ![f] = IF last THEN Cleared(@) ELSE [@ EXCEPT !.ref = @ - 1]]
        /\ ft' = [ft EXCEPT ![p] = [Next1(@) EXCEPT !.ff =
                    IF last /\ file[f].type # "none" THEN file[f] ELSE Unused]]
  /\ UNCHANGED <<ofile, pipe, iref, alive>>

\* pipeclose() of one end; the page goes with the second.
BothGone(c) == [c EXCEPT !.page = c.readopen \/ c.writeopen]
pipeclose(c, w) ==
  BothGone(IF w THEN [c EXCEPT !.writeopen = FALSE] ELSE [c EXCEPT !.readopen = FALSE])

fileclose_last(p) ==
  /\ ft[p].ff # Unused
  /\ LET ff == ft[p].ff
     IN \/ /\ ff.type = "pipe"
           /\ pipe' = [pipe EXCEPT ![ff.obj] = pipeclose(@, ff.writable)]
           /\ UNCHANGED iref
        \/ /\ ff.type = "inode"
           /\ iref' = [iref EXCEPT ![ff.obj] = @ - 1]
           /\ UNCHANGED pipe
  /\ ft' = [ft EXCEPT ![p].ff = Unused]
  /\ UNCHANGED <<ofile, file, alive>>

return(p) == ft[p].pc = "close" /\ ft[p].todo = <<>> /\ ft[p].ff = Unused /\ Return(p)
             /\ UNCHANGED <<ofile, file, pipe, iref, alive>>

Init ==
  /\ ofile = [p \in FProcs |-> [d \in Fds |-> 0]] /\ file = [f \in FileIds |-> Unused]
  /\ pipe = [pi \in Pipes |-> NoPipe] /\ iref = [i \in Inodes |-> 0]
  /\ alive = {initproc} /\ ft = [p \in FProcs |-> UserFt]

Next == \E p \in FProcs :
  \/ \E f \in FileIds : pipealloc1(p, f) \/ \E i \in Inodes : open(p, f, i)
  \/ pipealloc2(p) \/ sys_pipe(p) \/ exit(p) \/ exit_next(p)
  \/ fileclose(p) \/ fileclose_last(p) \/ return(p)
  \/ \E d \in Fds : sys_dup(p, d) \/ sys_close(p, d) \/ \E w \in BOOLEAN : io(p, d, w)
  \/ io_end(p)
  \/ \E c \in FProcs : fork(p, c)

Spec == Init /\ [][Next]_fvars

-----------------------------------------------------------------------------
\* The tables have their types; only processes that are alive have descriptors.
TypeOK ==
  /\ ofile \in [FProcs -> [Fds -> 0..NFILE]]
  /\ \A f \in FileIds : file[f].ref \in Nat /\ file[f].type \in {"none", "pipe", "inode"}
  /\ \A pi \in Pipes : pipe[pi] \in [page : BOOLEAN, readopen : BOOLEAN, writeopen : BOOLEAN]
  /\ \A p \in FProcs \ alive : ofile[p] = [d \in Fds |-> 0] /\ ft[p] = UserFt

\* References in the hands of a call: to be closed, or on the way to a descriptor.
Held(p, f) ==
  (IF ft[p].pc = "pipe" /\ ft[p].rf = f THEN 1 ELSE 0)
  + IF ft[p].pc = "copyout" THEN 0 ELSE Cardinality({k \in DOMAIN ft[p].todo : ft[p].todo[k] = f})

\* A file's reference count is the number of its descriptors and of the calls
\* that still have to close it, through dup, fork, exit and every error path:
\* filedup() and fileclose() never panic and no slot of ftable is lost.
RefsExact ==
  \A f \in FileIds :
    file[f].ref = Cardinality({<<p, d>> \in FProcs \X Fds : ofile[p][d] = f})
                  + Cardinality({p \in FProcs : Held(p, f) > 0})

\* The copies that fileclose() has taken and not yet closed.
Copies == {p \in FProcs : ft[p].ff # Unused}
Ends(pi, w) ==
  {<<"file", f>> : f \in {f \in FileIds : file[f].type = "pipe" /\ file[f].obj = pi
                                          /\ file[f].writable = w}}
  \cup {<<"copy", p>> : p \in {p \in Copies : ft[p].ff.type = "pipe" /\ ft[p].ff.obj = pi
                                              /\ ft[p].ff.writable = w}}

\* An end of a pipe is open as long as one file, or one close under way, stands
\* for it; no file has an end of a freed pipe, and the page of a pipe with no
\* file has been freed: a reader cannot miss the end of file.
EndsExact ==
  \A pi \in Pipes :
    /\ Cardinality(Ends(pi, TRUE)) = IF pipe[pi].writeopen THEN 1 ELSE 0
    /\ Cardinality(Ends(pi, FALSE)) = IF pipe[pi].readopen THEN 1 ELSE 0
    /\ pipe[pi].page <=> pipe[pi].readopen \/ pipe[pi].writeopen

\* A process that reads or writes, or sleeps in a pipe, uses a file that is open
\* and a pipe whose end is open, whatever the others close meanwhile.
UseSafe ==
  \A p \in FProcs :
    ft[p].pc = "io" =>
      LET f == file[ft[p].rf]
      IN /\ f.ref > 0 /\ f.type # "none"
         /\ f.type = "pipe" => IF f.writable THEN pipe[f.obj].writeopen ELSE pipe[f.obj].readopen

\* The references that open files have to an inode are given back with iput()
\* once, also when the slot in ftable has already been taken again.
InodeRefs ==
  \A i \in Inodes :
    iref[i] = Cardinality({f \in FileIds : file[f].type = "inode" /\ file[f].obj = i})
              + Cardinality({p \in Copies : ft[p].ff.type = "inode" /\ ft[p].ff.obj = i})
=============================================================================
