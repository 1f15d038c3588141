----------------------------- MODULE CowMemory -----------------------------
(***************************************************************************)
(* Physical pages, their reference counts and copy-on-write address spaces *)
(* (kernel/kalloc.c, kernel/vm.c, handleCOW in kernel/trap.c), driven by   *)
(* the system calls that change them: fork, wait, exit, sbrk, exec, and a  *)
(* user store.  Threads interleave at the two spinlocks of the code,       *)
(* kmem.lock and memref.lock: one action is the code from one acquisition  *)
(* to the next.                                                            *)
(*                                                                         *)
(* A page table is named by the page that holds its root, as pagetable_t   *)
(* is; the lower levels and the trapframe, which live and die with it, are *)
(* folded into that page.  The free list is kept as a set: which free page *)
(* kalloc returns is never observed.                                       *)
(***************************************************************************)
EXTENDS Integers, FiniteSets, TLC

CONSTANTS Procs,    \* slots of the process table
          Pages,    \* physical pages
          MaxVA,    \* virtual pages of an address space: 0 .. MaxVA-1
          Values,   \* contents of a page, as far as they are told apart
          Zero, Junk,
          SbrkPages, ExecPages,  \* bounds: pages sbrk moves by, sizes of programs
          NoProc, NoPage,
          InitProc, InitTable, InitPage  \* what userinit() starts from

ASSUME CowAssumption ==
  /\ IsFiniteSet(Procs) /\ IsFiniteSet(Pages)
  /\ MaxVA \in Nat \ {0}
  /\ Zero \in Values /\ Junk \in Values
  /\ SbrkPages \subseteq 1..MaxVA /\ ExecPages \subseteq 1..MaxVA
  /\ NoProc \notin Procs /\ NoPage \notin Pages
  /\ InitProc \in Procs
  /\ InitTable \in Pages /\ InitPage \in Pages /\ InitTable # InitPage

VA == 0 .. MaxVA - 1
Slot == Pages \X VA      \* one PTE: a page table and a virtual page

Perm == {"text", "data", "guard"}   \* of a page exec maps

VARIABLES
  freelist,    \* kmem.freelist
  fr,          \* memref.fr
  memlock,     \* holder of memref.lock across actions, or NoProc
  lock_kalloc, \* memref.lock_kalloc
  mem,         \* contents of the physical pages
  pa,          \* PTE2PA of every slot, NoPage when PTE_V is clear
  W, COW, U,   \* the slots whose PTE has that flag
  RO,          \* history: slots first mapped without PTE_W (and their copies)
  status,      \* of every process slot
  pagetable,   \* p->pagetable
  sz,          \* p->sz, in pages
  th           \* the kernel thread of every process: where it is, its locals

kvars == <<freelist, fr, memlock, lock_kalloc, mem>>
ptevars == <<pa, W, COW, U, RO>>
procvars == <<status, pagetable, sz>>
vars == <<kvars, ptevars, procvars, th>>

Status == {"unused", "embryo", "live", "zombie", "reaped"}
Label == {"user", "fork", "fork_ref", "copy", "copy_inc",
          "unmap", "push", "clear",
          "grow", "grow_ref", "grow_map", "exec", "exec_ref",
          "cow", "cow_alloc", "cow_ref", "cow_copy"}
PageOrNone == Pages \cup {NoPage}
ProcOrNone == Procs \cup {NoProc}

\* tgt: the page table worked on; child: of fork, or the zombie of wait;
\* pg: the page kalloc returned; lk: the lock_kalloc it read; lo, i, hi: range
\* and index of a loop over virtual pages; table: does freewalk follow uvmunmap?
Thread == [at: Label, tgt: PageOrNone, child: ProcOrNone, pg: PageOrNone,
           lk: BOOLEAN, lo: 0..MaxVA, i: 0..MaxVA, hi: 0..MaxVA, table: BOOLEAN]

User == [at |-> "user", tgt |-> NoPage, child |-> NoProc, pg |-> NoPage,
         lk |-> TRUE, lo |-> 0, i |-> 0, hi |-> 0, table |-> FALSE]

At(p) == <<th[p].tgt, th[p].i>>    \* the PTE thread p is working on
Goto(p, l) == th' = [th EXCEPT ![p].at = l]
Return(p) == th' = [th EXCEPT ![p] = User]
Running(p) == status[p] = "live" /\ th[p].at = "user"

(***************************************************************************)
(* kalloc(): pop under kmem.lock and read lock_kalloc; then set the count, *)
(* under memref.lock unless the flag read was 0.                           *)
(***************************************************************************)
kalloc_pop(p, l) ==
  \E r \in freelist :
    /\ freelist' = freelist \ {r}
    /\ th' = [th EXCEPT ![p].pg = r, ![p].lk = lock_kalloc, ![p].at = l]

kalloc_ref(p) ==
  /\ th[p].lk => memlock = NoProc
  /\ fr' = [fr EXCEPT ![th[p].pg] = 1]
  /\ mem' = [mem EXCEPT ![th[p].pg] = Junk]

\* mappages() fails only when walk() cannot allocate a page-table page.
mappages_may_fail == freelist = {}

(***************************************************************************)
(* fork(): allocproc, then uvmcopy one virtual page at a time.             *)
(***************************************************************************)
Fork(p, c) ==
  /\ Running(p) /\ status[c] = "unused"
  /\ status' = [status EXCEPT ![c] = "embryo"]
  /\ th' = [th EXCEPT ![p].at = "fork", ![p].child = c]
  /\ UNCHANGED <<kvars, ptevars, pagetable, sz>>

ForkAlloc(p) ==
  /\ th[p].at = "fork"
  /\ \/ kalloc_pop(p, "fork_ref") /\ UNCHANGED status
     \/ /\ freelist = {}
        /\ status' = [status EXCEPT ![th[p].child] = "unused"]
        /\ Return(p)
        /\ UNCHANGED freelist
  /\ UNCHANGED <<fr, memlock, lock_kalloc, mem, ptevars, pagetable, sz>>

ForkTable(p) ==
  /\ th[p].at = "fork_ref"
  /\ kalloc_ref(p)
  /\ pagetable' = [pagetable EXCEPT ![th[p].child] = th[p].pg]
  /\ th' = [th EXCEPT ![p].tgt = th[p].pg, ![p].pg = NoPage, ![p].at = "copy"]
  /\ UNCHANGED <<freelist, memlock, lock_kalloc, ptevars, status, sz>>

\* uvmunmap(new, 0, i / PGSIZE, 1)
UndoCopy(p) ==
  th' = [th EXCEPT ![p].hi = th[p].i, ![p].i = 0, ![p].table = TRUE,
                   ![p].at = "unmap"]

\* "& ~PTE_W": the PTEs of the parent and of the child.
LosesW(src, new) == {src, new}

\* The parent's PTE loses PTE_W and gains PTE_COW before mappages is tried;
\* if that fails, the pages mapped so far are unmapped and np is freed.
Copy(p) ==
  /\ th[p].at = "copy" /\ th[p].i < sz[p]
  /\ LET src == <<pagetable[p], th[p].i>>
         new == At(p)
     IN /\ pa[src] # NoPage      \* else panic: page not present
        /\ \/ /\ pa[new] = NoPage   \* else panic: remap
              /\ pa' = [pa EXCEPT ![new] = pa[src]]
              /\ W' = W \ LosesW(src, new)
              /\ COW' = COW \cup {src, new}
              /\ U' = IF src \in U THEN U \cup {new} ELSE U
              /\ RO' = IF src \in RO THEN RO \cup {new} ELSE RO
              /\ Goto(p, "copy_inc")
           \/ /\ mappages_may_fail
              /\ W' = W \ {src}
              /\ COW' = COW \cup {src}
              /\ UndoCopy(p)
              /\ UNCHANGED <<pa, U, RO>>
  /\ UNCHANGED <<kvars, procvars>>

memref_inc(x) == fr' = [fr EXCEPT ![x] = @ + 1]

CopyInc(p) ==
  /\ th[p].at = "copy_inc"
  /\ memlock = NoProc
  /\ memref_inc(pa[At(p)])
  /\ th' = [th EXCEPT ![p].i = @ + 1, ![p].at = "copy"]
  /\ UNCHANGED <<freelist, memlock, lock_kalloc, mem, ptevars, procvars>>

ForkDone(p) ==
  /\ th[p].at = "copy" /\ th[p].i = sz[p]
  /\ sz' = [sz EXCEPT ![th[p].child] = sz[p]]
  /\ status' = [status EXCEPT ![th[p].child] = "live"]
  /\ Return(p)
  /\ UNCHANGED <<kvars, ptevars, pagetable>>

(***************************************************************************)
(* uvmunmap(.., do_free) over lo..hi-1 and, when table, freewalk(): each   *)
(* page goes through kfree (count under memref.lock, then push under       *)
(* kmem.lock), and only then is its PTE cleared.  A page still in pg       *)
(* (kalloc succeeded, mappages did not) is freed first.                    *)
(***************************************************************************)
InPg(p) == th[p].pg # NoPage
InRange(p) == ~InPg(p) /\ th[p].i < th[p].hi

Freed(p) == IF InPg(p) THEN th[p].pg
            ELSE IF InRange(p) THEN pa[At(p)]
            ELSE th[p].tgt

\* kfree() only gives the page back with the last reference.
Shared(x) == fr[x] > 1

Empty(t) == \A v \in VA : pa[<<t, v>>] = NoPage

kfree_ref(p) ==
  /\ th[p].at = "unmap"
  /\ \/ InPg(p)
     \/ InRange(p) /\ pa[At(p)] # NoPage    \* else panic: not mapped
     \/ /\ ~InPg(p) /\ ~InRange(p) /\ th[p].table
        /\ Empty(th[p].tgt)                 \* else panic: freewalk: leaf
  /\ memlock = NoProc
  /\ LET x == Freed(p)
     IN IF Shared(x) THEN fr' = [fr EXCEPT ![x] = @ - 1] /\ Goto(p, "clear")
                     ELSE fr' = [fr EXCEPT ![x] = 0] /\ Goto(p, "push")
  /\ UNCHANGED <<freelist, memlock, lock_kalloc, mem, ptevars, procvars>>

kfree_push(p) ==
  /\ th[p].at = "push"
  /\ mem' = [mem EXCEPT ![Freed(p)] = Junk]
  /\ freelist' = freelist \cup {Freed(p)}
  /\ Goto(p, "clear")
  /\ UNCHANGED <<fr, memlock, lock_kalloc, ptevars, procvars>>

DropPg(p) ==
  /\ th[p].at = "clear" /\ InPg(p)
  /\ th' = [th EXCEPT ![p].pg = NoPage, ![p].at = "unmap"]
  /\ UNCHANGED <<kvars, ptevars, procvars>>

ClearPte(p) ==
  /\ th[p].at = "clear" /\ InRange(p)
  /\ pa' = [pa EXCEPT ![At(p)] = NoPage]
  /\ W' = W \ {At(p)}
  /\ COW' = COW \ {At(p)}
  /\ U' = U \ {At(p)}
  /\ RO' = RO \ {At(p)}
  /\ th' = [th EXCEPT ![p].i = @ + 1, ![p].at = "unmap"]
  /\ UNCHANGED <<kvars, procvars>>

\* The page table itself is freed: freeproc(np) for fork's error path and
\* for wait, nothing more to do for exec.
TableFreed(p) ==
  /\ th[p].at = "clear" /\ ~InPg(p) /\ ~InRange(p)
  /\ LET c == th[p].child
     IN IF c # NoProc
        THEN /\ status' = [status EXCEPT ![c] = "unused"]
             /\ pagetable' = [pagetable EXCEPT ![c] = NoPage]
             /\ sz' = [sz EXCEPT ![c] = 0]
        ELSE UNCHANGED procvars
  /\ Return(p)
  /\ UNCHANGED <<kvars, ptevars>>

\* uvmdealloc is done: p->sz is the lower end of the range.
SizeIsLo(p) == sz' = [sz EXCEPT ![p] = th[p].lo]

UnmapDone(p) ==
  /\ th[p].at = "unmap" /\ ~InPg(p) /\ ~InRange(p) /\ ~th[p].table
  /\ SizeIsLo(p)
  /\ Return(p)
  /\ UNCHANGED <<kvars, ptevars, status, pagetable>>

\* growproc(-n); uvmdealloc ignores a size that sz - n would wrap around to.
Deallocates(p, n) == n <= sz[p]

Shrink(p, n) ==
  /\ Running(p) /\ Deallocates(p, n)
  /\ th' = [th EXCEPT ![p] = [User EXCEPT !.at = "unmap", !.tgt = pagetable[p],
                                !.lo = sz[p] - n, !.i = sz[p] - n, !.hi = sz[p]]]
  /\ UNCHANGED <<kvars, ptevars, procvars>>

\* exit() only makes a zombie; its memory is freed by wait().  (For init it
\* panics: the others then going on is a superset of what happens.)
Exit(p) ==
  /\ Running(p)
  /\ status' = [status EXCEPT ![p] = "zombie"]
  /\ UNCHANGED <<kvars, ptevars, pagetable, sz, th>>

Wait(p, c) ==
  /\ Running(p) /\ status[c] = "zombie"
  /\ status' = [status EXCEPT ![c] = "reaped"]
  /\ th' = [th EXCEPT ![p] = [User EXCEPT !.at = "unmap", !.tgt = pagetable[c],
                                !.child = c, !.hi = sz[c], !.table = TRUE]]
  /\ UNCHANGED <<kvars, ptevars, pagetable, sz>>

(***************************************************************************)
(* uvmalloc(), for sbrk and (with table) for exec.                         *)
(***************************************************************************)
Grow(p, n) ==
  /\ Running(p) /\ sz[p] + n <= MaxVA
  /\ th' = [th EXCEPT ![p] = [User EXCEPT !.at = "grow", !.tgt = pagetable[p],
                                !.lo = sz[p], !.i = sz[p], !.hi = sz[p] + n]]
  /\ UNCHANGED <<kvars, ptevars, procvars>>

\* uvmdealloc back to lo, then return 0 (exec goes to bad: and frees all).
GiveUpLosingPage(p) ==
  th' = [th EXCEPT ![p].hi = th[p].i, ![p].i = th[p].lo, ![p].pg = NoPage,
                   ![p].at = "unmap"]
GiveUp(p) ==
  th' = [th EXCEPT ![p].hi = th[p].i, ![p].i = th[p].lo, ![p].at = "unmap"]

GrowAlloc(p) ==
  /\ th[p].at = "grow" /\ th[p].i < th[p].hi
  /\ \/ kalloc_pop(p, "grow_ref")
     \/ freelist = {} /\ GiveUp(p) /\ UNCHANGED freelist
  /\ UNCHANGED <<fr, memlock, lock_kalloc, mem, ptevars, procvars>>

GrowRef(p) ==
  /\ th[p].at = "grow_ref"
  /\ kalloc_ref(p)
  /\ Goto(p, "grow_map")
  /\ UNCHANGED <<freelist, memlock, lock_kalloc, ptevars, procvars>>

\* sbrk maps pages writable; exec maps text without PTE_W, and uvmclear
\* takes PTE_U from the guard page below the stack.
GrowMap(p, perm) ==
  /\ th[p].at = "grow_map"
  /\ ~th[p].table => perm = "data"
  /\ \/ /\ pa[At(p)] = NoPage     \* else panic: remap
        /\ pa' = [pa EXCEPT ![At(p)] = th[p].pg]
        /\ W' = IF perm = "text" THEN W ELSE W \cup {At(p)}
        /\ RO' = IF perm = "text" THEN RO \cup {At(p)} ELSE RO
        /\ U' = IF perm = "guard" THEN U ELSE U \cup {At(p)}
        /\ mem' = [mem EXCEPT ![th[p].pg] = Zero]
        /\ th' = [th EXCEPT ![p].pg = NoPage, ![p].i = @ + 1, ![p].at = "grow"]
        /\ UNCHANGED COW
     \/ mappages_may_fail /\ GiveUp(p) /\ UNCHANGED <<mem, ptevars>>
  /\ UNCHANGED <<freelist, fr, memlock, lock_kalloc, procvars>>

GrowDone(p) ==
  /\ th[p].at = "grow" /\ th[p].i = th[p].hi /\ ~th[p].table
  /\ sz' = [sz EXCEPT ![p] = th[p].hi]
  /\ Return(p)
  /\ UNCHANGED <<kvars, ptevars, status, pagetable>>

(***************************************************************************)
(* exec(): a new page table of n pages, swapped in only when complete.     *)
(***************************************************************************)
Exec(p, n) ==
  /\ Running(p)
  /\ th' = [th EXCEPT ![p] = [User EXCEPT !.at = "exec", !.hi = n, !.table = TRUE]]
  /\ UNCHANGED <<kvars, ptevars, procvars>>

ExecAlloc(p) ==
  /\ th[p].at = "exec"
  /\ \/ kalloc_pop(p, "exec_ref")
     \/ freelist = {} /\ Return(p) /\ UNCHANGED freelist
  /\ UNCHANGED <<fr, memlock, lock_kalloc, mem, ptevars, procvars>>

ExecTable(p) ==
  /\ th[p].at = "exec_ref"
  /\ kalloc_ref(p)
  /\ th' = [th EXCEPT ![p].tgt = th[p].pg, ![p].pg = NoPage, ![p].at = "grow"]
  /\ UNCHANGED <<freelist, memlock, lock_kalloc, ptevars, procvars>>

\* A bad program header, a failed read or a failed copyout of argv: "bad:".
ExecFail(p) ==
  /\ th[p].at = "grow" /\ th[p].table
  /\ GiveUp(p)
  /\ UNCHANGED <<kvars, ptevars, procvars>>

\* The table that exec frees is the one it read before the assignment.
oldpagetable(p) == pagetable[p]

ExecCommit(p) ==
  /\ th[p].at = "grow" /\ th[p].i = th[p].hi /\ th[p].table
  /\ pagetable' = [pagetable EXCEPT ![p] = th[p].tgt]
  /\ sz' = [sz EXCEPT ![p] = th[p].hi]
  /\ th' = [th EXCEPT ![p].tgt = oldpagetable(p), ![p].i = 0, ![p].hi = sz[p],
                      ![p].at = "unmap"]
  /\ UNCHANGED <<kvars, ptevars, status>>

(***************************************************************************)
(* A user store, the store fault, and the kernel's own write copyout().    *)
(***************************************************************************)
Store(p, v, x) ==
  /\ Running(p) /\ <<pagetable[p], v>> \in W \cap U
  /\ mem' = [mem EXCEPT ![pa[<<pagetable[p], v>>]] = x]
  /\ UNCHANGED <<freelist, fr, memlock, lock_kalloc, ptevars, procvars, th>>

\* The tests of handleCOW; a refused fault kills the process in usertrap.
StoreFault(p, v) ==
  /\ Running(p)
  /\ LET s == <<pagetable[p], v>>
     IN /\ s \notin W \cap U
        /\ IF v = 0 \/ s \notin COW \/ pa[s] = NoPage \/ s \notin U
           THEN /\ status' = [status EXCEPT ![p] = "zombie"]
                /\ UNCHANGED th
           ELSE /\ th' = [th EXCEPT ![p].tgt = pagetable[p], ![p].i = v,
                                    ![p].at = "cow"]
                /\ UNCHANGED status
  /\ UNCHANGED <<kvars, ptevars, pagetable, sz>>

SoleOffByOne(x) == fr[x] <= 2
Sole(x) == fr[x] = 1

memref_unlock_kalloc == lock_kalloc' = FALSE

CowLock(p) ==
  /\ th[p].at = "cow"
  /\ memlock = NoProc
  /\ IF Sole(pa[At(p)])
     THEN /\ W' = W \cup {At(p)}
          /\ COW' = COW \ {At(p)}
          /\ lock_kalloc' = TRUE
          /\ Return(p)
          /\ UNCHANGED memlock
     ELSE /\ memlock' = p
          /\ memref_unlock_kalloc
          /\ Goto(p, "cow_alloc")
          /\ UNCHANGED <<W, COW>>
  /\ UNCHANGED <<freelist, fr, mem, pa, U, RO, procvars>>

\* Without memory the fault is refused; lock_kalloc keeps the value 0.
CowAlloc(p) ==
  /\ th[p].at = "cow_alloc"
  /\ \/ kalloc_pop(p, "cow_ref") /\ UNCHANGED <<memlock, status>>
     \/ /\ freelist = {}
        /\ memlock' = NoProc
        /\ status' = [status EXCEPT ![p] = "zombie"]
        /\ Return(p)
        /\ UNCHANGED freelist
  /\ UNCHANGED <<fr, lock_kalloc, mem, ptevars, pagetable, sz>>

CowRef(p) ==
  /\ th[p].at = "cow_ref"
  /\ kalloc_ref(p)
  /\ Goto(p, "cow_copy")
  /\ UNCHANGED <<freelist, memlock, lock_kalloc, ptevars, procvars>>

CowCopy(p) ==
  /\ th[p].at = "cow_copy"
  /\ LET old == pa[At(p)]
     IN /\ mem' = [mem EXCEPT ![th[p].pg] = mem[old]]
        /\ fr' = [fr EXCEPT ![old] = @ - 1]
  /\ pa' = [pa EXCEPT ![At(p)] = th[p].pg]
  /\ W' = W \cup {At(p)}
  /\ COW' = COW \ {At(p)}
  /\ lock_kalloc' = TRUE
  /\ memlock' = NoProc
  /\ Return(p)
  /\ UNCHANGED <<freelist, U, RO, procvars>>

\* copyout() goes through walkaddr, which tests PTE_V and PTE_U only.
CopyOut(p, v, x) ==
  /\ Running(p)
  /\ <<pagetable[p], v>> \in U /\ pa[<<pagetable[p], v>>] # NoPage
  /\ mem' = [mem EXCEPT ![pa[<<pagetable[p], v>>]] = x]
  /\ UNCHANGED <<freelist, fr, memlock, lock_kalloc, ptevars, procvars, th>>

-----------------------------------------------------------------------------
\* userinit(): one process, one page mapped by uvmfirst.
Init ==
  /\ freelist = Pages \ {InitTable, InitPage}
  /\ fr = [x \in Pages |-> IF x \in {InitTable, InitPage} THEN 1 ELSE 0]
  /\ memlock = NoProc /\ lock_kalloc = TRUE
  /\ mem = [x \in Pages |-> IF x = InitPage THEN Zero ELSE Junk]
  /\ pa = [s \in Slot |-> IF s = <<InitTable, 0>> THEN InitPage ELSE NoPage]
  /\ W = {<<InitTable, 0>>} /\ U = {<<InitTable, 0>>}
  /\ COW = {} /\ RO = {}
  /\ status = [p \in Procs |-> IF p = InitProc THEN "live" ELSE "unused"]
  /\ pagetable = [p \in Procs |-> IF p = InitProc THEN InitTable ELSE NoPage]
  /\ sz = [p \in Procs |-> IF p = InitProc THEN 1 ELSE 0]
  /\ th = [p \in Procs |-> User]

Step(p) ==
  \/ ForkAlloc(p) \/ ForkTable(p) \/ Copy(p) \/ CopyInc(p) \/ ForkDone(p)
  \/ kfree_ref(p) \/ kfree_push(p) \/ DropPg(p) \/ ClearPte(p)
  \/ TableFreed(p) \/ UnmapDone(p)
  \/ GrowAlloc(p) \/ GrowRef(p) \/ GrowDone(p)
  \/ \E perm \in Perm : GrowMap(p, perm)
  \/ ExecAlloc(p) \/ ExecTable(p) \/ ExecFail(p) \/ ExecCommit(p)
  \/ CowLock(p) \/ CowAlloc(p) \/ CowRef(p) \/ CowCopy(p)

Enter(p) ==
  \/ \E c \in Procs : Fork(p, c) \/ Wait(p, c)
  \/ Exit(p)
  \/ \E n \in SbrkPages : Grow(p, n) \/ Shrink(p, n)
  \/ \E n \in ExecPages : Exec(p, n)
  \/ \E v \in VA : StoreFault(p, v)
  \/ \E v \in VA, x \in Values : Store(p, v, x)

NextButCopyOut == \E p \in Procs : Step(p) \/ Enter(p)

Next == \/ NextButCopyOut
        \/ \E p \in Procs, v \in VA, x \in Values : CopyOut(p, v, x)

Spec == Init /\ [][Next]_vars

\* The behaviours in which memory is written by store instructions only.  A
\* copyout to a writable page has the effect of a store; the one to a page that
\* fork shares is the subject of ForkIsolation.
StoreSpec == Init /\ [][NextButCopyOut]_vars

-----------------------------------------------------------------------------
(***************************************************************************)
(* Who refers to a page.  Between the two halves of uvmcopy's loop body a  *)
(* new PTE is not yet counted, and between kfree and "*pte = 0" a dying    *)
(* PTE is no longer counted.                                               *)
(***************************************************************************)
Uncounted ==
  {At(p) : p \in {q \in Procs : \/ th[q].at = "copy_inc"
                                \/ th[q].at \in {"push", "clear"} /\ InRange(q)}}

Counted == {s \in Slot : pa[s] # NoPage} \ Uncounted

Refs(x) == {s \in Counted : pa[s] = x}

(***************************************************************************)
(* A page is also in the hands of one thread: as the page kalloc returned, *)
(* as the page table of a process, as the page table a thread builds or    *)
(* takes down, or on its way between the free list and those.              *)
(***************************************************************************)
FreesTable(p) ==
  th[p].at \in {"push", "clear"} /\ ~InPg(p) /\ ~InRange(p)

HasPg(p) == InPg(p) /\ th[p].at \in {"grow_map", "cow_copy", "unmap"}

HasTable(p) == status[p] \in {"live", "zombie"}

HasTgt(p) ==
  \/ th[p].at \in {"copy", "copy_inc"}
  \/ /\ th[p].table /\ ~FreesTable(p)
     /\ th[p].at \in {"unmap", "push", "clear", "grow", "grow_ref", "grow_map"}

InTransit(p) ==
  th[p].at \in {"fork_ref", "exec_ref", "grow_ref", "cow_ref", "push"}

Transit(p) == IF th[p].at = "push" THEN Freed(p) ELSE th[p].pg

\* The threads that hold x, by kind; only the first three count as references.
Holders(x) == {<<p, "pg">> : p \in {q \in Procs : HasPg(q) /\ th[q].pg = x}}
       \cup {<<p, "table">> : p \in {q \in Procs : HasTable(q) /\ pagetable[q] = x}}
       \cup {<<p, "tgt">> : p \in {q \in Procs : HasTgt(q) /\ th[q].tgt = x}}
Movers(x) == {p \in Procs : InTransit(p) /\ Transit(p) = x}

\* Page tables, counts, process slots and the locals of every kernel thread of
\* kalloc.c and vm.c keep their types: no loop index leaves its range, and a
\* size stays within the address space.
TypeOK ==
  /\ freelist \subseteq Pages
  /\ fr \in [Pages -> Nat]
  /\ memlock \in ProcOrNone /\ lock_kalloc \in BOOLEAN
  /\ mem \in [Pages -> Values]
  /\ pa \in [Slot -> PageOrNone]
  /\ W \subseteq Slot /\ COW \subseteq Slot /\ U \subseteq Slot /\ RO \subseteq Slot
  /\ status \in [Procs -> Status]
  /\ pagetable \in [Procs -> PageOrNone]
  /\ sz \in [Procs -> 0..MaxVA]
  /\ th \in [Procs -> Thread]


\* A page kalloc may hand out, or that kalloc or kfree is moving, is
\* referenced by nobody and is moved by one thread only.
FreeIsUnreferenced ==
  \A x \in Pages :
    /\ x \in freelist => Refs(x) = {} /\ Holders(x) = {} /\ Movers(x) = {}
    /\ \A p \in Movers(x) : Refs(x) = {} /\ Holders(x) = {} /\ Movers(x) = {p}

\* Only PTEs share a page: what a thread holds, as a page table or to map it,
\* nobody else refers to.
HeldIsExclusive ==
  \A x \in Pages : \A h \in Holders(x) : Holders(x) = {h} /\ Refs(x) = {}

\* No page is lost: it is free, referenced, or being moved.
NoLeak ==
  \A x \in Pages :
    x \in freelist \/ Refs(x) # {} \/ Holders(x) # {} \/ Movers(x) # {}

\* A writable PTE is the only reference to its page, so a store that does
\* not fault can be seen through no other page table.
WritableIsExclusive ==
  \A s \in W \cap Counted : Refs(pa[s]) = {s}

\* The panics of uvmcopy, mappages, uvmunmap and freewalk are never reached.
NoPanic ==
  \A p \in Procs :
    /\ th[p].at = "copy" /\ th[p].i < sz[p] =>
         pa[<<pagetable[p], th[p].i>>] # NoPage /\ pa[At(p)] = NoPage
    /\ th[p].at = "grow_map" => pa[At(p)] = NoPage
    /\ th[p].at = "unmap" /\ InRange(p) => pa[At(p)] # NoPage
    /\ th[p].at = "unmap" /\ ~InPg(p) /\ ~InRange(p) /\ th[p].table =>
         Empty(th[p].tgt)

\* handleCOW calls kalloc with memref.lock held: that kalloc must have read
\* lock_kalloc = 0, or it would wait for its own caller.
NoSelfDeadlock ==
  \A p \in Procs : th[p].at = "cow_ref" => memlock = p /\ ~th[p].lk

(***************************************************************************)
(* What a process sees at a virtual page.                                  *)
(***************************************************************************)
SameView(p, v) ==
  LET s == <<pagetable[p], v>>
  IN (/\ status[p] = "live" /\ status'[p] = "live"
      /\ pagetable'[p] = pagetable[p]
      /\ s \in Counted /\ s \in Counted')
     => mem'[pa'[s]] = mem[pa[s]]

OneViewChanges ==
  \A p, q \in Procs : p # q => \A u, v \in VA : SameView(p, u) \/ SameView(q, v)

\* What a live process has in memory is changed by nobody's fork, fault,
\* exit, exec or sbrk, and by no other process's store: handleCOW gives a page
\* to a writer only when nobody shares it, and copies its contents otherwise.
StoreIsolation ==
  [][/\ OneViewChanges
     /\ \A p \in Procs, v \in VA :
          SameView(p, v) \/ \E x \in Values : Store(p, v, x)]_vars

\* fork "copies both the page table and the physical memory" (vm.c): no write,
\* the copyout of a system call included, is seen by two processes.
ForkIsolation == [][OneViewChanges]_vars

\* A page that exec mapped without PTE_W (program text) never becomes
\* writable.
TextStaysReadOnly == RO \cap W = {}

\* A store to a page that was mapped writable for the user is refused by
\* handleCOW only for want of memory.
CowFaultIsServed ==
  [][\A p \in Procs, v \in VA :
        (StoreFault(p, v) /\ status'[p] = "zombie")
           => LET s == <<pagetable[p], v>>
              IN s \notin U \/ s \in RO \/ pa[s] = NoPage]_vars

-----------------------------------------------------------------------------
\* Pages and processes that userinit() does not name are interchangeable.
Symmetry == Permutations(Pages \ {InitTable, InitPage})
              \cup Permutations(Procs \ {InitProc})
=============================================================================
