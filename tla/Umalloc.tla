------------------------------ MODULE Umalloc ------------------------------
(***************************************************************************)
(* The user-level allocator (user/umalloc.c): a circular list of free      *)
(* blocks ordered by address, searched first-fit from freep.  Addresses    *)
(* and sizes are in units of a Header; base lies below the heap.           *)
(***************************************************************************)
EXTENDS Integers, FiniteSets

CONSTANTS Core,      \* the least number of units asked from sbrk()
          Heap,      \* units sbrk() can give
          Sizes      \* nbytes of malloc()

VARIABLES hdr,       \* the headers of blocks, with size and ptr; base is at 0
          freep,     \* 0 (base), or -1 when malloc() was never called
          brk,
          held       \* blocks malloc() has handed out

uvars == <<hdr, freep, brk, held>>

base == 0
Units == 1..Heap

\* A block has a unit for its header, of sizeof(Header) = 16 bytes.
nunits(nbytes) == (nbytes + 16 - 1) \div 16 + 1

-----------------------------------------------------------------------------
\* free(): from freep on, the first p with bp between p and its successor, or
\* the last of the list when bp is beyond it or before its first.
Between(h, p, b) ==
  \/ p < b /\ b < h[p].ptr
  \/ p >= h[p].ptr /\ (p < b \/ b < h[p].ptr)

Place(h, start, b) ==
  LET walk[n \in 0..Cardinality(DOMAIN h)] == IF n = 0 THEN start ELSE h[walk[n - 1]].ptr
  IN  walk[CHOOSE n \in DOMAIN walk :
             Between(h, walk[n], b) /\ \A m \in 0..(n - 1) : ~Between(h, walk[m], b)]

\* Join with the block after it, and with the one before it.  A header inside
\* a block is never read; it is made Blank.
Blank == [size |-> 0, ptr |-> base]
JoinsUpper(h, p, b) == b + h[b].size = h[p].ptr
JoinsLower(h, p, b) == p + h[p].size = b
Joins(h, p, b) == JoinsLower(h, p, b)

Upper(h, p, b) ==
  LET n == h[p].ptr
  IN  IF JoinsUpper(h, p, b)
      THEN [h EXCEPT ![b] = [size |-> @.size + h[n].size, ptr |-> h[n].ptr], ![n] = Blank]
      ELSE [h EXCEPT ![b].ptr = n]
Lower(h, p, b) ==
  IF Joins(h, p, b)
  THEN [h EXCEPT ![p] = [size |-> @.size + h[b].size, ptr |-> h[b].ptr], ![b] = Blank]
  ELSE [h EXCEPT ![p].ptr = b]

Insert(h, p, b) == Lower(Upper(h, p, b), p, b)
Freed(h, start, b) == LET p == Place(h, start, b) IN [h |-> Insert(h, p, b), freep |-> p]

-----------------------------------------------------------------------------
\* The blocks of the list in the order malloc() looks at them: from the
\* successor of f round to f.
Round(h, f) ==
  LET walk[n \in 1..Cardinality(DOMAIN h)] == IF n = 1 THEN h[f].ptr ELSE h[walk[n - 1]].ptr
  IN  walk
Fitting(h, f, n) == {k \in DOMAIN Round(h, f) : h[Round(h, f)[k]].size >= n}
First(S) == CHOOSE k \in S : \A j \in S : k <= j

\* A block that fits: taken whole, or its tail.
TakesFront(h, prev, p, n) ==
  [h |-> [h EXCEPT ![p].size = n], got |-> p]
TakesTail(h, prev, p, n) ==
  IF h[p].size = n THEN [h |-> [h EXCEPT ![prev].ptr = h[p].ptr, ![p].ptr = base], got |-> p]
  ELSE LET q == p + h[p].size - n
       IN  [h |-> [h EXCEPT ![p].size = @ - n, ![q] = [size |-> n, ptr |-> base]], got |-> q]
Take(h, prev, p, n) == TakesTail(h, prev, p, n)

AtPrevious(prev, p) == prev
Resume(prev, p) == AtPrevious(prev, p)

Taken(h, f, n, k) ==
  LET prev == IF k = 1 THEN f ELSE Round(h, f)[k - 1]
      t == Take(h, prev, Round(h, f)[k], n)
  IN  hdr' = t.h /\ freep' = Resume(prev, t.got) /\ held' = held \cup {t.got}

malloc(n) ==
  /\ freep # -1 /\ Fitting(hdr, freep, n) # {}
  /\ Taken(hdr, freep, n, First(Fitting(hdr, freep, n)))
  /\ UNCHANGED brk

\* Nothing fits: morecore() frees a new block, and the search goes on from it.
\* freep is where it was put.
Grown(h, f, nu) == Freed([h EXCEPT ![brk] = [size |-> nu, ptr |-> base]], f, brk)
More(g, n, nu) == Taken(g.h, g.freep, n, First(Fitting(g.h, g.freep, n))) /\ brk' = brk + nu
Ask(n) == IF n < Core THEN Core ELSE n

malloc_more(n) ==
  /\ freep # -1 /\ Fitting(hdr, freep, n) = {} /\ brk + Ask(n) <= Heap + 1
  /\ More(Grown(hdr, freep, Ask(n)), n, Ask(n))

malloc_fails(n) ==
  /\ freep # -1 /\ Fitting(hdr, freep, n) = {} /\ brk + Ask(n) > Heap + 1
  /\ UNCHANGED uvars

\* The first call makes base the only block of the list, also when sbrk() fails.
malloc_first(n) ==
  /\ freep = -1
  /\ IF brk + Ask(n) <= Heap + 1 THEN More(Grown(hdr, base, Ask(n)), n, Ask(n))
     ELSE freep' = base /\ UNCHANGED <<hdr, brk, held>>

free(b) ==
  /\ b \in held
  /\ LET f == Freed(hdr, freep, b) IN hdr' = f.h /\ freep' = f.freep
  /\ held' = held \ {b} /\ UNCHANGED brk

Init ==
  /\ hdr = [p \in 0..Heap |-> Blank] /\ freep = -1 /\ brk = 1 /\ held = {}

Next ==
  \/ \E nbytes \in Sizes : LET n == nunits(nbytes)
                           IN  malloc(n) \/ malloc_more(n) \/ malloc_fails(n) \/ malloc_first(n)
  \/ \E b \in Units : free(b)

Spec == Init /\ [][Next]_uvars

-----------------------------------------------------------------------------
\* The blocks in the list.
InList == IF freep = -1 THEN {} ELSE {Round(hdr, freep)[k] : k \in DOMAIN Round(hdr, freep)}
Block(p) == p..(p + hdr[p].size - 1)

\* freep is in the list, and the list is a cycle through base.
TypeOK ==
  /\ brk \in 1..(Heap + 1) /\ freep \in -1..Heap /\ held \subseteq Units
  /\ \A p \in 0..Heap : hdr[p].size \in 0..Heap /\ hdr[p].ptr \in 0..Heap
  /\ freep # -1 => {freep, base} \subseteq InList

\* Every unit of the heap is in one block, handed out or free: none is lost,
\* and no two blocks overlap.
EveryUnitOnce ==
  \A u \in 1..(brk - 1) : Cardinality({p \in (InList \cup held) \ {base} : u \in Block(p)}) = 1

\* The list goes up in address and down once, and neighbours have been joined:
\* of two free blocks one never begins where the other ends.
Coalesced ==
  LET F == InList \ {base}
  IN  /\ \A p \in InList : hdr[p].ptr > p \/ hdr[p].ptr = base
      /\ \A p \in F : p + hdr[p].size \notin F
=============================================================================
