------------------------------ MODULE FileData ------------------------------
(***************************************************************************)
(* The contents of files (kernel/fs.c, kernel/file.c): the bitmap, block   *)
(* addresses, readi() and writei(), and filewrite() with one transaction   *)
(* per chunk.  A block has BSIZE cells, which hold bytes or, in an         *)
(* indirect block, addresses.  One action is one round of a loop.          *)
(***************************************************************************)
EXTENDS Integers, FiniteSets, Sequences

CONSTANTS Procs, None, Files, Inodes, of,   \* of[f] is the inode of open file f
          NBLOCKS,           \* data blocks on the disk
          BSIZE, NDIRECT, MAXOPBLOCKS,
          Byte,              \* bound: Byte[i] is what is written to inode i
          Lengths            \* bound: how much a call reads or writes

ASSUME DataAssumption ==
  /\ None \notin Procs /\ of \in [Files -> Inodes]
  /\ {NBLOCKS, BSIZE, NDIRECT, MAXOPBLOCKS} \subseteq Nat \ {0} /\ Lengths \subseteq Nat \ {0}

Blocks == 1..NBLOCKS
Cells == 0..(BSIZE - 1)
MAXFILE == NDIRECT + BSIZE
min(a, b) == IF a < b THEN a ELSE b
max(a, b) == IF a < b THEN b ELSE a

VARIABLES
  bitmap,      \* blocks marked in use
  data,        \* the cells of each block
  dinode,      \* on disk: addrs, size
  inode,       \* in memory: addrs, size
  lock,        \* ip->lock
  off,         \* f->off
  th           \* each process: its place, its file, what is left, and the blocks it has logged

vars == <<bitmap, data, dinode, inode, lock, off, th>>

Zero == [c \in Cells |-> 0]
Junk == [c \in Cells |-> 1]     \* stands for whatever a freed block held
NoData == [addrs |-> [k \in 0..NDIRECT |-> 0], size |-> 0]
User == [pc |-> "user", f |-> None, left |-> 0, n |-> 0, r |-> 0, log |-> {}, old |-> <<>>]

(***************************************************************************)
(* balloc() and bmap() as functions of s: the bitmap, the blocks, the      *)
(* inode's addresses and the blocks logged.  BPB is 1: each block has a    *)
(* bitmap block of its own, the worst case for the log.                    *)
(***************************************************************************)
FreeIn(s) == Blocks \ s.bitmap
Lowest(S) == CHOOSE b \in S : \A c \in S : b <= c

NotZeroed(s) ==
  IF FreeIn(s) = {} THEN [s EXCEPT !.addr = 0]
  ELSE LET b == Lowest(FreeIn(s))
       IN [s EXCEPT !.addr = b, !.bitmap = @ \cup {b}, !.log = @ \cup {<<"bit", b>>}]
balloc(s) ==
  IF FreeIn(s) = {} THEN [s EXCEPT !.addr = 0]
  ELSE LET b == Lowest(FreeIn(s))
       IN [s EXCEPT !.addr = b, !.bitmap = @ \cup {b}, !.data[b] = Zero,
                    !.log = @ \cup {<<"bit", b>>, <<"block", b>>}]

\* ip->addrs[k], allocated if need be
Direct(s, k) ==
  IF s.addrs[k] # 0 THEN [s EXCEPT !.addr = s.addrs[k]]
  ELSE LET t == balloc(s) IN [t EXCEPT !.addrs[k] = t.addr]

\* cell c of the indirect block a
Indirect(s, a, c) ==
  IF s.data[a][c] # 0 THEN [s EXCEPT !.addr = s.data[a][c]]
  ELSE LET t == balloc(s)
       IN IF t.addr = 0 THEN t
          ELSE [t EXCEPT !.data[a][c] = t.addr, !.log = @ \cup {<<"block", a>>}]

bmap(s, bn) ==
  IF bn < NDIRECT THEN Direct(s, bn)
  ELSE LET t == Direct(s, NDIRECT)
       IN IF t.addr = 0 THEN t ELSE Indirect(t, t.addr, bn - NDIRECT)

State(i, log) == [addr |-> 0, bitmap |-> bitmap, data |-> data, addrs |-> inode[i].addrs,
                  log |-> log]

\* The address of block bn as it is, 0 if there is none.
Address(i, bn) ==
  LET a == inode[i].addrs[min(bn, NDIRECT)]
  IN IF bn < NDIRECT \/ a = 0 THEN a ELSE data[a][bn - NDIRECT]
Contents(i) == [k \in 1..inode[i].size |-> data[Address(i, (k - 1) \div BSIZE)][(k - 1) % BSIZE]]

(***************************************************************************)
(* filewrite(): chunks small enough for a transaction.                     *)
(***************************************************************************)
NoSlop == ((MAXOPBLOCKS - 1 - 1) \div 2) * BSIZE
Chunk == ((MAXOPBLOCKS - 1 - 1 - 2) \div 2) * BSIZE

filewrite(p, f, n) ==
  /\ th[p].pc = "user"
  /\ th' = [th EXCEPT ![p] = [User EXCEPT !.pc = "begin", !.f = f, !.left = n]]
  /\ UNCHANGED <<bitmap, data, dinode, inode, lock, off>>

\* begin_op(), ilock() and the tests at the head of writei().
writei(p) ==
  /\ th[p].pc = "begin"
  /\ LET f == th[p].f i == of[f] n == min(th[p].left, Chunk)
     IN /\ lock[i] = None
        /\ IF off[f] > inode[i].size \/ off[f] + n > MAXFILE * BSIZE
           THEN th' = [th EXCEPT ![p] = User] /\ UNCHANGED lock
           ELSE /\ th' = [th EXCEPT ![p].pc = "block", ![p].n = n, ![p].old = Contents(i)]
                /\ lock' = [lock EXCEPT ![i] = p]
  /\ UNCHANGED <<bitmap, data, dinode, inode, off>>

\* The block that byte o of a file is in gets its part of the chunk, m bytes;
\* when copyin() fails after k of them, these are not counted.
Part(o, left) == min(left, BSIZE - (o % BSIZE))

writei_block(p, k) ==
  /\ th[p].pc = "block" /\ th[p].r < th[p].n
  /\ LET i == of[th[p].f] o == off[th[p].f] + th[p].r
         m == Part(o, th[p].n - th[p].r)
         s == bmap(State(i, th[p].log), o \div BSIZE)
         filled == [c \in Cells |-> IF o % BSIZE <= c /\ c < (o % BSIZE) + k THEN Byte[i]
                                    ELSE s.data[s.addr][c]]
     IN /\ bitmap' = s.bitmap
        /\ inode' = [inode EXCEPT ![i].addrs = s.addrs]
        /\ \/ /\ s.addr = 0 /\ k = 0
              /\ data' = s.data
              /\ th' = [th EXCEPT ![p].pc = "end", ![p].log = s.log]
           \/ /\ s.addr # 0 /\ k < m
              /\ data' = [s.data EXCEPT ![s.addr] = filled]
              /\ th' = [th EXCEPT ![p].pc = "end", ![p].log = s.log]
           \/ /\ s.addr # 0 /\ k = m
              /\ data' = [s.data EXCEPT ![s.addr] = filled]
              /\ th' = [th EXCEPT ![p].r = @ + m, ![p].log = s.log \cup {<<"block", s.addr>>}]
  /\ UNCHANGED <<dinode, lock, off>>

\* The size grows by what was written; iupdate() in any case, for the
\* addresses; then f->off, iunlock(), end_op(), and the next chunk.
Size(t, size) == max(size, off[t.f] + t.r)
iupdate(i, d) == [dinode EXCEPT ![i] = d]
Unlocked(t, i) == [lock EXCEPT ![i] = None]
Advanced(f, n) == [off EXCEPT ![f] = @ + n]

writei_end(p) ==
  /\ \/ th[p].pc = "end"
     \/ th[p].pc = "block" /\ th[p].r = th[p].n
  /\ LET t == th[p] i == of[t.f]
         d == [inode[i] EXCEPT !.size = Size(t, inode[i].size)]
     IN /\ inode' = [inode EXCEPT ![i] = d]
        /\ dinode' = iupdate(i, d)
        /\ off' = Advanced(t.f, t.r)
        /\ lock' = Unlocked(t, i)
        /\ th' = [th EXCEPT ![p] =
                    IF t.r # t.n \/ t.left = t.r THEN User
                    ELSE [User EXCEPT !.pc = "begin", !.f = t.f, !.left = t.left - t.r]]
  /\ UNCHANGED <<bitmap, data>>

\* fileread() and readi(), under the inode's lock.
Amount(o, size, n) == IF o > size THEN 0 ELSE min(n, size - o)

fileread(p, f, n) ==
  /\ th[p].pc = "user" /\ lock[of[f]] = None
  /\ off' = Advanced(f, Amount(off[f], inode[of[f]].size, n))
  /\ UNCHANGED <<bitmap, data, dinode, inode, lock, th>>

(***************************************************************************)
(* sys_open() of an inode after the last close of f, with O_TRUNC or not.  *)
(* itrunc() frees the blocks before it writes the inode.                   *)
(***************************************************************************)
Reach(d) ==
  LET direct == {d.addrs[k] : k \in 0..NDIRECT} \ {0}
      a == d.addrs[NDIRECT]
  IN direct \cup IF a = 0 THEN {} ELSE {data[a][c] : c \in Cells} \ {0}

open(p, f) ==
  /\ th[p].pc = "user" /\ lock[of[f]] = None /\ \A q \in Procs : th[q].f # f
  /\ off' = [off EXCEPT ![f] = 0]
  /\ UNCHANGED <<bitmap, data, dinode, inode, lock, th>>

DirectOnly(d) == {d.addrs[k] : k \in 0..NDIRECT} \ {0}
Freed(d) == Reach(d)

itrunc(p, i) ==
  /\ th[p].pc = "user" /\ lock[i] = None
  /\ bitmap' = bitmap \ Freed(inode[i])
  /\ inode' = [inode EXCEPT ![i] = NoData]
  /\ lock' = [lock EXCEPT ![i] = p]
  /\ th' = [th EXCEPT ![p] = [User EXCEPT !.pc = "trunc",
                                          !.log = {<<"bit", b>> : b \in Freed(inode[i])}]]
  /\ data' = [b \in Blocks |-> IF b \in Freed(inode[i]) THEN Junk ELSE data[b]]
  /\ UNCHANGED <<dinode, off>>

itrunc_end(p, i) ==
  /\ th[p].pc = "trunc" /\ lock[i] = p
  /\ dinode' = [dinode EXCEPT ![i] = NoData]
  /\ lock' = [lock EXCEPT ![i] = None]
  /\ th' = [th EXCEPT ![p] = User]
  /\ UNCHANGED <<bitmap, data, inode, off>>

Init ==
  /\ bitmap = {} /\ data = [b \in Blocks |-> Zero]
  /\ dinode = [i \in Inodes |-> NoData] /\ inode = dinode
  /\ lock = [i \in Inodes |-> None] /\ off = [f \in Files |-> 0]
  /\ th = [p \in Procs |-> User]

Next == \E p \in Procs :
  \/ \E f \in Files : open(p, f) \/ \E n \in Lengths : filewrite(p, f, n) \/ fileread(p, f, n)
  \/ writei(p) \/ writei_end(p)
  \/ \E k \in 0..BSIZE : writei_block(p, k)
  \/ \E i \in Inodes : itrunc(p, i) \/ itrunc_end(p, i)

Spec == Init /\ [][Next]_vars

-----------------------------------------------------------------------------
\* Blocks, inodes, offsets and threads keep their types; a process between
\* ilock() and iunlock() has the lock of its inode, and no other.
TypeOK ==
  /\ bitmap \subseteq Blocks
  /\ \A b \in Blocks, c \in Cells : data[b][c] \in Nat
  /\ \A d \in {dinode[i] : i \in Inodes} \cup {inode[i] : i \in Inodes} :
       d.addrs \in [0..NDIRECT -> 0..NBLOCKS] /\ d.size \in 0..(MAXFILE * BSIZE)
  /\ off \in [Files -> 0..(MAXFILE * BSIZE)]
  /\ \A p \in Procs : {i \in Inodes : lock[i] = p} =
                         IF th[p].pc \in {"block", "end"} THEN {of[th[p].f]}
                         ELSE {i \in Inodes : lock[i] = p /\ th[p].pc = "trunc"}

\* A block is in use exactly if one inode reaches it, and then by one address:
\* no block is lost when an allocation fails half way or a copy faults.
Addresses(i) ==
  {<<i, k>> : k \in {k \in 0..NDIRECT : inode[i].addrs[k] # 0}}
  \cup LET a == inode[i].addrs[NDIRECT]
       IN {<<i, a, c>> : c \in {c \in Cells : a # 0 /\ data[a][c] # 0}}
BlocksOwned ==
  /\ bitmap = UNION {Reach(inode[i]) : i \in Inodes}
  /\ Cardinality(bitmap) = Cardinality(UNION {Addresses(i) : i \in Inodes})

\* What a crash brings back has the same property: with no call active the
\* inodes on disk are those in memory.
DiskConsistent == (\A p \in Procs : th[p].pc \in {"user", "begin"}) => dinode = inode

\* Every block below the size has an address, so readi(), which runs outside a
\* transaction, never makes bmap() allocate one.
SizeCovered ==
  \A i \in Inodes : \A k \in 0..(inode[i].size - 1) : Address(i, k \div BSIZE) # 0

\* A transaction of filewrite() or itrunc(), its iupdate() included, logs no
\* more than MAXOPBLOCKS different blocks: what begin_op() has reserved.
LogFits == \A p \in Procs : th[p].pc # "user" => Cardinality(th[p].log) + 1 <= MAXOPBLOCKS

\* A chunk is seen as a whole when its inode is unlocked.
Writer(i) == {p \in Procs : th[p].pc \in {"block", "end"} /\ of[th[p].f] = i}
files == INSTANCE FileStore WITH
  Values <- {Byte[i] : i \in Inodes}, Most <- BSIZE,
  content <- [i \in Inodes |-> IF Writer(i) = {} THEN Contents(i)
                               ELSE th[CHOOSE p \in Writer(i) : TRUE].old]

\* Files behave as byte sequences with an offset, whatever blocks they are in:
\* chunks of two writers do not mix, writers that share an open file append.
IsFileStore == files!Spec
=============================================================================
