-------------------------------- MODULE Mkfs --------------------------------
(***************************************************************************)
(* mkfs (mkfs/mkfs.c): the image the kernel starts from.  Blocks are given *)
(* out in order and files appended to, block by block.  A directory entry  *)
(* is one byte here.                                                       *)
(***************************************************************************)
EXTENDS Integers, FiniteSets

CONSTANTS BSIZE, NDIRECT, NINDIRECT,
          nmeta,        \* boot, super, log, inode and bitmap blocks
          FSSIZE,
          MaxFiles, MaxSize

VARIABLES freeinode, freeblock,
          din,          \* inodes
          block,        \* contents of blocks: bytes of files, or block numbers
          fd,           \* the file that is copied: its inode and the bytes left
          used          \* the blocks marked in the bitmap: none before it is written

mkvars == <<freeinode, freeblock, din, block, fd, used>>

rootino == 1
Inums == 1..(MaxFiles + 1)
Blocks == 0..(FSSIZE - 1)
MAXFILE == NDIRECT + NINDIRECT
NoInode == [type |-> "none", nlink |-> 0, size |-> 0, addrs |-> [k \in 0..NDIRECT |-> 0]]
zeroes == [k \in 0..(BSIZE - 1) |-> 0]
Nobody == [inum |-> 0, left |-> 0]
\* A number for byte off of the file, different from every block number.
ByteOf(inum, off) == FSSIZE + inum * MAXFILE * BSIZE + off

ialloc(type) == [NoInode EXCEPT !.type = type, !.nlink = 1]

-----------------------------------------------------------------------------
\* One round of the loop of iappend(): the image is i, with inode number n.
\* First the block of the file, direct or through the indirect block.
Direct(i, fbn) ==
  IF i.addrs[fbn] = 0 THEN [i EXCEPT !.addrs[fbn] = i.free, !.free = @ + 1] ELSE i
InIndirect(i, k) ==
  IF i.block[i.addrs[NDIRECT]][k] = 0
  THEN [i EXCEPT !.block[i.addrs[NDIRECT]][k] = i.free, !.free = @ + 1] ELSE i
Indirect(i, k) == InIndirect(Direct(i, NDIRECT), k)
Found(i, fbn) == IF fbn < NDIRECT THEN Direct(i, fbn) ELSE Indirect(i, fbn - NDIRECT)

bmap(a, b, fbn) == IF fbn < NDIRECT THEN a[fbn] ELSE b[a[NDIRECT]][fbn - NDIRECT]

\* Then as much as fits in it.
Part(n, off) == LET room == BSIZE - (off % BSIZE) IN IF n < room THEN n ELSE room
Filled(b, inum, off, n) ==
  [k \in DOMAIN b |-> IF k \in (off % BSIZE)..((off % BSIZE) + n - 1) THEN ByteOf(inum, off + k - (off % BSIZE)) ELSE b[k]]
Written(i, inum, x, n) ==
  [i EXCEPT !.block[x] = Filled(@, inum, i.size, n), !.size = @ + n]
Round(i, inum, n) ==
  LET f == Found(i, i.size \div BSIZE)
  IN  Written(f, inum, bmap(f.addrs, f.block, i.size \div BSIZE), Part(n, i.size))

\* n is at most a block, so there are at most two rounds.
Image(inum) == [addrs |-> din[inum].addrs, size |-> din[inum].size, block |-> block, free |-> freeblock]
Rest(i, inum, m) == IF m = 0 THEN i ELSE Round(i, inum, m)
iappend(i, inum, n) ==
  LET f == Round(i, inum, n) IN Rest(f, inum, n - (f.size - i.size))

Stored(i, inum, dins) == [dins EXCEPT ![inum].addrs = i.addrs, ![inum].size = i.size]

-----------------------------------------------------------------------------
\* The root with its . and .. entries; the loop over the files begins.
Init ==
  /\ freeinode = 2 /\ fd = Nobody /\ used = {}
  /\ LET root == [addrs |-> NoInode.addrs, size |-> 0, block |-> [b \in Blocks |-> zeroes], free |-> nmeta]
         i == iappend(iappend(root, rootino, 1), rootino, 1)
     IN  /\ freeblock = i.free /\ block = i.block
         /\ din = Stored(i, rootino, [n \in Inums |-> IF n = rootino THEN ialloc("T_DIR") ELSE NoInode])

\* A file of n bytes: its inode and its entry in the root.
open(n) ==
  /\ used = {} /\ fd = Nobody /\ freeinode \in Inums
  /\ LET i == iappend(Image(rootino), rootino, 1)
     IN  /\ block' = i.block /\ freeblock' = i.free
         /\ din' = Stored(i, rootino, [din EXCEPT ![freeinode] = ialloc("T_FILE")])
  /\ freeinode' = freeinode + 1
  /\ fd' = [inum |-> freeinode, left |-> n] /\ UNCHANGED used

\* read() gives up to a block.
read(cc) ==
  /\ fd # Nobody /\ cc \in 1..fd.left
  /\ LET i == iappend(Image(fd.inum), fd.inum, cc)
     IN  block' = i.block /\ freeblock' = i.free /\ din' = Stored(i, fd.inum, din)
  /\ fd' = [fd EXCEPT !.left = @ - cc]
  /\ UNCHANGED <<freeinode, used>>
close ==
  /\ fd # Nobody /\ fd.left = 0 /\ fd' = Nobody
  /\ UNCHANGED <<freeinode, freeblock, din, block, used>>

\* The size of the root is rounded up, and the bitmap written.
RoundedUp(off) == (off \div BSIZE + 1) * BSIZE
Marked(n) == {i \in Blocks : i < n}
balloc ==
  /\ used = {} /\ fd = Nobody
  /\ din' = [din EXCEPT ![rootino].size = RoundedUp(@)]
  /\ used' = Marked(freeblock)
  /\ UNCHANGED <<freeinode, freeblock, block, fd>>

Next == (\E n \in 0..MaxSize : open(n)) \/ (\E cc \in 1..BSIZE : read(cc)) \/ close \/ balloc
Spec == Init /\ [][Next]_mkvars

-----------------------------------------------------------------------------
Fbns(inum) == 0..((din[inum].size + BSIZE - 1) \div BSIZE - 1)
At(inum, fbn) == bmap(din[inum].addrs, block, fbn)
\* Every block an inode leads to, with the way it is reached.
Refs == UNION {{<<n, f>> : f \in Fbns(n)} : n \in Inums}
Indirects == {n \in Inums : din[n].addrs[NDIRECT] # 0}

\* However the files are cut by read(), the kernel finds each byte at its
\* place: the blocks below an inode's size hold its bytes in order.  (When the
\* entries of the root end with a block, its rounded size is one block more
\* than it has.)
ImageRight ==
  \A n \in Inums : \A off \in 0..(din[n].size - 1) :
    LET x == At(n, off \div BSIZE)
    IN  IF n = rootino /\ used # {} THEN x # 0 => block[x][off % BSIZE] \in {ByteOf(n, off), 0}
        ELSE x # 0 /\ block[x][off % BSIZE] = ByteOf(n, off)

\* Each block from nmeta on that was given out belongs to one inode, at one
\* place, and the bitmap marks these and the blocks below nmeta.
OneOwner ==
  LET data == [r \in {s \in Refs : At(s[1], s[2]) # 0} |-> At(r[1], r[2])]
      ind == [n \in Indirects |-> din[n].addrs[NDIRECT]]
      blocks == {data[r] : r \in DOMAIN data} \cup {ind[n] : n \in Indirects}
  IN  /\ blocks = nmeta..(freeblock - 1)
      /\ Cardinality(blocks) = Cardinality(DOMAIN data) + Cardinality(Indirects)
      /\ used # {} => used = 0..(nmeta - 1) \cup blocks
=============================================================================
