------------------------------- MODULE Inode -------------------------------
(***************************************************************************)
(* The inodes of kernel/fs.c: on disk, and in the table itable.  An entry  *)
(* of the table is named by its inode number; the table has room for every *)
(* inode of the instance.  What runs under itable.lock, or under one       *)
(* inode's sleep lock without waiting for another, is one action.          *)
(***************************************************************************)
EXTENDS Integers, FiniteSets, Sequences, SequencesExt

CONSTANTS Procs, None,
          NINODES      \* inodes on the disk

ASSUME InodeAssumption == None \notin Procs /\ NINODES \in Nat \ {0}

ROOTINO == 1
Inums == 1..NINODES

VARIABLES
  dinode,     \* struct dinode: type ("free" for 0), nlink, and a directory's entries
  inode,      \* struct inode: ref, valid, type, nlink, and the holder of its lock
  th          \* each process: its place, its locals, and the inodes it has yet to iput()

NoInode == [ref |-> 0, valid |-> FALSE, type |-> "free", nlink |-> 0, lock |-> None]
NoFile == [type |-> "free", nlink |-> 0, ents |-> <<>>]

\* iget() and idup(): a fresh entry is not valid.
iget(tab, i) == [tab EXCEPT ![i].ref = @ + 1]

Unlocked(i) == inode[i].lock = None

\* ilock() reads the inode from disk unless it is valid.
Read(i) == IF inode[i].valid THEN inode[i]
           ELSE [inode[i] EXCEPT !.valid = TRUE, !.type = dinode[i].type,
                                 !.nlink = dinode[i].nlink]
ilock(i, p) == [inode EXCEPT ![i] = [Read(i) EXCEPT !.lock = p]]

\* ilock(), a change of nlink, iupdate() and iunlock().
iupdate(i, n) == [dinode EXCEPT ![i].nlink = n]
SetLinks(tab, i, n) == [tab EXCEPT ![i].nlink = n, ![i].lock = None]
iunlock(tab, i) == [tab EXCEPT ![i].lock = None]

\* ialloc(): the first free inode of the disk.
FreeInums == {i \in Inums : dinode[i].type = "free"}
ialloc == CHOOSE i \in FreeInums : \A j \in FreeInums : i <= j

\* iput(): the last reference to an inode without links frees it.  The table's
\* lock is released meanwhile, and the reference dropped at the end.
FreesShared(i) == inode[i].valid /\ inode[i].nlink = 0
Frees(i) == inode[i].ref = 1 /\ inode[i].valid /\ inode[i].nlink = 0
Dropped(i) == [inode EXCEPT ![i] = IF @.ref = 1 THEN NoInode ELSE [@ EXCEPT !.ref = @ - 1]]

iput_test(p) ==
  /\ th[p].puts # <<>> /\ th[p].put = "test"
  /\ LET i == Head(th[p].puts)
     IN IF Frees(i)
        THEN /\ Unlocked(i)
             /\ inode' = [inode EXCEPT ![i].lock = p]
             /\ th' = [th EXCEPT ![p].put = "free"]
        ELSE /\ inode' = Dropped(i)
             /\ th' = [th EXCEPT ![p].puts = Tail(@)]
  /\ UNCHANGED dinode

\* itrunc(), type 0 on disk, and an entry that is no longer valid.
Invalid(i) == [NoInode EXCEPT !.ref = inode[i].ref]

iput_free(p) ==
  /\ th[p].put = "free"
  /\ LET i == Head(th[p].puts)
     IN /\ dinode' = [dinode EXCEPT ![i] = NoFile]
        /\ inode' = [inode EXCEPT ![i] = Invalid(i)]
  /\ th' = [th EXCEPT ![p].put = "drop"]

iput_drop(p) ==
  /\ th[p].put = "drop"
  /\ inode' = Dropped(Head(th[p].puts))
  /\ th' = [th EXCEPT ![p].puts = Tail(@), ![p].put = "test"]
  /\ UNCHANGED dinode

iput(p) == iput_test(p) \/ iput_free(p) \/ iput_drop(p)
=============================================================================
