---------------------------- MODULE MCFileData ----------------------------
(***************************************************************************)
(* The contents of two shared open files, the table of open files, or the  *)
(* making of the first image: part says which of the modules moves.        *)
(***************************************************************************)
EXTENDS FileData, TLC

CONSTANTS f1, f2, i1, i2, FProcs, NOFILE, NFILE, Pipes,
          MkBSIZE, NINDIRECT, nmeta, FSSIZE, MaxFiles, MaxSize

VARIABLES part, ofile, file, pipe, iref, alive, ft,
          freeinode, freeblock, din, mkblock, fd, used

ftable == INSTANCE FileTable WITH Inodes <- {i1}
mkfs == INSTANCE Mkfs WITH BSIZE <- MkBSIZE, block <- mkblock

fvars == <<ofile, file, pipe, iref, alive, ft>>
mvars == <<freeinode, freeblock, din, mkblock, fd, used>>

AllInit == part \in {"data", "ftable", "mkfs"} /\ Init /\ ftable!Init /\ mkfs!Init

AllNext ==
  \/ part = "data" /\ Next /\ UNCHANGED <<part, fvars, mvars>>
  \/ part = "ftable" /\ ftable!Next /\ UNCHANGED <<part, vars, mvars>>
  \/ part = "mkfs" /\ mkfs!Next /\ UNCHANGED <<part, vars, fvars>>
  \/ part = "mkfs" /\ used # {} /\ UNCHANGED <<part, vars, fvars, mvars>>   \* exited

AllSpec == AllInit /\ [][AllNext]_<<part, vars, fvars, mvars>>

MCof == f1 :> i1 @@ f2 :> i2
MCByte == i1 :> 1 @@ i2 :> 2
Symmetry == Permutations(Procs)

-----------------------------------------------------------------------------
\* The properties of the other modules, stated and explained there.
\* FileTable: only live processes have descriptors.
FilesTypeOK == part = "ftable" => ftable!TypeOK
\* FileTable: what is counted is what there is.  A file is referenced by the
\* descriptors and calls that hold it, the ends of a pipe are open as long as a
\* file stands for them, and references to inodes are given back once.
RefsExact == part = "ftable" => ftable!RefsExact /\ ftable!EndsExact /\ ftable!InodeRefs
\* FileTable: a call uses an open file.
UseSafe == part = "ftable" => ftable!UseSafe
\* Mkfs: the kernel finds each byte of each file.
ImageRight == part = "mkfs" => mkfs!ImageRight
\* FileData, Mkfs: a block in use belongs to one inode, at one place, and a block
\* that belongs to none is free; after balloc(), bmap() and itrunc() with their
\* failures, and in the image mkfs makes.
OneOwner == /\ part = "data" => BlocksOwned
            /\ part = "mkfs" => mkfs!OneOwner
=============================================================================
