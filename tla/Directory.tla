----------------------------- MODULE Directory -----------------------------
(***************************************************************************)
(* Directories and path names (kernel/fs.c) and the calls of               *)
(* kernel/sysfile.c that change them: link, unlink, mkdir, mknod, open,    *)
(* chdir and close, each inside begin_op() and end_op().  By AtomicLog a   *)
(* crash brings back the disk as it was when no call was active, so a      *)
(* crash at such a moment stands for every crash.                          *)
(***************************************************************************)
EXTENDS Inode

CONSTANTS Calls,        \* the calls made: [op, path], and [op, old, path] for a link
          NFILE,        \* entries of the file table
          MaxLinks      \* bound: no link() starts when a file has more links

VARIABLES cwd, open,    \* of each process: current directory, open file (0: none)
          lost          \* ghost: entries for each inode that went with a removed directory

fvars == <<cwd, open, lost>>
vars == <<dinode, inode, th, cwd, open, lost>>

Idle == [pc |-> "idle", op |-> "none", path |-> <<>>, rest |-> <<>>, ip |-> 0, dp |-> 0,
         puts |-> <<>>, put |-> "test"]
At(p, l) == th[p].pc = l /\ th[p].puts = <<>>
name(p) == Head(th[p].rest)

\* The call ends (end_op()) with the iput()s; a link() takes back its link first.
Done(p, puts) == [th EXCEPT ![p] = [Idle EXCEPT !.puts = puts]]
Failed(t, puts) ==
  IF t.op # "linknew" THEN [Idle EXCEPT !.puts = puts]
  ELSE [t EXCEPT !.pc = "linkbad", !.dp = 0, !.puts = puts]
Fail(p, puts) == [th EXCEPT ![p] = Failed(@, puts)]

ents(i) == dinode[i].ents
Dots == {".", ".."}

\* dirlookup()
Present(d, n) == n \in DOMAIN ents(d)

\* ilock() and iunlock(), with what is read kept.
Seen(i) == [inode EXCEPT ![i] = Read(i)]

(***************************************************************************)
(* namex(): dp is the inode reached so far.                                *)
(***************************************************************************)
Parent(op) == op \notin {"link", "open", "chdir"}
Handler(op) == CASE op = "link" -> "link1" [] op = "open" -> "open1" [] op = "chdir" -> "chdir1"
                 [] op = "linknew" -> "link2" [] op = "unlink" -> "unlink1"
                 [] OTHER -> "create1"

\* The thread t at inode i with the elements of rest still to be looked up.  The
\* root directory has no parent to look up.
Walk(t, i, rest) ==
  IF rest = <<>> /\ Parent(t.op) THEN Failed(t, <<i>>)
  ELSE IF rest = <<>> THEN [t EXCEPT !.ip = i, !.dp = 0, !.rest = rest, !.pc = Handler(t.op)]
  ELSE [t EXCEPT !.dp = i, !.rest = rest,
                 !.pc = IF Parent(t.op) /\ Len(rest) = 1 THEN "parent" ELSE "walk"]

\* iget() of the root directory, or idup() of the current one.
Absolute(path) == path # <<>> /\ Head(path) = "/"
Start(p, path) == IF Absolute(path) THEN ROOTINO ELSE cwd[p]
Elements(path) == IF Absolute(path) THEN Tail(path) ELSE path

begin_op(p, c) ==
  /\ At(p, "idle")
  /\ c.op = "link" => \A i \in Inums : dinode[i].type = "dir" \/ dinode[i].nlink <= MaxLinks
  /\ LET path == IF c.op = "link" THEN c.old ELSE c.path
     IN /\ inode' = iget(inode, Start(p, path))
        /\ th' = [th EXCEPT ![p] = Walk([Idle EXCEPT !.op = c.op, !.path = c.path],
                                        Start(p, path), Elements(path))]
  /\ UNCHANGED <<dinode, fvars>>

\* The next inode is referenced before this one is unlocked.
namex(p) ==
  /\ At(p, "walk") /\ Unlocked(th[p].dp)
  /\ LET i == th[p].dp
     IN IF Read(i).type = "dir" /\ Present(i, name(p))
        THEN LET j == ents(i)[name(p)]
             IN /\ inode' = iget(Seen(i), j)
                /\ th' = [th EXCEPT ![p] = [Walk(@, j, Tail(@.rest)) EXCEPT !.puts = <<i>>]]
        ELSE inode' = Seen(i) /\ th' = Fail(p, <<i>>)
  /\ UNCHANGED <<dinode, fvars>>

nameiparent(p) ==
  /\ At(p, "parent") /\ Unlocked(th[p].dp)
  /\ LET i == th[p].dp
     IN /\ inode' = Seen(i)
        /\ th' = IF Read(i).type = "dir" THEN [th EXCEPT ![p].pc = Handler(th[p].op)]
                 ELSE Fail(p, <<i>>)
  /\ UNCHANGED <<dinode, fvars>>

(***************************************************************************)
(* sys_link(): the count goes up before the entry is made.                 *)
(***************************************************************************)
Raised(i) == Read(i).nlink + 1

link1(p) ==
  /\ At(p, "link1") /\ Unlocked(th[p].ip)
  /\ LET i == th[p].ip n == Raised(i) path == th[p].path
     IN IF Read(i).type = "dir"
        THEN inode' = Seen(i) /\ th' = Fail(p, <<i>>) /\ UNCHANGED dinode
        ELSE /\ dinode' = iupdate(i, n)
             /\ inode' = iget(SetLinks(Seen(i), i, n), Start(p, path))
             /\ th' = [th EXCEPT ![p] = Walk([@ EXCEPT !.op = "linknew"],
                                             Start(p, path), Elements(path))]
  /\ UNCHANGED fvars

\* dirlink() fails if the name is there, or (full) if there is no disk block.
link2(p, full) ==
  /\ At(p, "link2") /\ Unlocked(th[p].dp)
  /\ LET d == th[p].dp i == th[p].ip
     IN /\ inode' = Seen(d)
        /\ IF full \/ Present(d, name(p))
           THEN th' = Fail(p, <<d>>) /\ UNCHANGED dinode
           ELSE /\ dinode' = [dinode EXCEPT ![d].ents = (name(p) :> i) @@ @]
                /\ th' = Done(p, <<d, i>>)
  /\ UNCHANGED fvars

KeptLink(i) == Read(i).nlink
TakenBack(i) == Read(i).nlink - 1

linkbad(p) ==
  /\ At(p, "linkbad") /\ Unlocked(th[p].ip)
  /\ LET i == th[p].ip n == TakenBack(i)
     IN /\ dinode' = iupdate(i, n)
        /\ inode' = SetLinks(Seen(i), i, n)
        /\ th' = Done(p, <<i>>)
  /\ UNCHANGED fvars

(***************************************************************************)
(* sys_unlink(): the directory stays locked while the inode is locked.     *)
(***************************************************************************)
Refused(n) == n \in Dots

unlink1(p) ==
  /\ At(p, "unlink1") /\ Unlocked(th[p].dp)
  /\ LET d == th[p].dp
     IN IF Refused(name(p)) \/ ~Present(d, name(p))
        THEN inode' = Seen(d) /\ th' = Fail(p, <<d>>)
        ELSE /\ inode' = iget(ilock(d, p), ents(d)[name(p)])
             /\ th' = [th EXCEPT ![p].pc = "unlink2", ![p].ip = ents(d)[name(p)]]
  /\ UNCHANGED <<dinode, fvars>>

isdirempty(i) == DOMAIN ents(i) \subseteq Dots

unlink2(p) ==
  /\ At(p, "unlink2") /\ Unlocked(th[p].ip)
  /\ LET d == th[p].dp i == th[p].ip dir == Read(i).type = "dir"
         n == inode[d].nlink - IF dir THEN 1 ELSE 0
     IN IF dir /\ ~isdirempty(i)
        THEN /\ inode' = Seen(i)
             /\ th' = [th EXCEPT ![p].pc = "bad", ![p].ip = 0, ![p].puts = <<i>>]
             /\ UNCHANGED dinode
        ELSE /\ dinode' = [iupdate(d, n) EXCEPT ![d].ents = Restrict(@, DOMAIN @ \ {name(p)})]
             /\ inode' = SetLinks(ilock(i, p), d, n)
             /\ th' = [th EXCEPT ![p].pc = "unlink3", ![p].dp = 0, ![p].puts = <<d>>]
  /\ UNCHANGED fvars

unlink3(p) ==
  /\ At(p, "unlink3")
  /\ LET i == th[p].ip n == inode[i].nlink - 1
     IN /\ dinode' = iupdate(i, n)
        /\ inode' = SetLinks(inode, i, n)
        /\ th' = Done(p, <<i>>)
  /\ UNCHANGED fvars

\* The directory is unlocked after the iput() of the inode.
bad(p) ==
  /\ At(p, "bad")
  /\ inode' = iunlock(inode, th[p].dp)
  /\ th' = Done(p, <<th[p].dp>>)
  /\ UNCHANGED <<dinode, fvars>>

(***************************************************************************)
(* create(), for sys_open() with O_CREATE ("create"), mkdir and mknod.     *)
(***************************************************************************)
Type(op) == CASE op = "create" -> "file" [] op = "mkdir" -> "dir" [] op = "mknod" -> "dev"

create1(p) ==
  /\ At(p, "create1") /\ Unlocked(th[p].dp)
  /\ LET d == th[p].dp
     IN \/ /\ Present(d, name(p))
           /\ inode' = iget(Seen(d), ents(d)[name(p)])
           /\ th' = [th EXCEPT ![p].pc = "create2", ![p].ip = ents(d)[name(p)],
                               ![p].dp = 0, ![p].puts = <<d>>]
           /\ UNCHANGED dinode
        \/ /\ ~Present(d, name(p)) /\ FreeInums = {}
           /\ inode' = Seen(d) /\ th' = Fail(p, <<d>>) /\ UNCHANGED dinode
        \/ /\ ~Present(d, name(p)) /\ FreeInums # {}
           /\ dinode' = [dinode EXCEPT ![ialloc].type = Type(th[p].op)]
           /\ inode' = iget(ilock(d, p), ialloc)
           /\ th' = [th EXCEPT ![p].pc = "create3", ![p].ip = ialloc]
  /\ UNCHANGED fvars

create2(p) ==
  /\ At(p, "create2") /\ Unlocked(th[p].ip)
  /\ LET i == th[p].ip
     IN IF th[p].op = "create" /\ Read(i).type \in {"file", "dev"}
        THEN inode' = ilock(i, p) /\ th' = [th EXCEPT ![p].pc = "open2"]
        ELSE inode' = Seen(i) /\ th' = Fail(p, <<i>>)
  /\ UNCHANGED <<dinode, fvars>>

\* The new inode and its name, or (full) neither.
create3(p) ==
  /\ At(p, "create3") /\ Unlocked(th[p].ip)
  /\ LET d == th[p].dp i == th[p].ip dir == th[p].op = "mkdir"
         n == inode[d].nlink + IF dir THEN 1 ELSE 0
     IN /\ dinode' = [iupdate(d, n) EXCEPT
                        ![i].nlink = 1,
                        ![i].ents = IF dir THEN "." :> i @@ ".." :> d ELSE <<>>,
                        ![d].ents = (name(p) :> i) @@ @]
        /\ inode' = [SetLinks(ilock(i, p), d, n) EXCEPT ![i].nlink = 1]
        /\ th' = [th EXCEPT ![p].pc = IF th[p].op = "create" THEN "open2" ELSE "made",
                            ![p].dp = 0, ![p].puts = <<d>>]
  /\ UNCHANGED fvars

\* mkdir and mknod go on with iunlockput() of the new inode.
made(p) ==
  /\ At(p, "made")
  /\ inode' = iunlock(inode, th[p].ip)
  /\ th' = Done(p, <<th[p].ip>>)
  /\ UNCHANGED <<dinode, fvars>>

create_fail(p) ==
  /\ At(p, "create3") /\ Unlocked(th[p].ip)
  /\ inode' = SetLinks(Seen(th[p].ip), th[p].ip, 0)
  /\ th' = [th EXCEPT ![p].pc = "bad", ![p].ip = 0, ![p].puts = <<th[p].ip>>]
  /\ UNCHANGED <<dinode, fvars>>

(***************************************************************************)
(* sys_open(), sys_chdir() and sys_close().                                *)
(***************************************************************************)
open1(p, write) ==
  /\ At(p, "open1") /\ Unlocked(th[p].ip)
  /\ LET i == th[p].ip
     IN IF Read(i).type = "dir" /\ write
        THEN inode' = Seen(i) /\ th' = Fail(p, <<i>>)
        ELSE inode' = ilock(i, p) /\ th' = [th EXCEPT ![p].pc = "open2"]
  /\ UNCHANGED <<dinode, fvars>>

\* filealloc() finds nothing.
Full == Cardinality({p \in Procs : open[p] # 0}) >= NFILE

\* A device may have a bad major number; there may be no file or descriptor.
open2(p, major) ==
  /\ At(p, "open2")
  /\ LET i == th[p].ip
     IN /\ inode' = iunlock(inode, i)
        /\ IF open[p] # 0 \/ Full \/ (inode[i].type = "dev" /\ ~major)
           THEN th' = Fail(p, <<i>>) /\ UNCHANGED open
           ELSE th' = Done(p, <<>>) /\ open' = [open EXCEPT ![p] = i]
  /\ UNCHANGED <<dinode, cwd, lost>>

chdir1(p) ==
  /\ At(p, "chdir1") /\ Unlocked(th[p].ip)
  /\ LET i == th[p].ip
     IN /\ inode' = Seen(i)
        /\ IF Read(i).type # "dir"
           THEN th' = Fail(p, <<i>>) /\ UNCHANGED cwd
           ELSE th' = Done(p, <<cwd[p]>>) /\ cwd' = [cwd EXCEPT ![p] = i]
  /\ UNCHANGED <<dinode, open, lost>>

close(p) ==
  /\ At(p, "idle") /\ open[p] # 0
  /\ th' = Done(p, <<open[p]>>)
  /\ open' = [open EXCEPT ![p] = 0]
  /\ UNCHANGED <<dinode, inode, cwd, lost>>

\* iput(), which frees a removed directory with the entries made in it since.
put(p) ==
  /\ iput(p)
  /\ lost' = LET i == Head(th[p].puts)
             IN IF th[p].put # "free" THEN lost
                ELSE [j \in Inums |-> lost[j] + Cardinality({n \in DOMAIN ents(i) \ Dots :
                                                               ents(i)[n] = j})]
  /\ UNCHANGED <<cwd, open>>

\* No call is active: the log commits.
Quiet == \A p \in Procs : At(p, "idle")

\* A crash, and the root directory as every process's directory after it.
Booted == [i \in Inums |-> IF i = ROOTINO THEN [NoInode EXCEPT !.ref = Cardinality(Procs)]
                           ELSE NoInode]

crash ==
  /\ Quiet
  /\ inode' = Booted
  /\ cwd' = [p \in Procs |-> ROOTINO] /\ open' = [p \in Procs |-> 0]
  /\ UNCHANGED <<dinode, th, lost>>

\* mkfs leaves a root directory that is its own parent.
Init ==
  /\ dinode = [i \in Inums |-> IF i # ROOTINO THEN NoFile
                 ELSE [type |-> "dir", nlink |-> 1, ents |-> "." :> i @@ ".." :> i]]
  /\ inode = Booted
  /\ th = [p \in Procs |-> Idle]
  /\ cwd = [p \in Procs |-> ROOTINO] /\ open = [p \in Procs |-> 0]
  /\ lost = [i \in Inums |-> 0]

Step(p) ==
  \/ namex(p) \/ nameiparent(p) \/ put(p) \/ bad(p)
  \/ link1(p) \/ linkbad(p) \/ \E b \in BOOLEAN : link2(p, b)
  \/ unlink1(p) \/ unlink2(p) \/ unlink3(p)
  \/ create1(p) \/ create2(p) \/ create3(p) \/ made(p) \/ create_fail(p)
  \/ chdir1(p) \/ \E b \in BOOLEAN : open1(p, b) \/ open2(p, b)

Next ==
  \/ \E p \in Procs : Step(p) \/ close(p) \/ \E c \in Calls : begin_op(p, c)
  \/ crash

Spec == Init /\ [][Next]_vars

-----------------------------------------------------------------------------
Count(S) == Cardinality(S)
References(i) ==
  Count({p \in Procs : cwd[p] = i}) + Count({p \in Procs : open[p] = i})
  + Count({p \in Procs : th[p].ip = i}) + Count({p \in Procs : th[p].dp = i})
  + Count({x \in Procs \X {1, 2} : x[2] <= Len(th[x[1]].puts) /\ th[x[1]].puts[x[2]] = i})

\* The inode a process is about to lock.
Wanted(p) ==
  CASE th[p].puts # <<>> -> 0
    [] th[p].pc \in {"walk", "parent", "link2", "unlink1", "create1"} -> th[p].dp
    [] th[p].pc \in {"link1", "linkbad", "unlink2", "create2", "create3", "open1", "chdir1"} -> th[p].ip
    [] OTHER -> 0

\* Inodes keep their types; a free inode has no links, and an inode table entry
\* that is valid agrees with the disk between the steps of its holder.
TypeOK ==
  /\ \A i \in Inums : /\ dinode[i].type \in {"free", "dir", "file", "dev"}
                       /\ dinode[i].nlink \in 0..(MaxLinks + NINODES)
                       /\ inode[i].lock \in Procs \cup {None}
                       /\ inode[i].valid => /\ inode[i].type = dinode[i].type
                                            /\ inode[i].nlink = dinode[i].nlink
  /\ cwd \in [Procs -> Inums] /\ open \in [Procs -> 0..NINODES]

\* "ip->ref tracks the number of in-memory pointers to the entry": every path
\* through the calls, the failing ones too, gives back what it took.
RefCounts == \A i \in Inums : inode[i].ref = References(i)

\* The links an inode should have: its names, ".." of the directories in it
\* that have a name, and one for the root.
Entries == UNION {{<<d, n, ents(d)[n]>> : n \in DOMAIN ents(d) \ Dots} : d \in Inums}
Named(E, i) ==
  Count({e \in E : e[3] = i})
  + Count({e \in E : dinode[e[3]].type = "dir" /\ ents(e[3])[".."] = i})
  + IF i = ROOTINO THEN 1 ELSE 0

\* An inode never has fewer links than names, whatever calls are under way:
\* nothing that still has a name is freed.
LinksCovered == LET E == Entries IN \A i \in Inums : dinode[i].nlink >= Named(E, i)

\* When no call is active, which is what reaches the disk, the count is exact
\* but for names that went with a removed directory.
LinksExact ==
  Quiet => LET E == Entries IN \A i \in Inums : dinode[i].nlink = Named(E, i) + lost[i]

\* "Number of links to inode in file system" (kernel/fs.h): no name is lost with
\* a directory, so that an inode with links can be reached.
NothingLost == \A i \in Inums : lost[i] = 0

\* The panics of ilock() ("no type"), dirlookup() ("not DIR") and sys_unlink()
\* ("nlink < 1") are out of reach.
NoPanic ==
  \A p \in Procs : LET i == Wanted(p)
                   IN i # 0 /\ Unlocked(i) =>
                        /\ Read(i).type # "free"
                        /\ th[p].pc \in {"link2", "unlink1", "create1"} => Read(i).type = "dir"
                        /\ th[p].pc = "unlink2" => Read(i).nlink >= 1

\* "ip->ref == 1 means no other process can have ip locked, so this
\* acquiresleep() won't block", which it must not with itable.lock held.
IputNeverBlocks ==
  \A p \in Procs : th[p].puts # <<>> /\ th[p].put = "test" =>
    LET i == Head(th[p].puts) IN Frees(i) => Unlocked(i)

\* Processes that hold an inode and wait for another do not wait in a circle.
NoLockCycle ==
  \A S \in SUBSET Procs \ {{}} :
    \E p \in S : Wanted(p) = 0 \/ inode[Wanted(p)].lock \notin S

\* A file stays what it is while a process has it open or is in it, also when
\* its last name is removed.
OpenSurvives ==
  [][\A p \in Procs : \A i \in {cwd[p], open[p]} \ {0} :
       i \in {cwd'[p], open'[p]} => dinode'[i].type = dinode[i].type /\ dinode[i].type # "free"]_vars
=============================================================================
