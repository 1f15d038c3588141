---------------------------- MODULE BufferCache ----------------------------
(***************************************************************************)
(* kernel/bio.c and the sleep locks of kernel/sleeplock.c, over the disk   *)
(* driver of VirtioDisk.  Code under bcache.lock is one action.  Processes *)
(* use one buffer at a time as the file system does: they change it and    *)
(* then write it or give it to the log, which pins it until it has been    *)
(* installed (log_write and install_trans of kernel/log.c).                *)
(***************************************************************************)
EXTENDS VirtioDisk

CONSTANT MaxPins     \* bound: blocks the log pins at a time

VARIABLES
  lru,     \* bcache.head: buffers from most to least recently used
  lock,    \* the sleep lock of each buffer
  pins     \* buffers pinned by the log

bvars == <<lru, lock, pins>>
vars == <<buf, th, dvars, bvars>>

Cached(k) == {b \in Bufs : buf[b].blockno = k}
Unused == {b \in Bufs : buf[b].refcnt = 0}
Position(b) == CHOOSE i \in 1..NBUF : lru[i] = b

\* The victim is the least recently used buffer without references.
AnyBuffer == lru[NBUF]
LeastRecent == CHOOSE b \in Unused : \A c \in Unused : Position(c) <= Position(b)

Unlooked(k) == {}
Hits(k) == Cached(k)

\* bcache.lock, which is free between the actions unless bget() has panicked.
bcache_lock == \A q \in Procs : th[q].at # "panic"

\* bget() under bcache.lock
bget(p, k) ==
  /\ th[p].at = "user" /\ bcache_lock
  /\ \/ \E b \in Hits(k) :
          /\ buf' = [buf EXCEPT ![b].refcnt = @ + 1]
          /\ th' = [th EXCEPT ![p].at = "lock", ![p].b = b]
     \/ /\ Hits(k) = {} /\ Unused # {}
        /\ LET b == LeastRecent
           IN /\ buf' = [buf EXCEPT ![b].blockno = k, ![b].valid = FALSE, ![b].refcnt = 1]
              /\ th' = [th EXCEPT ![p].at = "lock", ![p].b = b]
     \/ /\ Hits(k) = {} /\ Unused = {}
        /\ Go(p, "panic") /\ UNCHANGED buf
  /\ UNCHANGED <<dvars, bvars>>

Unlocked(b) == lock[b] = None

\* acquiresleep(), and bread()'s test of valid.
acquiresleep(p) ==
  /\ th[p].at = "lock"
  /\ LET b == th[p].b
     IN IF ~Unlocked(b)
        THEN Go(p, "asleep") /\ UNCHANGED lock
        ELSE /\ lock' = [lock EXCEPT ![b] = p]
             /\ th' = [th EXCEPT ![p].at = IF buf[b].valid THEN "held" ELSE "rw",
                                 ![p].write = FALSE]
  /\ UNCHANGED <<buf, dvars, lru, pins>>

\* bwrite() by the holder of the lock: of a block it has changed, or of one the
\* log has pinned, by install_trans().
bwrite(p, v) ==
  /\ th[p].at = "held"
  /\ v # buf[th[p].b].data \/ th[p].b \in pins
  /\ buf' = [buf EXCEPT ![th[p].b].data = v]
  /\ th' = [th EXCEPT ![p].at = "rw", ![p].write = TRUE]
  /\ UNCHANGED <<dvars, bvars>>

\* log_write() of a block the holder has changed: bpin() unless the block is in the log already.
Pinned(b) == [buf EXCEPT ![b].refcnt = @ + 1]

log_write(p, v) ==
  /\ th[p].at = "held"
  /\ LET b == th[p].b
     IN /\ v # buf[b].data
        /\ b \notin pins => bcache_lock /\ Cardinality(pins) < MaxPins
        /\ pins' = pins \cup {b}
        /\ buf' = [IF b \in pins THEN buf ELSE Pinned(b) EXCEPT ![b].data = v]
  /\ UNCHANGED <<th, dvars, lru, lock>>

\* After bwrite(): install_trans() goes on with bunpin().
bunpin(p) ==
  /\ th[p].at = "written" /\ bcache_lock
  /\ LET b == th[p].b
     IN /\ pins' = pins \ {b}
        /\ buf' = IF b \in pins THEN [buf EXCEPT ![b].refcnt = @ - 1] ELSE buf
  /\ Go(p, "held")
  /\ UNCHANGED <<dvars, lru, lock>>

\* brelse(): releasesleep(), then the reference count under bcache.lock.
WakeOne(b) == LET q == {q \in Procs : th[q].at = "asleep" /\ th[q].b = b}
              IN IF q = {} THEN q ELSE {CHOOSE x \in q : TRUE}
Sleepers(b) == {q \in Procs : th[q].at = "asleep" /\ th[q].b = b}

brelse(p) ==
  /\ th[p].at = "held"
  /\ lock' = [lock EXCEPT ![th[p].b] = None]
  /\ th' = [q \in Procs |-> IF q = p THEN [th[p] EXCEPT !.at = "put"]
                            ELSE IF q \in Sleepers(th[p].b) THEN [th[q] EXCEPT !.at = "lock"]
                            ELSE th[q]]
  /\ UNCHANGED <<buf, dvars, lru, pins>>

Put(b) == [buf EXCEPT ![b].refcnt = @ - 1]

brelse_put(p) ==
  /\ th[p].at = "put" /\ bcache_lock
  /\ LET b == th[p].b
     IN /\ buf' = Put(b)
        /\ lru' = IF buf[b].refcnt = 1 THEN <<b>> \o Remove(lru, b) ELSE lru
  /\ th' = [th EXCEPT ![p].at = "user", ![p].b = NoBuf]
  /\ UNCHANGED <<dvars, lock, pins>>

\* binit(): the list ends up in the reverse order of the array.
Init ==
  /\ DiskInit
  /\ buf = [b \in Bufs |-> [blockno |-> None, valid |-> FALSE, disk |-> FALSE, refcnt |-> 0,
                            data |-> CHOOSE v \in Values : TRUE]]
  /\ th = [p \in Procs |-> [at |-> "user", b |-> NoBuf, write |-> FALSE, head |-> NUM]]
  /\ lru = [i \in 1..NBUF |-> NBUF + 1 - i]
  /\ lock = [b \in Bufs |-> None] /\ pins = {}

Step(p) ==
  \/ acquiresleep(p) \/ bunpin(p) \/ brelse(p) \/ brelse_put(p)
  \/ \E v \in Values : bwrite(p, v) \/ log_write(p, v)

Driving(p) == Driver(p) /\ UNCHANGED bvars
Handling == Interrupt /\ UNCHANGED bvars
Transfer == Device /\ UNCHANGED bvars

Next ==
  \/ \E p \in Procs : \/ Step(p) \/ Driving(p)
                      \/ \E k \in Blocks : bget(p, k)
  \/ Handling \/ Transfer

Spec == Init /\ [][Next]_vars

-----------------------------------------------------------------------------
Holding == {"held", "rw", "nodesc", "notify", "io", "check", "written"}
Users(b) == {p \in Procs : th[p].b = b}

\* The buffers, the list and the threads keep their types; a process that is
\* past acquiresleep() and not yet in releasesleep() has the buffer's lock.
TypeOK ==
  /\ buf \in [Bufs -> [blockno : Blocks \cup {None}, valid : BOOLEAN, disk : BOOLEAN,
                       refcnt : 0..(Cardinality(Procs) + 1), data : Values]]
  /\ store \in [Blocks -> Values] /\ free \subseteq Desc /\ busy \subseteq Desc
  /\ th \in [Procs -> [at : Holding \cup {"user", "lock", "asleep", "put", "panic"}, b : 0..NBUF,
                       write : BOOLEAN, head : 0..NUM]]
  /\ ToSet(lru) = Bufs /\ Len(lru) = NBUF /\ pins \subseteq Bufs
  /\ \A b \in Bufs : {p \in Users(b) : th[p].at \in Holding} = {lock[b]} \ {None}

\* "caching disk block contents": a block is in at most one buffer, although
\* bget() gives up bcache.lock before it has the buffer's lock.
OneBuffer ==
  \A b, c \in Bufs : buf[b].blockno = buf[c].blockno /\ buf[b].blockno # None => b = c

\* A buffer's reference count is the number of processes between bget() and
\* the end of brelse(), and one for the log: bget() takes no buffer in use.
RefCounts ==
  \A b \in Bufs : buf[b].refcnt = Cardinality(Users(b)) + IF b \in pins THEN 1 ELSE 0

\* bget() panics only when it has to: every buffer is pinned by the log or in
\* the hands of another process.
PanicsWhenFull ==
  [][\A p \in Procs : th[p].at # "panic" /\ th'[p].at = "panic" =>
       \A b \in Bufs : b \in pins \/ \E q \in Procs \ {p} : th[q].b = b]_vars

\* A process asleep in acquiresleep() waits for a lock that is held.
LockWaits == \A p \in Procs : th[p].at = "asleep" => lock[th[p].b] # None

\* A block's contents are in its buffer once that is valid, and its owner is
\* the process that has been given the buffer by bread().
Content(k) == LET B == {b \in Cached(k) : buf[b].valid}
              IN IF B = {} THEN store[k] ELSE buf[CHOOSE b \in B : TRUE].data
Owner(k) == LET P == {p \in Procs : /\ th[p].b \in Cached(k) /\ th[p].at \in Holding
                                    /\ buf[th[p].b].valid}
            IN IF P = {} THEN None ELSE CHOOSE p \in P : TRUE

blocks == INSTANCE BlockStore WITH content <- [k \in Blocks |-> Content(k)],
                                   owner <- [k \in Blocks |-> Owner(k)]

\* The cache and the driver together implement one copy of each block that
\* only its owner changes: no change is lost when a buffer is recycled, and
\* bread() returns what was written last.
OneCopy == blocks!Spec

\* Blocks and processes are interchangeable.
Symmetry == Permutations(Procs) \cup Permutations(Blocks)
=============================================================================
