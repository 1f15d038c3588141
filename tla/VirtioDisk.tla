----------------------------- MODULE VirtioDisk -----------------------------
(***************************************************************************)
(* kernel/virtio_disk.c: the driver's descriptors and its two rings, the   *)
(* interrupt handler, and the device as the driver uses it.  Code under    *)
(* vdisk_lock is one action, except where the device can look in between:  *)
(* before avail->idx is advanced, and in the loop over the used ring.  A    *)
(* ring is the queue of the entries between its two indices; the others    *)
(* are not looked at.                                                      *)
(***************************************************************************)
EXTENDS Integers, FiniteSets, Sequences, SequencesExt

CONSTANTS Procs, None, Blocks, Values,
          NBUF,
          NUM,     \* descriptors, and entries of a ring
          Sizes    \* bound: how many descriptors the queue may have

ASSUME VirtioAssumption ==
  /\ None \notin Procs /\ "intr" \notin Procs /\ NBUF \in Nat \ {0}
  /\ NUM \in Nat /\ Sizes \subseteq 3..NUM

Bufs == 1..NBUF
Desc == 0..(NUM - 1)
NoBuf == 0

VARIABLES
  buf,            \* struct buf: blockno, valid, disk, refcnt, data
  th,             \* of each process: its place, its buffer, and idx[] of virtio_disk_rw
  store,          \* what is on the disk
  desc,           \* descriptors, the one of an operation with the command it points to
  free, info,
  avail,          \* from the device's index to avail->idx
  used,           \* from used_idx to used->idx
  vdisk_lock,
  isr,            \* the device's interrupt status
  busy            \* chains the device works on

qvars == <<desc, free, info, avail, used, busy>>
dvars == <<qvars, store, vdisk_lock, isr>>

Go(p, x) == th' = [th EXCEPT ![p].at = x]
Wake(f, at, S) == [q \in Procs |-> IF f[q].at = at /\ q \in S
                                   THEN [f[q] EXCEPT !.at = IF at = "io" THEN "check" ELSE "rw"]
                                   ELSE f[q]]

NoDesc == [addr |-> None, b |-> NoBuf, out |-> FALSE, next |-> NUM]

\* alloc3_desc(): the three lowest free descriptors, or none.
Lowest(S) == CHOOSE i \in S : \A j \in S : i <= j
alloc3_desc == LET i == Lowest(free) j == Lowest(free \ {i})
               IN <<i, j, Lowest(free \ {i, j})>>
Enough == Cardinality(free) >= 3

Taken(x) == {x[1], x[2], x[3]}

\* virtio_disk_rw() up to the entry in the avail ring.  A failed alloc3_desc()
\* gives back what it took, and free_desc() then wakes the other sleepers.
virtio_disk_rw(p) ==
  /\ th[p].at = "rw" /\ vdisk_lock = None
  /\ IF ~Enough
     THEN /\ th' = [IF free = {} THEN th ELSE Wake(th, "nodesc", Procs) EXCEPT ![p].at = "nodesc"]
          /\ UNCHANGED <<buf, desc, free, info, vdisk_lock>>
     ELSE LET x == alloc3_desc b == th[p].b
          IN /\ free' = free \ Taken(x)
             /\ desc' = [desc EXCEPT
                  ![x[1]] = [addr |-> buf[b].blockno, b |-> NoBuf, out |-> th[p].write, next |-> x[2]],
                  ![x[2]] = [addr |-> "data", b |-> b, out |-> th[p].write, next |-> x[3]],
                  ![x[3]] = [addr |-> "status", b |-> NoBuf, out |-> FALSE, next |-> NUM]]
             /\ info' = [info EXCEPT ![x[1]] = [b |-> b, status |-> 255]]
             /\ buf' = [buf EXCEPT ![b].disk = TRUE]
             /\ th' = [th EXCEPT ![p].at = "notify", ![p].head = x[1]]
             /\ vdisk_lock' = p
  /\ UNCHANGED <<store, avail, used, busy, isr>>

\* avail->idx += 1, the notification, and sleep(b, &vdisk_lock).
virtio_notify(p) ==
  /\ th[p].at = "notify"
  /\ avail' = Append(avail, th[p].head)
  /\ vdisk_lock' = None
  /\ Go(p, "io")
  /\ UNCHANGED <<buf, store, desc, free, info, used, busy, isr>>

\* free_chain(): what follows from i along the next flags.
Chain(i) == LET j == desc[i].next k == IF j = NUM THEN NUM ELSE desc[j].next
            IN {i, j, k} \ {NUM}

\* Woken: b->disk is looked at again, and the chain is freed.  After a read
\* bread() goes on, the only one to look at valid as it has the buffer's lock.
virtio_done(p) ==
  /\ th[p].at = "check" /\ vdisk_lock = None
  /\ LET h == th[p].head b == th[p].b
     IN IF buf[b].disk
        THEN Go(p, "io") /\ UNCHANGED <<buf, desc, free, info>>
        ELSE /\ info' = [info EXCEPT ![h].b = NoBuf]
             /\ desc' = [i \in Desc |-> IF i \in Chain(h) THEN NoDesc ELSE desc[i]]
             /\ free' = free \cup Chain(h)
             /\ th' = [Wake(th, "nodesc", Procs) EXCEPT
                         ![p].at = IF th[p].write THEN "written" ELSE "held", ![p].head = NUM]
             /\ buf' = [buf EXCEPT ![b].valid = TRUE]
  /\ UNCHANGED <<store, avail, used, busy, vdisk_lock, isr>>

\* virtio_disk_intr(): acknowledge first, then take what is in the used ring.
intr_ack ==
  /\ isr /\ vdisk_lock = None
  /\ vdisk_lock' = "intr"
  /\ isr' = FALSE
  /\ UNCHANGED <<buf, th, store, qvars>>

intr_loop ==
  /\ vdisk_lock = "intr" /\ used # <<>>
  /\ LET b == info[Head(used)].b
     IN /\ buf' = [buf EXCEPT ![b].disk = FALSE]
        /\ th' = Wake(th, "io", {q \in Procs : th[q].b = b})
  /\ used' = Tail(used)
  /\ UNCHANGED <<store, desc, free, info, avail, busy, vdisk_lock, isr>>

Anyway == TRUE
Drained == used = <<>>

intr_done ==
  /\ vdisk_lock = "intr" /\ Drained
  /\ vdisk_lock' = None
  /\ UNCHANGED <<buf, th, store, qvars, isr>>

(***************************************************************************)
(* The device: it takes chains from the avail ring in order, works on      *)
(* several at once and finishes them in any order.                         *)
(***************************************************************************)
device_take ==
  /\ avail # <<>>
  /\ busy' = busy \cup {Head(avail)}
  /\ avail' = Tail(avail)
  /\ UNCHANGED <<buf, th, store, desc, free, info, used, vdisk_lock, isr>>

device_finish(h) ==
  /\ h \in busy
  /\ LET b == desc[desc[h].next].b k == desc[h].addr
     IN IF desc[h].out
        THEN store' = [store EXCEPT ![k] = buf[b].data] /\ UNCHANGED buf
        ELSE buf' = [buf EXCEPT ![b].data = store[k]] /\ UNCHANGED store
  /\ info' = [info EXCEPT ![h].status = 0]
  /\ used' = Append(used, h)
  /\ busy' = busy \ {h}
  /\ isr' = TRUE
  /\ UNCHANGED <<th, desc, free, avail, vdisk_lock>>

\* virtio_disk_init()
DiskInit ==
  /\ store \in [Blocks -> Values]
  /\ desc = [i \in Desc |-> NoDesc]
  /\ \E n \in Sizes : free = 0..(n - 1)
  /\ info = [i \in Desc |-> [b |-> NoBuf, status |-> 0]]
  /\ avail = <<>> /\ used = <<>> /\ vdisk_lock = None /\ isr = FALSE /\ busy = {}

Driver(p) == virtio_disk_rw(p) \/ virtio_notify(p) \/ virtio_done(p)
Interrupt == intr_ack \/ intr_loop \/ intr_done
Device == device_take \/ \E h \in Desc : device_finish(h)

-----------------------------------------------------------------------------
InFlight == ToSet(avail) \cup busy \cup ToSet(used)
Links(h) == {h, desc[h].next, desc[desc[h].next].next}

\* The device is only ever shown complete chains: three descriptors that are
\* not free, for the operation, the data of a buffer it owns, and the status;
\* and a chain stays so until virtio_disk_intr() has seen it finished.
ChainsComplete ==
  \A h \in InFlight :
    /\ Cardinality(Links(h)) = 3 /\ Links(h) \subseteq Desc \ free
    /\ LET d == desc[desc[h].next]
       IN d.addr = "data" /\ d.b # NoBuf /\ d.b = info[h].b /\ buf[d.b].disk
    /\ h \in ToSet(used) => info[h].status = 0

\* No descriptor belongs to two requests.
ChainsDisjoint ==
  \A p, q \in Procs : p # q /\ th[p].at \in {"notify", "io", "check"}
                            /\ th[q].at \in {"notify", "io", "check"} =>
    Links(th[p].head) \cap Links(th[q].head) = {}

\* A completion is not lost: while the used ring has entries the driver has
\* not seen, the interrupt is pending or its handler is still at work; and a
\* process asleep in virtio_disk_rw() has a request on its way.
NoLostCompletion ==
  /\ used # <<>> => isr \/ vdisk_lock = "intr"
  /\ \A p \in Procs : th[p].at = "io" => th[p].head \in InFlight
=============================================================================
