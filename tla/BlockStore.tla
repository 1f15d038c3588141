---------------------------- MODULE BlockStore ----------------------------
(***************************************************************************)
(* What the buffer cache promises (the comment at the head of              *)
(* kernel/bio.c): one copy of each block, used by one process at a time,   *)
(* which keeps what was last put into it whatever happens to the buffers.  *)
(***************************************************************************)
CONSTANTS Procs, None, Blocks, Values

VARIABLES content, owner

Init == content \in [Blocks -> Values] /\ owner = [k \in Blocks |-> None]

bread(p, k) == /\ owner[k] = None
               /\ owner' = [owner EXCEPT ![k] = p]
               /\ UNCHANGED content

update(p, k, v) == /\ owner[k] = p
                   /\ content' = [content EXCEPT ![k] = v]
                   /\ UNCHANGED owner

brelse(p, k) == /\ owner[k] = p
                /\ owner' = [owner EXCEPT ![k] = None]
                /\ UNCHANGED content

Next == \E p \in Procs, k \in Blocks :
          bread(p, k) \/ brelse(p, k) \/ \E v \in Values : update(p, k, v)

Spec == Init /\ [][Next]_<<content, owner>>
=============================================================================
