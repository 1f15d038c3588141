----------------------------- MODULE AtomicLog -----------------------------
(***************************************************************************)
(* What the logging layer promises (the comment at the head of             *)
(* kernel/log.c): the updates of the file-system calls between two commits *)
(* reach the disk all together, at a moment when no call is under way, and *)
(* a crash loses exactly what is not committed.                            *)
(***************************************************************************)
CONSTANTS Ops, Blocks, Values

VARIABLES stable,  \* what a reboot would find
          cur,     \* what file-system calls see
          active   \* the calls between begin_op and end_op

avars == <<stable, cur, active>>

Init == /\ stable \in [Blocks -> Values]
        /\ cur = stable
        /\ active = {}

Begin(o) == /\ o \notin active
            /\ active' = active \cup {o}
            /\ UNCHANGED <<stable, cur>>

Write(o, b, v) == /\ o \in active
                  /\ cur' = [cur EXCEPT ![b] = v]
                  /\ UNCHANGED <<stable, active>>

End(o) == /\ o \in active
          /\ active' = active \ {o}
          /\ UNCHANGED <<stable, cur>>

Commit == /\ active = {}
          /\ stable' = cur
          /\ UNCHANGED <<cur, active>>

Crash == /\ cur' = stable
         /\ active' = {}
         /\ UNCHANGED stable

Next == \/ \E o \in Ops : \/ Begin(o) \/ End(o)
                          \/ \E b \in Blocks, v \in Values : Write(o, b, v)
        \/ Commit \/ Crash

Spec == Init /\ [][Next]_avars
=============================================================================
