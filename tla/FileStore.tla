----------------------------- MODULE FileStore -----------------------------
(***************************************************************************)
(* What reading and writing open files promises: a file is a sequence of   *)
(* bytes, an open file has an offset, and a write of one chunk happens at  *)
(* the offset as a whole and moves it, as does a read.                     *)
(***************************************************************************)
EXTENDS Integers, Sequences

CONSTANTS Files, Inodes, Values, Most, of    \* of[f] is the inode of open file f,
                                             \* Most the bytes of a chunk

VARIABLES content, off

Init == content = [i \in Inodes |-> <<>>] /\ off = [f \in Files |-> 0]

\* r bytes are written; k more may have been overwritten when the writer's
\* memory ends there.
write(f, v, r, k) ==
  LET c == content[of[f]] o == off[f]
      longer == IF o + r > Len(c) THEN o + r ELSE Len(c)
  IN /\ o <= Len(c)
     /\ content' = [content EXCEPT ![of[f]] =
          [j \in 1..longer |-> IF o < j /\ j <= o + r + k THEN v ELSE c[j]]]
     /\ off' = [off EXCEPT ![f] = o + r]

read(f, r) ==
  /\ off[f] + r <= Len(content[of[f]])
  /\ off' = [off EXCEPT ![f] = @ + r]
  /\ UNCHANGED content

open(f) ==
  /\ off' = [off EXCEPT ![f] = 0]
  /\ UNCHANGED content

trunc(i) == content' = [content EXCEPT ![i] = <<>>] /\ UNCHANGED off

Next ==
  \/ \E f \in Files :
       \/ open(f)
       \/ \E r \in 0..Len(content[of[f]]) : read(f, r)
       \/ \E r \in 0..Most, v \in Values : \E k \in 0..(Most - r) : write(f, v, r, k)
  \/ \E i \in Inodes : trunc(i)

Spec == Init /\ [][Next]_<<content, off>>
=============================================================================
