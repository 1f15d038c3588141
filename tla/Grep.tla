-------------------------------- MODULE Grep --------------------------------
(***************************************************************************)
(* user/grep.c: the matcher, and the loop that reads pieces of any length  *)
(* from a pipe or file into a small buffer and cuts it into lines.  "n" is *)
(* the newline.                                                            *)
(***************************************************************************)
EXTENDS Integers, Sequences, SequencesExt

CONSTANTS BUF,                \* sizeof(buf)
          Letters, MaxText,   \* what is searched, and its length
          Patterns

VARIABLES re, text,     \* the pattern and the whole input
          at,           \* how much of the input has been read
          buf,          \* buf[0 .. m-1]
          out, ended

gvars == <<re, text, at, buf, out, ended>>

NUL == "0"
Char(s, i) == IF i <= Len(s) THEN s[i] ELSE NUL
Places(s) == 1..(Len(s) + 1)

-----------------------------------------------------------------------------
\* matchhere(), with the loop of matchstar().
Same(c, x) == c = "." \/ c = x
AnyNumber(r, t, i, j, m) ==
  \E k \in j..(Len(t) + 1) : m[i + 2, k] /\ \A l \in j..(k - 1) : Same(r[i], t[l])
matchstar(r, t, i, j, m) == AnyNumber(r, t, i, j, m)

matchhere(r, t) ==
  LET m[i \in 1..(Len(r) + 2), j \in Places(t)] ==
        CASE Char(r, i) = NUL -> TRUE
          [] Char(r, i) # NUL /\ Char(r, i + 1) = "*" -> matchstar(r, t, i, j, m)
          [] Char(r, i) = "$" /\ Char(r, i + 1) = NUL -> j = Len(t) + 1
          [] OTHER -> j <= Len(t) /\ Same(r[i], t[j]) /\ m[i + 1, j + 1]
  IN  m

match(r, t) ==
  IF Char(r, 1) = "^" THEN matchhere(r, t)[2, 1] ELSE \E j \in Places(t) : matchhere(r, t)[1, j]

-----------------------------------------------------------------------------
\* The pieces up to each newline, and those of them that match, newline included.
Newlines(s) == {i \in 1..Len(s) : s[i] = "n"}
LineStart(s, i) == LET before == {k \in Newlines(s) : k < i}
                   IN  IF before = {} THEN 1 ELSE 1 + CHOOSE k \in before : \A l \in before : l <= k
Line(s, i) == SubSeq(s, LineStart(s, i), i - 1)
Hit(r, s, i) == IF match(r, Line(s, i)) THEN Append(Line(s, i), "n") ELSE <<>>
Found(r, s) == FoldLeft(\o, <<>>, [k \in 1..Len(s) |-> IF s[k] = "n" THEN Hit(r, s, k) ELSE <<>>])

\* What is left in buf is moved to its front.
DropsAll(s) == <<>>
KeepsTail(s) == SubSeq(s, LineStart(s, Len(s) + 1), Len(s))
Tail1(s) == KeepsTail(s)

Room == BUF - 1 - Len(buf)

\* read() gives n bytes; the lines that are complete are looked at.
Filled(b) == out' = out \o Found(re, b) /\ buf' = Tail1(b)
grep(n) ==
  /\ ~ended /\ n \in 1..Room /\ at + n <= Len(text)
  /\ Filled(buf \o SubSeq(text, at + 1, at + n))
  /\ at' = at + n /\ UNCHANGED <<re, text, ended>>

\* read() gives nothing: the end of the input, or no room was left.
grep_end ==
  /\ ~ended /\ (Room = 0 \/ at = Len(text))
  /\ ended' = TRUE /\ UNCHANGED <<re, text, at, buf, out>>

done == ended /\ UNCHANGED gvars

Init ==
  /\ re \in Patterns /\ text \in UNION {[1..k -> Letters] : k \in 0..MaxText}
  /\ at = 0 /\ buf = <<>> /\ out = <<>> /\ ended = FALSE

Next == (\E n \in 1..BUF : grep(n)) \/ grep_end \/ done

Spec == Init /\ [][Next]_gvars

-----------------------------------------------------------------------------
\* The strings a pattern stands for, up to a length; whether it ends in $.
Dollar(r) == Len(r) > 0 /\ r[Len(r)] = "$" /\ (r[1] = "^" => Len(r) > 1)
Body(r) == SubSeq(r, IF Char(r, 1) = "^" THEN 2 ELSE 1, IF Dollar(r) THEN Len(r) - 1 ELSE Len(r))
One(c) == {<<x>> : x \in {y \in Letters \ {"n"} : Same(c, y)}}
Run(c, n) == UNION {{s \in [1..k -> Letters \ {"n"}] : \A i \in 1..k : Same(c, s[i])} : k \in 0..n}
Times(A, B, n) == {w \in {u \o v : u \in A, v \in B} : Len(w) <= n}
Language(r, n) ==
  LET l[i \in 1..(Len(r) + 2)] ==
        CASE i > Len(r) -> {<<>>}
          [] i <= Len(r) /\ Char(r, i + 1) = "*" -> Times(Run(r[i], n), l[i + 2], n)
          [] OTHER -> Times(One(r[i]), l[i + 1], n)
  IN  l[1]

Selected(r, t, L) ==
  \E i \in Places(t), j \in 0..Len(t) :
    /\ i <= j + 1 /\ SubSeq(t, i, j) \in L
    /\ Char(r, 1) = "^" => i = 1
    /\ Dollar(r) => j = Len(t)

\* match() finds a pattern in a text exactly when a part of the text is one of
\* the strings the pattern stands for, at the beginning for ^ and the end for $.
MatchRight ==
  at = 0 /\ Newlines(text) = {} =>
    (match(re, text) <=> Selected(re, text, Language(Body(re), Len(text))))

\* However the input is cut by read(), grep() has written the lines that match
\* of what it has looked at; when it ends, all of them, if every line fits in buf.
GrepComplete ==
  /\ out = Found(re, SubSeq(text, 1, at - Len(buf)))
  /\ ended /\ (\A i \in Newlines(text) \cup {Len(text) + 1} : Len(Line(text, i)) < BUF - 1) =>
       out = Found(re, text)
=============================================================================
