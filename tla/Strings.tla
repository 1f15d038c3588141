------------------------------ MODULE Strings ------------------------------
(***************************************************************************)
(* Byte and string routines the rest relies on (kernel/string.c,           *)
(* user/ulib.c, user/printf.c, skipelem and namecmp of kernel/fs.c), as    *)
(* operators.  A string is a sequence without its NUL, a buffer a sequence *)
(* of bytes.  The one variable is the input they are applied to.           *)
(***************************************************************************)
EXTENDS Integers, Sequences, SequencesExt

CONSTANTS DIRSIZ, Letters, MaxPath, MaxName,
          Cells,      \* memory for memmove()
          W           \* bits of an int

VARIABLE input

NUL == "0"
Byte(s, i) == IF i <= Len(s) THEN s[i] ELSE NUL
UpTo(n) == [k \in 1..n |-> k]

-----------------------------------------------------------------------------
\* memmove(), one byte after the other, upwards or downwards.
Copy1(m, d, s) == [m EXCEPT ![d] = m[s]]
Upwards(m, dst, src, n) == FoldLeft(LAMBDA x, k : Copy1(x, dst + k - 1, src + k - 1), m, UpTo(n))
Downwards(m, dst, src, n) == FoldLeft(LAMBDA x, k : Copy1(x, dst + n - k, src + n - k), m, UpTo(n))
Overlaps(src, dst, n) == src < dst /\ src + n > dst
Reverses(src, dst, n) == Overlaps(src, dst, n)

memmove(m, dst, src, n) ==
  IF Reverses(src, dst, n) THEN Downwards(m, dst, src, n) ELSE Upwards(m, dst, src, n)
user_memmove(m, dst, src, n) ==
  IF src > dst THEN Upwards(m, dst, src, n) ELSE Downwards(m, dst, src, n)

-----------------------------------------------------------------------------
\* How far strncmp() and strncpy() get: the place of the first byte that
\* differs or is NUL.
Least(S) == CHOOSE i \in S : \A j \in S : i <= j
Differ(s, t, n) == Least({i \in 1..(n + 1) : i = n + 1 \/ Byte(s, i) = NUL \/ Byte(s, i) # Byte(t, i)})
strncmp_is_0(s, t, n) == LET i == Differ(s, t, n) IN i = n + 1 \/ Byte(s, i) = Byte(t, i)
namecmp(s, t) == strncmp_is_0(s, t, DIRSIZ)

\* n bytes: those of t, then NULs.
strncpy(t, n) == [i \in 1..n |-> Byte(t, i)]
\* At most n - 1 bytes of t, its NUL among them if it comes that far, and
\* another NUL; the rest of the buffer is left alone.
Room(n) == n - 1
Copied(t, n) == IF Len(t) + 1 < Room(n) THEN Len(t) + 1 ELSE Room(n)
safestrcpy(b, t, n) ==
  IF n <= 0 THEN b
  ELSE [i \in DOMAIN b |-> IF i <= Copied(t, n) THEN Byte(t, i)
                           ELSE IF i = Copied(t, n) + 1 THEN NUL ELSE b[i]]

\* skipelem(): the next element, cut to DIRSIZ bytes, and the path after it.
Past(p, i, slash) == Least({j \in i..(Len(p) + 1) : j = Len(p) + 1 \/ (p[j] = "/") # slash})
Cut(s) == SubSeq(s, 1, IF Len(s) >= DIRSIZ THEN DIRSIZ ELSE Len(s))
NoneLeft == [name |-> <<>>, rest |-> <<>>, ok |-> FALSE]
Split(p, s, e) ==
  [name |-> Cut(SubSeq(p, s, e - 1)), rest |-> SubSeq(p, Past(p, e, TRUE), Len(p)), ok |-> TRUE]
Element(p, s, e) == IF s = Len(p) + 1 THEN NoneLeft ELSE Split(p, s, e)
skipelem(p) == Element(p, Past(p, 1, TRUE), Past(p, Past(p, 1, TRUE), FALSE))

\* namex() takes elements until skipelem() has none.
NextElement(r, k) ==
  IF r.e.ok THEN [names |-> Append(r.names, r.e.name), e |-> skipelem(r.e.rest)] ELSE r
Elements(path) ==
  FoldLeft(NextElement, [names |-> <<>>, e |-> skipelem(path)], UpTo(Len(path) + 1)).names

-----------------------------------------------------------------------------
\* printint() with base 10, and atoi().  -xx is computed as unsigned.
Unsigned(x) == x % 2^W
Magnitude(x) == IF x < 0 THEN Unsigned(-x) ELSE x
Digits(x) ==
  LET used == {n \in 1..W : x \div 10^(n - 1) # 0}
      len == IF used = {} THEN 1 ELSE CHOOSE n \in used : \A k \in used : k <= n
  IN  [k \in 1..len |-> (x \div 10^(len - k)) % 10]
printint(x) == [neg |-> x < 0, digits |-> Digits(Magnitude(x))]
Shift(n, d) == n * 10 + d
Step(n, d) == Shift(n, d)
atoi(ds) == FoldLeft(Step, 0, ds)

-----------------------------------------------------------------------------
Moves == {<<s, d, n>> \in (1..Cells) \X (1..Cells) \X (0..Cells) : s + n <= Cells + 1 /\ d + n <= Cells + 1}
Case(kind) == [kind |-> kind, s |-> <<>>, t |-> <<>>, move |-> <<1, 1, 0>>, x |-> 0]

Init ==
  \/ input = Case("path")
  \/ \E v \in Moves : input = [Case("move") EXCEPT !.move = v]
  \/ \E x \in -(2^(W - 1))..(2^(W - 1) - 1) : input = [Case("num") EXCEPT !.x = x]

Next ==
  /\ input.kind = "path"
  /\ \E c \in Letters :
       \/ Len(input.s) < MaxPath /\ input' = [input EXCEPT !.s = Append(@, c)]
       \/ Len(input.t) < MaxName /\ input' = [input EXCEPT !.t = Append(@, c)]

Spec == Init /\ [][Next]_input

-----------------------------------------------------------------------------
Memory == [k \in 1..Cells |-> k]
Moved(v) == [k \in 1..Cells |-> IF k \in v[2]..(v[2] + v[3] - 1) THEN v[1] + k - v[2] ELSE k]

\* Both versions of memmove() copy as if at once, also when the two ranges overlap.
MoveRight ==
  input.kind = "move" => \A f \in {memmove(Memory, input.move[2], input.move[1], input.move[3]),
            user_memmove(Memory, input.move[2], input.move[1], input.move[3])} :
    f = Moved(input.move)

NoSlash(s) == \A i \in DOMAIN s : s[i] # "/"

\* A name is found in a directory under what dirlink() stored for it, and two
\* names are taken for one another exactly when their first DIRSIZ bytes agree.
NamesFound ==
  NoSlash(input.s) /\ NoSlash(input.t) =>
    /\ namecmp(input.s, SelectSeq(strncpy(input.s, DIRSIZ), LAMBDA c : c # NUL))
    /\ namecmp(input.s, input.t) <=> Cut(input.s) = Cut(input.t)

\* The elements skipelem() finds are the runs between slashes, in order.
Runs(p) == {<<i, j>> \in (1..Len(p)) \X (1..Len(p)) :
              /\ i <= j /\ NoSlash(SubSeq(p, i, j))
              /\ (i = 1 \/ p[i - 1] = "/") /\ (j = Len(p) \/ p[j + 1] = "/")}
ElementsOf(p, rs) == [k \in DOMAIN rs |-> Cut(SubSeq(p, rs[k][1], rs[k][2]))]
PathsSplit ==
  input.t = <<>> => Elements(input.s) = ElementsOf(input.s, SetToSortSeq(Runs(input.s), LAMBDA a, b : a[1] < b[1]))

\* safestrcpy() writes n bytes at most and leaves a string that is as much of
\* the source as fits.
Old == [k \in 1..(MaxPath + 1) |-> "z"]
CopyEnds ==
  input.t = <<>> => \A n \in 1..(MaxPath + 1) :
    LET b == safestrcpy(Old, input.s, n)
        end == Least({i \in DOMAIN b : b[i] = NUL} \cup {MaxPath + 2})
    IN  /\ end <= n /\ SubSeq(b, 1, end - 1) = SubSeq(input.s, 1, end - 1)
        /\ end = n \/ end = Len(input.s) + 1
        /\ \A i \in (n + 1)..(MaxPath + 1) : b[i] = "z"

\* What %d prints reads back as the number, down to the least int.
PrintsRight ==
  LET p == printint(input.x)
  IN  input.kind = "num" =>
      /\ (IF p.neg THEN -atoi(p.digits) ELSE atoi(p.digits)) = input.x
      /\ Len(p.digits) > 1 => p.digits[1] # 0
=============================================================================
