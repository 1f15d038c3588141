---------------------------- MODULE ShellParser ----------------------------
(***************************************************************************)
(* The parser of the shell (user/sh.c): recursive descent over a line of   *)
(* characters.  "w" stands for any character of a word and " " for white   *)
(* space.  A word is the pair of the places where it begins and ends.      *)
(***************************************************************************)
EXTENDS Integers, Sequences, FiniteSets, SequencesExt

CONSTANTS MAXARGS,
          Chars, MaxLine     \* what is typed, and a bound on its length

VARIABLE line

NUL == "0"
At(s, i) == IF i <= Len(s) THEN s[i] ELSE NUL

Least(S) == CHOOSE i \in S : \A j \in S : i <= j

\* Where a run of characters of C that begins at i ends.
Past(s, i, C) == Least({j \in i..(Len(s) + 1) : At(s, j) \notin C})

Double(s, q) == s[q] = ">" /\ At(s, q + 1) = ">"
TokenEnd(s, q, c) ==
  CASE c = NUL -> q
    [] c = "w" -> Past(s, q, {"w"})
    [] c = ">" /\ Double(s, q) -> q + 2
    [] OTHER -> q + 1
Token(q, c, eq) == [tok |-> IF c = ">" /\ eq = q + 2 THEN "+" ELSE c, q |-> q, eq |-> eq]
TokenAt(s, q) == Token(q, At(s, q), TokenEnd(s, q, At(s, q)))

gettoken(s, i) == TokenAt(s, Past(s, i, {" "}))
After(s, i) == gettoken(s, i).eq
peek(s, i, toks) == At(s, Past(s, i, {" "})) \in toks

-----------------------------------------------------------------------------
\* The constructors.  panic() ends the process that parses.
execcmd(argv) == [type |-> "EXEC", argv |-> argv]
redircmd(c, file, mode) ==
  [type |-> "REDIR", cmd |-> c, file |-> file, mode |-> mode, fd |-> IF mode = "<" THEN 0 ELSE 1]
pipecmd(l, r) == [type |-> "PIPE", left |-> l, right |-> r]
listcmd(l, r) == [type |-> "LIST", left |-> l, right |-> r]
backcmd(c) == [type |-> "BACK", cmd |-> c]
panic == [type |-> "PANIC"]

-----------------------------------------------------------------------------
\* A place in the line and what was parsed up to there.
Failed(r) == r.cmd = panic
Fail(r) == [r EXCEPT !.cmd = panic]

\* The loops of parseredirs() and, unless only redirections are wanted, of
\* parseexec(): the words and redirections from a place on.
Stop(i, ok) == [seq |-> <<>>, at |-> i, ok |-> ok]
Before(x, r) == [r EXCEPT !.seq = <<x>> \o @]
Word(t, mode) == [w |-> <<t.q, t.eq>>, mode |-> mode]

Redirection(i, arrow, f, r) == IF f.tok = "w" THEN Before(Word(f, arrow), r) ELSE Stop(i, FALSE)
Argument(i, t, r) == IF t.tok = "w" THEN Before(Word(t, "w"), r) ELSE Stop(i, t.tok # "(")

Items(s, only) ==
  LET item[i \in 1..(Len(s) + 2)] ==
        IF peek(s, i, {"<", ">"})
        THEN Redirection(i, gettoken(s, i).tok, gettoken(s, After(s, i)), item[After(s, After(s, i))])
        ELSE IF only THEN Stop(i, TRUE) ELSE Argument(i, gettoken(s, i), item[After(s, i)])
  IN  item

\* Each redirection is wrapped around what was there before.
Redirect(c, items) ==
  LET around(d, x) == IF x.mode = "w" THEN d ELSE redircmd(d, x.w, x.mode)
  IN  FoldLeft(around, c, items)

Locations(ws) == [k \in 1..Len(ws) |-> ws[k].w]
Argv(items) == Locations(SelectSeq(items, LAMBDA x : x.mode = "w"))

OneMore(argc) == argc > MAXARGS
AtMost(argc) == argc >= MAXARGS
TooMany(argc) == AtMost(argc)

Simple(r, argv) ==
  [cmd |-> IF ~r.ok \/ TooMany(Len(argv)) THEN panic ELSE Redirect(execcmd(argv), r.seq), at |-> r.at]
Collected(r) == Simple(r, Argv(r.seq))
parseexec(s, i) == Collected(Items(s, FALSE)[i])

\* parseblock(), when the line in the parentheses has been parsed.
Block(s, r, t) ==
  IF Failed(r) \/ ~peek(s, r.at, {")"}) \/ ~t.ok THEN Fail(r)
  ELSE [cmd |-> Redirect(r.cmd, t.seq), at |-> t.at]
parseblock(s, r) == Block(s, r, Items(s, TRUE)[After(s, r.at)])

\* parseline() counts the & behind a pipeline.
OneBack(c, n) == IF n = 0 THEN c ELSE backcmd(c)
EachBack(c, n) == FoldLeft(LAMBDA d, k : backcmd(d), c, [k \in 1..n |-> k])
Backs(c, n) == EachBack(c, n)

Job(s, r, end) ==
  IF Failed(r) THEN r
  ELSE [cmd |-> Backs(r.cmd, Cardinality({k \in r.at..(end - 1) : At(s, k) = "&"})), at |-> end]
job(s, r) == Job(s, r, Past(s, r.at, {" ", "&"}))

\* parseline() and parsepipe(), which call each other through parseexec().
Join(s, l, c, r) ==
  IF Failed(l) \/ ~peek(s, l.at, {c}) THEN l
  ELSE IF Failed(r) THEN r
  ELSE [r EXCEPT !.cmd = IF c = ";" THEN listcmd(l.cmd, @) ELSE pipecmd(l.cmd, @)]
parseline(s, l, p) == Join(s, l, ";", p["line", After(s, l.at)])
parsepipe(s, l, p) == Join(s, l, "|", p["pipe", After(s, l.at)])

parse(s) ==
  LET p[k \in {"line", "pipe"}, i \in 1..(Len(s) + 2)] ==
        CASE k = "line" -> parseline(s, job(s, p["pipe", i]), p)
          [] k = "pipe" /\ peek(s, i, {"("}) -> parsepipe(s, parseblock(s, p["line", After(s, i)]), p)
          [] OTHER -> parsepipe(s, parseexec(s, i), p)
  IN  p["line", 1]

Whole(s, r) == IF Past(s, r.at, {" "}) = Len(s) + 1 THEN r.cmd ELSE panic
parsecmd(s) == Whole(s, parse(s))

-----------------------------------------------------------------------------
\* nulterminate() writes a NUL behind each word of the tree.
RECURSIVE WordsOf(_)
WordsOf(c) ==
  CASE c.type = "EXEC" -> {c.argv[k] : k \in DOMAIN c.argv}
    [] c.type = "REDIR" -> {c.file} \cup WordsOf(c.cmd)
    [] c.type = "BACK" -> WordsOf(c.cmd)
    [] OTHER -> WordsOf(c.left) \cup WordsOf(c.right)

EndOf(w) == w[2]
Behind(w) == EndOf(w)

nulterminate(s, c) ==
  [i \in 1..(Len(s) + 1) |-> IF \E w \in WordsOf(c) : i = Behind(w) THEN NUL ELSE At(s, i)]

-----------------------------------------------------------------------------
\* The grammar.  A token is the pair of the places where it begins and ends.
TokenEnds(s) ==
  {<<i, j>> \in (1..Len(s)) \X (2..(Len(s) + 1)) :
     /\ i < j /\ s[i] # " "
     /\ \/ s[i] = "w" /\ (\A k \in i..(j - 1) : s[k] = "w") /\ At(s, j) # "w" /\ (i > 1 => s[i - 1] # "w")
        \/ s[i] = ">" /\ LET before == {k \in 1..(i - 1) : \A l \in k..i : s[l] = ">"}
                         IN  Cardinality(before) % 2 = 0 /\ j = IF At(s, i + 1) = ">" THEN i + 2 ELSE i + 1
        \/ s[i] \notin {"w", ">"} /\ j = i + 1}

Tokens(s) == SetToSortSeq(TokenEnds(s), LAMBDA t, u : t[1] < u[1])

Sym(s, t) == IF t[2] - t[1] = 2 /\ s[t[1]] = ">" THEN "+" ELSE s[t[1]]
Arrows == {"<", ">", "+"}

\* Words, and arrows with a file each, in any order.
InOrder(K) == SetToSortSeq(K, <)
Wrapped(s, ts, words, arrows) ==
  FoldLeft(LAMBDA d, k : redircmd(d, ts[k + 1], Sym(s, ts[k])),
           execcmd([m \in DOMAIN words |-> ts[words[m]]]), arrows)
SimpleTrees(s, ts, j, arrows, K) ==
  LET files == {k + 1 : k \in arrows}
      words == K \ (arrows \cup files)
  IN  IF /\ \A k \in files \cup words : k < j /\ Sym(s, ts[k]) = "w"
         /\ Cardinality(words) < MAXARGS
      THEN {Wrapped(s, ts, InOrder(words), InOrder(arrows))}
      ELSE {}

\* The trees of the tokens from i to j - 1, as a line, a job, a pipeline, a
\* command, and a block or simple command with its redirections.
Derive(s, ts, n) ==
  LET is(k, c) == Sym(s, ts[k]) \in c
      g[as \in {"line", "job", "pipe", "cmd", "simple", "block"}, i, j \in 1..n] ==
        LET two(f(_, _), c, a, b) ==
              UNION {{f(l, r) : l \in g[a, i, k], r \in g[b, k + 1, j]} : k \in {m \in i..(j - 1) : is(m, {c})}}
            redirected(a) ==
              IF j > i + 1 /\ is(j - 1, {"w"}) /\ is(j - 2, Arrows)
              THEN {redircmd(d, ts[j - 1], Sym(s, ts[j - 2])) : d \in g[a, i, j - 2]} ELSE {}
        IN  CASE as = "line" -> g["job", i, j] \cup two(listcmd, ";", "job", "line")
              [] as = "job" -> g["pipe", i, j] \cup
                   (IF j > i /\ is(j - 1, {"&"}) THEN {backcmd(d) : d \in g["job", i, j - 1]} ELSE {})
              [] as = "pipe" -> g["cmd", i, j] \cup two(pipecmd, "|", "cmd", "pipe")
              [] as = "cmd" -> g["block", i, j] \cup g["simple", i, j]
              [] as = "block" -> redirected("block") \cup
                   (IF j > i + 1 /\ is(i, {"("}) /\ is(j - 1, {")"}) THEN g["line", i + 1, j - 1] ELSE {})
              [] OTHER ->
                   SimpleTrees(s, ts, j, {k \in i..(j - 1) : is(k, Arrows)}, i..(j - 1))
  IN  g["line", 1, n]
Trees(s) == LET ts == Tokens(s) IN Derive(s, ts, Len(ts) + 1)

-----------------------------------------------------------------------------
gets(c) == Len(line) < MaxLine /\ line' = Append(line, c)

Init == line = <<>>
Next == \E c \in Chars : gets(c)
Spec == Init /\ [][Next]_line

Result(c) == IF c = panic THEN {} ELSE {c}

\* The descent accepts a line exactly when the grammar has a tree for it, there
\* is only one, and that is what it returns: operators group as they should,
\* and no panic() is missing or too many.
ParsesGrammar ==
  Trees(line) = Result(parsecmd(line))

Intact(s, buf, ws) ==
  \A w \in ws : buf[w[2]] = NUL /\ \A i \in w[1]..(w[2] - 1) : buf[i] = s[i] /\ buf[i] = "w"
IntactIn(s, c) == c # panic => Intact(s, nulterminate(s, c), WordsOf(c))

\* The NULs written into the line destroy no word and end each of them.
WordsIntact == IntactIn(line, parsecmd(line))
=============================================================================
