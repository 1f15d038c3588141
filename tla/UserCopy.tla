------------------------------ MODULE UserCopy ------------------------------
(***************************************************************************)
(* How the kernel reads user memory and builds the stack of a new program: *)
(* walkaddr, copyin and copyinstr (kernel/vm.c), fetchaddr                 *)
(* (kernel/syscall.c), the arguments in sys_exec (kernel/sysfile.c) and    *)
(* exec (kernel/exec.c), as operators.  Addresses have W bits.             *)
(***************************************************************************)
EXTENDS Integers, Sequences, SequencesExt, FiniteSets

CONSTANTS PG,         \* PGSIZE
          NPG,        \* pages below MAXVA
          W,
          WORD,       \* sizeof(uint64)
          ALIGN,      \* of sp
          MAXARG,
          Lens,       \* of copies
          ArgLens     \* of arguments, with their NUL

VARIABLE req      \* what is asked of the operators

MAXVA == PG * NPG
Wrap(a) == a % 2^W
NUL == "0"
Absent == [v |-> FALSE, u |-> FALSE, byte |-> <<>>]
UserPage(b) == [v |-> TRUE, u |-> TRUE, byte |-> b]
NoNul == [k \in 1..PG |-> "a"]
Guard == [v |-> TRUE, u |-> FALSE, byte |-> NoNul]
PageKinds == {Absent, Guard, UserPage(NoNul)} \cup {UserPage([NoNul EXCEPT ![k] = NUL]) : k \in {1, PG \div 2, PG}}
UpTo(n) == [k \in 1..n |-> k]
Offset(va) == va % PG
Smaller(a, b) == IF a < b THEN a ELSE b

-----------------------------------------------------------------------------
\* walkaddr() finds a user page below MAXVA.
walkaddr(mem, va) == va < MAXVA /\ mem[va \div PG].v /\ mem[va \div PG].u

\* One round of the loop of copyin(): what is left of a page, or of len.
WholePage(off, len) == PG - off
UpToLen(off, len) == Smaller(PG - off, len)
Amount(off, len) == UpToLen(off, len)

InPage(mem, va, n) == SubSeq(mem[va \div PG].byte, Offset(va) + 1, Offset(va) + n)
NextPage(va) == Wrap(va - Offset(va) + PG)
Chunk(mem, r) ==
  IF ~r.ok \/ r.len <= 0 THEN r
  ELSE IF ~walkaddr(mem, r.va) THEN [r EXCEPT !.ok = FALSE]
  ELSE [r EXCEPT !.got = @ \o InPage(mem, r.va, Amount(Offset(r.va), r.len)),
                 !.len = @ - Amount(Offset(r.va), r.len), !.va = NextPage(@)]
copyin(mem, va, len) ==
  FoldLeft(LAMBDA r, k : Chunk(mem, r), [ok |-> TRUE, len |-> len, va |-> va, got |-> <<>>], UpTo(len))

\* copyinstr() stops at the first NUL of a page.
ToNul(s) == LET nuls == {i \in DOMAIN s : s[i] = NUL}
            IN  IF nuls = {} THEN s ELSE SubSeq(s, 1, CHOOSE i \in nuls : \A j \in nuls : i <= j)
GotNul(r) == r.got # <<>> /\ r.got[Len(r.got)] = NUL
StringChunk(mem, r) ==
  IF ~r.ok \/ GotNul(r) \/ r.len <= 0 THEN r
  ELSE IF ~walkaddr(mem, r.va) THEN [r EXCEPT !.ok = FALSE]
  ELSE [r EXCEPT !.got = @ \o ToNul(InPage(mem, r.va, Amount(Offset(r.va), r.len))),
                 !.len = @ - Amount(Offset(r.va), r.len), !.va = NextPage(@)]
StringRead(mem, va, max) ==
  FoldLeft(LAMBDA r, k : StringChunk(mem, r), [ok |-> TRUE, len |-> max, va |-> va, got |-> <<>>], UpTo(max))
copyinstr(mem, va, max) ==
  LET r == StringRead(mem, va, max) IN [ok |-> r.ok /\ GotNul(r), got |-> r.got]

\* fetchaddr(): the sum may wrap.
BothTests(addr, sz) == addr >= sz \/ Wrap(addr + WORD) > sz
Outside(addr, sz) == BothTests(addr, sz)
fetchaddr(mem, addr, sz) ==
  IF Outside(addr, sz) THEN [ok |-> FALSE, got |-> <<>>] ELSE copyin(mem, addr, WORD)

-----------------------------------------------------------------------------
\* sys_exec() copies each argument to a page of its own, until the NULL in
\* argv.  room is the number of pages kalloc() has; an argument of length 0 is
\* one fetchstr() fails for, NoWord a place of argv that fetchaddr() fails for.
NoWord == -1
NoRoom(i) == i >= MAXARG
TooMany(i) == NoRoom(i)
FetchArg(args, room, r, i) ==
  CASE r.end # "" -> r
    [] r.end = "" /\ TooMany(i) -> [r EXCEPT !.end = "bad"]
    [] r.end = "" /\ ~TooMany(i) /\ i >= Len(args) -> [r EXCEPT !.end = "null"]
    [] r.end = "" /\ ~TooMany(i) /\ i < Len(args) /\ (args[i + 1] = NoWord \/ i >= room) -> [r EXCEPT !.end = "bad"]
    [] OTHER -> [argv |-> Append(r.argv, args[i + 1]), end |-> IF args[i + 1] = 0 THEN "bad" ELSE ""]
sys_exec(args, room) ==
  FoldLeft(LAMBDA r, k : FetchArg(args, room, r, k - 1), [argv |-> <<>>, end |-> ""], UpTo(Len(args) + 2))

\* exec() pushes the strings, with their NULs, and then the pointers to them.
Aligned(a) == a - (a % ALIGN)
Push(sp, n) == Aligned(Wrap(sp - n))
PushArg(base, r, n) ==
  IF r.bad \/ Len(r.ustack) >= MAXARG THEN [r EXCEPT !.bad = TRUE]
  ELSE IF Push(r.sp, n) < base THEN [r EXCEPT !.bad = TRUE]
  ELSE [r EXCEPT !.sp = Push(r.sp, n), !.ustack = Append(@, Push(r.sp, n))]
Strings(argv, sz) ==
  FoldLeft(LAMBDA r, n : PushArg(sz - PG, r, n), [sp |-> sz, ustack |-> <<>>, bad |-> FALSE], argv)
Pointers(r, sz) ==
  LET sp == Push(r.sp, (Len(r.ustack) + 1) * WORD)
  IN  IF r.bad \/ sp < sz - PG THEN [r EXCEPT !.bad = TRUE] ELSE [r EXCEPT !.sp = sp]
exec(argv, sz) == Pointers(Strings(argv, sz), sz)

-----------------------------------------------------------------------------
Top == 2 * PG      \* sz of a small program: a guard page and the stack
Ask(kind) == [kind |-> kind, mem |-> [p \in 0..(NPG - 1) |-> Absent], va |-> 0, n |-> 0, args |-> <<>>]
Full == [p \in 0..(NPG - 1) |-> UserPage(NoNul)]

Init ==
  \/ \E mem \in [0..(NPG - 1) -> PageKinds], va \in 0..(MAXVA + 1), n \in Lens :
       req = [Ask("copy") EXCEPT !.mem = mem, !.va = va, !.n = n]
  \/ \E va \in 0..(2^W - 1), sz \in 0..MAXVA : req = [Ask("fetch") EXCEPT !.mem = Full, !.va = va, !.n = sz]
  \/ \E room \in 0..(MAXARG + 1) : req = [Ask("exec") EXCEPT !.n = room]

\* One more argument of a program that calls exec.
argument(len) ==
  /\ req.kind = "exec" /\ Len(req.args) <= MAXARG
  /\ req' = [req EXCEPT !.args = Append(@, len)]
Next == \E len \in ArgLens \cup {NoWord} : argument(len)

Spec == Init /\ [][Next]_req

-----------------------------------------------------------------------------
Mapped(a) == a < MAXVA /\ req.mem[a \div PG].v /\ req.mem[a \div PG].u
ByteAt(a) == req.mem[a \div PG].byte[Offset(a) + 1]
AllMapped(n) == \A k \in 0..(n - 1) : Mapped(req.va + k)
Range0(n) == [k \in 1..n |-> ByteAt(req.va + k - 1)]
IsString(n) == AllMapped(n) /\ ByteAt(req.va + n - 1) = NUL /\ \A k \in 0..(n - 2) : ByteAt(req.va + k) # NUL

\* copyin() and copyinstr() read the bytes a user program would read at these
\* addresses, across pages, and fail exactly when it could not, or when no NUL
\* comes within max bytes.
CopyRight ==
  req.kind = "copy" =>
    LET c == copyin(req.mem, req.va, req.n)
        s == copyinstr(req.mem, req.va, req.n)
    IN  /\ c.ok <=> AllMapped(req.n)
        /\ c.ok => c.got = Range0(req.n)
        /\ s.ok <=> \E n \in 1..req.n : IsString(n)
        /\ s.ok => IsString(Len(s.got)) /\ s.got = Range0(Len(s.got))

\* fetchaddr() reads a word that lies wholly below sz, also at the top of the
\* address space.
FetchRight ==
  req.kind = "fetch" =>
    (fetchaddr(req.mem, req.va, req.n).ok <=> req.va + WORD <= req.n)

Block(a, n) == a..(a + n - 1)

\* A program starts with its strings and the array of pointers side by side
\* on the stack page and aligned; the NULL behind the pointers is still in
\* ustack[MAXARG].
ArgsRight ==
  req.kind = "exec" =>
    LET a == sys_exec(req.args, req.n)
        e == exec(a.argv, Top)
        argc == Len(e.ustack)
    IN  /\ a.end # ""
        /\ a.end = "null" => Len(a.argv) < MAXARG
        /\ a.end = "null" /\ ~e.bad =>
             /\ argc < MAXARG /\ e.sp % ALIGN = 0 /\ e.sp >= Top - PG
             /\ \A i \in 1..argc :
                  /\ e.ustack[i] % ALIGN = 0 /\ Block(e.ustack[i], a.argv[i]) \subseteq (Top - PG)..(Top - 1)
                  /\ Block(e.sp, (argc + 1) * WORD) \cap Block(e.ustack[i], a.argv[i]) = {}
                  /\ \A j \in 1..(i - 1) : Block(e.ustack[i], a.argv[i]) \cap Block(e.ustack[j], a.argv[j]) = {}
=============================================================================
