------------------------------ MODULE Cstrbuf ------------------------------
(***************************************************************************)
(* The growing string buffer of cstrbuf.h: a block of maxsz bytes of which *)
(* len are in use.  Every operation is a function from the buffer to the   *)
(* buffer the caller has to use from then on.  Null is the null pointer;   *)
(* Junk stands for a byte that malloc or realloc left as it was.           *)
(***************************************************************************)
EXTENDS Integers, Sequences

CONSTANTS
    Char,       \* characters a client writes
    Str,        \* texts a client hands in
    MaxSz,      \* values of maxsz for cstrbufNew; -1 is cstrbuf_error_size_len
    MAXLEN,     \* bound on the length of the client's text
    BLOCK,      \* cstr_allocate_blocksize
    NUL, Junk, Null

ASSUME StrAssumption == Str \subseteq Seq(Char)
ASSUME SizeAssumption == BLOCK \in Nat \ {0} /\ MAXLEN \in Nat /\ MaxSz \subseteq Nat \cup {-1}
ASSUME CharAssumption == NUL \notin Char /\ Junk \notin Char /\ NUL # Junk

\* What a block may hold, and a block with its sizes.
Byte == Char \cup {NUL, Junk}
Buffer == [maxsz : Nat, len : Nat, str : Seq(Byte)]

ASSUME NullAssumption == Null \notin Buffer /\ Null \notin Seq(Char)

VARIABLES
    csb,    \* the client's buffer
    op      \* its last call, with the arguments

bufVars == <<csb, op>>

Fill(c, n) == [i \in 1..n |-> c]

alignsizeDown(n) == (n \div BLOCK) * BLOCK    \* mutant: rounded down
alignsize(n) == ((n + BLOCK) \div BLOCK) * BLOCK

\* The block with t written behind its first n bytes; what lay behind is kept.
Write(str, n, t) ==
    SubSeq(str, 1, n) \o t \o SubSeq(str, n + Len(t) + 1, Len(str))

\* The bytes in use, and the C string a caller of strlen sees.
Value(b) == IF b = Null THEN <<>> ELSE SubSeq(b.str, 1, b.len)
Terminated(b) == b.str[b.len + 1] = NUL

cstrbufNew(maxsz, s) ==
    LET size == CASE maxsz = 0 -> Len(s) + 1
                  [] maxsz = -1 \/ (maxsz > 0 /\ maxsz <= Len(s)) -> alignsize(Len(s) + 1)
                  [] OTHER -> alignsize(maxsz)
    IN  [maxsz |-> size, len |-> Len(s), str |-> s \o Fill(NUL, size - Len(s))]

\* The formatted text s goes behind the text in use, in a larger block when it
\* and its NUL do not fit.
cstrbufCat(b, s) ==
    IF b = Null THEN [cstrbufNew(Len(s) + 1, <<>>) EXCEPT !.len = Len(s), !.str = Write(@, 0, s)]
    ELSE LET n == b.len + Len(s)
             size == alignsize(n + 1)
         IN  IF n < b.maxsz
             THEN [b EXCEPT !.len = n, !.str = Write(@, b.len, Append(s, NUL))]
             ELSE [maxsz |-> size, len |-> n,
                   str |-> Value(b) \o s \o <<NUL>> \o Fill(Junk, size - n - 1)]

\* vsnprintf fails: the text stays as it was.
cstrbufCatError(b) == [b EXCEPT !.str = Write(@, b.len, <<NUL>>)]

\* Mutant: no NUL where the text ends now.
cstrbufTruncLen(b, n) == IF b.len > n THEN [b EXCEPT !.len = n] ELSE b

cstrbufTrunc(b, n) ==
    IF b.len > n THEN [b EXCEPT !.len = n, !.str = Write(@, n, <<NUL>>)] ELSE b

\* A new buffer with two texts one behind the other.  The loop takes any number
\* of buffers; every caller passes two.
cstrbufConcat(b1, b2) == cstrbufCat(cstrbufCat(Null, Value(b1)), Value(b2))

\* Assign, in the same block if s fits.
cstrbufDup(b, s) ==
    CASE b = Null -> cstrbufNew(0, s)
      [] b # Null /\ s = <<>> -> [b EXCEPT !.len = 0, !.str = Write(@, 0, <<NUL>>)]
      [] b # Null /\ s # <<>> /\ b.maxsz > Len(s) ->
            [b EXCEPT !.len = Len(s), !.str = Write(@, 0, Append(s, NUL))]
      [] OTHER -> cstrbufNew(0, s)

RestAll(s, i, n) == SubSeq(s, i + 1, Len(s))    \* mutant: length left out
\* endstr of cstrbufSub.
Rest(s, i, n) == SubSeq(s, i + n + 1, Len(s))

\* A new buffer with the text s of which n bytes behind the first i are replaced by t.
cstrbufSub(s, i, n, t) ==
    LET result == cstrbufNew(Len(s) - n + Len(t) + 1, SubSeq(s, 1, i))
    IN  [result EXCEPT !.len = Len(s) - n + Len(t),
                       !.str = Write(@, i, t \o Rest(s, i, n) \o <<NUL>>)]

\* The fast path writes the character and no NUL behind it.
cstrbufPushBack(b, c) ==
    IF b # Null /\ b.len + 1 < b.maxsz
    THEN [b EXCEPT !.len = @ + 1, !.str = Write(@, b.len, <<c>>)]
    ELSE cstrbufCat(b, <<c>>)

\* Mutant: the NUL counts as a character of the text.
CharAtSafeEnd(b, at) == IF b # Null /\ at >= 0 /\ at <= b.len THEN b.str[at + 1] ELSE Null

\* Where cstrbufCharAtSafe gives an address.
CharAtSafe(b, at) == IF b # Null /\ at >= 0 /\ at < b.len THEN b.str[at + 1] ELSE Null

-----------------------------------------------------------------------------
(***************************************************************************)
(* A client with one buffer: any sequence of legal calls.                  *)
(***************************************************************************)
BufInit == csb = Null /\ op = <<"none">>

Bounded(n) == n <= MAXLEN
Call(name, s) == op' = <<name, s>>

New ==      /\ csb = Null
            /\ \E m \in MaxSz, s \in Str : Call("new", s) /\ csb' = cstrbufNew(m, s)
Cat ==      \E s \in Str : /\ Bounded(Len(Value(csb)) + Len(s))
                           /\ Call("cat", s) /\ csb' = cstrbufCat(csb, s)
CatError == csb # Null /\ Call("cat", <<>>) /\ csb' = cstrbufCatError(csb)
Trunc ==    /\ csb # Null
            /\ \E n \in 0..MAXLEN : Call("trunc", n) /\ csb' = cstrbufTrunc(csb, n)
Concat ==   /\ csb # Null /\ Bounded(2 * csb.len)
            /\ Call("concat", <<>>) /\ csb' = cstrbufConcat(csb, csb)
Dup ==      \E s \in Str : Call("dup", s) /\ csb' = cstrbufDup(csb, s)
Sub ==      /\ csb # Null
            /\ \E i, n \in 0..csb.len, t \in Str :
                /\ i + n <= csb.len /\ Bounded(csb.len - n + Len(t))
                /\ Call("sub", <<i, n, t>>) /\ csb' = cstrbufSub(Value(csb), i, n, t)
PushBack == /\ Bounded(Len(Value(csb)) + 1)
            /\ \E c \in Char : /\ <<c>> \in Str
                              /\ Call("push", <<c>>) /\ csb' = cstrbufPushBack(csb, c)
Free ==     csb # Null /\ Call("free", <<>>) /\ csb' = Null

BufNext == New \/ Cat \/ CatError \/ Trunc \/ Concat \/ Dup \/ Sub \/ PushBack \/ Free

BufSpec == BufInit /\ [][BufNext]_bufVars

-----------------------------------------------------------------------------
(***************************************************************************)
(* Properties                                                              *)
(***************************************************************************)

\* There is always a byte for the NUL, and no byte outside the block is used.
BufTypeOK ==
    csb # Null =>
        /\ csb.maxsz \in Nat /\ csb.len \in 0..(csb.maxsz - 1)
        /\ csb.str \in Seq(Char \cup {NUL, Junk}) /\ Len(csb.str) = csb.maxsz

\* No sequence of calls lets an uninitialised byte, a NUL or a byte of an older
\* text come into the text in use; CharAtSafe gives characters of the text only.
OnlyWritten ==
    /\ \A i \in 1..Len(Value(csb)) : csb.str[i] \in Char
    /\ \A at \in -1..(MAXLEN + 1) : CharAtSafe(csb, at) \in Char \cup {Null}

\* Every call that changes the buffer, but for cstrbufPushBack, leaves a C string
\* behind, also when it found none: the fast path of cstrbufPushBack can leave the
\* rest of a text that was cut off, or bytes of a fresh block, behind the last
\* character, and a cstrbufTrunc that has nothing to cut leaves that as it is.
TerminatesText ==
    [][csb' # Null /\ csb' # csb /\ op'[1] # "push" => Terminated(csb')]_bufVars

\* To its client the buffer is a text, and every call does to the text what it
\* says, whatever calls were made before.
Abs == INSTANCE CstrbufAbs
            WITH text <- IF csb = Null THEN Null ELSE Value(csb), NoText <- Null,
                 Cuts <- 0..MAXLEN
ImplementsText == Abs!Spec

-----------------------------------------------------------------------------
(***************************************************************************)
(* The inductive invariant                                                 *)
(***************************************************************************)

\* The buffer b holds the text t, with room for a NUL.
Holds(b, t) ==
    /\ b \in Buffer /\ t \in Seq(Char)
    /\ Len(b.str) = b.maxsz
    /\ b.len = Len(t) /\ Len(t) < b.maxsz
    /\ \A i \in 1..Len(t) : b.str[i] = t[i]

BufInv == csb = Null \/ Holds(csb, Value(csb))
=============================================================================
