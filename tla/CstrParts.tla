----------------------------- MODULE CstrParts ------------------------------
(***************************************************************************)
(* The functions of cstrbuf.h that take a string apart or put one          *)
(* together: splitting, replacing, numbers, bounded copies and lines.      *)
(***************************************************************************)
EXTENDS Cstr

(* Splitting *)

\* The text between one delimiter and the next, first to last.
Fields(s, delim) ==
    FoldLeft(LAMBDA parts, c : IF c = delim THEN Append(parts, <<>>)
                               ELSE [parts EXCEPT ![Len(parts)] = Append(@, c)],
             <<<<>>>>, s)

\* Without outstrs, the number of fields of the first len characters.
cstr_slpit_chr_count(s, len, delim) == 1 + Cardinality({i \in 1..len : s[i] = delim})

\* Mutant: the last field is lost when its slot is the last one.
cstr_slpit_chrLess(s, len, delim, maxoutnum) ==
    LET f == Fields(First(s, len), delim)
    IN  [i \in 1..AtMost(Len(f), maxoutnum - 1) |-> cstr_LRtrim_chr(f[i], " ")]

\* With outstrs, the first maxoutnum fields without the blanks around them.
cstr_slpit_chr(s, len, delim, maxoutnum) ==
    LET f == Fields(First(s, len), delim)
    IN  [i \in 1..AtMost(Len(f), maxoutnum) |-> cstr_LRtrim_chr(f[i], " ")]

\* strstr: the first place of pat at or behind a place, 0 if there is none.
strstr(s, pat, at) ==
    LET n == cstr_containwith(From(s, at - 1), Len(s) - at + 1, pat, Len(pat))
    IN  IF n < 0 THEN 0 ELSE at + n

\* s cut at every occurrence of sep, left to right.
Pieces(s, sep) ==
    LET cut[at \in 1..(Len(s) + 1)] ==
            LET p == strstr(s, sep, at)
            IN  IF p = 0 THEN <<From(s, at - 1)>>
                ELSE <<SubSeq(s, at, p - 1)>> \o cut[p + Len(sep)]
    IN  cut[1]

cstr_split_substr(s, sep, maxsubs) == First(Pieces(s, sep), AtMost(Len(Pieces(s, sep)), maxsubs))

\* A later piece begins with the separator that ended the piece before it; pieces
\* of nothing but spaces are left out.  The loop over the characters, with the
\* offset where the piece at hand starts; a full result ends it.
cstr_split_multi_chrs(s, slen, sepchrs, maxsubs) ==
    LET Cut(acc, end) ==
            LET at == cstr_shrink_whitespace(s, acc.start, end - 1)
            IN  IF Len(acc.subs) = maxsubs THEN acc
                ELSE [start |-> end,
                      subs |-> IF at[1] > at[2] THEN acc.subs
                               ELSE Append(acc.subs, SubSeq(s, at[1] + 1, at[2] + 1))]
        Step(acc, i) == IF s[i + 1] \in ToSet(sepchrs) /\ i > acc.start THEN Cut(acc, i) ELSE acc
        end == FoldLeft(Step, [start |-> 0, subs |-> <<>>], [i \in 1..slen |-> i - 1])
    IN  (IF slen > end.start THEN Cut(end, slen) ELSE end).subs

-----------------------------------------------------------------------------
(* Replacing *)

\* What the second loop of cstr_replace_new writes.
Replaced(s, pat, rpl) ==
    LET copy[at \in 1..(Len(s) + 1)] ==
            LET p == strstr(s, pat, at)
            IN  IF p = 0 THEN From(s, at - 1)
                ELSE SubSeq(s, at, p - 1) \o rpl \o copy[p + Len(pat)]
    IN  copy[1]

\* Mutant: occurrences that overlap are counted.
CountAll(s, pat) ==
    Cardinality({i \in 1..Len(s) : cstr_startwith(From(s, i - 1), Len(s) - i + 1, pat, Len(pat))})

\* The number of its rounds, which the first loop counts.
CountOf(s, pat) ==
    LET count[at \in 1..(Len(s) + 1)] ==
            LET p == strstr(s, pat, at) IN IF p = 0 THEN 0 ELSE 1 + count[p + Len(pat)]
    IN  count[1]

\* The new text with the size allocated for it, which is also returned.  An empty
\* pattern would be found for ever in the same place: no caller may pass one.
cstr_replace_new(s, pat, rpl) ==
    LET n == CountOf(s, pat)
    IN  IF n = 0 THEN [len |-> 0, outresult |-> Null]
        ELSE [len |-> Len(s) + n * (Len(rpl) - Len(pat)), outresult |-> Replaced(s, pat, rpl)]

-----------------------------------------------------------------------------
(* Numbers *)

cstr_isnumeric(s, len) ==
    LET t == cstr_LRtrim_whitespace(s)
        n == IF len = -1 THEN Len(t) ELSE AtMost(len, Len(t))
        from == IF n > 0 /\ t[1] \in {"+", "-"} THEN 2 ELSE 1
    IN  /\ n >= 1 /\ n <= 40
        /\ \A i \in from..n : isdigit(t[i]) \/ t[i] = "."
        /\ Cardinality({i \in from..n : t[i] = "."}) <= 1

\* strtoll and strtoull in base 10: spaces, a sign, then as many digits as come.
Leading(s) == cstr_Ltrim_whitespace(s)
Unsigned(s) == IF s # <<>> /\ s[1] \in {"+", "-"} THEN Tail(s) ELSE s
Digits(s) == LET n == SelectInSeq(s, LAMBDA c : ~isdigit(c)) IN IF n = 0 THEN s ELSE First(s, n - 1)
Number(s) ==
    LET v == FoldLeft(LAMBDA n, c : 10 * n + Digit[c], 0, Digits(Unsigned(Leading(s))))
    IN  IF Leading(s) # <<>> /\ Leading(s)[1] = "-" THEN -v ELSE v
NoDigits(s) == Digits(Unsigned(Leading(s))) = <<>>

\* Mutant: all of the string is read, whatever its length argument says.
TakenAll(s, slen) == s
\* The part of the string that is read: a copy where no NUL stands behind it.
Taken(s, slen) == IF slen = -1 \/ slen = Len(s) THEN s ELSE First(s, slen)

\* The result and the number; null or empty is 0, and what follows the digits is
\* not looked at.
cstr_to_sb8(s, slen) ==
    LET t == Taken(s, slen)
        v == Number(t)
        half == WORD \div 2
    IN  IF s = Null \/ slen = 0 THEN <<0, 0>>
        ELSE IF NoDigits(t) THEN <<-1, 0>>
        ELSE IF v >= half THEN <<-1, half - 1>>
        ELSE IF v < -half THEN <<-1, -half>>
        ELSE <<1, v>>

\* strtoull takes a sign and wraps what it finds behind it.
cstr_to_ub8(s, slen) ==
    LET t == Taken(s, slen)
        v == Number(t)
    IN  IF s = Null \/ slen = 0 THEN <<0, 0>>
        ELSE IF NoDigits(t) THEN <<-1, 0>>
        ELSE IF v >= WORD \/ v <= -WORD THEN <<-1, WORD - 1>>
        ELSE <<1, v % WORD>>

\* strtod wants a digit on either side of the point; only the result is modelled.
cstr_to_dbl(s, slen) ==
    LET u == Unsigned(Leading(Taken(s, slen)))
        whole == Digits(u)
        rest == From(u, Len(whole))
    IN  IF s = Null \/ slen = 0 THEN 0
        ELSE IF whole # <<>> \/ (Len(rest) > 1 /\ rest[1] = "." /\ isdigit(rest[2])) THEN 1 ELSE -1

-----------------------------------------------------------------------------
(* Bounded copies and lines *)

\* buf with its bytes from offset on written over by t.
Over(buf, offset, t) == First(buf, offset) \o t \o From(buf, offset + Len(t))

FitsAll(size, offset, n) == offset + n <= size     \* mutant: no byte for the NUL
Fits(size, offset, n) == offset + n < size

\* The copy fits with its NUL; or what fits is copied, the last three places in
\* front of the NUL become dots, and the last byte the NUL.
cstr_safecopy(buf, offset, src) ==
    LET size == Len(buf)
        part == IF offset < size THEN Over(buf, offset, First(src, size - offset)) ELSE buf
        dots == IF offset < size /\ size > 3 THEN Over(part, size - 4, <<".", ".", ".">>) ELSE part
    IN  IF Fits(size, offset, Len(src))
        THEN [ok |-> TRUE, buf |-> Over(buf, offset, Append(src, NUL))]
        ELSE [ok |-> FALSE, buf |-> [dots EXCEPT ![size] = NUL]]

\* snprintf with a precision, which keeps room for the NUL.
cstr_copybuf(size, src) == First(src, size - 1)
cstr_copybuf_len(size, src, srclen) == First(src, IF srclen < size THEN srclen ELSE size - 1)

\* The length and the value of a variable behind a prefix, -1 if they do not fit, 0 if
\* there is none.  What is longer than the buffer is cut to its size first.
getenv_with_prefix(env, prefix, size) ==
    LET value == First(prefix, size) \o First(env, size)
    IN  IF env = Null THEN <<0, <<>>>>
        ELSE IF Len(value) < size THEN <<Len(value), value>> ELSE <<-1, <<>>>>

Bom == <<"EF", "BB", "BF">>
LineNoise == {"\r", "\n", "\\"}

\* One line of a file from an offset on: what the caller gets, the offset behind
\* it, and -1 only at the end of the file.  What exceeds maxlen is read and lost.
cstr_readline(file, offset, maxlen, ignore) ==
    LET at == IF offset = 0 /\ IsPrefix(Bom, file) THEN 3 ELSE offset
        rest == From(file, at)
        n == SelectInSeq(rest, LAMBDA c : c = "\n")
        read == IF n = 0 THEN rest ELSE First(rest, n)
        kept == SelectSeq(read, LAMBDA c : c \notin LineNoise /\ ~(ignore /\ c \in Space))
        line == First(kept, AtMost(Len(kept), maxlen))
    IN  [len |-> IF n = 0 /\ line = <<>> THEN -1 ELSE Len(line),
         line |-> line, offset |-> at + Len(read)]
=============================================================================
