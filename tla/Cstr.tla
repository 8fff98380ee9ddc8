-------------------------------- MODULE Cstr --------------------------------
(***************************************************************************)
(* The C string functions of cstrbuf.h as operators.  A C string is the    *)
(* sequence of its characters without the NUL; a function that edits its   *)
(* argument in place is the function from the old text to the new one; a   *)
(* pointer into a string is its offset, -1 for the null pointer.  A length *)
(* argument is at most the length of the string, or -1 where the code      *)
(* takes the length itself then.                                           *)
(***************************************************************************)
EXTENDS Integers, Sequences, SequencesExt, FiniteSets

CONSTANTS
    Upper, Lower,   \* toupper, tolower: functions on the characters
    Code,           \* character codes: a function on the characters
    Space,          \* the characters of isspace
    WORD,           \* 2^64, scaled down
    NUL, Null       \* the terminator, the null pointer

ASSUME SpaceAssumption == Space \subseteq DOMAIN Code /\ " " \in Space
ASSUME WordAssumption == WORD \in Nat /\ WORD % 2 = 0
\* Characters are unsigned chars that differ in their codes, none of them the NUL.
ASSUME CodeAssumption == /\ \A c \in DOMAIN Code : Code[c] \in 1..255
                         /\ \A c, d \in DOMAIN Code : Code[c] = Code[d] => c = d
ASSUME NulAssumption == NUL \notin DOMAIN Code
ASSUME LowerAssumption == \A c \in DOMAIN Lower : Lower[c] \in DOMAIN Code
ASSUME UpperAssumption ==
    /\ \A c \in DOMAIN Code \cap DOMAIN Upper : Upper[c] \in DOMAIN Code
    /\ \A c \in DOMAIN Lower \cap DOMAIN Upper :
        Upper[c] \in DOMAIN Lower /\ Lower[Upper[c]] = Lower[c]
ASSUME NullAssumption == Null \notin Seq(DOMAIN Code)

Digit == [c \in {"0", "1", "2", "3", "4", "5", "6", "7", "8", "9"} |->
            CHOOSE d \in 0..9 : ToString(d) = c]
isdigit(c) == c \in DOMAIN Digit

AtMost(a, b) == IF a < b THEN a ELSE b
First(s, n) == SubSeq(s, 1, AtMost(n, Len(s)))
From(s, at) == SubSeq(s, at + 1, Len(s))       \* the string at an offset

-----------------------------------------------------------------------------
(* Editing and trimming *)

cstr_toupper(s, num) == [i \in 1..Len(s) |-> IF i <= num THEN Upper[s[i]] ELSE s[i]]
cstr_tolower(s, num) == [i \in 1..Len(s) |-> IF i <= num THEN Lower[s[i]] ELSE s[i]]
cstr_replace_chr(s, ch, rpl) == [i \in 1..Len(s) |-> IF s[i] = ch THEN rpl ELSE s[i]]

cstr_trim_chr(s, c) == SelectSeq(s, LAMBDA x : x # c)
cstr_trim_chrs(s, chrs) == FoldLeft(cstr_trim_chr, s, Reverse(chrs))
cstr_trim_whitespace(s) == SelectSeq(s, LAMBDA x : x \notin Space)

\* s without the leading characters of a set.
DropLeading(s, cs) ==
    LET n == SelectInSeq(s, LAMBDA x : x \notin cs)
    IN  IF n = 0 THEN <<>> ELSE From(s, n - 1)

cstr_Ltrim_chr(s, ch) == DropLeading(s, {ch})
cstr_Ltrim_whitespace(s) == DropLeading(s, Space)

\* A string of nothing but ch keeps one of them.
cstr_Rtrim_chr(s, ch) ==
    LET q == SelectLastInSeq(s, LAMBDA x : x # ch)
    IN  First(s, IF q = 0 THEN AtMost(1, Len(s)) ELSE q)

cstr_LRtrim_chr(s, ch) == cstr_Rtrim_chr(cstr_Ltrim_chr(s, ch), ch)

cstr_Rtrim_whitespace(s) == First(s, SelectLastInSeq(s, LAMBDA x : x \notin Space))
cstr_LRtrim_whitespace(s) == cstr_Rtrim_whitespace(cstr_Ltrim_whitespace(s))

\* The offsets start..end moved to the first and the last character in them that
\* is no space.  The first loop stops at end, the second goes on below start.
cstr_shrink_whitespace(s, start, end) ==
    LET from == {i \in start..(end - 1) : s[i + 1] \notin Space}
        st == IF from # {} THEN CHOOSE i \in from : \A j \in from : i <= j
              ELSE IF start < end THEN end ELSE start
        to == {i \in st..end : s[i + 1] \notin Space}
        en == IF to = {} THEN st - 1 ELSE CHOOSE i \in to : \A j \in to : j <= i
    IN  <<st, en>>

-----------------------------------------------------------------------------
(* Searching *)

cstr_Lfind_chr(s, len, c) == SelectInSeq(First(s, len), LAMBDA x : x = c) - 1
cstr_Rfind_chr(s, len, c) == SelectLastInSeq(First(s, len), LAMBDA x : x = c) - 1
cstr_find_chrs(s, len, chrs) == SelectInSeq(First(s, len), LAMBDA x : x \in ToSet(chrs)) - 1

\* Two arguments can be the same pointer only when they are both null here.
cstr_notequal(a, b) == ~(a = b)

cstr_notequal_len(a, alen, b, blen) ==
    \/ alen # blen
    \/ a # Null /\ b # Null /\ First(a, alen) # First(b, alen)
    \/ (a = Null) # (b = Null)

cstr_startwith(s, count, start, startlen) ==
    \/ s = Null /\ start = Null
    \/ /\ s # Null /\ start # Null /\ startlen <= count
       /\ First(s, startlen) = First(start, startlen)

cstr_endwith(s, count, end, endlen) ==
    \/ s = Null /\ end = Null
    \/ /\ s # Null /\ end # Null /\ endlen <= count
       /\ ~cstr_notequal_len(From(s, count - endlen), endlen, end, endlen)

OffsetsShort(count, len) == 0..(count - len - 1)    \* mutant: the last one left out
\* Offsets in count characters where len characters fit.
Offsets(count, len) == 0..(count - len)

cstr_containwith(s, count, sub, sublen) ==
    LET at == {i \in Offsets(count, sublen) : First(From(s, i), sublen) = First(sub, sublen)}
    IN  IF s = Null /\ sub = Null THEN 0
        ELSE IF s = Null \/ sub = Null \/ at = {} THEN -1
        ELSE CHOOSE i \in at : \A j \in at : i <= j

\* The offset in a list of the last string that starts, or ends, s.
cstr_startwith_mul(s, count, starts) ==
    SelectLastInSeq(starts, LAMBDA x : x # Null /\ cstr_startwith(s, count, x, Len(x))) - 1
cstr_endwith_mul(s, count, ends) ==
    SelectLastInSeq(ends, LAMBDA x : x # Null /\ cstr_endwith(s, count, x, Len(x))) - 1

\* The offset of the first string that equals the first count characters of s.
cstr_findstr_in(s, count, dests, caseignore) ==
    LET n == IF count < 0 THEN Len(s) ELSE count
        Same(a, b) == IF caseignore THEN cstr_tolower(a, n) = cstr_tolower(b, n) ELSE a = b
    IN  SelectInSeq(dests, LAMBDA x : x # Null /\ Len(x) = n /\ Same(First(s, n), x)) - 1

cstr_isdigit(s, len) == \A i \in 1..len : isdigit(s[i])

-----------------------------------------------------------------------------
(* Comparing *)

Sign(n) == IF n < 0 THEN -1 ELSE IF n > 0 THEN 1 ELSE 0

\* The code of a character of a string, 0 for its NUL.
CodeAt(s, i) == IF i <= Len(s) THEN Code[s[i]] ELSE 0

\* strcmp and, for strings of length n, strncmp; with Lower, strcasecmp.
strcmp(a, b) ==
    LET diff == {i \in 1..(Len(a) + 1) : CodeAt(a, i) # CodeAt(b, i)}
        i == CHOOSE i \in diff : \A j \in diff : i <= j
    IN  IF diff = {} THEN 0 ELSE Sign(CodeAt(a, i) - CodeAt(b, i))

LengthRaw(s, len) == len                        \* mutant: -1 is taken as it is
LengthOf(s, len) == IF len < 0 THEN Len(s) ELSE len

\* Without lengths by strcmp, with lengths the shorter string first.
cstr_compare_len(a, alen, b, blen, caseignore) ==
    LET Fold(s) == IF caseignore THEN cstr_tolower(s, Len(s)) ELSE s
        n == LengthOf(a, alen)
        m == LengthOf(b, blen)
    IN  CASE a = Null /\ b = Null -> 0
          [] a = Null /\ b # Null -> -1
          [] a # Null /\ b = Null -> 1
          [] OTHER ->
                IF alen = 0 /\ blen = 0 THEN 0
                ELSE IF alen < 0 /\ blen < 0 THEN strcmp(Fold(a), Fold(b))
                ELSE IF n # m THEN Sign(n - m)
                ELSE strcmp(Fold(First(a, n)), Fold(First(b, n)))
=============================================================================
