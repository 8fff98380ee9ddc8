----------------------------- MODULE MCConvFile -----------------------------
(***************************************************************************)
(* ConvFile on small instances: the input files, and the encodings that    *)
(* stand for the ones iconv knows.                                         *)
(***************************************************************************)
EXTENDS ConvFile, TLC

\* Nine texts: ASCII lines with a two byte UTF-8 character, the same with a
\* mark, UCS-2 and UCS-4 in both byte orders, one UCS-2 file with an odd byte
\* at its end, two bytes of a UTF-8 mark, a long run of ASCII, and an empty file.
AllFiles ==
    { <<65, 10, 195, 169, 66, 10>>,
      <<239, 187, 191, 65, 195, 169>>,
      <<254, 255, 0, 65, 1, 66, 0>>,
      <<255, 254, 65, 0, 66, 1>>,
      <<0, 0, 254, 255, 0, 0, 1, 65, 0, 0, 0, 66>>,
      <<255, 254, 0, 0, 65, 1, 0, 0>>,
      <<239, 187>>,
      <<65, 66, 67, 68, 69, 10>>,
      << >> }

\* One text with a short and a long chunk, and one of two byte units.
RaceFiles == {<<65, 10, 195, 169, 66>>, <<254, 255, 0, 65, 1, 66>>}

\* Two lines of two characters each.
ShortLines == {<<65, 10, 66, 10>>}

\* One line of seven characters.
LongLine == {<<65, 66, 67, 68, 69, 70, 10>>}

\* A line of text in GBK: one character whose second byte has bit 7 clear.
GbkLine == {<<129, 64, 10>>}

\* Well formed UTF-8 of one and two byte characters; any whole UCS unit.
Utf8(bom, b) ==
    IF Width(bom) > 1 THEN Len(b) % Width(bom) = 0
    ELSE \A i \in 1..Len(b) :
            /\ b[i] >= 192 => i < Len(b) /\ b[i + 1] \in 128..191
            /\ b[i] \in 128..191 => i > 1 /\ b[i - 1] >= 192

\* GBK, where the second byte of a character lies in 64..126.
Gbk(bom, b) ==
    \A i \in 1..Len(b) : b[i] >= 129 => i < Len(b) /\ b[i + 1] \in 64..126

Anything(bom, b) == TRUE

\* Every text of up to five bytes, from two of ASCII, one that continues and one
\* that starts a character.
ShortTexts == UNION {[1..n -> {10, 65, 169, 195}] : n \in 0..5}

\* Utf8 is an encoding with which no chunk border does harm, and Gbk is not.
ASSUME Utf8Splits == \A bom \in {"none", "2le"}, t \in ShortTexts : Splits(Utf8, bom, t)
ASSUME GbkDoesNot == ~Splits(Gbk, "none", <<129, 64, 10>>)

\* Callers are interchangeable, and so are the files they create.
Symmetry == Permutations(Caller) \cup Permutations(Inode)

\* linesizemax as the caller gives it.
SomeLineSizes == {-1, 3, 5}
AnyFault == {"open", "read", "seek", "create", "write", "iconv"}
=============================================================================
