------------------------------ MODULE ConvXml ------------------------------
(***************************************************************************)
(* XML in convd.c: finding the head <?xml ... ?> of a text or of a file in *)
(* any byte order, writing a head, and the two conversions that replace    *)
(* the head by one that names the target encoding.                         *)
(*                                                                         *)
(* A text is a sequence of tokens: "decl" is <?xml and a blank, "version", *)
(* the "ver..." and the "enc..." are whole attributes, "?" and ">" are     *)
(* single characters, "text" is anything else.  A character of two or four *)
(* bytes is told by its low byte, as the scan does (convd.c:195): U+013E   *)
(* is a ">" too.  No character has the low byte NUL.  Weight gives length  *)
(* in characters, so that lengths are those of the code (headbuf[128], the *)
(* 112 bytes XML_file_parse_head reads, the 20 characters of a minimal     *)
(* head).  A text of n characters has MarkLen + n * Unit bytes.            *)
(*                                                                         *)
(* A version is told by the length of its value, because it is copied      *)
(* without a bound into xmlhead->version[16], in front of                  *)
(* xmlhead->encoding[64]: "verEmpty" has none, "verShort" one character,   *)
(* "version" 2 to 15, "verFull" 16, "verFrom", "verOther" and "verTo" 17   *)
(* to 79 (from the 17th on it is the name of an encoding), "verBig" more.  *)
(***************************************************************************)
EXTENDS Integers, Sequences, SequencesExt, FiniteSets

CONSTANTS
    Texts,      \* the texts to be parsed, as sequences of tokens
    Weight,     \* [Token -> Nat]: characters of a token
    Room,       \* values of output->blen; room for a mark, which is written first
    BodySize,   \* bytes that iconv makes of the text behind the head
    Tocode,     \* target encodings: [ansi, attribute]
    HEADBUF,    \* sizeof(headbuf) = 128
    FILEHEAD    \* CVD_ENCODING_LEN_MAX + 16 + 32 = 112

Versions == {"verEmpty", "verShort", "version", "verFull", "verFrom", "verOther", "verTo",
             "verBig"}
Encodings == {"encFrom", "encOther", "encTo", "encLong"}    \* encLong: 64 characters or more
Token == {"decl", "?", ">", "text"} \cup Versions \cup Encodings
Bom == {"none", "utf8", "2be", "2le", "4be", "4le"}

ASSUME TextAssumption == Texts \subseteq Seq(Token) /\ Weight \in [Token -> Nat \ {0}]
ASSUME SizeAssumption == /\ Room \subseteq Nat \ 0..2 /\ BodySize \subseteq Nat
                         /\ HEADBUF \in Nat \ {0} /\ FILEHEAD \in Nat
\* ansi: the name starts with one of the five names convd_conv_xmltext tests;
\* attribute: the token that names it in a head.
ASSUME TocodeAssumption ==
    Tocode \subseteq [ansi : BOOLEAN, attribute : Encodings \ {"encLong"}]

VARIABLES
    op,         \* the call: "text", "file", or "format" followed by a parse
    input,      \* its text: [bom, tokens]
    tocode,     \* convd_tocode(cvd)
    room,       \* output->blen
    blen,       \* xmltext->blen
    pc,
    k,          \* tokens in headbuf
    headlen,    \* characters in headbuf
    offset,     \* bytes of xmltext read
    found,
    xmlhead,    \* *xmlhead
    out,        \* the output: [head, size, from], from = first input byte converted
    ret

call == <<op, input, tocode, room>>
scan == <<k, headlen, offset, found>>
vars == <<call, blen, pc, scan, xmlhead, out, ret>>

CONVD_NOERROR      == 0
CONVD_ERR_ENCODING == 4
CONVD_ERR_ICONV    == -1
CONVD_ERR_FILE     == -2

MinOf(a, b) == IF a <= b THEN a ELSE b

\* The characters of a sequence of tokens, each with its token and its place
\* there, and their number.
Characters(s) == UNION {{i} \X (1..Weight[s[i]]) : i \in 1..Len(s)}
Chars(s) == Cardinality(Characters(s))

\* Bytes of a mark, and of a character behind it.
MarkLen(bom) == CASE bom = "none" -> 0 [] bom = "utf8" -> 3
                  [] bom \in {"2be", "2le"} -> 2 [] OTHER -> 4
Unit(bom) == CASE bom \in {"none", "utf8"} -> 1 [] bom \in {"2be", "2le"} -> 2 [] OTHER -> 4

Bytes(text) == MarkLen(text.bom) + Unit(text.bom) * Chars(text.tokens)

-----------------------------------------------------------------------------
(***************************************************************************)
(* conv_xmlhead_format                                                     *)
(***************************************************************************)
XmlHead == [bom : Bom, version : {"empty", "given", "open"}, encoding : Encodings \cup {"empty"}]
NoHead == [bom |-> "none", version |-> "empty", encoding |-> "empty"]

HeadTokens(version, encoding) == <<"decl", version, encoding, "?", ">">>

\* The version that is printed: one without a NUL of its own runs on into the
\* encoding.
PrintedVersion(version, encoding) ==
    CASE version = "empty" -> "verEmpty"
      [] version = "given" -> "version"
      [] encoding = "encFrom" -> "verFrom"
      [] encoding = "encOther" -> "verOther"
      [] OTHER -> "verTo"

PrintedHead(version, encoding) == HeadTokens(PrintedVersion(version, encoding), encoding)

\* A printed head is longer than the parser asks for, and one for an ansi target
\* fits the buffer of convd_conv_xmlfile.
ASSUME PrintedAssumption ==
    \A version \in {"verEmpty", "verShort", "version"} : Chars(HeadTokens(version, "encFrom")) > 20
ASSUME AnsiAssumption ==
    \A t \in Tocode, version \in {"empty", "given", "open"} :
        t.ansi => Chars(PrintedHead(version, t.attribute)) < 128

\* Mutant: room for one byte more than needed is asked for.
FormatTight(bom, head, blen_) ==
    LET n == Bytes([bom |-> bom, tokens |-> head]) IN IF n + 1 < blen_ THEN n ELSE 0

\* Mutant: the mark is written but not counted.
FormatNoMark(bom, head, blen_) ==
    LET n == Bytes([bom |-> bom, tokens |-> head]) IN IF n < blen_ THEN n - MarkLen(bom) ELSE 0

\* Bytes written of the head that was printed, or 0 when they do not fit.  One
\* byte of room stays free.  Only the copy of a single byte head writes (and
\* counts) a final NUL.
conv_xmlhead_format(bom, head, blen_) ==
    LET n == Bytes([bom |-> bom, tokens |-> head]) IN IF n < blen_ THEN n ELSE 0

(***************************************************************************)
(* XML_text_parse_head, behind the scan                                    *)
(***************************************************************************)
IsVersion(t) == t \in Versions
IsEncoding(t) == t \in Encodings

FirstVersion(s) == s[SelectInSeq(s, IsVersion)]

\* The first encoding attribute, if its value fits xmlhead->encoding.
FirstEncoding(s) ==
    LET at == SelectInSeq(s, IsEncoding)
    IN  IF at = 0 \/ s[at] = "encLong" THEN "empty" ELSE s[at]

\* What the copy of a version leaves in xmlhead->version: nothing of a value of
\* one character; "open" is 16 characters and no NUL.
VersionMember(v) ==
    CASE v \in {"verEmpty", "verShort"} -> "empty" [] v = "version" -> "given" [] OTHER -> "open"

\* What the copy of a version leaves in xmlhead->encoding.
RunsOn(v) ==
    CASE v = "verFrom" -> "encFrom" [] v = "verOther" -> "encOther" [] v = "verTo" -> "encTo"
      [] OTHER -> "empty"

IsHead(s) ==
    /\ Chars(s) > 20
    /\ s[1] = "decl"
    /\ s[Len(s)] = ">" /\ s[Len(s) - 1] = "?"
    /\ \E i \in 1..Len(s) : IsVersion(s[i])

\* xmlhead->encoding for a head: the copy of the encoding comes last.
EncodingMember(s) == IF FirstEncoding(s) # "empty" THEN FirstEncoding(s) ELSE RunsOn(FirstVersion(s))

\* *xmlhead for headbuf = s: cleared first, filled only for a head.
ParsedHead(s, bom, isfound) ==
    IF isfound /\ IsHead(s)
    THEN [bom |-> bom, version |-> VersionMember(FirstVersion(s)), encoding |-> EncodingMember(s)]
    ELSE [NoHead EXCEPT !.bom = bom]

-----------------------------------------------------------------------------
\* The heads that a client formats: the version is a C string.
ClientHeads == {HeadTokens(v, "encFrom") : v \in {"verEmpty", "verShort", "version"}}

NoOut == [head |-> "empty", size |-> 0, from |-> -1]

Init ==
    /\ op \in {"text", "file", "format"}
    /\ \E t \in Texts, b \in Bom : input = [bom |-> b, tokens |-> t]
    /\ op = "format" => input.tokens \in ClientHeads
    /\ tocode \in Tocode
    /\ IF op = "file" THEN room = 0 ELSE room \in Room
    /\ blen = 0 /\ pc = "start"
    /\ k = 0 /\ headlen = 0 /\ offset = 0 /\ found = FALSE
    /\ xmlhead = NoHead /\ out = NoOut /\ ret = 0

Return(r) == pc' = "done" /\ ret' = r

\* The mark is detected and skipped, the scan begins.
BeginScan(n) ==
    /\ pc' = "scan"
    /\ blen' = n
    /\ offset' = MarkLen(input.bom)
    /\ UNCHANGED <<call, k, headlen, found, xmlhead, out, ret>>

\* convd_conv_xmltext hands the whole input to XML_text_parse_head.
StartText == pc = "start" /\ op = "text" /\ BeginScan(Bytes(input))

\* Mutant: the whole file is read.
StartFileWhole == pc = "start" /\ op = "file" /\ BeginScan(Bytes(input))

\* XML_file_parse_head reads the first FILEHEAD bytes.  When the read fails
\* its -1 becomes a length below every offset.
StartFile == pc = "start" /\ op = "file" /\ BeginScan(MinOf(FILEHEAD, Bytes(input)))
ReadFile  == pc = "start" /\ op = "file" /\ BeginScan(-1)
OpenFile  == /\ pc = "start" /\ op = "file"
             /\ Return(CONVD_ERR_FILE)
             /\ UNCHANGED <<call, blen, scan, xmlhead, out>>

\* A client formats a head into its buffer and parses what it got.
StartFormat ==
    /\ pc = "start" /\ op = "format"
    /\ LET n == conv_xmlhead_format(input.bom, input.tokens, room)
       IN  IF n > 0 THEN BeginScan(n)
           ELSE Return(0) /\ UNCHANGED <<call, blen, scan, xmlhead, out>>

-----------------------------------------------------------------------------
(***************************************************************************)
(* The five loops of XML_text_parse_head, which differ in Unit only.       *)
(***************************************************************************)
Left == (blen - offset) \div Unit(input.bom)    \* whole characters not read yet
FreeAll == HEADBUF - headlen                    \* mutant: no byte for the NUL
Free == HEADBUF - 1 - headlen                   \* characters headbuf can take
NextToken == input.tokens[k + 1]
TokensRead == SubSeq(input.tokens, 1, k)        \* the tokens in headbuf

ScanToken ==
    /\ pc = "scan"
    /\ Left > 0
    /\ Weight[NextToken] <= MinOf(Left, Free)
    /\ k' = k + 1
    /\ headlen' = headlen + Weight[NextToken]
    /\ offset' = offset + Unit(input.bom) * Weight[NextToken]
    /\ found' = (NextToken = ">")
    /\ pc' = IF NextToken = ">" THEN "parse" ELSE "scan"
    /\ UNCHANGED <<call, blen, xmlhead, out, ret>>

\* The input ends, maybe within a token.
ScanEnd ==
    /\ pc = "scan"
    /\ Left > 0 => Weight[NextToken] > Left
    /\ Left <= Free
    /\ pc' = "parse"
    /\ UNCHANGED <<call, blen, scan, xmlhead, out, ret>>

\* headbuf is full and the input is not at its end: the loop neither reads
\* nor leaves.
ScanSpin ==
    /\ pc = "scan"
    /\ Left > Free
    /\ Weight[NextToken] > Free
    /\ UNCHANGED vars

\* Mutant: characters are returned instead of bytes.
HeadLengthChars(s) == IF found /\ IsHead(s) THEN headlen ELSE 0

\* What XML_text_parse_head returns.
HeadLength(s) == IF found /\ IsHead(s) THEN offset ELSE 0

\* A version of 80 characters or more is copied beyond the end of *xmlhead.
Overruns == found /\ IsHead(TokensRead) /\ FirstVersion(TokensRead) = "verBig"

Parse ==
    /\ pc = "parse" /\ ~Overruns
    /\ xmlhead' = ParsedHead(TokensRead, input.bom, found)
    /\ ret' = HeadLength(TokensRead)
    /\ pc' = CASE op = "text" -> "encoding" [] op = "file" -> "head" [] OTHER -> "done"
    /\ UNCHANGED <<call, blen, scan, out>>

\* What it overwrites are variables of the caller: nothing is known of the call
\* any more, and the model stops.
ParseOverrun ==
    /\ pc = "parse" /\ Overruns
    /\ pc' = "overrun"
    /\ UNCHANGED <<call, blen, scan, xmlhead, out, ret>>

-----------------------------------------------------------------------------
(***************************************************************************)
(* convd_conv_xmltext and convd_conv_xmlfile, behind the parse.  ret holds *)
(* xmlheadlen (headofflen) until they return.                              *)
(***************************************************************************)

\* Mutant: a head without an encoding passes.
CheckEncodingLax ==
    /\ pc = "encoding"
    /\ IF xmlhead.encoding # "encOther" THEN pc' = "head" /\ UNCHANGED ret
       ELSE Return(CONVD_ERR_ICONV)
    /\ UNCHANGED <<call, blen, scan, xmlhead, out>>

\* The declared encoding must be the one the descriptor converts from.
CheckEncoding ==
    /\ pc = "encoding"
    /\ IF xmlhead.encoding = "encFrom" THEN pc' = "head" /\ UNCHANGED ret
       ELSE Return(CONVD_ERR_ICONV)
    /\ UNCHANGED <<call, blen, scan, xmlhead, out>>

\* The new head; its version is the old one's.
NewHead == PrintedHead(xmlhead.version, tocode.attribute)

\* A head for the five ansi targets, in a buffer of the given size; nothing for
\* any other target.
PutHead(size) ==
    LET n == conv_xmlhead_format("none", NewHead, size)
    IN  IF tocode.ansi
        THEN /\ xmlhead' = [xmlhead EXCEPT !.bom = "none", !.encoding = tocode.attribute]
             /\ out' = IF n > 0 THEN [NoOut EXCEPT !.head = tocode.attribute, !.size = n]
                                ELSE NoOut
        ELSE UNCHANGED <<xmlhead, out>>

\* A head that does not fit the caller's buffer is left out.
NewTextHead ==
    /\ pc = "head" /\ op = "text"
    /\ PutHead(room)
    /\ pc' = "convert"
    /\ UNCHANGED <<call, blen, scan, ret>>

\* convd_conv_xmlfile has its own buffer and needs a head in the file.
NewFileHead ==
    /\ pc = "head" /\ op = "file" /\ ret > 0
    /\ PutHead(128)
    /\ pc' = "convert"
    /\ UNCHANGED <<call, blen, scan, ret>>

NoXmlFile ==
    /\ pc = "head" /\ op = "file" /\ ret <= 0
    /\ Return(CONVD_ERR_FILE)
    /\ UNCHANGED <<call, blen, scan, xmlhead, out>>

\* Mutant: the whole output buffer is offered behind the head.
ConvTextWhole ==
    /\ pc = "convert" /\ op = "text"
    /\ \/ \E n \in BodySize :
            /\ n <= room
            /\ out' = [out EXCEPT !.size = @ + n, !.from = ret]
            /\ Return(n + out.size)
       \/ out' = out /\ Return(CONVD_ERR_ICONV)
    /\ UNCHANGED <<call, blen, scan, xmlhead>>

\* convd_conv_text on what is left of both buffers (module Convd).
ConvText ==
    /\ pc = "convert" /\ op = "text"
    /\ \/ \E n \in BodySize :
            /\ n <= room - out.size
            /\ out' = [out EXCEPT !.size = @ + n, !.from = ret]
            /\ Return(n + out.size)
       \/ out' = out /\ Return(CONVD_ERR_ICONV)
    /\ UNCHANGED <<call, blen, scan, xmlhead>>

\* Mutant: the length of the head is forgotten.
ConvFileFromMark(bom, inoffset) == MarkLen(bom)

\* convd_conv_file (module ConvFile) reads the mark itself and then seeks over
\* inoffset more bytes.  It returns CONVD_NOERROR too when it could not create the
\* output file, and never CONVD_ERR_INSUFF.
ConvFileFrom(bom, inoffset) == MarkLen(bom) + inoffset

ConvFile ==
    /\ pc = "convert" /\ op = "file"
    /\ \/ /\ out' = [out EXCEPT !.from = ConvFileFrom(input.bom, ret)]
          /\ Return(CONVD_NOERROR)
       \/ /\ out' = out
          /\ \E r \in {CONVD_NOERROR, CONVD_ERR_ENCODING, CONVD_ERR_ICONV, CONVD_ERR_FILE} :
                Return(r)
    /\ UNCHANGED <<call, blen, scan, xmlhead>>

Done == pc \in {"done", "overrun"} /\ UNCHANGED vars

Step == \/ StartText \/ StartFile \/ ReadFile \/ OpenFile \/ StartFormat
        \/ ScanToken \/ ScanEnd \/ Parse \/ ParseOverrun
        \/ CheckEncoding \/ NewTextHead \/ NewFileHead \/ NoXmlFile \/ ConvText \/ ConvFile

Next == Step \/ ScanSpin \/ Done

Spec == Init /\ [][Next]_vars

\* The caller's thread keeps running.
FairSpec == Spec /\ WF_vars(Step)

-----------------------------------------------------------------------------
(***************************************************************************)
(* Properties                                                              *)
(***************************************************************************)

\* Every variable has its type, headbuf keeps a byte for its NUL, and the scan
\* stays within the input.
TypeOK ==
    /\ op \in {"text", "file", "format"}
    /\ input \in [bom : Bom, tokens : Seq(Token)]
    /\ tocode \in Tocode /\ room \in Nat /\ blen \in Nat \cup {-1}
    /\ pc \in {"start", "scan", "parse", "encoding", "head", "convert", "done", "overrun"}
    /\ k \in 0..Len(input.tokens)
    /\ headlen \in 0..(HEADBUF - 1)
    /\ offset \in Nat /\ (blen >= MarkLen(input.bom) => offset <= blen)
    /\ found \in BOOLEAN
    /\ xmlhead \in XmlHead
    /\ out \in [head : Encodings \cup {"empty"}, size : Nat, from : Int]
    /\ ret \in Int

IsClose(t) == t = ">"

\* The text up to its first ">", all of it when there is none.
UpToClose(s) ==
    LET n == SelectInSeq(s, IsClose)
    IN  IF n = 0 THEN s ELSE SubSeq(s, 1, n)

\* The bytes of the mark and the head.
HeadBytes == Bytes([input EXCEPT !.tokens = UpToClose(input.tokens)])

WellFormed(s) == /\ IsPrefix(<<"decl">>, s) /\ IsSuffix(<<"?", ">">>, s)
                 /\ Versions \cap ToSet(s) # {} /\ Chars(s) > 20

\* The text begins with a head that is read whole and fits headbuf.
WholeHead ==
    LET s == UpToClose(input.tokens)
    IN  WellFormed(s) /\ HeadBytes <= blen /\ Chars(s) < HEADBUF

\* XML_text_parse_head finds a head exactly when the text begins with one that
\* is read whole and fits headbuf, and then returns its length with the mark,
\* whatever the width and the order of the characters.
ParseExact ==
    pc \in {"encoding", "head"} => ret = IF WholeHead THEN HeadBytes ELSE 0

\* What is converted is what follows the head: no byte of the body is lost and
\* the old head does not come back.  Files that begin with a mark are not
\* covered: convd_conv_file skips the mark a second time.
ConvertsBehindHead ==
    out.from # -1 /\ (op = "file" => input.bom = "none") => out.from = HeadBytes

\* The version is longer than its member, NUL included.
LongVersion(s) == VersionMember(FirstVersion(s)) = "open"

\* convd_conv_xmltext converts no text without a head and none that declares
\* another encoding, and one that declares none only if its version is longer
\* than xmlhead->version.
OnlyDeclared ==
    op = "text" /\ out.from # -1 =>
        LET s == UpToClose(input.tokens)
        IN  /\ WholeHead
            /\ \/ FirstEncoding(s) = "encFrom"
               \/ FirstEncoding(s) = "empty" /\ LongVersion(s)

\* convd_api.h says that XML_text_parse_head sets the members of *xmlhead when
\* it finds a head: to what the head declares.  It does not: a long version
\* becomes the encoding too.
MembersSet ==
    pc \in {"encoding", "head"} /\ ret > 0 =>
        xmlhead.encoding = FirstEncoding(UpToClose(input.tokens))

\* The new head names the target encoding, for the five names that are known
\* and when the caller's buffer has room for a head.
HeadNamesTarget ==
    /\ out.from # -1 /\ tocode.ansi
    /\ op = "text" => room > Chars(NewHead)
    => out.head = tocode.attribute

\* convd_conv_xmltext returns the bytes of the head and of the converted text,
\* and never more than the caller's buffer.
ResultIsLength ==
    op = "text" /\ pc = "done" /\ ret >= 0 => ret = out.size /\ out.size <= room

\* A head written by conv_xmlhead_format with any mark is found again by
\* XML_text_parse_head, with the same mark, encoding and length, and the same
\* version unless that is of one character, which the parser leaves out.
FormatThenParse ==
    op = "format" /\ pc = "done" =>
        /\ ret = IF Bytes(input) < room THEN Bytes(input) ELSE 0
        /\ ret > 0 => xmlhead = [bom |-> input.bom,
                                 version |-> IF input.tokens[2] = "version" THEN "given" ELSE "empty",
                                 encoding |-> "encFrom"]

\* headbuf can take the text up to its first ">" or up to its end.
InReach == \/ op = "file"
           \/ Chars(UpToClose(input.tokens)) < HEADBUF

\* The version fits *xmlhead.
InStruct ==
    LET s == UpToClose(input.tokens) IN IsHead(s) => FirstVersion(s) # "verBig"

\* The calls return, unless the first ">" of a text is out of reach of headbuf or
\* the version does not fit *xmlhead.  For a file the ">" never is out of reach,
\* because fewer bytes than headbuf takes are read.
EventuallyReturns == InReach /\ InStruct ~> (pc = "done")

-----------------------------------------------------------------------------
(***************************************************************************)
(* The inductive invariant                                                 *)
(***************************************************************************)

\* The scan counts the characters it reads, stops at the first ">", and leaves
\* only what it cannot read.  A head that is parsed back was written whole.
Scanned ==
    /\ headlen = Chars(TokensRead)
    /\ found <=> k > 0 /\ input.tokens[k] = ">"
    /\ \A i \in 1..k - 1 : input.tokens[i] # ">"
    /\ k > 0 => offset <= blen
    /\ op = "format" => input.tokens \in ClientHeads
    /\ pc = "start" => k = 0
    /\ pc = "scan" => ~found
    /\ pc \in {"scan", "parse"} =>
           /\ offset = MarkLen(input.bom) + Unit(input.bom) * headlen
           /\ blen <= Bytes(input)
           /\ op = "format" => blen = Bytes(input) /\ blen < room
    /\ pc = "parse" /\ ~found /\ Left > 0 => Weight[NextToken] > Left

\* What is known of the head until the call returns.
Parsed ==
    /\ pc \in {"start", "scan", "parse", "encoding", "head"} => out = NoOut
    /\ pc \in {"encoding", "head", "convert"} =>
           /\ op # "format"
           /\ ret = IF WholeHead THEN HeadBytes ELSE 0
    /\ pc = "encoding" =>
           /\ op = "text"
           /\ xmlhead.encoding # "empty" =>
                  ret > 0 /\ xmlhead.encoding = EncodingMember(UpToClose(input.tokens))
    /\ pc \in {"head", "convert"} /\ op = "text" =>
           ret > 0 /\ EncodingMember(UpToClose(input.tokens)) = "encFrom"

\* What is known of the output when the conversion starts.
HeadPut ==
    pc = "convert" =>
        /\ ret > 0 /\ out.from = -1
        /\ op = "text" => out.size <= room
        /\ tocode.ansi /\ (op = "text" => room > Chars(NewHead))
               => out.head = tocode.attribute

IInv ==
    /\ TypeOK /\ Scanned /\ Parsed /\ HeadPut
    /\ ConvertsBehindHead /\ OnlyDeclared /\ HeadNamesTarget /\ ResultIsLength
    /\ FormatThenParse
=============================================================================
