------------------------------ MODULE CodeConv ------------------------------
(***************************************************************************)
(* The command line tool codeconv and the texts that convd_create makes of *)
(* the names it is given.  The tool is a function from its options, and    *)
(* from the results of the library calls it makes, to those calls and its  *)
(* exit code.                                                              *)
(***************************************************************************)
EXTENDS CstrParts

CONSTANTS CVD_ENCODING_LEN_MAX,     \* scaled down
          EMERGLOG_MSGLEN           \* scaled down

ASSUME LenAssumption == CVD_ENCODING_LEN_MAX \in Nat /\ EMERGLOG_MSGLEN \in Nat

Ignore == <<"/", "/", "I", "G", "N", "O", "R", "E">>
Translit == <<"/", "/", "T", "R", "A", "N", "S", "L", "I", "T">>
\* Their characters, which toupper leaves alone.
SuffixChars == {"/", "I", "G", "N", "O", "R", "E", "T", "A", "S", "L"}
ASSUME SuffixAssumption ==
    \A c \in SuffixChars : c # NUL /\ c \in DOMAIN Upper /\ Upper[c] = c
SuffixText(mode) == CASE mode = "ignore" -> Ignore [] mode = "translit" -> Translit
                      [] OTHER -> <<>>

-----------------------------------------------------------------------------
(* convd_create: names and suffix in one block *)

\* The C string at an offset of a block.
CStringAt(buf, at) ==
    LET n == SelectInSeq(From(buf, at), LAMBDA c : c = NUL)
    IN  First(From(buf, at), n - 1)

BadName(s) == Len(s) \notin 1..CVD_ENCODING_LEN_MAX

Slack == 12             \* two NULs and the longer suffix

\* codebuf, zeroed, with a name and its suffix written at an offset.
Put(buf, at, name, suffix) == Over(buf, at, cstr_toupper(name, Len(name)) \o suffix)

\* What iconv_open is given, and what convd_fromcode and convd_tocode say from then
\* on: the suffix is cut off again.
convd_create(from, to, mode) ==
    LET size == Len(from) + Len(to) + Slack
        at == Len(from) + 1
        buf == Put(Put([i \in 1..size |-> NUL], 0, from, <<>>), at, to, SuffixText(mode))
        cut == IF mode = "none" THEN buf ELSE [buf EXCEPT ![at + Len(to) + 1] = NUL]
    IN  CASE BadName(from) -> [ret |-> "FROMCODE"]
          [] ~BadName(from) /\ BadName(to) -> [ret |-> "TOCODE"]
          [] OTHER -> [ret |-> "NOERROR", size |-> size, used |-> Len(buf),
                       opened |-> <<CStringAt(buf, at), CStringAt(buf, 0)>>,
                       codes |-> <<CStringAt(cut, 0), CStringAt(cut, at)>>]

-----------------------------------------------------------------------------
(* codeconv *)

Options == {"from", "to", "input", "output"}
NoArguments == [from |-> Null, to |-> Null, input |-> Null, output |-> Null,
                add_bom |-> FALSE, exit |-> -1]

\* One option after the other; an unknown one, help and version end the process.
parse_arguments(argv) ==
    LET Take(a, o) ==
            CASE a.exit >= 0 -> a
              [] a.exit < 0 /\ o[1] \in Options -> [a EXCEPT ![o[1]] = o[2]]
              [] a.exit < 0 /\ o[1] = "add-bom" -> [a EXCEPT !.add_bom = TRUE]
              [] a.exit < 0 /\ o[1] \in {"help", "version"} -> [a EXCEPT !.exit = 0]
              [] OTHER -> [a EXCEPT !.exit = 1]
    IN  FoldLeft(Take, NoArguments, argv)

Has(s, end) == cstr_endwith(s, Len(s), end, Len(end))

\* Mutant: both suffixes are taken for eight characters.
TargetEight(to) ==
    CASE Has(to, Ignore) -> <<First(to, Len(to) - 8), "ignore">>
      [] ~Has(to, Ignore) /\ Has(to, Translit) -> <<First(to, Len(to) - 8), "translit">>
      [] OTHER -> <<to, "ignore">>

\* The code and the mode for convd_create: a suffix of the option becomes the mode,
\* and without one it is to ignore what cannot be converted.
Target(to) ==
    CASE Has(to, Ignore) -> <<First(to, Len(to) - 8), "ignore">>
      [] ~Has(to, Ignore) /\ Has(to, Translit) -> <<First(to, Len(to) - 10), "translit">>
      [] OTHER -> <<to, "ignore">>

NoCalls(exit) == [exit |-> exit, created |-> Null, converted |-> Null, released |-> FALSE]

\* created and converted are the results of convd_create and of the conversion, where
\* the arguments do not decide; a failing call ends the process at once.
main(argv, opens, converts) ==
    LET a == parse_arguments(argv)
        target == Target(a.to)
        cvd == convd_create(a.from, target[1], target[2])
        call == IF Has(a.input, <<".", "x", "m", "l">>)
                THEN <<"convd_conv_xmlfile", a.input, a.output, a.add_bom>>
                ELSE <<"convd_conv_file", a.input, a.output, FALSE>>
    IN  CASE a.exit >= 0 -> NoCalls(a.exit)
          [] a.exit < 0 /\ (\E o \in Options : a[o] = Null) -> NoCalls(255)
          [] OTHER ->
                IF cvd.ret # "NOERROR" THEN NoCalls(255)
                ELSE [exit |-> IF opens /\ converts THEN 0 ELSE 255,
                      created |-> cvd,
                      converted |-> IF opens THEN call ELSE Null,
                      released |-> opens /\ converts]

-----------------------------------------------------------------------------
(* emerglog.h *)

\* The message of emerg_syslog_message for a formatted text, Null where vsnprintf
\* fails; its result is the length of the whole text.
emerg_syslog_message(text) ==
    LET chlen == IF text = Null THEN 0 ELSE AtMost(Len(text), EMERGLOG_MSGLEN)
        msgbuf == IF text = Null THEN <<>> ELSE First(text, EMERGLOG_MSGLEN)
    IN  First(msgbuf, chlen)
=============================================================================
