------------------------------ MODULE MCHelpers -----------------------------
(***************************************************************************)
(* The pure functions of modules CstrParts, DateTime, ByteOrder and        *)
(* CodeConv on all inputs of a kind up to a length.  An input grows by one *)
(* item per step; the calendar by one month.  Each property is about the   *)
(* inputs of one or two kinds.                                             *)
(***************************************************************************)
EXTENDS DateTime, ByteOrder, CodeConv

CONSTANTS MaxText, MaxNumber, MaxFile, MaxWord, MaxOptions, LastYear     \* bounds of the inputs

VARIABLES kind, in
vars == <<kind, in>>

Letters == {"a", "b", "A", ",", " "}
Figures == {"0", "1", "9", "-", ".", " "}
ASSUME LettersAssumption ==
    Letters \subseteq DOMAIN Code /\ Letters \subseteq DOMAIN Lower /\ Letters \subseteq DOMAIN Upper
ASSUME YearAssumption == LastYear \in Nat /\ LastYear <= 9999     \* as time_is_valid has it
Bytes == {"a", " ", "\n", "\\", "EF", "BB", "BF"}
Words == {0, 1, 200}

UpperCase == [c \in Letters \cup ToSet(Ignore \o Translit) |-> IF c = "a" THEN "A" ELSE c]
LowerCase == [c \in Letters |-> IF c = "A" THEN "a" ELSE c]
Codes == [c \in Letters \cup {"\n", "\r"} |->
            CASE c = "a" -> 97 [] c = "b" -> 98 [] c = "A" -> 65 [] c = "," -> 44
              [] c = " " -> 32 [] c = "\n" -> 10 [] OTHER -> 13]
Spaces == {" ", "\n", "\r"}

\* Options of codeconv: codes with and without a suffix, empty and too long.
Xml == <<".", "x", "m", "l">>
OutputTo == <<"output", <<"b">>>>
AddBom == <<"add-bom", <<>>>>
Commands ==
    {<<"from", c>> : c \in {<<>>, <<"a">>}}
    \cup {<<"to", t>> : t \in {<<"b">>, <<"a", "b">> \o Ignore, <<"a">> \o Translit, Ignore,
                              <<"a">> \o Ignore \o Translit, <<"a", "b">> \o Ignore \o Translit}}
    \cup {<<"input", i>> : i \in {<<"a">>, <<"a">> \o Xml}}
    \cup {AddBom, <<"help", <<>>>>, <<"unknown", <<>>>>}

\* Timestamps as the comments of cstr_parse_timestamp write them, each also with one
\* character dropped or replaced.
Date1 == DateText(2019, 12, 22)
Time1 == TimeText(12, 36, 59)
Stamps ==
    { Date1, Date1 \o <<" ">> \o Time1, Date1 \o <<" ">> \o Time1 \o <<".", "0", "6", "5">>,
      Date1 \o <<"E", "0", "8", ":", "0", "0">>, Date1 \o <<"-", "0", "8", ".", "3", "0">>,
      DateText(1969, 12, 31) \o <<" ">> \o Time1 \o <<"W", "0", "0", ":", "0", "1">>,
      <<"'">> \o DateText(2000, 2, 29) \o <<" ">> \o TimeText(23, 59, 59) \o <<"'">>,
      <<" ">> \o DateText(2100, 2, 28) \o <<" ">> \o TimeText(0, 0, 0)
          \o <<".", "9", "9", "9", "+", "1", "1", ":", "0", "0">> }
Typos == {"0", "1", "2", "3", "4", "6", "9", "-", ":", ".", " ", "'", "+", "E"}
Typed(s) == {s} \cup {RemoveAt(s, i) : i \in 1..Len(s)}
                \cup {[s EXCEPT ![i] = c] : i \in 1..Len(s), c \in Typos}

\* The calendar: a month and the days before its first, counted from 1970-01-01.
FirstMonth == [year |-> 1970, mon |-> 1, before |-> 0]
LeapYear(y) == y % 400 = 0 \/ (y % 4 = 0 /\ y % 100 # 0)
DaysIn(m) == IF m.mon = 2 THEN IF LeapYear(m.year) THEN 29 ELSE 28
             ELSE IF m.mon \in {4, 6, 9, 11} THEN 30 ELSE 31

Init == \/ kind = "text" /\ in = <<>>
        \/ kind = "number" /\ in = <<>>
        \/ kind = "file" /\ in = <<>>
        \/ kind = "word" /\ in = <<>>
        \/ kind = "command" /\ in \in {<<OutputTo>>, <<AddBom>>}
        \/ kind = "month" /\ in = FirstMonth
        \/ kind = "stamp" /\ in \in UNION {Typed(s) : s \in Stamps}

Grow(k, Items, max) == kind = k /\ Len(in) < max /\ \E x \in Items : in' = Append(in, x)

NextMonth ==
    /\ kind = "month" /\ in.year < LastYear
    /\ in' = [year |-> in.year + in.mon \div 12, mon |-> (in.mon % 12) + 1,
              before |-> in.before + DaysIn(in)]

Next == /\ \/ Grow("text", Letters, MaxText)
           \/ Grow("number", Figures, MaxNumber)
           \/ Grow("file", Bytes, MaxFile)
           \/ Grow("word", Words, MaxWord)
           \/ Grow("command", Commands, MaxOptions)
           \/ NextMonth
        /\ UNCHANGED kind

Spec == Init /\ [][Next]_vars

-----------------------------------------------------------------------------
Text == kind = "text"
N == Len(in)
Join(parts, sep) == FoldLeft(LAMBDA s, p : IF s = Null THEN p ELSE s \o sep \o p, Null, parts)
Concat(parts) == FoldLeft(LAMBDA s, p : s \o p, <<>>, parts)
NoBlank(s) == SelectSeq(s, LAMBDA c : c \notin Spaces)
Patterns == {<<"a">>, <<"b">>, <<"a", "b">>, <<"a", "a">>, <<"a", "b", "a">>}
Replacements == {<<>>, <<"a">>, <<"b", "a">>, <<"A", "a", ",">>}

\* The calls of cstr_readline up to the first -1 give every line of a file but for what
\* exceeds maxlen, the mark at its front and the end of lines.
LinesKept ==
    LET Lines[at \in 0..N, max \in 1..2, ign \in BOOLEAN] ==
            LET r == cstr_readline(in, at, max, ign)
            IN  IF r.len = -1 THEN <<>> ELSE <<r.line>> \o Lines[r.offset, max, ign]
        Body == IF IsPrefix(Bom, in) THEN From(in, 3) ELSE in
        Clean(s) == SelectSeq(s, LAMBDA c : c \notin {"\n", "\\"})
        Expected(ign) ==
            LET f1 == Fields(Body, "\n")
                f2 == IF Clean(f1[Len(f1)]) = <<>> \/ (ign /\ NoBlank(Clean(f1[Len(f1)])) = <<>>)
                      THEN First(f1, Len(f1) - 1) ELSE f1
            IN  [i \in DOMAIN f2 |-> IF ign THEN NoBlank(Clean(f2[i])) ELSE Clean(f2[i])]
    IN  \A max \in 1..2, ign \in BOOLEAN :
            Lines[0, max, ign] = [i \in DOMAIN Expected(ign) |->
                                    First(Expected(ign)[i], AtMost(max, Len(Expected(ign)[i])))]

\* Trimming takes away the characters at the ends, all of them and no other.
\* Splitting: the count that a caller allocates for is the number of fields it gets;
\* a shorter result is the beginning of a longer one; nothing but blanks and
\* delimiters is lost, by neither of the ways to split, nor when a file is read by lines.
PartsComplete ==
    LET Stripped1(s, t, cs) ==
            \E i, j \in 0..Len(s) :
                /\ i + Len(t) + j = Len(s) /\ t = SubSeq(s, i + 1, Len(s) - j)
                /\ ToSet(First(s, i)) \cup ToSet(From(s, Len(s) - j)) \subseteq cs
                /\ t # <<>> => t[1] \notin cs /\ t[Len(t)] \notin cs
    IN  /\ kind = "file" => LinesKept
        /\ Text =>
            /\ \A c \in {" ", "a"} :
                /\ Stripped1(in, cstr_LRtrim_chr(in, c), {c})
                /\ ToSet(in) \ {c} # {} => cstr_Rtrim_chr(in, c) = Reverse(cstr_Ltrim_chr(Reverse(in), c))
                /\ cstr_trim_chrs(in, <<c, ",">>) = SelectSeq(in, LAMBDA x : x \notin {c, ","})
            /\ Stripped1(in, cstr_LRtrim_whitespace(in), Spaces)
            /\ cstr_trim_whitespace(in) = NoBlank(in)
            /\ \A from, to \in 0..(N - 1) :
                LET at == cstr_shrink_whitespace(in, from, to)
                IN  from <= to => SubSeq(in, at[1] + 1, at[2] + 1)
                                    = cstr_LRtrim_whitespace(SubSeq(in, from + 1, to + 1))
            /\ \A c \in {",", "a"}, n \in 0..N :
                LET all == cstr_slpit_chr(in, n, c, N + 1)
                IN  /\ Len(all) = cstr_slpit_chr_count(in, n, c)
                    /\ \A max \in 0..N : cstr_slpit_chr(in, n, c, max) = First(all, AtMost(max, Len(all)))
                    /\ NoBlank(Join(all, <<c>>)) = NoBlank(First(in, n))
            /\ \A seps \in {<<",">>, <<"a", ",">>, <<" ">>}, max \in 1..(N + 1) :
                LET parts == cstr_split_multi_chrs(in, N, seps, max)
                IN  /\ IsPrefix(NoBlank(Concat(parts)), NoBlank(in))
                    /\ Len(parts) < max => NoBlank(Concat(parts)) = NoBlank(in)
                    /\ \A i \in DOMAIN parts : \A k \in 2..Len(parts[i]) : parts[i][k] \notin ToSet(seps)

\* The parts between the occurrences of a text give the whole with that text between
\* them, and fewer of them its beginning.  cstr_replace_new returns the length of the
\* text it allocated and wrote, which is the parts with the replacement between them;
\* and nothing when there is nothing to replace.
ReplacesAll ==
    Text =>
        \A pat \in Patterns, rpl \in Replacements :
            LET r == cstr_replace_new(in, pat, rpl)
                parts == cstr_split_substr(in, pat, N + 1)
            IN  /\ Join(parts, pat) = in
                /\ \A max \in 1..N : IsPrefix(Join(cstr_split_substr(in, pat, max), pat), in)
                /\ IF Len(parts) = 1 THEN r.outresult = Null /\ r.len = 0
                   ELSE r.outresult = Join(parts, rpl) /\ r.len = Len(r.outresult)

\* The searches agree on where a text is: first and last are a mirror image, a start
\* is found at the front, an end at the back, and case does not matter when it is
\* ignored.
SearchesAgree ==
    Text =>
        /\ \A n \in 0..N, c \in Letters :
            LET l == cstr_Lfind_chr(in, n, c)
                r == cstr_Rfind_chr(in, n, c)
            IN  /\ l = cstr_containwith(in, n, <<c>>, 1) /\ l = cstr_find_chrs(in, n, <<c>>)
                /\ r = IF l < 0 THEN -1 ELSE n - 1 - cstr_Lfind_chr(Reverse(First(in, n)), n, c)
        /\ \A p \in Patterns :
            LET at == cstr_containwith(in, N, p, Len(p))
            IN  /\ at >= 0 <=> \E i \in 0..N : IsPrefix(p, From(in, i))
                /\ cstr_startwith(in, N, p, Len(p)) <=> at = 0
                /\ cstr_endwith(in, N, p, Len(p))
                    <=> cstr_startwith(Reverse(in), N, Reverse(p), Len(p))
                /\ cstr_startwith_mul(in, N, <<<<"a">>, Null, p>>) = 2 <=> at = 0
                /\ cstr_endwith_mul(in, N, <<p, <<"b">>>>) = -1
                    <=> ~(IsSuffix(p, in) \/ IsSuffix(<<"b">>, in))
        /\ cstr_findstr_in(in, -1, <<Null, cstr_toupper(in, N), in>>, FALSE)
            = IF cstr_toupper(in, N) = in THEN 1 ELSE 2
        /\ cstr_findstr_in(in, -1, <<cstr_toupper(in, N), in>>, TRUE) = 0

\* cstr_compare_len orders texts: the two ways round are opposite, equal is what
\* cstr_notequal_len says, a length left out is the length of the text, and of two
\* lengths the shorter comes first.
ComparesInOrder ==
    Text =>
        \A i \in 0..N, ign \in BOOLEAN :
            LET a == First(in, i)
                b == From(in, i)
                Cmp(x, xl, y, yl) == cstr_compare_len(x, xl, y, yl, ign)
                m == N - i
            IN  /\ Cmp(a, i, b, m) = -Cmp(b, m, a, i) /\ Cmp(a, -1, b, -1) = -Cmp(b, -1, a, -1)
                /\ Cmp(a, i, b, m) = Cmp(a, -1, b, m) /\ Cmp(a, i, b, m) = Cmp(a, i, b, -1)
                /\ i < m => Cmp(a, i, b, m) = -1
                /\ (Cmp(a, -1, b, -1) = 0) = (Cmp(a, i, b, m) = 0)
                /\ (~ign => (Cmp(a, i, b, m) = 0) = ~cstr_notequal_len(a, i, b, m))
                /\ (cstr_notequal(a, b) <=> cstr_notequal_len(a, i, b, m))
                /\ Cmp(Null, 0, a, i) = -1 /\ Cmp(a, i, Null, 0) = 1 /\ Cmp(Null, 0, Null, 0) = 0

\* The number a text says depends on the characters up to its length argument only,
\* is the same signed and unsigned, and a text that is numeric and has a digit is read.
NumbersAgree ==
    kind = "number" =>
        /\ \A n \in 1..N :
            /\ cstr_to_sb8(in, n) = cstr_to_sb8(First(in, n), -1)
            /\ cstr_to_ub8(in, n) = cstr_to_ub8(First(in, n), -1)
            /\ cstr_to_dbl(in, n) = cstr_to_dbl(First(in, n), -1)
            /\ cstr_to_sb8(in, n)[1] = 1 => cstr_to_ub8(in, n) = <<1, cstr_to_sb8(in, n)[2] % WORD>>
            /\ cstr_isdigit(in, n) /\ cstr_to_ub8(in, n)[1] = 1
                => Dec(cstr_to_ub8(in, n)[2], n) = First(in, n)
        /\ cstr_isnumeric(in, N) /\ (\E i \in 1..N : isdigit(in[i])) => cstr_to_dbl(in, N) = 1
        /\ cstr_to_sb8(in, N)[1] = 1 => cstr_to_dbl(in, N) = 1

\* No copy leaves its buffer: cstr_safecopy always ends in a NUL and keeps what it can;
\* cstr_copybuf and cstr_copybuf_len copy the longest beginning that fits, a message of
\* the log is cut like that, and getenv_with_prefix writes both texts whole or nothing;
\* convd_create fills its block to the last byte and not beyond, and keeps both names
\* apart.
BuffersHold ==
    /\ Text =>
        \A size \in 1..5, i \in 0..N :
            LET head == First(in, i)
                env == getenv_with_prefix(From(in, i), head, size)
            IN  /\ cstr_copybuf(size, in) = cstr_copybuf_len(size, in, N)
                /\ cstr_copybuf_len(size, in, i) = cstr_copybuf(size, head)
                /\ Len(cstr_copybuf(size, head)) = AtMost(i, size - 1)
                /\ IF N < size THEN env = <<N, in>> ELSE env = <<-1, <<>>>>
                /\ emerg_syslog_message(in) = cstr_copybuf(EMERGLOG_MSGLEN + 1, in)
    /\ Text =>
        \A i \in 0..N, mode \in {"none", "ignore", "translit"} :
            \A r \in {convd_create(First(in, i), From(in, i), mode)} :
                /\ r.ret = "NOERROR" <=> (i \in 1..(N - 1) /\ N - i <= CVD_ENCODING_LEN_MAX
                                            /\ i <= CVD_ENCODING_LEN_MAX)
                /\ r.ret = "NOERROR" =>
                    /\ r.used = r.size
                    /\ r.codes[1] \o r.codes[2] = cstr_toupper(in, N) /\ Len(r.codes[1]) = i
                    /\ r.opened = <<r.codes[2] \o SuffixText(mode), r.codes[1]>>
    /\ Text =>
        \A size \in 1..5, offset \in 0..5 :
            LET old == [i \in 1..size |-> "x"]
                r == cstr_safecopy(old, offset, in)
                all == First(old, AtMost(offset, size)) \o in
            IN  /\ Len(r.buf) = size /\ NUL \in ToSet(r.buf)
                /\ r.ok <=> offset + N < size
                /\ IsPrefix(IF r.ok THEN Append(all, NUL)
                            ELSE First(all, IF size > 3 THEN size - 4
                                            ELSE AtMost(offset + N, size - 1)), r.buf)

\* codeconv takes the last value of every option, in any order.  It exits with 0 only
\* for help, or when the descriptor was opened and the file converted; it opens the
\* target that the option names, with its suffix once, or with //IGNORE; nothing is
\* opened for a command that is not complete, and what was opened is released before
\* the tool says success.
CommandRuns ==
    LET Given(n) == LET i == SelectLastInSeq(in, LAMBDA o : o[1] = n)
                    IN  IF i = 0 THEN Null ELSE in[i][2]
        stop == SelectInSeq(in, LAMBDA o : o[1] \in {"help", "unknown"})
        complete == \A n \in {"from", "to", "input", "output"} : Given(n) # Null
        Suffixed(to) == IsSuffix(Ignore, to) \/ IsSuffix(Translit, to)
        Name(to) == IF Suffixed(to) THEN First(to, SelectLastInSeq(to, LAMBDA c : c = "/") - 2)
                    ELSE to
        Up(s) == [i \in DOMAIN s |-> UpperCase[s[i]]]
        named == /\ Given("from") # <<>>
                 /\ Len(Name(Given("to"))) \in 1..CVD_ENCODING_LEN_MAX
    IN  kind = "command" =>
            \A opens, converts \in BOOLEAN : \A r \in {main(in, opens, converts)} :
                IF stop > 0
                THEN r = NoCalls(IF in[stop][1] = "help" THEN 0 ELSE 1)
                ELSE IF ~complete THEN r = NoCalls(255)
                ELSE /\ (r.exit = 0) = (named /\ opens /\ converts)
                     /\ r.released = (r.exit = 0)
                     /\ (r.created # Null) = named
                     /\ named => \A to \in {Given("to")} :
                            /\ r.created.codes = <<Up(Given("from")), Up(Name(to))>>
                            /\ r.created.opened[1] = Up(IF Suffixed(to) THEN to ELSE to \o Ignore)
                            /\ r.created.used = r.created.size
                     /\ (r.converted # Null) = (named /\ opens)
                     /\ r.converted # Null =>
                            /\ <<r.converted[2], r.converted[3]>> = <<Given("input"), Given("output")>>
                            /\ (r.converted[1] = "convd_conv_xmlfile") = IsSuffix(Xml, Given("input"))
                            /\ r.converted[4] = (IsSuffix(Xml, Given("input")) /\ Given("add-bom") # Null)

\* The number that a word read byte by byte is, in 16 bits.
Read16 == FoldLeft(LAMBDA n, b : (256 * n + b) % 65536, 0, in)

\* Whatever is converted to another byte order and back is unchanged on every host;
\* on a little endian host the bytes of a number are in the order that the names say,
\* and reading them gives the number; changing a bit changes that bit only.
WireExact ==
    kind = "word" /\ N \in {2, 4, 8} =>
        /\ BO_betoh(BO_htobe(in)) = in /\ BO_letoh(BO_htole(in)) = in
        /\ BO_bytes_betoh(BO_htobe(in)) = in /\ BO_bytes_letoh(BO_htole(in)) = in
        /\ BO_htobe(in) = Reverse(in)
        /\ N = 2 => /\ BO_htobe(LittleBytes(Read16, 2)) = BigBytes(Read16, 2)
                    /\ BO_htole(LittleBytes(Read16, 2)) = LittleBytes(Read16, 2)
                    /\ BO_bytes_betoh(BigBytes(Read16, 2)) = LittleBytes(Read16, 2)
                    /\ BO_bytes_letoh(LittleBytes(Read16, 2)) = LittleBytes(Read16, 2)
        /\ \A at \in Bits, v \in {0, 1} :
            LET n == {i \in Bits : in[(i % N) + 1] > i}
            IN  /\ BO_change_bit(n, at, v)
                    = IF v = 1 THEN BO_set_bit(n, at) ELSE BO_clear_bit(n, at)
                /\ BO_check_bit(BO_toggle_bit(n, at), at) = 1 - BO_check_bit(n, at)
                /\ Xor(BO_toggle_bit(n, at), n) = {at}

\* Some second of a day; the second that the fields of a clock say.
SecondOf(d) == 3600 * (d % 24) + 61 * (d % 60)
SecondsOf(clock) == 3600 * clock.hour + 60 * clock.min + clock.sec

\* The clock: for every day of the calendar getlocaltime_safe says its date and its
\* day of the year and of the week, with the zone of timezone_compute too; what it
\* says is a valid date, and the days behind the last of a month are not; and
\* difftime_msec counts the milliseconds to a time that is no earlier.
ClockAgrees ==
    kind = "month" =>
        LET len == DaysIn(in)
        IN  /\ in = FirstMonth => \A s \in 0..3, a, b \in 0..(MS * NS - 1) :
                    s > 0 \/ b >= a => difftime_msec(<<in.mon, a>>, <<in.mon + s, b>>)
                                        = (s * MS * NS + (b - a)) \div NS
            /\ \A d \in 1..31 : time_is_valid(in.year, in.mon, d, 0, 0, 0) <=> d <= len
            /\ DayOf(in.year, in.mon, 1) = in.before
            /\ \A d \in {1, 14, len} :
                LET t == [day |-> in.before + d - 1, sec |-> SecondOf(d)]
                    u == getlocaltime_safe(t, 0, 0)
                    w == getlocaltime_safe(t, timezone_compute(t), 0)
                    l == localtime(t)
                IN  /\ <<u.year, u.mon, u.day>> = <<in.year, in.mon, d>>
                    /\ SecondsOf(u) = t.sec /\ u.min \in 0..59 /\ u.sec \in 0..59
                    /\ format_nowtimeofday(t)
                        = Dec(in.year, 4) \o <<"-">> \o Dec(in.mon, 2) \o <<"-">> \o Dec(d, 2)
                            \o <<" ">> \o TimeText(u.hour, u.min, u.sec) \o <<" ", "U", "T", "C">>
                    /\ u.wday = (4 + t.day) % 7
                    /\ u.yday = t.day - DayOf(in.year, 1, 1)
                    /\ timezone_compute(t) = WEST
                    /\ t.day > 0 => /\ <<w.year, w.mon, w.day>> = <<l.date.year, l.date.mon, l.date.day>>
                                    /\ SecondsOf(w) = l.sec

\* What cstr_parse_timestamp accepts it also prints so that it is read back as the
\* same; and from 1970 on its result is the timestamp of that very date and time,
\* unless that is written as hour 24 or second 60.
StampsRoundTrip ==
    kind = "stamp" =>
        \A r \in {cstr_parse_timestamp(in)} : r.ok =>
            \A printed \in {cstr_datetime_print(r.dt)} :
                /\ cstr_parse_timestamp(printed) = r
                /\ Len(printed) < 30
                /\ r.dt.year >= 1971 /\ r.dt.hour < 24 /\ r.dt.second < 60
                    => cstr_timestamp_to_datetime(r.stamp)
                        = cstr_datetime_print([r.dt EXCEPT !.timezone = -1,
                            !.hour = IF @ = -1 THEN 0 ELSE @, !.millisecond = IF @ = 0 THEN -1 ELSE @])
=============================================================================
