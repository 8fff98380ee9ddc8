--------------------------- MODULE ConvXmlProof -----------------------------
(***************************************************************************)
(* Proofs about the XML head and the XML conversions, for any texts, any   *)
(* lengths of their attributes and of the buffers, and any targets.        *)
(***************************************************************************)
EXTENDS ConvXml, Least, FiniteSetTheorems, SequenceTheorems, TLAPS

-----------------------------------------------------------------------------
(* Counting characters *)

\* A token has its weight of characters.
LEMMA TokenBlock ==
    ASSUME NEW i, NEW n \in Nat
    PROVE  IsFiniteSet({i} \X (1..n)) /\ Cardinality({i} \X (1..n)) = n
  <1>1. IsFiniteSet({i}) /\ Cardinality({i}) = 1
    BY FS_Singleton
  <1>2. IsFiniteSet(1..n) /\ Cardinality(1..n) = n
    BY FS_Interval
  <1>3. /\ IsFiniteSet({i} \X (1..n))
        /\ Cardinality({i} \X (1..n)) = Cardinality({i}) * Cardinality(1..n)
    BY <1>1, <1>2, FS_Product, Zenon
  <1>4. Cardinality({i} \X (1..n)) = 1 * n
    BY <1>1, <1>2, <1>3
  <1>5. QED
    BY <1>3, <1>4

\* A token more adds its weight.
LEMMA CharactersNext ==
    ASSUME NEW s \in Seq(Token), NEW m \in Nat, m < Len(s)
    PROVE  /\ Characters(SubSeq(s, 1, m + 1)) =
                  Characters(SubSeq(s, 1, m)) \cup ({m + 1} \X (1..Weight[s[m + 1]]))
           /\ Characters(SubSeq(s, 1, m)) \cap ({m + 1} \X (1..Weight[s[m + 1]])) = {}
  <1>1. Len(s) \in Nat
    BY LenProperties
  <1>2. /\ Len(SubSeq(s, 1, m)) = m
        /\ \A i \in 1..m : SubSeq(s, 1, m)[i] = s[i]
    BY <1>1
  <1>3. /\ Len(SubSeq(s, 1, m + 1)) = m + 1
        /\ \A i \in 1..(m + 1) : SubSeq(s, 1, m + 1)[i] = s[i]
    BY <1>1
  <1>4. Characters(SubSeq(s, 1, m)) = UNION {{i} \X (1..Weight[s[i]]) : i \in 1..m}
    BY <1>2 DEF Characters
  <1>5. Characters(SubSeq(s, 1, m + 1)) = UNION {{i} \X (1..Weight[s[i]]) : i \in 1..(m + 1)}
    BY <1>3 DEF Characters
  <1>6. 1..(m + 1) = (1..m) \cup {m + 1} /\ m + 1 \notin 1..m
    OBVIOUS
  <1>7. QED
    BY <1>4, <1>5, <1>6

\* The characters of the first tokens of a text are finitely many, and each token
\* more adds its weight.
LEMMA CharsNext ==
    ASSUME NEW s \in Seq(Token), NEW m \in Nat, m < Len(s),
           IsFiniteSet(Characters(SubSeq(s, 1, m)))
    PROVE  /\ IsFiniteSet(Characters(SubSeq(s, 1, m + 1)))
           /\ Chars(SubSeq(s, 1, m + 1)) = Chars(SubSeq(s, 1, m)) + Weight[s[m + 1]]
  <1> DEFINE A == Characters(SubSeq(s, 1, m))
             B == {m + 1} \X (1..Weight[s[m + 1]])
  <1>1. Weight[s[m + 1]] \in Nat
    BY TextAssumption, ElementOfSeq, LenProperties
  <1>2. Characters(SubSeq(s, 1, m + 1)) = A \cup B /\ A \cap B = {}
    BY CharactersNext
  <1>3. IsFiniteSet(B) /\ Cardinality(B) = Weight[s[m + 1]]
    BY <1>1, TokenBlock
  <1> HIDE DEF A, B
  <1>4. IsFiniteSet(A)
    BY DEF A
  <1>5. /\ IsFiniteSet(A \cup B)
        /\ Cardinality(A \cup B) = Cardinality(A) + Cardinality(B) - Cardinality(A \cap B)
    BY <1>3, <1>4, FS_Union
  <1>6. Cardinality(A \cap B) = 0 /\ Cardinality(A) \in Nat
    BY <1>2, <1>4, FS_EmptySet, FS_CardinalityType
  <1>7. Cardinality(A \cup B) = Cardinality(A) + Weight[s[m + 1]]
    BY <1>1, <1>3, <1>5, <1>6
  <1>8. QED
    BY <1>2, <1>5, <1>7 DEF Chars, A

\* The characters of any part of a text from its start are finitely many: a least
\* part for which they were not would have a part before it.
LEMMA CharsFinite ==
    ASSUME NEW s \in Seq(Token), NEW m \in 0..Len(s)
    PROVE  IsFiniteSet(Characters(SubSeq(s, 1, m)))
  <1> DEFINE T == {n \in 0..Len(s) : ~IsFiniteSet(Characters(SubSeq(s, 1, n)))}
  <1>0. Len(s) \in Nat
    BY LenProperties
  <1>1. SUFFICES T = {}
    OBVIOUS
  <1>2. SUFFICES ASSUME T # {} PROVE FALSE
    OBVIOUS
  <1>3. T \in SUBSET Nat
    BY <1>0
  <1>4. PICK n \in T : \A y \in T : n <= y
    <2> HIDE DEF T
    <2>1. QED
      BY <1>2, <1>3, NatLeast
  <1>5. n \in 0..Len(s) /\ ~IsFiniteSet(Characters(SubSeq(s, 1, n)))
    OBVIOUS
  <1>6. CASE n = 0
    <2>1. SubSeq(s, 1, 0) = << >>
      BY SubSeqEmpty
    <2>2. Characters(<< >>) = {}
      BY DEF Characters
    <2>3. QED
      BY <1>5, <1>6, <2>1, <2>2, FS_EmptySet
  <1>7. CASE n # 0
    <2>1. n - 1 \in Nat /\ n - 1 < Len(s) /\ (n - 1) + 1 = n /\ n - 1 \in 0..Len(s)
      BY <1>0, <1>5, <1>7
    <2>2. n - 1 \notin T
      BY <1>4, <2>1
    <2>3. PICK j : j = n - 1
      OBVIOUS
    <2>4. IsFiniteSet(Characters(SubSeq(s, 1, j))) /\ j \in Nat /\ j < Len(s) /\ j + 1 = n
      BY <2>1, <2>2, <2>3
    <2>5. IsFiniteSet(Characters(SubSeq(s, 1, j + 1)))
      BY <2>4, CharsNext
    <2>6. QED
      BY <1>5, <2>4, <2>5
  <1>8. QED
    BY <1>6, <1>7

\* How the count of characters goes with the number of tokens.
LEMMA CharsProps ==
    ASSUME NEW s \in Seq(Token), NEW m \in 0..Len(s)
    PROVE  /\ Chars(SubSeq(s, 1, m)) \in Nat
           /\ m < Len(s) =>
                 /\ Weight[s[m + 1]] \in Nat \ {0}
                 /\ Chars(SubSeq(s, 1, m + 1)) = Chars(SubSeq(s, 1, m)) + Weight[s[m + 1]]
           /\ m = 0 => Chars(SubSeq(s, 1, m)) = 0
  <1>1. Len(s) \in Nat /\ m \in Nat
    BY LenProperties
  <1>2. IsFiniteSet(Characters(SubSeq(s, 1, m)))
    BY CharsFinite
  <1>3. Chars(SubSeq(s, 1, m)) \in Nat
    BY <1>2, FS_CardinalityType DEF Chars
  <1>4. m < Len(s) => s[m + 1] \in Token /\ Weight[s[m + 1]] \in Nat \ {0}
    <2>1. m < Len(s) => m + 1 \in 1..Len(s)
      BY <1>1
    <2>2. QED
      BY <2>1, ElementOfSeq, TextAssumption
  <1>5. m < Len(s) => Chars(SubSeq(s, 1, m + 1)) = Chars(SubSeq(s, 1, m)) + Weight[s[m + 1]]
    BY <1>1, <1>2, CharsNext
  <1>6. m = 0 => Chars(SubSeq(s, 1, m)) = 0
    <2>1. SubSeq(s, 1, 0) = << >> /\ Characters(<< >>) = {}
      BY SubSeqEmpty DEF Characters
    <2>2. QED
      BY <2>1, FS_EmptySet DEF Chars
  <1>7. QED
    BY <1>3, <1>4, <1>5, <1>6

\* A longer part of a text has no fewer characters.
LEMMA CharsMonotone ==
    ASSUME NEW s \in Seq(Token), NEW m \in 0..Len(s), NEW n \in m..Len(s)
    PROVE  Chars(SubSeq(s, 1, m)) <= Chars(SubSeq(s, 1, n))
  <1>1. Len(s) \in Nat /\ m \in Nat /\ n \in Nat /\ m <= n /\ n \in 0..Len(s)
    BY LenProperties
  <1>2. /\ Len(SubSeq(s, 1, m)) = m /\ \A i \in 1..m : SubSeq(s, 1, m)[i] = s[i]
        /\ Len(SubSeq(s, 1, n)) = n /\ \A i \in 1..n : SubSeq(s, 1, n)[i] = s[i]
    BY <1>1
  <1>3. Characters(SubSeq(s, 1, m)) \in SUBSET Characters(SubSeq(s, 1, n))
    <2>1. Characters(SubSeq(s, 1, m)) = UNION {{i} \X (1..Weight[s[i]]) : i \in 1..m}
      BY <1>2 DEF Characters
    <2>2. Characters(SubSeq(s, 1, n)) = UNION {{i} \X (1..Weight[s[i]]) : i \in 1..n}
      BY <1>2 DEF Characters
    <2>3. 1..m \subseteq 1..n
      BY <1>1
    <2>4. QED
      BY <2>1, <2>2, <2>3
  <1>4. IsFiniteSet(Characters(SubSeq(s, 1, n)))
    BY <1>1, CharsFinite
  <1>5. QED
    BY <1>3, <1>4, FS_Subset DEF Chars

-----------------------------------------------------------------------------
(* Heads *)

\* Where the text up to its first ">" ends.
LEMMA UpToCloseAt ==
    ASSUME NEW s \in Seq(Token), NEW n \in 1..Len(s), s[n] = ">", \A i \in 1..(n - 1) : s[i] # ">"
    PROVE  UpToClose(s) = SubSeq(s, 1, n)
  <1>1. Len(s) \in Nat
    BY LenProperties
  <1> DEFINE I == {i \in 1..Len(s) : s[i] = ">"}
  <1>2. SelectInSeq(s, IsClose) = IF I # {} THEN Min(I) ELSE 0
    BY DEF SelectInSeq, IsClose
  <1>3. n \in I /\ \A i \in I : n <= i
    BY <1>1
  <1>4. Min(I) = n
    <2>1. \A x \in I : (\A y \in I : x <= y) => x = n
      BY <1>1, <1>3
    <2> HIDE DEF I
    <2>2. QED
      BY <1>3, <2>1 DEF Min
  <1> HIDE DEF I
  <1>5. SelectInSeq(s, IsClose) = n
    BY <1>2, <1>3, <1>4
  <1>6. QED
    BY <1>1, <1>5 DEF UpToClose

\* A text without ">" is taken as a whole.
LEMMA UpToCloseNone ==
    ASSUME NEW s \in Seq(Token), \A i \in 1..Len(s) : s[i] # ">"
    PROVE  UpToClose(s) = s
  <1>1. {i \in 1..Len(s) : s[i] = ">"} = {}
    OBVIOUS
  <1>2. SelectInSeq(s, IsClose) = 0
    BY <1>1 DEF SelectInSeq, IsClose
  <1>3. QED
    BY <1>2 DEF UpToClose

\* The text up to its first ">" is a part of the text from its start.
LEMMA UpToCloseProps ==
    ASSUME NEW s \in Seq(Token)
    PROVE  \E n \in 0..Len(s) :
             /\ UpToClose(s) = SubSeq(s, 1, n)
             /\ \A i \in 1..(n - 1) : s[i] # ">"
             /\ \/ n > 0 /\ s[n] = ">"
                \/ n = Len(s) /\ \A i \in 1..Len(s) : s[i] # ">"
  <1>1. Len(s) \in Nat
    BY LenProperties
  <1> DEFINE I == {i \in 1..Len(s) : s[i] = ">"}
  <1>2. CASE I = {}
    <2>1. \A i \in 1..Len(s) : s[i] # ">"
      BY <1>2
    <2>2. UpToClose(s) = SubSeq(s, 1, Len(s))
      BY <2>1, UpToCloseNone, SubSeqFull
    <2>3. Len(s) \in 0..Len(s)
      BY <1>1
    <2>4. QED
      BY <1>1, <2>1, <2>2, <2>3
  <1>3. CASE I # {}
    <2>1. I \in SUBSET Nat
      BY <1>1
    <2>2. PICK n \in I : \A y \in I : n <= y
      <3> HIDE DEF I
      <3>1. QED
        BY <1>3, <2>1, NatLeast
    <2>3. n \in 1..Len(s) /\ s[n] = ">"
      OBVIOUS
    <2>4. \A i \in 1..(n - 1) : s[i] # ">"
      <3>1. \A i \in 1..(n - 1) : i \in 1..Len(s) /\ ~(n <= i)
        BY <1>1, <2>3
      <3>2. QED
        BY <2>2, <3>1
    <2>5. UpToClose(s) = SubSeq(s, 1, n)
      BY <2>3, <2>4, UpToCloseAt
    <2>6. n \in 0..Len(s) /\ n > 0
      BY <1>1, <2>3
    <2>7. QED
      BY <2>3, <2>4, <2>5, <2>6
  <1>4. QED
    BY <1>2, <1>3

\* The first token, and the first two, as a sequence.
LEMMA FirstToken ==
    ASSUME NEW s \in Seq(Token), Len(s) >= 1
    PROVE  SubSeq(s, 1, 1) = <<s[1]>>
  <1>1. Len(s) \in Nat
    BY LenProperties
  <1>2. s[1] \in Token
    BY <1>1
  <1>3. SubSeq(s, 1, 1) \in Seq(Token) /\ Len(SubSeq(s, 1, 1)) = 1
    BY <1>1
  <1>4. SubSeq(s, 1, 1)[1] = s[1]
    BY <1>1
  <1>5. <<s[1]>> \in Seq(Token) /\ Len(<<s[1]>>) = 1 /\ <<s[1]>>[1] = s[1]
    BY <1>2
  <1>6. \A i \in 1..1 : SubSeq(s, 1, 1)[i] = <<s[1]>>[i]
    BY <1>4, <1>5
  <1>7. QED
    BY <1>3, <1>5, <1>6, SeqEqual

LEMMA FirstTwoTokens ==
    ASSUME NEW s \in Seq(Token), Len(s) >= 2
    PROVE  SubSeq(s, 1, 2) = <<s[1], s[2]>>
  <1>1. Len(s) \in Nat
    BY LenProperties
  <1>2. s[1] \in Token /\ s[2] \in Token
    BY <1>1
  <1>3. SubSeq(s, 1, 2) \in Seq(Token) /\ Len(SubSeq(s, 1, 2)) = 2
    BY <1>1
  <1>4. SubSeq(s, 1, 2)[1] = s[1] /\ SubSeq(s, 1, 2)[2] = s[2]
    <2>1. SubSeq(s, 1, 2)[1] = s[1]
      BY <1>1
    <2>2. SubSeq(s, 1, 2)[2] = s[2]
      BY <1>1
    <2>3. QED
      BY <2>1, <2>2
  <1>5. /\ <<s[1], s[2]>> \in Seq(Token) /\ Len(<<s[1], s[2]>>) = 2
        /\ <<s[1], s[2]>>[1] = s[1] /\ <<s[1], s[2]>>[2] = s[2]
    BY <1>2
  <1>6. \A i \in 1..2 : SubSeq(s, 1, 2)[i] = <<s[1], s[2]>>[i]
    BY <1>4, <1>5
  <1>7. QED
    BY <1>3, <1>5, <1>6, SeqEqual

\* The ends of a well formed head.
LEMMA WellFormedEnds ==
    ASSUME NEW s \in Seq(Token)
    PROVE  WellFormed(s) <=>
             /\ Len(s) >= 2 /\ s[1] = "decl" /\ s[Len(s)] = ">" /\ s[Len(s) - 1] = "?"
             /\ \E v \in 1..Len(s) : IsVersion(s[v])
             /\ Chars(s) > 20
  <1>1. Len(s) \in Nat
    BY LenProperties
  <1>2. IsPrefix(<<"decl">>, s) <=> Len(s) >= 1 /\ s[1] = "decl"
    <2>1. PICK d : d = <<"decl">>
      OBVIOUS
    <2>2. d \in Seq(Token) /\ Len(d) = 1 /\ d[1] = "decl"
      BY <2>1 DEF Token
    <2>3. SubSeq(d, 1, 1) = <<"decl">>
      BY <2>2, FirstToken
    <2>4. Len(s) >= 1 => SubSeq(s, 1, 1) = <<s[1]>>
      BY FirstToken
    <2>5. IsPrefix(d, s) <=> Len(s) >= 1 /\ <<"decl">> = SubSeq(s, 1, 1)
      BY <1>1, <2>2, <2>3 DEF IsPrefix
    <2>6. <<"decl">> = <<s[1]>> <=> s[1] = "decl"
      OBVIOUS
    <2>7. QED
      BY <2>1, <2>4, <2>5, <2>6
  <1>3. IsSuffix(<<"?", ">">>, s) <=> Len(s) >= 2 /\ s[Len(s)] = ">" /\ s[Len(s) - 1] = "?"
    <2>1. PICK r : r = Reverse(s)
      OBVIOUS
    <2>2. PICK e : e = Reverse(<<"?", ">">>)
      OBVIOUS
    <2>3. /\ r \in Seq(Token) /\ Len(r) = Len(s) /\ (Len(s) >= 1 => r[1] = s[Len(s)])
          /\ (Len(s) >= 2 => r[2] = s[Len(s) - 1])
      <3>1. r = [j \in 1..Len(s) |-> s[(Len(s) - j) + 1]]
        BY <2>1 DEF Reverse
      <3>2. Len(s) >= 1 => (Len(s) - 1) + 1 = Len(s) /\ 1 \in 1..Len(s)
        BY <1>1
      <3>3. Len(s) >= 2 => (Len(s) - 2) + 1 = Len(s) - 1 /\ 2 \in 1..Len(s)
        BY <1>1
      <3>4. \A j \in 1..Len(s) : s[(Len(s) - j) + 1] \in Token
        BY <1>1
      <3>5. r \in Seq(Token)
        BY <1>1, <3>1, <3>4
      <3>6. QED
        BY <1>1, <3>1, <3>2, <3>3, <3>5
    <2>4. e \in Seq(Token) /\ Len(e) = 2 /\ e[1] = ">" /\ e[2] = "?"
      <3>1. PICK q : q = <<"?", ">">>
        OBVIOUS
      <3>2. Len(q) = 2 /\ q[1] = "?" /\ q[2] = ">"
        BY <3>1
      <3>3. e = [j \in 1..2 |-> q[(2 - j) + 1]]
        BY <2>2, <3>1, <3>2 DEF Reverse
      <3>4. e[1] = ">" /\ e[2] = "?" /\ Len(e) = 2
        BY <3>2, <3>3
      <3>5. \A j \in 1..2 : q[(2 - j) + 1] \in Token
        BY <3>2 DEF Token
      <3>6. QED
        BY <3>3, <3>4, <3>5
    <2>5. SubSeq(e, 1, 2) = <<">", "?">>
      BY <2>4, FirstTwoTokens, SMTT(30)
    <2>6. Len(s) >= 2 => SubSeq(r, 1, 2) = <<s[Len(s)], s[Len(s) - 1]>>
      BY <2>3, FirstTwoTokens
    <2>7. IsPrefix(e, r) <=> Len(s) >= 2 /\ <<">", "?">> = SubSeq(r, 1, 2)
      BY <1>1, <2>3, <2>4, <2>5 DEF IsPrefix
    <2>8. <<">", "?">> = <<s[Len(s)], s[Len(s) - 1]>> <=> s[Len(s)] = ">" /\ s[Len(s) - 1] = "?"
      OBVIOUS
    <2>9. QED
      BY <2>1, <2>2, <2>6, <2>7, <2>8 DEF IsSuffix
  <1>4. Versions \cap ToSet(s) # {} <=> \E v \in 1..Len(s) : IsVersion(s[v])
    BY DEF ToSet, IsVersion
  <1>5. QED
    BY <1>1, <1>2, <1>3, <1>4 DEF WellFormed

\* What XML_text_parse_head asks of headbuf holds of a well formed head, and of
\* nothing else.
LEMMA HeadIsWellFormed ==
    ASSUME NEW s \in Seq(Token)
    PROVE  IsHead(s) <=> WellFormed(s)
  <1>1. PICK n \in Nat : n = Len(s)
    BY LenProperties
  <1>2. IsHead(s) => n # 0
    <2>1. SUFFICES ASSUME IsHead(s), n = 0 PROVE FALSE
      OBVIOUS
    <2>2. \E i \in 1..0 : IsVersion(s[i])
      BY <1>1, <2>1 DEF IsHead
    <2>3. QED
      BY <2>2
  <1>3. IsHead(s) => n # 1
    BY <1>1 DEF IsHead
  <1>4. QED
    BY <1>1, <1>2, <1>3, WellFormedEnds DEF IsHead

\* The head that is printed: what it is made of and where it ends.
LEMMA PrintedTokens ==
    ASSUME NEW v \in Versions, NEW e \in Encodings, NEW h, h = HeadTokens(v, e)
    PROVE  /\ h \in Seq(Token) /\ Len(h) = 5
           /\ h[1] = "decl" /\ h[2] = v /\ h[3] = e /\ h[4] = "?" /\ h[5] = ">"
           /\ Chars(h) \in Nat \ {0}
           /\ UpToClose(h) = h
           /\ Chars(h) > 20 => IsHead(h)
  <1>1. h = <<"decl", v, e, "?", ">">> /\ v \in Token /\ e \in Token
    BY DEF HeadTokens, Token
  <1>2. /\ h \in Seq(Token) /\ Len(h) = 5
        /\ h[1] = "decl" /\ h[2] = v /\ h[3] = e /\ h[4] = "?" /\ h[5] = ">"
    <2>1. "decl" \in Token /\ "?" \in Token /\ ">" \in Token
      BY DEF Token
    <2>2. QED
      BY <1>1, <2>1
  <1>3. Chars(h) > 20 => IsHead(h)
    <2>1. 2 \in 1..5 /\ 5 - 1 = 4
      OBVIOUS
    <2>2. IsVersion(h[2])
      BY <1>2 DEF IsVersion
    <2>3. QED
      BY <1>2, <2>1, <2>2 DEF IsHead
  <1>4. SubSeq(h, 1, 5) = h
    BY <1>2, SubSeqFull
  <1>5. UpToClose(h) = h
    <2>1. v # ">" /\ e # ">"
      BY DEF Versions, Encodings
    <2>2. \A i \in 1..(5 - 1) : h[i] # ">"
      BY <1>2, <2>1
    <2>3. 5 \in 1..Len(h)
      BY <1>2
    <2>4. UpToClose(h) = SubSeq(h, 1, 5)
      BY <1>2, <2>2, <2>3, UpToCloseAt
    <2>5. QED
      BY <1>4, <2>4
  <1>6. Chars(h) \in Nat \ {0}
    <2>1. 4 \in 0..Len(h) /\ 4 < Len(h) /\ 4 + 1 = 5
      BY <1>2
    <2>2. /\ Chars(SubSeq(h, 1, 4)) \in Nat
          /\ Weight[h[5]] \in Nat \ {0}
          /\ Chars(SubSeq(h, 1, 5)) = Chars(SubSeq(h, 1, 4)) + Weight[h[5]]
      BY <1>2, <2>1, CharsProps
    <2>3. Chars(SubSeq(h, 1, 5)) \in Nat \ {0}
      <3> DEFINE c == Chars(SubSeq(h, 1, 4))
                 w == Weight[h[5]]
      <3>1. c \in Nat /\ w \in Nat \ {0} => c + w \in Nat \ {0}
        <4> HIDE DEF c, w
        <4> QED
          OBVIOUS
      <3>2. QED
        BY <2>2, <3>1
    <2>4. QED
      BY <1>4, <2>3
  <1>7. QED
    BY <1>2, <1>3, <1>5, <1>6

\* Its version and its encoding are found.
LEMMA PrintedAttributes ==
    ASSUME NEW h \in ClientHeads
    PROVE  /\ h \in Seq(Token) /\ Len(h) = 5 /\ h[5] = ">"
           /\ UpToClose(h) = h /\ IsHead(h)
           /\ FirstVersion(h) = h[2] /\ h[2] \in {"verEmpty", "verShort", "version"}
           /\ EncodingMember(h) = "encFrom"
           /\ VersionMember(h[2]) = IF h[2] = "version" THEN "given" ELSE "empty"
  <1>1. PICK v \in {"verEmpty", "verShort", "version"} : h = HeadTokens(v, "encFrom")
    BY DEF ClientHeads
  <1>2. v \in Versions /\ "encFrom" \in Encodings
    BY DEF Versions, Encodings
  <1>3. /\ h \in Seq(Token) /\ Len(h) = 5 /\ UpToClose(h) = h
        /\ h[1] = "decl" /\ h[2] = v /\ h[3] = "encFrom" /\ h[4] = "?" /\ h[5] = ">"
        /\ Chars(h) > 20 => IsHead(h)
    BY <1>1, <1>2, PrintedTokens
  <1>4. IsHead(h)
    BY <1>1, <1>3, PrintedAssumption
  <1>5. SelectInSeq(h, IsVersion) = 2
    <2>1. {i \in 1..5 : h[i] \in Versions} = {2}
      BY <1>2, <1>3 DEF Versions
    <2>2. Min({2}) = 2
      BY DEF Min
    <2>3. QED
      BY <1>3, <2>1, <2>2 DEF SelectInSeq, IsVersion
  <1>6. SelectInSeq(h, IsEncoding) = 3
    <2>1. {i \in 1..5 : h[i] \in Encodings} = {3}
      BY <1>3 DEF Encodings
    <2>2. Min({3}) = 3
      BY DEF Min
    <2>3. QED
      BY <1>3, <2>1, <2>2 DEF SelectInSeq, IsEncoding
  <1>7. FirstVersion(h) = v
    BY <1>3, <1>5 DEF FirstVersion
  <1>8. EncodingMember(h) = "encFrom"
    BY <1>3, <1>6 DEF EncodingMember, FirstEncoding
  <1>9. VersionMember(v) = IF v = "version" THEN "given" ELSE "empty"
    BY DEF VersionMember
  <1>10. QED
    BY <1>3, <1>4, <1>7, <1>8, <1>9

\* Only a version longer than its member becomes the encoding, and only where no
\* encoding is declared.
LEMMA LongOrDeclared ==
    ASSUME NEW s, EncodingMember(s) = "encFrom"
    PROVE  FirstEncoding(s) = "encFrom" \/ (FirstEncoding(s) = "empty" /\ LongVersion(s))
  <1>1. CASE FirstEncoding(s) # "empty"
    BY <1>1 DEF EncodingMember
  <1>2. CASE FirstEncoding(s) = "empty"
    <2>1. PICK v : v = FirstVersion(s)
      OBVIOUS
    <2>2. RunsOn(v) = "encFrom"
      BY <1>2, <2>1 DEF EncodingMember
    <2>3. v = "verFrom"
      BY <2>2 DEF RunsOn
    <2>4. VersionMember(v) = "open"
      BY <2>3 DEF VersionMember
    <2>5. QED
      BY <1>2, <2>1, <2>4 DEF LongVersion
  <1>3. QED
    BY <1>1, <1>2

-----------------------------------------------------------------------------
(* Bytes *)

\* The width of a character and the length of a mark.
LEMMA Widths ==
    ASSUME NEW bom \in Bom
    PROVE  Unit(bom) \in {1, 2, 4} /\ MarkLen(bom) \in 0..4
  BY DEF Bom, Unit, MarkLen

\* Whole characters in a number of bytes.
LEMMA WholeCharacters ==
    ASSUME NEW u \in {1, 2, 4}, NEW d \in Int, NEW w \in Int
    PROVE  /\ d \div u \in Int
           /\ u * w <= d <=> w <= d \div u
  <1>1. CASE u = 1
    BY <1>1
  <1>2. CASE u = 2
    BY <1>2
  <1>3. CASE u = 4
    BY <1>3
  <1>4. QED
    BY <1>1, <1>2, <1>3

\* Bytes grow with characters.
LEMMA BytesGrow ==
    ASSUME NEW u \in {1, 2, 4}, NEW a \in Int, NEW b \in Int
    PROVE  /\ u * a \in Int /\ u * (a + b) = u * a + u * b
           /\ a <= b <=> u * a <= u * b
           /\ a >= 0 => a <= u * a
  <1>1. CASE u = 1
    BY <1>1
  <1>2. CASE u = 2
    BY <1>2
  <1>3. CASE u = 4
    BY <1>3
  <1>4. QED
    BY <1>1, <1>2, <1>3

\* The lengths of the input and of its head.
LEMMA InputBytes ==
    ASSUME input \in [bom : Bom, tokens : Seq(Token)]
    PROVE  /\ Bytes(input) = MarkLen(input.bom) + Unit(input.bom) * Chars(input.tokens)
           /\ Bytes(input) \in Nat
           /\ HeadBytes = MarkLen(input.bom) + Unit(input.bom) * Chars(UpToClose(input.tokens))
           /\ HeadBytes \in Nat
           /\ Chars(UpToClose(input.tokens)) \in Nat
           /\ Chars(input.tokens) = Chars(SubSeq(input.tokens, 1, Len(input.tokens)))
           /\ UpToClose(input.tokens) \in Seq(Token)
           /\ HeadBytes >= Chars(UpToClose(input.tokens))
  <1>1. PICK s \in Seq(Token) : s = input.tokens
    OBVIOUS
  <1>2. PICK b \in Bom : b = input.bom
    OBVIOUS
  <1>3. Unit(b) \in {1, 2, 4} /\ MarkLen(b) \in Nat
    BY Widths
  <1>4. SubSeq(s, 1, Len(s)) = s /\ Len(s) \in 0..Len(s) /\ Len(s) \in Nat
    BY SubSeqFull, LenProperties
  <1>5. Chars(s) \in Nat
    BY <1>4, CharsProps
  <1>6. PICK n \in 0..Len(s) : UpToClose(s) = SubSeq(s, 1, n)
    BY UpToCloseProps
  <1>7. Chars(UpToClose(s)) \in Nat
    BY <1>6, CharsProps
  <1>8. SubSeq(s, 1, n) \in Seq(Token)
    BY <1>4, <1>6
  <1>9. Unit(b) * Chars(s) \in Nat /\ Unit(b) * Chars(UpToClose(s)) \in Nat
        /\ Unit(b) * Chars(UpToClose(s)) >= Chars(UpToClose(s))
    <2>1. \A c \in Nat : Unit(b) * c \in Nat /\ Unit(b) * c >= c
      BY <1>3
    <2>2. QED
      BY <1>5, <1>7, <2>1
  <1>10. Bytes(input) = MarkLen(b) + Unit(b) * Chars(s)
    BY <1>1, <1>2 DEF Bytes
  <1>11. HeadBytes = MarkLen(b) + Unit(b) * Chars(UpToClose(s))
    BY <1>1, <1>2 DEF Bytes, HeadBytes
  <1>12. Bytes(input) \in Nat /\ HeadBytes \in Nat /\ HeadBytes >= Chars(UpToClose(s))
    <2>1. PICK m \in Nat : m = MarkLen(b)
      BY <1>3
    <2>2. PICK c \in Nat : c = Chars(UpToClose(s))
      BY <1>7
    <2>3. PICK x \in Nat : x = Unit(b) * Chars(s)
      BY <1>9
    <2>4. PICK y \in Nat : y = Unit(b) * Chars(UpToClose(s))
      BY <1>9
    <2>5. y >= c
      BY <1>9, <2>2, <2>4
    <2>6. Bytes(input) = m + x /\ HeadBytes = m + y
      BY <1>10, <1>11, <2>1, <2>3, <2>4
    <2>7. QED
      BY <2>2, <2>5, <2>6
  <1>13. UpToClose(s) \in Seq(Token) /\ Chars(s) = Chars(SubSeq(s, 1, Len(s)))
    BY <1>4, <1>6, <1>8, Zenon
  <1>14. QED
    BY <1>1, <1>2, <1>7, <1>10, <1>11, <1>12, <1>13, Zenon

-----------------------------------------------------------------------------
(* What the scan reads *)

\* A token that lies within the bytes of the input is not left over.
LEMMA NotLeftOver ==
    ASSUME TypeOK, NEW n \in Nat, k < n, n <= Len(input.tokens),
           offset = MarkLen(input.bom) + Unit(input.bom) * Chars(TokensRead),
           MarkLen(input.bom) + Unit(input.bom) * Chars(SubSeq(input.tokens, 1, n)) <= blen
    PROVE  Left > 0 /\ Weight[NextToken] <= Left
  <1>1. PICK s \in Seq(Token) : s = input.tokens
    BY DEF TypeOK
  <1>2. PICK u \in {1, 2, 4} : u = Unit(input.bom)
    BY Widths DEF TypeOK
  <1>3. PICK m \in Nat : m = MarkLen(input.bom)
    BY Widths DEF TypeOK
  <1>4. k \in Nat /\ Len(s) \in Nat /\ k < Len(s) /\ k + 1 \in 0..Len(s) /\ k \in 0..Len(s)
        /\ n \in (k + 1)..Len(s) /\ n \in 0..Len(s) /\ blen \in Int /\ offset \in Int
    BY <1>1, LenProperties DEF TypeOK
  <1>5. PICK a \in Nat : a = Chars(SubSeq(s, 1, k))
    BY <1>4, CharsProps
  <1>6. PICK w \in Nat \ {0} : w = Weight[s[k + 1]]
    BY <1>4, CharsProps
  <1>7. Chars(SubSeq(s, 1, k + 1)) = a + w
    BY <1>4, <1>5, <1>6, CharsProps
  <1>8. PICK c \in Nat : c = Chars(SubSeq(s, 1, n))
    BY <1>4, CharsProps
  <1>9. a + w <= c
    BY <1>4, <1>7, <1>8, CharsMonotone
  <1>10. PICK d \in Int : d = blen - offset
    BY <1>4
  <1>11. offset = m + u * a /\ m + u * c <= blen
    BY <1>1, <1>2, <1>3, <1>5, <1>8 DEF TokensRead
  <1>12. u * w <= d
    <2>1. u * (a + w) = u * a + u * w /\ u * a \in Int /\ u * w \in Int
      BY BytesGrow
    <2>2. u * (a + w) <= u * c /\ u * c \in Int
      BY <1>9, BytesGrow
    <2>3. PICK x \in Int, y \in Int, z \in Int : x = u * a /\ y = u * w /\ z = u * c
      BY <2>1, <2>2
    <2>4. x + y <= z
      BY <2>1, <2>2, <2>3
    <2>5. offset = m + x /\ m + z <= blen
      BY <1>11, <2>3
    <2>6. y <= d
      BY <1>4, <1>10, <2>4, <2>5
    <2>7. QED
      BY <2>3, <2>6
  <1>13. w <= d \div u /\ d \div u \in Int
    BY <1>12, WholeCharacters
  <1>14. Left = d \div u
    BY <1>2, <1>10 DEF Left
  <1>15. Weight[NextToken] = w
    BY <1>1, <1>6 DEF NextToken
  <1>16. QED
    BY <1>13, <1>14, <1>15

\* Where the scan stopped at a ">", headbuf holds the text up to the first one.
LEMMA HeadFound ==
    ASSUME TypeOK, Scanned, pc = "parse", found
    PROVE  /\ TokensRead \in Seq(Token) /\ TokensRead = UpToClose(input.tokens)
           /\ offset = HeadBytes
           /\ IsHead(TokensRead) <=> WholeHead
  <1>1. PICK s \in Seq(Token) : s = input.tokens
    BY DEF TypeOK
  <1>2. k \in 1..Len(s) /\ s[k] = ">" /\ \A i \in 1..(k - 1) : s[i] # ">"
    BY <1>1, LenProperties DEF TypeOK, Scanned
  <1>3. UpToClose(s) = SubSeq(s, 1, k)
    BY <1>2, UpToCloseAt
  <1>4. TokensRead = UpToClose(input.tokens)
    BY <1>1, <1>3 DEF TokensRead
  <1>5. TokensRead \in Seq(Token)
    BY <1>4, InputBytes DEF TypeOK
  <1>6. headlen = Chars(TokensRead) /\ offset = MarkLen(input.bom) + Unit(input.bom) * headlen
        /\ offset <= blen /\ headlen < HEADBUF
    BY <1>2, SizeAssumption DEF Scanned, TypeOK
  <1>7. offset = HeadBytes
    BY <1>4, <1>6, InputBytes DEF TypeOK
  <1>8. IsHead(TokensRead) <=> WellFormed(TokensRead)
    BY <1>5, HeadIsWellFormed
  <1>9. QED
    BY <1>4, <1>5, <1>6, <1>7, <1>8 DEF WholeHead

\* Where it did not, the text up to its first ">" was not in the input.
LEMMA HeadNotFound ==
    ASSUME TypeOK, Scanned, pc = "parse", ~found,
           NEW n \in 1..Len(input.tokens), input.tokens[n] = ">",
           UpToClose(input.tokens) = SubSeq(input.tokens, 1, n)
    PROVE  HeadBytes > blen
  <1>1. PICK s \in Seq(Token) : s = input.tokens
    BY DEF TypeOK
  <1>2. k \in Nat /\ n \in Nat /\ Len(s) \in Nat /\ n <= Len(s) /\ blen \in Int
    BY <1>1, LenProperties DEF TypeOK
  <1>3. k < n
    <2>1. n # k
      BY <1>2 DEF Scanned
    <2>2. n \notin 1..(k - 1)
      BY DEF Scanned
    <2>3. QED
      BY <1>2, <2>1, <2>2
  <1>4. SUFFICES ASSUME ~(HeadBytes > blen) PROVE FALSE
    OBVIOUS
  <1>5. HeadBytes \in Nat
    BY InputBytes DEF TypeOK
  <1>6. HeadBytes <= blen
    BY <1>2, <1>4, <1>5
  <1>7. MarkLen(input.bom) + Unit(input.bom) * Chars(SubSeq(input.tokens, 1, n)) <= blen
    BY <1>6, InputBytes DEF TypeOK
  <1>8. offset = MarkLen(input.bom) + Unit(input.bom) * Chars(TokensRead)
    BY DEF Scanned
  <1>9. Left > 0 /\ Weight[NextToken] <= Left
    BY <1>1, <1>2, <1>3, <1>7, <1>8, NotLeftOver
  <1>10. Weight[NextToken] > Left
    BY <1>9 DEF Scanned
  <1>11. Weight[NextToken] \in Nat
    <2>1. k + 1 \in 1..Len(s)
      BY <1>2, <1>3
    <2>2. s[k + 1] \in Token
      BY <2>1, ElementOfSeq
    <2>3. QED
      BY <1>1, <2>2, TextAssumption DEF NextToken
  <1>12. Left \in Int
    <2>1. PICK u \in {1, 2, 4} : u = Unit(input.bom)
      BY Widths DEF TypeOK
    <2>2. PICK d \in Int : d = blen - offset
      BY DEF TypeOK
    <2>3. QED
      BY <2>1, <2>2, WholeCharacters DEF Left
  <1>13. QED
    BY <1>9, <1>10, <1>11, <1>12

\* XML_text_parse_head finds what it should find.
LEMMA HeadParsed ==
    ASSUME TypeOK, Scanned, pc = "parse"
    PROVE  /\ found /\ IsHead(TokensRead) <=> WholeHead
           /\ WholeHead => /\ TokensRead = UpToClose(input.tokens)
                           /\ offset = HeadBytes /\ offset > 0
  <1>1. CASE found
    <2>1. WholeHead => HeadBytes > 0
      <3>1. WholeHead => Chars(UpToClose(input.tokens)) > 20
        BY <1>1, HeadFound DEF IsHead
      <3>2. QED
        BY <3>1, InputBytes DEF TypeOK
    <2>2. QED
      BY <1>1, <2>1, HeadFound
  <1>2. CASE ~found
    <2>1. SUFFICES ASSUME WholeHead PROVE FALSE
      BY <1>2
    <2>2. PICK s \in Seq(Token) : s = input.tokens
      BY DEF TypeOK
    <2>3. PICK n \in 0..Len(s) :
             /\ UpToClose(s) = SubSeq(s, 1, n)
             /\ \/ n > 0 /\ s[n] = ">"
                \/ n = Len(s) /\ \A i \in 1..Len(s) : s[i] # ">"
      BY UpToCloseProps
    <2>4. Len(s) \in Nat /\ n \in Nat
      BY <2>3, LenProperties
    <2>5. PICK h : h = UpToClose(s)
      OBVIOUS
    <2>6. h \in Seq(Token) /\ Len(h) >= 2 /\ h[Len(h)] = ">"
      BY <2>1, <2>2, <2>5, InputBytes, WellFormedEnds DEF WholeHead, TypeOK
    <2>7. Len(h) = n /\ \A i \in 1..n : h[i] = s[i]
      BY <2>3, <2>4, <2>5
    <2>8. n >= 2 /\ s[n] = ">" /\ n \in 1..Len(s)
      BY <2>4, <2>6, <2>7
    <2>9. HeadBytes > blen
      BY <1>2, <2>2, <2>3, <2>8, HeadNotFound
    <2>10. HeadBytes <= blen /\ HeadBytes \in Nat /\ blen \in Int
      BY <2>1, InputBytes DEF WholeHead, TypeOK
    <2>11. QED
      BY <2>9, <2>10
  <1>3. QED
    BY <1>1, <1>2

-----------------------------------------------------------------------------
(* Every step keeps the invariant *)

\* The call and what is derived from it alone stay.
LEMMA CallKept ==
    ASSUME UNCHANGED call
    PROVE  /\ op' = op /\ input' = input /\ tocode' = tocode /\ room' = room
           /\ HeadBytes' = HeadBytes
           /\ blen' = blen => WholeHead' = WholeHead
  BY DEF call, HeadBytes, WholeHead

\* At the start and during the scan nothing is put out.
LEMMA Begin ==
    ASSUME IInv, pc = "start", NEW n \in Nat \cup {-1}, BeginScan(n), n <= Bytes(input),
           op = "format" => n = Bytes(input) /\ n < room
    PROVE  IInv'
  <1>1. /\ op' = op /\ input' = input /\ tocode' = tocode /\ room' = room
        /\ k' = k /\ headlen' = headlen /\ found' = found /\ xmlhead' = xmlhead
        /\ out' = out /\ ret' = ret
        /\ pc' = "scan" /\ blen' = n /\ offset' = MarkLen(input.bom)
    BY DEF BeginScan, call
  <1>2. MarkLen(input.bom) \in Nat
    BY Widths DEF IInv, TypeOK
  <1>3. TypeOK'
    BY <1>1, <1>2 DEF IInv, TypeOK
  <1>4. Scanned'
    <2>1. k = 0 /\ ~found
      BY DEF IInv, Scanned
    <2>2. TokensRead' = TokensRead
      BY <1>1 DEF TokensRead
    <2>3. headlen = Chars(TokensRead)
      BY DEF IInv, Scanned
    <2>4. headlen = 0
      <3>1. PICK s \in Seq(Token) : s = input.tokens
        BY DEF IInv, TypeOK
      <3>2. 0 \in 0..Len(s)
        BY LenProperties
      <3>3. Chars(SubSeq(s, 1, 0)) = 0
        BY <3>2, CharsProps
      <3>4. QED
        BY <2>1, <2>3, <3>1, <3>3 DEF TokensRead
    <2>5. MarkLen(input.bom) = MarkLen(input.bom) + Unit(input.bom) * 0
      <3>1. PICK u \in {1, 2, 4} : u = Unit(input.bom)
        BY Widths DEF IInv, TypeOK
      <3>2. u * 0 = 0
        OBVIOUS
      <3>3. QED
        BY <1>2, <3>1, <3>2
    <2>6. Bytes(input)' = Bytes(input)
      BY <1>1
    <2>7. op = "format" => input.tokens \in ClientHeads
      BY DEF IInv, Scanned
    <2>8. QED
      BY <1>1, <2>1, <2>2, <2>3, <2>4, <2>5, <2>6, <2>7 DEF Scanned
  <1>5. Parsed' /\ HeadPut'
    BY <1>1 DEF IInv, Parsed, HeadPut
  <1>6. out' = NoOut /\ out'.from = -1
    BY <1>1 DEF IInv, Parsed, NoOut
  <1>7. /\ ConvertsBehindHead' /\ OnlyDeclared' /\ HeadNamesTarget'
        /\ ResultIsLength' /\ FormatThenParse'
    BY <1>1, <1>6
    DEF ConvertsBehindHead, OnlyDeclared, HeadNamesTarget, ResultIsLength, FormatThenParse
  <1>8. QED
    BY <1>3, <1>4, <1>5, <1>7 DEF IInv

LEMMA StartTextStep ==
    ASSUME IInv, StartText
    PROVE  IInv'
  <1>1. Bytes(input) \in Nat
    BY InputBytes DEF IInv, TypeOK
  <1>2. QED
    BY <1>1, Begin DEF StartText

LEMMA StartFileStep ==
    ASSUME IInv, StartFile \/ ReadFile
    PROVE  IInv'
  <1>1. Bytes(input) \in Nat
    BY InputBytes DEF IInv, TypeOK
  <1>2. CASE StartFile
    <2>1. MinOf(FILEHEAD, Bytes(input)) \in Nat /\ MinOf(FILEHEAD, Bytes(input)) <= Bytes(input)
      BY <1>1, SizeAssumption DEF MinOf
    <2>2. QED
      BY <1>2, <2>1, Begin DEF StartFile
  <1>3. CASE ReadFile
    <2>1. -1 \in Nat \cup {-1} /\ -1 <= Bytes(input)
      BY <1>1
    <2>2. QED
      BY <1>3, <2>1, Begin DEF ReadFile
  <1>4. QED
    BY <1>2, <1>3

\* A call that returns without a text put out and without a length.
LEMMA GivesUp ==
    ASSUME IInv, NEW r \in Int, Return(r), r <= 0,
           UNCHANGED <<call, blen, scan, xmlhead, out>>,
           pc \in {"start", "encoding", "head"},
           op = "text" => r < 0,
           op = "format" => r = 0 /\ (Bytes(input) < room => Bytes(input) = 0)
    PROVE  IInv'
  <1>1. /\ op' = op /\ input' = input /\ tocode' = tocode /\ room' = room /\ blen' = blen
        /\ k' = k /\ headlen' = headlen /\ offset' = offset /\ found' = found
        /\ xmlhead' = xmlhead /\ out' = out /\ pc' = "done" /\ ret' = r
    BY DEF call, scan, Return
  <1>2. TypeOK'
    BY <1>1 DEF IInv, TypeOK
  <1>3. Scanned'
    <2>1. TokensRead' = TokensRead
      BY <1>1 DEF TokensRead
    <2>2. QED
      BY <1>1, <2>1 DEF IInv, Scanned
  <1>4. Parsed' /\ HeadPut'
    BY <1>1 DEF Parsed, HeadPut
  <1>5. out'.from = -1
    BY <1>1 DEF IInv, Parsed, NoOut
  <1>6. ConvertsBehindHead' /\ OnlyDeclared' /\ HeadNamesTarget'
    BY <1>5 DEF ConvertsBehindHead, OnlyDeclared, HeadNamesTarget
  <1>7. ResultIsLength'
    BY <1>1 DEF ResultIsLength
  <1>8. FormatThenParse'
    <2>1. Bytes(input)' = Bytes(input)
      BY <1>1
    <2>2. QED
      BY <1>1, <2>1 DEF FormatThenParse
  <1>9. QED
    BY <1>2, <1>3, <1>4, <1>6, <1>7, <1>8 DEF IInv

LEMMA OpenFileStep ==
    ASSUME IInv, OpenFile
    PROVE  IInv'
  BY GivesUp DEF OpenFile, CONVD_ERR_FILE

LEMMA NoXmlFileStep ==
    ASSUME IInv, NoXmlFile
    PROVE  IInv'
  BY GivesUp DEF NoXmlFile, CONVD_ERR_FILE

LEMMA StartFormatStep ==
    ASSUME IInv, StartFormat
    PROVE  IInv'
  <1>1. input \in [bom : Bom, tokens : Seq(Token)] /\ input.tokens \in ClientHeads
        /\ room \in Nat
    BY DEF IInv, TypeOK, Scanned, StartFormat
  <1>2. Bytes(input) \in Nat
    BY <1>1, InputBytes
  <1>3. Bytes([bom |-> input.bom, tokens |-> input.tokens]) = Bytes(input)
    BY <1>1
  <1>4. conv_xmlhead_format(input.bom, input.tokens, room) =
            IF Bytes(input) < room THEN Bytes(input) ELSE 0
    BY <1>3 DEF conv_xmlhead_format
  <1>5. CASE conv_xmlhead_format(input.bom, input.tokens, room) > 0
    <2>1. Bytes(input) < room /\ BeginScan(Bytes(input)) /\ pc = "start"
      BY <1>2, <1>4, <1>5 DEF StartFormat
    <2>2. QED
      BY <1>2, <2>1, Begin
  <1>6. CASE ~(conv_xmlhead_format(input.bom, input.tokens, room) > 0)
    <2>1. Bytes(input) < room => Bytes(input) = 0
      BY <1>2, <1>4, <1>6
    <2>2. /\ pc = "start" /\ op = "format" /\ Return(0)
          /\ UNCHANGED <<call, blen, scan, xmlhead, out>>
      BY <1>6 DEF StartFormat
    <2>3. QED
      BY <2>1, <2>2, GivesUp
  <1>7. QED
    BY <1>5, <1>6

\* A token is read only where the text has one, and only as far as the input goes.
LEMMA TokenFits ==
    ASSUME TypeOK, Scanned, ScanToken
    PROVE  /\ k + 1 \in 1..Len(input.tokens)
           /\ headlen' = Chars(SubSeq(input.tokens, 1, k + 1))
           /\ offset' = MarkLen(input.bom) + Unit(input.bom) * headlen'
           /\ headlen' \in 0..(HEADBUF - 1) /\ offset' \in Nat /\ offset' <= blen
  <1>1. PICK s \in Seq(Token) : s = input.tokens
    BY DEF TypeOK
  <1>2. PICK u \in {1, 2, 4} : u = Unit(input.bom)
    BY Widths DEF TypeOK
  <1>3. PICK m \in Nat : m = MarkLen(input.bom)
    BY Widths DEF TypeOK
  <1>4. k \in 0..Len(s) /\ Len(s) \in Nat /\ k \in Nat /\ blen \in Int /\ offset \in Int
        /\ headlen \in Nat
    BY <1>1, LenProperties DEF TypeOK
  <1>5. headlen = Chars(SubSeq(s, 1, k)) /\ offset = m + u * headlen
        /\ blen <= m + u * Chars(SubSeq(s, 1, Len(s)))
    BY <1>1, <1>2, <1>3, InputBytes DEF Scanned, TypeOK, TokensRead, ScanToken
  <1>6. PICK d \in Int : d = blen - offset
    BY <1>4
  <1>7. Left = d \div u /\ d \div u \in Int
    BY <1>2, <1>6, WholeCharacters DEF Left
  <1>8. k < Len(s)
    <2>1. SUFFICES ASSUME k = Len(s) PROVE FALSE
      BY <1>4
    <2>2. blen <= m + u * headlen
      BY <1>5, <2>1
    <2>3. u * headlen \in Int
      BY <1>4, BytesGrow
    <2>4. PICK x \in Int : x = u * headlen
      BY <2>3
    <2>5. d <= 0
      BY <1>4, <1>5, <1>6, <2>2, <2>4
    <2>6. ~(u * 1 <= d)
      BY <2>5
    <2>7. ~(1 <= d \div u)
      BY <2>6, WholeCharacters
    <2>8. QED
      BY <1>7, <2>7 DEF ScanToken
  <1>9. k + 1 \in 1..Len(s)
    BY <1>4, <1>8
  <1>10. PICK w \in Nat : w = Weight[s[k + 1]]
    BY <1>4, <1>8, CharsProps
  <1>11. w <= Left /\ w <= Free /\ headlen' = headlen + w /\ offset' = offset + u * w
    <2>1. NextToken = s[k + 1]
      BY <1>1 DEF NextToken
    <2>2. Free \in Int
      BY <1>4, SizeAssumption DEF Free
    <2>3. PICK f \in Int, l \in Int : f = Free /\ l = Left
      BY <1>7, <2>2
    <2>4. w <= MinOf(l, f)
      BY <1>10, <2>1, <2>3 DEF ScanToken
    <2>5. w <= l /\ w <= f
      BY <2>4 DEF MinOf
    <2>6. QED
      BY <1>2, <1>10, <2>1, <2>3, <2>5 DEF ScanToken
  <1>12. headlen + w = Chars(SubSeq(s, 1, k + 1))
    BY <1>4, <1>5, <1>8, <1>10, CharsProps
  <1>13. headlen' \in 0..(HEADBUF - 1)
    BY <1>4, <1>11, SizeAssumption DEF Free
  <1>14. offset' = m + u * headlen' /\ offset' \in Nat /\ offset' <= blen
    <2>1. u * (headlen + w) = u * headlen + u * w /\ u * headlen \in Int /\ u * w \in Int
      BY <1>4, BytesGrow
    <2>2. u * w <= d
      BY <1>7, <1>11, WholeCharacters
    <2>3. PICK x \in Int, y \in Int : x = u * headlen /\ y = u * w
      BY <2>1
    <2>4. offset' = (m + x) + y /\ offset = m + x /\ y <= d
      BY <1>5, <1>11, <2>2, <2>3
    <2>5. 0 <= x + y
      <3>1. headlen + w \in Int /\ headlen + w >= 0
        BY <1>4
      <3>2. PICK c \in Int : c = headlen + w
        BY <3>1
      <3>3. u * c >= 0
        BY <3>1, <3>2
      <3>4. QED
        BY <2>1, <2>3, <3>2, <3>3
    <2>6. offset' \in Nat /\ offset' <= blen /\ offset' = m + (x + y)
      BY <1>4, <1>6, <2>4, <2>5
    <2>7. QED
      BY <1>11, <2>1, <2>3, <2>6
  <1>15. QED
    BY <1>1, <1>2, <1>3, <1>9, <1>11, <1>12, <1>13, <1>14

LEMMA ScanTokenStep ==
    ASSUME IInv, ScanToken
    PROVE  IInv'
  <1>1. /\ op' = op /\ input' = input /\ tocode' = tocode /\ room' = room /\ blen' = blen
        /\ k' = k + 1 /\ found' = (input.tokens[k + 1] = ">")
        /\ pc = "scan" /\ pc' = (IF input.tokens[k + 1] = ">" THEN "parse" ELSE "scan")
        /\ xmlhead' = xmlhead /\ out' = out /\ ret' = ret
    BY DEF ScanToken, call, NextToken
  <1>2. /\ k + 1 \in 1..Len(input.tokens)
        /\ headlen' = Chars(SubSeq(input.tokens, 1, k + 1))
        /\ offset' = MarkLen(input.bom) + Unit(input.bom) * headlen'
        /\ headlen' \in 0..(HEADBUF - 1) /\ offset' \in Nat /\ offset' <= blen
    BY TokenFits DEF IInv
  <1>3. k \in Nat /\ Len(input.tokens) \in Nat
    BY LenProperties DEF IInv, TypeOK
  <1>4. pc' \in {"scan", "parse"} /\ (pc' = "scan" <=> ~found') /\ found' \in BOOLEAN
    BY <1>1
  <1>5. k' \in 0..Len(input'.tokens)
    BY <1>1, <1>2, <1>3
  <1>6. TypeOK'
    BY <1>1, <1>2, <1>4, <1>5 DEF IInv, TypeOK
  <1>7. Scanned'
    <2>1. headlen' = Chars(TokensRead')
      BY <1>1, <1>2 DEF TokensRead
    <2>2. found' <=> k' > 0 /\ input'.tokens[k'] = ">"
      <3>1. found' <=> input.tokens[k + 1] = ">"
        BY DEF ScanToken, NextToken
      <3>2. k' > 0
        BY <1>1, <1>3
      <3>3. input'.tokens[k'] = input.tokens[k + 1]
        BY <1>1
      <3>4. QED
        BY <3>1, <3>2, <3>3, Zenon
    <2>3. \A i \in 1..k' - 1 : input'.tokens[i] # ">"
      <3>1. \A i \in 1..k - 1 : input.tokens[i] # ">"
        BY DEF IInv, Scanned
      <3>2. k > 0 => input.tokens[k] # ">"
        BY <1>1 DEF IInv, Scanned
      <3>3. \A i \in 1..k : i \in 1..k - 1 \/ i = k
        BY <1>3
      <3>4. k' - 1 = k
        BY <1>1, <1>3
      <3>5. \A i \in 1..k : input.tokens[i] # ">"
        BY <1>3, <3>1, <3>2, <3>3
      <3>6. QED
        BY <1>1, <3>4, <3>5
    <2>4. /\ op = "format" => input.tokens \in ClientHeads
          /\ blen <= Bytes(input)
          /\ op = "format" => blen = Bytes(input) /\ blen < room
      BY <1>1 DEF IInv, Scanned
    <2>5. Bytes(input)' = Bytes(input)
      BY <1>1
    <2>6. offset' = MarkLen(input'.bom) + Unit(input'.bom) * headlen'
      BY <1>1, <1>2
    <2>7. pc' = "parse" /\ ~found' => FALSE
      BY <1>4
    <2>8. k' > 0 => offset' <= blen'
      BY <1>1, <1>2
    <2>9. pc' = "start" => FALSE
      BY <1>4
    <2>10. QED
      BY <1>1, <1>4, <2>1, <2>2, <2>3, <2>4, <2>5, <2>6, <2>7, <2>8, <2>9 DEF Scanned
  <1>8. out' = NoOut /\ out'.from = -1
    BY <1>1 DEF IInv, Parsed, NoOut
  <1>9. Parsed' /\ HeadPut'
    BY <1>4, <1>8 DEF Parsed, HeadPut
  <1>10. /\ ConvertsBehindHead' /\ OnlyDeclared' /\ HeadNamesTarget'
         /\ ResultIsLength' /\ FormatThenParse'
    BY <1>4, <1>8
    DEF ConvertsBehindHead, OnlyDeclared, HeadNamesTarget, ResultIsLength, FormatThenParse
  <1>11. QED
    BY <1>6, <1>7, <1>9, <1>10 DEF IInv

LEMMA ScanEndStep ==
    ASSUME IInv, ScanEnd
    PROVE  IInv'
  <1>1. /\ op' = op /\ input' = input /\ tocode' = tocode /\ room' = room /\ blen' = blen
        /\ k' = k /\ headlen' = headlen /\ offset' = offset /\ found' = found
        /\ xmlhead' = xmlhead /\ out' = out /\ ret' = ret
        /\ pc = "scan" /\ pc' = "parse" /\ (Left > 0 => Weight[NextToken] > Left)
    BY DEF ScanEnd, call, scan
  <1>2. TypeOK'
    BY <1>1 DEF IInv, TypeOK
  <1>3. Scanned'
    <2>1. TokensRead' = TokensRead /\ Bytes(input)' = Bytes(input)
          /\ Left' = Left /\ Weight[NextToken]' = Weight[NextToken]
      BY <1>1 DEF TokensRead, Left, NextToken
    <2>2. QED
      BY <1>1, <2>1 DEF IInv, Scanned
  <1>4. out' = NoOut /\ out'.from = -1
    BY <1>1 DEF IInv, Parsed, NoOut
  <1>5. Parsed' /\ HeadPut'
    BY <1>1, <1>4 DEF Parsed, HeadPut
  <1>6. /\ ConvertsBehindHead' /\ OnlyDeclared' /\ HeadNamesTarget'
        /\ ResultIsLength' /\ FormatThenParse'
    BY <1>1, <1>4
    DEF ConvertsBehindHead, OnlyDeclared, HeadNamesTarget, ResultIsLength, FormatThenParse
  <1>7. QED
    BY <1>2, <1>3, <1>5, <1>6 DEF IInv

\* What the parse returns and fills in.
LEMMA ParseStep ==
    ASSUME IInv, Parse
    PROVE  IInv'
  <1>1. /\ op' = op /\ input' = input /\ tocode' = tocode /\ room' = room /\ blen' = blen
        /\ k' = k /\ headlen' = headlen /\ offset' = offset /\ found' = found
        /\ out' = out /\ pc = "parse"
        /\ pc' = (CASE op = "text" -> "encoding" [] op = "file" -> "head" [] OTHER -> "done")
        /\ xmlhead' = ParsedHead(TokensRead, input.bom, found)
        /\ ret' = HeadLength(TokensRead)
    BY DEF Parse, call, scan, TokensRead
  <1>2. /\ found /\ IsHead(TokensRead) <=> WholeHead
        /\ WholeHead => /\ TokensRead = UpToClose(input.tokens)
                        /\ offset = HeadBytes /\ offset > 0
    BY <1>1, HeadParsed DEF IInv
  <1>3. ret' = (IF WholeHead THEN HeadBytes ELSE 0) /\ (WholeHead => ret' > 0)
    BY <1>1, <1>2 DEF HeadLength
  <1>4. xmlhead' = IF WholeHead
                   THEN [bom |-> input.bom,
                         version |-> VersionMember(FirstVersion(UpToClose(input.tokens))),
                         encoding |-> EncodingMember(UpToClose(input.tokens))]
                   ELSE [bom |-> input.bom, version |-> "empty", encoding |-> "empty"]
    <2>1. [NoHead EXCEPT !.bom = input.bom] =
              [bom |-> input.bom, version |-> "empty", encoding |-> "empty"]
      <3>1. PICK b : b = input.bom
        OBVIOUS
      <3>2. \A v : [[bom |-> "none", version |-> v, encoding |-> "empty"] EXCEPT !.bom = b] =
                        [bom |-> b, version |-> v, encoding |-> "empty"]
        OBVIOUS
      <3>3. QED
        BY <3>1, <3>2, Zenon DEF NoHead
    <2>2. CASE WholeHead
      <3>1. found /\ IsHead(TokensRead) /\ TokensRead = UpToClose(input.tokens)
        BY <1>2, <2>2
      <3>2. QED
        BY <1>1, <2>2, <3>1, Zenon DEF ParsedHead
    <2>3. CASE ~WholeHead
      <3>1. ~(found /\ IsHead(TokensRead))
        BY <1>2, <2>3
      <3>2. QED
        BY <1>1, <2>1, <2>3, <3>1, Zenon DEF ParsedHead
    <2>4. QED
      BY <2>2, <2>3
  <1>5. EncodingMember(UpToClose(input.tokens)) \in Encodings \cup {"empty"}
    <2>1. PICK s \in Seq(Token) : s = UpToClose(input.tokens)
      BY InputBytes DEF IInv, TypeOK
    <2>2. SelectInSeq(s, IsEncoding) = 0 \/ s[SelectInSeq(s, IsEncoding)] \in Encodings
      <3>1. Len(s) \in Nat
        BY LenProperties
      <3> DEFINE I == {i \in 1..Len(s) : s[i] \in Encodings}
      <3>2. SelectInSeq(s, IsEncoding) = IF I # {} THEN Min(I) ELSE 0
        BY DEF SelectInSeq, IsEncoding
      <3>3. ASSUME I # {} PROVE Min(I) \in I
        <4>1. I \in SUBSET Nat
          BY <3>1
        <4>2. \E x \in I : \A y \in I : x <= y
          <5> HIDE DEF I
          <5>1. QED
            BY <3>3, <4>1, NatLeast
        <4>3. QED
          BY <4>2 DEF Min
      <3>4. \A i \in I : s[i] \in Encodings
        OBVIOUS
      <3> HIDE DEF I
      <3>5. QED
        BY <3>2, <3>3, <3>4
    <2>3. FirstEncoding(s) \in Encodings \cup {"empty"}
      BY <2>2 DEF FirstEncoding
    <2>4. \A v : RunsOn(v) \in Encodings \cup {"empty"}
      BY DEF RunsOn, Encodings
    <2>5. QED
      BY <2>1, <2>3, <2>4 DEF EncodingMember
  <1>6. op \in {"text", "file", "format"} /\ input.bom \in Bom
    BY DEF IInv, TypeOK
  <1>7. pc' \in {"encoding", "head", "done"} /\ (pc' = "encoding" <=> op = "text")
        /\ (pc' = "head" <=> op = "file") /\ (pc' = "done" <=> op = "format")
    BY <1>1, <1>6
  <1>8. HeadBytes \in Nat /\ ret' \in Nat
    BY <1>3, InputBytes DEF IInv, TypeOK
  <1>9. xmlhead' \in XmlHead
    <2>1. \A v : VersionMember(v) \in {"empty", "given", "open"}
      BY DEF VersionMember
    <2>2. QED
      BY <1>4, <1>5, <1>6, <2>1 DEF XmlHead
  <1>10. TypeOK'
    BY <1>1, <1>7, <1>8, <1>9 DEF IInv, TypeOK
  <1>11. Scanned'
    <2>1. TokensRead' = TokensRead
      BY <1>1 DEF TokensRead
    <2>2. QED
      BY <1>1, <1>7, <2>1 DEF IInv, Scanned
  <1>12. out' = NoOut /\ out'.from = -1
    BY <1>1 DEF IInv, Parsed, NoOut
  <1>13. HeadBytes' = HeadBytes /\ WholeHead' = WholeHead
    BY <1>1 DEF HeadBytes, WholeHead
  <1>14. Parsed'
    <2>1. pc' = "encoding" /\ xmlhead'.encoding # "empty" =>
              ret' > 0 /\ xmlhead'.encoding = EncodingMember(UpToClose(input'.tokens))
      BY <1>1, <1>3, <1>4
    <2>2. QED
      BY <1>1, <1>3, <1>7, <1>12, <1>13, <2>1 DEF Parsed
  <1>15. HeadPut'
    BY <1>7 DEF HeadPut
  <1>16. ConvertsBehindHead' /\ OnlyDeclared' /\ HeadNamesTarget'
    BY <1>12 DEF ConvertsBehindHead, OnlyDeclared, HeadNamesTarget
  <1>17. ResultIsLength'
    BY <1>1, <1>7 DEF ResultIsLength
  <1>18. FormatThenParse'
    <2>1. SUFFICES ASSUME op = "format"
                   PROVE  /\ ret' = IF Bytes(input) < room THEN Bytes(input) ELSE 0
                          /\ xmlhead' = [bom |-> input.bom,
                                 version |-> IF input.tokens[2] = "version" THEN "given" ELSE "empty",
                                 encoding |-> "encFrom"]
      <3>1. Bytes(input)' = Bytes(input)
        BY <1>1
      <3>2. QED
        BY <1>1, <3>1 DEF FormatThenParse
    <2>2. input.tokens \in ClientHeads /\ blen = Bytes(input) /\ blen < room
      BY <1>1, <2>1 DEF IInv, Scanned
    <2>3. UpToClose(input.tokens) = input.tokens /\ IsHead(input.tokens)
          /\ input.tokens \in Seq(Token)
      BY <2>2, PrintedAttributes
    <2>4. HeadBytes = Bytes(input)
      BY <2>3, InputBytes DEF IInv, TypeOK
    <2>5. found
      <3>1. SUFFICES ASSUME ~found PROVE FALSE
        OBVIOUS
      <3>2. Len(input.tokens) = 5 /\ input.tokens[5] = ">"
        BY <2>2, PrintedAttributes
      <3>3. UpToClose(input.tokens) = SubSeq(input.tokens, 1, 5)
        <4>1. SubSeq(input.tokens, 1, Len(input.tokens)) = input.tokens
          BY <2>3, SubSeqFull
        <4>2. QED
          BY <2>3, <3>2, <4>1
      <3>4. HeadBytes > blen
        BY <1>1, <3>1, <3>2, <3>3, HeadNotFound DEF IInv
      <3>5. QED
        BY <1>8, <2>2, <2>4, <3>4
    <2>6. TokensRead = UpToClose(input.tokens)
      BY <1>1, <2>5, HeadFound DEF IInv
    <2>7. WholeHead
      BY <1>2, <2>3, <2>5, <2>6
    <2>8. /\ EncodingMember(UpToClose(input.tokens)) = "encFrom"
          /\ VersionMember(FirstVersion(UpToClose(input.tokens))) =
                 IF input.tokens[2] = "version" THEN "given" ELSE "empty"
      BY <2>2, <2>3, PrintedAttributes
    <2>9. QED
      BY <1>3, <1>4, <2>2, <2>4, <2>7, <2>8
  <1>19. QED
    BY <1>10, <1>11, <1>14, <1>15, <1>16, <1>17, <1>18 DEF IInv

\* Where the version goes beyond *xmlhead nothing is put out any more.
LEMMA ParseOverrunStep ==
    ASSUME IInv, ParseOverrun
    PROVE  IInv'
  <1>1. /\ op' = op /\ input' = input /\ tocode' = tocode /\ room' = room /\ blen' = blen
        /\ k' = k /\ headlen' = headlen /\ offset' = offset /\ found' = found
        /\ xmlhead' = xmlhead /\ out' = out /\ ret' = ret /\ pc = "parse" /\ pc' = "overrun"
    BY DEF ParseOverrun, call, scan
  <1>2. TypeOK'
    BY <1>1 DEF IInv, TypeOK
  <1>3. Scanned'
    <2>1. TokensRead' = TokensRead
      BY <1>1 DEF TokensRead
    <2>2. QED
      BY <1>1, <2>1 DEF IInv, Scanned
  <1>4. Parsed' /\ HeadPut'
    BY <1>1 DEF Parsed, HeadPut
  <1>5. out'.from = -1
    BY <1>1 DEF IInv, Parsed, NoOut
  <1>6. /\ ConvertsBehindHead' /\ OnlyDeclared' /\ HeadNamesTarget'
        /\ ResultIsLength' /\ FormatThenParse'
    BY <1>1, <1>5
    DEF ConvertsBehindHead, OnlyDeclared, HeadNamesTarget, ResultIsLength, FormatThenParse
  <1>7. QED
    BY <1>2, <1>3, <1>4, <1>6 DEF IInv

\* The conversion begins only where the right encoding was found.
LEMMA CheckEncodingStep ==
    ASSUME IInv, CheckEncoding
    PROVE  IInv'
  <1>1. op = "text" /\ pc = "encoding"
    BY DEF IInv, Parsed, CheckEncoding
  <1>2. CASE xmlhead.encoding = "encFrom"
    <2>1. /\ op' = op /\ input' = input /\ tocode' = tocode /\ room' = room /\ blen' = blen
          /\ k' = k /\ headlen' = headlen /\ offset' = offset /\ found' = found
          /\ xmlhead' = xmlhead /\ out' = out /\ pc' = "head" /\ ret' = ret
      BY <1>2 DEF CheckEncoding, call, scan
    <2>2. TypeOK'
      BY <2>1 DEF IInv, TypeOK
    <2>3. Scanned'
      <3>1. TokensRead' = TokensRead
        BY <2>1 DEF TokensRead
      <3>2. QED
        BY <2>1, <3>1 DEF IInv, Scanned
    <2>4. out' = NoOut /\ out'.from = -1
      BY <1>1, <2>1 DEF IInv, Parsed, NoOut
    <2>5. Parsed'
      <3>1. HeadBytes' = HeadBytes /\ WholeHead' = WholeHead
        BY <2>1 DEF HeadBytes, WholeHead
      <3>2. ret > 0 /\ EncodingMember(UpToClose(input.tokens)) = "encFrom"
        BY <1>1, <1>2 DEF IInv, Parsed
      <3>3. ret = IF WholeHead THEN HeadBytes ELSE 0
        BY <1>1 DEF IInv, Parsed
      <3>4. QED
        BY <1>1, <2>1, <2>4, <3>1, <3>2, <3>3 DEF Parsed
    <2>6. HeadPut'
      BY <2>1 DEF HeadPut
    <2>7. /\ ConvertsBehindHead' /\ OnlyDeclared' /\ HeadNamesTarget'
          /\ ResultIsLength' /\ FormatThenParse'
      BY <2>1, <2>4
      DEF ConvertsBehindHead, OnlyDeclared, HeadNamesTarget, ResultIsLength, FormatThenParse
    <2>8. QED
      BY <2>2, <2>3, <2>5, <2>6, <2>7 DEF IInv
  <1>3. CASE xmlhead.encoding # "encFrom"
    <2>1. Return(-1) /\ UNCHANGED <<call, blen, scan, xmlhead, out>>
      BY <1>3 DEF CheckEncoding, CONVD_ERR_ICONV
    <2>2. QED
      BY <1>1, <2>1, GivesUp
  <1>4. QED
    BY <1>2, <1>3

\* The new head is one of those that are printed.
LEMMA NewHeadChars ==
    ASSUME TypeOK
    PROVE  Chars(NewHead) \in Nat \ {0}
  <1>1. tocode.attribute \in Encodings
    BY TocodeAssumption DEF TypeOK
  <1>2. PrintedVersion(xmlhead.version, tocode.attribute) \in Versions
    BY DEF PrintedVersion, Versions
  <1>3. QED
    BY <1>1, <1>2, PrintedTokens DEF NewHead, PrintedHead

\* The new head: its name and size, where it fits.
LEMMA PutHeadFits ==
    ASSUME TypeOK, out = NoOut, NEW size \in Nat, PutHead(size)
    PROVE  /\ xmlhead' \in XmlHead
           /\ out' \in [head : Encodings \cup {"empty"}, size : Nat, from : Int]
           /\ out'.from = -1 /\ out'.size <= size
           /\ xmlhead'.version = xmlhead.version
           /\ tocode.ansi /\ size > Chars(NewHead) => out'.head = tocode.attribute
  <1>1. tocode \in Tocode /\ tocode.attribute \in Encodings
    BY TocodeAssumption DEF TypeOK
  <1>2. PICK c \in Nat \ {0} : c = Chars(NewHead)
    BY NewHeadChars
  <1>3. Bytes([bom |-> "none", tokens |-> NewHead]) = c
    <2>1. MarkLen("none") = 0 /\ Unit("none") = 1
      BY DEF MarkLen, Unit
    <2>2. QED
      BY <1>2, <2>1 DEF Bytes
  <1>4. PICK n \in Nat : n = conv_xmlhead_format("none", NewHead, size)
    BY <1>3 DEF conv_xmlhead_format
  <1>5. n = IF c < size THEN c ELSE 0
    BY <1>3, <1>4 DEF conv_xmlhead_format
  <1>6. NoOut = [head |-> "empty", size |-> 0, from |-> -1]
    BY DEF NoOut
  <1>7. CASE tocode.ansi
    <2>1. xmlhead' = [xmlhead EXCEPT !.bom = "none", !.encoding = tocode.attribute]
      BY <1>7 DEF PutHead
    <2>2. xmlhead' \in XmlHead /\ xmlhead'.version = xmlhead.version
      <3>1. xmlhead \in XmlHead
            /\ "none" \in Bom
        BY DEF TypeOK, Bom
      <3>2. QED
        BY <1>1, <2>1, <3>1 DEF XmlHead
    <2>3. out' = IF n > 0 THEN [NoOut EXCEPT !.head = tocode.attribute, !.size = n] ELSE NoOut
      BY <1>4, <1>7 DEF PutHead
    <2>4. CASE c < size
      <3>1. n = c /\ n > 0
        BY <1>5, <2>4
      <3>2. out' = [NoOut EXCEPT !.head = tocode.attribute, !.size = n]
        BY <2>3, <3>1
      <3>3. out' = [head |-> tocode.attribute, size |-> n, from |-> -1]
        BY <1>6, <3>2
      <3>4. QED
        BY <1>1, <2>2, <2>4, <3>1, <3>3
    <2>5. CASE ~(c < size)
      <3>1. n = 0
        BY <1>5, <2>5
      <3>2. out' = NoOut
        BY <2>3, <3>1
      <3>3. QED
        BY <1>2, <1>6, <2>2, <2>5, <3>2
    <2>6. QED
      BY <2>4, <2>5
  <1>8. CASE ~tocode.ansi
    <2>1. out' = out /\ xmlhead' = xmlhead
      BY <1>8 DEF PutHead
    <2>2. QED
      BY <1>6, <1>8, <2>1 DEF TypeOK
  <1>9. QED
    BY <1>7, <1>8

LEMMA NewHeadStep ==
    ASSUME IInv, NewTextHead \/ NewFileHead
    PROVE  IInv'
  <1>1. PICK size \in Nat :
          /\ PutHead(size)
          /\ op = "text" => size = room
          /\ op = "file" => size = 128
    BY DEF NewTextHead, NewFileHead, IInv, TypeOK
  <1>2. /\ op' = op /\ input' = input /\ tocode' = tocode /\ room' = room /\ blen' = blen
        /\ k' = k /\ headlen' = headlen /\ offset' = offset /\ found' = found /\ ret' = ret
        /\ pc = "head" /\ pc' = "convert" /\ op \in {"text", "file"}
        /\ (op = "file" => ret > 0)
    BY DEF NewTextHead, NewFileHead, call, scan
  <1>3. out = NoOut
    BY <1>2 DEF IInv, Parsed
  <1>4. /\ xmlhead' \in XmlHead
        /\ out' \in [head : Encodings \cup {"empty"}, size : Nat, from : Int]
        /\ out'.from = -1 /\ out'.size <= size
        /\ xmlhead'.version = xmlhead.version
        /\ tocode.ansi /\ size > Chars(NewHead) => out'.head = tocode.attribute
    BY <1>1, <1>3, PutHeadFits DEF IInv
  <1>5. TypeOK'
    BY <1>2, <1>4 DEF IInv, TypeOK
  <1>6. Scanned'
    <2>1. TokensRead' = TokensRead
      BY <1>2 DEF TokensRead
    <2>2. QED
      BY <1>2, <2>1 DEF IInv, Scanned
  <1>7. Parsed'
    <2>1. HeadBytes' = HeadBytes /\ WholeHead' = WholeHead
      BY <1>2 DEF HeadBytes, WholeHead
    <2>2. QED
      BY <1>2, <2>1 DEF IInv, Parsed
  <1>8. HeadPut'
    <2>1. ret > 0
      BY <1>2 DEF IInv, Parsed
    <2>2. op = "text" => out'.size <= room
      BY <1>1, <1>4
    <2>3. ASSUME tocode.ansi, op = "text" => room > Chars(NewHead)
          PROVE  out'.head = tocode.attribute
      <3>1. PICK c \in Nat : c = Chars(NewHead)
        BY NewHeadChars DEF IInv
      <3>2. CASE op = "text"
        BY <1>1, <1>4, <2>3, <3>2
      <3>3. CASE op = "file"
        <4>1. c < 128
          <5>1. tocode \in Tocode /\ xmlhead.version \in {"empty", "given", "open"}
            BY DEF IInv, TypeOK, XmlHead
          <5>2. QED
            BY <2>3, <3>1, <5>1, AnsiAssumption DEF NewHead
        <4>2. size > c
          BY <1>1, <3>1, <3>3, <4>1
        <4>3. QED
          BY <1>4, <2>3, <3>1, <4>2
      <3>4. QED
        BY <1>2, <3>2, <3>3
    <2>4. Chars(NewHead)' = Chars(NewHead)
      BY <1>2, <1>4 DEF NewHead
    <2>5. QED
      BY <1>2, <1>4, <2>1, <2>2, <2>3, <2>4 DEF HeadPut
  <1>9. /\ ConvertsBehindHead' /\ OnlyDeclared' /\ HeadNamesTarget'
        /\ ResultIsLength' /\ FormatThenParse'
    BY <1>2, <1>4
    DEF ConvertsBehindHead, OnlyDeclared, HeadNamesTarget, ResultIsLength, FormatThenParse
  <1>10. QED
    BY <1>5, <1>6, <1>7, <1>8, <1>9 DEF IInv

\* What convd_conv_text and convd_conv_file are called with is the text behind the
\* head.
LEMMA ConvStep ==
    ASSUME IInv, ConvText \/ ConvFile
    PROVE  IInv'
  <1>1. /\ op' = op /\ input' = input /\ tocode' = tocode /\ room' = room /\ blen' = blen
        /\ k' = k /\ headlen' = headlen /\ offset' = offset /\ found' = found
        /\ xmlhead' = xmlhead /\ pc = "convert" /\ pc' = "done" /\ op \in {"text", "file"}
        /\ (ConvText => op = "text") /\ (ConvFile => op = "file")
    BY DEF ConvText, ConvFile, Return, call, scan
  <1>2. ret = HeadBytes /\ HeadBytes' = HeadBytes /\ WholeHead'
    <2>1. ret = (IF WholeHead THEN HeadBytes ELSE 0) /\ ret > 0
      BY <1>1 DEF IInv, Parsed, HeadPut
    <2>2. HeadBytes' = HeadBytes /\ WholeHead' = WholeHead
      BY <1>1 DEF HeadBytes, WholeHead
    <2>3. QED
      BY <2>1, <2>2
  <1>3. op = "text" => EncodingMember(UpToClose(input.tokens)) = "encFrom" /\ out.size <= room
    BY <1>1 DEF IInv, Parsed, HeadPut
  <1>4. /\ out \in [head : Encodings \cup {"empty"}, size : Nat, from : Int]
        /\ ret \in Int /\ room \in Nat /\ input.bom \in Bom
    BY DEF IInv, TypeOK
  <1> DEFINE Result ==
      /\ out' \in [head : Encodings \cup {"empty"}, size : Nat, from : Int]
      /\ ret' \in Int
      /\ out'.head = out.head
      /\ op = "text" /\ ret' >= 0 => ret' = out'.size /\ out'.size <= room
      /\ out'.from # -1 /\ (op = "file" => input.bom = "none") => out'.from = HeadBytes
  <1>5. Result
    <2>1. CASE ConvText
      <3>1. CASE out' = out /\ ret' = -1
        BY <1>1, <1>4, <2>1, <3>1 DEF IInv, HeadPut
      <3>2. ASSUME NEW n \in BodySize, n <= room - out.size, ret' = n + out.size,
                   out' = [out EXCEPT !.size = @ + n, !.from = ret]
            PROVE  Result
        <4>1. n \in Nat /\ out.size \in Nat
          BY <1>4, <3>2, SizeAssumption
        <4>2. out' = [head |-> out.head, size |-> out.size + n, from |-> ret]
          BY <1>4, <3>2
        <4>3. QED
          BY <1>2, <1>4, <3>2, <4>1, <4>2
      <3>3. QED
        BY <2>1, <3>1, <3>2 DEF ConvText, Return, CONVD_ERR_ICONV
    <2>2. CASE ConvFile
      <3>1. CASE out' = out /\ ret' \in {0, 4, -1, -2}
        BY <1>1, <1>4, <2>2, <3>1 DEF IInv, HeadPut
      <3>2. ASSUME out' = [out EXCEPT !.from = ConvFileFrom(input.bom, ret)], ret' = 0
            PROVE  Result
        <4>1. PICK m \in Nat : m = MarkLen(input.bom)
          BY <1>4, Widths
        <4>2. out' = [head |-> out.head, size |-> out.size, from |-> m + ret]
          BY <1>4, <3>2, <4>1 DEF ConvFileFrom
        <4>3. input.bom = "none" => m = 0
          BY <4>1 DEF MarkLen
        <4>4. QED
          BY <1>1, <1>2, <1>4, <2>2, <3>2, <4>2, <4>3
      <3>3. QED
        BY <2>2, <3>1, <3>2
        DEF ConvFile, Return, CONVD_NOERROR, CONVD_ERR_ENCODING, CONVD_ERR_ICONV, CONVD_ERR_FILE
    <2>3. QED
      BY <2>1, <2>2
  <1>6. TypeOK'
    BY <1>1, <1>5 DEF IInv, TypeOK
  <1>7. Scanned'
    <2>1. TokensRead' = TokensRead
      BY <1>1 DEF TokensRead
    <2>2. QED
      BY <1>1, <2>1 DEF IInv, Scanned
  <1>8. Parsed' /\ HeadPut'
    BY <1>1 DEF Parsed, HeadPut
  <1>9. ConvertsBehindHead'
    BY <1>1, <1>2, <1>5 DEF ConvertsBehindHead
  <1>10. OnlyDeclared'
    BY <1>1, <1>2, <1>3, LongOrDeclared DEF OnlyDeclared
  <1>11. HeadNamesTarget'
    <2>1. Chars(NewHead)' = Chars(NewHead)
      BY <1>1 DEF NewHead
    <2>2. QED
      BY <1>1, <1>5, <2>1 DEF HeadNamesTarget, IInv, HeadPut
  <1>12. ResultIsLength'
    BY <1>1, <1>5 DEF ResultIsLength
  <1>13. FormatThenParse'
    BY <1>1 DEF FormatThenParse
  <1>14. QED
    BY <1>6, <1>7, <1>8, <1>9, <1>10, <1>11, <1>12, <1>13 DEF IInv

-----------------------------------------------------------------------------
(* The theorems *)

LEMMA InitIInv ==
    ASSUME Init
    PROVE  IInv
  <1>1. /\ op \in {"text", "file", "format"} /\ tocode \in Tocode
        /\ blen = 0 /\ pc = "start" /\ k = 0 /\ headlen = 0 /\ offset = 0 /\ found = FALSE
        /\ xmlhead = NoHead /\ out = NoOut /\ ret = 0
        /\ op = "format" => input.tokens \in ClientHeads
    BY DEF Init
  <1>2. input \in [bom : Bom, tokens : Seq(Token)]
    <2>1. PICK t \in Texts, b \in Bom : input = [bom |-> b, tokens |-> t]
      BY DEF Init
    <2>2. t \in Seq(Token)
      BY TextAssumption
    <2>3. QED
      BY <2>1, <2>2
  <1>3. room \in Nat
    <2>1. 0 \in Nat /\ \A r \in Room : r \in Nat
      BY SizeAssumption
    <2>2. room = 0 \/ room \in Room
      BY DEF Init
    <2>3. QED
      BY <2>1, <2>2, Zenon
  <1>4. PICK s \in Seq(Token) : s = input.tokens
    BY <1>2
  <1>5. Len(s) \in Nat
    BY LenProperties
  <1>6. MarkLen(input.bom) \in Nat
    BY <1>2, Widths
  <1>7. TypeOK
    <2>1. k \in 0..Len(input.tokens) /\ headlen \in 0..(HEADBUF - 1)
      BY <1>1, <1>4, <1>5, SizeAssumption
    <2>2. offset \in Nat /\ (blen >= MarkLen(input.bom) => offset <= blen) /\ blen \in Nat \cup {-1}
      BY <1>1
    <2>3. NoHead \in XmlHead
      BY DEF NoHead, XmlHead, Bom
    <2>4. NoOut \in [head : Encodings \cup {"empty"}, size : Nat, from : Int]
      BY DEF NoOut
    <2>5. found \in BOOLEAN
      BY <1>1
    <2>6. QED
      BY <1>1, <1>2, <1>3, <2>1, <2>2, <2>3, <2>4, <2>5 DEF TypeOK
  <1>8. Scanned
    <2>1. Chars(SubSeq(s, 1, 0)) = 0
      <3>1. 0 \in 0..Len(s)
        BY <1>5
      <3>2. QED
        BY <3>1, CharsProps
    <2>2. headlen = Chars(TokensRead)
      BY <1>1, <1>4, <2>1 DEF TokensRead
    <2>3. QED
      BY <1>1, <2>2 DEF Scanned
  <1>9. out.from = -1
    BY <1>1 DEF NoOut
  <1>10. Parsed /\ HeadPut
    BY <1>1 DEF Parsed, HeadPut
  <1>11. /\ ConvertsBehindHead /\ OnlyDeclared /\ HeadNamesTarget
         /\ ResultIsLength /\ FormatThenParse
    BY <1>1, <1>9
    DEF ConvertsBehindHead, OnlyDeclared, HeadNamesTarget, ResultIsLength, FormatThenParse
  <1>12. QED
    BY <1>7, <1>8, <1>10, <1>11 DEF IInv

\* Nothing is read from an invariant that the variables of the call do not determine.
LEMMA StutterIInv ==
    ASSUME IInv, UNCHANGED vars
    PROVE  IInv'
  <1>1. /\ op' = op /\ input' = input /\ tocode' = tocode /\ room' = room /\ blen' = blen
        /\ k' = k /\ headlen' = headlen /\ offset' = offset /\ found' = found
        /\ xmlhead' = xmlhead /\ out' = out /\ pc' = pc /\ ret' = ret
    BY DEF vars, call, scan
  <1>2. /\ HeadBytes' = HeadBytes /\ WholeHead' = WholeHead /\ TokensRead' = TokensRead
        /\ Left' = Left /\ NextToken' = NextToken /\ Bytes(input)' = Bytes(input)
        /\ Chars(NewHead)' = Chars(NewHead)
    BY <1>1 DEF HeadBytes, WholeHead, TokensRead, Left, NextToken, NewHead
  <1>3. TypeOK'
    BY <1>1 DEF IInv, TypeOK
  <1>4. Scanned'
    BY <1>1, <1>2 DEF IInv, Scanned
  <1>5. Parsed' /\ HeadPut'
    BY <1>1, <1>2 DEF IInv, Parsed, HeadPut
  <1>6. /\ ConvertsBehindHead' /\ OnlyDeclared' /\ HeadNamesTarget'
        /\ ResultIsLength' /\ FormatThenParse'
    BY <1>1, <1>2
    DEF IInv, ConvertsBehindHead, OnlyDeclared, HeadNamesTarget, ResultIsLength, FormatThenParse
  <1>7. QED
    BY <1>3, <1>4, <1>5, <1>6 DEF IInv

LEMMA NextIInv ==
    ASSUME IInv, [Next]_vars
    PROVE  IInv'
  <1>1. CASE StartText
    BY <1>1, StartTextStep
  <1>2. CASE StartFile \/ ReadFile
    BY <1>2, StartFileStep
  <1>3. CASE OpenFile
    BY <1>3, OpenFileStep
  <1>4. CASE StartFormat
    BY <1>4, StartFormatStep
  <1>5. CASE ScanToken
    BY <1>5, ScanTokenStep
  <1>6. CASE ScanEnd
    BY <1>6, ScanEndStep
  <1>7. CASE Parse
    BY <1>7, ParseStep
  <1>8. CASE CheckEncoding
    BY <1>8, CheckEncodingStep
  <1>9. CASE NewTextHead \/ NewFileHead
    BY <1>9, NewHeadStep
  <1>10. CASE NoXmlFile
    BY <1>10, NoXmlFileStep
  <1>11. CASE ConvText \/ ConvFile
    BY <1>11, ConvStep
  <1>12. CASE ScanSpin \/ Done \/ UNCHANGED vars
    BY <1>12, StutterIInv DEF ScanSpin, Done
  <1>13. CASE ParseOverrun
    BY <1>13, ParseOverrunStep
  <1>14. QED
    BY <1>1, <1>2, <1>3, <1>4, <1>5, <1>6, <1>7, <1>8, <1>9, <1>10, <1>11, <1>12, <1>13
    DEF Next, Step

\* In every state of every call the scan, the parsed head and the new head are what
\* the text, the mark and the buffers make them.
THEOREM ConvXmlInvariance == Spec => []IInv
  <1>1. Init => IInv
    BY InitIInv
  <1>2. IInv /\ [Next]_vars => IInv'
    BY NextIInv
  <1>3. QED
    BY <1>1, <1>2, PTL DEF Spec

\* Every variable keeps its type, headbuf keeps a byte for its NUL, and the scan
\* does not pass the end of the input.
THEOREM ConvXmlTypeCorrect == Spec => []TypeOK
  <1>1. IInv => TypeOK
    BY DEF IInv
  <1>2. QED
    BY <1>1, ConvXmlInvariance, PTL

\* XML_text_parse_head finds a head exactly when the text begins with one that is
\* read whole and fits headbuf, and returns the bytes of mark and head, for every
\* width and order of the characters.
THEOREM ConvXmlParseExact == Spec => []ParseExact
  <1>1. IInv => ParseExact
    BY DEF IInv, Parsed, ParseExact
  <1>2. QED
    BY <1>1, ConvXmlInvariance, PTL

\* convd_conv_xmltext and convd_conv_xmlfile convert what follows the head: nothing
\* of the body is lost, nothing of the old head comes back.
THEOREM ConvXmlBehindHead == Spec => []ConvertsBehindHead
  <1>1. IInv => ConvertsBehindHead
    BY DEF IInv
  <1>2. QED
    BY <1>1, ConvXmlInvariance, PTL

\* convd_conv_xmltext converts no text without a head, and none that declares another
\* encoding than the one it is converted from; one that declares none it converts only where the version is
\* longer than its member of *xmlhead.
THEOREM ConvXmlOnlyDeclared == Spec => []OnlyDeclared
  <1>1. IInv => OnlyDeclared
    BY DEF IInv
  <1>2. QED
    BY <1>1, ConvXmlInvariance, PTL

\* The head in front of a converted text names its new encoding.
THEOREM ConvXmlNamesTarget == Spec => []HeadNamesTarget
  <1>1. IInv => HeadNamesTarget
    BY DEF IInv
  <1>2. QED
    BY <1>1, ConvXmlInvariance, PTL

\* convd_conv_xmltext returns the bytes it wrote, never more than the caller's
\* buffer takes.
THEOREM ConvXmlResult == Spec => []ResultIsLength
  <1>1. IInv => ResultIsLength
    BY DEF IInv
  <1>2. QED
    BY <1>1, ConvXmlInvariance, PTL

\* A head that conv_xmlhead_format wrote is parsed back as it was, with any mark
\* and into any buffer that took it.
THEOREM ConvXmlFormatThenParse == Spec => []FormatThenParse
  <1>1. IInv => FormatThenParse
    BY DEF IInv
  <1>2. QED
    BY <1>1, ConvXmlInvariance, PTL
=============================================================================
