---------------------------- MODULE CstrbufProof ----------------------------
(***************************************************************************)
(* Proofs about the string buffer, for any block size, any characters and  *)
(* any sequence of calls: no byte outside the block is touched, the text   *)
(* holds nothing but what the client wrote, it is terminated, and the      *)
(* buffer implements the text of CstrbufAbs.                               *)
(***************************************************************************)
EXTENDS Cstrbuf, SequenceTheorems, TLAPS

-----------------------------------------------------------------------------
(* Sequences *)

\* Write keeps the length of the block and changes the bytes of t only.
LEMMA WriteProps ==
    ASSUME NEW str \in Seq(Byte), NEW n \in Nat, NEW t \in Seq(Byte),
           n + Len(t) <= Len(str)
    PROVE  /\ Write(str, n, t) \in Seq(Byte)
           /\ Len(Write(str, n, t)) = Len(str)
           /\ \A i \in 1..Len(str) :
                Write(str, n, t)[i] = IF i <= n THEN str[i]
                                      ELSE IF i <= n + Len(t) THEN t[i - n] ELSE str[i]
  <1> DEFINE a == SubSeq(str, 1, n)
             c == SubSeq(str, n + Len(t) + 1, Len(str))
             d == a \o t
  <1> HIDE DEF a, c, d
  <1>1. Len(str) \in Nat /\ Len(t) \in Nat
    BY LenProperties
  <1>2. /\ a \in Seq(Byte) /\ Len(a) = n
        /\ \A i \in 1..n : a[i] = str[i]
    <2>1. \A i \in 1..n : str[i] \in Byte
      BY <1>1, ElementOfSeq
    <2>2. QED
      BY <2>1, SubSeqProperties DEF a
  <1>3. /\ c \in Seq(Byte) /\ Len(c) = Len(str) - (n + Len(t))
        /\ \A i \in 1..Len(c) : c[i] = str[n + Len(t) + i]
    <2>1. \A i \in (n + Len(t) + 1)..Len(str) : str[i] \in Byte
      BY <1>1, ElementOfSeq
    <2>2. QED
      BY <1>1, <2>1, SubSeqProperties DEF c
  <1>4. /\ d \in Seq(Byte) /\ Len(d) = n + Len(t)
        /\ \A i \in 1..(n + Len(t)) : d[i] = IF i <= n THEN a[i] ELSE t[i - n]
    BY <1>2, ConcatProperties DEF d
  <1>5. /\ d \o c \in Seq(Byte) /\ Len(d \o c) = Len(str)
        /\ \A i \in 1..Len(str) :
             (d \o c)[i] = IF i <= n + Len(t) THEN d[i] ELSE c[i - (n + Len(t))]
    <2>1. n + Len(t) + Len(c) = Len(str)
      BY <1>1, <1>3
    <2>3. c \in Seq(Byte) /\ d \in Seq(Byte)
      BY <1>3, <1>4
    <2>2. /\ d \o c \in Seq(Byte) /\ Len(d \o c) = Len(d) + Len(c)
          /\ \A i \in 1..(Len(d) + Len(c)) :
               (d \o c)[i] = IF i <= Len(d) THEN d[i] ELSE c[i - Len(d)]
      BY <2>3, ConcatProperties
    <2>4. QED
      BY <1>4, <2>1, <2>2
  <1>6. Write(str, n, t) = d \o c
    BY DEF Write, a, c, d
  <1>7. ASSUME NEW i \in 1..Len(str)
        PROVE  Write(str, n, t)[i] = IF i <= n THEN str[i]
                                     ELSE IF i <= n + Len(t) THEN t[i - n] ELSE str[i]
    <2>1. CASE i <= n + Len(t)
      BY <1>1, <1>2, <1>4, <1>5, <1>6, <2>1
    <2>2. CASE i > n + Len(t)
      <3> DEFINE j == i - (n + Len(t))
      <3>1. j \in 1..Len(c) /\ n + Len(t) + j = i
        BY <1>1, <1>3, <2>2
      <3> HIDE DEF j
      <3>3. c[j] = str[i]
        BY <1>3, <3>1
      <3>2. QED
        BY <1>1, <1>5, <1>6, <2>2, <3>3 DEF j
    <2>3. QED
      BY <1>1, <2>1, <2>2
  <1>8. QED
    BY <1>5, <1>6, <1>7

\* A text is a sequence of bytes, and so is a text with its NUL.
LEMMA TextIsBytes ==
    ASSUME NEW t \in Seq(Char)
    PROVE  /\ t \in Seq(Byte) /\ Len(t) \in Nat
           /\ Append(t, NUL) \in Seq(Byte) /\ Len(Append(t, NUL)) = Len(t) + 1
           /\ \A i \in 1..Len(t) : Append(t, NUL)[i] = t[i] /\ t[i] \in Char
           /\ Append(t, NUL)[Len(t) + 1] = NUL
  <1>1. t \in Seq(Byte)
    BY SeqMonotonic DEF Byte
  <1>2. NUL \in Byte
    BY DEF Byte
  <1>3. \A i \in 1..Len(t) : t[i] \in Char
    BY ElementOfSeq
  <1>4. QED
    BY <1>1, <1>2, <1>3, LenProperties

\* n equal bytes.
LEMMA FillProps ==
    ASSUME NEW c \in Byte, NEW n \in Nat
    PROVE  /\ Fill(c, n) \in Seq(Byte) /\ Len(Fill(c, n)) = n
           /\ \A i \in 1..n : Fill(c, n)[i] = c
  BY DEF Fill

\* The size of a block leaves room for one byte more.
LEMMA AlignProps ==
    ASSUME NEW n \in Nat
    PROVE  alignsize(n) \in Nat /\ alignsize(n) > n
  <1> DEFINE q == (n + BLOCK) \div BLOCK
  <1>1. BLOCK \in Nat \ {0}
    BY SizeAssumption
  <1>2. q \in Nat /\ BLOCK * q <= n + BLOCK /\ n + BLOCK < BLOCK * (q + 1)
    BY <1>1
  <1> HIDE DEF q
  <1>3. BLOCK * (q + 1) = BLOCK * q + BLOCK /\ BLOCK * q \in Nat /\ q * BLOCK = BLOCK * q
    BY <1>1, <1>2
  <1>4. QED
    BY <1>1, <1>2, <1>3 DEF alignsize, q

\* What a buffer holds is its value, and no buffer is the null pointer.
LEMMA HoldsValue ==
    ASSUME NEW b, NEW t, Holds(b, t)
    PROVE  Value(b) = t /\ b # Null /\ t # Null
  <1>1. b # Null /\ t # Null
    BY NullAssumption DEF Holds
  <1>2. \A i \in 1..Len(t) : b.str[i] \in Char /\ b.str[i] = t[i]
    BY TextIsBytes DEF Holds
  <1>3. Len(t) \in Nat
    BY TextIsBytes DEF Holds
  <1>4. /\ SubSeq(b.str, 1, Len(t)) \in Seq(Char)
        /\ Len(SubSeq(b.str, 1, Len(t))) = Len(t)
        /\ \A i \in 1..Len(t) : SubSeq(b.str, 1, Len(t))[i] = b.str[i]
    BY <1>2, <1>3, SubSeqProperties
  <1>5. SubSeq(b.str, 1, Len(t)) = t
    BY <1>2, <1>4, SeqEqual DEF Holds
  <1>6. QED
    BY <1>1, <1>5 DEF Value, Holds

\* A text is written with its NUL behind the first bytes of a block.
LEMMA WriteText ==
    ASSUME NEW str \in Seq(Byte), NEW u \in Seq(Char), NEW s \in Seq(Char),
           \A i \in 1..Len(u) : str[i] = u[i],
           Len(u) + Len(s) < Len(str)
    PROVE  /\ Write(str, Len(u), Append(s, NUL)) \in Seq(Byte)
           /\ Len(Write(str, Len(u), Append(s, NUL))) = Len(str)
           /\ \A i \in 1..(Len(u) + Len(s)) : Write(str, Len(u), Append(s, NUL))[i] = (u \o s)[i]
           /\ Write(str, Len(u), Append(s, NUL))[Len(u) + Len(s) + 1] = NUL
  <1> DEFINE a == Append(s, NUL)
             w == Write(str, Len(u), a)
  <1>1. /\ a \in Seq(Byte) /\ Len(a) = Len(s) + 1 /\ a[Len(s) + 1] = NUL
        /\ \A i \in 1..Len(s) : a[i] = s[i]
        /\ Len(u) \in Nat /\ Len(s) \in Nat /\ Len(str) \in Nat
    BY TextIsBytes, LenProperties
  <1>2. \A i \in 1..(Len(u) + Len(s)) : (u \o s)[i] = IF i <= Len(u) THEN u[i] ELSE s[i - Len(u)]
    BY ConcatProperties
  <1> HIDE DEF a
  <1>3. /\ w \in Seq(Byte) /\ Len(w) = Len(str)
        /\ \A i \in 1..Len(str) : w[i] = IF i <= Len(u) THEN str[i]
                                         ELSE IF i <= Len(u) + Len(a) THEN a[i - Len(u)] ELSE str[i]
    <2>1. Len(u) + Len(a) <= Len(str)
      BY <1>1
    <2>2. QED
      BY <1>1, <2>1, WriteProps
  <1> HIDE DEF w
  <1>4. \A i \in 1..(Len(u) + Len(s)) : w[i] = (u \o s)[i]
    <2>1. TAKE i \in 1..(Len(u) + Len(s))
    <2>2. CASE i <= Len(u)
      BY <1>1, <1>2, <1>3, <2>2
    <2>3. CASE i > Len(u)
      <3>1. i - Len(u) \in 1..Len(s)
        BY <1>1, <2>3
      <3>2. w[i] = a[i - Len(u)]
        <4>1. i \in 1..Len(str) /\ ~(i <= Len(u)) /\ i <= Len(u) + Len(a)
          BY <1>1, <2>3
        <4>2. QED
          BY <1>3, <4>1
      <3>3. QED
        BY <1>1, <1>2, <2>3, <3>1, <3>2
    <2>4. QED
      BY <1>1, <2>2, <2>3
  <1>5. w[Len(u) + Len(s) + 1] = NUL
    <2>1. /\ Len(u) + Len(s) + 1 \in 1..Len(str)
          /\ (Len(u) + Len(s) + 1) - Len(u) = Len(s) + 1
      BY <1>1
    <2>2. QED
      BY <1>1, <1>3, <2>1
  <1>6. QED
    BY <1>3, <1>4, <1>5 DEF w, a

-----------------------------------------------------------------------------
(* The operations *)

\* A new buffer holds its text, with NULs behind it, in a block longer than asked for.
LEMMA NewHolds ==
    ASSUME NEW m \in Nat \cup {-1}, NEW s \in Seq(Char), NEW b, b = cstrbufNew(m, s)
    PROVE  /\ Holds(b, s) /\ Terminated(b)
           /\ \A i \in (Len(s) + 1)..b.maxsz : b.str[i] = NUL
           /\ m > Len(s) => b.maxsz > m
  <1> DEFINE size == b.maxsz
             f == Fill(NUL, size - Len(s))
  <1>1. s \in Seq(Byte) /\ Len(s) \in Nat /\ NUL \in Byte
    BY TextIsBytes DEF Byte
  <1>2. /\ alignsize(Len(s) + 1) \in Nat /\ alignsize(Len(s) + 1) > Len(s) + 1
        /\ m \in Nat => alignsize(m) \in Nat /\ alignsize(m) > m
    BY <1>1, AlignProps, SMTT(30)
  <1>3. /\ size = CASE m = 0 -> Len(s) + 1
                    [] m = -1 \/ (m > 0 /\ m <= Len(s)) -> alignsize(Len(s) + 1)
                    [] OTHER -> alignsize(m)
        /\ b.len = Len(s) /\ b.str = s \o f
    BY DEF cstrbufNew
  <1>4. size \in Nat /\ size > Len(s) /\ (m > Len(s) => size > m)
    <2> HIDE DEF size
    <2>1. CASE m = 0
      BY <1>1, <1>3, <2>1
    <2>2. CASE m = -1 \/ (m > 0 /\ m <= Len(s))
      <3>1. m # 0
        BY <2>2
      <3>2. size = alignsize(Len(s) + 1)
        BY <1>3, <2>2, <3>1
      <3>3. QED
        BY <1>1, <1>2, <2>2, <3>2
    <2>3. CASE m > Len(s)
      <3>1. m \in Nat /\ m # 0 /\ ~(m = -1 \/ (m > 0 /\ m <= Len(s)))
        BY <1>1, <2>3
      <3>2. size = alignsize(m)
        BY <1>3, <3>1
      <3>3. QED
        BY <1>1, <1>2, <2>3, <3>1, <3>2
    <2>4. QED
      BY <1>1, <2>1, <2>2, <2>3
  <1>5. /\ f \in Seq(Byte) /\ Len(f) = size - Len(s)
        /\ \A i \in 1..(size - Len(s)) : f[i] = NUL
    <2>1. size - Len(s) \in Nat
      BY <1>1, <1>4
    <2> HIDE DEF size
    <2>2. QED
      BY <1>1, <2>1, FillProps
  <1>6. b = [maxsz |-> size, len |-> Len(s), str |-> s \o f]
    BY DEF cstrbufNew
  <1>12. b.maxsz = size /\ b.len = Len(s) /\ b.str = s \o f
    BY <1>6
  <1> HIDE DEF size, f
  <1>7. /\ s \o f \in Seq(Byte) /\ Len(s \o f) = Len(s) + Len(f)
        /\ \A i \in 1..(Len(s) + Len(f)) :
             (s \o f)[i] = IF i <= Len(s) THEN s[i] ELSE f[i - Len(s)]
    BY <1>1, <1>5, ConcatProperties
  <1>8. \A i \in (Len(s) + 1)..size : (s \o f)[i] = NUL
    <2>1. TAKE i \in (Len(s) + 1)..size
    <2>2. i - Len(s) \in 1..(size - Len(s)) /\ i \in 1..(Len(s) + Len(f)) /\ ~(i <= Len(s))
      BY <1>1, <1>4, <1>5
    <2>3. QED
      BY <1>5, <1>7, <2>2
  <1>9. Holds(b, s)
    <2>1. b \in Buffer /\ Len(b.str) = b.maxsz
      BY <1>1, <1>4, <1>5, <1>6, <1>7 DEF Buffer
    <2>2. \A i \in 1..Len(s) : b.str[i] = s[i]
      BY <1>1, <1>5, <1>4, <1>6, <1>7
    <2>3. QED
      BY <1>4, <1>6, <2>1, <2>2 DEF Holds
  <1>10. Terminated(b)
    <2>1. Len(s) + 1 \in (Len(s) + 1)..size
      BY <1>1, <1>4
    <2>2. QED
      BY <1>12, <1>8, <2>1 DEF Terminated
  <1>11. QED
    BY <1>4, <1>12, <1>8, <1>9, <1>10

\* Appending to no buffer makes one.
LEMMA CatNullHolds ==
    ASSUME NEW s \in Seq(Char), NEW b, b = cstrbufCat(Null, s)
    PROVE  Holds(b, s) /\ Terminated(b)
  <1> DEFINE e == cstrbufNew(Len(s) + 1, <<>>)
             w == Write(e.str, 0, s)
  <1>1. s \in Seq(Byte) /\ Len(s) \in Nat /\ <<>> \in Seq(Char) /\ Len(<<>>) = 0
    BY TextIsBytes
  <1>2. /\ Holds(e, <<>>) /\ e.maxsz > Len(s) + 1
        /\ \A i \in 1..e.maxsz : e.str[i] = NUL
    <2>1. Len(s) + 1 \in Nat \cup {-1} /\ Len(s) + 1 > 0
      BY <1>1
    <2> HIDE DEF e
    <2>2. e = cstrbufNew(Len(s) + 1, <<>>)
      BY DEF e
    <2>3. /\ Holds(e, <<>>)
          /\ \A i \in (Len(<<>>) + 1)..e.maxsz : e.str[i] = NUL
          /\ Len(s) + 1 > Len(<<>>) => e.maxsz > Len(s) + 1
      BY <1>1, <2>1, <2>2, NewHolds, ZenonT(60)
    <2>4. QED
      BY <1>1, <2>1, <2>3
  <1>3. b = [e EXCEPT !.len = Len(s), !.str = w]
    BY DEF cstrbufCat
  <1> HIDE DEF e
  <1>4. e \in Buffer /\ Len(e.str) = e.maxsz /\ e.str \in Seq(Byte) /\ e.maxsz \in Nat
    BY <1>2 DEF Holds, Buffer
  <1>5. /\ w \in Seq(Byte) /\ Len(w) = e.maxsz
        /\ \A i \in 1..e.maxsz : w[i] = IF i <= 0 THEN e.str[i]
                                        ELSE IF i <= 0 + Len(s) THEN s[i - 0] ELSE e.str[i]
    <2>1. 0 + Len(s) <= Len(e.str)
      BY <1>1, <1>2, <1>4
    <2>2. QED
      BY <1>1, <1>4, <2>1, WriteProps
  <1> HIDE DEF w
  <1>6. b.maxsz = e.maxsz /\ b.len = Len(s) /\ b.str = w /\ b \in Buffer
    BY <1>1, <1>3, <1>4, <1>5 DEF Buffer
  <1>7. \A i \in 1..Len(s) : w[i] = s[i]
    BY <1>1, <1>2, <1>4, <1>5
  <1>8. w[Len(s) + 1] = NUL
    BY <1>1, <1>2, <1>4, <1>5
  <1>9. QED
    BY <1>1, <1>2, <1>4, <1>5, <1>6, <1>7, <1>8 DEF Holds, Terminated

\* Appending no character and then a NUL is appending a NUL.
LEMMA AppendNul ==
    ASSUME NEW t \in Seq(Char)
    PROVE  t \o <<NUL>> = Append(t, NUL) /\ <<NUL>> = Append(<<>>, NUL) /\ t \o <<>> = t
  <1>1. t \in Seq(Byte) /\ NUL \in Byte
    BY TextIsBytes DEF Byte
  <1>2. t \o <<NUL>> = Append(t, NUL)
    BY <1>1, AppendIsConcat
  <1>3. t \o <<>> = t
    BY ConcatEmptySeq
  <1>4. QED
    BY <1>2, <1>3

\* A block in which the text was changed, as a record.
LEMMA Update ==
    ASSUME NEW b \in Buffer, NEW n, NEW w
    PROVE  [b EXCEPT !.len = n, !.str = w] = [maxsz |-> b.maxsz, len |-> n, str |-> w]
  <1> DEFINE c == [b EXCEPT !.len = n]
  <1>1. c = [maxsz |-> b.maxsz, len |-> n, str |-> b.str]
    BY DEF Buffer
  <1>2. [c EXCEPT !.str = w] = [maxsz |-> c.maxsz, len |-> c.len, str |-> w]
    <2> HIDE DEF c
    <2>1. QED
      BY <1>1
  <1>3. c.maxsz = b.maxsz /\ c.len = n
    BY <1>1
  <1>4. QED
    BY <1>2, <1>3

\* Writing a text with its NUL behind a text gives a buffer with both.
LEMMA WriteHolds ==
    ASSUME NEW b \in Buffer, Len(b.str) = b.maxsz,
           NEW u \in Seq(Char), NEW s \in Seq(Char),
           \A i \in 1..Len(u) : b.str[i] = u[i],
           Len(u) + Len(s) < b.maxsz,
           NEW w, w = Write(b.str, Len(u), Append(s, NUL)),
           NEW r, r = [maxsz |-> b.maxsz, len |-> Len(u) + Len(s), str |-> w]
    PROVE  Holds(r, u \o s) /\ Terminated(r)
  <1>1. b.str \in Seq(Byte) /\ b.maxsz \in Nat
    BY DEF Buffer
  <1>2. Len(u) \in Nat /\ Len(s) \in Nat
    BY LenProperties
  <1>3. u \o s \in Seq(Char) /\ Len(u \o s) = Len(u) + Len(s)
    BY ConcatProperties
  <1>4. /\ w \in Seq(Byte) /\ Len(w) = b.maxsz
        /\ \A i \in 1..(Len(u) + Len(s)) : w[i] = (u \o s)[i]
        /\ w[Len(u) + Len(s) + 1] = NUL
    BY <1>1, WriteText
  <1>5. r \in Buffer /\ r.maxsz = b.maxsz /\ r.len = Len(u) + Len(s) /\ r.str = w
    BY <1>1, <1>2, <1>4 DEF Buffer
  <1>6. QED
    BY <1>3, <1>4, <1>5 DEF Holds, Terminated

\* cstrbufCat appends, whether the text fits in the block or not.
LEMMA CatHolds ==
    ASSUME NEW b, NEW t, Holds(b, t), NEW s \in Seq(Char), NEW r, r = cstrbufCat(b, s)
    PROVE  Holds(r, t \o s) /\ Terminated(r)
  <1> DEFINE n == Len(t) + Len(s)
             size == alignsize(n + 1)
  <1>1. Value(b) = t /\ b # Null
    BY HoldsValue
  <1>2. /\ b \in Buffer /\ t \in Seq(Char) /\ Len(b.str) = b.maxsz /\ b.len = Len(t)
        /\ \A i \in 1..Len(t) : b.str[i] = t[i]
    BY DEF Holds
  <1>3. Len(t) \in Nat /\ Len(s) \in Nat /\ n \in Nat /\ b.maxsz \in Nat
    BY <1>2, LenProperties DEF Buffer
  <1>4. CASE n < b.maxsz
    <2>1. r = [maxsz |-> b.maxsz, len |-> Len(t) + Len(s),
               str |-> Write(b.str, Len(t), Append(s, NUL))]
      <3>1. r = [b EXCEPT !.len = Len(t) + Len(s),
                          !.str = Write(b.str, Len(t), Append(s, NUL))]
        BY <1>1, <1>2, <1>4 DEF cstrbufCat
      <3>2. QED
        BY <1>2, <3>1, Update
    <2>2. QED
      BY <1>2, <1>4, <2>1, WriteHolds
  <1>5. CASE ~(n < b.maxsz)
    <2> DEFINE x == t \o s
               y == x \o <<NUL>>
               f == Fill(Junk, size - n - 1)
               z == y \o f
    <2>1. r = [maxsz |-> size, len |-> n, str |-> z]
      BY <1>1, <1>2, <1>5 DEF cstrbufCat
    <2>2. size \in Nat /\ size > n + 1
      <3>1. n + 1 \in Nat
        BY <1>3
      <3> HIDE DEF n
      <3>2. QED
        BY <3>1, AlignProps
    <2>3. x \in Seq(Char) /\ Len(x) = n
      BY <1>2, ConcatProperties
    <2> HIDE DEF x
    <2>4. /\ y \in Seq(Byte) /\ Len(y) = n + 1 /\ y[n + 1] = NUL
          /\ \A i \in 1..n : y[i] = x[i]
      <3> HIDE DEF n
      <3>1. y = Append(x, NUL)
        BY <2>3, AppendNul
      <3>2. QED
        BY <2>3, <3>1, TextIsBytes
    <2> HIDE DEF y
    <2>5. f \in Seq(Byte) /\ Len(f) = size - n - 1
      <3>1. size - n - 1 \in Nat /\ Junk \in Byte
        BY <1>3, <2>2 DEF Byte
      <3> HIDE DEF size, n
      <3>2. QED
        BY <3>1, FillProps
    <2> HIDE DEF f, size, n
    <2>6. /\ z \in Seq(Byte) /\ Len(z) = size
          /\ \A i \in 1..(n + 1) : z[i] = y[i]
      <3>1. /\ z \in Seq(Byte) /\ Len(z) = Len(y) + Len(f)
            /\ \A i \in 1..(Len(y) + Len(f)) : z[i] = IF i <= Len(y) THEN y[i] ELSE f[i - Len(y)]
        BY <2>4, <2>5, ConcatProperties
      <3>2. QED
        BY <1>3, <2>2, <2>4, <2>5, <3>1
    <2> HIDE DEF z
    <2>7. r \in Buffer /\ r.maxsz = size /\ r.len = n /\ r.str = z
      BY <1>3, <2>1, <2>2, <2>6 DEF Buffer
    <2>8. Holds(r, x)
      BY <1>3, <2>2, <2>3, <2>4, <2>6, <2>7 DEF Holds
    <2>9. Terminated(r)
      BY <1>3, <2>4, <2>6, <2>7 DEF Terminated
    <2>10. QED
      BY <2>8, <2>9 DEF x
  <1>6. QED
    BY <1>4, <1>5

\* An append that fails leaves the text as it was.
LEMMA CatErrorHolds ==
    ASSUME NEW b, NEW t, Holds(b, t), NEW r, r = cstrbufCatError(b)
    PROVE  Holds(r, t) /\ Terminated(r)
  <1>1. /\ b \in Buffer /\ t \in Seq(Char) /\ Len(b.str) = b.maxsz /\ b.len = Len(t)
        /\ Len(t) < b.maxsz /\ \A i \in 1..Len(t) : b.str[i] = t[i]
    BY DEF Holds
  <1>2. <<>> \in Seq(Char) /\ Len(<<>>) = 0 /\ Len(t) \in Nat /\ Len(t) + Len(<<>>) = Len(t)
    BY <1>1, TextIsBytes
  <1>3. <<NUL>> = Append(<<>>, NUL) /\ t \o <<>> = t
    BY <1>1, AppendNul
  <1>4. r = [b EXCEPT !.str = Write(b.str, Len(t), <<NUL>>)]
    BY <1>1 DEF cstrbufCatError
  <1>5. r = [maxsz |-> b.maxsz, len |-> Len(t) + Len(<<>>),
             str |-> Write(b.str, Len(t), Append(<<>>, NUL))]
    <2> DEFINE w == Write(b.str, Len(t), <<NUL>>)
    <2>1. r = [b EXCEPT !.str = w]
      BY <1>4
    <2> HIDE DEF w
    <2>2. r = [maxsz |-> b.maxsz, len |-> Len(t), str |-> w]
      BY <1>1, <2>1 DEF Buffer
    <2>3. QED
      BY <1>2, <1>3, <2>2 DEF w
  <1>6. Len(t) + Len(<<>>) < b.maxsz
    BY <1>1, <1>2
  <1>7. Holds(r, t \o <<>>) /\ Terminated(r)
    BY <1>1, <1>2, <1>5, <1>6, WriteHolds
  <1>8. QED
    BY <1>3, <1>7

\* cstrbufTrunc keeps the first n characters.
LEMMA TruncHolds ==
    ASSUME NEW b, NEW t, Holds(b, t), NEW n \in Nat, NEW r, r = cstrbufTrunc(b, n)
    PROVE  /\ n < Len(t) => Holds(r, SubSeq(t, 1, n)) /\ Terminated(r)
           /\ ~(n < Len(t)) => r = b
  <1>1. /\ b \in Buffer /\ t \in Seq(Char) /\ Len(b.str) = b.maxsz /\ b.len = Len(t)
        /\ Len(t) < b.maxsz /\ \A i \in 1..Len(t) : b.str[i] = t[i]
    BY DEF Holds
  <1>2. Len(t) \in Nat /\ b.maxsz \in Nat
    BY <1>1, LenProperties DEF Buffer
  <1>3. CASE n < Len(t)
    <2> DEFINE u == SubSeq(t, 1, n)
    <2>1. /\ u \in Seq(Char) /\ Len(u) = n
          /\ \A i \in 1..n : u[i] = t[i]
      <3>1. \A i \in 1..n : t[i] \in Char
        BY <1>1, <1>2, <1>3, ElementOfSeq
      <3>2. QED
        BY <3>1, SubSeqProperties
    <2> HIDE DEF u
    <2>2. <<>> \in Seq(Char) /\ Len(<<>>) = 0 /\ <<NUL>> = Append(<<>>, NUL) /\ u \o <<>> = u
      BY <2>1, AppendNul
    <2>3. r = [b EXCEPT !.len = n, !.str = Write(b.str, n, <<NUL>>)]
      BY <1>1, <1>3 DEF cstrbufTrunc
    <2>4. /\ Len(u) + Len(<<>>) = n /\ n < b.maxsz
          /\ \A i \in 1..Len(u) : b.str[i] = u[i]
      BY <1>1, <1>2, <1>3, <2>1, <2>2, SMTT(30)
    <2>5. r = [maxsz |-> b.maxsz, len |-> Len(u) + Len(<<>>),
               str |-> Write(b.str, Len(u), Append(<<>>, NUL))]
      <3>1. r = [maxsz |-> b.maxsz, len |-> n, str |-> Write(b.str, n, <<NUL>>)]
        BY <1>1, <2>3, Update
      <3>2. QED
        BY <2>1, <2>2, <2>4, <3>1
    <2>6. Holds(r, u \o <<>>) /\ Terminated(r)
      BY <1>1, <2>1, <2>2, <2>4, <2>5, WriteHolds
    <2>7. QED
      BY <1>3, <2>2, <2>6 DEF u
  <1>4. CASE ~(n < Len(t))
    BY <1>1, <1>2, <1>4 DEF cstrbufTrunc
  <1>5. QED
    BY <1>3, <1>4

\* cstrbufConcat of two buffers holds both texts.
LEMMA ConcatHolds ==
    ASSUME NEW b, NEW t, Holds(b, t), NEW c, NEW u, Holds(c, u), NEW r, r = cstrbufConcat(b, c)
    PROVE  Holds(r, t \o u) /\ Terminated(r)
  <1>1. Value(b) = t /\ Value(c) = u
    BY HoldsValue
  <1>2. t \in Seq(Char) /\ u \in Seq(Char)
    BY DEF Holds
  <1> DEFINE first == cstrbufCat(Null, t)
  <1> HIDE DEF first
  <1>3. Holds(first, t)
    BY <1>2, CatNullHolds DEF first
  <1>4. r = cstrbufCat(first, u)
    BY <1>1 DEF cstrbufConcat, first
  <1>5. QED
    BY <1>2, <1>3, <1>4, CatHolds

\* cstrbufDup gives a buffer with s, in the old block or a new one.
LEMMA DupHolds ==
    ASSUME NEW b, b = Null \/ Holds(b, Value(b)), NEW s \in Seq(Char),
           NEW r, r = cstrbufDup(b, s)
    PROVE  Holds(r, s) /\ Terminated(r)
  <1>1. CASE r = cstrbufNew(0, s)
    BY <1>1, NewHolds
  <1>2. CASE /\ b # Null
             /\ s = <<>> \/ b.maxsz > Len(s)
             /\ r = [b EXCEPT !.len = Len(s), !.str = Write(b.str, 0, Append(s, NUL))]
    <2>1. b \in Buffer /\ Len(b.str) = b.maxsz /\ Len(Value(b)) < b.maxsz /\ b.maxsz \in Nat
      BY <1>2 DEF Holds, Buffer
    <2>2. Value(b) \in Seq(Char) /\ Len(Value(b)) \in Nat
      BY <1>2, LenProperties DEF Holds
    <2>3. <<>> \in Seq(Char) /\ Len(<<>>) = 0 /\ Len(s) \in Nat /\ <<>> \o s = s
      BY LenProperties, ConcatEmptySeq
    <2>4. Len(<<>>) + Len(s) < b.maxsz /\ Len(<<>>) + Len(s) = Len(s)
      BY <1>2, <2>1, <2>2, <2>3
    <2>5. r = [maxsz |-> b.maxsz, len |-> Len(<<>>) + Len(s),
               str |-> Write(b.str, Len(<<>>), Append(s, NUL))]
      <3>1. r = [maxsz |-> b.maxsz, len |-> Len(s), str |-> Write(b.str, 0, Append(s, NUL))]
        BY <1>2, <2>1, Update
      <3>2. QED
        BY <2>3, <2>4, <3>1
    <2>6. \A i \in 1..Len(<<>>) : b.str[i] = <<>>[i]
      BY <2>3
    <2>7. Holds(r, <<>> \o s) /\ Terminated(r)
      BY <2>1, <2>3, <2>4, <2>5, <2>6, WriteHolds
    <2>8. QED
      BY <2>3, <2>7
  <1>3. \/ r = cstrbufNew(0, s)
        \/ /\ b # Null
           /\ s = <<>> \/ b.maxsz > Len(s)
           /\ r = [b EXCEPT !.len = Len(s), !.str = Write(b.str, 0, Append(s, NUL))]
    <2>1. CASE b = Null
      BY <2>1 DEF cstrbufDup
    <2>2. CASE b # Null /\ s = <<>>
      <3>1. Len(s) = 0 /\ <<NUL>> = Append(s, NUL)
        BY <2>2, AppendNul
      <3>2. r = [b EXCEPT !.len = 0, !.str = Write(b.str, 0, <<NUL>>)]
        BY <2>2 DEF cstrbufDup
      <3>3. QED
        BY <2>2, <3>1, <3>2
    <2>3. CASE b # Null /\ s # <<>>
      BY <2>3 DEF cstrbufDup
    <2>4. QED
      BY <2>1, <2>2, <2>3
  <1>4. QED
    BY <1>1, <1>2, <1>3

\* cstrbufSub replaces n bytes behind the first i by t.
LEMMA SubHolds ==
    ASSUME NEW s \in Seq(Char), NEW i \in Nat, NEW n \in Nat, i + n <= Len(s),
           NEW t \in Seq(Char), NEW r, r = cstrbufSub(s, i, n, t)
    PROVE  /\ Holds(r, SubSeq(s, 1, i) \o (t \o SubSeq(s, i + n + 1, Len(s))))
           /\ Terminated(r)
  <1> DEFINE u == SubSeq(s, 1, i)
             e == SubSeq(s, i + n + 1, Len(s))
             x == t \o e
             m == Len(s) - n + Len(t) + 1
             b == cstrbufNew(m, u)
  <1>1. Len(s) \in Nat /\ Len(t) \in Nat /\ \A j \in 1..Len(s) : s[j] \in Char
    BY TextIsBytes
  <1>2. u \in Seq(Char) /\ Len(u) = i
    <2>1. \A j \in 1..i : s[j] \in Char
      BY <1>1
    <2>2. QED
      BY <2>1, SubSeqProperties
  <1>3. e \in Seq(Char) /\ Len(e) = Len(s) - (i + n)
    <2>1. \A j \in (i + n + 1)..Len(s) : s[j] \in Char
      BY <1>1
    <2>2. QED
      BY <1>1, <2>1, SubSeqProperties
  <1>4. r = [b EXCEPT !.len = Len(s) - n + Len(t), !.str = Write(b.str, i, x \o <<NUL>>)]
    BY DEF cstrbufSub, Rest
  <1> HIDE DEF u, e, m, b
  <1>5. x \in Seq(Char) /\ Len(x) = Len(t) + Len(e)
    <2>1. e \in Seq(Char)
      BY <1>3
    <2>2. QED
      BY <2>1, ConcatProperties
  <1> HIDE DEF x
  <1>6. x \o <<NUL>> = Append(x, NUL)
    BY <1>5, AppendNul
  <1>7. m \in Nat /\ m > Len(u) /\ Len(u) + Len(x) = Len(s) - n + Len(t)
        /\ m = Len(u) + Len(x) + 1
    BY <1>1, <1>2, <1>3, <1>5 DEF m
  <1>8. Holds(b, u) /\ b.maxsz > m
    <2>1. m \in Nat \cup {-1}
      BY <1>7
    <2>2. b = cstrbufNew(m, u)
      BY DEF b
    <2>3. QED
      BY <1>2, <1>7, <2>1, <2>2, NewHolds
  <1>9. /\ b \in Buffer /\ Len(b.str) = b.maxsz /\ b.maxsz \in Nat
        /\ \A j \in 1..Len(u) : b.str[j] = u[j]
    BY <1>8 DEF Holds, Buffer
  <1>10. Len(u) + Len(x) < b.maxsz
    BY <1>1, <1>2, <1>3, <1>5, <1>7, <1>8, <1>9, SMTT(30)
  <1>11. r = [maxsz |-> b.maxsz, len |-> Len(u) + Len(x),
              str |-> Write(b.str, Len(u), Append(x, NUL))]
    <2>1. r = [maxsz |-> b.maxsz, len |-> Len(s) - n + Len(t),
               str |-> Write(b.str, i, x \o <<NUL>>)]
      BY <1>4, <1>9, Update
    <2>2. QED
      BY <1>2, <1>6, <1>7, <2>1
  <1>12. Holds(r, u \o x) /\ Terminated(r)
    BY <1>2, <1>5, <1>9, <1>10, <1>11, WriteHolds
  <1>13. QED
    BY <1>12 DEF u, x, e

\* cstrbufPushBack appends a character, terminated or not.
LEMMA PushHolds ==
    ASSUME NEW b, NEW t, Holds(b, t), NEW c \in Char, NEW r, r = cstrbufPushBack(b, c)
    PROVE  Holds(r, t \o <<c>>)
  <1> DEFINE v == <<c>>
  <1>1. /\ b \in Buffer /\ t \in Seq(Char) /\ Len(b.str) = b.maxsz /\ b.len = Len(t)
        /\ Len(t) < b.maxsz /\ \A i \in 1..Len(t) : b.str[i] = t[i]
    BY DEF Holds
  <1>2. Len(t) \in Nat /\ b.maxsz \in Nat /\ b.str \in Seq(Byte) /\ b # Null
    BY <1>1, LenProperties, HoldsValue DEF Buffer
  <1>3. v \in Seq(Char) /\ v \in Seq(Byte) /\ Len(v) = 1 /\ v[1] = c
    BY DEF Byte
  <1>4. CASE Len(t) + 1 < b.maxsz
    <2> DEFINE w == Write(b.str, Len(t), v)
    <2>1. r = [maxsz |-> b.maxsz, len |-> Len(t) + 1, str |-> w]
      <3>1. r = [b EXCEPT !.len = Len(t) + 1, !.str = w]
        BY <1>1, <1>2, <1>4 DEF cstrbufPushBack
      <3>2. QED
        BY <1>1, <3>1, Update
    <2> HIDE DEF v
    <2>2. /\ w \in Seq(Byte) /\ Len(w) = b.maxsz
          /\ \A i \in 1..b.maxsz : w[i] = IF i <= Len(t) THEN b.str[i]
                                          ELSE IF i <= Len(t) + 1 THEN v[i - Len(t)] ELSE b.str[i]
      <3>1. Len(t) + Len(v) <= Len(b.str)
        BY <1>1, <1>2, <1>3, <1>4
      <3>2. b.str \in Seq(Byte) /\ Len(t) \in Nat /\ v \in Seq(Byte)
        BY <1>2, <1>3
      <3>3. /\ w \in Seq(Byte) /\ Len(w) = Len(b.str)
            /\ \A i \in 1..Len(b.str) : w[i] = IF i <= Len(t) THEN b.str[i]
                                               ELSE IF i <= Len(t) + Len(v) THEN v[i - Len(t)] ELSE b.str[i]
        BY <3>1, <3>2, WriteProps
      <3> HIDE DEF w
      <3>4. QED
        BY <1>1, <1>3, <3>3
    <2> HIDE DEF w
    <2>3. \A i \in 1..(Len(t) + 1) : w[i] = IF i <= Len(t) THEN t[i] ELSE c
      <3>1. TAKE i \in 1..(Len(t) + 1)
      <3>2. CASE i <= Len(t)
        BY <1>1, <1>2, <1>4, <2>2, <3>2
      <3>3. CASE i = Len(t) + 1
        <4>1. i \in 1..b.maxsz /\ ~(i <= Len(t)) /\ i <= Len(t) + 1 /\ i - Len(t) = 1
          BY <1>2, <1>4, <3>3
        <4>2. w[i] = v[i - Len(t)]
          BY <2>2, <4>1
        <4>3. QED
          BY <1>3, <4>1, <4>2
      <3>4. QED
        BY <1>2, <3>2, <3>3
    <2>4. /\ t \o <<c>> \in Seq(Char) /\ Len(t \o <<c>>) = Len(t) + 1
          /\ \A i \in 1..(Len(t) + 1) : (t \o <<c>>)[i] = IF i <= Len(t) THEN t[i] ELSE c
      <3> DEFINE a == Append(t, c)
      <3>1. t \o <<c>> = a
        BY <1>1, AppendIsConcat
      <3>2. a \in Seq(Char) /\ Len(a) = Len(t) + 1 /\ a[Len(t) + 1] = c
            /\ \A i \in 1..Len(t) : a[i] = t[i]
        BY <1>1
      <3> HIDE DEF a
      <3>3. \A i \in 1..(Len(t) + 1) : a[i] = IF i <= Len(t) THEN t[i] ELSE c
        BY <1>2, <3>2
      <3>4. QED
        BY <3>1, <3>2, <3>3
    <2>5. r \in Buffer /\ r.maxsz = b.maxsz /\ r.len = Len(t) + 1 /\ r.str = w
      BY <1>1, <1>2, <2>1, <2>2 DEF Buffer
    <2>6. \A i \in 1..(Len(t) + 1) : r.str[i] = (t \o <<c>>)[i]
      BY <2>3, <2>4, <2>5
    <2>7. QED
      BY <1>4, <2>2, <2>4, <2>5, <2>6 DEF Holds
  <1>5. CASE ~(Len(t) + 1 < b.maxsz)
    <2>1. r = cstrbufCat(b, <<c>>)
      BY <1>1, <1>5 DEF cstrbufPushBack
    <2>2. QED
      BY <1>3, <2>1, CatHolds
  <1>6. QED
    BY <1>4, <1>5

-----------------------------------------------------------------------------
(* The steps *)

\* What a step leaves behind and what the client sees of it.
LEMMA After ==
    ASSUME NEW t, Holds(csb', t)
    PROVE  BufInv' /\ csb' # Null /\ Value(csb') = t /\ t # Null
  <1>1. Value(csb') = t /\ csb' # Null /\ t # Null
    BY HoldsValue
  <1>2. QED
    BY <1>1 DEF BufInv

\* What the client sees before a step.
LEMMA Before ==
    ASSUME BufInv
    PROVE  /\ csb # Null => Holds(csb, Value(csb)) /\ Value(csb) # Null
           /\ csb = Null => Value(csb) = <<>>
           /\ Value(csb) \in Seq(Char) /\ Len(Value(csb)) \in Nat
           /\ csb # Null => csb.len = Len(Value(csb))
  <1>1. csb # Null => Holds(csb, Value(csb)) /\ Value(csb) # Null
    BY HoldsValue DEF BufInv
  <1>2. csb = Null => Value(csb) = <<>>
    BY DEF Value
  <1>3. Value(csb) \in Seq(Char) /\ (csb # Null => csb.len = Len(Value(csb)))
    <2> DEFINE t == Value(csb)
    <2> HIDE DEF t
    <2>1. CASE csb = Null
      <3>1. t = <<>>
        BY <1>2, <2>1 DEF t
      <3>2. QED
        BY <2>1, <3>1 DEF t
    <2>2. CASE csb # Null
      <3>1. Holds(csb, t)
        BY <1>1, <2>2 DEF t
      <3>2. t \in Seq(Char) /\ csb.len = Len(t)
        BY <3>1 DEF Holds
      <3>3. QED
        BY <3>2 DEF t
    <2>3. QED
      BY <2>1, <2>2
  <1>4. QED
    BY <1>1, <1>2, <1>3, LenProperties

\* Every call keeps the invariant, leaves a terminated text if it changes the
\* buffer and is not cstrbufPushBack, and does to the text what the abstract
\* call does.
LEMMA Step ==
    ASSUME BufInv, BufNext
    PROVE  /\ BufInv'
           /\ csb' # Null /\ csb' # csb /\ op'[1] # "push" => Terminated(csb')
           /\ Abs!Next
  <1> USE DEF Abs!Call, Call
  <1>1. CASE New
    <2>1. PICK m \in MaxSz, s \in Str :
            csb = Null /\ op' = <<"new", s>> /\ csb' = cstrbufNew(m, s)
      BY <1>1 DEF New
    <2>2. Holds(csb', s) /\ Terminated(csb')
      <3>1. m \in Nat \cup {-1} /\ s \in Seq(Char)
        BY StrAssumption, SizeAssumption
      <3>2. QED
        BY <2>1, <3>1, NewHolds
    <2>3. BufInv' /\ csb' # Null /\ Value(csb') = s
      BY <2>2, After
    <2>4. Abs!Create
      BY <2>1, <2>3 DEF Abs!Create
    <2>5. QED
      BY <2>2, <2>3, <2>4 DEF Abs!Next
  <1>2. CASE Cat
    <2>1. PICK s \in Str : op' = <<"cat", s>> /\ csb' = cstrbufCat(csb, s)
      BY <1>2 DEF Cat
    <2>2. s \in Seq(Char) /\ <<>> \o s = s
      BY StrAssumption, ConcatEmptySeq
    <2>3. Holds(csb', Value(csb) \o s) /\ Terminated(csb')
      <3>1. CASE csb = Null
        <4>1. csb' = cstrbufCat(Null, s) /\ Value(csb) \o s = s
          BY <2>1, <2>2, <3>1, Before
        <4>2. QED
          BY <2>2, <4>1, CatNullHolds
      <3>2. CASE csb # Null
        <4>1. Holds(csb, Value(csb))
          BY <3>2, Before
        <4>2. QED
          BY <2>1, <2>2, <4>1, CatHolds
      <3>3. QED
        BY <3>1, <3>2
    <2>4. BufInv' /\ csb' # Null /\ Value(csb') = Value(csb) \o s
      BY <2>3, After
    <2>5. Abs!Add
      BY <2>1, <2>4, Before DEF Abs!Add, Abs!Old
    <2>6. QED
      BY <2>3, <2>4, <2>5 DEF Abs!Next
  <1>3. CASE CatError
    <2>1. csb # Null /\ op' = <<"cat", <<>> >> /\ csb' = cstrbufCatError(csb)
      BY <1>3 DEF CatError
    <2>2. Holds(csb', Value(csb)) /\ Terminated(csb')
      <3>1. Holds(csb, Value(csb))
        BY <2>1, Before
      <3>2. QED
        BY <2>1, <3>1, CatErrorHolds
    <2>3. BufInv' /\ csb' # Null /\ Value(csb') = Value(csb) /\ Value(csb) # Null
      BY <2>2, After
    <2>4. Abs!AddFails
      BY <2>1, <2>3 DEF Abs!AddFails
    <2>5. QED
      BY <2>2, <2>3, <2>4 DEF Abs!Next
  <1>4. CASE Trunc
    <2>1. PICK n \in 0..MAXLEN :
            csb # Null /\ op' = <<"trunc", n>> /\ csb' = cstrbufTrunc(csb, n)
      BY <1>4 DEF Trunc
    <2> DEFINE t == Value(csb)
    <2>2. Holds(csb, t) /\ t # Null /\ n \in Nat
      BY <2>1, Before, SizeAssumption
    <2>3. /\ n < Len(t) => Holds(csb', SubSeq(t, 1, n)) /\ Terminated(csb')
          /\ ~(n < Len(t)) => csb' = csb
      <3> HIDE DEF t
      <3>1. QED
        BY <2>1, <2>2, TruncHolds
    <2>4. CASE n < Len(t)
      <3>1. Holds(csb', SubSeq(t, 1, n)) /\ Terminated(csb')
        BY <2>3, <2>4
      <3>2. BufInv' /\ csb' # Null /\ Value(csb') = SubSeq(t, 1, n)
        BY <3>1, After
      <3>3. Abs!Cut
        BY <2>1, <2>2, <2>4, <3>2 DEF Abs!Cut, Abs!Prefix
      <3>4. QED
        BY <3>1, <3>2, <3>3 DEF Abs!Next
    <2>5. CASE ~(n < Len(t))
      <3>1. csb' = csb
        BY <2>3, <2>5
      <3>2. BufInv' /\ csb' # Null /\ Value(csb') = t
        BY <2>1, <3>1 DEF BufInv
      <3>3. Abs!Cut
        BY <2>1, <2>2, <2>5, <3>2 DEF Abs!Cut
      <3>4. QED
        BY <3>1, <3>2, <3>3 DEF Abs!Next
    <2>6. QED
      BY <2>4, <2>5
  <1>5. CASE Concat
    <2>1. csb # Null /\ op' = <<"concat", <<>> >> /\ csb' = cstrbufConcat(csb, csb)
      BY <1>5 DEF Concat
    <2>2. Holds(csb', Value(csb) \o Value(csb)) /\ Terminated(csb')
      <3>1. Holds(csb, Value(csb))
        BY <2>1, Before
      <3>2. QED
        BY <2>1, <3>1, ConcatHolds
    <2>3. BufInv' /\ csb' # Null /\ Value(csb') = Value(csb) \o Value(csb)
      BY <2>2, After
    <2>4. Abs!Double
      BY <2>1, <2>3, Before DEF Abs!Double
    <2>5. QED
      BY <2>2, <2>3, <2>4 DEF Abs!Next
  <1>6. CASE Dup
    <2>1. PICK s \in Str : op' = <<"dup", s>> /\ csb' = cstrbufDup(csb, s)
      BY <1>6 DEF Dup
    <2>2. Holds(csb', s) /\ Terminated(csb')
      <3>1. s \in Seq(Char) /\ (csb = Null \/ Holds(csb, Value(csb)))
        BY StrAssumption DEF BufInv
      <3>2. QED
        BY <2>1, <3>1, DupHolds
    <2>3. BufInv' /\ csb' # Null /\ Value(csb') = s
      BY <2>2, After
    <2>4. Abs!Assign
      BY <2>1, <2>3 DEF Abs!Assign
    <2>5. QED
      BY <2>2, <2>3, <2>4 DEF Abs!Next
  <1>7. CASE Sub
    <2> DEFINE t == Value(csb)
    <2>1. csb # Null /\ csb.len = Len(t) /\ t \in Seq(Char) /\ Len(t) \in Nat /\ t # Null
      BY <1>7, Before DEF Sub
    <2>2. PICK i \in 0..Len(t), n \in 0..Len(t), s \in Str :
            i + n <= Len(t) /\ op' = <<"sub", <<i, n, s>> >> /\ csb' = cstrbufSub(t, i, n, s)
      BY <1>7, <2>1 DEF Sub
    <2> DEFINE u == SubSeq(t, 1, i)
               e == SubSeq(t, i + n + 1, Len(t))
    <2>3. i \in Nat /\ n \in Nat /\ s \in Seq(Char)
      BY <2>1, StrAssumption
    <2>4. Holds(csb', u \o (s \o e)) /\ Terminated(csb')
      <3> HIDE DEF t
      <3>1. QED
        BY <2>1, <2>2, <2>3, SubHolds
    <2>5. u \o (s \o e) = u \o s \o e
      <3> HIDE DEF t
      <3>1. \A j \in 1..Len(t) : t[j] \in Char
        BY <2>1, ElementOfSeq
      <3>2. u \in Seq(Char)
        <4>1. \A j \in 1..i : t[j] \in Char
          BY <2>1, <2>2, <2>3, <3>1
        <4>2. QED
          BY <2>3, <4>1, SubSeqProperties
      <3>3. e \in Seq(Char)
        <4>1. \A j \in (i + n + 1)..Len(t) : t[j] \in Char
          BY <2>1, <2>3, <3>1
        <4>2. QED
          BY <2>1, <2>3, <4>1, SubSeqProperties
      <3> HIDE DEF u, e
      <3>4. QED
        BY <2>3, <3>2, <3>3, ConcatAssociative, SMTT(30)
    <2>6. BufInv' /\ csb' # Null /\ Value(csb') = u \o s \o e
      <3>1. Holds(csb', u \o s \o e)
        BY <2>4, <2>5
      <3> HIDE DEF t, u, e
      <3>2. QED
        BY <3>1, After
    <2>7. Abs!Splice
      BY <2>1, <2>2, <2>6 DEF Abs!Splice, Abs!Prefix
    <2>8. QED
      BY <2>4, <2>6, <2>7 DEF Abs!Next
  <1>8. CASE PushBack
    <2>1. PICK c \in Char :
            <<c>> \in Str /\ op' = <<"push", <<c>> >> /\ csb' = cstrbufPushBack(csb, c)
      BY <1>8 DEF PushBack
    <2> DEFINE s == <<c>>
    <2>2. s \in Seq(Char) /\ <<>> \o s = s
      <3>1. s \in Seq(Char)
        BY StrAssumption, <2>1
      <3> HIDE DEF s
      <3>2. QED
        BY <3>1, ConcatEmptySeq
    <2>3. Holds(csb', Value(csb) \o s)
      <3>1. CASE csb = Null
        <4>1. csb' = cstrbufCat(Null, s)
          BY <2>1, <3>1 DEF cstrbufPushBack
        <4>2. Value(csb) \o s = s
          BY <2>2, <3>1, Before
        <4>3. QED
          BY <2>2, <4>1, <4>2, CatNullHolds
      <3>2. CASE csb # Null
        <4>1. Holds(csb, Value(csb))
          BY <3>2, Before
        <4>2. QED
          BY <2>1, <4>1, PushHolds
      <3>3. QED
        BY <3>1, <3>2
    <2>4. BufInv' /\ csb' # Null /\ Value(csb') = Value(csb) \o s
      BY <2>3, After
    <2>5. Abs!Push
      <3>1. s \in Str /\ op' = <<"push", s>>
        BY <2>1
      <3> HIDE DEF s
      <3>2. QED
        BY <2>4, <3>1, Before DEF Abs!Push, Abs!Old
    <2>6. op'[1] = "push"
      BY <2>1
    <2>7. QED
      BY <2>4, <2>5, <2>6 DEF Abs!Next
  <1>9. CASE Free
    <2>1. csb # Null /\ op' = <<"free", <<>> >> /\ csb' = Null
      BY <1>9 DEF Free
    <2>2. Abs!Free
      BY <2>1, Before DEF Abs!Free
    <2>3. QED
      BY <2>1, <2>2 DEF BufInv, Abs!Next
  <1>10. QED
    BY <1>1, <1>2, <1>3, <1>4, <1>5, <1>6, <1>7, <1>8, <1>9 DEF BufNext

-----------------------------------------------------------------------------
(* The theorems *)

\* After any calls the buffer holds a text of written characters with room for
\* its NUL, as cstrbufNew and the calls that follow it leave it.
THEOREM TextHeld == BufSpec => []BufInv
  <1>1. BufInit => BufInv
    BY DEF BufInit, BufInv
  <1>2. BufInv /\ [BufNext]_bufVars => BufInv'
    <2>1. CASE BufNext
      BY <2>1, Step
    <2>2. CASE UNCHANGED bufVars
      BY <2>2 DEF bufVars, BufInv
    <2>3. QED
      BY <2>1, <2>2
  <1>3. QED
    BY <1>1, <1>2, PTL DEF BufSpec

\* No call of cstrbuf.h uses a byte outside its block.
THEOREM InsideBlock == BufSpec => []BufTypeOK
  <1>1. BufInv => BufTypeOK
    <2>1. SUFFICES ASSUME BufInv, csb # Null PROVE BufTypeOK
      BY DEF BufTypeOK
    <2>2. Holds(csb, Value(csb)) /\ Len(Value(csb)) \in Nat
      BY <2>1, Before
    <2>3. /\ csb \in Buffer /\ Len(csb.str) = csb.maxsz
          /\ csb.len = Len(Value(csb)) /\ Len(Value(csb)) < csb.maxsz
      BY <2>2 DEF Holds
    <2>4. QED
      BY <2>2, <2>3 DEF BufTypeOK, Buffer, Byte
  <1>2. QED
    BY <1>1, TextHeld, PTL

\* What the buffer shows, and what cstrbufCharAtSafe gives an address of, are
\* characters the client wrote.
THEOREM WrittenOnly == BufSpec => []OnlyWritten
  <1>1. BufInv => OnlyWritten
    <2>1. SUFFICES ASSUME BufInv PROVE OnlyWritten
      OBVIOUS
    <2> DEFINE t == Value(csb)
    <2>2. t \in Seq(Char) /\ Len(t) \in Nat /\ \A i \in 1..Len(t) : t[i] \in Char
      BY <2>1, Before, ElementOfSeq
    <2>3. csb # Null => csb.len = Len(t) /\ \A i \in 1..Len(t) : csb.str[i] \in Char
      BY <2>1, <2>2, Before DEF Holds
    <2>4. csb = Null => Len(t) = 0
      BY <2>1, Before
    <2>5. \A i \in 1..Len(t) : csb.str[i] \in Char
      BY <2>2, <2>3, <2>4
    <2>6. \A at \in -1..(MAXLEN + 1) : CharAtSafe(csb, at) \in Char \cup {Null}
      <3> HIDE DEF t
      <3>1. TAKE at \in -1..(MAXLEN + 1)
      <3>2. at \in Int
        BY SizeAssumption
      <3>3. CASE csb # Null /\ at >= 0 /\ at < csb.len
        <4>1. at + 1 \in 1..Len(t)
          BY <2>2, <2>3, <3>2, <3>3
        <4>2. QED
          BY <2>3, <3>3, <4>1 DEF CharAtSafe
      <3>4. CASE ~(csb # Null /\ at >= 0 /\ at < csb.len)
        BY <3>4 DEF CharAtSafe
      <3>5. QED
        BY <3>3, <3>4
    <2>7. QED
      BY <2>5, <2>6 DEF OnlyWritten
  <1>2. QED
    BY <1>1, TextHeld, PTL

\* Every call but cstrbufPushBack that changes the buffer leaves a C string.
THEOREM Terminating == BufSpec => TerminatesText
  <1> DEFINE T == csb' # Null /\ csb' # csb /\ op'[1] # "push" => Terminated(csb')
  <1>1. BufInv /\ [BufNext]_bufVars => [T]_bufVars
    <2>1. CASE BufNext
      BY <2>1, Step
    <2>2. CASE UNCHANGED bufVars
      BY <2>2
    <2>3. QED
      BY <2>1, <2>2
  <1> HIDE DEF T
  <1>2. BufSpec => [][T]_bufVars
    BY <1>1, TextHeld, PTL DEF BufSpec
  <1>3. QED
    BY <1>2 DEF TerminatesText, T

\* Whatever calls were made before, every call of cstrbuf.h does to the client's
\* text what CstrbufAbs says.
THEOREM TextImplemented == BufSpec => ImplementsText
  <1>1. BufInit => Abs!Init
    BY DEF BufInit, Abs!Init
  <1>2. BufInv /\ [BufNext]_bufVars => [Abs!Next]_Abs!vars
    <2>1. CASE BufNext
      BY <2>1, Step
    <2>2. CASE UNCHANGED bufVars
      BY <2>2 DEF bufVars, Abs!vars
    <2>3. QED
      BY <2>1, <2>2
  <1>3. QED
    BY <1>1, <1>2, TextHeld, PTL DEF BufSpec, ImplementsText, Abs!Spec
=============================================================================
