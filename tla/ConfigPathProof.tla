-------------------------- MODULE ConfigPathProof ---------------------------
(***************************************************************************)
(* Proofs about find_config_pathfile, for any program, any file system,    *)
(* any separator and any arguments.  Its buffers are those of Cstrbuf, and *)
(* what their operations do is taken from the lemmas of CstrbufProof.      *)
(***************************************************************************)
EXTENDS ConfigPath, CstrbufProof, Least, FiniteSetTheorems

-----------------------------------------------------------------------------
(* Texts *)

\* Texts are put together in any order.
LEMMA TextsAssociate ==
    ASSUME NEW a \in Seq(Char), NEW b \in Seq(Char), NEW c \in Seq(Char)
    PROVE  (a \o b) \o c = a \o (b \o c)
  BY ConcatAssociative

\* What one text behind another is.
LEMMA Behind ==
    ASSUME NEW a \in Seq(Char), NEW b \in Seq(Char)
    PROVE  /\ a \o b \in Seq(Char) /\ Len(a \o b) = Len(a) + Len(b)
           /\ Len(a) \in Nat /\ Len(b) \in Nat
           /\ \A i \in 1..Len(a) : (a \o b)[i] = a[i]
           /\ \A i \in 1..Len(b) : (a \o b)[Len(a) + i] = b[i]
  <1>1. /\ a \o b \in Seq(Char) /\ Len(a \o b) = Len(a) + Len(b)
        /\ \A i \in 1..Len(a) + Len(b) : (a \o b)[i] = IF i <= Len(a) THEN a[i] ELSE b[i - Len(a)]
    BY ConcatProperties
  <1>2. Len(a) \in Nat /\ Len(b) \in Nat
    BY LenProperties
  <1>3. \A i \in 1..Len(a) : (a \o b)[i] = a[i]
    BY <1>1, <1>2
  <1>4. ASSUME NEW i \in 1..Len(b) PROVE (a \o b)[Len(a) + i] = b[i]
    <2>1. PICK j : j = Len(a) + i
      OBVIOUS
    <2>2. j \in 1..Len(a) + Len(b) /\ ~(j <= Len(a)) /\ j - Len(a) = i
      BY <1>2, <2>1
    <2>3. QED
      BY <1>1, <2>1, <2>2
  <1>5. QED
    BY <1>1, <1>2, <1>3, <1>4

\* A text begins with another.
LEMMA BeginsWith ==
    ASSUME NEW s \in Seq(Char), NEW t \in Seq(Char), Len(s) <= Len(t),
           \A i \in 1..Len(s) : t[i] = s[i]
    PROVE  IsPrefix(s, t)
  <1>1. Len(s) \in Nat /\ Len(t) \in Nat
    BY LenProperties
  <1>2. SubSeq(s, 1, Len(s)) = s
    BY SubSeqFull
  <1>3. /\ SubSeq(t, 1, Len(s)) \in Seq(Char)
        /\ Len(SubSeq(t, 1, Len(s))) = Len(s)
        /\ \A i \in 1..Len(s) : SubSeq(t, 1, Len(s))[i] = t[i]
    BY <1>1
  <1>4. SubSeq(t, 1, Len(s)) = s
    BY <1>3, SeqEqual
  <1>5. QED
    BY <1>2, <1>4 DEF IsPrefix

\* A text ends with another.
LEMMA EndsWith ==
    ASSUME NEW s \in Seq(Char), NEW t \in Seq(Char)
    PROVE  IsSuffix(s, t) <=> /\ Len(s) <= Len(t)
                              /\ \A i \in 1..Len(s) : t[(Len(t) - Len(s)) + i] = s[i]
  <1>1. Len(s) \in Nat /\ Len(t) \in Nat
    BY LenProperties
  <1>2. PICK p : p = Reverse(s)
    OBVIOUS
  <1>3. PICK q : q = Reverse(t)
    OBVIOUS
  <1>4. p \in Seq(Char) /\ Len(p) = Len(s) /\ \A j \in 1..Len(s) : p[j] = s[(Len(s) - j) + 1]
    <2>1. p = [j \in 1..Len(s) |-> s[(Len(s) - j) + 1]]
      BY <1>2 DEF Reverse
    <2>2. \A j \in 1..Len(s) : s[(Len(s) - j) + 1] \in Char
      BY <1>1
    <2>3. QED
      BY <1>1, <2>1, <2>2
  <1>5. q \in Seq(Char) /\ Len(q) = Len(t) /\ \A j \in 1..Len(t) : q[j] = t[(Len(t) - j) + 1]
    <2>1. q = [j \in 1..Len(t) |-> t[(Len(t) - j) + 1]]
      BY <1>3 DEF Reverse
    <2>2. \A j \in 1..Len(t) : t[(Len(t) - j) + 1] \in Char
      BY <1>1
    <2>3. QED
      BY <1>1, <2>1, <2>2
  <1>6. SubSeq(p, 1, Len(s)) = p
    BY <1>4, SubSeqFull
  <1>7. Len(s) <= Len(t) => /\ SubSeq(q, 1, Len(s)) \in Seq(Char)
                            /\ Len(SubSeq(q, 1, Len(s))) = Len(s)
                            /\ \A i \in 1..Len(s) : SubSeq(q, 1, Len(s))[i] = q[i]
    BY <1>1, <1>5
  <1>8. Len(s) <= Len(t) => (p = SubSeq(q, 1, Len(s)) <=> \A j \in 1..Len(s) : p[j] = q[j])
    BY <1>4, <1>7, SeqEqual
  <1>9. ASSUME Len(s) <= Len(t)
        PROVE  (\A j \in 1..Len(s) : p[j] = q[j])
                  <=> \A i \in 1..Len(s) : t[(Len(t) - Len(s)) + i] = s[i]
    <2>1. \A j \in 1..Len(s) : /\ (Len(s) - j) + 1 \in 1..Len(s)
                               /\ (Len(t) - j) + 1 = (Len(t) - Len(s)) + ((Len(s) - j) + 1)
                               /\ j \in 1..Len(t)
                               /\ (Len(s) - ((Len(s) - j) + 1)) + 1 = j
      BY <1>1, <1>9
    <2>2. \A j \in 1..Len(s) : /\ p[j] = s[(Len(s) - j) + 1]
                               /\ q[j] = t[(Len(t) - Len(s)) + ((Len(s) - j) + 1)]
      BY <1>4, <1>5, <2>1
    <2>3. ASSUME \A j \in 1..Len(s) : p[j] = q[j], NEW i \in 1..Len(s)
          PROVE  t[(Len(t) - Len(s)) + i] = s[i]
      <3>1. PICK j : j = (Len(s) - i) + 1
        OBVIOUS
      <3>2. j \in 1..Len(s) /\ (Len(s) - j) + 1 = i
        BY <2>1, <3>1
      <3>3. QED
        BY <2>2, <2>3, <3>2
    <2>4. ASSUME \A i \in 1..Len(s) : t[(Len(t) - Len(s)) + i] = s[i], NEW j \in 1..Len(s)
          PROVE  p[j] = q[j]
      BY <2>1, <2>2, <2>4
    <2>5. QED
      BY <2>3, <2>4
  <1>10. IsSuffix(s, t) <=> Len(s) <= Len(t) /\ p = SubSeq(q, 1, Len(s))
    BY <1>2, <1>3, <1>4, <1>5, <1>6 DEF IsSuffix, IsPrefix
  <1>11. QED
    BY <1>8, <1>9, <1>10

\* The two parts of a text.
LEMMA Parts ==
    ASSUME NEW a \in Seq(Char), NEW b \in Seq(Char)
    PROVE  /\ IsPrefix(a, a \o b) /\ IsSuffix(b, a \o b)
           /\ SubSeq(a \o b, Len(a) + 1, Len(a \o b)) = b
           /\ IsPrefix(a, a)
  <1>1. /\ a \o b \in Seq(Char) /\ Len(a \o b) = Len(a) + Len(b)
        /\ Len(a) \in Nat /\ Len(b) \in Nat
        /\ \A i \in 1..Len(a) : (a \o b)[i] = a[i]
        /\ \A i \in 1..Len(b) : (a \o b)[Len(a) + i] = b[i]
    BY Behind
  <1>2. PICK c \in Seq(Char) : c = a \o b
    BY <1>1
  <1>3. Len(a) <= Len(c) /\ Len(b) <= Len(c) /\ (Len(c) - Len(b)) = Len(a)
    BY <1>1, <1>2
  <1>4. IsPrefix(a, c) /\ IsPrefix(a, a)
    <2>1. IsPrefix(a, c)
      <3>1. \A i \in 1..Len(a) : c[i] = a[i]
        BY <1>1, <1>2
      <3>2. QED
        BY <1>3, <3>1, BeginsWith
    <2>2. IsPrefix(a, a)
      BY <1>1, BeginsWith
    <2>3. QED
      BY <2>1, <2>2
  <1>5. IsSuffix(b, c)
    BY <1>1, <1>2, <1>3, EndsWith
  <1>6. SubSeq(c, Len(a) + 1, Len(c)) = b
    <2>1. \A i \in (Len(a) + 1)..Len(c) : c[i] \in Char
      BY <1>1, <1>2, ElementOfSeq
    <2>2. Len(a) + 1 \in Int /\ Len(c) \in Int
      BY <1>1, <1>2
    <2>3. PICK d : d = SubSeq(c, Len(a) + 1, Len(c))
      OBVIOUS
    <2>4. /\ d \in Seq(Char)
          /\ Len(d) = IF Len(a) + 1 <= Len(c) THEN Len(c) - (Len(a) + 1) + 1 ELSE 0
          /\ \A i \in 1..Len(c) - (Len(a) + 1) + 1 : d[i] = c[(Len(a) + 1) + i - 1]
      BY <2>1, <2>2, <2>3, SubSeqProperties
    <2>5. Len(d) = Len(b) /\ Len(c) - (Len(a) + 1) + 1 = Len(b)
      BY <1>1, <1>2, <2>4
    <2>6. \A i \in 1..Len(b) : (Len(a) + 1) + i - 1 = Len(a) + i
      BY <1>1
    <2>7. \A i \in 1..Len(d) : d[i] = b[i]
      BY <1>1, <1>2, <2>4, <2>5, <2>6
    <2>8. QED
      BY <2>3, <2>4, <2>5, <2>7, SeqEqual
  <1>7. QED
    BY <1>2, <1>4, <1>5, <1>6

\* A path that is taken as it is, or completed with the name of the file.
LEMMA Completes ==
    ASSUME NEW w \in Seq(Char), NEW v \in Seq(Char),
           \/ v = w /\ IsSuffix(NAME, w)
           \/ v = w \o NAME
           \/ v = w \o (<<SEP>> \o NAME)
    PROVE  IsPrefix(w, v) /\ IsSuffix(NAME, v) /\ Len(v) <= Len(w) + Len(NAME) + 1
  <1>1. NAME \in Seq(Char) /\ <<SEP>> \in Seq(Char) /\ Len(<<SEP>>) = 1
    BY NameAssumption
  <1>2. Len(w) \in Nat /\ Len(NAME) \in Nat
    BY <1>1, LenProperties
  <1>3. CASE v = w /\ IsSuffix(NAME, w)
    BY <1>1, <1>2, <1>3, Parts
  <1>4. CASE v = w \o NAME
    <2>1. Len(v) = Len(w) + Len(NAME)
      BY <1>1, <1>4, Behind
    <2>2. QED
      BY <1>1, <1>2, <1>4, <2>1, Parts
  <1>5. CASE v = w \o (<<SEP>> \o NAME)
    <2>1. <<SEP>> \o NAME \in Seq(Char) /\ Len(<<SEP>> \o NAME) = 1 + Len(NAME)
      BY <1>1, Behind
    <2>2. IsPrefix(w, v) /\ Len(v) = Len(w) + (1 + Len(NAME))
      <3>1. PICK t \in Seq(Char) : t = <<SEP>> \o NAME
        BY <2>1
      <3>2. v = w \o t /\ Len(t) = 1 + Len(NAME)
        BY <1>5, <2>1, <3>1
      <3>3. IsPrefix(w, w \o t) /\ Len(w \o t) = Len(w) + Len(t)
        BY Behind, Parts
      <3>4. QED
        BY <3>2, <3>3
    <2>3. w \o <<SEP>> \in Seq(Char)
      BY <1>1, Behind
    <2>4. v = (w \o <<SEP>>) \o NAME
      BY <1>1, <1>5, TextsAssociate, SMTT(30)
    <2>5. IsSuffix(NAME, v)
      BY <1>1, <2>3, <2>4, Parts
    <2>6. QED
      BY <1>2, <2>2, <2>5
  <1>6. QED
    BY <1>3, <1>4, <1>5

-----------------------------------------------------------------------------
(* Directories *)

\* Where the last character of a kind is.
LEMMA LastSeparator ==
    ASSUME NEW s \in Seq(Char)
    PROVE  /\ SelectLastInSeq(s, IsSep) \in 0..Len(s)
           /\ SelectLastInSeq(s, IsSep) = 0 <=> SEP \notin ToSet(s)
           /\ SelectLastInSeq(s, IsSeparator) \in 0..Len(s)
  <1>1. Len(s) \in Nat
    BY LenProperties
  <1>2. ASSUME NEW I \in SUBSET (1..Len(s))
        PROVE  I # {} => Max(I) \in I
    <2>1. SUFFICES ASSUME I # {} PROVE Max(I) \in I
      OBVIOUS
    <2>2. I \in SUBSET (0..Len(s))
      BY <1>1
    <2>3. \E x \in I : \A y \in I : y <= x
      BY <1>1, <2>1, <2>2, NatGreatest
    <2>4. \E x \in I : \A y \in I : x >= y
      BY <1>1, <2>3
    <2>5. QED
      BY <2>4 DEF Max
  <1>3. PICK I \in SUBSET (1..Len(s)) : I = {i \in 1..Len(s) : s[i] = SEP}
    OBVIOUS
  <1>4. PICK J \in SUBSET (1..Len(s)) : J = {i \in 1..Len(s) : s[i] \in {"/", "\\"}}
    OBVIOUS
  <1>5. SelectLastInSeq(s, IsSep) = IF I # {} THEN Max(I) ELSE 0
    BY <1>3 DEF SelectLastInSeq, IsSep
  <1>6. SelectLastInSeq(s, IsSeparator) = IF J # {} THEN Max(J) ELSE 0
    BY <1>4 DEF SelectLastInSeq, IsSeparator
  <1>7. I = {} <=> SEP \notin ToSet(s)
    BY <1>3 DEF ToSet
  <1>8. (I # {} => Max(I) \in 1..Len(s)) /\ (J # {} => Max(J) \in 1..Len(s))
    BY <1>2
  <1>9. 0 \in 0..Len(s) /\ \A i \in 1..Len(s) : i \in 0..Len(s) /\ i # 0
    BY <1>1
  <1>10. /\ SelectLastInSeq(s, IsSep) \in 0..Len(s)
         /\ SelectLastInSeq(s, IsSep) = 0 <=> I = {}
    <2>1. CASE I = {}
      BY <1>5, <1>9, <2>1, Zenon
    <2>2. CASE I # {}
      BY <1>5, <1>8, <1>9, <2>2, Zenon
    <2>3. QED
      BY <2>1, <2>2
  <1>11. SelectLastInSeq(s, IsSeparator) \in 0..Len(s)
    <2>1. CASE J = {}
      BY <1>6, <1>9, <2>1, Zenon
    <2>2. CASE J # {}
      BY <1>6, <1>8, <1>9, <2>2, Zenon
    <2>3. QED
      BY <2>1, <2>2
  <1>12. QED
    BY <1>7, <1>10, <1>11

\* The first bytes of a text are a text.
LEMMA FirstBytes ==
    ASSUME NEW s \in Seq(Char), NEW n \in 0..Len(s)
    PROVE  SubSeq(s, 1, n) \in Seq(Char) /\ Len(SubSeq(s, 1, n)) = n
  <1>1. Len(s) \in Nat
    BY LenProperties
  <1>2. QED
    BY <1>1

\* get_proc_abspath gives the directory of the program.
LEMMA ProgramDirectory ==
    ASSUME exe \in Seq(Char)
    PROVE  Dir \in Seq(Char) /\ Holds(get_proc_abspath, Dir)
  <1>1. PICK n \in 0..Len(exe) : n = SelectLastInSeq(exe, IsSeparator)
    BY LastSeparator
  <1>2. PICK b : b = cstrbufNew(0, exe)
    OBVIOUS
  <1>3. Holds(b, exe) /\ Len(exe) \in Nat
    BY <1>2, NewHolds, LenProperties
  <1>4. PICK d : d = Dir
    OBVIOUS
  <1>5. d = IF n = 0 THEN exe ELSE SubSeq(exe, 1, n - 1)
    BY <1>1, <1>4 DEF Dir, DirOf
  <1>6. get_proc_abspath = [b EXCEPT !.len = Len(d),
                                     !.str = IF d = exe THEN b.str ELSE Write(b.str, Len(d), <<NUL>>)]
    BY <1>2, <1>4 DEF get_proc_abspath, Dir
  <1>7. CASE n = 0
    <2>1. d = exe
      BY <1>5, <1>7
    <2>2. get_proc_abspath = [b EXCEPT !.len = Len(exe), !.str = b.str]
      BY <1>6, <2>1
    <2>3. get_proc_abspath = [maxsz |-> b.maxsz, len |-> Len(exe), str |-> b.str]
      BY <1>3, <2>2, Update DEF Holds
    <2>4. PICK r : r = get_proc_abspath
      OBVIOUS
    <2>5. r \in Buffer /\ r.maxsz = b.maxsz /\ r.len = Len(exe) /\ r.str = b.str
      BY <1>3, <2>3, <2>4 DEF Holds, Buffer
    <2>6. Holds(r, exe)
      BY <1>3, <2>5 DEF Holds
    <2>7. QED
      BY <1>4, <2>1, <2>4, <2>6
  <1>8. CASE n # 0
    <2>1. PICK m \in Nat : m = n - 1
      BY <1>3, <1>8
    <2>2. d = SubSeq(exe, 1, m) /\ m \in 0..Len(exe) /\ m < Len(exe)
      BY <1>3, <1>5, <1>8, <2>1
    <2>3. d \in Seq(Char) /\ Len(d) = m /\ d # exe
      BY <2>2, FirstBytes
    <2>4. PICK r : r = cstrbufTrunc(b, m)
      OBVIOUS
    <2>5. Holds(r, SubSeq(exe, 1, m))
      BY <1>3, <2>2, <2>4, TruncHolds
    <2>6. b.len > m
      BY <1>3, <2>2 DEF Holds
    <2>7. r = [b EXCEPT !.len = m, !.str = Write(b.str, m, <<NUL>>)]
      BY <2>4, <2>6 DEF cstrbufTrunc
    <2>8. r = get_proc_abspath
      BY <1>6, <2>3, <2>7
    <2>9. QED
      BY <1>4, <2>2, <2>3, <2>5, <2>8
  <1>9. QED
    BY <1>7, <1>8

\* The candidates in terms of what is written: a directory and the name with its
\* separator in front.
LEMMA Candidates ==
    ASSUME exe \in Seq(Char)
    PROVE  /\ Len(Places) = IF SEP \in ToSet(Dir) THEN 3 ELSE 2
           /\ \A i \in 1..Len(Places) : Places[i] \in Seq(Char) /\ IsSuffix(NAME, Places[i])
           /\ Places[1] = Dir \o (<<SEP>> \o NAME)
           /\ Places[2] = (Dir \o <<SEP, "conf">>) \o (<<SEP>> \o NAME)
           /\ SEP \in ToSet(Dir) =>
                 /\ Above(Dir) \in Seq(Char)
                 /\ Places[3] = Above(Dir) \o (<<SEP, "conf">> \o (<<SEP>> \o NAME))
  <1>1. /\ NAME \in Seq(Char) /\ <<SEP>> \in Seq(Char)
        /\ <<SEP, "conf">> \in Seq(Char) /\ <<SEP, "conf", SEP>> \in Seq(Char)
    BY NameAssumption
  <1>2. <<SEP, "conf">> \o <<SEP>> = <<SEP, "conf", SEP>>
    <2>1. PICK a \in Seq(Char) : a = <<SEP, "conf">>
      BY <1>1
    <2>2. PICK b \in Seq(Char) : b = <<SEP>>
      BY <1>1
    <2>3. PICK c \in Seq(Char) : c = <<SEP, "conf", SEP>>
      BY <1>1
    <2>4. Len(a) = 2 /\ a[1] = SEP /\ a[2] = "conf" /\ Len(b) = 1 /\ b[1] = SEP
      BY <2>1, <2>2
    <2>5. Len(c) = 3 /\ c[1] = SEP /\ c[2] = "conf" /\ c[3] = SEP
      BY <2>3
    <2>6. PICK e : e = a \o b
      OBVIOUS
    <2>7. /\ e \in Seq(Char) /\ Len(e) = Len(a) + Len(b)
          /\ \A i \in 1..Len(a) : e[i] = a[i]
          /\ \A i \in 1..Len(b) : e[Len(a) + i] = b[i]
      BY <2>6, Behind
    <2>8. Len(e) = 3 /\ e[1] = SEP /\ e[2] = "conf" /\ e[3] = SEP
      <3>1. 1 \in 1..2 /\ 2 \in 1..2 /\ 1 \in 1..1 /\ 2 + 1 = 3
        OBVIOUS
      <3>2. e[1] = a[1] /\ e[2] = a[2]
        BY <2>4, <2>7, <3>1
      <3>3. e[2 + 1] = b[1]
        BY <2>4, <2>7, <3>1
      <3>4. QED
        BY <2>4, <2>7, <3>1, <3>2, <3>3
    <2>9. \A i \in 1..3 : e[i] = c[i]
      <3>1. \A i \in 1..3 : i = 1 \/ i = 2 \/ i = 3
        OBVIOUS
      <3>2. QED
        BY <2>5, <2>8, <3>1, Zenon
    <2>10. e = c
      BY <2>5, <2>7, <2>8, <2>9, SeqEqual
    <2>11. QED
      BY <2>1, <2>2, <2>3, <2>6, <2>10, Zenon
  <1>3. ASSUME NEW d \in Seq(Char)
        PROVE  /\ (d \o <<SEP>>) \o NAME = d \o (<<SEP>> \o NAME)
               /\ (d \o <<SEP, "conf", SEP>>) \o NAME = (d \o <<SEP, "conf">>) \o (<<SEP>> \o NAME)
               /\ (d \o <<SEP, "conf">>) \o (<<SEP>> \o NAME) =
                      d \o (<<SEP, "conf">> \o (<<SEP>> \o NAME))
               /\ (d \o <<SEP>>) \o NAME \in Seq(Char)
               /\ (d \o <<SEP, "conf", SEP>>) \o NAME \in Seq(Char)
               /\ IsSuffix(NAME, (d \o <<SEP>>) \o NAME)
               /\ IsSuffix(NAME, (d \o <<SEP, "conf", SEP>>) \o NAME)
    <2>1. /\ d \o <<SEP>> \in Seq(Char) /\ d \o <<SEP, "conf", SEP>> \in Seq(Char)
          /\ d \o <<SEP, "conf">> \in Seq(Char) /\ <<SEP>> \o NAME \in Seq(Char)
      BY <1>1, Behind
    <2>2. (d \o <<SEP>>) \o NAME = d \o (<<SEP>> \o NAME)
      BY <1>1, TextsAssociate, SMTT(30)
    <2>3. d \o <<SEP, "conf", SEP>> = (d \o <<SEP, "conf">>) \o <<SEP>>
      <3>1. (d \o <<SEP, "conf">>) \o <<SEP>> = d \o (<<SEP, "conf">> \o <<SEP>>)
        BY <1>1, TextsAssociate, SMTT(30)
      <3>2. QED
        BY <1>2, <3>1, Zenon
    <2>4. ((d \o <<SEP, "conf">>) \o <<SEP>>) \o NAME = (d \o <<SEP, "conf">>) \o (<<SEP>> \o NAME)
      BY <1>1, <2>1, TextsAssociate, SMTT(30)
    <2>5. (d \o <<SEP, "conf">>) \o (<<SEP>> \o NAME) = d \o (<<SEP, "conf">> \o (<<SEP>> \o NAME))
      BY <1>1, <2>1, TextsAssociate, SMTT(30)
    <2>6. /\ (d \o <<SEP>>) \o NAME \in Seq(Char)
          /\ (d \o <<SEP, "conf", SEP>>) \o NAME \in Seq(Char)
      BY <1>1, <2>1, Behind
    <2>7. /\ IsSuffix(NAME, (d \o <<SEP>>) \o NAME)
          /\ IsSuffix(NAME, (d \o <<SEP, "conf", SEP>>) \o NAME)
      BY <1>1, <2>1, Parts
    <2>8. QED
      BY <2>2, <2>3, <2>4, <2>5, <2>6, <2>7, Zenon
  <1>4. PICK d \in Seq(Char) : d = Dir
    BY ProgramDirectory
  <1>5. PICK x \in Seq(Char) : x = (d \o <<SEP>>) \o NAME
    BY <1>3
  <1>6. PICK y \in Seq(Char) : y = (d \o <<SEP, "conf", SEP>>) \o NAME
    BY <1>3
  <1>7. /\ x = d \o (<<SEP>> \o NAME) /\ IsSuffix(NAME, x)
        /\ y = (d \o <<SEP, "conf">>) \o (<<SEP>> \o NAME) /\ IsSuffix(NAME, y)
    BY <1>3, <1>5, <1>6, Zenon
  <1>8. CASE SEP \notin ToSet(Dir)
    <2>1. Places = <<x, y>> \o <<>>
      BY <1>4, <1>5, <1>6, <1>8 DEF Places
    <2>2. Len(Places) = 2 /\ Places[1] = x /\ Places[2] = y
      BY <2>1
    <2>3. \A i \in 1..2 : Places[i] \in Seq(Char) /\ IsSuffix(NAME, Places[i])
      <3>1. \A i \in 1..2 : i = 1 \/ i = 2
        OBVIOUS
      <3>2. QED
        BY <1>7, <2>2, <3>1, Zenon
    <2>4. QED
      BY <1>4, <1>7, <1>8, <2>2, <2>3, Zenon
  <1>9. CASE SEP \in ToSet(Dir)
    <2>1. PICK u : u = Above(d)
      OBVIOUS
    <2>2. u \in Seq(Char)
      <3>1. PICK m \in 0..Len(d) : m = SelectLastInSeq(d, IsSep) /\ m # 0
        BY <1>4, <1>9, LastSeparator
      <3>2. Len(d) \in Nat /\ m - 1 \in 0..Len(d)
        BY <3>1, LenProperties
      <3>3. QED
        BY <2>1, <3>1, <3>2, FirstBytes DEF Above
    <2>3. PICK z \in Seq(Char) : z = (u \o <<SEP, "conf", SEP>>) \o NAME
      BY <1>3, <2>2
    <2>4. z = u \o (<<SEP, "conf">> \o (<<SEP>> \o NAME)) /\ IsSuffix(NAME, z)
      BY <1>3, <2>2, <2>3, Zenon
    <2>5. Places = <<x, y>> \o <<z>>
      BY <1>4, <1>5, <1>6, <1>9, <2>1, <2>3 DEF Places
    <2>6. Len(Places) = 3 /\ Places[1] = x /\ Places[2] = y /\ Places[3] = z
      BY <2>5
    <2>7. \A i \in 1..3 : Places[i] \in Seq(Char) /\ IsSuffix(NAME, Places[i])
      <3>1. \A i \in 1..3 : i = 1 \/ i = 2 \/ i = 3
        OBVIOUS
      <3>2. QED
        BY <1>7, <2>4, <2>6, <3>1, Zenon
    <2>8. QED
      BY <1>4, <1>7, <1>9, <2>1, <2>2, <2>4, <2>6, <2>7, Zenon
  <1>10. QED
    BY <1>8, <1>9

\* Which place is the first one with the file.
LEMMA FirstOfPlaces ==
    ASSUME NEW l \in Nat, l = Len(Places)
    PROVE  /\ NotAt(l) => FirstPlace = 0
           /\ \A n \in 1..l : NotAt(n - 1) /\ IsFile(Places[n]) => FirstPlace = n
           /\ FirstPlace \in 0..l
           /\ FirstPlace > 0 => IsFile(Places[FirstPlace])
  <1>1. PICK I \in SUBSET (1..l) : I = {i \in 1..l : Places[i] \in files}
    OBVIOUS
  <1>2. FirstPlace = IF I # {} THEN Min(I) ELSE 0
    BY <1>1 DEF FirstPlace, SelectInSeq, IsFile
  <1>3. NotAt(l) => I = {}
    BY <1>1 DEF NotAt, IsFile
  <1>4. ASSUME NEW n \in 1..l, NotAt(n - 1), IsFile(Places[n]) PROVE Min(I) = n /\ I # {}
    <2>1. n \in I
      BY <1>1, <1>4 DEF IsFile
    <2>2. \A i \in I : n <= i
      <3>1. \A i \in 1..l : ~(n <= i) => i \in 1..(n - 1)
        OBVIOUS
      <3>2. \A i \in I : i \notin 1..(n - 1)
        BY <1>1, <1>4 DEF NotAt, IsFile
      <3>3. QED
        BY <3>1, <3>2
    <2>3. \A x \in I : (\A y \in I : x <= y) => x = n
      BY <2>1, <2>2
    <2>4. QED
      BY <2>1, <2>2, <2>3 DEF Min
  <1>5. I # {} => Min(I) \in I
    <2>1. SUFFICES ASSUME I # {} PROVE Min(I) \in I
      OBVIOUS
    <2>2. I \in SUBSET Nat
      OBVIOUS
    <2>3. \E x \in I : \A y \in I : x <= y
      BY <2>1, <2>2, NatLeast
    <2>4. QED
      BY <2>3 DEF Min
  <1>6. FirstPlace \in 0..l /\ (FirstPlace > 0 => IsFile(Places[FirstPlace]))
    BY <1>1, <1>2, <1>5 DEF IsFile
  <1>7. QED
    BY <1>2, <1>3, <1>4, <1>6

-----------------------------------------------------------------------------
(* Paths that are handed in *)

\* A path that ends with the name and a separator in front ends with the name.
LEMMA NameEnds ==
    ASSUME NEW s \in Seq(Char), EndsWithName(s),
           Holds(tname, <<"/">> \o NAME), Holds(pname, <<SEP>> \o NAME)
    PROVE  IsSuffix(NAME, s)
  <1>1. NAME \in Seq(Char) /\ <<"/">> \in Seq(Char) /\ <<SEP>> \in Seq(Char)
        /\ Len(<<"/">>) = 1 /\ Len(<<SEP>>) = 1 /\ Len(NAME) \in Nat /\ Len(s) \in Nat
    BY NameAssumption, LenProperties
  <1>2. Value(tname) = <<"/">> \o NAME /\ Value(pname) = <<SEP>> \o NAME
    BY HoldsValue
  <1>3. ASSUME NEW c \in Seq(Char), Len(c) = 1, IsSuffix(c \o NAME, s)
        PROVE  IsSuffix(NAME, s)
    <2>1. PICK t : t = c \o NAME
      OBVIOUS
    <2>2. /\ t \in Seq(Char) /\ Len(t) = 1 + Len(NAME)
          /\ \A i \in 1..Len(NAME) : t[1 + i] = NAME[i]
      <3>1. /\ t \in Seq(Char) /\ Len(t) = Len(c) + Len(NAME)
            /\ \A i \in 1..Len(NAME) : t[Len(c) + i] = NAME[i]
        BY <1>1, <2>1, Behind
      <3>2. QED
        BY <1>3, <3>1
    <2>3. /\ Len(t) <= Len(s)
          /\ \A i \in 1..Len(t) : s[(Len(s) - Len(t)) + i] = t[i]
      BY <1>3, <2>1, <2>2, EndsWith
    <2>4. \A i \in 1..Len(NAME) : /\ 1 + i \in 1..Len(t)
                                  /\ (Len(s) - Len(t)) + (1 + i) = (Len(s) - Len(NAME)) + i
      BY <1>1, <2>2
    <2>5. \A i \in 1..Len(NAME) : s[(Len(s) - Len(NAME)) + i] = NAME[i]
      BY <2>2, <2>3, <2>4
    <2>6. Len(NAME) <= Len(s)
      BY <1>1, <2>2, <2>3
    <2>7. QED
      BY <1>1, <2>5, <2>6, EndsWith
  <1>4. IsSuffix(<<SEP>> \o NAME, s) \/ IsSuffix(<<"/">> \o NAME, s)
    BY <1>2 DEF EndsWithName
  <1>5. QED
    BY <1>1, <1>3, <1>4

\* What completes a directory.
LEMMA CompletedWith ==
    ASSUME NEW w \in Seq(Char)
    PROVE  \E r \in Seq(Char) :
             /\ Completed(w) = w \o r
             /\ SubSeq(Completed(w), Len(w) + 1, Len(Completed(w))) = r
             /\ r = NAME \/ r = <<SEP>> \o NAME
  <1>1. NAME \in Seq(Char) /\ <<SEP>> \in Seq(Char) /\ <<SEP>> \o NAME \in Seq(Char)
    BY NameAssumption, Behind
  <1>2. (w \o <<SEP>>) \o NAME = w \o (<<SEP>> \o NAME)
    BY <1>1, TextsAssociate, SMTT(30)
  <1>3. Completed(w) = w \o NAME \/ Completed(w) = w \o (<<SEP>> \o NAME)
    BY <1>2, Zenon DEF Completed
  <1>4. PICK r \in Seq(Char) : Completed(w) = w \o r /\ (r = NAME \/ r = <<SEP>> \o NAME)
    BY <1>1, <1>3
  <1>5. SubSeq(w \o r, Len(w) + 1, Len(w \o r)) = r
    BY Parts
  <1>6. QED
    BY <1>4, <1>5

-----------------------------------------------------------------------------
(* Every step keeps the invariant *)

\* How many of three pointers are not null.
LEMMA Pointers ==
    ASSUME NEW t, NEW p, NEW d, NEW n, n = Cardinality({b \in 1..3 : <<t, p, d>>[b] # Null})
    PROVE  /\ t = Null /\ p = Null /\ d = Null => n = 0
           /\ t # Null /\ p # Null /\ d = Null => n = 2
           /\ t # Null /\ p # Null /\ d # Null => n = 3
  <1>1. PICK B \in SUBSET (1..3) : B = {b \in 1..3 : <<t, p, d>>[b] # Null}
    OBVIOUS
  <1>2. /\ <<t, p, d>>[1] = t /\ <<t, p, d>>[2] = p /\ <<t, p, d>>[3] = d
        /\ \A b \in 1..3 : b = 1 \/ b = 2 \/ b = 3
    OBVIOUS
  <1>3. \A k \in Nat : IsFiniteSet(1..k) /\ Cardinality(1..k) = k
    BY FS_Interval
  <1>4. n = Cardinality(B)
    BY <1>1
  <1>5. CASE t = Null /\ p = Null /\ d = Null
    <2>1. B = 1..0
      BY <1>1, <1>2, <1>5
    <2>2. n = 0
      BY <1>3, <1>4, <2>1
    <2>3. QED
      BY <1>5, <2>2, Zenon
  <1>6. CASE t # Null /\ p # Null /\ d = Null
    <2>1. B = 1..2
      BY <1>1, <1>2, <1>6
    <2>2. n = 2
      BY <1>3, <1>4, <2>1
    <2>3. QED
      BY <1>6, <2>2, Zenon
  <1>7. CASE t # Null /\ p # Null /\ d # Null
    <2>1. B = 1..3
      BY <1>1, <1>2, <1>7
    <2>2. n = 3
      BY <1>3, <1>4, <2>1
    <2>3. QED
      BY <1>7, <2>2, Zenon
  <1>8. QED
    BY <1>5, <1>6, <1>7

\* What is derived from the arguments alone stays.
LEMMA ArgsKept ==
    ASSUME UNCHANGED args
    PROVE  /\ cfgpath' = cfgpath /\ env' = env /\ etc' = etc /\ exe' = exe /\ files' = files
           /\ Dir' = Dir /\ Places' = Places /\ FirstPlace' = FirstPlace /\ Wanted' = Wanted
           /\ \A n : NotAt(n)' = NotAt(n)
  <1>1. cfgpath' = cfgpath /\ env' = env /\ etc' = etc /\ exe' = exe /\ files' = files
    BY DEF args
  <1>2. Dir' = Dir
    BY <1>1 DEF Dir
  <1>3. Places' = Places
    BY <1>2 DEF Places
  <1>4. FirstPlace' = FirstPlace
    BY <1>1, <1>3 DEF FirstPlace, SelectInSeq, IsFile
  <1>5. Wanted' = Wanted
    BY <1>1, <1>3, <1>4 DEF Wanted
  <1>6. \A n : NotAt(n)' = NotAt(n)
    BY <1>1, <1>3 DEF NotAt, IsFile
  <1>7. QED
    BY <1>1, <1>2, <1>3, <1>4, <1>5, <1>6

\* A buffer that holds the path that is wanted, or its completion, ends the search.
LEMMA Ends ==
    ASSUME UNCHANGED args, NEW v, Holds(config', v), Terminated(config'),
           NEW w \in Seq(Char), Wanted = w,
           IsPrefix(w, v), IsSuffix(NAME, v), Len(v) <= Len(w) + Len(NAME) + 1,
           FirstPlace > 0 /\ cfgpath = Null => v = w
    PROVE  Stands' /\ config' # Null
  <1>1. Value(config') = v /\ config' # Null
    BY HoldsValue
  <1>2. Wanted' = w /\ FirstPlace' = FirstPlace /\ cfgpath' = cfgpath
    BY ArgsKept
  <1>3. w # Null
    BY NullAssumption
  <1>4. QED
    BY <1>1, <1>2, <1>3 DEF Stands

\* A place where the file is ends the search, when it is at none before.
LEMMA EndsAt ==
    ASSUME UNCHANGED args, exe \in Seq(Char), cfgpath = Null,
           NEW n \in Nat \ {0}, n <= Len(Places), NotAt(n - 1),
           Holds(config', Places[n]), Terminated(config'), IsFile(Places[n])
    PROVE  Stands' /\ config' # Null
  <1>1. PICK l \in Nat : l = Len(Places)
    BY Candidates
  <1>2. n \in 1..l
    BY <1>1
  <1>3. FirstPlace = n
    BY <1>1, <1>2, FirstOfPlaces
  <1>4. Wanted = Places[n]
    BY <1>3 DEF Wanted
  <1>5. PICK v \in Seq(Char) : v = Places[n] /\ IsSuffix(NAME, v)
    BY <1>1, <1>2, Candidates
  <1>6. IsPrefix(v, v)
    BY Parts
  <1>7. Len(v) <= Len(v) + Len(NAME) + 1
    BY NameAssumption, LenProperties
  <1>8. QED
    BY <1>4, <1>5, <1>6, <1>7, Ends

\* With the file at no place there is none.
LEMMA NoPlace ==
    ASSUME exe \in Seq(Char), NotAt(3)
    PROVE  FirstPlace = 0
  <1>1. PICK l : l = Len(Places)
    OBVIOUS
  <1>2. l = 2 \/ l = 3
    BY <1>1, Candidates
  <1>3. l \in Nat /\ l <= 3
    BY <1>2
  <1>4. NotAt(l)
    BY <1>1, <1>3 DEF NotAt
  <1>5. QED
    BY <1>1, <1>3, <1>4, FirstOfPlaces

\* A step that leaves the arguments, the names and the directory alone.
LEMMA NamesKept ==
    ASSUME CfgInv, UNCHANGED <<args, dname, tname, pname>>, pc' # "start", pc' # "done",
           pc' \notin {"finish_up"} => pc' \in {"probe2", "probe3", "env", "etc"},
           pc \in {"probe1", "probe2", "probe3", "env", "etc"}
    PROVE  /\ ArgsOK' /\ NamesHeld'
           /\ Held' = 3 /\ Held = 3
  <1>1. /\ cfgpath' = cfgpath /\ env' = env /\ etc' = etc /\ exe' = exe /\ Dir' = Dir
        /\ dname' = dname /\ tname' = tname /\ pname' = pname
    BY ArgsKept
  <1>2. ArgsOK'
    BY <1>1 DEF CfgInv, ArgsOK
  <1>3. /\ Holds(tname, <<"/">> \o NAME) /\ Holds(pname, <<SEP>> \o NAME)
        /\ Holds(dname, Dir) /\ cfgpath = Null
    BY DEF CfgInv, NamesHeld
  <1>4. NamesHeld'
    BY <1>1, <1>3 DEF NamesHeld
  <1>5. tname # Null /\ pname # Null /\ dname # Null
    BY <1>3, HoldsValue
  <1>6. Held' = Held
    BY <1>1 DEF Held
  <1>7. Held = 3
    BY <1>5, Pointers DEF Held
  <1>8. QED
    BY <1>2, <1>4, <1>6, <1>7

LEMMA BeginStep ==
    ASSUME CfgInv, Begin
    PROVE  CfgInv'
  <1>1. /\ pc = "start" /\ UNCHANGED <<args, config>>
        /\ tname' = cstrbufCat(Null, <<"/">> \o NAME) /\ pname' = cstrbufCat(Null, <<SEP>> \o NAME)
    BY DEF Begin
  <1>2. <<"/">> \o NAME \in Seq(Char) /\ <<SEP>> \o NAME \in Seq(Char)
    BY NameAssumption, Behind
  <1>3. Holds(tname', <<"/">> \o NAME) /\ Holds(pname', <<SEP>> \o NAME)
    BY <1>1, <1>2, CatNullHolds
  <1>4. tname' # Null /\ pname' # Null
    BY <1>3, HoldsValue
  <1>5. /\ cfgpath' = cfgpath /\ env' = env /\ etc' = etc /\ exe' = exe /\ Dir' = Dir
        /\ config' = config
    BY <1>1, ArgsKept
  <1>6. config = Null /\ dname = Null
    BY <1>1 DEF CfgInv, Searched, NamesHeld
  <1>7. exe \in Seq(Char)
    BY PathAssumption DEF CfgInv, ArgsOK
  <1>8. CASE cfgpath # Null
    <2>1. pc' = "given" /\ live' = 2 /\ dname' = Null
      BY <1>6, <1>8 DEF Begin, Goto
    <2>2. ArgsOK'
      BY <1>5, <2>1 DEF CfgInv, ArgsOK
    <2>3. NamesHeld'
      BY <1>3, <1>5, <1>8, <2>1 DEF NamesHeld
    <2>4. Counted'
      <3>1. Held' = 2
        BY <1>4, <2>1, Pointers DEF Held
      <3>2. QED
        BY <1>5, <1>6, <2>1, <3>1 DEF Counted
    <2>5. Searched'
      BY <1>5, <1>6, <2>1 DEF Searched
    <2>6. QED
      BY <2>2, <2>3, <2>4, <2>5 DEF CfgInv
  <1>9. CASE cfgpath = Null
    <2>1. pc' = "probe1" /\ live' = 3 /\ dname' = get_proc_abspath
      BY <1>9 DEF Begin, Goto
    <2>2. Holds(dname', Dir)
      BY <1>7, <2>1, ProgramDirectory
    <2>3. ArgsOK'
      BY <1>5, <2>1 DEF CfgInv, ArgsOK
    <2>4. NamesHeld'
      BY <1>3, <1>5, <1>9, <2>1, <2>2 DEF NamesHeld
    <2>5. Counted'
      <3>1. Held' = 3
        BY <1>4, <2>2, HoldsValue, Pointers DEF Held
      <3>2. QED
        BY <1>5, <1>6, <2>1, <3>1 DEF Counted
    <2>6. Searched'
      BY <1>5, <1>6, <2>1 DEF Searched
    <2>7. QED
      BY <2>3, <2>4, <2>5, <2>6 DEF CfgInv
  <1>10. QED
    BY <1>8, <1>9

\* The caller's path, as it is or completed.
LEMMA GivenStep ==
    ASSUME CfgInv, Given
    PROVE  CfgInv'
  <1>1. /\ pc = "given" /\ UNCHANGED <<args, dname, tname, pname>> /\ pc' = "finish_up"
        /\ live' = live + 1
        /\ config' = IF EndsWithName(cfgpath) THEN cstrbufNew(0, cfgpath)
                                              ELSE cstrbufCat(Null, Completed(cfgpath))
    BY DEF Given, Goto
  <1>2. /\ cfgpath' = cfgpath /\ env' = env /\ etc' = etc /\ exe' = exe /\ Dir' = Dir
        /\ dname' = dname /\ tname' = tname /\ pname' = pname
    BY <1>1, ArgsKept
  <1>3. /\ cfgpath # Null /\ config = Null
        /\ Holds(tname, <<"/">> \o NAME) /\ Holds(pname, <<SEP>> \o NAME)
    BY <1>1 DEF CfgInv, NamesHeld, Searched
  <1>4. PICK w \in Seq(Char) : w = cfgpath
    BY <1>3, PathAssumption DEF CfgInv, ArgsOK
  <1>5. PICK v \in Seq(Char) :
          /\ Holds(config', v) /\ Terminated(config')
          /\ IsPrefix(w, v) /\ IsSuffix(NAME, v) /\ Len(v) <= Len(w) + Len(NAME) + 1
    <2>1. CASE EndsWithName(w)
      <3>1. config' = cstrbufNew(0, w)
        BY <1>1, <1>4, <2>1
      <3>2. Holds(config', w) /\ Terminated(config')
        BY <3>1, NewHolds
      <3>3. IsSuffix(NAME, w)
        BY <1>3, <2>1, NameEnds
      <3>4. QED
        BY <3>2, <3>3, Completes
    <2>2. CASE ~EndsWithName(w)
      <3>1. config' = cstrbufCat(Null, Completed(w))
        BY <1>1, <1>4, <2>2
      <3>2. PICK r \in Seq(Char) : Completed(w) = w \o r /\ (r = NAME \/ r = <<SEP>> \o NAME)
        BY CompletedWith
      <3>3. PICK v \in Seq(Char) : v = w \o r
        BY Behind
      <3>4. Holds(config', v) /\ Terminated(config')
        BY <3>1, <3>2, <3>3, CatNullHolds
      <3>5. QED
        BY <3>2, <3>3, <3>4, Completes
    <2>3. QED
      BY <2>1, <2>2
  <1>6. Wanted = w
    BY <1>3, <1>4 DEF Wanted
  <1>7. Stands' /\ config' # Null
    BY <1>1, <1>3, <1>5, <1>6, Ends
  <1>8. ArgsOK'
    BY <1>1, <1>2 DEF CfgInv, ArgsOK
  <1>9. NamesHeld'
    BY <1>1 DEF NamesHeld
  <1>10. Counted'
    <2>1. Held' = Held
      BY <1>2 DEF Held
    <2>2. live = Held
      <3>1. Held \in Nat
        <4>1. dname = Null \/ dname # Null
          OBVIOUS
        <4>2. tname # Null /\ pname # Null
          BY <1>3, HoldsValue
        <4>3. Held = 2 \/ Held = 3
          BY <4>1, <4>2, Pointers DEF Held
        <4>4. QED
          BY <4>3
      <3>2. QED
        BY <1>3, <3>1 DEF CfgInv, Counted
    <2>3. QED
      BY <1>1, <1>7, <2>1, <2>2 DEF Counted
  <1>11. Searched'
    BY <1>1, <1>7 DEF Searched
  <1>12. QED
    BY <1>8, <1>9, <1>10, <1>11 DEF CfgInv

\* A file found at place n ends the search with one block more than the names.
LEMMA Found ==
    ASSUME CfgInv, UNCHANGED <<args, dname, tname, pname>>,
           pc \in {"probe1", "probe2", "probe3"}, pc' = "finish_up",
           NEW n \in Nat \ {0}, n <= Len(Places), NotAt(n - 1),
           Holds(config', Places[n]), Terminated(config'), IsFile(Places[n]), live' = 4
    PROVE  CfgInv'
  <1>1. cfgpath = Null /\ exe \in Seq(Char)
    BY PathAssumption DEF CfgInv, NamesHeld, ArgsOK
  <1>2. ArgsOK' /\ NamesHeld' /\ Held' = 3
    BY NamesKept
  <1>3. UNCHANGED args
    OBVIOUS
  <1>4. Stands' /\ config' # Null
    BY <1>1, <1>3, EndsAt
  <1>5. Counted'
    BY <1>2, <1>4 DEF Counted
  <1>6. Searched'
    BY <1>4 DEF Searched
  <1>7. QED
    BY <1>2, <1>5, <1>6 DEF CfgInv

\* What every step of the search starts from.
LEMMA Searching ==
    ASSUME CfgInv, pc \in {"probe1", "probe2", "probe3", "env", "etc"}
    PROVE  /\ cfgpath = Null /\ exe \in Seq(Char) /\ Held = 3
           /\ Holds(dname, Dir) /\ Dir \in Seq(Char)
           /\ Holds(pname, <<SEP>> \o NAME) /\ <<SEP>> \o NAME \in Seq(Char)
           /\ <<SEP, "conf">> \in Seq(Char) /\ <<SEP>> \in Seq(Char) /\ NAME \in Seq(Char)
           /\ Holds(tname, <<"/">> \o NAME)
           /\ Value(dname) = Dir /\ Value(pname) = <<SEP>> \o NAME
           /\ config = Null => live = 3
           /\ config # Null => live = 4
  <1>1. /\ cfgpath = Null /\ exe \in Seq(Char) /\ Holds(dname, Dir)
        /\ Holds(pname, <<SEP>> \o NAME) /\ Holds(tname, <<"/">> \o NAME)
    BY PathAssumption DEF CfgInv, NamesHeld, ArgsOK
  <1>2. /\ <<SEP, "conf">> \in Seq(Char) /\ <<SEP>> \in Seq(Char) /\ NAME \in Seq(Char)
        /\ <<SEP>> \o NAME \in Seq(Char)
    BY NameAssumption, Behind
  <1>3. Dir \in Seq(Char)
    BY <1>1, ProgramDirectory
  <1>4. Value(dname) = Dir /\ Value(pname) = <<SEP>> \o NAME
        /\ dname # Null /\ tname # Null /\ pname # Null
    BY <1>1, HoldsValue
  <1>5. Held = 3
    BY <1>4, Pointers DEF Held
  <1>6. (config = Null => live = 3) /\ (config # Null => live = 4)
    BY <1>5 DEF CfgInv, Counted
  <1>7. QED
    BY <1>1, <1>2, <1>3, <1>4, <1>5, <1>6, Zenon

\* Beside the program.
LEMMA Probe1Step ==
    ASSUME CfgInv, Probe1
    PROVE  CfgInv'
  <1>1. PICK c : c = cstrbufConcat(dname, pname)
    OBVIOUS
  <1>2. /\ pc = "probe1" /\ UNCHANGED <<args, dname, tname, pname>>
        /\ IF Exists(c) THEN config' = c /\ live' = live + 1 /\ pc' = "finish_up"
           ELSE UNCHANGED <<config, live>> /\ pc' = "probe2"
    BY <1>1 DEF Probe1, Goto
  <1>3. /\ cfgpath = Null /\ exe \in Seq(Char) /\ Held = 3
        /\ Holds(dname, Dir) /\ Holds(pname, <<SEP>> \o NAME)
        /\ config = Null /\ live = 3
    BY <1>2, Searching DEF CfgInv, Searched
  <1>4. Holds(c, Places[1]) /\ Terminated(c) /\ Value(c) = Places[1]
    <2>1. Holds(c, Dir \o (<<SEP>> \o NAME)) /\ Terminated(c)
      BY <1>1, <1>3, ConcatHolds
    <2>2. Dir \o (<<SEP>> \o NAME) = Places[1]
      BY <1>3, Candidates
    <2>3. QED
      BY <2>1, <2>2, HoldsValue
  <1>5. 1 <= Len(Places) /\ NotAt(1 - 1)
    BY <1>3, Candidates DEF NotAt
  <1>6. CASE Exists(c)
    <2>1. live' = 4 /\ config' = c /\ pc' = "finish_up" /\ IsFile(Places[1])
      BY <1>2, <1>3, <1>4, <1>6 DEF Exists
    <2>2. QED
      BY <1>2, <1>4, <1>5, <2>1, Found
  <1>7. CASE ~Exists(c)
    <2>1. /\ config' = Null /\ live' = 3 /\ pc' = "probe2" /\ ~IsFile(Places[1])
      BY <1>2, <1>3, <1>4, <1>7 DEF Exists
    <2>2. ArgsOK' /\ NamesHeld' /\ Held' = 3
      BY <1>2, <2>1, NamesKept
    <2>3. NotAt(1)'
      <3>1. \A i \in 1..1 : i = 1
        OBVIOUS
      <3>2. NotAt(1)
        BY <2>1, <3>1 DEF NotAt
      <3>3. UNCHANGED args
        BY <1>2
      <3>4. QED
        BY <3>2, <3>3, ArgsKept
    <2>4. QED
      BY <2>1, <2>2, <2>3 DEF CfgInv, Counted, Searched
  <1>8. QED
    BY <1>6, <1>7

\* In conf beside the program.
LEMMA Probe2Step ==
    ASSUME CfgInv, Probe2
    PROVE  CfgInv'
  <1>1. /\ pc = "probe2" /\ UNCHANGED <<args, dname, tname, pname>>
        /\ config' = cstrbufCat(Null, (Value(dname) \o <<SEP, "conf">>) \o Value(pname))
        /\ live' = live + 1
        /\ pc' = IF Exists(config') THEN "finish_up" ELSE "probe3"
    BY DEF Probe2, Goto
  <1>2. /\ cfgpath = Null /\ exe \in Seq(Char) /\ Held = 3
        /\ Value(dname) = Dir /\ Value(pname) = <<SEP>> \o NAME
        /\ config = Null /\ live = 3 /\ NotAt(1)
    BY <1>1, Searching DEF CfgInv, Searched
  <1>3. PICK y \in Seq(Char) : y = Places[2] /\ y = (Dir \o <<SEP, "conf">>) \o (<<SEP>> \o NAME)
    <2>1. 2 \in 1..Len(Places)
      BY <1>2, Candidates
    <2>2. Places[2] \in Seq(Char)
      BY <1>2, <2>1, Candidates
    <2>3. Places[2] = (Dir \o <<SEP, "conf">>) \o (<<SEP>> \o NAME)
      BY <1>2, Candidates
    <2>4. QED
      BY <2>2, <2>3, Zenon
  <1>4. Holds(config', y) /\ Terminated(config') /\ Value(config') = y /\ config' # Null
    <2>1. config' = cstrbufCat(Null, y)
      BY <1>1, <1>2, <1>3
    <2>2. QED
      BY <2>1, CatNullHolds, HoldsValue
  <1>5. 2 <= Len(Places) /\ live' = 4
    BY <1>1, <1>2, Candidates
  <1>6. UNCHANGED args /\ files' = files /\ Places' = Places
    BY <1>1, ArgsKept
  <1>7. CASE IsFile(y)
    <2>1. pc' = "finish_up"
      BY <1>1, <1>4, <1>6, <1>7 DEF Exists, IsFile
    <2>2. 2 \in Nat \ {0} /\ NotAt(2 - 1)
      BY <1>2
    <2>3. Holds(config', Places[2]) /\ IsFile(Places[2])
      BY <1>3, <1>4, <1>7
    <2>4. QED
      BY <1>1, <1>4, <1>5, <2>1, <2>2, <2>3, Found
  <1>8. CASE ~IsFile(y)
    <2>1. pc' = "probe3"
      BY <1>1, <1>4, <1>6, <1>8 DEF Exists, IsFile
    <2>2. ArgsOK' /\ NamesHeld' /\ Held' = 3
      BY <1>1, <2>1, NamesKept
    <2>3. NotAt(2)
      <3>1. \A i \in 1..2 : i = 2 \/ i \in 1..1
        OBVIOUS
      <3>2. QED
        BY <1>2, <1>3, <1>8, <3>1 DEF NotAt
    <2>4. NotAt(2)'
      BY <1>6, <2>3, ArgsKept
    <2>5. Holds(config', Places[2]')
      BY <1>3, <1>4, <1>6
    <2>6. QED
      BY <1>4, <1>5, <2>1, <2>2, <2>4, <2>5 DEF CfgInv, Counted, Searched
  <1>9. QED
    BY <1>7, <1>8

\* In conf beside the program's directory, with the buffer of the second place.
LEMMA Probe3Step ==
    ASSUME CfgInv, Probe3
    PROVE  CfgInv'
  <1>1. PICK d : d = cstrbufTrunc(config, dname.len)
    OBVIOUS
  <1>2. PICK n : n = Parent(d)
    OBVIOUS
  <1>3. PICK c : c = cstrbufCat(cstrbufTrunc(d, n), <<SEP, "conf">> \o Value(pname))
    OBVIOUS
  <1>4. /\ pc = "probe3" /\ UNCHANGED <<args, dname, tname, pname>>
        /\ IF n >= 0 /\ Exists(c) THEN config' = c /\ pc' = "finish_up" /\ UNCHANGED live
           ELSE config' = Null /\ live' = live - 1 /\ pc' = "env"
    BY <1>1, <1>2, <1>3 DEF Probe3, Goto
  <1>5. /\ cfgpath = Null /\ exe \in Seq(Char) /\ Held = 3 /\ Holds(dname, Dir)
        /\ Dir \in Seq(Char) /\ Value(pname) = <<SEP>> \o NAME
        /\ <<SEP, "conf">> \in Seq(Char) /\ <<SEP>> \o NAME \in Seq(Char)
        /\ (config # Null => live = 4)
    BY <1>4, Searching
  <1>6. Holds(config, Places[2]) /\ NotAt(2) /\ live = 4
    <2>1. Holds(config, Places[2]) /\ NotAt(2)
      BY <1>4 DEF CfgInv, Searched
    <2>2. QED
      BY <1>5, <2>1, HoldsValue
  <1>7. Holds(d, Dir) /\ Value(d) = Dir
    <2>1. PICK u \in Seq(Char) : u = <<SEP, "conf">> \o (<<SEP>> \o NAME)
      BY <1>5, Behind
    <2>2. PICK a \in Seq(Char) : a = Dir
      BY <1>5
    <2>3. PICK y \in Seq(Char) : y = a \o u
      BY Behind
    <2>4. y = Places[2]
      <3>1. Places[2] = (a \o <<SEP, "conf">>) \o (<<SEP>> \o NAME)
        BY <1>5, <2>2, Candidates
      <3>2. (a \o <<SEP, "conf">>) \o (<<SEP>> \o NAME) = a \o (<<SEP, "conf">> \o (<<SEP>> \o NAME))
        BY <1>5, TextsAssociate, SMTT(30)
      <3>3. QED
        BY <2>1, <2>3, <3>1, <3>2, Zenon
    <2>5. Len(u) > 0
      <3>1. Len(<<SEP, "conf">>) = 2
        OBVIOUS
      <3>2. Len(u) = 2 + Len(<<SEP>> \o NAME) /\ Len(<<SEP>> \o NAME) \in Nat
        BY <1>5, <2>1, <3>1, Behind
      <3>3. QED
        BY <3>2
    <2>6. Len(a) \in Nat /\ Len(a) < Len(y)
      <3>1. Len(y) = Len(a) + Len(u) /\ Len(a) \in Nat /\ Len(u) \in Nat
        BY <2>3, Behind
      <3>2. QED
        BY <2>5, <3>1
    <2>7. dname.len = Len(a)
      BY <1>5, <2>2 DEF Holds
    <2>8. Holds(config, y) /\ d = cstrbufTrunc(config, Len(a))
      BY <1>1, <1>6, <2>4, <2>7
    <2>9. Holds(d, SubSeq(y, 1, Len(a)))
      BY <2>6, <2>8, TruncHolds
    <2>10. SubSeq(y, 1, Len(a)) = a
      <3>1. IsPrefix(a, y)
        BY <2>3, Parts
      <3>2. SubSeq(a, 1, Len(a)) = SubSeq(y, 1, Len(a))
        BY <3>1 DEF IsPrefix
      <3>3. SubSeq(a, 1, Len(a)) = a
        BY SubSeqFull
      <3>4. QED
        BY <3>2, <3>3
    <2>11. Holds(d, Dir)
      BY <2>2, <2>9, <2>10
    <2>12. QED
      BY <2>11, HoldsValue
  <1>8. PICK m \in 0..Len(Dir) : m = SelectLastInSeq(Dir, IsSep) /\ n = m - 1
    BY <1>2, <1>5, <1>7, LastSeparator DEF Parent
  <1>9. Len(Dir) \in Nat /\ (m = 0 <=> SEP \notin ToSet(Dir))
    BY <1>5, <1>8, LastSeparator, LenProperties
  <1>10. ASSUME n >= 0
         PROVE  /\ SEP \in ToSet(Dir)
                /\ Holds(c, Places[3]) /\ Terminated(c) /\ Value(c) = Places[3]
    <2>1. n \in Nat /\ n < Len(Dir) /\ SEP \in ToSet(Dir)
      BY <1>8, <1>9, <1>10
    <2>2. PICK e : e = cstrbufTrunc(d, n)
      OBVIOUS
    <2>3. PICK v : v = SubSeq(Dir, 1, n)
      OBVIOUS
    <2>4. v = Above(Dir)
      BY <1>8, <2>3 DEF Above
    <2>5. Holds(e, v)
      BY <1>7, <2>1, <2>2, <2>3, TruncHolds
    <2>6. PICK u \in Seq(Char) : u = <<SEP, "conf">> \o (<<SEP>> \o NAME)
      BY <1>5, Behind
    <2>7. c = cstrbufCat(e, u)
      BY <1>3, <1>5, <2>2, <2>6
    <2>8. Holds(c, v \o u) /\ Terminated(c)
      BY <2>5, <2>7, CatHolds
    <2>9. v \o u = Places[3]
      BY <1>5, <2>1, <2>4, <2>6, Candidates
    <2>10. Holds(c, Places[3]) /\ Terminated(c)
      BY <2>8, <2>9
    <2>11. QED
      BY <2>1, <2>10, HoldsValue
  <1>11. CASE n >= 0 /\ Exists(c)
    <2>1. config' = c /\ pc' = "finish_up" /\ live' = 4
      BY <1>4, <1>6, <1>11
    <2>2. Holds(c, Places[3]) /\ Terminated(c) /\ IsFile(Places[3])
      BY <1>10, <1>11 DEF Exists
    <2>3. 3 <= Len(Places)
      <3>1. Len(Places) = IF SEP \in ToSet(Dir) THEN 3 ELSE 2
        BY <1>5, Candidates
      <3>2. Len(Places) = 3
        BY <1>10, <1>11, <3>1
      <3>3. QED
        BY <3>2
    <2>4. 3 \in Nat \ {0} /\ NotAt(3 - 1)
      BY <1>6
    <2>5. QED
      BY <1>4, <2>1, <2>2, <2>3, <2>4, Found
  <1>12. CASE ~(n >= 0 /\ Exists(c))
    <2>1. config' = Null /\ live' = 3 /\ pc' = "env"
      BY <1>4, <1>6, <1>12
    <2>2. ArgsOK' /\ NamesHeld' /\ Held' = 3
      BY <1>4, <2>1, NamesKept
    <2>3. 3 <= Len(Places) => ~IsFile(Places[3])
      <3>1. CASE n >= 0
        BY <1>10, <1>12, <3>1 DEF Exists
      <3>2. CASE ~(n >= 0)
        <4>1. m = 0
          BY <1>8, <1>9, <3>2
        <4>2. Len(Places) = 2
          BY <1>5, <1>9, <4>1, Candidates
        <4>3. QED
          BY <4>2
      <3>3. QED
        BY <3>1, <3>2
    <2>4. NotAt(3)
      <3>1. \A i \in 1..3 : i = 3 \/ i \in 1..2
        OBVIOUS
      <3>2. QED
        BY <1>6, <2>3, <3>1 DEF NotAt
    <2>5. UNCHANGED args
      BY <1>4
    <2>6. NotAt(3)'
      BY <2>4, <2>5, ArgsKept
    <2>7. QED
      BY <2>1, <2>2, <2>6 DEF CfgInv, Counted, Searched
  <1>13. QED
    BY <1>11, <1>12

\* The value of the variable, as it is or completed.
LEMMA EnvStep ==
    ASSUME CfgInv, Env
    PROVE  CfgInv'
  <1>1. PICK c : c = cstrbufNew(Len(env) + pname.len + 1, env)
    OBVIOUS
  <1>2. /\ pc = "env" /\ UNCHANGED <<args, dname, tname, pname>>
        /\ IF env = Null THEN UNCHANGED <<config, live>> /\ pc' = "etc"
           ELSE /\ config' = IF EndsWithName(env) THEN c
                             ELSE cstrbufCat(c, SubSeq(Completed(env), Len(env) + 1,
                                                       Len(Completed(env))))
                /\ live' = live + 1 /\ pc' = "finish_up"
    BY <1>1 DEF Env, Goto
  <1>3. /\ cfgpath = Null /\ exe \in Seq(Char) /\ Held = 3
        /\ Holds(tname, <<"/">> \o NAME) /\ Holds(pname, <<SEP>> \o NAME)
        /\ (config = Null => live = 3)
    BY <1>2, Searching
  <1>4. config = Null /\ NotAt(3) /\ live = 3
    BY <1>2, <1>3 DEF CfgInv, Searched
  <1>5. UNCHANGED args
    BY <1>2
  <1>6. CASE env = Null
    <2>1. config' = Null /\ live' = 3 /\ pc' = "etc"
      BY <1>2, <1>4, <1>6
    <2>2. ArgsOK' /\ NamesHeld' /\ Held' = 3
      BY <1>2, <2>1, NamesKept
    <2>3. NotAt(3)' /\ env' = Null
      BY <1>4, <1>5, <1>6, ArgsKept
    <2>4. QED
      BY <2>1, <2>2, <2>3 DEF CfgInv, Counted, Searched
  <1>7. CASE env # Null
    <2>1. live' = 4 /\ pc' = "finish_up"
      BY <1>2, <1>4, <1>7
    <2>2. PICK w \in Seq(Char) : w = env
      BY <1>7, PathAssumption DEF CfgInv, ArgsOK
    <2>3. Holds(c, w)
      <3>1. pname.len \in Nat /\ Len(w) \in Nat
        BY <1>3, LenProperties DEF Holds, Buffer
      <3>2. Len(w) + pname.len + 1 \in Nat
        BY <3>1
      <3>3. QED
        BY <1>1, <2>2, <3>2, NewHolds
    <2>4. Terminated(c)
      <3>1. pname.len \in Nat /\ Len(w) \in Nat
        BY <1>3, LenProperties DEF Holds, Buffer
      <3>2. Len(w) + pname.len + 1 \in Nat
        BY <3>1
      <3>3. QED
        BY <1>1, <2>2, <3>2, NewHolds
    <2>5. PICK v \in Seq(Char) :
            /\ Holds(config', v) /\ Terminated(config')
            /\ IsPrefix(w, v) /\ IsSuffix(NAME, v) /\ Len(v) <= Len(w) + Len(NAME) + 1
      <3>1. CASE EndsWithName(w)
        <4>1. config' = c
          BY <1>2, <1>7, <2>2, <3>1
        <4>2. IsSuffix(NAME, w)
          BY <1>3, <3>1, NameEnds
        <4>3. QED
          BY <2>3, <2>4, <4>1, <4>2, Completes
      <3>2. CASE ~EndsWithName(w)
        <4>1. PICK r \in Seq(Char) :
                /\ SubSeq(Completed(w), Len(w) + 1, Len(Completed(w))) = r
                /\ r = NAME \/ r = <<SEP>> \o NAME
          BY CompletedWith
        <4>2. config' = cstrbufCat(c, r)
          BY <1>2, <1>7, <2>2, <3>2, <4>1
        <4>3. PICK v \in Seq(Char) : v = w \o r
          BY Behind
        <4>4. Holds(config', v) /\ Terminated(config')
          BY <2>3, <4>2, <4>3, CatHolds
        <4>5. QED
          BY <4>1, <4>3, <4>4, Completes
      <3>3. QED
        BY <3>1, <3>2
    <2>6. FirstPlace = 0
      BY <1>3, <1>4, NoPlace
    <2>7. Wanted = w
      BY <1>3, <1>7, <2>2, <2>6 DEF Wanted
    <2>8. Stands' /\ config' # Null
      <3>1. ~(FirstPlace > 0)
        BY <2>6
      <3>2. QED
        BY <1>5, <2>5, <2>7, <3>1, Ends
    <2>9. ArgsOK' /\ NamesHeld' /\ Held' = 3
      BY <1>2, <2>1, NamesKept
    <2>10. QED
      BY <2>1, <2>8, <2>9 DEF CfgInv, Counted, Searched
  <1>8. QED
    BY <1>6, <1>7

\* The system directory, if there is one.
LEMMA EtcStep ==
    ASSUME CfgInv, Etc
    PROVE  CfgInv'
  <1>1. /\ pc = "etc" /\ UNCHANGED <<args, dname, tname, pname>> /\ pc' = "finish_up"
        /\ IF etc = Null THEN UNCHANGED <<config, live>>
           ELSE config' = cstrbufCat(Null, etc \o Value(pname)) /\ live' = live + 1
    BY DEF Etc, Goto
  <1>2. /\ cfgpath = Null /\ exe \in Seq(Char) /\ Held = 3
        /\ Value(pname) = <<SEP>> \o NAME /\ <<SEP>> \o NAME \in Seq(Char)
        /\ (config = Null => live = 3)
    BY <1>1, Searching
  <1>3. config = Null /\ NotAt(3) /\ live = 3 /\ env = Null
    BY <1>1, <1>2 DEF CfgInv, Searched
  <1>4. UNCHANGED args
    BY <1>1
  <1>5. FirstPlace = 0
    BY <1>2, <1>3, NoPlace
  <1>6. Wanted = etc
    BY <1>2, <1>3, <1>5 DEF Wanted
  <1>7. ArgsOK' /\ NamesHeld' /\ Held' = 3
    BY <1>1, NamesKept
  <1>8. CASE etc = Null
    <2>1. config' = Null /\ live' = 3
      BY <1>1, <1>3, <1>8
    <2>2. Wanted' = Null
      BY <1>4, <1>6, <1>8, ArgsKept
    <2>3. Stands'
      BY <2>1, <2>2 DEF Stands
    <2>4. QED
      BY <1>1, <1>7, <2>1, <2>3 DEF CfgInv, Counted, Searched
  <1>9. CASE etc # Null
    <2>1. PICK w \in Seq(Char) : w = etc
      BY <1>9, PathAssumption DEF CfgInv, ArgsOK
    <2>2. PICK r \in Seq(Char) : r = <<SEP>> \o NAME
      BY <1>2
    <2>3. PICK v \in Seq(Char) : v = w \o r
      BY Behind
    <2>4. config' = cstrbufCat(Null, v) /\ live' = 4
      BY <1>1, <1>2, <1>3, <1>9, <2>1, <2>2, <2>3
    <2>5. Holds(config', v) /\ Terminated(config')
      BY <2>4, CatNullHolds
    <2>6. IsPrefix(w, v) /\ IsSuffix(NAME, v) /\ Len(v) <= Len(w) + Len(NAME) + 1
      BY <2>2, <2>3, Completes
    <2>7. Stands' /\ config' # Null
      <3>1. ~(FirstPlace > 0) /\ Wanted = w
        BY <1>5, <1>6, <2>1
      <3>2. QED
        BY <1>4, <2>5, <2>6, <3>1, Ends
    <2>8. QED
      BY <1>1, <1>7, <2>4, <2>7 DEF CfgInv, Counted, Searched
  <1>10. QED
    BY <1>8, <1>9

\* What was found stays when the names are freed.
LEMMA FinishUpStep ==
    ASSUME CfgInv, FinishUp
    PROVE  CfgInv'
  <1>1. /\ pc = "finish_up" /\ UNCHANGED <<args, config>> /\ pc' = "done"
        /\ tname' = Null /\ pname' = Null /\ dname' = Null
        /\ live' = live - Held
    BY DEF FinishUp, Goto
  <1>2. UNCHANGED args /\ config' = config
    BY <1>1
  <1>3. /\ cfgpath' = cfgpath /\ env' = env /\ etc' = etc /\ exe' = exe
        /\ Wanted' = Wanted /\ FirstPlace' = FirstPlace
    BY <1>2, ArgsKept
  <1>4. ArgsOK'
    BY <1>1, <1>3 DEF CfgInv, ArgsOK
  <1>5. NamesHeld'
    BY <1>1 DEF NamesHeld
  <1>6. Counted'
    <2>1. Held' = 0
      BY <1>1, Pointers DEF Held
    <2>2. Held \in Int
      <3>1. IsFiniteSet(1..3)
        <4>1. 1 \in Int /\ 3 \in Int
          OBVIOUS
        <4>2. QED
          BY <4>1, FS_Interval
      <3>2. IsFiniteSet({b \in 1..3 : <<tname, pname, dname>>[b] # Null})
        BY <3>1, FS_Subset
      <3>3. QED
        BY <3>2, FS_CardinalityType DEF Held
    <2>3. live = Held + IF config = Null THEN 0 ELSE 1
      BY DEF CfgInv, Counted
    <2>4. QED
      BY <1>1, <1>2, <2>1, <2>2, <2>3 DEF Counted
  <1>7. Searched'
    <2>1. Stands
      BY <1>1 DEF CfgInv, Searched
    <2>2. Stands'
      BY <1>2, <1>3, <2>1 DEF Stands, Terminated, Value
    <2>3. QED
      BY <1>1, <2>2 DEF Searched
  <1>8. QED
    BY <1>4, <1>5, <1>6, <1>7 DEF CfgInv

-----------------------------------------------------------------------------
(* The theorems *)

\* The names, the directory and the result are in buffers that hold them, the
\* blocks are counted, and the search has passed over the places it left behind.
THEOREM ConfigInvariance == CfgSpec => []CfgInv
  <1>1. CfgInit => CfgInv
    <2>1. SUFFICES ASSUME CfgInit PROVE CfgInv
      OBVIOUS
    <2>2. /\ pc = "start" /\ config = Null /\ live = 0
          /\ dname = Null /\ tname = Null /\ pname = Null
          /\ cfgpath \in Path \cup {Null} /\ env \in Path \cup {Null}
          /\ etc \in Path \cup {Null} /\ exe \in Exe
      BY <2>1 DEF CfgInit
    <2>3. Held = 0
      BY <2>2, Pointers DEF Held
    <2>4. Counted
      BY <2>2, <2>3 DEF Counted
    <2>5. ArgsOK /\ NamesHeld /\ Searched
      BY <2>2 DEF ArgsOK, NamesHeld, Searched
    <2>6. QED
      BY <2>4, <2>5 DEF CfgInv
  <1>2. CfgInv /\ [CfgNext]_cfgVars => CfgInv'
    <2>1. SUFFICES ASSUME CfgInv, [CfgNext]_cfgVars PROVE CfgInv'
      OBVIOUS
    <2>2. CASE Begin
      BY <2>1, <2>2, BeginStep
    <2>3. CASE Given
      BY <2>1, <2>3, GivenStep
    <2>4. CASE Probe1
      BY <2>1, <2>4, Probe1Step
    <2>5. CASE Probe2
      BY <2>1, <2>5, Probe2Step
    <2>6. CASE Probe3
      BY <2>1, <2>6, Probe3Step
    <2>7. CASE Env
      BY <2>1, <2>7, EnvStep
    <2>8. CASE Etc
      BY <2>1, <2>8, EtcStep
    <2>9. CASE FinishUp
      BY <2>1, <2>9, FinishUpStep
    <2>10. CASE UNCHANGED cfgVars
      <3>1. UNCHANGED args
        BY <2>10 DEF cfgVars
      <3>2. /\ pc' = pc /\ config' = config /\ live' = live
            /\ dname' = dname /\ tname' = tname /\ pname' = pname
        BY <2>10 DEF cfgVars, bufs
      <3>3. /\ cfgpath' = cfgpath /\ env' = env /\ etc' = etc /\ exe' = exe
            /\ Dir' = Dir /\ Places' = Places /\ Wanted' = Wanted /\ FirstPlace' = FirstPlace
            /\ NotAt(1)' = NotAt(1) /\ NotAt(2)' = NotAt(2) /\ NotAt(3)' = NotAt(3)
        BY <3>1, ArgsKept
      <3>4. ArgsOK'
        BY <2>1, <3>2, <3>3 DEF CfgInv, ArgsOK
      <3>5. NamesHeld'
        BY <2>1, <3>2, <3>3 DEF CfgInv, NamesHeld
      <3>6. Counted'
        BY <2>1, <3>2 DEF CfgInv, Counted, Held
      <3>7. Stands' = Stands
        BY <3>2, <3>3 DEF Stands, Terminated, Value
      <3>8. Searched'
        BY <2>1, <3>2, <3>3, <3>7 DEF CfgInv, Searched
      <3>9. QED
        BY <3>4, <3>5, <3>6, <3>8 DEF CfgInv
    <2>11. QED
      BY <2>1, <2>2, <2>3, <2>4, <2>5, <2>6, <2>7, <2>8, <2>9, <2>10 DEF CfgNext
  <1>3. QED
    BY <1>1, <1>2, PTL DEF CfgSpec

\* Whichever way find_config_pathfile returns, it has freed every buffer but the one
\* it returns.
THEOREM ConfigNothingLeaks == CfgSpec => []NothingLeaks
  <1>1. CfgInv => NothingLeaks
    <2>1. SUFFICES ASSUME CfgInv, pc = "done" PROVE NothingLeaks
      BY DEF NothingLeaks
    <2>2. tname = Null /\ pname = Null /\ dname = Null
      BY <2>1 DEF CfgInv, NamesHeld
    <2>3. Held = 0
      BY <2>2, Pointers DEF Held
    <2>4. QED
      BY <2>1, <2>3 DEF CfgInv, Counted, NothingLeaks
  <1>2. QED
    BY <1>1, ConfigInvariance, PTL

\* It returns the caller's path, else the first of the three places where the file
\* is, else the variable, else the system directory, completed with the name of the
\* file, in a C string; and the null pointer only where there is none of them.
THEOREM ConfigFirstPlace == CfgSpec => []FirstPlaceWins
  <1>1. CfgInv => FirstPlaceWins
    BY DEF CfgInv, Searched, FirstPlaceWins
  <1>2. QED
    BY <1>1, ConfigInvariance, PTL
=============================================================================
