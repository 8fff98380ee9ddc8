--------------------------- MODULE ConvFileProof ----------------------------
(***************************************************************************)
(* Proofs about convd_conv_file, for any input files, any encoding, any    *)
(* number of callers and output files, any sizes and any faults.           *)
(***************************************************************************)
EXTENDS ConvFile, Least, SequenceTheorems, TLAPS

Byte == 0..255
Mark == {"none", "utf8", "2be", "2le", "4be", "4le"}

-----------------------------------------------------------------------------
(* Marks and units *)

\* A unit has one, two or four bytes, and a mark a number of bytes.
LEMMA WidthProps ==
    ASSUME NEW bom
    PROVE  Width(bom) \in {1, 2, 4} /\ BomLen(bom) \in Nat
  BY DEF Width, BomLen

\* What UCS_text_detect_bom returns is a mark, unless it asks for more.
LEMMA DetectProps ==
    ASSUME NEW h, NEW n, UCS_text_detect_bom(h, n) # "utf8_ask"
    PROVE  UCS_text_detect_bom(h, n) \in Mark
  BY DEF UCS_text_detect_bom, Mark

-----------------------------------------------------------------------------
(* Runs of bytes *)

\* SameBit7 counts the bytes that agree with the first one, and no byte more
\* could be counted.
LEMMA SameBit7Props ==
    ASSUME NEW b \in Seq(Byte), b # << >>
    PROVE  /\ SameBit7(b) \in 1..Len(b)
           /\ \A i \in 1..SameBit7(b) : HasBit7(b[i]) = HasBit7(b[1])
           /\ SameBit7(b) < Len(b) => HasBit7(b[SameBit7(b) + 1]) # HasBit7(b[1])
  <1> DEFINE Agree(n) == \A i \in 1..n : HasBit7(b[i]) = HasBit7(b[1])
             T == {n \in 1..Len(b) : Agree(n)}
             Max(n) == Agree(n) /\ (n < Len(b) => HasBit7(b[n + 1]) # HasBit7(b[1]))
  <1>1. Len(b) \in Nat /\ Len(b) >= 1
    BY EmptySeq, LenProperties
  <1>2. 1 \in T
    BY <1>1
  <1>3. PICK n \in T : \A k \in T : k <= n
    <2>1. T \in SUBSET (0..Len(b)) /\ T # {}
      BY <1>1, <1>2
    <2> HIDE DEF T
    <2>2. QED
      BY <1>1, <2>1, NatGreatest
  <1>4. n \in 1..Len(b) /\ Agree(n)
    BY <1>3
  <1>5. n < Len(b) => HasBit7(b[n + 1]) # HasBit7(b[1])
    <2>1. SUFFICES ASSUME n < Len(b), HasBit7(b[n + 1]) = HasBit7(b[1])
                   PROVE  FALSE
      OBVIOUS
    <2>2. n + 1 \in 1..Len(b)
      BY <1>1, <1>4, <2>1
    <2>3. Agree(n + 1)
      <3>1. TAKE i \in 1..(n + 1)
      <3>2. i \in 1..n \/ i = n + 1
        BY <1>1, <1>4
      <3>3. QED
        BY <1>4, <2>1, <3>2
    <2>4. n + 1 <= n
      BY <1>3, <2>2, <2>3
    <2>5. QED
      BY <1>1, <1>4, <2>4
  <1>6. \E k \in 1..Len(b) : Max(k)
    BY <1>4, <1>5
  <1>7. SameBit7(b) = CHOOSE k \in 1..Len(b) : Max(k)
    BY DEF SameBit7
  <1> HIDE DEF Max
  <1>8. SameBit7(b) \in 1..Len(b) /\ Max(SameBit7(b))
    BY <1>6, <1>7
  <1>9. QED
    BY <1>8 DEF Max

\* The next chunk lies in the buffer and has whole units.
LEMMA ChunkLenProps ==
    ASSUME NEW bom, NEW b \in Seq(Byte), b # << >>
    PROVE  /\ ChunkLen(bom, b) \in 0..Len(b)
           /\ ChunkLen(bom, b) % Width(bom) = 0
           /\ Len(b) - ChunkLen(bom, b) < Width(bom) \/ Width(bom) = 1
           /\ Width(bom) = 1 => ChunkLen(bom, b) = SameBit7(b) /\ ChunkLen(bom, b) > 0
  <1>1. Len(b) \in Nat
    BY LenProperties
  <1>2. SameBit7(b) \in 1..Len(b)
    BY SameBit7Props
  <1> DEFINE w == Width(bom)
  <1> HIDE DEF w
  <1>3. w \in {1, 2, 4}
    BY WidthProps DEF w
  <1>4. ChunkLen(bom, b) = IF w = 1 THEN SameBit7(b) ELSE Len(b) - (Len(b) % w)
    BY DEF ChunkLen, w
  <1>5. CASE w = 1
    BY <1>1, <1>2, <1>4, <1>5 DEF w
  <1>6. CASE w = 2
    BY <1>1, <1>4, <1>6 DEF w
  <1>7. CASE w = 4
    BY <1>1, <1>4, <1>7 DEF w
  <1>8. QED
    BY <1>3, <1>5, <1>6, <1>7

-----------------------------------------------------------------------------
(* Byte order *)

\* HostOrder permutes the n positions behind base within their units.
LEMMA HostOrderProps ==
    ASSUME NEW bom, NEW base \in Nat, NEW n \in Nat, n % Width(bom) = 0
    PROVE  /\ HostOrder(bom, base, n) \in Seq(Nat)
           /\ Len(HostOrder(bom, base, n)) = n
           /\ \A i \in 1..n : HostOrder(bom, base, n)[i] \in (base + 1)..(base + n)
  <1> DEFINE w == IF bom \in {"2be", "4be"} THEN Width(bom) ELSE 1
             f(i) == base + (w * ((i - 1) \div w)) + w - ((i - 1) % w)
  <1>1. HostOrder(bom, base, n) = [i \in 1..n |-> f(i)]
    BY DEF HostOrder
  <1>2. w \in {1, 2, 4} /\ n % w = 0
    BY WidthProps
  <1>3. \A i \in 1..n : f(i) \in (base + 1)..(base + n)
    <2> HIDE DEF w
    <2>1. CASE w = 1
      BY <1>2, <2>1
    <2>2. CASE w = 2
      BY <1>2, <2>2
    <2>3. CASE w = 4
      BY <1>2, <2>3
    <2>4. QED
      BY <1>2, <2>1, <2>2, <2>3
  <1> HIDE DEF f
  <1>4. \A i \in 1..n : f(i) \in Nat
    BY <1>3
  <1>5. QED
    BY <1>1, <1>3, <1>4

\* Two neighbouring stretches of whole units, one behind the other, are one.
LEMMA HostOrderConcat ==
    ASSUME NEW bom, NEW base \in Nat, NEW m \in Nat, NEW n \in Nat,
           m % Width(bom) = 0, n % Width(bom) = 0
    PROVE  HostOrder(bom, base, m) \o HostOrder(bom, base + m, n) = HostOrder(bom, base, m + n)
  <1> DEFINE w == IF bom \in {"2be", "4be"} THEN Width(bom) ELSE 1
             f(b, i) == b + (w * ((i - 1) \div w)) + w - ((i - 1) % w)
             x == HostOrder(bom, base, m)
             y == HostOrder(bom, base + m, n)
             z == HostOrder(bom, base, m + n)
  <1>1. /\ x = [i \in 1..m |-> f(base, i)]
        /\ y = [i \in 1..n |-> f(base + m, i)]
        /\ z = [i \in 1..(m + n) |-> f(base, i)]
    BY DEF HostOrder
  <1>2. w \in {1, 2, 4} /\ m % w = 0 /\ n % w = 0
    BY WidthProps
  <1>3. /\ x \in Seq(Nat) /\ Len(x) = m
        /\ y \in Seq(Nat) /\ Len(y) = n
        /\ z \in Seq(Nat) /\ Len(z) = m + n
    <2>1. (m + n) % Width(bom) = 0
      BY WidthProps
    <2> HIDE DEF x, y, z
    <2>2. x \in Seq(Nat) /\ Len(x) = m
      BY HostOrderProps DEF x
    <2>3. y \in Seq(Nat) /\ Len(y) = n
      <3>1. base + m \in Nat
        OBVIOUS
      <3>2. QED
        BY <3>1, HostOrderProps DEF y
    <2>4. z \in Seq(Nat) /\ Len(z) = m + n
      BY <2>1, HostOrderProps DEF z
    <2>5. QED
      BY <2>2, <2>3, <2>4
  <1>4. \A i \in 1..n : f(base + m, i) = f(base, m + i)
    <2> HIDE DEF w
    <2>1. CASE w = 1
      BY <1>2, <2>1
    <2>2. CASE w = 2
      BY <1>2, <2>2
    <2>3. CASE w = 4
      BY <1>2, <2>3
    <2>4. QED
      BY <1>2, <2>1, <2>2, <2>3
  <1> HIDE DEF f, x, y, z
  <1>5. /\ x \o y \in Seq(Nat) /\ Len(x \o y) = m + n
        /\ \A i \in 1..(m + n) : (x \o y)[i] = IF i <= m THEN x[i] ELSE y[i - m]
    BY <1>3, ConcatProperties
  <1>6. \A i \in 1..(m + n) : (x \o y)[i] = z[i]
    <2>1. TAKE i \in 1..(m + n)
    <2>2. CASE i <= m
      BY <1>1, <1>5, <2>2
    <2>3. CASE i > m
      <3> DEFINE j == i - m
      <3>1. j \in 1..n /\ m + j = i /\ ~(i <= m)
        BY <2>3
      <3> HIDE DEF j
      <3>2. y[j] = f(base, m + j)
        BY <1>1, <1>4, <3>1
      <3>3. QED
        BY <1>1, <1>5, <3>1, <3>2 DEF j
    <2>4. i <= m \/ i > m
      OBVIOUS
    <2>5. QED
      BY <2>2, <2>3, <2>4
  <1>7. x \o y = z
    BY <1>3, <1>5, <1>6, SeqEqual
  <1>8. QED
    BY <1>7 DEF x, y, z

-----------------------------------------------------------------------------
(* What the actions leave alone *)

\* The step leaves what is local to u as it is, and u's output file too.
Same(u) ==
    /\ pc'[u] = pc[u] /\ args'[u] = args[u] /\ cpos'[u] = cpos[u]
    /\ outfd'[u] = outfd[u] /\ chunk'[u] = chunk[u] /\ size'[u] = size[u]
    /\ ret'[u] = ret[u]
    /\ outfd[u] # NoFile => disk'[outfd[u]] = disk[outfd[u]]

\* The part of the invariant that speaks of u does not see such a step.
LEMMA SameLocal ==
    ASSUME NEW u \in Caller, file' = file, Same(u), Local(u)
    PROVE  Local(u)'
  <1>1. Held(u)'
    BY DEF Local, Held, Same
  <1>2. pc[u] \in Writing => disk'[outfd'[u]] = disk[outfd[u]]
    BY DEF Local, Held, Same
  <1>3. Fresh(u)'
    BY <1>2 DEF Local, Fresh, Same, Writing
  <1>4. Behind(u)'
    BY DEF Local, Behind, Same
  <1>5. Roomy(cpos[u])' = Roomy(cpos[u]) /\ Origin(u)' = Origin(u)
    BY DEF Same, Roomy, Origin
  <1>6. \A n : Converted(u, n)' = Converted(u, n) /\ Border(u, n)' = Border(u, n)
    BY <1>5 DEF Same, Converted, Border
  <1>7. Tiled(u)'
    BY <1>2, <1>5, <1>6 DEF Local, Tiled, Same, Writing
  <1>8. (Succeeds(u) /\ Roomy(cpos[u]) => Complete(u))'
    BY <1>2, <1>5, <1>6 DEF Local, Succeeds, Complete, Same, Writing
  <1>9. QED
    BY <1>1, <1>3, <1>4, <1>7, <1>8 DEF Local

\* What the invariant says of one caller, in short.
LEMMA Facts ==
    ASSUME IInv, NEW c \in Caller
    PROVE  /\ TypeOK /\ Local(c)
           /\ file \in Seq(Byte) /\ Len(file) \in Nat
           /\ pc[c] # "idle" => args[c] \in Args
           /\ pc[c] \notin {"idle", "open"} => cpos[c] \in Positions
           /\ pc[c] \in Writing => outfd[c] \in Inode
           /\ \A u \in Caller \ {c} : outfd[c] # NoFile => outfd[u] # outfd[c]
           /\ size[c] \in Nat /\ chunk[c] \in Seq(0..Len(file)) /\ Len(chunk[c]) \in Nat
           /\ chunk[c] \in Seq(Nat)
  <1>1. TypeOK /\ Local(c) /\ Exclusive
    BY DEF IInv
  <1>2. file \in Seq(Byte) /\ Len(file) \in Nat
    BY <1>1, ByteAssumption, LenProperties DEF TypeOK, Byte
  <1>3. pc[c] # "idle" => args[c] \in Args
    BY <1>1 DEF TypeOK, Local, Held
  <1>4. pc[c] \notin {"idle", "open"} => cpos[c] \in Positions
    BY <1>1 DEF TypeOK, Local, Held
  <1>5. pc[c] \in Writing => outfd[c] \in Inode
    BY <1>1 DEF TypeOK, Local, Held
  <1>6. \A u \in Caller \ {c} : outfd[c] # NoFile => outfd[u] # outfd[c]
    BY <1>1 DEF Exclusive
  <1>7. size[c] \in Nat /\ chunk[c] \in Seq(0..Len(file)) /\ Len(chunk[c]) \in Nat
    BY <1>1, LenProperties DEF TypeOK
  <1>8. chunk[c] \in Seq(Nat)
    <2>1. 0..Len(file) \subseteq Nat
      BY <1>2
    <2>2. QED
      BY <1>7, <2>1, SeqMonotonic
  <1>9. QED
    BY <1>1, <1>2, <1>3, <1>4, <1>5, <1>6, <1>7, <1>8

\* Writing to its file, c changes no other file.
LEMMA WrittenFrame ==
    ASSUME IInv, NEW c \in Caller, pc[c] \in Writing, NEW d \in Seq(Nat), Written(c, d)
    PROVE  /\ disk' \in [Inode -> Seq(Nat)]
           /\ disk'[outfd[c]] = disk[outfd[c]] \o d
           /\ \A i \in Inode : i # outfd[c] => disk'[i] = disk[i]
  <1>1. outfd[c] \in Inode /\ disk \in [Inode -> Seq(Nat)]
    BY Facts DEF TypeOK
  <1>2. disk[outfd[c]] \o d \in Seq(Nat)
    BY <1>1, ConcatProperties
  <1>3. disk' = [disk EXCEPT ![outfd[c]] = disk[outfd[c]] \o d]
    BY DEF Written
  <1>4. QED
    BY <1>1, <1>2, <1>3

\* Writing a part of it neither.
LEMMA WrittenPartlyFrame ==
    ASSUME IInv, NEW c \in Caller, pc[c] \in Writing, NEW d \in Seq(Nat), WrittenPartly(c, d)
    PROVE  /\ disk' \in [Inode -> Seq(Nat)]
           /\ \A i \in Inode : i # outfd[c] => disk'[i] = disk[i]
  <1>1. PICK k \in 0..(Len(d) - 1) : Written(c, SubSeq(d, 1, k))
    BY DEF WrittenPartly
  <1>2. SubSeq(d, 1, k) \in Seq(Nat)
    <2>1. k \in Nat /\ Len(d) \in Nat
      BY <1>1, LenProperties
    <2>2. \A i \in 1..k : d[i] \in Nat
      BY <1>1, <2>1, ElementOfSeq
    <2>3. QED
      BY <2>1, <2>2, SubSeqProperties
  <1>3. QED
    BY <1>1, <1>2, WrittenFrame

\* A head is a sequence of zeros.
LEMMA ZerosProps ==
    ASSUME NEW n \in Nat
    PROVE  Zeros(n) \in Seq(Nat) /\ Len(Zeros(n)) = n
  BY DEF Zeros

-----------------------------------------------------------------------------
(* The calls that return *)

\* A call that returns gives back what it took, and changes its own locals only.
LEMMA ReturnProps ==
    ASSUME IInv, NEW c \in Caller, NEW from, NEW r \in Int, Return(c, from, r),
           UNCHANGED <<file, path>>, outfilesize' \in [Caller -> Nat],
           disk' \in [Inode -> Seq(Nat)],
           \A i \in Inode : i # outfd[c] => disk'[i] = disk[i]
    PROVE  IInv'
  <1>1. TypeOK
    BY DEF IInv
  <1>2. TypeOK'
    <2>1. pc' \in [Caller -> Pc]
      BY <1>1 DEF TypeOK, Return, Goto, Pc
    <2>2. args' \in [Caller -> Args \cup {Nil}] /\ cpos' \in [Caller -> Positions \cup {Nil}]
      BY <1>1 DEF TypeOK, Return
    <2>3. outfd' \in [Caller -> Inode \cup {NoFile}] /\ size' \in [Caller -> Nat]
          /\ ret' \in [Caller -> Int]
      BY <1>1 DEF TypeOK, Return
    <2>4. chunk' \in [Caller -> Seq(0..Len(file'))]
      <3>1. << >> \in Seq(0..Len(file))
        OBVIOUS
      <3>2. QED
        BY <1>1, <3>1 DEF TypeOK, Return
    <2>5. QED
      BY <1>1, <2>1, <2>2, <2>3, <2>4 DEF TypeOK
  <1>3. Exclusive'
    BY <1>1 DEF IInv, Exclusive, TypeOK, Return
  <1>4. Local(c)'
    <2>1. /\ pc'[c] = "idle" /\ args'[c] = Nil /\ cpos'[c] = Nil /\ outfd'[c] = NoFile
          /\ chunk'[c] = << >> /\ size'[c] = 0
      BY <1>1 DEF TypeOK, Return, Goto
    <2>2. Held(c)'
      BY <2>1 DEF Held, Writing
    <2>3. Fresh(c)' /\ Behind(c)' /\ Tiled(c)' /\ ~Succeeds(c)'
      BY <2>1 DEF Fresh, Behind, Tiled, Succeeds
    <2>4. QED
      BY <2>2, <2>3 DEF Local
  <1>5. ASSUME NEW u \in Caller \ {c} PROVE Local(u)'
    <2>1. outfd[u] # NoFile => outfd[u] \in Inode /\ outfd[u] # outfd[c]
      BY <1>1 DEF IInv, Exclusive, TypeOK
    <2>2. Same(u)
      BY <1>1, <2>1 DEF TypeOK, Same, Return, Goto
    <2>3. QED
      BY <2>2, SameLocal DEF IInv
  <1>6. QED
    BY <1>2, <1>3, <1>4, <1>5 DEF IInv

-----------------------------------------------------------------------------
(* Opening *)

\* The invariant holds after a step of c if it holds of c and of the whole, and
\* the step leaves the other callers alone.
LEMMA Others ==
    ASSUME IInv, NEW c \in Caller, file' = file, \A u \in Caller \ {c} : Same(u),
           TypeOK', Exclusive', Local(c)'
    PROVE  IInv'
  <1>1. ASSUME NEW u \in Caller \ {c} PROVE Local(u)'
    BY SameLocal DEF IInv
  <1>2. QED
    BY <1>1 DEF IInv

\* A call starts: only its arguments are set.
LEMMA StartStep ==
    ASSUME IInv, NEW c \in Caller, NEW a \in Args, Start(c, a)
    PROVE  IInv'
  <1>1. TypeOK /\ Local(c) /\ Exclusive
    BY DEF IInv
  <1>2. TypeOK'
    BY <1>1 DEF TypeOK, Start, Goto, shared, Pc, CONVD_NOERROR
  <1>3. Exclusive' /\ file' = file
    BY <1>1 DEF Exclusive, Start
  <1>4. \A u \in Caller \ {c} : Same(u)
    BY <1>1 DEF TypeOK, Same, Start, Goto, shared
  <1>5. Local(c)'
    <2>1. /\ pc[c] = "idle" /\ pc'[c] = "open" /\ args'[c] # Nil
          /\ cpos'[c] = cpos[c] /\ outfd'[c] = outfd[c] /\ chunk'[c] = chunk[c]
          /\ size'[c] = size[c]
      BY <1>1, NilAssumption DEF TypeOK, Start, Goto
    <2>2. Held(c)'
      BY <1>1, <2>1 DEF Local, Held, Writing
    <2>3. Fresh(c)'
      BY <1>1, <2>1 DEF Local, Fresh
    <2>4. Behind(c)' /\ Tiled(c)' /\ ~Succeeds(c)'
      BY <2>1 DEF Behind, Tiled, Succeeds
    <2>5. QED
      BY <2>2, <2>3, <2>4 DEF Local
  <1>6. QED
    BY <1>2, <1>3, <1>4, <1>5, Others

\* The text is opened: the offset is that of textfd, behind the mark.
LEMMA ReadOpenStep ==
    ASSUME IInv, NEW c \in Caller, ReadOpen(c)
    PROVE  IInv'
  <1>1. TypeOK /\ Local(c) /\ Exclusive
    BY DEF IInv
  <1>2. PICK h \in HeaderReads :
          LET bom == UCS_text_detect_bom(h[1], h[2])
              max == args[c].linesizemax IN
          /\ bom # "utf8_ask"
          /\ cpos' = [cpos EXCEPT ![c] =
                 [bom |-> bom, offset |-> BomLen(bom), pos |-> BomLen(bom),
                  linesize |-> IF max = -1 THEN CONV_LINE_MAXSIZE ELSE max]]
    BY DEF ReadOpen
  <1> DEFINE bom == UCS_text_detect_bom(h[1], h[2])
             size0 == IF args[c].linesizemax = -1 THEN CONV_LINE_MAXSIZE ELSE args[c].linesizemax
             p == [bom |-> bom, offset |-> BomLen(bom), pos |-> BomLen(bom), linesize |-> size0]
  <1>3. bom \in Mark /\ BomLen(bom) \in Nat
    BY <1>2, DetectProps, WidthProps
  <1>4. size0 \in Nat
    <2>1. args[c] \in Args
      BY Facts DEF ReadOpen, Goto
    <2>2. args[c].linesizemax \in Nat \cup {-1}
      BY <2>1, SizeAssumption DEF Args
    <2>3. CONV_LINE_MAXSIZE \in Nat
      BY DEF CONV_LINE_MAXSIZE
    <2> HIDE DEF CONV_LINE_MAXSIZE
    <2>4. QED
      BY <2>2, <2>3
  <1> HIDE DEF bom, size0
  <1>5. p \in Positions /\ p # Nil
    BY <1>3, <1>4, NilAssumption DEF Positions, Mark
  <1>6. cpos' = [cpos EXCEPT ![c] = p]
    BY <1>2 DEF bom, size0
  <1>7. p.bom = bom /\ p.offset = BomLen(bom) /\ p.pos = BomLen(bom)
    OBVIOUS
  <1> HIDE DEF p
  <1>8. /\ pc[c] = "open" /\ pc' = [pc EXCEPT ![c] = "create"]
        /\ ret' = [ret EXCEPT ![c] = 0]
        /\ UNCHANGED <<file, disk, path, args, outfd, chunk, size, outfilesize>>
    BY DEF ReadOpen, Goto, shared, CONVD_NOERROR
  <1>9. TypeOK'
    BY <1>1, <1>5, <1>6, <1>8 DEF TypeOK, Pc
  <1>10. Exclusive' /\ file' = file
    BY <1>1, <1>8 DEF Exclusive
  <1>11. \A u \in Caller \ {c} : Same(u)
    BY <1>1, <1>6, <1>8 DEF TypeOK, Same
  <1>12. Local(c)'
    <2>1. /\ pc'[c] = "create" /\ cpos'[c] = p /\ args'[c] = args[c] /\ outfd'[c] = outfd[c]
          /\ chunk'[c] = chunk[c] /\ size'[c] = size[c]
      BY <1>1, <1>6, <1>8 DEF TypeOK
    <2>2. Held(c)'
      BY <1>1, <1>5, <1>8, <2>1 DEF Local, Held, Writing
    <2>3. Fresh(c)'
      BY <1>1, <1>7, <1>8, <2>1 DEF Local, Fresh
    <2>4. Behind(c)' /\ Tiled(c)' /\ ~Succeeds(c)'
      BY <2>1 DEF Behind, Tiled, Succeeds
    <2>5. QED
      BY <2>2, <2>3, <2>4 DEF Local
  <1>13. QED
    BY <1>9, <1>10, <1>11, <1>12, Others

\* O_EXCL: the new file is nobody's.
LEMMA CreateOutStep ==
    ASSUME IInv, NEW c \in Caller, CreateOut(c)
    PROVE  IInv'
  <1>1. TypeOK /\ Local(c) /\ Exclusive
    BY DEF IInv
  <1>2. PICK i \in Inode \ {outfd[u] : u \in Caller} :
          /\ path' = i
          /\ disk' = [disk EXCEPT ![i] = << >>]
          /\ outfd' = [outfd EXCEPT ![c] = i]
    BY DEF CreateOut
  <1>3. /\ pc[c] = "create" /\ pc' = [pc EXCEPT ![c] = "head"]
        /\ UNCHANGED <<file, args, cpos, chunk, size, ret, outfilesize>>
    BY DEF CreateOut, Goto
  <1>4. i \in Inode /\ i # NoFile /\ \A u \in Caller : outfd[u] # i
    BY <1>2, NoFileAssumption
  <1>5. TypeOK'
    <2>1. << >> \in Seq(Nat)
      OBVIOUS
    <2>2. QED
      BY <1>1, <1>2, <1>3, <2>1 DEF TypeOK, Pc
  <1>6. Exclusive' /\ file' = file
    BY <1>1, <1>2, <1>3, <1>4 DEF Exclusive, TypeOK
  <1>7. \A u \in Caller \ {c} : Same(u)
    BY <1>1, <1>2, <1>3, <1>4 DEF TypeOK, Same
  <1>8. Local(c)'
    <2>1. /\ pc'[c] = "head" /\ cpos'[c] = cpos[c] /\ args'[c] = args[c] /\ outfd'[c] = i
          /\ chunk'[c] = chunk[c] /\ size'[c] = size[c] /\ disk'[i] = << >>
      BY <1>1, <1>2, <1>3 DEF TypeOK
    <2>2. Held(c)'
      BY <1>1, <1>3, <1>4, <2>1 DEF Local, Held, Writing
    <2>3. Fresh(c)'
      BY <1>1, <1>3, <2>1 DEF Local, Fresh
    <2>4. Behind(c)' /\ Tiled(c)' /\ ~Succeeds(c)'
      BY <2>1 DEF Behind, Tiled, Succeeds
    <2>5. QED
      BY <2>2, <2>3, <2>4 DEF Local
  <1>9. QED
    BY <1>5, <1>6, <1>7, <1>8, Others

\* The positions of a text that was moved on.
LEMMA Move ==
    ASSUME NEW p \in Positions, NEW a \in Nat, NEW b \in Nat
    PROVE  /\ MovedTo(p, a, b) \in Positions /\ MovedTo(p, a, b) # Nil
           /\ MovedTo(p, a, b).bom = p.bom /\ MovedTo(p, a, b).linesize = p.linesize
           /\ MovedTo(p, a, b).offset = a /\ MovedTo(p, a, b).pos = b
  <1> DEFINE r == [p EXCEPT !.offset = a]
             q == MovedTo(p, a, b)
  <1>1. r = [bom |-> p.bom, offset |-> a, pos |-> p.pos, linesize |-> p.linesize]
    BY DEF Positions
  <1>2. r \in Positions /\ r.bom = p.bom /\ r.linesize = p.linesize /\ r.offset = a
    BY <1>1 DEF Positions
  <1>3. q = [r EXCEPT !.pos = b]
    BY DEF MovedTo
  <1> HIDE DEF r, q
  <1>4. q = [bom |-> r.bom, offset |-> r.offset, pos |-> b, linesize |-> r.linesize]
    BY <1>2, <1>3 DEF Positions
  <1>5. /\ q \in Positions
        /\ q.bom = p.bom /\ q.linesize = p.linesize /\ q.offset = a /\ q.pos = b
    BY <1>2, <1>4 DEF Positions
  <1>6. QED
    BY <1>5, NilAssumption DEF q

\* Nothing converted yet: the output is the head.
LEMMA WriteHeadStep ==
    ASSUME IInv, NEW c \in Caller, WriteHead(c)
    PROVE  IInv'
  <1>0. PICK p, o, l : p = cpos[c] /\ o = args[c].inoffset /\ l = args[c].headlen
    OBVIOUS
  <1> DEFINE head == Zeros(l)
             q == MovedTo(p, p.offset + o, p.pos + o)
  <1>1. TypeOK /\ Local(c) /\ Exclusive
    BY DEF IInv
  <1>3. /\ p \in Positions /\ outfd[c] \in Inode /\ pc[c] \in Writing
        /\ o \in Nat /\ l \in Nat
    BY <1>0, Facts, SizeAssumption DEF Args, Writing, WriteHead, Goto
  <1>2. /\ pc[c] = "head" /\ pc' = [pc EXCEPT ![c] = "read"]
        /\ Written(c, head)
        /\ cpos' = [cpos EXCEPT ![c] = q]
        /\ UNCHANGED <<file, path, args, outfd, chunk, size, ret, outfilesize>>
    BY <1>0 DEF WriteHead, Goto
  <1>4. head \in Seq(Nat)
    BY <1>3, ZerosProps
  <1> HIDE DEF head
  <1>5. /\ disk' \in [Inode -> Seq(Nat)]
        /\ disk'[outfd[c]] = disk[outfd[c]] \o head
        /\ \A i \in Inode : i # outfd[c] => disk'[i] = disk[i]
    BY <1>2, <1>3, <1>4, WrittenFrame
  <1>6. /\ q \in Positions /\ q # Nil
        /\ q.bom = p.bom /\ q.offset = p.offset + o
        /\ q.pos = p.pos + o /\ q.linesize = p.linesize
    <2>1. p.offset + o \in Nat /\ p.pos + o \in Nat
      BY <1>3 DEF Positions
    <2>2. ASSUME NEW a \in Nat, NEW b \in Nat
          PROVE  /\ MovedTo(p, a, b) \in Positions /\ MovedTo(p, a, b) # Nil
                 /\ MovedTo(p, a, b).bom = p.bom /\ MovedTo(p, a, b).linesize = p.linesize
                 /\ MovedTo(p, a, b).offset = a /\ MovedTo(p, a, b).pos = b
      BY <1>3, Move
    <2>3. QED
      BY <2>1, <2>2
  <1> HIDE DEF q
  <1>8. TypeOK'
    BY <1>1, <1>2, <1>5, <1>6 DEF TypeOK, Pc
  <1>9. Exclusive' /\ file' = file
    BY <1>1, <1>2 DEF Exclusive
  <1>10. \A u \in Caller \ {c} : Same(u)
    BY <1>1, <1>2, <1>5 DEF TypeOK, Same, Exclusive
  <1>11. Local(c)'
    <2>1. /\ pc'[c] = "read" /\ cpos'[c] = q /\ args'[c] = args[c] /\ outfd'[c] = outfd[c]
          /\ chunk'[c] = << >> /\ size'[c] = 0
      BY <1>1, <1>2 DEF TypeOK, Local, Fresh
    <2>2. Held(c)'
      BY <1>1, <1>2, <1>6, <2>1 DEF Local, Held, Writing
    <2>3. Fresh(c)'
      BY <2>1 DEF Fresh
    <2>4. p.offset = BomLen(p.bom) /\ p.pos = p.offset /\ disk[outfd[c]] = << >>
      BY <1>0, <1>1, <1>2 DEF Local, Fresh
    <2>5. q.offset \in Nat /\ q.pos = q.offset /\ q.offset = BomLen(q.bom) + o
      BY <1>3, <1>6, <2>4 DEF Positions
    <2>6. Behind(c)'
      BY <2>1, <2>5 DEF Behind
    <2>7. Tiled(c)'
      <3>1. Origin(c)' = q.offset
        BY <1>0, <2>1, <2>5 DEF Origin
      <3>2. Width(q.bom) \in {1, 2, 4} /\ 0 % Width(q.bom) = 0
        BY WidthProps
      <3>3. HostOrder(q.bom, q.offset, 0) = << >>
        <4>1. /\ HostOrder(q.bom, q.offset, 0) \in Seq(Nat)
              /\ Len(HostOrder(q.bom, q.offset, 0)) = 0
          BY <2>5, <3>2, HostOrderProps
        <4>2. QED
          BY <4>1, EmptySeq
      <3>4. Converted(c, q.offset)' = head
        <4>1. q.offset - q.offset = 0
          BY <2>5
        <4>2. Converted(c, q.offset)' = head \o << >>
          BY <1>0, <2>1, <3>1, <3>3, <4>1 DEF Converted, head
        <4>3. QED
          BY <1>4, <4>2, ConcatEmptySeq
      <3>5. disk'[outfd[c]] = head
        BY <1>4, <1>5, <2>4, ConcatEmptySeq
      <3>6. Len(<< >>) = 0 /\ q.offset - 0 = q.offset /\ q.offset - q.offset = 0
        BY <2>5
      <3>7. Border(c, q.offset)'
        BY <3>1 DEF Border
      <3>8. QED
        BY <2>1, <2>5, <3>1, <3>2, <3>3, <3>4, <3>5, <3>6, <3>7 DEF Tiled
    <2>8. ~Succeeds(c)'
      BY <2>1 DEF Succeeds
    <2>9. QED
      BY <2>2, <2>3, <2>6, <2>7, <2>8 DEF Local
  <1>12. QED
    BY <1>8, <1>9, <1>10, <1>11, Others

-----------------------------------------------------------------------------
(* The returning actions *)

\* With the files as they were, ReturnProps asks only for outfilesize.
LEMMA QuietReturn ==
    ASSUME IInv, NEW c \in Caller, NEW from, NEW r \in Int, Return(c, from, r),
           UNCHANGED <<file, path, disk>>, outfilesize' \in [Caller -> Nat]
    PROVE  IInv'
  <1>1. disk' \in [Inode -> Seq(Nat)] /\ \A i \in Inode : i # outfd[c] => disk'[i] = disk[i]
    BY DEF IInv, TypeOK
  <1>2. QED
    BY <1>1, ReturnProps

\* Every action that returns gives back what the call took.
LEMMA ReturnSteps ==
    ASSUME IInv, NEW c \in Caller,
           \/ OpenFail(c) \/ OpenAsk(c) \/ CreateOutFail(c) \/ WriteHeadFail(c)
           \/ ConvertFail(c) \/ WriteChunkFail(c) \/ Finish(c)
    PROVE  IInv'
  <1>1. TypeOK /\ ret[c] \in Int /\ size[c] \in Nat
    BY DEF IInv, TypeOK
  <1>2. /\ CONVD_ERR_FILE \in Int /\ CONVD_ERR_ENCODING \in Int /\ CONVD_ERR_ICONV \in Int
    BY DEF CONVD_ERR_FILE, CONVD_ERR_ENCODING, CONVD_ERR_ICONV
  <1>3. ASSUME NEW from, NEW r \in Int, Return(c, from, r), UNCHANGED <<file, shared, outfilesize>>
        PROVE  IInv'
    BY <1>1, <1>3, QuietReturn DEF TypeOK, shared
  <1>4. ASSUME NEW from, Return(c, from, CONVD_ERR_FILE), from \in Writing,
               NEW d \in Seq(Nat), WrittenPartly(c, d), UNCHANGED <<file, path, outfilesize>>
        PROVE  IInv'
    <2>1. pc[c] \in Writing
      BY <1>4 DEF Return, Goto
    <2>2. /\ disk' \in [Inode -> Seq(Nat)]
          /\ \A i \in Inode : i # outfd[c] => disk'[i] = disk[i]
      BY <1>4, <2>1, WrittenPartlyFrame
    <2>3. QED
      BY <1>1, <1>2, <1>4, <2>2, ReturnProps DEF TypeOK
  <1>5. CASE OpenFail(c)
    BY <1>2, <1>3, <1>5 DEF OpenFail
  <1>6. CASE OpenAsk(c)
    BY <1>2, <1>3, <1>6 DEF OpenAsk
  <1>7. CASE CreateOutFail(c)
    BY <1>1, <1>3, <1>7 DEF CreateOutFail
  <1>8. CASE WriteHeadFail(c)
    <2>1. args[c].headlen \in Nat
      BY <1>8, Facts, SizeAssumption DEF WriteHeadFail, Return, Goto, Args
    <2>2. Zeros(args[c].headlen) \in Seq(Nat)
      BY <2>1, ZerosProps
    <2>3. QED
      BY <1>4, <1>8, <2>2 DEF WriteHeadFail, Writing
  <1>9. CASE ConvertFail(c)
    BY <1>2, <1>3, <1>9 DEF ConvertFail
  <1>10. CASE WriteChunkFail(c)
    <2>1. chunk[c] \in Seq(Nat)
      BY Facts
    <2>2. QED
      BY <1>4, <1>10, <2>1 DEF WriteChunkFail, Writing
  <1>11. CASE Finish(c)
    <2>1. outfilesize' \in [Caller -> Nat]
      BY <1>1, <1>11 DEF Finish, TypeOK
    <2>2. QED
      BY <1>1, <1>11, <2>1, QuietReturn DEF Finish, shared
  <1>12. QED
    BY <1>5, <1>6, <1>7, <1>8, <1>9, <1>10, <1>11

-----------------------------------------------------------------------------
(* The end of the loop *)

\* The buffer holds the bytes of the file behind p.pos, as many as there are
\* and it has room for.
LEMMA BufferProps ==
    ASSUME file \in Seq(Byte), NEW p \in Positions
    PROVE  /\ Buffer(p) \in Seq(Byte) /\ Len(Buffer(p)) \in Nat
           /\ Len(Buffer(p)) <= p.linesize
           /\ Buffer(p) # << >> => p.pos + Len(Buffer(p)) <= Len(file)
           /\ Len(Buffer(p)) < p.linesize => p.pos + Len(Buffer(p)) >= Len(file)
           /\ \A i \in 1..Len(Buffer(p)) : Buffer(p)[i] = file[p.pos + i]
  <1> DEFINE b == Buffer(p)
             e == MinOf(p.pos + p.linesize, Len(file))
  <1>1. /\ p.pos \in Nat /\ p.linesize \in Nat /\ Len(file) \in Nat
        /\ \A i \in 1..Len(file) : file[i] \in Byte
    BY LenProperties, ElementOfSeq DEF Positions
  <1>2. e \in Nat /\ e <= Len(file) /\ e <= p.pos + p.linesize
        /\ (e = Len(file) \/ e = p.pos + p.linesize)
    BY <1>1 DEF MinOf
  <1>3. b = SubSeq(file, p.pos + 1, e)
    BY DEF Buffer
  <1> HIDE DEF e, b
  <1>4. \A i \in (p.pos + 1)..e : file[i] \in Byte
    BY <1>1, <1>2
  <1>5. /\ b \in Seq(Byte)
        /\ Len(b) = IF p.pos + 1 <= e THEN e - (p.pos + 1) + 1 ELSE 0
        /\ \A i \in 1..(e - (p.pos + 1) + 1) : b[i] = file[p.pos + 1 + i - 1]
    <2>1. p.pos + 1 \in Int /\ e \in Int
      BY <1>1, <1>2
    <2>2. QED
      BY <1>3, <1>4, <2>1, SubSeqProperties
  <1>6. Len(b) = IF p.pos < e THEN e - p.pos ELSE 0
    BY <1>1, <1>2, <1>5
  <1>7. \A i \in 1..Len(b) : b[i] = file[p.pos + i]
    <2>1. TAKE i \in 1..Len(b)
    <2>2. p.pos + 1 + i - 1 = p.pos + i /\ i \in 1..(e - (p.pos + 1) + 1)
      BY <1>1, <1>2, <1>6
    <2>3. QED
      BY <1>5, <2>2
  <1>8. b # << >> => Len(b) # 0
    BY <1>5, EmptySeq
  <1>9. QED
    BY <1>1, <1>2, <1>5, <1>6, <1>7, <1>8, SMTT(30) DEF b

\* What the loop leaves when it ends: the files open, no chunk in hand.
LEMMA EndLoopProps ==
    ASSUME IInv, NEW c \in Caller, NEW r \in Int, EndLoop(c, r),
           NEW q \in Positions, q # Nil, cpos' = [cpos EXCEPT ![c] = q],
           r = CONV_FINISHED => (Roomy(cpos[c]) => Complete(c))'
    PROVE  IInv'
  <1>1. TypeOK /\ Local(c) /\ Exclusive
    BY DEF IInv
  <1>2. /\ pc[c] = "read" /\ pc' = [pc EXCEPT ![c] = "finish"]
        /\ ret' = [ret EXCEPT ![c] = r]
        /\ UNCHANGED <<file, disk, path, args, outfd, chunk, size, outfilesize>>
    BY DEF EndLoop, Goto, shared
  <1>3. TypeOK'
    BY <1>1, <1>2 DEF TypeOK, Pc
  <1>4. Exclusive' /\ file' = file
    BY <1>1, <1>2 DEF Exclusive
  <1>5. \A u \in Caller \ {c} : Same(u)
    BY <1>1, <1>2 DEF TypeOK, Same
  <1>6. Local(c)'
    <2>1. /\ pc'[c] = "finish" /\ cpos'[c] = q /\ args'[c] = args[c] /\ outfd'[c] = outfd[c]
          /\ chunk'[c] = chunk[c] /\ ret'[c] = r
      BY <1>1, <1>2 DEF TypeOK
    <2>2. Held(c)'
      BY <1>1, <1>2, <2>1 DEF Local, Held, Writing
    <2>3. Fresh(c)'
      BY <1>1, <1>2, <2>1 DEF Local, Fresh
    <2>4. Behind(c)' /\ Tiled(c)'
      BY <2>1 DEF Behind, Tiled
    <2>5. (Succeeds(c) /\ Roomy(cpos[c]) => Complete(c))'
      BY <2>1 DEF Succeeds
    <2>6. QED
      BY <2>2, <2>3, <2>4, <2>5 DEF Local
  <1>7. QED
    BY <1>3, <1>4, <1>5, <1>6, Others

\* What Tiled says before a chunk is read, about a rigid p.
LEMMA AtRead ==
    ASSUME IInv, NEW c \in Caller, pc[c] = "read"
    PROVE  /\ cpos[c] \in Positions /\ cpos[c] # Nil
           /\ args[c] \in Args /\ chunk[c] = << >>
           /\ cpos[c].offset <= cpos[c].pos
           /\ Roomy(cpos[c]) =>
                 /\ cpos[c].pos = cpos[c].offset
                 /\ Origin(c) \in Nat /\ Origin(c) <= cpos[c].offset
                 /\ (cpos[c].offset - Origin(c)) % Width(cpos[c].bom) = 0
                 /\ Border(c, cpos[c].offset)
                 /\ disk[outfd[c]] = Converted(c, cpos[c].offset)
                 /\ size[c] = cpos[c].offset - Origin(c)
  <1>1. /\ Local(c) /\ cpos[c] \in Positions /\ cpos[c] # Nil /\ args[c] \in Args
    BY Facts DEF Local, Held
  <1>2. chunk[c] = << >> /\ cpos[c].offset <= cpos[c].pos
    BY <1>1 DEF Local, Fresh, Behind
  <1>3. PICK n : n = cpos[c].offset
    OBVIOUS
  <1>4. n \in Nat
    BY <1>1, <1>3 DEF Positions
  <1>5. Len(chunk[c]) = 0 /\ n - 0 = n
    BY <1>2, <1>4
  <1>6. Origin(c) \in Nat
    <2>1. BomLen(cpos[c].bom) \in Nat
      BY WidthProps
    <2>2. args[c].inoffset \in Nat
      BY <1>1, SizeAssumption DEF Args
    <2>3. QED
      BY <2>1, <2>2 DEF Origin
  <1>7. QED
    BY <1>1, <1>2, <1>3, <1>5, <1>6 DEF Local, Tiled

\* The loop ends with an error, or at the end of the file.
LEMMA EndSteps ==
    ASSUME IInv, NEW c \in Caller, ReadFail(c) \/ ReadEnd(c) \/ ReadSeekFail(c)
    PROVE  IInv'
  <1>0. PICK p : p = cpos[c]
    OBVIOUS
  <1>1. /\ TypeOK /\ pc[c] = "read" /\ p \in Positions /\ p # Nil
        /\ file \in Seq(Byte) /\ Len(file) \in Nat
    <2>1. pc[c] = "read" /\ TypeOK
      BY DEF ReadFail, ReadEnd, ReadSeekFail, EndLoop, Goto, IInv
    <2>2. QED
      BY <1>0, <2>1, Facts, AtRead
  <1>2. cpos = [cpos EXCEPT ![c] = p]
    BY <1>0, <1>1 DEF TypeOK
  <1>3. CONVD_ERR_FILE \in Int /\ CONVD_ERR_FILE # CONV_FINISHED /\ CONV_FINISHED \in Int
    BY DEF CONVD_ERR_FILE, CONV_FINISHED
  <1>4. CASE ReadFail(c)
    <2>1. cpos' = [cpos EXCEPT ![c] = p] /\ EndLoop(c, CONVD_ERR_FILE)
      BY <1>2, <1>4 DEF ReadFail
    <2>2. QED
      BY <1>1, <1>3, <2>1, EndLoopProps
  <1>5. CASE ReadSeekFail(c)
    <2>1. ChunkLen(p.bom, Buffer(p)) \in Nat
      <3>1. Buffer(p) \in Seq(Byte) /\ Buffer(p) # << >> /\ Len(Buffer(p)) \in Nat
        BY <1>0, <1>1, <1>5, BufferProps DEF ReadSeekFail
      <3>2. QED
        BY <3>1, ChunkLenProps
    <2> DEFINE q == MovedTo(p, p.offset + ChunkLen(p.bom, Buffer(p)), p.pos)
    <2>2. cpos' = [cpos EXCEPT ![c] = q] /\ EndLoop(c, CONVD_ERR_FILE)
      BY <1>0, <1>5 DEF ReadSeekFail
    <2>3. q \in Positions /\ q # Nil
      <3>1. p.offset + ChunkLen(p.bom, Buffer(p)) \in Nat /\ p.pos \in Nat
        BY <1>1, <2>1 DEF Positions
      <3>2. \A a, b \in Nat : MovedTo(p, a, b) \in Positions /\ MovedTo(p, a, b) # Nil
        BY <1>1, Move, ZenonT(60)
      <3>3. QED
        BY <3>1, <3>2
    <2> HIDE DEF q
    <2>4. QED
      BY <1>3, <2>2, <2>3, EndLoopProps
  <1>6. CASE ReadEnd(c)
    <2> DEFINE b == Buffer(p)
               w == Width(p.bom)
    <2>1. /\ cpos' = cpos /\ EndLoop(c, CONV_FINISHED)
          /\ b # << >> => ChunkLen(p.bom, b) = 0
          /\ UNCHANGED <<file, disk, args, outfd>>
      BY <1>0, <1>6 DEF ReadEnd, EndLoop, shared
    <2>2. ASSUME Roomy(p) PROVE Len(file) - p.offset < w
      <3>1. /\ p.pos = p.offset /\ w \in {1, 2, 4} /\ p.linesize >= w
            /\ p.pos \in Nat /\ p.linesize \in Nat
        BY <1>0, <1>1, <2>2, AtRead, WidthProps DEF Roomy, Positions
      <3>2. /\ b \in Seq(Byte) /\ Len(b) \in Nat
            /\ Len(b) < p.linesize => p.pos + Len(b) >= Len(file)
        BY <1>1, BufferProps
      <3>3. Len(b) < w
        <4>1. CASE b = << >>
          BY <3>1, <4>1
        <4>2. CASE b # << >>
          <5>1. /\ Len(b) - 0 < w \/ w = 1
                /\ w = 1 => 0 > 0
            BY <2>1, <3>2, <4>2, ChunkLenProps
          <5>2. QED
            BY <3>2, <5>1
        <4>3. QED
          BY <4>1, <4>2
      <3> HIDE DEF b, w
      <3>4. QED
        BY <1>1, <3>1, <3>2, <3>3
    <2>3. Roomy(cpos[c]) => Complete(c)
      BY <1>0, <1>1, <2>2, AtRead DEF Complete
    <2>4. (Roomy(cpos[c]) => Complete(c))'
      BY <2>1, <2>3 DEF Roomy, Complete, Converted, Origin
    <2>5. cpos' = [cpos EXCEPT ![c] = p]
      BY <1>2, <2>1
    <2>6. QED
      BY <1>1, <1>3, <2>1, <2>4, <2>5, EndLoopProps
  <1>7. QED
    BY <1>4, <1>5, <1>6

-----------------------------------------------------------------------------
(* The loop *)

\* What the loop leaves when it has put n positions in the buffer.
LEMMA ToConvProps ==
    ASSUME IInv, NEW c \in Caller, Goto(c, "read", "conv"),
           NEW q \in Positions, q # Nil, cpos' = [cpos EXCEPT ![c] = q],
           NEW d \in Seq(0..Len(file)), chunk' = [chunk EXCEPT ![c] = d],
           UNCHANGED <<file, shared, args, outfd, size, ret, outfilesize>>,
           d # << >>, q.offset <= q.pos, q.pos <= Len(file), Tiled(c)'
    PROVE  IInv'
  <1>1. TypeOK /\ Local(c) /\ Exclusive
    BY DEF IInv
  <1>2. /\ pc[c] = "read" /\ pc' = [pc EXCEPT ![c] = "conv"]
        /\ UNCHANGED <<file, disk, path, args, outfd, size, ret, outfilesize>>
    BY DEF Goto, shared
  <1>3. TypeOK'
    BY <1>1, <1>2 DEF TypeOK, Pc
  <1>4. Exclusive' /\ file' = file
    BY <1>1, <1>2 DEF Exclusive
  <1>5. \A u \in Caller \ {c} : Same(u)
    BY <1>1, <1>2 DEF TypeOK, Same
  <1>6. Local(c)'
    <2>1. /\ pc'[c] = "conv" /\ cpos'[c] = q /\ args'[c] = args[c] /\ outfd'[c] = outfd[c]
          /\ chunk'[c] = d
      BY <1>1, <1>2 DEF TypeOK
    <2>2. Held(c)'
      BY <1>1, <1>2, <2>1 DEF Local, Held, Writing
    <2>3. Fresh(c)'
      BY <2>1 DEF Fresh
    <2>4. Behind(c)' /\ ~Succeeds(c)'
      BY <1>2, <2>1 DEF Behind, Succeeds
    <2>5. QED
      BY <2>2, <2>3, <2>4 DEF Local
  <1>7. QED
    BY <1>3, <1>4, <1>5, <1>6, Others

\* A buffer of a text with room enough is not filled by one run of bytes.
LEMMA NotInsufficient ==
    ASSUME file \in Seq(Byte), NEW p \in Positions, Roomy(p), BomLen(p.bom) <= p.pos,
           Buffer(p) # << >>
    PROVE  ~Insufficient(p, Buffer(p))
  <1> DEFINE b == Buffer(p)
             m == p.linesize
  <1>1. SUFFICES ASSUME Width(p.bom) = 1, SameBit7(b) = m
                 PROVE  FALSE
    BY DEF Insufficient
  <1>2. /\ b \in Seq(Byte) /\ Len(b) \in Nat /\ Len(b) <= m
        /\ p.pos + Len(b) <= Len(file)
        /\ \A i \in 1..Len(b) : b[i] = file[p.pos + i]
    BY BufferProps
  <1>3. /\ SameBit7(b) \in 1..Len(b)
        /\ \A i \in 1..SameBit7(b) : HasBit7(b[i]) = HasBit7(b[1])
    BY <1>2, SameBit7Props
  <1>4. p.pos \in Nat /\ m \in Nat /\ Len(file) \in Nat /\ BomLen(p.bom) \in Nat
    BY LenProperties, WidthProps DEF Positions
  <1>5. PICK n : n = p.pos
    OBVIOUS
  <1>6. n \in BomLen(p.bom)..(Len(file) - m)
    BY <1>1, <1>2, <1>3, <1>4, <1>5
  <1>7. PICK j \in (n + 1)..(n + m), k \in (n + 1)..(n + m) : HasBit7(file[j]) # HasBit7(file[k])
    BY <1>1, <1>6 DEF Roomy
  <1> HIDE DEF b, m
  <1>8. ASSUME NEW i \in (n + 1)..(n + m) PROVE HasBit7(file[i]) = HasBit7(b[1])
    <2> DEFINE l == i - n
    <2>1. l \in 1..m /\ n + l = i /\ m <= Len(b) /\ m = SameBit7(b)
      BY <1>1, <1>2, <1>3, <1>4, <1>5
    <2>2. l \in 1..Len(b) /\ l \in 1..SameBit7(b)
      BY <1>2, <1>4, <2>1
    <2> HIDE DEF l
    <2>3. b[l] = file[i] /\ HasBit7(b[l]) = HasBit7(b[1])
      BY <1>2, <1>3, <1>5, <2>1, <2>2
    <2>4. QED
      BY <2>3
  <1>9. QED
    BY <1>7, <1>8

\* A full buffer of one run: only a text without room enough has one.
LEMMA ReadInsufficientStep ==
    ASSUME IInv, NEW c \in Caller, ReadInsufficient(c)
    PROVE  IInv'
  <1>0. PICK p : p = cpos[c]
    OBVIOUS
  <1> DEFINE b == Buffer(p)
             m == p.linesize
             q == MovedTo(p, p.offset, p.pos + Len(b))
             d == [i \in 1..CONVD_ERR_INSUFF |-> IF i <= m THEN p.pos + i ELSE 0]
  <1>1. /\ Goto(c, "read", "conv") /\ b # << >> /\ Insufficient(p, b)
        /\ cpos' = [cpos EXCEPT ![c] = q] /\ chunk' = [chunk EXCEPT ![c] = d]
        /\ UNCHANGED <<file, shared, args, outfd, size, ret, outfilesize>>
    BY <1>0 DEF ReadInsufficient
  <1>2. /\ p \in Positions /\ file \in Seq(Byte) /\ Len(file) \in Nat /\ p.offset <= p.pos
    BY <1>0, <1>1, AtRead, Facts DEF Goto
  <1>3. p.pos \in Nat /\ p.offset \in Nat /\ m \in Nat
    BY <1>2 DEF Positions
  <1>4. b \in Seq(Byte) /\ Len(b) \in Nat /\ p.pos + Len(b) <= Len(file)
    BY <1>1, <1>2, BufferProps
  <1>5. m <= Len(b)
    BY <1>1, <1>4, SameBit7Props DEF Insufficient
  <1>6. /\ q \in Positions /\ q # Nil /\ q.bom = p.bom /\ q.linesize = m
        /\ q.offset = p.offset /\ q.pos = p.pos + Len(b)
    <2>1. \A x, y \in Nat :
            /\ MovedTo(p, x, y) \in Positions /\ MovedTo(p, x, y) # Nil
            /\ MovedTo(p, x, y).bom = p.bom /\ MovedTo(p, x, y).linesize = m
            /\ MovedTo(p, x, y).offset = x /\ MovedTo(p, x, y).pos = y
      BY <1>2, Move
    <2>2. p.pos + Len(b) \in Nat
      BY <1>3, <1>4
    <2>3. QED
      BY <1>3, <2>1, <2>2
  <1>7. d \in Seq(0..Len(file)) /\ d # << >>
    <2>1. \A i \in 1..CONVD_ERR_INSUFF :
            (IF i <= m THEN p.pos + i ELSE 0) \in 0..Len(file)
      <3>1. CONVD_ERR_INSUFF = 5
        BY DEF CONVD_ERR_INSUFF
      <3>2. PICK n, f : n = p.pos /\ f = Len(file)
        OBVIOUS
      <3>3. n \in Nat /\ m \in Nat /\ f \in Nat /\ n + m <= f
        BY <1>2, <1>3, <1>4, <1>5, <3>2
      <3> HIDE DEF m
      <3>4. QED
        BY <3>1, <3>2, <3>3
    <2>2. CONVD_ERR_INSUFF \in Nat /\ CONVD_ERR_INSUFF > 0
      BY DEF CONVD_ERR_INSUFF
    <2>3. d \in Seq(0..Len(file)) /\ Len(d) > 0
      BY <2>1, <2>2
    <2> HIDE DEF d
    <2>4. QED
      BY <2>3, EmptySeq
  <1>8. ~Roomy(q)
    <2>1. Roomy(p) => BomLen(p.bom) <= p.pos
      <3>1. Roomy(p) => Origin(c) <= p.pos
        BY <1>0, <1>1, AtRead DEF Goto
      <3>2. args[c].inoffset \in Nat /\ BomLen(p.bom) \in Nat
        BY <1>1, AtRead, WidthProps, SizeAssumption DEF Goto, Args
      <3>3. Origin(c) = BomLen(p.bom) + args[c].inoffset
        BY <1>0 DEF Origin
      <3>4. QED
        BY <1>3, <3>1, <3>2, <3>3
    <2>2. ~Roomy(p)
      BY <1>1, <1>2, <2>1, NotInsufficient
    <2> HIDE DEF q
    <2>3. QED
      BY <1>6, <2>2 DEF Roomy
  <1> HIDE DEF q, d, b, m
  <1>9. Tiled(c)'
    <2>1. TypeOK
      BY DEF IInv
    <2>2. cpos'[c] = q /\ file' = file
      BY <1>1, <2>1 DEF TypeOK
    <2>3. ~Roomy(cpos[c])'
      BY <1>8, <2>2 DEF Roomy
    <2>4. QED
      BY <2>3 DEF Tiled
  <1>10. q.offset <= q.pos /\ q.pos <= Len(file)
    BY <1>2, <1>3, <1>4, <1>6
  <1>11. QED
    BY <1>1, <1>6, <1>7, <1>9, <1>10, ToConvProps

\* A chunk lies behind the offset, ends at a border and consists of whole units.
LEMMA ReadChunkStep ==
    ASSUME IInv, NEW c \in Caller, ReadChunk(c)
    PROVE  IInv'
  <1>0. PICK p, b, w : p = cpos[c] /\ b = Buffer(p) /\ w = Width(p.bom)
    OBVIOUS
  <1>1. PICK n : n = ChunkLen(p.bom, b)
    OBVIOUS
  <1> DEFINE q == MovedTo(p, p.offset + n, p.offset + n)
             d == HostOrder(p.bom, p.pos, n)
  <1>2. /\ Goto(c, "read", "conv") /\ b # << >> /\ ~Insufficient(p, b) /\ n > 0
        /\ cpos' = [cpos EXCEPT ![c] = q] /\ chunk' = [chunk EXCEPT ![c] = d]
        /\ UNCHANGED <<file, shared, args, outfd, size, ret, outfilesize>>
    BY <1>0, <1>1 DEF ReadChunk
  <1>3. /\ p \in Positions /\ file \in Seq(Byte) /\ Len(file) \in Nat /\ p.offset <= p.pos
    BY <1>0, <1>2, AtRead, Facts DEF Goto
  <1>4. p.pos \in Nat /\ p.offset \in Nat /\ p.linesize \in Nat
    BY <1>3 DEF Positions
  <1>5. /\ b \in Seq(Byte) /\ Len(b) \in Nat /\ p.pos + Len(b) <= Len(file)
        /\ Len(b) <= p.linesize
        /\ Len(b) < p.linesize => p.pos + Len(b) >= Len(file)
        /\ \A i \in 1..Len(b) : b[i] = file[p.pos + i]
    BY <1>0, <1>2, <1>3, BufferProps
  <1>6. /\ n \in Nat /\ n > 0 /\ n <= Len(b) /\ n % w = 0 /\ w \in {1, 2, 4}
        /\ w = 1 => n = SameBit7(b)
    <2>1. n \in 0..Len(b) /\ n % Width(p.bom) = 0 /\ (Width(p.bom) = 1 => n = SameBit7(b))
      BY <1>1, <1>2, <1>5, ChunkLenProps
    <2>2. QED
      BY <1>0, <1>2, <1>5, <2>1, WidthProps
  <1>7. /\ q \in Positions /\ q # Nil /\ q.bom = p.bom /\ q.linesize = p.linesize
        /\ q.offset = p.offset + n /\ q.pos = p.offset + n
    <2>1. \A x, y \in Nat :
            /\ MovedTo(p, x, y) \in Positions /\ MovedTo(p, x, y) # Nil
            /\ MovedTo(p, x, y).bom = p.bom /\ MovedTo(p, x, y).linesize = p.linesize
            /\ MovedTo(p, x, y).offset = x /\ MovedTo(p, x, y).pos = y
      BY <1>3, Move
    <2>2. p.offset + n \in Nat
      BY <1>4, <1>6
    <2>3. QED
      BY <2>1, <2>2
  <1>8. d \in Seq(0..Len(file)) /\ Len(d) = n
    <2>1. /\ d \in Seq(Nat) /\ Len(d) = n
          /\ \A i \in 1..n : d[i] \in (p.pos + 1)..(p.pos + n)
      BY <1>0, <1>4, <1>6, HostOrderProps, ZenonT(60)
    <2> HIDE DEF d
    <2>2. \A i \in 1..n : d[i] \in 0..Len(file)
      BY <1>3, <1>4, <1>5, <1>6, <2>1, SMTT(30)
    <2>3. d = [i \in 1..n |-> d[i]]
      BY <2>1
    <2>4. QED
      BY <1>6, <2>1, <2>2, <2>3
  <1> HIDE DEF q
  <1>9. q.offset <= q.pos /\ q.pos <= Len(file)
    BY <1>3, <1>4, <1>5, <1>6, <1>7
  <1>10. Tiled(c)'
    <2>1. /\ cpos'[c] = q /\ chunk'[c] = d /\ args'[c] = args[c] /\ file' = file
          /\ disk'[outfd'[c]] = disk[outfd[c]] /\ size'[c] = size[c]
      <3>1. TypeOK
        BY DEF IInv
      <3>2. QED
        BY <1>2, <3>1 DEF TypeOK, shared
    <2>2. PICK o, g : o = p.offset /\ g = Origin(c)
      OBVIOUS
    <2>3. /\ Origin(c)' = g
          /\ Converted(c, o)' = Converted(c, o)
          /\ Border(c, o)' = Border(c, o)
      <3>1. Origin(c)' = Origin(c)
        BY <1>0, <1>7, <2>1 DEF Origin
      <3>2. QED
        BY <1>0, <1>7, <2>1, <2>2, <3>1 DEF Converted, Border
    <2>4. SUFFICES ASSUME Roomy(cpos[c])'
                   PROVE  /\ q.pos = q.offset
                          /\ g <= o
                          /\ (o - g) % w = 0 /\ n % w = 0
                          /\ Border(c, o)' /\ Border(c, q.offset)'
                          /\ disk'[outfd'[c]] = Converted(c, o)'
                          /\ d = HostOrder(q.bom, o, n)
                          /\ size'[c] = o - g
      <3>1. q.offset - Len(d) = o
        BY <1>4, <1>6, <1>7, <1>8, <2>2
      <3> HIDE DEF d
      <3>2. QED
        BY <1>0, <1>7, <1>8, <2>1, <2>2, <2>3, <3>1 DEF Tiled
    <2>5. Roomy(p)
      BY <1>7, <2>1, <2>4 DEF Roomy
    <2>6. /\ p.pos = o /\ g \in Nat /\ g <= o /\ (o - g) % w = 0 /\ Border(c, o)
          /\ disk[outfd[c]] = Converted(c, o) /\ size[c] = o - g
      BY <1>0, <1>2, <2>2, <2>5, AtRead DEF Goto
    <2>7. Border(c, q.offset)'
      <3>1. SUFFICES ASSUME w = 1, o + n < Len(file)
                     PROVE  HasBit7(file[o + n]) # HasBit7(file[(o + n) + 1])
        BY <1>0, <1>3, <1>4, <1>6, <1>7, <2>1, <2>2 DEF Border
      <3>2. /\ SameBit7(b) = n
            /\ \A i \in 1..n : HasBit7(b[i]) = HasBit7(b[1])
            /\ n < Len(b) => HasBit7(b[n + 1]) # HasBit7(b[1])
        BY <1>2, <1>5, <1>6, <3>1, SameBit7Props
      <3>3. n < Len(b)
        <4>1. n # p.linesize
          BY <1>0, <1>2, <3>1, <3>2 DEF Insufficient
        <4>2. SUFFICES ASSUME n = Len(b) PROVE FALSE
          BY <1>5, <1>6
        <4>3. p.pos + Len(b) >= Len(file)
          BY <1>4, <1>5, <4>1, <4>2
        <4>4. QED
          BY <1>3, <1>4, <1>5, <2>6, <3>1, <4>2, <4>3
      <3>4. b[n] = file[o + n] /\ b[n + 1] = file[(o + n) + 1]
        <4>1. n \in 1..Len(b) /\ n + 1 \in 1..Len(b) /\ o + (n + 1) = (o + n) + 1
          <5>1. n \in Nat /\ n > 0 /\ o \in Nat /\ Len(b) \in Nat
            BY <1>4, <1>5, <1>6, <2>2
          <5>2. QED
            BY <3>3, <5>1
        <4>2. QED
          BY <1>5, <2>6, <4>1
      <3>5. HasBit7(b[n]) = HasBit7(b[1])
        BY <1>6, <3>2
      <3>6. QED
        BY <3>2, <3>3, <3>4, <3>5
    <2>8. QED
      BY <1>6, <1>7, <2>1, <2>2, <2>3, <2>6, <2>7
  <1> HIDE DEF d
  <1>11. QED
    <2>1. d # << >>
      <3>1. Len(<< >>) = 0
        OBVIOUS
      <3>2. QED
        BY <1>6, <1>8, <3>1
    <2>2. QED
      BY <1>2, <1>7, <1>8, <1>9, <1>10, <2>1, ToConvProps

\* iconv takes the chunk: nothing that the invariant speaks of moves.
LEMMA ConvertStep ==
    ASSUME IInv, NEW c \in Caller, Convert(c)
    PROVE  IInv'
  <1>1. TypeOK /\ Local(c) /\ Exclusive
    BY DEF IInv
  <1>2. /\ pc[c] = "conv" /\ pc' = [pc EXCEPT ![c] = "write"]
        /\ UNCHANGED <<file, disk, path, args, cpos, outfd, chunk, size, ret, outfilesize>>
    BY DEF Convert, Goto, shared
  <1>3. TypeOK'
    BY <1>1, <1>2 DEF TypeOK, Pc
  <1>4. Exclusive' /\ file' = file
    BY <1>1, <1>2 DEF Exclusive
  <1>5. \A u \in Caller \ {c} : Same(u)
    BY <1>1, <1>2 DEF TypeOK, Same
  <1>6. Local(c)'
    <2>1. pc'[c] = "write"
      BY <1>1, <1>2 DEF TypeOK
    <2>2. Held(c)' /\ Fresh(c)' /\ Behind(c)' /\ ~Succeeds(c)'
      BY <1>1, <1>2, <2>1 DEF Local, Held, Fresh, Behind, Succeeds, Writing
    <2>3. /\ Roomy(cpos[c])' = Roomy(cpos[c]) /\ Origin(c)' = Origin(c)
          /\ \A n : Converted(c, n)' = Converted(c, n) /\ Border(c, n)' = Border(c, n)
      <3>1. Roomy(cpos[c])' = Roomy(cpos[c]) /\ Origin(c)' = Origin(c)
        BY <1>2 DEF Roomy, Origin
      <3>2. QED
        BY <1>2, <3>1 DEF Converted, Border
    <2>4. Tiled(c)'
      BY <1>1, <1>2, <2>1, <2>3 DEF Local, Tiled
    <2>5. QED
      BY <2>2, <2>4 DEF Local
  <1>7. QED
    BY <1>3, <1>4, <1>5, <1>6, Others

\* No positions in host order are none.
LEMMA HostOrderEmpty ==
    ASSUME NEW bom, NEW base \in Nat
    PROVE  HostOrder(bom, base, 0) = << >>
  <1>1. 0 % Width(bom) = 0
    BY WidthProps
  <1>2. HostOrder(bom, base, 0) \in Seq(Nat) /\ Len(HostOrder(bom, base, 0)) = 0
    BY <1>1, HostOrderProps
  <1>3. QED
    BY <1>2, EmptySeq

\* Two stretches of whole units have whole units together.
LEMMA UnitsAdd ==
    ASSUME NEW bom, NEW m \in Nat, NEW n \in Nat, m % Width(bom) = 0, n % Width(bom) = 0
    PROVE  (m + n) % Width(bom) = 0
  <1>1. CASE Width(bom) = 1
    BY <1>1
  <1>2. CASE Width(bom) = 2
    BY <1>2
  <1>3. CASE Width(bom) = 4
    BY <1>3
  <1>4. QED
    BY <1>1, <1>2, <1>3, WidthProps

\* Concatenation is associative.
LEMMA Associative ==
    ASSUME NEW s \in Seq(Nat), NEW t \in Seq(Nat), NEW u \in Seq(Nat)
    PROVE  (s \o t) \o u = s \o (t \o u)
  BY ConcatAssociative, SMTT(30)

\* Chunks of whole units, one behind the other, make the output.
LEMMA ConvertedGrows ==
    ASSUME NEW c \in Caller, Origin(c) \in Nat, args[c].headlen \in Nat,
           NEW start \in Nat, NEW n \in Nat, Origin(c) <= start,
           (start - Origin(c)) % Width(cpos[c].bom) = 0, n % Width(cpos[c].bom) = 0
    PROVE  /\ Converted(c, start) \o HostOrder(cpos[c].bom, start, n) = Converted(c, start + n)
           /\ (start + n - Origin(c)) % Width(cpos[c].bom) = 0
  <1>0. PICK bom, g, head, m :
          bom = cpos[c].bom /\ g = Origin(c) /\ head = Zeros(args[c].headlen) /\ m = start - g
    OBVIOUS
  <1>1. m \in Nat /\ g \in Nat /\ start = g + m /\ start + n - g = m + n
    BY <1>0
  <1>2. m % Width(bom) = 0 /\ n % Width(bom) = 0
    BY <1>0
  <1>3. head \in Seq(Nat)
    BY <1>0, ZerosProps
  <1>4. (m + n) % Width(bom) = 0
    BY <1>1, <1>2, UnitsAdd
  <1>5. PICK x, y : x = HostOrder(bom, g, m) /\ y = HostOrder(bom, g + m, n)
    OBVIOUS
  <1>6. x \in Seq(Nat) /\ y \in Seq(Nat)
    <2>1. m \in Nat /\ g \in Nat /\ g + m \in Nat
      BY <1>1
    <2>2. QED
      BY <1>2, <1>5, <2>1, HostOrderProps
  <1>7. (head \o x) \o y = head \o (x \o y)
    BY <1>3, <1>6, Associative, Zenon
  <1>8. x \o y = HostOrder(bom, g, m + n)
    <2>1. m \in Nat /\ g \in Nat
      BY <1>1
    <2>2. HostOrder(bom, g, m) \o HostOrder(bom, g + m, n) = HostOrder(bom, g, m + n)
      BY <1>2, <2>1, HostOrderConcat, ZenonT(60)
    <2>3. QED
      BY <1>5, <2>2
  <1>9. /\ Converted(c, start) = head \o x
        /\ Converted(c, start + n) = head \o HostOrder(bom, g, m + n)
    <2>1. /\ Converted(c, start) = head \o HostOrder(bom, g, start - g)
          /\ Converted(c, start + n) = head \o HostOrder(bom, g, (start + n) - g)
      BY <1>0 DEF Converted
    <2>2. start - g = m /\ (start + n) - g = m + n
      BY <1>0, <1>1
    <2>3. QED
      BY <1>5, <2>1, <2>2
  <1>10. y = HostOrder(bom, start, n)
    BY <1>1, <1>5
  <1>11. QED
    BY <1>0, <1>1, <1>4, <1>7, <1>8, <1>9, <1>10

\* The chunk is written behind the others.
LEMMA WriteChunkStep ==
    ASSUME IInv, NEW c \in Caller, WriteChunk(c)
    PROVE  IInv'
  <1>0. PICK p, n, d : p = cpos[c] /\ d = chunk[c] /\ n = Len(d)
    OBVIOUS
  <1>1. TypeOK /\ Local(c) /\ Exclusive
    BY DEF IInv
  <1>2. /\ pc[c] = "write" /\ pc' = [pc EXCEPT ![c] = "read"]
        /\ Written(c, d)
        /\ size' = [size EXCEPT ![c] = size[c] + n]
        /\ chunk' = [chunk EXCEPT ![c] = << >>]
        /\ UNCHANGED <<file, path, args, cpos, outfd, ret, outfilesize>>
    BY <1>0 DEF WriteChunk, Goto
  <1>3. /\ p \in Positions /\ outfd[c] \in Inode /\ pc[c] \in Writing /\ args[c] \in Args
        /\ d \in Seq(Nat) /\ n \in Nat /\ size[c] \in Nat
    BY <1>0, <1>2, Facts DEF Writing
  <1>4. /\ disk' \in [Inode -> Seq(Nat)]
        /\ disk'[outfd[c]] = disk[outfd[c]] \o d
        /\ \A i \in Inode : i # outfd[c] => disk'[i] = disk[i]
    BY <1>2, <1>3, WrittenFrame
  <1>5. TypeOK'
    <2>1. size[c] + n \in Nat
      BY <1>3
    <2>2. << >> \in Seq(0..Len(file))
      OBVIOUS
    <2>3. QED
      BY <1>1, <1>2, <1>4, <2>1, <2>2 DEF TypeOK, Pc
  <1>6. Exclusive' /\ file' = file
    BY <1>1, <1>2 DEF Exclusive
  <1>7. \A u \in Caller \ {c} : Same(u)
    BY <1>1, <1>2, <1>4 DEF TypeOK, Same, Exclusive
  <1>8. Local(c)'
    <2>1. /\ pc'[c] = "read" /\ cpos'[c] = p /\ args'[c] = args[c] /\ outfd'[c] = outfd[c]
          /\ chunk'[c] = << >> /\ size'[c] = size[c] + n
      BY <1>0, <1>1, <1>2 DEF TypeOK
    <2>2. Held(c)'
      BY <1>0, <1>1, <1>2, <2>1 DEF Local, Held, Writing
    <2>3. Fresh(c)' /\ ~Succeeds(c)'
      BY <2>1 DEF Fresh, Succeeds
    <2>4. Behind(c)'
      BY <1>0, <1>1, <1>2, <2>1 DEF Local, Behind
    <2>5. Tiled(c)'
      <3>1. PICK o, g, w : o = p.offset /\ g = Origin(c) /\ w = Width(p.bom)
        OBVIOUS
      <3>2. /\ Origin(c)' = g
            /\ Converted(c, o)' = Converted(c, o)
            /\ Border(c, o)' = Border(c, o)
            /\ Roomy(cpos[c])' = Roomy(p)
        <4>1. Origin(c)' = Origin(c) /\ cpos'[c] = cpos[c]
          BY <1>2 DEF Origin
        <4>2. QED
          BY <1>0, <1>2, <3>1, <4>1 DEF Converted, Border, Roomy
      <3>3. SUFFICES ASSUME Roomy(p)
                     PROVE  /\ p.pos = o
                            /\ g <= o
                            /\ (o - g) % w = 0 /\ 0 % w = 0
                            /\ Border(c, o)
                            /\ disk'[outfd[c]] = Converted(c, o)
                            /\ << >> = HostOrder(p.bom, o, 0)
                            /\ size'[c] = o - g
        <4>1. o \in Nat
          BY <1>3, <3>1 DEF Positions
        <4>2. Len(<< >>) = 0 /\ o - 0 = o
          BY <4>1
        <4>3. QED
          BY <2>1, <3>1, <3>2, <4>2 DEF Tiled
      <3>4. PICK start : start = o - n
        OBVIOUS
      <3>5. /\ p.pos = o /\ g <= start /\ (start - g) % w = 0 /\ n % w = 0
            /\ Border(c, o)
            /\ disk[outfd[c]] = Converted(c, start)
            /\ d = HostOrder(p.bom, start, n)
            /\ size[c] = start - g
        BY <1>0, <1>1, <1>2, <3>1, <3>3, <3>4 DEF Local, Tiled
      <3>6. g \in Nat /\ args[c].headlen \in Nat
        <4>1. BomLen(p.bom) \in Nat
          BY WidthProps
        <4>2. args[c].inoffset \in Nat /\ args[c].headlen \in Nat
          BY <1>3, SizeAssumption DEF Args
        <4>3. QED
          BY <1>0, <3>1, <4>1, <4>2 DEF Origin
      <3>7. start \in Nat /\ start + n = o /\ o \in Nat
        <4>1. o \in Nat
          BY <1>3, <3>1 DEF Positions
        <4>2. QED
          BY <1>3, <3>4, <3>5, <3>6, <4>1
      <3>8. /\ Converted(c, start) \o HostOrder(cpos[c].bom, start, n) = Converted(c, start + n)
            /\ (start + n - Origin(c)) % Width(cpos[c].bom) = 0
        <4>1. /\ Origin(c) \in Nat /\ Origin(c) <= start
              /\ (start - Origin(c)) % Width(cpos[c].bom) = 0 /\ n % Width(cpos[c].bom) = 0
          BY <1>0, <3>1, <3>5, <3>6
        <4>2. QED
          BY <1>3, <3>6, <3>7, <4>1, ConvertedGrows
      <3>9. 0 % w = 0
        BY <3>1, WidthProps
      <3>10. HostOrder(p.bom, o, 0) = << >>
        BY <3>7, HostOrderEmpty
      <3>11. size'[c] = o - g
        BY <1>3, <2>1, <3>5, <3>6, <3>7
      <3>12. disk'[outfd[c]] = Converted(c, o)
        BY <1>0, <1>4, <3>5, <3>7, <3>8
      <3>13. (o - g) % w = 0 /\ g <= o
        <4>1. PICK m \in Nat : m = start - g
          BY <3>5, <3>6, <3>7
        <4>2. n \in Nat
          BY <1>3
        <4>3. m + n = o - g /\ g <= o
          BY <3>5, <3>6, <3>7, <4>1, <4>2
        <4>4. m % Width(p.bom) = 0 /\ n % Width(p.bom) = 0
          BY <3>1, <3>5, <4>1
        <4>5. (m + n) % Width(p.bom) = 0
          BY <4>1, <4>2, <4>4, UnitsAdd
        <4>6. QED
          BY <3>1, <4>3, <4>5
      <3>14. QED
        BY <3>5, <3>9, <3>10, <3>11, <3>12, <3>13
    <2>6. QED
      BY <2>2, <2>3, <2>4, <2>5 DEF Local
  <1>9. QED
    BY <1>5, <1>6, <1>7, <1>8, Others

\* Who has the removed file open keeps it.
LEMMA RemoveOutStep ==
    ASSUME IInv, RemoveOut
    PROVE  IInv'
  <1>1. TypeOK /\ Exclusive
    BY DEF IInv
  <1>2. TypeOK'
    <2>1. << >> \in Seq(Nat)
      OBVIOUS
    <2>2. QED
      BY <1>1, <2>1 DEF TypeOK, RemoveOut
  <1>3. Exclusive'
    BY <1>1 DEF Exclusive, RemoveOut
  <1>4. ASSUME NEW u \in Caller PROVE Local(u)'
    <2>1. Same(u) /\ file' = file
      BY <1>1 DEF TypeOK, Same, RemoveOut
    <2>2. QED
      BY <2>1, SameLocal DEF IInv
  <1>5. QED
    BY <1>2, <1>3, <1>4 DEF IInv

-----------------------------------------------------------------------------
(* The invariant is inductive *)

\* Initially all callers are idle.
LEMMA InitIInv == Init => IInv
  <1> SUFFICES ASSUME Init PROVE IInv
    OBVIOUS
  <1>1. TypeOK
    <2>1. << >> \in Seq(Nat) /\ << >> \in Seq(0..Len(file)) /\ CONVD_NOERROR \in Int
      BY DEF CONVD_NOERROR
    <2>2. QED
      BY <2>1 DEF Init, TypeOK, Pc
  <1>2. Exclusive
    BY DEF Init, Exclusive
  <1>3. ASSUME NEW c \in Caller PROVE Local(c)
    <2>1. /\ pc[c] = "idle" /\ args[c] = Nil /\ cpos[c] = Nil /\ outfd[c] = NoFile
          /\ chunk[c] = << >> /\ size[c] = 0
      BY DEF Init
    <2>2. QED
      BY <2>1 DEF Local, Held, Fresh, Behind, Tiled, Succeeds, Writing
  <1>4. QED
    BY <1>1, <1>2, <1>3 DEF IInv

\* Every step keeps the invariant.
LEMMA NextIInv == IInv /\ [Next]_vars => IInv'
  <1> SUFFICES ASSUME IInv, [Next]_vars PROVE IInv'
    OBVIOUS
  <1>1. ASSUME NEW c \in Caller, Step(c) PROVE IInv'
    <2>1. CASE \/ OpenFail(c) \/ OpenAsk(c) \/ CreateOutFail(c) \/ WriteHeadFail(c)
               \/ ConvertFail(c) \/ WriteChunkFail(c) \/ Finish(c)
      BY <2>1, ReturnSteps
    <2>2. CASE ReadOpen(c)
      BY <2>2, ReadOpenStep
    <2>3. CASE CreateOut(c)
      BY <2>3, CreateOutStep
    <2>4. CASE WriteHead(c)
      BY <2>4, WriteHeadStep
    <2>5. CASE ReadFail(c) \/ ReadEnd(c) \/ ReadSeekFail(c)
      BY <2>5, EndSteps
    <2>6. CASE ReadInsufficient(c)
      BY <2>6, ReadInsufficientStep
    <2>7. CASE ReadChunk(c)
      BY <2>7, ReadChunkStep
    <2>8. CASE Convert(c)
      BY <2>8, ConvertStep
    <2>9. CASE WriteChunk(c)
      BY <2>9, WriteChunkStep
    <2>10. QED
      BY <1>1, <2>1, <2>2, <2>3, <2>4, <2>5, <2>6, <2>7, <2>8, <2>9 DEF Step
  <1>2. ASSUME NEW c \in Caller, NEW a \in Args, Start(c, a) PROVE IInv'
    BY <1>2, StartStep
  <1>3. CASE RemoveOut
    BY <1>3, RemoveOutStep
  <1>4. CASE UNCHANGED vars
    <2>1. ASSUME NEW u \in Caller PROVE Local(u)'
      <3>1. Same(u) /\ file' = file
        BY <1>4 DEF Same, vars, shared
      <3>2. QED
        BY <3>1, SameLocal DEF IInv
    <2>2. TypeOK' /\ Exclusive'
      BY <1>4 DEF IInv, TypeOK, Exclusive, vars, shared
    <2>3. QED
      BY <2>1, <2>2 DEF IInv
  <1>5. QED
    BY <1>1, <1>2, <1>3, <1>4 DEF Next

\* The inductive invariant of convd_conv_file holds in every reachable state.
THEOREM ConvFileInvariance == Spec => []IInv
  <1>1. QED
    BY InitIInv, NextIInv, PTL DEF Spec

-----------------------------------------------------------------------------
(* What the invariant implies *)

\* Every variable has its type; a chunk never reaches beyond the end of the file.
THEOREM ConvFileTypeCorrect == Spec => []TypeOK
  <1>1. IInv => TypeOK
    BY DEF IInv
  <1>2. QED
    BY <1>1, ConvFileInvariance, PTL

\* On every path a call gives back its convpos_t and its files, and no two calls
\* have the same output file, whoever removes it from the path.
THEOREM ConvFileReleased == Spec => []Released
  <1>1. IInv => Released
    BY DEF IInv, Exclusive, Local, Held, Released
  <1>2. QED
    BY <1>1, ConvFileInvariance, PTL

\* With room enough, the output is at every turn of the loop the head and the
\* bytes of the input up to the chunk in hand, in host order.
THEOREM ConvFileFaithful == Spec => []Faithful
  <1>1. IInv => Faithful
    BY DEF IInv, Local, Tiled, Faithful
  <1>2. QED
    BY <1>1, ConvFileInvariance, PTL

\* With room enough, the loop ends with CONV_FINISHED only when all of the input
\* is converted, whatever system call failed.
THEOREM ConvFileComplete == Spec => []CompleteWhenRoomy
  <1>1. IInv => CompleteWhenRoomy
    BY DEF IInv, Local, CompleteWhenRoomy
  <1>2. QED
    BY <1>1, ConvFileInvariance, PTL

\* A stretch of whole units within another one: its bytes are a part of the
\* bytes of the other.
LEMMA PartOfText ==
    ASSUME file \in Seq(Byte), NEW bom, NEW g \in Nat, NEW m \in Nat, NEW n \in Nat, NEW l \in Nat,
           m % Width(bom) = 0, n % Width(bom) = 0, l % Width(bom) = 0,
           m + n <= l, g + l <= Len(file)
    PROVE  /\ Bytes(HostOrder(bom, g, l)) \in Seq(Byte)
           /\ Len(Bytes(HostOrder(bom, g, l))) = l
           /\ Bytes(HostOrder(bom, g + m, n)) = SubSeq(Bytes(HostOrder(bom, g, l)), m + 1, m + n)
  <1>1. PICK x, y : x = HostOrder(bom, g, l) /\ y = HostOrder(bom, g + m, n)
    OBVIOUS
  <1>2. /\ x \in Seq(Nat) /\ Len(x) = l
        /\ \A i \in 1..l : x[i] \in (g + 1)..(g + l)
    BY <1>1, HostOrderProps
  <1>3. y \in Seq(Nat) /\ Len(y) = n
    <2>1. g + m \in Nat
      OBVIOUS
    <2>2. QED
      BY <1>1, <2>1, HostOrderProps
  <1>4. Len(file) \in Nat /\ \A i \in 1..Len(file) : file[i] \in Byte
    BY LenProperties, ElementOfSeq
  <1>5. \A i \in 1..l : file[x[i]] \in Byte
    BY <1>2, <1>4
  <1>6. PICK t, u : t = Bytes(x) /\ u = Bytes(y)
    OBVIOUS
  <1>7. /\ t \in Seq(Byte) /\ Len(t) = l /\ \A i \in 1..l : t[i] = file[x[i]]
        /\ u = [i \in 1..n |-> file[y[i]]]
    BY <1>2, <1>3, <1>5, <1>6 DEF Bytes
  <1>8. \A i \in 1..n : y[i] = x[m + i]
    <2> DEFINE w == IF bom \in {"2be", "4be"} THEN Width(bom) ELSE 1
               f(b, i) == b + (w * ((i - 1) \div w)) + w - ((i - 1) % w)
    <2>1. x = [i \in 1..l |-> f(g, i)] /\ y = [i \in 1..n |-> f(g + m, i)]
      BY <1>1 DEF HostOrder
    <2>2. w \in {1, 2, 4} /\ m % w = 0
      BY WidthProps
    <2>3. \A i \in 1..n : f(g + m, i) = f(g, m + i)
      <3> HIDE DEF w
      <3>1. CASE w = 1
        BY <2>2, <3>1
      <3>2. CASE w = 2
        BY <2>2, <3>2
      <3>3. CASE w = 4
        BY <2>2, <3>3
      <3>4. QED
        BY <2>2, <3>1, <3>2, <3>3
    <2> HIDE DEF f
    <2>4. \A i \in 1..n : m + i \in 1..l
      OBVIOUS
    <2>5. QED
      BY <2>1, <2>3, <2>4
  <1>9. u = SubSeq(t, m + 1, m + n)
    <2>1. m + 1 \in Int /\ m + n \in Int /\ \A i \in (m + 1)..(m + n) : i \in 1..l
      OBVIOUS
    <2>2. \A i \in (m + 1)..(m + n) : t[i] \in Byte
      BY <1>5, <1>7, <2>1
    <2>3. PICK v : v = SubSeq(t, m + 1, m + n)
      OBVIOUS
    <2>4. /\ v \in Seq(Byte)
          /\ Len(v) = IF m + 1 <= m + n THEN m + n - (m + 1) + 1 ELSE 0
          /\ \A i \in 1..(m + n - (m + 1) + 1) : v[i] = t[m + 1 + i - 1]
      BY <2>1, <2>2, <2>3, SubSeqProperties
    <2>5. Len(v) = n /\ m + n - (m + 1) + 1 = n
      BY <2>4
    <2>6. ASSUME NEW i \in 1..n PROVE v[i] = u[i]
      <3>1. m + 1 + i - 1 = m + i /\ m + i \in 1..l
        OBVIOUS
      <3>2. v[i] = t[m + i]
        BY <2>4, <2>5, <3>1
      <3>3. QED
        BY <1>7, <1>8, <3>1, <3>2
    <2>7. u \in Seq(Byte) /\ Len(u) = n
      <3>1. \A i \in 1..n : u[i] \in Byte
        <4>1. \A i \in 1..n : m + i \in 1..l
          OBVIOUS
        <4>2. QED
          BY <1>5, <1>7, <1>8, <4>1
      <3>2. QED
        BY <1>7, <3>1
    <2>8. v = u
      BY <2>4, <2>5, <2>6, <2>7, SeqEqual
    <2>9. QED
      BY <2>3, <2>8
  <1>10. QED
    BY <1>1, <1>6, <1>7, <1>9

\* Where bytes are the units, host order is the order of the file.
LEMMA PlainOrder ==
    ASSUME NEW bom, NEW base \in Nat, NEW n \in Nat, Width(bom) = 1
    PROVE  \A i \in 1..n : HostOrder(bom, base, n)[i] = base + i
  <1>1. bom \notin {"2be", "4be"}
    BY DEF Width
  <1>2. HostOrder(bom, base, n) = [i \in 1..n |-> base + (1 * ((i - 1) \div 1)) + 1 - ((i - 1) % 1)]
    BY <1>1 DEF HostOrder
  <1>3. \A i \in 1..n : base + (1 * ((i - 1) \div 1)) + 1 - ((i - 1) % 1) = base + i
    OBVIOUS
  <1>4. QED
    BY <1>2, <1>3

\* A border of the file is a place where the text may be cut.
LEMMA BorderIsCut ==
    ASSUME NEW c \in Caller, NEW g \in Nat, NEW m \in Nat, NEW l \in Nat, g = Origin(c),
           m <= l, m % Width(cpos[c].bom) = 0, l % Width(cpos[c].bom) = 0,
           file \in Seq(Byte), g + l <= Len(file), Border(c, g + m),
           Width(cpos[c].bom) = 1 => g + l = Len(file)
    PROVE  Cut(cpos[c].bom, Bytes(HostOrder(cpos[c].bom, g, l)), m)
  <1>0. PICK bom, x, t : /\ bom = cpos[c].bom /\ x = HostOrder(bom, g, l) /\ t = Bytes(x)
    OBVIOUS
  <1>1. Len(x) = l
    BY <1>0, HostOrderProps
  <1>2. SUFFICES ASSUME Width(bom) = 1
                 PROVE  m = 0 \/ m = l \/ HasBit7(t[m]) # HasBit7(t[m + 1])
    <2>1. Len(t) = l
      BY <1>0, <1>1 DEF Bytes
    <2>2. QED
      BY <1>0, <2>1 DEF Cut
  <1>3. \A i \in 1..l : t[i] = file[g + i]
    <2>1. \A i \in 1..l : x[i] = g + i
      BY <1>0, <1>2, PlainOrder, ZenonT(60)
    <2>2. \A i \in 1..l : t[i] = file[x[i]]
      BY <1>0, <1>1 DEF Bytes
    <2>3. QED
      BY <2>1, <2>2
  <1>4. \/ g + m = g
        \/ g + m >= Len(file)
        \/ HasBit7(file[g + m]) # HasBit7(file[(g + m) + 1])
    BY <1>0, <1>2 DEF Border
  <1>5. g + l = Len(file)
    BY <1>0, <1>2
  <1>6. SUFFICES ASSUME m > 0, m < l PROVE HasBit7(t[m]) # HasBit7(t[m + 1])
    BY <1>2
  <1>7. HasBit7(file[g + m]) # HasBit7(file[(g + m) + 1])
    BY <1>4, <1>5, <1>6
  <1>8. t[m] = file[g + m] /\ t[m + 1] = file[(g + m) + 1]
    <2>1. m \in 1..l /\ m + 1 \in 1..l /\ g + (m + 1) = (g + m) + 1
      BY <1>6
    <2>2. QED
      BY <1>3, <2>1
  <1>9. QED
    BY <1>7, <1>8

\* The whole units among e bytes, of which k belong to such units.
LEMMA WholeUnits ==
    ASSUME NEW bom, NEW e \in Nat, NEW k \in Nat, k <= e, k % Width(bom) = 0
    PROVE  /\ e - (e % Width(bom)) \in Nat
           /\ (e - (e % Width(bom))) % Width(bom) = 0
           /\ k <= e - (e % Width(bom)) /\ e - (e % Width(bom)) <= e
           /\ Width(bom) = 1 => e - (e % Width(bom)) = e
  <1>1. PICK w : w = Width(bom)
    OBVIOUS
  <1>2. w \in {1, 2, 4} /\ k % w = 0
    BY <1>1, WidthProps
  <1>3. CASE w = 1
    BY <1>1, <1>3
  <1>4. CASE w = 2
    BY <1>1, <1>2, <1>4
  <1>5. CASE w = 4
    BY <1>1, <1>2, <1>5
  <1>6. QED
    BY <1>2, <1>3, <1>4, <1>5

\* The whole units of the input from the origin on.
WholeText(c) ==
    LET n == Len(file) - Origin(c) IN
    HostOrder(cpos[c].bom, Origin(c), n - (n % Width(cpos[c].bom)))

\* The chunk in hand is the text between two places where it may be cut.
LEMMA ChunkOfText ==
    ASSUME IInv, NEW c \in Caller, pc[c] = "conv", Roomy(cpos[c])
    PROVE  \E i, j \in 0..Len(Bytes(WholeText(c))) :
             /\ i < j
             /\ Cut(cpos[c].bom, Bytes(WholeText(c)), i)
             /\ Cut(cpos[c].bom, Bytes(WholeText(c)), j)
             /\ Bytes(WholeText(c)) \in Seq(Byte)
             /\ Bytes(chunk[c]) = SubSeq(Bytes(WholeText(c)), i + 1, j)
  <1>1. PICK p, bom, w, g, n, o, f :
          /\ p = cpos[c] /\ bom = p.bom /\ w = Width(bom) /\ g = Origin(c) /\ n = Len(chunk[c])
          /\ o = p.offset /\ f = Len(file)
    OBVIOUS
  <1>2. PICK m, e, l : m = o - n - g /\ e = f - g /\ l = e - (e % Width(bom))
    OBVIOUS
  <1>3. /\ Local(c) /\ p \in Positions /\ file \in Seq(Byte) /\ f \in Nat /\ n \in Nat
        /\ args[c] \in Args /\ chunk[c] # << >>
    BY <1>1, Facts DEF Local, Fresh
  <1>4. o \in Nat /\ g \in Nat /\ n > 0
    <2>1. BomLen(bom) \in Nat
      BY WidthProps
    <2>2. args[c].inoffset \in Nat
      BY <1>3, SizeAssumption DEF Args
    <2>3. n # 0
      <3>1. chunk[c] \in Seq(Nat)
        BY Facts
      <3>2. QED
        BY <1>1, <1>3, <3>1, EmptySeq
    <2>4. o \in Nat
      BY <1>1, <1>3 DEF Positions
    <2>5. QED
      BY <1>1, <1>3, <2>1, <2>2, <2>3, <2>4 DEF Origin
  <1>5. /\ p.pos = o /\ g <= o - n /\ (o - n - g) % w = 0 /\ n % w = 0
        /\ Border(c, o - n) /\ Border(c, o)
        /\ chunk[c] = HostOrder(bom, o - n, n)
        /\ p.pos <= f
    BY <1>1, <1>3 DEF Local, Tiled, Behind
  <1>6. /\ m \in Nat /\ m % w = 0 /\ o - n = g + m /\ o = g + (m + n) /\ m + n <= f - g
        /\ f - g \in Nat
    BY <1>2, <1>3, <1>4, <1>5
  <1>7. (m + n) % w = 0
    <2>1. m % Width(bom) = 0 /\ n % Width(bom) = 0
      BY <1>1, <1>5, <1>6
    <2>2. QED
      BY <1>1, <1>3, <1>6, <2>1, UnitsAdd
  <1>8. l \in Nat /\ l % w = 0 /\ m + n <= l /\ g + l <= f /\ (w = 1 => g + l = f)
    <2>1. PICK k : k = m + n
      OBVIOUS
    <2>2. e \in Nat /\ k \in Nat /\ k <= e
      <3>1. m \in Nat /\ n \in Nat /\ m + n <= f - g /\ f - g \in Nat
        BY <1>3, <1>6
      <3>2. e = f - g
        BY <1>2
      <3>3. QED
        BY <2>1, <3>1, <3>2
    <2>3. k % Width(bom) = 0
      BY <1>1, <1>7, <2>1, Zenon
    <2>4. l \in Nat /\ l % Width(bom) = 0 /\ k <= l /\ l <= e /\ (Width(bom) = 1 => l = e)
      BY <1>2, <2>2, <2>3, WholeUnits
    <2>5. l % w = 0
      BY <1>1, <2>4, Zenon
    <2>6. w = 1 => l = e
      BY <1>1, <2>4
    <2>7. QED
      BY <1>2, <1>3, <1>4, <2>1, <2>2, <2>4, <2>5, <2>6
  <1>9. PICK t : t = Bytes(HostOrder(bom, g, l))
    OBVIOUS
  <1>10. t = Bytes(WholeText(c))
    BY <1>1, <1>2, <1>9 DEF WholeText
  <1>11. /\ m % Width(bom) = 0 /\ n % Width(bom) = 0 /\ l % Width(bom) = 0
         /\ (m + n) % Width(bom) = 0 /\ g + l <= Len(file)
         /\ Width(bom) = 1 => g + l = Len(file)
    BY <1>1, <1>5, <1>6, <1>7, <1>8
  <1>12. m \in Nat /\ g \in Nat /\ n \in Nat /\ l \in Nat /\ m + n \in Nat
         /\ m + n <= l /\ m <= l /\ n > 0
    BY <1>3, <1>4, <1>6, <1>8
  <1>13. /\ t \in Seq(Byte) /\ Len(t) = l
         /\ Bytes(HostOrder(bom, g + m, n)) = SubSeq(t, m + 1, m + n)
    BY <1>3, <1>9, <1>11, <1>12, PartOfText, SMTT(30)
  <1>14. Cut(bom, t, m)
    <2>1. Border(c, g + m)
      BY <1>5, <1>6
    <2>2. QED
      BY <1>1, <1>3, <1>9, <1>11, <1>12, <2>1, BorderIsCut
  <1>15. Cut(bom, t, m + n)
    <2>1. PICK k : k = m + n
      OBVIOUS
    <2>2. Border(c, g + k) /\ k \in Nat /\ k <= l /\ k % Width(bom) = 0
      BY <1>5, <1>6, <1>11, <1>12, <2>1
    <2>3. Cut(bom, t, k)
      BY <1>1, <1>3, <1>9, <1>11, <1>12, <2>2, BorderIsCut
    <2>4. QED
      BY <2>1, <2>3
  <1>16. Bytes(chunk[c]) = SubSeq(t, m + 1, m + n)
    BY <1>5, <1>6, <1>13
  <1>17. m \in 0..Len(t) /\ m + n \in 0..Len(t) /\ m < m + n
    BY <1>12, <1>13
  <1>18. QED
    BY <1>1, <1>10, <1>13, <1>14, <1>15, <1>16, <1>17

\* Of an encoding that accepts the parts of what it accepts, cut where chunks are
\* cut, iconv refuses no chunk of a text that it would accept as a whole.
THEOREM ConvFileBordersHarmless ==
    ASSUME Splittable
    PROVE  Spec => []ChunksConvertible
  <1>1. IInv => ChunksConvertible
    <2>1. SUFFICES ASSUME IInv, NEW c \in Caller, pc[c] = "conv", Roomy(cpos[c]),
                          Convertible(cpos[c].bom, Bytes(WholeText(c)))
                   PROVE  Accepted(c)
      BY DEF ChunksConvertible, WholeText
    <2>2. PICK bom, t : bom = cpos[c].bom /\ t = Bytes(WholeText(c))
      OBVIOUS
    <2>3. PICK i \in 0..Len(t), j \in 0..Len(t) :
            /\ i < j /\ Cut(bom, t, i) /\ Cut(bom, t, j) /\ t \in Seq(Byte)
            /\ Bytes(chunk[c]) = SubSeq(t, i + 1, j)
      BY <2>1, <2>2, ChunkOfText
    <2>4. Convertible(bom, SubSeq(t, i + 1, j))
      BY <2>1, <2>2, <2>3 DEF Splittable, Splits, Byte
    <2>5. QED
      BY <2>2, <2>3, <2>4 DEF Accepted
  <1>2. QED
    BY <1>1, ConvFileInvariance, PTL

\* The steps that move a caller within the loop.
LEMMA LoopSteps ==
    ASSUME IInv, [Next]_vars, NEW c \in Caller
    PROVE  /\ pc[c] = "read" /\ pc'[c] = "conv" => ReadChunk(c) \/ ReadInsufficient(c)
           /\ pc[c] \in {"conv", "write"} /\ pc'[c] \in {"write", "read"} => cpos'[c] = cpos[c]
  <1>1. TypeOK
    BY DEF IInv
  <1>2. ASSUME NEW u \in Caller, u # c, Step(u) \/ \E a \in Args : Start(u, a)
        PROVE  pc'[c] = pc[c] /\ cpos'[c] = cpos[c]
    BY <1>1, <1>2
       DEF TypeOK, Step, Start, OpenFail, OpenAsk, ReadOpen, CreateOut, CreateOutFail, WriteHead,
           WriteHeadFail, ReadFail, ReadEnd, ReadInsufficient, ReadChunk, ReadSeekFail, Convert,
           ConvertFail, WriteChunk, WriteChunkFail, Finish, EndLoop, Return, Goto
  <1>3. CASE UNCHANGED vars \/ RemoveOut
    BY <1>3 DEF vars, RemoveOut
  <1>4. CASE Step(c)
    <2>1. CASE ReadInsufficient(c) \/ ReadChunk(c)
      BY <1>1, <2>1 DEF TypeOK, ReadInsufficient, ReadChunk, Goto
    <2>2. CASE Convert(c) \/ WriteChunk(c)
      BY <1>1, <2>2 DEF TypeOK, Convert, WriteChunk, Goto
    <2>3. CASE \/ OpenFail(c) \/ OpenAsk(c) \/ CreateOutFail(c) \/ WriteHeadFail(c)
               \/ ConvertFail(c) \/ WriteChunkFail(c) \/ Finish(c)
      BY <1>1, <2>3
         DEF TypeOK, OpenFail, OpenAsk, CreateOutFail, WriteHeadFail, ConvertFail,
             WriteChunkFail, Finish, Return, Goto
    <2>4. CASE \/ ReadOpen(c) \/ CreateOut(c) \/ WriteHead(c)
               \/ ReadFail(c) \/ ReadEnd(c) \/ ReadSeekFail(c)
      BY <1>1, <2>4
         DEF TypeOK, ReadOpen, CreateOut, WriteHead, ReadFail, ReadEnd, ReadSeekFail, EndLoop, Goto
    <2>5. QED
      BY <1>4, <2>1, <2>2, <2>3, <2>4 DEF Step
  <1>5. CASE \E a \in Args : Start(c, a)
    BY <1>1, <1>5 DEF TypeOK, Start, Goto
  <1>6. QED
    BY <1>2, <1>3, <1>4, <1>5 DEF Next

\* The loop of a call goes through the file in one direction: with finitely many
\* pairs of positions in a file, it ends, and with it every call.
THEOREM ConvFileLoopAdvances == Spec => LoopAdvances
  <1>1. ASSUME IInv, IInv', NEW c \in Caller, pc[c] = "read", pc'[c] = "conv",
               ReadChunk(c) \/ ReadInsufficient(c)
        PROVE  /\ Before(cpos[c], cpos'[c])
               /\ cpos'[c].offset <= cpos'[c].pos /\ cpos'[c].pos <= Len(file)
    <2>1. PICK p, b : p = cpos[c] /\ b = Buffer(p)
      OBVIOUS
    <2>2. /\ p \in Positions /\ file \in Seq(Byte) /\ TypeOK /\ b # << >>
      BY <1>1, <2>1, Facts DEF ReadChunk, ReadInsufficient
    <2>3. Local(c)' /\ file' = file
      BY <1>1 DEF IInv, ReadChunk, ReadInsufficient
    <2>4. cpos'[c].offset <= cpos'[c].pos /\ cpos'[c].pos <= Len(file)
      BY <1>1, <2>3 DEF Local, Behind
    <2>5. /\ p.offset \in Nat /\ p.pos \in Nat /\ b \in Seq(Byte) /\ Len(b) \in Nat /\ Len(b) > 0
      <3>1. b \in Seq(Byte) /\ Len(b) \in Nat
        BY <2>1, <2>2, BufferProps
      <3>2. QED
        BY <2>2, <3>1, EmptySeq DEF Positions
    <2>6. \A x, y \in Nat : MovedTo(p, x, y).offset = x /\ MovedTo(p, x, y).pos = y
      BY <2>2, Move
    <2>7. CASE ReadChunk(c)
      <3>1. PICK n : n = ChunkLen(p.bom, b)
        OBVIOUS
      <3>2. n \in Nat /\ n > 0 /\ cpos'[c] = MovedTo(p, p.offset + n, p.offset + n)
        <4>1. n \in 0..Len(b)
          BY <2>2, <2>5, <3>1, ChunkLenProps
        <4>2. n > 0 /\ cpos'[c] = MovedTo(p, p.offset + n, p.offset + n)
          BY <2>1, <2>2, <2>7, <3>1 DEF ReadChunk, TypeOK
        <4>3. QED
          BY <2>5, <4>1, <4>2
      <3>3. p.offset + n \in Nat /\ p.offset < p.offset + n
        BY <2>5, <3>2
      <3>4. cpos'[c].offset = p.offset + n
        BY <2>6, <3>2, <3>3
      <3>5. QED
        BY <2>1, <2>4, <3>3, <3>4 DEF Before
    <2>8. CASE ReadInsufficient(c)
      <3>1. cpos'[c] = MovedTo(p, p.offset, p.pos + Len(b))
        BY <2>1, <2>2, <2>8 DEF ReadInsufficient, TypeOK
      <3>2. p.pos + Len(b) \in Nat /\ p.pos < p.pos + Len(b)
        BY <2>5
      <3>3. cpos'[c].offset = p.offset /\ cpos'[c].pos = p.pos + Len(b)
        BY <2>5, <2>6, <3>1, <3>2
      <3>4. QED
        BY <2>1, <2>4, <3>2, <3>3 DEF Before
    <2>9. QED
      BY <1>1, <2>7, <2>8
  <1> DEFINE Advances ==
        \A c \in Caller :
           /\ pc[c] = "read" /\ pc'[c] = "conv" =>
                  /\ Before(cpos[c], cpos'[c])
                  /\ cpos'[c].offset <= cpos'[c].pos /\ cpos'[c].pos <= Len(file)
           /\ pc[c] \in {"conv", "write"} /\ pc'[c] \in {"write", "read"} =>
                  cpos'[c] = cpos[c]
  <1>2. IInv /\ IInv' /\ [Next]_vars => Advances
    BY <1>1, LoopSteps
  <1>3. IInv /\ IInv' /\ [Next]_vars => [Advances]_vars
    BY <1>2
  <1> HIDE DEF Advances
  <1>4. Spec => [][Advances]_vars
    BY <1>3, ConvFileInvariance, PTL DEF Spec
  <1>5. QED
    BY <1>4 DEF LoopAdvances, Advances
=============================================================================
