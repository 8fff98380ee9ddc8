---------------------------- MODULE HelpersProof -----------------------------
(***************************************************************************)
(* Proofs about the pure functions.  What MCHelpers checks of byte order   *)
(* and of comparing on short inputs is proved for inputs of any length,    *)
(* what it checks of the calendar for every year.                          *)
(***************************************************************************)
EXTENDS MCHelpers, Least, FiniteSetTheorems, SequenceTheorems, TLAPS

-----------------------------------------------------------------------------
(* The loop of BO_swap_bytes *)

\* The body of the loop.
Exchanged(b, i) == [b EXCEPT ![i] = b[Opposite(Len(b), i)],
                             ![Opposite(Len(b), i)] = b[i]]

\* g gives for every set of rounds what they make of v, the last one last.
IsFold(g, v, m) ==
    g = [s \in SUBSET (1..m) |->
            IF s = {} THEN v ELSE Exchanged(g[s \ {Max(s)}], Max(s))]

\* The greatest of some rounds.
LEMMA MaxOf ==
    ASSUME NEW m \in Nat, NEW s \in SUBSET (1..m), s # {}
    PROVE  Max(s) \in s /\ \A x \in s : x <= Max(s)
  <1>1. s \in SUBSET (0..m)
    OBVIOUS
  <1>2. \E x \in s : \A y \in s : y <= x
    BY <1>1, NatGreatest
  <1>3. \E x \in s : \A y \in s : x >= y
    BY <1>2
  <1>4. QED
    BY <1>3 DEF Max

\* There is such a function, for any number of rounds.
LEMMA FoldExists ==
    ASSUME NEW v
    PROVE  \A m \in Nat : \E g : IsFold(g, v, m)
  <1> DEFINE T == {m \in Nat : ~ \E g : IsFold(g, v, m)}
  <1>1. SUFFICES ASSUME T # {} PROVE FALSE
    OBVIOUS
  <1>2. PICK m \in T : \A y \in T : m <= y
    BY <1>1, NatLeast
  <1>3. m \in Nat /\ ~ \E g : IsFold(g, v, m)
    OBVIOUS
  <1>4. m # 0
    <2>1. SUFFICES ASSUME m = 0 PROVE FALSE
      OBVIOUS
    <2>2. 1..m = {}
      BY <2>1
    <2>3. PICK g : g = [s \in SUBSET (1..m) |-> v]
      OBVIOUS
    <2>4. \A s \in SUBSET (1..m) : s = {}
      BY <2>2
    <2>5. [s \in SUBSET (1..m) |->
              IF s = {} THEN v ELSE Exchanged(g[s \ {Max(s)}], Max(s))] = g
      BY <2>3, <2>4, Zenon
    <2>6. IsFold(g, v, m)
      BY <2>5 DEF IsFold
    <2>7. QED
      BY <1>3, <2>6
  <1>5. PICK l \in Nat : l = m - 1
    BY <1>3, <1>4
  <1>6. PICK g : IsFold(g, v, l)
    <2>1. l \notin T
      BY <1>2, <1>3, <1>5
    <2>2. QED
      BY <2>1
  <1>7. \A s \in SUBSET (1..l) :
           g[s] = IF s = {} THEN v ELSE Exchanged(g[s \ {Max(s)}], Max(s))
    BY <1>6 DEF IsFold
  <1>8. PICK h : h = [s \in SUBSET (1..m) |-> IF m \in s THEN Exchanged(g[s \ {m}], m) ELSE g[s]]
    OBVIOUS
  <1>9. /\ \A s \in SUBSET (1..m) : m \notin s => s \in SUBSET (1..l) /\ h[s] = g[s]
        /\ \A s \in SUBSET (1..m) : m \in s => h[s] = Exchanged(g[s \ {m}], m)
    <2>1. \A x \in 1..m : x # m => x \in 1..l
      BY <1>3, <1>5
    <2>2. QED
      BY <1>8, <2>1
  <1>10. ASSUME NEW s \in SUBSET (1..m)
         PROVE  h[s] = IF s = {} THEN v ELSE Exchanged(h[s \ {Max(s)}], Max(s))
    <2>1. CASE s = {}
      <3>1. h[s] = g[s] /\ s \in SUBSET (1..l)
        BY <1>9, <2>1
      <3>2. QED
        BY <1>7, <2>1, <3>1
    <2>2. CASE s # {}
      <3>1. Max(s) \in s /\ \A x \in s : x <= Max(s)
        BY <1>3, <2>2, MaxOf
      <3>2. PICK k : k = Max(s)
        OBVIOUS
      <3>3. s \ {k} \in SUBSET (1..m)
        OBVIOUS
      <3>4. CASE m \in s
        <4>1. k = m
          <5>1. m <= k /\ k \in 1..m
            BY <3>1, <3>2, <3>4
          <5>2. QED
            BY <1>3, <5>1
        <4>2. h[s] = Exchanged(g[s \ {m}], m)
          BY <1>9, <3>4
        <4>3. h[s \ {m}] = g[s \ {m}]
          BY <1>9, <3>3, <4>1
        <4>4. QED
          BY <2>2, <3>2, <4>1, <4>2, <4>3, Zenon
      <3>5. CASE m \notin s
        <4>1. h[s] = g[s] /\ s \in SUBSET (1..l)
          BY <1>9, <3>5
        <4>2. h[s \ {k}] = g[s \ {k}]
          BY <1>9, <3>3, <3>5
        <4>3. g[s] = Exchanged(g[s \ {k}], k)
          BY <1>7, <2>2, <3>2, <4>1, Zenon
        <4>4. QED
          BY <2>2, <3>2, <4>1, <4>2, <4>3, Zenon
      <3>6. QED
        BY <3>4, <3>5
    <2>3. QED
      BY <2>1, <2>2
  <1>11. h = [s \in SUBSET (1..m) |->
                 IF s = {} THEN v ELSE Exchanged(h[s \ {Max(s)}], Max(s))]
    BY <1>8, <1>10, Zenon
  <1>12. IsFold(h, v, m)
    BY <1>11, Zenon DEF IsFold
  <1>13. QED
    BY <1>3, <1>12

\* The loop makes the rounds 1 to size / 2 on the word.
LEMMA SwapIsFold ==
    ASSUME NEW v, NEW m \in Nat, m = Len(v) \div 2
    PROVE  \E g : IsFold(g, v, m) /\ BO_swap_bytes(v) = g[1..m]
  <1> DEFINE F(h) == h = [s \in SUBSET (1..m) |->
                            IF s = {} THEN v
                            ELSE Exchanged(h[s \ {Max(s)}], [i \in 1..m |-> i][Max(s)])]
  <1>1. \A h : F(h) <=> IsFold(h, v, m)
    <2>1. \A s \in SUBSET (1..m) : s # {} => [i \in 1..m |-> i][Max(s)] = Max(s)
      BY MaxOf
    <2>2. TAKE h
    <2>3. ASSUME NEW s \in SUBSET (1..m)
          PROVE  (IF s = {} THEN v ELSE Exchanged(h[s \ {Max(s)}], [i \in 1..m |-> i][Max(s)]))
                 = IF s = {} THEN v ELSE Exchanged(h[s \ {Max(s)}], Max(s))
      <3>1. CASE s = {}
        BY <3>1, Zenon
      <3>2. CASE s # {}
        <4>1. PICK k : k = [i \in 1..m |-> i][Max(s)]
          OBVIOUS
        <4>2. k = Max(s)
          BY <2>1, <3>2, <4>1
        <4>3. Exchanged(h[s \ {Max(s)}], k) = Exchanged(h[s \ {Max(s)}], Max(s))
          BY <4>2, Zenon
        <4>4. QED
          BY <3>2, <4>1, <4>3, Zenon
      <3>3. QED
        BY <3>1, <3>2
    <2>4. [s \in SUBSET (1..m) |->
              IF s = {} THEN v ELSE Exchanged(h[s \ {Max(s)}], [i \in 1..m |-> i][Max(s)])]
          = [s \in SUBSET (1..m) |-> IF s = {} THEN v ELSE Exchanged(h[s \ {Max(s)}], Max(s))]
      BY <2>3, Zenon
    <2>5. QED
      BY <2>4, Zenon DEF IsFold
  <1>2. \E h : F(h)
    <2>1. PICK h : IsFold(h, v, m)
      BY FoldExists
    <2>2. F(h)
      <3> HIDE DEF F
      <3>1. QED
        BY <1>1, <2>1, Zenon
    <2>3. QED
      BY <2>2, Zenon
  <1>3. PICK g : g = CHOOSE h : F(h)
    OBVIOUS
  <1>4. F(g)
    BY <1>2, <1>3, Zenon
  <1>5. DOMAIN [i \in 1..m |-> i] = 1..m
    OBVIOUS
  <1>6. BO_swap_bytes(v) = g[1..m]
    BY <1>3, <1>5 DEF BO_swap_bytes, FoldLeft, MapThenFoldSet, Exchanged
  <1>7. IsFold(g, v, m)
    <2> HIDE DEF F
    <2>1. QED
      BY <1>1, <1>4, Zenon
  <1>8. QED
    BY <1>6, <1>7

\* What the first i rounds of the loop make of v: its first i and last i bytes have
\* changed places, those between them are where they were.
HalfReversed(v, i) ==
    [k \in 1..Len(v) |-> IF k <= i \/ Opposite(Len(v), k) <= i THEN v[Opposite(Len(v), k)] ELSE v[k]]

\* One round: the next byte from the front changes places with the next from the back.
LEMMA RoundExchanges ==
    ASSUME NEW S, NEW v \in Seq(S), NEW i \in Nat, i > 0, 2 * i <= Len(v)
    PROVE  Exchanged(HalfReversed(v, i - 1), i) = HalfReversed(v, i)
  <1>1. PICK n \in Nat : n = Len(v)
    OBVIOUS
  <1>2. PICK b : b = HalfReversed(v, i - 1)
    OBVIOUS
  <1>3. /\ b = [k \in 1..n |-> IF k <= i - 1 \/ n - k + 1 <= i - 1 THEN v[n - k + 1] ELSE v[k]]
        /\ Len(b) = n /\ i \in 1..n /\ n - i + 1 \in 1..n /\ i # n - i + 1
    BY <1>1, <1>2 DEF HalfReversed, Opposite
  <1>4. b[i] = v[i] /\ b[n - i + 1] = v[n - i + 1]
    BY <1>1, <1>3
  <1>5. PICK e : e = Exchanged(b, i)
    OBVIOUS
  <1>6. e = [k \in 1..n |-> IF k = n - i + 1 THEN v[i] ELSE IF k = i THEN v[n - i + 1] ELSE b[k]]
    BY <1>1, <1>3, <1>4, <1>5 DEF Exchanged, Opposite
  <1>7. ASSUME NEW k \in 1..n
        PROVE  e[k] = IF k <= i \/ n - k + 1 <= i THEN v[n - k + 1] ELSE v[k]
    <2>1. CASE k = i
      BY <1>1, <1>3, <1>6, <2>1
    <2>2. CASE k = n - i + 1
      <3>1. n - k + 1 = i
        BY <1>1, <2>2
      <3>2. e[k] = v[i]
        BY <1>6, <2>2
      <3>3. QED
        BY <1>1, <3>1, <3>2
    <2>3. CASE k # i /\ k # n - i + 1
      <3>1. e[k] = b[k]
        BY <1>6, <2>3
      <3>2. (k <= i <=> k <= i - 1) /\ (n - k + 1 <= i <=> n - k + 1 <= i - 1)
        BY <1>1, <2>3
      <3>3. QED
        BY <1>3, <3>1, <3>2
    <2>4. QED
      BY <2>1, <2>2, <2>3
  <1>8. HalfReversed(v, i) = [k \in 1..n |-> IF k <= i \/ n - k + 1 <= i THEN v[n - k + 1] ELSE v[k]]
    BY <1>1 DEF HalfReversed, Opposite
  <1>9. e = HalfReversed(v, i)
    BY <1>6, <1>7, <1>8, Zenon
  <1>10. QED
    BY <1>2, <1>5, <1>9

\* The rounds in order: the first i of them leave the first and the last i exchanged.
LEMMA RoundsReverse ==
    ASSUME NEW S, NEW v \in Seq(S), NEW m \in Nat, m = Len(v) \div 2, NEW g, IsFold(g, v, m)
    PROVE  g[1..m] = HalfReversed(v, m)
  <1> DEFINE T == {i \in 0..m : g[1..i] # HalfReversed(v, i)}
  <1>1. 2 * m <= Len(v)
    OBVIOUS
  <1>2. \A s \in SUBSET (1..m) :
           g[s] = IF s = {} THEN v ELSE Exchanged(g[s \ {Max(s)}], Max(s))
    BY DEF IsFold
  <1>3. ASSUME T # {} PROVE FALSE
    <2>1. T \in SUBSET Nat
      OBVIOUS
    <2>2. PICK i \in T : \A y \in T : i <= y
      BY <1>3, <2>1, NatLeast
    <2>3. i \in 0..m /\ g[1..i] # HalfReversed(v, i)
      OBVIOUS
    <2>4. CASE i = 0
      <3>1. 1..i = {} /\ 1..i \in SUBSET (1..m)
        BY <2>4
      <3>2. g[1..i] = v
        BY <1>2, <3>1, Zenon
      <3>3. HalfReversed(v, 0) = v
        BY DEF HalfReversed, Opposite
      <3>4. QED
        BY <2>3, <2>4, <3>2, <3>3
    <2>5. CASE i > 0
      <3>1. PICK j \in Nat : j = i - 1
        BY <2>3, <2>5
      <3>2. j \notin T /\ j \in 0..m
        BY <2>2, <2>3, <3>1
      <3>3. g[1..j] = HalfReversed(v, j)
        BY <3>2
      <3>4. 1..i \in SUBSET (1..m) /\ 1..i # {} /\ i \in 1..i
        <4>1. i \in Nat /\ i <= m /\ i >= 1
          BY <2>3, <2>5
        <4>2. \A x \in 1..i : x \in 1..m
          BY <4>1
        <4>3. i \in 1..i
          BY <4>1
        <4>4. QED
          BY <4>2, <4>3, Zenon
      <3>5. Max(1..i) = i
        <4>1. Max(1..i) \in 1..i /\ \A x \in 1..i : x <= Max(1..i)
          BY <3>4, MaxOf
        <4>2. PICK k : k = Max(1..i)
          OBVIOUS
        <4>3. k \in 1..i /\ i <= k
          BY <3>4, <4>1, <4>2
        <4>4. k = i
          BY <2>3, <4>3
        <4>5. QED
          BY <4>2, <4>4
      <3>6. (1..i) \ {i} = 1..j
        BY <2>3, <3>1
      <3>7. g[1..i] = Exchanged(g[1..j], i)
        BY <1>2, <3>4, <3>5, <3>6, Zenon
      <3>8. Exchanged(HalfReversed(v, i - 1), i) = HalfReversed(v, i)
        <4>1. i \in Nat /\ 2 * i <= Len(v)
          BY <1>1, <2>3
        <4>2. QED
          BY <2>5, <4>1, RoundExchanges
      <3>9. QED
        BY <2>3, <3>1, <3>3, <3>7, <3>8
    <2>6. QED
      BY <2>3, <2>4, <2>5
  <1>4. m \in 0..m
    OBVIOUS
  <1>5. QED
    BY <1>3, <1>4

\* BO_swap_bytes turns a word of any length around: the loop over its first half,
\* which exchanges two bytes in every round, misses none and exchanges none twice.
THEOREM SwapReverses ==
    ASSUME NEW S, NEW v \in Seq(S)
    PROVE  BO_swap_bytes(v) = Reverse(v)
  <1>1. PICK m \in Nat : m = Len(v) \div 2
    OBVIOUS
  <1>2. PICK g : IsFold(g, v, m) /\ BO_swap_bytes(v) = g[1..m]
    BY <1>1, SwapIsFold
  <1>3. g[1..m] = HalfReversed(v, m)
    BY <1>1, <1>2, RoundsReverse
  <1>4. PICK n \in Nat : n = Len(v)
    OBVIOUS
  <1>5. HalfReversed(v, m) = Reverse(v)
    <2>1. ASSUME NEW k \in 1..n
          PROVE  (IF k <= m \/ n - k + 1 <= m THEN v[n - k + 1] ELSE v[k]) = v[n - k + 1]
      <3>1. CASE k <= m \/ n - k + 1 <= m
        BY <3>1
      <3>2. CASE ~(k <= m \/ n - k + 1 <= m)
        <4>1. n - k + 1 = k
          BY <1>1, <1>4, <3>2
        <4>2. QED
          BY <3>2, <4>1
      <3>3. QED
        BY <3>1, <3>2
    <2>2. [k \in 1..n |-> IF k <= m \/ n - k + 1 <= m THEN v[n - k + 1] ELSE v[k]]
          = [k \in 1..n |-> v[n - k + 1]]
      BY <2>1, Zenon
    <2>3. HalfReversed(v, m)
          = [k \in 1..n |-> IF k <= m \/ n - k + 1 <= m THEN v[n - k + 1] ELSE v[k]]
      BY <1>4 DEF HalfReversed, Opposite
    <2>4. Reverse(v) = [k \in 1..n |-> v[n - k + 1]]
      BY <1>4 DEF Reverse
    <2>5. QED
      BY <2>2, <2>3, <2>4, Zenon
  <1>6. QED
    BY <1>2, <1>3, <1>5

-----------------------------------------------------------------------------
(* The converters *)

\* The library takes every host for a little endian one.
LEMMA LittleHost == host_little_endian /\ ~host_big_endian
  <1>1. endianess.c[1] = "l"
    BY DEF endianess
  <1>2. f = "l"
    BY <1>1, Zenon DEF f
  <1>3. QED
    BY <1>2 DEF host_little_endian, host_big_endian

\* Turning a word around twice leaves it as it was.
LEMMA ReverseTwice ==
    ASSUME NEW S, NEW v \in Seq(S)
    PROVE  Reverse(v) \in Seq(S) /\ Reverse(Reverse(v)) = v
  <1>1. PICK n \in Nat : n = Len(v)
    OBVIOUS
  <1>2. PICK r : r = Reverse(v)
    OBVIOUS
  <1>3. r = [k \in 1..n |-> v[n - k + 1]]
    BY <1>1, <1>2 DEF Reverse
  <1>4. r \in Seq(S) /\ Len(r) = n
    <2>1. \A k \in 1..n : n - k + 1 \in 1..n /\ v[n - k + 1] \in S
      BY <1>1
    <2>2. QED
      BY <1>3, <2>1
  <1>5. PICK t : t = Reverse(r)
    OBVIOUS
  <1>6. t = [k \in 1..n |-> r[n - k + 1]]
    BY <1>4, <1>5 DEF Reverse
  <1>7. \A k \in 1..n : r[n - k + 1] = v[k]
    BY <1>3
  <1>8. v = [k \in 1..n |-> v[k]]
    BY <1>1
  <1>9. t = v
    <2>1. [k \in 1..n |-> r[n - k + 1]] = [k \in 1..n |-> v[k]]
      BY <1>7, Zenon
    <2>2. QED
      BY <1>6, <1>8, <2>1, Zenon
  <1>10. QED
    BY <1>2, <1>4, <1>5, <1>9

\* Whatever is converted to another byte order and back, by the functions on values or
\* by the readers of byte arrays, is the same again: for words of any length.
THEOREM OrdersInverse ==
    ASSUME NEW S, NEW v \in Seq(S)
    PROVE  /\ BO_htobe(v) = Reverse(v) /\ BO_htole(v) = v
           /\ BO_betoh(BO_htobe(v)) = v /\ BO_letoh(BO_htole(v)) = v
           /\ BO_bytes_betoh(BO_htobe(v)) = v /\ BO_bytes_letoh(BO_htole(v)) = v
  <1>1. \A w \in Seq(S) : BO_swap_bytes(w) = Reverse(w)
    BY SwapReverses
  <1>2. \A w : /\ BO_htobe(w) = BO_swap_bytes(w) /\ BO_betoh(w) = BO_swap_bytes(w)
               /\ BO_htole(w) = w /\ BO_letoh(w) = w
    BY LittleHost DEF BO_htobe, BO_betoh, BO_htole, BO_letoh
  <1>3. \A w : BO_bytes_betoh(w) = BO_betoh(w) /\ BO_bytes_letoh(w) = w
    BY LittleHost DEF BO_bytes_betoh, BO_bytes_letoh
  <1>4. Reverse(v) \in Seq(S) /\ Reverse(Reverse(v)) = v
    BY ReverseTwice
  <1>5. BO_htobe(v) = Reverse(v)
    BY <1>1, <1>2
  <1>6. BO_betoh(BO_htobe(v)) = v
    BY <1>1, <1>2, <1>4, <1>5
  <1>7. QED
    BY <1>2, <1>3, <1>5, <1>6

\* The bytes of a number are in memory in the order that the names of the converters
\* say, and reading them gives the number: for every number and every width.
THEOREM NumbersInOrder ==
    ASSUME NEW x, NEW n \in Nat
    PROVE  /\ BO_htobe(LittleBytes(x, n)) = BigBytes(x, n)
           /\ BO_htole(LittleBytes(x, n)) = LittleBytes(x, n)
           /\ BO_bytes_betoh(BigBytes(x, n)) = LittleBytes(x, n)
           /\ BO_bytes_letoh(LittleBytes(x, n)) = LittleBytes(x, n)
  <1>1. PICK l, b : l = LittleBytes(x, n) /\ b = BigBytes(x, n)
    OBVIOUS
  <1>2. PICK B : B = {l[i] : i \in 1..n}
    OBVIOUS
  <1>3. l \in Seq(B) /\ Len(l) = n
    <2>1. l = [i \in 1..n |-> (x \div 256^(i - 1)) % 256]
      BY <1>1 DEF LittleBytes
    <2>2. DOMAIN l = 1..n /\ l = [i \in 1..n |-> l[i]]
      BY <2>1, Zenon
    <2>3. \A i \in 1..n : l[i] \in B
      BY <1>2
    <2>4. l \in [1..n -> B]
      BY <2>2, <2>3, Zenon
    <2>5. QED
      BY <2>4
  <1>4. Reverse(l) = b
    <2>1. Reverse(l) = [i \in 1..n |-> l[n - i + 1]]
      BY <1>3 DEF Reverse
    <2>2. ASSUME NEW i \in 1..n
          PROVE  l[n - i + 1] = (x \div 256^(n - i)) % 256
      <3>1. PICK k : k = n - i + 1
        OBVIOUS
      <3>2. k \in 1..n /\ k - 1 = n - i
        BY <3>1
      <3>3. l[k] = (x \div 256^(k - 1)) % 256
        BY <1>1, <3>2, Zenon DEF LittleBytes
      <3>4. (x \div 256^(k - 1)) % 256 = (x \div 256^(n - i)) % 256
        BY <3>2, ZenonT(60)
      <3>5. QED
        BY <3>1, <3>3, <3>4, ZenonT(60)
    <2>3. [i \in 1..n |-> l[n - i + 1]] = [i \in 1..n |-> (x \div 256^(n - i)) % 256]
      BY <2>2, Zenon
    <2>4. QED
      BY <1>1, <2>1, <2>3, Zenon DEF BigBytes
  <1>5. /\ BO_htobe(l) = b /\ BO_htole(l) = l
        /\ BO_bytes_betoh(BO_htobe(l)) = l /\ BO_bytes_letoh(BO_htole(l)) = l
    BY <1>3, <1>4, OrdersInverse
  <1>6. QED
    BY <1>1, <1>5, Zenon

\* Setting, clearing, toggling or changing a bit of a number leaves its other bits.
THEOREM BitsAlone ==
    ASSUME NEW n \in SUBSET Bits, NEW at \in Bits, NEW v \in {0, 1}
    PROVE  /\ BO_change_bit(n, at, v)
                = IF v = 1 THEN BO_set_bit(n, at) ELSE BO_clear_bit(n, at)
           /\ BO_check_bit(BO_toggle_bit(n, at), at) = 1 - BO_check_bit(n, at)
           /\ Xor(BO_toggle_bit(n, at), n) = {at}
  <1>1. BO_check_bit(BO_toggle_bit(n, at), at) = 1 - BO_check_bit(n, at)
    BY DEF BO_check_bit, BO_toggle_bit, Xor
  <1>2. Xor(BO_toggle_bit(n, at), n) = {at}
    BY DEF BO_toggle_bit, Xor
  <1>3. CASE v = 1
    <2>1. BO_change_bit(n, at, v) = Xor(n, Xor(Bits, n) \cap {at})
      BY <1>3 DEF BO_change_bit
    <2>2. Xor(n, Xor(Bits, n) \cap {at}) = BO_set_bit(n, at)
      BY DEF BO_set_bit, Xor
    <2>3. QED
      BY <1>1, <1>2, <1>3, <2>1, <2>2
  <1>4. CASE v = 0
    <2>1. BO_change_bit(n, at, v) = Xor(n, Xor({}, n) \cap {at})
      BY <1>4 DEF BO_change_bit
    <2>2. Xor(n, Xor({}, n) \cap {at}) = BO_clear_bit(n, at)
      BY DEF BO_clear_bit, Xor
    <2>3. QED
      BY <1>1, <1>2, <1>4, <2>1, <2>2
  <1>5. QED
    BY <1>3, <1>4

-----------------------------------------------------------------------------
(* Comparing *)

Texts == Seq(DOMAIN Code)

\* The texts differ at d and nowhere before.
DifferAt(x, y, d) ==
    /\ d \in Nat \ {0} /\ CodeAt(x, d) # CodeAt(y, d)
    /\ \A j \in 1..(d - 1) : CodeAt(x, j) = CodeAt(y, j)

LEMMA CharTypes ==
    ASSUME NEW x \in Texts, NEW i \in Nat \ {0}
    PROVE  CodeAt(x, i) \in Nat /\ (CodeAt(x, i) = 0 <=> i > Len(x))
  <1>1. CASE i <= Len(x)
    <2>1. x[i] \in DOMAIN Code
      BY <1>1 DEF Texts
    <2>2. Code[x[i]] \in 1..255
      BY <2>1, CodeAssumption
    <2>3. CodeAt(x, i) = Code[x[i]]
      BY <1>1 DEF CodeAt
    <2>4. Len(x) \in Nat
      BY DEF Texts
    <2>5. CodeAt(x, i) \in Nat /\ CodeAt(x, i) # 0
      BY <2>2, <2>3
    <2>6. QED
      BY <1>1, <2>4, <2>5
  <1>2. CASE ~(i <= Len(x))
    <2>1. Len(x) \in Nat
      BY DEF Texts
    <2>2. QED
      BY <1>2, <2>1 DEF CodeAt
  <1>3. QED
    BY <1>1, <1>2

\* Two texts that are not the same differ somewhere first.
LEMMA FirstDifference ==
    ASSUME NEW x \in Texts, NEW y \in Texts, x # y
    PROVE  \E d : DifferAt(x, y, d)
  <1> DEFINE D == {i \in Nat \ {0} : CodeAt(x, i) # CodeAt(y, i)}
  <1>1. Len(x) \in Nat /\ Len(y) \in Nat
    BY DEF Texts
  <1>2. D # {}
    <2>1. SUFFICES ASSUME \A i \in Nat \ {0} : CodeAt(x, i) = CodeAt(y, i)
                   PROVE  FALSE
      OBVIOUS
    <2>2. \A i \in Nat \ {0} : i > Len(x) <=> i > Len(y)
      BY <2>1, CharTypes
    <2>3. Len(x) = Len(y)
      <3>1. Len(x) + 1 > Len(y) /\ Len(y) + 1 > Len(x)
        BY <1>1, <2>2
      <3>2. QED
        BY <1>1, <3>1
    <2>4. ASSUME NEW i \in 1..Len(x) PROVE x[i] = y[i]
      <3>1. Code[x[i]] = Code[y[i]]
        BY <1>1, <2>1, <2>3 DEF CodeAt
      <3>2. x[i] \in DOMAIN Code /\ y[i] \in DOMAIN Code
        BY <2>3 DEF Texts
      <3>3. QED
        BY <3>1, <3>2, CodeAssumption
    <2>5. x = y
      BY <2>3, <2>4, SeqEqual DEF Texts
    <2>6. QED
      BY <2>5
  <1>3. PICK d \in D : \A e \in D : d <= e
    <2>1. D \in SUBSET Nat
      OBVIOUS
    <2>2. QED
      BY <1>2, <2>1, NatLeast
  <1>4. ASSUME NEW j \in 1..(d - 1) PROVE CodeAt(x, j) = CodeAt(y, j)
    <2>1. j \in Nat \ {0} /\ ~(d <= j)
      OBVIOUS
    <2>2. QED
      BY <1>3, <2>1
  <1>5. QED
    BY <1>4 DEF DifferAt

\* strcmp decides by that difference.
LEMMA StrcmpAt ==
    ASSUME NEW x \in Texts, NEW y \in Texts, NEW d, DifferAt(x, y, d)
    PROVE  strcmp(x, y) = IF CodeAt(x, d) < CodeAt(y, d) THEN -1 ELSE 1
  <1> DEFINE diff == {i \in 1..(Len(x) + 1) : CodeAt(x, i) # CodeAt(y, i)}
  <1>1. Len(x) \in Nat /\ Len(y) \in Nat /\ d \in Nat \ {0}
    BY DEF Texts, DifferAt
  <1>2. CodeAt(x, d) \in Nat /\ CodeAt(y, d) \in Nat /\ CodeAt(x, d) # CodeAt(y, d)
    BY <1>1, CharTypes DEF DifferAt
  <1>3. d <= Len(x) + 1
    <2>1. SUFFICES ASSUME d > Len(x) + 1 PROVE FALSE
      BY <1>1
    <2>2. CodeAt(x, Len(x) + 1) = CodeAt(y, Len(x) + 1)
      BY <1>1, <2>1 DEF DifferAt
    <2>3. Len(x) + 1 > Len(y)
      BY <1>1, <2>2, CharTypes
    <2>4. CodeAt(x, d) = 0 /\ CodeAt(y, d) = 0
      BY <1>1, <2>1, <2>3, CharTypes
    <2>5. QED
      BY <1>2, <2>4
  <1>4. d \in diff /\ \A e \in diff : d <= e
    <2>1. d \in diff
      BY <1>1, <1>2, <1>3
    <2>2. ASSUME NEW e \in diff, ~(d <= e) PROVE FALSE
      <3>1. e \in 1..(d - 1) /\ CodeAt(x, e) # CodeAt(y, e)
        BY <1>1, <2>2
      <3>2. QED
        BY <3>1 DEF DifferAt
    <2>3. QED
      BY <2>1, <2>2
  <1>5. PICK k : k = CHOOSE i \in diff : \A j \in diff : i <= j
    OBVIOUS
  <1>6. k = d
    <2>1. k \in diff /\ \A j \in diff : k <= j
      BY <1>4, <1>5, Zenon
    <2>2. k <= d /\ d <= k /\ k \in Nat
      BY <1>1, <1>4, <2>1
    <2>3. QED
      BY <1>1, <2>2
  <1>7. strcmp(x, y) = Sign(CodeAt(x, k) - CodeAt(y, k))
    <2>1. strcmp(x, y) = IF diff = {} THEN 0
                         ELSE Sign(CodeAt(x, CHOOSE i \in diff : \A j \in diff : i <= j)
                                    - CodeAt(y, CHOOSE i \in diff : \A j \in diff : i <= j))
      BY DEF strcmp
    <2>2. diff # {}
      BY <1>4
    <2>3. QED
      BY <1>5, <2>1, <2>2
  <1>8. QED
    BY <1>2, <1>6, <1>7 DEF Sign

\* strcmp is a total order on the texts: of two different ones exactly one comes
\* first, whichever way round they are given, and what comes before what comes before
\* a third comes before it.
THEOREM StrcmpOrders ==
    ASSUME NEW x \in Texts, NEW y \in Texts, NEW z \in Texts
    PROVE  /\ strcmp(x, y) \in {-1, 0, 1} /\ (strcmp(x, y) = 0 <=> x = y)
           /\ strcmp(x, y) = -strcmp(y, x)
           /\ strcmp(x, y) = -1 /\ strcmp(y, z) = -1 => strcmp(x, z) = -1
  <1>1. strcmp(x, x) = 0
    <2>1. {i \in 1..(Len(x) + 1) : CodeAt(x, i) # CodeAt(x, i)} = {}
      OBVIOUS
    <2>2. QED
      BY <2>1, Zenon DEF strcmp
  <1>2. /\ strcmp(x, y) \in {-1, 0, 1} /\ (strcmp(x, y) = 0 <=> x = y)
        /\ strcmp(x, y) = -strcmp(y, x)
    <2>1. CASE x = y
      <3>1. strcmp(x, y) = 0 /\ strcmp(y, x) = 0
        BY <1>1, <2>1, Zenon
      <3>2. PICK k \in Int : k = 0
        OBVIOUS
      <3>3. k \in {-1, 0, 1} /\ 0 - k = 0
        BY <3>2
      <3>4. -k = 0 - k
        OBVIOUS
      <3>5. QED
        BY <2>1, <3>1, <3>2, <3>3, <3>4, Zenon
    <2>2. CASE x # y
      <3>1. PICK d : DifferAt(x, y, d)
        BY <2>2, FirstDifference
      <3>2. DifferAt(y, x, d)
        BY <3>1 DEF DifferAt
      <3>3. CodeAt(x, d) \in Nat /\ CodeAt(y, d) \in Nat /\ CodeAt(x, d) # CodeAt(y, d)
        BY <3>1, CharTypes DEF DifferAt
      <3>4. /\ strcmp(x, y) = IF CodeAt(x, d) < CodeAt(y, d) THEN -1 ELSE 1
            /\ strcmp(y, x) = IF CodeAt(y, d) < CodeAt(x, d) THEN -1 ELSE 1
        BY <3>1, <3>2, StrcmpAt
      <3>5. QED
        BY <2>2, <3>3, <3>4
    <2>3. QED
      BY <2>1, <2>2
  <1>3. ASSUME strcmp(x, y) = -1, strcmp(y, z) = -1 PROVE strcmp(x, z) = -1
    <2>1. x # y
      BY <1>1, <1>3
    <2>2. y # z
      <3>1. SUFFICES ASSUME y = z PROVE FALSE
        OBVIOUS
      <3>2. {i \in 1..(Len(y) + 1) : CodeAt(y, i) # CodeAt(y, i)} = {}
        OBVIOUS
      <3>3. strcmp(y, y) = 0
        BY <3>2, Zenon DEF strcmp
      <3>4. QED
        BY <1>3, <3>1, <3>3
    <2>3. PICK d : DifferAt(x, y, d)
      BY <2>1, FirstDifference
    <2>4. PICK e : DifferAt(y, z, e)
      BY <2>2, FirstDifference
    <2>5. d \in Nat \ {0} /\ e \in Nat \ {0}
      BY <2>3, <2>4 DEF DifferAt
    <2>6. \A i \in Nat \ {0} : CodeAt(x, i) \in Nat /\ CodeAt(y, i) \in Nat /\ CodeAt(z, i) \in Nat
      BY CharTypes
    <2>7. CodeAt(x, d) < CodeAt(y, d)
      BY <1>3, <2>3, StrcmpAt
    <2>8. CodeAt(y, e) < CodeAt(z, e)
      BY <1>3, <2>4, StrcmpAt
    <2>9. PICK k : k = IF d < e THEN d ELSE e
      OBVIOUS
    <2>10. k \in Nat \ {0} /\ k <= d /\ k <= e /\ (k = d \/ k = e)
      BY <2>5, <2>9
    <2>11. CodeAt(x, k) < CodeAt(z, k)
      <3>1. k # d => CodeAt(x, k) = CodeAt(y, k)
        BY <2>3, <2>5, <2>10 DEF DifferAt
      <3>2. k # e => CodeAt(y, k) = CodeAt(z, k)
        BY <2>4, <2>5, <2>10 DEF DifferAt
      <3>3. QED
        BY <2>6, <2>7, <2>8, <2>10, <3>1, <3>2
    <2>12. ASSUME NEW j \in 1..(k - 1) PROVE CodeAt(x, j) = CodeAt(z, j)
      <3>1. j \in 1..(d - 1) /\ j \in 1..(e - 1)
        BY <2>5, <2>10
      <3>2. QED
        BY <2>3, <2>4, <3>1 DEF DifferAt
    <2>13. DifferAt(x, z, k)
      BY <2>6, <2>10, <2>11, <2>12 DEF DifferAt
    <2>14. QED
      BY <2>11, <2>13, StrcmpAt
  <1>4. QED
    BY <1>2, <1>3

\* The texts that can be written in lower case, and what is compared of one.
Lowered == Seq(DOMAIN Code \cap DOMAIN Lower)
Compared(s, ign) == IF ign THEN cstr_tolower(s, Len(s)) ELSE s

LEMMA ComparedTypes ==
    ASSUME NEW s \in Lowered, NEW ign \in BOOLEAN
    PROVE  Compared(s, ign) \in Texts /\ Len(Compared(s, ign)) = Len(s)
  <1>1. CASE ~ign
    BY <1>1 DEF Compared, Texts, Lowered
  <1>2. CASE ign
    <2>1. PICK n \in Nat : n = Len(s)
      BY DEF Lowered
    <2>2. PICK t : t = cstr_tolower(s, n)
      OBVIOUS
    <2>3. t = [i \in 1..n |-> Lower[s[i]]]
      <3>1. t = [i \in 1..n |-> IF i <= n THEN Lower[s[i]] ELSE s[i]]
        BY <2>1, <2>2, Zenon DEF cstr_tolower
      <3>2. \A i \in 1..n : (IF i <= n THEN Lower[s[i]] ELSE s[i]) = Lower[s[i]]
        BY <2>1
      <3>3. QED
        BY <3>1, <3>2, Zenon
    <2>4. \A i \in 1..n : Lower[s[i]] \in DOMAIN Code
      BY <2>1, LowerAssumption DEF Lowered
    <2>5. t \in Texts /\ Len(t) = n
      BY <2>1, <2>3, <2>4 DEF Texts
    <2>6. Compared(s, ign) = t
      BY <1>2, <2>1, <2>2 DEF Compared
    <2>7. QED
      BY <2>1, <2>5, <2>6
  <1>3. QED
    BY <1>1, <1>2

\* A text is no null pointer, and its beginning of its own length is all of it.
LEMMA TextWhole ==
    ASSUME NEW s \in Lowered
    PROVE  s \in Texts /\ s # Null /\ Len(s) \in Nat /\ First(s, Len(s)) = s
  <1>1. s \in Texts /\ Len(s) \in Nat
    BY DEF Texts, Lowered
  <1>2. s # Null
    BY <1>1, NullAssumption DEF Texts
  <1>3. AtMost(Len(s), Len(s)) = Len(s)
    BY DEF AtMost
  <1>4. First(s, Len(s)) = s
    BY <1>1, <1>3, SubSeqFull DEF First, Texts
  <1>5. QED
    BY <1>1, <1>2, <1>4

\* What cstr_compare_len does with two texts, their lengths given or left out.
LEMMA CompareIs ==
    ASSUME NEW a \in Lowered, NEW b \in Lowered, NEW ign \in BOOLEAN,
           NEW al \in {-1, Len(a)}, NEW bl \in {-1, Len(b)}
    PROVE  cstr_compare_len(a, al, b, bl, ign) =
              IF (al < 0 /\ bl < 0) \/ Len(a) = Len(b)
              THEN strcmp(Compared(a, ign), Compared(b, ign))
              ELSE Sign(Len(a) - Len(b))
  <1>1. /\ a # Null /\ Len(a) \in Nat /\ First(a, Len(a)) = a
        /\ b # Null /\ Len(b) \in Nat /\ First(b, Len(b)) = b
    BY TextWhole
  <1>2. PICK c : c = cstr_compare_len(a, al, b, bl, ign)
    OBVIOUS
  <1>3. LengthOf(a, al) = Len(a) /\ LengthOf(b, bl) = Len(b)
    BY <1>1 DEF LengthOf
  <1>4. PICK d : d = strcmp(Compared(a, ign), Compared(b, ign))
    OBVIOUS
  <1>5. c = IF al = 0 /\ bl = 0 THEN 0
            ELSE IF al < 0 /\ bl < 0 THEN d
            ELSE IF Len(a) # Len(b) THEN Sign(Len(a) - Len(b)) ELSE d
    BY <1>1, <1>2, <1>3, <1>4 DEF cstr_compare_len, Compared
  <1>6. al = 0 /\ bl = 0 => d = 0
    <2>1. SUFFICES ASSUME al = 0, bl = 0 PROVE d = 0
      OBVIOUS
    <2>2. Len(a) = 0 /\ Len(b) = 0
      BY <2>1
    <2>3. a = <<>> /\ b = <<>>
      BY <2>2, EmptySeq DEF Lowered
    <2>4. Compared(a, ign) = Compared(b, ign)
      BY <2>3
    <2>5. QED
      BY <1>4, <2>4, StrcmpOrders, ComparedTypes
  <1>7. c = IF (al < 0 /\ bl < 0) \/ Len(a) = Len(b) THEN d ELSE Sign(Len(a) - Len(b))
    <2>1. al = 0 /\ bl = 0 => Len(a) = Len(b)
      BY <1>1
    <2>2. QED
      BY <1>5, <1>6, <2>1
  <1>8. QED
    BY <1>2, <1>4, <1>7

\* cstr_compare_len is consistent for texts of any length: the two ways round are
\* opposite, with lengths the shorter text comes first, a length left out is the length
\* of the text, and equal is what cstr_notequal_len and cstr_notequal say.
THEOREM ComparesConsistently ==
    ASSUME NEW a \in Lowered, NEW b \in Lowered, NEW ign \in BOOLEAN,
           NEW n, n = Len(a), NEW m, m = Len(b)
    PROVE  /\ cstr_compare_len(a, n, b, m, ign) = -cstr_compare_len(b, m, a, n, ign)
           /\ cstr_compare_len(a, -1, b, -1, ign) = -cstr_compare_len(b, -1, a, -1, ign)
           /\ cstr_compare_len(a, n, b, m, ign) = cstr_compare_len(a, -1, b, m, ign)
           /\ cstr_compare_len(a, n, b, m, ign) = cstr_compare_len(a, n, b, -1, ign)
           /\ n < m => cstr_compare_len(a, n, b, m, ign) = -1
           /\ (cstr_compare_len(a, -1, b, -1, ign) = 0) = (cstr_compare_len(a, n, b, m, ign) = 0)
           /\ (~ign => (cstr_compare_len(a, n, b, m, ign) = 0) = ~cstr_notequal_len(a, n, b, m))
           /\ (cstr_notequal(a, b) <=> cstr_notequal_len(a, n, b, m))
  <1> DEFINE Cmp(x, xl, y, yl) == cstr_compare_len(x, xl, y, yl, ign)
  <1>1. /\ a # Null /\ n \in Nat /\ First(a, n) = a
        /\ b # Null /\ m \in Nat /\ First(b, m) = b
    BY TextWhole
  <1>2. PICK x, y : x = Compared(a, ign) /\ y = Compared(b, ign)
    OBVIOUS
  <1>3. x \in Texts /\ Len(x) = n /\ y \in Texts /\ Len(y) = m
    BY <1>2, ComparedTypes
  <1>4. PICK p, q : p = strcmp(x, y) /\ q = strcmp(y, x)
    OBVIOUS
  <1>5. p \in {-1, 0, 1} /\ q \in {-1, 0, 1} /\ p = -q /\ (p = 0 <=> x = y)
    BY <1>3, <1>4, StrcmpOrders
  <1>6. x = y => n = m
    BY <1>3
  <1>7. /\ Cmp(a, -1, b, -1) = p /\ Cmp(b, -1, a, -1) = q
        /\ Cmp(a, n, b, m) = IF n = m THEN p ELSE Sign(n - m)
        /\ Cmp(b, m, a, n) = IF m = n THEN q ELSE Sign(m - n)
        /\ Cmp(a, -1, b, m) = IF n = m THEN p ELSE Sign(n - m)
        /\ Cmp(a, n, b, -1) = IF n = m THEN p ELSE Sign(n - m)
    BY <1>1, <1>2, <1>4, CompareIs
  <1>8. Sign(n - m) = -Sign(m - n) /\ (n < m => Sign(n - m) = -1) /\ (n # m => Sign(n - m) # 0)
    BY <1>1 DEF Sign
  <1>9. cstr_notequal_len(a, n, b, m) <=> a # b
    BY <1>1 DEF cstr_notequal_len
  <1>10. ~ign => (x = y <=> a = b)
    BY <1>2 DEF Compared
  <1>11. /\ Cmp(a, n, b, m) = -Cmp(b, m, a, n) /\ Cmp(a, -1, b, -1) = -Cmp(b, -1, a, -1)
         /\ Cmp(a, n, b, m) = Cmp(a, -1, b, m) /\ Cmp(a, n, b, m) = Cmp(a, n, b, -1)
         /\ n < m => Cmp(a, n, b, m) = -1
    <2> HIDE DEF Cmp
    <2>1. CASE n = m
      BY <1>1, <1>5, <1>7, <2>1
    <2>2. CASE n # m
      BY <1>1, <1>5, <1>7, <1>8, <2>2
    <2>3. QED
      BY <2>1, <2>2
  <1>12. Cmp(a, n, b, m) = 0 <=> p = 0
    <2> HIDE DEF Cmp
    <2>1. CASE n = m
      BY <1>7, <2>1
    <2>2. CASE n # m
      BY <1>5, <1>6, <1>7, <1>8, <2>2
    <2>3. QED
      BY <2>1, <2>2
  <1>13. (Cmp(a, -1, b, -1) = 0) = (Cmp(a, n, b, m) = 0)
    <2> HIDE DEF Cmp
    <2>1. QED
      BY <1>7, <1>12
  <1>14. ~ign => (Cmp(a, n, b, m) = 0) = ~cstr_notequal_len(a, n, b, m)
    <2> HIDE DEF Cmp
    <2>1. ~ign => (Cmp(a, n, b, m) = 0 <=> a = b)
      BY <1>5, <1>10, <1>12
    <2>2. CASE a = b
      BY <1>9, <2>1, <2>2, Zenon
    <2>3. CASE a # b
      BY <1>9, <2>1, <2>3, Zenon
    <2>4. QED
      BY <2>2, <2>3
  <1>15. cstr_notequal(a, b) <=> cstr_notequal_len(a, n, b, m)
    BY <1>9 DEF cstr_notequal
  <1>16. QED
    BY <1>11, <1>13, <1>14, <1>15

-----------------------------------------------------------------------------
(* The run *)

\* The input of kind "word" is a sequence of bytes, that of kind "text" one of letters.
InputTypes ==
    /\ kind = "word" => in \in Seq(Words)
    /\ kind = "text" => in \in Seq(Letters)

LEMMA InputsGrow == Spec => []InputTypes
  <1>1. Init => InputTypes
    <2>1. Init => (kind = "word" \/ kind = "text" => in = <<>>)
      BY DEF Init
    <2>2. <<>> \in Seq(Words) /\ <<>> \in Seq(Letters)
      OBVIOUS
    <2>3. QED
      BY <2>1, <2>2, Zenon DEF InputTypes
  <1>2. InputTypes /\ [Next]_vars => InputTypes'
    <2>1. SUFFICES ASSUME InputTypes, [Next]_vars
                   PROVE  InputTypes'
      OBVIOUS
    <2>2. CASE UNCHANGED vars
      BY <2>1, <2>2 DEF InputTypes, vars
    <2>3. CASE Next
      <3>1. kind' = kind
        BY <2>3 DEF Next
      <3>2. ASSUME kind = "word" PROVE in' \in Seq(Words)
        <4>1. Grow("word", Words, MaxWord)
          BY <2>3, <3>2, Zenon DEF Next, Grow, NextMonth
        <4>2. PICK b \in Words : in' = Append(in, b)
          BY <4>1 DEF Grow
        <4>3. QED
          BY <2>1, <3>2, <4>2 DEF InputTypes
      <3>3. ASSUME kind = "text" PROVE in' \in Seq(Letters)
        <4>1. Grow("text", Letters, MaxText)
          BY <2>3, <3>3, Zenon DEF Next, Grow, NextMonth
        <4>2. PICK b \in Letters : in' = Append(in, b)
          BY <4>1 DEF Grow
        <4>3. QED
          BY <2>1, <3>3, <4>2 DEF InputTypes
      <3>4. QED
        BY <3>1, <3>2, <3>3 DEF InputTypes
    <2>4. QED
      BY <2>1, <2>2, <2>3
  <1>3. QED
    BY <1>1, <1>2, PTL DEF Spec

\* WireExact for words of any length: MaxWord is no bound of it.
THEOREM HelpersWireExact == Spec => []WireExact
  <1>1. InputTypes => WireExact
    <2>1. SUFFICES ASSUME in \in Seq(Words)
                   PROVE  WireExact
      BY Zenon DEF InputTypes, WireExact
    <2>2. /\ BO_htobe(in) = Reverse(in)
          /\ BO_betoh(BO_htobe(in)) = in /\ BO_letoh(BO_htole(in)) = in
          /\ BO_bytes_betoh(BO_htobe(in)) = in /\ BO_bytes_letoh(BO_htole(in)) = in
      BY <2>1, OrdersInverse
    <2>3. \A x : /\ BO_htobe(LittleBytes(x, 2)) = BigBytes(x, 2)
                 /\ BO_htole(LittleBytes(x, 2)) = LittleBytes(x, 2)
                 /\ BO_bytes_betoh(BigBytes(x, 2)) = LittleBytes(x, 2)
                 /\ BO_bytes_letoh(LittleBytes(x, 2)) = LittleBytes(x, 2)
      BY NumbersInOrder
    <2>4. PICK n : n = {i \in Bits : in[(i % N) + 1] > i}
      OBVIOUS
    <2>5. \A at \in Bits, v \in {0, 1} :
             /\ BO_change_bit(n, at, v)
                    = IF v = 1 THEN BO_set_bit(n, at) ELSE BO_clear_bit(n, at)
             /\ BO_check_bit(BO_toggle_bit(n, at), at) = 1 - BO_check_bit(n, at)
             /\ Xor(BO_toggle_bit(n, at), n) = {at}
      <3>1. n \in SUBSET Bits
        BY <2>4
      <3>2. QED
        BY <3>1, BitsAlone
    <2>6. QED
      BY <2>2, <2>3, <2>4, <2>5, Zenon DEF WireExact
  <1>2. QED
    BY <1>1, InputsGrow, PTL

\* ComparesInOrder for texts of any length: MaxText is no bound of it.
THEOREM HelpersComparesInOrder == Spec => []ComparesInOrder
  <1>1. InputTypes => ComparesInOrder
    <2>1. SUFFICES ASSUME in \in Seq(Letters), NEW i \in 0..N, NEW ign \in BOOLEAN
          PROVE  LET a == First(in, i)
                     b == From(in, i)
                     Cmp(x, xl, y, yl) == cstr_compare_len(x, xl, y, yl, ign)
                     m == N - i
                 IN  /\ Cmp(a, i, b, m) = -Cmp(b, m, a, i) /\ Cmp(a, -1, b, -1) = -Cmp(b, -1, a, -1)
                     /\ Cmp(a, i, b, m) = Cmp(a, -1, b, m) /\ Cmp(a, i, b, m) = Cmp(a, i, b, -1)
                     /\ i < m => Cmp(a, i, b, m) = -1
                     /\ (Cmp(a, -1, b, -1) = 0) = (Cmp(a, i, b, m) = 0)
                     /\ (~ign => (Cmp(a, i, b, m) = 0) = ~cstr_notequal_len(a, i, b, m))
                     /\ (cstr_notequal(a, b) <=> cstr_notequal_len(a, i, b, m))
                     /\ Cmp(Null, 0, a, i) = -1 /\ Cmp(a, i, Null, 0) = 1 /\ Cmp(Null, 0, Null, 0) = 0
      BY Zenon DEF InputTypes, ComparesInOrder, Text
    <2>2. PICK a, b, m : a = First(in, i) /\ b = From(in, i) /\ m = N - i
      OBVIOUS
    <2>3. in \in Lowered
      BY <2>1, LettersAssumption DEF Lowered
    <2>4. a \in Lowered /\ Len(a) = i
      <3>1. AtMost(i, Len(in)) = i
        BY <2>1 DEF AtMost, N
      <3>2. a = SubSeq(in, 1, i) /\ i \in 0..Len(in)
        BY <2>2, <3>1 DEF First, N
      <3>3. QED
        BY <2>3, <3>2 DEF Lowered
    <2>5. b \in Lowered /\ Len(b) = m
      <3>1. b = SubSeq(in, i + 1, Len(in)) /\ i \in 0..Len(in) /\ m = Len(in) - i
        BY <2>2 DEF From, N
      <3>2. QED
        BY <2>3, <3>1 DEF Lowered
    <2>6. /\ cstr_compare_len(Null, 0, a, i, ign) = -1
          /\ cstr_compare_len(a, i, Null, 0, ign) = 1
          /\ cstr_compare_len(Null, 0, Null, 0, ign) = 0
      <3>1. a # Null
        BY <2>4, TextWhole
      <3>2. QED
        BY <3>1 DEF cstr_compare_len
    <2>7. /\ cstr_compare_len(a, i, b, m, ign) = -cstr_compare_len(b, m, a, i, ign)
          /\ cstr_compare_len(a, -1, b, -1, ign) = -cstr_compare_len(b, -1, a, -1, ign)
          /\ cstr_compare_len(a, i, b, m, ign) = cstr_compare_len(a, -1, b, m, ign)
          /\ cstr_compare_len(a, i, b, m, ign) = cstr_compare_len(a, i, b, -1, ign)
          /\ i < m => cstr_compare_len(a, i, b, m, ign) = -1
          /\ (cstr_compare_len(a, -1, b, -1, ign) = 0) = (cstr_compare_len(a, i, b, m, ign) = 0)
          /\ (~ign => (cstr_compare_len(a, i, b, m, ign) = 0) = ~cstr_notequal_len(a, i, b, m))
          /\ (cstr_notequal(a, b) <=> cstr_notequal_len(a, i, b, m))
      BY <2>4, <2>5, ComparesConsistently
    <2>8. QED
      BY <2>2, <2>6, <2>7, Zenon
  <1>2. QED
    BY <1>1, InputsGrow, PTL

-----------------------------------------------------------------------------
(* Folds over the items of a list, for any operation that stays in a set *)

\* The interval of the first positions and its last one.
LEMMA Upto ==
    ASSUME NEW m \in Nat, NEW i \in 1..m
    PROVE  /\ 1..i \in SUBSET (1..m) /\ 1..i # {}
           /\ Max(1..i) = i /\ (1..i) \ {i} = 1..(i - 1)
  <1>1. i \in Nat /\ i <= m /\ i >= 1
    OBVIOUS
  <1>2. \A x \in 1..i : x \in 1..m
    BY <1>1
  <1>3. i \in 1..i
    BY <1>1
  <1>4. 1..i \in SUBSET (1..m) /\ 1..i # {}
    BY <1>2, <1>3, Zenon
  <1>5. PICK k : k = Max(1..i)
    OBVIOUS
  <1>6. k \in 1..i /\ \A x \in 1..i : x <= k
    BY <1>4, <1>5, MaxOf
  <1>7. k = i
    BY <1>1, <1>3, <1>6
  <1>8. (1..i) \ {i} = 1..(i - 1)
    BY <1>1
  <1>9. QED
    BY <1>4, <1>5, <1>7, <1>8

\* The steps of a fold over the positions 1..m with values in V; g gives for every set
\* of positions what the steps make of b, the last position last.
Steps(V, m) == [V \X (1..m) -> V]
IsTypedFold(g, V, b, F, m) ==
    /\ g \in [SUBSET (1..m) -> V]
    /\ \A s \in SUBSET (1..m) : g[s] = IF s = {} THEN b ELSE F[<<g[s \ {Max(s)}], Max(s)>>]

\* There is such a function, for any number of positions.
LEMMA TypedFoldExists ==
    ASSUME NEW V, NEW b \in V
    PROVE  \A m \in Nat : \A F \in Steps(V, m) : \E g : IsTypedFold(g, V, b, F, m)
  <1> DEFINE P(m) == \A F \in Steps(V, m) : \E g : IsTypedFold(g, V, b, F, m)
             T == {m \in Nat : ~P(m)}
  <1>1. SUFFICES ASSUME T # {} PROVE FALSE
    <2>1. SUFFICES \A m \in Nat : P(m)
      BY Zenon
    <2> HIDE DEF P
    <2>2. QED
      BY <1>1
  <1>2. PICK m \in T : \A y \in T : m <= y
    <2> HIDE DEF P
    <2>1. T \in SUBSET Nat
      OBVIOUS
    <2>2. QED
      BY <1>1, <2>1, NatLeast
  <1>3. m \in Nat /\ ~P(m)
    OBVIOUS
  <1>4. PICK F \in Steps(V, m) : ~ \E g : IsTypedFold(g, V, b, F, m)
    BY <1>3
  <1>5. m # 0
    <2>1. SUFFICES ASSUME m = 0 PROVE FALSE
      OBVIOUS
    <2>2. 1..m = {}
      BY <2>1
    <2>3. PICK g : g = [s \in SUBSET (1..m) |-> b]
      OBVIOUS
    <2>4. g \in [SUBSET (1..m) -> V]
      BY <2>3
    <2>5. IsTypedFold(g, V, b, F, m)
      BY <2>2, <2>3, <2>4 DEF IsTypedFold
    <2>6. QED
      BY <1>4, <2>5
  <1>6. PICK l \in Nat : l = m - 1
    BY <1>3, <1>5
  <1>7. P(l)
    <2> HIDE DEF P
    <2>1. l \notin T
      BY <1>2, <1>3, <1>6
    <2>2. QED
      BY <2>1
  <1>8. 1..l \subseteq 1..m /\ m \in 1..m
    BY <1>3, <1>6
  <1>9. PICK G : G = [x \in V \X (1..l) |-> F[x]]
    OBVIOUS
  <1>10. G \in Steps(V, l) /\ \A v \in V, i \in 1..l : G[<<v, i>>] = F[<<v, i>>]
    BY <1>8, <1>9 DEF Steps
  <1>11. PICK g : IsTypedFold(g, V, b, G, l)
    BY <1>7, <1>10
  <1> HIDE DEF P, T
  <1>12. PICK h : h = [s \in SUBSET (1..m) |-> IF m \in s THEN F[<<g[s \ {m}], m>>] ELSE g[s]]
    OBVIOUS
  <1>13. \A s \in SUBSET (1..m) : s \ {m} \in SUBSET (1..l) /\ (m \notin s => s \in SUBSET (1..l))
    <2>1. \A x \in 1..m : x # m => x \in 1..l
      BY <1>3, <1>6
    <2>2. QED
      BY <2>1
  <1>14. /\ \A s \in SUBSET (1..m) : m \notin s => h[s] = g[s]
         /\ \A s \in SUBSET (1..m) : m \in s => h[s] = F[<<g[s \ {m}], m>>]
    BY <1>12
  <1>15. h \in [SUBSET (1..m) -> V]
    <2>1. ASSUME NEW s \in SUBSET (1..m) PROVE h[s] \in V
      <3>1. CASE m \in s
        <4>1. g[s \ {m}] \in V
          BY <1>11, <1>13 DEF IsTypedFold
        <4>2. F[<<g[s \ {m}], m>>] \in V
          BY <1>8, <4>1 DEF Steps
        <4>3. QED
          BY <1>14, <3>1, <4>2
      <3>2. CASE m \notin s
        BY <1>11, <1>13, <1>14, <3>2 DEF IsTypedFold
      <3>3. QED
        BY <3>1, <3>2
    <2>2. QED
      BY <1>12, <2>1
  <1>16. ASSUME NEW s \in SUBSET (1..m)
         PROVE  h[s] = IF s = {} THEN b ELSE F[<<h[s \ {Max(s)}], Max(s)>>]
    <2>1. CASE s = {}
      <3>1. h[s] = g[s] /\ s \in SUBSET (1..l)
        BY <1>13, <1>14, <2>1
      <3>2. QED
        BY <1>11, <2>1, <3>1 DEF IsTypedFold
    <2>2. CASE s # {}
      <3>1. PICK k : k = Max(s)
        OBVIOUS
      <3>2. k \in s /\ \A x \in s : x <= k
        BY <1>3, <2>2, <3>1, MaxOf
      <3>3. s \ {k} \in SUBSET (1..m)
        OBVIOUS
      <3>4. CASE m \in s
        <4>1. k = m
          <5>1. m <= k /\ k \in 1..m
            BY <3>2, <3>4
          <5>2. QED
            BY <1>3, <5>1
        <4>2. h[s] = F[<<g[s \ {m}], m>>]
          BY <1>14, <3>4
        <4>3. h[s \ {m}] = g[s \ {m}]
          BY <1>14, <3>3, <4>1
        <4>4. QED
          BY <2>2, <3>1, <4>1, <4>2, <4>3, Zenon
      <3>5. CASE m \notin s
        <4>1. h[s] = g[s] /\ s \in SUBSET (1..l)
          BY <1>13, <1>14, <3>5
        <4>2. h[s \ {k}] = g[s \ {k}]
          BY <1>14, <3>3, <3>5
        <4>3. g[s] = G[<<g[s \ {k}], k>>]
          BY <1>11, <2>2, <3>1, <4>1, Zenon DEF IsTypedFold
        <4>4. G[<<g[s \ {k}], k>>] = F[<<g[s \ {k}], k>>]
          <5>1. k \in 1..l /\ s \ {k} \in SUBSET (1..l)
            BY <3>2, <4>1
          <5>2. g[s \ {k}] \in V
            BY <1>11, <5>1 DEF IsTypedFold
          <5>3. QED
            BY <1>10, <5>1, <5>2
        <4>5. QED
          BY <2>2, <3>1, <4>1, <4>2, <4>3, <4>4, Zenon
      <3>6. QED
        BY <3>4, <3>5
    <2>3. QED
      BY <2>1, <2>2
  <1>17. QED
    BY <1>4, <1>15, <1>16, Zenon DEF IsTypedFold

-----------------------------------------------------------------------------
(***************************************************************************)
(* The calendar: the code takes whole years and months off a number of     *)
(* days, the C library computes the day of a date.                         *)
(***************************************************************************)

TopYear == 9999
Years == 1970..TopYear
Months == 1..12

\* The years from the epoch on that time_is_valid admits.
LEMMA YearRange == \A y \in Int : y \in Years <=> 1970 <= y /\ y <= 9999
  <1>1. TopYear \in Int /\ TopYear = 9999
    BY DEF TopYear
  <1>2. QED
    BY <1>1 DEF Years
LEMMA YearIsNat == \A y \in Years : y \in Nat /\ 1970 <= y /\ y <= 9999
  <1>1. TopYear \in Int /\ TopYear = 9999
    BY DEF TopYear
  <1>2. QED
    BY <1>1 DEF Years

\* The day of a year's first, and the days of a year before a month.
NewYear(y) == DayOf(y, 1, 1)
Before(y, m) ==
    (367 * m - 362) \div 12 - IF m <= 2 THEN 0 ELSE 2 - YEAR_IS_LEAPYEAR(y)

LEMMA LeapYears ==
    ASSUME NEW y \in Nat
    PROVE  /\ YEAR_IS_LEAPYEAR(y) = IF LeapYear(y) THEN 1 ELSE 0
           /\ TM_YEAR_IS_LEAP(y) = YEAR_IS_LEAPYEAR(y) /\ YEAR_IS_LEAPYEAR(y) \in {0, 1}
  <1>1. y % 400 = 0 => y % 100 = 0
    OBVIOUS
  <1>2. y % 100 = 0 => y % 4 = 0
    OBVIOUS
  <1>3. QED
    BY <1>1, <1>2 DEF YEAR_IS_LEAPYEAR, TM_YEAR_IS_LEAP, LeapYear

LEMMA MonthLengths ==
    ASSUME NEW y \in Nat, NEW m \in Months
    PROVE  /\ mdays(y)[m] = IF m = 2 THEN 28 + YEAR_IS_LEAPYEAR(y)
                            ELSE IF m \in {4, 6, 9, 11} THEN 30 ELSE 31
           /\ mdays(y)[m] \in 28..31 /\ Before(y, m) \in 0..335 /\ Before(y, 1) = 0
  <1>1. PICK leap \in {0, 1} : leap = YEAR_IS_LEAPYEAR(y)
    BY LeapYears
  <1>2. m \in {1, 2, 3, 4, 5, 6, 7, 8, 9, 10, 11, 12}
    BY DEF Months
  <1>3. mdays(y)[m] = IF m = 2 THEN 28 + leap ELSE IF m \in {4, 6, 9, 11} THEN 30 ELSE 31
    BY <1>1, <1>2, SMT DEF mdays
  <1>4. /\ Before(y, m) = (367 * m - 362) \div 12 - IF m <= 2 THEN 0 ELSE 2 - leap
        /\ Before(y, 1) = (367 * 1 - 362) \div 12 - 0
    BY <1>1, SMT DEF Before
  <1>5. PICK d, b : d = mdays(y)[m] /\ b = Before(y, m)
    OBVIOUS
  <1>6. d \in 28..31 /\ b \in 0..335 /\ Before(y, 1) = 0
    BY <1>1, <1>2, <1>3, <1>4, <1>5
  <1>7. QED
    BY <1>1, <1>3, <1>5, <1>6

LEMMA MonthTypes ==
    ASSUME NEW y \in Nat, NEW m \in Months
    PROVE  mdays(y)[m] \in Int /\ Before(y, m) \in Int
  <1>1. mdays(y)[m] \in 28..31 /\ Before(y, m) \in 0..335
    BY MonthLengths
  <1>2. QED
    BY <1>1

LEMMA MonthNext ==
    ASSUME NEW y \in Nat, NEW m \in Months, m # 12
    PROVE  m + 1 \in Months /\ Before(y, m + 1) = Before(y, m) + mdays(y)[m]
  <1>1. PICK leap \in {0, 1} : leap = YEAR_IS_LEAPYEAR(y)
    BY LeapYears
  <1>2. m \in {1, 2, 3, 4, 5, 6, 7, 8, 9, 10, 11}
    BY DEF Months
  <1>3. mdays(y)[m] = IF m = 2 THEN 28 + leap ELSE IF m \in {4, 6, 9, 11} THEN 30 ELSE 31
    BY <1>1, <1>2, SMT DEF mdays
  <1>4. /\ Before(y, m) = (367 * m - 362) \div 12 - IF m <= 2 THEN 0 ELSE 2 - leap
        /\ Before(y, m + 1) = (367 * (m + 1) - 362) \div 12 - IF m + 1 <= 2 THEN 0 ELSE 2 - leap
    BY <1>1, SMT DEF Before
  <1>5. PICK d, b, e : d = mdays(y)[m] /\ b = Before(y, m) /\ e = Before(y, m + 1)
    OBVIOUS
  <1>6. e = b + d
    BY <1>1, <1>2, <1>3, <1>4, <1>5
  <1>7. QED
    BY <1>2, <1>5, <1>6 DEF Months

LEMMA YearEnds ==
    ASSUME NEW y \in Nat
    PROVE  Before(y, 12) = 334 + YEAR_IS_LEAPYEAR(y) /\ mdays(y)[12] = 31
  <1>1. PICK leap \in {0, 1} : leap = YEAR_IS_LEAPYEAR(y)
    BY LeapYears
  <1>2. Before(y, 12) = (367 * 12 - 362) \div 12 - (2 - leap)
    BY <1>1, SMT DEF Before
  <1>3. QED
    BY <1>1, <1>2, SMT DEF mdays

\* What the library computes for a date is the day of its year, month and day.
LEMMA DayOfDate ==
    ASSUME NEW y \in Nat, y > 0, NEW m \in Months, NEW d \in Int
    PROVE  /\ DayOf(y, m, d) = NewYear(y) + Before(y, m) + d - 1
           /\ NewYear(y) \in Int /\ NewYear(y + 1) = NewYear(y) + 365 + YEAR_IS_LEAPYEAR(y)
  <1>1. PICK leap \in {0, 1} : leap = YEAR_IS_LEAPYEAR(y)
    BY LeapYears
  <1>2. PICK a \in Nat : a = y - 1
    OBVIOUS
  <1>3. PICK c \in Int, e \in Int : c = a \div 4 - a \div 100 + a \div 400
                                 /\ e = y \div 4 - y \div 100 + y \div 400
    BY <1>2
  <1>4. e = c + leap
    <2>1. y \div 4 = a \div 4 + IF y % 4 = 0 THEN 1 ELSE 0
      BY <1>2
    <2>2. y \div 100 = a \div 100 + IF y % 100 = 0 THEN 1 ELSE 0
      BY <1>2
    <2>3. y \div 400 = a \div 400 + IF y % 400 = 0 THEN 1 ELSE 0
      BY <1>2
    <2>4. (y % 400 = 0 => y % 100 = 0) /\ (y % 100 = 0 => y % 4 = 0)
      OBVIOUS
    <2>5. QED
      BY <1>1, <1>2, <1>3, <2>1, <2>2, <2>3, <2>4 DEF YEAR_IS_LEAPYEAR
  <1>5. PICK p : p = [k \in Months |-> (153 * ((k + 9) % 12) + 2) \div 5]
    OBVIOUS
  <1>6. /\ p[1] = 306 /\ p[2] = 337 /\ p[3] = 0 /\ p[4] = 31 /\ p[5] = 61 /\ p[6] = 92
        /\ p[7] = 122 /\ p[8] = 153 /\ p[9] = 184 /\ p[10] = 214 /\ p[11] = 245 /\ p[12] = 275
    BY <1>5 DEF Months
  <1>7. PICK z \in Int : z = 719468
    BY SMT
  <1>8. DayOf(y, m, d) = IF m <= 2 THEN 365 * a + c + (p[m] + d - 1) - z
                         ELSE 365 * y + e + (p[m] + d - 1) - z
    <2>1. p[m] = (153 * ((m + 9) % 12) + 2) \div 5 /\ m \in Int
      BY <1>5 DEF Months
    <2>2. CASE m <= 2
      BY <1>2, <1>3, <1>7, <2>1, <2>2, SMT DEF DayOf
    <2>3. CASE ~ (m <= 2)
      BY <1>2, <1>3, <1>7, <2>1, <2>3, SMT DEF DayOf
    <2>4. QED
      BY <2>2, <2>3
  <1>9. NewYear(y) = 365 * a + c + 306 - z /\ NewYear(y + 1) = 365 * y + e + 306 - z
    <2>1. (y + 1) - 1 = y
      OBVIOUS
    <2>2. QED
      BY <1>2, <1>3, <1>7, <2>1, SMT DEF DayOf, NewYear
  <1>10. PICK b : b = [k \in Months |-> (367 * k - 362) \div 12 - IF k <= 2 THEN 0 ELSE 2 - leap]
    OBVIOUS
  <1>11. Before(y, m) = b[m]
    BY <1>1, <1>10, SMT DEF Before
  <1>12. m \in {1, 2, 3, 4, 5, 6, 7, 8, 9, 10, 11, 12}
    BY DEF Months
  <1>13. IF m <= 2 THEN p[m] = 306 + b[m]
         ELSE p[m] + 365 + leap = 306 + b[m]
    BY <1>1, <1>6, <1>10, <1>12
  <1>14. p[m] \in Int /\ b[m] \in Int
    BY <1>1, <1>5, <1>10 DEF Months
  <1>15. DayOf(y, m, d) = NewYear(y) + b[m] + d - 1
    BY <1>2, <1>4, <1>8, <1>9, <1>12, <1>13, <1>14
  <1>16. QED
    BY <1>1, <1>2, <1>4, <1>9, <1>11, <1>15

\* A year has 365 or 366 days, so far years lie far apart.
LEMMA YearsApart ==
    ASSUME NEW y \in Nat, y > 0
    PROVE  \A k \in Nat : /\ NewYear(y + k) \in Int
                          /\ NewYear(y + k) - NewYear(y) \in (365 * k)..(366 * k)
  <1> DEFINE P(k) == /\ NewYear(y + k) \in Int
                     /\ NewYear(y + k) - NewYear(y) \in (365 * k)..(366 * k)
             T == {k \in Nat : ~P(k)}
  <1>1. \A x \in Nat : x > 0 => /\ NewYear(x) \in Int
                                /\ NewYear(x + 1) = NewYear(x) + 365 + YEAR_IS_LEAPYEAR(x)
                                /\ YEAR_IS_LEAPYEAR(x) \in {0, 1}
    BY DayOfDate, LeapYears DEF Months
  <1>2. P(0)
    <2>1. y + 0 = y
      OBVIOUS
    <2>2. QED
      BY <1>1, <2>1
  <1>3. \A k \in Nat : P(k) => P(k + 1)
    <2>1. SUFFICES ASSUME NEW k \in Nat, P(k) PROVE P(k + 1)
      OBVIOUS
    <2>2. PICK x \in Nat : x = y + k
      OBVIOUS
    <2>3. y + (k + 1) = x + 1 /\ x > 0
      BY <2>2
    <2>4. NewYear(x) \in Int /\ NewYear(x) - NewYear(y) \in (365 * k)..(366 * k)
      BY <2>1, <2>2
    <2>5. /\ NewYear(x + 1) \in Int
          /\ NewYear(x + 1) - NewYear(y) \in (365 * (k + 1))..(366 * (k + 1))
      <3>1. PICK a, b, c, leap : /\ a = NewYear(y) /\ b = NewYear(x) /\ c = NewYear(x + 1)
                                 /\ leap = YEAR_IS_LEAPYEAR(x)
        OBVIOUS
      <3>2. a \in Int /\ b \in Int /\ c = b + 365 + leap /\ leap \in {0, 1}
        BY <1>1, <2>3, <3>1
      <3>3. b - a \in (365 * k)..(366 * k)
        BY <2>4, <3>1
      <3>4. c \in Int /\ c - a \in (365 * (k + 1))..(366 * (k + 1))
        BY <3>2, <3>3
      <3>5. QED
        BY <3>1, <3>4
    <2>6. QED
      BY <2>3, <2>5
  <1> HIDE DEF P
  <1>4. SUFFICES ASSUME T # {} PROVE FALSE
    <2>1. SUFFICES \A k \in Nat : P(k)
      BY Zenon DEF P
    <2>2. QED
      BY <1>4
  <1>5. PICK k \in T : \A l \in T : k <= l
    <2>1. T \in SUBSET Nat
      OBVIOUS
    <2>2. QED
      BY <1>4, <2>1, NatLeast
  <1>6. k \in Nat /\ k # 0 /\ k - 1 \in Nat /\ ~P(k)
    BY <1>2, <1>5
  <1>7. P(k - 1)
    <2>1. ~ (k <= k - 1)
      BY <1>6
    <2>2. QED
      BY <1>5, <1>6, <2>1
  <1>8. (k - 1) + 1 = k
    BY <1>6
  <1>9. QED
    BY <1>3, <1>6, <1>7, <1>8

\* So a day lies in one year only.
LEMMA YearOnce ==
    ASSUME NEW y \in Nat, NEW z \in Nat, y > 0, z > 0, NEW n \in Int,
           NewYear(y) <= n, n < NewYear(y + 1), NewYear(z) <= n, n < NewYear(z + 1)
    PROVE  y = z
  <1>1. ASSUME NEW a \in Nat, NEW b \in Nat, a > 0, a < b,
               NewYear(b) <= n, n < NewYear(a + 1)
        PROVE  FALSE
    <2>1. PICK k \in Nat, x \in Nat : x = a + 1 /\ x > 0 /\ x + k = b
      <3>1. b - (a + 1) \in Nat /\ (a + 1) + (b - (a + 1)) = b
        BY <1>1
      <3>2. QED
        BY <3>1
    <2>2. NewYear(x + k) \in Int /\ NewYear(x + k) - NewYear(x) \in (365 * k)..(366 * k)
      BY <2>1, YearsApart
    <2>3. NewYear(b) \in Int /\ NewYear(b) - NewYear(a + 1) \in (365 * k)..(366 * k)
      BY <2>1, <2>2, Zenon
    <2>4. NewYear(a + 1) \in Int
      BY <1>1, DayOfDate DEF Months
    <2>5. PICK c \in Int, d \in Int : c = NewYear(b) /\ d = NewYear(a + 1)
      BY <2>3, <2>4
    <2>6. c - d \in (365 * k)..(366 * k) /\ c <= n /\ n < d
      BY <1>1, <2>3, <2>5
    <2>7. QED
      BY <2>6
  <1>2. ~ (y < z) /\ ~ (z < y)
    BY <1>1
  <1>3. QED
    BY <1>2

\* Taking off the years from 1970 comes to the same: the days of those before y.
LEMMA YearsTakenOff ==
    ASSUME NEW k \in Nat
    PROVE  DaysTo(1970 + k) = NewYear(1970 + k)
  <1>1. PICK e \in Nat : e = 1970
    BY SMT
  <1>2. \A y : DaysTo(y) = 365 * (y - e) + Cardinality({z \in e..(y - 1) : YEAR_IS_LEAPYEAR(z) = 1})
    BY <1>1, SMT DEF DaysTo
  <1>3. DaysTo(e) = 0
    <2>1. {z \in e..(e - 1) : YEAR_IS_LEAPYEAR(z) = 1} = {}
      OBVIOUS
    <2>2. Cardinality({z \in e..(e - 1) : YEAR_IS_LEAPYEAR(z) = 1}) = 0
      BY <2>1, FS_EmptySet
    <2>3. QED
      BY <1>2, <2>2
  <1>4. NewYear(e) = 0
    BY <1>1, SMT DEF NewYear, DayOf
  <1>5. ASSUME NEW y \in Nat, y >= e
        PROVE  /\ DaysTo(y) \in Int
               /\ DaysTo(y + 1) = DaysTo(y) + 365 + YEAR_IS_LEAPYEAR(y)
    <2>1. PICK s : s = {z \in e..(y - 1) : YEAR_IS_LEAPYEAR(z) = 1}
      OBVIOUS
    <2>2. PICK t : t = {z \in e..((y + 1) - 1) : YEAR_IS_LEAPYEAR(z) = 1}
      OBVIOUS
    <2>3. IsFiniteSet(s) /\ Cardinality(s) \in Nat
      <3>1. IsFiniteSet(e..(y - 1))
        BY FS_Interval
      <3>2. s \in SUBSET (e..(y - 1))
        BY <2>1
      <3>3. IsFiniteSet(s)
        BY <3>1, <3>2, FS_Subset
      <3>4. QED
        BY <3>3, FS_CardinalityType
    <2>4. y \notin s
      BY <2>1
    <2>5. t = IF YEAR_IS_LEAPYEAR(y) = 1 THEN s \cup {y} ELSE s
      <3>1. \A z : z \in e..((y + 1) - 1) <=> z \in e..(y - 1) \/ z = y
        BY <1>5
      <3>2. QED
        BY <2>1, <2>2, <3>1
    <2>6. PICK leap \in {0, 1} : leap = YEAR_IS_LEAPYEAR(y)
      BY LeapYears
    <2>7. Cardinality(t) = Cardinality(s) + leap
      <3>1. CASE leap = 1
        BY <2>3, <2>4, <2>5, <2>6, <3>1, FS_AddElement
      <3>2. CASE leap = 0
        BY <2>3, <2>5, <2>6, <3>2
      <3>3. QED
        BY <3>1, <3>2
    <2>8. DaysTo(y) = 365 * (y - e) + Cardinality(s)
      BY <1>2, <2>1, Zenon
    <2>9. DaysTo(y + 1) = 365 * ((y + 1) - e) + Cardinality(t)
      BY <1>2, <2>2, Zenon
    <2>10. PICK c \in Nat : c = Cardinality(s)
      BY <2>3
    <2>11. QED
      BY <2>6, <2>7, <2>8, <2>9, <2>10
  <1>6. SUFFICES ASSUME DaysTo(e + k) # NewYear(e + k) PROVE FALSE
    BY <1>1, SMT
  <1>7. PICK U : U = {i \in Nat : DaysTo(e + i) # NewYear(e + i)}
    OBVIOUS
  <1>8. PICK i \in U : \A j \in U : i <= j
    <2>1. U \in SUBSET Nat /\ U # {}
      BY <1>6, <1>7
    <2>2. QED
      BY <2>1, NatLeast
  <1>9. i \in Nat /\ i # 0 /\ DaysTo(e + i) # NewYear(e + i)
    <2>1. e + 0 = e
      OBVIOUS
    <2>2. QED
      BY <1>3, <1>4, <1>7, <1>8, <2>1
  <1>10. PICK x \in Nat : x = e + (i - 1)
    BY <1>9
  <1>11. DaysTo(x) = NewYear(x)
    <2>1. i - 1 \in Nat /\ ~ (i <= i - 1)
      BY <1>9
    <2>2. QED
      BY <1>7, <1>8, <1>10, <2>1
  <1>12. x + 1 = e + i /\ x > 0 /\ x >= e
    BY <1>1, <1>9, <1>10, SMT
  <1>13. NewYear(x + 1) = NewYear(x) + 365 + YEAR_IS_LEAPYEAR(x)
    BY <1>12, DayOfDate DEF Months
  <1>14. DaysTo(x + 1) = DaysTo(x) + 365 + YEAR_IS_LEAPYEAR(x)
    BY <1>5, <1>12
  <1>15. QED
    BY <1>9, <1>11, <1>12, <1>13, <1>14, Zenon

\* n is the day since 1970-01-01 of the date.
IsDate(y, m, d, n) ==
    /\ y \in Nat /\ y >= 1970 /\ m \in Months /\ d \in 1..mdays(y)[m]
    /\ n = NewYear(y) + Before(y, m) + d - 1

LEMMA MonthsApart ==
    ASSUME NEW y \in Nat, NEW m \in Months, NEW k \in Months, m < k
    PROVE  Before(y, m) + mdays(y)[m] <= Before(y, k)
  <1>1. PICK leap \in {0, 1} : leap = YEAR_IS_LEAPYEAR(y)
    BY LeapYears
  <1>2. m # 12 /\ m + 1 \in Nat /\ m + 1 <= k /\ m \in Nat /\ k \in Nat
    BY DEF Months
  <1>3. /\ Before(y, m + 1) = (367 * (m + 1) - 362) \div 12 - IF m + 1 <= 2 THEN 0 ELSE 2 - leap
        /\ Before(y, k) = (367 * k - 362) \div 12 - IF k <= 2 THEN 0 ELSE 2 - leap
    BY <1>1, SMT DEF Before
  <1>4. Before(y, m + 1) = Before(y, m) + mdays(y)[m]
    BY <1>2, MonthNext
  <1>5. PICK a, b : a = Before(y, m + 1) /\ b = Before(y, k)
    OBVIOUS
  <1>6. a <= b
    <2>1. CASE k <= 2
      BY <1>1, <1>2, <1>3, <1>5, <2>1
    <2>2. CASE k > 2 /\ m + 1 <= 2
      BY <1>1, <1>2, <1>3, <1>5, <2>2
    <2>3. CASE m + 1 > 2
      BY <1>1, <1>2, <1>3, <1>5, <2>3
    <2>4. QED
      BY <1>2, <2>1, <2>2, <2>3
  <1>7. QED
    BY <1>4, <1>5, <1>6

\* A date lies in its year and in its month.
LEMMA DateInYear ==
    ASSUME NEW y, NEW m, NEW d, NEW n, IsDate(y, m, d, n)
    PROVE  /\ y \in Nat /\ y > 0 /\ y + 1 \in Nat /\ n \in Nat /\ NewYear(y) \in Nat
           /\ NewYear(y) <= n /\ n < NewYear(y + 1)
           /\ Before(y, m) <= n - NewYear(y) /\ n - NewYear(y) < Before(y, m) + mdays(y)[m]
           /\ y \in (1970 + n \div 366)..(1970 + n \div 365)
           /\ mdays(y)[m] \in 28..31 /\ Before(y, m) \in 0..335
  <1>1. y \in Nat /\ y > 0 /\ m \in Months /\ d \in 1..mdays(y)[m]
    BY SMT DEF IsDate
  <1>2. PICK k \in Nat : k = y - 1970
    BY SMT DEF IsDate
  <1>2a. y = 1970 + k
    BY <1>1, <1>2, SMT
  <1>3. PICK leap \in {0, 1} : leap = YEAR_IS_LEAPYEAR(y)
    BY <1>1, LeapYears
  <1>4. PICK a, b, l, c : a = NewYear(y) /\ b = Before(y, m) /\ l = mdays(y)[m] /\ c = NewYear(y + 1)
    OBVIOUS
  <1>5. l \in 28..31 /\ b \in 0..335 /\ b + l <= 365 + leap
    <2>1. l \in 28..31 /\ b \in 0..335
      BY <1>1, <1>4, MonthLengths
    <2>2. Before(y, 12) = 334 + leap /\ mdays(y)[12] = 31
      BY <1>1, <1>3, YearEnds
    <2>3. CASE m = 12
      BY <1>3, <1>4, <2>1, <2>2, <2>3
    <2>4. CASE m # 12
      <3>1. 12 \in Months /\ m < 12
        BY <1>1, <2>4 DEF Months
      <3>2. b + l <= Before(y, 12)
        BY <1>1, <1>4, <3>1, MonthsApart
      <3>3. QED
        BY <1>3, <2>1, <2>2, <3>2
    <2>5. QED
      BY <2>1, <2>3, <2>4
  <1>6. a \in (365 * k)..(366 * k)
    <2>1. NewYear(1970) = 0
      BY SMT DEF NewYear, DayOf
    <2>2. NewYear(1970 + k) - NewYear(1970) \in (365 * k)..(366 * k) /\ NewYear(1970 + k) \in Int
      BY YearsApart, SMT
    <2>3. QED
      BY <1>2a, <1>4, <2>1, <2>2, SMT
  <1>7. c = a + 365 + leap
    BY <1>1, <1>3, <1>4, DayOfDate
  <1>8. n = a + b + d - 1 /\ d \in 1..l
    BY <1>1, <1>4, SMT DEF IsDate
  <1>9. n \in Nat /\ a \in Nat /\ a <= n /\ n < c /\ b <= n - a /\ n - a < b + l
    BY <1>3, <1>5, <1>6, <1>7, <1>8
  <1>10. n \div 366 <= k /\ k <= n \div 365
    <2>1. 365 * k <= n /\ n < 366 * k + 366
      BY <1>3, <1>6, <1>7, <1>9
    <2>2. QED
      BY <1>9, <2>1
  <1>11. y \in (1970 + n \div 366)..(1970 + n \div 365)
    BY <1>1, <1>2a, <1>9, <1>10, SMT
  <1>12. QED
    BY <1>1, <1>4, <1>5, <1>9, <1>11

\* Every day from 1970 on has a date.
LEMMA DateExists ==
    ASSUME NEW n \in Nat
    PROVE  \E y, m, d : IsDate(y, m, d, n)
  <1>1. PICK e \in Nat : e = 1970
    BY SMT
  <1>2. NewYear(e) = 0 /\ e > 0
    BY <1>1, SMT DEF NewYear, DayOf
  <1>3. \A k \in Nat : NewYear(e + k) \in Int /\ NewYear(e + k) >= 365 * k
    BY <1>2, YearsApart
  <1>4. PICK T : T = {k \in 0..n : NewYear(e + k) <= n}
    OBVIOUS
  <1>5. PICK k \in T : \A j \in T : j <= k
    <2>1. T \in SUBSET (0..n)
      BY <1>4
    <2>2. e + 0 = e
      OBVIOUS
    <2>3. 0 \in T
      BY <1>2, <1>4, <2>2
    <2>4. QED
      BY <2>1, <2>3, NatGreatest
  <1>6. PICK y \in Nat : y = e + k
    BY <1>4
  <1>7. k \in Nat /\ k <= n /\ NewYear(y) <= n /\ NewYear(y) \in Int /\ y >= e /\ y > 0
    BY <1>2, <1>3, <1>4, <1>6
  <1>8. n < NewYear(y + 1)
    <2>1. y + 1 = e + (k + 1) /\ k + 1 \in Nat /\ ~ (k + 1 <= k)
      BY <1>6, <1>7
    <2>2. k + 1 \notin T
      BY <1>5, <1>7, <2>1
    <2>3. NewYear(y + 1) \in Int /\ NewYear(y + 1) >= 365 * (k + 1)
      BY <1>3, <2>1
    <2>4. CASE k + 1 \in 0..n
      BY <1>4, <2>1, <2>2, <2>3, <2>4
    <2>5. CASE k + 1 \notin 0..n
      <3>1. k + 1 > n
        BY <1>7, <2>5
      <3>2. QED
        BY <1>7, <2>3, <3>1
    <2>6. QED
      BY <2>4, <2>5
  <1>9. PICK x \in Nat : x = n - NewYear(y)
    BY <1>7
  <1>10. PICK leap \in {0, 1} : leap = YEAR_IS_LEAPYEAR(y)
    BY LeapYears
  <1>11. x < 365 + leap
    <2>1. NewYear(y + 1) = NewYear(y) + 365 + leap
      BY <1>7, <1>10, DayOfDate DEF Months
    <2>2. QED
      BY <1>7, <1>8, <1>9, <1>10, <2>1
  <1>12. PICK M : M = {i \in Months : Before(y, i) <= x}
    OBVIOUS
  <1>13. PICK m \in M : \A i \in M : i <= m
    <2>1. M \in SUBSET (0..12)
      BY <1>12 DEF Months
    <2>2. Before(y, 1) = 0 /\ 1 \in Months
      BY MonthLengths DEF Months
    <2>3. 1 \in M
      BY <1>9, <1>12, <2>2
    <2>4. QED
      BY <2>1, <2>3, NatGreatest
  <1>14. m \in Months /\ Before(y, m) <= x
    BY <1>12
  <1>15. PICK b, l : b = Before(y, m) /\ l = mdays(y)[m]
    OBVIOUS
  <1>16. b \in 0..335 /\ l \in 28..31 /\ b <= x
    BY <1>14, <1>15, MonthLengths
  <1>17. x < b + l
    <2>1. CASE m = 12
      BY <1>10, <1>11, <1>15, <2>1, YearEnds
    <2>2. CASE m # 12
      <3>1. m + 1 \in Months /\ Before(y, m + 1) = b + l
        BY <1>14, <1>15, <2>2, MonthNext
      <3>2. ~ (m + 1 <= m)
        BY <1>14 DEF Months
      <3>3. m + 1 \notin M
        BY <1>13, <3>2
      <3>4. ~ (Before(y, m + 1) <= x)
        BY <1>12, <3>1, <3>3
      <3>5. QED
        BY <1>9, <1>16, <3>1, <3>4
    <2>3. QED
      BY <2>1, <2>2
  <1>18. PICK d : d = x - b + 1
    OBVIOUS
  <1>19. d \in 1..l
    BY <1>14, <1>15, <1>16, <1>17, <1>18
  <1>20. n = NewYear(y) + b + d - 1
    BY <1>7, <1>9, <1>16, <1>18
  <1>21. IsDate(y, m, d, n)
    BY <1>1, <1>7, <1>14, <1>15, <1>19, <1>20, SMT DEF IsDate
  <1>22. QED
    BY <1>21

\* The year that a loop or the library looks for is the one the day lies in.
LEMMA YearFound ==
    ASSUME NEW y, NEW m, NEW d, NEW n, IsDate(y, m, d, n)
    PROVE  YearOf(n) = y /\ CivilYear(n) = y
  <1>1. /\ y \in Nat /\ y > 0 /\ n \in Nat /\ NewYear(y) <= n /\ n < NewYear(y + 1)
        /\ y \in (1970 + n \div 366)..(1970 + n \div 365)
    BY DateInYear
  <1>2. n \div 366 \in Nat /\ n \div 365 \in Nat
    BY <1>1
  <1>3. PICK lo \in Nat, hi \in Nat : lo = 1970 + n \div 366 /\ hi = 1970 + n \div 365
    BY <1>2, SMT
  <1>4. \A z \in lo..hi : z \in Nat /\ z > 0 /\ DaysTo(z) = NewYear(z) /\ DaysTo(z + 1) = NewYear(z + 1)
    <2>1. ASSUME NEW z \in lo..hi
          PROVE  z \in Nat /\ z > 0 /\ DaysTo(z) = NewYear(z) /\ DaysTo(z + 1) = NewYear(z + 1)
      <3>1. z \in Nat /\ z >= 1970
        BY <1>2, <1>3, SMT
      <3>2. PICK k \in Nat : k = z - 1970
        BY <3>1, SMT
      <3>3. z = 1970 + k /\ z + 1 = 1970 + (k + 1) /\ z > 0
        BY <3>1, <3>2, SMT
      <3>4. /\ DaysTo(1970 + k) = NewYear(1970 + k)
            /\ DaysTo(1970 + (k + 1)) = NewYear(1970 + (k + 1))
        BY YearsTakenOff, SMT
      <3>5. QED
        BY <3>1, <3>3, <3>4, SMT
    <2>2. QED
      BY <2>1, Zenon
  <1>5. y \in lo..hi
    BY <1>1, <1>3, SMT
  <1>6. PICK a : a = CHOOSE z \in lo..hi : DaysTo(z) <= n /\ n < DaysTo(z + 1)
    OBVIOUS
  <1>7. a \in lo..hi /\ DaysTo(a) <= n /\ n < DaysTo(a + 1)
    <2>1. \E z \in lo..hi : DaysTo(z) <= n /\ n < DaysTo(z + 1)
      BY <1>1, <1>4, <1>5
    <2>2. QED
      BY <1>6, <2>1, Zenon
  <1>8. a = y
    BY <1>1, <1>4, <1>7, YearOnce
  <1>9. YearOf(n) = a
    <2>1. ~ (n < 0)
      BY <1>1
    <2>2. YearOf(n) = CHOOSE z \in (1970 + n \div 366)..(1970 + n \div 365) :
                         DaysTo(z) <= n /\ n < DaysTo(z + 1)
      BY <2>1, SMT DEF YearOf
    <2>3. QED
      BY <1>3, <1>6, <2>2, SMT
  <1>10. PICK le \in Nat, he \in Nat : le = 1968 + n \div 366 /\ he = 1971 + n \div 365
    BY <1>2, SMT
  <1>11. y \in le..he /\ \A z \in le..he : z \in Nat /\ z > 0
    BY <1>1, <1>2, <1>10, SMT
  <1>12. PICK b : b = CHOOSE z \in le..he : DayOf(z, 1, 1) <= n /\ n < DayOf(z + 1, 1, 1)
    OBVIOUS
  <1>13. b \in le..he /\ NewYear(b) <= n /\ n < NewYear(b + 1)
    <2>1. \E z \in le..he : DayOf(z, 1, 1) <= n /\ n < DayOf(z + 1, 1, 1)
      BY <1>1, <1>11 DEF NewYear
    <2>2. QED
      BY <1>12, <2>1, Zenon DEF NewYear
  <1>14. b = y
    BY <1>1, <1>11, <1>13, YearOnce
  <1>15. CivilYear(n) = b
    BY <1>10, <1>12, SMT DEF CivilYear
  <1>16. QED
    BY <1>8, <1>9, <1>14, <1>15

\* So gmtime gives the date.
LEMMA CivilIs ==
    ASSUME NEW y, NEW m, NEW d, NEW n, IsDate(y, m, d, n)
    PROVE  Civil(n) = [year |-> y, mon |-> m, day |-> d] /\ DayOf(y, m, d) = n
  <1>1. /\ y \in Nat /\ y > 0 /\ n \in Nat /\ NewYear(y) <= n /\ n < NewYear(y + 1) /\ NewYear(y) \in Nat
        /\ Before(y, m) <= n - NewYear(y) /\ n - NewYear(y) < Before(y, m) + mdays(y)[m]
        /\ mdays(y)[m] \in 28..31 /\ Before(y, m) \in 0..335 /\ NewYear(y + 1) \in Int
    <2>1. y + 1 \in Nat /\ y + 1 > 0
      BY DateInYear
    <2>2. NewYear(y + 1) \in Int
      BY <2>1, DayOfDate DEF Months
    <2>3. QED
      BY <2>2, DateInYear
  <1>2. m \in Months /\ d \in 1..mdays(y)[m] /\ n = NewYear(y) + Before(y, m) + d - 1
    BY SMT DEF IsDate
  <1>3. \A k \in Months : DayOf(y, k, 1) = NewYear(y) + Before(y, k) + 1 - 1
    BY <1>1, DayOfDate
  <1>4. \A k \in Months :
            DayOf(y + k \div 12, (k % 12) + 1, 1) = NewYear(y) + Before(y, k) + mdays(y)[k]
    <2>1. TAKE k \in Months
    <2>2. CASE k = 12
      <3>1. y + k \div 12 = y + 1 /\ (k % 12) + 1 = 1
        BY <2>2
      <3>2. DayOf(y + k \div 12, (k % 12) + 1, 1) = NewYear(y + 1)
        BY <3>1, Zenon DEF NewYear
      <3>3. NewYear(y + 1) = NewYear(y) + 365 + YEAR_IS_LEAPYEAR(y)
        BY <1>1, DayOfDate DEF Months
      <3>4. Before(y, 12) = 334 + YEAR_IS_LEAPYEAR(y) /\ mdays(y)[12] = 31
        BY <1>1, YearEnds
      <3>5. YEAR_IS_LEAPYEAR(y) \in {0, 1}
        BY <1>1, LeapYears
      <3>6. QED
        BY <1>1, <2>2, <3>2, <3>3, <3>4, <3>5
    <2>3. CASE k # 12
      <3>1. y + k \div 12 = y /\ (k % 12) + 1 = k + 1
        BY <1>1, <2>3 DEF Months
      <3>2. k + 1 \in Months /\ Before(y, k + 1) = Before(y, k) + mdays(y)[k]
        BY <1>1, <2>3, MonthNext
      <3>3. DayOf(y, k + 1, 1) = NewYear(y) + Before(y, k + 1) + 1 - 1
        BY <1>3, <3>2, Zenon
      <3>4. Before(y, k) \in Int /\ mdays(y)[k] \in Int
        BY <1>1, MonthTypes
      <3>5. DayOf(y + k \div 12, (k % 12) + 1, 1) = DayOf(y, k + 1, 1)
        BY <3>1, Zenon
      <3>6. QED
        BY <1>1, <3>2, <3>3, <3>4, <3>5
    <2>4. QED
      BY <2>2, <2>3
  <1>5. PICK a : a = CHOOSE k \in Months : DayOf(y, k, 1) <= n
                                           /\ n < DayOf(y + k \div 12, (k % 12) + 1, 1)
    OBVIOUS
  <1>6. a \in Months /\ DayOf(y, a, 1) <= n /\ n < DayOf(y + a \div 12, (a % 12) + 1, 1)
    <2>1. /\ DayOf(y, m, 1) = NewYear(y) + Before(y, m) + 1 - 1
          /\ DayOf(y + m \div 12, (m % 12) + 1, 1) = NewYear(y) + Before(y, m) + mdays(y)[m]
      BY <1>2, <1>3, <1>4, Zenon
    <2>2. PICK p, q : p = DayOf(y, m, 1) /\ q = DayOf(y + m \div 12, (m % 12) + 1, 1)
      OBVIOUS
    <2>3. PICK c \in Int, e \in Int, f1 \in Int : c = NewYear(y) /\ e = Before(y, m) /\ f1 = mdays(y)[m]
      BY <1>1, <1>2, MonthTypes
    <2>4. p <= n /\ n < q
      <3>1. p = c + e + 1 - 1 /\ q = c + e + f1
        BY <2>1, <2>2, <2>3, Zenon
      <3>2. e <= n - c /\ n - c < e + f1 /\ n \in Int
        BY <1>1, <2>3
      <3>3. QED
        BY <3>1, <3>2
    <2>5. DayOf(y, m, 1) <= n /\ n < DayOf(y + m \div 12, (m % 12) + 1, 1)
      BY <2>2, <2>4, Zenon
    <2>6. QED
      BY <1>2, <1>5, <2>5, Zenon
  <1>7. Before(y, a) <= n - NewYear(y) /\ n - NewYear(y) < Before(y, a) + mdays(y)[a]
    <2>1. Before(y, a) \in Int /\ mdays(y)[a] \in Int
      BY <1>1, <1>6, MonthTypes
    <2>2. /\ DayOf(y, a, 1) = NewYear(y) + Before(y, a) + 1 - 1
          /\ DayOf(y + a \div 12, (a % 12) + 1, 1) = NewYear(y) + Before(y, a) + mdays(y)[a]
      BY <1>3, <1>4, <1>6, Zenon
    <2>3. QED
      BY <1>1, <1>6, <2>1, <2>2
  <1>8. a = m
    <2>1. Before(y, a) \in Int /\ mdays(y)[a] \in Int
      BY <1>1, <1>6, MonthTypes
    <2>2. a < m => Before(y, a) + mdays(y)[a] <= Before(y, m)
      BY <1>1, <1>2, <1>6, MonthsApart
    <2>3. m < a => Before(y, m) + mdays(y)[m] <= Before(y, a)
      BY <1>1, <1>2, <1>6, MonthsApart
    <2>4. ~ (a < m) /\ ~ (m < a)
      BY <1>1, <1>7, <2>1, <2>2, <2>3
    <2>5. QED
      BY <1>2, <1>6, <2>4 DEF Months
  <1>9. CivilYear(n) = y /\ CivilMonth(n, y) = m
    <2>1. CivilYear(n) = y
      BY YearFound
    <2>2. CivilMonth(n, y) = a
      BY <1>5, Zenon DEF CivilMonth, Months
    <2>3. QED
      BY <1>8, <2>1, <2>2
  <1>10. DayOf(y, m, d) = n
    BY <1>1, <1>2, DayOfDate
  <1>11. n - DayOf(y, m, 1) + 1 = d
    <2>1. DayOf(y, m, 1) = NewYear(y) + Before(y, m) + 1 - 1
      BY <1>2, <1>3
    <2>2. QED
      BY <1>1, <1>2, <2>1
  <1>12. Civil(n) = [year |-> y, mon |-> m, day |-> n - DayOf(y, m, 1) + 1]
    BY <1>9, Zenon DEF Civil
  <1>13. QED
    BY <1>10, <1>11, <1>12

\* The rounds are made in order.
LEMMA MonthsInOrder ==
    ASSUME NEW y \in Nat, NEW x \in Nat
    PROVE  \E a : /\ a[0] = <<0, x>>
                  /\ \A i \in 1..11 : a[i] = MonthOff(a[i - 1], i, y)
                  /\ MonthsTaken(y, x) = a[11]
  <1>1. PICK n \in Nat : n = 11
    OBVIOUS
  <1>2. DOMAIN Rounds = 1..n /\ \A i \in 1..n : Rounds[i] = i
    BY <1>1 DEF Rounds
  <1> DEFINE b == <<0, x>>
             V == (0..n) \X Nat
             R(h) == h = [s \in SUBSET (1..n) |->
                            IF s = {} THEN b ELSE MonthOff(h[s \ {Max(s)}], Rounds[Max(s)], y)]
  <1>3. \E h : R(h)
    <2>1. PICK F : F = [z \in V \X (1..n) |-> MonthOff(z[1], Rounds[z[2]], y)]
      OBVIOUS
    <2>2. ASSUME NEW v \in V, NEW i \in 1..n PROVE MonthOff(v, Rounds[i], y) \in V
      <3>1. Rounds[i] = i /\ i \in Months
        BY <1>1, <1>2 DEF Months
      <3>2. mdays(y)[i] \in Int /\ mdays(y)[i] >= 0
        BY <3>1, MonthLengths
      <3>3. PICK l : l = mdays(y)[i]
        OBVIOUS
      <3>4. v[2] \in Nat /\ v[1] \in 0..n
        OBVIOUS
      <3>5. v[2] >= l => <<i, v[2] - l>> \in V
        BY <3>2, <3>3, <3>4
      <3> HIDE DEF V
      <3>6. QED
        BY <3>1, <3>3, <3>5, Zenon DEF MonthOff
    <2>3. F \in Steps(V, n) /\ \A v \in V, i \in 1..n : F[<<v, i>>] = MonthOff(v, Rounds[i], y)
      <3> HIDE DEF V
      <3>1. QED
        BY <2>1, <2>2 DEF Steps
    <2>4. PICK g : IsTypedFold(g, V, b, F, n)
      <3>1. b \in V /\ n \in Nat
        BY <1>1
      <3> HIDE DEF V, R
      <3>2. QED
        BY <2>3, <3>1, TypedFoldExists, Zenon
    <2>5. ASSUME NEW s \in SUBSET (1..n)
          PROVE  g[s] = IF s = {} THEN b ELSE MonthOff(g[s \ {Max(s)}], Rounds[Max(s)], y)
      <3> HIDE DEF V
      <3>1. CASE s = {}
        BY <2>4, <3>1 DEF IsTypedFold
      <3>2. CASE s # {}
        <4>1. PICK k : k = Max(s)
          OBVIOUS
        <4>2. k \in 1..n /\ s \ {k} \in SUBSET (1..n)
          BY <3>2, <4>1, MaxOf
        <4>3. g[s \ {k}] \in V
          BY <2>4, <4>2 DEF IsTypedFold
        <4>4. g[s] = F[<<g[s \ {k}], k>>]
          BY <2>4, <3>2, <4>1, Zenon DEF IsTypedFold
        <4>5. g[s] = MonthOff(g[s \ {k}], Rounds[k], y)
          BY <2>3, <4>2, <4>3, <4>4, Zenon
        <4>6. QED
          BY <3>2, <4>1, <4>5, Zenon
      <3>3. QED
        BY <3>1, <3>2
    <2>6. g = [s \in SUBSET (1..n) |-> g[s]]
      BY <2>4 DEF IsTypedFold
    <2>7. R(g)
      BY <2>5, <2>6, Zenon
    <2>8. QED
      BY <2>7, Zenon
  <1>4. PICK h : h = CHOOSE g : R(g)
    OBVIOUS
  <1>5. R(h)
    BY <1>3, <1>4, Zenon
  <1>6. DOMAIN Rounds = 1..n
    BY <1>2
  <1>7. MonthsTaken(y, x) = h[1..n]
    BY <1>4, <1>6, Zenon DEF MonthsTaken, FoldLeft, MapThenFoldSet
  <1>8. \A s \in SUBSET (1..n) :
            h[s] = IF s = {} THEN b ELSE MonthOff(h[s \ {Max(s)}], Rounds[Max(s)], y)
    BY <1>5
  <1> HIDE DEF R, V
  <1>9. PICK a : a = [i \in 0..n |-> h[1..i]]
    OBVIOUS
  <1>10. n \in 0..n /\ 0 \in 0..n /\ n \in Nat
         /\ \A i \in 1..n : i \in 0..n /\ i - 1 \in 0..n /\ Rounds[i] = i
    BY <1>1, <1>2
  <1>11. a[0] = b
    <2>1. 1..0 = {} /\ 1..0 \in SUBSET (1..n)
      OBVIOUS
    <2>2. h[1..0] = b
      BY <1>8, <2>1, Zenon
    <2>3. QED
      BY <1>9, <1>10, <2>2
  <1>12. ASSUME NEW i \in 1..n PROVE a[i] = MonthOff(a[i - 1], i, y)
    <2>1. /\ 1..i \in SUBSET (1..n) /\ 1..i # {}
          /\ Max(1..i) = i /\ (1..i) \ {i} = 1..(i - 1)
      BY <1>10, Upto
    <2>2. h[1..i] = MonthOff(h[(1..i) \ {Max(1..i)}], Rounds[Max(1..i)], y)
      BY <1>8, <2>1, Zenon
    <2>3. h[1..i] = MonthOff(h[1..(i - 1)], i, y)
      BY <1>10, <2>1, <2>2, Zenon
    <2>4. a[i] = h[1..i] /\ a[i - 1] = h[1..(i - 1)]
      BY <1>9, <1>10
    <2>5. QED
      BY <2>3, <2>4, Zenon
  <1>13. a[n] = h[1..n]
    BY <1>9, <1>10
  <1>14. QED
    BY <1>1, <1>7, <1>11, <1>12, <1>13

\* They take off the months in front of the one that the day lies in.
LEMMA MonthsTakenIs ==
    ASSUME NEW y, NEW m, NEW d, NEW n, IsDate(y, m, d, n)
    PROVE  MonthsTaken(y, n - NewYear(y)) = <<m - 1, d - 1>>
  <1>1. /\ y \in Nat /\ n \in Nat /\ NewYear(y) \in Nat /\ NewYear(y) <= n
        /\ Before(y, m) <= n - NewYear(y) /\ n - NewYear(y) < Before(y, m) + mdays(y)[m]
        /\ mdays(y)[m] \in 28..31 /\ Before(y, m) \in 0..335
    BY DateInYear
  <1>2. PICK x \in Nat : x = n - NewYear(y)
    BY <1>1
  <1>3. m \in Months /\ d \in Int /\ x - Before(y, m) = d - 1
    BY <1>1, <1>2 DEF IsDate
  <1>4. m \in 1..12
    BY <1>3 DEF Months
  <1>5. PICK a : /\ a[0] = <<0, x>>
                 /\ \A i \in 1..11 : a[i] = MonthOff(a[i - 1], i, y)
                 /\ MonthsTaken(y, x) = a[11]
    BY <1>1, MonthsInOrder
  <1> DEFINE P(i) == a[i] = IF i <= m - 1 THEN <<i, x - Before(y, i + 1)>> ELSE <<m - 1, d - 1>>
             T == {i \in 0..11 : ~P(i)}
  <1>6. P(0)
    <2>1. Before(y, 0 + 1) = 0
      BY <1>1, <1>3, MonthLengths
    <2>2. QED
      BY <1>2, <1>4, <1>5, <2>1
  <1>7. ASSUME NEW i \in 1..11, P(i - 1) PROVE P(i)
    <2>1. a[i] = MonthOff(a[i - 1], i, y) /\ i \in Months /\ i \in Int
      BY <1>5 DEF Months
    <2>2. PICK l : l = mdays(y)[i]
      OBVIOUS
    <2>3. CASE i <= m - 1
      <3>1. i < m /\ i # 12 /\ i + 1 \in Int
        BY <1>4, <2>3
      <3>2. /\ Before(y, i) + l <= Before(y, m) /\ Before(y, i + 1) = Before(y, i) + l
            /\ l \in Int /\ Before(y, i) \in Int
        BY <1>1, <1>3, <2>1, <2>2, <3>1, MonthsApart, MonthNext, MonthTypes
      <3>3. a[i - 1] = <<i - 1, x - Before(y, i)>>
        BY <1>4, <1>7, <2>1, <2>3
      <3>4. x - Before(y, i) >= l /\ (x - Before(y, i)) - l = x - Before(y, i + 1)
        BY <1>1, <1>2, <3>2
      <3>5. PICK v : v = a[i - 1]
        OBVIOUS
      <3>6. v[1] = i - 1 /\ v[2] = x - Before(y, i)
        BY <3>3, <3>5
      <3>7. MonthOff(v, i, y) = <<i, x - Before(y, i + 1)>>
        BY <2>2, <3>4, <3>6, Zenon DEF MonthOff
      <3>8. QED
        BY <2>1, <2>3, <3>5, <3>7
    <2>4. CASE i = m
      <3>1. a[i - 1] = <<m - 1, x - Before(y, m)>>
        BY <1>4, <1>7, <2>1, <2>4
      <3>2. a[i - 1] = <<m - 1, d - 1>> /\ ~(d - 1 >= l)
        BY <1>1, <1>2, <1>3, <2>2, <2>4, <3>1
      <3>3. PICK v : v = a[i - 1]
        OBVIOUS
      <3>4. v[2] = d - 1
        BY <3>2, <3>3
      <3>5. MonthOff(v, i, y) = v
        BY <2>2, <3>2, <3>4, Zenon DEF MonthOff
      <3>6. QED
        BY <1>4, <2>1, <2>4, <3>2, <3>3, <3>5
    <2>5. CASE i > m
      <3>1. a[i - 1] = <<m - 1, d - 1>> /\ m - 1 # i - 1
        BY <1>4, <1>7, <2>1, <2>5
      <3>2. PICK v : v = a[i - 1]
        OBVIOUS
      <3>3. v[1] = m - 1
        BY <3>1, <3>2
      <3>4. MonthOff(v, i, y) = v
        BY <3>1, <3>3, Zenon DEF MonthOff
      <3>5. QED
        BY <1>4, <2>1, <2>5, <3>1, <3>2, <3>4
    <2>6. QED
      BY <1>4, <2>1, <2>3, <2>4, <2>5
  <1> HIDE DEF P
  <1>8. T = {}
    <2>1. SUFFICES ASSUME T # {} PROVE FALSE
      OBVIOUS
    <2>2. T \in SUBSET Nat
      OBVIOUS
    <2>3. PICK i \in T : \A j \in T : i <= j
      BY <2>1, <2>2, NatLeast
    <2>4. i \in 1..11
      BY <1>6, <2>3
    <2>5. i - 1 \in 0..11 /\ i - 1 \notin T
      BY <2>3, <2>4
    <2>6. P(i - 1) /\ ~P(i)
      BY <2>3, <2>5
    <2>7. QED
      BY <1>7, <2>4, <2>6
  <1>9. P(11)
    BY <1>8
  <1>10. a[11] = <<m - 1, d - 1>>
    <2>1. CASE m = 12
      <3>1. 11 <= m - 1 /\ 11 = m - 1 /\ 11 + 1 = m
        BY <2>1
      <3>2. QED
        BY <1>3, <1>9, <3>1 DEF P
    <2>2. CASE m # 12
      <3>1. ~(11 <= m - 1)
        BY <1>4, <2>2
      <3>2. QED
        BY <1>9, <3>1 DEF P
    <2>3. QED
      BY <2>1, <2>2
  <1>11. QED
    BY <1>2, <1>5, <1>10

\* The seconds of a day; the day and the second that it is tz seconds west of UTC.
Daily == 86400
DayIn(t, tz) == t.day + (t.sec - tz) \div Daily
SecondIn(t, tz) == (t.sec - tz) % Daily

\* A second of a day in hours, minutes and seconds.
LEMMA HoursOfDay ==
    ASSUME NEW s \in Nat, s < Daily
    PROVE  /\ Quot(s, 3600) \in 0..23 /\ Quot(Rem(s, 3600), 60) \in 0..59
           /\ Rem(Rem(s, 3600), 60) \in 0..59
           /\ 3600 * Quot(s, 3600) + 60 * Quot(Rem(s, 3600), 60) + Rem(Rem(s, 3600), 60) = s
  <1>1. PICK h \in Nat, e \in Nat : h <= 23 /\ e < 3600 /\ h = s \div 3600 /\ 3600 * h + e = s
    <2>1. /\ s \div 3600 \in Nat /\ s \div 3600 <= 23
          /\ s - 3600 * (s \div 3600) \in Nat /\ s - 3600 * (s \div 3600) < 3600
          /\ 3600 * (s \div 3600) + (s - 3600 * (s \div 3600)) = s
      BY SMT DEF Daily
    <2>2. QED
      BY <2>1, SMT
  <1>2. PICK i \in Nat, c \in Nat : i <= 59 /\ c <= 59 /\ i = e \div 60 /\ 60 * i + c = e
    <2>1. /\ e \div 60 \in Nat /\ e \div 60 <= 59
          /\ e - 60 * (e \div 60) \in Nat /\ e - 60 * (e \div 60) <= 59
          /\ 60 * (e \div 60) + (e - 60 * (e \div 60)) = e
      BY <1>1, SMT
    <2>2. QED
      BY <2>1, SMT
  <1>3. Quot(s, 3600) = h
    BY <1>1, SMT DEF Quot, Daily
  <1>4. Rem(s, 3600) = e
    BY <1>1, <1>3, SMT DEF Rem, Daily
  <1>5. Quot(e, 60) = i
    BY <1>2, SMT DEF Quot
  <1>6. Rem(e, 60) = c
    BY <1>2, <1>5, SMT DEF Rem
  <1>7. 3600 * h + 60 * i + c = s
    BY <1>1, <1>2, SMT DEF Daily
  <1>8. QED
    BY <1>1, <1>2, <1>3, <1>4, <1>5, <1>6, <1>7, SMT

\* getlocaltime_safe gives the date whose day it is and the second s of that day.
THEOREM LocalFields ==
    ASSUME NEW t, t.day \in Int, t.sec \in Int, NEW tz \in Int, NEW n \in Nat, n = DayIn(t, tz),
           NEW s, s = SecondIn(t, tz), NEW y, NEW m, NEW d, IsDate(y, m, d, n),
           NEW r, r = getlocaltime_safe(t, tz, 0)
    PROVE  /\ r.year = y /\ r.mon = m /\ r.day = d
           /\ r.hour \in 0..23 /\ r.min \in 0..59 /\ r.sec \in 0..59
           /\ 3600 * r.hour + 60 * r.min + r.sec = s
           /\ r.wday = (4 + n) % 7 /\ r.yday = n - NewYear(y)
  <1>1. y \in Nat /\ NewYear(y) \in Nat /\ NewYear(y) <= n
    BY DateInYear
  <1>2. PICK yday \in Nat : yday = n - NewYear(y)
    BY <1>1
  <1>3. y >= 1970 /\ m \in Int /\ d \in Int
    BY SMT DEF IsDate, Months
  <1>4. PICK taken : taken = MonthsTaken(y, yday)
    OBVIOUS
  <1>5. taken[1] = m - 1 /\ taken[2] = d - 1
    <2>1. taken = <<m - 1, d - 1>>
      BY <1>2, <1>4, MonthsTakenIs
    <2>2. QED
      BY <2>1
  <1>6. YearOf(n) = y /\ n - DaysTo(y) = yday
    <2>1. YearOf(n) = y
      BY YearFound
    <2>2. y - 1970 \in Nat /\ 1970 + (y - 1970) = y
      BY <1>1, <1>3, SMT
    <2>3. DaysTo(1970 + (y - 1970)) = NewYear(1970 + (y - 1970))
      BY <2>2, YearsTakenOff
    <2>4. DaysTo(y) = NewYear(y)
      BY <2>2, <2>3, SMT
    <2>5. QED
      BY <1>2, <2>1, <2>4
  <1>7. s \in Nat /\ s < Daily
    BY SMT DEF SecondIn, Daily
  <1>8. /\ t.sec - tz + 3600 * 0 = t.sec - tz /\ ~(n < 0)
        /\ t.day + (t.sec - tz) \div 86400 = n /\ (t.sec - tz) % 86400 = s
    BY SMT DEF DayIn, SecondIn, Daily
  <1>9. r = [year |-> y, mon |-> taken[1] + 1, day |-> taken[2] + 1,
             hour |-> Quot(s, 3600), min |-> Quot(Rem(s, 3600), 60),
             sec |-> Rem(Rem(s, 3600), 60),
             wday |-> Rem(n + 4, 7), yday |-> yday]
    BY <1>4, <1>6, <1>8, SMT DEF getlocaltime_safe
  <1>10. PICK h, i, c : /\ h = Quot(s, 3600) /\ i = Quot(Rem(s, 3600), 60)
                        /\ c = Rem(Rem(s, 3600), 60)
    OBVIOUS
  <1>11. h \in 0..23 /\ i \in 0..59 /\ c \in 0..59 /\ 3600 * h + 60 * i + c = s
    BY <1>7, <1>10, HoursOfDay, SMT
  <1>12. Rem(n + 4, 7) = (4 + n) % 7
    BY SMT DEF Rem, Quot
  <1>13. /\ r.year = y /\ r.mon = taken[1] + 1 /\ r.day = taken[2] + 1
         /\ r.hour = h /\ r.min = i /\ r.sec = c
         /\ r.wday = Rem(n + 4, 7) /\ r.yday = yday
    BY <1>9, <1>10, SMT
  <1>14. taken[1] + 1 = m /\ taken[2] + 1 = d
    BY <1>3, <1>5, SMT
  <1>15. QED
    BY <1>2, <1>11, <1>12, <1>13, <1>14, SMT

\* The zone's offset comes out of the two C functions whatever the time.
LEMMA ZoneFound ==
    ASSUME NEW t, NEW n, n = t.day, t.sec \in Nat, t.sec < Daily, WEST \in Int,
           NEW y, NEW m, NEW d, IsDate(y, m, d, n)
    PROVE  timezone_compute(t) = WEST
  <1>1. Civil(n) = [year |-> y, mon |-> m, day |-> d] /\ DayOf(y, m, d) = n
    BY CivilIs
  <1>2. n \in Nat
    BY DateInYear
  <1>3. PICK g : g = Civil(n)
    OBVIOUS
  <1>4. g.year = y /\ g.mon = m /\ g.day = d
    BY <1>1, <1>3
  <1>5. PICK sec \in Int : sec = t.sec
    OBVIOUS
  <1>6. PICK u : u = mktime(y, m, d, 0, 0, sec)
    OBVIOUS
  <1>7. 3600 * 0 + 60 * 0 + sec + WEST = sec + WEST
    BY <1>5, SMT
  <1>8. u.day = n + (sec + WEST) \div 86400 /\ u.sec = (sec + WEST) % 86400
    <2>1. u = [day |-> n + (sec + WEST) \div 86400, sec |-> (sec + WEST) % 86400]
      BY <1>1, <1>6, <1>7, SMT DEF mktime
    <2>2. QED
      BY <2>1, SMT
  <1>9. timezone_compute(t) = 86400 * (u.day - n) + u.sec - sec
    BY <1>3, <1>4, <1>5, <1>6, SMT DEF timezone_compute
  <1>10. QED
    BY <1>2, <1>5, <1>8, <1>9, SMT

\* In the zone, getlocaltime_safe and localtime say the same.
THEOREM LocalAgrees ==
    ASSUME NEW t, t.day \in Nat, t.day > 0, t.sec \in Nat, t.sec < Daily,
           WEST \in Int, -Daily <= WEST, WEST <= Daily,
           NEW w, w = getlocaltime_safe(t, WEST, 0), NEW l, l = localtime(t)
    PROVE  /\ <<w.year, w.mon, w.day>> = <<l.date.year, l.date.mon, l.date.day>>
           /\ 3600 * w.hour + 60 * w.min + w.sec = l.sec
  <1>1. t.day \in Int /\ t.sec \in Int /\ WEST \in Int
    OBVIOUS
  <1>2. PICK k \in Nat : k = DayIn(t, WEST)
    BY SMT DEF Daily, DayIn
  <1>3. PICK s : s = SecondIn(t, WEST)
    OBVIOUS
  <1>4. PICK y, m, d : IsDate(y, m, d, k)
    BY <1>2, DateExists
  <1>5. /\ w.year = y /\ w.mon = m /\ w.day = d
        /\ 3600 * w.hour + 60 * w.min + w.sec = s
    BY <1>1, <1>2, <1>3, <1>4, LocalFields
  <1>6. Civil(k) = [year |-> y, mon |-> m, day |-> d]
    BY <1>4, CivilIs
  <1>7. l = [date |-> Civil(k), sec |-> s]
    <2>1. t.day + (t.sec - WEST) \div 86400 = k /\ (t.sec - WEST) % 86400 = s
      BY <1>2, <1>3, SMT DEF DayIn, SecondIn, Daily
    <2>2. QED
      BY <2>1, SMT DEF localtime
  <1>8. l.date.year = y /\ l.date.mon = m /\ l.date.day = d /\ l.sec = s
    BY <1>6, <1>7, SMT
  <1>9. 3600 * w.hour + 60 * w.min + w.sec = l.sec
    BY <1>5, <1>8, SMT
  <1>10. QED
    BY <1>5, <1>8, <1>9, SMT

\* The days of a month are the valid ones.
LEMMA ValidDays ==
    ASSUME NEW y \in Years, NEW m \in Months, NEW d \in 1..31
    PROVE  time_is_valid(y, m, d, 0, 0, 0) <=> d <= mdays(y)[m]
  <1>1. y \in Nat /\ m \in 1..12 /\ y >= 1900 /\ y <= 9999
    BY YearIsNat, SMT DEF Months
  <1>2. /\ mdays(y)[m] = IF m = 2 THEN 28 + YEAR_IS_LEAPYEAR(y)
                         ELSE IF m \in {4, 6, 9, 11} THEN 30 ELSE 31
        /\ TM_YEAR_IS_LEAP(y) = YEAR_IS_LEAPYEAR(y) /\ YEAR_IS_LEAPYEAR(y) \in {0, 1}
    BY <1>1, MonthLengths, LeapYears
  <1>3. PICK l, leap : l = mdays(y)[m] /\ leap = YEAR_IS_LEAPYEAR(y)
    OBVIOUS
  <1>4. y \in 1900..9999
    BY <1>1
  <1>5. time_is_valid(y, m, d, 0, 0, 0)
          <=> CASE m \in {1, 3, 5, 7, 8, 10, 12} -> TRUE
                [] m \in {4, 6, 9, 11} -> d < 31
                [] OTHER -> d < 29 \/ (d = 29 /\ TM_YEAR_IS_LEAP(y) = 1)
    BY <1>1, <1>4, SMT DEF time_is_valid
  <1>6. CASE m \in {1, 3, 5, 7, 8, 10, 12}
    <2>1. l = 31
      BY <1>2, <1>3, <1>6, SMT
    <2>2. QED
      BY <1>3, <1>5, <1>6, <2>1, SMT
  <1>7. CASE m \in {4, 6, 9, 11}
    <2>1. l = 30
      BY <1>2, <1>3, <1>7, SMT
    <2>2. QED
      BY <1>3, <1>5, <1>7, <2>1, SMT
  <1>8. CASE m = 2
    <2>1. l = 28 + leap /\ leap \in {0, 1}
      BY <1>2, <1>3, <1>8, SMT
    <2>2. QED
      BY <1>2, <1>3, <1>5, <1>8, <2>1, SMT
  <1>9. QED
    BY <1>1, <1>6, <1>7, <1>8

\* A quotient is found by its bounds.
LEMMA QuotientIs ==
    ASSUME NEW b \in Nat, b > 0, NEW q \in Int, NEW r \in Nat, r < b
    PROVE  (q * b + r) \div b = q
  <1>1. PICK k \in Int : k = (q * b + r) \div b
    BY SMT
  <1>2. b * k <= q * b + r /\ q * b + r < b * (k + 1)
    BY <1>1, SMT
  <1>3. k < q => b * (k + 1) <= b * q
    BY SMT
  <1>4. k > q => b * (q + 1) <= b * k
    BY SMT
  <1>5. QED
    BY <1>1, <1>2, <1>3, <1>4, SMT

\* The difference of two times in order, as long as it fits: in the arithmetic of
\* unsigned numbers nothing is lost.
LEMMA DifferenceIs ==
    ASSUME NEW old, NEW new, NEW s \in Nat, NEW x \in Int, NEW p, p = MS * NS,
           s = new[1] - old[1], x = new[2] - old[2],
           -p < x, x < p, s > 0 \/ x >= 0, s * p + x < ULONG \div 2, p <= ULONG
    PROVE  difftime_msec(old, new) = (s * MS * NS + x) \div NS
  <1>1. MS \in Nat /\ MS > 0 /\ NS \in Nat /\ NS > 0 /\ ULONG \in Nat /\ p \in Nat
    <2>1. MS \in Nat /\ MS > 0 /\ NS \in Nat /\ NS > 0 /\ ULONG \in Nat
      BY UnitAssumption
    <2>2. QED
      BY <2>1, SMT
  <1>2. ASSUME NEW n \in Nat, n < p, NEW k \in Int
        PROVE  /\ (n % ULONG) \div NS \in Nat
               /\ (k * NS + n) \div NS = k + (n % ULONG) \div NS
    <2>1. n % ULONG = n
      BY <1>1, <1>2, SMT
    <2>2. PICK q \in Nat, r \in Nat : n = q * NS + r /\ r < NS /\ q = n \div NS
      <3>1. n \div NS \in Int /\ n % NS \in 0..(NS - 1) /\ n = NS * (n \div NS) + (n % NS)
        BY <1>1, SMT
      <3>2. n \div NS >= 0
        BY <1>1, SMT
      <3>3. PICK q \in Nat, r \in Nat : q = n \div NS /\ r = n % NS
        BY <1>1, <3>1, <3>2, SMT
      <3>4. n = q * NS + r /\ r < NS
        BY <1>1, <3>1, <3>3, SMT
      <3>5. QED
        BY <3>3, <3>4
    <2>3. k * NS + n = (k + q) * NS + r /\ k + q \in Int
      BY <1>1, <2>2, SMT
    <2>4. ((k + q) * NS + r) \div NS = k + q
      BY <1>1, <2>2, <2>3, QuotientIs
    <2>5. QED
      BY <2>1, <2>2, <2>3, <2>4
  <1>3. PICK v \in Int : v = (s * MS * NS + x) \div NS
    BY <1>1, SMT
  <1>4. PICK z \in Nat : z = s * p + x /\ z = s * MS * NS + x
    <2>1. s * MS * NS = s * p /\ s * p \in Nat
      BY <1>1, SMT
    <2>2. s > 0 => s * p >= p
      BY <1>1, SMT
    <2>3. s * p + x \in Nat
      BY <1>1, <2>1, <2>2, SMT
    <2>4. QED
      BY <2>1, <2>3, SMT
  <1>5. v >= 0 /\ v < ULONG \div 2
    <2>1. NS * v <= z /\ z < NS * (v + 1)
      BY <1>1, <1>3, <1>4, SMT
    <2>2. v >= 0
      <3>1. PICK w \in Int : w = NS * (v + 1)
        BY <1>1, SMT
      <3>2. v < 0 => w <= 0
        BY <1>1, <3>1, SMT
      <3>3. z < w
        BY <2>1, <3>1, Zenon
      <3>4. QED
        BY <3>2, <3>3
    <2>3. v <= NS * v
      BY <1>1, <2>2, SMT
    <2>4. PICK h \in Int : h = ULONG \div 2
      BY <1>1, SMT
    <2>5. z < h
      BY <1>4, <2>4
    <2>6. PICK w \in Int : w = NS * v
      BY <1>1, SMT
    <2>7. w <= z /\ v <= w
      BY <2>1, <2>3, <2>6, Zenon
    <2>8. QED
      BY <2>2, <2>4, <2>5, <2>7
  <1>6. Wrapped(v) = v
    <2>1. PICK h \in Int : h = ULONG \div 2 /\ h <= ULONG
      BY <1>1, SMT
    <2>2. v % ULONG = v /\ ~(v >= h)
      BY <1>1, <1>5, <2>1, SMT
    <2>3. QED
      BY <2>1, <2>2, Zenon DEF Wrapped
  <1>7. CASE s > 0 /\ x >= 0
    <2>1. s * MS \in Int /\ x \in Nat /\ x < p
      BY <1>1, <1>7, SMT
    <2>2. ((s * MS) * NS + x) \div NS = s * MS + (x % ULONG) \div NS
      BY <1>2, <2>1
    <2>3. difftime_msec(old, new) = Wrapped(s * MS + (x % ULONG) \div NS)
      BY <1>7, SMT DEF difftime_msec
    <2>4. QED
      BY <1>3, <1>6, <2>2, <2>3
  <1>8. CASE s > 0 /\ x < 0
    <2>1. (s - 1) * MS \in Int /\ x + p \in Nat /\ x + p < p
      BY <1>1, <1>8, SMT
    <2>2. ((s - 1) * MS * NS + (x + p)) \div NS = (s - 1) * MS + ((x + p) % ULONG) \div NS
      BY <1>2, <2>1
    <2>3. (s - 1) * MS * NS + (x + p) = s * MS * NS + x
      BY <1>1, SMT
    <2>4. difftime_msec(old, new) = Wrapped((s - 1) * MS + ((x + MS * NS) % ULONG) \div NS)
      BY <1>8, SMT DEF difftime_msec
    <2>5. QED
      BY <1>3, <1>6, <2>2, <2>3, <2>4
  <1>9. CASE s = 0
    <2>1. x \in Nat /\ x < p /\ 0 * NS + x = x /\ 0 + (x % ULONG) \div NS = (x % ULONG) \div NS
      <3>1. x \in Nat
        BY <1>9
      <3>2. (x % ULONG) \div NS \in Nat
        BY <1>2, <3>1
      <3>3. QED
        BY <1>1, <3>1, <3>2, SMT
    <2>2. (0 * NS + x) \div NS = 0 + (x % ULONG) \div NS
      BY <1>2, <2>1
    <2>3. difftime_msec(old, new) = Wrapped((x % ULONG) \div NS)
      BY <1>9, SMT DEF difftime_msec
    <2>4. s * MS * NS + x = x
      BY <1>1, <1>9, SMT
    <2>5. QED
      BY <1>3, <1>6, <2>1, <2>2, <2>3, <2>4
  <1>10. QED
    BY <1>7, <1>8, <1>9

OfLength(S, n) == {s \in Seq(S) : Len(s) = n}

\* A number is written with as many digits as asked for.
LEMMA DecText ==
    ASSUME NEW n, NEW w \in Nat, NEW S, \A i \in 1..w : Dec(n, w)[i] \in S
    PROVE  Dec(n, w) \in OfLength(S, w)
  <1>1. PICK z : z = Dec(n, w)
    OBVIOUS
  <1>2. DOMAIN z = 1..w /\ z = [i \in 1..w |-> z[i]]
    BY <1>1, Zenon DEF Dec
  <1>3. \A i \in 1..w : z[i] \in S
    BY <1>1
  <1>4. [i \in 1..w |-> z[i]] \in Seq(S) /\ Len([i \in 1..w |-> z[i]]) = w
    BY <1>3
  <1>5. QED
    BY <1>1, <1>2, <1>4, Zenon DEF OfLength

LEMMA JoinedText ==
    ASSUME NEW S, NEW n, NEW k, NEW a \in OfLength(S, n), NEW b \in OfLength(S, k)
    PROVE  a \o b \in OfLength(S, n + k)
  BY DEF OfLength

Marks == {"-", " ", ":", "U", "T", "C"}

\* A date and a time, the text of format_nowtimeofday, fill its buffer.
LEMMA NowText ==
    ASSUME NEW t, NEW u, u = getlocaltime_safe(t, 0, 0)
    PROVE  format_nowtimeofday(t)
             = Dec(u.year, 4) \o <<"-">> \o Dec(u.mon, 2) \o <<"-">> \o Dec(u.day, 2)
                 \o <<" ">> \o TimeText(u.hour, u.min, u.sec) \o <<" ", "U", "T", "C">>
  <1>1. PICK S : /\ "-" \in S /\ " " \in S /\ ":" \in S /\ "U" \in S /\ "T" \in S /\ "C" \in S
                 /\ \A i \in 1..4 : Dec(u.year, 4)[i] \in S
                 /\ \A i \in 1..2 : /\ Dec(u.mon, 2)[i] \in S /\ Dec(u.day, 2)[i] \in S
                                    /\ Dec(u.hour, 2)[i] \in S /\ Dec(u.min, 2)[i] \in S
                                    /\ Dec(u.sec, 2)[i] \in S
    <2>1. PICK A : A = {Dec(u.year, 4)[i] : i \in 1..4}
      OBVIOUS
    <2>2. PICK B : B = {Dec(u.mon, 2)[i] : i \in 1..2} \cup {Dec(u.day, 2)[i] : i \in 1..2}
      OBVIOUS
    <2>3. PICK C : C = {Dec(u.hour, 2)[i] : i \in 1..2} \cup {Dec(u.min, 2)[i] : i \in 1..2}
                        \cup {Dec(u.sec, 2)[i] : i \in 1..2}
      OBVIOUS
    <2>4. PICK S : S = Marks \cup A \cup B \cup C
      OBVIOUS
    <2>5. /\ "-" \in S /\ " " \in S /\ ":" \in S /\ "U" \in S /\ "T" \in S /\ "C" \in S
      BY <2>4, Zenon DEF Marks
    <2>6. \A i \in 1..4 : Dec(u.year, 4)[i] \in S
      BY <2>1, <2>4, Zenon
    <2>7. \A i \in 1..2 : Dec(u.mon, 2)[i] \in S /\ Dec(u.day, 2)[i] \in S
      BY <2>2, <2>4, Zenon
    <2>8. \A i \in 1..2 : /\ Dec(u.hour, 2)[i] \in S /\ Dec(u.min, 2)[i] \in S
                          /\ Dec(u.sec, 2)[i] \in S
      BY <2>3, <2>4, Zenon
    <2>9. QED
      BY <2>5, <2>6, <2>7, <2>8, Zenon
  <1>2. PICK y, m, d, h, i, c :
            /\ y = Dec(u.year, 4) /\ m = Dec(u.mon, 2) /\ d = Dec(u.day, 2)
            /\ h = Dec(u.hour, 2) /\ i = Dec(u.min, 2) /\ c = Dec(u.sec, 2)
    OBVIOUS
  <1>3. y \in OfLength(S, 4)
    <2>1. 4 \in Nat
      OBVIOUS
    <2>2. QED
      BY <1>1, <1>2, <2>1, DecText, Zenon
  <1>4. /\ m \in OfLength(S, 2) /\ d \in OfLength(S, 2) /\ h \in OfLength(S, 2)
        /\ i \in OfLength(S, 2) /\ c \in OfLength(S, 2)
    <2>1. 2 \in Nat
      OBVIOUS
    <2>2. QED
      BY <1>1, <1>2, <2>1, DecText, Zenon
  <1>5. PICK l, b, k, e : l = <<"-">> /\ b = <<" ">> /\ k = <<":">> /\ e = <<" ", "U", "T", "C">>
    BY Zenon
  <1>6. /\ l \in OfLength(S, 1) /\ b \in OfLength(S, 1) /\ k \in OfLength(S, 1)
        /\ e \in OfLength(S, 4)
    <2>1. ASSUME NEW v \in S PROVE <<v>> \in OfLength(S, 1)
      BY DEF OfLength
    <2>2. ASSUME NEW v \in S, NEW w \in S, NEW x \in S, NEW z \in S
          PROVE  <<v, w, x, z>> \in OfLength(S, 4)
      BY DEF OfLength
    <2>3. "-" \in S /\ " " \in S /\ ":" \in S /\ "U" \in S /\ "T" \in S /\ "C" \in S
      BY <1>1, Zenon
    <2>4. QED
      BY <1>5, <2>1, <2>2, <2>3, Zenon
  <1>7. y \o l \o m \o l \o d \in OfLength(S, 4 + 1 + 2 + 1 + 2)
    <2>1. y \o l \o m \o l \in OfLength(S, 4 + 1 + 2 + 1)
      BY <1>3, <1>4, <1>6, JoinedText, Zenon
    <2>2. QED
      BY <1>4, <2>1, JoinedText, Zenon
  <1>8. h \o k \o i \o k \o c \in OfLength(S, 2 + 1 + 2 + 1 + 2)
    <2>1. h \o k \o i \o k \in OfLength(S, 2 + 1 + 2 + 1)
      BY <1>4, <1>6, JoinedText, Zenon
    <2>2. QED
      BY <1>4, <2>1, JoinedText, Zenon
  <1>9. PICK date, time : date = y \o l \o m \o l \o d /\ time = h \o k \o i \o k \o c
    OBVIOUS
  <1>10. PICK text : text = date \o b \o time \o e
    OBVIOUS
  <1>11. text \in Seq(S) /\ Len(text) = 23
    <2>1. PICK n, p : n = 4 + 1 + 2 + 1 + 2 /\ p = 2 + 1 + 2 + 1 + 2
      OBVIOUS
    <2>2. date \o b \o time \o e \in OfLength(S, n + 1 + p + 4)
      BY <1>6, <1>7, <1>8, <1>9, <2>1, JoinedText, Zenon
    <2>3. n + 1 + p + 4 = 23
      BY <2>1
    <2>4. QED
      BY <1>10, <2>2, <2>3, Zenon DEF OfLength
  <1>12. First(text, 23) = text
    <2>1. AtMost(23, Len(text)) = Len(text)
      BY <1>11 DEF AtMost
    <2>2. SubSeq(text, 1, Len(text)) = text
      BY <1>11
    <2>3. QED
      BY <2>1, <2>2, Zenon DEF First
  <1>13. /\ DateText(u.year, u.mon, u.day) = date /\ TimeText(u.hour, u.min, u.sec) = time
    BY <1>2, <1>5, <1>9, Zenon DEF DateText, TimeText
  <1>14. format_nowtimeofday(t) = First(text, 23)
    BY <1>5, <1>10, <1>13, Zenon DEF format_nowtimeofday
  <1>15. Dec(u.year, 4) \o <<"-">> \o Dec(u.mon, 2) \o <<"-">> \o Dec(u.day, 2) = date
    BY <1>2, <1>5, <1>9, Zenon
  <1>16. QED
    BY <1>5, <1>10, <1>12, <1>13, <1>14, <1>15, Zenon

\* The calendar of the run: the days before a month are counted right.
MonthInv ==
    kind = "month" =>
        /\ in.year \in Years /\ in.mon \in Months
        /\ in = [year |-> in.year, mon |-> in.mon, before |-> in.before]
        /\ in.before = NewYear(in.year) + Before(in.year, in.mon)

LEMMA MonthsCounted == Spec => []MonthInv
  <1>1. Init => MonthInv
    <2>1. SUFFICES ASSUME in = FirstMonth
                   PROVE  /\ in.year \in Years /\ in.mon \in Months
                          /\ in = [year |-> in.year, mon |-> in.mon, before |-> in.before]
                          /\ in.before = NewYear(in.year) + Before(in.year, in.mon)
      BY Zenon DEF Init, MonthInv
    <2>2. in.year = 1970 /\ in.mon = 1 /\ in.before = 0
      BY <2>1, SMT DEF FirstMonth
    <2>3. NewYear(1970) = 0
      BY SMT DEF NewYear, DayOf
    <2>4. Before(1970, 1) = 0
      BY SMT DEF Before
    <2>5. in = [year |-> in.year, mon |-> in.mon, before |-> in.before]
      BY <2>1, SMT DEF FirstMonth
    <2>6. in.year \in Years /\ in.mon \in Months
      BY <2>2, YearRange, SMT DEF Months
    <2>7. in.before = NewYear(in.year) + Before(in.year, in.mon)
      BY <2>2, <2>3, <2>4, SMT
    <2>8. QED
      BY <2>5, <2>6, <2>7
  <1>2. MonthInv /\ [Next]_vars => MonthInv'
    <2>1. SUFFICES ASSUME MonthInv, [Next]_vars PROVE MonthInv'
      OBVIOUS
    <2>2. CASE UNCHANGED vars
      BY <2>1, <2>2, Zenon DEF MonthInv, vars
    <2>3. CASE NextMonth /\ UNCHANGED kind
      <3>1. PICK y, m, b : y = in.year /\ m = in.mon /\ b = in.before
        OBVIOUS
      <3>2. /\ y \in Years /\ m \in Months /\ b = NewYear(y) + Before(y, m) /\ y < LastYear
        BY <2>1, <2>3, <3>1, Zenon DEF MonthInv, NextMonth
      <3>3. y \in Nat /\ y > 0 /\ y + 1 \in Years /\ m \in 1..12
        <4>1. y \in Years /\ m \in Months /\ y < LastYear
          BY <3>2
        <4>2. y \in Int /\ y >= 1970 /\ y + 1 \in Int /\ 1970 <= y + 1 /\ y + 1 <= 9999
          BY <4>1, YearIsNat, YearAssumption, SMT
        <4>3. y + 1 \in Years
          BY <4>2, YearRange
        <4>4. QED
          BY <4>1, <4>2, <4>3 DEF Months
      <3>4. DaysIn(in) = mdays(y)[m]
        <4>1. /\ mdays(y)[m] = IF m = 2 THEN 28 + YEAR_IS_LEAPYEAR(y)
                               ELSE IF m \in {4, 6, 9, 11} THEN 30 ELSE 31
              /\ YEAR_IS_LEAPYEAR(y) = IF LeapYear(y) THEN 1 ELSE 0
          BY <3>2, <3>3, MonthLengths, LeapYears
        <4>2. LeapYear(y) \in BOOLEAN
          BY Zenon DEF LeapYear
        <4>3. QED
          BY <3>1, <4>1, <4>2, SMT DEF DaysIn
      <3>5. PICK y1, m1, b1 : y1 = y + m \div 12 /\ m1 = (m % 12) + 1 /\ b1 = b + DaysIn(in)
        OBVIOUS
      <3>6. in' = [year |-> y1, mon |-> m1, before |-> b1]
        BY <2>3, <3>1, <3>5, Zenon DEF NextMonth
      <3>7. in'.year = y1 /\ in'.mon = m1 /\ in'.before = b1
        BY <3>6
      <3>8. y1 \in Years /\ m1 \in Months /\ b1 = NewYear(y1) + Before(y1, m1)
        <4>1. mdays(y)[m] \in Int /\ Before(y, m) \in Int /\ NewYear(y) \in Int
          <5>1. mdays(y)[m] \in Int /\ Before(y, m) \in Int
            BY <3>2, <3>3, MonthTypes
          <5>2. NewYear(y) \in Int
            BY <3>3, DayOfDate DEF Months
          <5>3. QED
            BY <5>1, <5>2
        <4>2. CASE m = 12
          <5>1. y1 = y + 1 /\ m1 = 1
            BY <3>3, <3>5, <4>2
          <5>2. NewYear(y + 1) = NewYear(y) + 365 + YEAR_IS_LEAPYEAR(y)
            BY <3>3, DayOfDate DEF Months
          <5>3. Before(y, 12) = 334 + YEAR_IS_LEAPYEAR(y) /\ mdays(y)[12] = 31
            BY <3>3, YearEnds
          <5>4. Before(y1, 1) = 0 /\ 1 \in Months
            <6>1. y1 \in Nat /\ 1 \in Months
              BY <3>3, <5>1 DEF Months
            <6>2. QED
              BY <6>1, MonthLengths
          <5>5. YEAR_IS_LEAPYEAR(y) \in {0, 1}
            BY <3>3, LeapYears
          <5>6. NewYear(y1) = NewYear(y) + 365 + YEAR_IS_LEAPYEAR(y) /\ Before(y1, m1) = 0
            BY <5>1, <5>2, <5>4
          <5>7. b1 = NewYear(y) + Before(y, 12) + 31
            BY <3>2, <3>4, <3>5, <4>2, <5>3
          <5>8. b1 = NewYear(y1) + Before(y1, m1)
            BY <4>1, <5>3, <5>5, <5>6, <5>7
          <5>9. QED
            BY <3>3, <5>1, <5>4, <5>8
        <4>3. CASE m # 12
          <5>1. y1 = y /\ m1 = m + 1
            BY <3>3, <3>5, <4>3
          <5>2. m + 1 \in Months /\ Before(y, m + 1) = Before(y, m) + mdays(y)[m]
            BY <3>2, <3>3, <4>3, MonthNext
          <5>3. b1 = NewYear(y) + Before(y, m) + mdays(y)[m]
            BY <3>2, <3>4, <3>5
          <5>4. QED
            BY <3>2, <4>1, <5>1, <5>2, <5>3
        <4>4. QED
          BY <4>2, <4>3
      <3>9. QED
        BY <3>6, <3>7, <3>8, Zenon DEF MonthInv
    <2>4. CASE kind # "month" /\ UNCHANGED kind
      BY <2>4, Zenon DEF MonthInv
    <2>5. Next => \/ NextMonth /\ UNCHANGED kind
                  \/ kind # "month" /\ UNCHANGED kind
      BY Zenon DEF Next, Grow
    <2>6. QED
      BY <2>1, <2>2, <2>3, <2>4, <2>5
  <1>3. QED
    BY <1>1, <1>2, PTL DEF Spec

\* The fields of the clock for a day and a second, with the zone of timezone_compute too.
LEMMA DayAgrees ==
    ASSUME NEW y, NEW m, NEW d, NEW n, IsDate(y, m, d, n), NEW t, t.day = n,
           t.sec \in Nat, t.sec < Daily, NEW u, u = getlocaltime_safe(t, 0, 0),
           NEW w, w = getlocaltime_safe(t, timezone_compute(t), 0), NEW l, l = localtime(t)
    PROVE  /\ u.year = y /\ u.mon = m /\ u.day = d
           /\ SecondsOf(u) = t.sec /\ u.min \in 0..59 /\ u.sec \in 0..59
           /\ u.wday = (4 + n) % 7 /\ u.yday = n - NewYear(y)
           /\ timezone_compute(t) = WEST
           /\ n > 0 => /\ <<w.year, w.mon, w.day>> = <<l.date.year, l.date.mon, l.date.day>>
                       /\ SecondsOf(w) = l.sec
  <1>1. n \in Nat
    BY DateInYear
  <1>2. WEST \in Int /\ -Daily <= WEST /\ WEST <= Daily
    BY ZoneAssumption, SMT DEF Daily
  <1>3. n = DayIn(t, 0) /\ t.sec = SecondIn(t, 0)
    <2>1. (t.sec - 0) \div Daily = 0 /\ (t.sec - 0) % Daily = t.sec
      BY SMT DEF Daily
    <2>2. QED
      BY <1>1, <2>1 DEF DayIn, SecondIn
  <1>4. /\ u.year = y /\ u.mon = m /\ u.day = d /\ u.min \in 0..59 /\ u.sec \in 0..59
        /\ 3600 * u.hour + 60 * u.min + u.sec = t.sec
        /\ u.wday = (4 + n) % 7 /\ u.yday = n - NewYear(y)
    <2>1. t.day \in Int /\ t.sec \in Int /\ 0 \in Int
      BY <1>1
    <2>2. PICK s : s = SecondIn(t, 0)
      OBVIOUS
    <2>3. n = DayIn(t, 0) /\ t.sec = s
      BY <1>3, <2>2
    <2>4. /\ u.year = y /\ u.mon = m /\ u.day = d /\ u.hour \in 0..23
          /\ u.min \in 0..59 /\ u.sec \in 0..59
          /\ 3600 * u.hour + 60 * u.min + u.sec = s
          /\ u.wday = (4 + n) % 7 /\ u.yday = n - NewYear(y)
      BY <1>1, <2>1, <2>2, <2>3, LocalFields, SMTT(30)
    <2>5. QED
      BY <2>3, <2>4
  <1>5. SecondsOf(u) = t.sec
    BY <1>4, SMT DEF SecondsOf
  <1>6. timezone_compute(t) = WEST
    BY <1>2, ZoneFound
  <1>7. ASSUME n > 0
        PROVE  /\ <<w.year, w.mon, w.day>> = <<l.date.year, l.date.mon, l.date.day>>
               /\ SecondsOf(w) = l.sec
    <2>1. w = getlocaltime_safe(t, WEST, 0)
      BY <1>6
    <2>2. /\ <<w.year, w.mon, w.day>> = <<l.date.year, l.date.mon, l.date.day>>
          /\ 3600 * w.hour + 60 * w.min + w.sec = l.sec
      BY <1>1, <1>2, <1>7, <2>1, LocalAgrees
    <2>3. QED
      BY <2>2, SMT DEF SecondsOf
  <1>8. QED
    BY <1>4, <1>5, <1>6, <1>7

\* ClockAgrees for every year that time_is_valid knows: the two ways to count days are one.
THEOREM HelpersClockAgrees == Spec => []ClockAgrees
  <1>1. MonthInv => ClockAgrees
    <2>1. SUFFICES ASSUME kind = "month", MonthInv PROVE ClockAgrees
      BY Zenon DEF ClockAgrees
    <2> DEFINE y == in.year
               m == in.mon
               b == in.before
               len == DaysIn(in)
    <2>3. /\ y \in Years /\ m \in Months /\ b = NewYear(y) + Before(y, m)
      BY <2>1, Zenon DEF MonthInv
    <2>4. y \in Nat /\ y >= 1970 /\ y > 0 /\ m \in 1..12
      <3> HIDE DEF y, m, b
      <3>1. QED
        BY <2>3, YearIsNat, SMT DEF Months
    <2>6. len = mdays(y)[m] /\ len \in 28..31
      <3>1. /\ mdays(y)[m] = IF m = 2 THEN 28 + YEAR_IS_LEAPYEAR(y)
                             ELSE IF m \in {4, 6, 9, 11} THEN 30 ELSE 31
            /\ YEAR_IS_LEAPYEAR(y) = IF LeapYear(y) THEN 1 ELSE 0
            /\ mdays(y)[m] \in 28..31
        BY <2>3, <2>4, MonthLengths, LeapYears
      <3>2. LeapYear(y) \in BOOLEAN
        BY Zenon DEF LeapYear
      <3>3. DaysIn(in) = mdays(y)[m]
        BY <3>1, <3>2, SMT DEF DaysIn
      <3>4. QED
        BY <3>1, <3>3
    <2>7. ASSUME in = FirstMonth, NEW s \in 0..3, NEW a \in 0..(MS * NS - 1),
                 NEW c \in 0..(MS * NS - 1), s > 0 \/ c >= a
          PROVE  difftime_msec(<<in.mon, a>>, <<in.mon + s, c>>) = (s * MS * NS + (c - a)) \div NS
      <3> HIDE DEF m
      <3>1. PICK p \in Nat : p = MS * NS /\ 8 * p <= ULONG /\ ULONG \in Nat
        BY UnitAssumption, SMT
      <3>2. a \in 0..(p - 1) /\ c \in 0..(p - 1)
        BY <3>1
      <3>3. PICK x \in Int : x = c - a /\ -p < x /\ x < p /\ (s > 0 \/ x >= 0)
        BY <2>7, <3>1, <3>2
      <3>4. s * p + x < ULONG \div 2 /\ p <= ULONG /\ s \in Nat
        BY <3>1, <3>3
      <3>5. PICK old, new : old = <<m, a>> /\ new = <<m + s, c>>
        OBVIOUS
      <3>6. s = new[1] - old[1] /\ x = new[2] - old[2]
        BY <2>4, <3>3, <3>5
      <3>7. difftime_msec(old, new) = (s * MS * NS + x) \div NS
        BY <3>1, <3>3, <3>4, <3>6, DifferenceIs, Zenon
      <3>8. QED
        BY <3>3, <3>5, <3>7 DEF m
    <2>8. \A d \in 1..31 : time_is_valid(y, m, d, 0, 0, 0) <=> d <= len
      BY <2>3, <2>6, ValidDays
    <2>9. DayOf(y, m, 1) = b
      <3>1. DayOf(y, m, 1) = NewYear(y) + Before(y, m) + 1 - 1
        BY <2>3, <2>4, DayOfDate
      <3>2. NewYear(y) \in Int /\ Before(y, m) \in Int
        <4>1. NewYear(y) \in Int
          BY <2>4, DayOfDate DEF Months
        <4>2. QED
          BY <2>3, <2>4, <4>1, MonthTypes
      <3>3. QED
        BY <2>3, <3>1, <3>2
    <2>10. ASSUME NEW d \in {1, 14, len}
           PROVE  LET t == [day |-> in.before + d - 1, sec |-> SecondOf(d)]
                      u == getlocaltime_safe(t, 0, 0)
                      w == getlocaltime_safe(t, timezone_compute(t), 0)
                      l == localtime(t)
                  IN  /\ <<u.year, u.mon, u.day>> = <<in.year, in.mon, d>>
                      /\ SecondsOf(u) = t.sec /\ u.min \in 0..59 /\ u.sec \in 0..59
                      /\ format_nowtimeofday(t)
                          = Dec(in.year, 4) \o <<"-">> \o Dec(in.mon, 2) \o <<"-">> \o Dec(d, 2)
                              \o <<" ">> \o TimeText(u.hour, u.min, u.sec) \o <<" ", "U", "T", "C">>
                      /\ u.wday = (4 + t.day) % 7
                      /\ u.yday = t.day - DayOf(in.year, 1, 1)
                      /\ timezone_compute(t) = WEST
                      /\ t.day > 0 => /\ <<w.year, w.mon, w.day>> = <<l.date.year, l.date.mon, l.date.day>>
                                      /\ SecondsOf(w) = l.sec
      <3> DEFINE t == [day |-> in.before + d - 1, sec |-> SecondOf(d)]
                 u == getlocaltime_safe(t, 0, 0)
                 w == getlocaltime_safe(t, timezone_compute(t), 0)
                 l == localtime(t)
      <3>1. /\ t = [day |-> b + d - 1, sec |-> SecondOf(d)]
            /\ u = getlocaltime_safe(t, 0, 0)
            /\ w = getlocaltime_safe(t, timezone_compute(t), 0) /\ l = localtime(t)
        OBVIOUS
      <3> HIDE DEF t, u, w, l, y, m, b, len
      <3>2. d \in 1..31 /\ d <= len
        BY <2>6
      <3>3. PICK n : n = b + d - 1
        OBVIOUS
      <3>4. IsDate(y, m, d, n)
        <4>1. d \in 1..mdays(y)[m]
          BY <2>6, <3>2
        <4>2. QED
          BY <2>3, <2>4, <3>3, <4>1, SMT DEF IsDate
      <3>5. t.day = n /\ t.sec = SecondOf(d)
        BY <3>1, <3>3
      <3>6. t.sec \in Nat /\ t.sec < Daily
        <4>1. SecondOf(d) \in Nat /\ SecondOf(d) < Daily
          BY <3>2, SMT DEF SecondOf, Daily
        <4>2. QED
          BY <3>5, <4>1
      <3>7. /\ u.year = y /\ u.mon = m /\ u.day = d
            /\ SecondsOf(u) = t.sec /\ u.min \in 0..59 /\ u.sec \in 0..59
            /\ u.wday = (4 + n) % 7 /\ u.yday = n - NewYear(y)
            /\ timezone_compute(t) = WEST
            /\ n > 0 => /\ <<w.year, w.mon, w.day>> = <<l.date.year, l.date.mon, l.date.day>>
                        /\ SecondsOf(w) = l.sec
        BY <3>1, <3>4, <3>5, <3>6, DayAgrees
      <3>8. format_nowtimeofday(t)
              = Dec(u.year, 4) \o <<"-">> \o Dec(u.mon, 2) \o <<"-">> \o Dec(u.day, 2)
                  \o <<" ">> \o TimeText(u.hour, u.min, u.sec) \o <<" ", "U", "T", "C">>
        BY <3>1, NowText, Zenon
      <3>9. /\ <<u.year, u.mon, u.day>> = <<in.year, in.mon, d>>
            /\ SecondsOf(u) = t.sec /\ u.min \in 0..59 /\ u.sec \in 0..59
            /\ format_nowtimeofday(t)
                = Dec(in.year, 4) \o <<"-">> \o Dec(in.mon, 2) \o <<"-">> \o Dec(d, 2)
                    \o <<" ">> \o TimeText(u.hour, u.min, u.sec) \o <<" ", "U", "T", "C">>
            /\ u.wday = (4 + t.day) % 7
            /\ u.yday = t.day - DayOf(in.year, 1, 1)
            /\ timezone_compute(t) = WEST
            /\ t.day > 0 => /\ <<w.year, w.mon, w.day>> = <<l.date.year, l.date.mon, l.date.day>>
                            /\ SecondsOf(w) = l.sec
        BY <3>5, <3>7, <3>8, Zenon DEF NewYear, y, m
      <3>10. QED
        BY <3>9, Zenon DEF t, u, w, l
    <2>11. in = FirstMonth => \A s \in 0..3, a, c \in 0..(MS * NS - 1) :
              s > 0 \/ c >= a => difftime_msec(<<in.mon, a>>, <<in.mon + s, c>>)
                                  = (s * MS * NS + (c - a)) \div NS
      BY <2>7, Zenon
    <2>12. QED
      <3> HIDE DEF len
      <3>1. QED
        BY <2>8, <2>9, <2>10, <2>11, Zenon DEF ClockAgrees, len
  <1>2. QED
    BY <1>1, MonthsCounted, PTL
=============================================================================
