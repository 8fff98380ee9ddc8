----------------------------- MODULE PartsProof ------------------------------
(***************************************************************************)
(* Proofs about searching, splitting and replacing: what MCHelpers checks  *)
(* on short texts is proved for texts of any length.                       *)
(***************************************************************************)
EXTENDS HelpersProof

-----------------------------------------------------------------------------
(* Parts of a sequence *)

LEMMA FirstIs ==
    ASSUME NEW S, NEW s \in Seq(S), NEW n \in 0..Len(s)
    PROVE  /\ First(s, n) \in Seq(S) /\ Len(First(s, n)) = n
           /\ \A k \in 1..n : First(s, n)[k] = s[k]
  <1>1. AtMost(n, Len(s)) = n
    BY DEF AtMost
  <1>2. First(s, n) = SubSeq(s, 1, n)
    BY <1>1 DEF First
  <1>3. QED
    BY <1>2

LEMMA FromIs ==
    ASSUME NEW S, NEW s \in Seq(S), NEW n \in 0..Len(s)
    PROVE  /\ From(s, n) \in Seq(S) /\ Len(From(s, n)) = Len(s) - n
           /\ \A k \in 1..(Len(s) - n) : From(s, n)[k] = s[n + k]
  <1>1. From(s, n) = SubSeq(s, n + 1, Len(s))
    BY DEF From
  <1>2. \A i \in (n + 1)..Len(s) : s[i] \in S
    OBVIOUS
  <1>3. QED
    BY <1>1, <1>2, SubSeqProperties

LEMMA ReverseIs ==
    ASSUME NEW S, NEW s \in Seq(S)
    PROVE  /\ Reverse(s) \in Seq(S) /\ Len(Reverse(s)) = Len(s)
           /\ \A k \in 1..Len(s) : Reverse(s)[k] = s[Len(s) - k + 1]
  <1>1. PICK n \in Nat : n = Len(s)
    OBVIOUS
  <1>2. PICK r : r = Reverse(s)
    OBVIOUS
  <1>3. r = [k \in 1..n |-> s[n - k + 1]]
    BY <1>1, <1>2 DEF Reverse
  <1>4. \A k \in 1..n : n - k + 1 \in 1..n /\ s[n - k + 1] \in S
    BY <1>1
  <1>5. r \in Seq(S) /\ Len(r) = n /\ \A k \in 1..n : r[k] = s[n - k + 1]
    BY <1>3, <1>4
  <1>6. QED
    BY <1>1, <1>2, <1>5

\* The least of some positions.
LEMMA MinOf ==
    ASSUME NEW T \in SUBSET Nat, T # {}
    PROVE  Min(T) \in T /\ \A x \in T : Min(T) <= x
  <1>1. \E x \in T : \A y \in T : x <= y
    BY NatLeast
  <1>2. QED
    BY <1>1 DEF Min

-----------------------------------------------------------------------------
(* Searching for a character *)

\* l is the offset of the first, or of the last, c in the first n characters, or -1.
FirstAt(s, n, c, l) ==
    \/ l = -1 /\ \A k \in 1..n : s[k] # c
    \/ l \in 0..(n - 1) /\ s[l + 1] = c /\ \A k \in 1..l : s[k] # c
LastAt(s, n, c, r) ==
    \/ r = -1 /\ \A k \in 1..n : s[k] # c
    \/ r \in 0..(n - 1) /\ s[r + 1] = c /\ \A k \in (r + 2)..n : s[k] # c

\* There is only one such offset.
LEMMA FirstAtOnce ==
    ASSUME NEW s, NEW n \in Nat, NEW c, NEW l, NEW k, FirstAt(s, n, c, l), FirstAt(s, n, c, k)
    PROVE  l = k
  <1>1. CASE l = -1
    <2>1. ~ (k \in 0..(n - 1) /\ s[k + 1] = c)
      BY <1>1 DEF FirstAt
    <2>2. QED
      BY <1>1, <2>1 DEF FirstAt
  <1>2. CASE k = -1
    <2>1. ~ (l \in 0..(n - 1) /\ s[l + 1] = c)
      BY <1>2 DEF FirstAt
    <2>2. QED
      BY <1>2, <2>1 DEF FirstAt
  <1>3. CASE l # -1 /\ k # -1
    <2>1. /\ l \in 0..(n - 1) /\ s[l + 1] = c /\ \A j \in 1..l : s[j] # c
          /\ k \in 0..(n - 1) /\ s[k + 1] = c /\ \A j \in 1..k : s[j] # c
      BY <1>3 DEF FirstAt
    <2>2. ~(l < k) /\ ~(k < l)
      BY <2>1
    <2>3. QED
      BY <2>1, <2>2
  <1>4. QED
    BY <1>1, <1>2, <1>3

\* The positions that a search looks at, and what it says of them.
LEMMA FirstOf ==
    ASSUME NEW s, NEW n \in Nat, NEW c, NEW I, I = {k \in 1..n : s[k] = c}
    PROVE  FirstAt(s, n, c, (IF I # {} THEN Min(I) ELSE 0) - 1)
  <1>1. I \in SUBSET Nat
    OBVIOUS
  <1>2. CASE I = {}
    BY <1>2 DEF FirstAt
  <1>3. CASE I # {}
    <2>1. PICK m : m = Min(I)
      OBVIOUS
    <2>2. m \in I /\ \A k \in I : m <= k
      BY <1>1, <1>3, <2>1, MinOf
    <2>3. m \in 1..n /\ s[m] = c /\ \A k \in 1..(m - 1) : s[k] # c
      BY <2>2
    <2>4. m - 1 \in 0..(n - 1) /\ (m - 1) + 1 = m
      BY <2>3
    <2>5. FirstAt(s, n, c, m - 1)
      BY <2>3, <2>4 DEF FirstAt
    <2>6. QED
      BY <1>3, <2>1, <2>5
  <1>4. QED
    BY <1>2, <1>3

LEMMA LastOf ==
    ASSUME NEW s, NEW n \in Nat, NEW c, NEW I, I = {k \in 1..n : s[k] = c}
    PROVE  LastAt(s, n, c, (IF I # {} THEN Max(I) ELSE 0) - 1)
  <1>1. I \in SUBSET (1..n)
    OBVIOUS
  <1>2. CASE I = {}
    BY <1>2 DEF LastAt
  <1>3. CASE I # {}
    <2>1. PICK m : m = Max(I)
      OBVIOUS
    <2>2. m \in I /\ \A k \in I : k <= m
      BY <1>1, <1>3, <2>1, MaxOf
    <2>3. m \in 1..n /\ s[m] = c /\ \A k \in (m + 1)..n : s[k] # c
      BY <2>2
    <2>4. m - 1 \in 0..(n - 1) /\ (m - 1) + 1 = m /\ (m - 1) + 2 = m + 1
      BY <2>3
    <2>5. LastAt(s, n, c, m - 1)
      BY <2>3, <2>4 DEF LastAt
    <2>6. QED
      BY <1>3, <2>1, <2>5
  <1>4. QED
    BY <1>2, <1>3

LEMMA LfindIs ==
    ASSUME NEW S, NEW s \in Seq(S), NEW n \in 0..Len(s), NEW c
    PROVE  FirstAt(s, n, c, cstr_Lfind_chr(s, n, c))
  <1>1. PICK t : t = First(s, n)
    OBVIOUS
  <1>2. Len(t) = n /\ \A k \in 1..n : t[k] = s[k]
    BY <1>1, FirstIs
  <1>3. PICK I : I = {k \in 1..n : s[k] = c}
    OBVIOUS
  <1>4. {k \in 1..Len(t) : t[k] = c} = I
    BY <1>2, <1>3
  <1>5. cstr_Lfind_chr(s, n, c) = (IF I # {} THEN Min(I) ELSE 0) - 1
    BY <1>1, <1>4, Zenon DEF cstr_Lfind_chr, SelectInSeq
  <1>6. n \in Nat
    OBVIOUS
  <1>7. FirstAt(s, n, c, (IF I # {} THEN Min(I) ELSE 0) - 1)
    BY <1>3, <1>6, FirstOf
  <1>8. QED
    BY <1>5, <1>7, Zenon

LEMMA RfindIs ==
    ASSUME NEW S, NEW s \in Seq(S), NEW n \in 0..Len(s), NEW c
    PROVE  LastAt(s, n, c, cstr_Rfind_chr(s, n, c))
  <1>1. PICK t : t = First(s, n)
    OBVIOUS
  <1>2. Len(t) = n /\ \A k \in 1..n : t[k] = s[k]
    BY <1>1, FirstIs
  <1>3. PICK I : I = {k \in 1..n : s[k] = c}
    OBVIOUS
  <1>4. {k \in 1..Len(t) : t[k] = c} = I
    BY <1>2, <1>3
  <1>5. cstr_Rfind_chr(s, n, c) = (IF I # {} THEN Max(I) ELSE 0) - 1
    BY <1>1, <1>4, Zenon DEF cstr_Rfind_chr, SelectLastInSeq
  <1>6. n \in Nat
    OBVIOUS
  <1>7. LastAt(s, n, c, (IF I # {} THEN Max(I) ELSE 0) - 1)
    BY <1>3, <1>6, LastOf
  <1>8. QED
    BY <1>5, <1>7, Zenon

LEMMA FindChrsIs ==
    ASSUME NEW S, NEW s \in Seq(S), NEW n \in 0..Len(s), NEW c
    PROVE  FirstAt(s, n, c, cstr_find_chrs(s, n, <<c>>))
  <1>1. PICK t : t = First(s, n)
    OBVIOUS
  <1>2. Len(t) = n /\ \A k \in 1..n : t[k] = s[k]
    BY <1>1, FirstIs
  <1>3. PICK I : I = {k \in 1..n : s[k] = c}
    OBVIOUS
  <1>4. \A x : x \in ToSet(<<c>>) <=> x = c
    BY DEF ToSet
  <1>5. {k \in 1..Len(t) : t[k] \in ToSet(<<c>>)} = I
    BY <1>2, <1>3, <1>4
  <1>6. cstr_find_chrs(s, n, <<c>>) = (IF I # {} THEN Min(I) ELSE 0) - 1
    BY <1>1, <1>5, Zenon DEF cstr_find_chrs, SelectInSeq
  <1>7. n \in Nat
    OBVIOUS
  <1>8. FirstAt(s, n, c, (IF I # {} THEN Min(I) ELSE 0) - 1)
    BY <1>3, <1>7, FirstOf
  <1>9. QED
    BY <1>6, <1>8, Zenon

\* The last c of some characters is the first of them read backwards.
LEMMA MirrorIs ==
    ASSUME NEW S, NEW s \in Seq(S), NEW n \in 0..Len(s), NEW c,
           NEW l, FirstAt(s, n, c, l), NEW r, LastAt(s, n, c, r)
    PROVE  r = IF l < 0 THEN -1 ELSE n - 1 - cstr_Lfind_chr(Reverse(First(s, n)), n, c)
  <1>1. PICK t : t = Reverse(First(s, n))
    OBVIOUS
  <1>2. t \in Seq(S) /\ Len(t) = n /\ \A k \in 1..n : t[k] = s[n - k + 1]
    <2>1. PICK f0 : f0 = First(s, n)
      OBVIOUS
    <2>2. f0 \in Seq(S) /\ Len(f0) = n /\ \A k \in 1..n : f0[k] = s[k]
      BY <2>1, FirstIs
    <2>3. t \in Seq(S) /\ Len(t) = n /\ \A k \in 1..n : t[k] = f0[n - k + 1]
      BY <1>1, <2>1, <2>2, ReverseIs
    <2>4. \A k \in 1..n : n - k + 1 \in 1..n
      OBVIOUS
    <2>5. QED
      BY <2>2, <2>3, <2>4
  <1>3. PICK q : q = cstr_Lfind_chr(t, n, c)
    OBVIOUS
  <1>4. FirstAt(t, n, c, q)
    <2>1. n \in 0..Len(t)
      BY <1>2
    <2>2. QED
      BY <1>2, <1>3, <2>1, LfindIs
  <1>5. CASE r = -1
    <2>1. \A k \in 1..n : s[k] # c
      BY <1>5 DEF LastAt
    <2>2. l = -1
      BY <2>1 DEF FirstAt
    <2>3. QED
      BY <1>5, <2>2
  <1>6. CASE r # -1
    <2>1. r \in 0..(n - 1) /\ s[r + 1] = c /\ \A k \in (r + 2)..n : s[k] # c
      BY <1>6 DEF LastAt
    <2>2. r + 1 \in 1..n
      BY <2>1
    <2>3. l # -1 /\ l \in 0..(n - 1)
      BY <2>1, <2>2 DEF FirstAt
    <2>4. PICK k : k = n - 1 - r
      OBVIOUS
    <2>5. k \in 0..(n - 1) /\ t[k + 1] = c
      <3>1. k \in 0..(n - 1) /\ k + 1 \in 1..n /\ n - (k + 1) + 1 = r + 1
        BY <2>1, <2>4
      <3>2. QED
        BY <1>2, <2>1, <3>1
    <2>6. ASSUME NEW j \in 1..k PROVE t[j] # c
      <3>1. j \in 1..n /\ n - j + 1 \in (r + 2)..n
        BY <2>1, <2>4
      <3>2. QED
        BY <1>2, <2>1, <3>1
    <2>7. FirstAt(t, n, c, k)
      BY <2>5, <2>6 DEF FirstAt
    <2>8. q = k
      <3>1. n \in Nat
        OBVIOUS
      <3>2. QED
        BY <1>4, <2>7, <3>1, FirstAtOnce
    <2>9. r = n - 1 - q
      BY <2>1, <2>4, <2>8
    <2>10. QED
      BY <1>1, <1>3, <2>3, <2>9
  <1>7. QED
    BY <1>5, <1>6

-----------------------------------------------------------------------------
(* Searching for a text *)

\* p stands in s behind the offset i.
MatchesAt(s, i, p) == \A k \in 1..Len(p) : s[i + k] = p[k]

\* at is the first offset in n characters where p stands, or -1.
ContainedAt(s, n, p, at) ==
    \/ at = -1 /\ \A i \in 0..(n - Len(p)) : ~MatchesAt(s, i, p)
    \/ /\ at \in 0..(n - Len(p)) /\ MatchesAt(s, at, p)
       /\ \A i \in 0..(at - 1) : ~MatchesAt(s, i, p)

\* Texts of one length are the same when their characters are.
LEMMA SameText ==
    ASSUME NEW S, NEW s \in Seq(S), NEW t \in Seq(S), NEW n \in Nat, Len(s) = n, Len(t) = n
    PROVE  s = t <=> \A k \in 1..n : s[k] = t[k]
  <1>1. (\A k \in 1..n : s[k] = t[k]) => s = t
    BY SeqEqual
  <1>2. QED
    BY <1>1

\* A piece of s that is as long as p is p when p stands there.
LEMMA PieceIs ==
    ASSUME NEW S, NEW s \in Seq(S), NEW p \in Seq(S), NEW i \in 0..(Len(s) - Len(p))
    PROVE  /\ First(From(s, i), Len(p)) \in Seq(S) /\ First(p, Len(p)) = p
           /\ First(From(s, i), Len(p)) = p <=> MatchesAt(s, i, p)
  <1>1. PICK n \in Nat, m \in Nat : n = Len(s) /\ m = Len(p)
    OBVIOUS
  <1>2. i \in 0..n /\ m \in 0..(n - i) /\ m \in 0..m
    BY <1>1
  <1>3. PICK t : t = From(s, i)
    OBVIOUS
  <1>4. t \in Seq(S) /\ Len(t) = n - i /\ \A k \in 1..(n - i) : t[k] = s[i + k]
    BY <1>1, <1>2, <1>3, FromIs
  <1>5. PICK u : u = First(t, m)
    OBVIOUS
  <1>6. u \in Seq(S) /\ Len(u) = m /\ \A k \in 1..m : u[k] = t[k]
    BY <1>2, <1>4, <1>5, FirstIs
  <1>7. \A k \in 1..m : u[k] = s[i + k]
    <2>1. \A k \in 1..m : k \in 1..(n - i)
      BY <1>1, <1>2
    <2>2. QED
      BY <1>4, <1>6, <2>1, Zenon
  <1>8. u = p <=> \A k \in 1..m : u[k] = p[k]
    BY <1>1, <1>6, SameText
  <1>9. u = p <=> MatchesAt(s, i, p)
    BY <1>1, <1>7, <1>8 DEF MatchesAt
  <1>10. First(p, m) = p
    <2>1. PICK w : w = First(p, m)
      OBVIOUS
    <2>2. w \in Seq(S) /\ Len(w) = m /\ \A k \in 1..m : w[k] = p[k]
      BY <1>1, <1>2, <2>1, FirstIs
    <2>3. w = p
      BY <1>1, <2>2, SameText
    <2>4. QED
      BY <2>1, <2>3
  <1>11. QED
    BY <1>1, <1>3, <1>5, <1>6, <1>9, <1>10

LEMMA ContainsIs ==
    ASSUME NEW s \in Texts, NEW p \in Texts, NEW n \in 0..Len(s)
    PROVE  ContainedAt(s, n, p, cstr_containwith(s, n, p, Len(p)))
  <1>1. s # Null /\ p # Null
    BY NullAssumption DEF Texts
  <1>2. PICK m \in Nat : m = Len(p)
    BY DEF Texts
  <1>3. Len(s) \in Nat
    BY DEF Texts
  <1>4. PICK at : at = {i \in Offsets(n, m) : First(From(s, i), m) = First(p, m)}
    OBVIOUS
  <1>5. at = {i \in 0..(n - m) : MatchesAt(s, i, p)}
    <2>1. ASSUME NEW i \in 0..(n - m)
          PROVE  First(From(s, i), m) = First(p, m) <=> MatchesAt(s, i, p)
      <3>1. i \in 0..(Len(s) - Len(p))
        BY <1>2, <1>3
      <3>2. QED
        BY <1>2, <3>1, PieceIs DEF Texts
    <2>2. QED
      BY <1>4, <2>1 DEF Offsets
  <1>6. PICK r : r = cstr_containwith(s, n, p, m)
    OBVIOUS
  <1>7. r = IF at = {} THEN -1 ELSE CHOOSE i \in at : \A j \in at : i <= j
    BY <1>1, <1>4, <1>6 DEF cstr_containwith
  <1>8. CASE at = {}
    BY <1>2, <1>5, <1>6, <1>7, <1>8 DEF ContainedAt
  <1>9. CASE at # {}
    <2>1. \E i \in at : \A j \in at : i <= j
      <3>1. at \in SUBSET Nat
        BY <1>5
      <3>2. QED
        BY <1>9, <3>1, NatLeast
    <2>2. r \in at /\ \A j \in at : r <= j
      BY <1>7, <1>9, <2>1
    <2>3. r \in 0..(n - m) /\ MatchesAt(s, r, p) /\ \A i \in 0..(r - 1) : ~MatchesAt(s, i, p)
      BY <1>2, <1>3, <1>5, <2>2
    <2>4. QED
      BY <1>2, <1>6, <2>3 DEF ContainedAt
  <1>10. QED
    BY <1>8, <1>9

\* For one character it is the search for that character.
LEMMA ContainsOne ==
    ASSUME NEW s \in Texts, NEW n \in 0..Len(s), NEW c \in DOMAIN Code
    PROVE  FirstAt(s, n, c, cstr_containwith(s, n, <<c>>, 1))
  <1>1. PICK p : p = <<c>>
    OBVIOUS
  <1>2. p \in Texts /\ Len(p) = 1 /\ p[1] = c
    BY <1>1 DEF Texts
  <1>3. PICK r : r = cstr_containwith(s, n, p, 1)
    OBVIOUS
  <1>4. ContainedAt(s, n, p, r)
    BY <1>2, <1>3, ContainsIs
  <1>5. \A i \in Nat : MatchesAt(s, i, p) <=> s[i + 1] = c
    BY <1>2 DEF MatchesAt
  <1>6. n \in Nat
    BY DEF Texts
  <1>7. CASE r = -1
    <2>1. \A i \in 0..(n - 1) : s[i + 1] # c
      <3>1. \A i \in 0..(n - 1) : ~MatchesAt(s, i, p)
        BY <1>2, <1>4, <1>7 DEF ContainedAt
      <3>2. \A i \in 0..(n - 1) : i \in Nat
        OBVIOUS
      <3>3. QED
        BY <1>5, <3>1, <3>2, Zenon
    <2>2. ASSUME NEW k \in 1..n PROVE s[k] # c
      <3>1. k - 1 \in 0..(n - 1) /\ (k - 1) + 1 = k
        BY <1>6
      <3>2. QED
        BY <2>1, <3>1
    <2>3. QED
      BY <1>1, <1>3, <1>7, <2>2 DEF FirstAt
  <1>8. CASE r # -1
    <2>1. /\ r \in 0..(n - 1) /\ s[r + 1] = c
          /\ \A i \in 0..(r - 1) : s[i + 1] # c
      <3>1. /\ r \in 0..(n - 1) /\ MatchesAt(s, r, p)
            /\ \A i \in 0..(r - 1) : ~MatchesAt(s, i, p)
        BY <1>2, <1>4, <1>8 DEF ContainedAt
      <3>2. r \in Nat /\ \A i \in 0..(r - 1) : i \in Nat
        BY <3>1
      <3>3. QED
        BY <1>5, <3>1, <3>2, Zenon
    <2>2. ASSUME NEW k \in 1..r PROVE s[k] # c
      <3>1. k - 1 \in 0..(r - 1) /\ (k - 1) + 1 = k
        BY <1>6, <2>1
      <3>2. QED
        BY <2>1, <3>1
    <2>3. QED
      BY <1>1, <1>3, <2>1, <2>2 DEF FirstAt
  <1>9. QED
    BY <1>7, <1>8

\* The three searches for the first place of a character agree, and the search for the
\* last place is their mirror image, in texts of any length.
THEOREM CharactersFound ==
    ASSUME NEW s \in Texts, NEW n \in 0..Len(s), NEW c \in DOMAIN Code
    PROVE  /\ cstr_Lfind_chr(s, n, c) = cstr_containwith(s, n, <<c>>, 1)
           /\ cstr_Lfind_chr(s, n, c) = cstr_find_chrs(s, n, <<c>>)
           /\ cstr_Rfind_chr(s, n, c)
                = IF cstr_Lfind_chr(s, n, c) < 0 THEN -1
                  ELSE n - 1 - cstr_Lfind_chr(Reverse(First(s, n)), n, c)
  <1>1. s \in Seq(DOMAIN Code) /\ n \in Nat
    BY DEF Texts
  <1>2. FirstAt(s, n, c, cstr_Lfind_chr(s, n, c))
    BY <1>1, LfindIs
  <1>3. FirstAt(s, n, c, cstr_find_chrs(s, n, <<c>>))
    BY <1>1, FindChrsIs
  <1>4. FirstAt(s, n, c, cstr_containwith(s, n, <<c>>, 1))
    BY ContainsOne
  <1>5. LastAt(s, n, c, cstr_Rfind_chr(s, n, c))
    BY <1>1, RfindIs
  <1>6. /\ cstr_Lfind_chr(s, n, c) = cstr_containwith(s, n, <<c>>, 1)
        /\ cstr_Lfind_chr(s, n, c) = cstr_find_chrs(s, n, <<c>>)
    BY <1>1, <1>2, <1>3, <1>4, FirstAtOnce
  <1>7. QED
    BY <1>1, <1>2, <1>5, <1>6, MirrorIs

\* A text stands at the front, at an offset, or at the end, in the words of each
\* of the operators that say so.
LEMMA StandsAt ==
    ASSUME NEW s \in Texts, NEW p \in Texts, NEW n, n = Len(s), NEW m, m = Len(p)
    PROVE  /\ cstr_startwith(s, n, p, m) <=> m <= n /\ MatchesAt(s, 0, p)
           /\ cstr_endwith(s, n, p, m) <=> m <= n /\ MatchesAt(s, n - m, p)
           /\ \A i \in 0..n : IsPrefix(p, From(s, i)) <=> i + m <= n /\ MatchesAt(s, i, p)
           /\ IsSuffix(p, s) <=> m <= n /\ MatchesAt(s, n - m, p)
           /\ cstr_startwith(Reverse(s), n, Reverse(p), m) <=> m <= n /\ MatchesAt(s, n - m, p)
  <1>1. s \in Seq(DOMAIN Code) /\ p \in Seq(DOMAIN Code) /\ n \in Nat /\ m \in Nat
    BY DEF Texts
  <1>2. \A t \in Texts : t # Null
    BY NullAssumption DEF Texts
  <1>3. \A t \in Texts : From(t, 0) = t /\ First(t, Len(t)) = t
    <2>1. TAKE t \in Texts
    <2>2. t \in Seq(DOMAIN Code) /\ Len(t) \in Nat
      BY DEF Texts
    <2>3. From(t, 0) = SubSeq(t, 1, Len(t)) /\ First(t, Len(t)) = SubSeq(t, 1, Len(t))
      BY <2>2 DEF From, First, AtMost
    <2>4. QED
      BY <2>2, <2>3, SubSeqFull
  <1>4. ASSUME NEW t \in Texts, NEW q \in Texts, Len(t) = n, Len(q) = m
        PROVE  cstr_startwith(t, n, q, m) <=> m <= n /\ MatchesAt(t, 0, q)
    <2>1. cstr_startwith(t, n, q, m) <=> m <= n /\ First(t, m) = First(q, m)
      BY <1>2 DEF cstr_startwith
    <2>2. ASSUME m <= n
          PROVE  First(t, m) = First(q, m) <=> MatchesAt(t, 0, q)
      <3>1. 0 \in 0..(Len(t) - Len(q)) /\ t \in Seq(DOMAIN Code) /\ q \in Seq(DOMAIN Code)
        BY <1>1, <1>4, <2>2 DEF Texts
      <3>2. First(q, Len(q)) = q /\ (First(From(t, 0), Len(q)) = q <=> MatchesAt(t, 0, q))
        BY <3>1, PieceIs
      <3>3. QED
        BY <1>3, <1>4, <3>2
    <2>3. QED
      BY <2>1, <2>2
  <1>5. ASSUME NEW i \in 0..n
        PROVE  IsPrefix(p, From(s, i)) <=> i + m <= n /\ MatchesAt(s, i, p)
    <2>1. PICK t : t = From(s, i)
      OBVIOUS
    <2>2. t \in Seq(DOMAIN Code) /\ Len(t) = n - i
      BY <1>1, <2>1, FromIs
    <2>3. IsPrefix(p, t) <=> m <= Len(t) /\ SubSeq(p, 1, m) = SubSeq(t, 1, m)
      BY DEF IsPrefix
    <2>4. ASSUME i + m <= n
          PROVE  SubSeq(p, 1, m) = SubSeq(t, 1, m) <=> MatchesAt(s, i, p)
      <3>1. AtMost(m, m) = m /\ AtMost(m, n - i) = m
        BY <1>1, <2>4 DEF AtMost
      <3>2. SubSeq(p, 1, m) = First(p, m) /\ SubSeq(t, 1, m) = First(t, m)
        BY <2>2, <3>1 DEF First
      <3>3. i \in 0..(Len(s) - Len(p))
        BY <1>1, <2>4
      <3>4. First(p, m) = p /\ (First(t, m) = p <=> MatchesAt(s, i, p))
        BY <1>1, <2>1, <3>3, PieceIs
      <3>5. QED
        BY <3>2, <3>4
    <2>5. m <= Len(t) <=> i + m <= n
      BY <1>1, <2>2
    <2>6. QED
      BY <2>1, <2>3, <2>4, <2>5
  <1>6. PICK u, q : u = Reverse(s) /\ q = Reverse(p)
    OBVIOUS
  <1>7. /\ u \in Texts /\ Len(u) = n /\ \A k \in 1..n : u[k] = s[n - k + 1]
        /\ q \in Texts /\ Len(q) = m /\ \A k \in 1..m : q[k] = p[m - k + 1]
    BY <1>1, <1>6, ReverseIs DEF Texts
  <1>8. ASSUME m <= n PROVE MatchesAt(u, 0, q) <=> MatchesAt(s, n - m, p)
    <2>1. ASSUME NEW k \in 1..m
          PROVE  /\ k \in 1..n /\ m - k + 1 \in 1..m
                 /\ n - k + 1 = (n - m) + (m - k + 1)
      BY <1>1, <1>8
    <2>2. MatchesAt(u, 0, q) <=> \A k \in 1..m : s[(n - m) + (m - k + 1)] = p[m - k + 1]
      <3>1. \A k \in 1..m : 0 + k = k /\ u[k] = s[(n - m) + (m - k + 1)] /\ q[k] = p[m - k + 1]
        BY <1>7, <2>1
      <3>2. QED
        BY <1>7, <3>1 DEF MatchesAt
    <2>3. ASSUME \A k \in 1..m : s[(n - m) + (m - k + 1)] = p[m - k + 1], NEW k \in 1..m
          PROVE  s[(n - m) + k] = p[k]
      <3>1. PICK j : j = m - k + 1
        OBVIOUS
      <3>2. j \in 1..m /\ m - j + 1 = k
        BY <1>1, <3>1
      <3>3. QED
        BY <2>3, <3>2
    <2>4. MatchesAt(s, n - m, p) <=> \A k \in 1..m : s[(n - m) + k] = p[k]
      BY DEF MatchesAt
    <2>5. MatchesAt(s, n - m, p) => \A k \in 1..m : s[(n - m) + (m - k + 1)] = p[m - k + 1]
      BY <2>1, <2>4
    <2>6. QED
      BY <2>2, <2>3, <2>4, <2>5
  <1>9. cstr_startwith(u, n, q, m) <=> m <= n /\ MatchesAt(s, n - m, p)
    BY <1>4, <1>7, <1>8
  <1>10. IsSuffix(p, s) <=> m <= n /\ MatchesAt(s, n - m, p)
    <2>1. IsSuffix(p, s) <=> m <= n /\ SubSeq(q, 1, m) = SubSeq(u, 1, m)
      BY <1>6, <1>7 DEF IsSuffix, IsPrefix
    <2>2. cstr_startwith(u, n, q, m) <=> m <= n /\ First(u, m) = First(q, m)
      BY <1>2, <1>7 DEF cstr_startwith
    <2>3. m <= n => First(u, m) = SubSeq(u, 1, m) /\ First(q, m) = SubSeq(q, 1, m)
      BY <1>1, <1>7 DEF First, AtMost
    <2>4. QED
      BY <1>9, <2>1, <2>2, <2>3
  <1>11. cstr_endwith(s, n, p, m) <=> m <= n /\ MatchesAt(s, n - m, p)
    <2>1. s # Null /\ p # Null /\ s \in Texts /\ p \in Texts
      BY <1>2
    <2>2. cstr_endwith(s, n, p, m) <=> m <= n /\ ~cstr_notequal_len(From(s, n - m), m, p, m)
      BY <2>1 DEF cstr_endwith
    <2>3. ASSUME m <= n
          PROVE  ~cstr_notequal_len(From(s, n - m), m, p, m) <=> MatchesAt(s, n - m, p)
      <3>1. n - m \in 0..(Len(s) - Len(p)) /\ n - m \in 0..Len(s)
        BY <1>1, <2>3
      <3>2. PICK t : t = From(s, n - m)
        OBVIOUS
      <3>3. t \in Texts
        BY <1>1, <3>1, <3>2, FromIs DEF Texts
      <3>4. First(p, m) = p /\ (First(t, m) = p <=> MatchesAt(s, n - m, p))
        BY <1>1, <3>1, <3>2, PieceIs
      <3>5. cstr_notequal_len(t, m, p, m) <=> First(t, m) # First(p, m)
        BY <1>2, <3>3 DEF cstr_notequal_len
      <3>6. QED
        BY <3>2, <3>4, <3>5
    <2>4. QED
      BY <2>2, <2>3
  <1>12. QED
    BY <1>4, <1>5, <1>6, <1>9, <1>10, <1>11

\* Where a text stands in another is the same by every function that says so: found
\* means found somewhere, at offset 0 means at the front, the end is the front of
\* the mirror image, and in a list it is the entry that stands there.
THEOREM TextsFound ==
    ASSUME NEW s \in Texts, NEW p \in Texts, NEW q \in Texts,
           NEW n, n = Len(s), NEW m, m = Len(p)
    PROVE  /\ cstr_containwith(s, n, p, m) >= 0 <=> \E i \in 0..n : IsPrefix(p, From(s, i))
           /\ cstr_startwith(s, n, p, m) <=> cstr_containwith(s, n, p, m) = 0
           /\ cstr_endwith(s, n, p, m) <=> cstr_startwith(Reverse(s), n, Reverse(p), m)
           /\ cstr_startwith_mul(s, n, <<q, Null, p>>) = 2 <=> cstr_startwith(s, n, p, m)
           /\ cstr_endwith_mul(s, n, <<p, q>>) = -1 <=> ~(IsSuffix(p, s) \/ IsSuffix(q, s))
  <1>1. n \in Nat /\ m \in Nat
    BY DEF Texts
  <1>2. \A t \in Texts : t # Null
    BY NullAssumption DEF Texts
  <1>3. PICK at : at = cstr_containwith(s, n, p, m)
    OBVIOUS
  <1>4. ContainedAt(s, n, p, at)
    <2>1. n \in 0..Len(s)
      BY <1>1
    <2>2. QED
      BY <1>3, <2>1, ContainsIs
  <1>5. /\ cstr_startwith(s, n, p, m) <=> m <= n /\ MatchesAt(s, 0, p)
        /\ cstr_endwith(s, n, p, m) <=> m <= n /\ MatchesAt(s, n - m, p)
        /\ \A i \in 0..n : IsPrefix(p, From(s, i)) <=> i + m <= n /\ MatchesAt(s, i, p)
        /\ IsSuffix(p, s) <=> m <= n /\ MatchesAt(s, n - m, p)
        /\ cstr_startwith(Reverse(s), n, Reverse(p), m) <=> m <= n /\ MatchesAt(s, n - m, p)
    BY StandsAt
  <1>6. cstr_endwith(s, n, q, Len(q)) <=> IsSuffix(q, s)
    BY StandsAt
  <1>7. at >= 0 <=> \E i \in 0..n : IsPrefix(p, From(s, i))
    <2>1. CASE at = -1
      <3>1. \A i \in 0..(n - m) : ~MatchesAt(s, i, p)
        BY <2>1, <1>4 DEF ContainedAt
      <3>2. \A i \in 0..n : i + m <= n => i \in 0..(n - m)
        BY <1>1
      <3>3. QED
        BY <1>5, <2>1, <3>1, <3>2
    <2>2. CASE at # -1
      <3>1. at \in 0..(n - m) /\ MatchesAt(s, at, p)
        BY <2>2, <1>4 DEF ContainedAt
      <3>2. at \in 0..n /\ at + m <= n /\ at >= 0
        BY <1>1, <3>1
      <3>3. QED
        BY <1>5, <3>1, <3>2
    <2>3. QED
      BY <2>1, <2>2
  <1>8. at = 0 <=> m <= n /\ MatchesAt(s, 0, p)
    <2>1. CASE at = -1
      <3>1. \A i \in 0..(n - m) : ~MatchesAt(s, i, p)
        BY <2>1, <1>4 DEF ContainedAt
      <3>2. m <= n => 0 \in 0..(n - m)
        BY <1>1
      <3>3. QED
        BY <2>1, <3>1, <3>2
    <2>2. CASE at # -1
      <3>1. /\ at \in 0..(n - m) /\ MatchesAt(s, at, p)
            /\ \A i \in 0..(at - 1) : ~MatchesAt(s, i, p)
        BY <2>2, <1>4 DEF ContainedAt
      <3>2. at \in Nat /\ m <= n
        BY <1>1, <3>1
      <3>3. at # 0 => 0 \in 0..(at - 1)
        BY <3>2
      <3>4. QED
        BY <3>1, <3>2, <3>3
    <2>3. QED
      BY <2>1, <2>2
  <1>9. cstr_startwith_mul(s, n, <<q, Null, p>>) = 2 <=> cstr_startwith(s, n, p, m)
    <2>1. PICK l : l = <<q, Null, p>>
      OBVIOUS
    <2>2. l[3] = p /\ Len(l) = 3
      BY <2>1
    <2>3. PICK I : I = {i \in 1..3 : l[i] # Null /\ cstr_startwith(s, n, l[i], Len(l[i]))}
      OBVIOUS
    <2>4. cstr_startwith_mul(s, n, l) = (IF I # {} THEN Max(I) ELSE 0) - 1
      BY <2>2, <2>3 DEF cstr_startwith_mul, SelectLastInSeq
    <2>5. 3 \in I <=> cstr_startwith(s, n, p, m)
      BY <1>2, <2>2, <2>3
    <2>6. I \in SUBSET (1..3)
      BY <2>3
    <2>7. CASE I = {}
      BY <2>1, <2>4, <2>5, <2>7
    <2>8. CASE I # {}
      <3>1. PICK k : k = Max(I)
        OBVIOUS
      <3>2. k \in I /\ \A x \in I : x <= k
        BY <2>6, <2>8, <3>1, MaxOf
      <3>3. k \in 1..3 /\ (3 \in I <=> k = 3)
        BY <2>6, <3>2
      <3>4. cstr_startwith_mul(s, n, l) = k - 1
        BY <2>4, <2>8, <3>1
      <3>5. k - 1 = 2 <=> k = 3
        BY <3>3
      <3>6. QED
        BY <2>1, <2>5, <3>3, <3>4, <3>5
    <2>9. QED
      BY <2>7, <2>8
  <1>10. cstr_endwith_mul(s, n, <<p, q>>) = -1 <=> ~(IsSuffix(p, s) \/ IsSuffix(q, s))
    <2>1. PICK l : l = <<p, q>>
      OBVIOUS
    <2>2. l[1] = p /\ l[2] = q /\ Len(l) = 2
      BY <2>1
    <2>3. PICK I : I = {i \in 1..2 : l[i] # Null /\ cstr_endwith(s, n, l[i], Len(l[i]))}
      OBVIOUS
    <2>4. cstr_endwith_mul(s, n, l) = (IF I # {} THEN Max(I) ELSE 0) - 1
      BY <2>2, <2>3 DEF cstr_endwith_mul, SelectLastInSeq
    <2>5. (1 \in I <=> IsSuffix(p, s)) /\ (2 \in I <=> IsSuffix(q, s))
      BY <1>2, <1>5, <1>6, <2>2, <2>3
    <2>6. I \in SUBSET (1..2) /\ (I = {} <=> ~(1 \in I \/ 2 \in I))
      BY <2>3
    <2>7. CASE I = {}
      BY <2>1, <2>4, <2>5, <2>7
    <2>8. CASE I # {}
      <3>1. PICK k : k = Max(I)
        OBVIOUS
      <3>2. k \in I
        BY <2>6, <2>8, <3>1, MaxOf
      <3>3. cstr_endwith_mul(s, n, l) = k - 1
        BY <2>4, <2>8, <3>1
      <3>4. k - 1 # -1
        BY <2>6, <3>2
      <3>5. QED
        BY <2>1, <2>5, <2>6, <2>8, <3>3, <3>4
    <2>9. QED
      BY <2>7, <2>8
  <1>11. QED
    BY <1>3, <1>5, <1>7, <1>8, <1>9, <1>10

\* The whole of s is found in a list where it stands, and with case ignored also where
\* it stands in capitals.
THEOREM EntriesFound ==
    ASSUME NEW s \in Seq(DOMAIN Code \cap DOMAIN Lower \cap DOMAIN Upper),
           NEW u, u = cstr_toupper(s, Len(s))
    PROVE  /\ cstr_findstr_in(s, -1, <<Null, u, s>>, FALSE) = IF u = s THEN 1 ELSE 2
           /\ cstr_findstr_in(s, -1, <<u, s>>, TRUE) = 0
  <1>1. PICK n \in Nat : n = Len(s)
    OBVIOUS
  <1>2. s \in Lowered /\ s # Null /\ First(s, n) = s
    <2>1. s \in Lowered
      BY DEF Lowered
    <2>2. QED
      BY <1>1, <2>1, TextWhole
  <1>3. u = [i \in 1..n |-> Upper[s[i]]]
    <2>1. u = [i \in 1..n |-> IF i <= n THEN Upper[s[i]] ELSE s[i]]
      BY <1>1, Zenon DEF cstr_toupper
    <2>2. \A i \in 1..n : (IF i <= n THEN Upper[s[i]] ELSE s[i]) = Upper[s[i]]
      BY <1>1
    <2>3. QED
      BY <2>1, <2>2, Zenon
  <1>4. \A i \in 1..n : /\ Upper[s[i]] \in DOMAIN Code /\ Upper[s[i]] \in DOMAIN Lower
                        /\ Lower[Upper[s[i]]] = Lower[s[i]]
    BY <1>1, UpperAssumption
  <1>5. u \in Texts /\ Len(u) = n /\ u # Null
    <2>1. u \in Seq(DOMAIN Code) /\ Len(u) = n
      BY <1>1, <1>3, <1>4
    <2>2. QED
      BY <2>1, NullAssumption DEF Texts
  <1>6. cstr_findstr_in(s, -1, <<Null, u, s>>, FALSE) = IF u = s THEN 1 ELSE 2
    <2>1. PICK l : l = <<Null, u, s>>
      OBVIOUS
    <2>2. l[1] = Null /\ l[2] = u /\ l[3] = s /\ Len(l) = 3
      BY <2>1
    <2>3. PICK I : I = {i \in 1..3 : l[i] # Null /\ Len(l[i]) = n /\ s = l[i]}
      OBVIOUS
    <2>4. cstr_findstr_in(s, -1, l, FALSE) = (IF I # {} THEN Min(I) ELSE 0) - 1
      BY <1>1, <1>2, <2>2, <2>3 DEF cstr_findstr_in, SelectInSeq
    <2>5. 1 \notin I /\ (2 \in I <=> u = s) /\ 3 \in I /\ I \in SUBSET (1..3)
      BY <1>1, <1>2, <1>5, <2>2, <2>3
    <2>6. PICK k : k = Min(I)
      OBVIOUS
    <2>7. k \in I /\ \A x \in I : k <= x
      <3>1. I \in SUBSET Nat /\ I # {}
        BY <2>5
      <3>2. QED
        BY <2>6, <3>1, MinOf
    <2>8. k \in {2, 3} /\ (k = 2 <=> u = s)
      BY <2>5, <2>7
    <2>9. cstr_findstr_in(s, -1, l, FALSE) = k - 1
      BY <2>4, <2>5, <2>6
    <2>10. k - 1 = IF u = s THEN 1 ELSE 2
      BY <2>8
    <2>11. QED
      BY <2>1, <2>9, <2>10, Zenon
  <1>7. cstr_findstr_in(s, -1, <<u, s>>, TRUE) = 0
    <2>1. PICK l : l = <<u, s>>
      OBVIOUS
    <2>2. l[1] = u /\ l[2] = s /\ Len(l) = 2
      BY <2>1
    <2>3. PICK I : I = {i \in 1..2 : /\ l[i] # Null /\ Len(l[i]) = n
                                     /\ cstr_tolower(s, n) = cstr_tolower(l[i], n)}
      OBVIOUS
    <2>4. cstr_findstr_in(s, -1, l, TRUE) = (IF I # {} THEN Min(I) ELSE 0) - 1
      BY <1>1, <1>2, <2>2, <2>3 DEF cstr_findstr_in, SelectInSeq
    <2>5. cstr_tolower(s, n) = cstr_tolower(u, n)
      <3>1. /\ cstr_tolower(s, n) = [i \in 1..n |-> IF i <= n THEN Lower[s[i]] ELSE s[i]]
            /\ cstr_tolower(u, n) = [i \in 1..n |-> IF i <= n THEN Lower[u[i]] ELSE u[i]]
        BY <1>1, <1>5, Zenon DEF cstr_tolower
      <3>2. \A i \in 1..n : (IF i <= n THEN Lower[s[i]] ELSE s[i])
                            = IF i <= n THEN Lower[u[i]] ELSE u[i]
        BY <1>1, <1>3, <1>4
      <3>3. QED
        BY <3>1, <3>2, Zenon
    <2>6. 1 \in I /\ I \in SUBSET (1..2)
      BY <1>5, <2>2, <2>3, <2>5
    <2>7. PICK k : k = Min(I)
      OBVIOUS
    <2>8. k \in I /\ \A x \in I : k <= x
      <3>1. I \in SUBSET Nat /\ I # {}
        BY <2>6
      <3>2. QED
        BY <2>7, <3>1, MinOf
    <2>9. k = 1
      BY <2>6, <2>8
    <2>10. cstr_findstr_in(s, -1, l, TRUE) = k - 1
      BY <2>4, <2>6, <2>7
    <2>11. k - 1 = 0
      BY <2>9
    <2>12. QED
      BY <2>1, <2>10, <2>11, Zenon
  <1>8. QED
    BY <1>6, <1>7

\* The same of p and of the second pattern q, by a name.
Found(s, n, p, m, q) ==
    /\ cstr_containwith(s, n, p, m) >= 0 <=> \E i \in 0..n : IsPrefix(p, From(s, i))
    /\ cstr_startwith(s, n, p, m) <=> cstr_containwith(s, n, p, m) = 0
    /\ cstr_endwith(s, n, p, m) <=> cstr_startwith(Reverse(s), n, Reverse(p), m)
    /\ cstr_startwith_mul(s, n, <<q, Null, p>>) = 2 <=> cstr_startwith(s, n, p, m)
    /\ cstr_endwith_mul(s, n, <<p, q>>) = -1 <=> ~(IsSuffix(p, s) \/ IsSuffix(q, s))

LEMMA PatternFound ==
    ASSUME NEW s \in Texts, NEW p \in Texts, NEW q \in Texts
    PROVE  Found(s, Len(s), p, Len(p), q)
  BY TextsFound DEF Found

\* SearchesAgree for texts of any length.
THEOREM HelpersSearchesAgree == Spec => []SearchesAgree
  <1>1. InputTypes => SearchesAgree
    <2>1. SUFFICES ASSUME in \in Seq(Letters) PROVE Text => SearchesAgree
      BY Zenon DEF InputTypes, SearchesAgree, Text
    <2>2. in \in Texts /\ in \in Seq(DOMAIN Code \cap DOMAIN Lower \cap DOMAIN Upper) /\ N = Len(in)
      BY <2>1, LettersAssumption DEF Texts, N
    <2>3. \A c \in Letters : c \in DOMAIN Code
      BY LettersAssumption
    <2>4. <<"a">> \in Texts /\ <<"b">> \in Texts /\ \A p \in Patterns : p \in Texts
      <3>1. "a" \in DOMAIN Code /\ "b" \in DOMAIN Code
        BY <2>3 DEF Letters
      <3>2. <<"a">> \in Texts /\ <<"b">> \in Texts
        BY <3>1 DEF Texts
      <3>3. <<"a", "b">> \in Texts /\ <<"a", "a">> \in Texts /\ <<"a", "b", "a">> \in Texts
        BY <3>1 DEF Texts
      <3>4. QED
        BY <3>2, <3>3, Zenon DEF Patterns
    <2>5. ASSUME NEW n \in 0..N, NEW c \in Letters
          PROVE  /\ cstr_Lfind_chr(in, n, c) = cstr_containwith(in, n, <<c>>, 1)
                 /\ cstr_Lfind_chr(in, n, c) = cstr_find_chrs(in, n, <<c>>)
                 /\ cstr_Rfind_chr(in, n, c)
                        = IF cstr_Lfind_chr(in, n, c) < 0 THEN -1
                          ELSE n - 1 - cstr_Lfind_chr(Reverse(First(in, n)), n, c)
      BY <2>2, <2>3, CharactersFound
    <2>6. ASSUME NEW p \in Patterns
          PROVE  /\ cstr_containwith(in, N, p, Len(p)) >= 0
                        <=> \E i \in 0..N : IsPrefix(p, From(in, i))
                 /\ cstr_startwith(in, N, p, Len(p)) <=> cstr_containwith(in, N, p, Len(p)) = 0
                 /\ cstr_endwith(in, N, p, Len(p))
                        <=> cstr_startwith(Reverse(in), N, Reverse(p), Len(p))
                 /\ cstr_startwith_mul(in, N, <<<<"a">>, Null, p>>) = 2
                        <=> cstr_containwith(in, N, p, Len(p)) = 0
                 /\ cstr_endwith_mul(in, N, <<p, <<"b">>>>) = -1
                        <=> ~(IsSuffix(p, in) \/ IsSuffix(<<"b">>, in))
      <3>1. p \in Texts
        BY <2>4
      <3>2. Found(in, N, p, Len(p), <<"a">>) /\ Found(in, N, p, Len(p), <<"b">>)
        BY <2>2, <2>4, <3>1, PatternFound, Zenon
      <3>3. QED
        BY <3>2, Zenon DEF Found
    <2>7. /\ cstr_findstr_in(in, -1, <<Null, cstr_toupper(in, N), in>>, FALSE)
                = IF cstr_toupper(in, N) = in THEN 1 ELSE 2
          /\ cstr_findstr_in(in, -1, <<cstr_toupper(in, N), in>>, TRUE) = 0
      BY <2>2, EntriesFound
    <2>8. QED
      BY <2>5, <2>6, <2>7, Zenon DEF SearchesAgree
  <1>2. QED
    BY <1>1, InputsGrow, PTL

-----------------------------------------------------------------------------
(* Joining parts *)

\* Concatenation by a name, and what is used of it.
Cat(a, b) == a \o b

LEMMA CatIs ==
    ASSUME NEW S, NEW a \in Seq(S), NEW b \in Seq(S)
    PROVE  /\ Cat(a, b) \in Seq(S) /\ Len(Cat(a, b)) = Len(a) + Len(b)
           /\ \A i \in 1..(Len(a) + Len(b)) :
                Cat(a, b)[i] = IF i <= Len(a) THEN a[i] ELSE b[i - Len(a)]
  BY ConcatProperties DEF Cat

LEMMA CatText ==
    ASSUME NEW a \in Texts, NEW b \in Texts
    PROVE  Cat(a, b) \in Texts
  BY CatIs DEF Texts

LEMMA CatChars ==
    ASSUME NEW a \in Texts, NEW b \in Texts
    PROVE  /\ Cat(a, b) \in Texts /\ Len(Cat(a, b)) = Len(a) + Len(b)
           /\ \A i \in 1..(Len(a) + Len(b)) :
                Cat(a, b)[i] = IF i <= Len(a) THEN a[i] ELSE b[i - Len(a)]
  BY CatIs DEF Texts

LEMMA CatLen ==
    ASSUME NEW a \in Texts, NEW b \in Texts
    PROVE  Cat(a, b) \in Texts /\ Len(Cat(a, b)) = Len(a) + Len(b)
  BY CatChars

LEMMA CatRegroup ==
    ASSUME NEW a \in Texts, NEW b \in Texts, NEW c \in Texts
    PROVE  Cat(Cat(a, b), c) = Cat(a, Cat(b, c))
  <1>1. PICK S : S = DOMAIN Code
    OBVIOUS
  <1>2. a \in Seq(S) /\ b \in Seq(S) /\ c \in Seq(S)
    BY <1>1, Zenon DEF Texts
  <1>3. (a \o b) \o c = a \o (b \o c)
    BY <1>2, ConcatAssociative, SMTT(30)
  <1>4. QED
    BY <1>3, Zenon DEF Cat

\* The parts before p, the separator and p; or p if it is the first.
Joined(s, p, sep) == IF s = Null THEN p ELSE Cat(Cat(s, sep), p)

\* What Join folds: in order, every part is put behind those before it.
LEMMA JoinInOrder ==
    ASSUME NEW parts \in Seq(Texts), NEW m \in Nat, m = Len(parts), NEW sep \in Texts
    PROVE  \E a : /\ a[0] = Null
                  /\ \A i \in 1..m : a[i] = Joined(a[i - 1], parts[i], sep)
                  /\ Join(parts, sep) = a[m]
  <1> DEFINE V == Texts \cup {Null}
             R(h) == h = [s \in SUBSET (1..m) |->
                            IF s = {} THEN Null ELSE Joined(h[s \ {Max(s)}], parts[Max(s)], sep)]
  <1>1. \E h : R(h)
    <2>1. PICK F : F = [x \in V \X (1..m) |-> Joined(x[1], parts[x[2]], sep)]
      OBVIOUS
    <2>2. ASSUME NEW v \in V, NEW i \in 1..m PROVE Joined(v, parts[i], sep) \in V
      <3>1. parts[i] \in Texts
        OBVIOUS
      <3>2. ASSUME v # Null PROVE Cat(Cat(v, sep), parts[i]) \in Texts
        BY <3>1, <3>2, CatText
      <3>3. QED
        BY <3>1, <3>2 DEF Joined
    <2>3. F \in Steps(V, m) /\ \A v \in V, i \in 1..m : F[<<v, i>>] = Joined(v, parts[i], sep)
      <3> HIDE DEF V
      <3>1. QED
        BY <2>1, <2>2 DEF Steps
    <2>4. PICK g : IsTypedFold(g, V, Null, F, m)
      <3>1. Null \in V
        OBVIOUS
      <3> HIDE DEF V, R
      <3>2. QED
        BY <2>3, <3>1, TypedFoldExists, Zenon
    <2>5. ASSUME NEW s \in SUBSET (1..m)
          PROVE  g[s] = IF s = {} THEN Null ELSE Joined(g[s \ {Max(s)}], parts[Max(s)], sep)
      <3> HIDE DEF V
      <3>1. CASE s = {}
        BY <2>4, <3>1 DEF IsTypedFold
      <3>2. CASE s # {}
        <4>1. PICK k : k = Max(s)
          OBVIOUS
        <4>2. k \in 1..m /\ s \ {k} \in SUBSET (1..m)
          BY <3>2, <4>1, MaxOf
        <4>3. g[s \ {k}] \in V
          BY <2>4, <4>2 DEF IsTypedFold
        <4>4. g[s] = F[<<g[s \ {k}], k>>]
          BY <2>4, <3>2, <4>1, Zenon DEF IsTypedFold
        <4>5. g[s] = Joined(g[s \ {k}], parts[k], sep)
          BY <2>3, <4>2, <4>3, <4>4, Zenon
        <4>6. QED
          BY <3>2, <4>1, <4>5, Zenon
      <3>3. QED
        BY <3>1, <3>2
    <2>6. g = [s \in SUBSET (1..m) |-> g[s]]
      BY <2>4 DEF IsTypedFold
    <2>7. R(g)
      BY <2>5, <2>6, Zenon
    <2>8. QED
      BY <2>7, Zenon
  <1>2. PICK h : h = CHOOSE g : R(g)
    OBVIOUS
  <1>3. R(h)
    BY <1>1, <1>2, Zenon
  <1>4. DOMAIN parts = 1..m
    OBVIOUS
  <1>5. Join(parts, sep) = h[1..m]
    BY <1>2, <1>4, Zenon DEF Join, FoldLeft, MapThenFoldSet, Joined, Cat
  <1>6. \A s \in SUBSET (1..m) :
            h[s] = IF s = {} THEN Null ELSE Joined(h[s \ {Max(s)}], parts[Max(s)], sep)
    BY <1>3
  <1> HIDE DEF R
  <1>7. PICK a : a = [i \in 0..m |-> h[1..i]]
    OBVIOUS
  <1>8. m \in 0..m /\ 0 \in 0..m /\ \A i \in 1..m : i \in 0..m /\ i - 1 \in 0..m
    OBVIOUS
  <1>9. a[0] = Null
    <2>1. 1..0 = {} /\ 1..0 \in SUBSET (1..m)
      OBVIOUS
    <2>2. h[1..0] = Null
      BY <1>6, <2>1, Zenon
    <2>3. QED
      BY <1>7, <1>8, <2>2
  <1>10. ASSUME NEW i \in 1..m PROVE a[i] = Joined(a[i - 1], parts[i], sep)
    <2>1. /\ 1..i \in SUBSET (1..m) /\ 1..i # {}
          /\ Max(1..i) = i /\ (1..i) \ {i} = 1..(i - 1)
      BY Upto
    <2>2. h[1..i] = Joined(h[1..(i - 1)], parts[i], sep)
      BY <1>6, <2>1, Zenon
    <2>3. a[i] = h[1..i] /\ a[i - 1] = h[1..(i - 1)]
      BY <1>7, <1>8
    <2>4. QED
      BY <2>2, <2>3, Zenon
  <1>11. QED
    BY <1>5, <1>7, <1>8, <1>9, <1>10

\* Joining one part gives that part; a part in front is put in front, with the separator.
LEMMA JoinFront ==
    ASSUME NEW x \in Texts, NEW sep \in Texts
    PROVE  /\ Join(<<x>>, sep) = x
           /\ \A ps \in Seq(Texts) : ps # <<>> =>
                /\ Join(ps, sep) \in Texts
                /\ Join(<<x>> \o ps, sep) = Cat(Cat(x, sep), Join(ps, sep))
  <1>1. \A t \in Texts : t # Null
    BY NullAssumption DEF Texts
  <1>2. Join(<<x>>, sep) = x
    <2>1. PICK ps : ps = <<x>>
      OBVIOUS
    <2>2. ps \in Seq(Texts) /\ Len(ps) = 1 /\ ps[1] = x
      BY <2>1
    <2>3. PICK a : /\ a[0] = Null
                   /\ \A i \in 1..1 : a[i] = Joined(a[i - 1], ps[i], sep)
                   /\ Join(ps, sep) = a[1]
      BY <2>2, JoinInOrder
    <2>4. a[1] = Joined(a[0], x, sep)
      <3>1. 1 \in 1..1 /\ 1 - 1 = 0
        OBVIOUS
      <3>2. QED
        BY <2>2, <2>3, <3>1
    <2>5. QED
      BY <2>1, <2>3, <2>4 DEF Joined
  <1>3. ASSUME NEW ps \in Seq(Texts), ps # <<>>
        PROVE  /\ Join(ps, sep) \in Texts
               /\ Join(<<x>> \o ps, sep) = Cat(Cat(x, sep), Join(ps, sep))
    <2>1. PICK n \in Nat : n = Len(ps) /\ n > 0
      BY <1>3
    <2>2. PICK qs : qs = <<x>> \o ps
      OBVIOUS
    <2>3. /\ qs \in Seq(Texts) /\ Len(qs) = n + 1 /\ qs[1] = x
          /\ \A i \in 1..n : qs[i + 1] = ps[i] /\ ps[i] \in Texts
      <3>1. <<x>> \in Seq(Texts) /\ Len(<<x>>) = 1 /\ <<x>>[1] = x
        OBVIOUS
      <3>2. qs \in Seq(Texts) /\ Len(qs) = n + 1
        BY <2>1, <2>2, <3>1, ConcatProperties
      <3>3. \A i \in 1..(n + 1) : qs[i] = IF i <= 1 THEN <<x>>[i] ELSE ps[i - 1]
        BY <2>1, <2>2, <3>1, ConcatProperties
      <3>4. ASSUME NEW i \in 1..n PROVE qs[i + 1] = ps[i] /\ ps[i] \in Texts
        <4>1. i + 1 \in 1..(n + 1) /\ ~(i + 1 <= 1) /\ (i + 1) - 1 = i
          OBVIOUS
        <4>2. qs[i + 1] = ps[i]
          BY <3>3, <4>1
        <4>3. QED
          BY <2>1, <4>2
      <3>5. qs[1] = x
        BY <3>1, <3>3
      <3>6. QED
        BY <3>2, <3>4, <3>5
    <2>4. PICK a : /\ a[0] = Null
                   /\ \A i \in 1..n : a[i] = Joined(a[i - 1], ps[i], sep)
                   /\ Join(ps, sep) = a[n]
      BY <2>1, JoinInOrder
    <2>5. PICK c : /\ c[0] = Null
                   /\ \A i \in 1..(n + 1) : c[i] = Joined(c[i - 1], qs[i], sep)
                   /\ Join(qs, sep) = c[n + 1]
      BY <2>3, JoinInOrder
    <2>6. c[1] = x
      <3>1. 1 \in 1..(n + 1) /\ 1 - 1 = 0
        OBVIOUS
      <3>2. QED
        BY <2>3, <2>5, <3>1 DEF Joined
    <2> DEFINE Q(i) == a[i] \in Texts /\ c[i + 1] = Cat(Cat(x, sep), a[i])
               T == {i \in 1..n : ~Q(i)}
    <2>7. ASSUME T # {} PROVE FALSE
      <3>1. PICK i \in T : \A y \in T : i <= y
        <4> HIDE DEF Q
        <4>1. T \in SUBSET Nat
          OBVIOUS
        <4>2. QED
          BY <2>7, <4>1, NatLeast
      <3>2. i \in 1..n /\ ~(a[i] \in Texts /\ c[i + 1] = Cat(Cat(x, sep), a[i]))
        OBVIOUS
      <3>3. i + 1 \in 1..(n + 1) /\ (i + 1) - 1 = i
        BY <3>2
      <3>4. c[i + 1] = Joined(c[i], ps[i], sep) /\ ps[i] \in Texts
        BY <2>3, <2>5, <3>2, <3>3
      <3>5. a[i] = Joined(a[i - 1], ps[i], sep)
        BY <2>4, <3>2
      <3>6. CASE i = 1
        <4>1. a[i] = ps[i]
          BY <2>4, <3>5, <3>6 DEF Joined
        <4>2. c[i] = x /\ x # Null
          BY <1>1, <2>6, <3>6
        <4>3. c[i + 1] = Cat(Cat(x, sep), ps[i])
          BY <3>4, <4>2 DEF Joined
        <4>4. QED
          BY <3>2, <3>4, <4>1, <4>3
      <3>7. CASE i # 1
        <4>1. PICK j : j = i - 1
          OBVIOUS
        <4>2. j \in 1..n /\ j + 1 = i /\ ~(i <= j)
          BY <3>2, <3>7, <4>1
        <4>3. a[j] \in Texts /\ c[i] = Cat(Cat(x, sep), a[j])
          BY <3>1, <4>2
        <4>4. c[i] \in Texts
          BY <4>3, CatText
        <4>5. a[i] = Cat(Cat(a[j], sep), ps[i])
          BY <1>1, <3>5, <4>1, <4>3 DEF Joined
        <4>6. c[i + 1] = Cat(Cat(Cat(Cat(x, sep), a[j]), sep), ps[i])
          BY <1>1, <3>4, <4>3, <4>4 DEF Joined
        <4>7. Cat(Cat(Cat(Cat(x, sep), a[j]), sep), ps[i]) = Cat(Cat(x, sep), Cat(Cat(a[j], sep), ps[i]))
          <5>1. Cat(x, sep) \in Texts /\ a[j] \in Texts /\ Cat(a[j], sep) \in Texts /\ ps[i] \in Texts
            BY <3>4, <4>3, CatText
          <5>2. Cat(Cat(Cat(x, sep), a[j]), sep) = Cat(Cat(x, sep), Cat(a[j], sep))
            BY <5>1, CatRegroup
          <5>3. Cat(Cat(Cat(x, sep), Cat(a[j], sep)), ps[i]) = Cat(Cat(x, sep), Cat(Cat(a[j], sep), ps[i]))
            BY <5>1, CatRegroup
          <5>4. QED
            BY <5>2, <5>3
        <4>8. a[i] \in Texts
          BY <3>4, <4>3, <4>5, CatText
        <4>9. QED
          BY <3>2, <4>5, <4>6, <4>7, <4>8
      <3>8. QED
        BY <3>6, <3>7
    <2>8. n \in 1..n
      BY <2>1
    <2>9. a[n] \in Texts /\ c[n + 1] = Cat(Cat(x, sep), a[n])
      BY <2>7, <2>8
    <2>10. QED
      BY <2>2, <2>4, <2>5, <2>9
  <1>4. QED
    BY <1>2, <1>3

\* A prefix by its elements.
LEMMA PrefixIs ==
    ASSUME NEW S, NEW s \in Seq(S), NEW t \in Seq(S)
    PROVE  IsPrefix(s, t) <=> Len(s) <= Len(t) /\ \A k \in 1..Len(s) : s[k] = t[k]
  <1>1. PICK m, n : m = Len(s) /\ n = Len(t)
    OBVIOUS
  <1>2. m \in Nat /\ n \in Nat
    BY <1>1
  <1>3. IsPrefix(s, t) <=> m <= n /\ SubSeq(s, 1, m) = SubSeq(t, 1, m)
    BY <1>1 DEF IsPrefix
  <1>4. ASSUME m <= n
        PROVE  SubSeq(s, 1, m) = SubSeq(t, 1, m) <=> \A k \in 1..m : s[k] = t[k]
    <2>1. SubSeq(s, 1, m) = s
      BY <1>1, SubSeqFull
    <2>2. PICK u : u = SubSeq(t, 1, m)
      OBVIOUS
    <2>3. u \in Seq(S) /\ Len(u) = m /\ \A k \in 1..m : u[k] = t[k]
      BY <1>1, <1>2, <1>4, <2>2
    <2>4. s = u <=> \A k \in 1..m : s[k] = u[k]
      BY <1>1, <1>2, <2>3, SameText
    <2>5. QED
      BY <2>1, <2>2, <2>3, <2>4
  <1>5. QED
    BY <1>1, <1>3, <1>4

\* What begins a text also begins what that text begins.
LEMMA PrefixLonger ==
    ASSUME NEW w \in Texts, NEW x \in Texts, NEW sep \in Texts, NEW p \in Texts, IsPrefix(w, x)
    PROVE  IsPrefix(w, Cat(Cat(x, sep), p))
  <1>1. PICK k, n, y, m, z : /\ k = Len(w) /\ n = Len(x) /\ y = Cat(x, sep) /\ m = Len(y)
                             /\ z = Cat(y, p)
    OBVIOUS
  <1>2. k \in Nat /\ n \in Nat /\ k <= n /\ \A i \in 1..k : w[i] = x[i]
    BY <1>1, PrefixIs DEF Texts
  <1>3. /\ y \in Texts /\ m = n + Len(sep)
        /\ \A i \in 1..(n + Len(sep)) : y[i] = IF i <= n THEN x[i] ELSE sep[i - n]
    BY <1>1, CatChars
  <1>4. /\ z \in Texts /\ Len(z) = m + Len(p)
        /\ \A i \in 1..(m + Len(p)) : z[i] = IF i <= m THEN y[i] ELSE p[i - m]
    <2>1. /\ Cat(y, p) \in Texts /\ Len(Cat(y, p)) = Len(y) + Len(p)
          /\ \A i \in 1..(Len(y) + Len(p)) :
                Cat(y, p)[i] = IF i <= Len(y) THEN y[i] ELSE p[i - Len(y)]
      BY <1>3, CatChars
    <2>2. QED
      BY <1>1, <2>1, Zenon
  <1>5. Len(sep) \in Nat /\ Len(p) \in Nat
    BY DEF Texts
  <1>6. ASSUME NEW i \in 1..k PROVE w[i] = z[i]
    <2>1. i \in 1..(n + Len(sep)) /\ i <= n /\ i <= m /\ i \in 1..(m + Len(p))
      BY <1>2, <1>3, <1>5
    <2>2. z[i] = y[i] /\ y[i] = x[i]
      BY <1>3, <1>4, <2>1
    <2>3. QED
      BY <1>2, <2>2
  <1>7. k <= Len(z)
    BY <1>2, <1>3, <1>4, <1>5
  <1>8. IsPrefix(w, z)
    BY <1>1, <1>4, <1>6, <1>7, PrefixIs DEF Texts
  <1>9. QED
    BY <1>1, <1>8

\* The first parts, joined, are the beginning of all parts joined.
LEMMA JoinBegins ==
    ASSUME NEW parts \in Seq(Texts), NEW sep \in Texts, NEW k \in 1..Len(parts)
    PROVE  IsPrefix(Join(First(parts, k), sep), Join(parts, sep))
  <1>1. PICK m : m = Len(parts)
    OBVIOUS
  <1>2. m \in Nat /\ k \in 1..m /\ \A i \in 1..m : parts[i] \in Texts
    BY <1>1
  <1>3. \A t \in Texts : t # Null
    BY NullAssumption DEF Texts
  <1>4. PICK fs : fs = First(parts, k)
    OBVIOUS
  <1>5. fs \in Seq(Texts) /\ Len(fs) = k /\ \A i \in 1..k : fs[i] = parts[i]
    <2>1. k \in 0..Len(parts)
      BY <1>2
    <2>2. QED
      BY <1>4, <2>1, FirstIs
  <1>6. PICK a : /\ a[0] = Null
                 /\ \A i \in 1..m : a[i] = Joined(a[i - 1], parts[i], sep)
                 /\ Join(parts, sep) = a[m]
    BY <1>1, <1>2, JoinInOrder
  <1>7. PICK b : /\ b[0] = Null
                 /\ \A i \in 1..k : b[i] = Joined(b[i - 1], fs[i], sep)
                 /\ Join(fs, sep) = b[k]
    BY <1>2, <1>5, JoinInOrder
  <1>8. ASSUME NEW i \in 1..m, i = 1 \/ a[i - 1] \in Texts
        PROVE  /\ a[i] \in Texts
               /\ i # 1 => a[i] = Cat(Cat(a[i - 1], sep), parts[i])
    <2>1. a[i] = Joined(a[i - 1], parts[i], sep)
      BY <1>6
    <2>2. CASE i = 1
      BY <1>2, <1>6, <2>1, <2>2 DEF Joined
    <2>3. CASE i # 1
      <3>1. a[i] = Cat(Cat(a[i - 1], sep), parts[i])
        BY <1>3, <1>8, <2>1, <2>3 DEF Joined
      <3>2. QED
        BY <1>2, <1>8, <2>3, <3>1, CatText
    <2>4. QED
      BY <2>2, <2>3
  <1>9. \A i \in 1..m : a[i] \in Texts
    <2> DEFINE T == {i \in 1..m : a[i] \notin Texts}
    <2>1. SUFFICES ASSUME T # {} PROVE FALSE
      OBVIOUS
    <2>2. T \in SUBSET Nat
      OBVIOUS
    <2>3. PICK i \in T : \A y \in T : i <= y
      <3> HIDE DEF T
      <3>1. QED
        BY <2>1, <2>2, NatLeast
    <2>4. i \in 1..m /\ a[i] \notin Texts
      OBVIOUS
    <2>5. i = 1 \/ (i - 1 \in 1..m /\ ~(i <= i - 1))
      BY <1>2, <2>4
    <2>6. i = 1 \/ a[i - 1] \in Texts
      BY <2>3, <2>5
    <2>7. QED
      BY <1>8, <2>4, <2>6
  <1>10. \A i \in 0..k : b[i] = a[i]
    <2> DEFINE T == {i \in 0..k : b[i] # a[i]}
    <2>1. SUFFICES ASSUME T # {} PROVE FALSE
      OBVIOUS
    <2>2. T \in SUBSET Nat
      BY <1>2
    <2>3. PICK i \in T : \A y \in T : i <= y
      <3> HIDE DEF T
      <3>1. QED
        BY <2>1, <2>2, NatLeast
    <2>4. i \in 0..k /\ b[i] # a[i] /\ i # 0
      BY <1>6, <1>7
    <2>5. i \in 1..k /\ i \in 1..m /\ i - 1 \in 0..k /\ ~(i <= i - 1)
      BY <1>2, <2>4
    <2>6. b[i - 1] = a[i - 1]
      BY <2>3, <2>5
    <2>7. fs[i] = parts[i]
      BY <1>5, <2>5
    <2>8. b[i] = Joined(b[i - 1], fs[i], sep) /\ a[i] = Joined(a[i - 1], parts[i], sep)
      BY <1>6, <1>7, <2>5
    <2>9. QED
      BY <2>4, <2>6, <2>7, <2>8, Zenon
  <1>11. \A i \in k..m : IsPrefix(a[k], a[i])
    <2> DEFINE T == {i \in k..m : ~IsPrefix(a[k], a[i])}
    <2>1. SUFFICES ASSUME T # {} PROVE FALSE
      OBVIOUS
    <2>2. T \in SUBSET Nat
      BY <1>2
    <2>3. PICK i \in T : \A y \in T : i <= y
      <3> HIDE DEF T
      <3>1. QED
        BY <2>1, <2>2, NatLeast
    <2>4. i \in k..m /\ ~IsPrefix(a[k], a[i])
      OBVIOUS
    <2>5. a[k] \in Texts
      BY <1>2, <1>9
    <2>6. i # k
      <3>1. IsPrefix(a[k], a[k])
        BY <2>5, PrefixIs DEF Texts
      <3>2. QED
        BY <2>4, <3>1
    <2>7. PICK j : j = i - 1
      OBVIOUS
    <2>8. i \in 1..m /\ i # 1 /\ j \in k..m /\ j \in 1..m /\ ~(i <= j)
      BY <1>2, <2>4, <2>6, <2>7
    <2>9. IsPrefix(a[k], a[j])
      BY <2>3, <2>8
    <2>10. a[j] \in Texts /\ parts[i] \in Texts
      BY <1>2, <1>9, <2>8
    <2>11. a[i] = Cat(Cat(a[j], sep), parts[i])
      BY <1>8, <2>7, <2>8, <2>10
    <2>12. IsPrefix(a[k], a[i])
      BY <2>5, <2>9, <2>10, <2>11, PrefixLonger
    <2>13. QED
      BY <2>4, <2>12
  <1>12. k \in 0..k /\ m \in k..m
    BY <1>2
  <1>13. QED
    BY <1>4, <1>6, <1>7, <1>10, <1>11, <1>12

-----------------------------------------------------------------------------
(* Splitting and replacing: the walk from one occurrence to the next *)

\* strstr gives the first place of a text at or behind a place.
LEMMA StrstrIs ==
    ASSUME NEW s \in Texts, NEW pat \in Texts, NEW n, n = Len(s), NEW m, m = Len(pat), m > 0,
           NEW at \in 1..(n + 1), NEW p, p = strstr(s, pat, at)
    PROVE  \/ p = 0 /\ \A i \in (at - 1)..(n - m) : ~MatchesAt(s, i, pat)
           \/ /\ p \in at..(n - m + 1) /\ MatchesAt(s, p - 1, pat)
              /\ \A i \in (at - 1)..(p - 2) : ~MatchesAt(s, i, pat)
  <1>1. n \in Nat /\ m \in Nat
    BY DEF Texts
  <1>2. PICK u : u = From(s, at - 1)
    OBVIOUS
  <1>3. at - 1 \in 0..Len(s) /\ n - at + 1 = Len(s) - (at - 1) /\ n - at + 1 \in Nat
    BY <1>1
  <1>4. /\ u \in Texts /\ Len(u) = n - at + 1
        /\ \A k \in 1..(n - at + 1) : u[k] = s[at - 1 + k]
    BY <1>2, <1>3, FromIs DEF Texts
  <1>5. ASSUME NEW i \in 0..(n - at + 1 - m)
        PROVE  MatchesAt(u, i, pat) <=> MatchesAt(s, at - 1 + i, pat)
    <2>1. ASSUME NEW k \in 1..m PROVE u[i + k] = s[at - 1 + i + k]
      <3>1. i + k \in 1..(n - at + 1) /\ at - 1 + (i + k) = at - 1 + i + k
        BY <1>1
      <3>2. QED
        BY <1>4, <3>1
    <2>2. QED
      BY <2>1 DEF MatchesAt
  <1>6. PICK r : r = cstr_containwith(u, n - at + 1, pat, m)
    OBVIOUS
  <1>7. ContainedAt(u, n - at + 1, pat, r)
    <2>1. n - at + 1 \in 0..Len(u)
      BY <1>3, <1>4
    <2>2. QED
      BY <1>4, <1>6, <2>1, ContainsIs
  <1>8. p = IF r < 0 THEN 0 ELSE at + r
    BY <1>2, <1>6 DEF strstr
  <1>9. CASE r = -1
    <2>1. \A i \in 0..(n - at + 1 - m) : ~MatchesAt(u, i, pat)
      BY <1>7, <1>9 DEF ContainedAt
    <2>2. ASSUME NEW i \in (at - 1)..(n - m) PROVE ~MatchesAt(s, i, pat)
      <3>1. PICK j : j = i - (at - 1)
        OBVIOUS
      <3>2. j \in 0..(n - at + 1 - m) /\ at - 1 + j = i
        BY <1>1, <3>1
      <3>3. QED
        BY <1>5, <2>1, <3>2
    <2>3. QED
      BY <1>8, <1>9, <2>2
  <1>10. CASE r # -1
    <2>1. /\ r \in 0..(n - at + 1 - m) /\ MatchesAt(u, r, pat)
          /\ \A i \in 0..(r - 1) : ~MatchesAt(u, i, pat)
      BY <1>7, <1>10 DEF ContainedAt
    <2>2. p = at + r /\ p - 1 = at - 1 + r
      BY <1>8, <2>1
    <2>3. p \in at..(n - m + 1)
      BY <1>1, <2>1, <2>2
    <2>4. ASSUME NEW i \in (at - 1)..(p - 2) PROVE ~MatchesAt(s, i, pat)
      <3>1. PICK j : j = i - (at - 1)
        OBVIOUS
      <3>2. j \in 0..(r - 1) /\ j \in 0..(n - at + 1 - m) /\ at - 1 + j = i
        BY <1>1, <2>1, <2>2, <3>1
      <3>3. QED
        BY <1>5, <2>1, <3>2
    <2>5. QED
      BY <1>5, <2>1, <2>2, <2>3, <2>4
  <1>11. QED
    BY <1>9, <1>10

\* t walks over n characters: where there is no next place it is what stop says, and
\* elsewhere what G makes of the value at the next place.
IsWalk(t, V, n, next, stop, G) ==
    /\ t \in [1..(n + 1) -> V]
    /\ \A at \in 1..(n + 1) :
        t[at] = IF next[at] = 0 THEN stop[at] ELSE G[<<at, t[next[at]]>>]

\* There is such a function when every next place lies behind.
LEMMA WalkExists ==
    ASSUME NEW V, NEW n \in Nat, NEW next,
           \A at \in 1..(n + 1) : next[at] = 0 \/ next[at] \in (at + 1)..(n + 1),
           NEW stop \in [1..(n + 1) -> V], NEW G \in [(1..(n + 1)) \X V -> V]
    PROVE  \E t : IsWalk(t, V, n, next, stop, G)
  <1> DEFINE Value(t, at) == IF next[at] = 0 THEN stop[at] ELSE G[<<at, t[next[at]]>>]
             P(k) == \E t \in [1..(n + 1) -> V] :
                        \A at \in (n + 2 - k)..(n + 1) : t[at] = Value(t, at)
             T == {k \in 0..(n + 1) : ~P(k)}
  <1>1. ASSUME T # {} PROVE FALSE
    <2>1. PICK k \in T : \A y \in T : k <= y
      <3> HIDE DEF P
      <3>1. T \in SUBSET Nat
        OBVIOUS
      <3>2. QED
        BY <1>1, <3>1, NatLeast
    <2>2. k \in 0..(n + 1) /\ ~P(k)
      OBVIOUS
    <2>3. CASE k = 0
      <3>1. (n + 2 - k)..(n + 1) = {}
        BY <2>3
      <3>2. QED
        BY <2>2, <3>1
    <2>4. CASE k # 0
      <3>1. PICK j : j = n + 2 - k
        OBVIOUS
      <3>2. j \in 1..(n + 1) /\ n + 2 - (k - 1) = j + 1
        BY <2>2, <2>4, <3>1
      <3>3. P(k - 1)
        <4> HIDE DEF P
        <4>1. k - 1 \in 0..(n + 1) /\ ~(k <= k - 1)
          BY <2>2, <2>4
        <4>2. QED
          BY <2>1, <4>1
      <3>4. PICK t \in [1..(n + 1) -> V] : \A at \in (j + 1)..(n + 1) : t[at] = Value(t, at)
        BY <3>2, <3>3
      <3>5. PICK w : w = Value(t, j)
        OBVIOUS
      <3>6. w \in V
        BY <3>2, <3>4, <3>5
      <3>7. PICK g : g = [at \in 1..(n + 1) |-> IF at = j THEN w ELSE t[at]]
        OBVIOUS
      <3>8. g \in [1..(n + 1) -> V]
        BY <3>6, <3>7
      <3>9. ASSUME NEW at \in j..(n + 1) PROVE g[at] = Value(g, at)
        <4>1. at \in 1..(n + 1)
          BY <3>2
        <4>2. next[at] # 0 => next[at] \in 1..(n + 1) /\ next[at] # j
          BY <3>2, <4>1
        <4>3. next[at] # 0 => g[next[at]] = t[next[at]]
          BY <3>7, <4>2
        <4>4. Value(g, at) = Value(t, at)
          BY <4>3
        <4>5. CASE at = j
          BY <3>5, <3>7, <4>1, <4>4, <4>5
        <4>6. CASE at # j
          <5>1. at \in (j + 1)..(n + 1)
            BY <3>2, <4>6
          <5>2. t[at] = Value(t, at)
            BY <3>4, <5>1
          <5>3. QED
            BY <3>7, <4>1, <4>4, <4>6, <5>2
        <4>7. QED
          BY <4>5, <4>6
      <3>10. P(k)
        BY <3>1, <3>8, <3>9
      <3>11. QED
        BY <2>2, <3>10
    <2>5. QED
      BY <2>3, <2>4
  <1>2. P(n + 1)
    <2> HIDE DEF P
    <2>1. n + 1 \in 0..(n + 1)
      OBVIOUS
    <2>2. QED
      BY <1>1, <2>1
  <1>3. n + 2 - (n + 1) = 1
    OBVIOUS
  <1>4. PICK t \in [1..(n + 1) -> V] : \A at \in 1..(n + 1) : t[at] = Value(t, at)
    BY <1>2, <1>3
  <1>5. QED
    BY <1>4 DEF IsWalk

\* The place behind the next occurrence of pat, 0 if there is none.
NextAt(s, pat) ==
    [at \in 1..(Len(s) + 1) |-> IF strstr(s, pat, at) = 0 THEN 0 ELSE strstr(s, pat, at) + Len(pat)]

\* The functions that Pieces, Replaced and CountOf compute by recursion.
IsCut(h, s, sep) ==
    h = [at \in 1..(Len(s) + 1) |->
            IF strstr(s, sep, at) = 0 THEN <<From(s, at - 1)>>
            ELSE <<SubSeq(s, at, strstr(s, sep, at) - 1)>> \o h[strstr(s, sep, at) + Len(sep)]]
IsCopy(h, s, pat, rpl) ==
    h = [at \in 1..(Len(s) + 1) |->
            IF strstr(s, pat, at) = 0 THEN From(s, at - 1)
            ELSE SubSeq(s, at, strstr(s, pat, at) - 1) \o rpl \o h[strstr(s, pat, at) + Len(pat)]]
IsCount(h, s, pat) ==
    h = [at \in 1..(Len(s) + 1) |->
            IF strstr(s, pat, at) = 0 THEN 0 ELSE 1 + h[strstr(s, pat, at) + Len(pat)]]

\* What is between a place and the next occurrence, and behind the last one.
LEMMA NextIs ==
    ASSUME NEW s \in Texts, NEW pat \in Texts, pat # <<>>, NEW n, n = Len(s), NEW m, m = Len(pat),
           NEW at \in 1..(n + 1), NEW p, p = strstr(s, pat, at)
    PROVE  /\ n \in Nat /\ m \in Nat /\ m > 0 /\ From(s, at - 1) \in Texts
           /\ \/ p = 0 /\ NextAt(s, pat)[at] = 0
              \/ /\ p # 0 /\ p \in at..(n - m + 1) /\ SubSeq(s, at, p - 1) \in Texts
                 /\ Len(SubSeq(s, at, p - 1)) = p - at
                 /\ NextAt(s, pat)[at] = p + m /\ p + m \in (at + 1)..(n + 1)
  <1>1. n \in Nat /\ m \in Nat /\ m > 0
    BY DEF Texts
  <1>2. From(s, at - 1) \in Texts
    <2>1. at - 1 \in 0..Len(s)
      BY <1>1
    <2>2. QED
      BY <2>1, FromIs DEF Texts
  <1>3. p = 0 \/ p \in at..(n - m + 1)
    BY <1>1, StrstrIs
  <1>4. NextAt(s, pat)[at] = IF p = 0 THEN 0 ELSE p + m
    BY DEF NextAt
  <1>5. ASSUME p \in at..(n - m + 1)
        PROVE  /\ SubSeq(s, at, p - 1) \in Texts /\ Len(SubSeq(s, at, p - 1)) = p - at
               /\ p # 0 /\ p + m \in (at + 1)..(n + 1)
    <2>1. /\ s \in Seq(DOMAIN Code) /\ at \in Int /\ p - 1 \in Int
          /\ \A i \in at..(p - 1) : s[i] \in DOMAIN Code
      BY <1>1, <1>5 DEF Texts
    <2>2. /\ SubSeq(s, at, p - 1) \in Seq(DOMAIN Code)
          /\ Len(SubSeq(s, at, p - 1)) = IF at <= p - 1 THEN p - 1 - at + 1 ELSE 0
      BY <2>1, SubSeqProperties
    <2>3. p # 0 /\ p + m \in (at + 1)..(n + 1)
      BY <1>1, <1>5
    <2>4. (IF at <= p - 1 THEN p - 1 - at + 1 ELSE 0) = p - at
      BY <1>1, <1>5
    <2>5. QED
      BY <2>2, <2>3, <2>4 DEF Texts
  <1>6. QED
    BY <1>1, <1>2, <1>3, <1>4, <1>5

\* A walk over s from occurrence to occurrence exists.
LEMMA WalkOver ==
    ASSUME NEW s \in Texts, NEW pat \in Texts, pat # <<>>, NEW V, NEW n, n = Len(s),
           NEW stop \in [1..(n + 1) -> V], NEW G \in [(1..(n + 1)) \X V -> V]
    PROVE  \E t : IsWalk(t, V, n, NextAt(s, pat), stop, G)
  <1>1. n \in Nat
    BY DEF Texts
  <1>2. PICK next : next = NextAt(s, pat)
    OBVIOUS
  <1>3. \A at \in 1..(n + 1) : next[at] = 0 \/ next[at] \in (at + 1)..(n + 1)
    <2>1. TAKE at \in 1..(n + 1)
    <2>2. PICK p, m : p = strstr(s, pat, at) /\ m = Len(pat)
      OBVIOUS
    <2>3. next[at] = 0 \/ (next[at] = p + m /\ p + m \in (at + 1)..(n + 1))
      BY <1>2, <2>2, NextIs
    <2>4. QED
      BY <2>3
  <1>4. QED
    BY <1>1, <1>2, <1>3, WalkExists

LEMMA PiecesIs ==
    ASSUME NEW s \in Texts, NEW sep \in Texts, sep # <<>>
    PROVE  \E h : IsCut(h, s, sep) /\ Pieces(s, sep) = h[1]
  <1>1. PICK n, m : n = Len(s) /\ m = Len(sep)
    OBVIOUS
  <1>2. \E h : IsCut(h, s, sep)
    <2>1. PICK V : V = Seq(Texts)
      OBVIOUS
    <2>2. PICK stop : stop = [at \in 1..(n + 1) |-> <<From(s, at - 1)>>]
      OBVIOUS
    <2>3. PICK G : G = [x \in (1..(n + 1)) \X V |->
                            IF strstr(s, sep, x[1]) = 0 THEN x[2]
                            ELSE <<SubSeq(s, x[1], strstr(s, sep, x[1]) - 1)>> \o x[2]]
      OBVIOUS
    <2>4. stop \in [1..(n + 1) -> V]
      <3>1. \A at \in 1..(n + 1) : <<From(s, at - 1)>> \in V
        BY <1>1, <2>1, NextIs
      <3>2. QED
        BY <2>2, <3>1
    <2>5. ASSUME NEW at \in 1..(n + 1), NEW v \in V
          PROVE  /\ G[<<at, v>>] \in V
                 /\ strstr(s, sep, at) # 0 =>
                        G[<<at, v>>] = <<SubSeq(s, at, strstr(s, sep, at) - 1)>> \o v
      <3>1. PICK p : p = strstr(s, sep, at)
        OBVIOUS
      <3>2. p # 0 => SubSeq(s, at, p - 1) \in Texts
        BY <1>1, <3>1, NextIs
      <3>3. p # 0 => <<SubSeq(s, at, p - 1)>> \o v \in V
        BY <2>1, <3>2
      <3>4. G[<<at, v>>] = IF p = 0 THEN v ELSE <<SubSeq(s, at, p - 1)>> \o v
        BY <2>3, <3>1
      <3>5. QED
        BY <3>1, <3>3, <3>4
    <2>6. G \in [(1..(n + 1)) \X V -> V]
      BY <2>3, <2>5
    <2>7. PICK t : IsWalk(t, V, n, NextAt(s, sep), stop, G)
      BY <1>1, <2>4, <2>6, WalkOver
    <2>8. t \in [1..(n + 1) -> V]
      BY <2>7 DEF IsWalk
    <2>9. ASSUME NEW at \in 1..(n + 1)
          PROVE  t[at] = IF strstr(s, sep, at) = 0 THEN <<From(s, at - 1)>>
                         ELSE <<SubSeq(s, at, strstr(s, sep, at) - 1)>> \o t[strstr(s, sep, at) + m]
      <3>1. PICK p, q : p = strstr(s, sep, at) /\ q = NextAt(s, sep)[at]
        OBVIOUS
      <3>2. t[at] = IF q = 0 THEN stop[at] ELSE G[<<at, t[q]>>]
        BY <2>7, <3>1 DEF IsWalk
      <3>3. (p = 0 /\ q = 0) \/ (p # 0 /\ q = p + m /\ q # 0 /\ q \in 1..(n + 1))
        <4>1. /\ n \in Nat
              /\ (p = 0 /\ q = 0) \/ (p # 0 /\ q = p + m /\ p + m \in (at + 1)..(n + 1))
          BY <1>1, <3>1, NextIs
        <4>2. QED
          BY <4>1
      <3>4. CASE p = 0
        <4>1. stop[at] = <<From(s, at - 1)>>
          BY <2>2
        <4>2. q = 0
          BY <3>3, <3>4
        <4>3. QED
          BY <3>1, <3>2, <3>4, <4>1, <4>2, Zenon
      <3>5. CASE p # 0
        <4>1. q = p + m /\ q # 0 /\ q \in 1..(n + 1)
          BY <3>3, <3>5
        <4>2. t[q] \in V
          BY <2>8, <4>1
        <4>3. G[<<at, t[q]>>] = <<SubSeq(s, at, p - 1)>> \o t[q]
          BY <2>5, <3>1, <3>5, <4>2
        <4>4. QED
          BY <3>1, <3>2, <3>5, <4>1, <4>3, Zenon
      <3>6. QED
        BY <3>4, <3>5
    <2>10. t = [at \in 1..(n + 1) |-> t[at]]
      BY <2>8
    <2>11. IsCut(t, s, sep)
      BY <1>1, <2>9, <2>10, Zenon DEF IsCut
    <2>12. QED
      BY <2>11
  <1>3. PICK h : h = CHOOSE t : IsCut(t, s, sep)
    OBVIOUS
  <1>4. IsCut(h, s, sep)
    BY <1>2, <1>3, Zenon
  <1>5. Pieces(s, sep) = h[1]
    BY <1>3, Zenon DEF Pieces, IsCut
  <1>6. QED
    BY <1>4, <1>5

LEMMA TextsConcat ==
    ASSUME NEW a \in Texts, NEW b \in Texts, NEW c \in Texts
    PROVE  a \o b \o c \in Texts
  BY DEF Texts

LEMMA ReplacedIs ==
    ASSUME NEW s \in Texts, NEW pat \in Texts, pat # <<>>, NEW rpl \in Texts
    PROVE  \E h : IsCopy(h, s, pat, rpl) /\ Replaced(s, pat, rpl) = h[1]
  <1>1. PICK n, m : n = Len(s) /\ m = Len(pat)
    OBVIOUS
  <1>2. \E h : IsCopy(h, s, pat, rpl)
    <2>1. PICK V : V = Texts
      OBVIOUS
    <2>2. PICK stop : stop = [at \in 1..(n + 1) |-> From(s, at - 1)]
      OBVIOUS
    <2>3. PICK G : G = [x \in (1..(n + 1)) \X V |->
                            IF strstr(s, pat, x[1]) = 0 THEN x[2]
                            ELSE SubSeq(s, x[1], strstr(s, pat, x[1]) - 1) \o rpl \o x[2]]
      OBVIOUS
    <2>4. stop \in [1..(n + 1) -> V]
      <3>1. \A at \in 1..(n + 1) : From(s, at - 1) \in V
        BY <1>1, <2>1, NextIs
      <3>2. QED
        BY <2>2, <3>1
    <2>5. ASSUME NEW at \in 1..(n + 1), NEW v \in V
          PROVE  /\ G[<<at, v>>] \in V
                 /\ strstr(s, pat, at) # 0 =>
                        G[<<at, v>>] = SubSeq(s, at, strstr(s, pat, at) - 1) \o rpl \o v
      <3>1. PICK p : p = strstr(s, pat, at)
        OBVIOUS
      <3>2. p # 0 => SubSeq(s, at, p - 1) \in Texts
        BY <1>1, <3>1, NextIs
      <3>3. p # 0 => SubSeq(s, at, p - 1) \o rpl \o v \in V
        BY <2>1, <3>2, TextsConcat
      <3>4. G[<<at, v>>] = IF p = 0 THEN v ELSE SubSeq(s, at, p - 1) \o rpl \o v
        BY <2>3, <3>1
      <3>5. QED
        BY <3>1, <3>3, <3>4
    <2>6. G \in [(1..(n + 1)) \X V -> V]
      BY <2>3, <2>5
    <2>7. PICK t : IsWalk(t, V, n, NextAt(s, pat), stop, G)
      BY <1>1, <2>4, <2>6, WalkOver
    <2>8. t \in [1..(n + 1) -> V]
      BY <2>7 DEF IsWalk
    <2>9. ASSUME NEW at \in 1..(n + 1)
          PROVE  t[at] = IF strstr(s, pat, at) = 0 THEN From(s, at - 1)
                         ELSE SubSeq(s, at, strstr(s, pat, at) - 1) \o rpl \o t[strstr(s, pat, at) + m]
      <3>1. PICK p, q : p = strstr(s, pat, at) /\ q = NextAt(s, pat)[at]
        OBVIOUS
      <3>2. t[at] = IF q = 0 THEN stop[at] ELSE G[<<at, t[q]>>]
        BY <2>7, <3>1 DEF IsWalk
      <3>3. (p = 0 /\ q = 0) \/ (p # 0 /\ q = p + m /\ q # 0 /\ q \in 1..(n + 1))
        <4>1. /\ n \in Nat
              /\ (p = 0 /\ q = 0) \/ (p # 0 /\ q = p + m /\ p + m \in (at + 1)..(n + 1))
          BY <1>1, <3>1, NextIs
        <4>2. QED
          BY <4>1
      <3>4. CASE p = 0
        <4>1. stop[at] = From(s, at - 1)
          BY <2>2
        <4>2. q = 0
          BY <3>3, <3>4
        <4>3. QED
          BY <3>1, <3>2, <3>4, <4>1, <4>2, Zenon
      <3>5. CASE p # 0
        <4>1. q = p + m /\ q # 0 /\ q \in 1..(n + 1)
          BY <3>3, <3>5
        <4>2. t[q] \in V
          BY <2>8, <4>1
        <4>3. G[<<at, t[q]>>] = SubSeq(s, at, p - 1) \o rpl \o t[q]
          BY <2>5, <3>1, <3>5, <4>2
        <4>4. QED
          BY <3>1, <3>2, <3>5, <4>1, <4>3, Zenon
      <3>6. QED
        BY <3>4, <3>5
    <2>10. t = [at \in 1..(n + 1) |-> t[at]]
      BY <2>8
    <2>11. IsCopy(t, s, pat, rpl)
      BY <1>1, <2>9, <2>10, Zenon DEF IsCopy
    <2>12. QED
      BY <2>11
  <1>3. PICK h : h = CHOOSE t : IsCopy(t, s, pat, rpl)
    OBVIOUS
  <1>4. IsCopy(h, s, pat, rpl)
    BY <1>2, <1>3, Zenon
  <1>5. Replaced(s, pat, rpl) = h[1]
    BY <1>3, Zenon DEF Replaced, IsCopy
  <1>6. QED
    BY <1>4, <1>5

LEMMA CountIs ==
    ASSUME NEW s \in Texts, NEW pat \in Texts, pat # <<>>
    PROVE  \E h : IsCount(h, s, pat) /\ CountOf(s, pat) = h[1]
  <1>1. PICK n, m : n = Len(s) /\ m = Len(pat)
    OBVIOUS
  <1>2. \E h : IsCount(h, s, pat)
    <2>1. PICK V : V = Nat
      OBVIOUS
    <2>2. PICK stop : stop = [at \in 1..(n + 1) |-> 0]
      OBVIOUS
    <2>3. PICK G : G = [x \in (1..(n + 1)) \X V |->
                            IF strstr(s, pat, x[1]) = 0 THEN x[2]
                            ELSE 1 + x[2]]
      OBVIOUS
    <2>4. stop \in [1..(n + 1) -> V]
      <3>1. \A at \in 1..(n + 1) : 0 \in V
        BY <1>1, <2>1, NextIs
      <3>2. QED
        BY <2>2, <3>1
    <2>5. ASSUME NEW at \in 1..(n + 1), NEW v \in V
          PROVE  /\ G[<<at, v>>] \in V
                 /\ strstr(s, pat, at) # 0 =>
                        G[<<at, v>>] = 1 + v
      <3>1. PICK p : p = strstr(s, pat, at)
        OBVIOUS
      <3>3. 1 + v \in V
        BY <2>1
      <3>4. G[<<at, v>>] = IF p = 0 THEN v ELSE 1 + v
        BY <2>3, <3>1
      <3>5. QED
        BY <3>1, <3>3, <3>4
    <2>6. G \in [(1..(n + 1)) \X V -> V]
      BY <2>3, <2>5
    <2>7. PICK t : IsWalk(t, V, n, NextAt(s, pat), stop, G)
      BY <1>1, <2>4, <2>6, WalkOver
    <2>8. t \in [1..(n + 1) -> V]
      BY <2>7 DEF IsWalk
    <2>9. ASSUME NEW at \in 1..(n + 1)
          PROVE  t[at] = IF strstr(s, pat, at) = 0 THEN 0
                         ELSE 1 + t[strstr(s, pat, at) + m]
      <3>1. PICK p, q : p = strstr(s, pat, at) /\ q = NextAt(s, pat)[at]
        OBVIOUS
      <3>2. t[at] = IF q = 0 THEN stop[at] ELSE G[<<at, t[q]>>]
        BY <2>7, <3>1 DEF IsWalk
      <3>3. (p = 0 /\ q = 0) \/ (p # 0 /\ q = p + m /\ q # 0 /\ q \in 1..(n + 1))
        <4>1. /\ n \in Nat
              /\ (p = 0 /\ q = 0) \/ (p # 0 /\ q = p + m /\ p + m \in (at + 1)..(n + 1))
          BY <1>1, <3>1, NextIs
        <4>2. QED
          BY <4>1
      <3>4. CASE p = 0
        <4>1. stop[at] = 0
          BY <2>2
        <4>2. q = 0
          BY <3>3, <3>4
        <4>3. QED
          BY <3>1, <3>2, <3>4, <4>1, <4>2, Zenon
      <3>5. CASE p # 0
        <4>1. q = p + m /\ q # 0 /\ q \in 1..(n + 1)
          BY <3>3, <3>5
        <4>2. t[q] \in V
          BY <2>8, <4>1
        <4>3. G[<<at, t[q]>>] = 1 + t[q]
          BY <2>5, <3>1, <3>5, <4>2
        <4>4. QED
          BY <3>1, <3>2, <3>5, <4>1, <4>3, Zenon
      <3>6. QED
        BY <3>4, <3>5
    <2>10. t = [at \in 1..(n + 1) |-> t[at]]
      BY <2>8
    <2>11. IsCount(t, s, pat)
      BY <1>1, <2>9, <2>10, Zenon DEF IsCount
    <2>12. QED
      BY <2>11
  <1>3. PICK h : h = CHOOSE t : IsCount(t, s, pat)
    OBVIOUS
  <1>4. IsCount(h, s, pat)
    BY <1>2, <1>3, Zenon
  <1>5. CountOf(s, pat) = h[1]
    BY <1>3, Zenon DEF CountOf, IsCount
  <1>6. QED
    BY <1>4, <1>5

\* What splitting and replacing make of s from a place on: the parts, the new text and
\* the number of occurrences.
IsSplit(s, pat, rpl, at, parts, text, c) ==
    /\ parts \in Seq(Texts) /\ c \in Nat /\ Len(parts) = c + 1 /\ text \in Texts
    /\ Join(parts, pat) = From(s, at - 1)
    /\ text = Join(parts, rpl)
    /\ c <= Len(s) - at + 1
    /\ Len(text) = Len(s) - at + 1 + c * (Len(rpl) - Len(pat))
    /\ \A i \in 1..Len(parts) :
        \A j \in 0..(Len(parts[i]) - Len(pat)) : ~MatchesAt(parts[i], j, pat)

\* The rest of a text from a place on.
LEMMA RestIs ==
    ASSUME NEW s \in Texts, NEW n \in Nat, n = Len(s), NEW at \in 1..(n + 1)
    PROVE  /\ From(s, at - 1) \in Texts /\ Len(From(s, at - 1)) = n - at + 1
           /\ \A i \in 1..(n - at + 1) : From(s, at - 1)[i] = s[at - 1 + i]
  <1>1. PICK k : k = at - 1
    OBVIOUS
  <1>2. s \in Seq(DOMAIN Code) /\ k \in 0..Len(s) /\ Len(s) - k = n - at + 1
    BY <1>1 DEF Texts
  <1>3. /\ From(s, k) \in Seq(DOMAIN Code) /\ Len(From(s, k)) = Len(s) - k
        /\ \A i \in 1..(Len(s) - k) : From(s, k)[i] = s[k + i]
    BY <1>2, FromIs
  <1>4. QED
    BY <1>1, <1>2, <1>3 DEF Texts

\* Behind the last occurrence there is one part.
LEMMA LastPart ==
    ASSUME NEW s \in Texts, NEW pat \in Texts, pat # <<>>, NEW rpl \in Texts,
           NEW at \in 1..(Len(s) + 1), strstr(s, pat, at) = 0
    PROVE  IsSplit(s, pat, rpl, at, <<From(s, at - 1)>>, From(s, at - 1), 0)
  <1>1. PICK n, m, k : n = Len(s) /\ m = Len(pat) /\ k = Len(rpl)
    OBVIOUS
  <1>2. n \in Nat /\ m \in Nat /\ m > 0 /\ k \in Nat
    BY <1>1 DEF Texts
  <1>3. PICK u : u = From(s, at - 1)
    OBVIOUS
  <1>4. at \in 1..(n + 1)
    BY <1>1
  <1>5. /\ u \in Texts /\ Len(u) = n - at + 1
        /\ \A i \in 1..(n - at + 1) : u[i] = s[at - 1 + i]
    BY <1>1, <1>2, <1>3, <1>4, RestIs
  <1>6. PICK ps : ps = <<u>>
    OBVIOUS
  <1>7. ps \in Seq(Texts) /\ Len(ps) = 1 /\ ps[1] = u
    BY <1>5, <1>6
  <1>8. Join(ps, pat) = u /\ Join(ps, rpl) = u
    BY <1>5, <1>6, JoinFront
  <1>9. \A i \in (at - 1)..(n - m) : ~MatchesAt(s, i, pat)
    <2>1. PICK p : p = strstr(s, pat, at)
      OBVIOUS
    <2>2. p = 0
      BY <2>1
    <2>3. at >= 1
      BY <1>1, <1>2
    <2>4. QED
      BY <1>1, <1>2, <2>1, <2>2, <2>3, StrstrIs, SMTT(30)
  <1>10. ASSUME NEW j \in 0..(Len(u) - m) PROVE ~MatchesAt(u, j, pat)
    <2>1. at - 1 + j \in (at - 1)..(n - m)
      BY <1>1, <1>2, <1>5
    <2>2. ASSUME NEW i \in 1..m PROVE u[j + i] = s[at - 1 + j + i]
      <3>1. j + i \in 1..(n - at + 1) /\ at - 1 + (j + i) = at - 1 + j + i
        BY <1>1, <1>2, <1>5
      <3>2. QED
        BY <1>5, <3>1
    <2>3. MatchesAt(u, j, pat) <=> MatchesAt(s, at - 1 + j, pat)
      BY <1>1, <2>2 DEF MatchesAt
    <2>4. QED
      BY <1>9, <2>1, <2>3
  <1>11. \A i \in 1..Len(ps) : \A j \in 0..(Len(ps[i]) - m) : ~MatchesAt(ps[i], j, pat)
    BY <1>7, <1>10
  <1>12. 0 <= n - at + 1 /\ n - at + 1 = n - at + 1 + 0 * (k - m)
    BY <1>1, <1>2
  <1>13. IsSplit(s, pat, rpl, at, ps, u, 0)
    BY <1>1, <1>3, <1>5, <1>7, <1>8, <1>11, <1>12 DEF IsSplit
  <1>14. QED
    BY <1>3, <1>6, <1>13

\* In front of an occurrence there is one part more.
LEMMA NextPart ==
    ASSUME NEW s \in Texts, NEW pat \in Texts, pat # <<>>, NEW rpl \in Texts,
           NEW at \in 1..(Len(s) + 1), NEW ps, NEW v, NEW c
    PROVE  strstr(s, pat, at) # 0 /\ IsSplit(s, pat, rpl, strstr(s, pat, at) + Len(pat), ps, v, c)
            => IsSplit(s, pat, rpl, at, <<SubSeq(s, at, strstr(s, pat, at) - 1)>> \o ps,
                       SubSeq(s, at, strstr(s, pat, at) - 1) \o rpl \o v, 1 + c)
  <1>a. SUFFICES ASSUME strstr(s, pat, at) # 0,
                        IsSplit(s, pat, rpl, strstr(s, pat, at) + Len(pat), ps, v, c)
                 PROVE  IsSplit(s, pat, rpl, at, <<SubSeq(s, at, strstr(s, pat, at) - 1)>> \o ps,
                                SubSeq(s, at, strstr(s, pat, at) - 1) \o rpl \o v, 1 + c)
    OBVIOUS
  <1>1. PICK n, m, k : n = Len(s) /\ m = Len(pat) /\ k = Len(rpl)
    OBVIOUS
  <1>2. n \in Nat /\ m \in Nat /\ m > 0 /\ k \in Nat
    BY <1>1 DEF Texts
  <1>3. PICK p : p = strstr(s, pat, at)
    OBVIOUS
  <1>3a. p # 0
    BY <1>a, <1>3
  <1>b. at \in 1..(n + 1)
    BY <1>1
  <1>3b. /\ p \in at..(n - m + 1) /\ SubSeq(s, at, p - 1) \in Texts
         /\ Len(SubSeq(s, at, p - 1)) = p - at
    <2>1. p \in at..(n - m + 1)
      BY <1>1, <1>2, <1>3, <1>3a, <1>b, StrstrIs
    <2>2. /\ s \in Seq(DOMAIN Code) /\ at \in Int /\ p - 1 \in Int
          /\ \A i \in at..(p - 1) : s[i] \in DOMAIN Code
      BY <1>1, <1>2, <2>1 DEF Texts
    <2>3. /\ SubSeq(s, at, p - 1) \in Seq(DOMAIN Code)
          /\ Len(SubSeq(s, at, p - 1)) = IF at <= p - 1 THEN p - 1 - at + 1 ELSE 0
      BY <2>2, SubSeqProperties
    <2>4. (IF at <= p - 1 THEN p - 1 - at + 1 ELSE 0) = p - at
      BY <1>1, <1>2, <2>1
    <2>5. QED
      BY <2>1, <2>3, <2>4 DEF Texts
  <1>3c. PICK u, q : u = SubSeq(s, at, p - 1) /\ q = p + m
    OBVIOUS
  <1>4. u \in Texts /\ Len(u) = p - at
    BY <1>3b, <1>3c
  <1>4a. /\ n \in Nat /\ m \in Nat /\ k \in Nat /\ at \in Nat /\ p \in Nat /\ q \in Nat
         /\ m >= 1 /\ at >= 1 /\ at <= p /\ p <= n - m + 1 /\ q = p + m
    BY <1>1, <1>2, <1>3b, <1>3c
  <1>5. MatchesAt(s, p - 1, pat) /\ \A i \in (at - 1)..(p - 2) : ~MatchesAt(s, i, pat)
    BY <1>1, <1>2, <1>3, <1>3a, <1>b, StrstrIs
  <1>7. \A i \in 1..(p - at) : u[i] = s[at - 1 + i]
    <2>1. /\ s \in Seq(DOMAIN Code) /\ at \in Int /\ p - 1 \in Int
          /\ \A i \in at..(p - 1) : s[i] \in DOMAIN Code
      BY <1>1, <1>4a DEF Texts
    <2>2. \A i \in 1..(p - 1 - at + 1) : u[i] = s[at + i - 1]
      BY <1>3c, <2>1, SubSeqProperties
    <2>3. ASSUME NEW i \in 1..(p - at) PROVE i \in 1..(p - 1 - at + 1) /\ at + i - 1 = at - 1 + i
      BY <1>4a
    <2>4. QED
      BY <2>2, <2>3
  <1>8. /\ ps \in Seq(Texts) /\ c \in Nat /\ Len(ps) = c + 1 /\ v \in Texts
        /\ Join(ps, pat) = From(s, q - 1) /\ v = Join(ps, rpl)
        /\ c <= n - q + 1 /\ Len(v) = n - q + 1 + c * (k - m)
        /\ \A i \in 1..Len(ps) : \A j \in 0..(Len(ps[i]) - m) : ~MatchesAt(ps[i], j, pat)
    BY <1>a, <1>1, <1>3, <1>3c DEF IsSplit
  <1>9. ps # <<>>
    BY <1>8
  <1>10. PICK qs : qs = <<u>> \o ps
    OBVIOUS
  <1>11. /\ qs \in Seq(Texts) /\ Len(qs) = c + 2 /\ qs[1] = u
         /\ \A i \in 2..(c + 2) : qs[i] = ps[i - 1]
    <2>1. <<u>> \in Seq(Texts) /\ Len(<<u>>) = 1 /\ <<u>>[1] = u
      BY <1>4
    <2>2. /\ qs \in Seq(Texts) /\ Len(qs) = 1 + (c + 1)
          /\ \A i \in 1..(1 + (c + 1)) : qs[i] = IF i <= 1 THEN <<u>>[i] ELSE ps[i - 1]
      BY <1>8, <1>10, <2>1, ConcatProperties
    <2>3. 1 + (c + 1) = c + 2
      BY <1>8
    <2>4. \A i \in 2..(c + 2) : i \in 1..(c + 2) /\ ~(i <= 1)
      BY <1>8
    <2>5. 1 \in 1..(c + 2)
      BY <1>8
    <2>6. QED
      BY <2>1, <2>2, <2>3, <2>4, <2>5
  <1>12. /\ Join(qs, pat) = Cat(Cat(u, pat), From(s, q - 1))
         /\ Join(qs, rpl) = Cat(Cat(u, rpl), v)
    BY <1>4, <1>8, <1>9, <1>10, JoinFront
  <1>13. PICK w : w = u \o rpl \o v
    OBVIOUS
  <1>14. w = Join(qs, rpl) /\ w \in Texts /\ Len(w) = p - at + k + Len(v)
    <2>1. w = Cat(Cat(u, rpl), v)
      BY <1>13, Zenon DEF Cat
    <2>2. Cat(u, rpl) \in Texts /\ Len(Cat(u, rpl)) = p - at + k
      BY <1>1, <1>4, CatChars
    <2>3. w \in Texts /\ Len(w) = p - at + k + Len(v)
      <3>1. PICK y : y = Cat(u, rpl)
        OBVIOUS
      <3>2. y \in Texts /\ Len(y) = p - at + k /\ v \in Texts
        BY <1>8, <2>2, <3>1
      <3>3. Cat(y, v) \in Texts /\ Len(Cat(y, v)) = Len(y) + Len(v)
        BY <3>2, CatLen, Zenon
      <3>4. QED
        BY <2>1, <3>1, <3>2, <3>3
    <2>4. QED
      BY <1>12, <2>1, <2>3
  <1>15. Len(w) = n - at + 1 + (1 + c) * (k - m)
    <2>1. (1 + c) * (k - m) = (k - m) + c * (k - m)
      BY <1>2, <1>8
    <2>2. PICK d \in Int : d = c * (k - m)
      BY <1>2, <1>8
    <2>3. Len(w) = p - at + k + (n - q + 1 + d)
      BY <1>8, <1>14, <2>2
    <2>4. p - at + k + (n - q + 1 + d) = n - at + 1 + ((k - m) + d)
      BY <1>4a, <2>2
    <2>5. QED
      BY <2>1, <2>2, <2>3, <2>4
  <1>16. Join(qs, pat) = From(s, at - 1)
    <2>1. PICK x, y, z : x = Cat(u, pat) /\ y = From(s, q - 1) /\ z = From(s, at - 1)
      OBVIOUS
    <2>2. /\ x \in Texts /\ Len(x) = p - at + m
          /\ \A i \in 1..(p - at + m) : x[i] = IF i <= p - at THEN u[i] ELSE pat[i - (p - at)]
      <3>1. /\ x \in Texts /\ Len(x) = Len(u) + Len(pat)
            /\ \A i \in 1..(Len(u) + Len(pat)) : x[i] = IF i <= Len(u) THEN u[i] ELSE pat[i - Len(u)]
        BY <1>4, <2>1, CatChars
      <3>2. QED
        BY <1>1, <1>4, <3>1, Zenon
    <2>3. /\ y \in Texts /\ Len(y) = n - q + 1
          /\ \A i \in 1..(n - q + 1) : y[i] = s[q - 1 + i]
      <3>1. q \in 1..(n + 1)
        BY <1>4a
      <3>2. QED
        BY <1>1, <1>2, <2>1, <3>1, RestIs
    <2>4. /\ z \in Texts /\ Len(z) = n - at + 1
          /\ \A i \in 1..(n - at + 1) : z[i] = s[at - 1 + i]
      <3>1. at \in 1..(n + 1)
        BY <1>1
      <3>2. QED
        BY <1>1, <1>4a, <2>1, <3>1, RestIs, SMTT(30)
    <2>5. PICK a : a = Cat(x, y)
      OBVIOUS
    <2>6. /\ a \in Texts /\ Len(a) = (p - at + m) + (n - q + 1)
          /\ \A i \in 1..((p - at + m) + (n - q + 1)) :
                a[i] = IF i <= p - at + m THEN x[i] ELSE y[i - (p - at + m)]
      <3>1. /\ a \in Texts /\ Len(a) = Len(x) + Len(y)
            /\ \A i \in 1..(Len(x) + Len(y)) : a[i] = IF i <= Len(x) THEN x[i] ELSE y[i - Len(x)]
        BY <2>2, <2>3, <2>5, CatChars
      <3>2. QED
        BY <2>2, <2>3, <3>1, Zenon
    <2>7. (p - at + m) + (n - q + 1) = n - at + 1
      BY <1>4a
    <2>8. ASSUME NEW i \in 1..(n - at + 1) PROVE a[i] = z[i]
      <3>1. z[i] = s[at - 1 + i]
        BY <2>4
      <3>2. CASE i <= p - at
        <4>1. i \in 1..(p - at) /\ i \in 1..(p - at + m) /\ i <= p - at + m
          BY <1>4a, <3>2
        <4>2. a[i] = x[i] /\ x[i] = u[i] /\ u[i] = s[at - 1 + i]
          BY <1>7, <2>2, <2>6, <2>7, <3>2, <4>1
        <4>3. QED
          BY <3>1, <4>2
      <3>3. CASE ~(i <= p - at) /\ i <= p - at + m
        <4>1. PICK j : j = i - (p - at)
          OBVIOUS
        <4>2. j \in 1..m /\ i \in 1..(p - at + m) /\ p - 1 + j = at - 1 + i
          BY <1>4a, <3>3, <4>1
        <4>3. s[p - 1 + j] = pat[j]
          BY <1>1, <1>5, <4>2 DEF MatchesAt
        <4>4. a[i] = x[i] /\ x[i] = pat[j]
          BY <2>2, <2>6, <2>7, <3>3, <4>1, <4>2
        <4>5. QED
          BY <3>1, <4>2, <4>3, <4>4
      <3>4. CASE ~(i <= p - at + m)
        <4>1. PICK j : j = i - (p - at + m)
          OBVIOUS
        <4>2. j \in 1..(n - q + 1) /\ q - 1 + j = at - 1 + i
          BY <1>4a, <3>4, <4>1
        <4>3. a[i] = y[j] /\ y[j] = s[q - 1 + j]
          BY <2>3, <2>6, <2>7, <3>4, <4>1, <4>2
        <4>4. QED
          BY <3>1, <4>2, <4>3
      <3>5. i <= p - at \/ (~(i <= p - at) /\ i <= p - at + m) \/ ~(i <= p - at + m)
        OBVIOUS
      <3>6. QED
        BY <3>2, <3>3, <3>4, <3>5
    <2>9. a = z
      <3>1. PICK l : l = n - at + 1
        OBVIOUS
      <3>2. l \in Nat /\ Len(a) = l /\ Len(z) = l
        BY <1>4a, <2>4, <2>6, <2>7, <3>1
      <3>3. a \in Seq(DOMAIN Code) /\ z \in Seq(DOMAIN Code)
        BY <2>4, <2>6 DEF Texts
      <3>4. \A i \in 1..l : a[i] = z[i]
        BY <2>8, <3>1
      <3>5. QED
        BY <3>2, <3>3, <3>4, SameText
    <2>10. QED
      BY <1>12, <2>1, <2>5, <2>9
  <1>17. ASSUME NEW j \in 0..(Len(u) - m) PROVE ~MatchesAt(u, j, pat)
    <2>1a. j \in 0..(p - at - m)
      BY <1>1, <1>4
    <2>1. at - 1 + j \in (at - 1)..(p - 2)
      BY <1>4a, <2>1a
    <2>2. ASSUME NEW i \in 1..m PROVE u[j + i] = s[at - 1 + j + i]
      <3>1. j + i \in 1..(p - at) /\ at - 1 + (j + i) = at - 1 + j + i
        BY <1>4a, <2>1a
      <3>2. QED
        BY <1>7, <3>1
    <2>3. MatchesAt(u, j, pat) <=> MatchesAt(s, at - 1 + j, pat)
      BY <1>1, <2>2 DEF MatchesAt
    <2>4. QED
      BY <1>5, <2>1, <2>3
  <1>18. ASSUME NEW i \in 1..Len(qs)
         PROVE  \A j \in 0..(Len(qs[i]) - m) : ~MatchesAt(qs[i], j, pat)
    <2>1. CASE i = 1
      BY <1>11, <1>17, <2>1
    <2>2. CASE i # 1
      <3>1. i \in 2..(c + 2) /\ i - 1 \in 1..Len(ps)
        BY <1>8, <1>11, <2>2
      <3>2. qs[i] = ps[i - 1]
        BY <1>11, <3>1
      <3>3. QED
        BY <1>8, <3>1, <3>2
    <2>3. QED
      BY <2>1, <2>2
  <1>19. 1 + c \in Nat /\ c + 2 = (1 + c) + 1 /\ 1 + c <= n - at + 1
    BY <1>4a, <1>8
  <1>20. IsSplit(s, pat, rpl, at, qs, w, 1 + c)
    BY <1>1, <1>11, <1>14, <1>15, <1>16, <1>18, <1>19 DEF IsSplit
  <1>21. QED
    BY <1>3, <1>3c, <1>10, <1>13, <1>20

\* What the walks make of s from every place on.
LEMMA SplitsAll ==
    ASSUME NEW s \in Texts, NEW pat \in Texts, pat # <<>>, NEW rpl \in Texts,
           NEW cut, IsCut(cut, s, pat), NEW copy, IsCopy(copy, s, pat, rpl),
           NEW count, IsCount(count, s, pat)
    PROVE  IsSplit(s, pat, rpl, 1, cut[1], copy[1], count[1])
  <1>1. PICK n, m : n = Len(s) /\ m = Len(pat)
    OBVIOUS
  <1>2. n \in Nat /\ m \in Nat /\ m > 0
    BY <1>1 DEF Texts
  <1>3. ASSUME NEW at \in 1..(n + 1),
               \A k \in 1..(n + 1) : k > at => IsSplit(s, pat, rpl, k, cut[k], copy[k], count[k])
        PROVE  IsSplit(s, pat, rpl, at, cut[at], copy[at], count[at])
    <2>a. at \in 1..(Len(s) + 1)
      BY <1>1
    <2>1. PICK p : p = strstr(s, pat, at)
      OBVIOUS
    <2>2. cut[at] = IF p = 0 THEN <<From(s, at - 1)>>
                    ELSE <<SubSeq(s, at, p - 1)>> \o cut[p + Len(pat)]
      BY <2>a, <2>1, Zenon DEF IsCut
    <2>3. copy[at] = IF p = 0 THEN From(s, at - 1)
                     ELSE SubSeq(s, at, p - 1) \o rpl \o copy[p + Len(pat)]
      BY <2>a, <2>1, Zenon DEF IsCopy
    <2>4. count[at] = IF p = 0 THEN 0 ELSE 1 + count[p + Len(pat)]
      BY <2>a, <2>1, Zenon DEF IsCount
    <2>5. CASE p = 0
      <3>1. IsSplit(s, pat, rpl, at, <<From(s, at - 1)>>, From(s, at - 1), 0)
        BY <2>a, <2>1, <2>5, LastPart
      <3>2. QED
        BY <2>2, <2>3, <2>4, <2>5, <3>1, Zenon
    <2>6. CASE p # 0
      <3>1. p \in at..(n - m + 1)
        BY <1>1, <1>2, <2>1, <2>6, StrstrIs
      <3>2. p + m \in 1..(n + 1) /\ p + m > at
        BY <1>2, <3>1
      <3>3. PICK k : k = p + m
        OBVIOUS
      <3>4. IsSplit(s, pat, rpl, k, cut[k], copy[k], count[k])
        BY <1>3, <3>2, <3>3
      <3>5. k = strstr(s, pat, at) + Len(pat) /\ strstr(s, pat, at) # 0
        BY <1>1, <2>1, <2>6, <3>3
      <3>6. IsSplit(s, pat, rpl, at, <<SubSeq(s, at, strstr(s, pat, at) - 1)>> \o cut[k],
                    SubSeq(s, at, strstr(s, pat, at) - 1) \o rpl \o copy[k], 1 + count[k])
        BY <2>a, <3>4, <3>5, NextPart, Zenon
      <3>7. k = p + Len(pat)
        BY <1>1, <3>3, Zenon
      <3>8. QED
        BY <2>1, <2>2, <2>3, <2>4, <2>6, <3>6, <3>7, Zenon
    <2>7. QED
      BY <2>5, <2>6
  <1>4. DEFINE T == {k \in 1..(n + 1) : ~IsSplit(s, pat, rpl, k, cut[k], copy[k], count[k])}
  <1>5. CASE T = {}
    <2>1. 1 \in 1..(n + 1)
      BY <1>2
    <2>2. QED
      BY <1>5, <2>1
  <1>6. CASE T # {}
    <2>1. T \in SUBSET (0..(n + 1)) /\ n + 1 \in Nat
      BY <1>2
    <2>2. PICK g \in T : \A k \in T : k <= g
      <3> HIDE DEF T
      <3>1. QED
        BY <1>6, <2>1, NatGreatest
    <2>3. g \in 1..(n + 1)
      OBVIOUS
    <2>4. \A k \in 1..(n + 1) : k > g => IsSplit(s, pat, rpl, k, cut[k], copy[k], count[k])
      <3>1. SUFFICES ASSUME NEW k \in 1..(n + 1), k > g, k \in T
                     PROVE  FALSE
        OBVIOUS
      <3>2. k <= g
        BY <2>2, <3>1
      <3>3. QED
        BY <1>2, <2>3, <3>1, <3>2
    <2>5. IsSplit(s, pat, rpl, g, cut[g], copy[g], count[g])
      BY <1>3, <2>3, <2>4
    <2>6. QED
      BY <2>5
  <1>7. QED
    BY <1>5, <1>6

\* The parts that cstr_split_substr finds (Pieces) and cstr_replace_new puts together
\* again, for every text, separator and replacement: the parts with the separator between
\* them are the text, and the first of them its beginning; no part has a separator in it;
\* there is one part more than the
\* first loop of cstr_replace_new counts, and the copying of the second loop gives the
\* parts with the replacement between them in as many characters as were allocated.
THEOREM SplitExact ==
    ASSUME NEW s \in Texts, NEW pat \in Texts, pat # <<>>, NEW rpl \in Texts
    PROVE  /\ Pieces(s, pat) \in Seq(Texts) /\ Join(Pieces(s, pat), pat) = s
           /\ \A k \in 1..Len(Pieces(s, pat)) : IsPrefix(Join(First(Pieces(s, pat), k), pat), s)
           /\ \A i \in 1..Len(Pieces(s, pat)) :
                \A j \in 0..(Len(Pieces(s, pat)[i]) - Len(pat)) :
                    ~MatchesAt(Pieces(s, pat)[i], j, pat)
           /\ CountOf(s, pat) \in 0..Len(s) /\ Len(Pieces(s, pat)) = CountOf(s, pat) + 1
           /\ Replaced(s, pat, rpl) \in Texts
           /\ Replaced(s, pat, rpl) = Join(Pieces(s, pat), rpl)
           /\ Len(Replaced(s, pat, rpl)) = Len(s) + CountOf(s, pat) * (Len(rpl) - Len(pat))
  <1>1. PICK cut : IsCut(cut, s, pat) /\ Pieces(s, pat) = cut[1]
    BY PiecesIs
  <1>2. PICK copy : IsCopy(copy, s, pat, rpl) /\ Replaced(s, pat, rpl) = copy[1]
    BY ReplacedIs
  <1>3. PICK count : IsCount(count, s, pat) /\ CountOf(s, pat) = count[1]
    BY CountIs
  <1>4. IsSplit(s, pat, rpl, 1, Pieces(s, pat), Replaced(s, pat, rpl), CountOf(s, pat))
    <2>1. IsSplit(s, pat, rpl, 1, cut[1], copy[1], count[1])
      BY <1>1, <1>2, <1>3, SplitsAll
    <2>2. QED
      BY <1>1, <1>2, <1>3, <2>1, Zenon
  <1>5. PICK parts, text, c : parts = Pieces(s, pat) /\ text = Replaced(s, pat, rpl)
                              /\ c = CountOf(s, pat)
    OBVIOUS
  <1>6. IsSplit(s, pat, rpl, 1, parts, text, c)
    BY <1>4, <1>5, Zenon
  <1>7. PICK n : n = Len(s)
    OBVIOUS
  <1>8. /\ parts \in Seq(Texts) /\ c \in Nat /\ Len(parts) = c + 1 /\ text \in Texts
        /\ Join(parts, pat) = From(s, 1 - 1) /\ text = Join(parts, rpl)
        /\ c <= n - 1 + 1 /\ Len(text) = n - 1 + 1 + c * (Len(rpl) - Len(pat))
        /\ \A i \in 1..Len(parts) :
            \A j \in 0..(Len(parts[i]) - Len(pat)) : ~MatchesAt(parts[i], j, pat)
    BY <1>6, <1>7, Zenon DEF IsSplit
  <1>9. n \in Nat
    BY <1>7 DEF Texts
  <1>10. From(s, 1 - 1) = s
    <2>1. From(s, 0) = SubSeq(s, 1, Len(s))
      BY DEF From
    <2>2. SubSeq(s, 1, Len(s)) = s
      BY DEF Texts
    <2>3. QED
      BY <2>1, <2>2
  <1>11. n - 1 + 1 = n /\ c \in 0..n
    BY <1>8, <1>9
  <1>12. Len(text) = n + c * (Len(rpl) - Len(pat))
    BY <1>8, <1>11, Zenon
  <1>13. \A i \in 1..Len(parts) : IsPrefix(Join(First(parts, i), pat), s)
    <2>1. TAKE i \in 1..Len(parts)
    <2>2. IsPrefix(Join(First(parts, i), pat), Join(parts, pat))
      BY <1>8, JoinBegins
    <2>3. Join(parts, pat) = s
      BY <1>8, <1>10, Zenon
    <2>4. QED
      BY <2>2, <2>3
  <1>14. QED
    BY <1>5, <1>7, <1>8, <1>10, <1>11, <1>12, <1>13, Zenon

\* ReplacesAll for texts of any length: what cstr_split_substr takes apart is whole when
\* put together, and cstr_replace_new returns the length of the text it wrote, which is
\* the parts with the replacement between them, and nothing when there is nothing to
\* replace.
THEOREM HelpersReplacesAll == Spec => []ReplacesAll
  <1>1. InputTypes => ReplacesAll
    <2>1. SUFFICES ASSUME in \in Seq(Letters) PROVE Text => ReplacesAll
      BY Zenon DEF InputTypes, ReplacesAll, Text
    <2>2. in \in Texts /\ N = Len(in) /\ N \in Nat
      BY <2>1, LettersAssumption DEF Texts, N
    <2>3. SUFFICES ASSUME NEW pat \in Patterns, NEW rpl \in Replacements
                   PROVE  LET r == cstr_replace_new(in, pat, rpl)
                              parts == cstr_split_substr(in, pat, N + 1)
                          IN  /\ Join(parts, pat) = in
                              /\ \A max \in 1..N :
                                    IsPrefix(Join(cstr_split_substr(in, pat, max), pat), in)
                              /\ IF Len(parts) = 1 THEN r.outresult = Null /\ r.len = 0
                                 ELSE r.outresult = Join(parts, rpl) /\ r.len = Len(r.outresult)
      BY Zenon DEF ReplacesAll
    <2>4. pat \in Texts /\ pat # <<>> /\ rpl \in Texts
      <3>1. "a" \in DOMAIN Code /\ "b" \in DOMAIN Code /\ "A" \in DOMAIN Code /\ "," \in DOMAIN Code
        BY LettersAssumption DEF Letters
      <3>2. /\ <<"a">> \in Texts /\ <<"b">> \in Texts /\ <<"b", "a">> \in Texts
            /\ <<"a", "b">> \in Texts /\ <<"a", "a">> \in Texts /\ <<"a", "b", "a">> \in Texts
            /\ <<>> \in Texts /\ <<"A", "a", ",">> \in Texts
        <4>1. PICK a, b, A, comma : a = "a" /\ b = "b" /\ A = "A" /\ comma = ","
          OBVIOUS
        <4>2. a \in DOMAIN Code /\ b \in DOMAIN Code /\ A \in DOMAIN Code /\ comma \in DOMAIN Code
          BY <3>1, <4>1, Zenon
        <4>3. <<a>> \in Texts /\ <<b>> \in Texts /\ <<>> \in Texts
          BY <4>2 DEF Texts
        <4>4. <<b, a>> \in Texts /\ <<a, b>> \in Texts /\ <<a, a>> \in Texts
          BY <4>2 DEF Texts
        <4>5. <<a, b, a>> \in Texts
          BY <4>2 DEF Texts
        <4>6. <<A, a, comma>> \in Texts
          BY <4>2 DEF Texts
        <4>7. QED
          BY <4>1, <4>3, <4>4, <4>5, <4>6, Zenon
      <3>3. /\ <<"a">> # <<>> /\ <<"b">> # <<>> /\ <<"a", "b">> # <<>>
            /\ <<"a", "a">> # <<>> /\ <<"a", "b", "a">> # <<>>
        OBVIOUS
      <3>4. pat \in Texts /\ pat # <<>>
        BY <3>2, <3>3, Zenon DEF Patterns
      <3>5. rpl \in Texts
        BY <3>2, Zenon DEF Replacements
      <3>6. QED
        BY <3>4, <3>5
    <2>5. PICK parts, text, c, k : /\ parts = Pieces(in, pat) /\ text = Replaced(in, pat, rpl)
                                   /\ c = CountOf(in, pat)
                                   /\ k = Len(in) + c * (Len(rpl) - Len(pat))
      OBVIOUS
    <2>6. /\ parts \in Seq(Texts) /\ c \in 0..N /\ Len(parts) = c + 1
          /\ text = Join(parts, rpl) /\ Len(text) = k
          /\ Join(parts, pat) = in
          /\ \A i \in 1..Len(parts) : IsPrefix(Join(First(parts, i), pat), in)
      <3>1. /\ Pieces(in, pat) \in Seq(Texts) /\ CountOf(in, pat) \in 0..Len(in)
            /\ Join(Pieces(in, pat), pat) = in
            /\ \A i \in 1..Len(Pieces(in, pat)) : IsPrefix(Join(First(Pieces(in, pat), i), pat), in)
            /\ Len(Pieces(in, pat)) = CountOf(in, pat) + 1
            /\ Replaced(in, pat, rpl) = Join(Pieces(in, pat), rpl)
            /\ Len(Replaced(in, pat, rpl)) = Len(in) + CountOf(in, pat) * (Len(rpl) - Len(pat))
        BY <2>2, <2>4, SplitExact
      <3>2. QED
        BY <2>2, <2>5, <3>1, Zenon
    <2>7. cstr_split_substr(in, pat, N + 1) = parts
      <3>1. cstr_split_substr(in, pat, N + 1) = First(parts, AtMost(Len(parts), N + 1))
        BY <2>5, Zenon DEF cstr_split_substr
      <3>2. AtMost(Len(parts), N + 1) = Len(parts)
        BY <2>2, <2>6 DEF AtMost
      <3>3. First(parts, Len(parts)) = SubSeq(parts, 1, Len(parts))
        BY DEF First, AtMost
      <3>4. SubSeq(parts, 1, Len(parts)) = parts
        BY <2>6
      <3>5. QED
        BY <3>1, <3>2, <3>3, <3>4, Zenon
    <2>8. PICK r : r = cstr_replace_new(in, pat, rpl)
      OBVIOUS
    <2>9. r = IF c = 0 THEN [len |-> 0, outresult |-> Null] ELSE [len |-> k, outresult |-> text]
      BY <2>5, <2>8, Zenon DEF cstr_replace_new
    <2>10. IF Len(parts) = 1 THEN r.outresult = Null /\ r.len = 0
           ELSE r.outresult = Join(parts, rpl) /\ r.len = Len(r.outresult)
      <3>1. CASE c = 0
        <4>1. Len(parts) = 1
          BY <2>6, <3>1
        <4>2. r.outresult = Null /\ r.len = 0
          BY <2>9, <3>1
        <4>3. QED
          BY <4>1, <4>2
      <3>2. CASE c # 0
        <4>1. Len(parts) # 1
          BY <2>6, <3>2
        <4>2. r.outresult = text /\ r.len = k
          BY <2>9, <3>2
        <4>3. QED
          BY <2>6, <4>1, <4>2, Zenon
      <3>3. QED
        BY <3>1, <3>2
    <2>11. ASSUME NEW max \in 1..N
           PROVE  IsPrefix(Join(cstr_split_substr(in, pat, max), pat), in)
      <3>1. PICK i : i = AtMost(Len(parts), max)
        OBVIOUS
      <3>2. i \in 1..Len(parts)
        BY <2>2, <2>6, <3>1 DEF AtMost
      <3>3. cstr_split_substr(in, pat, max) = First(parts, i)
        BY <2>5, <3>1, Zenon DEF cstr_split_substr
      <3>4. QED
        BY <2>6, <3>2, <3>3
    <2>12. Join(cstr_split_substr(in, pat, N + 1), pat) = in
      BY <2>6, <2>7
    <2>13. QED
      BY <2>7, <2>8, <2>10, <2>11, <2>12, Zenon
  <1>2. QED
    BY <1>1, InputsGrow, PTL
-----------------------------------------------------------------------------
(* Bounded copies *)

\* Writing over a piece of a buffer that lies in it changes that piece and nothing else.
LEMMA OverIs ==
    ASSUME NEW S, NEW buf \in Seq(S), NEW t \in Seq(S), NEW offset \in Nat,
           offset + Len(t) <= Len(buf)
    PROVE  /\ Over(buf, offset, t) \in Seq(S) /\ Len(Over(buf, offset, t)) = Len(buf)
           /\ \A k \in 1..offset : Over(buf, offset, t)[k] = buf[k]
           /\ \A k \in 1..Len(t) : Over(buf, offset, t)[offset + k] = t[k]
           /\ \A k \in (offset + Len(t) + 1)..Len(buf) : Over(buf, offset, t)[k] = buf[k]
  <1>1. PICK n, l, e : n = Len(t) /\ l = Len(buf) /\ e = offset + n
    OBVIOUS
  <1>2. n \in Nat /\ l \in Nat /\ e \in 0..l /\ offset \in 0..l /\ e - offset = n
    BY <1>1
  <1>3. PICK a : a = First(buf, offset)
    OBVIOUS
  <1>4. a \in Seq(S) /\ Len(a) = offset /\ \A k \in 1..offset : a[k] = buf[k]
    BY <1>1, <1>2, <1>3, FirstIs
  <1>5. PICK z : z = From(buf, e)
    OBVIOUS
  <1>6. z \in Seq(S) /\ Len(z) = l - e /\ \A k \in 1..(l - e) : z[k] = buf[e + k]
    <2>1. e \in 0..Len(buf)
      BY <1>1, <1>2
    <2>2. /\ From(buf, e) \in Seq(S) /\ Len(From(buf, e)) = Len(buf) - e
          /\ \A k \in 1..(Len(buf) - e) : From(buf, e)[k] = buf[e + k]
      BY <2>1, FromIs
    <2>3. QED
      BY <1>1, <1>5, <2>2, Zenon
  <1>7. PICK x : x = a \o t
    OBVIOUS
  <1>8. /\ x \in Seq(S) /\ Len(x) = e
        /\ \A k \in 1..e : x[k] = IF k <= offset THEN a[k] ELSE t[k - offset]
    <2>1. /\ x \in Seq(S) /\ Len(x) = offset + n
          /\ \A k \in 1..(offset + n) : x[k] = IF k <= offset THEN a[k] ELSE t[k - offset]
      BY <1>1, <1>4, <1>7, ConcatProperties
    <2>2. QED
      BY <1>1, <2>1
  <1>9. PICK y : y = x \o z
    OBVIOUS
  <1>10. /\ y \in Seq(S) /\ Len(y) = l
         /\ \A k \in 1..l : y[k] = IF k <= e THEN x[k] ELSE z[k - e]
    <2>1. /\ y \in Seq(S) /\ Len(y) = e + (l - e)
          /\ \A k \in 1..(e + (l - e)) : y[k] = IF k <= e THEN x[k] ELSE z[k - e]
      BY <1>6, <1>8, <1>9, ConcatProperties
    <2>2. e + (l - e) = l
      BY <1>2
    <2>3. QED
      BY <2>1, <2>2
  <1>11. y = Over(buf, offset, t)
    BY <1>1, <1>3, <1>5, <1>7, <1>9 DEF Over
  <1>12. ASSUME NEW k \in 1..offset PROVE y[k] = buf[k]
    <2>1. k \in 1..l /\ k \in 1..e /\ k <= e /\ k <= offset
      BY <1>2
    <2>2. QED
      BY <1>4, <1>8, <1>10, <2>1
  <1>13. ASSUME NEW k \in 1..n PROVE y[offset + k] = t[k]
    <2>1. PICK j : j = offset + k
      OBVIOUS
    <2>2. j \in 1..l /\ j \in 1..e /\ j <= e /\ ~(j <= offset) /\ j - offset = k
      BY <1>2, <2>1
    <2>3. y[j] = t[k]
      BY <1>8, <1>10, <2>2
    <2>4. QED
      BY <2>1, <2>3
  <1>14. ASSUME NEW k \in (e + 1)..l PROVE y[k] = buf[k]
    <2>1. PICK j : j = k - e
      OBVIOUS
    <2>2. k \in 1..l /\ ~(k <= e) /\ j \in 1..(l - e) /\ e + j = k
      BY <1>2, <2>1
    <2>3. y[k] = z[j] /\ z[j] = buf[k]
      BY <1>6, <1>10, <2>1, <2>2
    <2>4. QED
      BY <2>3
  <1>15. QED
    BY <1>1, <1>10, <1>11, <1>12, <1>13, <1>14

\* The C string at an offset ends in front of the first NUL.
LEMMA CStringIs ==
    ASSUME NEW S, NEW buf \in Seq(S), NEW at \in Nat, NEW t \in Seq(S),
           at + Len(t) < Len(buf),
           \A k \in 1..Len(t) : buf[at + k] = t[k] /\ t[k] # NUL,
           buf[at + Len(t) + 1] = NUL
    PROVE  CStringAt(buf, at) = t
  <1>1. PICK n, l : n = Len(t) /\ l = Len(buf)
    OBVIOUS
  <1>2. n \in Nat /\ l \in Nat /\ at \in 0..l /\ l - at \in Nat /\ n + 1 \in 1..(l - at)
        /\ n \in 0..(l - at)
    BY <1>1
  <1>3. PICK r : r = From(buf, at)
    OBVIOUS
  <1>4. r \in Seq(S) /\ Len(r) = l - at /\ \A k \in 1..(l - at) : r[k] = buf[at + k]
    <2>1. at \in 0..Len(buf)
      BY <1>1, <1>2
    <2>2. /\ From(buf, at) \in Seq(S) /\ Len(From(buf, at)) = Len(buf) - at
          /\ \A k \in 1..(Len(buf) - at) : From(buf, at)[k] = buf[at + k]
      BY <2>1, FromIs
    <2>3. QED
      BY <1>1, <1>3, <2>2, Zenon
  <1>5. \A k \in 1..n : r[k] = t[k] /\ t[k] # NUL
    <2>1. TAKE k \in 1..n
    <2>2. k \in 1..(l - at)
      BY <1>2
    <2>3. QED
      BY <1>1, <1>4, <2>2
  <1>6. r[n + 1] = NUL
    <2>1. at + (n + 1) = at + n + 1
      BY <1>2
    <2>2. QED
      BY <1>1, <1>2, <1>4, <2>1
  <1>7. PICK I : I = {k \in 1..(l - at) : r[k] = NUL}
    OBVIOUS
  <1>8. PICK x : x = IF I # {} THEN Min(I) ELSE 0
    OBVIOUS
  <1>9. x = SelectInSeq(r, LAMBDA c : c = NUL)
    BY <1>4, <1>7, <1>8, Zenon DEF SelectInSeq
  <1>10. FirstAt(r, l - at, NUL, x - 1)
    <2>1. PICK d : d = l - at
      OBVIOUS
    <2>2. d \in Nat /\ I = {k \in 1..d : r[k] = NUL}
      BY <1>2, <1>7, <2>1, Zenon
    <2>3. FirstAt(r, d, NUL, (IF I # {} THEN Min(I) ELSE 0) - 1)
      BY <2>2, FirstOf, Zenon
    <2>4. QED
      BY <1>8, <2>1, <2>3, Zenon
  <1>11. FirstAt(r, l - at, NUL, n)
    BY <1>2, <1>5, <1>6 DEF FirstAt
  <1>12. x - 1 = n
    BY <1>2, <1>10, <1>11, FirstAtOnce
  <1>13. CStringAt(buf, at) = First(r, n)
    BY <1>3, <1>9, <1>12, Zenon DEF CStringAt
  <1>14. /\ First(r, n) \in Seq(S) /\ Len(First(r, n)) = n
         /\ \A k \in 1..n : First(r, n)[k] = r[k]
    <2>1. n \in 0..Len(r)
      BY <1>2, <1>4
    <2>2. QED
      BY <1>4, <2>1, FirstIs
  <1>15. First(r, n) = t
    <2>1. PICK z : z = First(r, n)
      OBVIOUS
    <2>2. z \in Seq(S) /\ Len(z) = n /\ Len(t) = n /\ \A k \in 1..n : z[k] = t[k]
      BY <1>1, <1>5, <1>14, <2>1, Zenon
    <2>3. t \in Seq(S) /\ Len(z) = Len(t) /\ \A k \in 1..Len(z) : z[k] = t[k]
      BY <2>2, Zenon
    <2>4. z = t
      BY <2>2, <2>3, SeqEqual, Zenon
    <2>5. QED
      BY <2>1, <2>4
  <1>16. QED
    BY <1>13, <1>15

\* toupper keeps the length of a name and makes characters of characters.
UpperOf(s) == cstr_toupper(s, Len(s))
Names == Seq(DOMAIN Code \cap DOMAIN Upper)

LEMMA UpperIs ==
    ASSUME NEW s \in Names
    PROVE  /\ UpperOf(s) \in Texts /\ Len(UpperOf(s)) = Len(s)
           /\ \A k \in 1..Len(s) : UpperOf(s)[k] = Upper[s[k]]
  <1>1. PICK n : n = Len(s)
    OBVIOUS
  <1>2. n \in Nat /\ \A k \in 1..n : s[k] \in DOMAIN Code \cap DOMAIN Upper
    BY <1>1 DEF Names
  <1>3. PICK u : u = [k \in 1..n |-> IF k <= n THEN Upper[s[k]] ELSE s[k]]
    OBVIOUS
  <1>4. u = UpperOf(s)
    BY <1>1, <1>3, Zenon DEF UpperOf, cstr_toupper
  <1>5. ASSUME NEW k \in 1..n PROVE u[k] = Upper[s[k]] /\ u[k] \in DOMAIN Code
    <2>1. k <= n
      BY <1>2
    <2>2. Upper[s[k]] \in DOMAIN Code
      BY <1>2, UpperAssumption
    <2>3. QED
      BY <1>3, <2>1, <2>2
  <1>6. u \in Seq(DOMAIN Code) /\ Len(u) = n
    <2>1. u = [k \in 1..n |-> u[k]]
      BY <1>3
    <2>2. QED
      BY <1>2, <1>5, <2>1
  <1>7. QED
    BY <1>1, <1>4, <1>5, <1>6 DEF Texts

\* The suffixes, of at most ten characters, none of them the NUL.
LEMMA SuffixIs ==
    ASSUME NEW mode \in {"none", "ignore", "translit"}
    PROVE  /\ SuffixText(mode) \in Seq(SuffixChars) /\ Len(SuffixText(mode)) <= 10
           /\ mode = "none" => Len(SuffixText(mode)) = 0
  <1>1. ASSUME NEW S, NEW a \in S, NEW b \in S, NEW c \in S, NEW d \in S, NEW g \in S,
               NEW h \in S, NEW i \in S, NEW j \in S
        PROVE  <<a, b, c, d, g, h, i, j>> \in Seq(S) /\ Len(<<a, b, c, d, g, h, i, j>>) = 8
    OBVIOUS
  <1>2. ASSUME NEW S, NEW a \in S, NEW b \in S, NEW c \in S, NEW d \in S, NEW g \in S,
               NEW h \in S, NEW i \in S, NEW j \in S, NEW k \in S, NEW l \in S
        PROVE  /\ <<a, b, c, d, g, h, i, j, k, l>> \in Seq(S)
               /\ Len(<<a, b, c, d, g, h, i, j, k, l>>) = 10
    OBVIOUS
  <1>3. /\ "/" \in SuffixChars /\ "I" \in SuffixChars /\ "G" \in SuffixChars
        /\ "N" \in SuffixChars /\ "O" \in SuffixChars /\ "R" \in SuffixChars
        /\ "E" \in SuffixChars /\ "T" \in SuffixChars /\ "A" \in SuffixChars
        /\ "S" \in SuffixChars /\ "L" \in SuffixChars
    BY DEF SuffixChars
  <1>4. Ignore \in Seq(SuffixChars) /\ Len(Ignore) = 8
    BY <1>1, <1>3, Zenon DEF Ignore
  <1>5. Translit \in Seq(SuffixChars) /\ Len(Translit) = 10
    BY <1>2, <1>3, Zenon DEF Translit
  <1>6. <<>> \in Seq(SuffixChars) /\ Len(<<>>) = 0
    OBVIOUS
  <1>7. /\ mode = "ignore" => SuffixText(mode) = Ignore
        /\ mode = "translit" => SuffixText(mode) = Translit
        /\ mode = "none" => SuffixText(mode) = <<>>
    BY DEF SuffixText
  <1>8. PICK t : t = SuffixText(mode)
    OBVIOUS
  <1>9. \/ mode # "none" /\ t \in Seq(SuffixChars) /\ Len(t) = 8
        \/ mode # "none" /\ t \in Seq(SuffixChars) /\ Len(t) = 10
        \/ t \in Seq(SuffixChars) /\ Len(t) = 0
    <2>1. mode = "ignore" => mode # "none"
      OBVIOUS
    <2>2. mode = "translit" => mode # "none"
      OBVIOUS
    <2>3. QED
      BY <1>4, <1>5, <1>6, <1>7, <1>8, <2>1, <2>2, Zenon
  <1>10. t \in Seq(SuffixChars) /\ (Len(t) = 8 \/ Len(t) = 10 \/ Len(t) = 0)
         /\ (mode = "none" => Len(t) = 0)
    BY <1>9, Zenon
  <1>11. Len(t) <= 10
    <2>1. \A l \in Int : l = 8 \/ l = 10 \/ l = 0 => l <= 10
      OBVIOUS
    <2>2. 8 \in Int /\ 10 \in Int /\ 0 \in Int
      OBVIOUS
    <2>3. QED
      BY <1>10, <2>1, <2>2, Zenon
  <1>12. QED
    BY <1>8, <1>10, <1>11, Zenon

\* What convd_create writes: for every two names and every mode the block is filled as far
\* as it was allocated, both names stand in it in upper case, apart from each other and
\* with their own NULs, and iconv_open is given the target with its suffix, once.
THEOREM CreateFits ==
    ASSUME NEW from \in Names, NEW to \in Names, NEW mode \in {"none", "ignore", "translit"},
           NEW r, r = convd_create(from, to, mode)
    PROVE  /\ r.ret = "NOERROR" <=> /\ Len(from) \in 1..CVD_ENCODING_LEN_MAX
                                    /\ Len(to) \in 1..CVD_ENCODING_LEN_MAX
           /\ r.ret = "NOERROR" => /\ r.used = r.size
                                   /\ r.codes = <<UpperOf(from), UpperOf(to)>>
                                   /\ r.opened = <<Cat(UpperOf(to), SuffixText(mode)), UpperOf(from)>>
  <1>1. PICK n, m, k, l : /\ n = Len(from) /\ m = Len(to) /\ k = Len(SuffixText(mode))
                          /\ l = n + m + 12
    OBVIOUS
  <1>2. PICK S : S = DOMAIN Code \cup SuffixChars \cup {NUL}
    OBVIOUS
  <1>3. PICK uf, ut, x : uf = UpperOf(from) /\ ut = UpperOf(to) /\ x = SuffixText(mode)
    OBVIOUS
  <1>4. /\ uf \in Seq(DOMAIN Code) /\ Len(uf) = n /\ ut \in Seq(DOMAIN Code) /\ Len(ut) = m
        /\ x \in Seq(SuffixChars) /\ Len(x) = k /\ k <= 10 /\ (mode = "none" => k = 0)
    <2>1. uf \in Texts /\ Len(uf) = n
      BY <1>1, <1>3, UpperIs
    <2>2. ut \in Texts /\ Len(ut) = m
      BY <1>1, <1>3, UpperIs
    <2>3. x \in Seq(SuffixChars) /\ Len(x) <= 10 /\ (mode = "none" => Len(x) = 0)
      BY <1>3, SuffixIs
    <2>4. QED
      BY <1>1, <1>3, <2>1, <2>2, <2>3, Zenon DEF Texts
  <1>5. n \in Nat /\ m \in Nat /\ k \in Nat /\ k <= 10 /\ l = n + m + 12 /\ l \in Nat
    BY <1>1, <1>4 DEF Names
  <1>6. /\ uf \in Seq(S) /\ ut \in Seq(S) /\ x \in Seq(S)
        /\ \A i \in 1..n : uf[i] # NUL
        /\ \A i \in 1..m : ut[i] # NUL
        /\ \A i \in 1..k : x[i] # NUL
    <2>1. \A c \in DOMAIN Code : c \in S /\ c # NUL
      BY <1>2, NulAssumption
    <2>2. \A c \in SuffixChars : c \in S /\ c # NUL
      BY <1>2, SuffixAssumption
    <2>3. \A i \in 1..n : uf[i] \in DOMAIN Code
      BY <1>4
    <2>4. \A i \in 1..m : ut[i] \in DOMAIN Code
      BY <1>4
    <2>5. \A i \in 1..k : x[i] \in SuffixChars
      BY <1>4
    <2>6. uf \in Seq(S)
      BY <1>4, <2>1
    <2>7. ut \in Seq(S)
      BY <1>4, <2>1
    <2>8. x \in Seq(S)
      BY <1>4, <2>2
    <2>9. QED
      BY <2>1, <2>2, <2>3, <2>4, <2>5, <2>6, <2>7, <2>8, Zenon
  <1>7. PICK zero : zero = [i \in 1..l |-> NUL]
    OBVIOUS
  <1>8. zero \in Seq(S) /\ Len(zero) = l /\ \A i \in 1..l : zero[i] = NUL
    <2>1. NUL \in S
      BY <1>2
    <2>2. QED
      BY <1>5, <1>7, <2>1
  <1>9. PICK t1, t2 : t1 = uf \o <<>> /\ t2 = Cat(ut, x)
    OBVIOUS
  <1>10. t1 = uf
    BY <1>4, <1>9
  <1>11. /\ t2 \in Seq(S) /\ Len(t2) = m + k
         /\ \A i \in 1..(m + k) : t2[i] = IF i <= m THEN ut[i] ELSE x[i - m]
    <2>1. /\ Cat(ut, x) \in Seq(S) /\ Len(Cat(ut, x)) = Len(ut) + Len(x)
          /\ \A i \in 1..(Len(ut) + Len(x)) :
                Cat(ut, x)[i] = IF i <= Len(ut) THEN ut[i] ELSE x[i - Len(ut)]
      BY <1>6, CatIs
    <2>2. QED
      BY <1>4, <1>9, <2>1, Zenon
  <1>12. PICK b1 : b1 = Over(zero, 0, t1)
    OBVIOUS
  <1>13. /\ b1 \in Seq(S) /\ Len(b1) = l
         /\ \A i \in 1..n : b1[i] = uf[i]
         /\ \A i \in (n + 1)..l : b1[i] = NUL
    <2>1. 0 \in Nat /\ 0 + Len(t1) <= Len(zero)
      BY <1>4, <1>5, <1>8, <1>10
    <2>2. /\ b1 \in Seq(S) /\ Len(b1) = Len(zero)
          /\ \A i \in 1..Len(t1) : b1[0 + i] = t1[i]
          /\ \A i \in (0 + Len(t1) + 1)..Len(zero) : b1[i] = zero[i]
      BY <1>6, <1>8, <1>10, <1>12, <2>1, OverIs
    <2>3. \A i \in 1..n : 0 + i = i
      BY <1>5
    <2>4. 0 + Len(t1) + 1 = n + 1 /\ \A i \in (n + 1)..l : i \in 1..l
      BY <1>4, <1>5, <1>10
    <2>5. QED
      BY <1>4, <1>8, <1>10, <2>2, <2>3, <2>4
  <1>14. PICK b2 : b2 = Over(b1, n + 1, t2)
    OBVIOUS
  <1>15. /\ b2 \in Seq(S) /\ Len(b2) = l
         /\ \A i \in 1..n : b2[i] = uf[i]
         /\ b2[n + 1] = NUL
         /\ \A i \in 1..(m + k) : b2[n + 1 + i] = t2[i]
         /\ b2[n + 1 + m + k + 1] = NUL
    <2>1. n + 1 \in Nat /\ n + 1 + Len(t2) <= Len(b1)
      BY <1>5, <1>11, <1>13
    <2>2. /\ b2 \in Seq(S) /\ Len(b2) = Len(b1)
          /\ \A i \in 1..(n + 1) : b2[i] = b1[i]
          /\ \A i \in 1..Len(t2) : b2[n + 1 + i] = t2[i]
          /\ \A i \in (n + 1 + Len(t2) + 1)..Len(b1) : b2[i] = b1[i]
      BY <1>11, <1>13, <1>14, <2>1, OverIs
    <2>3. \A i \in 1..n : b2[i] = uf[i]
      <3>1. \A i \in 1..n : i \in 1..(n + 1)
        BY <1>5
      <3>2. QED
        BY <1>13, <2>2, <3>1
    <2>4. b2[n + 1] = NUL
      <3>1. n + 1 \in 1..(n + 1) /\ n + 1 \in (n + 1)..l
        BY <1>5
      <3>2. QED
        BY <1>13, <2>2, <3>1
    <2>5. b2[n + 1 + m + k + 1] = NUL
      <3>1. PICK i : i = n + 1 + m + k + 1
        OBVIOUS
      <3>2. i \in (n + 1 + Len(t2) + 1)..Len(b1) /\ i \in (n + 1)..l
        BY <1>5, <1>11, <1>13, <3>1
      <3>3. b2[i] = NUL
        BY <1>13, <2>2, <3>2
      <3>4. QED
        BY <3>1, <3>3
    <2>6. QED
      BY <1>11, <1>13, <2>2, <2>3, <2>4, <2>5
  <1>16. PICK cut : cut = IF mode = "none" THEN b2 ELSE [b2 EXCEPT ![n + 1 + m + 1] = NUL]
    OBVIOUS
  <1>17. /\ cut \in Seq(S) /\ Len(cut) = l
         /\ \A i \in 1..(n + 1 + m) : cut[i] = b2[i]
         /\ cut[n + 1 + m + 1] = NUL
    <2>1. CASE mode = "none"
      <3>1. cut = b2 /\ n + 1 + m + k + 1 = n + 1 + m + 1
        BY <1>4, <1>5, <1>16, <2>1
      <3>2. QED
        BY <1>15, <3>1
    <2>2. CASE mode # "none"
      <3>1. PICK e : e = n + 1 + m + 1
        OBVIOUS
      <3>2. e \in 1..l /\ \A i \in 1..(n + 1 + m) : i \in 1..l /\ i # e
        BY <1>5, <3>1
      <3>3. cut = [b2 EXCEPT ![e] = NUL] /\ NUL \in S
        BY <1>2, <1>16, <2>2, <3>1
      <3>4. /\ cut \in Seq(S) /\ Len(cut) = l /\ cut[e] = NUL
            /\ \A i \in 1..l : i # e => cut[i] = b2[i]
        BY <1>15, <3>2, <3>3
      <3>5. QED
        BY <3>1, <3>2, <3>4
    <2>3. QED
      BY <2>1, <2>2
  <1>18. CStringAt(b2, n + 1) = t2
    <2>1. /\ n + 1 \in Nat /\ n + 1 + Len(t2) < Len(b2)
          /\ n + 1 + Len(t2) + 1 = n + 1 + m + k + 1
      BY <1>5, <1>11, <1>15
    <2>2. \A i \in 1..(m + k) : t2[i] # NUL
      <3>1. TAKE i \in 1..(m + k)
      <3>2. CASE i <= m
        <4>1. i \in 1..m
          BY <1>5, <3>2
        <4>2. QED
          BY <1>6, <1>11, <3>2, <4>1
      <3>3. CASE ~(i <= m)
        <4>1. i - m \in 1..k
          BY <1>5, <3>3
        <4>2. QED
          BY <1>6, <1>11, <3>3, <4>1
      <3>4. QED
        BY <3>2, <3>3
    <2>3. \A i \in 1..Len(t2) : b2[n + 1 + i] = t2[i] /\ t2[i] # NUL
      BY <1>11, <1>15, <2>2
    <2>4. b2[n + 1 + Len(t2) + 1] = NUL
      BY <1>15, <2>1
    <2>5. QED
      BY <1>11, <1>15, <2>1, <2>3, <2>4, CStringIs
  <1>19. ASSUME NEW b \in Seq(S), Len(b) = l, \A i \in 1..n : b[i] = uf[i], b[n + 1] = NUL
         PROVE  CStringAt(b, 0) = uf
    <2>1. 0 \in Nat /\ 0 + Len(uf) < Len(b) /\ 0 + Len(uf) + 1 = n + 1
      BY <1>4, <1>5, <1>19
    <2>2. \A i \in 1..Len(uf) : b[0 + i] = uf[i] /\ uf[i] # NUL
      <3>1. \A i \in 1..n : 0 + i = i
        BY <1>5
      <3>2. QED
        BY <1>4, <1>6, <1>19, <3>1
    <2>3. b[0 + Len(uf) + 1] = NUL
      BY <1>19, <2>1
    <2>4. QED
      BY <1>6, <2>1, <2>2, <2>3, CStringIs
  <1>20. CStringAt(b2, 0) = uf
    BY <1>15, <1>19
  <1>21. CStringAt(cut, 0) = uf
    <2>1. \A i \in 1..n : i \in 1..(n + 1 + m)
      BY <1>5
    <2>2. n + 1 \in 1..(n + 1 + m)
      BY <1>5
    <2>3. QED
      BY <1>15, <1>17, <1>19, <2>1, <2>2
  <1>22. CStringAt(cut, n + 1) = ut
    <2>1. /\ n + 1 \in Nat /\ n + 1 + Len(ut) < Len(cut)
          /\ n + 1 + Len(ut) + 1 = n + 1 + m + 1
      BY <1>4, <1>5, <1>17
    <2>2. \A i \in 1..m : cut[n + 1 + i] = ut[i]
      <3>1. TAKE i \in 1..m
      <3>2. n + 1 + i \in 1..(n + 1 + m) /\ i \in 1..(m + k) /\ i <= m
        BY <1>5
      <3>3. cut[n + 1 + i] = b2[n + 1 + i] /\ b2[n + 1 + i] = t2[i] /\ t2[i] = ut[i]
        BY <1>11, <1>15, <1>17, <3>2
      <3>4. QED
        BY <3>3
    <2>3. \A i \in 1..Len(ut) : cut[n + 1 + i] = ut[i] /\ ut[i] # NUL
      BY <1>4, <1>6, <2>2
    <2>4. cut[n + 1 + Len(ut) + 1] = NUL
      BY <1>17, <2>1
    <2>5. QED
      BY <1>6, <1>17, <2>1, <2>3, <2>4, CStringIs
  <1>23. r = CASE BadName(from) -> [ret |-> "FROMCODE"]
               [] ~BadName(from) /\ BadName(to) -> [ret |-> "TOCODE"]
               [] OTHER -> [ret |-> "NOERROR", size |-> l, used |-> Len(b2),
                            opened |-> <<CStringAt(b2, n + 1), CStringAt(b2, 0)>>,
                            codes |-> <<CStringAt(cut, 0), CStringAt(cut, n + 1)>>]
    <2>1. b1 = Put(zero, 0, from, <<>>)
      BY <1>3, <1>9, <1>12, Zenon DEF Put, UpperOf
    <2>2. b2 = Put(b1, n + 1, to, x)
      BY <1>3, <1>9, <1>14, Zenon DEF Put, UpperOf, Cat
    <2>3. l = Len(from) + Len(to) + Slack /\ n + 1 = Len(from) + 1
      BY <1>1 DEF Slack
    <2>4. n + 1 + m + 1 = n + 1 + Len(to) + 1
      BY <1>1
    <2>5. QED
      BY <1>1, <1>3, <1>7, <1>16, <2>1, <2>2, <2>3, <2>4, Zenon DEF convd_create
  <1>24. BadName(from) <=> ~(n \in 1..CVD_ENCODING_LEN_MAX)
    BY <1>1 DEF BadName
  <1>25. BadName(to) <=> ~(m \in 1..CVD_ENCODING_LEN_MAX)
    BY <1>1 DEF BadName
  <1>26. PICK ok : ok = [ret |-> "NOERROR", size |-> l, used |-> Len(b2),
                         opened |-> <<t2, uf>>, codes |-> <<uf, ut>>]
    OBVIOUS
  <1>27. CASE ~BadName(from) /\ ~BadName(to)
    <2>1. r = ok
      BY <1>18, <1>20, <1>21, <1>22, <1>23, <1>26, <1>27, Zenon
    <2>2. /\ ok.ret = "NOERROR" /\ ok.size = l /\ ok.used = Len(b2)
          /\ ok.opened = <<t2, uf>> /\ ok.codes = <<uf, ut>>
      BY <1>26
    <2>3. QED
      BY <1>1, <1>3, <1>9, <1>15, <1>24, <1>25, <1>27, <2>1, <2>2, Zenon
  <1>28. CASE BadName(from) \/ BadName(to)
    <2>1. r = [ret |-> "FROMCODE"] \/ r = [ret |-> "TOCODE"]
      BY <1>23, <1>28, Zenon
    <2>2. r.ret # "NOERROR"
      BY <2>1
    <2>3. QED
      BY <1>1, <1>24, <1>25, <1>28, <2>2, Zenon
  <1>29. QED
    BY <1>27, <1>28

\* What is in buf when src was copied to an offset of it: as many bytes, with a NUL, that
\* begin with what stood in front of the offset and src behind it, all of it if that fits.
Copied(S, buf, offset, src, r) ==
    LET size == Len(buf)
        all == Cat(First(buf, AtMost(offset, size)), src)
    IN  /\ r.buf \in Seq(S) /\ Len(r.buf) = size /\ \E i \in 1..size : r.buf[i] = NUL
        /\ r.ok <=> offset + Len(src) < size
        /\ IsPrefix(IF r.ok THEN Append(all, NUL)
                    ELSE First(all, IF size > 3 THEN size - 4
                                    ELSE AtMost(offset + Len(src), size - 1)), r.buf)

\* cstr_safecopy keeps every byte in its buffer: for every buffer, offset and text it
\* succeeds exactly when the text and its NUL fit, the result is as long as the buffer and
\* holds a NUL, and it begins with what stood in front of the offset and the text behind
\* it, all of it on success, and on failure up to where the dots and the NUL may stand.
THEOREM SafecopyKeeps ==
    ASSUME NEW S, NEW buf \in Seq(S), NEW src \in Seq(S), NEW offset \in Nat,
           NUL \in S, "." \in S, Len(buf) > 0
    PROVE  Copied(S, buf, offset, src, cstr_safecopy(buf, offset, src))
  <1>a. SUFFICES ASSUME NEW size \in Nat, size = Len(buf), size > 0,
                        NEW r, r = cstr_safecopy(buf, offset, src),
                        NEW all, all = Cat(First(buf, AtMost(offset, size)), src)
                 PROVE  /\ r.buf \in Seq(S) /\ Len(r.buf) = size /\ \E i \in 1..size : r.buf[i] = NUL
                        /\ r.ok <=> offset + Len(src) < size
                        /\ IsPrefix(IF r.ok THEN Append(all, NUL)
                                    ELSE First(all, IF size > 3 THEN size - 4
                                                    ELSE AtMost(offset + Len(src), size - 1)), r.buf)
    <2>1. Len(buf) \in Nat /\ Len(buf) > 0
      OBVIOUS
    <2>2. QED
      BY <2>1, Zenon DEF Copied
  <1>1. PICK n, o : n = Len(src) /\ o = AtMost(offset, size)
    OBVIOUS
  <1>2. /\ n \in Nat /\ size \in Nat /\ size > 0 /\ offset \in Nat /\ o \in 0..size
        /\ size = Len(buf)
        /\ (offset < size => o = offset) /\ (~(offset < size) => o = size)
    BY <1>a, <1>1 DEF AtMost
  <1>3. PICK a : a = First(buf, o)
    OBVIOUS
  <1>4. a \in Seq(S) /\ Len(a) = o /\ \A i \in 1..o : a[i] = buf[i]
    BY <1>2, <1>3, FirstIs
  <1>5. PICK w : w = Cat(a, src)
    OBVIOUS
  <1>6. /\ w \in Seq(S) /\ Len(w) = o + n
        /\ \A i \in 1..(o + n) : w[i] = IF i <= o THEN a[i] ELSE src[i - o]
    <2>1. /\ Cat(a, src) \in Seq(S) /\ Len(Cat(a, src)) = Len(a) + Len(src)
          /\ \A i \in 1..(Len(a) + Len(src)) :
                Cat(a, src)[i] = IF i <= Len(a) THEN a[i] ELSE src[i - Len(a)]
      BY <1>4, CatIs
    <2>2. QED
      BY <1>1, <1>4, <1>5, <2>1, Zenon
  <1>7. w = all
    BY <1>a, <1>1, <1>3, <1>5, Zenon
  <1>8. CASE offset + n < size
    <2>1. PICK t : t = Append(src, NUL)
      OBVIOUS
    <2>2. /\ t \in Seq(S) /\ Len(t) = n + 1 /\ t[n + 1] = NUL
          /\ \A i \in 1..n : t[i] = src[i]
      BY <1>1, <2>1
    <2>3. PICK y : y = Over(buf, offset, t)
      OBVIOUS
    <2>4. /\ y \in Seq(S) /\ Len(y) = size
          /\ \A i \in 1..offset : y[i] = buf[i]
          /\ \A i \in 1..(n + 1) : y[offset + i] = t[i]
      <3>1. offset + Len(t) <= Len(buf) /\ t \in Seq(S)
        BY <1>2, <1>8, <2>2
      <3>2. LET x == Over(buf, offset, t)
            IN  /\ x \in Seq(S) /\ Len(x) = Len(buf)
                /\ \A i \in 1..offset : x[i] = buf[i]
                /\ \A i \in 1..Len(t) : x[offset + i] = t[i]
        BY <3>1, OverIs
      <3>3. QED
        BY <1>2, <2>2, <2>3, <3>2, Zenon
    <2>5. o = offset
      BY <1>2, <1>8
    <2>6. r = [ok |-> TRUE, buf |-> y]
      BY <1>a, <1>1, <1>8, <2>1, <2>3 DEF cstr_safecopy, Fits
    <2>7. r.ok = TRUE /\ r.buf = y
      BY <2>6
    <2>8. PICK v : v = Append(w, NUL)
      OBVIOUS
    <2>9. /\ v \in Seq(S) /\ Len(v) = offset + n + 1 /\ v[offset + n + 1] = NUL
          /\ \A i \in 1..(offset + n) : v[i] = w[i]
      BY <1>6, <2>5, <2>8
    <2>10. ASSUME NEW i \in 1..(offset + n + 1) PROVE v[i] = y[i]
      <3>1. CASE i <= offset
        <4>1. i \in 1..offset /\ i \in 1..(offset + n) /\ i \in 1..(o + n) /\ i <= o /\ i \in 1..o
          BY <1>2, <2>5, <3>1
        <4>2. QED
          BY <1>4, <1>6, <2>4, <2>9, <4>1
      <3>2. CASE ~(i <= offset) /\ i <= offset + n
        <4>1. PICK j : j = i - offset
          OBVIOUS
        <4>2. /\ j \in 1..n /\ j \in 1..(n + 1) /\ offset + j = i /\ i \in 1..(offset + n)
              /\ i \in 1..(o + n) /\ ~(i <= o) /\ i - o = j
          BY <1>2, <2>5, <3>2, <4>1
        <4>3. v[i] = src[j]
          BY <1>6, <2>9, <4>2
        <4>4. y[i] = src[j]
          BY <2>2, <2>4, <4>2
        <4>5. QED
          BY <4>3, <4>4
      <3>3. CASE i = offset + n + 1
        <4>1. n + 1 \in 1..(n + 1) /\ offset + (n + 1) = i
          BY <1>2, <3>3
        <4>2. QED
          BY <2>2, <2>4, <2>9, <3>3, <4>1
      <3>4. QED
        BY <1>2, <3>1, <3>2, <3>3
    <2>11. IsPrefix(v, y)
      <3>1. Len(v) <= Len(y)
        BY <1>2, <1>8, <2>4, <2>9
      <3>2. QED
        BY <2>4, <2>9, <2>10, <3>1, PrefixIs
    <2>12. offset + n + 1 \in 1..size /\ y[offset + n + 1] = NUL
      <3>1. n + 1 \in 1..(n + 1) /\ offset + (n + 1) = offset + n + 1
        BY <1>2
      <3>2. y[offset + n + 1] = NUL
        BY <2>2, <2>4, <3>1
      <3>3. QED
        BY <1>2, <1>8, <3>2
    <2>13. QED
      BY <1>1, <1>7, <1>8, <2>4, <2>7, <2>8, <2>11, <2>12, Zenon
  <1>9. CASE ~(offset + n < size)
    <2>1. PICK q : q = IF offset < size THEN Over(buf, offset, First(src, size - offset)) ELSE buf
      OBVIOUS
    <2>2. /\ q \in Seq(S) /\ Len(q) = size
          /\ \A i \in 1..size : q[i] = w[i] /\ i \in 1..(o + n)
      <3>1. CASE offset < size
        <4>1. PICK d, h : d = size - offset /\ h = First(src, d)
          OBVIOUS
        <4>2. d \in 1..n /\ d \in 0..Len(src) /\ o = offset /\ offset + d = size
          BY <1>1, <1>2, <1>9, <3>1, <4>1
        <4>3. h \in Seq(S) /\ Len(h) = d /\ \A i \in 1..d : h[i] = src[i]
          BY <4>1, <4>2, FirstIs
        <4>4. q = Over(buf, offset, h)
          BY <2>1, <3>1, <4>1
        <4>5. /\ q \in Seq(S) /\ Len(q) = size
              /\ \A i \in 1..offset : q[i] = buf[i]
              /\ \A i \in 1..d : q[offset + i] = h[i]
          <5>1. offset + Len(h) <= Len(buf) /\ h \in Seq(S)
            BY <1>2, <4>2, <4>3
          <5>2. LET y == Over(buf, offset, h)
                IN  /\ y \in Seq(S) /\ Len(y) = Len(buf)
                    /\ \A i \in 1..offset : y[i] = buf[i]
                    /\ \A i \in 1..Len(h) : y[offset + i] = h[i]
            BY <5>1, OverIs
          <5>3. QED
            BY <1>2, <4>3, <4>4, <5>2, Zenon
        <4>6. ASSUME NEW i \in 1..size PROVE q[i] = w[i] /\ i \in 1..(o + n)
          <5>1. i \in 1..(o + n)
            BY <1>2, <1>9, <4>2
          <5>2. CASE i <= offset
            <6>1. i \in 1..offset /\ i \in 1..o /\ i <= o
              BY <1>2, <4>2, <5>2
            <6>2. QED
              BY <1>4, <1>6, <4>5, <5>1, <6>1
          <5>3. CASE ~(i <= offset)
            <6>1. PICK j : j = i - offset
              OBVIOUS
            <6>2. j \in 1..d /\ offset + j = i /\ ~(i <= o) /\ i - o = j
              BY <1>2, <4>2, <5>3, <6>1
            <6>3. q[i] = src[j] /\ w[i] = src[j]
              BY <1>6, <4>3, <4>5, <5>1, <6>2
            <6>4. QED
              BY <5>1, <6>3
          <5>4. QED
            BY <5>2, <5>3
        <4>7. QED
          BY <4>5, <4>6
      <3>2. CASE ~(offset < size)
        <4>1. q = buf /\ o = size
          BY <1>2, <2>1, <3>2
        <4>2. \A i \in 1..size : i \in 1..(o + n) /\ i <= o /\ i \in 1..o
          BY <1>2, <4>1
        <4>3. q \in Seq(S) /\ Len(q) = size
          BY <1>2, <4>1, Zenon
        <4>4. ASSUME NEW i \in 1..size PROVE q[i] = w[i] /\ i \in 1..(o + n)
          <5>1. q[i] = buf[i] /\ i \in 1..(o + n)
            BY <4>1, <4>2
          <5>2. w[i] = buf[i]
            BY <1>4, <1>6, <4>2
          <5>3. QED
            BY <5>1, <5>2
        <4>5. QED
          BY <4>3, <4>4
      <3>3. QED
        BY <3>1, <3>2
    <2>3. PICK e : e = IF offset < size /\ size > 3 THEN Over(q, size - 4, <<".", ".", ".">>) ELSE q
      OBVIOUS
    <2>4. PICK c : c = IF size > 3 THEN size - 4 ELSE AtMost(offset + n, size - 1)
      OBVIOUS
    <2>5. c \in 0..(size - 1) /\ c \in Nat
      BY <1>2, <2>4 DEF AtMost
    <2>6. /\ e \in Seq(S) /\ Len(e) = size /\ \A i \in 1..c : e[i] = q[i]
      <3>1. CASE offset < size /\ size > 3
        <4>1. PICK dots : dots = <<".", ".", ".">>
          OBVIOUS
        <4>2. dots \in Seq(S) /\ Len(dots) = 3
          BY <4>1
        <4>3. e = Over(q, c, dots) /\ c \in Nat /\ c + Len(dots) <= Len(q)
          BY <1>2, <2>2, <2>3, <2>4, <3>1, <4>1, <4>2
        <4>4. /\ e \in Seq(S) /\ Len(e) = Len(q) /\ \A i \in 1..c : e[i] = q[i]
          <5>1. q \in Seq(S) /\ dots \in Seq(S) /\ c \in Nat /\ c + Len(dots) <= Len(q)
            BY <2>2, <4>2, <4>3
          <5>2. /\ Over(q, c, dots) \in Seq(S) /\ Len(Over(q, c, dots)) = Len(q)
                /\ \A i \in 1..c : Over(q, c, dots)[i] = q[i]
            BY <5>1, OverIs
          <5>3. QED
            BY <4>3, <5>2, Zenon
        <4>5. QED
          BY <2>2, <4>4
      <3>2. CASE ~(offset < size /\ size > 3)
        BY <2>2, <2>3, <3>2
      <3>3. QED
        BY <3>1, <3>2
    <2>7. PICK y : y = [e EXCEPT ![size] = NUL]
      OBVIOUS
    <2>8. /\ y \in Seq(S) /\ Len(y) = size /\ y[size] = NUL /\ size \in 1..size
          /\ \A i \in 1..c : y[i] = w[i] /\ i \in 1..(o + n)
      <3>1. size \in 1..size
        BY <1>2
      <3>2. y \in Seq(S) /\ Len(y) = size /\ y[size] = NUL
        BY <2>6, <2>7, <3>1
      <3>3. \A i \in 1..size : i # size => y[i] = e[i]
        BY <2>6, <2>7
      <3>4. \A i \in 1..c : i \in 1..size /\ i # size
        BY <1>2, <2>5
      <3>5. QED
        BY <2>2, <2>6, <3>1, <3>2, <3>3, <3>4
    <2>9. r = [ok |-> FALSE, buf |-> y]
      BY <1>a, <1>1, <1>9, <2>1, <2>3, <2>7, Zenon DEF cstr_safecopy, Fits
    <2>10. r.ok = FALSE /\ r.buf = y
      BY <2>9
    <2>11. PICK v : v = First(w, c)
      OBVIOUS
    <2>12. v \in Seq(S) /\ Len(v) = c /\ \A i \in 1..c : v[i] = w[i]
      <3>1. c \in 0..Len(w)
        BY <1>2, <1>6, <1>9, <2>5
      <3>2. QED
        BY <1>6, <2>11, <3>1, FirstIs
    <2>13. IsPrefix(v, y)
      <3>1. Len(v) <= Len(y)
        BY <1>2, <2>5, <2>8, <2>12
      <3>2. \A i \in 1..Len(v) : v[i] = y[i]
        BY <2>8, <2>12
      <3>3. QED
        BY <2>8, <2>12, <3>1, <3>2, PrefixIs
    <2>14. QED
      BY <1>1, <1>7, <1>9, <2>4, <2>8, <2>10, <2>11, <2>13, Zenon
  <1>10. QED
    BY <1>8, <1>9

\* Bounded copies of a text and of its parts, and the message of the log.
THEOREM CopiesFit ==
    ASSUME NEW s \in Texts, NEW n, n = Len(s), NEW size \in Nat, size > 0, NEW i \in 0..n,
           NEW head, head = First(s, i),
           NEW env, env = getenv_with_prefix(From(s, i), head, size)
    PROVE  /\ cstr_copybuf(size, s) = cstr_copybuf_len(size, s, n)
           /\ cstr_copybuf_len(size, s, i) = cstr_copybuf(size, head)
           /\ Len(cstr_copybuf(size, head)) = AtMost(i, size - 1)
           /\ IF n < size THEN env = <<n, s>> ELSE env = <<-1, <<>>>>
           /\ emerg_syslog_message(s) = cstr_copybuf(EMERGLOG_MSGLEN + 1, s)
  <1>1. s \in Seq(DOMAIN Code) /\ n \in Nat /\ i \in Nat /\ i <= n
    BY DEF Texts
  <1>2. \A j \in Nat : AtMost(j, n) \in 0..n
    BY <1>1 DEF AtMost
  \* What First keeps of a text.
  <1>3. ASSUME NEW t \in Seq(DOMAIN Code), NEW j \in Nat
        PROVE  /\ First(t, j) \in Seq(DOMAIN Code) /\ Len(First(t, j)) = AtMost(j, Len(t))
               /\ \A k \in 1..AtMost(j, Len(t)) : First(t, j)[k] = t[k]
    <2>1. PICK a : a = AtMost(j, Len(t))
      OBVIOUS
    <2>2. a \in 0..Len(t) /\ AtMost(a, Len(t)) = a
      BY <2>1 DEF AtMost
    <2>3. First(t, j) = First(t, a)
      BY <2>1, <2>2 DEF First
    <2>4. First(t, a) \in Seq(DOMAIN Code) /\ Len(First(t, a)) = a /\ \A k \in 1..a : First(t, a)[k] = t[k]
      BY <2>2, FirstIs
    <2>5. QED
      BY <2>1, <2>3, <2>4
  <1>4. /\ head \in Seq(DOMAIN Code) /\ Len(head) = i /\ \A k \in 1..i : head[k] = s[k]
    BY <1>1, FirstIs
  <1>5. cstr_copybuf(size, s) = cstr_copybuf_len(size, s, n)
    <2>1. CASE n < size
      <3>1. AtMost(size - 1, n) = n /\ AtMost(n, n) = n
        BY <1>1, <2>1 DEF AtMost
      <3>2. QED
        BY <2>1, <3>1 DEF cstr_copybuf, cstr_copybuf_len, First
    <2>2. CASE ~(n < size)
      BY <2>2 DEF cstr_copybuf, cstr_copybuf_len
    <2>3. QED
      BY <2>1, <2>2
  <1>6. PICK c, d : c = cstr_copybuf(size, head) /\ d = cstr_copybuf_len(size, s, i)
    OBVIOUS
  <1>7. PICK l : l = AtMost(i, size - 1)
    OBVIOUS
  <1>8. l \in Nat /\ l <= n /\ l <= i
    BY <1>1, <1>7 DEF AtMost
  <1>9. c \in Seq(DOMAIN Code) /\ Len(c) = l /\ \A k \in 1..l : c[k] = s[k]
    <2>1. c = First(head, size - 1) /\ size - 1 \in Nat
      BY <1>6 DEF cstr_copybuf
    <2>2. AtMost(size - 1, Len(head)) = l
      BY <1>1, <1>4, <1>7 DEF AtMost
    <2>3. c \in Seq(DOMAIN Code) /\ Len(c) = l /\ \A k \in 1..l : c[k] = head[k]
      BY <1>3, <1>4, <2>1, <2>2
    <2>4. \A k \in 1..l : k \in 1..i
      BY <1>1, <1>8
    <2>5. QED
      BY <1>4, <2>3, <2>4
  <1>10. d \in Seq(DOMAIN Code) /\ Len(d) = l /\ \A k \in 1..l : d[k] = s[k]
    <2>1. PICK e : e = IF i < size THEN i ELSE size - 1
      OBVIOUS
    <2>2. d = First(s, e) /\ e \in 0..Len(s) /\ e = l
      BY <1>1, <1>6, <1>7, <2>1 DEF cstr_copybuf_len, AtMost
    <2>3. QED
      BY <1>1, <2>2, FirstIs
  <1>11. c = d
    BY <1>8, <1>9, <1>10, SameText
  <1>12. emerg_syslog_message(s) = cstr_copybuf(EMERGLOG_MSGLEN + 1, s)
    <2>1. s # Null
      BY <1>1, NullAssumption
    <2>2. PICK m : m = EMERGLOG_MSGLEN
      OBVIOUS
    <2>3. m \in Nat /\ (m + 1) - 1 = m
      BY <2>2, LenAssumption
    <2>4. PICK f0, g, b : f0 = First(s, m) /\ g = AtMost(n, m) /\ b = AtMost(m, n)
      OBVIOUS
    <2>5. g \in Nat /\ g = b /\ b <= n /\ AtMost(g, b) = b
      BY <1>1, <2>3, <2>4 DEF AtMost
    <2>6. f0 \in Seq(DOMAIN Code) /\ Len(f0) = b
      BY <1>1, <1>3, <2>3, <2>4
    <2>7. First(f0, g) = SubSeq(f0, 1, Len(f0))
      BY <2>5, <2>6 DEF First
    <2>8. SubSeq(f0, 1, Len(f0)) = f0
      BY <2>6, SubSeqFull
    <2>9. emerg_syslog_message(s) = First(f0, g)
      BY <2>1, <2>2, <2>4, Zenon DEF emerg_syslog_message
    <2>10. cstr_copybuf(EMERGLOG_MSGLEN + 1, s) = f0
      BY <2>2, <2>3, <2>4 DEF cstr_copybuf
    <2>11. QED
      BY <2>7, <2>8, <2>9, <2>10
  <1>13. IF n < size THEN env = <<n, s>> ELSE env = <<-1, <<>>>>
    <2>1. PICK z : z = From(s, i)
      OBVIOUS
    <2>2. z \in Seq(DOMAIN Code) /\ Len(z) = n - i /\ \A k \in 1..(n - i) : z[k] = s[i + k]
      BY <1>1, <2>1, FromIs
    <2>3. z # Null
      BY <2>2, NullAssumption
    <2>4. PICK a, b : a = First(head, size) /\ b = First(z, size)
      OBVIOUS
    <2>5. PICK v : v = a \o b
      OBVIOUS
    <2>6. env = IF Len(v) < size THEN <<Len(v), v>> ELSE <<-1, <<>>>>
      BY <2>1, <2>3, <2>4, <2>5, Zenon DEF getenv_with_prefix
    <2>7. /\ a \in Seq(DOMAIN Code) /\ Len(a) = AtMost(size, i)
          /\ \A k \in 1..AtMost(size, i) : a[k] = head[k]
      BY <1>3, <1>4, <2>4
    <2>8. /\ b \in Seq(DOMAIN Code) /\ Len(b) = AtMost(size, n - i)
          /\ \A k \in 1..AtMost(size, n - i) : b[k] = z[k]
      BY <1>3, <2>2, <2>4
    <2>9. /\ v \in Seq(DOMAIN Code) /\ Len(v) = Len(a) + Len(b)
          /\ \A k \in 1..(Len(a) + Len(b)) : v[k] = IF k <= Len(a) THEN a[k] ELSE b[k - Len(a)]
      BY <2>5, <2>7, <2>8, ConcatProperties
    <2>10. CASE n < size
      <3>1. Len(a) = i /\ Len(b) = n - i /\ AtMost(size, i) = i /\ AtMost(size, n - i) = n - i
            /\ i + (n - i) = n
        BY <1>1, <2>7, <2>8, <2>10 DEF AtMost
      <3>2. Len(v) = n
        BY <2>9, <3>1
      <3>3. ASSUME NEW k \in 1..n PROVE v[k] = s[k]
        <4>1. k \in 1..(Len(a) + Len(b))
          BY <3>1
        <4>2. CASE k <= i
          <5>1. k \in 1..i
            BY <1>1, <4>2
          <5>2. v[k] = a[k] /\ a[k] = head[k] /\ head[k] = s[k]
            BY <1>4, <2>7, <2>9, <3>1, <4>1, <4>2, <5>1
          <5>3. QED
            BY <5>2
        <4>3. CASE ~(k <= i)
          <5>1. PICK j : j = k - i
            OBVIOUS
          <5>2. j \in 1..(n - i) /\ i + j = k
            BY <1>1, <4>3, <5>1
          <5>3. v[k] = b[j] /\ b[j] = z[j] /\ z[j] = s[k]
            BY <2>2, <2>8, <2>9, <3>1, <4>1, <4>3, <5>1, <5>2
          <5>4. QED
            BY <5>3
        <4>4. QED
          BY <4>2, <4>3
      <3>4. v = s
        BY <1>1, <2>9, <3>2, <3>3, SameText
      <3>5. QED
        BY <2>6, <2>10, <3>2, <3>4
    <2>11. CASE ~(n < size)
      <3>1. ~(Len(v) < size)
        <4>1. PICK x, y : x = AtMost(size, i) /\ y = AtMost(size, n - i)
          OBVIOUS
        <4>2. x \in Nat /\ y \in Nat /\ (x = size \/ x = i) /\ (y = size \/ y = n - i)
          BY <1>1, <4>1 DEF AtMost
        <4>3. Len(v) = x + y
          BY <2>7, <2>8, <2>9, <4>1
        <4>4. QED
          BY <1>1, <2>11, <4>2, <4>3
      <3>2. QED
        BY <2>6, <2>11, <3>1
    <2>12. QED
      BY <2>10, <2>11
  <1>14. QED
    BY <1>5, <1>6, <1>7, <1>9, <1>11, <1>12, <1>13, Zenon

\* BuffersHold for texts of any length: the three theorems above for what the run grows.
THEOREM HelpersBuffersHold == Spec => []BuffersHold
  <1>1. InputTypes => BuffersHold
    <2>1. SUFFICES ASSUME in \in Seq(Letters) PROVE Text => BuffersHold
      BY Zenon DEF InputTypes, BuffersHold, Text
    <2>2. in \in Texts /\ in \in Names /\ N = Len(in) /\ N \in Nat
      BY <2>1, LettersAssumption DEF Texts, N, Names
    <2>3. ASSUME NEW size \in 1..5, NEW i \in 0..N
          PROVE  LET head == First(in, i)
                     env == getenv_with_prefix(From(in, i), head, size)
                 IN  /\ cstr_copybuf(size, in) = cstr_copybuf_len(size, in, N)
                     /\ cstr_copybuf_len(size, in, i) = cstr_copybuf(size, head)
                     /\ Len(cstr_copybuf(size, head)) = AtMost(i, size - 1)
                     /\ IF N < size THEN env = <<N, in>> ELSE env = <<-1, <<>>>>
                     /\ emerg_syslog_message(in) = cstr_copybuf(EMERGLOG_MSGLEN + 1, in)
      <3>1. size \in Nat /\ size > 0
        OBVIOUS
      <3>2. PICK n, head, env : /\ n = N /\ head = First(in, i)
                                /\ env = getenv_with_prefix(From(in, i), head, size)
        OBVIOUS
      <3>3. n = Len(in) /\ i \in 0..n
        BY <2>2, <3>2
      <3>4. /\ cstr_copybuf(size, in) = cstr_copybuf_len(size, in, n)
            /\ cstr_copybuf_len(size, in, i) = cstr_copybuf(size, head)
            /\ Len(cstr_copybuf(size, head)) = AtMost(i, size - 1)
            /\ IF n < size THEN env = <<n, in>> ELSE env = <<-1, <<>>>>
            /\ emerg_syslog_message(in) = cstr_copybuf(EMERGLOG_MSGLEN + 1, in)
        BY <2>2, <3>1, <3>2, <3>3, CopiesFit
      <3>5. QED
        BY <3>2, <3>4, Zenon
    <2>4. ASSUME NEW i \in 0..N, NEW mode \in {"none", "ignore", "translit"}
          PROVE  \A r \in {convd_create(First(in, i), From(in, i), mode)} :
                    /\ r.ret = "NOERROR" <=> (i \in 1..(N - 1) /\ N - i <= CVD_ENCODING_LEN_MAX
                                                /\ i <= CVD_ENCODING_LEN_MAX)
                    /\ r.ret = "NOERROR" =>
                        /\ r.used = r.size
                        /\ r.codes[1] \o r.codes[2] = cstr_toupper(in, N) /\ Len(r.codes[1]) = i
                        /\ r.opened = <<r.codes[2] \o SuffixText(mode), r.codes[1]>>
      <3>1. PICK a, b, r : a = First(in, i) /\ b = From(in, i) /\ r = convd_create(a, b, mode)
        OBVIOUS
      <3>2. i \in 0..Len(in)
        BY <2>2
      <3>3. a \in Names /\ Len(a) = i /\ \A k \in 1..i : a[k] = in[k]
        BY <2>2, <3>1, <3>2, FirstIs DEF Names
      <3>4. b \in Names /\ Len(b) = N - i /\ \A k \in 1..(N - i) : b[k] = in[i + k]
        BY <2>2, <3>1, <3>2, FromIs DEF Names
      <3>5. PICK ua, ub, u : ua = UpperOf(a) /\ ub = UpperOf(b) /\ u = UpperOf(in)
        OBVIOUS
      <3>6. /\ r.ret = "NOERROR" <=> /\ Len(a) \in 1..CVD_ENCODING_LEN_MAX
                                     /\ Len(b) \in 1..CVD_ENCODING_LEN_MAX
            /\ r.ret = "NOERROR" => /\ r.used = r.size /\ r.codes = <<ua, ub>>
                                    /\ r.opened = <<Cat(ub, SuffixText(mode)), ua>>
        <4>1. /\ r.ret = "NOERROR" <=> /\ Len(a) \in 1..CVD_ENCODING_LEN_MAX
                                       /\ Len(b) \in 1..CVD_ENCODING_LEN_MAX
              /\ r.ret = "NOERROR" =>
                    /\ r.used = r.size /\ r.codes = <<UpperOf(a), UpperOf(b)>>
                    /\ r.opened = <<Cat(UpperOf(b), SuffixText(mode)), UpperOf(a)>>
          BY <3>1, <3>3, <3>4, CreateFits
        <4>2. QED
          BY <3>5, <4>1, Zenon
      <3>7. ua \in Texts /\ Len(ua) = i /\ \A k \in 1..i : ua[k] = Upper[a[k]]
        <4>1. ua \in Texts /\ Len(ua) = Len(a) /\ \A k \in 1..Len(a) : ua[k] = Upper[a[k]]
          BY <3>3, <3>5, UpperIs
        <4>2. QED
          BY <3>3, <4>1, Zenon
      <3>8. ub \in Texts /\ Len(ub) = N - i /\ \A k \in 1..(N - i) : ub[k] = Upper[b[k]]
        <4>1. ub \in Texts /\ Len(ub) = Len(b) /\ \A k \in 1..Len(b) : ub[k] = Upper[b[k]]
          BY <3>4, <3>5, UpperIs
        <4>2. QED
          BY <3>4, <4>1, Zenon
      <3>9. u \in Texts /\ Len(u) = N /\ \A k \in 1..N : u[k] = Upper[in[k]]
        <4>1. u \in Texts /\ Len(u) = Len(in) /\ \A k \in 1..Len(in) : u[k] = Upper[in[k]]
          BY <2>2, <3>5, UpperIs
        <4>2. QED
          BY <2>2, <4>1, Zenon
      <3>10. PICK w : w = Cat(ua, ub)
        OBVIOUS
      <3>11. w = u
        <4>1. /\ w \in Texts /\ Len(w) = i + (N - i)
              /\ \A k \in 1..(i + (N - i)) : w[k] = IF k <= i THEN ua[k] ELSE ub[k - i]
          <5>1. /\ w \in Texts /\ Len(w) = Len(ua) + Len(ub)
                /\ \A k \in 1..(Len(ua) + Len(ub)) :
                        w[k] = IF k <= Len(ua) THEN ua[k] ELSE ub[k - Len(ua)]
            BY <3>7, <3>8, <3>10, CatChars
          <5>2. QED
            BY <3>7, <3>8, <5>1, Zenon
        <4>2. i + (N - i) = N
          BY <2>2
        <4>3. ASSUME NEW k \in 1..N PROVE w[k] = u[k]
          <5>1. CASE k <= i
            <6>1. k \in 1..i
              BY <5>1
            <6>2. w[k] = ua[k] /\ ua[k] = Upper[a[k]] /\ a[k] = in[k]
              BY <3>3, <3>7, <4>1, <4>2, <5>1, <6>1
            <6>3. QED
              BY <3>9, <6>2
          <5>2. CASE ~(k <= i)
            <6>1. PICK j : j = k - i
              OBVIOUS
            <6>2. j \in 1..(N - i) /\ i + j = k
              BY <2>2, <5>2, <6>1
            <6>3. w[k] = ub[j] /\ ub[j] = Upper[b[j]] /\ b[j] = in[k]
              BY <3>4, <3>8, <4>1, <4>2, <5>2, <6>1, <6>2
            <6>4. QED
              BY <3>9, <6>3
          <5>3. QED
            BY <5>1, <5>2
        <4>4. Len(w) = N /\ w \in Seq(DOMAIN Code) /\ u \in Seq(DOMAIN Code)
          BY <3>9, <4>1, <4>2 DEF Texts
        <4>5. QED
          BY <2>2, <3>9, <4>3, <4>4, SameText
      <3>12. u = cstr_toupper(in, N)
        BY <2>2, <3>5, Zenon DEF UpperOf
      <3>13. (Len(a) \in 1..CVD_ENCODING_LEN_MAX /\ Len(b) \in 1..CVD_ENCODING_LEN_MAX)
                <=> (i \in 1..(N - 1) /\ N - i <= CVD_ENCODING_LEN_MAX /\ i <= CVD_ENCODING_LEN_MAX)
        BY <2>2, <3>3, <3>4, LenAssumption
      <3>14. ASSUME r.ret = "NOERROR"
             PROVE  /\ r.codes[1] = ua /\ r.codes[2] = ub
                    /\ r.opened = <<Cat(ub, SuffixText(mode)), ua>>
        <4>1. r.codes = <<ua, ub>>
          BY <3>6, <3>14
        <4>2. <<ua, ub>>[1] = ua /\ <<ua, ub>>[2] = ub
          OBVIOUS
        <4>3. QED
          BY <3>6, <3>14, <4>1, <4>2
      <3>15. r.ret = "NOERROR" =>
                /\ r.used = r.size
                /\ r.codes[1] \o r.codes[2] = cstr_toupper(in, N) /\ Len(r.codes[1]) = i
                /\ r.opened = <<r.codes[2] \o SuffixText(mode), r.codes[1]>>
        BY <3>6, <3>7, <3>10, <3>11, <3>12, <3>14, Zenon DEF Cat
      <3>16. QED
        BY <3>1, <3>6, <3>13, <3>15, Zenon
    <2>5. ASSUME NEW size \in 1..5, NEW offset \in 0..5
          PROVE  LET old == [i \in 1..size |-> "x"]
                     r == cstr_safecopy(old, offset, in)
                     all == First(old, AtMost(offset, size)) \o in
                 IN  /\ Len(r.buf) = size /\ NUL \in ToSet(r.buf)
                     /\ r.ok <=> offset + N < size
                     /\ IsPrefix(IF r.ok THEN Append(all, NUL)
                                 ELSE First(all, IF size > 3 THEN size - 4
                                                 ELSE AtMost(offset + N, size - 1)), r.buf)
      <3>1. PICK S : S = DOMAIN Code \cup {NUL, ".", "x"}
        OBVIOUS
      <3>2. PICK old : old = [i \in 1..size |-> "x"]
        OBVIOUS
      <3>3. /\ old \in Seq(S) /\ size = Len(old) /\ size \in Nat /\ size > 0 /\ offset \in Nat
            /\ NUL \in S /\ "." \in S
        <4>1. "x" \in S /\ NUL \in S /\ "." \in S
          BY <3>1
        <4>2. PICK x : x = "x"
          OBVIOUS
        <4>3. old \in Seq(S) /\ size = Len(old)
          BY <3>2, <4>1, <4>2
        <4>4. QED
          BY <4>1, <4>3
      <3>4. in \in Seq(S)
        <4>1. \A k \in 1..N : in[k] \in S
          BY <2>2, <3>1 DEF Texts
        <4>2. QED
          BY <2>2, <4>1 DEF Texts
      <3>5. PICK r, all : /\ r = cstr_safecopy(old, offset, in)
                          /\ all = Cat(First(old, AtMost(offset, size)), in)
        OBVIOUS
      <3>6. /\ r.buf \in Seq(S) /\ Len(r.buf) = size /\ \E i \in 1..size : r.buf[i] = NUL
            /\ r.ok <=> offset + Len(in) < size
            /\ IsPrefix(IF r.ok THEN Append(all, NUL)
                        ELSE First(all, IF size > 3 THEN size - 4
                                        ELSE AtMost(offset + Len(in), size - 1)), r.buf)
        <4>1. Copied(S, old, offset, in, cstr_safecopy(old, offset, in))
          BY <3>3, <3>4, SafecopyKeeps
        <4>2. QED
          BY <3>3, <3>5, <4>1, Zenon DEF Copied
      <3>7. NUL \in ToSet(r.buf)
        BY <3>6 DEF ToSet
      <3>8. QED
        BY <2>2, <3>2, <3>5, <3>6, <3>7, Zenon DEF Cat
    <2>6. QED
      BY <2>3, <2>4, <2>5, Zenon DEF BuffersHold
  <1>2. QED
    BY <1>1, InputsGrow, PTL
=============================================================================
