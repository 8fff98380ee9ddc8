----------------------------- MODULE ConvdProof -----------------------------
(***************************************************************************)
(* Proofs about Convd for any number of threads, handles, units, settings, *)
(* texts and buffer sizes: its references, the order of its results, its   *)
(* buffers, and last that it implements ConvdAbs.                          *)
(***************************************************************************)
EXTENDS Convd, TLAPS, FiniteSetTheorems, SequenceTheorems

-----------------------------------------------------------------------------
(***************************************************************************)
(* The references: what a change of one handle does to Held.               *)
(***************************************************************************)

\* Giving a reference to a free handle adds exactly one to those held.
LEMMA HeldAdd ==
    ASSUME holder \in [Handle -> Thread \cup {NoThread}],
           NEW h \in Handle, NEW t \in Thread,
           holder[h] = NoThread,
           holder' = [holder EXCEPT ![h] = t]
    PROVE  /\ Held' = Held \cup {h}
           /\ Cardinality(Held') = Cardinality(Held) + 1
  <1>1. IsFiniteSet(Held)
    BY HandleAssumption, FS_Subset DEF Held
  <1>2. Held' = Held \cup {h} /\ h \notin Held
    BY NoThreadAssumption DEF Held
  <1>3. QED
    BY <1>1, <1>2, FS_AddElement

\* Clearing a handle that holds a reference removes exactly one.
LEMMA HeldRemove ==
    ASSUME holder \in [Handle -> Thread \cup {NoThread}],
           NEW h \in Handle,
           holder[h] # NoThread,
           holder' = [holder EXCEPT ![h] = NoThread]
    PROVE  /\ Held' = Held \ {h}
           /\ h \in Held
           /\ Cardinality(Held) \in Nat
           /\ Cardinality(Held') \in Nat
           /\ Cardinality(Held') = Cardinality(Held) - 1
           /\ Cardinality(Held') = 0 <=> Held' = {}
  <1>1. IsFiniteSet(Held)
    BY HandleAssumption, FS_Subset DEF Held
  <1>2. Held' = Held \ {h} /\ h \in Held
    BY DEF Held
  <1>3. /\ IsFiniteSet(Held')
        /\ Cardinality(Held') = Cardinality(Held) - 1
    BY <1>1, <1>2, FS_RemoveElement
  <1>4. Cardinality(Held) \in Nat /\ Cardinality(Held') \in Nat
    BY <1>1, <1>3, FS_CardinalityType
  <1>5. QED
    BY <1>2, <1>3, <1>4, FS_EmptySet

-----------------------------------------------------------------------------
(***************************************************************************)
(* The text: how a conversion grows by one unit.                           *)
(***************************************************************************)

\* One more unit of a text: the prefix consumed so far grows by that unit.
LEMMA PrefixGrows ==
    ASSUME NEW S, NEW s \in Seq(S), NEW n \in Nat, n < Len(s)
    PROVE  /\ Append(SubSeq(s, 1, n), s[n + 1]) = SubSeq(s, 1, n + 1)
           /\ SubSeq(s, 1, n) \in Seq(S)
           /\ s[n + 1] \in S
  <1>1. /\ Len(s) \in Nat
        /\ n + 1 \in 1..Len(s)
        /\ 1 \in 1..n + 1
        /\ n + 1 - 1 = n
    BY LenProperties
  <1>2. SubSeq(s, 1, n) \in Seq(S)
    BY <1>1, SubSeqProperties, ElementOfSeq
  <1>3. s[n + 1] \in S
    BY <1>1, ElementOfSeq
  <1>4. SubSeq(s, 1, n + 1) = SubSeq(s, 1, n) \o <<s[n + 1]>>
    BY <1>1, SubSeqRecursiveSecond
  <1>5. Append(SubSeq(s, 1, n), s[n + 1]) = SubSeq(s, 1, n) \o <<s[n + 1]>>
    BY <1>2, <1>3, AppendIsConcat
  <1>6. QED
    BY <1>2, <1>3, <1>4, <1>5

\* Converting one more unit appends its image, made in the state that the
\* units before it left, to the conversion of those units.
LEMMA ConvGrows ==
    ASSUME NEW m, NEW s \in Seq(Unit), NEW n \in Nat, n < Len(s)
    PROVE  Append(Conv(m, s, n), <<m, SubSeq(s, 1, n), s[n + 1]>>)
               = Conv(m, s, n + 1)
  <1> DEFINE T == {m} \X Seq(Unit) \X Unit
             x == <<m, SubSeq(s, 1, n), s[n + 1]>>
             c == Conv(m, s, n)
             d == Conv(m, s, n + 1)
  <1>1. Len(s) \in Nat /\ n + 1 \in Nat
    BY LenProperties
  <1>2. \A k \in 1..n + 1 : <<m, SubSeq(s, 1, k - 1), s[k]>> \in T
    <2> TAKE k \in 1..n + 1
    <2>1. k - 1 \in Nat /\ k - 1 < Len(s) /\ (k - 1) + 1 = k
      BY <1>1
    <2>2. QED
      BY <2>1, PrefixGrows
  <1>3. c \in [1..n -> T] /\ d \in [1..n + 1 -> T]
    BY <1>1, <1>2 DEF Conv
  <1>4. c \in Seq(T) /\ Len(c) = n /\ d \in Seq(T) /\ Len(d) = n + 1
    BY <1>1, <1>3
  <1>5. x \in T /\ d[n + 1] = x
    <2>1. n + 1 \in 1..n + 1 /\ n + 1 - 1 = n
      BY <1>1
    <2>2. \A i \in 1..n + 1 : d[i] = <<m, SubSeq(s, 1, i - 1), s[i]>>
      BY Zenon DEF Conv
    <2> HIDE DEF c, d
    <2>3. \A i \in 1..n + 1 : i = n + 1 => i - 1 = n
      BY <1>1
    <2>4. d[n + 1] = x
      BY <2>1, <2>2, <2>3
    <2>5. QED
      BY <1>2, <2>1, <2>4
  <1>6. /\ Append(c, x) \in Seq(T)
        /\ Len(Append(c, x)) = n + 1
        /\ \A i \in 1..n : Append(c, x)[i] = c[i]
        /\ Append(c, x)[n + 1] = x
    <2>1. n + 1 = Len(c) + 1 /\ 1..n = 1..Len(c)
      BY <1>4
    <2> HIDE DEF c, x, T
    <2>2. QED
      BY <1>4, <1>5, <2>1, AppendProperties
  <1>7. \A i \in 1..n + 1 : Append(c, x)[i] = d[i]
    <2>1. \A i \in 1..n : i \in 1..n + 1
      BY <1>1
    <2>2. \A i \in 1..n : c[i] = d[i]
      BY <2>1, Zenon DEF Conv
    <2>3. \A i \in 1..n + 1 : i \in 1..n \/ i = n + 1
      BY <1>1
    <2>4. QED
      BY <1>5, <1>6, <2>2, <2>3, Zenon
  <1>8. QED
    BY <1>4, <1>6, <1>7, SeqEqual, SMTT(30)

\* Before the first unit nothing is consumed and nothing is written.
LEMMA ConvEmpty ==
    ASSUME NEW m, NEW s
    PROVE  Conv(m, s, 0) = << >> /\ SubSeq(s, 1, 0) = << >>
  BY SubSeqEmpty DEF Conv
-----------------------------------------------------------------------------
(***************************************************************************)
(* One lemma per action: it preserves the inductive invariant.  In each    *)
(* one the first steps concern the types and the reference count, then who *)
(* owns and destroys the object, and the last one the conversions.         *)
(***************************************************************************)

\* convd_create starts alone: nobody held the object that it replaces.
LEMMA CreateStep ==
    ASSUME IInv, NEW t \in Thread, NEW h \in Handle, NEW m \in Mode, Create(t, h, m)
    PROVE  IInv'
  <1> USE NoThreadAssumption
      DEF IInv, TypeOK, Create, refc_object_new, Goto, Held,
          objvars, cdvars, callvars, Crit, Destroying, Pc
  <1>1. TypeOK'
    OBVIOUS
  <1>2. RefcExact'
    <2>1. Held = {}
      BY DEF Alive
    <2>2. Cardinality(Held') = Cardinality(Held) + 1
      BY HeldAdd
    <2> HIDE DEF Held
    <2>3. Cardinality(Held') = 1
      BY <2>1, <2>2, FS_EmptySet
    <2>4. QED
      BY <2>3 DEF RefcExact
  <1>3. Owner'
    BY DEF Owner
  <1>4. Alive'
    BY DEF Alive, Owner, RefcExact
  <1>5. Opening'
    <2>1. Held = {} /\ Held' = {h}
      BY HeldAdd DEF Alive
    <2>2. QED
      BY <2>1 DEF Opening, Owner, Teardown
  <1>6. Teardown'
    BY DEF Teardown, Owner, Alive, Opening
  <1>7. LockOwner'
    BY DEF LockOwner, Owner, Alive, Teardown
  <1>8. Isolation' /\ Progress' /\ ConvCorrect'
    BY DEF Isolation, Progress, ConvCorrect, LockOwner, Owner, Alive, Opening, Teardown
  <1>9. QED
    BY <1>1, <1>2, <1>3, <1>4, <1>5, <1>6, <1>7, <1>8

\* A failed iconv_open leaves the creator with the only reference.
LEMMA CreateFailStep ==
    ASSUME IInv, NEW t \in Thread, CreateFail(t)
    PROVE  IInv'
  <1> USE NoThreadAssumption
      DEF IInv, TypeOK, CreateFail, Goto, Held,
          objvars, cdvars, callvars, Crit, Destroying, Pc
  <1>1. TypeOK'
    OBVIOUS
  <1>2. RefcExact'
    BY DEF RefcExact
  <1>3. Owner'
    BY DEF Owner
  <1>4. Alive'
    BY DEF Alive, Owner, RefcExact
  <1>5. Opening'
    BY DEF Opening, Owner
  <1>6. Teardown'
    BY DEF Teardown, Owner, Alive, Opening
  <1>7. LockOwner'
    BY DEF LockOwner, Owner, Alive, Teardown
  <1>8. Isolation' /\ Progress' /\ ConvCorrect'
    BY DEF Isolation, Progress, ConvCorrect, LockOwner, Owner, Alive, Opening, Teardown
  <1>9. QED
    BY <1>1, <1>2, <1>3, <1>4, <1>5, <1>6, <1>7, <1>8

\* iconv_open succeeds while nobody else can be converting.
LEMMA CreateOpenStep ==
    ASSUME IInv, NEW t \in Thread, CreateOpen(t)
    PROVE  IInv'
  <1> USE NoThreadAssumption
      DEF IInv, TypeOK, CreateOpen, Goto, Held,
          objvars, cdvars, callvars, Crit, Destroying, Pc
  <1>1. TypeOK'
    OBVIOUS
  <1>2. RefcExact'
    BY DEF RefcExact
  <1>3. Owner'
    BY DEF Owner
  <1>4. Alive'
    BY DEF Alive, Owner, RefcExact
  <1>5. Opening'
    BY DEF Opening, Owner
  <1>6. Teardown'
    BY DEF Teardown, Owner, Alive, Opening
  <1>7. LockOwner'
    BY DEF LockOwner, Owner, Alive, Teardown
  <1>8. Isolation' /\ Progress' /\ ConvCorrect'
    <2>1. \A u \in Thread : pc[u] \notin {"reset", "iconv"}
      BY ZenonT(60) DEF Opening, Owner
    <2>2. QED
      BY <2>1 DEF Isolation, Progress, ConvCorrect
  <1>9. QED
    BY <1>1, <1>2, <1>3, <1>4, <1>5, <1>6, <1>7, <1>8

\* A retain counts the reference it gives out.
LEMMA RetainStep ==
    ASSUME IInv, NEW t \in Thread, NEW h \in Handle, NEW g \in Handle, Retain(t, h, g)
    PROVE  IInv'
  <1> USE NoThreadAssumption
      DEF IInv, TypeOK, Retain, Goto, Held,
          objvars, cdvars, callvars, Crit, Destroying, Pc
  <1>1. TypeOK'
    OBVIOUS
  <1>2. RefcExact'
    <2>1. IsFiniteSet(Held)
      BY HandleAssumption, FS_Subset
    <2>2. Cardinality(Held) \in Nat
      BY <2>1, FS_CardinalityType
    <2>3. refc = Cardinality(Held) /\ refc' = refc + 1
      BY DEF RefcExact
    <2>4. holder' = [holder EXCEPT ![g] = t]
      BY <2>2, <2>3
    <2>5. Cardinality(Held') = Cardinality(Held) + 1
      BY <2>4, HeldAdd
    <2>6. QED
      BY <2>3, <2>5 DEF RefcExact
  <1>3. Owner'
    BY DEF Owner
  <1>4. Alive'
    BY DEF Alive, Owner, RefcExact
  <1>5. Opening'
    BY DEF Opening, Owner
  <1>6. Teardown'
    BY DEF Teardown, Owner, Alive, Opening
  <1>7. LockOwner'
    BY DEF LockOwner, Owner, Alive, Teardown
  <1>8. Isolation' /\ Progress' /\ ConvCorrect'
    BY DEF Isolation, Progress, ConvCorrect, LockOwner, Owner, Alive, Opening, Teardown
  <1>9. QED
    BY <1>1, <1>2, <1>3, <1>4, <1>5, <1>6, <1>7, <1>8

\* A reference changes hands without being counted.
LEMMA HandoffStep ==
    ASSUME IInv, NEW t \in Thread, NEW u \in Thread, NEW h \in Handle, Handoff(t, u, h)
    PROVE  IInv'
  <1> USE NoThreadAssumption
      DEF IInv, TypeOK, Handoff, Goto, Held,
          objvars, cdvars, callvars, Crit, Destroying, Pc
  <1>1. TypeOK'
    OBVIOUS
  <1>2. RefcExact'
    BY DEF RefcExact
  <1>3. Owner'
    BY DEF Owner
  <1>4. Alive'
    BY DEF Alive, Owner, RefcExact
  <1>5. Opening'
    BY DEF Opening, Owner
  <1>6. Teardown'
    BY DEF Teardown, Owner, Alive, Opening
  <1>7. LockOwner'
    BY DEF LockOwner, Owner, Alive, Teardown
  <1>8. Isolation' /\ Progress' /\ ConvCorrect'
    BY DEF Isolation, Progress, ConvCorrect
  <1>9. QED
    BY <1>1, <1>2, <1>3, <1>4, <1>5, <1>6, <1>7, <1>8

\* Asking for a release changes nothing yet.
LEMMA ReleaseStep ==
    ASSUME IInv, NEW t \in Thread, NEW h \in Handle, Release(t, h)
    PROVE  IInv'
  <1> USE NoThreadAssumption
      DEF IInv, TypeOK, Release, Goto, Held,
          objvars, cdvars, callvars, Crit, Destroying, Pc
  <1>1. TypeOK'
    OBVIOUS
  <1>2. RefcExact'
    BY DEF RefcExact
  <1>3. Owner'
    BY DEF Owner
  <1>4. Alive'
    BY DEF Alive, Owner, RefcExact
  <1>5. Opening'
    BY SMTT(30) DEF Opening, Owner
  <1>6. Teardown'
    BY DEF Teardown, Owner, Alive, Opening
  <1>7. LockOwner'
    BY DEF LockOwner, Owner, Alive, Teardown
  <1>8. Isolation' /\ Progress' /\ ConvCorrect'
    BY DEF Isolation, Progress, ConvCorrect, LockOwner, Owner, Alive, Opening, Teardown
  <1>9. QED
    BY <1>1, <1>2, <1>3, <1>4, <1>5, <1>6, <1>7, <1>8

\* The decrement gives up one reference, and the last one destroys.
LEMMA DecSubStep ==
    ASSUME IInv, NEW t \in Thread, DecSub(t)
    PROVE  IInv'
  <1> USE NoThreadAssumption
      DEF IInv, TypeOK, DecSub, Goto, Held,
          objvars, cdvars, callvars, Crit, Destroying, Pc
  <1>1. /\ holder' = [holder EXCEPT ![arg[t]] = NoThread]
        /\ arg[t] \in Handle
        /\ holder[arg[t]] = t
    BY DEF Owner
  <1>2. Cardinality(Held) = refc /\ Cardinality(Held') = refc - 1
    BY <1>1, HeldRemove DEF RefcExact
  <1>3. refc' \in Nat /\ (refc' <= 0 <=> Held' = {})
    <2>1. Cardinality(Held') \in Nat
      BY <1>1, HeldRemove
    <2>2. Cardinality(Held') = 0 <=> Held' = {}
      BY <1>1, HeldRemove
    <2>3. refc' = Cardinality(Held')
      BY <1>2
    <2> HIDE DEF Held, IInv, DecSub
    <2>4. QED
      BY <2>1, <2>2, <2>3
  <1>4. TypeOK'
    BY <1>1, <1>3
  <1>5. RefcExact'
    BY <1>2 DEF RefcExact
  <1>6. Owner'
    BY DEF Owner
  <1>7. Alive'
    BY DEF Alive, Owner, RefcExact
  <1>8. Opening'
    BY SMTT(30) DEF Opening, Owner
  <1>9. Teardown'
    <2>1. arg[t] \in Held /\ mem = "live" /\ cd # "closed"
      BY <1>1 DEF Alive, Opening
    <2>2. \A u \in Thread : pc[u] \notin Destroying
      BY <2>1 DEF Teardown
    <2>3. \A u \in Thread \ {t} : Held' = {} => pc[u] = "idle"
      <3> SUFFICES ASSUME NEW u \in Thread \ {t}, pc[u] # "idle"
                   PROVE  holder'[arg[u]] # NoThread /\ arg[u] \in Handle
        OBVIOUS
      <3>1. holder[arg[u]] = u
        BY <2>2 DEF Owner
      <3>2. QED
        BY <1>1, <3>1
    <2>4. pc'[t] \in Destroying => Held' = {} /\ pc'[t] = "final"
      BY <1>3
    <2>5. QED
      BY <2>1, <2>2, <2>3, <2>4 DEF Teardown
  <1>10. LockOwner'
    BY DEF LockOwner, Owner, Alive, Teardown
  <1>11. Isolation' /\ Progress' /\ ConvCorrect'
    BY DEF Isolation, Progress, ConvCorrect, LockOwner, Owner, Alive, Opening, Teardown
  <1>12. QED
    BY <1>1, <1>2, <1>3, <1>4, <1>5, <1>6, <1>7, <1>8, <1>9, <1>10, <1>11

\* The destroyer closes the iconv descriptor.
LEMMA FinalStep ==
    ASSUME IInv, NEW t \in Thread, Final(t)
    PROVE  IInv'
  <1> USE NoThreadAssumption
      DEF IInv, TypeOK, Final, Goto, Held,
          objvars, cdvars, callvars, Crit, Destroying, Pc
  <1>1. TypeOK'
    OBVIOUS
  <1>2. RefcExact'
    BY DEF RefcExact
  <1>3. Owner'
    BY DEF Owner
  <1>4. Alive'
    BY DEF Alive, Owner, RefcExact
  <1>5. Opening'
    BY DEF Opening, Teardown
  <1>6. Teardown'
    BY DEF Teardown, Owner, Alive, Opening
  <1>7. LockOwner'
    BY DEF LockOwner, Owner, Alive, Teardown
  <1>8. Isolation' /\ Progress' /\ ConvCorrect'
    BY DEF Isolation, Progress, ConvCorrect, LockOwner, Owner, Alive, Opening, Teardown
  <1>9. QED
    BY <1>1, <1>2, <1>3, <1>4, <1>5, <1>6, <1>7, <1>8

\* The destroyer destroys the lock.
LEMMA UninitStep ==
    ASSUME IInv, NEW t \in Thread, Uninit(t)
    PROVE  IInv'
  <1> USE NoThreadAssumption
      DEF IInv, TypeOK, Uninit, Goto, Held,
          objvars, cdvars, callvars, Crit, Destroying, Pc
  <1>1. TypeOK'
    OBVIOUS
  <1>2. RefcExact'
    BY DEF RefcExact
  <1>3. Owner'
    BY DEF Owner
  <1>4. Alive'
    BY DEF Alive, Teardown
  <1>5. Opening'
    BY DEF Opening, Owner
  <1>6. Teardown'
    BY SMTT(30) DEF Teardown, Owner, Alive, Opening
  <1>7. LockOwner'
    BY DEF LockOwner, Owner, Alive, Teardown
  <1>8. Isolation' /\ Progress' /\ ConvCorrect'
    BY DEF Isolation, Progress, ConvCorrect, LockOwner, Owner, Alive, Opening, Teardown
  <1>9. QED
    BY <1>1, <1>2, <1>3, <1>4, <1>5, <1>6, <1>7, <1>8

\* The destroyer frees the block.
LEMMA FreeStep ==
    ASSUME IInv, NEW t \in Thread, Free(t)
    PROVE  IInv'
  <1> USE NoThreadAssumption
      DEF IInv, TypeOK, Free, Goto, Held,
          objvars, cdvars, callvars, Crit, Destroying, Pc
  <1>1. TypeOK'
    OBVIOUS
  <1>2. RefcExact'
    BY DEF RefcExact
  <1>3. Owner'
    BY DEF Owner
  <1>4. Alive'
    BY DEF Alive, Teardown
  <1>5. Opening'
    BY DEF Opening, Owner
  <1>6. Teardown'
    BY DEF Teardown, Owner, Alive, Opening
  <1>7. LockOwner'
    BY DEF LockOwner, Owner, Alive, Teardown
  <1>8. Isolation' /\ Progress' /\ ConvCorrect'
    BY DEF Isolation, Progress, ConvCorrect, LockOwner, Owner, Alive, Opening, Teardown
  <1>9. QED
    BY <1>1, <1>2, <1>3, <1>4, <1>5, <1>6, <1>7, <1>8

\* The lock is taken when it is free.
LEMMA LockStep ==
    ASSUME IInv, NEW t \in Thread, Lock(t)
    PROVE  IInv'
  <1> USE NoThreadAssumption
      DEF IInv, TypeOK, Lock, Goto, Held,
          objvars, cdvars, callvars, Crit, Destroying, Pc
  <1>1. TypeOK'
    OBVIOUS
  <1>2. RefcExact'
    BY DEF RefcExact
  <1>3. Owner'
    BY DEF Owner
  <1>4. Alive'
    BY DEF Alive, Owner, RefcExact
  <1>5. Opening'
    BY DEF Opening, Owner
  <1>6. Teardown'
    BY DEF Teardown, Owner, Alive, Opening
  <1>7. LockOwner'
    BY DEF LockOwner, Owner, Alive, Teardown
  <1>8. Isolation' /\ Progress' /\ ConvCorrect'
    BY SMTT(30) DEF Isolation, Progress, ConvCorrect, LockOwner, Owner, Alive, Opening, Teardown
  <1>9. QED
    BY <1>1, <1>2, <1>3, <1>4, <1>5, <1>6, <1>7, <1>8

\* The lock is given back and the call returns.
LEMMA UnlockStep ==
    ASSUME IInv, NEW t \in Thread, Unlock(t)
    PROVE  IInv'
  <1> USE NoThreadAssumption
      DEF IInv, TypeOK, Unlock, Goto, Held,
          objvars, cdvars, callvars, Crit, Destroying, Pc
  <1>1. TypeOK'
    OBVIOUS
  <1>2. RefcExact'
    BY DEF RefcExact
  <1>3. Owner'
    BY DEF Owner
  <1>4. Alive'
    BY DEF Alive, Owner, RefcExact
  <1>5. Opening'
    BY DEF Opening, Owner
  <1>6. Teardown'
    BY DEF Teardown, Owner, Alive, Opening
  <1>7. LockOwner'
    BY DEF LockOwner, Owner, Alive, Teardown
  <1>8. Isolation' /\ Progress' /\ ConvCorrect'
    BY DEF Isolation, Progress, ConvCorrect, LockOwner, Owner, Alive, Opening, Teardown
  <1>9. QED
    BY <1>1, <1>2, <1>3, <1>4, <1>5, <1>6, <1>7, <1>8

\* A conversion is asked for.
LEMMA ConvTextStep ==
    ASSUME IInv, NEW t \in Thread, NEW h \in Handle, NEW s \in Input, NEW n \in Room, ConvText(t, h, s, n)
    PROVE  IInv'
  <1> USE NoThreadAssumption
      DEF IInv, TypeOK, ConvText, Goto, Held,
          objvars, cdvars, callvars, Crit, Destroying, Pc
  <1>1. TypeOK'
    BY InputAssumption, RoomAssumption, SMTT(30)
  <1>2. RefcExact'
    BY DEF RefcExact
  <1>3. Owner'
    BY DEF Owner
  <1>4. Alive'
    BY DEF Alive, Owner, RefcExact
  <1>5. Opening'
    BY DEF Opening, Owner
  <1>6. Teardown'
    BY DEF Teardown, Owner, Alive, Opening
  <1>7. LockOwner'
    BY DEF LockOwner, Owner, Alive, Teardown
  <1>8. Isolation' /\ Progress' /\ ConvCorrect'
    BY DEF Isolation, Progress, ConvCorrect, LockOwner, Owner, Alive, Opening, Teardown
  <1>9. QED
    BY <1>1, <1>2, <1>3, <1>4, <1>5, <1>6, <1>7, <1>8

\* A conversion starts from the initial state with nothing written.
LEMMA ConvResetStep ==
    ASSUME IInv, NEW t \in Thread, ConvReset(t)
    PROVE  IInv'
  <1> USE NoThreadAssumption
      DEF IInv, TypeOK, ConvReset, Goto, Held,
          objvars, cdvars, callvars, Crit, Destroying, Pc
  <1>1. TypeOK'
    OBVIOUS
  <1>2. RefcExact'
    BY DEF RefcExact
  <1>3. Owner'
    BY DEF Owner
  <1>4. Alive'
    BY DEF Alive, Owner, RefcExact
  <1>5. Opening'
    BY DEF Opening, Owner
  <1>6. Teardown'
    BY DEF Teardown, Owner, Alive, Opening
  <1>7. LockOwner'
    BY DEF LockOwner, Owner, Alive, Teardown
  <1>8. Isolation' /\ Progress' /\ ConvCorrect'
    BY ConvEmpty
    DEF Isolation, Progress, ConvCorrect, LockOwner
  <1>9. QED
    BY <1>1, <1>2, <1>3, <1>4, <1>5, <1>6, <1>7, <1>8

\* A conversion that cannot reset the descriptor has written nothing.
LEMMA ConvResetFailStep ==
    ASSUME IInv, NEW t \in Thread, ConvResetFail(t)
    PROVE  IInv'
  <1> USE NoThreadAssumption
      DEF IInv, TypeOK, ConvResetFail, Goto, Held,
          objvars, cdvars, callvars, Crit, Destroying, Pc
  <1>1. TypeOK'
    BY SMTT(30) DEF CONVD_ERR_ICONV
  <1>2. RefcExact'
    BY DEF RefcExact
  <1>3. Owner'
    BY DEF Owner
  <1>4. Alive'
    BY DEF Alive, Owner, RefcExact
  <1>5. Opening'
    BY DEF Opening, Owner
  <1>6. Teardown'
    BY DEF Teardown, Owner, Alive, Opening
  <1>7. LockOwner'
    BY DEF LockOwner, Owner, Alive, Teardown
  <1>8. Isolation' /\ Progress' /\ ConvCorrect'
    BY ConvEmpty
    DEF Isolation, Progress, ConvCorrect, LockOwner
  <1>9. QED
    BY <1>1, <1>2, <1>3, <1>4, <1>5, <1>6, <1>7, <1>8

\* iconv consumes one unit and writes its image.
LEMMA IconvUnitStep ==
    ASSUME IInv, NEW t \in Thread, IconvUnit(t)
    PROVE  IInv'
  <1> USE NoThreadAssumption
      DEF IInv, TypeOK, IconvUnit, Goto, Held,
          objvars, cdvars, callvars, Crit, Destroying, Pc
  <1> DEFINE s == input[t]
             n == Len(out[t])
             T == Mode \X Seq(Unit) \X Unit
             x == <<mode, fed, s[n + 1]>>
  <1>1. s \in Seq(Unit) /\ n \in Nat /\ n < Len(s) /\ out[t] \in Seq(T)
    BY LenProperties
  <1>2. fed = SubSeq(s, 1, n) /\ out[t] = Conv(mode, s, n) /\ n < room[t]
    BY DEF Isolation, Progress
  <1>3. s[n + 1] \in Unit /\ Append(fed, s[n + 1]) = SubSeq(s, 1, n + 1)
    BY <1>1, <1>2, PrefixGrows
  <1>4. Append(out[t], x) = Conv(mode, s, n + 1)
    <2>1. Append(Conv(mode, s, n), <<mode, SubSeq(s, 1, n), s[n + 1]>>)
              = Conv(mode, s, n + 1)
      BY <1>1, ConvGrows
    <2>2. QED
      BY <1>2, <2>1
  <1>5. /\ Append(out[t], x) \in Seq(T)
        /\ Len(Append(out[t], x)) = n + 1
        /\ Append(fed, s[n + 1]) \in Seq(Unit)
    BY <1>1, <1>3, AppendProperties
  <1>6. TypeOK'
    BY <1>3, <1>5
  <1>7. RefcExact'
    BY DEF RefcExact
  <1>8. Owner'
    BY DEF Owner
  <1>9. Alive'
    BY DEF Alive, Owner, RefcExact
  <1>10. Opening'
    BY DEF Opening, Owner
  <1>11. Teardown'
    BY DEF Teardown, Owner, Alive, Opening
  <1>12. LockOwner'
    BY DEF LockOwner, Owner, Alive, Teardown
  <1>13. Isolation' /\ Progress' /\ ConvCorrect'
    <2>1. \A u \in Thread \ {t} : pc[u] \notin {"reset", "iconv"}
      BY DEF LockOwner
    <2>2. /\ out'[t] = Conv(mode, s, n + 1)
          /\ Len(out'[t]) = n + 1
          /\ fed' = SubSeq(s, 1, n + 1)
      BY <1>3, <1>4, <1>5
    <2>3. \A i \in 1..n + 1 : Conv(mode, s, n + 1)[i][1] = mode
      BY DEF Conv
    <2>4. n + 1 <= Len(s) /\ n + 1 <= room[t]
      BY <1>1, <1>2, LenProperties
    <2>5. QED
      BY <2>1, <2>2, <2>3, <2>4, ZenonT(60) DEF Isolation, Progress, ConvCorrect
  <1>14. QED
    BY <1>1, <1>2, <1>3, <1>4, <1>5, <1>6, <1>7, <1>8, <1>9, <1>10, <1>11, <1>12, <1>13

\* iconv fails and leaves a part of the conversion.
LEMMA IconvFailStep ==
    ASSUME IInv, NEW t \in Thread, IconvFail(t)
    PROVE  IInv'
  <1> USE NoThreadAssumption
      DEF IInv, TypeOK, IconvFail, Goto, Held,
          objvars, cdvars, callvars, Crit, Destroying, Pc
  <1>1. TypeOK'
    BY DEF CONVD_ERR_ICONV
  <1>2. RefcExact'
    BY DEF RefcExact
  <1>3. Owner'
    BY DEF Owner
  <1>4. Alive'
    BY DEF Alive, Owner, RefcExact
  <1>5. Opening'
    BY DEF Opening, Owner
  <1>6. Teardown'
    BY DEF Teardown, Owner, Alive, Opening
  <1>7. LockOwner'
    BY DEF LockOwner, Owner, Alive, Teardown
  <1>8. Isolation' /\ Progress' /\ ConvCorrect'
    BY DEF Isolation, Progress, ConvCorrect, LockOwner, Owner, Alive, Opening, Teardown
  <1>9. QED
    BY <1>1, <1>2, <1>3, <1>4, <1>5, <1>6, <1>7, <1>8

\* iconv has consumed all of the text.
LEMMA IconvDoneStep ==
    ASSUME IInv, NEW t \in Thread, IconvDone(t)
    PROVE  IInv'
  <1> USE NoThreadAssumption
      DEF IInv, TypeOK, IconvDone, Goto, Held,
          objvars, cdvars, callvars, Crit, Destroying, Pc
  <1>1. TypeOK'
    OBVIOUS
  <1>2. RefcExact'
    BY DEF RefcExact
  <1>3. Owner'
    BY DEF Owner
  <1>4. Alive'
    BY DEF Alive, Owner, RefcExact
  <1>5. Opening'
    BY DEF Opening, Owner
  <1>6. Teardown'
    BY DEF Teardown, Owner, Alive, Opening
  <1>7. LockOwner'
    BY DEF LockOwner, Owner, Alive, Teardown
  <1>8. Isolation' /\ Progress' /\ ConvCorrect'
    BY DEF Isolation, Progress, ConvCorrect, LockOwner, Owner, Alive, Opening, Teardown
  <1>9. QED
    BY <1>1, <1>2, <1>3, <1>4, <1>5, <1>6, <1>7, <1>8

\* A change of settings is asked for.
LEMMA ConfigStep ==
    ASSUME IInv, NEW t \in Thread, NEW h \in Handle, Config(t, h)
    PROVE  IInv'
  <1> USE NoThreadAssumption
      DEF IInv, TypeOK, Config, Goto, Held,
          objvars, cdvars, callvars, Crit, Destroying, Pc
  <1>1. TypeOK'
    OBVIOUS
  <1>2. RefcExact'
    BY DEF RefcExact
  <1>3. Owner'
    BY DEF Owner
  <1>4. Alive'
    BY DEF Alive, Owner, RefcExact
  <1>5. Opening'
    BY DEF Opening, Owner
  <1>6. Teardown'
    BY DEF Teardown, Owner, Alive, Opening
  <1>7. LockOwner'
    BY DEF LockOwner, Owner, Alive, Teardown
  <1>8. Isolation' /\ Progress' /\ ConvCorrect'
    <2>1. Isolation'
      BY DEF Isolation, LockOwner, Owner
    <2>2. Progress'
      BY DEF Progress, LockOwner, Owner
    <2>3. ConvCorrect'
      BY DEF ConvCorrect
    <2>4. QED
      BY <2>1, <2>2, <2>3
  <1>9. QED
    BY <1>1, <1>2, <1>3, <1>4, <1>5, <1>6, <1>7, <1>8

\* The settings change while nobody is converting.
LEMMA CtlStep ==
    ASSUME IInv, NEW t \in Thread, Ctl(t)
    PROVE  IInv'
  <1> USE NoThreadAssumption
      DEF IInv, TypeOK, Ctl, Goto, Held,
          objvars, cdvars, callvars, Crit, Destroying, Pc
  <1>1. TypeOK'
    BY SMTT(30)
  <1>2. RefcExact'
    BY DEF RefcExact
  <1>3. Owner'
    BY DEF Owner
  <1>4. Alive'
    BY DEF Alive, Owner, RefcExact
  <1>5. Opening'
    BY DEF Opening, Owner
  <1>6. Teardown'
    BY DEF Teardown, Owner, Alive, Opening
  <1>7. LockOwner'
    BY DEF LockOwner, Owner, Alive, Teardown
  <1>8. Isolation' /\ Progress' /\ ConvCorrect'
    BY DEF Isolation, Progress, ConvCorrect, LockOwner, Owner, Alive, Opening, Teardown
  <1>9. QED
    BY <1>1, <1>2, <1>3, <1>4, <1>5, <1>6, <1>7, <1>8
-----------------------------------------------------------------------------
(***************************************************************************)
(* Safety                                                                  *)
(***************************************************************************)

\* The invariant holds before anything is created.
LEMMA InitIInv == Init => IInv
  <1> SUFFICES ASSUME Init PROVE IInv
    OBVIOUS
  <1> USE NoThreadAssumption DEF Init
  <1>1. Held = {}
    BY DEF Held
  <1>2. TypeOK
    <2>1. arg \in [Thread -> Handle]
      OBVIOUS
    <2>2. /\ fed \in Seq(Unit)
          /\ input \in [Thread -> Seq(Unit)]
          /\ out \in [Thread -> Seq(Mode \X Seq(Unit) \X Unit)]
      BY EmptySeq
    <2>3. /\ job \in [Thread -> {"none", "conv", "config"}]
          /\ room \in [Thread -> Nat]
          /\ ret \in [Thread -> Int]
          /\ pc \in [Thread -> Pc]
      BY DEF Pc
    <2>4. /\ mem \in {"none", "live", "freed"}
          /\ refc \in Nat
          /\ lockup \in BOOLEAN
          /\ rwlock \in Thread \cup {NoThread}
          /\ cd \in {"invalid", "open", "closed"}
          /\ mode \in Mode
          /\ holder \in [Handle -> Thread \cup {NoThread}]
      OBVIOUS
    <2>5. QED
      BY <2>1, <2>2, <2>3, <2>4 DEF TypeOK
  <1>3. RefcExact
    BY <1>1, FS_EmptySet DEF RefcExact
  <1>4. Owner /\ Alive /\ Opening /\ Teardown /\ LockOwner
    BY <1>1 DEF Owner, Alive, Opening, Teardown, LockOwner, Crit, Destroying
  <1>5. Isolation /\ Progress /\ ConvCorrect
    BY DEF Isolation, Progress, ConvCorrect
  <1>6. QED
    BY <1>2, <1>3, <1>4, <1>5 DEF IInv

\* Every step preserves it.
LEMMA NextIInv == IInv /\ [Next]_vars => IInv'
  <1> SUFFICES ASSUME IInv, [Next]_vars PROVE IInv'
    OBVIOUS
  <1>1. ASSUME NEW t \in Thread, Call(t) PROVE IInv'
    BY <1>1, CreateStep, RetainStep, HandoffStep, ReleaseStep, ConvTextStep,
       ConfigStep DEF Call
  <1>2. ASSUME NEW t \in Thread, Step(t) PROVE IInv'
    BY <1>2, CreateFailStep, CreateOpenStep, DecSubStep, FinalStep, UninitStep,
       FreeStep, LockStep, UnlockStep, ConvResetStep, ConvResetFailStep,
       IconvUnitStep, IconvFailStep, IconvDoneStep, CtlStep DEF Step
  <1>3. ASSUME UNCHANGED vars PROVE IInv'
    BY <1>3, ZenonT(60) DEF vars, objvars, cdvars, callvars, IInv, TypeOK, RefcExact, Held,
       Owner, Alive, Opening, Teardown, LockOwner, Isolation, Progress,
       ConvCorrect
  <1>4. QED
    BY <1>1, <1>2, <1>3 DEF Next

\* Every reachable state satisfies the inductive invariant.
THEOREM Invariance == Spec => []IInv
  BY InitIInv, NextIInv, PTL DEF Spec

\* Every variable keeps its type; the reference count never underflows.
THEOREM TypeCorrect == Spec => []TypeOK
  <1>1. IInv => TypeOK
    BY DEF IInv
  <1>2. QED
    BY <1>1, Invariance, PTL

\* The reference count is the number of references held.
THEOREM RefcCorrect == Spec => []RefcExact
  <1>1. IInv => RefcExact
    BY DEF IInv
  <1>2. QED
    BY <1>1, Invariance, PTL

\* No call works on freed memory, a destroyed lock or a closed descriptor.
THEOREM MemorySafe == Spec => []NoUseAfterFree
  <1>1. IInv => NoUseAfterFree
    <2> SUFFICES ASSUME IInv PROVE NoUseAfterFree
      OBVIOUS
    <2> USE NoThreadAssumption DEF IInv, TypeOK, Pc, Held, Crit, Destroying
    <2>1. ASSUME NEW t \in Thread, pc[t] # "idle"
          PROVE  mem = "live"
      <3>1. CASE pc[t] \in Destroying
        BY <3>1 DEF Teardown
      <3>2. CASE pc[t] \notin Destroying
        <4>1. holder[arg[t]] = t /\ arg[t] \in Handle
          BY <2>1, <3>2 DEF Owner
        <4>2. arg[t] \in Held
          BY <4>1
        <4>3. QED
          BY <4>2 DEF Alive
      <3>3. QED
        BY <3>1, <3>2
    <2>2. ASSUME NEW t \in Thread, pc[t] \in Crit \cup {"lock"}
          PROVE  lockup /\ cd = "open"
      <3>1. holder[arg[t]] = t /\ arg[t] \in Handle /\ arg[t] \in Held
        BY <2>2 DEF Owner
      <3>2. lockup
        BY <3>1 DEF Alive
      <3>3. ASSUME NEW u \in Thread, pc[u] \in {"open", "dec"},
                   Held = {arg[u]}
            PROVE  FALSE
        BY <2>2, <3>1, <3>3 DEF Owner
      <3>4. QED
        BY <3>1, <3>2, <3>3 DEF Opening
    <2>3. QED
      BY <2>1, <2>2 DEF NoUseAfterFree, Alive
  <1>2. QED
    BY <1>1, Invariance, PTL

\* One thread destroys the object, once, when nobody can reach it any more.
THEOREM DestructionSafe == Spec => []DestroyedOnce
  <1>1. IInv => DestroyedOnce
    BY NoThreadAssumption
    DEF IInv, TypeOK, DestroyedOnce, Teardown, LockOwner, Crit, Destroying
  <1>2. QED
    BY <1>1, Invariance, PTL

\* The iconv descriptor is closed only if it was opened, once nobody has it.
THEOREM CdSafe == Spec => CdLifecycle
  <1> DEFINE A == cd' # cd =>
                   \/ cd = "invalid" /\ cd' = "open" /\ \E h \in Handle : Held = {h}
                   \/ cd = "open" /\ cd' = "closed" /\ Held = {} /\ rwlock = NoThread
                   \/ cd' = "invalid" /\ mem # "live"
  <1>1. IInv /\ [Next]_vars => [A]_vars
    <2> SUFFICES ASSUME IInv, Next PROVE A
      OBVIOUS
    <2>1. PICK t \in Thread : Call(t) \/ Step(t)
      BY DEF Next
    <2>2. \A h \in Handle, m \in Mode : Create(t, h, m) => A
      BY DEF Create, refc_object_new
    <2>3. CreateOpen(t) => A
      BY DEF CreateOpen, Goto, IInv, TypeOK, Opening
    <2>4. Final(t) => A
      <3> SUFFICES ASSUME Final(t), cd' # cd PROVE A
        OBVIOUS
      <3>1. pc[t] = "final" /\ cd # "invalid" /\ cd' = "closed"
        BY DEF Final, Goto
      <3>2. Held = {} /\ cd = "open" /\ \A u \in Thread \ {t} : pc[u] = "idle"
        BY <3>1 DEF IInv, TypeOK, Teardown, Destroying
      <3>3. rwlock = NoThread
        BY <3>1, <3>2 DEF IInv, TypeOK, LockOwner, Crit
      <3>4. QED
        BY <3>1, <3>2, <3>3
    <2>5. Call(t) => A
      BY <2>2 DEF Call, Retain, Handoff, Release, ConvText, Config, cdvars
    <2>6. Step(t) => A
      BY <2>3, <2>4 DEF Step, CreateFail, DecSub, Uninit, Free, Lock, Unlock, ConvReset,
         ConvResetFail, IconvUnit, IconvFail, IconvDone, Ctl, cdvars
    <2>7. QED
      BY <2>1, <2>5, <2>6
  <1>2. QED
    BY <1>1, Invariance, PTL DEF Spec, CdLifecycle

\* A conversion under way is not disturbed by any other thread.
THEOREM ConversionIsolated == Spec => []Isolation
  <1>1. IInv => Isolation
    BY DEF IInv
  <1>2. QED
    BY <1>1, Invariance, PTL

\* A conversion that reports success wrote all of its text, and only that.
THEOREM ConversionCorrect == Spec => []ConvCorrect
  <1>1. IInv => ConvCorrect
    BY DEF IInv
  <1>2. QED
    BY <1>1, Invariance, PTL
-----------------------------------------------------------------------------
(***************************************************************************)
(* Proof that Convd implements ConvdAbs: every initial state maps to an    *)
(* initial state, and every step to a step of the abstract descriptor or   *)
(* to none.  The calls that matter are the steps that decide a result:     *)
(* they are the instants at which a conversion or a change of settings     *)
(* takes effect.                                                           *)
(***************************************************************************)

\* A step of t leaves the calls of the other threads alone.
OnlyCall(t) ==
    \A u \in Thread \ {t} :
        pc'[u] = pc[u] /\ job'[u] = job[u] /\ out'[u] = out[u] /\ ret'[u] = ret[u]

\* Then the abstract view changes at t only.
LEMMA OnlyCallAbs ==
    ASSUME NEW t \in Thread, OnlyCall(t)
    PROVE  /\ AbsCall' = [AbsCall EXCEPT ![t] = AbsCall'[t]]
           /\ AbsResult' = [AbsResult EXCEPT ![t] = AbsResult'[t]]
  <1>1. /\ AbsCall = [u \in Thread |-> AbsCall[u]]
        /\ AbsCall' = [u \in Thread |-> AbsCall'[u]]
        /\ AbsResult = [u \in Thread |-> AbsResult[u]]
        /\ AbsResult' = [u \in Thread |-> AbsResult'[u]]
    BY Zenon DEF AbsCall, AbsResult
  <1>2. \A u \in Thread \ {t} : AbsCall'[u] = AbsCall[u] /\ AbsResult'[u] = AbsResult[u]
    BY DEF OnlyCall, AbsCall, AbsResult
  <1>3. QED
    BY <1>1, <1>2

-----------------------------------------------------------------------------
\* The effect of a step of t that leaves its call where it was: none.
LEMMA AbsStutter ==
    ASSUME NEW t \in Thread, OnlyCall(t),
           AbsCall'[t] = AbsCall[t], AbsResult'[t] = AbsResult[t],
           UNCHANGED <<holder, mode, input, room>>
    PROVE  UNCHANGED Abs!vars
  <1>1. AbsCall' = AbsCall /\ AbsResult' = AbsResult
    <2>1. /\ AbsCall = [u \in Thread |-> AbsCall[u]]
          /\ AbsCall' = [u \in Thread |-> AbsCall'[u]]
          /\ AbsResult = [u \in Thread |-> AbsResult[u]]
          /\ AbsResult' = [u \in Thread |-> AbsResult'[u]]
      BY Zenon DEF AbsCall, AbsResult
    <2>2. \A u \in Thread : AbsCall'[u] = AbsCall[u] /\ AbsResult'[u] = AbsResult[u]
      BY DEF OnlyCall, AbsCall, AbsResult
    <2>3. QED
      BY <2>1, <2>2
  <1>2. QED
    BY <1>1 DEF Abs!vars

\* A thread's own moves, one lemma per kind of step.
LEMMA QuietStep ==
    ASSUME IInv, NEW t \in Thread,
           \/ CreateFail(t) \/ CreateOpen(t) \/ Final(t) \/ Uninit(t) \/ Free(t)
           \/ Lock(t) \/ ConvReset(t) \/ IconvUnit(t)
           \/ \E h \in Handle : Release(t, h)
    PROVE  UNCHANGED Abs!vars
  <1> USE DEF IInv, TypeOK, Goto, objvars, cdvars, callvars
  <1>1. OnlyCall(t) /\ UNCHANGED <<holder, mode, input, room>>
    BY DEF OnlyCall, CreateFail, CreateOpen, Final, Uninit, Free, Lock, ConvReset,
       IconvUnit, Release
  <1>2. AbsCall'[t] = AbsCall[t] /\ AbsResult'[t] = AbsResult[t]
    <2>1. CASE pc[t] \in {"idle", "open", "dec"} \cup Destroying
      <3>1. pc'[t] \in {"idle", "open", "dec"} \cup Destroying
        BY <2>1 DEF CreateFail, CreateOpen, Final, Uninit, Free, Lock, ConvReset,
           IconvUnit, Release, Destroying
      <3>2. QED
        BY <2>1, <3>1 DEF AbsCall, AbsResult, Destroying
    <2>2. CASE pc[t] \in {"lock", "reset", "iconv"}
      <3>1. pc'[t] \in {"reset", "iconv", "ctl"} /\ job'[t] = job[t]
        BY <2>2 DEF CreateFail, CreateOpen, Final, Uninit, Free, Lock, ConvReset,
           IconvUnit, Release
      <3>2. QED
        BY <2>2, <3>1 DEF AbsCall, AbsResult
    <2>3. QED
      BY <2>1, <2>2 DEF CreateFail, CreateOpen, Final, Uninit, Free, Lock,
         ConvReset, IconvUnit, Release, Destroying
  <1>3. QED
    BY <1>1, <1>2, AbsStutter

\* Creating an object is the abstract Create.
LEMMA CreateAbs ==
    ASSUME IInv, NEW t \in Thread, NEW h \in Handle, NEW m \in Mode, Create(t, h, m)
    PROVE  Abs!Create(t, h, m)
  <1> USE DEF IInv, TypeOK, Create, refc_object_new, Goto, callvars
  <1>1. AbsCall[t] = "none"
    BY DEF AbsCall
  <1>2. \A g \in Handle : holder[g] = NoThread
    BY DEF Alive, Held
  <1>3. AbsCall' = AbsCall /\ AbsResult' = AbsResult
    BY DEF AbsCall, AbsResult
  <1>4. QED
    BY <1>1, <1>2, <1>3 DEF Abs!Create

\* Retain, handing over and the decrement each move one reference.
LEMMA MoveAbs ==
    ASSUME IInv, NEW t \in Thread, NEW h \in Handle,
           NEW owner \in Thread \cup {NoThread},
           pc[t] \in {"idle", "dec"},
           \E g \in Handle : holder[g] = t,
           holder[h] \in {t, NoThread},
           holder' = [holder EXCEPT ![h] = owner],
           pc' \in {pc, [pc EXCEPT ![t] = "idle"], [pc EXCEPT ![t] = "final"]},
           UNCHANGED <<mode, callvars>>
    PROVE  Abs!Move(t, h, owner)
  <1> USE DEF IInv, TypeOK, callvars
  <1>1. AbsCall[t] = "none"
    BY DEF AbsCall
  <1>2. AbsCall' = AbsCall /\ AbsResult' = AbsResult
    BY DEF AbsCall, AbsResult
  <1>3. QED
    BY <1>1, <1>2 DEF Abs!Move

\* Entering convd_conv_text or convd_config makes a call pending.
LEMMA StartAbs ==
    ASSUME IInv, NEW t \in Thread, NEW h \in Handle
    PROVE  /\ \A s \in Input, n \in Room : ConvText(t, h, s, n) => Abs!StartConv(t, s, n)
           /\ Config(t, h) => Abs!StartConfig(t)
  <1> USE DEF IInv, TypeOK, Goto, objvars, cdvars
  <1>1. ASSUME NEW s \in Input, NEW n \in Room, ConvText(t, h, s, n)
        PROVE  Abs!StartConv(t, s, n)
    <2> USE <1>1 DEF ConvText
    <2>1. OnlyCall(t)
      BY DEF OnlyCall
    <2>2. AbsCall[t] = "none" /\ AbsCall'[t] = "conv" /\ AbsResult'[t] = <<0, << >>>>
      BY DEF AbsCall, AbsResult
    <2>3. QED
      BY <2>1, <2>2, OnlyCallAbs DEF Abs!StartConv, Abs!Become, Abs!Nothing
  <1>2. ASSUME Config(t, h)
        PROVE  Abs!StartConfig(t)
    <2> USE <1>2 DEF Config
    <2>1. OnlyCall(t)
      BY DEF OnlyCall
    <2>2. AbsCall[t] = "none" /\ AbsCall'[t] = "config" /\ AbsResult'[t] = <<0, << >>>>
      BY DEF AbsCall, AbsResult
    <2>3. QED
      BY <2>1, <2>2, OnlyCallAbs DEF Abs!StartConfig, Abs!Become, Abs!Nothing
  <1>3. QED
    BY <1>1, <1>2

\* The step that ends a conversion is the instant at which it happens.
LEMMA ConvertAbs ==
    ASSUME IInv, NEW t \in Thread,
           ConvResetFail(t) \/ IconvFail(t) \/ IconvDone(t)
    PROVE  Abs!Convert(t)
  <1> USE DEF IInv, TypeOK, Goto, objvars, cdvars
  <1> DEFINE s == input[t]
             n == Len(out[t])
             res == <<ret'[t], out[t]>>
  <1>1. OnlyCall(t) /\ UNCHANGED <<holder, mode, input, room>>
    BY DEF OnlyCall, ConvResetFail, IconvFail, IconvDone
  <1>2. AbsCall[t] = "conv" /\ AbsCall'[t] = "done" /\ AbsResult'[t] = res
    BY DEF Progress, AbsCall, AbsResult, ConvResetFail, IconvFail, IconvDone
  <1>3. s \in Seq(Unit) /\ n \in Nat /\ Len(s) \in Nat
    BY LenProperties
  <1>4. res \in Abs!ConvResults(mode, s, room[t]) /\ (res[1] >= 0 => Len(s) <= room[t])
    <2>1. CASE ConvResetFail(t)
      <3>1. out[t] = << >> /\ ret'[t] = -1
        BY <2>1 DEF ConvResetFail, Progress, CONVD_ERR_ICONV
      <3>2. res = <<-1, << >>>> /\ res[1] = -1
        BY <3>1
      <3>3. QED
        BY <3>2 DEF Abs!ConvResults
    <2>2. CASE IconvFail(t)
      <3>1. /\ out[t] = Conv(mode, s, n)
            /\ n <= room[t]
            /\ n < Len(s)
            /\ ret'[t] = -1
        BY <2>2 DEF IconvFail, Progress, CONVD_ERR_ICONV
      <3>2. n \in {k \in 0..Len(s) - 1 : k <= room[t]}
        BY <1>3, <3>1
      <3>3. res = <<-1, Abs!Conv(mode, s, n)>> /\ res[1] = -1
        BY <3>1 DEF Abs!Conv, Conv
      <3>4. QED
        BY <3>2, <3>3 DEF Abs!ConvResults
    <2>3. CASE IconvDone(t)
      <3>1. /\ out[t] = Conv(mode, s, Len(s))
            /\ Len(s) <= room[t]
            /\ ret'[t] = Len(s)
        BY <2>3 DEF IconvDone, Progress
      <3>2. QED
        BY <3>1 DEF Abs!ConvResults, Abs!Conv, Conv
    <2>4. QED
      BY <2>1, <2>2, <2>3
  <1>5. QED
    BY <1>1, <1>2, <1>4, OnlyCallAbs DEF Abs!Convert, Abs!Become

\* iconvctl is the instant at which the settings change.
LEMMA ConfigureAbs ==
    ASSUME IInv, NEW t \in Thread, Ctl(t)
    PROVE  Abs!Configure(t)
  <1> USE DEF IInv, TypeOK, Goto, objvars, Ctl
  <1>1. OnlyCall(t)
    BY DEF OnlyCall
  <1>2. /\ AbsCall[t] = "config"
        /\ AbsCall'[t] = "done"
        /\ AbsResult'[t] = <<ret'[t], << >>>>
    BY DEF Progress, AbsCall, AbsResult
  <1>3. QED
    BY <1>1, <1>2, OnlyCallAbs DEF Abs!Configure, Abs!Become

\* The unlock returns the result to the caller.
LEMMA ReturnAbs ==
    ASSUME IInv, NEW t \in Thread, Unlock(t)
    PROVE  Abs!Return(t)
  <1> USE DEF IInv, TypeOK, Goto, cdvars, Unlock
  <1>1. OnlyCall(t)
    BY DEF OnlyCall
  <1>2. AbsCall[t] = "done" /\ AbsCall'[t] = "none" /\ AbsResult'[t] = <<0, << >>>>
    BY DEF AbsCall, AbsResult
  <1>3. QED
    BY <1>1, <1>2, OnlyCallAbs DEF Abs!Return, Abs!Become, Abs!Nothing

-----------------------------------------------------------------------------
\* Initial states map to initial states.
LEMMA InitAbs == Init => Abs!Init
  BY DEF Init, Abs!Init, Abs!Nothing, AbsCall, AbsResult

\* Every step maps to a step of the abstract descriptor or to none.
LEMMA NextAbs == IInv /\ [Next]_vars => [Abs!Next]_Abs!vars
  <1> SUFFICES ASSUME IInv, [Next]_vars PROVE [Abs!Next]_Abs!vars
    OBVIOUS
  <1>1. ASSUME NEW t \in Thread, Call(t) PROVE [Abs!Next]_Abs!vars
    <2>1. ASSUME NEW h \in Handle, NEW m \in Mode, Create(t, h, m)
          PROVE  Abs!Next
      BY <2>1, CreateAbs DEF Abs!Next
    <2>2. ASSUME NEW h \in Handle, NEW g \in Handle, Retain(t, h, g)
          PROVE  Abs!Next
      <3>1. holder' = [holder EXCEPT ![g] = t]
        <4>1. Cardinality(Held) \in Nat
          BY <2>2, HandleAssumption, FS_Subset, FS_CardinalityType DEF Held
        <4>2. QED
          BY <2>2, <4>1 DEF Retain, IInv, RefcExact
      <3>2. Abs!Move(t, g, t)
        BY <2>2, <3>1, MoveAbs DEF Retain, cdvars
      <3>3. QED
        BY <3>2 DEF Abs!Next
    <2>3. ASSUME NEW u \in Thread, NEW h \in Handle, Handoff(t, u, h)
          PROVE  Abs!Next
      <3>1. Abs!Move(t, h, u)
        BY <2>3, MoveAbs DEF Handoff, cdvars
      <3>2. QED
        BY <3>1 DEF Abs!Next
    <2>4. ASSUME NEW h \in Handle, Release(t, h) PROVE UNCHANGED Abs!vars
      BY <2>4, QuietStep
    <2>5. ASSUME NEW h \in Handle, NEW s \in Input, NEW n \in Room,
                 ConvText(t, h, s, n)
          PROVE  Abs!Next
      BY <2>5, StartAbs DEF Abs!Next
    <2>6. ASSUME NEW h \in Handle, Config(t, h) PROVE Abs!Next
      BY <2>6, StartAbs DEF Abs!Next
    <2>7. QED
      BY <1>1, <2>1, <2>2, <2>3, <2>4, <2>5, <2>6 DEF Call
  <1>2. ASSUME NEW t \in Thread, Step(t) PROVE [Abs!Next]_Abs!vars
    <2>1. ASSUME DecSub(t) PROVE Abs!Next
      <3>1. holder[arg[t]] = t /\ arg[t] \in Handle
        BY <2>1 DEF DecSub, Goto, IInv, Owner, TypeOK
      <3>2. Abs!Move(t, arg[t], NoThread)
        BY <2>1, <3>1, MoveAbs DEF DecSub, Goto, cdvars
      <3>3. QED
        BY <3>1, <3>2 DEF Abs!Next
    <2>2. ASSUME Ctl(t) PROVE Abs!Next
      BY <2>2, ConfigureAbs DEF Abs!Next
    <2>3. ASSUME Unlock(t) PROVE Abs!Next
      BY <2>3, ReturnAbs DEF Abs!Next
    <2>4. ASSUME ConvResetFail(t) \/ IconvFail(t) \/ IconvDone(t) PROVE Abs!Next
      BY <2>4, ConvertAbs DEF Abs!Next
    <2>5. QED
      BY <1>2, <2>1, <2>2, <2>3, <2>4, QuietStep DEF Step
  <1>3. ASSUME UNCHANGED vars PROVE UNCHANGED Abs!vars
    BY <1>3 DEF vars, objvars, cdvars, callvars, Abs!vars, AbsCall, AbsResult
  <1>4. QED
    BY <1>1, <1>2, <1>3 DEF Next

\* convd.c, with its count, its lock and its calls of many steps, implements
\* the descriptor whose calls are atomic.
THEOREM Refinement == Spec => ImplementsAbs
  BY InitAbs, NextAbs, Invariance, PTL DEF Spec, ImplementsAbs, Abs!Spec
=============================================================================
