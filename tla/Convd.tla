-------------------------------- MODULE Convd --------------------------------
(***************************************************************************)
(* The conversion descriptor convd_t shared by threads: the reference      *)
(* counted object of refcobject.h, its write lock, the iconv descriptor    *)
(* inside it, and the calls convd_create, convd_retain, convd_release,     *)
(* convd_conv_text and convd_config of convd.c, step by step.              *)
(*                                                                         *)
(* The model follows one object at a time.  A handle is a client variable  *)
(* of type convd_t; holder[h] is the thread that owns the reference kept   *)
(* in h.  The client contract of convd_api.h is in the guards: a thread    *)
(* calls the library only on a handle it owns, and owns one handle per     *)
(* create or retain until it releases it or hands it to another thread.    *)
(*                                                                         *)
(* iconv itself is external.  Its conversion state is whatever it was fed  *)
(* since the last reset, so the state IS that sequence (fed), and what it  *)
(* writes for a unit is a function of the iconvctl settings, that state    *)
(* and the unit, so the output unit IS that triple.  This is the most      *)
(* general stateful encoding: a lost reset, a foreign unit or a change of  *)
(* settings in the middle of a conversion shows in the output.             *)
(***************************************************************************)
EXTENDS Integers, Sequences, FiniteSets

CONSTANTS
    Thread,     \* client threads
    Handle,     \* client variables of type convd_t
    Unit,       \* units of text that iconv consumes
    Mode,       \* settings of the iconv descriptor (suffix, iconvctl)
    Input,      \* the texts clients convert
    Room,       \* the sizes of the output buffers they pass
    NoThread    \* "nobody"

ASSUME HandleAssumption == IsFiniteSet(Handle)
ASSUME NoThreadAssumption == NoThread \notin Thread
ASSUME InputAssumption == Input \subseteq Seq(Unit)
ASSUME RoomAssumption == Room \subseteq Nat

VARIABLES
    mem,        \* the block of refc_object_new: "none", "live" or "freed"
    refc,       \* refc_object_t.__refc
    lockup,     \* __rwlock is initialised and not yet destroyed
    rwlock,     \* the thread that holds __rwlock for writing, or NoThread
    cd,         \* cvd->cd: "invalid" (CONVD_ERROR_ICONV), "open" or "closed"
    mode,       \* settings of cd
    fed,        \* what cd consumed since its last reset
    holder,     \* [Handle -> Thread or NoThread]
    pc,         \* where each thread is
    arg,        \* the handle each thread passed to its current call
    job,        \* the call each thread is in, or "none"
    input,      \* convd_conv_text: the text
    room,       \* convd_conv_text: output->blen at entry
    out,        \* convd_conv_text: what was written to output->bufp
    ret         \* the value the call returns

objvars  == <<mem, refc, lockup, rwlock>>
cdvars   == <<cd, mode, fed>>
callvars == <<job, input, room, out, ret>>
vars     == <<objvars, cdvars, holder, pc, arg, callvars>>

CONVD_ERR_ICONV == -1

Held == {h \in Handle : holder[h] # NoThread}

Goto(t, from, to) == pc[t] = from /\ pc' = [pc EXCEPT ![t] = to]

-----------------------------------------------------------------------------
(***************************************************************************)
(* Faulty variants of the operations below, each with a mistake that the   *)
(* code could plausibly hold.  No specification uses them; they show that  *)
(* the properties at the end of the module can fail.                       *)
(***************************************************************************)

\* refc_object_inc that returns the object but does not count.
RetainUncounted(t, h, g) ==
    /\ pc[t] = "idle"
    /\ holder[h] = t
    /\ holder[g] = NoThread
    /\ holder' = [holder EXCEPT ![g] = t]
    /\ UNCHANGED <<objvars, cdvars, pc, arg, callvars>>

\* refc_object_dec with the decrement and the test as parameters.
DecSubBy(t, n, last) ==
    /\ Goto(t, "dec", IF last THEN "final" ELSE "idle")
    /\ refc' = refc - n
    /\ holder' = [holder EXCEPT ![arg[t]] = NoThread]
    /\ UNCHANGED <<mem, lockup, rwlock, cdvars, arg, callvars>>

DecSubTwice(t) == DecSubBy(t, 2, refc - 2 <= 0)
DecSubEarly(t) == DecSubBy(t, 1, refc - 1 <= 1)
DecSubNever(t) == DecSubBy(t, 1, refc - 1 < 0)

\* convd_cleanup_cb that takes an open descriptor for an invalid one.
FinalNoClose(t) ==
    /\ Goto(t, "final", "uninit")
    /\ UNCHANGED <<objvars, cdvars, holder, arg, callvars>>

\* convd_cleanup_cb that closes whatever cd holds.
FinalCloseAny(t) ==
    /\ Goto(t, "final", "uninit")
    /\ cd' = "closed"
    /\ UNCHANGED <<objvars, mode, fed, holder, arg, callvars>>

\* A read lock where the write lock is needed: writers do not wait.
LockShared(t) ==
    /\ Goto(t, "lock", IF job[t] = "conv" THEN "reset" ELSE "ctl")
    /\ rwlock' = t
    /\ UNCHANGED <<mem, refc, lockup, cdvars, holder, arg, callvars>>

\* convd_conv_text that relies on the state the last conversion left.
ConvNoReset(t) ==
    /\ Goto(t, "reset", "iconv")
    /\ UNCHANGED <<objvars, cdvars, holder, arg, callvars>>

\* An early return of convd_conv_text that forgets refc_object_unlock.
ConvResetFailKeepsLock(t) ==
    /\ Goto(t, "reset", "idle")
    /\ UNCHANGED <<objvars, cdvars, holder, arg, callvars>>

\* convd_config that calls iconvctl without the lock.
ConfigUnlocked(t, h) ==
    /\ holder[h] = t
    /\ Goto(t, "idle", "ctl")
    /\ arg' = [arg EXCEPT ![t] = h]
    /\ job' = [job EXCEPT ![t] = "config"]
    /\ UNCHANGED <<objvars, cdvars, holder, input, room, out, ret>>

-----------------------------------------------------------------------------
(***************************************************************************)
(* convd_create.  A bad fromcode or tocode returns before anything is      *)
(* allocated and changes nothing.                                          *)
(***************************************************************************)

\* refc_object_new: a zeroed block, count 1, lock initialised, cd invalid.
refc_object_new(t, h) ==
    /\ mem' = "live"
    /\ refc' = 1
    /\ lockup' = TRUE
    /\ rwlock' = NoThread
    /\ cd' = "invalid"
    /\ holder' = [holder EXCEPT ![h] = t]
    /\ arg' = [arg EXCEPT ![t] = h]

Create(t, h, m) ==
    /\ mem # "live"
    /\ holder[h] = NoThread
    /\ Goto(t, "idle", "open")
    /\ refc_object_new(t, h)
    /\ mode' = m
    /\ UNCHANGED <<fed, callvars>>

\* An unknown suffix, or iconv_open failing: the count is dropped again.
CreateFail(t) ==
    /\ Goto(t, "open", "dec")
    /\ UNCHANGED <<objvars, cdvars, holder, arg, callvars>>

CreateOpen(t) ==
    /\ Goto(t, "open", "idle")
    /\ cd' = "open"
    /\ fed' = << >>
    /\ UNCHANGED <<objvars, mode, holder, arg, callvars>>

-----------------------------------------------------------------------------
(***************************************************************************)
(* convd_retain, convd_release                                             *)
(***************************************************************************)

\* refc_object_inc: one atomic add; the new reference goes to handle g.
Retain(t, h, g) ==
    /\ pc[t] = "idle"
    /\ holder[h] = t
    /\ holder[g] = NoThread
    /\ refc' = refc + 1
    /\ holder' = IF refc + 1 > 0 THEN [holder EXCEPT ![g] = t] ELSE holder
    /\ UNCHANGED <<mem, lockup, rwlock, cdvars, pc, arg, callvars>>

\* The client passes its reference to another thread.
Handoff(t, u, h) ==
    /\ pc[t] = "idle"
    /\ holder[h] = t
    /\ holder' = [holder EXCEPT ![h] = u]
    /\ UNCHANGED <<objvars, cdvars, pc, arg, callvars>>

Release(t, h) ==
    /\ holder[h] = t
    /\ Goto(t, "idle", "dec")
    /\ arg' = [arg EXCEPT ![t] = h]
    /\ UNCHANGED <<objvars, cdvars, holder, callvars>>

\* refc_object_dec: the atomic decrement decides who destroys the object.
DecSub(t) ==
    /\ Goto(t, "dec", IF refc - 1 <= 0 THEN "final" ELSE "idle")
    /\ refc' = refc - 1
    /\ holder' = [holder EXCEPT ![arg[t]] = NoThread]
    /\ UNCHANGED <<mem, lockup, rwlock, cdvars, arg, callvars>>

\* p->__final: convd_cleanup_cb closes cd unless iconv_open never succeeded.
Final(t) ==
    /\ Goto(t, "final", "uninit")
    /\ cd' = IF cd # "invalid" THEN "closed" ELSE cd
    /\ UNCHANGED <<objvars, mode, fed, holder, arg, callvars>>

Uninit(t) ==
    /\ Goto(t, "uninit", "free")
    /\ lockup' = FALSE
    /\ UNCHANGED <<mem, refc, rwlock, cdvars, holder, arg, callvars>>

Free(t) ==
    /\ Goto(t, "free", "idle")
    /\ mem' = "freed"
    /\ UNCHANGED <<refc, lockup, rwlock, cdvars, holder, arg, callvars>>

-----------------------------------------------------------------------------
(***************************************************************************)
(* The write lock: refc_object_lock(cvd, 0) and refc_object_unlock(cvd).   *)
(***************************************************************************)

Lock(t) ==
    /\ rwlock = NoThread
    /\ Goto(t, "lock", IF job[t] = "conv" THEN "reset" ELSE "ctl")
    /\ rwlock' = t
    /\ UNCHANGED <<mem, refc, lockup, cdvars, holder, arg, callvars>>

\* The call returns and its locals are gone.
Unlock(t) ==
    /\ Goto(t, "unlock", "idle")
    /\ rwlock' = NoThread
    /\ job' = [job EXCEPT ![t] = "none"]
    /\ input' = [input EXCEPT ![t] = << >>]
    /\ room' = [room EXCEPT ![t] = 0]
    /\ out' = [out EXCEPT ![t] = << >>]
    /\ ret' = [ret EXCEPT ![t] = 0]
    /\ UNCHANGED <<mem, refc, lockup, cdvars, holder, arg>>

-----------------------------------------------------------------------------
(***************************************************************************)
(* convd_conv_text                                                         *)
(***************************************************************************)

ConvText(t, h, s, n) ==
    /\ holder[h] = t
    /\ Goto(t, "idle", "lock")
    /\ arg' = [arg EXCEPT ![t] = h]
    /\ job' = [job EXCEPT ![t] = "conv"]
    /\ input' = [input EXCEPT ![t] = s]
    /\ room' = [room EXCEPT ![t] = n]
    /\ out' = [out EXCEPT ![t] = << >>]
    /\ UNCHANGED <<objvars, cdvars, holder, ret>>

\* iconv(cd, NULL, NULL, NULL, NULL) puts cd in its initial state.
ConvReset(t) ==
    /\ Goto(t, "reset", "iconv")
    /\ fed' = << >>
    /\ UNCHANGED <<objvars, cd, mode, holder, arg, callvars>>

ConvResetFail(t) ==
    /\ Goto(t, "reset", "unlock")
    /\ ret' = [ret EXCEPT ![t] = CONVD_ERR_ICONV]
    /\ UNCHANGED <<objvars, cdvars, holder, arg, job, input, room, out>>

\* Inside iconv(): one unit is consumed and written.
IconvUnit(t) ==
    LET n == Len(out[t]) IN
    /\ pc[t] = "iconv"
    /\ n < Len(input[t])
    /\ n < room[t]
    /\ out' = [out EXCEPT ![t] = Append(@, <<mode, fed, input[t][n + 1]>>)]
    /\ fed' = Append(fed, input[t][n + 1])
    /\ UNCHANGED <<objvars, cd, mode, holder, pc, arg, job, input, room, ret>>

\* iconv() returns -1 (EILSEQ, EINVAL, or E2BIG, which a full buffer forces).
IconvFail(t) ==
    /\ Len(out[t]) < Len(input[t])
    /\ Goto(t, "iconv", "unlock")
    /\ ret' = [ret EXCEPT ![t] = CONVD_ERR_ICONV]
    /\ UNCHANGED <<objvars, cdvars, holder, arg, job, input, room, out>>

\* iconv() returns with input->blen = 0: the result is outlen - output->blen.
IconvDone(t) ==
    /\ Len(out[t]) = Len(input[t])
    /\ Goto(t, "iconv", "unlock")
    /\ ret' = [ret EXCEPT ![t] = Len(out[t])]
    /\ UNCHANGED <<objvars, cdvars, holder, arg, job, input, room, out>>

-----------------------------------------------------------------------------
(***************************************************************************)
(* convd_config, in the builds that have iconvctl (the others return -1    *)
(* and touch nothing).                                                     *)
(***************************************************************************)

Config(t, h) ==
    /\ holder[h] = t
    /\ Goto(t, "idle", "lock")
    /\ arg' = [arg EXCEPT ![t] = h]
    /\ job' = [job EXCEPT ![t] = "config"]
    /\ UNCHANGED <<objvars, cdvars, holder, input, room, out, ret>>

\* iconvctl makes the settings what was asked for, or refuses.
Ctl(t) ==
    /\ Goto(t, "ctl", "unlock")
    /\ \/ mode' \in Mode /\ ret' = [ret EXCEPT ![t] = 0]
       \/ mode' = mode /\ ret' = [ret EXCEPT ![t] = -1]
    /\ UNCHANGED <<objvars, cd, fed, holder, arg, job, input, room, out>>

-----------------------------------------------------------------------------
Init ==
    /\ mem = "none"
    /\ refc = 0
    /\ lockup = FALSE
    /\ rwlock = NoThread
    /\ cd = "invalid"
    /\ mode \in Mode
    /\ fed = << >>
    /\ holder = [h \in Handle |-> NoThread]
    /\ pc = [t \in Thread |-> "idle"]
    /\ arg \in {[t \in Thread |-> h] : h \in Handle}
    /\ job = [t \in Thread |-> "none"]
    /\ input = [t \in Thread |-> << >>]
    /\ room = [t \in Thread |-> 0]
    /\ out = [t \in Thread |-> << >>]
    /\ ret = [t \in Thread |-> 0]

\* The steps a thread takes inside a call, once it has made it.
Step(t) ==
    \/ CreateFail(t) \/ CreateOpen(t)
    \/ DecSub(t) \/ Final(t) \/ Uninit(t) \/ Free(t)
    \/ Lock(t) \/ Unlock(t)
    \/ ConvReset(t) \/ ConvResetFail(t)
    \/ IconvUnit(t) \/ IconvFail(t) \/ IconvDone(t)
    \/ Ctl(t)

\* The calls a client may make.
Call(t) ==
    \/ \E h \in Handle, m \in Mode : Create(t, h, m)
    \/ \E h, g \in Handle : Retain(t, h, g)
    \/ \E u \in Thread, h \in Handle : Handoff(t, u, h)
    \/ \E h \in Handle : Release(t, h)
    \/ \E h \in Handle, s \in Input, n \in Room : ConvText(t, h, s, n)
    \/ \E h \in Handle : Config(t, h)

Next == \E t \in Thread : Call(t) \/ Step(t)

\* A thread that is inside a call keeps running; clients need not call.
Fairness == \A t \in Thread : WF_vars(Step(t))

Spec     == Init /\ [][Next]_vars
FairSpec == Spec /\ Fairness
-----------------------------------------------------------------------------
(***************************************************************************)
(* Correctness                                                             *)
(***************************************************************************)

\* Inside convd_conv_text or convd_config, between lock and unlock.
Crit == {"reset", "iconv", "ctl", "unlock"}

\* Inside refc_object_dec, after the count reached zero.
Destroying == {"final", "uninit", "free"}

Pc == {"idle", "open", "dec", "lock"} \cup Crit \cup Destroying

\* Every variable has its type.  In particular __refc never goes below zero.
TypeOK ==
    /\ mem \in {"none", "live", "freed"}
    /\ refc \in Nat
    /\ lockup \in BOOLEAN
    /\ rwlock \in Thread \cup {NoThread}
    /\ cd \in {"invalid", "open", "closed"}
    /\ mode \in Mode
    /\ fed \in Seq(Unit)
    /\ holder \in [Handle -> Thread \cup {NoThread}]
    /\ pc \in [Thread -> Pc]
    /\ arg \in [Thread -> Handle]
    /\ job \in [Thread -> {"none", "conv", "config"}]
    /\ input \in [Thread -> Seq(Unit)]
    /\ room \in [Thread -> Nat]
    /\ out \in [Thread -> Seq(Mode \X Seq(Unit) \X Unit)]
    /\ ret \in [Thread -> Int]

\* The count kept by refc_object_inc and refc_object_dec is the number of
\* references that clients hold, under every interleaving of the two.
RefcExact == refc = Cardinality(Held)

\* No thread touches freed memory, a destroyed lock or a closed iconv
\* descriptor: whoever holds a reference finds the block and its lock alive,
\* and cd is open from the lock to the unlock, whatever releases others make.
NoUseAfterFree ==
    /\ Held # {} => mem = "live" /\ lockup
    /\ \A t \in Thread :
           /\ pc[t] \notin {"idle"} => mem = "live"
           /\ pc[t] \in Crit \cup {"lock"} => lockup /\ cd = "open"

\* The object is taken apart by one thread only, after the last reference is
\* gone and with nobody in its lock; cd is closed at most once, and a freed
\* object leaves neither an open iconv descriptor nor a lock behind.
DestroyedOnce ==
    /\ \A t \in Thread : pc[t] \in Destroying =>
           /\ Held = {}
           /\ rwlock = NoThread
           /\ pc[t] = "final" => cd # "closed"
           /\ \A u \in Thread \ {t} : pc[u] = "idle"
    /\ mem = "freed" => cd # "open" /\ ~lockup

\* iconv_close is called only on a descriptor that iconv_open returned, once
\* nobody holds a reference or the lock: after a failed convd_create nothing is
\* closed.  A descriptor is opened for the creator's reference alone, and cd is
\* invalid again only in a new block.
CdLifecycle ==
    [][cd' # cd =>
           \/ cd = "invalid" /\ cd' = "open" /\ \E h \in Handle : Held = {h}
           \/ cd = "open" /\ cd' = "closed" /\ Held = {} /\ rwlock = NoThread
           \/ cd' = "invalid" /\ mem # "live"]_vars

\* A conversion under way sees only its own text: what iconv has consumed
\* since its reset is exactly the converted part of this thread's input, and
\* all of the output so far was made under the settings now in force.
Isolation ==
    \A t \in Thread : pc[t] = "iconv" =>
        /\ rwlock = t
        /\ fed = SubSeq(input[t], 1, Len(out[t]))
        /\ \A i \in 1..Len(out[t]) : out[t][i][1] = mode

\* The iconv image of the first n units of s under settings m.
Conv(m, s, n) == [i \in 1..n |-> <<m, SubSeq(s, 1, i - 1), s[i]>>]

\* convd_conv_text that reports success has written the whole conversion of
\* its text, made from the initial state under one choice of settings, and
\* returns its length; one that fails has written a part of it.
ConvCorrect ==
    \A t \in Thread : job[t] = "conv" /\ pc[t] = "unlock" =>
        /\ \E m \in Mode : out[t] = Conv(m, input[t], Len(out[t]))
        /\ Len(out[t]) <= room[t]
        /\ ret[t] # CONVD_ERR_ICONV =>
               Len(out[t]) = Len(input[t]) /\ ret[t] = Len(input[t])

-----------------------------------------------------------------------------
(***************************************************************************)
(* The inductive invariant behind the safety properties                    *)
(***************************************************************************)

\* A thread inside a call holds the handle it called with.
Owner ==
    \A t \in Thread :
        pc[t] \in {"open", "dec", "lock"} \cup Crit => holder[arg[t]] = t

\* A reference keeps the block and its lock alive.
Alive == Held # {} => mem = "live" /\ lockup

\* Nobody but its creator uses the object before iconv_open succeeds.
Opening ==
    /\ \A t \in Thread : pc[t] = "open" => cd = "invalid" /\ Held = {arg[t]}
    /\ Held # {} /\ cd # "open" =>
           /\ cd = "invalid"
           /\ \E t \in Thread : pc[t] \in {"open", "dec"} /\ Held = {arg[t]}

\* How far the destroyer has come.
Teardown ==
    /\ \A t \in Thread : pc[t] \in Destroying =>
           /\ Held = {}
           /\ mem = "live"
           /\ \A u \in Thread \ {t} : pc[u] = "idle"
           /\ pc[t] = "final" => cd # "closed"
           /\ pc[t] \in {"uninit", "free"} => cd # "open"
           /\ pc[t] = "free" => ~lockup
    /\ mem = "freed" => cd # "open" /\ ~lockup

LockOwner == \A t \in Thread : rwlock = t <=> pc[t] \in Crit

\* What a thread has converted so far, at each point of convd_conv_text.
Progress ==
    \A t \in Thread :
        /\ pc[t] \in {"reset", "iconv"} => job[t] = "conv"
        /\ pc[t] = "ctl" => job[t] = "config"
        /\ pc[t] = "lock" => job[t] \in {"conv", "config"}
        /\ pc[t] \notin {"iconv", "unlock"} => out[t] = << >>
        /\ pc[t] = "iconv" =>
               /\ out[t] = Conv(mode, input[t], Len(out[t]))
               /\ Len(out[t]) <= Len(input[t])
               /\ Len(out[t]) <= room[t]

\* No step of any thread leaves these states, so every reachable state is one
\* of them; the parts say who owns, who destroys and who converts what.
IInv ==
    /\ TypeOK
    /\ RefcExact
    /\ Owner
    /\ Alive
    /\ Opening
    /\ Teardown
    /\ LockOwner
    /\ Isolation
    /\ Progress
    /\ ConvCorrect

-----------------------------------------------------------------------------
\* A call is pending until the step that decides its result.
AbsCall ==
    [t \in Thread |->
        IF pc[t] \in {"lock", "reset", "iconv", "ctl"} THEN job[t]
        ELSE IF pc[t] = "unlock" THEN "done" ELSE "none"]

AbsResult ==
    [t \in Thread |->
        IF pc[t] # "unlock" THEN <<0, << >>>>
        ELSE <<ret[t], IF job[t] = "conv" THEN out[t] ELSE << >>>>]

Abs == INSTANCE ConvdAbs WITH call <- AbsCall, result <- AbsResult

\* The library with its reference count and its lock implements a descriptor
\* whose calls are atomic and which lives as long as it is referenced.
ImplementsAbs == Abs!Spec

\* The write lock is never kept: whoever has it gives it back, on the error
\* paths of convd_conv_text too.
LockReleased ==
    \A t \in Thread : rwlock = t ~> rwlock # t

\* Once the last reference is released the memory is freed, also when it is
\* convd_create itself that fails and drops the only reference.
EventuallyFreed == (mem = "live" /\ Held = {}) ~> mem = "freed"
=============================================================================
