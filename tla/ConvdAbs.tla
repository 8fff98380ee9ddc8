------------------------------ MODULE ConvdAbs ------------------------------
(***************************************************************************)
(* What a shared conversion descriptor promises its clients: as long as    *)
(* somebody holds a reference the descriptor works, every conversion and   *)
(* every change of settings takes effect at one instant, and what a        *)
(* conversion returns depends on its own text and on the settings of that  *)
(* instant alone.  There is no lock, no reference count and no iconv state *)
(* here; module Convd implements this one.                                 *)
(***************************************************************************)
EXTENDS Integers, Sequences

CONSTANTS Thread, Handle, Unit, Mode, Input, Room, NoThread

VARIABLES
    holder,     \* [Handle -> Thread or NoThread]
    mode,       \* the settings of the descriptor
    call,       \* [Thread -> "none", "conv", "config" or "done"]
    input,      \* the text a thread converts
    room,       \* the room in its output buffer
    result      \* <<value returned, text written>> of a call that is done

vars == <<holder, mode, call, input, room, result>>

Nothing == <<0, << >>>>

\* The first n output units of text s converted from the initial state under
\* settings m: a unit's image depends on the settings and on what precedes it.
Conv(m, s, n) == [i \in 1..n |-> <<m, SubSeq(s, 1, i - 1), s[i]>>]

\* All of the text with its length, or -1 with a proper part that had room.
ConvResults(m, s, r) ==
    {<<Len(s), Conv(m, s, Len(s))>>} \cup {<<-1, << >>>>}
        \cup {<<-1, Conv(m, s, n)>> : n \in {k \in 0..Len(s) - 1 : k <= r}}

Become(t, from, to, res) ==
    /\ call[t] = from
    /\ call' = [call EXCEPT ![t] = to]
    /\ result' = [result EXCEPT ![t] = res]

-----------------------------------------------------------------------------
Create(t, h, m) ==
    /\ call[t] = "none"
    /\ \A g \in Handle : holder[g] = NoThread
    /\ holder' = [holder EXCEPT ![h] = t]
    /\ mode' = m
    /\ UNCHANGED <<call, input, room, result>>

\* A reference is duplicated, passed on, or given up.
Move(t, h, owner) ==
    /\ call[t] = "none"
    /\ \E g \in Handle : holder[g] = t
    /\ holder[h] \in {t, NoThread}
    /\ holder' = [holder EXCEPT ![h] = owner]
    /\ UNCHANGED <<mode, call, input, room, result>>

StartConv(t, s, r) ==
    /\ \E h \in Handle : holder[h] = t
    /\ Become(t, "none", "conv", Nothing)
    /\ input' = [input EXCEPT ![t] = s]
    /\ room' = [room EXCEPT ![t] = r]
    /\ UNCHANGED <<holder, mode>>

Convert(t) ==
    /\ \E res \in ConvResults(mode, input[t], room[t]) :
           /\ res[1] >= 0 => Len(input[t]) <= room[t]
           /\ Become(t, "conv", "done", res)
    /\ UNCHANGED <<holder, mode, input, room>>

StartConfig(t) ==
    /\ \E h \in Handle : holder[h] = t
    /\ Become(t, "none", "config", Nothing)
    /\ UNCHANGED <<holder, mode, input, room>>

Configure(t) ==
    /\ \/ mode' \in Mode /\ Become(t, "config", "done", <<0, << >>>>)
       \/ mode' = mode /\ Become(t, "config", "done", <<-1, << >>>>)
    /\ UNCHANGED <<holder, input, room>>

Return(t) ==
    /\ Become(t, "done", "none", Nothing)
    /\ input' = [input EXCEPT ![t] = << >>]
    /\ room' = [room EXCEPT ![t] = 0]
    /\ UNCHANGED <<holder, mode>>

-----------------------------------------------------------------------------
Init ==
    /\ holder = [h \in Handle |-> NoThread]
    /\ mode \in Mode
    /\ call = [t \in Thread |-> "none"]
    /\ input = [t \in Thread |-> << >>]
    /\ room = [t \in Thread |-> 0]
    /\ result = [t \in Thread |-> Nothing]

Next ==
    \E t \in Thread :
        \/ \E h \in Handle, m \in Mode : Create(t, h, m)
        \/ \E h \in Handle, u \in Thread \cup {NoThread} : Move(t, h, u)
        \/ \E s \in Input, r \in Room : StartConv(t, s, r)
        \/ StartConfig(t)
        \/ Convert(t) \/ Configure(t) \/ Return(t)

Spec == Init /\ [][Next]_vars
=============================================================================
