---------------------------- MODULE CstrbufAbs -----------------------------
(***************************************************************************)
(* What a cstrbuf promises to its client: a text, and for every call the   *)
(* text that it makes of the one before.                                   *)
(***************************************************************************)
EXTENDS Integers, Sequences

CONSTANTS Str,      \* texts a client hands in
          Cuts,     \* lengths to which it cuts
          NoText    \* there is no buffer

VARIABLES text,
          op        \* the last call with its arguments

vars == <<text, op>>

Prefix(n) == SubSeq(text, 1, n)

Init == text = NoText /\ op = <<"none">>

\* The text that is there already; the appending calls make a buffer themselves.
Old == IF text = NoText THEN <<>> ELSE text

Call(name, s) == op' = <<name, s>>

Create   == text = NoText /\ \E s \in Str : Call("new", s) /\ text' = s
Add      == \E s \in Str : Call("cat", s) /\ text' = Old \o s
Push     == \E s \in Str : Call("push", s) /\ text' = Old \o s
AddFails == text # NoText /\ Call("cat", <<>>) /\ text' = text
Double   == text # NoText /\ Call("concat", <<>>) /\ text' = text \o text
Assign   == \E s \in Str : Call("dup", s) /\ text' = s
Cut      == /\ text # NoText
            /\ \E n \in Cuts : /\ Call("trunc", n)
                               /\ text' = IF n < Len(text) THEN Prefix(n) ELSE text
Splice   == /\ text # NoText
            /\ \E i, n \in 0..Len(text), s \in Str :
                /\ i + n <= Len(text)
                /\ Call("sub", <<i, n, s>>)
                /\ text' = Prefix(i) \o s \o SubSeq(text, i + n + 1, Len(text))
Free     == text # NoText /\ Call("free", <<>>) /\ text' = NoText

Next == Create \/ Add \/ Push \/ AddFails \/ Double \/ Assign \/ Cut \/ Splice \/ Free

Spec == Init /\ [][Next]_vars
=============================================================================
