----------------------------- MODULE MCConvXml ------------------------------
(***************************************************************************)
(* ConvXml with the lengths of <?xml version="1.0" encoding="UTF-16"?>.    *)
(***************************************************************************)
EXTENDS ConvXml

Lengths == [t \in Token |->
    CASE t = "decl" -> 6
      [] t = "verEmpty" -> 10
      [] t = "verShort" -> 11
      [] t = "version" -> 13
      [] t = "verFull" -> 26
      [] t \in {"verFrom", "verOther"} -> 32
      [] t = "verTo" -> 29
      [] t = "verBig" -> 90
      [] t \in {"encFrom", "encOther"} -> 18
      [] t = "encTo" -> 15
      [] t = "encLong" -> 80
      [] t = "text" -> 61
      [] OTHER -> 1]

Short(S, n) == UNION {[1..i -> S] : i \in 0..n}

\* Heads with attributes in any order, missing or repeated, and broken ones;
\* versions of every length alone and with a second attribute.
Documents ==
    {<<"decl">> \o a \o <<"?", ">", "text">> :
        a \in Short({"version", "encFrom", "encOther", "encLong", "text"}, 3)}
    \cup Short({"decl", "version", "?", ">", "text"}, 3)
    \cup {<<"decl">> \o a \o <<"?", ">", "text">> : a \in Short(Versions \cup Encodings, 2)}
    \cup ClientHeads

\* One family that gets a new head and one that does not.
Targets == {[ansi |-> TRUE, attribute |-> "encTo"], [ansi |-> FALSE, attribute |-> "encTo"]}
=============================================================================
