----------------------------- MODULE MCCstrbuf -----------------------------
(***************************************************************************)
(* The string buffer with two clients: one that makes any legal call, and  *)
(* find_config_pathfile.  Each behaviour has one of them.                  *)
(***************************************************************************)
EXTENDS ConfigPath

Letters == {"a", "b"}
PathChars == Letters \cup {"/", "conf", "f"}
Texts == {<<>>} \cup {<<c>> : c \in Letters} \cup {<<c, d>> : c, d \in Letters}
Sizes == {-1, 0, 1, 2, 3}

FileName == <<"f">>
Paths == {<<"a">>, <<"a", "/">>, <<"a", "f">>, <<"b", "/", "f">>}
Programs == {<<"/", "f">>, <<"/", "a", "/", "b">>, <<"/", "a", "/", "b", "/", "f">>,
             <<"/", "conf", "/", "b", "/", "a", "/", "f">>}

\* No file, or one or two at places of a program that lies in one of the directories.
Found == { <<"/", "f">>, <<"/", "conf", "/", "f">>, <<"/", "a", "/", "f">>,
           <<"/", "a", "/", "conf", "/", "f">>, <<"/", "a", "/", "b", "/", "f">>,
           <<"/", "a", "/", "b", "/", "conf", "/", "f">> }
FileSets == {{}} \cup {{p, q} : p, q \in Found}

\* find_config_pathfile is not called.
CfgIdle ==
    /\ pc = "idle"
    /\ cfgpath = Null /\ env = Null /\ etc = Null /\ exe = <<>> /\ files = {}
    /\ config = Null /\ dname = Null /\ tname = Null /\ pname = Null /\ live = 0

Init == BufInit /\ (CfgInit \/ CfgIdle)
Next == \/ pc = "idle" /\ BufNext /\ UNCHANGED cfgVars
        \/ pc # "idle" /\ CfgNext /\ UNCHANGED bufVars

Spec == Init /\ [][Next]_<<bufVars, cfgVars>>
=============================================================================
