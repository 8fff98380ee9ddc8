----------------------------- MODULE ConfigPath ----------------------------
(***************************************************************************)
(* find_config_pathfile of misc.h, which looks for a configuration file    *)
(* beside the program, in conf and ../conf, in an environment variable and *)
(* in a system directory.  It builds every candidate in a cstrbuf (module  *)
(* Cstrbuf) and has to give back all but the one it returns.               *)
(*                                                                         *)
(* A path is a sequence of characters; "conf" counts as one of them.       *)
(***************************************************************************)
EXTENDS Cstrbuf, FiniteSets, SequencesExt

CONSTANTS
    SEP,        \* PATH_SEPARATOR_CHAR
    NAME,       \* cfgname
    Path,       \* values of cfgpath, of the variable and of etcconfpath
    Exe,        \* where the program may be
    Files       \* the sets of paths that may exist

ASSUME PathAssumption == Path \subseteq Seq(Char) \ {<<>>} /\ Exe \subseteq Seq(Char)
ASSUME NameAssumption == NAME \in Seq(Char) /\ {SEP, "/", "conf"} \subseteq Char

VARIABLES
    pc,
    cfgpath, env, etc,          \* the arguments, Null where there is none
    exe, files,                 \* the program and the file system
    config, dname, tname, pname,
    live                        \* blocks that are allocated

args == <<cfgpath, env, etc, exe, files>>
bufs == <<config, dname, tname, pname, live>>
cfgVars == <<pc, args, bufs>>

CfgInit ==
    /\ pc = "start"
    /\ cfgpath \in Path \cup {Null} /\ env \in Path \cup {Null} /\ etc \in Path \cup {Null}
    /\ exe \in Exe /\ files \in Files
    /\ config = Null /\ dname = Null /\ tname = Null /\ pname = Null
    /\ live = 0

IsSeparator(c) == c \in {"/", "\\"}
IsSep(c) == c = SEP
IsFile(path) == path \in files

\* get_proc_abspath: the path of the program up to its last separator of either kind.
DirOf(s) ==
    LET n == SelectLastInSeq(s, IsSeparator)
    IN  IF n = 0 THEN s ELSE SubSeq(s, 1, n - 1)

get_proc_abspath ==
    LET b == cstrbufNew(0, exe)
        d == DirOf(exe)
    IN  [b EXCEPT !.len = Len(d),
                  !.str = IF d = exe THEN @ ELSE Write(@, Len(d), <<NUL>>)]

EndsWithName(s) == IsSuffix(Value(pname), s) \/ IsSuffix(Value(tname), s)

\* A directory with the name of the file, and a separator if there is none yet.
Completed(dir) ==
    IF dir[Len(dir)] \in {SEP, "/"} THEN dir \o NAME ELSE dir \o <<SEP>> \o NAME

Goto(l) == pc' = l
Exists(b) == IsFile(Value(b))

\* Both names with a separator in front; the caller's path, or the program's directory.
Begin ==
    /\ pc = "start"
    /\ tname' = cstrbufCat(Null, <<"/">> \o NAME)
    /\ pname' = cstrbufCat(Null, <<SEP>> \o NAME)
    /\ IF cfgpath # Null
       THEN Goto("given") /\ live' = 2 /\ UNCHANGED dname
       ELSE Goto("probe1") /\ live' = 3 /\ dname' = get_proc_abspath
    /\ UNCHANGED <<args, config>>

Given ==
    /\ pc = "given"
    /\ config' = IF EndsWithName(cfgpath) THEN cstrbufNew(0, cfgpath)
                                          ELSE cstrbufCat(Null, Completed(cfgpath))
    /\ live' = live + 1
    /\ Goto("finish_up")
    /\ UNCHANGED <<args, dname, tname, pname>>

\* 1: beside the program.
Probe1 ==
    /\ pc = "probe1"
    /\ LET c == cstrbufConcat(dname, pname)
       IN  IF Exists(c) THEN config' = c /\ live' = live + 1 /\ Goto("finish_up")
           ELSE UNCHANGED <<config, live>> /\ Goto("probe2")      \* cstrbufFree(&config)
    /\ UNCHANGED <<args, dname, tname, pname>>

\* 2: in conf beside the program.
Probe2 ==
    /\ pc = "probe2"
    /\ config' = cstrbufCat(Null, Value(dname) \o <<SEP, "conf">> \o Value(pname))
    /\ live' = live + 1
    /\ Goto(IF Exists(config') THEN "finish_up" ELSE "probe3")
    /\ UNCHANGED <<args, dname, tname, pname>>

\* Mutant: the separator is kept.
ParentSlash(d) == SelectLastInSeq(Value(d), IsSep)

\* Length of the path of the directory above, -1 if there is none.
Parent(d) == SelectLastInSeq(Value(d), IsSep) - 1

\* 3: in conf beside the program's directory; the buffer of 2 is cut and reused.
Probe3 ==
    /\ pc = "probe3"
    /\ LET d == cstrbufTrunc(config, dname.len)
           n == Parent(d)
           c == cstrbufCat(cstrbufTrunc(d, n), <<SEP, "conf">> \o Value(pname))
       IN  IF n >= 0 /\ Exists(c) THEN config' = c /\ Goto("finish_up") /\ UNCHANGED live
           ELSE config' = Null /\ live' = live - 1 /\ Goto("env")
    /\ UNCHANGED <<args, dname, tname, pname>>

\* 4: the value of the environment variable, a path or a directory.
Env ==
    /\ pc = "env"
    /\ LET c == cstrbufNew(Len(env) + pname.len + 1, env)
       IN  IF env = Null THEN UNCHANGED <<config, live>> /\ Goto("etc")
           ELSE /\ config' = IF EndsWithName(env) THEN c
                             ELSE cstrbufCat(c, SubSeq(Completed(env), Len(env) + 1,
                                                       Len(Completed(env))))
                /\ live' = live + 1 /\ Goto("finish_up")
    /\ UNCHANGED <<args, dname, tname, pname>>

\* 5: the system directory.
Etc ==
    /\ pc = "etc"
    /\ IF etc = Null THEN UNCHANGED <<config, live>>
       ELSE config' = cstrbufCat(Null, etc \o Value(pname)) /\ live' = live + 1
    /\ Goto("finish_up")
    /\ UNCHANGED <<args, dname, tname, pname>>

HeldNames == Cardinality({b \in 1..2 : <<tname, pname>>[b] # Null})  \* mutant: dname forgotten
Held == Cardinality({b \in 1..3 : <<tname, pname, dname>>[b] # Null})

FinishUp ==
    /\ pc = "finish_up"
    /\ tname' = Null /\ pname' = Null /\ dname' = Null
    /\ live' = live - Held
    /\ Goto("done")
    /\ UNCHANGED <<args, config>>

CfgNext == \/ Begin \/ Given \/ Probe1 \/ Probe2 \/ Probe3 \/ Env \/ Etc \/ FinishUp
           \/ pc = "done" /\ UNCHANGED cfgVars

CfgSpec == CfgInit /\ [][CfgNext]_cfgVars

-----------------------------------------------------------------------------
\* On return, whichever way it went, the only block left is the result.
NothingLeaks == pc = "done" => live = IF config = Null THEN 0 ELSE 1

\* The places in the order of the comments of the code.  A directory has one above
\* it where its path has a separator of this system.
Dir == DirOf(exe)
Above(d) == SubSeq(d, 1, SelectLastInSeq(d, IsSep) - 1)
Places ==
    <<Dir \o <<SEP>> \o NAME, Dir \o <<SEP, "conf", SEP>> \o NAME>>
    \o (IF SEP \in ToSet(Dir) THEN <<Above(Dir) \o <<SEP, "conf", SEP>> \o NAME>> ELSE <<>>)

\* The path that config stands for: the caller's; the first place where the file is;
\* then the variable, then the system directory, neither of which is looked at.
FirstPlace == SelectInSeq(Places, IsFile)
Wanted == CASE cfgpath # Null -> cfgpath
            [] cfgpath = Null /\ FirstPlace > 0 -> Places[FirstPlace]
            [] cfgpath = Null /\ FirstPlace = 0 /\ env # Null -> env
            [] OTHER -> etc

\* config is that path, completed with the name of the file where it is only a
\* directory, and a C string.
Stands ==
    IF Wanted = Null THEN config = Null
    ELSE /\ config # Null /\ Terminated(config)
         /\ IsPrefix(Wanted, Value(config)) /\ IsSuffix(NAME, Value(config))
         /\ Len(Value(config)) <= Len(Wanted) + Len(NAME) + 1
         /\ FirstPlace > 0 /\ cfgpath = Null => Value(config) = Wanted

\* The result is the first of the places in the order of the comments of the code.
FirstPlaceWins == pc = "done" => Stands

-----------------------------------------------------------------------------
(***************************************************************************)
(* The inductive invariant                                                 *)
(***************************************************************************)

ArgsOK ==
    /\ pc \in {"start", "given", "probe1", "probe2", "probe3", "env", "etc", "finish_up", "done"}
    /\ cfgpath \in Path \cup {Null} /\ env \in Path \cup {Null} /\ etc \in Path \cup {Null}
    /\ exe \in Exe

\* The names and the directory are in their buffers as long as they are needed.
NamesHeld ==
    /\ pc \notin {"start", "finish_up", "done"} =>
           Holds(tname, <<"/">> \o NAME) /\ Holds(pname, <<SEP>> \o NAME)
    /\ pc \in {"probe1", "probe2", "probe3", "env", "etc"} => cfgpath = Null /\ Holds(dname, Dir)
    /\ pc = "given" => cfgpath # Null
    /\ pc \in {"start", "done"} => tname = Null /\ pname = Null /\ dname = Null

\* A block is live for each buffer that is not the null pointer.
Counted == live = Held + IF config = Null THEN 0 ELSE 1

\* The file is at none of the first n places.
NotAt(n) == \A i \in 1..n : i <= Len(Places) => ~IsFile(Places[i])

\* What has been looked at when the search goes on, and what it ends with.
Searched ==
    /\ pc \in {"start", "given", "probe1", "probe2", "env", "etc"} => config = Null
    /\ pc = "probe2" => NotAt(1)
    /\ pc = "probe3" => NotAt(2) /\ Holds(config, Places[2])
    /\ pc \in {"env", "etc"} => NotAt(3)
    /\ pc = "etc" => env = Null
    /\ pc \in {"finish_up", "done"} => Stands

CfgInv == ArgsOK /\ NamesHeld /\ Counted /\ Searched
=============================================================================
