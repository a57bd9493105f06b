----------------------------- MODULE MCLibrary -----------------------------
(* Library on instances small enough for TLC. *)
EXTENDS Library

MCMaxLen == [chat |-> 6, uri |-> 6, loot |-> 5, ini |-> 5, value |-> Bits]

\* Vectors that are cut everywhere, with empty entries everywhere.
MCLengths ==
    {<<>>, <<0>>, <<1>>, <<3>>, <<0, 2>>, <<2, 0>>, <<1, 0, 2>>, <<1, 2, 1>>, <<2, 1, 1>>}
-----------------------------------------------------------------------------
\* Options with and without a letter, a long name and a name in the file, with
\* every kind of argument; "delta" has the letter of "alpha".
Numbers == {"1", "2"}
Opt(letter, long, conf, args, accepts) ==
    [short |-> letter, long |-> long, conf |-> conf, args |-> args, type |-> "value",
     accepts |-> accepts, default |-> "default"]
LogOpt(letter, long, conf, type, default) ==
    [Opt(letter, long, conf, 1, {}) EXCEPT !.type = type, !.default = default]
alpha == Opt(97, "alpha", "a", 1, Numbers)
beta == Opt(0, "beta", "b", 1, Numbers \cup {"x", "-"})
gamma == Opt(103, "gamma", "a", 2, Numbers \cup {None})
delta == Opt(97, "delta", "d", 1, Numbers)
flag == Opt(102, None, None, 0, {None})

log == LogOpt(0, "log", "log", "logopts", [facility |-> 1, perror |-> TRUE])
level == LogOpt(108, "level", "level", "loglevel", {0, 6})

MCOptions == {alpha, beta, gamma, delta, flag, log, level}

\* The second list is taken up to the name that is none.
In(n) == [unset |-> FALSE, name |-> n]
Out(n) == [unset |-> TRUE, name |-> n]
MCLists ==
    ("err,info,-error" :> <<In("err"), In("info"), Out("error")>>) @@
    ("-info,bogus,err" :> <<Out("info"), In("bogus"), In("err")>>)
MCRemarked == "daemon(stderr)" :> "daemon"

Block(sec, opts) == [section |-> sec, opts |-> opts]

\* In the second program two blocks are refused, one of them half-way.  The third
\* has the options of the log.
MCTables ==
    {<<Block("s", <<alpha, beta>>), Block("t", <<flag, gamma>>)>>,
     <<Block("s", <<alpha>>), Block("t", <<beta, delta>>), Block("s", <<gamma>>),
       Block("t", <<flag, gamma>>)>>,
     <<Block("s", <<log, level>>)>>}

Letter(c, arg) == [dashes |-> 1, letter |-> c, name |-> None, arg |-> arg]
Name(n, arg) == [dashes |-> 2, letter |-> 0, name |-> n, arg |-> arg]
Plainly(w) == [dashes |-> 0, letter |-> 0, name |-> w, arg |-> None]

MCItems ==
    {Letter(97, None), Letter(97, "1"), Letter(102, None), Letter(103, "2"),
     Letter(LetterC, None), Letter(LetterH, None), Name("alpha", "2"), Name("beta", "x"),
     Name("beta", None), Name("gamma", None), Name("conf", "file"), Plainly("2"),
     Plainly("file"), Name("log", "user"), Name("log", "bogus"), Letter(108, "err"),
     Name("level", "-info,bogus,err")}

MCArgLists == SeqOf(MCItems, 2)

MCLines ==
    {Section("s"), Section("t"), Pair("a", "1"), Pair("a", "x"), Pair("b", "x"), Error,
     Pair("log", "daemon(stderr)"), Pair("level", "err,info,-error")}
=============================================================================
