------------------------------- MODULE Config -------------------------------
(***************************************************************************)
(* The configuration of a program that uses lib/mconf.c: blocks of options *)
(* are added, then the file (lib/ini.c) and after it the command line set  *)
(* their values.  A line of the file is given by what IniLine makes of it, *)
(* an item of the command line by its dashes, its name and what is         *)
(* attached to it; getopt_long is the C library's.                         *)
(***************************************************************************)
EXTENDS IniLine, ConfValues

CONSTANTS
    Options,    \* options; o.short is a character code or 0, o.long and o.conf
                \* are names or None, o.args is the number of MOPT_..._ARGUMENT,
                \* o.type says which setter it has, o.accepts is the set of texts
                \* that one takes if it is of type "value", and o.default what
                \* the program has stored before
    Remarked,   \* for the texts with the remark "(stderr)", the word before it
    Lists,      \* for the texts that are lists of levels, their items
    Tables,     \* sequences of blocks [section, opts] a program may add
    ArgLists,   \* command lines
    Lines,      \* lines of the file
    Files,      \* files that can be opened
    Paths,      \* what the program passes for cfg_path, None among it
    MaxWords,   \* bound of lines and items together
    None

LetterC == 99
LetterH == 104

\* mconf never sets an option with the letter "c".
ASSUME ConfigAssumption ==
    /\ MaxWords \in Nat
    /\ \A o \in Options : o.short \in 0 .. 255 \ {LetterC} /\ o.args \in 0 .. 2
    /\ \A t \in Tables : t \in Seq(Range(t)) /\ \A b \in Range(t) : b.opts \in Seq(Options)

\* The macros of mconf.h give the options of the log an argument.
ASSUME SettersAssumption ==
    /\ \A o \in Options : o.type = "value" \/ (o.type \in {"logopts", "loglevel"} /\ o.args = 1)
    /\ \A t \in DOMAIN Lists : Lists[t] \in Seq([unset : BOOLEAN, name : STRING])

\* A block has no name for two of its options, and an option that only the file
\* can set is in one section: both are left to the program by mconf_add.  A name
\* in the file is one.
ASSUME NamesAssumption ==
    /\ \A t \in Tables : \A b \in Range(t) : \A i, j \in DOMAIN b.opts :
            \/ b.opts[i].conf = b.opts[j].conf /\ b.opts[i].conf # None
            \/ b.opts[i].short = b.opts[j].short /\ b.opts[i].short # 0
            \/ b.opts[i].long = b.opts[j].long /\ b.opts[i].long # None
            => i = j
    /\ \A t \in Tables : \A b, c \in Range(t) : \A o \in Range(b.opts) \cap Range(c.opts) :
            o.short # 0 \/ o.long # None \/ b.section = c.section
    /\ \A l \in Lines : l.is = "pair" => l.name # None

\* An item begins with no dash, or has one and a letter, or two and a name.
ASSUME ItemsAssumption ==
    \A av \in ArgLists : av \in Seq(Range(av)) /\ \A it \in Range(av) :
        /\ it.dashes \in 0 .. 2
        /\ it.dashes = 1 => it.name = None
        /\ it.dashes = 2 => it.letter = 0 /\ it.name # None

VARIABLES
    argv,       \* the command line: items [dashes, letter, name, arg]
    cfg_path, help_only,
    toAdd,      \* blocks not added yet
    blocks,     \* cf->cb
    short_len, long_count, long_idx,
    opt_idx,    \* what mconf_add stored in the options
    written,    \* characters written to opt_short
    opt_long,   \* the table for getopt_long, without the entry that ends it
    value, is_set,
    lines,      \* lines read so far
    section, error,
    optind,     \* items getopt_long has taken
    said,       \* the options it has reported
    stage       \* "idle", "add", "file", "cmdline", "help", "failed" or "done"

program == <<argv, cfg_path, help_only>>
table == <<toAdd, blocks, short_len, long_count, long_idx, opt_idx>>
tried == <<written, opt_long>>
stored == <<value, is_set>>
read == <<lines, section, error>>
confVars == <<program, table, tried, stored, read, optind, said, stage>>
-----------------------------------------------------------------------------
\* Every option that was added, with the section of its block.
EntriesOf(b) == [i \in DOMAIN b.opts |-> [section |-> b.section, opt |-> b.opts[i]]]
Entries(bs) == FlattenSeq([i \in DOMAIN bs |-> EntriesOf(bs[i])])
Added == Range(Entries(blocks))

\* mconf_check_conflict: the option shares a name with one of an earlier block.
Conflict(sec, o) ==
    \E e \in Added :
        \/ o.conf # None /\ e.opt.conf = o.conf /\ e.section = sec
        \/ o.short # 0 /\ e.opt.short = o.short
        \/ o.long # None /\ e.opt.long = o.long

\* The first option of a block that does, or 0.
FirstConflict(b) == SelectInSeq(b.opts, LAMBDA o : Conflict(b.section, o))

\* The sum of a sequence of numbers.
Total(s) ==
    LET sum[i \in 0 .. Len(s)] == IF i = 0 THEN 0 ELSE sum[i - 1] + s[i]
    IN  sum[Len(s)]

\* An option takes a character, and one more for every ":" behind it.
CharsFaulty(o) == IF o.short = 0 THEN 0 ELSE 1
Chars(o) == IF o.short = 0 THEN 0 ELSE 1 + o.args
AllChars(opts) == Total([i \in DOMAIN opts |-> Chars(opts[i])])

\* The options that have a long name.
WithLong(opts) ==
    LET long[i \in 0 .. Len(opts)] ==
            IF i = 0 THEN <<>>
            ELSE IF opts[i].long = None THEN long[i - 1] ELSE Append(long[i - 1], opts[i])
    IN  long[Len(opts)]

\* Options with a long name but no letter are numbered from long_idx on: how
\* many there are, and the number of one.
Numbered(opts) ==
    Total([i \in DOMAIN opts |-> IF opts[i].long # None /\ opts[i].short = 0 THEN 1 ELSE 0])
Index(opts, o) ==
    IF o.short # 0 THEN o.short
    ELSE long_idx + Numbered(SubSeq(opts, 1, SelectInSeq(opts, LAMBDA p : p = o) - 1))

\* What mconf_add has counted of a block when it finds a conflict, or is through.
Counted(b) ==
    IF FirstConflict(b) = 0 THEN b.opts ELSE SubSeq(b.opts, 1, FirstConflict(b) - 1)

mconf_add ==
    /\ stage = "add" /\ toAdd # <<>>
    /\ LET b == Head(toAdd)
           counted == Counted(b)
       IN  /\ short_len' = short_len + AllChars(counted)
           /\ long_count' = long_count + Len(WithLong(counted))
           /\ long_idx' = long_idx + Numbered(counted)
           /\ opt_idx' = [o \in Options |-> IF o \in Range(counted) /\ o.long # None
                                            THEN Index(counted, o) ELSE opt_idx[o]]
           /\ blocks' = IF FirstConflict(b) = 0 THEN Append(blocks, b) ELSE blocks
    /\ toAdd' = Tail(toAdd)
    /\ UNCHANGED <<program, tried, stored, read, optind, said, stage>>
-----------------------------------------------------------------------------
\* A text as the setters of the log see it: a facility with or without the remark,
\* or a list of levels.  Most texts are one word.
AsOpts(v) ==
    IF v \in DOMAIN Remarked THEN [name |-> Remarked[v], stderr |-> TRUE]
    ELSE [name |-> v, stderr |-> FALSE]
AsLevels(v) == IF v \in DOMAIN Lists THEN Lists[v] ELSE <<[unset |-> FALSE, name |-> v]>>

\* What the setter of an option makes of what is stored for it and a text or NULL.
Set(o, old, v) ==
    CASE o.type = "logopts" -> mconf_set_logopts(old, AsOpts(v))
      [] o.type = "loglevel" -> mconf_set_loglevel(old, AsLevels(v))
      [] OTHER -> IF v \in o.accepts THEN Accepted(v) ELSE Rejected(old)
Accepts(o, v) == Set(o, o.default, v).ok

\* The setter of each of these options is called.  What a refused text has changed
\* stays changed.
Store(opts, v) ==
    /\ value' = [o \in Options |-> IF o \in opts THEN Set(o, value[o], v).value ELSE value[o]]
    /\ is_set' = is_set \cup {o \in opts : Accepts(o, v)}
-----------------------------------------------------------------------------
\* An item as a value, and as what asks for a file or for help.
Text(item) == IF item.dashes = 0 THEN item.name ELSE "-"
IsOption(item, letter, name) ==
    \/ item.dashes = 1 /\ item.letter = letter
    \/ item.dashes = 2 /\ item.name = name
NamesFile(av, i) ==
    /\ IsOption(av[i], LetterC, "conf")
    /\ IF av[i].arg = None THEN i < Len(av) ELSE av[i].dashes = 2
WantsHelp(av, i) == IsOption(av[i], LetterH, "help") /\ av[i].arg = None

\* mconf_init looks for the first item that does either.
Scan(av) == FirstOf({i \in DOMAIN av : NamesFile(av, i) \/ WantsHelp(av, i)}, av)
ConfPath(av, path) ==
    LET i == Scan(av) IN
    CASE i = End(av) -> path
      [] i # End(av) /\ WantsHelp(av, i) -> path
      [] OTHER -> IF av[i].arg = None THEN Text(av[i + 1]) ELSE av[i].arg
HelpOnly(av) == Scan(av) # End(av) /\ WantsHelp(av, Scan(av))

ConfigStart ==
    /\ blocks = <<>> /\ short_len = 0 /\ long_count = 0 /\ long_idx = 256
    /\ opt_idx = [o \in Options |-> 0]
    /\ written = 0 /\ opt_long = <<>>
    /\ value = [o \in Options |-> o.default] /\ is_set = {}
    /\ lines = <<>> /\ section = "" /\ error = 0
    /\ optind = 0 /\ said = <<>>

ConfigIdle ==
    /\ ConfigStart /\ stage = "idle"
    /\ argv = <<>> /\ cfg_path = None /\ help_only = FALSE /\ toAdd = <<>>

ConfigInit ==
    /\ ConfigStart /\ stage = "add"
    /\ argv \in ArgLists
    /\ \E path \in Paths : cfg_path = ConfPath(argv, path)
    /\ help_only = HelpOnly(argv)
    /\ toAdd \in Tables
-----------------------------------------------------------------------------
\* What mconf_parse_cmdline prepares for getopt_long: "c:" and the letters, and
\* the table of long names.
AllOptions == [i \in DOMAIN Entries(blocks) |-> Entries(blocks)[i].opt]
Letters(opts) ==
    Total([i \in DOMAIN opts |-> IF opts[i].short = 0 THEN 0 ELSE 1 + opts[i].args])
Prepare ==
    LET long == WithLong(AllOptions)
    IN  /\ written' = 2 + Letters(AllOptions) + 1
        /\ opt_long' = [i \in DOMAIN long |->
                           [name |-> long[i].long, args |-> long[i].args, val |-> opt_idx[long[i]]]]
        /\ stage' = "cmdline"

\* mconf_parse, once everything is added.
mconf_parse ==
    /\ stage = "add" /\ toAdd = <<>>
    /\ CASE help_only -> stage' = "help" /\ UNCHANGED <<tried, error>>
         [] ~help_only /\ cfg_path = None -> Prepare /\ UNCHANGED error
         [] OTHER ->
              IF cfg_path \in Files THEN stage' = "file" /\ UNCHANGED <<tried, error>>
              ELSE stage' = "failed" /\ error' = -1 /\ UNCHANGED tried
    /\ UNCHANGED <<program, table, stored, lines, section, optind, said>>

\* ini_handler sets the first option of this section and name.
Handled(sec, l) ==
    LET i == SelectInSeq(Entries(blocks), LAMBDA e : e.section = sec /\ e.opt.conf = l.name)
    IN  IF i = 0 THEN {} ELSE {Entries(blocks)[i].opt}

\* The parser goes on after an error; the first one counts.
OnErrorFaulty == Len(lines) + 1
OnError == IF error = 0 THEN Len(lines) + 1 ELSE error

ReadLine ==
    /\ stage = "file" /\ Len(lines) + Len(argv) < MaxWords
    /\ \E l \in Lines :
          /\ lines' = Append(lines, l)
          /\ section' = IF l.is = "section" THEN l.name ELSE section
          /\ IF l.is = "pair"
             THEN /\ Store(Handled(section, l), l.value)
                  /\ error' = IF \E o \in Handled(section, l) : Accepts(o, l.value)
                              THEN error ELSE OnError
             ELSE /\ error' = IF l = Error THEN OnError ELSE error
                  /\ UNCHANGED stored
    /\ UNCHANGED <<program, table, tried, optind, said, stage>>

EndOfFile ==
    /\ stage = "file"
    /\ IF error = 0 THEN Prepare ELSE stage' = "failed" /\ UNCHANGED tried
    /\ UNCHANGED <<program, table, stored, read, optind, said>>
-----------------------------------------------------------------------------
\* getopt_long: the kinds of options it knows, by letter and by name.
ByLetter(c) == SelectInSeq(Entries(blocks), LAMBDA e : e.opt.short = c)
ByName(n) == SelectInSeq(opt_long, LAMBDA e : e.name = n)
NotKnown(it) ==
    IF it.dashes = 1 THEN it.letter # LetterC /\ ByLetter(it.letter) = 0 ELSE ByName(it.name) = 0
Args(it) ==
    CASE it.dashes = 2 -> opt_long[ByName(it.name)].args
      [] it.dashes = 1 /\ it.letter = LetterC -> 1
      [] OTHER -> Entries(blocks)[ByLetter(it.letter)].opt.args

\* An argument is attached or, where one is required, the next item.
Separate(it) == Args(it) = 1 /\ it.arg = None
Bad(it) ==
    \/ NotKnown(it)
    \/ it.dashes = 2 /\ Args(it) = 0 /\ it.arg # None
    \/ Separate(it) /\ optind + 2 > Len(argv)

\* The options a reported one is meant for.  The loop runs over all of them.
MeantFaulty(it, c) == {o \in Options : \E e \in Added : e.opt = o /\ o.short = c}
Meant(it, c) ==
    {o \in Options : (\E e \in Added : e.opt = o)
        /\ \/ o.short # 0 /\ o.short = c
           \/ it.dashes = 2 /\ o.long # None /\ opt_idx[o] = c}

\* Items that are not options are passed over.
SkipWord ==
    /\ stage = "cmdline" /\ optind < Len(argv) /\ argv[optind + 1].dashes = 0
    /\ optind' = optind + 1
    /\ UNCHANGED <<program, table, tried, stored, read, said, stage>>

OptionItem ==
    /\ stage = "cmdline" /\ optind < Len(argv) /\ argv[optind + 1].dashes > 0
    /\ LET it == argv[optind + 1]
           arg == IF Separate(it) THEN Text(argv[optind + 2]) ELSE it.arg
           c == IF it.dashes = 2 THEN opt_long[ByName(it.name)].val ELSE it.letter
       IN  IF Bad(it)
           THEN stage' = "failed" /\ UNCHANGED <<stored, optind, said>>
           ELSE /\ optind' = optind + IF Separate(it) THEN 2 ELSE 1
                /\ said' = Append(said, [letter |-> it.letter, name |-> it.name, arg |-> arg])
                /\ IF c = LetterC THEN UNCHANGED stored ELSE Store(Meant(it, c), arg)
                /\ UNCHANGED stage
    /\ UNCHANGED <<program, table, tried, read>>

EndOfItems ==
    /\ stage = "cmdline" /\ optind = Len(argv)
    /\ stage' = "done"
    /\ UNCHANGED <<program, table, tried, stored, read, optind, said>>

ConfigNext ==
    \/ mconf_add \/ mconf_parse \/ ReadLine \/ EndOfFile
    \/ SkipWord \/ OptionItem \/ EndOfItems

ConfigSpec == ConfigInit /\ [][ConfigNext]_confVars
-----------------------------------------------------------------------------
\* The section that line i of the file belongs to.
SectionAt(i) ==
    LET heads == {j \in 1 .. i : lines[j].is = "section"}
    IN  IF heads = {} THEN "" ELSE lines[Max(heads)].name

\* The parts of what is stored for an option: for a mask of levels, each name.
Parts(o) ==
    CASE o.type = "logopts" -> {"facility", "perror"}
      [] o.type = "loglevel" -> {n[1] : n \in Range(prioritynames)}
      [] OTHER -> {"text"}
PartOf(o, stores, p) ==
    CASE o.type = "logopts" -> stores[p]
      [] o.type = "loglevel" -> Code(prioritynames, p) \in stores
      [] OTHER -> stores

\* The parts that a text writes, the mark is_set among them, and what it makes of one.
Writes(o, v) ==
    CASE o.type = "logopts" -> Parts(o)
      [] o.type = "loglevel" ->
            {p \in Parts(o) : Code(prioritynames, p) \in Named(AsLevels(v))}
      [] OTHER -> IF Accepts(o, v) THEN Parts(o) ELSE {}
Marks(o, v) == IF Accepts(o, v) THEN {"is_set"} ELSE {}
Wrote(o, v, p) == PartOf(o, Set(o, o.default, v).value, p)

\* Where the file and the command line write a part of an option or its mark.
InFile(e, p) ==
    {i \in DOMAIN lines :
        /\ lines[i].is = "pair" /\ lines[i].name = e.opt.conf /\ SectionAt(i) = e.section
        /\ p \in Writes(e.opt, lines[i].value) \cup Marks(e.opt, lines[i].value)}
OnLine(o, p) ==
    {i \in DOMAIN said :
        /\ p \in Writes(o, said[i].arg) \cup Marks(o, said[i].arg)
        /\ \/ said[i].letter # 0 /\ said[i].letter = o.short
           \/ said[i].name # None /\ said[i].name = o.long}

\* lib/mconf.c:612, "first parse config file then apply adjustments from command
\* line parameters": every part of an option is what the last text that writes it
\* has made of it, on the command line or else in its section of the file, by letter
\* or by name, and the option is marked as set if a text was accepted.  A refused
\* text can write as well: one for the options of the log clears both, and a list
\* of levels is taken up to the name that is none.
LastWordWins ==
    \A e \in Added :
        /\ \A p \in Parts(e.opt) :
              LET online == OnLine(e.opt, p)
                  infile == InFile(e, p)
              IN  PartOf(e.opt, value[e.opt], p) =
                     CASE online # {} -> Wrote(e.opt, said[Max(online)].arg, p)
                       [] online = {} /\ infile # {} -> Wrote(e.opt, lines[Max(infile)].value, p)
                       [] OTHER -> PartOf(e.opt, e.opt.default, p)
        /\ e.opt \in is_set <=> OnLine(e.opt, "is_set") \cup InFile(e, "is_set") # {}

\* What mconf_parse_cmdline writes fits into what mconf_add has counted, also
\* after blocks that were refused half-way.
RoomForOptions ==
    /\ written <= short_len + 1 + 2
    /\ Len(opt_long) + 1 <= long_count + 1

\* include/ini.h:29, "line number of first error on parse error (doesn't stop on
\* first error)": the first line that is none or says nothing to any option.
WrongLine(i) ==
    \/ lines[i] = Error
    \/ lines[i].is = "pair"
       /\ ~\E e \in Added : /\ e.opt.conf = lines[i].name /\ e.section = SectionAt(i)
                            /\ Accepts(e.opt, lines[i].value)
FirstError ==
    LET wrong == {i \in DOMAIN lines : WrongLine(i)}
    IN  error # -1 => error = IF wrong = {} THEN 0 ELSE Min(wrong)
=============================================================================
