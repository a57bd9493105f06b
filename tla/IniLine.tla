------------------------------ MODULE IniLine ------------------------------
(***************************************************************************)
(* What ini_parse_file makes of one line: nothing, the name of a section,  *)
(* a name and a value, or an error.  BOM stands for the three bytes of a   *)
(* byte order mark.                                                        *)
(***************************************************************************)
EXTENDS Places

IniBytes == {"BOM", "x", " ", "[", "]", "=", ":", ";", "#"}

FirstNonblank(t) == FirstOf({i \in DOMAIN t : t[i] # " "}, t)

\* The text without the blanks at its end, and without those at its start.
rstrip(t) ==
    LET last == Max({i \in DOMAIN t : t[i] # " "} \cup {0}) IN SubSeq(t, 1, last)
lskip(t) == SubSeq(t, FirstNonblank(t), Len(t))

\* A ";" is a comment where a blank stands before it.
CommentFaulty(t, i) == t[i] = ";"
Comment(t, i) == t[i] = ";" /\ i > 1 /\ t[i - 1] = " "

\* The place of the first c, or of the comment if that comes first.
find_char_or_comment(t, c) == FirstOf({i \in DOMAIN t : t[i] = c \/ Comment(t, i)}, t)
Finds(t, c) == LET i == find_char_or_comment(t, c) IN i < End(t) /\ t[i] = c

Separator(t) == find_char_or_comment(t, IF Finds(t, "=") THEN "=" ELSE ":")

Value(t) ==
    LET v == lskip(SubSeq(t, Separator(t) + 1, Len(t)))
    IN  rstrip(Part(v, 1, find_char_or_comment(v, "NUL")))

Nothing == [is |-> "nothing"]
Error == [is |-> "error"]
Section(n) == [is |-> "section", name |-> n]
Pair(n, v) == [is |-> "pair", name |-> n, value |-> v]

\* A byte order mark counts for nothing at the start of the first line.
AfterBom(n, line) == IF n = 1 /\ line # <<>> /\ line[1] = "BOM" THEN Tail(line) ELSE line

Contents(line) ==
    LET start == lskip(rstrip(line))
        inside == Tail(start)
    IN  IF start = <<>> \/ start[1] \in {";", "#"} THEN Nothing
        ELSE IF start[1] = "["
        THEN IF Finds(inside, "]")
             THEN Section(Part(inside, 1, find_char_or_comment(inside, "]")))
             ELSE Error
        ELSE IF Finds(start, "=") \/ Finds(start, ":")
        THEN Pair(rstrip(Part(start, 1, Separator(start))), Value(start))
        ELSE Error

\* Line n of the file.
ini_line(n, line) == Contents(AfterBom(n, line))
-----------------------------------------------------------------------------
Blank(t) == \A i \in DOMAIN t : t[i] = " "

\* A text without blanks at its ends, and without a comment.
Trim(t) == t = <<>> \/ (t[1] # " " /\ t[Len(t)] # " ")
Plain(t) == \A i \in 2 .. Len(t) : ~(t[i - 1] = " " /\ t[i] = ";")

\* Blanks, or blanks and a comment.
Trailer(t) == Blank(t) \/ \E i \in 2 .. Len(t) : t[i] = ";" /\ Blank(Part(t, 1, i))

\* The line is, from place s on, a name, from p on "=" or ":", from v on a value,
\* from w on a comment.  A name ends at the first "=", or at the first ":" if
\* there is no "=" outside comments.
NamePlace(t, s, p) ==
    /\ s <= p
    /\ Blank(Part(t, 1, s)) /\ t[s] \notin {" ", "[", ";", "#"}
    /\ Plain(Part(t, s, p))
    /\ \/ t[p] = "="
       \/ t[p] = ":" /\ \A i \in p .. Len(t) : t[i] = "=" => ~Plain(Part(t, s, i))
    /\ \A i \in s .. p - 1 : t[i] # "=" /\ t[i] # t[p]
ValuePlace(t, p, v, w) ==
    /\ Blank(Part(t, p + 1, v))
    /\ Trim(Part(t, v, w)) /\ Plain(Part(t, p + 1, w))
    /\ Trailer(Part(t, w, End(t)))

\* The exception: ini_parse_file skips the blanks behind the separator before it
\* looks for a comment (ini.c:137), and so does not see the blank in front of a
\* comment that follows.  It takes that comment for the value, from v to w, up to
\* the next one (against include/ini.h:21 and lib/ini.c:40).
CommentFirst(t, p) == \E i \in p + 2 .. Len(t) : t[i] = ";" /\ Blank(Part(t, p + 1, i))
CommentPlace(t, p, v, w) ==
    /\ Blank(Part(t, p + 1, v))
    /\ v # w /\ Trim(Part(t, v, w)) /\ Plain(Part(t, v, w))
    /\ Trailer(Part(t, w, End(t)))

\* What is read as the value after the separator at place p.
ValueRead(t, p, v, w) ==
    IF CommentFirst(t, p) THEN CommentPlace(t, p, v, w) ELSE ValuePlace(t, p, v, w)

IsPair(t) == \E s, p \in DOMAIN t : NamePlace(t, s, p)

\* The bracket that ends the name of a section after the one at place a.
Closing(t, a) ==
    {e \in a + 1 .. Len(t) : /\ t[e] = "]" /\ Plain(Part(t, a + 1, e))
                             /\ \A i \in a + 1 .. e - 1 : t[i] # "]"}

\* A comment is one however it is indented, a section is what stands between
\* brackets, and a name and a value are read without the blanks around them and
\* the comment behind them, but for CommentFirst; anything else is an error
\* (include/ini.h:17-21).
AsSaid(t, is) ==
    LET first == FirstNonblank(t)
        sections == Closing(t, first)
    IN  IF Blank(t) \/ t[first] \in {";", "#"} THEN is = Nothing
        ELSE IF t[first] = "["
        THEN is \in {Error} \cup {Section(Part(t, first + 1, e)) : e \in sections}
             /\ (is = Error <=> sections = {})
        ELSE /\ \A s, p \in DOMAIN t : NamePlace(t, s, p) =>
                    \A v \in p + 1 .. End(t) : \A w \in v .. End(t) :
                        ValueRead(t, p, v, w) => is = Pair(rstrip(Part(t, s, p)), Part(t, v, w))
             /\ ~IsPair(t) => is = Error

IniAsSaid(n, line) == AsSaid(AfterBom(n, line), ini_line(n, line))
=============================================================================
