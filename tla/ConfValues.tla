----------------------------- MODULE ConfValues -----------------------------
(***************************************************************************)
(* The types of configuration values in lib/mconf.c: what a setter makes   *)
(* of a text and what a getter shows of a value (the "default:" line of    *)
(* the help message).  A number in a text is a number here, with the word  *)
(* that follows it; names are taken from the tables of syslog.h.           *)
(*                                                                         *)
(* Scaled: an unsigned has Bits bits instead of 32, and the suffixes k, m  *)
(* and g shift by 2, 4 and 6 instead of 10, 20 and 30.                     *)
(***************************************************************************)
EXTENDS Integers, Sequences, SequencesExt

Bits == 8
UintRange == 2 ^ Bits

\* What a setter returns: whether it accepted the text, and the value after it.
Accepted(v) == [ok |-> TRUE, value |-> v]
Rejected(v) == [ok |-> FALSE, value |-> v]
-----------------------------------------------------------------------------
\* A number or "auto", which is stored as -1; nothing may follow the number.
mconf_set_aval(old, t) ==
    CASE t.word = "auto" -> Accepted(UintRange - 1)
      [] t.word = "" -> Accepted(t.number % UintRange)
      [] OTHER -> Rejected(old)

mconf_get_aval(v) ==
    IF v = UintRange - 1 THEN [number |-> 0, word |-> "auto"] ELSE [number |-> v, word |-> ""]

\* How far the suffix of a size shifts it to the left, and with the fault that
\* two of the cases fall through to the next.
ShiftFaulty(suffix) == CASE suffix \in {"g", "m", "k"} -> 6 [] OTHER -> 0
Shift(suffix) == CASE suffix = "g" -> 6 [] suffix = "m" -> 4 [] suffix = "k" -> 2 [] OTHER -> 0

\* A number and its suffix; what does not fit into an unsigned is cut off.
mconf_set_uint_size(old, t) ==
    IF t.word \in {"", "k", "m", "g"}
    THEN Accepted((t.number * 2 ^ Shift(t.word)) % UintRange)
    ELSE Rejected(old)

\* The largest unit that divides the value.
mconf_get_uint_size(v) ==
    CASE v % 2 ^ 6 = 0 -> [number |-> v \div 2 ^ 6, word |-> "g"]
      [] v % 2 ^ 6 # 0 /\ v % 2 ^ 4 = 0 -> [number |-> v \div 2 ^ 4, word |-> "m"]
      [] v % 2 ^ 4 # 0 /\ v % 2 ^ 2 = 0 -> [number |-> v \div 2 ^ 2, word |-> "k"]
      [] OTHER -> [number |-> v, word |-> ""]
-----------------------------------------------------------------------------
\* The tables of syslog.h: names in their order, with aliases.
prioritynames ==
    <<<<"alert", 1>>, <<"crit", 2>>, <<"debug", 7>>, <<"emerg", 0>>, <<"err", 3>>,
      <<"error", 3>>, <<"info", 6>>, <<"notice", 5>>, <<"panic", 0>>, <<"warn", 4>>,
      <<"warning", 4>>>>
facilitynames ==
    <<<<"auth", 4>>, <<"daemon", 3>>, <<"kern", 0>>, <<"security", 4>>, <<"user", 1>>>>

Known(table, name) == \E i \in DOMAIN table : table[i][1] = name
Code(table, name) == table[CHOOSE i \in DOMAIN table : table[i][1] = name][2]

\* A list of levels is read up to the first name that is none.
FirstUnknown(items) == SelectInSeq(items, LAMBDA x : ~Known(prioritynames, x.name))
ReadOf(items) ==
    IF FirstUnknown(items) = 0 THEN items ELSE SubSeq(items, 1, FirstUnknown(items) - 1)

\* The levels it names, and those that are not taken out, with "-", by the last name
\* for them.
Named(items) == {Code(prioritynames, x.name) : x \in Range(ReadOf(items))}
PutIn(items) ==
    LET last(c) == SelectLastInSeq(ReadOf(items), LAMBDA x : Code(prioritynames, x.name) = c)
    IN  {c \in Named(items) : ~items[last(c)].unset}

\* It changes the mask as far as it can be read, and leaves the other levels.
mconf_set_loglevel(old, items) ==
    [ok |-> FirstUnknown(items) = 0, value |-> (old \ Named(items)) \cup PutIn(items)]

\* The name of every level, the first one where there are two.
mconf_get_loglevel(mask) ==
    LET first == {i \in DOMAIN prioritynames :
                     /\ prioritynames[i][2] \in mask
                     /\ \A j \in 1 .. i - 1 : prioritynames[j][2] # prioritynames[i][2]}
        named == SelectSeq([i \in DOMAIN prioritynames |-> i], LAMBDA i : i \in first)
    IN  [n \in DOMAIN named |-> [unset |-> FALSE, name |-> prioritynames[named[n]][1]]]

\* A facility and the remark "(stderr)"; a facility nobody knows leaves nothing
\* of the old value.
mconf_set_logopts(old, t) ==
    IF Known(facilitynames, t.name)
    THEN Accepted([facility |-> Code(facilitynames, t.name), perror |-> t.stderr])
    ELSE Rejected([facility |-> 0, perror |-> FALSE])

mconf_get_logopts(o) ==
    [name |-> (CHOOSE e \in Range(facilitynames) :
                  /\ e[2] = o.facility
                  /\ \A i, j \in DOMAIN facilitynames :
                        facilitynames[i] = e /\ facilitynames[j][2] = e[2] => i <= j)[1],
     stderr |-> o.perror]
-----------------------------------------------------------------------------
LogOpts == [facility : {e[2] : e \in Range(facilitynames)}, perror : BOOLEAN]

\* What a getter shows of a value, the setter of the same type reads as that
\* value, whatever was set before it; a list of levels is added to what there is.
ValuesReadBack(v, mask) ==
    /\ mconf_set_aval(0, mconf_get_aval(v)) = Accepted(v)
    /\ mconf_set_uint_size(0, mconf_get_uint_size(v)) = Accepted(v)
    /\ \A old \in {{}, {0, 3}} :
          mconf_set_loglevel(old, mconf_get_loglevel(mask)) = Accepted(old \cup mask)
    /\ \A o, old \in LogOpts : mconf_set_logopts(old, mconf_get_logopts(o)) = Accepted(o)
=============================================================================
