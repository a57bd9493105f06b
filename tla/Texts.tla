------------------------------- MODULE Texts -------------------------------
(***************************************************************************)
(* Every text of up to MaxLen[kind] pieces of its kind, made piece by      *)
(* piece, and what the program reads in it.  A configuration value is made *)
(* the same way, bit by bit.                                               *)
(***************************************************************************)
EXTENDS ChatLine, UriText, LootCommand, IniLine, ConfValues

CONSTANT MaxLen     \* bound of the number of pieces of a text of each kind

ASSUME TextsAssumption ==
    /\ MaxLen \in [{"chat", "uri", "loot", "ini", "value"} -> Nat]
    /\ MaxLen.value <= Bits

VARIABLES kind, text

textVars == <<kind, text>>

Pieces(k) ==
    CASE k = "chat" -> ChatBytes [] k = "uri" -> UriBytes
      [] k = "loot" -> LootPieces [] k = "ini" -> IniBytes
      [] k = "value" -> {0, 1}

TextsIdle == kind = "none" /\ text = <<>>

TextsInit == kind \in DOMAIN MaxLen /\ text = <<>>

TextsNext ==
    /\ kind \in DOMAIN MaxLen
    /\ Len(text) < MaxLen[kind]
    /\ \E p \in Pieces(kind) : text' = Append(text, p)
    /\ UNCHANGED kind

TextsSpec == TextsInit /\ [][TextsNext]_textVars
-----------------------------------------------------------------------------
\* rfx_chat::process: a line of the form "nick: message" or "[tag]nick: message"
\* is read as that, whatever the tag and the message contain.
LineRead == kind = "chat" => ChatRead(text)

\* rfx_chat.cpp:43, "try to find ":\x020" sequence after nick": if there is one,
\* the message is what follows the first.
SeparatorFound ==
    kind = "chat" /\ text # <<>> /\ ~Unknown(text) /\ Nick(text) < NickEnd(text)
        /\ Separators(text) # {} => Message(text) = Min(Separators(text)) + 2

\* lib/misc.c:156, "if src string is larger than dst buffer, then only dst_len
\* bytes will be copied but still whole length will be returned": whatever the
\* room, uri_decode stores the first bytes and returns the length of all.
UriWhole == kind = "uri" => UriRead(text)

\* rfx_loot::loot_cmd: each item is shown as the last word about it says, and a
\* command with a word that makes no sense changes nothing, however blanks and
\* signs divide the words.
CommandRead ==
    kind = "loot" => CommandAsSaid(text, FullMask) /\ CommandAsSaid(text, {1, 3})

\* ini_parse_file: names, values, sections and comments are told apart as
\* include/ini.h:17-21 says, with separators, brackets and comments anywhere in the
\* line, except for a comment that comes right behind a separator and a blank,
\* which is read as the value (CommentFirst).
IniLineRead == kind = "ini" => \A n \in {1, 2} : IniAsSaid(n, text)

\* lib/mconf.c: the value the help message shows as the default is the text
\* that sets it, for every type that can be shown.
Ones == {i \in DOMAIN text : text[i] = 1}
ReadsBack ==
    kind = "value" =>
        ValuesReadBack(MapThenSumSet(LAMBDA i : 2 ^ (i - 1), Ones), {i - 1 : i \in Ones})
=============================================================================
