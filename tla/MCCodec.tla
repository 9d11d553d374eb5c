------------------------------- MODULE MCCodec -------------------------------
(***************************************************************************)
(* Instances of the readers of texts for TLC.  Lengths are scaled down:    *)
(* passphrases of 2 or 3 characters, keys of 2 bytes, addresses of 2       *)
(* octets, names of up to 4 bytes, tables of up to 5 lines.                *)
(***************************************************************************)
EXTENDS Codec

\* a, x, 2, quote, backslash, plus, newline, and bytes of which characters of
\* two and of three bytes are made.
SomeBytes == {97, 120, 50, 34, 92, 43, 10, 194, 227, 131}

\* Two hex digits, a letter, space, quote, a control and a non-ASCII byte.
SomeTexts == BoundedSeq({50, 97, 122, 32, 34, 10, 194}, 4)
SomeKeys == [1..2 -> {0, 34, 171}]
\* 2, A and a of an octet, a sign and a space.
SomePieces == BoundedSeq({50, 65, 97, 43, 32}, 2) \cup {<<50, 97, 65>>}

TableLine == [form : LineForms, signal : {-1}] \cup [form : {"entry"}, signal : {-2, 0}]
ShortTables == {<<[form |-> "few tabs", signal |-> 0]>> \o s : s \in BoundedSeq(TableLine, 5)}

-----------------------------------------------------------------------------
ReportKeys == {"state", "freq", "channel", "rates", "wpa", "bss", "num_sta", "new"}

ReportClass ==
  [state |-> "string", freq |-> "u32", channel |-> "option", rates |-> "default",
   wpa |-> "i32", bss |-> "strings", num_sta |-> "u32s", new |-> "unknown"]

L(form, k, i, t) == [form |-> form, key |-> k, index |-> i, text |-> t]

\* Any lines of a list and of a key that is not declared.
AnyReplies ==
  BoundedSeq([form : Forms, key : {"bss", "new"}, index : {0, 1},
              text : {"name", "broken"}], 3)

Opt(k, texts) == {<<>>} \cup {<<L("key", k, 0, t)>> : t \in texts}

Bsss(n) ==
  FlattenSeq([i \in 1..n |-> <<L("indexed", "bss", i - 1, "name"),
                               L("indexed", "num_sta", i - 1, "number")>>])

\* A new key: a text, one that unprintf refuses, or a list.
NewKey ==
  Opt("new", {"name", "number", "broken"}) \cup
  {[i \in 1..n |-> L("indexed", "new", i - 1, "name")] : n \in 1..2}

\* hostapd: the required keys, some of the others, up to three BSSs.
SomeReports ==
  {<<L("key", "state", 0, "name"), L("key", "freq", 0, "number")>>
     \o c \o r \o w \o x \o Bsss(n) :
     c \in Opt("channel", {"number", "N/A", "empty"}), r \in Opt("rates", {"name", "empty"}),
     w \in Opt("wpa", {"number"}), x \in NewKey, n \in 0..3}

AllReplies == AnyReplies \cup SomeReports
=============================================================================
