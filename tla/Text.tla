-------------------------------- MODULE Text --------------------------------
(***************************************************************************)
(* The encodings texts go through on the control socket, over sequences of *)
(* bytes: conf_escape and hex (src/sta/mod.rs), the quotes taken off by    *)
(* parse_get_network (src/sta/types.rs), and the daemon's side of both.    *)
(***************************************************************************)
EXTENDS Naturals, Sequences, SequencesExt

Quote == 34
Backslash == 92
Plus == 43
LowX == 120

Every(s, S) == \A i \in DOMAIN s : s[i] \in S

HexDigit == (48..57) \cup (65..70) \cup (97..102)
HexValue(c) == IF c <= 57 THEN c - 48 ELSE IF c <= 70 THEN c - 55 ELSE c - 87
HexChar(d) == IF d < 10 THEN 48 + d ELSE 87 + d
HexOf(b) == <<HexChar(b \div 16), HexChar(b % 16)>>

\* hex::encode and hex::decode.
HexEncode(s) == FlattenSeq([i \in DOMAIN s |-> HexOf(s[i])])
HexDecode(s) ==
  [i \in 1..(Len(s) \div 2) |-> 16 * HexValue(s[2 * i - 1]) + HexValue(s[2 * i])]

Quoted(s) == <<Quote>> \o s \o <<Quote>>

\* Variant of conf_escape: a newline goes into the quoted string as it is, and
\* the daemon takes the line for its end.
ConfEscapeLines(raw) ==
  IF Every(raw, (10..126) \ {Quote}) THEN Quoted(SelectSeq(raw, LAMBDA b : b # 10))
  ELSE HexEncode(raw)

\* conf_escape: graphic ASCII without quotes as a quoted string, or else hex.
ConfEscape(raw) ==
  IF Every(raw, (33..126) \ {Quote}) THEN Quoted(raw) ELSE HexEncode(raw)

\* How the daemon reads such a field: what is between the quotes, or hex.
FieldBytes(f) ==
  IF Len(f) >= 2 /\ f[1] = Quote /\ f[Len(f)] = Quote THEN SubSeq(f, 2, Len(f) - 1)
  ELSE HexDecode(f)

\* How the daemon writes such a field when it is asked for one: printable bytes
\* between quotes, none of them escaped, or hex without quotes.
FieldText(s) == IF Every(s, 32..126) THEN Quoted(s) ELSE HexEncode(s)

\* printf_encode of the daemon: quotes and backslashes are escaped as they are,
\* \e, \n, \r and \t by their letters, what is not printable in hex.
Escapes == [b \in {Quote, Backslash, 27, 10, 13, 9} |->
              CASE b = 27 -> 101 [] b = 10 -> 110 [] b = 13 -> 114 [] b = 9 -> 116
                [] b \in {Quote, Backslash} -> b]
Escaped(b) ==
  IF b \in DOMAIN Escapes THEN <<Backslash, Escapes[b]>>
  ELSE IF b \in 32..126 THEN <<b>>
  ELSE <<Backslash, LowX, HexChar(b \div 16), HexChar(b % 16)>>
PrintfEncode(s) == FlattenSeq([i \in DOMAIN s |-> Escaped(s[i])])

\* trim_matches('"'): every quote off both ends.
TrimQuotes(s) ==
  LET kept == {i \in DOMAIN s : s[i] # Quote}
  IN  IF kept = {} THEN <<>>
      ELSE SubSeq(s, CHOOSE i \in kept : \A j \in kept : i <= j,
                     CHOOSE i \in kept : \A j \in kept : i >= j)

\* How many bytes follow b in a character that begins with b, and which may be
\* the first of them: no shorter character, no surrogate, none behind the last.
Follow(b) == IF b < 128 THEN 0 ELSE IF b < 224 THEN 1 ELSE IF b < 240 THEN 2 ELSE 3
Second(b) == IF b = 224 THEN 160..191 ELSE IF b = 237 THEN 128..159
             ELSE IF b = 240 THEN 144..191 ELSE IF b = 244 THEN 128..143 ELSE 128..191

\* Where characters begin, and the places of the bytes that follow in one.
Begins(s) == {i \in DOMAIN s : s[i] \notin 128..191}
Inside(s, i) == (i + 1)..(i + Follow(s[i]))

\* The character that begins there has all its bytes.
IsCharacter(s, i) ==
  /\ s[i] \in (0..127) \cup (194..244)
  /\ Inside(s, i) \subseteq DOMAIN s \ Begins(s)
  /\ Inside(s, i) # {} => s[i + 1] \in Second(s[i])

\* UTF-8: every byte begins a character or is inside one.
Utf8(s) ==
  /\ \A i \in Begins(s) : IsCharacter(s, i)
  /\ \A i \in DOMAIN s \ Begins(s) : \E j \in Begins(s) : i \in Inside(s, j)
=============================================================================
