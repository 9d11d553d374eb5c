------------------------------ MODULE SsidText ------------------------------
(***************************************************************************)
(* unprintf (src/config.rs), a turn of its loop at a time, on the ways an  *)
(* SSID comes to it: a name the caller has set with SET_NETWORK and reads  *)
(* back with GET_NETWORK, a name in the results of a scan, or any text.    *)
(* The results of a scan longer than the buffer are cut off wherever the   *)
(* buffer ends, within their last line.                                    *)
(***************************************************************************)
EXTENDS Text

CONSTANTS
  Bytes,   \* the bytes texts are made of
  MaxLen   \* bound: how many

ASSUME SsidAssumption == Bytes \subseteq 0..255 /\ MaxLen \in Nat

VARIABLES
  ssid,    \* the name, or for "any" the text itself
  path,    \* "get", "scan" or "any"
  cut,     \* the line with the name was cut off by the end of the buffer
  text,    \* what unprintf is given
  pos,     \* the next byte of its iterator
  unescaped,
  verdict  \* "going", "Ok" or a ConfigError

ssidVars == <<ssid, path, cut, text, pos, unescaped, verdict>>

Names == BoundedSeq(Bytes, MaxLen)

\* The text of the reply, for a name that a caller sets: a Rust String.
Reply(p, name) ==
  IF p = "get" THEN FieldText(FieldBytes(ConfEscape(name)))
  ELSE IF p = "scan" THEN PrintfEncode(name) ELSE name

\* parse_get_network or ScanResult::from_line up to unprintf.
Given(p, reply) == IF p = "get" THEN TrimQuotes(reply) ELSE reply

SsidInit ==
  /\ ssid \in Names /\ path \in {"get", "scan", "any"}
  /\ path # "scan" => Utf8(ssid)
  /\ LET reply == Reply(path, ssid)
     IN  \/ cut = FALSE /\ text = Given(path, reply)
         \/ /\ cut = TRUE /\ path = "scan"
            /\ \E n \in 0..(Len(reply) - 1) : text = Given(path, SubSeq(reply, 1, n))
  /\ pos = 1 /\ unescaped = <<>> /\ verdict = "going"

Going == verdict = "going" /\ pos <= Len(text)
AtEscape == Going /\ text[pos] = Backslash
Left == Len(text) - pos
IsHex == text[pos + 1] = LowX

Push(b, n) ==
  /\ unescaped' = Append(unescaped, b)
  /\ pos' = pos + n
  /\ UNCHANGED <<ssid, path, cut, text, verdict>>

Give(r) == verdict' = r /\ UNCHANGED <<ssid, path, cut, text, pos, unescaped>>

Plain == Going /\ text[pos] # Backslash /\ Push(text[pos], 1)

\* \n, \r, \t and \e; any other character stands for itself.
Escape ==
  /\ AtEscape /\ Left >= 1 /\ ~IsHex
  /\ LET c == text[pos + 1]
         special == {b \in DOMAIN Escapes : Escapes[b] = c}
     IN  \E b \in IF special = {} THEN {c} ELSE special : Push(b, 2)

\* \xNN; u8::from_str_radix takes a plus sign before a single digit as well.
HexEscape ==
  /\ AtEscape /\ Left >= 3 /\ IsHex
  /\ LET h == text[pos + 2]
         l == text[pos + 3]
     IN  \/ h \in HexDigit /\ l \in HexDigit /\ Push(16 * HexValue(h) + HexValue(l), 4)
         \/ h = Plus /\ l \in HexDigit /\ Push(HexValue(l), 4)
         \/ l \notin HexDigit /\ Give("InvalidEscape")
         \/ h \notin HexDigit \cup {Plus} /\ Give("InvalidEscape")

\* Variant of Incomplete: the rest of the text stands for itself.
IncompleteLenient ==
  /\ AtEscape /\ Left < (IF Left >= 1 /\ IsHex THEN 3 ELSE 1)
  /\ Push(Backslash, 1)

\* The text ends within an escape.
Incomplete ==
  /\ AtEscape /\ Left < (IF Left >= 1 /\ IsHex THEN 3 ELSE 1)
  /\ Give("IncompleteEscape")

End ==
  /\ verdict = "going" /\ pos > Len(text)
  /\ Give(IF Utf8(unescaped) THEN "Ok" ELSE "NonUtf8Escape")

SsidNext == Plain \/ Escape \/ HexEscape \/ Incomplete \/ End

SsidSpec == SsidInit /\ [][SsidNext]_ssidVars

-----------------------------------------------------------------------------
\* No backslash that unprintf, and no quote that trim_matches takes for the
\* daemon's own.
SurvivesUnprintf(name) ==
  /\ Every(name, (0..255) \ {Backslash})
  /\ name # <<>> => name[1] # Quote /\ name[Len(name)] # Quote

\* A name found by a scan reads as it is on the air or is refused for not being
\* UTF-8, and one that was set reads back as it was set (sta/mod.rs:314,
\* sta/types.rs:77, config.rs:170), but for two kinds of names that the daemon
\* does not report the way it reports others: one that is not printable ASCII
\* reads back as the hex digits it is reported by, and in one with a backslash,
\* or with a quote at an end, what is not part of the encoding is taken for it.
SsidComesBack ==
  ~cut /\ path # "any" /\ verdict # "going" =>
    \/ verdict = "Ok" /\ unescaped = ssid
    \/ path = "scan" /\ verdict = "NonUtf8Escape" /\ ~Utf8(ssid)
    \/ path = "get" /\ ~Every(ssid, 32..126) /\ verdict = "Ok" /\ unescaped = HexEncode(ssid)
    \/ path = "get" /\ Every(ssid, 32..126) /\ ~SurvivesUnprintf(ssid)

\* A reply cut off by the buffer never makes up a name: wherever the cut is,
\* within an escape or a character too, what is read is the beginning of the
\* name or an error (socket_handle.rs:87, config.rs:172).
CutNeverMisleads ==
  cut /\ verdict = "Ok" => IsPrefix(unescaped, ssid)
=============================================================================
