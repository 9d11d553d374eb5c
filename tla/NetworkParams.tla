---------------------------- MODULE NetworkParams ----------------------------
(***************************************************************************)
(* The values of SET_NETWORK that are checked where they are made: Psk and *)
(* Bssid (src/sta/types.rs).  A caller builds one from a text or from      *)
(* bytes, handle_request writes it into the command, the daemon reads it.  *)
(***************************************************************************)
EXTENDS Text

CONSTANTS
  MinPass, MaxPass,  \* length of a passphrase (8, 63)
  KeyBytes,          \* length of a raw key (32)
  Octets,            \* of a BSSID (6)
  GivenTexts,        \* what callers give: sequences of bytes
  RawKeys,           \* raw keys they give
  RawMacs,           \* addresses they give as bytes
  Pieces             \* texts between the colons of a BSSID they give

ASSUME ParamsAssumption ==
  /\ MinPass \in Nat /\ MaxPass \in Nat /\ KeyBytes \in Nat /\ Octets \in Nat \ {0}
  /\ MaxPass < 2 * KeyBytes
  /\ GivenTexts \cup RawKeys \cup RawMacs \cup Pieces \subseteq Seq(0..255)

VARIABLES
  how,     \* "passphrase", "raw", "parse", "bssid" or "octets": what the caller calls
  given,   \* with this; for a BSSID the texts between its colons
  value,   \* what has been made of it: [kind, bytes]
  next,    \* Bssid::from_str: the octet it is about to read
  field,   \* the value in the command
  phase    \* "made from", then "refused" or "held", then "sent"

paramsVars == <<how, given, value, next, field, phase>>

Value(kind, bytes) == [kind |-> kind, bytes |-> bytes]

\* Printable ASCII without quotes, of the right length.
IsPassphrase(s) == Every(s, (32..126) \ {Quote}) /\ Len(s) \in MinPass..MaxPass

IsKey(s) == Len(s) = 2 * KeyBytes /\ Every(s, HexDigit)

ParamsInit ==
  /\ \/ how \in {"passphrase", "parse"} /\ given \in GivenTexts
     \/ how = "raw" /\ given \in {k \in RawKeys : Len(k) = KeyBytes}
     \/ how = "octets" /\ given \in {m \in RawMacs : Len(m) = Octets}
     \/ how = "bssid" /\ given \in UNION {[1..n -> Pieces] : n \in 1..(Octets + 1)}
  /\ value = Value("none", <<>>) /\ next = 1 /\ field = <<>>
  /\ phase = "made from"

Hold(v) == phase' = "held" /\ value' = v /\ UNCHANGED <<how, given, next, field>>
Refuse == phase' = "refused" /\ UNCHANGED <<how, given, value, next, field>>

Passphrase ==
  /\ phase = "made from" /\ how = "passphrase"
  /\ IF IsPassphrase(given) THEN Hold(Value("passphrase", given)) ELSE Refuse

Raw ==
  /\ phase = "made from" /\ how = "raw"
  /\ Hold(Value("raw", given))

\* From<[u8; 6]> for Bssid.
FromOctets ==
  /\ phase = "made from" /\ how = "octets"
  /\ Hold(Value("bssid", given))

\* FromStr for Psk: as many hex digits as a key has are a key.
Parse ==
  /\ phase = "made from" /\ how = "parse"
  /\ \/ IsKey(given) /\ Hold(Value("raw", HexDecode(given)))
     \/ ~IsKey(given) /\ IsPassphrase(given) /\ Hold(Value("passphrase", given))
     \/ ~IsKey(given) /\ ~IsPassphrase(given) /\ Refuse

-----------------------------------------------------------------------------
(* FromStr for Bssid, an octet at a time. *)

ReadingOctets == phase = "made from" /\ how = "bssid"

\* Variant of Octet: left to from_str_radix, which takes one digit or a sign.
OctetRadix ==
  /\ ReadingOctets /\ next <= Octets /\ next <= Len(given)
  /\ LET o == given[next]
         digits == IF o # <<>> /\ o[1] = Plus THEN Tail(o) ELSE o
     IN  IF digits # <<>> /\ Len(digits) <= 2 /\ Every(digits, HexDigit)
         THEN /\ value' = Value("bssid", Append(value.bytes,
                   IF Len(digits) = 1 THEN HexValue(digits[1]) ELSE HexDecode(digits)[1]))
              /\ next' = next + 1
              /\ UNCHANGED <<how, given, field, phase>>
         ELSE Refuse

Octet ==
  /\ ReadingOctets /\ next <= Octets /\ next <= Len(given)
  /\ \/ /\ Len(given[next]) = 2 /\ Every(given[next], HexDigit)
        /\ value' = Value("bssid", Append(value.bytes, HexDecode(given[next])[1]))
        /\ next' = next + 1
        /\ UNCHANGED <<how, given, field, phase>>
     \/ /\ ~(Len(given[next]) = 2 /\ Every(given[next], HexDigit))
        /\ Refuse

OctetMissing == ReadingOctets /\ next <= Octets /\ next > Len(given) /\ Refuse

OctetsRead ==
  /\ ReadingOctets /\ next > Octets
  /\ IF next <= Len(given) THEN Refuse ELSE Hold(value)

-----------------------------------------------------------------------------
\* Variant of ToField: a passphrase with a space goes as hex, as before 0.3.0.
ToFieldHex(v) ==
  IF v.kind = "passphrase" /\ Every(v.bytes, 33..126) THEN Quoted(v.bytes)
  ELSE HexEncode(v.bytes)

\* Display of a Bssid: lowercase hex, its colons left out here.
BssidField(v) == HexEncode(v.bytes)

\* Psk::to_field, and a BSSID as it is displayed.
ToField(v) ==
  CASE v.kind = "passphrase" -> Quoted(v.bytes)
    [] v.kind = "raw"        -> HexEncode(v.bytes)
    [] v.kind = "bssid"      -> BssidField(v)

\* handle_request, SetNetwork.
SetNetwork ==
  /\ phase = "held"
  /\ field' = ToField(value) /\ phase' = "sent"
  /\ UNCHANGED <<how, given, value, next>>

ParamsNext ==
  \/ Passphrase \/ Raw \/ FromOctets \/ Parse \/ Octet \/ OctetMissing \/ OctetsRead \/ SetNetwork

ParamsSpec == ParamsInit /\ [][ParamsNext]_paramsVars

\* The daemon: an unquoted psk is a raw key, whatever it looks like, and a bssid
\* is never quoted.
DaemonReads(f) ==
  IF how \in {"bssid", "octets"} THEN Value("bssid", HexDecode(f))
  ELSE IF f # <<>> /\ f[1] = Quote THEN Value("passphrase", FieldBytes(f))
  ELSE IF IsKey(f) THEN Value("raw", HexDecode(f)) ELSE Value("none", <<>>)

-----------------------------------------------------------------------------
\* What the daemon reads is the value the caller built, of the kind it was
\* built as: a passphrase of hex digits or with spaces stays a passphrase
\* (sta/types.rs:265, sta/mod.rs:239).  Parsing a text is "unambiguous because
\* a passphrase is at most 63 characters" (sta/types.rs:201): one that
\* passphrase() takes reaches the daemon as that passphrase, not as a key.
ReadBack ==
  phase = "sent" =>
    /\ DaemonReads(field) = value
    /\ how = "parse" /\ IsPassphrase(given) => value = Value("passphrase", given)

Lower(s) == [i \in DOMAIN s |-> IF s[i] \in 65..90 THEN s[i] + 32 ELSE s[i]]

\* A BSSID is re-emitted as it was given but for case: no sign, short octet or
\* octet too many is accepted and silently read as some other address
\* (sta/types.rs:297, 329).
BssidCanonical ==
  how = "bssid" /\ phase = "sent" =>
    field = Lower(FlattenSeq(given)) /\ Len(given) = Octets
=============================================================================
