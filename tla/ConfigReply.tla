----------------------------- MODULE ConfigReply -----------------------------
(***************************************************************************)
(* config::from_str (src/config.rs): the lines of a reply are collected    *)
(* into a map, key[i] as the element i of key, and the map is read as an   *)
(* ap::Status or ap::Config (a struct) or a sta::Status (all as strings).  *)
(*                                                                         *)
(* A value stays a slice of the reply: the map holds the numbers of the    *)
(* lines its values are on.                                                *)
(***************************************************************************)
EXTENDS Naturals, Sequences, FiniteSets

CONSTANTS
  Keys,      \* the keys that occur
  Replies,   \* replies: sequences of lines [form, key, index, text]
  Reports,   \* those of them that a daemon's report may be
  Class      \* Class[k]: how key k is declared in what the map is read as

(***************************************************************************)
(* The forms a line may have: "key" and "key[i]"; without '=' or with an   *)
(* index that is no number in brackets, "malformed".  The texts a value    *)
(* may be: a number, "N/A", empty, any other name, or with an escape that  *)
(* is broken.  A key is declared String, u32, Option<u64>, Vec<String> or  *)
(* Vec<u32>, with #[serde(default)] (lists, String as "default", as        *)
(* Option<String> is read too, and the only i32), or not at all:           *)
(* "unknown", as all keys are of a sta::Status, which is read as a map of  *)
(* strings.                                                                *)
(***************************************************************************)
Forms == {"key", "indexed", "malformed"}
ValueTexts == {"number", "N/A", "empty", "name", "broken"}
Classes == {"string", "u32", "option", "default", "i32", "strings", "u32s", "unknown"}

Line == [form : Forms, key : Keys, index : Nat, text : ValueTexts]

\* A key without brackets is the only element of its key.
Index(l) == IF l.form = "indexed" THEN l.index ELSE 0

\* The lines of key k among the first n of r.
LinesOf(r, k, n) == {m \in 1..n : r[m].key = k}

\* What a daemon writes for a key of each class; of a key that is not declared
\* nothing is known.
Written(class) ==
  CASE class \in {"u32", "u32s", "i32"} -> {"number"}
    [] class = "option" -> {"number", "N/A", "empty"}
    [] class \in {"string", "default", "strings"} -> ValueTexts \ {"broken"}
    [] class = "unknown" -> ValueTexts

(***************************************************************************)
(* A report: each value is written as its key is declared, the elements of *)
(* a list are numbered as they come, and a declared key that is not a list *)
(* is there once, or not at all unless it is a plain String or u32.  Of    *)
(* the keys that are not declared only the lines are well formed.          *)
(***************************************************************************)
IsReport(r) ==
  /\ \A n \in DOMAIN r :
       /\ r[n].form # "malformed"
       /\ r[n].text \in Written(Class[r[n].key])
       /\ \/ Class[r[n].key] = "unknown"
          \/ Index(r[n]) = Cardinality(LinesOf(r, r[n].key, n - 1))
  /\ \A k \in Keys :
       LET n == Cardinality(LinesOf(r, k, Len(r)))
       IN  /\ Class[k] \notin {"strings", "u32s", "unknown"} => n <= 1
           /\ Class[k] \in {"string", "u32"} => n = 1

ASSUME ReplyAssumption ==
  /\ Reports \subseteq Replies /\ Replies \subseteq Seq(Line)
  /\ Class \in [Keys -> Classes]
  /\ \A r \in Reports : IsReport(r)

VARIABLES
  lines,    \* the reply
  at,       \* the next line
  map,      \* map[k]: the lines its values are on
  result    \* "going", "Ok" or the ConfigError

vars == <<lines, at, map, result>>

Init ==
  /\ lines \in Replies
  /\ at = 1
  /\ map = [k \in Keys |-> <<>>]
  /\ result = "going"

Reading == result = "going" /\ at <= Len(lines)

\* Variant of TakeLine: values are collected whatever their index.
TakeLineAnyIndex ==
  /\ Reading /\ lines[at].form # "malformed"
  /\ map' = [map EXCEPT ![lines[at].key] = Append(@, at)]
  /\ at' = at + 1
  /\ UNCHANGED <<lines, result>>

\* The index must be the next one of its key.
TakeLine ==
  /\ Reading /\ lines[at].form # "malformed"
  /\ Len(map[lines[at].key]) = Index(lines[at])
  /\ map' = [map EXCEPT ![lines[at].key] = Append(@, at)]
  /\ at' = at + 1
  /\ UNCHANGED <<lines, result>>

RejectLine ==
  /\ Reading
  /\ \/ /\ lines[at].form = "malformed"
        /\ \E e \in {"MissingDelimiterEqual", "SerdeError"} : result' = e
     \/ /\ lines[at].form # "malformed"
        /\ Len(map[lines[at].key]) # Index(lines[at])
        /\ result' = "SerdeError"
  /\ UNCHANGED <<lines, at, map>>

-----------------------------------------------------------------------------
TextsOf(k) == [i \in DOMAIN map[k] |-> lines[map[k][i]].text]

\* Deserializer::only: what is not read as a list must be there once.
Only(k, texts) == Len(map[k]) = 1 /\ TextsOf(k)[1] \in texts

AllIn(k, texts) == \A i \in DOMAIN map[k] : TextsOf(k)[i] \in texts

\* unprintf takes every value but a broken one.
Strings == ValueTexts \ {"broken"}

\* Variant of OptionTexts: deserialize_option looks for empty values only.
OptionTextsEmptyOnly == {"number", "empty"}

\* What Option<u64> takes.
OptionTexts == {"number", "empty", "N/A"}

\* What is collected under k can be read as k is declared: required keys, an
\* Option that may be missing, empty or N/A, lists; an unknown key is read as a
\* string, and ignored or kept as one.
Fits(k) ==
  CASE Class[k] = "string"           -> Only(k, Strings)
    [] Class[k] = "u32"              -> Only(k, {"number"})
    [] Class[k] = "option"           -> map[k] = <<>> \/ Only(k, OptionTexts)
    [] Class[k] = "default"          -> map[k] = <<>> \/ Only(k, Strings)
    [] Class[k] = "i32"              -> map[k] = <<>> \/ Only(k, {"number"})
    [] Class[k] = "strings"          -> AllIn(k, Strings)
    [] Class[k] = "u32s"             -> AllIn(k, {"number"})
    [] Class[k] = "unknown"          -> map[k] = <<>> \/ Only(k, Strings)

\* A single value of k goes through unprintf.
Unescaped(k) == Class[k] \in {"string", "default", "unknown"}

\* T::deserialize.
Deserialize ==
  /\ result = "going" /\ at > Len(lines)
  /\ \/ /\ \A k \in Keys : Fits(k)
        /\ result' = "Ok"
     \/ \E k \in Keys :
          /\ ~Fits(k)
          /\ result' = IF Class[k] = "strings" \/ (Unescaped(k) /\ Len(map[k]) = 1)
                       THEN "BrokenEscape" ELSE "SerdeError"
  /\ UNCHANGED <<lines, at, map>>

Next == TakeLine \/ RejectLine \/ Deserialize

Spec == Init /\ [][Next]_vars

-----------------------------------------------------------------------------
\* Every variable stays within the values the program gives it.
ConfigTypeOK ==
  /\ lines \in Seq(Line)
  /\ at \in 1..(Len(lines) + 1)
  /\ map \in [Keys -> Seq(1..Len(lines))]
  /\ result \in {"going", "Ok", "MissingDelimiterEqual", "SerdeError", "BrokenEscape"}

\* Element i of a list is the value the daemon reported as key[i], and every
\* line read so far is where it says: a list is never shifted by a line that is
\* missing, doubled or out of order, so bss[i], bssid[i], ssid[i] and num_sta[i]
\* are of the same BSS (config.rs:75).
Aligned ==
  /\ \A k \in Keys : \A i \in DOMAIN map[k] :
       /\ map[k][i] < at
       /\ lines[map[k][i]].key = k
       /\ Index(lines[map[k][i]]) + 1 = i
  /\ \A n \in 1..(at - 1) :
       /\ Index(lines[n]) + 1 \in DOMAIN map[lines[n].key]
       /\ map[lines[n].key][Index(lines[n]) + 1] = n

\* A key the library does not know, reported more than once, under an index that
\* is not zero, or with a value that is no printf-encoded text.
NewKeyUnreadable(r) ==
  \E n \in DOMAIN r :
    /\ Class[r[n].key] = "unknown"
    /\ \/ Cardinality(LinesOf(r, r[n].key, Len(r))) > 1
       \/ Index(r[n]) # 0
       \/ r[n].text = "broken"

\* The report of a daemon parses whichever optional keys its version, driver or
\* security mode leaves out, empty or N/A, with any number of BSSs, and with any
\* new keys that are single texts; where it does not, a new key that is a list or
\* is not escaped is the reason (ap/types.rs:10, config.rs:38, 132, 138).
ReportsParse ==
  result \notin {"going", "Ok"} /\ lines \in Reports => NewKeyUnreadable(lines)

\* "so newer or driver-specific keys are never lost. Missing keys simply leave the
\* corresponding field as `None` rather than failing the whole parse"
\* (sta/types.rs:124): no key the library does not know costs the others.
NewKeysCostNothing ==
  result \in {"going", "Ok"} \/ lines \notin Reports
=============================================================================
