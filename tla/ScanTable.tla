------------------------------ MODULE ScanTable ------------------------------
(***************************************************************************)
(* ScanResult::vec_from_str (src/sta/types.rs): the table of SCAN_RESULTS, *)
(* or whatever was read in its place, a line at a time, then sorted.  A    *)
(* result stays the number of the line it was read from.                   *)
(***************************************************************************)
EXTENDS Integers, Sequences, SequencesExt

CONSTANT Tables   \* replies: sequences of lines [form, signal]

(***************************************************************************)
(* A line is an entry, or it has too few tabs, a signal that is no number, *)
(* or a name with a broken escape, as the last line of a reply that was    *)
(* cut off may have.  The first is the header of the table.                *)
(***************************************************************************)
LineForms == {"entry", "few tabs", "no number", "broken name"}

ASSUME TableAssumption == Tables \subseteq Seq([form : LineForms, signal : Int])

VARIABLES table, row, results, sorting
scanVars == <<table, row, results, sorting>>

ScanInit == table \in Tables /\ row = 2 /\ results = <<>> /\ sorting = "lines"

AtLine == sorting = "lines" /\ row <= Len(table)

\* from_line reads the line.
TakeEntry ==
  /\ AtLine /\ table[row].form = "entry"
  /\ results' = Append(results, row)
  /\ row' = row + 1
  /\ UNCHANGED <<table, sorting>>

\* Variant of SkipLine: the first line that cannot be read ends the table.
SkipLineAndRest ==
  /\ AtLine /\ table[row].form # "entry"
  /\ row' = Len(table) + 1
  /\ UNCHANGED <<table, results, sorting>>

\* A line that cannot be read does not fail the scan.
SkipLine ==
  /\ AtLine /\ table[row].form # "entry"
  /\ row' = row + 1
  /\ UNCHANGED <<table, results, sorting>>

\* The order of sort_by_key: by signal, and as they came where signals are equal.
Before(m, n) ==
  \/ table[m].signal < table[n].signal
  \/ table[m].signal = table[n].signal /\ m < n

\* Each result goes behind those that are before it.
Place(n, found) == Cardinality({m \in found : Before(m, n)}) + 1

Sort ==
  /\ sorting = "lines" /\ row > Len(table)
  /\ LET found == Range(results)
     IN  results' = [i \in DOMAIN results |-> CHOOSE n \in found : Place(n, found) = i]
  /\ sorting' = "done"
  /\ UNCHANGED <<table, row>>

ScanNext == TakeEntry \/ SkipLine \/ Sort

ScanSpec == ScanInit /\ [][ScanNext]_scanVars

-----------------------------------------------------------------------------
\* "skip lines we can't parse so one odd entry doesn't fail the whole scan"
\* (sta/types.rs:55): wherever odd lines are, however many, each entry of the
\* table is a result once, and none is behind one with a stronger signal.
ScanIsWhole ==
  sorting = "done" =>
    /\ \A n \in 2..Len(table) :
         Cardinality({i \in DOMAIN results : results[i] = n}) =
           IF table[n].form = "entry" THEN 1 ELSE 0
    /\ \A i, j \in DOMAIN results :
         i < j => table[results[i]].signal <= table[results[j]].signal
=============================================================================
