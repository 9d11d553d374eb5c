------------------------- MODULE RestartableService -------------------------
(***************************************************************************)
(* What a RequestClient promises when the owner of the runtime may call    *)
(* run() again after it has returned: a call that a run had taken when it  *)
(* ended is orphaned, and refused; one still in the channel is left for    *)
(* the next run.  RequestService is the case of a single run.              *)
(***************************************************************************)
CONSTANT Calls

VARIABLES
  phase,    \* phase[c]: "idle", "pending", "answered", "refused", "abandoned"
  service,  \* "up", "returned" (between two runs), "gone" (runtime dropped)
  orphans   \* pending calls that nobody will answer

vars == <<phase, service, orphans>>

Pending == {c \in Calls : phase[c] = "pending"}

Init ==
  /\ phase = [c \in Calls |-> "idle"]
  /\ service = "up"
  /\ orphans = {}

\* A request enters the channel, between two runs too; shutdown() waits for no
\* answer.
Submit(c) ==
  /\ phase[c] = "idle" /\ service # "gone"
  /\ \E p \in {"pending", "answered"} : phase' = [phase EXCEPT ![c] = p]
  /\ UNCHANGED <<service, orphans>>

\* A caller is refused when no runtime holds its call.
Refuse(c) ==
  /\ c \in orphans \/ (phase[c] = "idle" /\ service = "gone")
  /\ phase' = [phase EXCEPT ![c] = "refused"]
  /\ orphans' = orphans \ {c}
  /\ UNCHANGED service

Abandon(c) ==
  /\ c \in Pending
  /\ phase' = [phase EXCEPT ![c] = "abandoned"]
  /\ orphans' = orphans \ {c}
  /\ UNCHANGED service

\* One step may answer several callers: those who wait for the same scan.
Answer(S) ==
  /\ service = "up" /\ S \subseteq Pending \ orphans
  /\ phase' = [c \in Calls |-> IF c \in S THEN "answered" ELSE phase[c]]
  /\ UNCHANGED <<service, orphans>>

\* A run ends, and what it had taken with it.
Stop(S) ==
  /\ service = "up" /\ S \subseteq Pending
  /\ service' = "returned"
  /\ orphans' = orphans \cup S
  /\ UNCHANGED phase

Restart == service = "returned" /\ service' = "up" /\ UNCHANGED <<phase, orphans>>

\* The channel goes with the runtime.
Drop ==
  /\ service = "returned" /\ service' = "gone"
  /\ orphans' = Pending
  /\ UNCHANGED phase

Next ==
  \/ \E c \in Calls : Submit(c) \/ Refuse(c) \/ Abandon(c)
  \/ \E S \in SUBSET Calls : Answer(S) \/ Stop(S)
  \/ Restart \/ Drop

Spec == Init /\ [][Next]_vars
=============================================================================
