--------------------------- MODULE RequestService ---------------------------
(***************************************************************************)
(* What a RequestClient promises its callers, whatever daemon the runtime  *)
(* talks to: a call is answered at most once, and only by a runtime whose  *)
(* run() is running; it is refused (RunnerNotRunning) only once run() has  *)
(* returned.  A call may stay pending: the runtime promises no answer.     *)
(***************************************************************************)
CONSTANT Calls

VARIABLES
  phase,    \* phase[c]: "idle", "pending", "answered", "refused", "abandoned"
  service   \* "up", "returned" (run() is over), "gone" (runtime dropped)

vars == <<phase, service>>

Init ==
  /\ phase = [c \in Calls |-> "idle"]
  /\ service = "up"

\* A request enters the channel; it may do so when run() is over already.
Submit(c) ==
  /\ phase[c] = "idle" /\ service # "gone"
  /\ phase' = [phase EXCEPT ![c] = "pending"]
  /\ UNCHANGED service

\* shutdown() waits for no answer.
Signal(c) ==
  /\ phase[c] = "idle" /\ service # "gone"
  /\ phase' = [phase EXCEPT ![c] = "answered"]
  /\ UNCHANGED service

\* One step may answer several callers: those who wait for the same scan.
Answer(S) ==
  /\ service = "up"
  /\ \A c \in S : phase[c] = "pending"
  /\ phase' = [c \in Calls |-> IF c \in S THEN "answered" ELSE phase[c]]
  /\ UNCHANGED service

Refuse(c) ==
  /\ \/ phase[c] = "pending" /\ service # "up"
     \/ phase[c] = "idle" /\ service = "gone"
  /\ phase' = [phase EXCEPT ![c] = "refused"]
  /\ UNCHANGED service

Abandon(c) ==
  /\ phase[c] = "pending"
  /\ phase' = [phase EXCEPT ![c] = "abandoned"]
  /\ UNCHANGED service

Stop ==
  /\ \/ service = "up" /\ service' = "returned"
     \/ service = "returned" /\ service' = "gone"
  /\ UNCHANGED phase

Next ==
  \/ \E c \in Calls : Submit(c) \/ Signal(c) \/ Refuse(c) \/ Abandon(c)
  \/ \E S \in SUBSET Calls : Answer(S)
  \/ Stop

Spec == Init /\ [][Next]_vars
=============================================================================
