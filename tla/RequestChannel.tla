--------------------------- MODULE RequestChannel ---------------------------
(***************************************************************************)
(* The client side of a runtime: RequestClient (src/sta/client.rs,         *)
(* src/ap/client.rs), the bounded tokio mpsc channel its requests travel   *)
(* through and the oneshot channel each answer comes back on.              *)
(*                                                                         *)
(* One element of Calls is one call of a RequestClient method: it carries  *)
(* one request and owns one oneshot receiver.  Clones of the client make   *)
(* calls from any task, so the calls of different tasks interleave freely. *)
(***************************************************************************)
EXTENDS Naturals, Sequences, FiniteSets, Functions

CONSTANTS
  Calls,     \* the calls clients may make, each at most once
  Requests,  \* the Request values they may carry: records [kind, id]
  Capacity,  \* capacity of the mpsc request channel (WifiSetup: 32)
  None       \* "no call", "no network", Rust's Option::None

ASSUME ChannelAssumption ==
  /\ Capacity \in Nat \ {0}
  /\ None \notin Calls
  /\ \A r \in Requests : r.kind # "none"

VARIABLES
  request,   \* request[c]: what call c asked for, NoRequest before it is made
  answer,    \* answer[c]: what the caller of c was told, NoAnswer before
  queue,     \* the mpsc channel: calls sent and not received
  runner     \* where run() is: "starting" up, "running" its loop, returned with
             \* one of SocketResults, or "dropped" by its owner

channelVars == <<request, answer, queue, runner>>

NoRequest == [kind |-> "none", id |-> None]

(***************************************************************************)
(* An answer is what the caller's future resolves to (res) and, as a       *)
(* history for the properties, what it was read from (of): the call whose  *)
(* command the reply belonged to, or the network an event was about.       *)
(***************************************************************************)
Ans(res, of) == [res |-> res, of |-> of]
NoAnswer == Ans("none", None)

\* The SocketResult values run() returns.
SocketResults == {"Ok", "Io", "StartupAborted", "TimeoutOpeningSocket",
                  "PermissionDenied", "AttachFailed"}

Kind(c) == request[c].kind

\* The caller of c awaits its oneshot receiver.
Waiting(c) == request[c] # NoRequest /\ answer[c] = NoAnswer

-----------------------------------------------------------------------------
ChannelInit ==
  /\ request = [c \in Calls |-> NoRequest]
  /\ answer = [c \in Calls |-> NoAnswer]
  /\ queue = <<>>

\* RequestClient::request up to `sender.send(..).await`; a call that has to
\* wait for room in the channel is one that is not made yet. shutdown() has
\* no response channel: it is over once the signal is in the channel.
Send(c, r) ==
  /\ request[c] = NoRequest
  /\ runner # "dropped"
  /\ Len(queue) < Capacity
  /\ request' = [request EXCEPT ![c] = r]
  /\ queue' = Append(queue, c)
  /\ answer' = IF r.kind = "Shutdown"
               THEN [answer EXCEPT ![c] = Ans("Ok", None)]
               ELSE answer
  /\ UNCHANGED runner

\* SendError: the receiver is gone with the runtime that owned it.
SendFails(c, r) ==
  /\ request[c] = NoRequest
  /\ runner = "dropped"
  /\ request' = [request EXCEPT ![c] = r]
  /\ answer' = [answer EXCEPT ![c] = Ans("NotRunning", None)]
  /\ UNCHANGED <<queue, runner>>

\* Variant of RecvFails: RecvError is not turned into RunnerNotRunning.
RecvFailsUnconverted(c, held) ==
  /\ Waiting(c)
  /\ c \notin held
  /\ answer' = [answer EXCEPT ![c] = Ans("RecvError", None)]
  /\ UNCHANGED <<request, queue, runner>>

\* RecvError: the oneshot sender of c was dropped without sending. held is
\* the set of calls whose sender the runtime still owns.
RecvFails(c, held) ==
  /\ Waiting(c)
  /\ c \notin held
  /\ answer' = [answer EXCEPT ![c] = Ans("NotRunning", None)]
  /\ UNCHANGED <<request, queue, runner>>

\* The caller drops the future it was awaiting; the request stays where it is.
Abandon(c) ==
  /\ Waiting(c)
  /\ answer' = [answer EXCEPT ![c] = Ans("Abandoned", None)]
  /\ UNCHANGED <<request, queue, runner>>

\* The owner of a runtime whose run() has returned drops it, and with it the
\* receiver and every request still in the channel.
DropRuntime ==
  /\ runner \in SocketResults
  /\ runner' = "dropped"
  /\ queue' = <<>>
  /\ UNCHANGED <<request, answer>>

\* `let _ = sender.send(..)` for each call in S: ignored when the caller is gone.
Respond(S, a) ==
  answer' = [c \in Calls |-> IF c \in S /\ Waiting(c) THEN a ELSE answer[c]]

=============================================================================
