---------------------------- MODULE StationProps ----------------------------
(***************************************************************************)
(* What the station's runtime must keep true, the service it implements,   *)
(* and what it must eventually do.                                         *)
(***************************************************************************)
EXTENDS Station

Kinds == DOMAIN FirstCommand \cup {"Shutdown"}

ASSUME StationAssumption ==
  \A r \in Requests : r \in [kind : Kinds, id : Networks \cup {None}]

Results ==
  {"none", "Ok", "Failed", "ParsingResponse", "Timeout", "PendingSelect",
   "AlreadyConnected", "Success", "NotFound", "WrongPsk", "NotRunning", "Abandoned"}

Texts == AnyText \cup {"garbled"}

EventTypes == {"ScanComplete", "ScanFailed", "Connected", "Disconnected",
               "NetworkNotFound", "WrongPsk", "Unknown"}

Callers == Calls \cup {None}

Datagram == [cmd : Commands \cup {"ATTACH"}, call : Callers]
Reply == {r \in [cmd : Commands, call : Callers, text : Texts, val : Nat \cup {None}] :
            r.text = "list" => r.val \in Nat}
DaemonEvent == [type : EventTypes, val : Networks \cup {None}]
Handler == [cmd : Commands \cup {"none"}, call : Callers, left : Nat]
Told == [res : Results, of : Callers \cup Networks]
Select == [call : Callers, expired : BOOLEAN]

\* Every variable stays within the values the program gives it.
TypeOK ==
  /\ request \in [Calls -> Requests \cup {NoRequest}]
  /\ answer \in [Calls -> Told]
  /\ queue \in Seq(Calls)
  /\ runner \in {"running", "dropped"} \cup SocketResults
  /\ wire \in Seq(Datagram)
  /\ replies \in Seq(Reply)
  /\ lapsed \in BOOLEAN
  /\ up \in BOOLEAN /\ attached \in BOOLEAN /\ scanning \in BOOLEAN
  /\ current \in Networks \cup {None}
  /\ events \in Seq(DaemonEvent)
  /\ acted \in Nat
  /\ op \in Handler
  /\ scan_requests \subseteq Calls
  /\ select_request \in Select
  /\ link \in {"unknown", "Connected", "Disconnected"}

-----------------------------------------------------------------------------
(* Safety. *)

\* The places the oneshot sender of a call may be in, one at a time.
InQueue(c) == c \in Range(queue)
InHand(c) == c = op.call
InScans(c) == c \in scan_requests
InSelect(c) == c = select_request.call

\* While run() runs, every call whose caller waits is owned in exactly one
\* place of the runtime: in the request channel, by the handler that is waiting
\* for the daemon, among the scan requests or as the pending select.  A sender
\* dropped on any path would tell its caller RunnerNotRunning (error.rs:97)
\* with the runtime running; one owned twice could be answered twice.
NoRequestLost ==
  runner = "running" =>
    /\ \A c \in Calls : Waiting(c) => c \in Held
    /\ \A i, j \in DOMAIN queue : queue[i] = queue[j] => i = j
    /\ \A c \in Calls :
         /\ InQueue(c) => ~InHand(c) /\ ~InScans(c) /\ ~InSelect(c)
         /\ InHand(c) => ~InScans(c) /\ ~InSelect(c)
         /\ InScans(c) => ~InSelect(c)

\* A command on its way to the daemon from the handlers, not the event socket's.
IsCommand(w) == w.cmd # "ATTACH"

\* As long as no command was given up on, requests and replies stay in step:
\* whatever is on the wire or in the socket belongs to the command being
\* awaited, there is at most one of it, and between handlers there is nothing.
\* SocketHandle::command sends without emptying the socket first
\* (socket_handle.rs:102), so this is all that pairs a reply with its command.
RepliesInStep ==
  runner = "running" /\ ~lapsed =>
    /\ \A i \in DOMAIN replies :
         replies[i].cmd = op.cmd /\ replies[i].call = op.call /\ i = 1
    /\ \A i \in DOMAIN wire :
         IsCommand(wire[i]) =>
           /\ wire[i].cmd = op.cmd /\ wire[i].call = op.call
           /\ replies = <<>>
           /\ \A j \in DOMAIN wire : IsCommand(wire[j]) => i = j

\* The results read from a reply to the call's own command.
FromReply == {"Ok", "Failed", "ParsingResponse", "AlreadyConnected"}

\* As seen by callers: while no command was given up on, a call (of any kind
\* but Scan, answered from a SCAN_RESULTS sent for all) that is told what the
\* daemon replied is told the reply to its own command.
RepliesAreOwn ==
  \A c \in Calls :
    answer[c].res \in FromReply /\ Kind(c) \notin {"Scan", "Shutdown"} /\ ~lapsed
      => answer[c].of = c

Queued(type) == \E i \in DOMAIN events : events[i].type = type

\* The event stream is there: ATTACH was accepted and the daemon has not died.
Streaming == runner = "running" /\ up /\ attached

\* Scan requests are only ever answered by a scan event (sta/mod.rs:143, 151)
\* and have no timeout of their own, so while the event stream is there, a
\* scan is in progress, or its event is queued, or the results are being
\* fetched.  It is what makes FAIL-BUSY as good as OK (sta/mod.rs:205).
ScansNotStranded ==
  Streaming /\ ~lapsed /\ scan_requests # {} =>
    scanning \/ Queued("ScanComplete") \/ Queued("ScanFailed")
             \/ op.cmd = "SCAN_RESULTS"

\* A select is never left waiting for a connection that is there already: if
\* the daemon is connected to the network selected, the Connected event is
\* still to be read.  The STATUS asked after SELECT_NETWORK (sta/mod.rs:280)
\* closes the window in which the event comes before the select is pending.
SelectNotMissed ==
  Streaming /\ ~lapsed /\ select_request # NoSelect /\ current # None =>
    (current = request[select_request.call].id => Queued("Connected"))

\* What Connected/Disconnected broadcasts last told listeners is how things
\* stand, unless a newer link event is queued: broadcasting in the loop that
\* reads the events (sta/mod.rs:156-163) neither skips nor reorders them.
LinkMirrored ==
  Streaming /\ link # "unknown" /\ ~Queued("Connected") /\ ~Queued("Disconnected") =>
    (link = "Connected" <=> current # None)

-----------------------------------------------------------------------------
(* The service implemented. *)

Phase(c) ==
  CASE request[c] = NoRequest        -> "idle"
    [] Waiting(c)                    -> "pending"
    [] answer[c].res = "NotRunning"  -> "refused"
    [] answer[c].res = "Abandoned"   -> "abandoned"
    [] OTHER                         -> "answered"

Service == INSTANCE RequestService WITH
  phase <- [c \in Calls |-> Phase(c)],
  service <- IF runner = "running" THEN "up"
             ELSE IF runner = "dropped" THEN "gone" ELSE "returned"

\* The station's runtime is a RequestService: no caller is answered twice or
\* after run() returned, none is refused while it runs.
ImplementsService == Service!Spec

-----------------------------------------------------------------------------
(* Liveness.  Each task of the program runs when it can, and timers elapse;  *)
(* the daemon owes us nothing, and a socket error need not be seen but by a  *)
(* send that is waiting.                                                     *)

FairSpec ==
  /\ Spec
  /\ WF_vars(Runner)
  /\ WF_vars(TimerExpires)
  /\ WF_vars(CallFails)
  /\ WF_vars(SendRefused)

\* The daemon, while it is there, goes on reading its socket.  It need answer
\* nothing.  No more can be done with: a send to a full queue has no timeout.
ReadingDaemonSpec ==
  /\ FairSpec
  /\ WF_vars((DaemonAttach \/ DaemonAnswers \/ DaemonIgnores) /\ Undisturbed)

\* The daemon also answers what it reads, and a scan ends.
ResponsiveDaemonSpec ==
  /\ FairSpec
  /\ WF_vars((DaemonAttach \/ DaemonAnswers) /\ Undisturbed)
  /\ WF_vars(ScanFinishes /\ Undisturbed)

\* Every request but Scan resolves, even when the daemon answers nothing, as
\* long as it reads: the command timeout ends each handler (socket_handle.rs:113)
\* and the select timeout the pending select (sta/mod.rs:126).  Once the runtime
\* is dropped no caller is left, wherever its sender was: in the channel, in a
\* handler, among the scans or as the pending select.  Only a runtime that is
\* kept after run() has returned may leave calls in its channel.
CallsResolve ==
  \A c \in Calls :
    (Waiting(c) /\ (Kind(c) # "Scan" \/ runner = "dropped"))
      ~> (~Waiting(c) \/ runner \in SocketResults)

\* shutdown() ends run(): "a reply-less response" does not "freeze the runtime,
\* including shutdown handling" any more (CHANGELOG.md, 0.3.0).  So it is with
\* a daemon that reads what it is sent (ReadingDaemonSpec); one that does not
\* freezes it still, in send(..).await (socket_handle.rs:102, 130).
ShutdownStops ==
  (runner = "running" /\ \E c \in Range(queue) : Kind(c) = "Shutdown")
    ~> (runner # "running")

\* A pending select makes way, whether its caller still waits or has gone: the
\* selects that come after it are turned down with PendingSelect only for so
\* long (sta/mod.rs:126, 297): its timer, and what the daemon needs to read the
\* command that a handler may be sending then.
SelectLetGo ==
  (select_request # NoSelect) ~> (select_request = NoSelect \/ runner # "running")

\* The daemon answered ATTACH with FAIL, which nothing looks at.
AttachRefused == ~attached /\ \A i \in DOMAIN wire : IsCommand(wire[i])

\* With a daemon that answers in time, finishes its scans and accepted ATTACH,
\* every Scan request is answered, those that arrive while another scan runs
\* or while its results are fetched included.
ScanAnswered ==
  \A c \in Calls :
    (Waiting(c) /\ Kind(c) = "Scan")
      ~> (~Waiting(c) \/ runner # "running" \/ AttachRefused)

-----------------------------------------------------------------------------
(* What the documentation says and the code does not do. *)

\* "Supplicant reported request failed" (error.rs:36): a call told Failed was
\* failed by the daemon.  The reply may be that to an earlier command, one
\* whose handler had timed out.
FailedIsOwn ==
  \A c \in Calls :
    answer[c].res = "Failed" /\ Kind(c) # "Scan" => answer[c].of = c

\* "Result from selecting a network" (sta/client.rs:8): Success is about the
\* network selected.  The event may be about another one.
SuccessIsOwn ==
  \A c \in Calls : answer[c].res = "Success" => answer[c].of = request[c].id

=============================================================================
