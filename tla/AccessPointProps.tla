-------------------------- MODULE AccessPointProps --------------------------
(***************************************************************************)
(* What the access point's runtime must keep true and eventually do.       *)
(***************************************************************************)
EXTENDS AccessPoint

ASSUME RequestsAssumption ==
  \A r \in Requests : r \in [kind : DOMAIN FirstCommand \cup {"Shutdown"}, id : {None}]

Running == runner \in {"starting", "running"}

\* Every variable stays within the values the program gives it.
ApTypeOK ==
  /\ runner \in {"starting", "running", "dropped"} \cup SocketResults
  /\ request \in [Calls -> Requests \cup {NoRequest}]
  /\ answer \in [Calls -> [res : {"none", "Ok", "Failed", "ParsingResponse", "Timeout",
                                  "NotRunning", "Abandoned"}, of : Calls \cup {None}]]
  /\ queue \in Seq(Calls) /\ deferred \in Seq(Calls)
  /\ stage \in {"event", "ATTACH", "LOG_LEVEL", "sync", "resend"}
  /\ try \in [at : {"send", "await", "sleep"}, left : 0..Retries,
             spent : Nat, waited : Nat]
  /\ op \in [cmd : Range(FirstCommand) \cup {"none"}, call : Calls \cup {None}]
  /\ link \in [Macs -> {"unknown", "Connected", "Disconnected"}]
  /\ reported \subseteq [mac : Macs, nr : Nat]
  /\ swallowed \subseteq reported /\ delivered \subseteq reported
  /\ done \subseteq {"ATTACH", "LOG_LEVEL"}

\* While run() is at work, in its start-up or its loop, every call whose caller
\* waits is owned in exactly one place: the request channel (where requests
\* stay through the handshake, which does not look at them), the deferred
\* requests, or the handler (ap/mod.rs:58, 94).
ApNoRequestLost ==
  Running =>
    /\ \A c \in Calls : Waiting(c) => c \in Held
    /\ LET owned == queue \o deferred \o IF op = InLoop THEN <<>> ELSE <<op.call>>
       IN  \A i, j \in DOMAIN owned : owned[i] = owned[j] => i = j

\* run() goes past the handshake only when hostapd has answered ATTACH with OK:
\* no event and no other reply can be taken for it, however late or often
\* replies come (ap/event_socket.rs:82).  An OK to LOG_LEVEL may be one to a
\* repeated ATTACH, but only after an attempt has timed out.
AckedIsDone ==
  /\ stage \in {"LOG_LEVEL", "sync", "resend"} => "ATTACH" \in done
  /\ stage \in {"sync", "resend"} /\ ~evLapsed => "LOG_LEVEL" \in done

\* An event about m is in the event socket.
Queued(m) == \E i \in DOMAIN evIn : evIn[i].cmd = "event" /\ evIn[i].val.mac = m

\* The event e, and no other about its station, is in the event socket.
Unread(e) == \E i \in DOMAIN evIn : evIn[i].cmd = "event" /\ evIn[i].val = e

\* Each event hostapd has sent is broadcast or still to be read, unless an attempt
\* of the handshake has read it for its reply: whatever was read before it, those
\* that come while the command socket is opened, which may take minutes, are
\* still there when the loop starts (ap/mod.rs:51).
EventsKept ==
  Running => \A e \in reported : Unread(e) \/ e \in delivered \/ e \in swallowed

\* What listeners were last told of a station is how things are, unless a
\* newer event is queued (ap/event_socket.rs:62, ap/mod.rs:103).
StationsMirrored ==
  Running /\ up =>
    \A m \in Macs : link[m] # "unknown" /\ ~Queued(m) =>
      (link[m] = "Connected" <=> m \in stations)

\* The time of one retry_command but for what it waits in send(..).await: each
\* attempt may take the command timeout as well as the delay
\* (ap/event_socket.rs:85-90), and none takes more.  The wait has no bound of its
\* own; there is none as long as hostapd has read all but Backlog of what was sent.
HandshakeBounded ==
  try.spent <= try.waited + (Retries - try.left) * (CommandTimeout + RetryDelay)

\* As seen by callers: while no command was given up on, what a caller is told
\* of the daemon's reply is the reply to its own command.
ApRepliesAreOwn ==
  \A c \in Calls : answer[c].of # None /\ ~lapsed => answer[c].of = c

-----------------------------------------------------------------------------
Phase(c) ==
  CASE request[c] = NoRequest        -> "idle"
    [] Waiting(c)                    -> "pending"
    [] answer[c].res = "NotRunning"  -> "refused"
    [] answer[c].res = "Abandoned"   -> "abandoned"
    [] OTHER                         -> "answered"

Service == INSTANCE RequestService WITH
  phase <- [c \in Calls |-> Phase(c)],
  service <- IF Running THEN "up" ELSE IF runner = "dropped" THEN "gone" ELSE "returned"

\* From its start-up on, the access point's runtime is a RequestService too.
ApImplementsService == Service!Spec

-----------------------------------------------------------------------------
\* Every call resolves, or run() ends, once the loop runs: no handler waits for
\* an event, so a hostapd that says nothing costs each caller one timeout, as
\* long as it reads what it is sent (ReadingHostapdSpec).
ApCallsResolve ==
  \A c \in Calls : (Waiting(c) /\ runner = "running") ~> (~Waiting(c) \/ ~Running)

\* The handshake ends whatever hostapd answers or leaves unanswered, with the next
\* stage or AttachFailed (ap/event_socket.rs:76).  A hostapd that reads nothing
\* has it wait for ever in send(..).await all the same.
HandshakeEnds == Handshaking ~> ~Handshaking

\* A Shutdown sent at any time, during the handshake too, where nobody is
\* reading the channel, ends run(), if the opens of the sockets end, hostapd reads
\* what it is sent and the channel holds what is sent before the loop starts.
\* Where it does not, run() waits for room in the channel it alone would read
\* (ap/mod.rs:59-64), Shutdown or not.
ApShutdownStops ==
  \A c \in Calls :
    (Running /\ c \in Range(queue) /\ Kind(c) = "Shutdown") ~> ~Running

-----------------------------------------------------------------------------
(* What the documentation says and the code does not do. *)

\* "With [`DEFAULT_ATTACH_RETRY_DELAY`] between tries this bounds the wait to roughly
\* a minute" (ap/setup.rs:11): roughly the attempts times the delay, say twice that.
BoundedByDelays == try.spent <= 2 * (Retries * RetryDelay)

=============================================================================
