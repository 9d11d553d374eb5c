----------------------------- MODULE AccessPoint -----------------------------
(***************************************************************************)
(* The access point's runtime (src/ap): WifiAp::run opens the event socket *)
(* first, registers on it with ATTACH and LOG_LEVEL (EventSocket::new),    *)
(* opens the command socket, puts deferred requests back and enters its    *)
(* loop, where every request is answered by the reply to its one command.  *)
(*                                                                         *)
(* retry_command reads its replies from the socket that, once ATTACH is    *)
(* accepted, delivers events as well: an attempt reads whatever is next.   *)
(*                                                                         *)
(* Both our sockets are connected to one of hostapd's.  All that is sent   *)
(* on the event socket is sent before anything is on the command socket,   *)
(* so evWire \o wire is what that one holds.                               *)
(***************************************************************************)
EXTENDS ControlSocket

CONSTANTS
  Macs,            \* stations that may associate
  MaxEvents,       \* bound: how often one comes or goes
  Retries,         \* attach_retries (240)
  CommandTimeout,  \* command_timeout (3 s) and attach_retry_delay (250 ms),
  RetryDelay,      \* in the same unit of time
  MaxWait          \* bound: time a retry_command waits for room to send

ASSUME AccessPointAssumption ==
  /\ MaxEvents \in Nat /\ MaxWait \in Nat /\ Retries \in Nat /\ RetryDelay \in Nat
  /\ CommandTimeout \in Nat \ {0}
  /\ None \notin Macs

VARIABLES
  stage,      \* of run(): "event", "ATTACH", "LOG_LEVEL", "sync", "resend"
  deferred,   \* deferred_requests
  try,        \* retry_command: [at, left, spent, waited], what it does, the
              \* attempts left, the time it has taken, and how much of this it
              \* has waited for room to send in
  evWire,     \* the event socket, in the shape of ControlSocket's variables;
  evIn,       \* evIn holds the replies to ATTACH and LOG_LEVEL and the events
  evLapsed,
  op,         \* the command a handler awaits: [cmd, call]
  link        \* link[m]: what the last broadcast about station m said

VARIABLES     \* hostapd
  attached,   \* it sends events to our event socket
  stations,   \* the stations associated
  acted,      \* how many have come and gone
  done,       \* history: handshake commands it has answered with OK
  reported,   \* history: the events it has sent us, [mac, nr]
  swallowed,  \* history: those that were read as replies
  delivered   \* history: those that were broadcast

startVars == <<stage, deferred, try>>
eventVars == <<evWire, evIn, evLapsed, swallowed, delivered>>
loopVars == <<op, link>>
hostapdVars == <<up, attached, stations, acted, done, reported>>
vars == <<channelVars, socketVars, startVars, eventVars, loopVars, hostapdVars>>

Ev == INSTANCE ControlSocket WITH wire <- evWire, replies <- evIn, lapsed <- evLapsed

InLoop == [cmd |-> "none", call |-> None]
Looping == runner = "running" /\ op = InLoop
Opening == runner = "starting" /\ stage \in {"event", "sync"}
Handshaking == runner = "starting" /\ stage \in {"ATTACH", "LOG_LEVEL"}

\* What run() does next.
After == [event |-> "ATTACH", ATTACH |-> "LOG_LEVEL", LOG_LEVEL |-> "sync",
          sync |-> "resend"]

\* retry_command is about to make the first of its attempts.
Fresh == [at |-> "send", left |-> Retries, spent |-> 0, waited |-> 0]

\* It has spent time and is now at "sleep" or "send".
Spend(time, at) == [try EXCEPT !.at = at, !.spent = @ + time]

\* The handler at work still waits in send(..).await.
Sending == StillSending(Len(evWire) + Len(wire))

\* The calls whose oneshot sender the runtime owns.
Held == Range(queue) \cup Range(deferred) \cup {c \in Calls : c = op.call}

\* The one command of each request; the arguments of Custom and SetValue do
\* not change what follows.
FirstCommand ==
  [Custom |-> "CUSTOM", Status |-> "STATUS", Config |-> "GET_CONFIG",
   Enable |-> "ENABLE", Disable |-> "DISABLE", SetValue |-> "SET"]

\* An event datagram, its number a history; hostapd's other events are Unknown.
ApEvent(text, e) == [cmd |-> "event", call |-> None, text |-> text, val |-> e]

-----------------------------------------------------------------------------
Init ==
  /\ ChannelInit /\ SocketInit /\ wire = <<>>
  /\ runner = "starting"
  /\ stage = "event" /\ deferred = <<>> /\ try = Fresh
  /\ evWire = <<>> /\ evIn = <<>> /\ evLapsed = FALSE /\ swallowed = {} /\ delivered = {}
  /\ op = InLoop
  /\ link = [m \in Macs |-> "unknown"]
  /\ up = TRUE /\ attached = FALSE /\ acted = 0
  /\ stations \in SUBSET Macs
  /\ done = {} /\ reported = {}

\* run() returns: what it holds is dropped, its sockets are closed.
Return(result) ==
  /\ runner' = result
  /\ deferred' = <<>>
  /\ op' = InLoop

-----------------------------------------------------------------------------
(* Up to the loop. *)

\* SocketHandle::open, without its clock: it succeeds, or ends in an error.
OpenEnds ==
  /\ Opening
  /\ \/ /\ up
        /\ stage' = After[stage]
        /\ UNCHANGED <<runner, deferred, op>>
     \/ /\ \E e \in {"PermissionDenied", "TimeoutOpeningSocket"} : Return(e)
        /\ UNCHANGED stage
  /\ UNCHANGED <<request, answer, queue, socketVars, try, eventVars, link, hostapdVars>>

\* Variant of OpenTakes: the second open's requests replace the first's.
OpenTakesForgets ==
  /\ Opening /\ queue # <<>>
  /\ queue' = Tail(queue)
  /\ IF Kind(Head(queue)) = "Shutdown" THEN Return("StartupAborted")
     ELSE deferred' = <<Head(queue)>> /\ UNCHANGED <<runner, op>>
  /\ UNCHANGED <<request, answer, socketVars, stage, try, eventVars, link, hostapdVars>>

\* While it waits it defers requests, or is aborted by Shutdown.
OpenTakes ==
  /\ Opening /\ queue # <<>>
  /\ queue' = Tail(queue)
  /\ \/ /\ Kind(Head(queue)) # "Shutdown"
        /\ deferred' = Append(deferred, Head(queue))
        /\ UNCHANGED <<runner, op>>
     \/ /\ Kind(Head(queue)) = "Shutdown"
        /\ Return("StartupAborted")
  /\ UNCHANGED <<request, answer, socketVars, stage, try, eventVars, link, hostapdVars>>

\* An attempt of retry_command; nothing empties the socket first.  Its send is
\* over once there is room for it, or fails.
Attempt ==
  /\ Handshaking /\ try.at = "send"
  /\ \/ /\ try.left > 0 /\ up /\ Len(evWire) < Backlog
        /\ evWire' = Append(evWire, [cmd |-> stage, call |-> None])
        /\ try' = [try EXCEPT !.at = "await", !.left = @ - 1]
        /\ UNCHANGED <<runner, deferred, op>>
     \/ /\ try.left > 0 /\ ~up
        /\ Return("Io")
        /\ UNCHANGED <<evWire, try>>
     \/ /\ try.left = 0
        /\ Return("AttachFailed")
        /\ UNCHANGED <<evWire, try>>
  /\ UNCHANGED <<request, answer, queue, socketVars, stage, evIn, evLapsed, swallowed,
                 delivered, link, hostapdVars>>

\* Time passes in send(..).await: the queue is full and no timeout runs.
AttemptWaits ==
  /\ Handshaking /\ try.at = "send" /\ try.left > 0 /\ up /\ Len(evWire) >= Backlog
  /\ try.waited < MaxWait
  /\ try' = [try EXCEPT !.spent = @ + 1, !.waited = @ + 1]
  /\ UNCHANGED <<channelVars, socketVars, stage, deferred, eventVars, loopVars, hostapdVars>>

\* Variant of AttemptEnds: any reply at all ends the retries.
AttemptEndsOnAny ==
  /\ Handshaking /\ try.at = "await"
  /\ \E r \in Ev!Arrivals :
       /\ Ev!Await(r)
       /\ stage' = IF r = TimedOut THEN stage ELSE After[stage]
       /\ try' = IF r = TimedOut THEN [try EXCEPT !.at = "sleep"] ELSE Fresh
  /\ UNCHANGED <<channelVars, socketVars, deferred, evWire, swallowed, delivered,
                 loopVars, hostapdVars>>

\* command() took the next datagram, whatever it is, or timed out.
AttemptEnds ==
  /\ Handshaking /\ try.at = "await"
  /\ \E r \in Ev!Arrivals, late \in 0..(CommandTimeout - 1) :
       /\ Ev!Await(r)
       /\ swallowed' = IF r.cmd = "event" THEN swallowed \cup {r.val} ELSE swallowed
       /\ \/ /\ Ev!Parse(stage, r) = "Ok"
             /\ stage' = After[stage]
             /\ try' = Fresh
          \/ /\ Ev!Parse(stage, r) # "Ok"
             /\ try' = Spend(IF r = TimedOut THEN CommandTimeout ELSE late, "sleep")
             /\ UNCHANGED stage
  /\ UNCHANGED <<channelVars, socketVars, deferred, evWire, delivered, loopVars, hostapdVars>>

\* Variants of DelayEnds: an attempt does not count when it timed out; the
\* retries go on for ever.
DelayEndsForFree ==
  /\ Handshaking /\ try.at = "sleep"
  /\ try' = [try EXCEPT !.at = "send", !.spent = @ + RetryDelay,
                       !.left = IF evLapsed /\ @ < Retries THEN @ + 1 ELSE @]
  /\ UNCHANGED <<channelVars, socketVars, stage, deferred, eventVars, loopVars, hostapdVars>>

DelayEndsForever ==
  /\ Handshaking /\ try.at = "sleep"
  /\ try' = Fresh
  /\ UNCHANGED <<channelVars, socketVars, stage, deferred, eventVars, loopVars, hostapdVars>>

\* The delay after an attempt that failed, the last one included.
DelayEnds ==
  /\ Handshaking /\ try.at = "sleep"
  /\ try' = Spend(RetryDelay, "send")
  /\ UNCHANGED <<channelVars, socketVars, stage, deferred, eventVars, loopVars, hostapdVars>>

\* self_sender.send(request).await for each deferred request: it waits for room.
Resend ==
  /\ runner = "starting" /\ stage = "resend" /\ deferred # <<>>
  /\ Len(queue) < Capacity
  /\ queue' = Append(queue, Head(deferred))
  /\ deferred' = Tail(deferred)
  /\ UNCHANGED <<request, answer, runner, socketVars, stage, try, eventVars, loopVars, hostapdVars>>

\* Variant of Ready: the event socket is emptied of late replies first.
ReadyDrains ==
  /\ runner = "starting" /\ stage = "resend" /\ deferred = <<>>
  /\ runner' = "running"
  /\ evIn' = <<>>
  /\ UNCHANGED <<request, answer, queue, socketVars, startVars, evWire, evLapsed, swallowed,
                 delivered, loopVars, hostapdVars>>

\* Broadcast::Ready, and on to run_internal.
Ready ==
  /\ runner = "starting" /\ stage = "resend" /\ deferred = <<>>
  /\ runner' = "running"
  /\ UNCHANGED <<request, answer, queue, socketVars, startVars, eventVars, loopVars, hostapdVars>>

-----------------------------------------------------------------------------
(* The branches of the select! in run_internal. *)

TakeShutdown ==
  /\ Looping /\ queue # <<>> /\ Kind(Head(queue)) = "Shutdown"
  /\ queue' = Tail(queue)
  /\ Return("Ok")
  /\ UNCHANGED <<request, answer, socketVars, stage, try, eventVars, link, hostapdVars>>

\* Variant of TakeRequest: taken while the handler of another awaits its reply.
TakeRequestConcurrently ==
  /\ runner = "running" /\ queue # <<>> /\ Kind(Head(queue)) # "Shutdown" /\ up
  /\ queue' = Tail(queue)
  /\ LET cmd == FirstCommand[Kind(Head(queue))]
     IN  /\ wire' = Append(wire, [cmd |-> cmd, call |-> Head(queue)])
         /\ op' = [cmd |-> cmd, call |-> Head(queue)]
  /\ UNCHANGED <<request, answer, runner, replies, lapsed, startVars, eventVars, link, hostapdVars>>

\* handle_request up to its await: the one command of the request is sent, or
\* waits to be sent (Sending).
TakeRequest ==
  /\ Looping /\ queue # <<>> /\ Kind(Head(queue)) # "Shutdown"
  /\ queue' = Tail(queue)
  /\ LET cmd == FirstCommand[Kind(Head(queue))]
     IN  \/ /\ up
            /\ wire' = Append(wire, [cmd |-> cmd, call |-> Head(queue)])
            /\ op' = [cmd |-> cmd, call |-> Head(queue)]
            /\ UNCHANGED <<runner, deferred>>
         \/ /\ ~up
            /\ Return("Io")
            /\ UNCHANGED wire
  /\ UNCHANGED <<request, answer, replies, lapsed, stage, try, eventVars, link, hostapdVars>>

\* Variant of Reply: an error is logged and its sender dropped.
ReplyDropsError ==
  /\ runner = "running" /\ op # InLoop /\ ~Sending
  /\ \E r \in Arrivals :
       /\ Await(r)
       /\ IF Parse(op.cmd, r) = "Ok"
          THEN Respond({op.call}, Ans("Ok", r.call)) ELSE UNCHANGED answer
  /\ op' = InLoop
  /\ UNCHANGED <<request, queue, runner, wire, startVars, eventVars, link, hostapdVars>>

\* handle_request after its await: the parsed reply is the answer.
Reply ==
  /\ runner = "running" /\ op # InLoop /\ ~Sending
  /\ \E r \in Arrivals :
       /\ Await(r)
       /\ Respond({op.call}, Ans(Parse(op.cmd, r), r.call))
  /\ op' = InLoop
  /\ UNCHANGED <<request, queue, runner, wire, startVars, eventVars, link, hostapdVars>>

\* Variant of OnEvent: "CONNECTED" is looked for first, and found in
\* "DISCONNECTED" as well.
OnEventConnectedFirst ==
  /\ Looping /\ evIn # <<>>
  /\ evIn' = Tail(evIn)
  /\ link' = IF Head(evIn).cmd = "event"
             THEN [link EXCEPT ![Head(evIn).val.mac] = "Connected"] ELSE link
  /\ UNCHANGED <<channelVars, socketVars, startVars, evWire, evLapsed, swallowed, delivered,
                 op, hostapdVars>>

\* EventSocket::recv and handle_event: AP-STA-CONNECTED and -DISCONNECTED are
\* broadcast with their station; a late reply is one more unknown event.
OnEvent ==
  /\ Looping /\ evIn # <<>>
  /\ evIn' = Tail(evIn)
  /\ LET e == Head(evIn)
     IN  /\ link' = IF e.cmd = "event" THEN [link EXCEPT ![e.val.mac] = e.text] ELSE link
         /\ delivered' = IF e.cmd = "event" THEN delivered \cup {e.val} ELSE delivered
  /\ UNCHANGED <<channelVars, socketVars, startVars, evWire, evLapsed, swallowed, op, hostapdVars>>

\* A recv fails, in a handshake, in a handler or between them.
SocketError ==
  /\ ~up /\ (runner = "running" \/ Handshaking)
  /\ Return("Io")
  /\ UNCHANGED <<request, answer, queue, socketVars, stage, try, eventVars, link, hostapdVars>>

\* The send of a request that was waiting when hostapd went is refused.
SendRefused == Sending /\ SocketError

-----------------------------------------------------------------------------
(* hostapd; what it does once run() has returned reaches no one. *)

\* ATTACH and LOG_LEVEL, answered on the event socket, or not at all.
HostapdRegisters ==
  /\ evWire # <<>>
  /\ evWire' = Tail(evWire)
  /\ LET cmd == Head(evWire).cmd
         Told(text) == evIn' = Append(evIn, [cmd |-> cmd, call |-> None,
                                             text |-> text, val |-> None])
     IN  \/ /\ Told("OK")
            /\ done' = done \cup {cmd}
            /\ attached' = (attached \/ cmd = "ATTACH")
         \/ /\ Told("FAIL")
            /\ UNCHANGED <<done, attached>>
         \/ /\ ~Prompt
            /\ UNCHANGED <<done, attached, evIn>>
  /\ UNCHANGED <<socketVars, evLapsed, swallowed, delivered, up, stations, acted, reported>>

HostapdAnswers ==
  /\ up /\ evWire = <<>> /\ wire # <<>>
  /\ wire' = Tail(wire)
  /\ LET w == Head(wire)
     IN  \/ \E text \in Accepted[w.cmd] \cup {"FAIL", "garbled"} :
              replies' = Append(replies, [cmd |-> w.cmd, call |-> w.call,
                                          text |-> text, val |-> None])
         \/ ~Prompt /\ UNCHANGED replies
  /\ UNCHANGED <<lapsed, eventVars, hostapdVars>>

\* A station associates or leaves.
StationMoves ==
  /\ up /\ acted < MaxEvents
  /\ acted' = acted + 1
  /\ \E m \in Macs :
       LET text == IF m \in stations THEN "Disconnected" ELSE "Connected"
       IN  /\ stations' = IF m \in stations THEN stations \ {m} ELSE stations \cup {m}
           /\ \/ /\ attached
                 /\ evIn' = Append(evIn, ApEvent(text, [mac |-> m, nr |-> acted]))
                 /\ reported' = reported \cup {[mac |-> m, nr |-> acted]}
              \/ ~attached /\ UNCHANGED <<evIn, reported>>
  /\ UNCHANGED <<socketVars, evWire, evLapsed, swallowed, delivered, up, attached, done>>

HostapdDies ==
  /\ ~Prompt /\ up
  /\ up' = FALSE /\ attached' = FALSE /\ stations' = {}
  /\ wire' = Unsent(Len(evWire) + Len(wire)) /\ evWire' = <<>>
  /\ UNCHANGED <<replies, lapsed, evIn, evLapsed, swallowed, delivered, acted, done, reported>>

Hostapd ==
  /\ runner \in {"starting", "running"}
  /\ HostapdRegisters \/ HostapdAnswers \/ StationMoves \/ HostapdDies
  /\ UNCHANGED <<channelVars, startVars, loopVars>>

-----------------------------------------------------------------------------
Runner ==
  \/ OpenEnds \/ OpenTakes \/ Attempt \/ AttemptEnds \/ Resend \/ Ready
  \/ TakeShutdown \/ TakeRequest \/ Reply \/ OnEvent

Clients ==
  /\ \E c \in Calls : \/ \E r \in Requests : Send(c, r) \/ SendFails(c, r)
                      \/ Abandon(c)
  /\ UNCHANGED <<socketVars, startVars, eventVars, loopVars, hostapdVars>>

CallFails ==
  /\ \E c \in Calls : RecvFails(c, Held)
  /\ UNCHANGED <<socketVars, startVars, eventVars, loopVars, hostapdVars>>

OwnerDrops ==
  /\ DropRuntime
  /\ UNCHANGED <<socketVars, startVars, eventVars, loopVars, hostapdVars>>

Next == Runner \/ DelayEnds \/ AttemptWaits \/ SocketError \/ Clients \/ CallFails \/ OwnerDrops \/ Hostapd

Spec == Init /\ [][Next]_vars

\* The task and its timers run; callers and hostapd owe nothing.
FairSpec ==
  /\ Spec
  /\ WF_vars(Runner) /\ WF_vars(DelayEnds) /\ WF_vars(CallFails) /\ WF_vars(SendRefused)

\* hostapd, while it is there, goes on reading its socket; it need answer nothing.
ReadingHostapdSpec ==
  FairSpec /\ WF_vars((HostapdRegisters \/ HostapdAnswers) /\ Hostapd)
=============================================================================
