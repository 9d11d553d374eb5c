------------------------------- MODULE Startup -------------------------------
(***************************************************************************)
(* WifiStation::run before its loop (src/sta/mod.rs): SocketHandle::open   *)
(* (src/socket_handle.rs) for the command socket and again, inside         *)
(* EventSocket::new, for the event socket.  Each open waits for the        *)
(* daemon's socket to be there while it takes the requests that arrive and *)
(* defers them; they are put back into the channel, through the runtime's  *)
(* own sender, before the loop starts.                                     *)
(***************************************************************************)
EXTENDS RequestChannel

CONSTANTS
  RetryMinutes,      \* RETRY_MINUTES (5)
  SecondsPerMinute,  \* 60
  MaxLate            \* bound: seconds by which a one second sleep may be late

ASSUME StartupAssumption ==
  /\ RetryMinutes \in Nat \ {0}
  /\ SecondsPerMinute \in Nat \ {0, 1}
  /\ MaxLate \in Nat

VARIABLES
  stage,       \* "sync", "event": opening that socket; then "attach", "resend"
  deferred,    \* deferred_requests
  loop_count,  \* failed attempts of this open
  elapsed,     \* seconds this open has taken
  asleep,      \* between an attempt that failed and the next
  sent         \* history: the calls in the order their requests were sent

openVars == <<loop_count, elapsed, asleep>>
startVars == <<stage, deferred, openVars>>
vars == <<channelVars, startVars, sent>>

Starting == runner = "starting"
Opening == Starting /\ stage \in {"sync", "event"}

\* The sleep that ends the open whatever else happens.
Deadline == RetryMinutes * SecondsPerMinute

\* The calls whose oneshot sender the runtime owns.
Held == Range(queue) \cup Range(deferred)

-----------------------------------------------------------------------------
OpenInit == loop_count = 0 /\ elapsed = 0 /\ asleep = FALSE

Init ==
  /\ ChannelInit
  /\ runner = "starting"
  /\ stage = "sync"
  /\ deferred = <<>>
  /\ OpenInit
  /\ sent = <<>>

\* run() returns early and its locals, deferred requests included, are dropped.
Fail(result) ==
  /\ runner' = result
  /\ deferred' = <<>>
  /\ UNCHANGED <<request, answer, stage, openVars, sent>>

\* Variants of ConnectOk: the second open's requests replace the first's
\* instead of extending them; the count of attempts is not reset.
ConnectOkForgets ==
  /\ Opening /\ ~asleep
  /\ stage' = IF stage = "sync" THEN "event" ELSE "attach"
  /\ loop_count' = 0 /\ elapsed' = 0 /\ asleep' = FALSE
  /\ deferred' = <<>>
  /\ UNCHANGED <<channelVars, sent>>

ConnectOkCountsOn ==
  /\ Opening /\ ~asleep
  /\ stage' = IF stage = "sync" THEN "event" ELSE "attach"
  /\ elapsed' = 0 /\ asleep' = FALSE
  /\ UNCHANGED <<channelVars, deferred, loop_count, sent>>

\* The attempt to connect succeeds: that open is over.  The next one counts anew.
ConnectOk ==
  /\ Opening /\ ~asleep
  /\ stage' = IF stage = "sync" THEN "event" ELSE "attach"
  /\ loop_count' = 0 /\ elapsed' = 0 /\ asleep' = FALSE
  /\ UNCHANGED <<channelVars, deferred, sent>>

ConnectDenied ==
  /\ Opening /\ ~asleep
  /\ Fail("PermissionDenied")
  /\ UNCHANGED queue

ConnectRetry ==
  /\ Opening /\ ~asleep
  /\ loop_count' = loop_count + 1
  /\ asleep' = TRUE
  /\ UNCHANGED <<channelVars, stage, deferred, elapsed, sent>>

\* The second of sleep ends.  Past the deadline the other sleep has ended as
\* well: one attempt may still be made before it is seen, not a second one.
Wake ==
  /\ Opening /\ asleep /\ elapsed < Deadline
  /\ \E late \in 0..MaxLate : elapsed' = elapsed + 1 + late
  /\ asleep' = FALSE
  /\ UNCHANGED <<channelVars, stage, deferred, loop_count, sent>>

\* Variant of OpenTimeout: seen only between two attempts.
OpenTimeoutAwake ==
  /\ Opening /\ elapsed >= Deadline /\ ~asleep
  /\ Fail("TimeoutOpeningSocket")
  /\ UNCHANGED queue

OpenTimeout ==
  /\ Opening /\ elapsed >= Deadline
  /\ Fail("TimeoutOpeningSocket")
  /\ UNCHANGED queue

Defer ==
  /\ Opening /\ queue # <<>> /\ Kind(Head(queue)) # "Shutdown"
  /\ deferred' = Append(deferred, Head(queue))
  /\ queue' = Tail(queue)
  /\ UNCHANGED <<request, answer, runner, stage, openVars, sent>>

AbortStartup ==
  /\ Opening /\ queue # <<>> /\ Kind(Head(queue)) = "Shutdown"
  /\ queue' = Tail(queue)
  /\ Fail("StartupAborted")

\* The one ATTACH datagram.  Its reply is not awaited, but its send is: where the
\* queue of the daemon's socket is full this step waits (event_socket.rs:35).
SendAttach ==
  /\ Starting /\ stage = "attach"
  /\ \/ /\ stage' = "resend"
        /\ UNCHANGED <<channelVars, deferred, openVars, sent>>
     \/ /\ Fail("Io")
        /\ UNCHANGED queue

\* self_sender.send(request).await: waits for room like any other sender, and
\* nobody is receiving.
Resend ==
  /\ Starting /\ stage = "resend" /\ deferred # <<>>
  /\ Len(queue) < Capacity
  /\ queue' = Append(queue, Head(deferred))
  /\ deferred' = Tail(deferred)
  /\ UNCHANGED <<request, answer, runner, stage, openVars, sent>>

\* Variant of Ready: the loop starts before all is put back.
ReadyEarly ==
  /\ Starting /\ stage = "resend"
  /\ runner' = "running"
  /\ UNCHANGED <<request, answer, queue, startVars, sent>>

\* Broadcast::Ready, and on to run_internal.
Ready ==
  /\ Starting /\ stage = "resend" /\ deferred = <<>>
  /\ runner' = "running"
  /\ UNCHANGED <<request, answer, queue, startVars, sent>>

Runner ==
  \/ ConnectOk \/ ConnectDenied \/ ConnectRetry
  \/ Defer \/ AbortStartup \/ Resend \/ Ready

-----------------------------------------------------------------------------
\* What happens once the loop runs is the station's.
Clients ==
  /\ runner # "running"
  /\ \/ \E c \in Calls, r \in Requests :
          \/ Send(c, r) /\ sent' = Append(sent, c)
          \/ SendFails(c, r) /\ UNCHANGED sent
     \/ \E c \in Calls : (RecvFails(c, Held) \/ Abandon(c)) /\ UNCHANGED sent
     \/ DropRuntime /\ UNCHANGED sent
  /\ UNCHANGED startVars

Next == Runner \/ SendAttach \/ Wake \/ OpenTimeout \/ Clients

Spec == Init /\ [][Next]_vars

\* The task runs when it can, and its two timers elapse.
FairSpec ==
  /\ Spec
  /\ WF_vars(Runner) /\ WF_vars(Wake) /\ WF_vars(OpenTimeout)

\* The daemon also reads its socket, so that there is room for ATTACH, or is gone.
ReadingDaemonSpec == FairSpec /\ WF_vars(SendAttach)

-----------------------------------------------------------------------------
\* Through both opens nothing sent is lost, doubled or overtaken: the requests
\* deferred, then those in the channel, are the ones sent, in order.  The
\* deferred requests of the first open are kept while the second adds to them
\* (sta/mod.rs:55), and an open that ends keeps what it took (socket_handle.rs:75).
DeferredInOrder == Opening => deferred \o queue = sent

\* When the loop starts every request sent is in the channel, once.  Only order
\* may have changed: a request sent after the second open overtakes those that
\* are put back behind it.
ReadyLosesNothing ==
  runner = "running" =>
    /\ Range(queue) = Range(sent)
    /\ \A i, j \in DOMAIN queue : queue[i] = queue[j] => i = j

\* The minutes left that are logged, RETRY_MINUTES-(loop_count+1)/60, never
\* underflow the u64 they are computed in (socket_handle.rs:50).
MinutesLeftDefined ==
  Opening /\ ~asleep /\ loop_count % SecondsPerMinute = 0 =>
    (loop_count + 1) \div SecondsPerMinute <= RetryMinutes

\* run() does not stay in its start-up: it reaches the loop or returns.  Only with
\* a daemon that reads, and so long as what is sent before the loop starts fits
\* the channel, which the run sees to.
StartupEnds == (runner = "starting") ~> (runner # "starting")

\* "Shutdown supported during startup" (CHANGELOG.md, 0.1.3): a Shutdown that
\* was sent ends the start-up, or is left in the channel for the loop.
ShutdownEndsStartup ==
  \A c \in Calls :
    (runner = "starting" /\ c \in Range(queue) /\ Kind(c) = "Shutdown")
      ~> (runner # "starting")

=============================================================================
