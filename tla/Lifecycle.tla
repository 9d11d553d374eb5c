------------------------------ MODULE Lifecycle ------------------------------
(***************************************************************************)
(* The life of a WifiStation: its start-up and its loop composed; run(),   *)
(* which takes &mut self, called by the owner again after it has returned; *)
(* and a daemon that may exit and come back at any time, between the opens *)
(* of the two sockets as well.                                             *)
(*                                                                         *)
(* The request channel outlives a run.  Each run binds its sockets anew in *)
(* a fresh temporary directory, so nothing sent to an earlier one reaches  *)
(* it.  A socket stays connected to the process it was opened to: when the *)
(* daemon is restarted, a send fails.                                      *)
(***************************************************************************)
EXTENDS StationProps

CONSTANTS
  RetryMinutes, SecondsPerMinute, MaxLate,  \* as in Startup
  MaxRuns                                   \* bound: calls of run()

ASSUME LifecycleAssumption == MaxRuns \in Nat

VARIABLES
  stage, deferred, loop_count, elapsed, asleep,  \* as in Startup
  runs,        \* run() has been called so often
  daemon,      \* some daemon process is there to connect to
  eventUp      \* the one the event socket is connected to is still there;
               \* up says so of the command socket

\* runs takes the place of Startup's history: no step used here changes it.
Start == INSTANCE Startup WITH sent <- runs

openVars == <<loop_count, elapsed, asleep>>
startVars == <<stage, deferred, openVars>>
lifeVars == <<startVars, runs, daemon, eventUp>>
allVars == <<vars, lifeVars>>

Active == runner \in {"starting", "running"}
HeldByRun == Held \cup Range(deferred)

-----------------------------------------------------------------------------
LifeInit ==
  /\ ChannelInit /\ SocketInit /\ wire = <<>>
  /\ runner = "starting" /\ stage = "sync" /\ deferred = <<>> /\ Start!OpenInit
  /\ runs = 1
  /\ daemon \in BOOLEAN /\ up = FALSE /\ eventUp = FALSE /\ attached = FALSE
  /\ scanning = FALSE /\ current \in Networks \cup {None}
  /\ events = <<>> /\ acted = 0
  /\ op = InLoop /\ scan_requests = {} /\ select_request = NoSelect
  /\ link = "unknown"

\* A connect succeeds when there is a daemon.
Connects ==
  /\ daemon /\ Start!ConnectOk
  /\ up' = (up \/ stage = "sync")
  /\ eventUp' = (stage = "event")
  /\ UNCHANGED <<socketVars, attached, scanning, current, events, acted, stationVars,
                 runs, daemon>>

\* The rest of the start-up but for ATTACH.
StartStep ==
  /\ \/ ~daemon /\ Start!ConnectRetry
     \/ daemon /\ Start!ConnectDenied
     \/ Start!Defer \/ Start!AbortStartup \/ Start!Resend \/ Start!Ready
  /\ UNCHANGED <<socketVars, daemonVars, stationVars, runs, daemon, eventUp>>

StartTimers ==
  /\ Start!Wake \/ Start!OpenTimeout
  /\ UNCHANGED <<socketVars, daemonVars, stationVars, runs, daemon, eventUp>>

\* Variant of Attaches: when the daemon is gone the sockets are opened again.
AttachesOrReopens ==
  /\ runner = "starting" /\ stage = "attach"
  /\ stage' = IF eventUp THEN "resend" ELSE "sync"
  /\ wire' = IF eventUp THEN Append(wire, [cmd |-> "ATTACH", call |-> None]) ELSE wire
  /\ UNCHANGED <<channelVars, deferred, openVars, replies, lapsed, daemonVars,
                 stationVars, runs, daemon, eventUp>>

\* ATTACH is sent if the daemon the event socket was opened to is still there.
Attaches ==
  /\ Start!SendAttach
  /\ eventUp <=> runner' = "starting"
  /\ wire' = IF eventUp THEN Append(wire, [cmd |-> "ATTACH", call |-> None]) ELSE wire
  /\ UNCHANGED <<replies, lapsed, daemonVars, stationVars, runs, daemon, eventUp>>

\* Variants of RunAgain: the sockets of the last run are used again; what is
\* still in the channel is thrown away.
RunAgainOnSockets ==
  /\ runner \in SocketResults /\ runs < MaxRuns
  /\ runner' = "starting" /\ runs' = runs + 1
  /\ stage' = "sync" /\ deferred' = <<>>
  /\ loop_count' = 0 /\ elapsed' = 0 /\ asleep' = FALSE
  /\ lapsed' = FALSE
  /\ UNCHANGED <<request, answer, queue, wire, replies, daemonVars, stationVars, daemon, eventUp>>

RunAgainDrains ==
  /\ runner \in SocketResults /\ runs < MaxRuns
  /\ runner' = "starting" /\ runs' = runs + 1
  /\ stage' = "sync" /\ deferred' = <<>>
  /\ loop_count' = 0 /\ elapsed' = 0 /\ asleep' = FALSE
  /\ queue' = <<>> /\ wire' = <<>> /\ replies' = <<>> /\ events' = <<>> /\ lapsed' = FALSE
  /\ up' = FALSE /\ eventUp' = FALSE /\ attached' = FALSE
  /\ UNCHANGED <<request, answer, scanning, current, acted, stationVars, daemon>>

\* The daemon has a SCAN of the last run still to read.
LeftScan == up /\ \E i \in DOMAIN wire : wire[i].cmd = "SCAN"

\* run() is called again: new sockets and locals, the same channel.  What the
\* last run sent the daemon reads before this run's ATTACH, and answers it to
\* sockets that are closed; a scan is all that may come of it.
RunAgain ==
  /\ runner \in SocketResults /\ runs < MaxRuns
  /\ runner' = "starting" /\ runs' = runs + 1
  /\ stage' = "sync" /\ deferred' = <<>>
  /\ loop_count' = 0 /\ elapsed' = 0 /\ asleep' = FALSE
  /\ wire' = <<>> /\ replies' = <<>> /\ events' = <<>> /\ lapsed' = FALSE
  /\ up' = FALSE /\ eventUp' = FALSE /\ attached' = FALSE
  /\ scanning' \in {scanning, scanning \/ LeftScan}
  /\ UNCHANGED <<request, answer, queue, current, acted, stationVars, daemon>>

-----------------------------------------------------------------------------
\* The daemon exits; a new one knows neither our sockets nor a scan.
DaemonExits ==
  /\ daemon
  /\ daemon' = FALSE /\ up' = FALSE /\ eventUp' = FALSE /\ attached' = FALSE
  /\ scanning' = FALSE /\ current' = None
  /\ wire' = IF up \/ eventUp THEN Unsent(Len(wire)) ELSE wire
  /\ UNCHANGED <<channelVars, replies, lapsed, events, acted, stationVars, startVars, runs>>

DaemonStarts ==
  /\ ~daemon
  /\ daemon' = TRUE
  /\ current' \in Networks \cup {None}
  /\ UNCHANGED <<channelVars, socketVars, up, attached, scanning, events, acted, stationVars,
                 startVars, runs, eventUp>>

\* What it does while there is a run to notice.
DaemonWorks ==
  /\ Active
  /\ DaemonAttach \/ DaemonAnswers \/ DaemonIgnores \/ ScanFinishes \/ DaemonActs
  /\ UNCHANGED <<channelVars, stationVars, lifeVars>>

-----------------------------------------------------------------------------
Task ==
  \/ Connects \/ StartStep
  \/ Runner /\ UNCHANGED lifeVars

LoopAndCallers ==
  /\ TimerExpires \/ SocketError \/ MakeCall \/ GiveUp \/ OwnerDrops
  /\ UNCHANGED lifeVars

CallRefused ==
  /\ \E c \in Calls : RecvFails(c, HeldByRun)
  /\ UNCHANGED <<socketVars, daemonVars, stationVars, lifeVars>>

LifeNext ==
  \/ Task \/ Attaches \/ StartTimers \/ LoopAndCallers \/ CallRefused \/ RunAgain
  \/ DaemonExits \/ DaemonStarts \/ DaemonWorks

LifeSpec == LifeInit /\ [][LifeNext]_allVars

\* The task runs and the timers of its opens elapse; a daemon that is there reads
\* its socket, so that ATTACH can be sent, and owes nothing else.
LifeFairSpec ==
  /\ LifeSpec
  /\ WF_allVars(Task) /\ WF_allVars(Attaches)
  /\ WF_allVars(Start!Wake /\ StartTimers) /\ WF_allVars(Start!OpenTimeout /\ StartTimers)

-----------------------------------------------------------------------------
\* Each run starts in step with the daemon whatever the last one left unread:
\* until this run gives up on a command, the reply it reads is the reply to the
\* command it awaits (socket_handle.rs:31, a fresh directory for each socket).
StepRegained == RepliesInStep

\* While a run is in its start-up or its loop, a call still waiting is held by
\* it or was taken by an earlier one, and no call is held twice: not by the
\* channel and the deferred requests, nor by a run and the one before
\* (sta/mod.rs:55, 58).
OwnedOnce ==
  Active =>
    LET inHand == {c \in Calls : c = op.call \/ c = select_request.call} \cup scan_requests
        waiting == deferred \o queue
    IN  /\ \A i, j \in DOMAIN waiting : waiting[i] = waiting[j] => i = j
        /\ inHand \cap Range(waiting) = {}
        /\ runs = 1 => \A c \in Calls : Waiting(c) => c \in HeldByRun

Restartable == INSTANCE RestartableService WITH
  phase <- [c \in Calls |-> Phase(c)],
  service <- IF Active THEN "up" ELSE IF runner = "dropped" THEN "gone" ELSE "returned",
  orphans <- {c \in Calls : Waiting(c) /\ c \notin HeldByRun}

\* Over several runs the station is a RestartableService: a request still in
\* the channel when a run ends is not lost with it, and only a call that a run
\* had taken is ever refused.
ImplementsRestartable == Restartable!Spec

\* A start-up ends though the daemon comes and goes, between its two opens or
\* before ATTACH too: each open has its own deadline, and no failure goes back
\* to the first (sta/mod.rs:40, 49).  With a daemon that reads, and a channel that
\* holds all that is sent meanwhile.
EveryStartupEnds == (runner = "starting") ~> (runner # "starting")
=============================================================================
