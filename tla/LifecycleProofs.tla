--------------------------- MODULE LifecycleProofs ---------------------------
(***************************************************************************)
(* Proofs about the life of a WifiStation (src/sta/mod.rs): its start-up   *)
(* and its loop composed, run() called again after it has returned, and a  *)
(* daemon that comes and goes.  Each run starts in step with the daemon,   *)
(* owns each call once, and the whole implements RestartableService.       *)
(*                                                                         *)
(* A step of the loop is one of Station, and what is proved of those steps *)
(* is used as it is: the station's types hold except in a start-up, which  *)
(* has no handler at work.  What the invariants add is what one phase      *)
(* hands to the next.                                                      *)
(***************************************************************************)
EXTENDS Lifecycle, ServiceProofs

\* No handler is at work and nothing is pending: the loop's locals are gone.
Idle == op = InLoop /\ scan_requests = {} /\ select_request = NoSelect

\* The types of what outlives a phase: the channel, the sockets, the daemon and the
\* deferred requests; a handler is at work only in the loop.
LifeBase ==
  /\ SharedOK
  /\ request \in [Calls -> Requests \cup {NoRequest}]
  /\ answer \in [Calls -> Told]
  /\ queue \in Seq(Calls) /\ deferred \in Seq(Calls)
  /\ runner \in {"starting", "running", "dropped"} \cup SocketResults
  /\ link \in {"unknown", "Connected", "Disconnected"}
  /\ runs \in Nat \ {0}
  /\ \A c \in Range(queue) \cup Range(deferred) : request[c] # NoRequest
  /\ runner # "running" => Idle
  /\ runner # "starting" => deferred = <<>>

\* The types of a life: in the loop those of Station.
LifeType == LifeBase /\ (runner = "running" => TypeInv)

\* A runtime that does nothing has the station's types, unless it is starting up.
LEMMA IdleTypes == LifeBase /\ Idle /\ runner # "starting" => TypeInv
<1> SUFFICES ASSUME LifeBase, Idle, runner # "starting" PROVE TypeInv
  OBVIOUS
<1>1. op = InLoop /\ scan_requests = {} /\ select_request = NoSelect
  BY DEF Idle
<1>2. op \in Handler /\ select_request \in Select
  BY <1>1 DEF InLoop, NoSelect, Handler, Select, Callers
<1>3. TypeOK
  BY <1>1, <1>2 DEF LifeBase, SharedOK, TypeOK
<1>4. Made
  BY <1>1, ChannelAssumption DEF LifeBase, Made, Held, InLoop, NoSelect
<1>5. HandlersFit
  BY <1>1 DEF HandlersFit, InLoop, NoSelect
<1> QED BY <1>3, <1>4, <1>5 DEF TypeInv

\* Outside the start-up the station's types hold.
LEMMA StationTypes ==
  ASSUME LifeType, runner # "starting"
  PROVE  TypeInv
BY IdleTypes DEF LifeType, LifeBase

\* The runtime owns what is in the channel and what it deferred when it is idle.
LEMMA IdleHolds ==
  ASSUME Idle
  PROVE  Held = Range(queue)
BY ChannelAssumption DEF Idle, Held, InLoop, NoSelect

-----------------------------------------------------------------------------
(* What the steps that are not Station's do. *)

\* The start-up hands a request from one of its two places to the other, ends, or
\* goes on; it tells no caller anything, and sends nothing but ATTACH.
StartMove ==
  /\ runner = "starting"
  /\ UNCHANGED <<request, answer, replies, lapsed, attached, scanning, current, events,
                 acted, stationVars, runs>>
  /\ up' \in BOOLEAN
  /\ wire' \in {wire, Append(wire, [cmd |-> "ATTACH", call |-> None])}
  /\ \/ UNCHANGED <<runner, queue, deferred>>
     \/ /\ runner' = runner /\ queue # <<>>
        /\ deferred' = Append(deferred, Head(queue)) /\ queue' = Tail(queue)
     \/ /\ runner' = runner /\ deferred # <<>>
        /\ queue' = Append(queue, Head(deferred)) /\ deferred' = Tail(deferred)
     \/ runner' = "running" /\ deferred = <<>> /\ UNCHANGED <<queue, deferred>>
     \/ /\ runner' \in SocketResults /\ deferred' = <<>>
        /\ queue' = queue \/ (queue # <<>> /\ queue' = Tail(queue))

\* That is what each action of the start-up is.
LEMMA StartMoves ==
  ASSUME LifeType, Connects \/ StartStep \/ StartTimers \/ Attaches
  PROVE  StartMove
<1>0. up \in BOOLEAN /\ {"PermissionDenied", "TimeoutOpeningSocket", "StartupAborted", "Io"}
                          \subseteq SocketResults
  BY DEF LifeType, LifeBase, SharedOK, SocketResults
<1> USE DEF StartMove, socketVars, daemonVars, stationVars, Start!Opening, Start!Starting,
            Start!Fail, Start!channelVars
<1>1. CASE Connects
  BY <1>0, <1>1 DEF Connects, Start!ConnectOk
<1>2. CASE StartStep
  <2>1. CASE Start!ConnectRetry \/ Start!Ready
    BY <1>0, <1>2, <2>1 DEF StartStep, Start!ConnectRetry, Start!Ready, Start!startVars
  <2>2. CASE Start!ConnectDenied \/ Start!AbortStartup
    BY <1>0, <1>2, <2>2 DEF StartStep, Start!ConnectDenied, Start!AbortStartup
  <2>3. CASE Start!Defer \/ Start!Resend
    BY <1>0, <1>2, <2>3 DEF StartStep, Start!Defer, Start!Resend
  <2> QED BY <1>2, <2>1, <2>2, <2>3 DEF StartStep
<1>3. CASE StartTimers
  BY <1>0, <1>3 DEF StartTimers, Start!Wake, Start!OpenTimeout
<1>4. CASE Attaches
  BY <1>0, <1>4 DEF Attaches, Start!SendAttach
<1> QED BY <1>1, <1>2, <1>3, <1>4

-----------------------------------------------------------------------------
(* What the steps of the loop have in common. *)

\* The loop's turn, its timer and its sockets' errors.
LoopMove == runner = "running" /\ (Runner \/ TimerExpires \/ SocketError)

\* A turn of the loop receives at most the request at the head of the channel.
LEMMA LoopReceives ==
  ASSUME LoopMove
  PROVE  queue' = queue \/ (queue # <<>> /\ queue' = Tail(queue))
<1>1. CASE Runner
  BY <1>1
  DEF Runner, TakeShutdown, RejectSelect, TakeRequest, SelectTimeout, OnScanComplete,
      OnScanFailed, OnSelectEvent, OnOtherEvent, SimpleReply, ScanReply, ScanResultsReply,
      SelectReply, SelectStatusReply, ListReply, GetNetworkReply, NextEvent, HandleReply
<1> QED BY <1>1 DEF LoopMove, TimerExpires, SocketError, channelVars

\* The loop goes on, or run() returns with the locals of the loop dropped.
LEMMA LoopGoesOn ==
  ASSUME LoopMove
  PROVE  UNCHANGED runner \/ (runner' \in SocketResults /\ Idle')
<1>1. \A cmd, c, left :
        SendCommand(cmd, c, left) => UNCHANGED runner \/ (runner' \in SocketResults /\ Idle')
  BY DEF SendCommand, Return, SocketResults, Idle
<1>2. CASE TakeShutdown \/ SocketError
  BY <1>2 DEF TakeShutdown, SocketError, Return, SocketResults, Idle
<1>3. CASE TakeRequest \/ OnScanComplete
  BY <1>1, <1>3 DEF TakeRequest, OnScanComplete
<1>4. CASE SelectReply \/ ListReply \/ GetNetworkReply
  BY <1>1, <1>4 DEF SelectReply, ListReply, GetNetworkReply, Done
<1>5. CASE RejectSelect \/ SelectTimeout \/ OnScanFailed \/ OnSelectEvent \/ OnOtherEvent
           \/ TimerExpires
  BY <1>5 DEF RejectSelect, SelectTimeout, OnScanFailed, OnSelectEvent, OnOtherEvent,
              TimerExpires, channelVars
<1>6. CASE SimpleReply \/ ScanReply \/ ScanResultsReply \/ SelectStatusReply
  BY <1>6 DEF SimpleReply, ScanReply, ScanResultsReply, SelectStatusReply, Done
<1> QED BY <1>2, <1>3, <1>4, <1>5, <1>6 DEF LoopMove, Runner

\* A turn of the loop takes hold of no call it did not have.
LEMMA LoopHolds ==
  ASSUME TypeInv, LoopMove
  PROVE  Held' \subseteq Held
<1>1. /\ Range(queue') \subseteq Range(queue)
      /\ queue # <<>> => Head(queue) \in Held /\ Head(queue) \in Callers
  BY LoopReceives, RangeTail DEF TypeInv, TypeOK, Held, Callers
<1>2. /\ op.call \in Callers /\ op.call \in Held \cup {None}
      /\ scan_requests \subseteq Held /\ select_request.call \in Held \cup {None}
  BY DEF TypeInv, TypeOK, Handler, Select, Callers, Held
<1>3. CASE TakeShutdown \/ SocketError
  BY <1>1, <1>3, ReturnHeld DEF TakeShutdown, SocketError, TypeInv
<1>4. CASE RejectSelect \/ OnOtherEvent
  BY <1>1, <1>4 DEF RejectSelect, OnOtherEvent, Held, stationVars
<1>5. CASE SelectTimeout \/ OnScanFailed \/ OnSelectEvent
  BY <1>1, <1>5, ChannelAssumption
  DEF SelectTimeout, OnScanFailed, OnSelectEvent, Held, NoSelect
<1>6. CASE TimerExpires
  BY <1>1, <1>6 DEF TimerExpires, Held, TypeInv, TypeOK, Select
<1>7. CASE TakeRequest
  BY <1>1, <1>7, SendCommandHeld DEF TakeRequest, TypeInv
<1>8. CASE OnScanComplete
  BY <1>1, <1>8, SendCommandHeld DEF OnScanComplete, TypeInv, Callers
<1>9. CASE SimpleReply \/ ScanReply \/ ScanResultsReply \/ SelectStatusReply
  <2>1. Done /\ UNCHANGED queue
    BY <1>9 DEF SimpleReply, ScanReply, ScanResultsReply, SelectStatusReply, HandleReply
  <2>2. op.call # None => {op.call} \subseteq Held
    BY <1>2
  <2>3. CASE SimpleReply
    BY <1>2, <2>1, <2>3, DoneHeld DEF SimpleReply, TypeInv
  <2>4. CASE ScanReply
    <3>1. op.call \in Calls
      BY <2>4 DEF ScanReply, AwaitingFor, TypeInv, HandlersFit
    <3>2. scan_requests' \subseteq Held /\ UNCHANGED select_request
      BY <1>2, <2>2, <2>4, <3>1, ChannelAssumption DEF ScanReply
    <3> QED BY <1>2, <2>1, <3>2, DoneHeld DEF TypeInv
  <2>5. CASE ScanResultsReply
    BY <1>2, <2>1, <2>5, DoneHeld DEF ScanResultsReply, TypeInv
  <2>6. CASE SelectStatusReply
    <3>1. select_request'.call \in Held \cup {None} /\ UNCHANGED scan_requests
      BY <1>2, <2>6 DEF SelectStatusReply
    <3> QED BY <1>2, <2>1, <3>1, DoneHeld DEF TypeInv
  <2> QED BY <1>9, <2>3, <2>4, <2>5, <2>6
<1>10. CASE SelectReply \/ ListReply \/ GetNetworkReply
  <2>1. \/ \E cmd, left : SendCommand(cmd, op.call, left)
        \/ Done /\ UNCHANGED <<queue, scan_requests, select_request>>
    BY <1>10 DEF SelectReply, ListReply, GetNetworkReply, HandleReply
  <2> QED BY <1>1, <1>2, <2>1, SendCommandHeld, DoneHeld DEF TypeInv
<1> QED BY <1>3, <1>4, <1>5, <1>6, <1>7, <1>8, <1>9, <1>10 DEF LoopMove, Runner

\* The daemon's moves, in a life.
DaemonMove == DaemonExits \/ DaemonStarts \/ DaemonWorks

\* A daemon that exits leaves of wire what it was, its last datagram or nothing.
LEMMA ExitLeaves ==
  ASSUME SharedOK, DaemonExits
  PROVE  /\ wire' \in Seq(Datagram)
         /\ \/ wire' = wire
            \/ \A i \in DOMAIN wire' :
                 i = 1 /\ Len(wire) \in DOMAIN wire /\ wire'[i] = wire[Len(wire)]
<1>1. wire' = Unsent(Len(wire)) \/ wire' = wire
  BY Zenon DEF DaemonExits
<1> QED BY <1>1, UnsentIs DEF SharedOK

\* The daemon touches nothing of the runtime.
LEMMA DaemonMoves ==
  ASSUME SharedOK, DaemonMove
  PROVE  SharedOK' /\ UNCHANGED <<channelVars, stationVars, deferred, runs>>
<1>1. CASE DaemonExits
  <2>1. wire' \in Seq(Datagram) /\ UNCHANGED <<replies, events, acted>>
    BY <1>1, ExitLeaves DEF DaemonExits
  <2>2. up' = FALSE /\ attached' = FALSE /\ scanning' = FALSE /\ current' = None
    BY <1>1, Zenon DEF DaemonExits
  <2>3. lapsed' \in BOOLEAN
    BY <1>1, Zenon DEF DaemonExits, SharedOK
  <2>4. UNCHANGED <<channelVars, stationVars, deferred, runs>>
    BY <1>1 DEF DaemonExits, startVars
  <2>5. up' \in BOOLEAN /\ attached' \in BOOLEAN /\ scanning' \in BOOLEAN
    BY <2>2
  <2> QED BY <2>1, <2>2, <2>3, <2>4, <2>5 DEF SharedOK
<1>2. CASE DaemonStarts
  BY <1>2 DEF DaemonStarts, SharedOK, socketVars, startVars
<1>3. CASE DaemonWorks
  <2>1. Daemon /\ UNCHANGED <<channelVars, stationVars, deferred, runs>>
    BY <1>3 DEF DaemonWorks, Daemon, lifeVars, startVars
  <2> QED BY <2>1, DaemonType
<1> QED BY <1>1, <1>2, <1>3 DEF DaemonMove

\* What callers and the owner of the runtime do, between two calls of run().
CallerMove == (MakeCall \/ GiveUp \/ OwnerDrops \/ CallRefused) /\ UNCHANGED lifeVars

\* The steps of a life.
LEMMA LifeCases ==
  ASSUME LifeType, LifeNext
  PROVE  \/ StartMove \/ (LoopMove /\ UNCHANGED lifeVars) \/ CallerMove
         \/ RunAgain \/ DaemonMove
<1>1. CASE Task \/ Attaches \/ StartTimers
  <2>1. Runner => runner = "running"
    BY DEF Runner, TakeShutdown, RejectSelect, TakeRequest, SelectTimeout, OnScanComplete,
           OnScanFailed, OnSelectEvent, OnOtherEvent, SimpleReply, ScanReply,
           ScanResultsReply, SelectReply, SelectStatusReply, ListReply, GetNetworkReply,
           NextEvent, Looping, AwaitingFor
  <2> QED BY <1>1, <2>1, StartMoves DEF Task, LoopMove
<1>2. CASE LoopAndCallers
  <2>1. TimerExpires => runner = "running"
    BY DEF TimerExpires, LifeType, LifeBase, Idle
  <2> QED BY <1>2, <2>1 DEF LoopAndCallers, SocketError, LoopMove, CallerMove
<1>3. CASE CallRefused
  BY <1>3 DEF CallRefused, CallerMove
<1> QED BY <1>1, <1>2, <1>3 DEF LifeNext, DaemonMove

-----------------------------------------------------------------------------
(* The types. *)

\* What a caller or the owner does keeps the types of the channel.
LEMMA CallerBase ==
  ASSUME LifeType, CallerMove
  PROVE  LifeBase'
<1>1. UNCHANGED <<socketVars, daemonVars, stationVars, deferred, runs>>
  BY DEF CallerMove, MakeCall, GiveUp, OwnerDrops, CallRefused, lifeVars, startVars
<1>2. SharedOK' /\ link' \in {"unknown", "Connected", "Disconnected"} /\ runs' \in Nat \ {0}
      /\ deferred' \in Seq(Calls)
  BY <1>1 DEF LifeType, LifeBase, SharedOK, socketVars, daemonVars, stationVars
<1>3. UNCHANGED runner \/ (runner \in SocketResults /\ runner' = "dropped")
  BY DEF CallerMove, MakeCall, GiveUp, OwnerDrops, CallRefused, Send, SendFails, Abandon,
         DropRuntime, RecvFails
<1>4. /\ runner' \in {"starting", "running", "dropped"} \cup SocketResults
      /\ runner' # "running" => Idle'
      /\ runner' # "starting" => deferred' = <<>>
  <2>1. "running" \notin SocketResults /\ "starting" \notin SocketResults
    BY DEF SocketResults
  <2>2. UNCHANGED <<op, scan_requests, select_request, deferred>>
    BY <1>1 DEF stationVars
  <2> QED BY <1>3, <2>1, <2>2 DEF LifeType, LifeBase, Idle
<1>5. /\ request' \in [Calls -> Requests \cup {NoRequest}] /\ answer' \in [Calls -> Told]
      /\ queue' \in Seq(Calls)
      /\ \A c \in Range(queue') \cup Range(deferred') : request'[c] # NoRequest
  <2>0. /\ Ans("Ok", None) \in Told /\ Ans("NotRunning", None) \in Told
        /\ Ans("Abandoned", None) \in Told
    BY DEF Ans, Told, Results, Callers
  <2>1. CASE MakeCall
    <3>1. PICK c \in Calls, q \in Requests : Send(c, q) \/ SendFails(c, q)
      BY <2>1 DEF MakeCall
    <3>2. request' = [request EXCEPT ![c] = q] /\ q # NoRequest
      BY <3>1, ChannelAssumption DEF Send, SendFails, NoRequest
    <3>3. request' \in [Calls -> Requests \cup {NoRequest}]
          /\ \A d \in Calls : d = c \/ request[d] # NoRequest => request'[d] # NoRequest
      BY <3>2 DEF LifeType, LifeBase
    <3>4. answer' \in [Calls -> Told]
      BY <2>0, <3>1 DEF Send, SendFails, LifeType, LifeBase
    <3>5. queue' \in Seq(Calls) /\ Range(queue') \subseteq Range(queue) \cup {c}
      <4>1. queue \in Seq(Calls) /\ queue' \in {queue, Append(queue, c)}
        BY <3>1 DEF Send, SendFails, LifeType, LifeBase
      <4>2. Append(queue, c) \in Seq(Calls)
        BY <4>1
      <4> QED BY <4>1, <4>2, RangeAppend
    <3>6. Range(queue) \subseteq Calls /\ Range(deferred) \subseteq Calls
      BY DEF Range, LifeType, LifeBase
    <3>7. \A d \in Range(queue) \cup Range(deferred) : request[d] # NoRequest
      BY DEF LifeType, LifeBase
    <3>8. Range(deferred') = Range(deferred)
      BY <1>1
    <3> QED BY <3>3, <3>4, <3>5, <3>6, <3>7, <3>8
  <2>2. CASE GiveUp \/ CallRefused
    <3>1. PICK c \in Calls, res \in {"NotRunning", "Abandoned"} :
            /\ answer' = [answer EXCEPT ![c] = Ans(res, None)]
            /\ UNCHANGED <<request, queue>>
      BY <2>2 DEF GiveUp, CallRefused, RecvFails, Abandon
    <3> QED BY <1>1, <2>0, <3>1 DEF LifeType, LifeBase
  <2>3. CASE OwnerDrops
    <3>1. queue' = <<>> /\ UNCHANGED <<request, answer>> /\ Range(queue') = {}
      BY <2>3 DEF OwnerDrops, DropRuntime, Range
    <3> QED BY <1>1, <3>1 DEF LifeType, LifeBase
  <2> QED BY <2>1, <2>2, <2>3 DEF CallerMove
<1> QED BY <1>2, <1>4, <1>5 DEF LifeBase

\* What a caller does outside the start-up is a step of Station: there is nothing
\* deferred then, so what this run has is what the station holds.
LEMMA CallerNext ==
  ASSUME LifeType, runner # "starting", CallerMove
  PROVE  MakeCall \/ CallFails \/ GiveUp \/ OwnerDrops
<1>1. HeldByRun = Held
  BY DEF LifeType, LifeBase, HeldByRun, Range
<1> QED BY <1>1 DEF CallerMove, CallRefused, CallFails

\* A step of the start-up keeps the types.
LEMMA StartType ==
  ASSUME LifeType, StartMove
  PROVE  LifeBase'
<1>0. /\ request \in [Calls -> Requests \cup {NoRequest}] /\ answer \in [Calls -> Told]
      /\ queue \in Seq(Calls) /\ deferred \in Seq(Calls)
      /\ link \in {"unknown", "Connected", "Disconnected"} /\ runs \in Nat \ {0}
      /\ \A c \in Range(queue) \cup Range(deferred) : request[c] # NoRequest
      /\ Idle /\ runner = "starting"
  BY DEF LifeType, LifeBase, StartMove
<1>1. SharedOK'
  <2>1. [cmd |-> "ATTACH", call |-> None] \in Datagram
    BY DEF Datagram, Callers
  <2>2. wire' \in Seq(Datagram)
    <3>1. wire \in Seq(Datagram)
      BY DEF LifeType, LifeBase, SharedOK
    <3> QED BY <2>1, <3>1 DEF StartMove
  <2>3. up' \in BOOLEAN
    BY Zenon DEF StartMove
  <2> QED BY <2>2, <2>3 DEF StartMove, LifeType, LifeBase, SharedOK
<1>2. Idle' /\ UNCHANGED <<request, answer, link, runs>>
  BY <1>0 DEF StartMove, stationVars, Idle
<1>3. /\ runner' \in {"starting", "running", "dropped"} \cup SocketResults
      /\ runner' # "starting" => deferred' = <<>>
  BY <1>0 DEF StartMove, SocketResults
<1>4. /\ queue' \in Seq(Calls) /\ deferred' \in Seq(Calls)
      /\ Range(queue') \cup Range(deferred') \subseteq Range(queue) \cup Range(deferred)
  <2>1. CASE queue # <<>> /\ deferred' = Append(deferred, Head(queue)) /\ queue' = Tail(queue)
    <3>1. Head(queue) \in Calls /\ Tail(queue) \in Seq(Calls)
      BY <1>0, <2>1
    <3> QED BY <1>0, <2>1, <3>1, RangeTail, RangeAppend
  <2>2. CASE deferred # <<>> /\ queue' = Append(queue, Head(deferred)) /\ deferred' = Tail(deferred)
    <3>1. Head(deferred) \in Calls /\ Tail(deferred) \in Seq(Calls)
      BY <1>0, <2>2
    <3> QED BY <1>0, <2>2, <3>1, RangeTail, RangeAppend
  <2>3. CASE /\ deferred' \in {deferred, <<>>}
             /\ queue' = queue \/ (queue # <<>> /\ queue' = Tail(queue))
    <3>1. queue' \in Seq(Calls) /\ Range(queue') \subseteq Range(queue)
      <4>1. CASE queue' = queue
        BY <1>0, <4>1
      <4>2. CASE queue # <<>> /\ queue' = Tail(queue)
        <5>1. Tail(queue) \in Seq(Calls)
          BY <1>0, <4>2
        <5> QED BY <1>0, <4>2, <5>1, RangeTail
      <4> QED BY <2>3, <4>1, <4>2
    <3>2. Range(<<>>) = {} /\ <<>> \in Seq(Calls)
      BY DEF Range
    <3> QED BY <1>0, <2>3, <3>1, <3>2
  <2> QED BY <2>1, <2>2, <2>3 DEF StartMove
<1> QED BY <1>0, <1>1, <1>2, <1>3, <1>4 DEF LifeBase

\* Every step of a life keeps the types.
LEMMA LifeTypeStep ==
  ASSUME LifeType, [LifeNext]_allVars
  PROVE  LifeType'
<1>1. CASE StartMove
  <2>1. LifeBase' /\ Idle'
    BY <1>1, StartType DEF StartMove, LifeType, LifeBase, stationVars, Idle
  <2>2. (LifeBase /\ Idle /\ runner # "starting" => TypeInv)'
    BY IdleTypes, PTL
  <2> QED BY <2>1, <2>2 DEF LifeType
<1>2. CASE LoopMove /\ UNCHANGED lifeVars
  <2>1. TypeInv /\ Next /\ runner = "running"
    BY <1>2 DEF LoopMove, LifeType, Next
  <2>2. TypeInv'
    BY <2>1, TypeStep, FitStep DEF TypeInv
  <2>3. runner' # "starting" /\ (runner' # "running" => Idle')
    BY <1>2, <2>1, LoopGoesOn DEF SocketResults
  <2>4. UNCHANGED <<deferred, runs>> /\ deferred = <<>>
    BY <1>2, <2>1 DEF lifeVars, startVars, LifeType, LifeBase
  <2>5. \A c \in Range(queue') \cup Range(deferred') : request'[c] # NoRequest
    <3>1. Range(deferred') = {} /\ Range(queue') \subseteq Calls
      BY <2>2, <2>4 DEF Range, TypeInv, TypeOK
    <3> QED BY <2>2, <3>1 DEF TypeInv, Made, Held
  <2>6. SharedOK'
    BY <2>2 DEF TypeInv, TypeOK, SharedOK
  <2> QED BY <2>2, <2>3, <2>4, <2>5, <2>6 DEF LifeType, LifeBase, TypeInv, TypeOK
<1>3. CASE CallerMove
  <2>1. LifeBase'
    BY <1>3, CallerBase
  <2>2. CASE runner = "running"
    <3>1. TypeInv /\ Next
      BY <1>3, <2>2, CallerNext DEF LifeType, Next
    <3>2. TypeInv'
      BY <3>1, TypeStep, FitStep DEF TypeInv
    <3> QED BY <2>1, <3>2 DEF LifeType
  <2>3. CASE runner # "running"
    <3>1. UNCHANGED runner \/ runner' = "dropped"
      BY <1>3 DEF CallerMove, MakeCall, GiveUp, OwnerDrops, CallRefused, Send, SendFails,
                  Abandon, DropRuntime, RecvFails
    <3> QED BY <2>1, <2>3, <3>1 DEF LifeType
  <2> QED BY <2>2, <2>3
<1>4. CASE RunAgain
  <2>1. /\ runner' = "starting" /\ runs' = runs + 1 /\ deferred' = <<>>
        /\ wire' = <<>> /\ replies' = <<>> /\ events' = <<>>
        /\ UNCHANGED <<request, answer, queue, current, acted, stationVars>>
    BY <1>4 DEF RunAgain
  <2>a. scanning \in BOOLEAN /\ scanning' \in {scanning, scanning \/ LeftScan}
    BY <1>4, Zenon DEF RunAgain, SharedOK, LifeType, LifeBase
  <2>b. scanning' \in BOOLEAN
    BY <2>a, Zenon
  <2>2. up' \in BOOLEAN /\ attached' \in BOOLEAN /\ lapsed' \in BOOLEAN
    BY <1>4, Zenon DEF RunAgain
  <2>3. <<>> \in Seq(Datagram) /\ <<>> \in Seq(Reply) /\ <<>> \in Seq(DaemonEvent)
        /\ <<>> \in Seq(Calls) /\ Range(<<>>) = {}
    BY DEF Range
  <2>4. SharedOK'
    BY <2>1, <2>2, <2>b, <2>3 DEF SharedOK, LifeType, LifeBase
  <2>5. Idle'
    BY <1>4, <2>1 DEF RunAgain, LifeType, LifeBase, Idle, stationVars, SocketResults
  <2>6. \A c \in Range(queue') \cup Range(deferred') : request'[c] # NoRequest
    BY <2>1, <2>3 DEF LifeType, LifeBase
  <2>7. link' \in {"unknown", "Connected", "Disconnected"} /\ runs' \in Nat \ {0}
    BY <2>1 DEF LifeType, LifeBase, stationVars
  <2> QED BY <2>1, <2>3, <2>4, <2>5, <2>6, <2>7 DEF LifeType, LifeBase
<1>5. CASE DaemonMove
  <2>1. SharedOK' /\ UNCHANGED <<channelVars, stationVars, deferred, runs>>
    BY <1>5, DaemonMoves DEF LifeType, LifeBase
  <2>2. LifeBase'
    BY <2>1 DEF LifeType, LifeBase, Idle, channelVars, stationVars
  <2>3. TypeInv => TypeInv'
    BY <2>1 DEF TypeInv, TypeOK, SharedOK, Made, Held, HandlersFit, Kind, channelVars,
                stationVars
  <2> QED BY <2>1, <2>2, <2>3 DEF LifeType, channelVars
<1>6. CASE UNCHANGED allVars
  <2>1. LifeBase'
    BY <1>6 DEF LifeType, LifeBase, SharedOK, Idle, allVars, vars, lifeVars, startVars,
                channelVars, socketVars, daemonVars, stationVars
  <2>2. TypeInv => TypeInv'
    BY <1>6 DEF TypeInv, TypeOK, Made, Held, HandlersFit, Kind, allVars, vars,
                channelVars, socketVars, daemonVars, stationVars
  <2> QED BY <1>6, <2>1, <2>2 DEF LifeType, allVars, vars, channelVars
<1> QED BY <1>1, <1>2, <1>3, <1>4, <1>5, <1>6, LifeCases

\* A life begins with nothing sent and no handler at work.
LEMMA LifeTypeInit == LifeInit => LifeType
<1> SUFFICES ASSUME LifeInit PROVE LifeType
  OBVIOUS
<1>1. NoAnswer \in Told
  BY DEF NoAnswer, Ans, Told, Results, Callers
<1>2. /\ request = [c \in Calls |-> NoRequest] /\ answer = [c \in Calls |-> NoAnswer]
      /\ queue = <<>> /\ deferred = <<>> /\ wire = <<>> /\ replies = <<>> /\ events = <<>>
      /\ runner = "starting" /\ link = "unknown" /\ runs = 1 /\ acted = 0
      /\ current \in Networks \cup {None}
  BY DEF LifeInit, ChannelInit, SocketInit
<1>3. lapsed \in BOOLEAN /\ up \in BOOLEAN /\ attached \in BOOLEAN /\ scanning \in BOOLEAN
  BY Zenon DEF LifeInit, SocketInit
<1>4. <<>> \in Seq(Datagram) /\ <<>> \in Seq(Reply) /\ <<>> \in Seq(DaemonEvent)
      /\ <<>> \in Seq(Calls) /\ Range(<<>>) = {}
  BY DEF Range
<1>5. SharedOK
  BY <1>2, <1>3, <1>4 DEF SharedOK
<1>6. Idle
  BY DEF LifeInit, Idle
<1> QED BY <1>1, <1>2, <1>4, <1>5, <1>6 DEF LifeType, LifeBase

\* Through start-ups, loops and what is between two runs, with the daemon coming and
\* going, every variable keeps its type; the channel and what a start-up deferred hold
\* only requests that were made, and no handler is at work but in the loop.
THEOREM LifeTypes == LifeSpec => []LifeType
<1>1. LifeType /\ [LifeNext]_allVars => LifeType'
  BY LifeTypeStep
<1> QED BY <1>1, LifeTypeInit, PTL DEF LifeSpec

-----------------------------------------------------------------------------
(* Requests and replies stay in step in each run. *)

\* In a start-up nothing was asked and nothing can have been answered: the sockets
\* are new.  The loop begins with RepliesInStep for that reason only.
StepInv ==
  /\ RepliesInStep
  /\ runner = "starting" => replies = <<>> /\ ~lapsed /\ NoCommandIn(wire)

\* While a start-up lasts the daemon has nothing to answer.
LEMMA DaemonQuiet ==
  ASSUME LifeType, StepInv, DaemonMove, runner = "starting"
  PROVE  replies' = <<>> /\ ~lapsed' /\ NoCommandIn(wire')
<1>1. /\ replies = <<>> /\ ~lapsed /\ NoCommandIn(wire)
      /\ wire \in Seq(Datagram)
  BY DEF StepInv, LifeType, LifeBase, SharedOK
<1>2. wire # <<>> => /\ Head(wire).cmd = "ATTACH"
                     /\ \A i \in DOMAIN Tail(wire) :
                          i + 1 \in DOMAIN wire /\ Tail(wire)[i] = wire[i + 1]
  BY <1>1, TailElements DEF NoCommandIn, IsCommand
<1>3. CASE DaemonExits
  <2>1. UNCHANGED <<replies, lapsed>>
    BY <1>3 DEF DaemonExits
  <2>2. \/ wire' = wire
        \/ \A i \in DOMAIN wire' :
             i = 1 /\ Len(wire) \in DOMAIN wire /\ wire'[i] = wire[Len(wire)]
    BY <1>3, ExitLeaves DEF LifeType, LifeBase
  <2> QED BY <1>1, <2>1, <2>2 DEF NoCommandIn
<1>4. CASE DaemonStarts
  BY <1>1, <1>4 DEF DaemonStarts, socketVars
<1>5. CASE DaemonWorks
  <2>1. UNCHANGED <<replies, lapsed>> /\ wire' \in {wire, Tail(wire)}
        /\ (wire' = Tail(wire) => wire # <<>> \/ wire' = wire)
    BY <1>1, <1>2, <1>5 DEF DaemonWorks, DaemonAttach, DaemonAnswers, DaemonIgnores,
                            ScanFinishes, DaemonActs, socketVars
  <2> QED BY <1>1, <1>2, <2>1 DEF NoCommandIn
<1> QED BY <1>3, <1>4, <1>5 DEF DaemonMove

\* Outside the start-up the daemon keeps requests and replies in step, be it by exiting.
LEMMA DaemonKeepsStep ==
  ASSUME LifeType, RepliesInStep, DaemonMove, runner # "starting"
  PROVE  RepliesInStep'
<1>1. UNCHANGED <<runner, op>>
  BY DaemonMoves DEF LifeType, LifeBase, channelVars, stationVars
<1> SUFFICES ASSUME runner = "running" PROVE RepliesInStep'
  BY <1>1 DEF RepliesInStep
<1>2. CASE DaemonExits
  <2>1. UNCHANGED <<replies, lapsed>>
    BY <1>2 DEF DaemonExits
  <2>2. \/ wire' = wire
        \/ \A i \in DOMAIN wire' :
             i = 1 /\ Len(wire) \in DOMAIN wire /\ wire'[i] = wire[Len(wire)]
    BY <1>2, ExitLeaves DEF LifeType, LifeBase
  <2> QED BY <1>1, <2>1, <2>2 DEF RepliesInStep, IsCommand
<1>3. CASE DaemonStarts
  BY <1>1, <1>3, UntouchedInStep DEF DaemonStarts, socketVars
<1>4. CASE DaemonWorks
  <2>1. DaemonStep
    BY <1>4 DEF DaemonWorks, DaemonStep, Daemon, Undisturbed
  <2> QED BY <2>1, DaemonInStep DEF LifeType
<1> QED BY <1>2, <1>3, <1>4 DEF DaemonMove

\* Every step of a life keeps requests and replies in step.
LEMMA LifeInStep ==
  ASSUME LifeType, StepInv, [LifeNext]_allVars
  PROVE  StepInv'
<1>1. CASE StartMove
  <2>1. replies' = <<>> /\ ~lapsed' /\ NoCommandIn(wire')
    <3>1. runner = "starting" /\ UNCHANGED <<replies, lapsed>> /\ NoCommandIn(wire)
          /\ wire' \in {wire, Append(wire, [cmd |-> "ATTACH", call |-> None])}
          /\ replies = <<>> /\ ~lapsed
      BY <1>1 DEF StartMove, StepInv
    <3>2. wire \in Seq(Datagram) /\ [cmd |-> "ATTACH", call |-> None] \in Datagram
      BY DEF LifeType, LifeBase, SharedOK, Datagram, Callers
    <3>3. ~IsCommand([cmd |-> "ATTACH", call |-> None])
      BY DEF IsCommand
    <3>4. NoCommandIn(Append(wire, [cmd |-> "ATTACH", call |-> None]))
      BY <3>1, <3>2, <3>3, AppendElements DEF NoCommandIn
    <3> QED BY <3>1, <3>4
  <2> QED BY <2>1, QuietInStep DEF StepInv
<1>2. CASE LoopMove /\ UNCHANGED lifeVars
  <2>1. runner' # "starting" /\ TypeInv /\ Next
    BY <1>2, LoopGoesOn DEF LoopMove, LifeType, Next, SocketResults
  <2> QED BY <2>1, StepInStep DEF StepInv
<1>3. CASE CallerMove
  <2>1. UNCHANGED <<replies, lapsed, wire, op>> /\ (UNCHANGED runner \/ runner' = "dropped")
    BY <1>3 DEF CallerMove, MakeCall, GiveUp, OwnerDrops, CallRefused, Send, SendFails,
                Abandon, DropRuntime, RecvFails, socketVars, stationVars
  <2> QED BY <2>1, UntouchedInStep DEF StepInv
<1>4. CASE RunAgain
  <2>1. replies' = <<>> /\ wire' = <<>> /\ ~lapsed'
    BY <1>4 DEF RunAgain
  <2>2. NoCommandIn(wire')
    BY <2>1 DEF NoCommandIn
  <2> QED BY <2>1, <2>2, QuietInStep DEF StepInv
<1>5. CASE DaemonMove
  <2>1. UNCHANGED runner
    BY <1>5, DaemonMoves DEF LifeType, LifeBase, channelVars
  <2>2. CASE runner = "starting"
    BY <1>5, <2>2, DaemonQuiet, QuietInStep DEF StepInv
  <2>3. CASE runner # "starting"
    BY <1>5, <2>1, <2>3, DaemonKeepsStep DEF StepInv
  <2> QED BY <2>2, <2>3
<1>6. CASE UNCHANGED allVars
  BY <1>6, UntouchedInStep DEF StepInv, allVars, vars, channelVars, socketVars, stationVars
<1> QED BY <1>1, <1>2, <1>3, <1>4, <1>5, <1>6, LifeCases

\* Each run of WifiStation reads the reply to the command it awaits, whatever the run
\* before it left unread: its sockets are new (socket_handle.rs:31).
THEOREM InStepInEachRun == LifeSpec => []StepRegained
<1>1. LifeInit => StepInv
  <2> SUFFICES ASSUME LifeInit PROVE StepInv
    OBVIOUS
  <2>1. replies = <<>> /\ ~lapsed /\ wire = <<>> /\ runner = "starting"
    BY DEF LifeInit, SocketInit
  <2> QED BY <2>1 DEF StepInv, RepliesInStep, NoCommandIn
<1>2. LifeType /\ StepInv /\ [LifeNext]_allVars => StepInv'
  BY LifeInStep
<1>3. StepInv => StepRegained
  BY DEF StepInv, StepRegained
<1> QED BY <1>1, <1>2, <1>3, LifeTypes, PTL DEF LifeSpec

-----------------------------------------------------------------------------
(* Each call is owned once. *)

\* What OwnedOnce says by the names of the places, and what it needs between two
\* runs: what is in the channel is in it once, then too.
LifeOwner ==
  /\ Once(queue) /\ Once(deferred) /\ Range(queue) \cap Range(deferred) = {}
  /\ runner = "running" => \A c \in Calls : Alone(c)
  /\ Active /\ runs = 1 => \A c \in Calls : Waiting(c) => c \in HeldByRun

\* What a run has when no handler is at work.
LEMMA IdleHeldByRun == Idle => HeldByRun = Range(queue) \cup Range(deferred)
BY IdleHolds DEF HeldByRun

\* In the loop all that was deferred has been put back.
LEMMA LoopHeldByRun == LifeType /\ runner # "starting" => HeldByRun = Held
BY DEF LifeType, LifeBase, HeldByRun, Range

\* Every call a run has was made.
LEMMA HeldMade ==
  ASSUME LifeType, NEW c \in Calls, c \in HeldByRun
  PROVE  request[c] # NoRequest
<1>1. CASE runner = "running"
  BY <1>1, LoopHeldByRun DEF LifeType, TypeInv, Made
<1>2. CASE runner # "running"
  BY <1>2, IdleHeldByRun DEF LifeType, LifeBase
<1> QED BY <1>1, <1>2

\* A call that is made is one more that the run has.
LEMMA SendHolds ==
  ASSUME LifeType, NEW c \in Calls, NEW q \in Requests, Send(c, q),
         UNCHANGED <<stationVars, deferred>>
  PROVE  /\ c \notin HeldByRun /\ HeldByRun' = HeldByRun \cup {c}
         /\ c \notin Range(queue) \cup Range(deferred)
         /\ Range(queue') = Range(queue) \cup {c}
         /\ Once(queue) => Once(queue')
<1>1. request[c] = NoRequest /\ queue' = Append(queue, c)
  BY DEF Send
<1>2. c \notin HeldByRun
  BY <1>1, HeldMade
<1>3. Range(queue) \cup Range(deferred) \subseteq HeldByRun
  BY DEF HeldByRun, Held
<1>4. queue \in Seq(Calls)
  BY DEF LifeType, LifeBase
<1>5. Range(queue') = Range(queue) \cup {c} /\ (Once(queue) => Once(queue'))
  BY <1>1, <1>2, <1>3, <1>4, RangeAppend, AppendOnce
<1>6. HeldByRun' = HeldByRun \cup {c}
  BY <1>5 DEF HeldByRun, Held, stationVars
<1> QED BY <1>2, <1>3, <1>5, <1>6

\* A turn of the loop that goes on leaves without an owner only calls that had none.
LEMMA LoopOwns ==
  ASSUME LifeType, LifeOwner, LoopMove, UNCHANGED lifeVars
  PROVE  /\ LifeOwner'
         /\ runner' = "running" =>
              \A c \in Calls : Waiting(c)' /\ c \notin Held' => Waiting(c) /\ c \notin Held
<1>1. /\ runner = "running" /\ TypeInv /\ Next /\ deferred = <<>> /\ HeldByRun = Held
      /\ UNCHANGED <<deferred, runs>>
  BY LoopHeldByRun DEF LoopMove, LifeType, LifeBase, Next, lifeVars, startVars
<1>2. PICK O : O = {c \in Calls : Waiting(c) /\ c \notin Held}
  OBVIOUS
<1>3. OwnerInv(O)
  BY <1>1, <1>2 DEF OwnerInv, LifeOwner, Owned, InQueue, InHand, InScans, InSelect, Held
<1>4. OwnerInv(O)'
  BY <1>1, <1>3, StepOwns
<1>5. Once(queue')
  <2>1. queue \in Seq(Calls) /\ Once(queue)
    BY DEF LifeType, LifeBase, LifeOwner
  <2>2. CASE UNCHANGED queue
    BY <2>1, <2>2 DEF Once
  <2>3. CASE queue # <<>> /\ queue' = Tail(queue)
    BY <2>1, <2>3, TailOnce
  <2> QED BY <2>2, <2>3, LoopReceives
<1>6. Once(deferred') /\ Range(queue') \cap Range(deferred') = {}
  BY <1>1 DEF Once, Range
<1>7. runner' = "running" => \A c \in Calls : Alone(c)' /\ (Waiting(c)' => Owned(c)' \/ c \in O)
  BY <1>4 DEF OwnerInv
<1>8. \A c \in Calls : Owned(c)' <=> c \in Held'
  BY DEF Owned, Held, InQueue, InHand, InScans, InSelect
<1>9. Active' => runner' = "running"
  BY <1>1, LoopGoesOn DEF Active, SocketResults
<1>10. Held' \subseteq HeldByRun'
  BY DEF HeldByRun
<1>11. runs = 1 => O = {}
  BY <1>1, <1>2 DEF LifeOwner, Active
<1> QED BY <1>1, <1>2, <1>5, <1>6, <1>7, <1>8, <1>9, <1>10, <1>11 DEF LifeOwner

\* A start-up that goes on, or reaches the loop, keeps what it has; one that fails
\* keeps what is in the channel.
LEMMA StartHolds ==
  ASSUME LifeType, StartMove
  PROVE  /\ HeldByRun' \subseteq HeldByRun /\ Idle /\ Idle'
         /\ Active' => HeldByRun' = HeldByRun
<1>1. /\ Idle /\ Idle' /\ queue \in Seq(Calls) /\ deferred \in Seq(Calls)
      /\ runner = "starting"
  BY DEF StartMove, LifeType, LifeBase, Idle, stationVars
<1>2. /\ HeldByRun = Range(queue) \cup Range(deferred)
      /\ HeldByRun' = Range(queue') \cup Range(deferred')
  <2>1. (Idle => HeldByRun = Range(queue) \cup Range(deferred))'
    BY IdleHeldByRun, PTL
  <2> QED BY <1>1, <2>1, IdleHeldByRun
<1>3. CASE queue # <<>> /\ deferred' = Append(deferred, Head(queue)) /\ queue' = Tail(queue)
  <2>1. Head(queue) \in Calls /\ Tail(queue) \in Seq(Calls)
    BY <1>1, <1>3
  <2> QED BY <1>1, <1>2, <1>3, <2>1, RangeTail, RangeAppend
<1>4. CASE deferred # <<>> /\ queue' = Append(queue, Head(deferred)) /\ deferred' = Tail(deferred)
  <2>1. Head(deferred) \in Calls /\ Tail(deferred) \in Seq(Calls)
    BY <1>1, <1>4
  <2> QED BY <1>1, <1>2, <1>4, <2>1, RangeTail, RangeAppend
<1>5. CASE UNCHANGED <<queue, deferred>>
  BY <1>1, <1>2, <1>5
<1>6. CASE /\ runner' \in SocketResults /\ deferred' = <<>>
           /\ queue' = queue \/ (queue # <<>> /\ queue' = Tail(queue))
  <2>1. Range(queue') \subseteq Range(queue) /\ Range(deferred') = {} /\ ~Active'
    BY <1>1, <1>6, RangeTail DEF Range, Active, SocketResults
  <2> QED BY <1>1, <1>2, <2>1
<1> QED BY <1>3, <1>4, <1>5, <1>6 DEF StartMove

\* The start-up puts no call in two places.
LEMMA StartOwns ==
  ASSUME LifeType, LifeOwner, StartMove
  PROVE  LifeOwner'
<1>1. /\ queue \in Seq(Calls) /\ deferred \in Seq(Calls) /\ runner = "starting"
      /\ Once(queue) /\ Once(deferred) /\ Range(queue) \cap Range(deferred) = {}
      /\ UNCHANGED <<request, answer, runs>>
  BY DEF StartMove, LifeType, LifeBase, LifeOwner
<1>2. Once(queue') /\ Once(deferred') /\ Range(queue') \cap Range(deferred') = {}
  <2>1. CASE queue # <<>> /\ deferred' = Append(deferred, Head(queue)) /\ queue' = Tail(queue)
    <3>1. Head(queue) \in Calls /\ Head(queue) \in Range(queue)
      BY <1>1, <2>1, RangeTail
    <3> QED BY <1>1, <2>1, <3>1, TailOnce, AppendOnce
  <2>2. CASE deferred # <<>> /\ queue' = Append(queue, Head(deferred)) /\ deferred' = Tail(deferred)
    <3>1. Head(deferred) \in Calls /\ Head(deferred) \in Range(deferred)
      BY <1>1, <2>2, RangeTail
    <3> QED BY <1>1, <2>2, <3>1, TailOnce, AppendOnce
  <2>3. CASE UNCHANGED <<queue, deferred>>
    BY <1>1, <2>3 DEF Once
  <2>4. CASE /\ deferred' = <<>>
             /\ queue' = queue \/ (queue # <<>> /\ queue' = Tail(queue))
    <3>1. Once(queue')
      <4>1. CASE UNCHANGED queue
        BY <1>1, <4>1 DEF Once
      <4>2. CASE queue # <<>> /\ queue' = Tail(queue)
        BY <1>1, <4>2, TailOnce
      <4> QED BY <2>4, <4>1, <4>2
    <3> QED BY <2>4, <3>1 DEF Once, Range
  <2> QED BY <2>1, <2>2, <2>3, <2>4 DEF StartMove
<1>3. \A c \in Calls : Alone(c)'
  BY StartHolds, ChannelAssumption DEF Idle, Alone, InHand, InScans, InSelect, InLoop, NoSelect
<1>4. Active' /\ runs' = 1 => \A c \in Calls : Waiting(c)' => c \in HeldByRun'
  BY <1>1, StartHolds DEF LifeOwner, Waiting, Active
<1> QED BY <1>2, <1>3, <1>4 DEF LifeOwner

\* What callers and the owner of the runtime do puts no call in two places.
LEMMA CallersOwn ==
  ASSUME LifeType, LifeOwner, CallerMove
  PROVE  LifeOwner'
<1>1. UNCHANGED <<stationVars, deferred, runs>>
  BY DEF CallerMove, MakeCall, GiveUp, OwnerDrops, CallRefused, lifeVars, startVars
<1>2. CASE MakeCall
  <2>1. PICK c \in Calls, q \in Requests : Send(c, q) \/ SendFails(c, q)
    BY <1>2 DEF MakeCall
  <2>2. CASE Send(c, q)
    <3>1. UNCHANGED runner /\ \A d \in Calls : Waiting(d)' => Waiting(d) \/ d = c
      BY <2>2 DEF Send, Waiting, LifeType, LifeBase
    <3>2. /\ c \notin HeldByRun /\ HeldByRun' = HeldByRun \cup {c} /\ Once(queue')
          /\ Range(queue') = Range(queue) \cup {c} /\ c \notin Range(deferred)
      BY <1>1, <2>2, SendHolds DEF LifeOwner
    <3>3. runner = "running" => \A d \in Calls : Alone(d)'
      <4>1. c \notin Held
        BY <3>2 DEF HeldByRun
      <4>2. ~InHand(c) /\ ~InScans(c) /\ ~InSelect(c)
        BY <4>1 DEF Held, InHand, InScans, InSelect
      <4> QED BY <1>1, <3>2, <4>2
          DEF LifeOwner, Alone, InQueue, InHand, InScans, InSelect, stationVars
    <3> QED BY <1>1, <3>1, <3>2, <3>3 DEF LifeOwner, Active, Once
  <2>3. CASE SendFails(c, q)
    BY <1>1, <2>3 DEF SendFails, LifeOwner, Active, Once
  <2> QED BY <2>1, <2>2, <2>3
<1>3. CASE GiveUp \/ CallRefused
  <2>1. UNCHANGED <<queue, runner>> /\ \A d \in Calls : Waiting(d)' => Waiting(d)
    <3>1. PICK c \in Calls, res \in {"NotRunning", "Abandoned"} :
            /\ answer' = [answer EXCEPT ![c] = Ans(res, None)]
            /\ UNCHANGED <<request, queue, runner>>
      BY <1>3 DEF GiveUp, CallRefused, RecvFails, Abandon
    <3>2. Ans(res, None) # NoAnswer
      BY DEF NoAnswer, Ans
    <3> QED BY <3>1, <3>2 DEF Waiting, LifeType, LifeBase
  <2> QED BY <1>1, <2>1 DEF LifeOwner, Active, Once, Alone, InQueue, InHand, InScans, InSelect,
                            HeldByRun, Held, stationVars
<1>4. CASE OwnerDrops
  <2>1. queue' = <<>> /\ runner' = "dropped"
    BY <1>4 DEF OwnerDrops, DropRuntime
  <2> QED BY <1>1, <2>1 DEF LifeOwner, Active, Once, Range
<1> QED BY <1>2, <1>3, <1>4 DEF CallerMove

\* Calling run() again, and the daemon's moves, put no call anywhere.
LEMMA OthersOwn ==
  ASSUME LifeType, LifeOwner, RunAgain \/ DaemonMove \/ UNCHANGED allVars
  PROVE  LifeOwner'
<1>1. CASE RunAgain
  <2>1. /\ deferred' = <<>> /\ runner' = "starting" /\ runs' = runs + 1 /\ UNCHANGED queue
        /\ runs \in Nat \ {0}
    BY <1>1 DEF RunAgain, LifeType, LifeBase
  <2>2. runs' # 1
    BY <2>1
  <2> QED BY <2>1, <2>2 DEF LifeOwner, Once, Range
<1>2. CASE DaemonMove \/ UNCHANGED allVars
  <2>1. UNCHANGED <<channelVars, stationVars, deferred, runs>>
    BY <1>2, DaemonMoves DEF LifeType, LifeBase, allVars, vars, lifeVars, startVars
  <2> QED BY <2>1 DEF LifeOwner, Active, Once, Alone, InQueue, InHand, InScans, InSelect,
                      HeldByRun, Held, Waiting, channelVars, stationVars
<1> QED BY <1>1, <1>2

\* Every step of a life keeps each call where it is owned once.
LEMMA LifeOwns ==
  ASSUME LifeType, LifeOwner, [LifeNext]_allVars
  PROVE  LifeOwner'
BY LifeCases, StartOwns, LoopOwns, CallersOwn, OthersOwn

\* In two disjoint sequences without repetition, one after the other, nothing is twice.
LEMMA ConcatOnce ==
  ASSUME NEW S, NEW p \in Seq(S), NEW q \in Seq(S), Once(p), Once(q),
         Range(p) \cap Range(q) = {}
  PROVE  Once(p \o q) /\ Range(p \o q) \subseteq Range(p) \cup Range(q)
<1> DEFINE r == p \o q
<1>1. /\ Len(p) \in Nat /\ Len(q) \in Nat /\ DOMAIN p = 1..Len(p) /\ DOMAIN q = 1..Len(q)
  OBVIOUS
<1>2. /\ DOMAIN r = 1..(Len(p) + Len(q))
      /\ \A i \in DOMAIN r : r[i] = IF i <= Len(p) THEN p[i] ELSE q[i - Len(p)]
  <2>1. r \in Seq(S) /\ Len(r) = Len(p) + Len(q)
        /\ \A i \in 1..Len(r) : r[i] = IF i <= Len(p) THEN p[i] ELSE q[i - Len(p)]
    BY ConcatElements
  <2> HIDE DEF r
  <2> QED BY <2>1
<1> HIDE DEF r
<1>3. \A i \in DOMAIN r : \/ i \in DOMAIN p /\ r[i] = p[i] /\ r[i] \in Range(p)
                         \/ /\ i - Len(p) \in DOMAIN q /\ r[i] = q[i - Len(p)]
                            /\ r[i] \in Range(q)
  <2> TAKE i \in DOMAIN r
  <2>1. CASE i <= Len(p)
    <3>1. i \in DOMAIN p /\ r[i] = p[i]
      BY <1>1, <1>2, <2>1
    <3> QED BY <3>1 DEF Range
  <2>2. CASE ~(i <= Len(p))
    <3>1. i - Len(p) \in DOMAIN q /\ r[i] = q[i - Len(p)]
      BY <1>1, <1>2, <2>2
    <3> QED BY <3>1 DEF Range
  <2> QED BY <2>1, <2>2
<1>4. ASSUME NEW i \in DOMAIN r, NEW j \in DOMAIN r, r[i] = r[j]
      PROVE  i = j
  <2>1. CASE i \in DOMAIN p /\ j \in DOMAIN p /\ p[i] = p[j]
    BY <2>1 DEF Once
  <2>2. CASE i - Len(p) \in DOMAIN q /\ j - Len(p) \in DOMAIN q /\ q[i - Len(p)] = q[j - Len(p)]
    <3>1. i - Len(p) = j - Len(p) /\ i \in Int /\ j \in Int
      BY <1>1, <1>2, <2>2 DEF Once
    <3> QED BY <1>1, <3>1
  <2> QED BY <1>3, <1>4, <2>1, <2>2
<1> QED BY <1>3, <1>4 DEF Once, Range, r

\* While a run of WifiStation is under way no call is held twice, and in the first run
\* a call still waiting is held: the start-up's deferred requests, the channel and the
\* handlers hand the oneshot sender of each from one to the other (sta/mod.rs:55).
THEOREM OwnedInEachRun == LifeSpec => []OwnedOnce
<1>1. LifeInit => LifeOwner
  <2> SUFFICES ASSUME LifeInit PROVE LifeOwner
    OBVIOUS
  <2>1. /\ queue = <<>> /\ deferred = <<>> /\ runner = "starting"
        /\ \A c \in Calls : request[c] = NoRequest
    BY DEF LifeInit, ChannelInit
  <2> QED BY <2>1 DEF LifeOwner, Once, Range, Waiting
<1>2. LifeType /\ LifeOwner /\ [LifeNext]_allVars => LifeOwner'
  BY LifeOwns
<1>3. LifeType /\ LifeOwner => OwnedOnce
  <2> SUFFICES ASSUME LifeType, LifeOwner, Active PROVE OwnedOnce
    BY DEF OwnedOnce
  <2> DEFINE inHand == {c \in Calls : c = op.call \/ c = select_request.call} \cup scan_requests
             waiting == deferred \o queue
  <2>1. queue \in Seq(Calls) /\ deferred \in Seq(Calls)
    BY DEF LifeType, LifeBase
  <2>2. Once(waiting) /\ Range(waiting) \subseteq Range(deferred) \cup Range(queue)
    BY <2>1, ConcatOnce DEF LifeOwner
  <2>3. inHand \cap (Range(deferred) \cup Range(queue)) = {}
    <3>1. CASE runner = "running"
      <4>1. Range(deferred) = {} /\ scan_requests \subseteq Calls
        BY <3>1 DEF LifeType, LifeBase, TypeInv, TypeOK, Range
      <4> QED BY <3>1, <4>1 DEF LifeOwner, Alone, InQueue, InHand, InScans, InSelect
    <3>2. CASE runner # "running"
      BY <3>2, ChannelAssumption DEF LifeType, LifeBase, Idle, InLoop, NoSelect
    <3> QED BY <3>1, <3>2
  <2>4. inHand \cap Range(waiting) = {}
    BY <2>2, <2>3
  <2>5. runs = 1 => \A c \in Calls : Waiting(c) => c \in HeldByRun
    BY DEF LifeOwner
  <2> HIDE DEF inHand
  <2> QED BY <2>2, <2>4, <2>5 DEF OwnedOnce, Once, inHand
<1> QED BY <1>1, <1>2, <1>3, LifeTypes, PTL DEF LifeSpec

-----------------------------------------------------------------------------
(* The service implemented. *)

\* The state of the service, and who is an orphan, by the state of the runtime.
LifeService == IF Active THEN "up" ELSE IF runner = "dropped" THEN "gone" ELSE "returned"
Orphans == {c \in Calls : Waiting(c) /\ c \notin HeldByRun}

\* Nobody is told anything before asking, in a life as in a single run.
LEMMA LifeUnmade ==
  ASSUME LifeType, Unmade, [LifeNext]_allVars
  PROVE  Unmade'
<1>1. CASE StartMove \/ RunAgain \/ DaemonMove \/ UNCHANGED allVars
  <2>1. UNCHANGED <<request, answer>>
    BY <1>1, DaemonMoves
    DEF StartMove, RunAgain, LifeType, LifeBase, allVars, vars, channelVars
  <2> QED BY <2>1 DEF Unmade
<1>2. CASE LoopMove
  <2>1. UNCHANGED request /\ (UNCHANGED answer \/ \E S, a : Respond(S, a))
    BY <1>2, LoopAnswers DEF LoopMove, LifeType, TimerExpires, channelVars
  <2> QED BY <2>1 DEF Unmade, Respond, Waiting
<1>3. CASE CallerMove
  <2>1. CASE MakeCall
    <3>1. PICK c \in Calls, q \in Requests : Send(c, q) \/ SendFails(c, q)
      BY <2>1 DEF MakeCall
    <3>2. request'[c] # NoRequest
      BY <3>1, ChannelAssumption DEF Send, SendFails, NoRequest, LifeType, LifeBase
    <3>3. \A d \in Calls \ {c} : request'[d] = request[d] /\ answer'[d] = answer[d]
      BY <3>1 DEF Send, SendFails, LifeType, LifeBase
    <3> QED BY <3>2, <3>3 DEF Unmade
  <2>2. CASE GiveUp \/ CallRefused
    <3>1. PICK c \in Calls :
            Waiting(c) /\ UNCHANGED request /\ \E a : answer' = [answer EXCEPT ![c] = a]
      BY <2>2 DEF GiveUp, CallRefused, RecvFails, Abandon
    <3> QED BY <3>1 DEF Unmade, Waiting, LifeType, LifeBase
  <2>3. CASE OwnerDrops
    BY <2>3 DEF OwnerDrops, DropRuntime, Unmade
  <2> QED BY <1>3, <2>1, <2>2, <2>3 DEF CallerMove
<1> QED BY <1>1, <1>2, <1>3, LifeCases

\* A run that ends lets go of what it had and tells nobody: its calls are orphaned.
LEMMA RunEnds ==
  ASSUME Unmade, UNCHANGED <<request, answer>>, Active, runner' \in SocketResults,
         HeldByRun' \subseteq HeldByRun
  PROVE  Restartable!Next
<1>1. UNCHANGED PhaseNow /\ \A c \in Calls : Waiting(c)' <=> Waiting(c)
  BY UnseenStep DEF Waiting
<1>2. Orphans \subseteq Orphans' /\ \A c \in Orphans' : Phase(c) = "pending"
  BY <1>1, PhaseCases DEF Orphans
<1>3. ~Active' /\ runner' # "dropped"
  BY DEF Active, SocketResults
<1>4. PICK S \in SUBSET Calls : S = Orphans' \ Orphans
  BY DEF Orphans
<1>5. Restartable!Stop(S)
  BY <1>1, <1>2, <1>3, <1>4 DEF Restartable!Stop, Restartable!Pending, Orphans, PhaseNow
<1> QED BY <1>5 DEF Restartable!Next

\* Answering calls that the run has is Answer; the orphans stay what they are.
LEMMA RunAnswers ==
  ASSUME Unmade, UNCHANGED <<request, runner>>, Active,
         NEW S, NEW res, NEW of, res \notin {"none", "NotRunning", "Abandoned"},
         Respond(S, Ans(res, of)), S \cap Calls \subseteq HeldByRun, Orphans' = Orphans
  PROVE  Restartable!Next
<1> DEFINE W == {c \in Calls : c \in S /\ Waiting(c)}
<1>1. \A c \in Calls : Phase(c)' = IF c \in W THEN "answered" ELSE Phase(c)
  BY RespondPhases
<1>2. \A c \in W : Phase(c) = "pending" /\ c \notin Orphans
  BY PhaseCases DEF Orphans
<1>3. W \in SUBSET Calls /\ UNCHANGED LifeService
  BY DEF LifeService, Active
<1> HIDE DEF W
<1>4. Restartable!Answer(W)
  BY <1>1, <1>2, <1>3 DEF Restartable!Answer, Restartable!Pending, Orphans, LifeService
<1> QED BY <1>3, <1>4 DEF Restartable!Next

\* A turn of the loop is Answer, Stop, or nothing that callers see: no call is
\* orphaned while the loop goes on.
LEMMA LoopImplements ==
  ASSUME LifeType, LifeOwner, Unmade, LoopMove, UNCHANGED lifeVars
  PROVE  Restartable!Next \/ UNCHANGED <<PhaseNow, LifeService, Orphans>>
<1>1. /\ runner = "running" /\ TypeInv /\ HeldByRun = Held /\ Active
  BY LoopHeldByRun DEF LoopMove, LifeType, Active
<1>2. HeldByRun' = Held' /\ Held' \subseteq Held
  <2>1. Range(deferred') = {}
    BY <1>1 DEF lifeVars, startVars, LifeType, LifeBase, Range
  <2> QED BY <1>1, <2>1, LoopHolds DEF HeldByRun
<1>3. \/ /\ UNCHANGED <<request, answer>>
         /\ UNCHANGED runner \/ runner' \in SocketResults
      \/ /\ UNCHANGED <<request, runner>>
         /\ \E S, res, of :
              /\ res \notin {"none", "NotRunning", "Abandoned"}
              /\ S \cap Calls \subseteq Held
              /\ Respond(S, Ans(res, of))
  BY <1>1, LoopAnswers DEF LoopMove, TimerExpires, channelVars
<1>4. CASE UNCHANGED <<request, answer>> /\ runner' \in SocketResults
  BY <1>1, <1>2, <1>4, RunEnds
<1>5. UNCHANGED runner => Orphans' \subseteq Orphans
  BY <1>1, <1>2, LoopOwns DEF Orphans
<1>6. CASE UNCHANGED <<request, answer, runner>>
  <2>1. Orphans \subseteq Orphans'
    BY <1>1, <1>2, <1>6 DEF Orphans, Waiting
  <2> QED BY <1>5, <1>6, <2>1, UnseenStep DEF LifeService, Active
<1>7. ASSUME UNCHANGED <<request, runner>>, NEW S, NEW res, NEW of,
             res \notin {"none", "NotRunning", "Abandoned"},
             S \cap Calls \subseteq Held, Respond(S, Ans(res, of))
      PROVE  Restartable!Next
  <2>1. \A c \in Calls : Waiting(c)' <=> Waiting(c) /\ c \notin S
    BY <1>7, RespondPhases
  <2>2. Orphans \subseteq Orphans'
    BY <1>1, <1>2, <1>7, <2>1 DEF Orphans
  <2>3. Orphans' = Orphans /\ S \cap Calls \subseteq HeldByRun
    BY <1>1, <1>5, <1>7, <2>2
  <2> QED BY <1>1, <1>7, <2>3, RunAnswers
<1> QED BY <1>3, <1>4, <1>6, <1>7

\* The start-up tells callers nothing, and orphans nobody unless it ends the run.
LEMMA StartImplements ==
  ASSUME LifeType, Unmade, StartMove
  PROVE  Restartable!Next \/ UNCHANGED <<PhaseNow, LifeService, Orphans>>
<1>1. UNCHANGED <<request, answer>> /\ Active /\ HeldByRun' \subseteq HeldByRun
  BY StartHolds DEF StartMove, Active
<1>2. CASE runner' \in SocketResults
  BY <1>1, <1>2, RunEnds
<1>3. CASE Active'
  <2>1. HeldByRun' = HeldByRun
    BY <1>3, StartHolds
  <2> QED BY <1>1, <1>3, <2>1, UnseenStep DEF LifeService, Orphans, Waiting
<1> QED BY <1>2, <1>3 DEF StartMove, Active

\* A call that is made is held by the run or left for the next.
LEMMA SubmitImplements ==
  ASSUME LifeType, Unmade, CallerMove, MakeCall
  PROVE  Restartable!Next
<1>0. CallsOK /\ UNCHANGED <<stationVars, deferred>>
  BY DEF LifeType, LifeBase, CallsOK, MakeCall, CallerMove, lifeVars, startVars
<1>1. PICK c \in Calls, q \in Requests : Send(c, q) \/ SendFails(c, q)
  BY DEF MakeCall
<1>2. /\ Phase(c) = "idle" /\ request[c] = NoRequest /\ UNCHANGED runner
      /\ \A d \in Calls \ {c} : Phase(d)' = Phase(d) /\ (Waiting(d)' <=> Waiting(d))
      /\ IF runner = "dropped" THEN Phase(c)' = "refused" /\ ~Waiting(c)'
         ELSE Phase(c)' \in {"pending", "answered"}
  BY <1>0, <1>1, MakeCallPhases
<1>3. UNCHANGED LifeService /\ ~Waiting(c) /\ (LifeService = "gone" <=> runner = "dropped")
  BY <1>2 DEF LifeService, Active, Waiting
<1>4. CASE Send(c, q)
  <2>1. HeldByRun' = HeldByRun \cup {c} /\ runner # "dropped"
    BY <1>0, <1>4, SendHolds DEF Send
  <2>2. Orphans' = Orphans
    BY <1>2, <1>3, <2>1 DEF Orphans
  <2>3. Restartable!Submit(c)
    BY <1>2, <1>3, <2>1, <2>2 DEF Restartable!Submit, Orphans, LifeService
  <2> QED BY <2>3 DEF Restartable!Next
<1>5. CASE SendFails(c, q)
  <2>1. HeldByRun' = HeldByRun /\ runner = "dropped"
    BY <1>0, <1>5 DEF SendFails, HeldByRun, Held, stationVars
  <2>2. Orphans' = Orphans /\ Orphans = Orphans \ {c}
    BY <1>2, <1>3, <2>1 DEF Orphans
  <2>3. Restartable!Refuse(c)
    BY <1>2, <1>3, <2>1, <2>2 DEF Restartable!Refuse, Orphans, LifeService
  <2> QED BY <2>3 DEF Restartable!Next
<1> QED BY <1>1, <1>4, <1>5

\* A caller that stops waiting has gone or is an orphan that is refused; dropping the
\* runtime orphans whatever is still pending.
LEMMA EndImplements ==
  ASSUME LifeType, Unmade, CallerMove, GiveUp \/ CallRefused \/ OwnerDrops
  PROVE  Restartable!Next
<1>0. CallsOK /\ UNCHANGED <<stationVars, deferred>>
  BY DEF LifeType, LifeBase, CallsOK, CallerMove, lifeVars, startVars, GiveUp, CallRefused,
         OwnerDrops
<1>1. CASE GiveUp \/ CallRefused
  <2>1. PICK c \in Calls, res \in {"NotRunning", "Abandoned"} :
          /\ Waiting(c) /\ UNCHANGED <<request, queue, runner>>
          /\ answer' = [answer EXCEPT ![c] = Ans(res, None)]
          /\ res = "NotRunning" => c \notin HeldByRun
    BY <1>1 DEF GiveUp, CallRefused, RecvFails, Abandon
  <2>2. /\ Phase(c) = "pending" /\ ~Waiting(c)'
        /\ Phase(c)' = IF res = "NotRunning" THEN "refused" ELSE "abandoned"
        /\ \A d \in Calls \ {c} : Phase(d)' = Phase(d) /\ (Waiting(d)' <=> Waiting(d))
    BY <1>0, <2>1, TellPhases
  <2>3. UNCHANGED <<HeldByRun, LifeService>>
    BY <1>0, <2>1 DEF HeldByRun, Held, LifeService, Active, stationVars
  <2>4. Orphans' = Orphans \ {c} /\ (res = "NotRunning" => c \in Orphans)
    BY <2>1, <2>2, <2>3 DEF Orphans
  <2>5. CASE res = "NotRunning"
    <3>1. Restartable!Refuse(c)
      BY <2>2, <2>3, <2>4, <2>5 DEF Restartable!Refuse, Orphans, LifeService
    <3> QED BY <3>1 DEF Restartable!Next
  <2>6. CASE res = "Abandoned"
    <3>1. Restartable!Abandon(c)
      BY <2>1, <2>2, <2>3, <2>4, <2>6
      DEF Restartable!Abandon, Restartable!Pending, Orphans, LifeService
    <3> QED BY <3>1 DEF Restartable!Next
  <2> QED BY <2>1, <2>5, <2>6
<1>2. CASE OwnerDrops
  <2>1. /\ runner \in SocketResults /\ runner' = "dropped" /\ queue' = <<>>
        /\ UNCHANGED <<request, answer>>
    BY <1>2 DEF OwnerDrops, DropRuntime
  <2>2. Idle' /\ deferred' = <<>>
    BY <1>0, <2>1 DEF LifeType, LifeBase, Idle, stationVars, SocketResults
  <2>3. HeldByRun' = {}
    <3>1. (Idle => HeldByRun = Range(queue) \cup Range(deferred))'
      BY IdleHeldByRun, PTL
    <3> QED BY <2>1, <2>2, <3>1 DEF Range
  <2>4. UNCHANGED PhaseNow /\ Orphans' = {c \in Calls : Phase(c) = "pending"}
    <3>1. \A c \in Calls : Waiting(c)' <=> Phase(c) = "pending"
      BY <2>1, PhaseCases DEF Waiting
    <3> QED BY <2>1, <2>3, <3>1, UnseenStep DEF Orphans
  <2>5. ~Active /\ runner # "dropped" /\ ~Active'
    BY <2>1 DEF Active, SocketResults
  <2>6. Restartable!Drop
    BY <2>1, <2>4, <2>5 DEF Restartable!Drop, Restartable!Pending, Orphans, PhaseNow
  <2> QED BY <2>6 DEF Restartable!Next
<1> QED BY <1>1, <1>2

\* Calling run() again is Restart; of the daemon callers see nothing.
LEMMA OthersImplement ==
  ASSUME LifeType, RunAgain \/ DaemonMove \/ UNCHANGED allVars
  PROVE  Restartable!Next \/ UNCHANGED <<PhaseNow, LifeService, Orphans>>
<1>1. CASE RunAgain
  <2>1. /\ runner \in SocketResults /\ runner' = "starting" /\ deferred' = <<>>
        /\ UNCHANGED <<request, answer, queue, stationVars>>
    BY <1>1 DEF RunAgain
  <2>2. deferred = <<>>
    BY <2>1 DEF LifeType, LifeBase, SocketResults
  <2>3. UNCHANGED <<PhaseNow, Orphans>>
    BY <2>1, <2>2, UnseenStep DEF Orphans, HeldByRun, Held, Waiting, stationVars
  <2>4. ~Active /\ Active' /\ runner # "dropped"
    BY <2>1 DEF Active, SocketResults
  <2>5. Restartable!Restart
    BY <2>3, <2>4 DEF Restartable!Restart, Orphans, PhaseNow
  <2> QED BY <2>5 DEF Restartable!Next
<1>2. CASE DaemonMove \/ UNCHANGED allVars
  <2>1. UNCHANGED <<channelVars, stationVars, deferred>>
    BY <1>2, DaemonMoves DEF LifeType, LifeBase, allVars, vars, lifeVars, startVars
  <2>2. UNCHANGED PhaseNow
    BY <2>1, UnseenStep DEF channelVars
  <2> QED BY <2>1, <2>2
      DEF LifeService, Active, Orphans, HeldByRun, Held, Waiting, channelVars, stationVars
<1> QED BY <1>1, <1>2

\* A WifiStation whose run() is called again and again implements the service its
\* clients rely on: a request in the channel outlives the run that ends, a call that
\* the run had taken is refused, and no other is, until the runtime is dropped.
THEOREM LifeImplementsService == LifeSpec => ImplementsRestartable
<1>1. LifeInit => Restartable!Init /\ Unmade /\ LifeOwner
  <2> SUFFICES ASSUME LifeInit PROVE Restartable!Init /\ Unmade /\ LifeOwner
    OBVIOUS
  <2>1. /\ \A c \in Calls : request[c] = NoRequest /\ answer[c] = NoAnswer
        /\ runner = "starting" /\ queue = <<>> /\ deferred = <<>>
    BY DEF LifeInit, ChannelInit
  <2>2. Unmade
    BY <2>1 DEF Unmade
  <2>3. \A c \in Calls : Phase(c) = "idle" /\ ~Waiting(c)
    BY <2>1, <2>2, PhaseCases DEF Waiting
  <2>4. LifeOwner
    BY <2>1, <2>3 DEF LifeOwner, Once, Range
  <2> QED BY <2>1, <2>2, <2>3, <2>4 DEF Restartable!Init, Active
<1>2. /\ LifeType /\ LifeOwner /\ Unmade /\ [LifeNext]_allVars
      => [Restartable!Next]_(Restartable!vars)
  <2> SUFFICES ASSUME LifeType, LifeOwner, Unmade, [LifeNext]_allVars
               PROVE  Restartable!Next \/ UNCHANGED <<PhaseNow, LifeService, Orphans>>
    BY DEF Restartable!vars, PhaseNow, LifeService, Orphans
  <2>1. CASE CallerMove
    BY <2>1, SubmitImplements, EndImplements DEF CallerMove
  <2> QED BY <2>1, LifeCases, StartImplements, LoopImplements, OthersImplement
<1>3. LifeType /\ Unmade /\ [LifeNext]_allVars => Unmade'
  BY LifeUnmade
<1>4. LifeType /\ LifeOwner /\ [LifeNext]_allVars => LifeOwner'
  BY LifeOwns
<1> QED BY <1>1, <1>2, <1>3, <1>4, LifeTypes, PTL
    DEF LifeSpec, ImplementsRestartable, Restartable!Spec
=============================================================================
