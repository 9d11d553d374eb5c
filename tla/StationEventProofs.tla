-------------------------- MODULE StationEventProofs --------------------------
(***************************************************************************)
(* Proofs about what the station's loop (src/sta/mod.rs) makes of the      *)
(* daemon's events: link broadcasts mirror the link, and neither a scan    *)
(* nor a select waits for an event that will not come.                     *)
(*                                                                         *)
(* None of the three is inductive.  What a handler was told before it put  *)
(* a request among those that wait for an event, the reply to SCAN or to   *)
(* STATUS, may be out of date when it is read: the invariants say of such  *)
(* a reply in the socket what must still be true of it.  And all of them   *)
(* rest on ATTACH being read before anything else (AttachInv): from then   *)
(* on no event is missed.                                                  *)
(***************************************************************************)
EXTENDS StationProofs

IsLink(e) == e.type \in {"Connected", "Disconnected"}
Accepting(r) == r.cmd = "SCAN" /\ r.text \in {"OK", "FAIL-BUSY"}
Status(r) == r.cmd = "STATUS" /\ r.text = "status"

\* A scan's event is to come or to be read.
ScanComing == scanning \/ Queued("ScanComplete") \/ Queued("ScanFailed")

\* ATTACH is the first thing read, and nothing is answered or waits before it is.
AttachInv == runner = "running" =>
  /\ \A i \in DOMAIN wire : wire[i].cmd = "ATTACH" => i = 1 /\ ~attached
  /\ replies # <<>> \/ scan_requests # {} \/ select_request # NoSelect =>
       \A i \in DOMAIN wire : wire[i].cmd # "ATTACH"

ScanInv == Streaming /\ ~lapsed =>
  /\ scan_requests # {} => ScanComing \/ op.cmd = "SCAN_RESULTS"
  /\ \A i \in DOMAIN replies : Accepting(replies[i]) => ScanComing

SelectInv == Streaming /\ ~lapsed =>
  /\ select_request # NoSelect /\ current # None =>
       (current = request[select_request.call].id => Queued("Connected"))
  /\ \A i \in DOMAIN replies : Status(replies[i]) =>
       current \in {None, replies[i].val} \/ Queued("Connected")

\* events[i] is the newest event about the link.
Newest(i) ==
  /\ i \in DOMAIN events /\ IsLink(events[i])
  /\ \A j \in DOMAIN events : j > i => ~IsLink(events[j])

LinkInv ==
  /\ LinkMirrored
  /\ Streaming => \A i \in DOMAIN events :
       Newest(i) => (events[i].type = "Connected" <=> current # None)
  /\ runner = "running" /\ up /\ ~attached =>
       link = "unknown" /\ \A i \in DOMAIN events : ~IsLink(events[i])

-----------------------------------------------------------------------------
(* What a turn of the loop does to what it waits for. *)

Turn == (Runner \/ TimerExpires \/ SocketError) /\ runner' = "running"

\* The handler that has sent a command is the only thing that changed.
LEMMA SendCommandMoves ==
  ASSUME TypeInv, runner' = "running", NEW cmd \in Commands \ {"ATTACH"}, NEW c \in Callers,
         NEW left, SendCommand(cmd, c, left)
  PROVE  /\ UNCHANGED <<runner, scan_requests, select_request>> /\ op'.cmd = cmd
         /\ \E w \in Datagram : IsCommand(w) /\ wire' = Append(wire, w)
<1>1. [cmd |-> cmd, call |-> c] \in Datagram /\ IsCommand([cmd |-> cmd, call |-> c])
  BY DEF Datagram, IsCommand
<1> QED BY <1>1 DEF SendCommand, Return, SocketResults

\* The reply a handler awaits is taken from the socket, or not at all.
LEMMA ReplyMoves ==
  ASSUME TypeInv, NEW r, HandleReply(r)
  PROVE  /\ UNCHANGED <<request, daemonVars, link>> /\ (lapsed => lapsed')
         /\ \/ r = TimedOut /\ UNCHANGED replies
            \/ replies # <<>> /\ r = Head(replies) /\ replies' = Tail(replies)
BY DEF HandleReply, Await

\* A turn sends at most a command, takes at most a reply or an event, and leaves
\* the daemon alone.
LEMMA TurnMoves ==
  ASSUME TypeInv, Turn
  PROVE  /\ runner = "running" /\ UNCHANGED <<request, up, attached, scanning, current>>
         /\ lapsed => lapsed'
         /\ UNCHANGED wire \/ \E w \in Datagram : IsCommand(w) /\ wire' = Append(wire, w)
         /\ UNCHANGED replies \/ (op # InLoop /\ replies # <<>> /\ replies' = Tail(replies))
         /\ UNCHANGED events \/ (op = InLoop /\ events # <<>> /\ events' = Tail(events))
<1> USE DEF daemonVars, socketVars, channelVars, stationVars
<1>0. /\ {"STATUS", "GET_NETWORK", "SCAN_RESULTS"} \subseteq Commands \ {"ATTACH"}
      /\ \A k \in DOMAIN FirstCommand : FirstCommand[k] # "ATTACH"
      /\ "none" \notin Commands
  BY DEF Commands, Accepted, FirstCommand
<1>1. CASE TakeShutdown \/ SocketError
  <2>1. runner' # "running"
    BY <1>1 DEF TakeShutdown, SocketError, Return
  <2> QED BY <2>1 DEF Turn
<1>2. CASE RejectSelect \/ SelectTimeout \/ TimerExpires
  <2>1. runner = "running"
    BY <1>2 DEF Turn, TimerExpires, RejectSelect, SelectTimeout, Looping
  <2> QED BY <1>2, <2>1 DEF RejectSelect, SelectTimeout, TimerExpires
<1>3. CASE TakeRequest
  <2>1. /\ Head(queue) \in Callers /\ FirstCommand[Kind(Head(queue))] \in Commands \ {"ATTACH"}
        /\ SendCommand(FirstCommand[Kind(Head(queue))], Head(queue), 0)
        /\ runner = "running" /\ UNCHANGED <<request, replies, lapsed, daemonVars>>
    BY <1>0, <1>3, FirstCommandType DEF TakeRequest, Looping, Callers
  <2> QED BY <2>1, SendCommandMoves DEF Turn
<1>4. CASE OnScanComplete
  <2>1. /\ SendCommand("SCAN_RESULTS", None, 0) /\ None \in Callers
        /\ runner = "running" /\ op = InLoop /\ events # <<>> /\ events' = Tail(events)
        /\ UNCHANGED <<request, replies, lapsed, up, attached, scanning, current>>
    BY <1>4 DEF OnScanComplete, NextEvent, Looping, Callers
  <2> QED BY <1>0, <2>1, SendCommandMoves DEF Turn
<1>5. CASE OnScanFailed \/ OnSelectEvent \/ OnOtherEvent
  BY <1>5 DEF OnScanFailed, OnSelectEvent, OnOtherEvent, NextEvent, Looping
<1>6. CASE SimpleReply \/ ScanReply \/ ScanResultsReply \/ SelectStatusReply
           \/ SelectReply \/ ListReply \/ GetNetworkReply
  <2>1. /\ runner = "running" /\ op # InLoop /\ \E r : HandleReply(r)
        /\ \/ Done
           \/ \E cmd \in {"STATUS", "GET_NETWORK"} : \E left : SendCommand(cmd, op.call, left)
    <3>1. CASE SimpleReply
      BY <3>1 DEF SimpleReply, InLoop
    <3>2. CASE ~SimpleReply
      BY <1>6, <3>2 DEF ScanReply, ScanResultsReply, SelectStatusReply, SelectReply, ListReply,
                        GetNetworkReply, AwaitingFor, InLoop
    <3> QED BY <3>1, <3>2
  <2>2. UNCHANGED wire \/ \E w \in Datagram : IsCommand(w) /\ wire' = Append(wire, w)
    <3>1. CASE Done
      BY <3>1 DEF Done
    <3>2. CASE \E cmd \in {"STATUS", "GET_NETWORK"} : \E left : SendCommand(cmd, op.call, left)
      <4>1. op.call \in Callers
        BY DEF TypeInv, TypeOK, Handler
      <4> QED BY <1>0, <3>2, <4>1, SendCommandMoves DEF Turn
    <3> QED BY <2>1, <3>1, <3>2
  <2> QED BY <2>1, <2>2, ReplyMoves
<1> QED BY <1>1, <1>2, <1>3, <1>4, <1>5, <1>6 DEF Turn, Runner

\* handle_event: each type of event is broadcast and settles what waits for it.
LEMMA EventMoves ==
  ASSUME TypeInv, Turn, ~UNCHANGED <<events, link>>
  PROVE  /\ op = InLoop /\ events # <<>> /\ events' = Tail(events)
         /\ Head(events).type = "ScanComplete" => op'.cmd = "SCAN_RESULTS"
         /\ Head(events).type = "ScanFailed" => scan_requests' = {}
         /\ Head(events).type = "Connected" => select_request' = NoSelect /\ link' = "Connected"
         /\ Head(events).type = "Disconnected" => link' = "Disconnected"
         /\ ~IsLink(Head(events)) => UNCHANGED link
<1>1. OnScanComplete \/ OnScanFailed \/ OnSelectEvent \/ OnOtherEvent
  BY DEF Turn, Runner, TakeShutdown, RejectSelect, TakeRequest, SelectTimeout, TimerExpires,
         SocketError, SimpleReply, ScanReply, ScanResultsReply, SelectReply,
         SelectStatusReply, ListReply, GetNetworkReply, HandleReply, daemonVars, stationVars
<1>2. CASE OnScanComplete
  <2>1. /\ op = InLoop /\ events # <<>> /\ events' = Tail(events) /\ UNCHANGED link
        /\ Head(events).type = "ScanComplete" /\ SendCommand("SCAN_RESULTS", None, 0)
    BY <1>2 DEF OnScanComplete, NextEvent, Looping, Event
  <2>2. op'.cmd = "SCAN_RESULTS"
    BY <2>1, SendCommandMoves DEF Turn, Commands, Accepted, Callers
  <2> QED BY <2>1, <2>2
<1>3. CASE OnScanFailed
  BY <1>3 DEF OnScanFailed, NextEvent, Looping, Event, IsLink
<1>4. CASE OnSelectEvent
  BY <1>4 DEF OnSelectEvent, SelectOutcome, NextEvent, Looping, IsLink
<1>5. CASE OnOtherEvent
  BY <1>5 DEF OnOtherEvent, NextEvent, Looping, IsLink
<1> QED BY <1>1, <1>2, <1>3, <1>4, <1>5

\* A request joins those that wait for scan results when SCAN is accepted; while
\* results are fetched the waiting ones stay.
LEMMA ScanMoves ==
  ASSUME TypeInv, Turn, scan_requests' # {}
  PROVE  \/ scan_requests # {} /\ (op.cmd = "SCAN_RESULTS" => op'.cmd = "SCAN_RESULTS")
         \/ op.cmd = "SCAN" /\ replies # <<>> /\ Head(replies).text \in {"OK", "FAIL-BUSY"}
<1>1. CASE scan_requests' \subseteq scan_requests
  <2>1. ASSUME op.cmd = "SCAN_RESULTS" PROVE op'.cmd = "SCAN_RESULTS"
    <3>1. op # InLoop /\ op.call = None
      BY <2>1 DEF InLoop, TypeInv, HandlersFit
    <3>2. TimerExpires
      BY <2>1, <3>1
      DEF Turn, Runner, TakeShutdown, RejectSelect, TakeRequest, SelectTimeout, SocketError,
          OnScanComplete, OnScanFailed, OnSelectEvent, OnOtherEvent, NextEvent, Looping,
          SimpleReply, ScanReply, ScanResultsReply, SelectReply, SelectStatusReply,
          ListReply, GetNetworkReply, AwaitingFor, Return
    <3> QED BY <2>1, <3>2 DEF TimerExpires
  <2> QED BY <1>1, <2>1
<1>2. CASE ~(scan_requests' \subseteq scan_requests)
  <2>1. ScanReply
    BY <1>2 DEF Turn, Runner, TakeShutdown, RejectSelect, TakeRequest, SelectTimeout,
         SocketError, TimerExpires, OnScanComplete, OnScanFailed, OnSelectEvent, OnOtherEvent,
         SimpleReply, ScanResultsReply, SelectReply, SelectStatusReply, ListReply,
         GetNetworkReply, SendCommand, Return, stationVars
  <2>2. PICK r \in Arrivals : HandleReply(r) /\ Parse("SCAN", r) = "Ok" /\ op.cmd = "SCAN"
    BY <1>2, <2>1 DEF ScanReply, AwaitingFor
  <2>3. r # TimedOut /\ r.text \in {"OK", "FAIL-BUSY"}
    BY <2>2 DEF Parse, Accepted
  <2> QED BY <2>2, <2>3, ReplyMoves
<1> QED BY <1>1, <1>2

\* A select is left pending when STATUS tells of another network than its own.
LEMMA SelectMoves ==
  ASSUME TypeInv, Turn, select_request' # NoSelect
  PROVE  \/ select_request # NoSelect /\ select_request'.call = select_request.call
         \/ /\ op.cmd = "STATUS" /\ select_request'.call = op.call
            /\ replies # <<>> /\ Head(replies).text = "status"
            /\ Head(replies).val # request[op.call].id
<1>1. CASE SelectStatusReply /\ ~UNCHANGED select_request
  <2>1. PICK r \in Arrivals :
          /\ HandleReply(r) /\ Parse("STATUS", r) = "Ok" /\ r.val # request[op.call].id
          /\ select_request' = [call |-> op.call, expired |-> FALSE] /\ op.cmd = "STATUS"
    BY <1>1 DEF SelectStatusReply, AwaitingFor
  <2>2. r # TimedOut /\ r.text = "status"
    BY <2>1 DEF Parse, Accepted
  <2> QED BY <2>1, <2>2, ReplyMoves
<1>2. CASE TimerExpires
  BY <1>2 DEF TimerExpires, TypeInv, TypeOK, Select
<1>3. CASE UNCHANGED select_request
  BY <1>3
<1>4. ~SelectStatusReply /\ ~TimerExpires => select_request' \in {select_request, NoSelect}
  BY DEF Turn, Runner, TakeShutdown, RejectSelect, TakeRequest, SelectTimeout,
         SocketError, OnScanComplete, OnScanFailed, OnSelectEvent, OnOtherEvent,
         SimpleReply, ScanReply, ScanResultsReply, SelectReply, ListReply,
         GetNetworkReply, SendCommand, Return, Done, stationVars
<1> QED BY <1>1, <1>2, <1>3, <1>4

-----------------------------------------------------------------------------
(* The steps, taken together: a turn, one of the daemon, or one of callers. *)

\* What the sockets hold, by position.
LEMMA Sockets ==
  ASSUME TypeInv
  PROVE  /\ wire \in Seq(Datagram) /\ replies \in Seq(Reply) /\ events \in Seq(DaemonEvent)
         /\ replies # <<>> => 1 \in DOMAIN replies /\ replies[1] = Head(replies)
BY DEF TypeInv, TypeOK

\* Taking an event leaves those behind it.
LEMMA QueuedTail ==
  ASSUME TypeInv, events # <<>>, events' = Tail(events), NEW type
  PROVE  /\ Queued(type)' => Queued(type)
         /\ Queued(type) => Queued(type)' \/ Head(events).type = type
<1>1. events \in Seq(DaemonEvent)
  BY Sockets
<1>2. /\ \A i \in DOMAIN events' : i + 1 \in DOMAIN events /\ events'[i] = events[i + 1]
      /\ \A i \in DOMAIN events : \/ events[i] = Head(events)
                                  \/ i - 1 \in DOMAIN events' /\ events'[i - 1] = events[i]
  BY <1>1
<1> QED BY <1>2 DEF Queued

\* An event comes behind the others.
LEMMA QueuedAppend ==
  ASSUME TypeInv, NEW e \in DaemonEvent, events' = Append(events, e), NEW type
  PROVE  Queued(type)' <=> Queued(type) \/ e.type = type
<1>1. events \in Seq(DaemonEvent)
  BY Sockets
<1>2. /\ \A i \in DOMAIN events : i \in DOMAIN events' /\ events'[i] = events[i]
      /\ \A i \in DOMAIN events' : i \in DOMAIN events \/ events'[i] = e
      /\ \E i \in DOMAIN events' : events'[i] = e
  <2>1. /\ DOMAIN events' = 1..(Len(events) + 1) /\ events'[Len(events) + 1] = e
        /\ Len(events) + 1 \in DOMAIN events' /\ DOMAIN events = 1..Len(events)
        /\ Len(events) \in Nat
        /\ \A i \in DOMAIN events : events'[i] = events[i]
    BY <1>1
  <2>2. \A i \in DOMAIN events' : i \in DOMAIN events \/ i = Len(events) + 1
    BY <2>1
  <2>3. \A i \in DOMAIN events : i \in DOMAIN events'
    BY <2>1
  <2> QED BY <2>1, <2>2, <2>3
<1> QED BY <1>2 DEF Queued

\* What every step of the daemon leaves alone.
LEMMA DaemonLeaves ==
  ASSUME DaemonStep
  PROVE  /\ runner = "running" /\ (up' => up)
         /\ UNCHANGED <<runner, request, op, scan_requests, select_request, link, lapsed>>
BY DEF DaemonStep, Undisturbed, channelVars, stationVars, Daemon, DaemonAttach, DaemonAnswers,
       DaemonIgnores, ScanFinishes, DaemonActs, DaemonDies, daemonVars, socketVars

\* What the daemon reports, when it does: the end of a scan, and how the link is.
LEMMA DaemonReports ==
  ASSUME TypeInv, attached, ScanFinishes \/ DaemonActs
  PROVE  /\ UNCHANGED <<socketVars, up, attached>>
         /\ \/ UNCHANGED <<events, current>> /\ (scanning => scanning')
            \/ \E e \in DaemonEvent :
                 /\ events' = Append(events, e)
                 /\ scanning => scanning' \/ e.type \in {"ScanComplete", "ScanFailed"}
                 /\ IsLink(e) => (e.type = "Connected" <=> current' # None)
                 /\ ~IsLink(e) => UNCHANGED current
                 /\ current' # current /\ current' # None => e.type = "Connected"
<1>0. \A type \in EventTypes, val \in Networks \cup {None} :
        Event(type, val) \in DaemonEvent /\ Event(type, val).type = type
  BY DEF Event, DaemonEvent
<1>1. {"ScanComplete", "ScanFailed", "Connected", "Disconnected", "NetworkNotFound",
       "WrongPsk"} \subseteq EventTypes /\ current \in Networks \cup {None}
  BY DEF EventTypes, TypeInv, TypeOK
<1>2. CASE ScanFinishes
  <2>1. PICK type \in {"ScanComplete", "ScanFailed"} : events' = Append(events, Event(type, None))
    BY <1>2 DEF ScanFinishes, Emit
  <2> QED BY <1>0, <1>1, <1>2, <2>1 DEF ScanFinishes, IsLink
<1>3. CASE DaemonActs
  <2>0. UNCHANGED <<socketVars, up, attached>>
    BY <1>3 DEF DaemonActs
  <2>1. CASE scanning' = TRUE /\ UNCHANGED <<current, events>>
    BY <2>0, <2>1
  <2>2. CASE \E n \in Networks : /\ current' = n /\ UNCHANGED scanning
                                 /\ events' = Append(events, Event("Connected", n))
    BY <1>0, <1>1, <2>0, <2>2, DaemonAssumption DEF IsLink
  <2>3. CASE /\ current' = None /\ UNCHANGED scanning
             /\ events' = Append(events, Event("Disconnected", current))
    BY <1>0, <1>1, <2>0, <2>3 DEF IsLink
  <2>4. CASE \E type \in {"NetworkNotFound", "WrongPsk"}, n \in Networks :
               /\ events' = Append(events, Event(type, n))
               /\ UNCHANGED <<current, scanning>>
    BY <1>0, <1>1, <2>0, <2>4 DEF IsLink
  <2> QED BY <1>3, <2>1, <2>2, <2>3, <2>4 DEF DaemonActs, Emit
<1> QED BY <1>2, <1>3

\* Callers make calls, stop waiting or are told that the runtime has gone.
CallerStep == MakeCall \/ CallFails \/ GiveUp

LEMMA CallersLeave ==
  ASSUME TypeInv, CallerStep
  PROVE  /\ UNCHANGED <<runner, socketVars, daemonVars, stationVars>>
         /\ \A c \in Calls : request[c] # NoRequest => request'[c] = request[c]
BY DEF CallerStep, MakeCall, CallFails, GiveUp, Send, SendFails, RecvFails, Abandon, TypeInv,
       TypeOK

\* A step is a turn of the loop that goes on, one of the daemon, one of callers, or
\* one after which run() runs no more.
LEMMA StepKinds ==
  ASSUME [Next]_vars
  PROVE  Turn \/ DaemonStep \/ CallerStep \/ runner' # "running" \/ UNCHANGED vars
<1>1. OwnerDrops => runner' # "running"
  BY DEF OwnerDrops, DropRuntime
<1> QED BY <1>1 DEF Next, Turn, CallerStep

\* Every step keeps ATTACH the first thing read.
LEMMA AttachStep == TypeInv /\ AttachInv /\ [Next]_vars => AttachInv'
<1> SUFFICES ASSUME TypeInv, AttachInv, [Next]_vars, runner' = "running" PROVE AttachInv'
  BY DEF AttachInv
<1>1. CASE Turn
  <2>1. /\ UNCHANGED attached /\ runner = "running"
        /\ UNCHANGED wire \/ \E w \in Datagram : IsCommand(w) /\ wire' = Append(wire, w)
        /\ replies' # <<>> => replies # <<>>
    BY <1>1, TurnMoves, Sockets
  <2>2. \A i \in DOMAIN wire' : wire'[i].cmd = "ATTACH" => i \in DOMAIN wire /\ wire[i].cmd = "ATTACH"
    <3>1. CASE \E w \in Datagram : IsCommand(w) /\ wire' = Append(wire, w)
      BY <3>1, AppendElements, Sockets DEF IsCommand
    <3> QED BY <2>1, <3>1
  <2>3. scan_requests' # {} => scan_requests # {} \/ replies # <<>>
    BY <1>1, ScanMoves
  <2>4. select_request' # NoSelect => select_request # NoSelect \/ replies # <<>>
    BY <1>1, SelectMoves
  <2> QED BY <2>1, <2>2, <2>3, <2>4 DEF AttachInv
<1>2. CASE DaemonStep
  <2>0. /\ runner = "running" /\ UNCHANGED <<scan_requests, select_request>>
    BY <1>2, DaemonLeaves
  <2>1. CASE wire # <<>> /\ wire' = Tail(wire)
    <3>1. \A i \in DOMAIN wire' : wire'[i].cmd # "ATTACH"
      <4>1. wire \in Seq(Datagram)
        BY Sockets
      <4>2. \A i \in DOMAIN wire' : i \in Nat \ {0} /\ i + 1 \in DOMAIN wire /\ wire'[i] = wire[i + 1]
        BY <2>1, <4>1
      <4>3. \A i \in DOMAIN wire' : i + 1 # 1
        BY <4>2
      <4> QED BY <2>0, <4>2, <4>3 DEF AttachInv
    <3> QED BY <3>1 DEF AttachInv
  <2>2. CASE DaemonDies
    <3>1. wire' = Unsent(Len(wire)) /\ attached' = FALSE /\ UNCHANGED replies
      BY <2>2, Zenon DEF DaemonDies
    <3>2. \A i \in DOMAIN wire' :
            i = 1 /\ Len(wire) \in DOMAIN wire /\ wire'[i] = wire[Len(wire)]
      BY <3>1, UnsentIs, Sockets
    <3> QED BY <2>0, <3>1, <3>2 DEF AttachInv
  <2>3. CASE UNCHANGED <<wire, replies, attached>>
    BY <2>0, <2>3 DEF AttachInv
  <2> QED BY <1>2, <2>1, <2>2, <2>3
      DEF DaemonStep, Daemon, DaemonAttach, DaemonAnswers, DaemonIgnores, ScanFinishes,
          DaemonActs, DaemonDies, socketVars
<1>3. CASE CallerStep
  BY <1>3, CallersLeave DEF AttachInv, socketVars, daemonVars, stationVars
<1>4. CASE UNCHANGED vars
  BY <1>4 DEF AttachInv, vars, channelVars, socketVars, daemonVars, stationVars
<1> QED BY <1>1, <1>2, <1>3, <1>4, StepKinds

-----------------------------------------------------------------------------
(* Scans. *)

\* SCAN is accepted only while a scan is in progress, or by starting one.
LEMMA ScanAccepted ==
  ASSUME NEW a \in AnswersTo("SCAN"), a.text \in {"OK", "FAIL-BUSY"}
  PROVE  scanning \/ a.text = "OK"
BY DEF AnswersTo, Text

\* STATUS names the network the daemon is connected to.
LEMMA StatusTrue ==
  ASSUME NEW a \in AnswersTo("STATUS"), a.text = "status"
  PROVE  current \in {None, a.val}
<1>1. PICK n \in StatusIds : a = Text("status", n)
  BY DEF AnswersTo, Text
<1> QED BY <1>1 DEF StatusIds, Text

\* While a handler awaits its reply no event is taken; between handlers there is no
\* reply.
LEMMA RepliesHoldEvents ==
  ASSUME TypeInv, RepliesInStep, Turn, ~lapsed, NEW i \in DOMAIN replies'
  PROVE  /\ op # InLoop /\ UNCHANGED events
         /\ \E j \in DOMAIN replies : replies'[i] = replies[j]
<1>1. runner = "running" /\ (UNCHANGED events \/ op = InLoop)
      /\ (UNCHANGED replies \/ (replies # <<>> /\ replies' = Tail(replies)))
  BY TurnMoves
<1>2. \E j \in DOMAIN replies : replies'[i] = replies[j]
  <2>1. CASE UNCHANGED replies
    BY <2>1
  <2>2. CASE replies # <<>> /\ replies' = Tail(replies)
    BY <2>2, TailElements, Sockets
  <2> QED BY <1>1, <2>1, <2>2
<1>3. replies # <<>>
  BY <1>2
<1> QED BY <1>1, <1>2, <1>3, IdleQuiet

\* A reply the daemon adds comes behind the others.
LEMMA AnswerMoves ==
  ASSUME TypeInv, DaemonAnswers
  PROVE  /\ wire # <<>> /\ Head(wire).cmd # "ATTACH"
         /\ UNCHANGED <<lapsed, up, attached, current, events, acted>>
         /\ scanning => scanning'
         /\ \E a \in AnswersTo(Head(wire).cmd) :
              /\ Head(wire).cmd = "SCAN" /\ a.text = "OK" => scanning'
              /\ \A i \in DOMAIN replies' :
                   \/ i \in DOMAIN replies /\ replies'[i] = replies[i]
                   \/ replies'[i] = [cmd |-> Head(wire).cmd, call |-> Head(wire).call,
                                     text |-> a.text, val |-> a.val]
<1>1. wire # <<>> /\ Head(wire).cmd # "ATTACH" /\ replies \in Seq(Reply)
      /\ UNCHANGED <<lapsed, up, attached, current, events, acted>>
  BY Sockets DEF DaemonAnswers
<1>2. PICK a \in AnswersTo(Head(wire).cmd) :
        /\ replies' = Append(replies, [cmd |-> Head(wire).cmd, call |-> Head(wire).call,
                                       text |-> a.text, val |-> a.val])
        /\ scanning' = (scanning \/ (Head(wire).cmd = "SCAN" /\ a.text = "OK"))
  BY DEF DaemonAnswers
<1> DEFINE r == [cmd |-> Head(wire).cmd, call |-> Head(wire).call,
                 text |-> a.text, val |-> a.val]
<1>3. \A i \in DOMAIN replies' : (i \in DOMAIN replies /\ replies'[i] = replies[i])
                                  \/ replies'[i] = r
  <2>1. replies' = Append(replies, r)
    BY <1>2
  <2> HIDE DEF r
  <2> QED BY <1>1, <2>1
<1> QED BY <1>1, <1>2, <1>3

\* Before ATTACH is read nothing is answered and nothing waits.
LEMMA AttachEmpty ==
  ASSUME TypeInv, AttachInv, runner = "running", DaemonAttach
  PROVE  replies = <<>> /\ scan_requests = {} /\ select_request = NoSelect /\ ~attached
<1>1. wire \in Seq(Datagram) /\ wire # <<>> /\ Head(wire).cmd = "ATTACH"
  BY Sockets DEF DaemonAttach
<1>2. 1 \in DOMAIN wire /\ wire[1].cmd = "ATTACH"
  BY <1>1
<1> QED BY <1>2 DEF AttachInv

LEMMA ScanTurn ==
  ASSUME TypeInv, RepliesInStep, ScanInv, Turn
  PROVE  ScanInv'
<1> SUFFICES ASSUME Streaming', ~lapsed'
             PROVE  /\ scan_requests' # {} => ScanComing' \/ op'.cmd = "SCAN_RESULTS"
                    /\ \A i \in DOMAIN replies' : Accepting(replies'[i]) => ScanComing'
  BY DEF ScanInv
<1>0. /\ Streaming /\ ~lapsed /\ UNCHANGED scanning
      /\ scan_requests # {} => ScanComing \/ op.cmd = "SCAN_RESULTS"
      /\ \A i \in DOMAIN replies : Accepting(replies[i]) => ScanComing
  BY TurnMoves DEF ScanInv, Streaming
<1>1. UNCHANGED events => ScanComing' = ScanComing
  BY <1>0 DEF ScanComing, Queued
<1>2. ASSUME NEW i \in DOMAIN replies', Accepting(replies'[i]) PROVE ScanComing'
  BY <1>0, <1>1, <1>2, RepliesHoldEvents
<1>3. ASSUME scan_requests' # {} PROVE ScanComing' \/ op'.cmd = "SCAN_RESULTS"
  <2>1. CASE op.cmd = "SCAN" /\ replies # <<>> /\ Head(replies).text \in {"OK", "FAIL-BUSY"}
    <3>1. 1 \in DOMAIN replies /\ replies[1].cmd = "SCAN"
      BY <1>0, <2>1, Sockets DEF RepliesInStep, Streaming
    <3>2. ScanComing
      BY <1>0, <2>1, <3>1, Sockets DEF Accepting
    <3>3. UNCHANGED events
      BY <2>1, TurnMoves DEF InLoop
    <3> QED BY <1>1, <3>2, <3>3
  <2>2. CASE scan_requests # {} /\ (op.cmd = "SCAN_RESULTS" => op'.cmd = "SCAN_RESULTS")
    <3>1. CASE UNCHANGED events
      BY <1>0, <1>1, <2>2, <3>1
    <3>2. CASE ~UNCHANGED events
      <4>1. /\ events # <<>> /\ events' = Tail(events)
            /\ Head(events).type = "ScanComplete" => op'.cmd = "SCAN_RESULTS"
            /\ Head(events).type # "ScanFailed"
        BY <1>3, <3>2, EventMoves
      <4>2. \A type : Queued(type) => Queued(type)' \/ Head(events).type = type
        BY <4>1, QueuedTail
      <4> QED BY <1>0, <2>2, <4>1, <4>2 DEF ScanComing
    <3> QED BY <3>1, <3>2
  <2> QED BY <1>3, <2>1, <2>2, ScanMoves
<1> QED BY <1>2, <1>3

LEMMA ScanDaemon ==
  ASSUME TypeInv, AttachInv, ScanInv, DaemonStep
  PROVE  ScanInv'
<1>0. /\ runner = "running" /\ (up' => up)
      /\ UNCHANGED <<runner, op, scan_requests, lapsed>>
  BY DaemonLeaves
<1> SUFFICES ASSUME Streaming', ~lapsed
             PROVE  /\ scan_requests # {} => ScanComing' \/ op.cmd = "SCAN_RESULTS"
                    /\ \A i \in DOMAIN replies' : Accepting(replies'[i]) => ScanComing'
  BY <1>0 DEF ScanInv
<1>1. CASE DaemonAttach
  BY <1>0, <1>1, AttachEmpty DEF DaemonAttach
<1>2. CASE ~DaemonAttach
  <2>1. Streaming
    BY <1>0, <1>2 DEF DaemonStep, Daemon, DaemonAnswers, DaemonIgnores, ScanFinishes, DaemonActs,
                      DaemonDies, daemonVars, Streaming
  <2>2. /\ scan_requests # {} => ScanComing \/ op.cmd = "SCAN_RESULTS"
        /\ \A i \in DOMAIN replies : Accepting(replies[i]) => ScanComing
    BY <2>1 DEF ScanInv
  <2>3. CASE DaemonAnswers
    <3>1. ScanComing => ScanComing'
      BY <2>3, AnswerMoves DEF ScanComing, Queued
    <3>2. PICK a \in AnswersTo(Head(wire).cmd) :
            /\ Head(wire).cmd = "SCAN" /\ a.text = "OK" => scanning'
            /\ \A i \in DOMAIN replies' :
                 \/ i \in DOMAIN replies /\ replies'[i] = replies[i]
                 \/ replies'[i] = [cmd |-> Head(wire).cmd, call |-> Head(wire).call,
                                   text |-> a.text, val |-> a.val]
      BY <2>3, AnswerMoves
    <3>3. ASSUME NEW i \in DOMAIN replies', Accepting(replies'[i]),
                 ~(i \in DOMAIN replies /\ replies'[i] = replies[i])
          PROVE  ScanComing'
      <4>1. Head(wire).cmd = "SCAN" /\ a.text \in {"OK", "FAIL-BUSY"}
        BY <3>2, <3>3 DEF Accepting
      <4>2. scanning'
        BY <2>3, <3>2, <4>1, ScanAccepted, AnswerMoves
      <4> QED BY <4>2 DEF ScanComing
    <3> QED BY <2>2, <3>1, <3>3
  <2>4. CASE ScanFinishes \/ DaemonActs
    <3>1. UNCHANGED replies /\ attached
      BY <2>1, <2>4, DaemonReports DEF socketVars, Streaming
    <3>2. ScanComing => ScanComing'
      <4>1. CASE UNCHANGED events /\ (scanning => scanning')
        BY <4>1 DEF ScanComing, Queued
      <4>2. CASE \E e \in DaemonEvent :
                   /\ events' = Append(events, e)
                   /\ scanning => scanning' \/ e.type \in {"ScanComplete", "ScanFailed"}
        BY <4>2, QueuedAppend DEF ScanComing
      <4> QED BY <2>4, <3>1, <4>1, <4>2, DaemonReports
    <3> QED BY <2>2, <3>1, <3>2
  <2>5. CASE DaemonIgnores
    BY <2>2, <2>5 DEF DaemonIgnores, daemonVars, ScanComing, Queued
  <2>6. CASE DaemonDies
    BY <2>6 DEF DaemonDies, Streaming
  <2> QED BY <1>2, <2>3, <2>4, <2>5, <2>6 DEF DaemonStep, Daemon
<1> QED BY <1>1, <1>2

LEMMA ScanStep ==
  TypeInv /\ RepliesInStep /\ AttachInv /\ ScanInv /\ [Next]_vars => ScanInv'
<1> SUFFICES ASSUME TypeInv, RepliesInStep, AttachInv, ScanInv, [Next]_vars PROVE ScanInv'
  OBVIOUS
<1>1. CASE CallerStep \/ UNCHANGED vars
  <2>1. UNCHANGED <<runner, socketVars, daemonVars, stationVars>>
    BY <1>1, CallersLeave DEF vars, channelVars
  <2> QED BY <2>1 DEF ScanInv, Streaming, ScanComing, Queued, socketVars, daemonVars, stationVars
<1>2. CASE runner' # "running"
  BY <1>2 DEF ScanInv, Streaming
<1> QED BY <1>1, <1>2, ScanTurn, ScanDaemon, StepKinds

-----------------------------------------------------------------------------
(* Selects. *)

LEMMA SelectTurn ==
  ASSUME TypeInv, RepliesInStep, SelectInv, Turn
  PROVE  SelectInv'
<1> DEFINE told == Queued("Connected")
<1> SUFFICES ASSUME Streaming', ~lapsed'
             PROVE  /\ select_request' # NoSelect /\ current # None =>
                         (current = request[select_request'.call].id => told')
                    /\ \A i \in DOMAIN replies' : Status(replies'[i]) =>
                         current \in {None, replies'[i].val} \/ told'
  <2>1. UNCHANGED <<current, request>>
    BY TurnMoves
  <2> QED BY <2>1 DEF SelectInv
<1>0. /\ Streaming /\ ~lapsed
      /\ select_request # NoSelect /\ current # None =>
           (current = request[select_request.call].id => told)
      /\ \A i \in DOMAIN replies : Status(replies[i]) => current \in {None, replies[i].val} \/ told
  BY TurnMoves DEF SelectInv, Streaming
<1>1. UNCHANGED events => told' = told
  BY DEF Queued
<1> HIDE DEF told
<1>2. ASSUME NEW i \in DOMAIN replies', Status(replies'[i])
      PROVE  current \in {None, replies'[i].val} \/ told'
  BY <1>0, <1>1, <1>2, RepliesHoldEvents
<1>3. ASSUME select_request' # NoSelect, current # None, current = request[select_request'.call].id
      PROVE  told'
  <2>1. CASE /\ op.cmd = "STATUS" /\ select_request'.call = op.call
             /\ replies # <<>> /\ Head(replies).text = "status"
             /\ Head(replies).val # request[op.call].id
    <3>1. 1 \in DOMAIN replies /\ replies[1].cmd = "STATUS" /\ replies[1] = Head(replies)
      BY <1>0, <2>1, Sockets DEF RepliesInStep, Streaming
    <3>2. told
      BY <1>0, <1>3, <2>1, <3>1 DEF Status
    <3>3. UNCHANGED events
      BY <2>1, TurnMoves DEF InLoop
    <3> QED BY <1>1, <3>2, <3>3
  <2>2. CASE select_request # NoSelect /\ select_request'.call = select_request.call
    <3>0. told
      BY <1>0, <1>3, <2>2
    <3>1. CASE UNCHANGED events
      BY <1>1, <3>0, <3>1
    <3>2. CASE ~UNCHANGED events
      <4>1. events # <<>> /\ events' = Tail(events) /\ Head(events).type # "Connected"
        BY <1>3, <3>2, EventMoves
      <4> QED BY <3>0, <4>1, QueuedTail DEF told
    <3> QED BY <3>1, <3>2
  <2> QED BY <1>3, <2>1, <2>2, SelectMoves
<1> QED BY <1>2, <1>3 DEF told

LEMMA SelectDaemon ==
  ASSUME TypeInv, AttachInv, SelectInv, DaemonStep
  PROVE  SelectInv'
<1>0. /\ runner = "running" /\ (up' => up)
      /\ UNCHANGED <<runner, request, select_request, lapsed>>
  BY DaemonLeaves
<1> DEFINE Missed(n) == select_request # NoSelect /\ n # None
                        /\ n = request[select_request.call].id
<1> SUFFICES ASSUME Streaming', ~lapsed
             PROVE  /\ Missed(current') => Queued("Connected")'
                    /\ \A i \in DOMAIN replies' : Status(replies'[i]) =>
                         current' \in {None, replies'[i].val} \/ Queued("Connected")'
  BY <1>0 DEF SelectInv
<1>1. CASE DaemonAttach
  BY <1>0, <1>1, AttachEmpty DEF DaemonAttach
<1>2. CASE ~DaemonAttach
  <2>1. Streaming
    BY <1>0, <1>2 DEF DaemonStep, Daemon, DaemonAnswers, DaemonIgnores, ScanFinishes, DaemonActs,
                      DaemonDies, daemonVars, Streaming
  <2>2. /\ Missed(current) => Queued("Connected")
        /\ \A i \in DOMAIN replies : Status(replies[i]) =>
             current \in {None, replies[i].val} \/ Queued("Connected")
    BY <2>1 DEF SelectInv
  <2> HIDE DEF Missed
  <2>3. CASE DaemonAnswers
    <3>1. UNCHANGED current /\ Queued("Connected")' = Queued("Connected")
      BY <2>3, AnswerMoves DEF Queued
    <3>2. PICK a \in AnswersTo(Head(wire).cmd) :
            \A i \in DOMAIN replies' :
              \/ i \in DOMAIN replies /\ replies'[i] = replies[i]
              \/ replies'[i] = [cmd |-> Head(wire).cmd, call |-> Head(wire).call,
                                text |-> a.text, val |-> a.val]
      BY <2>3, AnswerMoves
    <3>3. ASSUME NEW i \in DOMAIN replies', Status(replies'[i]),
                 ~(i \in DOMAIN replies /\ replies'[i] = replies[i])
          PROVE  current \in {None, replies'[i].val}
      <4>1. Head(wire).cmd = "STATUS" /\ a.text = "status" /\ replies'[i].val = a.val
        BY <3>2, <3>3 DEF Status
      <4> QED BY <4>1, StatusTrue
    <3> QED BY <2>2, <3>1, <3>3
  <2>4. CASE ScanFinishes \/ DaemonActs
    <3>1. UNCHANGED replies /\ attached
      BY <2>1, <2>4, DaemonReports DEF socketVars, Streaming
    <3>2. /\ Queued("Connected") => Queued("Connected")'
          /\ current' \in {None, current} \/ Queued("Connected")'
      <4>1. CASE UNCHANGED <<events, current>>
        BY <4>1 DEF Queued
      <4>2. CASE \E e \in DaemonEvent :
                   /\ events' = Append(events, e)
                   /\ current' # current /\ current' # None => e.type = "Connected"
        BY <4>2, QueuedAppend
      <4> QED BY <2>4, <3>1, <4>1, <4>2, DaemonReports
    <3>3. ~Missed(None)
      BY DEF Missed
    <3> QED BY <2>2, <3>1, <3>2, <3>3
  <2>5. CASE DaemonIgnores
    BY <2>2, <2>5 DEF DaemonIgnores, daemonVars, Queued
  <2>6. CASE DaemonDies
    BY <2>6 DEF DaemonDies, Streaming
  <2> QED BY <1>2, <2>3, <2>4, <2>5, <2>6 DEF DaemonStep, Daemon
<1> QED BY <1>1, <1>2

LEMMA SelectStep ==
  TypeInv /\ RepliesInStep /\ AttachInv /\ SelectInv /\ [Next]_vars => SelectInv'
<1> SUFFICES ASSUME TypeInv, RepliesInStep, AttachInv, SelectInv, [Next]_vars PROVE SelectInv'
  OBVIOUS
<1>1. CASE CallerStep \/ UNCHANGED vars
  <2>1. /\ UNCHANGED <<runner, socketVars, daemonVars, stationVars>>
        /\ \A c \in Calls : request[c] # NoRequest => request'[c] = request[c]
    BY <1>1, CallersLeave DEF vars, channelVars
  <2>2. select_request # NoSelect => request'[select_request.call] = request[select_request.call]
    <3>1. select_request # NoSelect => select_request.call \in Held /\ select_request.call \in Calls
      BY DEF TypeInv, TypeOK, HandlersFit, Held, Select, Callers
    <3> QED BY <2>1, <3>1 DEF TypeInv, Made
  <2> QED BY <2>1, <2>2 DEF SelectInv, Streaming, Queued, socketVars, daemonVars, stationVars
<1>2. CASE runner' # "running"
  BY <1>2 DEF SelectInv, Streaming
<1> QED BY <1>1, <1>2, SelectTurn, SelectDaemon, StepKinds

-----------------------------------------------------------------------------
(* The link. *)

LEMMA LinkTurn ==
  ASSUME TypeInv, LinkInv, Turn
  PROVE  LinkInv'
<1> DEFINE h == Head(events)
           none == ~Queued("Connected") /\ ~Queued("Disconnected")
<1>0. runner = "running" /\ UNCHANGED <<runner, up, attached, current>>
  BY TurnMoves DEF Turn
<1>1. CASE UNCHANGED <<events, link>>
  BY <1>0, <1>1 DEF LinkInv, LinkMirrored, Streaming, Queued, Newest
<1>2. CASE ~UNCHANGED <<events, link>>
  <2>1. /\ events # <<>> /\ events' = Tail(events) /\ events \in Seq(DaemonEvent)
        /\ h.type = "Connected" => link' = "Connected"
        /\ h.type = "Disconnected" => link' = "Disconnected"
        /\ ~IsLink(h) => UNCHANGED link
    BY <1>2, EventMoves, Sockets
  <2>2. /\ 1 \in DOMAIN events /\ h = events[1]
        /\ \A i \in DOMAIN events' : i \in Nat /\ i + 1 \in DOMAIN events /\ events'[i] = events[i + 1]
        /\ \A i \in DOMAIN events : i \in Nat /\ (i = 1 \/ (i > 1 /\ i - 1 \in DOMAIN events'
                                                          /\ events'[i - 1] = events[i]))
    BY <2>1
  <2> HIDE DEF h
  <2>3. ASSUME NEW i \in DOMAIN events', Newest(i)'
        PROVE  Newest(i + 1)
    <3>1. i + 1 \in DOMAIN events /\ events'[i] = events[i + 1] /\ IsLink(events[i + 1]) /\ i \in Nat
      BY <2>2, <2>3 DEF Newest
    <3>2. ASSUME NEW j \in DOMAIN events, j > i + 1 PROVE ~IsLink(events[j])
      <4>1. j - 1 \in DOMAIN events' /\ events'[j - 1] = events[j] /\ j - 1 > i
        BY <2>2, <3>1, <3>2
      <4> QED BY <2>3, <4>1 DEF Newest
    <3> QED BY <3>1, <3>2 DEF Newest
  <2>4. IsLink(h) /\ none' => Newest(1)
    <3> SUFFICES ASSUME IsLink(h), none', NEW j \in DOMAIN events, j > 1
                 PROVE  ~IsLink(events[j])
      BY <2>2 DEF Newest
    <3>1. j - 1 \in DOMAIN events' /\ events'[j - 1] = events[j]
      BY <2>2
    <3> QED BY <3>1 DEF Queued, IsLink, none
  <2>5. ~IsLink(h) /\ none' => none
    <3>1. \A type : Queued(type) => Queued(type)' \/ h.type = type
      BY <2>1, QueuedTail DEF h
    <3> QED BY <3>1 DEF IsLink, none
  <2>6. Streaming' => \A i \in DOMAIN events' :
          Newest(i)' => (events'[i].type = "Connected" <=> current' # None)
    BY <1>0, <2>2, <2>3 DEF LinkInv, Streaming
  <2>7. LinkMirrored'
    <3> SUFFICES ASSUME Streaming, link' # "unknown", none'
                 PROVE  link' = "Connected" <=> current # None
      BY <1>0 DEF LinkMirrored, Streaming, none
    <3>1. CASE IsLink(h)
      <4>1. h.type = "Connected" <=> current # None
        BY <2>2, <2>4, <3>1 DEF LinkInv
      <4> QED BY <2>1, <3>1, <4>1 DEF IsLink
    <3>2. CASE ~IsLink(h)
      BY <2>1, <2>5, <3>2 DEF LinkInv, LinkMirrored, none
    <3> QED BY <3>1, <3>2
  <2>8. up /\ ~attached => link' = "unknown" /\ \A i \in DOMAIN events' : ~IsLink(events'[i])
    <3> SUFFICES ASSUME up, ~attached
                 PROVE  link' = "unknown" /\ \A i \in DOMAIN events' : ~IsLink(events'[i])
      OBVIOUS
    <3>1. link = "unknown" /\ \A i \in DOMAIN events : ~IsLink(events[i])
      BY <1>0 DEF LinkInv
    <3> QED BY <2>1, <2>2, <3>1
  <2> QED BY <1>0, <2>6, <2>7, <2>8 DEF LinkInv
<1> QED BY <1>1, <1>2

LEMMA LinkDaemon ==
  ASSUME TypeInv, AttachInv, LinkInv, DaemonStep
  PROVE  LinkInv'
<1>0. runner = "running" /\ (up' => up) /\ UNCHANGED <<runner, link>>
      /\ link \in {"unknown", "Connected", "Disconnected"}
  BY DaemonLeaves DEF TypeInv, TypeOK
<1> SUFFICES ASSUME up' PROVE LinkInv'
  BY DEF LinkInv, LinkMirrored, Streaming
<1>1. CASE UNCHANGED <<events, up, attached, current>>
  BY <1>0, <1>1 DEF LinkInv, LinkMirrored, Streaming, Queued, Newest
<1>2. CASE DaemonAttach
  <2>1. link = "unknown" /\ \A i \in DOMAIN events : ~IsLink(events[i])
    BY <1>0, <1>2, AttachEmpty DEF LinkInv
  <2>2. events' = Append(events, Event("Unknown", None)) /\ Event("Unknown", None) \in DaemonEvent
    BY <1>2 DEF DaemonAttach, Event, DaemonEvent, EventTypes
  <2>3. \A i \in DOMAIN events' : ~IsLink(events'[i])
    <3>1. ~IsLink(Event("Unknown", None))
      BY DEF IsLink, Event
    <3>2. \A i \in DOMAIN events' : (i \in DOMAIN events /\ events'[i] = events[i])
                                     \/ events'[i] = Event("Unknown", None)
      BY <2>2, AppendElements, Sockets
    <3> QED BY <2>1, <3>1, <3>2
  <2> QED BY <1>0, <2>1, <2>3 DEF LinkInv, LinkMirrored, Newest
<1>3. CASE (ScanFinishes \/ DaemonActs) /\ ~attached
  <2>1. UNCHANGED <<events, attached, up>>
    BY <1>3 DEF ScanFinishes, DaemonActs, Emit
  <2> QED BY <1>0, <1>3, <2>1 DEF LinkInv, LinkMirrored, Streaming
<1>4. CASE (ScanFinishes \/ DaemonActs) /\ attached
  <2>1. UNCHANGED <<up, attached>> /\ Streaming
    BY <1>0, <1>4, DaemonReports DEF Streaming
  <2>2. CASE UNCHANGED <<events, current>>
    BY <1>1, <2>1, <2>2
  <2>3. CASE \E e \in DaemonEvent : /\ events' = Append(events, e)
                                    /\ IsLink(e) => (e.type = "Connected" <=> current' # None)
                                    /\ ~IsLink(e) => UNCHANGED current
    <3>1. PICK e \in DaemonEvent : /\ events' = Append(events, e)
                                   /\ IsLink(e) => (e.type = "Connected" <=> current' # None)
                                   /\ ~IsLink(e) => UNCHANGED current
      BY <2>3
    <3>2. \A type : Queued(type)' <=> Queued(type) \/ e.type = type
      BY <3>1, QueuedAppend
    <3>3. /\ events \in Seq(DaemonEvent) /\ Len(events) \in Nat /\ DOMAIN events = 1..Len(events)
          /\ DOMAIN events' = 1..(Len(events) + 1) /\ events'[Len(events) + 1] = e
          /\ \A i \in DOMAIN events : events'[i] = events[i] /\ i \in DOMAIN events' /\ Len(events) + 1 > i
          /\ \A i \in DOMAIN events' : i \in DOMAIN events \/ i = Len(events) + 1
          /\ Len(events) + 1 \in DOMAIN events'
      <4>1. events \in Seq(DaemonEvent)
        BY Sockets
      <4> QED BY <3>1, <4>1
    <3>4. ASSUME NEW i \in DOMAIN events', Newest(i)'
          PROVE  IF IsLink(e) THEN events'[i] = e ELSE Newest(i) /\ events'[i] = events[i]
      <4>1. CASE i = Len(events) + 1
        BY <3>3, <3>4, <4>1 DEF Newest
      <4>2. CASE i \in DOMAIN events
        BY <3>3, <3>4, <4>2 DEF Newest
      <4> QED BY <3>3, <4>1, <4>2
    <3>5. \A i \in DOMAIN events' : Newest(i)' => (events'[i].type = "Connected" <=> current' # None)
      <4> TAKE i \in DOMAIN events'
      <4>1. CASE IsLink(e)
        BY <3>1, <3>4, <4>1
      <4>2. CASE ~IsLink(e)
        BY <2>1, <3>1, <3>4, <4>2 DEF LinkInv, Newest
      <4> QED BY <4>1, <4>2
    <3>6. LinkMirrored'
      BY <1>0, <2>1, <3>1, <3>2 DEF LinkInv, LinkMirrored, IsLink, Streaming
    <3> QED BY <1>4, <2>1, <3>5, <3>6 DEF LinkInv
  <2> QED BY <1>4, <2>2, <2>3, DaemonReports
<1>5. DaemonAnswers \/ DaemonIgnores => UNCHANGED <<events, up, attached, current>>
  BY DEF DaemonAnswers, DaemonIgnores, daemonVars
<1> QED BY <1>1, <1>2, <1>3, <1>4, <1>5 DEF DaemonStep, Daemon, DaemonDies

LEMMA LinkStep == TypeInv /\ AttachInv /\ LinkInv /\ [Next]_vars => LinkInv'
<1> SUFFICES ASSUME TypeInv, AttachInv, LinkInv, [Next]_vars PROVE LinkInv'
  OBVIOUS
<1>1. CASE CallerStep \/ UNCHANGED vars
  <2>1. UNCHANGED <<runner, socketVars, daemonVars, stationVars>>
    BY <1>1, CallersLeave DEF vars, channelVars
  <2> QED BY <2>1 DEF LinkInv, LinkMirrored, Streaming, Queued, Newest, daemonVars, stationVars
<1>2. CASE runner' # "running"
  BY <1>2 DEF LinkInv, LinkMirrored, Streaming
<1> QED BY <1>1, <1>2, LinkTurn, LinkDaemon, StepKinds

-----------------------------------------------------------------------------
LEMMA EventInit == Init => AttachInv /\ ScanInv /\ SelectInv /\ LinkInv
<1> SUFFICES ASSUME Init PROVE AttachInv /\ ScanInv /\ SelectInv /\ LinkInv
  OBVIOUS
<1>1. /\ wire = <<[cmd |-> "ATTACH", call |-> None]>> /\ ~attached /\ replies = <<>>
      /\ events = <<>> /\ scan_requests = {} /\ select_request = NoSelect /\ link = "unknown"
  BY DEF Init, SocketInit, DaemonInit
<1>2. \A i \in DOMAIN wire : i = 1
  BY <1>1
<1> QED BY <1>1, <1>2
    DEF AttachInv, ScanInv, SelectInv, LinkInv, LinkMirrored, Streaming, Newest

\* ATTACH is read before any command of a handler.
LEMMA AttachFirst == Spec => []AttachInv
BY EventInit, AttachStep, TypeInvHolds, PTL DEF Spec

\* Scan requests never wait for a scan event that will not come: FAIL-BUSY is as
\* good as OK.
THEOREM ScansAwaited == Spec => []ScansNotStranded
<1>1. ScanInv => ScansNotStranded
  BY DEF ScanInv, ScansNotStranded, ScanComing
<1> QED BY <1>1, EventInit, ScanStep, AttachFirst, InStep, TypeInvHolds, PTL DEF Spec

\* A pending select never waits for a connection that is there already.
THEOREM SelectsAwaited == Spec => []SelectNotMissed
<1>1. SelectInv => SelectNotMissed
  BY DEF SelectInv, SelectNotMissed
<1> QED BY <1>1, EventInit, SelectStep, AttachFirst, InStep, TypeInvHolds, PTL DEF Spec

\* What listeners were last told of the link is how it is, or a newer event is queued.
THEOREM LinkBroadcast == Spec => []LinkMirrored
<1>1. LinkInv => LinkMirrored
  BY DEF LinkInv
<1> QED BY <1>1, EventInit, LinkStep, AttachFirst, TypeInvHolds, PTL DEF Spec

=============================================================================
