---------------------------- MODULE StationProofs ----------------------------
(***************************************************************************)
(* Proofs about the station's runtime (src/sta/mod.rs), for any number of  *)
(* calls, networks and daemon events and any channel capacity: its type    *)
(* invariant, that commands and replies stay in step on the control socket *)
(* while no command is given up on, and that callers are then told the     *)
(* reply to their own command.                                             *)
(*                                                                         *)
(* TypeOK is not inductive: handle_request looks up the first command of   *)
(* the request at the head of the channel, and the rest of a handler reads *)
(* the request it works for.  TypeInv adds that what the runtime holds was *)
(* sent (Made) and that each handler works for a request of its own kind   *)
(* (HandlersFit).                                                          *)
(***************************************************************************)
EXTENDS StationProps, ChannelProofs

\* Every call the runtime owns the sender of has been made.
Made == \A c \in Calls : c \in Held => request[c] # NoRequest

\* The commands the handler of a request of kind k sends.
CommandsOf(k) ==
  IF k = "SelectNetwork" THEN {"SELECT_NETWORK", "STATUS"}
  ELSE IF k = "Networks" THEN {"LIST_NETWORKS", "GET_NETWORK"}
  ELSE {FirstCommand[k]}

\* The command being awaited is one the handler of its call sends, scan_requests
\* holds Scans and select_request a select, which no handler is at work on.
HandlersFit ==
  /\ op.cmd = "none" => op = InLoop
  /\ op.cmd = "SCAN_RESULTS" => op.call = None
  /\ op.cmd \notin {"none", "SCAN_RESULTS"} =>
       /\ op.call \in Calls
       /\ op.cmd \in CommandsOf(Kind(op.call))
       /\ Kind(op.call) \in DOMAIN FirstCommand
       /\ Kind(op.call) = "SelectNetwork" => select_request = NoSelect
  /\ \A c \in scan_requests : Kind(c) = "Scan"
  /\ select_request.call = None => select_request = NoSelect
  /\ select_request.call # None => Kind(select_request.call) = "SelectNetwork"

TypeInv == TypeOK /\ Made /\ HandlersFit

\* Answering callers (`let _ = sender.send`) leaves every caller with an answer of its type.
LEMMA RespondType ==
  ASSUME TypeOK, NEW S, NEW res \in Results, NEW of \in Callers \cup Networks,
         Respond(S, Ans(res, of))
  PROVE  answer' \in [Calls -> Told]
<1>1. Ans(res, of) \in Told
  BY DEF Ans, Told
<1> QED BY <1>1 DEF TypeOK, Respond

\* SocketHandle::parse_resp returns one of the results a caller may be told.
LEMMA ParseType == ASSUME NEW cmd, NEW r PROVE Parse(cmd, r) \in Results
BY DEF Parse, Results

\* What ends the wait of SocketHandle::command is a reply of its type or the timeout.
LEMMA ArrivalType ==
  ASSUME TypeOK, NEW r \in Arrivals
  PROVE  /\ r.call \in Callers
         /\ (IF r.text = "list" THEN r.val ELSE 0) \in Nat
<1>1. CASE r = TimedOut
  BY <1>1 DEF TimedOut, Callers
<1>2. CASE \E i \in 1..Len(replies) : r = replies[i]
  <2>1. PICK i \in 1..Len(replies) : r = replies[i]
    BY <1>2
  <2>2. r \in Reply
    BY <2>1 DEF TypeOK
  <2> QED BY <2>2 DEF Reply
<1> QED BY <1>1, <1>2 DEF Arrivals

\* What a daemon that goes leaves of wire is the last datagram, or nothing.
LEMMA UnsentIs ==
  ASSUME wire \in Seq(Datagram)
  PROVE  /\ Unsent(Len(wire)) \in Seq(Datagram)
         /\ \A i \in DOMAIN Unsent(Len(wire)) :
              i = 1 /\ Len(wire) \in DOMAIN wire /\ Unsent(Len(wire))[i] = wire[Len(wire)]
<1>1. CASE wire # <<>> /\ Len(wire) > Backlog
  <2>1. Len(wire) \in DOMAIN wire /\ wire[Len(wire)] \in Datagram
    BY <1>1
  <2>2. Unsent(Len(wire)) = <<wire[Len(wire)]>>
    BY <1>1 DEF Unsent
  <2> QED BY <2>1, <2>2
<1>2. CASE ~(wire # <<>> /\ Len(wire) > Backlog)
  <2>1. Unsent(Len(wire)) = <<>>
    BY <1>2 DEF Unsent
  <2> QED BY <2>1
<1> QED BY <1>1, <1>2

\* Reading a reply, or giving up on it, keeps the control socket well typed.
LEMMA AwaitType ==
  ASSUME TypeOK, NEW r, Await(r)
  PROVE  replies' \in Seq(Reply) /\ lapsed' \in BOOLEAN
<1>1. CASE r = Head(replies) /\ replies # <<>> /\ replies' = Tail(replies) /\ UNCHANGED lapsed
  BY <1>1 DEF TypeOK
<1>2. CASE lapsed' = TRUE /\ UNCHANGED replies
  BY <1>2 DEF TypeOK
<1> QED BY <1>1, <1>2 DEF Await

\* When run_internal returns, its locals have their types.
LEMMA ReturnType ==
  ASSUME TypeOK, NEW result \in SocketResults, Return(result)
  PROVE  /\ runner' \in {"running", "dropped"} \cup SocketResults
         /\ op' \in Handler
         /\ scan_requests' \subseteq Calls
         /\ select_request' \in Select
BY DEF Return, InLoop, NoSelect, Handler, Select, Callers

\* Sending a command, or failing to, keeps the types of what it touches.
LEMMA SendCommandType ==
  ASSUME TypeOK, NEW cmd \in Commands, NEW c \in Callers, NEW left \in Nat,
         SendCommand(cmd, c, left)
  PROVE  /\ runner' \in {"running", "dropped"} \cup SocketResults
         /\ wire' \in Seq(Datagram)
         /\ op' \in Handler
         /\ scan_requests' \subseteq Calls
         /\ select_request' \in Select
<1>1. CASE up
  <2>1. /\ wire' = Append(wire, [cmd |-> cmd, call |-> c])
        /\ op' = [cmd |-> cmd, call |-> c, left |-> left]
        /\ UNCHANGED <<runner, scan_requests, select_request>>
    BY <1>1 DEF SendCommand
  <2>2. [cmd |-> cmd, call |-> c] \in Datagram /\ op' \in Handler
    BY <2>1 DEF Datagram, Handler
  <2> QED BY <2>1, <2>2 DEF TypeOK
<1>2. CASE ~up
  <2>1. Return("Io") /\ UNCHANGED wire
    BY <1>2 DEF SendCommand
  <2> QED BY <2>1, ReturnType DEF TypeOK, SocketResults
<1> QED BY <1>1, <1>2

\* handle_request finds a command for the request at the head of the channel.
LEMMA FirstCommandType ==
  ASSUME TypeInv, queue # <<>>, Kind(Head(queue)) # "Shutdown"
  PROVE  /\ Head(queue) \in Calls
         /\ Kind(Head(queue)) \in DOMAIN FirstCommand
         /\ FirstCommand[Kind(Head(queue))] \in Commands
<1>1. Head(queue) \in Calls /\ Head(queue) \in Range(queue)
  BY DEF TypeInv, TypeOK, Range
<1>2. request[Head(queue)] \in Requests
  BY <1>1 DEF TypeInv, TypeOK, Made, Held
<1>3. Kind(Head(queue)) \in DOMAIN FirstCommand
  BY <1>2, StationAssumption DEF Kind, Kinds
<1> QED BY <1>1, <1>3 DEF FirstCommand, Commands, Accepted

\* A runtime that takes no new call still owns only calls that were made.
LEMMA MadeKept ==
  ASSUME Made, UNCHANGED request, Held' \subseteq Held
  PROVE  Made'
BY DEF Made

\* run_internal takes hold of no call when it returns.
LEMMA ReturnHeld ==
  ASSUME TypeOK, NEW result, Return(result), Range(queue') \subseteq Range(queue)
  PROVE  Held' \subseteq Held
BY ChannelAssumption DEF Return, Held, InLoop, NoSelect

\* A handler that sends a command takes hold of no call it was not given.
LEMMA SendCommandHeld ==
  ASSUME TypeOK, NEW cmd, NEW c \in Callers, NEW left,
         SendCommand(cmd, c, left), Range(queue') \subseteq Range(queue),
         c \in Held \cup {None}
  PROVE  Held' \subseteq Held
<1>1. CASE up
  <2>1. op'.call = c /\ UNCHANGED <<scan_requests, select_request>>
    BY <1>1 DEF SendCommand
  <2> QED BY <2>1, ChannelAssumption DEF Held
<1>2. CASE ~up
  BY <1>2, ReturnHeld DEF SendCommand
<1> QED BY <1>1, <1>2

\* The end of a wait in a handler keeps the types of the socket and touches no more.
LEMMA HandleReplyType ==
  ASSUME TypeOK, NEW r \in Arrivals, HandleReply(r)
  PROVE  /\ replies' \in Seq(Reply) /\ lapsed' \in BOOLEAN
         /\ r.call \in Callers \cup Networks
         /\ UNCHANGED <<request, queue, daemonVars, link>>
BY AwaitType, ArrivalType DEF HandleReply

\* Taking the next event keeps the type of the event socket and touches no more.
LEMMA NextEventType ==
  ASSUME TypeOK, NEW e, NextEvent(e)
  PROVE  /\ e \in DaemonEvent /\ events' \in Seq(DaemonEvent)
         /\ UNCHANGED <<request, queue, replies, lapsed, up, attached, scanning,
                        current, acted>>
BY DEF NextEvent, TypeOK

\* A handler that ends leaves its call only where it put it.
LEMMA DoneHeld ==
  ASSUME TypeOK, Done, UNCHANGED queue,
         scan_requests' \subseteq Held, select_request'.call \in Held \cup {None}
  PROVE  /\ Held' \subseteq Held
         /\ op' \in Handler /\ runner' = runner /\ wire' = wire
BY ChannelAssumption DEF Done, Held, InLoop, Handler, Callers

\* The part of TypeOK that the daemon and the runtime share.
SharedOK ==
  /\ wire \in Seq(Datagram)
  /\ replies \in Seq(Reply)
  /\ lapsed \in BOOLEAN
  /\ up \in BOOLEAN /\ attached \in BOOLEAN /\ scanning \in BOOLEAN
  /\ current \in Networks \cup {None}
  /\ events \in Seq(DaemonEvent)
  /\ acted \in Nat

\* What wpa_supplicant may answer to a command is a datagram of its type.
LEMMA AnswersType ==
  ASSUME SharedOK, NEW cmd \in Commands, NEW a \in AnswersTo(cmd)
  PROVE  /\ a.text \in Texts /\ a.val \in Nat \cup {None}
         /\ a.text = "list" => a.val \in Nat
<1>1. StatusIds \subseteq Nat \cup {None} /\ 0..MaxListed \subseteq Nat
  <2>1. current \in Nat \cup {None} /\ Networks \subseteq Nat
    BY DaemonAssumption DEF SharedOK
  <2>2. StatusIds \subseteq Nat \cup {None}
    BY <2>1 DEF StatusIds
  <2> QED BY <2>2, DaemonAssumption
<1>2. PICK text \in Texts, val \in Nat \cup {None} :
        a = Text(text, val) /\ (text = "list" => val \in Nat)
  <2>1. {"OK", "FAIL", "FAIL-BUSY", "number", "status", "config", "list", "ssid", "table",
         "garbled"} = Texts
    BY DEF Texts, AnyText
  <2>2. CASE a = Text("garbled", None)
    BY <2>1, <2>2
  <2>3. CASE cmd = "LIST_NETWORKS" /\ \E n \in 0..MaxListed : a = Text("list", n)
    BY <1>1, <2>1, <2>3
  <2>4. CASE cmd = "STATUS" /\ \E n \in StatusIds : a = Text("status", n)
    BY <1>1, <2>1, <2>4
  <2>5. CASE a \in {Text("FAIL-BUSY", None), Text("OK", None), Text("FAIL", None),
                    Text("ssid", None), Text("number", None), Text("table", None)}
    BY <2>1, <2>5
  <2> QED BY <2>2, <2>3, <2>4, <2>5 DEF AnswersTo
<1> QED BY <1>2 DEF Text

\* A step of wpa_supplicant keeps the sockets and its own state well typed.
LEMMA DaemonType ==
  ASSUME SharedOK, Daemon
  PROVE  SharedOK'
<1>0. \A type \in EventTypes, val \in Networks \cup {None} :
        /\ Event(type, val) \in DaemonEvent
        /\ Append(events, Event(type, val)) \in Seq(DaemonEvent)
        /\ Emit(type, val) => events' \in Seq(DaemonEvent)
  <2> TAKE type \in EventTypes, val \in Networks \cup {None}
  <2>1. Event(type, val) \in DaemonEvent
    BY DEF Event, DaemonEvent
  <2>2. Append(events, Event(type, val)) \in Seq(DaemonEvent)
    BY <2>1 DEF SharedOK
  <2> QED BY <2>1, <2>2 DEF Emit, SharedOK
<1>1. wire # <<>> => Tail(wire) \in Seq(Datagram) /\ Head(wire) \in Datagram
  BY DEF SharedOK
<1>2. CASE DaemonAttach
  <2>1. "Unknown" \in EventTypes
    BY DEF EventTypes
  <2> QED BY <1>0, <1>1, <1>2, <2>1 DEF DaemonAttach, SharedOK
<1>3. CASE DaemonAnswers
  <2>1. Head(wire).cmd \in Commands /\ Head(wire).call \in Callers
    BY <1>1, <1>3 DEF DaemonAnswers, Datagram
  <2>2. PICK a \in AnswersTo(Head(wire).cmd) :
          /\ replies' = Append(replies, [cmd |-> Head(wire).cmd, call |-> Head(wire).call,
                                         text |-> a.text, val |-> a.val])
          /\ scanning' = (scanning \/ (Head(wire).cmd = "SCAN" /\ a.text = "OK"))
    BY <1>3 DEF DaemonAnswers
  <2>3. [cmd |-> Head(wire).cmd, call |-> Head(wire).call,
         text |-> a.text, val |-> a.val] \in Reply
    BY <2>1, AnswersType DEF Reply
  <2>4. replies' \in Seq(Reply)
    BY <2>2, <2>3 DEF SharedOK
  <2>5. scanning' \in BOOLEAN
    BY <2>2
  <2> QED BY <1>1, <1>3, <2>4, <2>5 DEF DaemonAnswers, SharedOK
<1>4. CASE DaemonIgnores
  BY <1>1, <1>4 DEF DaemonIgnores, SharedOK, daemonVars
<1>5. CASE ScanFinishes
  <2>1. {"ScanComplete", "ScanFailed"} \subseteq EventTypes
    BY DEF EventTypes
  <2> QED BY <1>0, <1>5, <2>1 DEF ScanFinishes, SharedOK, socketVars
<1>6. CASE DaemonActs
  <2>1. {"Connected", "Disconnected", "NetworkNotFound", "WrongPsk"} \subseteq EventTypes
    BY DEF EventTypes
  <2>2. events' \in Seq(DaemonEvent)
    BY <1>0, <1>6, <2>1 DEF DaemonActs, SharedOK
  <2>4. scanning' \in BOOLEAN /\ current' \in Networks \cup {None}
    BY <1>6 DEF DaemonActs, SharedOK
  <2>3. acted' \in Nat /\ UNCHANGED <<wire, replies, lapsed, up, attached>>
    BY <1>6 DEF DaemonActs, SharedOK, socketVars
  <2> QED BY <2>2, <2>3, <2>4 DEF SharedOK
<1>7. CASE DaemonDies
  <2>1. /\ up' = FALSE /\ attached' = FALSE /\ scanning' = FALSE
        /\ current' = None /\ wire' = Unsent(Len(wire))
        /\ UNCHANGED <<replies, lapsed, events, acted>>
    BY <1>7, Zenon DEF DaemonDies
  <2>2. wire' \in Seq(Datagram)
    BY <2>1, UnsentIs DEF SharedOK
  <2>3. up' \in BOOLEAN /\ attached' \in BOOLEAN /\ scanning' \in BOOLEAN
    BY <2>1
  <2>4. replies' \in Seq(Reply) /\ events' \in Seq(DaemonEvent) /\ acted' \in Nat
    BY <2>1 DEF SharedOK
  <2>5. lapsed' \in BOOLEAN
    BY <2>1, Zenon DEF SharedOK
  <2>6. current' \in Networks \cup {None}
    BY <2>1
  <2> QED BY <2>2, <2>3, <2>4, <2>5, <2>6, Zenon DEF SharedOK
<1> QED BY <1>2, <1>3, <1>4, <1>5, <1>6, <1>7 DEF Daemon

\* The handler that awaits a reply works for a call of its own kind.
LEMMA HandlerOfReply ==
  ASSUME TypeInv, op.cmd \in Commands \ {"SCAN_RESULTS"}
  PROVE  /\ op.call \in Calls /\ op.call \in Held
         /\ op.cmd \in CommandsOf(Kind(op.call))
         /\ Kind(op.call) \in DOMAIN FirstCommand
         /\ Kind(op.call) = "SelectNetwork" => select_request = NoSelect
<1>1. "none" \notin Commands
  BY DEF Commands, Accepted
<1> QED BY <1>1 DEF TypeInv, HandlersFit, Held

\* The rest of a handler that either sends a further command or answers its call
\* keeps the types: SELECT_NETWORK, LIST_NETWORKS and GET_NETWORK.
LEMMA FurtherCommandType ==
  ASSUME TypeInv, NEW r \in Arrivals, HandleReply(r), op.call \in Held \cup {None},
         NEW cmd \in Commands, NEW left \in Nat, NEW res \in Results,
         \/ SendCommand(cmd, op.call, left) /\ UNCHANGED answer
         \/ /\ Respond({op.call}, Ans(res, r.call))
            /\ Done
            /\ UNCHANGED <<scan_requests, select_request>>
  PROVE  (TypeOK /\ Made)'
<1> USE DEF TypeInv
<1>0. op.call \in Callers /\ op \in Handler
  BY DEF TypeOK, Handler
<1>1. CASE SendCommand(cmd, op.call, left) /\ UNCHANGED answer
  <2>1. TypeOK'
    BY <1>0, <1>1, SendCommandType, HandleReplyType DEF TypeOK, daemonVars
  <2>2. Held' \subseteq Held
    BY <1>0, <1>1, SendCommandHeld, HandleReplyType
  <2> QED BY <2>1, <2>2, HandleReplyType, MadeKept
<1>2. CASE /\ Respond({op.call}, Ans(res, r.call))
           /\ Done
           /\ UNCHANGED <<scan_requests, select_request>>
  <2>1. answer' \in [Calls -> Told]
    BY <1>2, HandleReplyType, RespondType
  <2>2. Held' \subseteq Held /\ op' \in Handler /\ runner' = runner /\ wire' = wire
    BY <1>2, DoneHeld, HandleReplyType DEF Held, TypeOK, Select, Callers
  <2>3. TypeOK'
    BY <1>2, <2>1, <2>2, HandleReplyType DEF TypeOK, daemonVars
  <2> QED BY <2>2, <2>3, HandleReplyType, MadeKept
<1> QED BY <1>1, <1>2

\* Every step keeps the types, and that the calls owned were made.
LEMMA TypeStep ==
  ASSUME TypeInv, [Next]_vars
  PROVE  (TypeOK /\ Made)'
<1> USE DEF TypeInv
<1>1. CASE TakeShutdown
  <2>1. queue' \in Seq(Calls) /\ Range(queue') \subseteq Range(queue)
    BY <1>1, RangeTail DEF TakeShutdown, TypeOK
  <2>2. TypeOK'
    BY <1>1, <2>1, ReturnType
    DEF TakeShutdown, TypeOK, socketVars, daemonVars, SocketResults
  <2> QED BY <1>1, <2>1, <2>2, ReturnHeld, MadeKept DEF TakeShutdown
<1>2. CASE RejectSelect
  <2>1. queue' \in Seq(Calls) /\ Range(queue') \subseteq Range(queue)
    BY <1>2, RangeTail DEF RejectSelect, TypeOK
  <2>2. answer' \in [Calls -> Told]
    BY <1>2, RespondType DEF RejectSelect, Results, Callers
  <2>3. TypeOK'
    BY <1>2, <2>1, <2>2
    DEF RejectSelect, TypeOK, socketVars, daemonVars, stationVars
  <2> QED BY <1>2, <2>1, <2>3, MadeKept DEF RejectSelect, Held, stationVars
<1>3. CASE TakeRequest
  <2>1. queue' \in Seq(Calls) /\ Range(queue') \subseteq Range(queue)
        /\ Head(queue) \in Held /\ Head(queue) \in Callers
    BY <1>3, RangeTail DEF TakeRequest, TypeOK, Held, Callers
  <2>2. TypeOK'
    BY <1>3, <2>1, FirstCommandType, SendCommandType
    DEF TakeRequest, TypeOK, daemonVars
  <2> QED BY <1>3, <2>1, <2>2, SendCommandHeld, MadeKept DEF TakeRequest
<1>4. CASE SelectTimeout
  <2>1. answer' \in [Calls -> Told]
    BY <1>4, RespondType DEF SelectTimeout, Results, Callers
  <2>2. TypeOK'
    BY <1>4, <2>1
    DEF SelectTimeout, TypeOK, socketVars, daemonVars, NoSelect, Select, Callers
  <2> QED BY <1>4, <2>2, MadeKept, ChannelAssumption DEF SelectTimeout, Held, NoSelect
<1>5. CASE OnScanComplete
  <2>1. Event("ScanComplete", None) \in DaemonEvent /\ events' \in Seq(DaemonEvent)
        /\ UNCHANGED <<request, queue, replies, lapsed, up, attached, scanning,
                       current, acted>>
    BY <1>5, NextEventType DEF OnScanComplete
  <2>2. "SCAN_RESULTS" \in Commands /\ None \in Callers /\ 0 \in Nat
    BY DEF Commands, Accepted, Callers
  <2>3. TypeOK'
    BY <1>5, <2>1, <2>2, SendCommandType DEF OnScanComplete, TypeOK
  <2> QED BY <1>5, <2>1, <2>2, <2>3, SendCommandHeld, MadeKept DEF OnScanComplete
<1>6. CASE OnScanFailed
  <2>1. events' \in Seq(DaemonEvent)
        /\ UNCHANGED <<request, queue, replies, lapsed, up, attached, scanning,
                       current, acted>>
    BY <1>6, NextEventType DEF OnScanFailed
  <2>2. answer' \in [Calls -> Told]
    BY <1>6, RespondType DEF OnScanFailed, Results, Callers
  <2>3. TypeOK'
    BY <1>6, <2>1, <2>2 DEF OnScanFailed, TypeOK
  <2> QED BY <1>6, <2>1, <2>3, MadeKept DEF OnScanFailed, Held
<1>7. CASE OnSelectEvent
  <2>1. PICK e : /\ e.type \in DOMAIN SelectOutcome
                 /\ NextEvent(e)
                 /\ Respond({select_request.call}, Ans(SelectOutcome[e.type], e.val))
                 /\ link' = IF e.type = "Connected" THEN "Connected" ELSE link
    BY <1>7 DEF OnSelectEvent
  <2>2. e \in DaemonEvent /\ events' \in Seq(DaemonEvent)
        /\ UNCHANGED <<request, queue, replies, lapsed, up, attached, scanning,
                       current, acted>>
    BY <2>1, NextEventType
  <2>3. SelectOutcome[e.type] \in Results /\ e.val \in Callers \cup Networks
    BY <2>1, <2>2 DEF SelectOutcome, Results, DaemonEvent, Callers
  <2>4. answer' \in [Calls -> Told]
    BY <2>1, <2>3, RespondType
  <2>5. NoSelect \in Select
    BY DEF NoSelect, Select, Callers
  <2>6. TypeOK'
    BY <1>7, <2>1, <2>2, <2>4, <2>5 DEF OnSelectEvent, TypeOK
  <2> QED BY <1>7, <2>2, <2>6, MadeKept, ChannelAssumption DEF OnSelectEvent, Held, NoSelect
<1>8. CASE OnOtherEvent
  <2>1. PICK e : /\ NextEvent(e)
                 /\ link' = IF e.type = "Disconnected" THEN "Disconnected" ELSE link
    BY <1>8 DEF OnOtherEvent
  <2>2. events' \in Seq(DaemonEvent)
        /\ UNCHANGED <<request, queue, replies, lapsed, up, attached, scanning,
                       current, acted>>
    BY <2>1, NextEventType
  <2>3. TypeOK'
    BY <1>8, <2>1, <2>2 DEF OnOtherEvent, TypeOK
  <2> QED BY <1>8, <2>2, <2>3, MadeKept DEF OnOtherEvent, Held
<1>9. CASE SimpleReply
  <2>1. PICK r \in Arrivals :
          /\ HandleReply(r)
          /\ Respond({op.call}, Ans(Parse(op.cmd, r), r.call))
    BY <1>9 DEF SimpleReply
  <2>2. answer' \in [Calls -> Told]
    BY <2>1, HandleReplyType, ParseType, RespondType
  <2>3. Held' \subseteq Held /\ op' \in Handler /\ runner' = runner /\ wire' = wire
    BY <1>9, <2>1, DoneHeld, HandleReplyType DEF SimpleReply, Held, TypeOK, Select, Callers
  <2>4. TypeOK'
    BY <1>9, <2>1, <2>2, <2>3, HandleReplyType DEF SimpleReply, TypeOK, daemonVars
  <2> QED BY <2>1, <2>3, <2>4, HandleReplyType, MadeKept
<1>10. CASE ScanReply
  <2>1. PICK r \in Arrivals :
          /\ HandleReply(r)
          /\ \/ scan_requests' = scan_requests \cup {op.call} /\ UNCHANGED answer
             \/ /\ Respond({op.call}, Ans(Parse("SCAN", r), r.call))
                /\ UNCHANGED scan_requests
    BY <1>10 DEF ScanReply
  <2>2. answer' \in [Calls -> Told]
    BY <2>1, HandleReplyType, ParseType, RespondType DEF TypeOK
  <2>3. op.call \in Calls /\ op.call \in Held
    BY <1>10, HandlerOfReply DEF ScanReply, AwaitingFor, Commands, Accepted
  <2>4. scan_requests' \subseteq Calls /\ scan_requests' \subseteq Held
    BY <2>1, <2>3 DEF TypeOK, Held
  <2>5. Held' \subseteq Held /\ op' \in Handler /\ runner' = runner /\ wire' = wire
    BY <1>10, <2>1, <2>4, DoneHeld, HandleReplyType
    DEF ScanReply, Held, TypeOK, Select, Callers
  <2>6. TypeOK'
    BY <1>10, <2>1, <2>2, <2>4, <2>5, HandleReplyType DEF ScanReply, TypeOK, daemonVars
  <2> QED BY <2>1, <2>5, <2>6, HandleReplyType, MadeKept
<1>11. CASE ScanResultsReply
  <2>1. PICK r \in Arrivals :
          /\ HandleReply(r)
          /\ Respond(scan_requests, Ans(Parse("SCAN_RESULTS", r), r.call))
    BY <1>11 DEF ScanResultsReply
  <2>2. answer' \in [Calls -> Told]
    BY <2>1, HandleReplyType, ParseType, RespondType
  <2>3. Held' \subseteq Held /\ op' \in Handler /\ runner' = runner /\ wire' = wire
    BY <1>11, <2>1, DoneHeld, HandleReplyType
    DEF ScanResultsReply, Held, TypeOK, Select, Callers
  <2>4. TypeOK'
    BY <1>11, <2>1, <2>2, <2>3, HandleReplyType DEF ScanResultsReply, TypeOK, daemonVars
  <2> QED BY <2>1, <2>3, <2>4, HandleReplyType, MadeKept
<1>12. CASE SelectReply
  <2>1. PICK r \in Arrivals :
          /\ HandleReply(r)
          /\ \/ SendCommand("STATUS", op.call, 0) /\ UNCHANGED answer
             \/ /\ Respond({op.call}, Ans(Parse("SELECT_NETWORK", r), r.call))
                /\ Done
                /\ UNCHANGED <<scan_requests, select_request>>
    BY <1>12 DEF SelectReply
  <2>2. op.call \in Held /\ "STATUS" \in Commands
    BY <1>12, HandlerOfReply DEF SelectReply, AwaitingFor, Commands, Accepted
  <2> QED BY <2>1, <2>2, ParseType, FurtherCommandType
<1>13. CASE SelectStatusReply
  <2>1. PICK r \in Arrivals :
          /\ HandleReply(r)
          /\ \/ /\ \E res \in Results : Respond({op.call}, Ans(res, r.call))
                /\ UNCHANGED select_request
             \/ /\ select_request' = [call |-> op.call, expired |-> FALSE]
                /\ UNCHANGED answer
    <3>1. "AlreadyConnected" \in Results
      BY DEF Results
    <3> QED BY <1>13, <3>1, ParseType DEF SelectStatusReply
  <2>2. op.call \in Calls /\ op.call \in Held /\ op.call \in Callers
    BY <1>13, HandlerOfReply DEF SelectStatusReply, AwaitingFor, Commands, Accepted, Callers
  <2>3. answer' \in [Calls -> Told]
    BY <2>1, HandleReplyType, RespondType DEF TypeOK
  <2>4. select_request' \in Select /\ select_request'.call \in Held \cup {None}
    <3>1. CASE UNCHANGED select_request
      BY <3>1 DEF TypeOK, Select, Held, Callers
    <3>2. CASE select_request' = [call |-> op.call, expired |-> FALSE]
      BY <3>2, <2>2 DEF Select
    <3> QED BY <2>1, <3>1, <3>2
  <2>5. Held' \subseteq Held /\ op' \in Handler /\ runner' = runner /\ wire' = wire
    BY <1>13, <2>1, <2>4, DoneHeld, HandleReplyType DEF SelectStatusReply, Held, TypeOK
  <2>6. TypeOK'
    BY <1>13, <2>1, <2>3, <2>4, <2>5, HandleReplyType
    DEF SelectStatusReply, TypeOK, daemonVars
  <2> QED BY <2>1, <2>5, <2>6, HandleReplyType, MadeKept
<1>14. CASE ListReply
  <2> DEFINE Listed(r) == IF r.text = "list" THEN r.val ELSE 0
             Finish(r) == /\ Respond({op.call}, Ans(Parse("LIST_NETWORKS", r), r.call))
                          /\ Done
                          /\ UNCHANGED <<scan_requests, select_request>>
  <2>1. PICK r \in Arrivals :
          /\ HandleReply(r)
          /\ \/ /\ Listed(r) > 0
                /\ SendCommand("GET_NETWORK", op.call, Listed(r) - 1)
                /\ UNCHANGED answer
             \/ Finish(r)
    BY <1>14 DEF ListReply
  <2>2. op.call \in Held /\ "GET_NETWORK" \in Commands
    BY <1>14, HandlerOfReply DEF ListReply, AwaitingFor, Commands, Accepted
  <2>3. Listed(r) \in Nat
    BY ArrivalType
  <2> HIDE DEF Listed
  <2>4. CASE Finish(r)
    BY <2>1, <2>2, <2>4, 0 \in Nat, ParseType, FurtherCommandType
  <2>5. CASE /\ Listed(r) > 0
             /\ SendCommand("GET_NETWORK", op.call, Listed(r) - 1)
             /\ UNCHANGED answer
    <3>1. Listed(r) - 1 \in Nat
      BY <2>3, <2>5
    <3> QED BY <2>1, <2>2, <2>5, <3>1, ParseType, FurtherCommandType
  <2> QED BY <2>1, <2>4, <2>5
<1>15. CASE GetNetworkReply
  <2>1. PICK r \in Arrivals :
          /\ HandleReply(r)
          /\ \/ op.left > 0 /\ SendCommand("GET_NETWORK", op.call, op.left - 1)
                /\ UNCHANGED answer
             \/ /\ Respond({op.call}, Ans(Parse("GET_NETWORK", r), r.call))
                /\ Done
                /\ UNCHANGED <<scan_requests, select_request>>
    BY <1>15 DEF GetNetworkReply
  <2>2. op.call \in Held /\ "GET_NETWORK" \in Commands
    BY <1>15, HandlerOfReply DEF GetNetworkReply, AwaitingFor, Commands, Accepted
  <2>3. op.left > 0 => op.left - 1 \in Nat
    BY DEF TypeOK, Handler
  <2> QED BY <2>1, <2>2, <2>3, ParseType, FurtherCommandType
<1>16. CASE TimerExpires
  <2>1. select_request' \in Select /\ select_request'.call = select_request.call
    BY <1>16 DEF TimerExpires, TypeOK, Select
  <2>2. TypeOK'
    BY <1>16, <2>1 DEF TimerExpires, TypeOK, channelVars, socketVars, daemonVars
  <2> QED BY <1>16, <2>1, <2>2, MadeKept DEF TimerExpires, Held, channelVars
<1>17. CASE SocketError
  <2>1. TypeOK'
    BY <1>17, ReturnType DEF SocketError, TypeOK, socketVars, daemonVars, SocketResults
  <2> QED BY <1>17, <2>1, ReturnHeld, MadeKept DEF SocketError
<1>18. CASE MakeCall
  <2>1. PICK c \in Calls, q \in Requests : Send(c, q) \/ SendFails(c, q)
    BY <1>18 DEF MakeCall
  <2>2. /\ request' = [request EXCEPT ![c] = q]
        /\ answer' \in [Calls -> Told]
        /\ queue' \in Seq(Calls) /\ Range(queue') \subseteq Range(queue) \cup {c}
        /\ UNCHANGED runner
    <3>1. Ans("Ok", None) \in Told /\ Ans("NotRunning", None) \in Told
      BY DEF Ans, Told, Results, Callers
    <3>2. CASE Send(c, q)
      BY <3>1, <3>2, RangeAppend DEF Send, TypeOK
    <3>3. CASE SendFails(c, q)
      BY <3>1, <3>3 DEF SendFails, TypeOK
    <3> QED BY <2>1, <3>2, <3>3
  <2>3. TypeOK'
    BY <1>18, <2>2 DEF MakeCall, TypeOK, socketVars, daemonVars, stationVars
  <2>4. q # NoRequest
    BY ChannelAssumption DEF NoRequest
  <2>5. Made'
    BY <1>18, <2>2, <2>4 DEF MakeCall, Made, Held, TypeOK, stationVars
  <2> QED BY <2>3, <2>5
<1>19. CASE CallFails \/ GiveUp
  <2>1. PICK c \in Calls, res \in {"NotRunning", "Abandoned"} :
          /\ answer' = [answer EXCEPT ![c] = Ans(res, None)]
          /\ UNCHANGED <<request, queue, runner>>
    BY <1>19 DEF CallFails, GiveUp, RecvFails, Abandon
  <2>2. Ans(res, None) \in Told
    BY DEF Ans, Told, Results, Callers
  <2>3. UNCHANGED <<socketVars, daemonVars, stationVars>>
    BY <1>19 DEF CallFails, GiveUp
  <2>4. TypeOK'
    BY <2>1, <2>2, <2>3 DEF TypeOK, socketVars, daemonVars, stationVars
  <2> QED BY <2>1, <2>3, <2>4, MadeKept DEF Held, stationVars
<1>20. CASE OwnerDrops
  <2>1. queue' \in Seq(Calls) /\ Range(queue') \subseteq Range(queue)
    BY <1>20 DEF OwnerDrops, DropRuntime, Range
  <2>2. TypeOK'
    BY <1>20, <2>1
    DEF OwnerDrops, DropRuntime, TypeOK, socketVars, daemonVars, stationVars
  <2> QED BY <1>20, <2>1, <2>2, MadeKept DEF OwnerDrops, DropRuntime, Held, stationVars
<1>21. CASE DaemonStep
  <2>1. UNCHANGED <<channelVars, stationVars>> /\ UNCHANGED <<request, queue>>
    BY <1>21 DEF DaemonStep, Undisturbed, channelVars
  <2>2. SharedOK
    BY DEF TypeOK, SharedOK
  <2>3. SharedOK'
    BY <1>21, <2>2, DaemonType DEF DaemonStep
  <2>4. TypeOK'
    BY <2>1, <2>3 DEF SharedOK, TypeOK, channelVars, stationVars
  <2> QED BY <2>1, <2>4, MadeKept DEF Held, stationVars
<1>22. CASE UNCHANGED vars
  <2>1. TypeOK'
    BY <1>22 DEF vars, TypeOK, channelVars, socketVars, daemonVars, stationVars
  <2> QED BY <1>22, <2>1, MadeKept DEF vars, Held, channelVars, stationVars
<1> QED
  BY <1>1, <1>2, <1>3, <1>4, <1>5, <1>6, <1>7, <1>8, <1>9, <1>10, <1>11, <1>12,
     <1>13, <1>14, <1>15, <1>16, <1>17, <1>18, <1>19, <1>20, <1>21, <1>22
  DEF Next, Runner

\* A step that starts no handler and at most settles what is pending keeps
\* handlers at work on requests of their kind.
LEMMA FitKept ==
  ASSUME TypeInv, UNCHANGED request, op' \in {op, InLoop},
         scan_requests' \subseteq scan_requests,
         \/ select_request' \in {select_request, NoSelect}
         \/ /\ select_request # NoSelect
            /\ select_request'.call = select_request.call
            /\ select_request'.call # None
  PROVE  HandlersFit'
<1>1. InLoop.cmd = "none" /\ NoSelect.call = None
  BY DEF InLoop, NoSelect
<1> QED BY <1>1 DEF TypeInv, HandlersFit, Kind

\* A handler that sends a command its request calls for is at work on its kind.
LEMMA FitSend ==
  ASSUME TypeInv, UNCHANGED request, NEW cmd, NEW c, NEW left,
         SendCommand(cmd, c, left),
         \/ cmd = "SCAN_RESULTS" /\ c = None
         \/ /\ cmd \notin {"none", "SCAN_RESULTS"} /\ c \in Calls
            /\ cmd \in CommandsOf(Kind(c))
            /\ Kind(c) \in DOMAIN FirstCommand
            /\ Kind(c) = "SelectNetwork" => select_request = NoSelect
  PROVE  HandlersFit'
<1>1. CASE up
  <2>1. op' = [cmd |-> cmd, call |-> c, left |-> left]
        /\ UNCHANGED <<scan_requests, select_request>>
    BY <1>1 DEF SendCommand
  <2>2. op'.cmd = cmd /\ op'.call = c
    BY <2>1
  <2>3. Kind(c)' = Kind(c) /\ \A d : Kind(d)' = Kind(d)
    BY DEF Kind
  <2> HIDE DEF Kind, CommandsOf
  <2> QED BY <2>1, <2>2, <2>3 DEF TypeInv, HandlersFit
<1>2. CASE ~up
  BY <1>2, FitKept DEF SendCommand, Return
<1> QED BY <1>1, <1>2

\* The command a handler awaits tells the kind of request it works for.
LEMMA CommandTells ==
  ASSUME NEW k \in DOMAIN FirstCommand
  PROVE  /\ "SCAN" \in CommandsOf(k) => k = "Scan"
         /\ "LIST_NETWORKS" \in CommandsOf(k) => k = "Networks"
         /\ "GET_NETWORK" \in CommandsOf(k) => k = "Networks"
         /\ "SELECT_NETWORK" \in CommandsOf(k) => k = "SelectNetwork"
         /\ FirstCommand[k] \in CommandsOf(k)
         /\ FirstCommand[k] \notin {"none", "SCAN_RESULTS"}
BY DEF FirstCommand, CommandsOf

\* Every step keeps handlers at work on requests of their own kind.
LEMMA FitStep ==
  ASSUME TypeInv, [Next]_vars
  PROVE  HandlersFit'
<1>1. CASE TakeShutdown \/ SocketError
  BY <1>1, FitKept DEF TakeShutdown, SocketError, Return
<1>2. CASE RejectSelect
  BY <1>2, FitKept DEF RejectSelect, stationVars
<1>3. CASE TakeRequest
  <2>1. /\ Head(queue) \in Calls /\ Kind(Head(queue)) \in DOMAIN FirstCommand
        /\ Kind(Head(queue)) = "SelectNetwork" => select_request = NoSelect
        /\ SendCommand(FirstCommand[Kind(Head(queue))], Head(queue), 0)
        /\ UNCHANGED request
    BY <1>3, FirstCommandType DEF TakeRequest
  <2> QED BY <2>1, CommandTells, FitSend
<1>4. CASE SelectTimeout
  BY <1>4, FitKept DEF SelectTimeout
<1>5. CASE OnScanComplete
  BY <1>5, FitSend DEF OnScanComplete, NextEvent
<1>6. CASE OnScanFailed \/ OnOtherEvent
  BY <1>6, FitKept DEF OnScanFailed, OnOtherEvent, NextEvent
<1>7. CASE OnSelectEvent
  BY <1>7, FitKept DEF OnSelectEvent, NextEvent
<1>8. CASE SimpleReply
  BY <1>8, FitKept DEF SimpleReply, HandleReply, Done
<1>9. CASE ScanReply
  <2>1. op.call \in Calls /\ Kind(op.call) = "Scan"
    BY <1>9, HandlerOfReply, CommandTells DEF ScanReply, AwaitingFor, Commands, Accepted
  <2>2. /\ op' = InLoop /\ UNCHANGED <<request, select_request>>
        /\ scan_requests' \subseteq scan_requests \cup {op.call}
    BY <1>9 DEF ScanReply, HandleReply, Done
  <2>3. InLoop.cmd = "none"
    BY DEF InLoop
  <2> QED BY <2>1, <2>2, <2>3 DEF TypeInv, HandlersFit, Kind
<1>10. CASE ScanResultsReply
  BY <1>10, FitKept DEF ScanResultsReply, HandleReply, Done
<1>11. CASE SelectReply
  <2>1. /\ op.call \in Calls /\ Kind(op.call) = "SelectNetwork"
        /\ select_request = NoSelect
    BY <1>11, HandlerOfReply, CommandTells
    DEF SelectReply, AwaitingFor, Commands, Accepted
  <2>2. "STATUS" \in CommandsOf(Kind(op.call)) /\ Kind(op.call) \in DOMAIN FirstCommand
    BY <2>1 DEF CommandsOf, FirstCommand
  <2>3. CASE SendCommand("STATUS", op.call, 0)
    BY <1>11, <2>1, <2>2, <2>3, FitSend DEF SelectReply, HandleReply
  <2>4. CASE Done /\ UNCHANGED <<scan_requests, select_request>>
    BY <1>11, <2>4, FitKept DEF SelectReply, HandleReply, Done
  <2> QED BY <1>11, <2>3, <2>4 DEF SelectReply
<1>12. CASE SelectStatusReply
  <2>1. op.call \in Calls /\ op.call # None /\ Kind(op.call) = "SelectNetwork"
    BY <1>12, HandlerOfReply, ChannelAssumption
    DEF SelectStatusReply, AwaitingFor, Commands, Accepted
  <2>2. /\ op' = InLoop /\ UNCHANGED <<request, scan_requests>>
        /\ \/ UNCHANGED select_request
           \/ select_request' = [call |-> op.call, expired |-> FALSE]
    BY <1>12 DEF SelectStatusReply, HandleReply, Done
  <2>3. InLoop.cmd = "none"
    BY DEF InLoop
  <2>4. CASE UNCHANGED select_request
    BY <2>2, <2>4, FitKept
  <2>5. CASE select_request' = [call |-> op.call, expired |-> FALSE]
    BY <2>1, <2>2, <2>3, <2>5 DEF TypeInv, HandlersFit, Kind
  <2> QED BY <2>2, <2>4, <2>5
<1>13. CASE ListReply \/ GetNetworkReply
  <2>1. /\ op.call \in Calls /\ Kind(op.call) = "Networks" /\ UNCHANGED request
        /\ \/ \E left : SendCommand("GET_NETWORK", op.call, left)
           \/ Done /\ UNCHANGED <<scan_requests, select_request>>
    <3>1. CASE ListReply
      BY <3>1, HandlerOfReply, CommandTells
      DEF ListReply, AwaitingFor, Commands, Accepted, HandleReply
    <3>2. CASE GetNetworkReply
      BY <3>2, HandlerOfReply, CommandTells
      DEF GetNetworkReply, AwaitingFor, Commands, Accepted, HandleReply
    <3> QED BY <1>13, <3>1, <3>2
  <2>2. "GET_NETWORK" \in CommandsOf(Kind(op.call)) /\ Kind(op.call) \in DOMAIN FirstCommand
    BY <2>1 DEF CommandsOf, FirstCommand
  <2>3. CASE \E left : SendCommand("GET_NETWORK", op.call, left)
    BY <2>1, <2>2, <2>3, FitSend
  <2>4. CASE Done /\ UNCHANGED <<scan_requests, select_request>>
    BY <2>1, <2>4, FitKept DEF Done
  <2> QED BY <2>1, <2>3, <2>4
<1>14. CASE TimerExpires
  <2>1. /\ select_request # NoSelect /\ UNCHANGED <<request, op, scan_requests>>
        /\ select_request'.call = select_request.call
    BY <1>14 DEF TimerExpires, channelVars, TypeInv, TypeOK, Select
  <2>2. select_request.call # None
    BY <2>1 DEF TypeInv, HandlersFit
  <2> QED BY <2>1, <2>2, FitKept
<1>15. CASE MakeCall
  <2>1. PICK c \in Calls, q \in Requests :
          request[c] = NoRequest /\ request' = [request EXCEPT ![c] = q]
    BY <1>15 DEF MakeCall, Send, SendFails
  <2>2. \A d \in Calls : d \in Held => Kind(d)' = Kind(d)
    BY <2>1 DEF TypeInv, TypeOK, Made, Kind
  <2>3. UNCHANGED <<op, scan_requests, select_request>>
    BY <1>15 DEF MakeCall, stationVars
  <2>4. op.call \in Calls => op.call \in Held
    BY DEF Held
  <2>5. \A d \in scan_requests : d \in Calls /\ d \in Held
    BY DEF Held, TypeInv, TypeOK
  <2>6. select_request.call # None => select_request.call \in Calls /\ select_request.call \in Held
    BY DEF Held, TypeInv, TypeOK, Select, Callers
  <2> HIDE DEF Kind, Held, CommandsOf
  <2> QED BY <2>2, <2>3, <2>4, <2>5, <2>6 DEF TypeInv, HandlersFit
<1>16. CASE CallFails \/ GiveUp \/ OwnerDrops
  BY <1>16, FitKept
  DEF CallFails, GiveUp, OwnerDrops, RecvFails, Abandon, DropRuntime, stationVars
<1>17. CASE DaemonStep \/ UNCHANGED vars
  BY <1>17, FitKept DEF DaemonStep, Undisturbed, vars, channelVars, stationVars
<1> QED
  BY <1>1, <1>2, <1>3, <1>4, <1>5, <1>6, <1>7, <1>8, <1>9, <1>10, <1>11, <1>12,
     <1>13, <1>14, <1>15, <1>16, <1>17
  DEF Next, Runner

\* When the loop starts the runtime holds no call and every variable has its type.
LEMMA TypeInit == Init => TypeInv
<1> SUFFICES ASSUME Init PROVE TypeInv
  OBVIOUS
<1> USE DEF Init, ChannelInit, SocketInit, DaemonInit
<1>1. NoAnswer \in Told
  BY DEF NoAnswer, Ans, Told, Results, Callers
<1>2. InLoop \in Handler /\ InLoop.cmd = "none" /\ InLoop.call = None
  BY DEF InLoop, Handler, Callers
<1>3. NoSelect \in Select /\ NoSelect.call = None
  BY DEF NoSelect, Select, Callers
<1>4. wire \in Seq(Datagram)
  <2>1. [cmd |-> "ATTACH", call |-> None] \in Datagram
    BY DEF Datagram, Callers
  <2> QED BY <2>1
<1>5. lapsed \in BOOLEAN /\ up \in BOOLEAN /\ attached \in BOOLEAN /\ scanning \in BOOLEAN
  OBVIOUS
<1>6. TypeOK
  BY <1>1, <1>2, <1>3, <1>4, <1>5 DEF TypeOK
<1>7. Range(queue) = {}
  BY DEF Range
<1>8. Made
  BY <1>2, <1>3, <1>7, ChannelAssumption DEF Made, Held
<1>9. HandlersFit
  BY <1>2, <1>3 DEF HandlersFit
<1> QED BY <1>6, <1>8, <1>9 DEF TypeInv

\* In every reachable state the variables have their types, the calls owned were
\* made and each handler of handle_request works for a request of its kind.
THEOREM TypeInvHolds == Spec => []TypeInv
<1>1. TypeInv /\ [Next]_vars => TypeInv'
  BY TypeStep, FitStep DEF TypeInv
<1> QED BY <1>1, TypeInit, PTL DEF Spec

\* Every variable of the station, its sockets and its daemon stays within the
\* values the code gives it, for any number of calls, networks and events.
THEOREM TypeCorrect == Spec => []TypeOK
<1>1. TypeInv => TypeOK
  BY DEF TypeInv
<1> QED BY <1>1, TypeInvHolds, PTL

-----------------------------------------------------------------------------
(* Requests and replies stay in step. *)

\* The wire holds no command of a handler.
NoCommandIn(w) == \A i \in DOMAIN w : ~IsCommand(w[i])

\* Between two handlers no reply is in the socket and no command on its way.
LEMMA IdleQuiet ==
  ASSUME TypeInv, RepliesInStep, runner = "running", ~lapsed, op = InLoop
  PROVE  replies = <<>> /\ NoCommandIn(wire)
<1>1. "none" \notin Commands \cup {"ATTACH"} /\ op.cmd = "none"
  BY DEF Commands, Accepted, InLoop
<1>2. \A i \in DOMAIN replies : replies[i].cmd \in Commands
  BY DEF TypeInv, TypeOK, Reply
<1>3. \A i \in DOMAIN wire : wire[i].cmd \in Commands \cup {"ATTACH"}
  <2>1. wire \in Seq(Datagram)
    BY DEF TypeInv, TypeOK
  <2>2. \A i \in DOMAIN wire : wire[i] \in Datagram
    BY <2>1
  <2> QED BY <2>2 DEF Datagram
<1>4. DOMAIN replies = {}
  BY <1>1, <1>2 DEF RepliesInStep
<1>5. replies = <<>>
  BY <1>4 DEF TypeInv, TypeOK
<1> QED BY <1>1, <1>3, <1>5 DEF RepliesInStep, NoCommandIn

\* A handler that got its reply in time got that of its own command, the last one.
LEMMA AfterReply ==
  ASSUME TypeInv, RepliesInStep, runner = "running", NEW r, Await(r), ~lapsed'
  PROVE  r.call = op.call /\ replies' = <<>> /\ NoCommandIn(wire)
<1>1. /\ replies # <<>> /\ r = Head(replies)
      /\ replies' = Tail(replies) /\ UNCHANGED lapsed
  BY DEF Await
<1>2. replies \in Seq(Reply) /\ ~lapsed
  BY <1>1 DEF TypeInv, TypeOK
<1>3. 1 \in DOMAIN replies /\ r = replies[1]
  BY <1>1, <1>2
<1>4. \A i \in DOMAIN replies : replies[i].call = op.call /\ i = 1
  BY <1>2 DEF RepliesInStep
<1>5. Len(replies) = 1
  <2>1. Len(replies) \in DOMAIN replies
    BY <1>1, <1>2
  <2> QED BY <1>4, <2>1
<1>6. replies' = <<>>
  BY <1>1, <1>2, <1>5
<1>7. NoCommandIn(wire)
  BY <1>1, <1>2 DEF RepliesInStep, NoCommandIn
<1> QED BY <1>3, <1>4, <1>6, <1>7

\* With nothing under way requests and replies are in step.
LEMMA QuietInStep ==
  ASSUME replies' = <<>>, NoCommandIn(wire')
  PROVE  RepliesInStep'
BY DEF RepliesInStep, NoCommandIn, IsCommand

\* A command sent when nothing is under way is the only one.
LEMMA SendInStep ==
  ASSUME TypeInv, NEW cmd \in Commands, NEW c \in Callers, NEW left,
         SendCommand(cmd, c, left), replies' = <<>>, NoCommandIn(wire)
  PROVE  RepliesInStep'
<1>1. CASE up
  <2> DEFINE w == [cmd |-> cmd, call |-> c]
  <2>1. wire' = Append(wire, w) /\ op'.cmd = cmd /\ op'.call = c
    BY <1>1 DEF SendCommand
  <2>2. w \in Datagram /\ wire \in Seq(Datagram) /\ w.cmd = cmd /\ w.call = c
    BY DEF Datagram, TypeInv, TypeOK
  <2> HIDE DEF w
  <2>3. /\ DOMAIN wire' = 1..(Len(wire) + 1) /\ DOMAIN wire = 1..Len(wire)
        /\ Len(wire) \in Nat
        /\ \A i \in DOMAIN wire : wire'[i] = wire[i]
        /\ wire'[Len(wire) + 1] = w
    BY <2>1, <2>2
  <2>4. \A i \in DOMAIN wire' : IsCommand(wire'[i]) => i = Len(wire) + 1
    BY <2>3 DEF NoCommandIn, IsCommand
  <2> QED BY <2>1, <2>2, <2>3, <2>4 DEF RepliesInStep
<1>2. CASE ~up
  <2>1. runner' = "Io"
    BY <1>2 DEF SendCommand, Return
  <2> QED BY <2>1 DEF RepliesInStep
<1> QED BY <1>1, <1>2

\* A step that leaves the control socket alone keeps it in step.
LEMMA UntouchedInStep ==
  ASSUME RepliesInStep, UNCHANGED <<replies, lapsed, wire, op>>,
         runner' = "running" => runner = "running"
  PROVE  RepliesInStep'
BY DEF RepliesInStep, IsCommand

\* The rest of a handler leaves the control socket in step, whether it ends there
\* or sends a further command.
LEMMA ReplyInStep ==
  ASSUME TypeInv, RepliesInStep, runner = "running", NEW r, HandleReply(r),
         Done \/ \E cmd \in Commands : \E left : SendCommand(cmd, op.call, left)
  PROVE  RepliesInStep'
<1>1. CASE lapsed'
  BY <1>1 DEF RepliesInStep
<1>2. CASE ~lapsed'
  <2>1. replies' = <<>> /\ NoCommandIn(wire)
    BY <1>2, AfterReply DEF HandleReply
  <2>2. CASE Done
    BY <2>1, <2>2, QuietInStep DEF Done
  <2>3. CASE \E cmd \in Commands : \E left : SendCommand(cmd, op.call, left)
    <3>1. op.call \in Callers
      BY DEF TypeInv, TypeOK, Handler
    <3> QED BY <2>1, <2>3, <3>1, SendInStep
  <2> QED BY <2>2, <2>3
<1> QED BY <1>1, <1>2

\* Whatever wpa_supplicant reads, answers, drops or loses, the replies stay in step.
LEMMA DaemonInStep ==
  ASSUME TypeInv, RepliesInStep, DaemonStep
  PROVE  RepliesInStep'
<1>1. runner = "running" /\ UNCHANGED <<op, runner>>
  BY DEF DaemonStep, Undisturbed, channelVars, stationVars
<1>2. wire \in Seq(Datagram) /\ replies \in Seq(Reply)
  BY DEF TypeInv, TypeOK
<1>3. wire # <<>> => /\ 1 \in DOMAIN wire /\ Head(wire) = wire[1]
                     /\ \A i \in DOMAIN Tail(wire) :
                          i \in Nat /\ i + 1 \in DOMAIN wire /\ i + 1 # 1
                          /\ Tail(wire)[i] = wire[i + 1]
  BY <1>2
<1>4. CASE DaemonAttach \/ DaemonIgnores
  <2>1. wire # <<>> /\ wire' = Tail(wire) /\ UNCHANGED <<replies, lapsed>>
    BY <1>4 DEF DaemonAttach, DaemonIgnores
  <2>2. \A i, j \in DOMAIN wire' : i + 1 = j + 1 => i = j
    BY <1>3, <2>1
  <2> QED BY <1>1, <1>3, <2>1, <2>2 DEF RepliesInStep, IsCommand
<1>5. CASE DaemonAnswers
  <2>1. PICK a : /\ wire # <<>> /\ IsCommand(Head(wire))
                 /\ wire' = Tail(wire) /\ UNCHANGED lapsed
                 /\ replies' = Append(replies, [cmd |-> Head(wire).cmd,
                                                call |-> Head(wire).call,
                                                text |-> a.text, val |-> a.val])
    BY <1>5 DEF DaemonAnswers, IsCommand
  <2>2. SUFFICES ASSUME ~lapsed PROVE RepliesInStep'
    BY <2>1 DEF RepliesInStep
  <2>3. /\ replies = <<>> /\ Head(wire).cmd = op.cmd /\ Head(wire).call = op.call
        /\ \A j \in DOMAIN wire : IsCommand(wire[j]) => j = 1
    BY <1>1, <1>3, <2>1, <2>2 DEF RepliesInStep
  <2>4. NoCommandIn(wire')
    BY <1>3, <2>1, <2>3 DEF NoCommandIn, IsCommand
  <2>5. /\ DOMAIN replies' = {1}
        /\ replies'[1].cmd = op.cmd /\ replies'[1].call = op.call
    BY <2>1, <2>3
  <2> QED BY <1>1, <2>4, <2>5 DEF RepliesInStep, NoCommandIn, IsCommand
<1>6. CASE ScanFinishes \/ DaemonActs
  BY <1>1, <1>6, UntouchedInStep DEF ScanFinishes, DaemonActs, socketVars
<1>7. CASE DaemonDies
  <2>1. wire' = Unsent(Len(wire)) /\ UNCHANGED <<replies, lapsed>>
    BY <1>7 DEF DaemonDies
  <2>2. \A i \in DOMAIN wire' :
          i = 1 /\ Len(wire) \in DOMAIN wire /\ wire'[i] = wire[Len(wire)]
    BY <2>1, UnsentIs DEF TypeInv, TypeOK
  <2> QED BY <1>1, <2>1, <2>2 DEF RepliesInStep, IsCommand
<1> QED BY <1>4, <1>5, <1>6, <1>7 DEF DaemonStep, Daemon

\* Every step keeps requests and replies in step.
LEMMA StepInStep ==
  ASSUME TypeInv, RepliesInStep, [Next]_vars
  PROVE  RepliesInStep'
<1>1. CASE TakeShutdown \/ SocketError
  <2>1. runner' # "running"
    BY <1>1 DEF TakeShutdown, SocketError, Return
  <2> QED BY <2>1 DEF RepliesInStep
<1>2. CASE RejectSelect \/ SelectTimeout
  BY <1>2, UntouchedInStep DEF RejectSelect, SelectTimeout, socketVars, stationVars
<1>3. CASE TakeRequest
  <2>1. /\ Head(queue) \in Callers /\ FirstCommand[Kind(Head(queue))] \in Commands
        /\ SendCommand(FirstCommand[Kind(Head(queue))], Head(queue), 0)
        /\ runner = "running" /\ op = InLoop /\ UNCHANGED <<replies, lapsed>>
    BY <1>3, FirstCommandType DEF TakeRequest, Looping, Callers
  <2>2. CASE lapsed
    BY <2>1, <2>2 DEF RepliesInStep
  <2>3. CASE ~lapsed
    BY <2>1, <2>3, IdleQuiet, SendInStep
  <2> QED BY <2>2, <2>3
<1>4. CASE OnScanComplete
  <2>1. /\ SendCommand("SCAN_RESULTS", None, 0)
        /\ "SCAN_RESULTS" \in Commands /\ None \in Callers
        /\ runner = "running" /\ op = InLoop /\ UNCHANGED <<replies, lapsed>>
    BY <1>4 DEF OnScanComplete, NextEvent, Looping, Commands, Accepted, Callers
  <2>2. CASE lapsed
    BY <2>1, <2>2 DEF RepliesInStep
  <2>3. CASE ~lapsed
    BY <2>1, <2>3, IdleQuiet, SendInStep
  <2> QED BY <2>2, <2>3
<1>5. CASE OnScanFailed \/ OnSelectEvent \/ OnOtherEvent
  BY <1>5, UntouchedInStep DEF OnScanFailed, OnSelectEvent, OnOtherEvent, NextEvent
<1>6. CASE SimpleReply \/ ScanReply \/ ScanResultsReply \/ SelectStatusReply
  <2>1. runner = "running" /\ Done /\ \E r : HandleReply(r)
    BY <1>6
    DEF SimpleReply, ScanReply, ScanResultsReply, SelectStatusReply, AwaitingFor
  <2> QED BY <2>1, ReplyInStep
<1>7. CASE SelectReply \/ ListReply \/ GetNetworkReply
  <2>1. /\ runner = "running" /\ "STATUS" \in Commands /\ "GET_NETWORK" \in Commands
        /\ \E r : HandleReply(r)
        /\ \/ Done
           \/ \E left : SendCommand("STATUS", op.call, left)
           \/ \E left : SendCommand("GET_NETWORK", op.call, left)
    BY <1>7 DEF SelectReply, ListReply, GetNetworkReply, AwaitingFor, Commands, Accepted
  <2> QED BY <2>1, ReplyInStep
<1>8. CASE TimerExpires \/ UNCHANGED vars
  BY <1>8, UntouchedInStep DEF TimerExpires, vars, channelVars, socketVars, stationVars
<1>9. CASE MakeCall \/ CallFails \/ GiveUp \/ OwnerDrops
  BY <1>9, UntouchedInStep
  DEF MakeCall, CallFails, GiveUp, OwnerDrops, Send, SendFails, RecvFails, Abandon,
      DropRuntime, socketVars, stationVars
<1>10. CASE DaemonStep
  BY <1>10, DaemonInStep
<1> QED
  BY <1>1, <1>2, <1>3, <1>4, <1>5, <1>6, <1>7, <1>8, <1>9, <1>10 DEF Next, Runner

\* While no command was given up on, at most one request or reply is under way,
\* and it belongs to the command whose handler awaits it.
THEOREM InStep == Spec => []RepliesInStep
<1>1. Init => RepliesInStep
  <2> SUFFICES ASSUME Init PROVE RepliesInStep
    OBVIOUS
  <2>1. replies = <<>> /\ \A i \in DOMAIN wire : wire[i].cmd = "ATTACH"
    BY DEF Init, SocketInit, DaemonInit
  <2> QED BY <2>1 DEF RepliesInStep, IsCommand
<1>2. TypeInv /\ RepliesInStep /\ [Next]_vars => RepliesInStep'
  BY StepInStep
<1> QED BY <1>1, <1>2, TypeInvHolds, PTL DEF Spec

-----------------------------------------------------------------------------
(* Callers are told the reply to their own command. *)

\* A call that was not made has been told nothing.
Unmade == \A c \in Calls : request[c] = NoRequest => answer[c] = NoAnswer

OwnInv == RepliesAreOwn /\ Unmade

\* A step that tells no caller anything keeps what they were told their own.
LEMMA SameAnswersOwn ==
  ASSUME OwnInv, UNCHANGED <<request, answer>>, lapsed => lapsed'
  PROVE  OwnInv'
BY DEF OwnInv, RepliesAreOwn, Unmade, Kind

\* Answering callers keeps what they are told their own when the answer is from no
\* reply, comes after a command was given up on, or is from the caller's own reply.
LEMMA RespondOwn ==
  ASSUME OwnInv, UNCHANGED request, lapsed => lapsed',
         NEW S, NEW res, NEW of, Respond(S, Ans(res, of)),
         \/ lapsed'
         \/ res \notin FromReply
         \/ \A c \in S \cap Calls : Kind(c) = "Scan" \/ of = c
  PROVE  OwnInv'
<1>1. Ans(res, of).res = res /\ Ans(res, of).of = of
  BY DEF Ans
<1>2. \A c \in Calls :
        answer'[c] = answer[c]
        \/ (c \in S /\ request[c] # NoRequest /\ answer'[c] = Ans(res, of))
  BY DEF Respond, Waiting
<1> QED BY <1>1, <1>2 DEF OwnInv, RepliesAreOwn, Unmade, Kind

\* The rest of a handler answers its call, if at all, from the reply to its command.
LEMMA ReplyOwn ==
  ASSUME TypeInv, RepliesInStep, OwnInv, runner = "running", NEW r, HandleReply(r),
         \/ UNCHANGED answer
         \/ \E res : Respond({op.call}, Ans(res, r.call))
  PROVE  OwnInv'
<1>1. UNCHANGED request /\ (lapsed => lapsed')
  BY DEF HandleReply, Await
<1>2. CASE UNCHANGED answer
  BY <1>1, <1>2, SameAnswersOwn
<1>3. CASE \E res : Respond({op.call}, Ans(res, r.call))
  <2>1. lapsed' \/ r.call = op.call
    BY AfterReply DEF HandleReply
  <2> QED BY <1>1, <1>3, <2>1, RespondOwn
<1> QED BY <1>2, <1>3

\* Every step keeps what callers were told their own.
LEMMA StepOwn ==
  ASSUME TypeInv, RepliesInStep, OwnInv, [Next]_vars
  PROVE  OwnInv'
<1>1. CASE TakeShutdown \/ SocketError \/ TakeRequest
  BY <1>1, SameAnswersOwn DEF TakeShutdown, SocketError, TakeRequest, socketVars
<1>2. CASE RejectSelect
  BY <1>2, RespondOwn DEF RejectSelect, socketVars, FromReply
<1>3. CASE SelectTimeout
  BY <1>3, RespondOwn DEF SelectTimeout, socketVars, FromReply
<1>4. CASE OnScanComplete \/ OnOtherEvent
  BY <1>4, SameAnswersOwn DEF OnScanComplete, OnOtherEvent, NextEvent
<1>5. CASE OnScanFailed
  <2>1. \A c \in scan_requests : Kind(c) = "Scan"
    BY DEF TypeInv, HandlersFit
  <2> QED BY <1>5, <2>1, RespondOwn DEF OnScanFailed, NextEvent
<1>6. CASE OnSelectEvent
  <2>1. PICK e : /\ e.type \in DOMAIN SelectOutcome
                 /\ NextEvent(e)
                 /\ Respond({select_request.call}, Ans(SelectOutcome[e.type], e.val))
    BY <1>6 DEF OnSelectEvent
  <2>2. SelectOutcome[e.type] \notin FromReply
    BY <2>1 DEF SelectOutcome, FromReply
  <2> QED BY <2>1, <2>2, RespondOwn DEF NextEvent
<1>7. CASE SimpleReply
  BY <1>7, ReplyOwn DEF SimpleReply
<1>8. CASE ScanReply
  BY <1>8, ReplyOwn DEF ScanReply, AwaitingFor
<1>9. CASE ScanResultsReply
  <2>1. \A c \in scan_requests : Kind(c) = "Scan"
    BY DEF TypeInv, HandlersFit
  <2>2. PICK r : HandleReply(r) /\ Respond(scan_requests, Ans(Parse("SCAN_RESULTS", r), r.call))
    BY <1>9 DEF ScanResultsReply
  <2>3. UNCHANGED request /\ (lapsed => lapsed')
    BY <2>2 DEF HandleReply, Await
  <2> QED BY <2>1, <2>2, <2>3, RespondOwn
<1>10. CASE SelectReply \/ SelectStatusReply
  <2>1. runner = "running"
    BY <1>10 DEF SelectReply, SelectStatusReply, AwaitingFor
  <2>2. PICK r : /\ HandleReply(r)
                 /\ \/ UNCHANGED answer
                    \/ \E res : Respond({op.call}, Ans(res, r.call))
    BY <1>10 DEF SelectReply, SelectStatusReply
  <2> QED BY <2>1, <2>2, ReplyOwn
<1>11. CASE ListReply \/ GetNetworkReply
  <2>1. runner = "running"
    BY <1>11 DEF ListReply, GetNetworkReply, AwaitingFor
  <2>2. PICK r : /\ HandleReply(r)
                 /\ \/ UNCHANGED answer
                    \/ \E res : Respond({op.call}, Ans(res, r.call))
    BY <1>11 DEF ListReply, GetNetworkReply
  <2> QED BY <2>1, <2>2, ReplyOwn
<1>12. CASE MakeCall
  <2>1. PICK c \in Calls, q \in Requests : Send(c, q) \/ SendFails(c, q)
    BY <1>12 DEF MakeCall
  <2>2. /\ request[c] = NoRequest /\ request' = [request EXCEPT ![c] = q]
        /\ lapsed' = lapsed
    BY <1>12, <2>1 DEF MakeCall, Send, SendFails, socketVars
  <2>3. q # NoRequest
    BY ChannelAssumption DEF NoRequest
  <2>4. CASE UNCHANGED answer
    <3>1. answer[c].res \notin FromReply
      BY <2>2 DEF OwnInv, Unmade, NoAnswer, Ans, FromReply
    <3> QED BY <2>2, <2>3, <2>4, <3>1
        DEF OwnInv, Unmade, RepliesAreOwn, Kind, TypeInv, TypeOK
  <2>5. CASE q.kind = "Shutdown" /\ answer' = [answer EXCEPT ![c] = Ans("Ok", None)]
    BY <2>2, <2>3, <2>5 DEF OwnInv, Unmade, RepliesAreOwn, Kind, TypeInv, TypeOK
  <2>6. CASE answer' = [answer EXCEPT ![c] = Ans("NotRunning", None)]
    <3>1. Ans("NotRunning", None).res \notin FromReply
      BY DEF Ans, FromReply
    <3> QED BY <2>2, <2>3, <2>6, <3>1
        DEF OwnInv, Unmade, RepliesAreOwn, Kind, TypeInv, TypeOK
  <2> QED BY <2>1, <2>4, <2>5, <2>6 DEF Send, SendFails
<1>13. CASE CallFails \/ GiveUp
  <2>1. PICK c \in Calls, res \in {"NotRunning", "Abandoned"} :
          /\ request[c] # NoRequest
          /\ answer' = [answer EXCEPT ![c] = Ans(res, None)]
          /\ UNCHANGED <<request, queue, runner>>
    BY <1>13 DEF CallFails, GiveUp, RecvFails, Abandon, Waiting
  <2>2. Ans(res, None).res \notin FromReply
    BY DEF Ans, FromReply
  <2>3. lapsed' = lapsed
    BY <1>13 DEF CallFails, GiveUp, socketVars
  <2> QED BY <2>1, <2>2, <2>3 DEF OwnInv, Unmade, RepliesAreOwn, Kind, TypeInv, TypeOK
<1>14. CASE OwnerDrops \/ TimerExpires \/ UNCHANGED vars
  BY <1>14, SameAnswersOwn
  DEF OwnerDrops, DropRuntime, TimerExpires, vars, channelVars, socketVars
<1>15. CASE DaemonStep
  BY <1>15, SameAnswersOwn
  DEF DaemonStep, Undisturbed, channelVars, Daemon, DaemonAttach, DaemonAnswers,
      DaemonIgnores, ScanFinishes, DaemonActs, DaemonDies, socketVars
<1> QED
  BY <1>1, <1>2, <1>3, <1>4, <1>5, <1>6, <1>7, <1>8, <1>9, <1>10, <1>11, <1>12,
     <1>13, <1>14, <1>15
  DEF Next, Runner

\* When the loop starts nobody has been told anything.
LEMMA OwnInit == Init => OwnInv
<1> SUFFICES ASSUME Init PROVE OwnInv
  OBVIOUS
<1>1. \A c \in Calls : answer[c] = NoAnswer
  BY DEF Init, ChannelInit
<1>2. NoAnswer.res \notin FromReply
  BY DEF NoAnswer, Ans, FromReply
<1> QED BY <1>1, <1>2 DEF OwnInv, RepliesAreOwn, Unmade

\* While no command was given up on, whoever is told what the daemon replied is
\* told the reply to its own command; and nobody is told anything unasked.
THEOREM OwnReplies == Spec => []RepliesAreOwn /\ []Unmade
<1>1. TypeInv /\ RepliesInStep /\ OwnInv /\ [Next]_vars => OwnInv'
  BY StepOwn
<1>2. OwnInv => RepliesAreOwn /\ Unmade
  BY DEF OwnInv
<1> QED BY <1>1, <1>2, OwnInit, TypeInvHolds, InStep, PTL DEF Spec
=============================================================================
