------------------------------- MODULE Station -------------------------------
(***************************************************************************)
(* WifiStation::run_internal (src/sta/mod.rs): one task that selects among *)
(* the event socket, the request channel and the timer of the pending      *)
(* SelectNetwork, and runs the chosen handler to its end.  A handler that  *)
(* talks to the daemon stops the loop until its command is sent and then   *)
(* until its reply or its timeout, so an action here is the part of a      *)
(* handler between two such awaits.                                        *)
(***************************************************************************)
EXTENDS WpaSupplicant

VARIABLES
  op,              \* the command a handler awaits: [cmd, call, left]
  scan_requests,   \* calls to answer when scan results are ready
  select_request,  \* Option<SelectRequest>: [call, expired]
  link             \* what the last Connected/Disconnected broadcast said

stationVars == <<op, scan_requests, select_request, link>>
vars == <<channelVars, socketVars, daemonVars, stationVars>>

InLoop == [cmd |-> "none", call |-> None, left |-> 0]
NoSelect == [call |-> None, expired |-> FALSE]

\* The first command of the handler of each request; SetNetwork's and
\* RemoveNetwork's arguments do not change what follows.
FirstCommand ==
  [Custom |-> "CUSTOM", Status |-> "STATUS", Networks |-> "LIST_NETWORKS",
   Scan |-> "SCAN", AddNetwork |-> "ADD_NETWORK", SetNetwork |-> "SET_NETWORK",
   SaveConfig |-> "SAVE_CONFIG", ReloadConfig |-> "RECONFIGURE",
   RemoveNetwork |-> "REMOVE_NETWORK", SelectNetwork |-> "SELECT_NETWORK"]

\* The requests answered by the reply to their one command.
Simple == DOMAIN FirstCommand \ {"Networks", "Scan", "SelectNetwork"}

Looping == runner = "running" /\ op = InLoop
AwaitingFor(cmd) == runner = "running" /\ op.cmd = cmd

\* The handler at work still waits in send(..).await.
Sending == StillSending(Len(wire))

\* The calls whose oneshot sender the runtime owns.
Held ==
  Range(queue) \cup scan_requests \cup
  {c \in Calls : c = op.call \/ c = select_request.call}

-----------------------------------------------------------------------------
\* run_internal returns: its locals are dropped with every sender they own.
Return(result) ==
  /\ runner' = result
  /\ op' = InLoop
  /\ scan_requests' = {}
  /\ select_request' = NoSelect

\* socket.send(cmd).await?, then wait: a daemon that is gone refuses the datagram,
\* and where the queue of its socket is full the send waits (Sending).
SendCommand(cmd, c, left) ==
  \/ /\ up
     /\ wire' = Append(wire, [cmd |-> cmd, call |-> c])
     /\ op' = [cmd |-> cmd, call |-> c, left |-> left]
     /\ UNCHANGED <<runner, scan_requests, select_request>>
  \/ /\ ~up
     /\ Return("Io")
     /\ UNCHANGED wire

\* The handler is over and the loop goes on.
Done == op' = InLoop /\ UNCHANGED <<runner, wire>>

-----------------------------------------------------------------------------
(* The branches of the select! in run_internal. *)

\* Variant of TakeShutdown: left to handle_request, which does nothing with it.
TakeShutdownForNothing ==
  /\ Looping /\ queue # <<>> /\ Kind(Head(queue)) = "Shutdown"
  /\ queue' = Tail(queue)
  /\ UNCHANGED <<request, answer, runner, socketVars, daemonVars, stationVars>>

\* Request::Shutdown ends the loop.
TakeShutdown ==
  /\ Looping /\ queue # <<>> /\ Kind(Head(queue)) = "Shutdown"
  /\ queue' = Tail(queue)
  /\ Return("Ok")
  /\ UNCHANGED <<request, answer, socketVars, daemonVars, link>>

\* A SelectNetwork while one is pending is turned down at once.
RejectSelect ==
  /\ Looping /\ queue # <<>> /\ Kind(Head(queue)) = "SelectNetwork"
  /\ select_request # NoSelect
  /\ queue' = Tail(queue)
  /\ Respond({Head(queue)}, Ans("PendingSelect", None))
  /\ UNCHANGED <<request, runner, socketVars, daemonVars, stationVars>>

\* Variants of TakeRequest: a select is started whatever is pending; a request
\* is taken while the handler of another awaits its reply.
TakeRequestOverSelect ==
  /\ Looping /\ queue # <<>> /\ Kind(Head(queue)) # "Shutdown"
  /\ queue' = Tail(queue)
  /\ SendCommand(FirstCommand[Kind(Head(queue))], Head(queue), 0)
  /\ UNCHANGED <<request, answer, replies, lapsed, daemonVars, link>>

TakeRequestConcurrently ==
  /\ runner = "running" /\ queue # <<>> /\ Kind(Head(queue)) # "Shutdown"
  /\ Kind(Head(queue)) = "SelectNetwork" => select_request = NoSelect
  /\ queue' = Tail(queue)
  /\ SendCommand(FirstCommand[Kind(Head(queue))], Head(queue), 0)
  /\ UNCHANGED <<request, answer, replies, lapsed, daemonVars, link>>

\* Any other request starts with a command to the daemon.
TakeRequest ==
  /\ Looping /\ queue # <<>> /\ Kind(Head(queue)) # "Shutdown"
  /\ Kind(Head(queue)) = "SelectNetwork" => select_request = NoSelect
  /\ queue' = Tail(queue)
  /\ SendCommand(FirstCommand[Kind(Head(queue))], Head(queue), 0)
  /\ UNCHANGED <<request, answer, replies, lapsed, daemonVars, link>>

\* The timer of the pending select fires, and later the loop gets to it.
TimerExpires ==
  /\ select_request # NoSelect /\ ~select_request.expired
  /\ select_request' = [select_request EXCEPT !.expired = TRUE]
  /\ UNCHANGED <<channelVars, socketVars, daemonVars, op, scan_requests, link>>

\* Variant of SelectTimeout: nothing is done for a caller that has gone.
SelectTimeoutForCaller ==
  /\ Looping /\ select_request # NoSelect /\ select_request.expired
  /\ Waiting(select_request.call)
  /\ Respond({select_request.call}, Ans("Timeout", None))
  /\ select_request' = NoSelect
  /\ UNCHANGED <<request, queue, runner, socketVars, daemonVars, op,
                 scan_requests, link>>

SelectTimeout ==
  /\ Looping /\ select_request # NoSelect /\ select_request.expired
  /\ Respond({select_request.call}, Ans("Timeout", None))
  /\ select_request' = NoSelect
  /\ UNCHANGED <<request, queue, runner, socketVars, daemonVars, op,
                 scan_requests, link>>

-----------------------------------------------------------------------------
(* handle_event: e is the datagram EventSocket::recv has just classified. *)

NextEvent(e) ==
  /\ Looping /\ events # <<>>
  /\ e = Head(events)
  /\ events' = Tail(events)
  /\ UNCHANGED <<request, queue, replies, lapsed, up, attached, scanning, current, acted>>

\* SCAN_RESULTS is fetched inline, before anyone is answered.
OnScanComplete ==
  /\ NextEvent(Event("ScanComplete", None))
  /\ SendCommand("SCAN_RESULTS", None, 0)
  /\ UNCHANGED <<answer, link>>

\* Variant of OnScanFailed: not an event the loop knows.
OnScanFailedUnknown ==
  /\ NextEvent(Event("ScanFailed", None))
  /\ UNCHANGED <<answer, runner, wire, op, scan_requests, select_request, link>>

OnScanFailed ==
  /\ NextEvent(Event("ScanFailed", None))
  /\ Respond(scan_requests, Ans("Failed", None))
  /\ scan_requests' = {}
  /\ UNCHANGED <<runner, wire, op, select_request, link>>

\* The events that settle a pending select, whichever network they are about:
\* Connected, NetworkNotFound and WrongPsk.  Each is broadcast first.
SelectOutcome ==
  [Connected |-> "Success", NetworkNotFound |-> "NotFound", WrongPsk |-> "WrongPsk"]

\* Variant of OnSelectEvent: Connected is broadcast only when no select takes it.
OnSelectEventQuiet ==
  /\ \E e \in {events[i] : i \in 1..Len(events)} :
       /\ e.type \in DOMAIN SelectOutcome
       /\ NextEvent(e)
       /\ Respond({select_request.call}, Ans(SelectOutcome[e.type], e.val))
       /\ link' = IF e.type = "Connected" /\ select_request = NoSelect
                  THEN "Connected" ELSE link
  /\ select_request' = NoSelect
  /\ UNCHANGED <<runner, wire, op, scan_requests>>

OnSelectEvent ==
  /\ \E e \in {events[i] : i \in 1..Len(events)} :
       /\ e.type \in DOMAIN SelectOutcome
       /\ NextEvent(e)
       /\ Respond({select_request.call}, Ans(SelectOutcome[e.type], e.val))
       /\ link' = IF e.type = "Connected" THEN "Connected" ELSE link
  /\ select_request' = NoSelect
  /\ UNCHANGED <<runner, wire, op, scan_requests>>

\* Disconnected and unknown events are only broadcast.
OnOtherEvent ==
  /\ \E e \in {events[i] : i \in 1..Len(events)} :
       /\ e.type \in {"Disconnected", "Unknown"}
       /\ NextEvent(e)
       /\ link' = IF e.type = "Disconnected" THEN "Disconnected" ELSE link
  /\ UNCHANGED <<answer, runner, wire, op, scan_requests, select_request>>

-----------------------------------------------------------------------------
(* The rest of a handler, once its command is answered or given up on.  r  *)
(* is what ended the wait.                                                 *)

HandleReply(r) ==
  /\ ~Sending
  /\ Await(r)
  /\ UNCHANGED <<request, queue, daemonVars, link>>

\* The requests of one command: the parsed reply is the answer.
SimpleReply ==
  /\ runner = "running" /\ op.call # None /\ Kind(op.call) \in Simple
  /\ \E r \in Arrivals :
       /\ HandleReply(r)
       /\ Respond({op.call}, Ans(Parse(op.cmd, r), r.call))
  /\ Done
  /\ UNCHANGED <<scan_requests, select_request>>

\* Variant of ScanReply: a refusal drops the sender.
ScanReplyDropsError ==
  /\ AwaitingFor("SCAN")
  /\ \E r \in Arrivals :
       /\ HandleReply(r)
       /\ scan_requests' = IF Parse("SCAN", r) = "Ok"
                           THEN scan_requests \cup {op.call} ELSE scan_requests
  /\ Done
  /\ UNCHANGED <<answer, select_request>>

\* Request::Scan is not answered yet when SCAN is accepted.
ScanReply ==
  /\ AwaitingFor("SCAN")
  /\ \E r \in Arrivals :
       /\ HandleReply(r)
       /\ \/ /\ Parse("SCAN", r) = "Ok"
             /\ scan_requests' = scan_requests \cup {op.call}
             /\ UNCHANGED answer
          \/ /\ Parse("SCAN", r) # "Ok"
             /\ Respond({op.call}, Ans(Parse("SCAN", r), r.call))
             /\ UNCHANGED scan_requests
  /\ Done
  /\ UNCHANGED select_request

\* The results, or the error fetching them, go to every collected request.
ScanResultsReply ==
  /\ AwaitingFor("SCAN_RESULTS")
  /\ \E r \in Arrivals :
       /\ HandleReply(r)
       /\ Respond(scan_requests, Ans(Parse("SCAN_RESULTS", r), r.call))
  /\ scan_requests' = {}
  /\ Done
  /\ UNCHANGED select_request

\* Request::SelectNetwork: SELECT_NETWORK accepted, ask for STATUS.
SelectReply ==
  /\ AwaitingFor("SELECT_NETWORK")
  /\ \E r \in Arrivals :
       /\ HandleReply(r)
       /\ \/ /\ Parse("SELECT_NETWORK", r) = "Ok"
             /\ SendCommand("STATUS", op.call, 0)
             /\ UNCHANGED answer
          \/ /\ Parse("SELECT_NETWORK", r) # "Ok"
             /\ Respond({op.call}, Ans(Parse("SELECT_NETWORK", r), r.call))
             /\ Done
             /\ UNCHANGED <<scan_requests, select_request>>

\* Variants of SelectStatusReply: an event is awaited even when the network is
\* connected already, as before 0.2.1; an unreadable STATUS drops the sender.
SelectStatusReplyAwaits ==
  /\ AwaitingFor("STATUS") /\ Kind(op.call) = "SelectNetwork"
  /\ \E r \in Arrivals :
       /\ HandleReply(r)
       /\ \/ /\ Parse("STATUS", r) # "Ok"
             /\ Respond({op.call}, Ans(Parse("STATUS", r), r.call))
             /\ UNCHANGED select_request
          \/ /\ Parse("STATUS", r) = "Ok"
             /\ select_request' = [call |-> op.call, expired |-> FALSE]
             /\ UNCHANGED answer
  /\ Done
  /\ UNCHANGED scan_requests

SelectStatusReplyDropsError ==
  /\ AwaitingFor("STATUS") /\ Kind(op.call) = "SelectNetwork"
  /\ \E r \in Arrivals :
       /\ HandleReply(r)
       /\ select_request' = IF Parse("STATUS", r) = "Ok"
                            THEN [call |-> op.call, expired |-> FALSE] ELSE select_request
  /\ Done
  /\ UNCHANGED <<answer, scan_requests>>

\* The STATUS of a select: connected to the network already, or wait for an event.
SelectStatusReply ==
  /\ AwaitingFor("STATUS") /\ Kind(op.call) = "SelectNetwork"
  /\ \E r \in Arrivals :
       /\ HandleReply(r)
       /\ \/ /\ Parse("STATUS", r) # "Ok"
             /\ Respond({op.call}, Ans(Parse("STATUS", r), r.call))
             /\ UNCHANGED select_request
          \/ /\ Parse("STATUS", r) = "Ok" /\ r.val = request[op.call].id
             /\ Respond({op.call}, Ans("AlreadyConnected", r.call))
             /\ UNCHANGED select_request
          \/ /\ Parse("STATUS", r) = "Ok" /\ r.val # request[op.call].id
             /\ select_request' = [call |-> op.call, expired |-> FALSE]
             /\ UNCHANGED answer
  /\ Done
  /\ UNCHANGED scan_requests

\* Variant of ListReply: the list is the answer, and the first GET_NETWORK is
\* sent without anyone to await its reply.
ListReplyEarly ==
  /\ AwaitingFor("LIST_NETWORKS")
  /\ \E r \in Arrivals :
       /\ HandleReply(r)
       /\ Respond({op.call}, Ans(Parse("LIST_NETWORKS", r), r.call))
  /\ wire' = Append(wire, [cmd |-> "GET_NETWORK", call |-> op.call])
  /\ op' = InLoop
  /\ UNCHANGED <<runner, scan_requests, select_request>>

\* NetworkResult::request_results: one GET_NETWORK for each network listed.
\* A reply that is no such list has no line that starts with a number.
ListReply ==
  /\ AwaitingFor("LIST_NETWORKS")
  /\ \E r \in Arrivals :
       LET listed == IF r.text = "list" THEN r.val ELSE 0
       IN  /\ HandleReply(r)
           /\ \/ /\ Parse("LIST_NETWORKS", r) = "Ok" /\ listed > 0
                 /\ SendCommand("GET_NETWORK", op.call, listed - 1)
                 /\ UNCHANGED answer
              \/ /\ Parse("LIST_NETWORKS", r) # "Ok" \/ listed = 0
                 /\ Respond({op.call}, Ans(Parse("LIST_NETWORKS", r), r.call))
                 /\ Done
                 /\ UNCHANGED <<scan_requests, select_request>>

\* Variant of GetNetworkReply: an error on the way drops the sender.
GetNetworkReplyDropsError ==
  /\ AwaitingFor("GET_NETWORK")
  /\ \E r \in Arrivals :
       /\ HandleReply(r)
       /\ \/ /\ Parse("GET_NETWORK", r) = "Ok" /\ op.left > 0
             /\ SendCommand("GET_NETWORK", op.call, op.left - 1)
             /\ UNCHANGED answer
          \/ /\ Parse("GET_NETWORK", r) # "Ok" \/ op.left = 0
             /\ IF Parse("GET_NETWORK", r) = "Ok"
                THEN Respond({op.call}, Ans("Ok", r.call)) ELSE UNCHANGED answer
             /\ Done
             /\ UNCHANGED <<scan_requests, select_request>>

GetNetworkReply ==
  /\ AwaitingFor("GET_NETWORK")
  /\ \E r \in Arrivals :
       /\ HandleReply(r)
       /\ \/ /\ Parse("GET_NETWORK", r) = "Ok" /\ op.left > 0
             /\ SendCommand("GET_NETWORK", op.call, op.left - 1)
             /\ UNCHANGED answer
          \/ /\ Parse("GET_NETWORK", r) # "Ok" \/ op.left = 0
             /\ Respond({op.call}, Ans(Parse("GET_NETWORK", r), r.call))
             /\ Done
             /\ UNCHANGED <<scan_requests, select_request>>

\* The recv of the event socket or of the awaited reply fails.  The datagram
\* sockets say nothing when the daemon closes its end, so this is rare.
SocketError ==
  /\ runner = "running" /\ ~up
  /\ Return("Io")
  /\ UNCHANGED <<request, answer, queue, socketVars, daemonVars, link>>

\* A send that was waiting when the daemon went is refused: the one such error
\* that is sure to come.
SendRefused == Sending /\ SocketError

-----------------------------------------------------------------------------
(* The loop's turn: one branch of the select!, or the rest of a handler. *)
Runner ==
  \/ TakeShutdown \/ RejectSelect \/ TakeRequest \/ SelectTimeout
  \/ OnScanComplete \/ OnScanFailed \/ OnSelectEvent \/ OnOtherEvent
  \/ SimpleReply \/ ScanReply \/ ScanResultsReply \/ SelectReply
  \/ SelectStatusReply \/ ListReply \/ GetNetworkReply

\* The callers, and the task that owns the runtime.
MakeCall ==
  /\ \E c \in Calls, r \in Requests : Send(c, r) \/ SendFails(c, r)
  /\ UNCHANGED <<socketVars, daemonVars, stationVars>>

CallFails ==
  /\ \E c \in Calls : RecvFails(c, Held)
  /\ UNCHANGED <<socketVars, daemonVars, stationVars>>

GiveUp ==
  /\ \E c \in Calls : Abandon(c)
  /\ UNCHANGED <<socketVars, daemonVars, stationVars>>

OwnerDrops == DropRuntime /\ UNCHANGED <<socketVars, daemonVars, stationVars>>

\* Once run() has returned its sockets are closed, and what the daemon does
\* reaches no one.
Undisturbed == runner = "running" /\ UNCHANGED <<channelVars, stationVars>>
DaemonStep == Daemon /\ Undisturbed

Init ==
  /\ ChannelInit /\ SocketInit /\ DaemonInit
  /\ runner = "running"
  /\ op = InLoop
  /\ scan_requests = {}
  /\ select_request = NoSelect
  /\ link = "unknown"

Next ==
  \/ Runner \/ TimerExpires \/ SocketError
  \/ MakeCall \/ CallFails \/ GiveUp \/ OwnerDrops
  \/ DaemonStep

Spec == Init /\ [][Next]_vars
=============================================================================
