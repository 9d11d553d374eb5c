-------------------------- MODULE AccessPointProofs --------------------------
(***************************************************************************)
(* Proofs about the access point's runtime (src/ap), for any calls,        *)
(* stations, retries and times: its type invariant, that commands and      *)
(* replies stay in step, that callers are told the reply to their own      *)
(* command, that no request is lost, and what the handshake relies on.     *)
(*                                                                         *)
(* ApTypeOK is not inductive: handle_request looks up the command of the   *)
(* request at the head of the channel, and handle_event the station of     *)
(* what it reads.  ApTypeInv adds the types of the sockets (SocketsOK) and *)
(* that what the runtime holds was sent (ApMade).                          *)
(***************************************************************************)
EXTENDS AccessPointProps, ChannelProofs

ApCommands == Range(FirstCommand)
HandshakeCommands == {"ATTACH", "LOG_LEVEL"}

ApDatagram == [cmd : ApCommands, call : Calls]
ApReply == [cmd : ApCommands, call : Calls, text : AnyText \cup {"FAIL", "garbled"},
            val : {None}]
EvDatagram == [cmd : HandshakeCommands, call : {None}]
EvReply == [cmd : HandshakeCommands, call : {None}, text : {"OK", "FAIL"}, val : {None}]
StationEvent == [cmd : {"event"}, call : {None}, text : {"Connected", "Disconnected"},
                 val : [mac : Macs, nr : Nat]]
EvArrival == EvReply \cup StationEvent

ApTold == [res : {"none", "Ok", "Failed", "ParsingResponse", "Timeout", "NotRunning",
                  "Abandoned"}, of : Calls \cup {None}]

TryType == [at : {"send", "await", "sleep"}, left : 0..Retries, spent : Nat,
            waited : Nat]

SocketsOK ==
  /\ wire \in Seq(ApDatagram) /\ replies \in Seq(ApReply) /\ lapsed \in BOOLEAN
  /\ evWire \in Seq(EvDatagram) /\ evIn \in Seq(EvArrival) /\ evLapsed \in BOOLEAN
  /\ \A i \in DOMAIN evIn : evIn[i].cmd = "event" => evIn[i].val \in reported
  /\ up \in BOOLEAN /\ attached \in BOOLEAN /\ stations \subseteq Macs /\ acted \in Nat

\* What the runtime owns the sender of was sent; no handler is at work before
\* the loop, and nothing is left deferred in it.
ApMade ==
  /\ \A c \in Held : request[c] # NoRequest
  /\ op = InLoop \/ (op.call \in Calls /\ op.cmd \in ApCommands)
  /\ runner = "starting" => op = InLoop
  /\ runner = "running" => deferred = <<>>

ApTypeInv == ApTypeOK /\ SocketsOK /\ ApMade

\* handle_request finds a command for the request at the head of the channel.
LEMMA HeadCommand ==
  ASSUME ApTypeInv, queue # <<>>, Kind(Head(queue)) # "Shutdown"
  PROVE  /\ Head(queue) \in Calls
         /\ FirstCommand[Kind(Head(queue))] \in ApCommands
<1>1. Head(queue) \in Calls /\ Head(queue) \in Held
  BY RangeTail DEF ApTypeInv, ApTypeOK, Held
<1>2. request[Head(queue)] \in Requests
  BY <1>1 DEF ApTypeInv, ApTypeOK, ApMade
<1>3. Kind(Head(queue)) \in DOMAIN FirstCommand
  BY <1>2, RequestsAssumption DEF Kind
<1> QED BY <1>1, <1>3 DEF ApCommands, Range

\* What ends the wait of a handler is a reply to a call, or the timeout.
LEMMA ApArrivalType ==
  ASSUME ApTypeInv, NEW r \in Arrivals
  PROVE  r.call \in Calls \cup {None}
<1>1. \A i \in 1..Len(replies) : replies[i] \in ApReply
  BY DEF ApTypeInv, SocketsOK
<1> QED BY <1>1 DEF Arrivals, TimedOut, ApReply

\* What a channel holds is of the type of its elements.
LEMMA RangeSeq == ASSUME NEW S, NEW s \in Seq(S) PROVE Range(s) \subseteq S
BY DEF Range

\* The end of the wait in retry_command keeps the type of the event socket.
LEMMA EvAwaitType ==
  ASSUME ApTypeInv, NEW r, Ev!Await(r)
  PROVE  /\ evIn' \in Seq(EvArrival) /\ evLapsed' \in BOOLEAN
         /\ r.cmd = "event" => r.val \in reported
         /\ \A i \in DOMAIN evIn' : evIn'[i].cmd = "event" => evIn'[i].val \in reported
<1>1. CASE evIn # <<>> /\ r = Head(evIn) /\ evIn' = Tail(evIn) /\ UNCHANGED evLapsed
  BY <1>1, TailElements DEF ApTypeInv, SocketsOK
<1>2. CASE r = Ev!TimedOut /\ evLapsed' = TRUE /\ UNCHANGED evIn
  BY <1>2 DEF ApTypeInv, SocketsOK, Ev!TimedOut
<1> QED BY <1>1, <1>2 DEF Ev!Await

\* When run() returns what it holds has its type.
LEMMA ApReturnType ==
  ASSUME ApTypeInv, NEW result \in SocketResults, Return(result),
         Range(queue') \subseteq Range(queue), UNCHANGED request
  PROVE  /\ runner' \in SocketResults /\ deferred' \in Seq(Calls)
         /\ op' \in [cmd : Range(FirstCommand) \cup {"none"}, call : Calls \cup {None}]
         /\ ApMade'
<1>1. Range(deferred') = {} /\ op' = InLoop /\ op'.call = None /\ op'.cmd = "none"
  BY DEF Return, InLoop, Range
<1>2. Held' \subseteq Held
  BY <1>1, ChannelAssumption DEF Held
<1>3. "starting" \notin SocketResults /\ "running" \notin SocketResults
  BY DEF SocketResults
<1> QED BY <1>1, <1>2, <1>3 DEF Return, ApMade, InLoop, ApTypeInv

\* What the loop of retry_command does to its attempts and its time.
LEMMA TryTypes ==
  ASSUME try \in TryType
  PROVE  /\ try.left > 0 => [try EXCEPT !.at = "await", !.left = @ - 1] \in TryType
         /\ [try EXCEPT !.spent = @ + 1, !.waited = @ + 1] \in TryType
         /\ Fresh \in TryType
<1>1. /\ try.left \in Nat /\ Retries \in Nat /\ try.left <= Retries
      /\ try.left > 0 => try.left - 1 \in 0..Retries
  BY AccessPointAssumption DEF TryType
<1>2. try.spent + 1 \in Nat /\ try.waited + 1 \in Nat
  BY DEF TryType
<1>3. Fresh \in TryType
  BY AccessPointAssumption DEF Fresh, TryType
<1>4. try.left > 0 => [try EXCEPT !.at = "await", !.left = @ - 1] \in TryType
  BY <1>1 DEF TryType
<1>5. [try EXCEPT !.spent = @ + 1, !.waited = @ + 1] \in TryType
  BY <1>2 DEF TryType
<1> QED BY <1>3, <1>4, <1>5

\* The time an attempt or the delay after it takes is added to that of the rest.
LEMMA Spending ==
  ASSUME try \in TryType, NEW time \in Nat, NEW at \in {"send", "sleep"}
  PROVE  /\ Spend(time, at) \in TryType
         /\ Spend(time, at).at = at /\ Spend(time, at).spent = try.spent + time
         /\ Spend(time, at).left = try.left /\ Spend(time, at).waited = try.waited
<1>1. try.spent + time \in Nat
  BY DEF TryType
<1> QED BY <1>1 DEF TryType, Spend

\* Steps of the start-up.
LEMMA StartTypeStep ==
  ASSUME ApTypeInv,
         OpenEnds \/ OpenTakes \/ Attempt \/ AttemptWaits \/ AttemptEnds \/ DelayEnds
         \/ Resend \/ Ready
  PROVE  ApTypeInv'
<1> USE DEF startVars, eventVars, loopVars, hostapdVars, channelVars, socketVars
<1>r. /\ {"PermissionDenied", "TimeoutOpeningSocket", "StartupAborted", "Io", "AttachFailed"}
           \subseteq SocketResults
      /\ "starting" \notin SocketResults /\ "running" \notin SocketResults
  BY DEF SocketResults
<1>f. try \in TryType
  BY DEF ApTypeInv, ApTypeOK, TryType
<1>1. CASE OpenEnds
  <2>0. UNCHANGED <<request, answer, queue, try, wire, replies, lapsed, eventVars, link,
                    hostapdVars>>
    BY <1>1 DEF OpenEnds
  <2>1. CASE stage' = After[stage] /\ UNCHANGED <<runner, deferred, op>>
    <3>1. stage' \in {"ATTACH", "resend"}
      BY <1>1, <2>1 DEF OpenEnds, Opening, After
    <3>2. ApMade'
      BY <2>0, <2>1 DEF ApTypeInv, ApMade, Held
    <3> QED BY <2>0, <2>1, <3>1, <3>2 DEF ApTypeInv, ApTypeOK, SocketsOK
  <2>2. CASE UNCHANGED stage /\ \E e \in {"PermissionDenied", "TimeoutOpeningSocket"} : Return(e)
    <3>1. /\ runner' \in SocketResults /\ deferred' \in Seq(Calls) /\ ApMade'
          /\ op' \in [cmd : Range(FirstCommand) \cup {"none"}, call : Calls \cup {None}]
      BY <1>r, <2>0, <2>2, ApReturnType
    <3> QED BY <2>0, <2>2, <3>1 DEF ApTypeInv, ApTypeOK, SocketsOK
  <2> QED BY <1>1, <2>1, <2>2 DEF OpenEnds
<1>2. CASE OpenTakes
  <2>0. /\ queue # <<>> /\ queue' = Tail(queue) /\ runner = "starting"
        /\ UNCHANGED <<request, answer, stage, try, wire, replies, lapsed, eventVars, link,
                       hostapdVars>>
    BY <1>2 DEF OpenTakes, Opening
  <2>1. /\ queue' \in Seq(Calls) /\ Head(queue) \in Calls
        /\ Range(queue') \subseteq Range(queue) /\ Head(queue) \in Range(queue)
    BY <2>0, RangeTail DEF ApTypeInv, ApTypeOK
  <2>2. CASE deferred' = Append(deferred, Head(queue)) /\ UNCHANGED <<runner, op>>
    <3>1. deferred' \in Seq(Calls) /\ Range(deferred') = Range(deferred) \cup {Head(queue)}
      BY <2>1, <2>2, RangeAppend DEF ApTypeInv, ApTypeOK
    <3>2. Held' \subseteq Held
      BY <2>1, <2>2, <3>1 DEF Held
    <3>3. ApMade'
      BY <2>0, <2>2, <3>2 DEF ApTypeInv, ApMade
    <3> QED BY <2>0, <2>1, <2>2, <3>1, <3>3 DEF ApTypeInv, ApTypeOK, SocketsOK
  <2>3. CASE Return("StartupAborted")
    <3>1. /\ runner' \in SocketResults /\ deferred' \in Seq(Calls) /\ ApMade'
          /\ op' \in [cmd : Range(FirstCommand) \cup {"none"}, call : Calls \cup {None}]
      BY <1>r, <2>0, <2>1, <2>3, ApReturnType
    <3> QED BY <2>0, <2>1, <3>1 DEF ApTypeInv, ApTypeOK, SocketsOK
  <2> QED BY <1>2, <2>2, <2>3 DEF OpenTakes
<1>3. CASE Attempt
  <2>0. /\ stage \in HandshakeCommands
        /\ UNCHANGED <<request, answer, queue, wire, replies, lapsed, stage, evIn, evLapsed,
                       swallowed, delivered, link, hostapdVars>>
    BY <1>3 DEF Attempt, Handshaking, HandshakeCommands
  <2>1. CASE /\ try.left > 0 /\ evWire' = Append(evWire, [cmd |-> stage, call |-> None])
             /\ try' = [try EXCEPT !.at = "await", !.left = @ - 1]
             /\ UNCHANGED <<runner, deferred, op>>
    <3>1. [cmd |-> stage, call |-> None] \in EvDatagram
      BY <2>0 DEF EvDatagram
    <3>2. evWire' \in Seq(EvDatagram)
      BY <2>1, <3>1 DEF ApTypeInv, SocketsOK
    <3>3. try' \in TryType
      BY <1>f, <2>1, TryTypes
    <3>4. ApMade'
      BY <2>0, <2>1 DEF ApTypeInv, ApMade, Held
    <3> QED BY <2>0, <2>1, <3>2, <3>3, <3>4
        DEF ApTypeInv, ApTypeOK, SocketsOK, TryType
  <2>2. CASE UNCHANGED <<evWire, try>> /\ \E e \in {"Io", "AttachFailed"} : Return(e)
    <3>1. /\ runner' \in SocketResults /\ deferred' \in Seq(Calls) /\ ApMade'
          /\ op' \in [cmd : Range(FirstCommand) \cup {"none"}, call : Calls \cup {None}]
      BY <1>r, <2>0, <2>2, ApReturnType
    <3> QED BY <2>0, <2>2, <3>1 DEF ApTypeInv, ApTypeOK, SocketsOK
  <2> QED BY <1>3, <2>1, <2>2 DEF Attempt
<1>4. CASE AttemptEnds
  <2>0. UNCHANGED <<channelVars, socketVars, deferred, evWire, delivered, loopVars, hostapdVars>>
    BY <1>4 DEF AttemptEnds
  <2>1. PICK r \in Ev!Arrivals, late \in 0..(CommandTimeout - 1) :
          /\ Ev!Await(r)
          /\ swallowed' = IF r.cmd = "event" THEN swallowed \cup {r.val} ELSE swallowed
          /\ \/ stage' = After[stage] /\ try' = Fresh
             \/ /\ try' = Spend(IF r = TimedOut THEN CommandTimeout ELSE late, "sleep")
                /\ UNCHANGED stage
    BY <1>4 DEF AttemptEnds
  <2>2. stage' \in {"event", "ATTACH", "LOG_LEVEL", "sync", "resend"}
    <3>1. stage \in {"ATTACH", "LOG_LEVEL"}
      BY <1>4 DEF AttemptEnds, Handshaking
    <3>2. After["ATTACH"] = "LOG_LEVEL" /\ After["LOG_LEVEL"] = "sync"
      BY DEF After
    <3> QED BY <2>1, <3>1, <3>2
  <2>3. PICK time \in Nat :
          try' = Fresh \/ try' = Spend(time, "sleep")
    <3>1. late \in Nat /\ CommandTimeout \in Nat
      BY AccessPointAssumption
    <3> QED BY <2>1, <3>1
  <2>4. try' \in TryType
    BY <1>f, <2>3, TryTypes, Spending
  <2>5. swallowed' \subseteq reported
    BY <2>1, EvAwaitType DEF ApTypeInv, ApTypeOK
  <2>6. ApMade'
    BY <2>0 DEF ApTypeInv, ApMade, Held
  <2>7. /\ evIn' \in Seq(EvArrival) /\ evLapsed' \in BOOLEAN
        /\ \A i \in DOMAIN evIn' : evIn'[i].cmd = "event" => evIn'[i].val \in reported
    BY <2>1, EvAwaitType
  <2>8. SocketsOK'
    BY <2>0, <2>7 DEF ApTypeInv, SocketsOK
  <2>9. ApTypeOK'
    BY <2>0, <2>2, <2>4, <2>5 DEF ApTypeInv, ApTypeOK, TryType
  <2> QED BY <2>6, <2>8, <2>9 DEF ApTypeInv
<1>5. CASE DelayEnds
  <2>1. try' \in TryType
    BY <1>f, <1>5, Spending, AccessPointAssumption DEF DelayEnds
  <2>2. ApMade'
    BY <1>5 DEF DelayEnds, ApTypeInv, ApMade, Held
  <2> QED BY <1>5, <2>1, <2>2 DEF DelayEnds, ApTypeInv, ApTypeOK, SocketsOK, TryType
<1>6. CASE Resend
  <2>0. /\ deferred # <<>> /\ queue' = Append(queue, Head(deferred))
        /\ deferred' = Tail(deferred) /\ runner = "starting"
        /\ UNCHANGED <<request, answer, runner, socketVars, stage, try, eventVars, loopVars,
                       hostapdVars>>
    BY <1>6 DEF Resend
  <2>1. /\ deferred' \in Seq(Calls) /\ Head(deferred) \in Calls
        /\ Range(deferred') \subseteq Range(deferred) /\ Head(deferred) \in Range(deferred)
    BY <2>0, RangeTail DEF ApTypeInv, ApTypeOK
  <2>2. queue' \in Seq(Calls) /\ Range(queue') = Range(queue) \cup {Head(deferred)}
    BY <2>0, <2>1, RangeAppend DEF ApTypeInv, ApTypeOK
  <2>3. ApMade'
    BY <2>0, <2>1, <2>2 DEF ApTypeInv, ApMade, Held
  <2> QED BY <2>0, <2>1, <2>2, <2>3 DEF ApTypeInv, ApTypeOK, SocketsOK
<1>7. CASE Ready
  <2>1. ApMade'
    BY <1>7 DEF Ready, ApTypeInv, ApMade, Held
  <2> QED BY <1>7, <2>1 DEF Ready, ApTypeInv, ApTypeOK, SocketsOK
<1>8. CASE AttemptWaits
  <2>1. try' \in TryType
    BY <1>f, <1>8, TryTypes DEF AttemptWaits
  <2>2. ApMade'
    BY <1>8 DEF AttemptWaits, ApTypeInv, ApMade, Held
  <2> QED BY <1>8, <2>1, <2>2 DEF AttemptWaits, ApTypeInv, ApTypeOK, SocketsOK, TryType
<1> QED BY <1>1, <1>2, <1>3, <1>4, <1>5, <1>6, <1>7, <1>8

\* Steps of the loop.
LEMMA ApLoopTypeStep ==
  ASSUME ApTypeInv, TakeShutdown \/ TakeRequest \/ Reply \/ OnEvent \/ SocketError
  PROVE  ApTypeInv'
<1> USE DEF startVars, eventVars, hostapdVars
<1>r. {"Ok", "Io"} \subseteq SocketResults
  BY DEF SocketResults
<1>1. CASE TakeShutdown
  <2>0. /\ queue # <<>> /\ queue' = Tail(queue) /\ Return("Ok")
        /\ UNCHANGED <<request, answer, socketVars, stage, try, eventVars, link, hostapdVars>>
    BY <1>1 DEF TakeShutdown
  <2>1. queue' \in Seq(Calls) /\ Range(queue') \subseteq Range(queue)
    BY <2>0, RangeTail DEF ApTypeInv, ApTypeOK
  <2>2. /\ runner' \in SocketResults /\ deferred' \in Seq(Calls) /\ ApMade'
        /\ op' \in [cmd : Range(FirstCommand) \cup {"none"}, call : Calls \cup {None}]
    BY <1>r, <2>0, <2>1, ApReturnType
  <2> QED BY <2>0, <2>1, <2>2 DEF ApTypeInv, ApTypeOK, SocketsOK, socketVars
<1>2. CASE TakeRequest
  <2> DEFINE h == Head(queue)
             cmd == FirstCommand[Kind(h)]
  <2>0. /\ queue # <<>> /\ queue' = Tail(queue) /\ runner = "running" /\ Kind(h) # "Shutdown"
        /\ UNCHANGED <<request, answer, replies, lapsed, stage, try, eventVars, link,
                       hostapdVars>>
    BY <1>2 DEF TakeRequest, Looping
  <2>1. queue' \in Seq(Calls) /\ Range(queue') \subseteq Range(queue) /\ h \in Range(queue)
    BY <2>0, RangeTail DEF ApTypeInv, ApTypeOK
  <2>2. h \in Calls /\ cmd \in ApCommands
    BY <2>0, HeadCommand
  <2>3. CASE /\ wire' = Append(wire, [cmd |-> cmd, call |-> h])
             /\ op' = [cmd |-> cmd, call |-> h]
             /\ UNCHANGED <<runner, deferred>>
    <3> HIDE DEF h, cmd
    <3>1. [cmd |-> cmd, call |-> h] \in ApDatagram
      BY <2>2 DEF ApDatagram
    <3>2. wire' \in Seq(ApDatagram)
      BY <2>3, <3>1 DEF ApTypeInv, SocketsOK
    <3>3. op'.call = h /\ op'.cmd = cmd
      BY <2>3
    <3>4. Held' \subseteq Held
      BY <2>1, <2>2, <2>3, <3>3 DEF Held
    <3>5. ApMade'
      BY <2>0, <2>2, <2>3, <3>3, <3>4 DEF ApTypeInv, ApMade
    <3>6. op' \in [cmd : Range(FirstCommand) \cup {"none"}, call : Calls \cup {None}]
      BY <2>2, <2>3 DEF ApCommands
    <3> QED BY <2>0, <2>1, <2>3, <3>2, <3>5, <3>6 DEF ApTypeInv, ApTypeOK, SocketsOK
  <2>4. CASE Return("Io") /\ UNCHANGED wire
    <3>1. /\ runner' \in SocketResults /\ deferred' \in Seq(Calls) /\ ApMade'
          /\ op' \in [cmd : Range(FirstCommand) \cup {"none"}, call : Calls \cup {None}]
      BY <1>r, <2>0, <2>1, <2>4, ApReturnType
    <3> QED BY <2>0, <2>1, <2>4, <3>1 DEF ApTypeInv, ApTypeOK, SocketsOK
  <2> QED BY <1>2, <2>3, <2>4 DEF TakeRequest
<1>3. CASE Reply
  <2>0. /\ runner = "running" /\ op' = InLoop
        /\ UNCHANGED <<request, queue, runner, wire, startVars, eventVars, link, hostapdVars>>
    BY <1>3 DEF Reply
  <2>1. PICK r \in Arrivals :
          Await(r) /\ Respond({op.call}, Ans(Parse(op.cmd, r), r.call))
    BY <1>3 DEF Reply
  <2>2. Ans(Parse(op.cmd, r), r.call) \in ApTold
    <3>1. Parse(op.cmd, r) \in {"Ok", "Failed", "ParsingResponse", "Timeout"}
      BY DEF Parse
    <3> QED BY <3>1, ApArrivalType DEF Ans, ApTold
  <2>3. answer' \in [Calls -> ApTold]
    <3>1. answer \in [Calls -> ApTold]
      BY DEF ApTypeInv, ApTypeOK, ApTold
    <3> QED BY <2>1, <2>2, <3>1 DEF Respond
  <2>4. replies' \in Seq(ApReply) /\ lapsed' \in BOOLEAN
    <3>1. CASE replies # <<>> /\ replies' = Tail(replies) /\ UNCHANGED lapsed
      BY <3>1 DEF ApTypeInv, SocketsOK
    <3>2. CASE lapsed' = TRUE /\ UNCHANGED replies
      BY <3>2 DEF ApTypeInv, SocketsOK
    <3> QED BY <2>1, <3>1, <3>2 DEF Await
  <2>5. /\ op'.cmd = "none" /\ op'.call = None
        /\ op' \in [cmd : Range(FirstCommand) \cup {"none"}, call : Calls \cup {None}]
    BY <2>0 DEF InLoop
  <2>6. ApMade'
    BY <2>0, <2>5, ChannelAssumption DEF ApTypeInv, ApMade, Held
  <2> QED BY <2>0, <2>3, <2>4, <2>5, <2>6 DEF ApTypeInv, ApTypeOK, SocketsOK, ApTold
<1>4. CASE OnEvent
  <2>0. /\ evIn # <<>> /\ evIn' = Tail(evIn)
        /\ link' = IF Head(evIn).cmd = "event"
                   THEN [link EXCEPT ![Head(evIn).val.mac] = Head(evIn).text] ELSE link
        /\ delivered' = IF Head(evIn).cmd = "event"
                        THEN delivered \cup {Head(evIn).val} ELSE delivered
        /\ UNCHANGED <<channelVars, socketVars, startVars, evWire, evLapsed, swallowed, op,
                       hostapdVars>>
    BY <1>4 DEF OnEvent
  <2>1. /\ evIn' \in Seq(EvArrival) /\ Head(evIn) \in EvArrival
        /\ \A i \in DOMAIN evIn' : evIn'[i].cmd = "event" => evIn'[i].val \in reported
    BY <2>0, TailElements DEF ApTypeInv, SocketsOK
  <2>2. Head(evIn).cmd = "event" =>
          Head(evIn).text \in {"Connected", "Disconnected"}
    BY <2>1 DEF EvArrival, EvReply, StationEvent, HandshakeCommands
  <2>3. link' \in [Macs -> {"unknown", "Connected", "Disconnected"}]
    BY <2>0, <2>2 DEF ApTypeInv, ApTypeOK
  <2>4. ApMade'
    BY <2>0 DEF ApTypeInv, ApMade, Held, channelVars
  <2>5. delivered' \subseteq reported
    <3>1. Head(evIn).cmd = "event" => Head(evIn).val \in reported
      BY <2>0 DEF ApTypeInv, SocketsOK
    <3> QED BY <2>0, <3>1 DEF ApTypeInv, ApTypeOK
  <2> QED BY <2>0, <2>1, <2>3, <2>4, <2>5
      DEF ApTypeInv, ApTypeOK, SocketsOK, channelVars, socketVars
<1>5. CASE SocketError
  <2>0. /\ Return("Io")
        /\ UNCHANGED <<request, answer, queue, socketVars, stage, try, eventVars, link, hostapdVars>>
    BY <1>5 DEF SocketError
  <2>1. /\ runner' \in SocketResults /\ deferred' \in Seq(Calls) /\ ApMade'
        /\ op' \in [cmd : Range(FirstCommand) \cup {"none"}, call : Calls \cup {None}]
    BY <1>r, <2>0, ApReturnType
  <2> QED BY <2>0, <2>1 DEF ApTypeInv, ApTypeOK, SocketsOK, socketVars
<1> QED BY <1>1, <1>2, <1>3, <1>4, <1>5

\* Steps of the callers and of the owner of the runtime.
LEMMA ApCallerTypeStep ==
  ASSUME ApTypeInv, Clients \/ CallFails \/ OwnerDrops
  PROVE  ApTypeInv'
<1> USE DEF startVars, eventVars, loopVars, hostapdVars
<1>0. UNCHANGED <<socketVars, startVars, eventVars, loopVars, hostapdVars>>
  BY DEF Clients, CallFails, OwnerDrops
<1>a. answer \in [Calls -> ApTold] /\ queue \in Seq(Calls)
      /\ request \in [Calls -> Requests \cup {NoRequest}]
  BY DEF ApTypeInv, ApTypeOK, ApTold
<1>t. \A res \in {"Ok", "NotRunning", "Abandoned"} : Ans(res, None) \in ApTold
  BY DEF Ans, ApTold
<1>n. \A q \in Requests : q # NoRequest
  BY ChannelAssumption DEF NoRequest
<1>1. CASE Clients
  <2>1. CASE \E c \in Calls, q \in Requests : Send(c, q) \/ SendFails(c, q)
    <3>1. PICK c \in Calls, q \in Requests : Send(c, q) \/ SendFails(c, q)
      BY <2>1
    <3>2. /\ request' = [request EXCEPT ![c] = q] /\ UNCHANGED runner
          /\ request[c] = NoRequest
      BY <3>1 DEF Send, SendFails
    <3>3. answer' \in [Calls -> ApTold]
      BY <1>a, <1>t, <3>1 DEF Send, SendFails
    <3>4. queue' \in Seq(Calls) /\ Range(queue') \subseteq Range(queue) \cup {c}
      <4>1. CASE queue' = Append(queue, c)
        BY <1>a, <4>1, RangeAppend
      <4>2. CASE UNCHANGED queue
        BY <1>a, <4>2
      <4> QED BY <3>1, <4>1, <4>2 DEF Send, SendFails
    <3>5. request' \in [Calls -> Requests \cup {NoRequest}] /\ request'[c] # NoRequest
      BY <1>a, <1>n, <3>2
    <3>6. \A d \in Calls : d # c => request'[d] = request[d]
      BY <1>a, <3>2
    <3>7. Held \subseteq Calls /\ Held' \subseteq Held \cup {c}
      BY <1>0, <3>4, RangeSeq DEF Held, ApTypeInv, ApTypeOK
    <3>8. ApMade'
      BY <1>0, <3>2, <3>5, <3>6, <3>7 DEF ApTypeInv, ApMade
    <3> QED BY <1>0, <3>2, <3>3, <3>4, <3>5, <3>8
        DEF ApTypeInv, ApTypeOK, SocketsOK, socketVars, ApTold
  <2>2. CASE \E c \in Calls : Abandon(c)
    <3>1. /\ answer' \in [Calls -> ApTold] /\ UNCHANGED <<request, queue, runner>>
      BY <1>a, <1>t, <2>2 DEF Abandon
    <3>2. ApMade'
      BY <1>0, <3>1 DEF ApTypeInv, ApMade, Held
    <3> QED BY <1>0, <3>1, <3>2
        DEF ApTypeInv, ApTypeOK, SocketsOK, socketVars, ApTold
  <2> QED BY <1>1, <2>1, <2>2 DEF Clients
<1>2. CASE CallFails
  <2>1. /\ answer' \in [Calls -> ApTold] /\ UNCHANGED <<request, queue, runner>>
    BY <1>a, <1>t, <1>2 DEF CallFails, RecvFails
  <2>2. ApMade'
    BY <1>0, <2>1 DEF ApTypeInv, ApMade, Held
  <2> QED BY <1>0, <2>1, <2>2
      DEF ApTypeInv, ApTypeOK, SocketsOK, socketVars, ApTold
<1>3. CASE OwnerDrops
  <2>1. runner' = "dropped" /\ queue' = <<>> /\ UNCHANGED <<request, answer>>
    BY <1>3 DEF OwnerDrops, DropRuntime
  <2>2. ApMade'
    BY <1>0, <2>1 DEF ApTypeInv, ApMade, Held, Range
  <2> QED BY <1>0, <2>1, <2>2 DEF ApTypeInv, ApTypeOK, SocketsOK, socketVars
<1> QED BY <1>1, <1>2, <1>3

\* The replies hostapd may send are replies to commands it was sent.
LEMMA AcceptedTexts == \A cmd \in ApCommands : Accepted[cmd] \subseteq AnyText
BY DEF ApCommands, Range, FirstCommand, Accepted, AnyText

\* Steps of hostapd.
LEMMA HostapdTypeStep ==
  ASSUME ApTypeInv, Hostapd
  PROVE  ApTypeInv'
<1> USE DEF startVars, eventVars, loopVars, hostapdVars
<1>0. UNCHANGED <<channelVars, startVars, loopVars>>
  BY DEF Hostapd
<1>m. ApMade'
  BY <1>0 DEF ApTypeInv, ApMade, Held, channelVars
<1>1. CASE HostapdRegisters
  <2>1. /\ evWire # <<>> /\ evWire' = Tail(evWire)
        /\ UNCHANGED <<socketVars, evLapsed, swallowed, delivered, up, stations, acted,
                       reported>>
    BY <1>1 DEF HostapdRegisters
  <2>2. evWire' \in Seq(EvDatagram) /\ Head(evWire).cmd \in HandshakeCommands
    <3>1. evWire' \in Seq(EvDatagram) /\ Head(evWire) \in EvDatagram
      BY <2>1, TailElements DEF ApTypeInv, SocketsOK
    <3> QED BY <3>1 DEF EvDatagram
  <2>3. done' \subseteq HandshakeCommands /\ attached' \in BOOLEAN
    BY <1>1, <2>2
    DEF HostapdRegisters, ApTypeInv, ApTypeOK, SocketsOK, HandshakeCommands
  <2>4. /\ evIn' \in Seq(EvArrival)
        /\ \A i \in DOMAIN evIn' : evIn'[i].cmd = "event" => evIn'[i].val \in reported
    <3>1. CASE UNCHANGED evIn
      BY <3>1 DEF ApTypeInv, SocketsOK
    <3>2. CASE \E text \in {"OK", "FAIL"} :
                 evIn' = Append(evIn, [cmd |-> Head(evWire).cmd, call |-> None,
                                       text |-> text, val |-> None])
      <4>1. PICK a \in EvReply : evIn' = Append(evIn, a)
        BY <2>2, <3>2 DEF EvReply
      <4>2. a \in EvArrival /\ a.cmd # "event"
        BY DEF EvArrival, EvReply, HandshakeCommands
      <4> QED BY <4>1, <4>2, AppendElements DEF ApTypeInv, SocketsOK
    <3> QED BY <1>1, <3>1, <3>2 DEF HostapdRegisters
  <2> QED BY <1>0, <1>m, <2>1, <2>2, <2>3, <2>4
      DEF ApTypeInv, ApTypeOK, SocketsOK, channelVars, socketVars, HandshakeCommands
<1>2. CASE HostapdAnswers
  <2>1. /\ wire # <<>> /\ wire' = Tail(wire)
        /\ UNCHANGED <<lapsed, eventVars, hostapdVars>>
    BY <1>2 DEF HostapdAnswers
  <2>2. /\ wire' \in Seq(ApDatagram)
        /\ Head(wire).cmd \in ApCommands /\ Head(wire).call \in Calls
    <3>1. wire' \in Seq(ApDatagram) /\ Head(wire) \in ApDatagram
      BY <2>1, TailElements DEF ApTypeInv, SocketsOK
    <3> QED BY <3>1 DEF ApDatagram
  <2>3. replies' \in Seq(ApReply)
    <3>1. CASE UNCHANGED replies
      BY <3>1 DEF ApTypeInv, SocketsOK
    <3>2. CASE \E text \in Accepted[Head(wire).cmd] \cup {"FAIL", "garbled"} :
                 replies' = Append(replies, [cmd |-> Head(wire).cmd, call |-> Head(wire).call,
                                             text |-> text, val |-> None])
      <4>1. PICK a \in ApReply : replies' = Append(replies, a)
        BY <2>2, <3>2, AcceptedTexts DEF ApReply
      <4> QED BY <4>1, AppendElements DEF ApTypeInv, SocketsOK
    <3> QED BY <1>2, <3>1, <3>2 DEF HostapdAnswers
  <2> QED BY <1>0, <1>m, <2>1, <2>2, <2>3 DEF ApTypeInv, ApTypeOK, SocketsOK, channelVars
<1>3. CASE StationMoves
  <2>1. PICK m \in Macs :
          /\ stations' = IF m \in stations THEN stations \ {m} ELSE stations \cup {m}
          /\ \/ /\ \E text \in {"Connected", "Disconnected"} :
                     evIn' = Append(evIn, ApEvent(text, [mac |-> m, nr |-> acted]))
                /\ reported' = reported \cup {[mac |-> m, nr |-> acted]}
             \/ UNCHANGED <<evIn, reported>>
    BY <1>3 DEF StationMoves
  <2>2. /\ acted' = acted + 1
        /\ UNCHANGED <<socketVars, evWire, evLapsed, swallowed, delivered, up, attached, done>>
    BY <1>3 DEF StationMoves
  <2>e. [mac |-> m, nr |-> acted] \in [mac : Macs, nr : Nat]
    BY DEF ApTypeInv, SocketsOK
  <2>3. /\ evIn' \in Seq(EvArrival)
        /\ \A i \in DOMAIN evIn' : evIn'[i].cmd = "event" => evIn'[i].val \in reported'
    <3>1. CASE UNCHANGED <<evIn, reported>>
      BY <2>1, <3>1 DEF ApTypeInv, SocketsOK
    <3>2. CASE /\ \E text \in {"Connected", "Disconnected"} :
                    evIn' = Append(evIn, ApEvent(text, [mac |-> m, nr |-> acted]))
               /\ reported' = reported \cup {[mac |-> m, nr |-> acted]}
      <4> DEFINE e == [mac |-> m, nr |-> acted]
      <4>e. e \in [mac : Macs, nr : Nat]
        BY <2>e
      <4> HIDE DEF e
      <4>1. PICK a \in StationEvent : evIn' = Append(evIn, a) /\ a.val = e
        BY <4>e, <3>2 DEF ApEvent, StationEvent, e
      <4>2. a \in EvArrival /\ reported \subseteq reported' /\ e \in reported'
        BY <3>2 DEF EvArrival, e
      <4> QED BY <4>1, <4>2, AppendElements DEF ApTypeInv, SocketsOK
    <3> QED BY <2>1, <3>1, <3>2
  <2>5. reported \subseteq reported' /\ reported' \subseteq [mac : Macs, nr : Nat]
    BY <2>1, <2>e DEF ApTypeInv, ApTypeOK
  <2>4. /\ stations' \subseteq Macs /\ acted' \in Nat
        /\ swallowed' \subseteq reported' /\ delivered' \subseteq reported'
    BY <2>1, <2>2, <2>5 DEF ApTypeInv, ApTypeOK, SocketsOK
  <2> QED BY <1>0, <1>m, <2>2, <2>3, <2>4, <2>5
      DEF ApTypeInv, ApTypeOK, SocketsOK, channelVars, socketVars
<1>4. CASE HostapdDies
  <2>1. /\ up' = FALSE /\ attached' = FALSE /\ stations' = {}
        /\ wire' = Unsent(Len(evWire) + Len(wire)) /\ evWire' = <<>>
        /\ UNCHANGED <<replies, lapsed, evIn, evLapsed, swallowed, delivered, acted, done,
                       reported>>
    BY <1>4 DEF HostapdDies
  <2>w. wire' \in Seq(ApDatagram)
    <3>1. wire \in Seq(ApDatagram)
      BY DEF ApTypeInv, SocketsOK
    <3>2. wire # <<>> => wire[Len(wire)] \in ApDatagram
      BY <3>1
    <3>3. wire # <<>> => <<wire[Len(wire)]>> \in Seq(ApDatagram)
      BY <3>2
    <3> QED BY <2>1, <3>3 DEF Unsent
  <2>2. wire' \in Seq(ApDatagram) /\ evWire' \in Seq(EvDatagram) /\ stations' \subseteq Macs
    BY <2>1, <2>w
  <2>3. up' \in BOOLEAN /\ attached' \in BOOLEAN
    BY <2>1
  <2>4. SocketsOK'
    BY <2>1, <2>2, <2>3 DEF ApTypeInv, SocketsOK
  <2> QED BY <1>0, <1>m, <2>1, <2>4 DEF ApTypeInv, ApTypeOK, channelVars
<1> QED BY <1>1, <1>2, <1>3, <1>4 DEF Hostapd

\* When run() starts nothing is held and every variable has its type.
LEMMA ApTypeInit == Init => ApTypeInv
<1> SUFFICES ASSUME Init PROVE ApTypeInv
  OBVIOUS
<1> USE DEF Init, ChannelInit, SocketInit
<1>1. op.cmd = "none" /\ op.call = None
  BY DEF InLoop
<1>2. answer \in [Calls -> ApTold] /\ request \in [Calls -> Requests \cup {NoRequest}]
  BY DEF NoAnswer, Ans, ApTold
<1>3. try \in TryType
  BY AccessPointAssumption DEF Fresh, TryType
<1>4. op \in [cmd : Range(FirstCommand) \cup {"none"}, call : Calls \cup {None}]
  BY DEF InLoop
<1>5. ApTypeOK
  BY <1>2, <1>3, <1>4 DEF ApTypeOK, TryType, ApTold
<1>6. lapsed \in BOOLEAN /\ evLapsed \in BOOLEAN /\ up \in BOOLEAN /\ attached \in BOOLEAN
  OBVIOUS
<1>7. SocketsOK
  BY <1>6 DEF SocketsOK
<1>8. Range(queue) = {} /\ Range(deferred) = {}
  BY DEF Range
<1>9. ApMade
  BY <1>1, <1>8, ChannelAssumption DEF ApMade, Held
<1> QED BY <1>5, <1>7, <1>9 DEF ApTypeInv

\* Every step keeps the type invariant.
LEMMA ApTypeStep == ApTypeInv /\ [Next]_vars => ApTypeInv'
<1> SUFFICES ASSUME ApTypeInv, [Next]_vars PROVE ApTypeInv'
  OBVIOUS
<1>1. CASE UNCHANGED vars
  BY <1>1 DEF vars, channelVars, socketVars, startVars, eventVars, loopVars, hostapdVars,
              ApTypeInv, ApTypeOK, SocketsOK, ApMade, Held
<1> QED BY <1>1, StartTypeStep, ApLoopTypeStep, ApCallerTypeStep, HostapdTypeStep
    DEF Next, Runner

\* In every reachable state of the access point its variables, sockets and
\* hostapd have their types and the calls it owns were made.
THEOREM ApTypeInvHolds == Spec => []ApTypeInv
BY ApTypeInit, ApTypeStep, PTL DEF Spec

\* Every variable of the access point's runtime stays within the values the
\* code gives it, for any calls, stations, retries and times.
THEOREM ApTypeCorrect == Spec => []ApTypeOK
<1>1. ApTypeInv => ApTypeOK
  BY DEF ApTypeInv
<1> QED BY <1>1, ApTypeInvHolds, PTL

-----------------------------------------------------------------------------
(* The time of the handshake. *)

Span == CommandTimeout + RetryDelay

\* The time one retry_command has taken, by the attempts it has made and what it
\* has waited to send: an attempt under way has taken none yet, one that failed is
\* owed its delay.
SpentInv ==
  LET all == try.waited + (Retries - try.left) * Span
  IN  /\ try.at = "send" => try.spent <= all
      /\ try.at = "await" => try.spent + Span <= all
      /\ try.at = "sleep" => try.spent + RetryDelay <= all

\* More attempts take more time, each the time of one.
LEMMA Attempts ==
  ASSUME NEW a \in Nat, NEW b \in Nat, NEW k \in Nat
  PROVE  /\ (a + 1) * k = a * k + k /\ 0 * k = 0 /\ a * k \in Nat
         /\ a <= b => a * k <= b * k
<1>1. (a + 1) * k = a * k + k /\ 0 * k = 0 /\ a * k \in Nat
  OBVIOUS
<1>2. ASSUME a <= b PROVE a * k <= b * k
  <2>1. PICK d \in Nat : b = a + d
    <3>1. b - a \in Nat /\ b = a + (b - a)
      BY <1>2
    <3> QED BY <3>1
  <2>2. (a + d) * k = a * k + d * k /\ d * k \in Nat /\ a * k \in Nat
    OBVIOUS
  <2> QED BY <2>1, <2>2
<1> QED BY <1>1, <1>2

\* Every step of retry_command takes the time it is given.
LEMMA SpentStep == ApTypeInv /\ SpentInv /\ [Next]_vars => SpentInv'
<1> SUFFICES ASSUME ApTypeInv, SpentInv, [Next]_vars PROVE SpentInv'
  OBVIOUS
<1> USE AccessPointAssumption
<1>0. /\ try \in TryType /\ Span \in Nat /\ Span = CommandTimeout + RetryDelay
      /\ Retries - try.left \in Nat /\ try.waited \in Nat /\ try.spent \in Nat
  BY DEF ApTypeInv, ApTypeOK, TryType, Span
<1> HIDE DEF Span
<1>1. CASE UNCHANGED try
  BY <1>1 DEF SpentInv
<1>2. CASE Attempt /\ try' = [try EXCEPT !.at = "await", !.left = @ - 1]
  <2>1. /\ try.at = "send" /\ try'.at = "await" /\ try'.spent = try.spent
        /\ try'.left = try.left - 1 /\ try'.waited = try.waited
    BY <1>0, <1>2 DEF Attempt, TryType
  <2>2. Retries - try'.left = (Retries - try.left) + 1
    BY <1>0, <2>1 DEF TryType
  <2>3. (Retries - try'.left) * Span = (Retries - try.left) * Span + Span
    BY <1>0, <2>2, Attempts
  <2>4. /\ try.spent <= try.waited + (Retries - try.left) * Span
        /\ (Retries - try.left) * Span \in Nat
    BY <1>0, <2>1, Attempts DEF SpentInv
  <2> QED BY <1>0, <2>1, <2>3, <2>4 DEF SpentInv, TryType
<1>3. CASE try' = Fresh
  BY <1>0, <1>3, Attempts DEF SpentInv, Fresh
<1>4. CASE AttemptEnds /\ try' # Fresh
  <2>1. PICK time \in 0..CommandTimeout :
          try.at = "await" /\ try' = Spend(time, "sleep")
    <3>1. PICK r \in Ev!Arrivals, late \in 0..(CommandTimeout - 1) :
            \/ try' = Fresh
            \/ try' = Spend(IF r = TimedOut THEN CommandTimeout ELSE late, "sleep")
      BY <1>4 DEF AttemptEnds
    <3>2. (IF r = TimedOut THEN CommandTimeout ELSE late) \in 0..CommandTimeout
      OBVIOUS
    <3>3. try.at = "await"
      BY <1>4 DEF AttemptEnds
    <3> QED BY <1>4, <3>1, <3>2, <3>3
  <2>2. /\ try'.at = "sleep" /\ try'.left = try.left /\ try'.spent = try.spent + time
        /\ try.spent \in Nat /\ try'.waited = try.waited
    BY <1>0, <2>1, Spending
  <2>3. /\ try.spent + Span <= try.waited + (Retries - try.left) * Span
        /\ (Retries - try.left) * Span \in Nat
    BY <1>0, <2>1, Attempts DEF SpentInv
  <2>4. try'.spent + RetryDelay <= try'.waited + (Retries - try'.left) * Span
    BY <1>0, <2>2, <2>3
  <2> QED BY <2>2, <2>4 DEF SpentInv
<1>5. CASE DelayEnds
  <2>1. /\ try.at = "sleep" /\ try'.at = "send" /\ try'.left = try.left
        /\ try'.spent = try.spent + RetryDelay /\ try'.waited = try.waited
    BY <1>0, <1>5, Spending DEF DelayEnds
  <2> QED BY <2>1 DEF SpentInv
<1>8. CASE AttemptWaits
  <2>1. /\ try.at = "send" /\ try'.at = "send" /\ try'.left = try.left
        /\ try'.spent = try.spent + 1 /\ try'.waited = try.waited + 1
    BY <1>0, <1>8 DEF AttemptWaits, TryType
  <2>2. (Retries - try.left) * Span \in Nat
    BY <1>0, Attempts
  <2> QED BY <1>0, <2>1, <2>2 DEF SpentInv
<1>6. Attempt => UNCHANGED try \/ try' = [try EXCEPT !.at = "await", !.left = @ - 1]
  BY DEF Attempt
<1>7. ~Attempt /\ ~AttemptWaits /\ ~AttemptEnds /\ ~DelayEnds => UNCHANGED try
  BY DEF Next, Runner, OpenEnds, OpenTakes, Resend, Ready, TakeShutdown, TakeRequest, Reply,
         OnEvent, SocketError, Clients, CallFails, OwnerDrops, Hostapd, vars, startVars
<1> QED BY <1>1, <1>2, <1>3, <1>4, <1>5, <1>6, <1>7, <1>8

\* An attempt of retry_command takes at most the command timeout and the delay,
\* whatever hostapd answers; all else is time spent in send(..).await, where a
\* hostapd that reads nothing keeps it without a bound.
THEOREM HandshakeTakes == Spec => []HandshakeBounded
<1> USE AccessPointAssumption
<1>1. Init => SpentInv
  <2> SUFFICES ASSUME Init PROVE SpentInv
    OBVIOUS
  <2>1. /\ try.at = "send" /\ try.left = Retries /\ try.spent = 0 /\ try.waited = 0
        /\ Span \in Nat
    BY DEF Init, Fresh, Span
  <2>2. Retries - try.left = 0
    BY <2>1
  <2> QED BY <2>1, <2>2, Attempts DEF SpentInv
<1>2. ApTypeInv /\ SpentInv => HandshakeBounded
  <2> SUFFICES ASSUME ApTypeInv, SpentInv PROVE HandshakeBounded
    OBVIOUS
  <2>1. try \in TryType /\ Span \in Nat
    BY DEF ApTypeInv, ApTypeOK, TryType, Span
  <2>2. /\ Retries - try.left \in Nat /\ try.spent \in Nat /\ try.waited \in Nat
        /\ try.at \in {"send", "await", "sleep"}
    BY <2>1 DEF TryType
  <2>3. (Retries - try.left) * Span \in Nat
    BY <2>1, <2>2, Attempts
  <2>4. try.spent <= try.waited + (Retries - try.left) * Span
    <3> HIDE DEF Span
    <3> QED BY <2>1, <2>2, <2>3 DEF SpentInv
  <2> QED BY <2>4 DEF HandshakeBounded, Span
<1> QED BY <1>1, <1>2, SpentStep, ApTypeInvHolds, PTL DEF Spec

-----------------------------------------------------------------------------
(* What the handshake takes for an acknowledgement. *)

NoneOf(cmd, s) == \A i \in DOMAIN s : s[i].cmd # cmd

\* While no attempt has timed out: before ATTACH nothing comes; the reply to an
\* attempt at it is the first thing that does, and the events follow an OK only;
\* past it no ATTACH and no reply to one is left.
InOrder ==
  /\ stage = "event" => evWire = <<>> /\ evIn = <<>> /\ ~attached /\ try.at = "send"
  /\ stage = "ATTACH" /\ try.at # "await" => evWire = <<>> /\ evIn = <<>> /\ ~attached
  /\ stage = "ATTACH" /\ try.at = "await" =>
       /\ Len(evWire) <= 1
       /\ evWire # <<>> \/ evIn = <<>> => ~attached
       /\ evWire # <<>> => evIn = <<>>
       /\ evIn # <<>> =>
            /\ evIn[1].text # "OK" => Len(evIn) = 1 /\ ~attached
            /\ \A i \in DOMAIN evIn : i # 1 => evIn[i].cmd = "event"
  /\ stage \notin {"event", "ATTACH"} => NoneOf("ATTACH", evWire) /\ NoneOf("ATTACH", evIn)

\* An OK in the event socket is hostapd's to a command it has carried out, and
\* before LOG_LEVEL is sent no reply is one to it.
AckInv ==
  /\ AckedIsDone
  /\ runner = "running" => stage = "resend"
  /\ \A i \in DOMAIN evIn : evIn[i].text = "OK" => evIn[i].cmd \in done
  /\ stage \in {"event", "ATTACH"} => NoneOf("LOG_LEVEL", evWire) /\ NoneOf("LOG_LEVEL", evIn)
  /\ ~evLapsed => InOrder

\* What is in the event socket is a reply of the handshake or an event.
LEMMA ArrivalKinds ==
  ASSUME NEW e \in EvArrival
  PROVE  /\ e.cmd \in HandshakeCommands \cup {"event"}
         /\ e.text = "OK" => e.cmd \in HandshakeCommands
BY DEF EvArrival, EvReply, StationEvent, HandshakeCommands

\* Steps that leave the handshake and its socket alone.
LEMMA QuietAck ==
  ASSUME AckInv, UNCHANGED <<stage, try.at, evWire, evIn, evLapsed, attached, done>>,
         runner' = "running" => stage = "resend"
  PROVE  AckInv'
BY DEF AckInv, AckedIsDone, InOrder, NoneOf

\* An attempt of retry_command.
LEMMA AttemptAck ==
  ASSUME ApTypeInv, AckInv, Attempt, UNCHANGED <<runner, deferred, op>>
  PROVE  AckInv'
<1>0. /\ stage \in HandshakeCommands /\ try.at = "send" /\ runner = "starting"
      /\ UNCHANGED <<stage, evIn, evLapsed, attached, done, reported>>
  BY DEF Attempt, Handshaking, HandshakeCommands, hostapdVars
<1>1. /\ evWire' = Append(evWire, [cmd |-> stage, call |-> None])
      /\ try' = [try EXCEPT !.at = "await", !.left = @ - 1]
  BY <1>0 DEF Attempt, Return, SocketResults
<1>2. try'.at = "await"
  BY <1>1 DEF ApTypeInv, ApTypeOK
<1>3. \A i \in DOMAIN evWire' : evWire'[i].cmd = stage \/ (i \in DOMAIN evWire /\ evWire'[i] = evWire[i])
  <2>1. PICK a \in EvDatagram : evWire' = Append(evWire, a) /\ a.cmd = stage
    BY <1>0, <1>1 DEF EvDatagram
  <2> QED BY <2>1, AppendElements DEF ApTypeInv, SocketsOK
<1>4. stage = "ATTACH" /\ evWire = <<>> => Len(evWire') <= 1 /\ evWire' # <<>>
  BY <1>1
<1> QED BY <1>0, <1>2, <1>3, <1>4 DEF AckInv, AckedIsDone, InOrder, NoneOf, HandshakeCommands

\* What an attempt reads: an OK is one of its own command, or of a repeated ATTACH.
LEMMA AttemptEndsAck ==
  ASSUME ApTypeInv, AckInv, AttemptEnds
  PROVE  AckInv'
<1>0. /\ stage \in HandshakeCommands /\ try.at = "await" /\ runner = "starting"
      /\ UNCHANGED <<evWire, attached, done, runner>>
  BY DEF AttemptEnds, Handshaking, HandshakeCommands, hostapdVars, channelVars
<1>1. PICK r \in Ev!Arrivals :
        /\ Ev!Await(r)
        /\ \/ Ev!Parse(stage, r) = "Ok" /\ stage' = After[stage] /\ try' = Fresh
           \/ Ev!Parse(stage, r) # "Ok" /\ UNCHANGED stage /\ try'.at = "sleep"
  <2>1. PICK r \in Ev!Arrivals, late \in 0..(CommandTimeout - 1) :
          /\ Ev!Await(r)
          /\ \/ Ev!Parse(stage, r) = "Ok" /\ stage' = After[stage] /\ try' = Fresh
             \/ /\ Ev!Parse(stage, r) # "Ok" /\ UNCHANGED stage
                /\ try' = Spend(IF r = TimedOut THEN CommandTimeout ELSE late, "sleep")
    BY DEF AttemptEnds
  <2>2. try \in TryType /\ late \in Nat /\ CommandTimeout \in Nat
    BY AccessPointAssumption DEF ApTypeInv, ApTypeOK, TryType
  <2> QED BY <2>1, <2>2, Spending
<1>2. After["ATTACH"] = "LOG_LEVEL" /\ After["LOG_LEVEL"] = "sync" /\ Fresh.at = "send"
  BY DEF After, Fresh
<1>3. Ev!Parse(stage, r) = "Ok" <=> r.text = "OK"
  BY <1>0 DEF Ev!Parse, Ev!Accepted, Ev!TimedOut, HandshakeCommands
<1>4. CASE r = Ev!TimedOut /\ evLapsed' = TRUE /\ UNCHANGED evIn
  <2>1. Ev!Parse(stage, r) # "Ok"
    BY <1>4 DEF Ev!Parse
  <2> QED BY <1>0, <1>1, <1>4, <2>1 DEF AckInv, AckedIsDone, NoneOf
<1>5. CASE evIn # <<>> /\ r = Head(evIn) /\ evIn' = Tail(evIn) /\ UNCHANGED evLapsed
  <2>1. /\ r \in EvArrival /\ 1 \in DOMAIN evIn /\ r = evIn[1] /\ evIn' \in Seq(EvArrival)
        /\ \A i \in DOMAIN evIn' : i + 1 \in DOMAIN evIn /\ evIn'[i] = evIn[i + 1] /\ i + 1 # 1
        /\ Len(evIn) = 1 => evIn' = <<>>
    BY <1>5, TailElements DEF ApTypeInv, SocketsOK
  <2>2. /\ \A i \in DOMAIN evIn' : evIn'[i].text = "OK" => evIn'[i].cmd \in done
        /\ \A cmd : NoneOf(cmd, evIn) => NoneOf(cmd, evIn')
    BY <2>1 DEF AckInv, NoneOf
  <2>3. CASE r.text # "OK"
    <3>1. UNCHANGED stage /\ try'.at = "sleep"
      BY <1>1, <1>3, <2>3
    <3>2. ~evLapsed => InOrder'
      BY <1>0, <1>5, <2>1, <2>2, <2>3, <3>1 DEF AckInv, InOrder, HandshakeCommands
    <3>3. AckedIsDone'
      BY <1>0, <1>5, <3>1 DEF AckInv, AckedIsDone
    <3> QED BY <1>0, <1>5, <2>2, <3>1, <3>2, <3>3 DEF AckInv, NoneOf
  <2>4. CASE r.text = "OK"
    <3>1. stage' = After[stage] /\ try'.at = "send"
      BY <1>1, <1>2, <1>3, <2>4
    <3>2. r.cmd \in done /\ r.cmd \in HandshakeCommands
      BY <2>1, <2>4, ArrivalKinds DEF AckInv
    <3>3. CASE stage = "ATTACH"
      <4>1. stage' = "LOG_LEVEL" /\ r.cmd = "ATTACH"
        BY <1>2, <2>1, <3>1, <3>2, <3>3 DEF AckInv, NoneOf, HandshakeCommands
      <4>2. ~evLapsed => evWire = <<>> /\ NoneOf("ATTACH", evIn')
        BY <1>0, <1>5, <2>1, <3>3 DEF AckInv, InOrder, NoneOf
      <4>3. ~evLapsed => InOrder'
        BY <1>0, <4>1, <4>2 DEF InOrder, NoneOf
      <4> QED BY <1>0, <1>5, <2>2, <3>2, <4>1, <4>3 DEF AckInv, AckedIsDone
    <3>4. CASE stage = "LOG_LEVEL"
      <4>1. stage' = "sync"
        BY <1>2, <3>1, <3>4
      <4>2. ~evLapsed => r.cmd = "LOG_LEVEL"
        BY <2>1, <3>2, <3>4 DEF AckInv, InOrder, NoneOf, HandshakeCommands
      <4>3. ~evLapsed => InOrder'
        BY <1>0, <2>2, <3>4, <4>1 DEF AckInv, InOrder, NoneOf
      <4>4. AckedIsDone'
        BY <1>0, <1>5, <3>2, <3>4, <4>1, <4>2 DEF AckInv, AckedIsDone
      <4> QED BY <1>0, <1>5, <2>2, <4>1, <4>3, <4>4 DEF AckInv
    <3> QED BY <1>0, <3>3, <3>4 DEF HandshakeCommands
  <2> QED BY <2>3, <2>4
<1> QED BY <1>1, <1>4, <1>5 DEF Ev!Await

\* What hostapd sends on the event socket: an OK only for what it has done, and
\* events only once it has accepted ATTACH.
LEMMA HostapdAck ==
  ASSUME ApTypeInv, AckInv, Hostapd
  PROVE  AckInv'
<1>0. UNCHANGED <<runner, stage, try>>
  BY DEF Hostapd, channelVars, startVars
<1>1. CASE HostapdRegisters
  <2> DEFINE w == Head(evWire)
  <2>1. /\ evWire # <<>> /\ evWire' = Tail(evWire) /\ UNCHANGED evLapsed
        /\ \/ \E text \in {"OK", "FAIL"} :
                /\ evIn' = Append(evIn, [cmd |-> w.cmd, call |-> None, text |-> text, val |-> None])
                /\ text = "OK" => /\ done' = done \cup {w.cmd}
                                  /\ attached' = (attached \/ w.cmd = "ATTACH")
                /\ text # "OK" => UNCHANGED <<done, attached>>
           \/ UNCHANGED <<done, attached, evIn>>
    BY <1>1 DEF HostapdRegisters
  <2>2. /\ w \in EvDatagram /\ 1 \in DOMAIN evWire /\ w = evWire[1] /\ evWire' \in Seq(EvDatagram)
        /\ \A i \in DOMAIN evWire' : i + 1 \in DOMAIN evWire /\ evWire'[i] = evWire[i + 1]
        /\ Len(evWire) <= 1 => evWire' = <<>>
    BY <2>1, TailElements DEF ApTypeInv, SocketsOK
  <2>3. w.cmd \in HandshakeCommands
    BY <2>2 DEF EvDatagram
  <2>4. \A cmd : NoneOf(cmd, evWire) => NoneOf(cmd, evWire') /\ w.cmd # cmd
    BY <2>2 DEF NoneOf
  <2> HIDE DEF w
  <2>5. CASE UNCHANGED <<done, attached, evIn>>
    <3>1. ~evLapsed => InOrder'
      BY <1>0, <2>1, <2>2, <2>4, <2>5 DEF AckInv, InOrder
    <3> QED BY <1>0, <2>1, <2>4, <2>5, <3>1 DEF AckInv, AckedIsDone
  <2>6. ASSUME NEW text \in {"OK", "FAIL"},
               evIn' = Append(evIn, [cmd |-> w.cmd, call |-> None, text |-> text, val |-> None]),
               text = "OK" => /\ done' = done \cup {w.cmd}
                              /\ attached' = (attached \/ w.cmd = "ATTACH"),
               text # "OK" => UNCHANGED <<done, attached>>
        PROVE  AckInv'
    <3>1. PICK a \in EvArrival : evIn' = Append(evIn, a) /\ a.cmd = w.cmd /\ a.text = text
      BY <2>3, <2>6 DEF EvArrival, EvReply
    <3>2. /\ \A i \in DOMAIN evIn' : \/ i \in DOMAIN evIn /\ evIn'[i] = evIn[i]
                                     \/ i = Len(evIn) + 1 /\ evIn'[i] = a
          /\ evIn = <<>> => Len(evIn') = 1 /\ evIn'[1] = a /\ DOMAIN evIn' = {1}
      BY <3>1, AppendElements DEF ApTypeInv, SocketsOK
    <3>3. done \subseteq done' /\ (text = "OK" => w.cmd \in done')
      BY <2>6
    <3>4. \A i \in DOMAIN evIn' : evIn'[i].text = "OK" => evIn'[i].cmd \in done'
      BY <3>1, <3>2, <3>3 DEF AckInv
    <3>5. \A cmd : NoneOf(cmd, evWire) /\ NoneOf(cmd, evIn) => NoneOf(cmd, evIn')
      BY <2>4, <3>1, <3>2 DEF NoneOf
    <3>6. AckedIsDone'
      BY <1>0, <2>1, <3>3 DEF AckInv, AckedIsDone
    <3>7. ~evLapsed => InOrder'
      <4> SUFFICES ASSUME ~evLapsed PROVE InOrder'
        OBVIOUS
      <4>1. InOrder
        BY DEF AckInv
      <4>2. CASE stage = "ATTACH"
        <5>1. try.at = "await" /\ evIn = <<>> /\ ~attached /\ evWire' = <<>>
          BY <2>1, <2>2, <4>1, <4>2 DEF InOrder
        <5>2. text # "OK" => ~attached'
          BY <2>6, <5>1
        <5> QED BY <1>0, <3>1, <3>2, <4>2, <5>1, <5>2 DEF InOrder
      <4>3. CASE stage # "ATTACH"
        BY <1>0, <2>1, <2>4, <3>5, <4>1, <4>3 DEF InOrder
      <4> QED BY <4>2, <4>3
    <3> QED BY <1>0, <2>1, <2>4, <3>4, <3>5, <3>6, <3>7 DEF AckInv
  <2> QED BY <2>1, <2>5, <2>6
<1>2. CASE HostapdAnswers
  BY <1>0, <1>2, QuietAck DEF HostapdAnswers, eventVars, hostapdVars, AckInv
<1>3. CASE StationMoves
  <2>0. UNCHANGED <<evWire, evLapsed, attached, done>>
    BY <1>3 DEF StationMoves
  <2>1. CASE ~attached
    <3>1. UNCHANGED evIn
      BY <1>3, <2>1 DEF StationMoves
    <3> QED BY <1>0, <2>0, <3>1, QuietAck DEF AckInv
  <2>2. CASE attached
    <3>0. PICK m \in Macs, text \in {"Connected", "Disconnected"} :
            evIn' = Append(evIn, ApEvent(text, [mac |-> m, nr |-> acted]))
      BY <1>3, <2>2 DEF StationMoves
    <3> DEFINE e == [mac |-> m, nr |-> acted]
    <3>1. evIn' = Append(evIn, ApEvent(text, e))
      BY <3>0
    <3>e. e \in [mac : Macs, nr : Nat]
      BY DEF ApTypeInv, SocketsOK
    <3> HIDE DEF e
    <3>2. ApEvent(text, e) \in EvArrival
      BY <3>e DEF ApEvent, EvArrival, StationEvent
    <3>3. /\ \A i \in DOMAIN evIn' : \/ i \in DOMAIN evIn /\ evIn'[i] = evIn[i]
                                     \/ evIn'[i].cmd = "event" /\ evIn'[i].text # "OK"
          /\ evIn # <<>> => 1 \in DOMAIN evIn /\ evIn'[1] = evIn[1]
          /\ evIn' # <<>>
      BY <3>1, <3>2, AppendElements DEF ApEvent, ApTypeInv, SocketsOK
    <3>4. \A cmd : cmd # "event" /\ NoneOf(cmd, evIn) => NoneOf(cmd, evIn')
      BY <3>3 DEF NoneOf
    <3>5. ~evLapsed => InOrder'
      BY <1>0, <2>0, <2>2, <3>3, <3>4 DEF AckInv, InOrder
    <3> QED BY <1>0, <2>0, <3>3, <3>4, <3>5 DEF AckInv, AckedIsDone
  <2> QED BY <2>1, <2>2
<1>4. CASE HostapdDies
  <2>1. attached' = FALSE /\ evWire' = <<>> /\ UNCHANGED <<evIn, evLapsed, done>>
    BY <1>4 DEF HostapdDies
  <2>2. \A cmd : NoneOf(cmd, evWire')
    BY <2>1 DEF NoneOf
  <2>3. ~evLapsed => InOrder'
    BY <1>0, <2>1, <2>2 DEF AckInv, InOrder
  <2> QED BY <1>0, <2>1, <2>2, <2>3 DEF AckInv, AckedIsDone
<1> QED BY <1>1, <1>2, <1>3, <1>4 DEF Hostapd

\* Every step keeps what the handshake relies on.
LEMMA AckStep == ApTypeInv /\ AckInv /\ [Next]_vars => AckInv'
<1> SUFFICES ASSUME ApTypeInv, AckInv, [Next]_vars PROVE AckInv'
  OBVIOUS
<1> USE DEF startVars, eventVars, hostapdVars
<1>r. \A result \in {"Ok", "Io", "AttachFailed", "StartupAborted", "PermissionDenied",
                     "TimeoutOpeningSocket"} : Return(result) => runner' # "running"
  BY DEF Return
<1>1. CASE OpenEnds
  <2>1. UNCHANGED <<try, evWire, evIn, evLapsed, attached, done>> /\ runner = "starting"
    BY <1>1 DEF OpenEnds, Opening
  <2>2. CASE UNCHANGED stage /\ runner' # "running"
    BY <2>1, <2>2, QuietAck
  <2>3. CASE /\ \/ stage = "event" /\ stage' = "ATTACH"
                \/ stage = "sync" /\ stage' = "resend"
             /\ UNCHANGED runner
    <3>1. ~evLapsed => InOrder'
      BY <2>1, <2>3 DEF AckInv, InOrder, NoneOf
    <3> QED BY <2>1, <2>3, <3>1 DEF AckInv, AckedIsDone, NoneOf
  <2>4. After["event"] = "ATTACH" /\ After["sync"] = "resend"
    BY DEF After
  <2> QED BY <1>1, <1>r, <2>2, <2>3, <2>4 DEF OpenEnds, Opening
<1>2. CASE Attempt
  <2>1. CASE UNCHANGED <<runner, deferred, op>>
    BY <1>2, <2>1, AttemptAck
  <2>2. CASE UNCHANGED <<evWire, try>> /\ runner' # "running"
    BY <1>2, <2>2, QuietAck DEF Attempt
  <2> QED BY <1>2, <1>r, <2>1, <2>2 DEF Attempt
<1>3. CASE DelayEnds
  <2>0. try \in TryType
    BY DEF ApTypeInv, ApTypeOK, TryType
  <2>1. /\ try.at = "sleep" /\ try'.at = "send"
        /\ UNCHANGED <<runner, stage, evWire, evIn, evLapsed, attached, done>>
    BY <1>3, <2>0, Spending, AccessPointAssumption DEF DelayEnds, channelVars
  <2>2. ~evLapsed => InOrder'
    BY <2>1 DEF AckInv, InOrder
  <2> QED BY <2>1, <2>2 DEF AckInv, AckedIsDone
<1>4. CASE OnEvent
  <2>1. /\ runner = "running" /\ evIn # <<>> /\ evIn' = Tail(evIn)
        /\ UNCHANGED <<runner, stage, try, evWire, evLapsed, attached, done>>
    BY <1>4 DEF OnEvent, Looping, channelVars
  <2>2. \A i \in DOMAIN evIn' : i + 1 \in DOMAIN evIn /\ evIn'[i] = evIn[i + 1]
    BY <2>1, TailElements DEF ApTypeInv, SocketsOK
  <2>3. \A cmd : NoneOf(cmd, evIn) => NoneOf(cmd, evIn')
    BY <2>2 DEF NoneOf
  <2>4. stage = "resend"
    BY <2>1 DEF AckInv
  <2>5. ~evLapsed => InOrder'
    BY <2>1, <2>3, <2>4 DEF AckInv, InOrder
  <2> QED BY <2>1, <2>2, <2>3, <2>5 DEF AckInv, AckedIsDone
<1>5. CASE OpenTakes \/ Resend \/ Ready
  BY <1>5, <1>r, QuietAck DEF OpenTakes, Opening, Resend, Ready
<1>8. CASE AttemptWaits
  <2>0. try \in TryType
    BY DEF ApTypeInv, ApTypeOK, TryType
  <2>1. /\ try'.at = try.at /\ runner = "starting"
        /\ UNCHANGED <<runner, stage, evWire, evIn, evLapsed, attached, done>>
    BY <1>8, <2>0 DEF AttemptWaits, Handshaking, channelVars, TryType
  <2> QED BY <2>1, QuietAck
<1>6. CASE TakeShutdown \/ TakeRequest \/ Reply \/ SocketError
  <2>1. /\ UNCHANGED <<stage, try, evWire, evIn, evLapsed, attached, done>>
        /\ UNCHANGED runner \/ runner' # "running"
    BY <1>6, <1>r DEF TakeShutdown, TakeRequest, Reply, SocketError
  <2> QED BY <2>1, QuietAck DEF AckInv
<1>7. CASE Clients \/ CallFails \/ OwnerDrops \/ UNCHANGED vars
  <2>1. UNCHANGED <<stage, try, evWire, evIn, evLapsed, attached, done>>
    BY <1>7 DEF Clients, CallFails, OwnerDrops, vars
  <2>2. UNCHANGED runner \/ runner' = "dropped"
    BY <1>7 DEF Clients, CallFails, OwnerDrops, vars, channelVars, Send, SendFails, Abandon,
                RecvFails, DropRuntime
  <2> QED BY <2>1, <2>2, QuietAck DEF AckInv
<1> QED BY <1>1, <1>2, <1>3, <1>4, <1>5, <1>6, <1>7, <1>8, AttemptEndsAck, HostapdAck
    DEF Next, Runner

\* EventSocket::new goes past ATTACH only when hostapd has accepted it, and past
\* LOG_LEVEL, unless an attempt timed out, only when it has accepted that: no
\* event and no other reply is ever taken for the acknowledgement.
THEOREM AcknowledgedIsDone == Spec => []AckedIsDone
<1>1. Init => AckInv
  <2> SUFFICES ASSUME Init PROVE AckInv
    OBVIOUS
  <2>1. /\ stage = "event" /\ evWire = <<>> /\ evIn = <<>> /\ attached = FALSE
        /\ try.at = "send" /\ runner = "starting"
    BY DEF Init, Fresh
  <2> QED BY <2>1 DEF AckInv, AckedIsDone, InOrder, NoneOf
<1>2. AckInv => AckedIsDone
  BY DEF AckInv
<1> QED BY <1>1, <1>2, AckStep, ApTypeInvHolds, PTL DEF Spec

-----------------------------------------------------------------------------
(* Events reach the listeners, in the order things happened. *)

IsOf(e, m) == e.cmd = "event" /\ e.val.mac = m

\* evIn[i] is the newest event about m in the event socket.
Newest(i, m) ==
  /\ i \in DOMAIN evIn /\ IsOf(evIn[i], m)
  /\ \A j \in DOMAIN evIn : j > i => ~IsOf(evIn[j], m)

\* The newest event about a station tells how it is; listeners know of none before
\* the loop; and what they or the socket know of came from a hostapd that goes on
\* reporting.
MirrorInv ==
  /\ EventsKept /\ StationsMirrored
  /\ Running /\ up => \A m \in Macs, i \in DOMAIN evIn :
       Newest(i, m) => (evIn[i].text = "Connected" <=> m \in stations)
  /\ runner = "starting" => \A m \in Macs : link[m] = "unknown"
  /\ Running /\ up /\ ~attached => /\ \A m \in Macs : link[m] = "unknown"
                                  /\ NoneOf("event", evIn)

\* With an event about m in the socket, one is the newest.
LEMMA QueuedNewest == ASSUME NEW m PROVE \A i : Newest(i, m) => Queued(m)
BY DEF Newest, Queued, IsOf

\* Steps that leave the events and what is known of them alone.
LEMMA QuietMirror ==
  ASSUME MirrorInv,
         UNCHANGED <<evIn, link, up, attached, stations, reported, swallowed, delivered>>,
         Running' => Running, runner' = "starting" => runner = "starting"
  PROVE  MirrorInv'
BY DEF MirrorInv, EventsKept, Unread, StationsMirrored, Queued, Newest, IsOf, NoneOf

\* What is unread stays so until it is the head that is taken, and what comes
\* behind is unread.
LEMMA UnreadTaken ==
  ASSUME ApTypeInv, evIn # <<>>, evIn' = Tail(evIn), NEW e, Unread(e)
  PROVE  Unread(e)' \/ (Head(evIn).cmd = "event" /\ Head(evIn).val = e)
<1>1. evIn \in Seq(EvArrival)
  BY DEF ApTypeInv, SocketsOK
<1>2. PICK i \in DOMAIN evIn : evIn[i].cmd = "event" /\ evIn[i].val = e
  BY DEF Unread
<1>3. CASE i = 1
  BY <1>1, <1>2, <1>3
<1>4. CASE i # 1
  <2>1. i - 1 \in DOMAIN evIn' /\ evIn'[i - 1] = evIn[i]
    BY <1>1, <1>4
  <2> QED BY <1>2, <2>1 DEF Unread
<1> QED BY <1>3, <1>4

LEMMA UnreadGiven ==
  ASSUME ApTypeInv, NEW a \in EvArrival, evIn' = Append(evIn, a)
  PROVE  /\ \A e : Unread(e) => Unread(e)'
         /\ a.cmd = "event" => Unread(a.val)'
<1>1. /\ \A i \in DOMAIN evIn : i \in DOMAIN evIn' /\ evIn'[i] = evIn[i]
      /\ Len(evIn) + 1 \in DOMAIN evIn' /\ evIn'[Len(evIn) + 1] = a
  <2>1. evIn \in Seq(EvArrival)
    BY DEF ApTypeInv, SocketsOK
  <2> QED BY <2>1
<1> QED BY <1>1 DEF Unread

\* Taking the head of the event socket: what is behind it is as it was.
LEMMA TakeEvent ==
  ASSUME ApTypeInv, evIn # <<>>, evIn' = Tail(evIn)
  PROVE  \A m \in Macs :
           /\ Queued(m) => Queued(m)' \/ IsOf(Head(evIn), m)
           /\ Queued(m)' => Queued(m)
           /\ \A i \in DOMAIN evIn' : Newest(i, m)' => Newest(i + 1, m) /\ evIn'[i] = evIn[i + 1]
           /\ IsOf(Head(evIn), m) /\ ~Queued(m)' => Newest(1, m) /\ Head(evIn) = evIn[1]
<1>1. /\ evIn \in Seq(EvArrival) /\ 1 \in DOMAIN evIn /\ Head(evIn) = evIn[1]
      /\ \A i \in DOMAIN evIn' : i \in Nat /\ i + 1 \in DOMAIN evIn /\ evIn'[i] = evIn[i + 1]
      /\ \A i \in DOMAIN evIn : i \in Nat /\ (i = 1 \/ (i > 1 /\ i - 1 \in DOMAIN evIn'
                                                    /\ evIn'[i - 1] = evIn[i]))
  <2>1. evIn \in Seq(EvArrival)
    BY DEF ApTypeInv, SocketsOK
  <2> QED BY <2>1
<1> TAKE m \in Macs
<1>2. ASSUME Queued(m), ~IsOf(Head(evIn), m) PROVE Queued(m)'
  <2>1. PICK i \in DOMAIN evIn : IsOf(evIn[i], m)
    BY <1>2 DEF Queued, IsOf
  <2>2. i - 1 \in DOMAIN evIn' /\ evIn'[i - 1] = evIn[i]
    BY <1>1, <1>2, <2>1
  <2> QED BY <2>1, <2>2 DEF Queued, IsOf
<1>3. Queued(m)' => Queued(m)
  BY <1>1 DEF Queued
<1>4. ASSUME NEW i \in DOMAIN evIn', Newest(i, m)'
      PROVE  Newest(i + 1, m) /\ evIn'[i] = evIn[i + 1]
  <2>1. i + 1 \in DOMAIN evIn /\ evIn'[i] = evIn[i + 1] /\ IsOf(evIn[i + 1], m) /\ i \in Nat
    BY <1>1, <1>4 DEF Newest
  <2>2. ASSUME NEW j \in DOMAIN evIn, j > i + 1 PROVE ~IsOf(evIn[j], m)
    <3>1. j - 1 \in DOMAIN evIn' /\ evIn'[j - 1] = evIn[j] /\ j - 1 > i
      BY <1>1, <2>1, <2>2
    <3> QED BY <1>4, <3>1 DEF Newest
  <2> QED BY <2>1, <2>2 DEF Newest
<1>5. IsOf(Head(evIn), m) /\ ~Queued(m)' => Newest(1, m)
  <2> SUFFICES ASSUME IsOf(Head(evIn), m), ~Queued(m)', NEW j \in DOMAIN evIn, j > 1
               PROVE  ~IsOf(evIn[j], m)
    BY <1>1 DEF Newest
  <2>1. j - 1 \in DOMAIN evIn' /\ evIn'[j - 1] = evIn[j]
    BY <1>1
  <2> QED BY <2>1 DEF Queued, IsOf
<1> QED BY <1>1, <1>2, <1>3, <1>4, <1>5

\* What comes behind: a reply changes nothing of it, an event is the newest of its
\* station.
LEMMA GiveEvent ==
  ASSUME ApTypeInv, NEW e \in EvArrival, evIn' = Append(evIn, e)
  PROVE  \A m \in Macs :
           /\ Queued(m)' <=> Queued(m) \/ IsOf(e, m)
           /\ \A i \in DOMAIN evIn' : Newest(i, m)' =>
                IF IsOf(e, m) THEN evIn'[i] = e ELSE Newest(i, m) /\ evIn'[i] = evIn[i]
<1>1. /\ evIn \in Seq(EvArrival) /\ Len(evIn) \in Nat /\ DOMAIN evIn = 1..Len(evIn)
      /\ DOMAIN evIn' = 1..(Len(evIn) + 1) /\ evIn'[Len(evIn) + 1] = e
      /\ \A i \in DOMAIN evIn : evIn'[i] = evIn[i] /\ i \in DOMAIN evIn' /\ Len(evIn) + 1 > i
      /\ \A i \in DOMAIN evIn' : i \in DOMAIN evIn \/ i = Len(evIn) + 1
      /\ Len(evIn) + 1 \in DOMAIN evIn'
  <2>1. evIn \in Seq(EvArrival)
    BY DEF ApTypeInv, SocketsOK
  <2> QED BY <2>1
<1> TAKE m \in Macs
<1>2. Queued(m)' <=> Queued(m) \/ IsOf(e, m)
  BY <1>1 DEF Queued, IsOf
<1>3. ASSUME NEW i \in DOMAIN evIn', Newest(i, m)'
      PROVE  IF IsOf(e, m) THEN evIn'[i] = e ELSE Newest(i, m) /\ evIn'[i] = evIn[i]
  <2>1. CASE i = Len(evIn) + 1
    BY <1>1, <1>3, <2>1 DEF Newest
  <2>2. CASE i \in DOMAIN evIn
    BY <1>1, <1>3, <2>2 DEF Newest
  <2> QED BY <1>1, <2>1, <2>2
<1> QED BY <1>2, <1>3

\* run() has returned, or its future is gone: nothing is claimed any more.
LEMMA OverMirror == ASSUME MirrorInv, ~Running' PROVE MirrorInv'
BY DEF MirrorInv, EventsKept, StationsMirrored, Running

LEMMA ReturnEnds == ASSUME NEW result \in SocketResults, Return(result) PROVE ~Running'
BY DEF Return, Running, SocketResults

\* What the event socket holds is a reply or an event about a station.
LEMMA EventKinds ==
  ASSUME NEW e \in EvArrival
  PROVE  /\ e.cmd = "event" => e.val.mac \in Macs /\ e.text \in {"Connected", "Disconnected"}
         /\ e \in EvReply => e.cmd # "event"
BY DEF EvArrival, EvReply, StationEvent, HandshakeCommands

\* The loop broadcasts the head of the event socket.
LEMMA OnEventMirror == ASSUME ApTypeInv, MirrorInv, OnEvent PROVE MirrorInv'
<1> DEFINE h == Head(evIn)
<1>0. /\ evIn # <<>> /\ evIn' = Tail(evIn) /\ runner = "running" /\ h \in EvArrival
      /\ link' = IF h.cmd = "event" THEN [link EXCEPT ![h.val.mac] = h.text] ELSE link
      /\ delivered' = IF h.cmd = "event" THEN delivered \cup {h.val} ELSE delivered
      /\ UNCHANGED <<runner, swallowed, up, attached, stations, reported>>
  <2>1. evIn \in Seq(EvArrival) /\ evIn # <<>>
    BY DEF ApTypeInv, SocketsOK, OnEvent
  <2>2. h \in EvArrival
    BY <2>1, TailElements
  <2> QED BY <2>1, <2>2 DEF OnEvent, Looping, channelVars, hostapdVars
<1>1. link \in [Macs -> {"unknown", "Connected", "Disconnected"}]
  BY DEF ApTypeInv, ApTypeOK
<1>2. /\ \A m \in Macs : IsOf(h, m) => link'[m] = h.text /\ h.text # "unknown"
      /\ \A m \in Macs : ~IsOf(h, m) => link'[m] = link[m]
  <2> HIDE DEF h
  <2> QED BY <1>0, <1>1, EventKinds DEF IsOf
<1>3. \A m \in Macs : /\ Queued(m) => Queued(m)' \/ IsOf(h, m)
                      /\ Queued(m)' => Queued(m)
                      /\ IsOf(h, m) /\ ~Queued(m)' => Newest(1, m) /\ h = evIn[1]
  BY <1>0, TakeEvent
<1>4. \A m \in Macs, i \in DOMAIN evIn' : Newest(i, m)' =>
        Newest(i + 1, m) /\ i + 1 \in DOMAIN evIn /\ evIn'[i] = evIn[i + 1]
  BY <1>0, TakeEvent DEF Newest
<1>u. \A e : Unread(e) => Unread(e)' \/ (h.cmd = "event" /\ h.val = e)
  BY <1>0, UnreadTaken
<1> HIDE DEF h
<1>5. EventsKept'
  BY <1>0, <1>u DEF MirrorInv, EventsKept, Running
<1>6. StationsMirrored'
  <2> SUFFICES ASSUME up, NEW m \in Macs, link'[m] # "unknown", ~Queued(m)'
               PROVE  link'[m] = "Connected" <=> m \in stations
    BY <1>0 DEF StationsMirrored, Running
  <2>1. CASE IsOf(h, m)
    <3>1. Newest(1, m) /\ h = evIn[1] /\ link'[m] = h.text
      BY <1>2, <1>3, <2>1
    <3>2. 1 \in DOMAIN evIn
      BY <3>1 DEF Newest
    <3> QED BY <1>0, <3>1, <3>2 DEF MirrorInv, Running
  <2>2. CASE ~IsOf(h, m)
    BY <1>0, <1>2, <1>3, <2>2 DEF MirrorInv, StationsMirrored, Running
  <2> QED BY <2>1, <2>2
<1>7. Running' /\ up' => \A m \in Macs, i \in DOMAIN evIn' :
        Newest(i, m)' => (evIn'[i].text = "Connected" <=> m \in stations')
  BY <1>0, <1>4 DEF MirrorInv, Running
<1>8. up /\ ~attached =>
        /\ \A m \in Macs : link'[m] = "unknown" /\ ~IsOf(h, m)
        /\ NoneOf("event", evIn)'
  <2> SUFFICES ASSUME up, ~attached
               PROVE  /\ \A m \in Macs : link'[m] = "unknown" /\ ~IsOf(h, m)
                      /\ NoneOf("event", evIn)'
    OBVIOUS
  <2>1. NoneOf("event", evIn) /\ \A m \in Macs : link[m] = "unknown"
    BY <1>0 DEF MirrorInv, Running
  <2>2. h.cmd # "event" /\ NoneOf("event", evIn)'
    BY <1>0, <2>1, TailElements DEF ApTypeInv, SocketsOK, NoneOf, h
  <2> QED BY <1>2, <2>1, <2>2 DEF IsOf
<1> QED BY <1>0, <1>5, <1>6, <1>7, <1>8 DEF MirrorInv, Running

\* An attempt of the handshake takes it, and no listener hears of it.
LEMMA AttemptMirror == ASSUME ApTypeInv, MirrorInv, AttemptEnds PROVE MirrorInv'
<1>0. /\ runner = "starting"
      /\ UNCHANGED <<runner, link, up, attached, stations, reported, delivered>>
  BY DEF AttemptEnds, Handshaking, channelVars, loopVars, hostapdVars
<1>1. PICK r \in Ev!Arrivals :
        /\ Ev!Await(r)
        /\ swallowed' = IF r.cmd = "event" THEN swallowed \cup {r.val} ELSE swallowed
  BY DEF AttemptEnds
<1>2. CASE UNCHANGED evIn /\ r = Ev!TimedOut
  <2>1. UNCHANGED swallowed
    BY <1>1, <1>2 DEF Ev!TimedOut
  <2> QED BY <1>0, <1>2, <2>1, QuietMirror DEF Running
<1>3. CASE evIn # <<>> /\ r = Head(evIn) /\ evIn' = Tail(evIn)
  <2>1. \A m \in Macs : /\ Queued(m) => Queued(m)' \/ IsOf(r, m)
                        /\ Queued(m)' => Queued(m)
    BY <1>3, TakeEvent
  <2>2. \A m \in Macs, i \in DOMAIN evIn' : Newest(i, m)' =>
          Newest(i + 1, m) /\ i + 1 \in DOMAIN evIn /\ evIn'[i] = evIn[i + 1]
    BY <1>3, TakeEvent DEF Newest
  <2>3. EventsKept'
    <3>1. \A e : Unread(e) => Unread(e)' \/ (r.cmd = "event" /\ r.val = e)
      BY <1>3, UnreadTaken
    <3> QED BY <1>0, <1>1, <3>1 DEF MirrorInv, EventsKept, Running
  <2>4. StationsMirrored' /\ \A m \in Macs : link'[m] = "unknown"
    BY <1>0 DEF MirrorInv, StationsMirrored
  <2>5. Running' /\ up' => \A m \in Macs, i \in DOMAIN evIn' :
          Newest(i, m)' => (evIn'[i].text = "Connected" <=> m \in stations')
    BY <1>0, <2>2 DEF MirrorInv, Running
  <2>6. up /\ ~attached => NoneOf("event", evIn)'
    <3>1. up /\ ~attached => NoneOf("event", evIn)
      BY <1>0 DEF MirrorInv, Running
    <3> QED BY <1>3, <3>1, TailElements DEF ApTypeInv, SocketsOK, NoneOf
  <2> QED BY <1>0, <2>3, <2>4, <2>5, <2>6 DEF MirrorInv, Running
<1> QED BY <1>1, <1>2, <1>3 DEF Ev!Await

\* hostapd acts: it answers a command of the handshake, reports a station, exits.
LEMMA HostapdMirror == ASSUME ApTypeInv, MirrorInv, Hostapd PROVE MirrorInv'
<1>0. /\ Running /\ Running' /\ UNCHANGED <<runner, link>>
      /\ link \in [Macs -> {"unknown", "Connected", "Disconnected"}]
  BY DEF Hostapd, Running, channelVars, loopVars, ApTypeInv, ApTypeOK
<1>1. CASE HostapdRegisters
  <2>0. UNCHANGED <<swallowed, delivered, up, stations, reported>> /\ attached \in BOOLEAN
    BY <1>1 DEF HostapdRegisters, ApTypeInv, SocketsOK
  <2>1. CASE UNCHANGED <<evIn, attached>>
    BY <1>0, <2>0, <2>1, QuietMirror
  <2>2. CASE ~UNCHANGED <<evIn, attached>>
    <3>1. PICK e \in EvReply : evIn' = Append(evIn, e) /\ (attached => attached')
      <4>1. evWire \in Seq(EvDatagram) /\ evWire # <<>>
        BY <1>1 DEF HostapdRegisters, ApTypeInv, SocketsOK
      <4>2. Head(evWire).cmd \in HandshakeCommands
        <5>1. Head(evWire) \in EvDatagram
          BY <4>1, TailElements
        <5> QED BY <5>1 DEF EvDatagram
      <4>3. \A text \in {"OK", "FAIL"} :
              [cmd |-> Head(evWire).cmd, call |-> None, text |-> text, val |-> None] \in EvReply
        BY <4>2 DEF EvReply
      <4> QED BY <1>1, <2>0, <2>2, <4>3 DEF HostapdRegisters
    <3>2. e \in EvArrival /\ e.cmd # "event" /\ \A m : ~IsOf(e, m)
      BY EventKinds DEF EvArrival, IsOf
    <3>3. \A m \in Macs : Queued(m)' <=> Queued(m)
      BY <3>1, <3>2, GiveEvent
    <3>4. \A m \in Macs, i \in DOMAIN evIn' :
            Newest(i, m)' => Newest(i, m) /\ i \in DOMAIN evIn /\ evIn'[i] = evIn[i]
      BY <3>1, <3>2, GiveEvent DEF Newest
    <3>5. EventsKept' /\ StationsMirrored'
      <4>1. \A e1 : Unread(e1) => Unread(e1)'
        BY <3>1, <3>2, UnreadGiven
      <4> QED BY <1>0, <2>0, <3>3, <4>1 DEF MirrorInv, EventsKept, StationsMirrored
    <3>6. up' => \A m \in Macs, i \in DOMAIN evIn' :
            Newest(i, m)' => (evIn'[i].text = "Connected" <=> m \in stations')
      BY <1>0, <2>0, <3>4 DEF MirrorInv
    <3>7. NoneOf("event", evIn) => NoneOf("event", evIn)'
      BY <3>1, <3>2, AppendElements DEF ApTypeInv, SocketsOK, NoneOf
    <3> QED BY <1>0, <2>0, <3>1, <3>5, <3>6, <3>7 DEF MirrorInv
  <2> QED BY <2>1, <2>2
<1>2. CASE HostapdAnswers
  BY <1>0, <1>2, QuietMirror DEF HostapdAnswers, eventVars, hostapdVars
<1>3. CASE StationMoves
  <2>1. /\ up /\ UNCHANGED <<swallowed, delivered, up, attached>>
        /\ \E m \in Macs :
             LET text == IF m \in stations THEN "Disconnected" ELSE "Connected"
             IN  /\ stations' = IF m \in stations THEN stations \ {m} ELSE stations \cup {m}
                 /\ \/ /\ attached
                       /\ evIn' = Append(evIn, ApEvent(text, [mac |-> m, nr |-> acted]))
                       /\ reported' = reported \cup {[mac |-> m, nr |-> acted]}
                    \/ ~attached /\ UNCHANGED <<evIn, reported>>
    BY <1>3 DEF StationMoves
  <2>2. PICK m \in Macs, text \in {"Connected", "Disconnected"} :
          /\ text = "Connected" <=> m \notin stations
          /\ stations' = IF m \in stations THEN stations \ {m} ELSE stations \cup {m}
          /\ attached => /\ evIn' = Append(evIn, ApEvent(text, [mac |-> m, nr |-> acted]))
                         /\ reported' = reported \cup {[mac |-> m, nr |-> acted]}
          /\ ~attached => UNCHANGED <<evIn, reported>>
    BY <2>1
  <2>3. /\ m \in stations' <=> m \notin stations
        /\ \A n \in Macs : n # m => (n \in stations' <=> n \in stations)
    BY <2>2
  <2>4. CASE attached
    <3>v. PICK v \in [mac : Macs, nr : Nat] : v = [mac |-> m, nr |-> acted]
      BY DEF ApTypeInv, SocketsOK
    <3>w. v.mac = m
      BY <3>v
    <3>e. PICK e \in EvArrival : e = ApEvent(text, v)
      BY DEF ApEvent, EvArrival, StationEvent
    <3>1. /\ e.text = text /\ e.cmd = "event" /\ e.val = v
          /\ \A n \in Macs : IsOf(e, n) <=> n = m
      BY <3>e, <3>w DEF ApEvent, IsOf
    <3>2. evIn' = Append(evIn, e) /\ reported' = reported \cup {v}
      BY <2>2, <2>4, <3>v, <3>e
    <3>3. \A n \in Macs : Queued(n)' <=> Queued(n) \/ n = m
      BY <3>1, <3>2, GiveEvent
    <3>4. \A n \in Macs, i \in DOMAIN evIn' : Newest(i, n)' =>
            IF n = m THEN evIn'[i] = e
            ELSE Newest(i, n) /\ i \in DOMAIN evIn /\ evIn'[i] = evIn[i]
      BY <3>1, <3>2, GiveEvent DEF Newest
    <3>5. EventsKept'
      <4>1. Unread(v)' /\ \A e1 : Unread(e1) => Unread(e1)'
        BY <3>1, <3>2, UnreadGiven
      <4> QED BY <1>0, <2>1, <3>2, <4>1 DEF MirrorInv, EventsKept
    <3>6. StationsMirrored'
      BY <1>0, <2>1, <2>3, <3>3 DEF MirrorInv, StationsMirrored
    <3>7. \A n \in Macs, i \in DOMAIN evIn' :
            Newest(i, n)' => (evIn'[i].text = "Connected" <=> n \in stations')
      BY <1>0, <2>1, <2>2, <2>3, <3>1, <3>4 DEF MirrorInv
    <3> QED BY <1>0, <2>1, <2>4, <3>5, <3>6, <3>7 DEF MirrorInv
  <2>5. CASE ~attached
    <3>1. /\ \A n \in Macs : link[n] = "unknown"
          /\ \A n, i : ~Newest(i, n)
      BY <1>0, <2>1, <2>5 DEF MirrorInv, NoneOf, Newest, IsOf
    <3>2. UNCHANGED <<evIn, reported>>
      BY <2>2, <2>5
    <3>3. \A n, i : ~Newest(i, n)'
      BY <3>1, <3>2 DEF Newest, IsOf
    <3>4. EventsKept' /\ StationsMirrored'
      BY <1>0, <2>1, <3>1, <3>2 DEF MirrorInv, EventsKept, Unread, StationsMirrored, Queued
    <3>5. NoneOf("event", evIn)'
      BY <1>0, <2>1, <2>5, <3>2 DEF MirrorInv, NoneOf
    <3> QED BY <1>0, <3>1, <3>3, <3>4, <3>5 DEF MirrorInv
  <2> QED BY <2>4, <2>5
<1>4. CASE HostapdDies
  <2>1. ~up' /\ UNCHANGED <<evIn, swallowed, delivered, reported>>
    BY <1>4 DEF HostapdDies
  <2> QED BY <1>0, <2>1 DEF MirrorInv, EventsKept, Unread, StationsMirrored, Queued
<1> QED BY <1>1, <1>2, <1>3, <1>4 DEF Hostapd

LEMMA MirrorStep == ApTypeInv /\ MirrorInv /\ [Next]_vars => MirrorInv'
<1> SUFFICES ASSUME ApTypeInv, MirrorInv, [Next]_vars PROVE MirrorInv'
  OBVIOUS
<1> USE DEF startVars, eventVars, loopVars, hostapdVars, channelVars, socketVars
<1> DEFINE quiet == UNCHANGED <<evIn, link, up, attached, stations, reported, swallowed,
                                delivered>>
<1>r. {"PermissionDenied", "TimeoutOpeningSocket", "StartupAborted", "Io", "AttachFailed", "Ok"}
        \subseteq SocketResults
  BY DEF SocketResults
<1>q. ASSUME quiet, UNCHANGED runner PROVE MirrorInv'
  BY <1>q, QuietMirror DEF Running
<1>1. CASE OpenEnds \/ OpenTakes \/ Attempt \/ SocketError \/ TakeShutdown \/ TakeRequest
  <2>1. quiet
    BY <1>1 DEF OpenEnds, OpenTakes, Attempt, SocketError, TakeShutdown, TakeRequest
  <2>2. UNCHANGED runner \/ \E result \in SocketResults : Return(result)
    BY <1>1, <1>r DEF OpenEnds, OpenTakes, Attempt, SocketError, TakeShutdown, TakeRequest
  <2> QED BY <1>q, <2>1, <2>2, ReturnEnds, OverMirror
<1>2. CASE AttemptEnds
  BY <1>2, AttemptMirror
<1>3. CASE Ready
  BY <1>3, QuietMirror DEF Ready, Running
<1>4. CASE OnEvent
  BY <1>4, OnEventMirror
<1>5. CASE DelayEnds \/ AttemptWaits \/ Resend \/ Reply
  BY <1>5, <1>q DEF DelayEnds, AttemptWaits, Resend, Reply
<1>6. CASE Clients \/ CallFails
  <2>1. quiet
    BY <1>6 DEF Clients, CallFails
  <2>2. UNCHANGED runner
    BY <1>6 DEF Clients, CallFails, Send, SendFails, Abandon, RecvFails
  <2> QED BY <1>q, <2>1, <2>2
<1>7. CASE OwnerDrops
  BY <1>7, OverMirror DEF OwnerDrops, DropRuntime, Running
<1>8. CASE Hostapd
  BY <1>8, HostapdMirror
<1>9. CASE UNCHANGED vars
  BY <1>9, <1>q DEF vars
<1> QED BY <1>1, <1>2, <1>3, <1>4, <1>5, <1>6, <1>7, <1>8, <1>9 DEF Next, Runner

LEMMA MirrorInit == Init => MirrorInv
BY DEF Init, MirrorInv, EventsKept, StationsMirrored, Newest, NoneOf

\* Every event hostapd has sent about a station, each of them, is broadcast or
\* still to be read, unless an attempt of the handshake has read it for its reply.
THEOREM NoEventLost == Spec => []EventsKept
<1>1. MirrorInv => EventsKept
  BY DEF MirrorInv
<1> QED BY <1>1, MirrorInit, MirrorStep, ApTypeInvHolds, PTL DEF Spec

\* Listeners are told of every station how it is, in the order things happened.
THEOREM ListenersMirror == Spec => []StationsMirrored
<1>1. MirrorInv => StationsMirrored
  BY DEF MirrorInv
<1> QED BY <1>1, MirrorInit, MirrorStep, ApTypeInvHolds, PTL DEF Spec

-----------------------------------------------------------------------------
(* What callers see. *)

\* The command socket is quiet until the loop runs, and then carries the one
\* command of the handler at work, or its reply.
ApInStep ==
  /\ runner = "starting" => wire = <<>> /\ replies = <<>>
  /\ runner = "running" /\ ~lapsed =>
       /\ op = InLoop => wire = <<>> /\ replies = <<>>
       /\ Len(wire) + Len(replies) <= 1
       /\ \A i \in DOMAIN wire : wire[i].call = op.call
       /\ \A i \in DOMAIN replies : replies[i].call = op.call

\* Steps that leave the command socket and the handler alone.
LEMMA QuietInStep ==
  ASSUME ApInStep, UNCHANGED <<socketVars, op>>,
         runner' = "running" => runner = "running",
         runner' = "starting" => runner = "starting"
  PROVE  ApInStep'
BY DEF ApInStep, socketVars

\* What is not empty holds something, and alone if that is all there is room for.
LEMMA OneOfTwo ==
  ASSUME NEW S, NEW s \in Seq(S), NEW T, NEW t \in Seq(T),
         s # <<>>, Len(s) + Len(t) <= 1
  PROVE  Tail(s) = <<>> /\ t = <<>>
<1>1. /\ Len(s) \in Nat /\ Len(t) \in Nat /\ Len(s) # 0
      /\ Tail(s) \in Seq(S) /\ Len(Tail(s)) = Len(s) - 1
  OBVIOUS
<1>2. \A a, b \in Nat : a # 0 /\ a + b <= 1 => a = 1 /\ b = 0
  OBVIOUS
<1>3. Len(s) = 1 /\ Len(t) = 0
  BY <1>1, <1>2
<1>4. Len(Tail(s)) = 0
  BY <1>1, <1>3
<1>5. Tail(s) = <<>>
  BY <1>1, <1>4
<1> QED BY <1>3, <1>5

\* Every step keeps commands and replies in step.
LEMMA ApInStepStep == ApTypeInv /\ ApInStep /\ [Next]_vars => ApInStep'
<1> SUFFICES ASSUME ApTypeInv, ApInStep, [Next]_vars PROVE ApInStep'
  OBVIOUS
<1> USE DEF startVars, eventVars, hostapdVars
<1>r. \A result \in {"Ok", "Io", "AttachFailed", "StartupAborted", "PermissionDenied",
                     "TimeoutOpeningSocket"} :
        Return(result) => runner' # "running" /\ runner' # "starting"
  BY DEF Return
<1>s. /\ wire \in Seq(ApDatagram) /\ replies \in Seq(ApReply) /\ lapsed \in BOOLEAN
      /\ Len(wire) \in Nat /\ Len(replies) \in Nat
  BY DEF ApTypeInv, SocketsOK
<1>1. CASE runner' # "running" /\ runner' # "starting"
  BY <1>1 DEF ApInStep
<1>2. CASE UNCHANGED <<socketVars, op, runner>>
  BY <1>2, QuietInStep
<1>3. CASE Ready
  BY <1>3 DEF Ready, ApInStep, ApTypeInv, ApMade, socketVars, loopVars
<1>4. CASE TakeRequest
  <2> DEFINE w == [cmd |-> FirstCommand[Kind(Head(queue))], call |-> Head(queue)]
  <2>1. CASE /\ wire' = Append(wire, w) /\ op' = w /\ UNCHANGED runner
    <3>1. runner = "running" /\ op = InLoop /\ UNCHANGED <<replies, lapsed>>
      BY <1>4 DEF TakeRequest, Looping
    <3>2. queue # <<>> /\ Kind(Head(queue)) # "Shutdown"
      BY <1>4 DEF TakeRequest
    <3>3. w \in ApDatagram /\ w.call = op'.call
      BY <2>1, <3>2, HeadCommand DEF ApDatagram
    <3>4. op'.call # None
      BY <2>1, <3>2, HeadCommand, ChannelAssumption
    <3> HIDE DEF w
    <3>5. SUFFICES ASSUME ~lapsed PROVE ApInStep'
      BY <2>1, <3>1 DEF ApInStep
    <3>6. wire = <<>> /\ replies = <<>>
      BY <3>1, <3>5 DEF ApInStep
    <3>7. Len(wire') = 1 /\ DOMAIN wire' = {1} /\ wire'[1] = w /\ replies' = <<>>
      BY <2>1, <3>1, <3>3, <3>6
    <3>8. op' # InLoop
      BY <3>4 DEF InLoop
    <3> QED BY <2>1, <3>1, <3>3, <3>7, <3>8 DEF ApInStep
  <2>2. CASE Return("Io")
    BY <1>1, <1>r, <2>2
  <2> QED BY <1>4, <2>1, <2>2 DEF TakeRequest
<1>5. CASE Reply
  <2>1. runner = "running" /\ op # InLoop /\ op' = InLoop /\ UNCHANGED <<runner, wire>>
    BY <1>5 DEF Reply
  <2>2. \/ replies # <<>> /\ replies' = Tail(replies) /\ UNCHANGED lapsed
        \/ lapsed' = TRUE
    BY <1>5 DEF Reply, Await
  <2>3. CASE lapsed' = TRUE
    BY <2>1, <2>3 DEF ApInStep
  <2>4. CASE replies # <<>> /\ replies' = Tail(replies) /\ UNCHANGED lapsed
    <3>1. SUFFICES ASSUME ~lapsed PROVE ApInStep'
      BY <2>1, <2>4 DEF ApInStep
    <3>2. Len(wire) + Len(replies) <= 1
      BY <2>1, <3>1 DEF ApInStep
    <3>3. Len(replies) + Len(wire) <= 1
      BY <1>s, <3>2
    <3>4. wire' = <<>> /\ replies' = <<>>
      BY <1>s, <2>1, <2>4, <3>3, OneOfTwo
    <3> QED BY <2>1, <3>4 DEF ApInStep
  <2> QED BY <2>2, <2>3, <2>4
<1>6. CASE Hostapd
  <2>0. UNCHANGED <<runner, op>>
    BY <1>6 DEF Hostapd, channelVars, loopVars
  <2>1. CASE HostapdAnswers
    <3>1. /\ wire # <<>> /\ wire' = Tail(wire) /\ UNCHANGED lapsed
          /\ \/ UNCHANGED replies
             \/ \E text : replies' = Append(replies, [cmd |-> Head(wire).cmd,
                            call |-> Head(wire).call, text |-> text, val |-> None])
      BY <2>1 DEF HostapdAnswers
    <3>2. SUFFICES ASSUME runner = "running", ~lapsed PROVE ApInStep'
      BY <2>0, <3>1 DEF ApInStep
    <3>3. op # InLoop /\ Len(wire) + Len(replies) <= 1 /\ Head(wire).call = op.call
      <4>1. 1 \in DOMAIN wire /\ Head(wire) = wire[1]
        BY <1>s, <3>1
      <4> QED BY <3>1, <3>2, <4>1 DEF ApInStep
    <3>4. wire' = <<>> /\ replies = <<>>
      BY <1>s, <3>1, <3>3, OneOfTwo
    <3>5. CASE UNCHANGED replies
      BY <2>0, <3>1, <3>3, <3>4, <3>5 DEF ApInStep
    <3>6. CASE \E text : replies' = Append(replies, [cmd |-> Head(wire).cmd,
                            call |-> Head(wire).call, text |-> text, val |-> None])
      <4>1. Len(replies') = 1 /\ DOMAIN replies' = {1} /\ replies'[1].call = op.call
        BY <3>3, <3>4, <3>6
      <4> QED BY <2>0, <3>1, <3>3, <3>4, <4>1 DEF ApInStep
    <3> QED BY <3>1, <3>5, <3>6
  <2>2. CASE HostapdRegisters \/ StationMoves
    BY <1>2, <2>0, <2>2 DEF HostapdRegisters, StationMoves
  <2>3. CASE HostapdDies
    <3>1. /\ wire' = <<>> \/ (wire # <<>> /\ wire' = <<wire[Len(wire)]>>)
          /\ UNCHANGED <<replies, lapsed>>
      BY <2>3 DEF HostapdDies, Unsent
    <3>2. CASE wire' = <<>>
      BY <1>s, <2>0, <3>1, <3>2 DEF ApInStep
    <3>3. CASE wire # <<>> /\ wire' = <<wire[Len(wire)]>>
      <4>1. Len(wire') = 1 /\ DOMAIN wire' = {1} /\ wire'[1] = wire[Len(wire)]
        BY <3>3
      <4>2. Len(wire) \in DOMAIN wire /\ Len(wire) >= 1
        BY <1>s, <3>3
      <4>3. Len(wire') + Len(replies') <= Len(wire) + Len(replies)
        BY <1>s, <3>1, <4>1, <4>2
      <4> QED BY <1>s, <2>0, <3>1, <3>3, <4>1, <4>2, <4>3 DEF ApInStep
    <3> QED BY <3>1, <3>2, <3>3
  <2> QED BY <1>6, <2>1, <2>2, <2>3 DEF Hostapd
<1>7. CASE OpenEnds \/ OpenTakes \/ Attempt \/ SocketError \/ TakeShutdown
  <2>1. \/ UNCHANGED <<socketVars, op, runner>>
        \/ runner' # "running" /\ runner' # "starting"
    BY <1>7, <1>r DEF OpenEnds, OpenTakes, Attempt, SocketError, TakeShutdown
  <2> QED BY <1>1, <1>2, <2>1
<1>8. CASE AttemptEnds \/ DelayEnds \/ AttemptWaits \/ Resend \/ OnEvent \/ UNCHANGED vars
  BY <1>2, <1>8 DEF AttemptEnds, DelayEnds, AttemptWaits, Resend, OnEvent, vars, channelVars,
                    loopVars
<1>9. CASE Clients \/ CallFails \/ OwnerDrops
  <2>1. UNCHANGED <<socketVars, op>> /\ (UNCHANGED runner \/ runner' = "dropped")
    BY <1>9 DEF Clients, CallFails, OwnerDrops, Send, SendFails, Abandon, RecvFails,
                DropRuntime, loopVars
  <2> QED BY <1>1, <1>2, <2>1
<1> QED BY <1>3, <1>4, <1>5, <1>6, <1>7, <1>8, <1>9 DEF Next, Runner

\* Commands and replies are in step when run() starts.
LEMMA ApInStepInit == Init => ApInStep
BY DEF Init, SocketInit, ApInStep

\* A call not made was told nothing, and who was told of a reply that came in
\* time was told that of the own command.
ApOwnInv ==
  /\ \A c \in Calls : request[c] = NoRequest => answer[c] = NoAnswer
  /\ ApRepliesAreOwn

\* What a step tells whom, and when.
LEMMA ApAnswers ==
  ASSUME ApTypeInv, [Next]_vars
  PROVE  \/ UNCHANGED <<request, answer>>
         \/ Reply
         \/ \E c \in Calls, q \in Requests : Send(c, q) \/ SendFails(c, q)
         \/ \E c \in Calls : Abandon(c) \/ RecvFails(c, Held)
BY DEF Next, Runner, vars, channelVars, OpenEnds, OpenTakes, Attempt, AttemptEnds, Resend, Ready,
       TakeShutdown, TakeRequest, OnEvent, DelayEnds, AttemptWaits, SocketError, Clients,
       CallFails, OwnerDrops, DropRuntime, Hostapd

\* No step forgets that a command was given up on.
LEMMA LapsedStays ==
  ASSUME ApTypeInv, [Next]_vars, lapsed
  PROVE  lapsed'
<1>1. CASE Reply
  BY <1>1 DEF Reply, Await
<1>2. CASE ~Reply
  BY <1>2 DEF Next, Runner, vars, socketVars, OpenEnds, OpenTakes, Attempt, AttemptEnds, Resend,
              Ready, TakeShutdown, TakeRequest, OnEvent, DelayEnds, AttemptWaits, SocketError,
              Clients, CallFails, OwnerDrops, Hostapd, HostapdRegisters, HostapdAnswers, StationMoves,
              HostapdDies
<1> QED BY <1>1, <1>2

\* The end of a handler tells its caller what it has read.
LEMMA ReplyOwn ==
  ASSUME ApTypeInv, ApInStep, ApOwnInv, Reply
  PROVE  ApOwnInv'
<1>1. PICK r \in Arrivals : Await(r) /\ Respond({op.call}, Ans(Parse(op.cmd, r), r.call))
  BY DEF Reply
<1>2. runner = "running" /\ UNCHANGED request
  BY DEF Reply
<1>3. r.call \notin {None, op.call} => lapsed'
  <2>1. CASE r = TimedOut
    BY <2>1 DEF TimedOut
  <2>2. CASE r = Head(replies) /\ replies # <<>> /\ UNCHANGED lapsed
    <3>1. replies[1] = Head(replies) /\ 1 \in DOMAIN replies
      BY <2>2, TailElements DEF ApTypeInv, SocketsOK
    <3> QED BY <1>2, <2>2, <3>1 DEF ApInStep
  <2> QED BY <1>1, <2>1, <2>2 DEF Await
<1>4. lapsed => lapsed'
  BY <1>1 DEF Await
<1>5. Ans(Parse(op.cmd, r), r.call).of = r.call
  BY DEF Ans
<1>6. \A c \in Calls : \/ answer'[c] = answer[c]
                       \/ c = op.call /\ Waiting(c) /\ answer'[c].of = r.call
  BY <1>1, <1>5 DEF Respond
<1>7. \A c \in Calls : request[c] = NoRequest => answer'[c] = answer[c]
  BY <1>1 DEF Respond, Waiting
<1> QED BY <1>2, <1>3, <1>4, <1>6, <1>7 DEF ApOwnInv, ApRepliesAreOwn

\* Every step tells callers of no reply but their own.
LEMMA ApOwnStep == ApTypeInv /\ ApInStep /\ ApOwnInv /\ [Next]_vars => ApOwnInv'
<1> SUFFICES ASSUME ApTypeInv, ApInStep, ApOwnInv, [Next]_vars PROVE ApOwnInv'
  OBVIOUS
<1>l. lapsed => lapsed'
  BY LapsedStays
<1>t. /\ answer \in [Calls -> ApTold] /\ request \in [Calls -> Requests \cup {NoRequest}]
      /\ \A q \in Requests : q # NoRequest
  BY ChannelAssumption DEF ApTypeInv, ApTypeOK, ApTold, NoRequest
<1>1. CASE UNCHANGED <<request, answer>>
  BY <1>1, <1>l DEF ApOwnInv, ApRepliesAreOwn
<1>2. CASE Reply
  BY <1>2, ReplyOwn
<1>3. ASSUME NEW c \in Calls, NEW res \in {"Ok", "NotRunning", "Abandoned"},
             answer' = [answer EXCEPT ![c] = Ans(res, None)] \/ UNCHANGED answer,
             \A d \in Calls \ {c} : request'[d] = request[d], request'[c] # NoRequest
      PROVE  ApOwnInv'
  <2>1. \A d \in Calls : d # c => answer'[d] = answer[d]
    BY <1>t, <1>3
  <2>2. answer'[c] = answer[c] \/ answer'[c].of = None
    BY <1>t, <1>3 DEF Ans
  <2> QED BY <1>3, <1>l, <2>1, <2>2 DEF ApOwnInv, ApRepliesAreOwn
<1>4. CASE \E c \in Calls, q \in Requests : Send(c, q) \/ SendFails(c, q)
  <2>1. PICK c \in Calls, q \in Requests : Send(c, q) \/ SendFails(c, q)
    BY <1>4
  <2>2. request' = [request EXCEPT ![c] = q]
    BY <2>1 DEF Send, SendFails
  <2>3. request'[c] # NoRequest /\ \A d \in Calls \ {c} : request'[d] = request[d]
    BY <1>t, <2>2
  <2>4. \/ UNCHANGED answer
        \/ \E res \in {"Ok", "NotRunning"} : answer' = [answer EXCEPT ![c] = Ans(res, None)]
    BY <2>1 DEF Send, SendFails
  <2> QED BY <1>3, <2>3, <2>4
<1>5. CASE \E c \in Calls : Abandon(c) \/ RecvFails(c, Held)
  <2>1. PICK c \in Calls, res \in {"NotRunning", "Abandoned"} :
          /\ Waiting(c) /\ UNCHANGED request
          /\ answer' = [answer EXCEPT ![c] = Ans(res, None)]
    BY <1>5 DEF Abandon, RecvFails
  <2> QED BY <1>3, <2>1 DEF Waiting
<1> QED BY <1>1, <1>2, <1>4, <1>5, ApAnswers

\* No call is told anything before it is made.
LEMMA ApOwnInit == Init => ApOwnInv
<1> SUFFICES ASSUME Init PROVE ApOwnInv
  OBVIOUS
<1>1. \A c \in Calls : answer[c] = NoAnswer /\ answer[c].of = None
  BY DEF Init, ChannelInit, NoAnswer, Ans
<1> QED BY <1>1 DEF ApOwnInv, ApRepliesAreOwn

\* The invariants of the access point together.
ApInv == ApTypeInv /\ ApInStep /\ ApOwnInv

\* They hold in every reachable state.
LEMMA ApInvHolds == Spec => []ApInv
<1>1. Init => ApInv
  BY ApTypeInit, ApInStepInit, ApOwnInit DEF ApInv
<1>2. ApInv /\ [Next]_vars => ApInv'
  BY ApTypeStep, ApInStepStep, ApOwnStep DEF ApInv
<1> QED BY <1>1, <1>2, PTL DEF Spec

\* handle_request of the access point tells each caller the reply to the own
\* command, while no command was given up on.
THEOREM ApOwnReplies == Spec => []ApRepliesAreOwn
<1>1. ApInv => ApRepliesAreOwn
  BY DEF ApInv, ApOwnInv
<1> QED BY <1>1, ApInvHolds, PTL

-----------------------------------------------------------------------------
(* No request is lost. *)

\* ApNoRequestLost by the three places that own senders; with ApTypeInv it is
\* inductive.
ApOwnerInv ==
  Running =>
    /\ Once(queue) /\ Once(deferred) /\ Range(queue) \cap Range(deferred) = {}
    /\ op # InLoop => op.call \notin Range(queue) \cup Range(deferred)
    /\ \A c \in Calls : Waiting(c) => c \in Held

\* Two channels that share no call, one behind the other.
LEMMA ConcatOnce ==
  ASSUME NEW S, NEW s \in Seq(S), NEW t \in Seq(S), Once(s), Once(t),
         Range(s) \cap Range(t) = {}
  PROVE  /\ s \o t \in Seq(S) /\ Once(s \o t)
         /\ Range(s \o t) \subseteq Range(s) \cup Range(t)
<1>1. /\ Len(s) \in Nat /\ Len(t) \in Nat /\ DOMAIN s = 1..Len(s) /\ DOMAIN t = 1..Len(t)
      /\ s \o t \in Seq(S) /\ DOMAIN (s \o t) = 1..(Len(s) + Len(t))
      /\ \A i \in DOMAIN (s \o t) : (s \o t)[i] = IF i <= Len(s) THEN s[i] ELSE t[i - Len(s)]
  OBVIOUS
<1>2. \A i \in DOMAIN (s \o t) : \/ i \in DOMAIN s /\ (s \o t)[i] = s[i]
                                 \/ /\ i - Len(s) \in DOMAIN t /\ i \in Int /\ i \notin DOMAIN s
                                    /\ (s \o t)[i] = t[i - Len(s)]
  BY <1>1
<1>3. \A i \in DOMAIN s, j \in DOMAIN t : s[i] # t[j]
  BY DEF Range
<1>4. ASSUME NEW i \in DOMAIN (s \o t), NEW j \in DOMAIN (s \o t), (s \o t)[i] = (s \o t)[j]
      PROVE  i = j
  <2>1. CASE i \in DOMAIN s /\ j \in DOMAIN s
    BY <1>2, <1>4, <2>1 DEF Once
  <2>2. CASE i \notin DOMAIN s /\ j \notin DOMAIN s
    <3>1. t[i - Len(s)] = t[j - Len(s)] /\ i - Len(s) \in DOMAIN t /\ j - Len(s) \in DOMAIN t
      BY <1>2, <1>4, <2>2
    <3>2. i - Len(s) = j - Len(s)
      BY <3>1 DEF Once
    <3> QED BY <1>1, <1>2, <2>2, <3>2
  <2> QED BY <1>2, <1>3, <1>4, <2>1, <2>2
<1>5. Once(s \o t)
  BY <1>4 DEF Once
<1>6. Range(s \o t) \subseteq Range(s) \cup Range(t)
  BY <1>2 DEF Range
<1> QED BY <1>1, <1>5, <1>6

\* The invariant says what the property says.
LEMMA ApOwnerInvSays == ApTypeInv /\ ApOwnerInv => ApNoRequestLost
<1> SUFFICES ASSUME ApTypeInv, ApOwnerInv, Running PROVE ApNoRequestLost
  BY DEF ApNoRequestLost
<1> DEFINE last == IF op = InLoop THEN <<>> ELSE <<op.call>>
<1>1. queue \in Seq(Calls) /\ deferred \in Seq(Calls)
  BY DEF ApTypeInv, ApTypeOK
<1>2. /\ queue \o deferred \in Seq(Calls) /\ Once(queue \o deferred)
      /\ Range(queue \o deferred) \subseteq Range(queue) \cup Range(deferred)
  BY <1>1, ConcatOnce DEF ApOwnerInv
<1>3. last \in Seq(Calls) /\ Once(last) /\ Range(queue \o deferred) \cap Range(last) = {}
  <2>1. CASE op = InLoop
    BY <2>1 DEF Once, Range
  <2>2. CASE op # InLoop
    <3>1. op.call \in Calls /\ op.call \notin Range(queue \o deferred)
      BY <1>2, <2>2 DEF ApOwnerInv, ApTypeInv, ApMade
    <3>2. last = <<op.call>>
      BY <2>2
    <3>3. last \in Seq(Calls) /\ DOMAIN last = {1} /\ last[1] = op.call
      BY <3>1, <3>2
    <3> QED BY <3>1, <3>3 DEF Once, Range
  <2> QED BY <2>1, <2>2
<1> HIDE DEF last
<1>4. Once((queue \o deferred) \o last)
  BY <1>2, <1>3, ConcatOnce
<1> QED BY <1>4 DEF ApNoRequestLost, ApOwnerInv, Once, last

\* Steps that move no sender.
LEMMA ApOwnersStay ==
  ASSUME ApOwnerInv, UNCHANGED <<queue, deferred, op>>, Running' => Running,
         \A c \in Calls : Waiting(c)' => Waiting(c)
  PROVE  ApOwnerInv'
BY DEF ApOwnerInv, Held

\* Every step leaves each waiting call in one place.
LEMMA ApOwnerStep == ApTypeInv /\ ApOwnerInv /\ [Next]_vars => ApOwnerInv'
<1> SUFFICES ASSUME ApTypeInv, ApOwnerInv, [Next]_vars, Running' PROVE ApOwnerInv'
  BY DEF ApOwnerInv
<1> USE DEF startVars, loopVars
<1>r. \A result \in SocketResults : ~(Return(result) /\ Running')
  BY DEF Return, Running, SocketResults
<1>s. {"Ok", "Io", "StartupAborted", "TimeoutOpeningSocket", "PermissionDenied", "AttachFailed"}
        = SocketResults
  BY DEF SocketResults
<1>t. queue \in Seq(Calls) /\ deferred \in Seq(Calls)
  BY DEF ApTypeInv, ApTypeOK
<1>1. CASE OpenTakes
  <2>1. /\ queue # <<>> /\ queue' = Tail(queue) /\ deferred' = Append(deferred, Head(queue))
        /\ UNCHANGED <<op, runner, request, answer>> /\ runner = "starting"
    BY <1>1, <1>r, <1>s DEF OpenTakes, Opening
  <2>2. Running /\ Once(queue) /\ Once(deferred) /\ Range(queue) \cap Range(deferred) = {}
    BY <2>1 DEF ApOwnerInv, Running
  <2>3. /\ Head(queue) \in Calls /\ Once(queue') /\ Head(queue) \notin Range(queue')
        /\ Range(queue) = {Head(queue)} \cup Range(queue')
    BY <1>t, <2>1, <2>2, TailOnce, RangeTail
  <2>4. Once(deferred') /\ Range(deferred') = Range(deferred) \cup {Head(queue)}
    BY <1>t, <2>1, <2>2, <2>3, AppendOnce
  <2> QED BY <2>1, <2>2, <2>3, <2>4 DEF ApOwnerInv, Held, Waiting
<1>2. CASE Resend
  <2>1. /\ deferred # <<>> /\ deferred' = Tail(deferred) /\ queue' = Append(queue, Head(deferred))
        /\ UNCHANGED <<op, runner, request, answer>> /\ runner = "starting"
    BY <1>2 DEF Resend
  <2>2. Running /\ Once(queue) /\ Once(deferred) /\ Range(queue) \cap Range(deferred) = {}
    BY <2>1 DEF ApOwnerInv, Running
  <2>3. /\ Head(deferred) \in Calls /\ Once(deferred') /\ Head(deferred) \notin Range(deferred')
        /\ Range(deferred) = {Head(deferred)} \cup Range(deferred')
    BY <1>t, <2>1, <2>2, TailOnce, RangeTail
  <2>4. Once(queue') /\ Range(queue') = Range(queue) \cup {Head(deferred)}
    BY <1>t, <2>1, <2>2, <2>3, AppendOnce
  <2> QED BY <2>1, <2>2, <2>3, <2>4 DEF ApOwnerInv, Held, Waiting
<1>3. CASE TakeRequest
  <2>1. /\ queue # <<>> /\ queue' = Tail(queue) /\ op'.call = Head(queue) /\ op = InLoop
        /\ UNCHANGED <<deferred, runner, request, answer>> /\ runner = "running"
    BY <1>3, <1>r, <1>s DEF TakeRequest, Looping
  <2>2. Running /\ Once(queue) /\ Range(queue) \cap Range(deferred) = {}
    BY <2>1 DEF ApOwnerInv, Running
  <2>3. /\ Head(queue) \in Calls /\ Once(queue') /\ Head(queue) \notin Range(queue')
        /\ Range(queue) = {Head(queue)} \cup Range(queue')
    BY <1>t, <2>1, <2>2, TailOnce, RangeTail
  <2>4. op.call \notin Calls
    BY <2>1, ChannelAssumption DEF InLoop
  <2> QED BY <2>1, <2>2, <2>3, <2>4 DEF ApOwnerInv, Held, Waiting
<1>4. CASE Reply
  <2>1. op' = InLoop /\ UNCHANGED <<queue, deferred, request, runner>>
    BY <1>4 DEF Reply
  <2>2. \A c \in Calls : Waiting(c)' => Waiting(c) /\ c # op.call
    <3>1. PICK r : Respond({op.call}, Ans(Parse(op.cmd, r), r.call))
      BY <1>4 DEF Reply
    <3>2. Parse(op.cmd, r) # "none"
      BY DEF Parse
    <3> QED BY <2>1, <3>1, <3>2, RespondSettles
  <2> QED BY <2>1, <2>2 DEF ApOwnerInv, Held, Running
<1>5. CASE Clients /\ \E c \in Calls, q \in Requests : Send(c, q)
  <2>1. PICK c \in Calls, q \in Requests : Send(c, q)
    BY <1>5
  <2>2. /\ request[c] = NoRequest /\ queue' = Append(queue, c) /\ UNCHANGED runner
        /\ request' = [request EXCEPT ![c] = q]
        /\ UNCHANGED answer \/ answer' = [answer EXCEPT ![c] = Ans("Ok", None)]
    BY <2>1 DEF Send
  <2>3. UNCHANGED <<deferred, op>>
    BY <1>5 DEF Clients
  <2>4. Running /\ Once(queue) /\ c \notin Held
    BY <2>2 DEF ApOwnerInv, Running, ApTypeInv, ApMade
  <2>5. Once(queue') /\ Range(queue') = Range(queue) \cup {c}
    BY <1>t, <2>2, <2>4, AppendOnce DEF Held
  <2>6. \A d \in Calls : Waiting(d)' => Waiting(d) \/ d = c
    BY <2>2 DEF Waiting, ApTypeInv, ApTypeOK
  <2>7. op # InLoop => op.call \in Calls
    BY DEF ApTypeInv, ApMade
  <2> QED BY <2>3, <2>4, <2>5, <2>6, <2>7 DEF ApOwnerInv, Held
<1>6. CASE /\ UNCHANGED <<queue, deferred, op>> /\ (Running' => Running)
           /\ \A c \in Calls : Waiting(c)' => Waiting(c)
  BY <1>6, ApOwnersStay
<1>7. CASE OpenEnds \/ Attempt \/ AttemptEnds \/ DelayEnds \/ AttemptWaits \/ Ready \/ OnEvent
           \/ Hostapd \/ UNCHANGED vars
  <2>1. UNCHANGED <<queue, deferred, op, request, answer>> /\ Running
    BY <1>7, <1>r, <1>s DEF OpenEnds, Attempt, AttemptEnds, DelayEnds, AttemptWaits, Ready,
       OnEvent, Hostapd, vars, channelVars, Running, Opening, Handshaking, Looping
  <2> QED BY <1>6, <2>1 DEF Waiting
<1>8. CASE TakeShutdown \/ SocketError \/ OwnerDrops \/ \E c \in Calls, q \in Requests : SendFails(c, q)
  BY <1>8, <1>r, <1>s DEF TakeShutdown, SocketError, OwnerDrops, DropRuntime, SendFails, Running
<1>9. CASE (Clients /\ \E c \in Calls : Abandon(c)) \/ CallFails
  <2>1. UNCHANGED <<queue, deferred, op, request, runner>>
    BY <1>9 DEF Clients, CallFails, Abandon, RecvFails
  <2>2. \A c \in Calls : Waiting(c)' => Waiting(c)
    <3>1. PICK c \in Calls : Waiting(c) /\ \E res : answer' = [answer EXCEPT ![c] = Ans(res, None)]
      BY <1>9 DEF CallFails, Abandon, RecvFails
    <3> QED BY <2>1, <3>1 DEF Waiting, ApTypeInv, ApTypeOK
  <2> QED BY <1>6, <2>1, <2>2 DEF Running
<1> QED BY <1>1, <1>2, <1>3, <1>4, <1>5, <1>7, <1>8, <1>9 DEF Next, Runner, Clients

\* From the first open of the sockets to the return of run(), the sender of each
\* waiting caller is in exactly one of the channel, the deferred requests and the
\* handler at work.
THEOREM ApRequestsKept == Spec => []ApNoRequestLost
<1>1. Init => ApOwnerInv
  <2> SUFFICES ASSUME Init PROVE ApOwnerInv
    OBVIOUS
  <2>1. queue = <<>> /\ deferred = <<>> /\ op = InLoop /\ \A c \in Calls : ~Waiting(c)
    BY DEF Init, ChannelInit, Waiting
  <2> QED BY <2>1 DEF ApOwnerInv, Once, Range
<1> QED BY <1>1, ApOwnerStep, ApOwnerInvSays, ApTypeInvHolds, PTL DEF Spec

-----------------------------------------------------------------------------
(* The access point implements RequestService. *)

\* A call that was not made was told nothing.
ApUnmade == \A c \in Calls : request[c] = NoRequest => answer[c] = NoAnswer

\* Phase by cases, one for each state of a call.
LEMMA ApPhaseCases ==
  ASSUME ApUnmade, NEW c \in Calls
  PROVE  /\ request[c] = NoRequest <=> Phase(c) = "idle"
         /\ Waiting(c) <=> Phase(c) = "pending"
<1>1. NoAnswer.res \notin {"NotRunning", "Abandoned"}
  BY DEF NoAnswer, Ans
<1> QED BY <1>1 DEF Phase, Waiting, ApUnmade

\* The phases of the calls, and the state of the service by that of the runtime.
PhaseNow == [c \in Calls |-> Phase(c)]
ServiceNow == IF Running THEN "up" ELSE IF runner = "dropped" THEN "gone" ELSE "returned"

\* Callers see nothing of a step that leaves the channel's records of them alone.
LEMMA ApUnseenStep ==
  ASSUME UNCHANGED <<request, answer>>
  PROVE  UNCHANGED PhaseNow
BY DEF PhaseNow, Phase, Waiting

\* run() returning, from its start-up or its loop, and the runtime being dropped
\* are Stop; going from the start-up to the loop is nothing to callers.
LEMMA ApRunnerStep ==
  ASSUME ApTypeInv, UNCHANGED <<request, answer>>,
         \/ UNCHANGED runner
         \/ runner = "starting" /\ runner' = "running"
         \/ Running /\ runner' \in SocketResults
         \/ runner \in SocketResults /\ runner' = "dropped"
  PROVE  Service!Next \/ UNCHANGED <<PhaseNow, ServiceNow>>
<1>1. {"running", "starting", "dropped"} \cap SocketResults = {}
  BY DEF SocketResults
<1>2. CASE UNCHANGED runner \/ (runner = "starting" /\ runner' = "running")
  BY <1>2, ApUnseenStep DEF ServiceNow, Running
<1>3. CASE (Running /\ runner' \in SocketResults) \/ (runner \in SocketResults /\ runner' = "dropped")
  BY <1>1, <1>3, ApUnseenStep DEF Service!Next, Service!Stop, PhaseNow, Running
<1> QED BY <1>2, <1>3

\* The end of a handler is Answer of its caller, if it still waits.
LEMMA ApReplyStep ==
  ASSUME ApTypeInv, ApUnmade, Reply
  PROVE  Service!Next
<1> DEFINE W == {c \in Calls : c = op.call /\ Waiting(c)}
<1>1. PICK r : Respond({op.call}, Ans(Parse(op.cmd, r), r.call))
  BY DEF Reply
<1> DEFINE a == Ans(Parse(op.cmd, r), r.call)
<1>2. a # NoAnswer /\ a.res \notin {"NotRunning", "Abandoned"}
  <2>1. Parse(op.cmd, r) \notin {"none", "NotRunning", "Abandoned"}
    BY DEF Parse
  <2> QED BY <2>1 DEF Ans, NoAnswer
<1>3. runner = "running" /\ UNCHANGED <<request, runner>>
  BY DEF Reply
<1> HIDE DEF a
<1>4. \A c \in W : Phase(c)' = "answered" /\ Phase(c) = "pending"
  <2> TAKE c \in W
  <2>1. answer'[c] = a /\ request'[c] # NoRequest
    BY <1>1, <1>3 DEF Respond, Waiting, a
  <2>2. answer'[c].res \notin {"NotRunning", "Abandoned"} /\ ~Waiting(c)'
    BY <1>2, <2>1 DEF Waiting
  <2>3. Phase(c)' = "answered"
    BY <2>1, <2>2 DEF Phase
  <2> QED BY <2>3, ApPhaseCases
<1>5. \A c \in Calls \ W : Phase(c)' = Phase(c)
  <2> TAKE c \in Calls \ W
  <2>1. answer'[c] = answer[c] /\ request'[c] = request[c]
    BY <1>1, <1>3 DEF Respond
  <2> QED BY <2>1 DEF Phase, Waiting
<1>6. W \in SUBSET Calls
  OBVIOUS
<1> HIDE DEF W
<1>7. Service!Answer(W)
  BY <1>3, <1>4, <1>5, <1>6 DEF Service!Answer, Running
<1> QED BY <1>6, <1>7 DEF Service!Next

\* A caller does what the service lets it; a call is refused for want of its
\* sender only when run() has returned, for none is lost.
LEMMA ApCallerStep ==
  ASSUME ApTypeInv, ApUnmade, ApNoRequestLost,
         \/ \E c \in Calls, q \in Requests : Send(c, q) \/ SendFails(c, q)
         \/ \E c \in Calls : Abandon(c) \/ RecvFails(c, Held)
  PROVE  Service!Next
<1>t. /\ answer \in [Calls -> ApTold] /\ request \in [Calls -> Requests \cup {NoRequest}]
      /\ \A q \in Requests : q # NoRequest
  BY ChannelAssumption DEF ApTypeInv, ApTypeOK, ApTold, NoRequest
<1>1. CASE \E c \in Calls, q \in Requests : Send(c, q) \/ SendFails(c, q)
  <2>1. PICK c \in Calls, q \in Requests : Send(c, q) \/ SendFails(c, q)
    BY <1>1
  <2>2. /\ request[c] = NoRequest /\ request' = [request EXCEPT ![c] = q]
        /\ UNCHANGED runner
    BY <2>1 DEF Send, SendFails
  <2>3. request'[c] # NoRequest /\ answer[c] = NoAnswer /\ Phase(c) = "idle"
    BY <1>t, <2>2, ApPhaseCases DEF ApUnmade
  <2>4. \A d \in Calls \ {c} : request'[d] = request[d] /\ answer'[d] = answer[d]
    BY <1>t, <2>1, <2>2 DEF Send, SendFails
  <2>5. \A d \in Calls \ {c} : Phase(d)' = Phase(d)
    BY <2>4 DEF Phase, Waiting
  <2>6. CASE UNCHANGED answer /\ runner # "dropped"
    <3>1. Phase(c)' = "pending"
      BY <2>3, <2>6 DEF Phase, Waiting
    <3>2. Service!Submit(c)
      BY <2>2, <2>3, <2>5, <2>6, <3>1 DEF Service!Submit, Running
    <3> QED BY <3>2 DEF Service!Next
  <2>7. CASE answer' = [answer EXCEPT ![c] = Ans("Ok", None)] /\ runner # "dropped"
    <3>1. answer'[c].res = "Ok" /\ answer'[c] # NoAnswer
      BY <1>t, <2>7 DEF Ans, NoAnswer
    <3>2. Phase(c)' = "answered"
      BY <2>3, <3>1 DEF Phase, Waiting
    <3>3. Service!Signal(c)
      BY <2>2, <2>3, <2>5, <2>7, <3>2 DEF Service!Signal, Running
    <3> QED BY <3>3 DEF Service!Next
  <2>8. CASE answer' = [answer EXCEPT ![c] = Ans("NotRunning", None)] /\ runner = "dropped"
    <3>1. answer'[c].res = "NotRunning" /\ answer'[c] # NoAnswer
      BY <1>t, <2>8 DEF Ans, NoAnswer
    <3>2. Phase(c)' = "refused"
      BY <2>3, <3>1 DEF Phase, Waiting
    <3>3. Service!Refuse(c)
      BY <2>2, <2>3, <2>5, <2>8, <3>2 DEF Service!Refuse, Running
    <3> QED BY <3>3 DEF Service!Next
  <2> QED BY <2>1, <2>6, <2>7, <2>8 DEF Send, SendFails
<1>2. CASE \E c \in Calls : Abandon(c) \/ RecvFails(c, Held)
  <2>1. PICK c \in Calls, res \in {"NotRunning", "Abandoned"} :
          /\ Waiting(c) /\ UNCHANGED <<request, runner>>
          /\ answer' = [answer EXCEPT ![c] = Ans(res, None)]
          /\ res = "NotRunning" => c \notin Held
    BY <1>2 DEF RecvFails, Abandon
  <2>2. Phase(c) = "pending" /\ request[c] # NoRequest
    BY <2>1, ApPhaseCases DEF Waiting
  <2>3. answer'[c].res = res /\ answer'[c] # NoAnswer
    BY <1>t, <2>1 DEF Ans, NoAnswer
  <2>4. \A d \in Calls \ {c} : answer'[d] = answer[d] /\ request'[d] = request[d]
    BY <1>t, <2>1
  <2>5. \A d \in Calls \ {c} : Phase(d)' = Phase(d)
    BY <2>4 DEF Phase, Waiting
  <2>6. Phase(c)' = IF res = "NotRunning" THEN "refused" ELSE "abandoned"
    BY <2>1, <2>2, <2>3 DEF Phase, Waiting
  <2>7. res = "NotRunning" => ~Running
    BY <2>1 DEF ApNoRequestLost
  <2>8. CASE res = "NotRunning"
    <3>1. Service!Refuse(c)
      BY <2>1, <2>2, <2>5, <2>6, <2>7, <2>8 DEF Service!Refuse, Running
    <3> QED BY <3>1 DEF Service!Next
  <2>9. CASE res = "Abandoned"
    <3>1. Service!Abandon(c)
      BY <2>1, <2>2, <2>5, <2>6, <2>9 DEF Service!Abandon, Running
    <3> QED BY <3>1 DEF Service!Next
  <2> QED BY <2>1, <2>8, <2>9
<1> QED BY <1>1, <1>2

\* What run() does to itself while callers see nothing.
LEMMA ApRunnerMoves ==
  ASSUME ApTypeInv, [Next]_vars, UNCHANGED <<request, answer>>
  PROVE  \/ UNCHANGED runner
         \/ runner = "starting" /\ runner' = "running"
         \/ Running /\ runner' \in SocketResults
         \/ runner \in SocketResults /\ runner' = "dropped"
<1>1. \A result \in {"Ok", "Io", "StartupAborted", "TimeoutOpeningSocket", "PermissionDenied",
                     "AttachFailed"} : Return(result) => runner' \in SocketResults
  BY DEF Return, SocketResults
<1>2. CASE OpenEnds \/ OpenTakes \/ Attempt
  BY <1>1, <1>2 DEF OpenEnds, OpenTakes, Attempt, Opening, Handshaking, Running
<1>3. CASE TakeShutdown \/ TakeRequest \/ SocketError
  BY <1>1, <1>3 DEF TakeShutdown, TakeRequest, SocketError, Looping, Handshaking, Running
<1>4. CASE Ready \/ OwnerDrops
  BY <1>4 DEF Ready, OwnerDrops, DropRuntime
<1>5. CASE AttemptEnds \/ DelayEnds \/ AttemptWaits \/ Resend \/ Reply \/ OnEvent \/ Hostapd
           \/ UNCHANGED vars
  BY <1>5 DEF AttemptEnds, DelayEnds, AttemptWaits, Resend, Reply, OnEvent, Hostapd, vars, channelVars
<1>6. CASE Clients \/ CallFails
  BY <1>6 DEF Clients, CallFails, Send, SendFails, Abandon, RecvFails
<1> QED BY <1>2, <1>3, <1>4, <1>5, <1>6 DEF Next, Runner

\* The runtime of WifiAp, from its first open on, implements the service its
\* clients rely on: each call is answered at most once and only while run()
\* runs, and refused only once it has returned.
THEOREM AccessPointImplementsService == Spec => ApImplementsService
<1>1. Init => Service!Init
  <2> SUFFICES ASSUME Init PROVE Service!Init
    OBVIOUS
  <2>1. \A c \in Calls : request[c] = NoRequest
    BY DEF Init, ChannelInit
  <2>2. \A c \in Calls : Phase(c) = "idle"
    BY <2>1, ApOwnInit, ApPhaseCases DEF ApOwnInv, ApUnmade
  <2> QED BY <2>2 DEF Init, Service!Init, Running
<1>2. ApInv /\ ApNoRequestLost /\ [Next]_vars => [Service!Next]_(Service!vars)
  <2> SUFFICES ASSUME ApInv, ApNoRequestLost, [Next]_vars
               PROVE  Service!Next \/ UNCHANGED <<PhaseNow, ServiceNow>>
    BY DEF Service!vars, PhaseNow, ServiceNow
  <2>1. ApTypeInv /\ ApUnmade
    BY DEF ApInv, ApOwnInv, ApUnmade
  <2>2. CASE UNCHANGED <<request, answer>>
    BY <2>1, <2>2, ApRunnerMoves, ApRunnerStep
  <2>3. CASE Reply
    BY <2>1, <2>3, ApReplyStep
  <2> QED BY <2>1, <2>2, <2>3, ApCallerStep, ApAnswers
<1> QED
  BY <1>1, <1>2, ApInvHolds, ApRequestsKept, PTL
  DEF Spec, ApImplementsService, Service!Spec
=============================================================================
