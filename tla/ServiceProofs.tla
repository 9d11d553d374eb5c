---------------------------- MODULE ServiceProofs ----------------------------
(***************************************************************************)
(* Proofs of NoRequestLost, that run_internal (src/sta/mod.rs) moves the   *)
(* oneshot sender of a call from one owner to the next and lets go of it   *)
(* only once the caller is answered or has gone; and that what the callers *)
(* of a RequestClient see of it is what RequestService allows.             *)
(*                                                                         *)
(* The refinement needs an invariant at one step, a caller being refused:  *)
(* that a call nobody owns implies a runtime that has returned is          *)
(* NoRequestLost.                                                          *)
(***************************************************************************)
EXTENDS StationProofs

Owned(c) == InQueue(c) \/ InHand(c) \/ InScans(c) \/ InSelect(c)

\* At most one of the four places has the sender of c.
Alone(c) ==
  /\ InQueue(c) => ~InHand(c) /\ ~InScans(c) /\ ~InSelect(c)
  /\ InHand(c) => ~InScans(c) /\ ~InSelect(c)
  /\ InScans(c) => ~InSelect(c)

\* NoRequestLost by the names of the four places, but for the calls in O, which an
\* earlier run had taken; with TypeInv it is inductive.
OwnerInv(O) ==
  runner = "running" =>
    /\ Once(queue)
    /\ \A c \in Calls : (Waiting(c) => Owned(c) \/ c \in O) /\ Alone(c)

\* The invariant under the names used here.
LEMMA OwnerInvIsProperty == OwnerInv({}) <=> NoRequestLost
BY DEF OwnerInv, NoRequestLost, Once, Owned, Alone, Held, InQueue, InHand, InScans, InSelect

\* What a parser returns is an answer.
LEMMA ParseAnswers == ASSUME NEW cmd, NEW r PROVE Parse(cmd, r) # "none"
BY DEF Parse

\* A command that was sent leaves the call in the hands of its handler.
LEMMA SendOwns ==
  ASSUME NEW cmd, NEW c, NEW left, SendCommand(cmd, c, left), runner' = "running"
  PROVE  op'.call = c /\ UNCHANGED <<runner, scan_requests, select_request>>
BY DEF SendCommand, Return

\* Between handlers no call is in hand.
LEMMA IdleHand ==
  ASSUME TypeInv, op = InLoop, NEW c \in Calls
  PROVE  ~InHand(c)
BY ChannelAssumption DEF InLoop, InHand

\* An action that moves no sender keeps them where they are.
LEMMA OwnersStay ==
  ASSUME NEW O, OwnerInv(O), runner' = "running" => runner = "running",
         UNCHANGED <<queue, scan_requests>>,
         op'.call = op.call, select_request'.call = select_request.call,
         \A c \in Calls : Waiting(c)' => Waiting(c)
  PROVE  OwnerInv(O)'
BY DEF OwnerInv, Once, Owned, Alone, InQueue, InHand, InScans, InSelect

\* The end of a handler that answers its call.
LEMMA AnswerOwns ==
  ASSUME NEW O, TypeInv, OwnerInv(O), runner = "running", UNCHANGED <<request, queue>>,
         Done, UNCHANGED <<scan_requests, select_request>>,
         NEW res, NEW of, res # "none", Respond({op.call}, Ans(res, of))
  PROVE  OwnerInv(O)'
<1>1. op' = InLoop /\ runner' = runner
  BY DEF Done
<1>2. \A c \in Calls : ~InHand(c)'
  BY <1>1, ChannelAssumption DEF InLoop, InHand
<1>3. \A c \in Calls : Waiting(c)' => Waiting(c) /\ ~InHand(c)
  BY RespondSettles DEF InHand
<1> QED BY <1>1, <1>2, <1>3
    DEF OwnerInv, Once, Owned, Alone, InQueue, InScans, InSelect

\* A handler that goes on to another command keeps its call.
LEMMA FurtherOwns ==
  ASSUME NEW O, OwnerInv(O), UNCHANGED <<request, queue, answer>>,
         runner' = "running" => runner = "running",
         NEW cmd, NEW left, SendCommand(cmd, op.call, left)
  PROVE  OwnerInv(O)'
<1> SUFFICES ASSUME runner' = "running" PROVE OwnerInv(O)'
  BY DEF OwnerInv
<1>1. op'.call = op.call /\ UNCHANGED <<scan_requests, select_request>>
  BY SendOwns
<1> QED BY <1>1, OwnersStay DEF Waiting

\* The branches of the loop that receive a request.
LEMMA RequestOwns ==
  ASSUME NEW O, TypeInv, OwnerInv(O), RejectSelect \/ TakeRequest
  PROVE  OwnerInv(O)'
<1> DEFINE h == Head(queue)
<1>1. /\ runner = "running" /\ op = InLoop /\ queue # <<>>
      /\ queue' = Tail(queue) /\ UNCHANGED request
  BY DEF RejectSelect, TakeRequest, Looping
<1>2. /\ h \in Calls /\ Once(queue') /\ h \notin Range(queue')
      /\ Range(queue) = {h} \cup Range(queue')
  BY <1>1, TailOnce, RangeTail DEF TypeInv, TypeOK, OwnerInv
<1>3. \A c \in Calls : ~InHand(c)
  BY <1>1, IdleHand
<1> HIDE DEF h
<1>4. CASE RejectSelect
  <2>1. \A c \in Calls : Waiting(c)' => Waiting(c) /\ c # h
    BY <1>1, <1>4, RespondSettles DEF RejectSelect, h
  <2>2. UNCHANGED <<op, scan_requests, select_request>>
    BY <1>4 DEF RejectSelect, stationVars
  <2> QED BY <1>1, <1>2, <2>1, <2>2
      DEF OwnerInv, Owned, Alone, InQueue, InHand, InScans, InSelect
<1>5. CASE TakeRequest
  <2> SUFFICES ASSUME runner' = "running" PROVE OwnerInv(O)'
    BY DEF OwnerInv
  <2>1. op'.call = h /\ UNCHANGED <<scan_requests, select_request, answer, request>>
    BY <1>1, <1>5, SendOwns DEF TakeRequest, h
  <2>2. \A c \in Calls : Waiting(c)' <=> Waiting(c)
    BY <2>1 DEF Waiting
  <2> QED BY <1>1, <1>2, <1>3, <2>1, <2>2
      DEF OwnerInv, Owned, Alone, InQueue, InHand, InScans, InSelect
<1> QED BY <1>4, <1>5

\* The branches of the loop that settle what is pending: the timer and the events.
LEMMA SettleOwns ==
  ASSUME NEW O, TypeInv, OwnerInv(O),
         SelectTimeout \/ OnScanComplete \/ OnScanFailed \/ OnSelectEvent \/ OnOtherEvent
  PROVE  OwnerInv(O)'
<1>1. runner = "running" /\ op = InLoop /\ UNCHANGED <<request, queue>>
  BY DEF SelectTimeout, OnScanComplete, OnScanFailed, OnSelectEvent, OnOtherEvent,
         NextEvent, Looping
<1>2. CASE SelectTimeout \/ OnSelectEvent
  <2>1. /\ select_request' = NoSelect /\ UNCHANGED <<op, scan_requests>>
        /\ \E res, of : res # "none" /\ Respond({select_request.call}, Ans(res, of))
    <3>1. CASE SelectTimeout
      BY <3>1 DEF SelectTimeout
    <3>2. CASE OnSelectEvent
      <4>1. PICK e : /\ e.type \in DOMAIN SelectOutcome
                     /\ Respond({select_request.call}, Ans(SelectOutcome[e.type], e.val))
        BY <3>2 DEF OnSelectEvent
      <4>2. SelectOutcome[e.type] # "none"
        BY <4>1 DEF SelectOutcome
      <4> QED BY <3>2, <4>1, <4>2 DEF OnSelectEvent
    <3> QED BY <1>2, <3>1, <3>2
  <2>2. \A c \in Calls : Waiting(c)' => Waiting(c) /\ ~InSelect(c)
    BY <1>1, <2>1, RespondSettles DEF InSelect
  <2>3. \A c \in Calls : ~InSelect(c)'
    BY <2>1, ChannelAssumption DEF InSelect, NoSelect
  <2> QED BY <1>1, <2>1, <2>2, <2>3 DEF OwnerInv, Owned, Alone, InQueue, InHand, InScans
<1>3. CASE OnScanFailed
  <2>1. scan_requests' = {} /\ UNCHANGED <<op, select_request>>
    BY <1>3 DEF OnScanFailed
  <2>2. \A c \in Calls : Waiting(c)' => Waiting(c) /\ ~InScans(c)
    BY <1>1, <1>3, RespondSettles DEF OnScanFailed, InScans
  <2> QED BY <1>1, <2>1, <2>2 DEF OwnerInv, Owned, Alone, InQueue, InHand, InScans, InSelect
<1>4. CASE OnScanComplete
  <2> SUFFICES ASSUME runner' = "running" PROVE OwnerInv(O)'
    BY DEF OwnerInv
  <2>1. op'.call = op.call /\ UNCHANGED <<scan_requests, select_request, answer>>
    BY <1>1, <1>4, SendOwns DEF OnScanComplete, InLoop
  <2> QED BY <1>1, <2>1, OwnersStay DEF Waiting
<1>5. CASE OnOtherEvent
  BY <1>1, <1>5, OwnersStay DEF OnOtherEvent, Waiting
<1> QED BY <1>2, <1>3, <1>4, <1>5

\* The rest of each handler, once its command is answered or given up on.
LEMMA ReplyOwns ==
  ASSUME NEW O, TypeInv, OwnerInv(O),
         \/ SimpleReply \/ ScanReply \/ ScanResultsReply \/ SelectReply
         \/ SelectStatusReply \/ ListReply \/ GetNetworkReply
  PROVE  OwnerInv(O)'
<1>1. runner = "running" /\ UNCHANGED <<request, queue>>
  BY DEF SimpleReply, ScanReply, ScanResultsReply, SelectReply, SelectStatusReply,
         ListReply, GetNetworkReply, AwaitingFor, HandleReply
<1>2. CASE SimpleReply
  BY <1>1, <1>2, AnswerOwns, ParseAnswers DEF SimpleReply
<1>3. CASE ScanReply
  <2>1. CASE /\ UNCHANGED scan_requests
             /\ \E r : Respond({op.call}, Ans(Parse("SCAN", r), r.call))
    <3>1. Done /\ UNCHANGED select_request
      BY <1>3 DEF ScanReply
    <3> QED BY <1>1, <2>1, <3>1, AnswerOwns, ParseAnswers
  <2>2. CASE scan_requests' = scan_requests \cup {op.call} /\ UNCHANGED answer
    <3>1. op' = InLoop /\ UNCHANGED select_request
      BY <1>3 DEF ScanReply, Done
    <3>2. \A c \in Calls : ~InHand(c)'
      BY <3>1, ChannelAssumption DEF InLoop, InHand
    <3>3. \A c \in Calls : Waiting(c)' <=> Waiting(c)
      BY <1>1, <2>2 DEF Waiting
    <3> QED BY <1>1, <2>2, <3>1, <3>2, <3>3
        DEF OwnerInv, Owned, Alone, InQueue, InHand, InScans, InSelect
  <2> QED BY <1>3, <2>1, <2>2 DEF ScanReply
<1>4. CASE ScanResultsReply
  <2>1. op.call = None
    BY <1>4 DEF ScanResultsReply, AwaitingFor, TypeInv, HandlersFit
  <2>2. op'.call = None /\ scan_requests' = {} /\ UNCHANGED select_request
    BY <1>4 DEF ScanResultsReply, Done, InLoop
  <2>3. \A c \in Calls : Waiting(c)' => Waiting(c) /\ ~InScans(c)
    BY <1>1, <1>4, RespondSettles, ParseAnswers DEF ScanResultsReply, InScans
  <2> QED BY <1>1, <2>1, <2>2, <2>3
      DEF OwnerInv, Owned, Alone, InQueue, InHand, InScans, InSelect
<1>5. CASE SelectReply
  <2>1. \/ SendCommand("STATUS", op.call, 0) /\ UNCHANGED answer
        \/ /\ \E r : Respond({op.call}, Ans(Parse("SELECT_NETWORK", r), r.call))
           /\ Done /\ UNCHANGED <<scan_requests, select_request>>
    BY <1>5 DEF SelectReply
  <2> QED BY <1>1, <2>1, AnswerOwns, FurtherOwns, ParseAnswers
<1>6. CASE SelectStatusReply
  <2>1. Done /\ UNCHANGED scan_requests
    BY <1>6 DEF SelectStatusReply
  <2>2. CASE /\ UNCHANGED select_request
             /\ \E res, of : res # "none" /\ Respond({op.call}, Ans(res, of))
    BY <1>1, <2>1, <2>2, AnswerOwns
  <2>3. CASE select_request' = [call |-> op.call, expired |-> FALSE] /\ UNCHANGED answer
    <3>1. select_request = NoSelect
      BY <1>6, HandlerOfReply DEF SelectStatusReply, AwaitingFor, Commands, Accepted
    <3>2. \A c \in Calls : ~InSelect(c) /\ (InSelect(c)' <=> InHand(c)) /\ ~InHand(c)'
      BY <2>1, <2>3, <3>1, ChannelAssumption DEF InSelect, InHand, NoSelect, Done, InLoop
    <3>3. \A c \in Calls : Waiting(c)' <=> Waiting(c)
      BY <1>1, <2>3 DEF Waiting
    <3> QED BY <1>1, <2>1, <3>2, <3>3 DEF OwnerInv, Owned, Alone, InQueue, InScans
  <2>4. \A r : Parse("STATUS", r) # "none"
    BY ParseAnswers
  <2> QED BY <1>6, <2>2, <2>3, <2>4 DEF SelectStatusReply
<1>7. CASE ListReply
  <2>1. \/ \E left : SendCommand("GET_NETWORK", op.call, left) /\ UNCHANGED answer
        \/ /\ \E r : Respond({op.call}, Ans(Parse("LIST_NETWORKS", r), r.call))
           /\ Done /\ UNCHANGED <<scan_requests, select_request>>
    BY <1>7 DEF ListReply
  <2> QED BY <1>1, <2>1, AnswerOwns, FurtherOwns, ParseAnswers
<1>8. CASE GetNetworkReply
  <2>1. \/ \E left : SendCommand("GET_NETWORK", op.call, left) /\ UNCHANGED answer
        \/ /\ \E r : Respond({op.call}, Ans(Parse("GET_NETWORK", r), r.call))
           /\ Done /\ UNCHANGED <<scan_requests, select_request>>
    BY <1>8 DEF GetNetworkReply
  <2> QED BY <1>1, <2>1, AnswerOwns, FurtherOwns, ParseAnswers
<1> QED BY <1>2, <1>3, <1>4, <1>5, <1>6, <1>7, <1>8

\* What callers do: a new call enters the channel, or a caller stops waiting.
LEMMA CallerOwns ==
  ASSUME NEW O, TypeInv, OwnerInv(O), MakeCall \/ CallFails \/ GiveUp
  PROVE  OwnerInv(O)'
<1>1. UNCHANGED <<runner, op, scan_requests, select_request>>
  BY DEF MakeCall, CallFails, GiveUp, Send, SendFails, RecvFails, Abandon, stationVars
<1> SUFFICES ASSUME runner = "running" PROVE OwnerInv(O)'
  BY <1>1 DEF OwnerInv
<1>2. CASE MakeCall
  <2>1. PICK c \in Calls, q \in Requests : Send(c, q)
    BY <1>2 DEF MakeCall, SendFails
  <2>2. c \notin Held /\ request[c] = NoRequest
    BY <2>1 DEF Send, TypeInv, Made
  <2>3. ~Owned(c)
    BY <2>2 DEF Owned, Held, InQueue, InHand, InScans, InSelect
  <2>4. Once(queue') /\ Range(queue') = Range(queue) \cup {c}
    BY <2>1, <2>2, AppendOnce DEF Send, TypeInv, TypeOK, OwnerInv, Held
  <2>5. \A d \in Calls : Waiting(d)' => Waiting(d) \/ d = c
    BY <2>1 DEF Send, Waiting, TypeInv, TypeOK
  <2> QED BY <1>1, <2>3, <2>4, <2>5
      DEF OwnerInv, Owned, Alone, InQueue, InHand, InScans, InSelect
<1>3. CASE CallFails \/ GiveUp
  <2>1. PICK c \in Calls, res \in {"NotRunning", "Abandoned"} :
          /\ answer' = [answer EXCEPT ![c] = Ans(res, None)]
          /\ UNCHANGED <<request, queue>>
    BY <1>3 DEF CallFails, GiveUp, RecvFails, Abandon
  <2>2. Ans(res, None) # NoAnswer
    BY DEF NoAnswer, Ans
  <2>3. \A d \in Calls : Waiting(d)' => Waiting(d)
    BY <2>1, <2>2 DEF Waiting, TypeInv, TypeOK
  <2> QED BY <1>1, <2>1, <2>3, OwnersStay
<1> QED BY <1>2, <1>3

\* Every step of the runtime, its clients and the daemon keeps the ownership.
LEMMA StepOwns ==
  ASSUME NEW O, TypeInv, OwnerInv(O), [Next]_vars
  PROVE  OwnerInv(O)'
<1>1. CASE TakeShutdown \/ SocketError \/ OwnerDrops
  <2>1. runner' # "running"
    BY <1>1 DEF TakeShutdown, SocketError, OwnerDrops, DropRuntime, Return
  <2> QED BY <2>1 DEF OwnerInv
<1>2. CASE TimerExpires
  BY <1>2, OwnersStay DEF TimerExpires, channelVars, Waiting, TypeInv, TypeOK, Select
<1>3. CASE DaemonStep \/ UNCHANGED vars
  BY <1>3, OwnersStay DEF DaemonStep, Undisturbed, vars, channelVars, stationVars, Waiting
<1> QED BY <1>1, <1>2, <1>3, RequestOwns, SettleOwns, ReplyOwns, CallerOwns
    DEF Next, Runner

\* While run() runs, the oneshot sender of every call whose caller waits is in
\* exactly one place of the runtime.
THEOREM RequestsKept == Spec => []NoRequestLost
<1>1. Init => OwnerInv({})
  <2> SUFFICES ASSUME Init PROVE OwnerInv({})
    OBVIOUS
  <2>1. /\ DOMAIN queue = {} /\ \A c \in Calls : request[c] = NoRequest
        /\ op.call = None /\ scan_requests = {} /\ select_request.call = None
    BY DEF Init, ChannelInit, InLoop, NoSelect
  <2> QED BY <2>1, ChannelAssumption
      DEF OwnerInv, Once, Waiting, Alone, InQueue, InHand, InScans, InSelect, Range
<1>2. TypeInv /\ OwnerInv({}) /\ [Next]_vars => OwnerInv({})'
  BY StepOwns
<1> QED BY <1>1, <1>2, TypeInvHolds, OwnerInvIsProperty, PTL DEF Spec

-----------------------------------------------------------------------------
(* The service implemented. *)

\* Phase by cases, one for each state of a call.
LEMMA PhaseCases ==
  ASSUME Unmade, NEW c \in Calls
  PROVE  /\ request[c] = NoRequest <=> Phase(c) = "idle"
         /\ Waiting(c) <=> Phase(c) = "pending"
         /\ answer[c].res = "NotRunning" <=> Phase(c) = "refused"
         /\ answer[c].res = "Abandoned" <=> Phase(c) = "abandoned"
         /\ \/ Phase(c) = "answered"
            \/ Phase(c) \in {"idle", "pending", "refused", "abandoned"}
<1>1. NoAnswer.res \notin {"NotRunning", "Abandoned"}
  BY DEF NoAnswer, Ans
<1> QED BY <1>1 DEF Phase, Waiting, Unmade

\* The state of the service by that of the runtime.
ServiceNow ==
  IF runner = "running" THEN "up"
  ELSE IF runner = "dropped" THEN "gone" ELSE "returned"

PhaseNow == [c \in Calls |-> Phase(c)]

\* Callers see nothing of a step that leaves the channel's records of them alone.
LEMMA UnseenStep ==
  ASSUME UNCHANGED <<request, answer>>
  PROVE  UNCHANGED PhaseNow
BY DEF PhaseNow, Phase, Waiting

\* run_internal returning, or the runtime being dropped, is Stop.
LEMMA StopStep ==
  ASSUME UNCHANGED <<request, answer>>, TypeOK,
         \/ runner = "running" /\ runner' \in SocketResults
         \/ runner \in SocketResults /\ runner' = "dropped"
  PROVE  Service!Stop
<1>1. "running" \notin SocketResults /\ "dropped" \notin SocketResults
  BY DEF SocketResults
<1> QED BY <1>1, UnseenStep DEF Service!Stop, PhaseNow

\* What callers are told has its type.
CallsOK ==
  /\ request \in [Calls -> Requests \cup {NoRequest}]
  /\ answer \in [Calls -> Told]

\* An answer reaches those who still wait for it, and nobody else.
LEMMA RespondPhases ==
  ASSUME Unmade, UNCHANGED request,
         NEW S, NEW res, NEW of, res \notin {"none", "NotRunning", "Abandoned"},
         Respond(S, Ans(res, of))
  PROVE  \A c \in Calls :
           /\ Phase(c)' = IF c \in S /\ Waiting(c) THEN "answered" ELSE Phase(c)
           /\ Waiting(c)' <=> Waiting(c) /\ c \notin S
<1>1. Ans(res, of) # NoAnswer /\ Ans(res, of).res = res
  BY DEF Ans, NoAnswer
<1> TAKE c \in Calls
<1>2. CASE c \in S /\ Waiting(c)
  <2>1. answer'[c] = Ans(res, of) /\ request'[c] # NoRequest
    BY <1>2 DEF Respond, Waiting
  <2>2. answer'[c].res \notin {"NotRunning", "Abandoned"} /\ ~Waiting(c)'
    BY <1>1, <2>1 DEF Waiting
  <2>3. Phase(c)' = "answered"
    BY <2>1, <2>2 DEF Phase
  <2> QED BY <1>2, <2>2, <2>3
<1>3. CASE ~(c \in S /\ Waiting(c))
  <2>1. answer'[c] = answer[c] /\ request'[c] = request[c]
    BY <1>3 DEF Respond
  <2> QED BY <1>3, <2>1 DEF Phase, Waiting
<1> QED BY <1>2, <1>3

\* A call that is made is pending, but for shutdown(), which waits for no answer, and
\* a call on a runtime that was dropped.
LEMMA MakeCallPhases ==
  ASSUME CallsOK, Unmade, NEW c \in Calls, NEW q \in Requests, Send(c, q) \/ SendFails(c, q)
  PROVE  /\ Phase(c) = "idle" /\ request[c] = NoRequest /\ UNCHANGED runner
         /\ \A d \in Calls \ {c} : Phase(d)' = Phase(d) /\ (Waiting(d)' <=> Waiting(d))
         /\ IF runner = "dropped" THEN Phase(c)' = "refused" /\ ~Waiting(c)'
            ELSE Phase(c)' \in {"pending", "answered"} /\ (Waiting(c)' <=> Phase(c)' = "pending")
<1>1. /\ request[c] = NoRequest /\ request' = [request EXCEPT ![c] = q] /\ UNCHANGED runner
      /\ \/ answer' = answer /\ runner # "dropped"
         \/ answer' = [answer EXCEPT ![c] = Ans("Ok", None)] /\ runner # "dropped"
         \/ answer' = [answer EXCEPT ![c] = Ans("NotRunning", None)] /\ runner = "dropped"
  BY DEF Send, SendFails
<1>2. q # NoRequest /\ request'[c] = q /\ answer[c] = NoAnswer /\ Phase(c) = "idle"
  BY <1>1, PhaseCases, ChannelAssumption DEF NoRequest, CallsOK, Unmade
<1>3. \A d \in Calls \ {c} : request'[d] = request[d] /\ answer'[d] = answer[d]
  BY <1>1 DEF CallsOK
<1>4. \A d \in Calls \ {c} : Phase(d)' = Phase(d) /\ (Waiting(d)' <=> Waiting(d))
  BY <1>3 DEF Phase, Waiting
<1>5. CASE UNCHANGED answer /\ runner # "dropped"
  <2>1. Waiting(c)' /\ Phase(c)' = "pending"
    BY <1>2, <1>5 DEF Phase, Waiting
  <2> QED BY <1>1, <1>2, <1>4, <1>5, <2>1
<1>6. CASE answer' = [answer EXCEPT ![c] = Ans("Ok", None)] /\ runner # "dropped"
  <2>1. answer'[c].res = "Ok" /\ answer'[c] # NoAnswer
    BY <1>6 DEF Ans, NoAnswer, CallsOK
  <2>2. ~Waiting(c)' /\ Phase(c)' = "answered"
    BY <1>2, <2>1 DEF Phase, Waiting
  <2> QED BY <1>1, <1>2, <1>4, <1>6, <2>2
<1>7. CASE answer' = [answer EXCEPT ![c] = Ans("NotRunning", None)] /\ runner = "dropped"
  <2>1. answer'[c].res = "NotRunning" /\ answer'[c] # NoAnswer
    BY <1>7 DEF Ans, NoAnswer, CallsOK
  <2>2. ~Waiting(c)' /\ Phase(c)' = "refused"
    BY <1>2, <2>1 DEF Phase, Waiting
  <2> QED BY <1>1, <1>2, <1>4, <1>7, <2>2
<1> QED BY <1>1, <1>5, <1>6, <1>7

\* A caller that is refused, or that goes, waits no longer.
LEMMA TellPhases ==
  ASSUME CallsOK, Unmade, NEW c \in Calls, Waiting(c), UNCHANGED request,
         NEW res \in {"NotRunning", "Abandoned"},
         answer' = [answer EXCEPT ![c] = Ans(res, None)]
  PROVE  /\ Phase(c) = "pending" /\ ~Waiting(c)'
         /\ Phase(c)' = IF res = "NotRunning" THEN "refused" ELSE "abandoned"
         /\ \A d \in Calls \ {c} : Phase(d)' = Phase(d) /\ (Waiting(d)' <=> Waiting(d))
<1>1. Phase(c) = "pending" /\ request[c] # NoRequest
  BY PhaseCases DEF Waiting
<1>2. answer'[c].res = res /\ answer'[c] # NoAnswer
  BY DEF Ans, NoAnswer, CallsOK
<1>3. \A d \in Calls \ {c} : answer'[d] = answer[d] /\ request'[d] = request[d]
  BY DEF CallsOK
<1>4. \A d \in Calls \ {c} : Phase(d)' = Phase(d) /\ (Waiting(d)' <=> Waiting(d))
  BY <1>3 DEF Phase, Waiting
<1>5. ~Waiting(c)'
  BY <1>2 DEF Waiting
<1>6. Phase(c)' = IF res = "NotRunning" THEN "refused" ELSE "abandoned"
  BY <1>1, <1>2, <1>5 DEF Phase
<1> QED BY <1>1, <1>4, <1>5, <1>6

\* Answering callers while the loop runs is Answer of those who still wait.
LEMMA AnswerStep ==
  ASSUME Unmade, UNCHANGED <<request, runner>>, runner = "running",
         NEW S, NEW res, NEW of, res \notin {"none", "NotRunning", "Abandoned"},
         Respond(S, Ans(res, of))
  PROVE  Service!Next
<1> DEFINE W == {c \in Calls : c \in S /\ Waiting(c)}
<1>1. \A c \in Calls : Phase(c)' = IF c \in W THEN "answered" ELSE Phase(c)
  BY RespondPhases
<1>2. \A c \in W : Phase(c) = "pending"
  BY PhaseCases
<1>3. W \in SUBSET Calls
  OBVIOUS
<1> HIDE DEF W
<1>4. Service!Answer(W)
  BY <1>1, <1>2, <1>3 DEF Service!Answer
<1> QED BY <1>3, <1>4 DEF Service!Next

\* A turn of the loop tells callers nothing, or it goes on and answers calls that it
\* has; what it answers is what a parser, an event or the timer says.
LEMMA LoopAnswers ==
  ASSUME TypeInv, Runner \/ SocketError
  PROVE  /\ runner = "running" /\ UNCHANGED request
         /\ \/ UNCHANGED answer /\ (UNCHANGED runner \/ runner' \in SocketResults)
            \/ /\ UNCHANGED runner
               /\ \E S, res, of :
                    /\ res \notin {"none", "NotRunning", "Abandoned"}
                    /\ S \cap Calls \subseteq Held
                    /\ Respond(S, Ans(res, of))
<1> DEFINE Silent == UNCHANGED answer /\ (UNCHANGED runner \/ runner' \in SocketResults)
           Tells(S, res, of) ==
             /\ res \notin {"none", "NotRunning", "Abandoned"}
             /\ S \cap Calls \subseteq Held
             /\ Respond(S, Ans(res, of))
           Speaks == UNCHANGED runner /\ \E S, res, of : Tells(S, res, of)
<1>1. runner = "running" /\ UNCHANGED request
  BY DEF Runner, SocketError, TakeShutdown, RejectSelect, TakeRequest, SelectTimeout,
         OnScanComplete, OnScanFailed, OnSelectEvent, OnOtherEvent, SimpleReply,
         ScanReply, ScanResultsReply, SelectReply, SelectStatusReply, ListReply,
         GetNetworkReply, NextEvent, HandleReply, Looping, AwaitingFor
<1> SUFFICES Silent \/ Speaks
  BY <1>1
<1>2. ASSUME NEW cmd, NEW c, NEW left, SendCommand(cmd, c, left), UNCHANGED answer
      PROVE  Silent
  BY <1>2 DEF SendCommand, Return, SocketResults
<1>3. \A cmd, r : Parse(cmd, r) \notin {"none", "NotRunning", "Abandoned"}
  BY DEF Parse
<1>4. /\ {op.call} \cap Calls \subseteq Held /\ scan_requests \cap Calls \subseteq Held
      /\ {select_request.call} \cap Calls \subseteq Held
      /\ queue # <<>> => {Head(queue)} \subseteq Held
  BY RangeTail DEF Held, TypeInv, TypeOK
<1>5. CASE TakeShutdown \/ SocketError
  BY <1>5 DEF TakeShutdown, SocketError, Return, SocketResults
<1>6. CASE TakeRequest \/ OnScanComplete
  BY <1>2, <1>6 DEF TakeRequest, OnScanComplete
<1>7. CASE RejectSelect
  <2>1. Tells({Head(queue)}, "PendingSelect", None)
    BY <1>4, <1>7 DEF RejectSelect
  <2> QED BY <1>7, <2>1 DEF RejectSelect
<1>8. CASE SelectTimeout
  <2>1. Tells({select_request.call}, "Timeout", None)
    BY <1>4, <1>8 DEF SelectTimeout
  <2> QED BY <1>8, <2>1 DEF SelectTimeout
<1>9. CASE OnScanFailed
  <2>1. Tells(scan_requests, "Failed", None)
    BY <1>4, <1>9 DEF OnScanFailed
  <2> QED BY <1>9, <2>1 DEF OnScanFailed
<1>10. CASE OnOtherEvent
  BY <1>10 DEF OnOtherEvent
<1>11. CASE OnSelectEvent
  <2>1. PICK e : /\ e.type \in DOMAIN SelectOutcome
                 /\ Respond({select_request.call}, Ans(SelectOutcome[e.type], e.val))
    BY <1>11 DEF OnSelectEvent
  <2>2. SelectOutcome[e.type] \notin {"none", "NotRunning", "Abandoned"}
    BY <2>1 DEF SelectOutcome
  <2>3. Tells({select_request.call}, SelectOutcome[e.type], e.val)
    BY <1>4, <2>1, <2>2
  <2> QED BY <1>11, <2>3 DEF OnSelectEvent
<1>12. ASSUME NEW S, S = {op.call} \/ S = scan_requests, NEW cmd, NEW r,
              Respond(S, Ans(Parse(cmd, r), r.call))
       PROVE  Tells(S, Parse(cmd, r), r.call)
  BY <1>3, <1>4, <1>12
<1>13. CASE SimpleReply \/ ScanReply \/ ScanResultsReply
  <2>1. UNCHANGED runner
    BY <1>13 DEF SimpleReply, ScanReply, ScanResultsReply, Done
  <2>2. \/ UNCHANGED answer
        \/ \E cmd, r : Respond({op.call}, Ans(Parse(cmd, r), r.call))
        \/ \E cmd, r : Respond(scan_requests, Ans(Parse(cmd, r), r.call))
    BY <1>13 DEF SimpleReply, ScanReply, ScanResultsReply
  <2> QED BY <1>12, <2>1, <2>2
<1>14. CASE SelectStatusReply
  <2>1. UNCHANGED runner
    BY <1>14 DEF SelectStatusReply, Done
  <2>2. \/ UNCHANGED answer
        \/ \E cmd, r : Respond({op.call}, Ans(Parse(cmd, r), r.call))
        \/ \E of : Respond({op.call}, Ans("AlreadyConnected", of))
    BY <1>14 DEF SelectStatusReply
  <2>3. ASSUME NEW of, Respond({op.call}, Ans("AlreadyConnected", of))
        PROVE  Tells({op.call}, "AlreadyConnected", of)
    BY <1>4, <2>3
  <2> QED BY <1>12, <2>1, <2>2, <2>3
<1>15. CASE SelectReply \/ ListReply \/ GetNetworkReply
  <2>1. \/ UNCHANGED answer /\ \E cmd, c, left : SendCommand(cmd, c, left)
        \/ /\ UNCHANGED runner
           /\ \E cmd, r : Respond({op.call}, Ans(Parse(cmd, r), r.call))
    <3>1. CASE SelectReply
      BY <3>1 DEF SelectReply, Done
    <3>2. CASE ListReply
      BY <3>2 DEF ListReply, Done
    <3>3. CASE GetNetworkReply
      BY <3>3 DEF GetNetworkReply, Done
    <3> QED BY <1>15, <3>1, <3>2, <3>3
  <2> QED BY <1>2, <1>12, <2>1
<1> QED
  BY <1>5, <1>6, <1>7, <1>8, <1>9, <1>10, <1>11, <1>13, <1>14, <1>15 DEF Runner

\* What the loop does is, to callers, an Answer, a Stop or nothing.
LEMMA LoopStep ==
  ASSUME TypeInv, Unmade, Runner \/ SocketError
  PROVE  Service!Next \/ UNCHANGED <<PhaseNow, ServiceNow>>
<1>1. runner = "running" /\ UNCHANGED request
  BY LoopAnswers
<1>2. CASE UNCHANGED <<answer, runner>>
  BY <1>1, <1>2, UnseenStep DEF ServiceNow
<1>3. CASE UNCHANGED answer /\ runner' \in SocketResults
  BY <1>1, <1>3, StopStep DEF TypeInv, Service!Next
<1>4. CASE /\ UNCHANGED runner
           /\ \E S, res, of : /\ res \notin {"none", "NotRunning", "Abandoned"}
                              /\ Respond(S, Ans(res, of))
  BY <1>1, <1>4, AnswerStep
<1> QED BY <1>2, <1>3, <1>4, LoopAnswers

\* A caller, and the owner of the runtime, do what the service lets them; a call
\* is refused for want of its sender only when run() has returned.
LEMMA CallerStep ==
  ASSUME TypeInv, Unmade, NoRequestLost,
         MakeCall \/ CallFails \/ GiveUp \/ OwnerDrops
  PROVE  Service!Next
<1>0. CallsOK
  BY DEF TypeInv, TypeOK, CallsOK
<1>1. CASE MakeCall
  <2>1. PICK c \in Calls, q \in Requests : Send(c, q) \/ SendFails(c, q)
    BY <1>1 DEF MakeCall
  <2>2. /\ Phase(c) = "idle" /\ UNCHANGED runner
        /\ \A d \in Calls \ {c} : Phase(d)' = Phase(d)
        /\ IF runner = "dropped" THEN Phase(c)' = "refused"
           ELSE Phase(c)' \in {"pending", "answered"}
    BY <1>0, <2>1, MakeCallPhases
  <2>3. CASE Phase(c)' = "pending" /\ runner # "dropped"
    <3>1. Service!Submit(c)
      BY <2>2, <2>3 DEF Service!Submit
    <3> QED BY <3>1 DEF Service!Next
  <2>4. CASE Phase(c)' = "answered" /\ runner # "dropped"
    <3>1. Service!Signal(c)
      BY <2>2, <2>4 DEF Service!Signal
    <3> QED BY <3>1 DEF Service!Next
  <2>5. CASE Phase(c)' = "refused" /\ runner = "dropped"
    <3>1. Service!Refuse(c)
      BY <2>2, <2>5 DEF Service!Refuse
    <3> QED BY <3>1 DEF Service!Next
  <2> QED BY <2>2, <2>3, <2>4, <2>5
<1>2. CASE CallFails \/ GiveUp
  <2>1. PICK c \in Calls, res \in {"NotRunning", "Abandoned"} :
          /\ Waiting(c) /\ UNCHANGED <<request, runner>>
          /\ answer' = [answer EXCEPT ![c] = Ans(res, None)]
          /\ res = "NotRunning" => c \notin Held
    BY <1>2 DEF CallFails, GiveUp, RecvFails, Abandon
  <2>2. /\ Phase(c) = "pending"
        /\ Phase(c)' = IF res = "NotRunning" THEN "refused" ELSE "abandoned"
        /\ \A d \in Calls \ {c} : Phase(d)' = Phase(d)
    BY <1>0, <2>1, TellPhases
  <2>3. res = "NotRunning" => runner # "running"
    BY <2>1 DEF NoRequestLost
  <2>4. CASE res = "NotRunning"
    <3>1. Service!Refuse(c)
      BY <2>1, <2>2, <2>3, <2>4 DEF Service!Refuse
    <3> QED BY <3>1 DEF Service!Next
  <2>5. CASE res = "Abandoned"
    <3>1. Service!Abandon(c)
      BY <2>1, <2>2, <2>5 DEF Service!Abandon
    <3> QED BY <3>1 DEF Service!Next
  <2> QED BY <2>1, <2>4, <2>5
<1>3. CASE OwnerDrops
  BY <1>3, StopStep DEF OwnerDrops, DropRuntime, TypeInv, Service!Next
<1> QED BY <1>1, <1>2, <1>3

\* The runtime of WifiStation implements the service its clients rely on: each
\* call is answered at most once and only while run() runs, and refused only
\* once it has returned.
THEOREM StationImplementsService == Spec => ImplementsService
<1>1. Init => Service!Init
  <2> SUFFICES ASSUME Init PROVE Service!Init
    OBVIOUS
  <2>1. \A c \in Calls : request[c] = NoRequest
    BY DEF Init, ChannelInit
  <2>2. \A c \in Calls : Phase(c) = "idle"
    BY <2>1, OwnInit, PhaseCases DEF OwnInv
  <2> QED BY <2>2 DEF Init, Service!Init
<1>2. TypeInv /\ Unmade /\ NoRequestLost /\ [Next]_vars => [Service!Next]_(Service!vars)
  <2> SUFFICES ASSUME TypeInv, Unmade, NoRequestLost, [Next]_vars
               PROVE  Service!Next \/ UNCHANGED <<PhaseNow, ServiceNow>>
    BY DEF Service!vars, PhaseNow, ServiceNow
  <2>1. CASE TimerExpires \/ DaemonStep \/ UNCHANGED vars
    BY <2>1, UnseenStep
    DEF TimerExpires, DaemonStep, Undisturbed, vars, channelVars, ServiceNow
  <2> QED BY <2>1, LoopStep, CallerStep DEF Next
<1> QED
  BY <1>1, <1>2, TypeInvHolds, OwnReplies, RequestsKept, PTL
  DEF Spec, ImplementsService, Service!Spec
=============================================================================
