---------------------------- MODULE StartupProofs ----------------------------
(***************************************************************************)
(* Proofs about WifiStation::run before its loop (src/sta/mod.rs): through *)
(* both opens the requests deferred and those in the channel are the ones  *)
(* sent, in order; when the loop starts none is missing or doubled; and    *)
(* the minutes left that an open logs are defined.                         *)
(***************************************************************************)
EXTENDS Startup, ChannelProofs

\* The types the two sequences of calls have, and who was heard of.
StartType ==
  /\ queue \in Seq(Calls) /\ deferred \in Seq(Calls) /\ sent \in Seq(Calls)
  /\ request \in [Calls -> Requests \cup {NoRequest}]
  /\ \A c \in Range(sent) : request[c] # NoRequest

\* What was sent is in the channel or deferred, in one place and once.
AllHeld ==
  Starting \/ runner = "running" =>
    /\ Once(queue) /\ Once(deferred) /\ Range(queue) \cap Range(deferred) = {}
    /\ Range(sent) = Held

\* DeferredInOrder, and before the first open nothing else; ReadyLosesNothing
\* needs AllHeld, which says where the calls not yet put back are.
StartInv ==
  /\ StartType /\ AllHeld /\ DeferredInOrder
  /\ runner = "running" => deferred = <<>>

\* Taking a request from the channel and deferring it changes nothing in the order
\* of the whole.
LEMMA DeferOrder ==
  ASSUME NEW S, NEW s \in Seq(S), NEW t \in Seq(S), t # <<>>
  PROVE  Append(s, Head(t)) \o Tail(t) = s \o t
<1>1. /\ Len(s) \in Nat /\ Len(t) \in Nat /\ Len(t) # 0 /\ Head(t) = t[1] /\ Head(t) \in S
      /\ Tail(t) \in Seq(S) /\ Len(Tail(t)) = Len(t) - 1
      /\ \A i \in 1..(Len(t) - 1) : Tail(t)[i] = t[i + 1]
  OBVIOUS
<1> DEFINE u == Append(s, Head(t))
<1>2. /\ u \in Seq(S) /\ Len(u) = Len(s) + 1 /\ u[Len(s) + 1] = t[1]
      /\ \A i \in 1..Len(s) : u[i] = s[i]
  BY <1>1
<1> DEFINE a == u \o Tail(t)
           b == s \o t
<1> HIDE DEF u
<1>3. /\ a \in Seq(S) /\ Len(a) = Len(u) + Len(Tail(t))
      /\ \A i \in 1..Len(a) : a[i] = IF i <= Len(u) THEN u[i] ELSE Tail(t)[i - Len(u)]
  <2>1. u \in Seq(S) /\ Tail(t) \in Seq(S)
    BY <1>1, <1>2
  <2> QED BY <2>1, ConcatElements
<1>4. /\ b \in Seq(S) /\ Len(b) = Len(s) + Len(t)
      /\ \A i \in 1..Len(b) : b[i] = IF i <= Len(s) THEN s[i] ELSE t[i - Len(s)]
  BY ConcatElements
<1> HIDE DEF a, b
<1>5. Len(a) = Len(b) /\ Len(b) \in Nat
  BY <1>1, <1>2, <1>3, <1>4
<1>6. ASSUME NEW i \in 1..Len(b) PROVE a[i] = b[i]
  <2>1. CASE i <= Len(s)
    <3>1. i \in 1..Len(s) /\ i <= Len(u)
      BY <1>1, <1>2, <2>1
    <3>2. a[i] = u[i] /\ b[i] = s[i]
      BY <1>3, <1>4, <1>5, <2>1, <3>1
    <3> QED BY <1>2, <3>1, <3>2
  <2>2. CASE i = Len(s) + 1
    <3>1. i - Len(s) = 1 /\ i <= Len(u) /\ ~(i <= Len(s))
      BY <1>1, <1>2, <2>2
    <3>2. a[i] = u[i]
      BY <1>3, <1>5, <3>1
    <3>3. u[i] = t[1]
      BY <1>2, <2>2
    <3>4. b[i] = t[1]
      BY <1>4, <3>1
    <3> QED BY <3>2, <3>3, <3>4
  <2>3. CASE i > Len(s) + 1
    <3>1. i - Len(u) \in 1..(Len(t) - 1) /\ (i - Len(u)) + 1 = i - Len(s) /\ ~(i <= Len(u))
      BY <1>1, <1>2, <1>4, <2>3
    <3>2. ~(i <= Len(s))
      BY <1>1, <2>3
    <3> QED BY <1>1, <1>3, <1>4, <1>5, <3>1, <3>2
  <2> QED BY <1>1, <2>1, <2>2, <2>3
<1>7. a = b
  BY <1>3, <1>4, <1>5, <1>6
<1> QED BY <1>7 DEF a, b, u

\* Sending behind what is deferred and queued.
LEMMA SendOrder ==
  ASSUME NEW S, NEW s \in Seq(S), NEW t \in Seq(S), NEW e \in S
  PROVE  s \o Append(t, e) = Append(s \o t, e)
OBVIOUS

\* When the requests put back are taken and sent, or run() ends, the calls it holds
\* are the ones sent.
LEMMA StartStep == StartInv /\ [Next]_vars => StartInv'
<1> SUFFICES ASSUME StartInv, [Next]_vars PROVE StartInv'
  OBVIOUS
<1> USE DEF startVars, openVars
<1>t. StartType
  BY DEF StartInv
<1>s. queue \in Seq(Calls) /\ deferred \in Seq(Calls) /\ sent \in Seq(Calls)
  BY DEF StartInv, StartType
<1>f. \A result \in {"PermissionDenied", "TimeoutOpeningSocket", "StartupAborted", "Io"},
         q \in Seq(Calls) :
        Fail(result) /\ queue' = q => StartInv'
  BY <1>t DEF Fail, StartInv, StartType, AllHeld, DeferredInOrder, Starting, Opening
<1>1. CASE Defer
  <2>1. /\ queue # <<>> /\ deferred' = Append(deferred, Head(queue)) /\ queue' = Tail(queue)
        /\ UNCHANGED <<request, runner, stage, sent>> /\ Opening
    BY <1>1 DEF Defer
  <2>2. Starting /\ Once(queue) /\ Once(deferred) /\ Range(queue) \cap Range(deferred) = {}
        /\ Range(sent) = Range(queue) \cup Range(deferred)
    BY <2>1 DEF StartInv, AllHeld, Opening, Held
  <2>3. /\ Head(queue) \in Calls /\ Once(queue') /\ Head(queue) \notin Range(queue')
        /\ Range(queue) = {Head(queue)} \cup Range(queue') /\ queue' \in Seq(Calls)
    BY <1>s, <2>1, <2>2, TailOnce, RangeTail
  <2>4. /\ deferred' \in Seq(Calls) /\ Once(deferred')
        /\ Range(deferred') = Range(deferred) \cup {Head(queue)}
    BY <1>s, <2>1, <2>2, <2>3, AppendOnce
  <2>5. deferred' \o queue' = deferred \o queue
    BY <1>s, <2>1, DeferOrder
  <2>6. AllHeld'
    BY <2>1, <2>2, <2>3, <2>4 DEF AllHeld, Held
  <2>7. DeferredInOrder' /\ StartType'
    BY <1>t, <2>1, <2>3, <2>4, <2>5 DEF StartInv, DeferredInOrder, StartType
  <2> QED BY <2>1, <2>6, <2>7 DEF StartInv, Opening, Starting
<1>2. CASE Resend
  <2>1. /\ deferred # <<>> /\ queue' = Append(queue, Head(deferred)) /\ deferred' = Tail(deferred)
        /\ UNCHANGED <<request, runner, stage, sent>> /\ Starting /\ stage = "resend"
    BY <1>2 DEF Resend
  <2>2. Once(queue) /\ Once(deferred) /\ Range(queue) \cap Range(deferred) = {}
        /\ Range(sent) = Range(queue) \cup Range(deferred)
    BY <2>1 DEF StartInv, AllHeld, Held
  <2>3. /\ Head(deferred) \in Calls /\ Once(deferred') /\ Head(deferred) \notin Range(deferred')
        /\ Range(deferred) = {Head(deferred)} \cup Range(deferred') /\ deferred' \in Seq(Calls)
    BY <1>s, <2>1, <2>2, TailOnce, RangeTail
  <2>4. /\ queue' \in Seq(Calls) /\ Once(queue')
        /\ Range(queue') = Range(queue) \cup {Head(deferred)}
    BY <1>s, <2>1, <2>2, <2>3, AppendOnce
  <2>5. AllHeld'
    BY <2>1, <2>2, <2>3, <2>4 DEF AllHeld, Held
  <2> QED BY <1>t, <2>1, <2>3, <2>4, <2>5 DEF StartInv, DeferredInOrder, StartType, Opening, Starting
<1>3. CASE Clients /\ \E c \in Calls, q \in Requests : Send(c, q) /\ sent' = Append(sent, c)
  <2>1. PICK c \in Calls, q \in Requests : Send(c, q) /\ sent' = Append(sent, c)
    BY <1>3
  <2>2. /\ request[c] = NoRequest /\ request' = [request EXCEPT ![c] = q]
        /\ queue' = Append(queue, c) /\ UNCHANGED <<runner, stage, deferred>>
        /\ runner # "running"
    BY <1>3, <2>1 DEF Send, Clients
  <2>3. /\ q # NoRequest /\ c \notin Range(sent)
    BY <1>t, <2>2, ChannelAssumption DEF StartType, NoRequest
  <2>4. /\ request' \in [Calls -> Requests \cup {NoRequest}]
        /\ \A d \in Calls : request[d] # NoRequest => request'[d] # NoRequest
        /\ request'[c] # NoRequest
    BY <1>t, <2>2, <2>3 DEF StartType
  <2>5. sent' \in Seq(Calls) /\ Range(sent') = Range(sent) \cup {c} /\ queue' \in Seq(Calls)
        /\ Range(queue') = Range(queue) \cup {c}
    BY <1>s, <2>1, <2>2, RangeAppend
  <2>6. StartType'
    <3>1. Range(sent) \subseteq Calls
      BY <1>s DEF Range
    <3> QED BY <1>t, <2>2, <2>4, <2>5, <3>1 DEF StartType
  <2>7. AllHeld'
    <3>1. SUFFICES ASSUME Starting PROVE AllHeld'
      BY <2>2 DEF AllHeld, Starting
    <3>2. Once(queue) /\ Once(deferred) /\ Range(queue) \cap Range(deferred) = {}
          /\ Range(sent) = Range(queue) \cup Range(deferred)
      BY <3>1 DEF StartInv, AllHeld, Held
    <3>3. Once(queue')
      BY <1>s, <2>2, <2>3, <3>2, AppendOnce
    <3> QED BY <2>2, <2>3, <2>5, <3>2, <3>3 DEF AllHeld, Held
  <2>8. DeferredInOrder'
    <3>1. deferred' \o queue' = Append(deferred \o queue, c)
      BY <1>s, <2>2, SendOrder
    <3> QED BY <2>1, <2>2, <3>1 DEF StartInv, DeferredInOrder, Opening, Starting
  <2> QED BY <2>2, <2>6, <2>7, <2>8 DEF StartInv
<1>4. CASE Clients /\ \E c \in Calls, q \in Requests : SendFails(c, q) /\ UNCHANGED sent
  <2>1. PICK c \in Calls, q \in Requests : SendFails(c, q)
    BY <1>4
  <2>2. /\ request' = [request EXCEPT ![c] = q] /\ runner = "dropped"
        /\ UNCHANGED <<queue, runner, stage, deferred, sent>>
    BY <1>4, <2>1 DEF SendFails, Clients
  <2>3. q # NoRequest
    BY ChannelAssumption DEF NoRequest
  <2>4. /\ request' \in [Calls -> Requests \cup {NoRequest}]
        /\ \A d \in Calls : request[d] # NoRequest => request'[d] # NoRequest
    BY <1>t, <2>2, <2>3 DEF StartType
  <2>5. Range(sent) \subseteq Calls
    BY <1>s DEF Range
  <2> QED BY <1>t, <2>2, <2>4, <2>5
      DEF StartInv, StartType, AllHeld, DeferredInOrder, Opening, Starting
<1>5. CASE Clients /\ (DropRuntime \/ \E c \in Calls : RecvFails(c, Held) \/ Abandon(c))
                   /\ UNCHANGED sent
  <2>1. UNCHANGED <<request, stage, deferred, sent>>
    BY <1>5 DEF Clients, DropRuntime, RecvFails, Abandon
  <2>2. \/ UNCHANGED <<queue, runner>>
        \/ queue' = <<>> /\ runner' = "dropped"
    BY <1>5 DEF DropRuntime, RecvFails, Abandon
  <2>3. CASE UNCHANGED <<queue, runner>>
    BY <1>t, <2>1, <2>3
    DEF StartInv, StartType, AllHeld, DeferredInOrder, Opening, Starting, Held
  <2>4. CASE queue' = <<>> /\ runner' = "dropped"
    BY <1>t, <2>1, <2>4
    DEF StartInv, StartType, AllHeld, DeferredInOrder, Opening, Starting
  <2> QED BY <2>2, <2>3, <2>4
<1>6. CASE ConnectDenied \/ AbortStartup \/ OpenTimeout
  <2>1. queue' \in Seq(Calls)
    <3>1. UNCHANGED queue \/ (queue # <<>> /\ queue' = Tail(queue))
      BY <1>6 DEF ConnectDenied, AbortStartup, OpenTimeout
    <3>2. queue # <<>> => Tail(queue) \in Seq(Calls)
      BY <1>s
    <3> QED BY <1>s, <3>1, <3>2
  <2> QED BY <1>6, <1>f, <2>1 DEF ConnectDenied, AbortStartup, OpenTimeout
<1>7. CASE SendAttach
  <2>1. CASE Fail("Io") /\ UNCHANGED queue
    BY <1>f, <1>s, <2>1
  <2>2. CASE stage' = "resend" /\ UNCHANGED <<channelVars, deferred, openVars, sent>>
    BY <1>t, <2>2 DEF StartInv, StartType, AllHeld, DeferredInOrder, Opening, Starting, Held,
                      channelVars
  <2> QED BY <1>7, <2>1, <2>2 DEF SendAttach
<1>8. CASE ConnectOk \/ ConnectRetry \/ Wake \/ UNCHANGED vars
  <2>1. UNCHANGED <<request, queue, runner, deferred, sent>> /\ (UNCHANGED stage \/ Opening)
    BY <1>8 DEF ConnectOk, ConnectRetry, Wake, vars, channelVars
  <2> QED BY <1>t, <2>1 DEF StartInv, StartType, AllHeld, DeferredInOrder, Opening, Starting, Held
<1>9. CASE Ready
  BY <1>9, <1>t DEF Ready, StartInv, StartType, AllHeld, DeferredInOrder, Opening, Starting, Held
<1> QED BY <1>1, <1>2, <1>3, <1>4, <1>5, <1>6, <1>7, <1>8, <1>9 DEF Next, Runner, Clients

\* Before the first open nothing was sent.
LEMMA StartInit == Init => StartInv
<1> SUFFICES ASSUME Init PROVE StartInv
  OBVIOUS
<1>1. queue = <<>> /\ deferred = <<>> /\ sent = <<>> /\ runner = "starting"
      /\ request \in [Calls -> Requests \cup {NoRequest}]
  BY DEF Init, ChannelInit
<1>2. Range(queue) = {} /\ Range(deferred) = {} /\ Range(sent) = {}
  BY <1>1 DEF Range
<1>3. deferred \o queue = sent
  BY <1>1
<1> QED BY <1>1, <1>2, <1>3
    DEF StartInv, StartType, AllHeld, DeferredInOrder, Once, Held

\* While the sockets are opened, the requests deferred and then those in the channel
\* are the ones sent, in the order they were sent.
THEOREM DeferredKeepOrder == Spec => []DeferredInOrder
<1>1. StartInv => DeferredInOrder
  BY DEF StartInv
<1> QED BY <1>1, StartInit, StartStep, PTL DEF Spec

\* When run_internal starts, every request sent so far is in the channel, once.
THEOREM StartLosesNothing == Spec => []ReadyLosesNothing
<1>1. ASSUME StartInv, runner = "running"
      PROVE  /\ Range(queue) = Range(sent)
             /\ \A i, j \in DOMAIN queue : queue[i] = queue[j] => i = j
  <2>1. deferred = <<>> /\ Once(queue) /\ Range(sent) = Held
    BY <1>1 DEF StartInv, AllHeld
  <2>2. Range(deferred) = {}
    BY <2>1 DEF Range
  <2>3. Held = Range(queue)
    BY <2>2 DEF Held
  <2> QED BY <2>1, <2>3 DEF Once
<1>2. StartInv => ReadyLosesNothing
  BY <1>1 DEF ReadyLosesNothing
<1> QED BY <1>2, StartInit, StartStep, PTL DEF Spec

-----------------------------------------------------------------------------
(* The minutes left. *)

\* Each attempt that failed was followed by a second at least, and by none once
\* the deadline had passed.
CountInv ==
  /\ loop_count \in Nat /\ elapsed \in Nat /\ asleep \in BOOLEAN
  /\ asleep => loop_count <= elapsed + 1
  /\ ~asleep => loop_count <= elapsed /\ loop_count <= Deadline

\* Every attempt and every second of an open keeps the count behind the clock.
LEMMA CountStep == CountInv /\ [Next]_vars => CountInv'
<1> SUFFICES ASSUME CountInv, [Next]_vars PROVE CountInv'
  OBVIOUS
<1> USE DEF startVars, openVars
<1>0. Deadline \in Nat /\ Deadline' = Deadline
  BY StartupAssumption DEF Deadline
<1>1. CASE ConnectOk
  <2>1. loop_count' = 0 /\ elapsed' = 0 /\ asleep' = FALSE
    BY <1>1 DEF ConnectOk
  <2>2. /\ loop_count' \in Nat /\ elapsed' \in Nat
        /\ loop_count' <= elapsed' /\ loop_count' <= Deadline
    BY <1>0, <2>1
  <2> QED BY <1>0, <2>1, <2>2 DEF CountInv
<1>2. CASE ConnectRetry
  BY <1>0, <1>2 DEF ConnectRetry, CountInv
<1>3. CASE Wake
  <2>1. PICK late \in 0..MaxLate : elapsed' = elapsed + 1 + late
    BY <1>3 DEF Wake
  <2>2. late \in Nat
    BY StartupAssumption
  <2>3. /\ asleep /\ elapsed < Deadline /\ asleep' = FALSE /\ UNCHANGED loop_count
    BY <1>3 DEF Wake
  <2>4. /\ loop_count' \in Nat /\ elapsed' \in Nat
        /\ loop_count' <= elapsed' /\ loop_count' <= Deadline
    BY <1>0, <2>1, <2>2, <2>3 DEF CountInv
  <2> QED BY <1>0, <2>3, <2>4 DEF CountInv
<1>4. CASE UNCHANGED openVars
  BY <1>4 DEF CountInv, Deadline
<1>5. ConnectOk \/ ConnectRetry \/ Wake \/ UNCHANGED openVars
  BY DEF Next, Runner, vars, ConnectDenied, Defer, AbortStartup, SendAttach, Resend, Ready,
         OpenTimeout, Clients, Fail
<1> QED BY <1>1, <1>2, <1>3, <1>4, <1>5

\* Minutes are whole: an attempt more than that of the deadline is in the same one.
LEMMA WholeMinutes ==
  ASSUME NEW n \in Nat, NEW m \in Nat, NEW k \in Nat \ {0, 1}, n <= m * k
  PROVE  (n + 1) \div k <= m
<1> DEFINE q == (n + 1) \div k
<1>1. q \in Nat /\ k * q <= n + 1
  OBVIOUS
<1> HIDE DEF q
<1>2. SUFFICES ASSUME q >= m + 1 PROVE FALSE
  BY <1>1 DEF q
<1>3. PICK d \in Nat : q = m + 1 + d
  <2>1. q - (m + 1) \in Nat /\ q = m + 1 + (q - (m + 1))
    BY <1>1, <1>2
  <2> QED BY <2>1
<1>4. k * (m + 1 + d) = m * k + k + k * d /\ k * d \in Nat /\ m * k \in Nat
  OBVIOUS
<1> QED BY <1>1, <1>3, <1>4

\* RETRY_MINUTES-(loop_count+1)/60, which SocketHandle::open logs, never goes below
\* zero, however late its sleeps are.
THEOREM MinutesLeft == Spec => []MinutesLeftDefined
<1>1. Init => CountInv
  <2> SUFFICES ASSUME Init PROVE CountInv
    OBVIOUS
  <2>1. loop_count = 0 /\ elapsed = 0 /\ asleep = FALSE /\ Deadline \in Nat
    BY StartupAssumption DEF Init, OpenInit, Deadline
  <2>2. loop_count \in Nat /\ elapsed \in Nat /\ loop_count <= elapsed /\ loop_count <= Deadline
    BY <2>1
  <2> QED BY <2>1, <2>2 DEF CountInv
<1>2. CountInv => MinutesLeftDefined
  <2> SUFFICES ASSUME CountInv, ~asleep
               PROVE  (loop_count + 1) \div SecondsPerMinute <= RetryMinutes
    BY DEF MinutesLeftDefined
  <2>1. loop_count \in Nat /\ loop_count <= RetryMinutes * SecondsPerMinute
    BY DEF CountInv, Deadline
  <2> QED BY <2>1, WholeMinutes, StartupAssumption
<1> QED BY <1>1, <1>2, CountStep, PTL DEF Spec
=============================================================================
