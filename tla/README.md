# wifi-ctrl in TLA+

A verification project for `wifi-ctrl`, the Rust library that runs a WiFi
station against `wpa_supplicant` and an access point against `hostapd`. It
models both runtimes: the tasks of `WifiStation::run` and `WifiAp::run`, the clients
that send them requests, the control socket each shares between them, the event
socket, and the daemon at the other end; the life of a station over several calls
of `run()`; and the texts that cross the control socket.

## The system

| Component | State | Operations | Hard behaviour |
|---|---|---|---|
| `sta::RequestClient` (`sta/client.rs`) | the mpsc sender; one oneshot per call | one method per request; `shutdown` | calls of many tasks interleave; a caller may stop waiting; the runtime may be gone |
| Station start-up (`WifiStation::run`, `SocketHandle::open`, `EventSocket::new`) | deferred requests, attempts, two timers | connect, retry, defer, abort, ATTACH, put back | requests and Shutdown arriving while it waits; the channel filling while it puts requests back |
| Station loop (`run_internal`) | `scan_requests`, `select_request` and its timer | `select!` over event socket, channel and timer; `handle_event`; `handle_request` | a handler that awaits the daemon stops the loop; answers that come from later events |
| `SocketHandle` (`socket_handle.rs`) | one datagram socket | `command`, `command_matching`, `request`, `parse_resp` | no reply says what it answers; replies late, missing or refused; a send that waits for room |
| `sta::EventSocket` | a second datagram socket | `recv`, classifying events | events older than the request they seem to answer |
| Broadcasts | tokio broadcast channel | one per event | order against the state of the link |
| Access point (`ap/mod.rs`, `ap/client.rs`, `ap/setup.rs`) | deferred requests; the command at work | the same start-up and loop, every request answered by its one reply | order of events against the state of the stations |
| Access point attach (`ap/event_socket.rs`) | attempts left | `retry_command` for ATTACH and LOG_LEVEL | replies and events on one socket; late replies; nobody reads the channel meanwhile; sends that wait for room |
| Reply parsing (`config.rs`, `sta/types.rs`, `ap/types.rs`) | none | `from_str`, `unprintf`, `vec_from_str`, `parse_get_network` | odd, missing, reordered or cut input must neither fail the whole reply nor mislead |
| Values of SET_NETWORK (`conf_escape`, `Psk`, `Bssid`) | none | check, encode | two encodings that must not be taken for each other |
| `wpa_supplicant`, `hostapd` | external | answer commands, scan, connect, send events | silence, lateness, restart, no longer reading |

The client and the runtime share only the request channel and the oneshot
channels of the answers. The runtime and the daemon share two datagram sockets:
commands and replies on one, ATTACH and events on the other. A handler is run to
its end by one task, so the interleavings that matter are those between the
runtime, the daemon, the callers and the timers; inside a handler they can only
come in where it awaits the daemon.

What makes the components correct:

* client: every call is answered at most once, and told that the runner is not
  running only when it is not;
* loop: every sender it takes from the channel is answered or dropped on
  purpose; what waits for an event is waiting for one that can come;
* control socket: a reply is read by the command it belongs to;
* start-up: requests that arrive during it reach the loop, once and in order;
* access point: past the handshake hostapd has accepted it, and no event is lost
  but those the handshake itself reads;
* several runs: a run starts in step with the daemon, and what is in the channel
  is the next run's;
* texts: what was written is what is read back, or an error;
* all: a daemon that answers nothing, or dies, does not wedge the loop. This needs a daemon that
  goes on reading its socket: `send(..).await` (`socket_handle.rs:102`, `:130`) comes before the
  `select!` with the command timeout, and waits while the queue of the daemon's socket is full. One that
  reads nothing does wedge the loop, Shutdown included, or the handshake of the access point (see Fairness).

## Modules

```
RequestService                                (abstract: what a client promises)
RequestChannel <- ControlSocket <- WpaSupplicant <- Station <- StationProps <- MCStation
                                                                  ^- StationProofs <- ServiceProofs, StationEventProofs
RequestChannel <- ChannelProofs               (lemmas that the proofs of both runtimes cite)
RequestChannel <- Startup <- MCStartup, StartupProofs
RestartableService                            (abstract: the same, over several runs)
StationProps <- Lifecycle <- MCLifecycle      (Lifecycle also INSTANCEs Startup)
Lifecycle, ServiceProofs <- LifecycleProofs
ControlSocket <- AccessPoint <- AccessPointProps <- MCAccessPoint
                                              (AccessPoint INSTANCEs ControlSocket once more)
AccessPointProps <- AccessPointProofs
Text <- SsidText, NetworkParams
SsidText, NetworkParams, ScanTable, ConfigReply <- Codec <- MCCodec, CodecProofs
```

(`A <- B`: B EXTENDS A. Each module declares the variables of its part.)

**RequestChannel** - `sta/client.rs`. An element of `Calls` is one call of a
client method. `queue` is the mpsc channel, `answer[c]` what the oneshot receiver
of `c` resolved to. A call that waits for room in the channel is one not made yet.
A sender has no variable of its own: it is where the call is (`queue`, `op`,
`scan_requests`, `select_request`, `deferred`), and when it is nowhere the caller
may read RecvError (`RecvFails`), as dropping a `oneshot::Sender` makes it.
`answer[c].of` is a history for the properties: the call whose command was answered,
or the network the event was about.

**ControlSocket** - `socket_handle.rs`. `wire` and `replies` are the two directions
of the command socket. `Await(r)` is the `select!` of `command` and `request`;
`Parse` says what they return for a reply: the parser first, and `FAIL` only once
the parser has refused. Which texts a parser accepts is `Accepted`; texts are
members of a small set. (So a FAIL to LIST_NETWORKS or GET_NETWORK, whose parsers take any text, is Ok to the
caller, although the changelog of 0.3.0 says that such responses are sent back.) The queue of the daemon's socket holds `Backlog` datagrams. A command
that finds it full is put at the end of `wire` all the same, where it stands for the send that
waits: `StillSending` says so, no reply and no timeout is looked at until it is over (`HandleReply`), and
when the daemon goes it is what the queue did not hold (`Unsent`), whose send then fails (`SendRefused`).
`call` in a datagram is a history: datagrams carry no
such thing, and no action's guard looks at it. `lapsed` records that some command
was given up on.

**WpaSupplicant** - external. It reads commands in order, answers each with anything
that command may be answered with, or "garbled", or not at all; scans, connects and
reports of its own accord; exits. Answers may come after the handler has given up.

**Station** - `run_internal`, `handle_event`, `handle_request`, `request_results`. `op`
is the command a handler awaits (`InLoop` between handlers), the end of its send (`Sending`)
first. An action is the part of a handler from one await for the daemon to the next: `TakeRequest` up to the first
send, then `SimpleReply`, `ScanReply`, `SelectReply` (which sends STATUS),
`SelectStatusReply`, `ListReply` and `GetNetworkReply` (one round trip for each network
listed), `OnScanComplete` and `ScanResultsReply`. A `?` on an I/O error is
`Return("Io")`, which drops the loop's locals. `link` is what the last
Connected/Disconnected broadcast said.

**StationProps** - the properties and fairness of the station.

**RequestService** - the abstract specification: a call is pending, then answered,
refused or abandoned; answered only while the service is up, refused only once it is
not. `StationProps!Service` is the refinement mapping.

**Startup** - `run` up to `run_internal`: the two opens (`stage` "sync" and "event"),
each with its count, its deadline and its second of sleep; `Defer`, `AbortStartup`,
`SendAttach`, `Resend` and `Ready`. Once the loop runs nothing more happens in it. Startup has no
daemon: that ATTACH waits for room is that `SendAttach` need not come, which is why only
`ReadingDaemonSpec` has fairness for it.

**Lifecycle** - the composition of Startup's actions (an instance) with Station's, and
`RunAgain`: `run` takes `&mut self`, so the owner may call it after it has returned. The
channel outlives a run; the sockets are bound anew in a fresh temporary directory, and
stay connected to the daemon process they were opened to, which may exit and come back
at any time (`daemon`, `up`, `eventUp`). What a run sent and the daemon has not read it reads before the
next run's ATTACH, and answers to sockets that are gone; of this only a scan can be noticed
(`LeftScan`). `Startup`'s history `sent` has no use here and
is instantiated by `runs`.

**RestartableService** - RequestService for several runs: a call that a run had taken
when it ended is orphaned, and refused; one still in the channel is the next run's.

**AccessPoint** - `WifiAp::run` whole: `OpenEnds`/`OpenTakes` (an open, without its clock,
which is in Startup), `Attempt`/`AttemptEnds`/`DelayEnds` (`retry_command`, first for
ATTACH, then for LOG_LEVEL), `Resend`, `Ready`, and the loop: `TakeShutdown`,
`TakeRequest`/`Reply`, `OnEvent`. The event socket is a second ControlSocket (`Ev`):
the replies to the handshake and the events are one stream, `evIn`, and an attempt reads
whatever is next. Both sockets are connected to one of hostapd's, so `evWire \o wire` is the queue that
`Backlog` bounds; an attempt is sent when there is room (`Attempt`), and time passes until then
(`AttemptWaits`). `try.spent` is the time a `retry_command` has taken, `try.waited` what it has waited of it;
`done` and the events `reported`, `swallowed` by an attempt and `delivered` to the listeners are
histories: each event has its number. hostapd is external.

**AccessPointProps** - its properties and its refinement of RequestService.

**Text** - the encodings, over bytes: `conf_escape`, hex, the quotes taken off by
`parse_get_network`, UTF-8; and, external, how the daemon reads a field (`FieldBytes`), how GET_NETWORK
writes one (`FieldText`: printable ASCII between quotes and not escaped, or else hex digits), and
`printf_encode`, which it uses for the names of a scan.

**SsidText** - `unprintf`, one turn of its loop to a step, on a name set with SET_NETWORK and read back with
GET_NETWORK, a name in a scan, whose line may be cut off anywhere, or any text. Bytes are any of 0..255.

**NetworkParams** - `Psk` and `Bssid` from each of their constructors through the field of
SET_NETWORK to what the daemon makes of it. Lengths are constants.

**ConfigReply** - `from_str`, a line to a step, then reading the map as the declared
type: a key is of one of eight classes, those that are not declared among them. Values are the
numbers of their lines. `IsReport` says what a daemon writes for the keys that are declared; a key
that is not may come in any number, under any index and with any value. Other replies are any lines.

**ScanTable** - `vec_from_str`, a line to a step, then the sort.

**Codec** - the last four side by side: one of them has a text, the others have nothing to do.

Some definitions come with a variant next to them (`ScanReplyDropsError`,
`TakeRequestOverSelect`, ...): the form the code would have with a plausible bug, often
one it had. Every property checked fails on at least one of them (`PROJECT.json`,
"mutants").

## Runs

| Run | Question | Bounds |
|---|---|---|
| `sta_select` | selects racing links, timeouts and a dying daemon; refinement of RequestService; does everything resolve, stop, let go, with a daemon that reads and owes nothing else | 2 calls (select, shutdown), capacity 1, a network to select or none, 2 link changes by the daemon, a queue of 1 datagram |
| `sta_mixed` | lists of networks, scans overlapping and failing, channel of capacity 1; is every sender kept where SCAN_RESULTS or GET_NETWORK fails, and every scan answered by a daemon that does its part | 2 calls (AddNetwork, Networks, Scan), 1 scan by the daemon, lists of up to 2 networks |
| `startup` | nothing lost in the start-up, no underflow, it ends | 3 calls, capacity 3, 2 "minutes" of 2 seconds, sleeps up to 1 second late |
| `life` | several runs, the daemon restarted between any two steps, every start-up ends; refinement of RestartableService | 2 calls (select, shutdown), 2 runs, a deadline of 2 attempts, 1 refusal by the daemon |
| `ap` | the access point from its first open to its return; refinement of RequestService | 2 attempts each, a queue of 1 datagram, 1 unit of waiting, 1 station moving twice, 2 calls, capacity 1 |
| `ap_live` | does everything resolve, the handshake end, Shutdown stop, with a hostapd that reads | 2 calls, 2 attempts, a queue of 1 datagram |
| `codec` | names, keys, passphrases, addresses, reports and scan tables read as they were written, or refused | names of up to 4 bytes of 10 that take each branch, characters of two and three bytes among them; passphrases of 2-3 characters, keys of 2 bytes, 2 octets; any 3 lines, reports of up to 3 BSSs and with a key that is not declared; tables of 5 lines |
| `v_stale_reply` | a late FAIL is told to the next caller | 2 STATUS |
| `v_stale_event` | Success for an event about another network | 2 selects |
| `v_startup_stuck` | a full channel wedges the start-up, Shutdown included | 2 calls, capacity 1 |
| `v_attach_minute` | a handshake takes far more than its delays | 10 attempts, a timeout of 12 delays |
| `v_new_keys` | a key that is not declared fails the whole report | as `codec` |

The first seven hold; the `v_` runs are disagreements between the code and what its
documentation says, described under "findings" in `PROJECT.json`.

Why the bounds are enough: the loop works on one request at a time, so what one call
can do to another needs two calls; a third adds only to queues whose order two calls
show already (start-up, where order is the question, has three). Whether the daemon is connected
to the network selected or to none is what the handlers of `sta_select` tell apart; a second network,
with an event about another than the one selected, is in `v_stale_event`, and the theorems are about
any. Two networks in a list take the GET_NETWORK handler through
its first, middle and last step. Two acts of the daemon give an event queued before
and one after a command. `Acts` turns kinds of acts on where they concern the
requests of the run. `MaxEvents` and `MaxListed` are the only bounds on the daemon,
`MaxLate` and `MaxWait` the only ones on time, `MaxRuns` that on calls of `run()`; each call is made at most once. A capacity of 1 makes
the channel full. A `Backlog` of 1 makes a send wait in every run: the ATTACH of the event socket, or
a command a handler has given up on, is enough to fill it; the `v_` runs have one of 2 where their finding
is about something else. `Prompt = TRUE` takes timeouts, silence and death away; it is used
where a property needs a daemon that answers in time (`sta_mixed`), or to show that
a finding needs no misbehaviour. That costs `sta_mixed` little: its invariants but for
`NoRequestLost` are about the time until a command is given up on, and all are proved for any daemon.

`CHECK_DEADLOCK FALSE` throughout: when all calls are made and answered the system
stops. `SYMMETRY` is used only in `ap`, a run of invariants and of the refinement (safety
properties in which calls are interchangeable as well), never with liveness.

In the access point's runs, two attempts are a first whose reply comes late and a second
that reads it; times are only compared, so the timeout and the delay may be small
numbers. Two runs show what one leaves to
the next. Parsers forget what they have read but for what the models keep, so few lines
and few bytes take every pair of neighbours; four bytes hold a whole `\xNN` or a character and another byte, and the texts
unprintf is given are longer (up to 16 bytes once encoded). The lengths of keys and
passphrases are scaled down with their relation kept (`ParamsAssumption`): a passphrase is
shorter than the hex of a key. The readers share no state, so `codec` gives each text to one
of them.

### What they show

* `NoRequestLost`, in `sta_select` with selects, timeouts and a daemon that dies, in `sta_mixed` with
  scans and lists: while `run()` runs, the sender of a caller who waits is in exactly one place. No error path drops it, no path can answer it twice.
* `RepliesInStep`, `RepliesAreOwn`: what pairs replies with commands is only that the
  loop never has two under way. They hold until a command is given up on;
  `v_stale_reply` shows what happens after.
* `SelectNotMissed`: the STATUS after SELECT_NETWORK closes the window in which the
  event has been handled before the select is pending.
* `ScansNotStranded`: why treating FAIL-BUSY as OK is right: a scan is in progress, its
  event is queued, or its results are being fetched.
* `LinkMirrored`: the last link broadcast says how things are, or a newer event is queued.
* `ImplementsService`, in the same two: the station is a RequestService.
* `CallsResolve`, `ShutdownStops`, `SelectLetGo`, `ScanAnswered`:
  liveness, with a daemon that reads what it is sent. `CallsResolve` has it as well that no caller is left
  when the runtime is dropped. `SelectLetGo` is about a select whose caller has gone as well: it stands in
  the way of others only until its timer.
* `StepRegained`, `OwnedOnce`, `ImplementsRestartable`, `EveryStartupEnds`: nothing of one run
  reaches the next but what is still in the channel, a Shutdown included.
* `AckedIsDone`: no event and no late reply is taken for the acceptance of ATTACH; an OK
  to a repeated ATTACH may be taken for that of LOG_LEVEL, but only after a timeout.
* `EventsKept`: each event hostapd has sent, whatever came before it, is broadcast or still in the
  socket, unless an attempt of the handshake read that very event. `StationsMirrored`: what listeners were
  last told of a station is how it is, or a newer event is queued.
* `HandshakeBounded`: the true bound of a `retry_command` but for its waits in `send`: an attempt may take
  the command timeout (3 s) on top of the delay (250 ms), so 240 attempts may take 13 minutes where
  `ap/setup.rs:10` and the changelog count the delays alone, "roughly a minute"; `v_attach_minute`
  (`BoundedByDelays`) shows it. A hostapd that reads nothing makes them wait without a bound.
* `ApNoRequestLost`, `ApRepliesAreOwn`, `ApImplementsService`, `ApCallsResolve`,
  `HandshakeEnds`, `ApShutdownStops`: as for the station, with a hostapd that reads. `ApShutdownStops` needs
  room in the channel as well, as `StartupEnds` does: `v_startup_stuck` is of the station, and
  `ap/mod.rs:60` is the same code.
* `SsidComesBack`: a name in a scan reads as it is on the air, or is refused when it is not UTF-8. A name
  that was set reads back as it was set if it is printable ASCII without a backslash and without a quote at
  an end. The daemon gives such a name between quotes and does not escape it, so that of others `unprintf`
  or `trim_matches` takes something away (`a\b` is listed as `ab`); and it gives a name outside
  printable ASCII as hex digits, which are listed for the name.
  `CutNeverMisleads`: of the line where the results of a scan were cut off, a name is read as its
  beginning or refused.
* `ReadBack`, `BssidCanonical`: what the daemon reads is what the caller
  built, and no text is both a key and a passphrase.
* `Aligned`: no line that is missing, doubled or out of order shifts a list.
  `ReportsParse`: keys may be missing, empty or N/A as they are declared, and a key that is not
  declared does no harm as long as it is a single text that `unprintf` takes. Such a key with several
  elements, an index other than 0 or a broken escape fails the whole report, and it is all that can
  (`v_new_keys`, against `sta/types.rs:124`).
* `ScanIsWhole`: odd lines cost only themselves.
* `DeferredInOrder`, `ReadyLosesNothing`, `MinutesLeftDefined`, `StartupEnds`: start-up.

### Fairness

`FairSpec` has weak fairness on `Runner` (the task is polled when one of its branches is
ready, and a command timeout elapses once the command is sent), on `TimerExpires` (a tokio sleep elapses),
on `CallFails` (a caller whose sender was dropped is woken) and on `SendRefused` (a send that waits for
a socket that is closed meanwhile is woken with an error). Clients, the owner of the
runtime and the daemon owe nothing; a `recv` need not notice that the daemon has gone.

The code has no timeout on sending, so liveness is had only with a daemon that reads:
`ReadingDaemonSpec` adds weak fairness on its taking the next datagram from its socket, to answer it or to
ignore it, while it is there. It is an assumption about the daemon, the least one, and not one the code
justifies: under `FairSpec` alone three requests and a queue of two refute `ShutdownStops`, as attempts beyond
the length of the queue do `HandshakeEnds`. The changelog of 0.3.0, "previously a reply-less
response could freeze the runtime, including shutdown handling", is right of a daemon that does not answer,
and not of one that does not read. `ResponsiveDaemonSpec` has the daemon also answer what it
reads and end its scans. `select!` picks a ready branch at
random; weak fairness of the whole loop does not promise each branch its turn, and the
liveness properties do not need it, because callers and events are finitely many.

In `Startup`, `FairSpec` is on the task and its two timers, and `ReadingDaemonSpec` on `SendAttach` as well;
in Lifecycle, `LifeFairSpec` is on the same steps. In AccessPoint, `FairSpec` has the task (`Runner`, the opens' ends
included: their deadline is checked in `startup`), the delay of `retry_command`, `CallFails` and
`SendRefused`; `ReadingHostapdSpec` adds that hostapd reads.

## Proofs

For every value of the constants that meets the modules' assumptions (any calls,
requests, capacity, networks, stations, retries, times, number of events):

| Theorem | States | Module |
|---|---|---|
| `TypeInvHolds`, `TypeCorrect` | `Spec => []TypeInv`, `Spec => []TypeOK` | StationProofs |
| `InStep` | `Spec => []RepliesInStep` | StationProofs |
| `OwnReplies` | `Spec => []RepliesAreOwn` | StationProofs |
| `RequestsKept` | `Spec => []NoRequestLost` | ServiceProofs |
| `StationImplementsService` | `Spec => ImplementsService` | ServiceProofs |
| `ScansAwaited` | `Spec => []ScansNotStranded` | StationEventProofs |
| `SelectsAwaited` | `Spec => []SelectNotMissed` | StationEventProofs |
| `LinkBroadcast` | `Spec => []LinkMirrored` | StationEventProofs |
| `DeferredKeepOrder`, `StartLosesNothing` | `Spec => []DeferredInOrder`, `Spec => []ReadyLosesNothing` | StartupProofs |
| `MinutesLeft` | `Spec => []MinutesLeftDefined` | StartupProofs |
| `ApTypeInvHolds`, `ApTypeCorrect` | `Spec => []ApTypeInv`, `Spec => []ApTypeOK` | AccessPointProofs |
| `HandshakeTakes` | `Spec => []HandshakeBounded` | AccessPointProofs |
| `AcknowledgedIsDone` | `Spec => []AckedIsDone` | AccessPointProofs |
| `NoEventLost`, `ListenersMirror` | `Spec => []EventsKept`, `Spec => []StationsMirrored` | AccessPointProofs |
| `ApOwnReplies` | `Spec => []ApRepliesAreOwn` | AccessPointProofs |
| `ApRequestsKept` | `Spec => []ApNoRequestLost` | AccessPointProofs |
| `AccessPointImplementsService` | `Spec => ApImplementsService` | AccessPointProofs |
| `LifeTypes` | `LifeSpec => []LifeType` | LifecycleProofs |
| `InStepInEachRun`, `OwnedInEachRun` | `LifeSpec => []StepRegained`, `LifeSpec => []OwnedOnce` | LifecycleProofs |
| `LifeImplementsService` | `LifeSpec => ImplementsRestartable` | LifecycleProofs |
| `NamesComeBack`, `CutNamesNeverMislead` | `SsidSpec => []SsidComesBack`, `SsidSpec => []CutNeverMisleads` | CodecProofs |
| `ValuesReadBack`, `BssidsStay` | `ParamsSpec => []ReadBack`, `[]BssidCanonical` | CodecProofs |
| `ListsAligned`, `ReportsAreRead` | `Spec => []Aligned`, `Spec => []ReportsParse` | CodecProofs |
| `ScansAreWhole` | `ScanSpec => []ScanIsWhole` | CodecProofs |
| `ReadersKeepTheirWord` | `CodecSpec => []` of these seven | CodecProofs |

The station. `TypeOK` is not inductive: a handler reads the request of the call it works
for, so `TypeInv` adds `Made` (what the runtime holds was sent) and `HandlersFit` (the command
awaited is one that the handler of that request sends, `scan_requests` holds scans, a select at
work has no other pending). `RepliesInStep` is inductive with it: a handler sends only
when nothing is under way (`IdleQuiet`, `AfterReply`). `RepliesAreOwn` follows, with
`Unmade` (nobody is told anything unasked): a handler answers with the reply it has just
read. `NoRequestLost` is inductive with `TypeInv`: each action takes the head of the
channel, moves the sender from `op` to one other place that did not have it, or answers
and empties the place. The refinement needs it for one step: a call that is refused
because nobody owns its sender implies that `run()` has returned.

The station's events. A handler puts a request among those that wait for an event because of a
reply, and the daemon may act between that reply and its being read. `ScanInv` and `SelectInv`
say of a reply still in the socket what must hold of it then: an accepted SCAN has its scan
still going or its event queued; the network a STATUS names is the current one, or there is
none, or Connected is queued. What keeps this true is that events are read only between
handlers, when (`RepliesInStep`) no reply is there; and that nothing is answered before
ATTACH has been read (`AttachInv`), so that no event is missed. `LinkInv` is about the newest
link event in the socket: it says how the link is, and when it is read it becomes the broadcast.

Start-up. `StartInv` adds to `DeferredInOrder` that what was sent is in the channel or deferred,
in one place and once (`AllHeld`). `CountInv` keeps the count of attempts behind the clock: each
failed one is followed by a second at least.

The access point. `ApTypeInv` is made like `TypeInv`. `SpentInv` bounds the time of a
`retry_command` by the attempts it has begun and the time it has waited: at each of its three places it says
what of the attempt's time is still to come. `AckInv` says that an OK in the event socket
is one to a command done, and `InOrder`, while no attempt has timed out, what the socket may
hold at each stage. `MirrorInv` is `LinkInv` for each station, plus that nobody knows of a
station before the loop, plus `EventsKept` itself, which is inductive: what takes an event from the
socket is either an attempt, which makes it `swallowed`, or the loop, which makes it `delivered`. `ApInStep` and `ApOwnerInv` are the station's with fewer places, from
the first open on.

Several runs. A step of the loop is one of Station, so what is proved of those steps is used
as it is: `LifeType` has the station's `TypeInv` in the loop, and in a start-up, which has its
own types (`deferred`), that no handler is at work (`Idle`). The types are those of the phase
because the loop's locals go with a run. `StepInv` adds that sockets are bound anew: when a
start-up begins nothing is under way, whatever the last run left unread. `LifeOwner` is the
station's argument of the one owner, made a lemma over any way of owning (`OwnerInv(O)` in
ServiceProofs), for `HeldByRun`: the channel, the deferred requests and the loop's places. A
waiting call that this run does not hold is an orphan, one that an earlier run ended with, and
the refinement is of a RestartableService whose orphans are those; in the first run there are
none. No bound on the runs is needed: `MaxRuns` may be any number.

Text. What a fold makes of its arguments needs induction over data, which the library's
induction theorems do not give without an operator as their parameter. It is had otherwise:
inclusion of finite sets is well founded (`FS_StrictSubsetOrderingWellFounded`), so a set of
numbers has a least element (`LeastElement`), so a set with 0 and closed under successors has all numbers
(`SetInduction`), so `FlattenSeq` joins its pieces one behind another (`JoinExists`,
`FlattenJoins`), each at the sum of the lengths before it (`FlattenStarts`). From there on
`printf_encode`, hex and `conf_escape` are known by place.

* `SsidInv`: of a scan, the text is the first m bytes of the encoding, and `unprintf` is between
  two bytes of the name, at the start of the piece of the next (`Within`, `ReadTo`); a cut only makes m smaller, so a
  piece can be cut off but not changed. Of a name that was set, what the daemon reads is the name
  (`ConfRoundTrip`); its text without quotes is the name or its hex digits, and has no
  backslash (`GivenIs`, for the names that are `Listable`), so `unprintf` copies it byte by byte (`ReadPlain`),
  and what it copies is ASCII (`AsciiIsUtf8`).
* `ParamsInv`: what is held is a passphrase of the length and alphabet checked, a key of the
  length or the octets read so far or given, so what is sent is in quotes exactly when it is a
  passphrase. `MaxPass < 2 * KeyBytes` is used only to tell a text that is a passphrase from one that is a key.
* `Aligned` is inductive with `ConfigTypeOK`: `TakeLine` puts its line behind the values of its
  key, at the place its index names, and moves nothing; the second conjunct (every line read
  is where it says) is what makes the first more than a fact about the map.
* `ReportsParse` needs to know what a report is: `IsReport`, an assumption on the constant
  `Reports` that TLC evaluates for those of the run. Of the keys that are declared, each value is written as its key
  is, a list is numbered as it comes, a key that must be there is, and no other is there twice; of the others it
  says that their lines are well formed. `ReportInv` is the property with `Aligned`: by
  `Aligned` a key has as many values as it has lines (`Collected`), so an index out of turn, or a key that
  does not fit its class, is one of `NewKeyUnreadable`.
* `ScanInv`: each entry of the lines read so far is a result once. `Sort` puts each result behind
  those before it in the order; that order is total, so the places are 1 to N and each is
  taken once (`PlacesInOrder`, `SortIsWhole`), and it is the stable one that `sort_by_key` makes.

Each reader's invariant holds of it with nothing to do as well (`IdleReaders`), which gives the
seven properties for `CodecSpec`, the specification the run checks.

The assumptions are `ChannelAssumption`, `SocketAssumption`, `DaemonAssumption`,
`StationAssumption`, `AccessPointAssumption`, `RequestsAssumption`, `StartupAssumption`,
`LifecycleAssumption`, `ReplyAssumption`, `SsidAssumption`, `ParamsAssumption` and
`TableAssumption`; TLC evaluates each in every run of its module.

Only model-checked: liveness (`CallsResolve`, `ShutdownStops`, `SelectLetGo`,
`ScanAnswered`, `StartupEnds`, `EveryStartupEnds`, `ApCallsResolve`, `HandshakeEnds`,
`ApShutdownStops`). Fairness and ENABLED are out of the prover's reach and stay with TLC. Every
invariant and every refinement that a run checks is proved.

## Not modelled

* Event matching (`contains`, `ends_with`): events enter already classified.
* The columns of LIST_NETWORKS but the id, the fields of STATUS but its id, the numbers and
  names in reports beyond what they may be read as; the table of `KeyMgmt`; redaction in logs.
* A short write (`DidNotWriteAllBytes`): a datagram is sent whole or not at all. The limit on a send is the
  length of the receiver's queue; that of the sender's buffer (SO_SNDBUF), which has the same effect, is not
  a second one.
* In `Startup`, the queue that ATTACH waits for: the wait is a step that need not come.
* The future of `run()` being dropped halfway.
* Broadcast receivers that lag, and receivers across runs.
* A caller waiting for room in the channel, as a state: it is a call not made yet. The
  runtime's own waiting for room is modelled (`Resend`).
* How the daemons encode: `printf_encode`, the reading of fields and what GET_NETWORK writes are external,
  not under `src/`: they are taken from how `wpa_supplicant` and `hostapd` are known to behave, and the
  properties that rest on them (`SsidComesBack`, `ReadBack`) say so.
* The examples, interactive programs over the library.

## Plan

Done: the station, start-up, several runs, the access point, the codec, the values of
SET_NETWORK, the reports and the scan table; proofs of every invariant and every refinement
the runs check. Left, in order:

1. Action properties and stronger forms of what is proved: a reply is consumed by the command
   it answers, the orphans of a run are exactly what it had taken.
2. The columns of LIST_NETWORKS and the typed fields of STATUS.
3. A daemon that stops reading for a time and goes on: what of a wait in `send` each caller sees.
