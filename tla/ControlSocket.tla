---------------------------- MODULE ControlSocket ----------------------------
(***************************************************************************)
(* SocketHandle::command, command_matching, request and parse_resp         *)
(* (src/socket_handle.rs): one datagram out, then whichever comes first of *)
(* the next datagram in and the command timeout.                           *)
(*                                                                         *)
(* The timeout covers only the second part.  send(..).await is outside the *)
(* select!: when the queue of the daemon's socket is full it waits, for as *)
(* long as the daemon does not read.                                       *)
(*                                                                         *)
(* Nothing in a datagram says which command it answers, and a handler that *)
(* gives up leaves the answer it did not wait for in the socket.           *)
(***************************************************************************)
EXTENDS RequestChannel

CONSTANTS
  Prompt,    \* TRUE when the daemon answers every command within the timeout
  Backlog    \* datagrams the queue of its socket holds (net.unix.max_dgram_qlen)

ASSUME SocketAssumption == Prompt \in BOOLEAN /\ Backlog \in Nat \ {0}

VARIABLES
  up,        \* the daemon our socket is connected to is there
  wire,      \* datagrams the daemon has not read: records [cmd, call]; the last
             \* is one that a send still waits to put when it is StillSending
  replies,   \* datagrams it sent back: records [cmd, call, text, val]
  lapsed     \* history: some command has been given up on

socketVars == <<wire, replies, lapsed>>

\* Stands for the elapsed sleep(command_timeout) in the tokio::select!.
TimedOut == [cmd |-> "timeout", call |-> None, text |-> "timeout", val |-> None]

(***************************************************************************)
(* The replies each command's parser takes: the literal "OK" of command(), *)
(* "OK" or "FAIL-BUSY" for SCAN, usize::from_str for ADD_NETWORK, the two  *)
(* Status parsers for STATUS, Config::from_response for GET_CONFIG.  The   *)
(* other parsers take any text: a String, or a table whose unparsable      *)
(* lines are skipped.                                                      *)
(***************************************************************************)
AnyText == {"OK", "FAIL", "FAIL-BUSY", "number", "status", "config",
            "list", "ssid", "table"}

Accepted ==
  [SCAN |-> {"OK", "FAIL-BUSY"}, STATUS |-> {"status"}, ADD_NETWORK |-> {"number"},
   SET_NETWORK |-> {"OK"}, SAVE_CONFIG |-> {"OK"}, RECONFIGURE |-> {"OK"},
   REMOVE_NETWORK |-> {"OK"}, SELECT_NETWORK |-> {"OK"},
   GET_CONFIG |-> {"config"}, ENABLE |-> {"OK"}, DISABLE |-> {"OK"}, SET |-> {"OK"},
   ATTACH |-> {"OK"}, LOG_LEVEL |-> {"OK"},
   CUSTOM |-> AnyText, SCAN_RESULTS |-> AnyText,
   LIST_NETWORKS |-> AnyText, GET_NETWORK |-> AnyText]

Commands == DOMAIN Accepted

\* What command()/request() return for the datagram r read as the reply to cmd:
\* "FAIL" is looked at only once the parser has refused the text.
Parse(cmd, r) ==
  IF r = TimedOut THEN "Timeout"
  ELSE IF r.text \in Accepted[cmd] THEN "Ok"
  ELSE IF r.text = "FAIL" THEN "Failed"
  ELSE "ParsingResponse"

-----------------------------------------------------------------------------
\* The send of the last datagram of wire is not over: with it there would be n
\* in a queue that holds Backlog, or the daemon has gone meanwhile.
StillSending(n) == wire # <<>> /\ (n > Backlog \/ ~up)

\* What is left of wire when the daemon goes: a datagram that was not in its
\* queue yet.
Unsent(n) == IF wire # <<>> /\ n > Backlog THEN <<wire[Len(wire)]>> ELSE <<>>

SocketInit ==
  /\ replies = <<>>
  /\ lapsed = FALSE

\* The datagrams a handler awaiting a reply may come back with.
Arrivals == {replies[i] : i \in 1..Len(replies)} \cup {TimedOut}

\* Variant of Await: no timeout, as before 0.3.0.
AwaitForever(r) ==
  /\ replies # <<>>
  /\ r = Head(replies)
  /\ replies' = Tail(replies)
  /\ UNCHANGED lapsed

\* select!(parse_resp, sleep(command_timeout)), once the command is sent: r is
\* what ended the wait.
Await(r) ==
  \/ /\ replies # <<>>
     /\ r = Head(replies)
     /\ replies' = Tail(replies)
     /\ UNCHANGED lapsed
  \/ /\ ~Prompt
     /\ r = TimedOut
     /\ lapsed' = TRUE
     /\ UNCHANGED replies

=============================================================================
