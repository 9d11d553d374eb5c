---------------------------- MODULE WpaSupplicant ----------------------------
(***************************************************************************)
(* The external daemon as the station uses it: a process that reads the    *)
(* commands of the control sockets in the order they were sent, answers    *)
(* each with one datagram (or not at all), runs scans, and sends events to *)
(* the sockets that ATTACHed.  What it answers is free within what the     *)
(* command may be answered with.                                           *)
(***************************************************************************)
EXTENDS ControlSocket

CONSTANTS
  Networks,   \* network ids it may have configured
  Acts,       \* what it does of its own accord: "Scan", "Link", "Refuse"
  MaxEvents,  \* bound: how often
  MaxListed   \* bound: networks in one LIST_NETWORKS reply

ASSUME DaemonAssumption ==
  /\ Networks \subseteq Nat /\ None \notin Networks /\ None \notin Nat
  /\ MaxEvents \in Nat /\ MaxListed \in Nat

VARIABLES
  attached,  \* it sends events to our event socket
  scanning,  \* a scan is in progress
  current,   \* the network it is connected to, None when disconnected
  events,    \* datagrams in the event socket: records [type, val]
  acted      \* how many things it has done of its own accord

daemonVars == <<up, attached, scanning, current, events, acted>>

Event(type, val) == [type |-> type, val |-> val]
Text(text, val) == [text |-> text, val |-> val]

\* The network STATUS names: the one it is connected to, or else one it may be
\* on its way to.
StatusIds == IF current # None THEN {current} ELSE Networks \cup {None}

\* What the daemon may answer to command cmd.
AnswersTo(cmd) ==
  {Text("garbled", None)} \cup
  CASE cmd = "SCAN"          -> IF scanning THEN {Text("FAIL-BUSY", None)}
                                ELSE {Text("OK", None), Text("FAIL", None)}
    [] cmd = "STATUS"        -> {Text("FAIL", None)} \cup
                                {Text("status", n) : n \in StatusIds}
    [] cmd = "LIST_NETWORKS" -> {Text("FAIL", None)} \cup
                                {Text("list", n) : n \in 0..MaxListed}
    [] cmd = "GET_NETWORK"   -> {Text("ssid", None), Text("FAIL", None)}
    [] cmd = "ADD_NETWORK"   -> {Text("number", None), Text("FAIL", None)}
    [] cmd = "SCAN_RESULTS"  -> {Text("table", None), Text("FAIL", None)}
    [] OTHER                 -> {Text("OK", None), Text("FAIL", None)}

Emit(type, val) ==
  events' = IF attached THEN Append(events, Event(type, val)) ELSE events

-----------------------------------------------------------------------------
\* The station sends ATTACH on its event socket just before its loop starts.
DaemonInit ==
  /\ wire = <<[cmd |-> "ATTACH", call |-> None]>>
  /\ up = TRUE
  /\ attached = FALSE
  /\ scanning \in BOOLEAN /\ (scanning => "Scan" \in Acts)
  /\ current \in Networks \cup {None}
  /\ events = <<>>
  /\ acted = 0

\* ATTACH is answered on the event socket, where its "OK" or "FAIL" is one
\* more unknown event.
DaemonAttach ==
  /\ wire # <<>> /\ Head(wire).cmd = "ATTACH"
  /\ wire' = Tail(wire)
  /\ attached' \in BOOLEAN
  /\ events' = Append(events, Event("Unknown", None))
  /\ UNCHANGED <<replies, lapsed, up, scanning, current, acted>>

DaemonAnswers ==
  /\ up /\ wire # <<>> /\ Head(wire).cmd # "ATTACH"
  /\ wire' = Tail(wire)
  /\ \E a \in AnswersTo(Head(wire).cmd) :
       /\ replies' = Append(replies, [cmd |-> Head(wire).cmd, call |-> Head(wire).call,
                                      text |-> a.text, val |-> a.val])
       /\ scanning' = (scanning \/ (Head(wire).cmd = "SCAN" /\ a.text = "OK"))
  /\ UNCHANGED <<lapsed, up, attached, current, events, acted>>

\* A command that is read and never answered.
DaemonIgnores ==
  /\ ~Prompt
  /\ up /\ wire # <<>> /\ Head(wire).cmd # "ATTACH"
  /\ wire' = Tail(wire)
  /\ UNCHANGED <<replies, lapsed, daemonVars>>

ScanFinishes ==
  /\ scanning
  /\ scanning' = FALSE
  /\ \E type \in {"ScanComplete", "ScanFailed"} : Emit(type, None)
  /\ UNCHANGED <<socketVars, up, attached, current, acted>>

\* Of its own accord the daemon scans, connects, disconnects and reports.
DaemonActs ==
  /\ (up \/ attached) /\ acted < MaxEvents
  /\ acted' = acted + 1
  /\ \/ /\ "Scan" \in Acts /\ ~scanning
        /\ scanning' = TRUE
        /\ UNCHANGED <<current, events>>
     \/ \E n \in Networks :
          /\ "Link" \in Acts /\ current # n
          /\ current' = n
          /\ Emit("Connected", n)
          /\ UNCHANGED scanning
     \/ /\ "Link" \in Acts /\ current # None
        /\ current' = None
        /\ Emit("Disconnected", current)
        /\ UNCHANGED scanning
     \/ /\ "Refuse" \in Acts
        /\ \E type \in {"NetworkNotFound", "WrongPsk"}, n \in Networks : Emit(type, n)
        /\ UNCHANGED <<current, scanning>>
  /\ UNCHANGED <<socketVars, up, attached>>

\* The daemon exits; what its socket held unread is lost, what it sent is not.
DaemonDies ==
  /\ ~Prompt
  /\ up
  /\ up' = FALSE
  /\ attached' = FALSE
  /\ scanning' = FALSE
  /\ current' = None
  /\ wire' = Unsent(Len(wire))
  /\ UNCHANGED <<replies, lapsed, events, acted>>

Daemon ==
  \/ DaemonAttach \/ DaemonAnswers \/ DaemonIgnores
  \/ ScanFinishes \/ DaemonActs \/ DaemonDies

=============================================================================
