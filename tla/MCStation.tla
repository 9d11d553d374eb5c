------------------------------ MODULE MCStation ------------------------------
(***************************************************************************)
(* Instances of the station for TLC: which requests the calls may carry.   *)
(***************************************************************************)
EXTENDS StationProps

Req(kind, id) == [kind |-> kind, id |-> id]

Selects == {Req("SelectNetwork", n) : n \in Networks}
MixedRequests == {Req(k, None) : k \in {"AddNetwork", "Networks", "Scan"}}
SelectOrShutdown == {Req("SelectNetwork", 0), Req("Shutdown", None)}
StatusOnly == {Req("Status", None)}
=============================================================================
