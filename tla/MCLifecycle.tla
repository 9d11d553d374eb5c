----------------------------- MODULE MCLifecycle -----------------------------
(***************************************************************************)
(* Instances of the station's life for TLC.                                *)
(***************************************************************************)
EXTENDS Lifecycle

Req(kind, id) == [kind |-> kind, id |-> id]
SelectOrShutdown == {Req("SelectNetwork", 0), Req("Shutdown", None)}
=============================================================================
