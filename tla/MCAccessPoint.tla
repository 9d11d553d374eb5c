---------------------------- MODULE MCAccessPoint ----------------------------
(***************************************************************************)
(* Instances of the access point for TLC.                                  *)
(***************************************************************************)
EXTENDS AccessPointProps, TLC

Req(kind) == [kind |-> kind, id |-> None]
StatusOrShutdown == {Req("Status"), Req("Shutdown")}
CallSymmetry == Permutations(Calls)
=============================================================================
