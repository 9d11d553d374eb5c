-------------------------------- MODULE Codec --------------------------------
(***************************************************************************)
(* The library's readers and writers of text, composed: a text is taken by *)
(* one of them, unprintf, the constructors of SET_NETWORK's values,        *)
(* from_str or vec_from_str, and the others have nothing to do.  They keep *)
(* no state between two texts, and share none.                             *)
(***************************************************************************)
EXTENDS SsidText, NetworkParams, ScanTable, ConfigReply

codecVars == <<ssidVars, paramsVars, scanVars, vars>>

-----------------------------------------------------------------------------
(* A reader that has nothing to do is done with an empty text. *)

SsidIdle ==
  /\ ssid = <<>> /\ path = "any" /\ cut = FALSE /\ text = <<>> /\ pos = 1
  /\ unescaped = <<>> /\ verdict = "Ok"

ParamsIdle ==
  /\ how = "parse" /\ given = <<>> /\ value = Value("none", <<>>)
  /\ next = 1 /\ field = <<>> /\ phase = "refused"

ScanIdle == table = <<>> /\ row = 2 /\ results = <<>> /\ sorting = "done"

ConfigIdle == lines = <<>> /\ at = 1 /\ map = [k \in Keys |-> <<>>] /\ result = "Ok"

CodecInit ==
  \/ SsidInit /\ ParamsIdle /\ ScanIdle /\ ConfigIdle
  \/ SsidIdle /\ ParamsInit /\ ScanIdle /\ ConfigIdle
  \/ SsidIdle /\ ParamsIdle /\ ScanInit /\ ConfigIdle
  \/ SsidIdle /\ ParamsIdle /\ ScanIdle /\ Init

CodecNext ==
  \/ SsidNext /\ UNCHANGED <<paramsVars, scanVars, vars>>
  \/ ParamsNext /\ UNCHANGED <<ssidVars, scanVars, vars>>
  \/ ScanNext /\ UNCHANGED <<ssidVars, paramsVars, vars>>
  \/ Next /\ UNCHANGED <<ssidVars, paramsVars, scanVars>>

CodecSpec == CodecInit /\ [][CodecNext]_codecVars
=============================================================================
