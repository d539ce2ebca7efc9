----------------------------- MODULE MCParsers ------------------------------
(***************************************************************************)
(* TLC instance of the two users of get_until(): a behaviour is the one of *)
(* a connection that delivers a stream (HttpResponse), or of a client and  *)
(* the endpoint (IoctlCodec).                                              *)
(***************************************************************************)
EXTENDS MCHttpResponse, MCIoctlCodec

VARIABLE endpoint  \* whether it is the endpoint's

InstanceInit ==
  /\ CodecInit
  /\ Init
  /\ endpoint \in BOOLEAN
  /\ endpoint => stream = CHOOSE s \in Streams : TRUE

InstanceNext ==
  \/ endpoint /\ CodecNext /\ UNCHANGED <<endpoint, vars>>
  \/ ~endpoint /\ Next /\ UNCHANGED <<endpoint, codecVars>>

InstanceSpec == InstanceInit /\ [][InstanceNext]_<<endpoint, vars, codecVars>>
=============================================================================
