--------------------------- MODULE MC_GracefulServer ---------------------------
(* Model-checking instance of GracefulServer: two connections, one key.   *)
EXTENDS GracefulServer, TLC

SetReq == [op |-> "set", key |-> "k", val |-> "v"]
GetReq == [op |-> "get", key |-> "k"]
PingReq == [op |-> "ping", key |-> "k"]

MCScripts == {<<SetReq>>, <<GetReq, PingReq>>}

MCSymmetry == Permutations(Conns)

====
