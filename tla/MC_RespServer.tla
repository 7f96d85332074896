---------------------------- MODULE MC_RespServer ----------------------------
(* Model-checking instance of RespServer: clients sending RESP requests   *)
(* the way redis-cli does, and lines the parser handles differently.       *)
EXTENDS RespServer

Array == [kind |-> "array"]
Bulk == [kind |-> "bulk"]

\* "*1\r\n$4\r\nPING\r\n"
PingRequest == <<Array, Bulk, Word("PING", "upper")>>

\* "*2\r\n$3\r\nGET\r\n$1\r\nk\r\n"
GetRequest == <<Array, Bulk, Word("GET", "upper"), Bulk, Word("k", "lower")>>

\* An inline "PING\r\n", and "*2\r\nping\r\n$1\r\nk\r\n" (a header
\* followed directly by the command, the only form parseRESP reads a
\* command name and arguments from).
InlinePing == <<Word("PING", "upper")>>
HeaderThenPing == <<Array, Word("ping", "lower"), Bulk, Word("k", "lower")>>

MCScripts == {PingRequest \o GetRequest, HeaderThenPing \o InlinePing}

MCPingOnly == {PingRequest}

====
