----------------------------- MODULE RespServer -----------------------------
(***************************************************************************)
(* One connection of the Redis-protocol server of cmd/main.go:             *)
(* handleConnection's loop, with parseRESP reading the rest of a request  *)
(* from the connection's bufio.Reader, and the client at the other end.   *)
(* parseRESP names `reader` without declaring it; as in the server's      *)
(* other version (src/unnamed/part_000, where it is a parameter), it is   *)
(* the reader handleConnection created on the connection.                 *)
(*                                                                         *)
(* A line is abstracted to what the parser tells apart, after              *)
(* strings.TrimSpace: an array header "*n", a bulk length "$n", a word of *)
(* a given name in upper or lower case, or the empty string.  Every       *)
(* ReadString is one step; a read with nothing buffered blocks while the  *)
(* client may still send, and returns "" with io.EOF once it no longer    *)
(* can.  Connections share no state (handleCommand touches no database),  *)
(* so one connection stands for all of them.                              *)
(*                                                                         *)
(*   script - the lines the client has yet to send                         *)
(*   inbox  - the lines sent and not yet read by the server               *)
(*   client - "open"; "halfClosed" (it shut down its sending side);       *)
(*            "closed"; "reset" (it answered a write after closing with   *)
(*            RST)                                                         *)
(*   pc     - where handleConnection is: "read", "cmd" (parseRESP's       *)
(*            command read), "arg" (an argument length), "argval", "write"*)
(*            or "done" (returned, connection closed)                     *)
(*   cmd    - the command parseRESP read                                   *)
(*   resp   - the response to write                                        *)
(*   first  - the first response the client received, or NoResp           *)
(***************************************************************************)
EXTENDS Sequences

CONSTANTS Scripts, NoResp

VARIABLES script, inbox, client, pc, cmd, resp, first

vars == <<script, inbox, client, pc, cmd, resp, first>>

Empty == [kind |-> "empty"]
Word(name, case) == [kind |-> "word", name |-> name, case |-> case]

OK == "+OK"
ErrUnknown == "-ERR unknown command"

\* strings.ToUpper and strings.ToLower.
ToUpper(l) == IF l.kind = "word" THEN [l EXCEPT !.case = "upper"] ELSE l
ToLower(l) == IF l.kind = "word" THEN [l EXCEPT !.case = "lower"] ELSE l

\* Mutant: PING answered +PONG, as Redis and the server's other version do.
HandleCommandPong(c) == IF ToLower(c) = Word("ping", "lower") THEN "+PONG" ELSE ErrUnknown

\* handleCommand: the arguments are logged and otherwise unused.
HandleCommand(c) == IF ToLower(c) = Word("ping", "lower") THEN OK ELSE ErrUnknown

Init ==
  /\ script \in Scripts
  /\ inbox = <<>>
  /\ client = "open"
  /\ pc = "read"
  /\ cmd = Empty
  /\ resp = NoResp
  /\ first = NoResp

(***************************************************************************)
(* reader.ReadString('\n'): the next line, or "" and io.EOF once the      *)
(* client can send no more; it blocks otherwise.                           *)
(***************************************************************************)
CanRead == inbox # <<>> \/ client # "open"
EOF == inbox = <<>>
Line == IF EOF THEN Empty ELSE Head(inbox)
Consume == inbox' = IF EOF THEN inbox ELSE Tail(inbox)

(***************************************************************************)
(* handleConnection and parseRESP.                                         *)
(***************************************************************************)
\* The loop's read; its error is not looked at.  parseRESP returns "" for
\* a line without the "*" prefix, and the response is handleCommand("").
ReadLine ==
  /\ pc = "read"
  /\ CanRead
  /\ Consume
  /\ \/ /\ Line.kind = "array"
        /\ pc' = "cmd"
        /\ UNCHANGED resp
     \/ /\ Line.kind # "array"
        /\ pc' = "write"
        /\ resp' = HandleCommand(Empty)
  /\ UNCHANGED <<script, client, cmd, first>>

\* cmd, _ := reader.ReadString('\n'); cmd = ToUpper(TrimSpace(cmd)).
ReadCommand ==
  /\ pc = "cmd"
  /\ CanRead
  /\ Consume
  /\ cmd' = ToUpper(Line)
  /\ pc' = "arg"
  /\ UNCHANGED <<script, client, resp, first>>

\* The argument loop's length read: on an error or a line without "$" it
\* breaks (the line read is dropped), and the command is handled.
ReadArgLength ==
  /\ pc = "arg"
  /\ CanRead
  /\ Consume
  /\ \/ /\ EOF \/ Line.kind # "bulk"
        /\ pc' = "write"
        /\ resp' = HandleCommand(cmd)
     \/ /\ ~EOF /\ Line.kind = "bulk"
        /\ pc' = "argval"
        /\ UNCHANGED resp
  /\ UNCHANGED <<script, client, cmd, first>>

\* arg, _ := reader.ReadString('\n'), appended to args (unused after).
ReadArg ==
  /\ pc = "argval"
  /\ CanRead
  /\ Consume
  /\ pc' = "arg"
  /\ UNCHANGED <<script, client, cmd, resp, first>>

\* Mutant: the write's error is not looked at (the server's other version).
WriteIgnoringError ==
  /\ pc = "write"
  /\ pc' = "read"
  /\ client' = IF client = "closed" THEN "reset" ELSE client
  /\ first' = IF first = NoResp /\ client \in {"open", "halfClosed"} THEN resp ELSE first
  /\ UNCHANGED <<script, inbox, cmd, resp>>

\* conn.Write(response): it reaches a client that can still receive; the
\* first write after the client closed is accepted and answered with RST,
\* the next fails; on a failure handleConnection returns.
Write ==
  /\ pc = "write"
  /\ \/ /\ client \in {"open", "halfClosed"}
        /\ pc' = "read"
        /\ first' = IF first = NoResp THEN resp ELSE first
        /\ UNCHANGED client
     \/ /\ client = "closed"
        /\ pc' = "read"
        /\ client' = "reset"
        /\ UNCHANGED first
     \/ /\ client = "reset"
        /\ pc' = "done"
        /\ UNCHANGED <<client, first>>
  /\ UNCHANGED <<script, inbox, cmd, resp>>

Server == ReadLine \/ ReadCommand \/ ReadArgLength \/ ReadArg \/ Write

(***************************************************************************)
(* The client: it sends its script line by line, may shut down its        *)
(* sending side, and may close the connection, at any time.                *)
(***************************************************************************)
Send ==
  /\ client = "open"
  /\ script # <<>>
  /\ inbox' = Append(inbox, Head(script))
  /\ script' = Tail(script)
  /\ UNCHANGED <<client, pc, cmd, resp, first>>

CloseWrite ==
  /\ client = "open"
  /\ client' = "halfClosed"
  /\ UNCHANGED <<script, inbox, pc, cmd, resp, first>>

Close ==
  /\ client \in {"open", "halfClosed"}
  /\ client' = "closed"
  /\ UNCHANGED <<script, inbox, pc, cmd, resp, first>>

Client == Send \/ CloseWrite \/ Close

Next == Server \/ Client

\* The handler goroutine runs whenever it is not blocked in a read: the Go
\* scheduler runs every runnable goroutine.  The client owes nothing.
Spec == Init /\ [][Next]_vars /\ WF_vars(Server)

(***************************************************************************)
(* Properties.                                                              *)
(***************************************************************************)
RespTypeOK ==
  /\ client \in {"open", "halfClosed", "closed", "reset"}
  /\ pc \in {"read", "cmd", "arg", "argval", "write", "done"}
  /\ resp \in {NoResp, OK, ErrUnknown}
  /\ first \in {NoResp, OK, ErrUnknown}

\* Once the client has closed the connection, handleConnection returns and
\* closes its side: every read then reports EOF, and the write that
\* follows fails once the client has reset the connection.
ClosedConnectionEnds == client \in {"closed", "reset"} ~> pc = "done"

\* Once the client can send no more, whether it closed the connection or
\* only shut down its sending side, handleConnection returns.
ConnectionEnds == client # "open" ~> pc = "done"

\* A client that has sent the RESP array of PING ("*1", "$4", "PING"),
\* which parseRESP's comments give as the form it reads, is answered +OK.
PingAnswered == script = <<>> /\ first # NoResp => first = OK

====
