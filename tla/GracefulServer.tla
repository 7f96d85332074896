---------------------------- MODULE GracefulServer ----------------------------
(***************************************************************************)
(* The other version of the Redis-protocol server (src/unnamed/part_000):  *)
(* the accept loop, one handler goroutine per connection serving SET, GET *)
(* and PING against the shared pebble db, and the shutdown goroutine that *)
(* on SIGTERM or SIGINT closes the listener, waits on the WaitGroup for   *)
(* the handlers, flushes the db and exits.  Each goroutine step is one    *)
(* action; os.Exit ends every goroutine.                                   *)
(*                                                                         *)
(* A request is abstracted to what handleCommand tells apart (command,    *)
(* key, value), and parseRESP reads one whole request per step, or fails  *)
(* on EOF once the client has closed.                                     *)
(*                                                                         *)
(*   listener  - "open" or "closed"                                        *)
(*   pending   - connections the client has opened, not yet accepted      *)
(*   mainConn  - the connection Accept returned before wg.Add, or None    *)
(*   wg        - the WaitGroup counter                                     *)
(*   sd        - the shutdown goroutine: "signal" (waiting on sigCh),     *)
(*               "close", "wait", "flush", "exit", "exited"               *)
(*   h         - each handler: "none" (not started), "parse", "write",    *)
(*               "done"                                                   *)
(*   resp      - each handler's response to write                          *)
(*   script    - each client's requests yet to send; inbox, those sent    *)
(*   cl        - each client: "idle", "connected", "closed"               *)
(*   mem       - the db's contents                                         *)
(*   applied   - the SETs (connection, request number) the db applied     *)
(*   acked     - the SETs whose +OK reached their client                   *)
(*   flushed   - the SETs applied when db.Flush ran                        *)
(***************************************************************************)
EXTENDS Naturals, Sequences, FiniteSets

CONSTANTS
  Conns,        \* client connections
  Keys, Vals,
  Scripts,      \* the request sequences a client may send
  None,
  ClientsLeave  \* TRUE: every client eventually closes its connection

VARIABLES listener, pending, mainConn, wg, sd, h, resp, script, inbox, sent, cl,
          mem, applied, acked, flushed

vars == <<listener, pending, mainConn, wg, sd, h, resp, script, inbox, sent, cl,
          mem, applied, acked, flushed>>

Requests == [op : {"set"}, key : Keys, val : Vals] \cup [op : {"get", "ping"}, key : Keys]

Init ==
  /\ listener = "open"
  /\ pending = {}
  /\ mainConn = None
  /\ wg = 0
  /\ sd = "signal"
  /\ h = [c \in Conns |-> "none"]
  /\ resp = [c \in Conns |-> None]
  /\ script \in [Conns -> Scripts]
  /\ inbox = [c \in Conns |-> <<>>]
  /\ sent = [c \in Conns |-> 0]
  /\ cl = [c \in Conns |-> "idle"]
  /\ mem = [k \in Keys |-> None]
  /\ applied = {}
  /\ acked = {}
  /\ flushed = {}

Alive == sd # "exited"

(***************************************************************************)
(* main: the accept loop.  Accept on a closed listener fails and the loop *)
(* continues, changing nothing.                                            *)
(***************************************************************************)
Accept(c) ==
  /\ Alive
  /\ listener = "open"
  /\ mainConn = None
  /\ c \in pending
  /\ pending' = pending \ {c}
  /\ mainConn' = c
  /\ UNCHANGED <<listener, wg, sd, h, resp, script, inbox, sent, cl, mem, applied, acked, flushed>>

\* wg.Add(1); go handleConnection(conn, &wg).
AddAndGo ==
  /\ Alive
  /\ mainConn # None
  /\ wg' = wg + 1
  /\ h' = [h EXCEPT ![mainConn] = "parse"]
  /\ mainConn' = None
  /\ UNCHANGED <<listener, pending, sd, resp, script, inbox, sent, cl, mem, applied, acked, flushed>>

(***************************************************************************)
(* The shutdown goroutine.                                                  *)
(***************************************************************************)
\* <-sigCh; close(quitCh): no goroutine receives from quitCh.
Signal ==
  /\ sd = "signal"
  /\ sd' = "close"
  /\ UNCHANGED <<listener, pending, mainConn, wg, h, resp, script, inbox, sent, cl, mem, applied, acked, flushed>>

\* listener.Close(): connections not yet accepted are reset.
CloseListener ==
  /\ sd = "close"
  /\ listener' = "closed"
  /\ cl' = [c \in Conns |-> IF c \in pending THEN "closed" ELSE cl[c]]
  /\ pending' = {}
  /\ sd' = "wait"
  /\ UNCHANGED <<mainConn, wg, h, resp, script, inbox, sent, mem, applied, acked, flushed>>

\* wg.Wait() returns once the counter is zero.
WaitDone ==
  /\ sd = "wait"
  /\ wg = 0
  /\ sd' = "flush"
  /\ UNCHANGED <<listener, pending, mainConn, wg, h, resp, script, inbox, sent, cl, mem, applied, acked, flushed>>

\* db.Flush() persists every write applied so far, or fails; its error is
\* not looked at.
Flush ==
  /\ sd = "flush"
  /\ flushed' \in {flushed, applied}
  /\ sd' = "exit"
  /\ UNCHANGED <<listener, pending, mainConn, wg, h, resp, script, inbox, sent, cl, mem, applied, acked>>

\* os.Exit(0): every goroutine stops, the deferred db.Close never runs.
Exit ==
  /\ sd = "exit"
  /\ sd' = "exited"
  /\ UNCHANGED <<listener, pending, mainConn, wg, h, resp, script, inbox, sent, cl, mem, applied, acked, flushed>>

(***************************************************************************)
(* handleConnection(c).                                                     *)
(***************************************************************************)
\* handleCommand of request r, the n-th of connection c; SET writes with
\* Sync: false, and SET and GET may fail with an I/O error.
Handle(c, r, n) ==
  \/ /\ r.op = "set"
     /\ \/ /\ mem' = [mem EXCEPT ![r.key] = r.val]
           /\ applied' = applied \cup {<<c, n>>}
           /\ resp' = [resp EXCEPT ![c] = <<"+OK", n>>]
        \/ /\ resp' = [resp EXCEPT ![c] = <<"-ERR Failed to set key", n>>]
           /\ UNCHANGED <<mem, applied>>
  \/ /\ r.op = "get"
     /\ \/ resp' = [resp EXCEPT ![c] = <<IF mem[r.key] = None THEN "$-1" ELSE mem[r.key], n>>]
        \/ resp' = [resp EXCEPT ![c] = <<"-ERR Failed to get key", n>>]
     /\ UNCHANGED <<mem, applied>>
  \/ /\ r.op = "ping"
     /\ resp' = [resp EXCEPT ![c] = <<"+PONG", n>>]
     /\ UNCHANGED <<mem, applied>>

\* parseRESP reads the next request and handleCommand runs it.
Serve(c) ==
  /\ Alive
  /\ h[c] = "parse"
  /\ inbox[c] # <<>>
  /\ Handle(c, Head(inbox[c]), sent[c] - Len(inbox[c]) + 1)
  /\ inbox' = [inbox EXCEPT ![c] = Tail(@)]
  /\ h' = [h EXCEPT ![c] = "write"]
  /\ UNCHANGED <<listener, pending, mainConn, wg, sd, script, sent, cl, acked, flushed>>

\* conn.Write(response), its error not looked at; the response reaches a
\* client that is still connected.
WriteResponse(c) ==
  /\ Alive
  /\ h[c] = "write"
  /\ acked' = IF resp[c][1] = "+OK" /\ cl[c] = "connected" THEN acked \cup {<<c, resp[c][2]>>}
              ELSE acked
  /\ h' = [h EXCEPT ![c] = "parse"]
  /\ UNCHANGED <<listener, pending, mainConn, wg, sd, resp, script, inbox, sent, cl, mem, applied, flushed>>

\* Mutant: the handler returns without wg.Done.
ParseErrorNoDone(c) ==
  /\ Alive
  /\ h[c] = "parse"
  /\ inbox[c] = <<>>
  /\ cl[c] = "closed"
  /\ h' = [h EXCEPT ![c] = "done"]
  /\ UNCHANGED <<listener, pending, mainConn, wg, sd, resp, script, inbox, sent, cl, mem, applied, acked, flushed>>

\* Mutant: wg.Done runs twice.
ParseErrorDoneTwice(c) ==
  /\ Alive
  /\ h[c] = "parse"
  /\ inbox[c] = <<>>
  /\ cl[c] = "closed"
  /\ h' = [h EXCEPT ![c] = "done"]
  /\ wg' = wg - 2
  /\ UNCHANGED <<listener, pending, mainConn, sd, resp, script, inbox, sent, cl, mem, applied, acked, flushed>>

\* parseRESP fails at EOF: "-ERR Parse error" is written (to nobody) and
\* the handler returns; its deferred conn.Close and wg.Done run.
ParseError(c) ==
  /\ Alive
  /\ h[c] = "parse"
  /\ inbox[c] = <<>>
  /\ cl[c] = "closed"
  /\ h' = [h EXCEPT ![c] = "done"]
  /\ wg' = wg - 1
  /\ UNCHANGED <<listener, pending, mainConn, sd, resp, script, inbox, sent, cl, mem, applied, acked, flushed>>

(***************************************************************************)
(* The clients.                                                             *)
(***************************************************************************)
Dial(c) ==
  /\ Alive
  /\ listener = "open"
  /\ cl[c] = "idle"
  /\ cl' = [cl EXCEPT ![c] = "connected"]
  /\ pending' = pending \cup {c}
  /\ UNCHANGED <<listener, mainConn, wg, sd, h, resp, script, inbox, sent, mem, applied, acked, flushed>>

Send(c) ==
  /\ Alive
  /\ cl[c] = "connected"
  /\ script[c] # <<>>
  /\ inbox' = [inbox EXCEPT ![c] = Append(@, Head(script[c]))]
  /\ script' = [script EXCEPT ![c] = Tail(@)]
  /\ sent' = [sent EXCEPT ![c] = @ + 1]
  /\ UNCHANGED <<listener, pending, mainConn, wg, sd, h, resp, cl, mem, applied, acked, flushed>>

Close(c) ==
  /\ Alive
  /\ cl[c] = "connected"
  /\ cl' = [cl EXCEPT ![c] = "closed"]
  /\ UNCHANGED <<listener, pending, mainConn, wg, sd, h, resp, script, inbox, sent, mem, applied, acked, flushed>>

Handler(c) == Serve(c) \/ WriteResponse(c) \/ ParseError(c)

Shutdown == CloseListener \/ WaitDone \/ Flush \/ Exit

Next ==
  \/ \E c \in Conns : Accept(c) \/ Handler(c) \/ Dial(c) \/ Send(c) \/ Close(c)
  \/ AddAndGo
  \/ Signal
  \/ Shutdown

\* Every goroutine runs when it can.  The signal and the clients owe
\* nothing, except that with ClientsLeave each client eventually closes.
Spec ==
  /\ Init /\ [][Next]_vars
  /\ WF_vars(AddAndGo) /\ WF_vars(Shutdown)
  /\ \A c \in Conns : WF_vars(Accept(c)) /\ WF_vars(Handler(c))
  /\ ClientsLeave => \A c \in Conns : WF_vars(Close(c))

(***************************************************************************)
(* Properties.                                                              *)
(***************************************************************************)
TypeOK ==
  /\ wg \in Nat
  /\ sd \in {"signal", "close", "wait", "flush", "exit", "exited"}
  /\ h \in [Conns -> {"none", "parse", "write", "done"}]
  /\ mainConn \in Conns \cup {None}
  /\ script \in [Conns -> Seq(Requests)]
  /\ applied \cup acked \cup flushed \subseteq Conns \X Nat

\* After SIGTERM or SIGINT the server exits: close(quitCh) is to "notify
\* all goroutines to stop" and wg.Wait() to "wait for all connections to
\* close".
ShutdownCompletes == sd # "signal" ~> sd = "exited"

\* The graceful shutdown waits for every connection before db.Flush, so
\* every SET a client saw acknowledged with +OK before the process exited
\* was applied before the flush (the writes use Sync: false).
FlushCoversAcknowledged == sd = "exited" => acked \subseteq flushed

====
