------------------------------- MODULE Server --------------------------------
(***************************************************************************)
(* The Server (server.go, http.go): the accept loop Serve with the         *)
(* goroutine that closes the listener and the one that runs http.Serve,    *)
(* Close, and for every connection the goroutine serve: the hello under a  *)
(* timeout, and where the connection goes then.                            *)
(*                                                                         *)
(* What the hello of a connection comes to is computed by HelloCodec; the  *)
(* transport that a good one leads to is Transport, here only that it runs *)
(* and ends.                                                               *)
(***************************************************************************)
EXTENDS HelloCodec, FiniteSets

CONSTANTS
  Conns  \* bound: the connections that arrive

(* opts: timeout > 0, handler # nil, backend # nil.                        *)
Options == [timeout : BOOLEAN, handler : BOOLEAN, backend : BOOLEAN]

(* What a client may send: nothing whole, another protocol, hellos that are*)
(* refused for their window, versions and length, lists of 246 and of 256  *)
(* bytes, which fit the buffer but not what the flag leaves of it, a good  *)
(* one.                                                                    *)
Hellos ==
  [flag : {TRUE}, window : {1}, text : {ProtocolVersion}, got : {0, 5, ClientHead, 19}]
    \cup [flag : {FALSE}, window : {1}, text : {ProtocolVersion}, got : {19}]
    \cup [flag : {TRUE}, window : {0, 1}, got : {300},
         text : {<< >>, Text(2), Text(246), Text(256), Text(257)}]

Outcomes == {"error", "other", "refuse", "ok"}

VARIABLES
  opts,     \* the options, fixed when the Server is made
  done,     \* s.done is closed
  accept,   \* Serve: "accept", "wait" (in wait.Wait), "returned"
  lis,      \* the listener is open
  closer,   \* the goroutine that waits for s.done is running
  http,     \* the goroutine in http.Serve is running
  pc,       \* pc[c]: where the goroutine serve of c is
  hello,    \* hello[c]: the call of s.hello: "none", "reading", "ended", "panic"
  outcome,  \* outcome[c]: what it has returned, "none" before
  timer,    \* timer[c]: "none", "running", "fired"
  open,     \* open[c]: the connection is open
  handed    \* handed[c]: http.Serve has taken the connection

serveVars == <<opts, done, accept, lis, closer, http>>
connVars  == <<pc, hello, outcome, timer, open, handed>>
vars == <<serveVars, connVars>>

TypeOK ==
  /\ opts \in Options
  /\ done \in BOOLEAN
  /\ accept \in {"accept", "wait", "returned"}
  /\ lis \in BOOLEAN /\ closer \in BOOLEAN /\ http \in BOOLEAN
  /\ pc \in [Conns -> {"none", "hello", "dial", "copy", "http", "unknown",
                       "sendHello", "transport", "returned"}]
  /\ hello \in [Conns -> {"none", "reading", "ended", "panic"}]
  /\ outcome \in [Conns -> Outcomes \cup {"none"}]
  /\ timer \in [Conns -> {"none", "running", "fired"}]
  /\ open \in [Conns -> BOOLEAN]
  /\ handed \in [Conns -> BOOLEAN]

Init ==
  /\ opts \in Options
  /\ done = FALSE
  /\ accept = "accept"
  /\ lis = TRUE
  /\ closer = TRUE
  /\ http = opts.handler
  /\ pc = [c \in Conns |-> "none"]
  /\ hello = [c \in Conns |-> "none"]
  /\ outcome = [c \in Conns |-> "none"]
  /\ timer = [c \in Conns |-> "none"]
  /\ open = [c \in Conns |-> FALSE]
  /\ handed = [c \in Conns |-> FALSE]

-----------------------------------------------------------------------------
(* Serve.                                                                  *)

(* Accept returns c; its goroutine starts the hello and, if there is one,  *)
(* the timer.                                                              *)
Accept(c) ==
  /\ accept = "accept"
  /\ lis
  /\ pc[c] = "none"
  /\ pc' = [pc EXCEPT ![c] = "hello"]
  /\ hello' = [hello EXCEPT ![c] = "reading"]
  /\ timer' = [timer EXCEPT ![c] = IF opts.timeout THEN "running" ELSE "none"]
  /\ open' = [open EXCEPT ![c] = TRUE]
  /\ UNCHANGED <<serveVars, outcome, handed>>

(* Accept fails: for good, or because the listener is closed.  After a     *)
(* temporary error the loop goes on, which changes nothing here.           *)
AcceptFails ==
  /\ accept = "accept"
  /\ accept' = "wait"
  /\ UNCHANGED <<opts, done, lis, closer, http, connVars>>

(* Mutant: the listener stays open.                                        *)
CloseListenerNot ==
  /\ closer
  /\ done
  /\ closer' = FALSE
  /\ UNCHANGED <<opts, done, accept, lis, http, connVars>>

(* The goroutine that waits for s.done closes the listener.                *)
CloseListener ==
  /\ closer
  /\ done
  /\ lis' = FALSE
  /\ closer' = FALSE
  /\ UNCHANGED <<opts, done, accept, http, connVars>>

(* httpListner.Accept fails when s.done is closed, and http.Serve returns. *)
HttpReturns ==
  /\ http
  /\ done
  /\ http' = FALSE
  /\ UNCHANGED <<opts, done, accept, lis, closer, connVars>>

ServeReturns ==
  /\ accept = "wait"
  /\ ~closer /\ ~http
  /\ accept' = "returned"
  /\ UNCHANGED <<opts, done, lis, closer, http, connVars>>

Close ==
  /\ ~done
  /\ done' = TRUE
  /\ UNCHANGED <<opts, accept, lis, closer, http, connVars>>

-----------------------------------------------------------------------------
(* s.hello has read m and ends, in a goroutine of its own when there is a  *)
(* timeout; on a closed connection nothing more arrives.  Its channel has  *)
(* room for the result.                                                    *)
HelloEnds(c, m) ==
  /\ hello[c] = "reading"
  /\ open[c] \/ m.got = 0
  /\ Hello(m).to # "panic"
  /\ hello' = [hello EXCEPT ![c] = "ended"]
  /\ outcome' = [outcome EXCEPT ![c] = Hello(m).to]
  /\ UNCHANGED <<serveVars, pc, timer, open, handed>>

(* s.hello slices its buffer past the end.  Nothing recovers from the panic*)
(* of a goroutine: the process is gone, and no goroutine of it goes on.    *)
HelloPanics(c, m) ==
  /\ hello[c] = "reading"
  /\ open[c]
  /\ Hello(m).to = "panic"
  /\ hello' = [hello EXCEPT ![c] = "panic"]
  /\ UNCHANGED <<serveVars, pc, outcome, timer, open, handed>>

Alive == \A c \in Conns : hello[c] # "panic"

TimerFires(c) ==
  /\ timer[c] = "running"
  /\ pc[c] = "hello"
  /\ timer' = [timer EXCEPT ![c] = "fired"]
  /\ UNCHANGED <<serveVars, pc, hello, outcome, open, handed>>

-----------------------------------------------------------------------------
(* The goroutine serve of a connection.                                    *)

(* It goes on at label to, or returns with the connection closed.          *)
GoTo(c, from, to) ==
  /\ pc[c] = from
  /\ pc' = [pc EXCEPT ![c] = to]
  /\ UNCHANGED <<serveVars, hello, outcome, timer, open, handed>>

ReturnClosed(c, from) ==
  /\ pc[c] = from
  /\ pc' = [pc EXCEPT ![c] = "returned"]
  /\ open' = [open EXCEPT ![c] = FALSE]
  /\ UNCHANGED <<serveVars, hello, outcome, timer, handed>>

(* Mutants: a timeout is answered with a hello; a timeout does not close   *)
(* the connection.                                                         *)
HelloTimeoutAnswers(c) ==
  /\ timer[c] = "fired"
  /\ GoTo(c, "hello", "sendHello")
HelloTimeoutOpen(c) ==
  /\ timer[c] = "fired"
  /\ GoTo(c, "hello", "returned")

HelloTimeout(c) ==
  /\ timer[c] = "fired"
  /\ ReturnClosed(c, "hello")

HelloError(c) ==
  /\ outcome[c] = "error"
  /\ ReturnClosed(c, "hello")

(* Another protocol goes to the backend, to http.Serve, or is told that it *)
(* is unknown.                                                             *)
HelloOther(c) ==
  /\ outcome[c] = "other"
  /\ GoTo(c, "hello", IF opts.backend THEN "dial"
                      ELSE IF opts.handler THEN "http" ELSE "unknown")

HelloAnswer(c) ==
  /\ outcome[c] \in {"refuse", "ok"}
  /\ GoTo(c, "hello", "sendHello")

(* opts.backend.Dial; two pipe.Copy run until one side ends.               *)
BackendDial(c) == GoTo(c, "dial", "copy")
BackendFails(c) == ReturnClosed(c, "dial")
CopyEnds(c) == ReturnClosed(c, "copy")

(* l.ch <- backend meets httpListner.Accept, or s.done is closed.          *)
HttpTakes(c) ==
  /\ pc[c] = "http"
  /\ http
  /\ handed' = [handed EXCEPT ![c] = TRUE]
  /\ pc' = [pc EXCEPT ![c] = "returned"]
  /\ UNCHANGED <<serveVars, hello, outcome, timer, open>>

(* Mutants: the connection is dropped, not closed; s.done is not watched.  *)
HttpGoneOpen(c) ==
  /\ done
  /\ GoTo(c, "http", "returned")
HttpGoneNever(c) == FALSE

HttpGone(c) ==
  /\ done
  /\ ReturnClosed(c, "http")

(* HelloInvalidProtocol is sent, and closed after 3 seconds.               *)
UnknownEnds(c) == ReturnClosed(c, "unknown")

(* A hello that cannot be sent, or says no, ends the connection.           *)
SendHelloOk(c) ==
  /\ outcome[c] = "ok"
  /\ GoTo(c, "sendHello", "transport")
SendHelloEnds(c) == ReturnClosed(c, "sendHello")
TransportEnds(c) == ReturnClosed(c, "transport")

-----------------------------------------------------------------------------
HelloStep(c) ==
  \/ HelloTimeout(c)
  \/ HelloError(c)
  \/ HelloOther(c)
  \/ HelloAnswer(c)

(* The steps that take no more than a dial or a write.                     *)
RouteStep(c) ==
  \/ BackendDial(c)
  \/ BackendFails(c)
  \/ HttpTakes(c)
  \/ HttpGone(c)
  \/ UnknownEnds(c)
  \/ SendHelloOk(c)
  \/ SendHelloEnds(c)

ServeStep == CloseListener \/ HttpReturns \/ ServeReturns

Next ==
  /\ Alive
  /\ \/ ServeStep
     \/ AcceptFails
     \/ Close
     \/ \E c \in Conns :
          \/ Accept(c)
          \/ \E m \in Hellos : HelloEnds(c, m) \/ HelloPanics(c, m)
          \/ TimerFires(c)
          \/ HelloStep(c)
          \/ RouteStep(c)
          \/ CopyEnds(c)
          \/ TransportEnds(c)

(* Goroutines go on when they can, a timer fires, and reading from a closed*)
(* connection or accepting from a closed listener fails.  A client need not*)
(* send its hello, nor does a connection in use have to end.               *)
Fairness ==
  /\ WF_vars(Alive /\ CloseListener)
  /\ WF_vars(Alive /\ HttpReturns)
  /\ WF_vars(Alive /\ ServeReturns)
  /\ WF_vars(Alive /\ ~lis /\ AcceptFails)
  /\ \A c \in Conns :
       /\ WF_vars(Alive /\ TimerFires(c))
       /\ WF_vars(Alive /\ HelloStep(c))
       /\ WF_vars(Alive /\ RouteStep(c))
       /\ WF_vars(Alive /\ ~open[c] /\ \E m \in Hellos : HelloEnds(c, m))

Safe == Init /\ [][Next]_vars
Spec == Safe /\ Fairness

-----------------------------------------------------------------------------
(* Properties.                                                             *)

(* A connection whose goroutine has returned is closed or is somebody      *)
(* else's, on every path: a timeout that races the hello, a backend that   *)
(* cannot be reached, a Close while it waits for http.Serve.               *)
NoLeakedConn ==
  \A c \in Conns : pc[c] = "returned" => ~open[c] \/ handed[c]

(* The hello reads into the buffer b of serve.  Once serve goes on to use b*)
(* itself, for its own hello and then for the transport, nobody reads into *)
(* it any more (server.go:147-177, 207, 217, 224).                         *)
BufferExclusive ==
  \A c \in Conns :
    pc[c] \in {"dial", "copy", "http", "unknown", "sendHello", "transport"}
      => hello[c] = "ended"
ServerInv == TypeOK /\ BufferExclusive

(* A hello is read as it was written, or not at all: no buffer, no length  *)
(* of its version list and no point at which the connection ends makes the *)
(* server go on with something else, and it refuses none that fits its     *)
(* buffer behind the flag (core/hello.go:62-194).                          *)
ClientHelloReadBack ==
  \A c \in Conns : /\ outcome[c] = "ok" => Misread = {}
                   /\ outcome[c] = "refuse" => Unread = {}

(* When serve answers a hello, of whatever versions and windows, the client*)
(* comes to the same conclusion: it goes on exactly when the server does,  *)
(* each with the window of the other (server.go:216-274,                   *)
(* client_transport.go:43-69).                                             *)
HandshakeAgrees ==
  \A c \in Conns :
    pc[c] \in {"sendHello", "transport"} =>
      \A k \in Disagreements : To(k) # outcome[c]

(* With a timeout no connection keeps its goroutines waiting for a hello:  *)
(* both serve and the reading one go on, also when the timer wins - unless *)
(* the hello of some connection has ended the whole process.               *)
HelloBounded ==
  \A c \in Conns :
    opts.timeout /\ pc[c] = "hello" ~>
      (pc[c] # "hello" /\ hello[c] = "ended") \/ ~Alive

(* A connection that waits for http.Serve is taken or closed, though Close *)
(* may end http.Serve at any time, unless the process ends.                *)
HandoffEnds ==
  \A c \in Conns : pc[c] = "http" ~> pc[c] = "returned" \/ ~Alive

(* Close makes Serve return: listener, http.Serve and accept loop end,     *)
(* unless the process does.                                                *)
CloseReturns == done ~> accept = "returned" \/ ~Alive
=============================================================================
