------------------------------- MODULE Forward -------------------------------
(***************************************************************************)
(* One forwarded request: Client.Unary, Connect or Websocket at one end of *)
(* a channel (client_unary.go, client_tcp.go, client_websocket.go), at the *)
(* other end forwardConn.Serve with the target that it calls, and, once    *)
(* the answer is 101, the two goroutines that copy between target and      *)
(* channel (server_handler.go, pipe/io.go).  DialContext has just returned *)
(* the channel.                                                            *)
(*                                                                         *)
(* The channel is what IOChannel implements, seen by its users: Write hands*)
(* data to Serve, Serve sends within the window, a close drops what is not *)
(* sent and reaches the peer behind what was.  Data is counted in units: a *)
(* metadata header, a piece of a body, a piece of a stream.                *)
(*                                                                         *)
(* Time.  A wait of 3 or 5 seconds may be over at any point; late records  *)
(* that it was before all was passed on that it waits for.                 *)
(***************************************************************************)
EXTENDS Integers

CONSTANTS
  Window,    \* units that a receive pipe holds
  MaxBody,   \* bound: units in the body of a request
  MaxAnswer, \* bound: units in the body of an answer
  MaxTunnel  \* bound: units sent into a tunnel, from both sides together

ASSUME ForwardAssumption ==
  /\ Window \in Nat \ {0} /\ MaxBody \in Nat
  /\ MaxAnswer \in Nat \ {0} /\ MaxTunnel \in Nat \ {0}

VARIABLES
  req,      \* the request, and how much of its body the caller supplies
  ctx,      \* the caller's context is done
  call,     \* where the caller is, in the call and after it
  go,       \* where the goroutine of Client.unary is; "ok", "error": in ch
  answer,   \* what the handler has to say
  h,        \* where forwardConn.Serve is
  target,   \* the connection or the response body: "ended" by the target
  ended,    \* history: the target has ended it
  copy,     \* the two copies of a tunnel: "up" to the target, "down" from it
  late,     \* history: a wait was over before all was passed on
  cut,      \* history: a failed write closed the target at once
  moved,    \* units in and out of the two directions, headers not counted;
            \* "sent": sent by the target of a tunnel, to be read or read
  link,     \* the tcp-chain is up
  closed,   \* closed[e]: ioChannel.Close was called at e
  serve,    \* serve[e]: the goroutine Serve of e runs
  pending,  \* pending[e]: units that Serve of e has taken and not sent
  pipe      \* pipe[e]: units received and not read

callVars == <<req, ctx, call, go>>
handlerVars == <<answer, h, target, ended, copy, late, cut>>
chanVars == <<link, closed, serve, pending, pipe>>
vars == <<callVars, handlerVars, moved, chanVars>>

Ends == {"client", "server"}
Peer(e) == IF e = "client" THEN "server" ELSE "client"

(* The requests: Body and BodyLen of a unary call, of which Body may hold  *)
(* less than BodyLen says; HEAD, Connect and Websocket have none.          *)
Requests ==
  {r \in [kind : {"unary"}, body : 0..MaxBody, supply : 0..MaxBody] : r.supply <= r.body}
    \cup [kind : {"head", "tcp", "ws"}, body : {0}, supply : {0}]
Tunnel == req.kind \in {"tcp", "ws"}

(* An answer: its length as announced, what there is of it, whether it is  *)
(* status 101, and whether its metadata is longer than 16 bits can say.    *)
Answer(len, real, up, wide) == [len |-> len, real |-> real, up |-> up, wide |-> wide]
Text == Answer(1, 1, FALSE, FALSE)
Switching == Answer(0, 0, TRUE, FALSE)

(* What Do may return: a HEAD announces a length and has no body; a body   *)
(* may break off before its length.                                        *)
Responses ==
  {Answer(n, r, FALSE, w) : n \in 0..MaxAnswer, r \in 0..MaxAnswer, w \in BOOLEAN}
Fits(a) == IF req.kind = "head" THEN a.real = 0 ELSE a.real <= a.len

Init ==
  /\ req \in Requests
  /\ ctx = FALSE
  /\ call = "wait"
  /\ go = "meta"
  /\ answer = Switching
  /\ h = "readMeta"
  /\ target = "none"
  /\ ended = FALSE
  /\ copy = [up |-> "off", down |-> "off"]
  /\ late = FALSE /\ cut = FALSE
  /\ moved = [upIn |-> 0, upOut |-> 0, sent |-> 0, downIn |-> 0, downOut |-> 0]
  /\ link = TRUE
  /\ closed = [e \in Ends |-> FALSE]
  /\ serve = [e \in Ends |-> TRUE]
  /\ pending = [e \in Ends |-> 0]
  /\ pipe = [e \in Ends |-> 0]

TypeOK ==
  /\ req \in Requests
  /\ ctx \in BOOLEAN /\ ended \in BOOLEAN /\ link \in BOOLEAN
  /\ late \in BOOLEAN /\ cut \in BOOLEAN
  /\ call \in {"wait", "readText", "ok", "failed", "short", "left"}
  /\ go \in {"meta", "body", "piece", "head", "ok", "error"}
  /\ answer \in Responses \cup {Text, Switching}
  /\ h \in {"readMeta", "do", "dial", "sendText", "sendOk", "sendBody", "delay",
            "copy", "close", "closeChan", "done"}
  /\ target \in {"none", "open", "ended", "closed"}
  /\ copy \in [{"up", "down"} ->
                 {"off", "read", "write", "closeTarget", "closeChan", "done"}]
  /\ moved \in [{"upIn", "upOut", "sent", "downIn", "downOut"} -> Nat]
  /\ closed \in [Ends -> BOOLEAN] /\ serve \in [Ends -> BOOLEAN]
  /\ pending \in [Ends -> 0..2] /\ pipe \in [Ends -> 0..Window]

-----------------------------------------------------------------------------
(* The channel.                                                            *)

Down(e) == closed[e] \/ ~link

(* Write hands n units to Serve, once it has sent all that it had.         *)
Write(e, n) ==
  /\ serve[e]
  /\ pending[e] = 0
  /\ pending' = [pending EXCEPT ![e] = n]
  /\ UNCHANGED <<link, closed, serve, pipe>>

WriteFails(e) == Down(e) /\ UNCHANGED chanVars

(* Read takes a unit, also from a closed channel; at its end it is io.EOF. *)
Read(e) ==
  /\ pipe[e] > 0
  /\ pipe' = [pipe EXCEPT ![e] = @ - 1]
  /\ UNCHANGED <<link, closed, serve, pending>>

ReadEOF(e) == closed[e] /\ pipe[e] = 0

Close(e) ==
  /\ closed' = [closed EXCEPT ![e] = TRUE]
  /\ UNCHANGED <<link, serve, pending, pipe>>

(* Serve sends a unit; a closed peer drops it.                             *)
Send(e) ==
  /\ serve[e]
  /\ link
  /\ pending[e] > 0
  /\ pipe[Peer(e)] < Window
  /\ pending' = [pending EXCEPT ![e] = @ - 1]
  /\ pipe' = [pipe EXCEPT ![Peer(e)] = IF closed[Peer(e)] THEN @ ELSE @ + 1]
  /\ UNCHANGED <<link, closed, serve>>

ServeExit(e) ==
  /\ serve[e]
  /\ Down(e)
  /\ serve' = [serve EXCEPT ![e] = FALSE]
  /\ closed' = [closed EXCEPT ![e] = TRUE]
  /\ pending' = [pending EXCEPT ![e] = 0]
  /\ UNCHANGED <<link, pipe>>

(* The Close frame that the peer's transport sends when its Serve ends.    *)
CloseArrives(e) ==
  /\ ~serve[Peer(e)]
  /\ link
  /\ ~closed[e]
  /\ Close(e)

ChannelStep(e) ==
  /\ Send(e) \/ ServeExit(e) \/ CloseArrives(e)
  /\ UNCHANGED <<callVars, handlerVars, moved>>

LinkLoss ==
  /\ link
  /\ link' = FALSE
  /\ UNCHANGED <<callVars, handlerVars, moved, closed, serve, pending, pipe>>

Moves(f) == moved' = [moved EXCEPT ![f] = @ + 1]

-----------------------------------------------------------------------------
(* The goroutine of Client.unary.                                          *)

GoTo(pc) == go' = pc /\ UNCHANGED <<req, ctx, call, handlerVars>>

GoMeta ==
  /\ go = "meta"
  /\ Write("client", 1)
  /\ GoTo(IF req.body = 0 THEN "head" ELSE "body")
  /\ UNCHANGED moved

(* io.Copy from the LimitReader over Body.  Body.Read is the caller's, and *)
(* may block: it returns a piece, or that Body has no more, or an error.   *)
GoBodyRead ==
  /\ go = "body"
  /\ moved.upIn < req.supply
  /\ GoTo("piece")
  /\ UNCHANGED <<moved, chanVars>>

GoBodyEnds ==
  /\ go = "body"
  /\ moved.upIn = req.supply /\ req.supply < req.body
  /\ GoTo("head") \/ GoTo("error")
  /\ UNCHANGED <<moved, chanVars>>

GoBody ==
  /\ go = "piece"
  /\ Write("client", 1)
  /\ Moves("upIn")
  /\ GoTo("body")

(* At BodyLen the LimitReader ends without another Read.                   *)
GoBodyEnd ==
  /\ go = "body"
  /\ moved.upIn = req.body
  /\ GoTo("head")
  /\ UNCHANGED <<moved, chanVars>>

GoWriteFails ==
  /\ go \in {"meta", "piece"}
  /\ WriteFails("client")
  /\ GoTo("error")
  /\ UNCHANGED moved

(* Metadata that was cut to the low 16 bits of its length is no JSON.      *)
GoHead ==
  /\ go = "head"
  /\ Read("client")
  /\ GoTo(IF answer.wide THEN "error" ELSE "ok")
  /\ UNCHANGED moved

GoHeadEOF ==
  /\ go = "head"
  /\ ReadEOF("client")
  /\ GoTo("error")
  /\ UNCHANGED <<moved, chanVars>>

GoStep == GoMeta \/ GoBody \/ GoBodyEnd \/ GoWriteFails \/ GoHead \/ GoHeadEOF

-----------------------------------------------------------------------------
(* The call, and what its caller does with the answer.                     *)

CallTo(pc) == call' = pc /\ UNCHANGED <<req, ctx, go, handlerVars, moved>>

(* The select of Client.unary: the result ...                              *)
CallOk ==
  /\ call = "wait"
  /\ go = "ok"
  /\ CallTo(IF Tunnel /\ ~answer.up THEN "readText" ELSE "ok")
  /\ UNCHANGED chanVars
CallError ==
  /\ call = "wait"
  /\ go = "error"
  /\ CallTo("failed")
  /\ Close("client")

(* Mutant: the goroutine keeps the channel.                                *)
CallCancelledOpen ==
  /\ call = "wait"
  /\ ctx
  /\ CallTo("failed")
  /\ UNCHANGED chanVars

(* ... or the context, also when both are ready.                           *)
CallCancelled ==
  /\ call = "wait"
  /\ ctx
  /\ CallTo("failed")
  /\ Close("client")

(* Connect and Websocket read the text of a refusal, context or not, and   *)
(* close the channel.                                                      *)
CallText ==
  /\ call = "readText"
  /\ pipe["client"] > 0 \/ ReadEOF("client")
  /\ CallTo("failed")
  /\ Close("client")

CallStep == CallOk \/ CallError \/ CallCancelled \/ CallText

Cancel ==
  /\ ~ctx
  /\ call \in {"wait", "readText"}
  /\ ctx' = TRUE
  /\ UNCHANGED <<req, call, go, handlerVars, moved, chanVars>>

UserWrite ==
  /\ call = "ok"
  /\ Tunnel
  /\ moved.upIn + moved.sent < MaxTunnel
  /\ Write("client", 1)
  /\ Moves("upIn")
  /\ UNCHANGED <<callVars, handlerVars>>

UserRead ==
  /\ call = "ok"
  /\ Tunnel \/ moved.downOut < answer.len
  /\ Read("client")
  /\ Moves("downOut")
  /\ UNCHANGED <<callVars, handlerVars>>

(* The LimitReader over the channel passes on an early io.EOF as it is.    *)
UserShort ==
  /\ call = "ok"
  /\ ~Tunnel
  /\ moved.downOut < answer.len
  /\ ReadEOF("client")
  /\ CallTo("short")
  /\ UNCHANGED chanVars

(* Close of an empty answer is that of nilReadCloser: it closes nothing.   *)
UserClose ==
  /\ call \in {"ok", "short"}
  /\ Tunnel \/ answer.len > 0
  /\ CallTo("left")
  /\ Close("client")

UserStep ==
  GoBodyRead \/ GoBodyEnds \/ UserWrite \/ UserRead \/ UserShort \/ UserClose

-----------------------------------------------------------------------------
(* forwardConn.Serve: the exchange.                                        *)

HandlerTo(pc) == h' = pc /\ UNCHANGED <<callVars, ended, cut>>

(* Metadata that cannot be used, or an address that the hook refuses.      *)
ReadMeta ==
  /\ h = "readMeta"
  /\ Read("server")
  /\ \/ HandlerTo(IF Tunnel THEN "dial" ELSE "do") /\ UNCHANGED answer
     \/ HandlerTo("sendText") /\ answer' = Text
  /\ UNCHANGED <<target, copy, late, moved>>

ReadMetaEOF ==
  /\ h = "readMeta"
  /\ ReadEOF("server")
  /\ HandlerTo("close")
  /\ UNCHANGED <<answer, target, copy, late, moved, chanVars>>

(* The http transport reads the body while it waits for the answer, and may*)
(* go on after it; past the LimitReader there is nothing.                  *)
Upload ==
  /\ ~Tunnel
  /\ h \in {"do", "sendText", "sendOk", "sendBody", "delay"}
  /\ moved.upOut < req.body
  /\ Read("server")
  /\ Moves("upOut")
  /\ UNCHANGED <<callVars, handlerVars>>

DoAnswers ==
  /\ h = "do"
  /\ \E a \in Responses : Fits(a) /\ answer' = a
  /\ target' = "open"
  /\ HandlerTo("sendOk")
  /\ UNCHANGED <<copy, late, moved, chanVars>>

Dialled ==
  /\ h = "dial"
  /\ answer' = Switching
  /\ target' = "open"
  /\ HandlerTo("sendOk")
  /\ UNCHANGED <<copy, late, moved, chanVars>>

(* Do or the dial fails; or there is an answer, and its length is missing  *)
(* or wrong, or its body too long or broken.                               *)
DoFails ==
  /\ h \in {"do", "dial"}
  /\ target' \in IF h = "do" THEN {"none", "open"} ELSE {"none"}
  /\ answer' = Text
  /\ HandlerTo("sendText")
  /\ UNCHANGED <<copy, late, moved, chanVars>>

(* Metadata and text go in one Write.                                      *)
SendText ==
  /\ h = "sendText"
  /\ Write("server", 2)
  /\ Moves("downIn")
  /\ HandlerTo("delay")
  /\ UNCHANGED <<answer, target, copy, late>>

SendOk ==
  /\ h = "sendOk"
  /\ Write("server", 1)
  /\ IF answer.up
       THEN HandlerTo("copy") /\ copy' = [up |-> "read", down |-> "read"]
       ELSE /\ HandlerTo(IF answer.len = 0 THEN "delay" ELSE "sendBody")
            /\ UNCHANGED copy
  /\ UNCHANGED <<answer, target, late, moved>>

SendBody ==
  /\ h = "sendBody"
  /\ moved.downIn < answer.real
  /\ Write("server", 1)
  /\ Moves("downIn")
  /\ HandlerTo("sendBody")
  /\ UNCHANGED <<answer, target, copy, late>>

(* Mutant: the channel is closed as soon as the body is written.           *)
SendBodyEndCloses ==
  /\ h = "sendBody"
  /\ moved.downIn = answer.real
  /\ HandlerTo("close")
  /\ UNCHANGED <<answer, target, copy, late, moved, chanVars>>

(* A body that breaks off is an error of io.Copy and ends without a wait.  *)
(* An answer to HEAD or with status 304 has none, and that is no error.    *)
SendBodyEnd ==
  /\ h = "sendBody"
  /\ moved.downIn = answer.real
  /\ \/ /\ req.kind = "head" \/ answer.real \in {0, answer.len}
        /\ HandlerTo("delay")
     \/ /\ req.kind # "head" /\ answer.real < answer.len
        /\ HandlerTo("close")
  /\ UNCHANGED <<answer, target, copy, late, moved, chanVars>>

(* The test of the context, a Write, or a read of the answer's body.       *)
SendFails ==
  /\ h \in {"sendText", "sendOk", "sendBody"}
  /\ WriteFails("server")
  /\ HandlerTo("close")
  /\ UNCHANGED <<answer, target, copy, late, moved>>

(* All that was handed to the channel has been sent, or never will be.     *)
ChannelQuiet == Down("server") \/ (pending["server"] = 0 /\ copy.down # "write")

(* Mutant: the wait is for the channel alone.                              *)
DelayEndsNever ==
  /\ h = "delay"
  /\ closed["server"]
  /\ HandlerTo("close")
  /\ UNCHANGED <<answer, target, copy, late, moved, chanVars>>

(* delayWait: 5 seconds, or less if the channel is closed.                 *)
DelayEnds ==
  /\ h = "delay"
  /\ late' = (late \/ ~ChannelQuiet)
  /\ HandlerTo("close")
  /\ UNCHANGED <<answer, target, copy, moved, chanVars>>

(* The deferred Close of the target, then that of the channel.             *)
CloseTarget ==
  /\ h = "close"
  /\ target' = IF target = "none" THEN "none" ELSE "closed"
  /\ HandlerTo("closeChan")
  /\ UNCHANGED <<answer, copy, late, moved, chanVars>>
CloseChan ==
  /\ h = "closeChan"
  /\ Close("server")
  /\ HandlerTo("done")
  /\ UNCHANGED <<answer, target, copy, late, moved>>

-----------------------------------------------------------------------------
(* The tunnel.  For tcp both copies are pipe.Copy; for a websocket they are*)
(* the loops over writeWS (up) and readWS (down), a message being a unit - *)
(* an empty one of the target is none.                                     *)

CopyTo(d, pc) ==
  /\ copy' = [copy EXCEPT ![d] = pc]
  /\ UNCHANGED <<callVars, answer, h, ended>>

UpRead ==
  /\ copy.up = "read"
  /\ Read("server")
  /\ CopyTo("up", "write")
  /\ UNCHANGED <<target, late, moved, cut>>

UpWrite ==
  /\ copy.up = "write"
  /\ target \in {"open", "ended"}
  /\ Moves("upOut")
  /\ CopyTo("up", "read")
  /\ UNCHANGED <<target, late, chanVars, cut>>

DownRead ==
  /\ copy.down = "read"
  /\ target \in {"open", "ended"}
  /\ moved.downIn < moved.sent
  /\ Moves("downIn")
  /\ CopyTo("down", "write")
  /\ UNCHANGED <<target, late, chanVars, cut>>

DownWrite ==
  /\ copy.down = "write"
  /\ Write("server", 1)
  /\ CopyTo("down", "read")
  /\ UNCHANGED <<target, late, moved, cut>>

(* A Write to the target fails, which of a websocket is also one that its  *)
(* writer refuses; a Read does once all that it has sent is read.          *)
Failing(d) ==
  IF d = "up"
    THEN copy.up = "write" /\ (target # "open" \/ req.kind = "ws")
    ELSE /\ copy.down = "read"
         /\ target = "closed" \/ (target = "ended" /\ moved.downIn = moved.sent)

(* Mutant: both sides are closed at once.                                  *)
TargetFailsBoth(d) ==
  /\ Failing(d)
  /\ target' = "closed"
  /\ cut' = (cut \/ (d = "up" /\ target # "closed"))
  /\ CopyTo(d, "done")
  /\ Close("server")
  /\ UNCHANGED <<late, moved>>

(* The target fails a copy: it is closed now, read to its end or not, and  *)
(* the channel 3 seconds later.  A websocket copy leaves a closed channel  *)
(* alone.                                                                  *)
TargetFails(d) ==
  /\ Failing(d)
  /\ target' = "closed"
  /\ cut' = (cut \/ (d = "up" /\ target # "closed"))
  /\ CopyTo(d, IF req.kind = "ws" /\ closed["server"] THEN "done" ELSE "closeChan")
  /\ UNCHANGED <<late, moved, chanVars>>

(* Mutants: the target is closed at once; it is left open.                 *)
ChannelFailsBoth(d) ==
  /\ \/ d = "up" /\ copy.up = "read" /\ ReadEOF("server")
     \/ d = "down" /\ copy.down = "write" /\ Down("server")
  /\ Close("server")
  /\ target' = "closed"
  /\ CopyTo(d, "done")
  /\ UNCHANGED <<late, moved, cut>>
ChannelFailsOnly(d) ==
  /\ \/ d = "up" /\ copy.up = "read" /\ ReadEOF("server")
     \/ d = "down" /\ copy.down = "write" /\ Down("server")
  /\ Close("server")
  /\ CopyTo(d, "done")
  /\ UNCHANGED <<target, late, moved, cut>>

(* The channel fails a copy: closed now, and the target 3 seconds later.   *)
ChannelFails(d) ==
  /\ \/ d = "up" /\ copy.up = "read" /\ ReadEOF("server")
     \/ d = "down" /\ copy.down = "write" /\ Down("server")
  /\ Close("server")
  /\ CopyTo(d, "closeTarget")
  /\ UNCHANGED <<target, late, moved, cut>>

CopyClosesChan(d) ==
  /\ copy[d] = "closeChan"
  /\ late' = (late \/ ~ChannelQuiet)
  /\ Close("server")
  /\ CopyTo(d, "done")
  /\ UNCHANGED <<target, moved, cut>>

(* The up copy has written what was left in the pipe, or has given up.     *)
TargetQuiet == copy.up # "write" /\ (copy.up = "read" => pipe["server"] = 0)

CopyClosesTarget(d) ==
  /\ copy[d] = "closeTarget"
  /\ late' = (late \/ ~TargetQuiet)
  /\ target' = "closed"
  /\ CopyTo(d, "done")
  /\ UNCHANGED <<moved, chanVars, cut>>

CopyEnds(d) ==
  TargetFails(d) \/ ChannelFails(d) \/ CopyClosesChan(d) \/ CopyClosesTarget(d)

(* Serve itself runs the down copy of a tcp and the up copy of a websocket.*)
CopyReturns ==
  /\ h = "copy"
  /\ copy[IF req.kind = "tcp" THEN "down" ELSE "up"] = "done"
  /\ HandlerTo("close")
  /\ UNCHANGED <<answer, target, copy, late, moved, chanVars>>

TargetSends ==
  /\ target = "open"
  /\ Tunnel
  /\ moved.upIn + moved.sent < MaxTunnel
  /\ Moves("sent")
  /\ UNCHANGED <<callVars, handlerVars, chanVars>>

TargetEnds ==
  /\ target = "open"
  /\ Tunnel
  /\ target' = "ended"
  /\ ended' = TRUE
  /\ UNCHANGED <<callVars, answer, h, copy, late, cut, moved, chanVars>>

-----------------------------------------------------------------------------
(* What the handler does by itself, and what only the target decides, but  *)
(* for a request whose context is done, which fails.                       *)
HandlerStep ==
  \/ ReadMeta
  \/ ReadMetaEOF
  \/ closed["server"] /\ DoFails
  \/ SendText
  \/ SendOk
  \/ SendBody
  \/ SendBodyEnd
  \/ SendFails
  \/ DelayEnds
  \/ CopyReturns
  \/ CloseTarget
  \/ CloseChan

UpStep == UpRead \/ UpWrite \/ CopyEnds("up")
DownStep == DownRead \/ DownWrite \/ CopyEnds("down")
TargetStep == Upload \/ DoAnswers \/ DoFails \/ Dialled \/ TargetSends \/ TargetEnds

Next ==
  \/ \E e \in Ends : ChannelStep(e)
  \/ GoStep \/ CallStep \/ HandlerStep \/ UpStep \/ DownStep
  \/ LinkLoss \/ Cancel \/ UserStep \/ TargetStep

(* Goroutines and timers go on, those of a channel with a transport that is*)
(* not jammed, and a target in a tunnel takes what it is sent.  Neither the*)
(* caller, with its Body, nor the target has to do anything else.          *)
Fairness ==
  /\ \A e \in Ends : WF_vars(ChannelStep(e))
  /\ WF_vars(GoStep)
  /\ WF_vars(CallStep)
  /\ WF_vars(HandlerStep)
  /\ WF_vars(UpStep)
  /\ WF_vars(DownStep)

Spec == Init /\ [][Next]_vars /\ Fairness

-----------------------------------------------------------------------------
(* Properties.                                                             *)

(* A caller that comes to the end of an answer before its announced length *)
(* has met a target that gave no more, a lost tcp-chain, or a chain or a   *)
(* reader - itself - for which the 5 seconds were too short: but for those *)
(* the handler never closes the channel over an answer on its way          *)
(* (server_handler.go:416-468, client_unary.go:99-108).                    *)
AnswerWhole ==
  (call = "short" /\ link /\ ~late) => answer.real < answer.len
ForwardInv == TypeOK /\ AnswerWhole

(* When a tunnel ends, what was under way is passed on first, if 3 seconds *)
(* are enough.  If it is not the client or the tcp-chain that ends it, all *)
(* the target sent is at the client before the client sees the end; if it  *)
(* is, all that has arrived is written to the target before that is closed *)
(* - though two goroutines and the deferred closes share both connections  *)
(* (pipe/io.go:16-31, server_handler.go:157-238).  The exception, of either*)
(* half, is a Write to the target that fails: it closes the target at once *)
(* (pipe/io.go:24-26, server_handler.go:229), and what the target had sent *)
(* and the other copy had not read yet is lost; what it had read is not.   *)
TunnelWhole ==
  /\ (Tunnel /\ call = "ok" /\ closed["client"] /\ link /\ ~late) =>
       moved.downOut + pipe["client"] = IF cut THEN moved.downIn ELSE moved.sent
  /\ (Tunnel /\ target = "closed" /\ ~ended /\ ~late /\ ~cut) =>
       pipe["server"] = 0 /\ copy.up # "write"

(* A call whose context is done returns, and its goroutine ends - at any   *)
(* point of the exchange, also while Connect or Websocket read a refusal - *)
(* unless the caller's own Body never returns from a Read, which nothing   *)
(* ends (client_unary.go:38-130, client_tcp.go:28-40).                     *)
CallReturns ==
  ctx ~> /\ call \notin {"wait", "readText"}
         /\ go \in {"ok", "error"} \/ [](go = "body")

(* Once the channel is closed at the server, by whomever, or its tcp-chain *)
(* lost, the handler and both copies end and the target is closed          *)
(* (server_handler.go:46-50, 157-238, pipe/io.go:16-31).                   *)
HandlerEnds ==
  Down("server") ~> /\ h = "done"
                    /\ copy.up \in {"off", "done"} /\ copy.down \in {"off", "done"}
                    /\ target \in {"none", "closed"}

(* The channel of an empty answer, which its caller has no means to close, *)
(* is closed at both ends (client_unary.go:100-101, 164,                   *)
(* server_handler.go:416-468).                                             *)
EmptyReleased ==
  (call = "ok" /\ ~Tunnel /\ answer.len = 0) ~> closed["client"] /\ closed["server"]
=============================================================================
