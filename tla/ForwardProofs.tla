----------------------------- MODULE ForwardProofs -----------------------------
(* Proofs about Forward: whatever the interleaving of call, handler and    *)
(* copies, and for any windows and lengths, what is on its way is passed on*)
(* before anything is closed over it.  And about the framing of messages   *)
(* in a websocket tunnel.                                                  *)
EXTENDS MCForward, SequenceLemmas, TLAPS

One(p) == IF p THEN 1 ELSE 0

-----------------------------------------------------------------------------
(* The handler: the labels after it has answered, and after its waits.     *)

Answered == h \in {"sendBody", "delay", "copy", "close", "closeChan", "done"}
Leaving == h \in {"close", "closeChan", "done"}
Copying == copy.up # "off"

ShapeInv ==
  /\ copy.up = "off" <=> copy.down = "off"
  /\ Copying => Tunnel /\ answer.up /\ target # "none" /\ (h = "copy" \/ Leaving)
  /\ Copying /\ Leaving => target = "closed" /\ closed["server"]
  /\ h = "copy" => Copying
  /\ h = "do" => ~Tunnel
  /\ h = "dial" => Tunnel
  /\ Tunnel /\ h \in {"readMeta", "dial"} => target = "none"
  /\ Tunnel /\ h = "sendOk" => target \in {"open", "ended"} /\ answer.up
  /\ h = "sendText" => answer = Text
  /\ h \in {"sendBody", "delay"} => ~answer.up
  /\ ~Tunnel /\ h = "sendOk" => ~answer.up /\ answer.real <= answer.len
  /\ h = "sendBody" => ~Tunnel

CopyInv ==
  /\ target = "ended" => ended
  /\ \A d \in {"up", "down"} :
       /\ copy[d] \in {"closeChan", "done"} => target = "closed"
       /\ copy[d] \in {"closeTarget", "done"} => closed["server"]

ServeInv == \A e \in Ends : ~serve[e] => closed[e] /\ pending[e] = 0

(* The client hears of an answer only when there is one, and of a tunnel   *)
(* only when its copies run.                                               *)
HeardInv ==
  /\ call \in {"ok", "readText", "short"} => go = "ok"
  /\ call = "ok" /\ Tunnel => answer.up
  /\ Tunnel => go \notin {"body", "piece"}
  /\ pending["server"] > 0 \/ pipe["client"] > 0 \/ go = "ok" =>
       Answered /\ (answer.up => Copying)

(* Before the copies run, all that has come through a tunnel is metadata.  *)
MetaInv ==
  Tunnel /\ ~Copying =>
    /\ h = "readMeta" => /\ pending["client"] + pipe["server"] <= 1
                         /\ go = "meta" => pending["client"] + pipe["server"] = 0
    /\ h \in {"dial", "sendOk"} \/ target # "none" =>
         go # "meta" /\ pending["client"] = 0 /\ pipe["server"] = 0

(* Neither the target nor a failed write has ended the tunnel, and no wait *)
(* has been too short.                                                     *)
Gentle == ~ended /\ ~late /\ ~cut

UpInv ==
  /\ copy.up \in {"closeTarget", "closeChan", "done"} /\ Gentle =>
       pipe["server"] = 0 /\ closed["server"]
  /\ Tunnel /\ target = "closed" /\ Gentle =>
       /\ pipe["server"] = 0 /\ copy.up # "write"
       /\ Copying => closed["server"]

TunnelInv ==
  TypeOK /\ ShapeInv /\ CopyInv /\ ServeInv /\ HeardInv /\ MetaInv /\ UpInv

-----------------------------------------------------------------------------
(* The way down, as long as the tcp-chain is up, no wait has been too short*)
(* and the client has not given up.                                        *)

Undisturbed ==
  link /\ ~late /\ go # "error" /\ call \notin {"failed", "left"}

(* An answer that the target has broken off.                               *)
Broken == ~Tunnel /\ Leaving /\ answer.real < answer.len
Quiet == pending["server"] = 0 /\ copy.down # "write"

(* Units that the client has got or will get, and that the handler wrote.  *)
Arrived == moved.downOut + One(go = "ok") + pipe["client"] + pending["server"]
Sent == moved.downIn - One(copy.down = "write") + One(Answered)

CloseOrder ==
  /\ closed["client"] => ~serve["server"]
  /\ closed["server"] => (h = "copy" \/ Leaving) /\ target \in {"none", "closed"}
  /\ closed["server"] \/ Leaving => Broken \/ Quiet

BodyInv ==
  /\ h \in {"readMeta", "do", "dial", "sendText", "sendOk"} => moved.downIn = 0
  /\ h = "sendBody" => moved.downIn <= answer.real
  /\ ~Tunnel /\ Undisturbed /\ h \in {"delay", "close", "closeChan", "done"} =>
       moved.downIn = answer.real

(* A target is not closed before all it sent is read, unless a write to it *)
(* fails.                                                                  *)
DrainInv ==
  Copying /\ Undisturbed /\ target = "closed" /\ ~cut => moved.downIn = moved.sent

TargetFirst == h \in {"closeChan", "done"} => target \in {"none", "closed"}

WholeInv ==
  /\ TunnelInv
  /\ TargetFirst
  /\ Undisturbed => CloseOrder /\ (Broken \/ Arrived = Sent)
  /\ BodyInv
  /\ DrainInv
  /\ AnswerWhole

-----------------------------------------------------------------------------
(* The channel under each of its operations.                               *)

ChanType ==
  /\ link \in BOOLEAN /\ closed \in [Ends -> BOOLEAN] /\ serve \in [Ends -> BOOLEAN]
  /\ pending \in [Ends -> 0..2] /\ pipe \in [Ends -> 0..Window]

LEMMA EndsFacts ==
  /\ "client" \in Ends /\ "server" \in Ends
  /\ Peer("client") = "server" /\ Peer("server") = "client"
  /\ \A e \in Ends : e = "client" \/ e = "server"
BY DEF Ends, Peer

LEMMA WriteChan ==
  ASSUME ChanType, NEW e \in Ends, NEW n \in 1..2, Write(e, n)
  PROVE  /\ ChanType' /\ serve[e] /\ pending[e] = 0 /\ pending'[e] = n
         /\ \A d \in Ends \ {e} : pending'[d] = pending[d]
         /\ UNCHANGED <<link, closed, serve, pipe>>
BY DEF Write, ChanType

LEMMA ReadChan ==
  ASSUME ChanType, NEW e \in Ends, Read(e)
  PROVE  /\ ChanType' /\ pipe[e] > 0 /\ pipe'[e] = pipe[e] - 1
         /\ \A d \in Ends \ {e} : pipe'[d] = pipe[d]
         /\ UNCHANGED <<link, closed, serve, pending>>
<1>1. pipe[e] \in 0..Window /\ Window \in Nat
  BY ForwardAssumption DEF ChanType
<1> QED
  BY <1>1 DEF Read, ChanType

LEMMA CloseChanged ==
  ASSUME ChanType, NEW e \in Ends, Close(e)
  PROVE  /\ ChanType' /\ closed'[e]
         /\ \A d \in Ends \ {e} : closed'[d] = closed[d]
         /\ UNCHANGED <<link, serve, pending, pipe>>
BY DEF Close, ChanType

LEMMA SendChan ==
  ASSUME ChanType, NEW e \in Ends, Send(e)
  PROVE  /\ ChanType' /\ link /\ serve[e] /\ pending[e] > 0
         /\ pending'[e] = pending[e] - 1 /\ pending'[Peer(e)] = pending[Peer(e)]
         /\ pipe'[e] = pipe[e]
         /\ pipe'[Peer(e)] = IF closed[Peer(e)] THEN pipe[Peer(e)] ELSE pipe[Peer(e)] + 1
         /\ UNCHANGED <<link, closed, serve>>
<1>1. /\ Peer(e) \in Ends /\ Peer(e) # e /\ Window \in Nat
      /\ pending[e] \in 0..2 /\ pipe[Peer(e)] \in 0..Window
  BY ForwardAssumption, EndsFacts DEF ChanType
<1>2. UNCHANGED <<link, closed, serve>> /\ link /\ serve[e]
      /\ pending[e] > 0 /\ pipe[Peer(e)] < Window
  BY DEF Send
<1>3. /\ pending' = [pending EXCEPT ![e] = pending[e] - 1]
      /\ pipe' = [pipe EXCEPT ![Peer(e)] =
                    IF closed[Peer(e)] THEN pipe[Peer(e)] ELSE pipe[Peer(e)] + 1]
  BY DEF Send
<1>4. pending' \in [Ends -> 0..2] /\ pipe' \in [Ends -> 0..Window]
  BY <1>1, <1>2, <1>3 DEF ChanType
<1> QED
  BY <1>1, <1>2, <1>3, <1>4 DEF ChanType

LEMMA ServeExitChan ==
  ASSUME ChanType, NEW e \in Ends, ServeExit(e)
  PROVE  /\ ChanType' /\ serve[e] /\ Down(e) /\ ~serve'[e] /\ closed'[e] /\ pending'[e] = 0
         /\ \A d \in Ends \ {e} : /\ serve'[d] = serve[d] /\ closed'[d] = closed[d]
                                  /\ pending'[d] = pending[d]
         /\ UNCHANGED <<link, pipe>>
BY DEF ServeExit, ChanType

CallType ==
  /\ req \in Requests /\ ctx \in BOOLEAN
  /\ call \in {"wait", "readText", "ok", "failed", "short", "left"}
  /\ go \in {"meta", "body", "piece", "head", "ok", "error"}
HandlerType ==
  /\ answer \in Responses \cup {Text, Switching}
  /\ h \in {"readMeta", "do", "dial", "sendText", "sendOk", "sendBody", "delay",
            "copy", "close", "closeChan", "done"}
  /\ target \in {"none", "open", "ended", "closed"}
  /\ ended \in BOOLEAN /\ late \in BOOLEAN /\ cut \in BOOLEAN
  /\ copy \in [{"up", "down"} ->
                 {"off", "read", "write", "closeTarget", "closeChan", "done"}]
MovedType == moved \in [{"upIn", "upOut", "sent", "downIn", "downOut"} -> Nat]
LEMMA TypeParts ==
  /\ TypeOK <=> CallType /\ HandlerType /\ MovedType /\ ChanType
  /\ TypeOK' <=> CallType' /\ HandlerType' /\ MovedType' /\ ChanType'
BY DEF TypeOK, CallType, HandlerType, MovedType, ChanType

LEMMA Moved ==
  ASSUME MovedType, NEW f \in {"upIn", "upOut", "sent", "downIn", "downOut"}, Moves(f)
  PROVE  /\ MovedType'
         /\ moved'.upIn = moved.upIn + One(f = "upIn")
         /\ moved'.upOut = moved.upOut + One(f = "upOut")
         /\ moved'.sent = moved.sent + One(f = "sent")
         /\ moved'.downIn = moved.downIn + One(f = "downIn")
         /\ moved'.downOut = moved.downOut + One(f = "downOut")
<1>1. moved' = [moved EXCEPT ![f] = moved[f] + 1]
  BY DEF Moves
<1>2. MovedType'
  BY <1>1 DEF MovedType
<1> QED
  BY <1>1, <1>2 DEF MovedType, One

-----------------------------------------------------------------------------
(* TunnelInv, kept by the channel and by the client's side.                *)

(* A channel that is closed stays closed.                                  *)
StillClosed == \A e \in Ends : closed[e] => closed'[e]

HandlerSame == UNCHANGED <<req, answer, h, target, ended, copy, late, cut>>

LEMMA HandlerKept ==
  ASSUME TunnelInv, HandlerSame, StillClosed
  PROVE  ShapeInv' /\ CopyInv'
<1>1. ShapeInv'
  BY EndsFacts DEF TunnelInv, HandlerSame, StillClosed, ShapeInv, Copying, Leaving, Tunnel
<1>2. CopyInv'
  BY EndsFacts DEF TunnelInv, HandlerSame, StillClosed, CopyInv
<1> QED
  BY <1>1, <1>2

LEMMA TypesSame ==
  ASSUME TunnelInv
  PROVE  /\ HandlerSame => HandlerType'
         /\ UNCHANGED callVars => CallType'
         /\ UNCHANGED moved => MovedType'
         /\ UNCHANGED chanVars => ChanType'
<1>1. CallType /\ HandlerType /\ MovedType /\ ChanType
  BY TypeParts DEF TunnelInv
<1>2. HandlerSame => HandlerType'
  BY <1>1 DEF HandlerSame, HandlerType
<1>3. UNCHANGED callVars => CallType'
  BY <1>1 DEF callVars, CallType
<1>4. UNCHANGED chanVars => ChanType'
  BY <1>1 DEF chanVars, ChanType
<1> QED
  BY <1>1, <1>2, <1>3, <1>4 DEF MovedType

LEMMA ChannelKept ==
  ASSUME TunnelInv, (\E e \in Ends : ChannelStep(e)) \/ LinkLoss
  PROVE  TunnelInv'
<1>0. ChanType
  BY TypeParts DEF TunnelInv
<1>1. HandlerSame /\ UNCHANGED <<callVars, ctx, call, go, moved>>
  BY DEF ChannelStep, LinkLoss, HandlerSame, callVars, handlerVars
<1>2. CASE LinkLoss
  <2>1. link' = FALSE /\ UNCHANGED <<closed, serve, pending, pipe>>
    BY <1>2 DEF LinkLoss
  <2>2. TypeOK'
    BY <1>0, <1>1, <2>1, TypeParts, TypesSame DEF ChanType
  <2>3. ShapeInv' /\ CopyInv'
    BY <1>1, <2>1, HandlerKept DEF StillClosed
  <2>4. ServeInv' /\ HeardInv' /\ MetaInv' /\ UpInv'
    BY <1>1, <2>1 DEF TunnelInv, HandlerSame, ServeInv, HeardInv, MetaInv, UpInv, Gentle,
         Copying,
       Answered, Tunnel
  <2> QED
    BY <2>2, <2>3, <2>4 DEF TunnelInv
<1>3. ASSUME NEW e \in Ends, ChannelStep(e) PROVE TunnelInv'
  <2>1. ChanType'
    BY <1>0, <1>3, SendChan, ServeExitChan, CloseChanged DEF ChannelStep, CloseArrives
  <2>2. TypeOK'
    BY <1>1, <2>1, TypeParts, TypesSame
  <2>3. CASE Send(e)
    <3>1. /\ UNCHANGED <<closed, serve>> /\ serve[e] /\ pending[e] > 0
          /\ pending'[e] = pending[e] - 1 /\ pending'[Peer(e)] = pending[Peer(e)]
          /\ pipe'[e] = pipe[e]
          /\ pipe'[Peer(e)] = IF closed[Peer(e)] THEN pipe[Peer(e)] ELSE pipe[Peer(e)] + 1
      BY <1>0, <2>3, SendChan
    <3>2. ShapeInv' /\ CopyInv'
      BY <1>1, <3>1, HandlerKept DEF StillClosed
    <3>3. ServeInv'
      BY <3>1, EndsFacts DEF TunnelInv, ServeInv
    <3>4. HeardInv'
      BY <1>0, <1>1, <3>1, EndsFacts DEF TunnelInv, HandlerSame, HeardInv, Answered,
           Copying,
         Tunnel, ChanType
    <3>5. MetaInv'
      BY <1>0, <1>1, <3>1, EndsFacts DEF TunnelInv, HandlerSame, MetaInv, Copying,
         Tunnel, ChanType
    <3>6. UpInv'
      BY <1>0, <1>1, <3>1, EndsFacts DEF TunnelInv, HandlerSame, MetaInv, UpInv, Gentle,
           Copying,
         Tunnel, ChanType
    <3> QED
      BY <2>2, <3>2, <3>3, <3>4, <3>5, <3>6 DEF TunnelInv
  <2>4. CASE ServeExit(e) \/ CloseArrives(e)
    <3>1. /\ UNCHANGED pipe /\ StillClosed
          /\ \A d \in Ends : pending'[d] = pending[d] \/ pending'[d] = 0
      BY <1>0, <2>4, ServeExitChan, CloseChanged DEF CloseArrives, StillClosed
    <3>2. ShapeInv' /\ CopyInv'
      BY <1>1, <3>1, HandlerKept
    <3>3. ServeInv'
      BY <1>0, <2>4, ServeExitChan, CloseChanged DEF CloseArrives, TunnelInv, ServeInv
    <3>4. HeardInv'
      BY <1>0, <1>1, <3>1, EndsFacts DEF TunnelInv, HandlerSame, HeardInv, Answered,
           Copying,
         Tunnel, ChanType
    <3>5. MetaInv'
      BY <1>0, <1>1, <3>1, EndsFacts DEF TunnelInv, HandlerSame, MetaInv, Copying,
         Tunnel, ChanType
    <3>6. UpInv'
      BY <1>1, <3>1, EndsFacts DEF TunnelInv, HandlerSame, UpInv, Gentle, StillClosed,
         Copying, Tunnel
    <3> QED
      BY <2>2, <3>2, <3>3, <3>4, <3>5, <3>6 DEF TunnelInv
  <2> QED
    BY <1>3, <2>3, <2>4 DEF ChannelStep
<1> QED
  BY <1>2, <1>3
(* A tunnel has no request body.                                           *)
LEMMA RequestFacts ==
  ASSUME CallType, Tunnel
  PROVE  req.kind \in {"tcp", "ws"} /\ req.body = 0 /\ req.supply = 0
BY DEF CallType, Requests, Tunnel

ClientSide == GoStep \/ CallStep \/ Cancel \/ UserStep

(* What the client's side does to the channel.                             *)
LEMMA ClientChan ==
  ASSUME TunnelInv, ClientSide
  PROVE  /\ HandlerSame /\ ChanType' /\ MovedType' /\ StillClosed
         /\ UNCHANGED <<link, serve>>
         /\ pending'["server"] = pending["server"] /\ pipe'["server"] = pipe["server"]
         /\ closed'["server"] = closed["server"]
         /\ pipe'["client"] = pipe["client"] \/ Read("client")
         /\ pending'["client"] = pending["client"] \/ Write("client", 1)
<1>0. ChanType /\ MovedType
  BY TypeParts DEF TunnelInv
<1>1. HandlerSame
  BY DEF ClientSide, GoStep, GoMeta, GoBody, GoBodyEnd, GoBodyRead, GoBodyEnds,
       GoWriteFails, GoHead, GoHeadEOF, GoTo,
     CallStep, CallOk, CallError, CallCancelled, CallText, CallTo, Cancel,
     UserStep, UserWrite, UserRead, UserShort, UserClose, HandlerSame, handlerVars,
     callVars
<1>2. Write("client", 1) \/ Read("client") \/ Close("client") \/ UNCHANGED chanVars
  BY DEF ClientSide, GoStep, GoMeta, GoBody, GoBodyEnd, GoBodyRead, GoBodyEnds,
       GoWriteFails, GoHead, GoHeadEOF,
     CallStep, CallOk, CallError, CallCancelled, CallText, Cancel,
     UserStep, UserWrite, UserRead, UserShort, UserClose, WriteFails, chanVars
<1>3. Moves("upIn") \/ Moves("downOut") \/ UNCHANGED moved
  BY DEF ClientSide, GoStep, GoMeta, GoBody, GoBodyEnd, GoBodyRead, GoBodyEnds,
       GoWriteFails, GoHead, GoHeadEOF,
     CallStep, CallOk, CallError, CallCancelled, CallText, CallTo, Cancel,
     UserStep, UserWrite, UserRead, UserShort, UserClose
<1>4. MovedType'
  BY <1>0, <1>3, Moved DEF MovedType
<1>5. "client" \in Ends /\ "server" \in Ends \ {"client"} /\ 1 \in 1..2
  BY EndsFacts
<1>6. CASE Write("client", 1)
  BY <1>0, <1>1, <1>4, <1>5, <1>6, WriteChan DEF StillClosed
<1>7. CASE Read("client")
  BY <1>0, <1>1, <1>4, <1>5, <1>7, ReadChan DEF StillClosed
<1>8. CASE Close("client")
  BY <1>0, <1>1, <1>4, <1>5, <1>8, CloseChanged, EndsFacts DEF StillClosed
<1>9. CASE UNCHANGED chanVars
  BY <1>0, <1>1, <1>4, <1>9, TypesSame DEF StillClosed, chanVars
<1> QED
  BY <1>2, <1>6, <1>7, <1>8, <1>9

LEMMA ClientKept ==
  ASSUME TunnelInv, ClientSide
  PROVE  TunnelInv'
<1>0. ChanType /\ MovedType /\ CallType /\ MovedType'
  BY TypeParts, ClientChan DEF TunnelInv
<1>1. HandlerSame /\ UNCHANGED <<serve, req>> /\ StillClosed
  BY ClientChan DEF HandlerSame
<1>2. CallType'
  BY <1>0, <1>1 DEF ClientSide, GoStep, GoMeta, GoBody, GoBodyEnd, GoBodyRead,
       GoBodyEnds, GoWriteFails, GoHead,
     GoHeadEOF, GoTo, CallStep, CallOk, CallError, CallCancelled, CallText, CallTo,
     Cancel,
     UserStep, UserWrite, UserRead, UserShort, UserClose, CallType, callVars
<1>3. TypeOK'
  BY <1>0, <1>1, <1>2, ClientChan, TypeParts, TypesSame
<1>4. ShapeInv' /\ CopyInv'
  BY <1>1, HandlerKept
<1>5. ServeInv'
  <2>1. pending'["client"] = pending["client"] \/ serve["client"]
    BY <1>0, ClientChan, WriteChan, EndsFacts
  <2> QED
    BY <1>1, <2>1, ClientChan, EndsFacts DEF TunnelInv, ServeInv, StillClosed
<1>6. HeardInv'
  <2>1. pipe'["client"] > 0 => pipe["client"] > 0
    BY <1>0, ClientChan, ReadChan, EndsFacts DEF ChanType
  <2>2. go' = "ok" => go = "ok" \/ pipe["client"] > 0
    BY DEF ClientSide, GoStep, GoMeta, GoBody, GoBodyEnd, GoBodyRead, GoBodyEnds,
         GoWriteFails, GoHead, GoHeadEOF, Read,
       GoTo, CallStep, CallOk, CallError, CallCancelled, CallText, CallTo, Cancel,
       UserStep, UserWrite, UserRead, UserShort, UserClose, callVars
  <2>3. /\ call' \in {"ok", "readText", "short"} => go = "ok" /\ go' = "ok"
        /\ call' = "ok" /\ Tunnel => answer.up
    BY DEF TunnelInv, HeardInv, ClientSide, GoStep, GoMeta, GoBody, GoBodyEnd,
         GoBodyRead, GoBodyEnds, GoWriteFails,
       GoHead, GoHeadEOF, GoTo, CallStep, CallOk, CallError, CallCancelled, CallText,
       CallTo,
       Cancel, UserStep, UserWrite, UserRead, UserShort, UserClose, callVars
  <2>4. Tunnel => go' \notin {"body", "piece"}
    <3> SUFFICES ASSUME Tunnel PROVE go' \notin {"body", "piece"}
      OBVIOUS
    <3>1. req.body = 0 /\ go \notin {"body", "piece"}
      BY <1>0, RequestFacts DEF TunnelInv, HeardInv
    <3> QED
      BY <3>1 DEF ClientSide, GoStep, GoMeta, GoBody, GoBodyEnd, GoBodyRead, GoBodyEnds,
         GoWriteFails, GoHead, GoHeadEOF, GoTo, CallStep, CallOk, CallError,
         CallCancelled,
         CallText, CallTo, Cancel, UserStep, UserWrite, UserRead, UserShort, UserClose,
         callVars
  <2> QED
    BY <1>1, <2>1, <2>2, <2>3, <2>4, ClientChan DEF TunnelInv, HeardInv, HandlerSame,
         Answered,
       Copying, Tunnel
<1>7. MetaInv'
  <2> SUFFICES ASSUME Tunnel, ~Copying PROVE MetaInv'
    BY <1>1 DEF MetaInv, HandlerSame, Tunnel, Copying
  <2>1. go' = "meta" => go = "meta"
    BY DEF ClientSide, GoStep, GoMeta, GoBody, GoBodyEnd, GoBodyRead, GoBodyEnds,
         GoWriteFails, GoHead, GoHeadEOF, GoTo,
       CallStep, CallOk, CallError, CallCancelled, CallText, CallTo, Cancel,
       UserStep, UserWrite, UserRead, UserShort, UserClose, callVars
  <2>2. CASE GoMeta
    <3>1. go = "meta" /\ go' = "head" /\ pending["client"] = 0 /\ pending'["client"] = 1
      BY <1>0, <2>2, RequestFacts, WriteChan, EndsFacts DEF GoMeta, GoTo
    <3> QED
      BY <1>0, <1>1, <3>1, ClientChan, EndsFacts DEF TunnelInv, MetaInv, HandlerSame,
           Tunnel,
         Copying, ChanType
  <2>3. CASE ~GoMeta
    <3>1. ~GoBody /\ ~UserWrite
      <4>1. ~GoBody
        BY DEF GoBody, TunnelInv, HeardInv
      <4>2. ~UserWrite
        BY DEF UserWrite, TunnelInv, HeardInv
      <4> QED
        BY <4>1, <4>2
    <3>2. pending'["client"] = pending["client"]
      <4>1. Read("client") \/ Close("client") \/ UNCHANGED chanVars
        BY <2>3, <3>1 DEF ClientSide, GoStep, GoBodyEnd, GoBodyRead, GoBodyEnds,
             GoWriteFails, GoHead,
           GoHeadEOF, CallStep, CallOk, CallError, CallCancelled, CallText, Cancel,
           UserStep, UserRead, UserShort, UserClose, WriteFails, chanVars
      <4> QED
        BY <4>1 DEF Read, Close, chanVars
    <3> QED
      BY <1>1, <2>1, <3>2, ClientChan DEF TunnelInv, MetaInv, HandlerSame, Tunnel, Copying
  <2> QED
    BY <2>2, <2>3
<1>8. UpInv'
  BY <1>1, ClientChan DEF TunnelInv, UpInv, Gentle, HandlerSame, Tunnel, Copying
<1> QED
  BY <1>3, <1>4, <1>5, <1>6, <1>7, <1>8 DEF TunnelInv

-----------------------------------------------------------------------------
(* TunnelInv, kept by the handler, the copies and the target.              *)

ServerSide == HandlerStep \/ UpStep \/ DownStep \/ TargetStep

(* What the server's side does to the channel.                             *)
LEMMA ServerChan ==
  ASSUME TunnelInv, ServerSide
  PROVE  /\ UNCHANGED callVars /\ ChanType' /\ MovedType' /\ StillClosed
         /\ UNCHANGED <<link, serve>>
         /\ pending'["client"] = pending["client"] /\ pipe'["client"] = pipe["client"]
         /\ closed'["client"] = closed["client"]
         /\ pipe'["server"] = pipe["server"] \/ Read("server")
         /\ \/ pending'["server"] = pending["server"]
            \/ Write("server", 1) \/ Write("server", 2)
<1>0. ChanType /\ MovedType
  BY TypeParts DEF TunnelInv
<1>1. UNCHANGED callVars
  BY DEF ServerSide, HandlerStep, ReadMeta, ReadMetaEOF, DoFails, SendText, SendOk,
       SendBody,
     SendBodyEnd, SendFails, DelayEnds, CopyReturns, CloseTarget, CloseChan, HandlerTo,
     UpStep, UpRead, UpWrite, DownStep, DownWrite, CopyEnds, TargetFails, Failing,
     ChannelFails,
     CopyClosesChan, CopyClosesTarget, CopyTo,
     TargetStep, Upload, DoAnswers, Dialled, DownRead, TargetSends, TargetEnds
<1>2. \/ Write("server", 1) \/ Write("server", 2)
      \/ Read("server") \/ Close("server") \/ UNCHANGED chanVars
  BY DEF ServerSide, HandlerStep, ReadMeta, ReadMetaEOF, DoFails, SendText, SendOk,
       SendBody,
     SendBodyEnd, SendFails, DelayEnds, CopyReturns, CloseTarget, CloseChan, WriteFails,
     UpStep, UpRead, UpWrite, DownStep, DownWrite, CopyEnds, TargetFails, Failing,
     ChannelFails,
     CopyClosesChan, CopyClosesTarget,
     TargetStep, Upload, DoAnswers, Dialled, DownRead, TargetSends, TargetEnds
<1>3. Moves("upOut") \/ Moves("sent") \/ Moves("downIn") \/ UNCHANGED moved
  BY DEF ServerSide, HandlerStep, ReadMeta, ReadMetaEOF, DoFails, SendText, SendOk,
       SendBody,
     SendBodyEnd, SendFails, DelayEnds, CopyReturns, CloseTarget, CloseChan,
     UpStep, UpRead, UpWrite, DownStep, DownWrite, CopyEnds, TargetFails, Failing,
     ChannelFails,
     CopyClosesChan, CopyClosesTarget,
     TargetStep, Upload, DoAnswers, Dialled, DownRead, TargetSends, TargetEnds
<1>4. MovedType'
  BY <1>0, <1>3, Moved DEF MovedType
<1>5. "server" \in Ends /\ "client" \in Ends \ {"server"} /\ 1 \in 1..2 /\ 2 \in 1..2
  BY EndsFacts
<1>6. CASE Write("server", 1)
  BY <1>0, <1>1, <1>4, <1>5, <1>6, WriteChan DEF StillClosed
<1>7. CASE Write("server", 2)
  BY <1>0, <1>1, <1>4, <1>5, <1>7, WriteChan DEF StillClosed
<1>8. CASE Read("server")
  BY <1>0, <1>1, <1>4, <1>5, <1>8, ReadChan DEF StillClosed
<1>9. CASE Close("server")
  BY <1>0, <1>1, <1>4, <1>5, <1>9, CloseChanged, EndsFacts DEF StillClosed
<1>10. CASE UNCHANGED chanVars
  BY <1>0, <1>1, <1>4, <1>10, TypesSame DEF StillClosed, chanVars
<1> QED
  BY <1>2, <1>6, <1>7, <1>8, <1>9, <1>10

LEMMA ServerTypes ==
  ASSUME TunnelInv, ServerSide
  PROVE  HandlerType'
<1>0. HandlerType
  BY TypeParts DEF TunnelInv
<1>1. answer' = answer \/ answer' \in Responses \cup {Text, Switching}
  BY DEF ServerSide, HandlerStep, ReadMeta, ReadMetaEOF, DoFails, SendText, SendOk,
       SendBody,
     SendBodyEnd, SendFails, DelayEnds, CopyReturns, CloseTarget, CloseChan,
     UpStep, UpRead, UpWrite, DownStep, DownWrite, CopyEnds, TargetFails, Failing,
     ChannelFails,
     CopyClosesChan, CopyClosesTarget, CopyTo,
     TargetStep, Upload, DoAnswers, Dialled, DownRead, TargetSends, TargetEnds,
     handlerVars
<1>2. h' = h \/ h' \in {"readMeta", "do", "dial", "sendText", "sendOk", "sendBody", "delay",
                        "copy", "close", "closeChan", "done"}
  BY DEF ServerSide, HandlerStep, ReadMeta, ReadMetaEOF, DoFails, SendText, SendOk,
       SendBody,
     SendBodyEnd, SendFails, DelayEnds, CopyReturns, CloseTarget, CloseChan, HandlerTo,
     UpStep, UpRead, UpWrite, DownStep, DownWrite, CopyEnds, TargetFails, Failing,
     ChannelFails,
     CopyClosesChan, CopyClosesTarget, CopyTo,
     TargetStep, Upload, DoAnswers, Dialled, DownRead, TargetSends, TargetEnds,
     handlerVars
<1>3. target' = target \/ target' \in {"none", "open", "ended", "closed"}
  BY DEF ServerSide, HandlerStep, ReadMeta, ReadMetaEOF, DoFails, SendText, SendOk,
       SendBody,
     SendBodyEnd, SendFails, DelayEnds, CopyReturns, CloseTarget, CloseChan,
     UpStep, UpRead, UpWrite, DownStep, DownWrite, CopyEnds, TargetFails, Failing,
     ChannelFails,
     CopyClosesChan, CopyClosesTarget,
     TargetStep, Upload, DoAnswers, Dialled, DownRead, TargetSends, TargetEnds,
     handlerVars
<1>4. ended' = ended \/ ended' = TRUE
  BY DEF ServerSide, HandlerStep, ReadMeta, ReadMetaEOF, DoFails, SendText, SendOk,
       SendBody,
     SendBodyEnd, SendFails, DelayEnds, CopyReturns, CloseTarget, CloseChan, HandlerTo,
     UpStep, UpRead, UpWrite, DownStep, DownWrite, CopyEnds, TargetFails, Failing,
     ChannelFails,
     CopyClosesChan, CopyClosesTarget, CopyTo,
     TargetStep, Upload, DoAnswers, Dialled, DownRead, TargetSends, TargetEnds,
     handlerVars
<1>5. late' = late \/ late' = (late \/ ~ChannelQuiet) \/ late' = (late \/ ~TargetQuiet)
  BY DEF ServerSide, HandlerStep, ReadMeta, ReadMetaEOF, DoFails, SendText, SendOk,
       SendBody,
     SendBodyEnd, SendFails, DelayEnds, CopyReturns, CloseTarget, CloseChan,
     UpStep, UpRead, UpWrite, DownStep, DownWrite, CopyEnds, TargetFails, Failing,
     ChannelFails,
     CopyClosesChan, CopyClosesTarget,
     TargetStep, Upload, DoAnswers, Dialled, DownRead, TargetSends, TargetEnds,
     handlerVars
<1>6. \/ copy' = copy \/ copy' = [up |-> "read", down |-> "read"]
      \/ \E d \in {"up", "down"},
            pc \in {"off", "read", "write", "closeTarget", "closeChan", "done"} :
           copy' = [copy EXCEPT ![d] = pc]
  BY DEF ServerSide, HandlerStep, ReadMeta, ReadMetaEOF, DoFails, SendText, SendOk,
       SendBody,
     SendBodyEnd, SendFails, DelayEnds, CopyReturns, CloseTarget, CloseChan,
     UpStep, UpRead, UpWrite, DownStep, DownWrite, CopyEnds, TargetFails, Failing,
     ChannelFails,
     CopyClosesChan, CopyClosesTarget, CopyTo,
     TargetStep, Upload, DoAnswers, Dialled, DownRead, TargetSends, TargetEnds,
     handlerVars
<1>7. copy' \in [{"up", "down"} ->
                   {"off", "read", "write", "closeTarget", "closeChan", "done"}]
  BY <1>0, <1>6 DEF HandlerType
<1>8. late' \in BOOLEAN
  BY <1>0, <1>5 DEF HandlerType
<1>9. cut' = cut \/ \E d \in {"up", "down"} : cut' = (cut \/ (d = "up" /\ target # "closed"))
  BY DEF ServerSide, HandlerStep, ReadMeta, ReadMetaEOF, DoFails, SendText, SendOk,
       SendBody,
     SendBodyEnd, SendFails, DelayEnds, CopyReturns, CloseTarget, CloseChan, HandlerTo,
     UpStep, UpRead, UpWrite, DownStep, DownWrite, CopyEnds, TargetFails, Failing,
     ChannelFails,
     CopyClosesChan, CopyClosesTarget,
     TargetStep, Upload, DoAnswers, Dialled, DownRead, TargetSends, TargetEnds,
     handlerVars
<1>10. cut' \in BOOLEAN
  BY <1>0, <1>9 DEF HandlerType
<1> QED
  BY <1>0, <1>1, <1>2, <1>3, <1>4, <1>7, <1>8, <1>10 DEF HandlerType
LEMMA CopyMoves ==
  ASSUME HandlerType, NEW d \in {"up", "down"}, NEW pc, CopyTo(d, pc)
  PROVE  /\ UNCHANGED <<callVars, answer, h, ended>>
         /\ copy'.up = (IF d = "up" THEN pc ELSE copy.up)
         /\ copy'.down = (IF d = "down" THEN pc ELSE copy.down)
         /\ \A c \in {"up", "down"} : copy'[c] = IF c = d THEN pc ELSE copy[c]
BY DEF CopyTo, HandlerType

LEMMA ResponseFacts == \A a \in Responses : ~a.up /\ a.len \in Nat /\ a.real \in Nat
BY ForwardAssumption DEF Responses, Answer

LEMMA ServerShape ==
  ASSUME TunnelInv, ServerSide
  PROVE  ShapeInv'
<1>0. HandlerType /\ CallType /\ StillClosed /\ UNCHANGED <<req, callVars>>
  BY TypeParts, ServerChan DEF TunnelInv, callVars
<1> USE <1>0, EndsFacts DEF TunnelInv, StillClosed
<1>1. CASE ReadMeta \/ ReadMetaEOF
  BY <1>1 DEF ReadMeta, ReadMetaEOF, HandlerTo, ShapeInv, Copying, Leaving, Tunnel, Text,
       Answer
<1>2. CASE SendText \/ SendBody \/ SendBodyEnd \/ SendFails \/ DelayEnds
  BY <1>2 DEF SendText, SendBody, SendBodyEnd, SendFails, DelayEnds, HandlerTo,
     ShapeInv, Copying, Leaving, Tunnel, Text, Answer
<1>3. CASE DoFails
  BY <1>3 DEF DoFails, HandlerTo, ShapeInv, Copying, Leaving, Tunnel
<1>4. CASE Dialled
  BY <1>4 DEF Dialled, HandlerTo, ShapeInv, Copying, Leaving, Tunnel, Switching, Answer
<1>5. CASE DoAnswers
  <2>1. ~answer'.up /\ answer'.real <= answer'.len
    <3>1. PICK a \in Responses : Fits(a) /\ answer' = a
      BY <1>5 DEF DoAnswers
    <3>2. ~a.up /\ a.real <= a.len
      BY <3>1, ResponseFacts DEF Fits
    <3> QED
      BY <3>1, <3>2
  <2> QED
    BY <1>5, <2>1 DEF DoAnswers, HandlerTo, ShapeInv, Copying, Leaving, Tunnel
<1>6. CASE SendOk
  BY <1>6 DEF SendOk, HandlerTo, ShapeInv, Copying, Leaving, Tunnel
<1>7. CASE CopyReturns
  BY <1>7 DEF CopyReturns, HandlerTo, ShapeInv, CopyInv, Copying, Leaving, Tunnel
<1>8. CASE CloseTarget \/ CloseChan
  BY <1>8 DEF CloseTarget, CloseChan, HandlerTo, ShapeInv, Copying, Leaving, Tunnel
<1>9. CASE Upload
  BY <1>9 DEF Upload, handlerVars, ShapeInv, Copying, Leaving, Tunnel
<1>10. CASE UpRead \/ UpWrite \/ DownRead \/ DownWrite
  <2>1. /\ UNCHANGED <<answer, h, target>>
        /\ copy'.up = "off" <=> copy.up = "off"
        /\ copy'.down = "off" <=> copy.down = "off"
    BY <1>10, CopyMoves DEF UpRead, UpWrite, DownRead, DownWrite
  <2> QED
    BY <2>1 DEF ShapeInv, Copying, Leaving, Tunnel
<1>11. ASSUME NEW d \in {"up", "down"}, CopyEnds(d) PROVE ShapeInv'
  <2>1. /\ UNCHANGED <<answer, h>>
        /\ copy'.up = "off" <=> copy.up = "off"
        /\ copy'.down = "off" <=> copy.down = "off"
    BY <1>11, CopyMoves DEF CopyEnds, TargetFails, Failing, ChannelFails, CopyClosesChan,
         CopyClosesTarget
  <2>2. copy[d] # "off" /\ (target' = target \/ target' = "closed")
    BY <1>11 DEF CopyEnds, TargetFails, Failing, ChannelFails, CopyClosesChan,
         CopyClosesTarget
  <2>3. Copying
    BY <2>2 DEF ShapeInv, Copying
  <2> QED
    BY <2>1, <2>2, <2>3 DEF ShapeInv, Copying, Leaving, Tunnel
<1>12. CASE TargetSends \/ TargetEnds
  BY <1>12 DEF TargetSends, TargetEnds, handlerVars, ShapeInv, Copying, Leaving, Tunnel
<1> QED
  BY <1>1, <1>2, <1>3, <1>4, <1>5, <1>6, <1>7, <1>8, <1>9, <1>10, <1>11, <1>12
     DEF ServerSide, HandlerStep, UpStep, DownStep, TargetStep

LEMMA ServerCopy ==
  ASSUME TunnelInv, ServerSide
  PROVE  CopyInv'
<1>0. HandlerType /\ CallType /\ StillClosed /\ UNCHANGED <<req, callVars>>
  BY TypeParts, ServerChan DEF TunnelInv, callVars
<1> USE <1>0, EndsFacts DEF TunnelInv, StillClosed
<1>1. ~Copying => copy.up = "off" /\ copy.down = "off"
  BY DEF ShapeInv, Copying
<1>2. CASE UNCHANGED <<copy, target, ended>>
  BY <1>2 DEF CopyInv
<1>3. CASE DoFails \/ Dialled \/ DoAnswers
  <2>1. ~Copying /\ target' \in {"none", "open"} /\ UNCHANGED copy
    BY <1>3 DEF DoFails, Dialled, DoAnswers, HandlerTo, ShapeInv, Leaving
  <2> QED
    BY <1>1, <2>1 DEF CopyInv
<1>4. CASE SendOk /\ copy' # copy
  <2>1. /\ UNCHANGED <<target, ended>> /\ copy' = [up |-> "read", down |-> "read"]
    BY <1>4 DEF SendOk, HandlerTo
  <2> QED
    BY <2>1 DEF CopyInv
<1>5. CASE CloseTarget
  BY <1>5 DEF CloseTarget, HandlerTo, ShapeInv, CopyInv, Copying
<1>6. ASSUME NEW d \in {"up", "down"}, NEW pc \in {"read", "write"},
             CopyTo(d, pc), UNCHANGED target
      PROVE  CopyInv'
  BY <1>6, CopyMoves DEF CopyInv
<1>7. CASE UpRead \/ UpWrite \/ DownRead \/ DownWrite
  BY <1>6, <1>7 DEF UpRead, UpWrite, DownRead, DownWrite
<1>8. ASSUME NEW d \in {"up", "down"}, CopyEnds(d) PROVE CopyInv'
  <2>2. PICK pc \in {"closeTarget", "closeChan", "done"} : CopyTo(d, pc)
    BY <1>8 DEF CopyEnds, TargetFails, Failing, ChannelFails, CopyClosesChan,
         CopyClosesTarget
  <2>3. UNCHANGED ended /\ \A c \in {"up", "down"} : copy'[c] = IF c = d THEN pc ELSE copy[c]
    BY <2>2, CopyMoves
  <2>4. CASE TargetFails(d)
    <3>1. pc \in {"closeChan", "done"} /\ target' = "closed"
      BY <2>3, <2>4, CopyMoves DEF TargetFails
    <3>2. pc = "done" => closed["server"]
      BY <2>3, <2>4, CopyMoves DEF TargetFails
    <3> QED
      BY <2>3, <3>1, <3>2 DEF CopyInv
  <2>5. CASE ChannelFails(d) \/ CopyClosesChan(d)
    <3>1. /\ pc \in {"closeTarget", "done"} /\ UNCHANGED target
          /\ pc = "done" => copy[d] = "closeChan"
      BY <2>3, <2>5, CopyMoves DEF ChannelFails, CopyClosesChan
    <3>2. closed'["server"]
      BY <2>5, TypeParts, CloseChanged DEF ChannelFails, CopyClosesChan
    <3> QED
      BY <2>3, <3>1, <3>2 DEF CopyInv
  <2>6. CASE CopyClosesTarget(d)
    <3>1. pc = "done" /\ target' = "closed" /\ copy[d] = "closeTarget"
      BY <2>3, <2>6, CopyMoves DEF CopyClosesTarget
    <3> QED
      BY <2>3, <3>1 DEF CopyInv
  <2> QED
    BY <1>8, <2>4, <2>5, <2>6 DEF CopyEnds
<1>9. CASE TargetEnds
  <2>1. /\ ended' /\ UNCHANGED copy /\ target = "open"
    BY <1>9 DEF TargetEnds
  <2> QED
    BY <2>1 DEF CopyInv
<1> QED
  BY <1>2, <1>3, <1>4, <1>5, <1>7, <1>8, <1>9
     DEF ServerSide, HandlerStep, UpStep, DownStep, TargetStep, ReadMeta, ReadMetaEOF,
         SendText,
     SendOk, SendBody, SendBodyEnd, SendFails, DelayEnds, CopyReturns, CloseChan, Upload,
     TargetSends,
     HandlerTo, handlerVars
(* The copies start once and stay on.                                      *)
LEMMA CopyStays ==
  ASSUME TunnelInv, ServerSide
  PROVE  Copying => Copying'
<1>0. HandlerType
  BY TypeParts DEF TunnelInv
<1>1. UNCHANGED copy \/ copy' = [up |-> "read", down |-> "read"]
      \/ \E d \in {"up", "down"}, pc \in {"read", "write", "closeTarget", "closeChan", "done"} :
           CopyTo(d, pc)
  BY DEF ServerSide, HandlerStep, ReadMeta, ReadMetaEOF, DoFails, SendText, SendOk,
     SendBody, SendBodyEnd, SendFails, DelayEnds, CopyReturns, CloseTarget, CloseChan,
     UpStep, UpRead, UpWrite, DownStep, DownWrite, CopyEnds, TargetFails, Failing,
     ChannelFails,
     CopyClosesChan, CopyClosesTarget,
     TargetStep, Upload, DoAnswers, Dialled, DownRead, TargetSends, TargetEnds,
     handlerVars
<1> QED
  BY <1>0, <1>1, CopyMoves DEF Copying

LEMMA ServerHeard ==
  ASSUME TunnelInv, ServerSide
  PROVE  HeardInv'
<1>0. ChanType /\ CallType /\ HandlerType /\ UNCHANGED <<callVars, req, call, go>>
  BY TypeParts, ServerChan DEF TunnelInv, callVars
<1> USE <1>0, EndsFacts DEF TunnelInv
<1>1. pipe'["client"] = pipe["client"]
  BY ServerChan
<1>2. Answered => Answered'
  BY DEF Answered, ServerSide, HandlerStep, ReadMeta, ReadMetaEOF, DoFails, SendText,
       SendOk,
     SendBody, SendBodyEnd, SendFails, DelayEnds, CopyReturns, CloseTarget, CloseChan,
     HandlerTo,
     UpStep, UpRead, UpWrite, DownStep, DownWrite, CopyEnds, TargetFails, Failing,
     ChannelFails,
     CopyClosesChan, CopyClosesTarget, CopyTo,
     TargetStep, Upload, DoAnswers, Dialled, DownRead, TargetSends, TargetEnds,
     handlerVars
<1>3. Answered => answer' = answer
  BY DEF Answered, ServerSide, HandlerStep, ReadMeta, ReadMetaEOF, DoFails, SendText,
       SendOk,
     SendBody, SendBodyEnd, SendFails, DelayEnds, CopyReturns, CloseTarget, CloseChan,
     HandlerTo,
     UpStep, UpRead, UpWrite, DownStep, DownWrite, CopyEnds, TargetFails, Failing,
     ChannelFails,
     CopyClosesChan, CopyClosesTarget, CopyTo,
     TargetStep, Upload, DoAnswers, Dialled, DownRead, TargetSends, TargetEnds,
     handlerVars
<1>4. Copying => Copying'
  BY CopyStays
<1>5. ASSUME pending'["server"] > 0, ~(pending["server"] > 0)
      PROVE  Answered' /\ (answer'.up => Copying')
  <2>1. pending'["server"] # pending["server"]
    BY <1>5
  <2>2. SendText \/ SendOk \/ SendBody \/ DownWrite
    BY <2>1 DEF ServerSide, HandlerStep, ReadMeta, ReadMetaEOF, DoFails,
     SendBodyEnd, SendFails, DelayEnds, CopyReturns, CloseTarget, CloseChan, WriteFails,
     UpStep, UpRead, UpWrite, DownStep, CopyEnds, TargetFails, Failing, ChannelFails,
     CopyClosesChan, CopyClosesTarget, Read, Close, chanVars,
     TargetStep, Upload, DoAnswers, Dialled, DownRead, TargetSends, TargetEnds
  <2>3. CASE SendText \/ SendBody
    BY <2>3 DEF SendText, SendBody, HandlerTo, Answered, ShapeInv, Text, Answer
  <2>4. CASE SendOk
    BY <2>4 DEF SendOk, HandlerTo, Answered, Copying
  <2>5. CASE DownWrite
    <3>1. Copying /\ Answered
      BY <2>5 DEF DownWrite, ShapeInv, Copying, Answered, Leaving
    <3> QED
      BY <1>2, <1>4, <3>1
  <2> QED
    BY <2>2, <2>3, <2>4, <2>5
<1>6. call = "ok" /\ Tunnel => answer'.up
  BY <1>3 DEF HeardInv, Tunnel
<1> QED
  BY <1>1, <1>2, <1>3, <1>4, <1>5, <1>6 DEF HeardInv, Tunnel

LEMMA ServerMeta ==
  ASSUME TunnelInv, ServerSide
  PROVE  MetaInv'
<1>0. ChanType /\ CallType /\ HandlerType /\ UNCHANGED <<callVars, req, call, go>>
  BY TypeParts, ServerChan DEF TunnelInv, callVars
<1> USE <1>0, EndsFacts DEF TunnelInv
<1>1. pending'["client"] = pending["client"]
  BY ServerChan
<1>2. /\ pipe'["server"] \in Nat /\ pipe["server"] \in Nat /\ pending["client"] \in Nat
      /\ pipe'["server"] <= pipe["server"]
  BY ServerChan, ReadChan DEF ChanType
<1> SUFFICES ASSUME Tunnel, ~Copying' PROVE MetaInv'
  BY DEF MetaInv, Tunnel
<1>3. ~Copying
  BY CopyStays
<1>4. CASE ReadMeta
  <2>1. /\ h = "readMeta" /\ h' \in {"dial", "sendText"} /\ target' = target
        /\ pipe["server"] > 0 /\ pipe'["server"] = pipe["server"] - 1
    BY <1>4, ReadChan DEF ReadMeta, HandlerTo
  <2>2. target = "none"
    BY <2>1 DEF ShapeInv
  <2> QED
    BY <1>1, <1>2, <1>3, <2>1, <2>2 DEF MetaInv
<1>5. CASE ~ReadMeta
  <2>1. ~UpStep /\ ~DownStep /\ ~DownRead /\ h # "do"
    <3>1. copy.up = "off" /\ copy.down = "off" /\ h # "do"
      BY <1>3 DEF ShapeInv, Copying
    <3>2. \A d \in {"up", "down"} : copy[d] = "off"
      BY <3>1
    <3>3. \A d \in {"up", "down"} : ~CopyEnds(d)
      BY <3>1, <3>2 DEF CopyEnds, TargetFails, Failing, ChannelFails, CopyClosesChan,
           CopyClosesTarget
    <3> QED
      BY <3>1, <3>3 DEF UpStep, UpRead, UpWrite, DownStep, DownWrite, DownRead
  <2>2. CASE DoFails
    BY <1>1, <1>2, <1>3, <2>1, <2>2 DEF DoFails, HandlerTo, MetaInv
  <2>3. CASE ~DoFails
    <3>1. /\ h' = "readMeta" => h = "readMeta"
          /\ h' \in {"dial", "sendOk"} \/ target' # "none" =>
               h \in {"dial", "sendOk"} \/ target # "none"
      BY <1>5, <2>1, <2>3 DEF ServerSide, HandlerStep, ReadMetaEOF, SendText, SendOk,
         SendBody, SendBodyEnd, SendFails, DelayEnds, CopyReturns, CloseTarget, CloseChan,
         HandlerTo, TargetStep, Upload, DoAnswers, Dialled, TargetSends, TargetEnds,
         handlerVars
    <3> QED
      BY <1>1, <1>2, <1>3, <3>1 DEF MetaInv
  <2> QED
    BY <2>2, <2>3
<1> QED
  BY <1>4, <1>5
LEMMA ServerUp ==
  ASSUME TunnelInv, ServerSide
  PROVE  UpInv'
<1>0. ChanType /\ CallType /\ HandlerType /\ StillClosed /\ UNCHANGED <<callVars, req>>
  BY TypeParts, ServerChan DEF TunnelInv, callVars
<1> USE <1>0, EndsFacts DEF TunnelInv
<1>1. /\ closed["server"] => closed'["server"]
      /\ pipe["server"] = 0 => pipe'["server"] = 0
      /\ copy.up # "off" <=> copy.down # "off"
  BY ServerChan, ReadChan DEF StillClosed, ShapeInv, Copying
<1>11. Gentle' => Gentle
  BY DEF Gentle, HandlerType, ServerSide, HandlerStep, ReadMeta, ReadMetaEOF, DoFails,
       SendText, SendOk, SendBody,
     SendBodyEnd, SendFails, DelayEnds, CopyReturns, CloseTarget, CloseChan, HandlerTo,
     UpStep, UpRead, UpWrite, DownStep, DownWrite, CopyEnds, TargetFails, Failing,
     ChannelFails,
     CopyClosesChan, CopyClosesTarget, CopyTo,
     TargetStep, Upload, DoAnswers, Dialled, DownRead, TargetSends, TargetEnds,
     handlerVars
<1>2. CASE UNCHANGED <<copy, target, ended>>
  BY <1>1, <1>2, <1>11 DEF UpInv, Copying, Tunnel
<1>3. CASE DoFails \/ Dialled \/ DoAnswers
  <2>1. ~Copying /\ target' \in {"none", "open"} /\ UNCHANGED copy
    BY <1>3 DEF DoFails, Dialled, DoAnswers, HandlerTo, ShapeInv, Leaving
  <2> QED
    BY <2>1 DEF UpInv, Gentle, Copying
<1>4. CASE SendOk /\ copy' # copy
  <2>1. target' \in {"open", "ended"} /\ copy' = [up |-> "read", down |-> "read"]
    BY <1>4 DEF SendOk, HandlerTo, ShapeInv, Copying, Leaving
  <2> QED
    BY <2>1 DEF UpInv
<1>5. CASE CloseTarget
  <2>1. UNCHANGED <<copy, ended>> /\ h = "close"
        /\ target' = (IF target = "none" THEN "none" ELSE "closed")
    BY <1>5 DEF CloseTarget, HandlerTo
  <2>2. CASE Copying
    BY <1>1, <1>11, <2>1, <2>2 DEF ShapeInv, Leaving, UpInv, Copying, Tunnel
  <2>3. CASE ~Copying
    BY <1>1, <2>1, <2>3 DEF MetaInv, UpInv, Gentle, Copying, Tunnel
  <2> QED
    BY <2>2, <2>3
<1>6. CASE UpRead
  <2>1. /\ copy'.up = "write" /\ pipe["server"] > 0 /\ UNCHANGED <<target, ended>>
    BY <1>6, CopyMoves DEF UpRead, Read
  <2> QED
    BY <1>11, <2>1 DEF UpInv, Tunnel
<1>7. CASE UpWrite
  <2>1. copy'.up = "read" /\ target' \in {"open", "ended"}
    BY <1>7, CopyMoves DEF UpWrite
  <2> QED
    BY <2>1 DEF UpInv
<1>8. CASE DownRead \/ DownWrite
  <2>1. copy'.up = copy.up /\ UNCHANGED <<target, ended>>
    BY <1>8, CopyMoves DEF DownRead, DownWrite
  <2> QED
    BY <1>1, <1>11, <2>1 DEF UpInv, Copying, Tunnel
<1>9. ASSUME NEW d \in {"up", "down"}, CopyEnds(d) PROVE UpInv'
  <2>1. PICK pc \in {"closeTarget", "closeChan", "done"} : CopyTo(d, pc)
    BY <1>9 DEF CopyEnds, TargetFails, Failing, ChannelFails, CopyClosesChan,
         CopyClosesTarget
  <2>2. /\ UNCHANGED ended
        /\ copy'.up = (IF d = "up" THEN pc ELSE copy.up)
    BY <2>1, CopyMoves
  <2>3. copy[d] # "off"
    BY <1>9 DEF CopyEnds, TargetFails, Failing, ChannelFails, CopyClosesChan,
         CopyClosesTarget
  <2>4. Copying /\ Tunnel /\ copy.up # "off"
    BY <1>1, <2>3 DEF Copying, ShapeInv
  <2>5. CASE TargetFails(d)
    <3>1. CASE d = "up"
      <4>1. copy.up = "write" /\ (cut' = FALSE => target = "closed")
        BY <2>5, <3>1 DEF TargetFails, Failing
      <4> QED
        BY <1>11, <2>4, <4>1 DEF Gentle, UpInv
    <3>2. CASE d = "down"
      <4>1. target' = "closed" /\ target \in {"ended", "closed"} /\ copy'.up = copy.up
        BY <2>2, <2>5, <3>2 DEF TargetFails, Failing
      <4>2. Gentle' => target = "closed"
        BY <1>11, <4>1 DEF CopyInv, Gentle
      <4> QED
        BY <1>1, <1>11, <2>4, <4>1, <4>2 DEF UpInv, Copying, Tunnel
    <3> QED
      BY <3>1, <3>2
  <2>6. CASE ChannelFails(d)
    <3>1. closed'["server"] /\ UNCHANGED target /\ (d = "up" => pipe["server"] = 0)
      BY <2>6, CloseChanged DEF ChannelFails, ReadEOF
    <3> QED
      BY <1>1, <1>11, <2>2, <2>4, <3>1 DEF UpInv, Copying, Tunnel
  <2>7. CASE CopyClosesChan(d)
    <3>1. closed'["server"] /\ UNCHANGED target /\ copy[d] = "closeChan"
      BY <2>7, CloseChanged DEF CopyClosesChan
    <3> QED
      BY <1>1, <1>11, <2>2, <2>4, <3>1 DEF UpInv, Copying, Tunnel
  <2>8. CASE CopyClosesTarget(d)
    <3>1. /\ closed["server"] /\ copy[d] = "closeTarget"
          /\ late' = (late \/ ~TargetQuiet)
      BY <2>8 DEF CopyClosesTarget, CopyInv
    <3>2. Gentle' => TargetQuiet
      BY <3>1 DEF Gentle
    <3>3. Gentle' => copy.up # "write" /\ pipe["server"] = 0
      BY <1>11, <2>4, <3>2 DEF TargetQuiet, HandlerType, UpInv
    <3> QED
      BY <1>1, <2>2, <2>4, <3>1, <3>3 DEF UpInv
  <2> QED
    BY <1>9, <2>5, <2>6, <2>7, <2>8 DEF CopyEnds
<1>10. CASE TargetEnds
  BY <1>10 DEF TargetEnds, UpInv, Gentle
<1> QED
  BY <1>2, <1>3, <1>4, <1>5, <1>6, <1>7, <1>8, <1>9, <1>10
     DEF ServerSide, HandlerStep, UpStep, DownStep, TargetStep, ReadMeta, ReadMetaEOF,
         SendText,
     SendOk, SendBody, SendBodyEnd, SendFails, DelayEnds, CopyReturns, CloseChan, Upload,
     TargetSends,
     HandlerTo, handlerVars

LEMMA ServerKept ==
  ASSUME TunnelInv, ServerSide
  PROVE  TunnelInv'
<1>0. ChanType
  BY TypeParts DEF TunnelInv
<1>1. TypeOK'
  BY ServerChan, ServerTypes, TypesSame, TypeParts
<1>2. ServeInv'
  <2>1. pending'["server"] = pending["server"] \/ serve["server"]
    BY <1>0, ServerChan, WriteChan, EndsFacts
  <2> QED
    BY <2>1, ServerChan, EndsFacts DEF TunnelInv, ServeInv, StillClosed
<1> QED
  BY <1>1, <1>2, ServerShape, ServerCopy, ServerHeard, ServerMeta, ServerUp DEF TunnelInv

-----------------------------------------------------------------------------
LEMMA NextSides ==
  Next <=> (\E e \in Ends : ChannelStep(e)) \/ LinkLoss \/ ClientSide \/ ServerSide
BY DEF Next, ClientSide, ServerSide

LEMMA StartsTunnel == Init => TunnelInv
<1> SUFFICES ASSUME Init PROVE TunnelInv
  OBVIOUS
<1>1. TypeOK
  <2>1. CallType
    BY DEF Init, CallType
  <2>2. HandlerType
    <3>1. copy = [up |-> "off", down |-> "off"]
      BY DEF Init
    <3>2. copy \in [{"up", "down"} ->
                     {"off", "read", "write", "closeTarget", "closeChan", "done"}]
      BY <3>1
    <3>3. answer = Switching /\ h = "readMeta" /\ target = "none" /\ ~ended /\ ~late /\ ~cut
          /\ ended \in BOOLEAN /\ late \in BOOLEAN /\ cut \in BOOLEAN
      BY DEF Init
    <3> QED
      BY <3>2, <3>3 DEF HandlerType
  <2>3. MovedType
    BY DEF Init, MovedType
  <2>4. ChanType
    BY ForwardAssumption DEF Init, ChanType
  <2> QED
    BY <2>1, <2>2, <2>3, <2>4, TypeParts
<1>2. ShapeInv /\ CopyInv
  BY DEF Init, ShapeInv, CopyInv, Copying, Leaving, Tunnel
<1>3. ServeInv /\ HeardInv /\ MetaInv /\ UpInv
  BY EndsFacts DEF Init, ServeInv, HeardInv, MetaInv, UpInv, Gentle, Copying, Tunnel
<1> QED
  BY <1>1, <1>2, <1>3 DEF TunnelInv

LEMMA TunnelKept == TunnelInv /\ [Next]_vars => TunnelInv'
<1> SUFFICES ASSUME TunnelInv, [Next]_vars PROVE TunnelInv'
  OBVIOUS
<1>1. CASE UNCHANGED vars
  <2>1. HandlerSame /\ UNCHANGED <<callVars, moved, chanVars>>
    BY <1>1 DEF vars, handlerVars, callVars, HandlerSame
  <2>2. TypeOK'
    BY <2>1, TypesSame, TypeParts
  <2>3. ShapeInv' /\ CopyInv'
    BY <2>1, HandlerKept DEF StillClosed, chanVars
  <2>4. ServeInv' /\ HeardInv' /\ MetaInv' /\ UpInv'
    BY <2>1 DEF TunnelInv, HandlerSame, callVars, chanVars, ServeInv, HeardInv, MetaInv,
         UpInv,
       Gentle, Copying, Answered, Tunnel
  <2> QED
    BY <2>2, <2>3, <2>4 DEF TunnelInv
<1> QED
  BY <1>1, NextSides, ChannelKept, ClientKept, ServerKept

-----------------------------------------------------------------------------
(* WholeInv, kept by every step that keeps TunnelInv.                      *)

LEMMA UndisturbedBefore ==
  ASSUME TunnelInv, Next
  PROVE  Undisturbed' => Undisturbed
<1>1. ASSUME NEW e \in Ends, ChannelStep(e) PROVE Undisturbed' => Undisturbed
  <2>1. UNCHANGED <<go, call, late>>
    BY <1>1 DEF ChannelStep, callVars, handlerVars
  <2>2. UNCHANGED link
    BY <1>1 DEF ChannelStep, Send, ServeExit, CloseArrives, Close
  <2> QED
    BY <2>1, <2>2 DEF Undisturbed
<1>2. CASE LinkLoss
  BY <1>2 DEF LinkLoss, Undisturbed
<1>3. CASE ClientSide
  <2>1. UNCHANGED <<link, late>>
    BY <1>3, ClientChan DEF HandlerSame
  <2>2. /\ go = "error" => go' = "error"
        /\ call \in {"failed", "left"} => call' \in {"failed", "left"}
    BY <1>3 DEF ClientSide, GoStep, GoMeta, GoBody, GoBodyEnd, GoBodyRead, GoBodyEnds,
         GoWriteFails, GoHead,
       GoHeadEOF, GoTo, CallStep, CallOk, CallError, CallCancelled, CallText, CallTo,
       Cancel,
       UserStep, UserWrite, UserRead, UserShort, UserClose, callVars
  <2> QED
    BY <2>1, <2>2 DEF Undisturbed
<1>4. CASE ServerSide
  <2>1. UNCHANGED <<link, go, call>>
    BY <1>4, ServerChan DEF callVars
  <2>2. late => late'
    BY <1>4 DEF ServerSide, HandlerStep, ReadMeta, ReadMetaEOF, DoFails, SendText, SendOk,
     SendBody, SendBodyEnd, SendFails, DelayEnds, CopyReturns, CloseTarget, CloseChan,
     UpStep, UpRead, UpWrite, DownStep, DownWrite, CopyEnds, TargetFails, Failing,
     ChannelFails,
     CopyClosesChan, CopyClosesTarget,
     TargetStep, Upload, DoAnswers, Dialled, DownRead, TargetSends, TargetEnds,
     handlerVars
  <2> QED
    BY <2>1, <2>2 DEF Undisturbed
<1> QED
  BY <1>1, <1>2, <1>3, <1>4, NextSides
LEMMA Counts ==
  ASSUME TunnelInv
  PROVE  /\ moved.downIn \in Nat /\ moved.downOut \in Nat /\ moved.sent \in Nat
         /\ \A e \in Ends : pipe[e] \in Nat /\ pending[e] \in 0..2
         /\ answer.real \in Nat /\ answer.len \in Nat
<1>1. MovedType /\ ChanType /\ HandlerType
  BY TypeParts DEF TunnelInv
<1>2. answer.real \in Nat /\ answer.len \in Nat
  BY <1>1, ResponseFacts DEF HandlerType, Text, Switching, Answer
<1>3. \A e \in Ends : pipe[e] \in Nat /\ pending[e] \in 0..2
  BY <1>1, ForwardAssumption DEF ChanType
<1> QED
  BY <1>1, <1>2, <1>3 DEF MovedType

LEMMA ChannelWhole ==
  ASSUME WholeInv, (\E e \in Ends : ChannelStep(e)) \/ LinkLoss
  PROVE  WholeInv'
<1>0. TunnelInv /\ ChanType /\ Next
  BY TypeParts, NextSides DEF WholeInv, TunnelInv
<1>1. /\ HandlerSame /\ UNCHANGED <<callVars, ctx, call, go, moved>>
      /\ UNCHANGED <<req, answer, h, target, copy, late, cut>>
  BY DEF ChannelStep, LinkLoss, HandlerSame, callVars, handlerVars
<1>2. TunnelInv' /\ (Undisturbed' => Undisturbed)
  BY <1>0, ChannelKept, UndisturbedBefore
<1>3. TargetFirst' /\ BodyInv' /\ DrainInv'
  BY <1>1, <1>2 DEF WholeInv, TargetFirst, BodyInv, DrainInv, Copying, Tunnel
<1>4. link' => link
  BY <1>0 DEF LinkLoss, ChannelStep, Send, ServeExit, CloseArrives, Close
<1>5. AnswerWhole'
  BY <1>1, <1>4 DEF WholeInv, AnswerWhole
<1>6. ASSUME Undisturbed' PROVE CloseOrder' /\ (Broken' \/ Arrived' = Sent')
  <2>0. /\ Undisturbed /\ CloseOrder /\ (Broken \/ Arrived = Sent)
        /\ Broken' = Broken /\ Leaving' = Leaving /\ Sent' = Sent /\ link /\ link'
    BY <1>1, <1>2, <1>6 DEF WholeInv, Undisturbed, Broken, Leaving, Sent, Answered, Tunnel
  <2>1. PICK e \in Ends : ChannelStep(e)
    BY <2>0 DEF LinkLoss
  <2>2. e = "client" \/ e = "server"
    BY EndsFacts
  <2>3. CASE Send(e)
    <3>1. /\ UNCHANGED <<closed, serve>> /\ serve[e] /\ pending[e] > 0
          /\ pending'[e] = pending[e] - 1 /\ pending'[Peer(e)] = pending[Peer(e)]
          /\ pipe'[e] = pipe[e]
          /\ pipe'[Peer(e)] = IF closed[Peer(e)] THEN pipe[Peer(e)] ELSE pipe[Peer(e)] + 1
      BY <1>0, <2>3, SendChan
    <3>2. CASE e = "client"
      BY <1>1, <2>0, <3>1, <3>2, EndsFacts DEF CloseOrder, Quiet, Leaving, Arrived
    <3>3. CASE e = "server"
      <4>1. /\ ~closed["client"] /\ pending'["server"] = pending["server"] - 1
            /\ pipe'["client"] = pipe["client"] + 1 /\ ~Quiet
        BY <2>0, <3>1, <3>3, EndsFacts DEF CloseOrder, Quiet
      <4>2. Arrived' = Arrived
        BY <1>0, <1>1, <4>1, Counts, EndsFacts DEF Arrived, One
      <4> QED
        BY <1>1, <2>0, <3>1, <4>1, <4>2 DEF CloseOrder
    <3> QED
      BY <2>2, <3>2, <3>3
  <2>4. CASE ServeExit(e)
    <3>1. /\ serve[e] /\ Down(e) /\ ~serve'[e] /\ closed'[e] /\ pending'[e] = 0
          /\ \A d \in Ends \ {e} : /\ serve'[d] = serve[d] /\ closed'[d] = closed[d]
                                   /\ pending'[d] = pending[d]
          /\ UNCHANGED pipe
      BY <1>0, <2>4, ServeExitChan
    <3>2. closed[e]
      BY <2>0, <3>1 DEF Down
    <3>3. CASE e = "client"
      BY <1>1, <2>0, <3>1, <3>2, <3>3, EndsFacts DEF CloseOrder, Quiet, Leaving, Arrived
    <3>4. CASE e = "server"
      BY <1>1, <2>0, <3>1, <3>2, <3>4, EndsFacts DEF CloseOrder, Quiet, Leaving, Arrived
    <3> QED
      BY <2>2, <3>3, <3>4
  <2>5. CASE CloseArrives(e)
    <3>1. /\ ~serve[Peer(e)] /\ ~closed[e] /\ UNCHANGED <<serve, pending, pipe>>
          /\ \A d \in Ends \ {e} : closed'[d] = closed[d]
      BY <1>0, <2>5, CloseChanged DEF CloseArrives
    <3>2. e = "client"
      <4> SUFFICES ASSUME e = "server" PROVE FALSE
        BY <2>2
      <4>1. closed["client"]
        BY <1>0, <3>1, EndsFacts DEF TunnelInv, ServeInv
      <4> QED
        BY <1>0, <2>0, <3>1, <4>1, EndsFacts DEF TunnelInv, ServeInv, CloseOrder
    <3> QED
      BY <1>1, <2>0, <3>1, <3>2, EndsFacts DEF CloseOrder, Quiet, Leaving, Arrived
  <2> QED
    BY <2>1, <2>3, <2>4, <2>5 DEF ChannelStep
<1> QED
  BY <1>2, <1>3, <1>5, <1>6 DEF WholeInv

(* A client that comes to the end has read all that was written.           *)
LEMMA EndOfTheWay ==
  ASSUME WholeInv, Undisturbed, closed["client"], go = "ok"
  PROVE  Broken \/ moved.downOut + pipe["client"] = moved.downIn
<1>1. /\ TunnelInv /\ CloseOrder /\ (Broken \/ Arrived = Sent) /\ ~serve["server"]
      /\ Answered
  BY DEF WholeInv, CloseOrder, TunnelInv, HeardInv
<1>2. Broken \/ Quiet
  BY <1>1, EndsFacts DEF TunnelInv, ServeInv, CloseOrder
<1> QED
  BY <1>1, <1>2, Counts, EndsFacts DEF Arrived, Sent, One, Quiet

LEMMA ClientWhole ==
  ASSUME WholeInv, ClientSide
  PROVE  WholeInv'
<1>0. TunnelInv /\ ChanType /\ MovedType /\ CallType /\ Next
  BY TypeParts, NextSides DEF WholeInv, TunnelInv
<1>1. /\ HandlerSame /\ UNCHANGED <<link, serve, req, answer, h, target, copy, late, cut>>
      /\ pending'["server"] = pending["server"] /\ closed'["server"] = closed["server"]
  BY <1>0, ClientChan DEF HandlerSame
<1>2. TunnelInv' /\ (Undisturbed' => Undisturbed)
  BY <1>0, ClientKept, UndisturbedBefore
<1>3. moved'.downIn = moved.downIn /\ moved'.sent = moved.sent
  <2>1. Moves("upIn") \/ Moves("downOut") \/ UNCHANGED moved
    BY DEF ClientSide, GoStep, GoMeta, GoBody, GoBodyEnd, GoBodyRead, GoBodyEnds,
         GoWriteFails, GoHead, GoHeadEOF,
     CallStep, CallOk, CallError, CallCancelled, CallText, CallTo, Cancel,
     UserStep, UserWrite, UserRead, UserShort, UserClose
  <2> QED
    BY <1>0, <2>1, Moved, Counts DEF One
<1>4. TargetFirst' /\ BodyInv' /\ DrainInv'
  BY <1>1, <1>2, <1>3 DEF WholeInv, TargetFirst, BodyInv, DrainInv, Copying, Tunnel
<1>5. AnswerWhole'
  <2>1. CASE UserShort /\ link /\ ~late
    <3>1. /\ call = "ok" /\ ~Tunnel /\ moved.downOut < answer.len
          /\ closed["client"] /\ pipe["client"] = 0
      BY <2>1 DEF UserShort, ReadEOF
    <3>2. go = "ok"
      BY <1>0, <3>1 DEF TunnelInv, HeardInv
    <3>3. Undisturbed
      BY <2>1, <3>1, <3>2 DEF Undisturbed
    <3>4. Broken \/ moved.downOut = moved.downIn
      BY <1>0, <3>1, <3>2, <3>3, EndOfTheWay, Counts
    <3>5. closed["server"] /\ Leaving
      <4>1. CloseOrder
        BY <3>3 DEF WholeInv
      <4>2. closed["server"]
        BY <1>0, <3>1, <4>1, EndsFacts DEF CloseOrder, TunnelInv, ServeInv
      <4> QED
        BY <1>0, <3>1, <4>1, <4>2 DEF CloseOrder, TunnelInv, ShapeInv
    <3>6. Broken \/ moved.downIn = answer.real
      BY <3>1, <3>3, <3>5 DEF WholeInv, BodyInv, Leaving
    <3> QED
      BY <1>0, <1>1, <3>1, <3>4, <3>6, Counts DEF AnswerWhole, Broken
  <2>2. CASE ~UserShort
    <3>1. call' = "short" => call = "short"
      BY <2>2 DEF ClientSide, GoStep, GoMeta, GoBody, GoBodyEnd, GoBodyRead, GoBodyEnds,
           GoWriteFails, GoHead,
       GoHeadEOF, GoTo, CallStep, CallOk, CallError, CallCancelled, CallText, CallTo,
       Cancel,
       UserStep, UserWrite, UserRead, UserClose, callVars
    <3> QED
      BY <1>1, <3>1 DEF WholeInv, AnswerWhole
  <2>3. CASE ~(link /\ ~late)
    BY <1>1, <2>3 DEF AnswerWhole
  <2> QED
    BY <2>1, <2>2, <2>3
<1>6. ASSUME Undisturbed' PROVE CloseOrder' /\ (Broken' \/ Arrived' = Sent')
  <2>1. /\ Undisturbed /\ CloseOrder /\ (Broken \/ Arrived = Sent)
        /\ Broken' = Broken /\ Leaving' = Leaving /\ Sent' = Sent /\ Quiet' = Quiet
    BY <1>1, <1>2, <1>3, <1>6
       DEF WholeInv, Broken, Leaving, Sent, Answered, Tunnel, Quiet
  <2>2. go' # "error" /\ call' \notin {"failed", "left"}
    BY <1>6 DEF Undisturbed
  <2>3. closed'["client"] = closed["client"]
    BY <2>2 DEF ClientSide, GoStep, GoMeta, GoBody, GoBodyEnd, GoBodyRead, GoBodyEnds,
         GoWriteFails, GoHead,
       GoHeadEOF, GoTo, CallStep, CallOk, CallError, CallCancelled, CallText, CallTo,
       Cancel,
       UserStep, UserWrite, UserRead, UserShort, UserClose, callVars, chanVars,
       Read, Write, WriteFails
  <2>4. CloseOrder'
    BY <1>1, <2>1, <2>3 DEF CloseOrder
  <2>5. Arrived' = Arrived
    <3>1. CASE GoHead
      <4>1. /\ go = "head" /\ go' = "ok" /\ pipe["client"] > 0
            /\ pipe'["client"] = pipe["client"] - 1 /\ UNCHANGED moved
        BY <1>0, <2>2, <3>1, ReadChan, EndsFacts DEF GoHead, GoTo
      <4> QED
        BY <1>0, <1>1, <4>1, Counts, EndsFacts DEF Arrived, One
    <3>2. CASE UserRead
      <4>1. /\ UNCHANGED go /\ pipe["client"] > 0
            /\ pipe'["client"] = pipe["client"] - 1 /\ moved'.downOut = moved.downOut + 1
        BY <1>0, <3>2, ReadChan, Moved, EndsFacts DEF UserRead, callVars, One
      <4> QED
        BY <1>0, <1>1, <4>1, Counts, EndsFacts DEF Arrived, One
    <3>3. CASE ~GoHead /\ ~UserRead
      <4>1. pipe' = pipe
        BY <3>3 DEF ClientSide, GoStep, GoMeta, GoBody, GoBodyEnd, GoBodyRead,
             GoBodyEnds, GoWriteFails,
           GoHeadEOF, CallStep, CallOk, CallError, CallCancelled, CallText, Cancel,
           UserStep, UserWrite, UserShort, UserClose, chanVars, Write, WriteFails, Close
      <4>2. go' = "ok" <=> go = "ok"
        BY <3>3 DEF ClientSide, GoStep, GoMeta, GoBody, GoBodyEnd, GoBodyRead,
             GoBodyEnds, GoWriteFails, GoHeadEOF,
           GoTo, CallStep, CallOk, CallError, CallCancelled, CallText, CallTo, Cancel,
           UserStep, UserWrite, UserShort, UserClose, callVars
      <4>3. Moves("upIn") \/ UNCHANGED moved
        BY <3>3 DEF ClientSide, GoStep, GoMeta, GoBody, GoBodyEnd, GoBodyRead,
             GoBodyEnds, GoWriteFails, GoHeadEOF,
           CallStep, CallOk, CallError, CallCancelled, CallText, CallTo, Cancel,
           UserStep, UserWrite, UserShort, UserClose
      <4>4. moved'.downOut = moved.downOut
        BY <1>0, <4>3, Moved, Counts DEF One
      <4> QED
        BY <1>1, <4>1, <4>2, <4>4 DEF Arrived
    <3> QED
      BY <3>1, <3>2, <3>3
  <2> QED
    BY <2>1, <2>4, <2>5
<1> QED
  BY <1>2, <1>4, <1>5, <1>6 DEF WholeInv

-----------------------------------------------------------------------------
(* WholeInv and the server's side.  What an undisturbed way excludes: the  *)
(* failures that a closed channel causes before the copies or the end.     *)
LEMMA NothingFails ==
  ASSUME WholeInv, Undisturbed
  PROVE  /\ ~ReadMetaEOF /\ ~SendFails
         /\ copy.down = "write" => ~Down("server")
         /\ copy.up # "off" <=> copy.down # "off"
         /\ Copying => ~Broken
<1>1. TunnelInv /\ CloseOrder /\ link
  BY DEF WholeInv, Undisturbed
<1>2. /\ copy.up # "off" <=> copy.down # "off"
      /\ Copying => ~Broken
  BY <1>1 DEF TunnelInv, ShapeInv, Copying, Broken
<1>3. ~ReadMetaEOF /\ ~SendFails
  BY <1>1 DEF CloseOrder, ReadMetaEOF, ReadEOF, SendFails, WriteFails, Down, Leaving
<1>4. copy.down = "write" => ~Down("server")
  BY <1>1, <1>2 DEF CloseOrder, Quiet, Down, Copying
<1> QED
  BY <1>2, <1>3, <1>4

LEMMA ServerTargetFirst ==
  ASSUME WholeInv, ServerSide
  PROVE  TargetFirst'
<1>0. TunnelInv /\ HandlerType
  BY TypeParts DEF WholeInv, TunnelInv
<1>1. CASE CloseTarget
  BY <1>1 DEF CloseTarget, HandlerTo, TargetFirst
<1>2. CASE CloseChan
  BY <1>2 DEF CloseChan, HandlerTo, TargetFirst, WholeInv
<1>3. CASE ~CloseTarget /\ ~CloseChan
  <2>1. h' \in {"closeChan", "done"} => h' = h
    BY <1>3 DEF ServerSide, HandlerStep, ReadMeta, ReadMetaEOF, DoFails, SendText, SendOk,
     SendBody, SendBodyEnd, SendFails, DelayEnds, CopyReturns, HandlerTo,
     UpStep, UpRead, UpWrite, DownStep, DownWrite, CopyEnds, TargetFails, Failing,
     ChannelFails,
     CopyClosesChan, CopyClosesTarget, CopyTo,
     TargetStep, Upload, DoAnswers, Dialled, DownRead, TargetSends, TargetEnds,
     handlerVars
  <2>2. h \in {"closeChan", "done"} => target' = target \/ target' = "closed"
    BY <1>3 DEF ServerSide, HandlerStep, ReadMeta, ReadMetaEOF, DoFails, SendText, SendOk,
     SendBody, SendBodyEnd, SendFails, DelayEnds, CopyReturns,
     UpStep, UpRead, UpWrite, DownStep, DownWrite, CopyEnds, TargetFails, Failing,
     ChannelFails,
     CopyClosesChan, CopyClosesTarget, WholeInv, TargetFirst,
     TargetStep, Upload, DoAnswers, Dialled, DownRead, TargetSends, TargetEnds,
     handlerVars
  <2> QED
    BY <2>1, <2>2 DEF WholeInv, TargetFirst
<1> QED
  BY <1>1, <1>2, <1>3

(* An answer, once given, is the same to the end.                          *)
LEMMA AnswerStays ==
  ASSUME ServerSide
  PROVE  /\ Answered => Answered' /\ answer' = answer
         /\ Leaving => Leaving'
<1>1. Answered => Answered' /\ answer' = answer
  BY DEF Answered, ServerSide, HandlerStep, ReadMeta, ReadMetaEOF, DoFails, SendText,
       SendOk,
     SendBody, SendBodyEnd, SendFails, DelayEnds, CopyReturns, CloseTarget, CloseChan,
     HandlerTo,
     UpStep, UpRead, UpWrite, DownStep, DownWrite, CopyEnds, TargetFails, Failing,
     ChannelFails,
     CopyClosesChan, CopyClosesTarget, CopyTo,
     TargetStep, Upload, DoAnswers, Dialled, DownRead, TargetSends, TargetEnds,
     handlerVars
<1>2. Leaving => Leaving'
  BY DEF Leaving, ServerSide, HandlerStep, ReadMeta, ReadMetaEOF, DoFails, SendText,
       SendOk,
     SendBody, SendBodyEnd, SendFails, DelayEnds, CopyReturns, CloseTarget, CloseChan,
     HandlerTo,
     UpStep, UpRead, UpWrite, DownStep, DownWrite, CopyEnds, TargetFails, Failing,
     ChannelFails,
     CopyClosesChan, CopyClosesTarget, CopyTo,
     TargetStep, Upload, DoAnswers, Dialled, DownRead, TargetSends, TargetEnds,
     handlerVars
<1> QED
  BY <1>1, <1>2

LEMMA ServerBody ==
  ASSUME WholeInv, ServerSide
  PROVE  BodyInv'
<1>0. /\ TunnelInv /\ HandlerType /\ MovedType /\ BodyInv /\ Next
      /\ UNCHANGED <<req, go, call, link>>
  BY TypeParts, ServerChan, NextSides DEF WholeInv, TunnelInv, callVars
<1> USE <1>0, Counts
<1>1. /\ Undisturbed' => Undisturbed
      /\ ~Tunnel /\ Undisturbed => ~ReadMetaEOF /\ ~SendFails
      /\ Copying => Tunnel /\ (h = "copy" \/ Leaving)
  BY UndisturbedBefore, NothingFails DEF TunnelInv, ShapeInv
<1>2. CASE UNCHANGED <<answer, h, moved>>
  BY <1>1, <1>2 DEF BodyInv, Tunnel
<1>3. CASE ReadMeta \/ DoAnswers \/ Dialled \/ DoFails
  BY <1>3 DEF ReadMeta, DoAnswers, Dialled, DoFails, HandlerTo, BodyInv
<1>4. CASE ReadMetaEOF \/ SendFails
  BY <1>1, <1>4 DEF ReadMetaEOF, SendFails, HandlerTo, BodyInv, Tunnel
<1>5. CASE SendText
  <2>1. h' = "delay" /\ UNCHANGED answer /\ moved'.downIn = moved.downIn + 1 /\ h = "sendText"
    BY <1>5, Moved DEF SendText, HandlerTo, One
  <2>2. answer.real = 1 /\ moved.downIn = 0
    BY <2>1 DEF TunnelInv, ShapeInv, Text, Answer, BodyInv
  <2> QED
    BY <2>1, <2>2 DEF BodyInv
<1>6. CASE SendOk
  <2>1. /\ h = "sendOk" /\ UNCHANGED <<answer, moved>> /\ moved.downIn = 0
        /\ h' \in {"copy", "delay", "sendBody"}
        /\ h' = "delay" => answer.len = 0 /\ ~answer.up
    BY <1>6 DEF SendOk, HandlerTo, BodyInv
  <2>2. ~Tunnel /\ h' = "delay" => answer.real = 0
    BY <2>1 DEF TunnelInv, ShapeInv
  <2> QED
    BY <2>1, <2>2 DEF BodyInv, Tunnel
<1>7. CASE SendBody
  <2>1. /\ h = "sendBody" /\ h' = "sendBody" /\ UNCHANGED answer
        /\ moved'.downIn = moved.downIn + 1 /\ moved.downIn < answer.real
    BY <1>7, Moved DEF SendBody, HandlerTo, One
  <2> QED
    BY <2>1 DEF BodyInv
<1>8. CASE SendBodyEnd
  BY <1>8 DEF SendBodyEnd, HandlerTo, BodyInv
<1>9. CASE DelayEnds \/ CloseTarget \/ CloseChan
  BY <1>1, <1>9 DEF DelayEnds, CloseTarget, CloseChan, HandlerTo, BodyInv, Tunnel
<1>10. CASE CopyReturns
  BY <1>1, <1>10 DEF CopyReturns, HandlerTo, BodyInv, Tunnel, TunnelInv, ShapeInv
<1>11. CASE Upload \/ UpWrite \/ TargetSends
  <2>1. UNCHANGED <<answer, h>> /\ moved'.downIn = moved.downIn
    BY <1>11, Moved DEF Upload, UpWrite, TargetSends, CopyTo, handlerVars, One
  <2> QED
    BY <1>1, <2>1 DEF BodyInv, Tunnel
<1>12. CASE DownRead
  <2>1. UNCHANGED <<answer, h>> /\ Copying
    BY <1>12 DEF DownRead, CopyTo, TunnelInv, ShapeInv, Copying
  <2> QED
    BY <1>1, <2>1 DEF BodyInv, Tunnel, Leaving
<1>13. ASSUME NEW d \in {"up", "down"}, CopyEnds(d) PROVE BodyInv'
  BY <1>2, <1>13 DEF CopyEnds, TargetFails, Failing, ChannelFails, CopyClosesChan,
       CopyClosesTarget, CopyTo
<1> QED
  BY <1>2, <1>3, <1>4, <1>5, <1>6, <1>7, <1>8, <1>9, <1>10, <1>11, <1>12, <1>13
     DEF ServerSide, HandlerStep, UpStep, UpRead, DownStep, DownWrite, TargetStep,
         TargetEnds,
     CopyTo
(* What the handler writes, and what it counts as written, is the same.    *)
LEMMA ServerCounts ==
  ASSUME WholeInv, ServerSide, Undisturbed
  PROVE  Arrived' = Sent' <=> Arrived = Sent
<1>0. /\ TunnelInv /\ HandlerType /\ MovedType /\ ChanType /\ BodyInv
      /\ UNCHANGED <<go, pipe["client"]>>
  BY TypeParts, ServerChan DEF WholeInv, TunnelInv, callVars
<1> USE <1>0, Counts, EndsFacts
<1>1. moved'.downOut = moved.downOut
  <2>1. Moves("upOut") \/ Moves("downIn") \/ Moves("sent") \/ UNCHANGED moved
    BY DEF ServerSide, HandlerStep, ReadMeta, ReadMetaEOF, DoFails, SendText, SendOk,
         SendBody,
     SendBodyEnd, SendFails, DelayEnds, CopyReturns, CloseTarget, CloseChan,
     UpStep, UpRead, UpWrite, DownStep, DownWrite, CopyEnds, TargetFails, Failing,
     ChannelFails,
     CopyClosesChan, CopyClosesTarget,
     TargetStep, Upload, DoAnswers, Dialled, DownRead, TargetSends, TargetEnds
  <2> QED
    BY <2>1, Moved DEF One
<1>2. ASSUME pending'["server"] = pending["server"], moved'.downIn = moved.downIn,
             copy'.down = "write" <=> copy.down = "write", Answered' <=> Answered
      PROVE  Arrived' = Sent' <=> Arrived = Sent
  BY <1>1, <1>2 DEF Arrived, Sent, One
<1>3. CASE ReadMeta \/ DoAnswers \/ Dialled \/ DoFails
  <2>1. /\ pending'["server"] = pending["server"] /\ UNCHANGED <<moved, copy>>
        /\ ~Answered /\ ~Answered'
    BY <1>3 DEF ReadMeta, DoAnswers, Dialled, DoFails, HandlerTo, Read, chanVars, Answered
  <2> QED
    BY <1>2, <2>1
<1>4. CASE ReadMetaEOF \/ SendFails
  BY <1>4, NothingFails
<1>5. CASE SendText
  <2>1. /\ pending["server"] = 0 /\ pending'["server"] = 2 /\ UNCHANGED copy
        /\ moved'.downIn = moved.downIn + 1 /\ ~Answered /\ Answered'
    BY <1>5, WriteChan, Moved DEF SendText, HandlerTo, Answered, One
  <2> QED
    BY <1>1, <2>1 DEF Arrived, Sent, One
<1>6. CASE SendOk
  <2>1. /\ pending["server"] = 0 /\ pending'["server"] = 1 /\ UNCHANGED moved
        /\ ~Answered /\ Answered' /\ h = "sendOk"
        /\ copy' = copy \/ copy' = [up |-> "read", down |-> "read"]
    BY <1>6, WriteChan DEF SendOk, HandlerTo, Answered
  <2>2. copy.down = "off" /\ copy'.down # "write"
    BY <2>1 DEF TunnelInv, ShapeInv, Copying, Leaving
  <2> QED
    BY <1>1, <2>1, <2>2 DEF Arrived, Sent, One
<1>7. CASE SendBody
  <2>1. /\ pending["server"] = 0 /\ pending'["server"] = 1 /\ UNCHANGED copy
        /\ moved'.downIn = moved.downIn + 1 /\ Answered /\ Answered'
    BY <1>7, WriteChan, Moved DEF SendBody, HandlerTo, Answered, One
  <2> QED
    BY <1>1, <2>1 DEF Arrived, Sent, One
<1>8. CASE SendBodyEnd \/ DelayEnds \/ CopyReturns \/ CloseTarget \/ CloseChan
  <2>1. UNCHANGED <<moved, copy, pending>> /\ Answered /\ Answered'
    BY <1>8 DEF SendBodyEnd, DelayEnds, CopyReturns, CloseTarget, CloseChan, Close,
         HandlerTo,
       Answered, chanVars
  <2> QED
    BY <1>2, <2>1
<1>9. CASE Upload
  <2>1. UNCHANGED <<h, copy, pending>> /\ moved'.downIn = moved.downIn
    BY <1>9, Moved DEF Upload, handlerVars, Read, One
  <2> QED
    BY <1>2, <2>1 DEF Answered
<1>10. CASE UpRead \/ UpWrite
  <2>1. /\ UNCHANGED <<h, pending>> /\ moved'.downIn = moved.downIn
        /\ copy'.down = copy.down
    BY <1>10, Moved, CopyMoves DEF UpRead, UpWrite, Read, chanVars, One
  <2> QED
    BY <1>2, <2>1 DEF Answered
<1>11. CASE DownRead
  <2>1. /\ UNCHANGED <<h, pending>> /\ moved'.downIn = moved.downIn + 1
        /\ copy.down = "read" /\ copy'.down = "write"
    BY <1>11, Moved, CopyMoves DEF DownRead, chanVars, One
  <2> QED
    BY <1>1, <2>1 DEF Arrived, Sent, One, Answered
<1>12. CASE DownWrite
  <2>1. /\ UNCHANGED <<h, moved>> /\ copy.down = "write" /\ copy'.down = "read"
        /\ pending["server"] = 0 /\ pending'["server"] = 1
    BY <1>12, WriteChan, CopyMoves DEF DownWrite
  <2> QED
    BY <1>1, <2>1 DEF Arrived, Sent, One, Answered
<1>13. ASSUME NEW d \in {"up", "down"}, CopyEnds(d)
       PROVE  Arrived' = Sent' <=> Arrived = Sent
  <2>1. UNCHANGED <<moved, pending>>
    BY <1>13 DEF CopyEnds, TargetFails, Failing, ChannelFails, CopyClosesChan,
         CopyClosesTarget, Close,
       chanVars
  <2>2. PICK pc \in {"closeTarget", "closeChan", "done"} : CopyTo(d, pc)
    BY <1>13 DEF CopyEnds, TargetFails, Failing, ChannelFails, CopyClosesChan,
         CopyClosesTarget
  <2>3. UNCHANGED h /\ copy'.down = (IF d = "down" THEN pc ELSE copy.down)
    BY <2>2, CopyMoves
  <2>4. d = "down" => copy.down # "write"
    BY <1>13, NothingFails
       DEF CopyEnds, TargetFails, Failing, ChannelFails, CopyClosesChan, CopyClosesTarget
  <2> QED
    BY <1>2, <2>1, <2>2, <2>3, <2>4 DEF Answered
<1>14. CASE TargetSends \/ TargetEnds
  <2>1. UNCHANGED <<h, copy, pending>> /\ moved'.downIn = moved.downIn
    BY <1>14, Moved DEF TargetSends, TargetEnds, handlerVars, chanVars, One
  <2> QED
    BY <1>2, <2>1 DEF Answered
<1> QED
  BY <1>3, <1>4, <1>5, <1>6, <1>7, <1>8, <1>9, <1>10, <1>11, <1>12, <1>13, <1>14
     DEF ServerSide, HandlerStep, UpStep, DownStep, TargetStep

(* The channel is closed behind what was written, and after the target.    *)
LEMMA ServerCloses ==
  ASSUME WholeInv, ServerSide, Undisturbed, Undisturbed'
  PROVE  CloseOrder'
<1>0. /\ TunnelInv /\ CloseOrder /\ HandlerType /\ ChanType /\ link /\ ~late'
      /\ closed'["client"] = closed["client"] /\ UNCHANGED <<serve, req>>
  BY TypeParts, ServerChan DEF WholeInv, TunnelInv, Undisturbed, callVars
<1> USE <1>0, EndsFacts
<1>1. /\ Leaving => Leaving'
      /\ Broken => Broken'
      /\ h = "copy" => h' \in {"copy", "close"}
  <2>1. h = "copy" => h' \in {"copy", "close"}
    BY DEF ServerSide, HandlerStep, ReadMeta, ReadMetaEOF, DoFails, SendText, SendOk,
     SendBody, SendBodyEnd, SendFails, DelayEnds, CopyReturns, CloseTarget, CloseChan,
     HandlerTo,
     UpStep, UpRead, UpWrite, DownStep, DownWrite, CopyEnds, TargetFails, Failing,
     ChannelFails,
     CopyClosesChan, CopyClosesTarget, CopyTo,
     TargetStep, Upload, DoAnswers, Dialled, DownRead, TargetSends, TargetEnds,
     handlerVars
  <2> QED
    BY <2>1, AnswerStays DEF Broken, Tunnel, Leaving, Answered
<1>2. h = "copy" \/ Leaving =>
        (target \in {"none", "closed"} => target' \in {"none", "closed"})
  BY DEF Leaving, ServerSide, HandlerStep, ReadMeta, ReadMetaEOF, DoFails, SendText,
       SendOk,
     SendBody, SendBodyEnd, SendFails, DelayEnds, CopyReturns, CloseTarget, CloseChan,
     UpStep, UpRead, UpWrite, DownStep, DownWrite, CopyEnds, TargetFails, Failing,
     ChannelFails,
     CopyClosesChan, CopyClosesTarget,
     TargetStep, Upload, DoAnswers, Dialled, DownRead, TargetSends, TargetEnds,
     handlerVars
<1>3. ASSUME closed["server"] \/ Leaving PROVE Broken' \/ Quiet'
  <2> SUFFICES ASSUME Quiet PROVE Quiet'
    BY <1>1, <1>3 DEF CloseOrder
  <2>1. (h = "copy" \/ Leaving) /\ ~DownRead
    <3>1. ~Copying => ~DownRead
      BY DEF TunnelInv, ShapeInv, Copying, DownRead
    <3>2. Copying => target = "closed"
      BY <1>3 DEF TunnelInv, ShapeInv, CloseOrder
    <3> QED
      BY <1>3, <3>1, <3>2 DEF CloseOrder, DownRead
  <2>2. /\ ~SendText /\ ~SendOk /\ ~SendBody /\ ~DownWrite
        /\ ~ReadMeta /\ ~DoAnswers /\ ~Dialled /\ ~DoFails
    BY <2>1 DEF SendText, SendOk, SendBody, DownWrite, ReadMeta, DoAnswers, Dialled,
         DoFails,
       Leaving, Quiet
  <2>3. pending' = pending
    BY <2>1, <2>2 DEF ServerSide, HandlerStep, ReadMetaEOF,
     SendBodyEnd, SendFails, DelayEnds, CopyReturns, CloseTarget, CloseChan, WriteFails,
     UpStep, UpRead, UpWrite, DownStep, CopyEnds, TargetFails, Failing, ChannelFails,
     CopyClosesChan, CopyClosesTarget, Read, Close, chanVars, TargetStep, Upload,
     TargetSends, TargetEnds
  <2>4. \/ UNCHANGED copy
        \/ \E d \in {"up", "down"}, pc \in {"read", "write", "closeTarget", "closeChan", "done"} :
             CopyTo(d, pc) /\ (d = "down" => pc # "write")
    BY <2>1, <2>2 DEF ServerSide, HandlerStep, ReadMetaEOF,
     SendBodyEnd, SendFails, DelayEnds, CopyReturns, CloseTarget, CloseChan,
     UpStep, UpRead, UpWrite, DownStep, CopyEnds, TargetFails, Failing, ChannelFails,
     CopyClosesChan, CopyClosesTarget, TargetStep, Upload, TargetSends, TargetEnds,
     handlerVars
  <2>5. copy'.down = copy.down \/ copy'.down # "write"
    BY <2>4, CopyMoves
  <2> QED
    BY <2>3, <2>5 DEF Quiet
<1>4. ASSUME NEW d \in {"up", "down"}, CopyClosesChan(d), ~closed["server"]
      PROVE  CloseOrder'
  <2>1. Copying /\ target = "closed"
    BY <1>4 DEF CopyClosesChan, TunnelInv, ShapeInv, CopyInv, Copying
  <2>2. pending["server"] = 0 /\ copy.down # "write"
    BY <1>4 DEF CopyClosesChan, ChannelQuiet, Down
  <2>3. UNCHANGED <<h, target, pending>> /\ copy'.down \in {"done", copy.down}
    BY <1>4, CopyMoves DEF CopyClosesChan, Close
  <2> QED
    BY <2>1, <2>2, <2>3 DEF CloseOrder, Quiet, TunnelInv, ShapeInv, Leaving
<1>5. CASE SendBodyEnd \/ DelayEnds
  <2>1. ~closed["server"] /\ h \in {"sendBody", "delay"}
    BY <1>5 DEF SendBodyEnd, DelayEnds, CloseOrder, Leaving
  <2>2. UNCHANGED <<closed, answer, target, copy, pending>> /\ h' \in {"delay", "close"}
    BY <1>5 DEF SendBodyEnd, DelayEnds, HandlerTo, chanVars
  <2>3. h' = "close" => Broken' \/ Quiet'
    <3>1. CASE SendBodyEnd
      BY <3>1, <2>2 DEF SendBodyEnd, HandlerTo, Broken, Tunnel, Leaving, TunnelInv,
           ShapeInv
    <3>2. CASE DelayEnds
      BY <3>2, <2>1, <2>2 DEF DelayEnds, ChannelQuiet, Down, Quiet
    <3> QED
      BY <1>5, <3>1, <3>2
  <2> QED
    BY <2>1, <2>2, <2>3 DEF CloseOrder, Leaving
<1>6. CASE CloseChan
  <2>1. Leaving /\ target' \in {"none", "closed"} /\ Leaving'
    BY <1>6 DEF CloseChan, HandlerTo, Leaving, WholeInv, TargetFirst
  <2> QED
    BY <1>3, <2>1 DEF CloseOrder
<1>7. ASSUME ~CloseChan, ~SendBodyEnd, ~DelayEnds,
             \A d \in {"up", "down"} : CopyClosesChan(d) => closed["server"]
      PROVE  CloseOrder'
  <2>1. closed'["server"] => closed["server"]
    <3>1. ASSUME NEW d \in {"up", "down"}, ChannelFails(d) PROVE closed["server"]
      BY <3>1, NothingFails DEF ChannelFails, ReadEOF
    <3>2. UNCHANGED closed \/ \E d \in {"up", "down"} : ChannelFails(d) \/ CopyClosesChan(d)
      BY <1>7 DEF ServerSide, HandlerStep, ReadMeta, ReadMetaEOF, DoFails, SendText,
           SendOk,
       SendBody, SendFails, CopyReturns, CloseTarget, WriteFails,
       UpStep, UpRead, UpWrite, DownStep, DownWrite, CopyEnds, TargetFails, Failing,
       CopyClosesTarget, Read, Write, chanVars,
       TargetStep, Upload, DoAnswers, Dialled, DownRead, TargetSends, TargetEnds
    <3> QED
      BY <1>7, <3>1, <3>2
  <2>2. Leaving' => Leaving \/ closed["server"]
    <3>1. CASE CopyReturns
      BY <3>1 DEF CopyReturns, TunnelInv, CopyInv
    <3>2. CASE ~CopyReturns
      BY <1>7, <3>2, NothingFails DEF Leaving, ServerSide, HandlerStep, ReadMeta, DoFails,
       SendText, SendOk, SendBody, CloseTarget, HandlerTo,
       UpStep, UpRead, UpWrite, DownStep, DownWrite, CopyEnds, TargetFails, Failing,
       ChannelFails,
       CopyClosesChan, CopyClosesTarget, CopyTo,
       TargetStep, Upload, DoAnswers, Dialled, DownRead, TargetSends, TargetEnds,
       handlerVars
    <3> QED
      BY <3>1, <3>2
  <2>3. closed'["server"] => (h' = "copy" \/ Leaving') /\ target' \in {"none", "closed"}
    BY <1>1, <1>2, <2>1 DEF CloseOrder, Leaving
  <2> QED
    BY <1>3, <2>1, <2>2, <2>3 DEF CloseOrder
<1> QED
  BY <1>4, <1>5, <1>6, <1>7

(* The target of a tunnel is closed when all it sent is read, or is cut.   *)
LEMMA ServerDrains ==
  ASSUME WholeInv, ServerSide, Undisturbed
  PROVE  DrainInv'
<1>0. /\ TunnelInv /\ CloseOrder /\ HandlerType /\ MovedType /\ DrainInv
  BY TypeParts DEF WholeInv, TunnelInv
<1> USE <1>0, Counts
<1>1. Copying => target # "none" /\ (closed["server"] \/ Leaving => target = "closed")
  BY DEF TunnelInv, ShapeInv, CloseOrder
<1>2. ASSUME moved'.downIn = moved.downIn, moved'.sent = moved.sent, Copying' => Copying,
             cut => cut', Copying /\ target' = "closed" => target = "closed"
      PROVE  DrainInv'
  BY <1>2 DEF DrainInv
<1>3. CASE ReadMeta \/ ReadMetaEOF \/ DoAnswers \/ Dialled \/ DoFails \/ SendBodyEnd
             \/ SendFails \/ DelayEnds \/ CopyReturns \/ CloseChan
  <2>1. UNCHANGED <<moved, copy, cut>>
    BY <1>3 DEF ReadMeta, ReadMetaEOF, DoAnswers, Dialled, DoFails, SendBodyEnd,
         SendFails,
       DelayEnds, CopyReturns, CloseChan, HandlerTo
  <2>2. target' # "closed" \/ UNCHANGED target
    BY <1>3 DEF ReadMeta, ReadMetaEOF, DoAnswers, Dialled, DoFails, SendBodyEnd,
         SendFails,
       DelayEnds, CopyReturns, CloseChan
  <2> QED
    BY <1>2, <2>1, <2>2 DEF Copying
<1>4. CASE CloseTarget
  <2>1. UNCHANGED <<moved, copy, cut>> /\ Leaving
    BY <1>4 DEF CloseTarget, HandlerTo, Leaving
  <2> QED
    BY <1>1, <1>2, <2>1 DEF Copying
<1>5. CASE SendText \/ SendBody \/ Upload
  <2>1. UNCHANGED <<copy, target>> /\ ~Copying
    BY <1>5 DEF SendText, SendBody, Upload, handlerVars, TunnelInv, ShapeInv, Leaving
  <2> QED
    BY <2>1 DEF DrainInv, Copying
<1>6. CASE SendOk
  <2>1. UNCHANGED target /\ h = "sendOk" /\ (copy' = copy \/ answer.up)
    BY <1>6 DEF SendOk
  <2>2. ~Copying /\ (answer.up => target # "closed")
    BY <2>1 DEF TunnelInv, ShapeInv, Leaving
  <2> QED
    BY <2>1, <2>2 DEF DrainInv, Copying
<1>7. CASE UpRead \/ UpWrite \/ DownWrite \/ TargetEnds
  <2>1. /\ moved'.downIn = moved.downIn /\ moved'.sent = moved.sent
        /\ UNCHANGED cut /\ target' \in {target, "ended"}
    BY <1>7, Moved DEF UpRead, UpWrite, DownWrite, TargetEnds, One
  <2>2. Copying' => Copying
    BY <1>7, CopyMoves DEF UpRead, UpWrite, DownWrite, TargetEnds, Copying
  <2> QED
    BY <1>2, <2>1, <2>2
<1>8. CASE DownRead \/ TargetSends
  <2>1. UNCHANGED target /\ target \in {"open", "ended"}
    BY <1>8 DEF DownRead, TargetSends, handlerVars
  <2> QED
    BY <2>1 DEF DrainInv
<1>9. ASSUME NEW d \in {"up", "down"}, CopyEnds(d) PROVE DrainInv'
  <2>1. UNCHANGED moved /\ (cut => cut')
    BY <1>9 DEF CopyEnds, TargetFails, ChannelFails, CopyClosesChan, CopyClosesTarget,
         HandlerType
  <2>2. Copying
    BY <1>9 DEF CopyEnds, TargetFails, Failing, ChannelFails, CopyClosesChan,
         CopyClosesTarget,
       TunnelInv, ShapeInv, Copying
  <2>3. CASE TargetFails(d)
    <3>1. CASE d = "up"
      BY <1>2, <2>1, <2>2, <2>3, <3>1 DEF TargetFails, DrainInv
    <3>2. CASE d = "down"
      BY <2>1, <2>2, <2>3, <3>2 DEF TargetFails, Failing, DrainInv, Undisturbed
    <3> QED
      BY <3>1, <3>2
  <2>4. CASE ChannelFails(d) \/ CopyClosesChan(d)
    BY <1>2, <2>1, <2>2, <2>4 DEF ChannelFails, CopyClosesChan
  <2>5. CASE CopyClosesTarget(d)
    <3>1. closed["server"]
      BY <2>5 DEF CopyClosesTarget, TunnelInv, CopyInv
    <3> QED
      BY <1>1, <1>2, <2>1, <2>2, <3>1
  <2> QED
    BY <1>9, <2>3, <2>4, <2>5 DEF CopyEnds
<1> QED
  BY <1>3, <1>4, <1>5, <1>6, <1>7, <1>8, <1>9
     DEF ServerSide, HandlerStep, UpStep, DownStep, TargetStep

LEMMA ServerWhole ==
  ASSUME WholeInv, ServerSide
  PROVE  WholeInv'
<1>0. /\ TunnelInv /\ Next
      /\ UNCHANGED <<req, call, go, link>>
  BY ServerChan, NextSides DEF WholeInv, callVars
<1>1. TunnelInv' /\ TargetFirst' /\ BodyInv'
  BY <1>0, ServerKept, ServerTargetFirst, ServerBody
<1>2. Broken => Broken'
  BY <1>0, AnswerStays DEF Broken, Tunnel, Leaving, Answered
<1>3. ASSUME Undisturbed' PROVE CloseOrder' /\ (Broken' \/ Arrived' = Sent')
  <2>1. Undisturbed
    BY <1>0, <1>3, UndisturbedBefore
  <2>2. CloseOrder'
    BY <1>3, <2>1, ServerCloses
  <2> QED
    BY <1>2, <2>1, <2>2, ServerCounts DEF WholeInv
<1>4. AnswerWhole'
  <2>1. late => late'
    BY DEF ServerSide, HandlerStep, ReadMeta, ReadMetaEOF, DoFails, SendText, SendOk,
     SendBody, SendBodyEnd, SendFails, DelayEnds, CopyReturns, CloseTarget, CloseChan,
     UpStep, UpRead, UpWrite, DownStep, DownWrite, CopyEnds, TargetFails, Failing,
     ChannelFails,
     CopyClosesChan, CopyClosesTarget,
     TargetStep, Upload, DoAnswers, Dialled, DownRead, TargetSends, TargetEnds,
     handlerVars
  <2>2. call = "short" => answer' = answer
    BY <1>0, AnswerStays DEF TunnelInv, HeardInv
  <2> QED
    BY <1>0, <2>1, <2>2 DEF WholeInv, AnswerWhole
<1>5. DrainInv'
  <2>1. CASE Undisturbed
    BY <2>1, ServerDrains
  <2>2. CASE ~Undisturbed
    BY <1>0, <2>2, UndisturbedBefore DEF DrainInv
  <2> QED
    BY <2>1, <2>2
<1> QED
  BY <1>1, <1>3, <1>4, <1>5 DEF WholeInv

LEMMA StartsWhole == Init => WholeInv
<1> SUFFICES ASSUME Init PROVE WholeInv
  OBVIOUS
<1>1. TargetFirst /\ CloseOrder /\ AnswerWhole
  BY EndsFacts DEF Init, TargetFirst, CloseOrder, AnswerWhole, Leaving
<1>2. BodyInv /\ DrainInv /\ Arrived = Sent
  BY EndsFacts DEF Init, BodyInv, DrainInv, Copying, Arrived, Sent, One, Answered
<1> QED
  BY <1>1, <1>2, StartsTunnel DEF WholeInv

LEMMA WholeKept == WholeInv /\ [Next]_vars => WholeInv'
<1> SUFFICES ASSUME WholeInv, [Next]_vars PROVE WholeInv'
  OBVIOUS
<1>1. CASE UNCHANGED vars
  <2>1. TunnelInv'
    BY <1>1, TunnelKept DEF WholeInv
  <2>2. UNCHANGED <<req, ctx, call, go, answer, h, target, ended, copy, late, cut, moved,
                    link, closed, serve, pending, pipe>>
    BY <1>1 DEF vars, callVars, handlerVars, chanVars
  <2> QED
    BY <2>1, <2>2 DEF WholeInv, TargetFirst, Undisturbed, CloseOrder, BodyInv, DrainInv,
         AnswerWhole,
       Copying, Broken, Quiet, Arrived, Sent, Answered, Leaving, Tunnel
<1> QED
  BY <1>1, NextSides, ChannelWhole, ClientWhole, ServerWhole

-----------------------------------------------------------------------------
(* Results.                                                                *)

LEMMA WholeAlways == Spec => []WholeInv
BY StartsWhole, WholeKept, PTL DEF Spec

(* A caller never comes to the end of an answer too early but for a target *)
(* that gave no more, a lost tcp-chain, or a wait of 5 seconds that was    *)
(* over before the answer was sent (server_handler.go:416-468).            *)
THEOREM AnswersAreWhole == Spec => []ForwardInv
<1>1. WholeInv => ForwardInv
  BY DEF WholeInv, TunnelInv, ForwardInv
<1> QED
  BY <1>1, WholeAlways, PTL

(* If no wait was too short, all that the target sent is at the client     *)
(* before the client sees the end of a tunnel, and all that has come from  *)
(* the client is written to the target before that is closed, unless a     *)
(* failed write has closed it at once: then the client gets all that was   *)
(* read from it (pipe/io.go:16-31, server_handler.go:157-238).             *)
THEOREM TunnelsAreDrained == Spec => []TunnelWhole
<1>1. ASSUME WholeInv PROVE TunnelWhole
  <2>1. ASSUME Tunnel, call = "ok", closed["client"], link, ~late
        PROVE  moved.downOut + pipe["client"] = IF cut THEN moved.downIn ELSE moved.sent
    <3>1. go = "ok" /\ answer.up
      BY <1>1, <2>1 DEF WholeInv, TunnelInv, HeardInv
    <3>2. Undisturbed
      BY <2>1, <3>1 DEF Undisturbed
    <3>3. moved.downOut + pipe["client"] = moved.downIn
      BY <1>1, <2>1, <3>1, <3>2, EndOfTheWay DEF Broken
    <3>4. closed["server"]
      BY <1>1, <2>1, <3>2, EndsFacts DEF WholeInv, CloseOrder, TunnelInv, ServeInv
    <3>5. Copying /\ target = "closed"
      BY <1>1, <3>1, <3>2, <3>4 DEF WholeInv, CloseOrder, TunnelInv, HeardInv, ShapeInv
    <3> QED
      BY <1>1, <3>2, <3>3, <3>5 DEF WholeInv, DrainInv
  <2>2. Tunnel /\ target = "closed" /\ ~ended /\ ~late /\ ~cut =>
          pipe["server"] = 0 /\ copy.up # "write"
    BY <1>1 DEF WholeInv, TunnelInv, UpInv, Gentle
  <2> QED
    BY <2>1, <2>2 DEF TunnelWhole
<1> QED
  BY <1>1, WholeAlways, PTL

-----------------------------------------------------------------------------
(* WebsocketFraming: what is read from a stream, for any messages and any  *)
(* place where it breaks off.                                              *)

LEMMA FirstOf ==
  ASSUME NEW s \in Seq(Nat), NEW k \in Nat, k <= Len(s)
  PROVE  /\ SubSeq(s, 1, k) \in Seq(Nat) /\ Len(SubSeq(s, 1, k)) = k
         /\ \A j \in 1..k : SubSeq(s, 1, k)[j] = s[j]
<1>1. \A T : \A x \in Seq(T), m \in Nat : m <= Len(x) =>
        /\ SubSeq(x, 1, m) \in Seq(T) /\ Len(SubSeq(x, 1, m)) = m
        /\ \A j \in 1..m : SubSeq(x, 1, m)[j] = x[j]
  OBVIOUS
<1> QED
  BY <1>1

(* A sequence is its first k elements and the rest.                        *)
LEMMA Halves ==
  ASSUME NEW s \in Seq(Nat), NEW k \in Nat, NEW n \in Nat, k <= n, n = Len(s)
  PROVE  /\ SubSeq(s, 1, k) \in Seq(Nat) /\ SubSeq(s, k + 1, n) \in Seq(Nat)
         /\ s = SubSeq(s, 1, k) \o SubSeq(s, k + 1, n)
<1>1. PICK a : a = SubSeq(s, 1, k)
  OBVIOUS
<1>2. PICK b : b = SubSeq(s, k + 1, n)
  OBVIOUS
<1>3. a \in Seq(Nat) /\ Len(a) = k /\ \A j \in 1..k : a[j] = s[j]
  BY <1>1
<1>4. b \in Seq(Nat) /\ Len(b) = n - k /\ \A j \in 1..(n - k) : b[j] = s[k + j]
  <2>1. \A T : \A x \in Seq(T) : \A i, m \in Nat : i <= m /\ m <= Len(x) =>
          /\ SubSeq(x, i + 1, m) \in Seq(T) /\ Len(SubSeq(x, i + 1, m)) = m - i
          /\ \A j \in 1..(m - i) : SubSeq(x, i + 1, m)[j] = x[i + j]
    OBVIOUS
  <2> QED
    BY <1>2, <2>1
<1>5. /\ a \o b \in Seq(Nat) /\ Len(a \o b) = Len(a) + Len(b)
      /\ \A i \in 1..Len(a) : (a \o b)[i] = a[i]
      /\ \A j \in 1..Len(b) : (a \o b)[Len(a) + j] = b[j]
  BY <1>3, <1>4, ConcatAt, SMTT(30)
<1>6. PICK u : u = a \o b
  OBVIOUS
<1>7. /\ u \in Seq(Nat) /\ Len(u) = n
      /\ \A i \in 1..k : u[i] = s[i]
      /\ \A j \in 1..(n - k) : u[k + j] = s[k + j]
  <2>1. u \in Seq(Nat) /\ Len(u) = k + (n - k)
    BY <1>3, <1>4, <1>5, <1>6
  <2>2. k + (n - k) = n
    OBVIOUS
  <2>3. u \in Seq(Nat) /\ Len(u) = n
    BY <2>1, <2>2
  <2>4. \A i \in 1..k : u[i] = s[i]
    BY <1>3, <1>5, <1>6
  <2>5. \A j \in 1..(n - k) : u[k + j] = s[k + j]
    BY <1>3, <1>4, <1>5, <1>6
  <2> QED
    BY <2>3, <2>4, <2>5
<1>8. ASSUME NEW i \in 1..n PROVE u[i] = s[i]
  <2>1. CASE i <= k
    BY <1>7, <2>1
  <2>2. CASE i > k
    <3>1. i - k \in 1..(n - k) /\ k + (i - k) = i
      BY <2>2
    <3>2. u[k + (i - k)] = s[k + (i - k)]
      BY <1>7, <3>1
    <3> QED
      BY <3>1, <3>2
  <2> QED
    BY <2>1, <2>2
<1>9. u = s
  BY <1>7, <1>8
<1> QED
  BY <1>1, <1>2, <1>3, <1>4, <1>6, <1>9

LEMMA AssocNat ==
  ASSUME NEW x \in Seq(Nat), NEW y \in Seq(Nat), NEW z \in Seq(Nat)
  PROVE  x \o (y \o z) = (x \o y) \o z
OBVIOUS

(* Reading fragments.  Behind is where a reader goes on after the fragment *)
(* at i, and Held what it has taken from it.                               *)
Behind(s, i) == IF i + 1 + s[i + 1] <= Len(s) THEN i + 2 + s[i + 1] ELSE Len(s) + 1
Held(s, i) == SubSeq(s, i + 2, Behind(s, i) - 1)
Bodies == [data : Seq(Nat), next : Nat, how : {"eof", "cut", "end"}]

(* A reader goes forward, and stays in the stream.                         *)
LEMMA BehindType ==
  ASSUME NEW s \in Seq(Nat), NEW i \in 1..(Len(s) + 1), i + 1 <= Len(s)
  PROVE  Behind(s, i) \in (i + 2)..(Len(s) + 1) /\ Held(s, i) \in Seq(Nat)
<1>1. PICK n \in Nat : n = s[i + 1]
  OBVIOUS
<1>2. PICK m \in Nat : m = Len(s)
  OBVIOUS
<1>3. Behind(s, i) \in (i + 2)..(Len(s) + 1)
  BY <1>1, <1>2 DEF Behind
<1>4. PICK b \in (i + 2)..(Len(s) + 1) : b = Behind(s, i)
  BY <1>3
<1>5. SubSeq(s, i + 2, b - 1) \in Seq(Nat)
  BY <1>2
<1> QED
  BY <1>4, <1>5 DEF Held

(* The equation of Rest: it is defined for every stream.                   *)
RestStep(f, s, i) ==
  f[i] = IF i + 1 > Len(s)
           THEN [data |-> << >>, next |-> Len(s) + 1,
                 how |-> IF i > Len(s) THEN "eof" ELSE "cut"]
           ELSE IF s[i] = End
             THEN [data |-> Held(s, i), next |-> Behind(s, i), how |-> "end"]
             ELSE [f[Behind(s, i)] EXCEPT !.data = Held(s, i) \o @]

LEMMA RestSolved ==
  ASSUME NEW s \in Seq(Nat)
  PROVE  \E f \in [1..(Len(s) + 1) -> Bodies] :
           \A i \in 1..(Len(s) + 1) : RestStep(f, s, i)
<1> DEFINE P == 1..(Len(s) + 1)
           base == {i \in P : i + 1 > Len(s) \/ s[i] = End}
           val == [i \in base \cap P |->
                     IF i + 1 > Len(s)
                       THEN [data |-> << >>, next |-> Len(s) + 1,
                             how |-> IF i > Len(s) THEN "eof" ELSE "cut"]
                       ELSE [data |-> Held(s, i), next |-> Behind(s, i), how |-> "end"]]
           next == [i \in P \ base |-> Behind(s, i)]
           step == [i \in P \ base |-> [t \in Bodies |-> [t EXCEPT !.data = Held(s, i) \o @]]]
           rank == [i \in P |-> Len(s) + 1 - i]
<1>1. Len(s) \in Nat
  OBVIOUS
<1>2. \A i \in P : i + 1 <= Len(s) =>
        Behind(s, i) \in (i + 2)..(Len(s) + 1) /\ Held(s, i) \in Seq(Nat)
  BY BehindType
<1>3. rank \in [P -> 0..Len(s)] /\ Bodies # {}
  <2>1. \A i \in P : Len(s) + 1 - i \in 0..Len(s)
    BY <1>1
  <2>2. [data |-> << >>, next |-> 0, how |-> "eof"] \in Bodies
    BY DEF Bodies
  <2> QED
    BY <2>1, <2>2
<1>4. val \in [base \cap P -> Bodies]
  <2> SUFFICES ASSUME NEW i \in P, i \in base
               PROVE  (IF i + 1 > Len(s)
                       THEN [data |-> << >>, next |-> Len(s) + 1,
                             how |-> IF i > Len(s) THEN "eof" ELSE "cut"]
                       ELSE [data |-> Held(s, i), next |-> Behind(s, i), how |-> "end"]) \in Bodies
    OBVIOUS
  <2>1. CASE i + 1 > Len(s)
    BY <1>1, <2>1 DEF Bodies
  <2>2. CASE ~(i + 1 > Len(s))
    <3>1. Behind(s, i) \in Nat /\ Held(s, i) \in Seq(Nat)
      BY <1>1, <1>2, <2>2
    <3> QED
      BY <2>2, <3>1 DEF Bodies
  <2> QED
    BY <2>1, <2>2
<1>5. next \in [P \ base -> P] /\ \A i \in P \ base : rank[next[i]] < rank[i]
  <2>1. \A i \in P \ base : Behind(s, i) \in P /\ Behind(s, i) > i
    BY <1>1, <1>2
  <2>2. \A i \in P, j \in P : j > i => Len(s) + 1 - j < Len(s) + 1 - i
    BY <1>1
  <2>3. next \in [P \ base -> P]
    BY <2>1
  <2> QED
    BY <2>1, <2>2, <2>3
<1>6. step \in [P \ base -> [Bodies -> Bodies]]
  <2> SUFFICES ASSUME NEW i \in P \ base, NEW t \in Bodies
               PROVE  [t EXCEPT !.data = Held(s, i) \o @] \in Bodies
    OBVIOUS
  <2>1. Held(s, i) \in Seq(Nat) /\ t.data \in Seq(Nat)
    BY <1>1, <1>2 DEF Bodies
  <2>2. Held(s, i) \o t.data \in Seq(Nat)
    BY <2>1
  <2> QED
    BY <2>2 DEF Bodies
<1>7. PICK f \in [P -> Bodies] : Recurs(f, P, base, val, next, step)
  <2> HIDE DEF P, base, val, next, step, rank
  <2> QED
    BY <1>1, <1>3, <1>4, <1>5, <1>6, Recursion
<1>8. ASSUME NEW i \in P PROVE RestStep(f, s, i)
  <2>1. f[i] = IF i \in base THEN val[i] ELSE step[i][f[next[i]]]
    BY <1>7 DEF Recurs
  <2>2. CASE i \in base
    BY <1>1, <2>1, <2>2 DEF RestStep
  <2>3. CASE i \notin base
    <3>1. next[i] = Behind(s, i) /\ next[i] \in P
      BY <1>5, <2>3
    <3>2. f[next[i]] \in Bodies
      BY <3>1
    <3>3. ~(i + 1 > Len(s)) /\ s[i] # End
      BY <2>3
    <3>4. f[i] = [f[Behind(s, i)] EXCEPT !.data = Held(s, i) \o @]
      BY <2>1, <2>3, <3>1, <3>2
    <3> QED
      BY <3>3, <3>4 DEF RestStep
  <2> QED
    BY <2>2, <2>3
<1> QED
  BY <1>8

(* Whoever satisfies the equation has the type, and goes forward too.      *)
LEMMA RestTyped ==
  ASSUME NEW s \in Seq(Nat), NEW sol, \A i \in 1..(Len(s) + 1) : RestStep(sol, s, i)
  PROVE  \A i \in 1..(Len(s) + 1) : sol[i] \in Bodies /\ sol[i].next \in i..(Len(s) + 1)
<1> DEFINE T == {n \in Nat : \A i \in 1..(Len(s) + 1) :
                   Len(s) + 1 - i < n => sol[i] \in Bodies /\ sol[i].next \in i..(Len(s) + 1)}
<1>1. Len(s) \in Nat
  OBVIOUS
<1>2. 0 \in T
  BY <1>1
<1>3. ASSUME NEW n \in Nat, n \in T PROVE n + 1 \in T
  <2> SUFFICES ASSUME NEW i \in 1..(Len(s) + 1), Len(s) + 1 - i < n + 1
               PROVE  sol[i] \in Bodies /\ sol[i].next \in i..(Len(s) + 1)
    OBVIOUS
  <2>1. RestStep(sol, s, i)
    OBVIOUS
  <2>2. CASE i + 1 > Len(s)
    <3>1. sol[i] = [data |-> << >>, next |-> Len(s) + 1,
                  how |-> IF i > Len(s) THEN "eof" ELSE "cut"]
      BY <2>1, <2>2 DEF RestStep
    <3> QED
      BY <1>1, <3>1 DEF Bodies
  <2>3. CASE ~(i + 1 > Len(s))
    <3>1. Behind(s, i) \in (i + 2)..(Len(s) + 1) /\ Held(s, i) \in Seq(Nat)
      BY <1>1, <2>3, BehindType
    <3>2. PICK b \in (i + 2)..(Len(s) + 1) : b = Behind(s, i)
      BY <3>1
    <3>3. CASE s[i] = End
      <4>1. sol[i] = [data |-> Held(s, i), next |-> b, how |-> "end"]
        BY <2>1, <2>3, <3>2, <3>3 DEF RestStep
      <4> QED
        BY <1>1, <3>1, <4>1 DEF Bodies
    <3>4. CASE s[i] # End
      <4>1. sol[i] = [sol[b] EXCEPT !.data = Held(s, i) \o @]
        BY <2>1, <2>3, <3>2, <3>4 DEF RestStep
      <4>2. b \in 1..(Len(s) + 1) /\ Len(s) + 1 - b < n
        BY <1>1
      <4>3. sol[b] \in Bodies /\ sol[b].next \in b..(Len(s) + 1)
        BY <1>3, <4>2
      <4>4. Held(s, i) \o sol[b].data \in Seq(Nat)
        BY <3>1, <4>3 DEF Bodies
      <4>5. sol[i] \in Bodies /\ sol[i].next = sol[b].next
        BY <4>1, <4>3, <4>4 DEF Bodies
      <4> QED
        BY <1>1, <4>3, <4>5
    <3> QED
      BY <3>3, <3>4
  <2> QED
    BY <2>2, <2>3
<1>4. \A n \in Nat : n \in T
  <2> HIDE DEF T
  <2> QED
    BY <1>2, <1>3, Induction
<1>5. Len(s) + 1 \in T
  BY <1>1, <1>4
<1> QED
  BY <1>1, <1>5

LEMMA RestIs ==
  ASSUME NEW s \in Seq(Nat)
  PROVE  /\ Rest(s) \in [1..(Len(s) + 1) -> Bodies]
         /\ \A i \in 1..(Len(s) + 1) :
              RestStep(Rest(s), s, i) /\ Rest(s)[i].next \in i..(Len(s) + 1)
<1>1. PICK f \in [1..(Len(s) + 1) -> Bodies] : \A i \in 1..(Len(s) + 1) : RestStep(f, s, i)
  BY RestSolved
<1> DEFINE Eq(sol) ==
      sol = [i \in 1..(Len(s) + 1) |->
        IF i + 1 > Len(s)
          THEN [data |-> << >>, next |-> Len(s) + 1,
                how |-> IF i > Len(s) THEN "eof" ELSE "cut"]
          ELSE LET stop == i + 1 + s[i + 1]
                   next == IF stop <= Len(s) THEN stop + 1 ELSE Len(s) + 1
                   data == SubSeq(s, i + 2, next - 1)
               IN  IF s[i] = End
                     THEN [data |-> data, next |-> next, how |-> "end"]
                     ELSE [sol[next] EXCEPT !.data = data \o @]]
    sol == CHOOSE sol : Eq(sol)
<1>2. Rest(s) = sol
  BY DEF Rest
<1>3. ASSUME NEW i \in 1..(Len(s) + 1), i + 1 <= Len(s)
      PROVE  LET stop == i + 1 + s[i + 1]
                 next == IF stop <= Len(s) THEN stop + 1 ELSE Len(s) + 1
             IN  next = Behind(s, i) /\ SubSeq(s, i + 2, next - 1) = Held(s, i)
  <2>1. PICK n \in Nat : n = s[i + 1]
    BY <1>3
  <2>2. (i + 1 + n) + 1 = i + 2 + n
    OBVIOUS
  <2> QED
    BY <2>1, <2>2 DEF Behind, Held
<1>4. Eq(f)
  <2>1. ASSUME NEW i \in 1..(Len(s) + 1)
        PROVE  f[i] =
          IF i + 1 > Len(s)
          THEN [data |-> << >>, next |-> Len(s) + 1,
                how |-> IF i > Len(s) THEN "eof" ELSE "cut"]
          ELSE LET stop == i + 1 + s[i + 1]
                   next == IF stop <= Len(s) THEN stop + 1 ELSE Len(s) + 1
                   data == SubSeq(s, i + 2, next - 1)
               IN  IF s[i] = End
                     THEN [data |-> data, next |-> next, how |-> "end"]
                     ELSE [f[next] EXCEPT !.data = data \o @]
    <3>1. RestStep(f, s, i)
      BY <1>1
    <3>2. CASE i + 1 > Len(s)
      BY <3>1, <3>2 DEF RestStep
    <3>3. CASE ~(i + 1 > Len(s))
      <4>1. i + 1 <= Len(s)
        BY <3>3, SMTT(30)
      <4> QED
        BY <1>3, <3>1, <3>3, <4>1, Zenon DEF RestStep
    <3> QED
      BY <3>2, <3>3
  <2> QED
    BY <2>1
<1>5. Eq(sol)
  BY <1>4
<1>6. ASSUME NEW i \in 1..(Len(s) + 1) PROVE RestStep(sol, s, i)
  <2>1. sol[i] =
          IF i + 1 > Len(s)
          THEN [data |-> << >>, next |-> Len(s) + 1,
                how |-> IF i > Len(s) THEN "eof" ELSE "cut"]
          ELSE LET stop == i + 1 + s[i + 1]
                   next == IF stop <= Len(s) THEN stop + 1 ELSE Len(s) + 1
                   data == SubSeq(s, i + 2, next - 1)
               IN  IF s[i] = End
                     THEN [data |-> data, next |-> next, how |-> "end"]
                     ELSE [sol[next] EXCEPT !.data = data \o @]
    <3> HIDE DEF sol
    <3> QED
      BY <1>5
  <2> HIDE DEF sol
  <2>2. CASE i + 1 > Len(s)
    BY <2>1, <2>2 DEF RestStep
  <2>3. CASE ~(i + 1 > Len(s))
    <3>1. i + 1 <= Len(s)
      BY <2>3
    <3> QED
      BY <1>3, <2>1, <2>3, <3>1, Zenon DEF RestStep
  <2> QED
    BY <2>2, <2>3
<1>7. sol \in [1..(Len(s) + 1) -> Bodies]
  <2> HIDE DEF sol
  <2>1. \A i \in 1..(Len(s) + 1) : sol[i] \in Bodies
    BY <1>6, RestTyped
  <2>2. sol = [i \in 1..(Len(s) + 1) |-> sol[i]]
    BY <1>5
  <2> QED
    BY <2>1, <2>2
<1> HIDE DEF sol
<1>8. \A i \in 1..(Len(s) + 1) : sol[i].next \in i..(Len(s) + 1)
  BY <1>6, RestTyped
<1> QED
  BY <1>2, <1>6, <1>7, <1>8
(* The equation of Messages.                                               *)
MessageStep(f, s, known, i) ==
  f[i] = IF i + 2 > Len(s) \/ (i <= Len(s) /\ s[i] \notin known)
           THEN << >>
           ELSE <<[t |-> s[i], data |-> Rest(s)[i + 1].data, how |-> Rest(s)[i + 1].how]>>
                  \o f[Rest(s)[i + 1].next]

LEMMA MessagesAre ==
  ASSUME NEW s \in Seq(Nat), NEW known
  PROVE  \E f : /\ Messages(s, known) = f[1]
                /\ \A i \in 1..(Len(s) + 1) : MessageStep(f, s, known, i)
<1> DEFINE P == 1..(Len(s) + 1)
           base == {i \in P : i + 2 > Len(s) \/ (i <= Len(s) /\ s[i] \notin known)}
           msg(i) == [t |-> s[i], data |-> Rest(s)[i + 1].data, how |-> Rest(s)[i + 1].how]
           Got == [t : Nat, data : Seq(Nat), how : {"eof", "cut", "end"}]
           T == Seq(Got)
           val == [i \in base \cap P |-> << >>]
           next == [i \in P \ base |-> Rest(s)[i + 1].next]
           step == [i \in P \ base |-> [t \in T |-> <<msg(i)>> \o t]]
           rank == [i \in P |-> Len(s) + 1 - i]
<1>1. Len(s) \in Nat
  OBVIOUS
<1>2. /\ Rest(s) \in [P -> Bodies]
      /\ \A i \in P : Rest(s)[i].next \in i..(Len(s) + 1)
  BY RestIs
<1>3. rank \in [P -> 0..Len(s)] /\ T # {}
  <2>1. \A i \in P : Len(s) + 1 - i \in 0..Len(s)
    BY <1>1
  <2>2. << >> \in T
    OBVIOUS
  <2> QED
    BY <2>1, <2>2
<1>4. val \in [base \cap P -> T]
  OBVIOUS
<1>5. ASSUME NEW i \in P \ base
      PROVE  msg(i) \in Got /\ Rest(s)[i + 1].next \in P /\ Rest(s)[i + 1].next > i
  <2>1. i + 1 \in P /\ i \in 1..Len(s)
    BY <1>1
  <2>2. PICK r : r = Rest(s)[i + 1]
    OBVIOUS
  <2>3. r \in Bodies /\ r.next \in (i + 1)..(Len(s) + 1)
    BY <1>2, <2>1, <2>2
  <2>4. s[i] \in Nat
    BY <2>1
  <2> QED
    BY <1>1, <2>2, <2>3, <2>4 DEF Bodies
<1>6. next \in [P \ base -> P] /\ \A i \in P \ base : rank[next[i]] < rank[i]
  <2>1. \A i \in P, j \in P : j > i => Len(s) + 1 - j < Len(s) + 1 - i
    BY <1>1
  <2>2. next \in [P \ base -> P]
    BY <1>5
  <2> QED
    BY <1>5, <2>1, <2>2
<1>7. step \in [P \ base -> [T -> T]]
  <2> SUFFICES ASSUME NEW i \in P \ base, NEW t \in T PROVE <<msg(i)>> \o t \in T
    OBVIOUS
  <2>1. PICK m \in Got : m = msg(i)
    BY <1>5
  <2> HIDE DEF msg, Got, base
  <2> QED
    BY <2>1
<1>8. PICK f \in [P -> T] : Recurs(f, P, base, val, next, step)
  <2> HIDE DEF P, base, val, next, step, rank, T, Got
  <2> QED
    BY <1>1, <1>3, <1>4, <1>6, <1>7, Recursion
<1>9. ASSUME NEW i \in P PROVE MessageStep(f, s, known, i)
  <2>1. f[i] = IF i \in base THEN val[i] ELSE step[i][f[next[i]]]
    BY <1>8 DEF Recurs
  <2>2. CASE i \in base
    BY <2>1, <2>2 DEF MessageStep
  <2>3. CASE i \notin base
    <3>1. next[i] = Rest(s)[i + 1].next /\ next[i] \in P
      BY <1>6, <2>3
    <3>2. f[next[i]] \in T
      BY <3>1
    <3>3. f[i] = <<msg(i)>> \o f[Rest(s)[i + 1].next]
      <4> HIDE DEF msg, T
      <4> QED
        BY <2>1, <2>3, <3>1, <3>2
    <3> QED
      BY <2>3, <3>3 DEF MessageStep
  <2> QED
    BY <2>2, <2>3
<1> DEFINE Eq(sol) ==
      sol = [i \in 1..(Len(s) + 1) |->
        IF i + 2 > Len(s) \/ (i <= Len(s) /\ s[i] \notin known)
          THEN << >>
          ELSE <<[t |-> s[i], data |-> Rest(s)[i + 1].data, how |-> Rest(s)[i + 1].how]>>
                 \o sol[Rest(s)[i + 1].next]]
    sol == CHOOSE sol : Eq(sol)
<1>10. Eq(f)
  BY <1>9, SMTT(30) DEF MessageStep
<1>11. Eq(sol)
  BY <1>10
<1>12. Messages(s, known) = sol[1]
  BY DEF Messages
<1> HIDE DEF sol
<1>13. \A i \in P : MessageStep(sol, s, known, i)
  BY <1>11 DEF MessageStep
<1> QED
  BY <1>12, <1>13
-----------------------------------------------------------------------------
(* What stands in a stream, whole or cut off by its end, and carries data: *)
(* whole it is read as the data and what follows, cut off as a beginning   *)
(* of the data without an end.                                             *)

Stands(a, s, i) ==
  \A j \in 1..Len(a) : i + j - 1 <= Len(s) => s[i + j - 1] = a[j]

BeginningOf(x, d) == \E y \in Seq(Nat) : d = x \o y

CarriedAt(s, i, len, d) ==
  IF i + len <= Len(s) + 1
    THEN /\ Rest(s)[i].data = d \o Rest(s)[i + len].data
         /\ Rest(s)[i].next = Rest(s)[i + len].next
         /\ Rest(s)[i].how = Rest(s)[i + len].how
    ELSE /\ Rest(s)[i].next = Len(s) + 1
         /\ Rest(s)[i].how # "end"
         /\ BeginningOf(Rest(s)[i].data, d)

Carries(a, d) ==
  /\ a \in Seq(Nat) /\ d \in Seq(Nat)
  /\ \A s \in Seq(Nat) : \A i \in 1..(Len(s) + 1) :
       Stands(a, s, i) => CarriedAt(s, i, Len(a), d)

LEMMA NothingCarries == Carries(<< >>, << >>)
<1>1. << >> \in Seq(Nat) /\ Len(<< >>) = 0
  OBVIOUS
<1>2. ASSUME NEW s \in Seq(Nat), NEW i \in 1..(Len(s) + 1) PROVE CarriedAt(s, i, Len(<< >>), << >>)
  <2>1. Len(s) \in Nat
    OBVIOUS
  <2>2. i + Len(<< >>) = i /\ i <= Len(s) + 1
    BY <1>1, <2>1
  <2>3. Rest(s)[i].data \in Seq(Nat)
    BY RestIs DEF Bodies
  <2>4. << >> \o Rest(s)[i].data = Rest(s)[i].data
    BY <2>3, ConcatNothing
  <2> QED
    BY <2>2, <2>4 DEF CarriedAt
<1> QED
  BY <1>1, <1>2 DEF Carries

(* What stands there as one, stands there as two.                          *)
LEMMA StandsTwo ==
  ASSUME NEW a \in Seq(Nat), NEW b \in Seq(Nat), NEW s \in Seq(Nat), NEW i \in Nat,
         Stands(a \o b, s, i)
  PROVE  Stands(a, s, i) /\ Stands(b, s, i + Len(a))
<1>1. /\ Len(a) \in Nat /\ Len(b) \in Nat
      /\ Len(a \o b) = Len(a) + Len(b)
      /\ \A k \in 1..Len(a) : (a \o b)[k] = a[k]
      /\ \A j \in 1..Len(b) : (a \o b)[Len(a) + j] = b[j]
  BY ConcatAt
<1>2. ASSUME NEW j \in 1..Len(a), i + j - 1 <= Len(s) PROVE s[i + j - 1] = a[j]
  <2>1. j \in 1..Len(a \o b)
    BY <1>1
  <2>2. s[i + j - 1] = (a \o b)[j]
    BY <1>2, <2>1 DEF Stands
  <2> QED
    BY <1>1, <2>2
<1>3. ASSUME NEW j \in 1..Len(b), i + Len(a) + j - 1 <= Len(s) PROVE s[i + Len(a) + j - 1] = b[j]
  <2>1. Len(a) + j \in 1..Len(a \o b) /\ i + (Len(a) + j) - 1 = i + Len(a) + j - 1
    BY <1>1
  <2>2. s[i + (Len(a) + j) - 1] = (a \o b)[Len(a) + j]
    BY <1>3, <2>1 DEF Stands
  <2> QED
    BY <1>1, <2>1, <2>2
<1> QED
  BY <1>2, <1>3 DEF Stands

LEMMA BeginningConcat ==
  ASSUME NEW x \in Seq(Nat), NEW d \in Seq(Nat), NEW e \in Seq(Nat)
  PROVE  /\ BeginningOf(x, d) => BeginningOf(x, d \o e)
         /\ BeginningOf(x, e) => BeginningOf(d \o x, d \o e)
<1>1. ASSUME NEW y \in Seq(Nat), d = x \o y PROVE BeginningOf(x, d \o e)
  <2>1. x \o (y \o e) = (x \o y) \o e
    BY SMTT(30)
  <2>2. y \o e \in Seq(Nat)
    OBVIOUS
  <2>3. d \o e = x \o (y \o e)
    BY <1>1, <2>1, Zenon
  <2> QED
    BY <2>2, <2>3 DEF BeginningOf
<1>2. ASSUME NEW y \in Seq(Nat), e = x \o y PROVE BeginningOf(d \o x, d \o e)
  <2>1. d \o e = (d \o x) \o y
    BY <1>2, ConcatAssoc, SMTT(30)
  <2> QED
    BY <2>1 DEF BeginningOf
<1> QED
  BY <1>1, <1>2 DEF BeginningOf

LEMMA CarriesConcat ==
  ASSUME NEW a, NEW b, NEW d, NEW e, Carries(a, d), Carries(b, e)
  PROVE  Carries(a \o b, d \o e)
<1>1. a \in Seq(Nat) /\ b \in Seq(Nat) /\ d \in Seq(Nat) /\ e \in Seq(Nat)
  BY DEF Carries
<1>2. /\ a \o b \in Seq(Nat) /\ d \o e \in Seq(Nat) /\ Len(a) \in Nat /\ Len(b) \in Nat
      /\ Len(a \o b) = Len(a) + Len(b)
  BY <1>1, ConcatAt
<1>3. ASSUME NEW s \in Seq(Nat), NEW i \in 1..(Len(s) + 1), Stands(a \o b, s, i)
      PROVE  CarriedAt(s, i, Len(a \o b), d \o e)
  <2>1. Stands(a, s, i) /\ Stands(b, s, i + Len(a))
    BY <1>1, <1>3, StandsTwo
  <2>2. CarriedAt(s, i, Len(a), d)
    BY <2>1 DEF Carries
  <2>3. Len(s) \in Nat
    OBVIOUS
  <2>4. Rest(s)[i].data \in Seq(Nat)
    BY RestIs DEF Bodies
  <2>5. CASE ~(i + Len(a) <= Len(s) + 1)
    <3>1. ~(i + Len(a \o b) <= Len(s) + 1)
      BY <1>2, <2>3, <2>5
    <3>2. BeginningOf(Rest(s)[i].data, d)
      BY <2>2, <2>5 DEF CarriedAt
    <3>3. BeginningOf(Rest(s)[i].data, d \o e)
      BY <1>1, <2>4, <3>2, BeginningConcat
    <3> QED
      BY <2>2, <2>5, <3>1, <3>3 DEF CarriedAt
  <2>6. CASE i + Len(a) <= Len(s) + 1
    <3>1. PICK k \in 1..(Len(s) + 1) : k = i + Len(a)
      BY <1>2, <2>3, <2>6
    <3>2. CarriedAt(s, k, Len(b), e)
      BY <2>1, <3>1 DEF Carries
    <3>3. Rest(s)[k].data \in Seq(Nat)
      BY RestIs DEF Bodies
    <3>4. /\ Rest(s)[i].data = d \o Rest(s)[k].data
          /\ Rest(s)[i].next = Rest(s)[k].next
          /\ Rest(s)[i].how = Rest(s)[k].how
      BY <2>2, <2>6, <3>1 DEF CarriedAt
    <3>5. k + Len(b) = i + Len(a \o b)
      BY <1>2, <3>1
    <3>6. CASE k + Len(b) <= Len(s) + 1
      <4>1. PICK l \in 1..(Len(s) + 1) : l = k + Len(b)
        BY <1>2, <2>3, <3>6
      <4>2. /\ Rest(s)[k].data = e \o Rest(s)[l].data
            /\ Rest(s)[k].next = Rest(s)[l].next
            /\ Rest(s)[k].how = Rest(s)[l].how
        BY <3>2, <3>6, <4>1 DEF CarriedAt
      <4>3. Rest(s)[l].data \in Seq(Nat)
        BY RestIs DEF Bodies
      <4>4. d \o (e \o Rest(s)[l].data) = (d \o e) \o Rest(s)[l].data
        <5>1. PICK u \in Seq(Nat) : u = Rest(s)[l].data
          BY <4>3
        <5>2. d \o (e \o u) = (d \o e) \o u
          BY <1>1, AssocNat, ZenonT(40)
        <5> QED
          BY <5>1, <5>2, Zenon
      <4> QED
        BY <3>4, <3>5, <3>6, <4>1, <4>2, <4>4, Zenon DEF CarriedAt
    <3>7. CASE ~(k + Len(b) <= Len(s) + 1)
      <4>1. /\ Rest(s)[k].next = Len(s) + 1 /\ Rest(s)[k].how # "end"
            /\ BeginningOf(Rest(s)[k].data, e)
        BY <3>2, <3>7 DEF CarriedAt
      <4>2. BeginningOf(d \o Rest(s)[k].data, d \o e)
        BY <1>1, <3>3, <4>1, BeginningConcat
      <4> QED
        BY <3>4, <3>5, <3>7, <4>1, <4>2, Zenon DEF CarriedAt
    <3> QED
      BY <3>6, <3>7
  <2> QED
    BY <2>5, <2>6
<1> QED
  BY <1>2, <1>3 DEF Carries

LEMMA FirstPart ==
  ASSUME NEW p \in Seq(Nat), NEW k \in Nat, k <= Len(p) PROVE BeginningOf(SubSeq(p, 1, k), p)
<1>1. PICK n \in Nat : n = Len(p)
  OBVIOUS
<1>2. k <= n
  BY <1>1
<1>3. SubSeq(p, k + 1, n) \in Seq(Nat) /\ p = SubSeq(p, 1, k) \o SubSeq(p, k + 1, n)
  BY <1>1, <1>2, Halves, Zenon
<1> QED
  BY <1>3 DEF BeginningOf

(* One fragment.                                                           *)
LEMMA FragmentCarries ==
  ASSUME NEW p \in Seq(Nat)
  PROVE  Carries(FragmentHeader(More, Len(p)) \o p, p)
<1> DEFINE a == FragmentHeader(More, Len(p)) \o p
<1>1. PICK n \in Nat : n = Len(p)
  OBVIOUS
<1>2. /\ a \in Seq(Nat) /\ Len(a) = n + 2 /\ a[1] = More /\ a[2] = n
      /\ \A j \in 1..n : a[2 + j] = p[j]
  <2>1. FragmentHeader(More, Len(p)) = <<0, n>> /\ <<0, n>> \in Seq(Nat) /\ Len(<<0, n>>) = 2
        /\ <<0, n>>[1] = 0 /\ <<0, n>>[2] = n
    BY <1>1 DEF FragmentHeader, More
  <2>2. PICK hd \in Seq(Nat) : hd = FragmentHeader(More, Len(p)) /\ Len(hd) = 2 /\ hd[1] = 0 /\ hd[2] = n
    BY <2>1
  <2>3. /\ hd \o p \in Seq(Nat) /\ Len(hd \o p) = Len(hd) + Len(p)
        /\ \A i \in 1..Len(hd) : (hd \o p)[i] = hd[i]
        /\ \A j \in 1..Len(p) : (hd \o p)[Len(hd) + j] = p[j]
    BY ConcatAt
  <2>4. (hd \o p)[1] = 0 /\ (hd \o p)[2] = n
    BY <2>2, <2>3
  <2> QED
    <3>1. PICK full : full = hd \o p
      OBVIOUS
    <3>2. /\ full \in Seq(Nat) /\ Len(full) = n + 2 /\ full[1] = 0 /\ full[2] = n
          /\ \A j \in 1..n : full[2 + j] = p[j]
      <4>1. Len(hd) = 2 /\ 2 + n = n + 2
        BY <2>2
      <4> QED
        BY <1>1, <2>3, <2>4, <3>1, <4>1
    <3>3. a = full /\ More = 0
      BY <2>2, <3>1 DEF More
    <3> HIDE DEF a
    <3> QED
      BY <3>2, <3>3
<1> HIDE DEF a
<1>3. ASSUME NEW s \in Seq(Nat), NEW i \in 1..(Len(s) + 1), Stands(a, s, i)
      PROVE  CarriedAt(s, i, Len(a), p)
  <2>1. PICK m \in Nat : m = Len(s)
    OBVIOUS
  <2>2. RestStep(Rest(s), s, i) /\ Rest(s)[i] \in Bodies
    BY RestIs
  <2>3. \A j \in 1..(n + 2) : i + j - 1 <= m => s[i + j - 1] = a[j]
    BY <1>2, <1>3, <2>1 DEF Stands
  <2>4. CASE i + 1 > m
    <3>1. Rest(s)[i] = [data |-> << >>, next |-> m + 1, how |-> IF i > m THEN "eof" ELSE "cut"]
      BY <2>1, <2>2, <2>4 DEF RestStep
    <3>2. << >> \o p = p /\ BeginningOf(<< >>, p)
      BY ConcatNothing DEF BeginningOf
    <3>3. ~(i + Len(a) <= m + 1)
      BY <1>2, <2>4
    <3> QED
      BY <2>1, <3>1, <3>2, <3>3 DEF CarriedAt
  <2>5. CASE ~(i + 1 > m)
    <3>1. s[i] = More /\ s[i + 1] = n /\ More # End
      <4>1. 1 \in 1..(n + 2) /\ 2 \in 1..(n + 2) /\ i + 1 - 1 = i /\ i + 2 - 1 = i + 1
            /\ i <= m /\ i + 1 <= m
        BY <2>5
      <4>2. s[i + 1 - 1] = a[1] /\ s[i + 2 - 1] = a[2]
        BY <2>3, <4>1
      <4> QED
        BY <1>2, <4>1, <4>2 DEF More, End
    <3>2. PICK b : b = Behind(s, i)
      OBVIOUS
    <3>3. b = IF i + 1 + n <= m THEN i + 2 + n ELSE m + 1
      BY <2>1, <3>1, <3>2 DEF Behind
    <3>4. b \in 1..(m + 1)
      BY <2>5, <3>3
    <3>5. Rest(s)[b] \in Bodies /\ RestStep(Rest(s), s, b)
      BY <2>1, <3>4, RestIs
    <3>6. Held(s, i) = SubSeq(s, i + 2, b - 1)
      BY <3>2 DEF Held
    <3>7. Rest(s)[i] = [Rest(s)[b] EXCEPT !.data = Held(s, i) \o @]
      BY <2>1, <2>2, <2>5, <3>1, <3>2 DEF RestStep
    <3>8. /\ Rest(s)[i].data = Held(s, i) \o Rest(s)[b].data
          /\ Rest(s)[i].next = Rest(s)[b].next
          /\ Rest(s)[i].how = Rest(s)[b].how
      BY <3>5, <3>7 DEF Bodies
    <3>9. \A j \in 1..n : i + 1 + j <= m => s[i + 1 + j] = p[j]
      <4> TAKE j \in 1..n
      <4> HAVE i + 1 + j <= m
      <4>1. 2 + j \in 1..(n + 2) /\ i + (2 + j) - 1 = i + 1 + j
        OBVIOUS
      <4>2. s[i + (2 + j) - 1] = a[2 + j]
        BY <2>3, <4>1
      <4> QED
        BY <1>2, <4>1, <4>2
    <3>10. CASE i + 1 + n <= m
      <4>1. b = i + Len(a) /\ i + Len(a) <= m + 1
        BY <1>2, <3>3, <3>10
      <4>2. SubSeq(s, (i + 1) + 1, (i + 1) + Len(p)) = p
        <5>1. i + 1 \in Nat /\ (i + 1) + Len(p) <= Len(s)
          BY <1>1, <2>1, <3>10
        <5>2. \A j \in 1..Len(p) : s[(i + 1) + j] = p[j]
          BY <1>1, <3>9, <3>10
        <5> QED
          BY <5>1, <5>2, SubSeqIs
      <4>3. (i + 1) + 1 = i + 2 /\ (i + 1) + Len(p) = b - 1
        BY <1>1, <3>3, <3>10
      <4>4. Held(s, i) = p
        BY <3>6, <4>2, <4>3
      <4> QED
        BY <2>1, <3>8, <4>1, <4>4 DEF CarriedAt
    <3>11. CASE ~(i + 1 + n <= m)
      <4>1. b = m + 1 /\ ~(i + Len(a) <= m + 1)
        BY <1>2, <3>3, <3>11
      <4>2. Rest(s)[b] = [data |-> << >>, next |-> m + 1, how |-> "eof"]
        BY <2>1, <3>5, <4>1 DEF RestStep
      <4>3. PICK k \in 0..n : (i + 1) + k = m
        <5>1. m - (i + 1) \in 0..n /\ (i + 1) + (m - (i + 1)) = m
          BY <2>1, <2>5, <3>11
        <5> QED
          BY <5>1
      <4>4. SubSeq(p, 1, k) \in Seq(Nat) /\ Len(SubSeq(p, 1, k)) = k
            /\ \A j \in 1..k : SubSeq(p, 1, k)[j] = p[j]
        <5>1. k \in Nat /\ k <= Len(p)
          BY <1>1
        <5> QED
          BY <5>1, FirstOf
      <4>5. PICK v \in Seq(Nat) : v = SubSeq(p, 1, k) /\ Len(v) = k /\ \A j \in 1..k : v[j] = p[j]
        BY <4>4
      <4>6. SubSeq(s, (i + 1) + 1, (i + 1) + Len(v)) = v
        <5>1. i + 1 \in Nat /\ (i + 1) + Len(v) <= Len(s)
          BY <2>1, <4>3, <4>5
        <5>2. \A j \in 1..Len(v) : s[(i + 1) + j] = v[j]
          <6> TAKE j \in 1..Len(v)
          <6>1. j \in 1..k /\ j \in 1..n
            BY <4>5
          <6>2. i + 1 + j <= m
            BY <4>3, <6>1
          <6>3. s[i + 1 + j] = p[j]
            BY <3>9, <6>1, <6>2
          <6> QED
            BY <4>5, <6>1, <6>3
        <5> QED
          BY <5>1, <5>2, SubSeqIs
      <4>7. (i + 1) + 1 = i + 2 /\ (i + 1) + Len(v) = b - 1
        BY <4>1, <4>3, <4>5
      <4>8. Held(s, i) = v
        BY <3>6, <4>6, <4>7
      <4>9. BeginningOf(v, p)
        <5>1. k \in Nat /\ k <= n
          OBVIOUS
        <5>2. BeginningOf(SubSeq(p, 1, k), p)
          BY <1>1, <5>1, FirstPart
        <5> QED
          BY <4>5, <5>2
      <4>10. v \o << >> = v
        BY <4>5, ConcatNothing
      <4>11. Rest(s)[i].data = v /\ Rest(s)[i].next = m + 1 /\ Rest(s)[i].how = "eof"
        BY <3>8, <4>2, <4>8, <4>10
      <4> QED
        BY <2>1, <4>1, <4>9, <4>11 DEF CarriedAt
    <3> QED
      BY <3>10, <3>11
  <2> QED
    BY <2>4, <2>5
<1>4. Carries(a, p)
  BY <1>2, <1>3 DEF Carries
<1> QED
  BY <1>4 DEF a
LEMMA CarriesFlatten ==
  ASSUME NEW enc \in Seq(Seq(Nat)), NEW parts \in Seq(Seq(Nat)), NEW N \in Nat,
         Len(enc) = N, Len(parts) = N, \A k \in 1..N : Carries(enc[k], parts[k])
  PROVE  Carries(FlattenSeq(enc), FlattenSeq(parts))
<1>1. PICK g : Accumulates(g, enc)
  BY FlattenAccumulates
<1>2. PICK d : Accumulates(d, parts)
  BY FlattenAccumulates
<1>3. FlattenSeq(enc) = g[N] /\ FlattenSeq(parts) = d[N]
  <2>1. FlattenSeq(enc) = g[Len(enc)]
    BY <1>1, FlattenIs
  <2>2. FlattenSeq(parts) = d[Len(parts)]
    BY <1>2, FlattenIs
  <2> QED
    BY <2>1, <2>2
<1> DEFINE T == {k \in Nat : k <= N => Carries(g[k], d[k])}
<1>4. 0 \in T
  BY <1>1, <1>2, NothingCarries DEF Accumulates
<1>5. ASSUME NEW k \in Nat, k \in T PROVE k + 1 \in T
  <2> SUFFICES ASSUME k + 1 <= N PROVE Carries(g[k + 1], d[k + 1])
    OBVIOUS
  <2>1. k + 1 \in 1..N /\ (k + 1) - 1 = k
    OBVIOUS
  <2>2. g[k + 1] = g[(k + 1) - 1] \o enc[k + 1]
    BY <1>1, <2>1 DEF Accumulates
  <2>3. d[k + 1] = d[(k + 1) - 1] \o parts[k + 1]
    BY <1>2, <2>1 DEF Accumulates
  <2>4. Carries(g[k], d[k])
    BY <1>5
  <2>5. Carries(enc[k + 1], parts[k + 1])
    BY <2>1
  <2>6. Carries(g[k] \o enc[k + 1], d[k] \o parts[k + 1])
    BY <2>4, <2>5, CarriesConcat
  <2> QED
    BY <2>1, <2>2, <2>3, <2>6
<1>6. \A k \in Nat : k \in T
  <2> HIDE DEF T
  <2> QED
    BY <1>4, <1>5, Induction
<1> QED
  BY <1>3, <1>6

(* A slice in as many fragments as it takes.                               *)
LEMMA Division ==
  ASSUME NEW a \in Nat, NEW M \in Nat \ {0}
  PROVE  a \div M \in Nat /\ (a \div M) * M <= a /\ a < (a \div M) * M + M
OBVIOUS

LEMMA Times ==
  ASSUME NEW a \in Nat, NEW b \in Nat, NEW M \in Nat, a <= b
  PROVE  a * M <= b * M /\ a * M \in Nat
OBVIOUS

LEMMA FragmentsCarry ==
  ASSUME NEW s \in Seq(Nat) PROVE Carries(Fragments(s), s)
<1>1. PICK n \in Nat : n = Len(s)
  OBVIOUS
<1>2. PICK M \in Nat \ {0} : M = MaxUint16
  BY FragmentAssumption
<1>3. PICK N : N = (n + M - 1) \div M
  OBVIOUS
<1>4. N \in Nat /\ n <= N * M /\ \A i \in Nat : i < N => i * M \in Nat /\ i * M <= n /\ i * M + M = (i + 1) * M
  <2>1. n + M - 1 \in Nat
    OBVIOUS
  <2>2. N \in Nat /\ N * M <= n + M - 1 /\ n + M - 1 < N * M + M
    BY <1>3, <2>1, Division
  <2>3. PICK q : q = N * M
    OBVIOUS
  <2>4. q \in Nat /\ q <= n + M - 1 /\ n <= q
    <3>1. q \in Nat
      BY <2>2, <2>3
    <3>2. q <= n + M - 1 /\ n + M - 1 < q + M
      BY <2>2, <2>3
    <3> QED
      BY <3>1, <3>2
  <2>5. ASSUME NEW i \in Nat, i < N PROVE i * M \in Nat /\ i * M <= n /\ i * M + M = (i + 1) * M
    <3>1. i * M \in Nat /\ i * M + M = (i + 1) * M
      OBVIOUS
    <3>2. (i + 1) * M <= N * M
      <4>1. i + 1 \in Nat /\ i + 1 <= N
        BY <2>2, <2>5
      <4> QED
        BY <2>2, <4>1, Times
    <3>3. PICK r \in Nat : r = i * M
      BY <3>1
    <3>4. r + M <= q
      BY <2>3, <3>1, <3>2, <3>3
    <3>5. r <= n
      BY <2>4, <3>4
    <3> QED
      BY <3>1, <3>3, <3>5
  <2> QED
    BY <2>2, <2>3, <2>4, <2>5
<1> DEFINE Upto(i) == IF i = N THEN n ELSE i * M
           Piece(i) == SubSeq(s, (i - 1) * M + 1, Upto(i))
           Frame(i) == FragmentHeader(More, Len(Piece(i))) \o Piece(i)
           frames == [i \in 1..N |-> Frame(i)]
           pieces == [i \in 1..N |-> Piece(i)]
           g == [i \in 0..N |-> SubSeq(s, 1, Upto(i))]
<1>5. Fragments(s) = FlattenSeq(frames)
  BY <1>1, <1>2, <1>3 DEF Fragments
<1>6. ASSUME NEW i \in 1..N
      PROVE  /\ Piece(i) \in Seq(Nat)
             /\ SubSeq(s, 1, Upto(i - 1)) \o Piece(i) = SubSeq(s, 1, Upto(i))
  <2>1. PICK p \in Nat : p = (i - 1) * M /\ p <= n /\ p + M = i * M
    <3>1. i - 1 \in Nat /\ i - 1 < N /\ (i - 1) + 1 = i
      BY <1>4
    <3> QED
      BY <1>4, <3>1
  <2>2. PICK u : u = Upto(i)
    OBVIOUS
  <2>3. u \in Nat /\ p <= u /\ u <= n
    <3>1. CASE i = N
      BY <2>1, <2>2, <3>1
    <3>2. CASE i # N
      <4>1. i \in Nat /\ i < N
        BY <1>4, <3>2
      <4>2. i * M \in Nat /\ i * M <= n
        BY <1>4, <4>1
      <4>3. u = i * M
        BY <2>2, <3>2
      <4>4. p <= p + M
        OBVIOUS
      <4> QED
        BY <2>1, <4>2, <4>3, <4>4
    <3> QED
      BY <3>1, <3>2
  <2>4. Upto(i - 1) = p
    <3>1. i - 1 # N
      BY <1>4
    <3> QED
      BY <2>1, <3>1
  <2>5. PICK w \in Seq(Nat) : w = SubSeq(s, 1, u) /\ Len(w) = u
    <3>1. SubSeq(s, 1, u) \in Seq(Nat)
      BY <1>1, <2>3, Halves
    <3>2. \A x \in Seq(Nat), k \in Nat : k <= Len(x) => Len(SubSeq(x, 1, k)) = k
      OBVIOUS
    <3>3. Len(SubSeq(s, 1, u)) = u
      BY <1>1, <2>3, <3>2
    <3> QED
      BY <3>1, <3>3
  <2>6. SubSeq(w, 1, p) \in Seq(Nat) /\ SubSeq(w, p + 1, u) \in Seq(Nat)
        /\ w = SubSeq(w, 1, p) \o SubSeq(w, p + 1, u)
    BY <2>3, <2>5, Halves, ZenonT(40)
  <2>7. SubSeq(w, 1, p) = SubSeq(s, 1, p) /\ SubSeq(w, p + 1, u) = SubSeq(s, p + 1, u)
    BY <1>1, <2>3, <2>5
  <2>8. Piece(i) = SubSeq(s, p + 1, u)
    BY <2>1, <2>2
  <2> HIDE DEF Piece, Upto
  <2> QED
    BY <2>2, <2>4, <2>5, <2>6, <2>7, <2>8
<1> HIDE DEF Upto, Piece
<1>7. ASSUME NEW i \in 1..N PROVE Frame(i) \in Seq(Nat) /\ Carries(Frame(i), Piece(i))
  <2>1. Carries(Frame(i), Piece(i))
    BY <1>6, FragmentCarries
  <2> HIDE DEF Frame
  <2> QED
    BY <2>1 DEF Carries
<1> HIDE DEF Frame
<1>8. /\ frames \in Seq(Seq(Nat)) /\ Len(frames) = N
      /\ pieces \in Seq(Seq(Nat)) /\ Len(pieces) = N
      /\ \A i \in 1..N : frames[i] = Frame(i) /\ pieces[i] = Piece(i)
  <2>1. frames \in [1..N -> Seq(Nat)] /\ pieces \in [1..N -> Seq(Nat)]
    BY <1>6, <1>7
  <2>2. /\ frames \in Seq(Seq(Nat)) /\ Len(frames) = N
        /\ pieces \in Seq(Seq(Nat)) /\ Len(pieces) = N
    BY <1>4, <2>1, FunctionIsSeq
  <2> QED
    BY <2>2
<1>9. Carries(FlattenSeq(frames), FlattenSeq(pieces))
  <2>1. \A i \in 1..N : Carries(frames[i], pieces[i])
    BY <1>7, <1>8
  <2> HIDE DEF frames, pieces
  <2> QED
    BY <1>4, <1>8, <2>1, CarriesFlatten
<1>10. Upto(N) = n /\ Upto(0) = 0
  <2>1. Upto(N) = n
    BY DEF Upto
  <2>2. N = 0 => n = 0
    BY <1>4
  <2>3. 0 * M = 0
    OBVIOUS
  <2> QED
    BY <2>1, <2>2, <2>3 DEF Upto
<1>11. Accumulates(g, pieces)
  <2>1. g[0] = << >>
    BY <1>4, <1>10
  <2>2. ASSUME NEW i \in 1..N PROVE g[i] = g[i - 1] \o pieces[i]
    <3>1. i \in 0..N /\ i - 1 \in 0..N
      BY <1>4
    <3>2. g[i] = SubSeq(s, 1, Upto(i)) /\ g[i - 1] = SubSeq(s, 1, Upto(i - 1))
      BY <3>1
    <3>3. pieces[i] = Piece(i)
      BY <1>8
    <3> HIDE DEF g, pieces
    <3> QED
      BY <1>6, <3>2, <3>3
  <2> QED
    BY <1>8, <2>1, <2>2 DEF Accumulates
<1>12. FlattenSeq(pieces) = s
  <2>1. FlattenSeq(pieces) = g[Len(pieces)]
    <3> HIDE DEF g, pieces
    <3> QED
      BY <1>8, <1>11, FlattenIs
  <2>2. g[N] = SubSeq(s, 1, n)
    BY <1>4, <1>10
  <2>3. SubSeq(s, 1, n) = s
    BY <1>1
  <2> QED
    BY <1>8, <2>1, <2>2, <2>3
<1> QED
  BY <1>5, <1>9, <1>12
-----------------------------------------------------------------------------
(* Reading messages.                                                       *)

(* e is a message of type t with data d.                                   *)
IsMessage(e, t, d) ==
  t \in Nat /\ \E b : Carries(b, d) /\ e = (<<t>> \o b) \o LastFragment

(* The last fragment, whole or cut off.                                    *)
LEMMA LastIs ==
  ASSUME NEW s \in Seq(Nat), NEW i \in 1..(Len(s) + 1), Stands(LastFragment, s, i)
  PROVE  /\ Rest(s)[i].data = << >>
         /\ i + 1 <= Len(s) => Rest(s)[i].next = i + 2 /\ Rest(s)[i].how = "end"
         /\ i + 1 > Len(s) => Rest(s)[i].next = Len(s) + 1 /\ Rest(s)[i].how # "end"
<1>1. RestStep(Rest(s), s, i)
  BY RestIs
<1>2. PICK m \in Nat : m = Len(s)
  OBVIOUS
<1>3. CASE i + 1 > m
  <2>1. Rest(s)[i] = [data |-> << >>, next |-> m + 1, how |-> IF i > m THEN "eof" ELSE "cut"]
    BY <1>1, <1>2, <1>3 DEF RestStep
  <2> QED
    BY <1>2, <1>3, <2>1
<1>4. CASE ~(i + 1 > m)
  <2>1. Len(LastFragment) = 2 /\ LastFragment[1] = End /\ LastFragment[2] = 0
    BY DEF LastFragment, FragmentHeader
  <2>2. s[i] = End /\ s[i + 1] = 0
    <3>1. 1 \in 1..2 /\ 2 \in 1..2 /\ i + 1 - 1 = i /\ i + 2 - 1 = i + 1 /\ i <= m /\ i + 1 <= m
      BY <1>2, <1>4
    <3>2. \A j \in 1..2 : i + j - 1 <= m => s[i + j - 1] = LastFragment[j]
      BY <1>2, <2>1 DEF Stands
    <3>3. s[i + 1 - 1] = LastFragment[1] /\ s[i + 2 - 1] = LastFragment[2]
      BY <3>1, <3>2
    <3> QED
      BY <2>1, <3>1, <3>3
  <2>3. Behind(s, i) = i + 2
    BY <1>2, <1>4, <2>2 DEF Behind
  <2>4. Held(s, i) = << >>
    <3>1. Held(s, i) = SubSeq(s, i + 2, i + 1)
      BY <1>2, <2>3 DEF Held
    <3> QED
      BY <1>2, <3>1
  <2>5. Rest(s)[i] = [data |-> << >>, next |-> i + 2, how |-> "end"]
    BY <1>1, <1>2, <1>4, <2>2, <2>3, <2>4 DEF RestStep
  <2> QED
    BY <1>2, <1>4, <2>5
<1> QED
  BY <1>3, <1>4

(* A message at i is read, and then what stands behind it; of one that is  *)
(* cut off nothing comes, or a beginning.                                  *)
ReadAt(f, s, i, len, t, d) ==
  IF i + len <= Len(s) + 1
    THEN f[i] = <<[t |-> t, data |-> d, how |-> "end"]>> \o f[i + len]
    ELSE f[i] = << >> \/ \E x \in Seq(Nat), how \in {"eof", "cut"} :
           BeginningOf(x, d) /\ f[i] = <<[t |-> t, data |-> x, how |-> how]>>

LEMMA MessageRead ==
  ASSUME NEW s \in Seq(Nat), NEW known, NEW f,
         \A i \in 1..(Len(s) + 1) : MessageStep(f, s, known, i),
         NEW e, NEW t \in known, NEW d, IsMessage(e, t, d),
         NEW i \in 1..(Len(s) + 1), Stands(e, s, i)
  PROVE  ReadAt(f, s, i, Len(e), t, d)
<1>1. PICK b : Carries(b, d) /\ e = (<<t>> \o b) \o LastFragment
  BY DEF IsMessage
<1>2. t \in Nat /\ b \in Seq(Nat) /\ d \in Seq(Nat)
  BY <1>1 DEF IsMessage, Carries
<1>3. PICK L \in Nat : L = Len(b)
  BY <1>2
<1>4. <<t>> \in Seq(Nat) /\ Len(<<t>>) = 1 /\ <<t>>[1] = t
  BY <1>2
<1>5. LastFragment \in Seq(Nat) /\ Len(LastFragment) = 2
  BY DEF LastFragment, FragmentHeader, End
<1>6. <<t>> \o b \in Seq(Nat) /\ Len(<<t>> \o b) = L + 1
  BY <1>2, <1>3, <1>4
<1>7. e \in Seq(Nat) /\ Len(e) = L + 3
  <2>1. PICK tb \in Seq(Nat) : tb = <<t>> \o b /\ Len(tb) = L + 1
    BY <1>6
  <2>2. PICK z \in Seq(Nat) : z = LastFragment /\ Len(z) = 2
    BY <1>5
  <2>3. tb \o z \in Seq(Nat) /\ Len(tb \o z) = Len(tb) + Len(z)
    BY ConcatAt
  <2> QED
    BY <1>1, <2>1, <2>2, <2>3
<1>8. PICK m \in Nat : m = Len(s)
  OBVIOUS
<1>9. i \in Nat /\ 1 <= i /\ i <= m + 1
  BY <1>8
<1>10. /\ Stands(<<t>>, s, i) /\ Stands(b, s, i + 1) /\ Stands(LastFragment, s, i + (L + 1))
  <2>1. Stands(<<t>> \o b, s, i) /\ Stands(LastFragment, s, i + Len(<<t>> \o b))
    BY <1>1, <1>5, <1>6, <1>9, StandsTwo
  <2>2. Stands(<<t>>, s, i) /\ Stands(b, s, i + Len(<<t>>))
    BY <1>2, <1>4, <1>9, <2>1, StandsTwo
  <2> QED
    BY <1>4, <1>6, <2>1, <2>2
<1>11. MessageStep(f, s, known, i)
  OBVIOUS
<1>12. CASE i + 2 > m
  <2>1. f[i] = << >>
    BY <1>8, <1>11, <1>12 DEF MessageStep
  <2>2. ~(i + Len(e) <= Len(s) + 1)
    BY <1>7, <1>8, <1>9, <1>12
  <2> QED
    BY <2>1, <2>2 DEF ReadAt
<1>13. CASE ~(i + 2 > m)
  <2>1. s[i] = t
    <3>1. 1 \in 1..1 /\ i + 1 - 1 = i /\ i <= m
      BY <1>9, <1>13
    <3>2. i + 1 - 1 <= m => s[i + 1 - 1] = <<t>>[1]
      BY <1>4, <1>8, <1>10, <3>1 DEF Stands
    <3> QED
      BY <1>4, <3>1, <3>2
  <2>2. PICK r : r = Rest(s)[i + 1]
    OBVIOUS
  <2>3. f[i] = <<[t |-> t, data |-> r.data, how |-> r.how]>> \o f[r.next]
    BY <1>8, <1>11, <1>13, <2>1, <2>2 DEF MessageStep
  <2>4. i + 1 \in 1..(Len(s) + 1)
    BY <1>8, <1>9, <1>13
  <2>5. CarriedAt(s, i + 1, L, d)
    BY <1>1, <1>3, <1>10, <2>4 DEF Carries
  <2>6. r \in Bodies
    BY <2>2, <2>4, RestIs
  <2>7. f[m + 1] = << >>
    <3>1. m + 1 \in 1..(Len(s) + 1) /\ (m + 1) + 2 > Len(s)
      BY <1>8
    <3>2. MessageStep(f, s, known, m + 1)
      BY <3>1
    <3> QED
      BY <3>1, <3>2 DEF MessageStep
  <2>8. ASSUME r.next = m + 1, r.how # "end", BeginningOf(r.data, d), ~(i + Len(e) <= m + 1)
        PROVE  ReadAt(f, s, i, Len(e), t, d)
    <3>1. r.data \in Seq(Nat) /\ r.how \in {"eof", "cut"}
      BY <2>6, <2>8 DEF Bodies
    <3>2. PICK msg : msg = [t |-> t, data |-> r.data, how |-> r.how]
      OBVIOUS
    <3>3. f[i] = <<msg>> \o << >>
      BY <2>3, <2>7, <2>8, <3>2
    <3>4. f[i] = <<msg>>
      BY <3>3
    <3> QED
      BY <1>8, <2>8, <3>1, <3>2, <3>4 DEF ReadAt
  <2>9. CASE ~(i + 1 + L <= m + 1)
    <3>1. r.next = m + 1 /\ r.how # "end" /\ BeginningOf(r.data, d)
      BY <1>8, <2>2, <2>5, <2>9 DEF CarriedAt
    <3>2. ~(i + Len(e) <= m + 1)
      BY <1>7, <1>9, <2>9
    <3> QED
      BY <2>8, <3>1, <3>2
  <2>10. CASE i + 1 + L <= m + 1
    <3>1. PICK k : k = i + 1 + L
      OBVIOUS
    <3>2. k \in 1..(Len(s) + 1) /\ i + (L + 1) = k
      BY <1>8, <1>9, <2>10, <3>1
    <3>3. PICK q : q = Rest(s)[k]
      OBVIOUS
    <3>4. r.data = d \o q.data /\ r.next = q.next /\ r.how = q.how
      BY <1>8, <2>2, <2>5, <2>10, <3>1, <3>3 DEF CarriedAt
    <3>5. Stands(LastFragment, s, k)
      BY <1>10, <3>2
    <3>6. /\ q.data = << >>
          /\ k + 1 <= Len(s) => q.next = k + 2 /\ q.how = "end"
          /\ k + 1 > Len(s) => q.next = Len(s) + 1 /\ q.how # "end"
      BY <3>2, <3>3, <3>5, LastIs
    <3>7. r.data = d
      BY <1>2, <3>4, <3>6, ConcatNothing
    <3>8. CASE k + 1 <= m
      <4>1. r.next = i + Len(e) /\ r.how = "end" /\ i + Len(e) <= m + 1
        <5>1. k + 2 = i + Len(e) /\ i + Len(e) <= m + 1
          BY <1>7, <1>9, <3>1, <3>8
        <5> QED
          BY <1>8, <3>4, <3>6, <3>8, <5>1
      <4> QED
        BY <1>8, <2>3, <3>7, <4>1 DEF ReadAt
    <3>9. CASE ~(k + 1 <= m)
      <4>1. r.next = m + 1 /\ r.how # "end"
        BY <1>8, <3>2, <3>4, <3>6, <3>9
      <4>2. BeginningOf(r.data, d)
        <5>1. d = d \o << >> /\ << >> \in Seq(Nat)
          BY <1>2, ConcatNothing
        <5> QED
          BY <3>7, <5>1 DEF BeginningOf
      <4>3. ~(i + Len(e) <= m + 1)
        BY <1>7, <1>9, <3>1, <3>9
      <4> QED
        BY <2>8, <4>1, <4>2, <4>3
    <3> QED
      BY <3>8, <3>9
  <2> QED
    BY <2>9, <2>10
<1> QED
  BY <1>12, <1>13
(* The messages from k + 1 on of N with types ts and data ds: all of them  *)
(* when the stream is whole, else a beginning.                             *)
Got == [t : Nat, data : Seq(Nat), how : {"eof", "cut", "end"}]
ReadFrom(got, ts, ds, N, k, whole) ==
  /\ got \in Seq(Got) /\ Len(got) <= N - k
  /\ \A i \in 1..Len(got) :
       /\ got[i].t = ts[k + i]
       /\ IF i < Len(got) THEN got[i].data = ds[k + i]
                          ELSE BeginningOf(got[i].data, ds[k + i])
       /\ whole => got[i].data = ds[k + i] /\ got[i].how = "end"
  /\ whole => Len(got) = N - k

(* One message more in front of them.                                      *)
LEMMA ReadFromCons ==
  ASSUME NEW ts, NEW ds, NEW N \in Nat, NEW k \in Nat, k < N, NEW whole \in BOOLEAN,
         NEW later, ReadFrom(later, ts, ds, N, k + 1, whole),
         NEW r \in Got, r.t = ts[k + 1], r.data = ds[k + 1], r.how = "end"
  PROVE  ReadFrom(<<r>> \o later, ts, ds, N, k, whole)
<1>1. PICK n \in Nat : n = Len(later) /\ n <= N - (k + 1) /\ (whole => n = N - (k + 1))
  BY DEF ReadFrom
<1>2. later \in Seq(Got)
  BY DEF ReadFrom
<1>3. PICK got : got = <<r>> \o later
  OBVIOUS
<1>4. /\ got \in Seq(Got) /\ Len(got) = 1 + n /\ got[1] = r
      /\ \A j \in 1..n : got[1 + j] = later[j]
  BY <1>1, <1>2, <1>3, PrefixAt
<1>5. ASSUME NEW i \in 1..(1 + n)
      PROVE  /\ got[i].t = ts[k + i]
             /\ IF i < 1 + n THEN got[i].data = ds[k + i]
                             ELSE BeginningOf(got[i].data, ds[k + i])
             /\ whole => got[i].data = ds[k + i] /\ got[i].how = "end"
  <2>1. CASE i = 1
    <3>1. BeginningOf(r.data, r.data)
      <4>1. r.data \in Seq(Nat)
        BY DEF Got
      <4>2. r.data = r.data \o << >> /\ << >> \in Seq(Nat)
        BY <4>1, ConcatNothing
      <4> QED
        BY <4>2 DEF BeginningOf
    <3>2. got[i] = r
      BY <1>4, <2>1
    <3> QED
      BY <2>1, <3>1, <3>2
  <2>2. CASE i # 1
    <3>1. PICK j \in 1..n : 1 + j = i /\ (k + 1) + j = k + i /\ (i < 1 + n <=> j < n)
      <4>1. i - 1 \in 1..n /\ 1 + (i - 1) = i /\ (k + 1) + (i - 1) = k + i /\ (i < 1 + n <=> i - 1 < n)
        BY <2>2
      <4> QED
        BY <4>1
    <3>2. got[i] = later[j]
      BY <1>4, <3>1
    <3>3. /\ later[j].t = ts[(k + 1) + j]
          /\ IF j < n THEN later[j].data = ds[(k + 1) + j]
                      ELSE BeginningOf(later[j].data, ds[(k + 1) + j])
          /\ whole => later[j].data = ds[(k + 1) + j] /\ later[j].how = "end"
      BY <1>1 DEF ReadFrom
    <3> QED
      BY <3>1, <3>2, <3>3
  <2> QED
    BY <2>1, <2>2
<1>6. 1 + n <= N - k /\ (whole => 1 + n = N - k)
  BY <1>1
<1>7. ReadFrom(got, ts, ds, N, k, whole)
  BY <1>4, <1>5, <1>6 DEF ReadFrom
<1> QED
  BY <1>3, <1>7

(* Nothing, or a beginning of one message, when the stream is not whole.   *)
LEMMA ReadFromEnds ==
  ASSUME NEW ts, NEW ds, NEW N \in Nat, NEW k \in Nat, k < N
  PROVE  /\ ReadFrom(<< >>, ts, ds, N, k, FALSE)
         /\ \A r \in Got : r.t = ts[k + 1] /\ BeginningOf(r.data, ds[k + 1])
              => ReadFrom(<<r>>, ts, ds, N, k, FALSE)
<1>1. ReadFrom(<< >>, ts, ds, N, k, FALSE)
  <2>1. << >> \in Seq(Got) /\ Len(<< >>) = 0 /\ 0 <= N - k /\ 1..0 = {}
    OBVIOUS
  <2> QED
    BY <2>1 DEF ReadFrom
<1>2. ASSUME NEW r \in Got, r.t = ts[k + 1], BeginningOf(r.data, ds[k + 1])
      PROVE  ReadFrom(<<r>>, ts, ds, N, k, FALSE)
  <2>1. <<r>> \in Seq(Got) /\ Len(<<r>>) = 1 /\ 1 <= N - k /\ <<r>>[1] = r
    OBVIOUS
  <2>2. \A i \in 1..1 : i = 1 /\ ~(i < 1)
    OBVIOUS
  <2> QED
    BY <1>2, <2>1, <2>2 DEF ReadFrom
<1> QED
  BY <1>1, <1>2

(* The first n numbers of a stream of messages.                            *)
LEMMA StreamRead ==
  ASSUME NEW enc \in Seq(Seq(Nat)), NEW N \in Nat, N = Len(enc), NEW known,
         NEW ts, NEW ds,
         \A k \in 1..N : IsMessage(enc[k], ts[k], ds[k]) /\ ts[k] \in known,
         NEW n \in Nat, n <= Len(FlattenSeq(enc))
  PROVE  ReadFrom(Messages(SubSeq(FlattenSeq(enc), 1, n), known), ts, ds, N, 0,
                  n = Len(FlattenSeq(enc)))
<1>1. PICK all : all = FlattenSeq(enc)
  OBVIOUS
<1>2. all \in Seq(Nat)
  BY <1>1, FlattenType
<1>3. PICK m \in Nat : m = Len(all)
  BY <1>2
<1>4. n <= m
  BY <1>1, <1>3
<1>5. PICK s : s = SubSeq(all, 1, n)
  OBVIOUS
<1>6. s \in Seq(Nat) /\ Len(s) = n /\ \A j \in 1..n : s[j] = all[j]
  BY <1>2, <1>3, <1>4, <1>5
<1>7. PICK f : /\ Messages(s, known) = f[1]
               /\ \A i \in 1..(Len(s) + 1) : MessageStep(f, s, known, i)
  BY <1>6, MessagesAre
<1>8. PICK g : Accumulates(g, enc)
  BY FlattenAccumulates
<1>9. all = g[N] /\ \A i \in 0..N : g[i] \in Seq(Nat)
  BY <1>1, <1>8, FlattenIs
<1> DEFINE T == {j \in Nat : j <= N => (Len(g[N - j]) <= n =>
                   ReadFrom(f[Len(g[N - j]) + 1], ts, ds, N, N - j, n = m))}
<1>10. 0 \in T
  <2> SUFFICES ASSUME Len(g[N]) <= n
               PROVE  ReadFrom(f[Len(g[N]) + 1], ts, ds, N, N, n = m)
    <3>1. N - 0 = N
      OBVIOUS
    <3> QED
      BY <3>1
  <2>1. Len(g[N]) = n /\ n = m
    BY <1>3, <1>4, <1>9
  <2>2. MessageStep(f, s, known, n + 1)
    <3>1. n + 1 \in 1..(Len(s) + 1)
      BY <1>6
    <3> QED
      BY <1>7, <3>1
  <2>3. f[n + 1] = << >>
    <3>1. (n + 1) + 2 > Len(s)
      BY <1>6
    <3> QED
      BY <2>2, <3>1 DEF MessageStep
  <2>4. << >> \in Seq(Got) /\ Len(<< >>) = 0 /\ 0 = N - N /\ 0 <= N - N /\ 1..0 = {}
    OBVIOUS
  <2>5. ReadFrom(<< >>, ts, ds, N, N, n = m)
    BY <2>4 DEF ReadFrom
  <2> QED
    BY <2>1, <2>3, <2>5
<1>11. ASSUME NEW j \in Nat, j \in T PROVE j + 1 \in T
  <2> SUFFICES ASSUME j + 1 <= N, Len(g[N - (j + 1)]) <= n
               PROVE  ReadFrom(f[Len(g[N - (j + 1)]) + 1], ts, ds, N, N - (j + 1), n = m)
    OBVIOUS
  <2>1. PICK k \in Nat : k = N - (j + 1) /\ k < N /\ k + 1 = N - j /\ k + 1 \in 1..N /\ j <= N
                         /\ (k + 1) - 1 = k
    <3>1. LET k == N - (j + 1)
          IN  k \in Nat /\ k < N /\ k + 1 = N - j /\ k + 1 \in 1..N /\ j <= N /\ (k + 1) - 1 = k
      OBVIOUS
    <3> QED
      BY <3>1
  <2>2. PICK e \in Seq(Nat) : e = enc[k + 1]
    BY <2>1
  <2>3. Placed(all, g, enc, k + 1)
    BY <1>1, <1>8, <2>1, FlattenAt
  <2>4. PICK p \in Nat : p = Len(g[k]) /\ p <= n
    BY <1>9, <2>1, <2>3 DEF Placed
  <2>5. PICK L \in Nat : L = Len(e)
    OBVIOUS
  <2>6. /\ Len(g[k + 1]) = p + L /\ p + L <= m
        /\ \A x \in 1..L : all[p + x] = e[x]
    BY <1>3, <2>1, <2>2, <2>3, <2>4, <2>5, Zenon DEF Placed
  <2>7. Stands(e, s, p + 1)
    <3> SUFFICES ASSUME NEW x \in 1..L, (p + 1) + x - 1 <= n PROVE s[(p + 1) + x - 1] = e[x]
      BY <1>6, <2>5 DEF Stands
    <3>1. (p + 1) + x - 1 = p + x /\ p + x \in 1..n
      OBVIOUS
    <3> QED
      BY <1>6, <2>6, <3>1
  <2>8. IsMessage(e, ts[k + 1], ds[k + 1]) /\ ts[k + 1] \in known
    BY <2>1, <2>2
  <2>9. p + 1 \in 1..(Len(s) + 1)
    BY <1>6, <2>4
  <2>10. ReadAt(f, s, p + 1, Len(e), ts[k + 1], ds[k + 1])
    BY <1>6, <1>7, <2>7, <2>8, <2>9, MessageRead
  <2>11. ts[k + 1] \in Nat /\ ds[k + 1] \in Seq(Nat)
    BY <2>8 DEF IsMessage, Carries
  <2>12. PICK t \in Nat : t = ts[k + 1]
    BY <2>11
  <2>13. PICK d \in Seq(Nat) : d = ds[k + 1]
    BY <2>11
  <2>14. CASE p + L <= n
    <3>1. (p + 1) + L <= n + 1 /\ (p + 1) + L = (p + L) + 1
      BY <2>14
    <3>2. f[p + 1] = <<[t |-> ts[k + 1], data |-> ds[k + 1], how |-> "end"]>> \o f[(p + L) + 1]
      BY <1>6, <2>5, <2>10, <3>1 DEF ReadAt
    <3>3. ReadFrom(f[(p + L) + 1], ts, ds, N, k + 1, n = m)
      <4>1. Len(g[N - j]) <= n => ReadFrom(f[Len(g[N - j]) + 1], ts, ds, N, N - j, n = m)
        BY <1>11, <2>1
      <4> QED
        BY <2>1, <2>6, <2>14, <4>1
    <3>4. PICK r \in Got : /\ r = [t |-> ts[k + 1], data |-> ds[k + 1], how |-> "end"]
                           /\ r.t = ts[k + 1] /\ r.data = ds[k + 1] /\ r.how = "end"
      <4>1. [t |-> t, data |-> d, how |-> "end"] \in Got
        BY DEF Got
      <4> QED
        BY <2>12, <2>13, <4>1
    <3>5. ReadFrom(<<r>> \o f[(p + L) + 1], ts, ds, N, k, n = m)
      BY <2>1, <3>3, <3>4, ReadFromCons
    <3>6. f[p + 1] = <<r>> \o f[(p + L) + 1]
      BY <3>2, <3>4
    <3> QED
      BY <2>1, <2>4, <3>5, <3>6
  <2>15. CASE ~(p + L <= n)
    <3>1. ~((p + 1) + L <= n + 1) /\ n # m
      <4>1. ~((p + 1) + L <= n + 1)
        BY <2>15
      <4>2. p + L <= m
        BY <2>6
      <4>3. n # m
        BY <2>15, <4>2
      <4> QED
        BY <4>1, <4>3
    <3>2. PICK got : got = f[p + 1]
      OBVIOUS
    <3>3. got = << >> \/ \E x \in Seq(Nat), how \in {"eof", "cut"} :
            BeginningOf(x, ds[k + 1]) /\ got = <<[t |-> ts[k + 1], data |-> x, how |-> how]>>
      BY <1>6, <2>5, <2>10, <3>1, <3>2 DEF ReadAt
    <3>4. ReadFrom(got, ts, ds, N, k, FALSE)
      <4>1. CASE got = << >>
        BY <2>1, <4>1, ReadFromEnds
      <4>2. CASE got # << >>
        <5>1. PICK x \in Seq(Nat), how \in {"eof", "cut"} :
                BeginningOf(x, ds[k + 1]) /\ got = <<[t |-> ts[k + 1], data |-> x, how |-> how]>>
          BY <3>3, <4>2
        <5>2. PICK r \in Got : /\ r = [t |-> ts[k + 1], data |-> x, how |-> how]
                               /\ r.t = ts[k + 1] /\ r.data = x
          <6>1. [t |-> t, data |-> x, how |-> how] \in Got
            BY DEF Got
          <6> QED
            BY <2>12, <2>13, <6>1
        <5>3. BeginningOf(r.data, ds[k + 1]) /\ got = <<r>>
          BY <5>1, <5>2
        <5> QED
          BY <2>1, <5>2, <5>3, ReadFromEnds
      <4> QED
        BY <4>1, <4>2
    <3>5. (n = m) = FALSE
      BY <3>1
    <3> QED
      BY <2>1, <2>4, <3>2, <3>4, <3>5
  <2> QED
    BY <2>14, <2>15
<1>12. \A j \in Nat : j \in T
  <2> HIDE DEF T
  <2> QED
    BY <1>10, <1>11, Induction
<1>13. N \in T
  BY <1>12
<1>14. g[0] = << >> /\ N - N = 0 /\ Len(<< >>) = 0 /\ 0 + 1 = 1 /\ 0 <= n
  BY <1>8 DEF Accumulates
<1>15. ReadFrom(f[1], ts, ds, N, 0, n = m)
  BY <1>13, <1>14
<1> QED
  BY <1>1, <1>3, <1>5, <1>7, <1>15
-----------------------------------------------------------------------------
(* The messages of a tunnel.                                               *)

(* What a message was written in: at least one slice.                      *)
Slicing == Seq(Seq(Nat)) \ {<< >>}

(* What both sides write are such messages.                                *)
LEMMA WrittenIsMessage ==
  ASSUME NEW t \in Nat, NEW w \in Slicing
  PROVE  IsMessage(Written(t, w), t, FlattenSeq(w))
<1>1. PICK N \in Nat : N = Len(w)
  BY DEF Slicing
<1>2. w \in Seq(Seq(Nat)) /\ w # << >> /\ DOMAIN w = 1..N
  BY <1>1 DEF Slicing
<1>3. PICK enc : enc = [i \in DOMAIN w |-> Fragments(w[i])]
  OBVIOUS
<1>4. ASSUME NEW i \in 1..N PROVE enc[i] = Fragments(w[i]) /\ Carries(enc[i], w[i])
  <2>1. w[i] \in Seq(Nat)
    BY <1>1, <1>2
  <2>2. enc[i] = Fragments(w[i])
    BY <1>2, <1>3
  <2> QED
    BY <2>1, <2>2, FragmentsCarry
<1>5. enc \in Seq(Seq(Nat)) /\ Len(enc) = N
  <2>1. \A i \in 1..N : enc[i] \in Seq(Nat)
    BY <1>4 DEF Carries
  <2>2. enc \in [1..N -> Seq(Nat)]
    BY <1>2, <1>3, <2>1
  <2> QED
    BY <2>2, FunctionIsSeq
<1>6. Carries(FlattenSeq(enc), FlattenSeq(w))
  BY <1>1, <1>2, <1>4, <1>5, CarriesFlatten
<1>7. Written(t, w) = (<<t>> \o FlattenSeq(enc)) \o LastFragment
  BY <1>2, <1>3 DEF Written
<1> QED
  BY <1>6, <1>7 DEF IsMessage

LEMMA RelayedIsMessage ==
  ASSUME NEW t \in Nat, NEW w \in Slicing
  PROVE  IsMessage(Relayed(t, w), t, FlattenSeq(w))
<1>1. PICK N \in Nat : N = Len(w)
  BY DEF Slicing
<1>2. w \in Seq(Seq(Nat)) /\ w # << >> /\ DOMAIN w = 1..N
  BY <1>1 DEF Slicing
<1>3. PICK enc : enc = [i \in DOMAIN w |-> FragmentHeader(More, Len(w[i])) \o w[i]]
  OBVIOUS
<1>4. ASSUME NEW i \in 1..N PROVE Carries(enc[i], w[i])
  <2>1. w[i] \in Seq(Nat)
    BY <1>1, <1>2
  <2>2. enc[i] = FragmentHeader(More, Len(w[i])) \o w[i]
    BY <1>2, <1>3
  <2> QED
    BY <2>1, <2>2, FragmentCarries
<1>5. enc \in Seq(Seq(Nat)) /\ Len(enc) = N
  <2>1. \A i \in 1..N : enc[i] \in Seq(Nat)
    BY <1>4 DEF Carries
  <2>2. enc \in [1..N -> Seq(Nat)]
    BY <1>2, <1>3, <2>1
  <2> QED
    BY <2>2, FunctionIsSeq
<1>6. Carries(FlattenSeq(enc), FlattenSeq(w))
  BY <1>1, <1>2, <1>4, <1>5, CarriesFlatten
<1>7. Relayed(t, w) = (<<t>> \o FlattenSeq(enc)) \o LastFragment
  BY <1>2, <1>3 DEF Relayed
<1> QED
  BY <1>6, <1>7 DEF IsMessage

LEMMA BeginningIsPrefix ==
  ASSUME NEW x \in Seq(Nat), NEW d \in Seq(Nat), BeginningOf(x, d) PROVE IsPrefix(x, d)
<1>1. PICK y \in Seq(Nat) : d = x \o y
  BY DEF BeginningOf
<1>2. /\ Len(x) \in Nat /\ Len(y) \in Nat /\ Len(d) = Len(x) + Len(y)
      /\ \A i \in 1..Len(x) : d[i] = x[i]
  BY <1>1, ConcatAt
<1>3. Len(x) <= Len(d)
  BY <1>2
<1>4. SubSeq(x, 1, Len(x)) = SubSeq(d, 1, Len(x))
  <2>1. SubSeq(d, 0 + 1, 0 + Len(x)) = x
    BY <1>2, <1>3, SubSeqIs
  <2>2. 0 + 1 = 1 /\ 0 + Len(x) = Len(x) /\ SubSeq(x, 1, Len(x)) = x
    BY <1>2
  <2> QED
    BY <2>1, <2>2
<1> QED
  BY <1>3, <1>4 DEF IsPrefix

(* N messages, as a side wants to send them.                               *)
Outgoing(ms, N) == ms \in Seq([t : Types, parts : Slicing]) /\ N = Len(ms)

(* What was read, in the words of the property.                            *)
LEMMA ReadIsLike ==
  ASSUME NEW ms, NEW N \in Nat, Outgoing(ms, N), NEW got, NEW whole \in BOOLEAN,
         ReadFrom(got, [k \in 1..N |-> ms[k].t], [k \in 1..N |-> Data(ms[k])], N, 0, whole)
  PROVE  /\ BeginsLike(got, ms)
         /\ whole => /\ Len(got) = N
                     /\ \A m \in {got[i] : i \in DOMAIN ms} : m.how = "end"
                     /\ got # << >> => got[N].data = Data(ms[N])
<1> DEFINE ts == [k \in 1..N |-> ms[k].t]
           ds == [k \in 1..N |-> Data(ms[k])]
<1>1. Len(ms) = N /\ DOMAIN ms = 1..N
  BY DEF Outgoing
<1>2. PICK n \in Nat : n = Len(got) /\ n <= N /\ (whole => n = N)
  BY DEF ReadFrom
<1>3. got \in Seq(Got) /\ DOMAIN got = 1..n
  BY <1>2 DEF ReadFrom
<1>4. ASSUME NEW i \in 1..n
      PROVE  /\ got[i].t = ms[i].t
             /\ IF i < n THEN got[i].data = Data(ms[i])
                         ELSE BeginningOf(got[i].data, Data(ms[i]))
             /\ whole => got[i].data = Data(ms[i]) /\ got[i].how = "end"
  <2>1. 0 + i = i /\ i \in 1..N
    BY <1>2
  <2>2. ts[i] = ms[i].t /\ ds[i] = Data(ms[i])
    BY <2>1
  <2>3. ReadFrom(got, ts, ds, N, 0, whole)
    OBVIOUS
  <2> HIDE DEF ts, ds
  <2>4. /\ got[i].t = ts[0 + i]
        /\ IF i < n THEN got[i].data = ds[0 + i]
                    ELSE BeginningOf(got[i].data, ds[0 + i])
        /\ whole => got[i].data = ds[0 + i] /\ got[i].how = "end"
    BY <1>2, <2>3, Zenon DEF ReadFrom
  <2> QED
    BY <2>1, <2>2, <2>4
<1>5. ASSUME NEW i \in 1..n PROVE got[i].data \in Seq(Nat) /\ Data(ms[i]) \in Seq(Nat)
  <2>1. got[i] \in Got /\ i \in 1..N
    <3>1. i \in 1..Len(got)
      BY <1>2
    <3> QED
      BY <1>2, <1>3, <3>1
  <2>2. ms[i] \in [t : Types, parts : Slicing]
    <3>1. PICK R : R = [t : Types, parts : Slicing]
      OBVIOUS
    <3>2. ms \in Seq(R) /\ i \in 1..Len(ms)
      BY <1>1, <2>1, <3>1 DEF Outgoing
    <3>3. ms[i] \in R
      BY <3>2
    <3> QED
      BY <3>1, <3>3
  <2>3. ms[i].parts \in Seq(Seq(Nat))
    BY <2>2 DEF Slicing
  <2> QED
    BY <2>1, <2>3, FlattenType DEF Got, Data
<1>6. BeginsLike(got, ms)
  <2>1. \A i \in 1..n : BeginningOf(got[i].data, Data(ms[i])) => IsPrefix(got[i].data, Data(ms[i]))
    BY <1>5, BeginningIsPrefix
  <2> QED
    BY <1>1, <1>2, <1>3, <1>4, <2>1 DEF BeginsLike
<1>7. ASSUME whole
      PROVE  /\ Len(got) = N
             /\ \A m \in {got[i] : i \in DOMAIN ms} : m.how = "end"
             /\ got # << >> => got[N].data = Data(ms[N])
  <2>1. Len(got) = N /\ n = N
    BY <1>2, <1>7
  <2>2. \A m \in {got[i] : i \in DOMAIN ms} : m.how = "end"
    BY <1>1, <1>4, <1>7, <2>1
  <2>3. got # << >> => N \in 1..n
    BY <1>2, <1>3, <2>1
  <2> QED
    BY <1>4, <1>7, <2>1, <2>2, <2>3
<1> QED
  BY <1>6, <1>7
(* Any messages come out of the whole stream of their encodings, and of any*)
(* beginning of it a beginning of them.                                    *)
StreamBack(all, known, ms, N) ==
  /\ all \in Seq(Nat)
  /\ \A n \in 0..Len(all) :
       LET got == Messages(SubSeq(all, 1, n), known)
       IN  /\ BeginsLike(got, ms)
           /\ n = Len(all) => /\ Len(got) = N
                              /\ \A m \in {got[i] : i \in DOMAIN ms} : m.how = "end"
                              /\ got # << >> => got[N].data = Data(ms[N])

LEMMA StreamReadsBack ==
  ASSUME NEW ms, NEW N \in Nat, Outgoing(ms, N), NEW known, NEW enc,
         enc \in [1..N -> Seq(Nat)],
         \A k \in 1..N : IsMessage(enc[k], ms[k].t, Data(ms[k])) /\ ms[k].t \in known
  PROVE  StreamBack(FlattenSeq(enc), known, ms, N)
<1>1. enc \in Seq(Seq(Nat)) /\ Len(enc) = N
  BY FunctionIsSeq
<1>2. PICK all : all = FlattenSeq(enc)
  OBVIOUS
<1>3. all \in Seq(Nat)
  BY <1>1, <1>2, FlattenType
<1>4. PICK m \in Nat : m = Len(all)
  BY <1>3
<1>5. PICK ts : ts = [k \in 1..N |-> ms[k].t]
  OBVIOUS
<1>6. PICK ds : ds = [k \in 1..N |-> Data(ms[k])]
  OBVIOUS
<1>7. \A k \in 1..N : IsMessage(enc[k], ts[k], ds[k]) /\ ts[k] \in known
  BY <1>5, <1>6
<1>8. ASSUME NEW n \in 0..m
      PROVE  LET got == Messages(SubSeq(all, 1, n), known)
             IN  /\ BeginsLike(got, ms)
                 /\ n = m => /\ Len(got) = N
                             /\ \A x \in {got[i] : i \in DOMAIN ms} : x.how = "end"
                             /\ got # << >> => got[N].data = Data(ms[N])
  <2>1. n \in Nat /\ n <= Len(FlattenSeq(enc))
    BY <1>2, <1>4
  <2>2. ReadFrom(Messages(SubSeq(FlattenSeq(enc), 1, n), known), ts, ds, N, 0,
                 n = Len(FlattenSeq(enc)))
    BY <1>1, <1>7, <2>1, StreamRead
  <2>3. PICK got : got = Messages(SubSeq(all, 1, n), known)
    OBVIOUS
  <2>4. PICK whole \in BOOLEAN : whole <=> n = m
    OBVIOUS
  <2>5. ReadFrom(got, ts, ds, N, 0, whole)
    <3>1. whole = (n = Len(FlattenSeq(enc)))
      BY <1>2, <1>4, <2>4
    <3> QED
      BY <1>2, <2>2, <2>3, <3>1
  <2>6. /\ BeginsLike(got, ms)
        /\ whole => /\ Len(got) = N
                    /\ \A x \in {got[i] : i \in DOMAIN ms} : x.how = "end"
                    /\ got # << >> => got[N].data = Data(ms[N])
    BY <1>5, <1>6, <2>5, ReadIsLike
  <2> QED
    BY <2>3, <2>4, <2>6
<1>9. StreamBack(all, known, ms, N)
  BY <1>3, <1>4, <1>8 DEF StreamBack
<1> QED
  BY <1>2, <1>9

LEMMA MessageType ==
  ASSUME NEW e, NEW t, NEW d, IsMessage(e, t, d) PROVE e \in Seq(Nat)
<1>1. PICK b : Carries(b, d) /\ e = (<<t>> \o b) \o LastFragment
  BY DEF IsMessage
<1>2. b \in Seq(Nat) /\ <<t>> \in Seq(Nat)
  BY <1>1 DEF Carries, IsMessage
<1>3. <<t>> \o b \in Seq(Nat)
  BY <1>2, ConcatAt
<1>4. LastFragment \in Seq(Nat)
  BY DEF LastFragment, FragmentHeader, End
<1>5. (<<t>> \o b) \o LastFragment \in Seq(Nat)
  BY <1>3, <1>4, ConcatAt
<1> QED
  BY <1>1, <1>5

LEMMA MessageOf ==
  ASSUME NEW ms, NEW N \in Nat, Outgoing(ms, N), NEW k \in 1..N
  PROVE  /\ ms[k].t \in Types /\ ms[k].t \in Nat /\ ms[k].parts \in Slicing
         /\ Data(ms[k]) = FlattenSeq(ms[k].parts) /\ DOMAIN ms = 1..N
<1>1. PICK R : R = [t : Types, parts : Slicing]
  OBVIOUS
<1>2. ms \in Seq(R) /\ N = Len(ms)
  BY <1>1 DEF Outgoing
<1>3. ms[k] \in R /\ DOMAIN ms = 1..N
  BY <1>2
<1> QED
  BY <1>1, <1>3 DEF Types, Data

(* Whatever messages a client writes, in whatever slices of any length, the*)
(* server reads them as they were; and if the stream breaks off anywhere, a*)
(* beginning of them (websocket.go:94-238, server_handler.go:239-322).     *)
THEOREM MessagesReachTarget ==
  ASSUME NEW ms, NEW N \in Nat, Outgoing(ms, N)
  PROVE  ReadsBack(ClientStream(ms), TargetMessages, ms)
<1>1. PICK enc : enc = [k \in DOMAIN ms |-> Written(ms[k].t, ms[k].parts)]
  OBVIOUS
<1>2. DOMAIN ms = 1..N /\ Len(ms) = N
  BY DEF Outgoing
<1>3. ASSUME NEW k \in 1..N
      PROVE  /\ enc[k] \in Seq(Nat)
             /\ IsMessage(enc[k], ms[k].t, Data(ms[k])) /\ ms[k].t \in Types
  <2>1. /\ ms[k].t \in Types /\ ms[k].t \in Nat /\ ms[k].parts \in Slicing
        /\ Data(ms[k]) = FlattenSeq(ms[k].parts)
    BY MessageOf
  <2>2. IsMessage(Written(ms[k].t, ms[k].parts), ms[k].t, FlattenSeq(ms[k].parts))
    BY <2>1, WrittenIsMessage
  <2>3. IsMessage(enc[k], ms[k].t, Data(ms[k]))
    BY <1>1, <1>2, <2>1, <2>2
  <2> QED
    BY <2>1, <2>3, MessageType
<1>4. enc \in [1..N -> Seq(Nat)]
  BY <1>1, <1>2, <1>3
<1>5. ClientStream(ms) = FlattenSeq(enc)
  BY <1>1 DEF ClientStream
<1>6. StreamBack(ClientStream(ms), Types, ms, N)
  BY <1>3, <1>4, <1>5, StreamReadsBack
<1>7. \A s : TargetMessages(s) = Messages(s, Types)
  BY DEF TargetMessages
<1> DEFINE s == ClientStream(ms)
<1> HIDE DEF s
<1>8. StreamBack(s, Types, ms, N)
  BY <1>6 DEF s
<1>9. ReadsBack(s, TargetMessages, ms)
  <2>1. PICK m \in Nat : m = Len(s)
    BY <1>8 DEF StreamBack
  <2>2. s \in Seq(Nat) /\ SubSeq(s, 1, m) = s
    BY <1>8, <2>1 DEF StreamBack
  <2>3. \A n \in 0..m : BeginsLike(TargetMessages(SubSeq(s, 1, n)), ms)
    BY <1>7, <1>8, <2>1, Zenon DEF StreamBack
  <2>4. /\ Len(TargetMessages(s)) = N
        /\ \A x \in {TargetMessages(s)[i] : i \in DOMAIN ms} : x.how = "end"
        /\ TargetMessages(s) # << >> => TargetMessages(s)[N].data = Data(ms[N])
    <3>1. m \in 0..m
      OBVIOUS
    <3> QED
      BY <1>7, <1>8, <2>1, <2>2, <3>1, ZenonT(40) DEF StreamBack
  <2>5. BeginsLike(TargetMessages(s), ms)
    <3>1. m \in 0..m
      OBVIOUS
    <3> QED
      BY <2>2, <2>3, <3>1
  <2>6. \A n \in 0..(Len(s) - 1) : BeginsLike(TargetMessages(SubSeq(s, 1, n)), ms)
    BY <2>1, <2>3
  <2> QED
    BY <1>2, <2>4, <2>5, <2>6, Zenon DEF ReadsBack
<1> QED
  BY <1>9 DEF s

(* The same of messages without an empty one that the target sends.        *)
LEMMA KeptReachClient ==
  ASSUME NEW ms, NEW N \in Nat, Outgoing(ms, N)
  PROVE  ReadsBack(TargetStream(ms), ClientMessages, ms)
<1>1. PICK enc : enc = [k \in DOMAIN ms |-> Relayed(ms[k].t, ms[k].parts)]
  OBVIOUS
<1>2. DOMAIN ms = 1..N /\ Len(ms) = N
  BY DEF Outgoing
<1>3. ASSUME NEW k \in 1..N
      PROVE  /\ enc[k] \in Seq(Nat)
             /\ IsMessage(enc[k], ms[k].t, Data(ms[k])) /\ ms[k].t \in Nat
  <2>1. /\ ms[k].t \in Types /\ ms[k].t \in Nat /\ ms[k].parts \in Slicing
        /\ Data(ms[k]) = FlattenSeq(ms[k].parts)
    BY MessageOf
  <2>2. IsMessage(Relayed(ms[k].t, ms[k].parts), ms[k].t, FlattenSeq(ms[k].parts))
    BY <2>1, RelayedIsMessage
  <2>3. IsMessage(enc[k], ms[k].t, Data(ms[k]))
    BY <1>1, <1>2, <2>1, <2>2
  <2> QED
    BY <2>1, <2>3, MessageType
<1>4. enc \in [1..N -> Seq(Nat)]
  BY <1>1, <1>2, <1>3
<1>5. TargetStream(ms) = FlattenSeq(enc)
  BY <1>1 DEF TargetStream
<1>6. StreamBack(TargetStream(ms), Nat, ms, N)
  BY <1>3, <1>4, <1>5, StreamReadsBack
<1>7. \A s : ClientMessages(s) = Messages(s, Nat)
  BY DEF ClientMessages
<1> DEFINE s == TargetStream(ms)
<1> HIDE DEF s
<1>8. StreamBack(s, Nat, ms, N)
  BY <1>6 DEF s
<1>9. ReadsBack(s, ClientMessages, ms)
  <2>1. PICK m \in Nat : m = Len(s)
    BY <1>8 DEF StreamBack
  <2>2. s \in Seq(Nat) /\ SubSeq(s, 1, m) = s
    BY <1>8, <2>1 DEF StreamBack
  <2>3. \A n \in 0..m : BeginsLike(ClientMessages(SubSeq(s, 1, n)), ms)
    BY <1>7, <1>8, <2>1, Zenon DEF StreamBack
  <2>4. /\ Len(ClientMessages(s)) = N
        /\ \A x \in {ClientMessages(s)[i] : i \in DOMAIN ms} : x.how = "end"
        /\ ClientMessages(s) # << >> => ClientMessages(s)[N].data = Data(ms[N])
    <3>1. m \in 0..m
      OBVIOUS
    <3> QED
      BY <1>7, <1>8, <2>1, <2>2, <3>1, ZenonT(40) DEF StreamBack
  <2>5. BeginsLike(ClientMessages(s), ms)
    <3>1. m \in 0..m
      OBVIOUS
    <3> QED
      BY <2>2, <2>3, <3>1
  <2>6. \A n \in 0..(Len(s) - 1) : BeginsLike(ClientMessages(SubSeq(s, 1, n)), ms)
    BY <2>1, <2>3
  <2> QED
    BY <1>2, <2>4, <2>5, <2>6, Zenon DEF ReadsBack
<1> QED
  BY <1>9 DEF s

(* A list in which each element is replaced by a list of its own.          *)
Replaced(f, u) == FlattenSeq([i \in DOMAIN u |-> f[u[i]]])
Replaces(f, R, S) == f \in [R -> Seq(S)]
ReplacedAs(f, u, S) ==
  \E a \in Seq(Seq(S)) : /\ Replaced(f, u) = FlattenSeq(a) /\ Len(a) = Len(u)
                         /\ \A i \in 1..Len(u) : a[i] = f[u[i]]

LEMMA SameSeq ==
  ASSUME NEW S, NEW x \in Seq(S), NEW y \in Seq(S), NEW n \in Nat,
         Len(x) = n, Len(y) = n, \A i \in 1..n : x[i] = y[i]
  PROVE  x = y
OBVIOUS

LEMMA ReplacedIs ==
  ASSUME NEW R, NEW S, NEW f, Replaces(f, R, S), NEW u \in Seq(R)
  PROVE  ReplacedAs(f, u, S)
<1>1. PICK n \in Nat : n = Len(u) /\ DOMAIN u = 1..n
  OBVIOUS
<1>2. PICK a : a = [i \in 1..n |-> f[u[i]]]
  OBVIOUS
<1>3. a \in [1..n -> Seq(S)]
  <2>1. \A i \in 1..n : u[i] \in R
    BY <1>1
  <2> QED
    BY <1>2, <2>1 DEF Replaces
<1>4. a \in Seq(Seq(S)) /\ Len(a) = n
  BY <1>3, FunctionIsSeq
<1>5. Replaced(f, u) = FlattenSeq(a)
  BY <1>1, <1>2 DEF Replaced
<1>6. \A i \in 1..n : a[i] = f[u[i]]
  BY <1>2
<1> QED
  BY <1>1, <1>4, <1>5, <1>6 DEF ReplacedAs

LEMMA ReplacedType ==
  ASSUME NEW R, NEW S, NEW f, Replaces(f, R, S), NEW u \in Seq(R)
  PROVE  Replaced(f, u) \in Seq(S)
<1>1. ReplacedAs(f, u, S)
  BY ReplacedIs
<1> QED
  BY <1>1, FlattenType DEF ReplacedAs

LEMMA ReplacedConcat ==
  ASSUME NEW R, NEW S, NEW f, Replaces(f, R, S), NEW u \in Seq(R), NEW v \in Seq(R)
  PROVE  Replaced(f, u \o v) = Replaced(f, u) \o Replaced(f, v)
<1>0. \A x \in Seq(R) : ReplacedAs(f, x, S)
  BY ReplacedIs
<1>1. PICK a \in Seq(Seq(S)) : /\ Replaced(f, u) = FlattenSeq(a) /\ Len(a) = Len(u)
                               /\ \A i \in 1..Len(u) : a[i] = f[u[i]]
  BY <1>0 DEF ReplacedAs
<1>2. PICK b \in Seq(Seq(S)) : /\ Replaced(f, v) = FlattenSeq(b) /\ Len(b) = Len(v)
                               /\ \A i \in 1..Len(v) : b[i] = f[v[i]]
  BY <1>0 DEF ReplacedAs
<1>3. PICK m \in Nat, n \in Nat : m = Len(u) /\ n = Len(v)
  OBVIOUS
<1>4. PICK w \in Seq(R) : /\ w = u \o v /\ Len(w) = m + n
                          /\ \A i \in 1..m : w[i] = u[i]
                          /\ \A j \in 1..n : w[m + j] = v[j]
  <2>1. /\ u \o v \in Seq(R) /\ Len(u \o v) = Len(u) + Len(v)
        /\ \A i \in 1..Len(u) : (u \o v)[i] = u[i]
        /\ \A j \in 1..Len(v) : (u \o v)[Len(u) + j] = v[j]
    BY ConcatAt
  <2> QED
    BY <1>3, <2>1
<1>5. PICK c \in Seq(Seq(S)) : /\ Replaced(f, w) = FlattenSeq(c) /\ Len(c) = Len(w)
                               /\ \A i \in 1..Len(w) : c[i] = f[w[i]]
  BY <1>0 DEF ReplacedAs
<1>6. PICK d \in Seq(Seq(S)) : /\ d = a \o b /\ Len(d) = m + n
                               /\ \A i \in 1..m : d[i] = a[i]
                               /\ \A j \in 1..n : d[m + j] = b[j]
  <2>1. /\ a \o b \in Seq(Seq(S)) /\ Len(a \o b) = Len(a) + Len(b)
        /\ \A i \in 1..Len(a) : (a \o b)[i] = a[i]
        /\ \A j \in 1..Len(b) : (a \o b)[Len(a) + j] = b[j]
    BY ConcatAt
  <2>2. Len(a) = m /\ Len(b) = n
    BY <1>1, <1>2, <1>3
  <2>3. PICK d \in Seq(Seq(S)) : d = a \o b
    BY <2>1
  <2> QED
    BY <2>1, <2>2, <2>3
<1>7. ASSUME NEW i \in 1..(m + n) PROVE c[i] = d[i]
  <2>1. c[i] = f[w[i]]
    BY <1>4, <1>5
  <2>2. CASE i <= m
    <3>1. i \in 1..m
      BY <2>2
    <3> QED
      BY <1>1, <1>3, <1>4, <1>6, <2>1, <3>1
  <2>3. CASE i > m
    <3>1. PICK j \in 1..n : i = m + j
      <4>1. i - m \in 1..n /\ i = m + (i - m)
        BY <2>3
      <4> QED
        BY <4>1
    <3>2. w[i] = v[j] /\ d[i] = b[j]
      BY <1>4, <1>6, <3>1
    <3>3. b[j] = f[v[j]]
      BY <1>2, <1>3
    <3> QED
      BY <2>1, <3>2, <3>3
  <2> QED
    BY <2>2, <2>3
<1>8. c = d
  <2>1. Len(c) = m + n /\ Len(d) = m + n
    BY <1>4, <1>5, <1>6
  <2> QED
    BY <1>7, <2>1, SameSeq
<1>9. FlattenSeq(d) = FlattenSeq(a) \o FlattenSeq(b)
  BY <1>6, FlattenConcat
<1> QED
  BY <1>1, <1>2, <1>4, <1>5, <1>8, <1>9

(* Replacing each element by what is worth the same changes nothing.       *)
LEMMA ReplacedAlike ==
  ASSUME NEW R, NEW S, NEW f, Replaces(f, R, S), NEW k, Replaces(k, R, R),
         \A x \in R : Replaced(f, k[x]) = f[x]
  PROVE  \A u \in Seq(R) : Replaced(f, Replaced(k, u)) = Replaced(f, u)
<1>1. ASSUME NEW p \in Seq(R), NEW q \in Seq(R)
      PROVE  Replaced(f, p \o q) = Replaced(f, p) \o Replaced(f, q)
  BY ReplacedConcat
<1>2. ASSUME NEW p \in Seq(R), NEW q \in Seq(R)
      PROVE  Replaced(k, p \o q) = Replaced(k, p) \o Replaced(k, q)
  BY ReplacedConcat
<1> DEFINE T == {n \in Nat : \A u \in Seq(R) :
                   Len(u) = n => Replaced(f, Replaced(k, u)) = Replaced(f, u)}
<1>3. 0 \in T
  <2> SUFFICES ASSUME NEW u \in Seq(R), Len(u) = 0
               PROVE  Replaced(f, Replaced(k, u)) = Replaced(f, u)
    OBVIOUS
  <2>1. u = << >>
    OBVIOUS
  <2>2. \A g : [i \in DOMAIN << >> |-> g[<< >>[i]]] = << >>
    OBVIOUS
  <2>3. \A g : Replaced(g, << >>) = << >>
    BY <2>2, FlattenEmpty DEF Replaced
  <2> QED
    BY <2>1, <2>3
<1>4. ASSUME NEW n \in Nat, n \in T PROVE n + 1 \in T
  <2> SUFFICES ASSUME NEW u \in Seq(R), Len(u) = n + 1
               PROVE  Replaced(f, Replaced(k, u)) = Replaced(f, u)
    OBVIOUS
  <2>1. PICK v \in Seq(R), x \in R : u = v \o <<x>> /\ Len(v) = n
    <3>1. SubSeq(u, 1, n) \in Seq(R) /\ Len(SubSeq(u, 1, n)) = n /\ u[n + 1] \in R
      OBVIOUS
    <3>2. u = SubSeq(u, 1, n) \o <<u[n + 1]>>
      OBVIOUS
    <3> QED
      BY <3>1, <3>2
  <2>2. Replaced(f, Replaced(k, v)) = Replaced(f, v)
    <3>1. \A w \in Seq(R) : Len(w) = n => Replaced(f, Replaced(k, w)) = Replaced(f, w)
      BY <1>4
    <3> QED
      BY <2>1, <3>1
  <2>3. PICK w \in Seq(R) : w = <<x>>
    <3>1. \A A : \A y \in A : <<y>> \in Seq(A)
      OBVIOUS
    <3> QED
      BY <3>1
  <2>4. /\ Replaced(k, u) = Replaced(k, v) \o Replaced(k, w)
        /\ Replaced(f, u) = Replaced(f, v) \o Replaced(f, w)
    BY <1>1, <1>2, <2>1, <2>3
  <2>5. PICK kv \in Seq(R), kw \in Seq(R) : kv = Replaced(k, v) /\ kw = Replaced(k, w)
    BY ReplacedType
  <2>6. kw = k[x] /\ Replaced(f, w) = f[x]
    <3>1. \A g : [i \in DOMAIN <<x>> |-> g[<<x>>[i]]] = <<g[x]>>
      OBVIOUS
    <3>2. k[x] \in Seq(R) /\ f[x] \in Seq(S)
      BY DEF Replaces
    <3> QED
      BY <2>3, <2>5, <3>1, <3>2, FlattenOne DEF Replaced
  <2>7. Replaced(f, kv \o kw) = Replaced(f, kv) \o Replaced(f, kw)
    BY <1>1
  <2>8. Replaced(f, kw) = f[x]
    BY <2>6
  <2> QED
    BY <2>2, <2>4, <2>5, <2>6, <2>7, <2>8
<1>5. \A n \in Nat : n \in T
  <2> HIDE DEF T
  <2> QED
    BY <1>3, <1>4, Induction
<1> QED
  <2> SUFFICES ASSUME NEW u \in Seq(R)
               PROVE  Replaced(f, Replaced(k, u)) = Replaced(f, u)
    OBVIOUS
  <2>1. Len(u) \in T
    BY <1>5
  <2> QED
    BY <2>1

(* What a target may send: of an empty message there is nothing to read.   *)
Sendable == [t : Types, parts : Seq(Seq(Nat))]

(* The messages that the client is to get, and what is sent for the others.*)
LEMMA KeptStream ==
  ASSUME NEW ms \in Seq(Sendable)
  PROVE  /\ Kept(ms) \in Seq([t : Types, parts : Slicing])
         /\ TargetStream(Kept(ms)) = TargetStream(ms)
<1> DEFINE Full == [t : Types, parts : Slicing]
           k == [x \in Sendable |-> IF x.parts = << >> THEN << >> ELSE <<x>>]
           f == [x \in Sendable |-> Relayed(x.t, x.parts)]
<1>1. ASSUME NEW x \in Sendable
      PROVE  k[x] \in Seq(Full) /\ f[x] \in Seq(Nat) /\ Replaced(f, k[x]) = f[x]
  <2>0. x.t \in Nat /\ x.parts \in Seq(Seq(Nat))
    BY DEF Sendable, Types
  <2>1. CASE x.parts = << >>
    <3>1. k[x] = << >> /\ f[x] = << >>
      BY <2>1 DEF Relayed
    <3>2. [i \in DOMAIN << >> |-> f[<< >>[i]]] = << >>
      OBVIOUS
    <3>3. Replaced(f, << >>) = << >>
      <4> HIDE DEF f
      <4> QED
        BY <3>2, FlattenEmpty DEF Replaced
    <3>4. << >> \in Seq(Full) /\ << >> \in Seq(Nat)
      OBVIOUS
    <3> QED
      <4> HIDE DEF f, k, Full
      <4> QED
        BY <3>1, <3>3, <3>4
  <2>2. CASE x.parts # << >>
    <3>1. k[x] = <<x>> /\ f[x] = Relayed(x.t, x.parts)
      BY <2>2
    <3>2. x.parts \in Slicing
      BY <2>0, <2>2 DEF Slicing
    <3>3. x \in Full
      BY <3>2 DEF Sendable
    <3>4. IsMessage(f[x], x.t, FlattenSeq(x.parts))
      <4>1. IsMessage(Relayed(x.t, x.parts), x.t, FlattenSeq(x.parts))
        BY <2>0, <3>2, RelayedIsMessage
      <4> QED
        BY <3>1, <4>1
    <3>5. f[x] \in Seq(Nat)
      <4> HIDE DEF f
      <4> QED
        BY <3>4, MessageType
    <3>6. <<x>> \in Seq(Full)
      <4> HIDE DEF Full
      <4> QED
        BY <3>3
    <3>7. Replaced(f, <<x>>) = f[x]
      <4> HIDE DEF f
      <4>1. [i \in DOMAIN <<x>> |-> f[<<x>>[i]]] = <<f[x]>>
        OBVIOUS
      <4> QED
        BY <3>5, <4>1, FlattenOne DEF Replaced
    <3> QED
      <4> HIDE DEF f, k, Full
      <4> QED
        BY <3>1, <3>5, <3>6, <3>7
  <2> QED
    BY <2>1, <2>2
<1>2. Replaces(k, Sendable, Full) /\ Replaces(f, Sendable, Nat)
  <2>1. DOMAIN k = Sendable /\ DOMAIN f = Sendable
        /\ k = [x \in Sendable |-> k[x]] /\ f = [x \in Sendable |-> f[x]]
    OBVIOUS
  <2> HIDE DEF k, f, Full
  <2> QED
    BY <1>1, <2>1 DEF Replaces
<1>3. Full \subseteq Sendable
  BY DEF Sendable, Slicing
<1>4. Replaces(k, Sendable, Sendable)
  <2> HIDE DEF k, Full
  <2>1. \A x \in Sendable : k[x] \in Seq(Sendable)
    <3>1. \A A, B : A \subseteq B => Seq(A) \subseteq Seq(B)
      OBVIOUS
    <3> QED
      BY <1>1, <1>3, <3>1
  <2> QED
    BY <1>2, <2>1 DEF Replaces
<1>5. \A u \in Seq(Sendable) : TargetStream(u) = Replaced(f, u)
  <2> SUFFICES ASSUME NEW u \in Seq(Sendable) PROVE TargetStream(u) = Replaced(f, u)
    OBVIOUS
  <2>1. \A i \in DOMAIN u : u[i] \in Sendable
    OBVIOUS
  <2>2. [i \in DOMAIN u |-> Relayed(u[i].t, u[i].parts)] = [i \in DOMAIN u |-> f[u[i]]]
    BY <2>1
  <2> HIDE DEF f
  <2> QED
    BY <2>2 DEF TargetStream, Replaced
<1>6. Kept(ms) = Replaced(k, ms)
  <2>1. \A i \in DOMAIN ms : ms[i] \in Sendable
    OBVIOUS
  <2>2. [i \in DOMAIN ms |-> IF ms[i].parts = << >> THEN << >> ELSE <<ms[i]>>]
          = [i \in DOMAIN ms |-> k[ms[i]]]
    BY <2>1
  <2> HIDE DEF k
  <2> QED
    BY <2>2 DEF Kept, Replaced
<1> HIDE DEF k, f
<1>7. Kept(ms) \in Seq(Full)
  <2> HIDE DEF Full
  <2> QED
    BY <1>2, <1>6, ReplacedType
<1>8. Kept(ms) \in Seq(Sendable)
  <2> HIDE DEF Full
  <2> QED
    BY <1>4, <1>6, ReplacedType
<1>9. Replaced(f, Replaced(k, ms)) = Replaced(f, ms)
  <2>1. \A x \in Sendable : Replaced(f, k[x]) = f[x]
    BY <1>1
  <2> HIDE DEF Full
  <2> QED
    BY <1>2, <1>4, <2>1, ReplacedAlike
<1> QED
  BY <1>5, <1>6, <1>7, <1>8, <1>9

(* Whatever messages a target sends, in whatever Reads the server gets     *)
(* them, the client reads all that are not empty, as they were and in their*)
(* order, and nothing else; and if the stream breaks off anywhere, a       *)
(* beginning of them.  An empty message is lost                            *)
(* (server_handler.go:239-286, websocket.go:94-160).                       *)
THEOREM MessagesReachClient ==
  ASSUME NEW ms \in Seq(Sendable)
  PROVE  ReadsBack(TargetStream(ms), ClientMessages, Kept(ms))
<1>1. PICK kept : kept = Kept(ms)
  OBVIOUS
<1>2. Outgoing(kept, Len(kept)) /\ Len(kept) \in Nat
  <2>1. PICK R : R = [t : Types, parts : Slicing]
    OBVIOUS
  <2>2. kept \in Seq(R)
    BY <1>1, <2>1, KeptStream
  <2>3. Len(kept) \in Nat
    BY <2>2
  <2> QED
    BY <2>1, <2>2, <2>3 DEF Outgoing
<1>3. ReadsBack(TargetStream(kept), ClientMessages, kept)
  BY <1>2, KeptReachClient
<1> QED
  BY <1>1, <1>3, KeptStream
=============================================================================
