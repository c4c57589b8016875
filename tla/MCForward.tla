------------------------------ MODULE MCForward ------------------------------
(***************************************************************************)
(* The exchange and the tunnel of Forward, and inside of a websocket tunnel*)
(* the framing of its messages.                                            *)
(***************************************************************************)
EXTENDS Forward, WebsocketFraming

(* In a websocket tunnel the messages of a client come out at the target as*)
(* they went in, if each was written to at least once, and those of the    *)
(* target at the client, but for the empty ones, of which readWS sends     *)
(* nothing; whatever the sizes of slices and fragments.  If the stream     *)
(* breaks off, a beginning of them comes out, of which only the last can be*)
(* short (websocket.go:94-238, server_handler.go:239-322).                 *)
FramesReadBack ==
  req.kind = "ws" =>
    /\ \A ms \in LostToTarget : Len(ms) > moved.upIn
    /\ \A ms \in LostToClient : Len(ms) > moved.downIn
=============================================================================
