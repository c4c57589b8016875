------------------------------ MODULE IOChannel ------------------------------
(***************************************************************************)
(* Both ends of one established channel of a tcp-chain: the two ioChannel  *)
(* values (channel.go), each with its goroutines Serve and serveConfirm and*)
(* its application, and the part of the two transports that a channel sees *)
(* (client_transport.go, server_transport.go): the reader loop that        *)
(* dispatches Write, Confirm and Close frames, the keys map entry of the   *)
(* channel, sendClose, and the end of the transport.                       *)
(*                                                                         *)
(* Data.  The k-th byte that an end accepts for sending is the number k, so*)
(* a slice of the byte stream is an interval (lo, hi], and its length is   *)
(* hi - lo.  An acknowledgement is the interval of the bytes it is about;  *)
(* handlers use only its length, which is what the frame carries.          *)
(*                                                                         *)
(* net[e] is what e has handed to its transport and its peer's reader has  *)
(* not taken: the queue t.ch, the bufio writer and the TCP stream, one     *)
(* FIFO.  Who waits for room in t.ch has not taken its step yet; when there*)
(* will never be room again, t.ch is full for good.  How other channels and*)
(* a failing connection bring that about is Transport.                     *)
(***************************************************************************)
EXTENDS Integers, Sequences, FiniteSets

CONSTANTS
  Window,          \* size of the receive pipe of each end (opts.window)
  MaxUint16,       \* largest length that a Write or Confirm frame can carry
  RecvBuf,         \* largest piece of a Write frame the reader takes at once
  SendConfirmCap,  \* capacity of the Go channel sendConfirm
  MaxBytes,        \* bound: bytes that the application of each end writes
  CanJam           \* bound: ends whose transport may jam, see Jam

Ends == {"client", "server"}

ASSUME WindowAssumption == Window \in [Ends -> Nat \ {0}]
ASSUME FrameAssumption == MaxUint16 \in Nat \ {0} /\ RecvBuf \in Nat \ {0}
ASSUME QueueAssumption == SendConfirmCap \in Nat \ {0}
ASSUME BoundAssumption == MaxBytes \in [Ends -> Nat] /\ CanJam \in SUBSET Ends

VARIABLES
  net,         \* net[e]: frames of e on their way to its peer
  b,           \* b[e]: what Serve still has to send; b.lo bytes are sent
  writed,      \* writed[e]: bytes sent and not confirmed, as Serve counts
  pcServe,     \* where Serve is
  confirm,     \* confirm[e]: content of the Go channel confirm, 0 if empty
  pipe,        \* pipe[e]: received and not yet read by the application
  reading,     \* reading[e]: read, the Read call not yet done with sendConfirm
  sendConfirm, \* sendConfirm[e]: content of the Go channel sendConfirm
  confirmed,   \* confirmed[e]: what serveConfirm has still to confirm
  pcConfirm,   \* where serveConfirm is
  closed,      \* closed[e]: ioChannel.Close was called
  keys,        \* keys[e]: the transport of e still has the channel in keys
  link,        \* link[e]: "up", "closed" (done), "exited" (reader ended too)
  at,          \* at[e]: the reader loop is in "loop", or waits in "sendClose"
  full,        \* full[e]: t.ch is full and nobody will take from it any more
  overflow     \* history: the ends whose Confirm has reported an overflow

serveVars   == <<b, writed, pcServe>>
readVars    == <<pipe, reading>>
confirmVars == <<sendConfirm, confirmed, pcConfirm>>
loopVars    == <<at, full>>
lifeVars    == <<closed, keys, link, loopVars>>
vars == <<net, serveVars, confirm, readVars, confirmVars, lifeVars, overflow>>

Peer(e) == IF e = "client" THEN "server" ELSE "client"

Slice == [lo : Nat, hi : Nat]
Interval(l, h) == [lo |-> l, hi |-> h]
Size(s) == s.hi - s.lo
Least(m, n) == IF m <= n THEN m ELSE n

Frame == [cmd : {"Write", "Confirm", "Close"}, lo : Nat, hi : Nat]
WriteFrame(l, h) == [cmd |-> "Write", lo |-> l, hi |-> h]
ConfirmFrame(l, h) == [cmd |-> "Confirm", lo |-> l, hi |-> h]
CloseFrame == [cmd |-> "Close", lo |-> 0, hi |-> 0]

(* The peer's window, as the hello exchange has announced it.              *)
remoteWindow(e) == Window[Peer(e)]

(* A select on the two done channels has a ready case.                     *)
Down(e) == closed[e] \/ link[e] # "up"

TypeOK ==
  /\ net \in [Ends -> Seq(Frame)]
  /\ b \in [Ends -> Slice]
  /\ writed \in [Ends -> Nat]
  /\ pcServe \in [Ends -> {"choose", "send", "delete", "sendClose", "done"}]
  /\ confirm \in [Ends -> Nat]
  /\ pipe \in [Ends -> Slice]
  /\ reading \in [Ends -> Slice]
  /\ sendConfirm \in [Ends -> Seq(Slice)]
  /\ confirmed \in [Ends -> Slice]
  /\ pcConfirm \in [Ends -> {"wait", "gather", "send", "done"}]
  /\ closed \in [Ends -> BOOLEAN]
  /\ keys \in [Ends -> BOOLEAN]
  /\ link \in [Ends -> {"up", "closed", "exited"}]
  /\ at \in [Ends -> {"loop", "sendClose"}]
  /\ full \in [Ends -> BOOLEAN]
  /\ overflow \in SUBSET Ends

Init ==
  /\ net = [e \in Ends |-> << >>]
  /\ b = [e \in Ends |-> Interval(0, 0)]
  /\ writed = [e \in Ends |-> 0]
  /\ pcServe = [e \in Ends |-> "choose"]
  /\ confirm = [e \in Ends |-> 0]
  /\ pipe = [e \in Ends |-> Interval(0, 0)]
  /\ reading = [e \in Ends |-> Interval(0, 0)]
  /\ sendConfirm = [e \in Ends |-> << >>]
  /\ confirmed = [e \in Ends |-> Interval(0, 0)]
  /\ pcConfirm = [e \in Ends |-> "wait"]
  /\ closed = [e \in Ends |-> FALSE]
  /\ keys = [e \in Ends |-> TRUE]
  /\ link = [e \in Ends |-> "up"]
  /\ at = [e \in Ends |-> "loop"]
  /\ full = [e \in Ends |-> FALSE]
  /\ overflow = {}

-----------------------------------------------------------------------------
(* t.ch <- frame, as one case of a select.                                 *)
Enqueue(e, f) ==
  /\ ~full[e]
  /\ net' = [net EXCEPT ![e] = Append(@, f)]

(* sendClose: a Close goes into t.ch, or the transport is done.            *)
SendClose(e) == Enqueue(e, CloseFrame) \/ (link[e] # "up" /\ UNCHANGED net)

-----------------------------------------------------------------------------
(* The goroutine Serve.                                                    *)

(* Where the loops of Serve stop next, with s unsent and w unconfirmed:    *)
(* back in choose when nothing may be sent, else at the send of a frame.   *)
AfterLoop(e, s, w) ==
  IF Size(s) = 0 \/ remoteWindow(e) - w = 0 THEN "choose" ELSE "send"

(* Write hands n bytes to Serve, which waits for them in choose: the case  *)
(* c.write <- buffer of Write meets the case data = <-c.write of choose.   *)
(* Both selects may take it when the channel is closed already.            *)
Write(e, n) ==
  /\ pcServe[e] = "choose"
  /\ Size(b[e]) = 0
  /\ b[e].hi + n <= MaxBytes[e]
  /\ b' = [b EXCEPT ![e] = Interval(b[e].lo, b[e].hi + n)]
  /\ pcServe' = [pcServe EXCEPT ![e] = AfterLoop(e, b'[e], writed[e])]
  /\ UNCHANGED <<net, writed, confirm, readVars, confirmVars, lifeVars,
                 overflow>>

(* Mutant: a confirmation is taken to give the whole window back.          *)
ChooseConfirmUnchecked(e) ==
  LET w == writed[e] - remoteWindow(e)
  IN  /\ pcServe[e] = "choose"
      /\ confirm[e] # 0
      /\ confirm' = [confirm EXCEPT ![e] = 0]
      /\ writed' = [writed EXCEPT ![e] = w]
      /\ pcServe' = [pcServe EXCEPT ![e] = AfterLoop(e, b[e], w)]
      /\ UNCHANGED <<net, b, readVars, confirmVars, lifeVars, overflow>>

(* choose takes a confirmation; Serve leaves its loop if it is too large.  *)
ChooseConfirm(e) ==
  LET excess == confirm[e] > writed[e]
      w == IF excess THEN writed[e] ELSE writed[e] - confirm[e]
  IN  /\ pcServe[e] = "choose"
      /\ confirm[e] # 0
      /\ confirm' = [confirm EXCEPT ![e] = 0]
      /\ writed' = [writed EXCEPT ![e] = w]
      /\ closed' = [closed EXCEPT ![e] = @ \/ excess]
      /\ pcServe' = [pcServe EXCEPT ![e] =
                       IF excess THEN "delete" ELSE AfterLoop(e, b[e], w)]
      /\ UNCHANGED <<net, b, readVars, confirmVars, keys, link, loopVars,
                     overflow>>

(* Mutant: the window is not applied.                                      *)
SendSizeUnlimited(e) == Least(Size(b[e]), MaxUint16)

(* The length of the next frame: all that is left, within the window of    *)
(* the peer and within the 16 bits of the length field.                    *)
SendSize(e) == Least(Least(Size(b[e]), remoteWindow(e) - writed[e]), MaxUint16)

(* Mutant: the frame overtakes what the transport has not sent yet.        *)
SendWriteOvertakes(e) ==
  LET n == SendSize(e)
      s == Interval(b[e].lo + n, b[e].hi)
  IN  /\ pcServe[e] = "send"
      /\ net' = [net EXCEPT ![e] = <<WriteFrame(b[e].lo, b[e].lo + n)>> \o @]
      /\ writed' = [writed EXCEPT ![e] = @ + n]
      /\ b' = [b EXCEPT ![e] = s]
      /\ pcServe' = [pcServe EXCEPT ![e] = AfterLoop(e, s, writed[e] + n)]
      /\ UNCHANGED <<confirm, readVars, confirmVars, lifeVars, overflow>>

SendWrite(e) ==
  LET n == SendSize(e)
      s == Interval(b[e].lo + n, b[e].hi)
  IN  /\ pcServe[e] = "send"
      /\ Enqueue(e, WriteFrame(b[e].lo, b[e].lo + n))
      /\ writed' = [writed EXCEPT ![e] = @ + n]
      /\ b' = [b EXCEPT ![e] = s]
      /\ pcServe' = [pcServe EXCEPT ![e] = AfterLoop(e, s, writed[e] + n)]
      /\ UNCHANGED <<confirm, readVars, confirmVars, lifeVars, overflow>>

(* A done channel is ready in choose or at the send: Serve leaves its loop,*)
(* drops what it has not sent, and its deferred function closes the channel*)
ServeExit(e) ==
  /\ pcServe[e] \in {"choose", "send"}
  /\ Down(e)
  /\ closed' = [closed EXCEPT ![e] = TRUE]
  /\ pcServe' = [pcServe EXCEPT ![e] = "delete"]
  /\ UNCHANGED <<net, b, writed, confirm, readVars, confirmVars, keys, link,
                 loopVars, overflow>>

(* Mutants: delete without sendClose; sendClose without delete.            *)
ServeDeleteKeeps(e) ==
  /\ pcServe[e] = "delete"
  /\ pcServe' = [pcServe EXCEPT ![e] = "sendClose"]
  /\ UNCHANGED <<net, b, writed, confirm, readVars, confirmVars, lifeVars,
                 overflow>>
ServeDeleteSilent(e) ==
  /\ pcServe[e] = "delete"
  /\ keys' = [keys EXCEPT ![e] = FALSE]
  /\ pcServe' = [pcServe EXCEPT ![e] = "done"]
  /\ UNCHANGED <<net, b, writed, confirm, readVars, confirmVars, closed, link,
                 loopVars, overflow>>

(* transport.delete: the entry goes; only who removes it sends a Close.    *)
ServeDelete(e) ==
  /\ pcServe[e] = "delete"
  /\ keys' = [keys EXCEPT ![e] = FALSE]
  /\ pcServe' = [pcServe EXCEPT ![e] = IF keys[e] THEN "sendClose" ELSE "done"]
  /\ UNCHANGED <<net, b, writed, confirm, readVars, confirmVars, closed, link,
                 loopVars, overflow>>

ServeSendClose(e) ==
  /\ pcServe[e] = "sendClose"
  /\ pcServe' = [pcServe EXCEPT ![e] = "done"]
  /\ SendClose(e)
  /\ UNCHANGED <<b, writed, confirm, readVars, confirmVars, lifeVars, overflow>>

-----------------------------------------------------------------------------
(* The application: Read, in one goroutine per end, and Close.             *)

(* PipeReader.Read: n bytes, still there when the channel is closed.       *)
Read(e, n) ==
  /\ Size(reading[e]) = 0
  /\ n <= Size(pipe[e])
  /\ pipe' = [pipe EXCEPT ![e] = Interval(pipe[e].lo + n, pipe[e].hi)]
  /\ reading' = [reading EXCEPT ![e] = Interval(pipe[e].lo, pipe[e].lo + n)]
  /\ UNCHANGED <<net, serveVars, confirm, confirmVars, lifeVars, overflow>>

(* The select at the end of ioChannel.Read: queue the number of bytes, wait*)
(* for room in the queue, or give up when a done channel is ready.         *)
ReadConfirm(e) ==
  /\ Size(reading[e]) # 0
  /\ reading' = [reading EXCEPT ![e] = Interval(reading[e].hi, reading[e].hi)]
  /\ \/ /\ Len(sendConfirm[e]) < SendConfirmCap
        /\ sendConfirm' = [sendConfirm EXCEPT ![e] = Append(@, reading[e])]
     \/ Down(e) /\ UNCHANGED sendConfirm
  /\ UNCHANGED <<net, serveVars, confirm, pipe, confirmed, pcConfirm, lifeVars,
                 overflow>>

Close(e) ==
  /\ ~closed[e]
  /\ closed' = [closed EXCEPT ![e] = TRUE]
  /\ UNCHANGED <<net, serveVars, confirm, readVars, confirmVars, keys, link,
                 loopVars, overflow>>

-----------------------------------------------------------------------------
(* The goroutine serveConfirm.                                             *)

(* It gathers what is queued until it has a third of the peer's window.    *)
AfterGather(e, s) ==
  IF Size(s) < remoteWindow(e) \div 3 THEN "gather" ELSE "send"

(* Adding the queued s to c adds the lengths.                              *)
Add(c, s) == Interval(s.lo - Size(c), s.hi)

TakeConfirm(e) ==
  /\ pcConfirm[e] = "wait"
  /\ sendConfirm[e] # << >>
  /\ confirmed' = [confirmed EXCEPT ![e] = Head(sendConfirm[e])]
  /\ sendConfirm' = [sendConfirm EXCEPT ![e] = Tail(@)]
  /\ pcConfirm' = [pcConfirm EXCEPT ![e] = AfterGather(e, confirmed'[e])]
  /\ UNCHANGED <<net, serveVars, confirm, readVars, lifeVars, overflow>>

GatherConfirm(e) ==
  /\ pcConfirm[e] = "gather"
  /\ sendConfirm[e] # << >>
  /\ confirmed' = [confirmed EXCEPT ![e] =
                     Add(confirmed[e], Head(sendConfirm[e]))]
  /\ sendConfirm' = [sendConfirm EXCEPT ![e] = Tail(@)]
  /\ pcConfirm' = [pcConfirm EXCEPT ![e] = AfterGather(e, confirmed'[e])]
  /\ UNCHANGED <<net, serveVars, confirm, readVars, lifeVars, overflow>>

(* Mutant: what was gathered is dropped when nothing more is queued.       *)
GatherEndDrops(e) ==
  /\ pcConfirm[e] = "gather"
  /\ sendConfirm[e] = << >>
  /\ pcConfirm' = [pcConfirm EXCEPT ![e] = "wait"]
  /\ UNCHANGED <<net, serveVars, confirm, readVars, sendConfirm, confirmed,
                 lifeVars, overflow>>

GatherEnd(e) ==
  /\ pcConfirm[e] = "gather"
  /\ sendConfirm[e] = << >>
  /\ pcConfirm' = [pcConfirm EXCEPT ![e] = "send"]
  /\ UNCHANGED <<net, serveVars, confirm, readVars, sendConfirm, confirmed,
                 lifeVars, overflow>>

SendConfirm(e) ==
  LET ok == Least(Size(confirmed[e]), MaxUint16)
      l == confirmed[e].lo
      rest == Interval(l + ok, confirmed[e].hi)
  IN  /\ pcConfirm[e] = "send"
      /\ Enqueue(e, ConfirmFrame(l, l + ok))
      /\ confirmed' = [confirmed EXCEPT ![e] = rest]
      /\ pcConfirm' = [pcConfirm EXCEPT ![e] =
                         IF Size(rest) = 0 THEN "wait" ELSE "send"]
      /\ UNCHANGED <<serveVars, confirm, readVars, sendConfirm, lifeVars,
                     overflow>>

ConfirmExit(e) ==
  /\ pcConfirm[e] # "done"
  /\ Down(e)
  /\ pcConfirm' = [pcConfirm EXCEPT ![e] = "done"]
  /\ UNCHANGED <<net, serveVars, confirm, readVars, sendConfirm, confirmed,
                 lifeVars, overflow>>

-----------------------------------------------------------------------------
(* The reader loop of the transport of e, one frame or piece at a time.    *)

HasFrame(e, cmd) ==
  /\ link[e] # "exited" /\ at[e] = "loop"
  /\ net[Peer(e)] # << >>
  /\ Head(net[Peer(e)]).cmd = cmd

Dequeue(e) == [net EXCEPT ![Peer(e)] = Tail(@)]

ToSendClose(e) == at' = [at EXCEPT ![e] = "sendClose"] /\ UNCHANGED full

(* The rest of a case of the loop, when it ends with sendClose(id).        *)
ReaderSendClose(e) ==
  /\ at[e] = "sendClose"
  /\ SendClose(e)
  /\ at' = [at EXCEPT ![e] = "loop"]
  /\ UNCHANGED <<serveVars, confirm, readVars, confirmVars, closed, keys, link,
                 full, overflow>>

(* Mutant: the pipe takes data after it was closed.                        *)
ReaderWriteClosed(e) ==
  LET f == Head(net[Peer(e)])
      n == Least(Size(f), RecvBuf)
  IN  /\ HasFrame(e, "Write")
      /\ net' = IF n = Size(f)
                  THEN Dequeue(e)
                  ELSE [net EXCEPT ![Peer(e)] =
                          [@ EXCEPT ![1] = WriteFrame(f.lo + n, f.hi)]]
      /\ pipe' = IF keys[e]
                   THEN [pipe EXCEPT ![e] = Interval(pipe[e].lo, pipe[e].hi + n)]
                   ELSE pipe
      /\ UNCHANGED <<serveVars, confirm, reading, confirmVars, lifeVars, overflow>>

(* A Write frame, RecvBuf bytes at a time: ioChannel.Pipe stores a piece,  *)
(* or closes the channel when it does not fit or the pipe is closed.       *)
(* Without an entry in keys the piece is dropped; the answer with a Close  *)
(* is never sent, healthy being FALSE throughout.                          *)
ReaderWrite(e) ==
  LET f == Head(net[Peer(e)])
      n == Least(Size(f), RecvBuf)
      fits == Size(pipe[e]) + n <= Window[e]
  IN  /\ HasFrame(e, "Write")
      /\ net' = IF n = Size(f)
                  THEN Dequeue(e)
                  ELSE [net EXCEPT ![Peer(e)] =
                          [@ EXCEPT ![1] = WriteFrame(f.lo + n, f.hi)]]
      /\ pipe' = IF keys[e] /\ ~closed[e] /\ fits
                   THEN [pipe EXCEPT ![e] = Interval(pipe[e].lo, pipe[e].hi + n)]
                   ELSE pipe
      /\ closed' = [closed EXCEPT ![e] = @ \/ (keys[e] /\ ~fits)]
      /\ UNCHANGED <<serveVars, confirm, reading, confirmVars, keys, link,
                     loopVars, overflow>>

(* ioChannel.Confirm finds the Go channel confirm empty ...                *)
ReaderConfirm(e) ==
  /\ HasFrame(e, "Confirm")
  /\ keys[e]
  /\ confirm[e] = 0
  /\ confirm' = [confirm EXCEPT ![e] = Size(Head(net[Peer(e)]))]
  /\ net' = Dequeue(e)
  /\ UNCHANGED <<serveVars, readVars, confirmVars, lifeVars, overflow>>

(* ... or full: it takes the old value out and adds it to the new one,     *)
MergedConfirm(e) == confirm[e] + Size(Head(net[Peer(e)]))

IsOverflow(e, val) == val >= remoteWindow(e)

(* Mutant: the value taken out of the channel is not added.                *)
ReaderMergeLoses(e) ==
  /\ HasFrame(e, "Confirm")
  /\ keys[e]
  /\ confirm[e] # 0
  /\ confirm' = [confirm EXCEPT ![e] = Size(Head(net[Peer(e)]))]
  /\ net' = Dequeue(e)
  /\ UNCHANGED <<serveVars, readVars, confirmVars, lifeVars, overflow>>

ReaderMerge(e) ==
  /\ HasFrame(e, "Confirm")
  /\ keys[e]
  /\ confirm[e] # 0
  /\ ~IsOverflow(e, MergedConfirm(e))
  /\ confirm' = [confirm EXCEPT ![e] = MergedConfirm(e)]
  /\ net' = Dequeue(e)
  /\ UNCHANGED <<serveVars, readVars, confirmVars, lifeVars, overflow>>

(* and reports an overflow when the sum reaches the window.  Both values   *)
(* are lost.  The client closes the channel and sends a Close; the server  *)
(* only sends a Close.                                                     *)
ReaderOverflow(e) ==
  /\ HasFrame(e, "Confirm")
  /\ keys[e]
  /\ confirm[e] # 0
  /\ IsOverflow(e, MergedConfirm(e))
  /\ confirm' = [confirm EXCEPT ![e] = 0]
  /\ overflow' = overflow \cup {e}
  /\ closed' = [closed EXCEPT ![e] = @ \/ e = "client"]
  /\ net' = Dequeue(e)
  /\ ToSendClose(e)
  /\ UNCHANGED <<serveVars, readVars, confirmVars, keys, link>>

(* Confirm returns at once when a done channel is ready.                   *)
ReaderConfirmDown(e) ==
  /\ HasFrame(e, "Confirm")
  /\ keys[e]
  /\ Down(e)
  /\ net' = Dequeue(e)
  /\ UNCHANGED <<serveVars, confirm, readVars, confirmVars, lifeVars, overflow>>

(* A Confirm for a channel that is not in keys is answered with a Close.   *)
ReaderConfirmUnknown(e) ==
  /\ HasFrame(e, "Confirm")
  /\ ~keys[e]
  /\ net' = Dequeue(e)
  /\ ToSendClose(e)
  /\ UNCHANGED <<serveVars, confirm, readVars, confirmVars, closed, keys, link,
                 overflow>>

(* A Close frame closes the channel and removes it, if it is in keys.      *)
ReaderClose(e) ==
  /\ HasFrame(e, "Close")
  /\ closed' = [closed EXCEPT ![e] = @ \/ keys[e]]
  /\ keys' = [keys EXCEPT ![e] = FALSE]
  /\ net' = Dequeue(e)
  /\ UNCHANGED <<serveVars, confirm, readVars, confirmVars, link, loopVars,
                 overflow>>

(* Client.serve closes its transports when the Client is closed; frames    *)
(* that the bufio reader holds may still be dispatched.                    *)
TransportClose ==
  /\ link["client"] = "up"
  /\ link' = [link EXCEPT !["client"] = "closed"]
  /\ UNCHANGED <<net, serveVars, confirm, readVars, confirmVars, closed, keys,
                 loopVars, overflow>>

(* A read from the connection fails (TCP failure, the peer is gone, the    *)
(* transport was closed): the reader closes what is in keys and then the   *)
(* transport.  Frames not yet read are lost.                               *)
ReaderExit(e) ==
  /\ link[e] # "exited" /\ at[e] = "loop"
  /\ link' = [link EXCEPT ![e] = "exited"]
  /\ closed' = [closed EXCEPT ![e] = @ \/ keys[e]]
  /\ UNCHANGED <<net, serveVars, confirm, readVars, confirmVars, keys, loopVars,
                 overflow>>

(* The reader loop is in sendClose, for this or another channel, and t.ch  *)
(* is full for good: serveWrite has ended with a write error, and closed   *)
(* the connection but not the transport; or both loops wait like this and  *)
(* all that is between them is full.  Only t.done lets anyone go on.       *)
Jam(e) ==
  /\ e \in CanJam
  /\ link[e] = "up"
  /\ ~full[e]
  /\ full' = [full EXCEPT ![e] = TRUE]
  /\ at' = [at EXCEPT ![e] = "sendClose"]
  /\ UNCHANGED <<net, serveVars, confirm, readVars, confirmVars, closed, keys,
                 link, overflow>>

-----------------------------------------------------------------------------
ServeStep(e) ==
  \/ ChooseConfirm(e)
  \/ SendWrite(e)
  \/ ServeExit(e)
  \/ ServeDelete(e)
  \/ ServeSendClose(e)

ConfirmStep(e) ==
  \/ TakeConfirm(e)
  \/ GatherConfirm(e)
  \/ GatherEnd(e)
  \/ SendConfirm(e)
  \/ ConfirmExit(e)

ReadStep(e) ==
  \/ \E n \in 1..Window[e] : Read(e, n)
  \/ ReadConfirm(e)

ReaderStep(e) ==
  \/ ReaderWrite(e)
  \/ ReaderConfirm(e)
  \/ ReaderMerge(e)
  \/ ReaderOverflow(e)
  \/ ReaderConfirmDown(e)
  \/ ReaderConfirmUnknown(e)
  \/ ReaderClose(e)
  \/ ReaderSendClose(e)

Next ==
  \/ \E e \in Ends :
       \/ \E n \in 1..MaxBytes[e] : Write(e, n)
       \/ ServeStep(e)
       \/ ConfirmStep(e)
       \/ ReadStep(e)
       \/ ReaderStep(e)
       \/ Close(e)
       \/ ReaderExit(e)
       \/ Jam(e)
  \/ TransportClose

Safe == Init /\ [][Next]_vars

(* The read from the connection is bound to fail once either transport, or *)
(* the serveWrite of the peer alone, has closed the connection.            *)
ReaderEOF(e) ==
  /\ \/ link[e] = "closed" \/ link[Peer(e)] # "up"
     \/ full[Peer(e)] /\ ~full[e]
  /\ ReaderExit(e)

(* Every goroutine that can take a step takes one - there is room in t.ch  *)
(* sooner or later, unless it is full for good - and the application keeps *)
(* reading.  Nothing makes it write or close, or the network fail.         *)
Fairness ==
  \A e \in Ends :
    /\ WF_vars(ServeStep(e))
    /\ WF_vars(ConfirmStep(e))
    /\ WF_vars(ReadStep(e))
    /\ WF_vars(ReaderStep(e))
    /\ WF_vars(ReaderEOF(e))

Spec == Safe /\ Fairness

-----------------------------------------------------------------------------
(* Properties.                                                             *)

(* Flow control: what one end has sent and the other has not read fits the *)
(* receive pipe of the other, so ReadWriter.Write never reports an overflow*)
(* and Pipe never closes a channel (channel.go:158-167, 384-389).          *)
WindowRespected ==
  \A e \in Ends : b[e].lo - pipe[Peer(e)].lo <= Window[Peer(e)]

(* A stored confirmation never exceeds what Serve has outstanding: the exit*)
(* for confirm > writed, and a wrap-around of the unsigned writed, never   *)
(* happen (channel.go:149-154).                                            *)
ConfirmWithinWrited == \A e \in Ends : confirm[e] <= writed[e]

Bytes(s) == (s.lo + 1)..s.hi

(* What Serve has subtracted from writed or is about to.                   *)
Applied(e) == b[e].lo - writed[e] + confirm[e]
FramesOf(e, cmd) == {net[e][i] : i \in {j \in DOMAIN net[e] : net[e][j].cmd = cmd}}

(* The first Write frame that an open end will take continues its stream   *)
(* exactly where the last piece ended: no byte is lost, repeated or out of *)
(* order, whatever the frame sizes (channel.go:157-183, Write case of the  *)
(* reader loops).                                                          *)
InOrder ==
  \A e \in Ends : \A i \in DOMAIN net[Peer(e)] :
    (/\ ~closed[e]
     /\ net[Peer(e)][i].cmd = "Write"
     /\ \A j \in 1..(i - 1) : net[Peer(e)][j].cmd # "Write")
      => net[Peer(e)][i].lo = pipe[e].hi

(* Every byte that Serve counts as outstanding is in exactly one place: in *)
(* flight, in the pipe, read, queued for confirmation, or confirmed by a   *)
(* frame in flight or stored.  No credit is lost or made up while both ends*)
(* are open and no overflow was reported.                                  *)
CreditConserved ==
  \A e \in Ends :
    LET p == Peer(e)
        outstanding == Interval(Applied(e), b[e].lo)
        places == {pipe[p], reading[p], confirmed[p]}
                    \cup FramesOf(e, "Write") \cup FramesOf(p, "Confirm")
                    \cup {sendConfirm[p][i] : i \in DOMAIN sendConfirm[p]}
    IN  (~Down(e) /\ ~Down(p) /\ e \notin overflow)
          => Bytes(outstanding) = UNION {Bytes(s) : s \in places}

(* A reader loop that nothing but the end of its transport will free, and  *)
(* nobody is left to bring that about (base_transport.go:72, 158-166).     *)
Jammed(e) == full[e] /\ link[e] = "up"

(* What the application hands to Write is eventually read at the other end,*)
(* unless the channel is closed, the tcp-chain ends or is jammed, or an    *)
(* overflow is reported: the window never stays shut (Serve, serveConfirm, *)
(* Confirm).                                                               *)
Delivery ==
  \A e \in Ends : \A k \in 1..MaxBytes[e] :
    b[e].hi >= k ~> \/ pipe[Peer(e)].lo >= k
                    \/ \E x \in Ends : Down(x) \/ Jammed(x)
                    \/ overflow # {}

(* When one end is closed so is the other, without any tcp-chain failure - *)
(* also when the Close waits for room, and when it never gets it, as the   *)
(* connection is closed then - unless the server has reported an overflow, *)
(* or the other end is jammed and reads neither Close nor io.EOF (Serve's  *)
(* deferred delete and sendClose, the Close case of the reader loops).     *)
CloseAgreement ==
  \A e \in Ends :
    closed[e] ~> closed[Peer(e)] \/ "server" \in overflow \/ Jammed(Peer(e))

(* A peer that confirms what it has read, and no more, is never taken for  *)
(* one that confirms too much (channel.go:302).                            *)
NoFalseOverflow == overflow = {}

(* A closed channel, or one whose transport ends, gives everything back:   *)
(* both goroutines return and the keys entry goes, at that end, and if it  *)
(* is the transport that ends, at the other end too.  An end that is jammed*)
(* keeps the goroutine Serve, which waits in sendClose, or does not learn  *)
(* of the end of its peer at all (channel.go:122-128, 310-370).            *)
Released ==
  LET Gone(e) == pcServe[e] = "done" /\ pcConfirm[e] = "done" /\ ~keys[e]
  IN  \A e \in Ends :
        /\ Down(e) ~> Gone(e) \/ Jammed(e)
        /\ link[e] # "up" ~> \A x \in Ends : Gone(x) \/ Jammed(x)

-----------------------------------------------------------------------------
(* The channel implements the abstract stream of CreditStream: sent is what*)
(* Serve has cut off its buffer, acked what it has subtracted from writed. *)
Stream == INSTANCE CreditStream WITH
  accepted <- [e \in Ends |-> b[e].hi],
  sent     <- [e \in Ends |-> b[e].lo],
  acked    <- [e \in Ends |-> b[e].lo - writed[e]],
  received <- [e \in Ends |-> pipe[e].hi],
  read     <- [e \in Ends |-> pipe[e].lo]

(* Every step of either end, interleaved in any way with closes and the end*)
(* of the tcp-chain, is a step of that stream or leaves it unchanged: bytes*)
(* are delivered in order and within the window, credit only for what was  *)
(* read, nothing stored after a close (all of channel.go's data path).     *)
ImplementsStream == Stream!SSpec

-----------------------------------------------------------------------------
(* The inductive invariant.  For the direction e -> p all positions are in *)
(* one line: what Serve has applied and stored of the confirmations, the   *)
(* Confirm frames in flight, confirmed, sendConfirm, reading, the pipe, the*)
(* Write frames in flight and the buffer of Serve.                         *)

(* The frames with this command in s are slices in order, within low..high.*)
Chain(s, cmd, low, high) ==
  /\ \A i \in 1..Len(s) :
       s[i].cmd = cmd =>
         low <= s[i].lo /\ s[i].lo <= s[i].hi /\ s[i].hi <= high
  /\ \A i, j \in 1..Len(s) :
       (i < j /\ s[i].cmd = cmd /\ s[j].cmd = cmd) => s[i].hi <= s[j].lo

(* The same for a queue of slices.                                         *)
SliceChain(s, low, high) ==
  /\ \A i \in 1..Len(s) :
       low <= s[i].lo /\ s[i].lo <= s[i].hi /\ s[i].hi <= high
  /\ \A i, j \in 1..Len(s) : i < j => s[i].hi <= s[j].lo

SenderInv(e) ==
  /\ writed[e] <= remoteWindow(e)
  /\ writed[e] <= b[e].lo
  /\ b[e].lo <= b[e].hi
  /\ pcServe[e] = "send" => writed[e] < remoteWindow(e) /\ b[e].lo < b[e].hi

AckInv(e) ==
  LET p == Peer(e)
  IN  /\ Applied(e) <= confirmed[p].lo
      /\ Chain(net[p], "Confirm", Applied(e), confirmed[p].lo)
      /\ confirmed[p].lo <= confirmed[p].hi
      /\ confirmed[p].hi <= reading[p].lo
      /\ SliceChain(sendConfirm[p], confirmed[p].hi, reading[p].lo)

DataInv(e) ==
  LET p == Peer(e)
  IN  /\ reading[p].lo <= reading[p].hi
      /\ reading[p].hi <= pipe[p].lo
      /\ pipe[p].lo <= pipe[p].hi
      /\ pipe[p].hi <= b[e].lo
      /\ Chain(net[e], "Write", pipe[p].hi, b[e].lo)

(* In both directions the positions are in line; WindowRespected and       *)
(* ConfirmWithinWrited follow from it.                                     *)
IndInv == TypeOK /\ \A e \in Ends : SenderInv(e) /\ AckInv(e) /\ DataInv(e)
=============================================================================
