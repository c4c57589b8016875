------------------------------ MODULE Transport ------------------------------
(***************************************************************************)
(* The two transports of one tcp-chain and their tables of channels        *)
(* (client_transport.go, server_transport.go, base_transport.go): Create   *)
(* and its answer, the entries of keys, Close frames that cross, the       *)
(* bounded queue t.ch with the goroutine serveWrite behind it, and the end *)
(* of the transport.                                                       *)
(*                                                                         *)
(* Of a channel there is only its life, that it sends Write and Confirm    *)
(* frames, and that a Confirm which finds another one pending may be taken *)
(* for an overflow; the amounts are IOChannel's.  Ping and Pong change no  *)
(* table and are left to Ping.                                             *)
(***************************************************************************)
EXTENDS Integers, Sequences, FiniteSets

CONSTANTS
  Ids,        \* channel ids; every Create draws a new one
  Channels,   \* opts.channels of the server, 0 for no limit
  QueueCap,   \* capacity of the Go channel t.ch (50 in the code)
  WireCap,    \* frames that the connection buffers in one direction
  MaxWrites   \* bound: Write frames that each end of a channel sends

Ends == {"client", "server"}
Peer(e) == IF e = "client" THEN "server" ELSE "client"

ASSUME TransportAssumption ==
  /\ IsFiniteSet(Ids)
  /\ Channels \in Nat
  /\ QueueCap \in Nat \ {0}
  /\ WireCap \in Nat \ {0}
  /\ MaxWrites \in [Ends -> Nat]

(* A frame; code is 0 but in the answer to a Create.                       *)
Frame == [cmd : {"Create", "Close", "Write", "Confirm"}, id : Ids, code : 0..2]
NoFrame == [cmd |-> "None"]
FrameOf(c, i) == [cmd |-> c, id |-> i, code |-> 0]
Answer(i, k) == [cmd |-> "Create", id |-> i, code |-> k]

VARIABLES
  dial,       \* dial[i]: where the call of Create that has drawn i is
  cancelled,  \* the ids whose context is done
  entry,      \* entry[e][i]: what keys of e has at i
  chan,       \* chan[e][i]: the ioChannel of i at e
  offer,      \* offer[i]: the goroutine of createResult for i
  posted,     \* answers in goroutines of postWrite
  queue,      \* queue[e]: content of t.ch of e
  wire,       \* wire[e]: sent by e and not read by its peer
  at,         \* at[e]: where the reader loop (Serve) of e is
  cur,        \* cur[e]: the frame that it handles meanwhile
  writer,     \* writer[e]: serveWrite of e is running
  done,       \* done[e]: t.done of e is closed
  conn,       \* the connection: "up" or "closed"
  wrote,      \* wrote[e][i]: number of Write frames sent
  got,        \* got[e][i]: Write frames stored and not yet confirmed
  confirms    \* history: what ioChannel.Confirm of i at e has done so far

tableVars == <<dial, cancelled, entry, chan, offer>>
netVars   == <<posted, queue, wire>>
loopVars  == <<at, cur>>
endVars   == <<writer, done, conn>>
dataVars  == <<wrote, got, confirms>>
vars == <<tableVars, netVars, loopVars, endVars, dataVars>>

(* An entry with rw is pending, one with a channel open; after a refusal it*)
(* has neither.  A channel is closed when Close was called and Serve is yet*)
(* to leave, deleting when Serve has removed the entry and sends a Close.  *)
TypeOK ==
  /\ dial \in [Ids -> {"none", "sending", "waiting", "opened", "refused", "failed"}]
  /\ cancelled \in SUBSET Ids
  /\ entry \in [Ends -> [Ids -> {"none", "pending", "open", "refused"}]]
  /\ chan \in [Ends -> [Ids -> {"none", "open", "closed", "deleting", "gone"}]]
  /\ offer \in [Ids -> {"none", "opened", "refused", "sendClose"}]
  /\ posted \in SUBSET Frame
  /\ queue \in [Ends -> Seq(Frame)]
  /\ wire \in [Ends -> Seq(Frame)]
  /\ at \in [Ends -> {"loop", "result", "sendClose", "exited", "panic"}]
  /\ cur \in [Ends -> Frame \cup {NoFrame}]
  /\ writer \in [Ends -> BOOLEAN]
  /\ done \in [Ends -> BOOLEAN]
  /\ conn \in {"up", "closed"}
  /\ \A e \in Ends : /\ wrote[e] \in [Ids -> 0..MaxWrites[e]]
                     /\ got[e] \in [Ids -> 0..MaxWrites[Peer(e)]]
                     /\ confirms[e] \in [Ids -> {"none", "stored", "overflow"}]

ForBoth(v) == [e \in Ends |-> v]
ForAll(v) == [e \in Ends |-> [i \in Ids |-> v]]

Init ==
  /\ dial = [i \in Ids |-> "none"]
  /\ cancelled = {}
  /\ entry = ForAll("none")
  /\ chan = ForAll("none")
  /\ offer = [i \in Ids |-> "none"]
  /\ posted = {}
  /\ queue = ForBoth(<< >>)
  /\ wire = ForBoth(<< >>)
  /\ at = ForBoth("loop")
  /\ cur = ForBoth(NoFrame)
  /\ writer = ForBoth(TRUE)
  /\ done = ForBoth(FALSE)
  /\ conn = "up"
  /\ wrote = ForAll(0)
  /\ got = ForAll(0)
  /\ confirms = ForAll("none")

-----------------------------------------------------------------------------
(* t.ch <- frame, as one case of a select.                                 *)
Enqueue(e, f) ==
  /\ Len(queue[e]) < QueueCap
  /\ queue' = [queue EXCEPT ![e] = Append(@, f)]

(* sendClose: it waits for room in the queue, or for the end.              *)
SendClose(e, i) ==
  \/ Enqueue(e, FrameOf("Close", i))
  \/ done[e] /\ UNCHANGED queue

SetEntry(e, i, v) == entry' = [entry EXCEPT ![e][i] = v]

(* ioChannel.Close, of a channel that exists; the second call does nothing.*)
ClosedChan(e, i) ==
  [chan EXCEPT ![e][i] = IF @ = "open" THEN "closed" ELSE @]

-----------------------------------------------------------------------------
(* clientTransport.Create.                                                 *)

CreateStart(i) ==
  /\ dial[i] = "none"
  /\ \/ /\ i \in cancelled
        /\ dial' = [dial EXCEPT ![i] = "failed"]
        /\ UNCHANGED entry
     \/ /\ i \notin cancelled
        /\ dial' = [dial EXCEPT ![i] = "sending"]
        /\ SetEntry("client", i, "pending")
  /\ UNCHANGED <<cancelled, chan, offer, netVars, loopVars, endVars, dataVars>>

CreateSend(i) ==
  /\ dial[i] = "sending"
  /\ Enqueue("client", FrameOf("Create", i))
  /\ dial' = [dial EXCEPT ![i] = "waiting"]
  /\ UNCHANGED <<cancelled, entry, chan, offer, posted, wire, loopVars, endVars,
                 dataVars>>

(* Mutant: the context is not in the select.                               *)
CreateGiveUpOnDone(i) ==
  /\ dial[i] \in {"sending", "waiting"}
  /\ done["client"]
  /\ dial' = [dial EXCEPT ![i] = "failed"]
  /\ UNCHANGED <<cancelled, entry, chan, offer, netVars, loopVars, endVars,
                 dataVars>>

(* The context or the transport is done; the entry in keys stays.          *)
CreateGiveUp(i) ==
  /\ dial[i] \in {"sending", "waiting"}
  /\ i \in cancelled \/ done["client"]
  /\ dial' = [dial EXCEPT ![i] = "failed"]
  /\ UNCHANGED <<cancelled, entry, chan, offer, netVars, loopVars, endVars,
                 dataVars>>

(* The caller's context is cancelled or its deadline passes.               *)
Cancel(i) ==
  /\ i \notin cancelled
  /\ cancelled' = cancelled \cup {i}
  /\ UNCHANGED <<dial, entry, chan, offer, netVars, loopVars, endVars, dataVars>>

(* The goroutine that createResult leaves behind hands over the result ... *)
OfferTaken(i) ==
  /\ offer[i] \in {"opened", "refused"}
  /\ dial[i] = "waiting"
  /\ dial' = [dial EXCEPT ![i] = offer[i]]
  /\ offer' = [offer EXCEPT ![i] = "none"]
  /\ UNCHANGED <<cancelled, entry, chan, netVars, loopVars, endVars, dataVars>>

(* Mutants: the channel is not closed; neither is a Close sent.            *)
OfferCancelledOpen(i) ==
  /\ offer[i] \in {"opened", "refused"}
  /\ i \in cancelled
  /\ offer' = [offer EXCEPT ![i] = IF @ = "opened" THEN "sendClose" ELSE "none"]
  /\ UNCHANGED <<dial, cancelled, entry, chan, netVars, loopVars, endVars, dataVars>>
OfferCancelledSilent(i) ==
  /\ offer[i] \in {"opened", "refused"}
  /\ i \in cancelled
  /\ offer' = [offer EXCEPT ![i] = "none"]
  /\ UNCHANGED <<dial, cancelled, entry, chan, netVars, loopVars, endVars, dataVars>>

(* ... or finds the context done, and closes a channel that nobody wants,  *)
OfferCancelled(i) ==
  /\ offer[i] \in {"opened", "refused"}
  /\ i \in cancelled
  /\ offer' = [offer EXCEPT ![i] = IF @ = "opened" THEN "sendClose" ELSE "none"]
  /\ chan' = ClosedChan("client", i)
  /\ UNCHANGED <<dial, cancelled, entry, netVars, loopVars, endVars, dataVars>>

OfferSendClose(i) ==
  /\ offer[i] = "sendClose"
  /\ SendClose("client", i)
  /\ offer' = [offer EXCEPT ![i] = "none"]
  /\ UNCHANGED <<dial, cancelled, entry, chan, posted, wire, loopVars, endVars,
                 dataVars>>

(* or ends with the transport.                                             *)
OfferDone(i) ==
  /\ offer[i] \in {"opened", "refused"}
  /\ done["client"]
  /\ offer' = [offer EXCEPT ![i] = "none"]
  /\ UNCHANGED <<dial, cancelled, entry, chan, netVars, loopVars, endVars,
                 dataVars>>

-----------------------------------------------------------------------------
(* A channel: its owner closes it, Serve and serveConfirm send frames as   *)
(* long as Serve has not left.                                             *)

(* The dialler can close only what Create has returned, the handler of the *)
(* server (ServeChannel) from the beginning.                               *)
Close(e, i) ==
  /\ chan[e][i] = "open"
  /\ e = "client" => dial[i] = "opened"
  /\ chan' = ClosedChan(e, i)
  /\ UNCHANGED <<dial, cancelled, entry, offer, netVars, loopVars, endVars,
                 dataVars>>

SendWrite(e, i) ==
  /\ chan[e][i] \in {"open", "closed"}
  /\ e = "client" => dial[i] = "opened"
  /\ wrote[e][i] < MaxWrites[e]
  /\ Enqueue(e, FrameOf("Write", i))
  /\ wrote' = [wrote EXCEPT ![e][i] = @ + 1]
  /\ UNCHANGED <<tableVars, posted, wire, loopVars, endVars, got,
                 confirms>>

SendConfirm(e, i) ==
  /\ chan[e][i] \in {"open", "closed"}
  /\ e = "client" => dial[i] = "opened"
  /\ got[e][i] > 0
  /\ Enqueue(e, FrameOf("Confirm", i))
  /\ got' = [got EXCEPT ![e][i] = @ - 1]
  /\ UNCHANGED <<tableVars, posted, wire, loopVars, endVars, wrote,
                 confirms>>

(* Mutant: the entry goes, but no Close is sent.                           *)
ServeDeleteSilent(e, i) ==
  /\ chan[e][i] = "closed" \/ (chan[e][i] = "open" /\ done[e])
  /\ entry' = [entry EXCEPT ![e][i] = IF @ = "open" THEN "none" ELSE @]
  /\ chan' = [chan EXCEPT ![e][i] = "gone"]
  /\ UNCHANGED <<dial, cancelled, offer, netVars, loopVars, endVars, dataVars>>

(* Serve leaves: it closes the channel and calls delete, which removes the *)
(* entry if it is still the channel's ...                                  *)
ServeDelete(e, i) ==
  /\ chan[e][i] = "closed" \/ (chan[e][i] = "open" /\ done[e])
  /\ \/ /\ entry[e][i] = "open"
        /\ SetEntry(e, i, "none")
        /\ chan' = [chan EXCEPT ![e][i] = "deleting"]
     \/ /\ entry[e][i] # "open"
        /\ chan' = [chan EXCEPT ![e][i] = "gone"]
        /\ UNCHANGED entry
  /\ UNCHANGED <<dial, cancelled, offer, netVars, loopVars, endVars, dataVars>>

(* ... and then sends a Close.                                             *)
ServeSendClose(e, i) ==
  /\ chan[e][i] = "deleting"
  /\ SendClose(e, i)
  /\ chan' = [chan EXCEPT ![e][i] = "gone"]
  /\ UNCHANGED <<dial, cancelled, entry, offer, posted, wire, loopVars, endVars,
                 dataVars>>

-----------------------------------------------------------------------------
(* The reader loop of e takes a frame and goes on at label to.             *)

Take(e, cmd, to) ==
  /\ at[e] = "loop"
  /\ wire[Peer(e)] # << >>
  /\ Head(wire[Peer(e)]).cmd = cmd
  /\ wire' = [wire EXCEPT ![Peer(e)] = Tail(@)]
  /\ at' = [at EXCEPT ![e] = to]
  /\ cur' = [cur EXCEPT ![e] =
               IF to \in {"result", "sendClose"} THEN Head(wire[Peer(e)]) ELSE NoFrame]

Taken(e) == Head(wire[Peer(e)])

BackToLoop(e) ==
  /\ at' = [at EXCEPT ![e] = "loop"]
  /\ cur' = [cur EXCEPT ![e] = NoFrame]

(* The rest of a case of the loop, when it ends with sendClose.            *)
ReaderSendClose(e) ==
  /\ at[e] = "sendClose"
  /\ SendClose(e, cur[e].id)
  /\ BackToLoop(e)
  /\ UNCHANGED <<tableVars, posted, wire, endVars, dataVars>>

(* The answer to a Create, at the client.  Without an entry, or if there is*)
(* a channel already, a Close is to repair what is out of step.            *)
ClientCreateUnknown(i) ==
  /\ Take("client", "Create", "sendClose")
  /\ i = Taken("client").id
  /\ entry["client"][i] \in {"none", "open"}
  /\ SetEntry("client", i, "none")
  /\ chan' = IF entry["client"][i] = "open" THEN ClosedChan("client", i) ELSE chan
  /\ UNCHANGED <<dial, cancelled, offer, posted, queue, endVars, dataVars>>

(* The context is done, and val.channel.Close() is called with val.channel *)
(* nil; an entry without rw would not pass the test of its context.        *)
ClientCreateCancelled(i) ==
  /\ Take("client", "Create", "panic")
  /\ i = Taken("client").id
  /\ entry["client"][i] \in {"pending", "refused"}
  /\ entry["client"][i] = "pending" => i \in cancelled
  /\ SetEntry("client", i, "none")
  /\ conn' = "closed"
  /\ UNCHANGED <<dial, cancelled, chan, offer, posted, queue, writer, done,
                 dataVars>>

ClientCreate(i) ==
  /\ Take("client", "Create", "result")
  /\ i = Taken("client").id
  /\ entry["client"][i] = "pending"
  /\ i \notin cancelled
  /\ UNCHANGED <<tableVars, posted, queue, endVars, dataVars>>

(* The new channel, if any, and createResult.                              *)
NewChannel(f, state) ==
  /\ at["client"] = "result"
  /\ SetEntry("client", f.id, IF f.code = 0 THEN "open" ELSE "refused")
  /\ chan' = [chan EXCEPT !["client"][f.id] = IF f.code = 0 THEN state ELSE @]

ResultOf(f) == IF f.code = 0 THEN "opened" ELSE "refused"

(* Create takes the result ...                                             *)
ResultTaken(f) ==
  /\ NewChannel(f, "open")
  /\ dial[f.id] = "waiting"
  /\ dial' = [dial EXCEPT ![f.id] = ResultOf(f)]
  /\ BackToLoop("client")
  /\ UNCHANGED <<cancelled, offer, netVars, endVars, dataVars>>

(* Mutant: the default case of the select drops the result.                *)
ResultKeptNot(f) ==
  /\ NewChannel(f, "open")
  /\ f.id \notin cancelled /\ ~done["client"]
  /\ BackToLoop("client")
  /\ UNCHANGED <<dial, cancelled, offer, netVars, endVars, dataVars>>

(* ... or is not there yet, and a goroutine keeps the result for it,       *)
ResultKept(f) ==
  /\ NewChannel(f, "open")
  /\ f.id \notin cancelled /\ ~done["client"]
  /\ offer' = [offer EXCEPT ![f.id] = ResultOf(f)]
  /\ BackToLoop("client")
  /\ UNCHANGED <<dial, cancelled, netVars, endVars, dataVars>>

(* or the context is done by now,                                          *)
ResultCancelled(f) ==
  /\ NewChannel(f, "closed")
  /\ f.id \in cancelled
  /\ IF f.code = 0
       THEN at' = [at EXCEPT !["client"] = "sendClose"] /\ UNCHANGED cur
       ELSE BackToLoop("client")
  /\ UNCHANGED <<dial, cancelled, offer, netVars, endVars, dataVars>>

(* or the transport is, and the loop ends.                                 *)
ResultDone(f) ==
  /\ NewChannel(f, "closed")
  /\ done["client"]
  /\ at' = [at EXCEPT !["client"] = "exited"]
  /\ cur' = [cur EXCEPT !["client"] = NoFrame]
  /\ UNCHANGED <<dial, cancelled, offer, netVars, endVars, dataVars>>

(* A Create at the server: the answer goes through postWrite, which leaves *)
(* it to a goroutine when the queue is full.                               *)
OpenIds == {i \in Ids : entry["server"][i] = "open"}
CreateCode(i) ==
  IF entry["server"][i] = "open" THEN 1
  ELSE IF Channels > 0 /\ Cardinality(OpenIds) >= Channels THEN 2
  ELSE 0

(* Mutant: the answer is sent and also left to a goroutine.                *)
ServerCreateTwice(i) ==
  LET f == Answer(i, CreateCode(i))
  IN  /\ Take("server", "Create", "loop")
      /\ i = Taken("server").id
      /\ IF f.code = 0
           THEN SetEntry("server", i, "open") /\ chan' = [chan EXCEPT !["server"][i] = "open"]
           ELSE UNCHANGED <<entry, chan>>
      /\ Enqueue("server", f)
      /\ posted' = posted \cup {f}
      /\ UNCHANGED <<dial, cancelled, offer, endVars, dataVars>>

ServerCreate(i) ==
  LET f == Answer(i, CreateCode(i))
  IN  /\ Take("server", "Create", "loop")
      /\ i = Taken("server").id
      /\ IF f.code = 0
           THEN SetEntry("server", i, "open") /\ chan' = [chan EXCEPT !["server"][i] = "open"]
           ELSE UNCHANGED <<entry, chan>>
      /\ \/ Enqueue("server", f) /\ UNCHANGED posted
         \/ /\ Len(queue["server"]) >= QueueCap
            /\ posted' = posted \cup {f}
            /\ UNCHANGED queue
      /\ UNCHANGED <<dial, cancelled, offer, endVars, dataVars>>

PostedSend(f) ==
  /\ Enqueue("server", f) \/ (done["server"] /\ UNCHANGED queue)
  /\ posted' = posted \ {f}
  /\ UNCHANGED <<tableVars, wire, loopVars, endVars, dataVars>>

(* A Close frame removes the entry, with or without a channel.             *)
ReaderClose(e, i) ==
  /\ Take(e, "Close", "loop")
  /\ i = Taken(e).id
  /\ SetEntry(e, i, "none")
  /\ chan' = IF entry[e][i] = "open" THEN ClosedChan(e, i) ELSE chan
  /\ UNCHANGED <<dial, cancelled, offer, posted, queue, endVars, dataVars>>

(* A Write frame is stored, or dropped without a word.                     *)
ReaderWrite(e, i) ==
  /\ Take(e, "Write", "loop")
  /\ i = Taken(e).id
  /\ got' = IF entry[e][i] = "open" /\ chan[e][i] = "open"
              THEN [got EXCEPT ![e][i] = @ + 1] ELSE got
  /\ UNCHANGED <<tableVars, posted, queue, endVars, wrote, confirms>>

(* A Confirm frame without a channel is answered with a Close.             *)
ReaderConfirm(e, i) ==
  /\ Take(e, "Confirm", IF entry[e][i] = "open" THEN "loop" ELSE "sendClose")
  /\ i = Taken(e).id
  /\ confirms' = [confirms EXCEPT ![e][i] =
                    IF entry[e][i] = "open" /\ @ = "none" THEN "stored" ELSE @]
  /\ UNCHANGED <<tableVars, posted, queue, endVars, wrote, got>>

(* With one before it that Serve has not taken, it may be an overflow.  The*)
(* client closes the channel and sends a Close; the server only sends a    *)
(* Close, and keeps channel and entry.                                     *)
ReaderOverflow(e, i) ==
  /\ Take(e, "Confirm", "sendClose")
  /\ i = Taken(e).id
  /\ entry[e][i] = "open"
  /\ confirms[e][i] # "none"
  /\ confirms' = [confirms EXCEPT ![e][i] = "overflow"]
  /\ chan' = IF e = "client" THEN ClosedChan(e, i) ELSE chan
  /\ UNCHANGED <<dial, cancelled, entry, offer, posted, queue, endVars, wrote, got>>

-----------------------------------------------------------------------------
(* The end of a transport.                                                 *)

(* Mutant: the transport is not closed with the loop.                      *)
ReaderExitOpen(e) ==
  /\ at[e] = "loop"
  /\ conn = "closed"
  /\ at' = [at EXCEPT ![e] = "exited"]
  /\ UNCHANGED <<tableVars, netVars, cur, endVars, dataVars>>

(* The read fails: the loop ends, the channels in keys are closed, and so  *)
(* is the transport.  What the wire holds may be lost.                     *)
ReaderExit(e) ==
  /\ at[e] = "loop"
  /\ conn = "closed"
  /\ at' = [at EXCEPT ![e] = "exited"]
  /\ chan' = [chan EXCEPT ![e] = [i \in Ids |->
                IF entry[e][i] = "open" /\ @[i] = "open" THEN "closed" ELSE @[i]]]
  /\ done' = [done EXCEPT ![e] = TRUE]
  /\ UNCHANGED <<dial, cancelled, entry, offer, netVars, cur, writer, conn,
                 dataVars>>

(* serveWrite: from the queue to the connection,                           *)
ServeWrite(e) ==
  /\ writer[e] /\ conn = "up"
  /\ queue[e] # << >>
  /\ Len(wire[e]) < WireCap
  /\ wire' = [wire EXCEPT ![e] = Append(@, Head(queue[e]))]
  /\ queue' = [queue EXCEPT ![e] = Tail(@)]
  /\ UNCHANGED <<tableVars, posted, loopVars, endVars, dataVars>>

(* until a write fails or the transport is done; it closes the connection, *)
(* not the transport.                                                      *)
WriterExit(e) ==
  /\ writer[e]
  /\ done[e] \/ (conn = "closed" /\ queue[e] # << >>)
  /\ writer' = [writer EXCEPT ![e] = FALSE]
  /\ conn' = "closed"
  /\ UNCHANGED <<tableVars, netVars, loopVars, done, dataVars>>

(* Client.serve closes the transport when the Client is closed.            *)
TransportClose ==
  /\ ~done["client"]
  /\ done' = [done EXCEPT !["client"] = TRUE]
  /\ conn' = "closed"
  /\ UNCHANGED <<tableVars, netVars, loopVars, writer, dataVars>>

(* The network fails.                                                      *)
ConnFail ==
  /\ conn = "up"
  /\ conn' = "closed"
  /\ UNCHANGED <<tableVars, netVars, loopVars, writer, done, dataVars>>

-----------------------------------------------------------------------------
CreateStep(i) == CreateSend(i) \/ CreateGiveUp(i)
OfferStep(i) ==
  \/ OfferTaken(i)
  \/ OfferCancelled(i)
  \/ OfferSendClose(i)
  \/ OfferDone(i)
LeaveStep(e, i) == ServeDelete(e, i) \/ ServeSendClose(e, i)
ClientReader ==
  \/ \E i \in Ids :
       \/ ClientCreateUnknown(i)
       \/ ClientCreateCancelled(i)
       \/ ClientCreate(i)
  \/ ResultTaken(cur["client"])
  \/ ResultKept(cur["client"])
  \/ ResultCancelled(cur["client"])
  \/ ResultDone(cur["client"])
ReaderStep(e) ==
  \/ e = "client" /\ ClientReader
  \/ e = "server" /\ \E i \in Ids : ServerCreate(i)
  \/ \E i \in Ids : \/ ReaderClose(e, i)
                    \/ ReaderWrite(e, i)
                    \/ ReaderConfirm(e, i)
                    \/ ReaderOverflow(e, i)
  \/ ReaderSendClose(e)
  \/ ReaderExit(e)
WriterStep(e) == ServeWrite(e) \/ WriterExit(e)

(* A panic ends the client's process.                                      *)
Alive(e) == at[e] # "panic"

ClientStep ==
  /\ Alive("client")
  /\ \/ \E i \in Ids : CreateStart(i) \/ CreateStep(i) \/ Cancel(i) \/ OfferStep(i)
     \/ TransportClose

EndStep(e) ==
  /\ Alive(e)
  /\ \/ ReaderStep(e)
     \/ WriterStep(e)
     \/ \E i \in Ids : \/ Close(e, i)
                       \/ SendWrite(e, i)
                       \/ SendConfirm(e, i)
                       \/ LeaveStep(e, i)

Next ==
  \/ ClientStep
  \/ \E e \in Ends : EndStep(e)
  \/ \E f \in posted : PostedSend(f)
  \/ ConnFail

Safe == Init /\ [][Next]_vars

(* Every goroutine that can go on does.  Nobody has to dial, cancel, write *)
(* or close, and the network need not fail.                                *)
Fairness ==
  /\ \A i \in Ids : /\ WF_vars(Alive("client") /\ CreateStep(i))
                    /\ WF_vars(Alive("client") /\ OfferStep(i))
  /\ \A e \in Ends : /\ WF_vars(Alive(e) /\ ReaderStep(e))
                     /\ WF_vars(Alive(e) /\ WriterStep(e))
                     /\ \A i \in Ids : WF_vars(Alive(e) /\ LeaveStep(e, i))
  /\ WF_vars(\E f \in posted : PostedSend(f))

Spec == Safe /\ Fairness

-----------------------------------------------------------------------------
(* Properties.                                                             *)

InFlight(e, f) ==
  \/ \E k \in DOMAIN queue[e] : queue[e][k] = f
  \/ \E k \in DOMAIN wire[e] : wire[e][k] = f

(* The answer to the Create of i is somewhere between the two loops.       *)
AnswerUnderWay(i) ==
  \E k \in 0..2 : LET f == Answer(i, k)
                  IN  f \in posted \/ InFlight("server", f) \/
                      (at["client"] = "result" /\ cur["client"] = f)

(* e has sent a Close for i, or some goroutine of e is about to.           *)
CloseUnderWay(e, i) ==
  \/ InFlight(e, FrameOf("Close", i))
  \/ at[e] = "sendClose" /\ cur[e].id = i
  \/ chan[e][i] = "deleting"
  \/ e = "client" /\ offer[i] = "sendClose"

(* While the tcp-chain is up, no end has an open channel that the other    *)
(* does not know of: there is an entry at the other end, or the answer or a*)
(* Close for it is under way, however answers, Close frames, cancelled     *)
(* contexts and full queues interleave (delete, sendClose, createResult,   *)
(* the Create, Close and Confirm cases of both loops).  The one exception  *)
(* is the server's end of a channel for which the server has reported an   *)
(* overflow: it sends a Close, on which the client drops its end, and keeps*)
(* its own, which then only its handler can close                          *)
(* (server_transport.go:181-184).                                          *)
NoOrphan ==
  conn = "up" =>
    \A i \in Ids :
      /\ chan["server"][i] = "open" =>
           \/ entry["client"][i] = "open" \/ AnswerUnderWay(i)
           \/ CloseUnderWay("client", i) \/ confirms["server"][i] = "overflow"
      /\ chan["client"][i] = "open" =>
           entry["server"][i] = "open" \/ CloseUnderWay("server", i)

(* A Create is answered once: while the answer is under way the client has *)
(* no channel for it, so that the two cases for ids "out of step" never    *)
(* close a good channel and the entry without rw is never looked at        *)
(* (client_transport.go:141-151).                                          *)
AnsweredOnce ==
  \A i \in Ids :
    AnswerUnderWay(i) =>
      chan["client"][i] = "none" /\ entry["client"][i] \in {"none", "pending"}

(* Every open channel of the client has an owner who can close it: Create  *)
(* has returned it, or createResult still keeps it.  A context that is done*)
(* at any moment leaves no open channel behind (client_transport.go:151,   *)
(* 292-326, 361-366).                                                      *)
Owned ==
  \A i \in Ids :
    chan["client"][i] = "open" =>
      dial[i] = "opened" \/ offer[i] = "opened" \/ done["client"]

(* A Create that waits is known to somebody who will answer it, its entry  *)
(* or createResult, unless a Close has overtaken the answer: then the      *)
(* server has no channel any more (client_transport.go:174-187,            *)
(* base_transport.go:148).                                                 *)
WaitingKnown ==
  \A i \in Ids :
    (dial[i] = "waiting" /\ i \notin cancelled /\ ~done["client"])
      => \/ entry["client"][i] = "pending" \/ offer[i] # "none"
         \/ chan["server"][i] = "gone"
TransportInv == TypeOK /\ WaitingKnown

(* What nobody can get out of, three states that the code does reach.  A   *)
(* Create is forgotten when a Close has overtaken its answer.              *)
Forgotten(i) ==
  /\ dial[i] = "waiting" /\ i \notin cancelled
  /\ entry["client"][i] # "pending" /\ offer[i] = "none" /\ chan["server"][i] = "gone"

(* The reader loop waits for room in a full queue that serveWrite, having  *)
(* ended with a write error, will never empty; nobody is left who closes   *)
(* t.done (base_transport.go:72, 158).                                     *)
Stuck(e) ==
  at[e] = "sendClose" /\ Len(queue[e]) = QueueCap /\ ~writer[e] /\ ~done[e]

(* Both loops wait for room, and all that is between them is full.         *)
Jammed ==
  \A e \in Ends :
    at[e] = "sendClose" /\ Len(queue[e]) = QueueCap /\ Len(wire[e]) = WireCap

(* Create returns, the context being alive or not (client_transport.go:    *)
(* 350-378).                                                               *)
DialReturns ==
  \A i \in Ids :
    dial[i] \in {"sending", "waiting"} ~>
      \/ dial[i] \in {"opened", "refused", "failed"} \/ ~Alive("client")
      \/ Forgotten(i) \/ Stuck("client") \/ Jammed

(* What a caller that has given up leaves at the server is removed there   *)
(* (client_transport.go:292-325, server_transport.go:115-126).            *)
AbandonedFreed ==
  \A i \in Ids :
    dial[i] = "failed" ~> entry["server"][i] = "none" \/ Stuck("server") \/ Jammed

(* When the connection is gone both transports end, whatever their loops   *)
(* were doing; being stuck is the one way not to (base_transport.go:28,    *)
(* client_transport.go:267, server_transport.go:193).                      *)
LinkLossEndsBoth ==
  conn = "closed" ~> \A e \in Ends : done[e] \/ ~Alive(e) \/ Stuck(e)

(* A cancelled Create does not break the client (the comment at            *)
(* client_transport.go:151).                                               *)
NoPanic == at["client"] # "panic"
=============================================================================
