------------------------------- MODULE Client --------------------------------
(***************************************************************************)
(* The Client (client.go): its goroutine serve, which owns the current     *)
(* transport and hands it to the callers of DialContext, the replacement   *)
(* of a transport that has ended or has given out its ids, and Close.      *)
(*                                                                         *)
(* A transport is only its id counter, its counter used and whether it is  *)
(* done; Create itself is in Transport.                                    *)
(***************************************************************************)
EXTENDS Integers, FiniteSets

CONSTANTS
  Dials,       \* calls of DialContext, one each
  Transports,  \* bound: the transports that may be connected
  MaxUint      \* largest value of used and id (math.MaxUint64)

ASSUME ClientAssumption ==
  /\ IsFiniteSet(Dials) /\ IsFiniteSet(Transports)
  /\ MaxUint \in Nat \ {0}

NoTransport == "nil"
NoReply == "none"
ASSUME NamesAssumption ==
  /\ NoTransport \notin Transports
  /\ {NoReply, "error"} \cap Transports = {}

VARIABLES
  pc,       \* serve: at its select, in newTransport, or returned
  t,        \* its variable t
  caller,   \* whose request it serves while in newTransport
  keys,     \* its map of transports
  used,     \* used[x]: how often x was handed out, and 1 more
  id,       \* id[x]: the last id that Create has drawn from x
  started,  \* transports whose hello has succeeded
  ended,    \* transports whose done is closed
  closed,   \* c.done is closed
  dial,     \* dial[d]: where the call is
  reply,    \* reply[d]: content of its one-place channel ch
  drawn     \* drawn[d]: the transport and the id that Create has drawn

vars == <<pc, t, caller, keys, used, id, started, ended, closed, dial, reply, drawn>>
serveVars == <<pc, t, caller, keys, used, started>>
callVars  == <<dial, reply, drawn>>

NoDraw == [from |-> NoTransport, id |-> 0]

TypeOK ==
  /\ pc \in {"select", "newTransport", "returned"}
  /\ t \in Transports \cup {NoTransport}
  /\ caller \in SUBSET Dials
  /\ keys \in SUBSET Transports
  /\ used \in [Transports -> 1..MaxUint]
  /\ id \in [Transports -> 0..MaxUint]
  /\ started \in SUBSET Transports
  /\ ended \in SUBSET Transports
  /\ closed \in BOOLEAN
  /\ dial \in [Dials -> {"idle", "asking", "waiting", "returned"}]
  /\ reply \in [Dials -> Transports \cup {NoReply, "error"}]
  /\ drawn \in [Dials -> [from : Transports \cup {NoTransport}, id : 0..MaxUint]]

Init ==
  /\ pc = "select"
  /\ t = NoTransport
  /\ caller = {}
  /\ keys = {}
  /\ used = [x \in Transports |-> 1]
  /\ id = [x \in Transports |-> 0]
  /\ started = {}
  /\ ended = {}
  /\ closed = FALSE
  /\ dial = [d \in Dials |-> "idle"]
  /\ reply = [d \in Dials |-> NoReply]
  /\ drawn = [d \in Dials |-> NoDraw]

-----------------------------------------------------------------------------
(* DialContext.                                                            *)

DialStart(d) ==
  /\ dial[d] = "idle"
  /\ dial' = [dial EXCEPT ![d] = "asking"]
  /\ UNCHANGED <<serveVars, id, ended, closed, reply, drawn>>

(* Its context is done at one of the two selects.                          *)
DialCancelled(d) ==
  /\ dial[d] \in {"asking", "waiting"}
  /\ dial' = [dial EXCEPT ![d] = "returned"]
  /\ UNCHANGED <<serveVars, id, ended, closed, reply, drawn>>

(* Mutant: only the first select watches c.done.                           *)
DialClosedAsking(d) ==
  /\ closed
  /\ dial[d] = "asking"
  /\ DialCancelled(d)

(* c.done is closed at one of the two selects.                             *)
DialClosed(d) ==
  /\ closed
  /\ DialCancelled(d)

(* The reply: an error, or a transport whose Create draws the next id, a   *)
(* uint64 that wraps around.                                               *)
DialReply(d) ==
  LET x == reply[d]
      next == (id[x] + 1) % (MaxUint + 1)
  IN  /\ dial[d] = "waiting"
      /\ x # NoReply
      /\ dial' = [dial EXCEPT ![d] = "returned"]
      /\ \/ x = "error" /\ UNCHANGED <<id, drawn>>
         \/ /\ x # "error"
            /\ id' = [id EXCEPT ![x] = next]
            /\ drawn' = [drawn EXCEPT ![d] = [from |-> x, id |-> next]]
      /\ UNCHANGED <<serveVars, ended, closed, reply>>

-----------------------------------------------------------------------------
(* The goroutine serve.                                                    *)

(* Mutant: a transport is never given up.                                  *)
HandOutForever(d, x) ==
  /\ reply' = [reply EXCEPT ![d] = x]
  /\ t' = x
  /\ used' = [used EXCEPT ![x] = IF @ = MaxUint THEN @ ELSE @ + 1]

(* x goes to d; with its last id the transport is given up.                *)
HandOut(d, x) ==
  /\ reply' = [reply EXCEPT ![d] = x]
  /\ IF used[x] = MaxUint
       THEN t' = NoTransport /\ UNCHANGED used
       ELSE t' = x /\ used' = [used EXCEPT ![x] = @ + 1]

(* A request meets case ch := <-c.ch, and there is a healthy transport ... *)
ServeRequest(d) ==
  /\ pc = "select"
  /\ dial[d] = "asking"
  /\ t # NoTransport /\ t \notin ended
  /\ HandOut(d, t)
  /\ dial' = [dial EXCEPT ![d] = "waiting"]
  /\ UNCHANGED <<pc, caller, keys, id, started, ended, closed, drawn>>

(* ... or there is none: newTransport dials and exchanges the hello.       *)
ServeConnect(d) ==
  /\ pc = "select"
  /\ dial[d] = "asking"
  /\ t = NoTransport \/ t \in ended
  /\ t' = NoTransport
  /\ pc' = "newTransport"
  /\ caller' = {d}
  /\ dial' = [dial EXCEPT ![d] = "waiting"]
  /\ UNCHANGED <<keys, used, id, started, ended, closed, reply, drawn>>

Connected(x) ==
  /\ pc = "newTransport"
  /\ x \notin started
  /\ started' = started \cup {x}
  /\ keys' = keys \cup {x}
  /\ \E d \in caller : HandOut(d, x)
  /\ caller' = {}
  /\ pc' = "select"
  /\ UNCHANGED <<id, ended, closed, dial, drawn>>

ConnectFailed ==
  /\ pc = "newTransport"
  /\ \E d \in caller : reply' = [reply EXCEPT ![d] = "error"]
  /\ caller' = {}
  /\ pc' = "select"
  /\ UNCHANGED <<t, keys, used, id, started, ended, closed, dial, drawn>>

(* Mutants: only the current transport is closed; c.done is looked at only *)
(* together with a request.                                                *)
ServeDoneCurrent ==
  /\ pc = "select"
  /\ closed
  /\ ended' = ended \cup ({t} \ {NoTransport})
  /\ pc' = "returned"
  /\ UNCHANGED <<t, caller, keys, used, id, started, closed, callVars>>
ServeDoneOnRequest ==
  /\ pc = "select"
  /\ closed
  /\ \E d \in Dials : dial[d] = "asking"
  /\ ended' = ended \cup keys
  /\ pc' = "returned"
  /\ UNCHANGED <<t, caller, keys, used, id, started, closed, callVars>>

(* case <-c.done: the transports in keys are closed.                       *)
ServeDone ==
  /\ pc = "select"
  /\ closed
  /\ ended' = ended \cup keys
  /\ pc' = "returned"
  /\ UNCHANGED <<t, caller, keys, used, id, started, closed, callVars>>

-----------------------------------------------------------------------------
Close ==
  /\ ~closed
  /\ closed' = TRUE
  /\ UNCHANGED <<serveVars, id, ended, callVars>>

(* The reader loop of a transport ends.                                    *)
TransportEnds(x) ==
  /\ x \in started \ ended
  /\ ended' = ended \cup {x}
  /\ UNCHANGED <<serveVars, id, closed, callVars>>

ConnectEnds == ConnectFailed \/ \E x \in Transports : Connected(x)

Next ==
  \/ \E d \in Dials :
       \/ DialStart(d)
       \/ DialCancelled(d)
       \/ DialClosed(d)
       \/ DialReply(d)
       \/ ServeRequest(d)
       \/ ServeConnect(d)
  \/ ConnectEnds
  \/ ServeDone
  \/ Close
  \/ \E x \in Transports : TransportEnds(x)

Safe == Init /\ [][Next]_vars

(* A select with a ready case goes on, and one that finds c.done closed    *)
(* again and again takes it.  Nothing bounds how long newTransport takes.  *)
Fairness ==
  /\ \A d \in Dials : WF_vars(DialClosed(d) \/ DialReply(d))
  /\ SF_vars(ServeDone)

Spec == Safe /\ Fairness

-----------------------------------------------------------------------------
(* Properties.                                                             *)

(* Ids never wrap around and are never drawn twice from a transport: used  *)
(* replaces it in time, though it counts requests and not calls of Create  *)
(* (client.go:136-140, client_transport.go:328).                           *)
FreshIds ==
  \A d \in Dials :
    drawn[d] # NoDraw =>
      /\ drawn[d].id # 0
      /\ \A c \in Dials : drawn[c] = drawn[d] => c = d
ClientInv == TypeOK /\ FreshIds

(* When serve has returned no transport is left running, even one whose    *)
(* hello ended after Close, or one that was replaced (client.go:100-147).  *)
NoneOutlives == pc = "returned" => started \subseteq ended

(* Close sets every caller free, though serve may hang in newTransport     *)
(* (client.go:58-81).                                                      *)
CloseFreesDials ==
  \A d \in Dials :
    closed /\ dial[d] \in {"asking", "waiting"} ~> dial[d] = "returned"

(* Close ends serve and with it every transport, if newTransport returns:  *)
(* the server answers the hello or the connection fails (client.go:85-147).*)
CloseEnds == WF_vars(ConnectEnds) => (closed ~> pc = "returned")
=============================================================================
