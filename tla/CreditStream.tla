----------------------------- MODULE CreditStream -----------------------------
(***************************************************************************)
(* What a channel promises its two users: in each direction a stream of    *)
(* bytes, delivered in order, in which the sender is never ahead of what   *)
(* it knows the reader has read by more than the reader's window.  The     *)
(* five counters of end e are positions: accepted, sent and acked in the   *)
(* stream that e writes, received and read in the stream of its peer.      *)
(* Each end may close at any time; a closed end receives nothing more, but *)
(* what it has received can still be read.                                 *)
(***************************************************************************)
EXTENDS Integers

CONSTANTS Ends, Peer(_), Window

VARIABLES accepted, sent, acked, received, read, closed

svars == <<accepted, sent, acked, received, read, closed>>

SInit ==
  /\ accepted = [e \in Ends |-> 0]
  /\ sent = [e \in Ends |-> 0]
  /\ acked = [e \in Ends |-> 0]
  /\ received = [e \in Ends |-> 0]
  /\ read = [e \in Ends |-> 0]
  /\ closed = [e \in Ends |-> FALSE]

(* Counter f moves forward to g, at e only.                                *)
Advances(f, g, e) == g = [f EXCEPT ![e] = g[e]] /\ g[e] > f[e]

(* The writer hands over more bytes once all it gave before are sent.      *)
SAccept(e) ==
  /\ sent[e] = accepted[e]
  /\ Advances(accepted, accepted', e)
  /\ UNCHANGED <<sent, acked, received, read, closed>>

(* Sending is limited by the window that the reader has announced.         *)
SSend(e) ==
  /\ Advances(sent, sent', e)
  /\ sent'[e] <= accepted[e]
  /\ sent'[e] <= acked[e] + Window[Peer(e)]
  /\ UNCHANGED <<accepted, acked, received, read, closed>>

SReceive(e) ==
  /\ ~closed[e]
  /\ Advances(received, received', e)
  /\ received'[e] <= sent[Peer(e)]
  /\ UNCHANGED <<accepted, sent, acked, read, closed>>

SRead(e) ==
  /\ Advances(read, read', e)
  /\ read'[e] <= received[e]
  /\ UNCHANGED <<accepted, sent, acked, received, closed>>

(* Credit comes back only for what the peer's user has read.               *)
SAck(e) ==
  /\ Advances(acked, acked', e)
  /\ acked'[e] <= read[Peer(e)]
  /\ UNCHANGED <<accepted, sent, received, read, closed>>

SClose(e) ==
  /\ ~closed[e]
  /\ closed' = [closed EXCEPT ![e] = TRUE]
  /\ UNCHANGED <<accepted, sent, acked, received, read>>

SNext ==
  \E e \in Ends :
    SAccept(e) \/ SSend(e) \/ SReceive(e) \/ SRead(e) \/ SAck(e) \/ SClose(e)

SSpec == SInit /\ [][SNext]_svars
=============================================================================
