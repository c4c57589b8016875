---------------------------- MODULE ClientProofs -----------------------------
(* Proofs about Client, for any number of dials and transports and any     *)
(* largest uint64.                                                         *)
EXTENDS Client, FiniteSetTheorems, TLAPS

-----------------------------------------------------------------------------
(* Transports do not outlive serve.                                        *)

(* What serve will close is what it has started.                           *)
KeysInv == keys = started

EndInv == KeysInv /\ NoneOutlives

LEMMA InitEndInv == Init => EndInv
BY DEF Init, EndInv, KeysInv, NoneOutlives

LEMMA EndInvStep == EndInv /\ [Next]_vars => EndInv'
<1> SUFFICES ASSUME EndInv, [Next]_vars PROVE EndInv'
  OBVIOUS
<1> USE DEF EndInv, KeysInv, NoneOutlives, serveVars, callVars
<1>1. ASSUME NEW d \in Dials, DialStart(d) PROVE EndInv'
  BY <1>1 DEF DialStart
<1>2. ASSUME NEW d \in Dials, DialCancelled(d) PROVE EndInv'
  BY <1>2 DEF DialCancelled
<1>3. ASSUME NEW d \in Dials, DialReply(d) PROVE EndInv'
  BY <1>3 DEF DialReply
<1>4. ASSUME NEW d \in Dials, ServeRequest(d) PROVE EndInv'
  BY <1>4 DEF ServeRequest
<1>5. ASSUME NEW d \in Dials, ServeConnect(d) PROVE EndInv'
  BY <1>5 DEF ServeConnect
<1>6. CASE ConnectFailed
  BY <1>6 DEF ConnectFailed
<1>7. ASSUME NEW x \in Transports, Connected(x) PROVE EndInv'
  BY <1>7 DEF Connected
<1>8. CASE ServeDone
  BY <1>8 DEF ServeDone
<1>9. CASE Close
  BY <1>9 DEF Close
<1>10. ASSUME NEW x \in Transports, TransportEnds(x) PROVE EndInv'
  BY <1>10 DEF TransportEnds
<1>11. CASE UNCHANGED vars
  BY <1>11 DEF vars
<1> QED
  BY <1>1, <1>2, <1>3, <1>4, <1>5, <1>6, <1>7, <1>8, <1>9, <1>10, <1>11
  DEF Next, ConnectEnds, DialClosed

(* When serve has returned every transport that it ever connected has      *)
(* ended: the current one, those it has replaced, and one whose hello was  *)
(* only answered after Close (client.go:100-147).                          *)
THEOREM NoTransportOutlivesServe == Safe => []NoneOutlives
<1>1. EndInv => NoneOutlives
  BY DEF EndInv
<1> QED
  BY InitEndInv, EndInvStep, <1>1, PTL DEF Safe

-----------------------------------------------------------------------------
(* Ids.  Every id drawn from x goes to a dial that x was handed to, and    *)
(* used bounds how many those are.                                         *)

HandedTo(x) == {d \in Dials : reply[d] = x}
DrawnFrom(x) == {d \in Dials : drawn[d].from = x}

(* A dial has no reply before serve has taken its request up, and none     *)
(* while serve is in newTransport for it.                                  *)
AskInv ==
  /\ \A d \in Dials : dial[d] \in {"idle", "asking"} => reply[d] = NoReply
  /\ \A d \in caller : reply[d] = NoReply /\ dial[d] \in {"waiting", "returned"}

(* Only a dial that has returned has drawn an id, from the transport it    *)
(* was handed.                                                             *)
DrawInv ==
  \A d \in Dials :
    drawn[d] # NoDraw =>
      /\ dial[d] = "returned"
      /\ reply[d] = drawn[d].from
      /\ drawn[d].from \in Transports
      /\ drawn[d].id \in 1..id[drawn[d].from]

(* used counts the dials x was handed to and is one ahead of them while x  *)
(* is current; a transport not yet connected was handed to nobody.         *)
UsedInv ==
  \A x \in Transports :
    /\ Cardinality(HandedTo(x)) <= used[x]
    /\ x = t => Cardinality(HandedTo(x)) < used[x]
    /\ x \notin started => HandedTo(x) = {} /\ x # t

(* The counter of x is the number of ids drawn: it has not wrapped around. *)
IdInv ==
  \A x \in Transports : id[x] = Cardinality(DrawnFrom(x))

Distinct ==
  \A c, d \in Dials : drawn[d] # NoDraw /\ drawn[c] = drawn[d] => c = d

IndInv == TypeOK /\ AskInv /\ DrawInv /\ UsedInv /\ IdInv /\ Distinct

(* What a step that changes neither the calls nor the counters keeps.      *)
LEMMA SameInv ==
  ASSUME IndInv, TypeOK',
         UNCHANGED <<used, id, reply, drawn>>,
         \A d \in Dials : /\ dial'[d] \in {"idle", "asking"} => dial[d] \in {"idle", "asking"}
                          /\ dial[d] = "returned" => dial'[d] = "returned",
         \A d \in caller' : d \in caller \/ (d \in Dials /\ dial[d] = "asking" /\ dial'[d] = "waiting"),
         t' \in {t, NoTransport},
         started \subseteq started'
  PROVE  IndInv'
<1> USE DEF IndInv
<1>1. AskInv'
  BY DEF AskInv, TypeOK
<1>2. DrawInv'
  BY DEF DrawInv
<1>3. \A x : HandedTo(x)' = HandedTo(x) /\ DrawnFrom(x)' = DrawnFrom(x)
  BY DEF HandedTo, DrawnFrom
<1>4. UsedInv'
  BY <1>3, NamesAssumption DEF UsedInv
<1>5. IdInv'
  BY <1>3 DEF IdInv
<1>6. Distinct'
  BY DEF Distinct
<1> QED
  BY <1>1, <1>2, <1>4, <1>5, <1>6

LEMMA InitIndInv == Init => IndInv
<1> SUFFICES ASSUME Init PROVE IndInv
  OBVIOUS
<1>1. TypeOK
  <2>1. used \in [Transports -> 1..MaxUint] /\ id \in [Transports -> 0..MaxUint]
    BY ClientAssumption DEF Init
  <2>2. NoDraw \in [from : Transports \cup {NoTransport}, id : 0..MaxUint]
    BY ClientAssumption DEF NoDraw
  <2>3. drawn \in [Dials -> [from : Transports \cup {NoTransport}, id : 0..MaxUint]]
    BY <2>2 DEF Init
  <2>4. /\ dial \in [Dials -> {"idle", "asking", "waiting", "returned"}]
        /\ reply \in [Dials -> Transports \cup {NoReply, "error"}]
    BY DEF Init
  <2> QED
    BY <2>1, <2>3, <2>4 DEF Init, TypeOK
<1>2. AskInv /\ DrawInv /\ Distinct
  BY DEF Init, AskInv, DrawInv, Distinct
<1>3. \A x \in Transports : HandedTo(x) = {} /\ DrawnFrom(x) = {}
  BY NamesAssumption DEF Init, HandedTo, DrawnFrom, NoDraw
<1>4. UsedInv /\ IdInv
  BY <1>3, FS_EmptySet, NamesAssumption DEF Init, UsedInv, IdInv
<1> QED
  BY <1>1, <1>2, <1>4 DEF IndInv

(* The sets that are counted are finite.                                   *)
LEMMA CountsFinite ==
  ASSUME NEW x
  PROVE  /\ IsFiniteSet(HandedTo(x)) /\ Cardinality(HandedTo(x)) \in Nat
         /\ IsFiniteSet(DrawnFrom(x)) /\ Cardinality(DrawnFrom(x)) \in Nat
<1>1. HandedTo(x) \subseteq Dials /\ DrawnFrom(x) \subseteq Dials
  BY DEF HandedTo, DrawnFrom
<1> QED
  BY <1>1, ClientAssumption, FS_Subset, FS_CardinalityType

(* HandOut to a dial without a reply keeps count.                          *)
LEMMA HandOutInv ==
  ASSUME IndInv, NEW d \in Dials, NEW x \in Transports,
         HandOut(d, x),
         reply[d] = NoReply, d \notin {c \in Dials : dial'[c] \in {"idle", "asking"}},
         Cardinality(HandedTo(x)) < used[x],
         x \in started',
         started \subseteq started',
         started' \subseteq started \cup {x},
         caller' \in SUBSET (caller \ {d}),
         dial' \in [Dials -> {"idle", "asking", "waiting", "returned"}],
         \A c \in Dials : /\ dial'[c] \in {"idle", "asking"} => dial[c] \in {"idle", "asking"}
                          /\ dial[c] = "returned" => dial'[c] = "returned",
         UNCHANGED <<id, drawn>>
  PROVE  /\ reply' \in [Dials -> Transports \cup {NoReply, "error"}]
         /\ used' \in [Transports -> 1..MaxUint]
         /\ t' \in Transports \cup {NoTransport}
         /\ AskInv' /\ DrawInv' /\ UsedInv' /\ IdInv' /\ Distinct'
<1> USE DEF IndInv
<1>1. reply' = [reply EXCEPT ![d] = x] /\ reply' \in [Dials -> Transports \cup {NoReply, "error"}]
  BY DEF HandOut, TypeOK
<1>2. /\ used' \in [Transports -> 1..MaxUint]
      /\ t' \in {x, NoTransport}
      /\ used'[x] >= Cardinality(HandedTo(x)) + 1
      /\ t' = x => used'[x] > Cardinality(HandedTo(x)) + 1
      /\ \A y \in Transports \ {x} : used'[y] = used[y]
  <2>1. used[x] \in 1..MaxUint /\ MaxUint \in Nat
    BY ClientAssumption DEF TypeOK
  <2>2. CASE used[x] = MaxUint
    BY <2>1, <2>2, CountsFinite, NamesAssumption DEF HandOut, TypeOK
  <2>3. CASE used[x] # MaxUint
    <3>1. used[x] + 1 \in 1..MaxUint /\ used' = [used EXCEPT ![x] = used[x] + 1] /\ t' = x
      BY <2>1, <2>3 DEF HandOut
    <3> QED
      BY <2>1, <3>1, CountsFinite DEF TypeOK
  <2> QED
    BY <2>2, <2>3
<1>3. AskInv'
  BY <1>1 DEF AskInv, TypeOK
<1>4. drawn[d] = NoDraw
  BY NamesAssumption DEF DrawInv
<1>5. DrawInv'
  BY <1>1, <1>4 DEF DrawInv, TypeOK
<1>6. \A y \in Transports \ {x} : HandedTo(y)' = HandedTo(y)
  BY <1>1, NamesAssumption DEF HandedTo, TypeOK
<1>7. HandedTo(x)' = HandedTo(x) \cup {d} /\ d \notin HandedTo(x)
  BY <1>1, NamesAssumption DEF HandedTo, TypeOK
<1>8. Cardinality(HandedTo(x)') = Cardinality(HandedTo(x)) + 1
  BY <1>7, CountsFinite, FS_AddElement
<1>9. UsedInv'
  <2> SUFFICES ASSUME NEW y \in Transports
               PROVE  /\ Cardinality(HandedTo(y)') <= used'[y]
                      /\ y = t' => Cardinality(HandedTo(y)') < used'[y]
                      /\ y \notin started' => HandedTo(y)' = {} /\ y # t'
    BY DEF UsedInv
  <2>1. CASE y = x
    BY <1>2, <1>8, <2>1, CountsFinite DEF TypeOK
  <2>2. CASE y # x
    BY <1>2, <1>6, <2>2, NamesAssumption DEF UsedInv
  <2> QED
    BY <2>1, <2>2
<1>10. IdInv' /\ Distinct'
  BY DEF IdInv, DrawnFrom, Distinct
<1> QED
  BY <1>1, <1>2, <1>3, <1>5, <1>9, <1>10

(* The counter of x has room for the id of each dial it was handed to.     *)
LEMMA IdRoom ==
  ASSUME IndInv, NEW d \in Dials, NEW x \in Transports,
         dial[d] = "waiting", reply[d] = x
  PROVE  id[x] < MaxUint
<1> USE DEF IndInv
<1>1. DrawnFrom(x) \subseteq HandedTo(x) \ {d}
  BY NamesAssumption DEF DrawnFrom, HandedTo, DrawInv, NoDraw, TypeOK
<1>2. d \in HandedTo(x)
  BY DEF HandedTo
<1>3. /\ IsFiniteSet(HandedTo(x) \ {d})
      /\ Cardinality(HandedTo(x) \ {d}) = Cardinality(HandedTo(x)) - 1
  BY <1>2, CountsFinite, FS_RemoveElement
<1>4. Cardinality(DrawnFrom(x)) <= Cardinality(HandedTo(x) \ {d})
  BY <1>1, <1>3, FS_Subset
<1>5. id[x] <= Cardinality(HandedTo(x)) - 1 /\ Cardinality(HandedTo(x)) <= used[x]
  BY <1>3, <1>4 DEF IdInv, UsedInv
<1>6. used[x] \in 1..MaxUint
  BY DEF TypeOK
<1> QED
  BY <1>5, <1>6, CountsFinite, ClientAssumption DEF TypeOK

LEMMA DialReplyStep ==
  ASSUME IndInv, NEW d \in Dials, DialReply(d) PROVE IndInv'
<1> USE DEF IndInv
<1> DEFINE x == reply[d]
<1>1. /\ dial[d] = "waiting" /\ dial' = [dial EXCEPT ![d] = "returned"]
      /\ UNCHANGED <<pc, t, caller, keys, used, started, ended, closed, reply>>
  BY DEF DialReply, serveVars
<1>2. CASE x = "error"
  <2>1. UNCHANGED <<id, drawn>>
    BY <1>2 DEF DialReply
  <2>2. TypeOK'
    BY <1>1, <2>1 DEF TypeOK
  <2> QED
    BY <1>1, <2>1, <2>2, SameInv DEF TypeOK
<1>3. CASE x # "error"
  <2>1. x \in Transports
    BY <1>3 DEF DialReply, TypeOK
  <2>2. id[x] < MaxUint /\ id[x] \in Nat
    BY <1>1, <2>1, IdRoom DEF TypeOK
  <2>3. (id[x] + 1) % (MaxUint + 1) = id[x] + 1
    BY <2>2, ClientAssumption
  <2> DEFINE new == [from |-> x, id |-> id[x] + 1]
  <2>4. id' = [id EXCEPT ![x] = id[x] + 1] /\ drawn' = [drawn EXCEPT ![d] = new]
    BY <1>3, <2>3 DEF DialReply
  <2>5. id[x] + 1 \in 1..MaxUint
    BY <2>2, ClientAssumption
  <2>6. TypeOK'
    <3>1. id' \in [Transports -> 0..MaxUint]
      BY <2>1, <2>4, <2>5 DEF TypeOK
    <3>2. drawn' \in [Dials -> [from : Transports \cup {NoTransport}, id : 0..MaxUint]]
      BY <2>1, <2>4, <2>5 DEF TypeOK
    <3> QED
      BY <1>1, <3>1, <3>2 DEF TypeOK
  <2>7. AskInv'
    BY <1>1 DEF AskInv, TypeOK
  <2>8. drawn[d] = NoDraw
    BY <1>1 DEF DrawInv
  <2>9. drawn'[d] = new /\ \A c \in Dials \ {d} : drawn'[c] = drawn[c]
    BY <2>4 DEF TypeOK
  <2>10. id'[x] = id[x] + 1 /\ \A y \in Transports \ {x} : id'[y] = id[y]
    BY <2>1, <2>4 DEF TypeOK
  <2>11. DrawInv'
    <3> SUFFICES ASSUME NEW c \in Dials, drawn'[c] # NoDraw
                 PROVE  /\ dial'[c] = "returned"
                        /\ reply'[c] = drawn'[c].from
                        /\ drawn'[c].from \in Transports
                        /\ drawn'[c].id \in 1..id'[drawn'[c].from]
      BY DEF DrawInv
    <3>1. CASE c = d
      BY <1>1, <2>1, <2>5, <2>9, <2>10, <3>1 DEF TypeOK
    <3>2. CASE c # d
      <4> DEFINE y == drawn[c].from
      <4>1. /\ dial[c] = "returned" /\ reply[c] = y /\ y \in Transports
            /\ drawn[c].id \in 1..id[y]
        BY <2>9, <3>2 DEF DrawInv
      <4>2. id'[y] \in {id[y], id[y] + 1} /\ id[y] \in Nat
        BY <2>10, <4>1 DEF TypeOK
      <4>3. drawn[c].id \in 1..id'[y]
        BY <4>1, <4>2
      <4> QED
        BY <1>1, <2>9, <3>2, <4>1, <4>3 DEF TypeOK
    <3> QED
      BY <3>1, <3>2
  <2>12. UsedInv'
    <3>1. \A y : HandedTo(y)' = HandedTo(y)
      BY <1>1 DEF HandedTo
    <3> QED
      BY <1>1, <3>1 DEF UsedInv
  <2>13. IdInv'
    <3>1. \A y \in Transports \ {x} : DrawnFrom(y)' = DrawnFrom(y)
      BY <2>8, <2>9, NamesAssumption DEF DrawnFrom, NoDraw
    <3>2. DrawnFrom(x)' = DrawnFrom(x) \cup {d} /\ d \notin DrawnFrom(x)
      BY <1>1, <2>1, <2>8, <2>9, NamesAssumption DEF DrawnFrom, NoDraw
    <3>3. Cardinality(DrawnFrom(x)') = Cardinality(DrawnFrom(x)) + 1
      BY <3>2, CountsFinite, FS_AddElement
    <3> QED
      BY <1>1, <2>1, <2>10, <3>1, <3>3 DEF IdInv
  <2>14. Distinct'
    <3>1. \A c \in Dials \ {d} : drawn[c] # new
      <4> SUFFICES ASSUME NEW c \in Dials, drawn[c] = new PROVE FALSE
        OBVIOUS
      <4>1. drawn[c].from = x /\ drawn[c].id = id[x] + 1 /\ drawn[c] # NoDraw
        BY <2>1, NamesAssumption DEF NoDraw
      <4>2. id[x] + 1 \in 1..id[x]
        BY <4>1 DEF DrawInv
      <4> QED
        BY <2>2, <4>2
    <3> QED
      BY <2>8, <2>9, <3>1 DEF Distinct
  <2> QED
    BY <2>6, <2>7, <2>11, <2>12, <2>13, <2>14
<1> QED
  BY <1>2, <1>3

LEMMA ServeRequestStep ==
  ASSUME IndInv, NEW d \in Dials, ServeRequest(d) PROVE IndInv'
<1> USE DEF IndInv
<1>1. /\ dial' = [dial EXCEPT ![d] = "waiting"] /\ dial[d] = "asking"
      /\ UNCHANGED <<pc, caller, keys, id, started, ended, closed, drawn>>
      /\ HandOut(d, t) /\ t \in Transports
  BY DEF ServeRequest, TypeOK
<1>2. reply[d] = NoReply
  BY <1>1 DEF AskInv
<1>3. t \in started /\ Cardinality(HandedTo(t)) < used[t]
  BY <1>1 DEF UsedInv
<1>4. d \notin caller
  BY <1>1 DEF AskInv
<1>5. dial' \in [Dials -> {"idle", "asking", "waiting", "returned"}]
  BY <1>1 DEF TypeOK
<1>6. \A c \in Dials : /\ dial'[c] \in {"idle", "asking"} => dial[c] \in {"idle", "asking"}
                       /\ dial[c] = "returned" => dial'[c] = "returned"
  BY <1>1 DEF TypeOK
<1>7. d \notin {c \in Dials : dial'[c] \in {"idle", "asking"}}
  BY <1>1 DEF TypeOK
<1>8. caller' \in SUBSET (caller \ {d})
  BY <1>1, <1>4
<1>9. /\ reply' \in [Dials -> Transports \cup {NoReply, "error"}]
      /\ used' \in [Transports -> 1..MaxUint]
      /\ t' \in Transports \cup {NoTransport}
      /\ AskInv' /\ DrawInv' /\ UsedInv' /\ IdInv' /\ Distinct'
  BY <1>1, <1>2, <1>3, <1>6, <1>7, <1>8, <1>5, HandOutInv
<1>10. TypeOK'
  BY <1>1, <1>9 DEF TypeOK
<1> QED
  BY <1>9, <1>10

LEMMA ConnectedStep ==
  ASSUME IndInv, NEW x \in Transports, Connected(x) PROVE IndInv'
<1> USE DEF IndInv
<1>1. PICK d \in caller : HandOut(d, x)
  BY DEF Connected
<1>2. /\ caller' = {} /\ pc' = "select" /\ started' = started \cup {x}
      /\ keys' = keys \cup {x} /\ x \notin started
      /\ UNCHANGED <<id, ended, closed, dial, drawn>>
  BY DEF Connected
<1>3. d \in Dials /\ reply[d] = NoReply /\ dial[d] \in {"waiting", "returned"}
  BY DEF AskInv, TypeOK
<1>4. HandedTo(x) = {} /\ used[x] \in 1..MaxUint
  BY <1>2 DEF UsedInv, TypeOK
<1>5. Cardinality(HandedTo(x)) < used[x]
  BY <1>4, FS_EmptySet
<1>6. /\ reply' \in [Dials -> Transports \cup {NoReply, "error"}]
      /\ used' \in [Transports -> 1..MaxUint]
      /\ t' \in Transports \cup {NoTransport}
      /\ AskInv' /\ DrawInv' /\ UsedInv' /\ IdInv' /\ Distinct'
  BY <1>1, <1>2, <1>3, <1>5, HandOutInv DEF TypeOK
<1>7. TypeOK'
  BY <1>2, <1>6 DEF TypeOK
<1> QED
  BY <1>6, <1>7

LEMMA ConnectFailedStep == IndInv /\ ConnectFailed => IndInv'
<1> SUFFICES ASSUME IndInv, ConnectFailed PROVE IndInv'
  OBVIOUS
<1> USE DEF IndInv
<1>1. PICK d \in caller : reply' = [reply EXCEPT ![d] = "error"]
  BY DEF ConnectFailed
<1>2. /\ caller' = {} /\ pc' = "select"
      /\ UNCHANGED <<t, keys, used, id, started, ended, closed, dial, drawn>>
  BY DEF ConnectFailed
<1>3. d \in Dials /\ reply[d] = NoReply /\ dial[d] \in {"waiting", "returned"}
  BY DEF AskInv, TypeOK
<1>4. TypeOK'
  BY <1>1, <1>2, <1>3 DEF TypeOK
<1>5. AskInv'
  BY <1>1, <1>2, <1>3 DEF AskInv, TypeOK
<1>6. drawn[d] = NoDraw
  BY <1>3, NamesAssumption DEF DrawInv
<1>7. DrawInv'
  BY <1>1, <1>2, <1>6 DEF DrawInv, TypeOK
<1>8. \A y \in Transports : HandedTo(y)' = HandedTo(y) /\ DrawnFrom(y)' = DrawnFrom(y)
  BY <1>1, <1>2, <1>3, NamesAssumption DEF HandedTo, DrawnFrom, TypeOK
<1>9. UsedInv' /\ IdInv' /\ Distinct'
  BY <1>2, <1>8 DEF UsedInv, IdInv, Distinct
<1> QED
  BY <1>4, <1>5, <1>7, <1>9

LEMMA IndInvStep == IndInv /\ [Next]_vars => IndInv'
<1> SUFFICES ASSUME IndInv, [Next]_vars PROVE IndInv'
  OBVIOUS
<1> USE DEF IndInv
<1>1. ASSUME NEW d \in Dials, DialStart(d) PROVE IndInv'
  <2>1. TypeOK'
    BY <1>1 DEF DialStart, serveVars, TypeOK
  <2> QED
    BY <1>1, <2>1, SameInv DEF DialStart, serveVars, TypeOK
<1>2. ASSUME NEW d \in Dials, DialCancelled(d) PROVE IndInv'
  <2>1. TypeOK'
    BY <1>2 DEF DialCancelled, serveVars, TypeOK
  <2> QED
    BY <1>2, <2>1, SameInv DEF DialCancelled, serveVars, TypeOK
<1>3. ASSUME NEW d \in Dials, ServeConnect(d) PROVE IndInv'
  <2>1. TypeOK'
    BY <1>3 DEF ServeConnect, TypeOK
  <2> QED
    BY <1>3, <2>1, SameInv DEF ServeConnect, TypeOK
<1>4. CASE ServeDone
  <2>1. TypeOK'
    BY <1>4 DEF ServeDone, callVars, TypeOK
  <2> QED
    BY <1>4, <2>1, SameInv DEF ServeDone, callVars
<1>5. CASE Close
  <2>1. TypeOK'
    BY <1>5 DEF Close, serveVars, callVars, TypeOK
  <2> QED
    BY <1>5, <2>1, SameInv DEF Close, serveVars, callVars
<1>6. ASSUME NEW x \in Transports, TransportEnds(x) PROVE IndInv'
  <2>1. TypeOK'
    BY <1>6 DEF TransportEnds, serveVars, callVars, TypeOK
  <2> QED
    BY <1>6, <2>1, SameInv DEF TransportEnds, serveVars, callVars
<1>7. CASE UNCHANGED vars
  <2>1. TypeOK'
    BY <1>7 DEF vars, TypeOK
  <2> QED
    BY <1>7, <2>1, SameInv DEF vars
<1> QED
  BY <1>1, <1>2, <1>3, <1>4, <1>5, <1>6, <1>7,
     DialReplyStep, ServeRequestStep, ConnectedStep, ConnectFailedStep
  DEF Next, ConnectEnds, DialClosed

(* No id is zero, none is given to two channels of one transport: serve    *)
(* replaces a transport before its uint64 counter can wrap around, though  *)
(* used counts requests and Create draws ids later, in any order, or never *)
(* (client.go:136-140, client_transport.go:328).                           *)
THEOREM IdsAreFresh == Safe => []ClientInv
<1>1. IndInv => ClientInv
  <2> SUFFICES ASSUME IndInv, NEW d \in Dials, drawn[d] # NoDraw
               PROVE  drawn[d].id # 0 /\ \A c \in Dials : drawn[c] = drawn[d] => c = d
    BY DEF ClientInv, IndInv, FreshIds
  <2>1. drawn[d].id \in 1..id[drawn[d].from]
    BY DEF IndInv, DrawInv
  <2> QED
    BY <2>1 DEF IndInv, Distinct
<1> QED
  BY InitIndInv, IndInvStep, <1>1, PTL DEF Safe
=============================================================================
