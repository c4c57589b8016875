--------------------------- MODULE WebsocketFraming ---------------------------
(***************************************************************************)
(* How websocket messages travel through a tunnel: websocketWriter and     *)
(* websocketReader at the client (websocket.go), writeWS and readWS at the *)
(* server (server_handler.go).  A message is its type and fragments with a *)
(* header each; the stream is a sequence of numbers, in which the two bytes*)
(* of a length are one.  The stream may break off anywhere.                *)
(***************************************************************************)
EXTENDS Integers, Sequences, SequencesExt

CONSTANT MaxUint16   \* largest length that a fragment header can carry

ASSUME FragmentAssumption == MaxUint16 \in Nat \ {0}

Types == {1, 2}   \* of the types NextWriter knows, TextMessage, BinaryMessage
More == 0
End == 1

FragmentHeader(end, size) == <<end, size>>
LastFragment == FragmentHeader(End, 0)

(* websocketWriter.Write cuts a slice by the length that a header can say. *)
Fragments(s) ==
  LET Pieces == (Len(s) + MaxUint16 - 1) \div MaxUint16
      Upto(i) == IF i = Pieces THEN Len(s) ELSE i * MaxUint16
      Piece(i) == SubSeq(s, (i - 1) * MaxUint16 + 1, Upto(i))
  IN  FlattenSeq([i \in 1..Pieces |->
        FragmentHeader(More, Len(Piece(i))) \o Piece(i)])

(* Mutant: the type goes with every Write.                                 *)
WrittenTyped(t, writes) ==
  FlattenSeq([i \in DOMAIN writes |-> <<t>> \o Fragments(writes[i])]) \o LastFragment

(* A message written with these calls of Write and a Close: the type goes  *)
(* with the first Write, so without one it is never sent.                  *)
Written(t, writes) ==
  (IF writes = << >> THEN << >> ELSE <<t>>)
    \o FlattenSeq([i \in DOMAIN writes |-> Fragments(writes[i])]) \o LastFragment

(* readWS: one fragment for each successful Read from the target's message.*)
(* A message whose first Read is io.EOF is dropped.                        *)
Relayed(t, reads) ==
  IF reads = << >>
    THEN << >>
    ELSE <<t>> \o FlattenSeq([i \in DOMAIN reads |->
                    FragmentHeader(More, Len(reads[i])) \o reads[i]])
              \o LastFragment

(* One message after the other: the Write methods of the client, and the   *)
(* loop over readWS.  A message is its type and the slices written or read.*)
ClientStream(ms) == FlattenSeq([i \in DOMAIN ms |-> Written(ms[i].t, ms[i].parts)])
TargetStream(ms) == FlattenSeq([i \in DOMAIN ms |-> Relayed(ms[i].t, ms[i].parts)])

(* What writeWS and websocketReader.Read find behind the type, at position *)
(* i of the stream s: fragments until one is the last, or until a header is*)
(* missing ("eof") or broken ("cut").  A fragment shorter than its header  *)
(* says is taken as it is: the LimitReader returns the same io.EOF.        *)
Rest(s) ==
  LET f[i \in 1..(Len(s) + 1)] ==
        IF i + 1 > Len(s)
          THEN [data |-> << >>, next |-> Len(s) + 1,
                how |-> IF i > Len(s) THEN "eof" ELSE "cut"]
          ELSE LET stop == i + 1 + s[i + 1]
                   next == IF stop <= Len(s) THEN stop + 1 ELSE Len(s) + 1
                   data == SubSeq(s, i + 2, next - 1)
               IN  IF s[i] = End
                     THEN [data |-> data, next |-> next, how |-> "end"]
                     ELSE [f[next] EXCEPT !.data = data \o @]
  IN  f

(* The messages read from s: by the loop over writeWS, which ends at a type*)
(* that NextWriter refuses, and by NextReader and Read at the client.      *)
Messages(s, known) ==
  LET rest == Rest(s)
      m[i \in 1..(Len(s) + 1)] ==
        IF i + 2 > Len(s) \/ (i <= Len(s) /\ s[i] \notin known)
          THEN << >>
          ELSE <<[t |-> s[i], data |-> rest[i + 1].data, how |-> rest[i + 1].how]>>
                 \o m[rest[i + 1].next]
  IN  m[1]
TargetMessages(s) == Messages(s, Types)
ClientMessages(s) == Messages(s, Nat)

-----------------------------------------------------------------------------
(* Inputs: up to two messages of up to two slices, some of them longer than*)
(* one fragment, those of a target also without any; all data is told      *)
(* apart, and from most headers.                                           *)
Lengths == 0..(MaxUint16 + 1)
Slices(base, lens) ==
  [i \in DOMAIN lens |-> [j \in 1..lens[i] |-> base + 10 * i + j]]
SliceLists(base) ==
  {Slices(base, lens) : lens \in UNION {[1..n -> Lengths] : n \in 1..2}}
Lists(first, second) ==
  {<<[t |-> t, parts |-> p]>> : t \in Types, p \in first}
    \cup {<<[t |-> 1, parts |-> p], [t |-> 2, parts |-> q]>> : p \in first, q \in second}
ClientInputs == Lists(SliceLists(100), SliceLists(200))
TargetInputs == Lists(SliceLists(100) \cup {<< >>}, SliceLists(200) \cup {<< >>})

Data(m) == FlattenSeq(m.parts)

(* got is what was sent, but that the last message may lack its end.       *)
BeginsLike(got, ms) ==
  /\ Len(got) <= Len(ms)
  /\ \A i \in DOMAIN got :
       /\ got[i].t = ms[i].t
       /\ IF i < Len(got) THEN got[i].data = Data(ms[i])
                          ELSE IsPrefix(got[i].data, Data(ms[i]))

ReadsBack(s, Get(_), ms) ==
  /\ BeginsLike(Get(s), ms)
  /\ Len(Get(s)) = Len(ms)
  /\ \A m \in {Get(s)[i] : i \in DOMAIN ms} : m.how = "end"
  /\ Get(s) # << >> => Get(s)[Len(ms)].data = Data(ms[Len(ms)])
  /\ \A n \in 0..(Len(s) - 1) : BeginsLike(Get(SubSeq(s, 1, n)), ms)

(* What the client gets of the messages of a target: not the empty ones.   *)
Kept(ms) ==
  FlattenSeq([i \in DOMAIN ms |-> IF ms[i].parts = << >> THEN << >> ELSE <<ms[i]>>])

(* The messages that would not come out at the other side as they went in. *)
LostToTarget ==
  {ms \in ClientInputs : ~ReadsBack(ClientStream(ms), TargetMessages, ms)}
LostToClient ==
  {ms \in TargetInputs : ~ReadsBack(TargetStream(ms), ClientMessages, Kept(ms))}
=============================================================================
