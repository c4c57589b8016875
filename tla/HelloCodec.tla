------------------------------ MODULE HelloCodec ------------------------------
(***************************************************************************)
(* The hello exchange (core/hello.go) and its two users: newClientTransport*)
(* and Server.hello with sendHello.  Both sides encode into a buffer and   *)
(* decode through one, and every early return is about a length.           *)
(*                                                                         *)
(* On the wire a hello is a record: whether it starts with Flag, its       *)
(* fields, its text (of which the length field holds the length), and got, *)
(* the number of its bytes that arrive before the connection ends.         *)
(***************************************************************************)
EXTENDS Integers, Sequences, SequencesExt, FiniteSetsExt

CONSTANT MaxUint16   \* largest value of a length field

ASSUME MaxUint16Assumption == MaxUint16 \in Nat \ {0}

FlagSize == 11                 \* len(Flag)
ProtocolVersion == <<"1", "0">>
ClientHead == FlagSize + 6     \* flag, window, length of the version list
ServerHead == FlagSize + 7     \* flag, code, window, length of the message
ServerBuffer == 256
ClientBuffer == 128
Comma == ","

Total(list) == Len(FlattenSeq(list))

(* strings.Join and strings.Split with a comma.                            *)
Join(list) == Tail(FlattenSeq([i \in DOMAIN list |-> <<Comma>> \o list[i]]))
Index(s, i) == Min({j \in i..Len(s) : s[j] = Comma} \cup {Len(s) + 1})
Split(s) ==
  LET from[i \in 1..(Len(s) + 1)] ==
        IF Index(s, i) > Len(s)
          THEN <<SubSeq(s, i, Len(s))>>
          ELSE <<SubSeq(s, i, Index(s, i) - 1)>> \o from[Index(s, i) + 1]
  IN  from[1]

-----------------------------------------------------------------------------
(* ClientHello.MarshalTo with a buffer of n bytes.                         *)
MarshalClient(h, n) ==
  LET size == ClientHead + Len(h.version) - 1 + Total(h.version)
  IN  IF h.window = 0 THEN [e |-> "InvalidWindow"]
      ELSE IF h.version = << >> THEN [e |-> "InvalidVersion"]
      ELSE IF n < size THEN [e |-> "ErrShortBuffer"]
      ELSE IF Len(Join(h.version)) > MaxUint16 THEN [e |-> "InvalidVersion"]
      ELSE [e |-> "nil", flag |-> TRUE, window |-> h.window,
            text |-> Join(h.version), got |-> size]

(* What is left of a buffer once the flag was read into it.                *)
Left(bufsize) == bufsize - FlagSize

(* A reader returns with the error e, and its other results still zero.    *)
Fails(e) == [e |-> e, code |-> "Ok"]

(* Mutant: a list that would fit is refused.                               *)
FitsHead(vs, bufsize) == vs <= bufsize - ClientHead

(* The test of the length against the buffer: the buffer as it was given.  *)
Fits(vs, bufsize) == vs <= bufsize

(* ReadClientHello from m through a buffer of n bytes, n = 0 for one that  *)
(* it makes itself, and anew when the version list is longer.  The list is *)
(* read into what is left, which a list that fits may still exceed.        *)
ReadClientHello(m, n) ==
  LET bufsize == IF n = 0 THEN 128 ELSE n
      vs == Len(m.text)
      fits == Fits(vs, bufsize)
  IN  IF bufsize < FlagSize THEN Fails("ErrShortBuffer")
      ELSE IF m.got < FlagSize THEN Fails("EOF")
      ELSE IF ~m.flag THEN [e |-> "nil", code |-> "InvalidProtocol"]
      ELSE IF Left(bufsize) < 6 THEN Fails("panic")
      ELSE IF m.got < ClientHead THEN Fails("EOF")
      ELSE IF m.window = 0 THEN [e |-> "nil", code |-> "InvalidWindow"]
      ELSE IF vs = 0 THEN [e |-> "nil", code |-> "InvalidVersion"]
      ELSE IF ~fits /\ n # 0 THEN Fails("ErrShortBuffer")
      ELSE IF fits /\ vs > Left(bufsize) THEN Fails("panic")
      ELSE IF m.got < ClientHead + vs THEN Fails("EOF")
      ELSE [e |-> "nil", code |-> "Ok", window |-> m.window,
            version |-> Split(m.text)]

(* ServerHello.MarshalTo with a buffer of n bytes.                         *)
MarshalServer(h, n) ==
  LET size == ServerHead + Len(h.message)
  IN  IF h.window = 0 THEN [e |-> "InvalidWindow"]
      ELSE IF h.code = "Ok" /\ h.message = << >> THEN [e |-> "InvalidVersion"]
      ELSE IF Len(h.message) > MaxUint16 THEN [e |-> "invalid message"]
      ELSE IF n < size THEN [e |-> "ErrShortBuffer"]
      ELSE [e |-> "nil", flag |-> TRUE, code |-> h.code,
            window |-> h.window, text |-> h.message, got |-> size]

(* ReadServerHello: here every field is read into the whole buffer.        *)
ReadServerHello(m, n) ==
  LET bufsize == IF n = 0 THEN 128 ELSE n
      msglen == Len(m.text)
  IN  IF bufsize < FlagSize THEN Fails("ErrShortBuffer")
      ELSE IF m.got < FlagSize THEN Fails("EOF")
      ELSE IF ~m.flag THEN Fails("ErrUnknowProtocol")
      ELSE IF m.got < ServerHead THEN Fails("EOF")
      ELSE IF m.window = 0 THEN Fails("InvalidWindow")
      ELSE IF ~Fits(msglen, bufsize) /\ n # 0 THEN Fails("ErrShortBuffer")
      ELSE IF m.got < ServerHead + msglen THEN Fails("EOF")
      ELSE IF m.code = "Ok" /\ msglen = 0 THEN Fails("InvalidVersion")
      ELSE [e |-> "nil", code |-> m.code, window |-> m.window,
            message |-> m.text]

-----------------------------------------------------------------------------
(* Mutant: only the first version of the list is looked at.                *)
SupportedFirst(list) == Head(list) = ProtocolVersion

Supported(list) == Contains(list, ProtocolVersion)

(* Server.hello: where serve goes on, and what it tells the client.        *)
Hello(m) ==
  LET r == ReadClientHello(m, ServerBuffer)
  IN  IF r.code = "InvalidProtocol" THEN [to |-> "other"]
      ELSE IF r.e = "panic" THEN [to |-> "panic"]
      ELSE IF r.e = "ErrShortBuffer" THEN [to |-> "refuse", code |-> "InvalidVersion"]
      ELSE IF r.e # "nil" THEN [to |-> "error"]
      ELSE IF r.code # "Ok" THEN [to |-> "refuse", code |-> r.code]
      ELSE IF ~Supported(r.version) THEN [to |-> "refuse", code |-> "InvalidVersion"]
      ELSE [to |-> "ok", code |-> "Ok", window |-> r.window]

(* Server.sendHello: the version, or the text of the code (never empty).   *)
SendHello(code, window) ==
  MarshalServer([code |-> code, window |-> window,
                 message |-> IF code = "Ok" THEN ProtocolVersion ELSE <<code>>],
                ServerBuffer)

(* newClientTransport, given the server's answer m: the window it will use,*)
(* or 0 when it returns an error.                                          *)
ClientAccepts(m) ==
  LET r == ReadServerHello(m, ClientBuffer)
  IN  IF r.e = "nil" /\ r.code = "Ok" /\ r.message = ProtocolVersion
        THEN r.window ELSE 0

-----------------------------------------------------------------------------
(* For the properties of Server: every length at which a branch of the     *)
(* codec changes, lists that need Split, and windows with zero.            *)
Windows == {0, 1, 7}
Lengths == {0, 1, 111, 112, 117, 118, 128, 129, 239, 240, 245, 246, 256, 257,
            MaxUint16, MaxUint16 + 1}
Buffers == {0, 10, 11, 16, 17, 18, 128, 256, 2 * MaxUint16}
Text(n) == [i \in 1..n |-> "x"]
Lists ==
  {<< >>, <<ProtocolVersion>>, <<Text(2), ProtocolVersion>>,
   <<ProtocolVersion, << >>>>, <<<<"1">>, <<"0">>>>}
    \cup {<<Text(n)>> : n \in Lengths}

(* The numbers of bytes after which the connection may end.                *)
Cuts(m) == {0, FlagSize - 1, FlagSize, ClientHead, ServerHead, m.got - 1, m.got}

(* A client hello that was written, and where it is read: m has got bytes, *)
(* of all that were written, and the reader a buffer of n.                 *)
ReadingsOf(w, list) ==
  LET m == MarshalClient([window |-> w, version |-> list], 2 * MaxUint16)
  IN  IF m.e # "nil" THEN {}
      ELSE {[w |-> w, list |-> list, m |-> [m EXCEPT !.got = g], n |-> n,
             all |-> g = m.got] : g \in Cuts(m), n \in Buffers}
Readings == UNION {ReadingsOf(w, list) : w \in Windows, list \in Lists}

Read(x) == ReadClientHello(x.m, x.n)
Accepted(r) == r.e = "nil" /\ r.code = "Ok"

(* What is read without being what was written; and what is whole, fits the*)
(* buffer behind the flag, and is not read.                                *)
Misread ==
  {x \in Readings : Accepted(Read(x)) /\
     ~(x.all /\ Read(x).window = x.w /\ Read(x).version = x.list)}
Unread ==
  {x \in Readings :
     LET bufsize == IF x.n = 0 THEN 128 ELSE x.n
     IN  /\ x.all /\ x.m.window # 0 /\ x.m.text # << >>
         /\ ClientHead <= bufsize /\ FlagSize + Len(x.m.text) <= bufsize
         /\ ~Accepted(Read(x))}

(* A whole hello, and the window of the server that answers it.            *)
Handshakes == {[x |-> x, sw |-> sw] :
                 x \in {y \in Readings : y.all /\ y.n = 0}, sw \in Windows}
To(k) == Hello(k.x.m).to

(* The client goes on exactly when the server does, each with the window of*)
(* the other, and a refusal reaches it as one; the version of the server is*)
(* found wherever it stands in a list that fits.                           *)
Agrees(k) ==
  LET s == Hello(k.x.m)
      a == SendHello(s.code, k.sw)
  IN  /\ FlagSize + Len(k.x.m.text) <= ServerBuffer =>
           s.to = IF Contains(k.x.list, ProtocolVersion) THEN "ok" ELSE "refuse"
      /\ s.to = "ok" /\ a.e = "nil" => s.window = k.x.w /\ ClientAccepts(a) = k.sw
      /\ s.to = "refuse" /\ a.e = "nil" =>
           ReadServerHello(a, ClientBuffer).e = "nil" /\ ClientAccepts(a) = 0
Disagreements == {k \in Handshakes : ~Agrees(k)}
=============================================================================
