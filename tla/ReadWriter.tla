------------------------------ MODULE ReadWriter ------------------------------
(***************************************************************************)
(* pipe.ReadWriter (pipe/read_writer.go): a ring buffer with the fields    *)
(* buffer, offset and size.  It is the store behind PipeReader and so the  *)
(* receive window of a channel.  Write copies in two parts around the end  *)
(* of the buffer; Read calls read until the caller's slice is full or the  *)
(* buffer empty, one part of the ring at a time.                           *)
(***************************************************************************)
EXTENDS Integers, Sequences

CONSTANTS
  Byte,      \* the values of a byte
  Cap,       \* length of the buffer (the window)
  Zero,      \* what make([]byte, n) fills a buffer with
  MaxSlice   \* bound: length of the slices given to Write and Read

VARIABLES
  buffer,    \* the ring
  offset,    \* where its oldest byte is
  size,      \* how many bytes it holds
  want,      \* Read: length of what is left of the caller's slice
  got,       \* Read: the bytes copied so far
  result     \* what the last Read has returned

vars == <<buffer, offset, size, want, got, result>>

Slices == UNION {[1..n -> Byte] : n \in 0..MaxSlice}
Least(m, n) == IF m <= n THEN m ELSE n

TypeOK ==
  /\ buffer \in [0..(Cap - 1) -> Byte]
  /\ offset \in 0..(Cap - 1)
  /\ size \in 0..Cap
  /\ want \in 0..MaxSlice
  /\ got \in Seq(Byte)
  /\ result \in Seq(Byte)

Init ==
  /\ buffer = [i \in 0..(Cap - 1) |-> Zero]
  /\ offset = 0
  /\ want = 0
  /\ got = << >>
  /\ size = 0
  /\ result = << >>

(* Go's copy(buffer[at:], s), s starting after its first skip bytes.        *)
Copied(buf, at, s, skip) ==
  LET n == Least(Cap - at, Len(s) - skip)
  IN  [i \in 0..(Cap - 1) |->
         IF at <= i /\ i < at + n THEN s[skip + i - at + 1] ELSE buf[i]]

(* A Write of s when s fits; otherwise ErrWriteOverflow and nothing written.*)
Write(s) ==
  LET at == (offset + size) % Cap
      n1 == Least(Cap - at, Len(s))
      n2 == Least(Cap, Len(s) - n1)
  IN  /\ want = 0
      /\ Len(s) # 0
      /\ Cap - size >= Len(s)
      /\ UNCHANGED <<offset, want, got, result>>
      /\ buffer' = Copied(Copied(buffer, at, s, 0), 0, s, n1)
      /\ size' = size + n1 + n2

(* Read with a slice of k bytes; with an empty buffer it returns io.EOF.    *)
Read(k) ==
  /\ want = 0
  /\ size # 0
  /\ want' = k
  /\ got' = << >>
  /\ UNCHANGED <<buffer, offset, result, size>>

(* Mutants: read moves the offset one too far; Read returns after one turn. *)
ReadTurnWith(end, newOffset(_), stop) ==
  LET n == Least(want, end - offset)
      more == got \o [i \in 1..n |-> buffer[offset + i - 1]]
      done == want - n = 0 \/ size - n = 0 \/ stop
  IN  /\ want # 0
      /\ want' = IF done THEN 0 ELSE want - n
      /\ got' = IF done THEN << >> ELSE more
      /\ result' = IF done THEN more ELSE result
      /\ offset' = newOffset(n)
      /\ size' = size - n
      /\ UNCHANGED buffer
ReadTurnSkips ==
  ReadTurnWith(Least(offset + size, Cap), LAMBDA n : (offset + n + 1) % Cap, FALSE)
ReadTurnOnce ==
  ReadTurnWith(Least(offset + size, Cap), LAMBDA n : (offset + n) % Cap, TRUE)

(* One turn of the loop of Read: read copies up to the end of the buffer,   *)
(* and Read returns when the slice is full or nothing is left.              *)
ReadTurn ==
  LET end == Least(offset + size, Cap)
      n == Least(want, end - offset)
      more == got \o [i \in 1..n |-> buffer[offset + i - 1]]
      done == want - n = 0 \/ size - n = 0
  IN  /\ want # 0
      /\ want' = IF done THEN 0 ELSE want - n
      /\ got' = IF done THEN << >> ELSE more
      /\ result' = IF done THEN more ELSE result
      /\ offset' = (offset + n) % Cap
      /\ size' = size - n
      /\ UNCHANGED buffer

Clear ==
  /\ want = 0
  /\ offset' = 0
  /\ size' = 0
  /\ UNCHANGED <<buffer, want, got, result>>

Next ==
  \/ \E s \in Slices : Write(s)
  \/ \E k \in 1..MaxSlice : Read(k)
  \/ ReadTurn
  \/ Clear

Spec == Init /\ [][Next]_vars /\ WF_vars(ReadTurn)

-----------------------------------------------------------------------------
(* What the ring holds, oldest byte first.                                  *)
Contents == [i \in 1..size |-> buffer[(offset + i - 1) % Cap]]

(* The ring is a queue: around the end of the buffer no byte is lost,       *)
(* repeated or reordered, and a Read returns the oldest bytes, the most     *)
(* that fit its slice (read_writer.go:48-90).                               *)
Queue == INSTANCE ByteQueue WITH queue <- got \o Contents
ImplementsQueue == Queue!QSpec
=============================================================================
