---------------------------- MODULE IOChannelProofs ----------------------------
(* Proofs about IOChannel, for every window, frame size and queue length.  *)
EXTENDS IOChannel, TLAPS

(* The two ends are each other's peer.                                     *)
LEMMA PeerFacts ==
  ASSUME NEW e \in Ends
  PROVE  /\ Peer(e) \in Ends
         /\ Peer(e) # e
         /\ Peer(Peer(e)) = e
         /\ \A x \in Ends : x = e \/ x = Peer(e)
BY DEF Ends, Peer

(* A window is a positive number.                                          *)
LEMMA WindowFacts ==
  ASSUME NEW e \in Ends
  PROVE  Window[e] \in Nat /\ Window[e] > 0 /\ remoteWindow(e) \in Nat /\ remoteWindow(e) > 0
BY WindowAssumption, PeerFacts DEF remoteWindow

(* The frames that the ends build are frames.                              *)
LEMMA FrameFacts ==
  /\ CloseFrame \in Frame
  /\ \A l, h \in Nat : WriteFrame(l, h) \in Frame /\ ConfirmFrame(l, h) \in Frame
BY DEF CloseFrame, WriteFrame, ConfirmFrame, Frame

-----------------------------------------------------------------------------
(* What the operations on a queue of frames do to the frames of a command. *)

(* The positions of a queued frame are numbers.                            *)
LEMMA QueuedFrame ==
  ASSUME NEW s \in Seq(Frame)
  PROVE  /\ Len(s) \in Nat
         /\ \A i \in 1..Len(s) : s[i] \in Frame /\ s[i].lo \in Nat /\ s[i].hi \in Nat
<1>1. \A f \in Frame : f.lo \in Nat /\ f.hi \in Nat
  BY DEF Frame
<1>2. \A i \in 1..Len(s) : s[i] \in Frame
  OBVIOUS
<1> QED
  BY <1>1, <1>2

(* A chain may be given wider bounds.                                      *)
LEMMA ChainWiden ==
  ASSUME NEW s \in Seq(Frame), NEW cmd,
         NEW l \in Int, NEW h \in Int, NEW l2 \in Int, NEW h2 \in Int,
         Chain(s, cmd, l, h), l2 <= l, h <= h2
  PROVE  Chain(s, cmd, l2, h2)
BY QueuedFrame DEF Chain

(* Appending a frame with another command.                                 *)
LEMMA ChainAppendOther ==
  ASSUME NEW s \in Seq(Frame), NEW cmd, NEW f \in Frame,
         NEW l \in Int, NEW h \in Int,
         Chain(s, cmd, l, h), f.cmd # cmd
  PROVE  Chain(Append(s, f), cmd, l, h)
BY QueuedFrame DEF Chain

(* Appending a frame that starts at the upper bound moves that bound.      *)
LEMMA ChainAppend ==
  ASSUME NEW s \in Seq(Frame), NEW cmd, NEW f \in Frame,
         NEW l \in Int, NEW h \in Int,
         Chain(s, cmd, l, h), l <= h, f.lo = h, f.lo <= f.hi
  PROVE  Chain(Append(s, f), cmd, l, f.hi)
<1> DEFINE t == Append(s, f)
<1>1. f.lo \in Nat /\ f.hi \in Nat
  BY DEF Frame
<1>2. /\ Len(t) = Len(s) + 1
      /\ \A i \in 1..Len(s) : t[i] = s[i]
      /\ t[Len(s) + 1] = f
      /\ \A i \in 1..Len(t) : i \in 1..Len(s) \/ i = Len(s) + 1
  BY QueuedFrame
<1> HIDE DEF t
<1>3. \A i \in 1..Len(t) : t[i].cmd = cmd =>
         l <= t[i].lo /\ t[i].lo <= t[i].hi /\ t[i].hi <= f.hi
  BY <1>1, <1>2, QueuedFrame, SMTT(30) DEF Chain
<1>4. \A i, j \in 1..Len(t) :
         (i < j /\ t[i].cmd = cmd /\ t[j].cmd = cmd) => t[i].hi <= t[j].lo
  BY <1>1, <1>2, QueuedFrame DEF Chain
<1> QED
  BY <1>3, <1>4 DEF Chain, t

(* Removing the first frame.                                               *)
LEMMA ChainTail ==
  ASSUME NEW s \in Seq(Frame), NEW cmd, s # << >>,
         NEW l \in Int, NEW h \in Int,
         Chain(s, cmd, l, h)
  PROVE  /\ Tail(s) \in Seq(Frame)
         /\ Chain(Tail(s), cmd, l, h)
         /\ Head(s) \in Frame
         /\ Head(s).cmd = cmd =>
              /\ l <= Head(s).lo /\ Head(s).lo <= Head(s).hi /\ Head(s).hi <= h
              /\ Chain(Tail(s), cmd, Head(s).hi, h)
<1> DEFINE t == Tail(s)
<1>1. /\ Len(s) >= 1
      /\ Len(t) = Len(s) - 1
      /\ t \in Seq(Frame)
      /\ \A i \in 1..Len(t) : t[i] = s[i + 1] /\ i + 1 \in 1..Len(s)
      /\ Head(s) = s[1]
  BY QueuedFrame
<1> HIDE DEF t
<1>2. \A i, j \in 1..Len(t) :
         (i < j /\ t[i].cmd = cmd /\ t[j].cmd = cmd) => t[i].hi <= t[j].lo
  <2> SUFFICES ASSUME NEW i \in 1..Len(t), NEW j \in 1..Len(t),
                      i < j, t[i].cmd = cmd, t[j].cmd = cmd
               PROVE  t[i].hi <= t[j].lo
    OBVIOUS
  <2>1. i + 1 < j + 1
    BY <1>1
  <2> QED
    BY <1>1, <2>1 DEF Chain
<1>3. \A i \in 1..Len(t) : t[i].cmd = cmd =>
         l <= t[i].lo /\ t[i].lo <= t[i].hi /\ t[i].hi <= h
  BY <1>1 DEF Chain
<1>4. Chain(t, cmd, l, h)
  BY <1>2, <1>3 DEF Chain
<1>5. ASSUME Head(s).cmd = cmd
      PROVE  /\ l <= Head(s).lo /\ Head(s).lo <= Head(s).hi /\ Head(s).hi <= h
             /\ Chain(t, cmd, Head(s).hi, h)
  <2>1. 1 \in 1..Len(s) /\ \A i \in 1..Len(t) : 1 < i + 1
    BY <1>1, QueuedFrame
  <2>2. l <= Head(s).lo /\ Head(s).lo <= Head(s).hi /\ Head(s).hi <= h
    BY <1>1, <1>5, <2>1 DEF Chain
  <2>3. \A i \in 1..Len(t) : t[i].cmd = cmd => Head(s).hi <= t[i].lo
    BY <1>1, <1>5, <2>1 DEF Chain
  <2> QED
    BY <1>2, <1>3, <2>2, <2>3 DEF Chain
<1> QED
  BY <1>1, <1>4, <1>5, QueuedFrame DEF t

(* Taking n bytes off the first frame.                                     *)
IsCut(s, t, n) == t = [s EXCEPT ![1] = WriteFrame(Head(s).lo + n, Head(s).hi)]

LEMMA ChainCut ==
  ASSUME NEW s \in Seq(Frame), s # << >>, NEW cmd,
         NEW l \in Int, NEW h \in Int, NEW n \in Nat,
         Head(s).cmd = "Write", n < Size(Head(s)),
         Chain(s, cmd, l, h),
         NEW t, IsCut(s, t, n)
  PROVE  /\ t \in Seq(Frame)
         /\ Chain(t, cmd, l, h)
         /\ cmd = "Write" => Chain(t, cmd, Head(s).lo + n, h)
<1> DEFINE f == WriteFrame(Head(s).lo + n, Head(s).hi)
<1>1. Len(s) \in Nat /\ Len(s) >= 1 /\ Head(s) = s[1] /\ 1 \in 1..Len(s)
  BY QueuedFrame
<1>2. s[1].lo \in Nat /\ s[1].hi \in Nat /\ n < s[1].hi - s[1].lo
  BY <1>1, QueuedFrame DEF Size
<1>3. f \in Frame /\ f.cmd = "Write" /\ f.lo = s[1].lo + n /\ f.hi = s[1].hi
  BY <1>1, <1>2 DEF Frame, WriteFrame
<1> HIDE DEF f
<1>4. /\ t \in Seq(Frame)
      /\ Len(t) = Len(s)
      /\ \A i \in 1..Len(s) : t[i] = IF i = 1 THEN f ELSE s[i]
  BY <1>1, <1>3 DEF f, IsCut
<1>5. \A i, j \in 1..Len(t) :
         (i < j /\ t[i].cmd = cmd /\ t[j].cmd = cmd) => t[i].hi <= t[j].lo
  <2> SUFFICES ASSUME NEW i \in 1..Len(s), NEW j \in 1..Len(s),
                      i < j, t[i].cmd = cmd, t[j].cmd = cmd
               PROVE  t[i].hi <= t[j].lo
    BY <1>4
  <2>1. j # 1 /\ t[j] = s[j]
    BY <1>4
  <2>2. t[i].hi = s[i].hi /\ s[i].cmd = t[i].cmd
    BY <1>1, <1>3, <1>4
  <2> QED
    BY <2>1, <2>2 DEF Chain
<1>6. \A i \in 1..Len(t) : t[i].cmd = cmd =>
         l <= t[i].lo /\ t[i].lo <= t[i].hi /\ t[i].hi <= h
  <2> SUFFICES ASSUME NEW i \in 1..Len(s), t[i].cmd = cmd
               PROVE  l <= t[i].lo /\ t[i].lo <= t[i].hi /\ t[i].hi <= h
    BY <1>4
  <2>1. CASE i = 1
    <3>1. l <= s[1].lo /\ s[1].lo <= s[1].hi /\ s[1].hi <= h
      BY <1>1, <1>3, <1>4, <2>1 DEF Chain
    <3> QED
      BY <1>2, <1>3, <1>4, <2>1, <3>1
  <2>2. CASE i # 1
    BY <1>4, <2>2 DEF Chain
  <2> QED
    BY <2>1, <2>2
<1>7. Chain(t, cmd, l, h)
  BY <1>5, <1>6 DEF Chain
<1>8. ASSUME cmd = "Write" PROVE Chain(t, cmd, Head(s).lo + n, h)
  <2> SUFFICES ASSUME NEW i \in 1..Len(t), t[i].cmd = cmd
               PROVE  Head(s).lo + n <= t[i].lo
    BY <1>5, <1>6 DEF Chain
  <2>1. CASE i = 1
    BY <1>1, <1>2, <1>3, <1>4, <2>1
  <2>2. CASE i # 1
    <3>1. t[1].cmd = cmd /\ t[1].hi = s[1].hi /\ 1 < i
      BY <1>1, <1>3, <1>4, <1>8, <2>2
    <3>2. s[1].hi <= t[i].lo /\ t[i].lo \in Nat
      BY <1>1, <1>4, <1>5, <3>1, QueuedFrame
    <3> QED
      BY <1>1, <1>2, <3>2, SMTT(30)
  <2> QED
    BY <2>1, <2>2
<1> QED
  BY <1>4, <1>7, <1>8

(* The same for the queue of slices that sendConfirm holds.                *)
LEMMA QueuedSlice ==
  ASSUME NEW s \in Seq(Slice)
  PROVE  /\ Len(s) \in Nat
         /\ \A i \in 1..Len(s) : s[i] \in Slice /\ s[i].lo \in Nat /\ s[i].hi \in Nat
<1>1. \A f \in Slice : f.lo \in Nat /\ f.hi \in Nat
  BY DEF Slice
<1>2. \A i \in 1..Len(s) : s[i] \in Slice
  OBVIOUS
<1> QED
  BY <1>1, <1>2

LEMMA SliceChainAppend ==
  ASSUME NEW s \in Seq(Slice), NEW f \in Slice,
         NEW l \in Int, NEW h \in Int,
         SliceChain(s, l, h), l <= h, f.lo = h, f.lo <= f.hi
  PROVE  SliceChain(Append(s, f), l, f.hi)
<1> DEFINE t == Append(s, f)
<1>1. f.lo \in Nat /\ f.hi \in Nat
  BY DEF Slice
<1>2. /\ Len(t) = Len(s) + 1
      /\ \A i \in 1..Len(s) : t[i] = s[i]
      /\ t[Len(s) + 1] = f
      /\ \A i \in 1..Len(t) : i \in 1..Len(s) \/ i = Len(s) + 1
  BY QueuedSlice
<1> HIDE DEF t
<1>3. \A i \in 1..Len(t) :
         l <= t[i].lo /\ t[i].lo <= t[i].hi /\ t[i].hi <= f.hi
  BY <1>1, <1>2, QueuedSlice DEF SliceChain
<1>4. \A i, j \in 1..Len(t) : i < j => t[i].hi <= t[j].lo
  BY <1>1, <1>2, QueuedSlice DEF SliceChain
<1> QED
  BY <1>3, <1>4 DEF SliceChain, t

LEMMA SliceChainTail ==
  ASSUME NEW s \in Seq(Slice), s # << >>,
         NEW l \in Int, NEW h \in Int,
         SliceChain(s, l, h)
  PROVE  /\ Tail(s) \in Seq(Slice)
         /\ Head(s) \in Slice
         /\ l <= Head(s).lo /\ Head(s).lo <= Head(s).hi /\ Head(s).hi <= h
         /\ SliceChain(Tail(s), Head(s).hi, h)
<1> DEFINE t == Tail(s)
<1>1. /\ Len(s) >= 1
      /\ Len(t) = Len(s) - 1
      /\ t \in Seq(Slice)
      /\ \A i \in 1..Len(t) : t[i] = s[i + 1] /\ i + 1 \in 1..Len(s)
      /\ Head(s) = s[1]
      /\ 1 \in 1..Len(s)
  BY QueuedSlice
<1> HIDE DEF t
<1>2. \A i, j \in 1..Len(t) : i < j => t[i].hi <= t[j].lo
  <2> SUFFICES ASSUME NEW i \in 1..Len(t), NEW j \in 1..Len(t), i < j
               PROVE  t[i].hi <= t[j].lo
    OBVIOUS
  <2>1. i + 1 < j + 1
    BY <1>1
  <2> QED
    BY <1>1, <2>1 DEF SliceChain
<1>3. \A i \in 1..Len(t) :
         l <= t[i].lo /\ t[i].lo <= t[i].hi /\ t[i].hi <= h
  BY <1>1 DEF SliceChain
<1>4. \A i \in 1..Len(t) : 1 < i + 1
  BY <1>1, QueuedSlice
<1>5. \A i \in 1..Len(t) : Head(s).hi <= t[i].lo
  BY <1>1, <1>4 DEF SliceChain
<1>6. l <= Head(s).lo /\ Head(s).lo <= Head(s).hi /\ Head(s).hi <= h
  BY <1>1 DEF SliceChain
<1>7. SliceChain(t, Head(s).hi, h)
  BY <1>2, <1>3, <1>5 DEF SliceChain
<1> QED
  BY <1>1, <1>6, <1>7, QueuedSlice DEF t

(* A longer range is a wider one.                                          *)
LEMMA SliceChainWiden ==
  ASSUME NEW s \in Seq(Slice), NEW l \in Int, NEW h \in Int, NEW h2 \in Int,
         SliceChain(s, l, h), h <= h2
  PROVE  SliceChain(s, l, h2)
BY QueuedSlice DEF SliceChain

-----------------------------------------------------------------------------
(* The values that one end holds have their types.                         *)
LEMMA Typed ==
  ASSUME TypeOK, NEW e \in Ends
  PROVE  /\ net[e] \in Seq(Frame)
         /\ b[e] \in Slice /\ b[e].lo \in Nat /\ b[e].hi \in Nat
         /\ writed[e] \in Nat
         /\ confirm[e] \in Nat
         /\ pipe[e] \in Slice /\ pipe[e].lo \in Nat /\ pipe[e].hi \in Nat
         /\ reading[e] \in Slice /\ reading[e].lo \in Nat /\ reading[e].hi \in Nat
         /\ sendConfirm[e] \in Seq(Slice)
         /\ confirmed[e] \in Slice /\ confirmed[e].lo \in Nat /\ confirmed[e].hi \in Nat
         /\ closed[e] \in BOOLEAN /\ keys[e] \in BOOLEAN
         /\ Applied(e) \in Int
<1>1. \A f \in Slice : f.lo \in Nat /\ f.hi \in Nat
  BY DEF Slice
<1> QED
  BY <1>1 DEF TypeOK, Applied

(* The parts of the invariant are about the variables that they name.      *)
LEMMA SenderSame ==
  ASSUME NEW x \in Ends, SenderInv(x),
         b'[x] = b[x], writed'[x] = writed[x],
         pcServe'[x] = "send" => pcServe[x] = "send"
  PROVE  SenderInv(x)'
BY DEF SenderInv, remoteWindow

LEMMA AckSame ==
  ASSUME NEW x \in Ends, AckInv(x),
         Applied(x)' = Applied(x),
         net'[Peer(x)] = net[Peer(x)],
         confirmed'[Peer(x)] = confirmed[Peer(x)],
         reading'[Peer(x)].lo = reading[Peer(x)].lo,
         sendConfirm'[Peer(x)] = sendConfirm[Peer(x)]
  PROVE  AckInv(x)'
BY DEF AckInv

LEMMA DataSame ==
  ASSUME NEW x \in Ends, DataInv(x),
         b'[x].lo = b[x].lo,
         net'[x] = net[x],
         reading'[Peer(x)] = reading[Peer(x)],
         pipe'[Peer(x)] = pipe[Peer(x)]
  PROVE  DataInv(x)'
BY DEF DataInv

-----------------------------------------------------------------------------
(* The types are preserved.                                                *)

LEMMA InitTypeOK == Init => TypeOK
BY DEF Init, TypeOK, Ends, Slice, Interval

(* A frame taken from the peer's queue, and one appended to one's own.     *)
LEMMA QueueTypes ==
  ASSUME TypeOK, NEW e \in Ends
  PROVE  /\ net[Peer(e)] # << >> =>
              /\ Head(net[Peer(e)]) \in Frame
              /\ Dequeue(e) \in [Ends -> Seq(Frame)]
         /\ \A f \in Frame : [net EXCEPT ![e] = Append(@, f)] \in [Ends -> Seq(Frame)]
<1>1. net[e] \in Seq(Frame) /\ net[Peer(e)] \in Seq(Frame) /\ Peer(e) \in Ends /\ Peer(e) # e
  BY Typed, PeerFacts
<1>2. CloseFrame \in Frame
  BY FrameFacts
<1>3. \A f \in Frame : Append(net[e], f) \in Seq(Frame)
  BY <1>1
<1>4. ASSUME net[Peer(e)] # << >>
      PROVE  Head(net[Peer(e)]) \in Frame /\ Tail(net[Peer(e)]) \in Seq(Frame)
  BY <1>1, <1>4
<1>5. net \in [Ends -> Seq(Frame)]
  BY DEF TypeOK
<1> QED
  BY <1>1, <1>2, <1>3, <1>4, <1>5 DEF Dequeue

LEMMA ServeTypes ==
  ASSUME TypeOK, NEW e \in Ends, SenderInv(e),
         ServeStep(e) \/ \E n \in 1..MaxBytes[e] : Write(e, n)
  PROVE  TypeOK'
<1>1. CASE \E n \in 1..MaxBytes[e] : Write(e, n)
  <2> PICK n \in 1..MaxBytes[e] : Write(e, n)
    BY <1>1
  <2>1. n \in Nat
    BY BoundAssumption
  <2>2. b' \in [Ends -> Slice]
    BY <2>1, SMTT(30) DEF Write, TypeOK, Slice, Interval
  <2>3. AfterLoop(e, b'[e], writed[e]) \in {"choose", "send"}
    BY DEF AfterLoop
  <2> QED
    BY <2>2, <2>3 DEF Write, TypeOK, readVars, confirmVars, lifeVars, loopVars
<1>2. CASE ChooseConfirm(e)
  BY <1>2 DEF ChooseConfirm, TypeOK, readVars, confirmVars, AfterLoop, loopVars
<1>3. CASE SendWrite(e)
  <2> DEFINE n == SendSize(e)
  <2>1. n \in Nat
    <3>1. /\ b[e].lo \in Nat /\ b[e].hi \in Nat
          /\ writed[e] \in Nat /\ remoteWindow(e) \in Nat
      BY Typed, WindowFacts
    <3>2. writed[e] < remoteWindow(e) /\ b[e].lo < b[e].hi
      BY <1>3 DEF SendWrite, SenderInv, Enqueue
    <3> QED
      BY <3>1, <3>2, FrameAssumption DEF SendSize, Least, Size
  <2>2. b' \in [Ends -> Slice]
    BY <1>3, <2>1, SMTT(30) DEF SendWrite, TypeOK, Slice, Interval
  <2>3. WriteFrame(b[e].lo, b[e].lo + n) \in Frame
    BY <2>1, Typed, FrameFacts
  <2>4. net' \in [Ends -> Seq(Frame)]
    BY <1>3, <2>3, QueueTypes DEF SendWrite, Enqueue
  <2>5. writed' \in [Ends -> Nat]
    BY <1>3, <2>1 DEF SendWrite, TypeOK, Enqueue
  <2>6. pcServe' \in [Ends -> {"choose", "send", "delete", "sendClose", "done"}]
    BY <1>3 DEF SendWrite, TypeOK, AfterLoop, Enqueue
  <2> QED
    BY <1>3, <2>2, <2>4, <2>5, <2>6
       DEF SendWrite, TypeOK, readVars, confirmVars, lifeVars, Enqueue, loopVars
<1>4. CASE ServeExit(e)
  BY <1>4 DEF ServeExit, TypeOK, readVars, confirmVars, loopVars
<1>5. CASE ServeDelete(e)
  BY <1>5 DEF ServeDelete, TypeOK, readVars, confirmVars, loopVars
<1>6. CASE ServeSendClose(e)
  <2>1. net' \in [Ends -> Seq(Frame)]
    <3>1. [net EXCEPT ![e] = Append(@, CloseFrame)] \in [Ends -> Seq(Frame)]
      BY QueueTypes, FrameFacts
    <3> QED
      BY <1>6, <3>1 DEF ServeSendClose, TypeOK, SendClose, Enqueue
  <2> QED
    BY <1>6, <2>1 DEF ServeSendClose, TypeOK, readVars, confirmVars, lifeVars,
                      SendClose, Enqueue, loopVars
<1> QED
  BY <1>1, <1>2, <1>3, <1>4, <1>5, <1>6 DEF ServeStep

LEMMA ConfirmTypes ==
  ASSUME TypeOK, NEW e \in Ends, AckInv(Peer(e)), ConfirmStep(e)
  PROVE  TypeOK'
<1>1. ASSUME sendConfirm[e] # << >>
      PROVE  /\ Head(sendConfirm[e]) \in Slice
             /\ [sendConfirm EXCEPT ![e] = Tail(@)] \in [Ends -> Seq(Slice)]
             /\ Add(confirmed[e], Head(sendConfirm[e])) \in Slice
  <2>1. sendConfirm[e] \in Seq(Slice)
    BY Typed
  <2>2. Head(sendConfirm[e]) \in Slice /\ Tail(sendConfirm[e]) \in Seq(Slice)
    BY <1>1, <2>1
  <2>3. /\ confirmed[e].lo <= confirmed[e].hi
        /\ confirmed[e].hi <= Head(sendConfirm[e]).lo
    BY <1>1, <2>1, PeerFacts, Typed, SliceChainTail DEF AckInv
  <2>4. Add(confirmed[e], Head(sendConfirm[e])) \in Slice
    BY <2>2, <2>3, Typed, SMTT(30) DEF Add, Size, Slice, Interval
  <2> QED
    BY <2>2, <2>4 DEF TypeOK
<1>2. CASE TakeConfirm(e)
  BY <1>1, <1>2 DEF TakeConfirm, TypeOK, AfterGather, serveVars, readVars,
                    lifeVars, loopVars
<1>3. CASE GatherConfirm(e)
  BY <1>1, <1>3 DEF GatherConfirm, TypeOK, AfterGather, serveVars, readVars,
                    lifeVars, loopVars
<1>4. CASE GatherEnd(e)
  BY <1>4 DEF GatherEnd, TypeOK, serveVars, readVars, lifeVars, loopVars
<1>5. CASE SendConfirm(e)
  <2> DEFINE ok == Least(Size(confirmed[e]), MaxUint16)
             l == confirmed[e].lo
  <2>1. ok \in Nat
    BY FrameAssumption, Typed, PeerFacts DEF AckInv, Least, Size
  <2>2. ConfirmFrame(l, l + ok) \in Frame
    <3>1. l \in Nat /\ l + ok \in Nat
      BY <2>1, Typed
    <3> HIDE DEF l, ok
    <3> QED
      BY <3>1, FrameFacts
  <2>3. net' \in [Ends -> Seq(Frame)]
    BY <1>5, <2>2, QueueTypes DEF SendConfirm, Enqueue
  <2>4. Interval(l + ok, confirmed[e].hi) \in Slice
    BY <2>1, Typed DEF Interval, Slice
  <2>5. confirmed' \in [Ends -> Slice]
    BY <1>5, <2>4 DEF SendConfirm, TypeOK, Enqueue
  <2>6. pcConfirm' \in [Ends -> {"wait", "gather", "send", "done"}]
    BY <1>5 DEF SendConfirm, TypeOK, Enqueue
  <2> QED
    BY <1>5, <2>3, <2>5, <2>6 DEF SendConfirm, TypeOK, serveVars, readVars,
                              lifeVars, Enqueue, loopVars
<1>6. CASE ConfirmExit(e)
  BY <1>6 DEF ConfirmExit, TypeOK, serveVars, readVars, lifeVars, loopVars
<1> QED
  BY <1>2, <1>3, <1>4, <1>5, <1>6 DEF ConfirmStep

LEMMA ReadTypes ==
  ASSUME TypeOK, NEW e \in Ends, ReadStep(e)
  PROVE  TypeOK'
<1>1. CASE \E n \in 1..Window[e] : Read(e, n)
  <2> PICK n \in 1..Window[e] : Read(e, n)
    BY <1>1
  <2>1. n \in Nat
    BY WindowFacts
  <2>2. /\ Interval(pipe[e].lo + n, pipe[e].hi) \in Slice
        /\ Interval(pipe[e].lo, pipe[e].lo + n) \in Slice
    BY <2>1, Typed DEF Interval, Slice
  <2> QED
    BY <2>2 DEF Read, TypeOK, serveVars, confirmVars, lifeVars, loopVars
<1>2. CASE ReadConfirm(e)
  <2>1. Interval(reading[e].hi, reading[e].hi) \in Slice
    BY Typed DEF Interval, Slice
  <2>2. Append(sendConfirm[e], reading[e]) \in Seq(Slice)
    BY Typed
  <2> QED
    BY <1>2, <2>1, <2>2 DEF ReadConfirm, TypeOK, serveVars, lifeVars, loopVars
<1> QED
  BY <1>1, <1>2 DEF ReadStep

(* What is known of the first frame that the reader of e finds.            *)
LEMMA HeadWrite ==
  ASSUME TypeOK, NEW e \in Ends, DataInv(Peer(e)), HasFrame(e, "Write")
  PROVE  LET f == Head(net[Peer(e)])
         IN  /\ Chain(net[Peer(e)], "Write", pipe[e].hi, b[Peer(e)].lo)
             /\ net[Peer(e)] # << >>
             /\ f \in Frame /\ f.lo \in Nat /\ f.hi \in Nat /\ f.cmd = "Write"
             /\ pipe[e].hi <= f.lo /\ f.lo <= f.hi /\ f.hi <= b[Peer(e)].lo
<1>1. Peer(e) \in Ends /\ Peer(Peer(e)) = e
  BY PeerFacts
<1>2. Chain(net[Peer(e)], "Write", pipe[e].hi, b[Peer(e)].lo)
  BY <1>1 DEF DataInv
<1>3. net[Peer(e)] # << >> /\ Head(net[Peer(e)]).cmd = "Write"
  BY DEF HasFrame
<1>4. net[Peer(e)] \in Seq(Frame) /\ pipe[e].hi \in Int /\ b[Peer(e)].lo \in Int
  BY <1>1, Typed
<1>5. \A f \in Frame : f.lo \in Nat /\ f.hi \in Nat
  BY DEF Frame
<1> QED
  BY <1>2, <1>3, <1>4, <1>5, ChainTail

LEMMA HeadConfirm ==
  ASSUME TypeOK, NEW e \in Ends, AckInv(e), HasFrame(e, "Confirm")
  PROVE  LET f == Head(net[Peer(e)])
         IN  /\ net[Peer(e)] # << >>
             /\ f \in Frame /\ f.lo \in Nat /\ f.hi \in Nat /\ f.cmd = "Confirm"
             /\ Applied(e) <= f.lo /\ f.lo <= f.hi /\ f.hi <= confirmed[Peer(e)].lo
             /\ Chain(Tail(net[Peer(e)]), "Confirm", f.hi, confirmed[Peer(e)].lo)
             /\ Size(f) \in Nat
<1>1. Peer(e) \in Ends
  BY PeerFacts
<1>2. Chain(net[Peer(e)], "Confirm", Applied(e), confirmed[Peer(e)].lo)
  BY DEF AckInv
<1>3. net[Peer(e)] # << >> /\ Head(net[Peer(e)]).cmd = "Confirm"
  BY DEF HasFrame
<1>4. net[Peer(e)] \in Seq(Frame) /\ Applied(e) \in Int /\ confirmed[Peer(e)].lo \in Int
  BY <1>1, Typed
<1>5. \A f \in Frame : f.lo \in Nat /\ f.hi \in Nat
  BY DEF Frame
<1>6. \A f : f.lo \in Nat /\ f.hi \in Nat /\ f.lo <= f.hi => Size(f) \in Nat
  BY DEF Size
<1> QED
  BY <1>2, <1>3, <1>4, <1>5, <1>6, ChainTail

LEMMA ReaderTypes ==
  ASSUME TypeOK, NEW e \in Ends, DataInv(Peer(e)), AckInv(e), ReaderStep(e)
  PROVE  TypeOK'
<1> DEFINE p == Peer(e)
           f == Head(net[p])
<1>1. \A cmd : HasFrame(e, cmd) =>
         /\ net[p] # << >>
         /\ f \in Frame /\ f.lo \in Nat /\ f.hi \in Nat
         /\ f.cmd = cmd
         /\ Dequeue(e) \in [Ends -> Seq(Frame)]
  BY QueueTypes DEF HasFrame, Frame
<1>2. p \in Ends /\ Peer(p) = e /\ net[p] \in Seq(Frame)
  BY PeerFacts, Typed
<1>3. CASE ReaderWrite(e)
  <2> DEFINE n == Least(Size(f), RecvBuf)
  <2>1. HasFrame(e, "Write")
    BY <1>3 DEF ReaderWrite
  <2>2. f.lo <= f.hi
    BY <2>1, HeadWrite
  <2>3. n \in Nat /\ (n # Size(f) => n < Size(f))
    BY <1>1, <2>1, <2>2, FrameAssumption, SMTT(30) DEF Least, Size
  <2>4. net' \in [Ends -> Seq(Frame)]
    <3>1. CASE n = Size(f)
      BY <1>1, <1>3, <2>1, <3>1 DEF ReaderWrite
    <3>2. CASE n # Size(f)
      <4>1. WriteFrame(f.lo + n, f.hi) \in Frame
        <5>1. f.lo + n \in Nat /\ f.hi \in Nat
          BY <1>1, <2>1, <2>3
        <5> HIDE DEF f, n
        <5> QED
          BY <5>1, FrameFacts
      <4>2. [net[p] EXCEPT ![1] = WriteFrame(f.lo + n, f.hi)] \in Seq(Frame)
        <5>1. net[p] # << >>
          BY <1>1, <2>1
        <5> HIDE DEF f, n, p
        <5> QED
          BY <1>2, <4>1, <5>1
      <4> QED
        BY <1>2, <1>3, <3>2, <4>2 DEF ReaderWrite, TypeOK, loopVars
    <3> QED
      BY <3>1, <3>2
  <2>5. Interval(pipe[e].lo, pipe[e].hi + n) \in Slice
    BY <2>3, Typed DEF Interval, Slice
  <2>6. pipe' \in [Ends -> Slice]
    BY <1>3, <2>5 DEF ReaderWrite, TypeOK, loopVars
  <2>7. closed' \in [Ends -> BOOLEAN]
    BY <1>3 DEF ReaderWrite, TypeOK, loopVars
  <2> QED
    BY <1>3, <2>4, <2>6, <2>7 DEF ReaderWrite, TypeOK, serveVars, confirmVars,
                              loopVars
<1>4. ASSUME HasFrame(e, "Confirm") PROVE Size(f) \in Nat
  BY <1>4, HeadConfirm
<1>5. CASE ReaderConfirm(e)
  BY <1>1, <1>4, <1>5 DEF ReaderConfirm, TypeOK, serveVars, readVars, confirmVars,
                          lifeVars, loopVars
<1>6. CASE ReaderMerge(e)
  <2>1. MergedConfirm(e) \in Nat
    BY <1>4, <1>6, Typed DEF ReaderMerge, MergedConfirm
  <2> QED
    BY <1>1, <1>6, <2>1 DEF ReaderMerge, TypeOK, serveVars, readVars, confirmVars,
                            lifeVars, loopVars
<1>7. CASE ReaderOverflow(e)
  BY <1>1, <1>7
     DEF ReaderOverflow, TypeOK, serveVars, readVars, confirmVars, ToSendClose
<1>8. CASE ReaderConfirmDown(e)
  BY <1>1, <1>8
     DEF ReaderConfirmDown, TypeOK, serveVars, readVars, confirmVars, lifeVars,
         loopVars
<1>9. CASE ReaderConfirmUnknown(e)
  BY <1>1, <1>9
     DEF ReaderConfirmUnknown, TypeOK, serveVars, readVars, confirmVars, lifeVars,
         ToSendClose, loopVars
<1>10. CASE ReaderClose(e)
  BY <1>1, <1>10 DEF ReaderClose, TypeOK, serveVars, readVars, confirmVars, loopVars
<1>11. CASE ReaderSendClose(e)
  <2>1. net' \in [Ends -> Seq(Frame)]
    <3>1. [net EXCEPT ![e] = Append(@, CloseFrame)] \in [Ends -> Seq(Frame)]
      BY QueueTypes, FrameFacts
    <3> QED
      BY <1>11, <3>1 DEF ReaderSendClose, TypeOK, SendClose, Enqueue
  <2> QED
    BY <1>11, <2>1 DEF ReaderSendClose, TypeOK, serveVars, readVars, confirmVars
<1> QED
  BY <1>3, <1>5, <1>6, <1>7, <1>8, <1>9, <1>10, <1>11 DEF ReaderStep

(* What closes a channel, and ends or jams a transport, from outside.      *)
LEMMA EndTypes ==
  ASSUME TypeOK,
         TransportClose \/ \E e \in Ends : Close(e) \/ ReaderExit(e) \/ Jam(e)
  PROVE  TypeOK'
<1>1. CASE TransportClose
  BY <1>1 DEF TransportClose, TypeOK, serveVars, readVars, confirmVars, loopVars
<1>2. ASSUME NEW e \in Ends, Close(e) PROVE TypeOK'
  BY <1>2 DEF Close, TypeOK, serveVars, readVars, confirmVars, loopVars
<1>3. ASSUME NEW e \in Ends, ReaderExit(e) PROVE TypeOK'
  BY <1>3 DEF ReaderExit, TypeOK, serveVars, readVars, confirmVars, loopVars
<1>4. ASSUME NEW e \in Ends, Jam(e) PROVE TypeOK'
  BY <1>4 DEF Jam, TypeOK, serveVars, readVars, confirmVars
<1> QED
  BY <1>1, <1>2, <1>3, <1>4

-----------------------------------------------------------------------------
(* The positions stay in line.  One lemma per action that moves one.       *)

Parts(x) == SenderInv(x) /\ AckInv(x) /\ DataInv(x)

LEMMA PartsBoth ==
  ASSUME NEW e \in Ends, Parts(e)', Parts(Peer(e))'
  PROVE  \A x \in Ends : Parts(x)'
BY PeerFacts

(* Frames that are dropped, Close frames that are sent, and a confirmation *)
(* that is lost leave the rest in line.                                    *)
LEMMA QueueStep ==
  ASSUME IndInv,
         UNCHANGED <<b, writed, pipe, reading, sendConfirm, confirmed>>,
         \A x \in Ends : pcServe'[x] = "send" => pcServe[x] = "send",
         \A x \in Ends : confirm'[x] = confirm[x] \/ confirm'[x] = 0,
         \A x \in Ends :
           LET t == IF net[x] = << >> THEN << >> ELSE Tail(net[x])
           IN  net'[x] \in {net[x], t, Append(net[x], CloseFrame)}
  PROVE  \A x \in Ends : Parts(x)'
<1> SUFFICES ASSUME NEW x \in Ends PROVE Parts(x)'
  OBVIOUS
<1>1. /\ TypeOK
      /\ SenderInv(x) /\ AckInv(x) /\ DataInv(x)
      /\ Peer(x) \in Ends
  BY PeerFacts DEF IndInv
<1>2. ASSUME NEW y \in Ends, NEW cmd \in {"Write", "Confirm"},
             NEW l \in Int, NEW h \in Int, Chain(net[y], cmd, l, h)
      PROVE  Chain(net'[y], cmd, l, h)
  <2>1. net[y] \in Seq(Frame) /\ CloseFrame \in Frame /\ CloseFrame.cmd # cmd
    BY <1>1, Typed, FrameFacts DEF CloseFrame
  <2>2. Chain(Append(net[y], CloseFrame), cmd, l, h)
    BY <1>2, <2>1, ChainAppendOther
  <2>3. net[y] # << >> => Chain(Tail(net[y]), cmd, l, h)
    BY <1>2, <2>1, ChainTail
  <2> QED
    BY <1>2, <2>2, <2>3
<1>3. SenderInv(x)'
  BY <1>1, SenderSame
<1>4. Applied(x)' <= Applied(x) /\ Applied(x)' \in Int /\ Applied(x) \in Int
  <2>1. b[x].lo \in Nat /\ writed[x] \in Nat /\ confirm[x] \in Nat
    BY <1>1, Typed
  <2>2. confirm'[x] \in Nat /\ confirm'[x] <= confirm[x]
    BY <2>1
  <2> QED
    BY <2>1, <2>2 DEF Applied
<1>5. Chain(net'[Peer(x)], "Confirm", Applied(x)', confirmed[Peer(x)].lo)
  <2>1. Chain(net[Peer(x)], "Confirm", Applied(x)', confirmed[Peer(x)].lo)
    BY <1>1, <1>4, Typed, ChainWiden DEF AckInv
  <2> QED
    BY <1>1, <1>2, <1>4, <2>1, Typed
<1>6. AckInv(x)'
  BY <1>1, <1>4, <1>5, Typed DEF AckInv
<1>7. Chain(net'[x], "Write", pipe[Peer(x)].hi, b[x].lo)
  BY <1>1, <1>2, Typed DEF DataInv
<1>8. DataInv(x)'
  BY <1>1, <1>7 DEF DataInv
<1> QED
  BY <1>3, <1>6, <1>8 DEF Parts

LEMMA WriteStep ==
  ASSUME IndInv, NEW e \in Ends, NEW n \in 1..MaxBytes[e], Write(e, n)
  PROVE  \A x \in Ends : Parts(x)'
<1>1. /\ TypeOK
      /\ Parts(e) /\ Parts(Peer(e))
      /\ Peer(e) \in Ends /\ Peer(e) # e
      /\ n \in Nat /\ n > 0
  BY PeerFacts, BoundAssumption DEF IndInv, Parts
<1>2. /\ UNCHANGED <<net, writed, confirm, pipe, reading, sendConfirm, confirmed>>
      /\ b'[Peer(e)] = b[Peer(e)] /\ pcServe'[Peer(e)] = pcServe[Peer(e)]
      /\ b'[e].lo = b[e].lo /\ b'[e].hi = b[e].hi + n
      /\ pcServe'[e] = AfterLoop(e, b'[e], writed[e])
      /\ Size(b[e]) = 0
  BY <1>1 DEF Write, TypeOK, Interval, readVars, confirmVars
<1>3. SenderInv(e)'
  <2>1. /\ b[e].lo \in Nat /\ b[e].hi \in Nat
        /\ writed[e] \in Nat /\ remoteWindow(e) \in Nat
    BY <1>1, Typed, WindowFacts
  <2>2. pcServe'[e] = "send" => b'[e].lo # b'[e].hi /\ writed[e] # remoteWindow(e)
    BY <1>2, <2>1 DEF AfterLoop, Size
  <2> QED
    BY <1>1, <1>2, <2>1, <2>2 DEF Parts, SenderInv, remoteWindow
<1>4. AckInv(e)' /\ DataInv(e)'
  BY <1>1, <1>2, AckSame, DataSame DEF Parts, Applied
<1>5. Parts(Peer(e))'
  BY <1>1, <1>2, SenderSame, AckSame, DataSame DEF Parts, Applied
<1> QED
  BY <1>3, <1>4, <1>5, PartsBoth DEF Parts

LEMMA ChooseConfirmStep ==
  ASSUME IndInv, NEW e \in Ends, ChooseConfirm(e)
  PROVE  \A x \in Ends : Parts(x)'
<1>1. /\ TypeOK
      /\ Parts(e) /\ Parts(Peer(e))
      /\ Peer(e) \in Ends /\ Peer(e) # e
  BY PeerFacts DEF IndInv, Parts
<1>2. confirm[e] <= writed[e]
  <2>1. Applied(e) <= b[e].lo
    BY <1>1, Typed, SMTT(30) DEF Parts, AckInv, DataInv
  <2> QED
    BY <1>1, <2>1, Typed DEF Applied
<1>3. /\ UNCHANGED <<net, b, pipe, reading, sendConfirm, confirmed>>
      /\ writed'[e] = writed[e] - confirm[e]
      /\ writed'[Peer(e)] = writed[Peer(e)]
      /\ confirm'[e] = 0 /\ confirm'[Peer(e)] = confirm[Peer(e)]
      /\ pcServe'[Peer(e)] = pcServe[Peer(e)]
      /\ pcServe'[e] = AfterLoop(e, b[e], writed[e] - confirm[e])
  <2>1. ~(confirm[e] > writed[e])
    BY <1>1, <1>2, Typed
  <2> QED
    BY <1>1, <2>1 DEF ChooseConfirm, TypeOK, readVars, confirmVars, loopVars
<1>4. SenderInv(e)'
  <2>1. /\ b[e].lo \in Nat /\ b[e].hi \in Nat /\ confirm[e] \in Nat
        /\ writed[e] \in Nat /\ remoteWindow(e) \in Nat
    BY <1>1, Typed, WindowFacts
  <2>2. pcServe'[e] = "send" => b[e].lo # b[e].hi /\ writed'[e] # remoteWindow(e)
    BY <1>3, <2>1 DEF AfterLoop, Size
  <2> QED
    BY <1>1, <1>2, <1>3, <2>1, <2>2 DEF Parts, SenderInv, remoteWindow
<1>5. Applied(e)' = Applied(e)
  BY <1>1, <1>3, Typed DEF Applied
<1>6. AckInv(e)' /\ DataInv(e)'
  BY <1>1, <1>3, <1>5, AckSame, DataSame DEF Parts
<1>7. Parts(Peer(e))'
  BY <1>1, <1>3, SenderSame, AckSame, DataSame DEF Parts, Applied
<1> QED
  BY <1>4, <1>6, <1>7, PartsBoth DEF Parts

LEMMA SendWriteStep ==
  ASSUME IndInv, NEW e \in Ends, SendWrite(e)
  PROVE  \A x \in Ends : Parts(x)'
<1> DEFINE p == Peer(e)
           n == SendSize(e)
           f == WriteFrame(b[e].lo, b[e].lo + n)
<1>1. /\ TypeOK
      /\ Parts(e) /\ Parts(p)
      /\ p \in Ends /\ p # e /\ Peer(p) = e
  BY PeerFacts DEF IndInv, Parts
<1>2. /\ n \in Nat /\ n > 0
      /\ b[e].lo + n <= b[e].hi
      /\ writed[e] + n <= remoteWindow(e)
  <2>1. /\ b[e].lo \in Nat /\ b[e].hi \in Nat
        /\ writed[e] \in Nat /\ remoteWindow(e) \in Nat
    BY <1>1, Typed, WindowFacts
  <2>2. writed[e] < remoteWindow(e) /\ b[e].lo < b[e].hi
    BY <1>1 DEF SendWrite, Parts, SenderInv, Enqueue
  <2> QED
    BY <2>1, <2>2, FrameAssumption DEF SendSize, Least, Size
<1>3. /\ UNCHANGED <<confirm, pipe, reading, sendConfirm, confirmed>>
      /\ writed'[e] = writed[e] + n /\ writed'[p] = writed[p]
      /\ b'[e].lo = b[e].lo + n /\ b'[e].hi = b[e].hi /\ b'[p] = b[p]
      /\ pcServe'[p] = pcServe[p]
      /\ pcServe'[e] = AfterLoop(e, Interval(b[e].lo + n, b[e].hi), writed[e] + n)
      /\ net'[e] = Append(net[e], f) /\ net'[p] = net[p]
  <2> HIDE DEF n, p
  <2> QED
    BY <1>1 DEF SendWrite, TypeOK, Interval, readVars, confirmVars, n, Enqueue
<1>4. SenderInv(e)'
  <2>1. /\ b[e].lo \in Nat /\ b[e].hi \in Nat
        /\ writed[e] \in Nat /\ remoteWindow(e) \in Nat
    BY <1>1, Typed, WindowFacts
  <2> HIDE DEF n
  <2>2. pcServe'[e] = "send" => b'[e].lo # b'[e].hi /\ writed'[e] # remoteWindow(e)
    BY <1>2, <1>3, <2>1 DEF AfterLoop, Size, Interval
  <2>3. writed[e] <= b[e].lo
    BY <1>1 DEF Parts, SenderInv
  <2>4. /\ writed'[e] <= remoteWindow(e)
        /\ writed'[e] <= b'[e].lo
        /\ b'[e].lo <= b'[e].hi
        /\ pcServe'[e] = "send" => writed'[e] < remoteWindow(e) /\ b'[e].lo < b'[e].hi
    <3>1. writed'[e] = writed[e] + n /\ b'[e].lo = b[e].lo + n /\ b'[e].hi = b[e].hi
      BY <1>3
    <3>2. /\ writed[e] + n <= remoteWindow(e)
          /\ writed[e] + n <= b[e].lo + n
          /\ b[e].lo + n <= b[e].hi
      BY <1>2, <2>1, <2>3
    <3> QED
      BY <1>2, <2>1, <2>2, <3>1, <3>2
  <2> QED
    BY <2>4 DEF SenderInv, remoteWindow
<1>5. f \in Frame /\ f.cmd = "Write" /\ f.lo = b[e].lo /\ f.hi = b[e].lo + n
  BY <1>1, <1>2, Typed DEF WriteFrame, Frame
<1>6. Applied(e)' = Applied(e)
  BY <1>1, <1>2, <1>3, Typed DEF Applied
<1>7. AckInv(e)'
  BY <1>1, <1>3, <1>6, AckSame DEF Parts
<1>8. /\ Chain(net[e], "Write", pipe[p].hi, b[e].lo)
      /\ pipe[p].hi <= b[e].lo
      /\ net[e] \in Seq(Frame) /\ pipe[p].hi \in Nat /\ b[e].lo \in Nat
  BY <1>1, Typed DEF Parts, DataInv
<1>9. DataInv(e)'
  <2>1. /\ f.hi = b[e].lo + n /\ f.lo = b[e].lo /\ f.lo <= f.hi
        /\ f \in Frame /\ f.cmd = "Write"
        /\ pipe[p].hi \in Int /\ b[e].lo \in Int
    <3> HIDE DEF f, n, p
    <3> QED
      BY <1>2, <1>5, <1>8
  <2>2. Chain(net'[e], "Write", pipe[p].hi, f.hi)
    <3> HIDE DEF f, n, p
    <3>1. Chain(Append(net[e], f), "Write", pipe[p].hi, f.hi)
      BY <1>8, <2>1, ChainAppend
    <3> QED
      BY <1>3, <3>1
  <2> HIDE DEF f, n
  <2> QED
    BY <1>1, <1>2, <1>3, <1>8, <2>1, <2>2 DEF Parts, DataInv
<1>10. Chain(net'[e], "Confirm", Applied(p), confirmed[e].lo)
  <2> HIDE DEF f
  <2> QED
    BY <1>1, <1>3, <1>5, Typed, ChainAppendOther, SMTT(30) DEF Parts, AckInv
<1>11. Applied(p)' = Applied(p)
  BY <1>3 DEF Applied
<1>12. AckInv(p)'
  BY <1>1, <1>3, <1>10, <1>11 DEF Parts, AckInv
<1>13. SenderInv(p)' /\ DataInv(p)'
  BY <1>1, <1>3, SenderSame, DataSame DEF Parts
<1> QED
  BY <1>4, <1>7, <1>9, <1>12, <1>13, PartsBoth DEF Parts

LEMMA ReadBytesStep ==
  ASSUME IndInv, NEW e \in Ends, NEW n \in 1..Window[e], Read(e, n)
  PROVE  \A x \in Ends : Parts(x)'
<1> DEFINE p == Peer(e)
<1>1. /\ TypeOK
      /\ Parts(e) /\ Parts(p)
      /\ p \in Ends /\ p # e /\ Peer(p) = e
      /\ n \in Nat
  BY PeerFacts, WindowFacts DEF IndInv, Parts
<1>2. /\ UNCHANGED <<net, b, writed, pcServe, confirm, sendConfirm, confirmed>>
      /\ pipe'[e] = Interval(pipe[e].lo + n, pipe[e].hi) /\ pipe'[p] = pipe[p]
      /\ reading'[e] = Interval(pipe[e].lo, pipe[e].lo + n) /\ reading'[p] = reading[p]
      /\ n <= Size(pipe[e]) /\ Size(reading[e]) = 0
  BY <1>1 DEF Read, TypeOK, serveVars, confirmVars
<1>3. Parts(e)'
  BY <1>1, <1>2, SenderSame, AckSame, DataSame DEF Parts, Applied
<1>4. /\ reading[e].lo \in Nat /\ reading[e].hi \in Nat
      /\ pipe[e].lo \in Nat /\ pipe[e].hi \in Nat
      /\ confirmed[e].hi \in Nat /\ confirmed[e].hi <= reading[e].lo
      /\ reading[e].hi <= pipe[e].lo /\ pipe[e].hi <= b[p].lo
      /\ SliceChain(sendConfirm[e], confirmed[e].hi, reading[e].lo)
      /\ sendConfirm[e] \in Seq(Slice)
  BY <1>1, Typed DEF Parts, AckInv, DataInv
<1>5. /\ reading[e].lo <= pipe[e].lo
      /\ reading'[e].lo = pipe[e].lo /\ reading'[e].hi = pipe[e].lo + n
      /\ pipe'[e].lo = pipe[e].lo + n /\ pipe'[e].hi = pipe[e].hi
      /\ pipe[e].lo + n <= pipe[e].hi
  BY <1>1, <1>2, <1>4, SMTT(30) DEF Interval, Size
<1>6. SliceChain(sendConfirm[e], confirmed[e].hi, pipe[e].lo)
  BY <1>4, <1>5, SliceChainWiden
<1>7. AckInv(p)'
  <2>1. Applied(p)' = Applied(p)
    BY <1>2 DEF Applied
  <2>2. confirmed[e].hi <= pipe[e].lo
    BY <1>4, <1>5
  <2> QED
    BY <1>1, <1>2, <1>5, <1>6, <2>1, <2>2 DEF Parts, AckInv
<1>8. DataInv(p)'
  BY <1>1, <1>2, <1>4, <1>5 DEF Parts, DataInv
<1>9. SenderInv(p)'
  BY <1>1, <1>2, SenderSame DEF Parts
<1> QED
  BY <1>3, <1>7, <1>8, <1>9, PartsBoth DEF Parts

LEMMA ReadConfirmStep ==
  ASSUME IndInv, NEW e \in Ends, ReadConfirm(e)
  PROVE  \A x \in Ends : Parts(x)'
<1> DEFINE p == Peer(e)
<1>1. /\ TypeOK
      /\ Parts(e) /\ Parts(p)
      /\ p \in Ends /\ p # e /\ Peer(p) = e
  BY PeerFacts DEF IndInv, Parts
<1>2. /\ UNCHANGED <<net, b, writed, pcServe, confirm, pipe, confirmed>>
      /\ reading'[e] = Interval(reading[e].hi, reading[e].hi)
      /\ reading'[p] = reading[p] /\ sendConfirm'[p] = sendConfirm[p]
      /\ sendConfirm'[e] \in {sendConfirm[e], Append(sendConfirm[e], reading[e])}
  BY <1>1 DEF ReadConfirm, TypeOK, serveVars
<1>3. Parts(e)'
  BY <1>1, <1>2, SenderSame, AckSame, DataSame DEF Parts, Applied
<1>4. /\ reading[e] \in Slice
      /\ reading[e].lo \in Nat /\ reading[e].hi \in Nat
      /\ confirmed[e].hi \in Nat /\ confirmed[e].hi <= reading[e].lo
      /\ reading[e].lo <= reading[e].hi
      /\ SliceChain(sendConfirm[e], confirmed[e].hi, reading[e].lo)
      /\ sendConfirm[e] \in Seq(Slice)
  BY <1>1, Typed DEF Parts, AckInv, DataInv
<1>5. reading'[e].lo = reading[e].hi /\ reading'[e].hi = reading[e].hi
  BY <1>2 DEF Interval
<1>6. SliceChain(sendConfirm'[e], confirmed[e].hi, reading[e].hi)
  <2>1. SliceChain(sendConfirm[e], confirmed[e].hi, reading[e].hi)
    BY <1>4, SliceChainWiden
  <2>2. SliceChain(Append(sendConfirm[e], reading[e]), confirmed[e].hi, reading[e].hi)
    BY <1>4, SliceChainAppend
  <2> QED
    BY <1>2, <2>1, <2>2
<1>7. AckInv(p)'
  <2>1. Applied(p)' = Applied(p)
    BY <1>2 DEF Applied
  <2>2. confirmed[e].hi <= reading[e].hi
    BY <1>4
  <2> QED
    BY <1>1, <1>2, <1>5, <1>6, <2>1, <2>2 DEF Parts, AckInv
<1>8. DataInv(p)'
  BY <1>1, <1>2, <1>4, <1>5 DEF Parts, DataInv
<1>9. SenderInv(p)'
  BY <1>1, <1>2, SenderSame DEF Parts
<1> QED
  BY <1>3, <1>7, <1>8, <1>9, PartsBoth DEF Parts

(* serveConfirm takes the first queued slice, alone or added to what it has*)
LEMMA GatherStep ==
  ASSUME IndInv, NEW e \in Ends, TakeConfirm(e) \/ GatherConfirm(e)
  PROVE  \A x \in Ends : Parts(x)'
<1> DEFINE p == Peer(e)
           f == Head(sendConfirm[e])
<1>1. /\ TypeOK
      /\ Parts(e) /\ Parts(p)
      /\ p \in Ends /\ p # e /\ Peer(p) = e
  BY PeerFacts DEF IndInv, Parts
<1>2. /\ UNCHANGED <<net, b, writed, pcServe, confirm, pipe, reading>>
      /\ sendConfirm[e] # << >>
      /\ sendConfirm'[e] = Tail(sendConfirm[e]) /\ sendConfirm'[p] = sendConfirm[p]
      /\ confirmed'[e] \in {f, Add(confirmed[e], f)} /\ confirmed'[p] = confirmed[p]
  BY <1>1 DEF TakeConfirm, GatherConfirm, TypeOK, serveVars, readVars
<1>3. Parts(e)'
  BY <1>1, <1>2, SenderSame, AckSame, DataSame DEF Parts, Applied
<1>4. /\ confirmed[e].lo \in Nat /\ confirmed[e].hi \in Nat
      /\ confirmed[e].lo <= confirmed[e].hi
      /\ SliceChain(sendConfirm[e], confirmed[e].hi, reading[e].lo)
      /\ sendConfirm[e] \in Seq(Slice)
      /\ reading[e].lo \in Nat
      /\ Applied(p) \in Int /\ Applied(p) <= confirmed[e].lo
      /\ Chain(net[e], "Confirm", Applied(p), confirmed[e].lo)
      /\ net[e] \in Seq(Frame)
  BY <1>1, Typed DEF Parts, AckInv
<1>5. /\ f \in Slice
      /\ confirmed[e].hi <= f.lo /\ f.lo <= f.hi /\ f.hi <= reading[e].lo
      /\ SliceChain(Tail(sendConfirm[e]), f.hi, reading[e].lo)
  BY <1>2, <1>4, SliceChainTail
<1>6. f.lo \in Nat /\ f.hi \in Nat
  BY <1>5 DEF Slice
<1> HIDE DEF f
<1>7. /\ confirmed'[e].hi = f.hi
      /\ confirmed'[e].lo \in Int
      /\ confirmed[e].lo <= confirmed'[e].lo /\ confirmed'[e].lo <= f.hi
  BY <1>2, <1>4, <1>5, <1>6, SMTT(30) DEF Add, Interval, Size
<1>8. Chain(net[e], "Confirm", Applied(p), confirmed'[e].lo)
  BY <1>4, <1>7, ChainWiden
<1>9. AckInv(p)'
  <2>1. Applied(p)' = Applied(p)
    BY <1>2 DEF Applied
  <2>2. Applied(p) <= confirmed'[e].lo
    BY <1>4, <1>7
  <2> QED
    BY <1>1, <1>2, <1>5, <1>7, <1>8, <2>1, <2>2 DEF AckInv
<1>10. SenderInv(p)' /\ DataInv(p)'
  BY <1>1, <1>2, SenderSame, DataSame DEF Parts
<1> QED
  BY <1>3, <1>9, <1>10, PartsBoth DEF Parts

LEMMA SendConfirmStep ==
  ASSUME IndInv, NEW e \in Ends, SendConfirm(e)
  PROVE  \A x \in Ends : Parts(x)'
<1> DEFINE p == Peer(e)
           ok == Least(Size(confirmed[e]), MaxUint16)
           l == confirmed[e].lo
           f == ConfirmFrame(l, l + ok)
<1>1. /\ TypeOK
      /\ Parts(e) /\ Parts(p)
      /\ p \in Ends /\ p # e /\ Peer(p) = e
  BY PeerFacts DEF IndInv, Parts
<1>2. /\ l \in Nat /\ confirmed[e].hi \in Nat /\ l <= confirmed[e].hi
      /\ net[e] \in Seq(Frame)
      /\ Applied(p) \in Int /\ Applied(p) <= l
      /\ Chain(net[e], "Confirm", Applied(p), l)
  BY <1>1, Typed DEF Parts, AckInv
<1>3. ok \in Nat /\ l + ok \in Nat /\ l + ok <= confirmed[e].hi
  BY <1>2, FrameAssumption DEF Least, Size
<1>4. f \in Frame /\ f.cmd = "Confirm" /\ f.lo = l /\ f.hi = l + ok
  BY <1>2, <1>3 DEF ConfirmFrame, Frame
<1>5. /\ UNCHANGED <<b, writed, pcServe, confirm, pipe, reading, sendConfirm>>
      /\ net'[e] = Append(net[e], f) /\ net'[p] = net[p]
      /\ confirmed'[e] = Interval(l + ok, confirmed[e].hi) /\ confirmed'[p] = confirmed[p]
  BY <1>1 DEF SendConfirm, TypeOK, serveVars, readVars, Enqueue
<1> HIDE DEF f, ok, l
<1>6. confirmed'[e].lo = l + ok /\ confirmed'[e].hi = confirmed[e].hi
  BY <1>5 DEF Interval
<1>7. Chain(net'[e], "Confirm", Applied(p), l + ok)
  BY <1>2, <1>3, <1>4, <1>5, ChainAppend
<1>8. AckInv(p)'
  <2>1. Applied(p)' = Applied(p)
    BY <1>5 DEF Applied
  <2>2. Applied(p) <= l + ok
    BY <1>2, <1>3
  <2> QED
    BY <1>1, <1>3, <1>5, <1>6, <1>7, <2>1, <2>2 DEF Parts, AckInv
<1>9. SenderInv(p)' /\ DataInv(p)'
  BY <1>1, <1>5, SenderSame, DataSame DEF Parts
<1>10. SenderInv(e)' /\ AckInv(e)'
  BY <1>1, <1>5, SenderSame, AckSame DEF Parts, Applied
<1>11. DataInv(e)'
  <2>1. /\ Chain(net[e], "Write", pipe[p].hi, b[e].lo)
        /\ pipe[p].hi \in Int /\ b[e].lo \in Int
    BY <1>1, Typed DEF Parts, DataInv
  <2>2. Chain(net'[e], "Write", pipe[p].hi, b[e].lo)
    BY <1>2, <1>4, <1>5, <2>1, ChainAppendOther
  <2> QED
    BY <1>1, <1>5, <2>2 DEF Parts, DataInv
<1> QED
  BY <1>8, <1>9, <1>10, <1>11, PartsBoth DEF Parts

(* The reader stores a piece of a Write frame, or drops it.                *)
LEMMA ReaderWriteStep ==
  ASSUME IndInv, NEW e \in Ends, ReaderWrite(e)
  PROVE  \A x \in Ends : Parts(x)'
<1> DEFINE p == Peer(e)
           f == Head(net[p])
           n == Least(Size(f), RecvBuf)
           cut == [net[p] EXCEPT ![1] = WriteFrame(f.lo + n, f.hi)]
<1>1. /\ TypeOK
      /\ Parts(e) /\ Parts(p)
      /\ p \in Ends /\ p # e /\ Peer(p) = e
      /\ HasFrame(e, "Write")
  BY PeerFacts DEF IndInv, Parts, ReaderWrite
<1>2. /\ net[p] # << >>
      /\ f \in Frame /\ f.lo \in Nat /\ f.hi \in Nat /\ f.cmd = "Write"
      /\ pipe[e].hi <= f.lo /\ f.lo <= f.hi /\ f.hi <= b[p].lo
      /\ Chain(net[p], "Write", pipe[e].hi, b[p].lo)
  BY <1>1, HeadWrite DEF Parts
<1>3. /\ net[p] \in Seq(Frame)
      /\ pipe[e].lo \in Nat /\ pipe[e].hi \in Nat /\ b[p].lo \in Nat
      /\ pipe[e].lo <= pipe[e].hi
      /\ Applied(e) \in Int /\ confirmed[p].lo \in Int
      /\ Chain(net[p], "Confirm", Applied(e), confirmed[p].lo)
  <2>1. /\ net[p] \in Seq(Frame)
        /\ pipe[e].lo \in Nat /\ pipe[e].hi \in Nat /\ b[p].lo \in Nat
        /\ Applied(e) \in Int /\ confirmed[p].lo \in Int
    BY <1>1, Typed
  <2>2. pipe[e].lo <= pipe[e].hi
    BY <1>1 DEF Parts, DataInv
  <2>3. Chain(net[p], "Confirm", Applied(e), confirmed[p].lo)
    BY <1>1 DEF Parts, AckInv
  <2> QED
    BY <2>1, <2>2, <2>3
<1>4. n \in Nat /\ f.lo + n <= f.hi /\ (n # Size(f) => n < Size(f))
      /\ (n = Size(f) => f.lo + n = f.hi)
  BY <1>2, FrameAssumption DEF Least, Size
<1>5. /\ UNCHANGED <<b, writed, pcServe, confirm, reading, sendConfirm, confirmed>>
      /\ net'[p] = (IF n = Size(f) THEN Tail(net[p]) ELSE cut) /\ net'[e] = net[e]
      /\ pipe'[e] \in {pipe[e], Interval(pipe[e].lo, pipe[e].hi + n)} /\ pipe'[p] = pipe[p]
  BY <1>1 DEF ReaderWrite, Dequeue, TypeOK, serveVars, confirmVars, loopVars
<1> HIDE DEF n
<1>6. /\ Chain(net'[p], "Write", f.lo + n, b[p].lo)
      /\ Chain(net'[p], "Confirm", Applied(e), confirmed[p].lo)
      /\ net'[p] \in Seq(Frame)
  <2>1. CASE n = Size(f)
    <3>1. /\ Chain(Tail(net[p]), "Write", f.hi, b[p].lo)
          /\ Tail(net[p]) \in Seq(Frame)
      BY <1>2, <1>3, ChainTail
    <3>2. Chain(Tail(net[p]), "Confirm", Applied(e), confirmed[p].lo)
      BY <1>2, <1>3, ChainTail
    <3> QED
      BY <1>4, <1>5, <2>1, <3>1, <3>2
  <2>2. CASE n # Size(f)
    <3>1. n < Size(f)
      BY <1>4, <2>2
    <3> DEFINE q == net[p]
    <3>2. /\ q \in Seq(Frame) /\ q # << >> /\ Head(q).cmd = "Write"
          /\ n \in Nat /\ n < Size(Head(q))
          /\ IsCut(q, cut, n)
          /\ Chain(q, "Write", pipe[e].hi, b[p].lo)
          /\ Chain(q, "Confirm", Applied(e), confirmed[p].lo)
          /\ f.lo = Head(q).lo
      BY <1>2, <1>3, <1>4, <3>1 DEF IsCut
    <3> HIDE DEF q, cut, f
    <3>3. cut \in Seq(Frame) /\ Chain(cut, "Write", Head(q).lo + n, b[p].lo)
      BY <1>3, <3>2, ChainCut
    <3>4. Chain(cut, "Confirm", Applied(e), confirmed[p].lo)
      BY <1>3, <3>2, ChainCut
    <3> QED
      BY <1>5, <2>2, <3>2, <3>3, <3>4
  <2> QED
    BY <2>1, <2>2
<1> HIDE DEF f, cut
<1>7. /\ pipe'[e].lo = pipe[e].lo
      /\ pipe'[e].hi \in Nat
      /\ pipe[e].hi <= pipe'[e].hi /\ pipe'[e].hi <= f.lo + n
  BY <1>2, <1>3, <1>4, <1>5, SMTT(30) DEF Interval
<1>8. DataInv(p)'
  <2>1. Chain(net'[p], "Write", pipe'[e].hi, b[p].lo)
    BY <1>2, <1>3, <1>4, <1>6, <1>7, ChainWiden, SMTT(30)
  <2>2. pipe'[e].lo <= pipe'[e].hi /\ pipe'[e].hi <= b[p].lo
    BY <1>2, <1>3, <1>4, <1>7, SMTT(30)
  <2> QED
    BY <1>1, <1>5, <1>7, <2>1, <2>2 DEF Parts, DataInv
<1>9. SenderInv(p)' /\ AckInv(p)'
  BY <1>1, <1>5, SenderSame, AckSame DEF Parts, Applied
<1>10. SenderInv(e)' /\ DataInv(e)'
  BY <1>1, <1>5, SenderSame, DataSame DEF Parts
<1>11. AckInv(e)'
  <2>1. Applied(e)' = Applied(e)
    BY <1>5 DEF Applied
  <2> QED
    BY <1>1, <1>5, <1>6, <2>1 DEF Parts, AckInv
<1> QED
  BY <1>8, <1>9, <1>10, <1>11, PartsBoth DEF Parts

(* The reader stores a confirmation, alone or added to the one stored.     *)
LEMMA ReaderConfirmStep ==
  ASSUME IndInv, NEW e \in Ends, ReaderConfirm(e) \/ ReaderMerge(e)
  PROVE  \A x \in Ends : Parts(x)'
<1> DEFINE p == Peer(e)
           f == Head(net[p])
<1>1. /\ TypeOK
      /\ Parts(e) /\ Parts(p)
      /\ p \in Ends /\ p # e /\ Peer(p) = e
      /\ HasFrame(e, "Confirm")
  BY PeerFacts DEF IndInv, Parts, ReaderConfirm, ReaderMerge
<1>2. /\ net[p] # << >>
      /\ f.lo \in Nat /\ f.hi \in Nat
      /\ Applied(e) <= f.lo /\ f.lo <= f.hi /\ f.hi <= confirmed[p].lo
      /\ Chain(Tail(net[p]), "Confirm", f.hi, confirmed[p].lo)
  BY <1>1, HeadConfirm DEF Parts
<1>3. /\ net[p] \in Seq(Frame)
      /\ pipe[e].hi \in Int /\ b[p].lo \in Int
      /\ b[e].lo \in Nat /\ writed[e] \in Nat /\ confirm[e] \in Nat
      /\ confirmed[p].lo \in Nat
      /\ Chain(net[p], "Write", pipe[e].hi, b[p].lo)
  BY <1>1, Typed DEF Parts, DataInv
<1>4. /\ UNCHANGED <<b, writed, pcServe, pipe, reading, sendConfirm, confirmed>>
      /\ net'[p] = Tail(net[p]) /\ net'[e] = net[e]
      /\ confirm'[e] = confirm[e] + Size(f) /\ confirm'[p] = confirm[p]
  <2>1. UNCHANGED <<b, writed, pcServe, pipe, reading, sendConfirm, confirmed>>
    BY DEF ReaderConfirm, ReaderMerge, serveVars, readVars, confirmVars
  <2>2. net'[p] = Tail(net[p]) /\ net'[e] = net[e]
    BY <1>1 DEF ReaderConfirm, ReaderMerge, Dequeue, TypeOK
  <2>3. Size(f) \in Nat
    BY <1>1, HeadConfirm DEF Parts
  <2>4. confirm'[p] = confirm[p]
    BY <1>1 DEF ReaderConfirm, ReaderMerge, TypeOK
  <2>5. CASE ReaderConfirm(e)
    BY <1>1, <1>3, <2>1, <2>2, <2>3, <2>4, <2>5 DEF ReaderConfirm, TypeOK
  <2>6. CASE ReaderMerge(e)
    BY <1>1, <1>3, <2>1, <2>2, <2>3, <2>4, <2>6 DEF ReaderMerge, MergedConfirm,
                              TypeOK
  <2> QED
    BY <2>5, <2>6
<1>5. Tail(net[p]) \in Seq(Frame) /\ Chain(Tail(net[p]), "Write", pipe[e].hi, b[p].lo)
  BY <1>2, <1>3, ChainTail
<1> HIDE DEF f
<1>6. Applied(e)' = Applied(e) + (f.hi - f.lo) /\ Applied(e) \in Int
  BY <1>2, <1>3, <1>4, SMTT(30) DEF Applied, Size
<1>7. Applied(e)' \in Int /\ Applied(e)' <= f.hi
  BY <1>2, <1>6
<1>8. Chain(Tail(net[p]), "Confirm", Applied(e)', confirmed[p].lo)
  <2> DEFINE t == Tail(net[p])
             h == confirmed[p].lo
             a == Applied(e)'
  <2>1. /\ t \in Seq(Frame) /\ h \in Int /\ f.hi \in Int /\ a \in Int
        /\ Chain(t, "Confirm", f.hi, h)
        /\ a <= f.hi /\ h <= h
    BY <1>2, <1>3, <1>5, <1>7
  <2> HIDE DEF t, h, a
  <2>2. Chain(t, "Confirm", a, h)
    BY <2>1, ChainWiden
  <2> QED
    BY <2>2 DEF t, h, a
<1>9. AckInv(e)'
  <2>1. Applied(e)' <= confirmed[p].lo
    BY <1>2, <1>3, <1>7
  <2> QED
    BY <1>1, <1>4, <1>8, <2>1 DEF Parts, AckInv
<1>10. SenderInv(e)' /\ DataInv(e)'
  BY <1>1, <1>4, SenderSame, DataSame DEF Parts
<1>11. SenderInv(p)' /\ AckInv(p)'
  BY <1>1, <1>4, SenderSame, AckSame DEF Parts, Applied
<1>12. DataInv(p)'
  BY <1>1, <1>4, <1>5 DEF Parts, DataInv
<1> QED
  BY <1>9, <1>10, <1>11, <1>12, PartsBoth DEF Parts

-----------------------------------------------------------------------------
LEMMA InitIndInv == Init => IndInv
<1> SUFFICES ASSUME Init PROVE IndInv
  OBVIOUS
<1>1. TypeOK
  BY InitTypeOK
<1>2. ASSUME NEW e \in Ends PROVE SenderInv(e) /\ AckInv(e) /\ DataInv(e)
  <2>1. Peer(e) \in Ends /\ remoteWindow(e) \in Nat
    BY PeerFacts, WindowFacts
  <2>2. SenderInv(e)
    BY <1>2, <2>1 DEF Init, SenderInv, Interval
  <2>3. AckInv(e)
    BY <1>2, <2>1 DEF Init, AckInv, Applied, Chain, SliceChain, Interval
  <2>4. DataInv(e)
    BY <1>2, <2>1 DEF Init, DataInv, Chain, Interval
  <2> QED
    BY <2>2, <2>3, <2>4
<1> QED
  BY <1>1, <1>2 DEF IndInv

(* Steps that only drop frames, send a Close, or end something.            *)
LEMMA ReaderDropStep ==
  ASSUME IndInv, NEW e \in Ends,
         \/ ReaderOverflow(e) \/ ReaderConfirmDown(e)
         \/ ReaderConfirmUnknown(e) \/ ReaderClose(e)
  PROVE  \A x \in Ends : Parts(x)'
<1>1. /\ TypeOK
      /\ Peer(e) \in Ends /\ Peer(e) # e
      /\ \A x \in Ends : x = e \/ x = Peer(e)
      /\ net \in [Ends -> Seq(Frame)] /\ confirm \in [Ends -> Nat]
  BY PeerFacts DEF IndInv, TypeOK
<1>2. /\ net[Peer(e)] # << >>
      /\ net' = Dequeue(e)
  BY DEF ReaderOverflow, ReaderConfirmDown, ReaderConfirmUnknown, ReaderClose,
         HasFrame, ToSendClose
<1>3. /\ net'[Peer(e)] = Tail(net[Peer(e)])
      /\ net'[e] \in {net[e], Append(net[e], CloseFrame)}
  BY <1>1, <1>2 DEF Dequeue
<1>4. \A x \in Ends :
         LET t == IF net[x] = << >> THEN << >> ELSE Tail(net[x])
         IN  net'[x] \in {net[x], t, Append(net[x], CloseFrame)}
  BY <1>1, <1>2, <1>3
<1>5. UNCHANGED <<b, writed, pcServe, pipe, reading, sendConfirm, confirmed>>
  BY DEF ReaderOverflow, ReaderConfirmDown, ReaderConfirmUnknown, ReaderClose,
         serveVars, readVars, confirmVars, ToSendClose
<1>6. \A x \in Ends : confirm'[x] = confirm[x] \/ confirm'[x] = 0
  BY <1>1 DEF ReaderOverflow, ReaderConfirmDown, ReaderConfirmUnknown, ReaderClose,
              ToSendClose
<1> QED
  BY <1>4, <1>5, <1>6, QueueStep

LEMMA ServeEndStep ==
  ASSUME IndInv, NEW e \in Ends,
         \/ ServeExit(e) \/ ServeDelete(e) \/ ServeSendClose(e)
         \/ ReaderSendClose(e)
  PROVE  \A x \in Ends : Parts(x)'
<1>1. /\ net \in [Ends -> Seq(Frame)]
      /\ pcServe \in [Ends -> {"choose", "send", "delete", "sendClose", "done"}]
  BY DEF IndInv, TypeOK
<1>2. UNCHANGED <<b, writed, confirm, pipe, reading, sendConfirm, confirmed>>
  BY DEF ServeExit, ServeDelete, ServeSendClose, ReaderSendClose, serveVars,
         readVars, confirmVars, SendClose, Enqueue
<1>3. \A x \in Ends : pcServe'[x] = "send" => pcServe[x] = "send"
  BY <1>1 DEF ServeExit, ServeDelete, ServeSendClose, ReaderSendClose, serveVars,
              SendClose, Enqueue
<1>4. \A x \in Ends : net'[x] \in {net[x], Append(net[x], CloseFrame)}
  BY <1>1 DEF ServeExit, ServeDelete, ServeSendClose, ReaderSendClose, serveVars,
              SendClose, Enqueue
<1> QED
  BY <1>2, <1>3, <1>4, QueueStep

(* Steps of serveConfirm, of the application and of the transport that move*)
(* no position.                                                            *)
LEMMA StillStep ==
  ASSUME IndInv,
         UNCHANGED <<net, serveVars, confirm, readVars, sendConfirm, confirmed>>
  PROVE  \A x \in Ends : Parts(x)'
BY QueueStep DEF serveVars, readVars

LEMMA IndInvStep == IndInv /\ [Next]_vars => IndInv'
<1> SUFFICES ASSUME IndInv, [Next]_vars PROVE IndInv'
  OBVIOUS
<1>1. /\ TypeOK
      /\ \A e \in Ends : Parts(e) /\ Parts(Peer(e)) /\ Peer(e) \in Ends
  BY PeerFacts DEF IndInv, Parts
<1>2. SUFFICES TypeOK' /\ \A x \in Ends : Parts(x)'
  BY DEF IndInv, Parts
<1>3. ASSUME NEW e \in Ends, NEW n \in 1..MaxBytes[e], Write(e, n)
      PROVE  TypeOK' /\ \A x \in Ends : Parts(x)'
  BY <1>1, <1>3, ServeTypes, WriteStep DEF Parts
<1>4. ASSUME NEW e \in Ends, ServeStep(e)
      PROVE  TypeOK' /\ \A x \in Ends : Parts(x)'
  <2>1. TypeOK'
    BY <1>1, <1>4, ServeTypes DEF Parts
  <2> QED
    BY <1>4, <2>1, ChooseConfirmStep, SendWriteStep, ServeEndStep DEF ServeStep
<1>5. ASSUME NEW e \in Ends, ConfirmStep(e)
      PROVE  TypeOK' /\ \A x \in Ends : Parts(x)'
  <2>1. TypeOK'
    BY <1>1, <1>5, ConfirmTypes DEF Parts
  <2>2. GatherEnd(e) \/ ConfirmExit(e) =>
          UNCHANGED <<net, serveVars, confirm, readVars, sendConfirm, confirmed>>
    BY DEF GatherEnd, ConfirmExit
  <2> QED
    BY <1>5, <2>1, <2>2, GatherStep, SendConfirmStep, StillStep DEF ConfirmStep
<1>6. ASSUME NEW e \in Ends, ReadStep(e)
      PROVE  TypeOK' /\ \A x \in Ends : Parts(x)'
  BY <1>1, <1>6, ReadTypes, ReadBytesStep, ReadConfirmStep DEF ReadStep
<1>7. ASSUME NEW e \in Ends, ReaderStep(e)
      PROVE  TypeOK' /\ \A x \in Ends : Parts(x)'
  <2>1. TypeOK'
    BY <1>1, <1>7, ReaderTypes DEF Parts
  <2> QED
    BY <1>7, <2>1, ReaderWriteStep, ReaderConfirmStep, ReaderDropStep, ServeEndStep
       DEF ReaderStep
<1>8. ASSUME TransportClose \/ \E e \in Ends : Close(e) \/ ReaderExit(e) \/ Jam(e)
      PROVE  TypeOK' /\ \A x \in Ends : Parts(x)'
  <2>1. TypeOK'
    BY <1>1, <1>8, EndTypes
  <2>2. UNCHANGED <<net, serveVars, confirm, readVars, sendConfirm, confirmed>>
    BY <1>8 DEF TransportClose, Close, ReaderExit, Jam, confirmVars
  <2> QED
    BY <2>1, <2>2, StillStep
<1>9. CASE UNCHANGED vars
  <2>1. TypeOK'
    BY <1>1, <1>9 DEF TypeOK, vars, serveVars, readVars, confirmVars, lifeVars,
                      loopVars
  <2> QED
    BY <1>9, <2>1, StillStep DEF vars, confirmVars
<1> QED
  BY <1>3, <1>4, <1>5, <1>6, <1>7, <1>8, <1>9 DEF Next

(* The positions are always in line, in both directions, whatever the two  *)
(* ends and their transports do (channel.go, the reader loops).            *)
THEOREM Invariance == Safe => []IndInv
<1>1. Init => IndInv
  BY InitIndInv
<1>2. IndInv /\ [Next]_vars => IndInv'
  BY IndInvStep
<1> QED
  BY <1>1, <1>2, PTL DEF Safe

(* Every variable keeps its type; no subtraction of channel.go on unsigned *)
(* numbers goes below zero.                                                *)
THEOREM TypeCorrect == Safe => []TypeOK
<1>1. IndInv => TypeOK
  BY DEF IndInv
<1> QED
  BY <1>1, Invariance, PTL

(* For every window, frame size and queue length: what is sent and not read*)
(* fits the receiver's pipe (Serve's available, Pipe's overflow).          *)
THEOREM FlowControl == Safe => []WindowRespected
<1>1. IndInv => WindowRespected
  <2> SUFFICES ASSUME IndInv, NEW e \in Ends
               PROVE  b[e].lo - pipe[Peer(e)].lo <= Window[Peer(e)]
    BY DEF WindowRespected
  <2> DEFINE p == Peer(e)
  <2>1. /\ TypeOK /\ p \in Ends
        /\ SenderInv(e) /\ AckInv(e) /\ DataInv(e)
    BY PeerFacts DEF IndInv
  <2>2. /\ b[e].lo \in Nat /\ writed[e] \in Nat /\ confirm[e] \in Nat
        /\ Window[p] \in Nat
        /\ confirmed[p].lo \in Nat /\ confirmed[p].hi \in Nat
        /\ reading[p].lo \in Nat /\ reading[p].hi \in Nat /\ pipe[p].lo \in Nat
    BY <2>1, Typed, WindowFacts
  <2>3. /\ b[e].lo - writed[e] + confirm[e] <= confirmed[p].lo
        /\ confirmed[p].lo <= confirmed[p].hi
        /\ confirmed[p].hi <= reading[p].lo
    BY <2>1 DEF AckInv, Applied
  <2>4. reading[p].lo <= reading[p].hi /\ reading[p].hi <= pipe[p].lo
    BY <2>1 DEF DataInv
  <2>5. writed[e] <= Window[p]
    BY <2>1 DEF SenderInv, remoteWindow
  <2> HIDE DEF p
  <2>6. b[e].lo - pipe[p].lo <= Window[p]
    BY <2>2, <2>3, <2>4, <2>5
  <2> QED
    BY <2>6 DEF p
<1> QED
  BY <1>1, Invariance, PTL

(* A stored confirmation never exceeds what is outstanding, so Serve never *)
(* leaves its loop for confirm > writed (channel.go:149).                  *)
THEOREM ConfirmBound == Safe => []ConfirmWithinWrited
<1>1. IndInv => ConfirmWithinWrited
  <2> SUFFICES ASSUME IndInv, NEW e \in Ends
               PROVE  confirm[e] <= writed[e]
    BY DEF ConfirmWithinWrited
  <2> DEFINE p == Peer(e)
  <2>1. /\ TypeOK /\ p \in Ends
        /\ AckInv(e) /\ DataInv(e)
    BY PeerFacts DEF IndInv
  <2>2. /\ b[e].lo \in Nat /\ writed[e] \in Nat /\ confirm[e] \in Nat
        /\ confirmed[p].lo \in Nat /\ confirmed[p].hi \in Nat
        /\ reading[p].lo \in Nat /\ reading[p].hi \in Nat
        /\ pipe[p].lo \in Nat /\ pipe[p].hi \in Nat
    BY <2>1, Typed
  <2>3. /\ b[e].lo - writed[e] + confirm[e] <= confirmed[p].lo
        /\ confirmed[p].lo <= confirmed[p].hi
        /\ confirmed[p].hi <= reading[p].lo
    BY <2>1 DEF AckInv, Applied
  <2>4. /\ reading[p].lo <= reading[p].hi /\ reading[p].hi <= pipe[p].lo
        /\ pipe[p].lo <= pipe[p].hi /\ pipe[p].hi <= b[e].lo
    BY <2>1 DEF DataInv
  <2> HIDE DEF p
  <2> QED
    BY <2>2, <2>3, <2>4
<1> QED
  BY <1>1, Invariance, PTL

-----------------------------------------------------------------------------
(* Refinement.  Most steps leave the stream as it is, or only close an end.*)

LEMMA StreamInit == Init => Stream!SInit
BY PeerFacts DEF Init, Stream!SInit, Interval

LEMMA StreamSame ==
  ASSUME UNCHANGED <<b, writed, pipe, closed>>
  PROVE  UNCHANGED Stream!svars
BY DEF Stream!svars

LEMMA StreamClose ==
  ASSUME TypeOK, NEW e \in Ends,
         UNCHANGED <<b, writed, pipe>>,
         closed' = [closed EXCEPT ![e] = TRUE]
  PROVE  [Stream!SNext]_(Stream!svars)
<1>1. CASE closed[e]
  <2>1. closed' = closed
    BY <1>1 DEF TypeOK
  <2> QED
    BY <2>1, StreamSame
<1>2. CASE ~closed[e]
  <2>1. Stream!SClose(e)
    BY <1>2 DEF Stream!SClose
  <2> QED
    BY <2>1 DEF Stream!SNext
<1> QED
  BY <1>1, <1>2

(* The handlers that close the channel under a condition c.                *)
LEMMA StreamMayClose ==
  ASSUME TypeOK, NEW e \in Ends, NEW c \in BOOLEAN,
         UNCHANGED <<b, writed, pipe>>,
         closed' = [closed EXCEPT ![e] = @ \/ c]
  PROVE  [Stream!SNext]_(Stream!svars)
<1>1. CASE c
  <2>1. closed' = [closed EXCEPT ![e] = TRUE]
    BY <1>1
  <2> QED
    BY <2>1, StreamClose
<1>2. CASE ~c
  <2>1. closed' = closed
    BY <1>2 DEF TypeOK
  <2> QED
    BY <2>1, StreamSame
<1> QED
  BY <1>1, <1>2

(* A counter of the stream that grows at one end.                          *)
LEMMA StreamAdvances ==
  ASSUME NEW f, NEW g, NEW e \in Ends,
         f = [x \in Ends |-> f[x]], g = [x \in Ends |-> g[x]],
         \A x \in Ends : x # e => g[x] = f[x],
         g[e] > f[e]
  PROVE  Stream!Advances(f, g, e)
<1>1. g = [f EXCEPT ![e] = g[e]]
  OBVIOUS
<1> QED
  BY <1>1 DEF Stream!Advances

LEMMA StreamAccept ==
  ASSUME IndInv, NEW e \in Ends, NEW n \in 1..MaxBytes[e], Write(e, n)
  PROVE  [Stream!SNext]_(Stream!svars)
<1>1. TypeOK /\ n \in Nat /\ n > 0
  BY BoundAssumption DEF IndInv
<1>2. /\ UNCHANGED <<writed, pipe, closed>>
      /\ b'[e].lo = b[e].lo /\ b'[e].hi = b[e].hi + n
      /\ \A x \in Ends : x # e => b'[x] = b[x]
      /\ b[e].hi - b[e].lo = 0
  BY <1>1 DEF Write, TypeOK, Interval, Size, readVars, lifeVars, loopVars
<1>3. b[e].lo \in Nat /\ b[e].hi \in Nat
  BY <1>1, Typed
<1>4. Stream!SAccept(e)
  <2> DEFINE hi == [x \in Ends |-> b[x].hi]
             hi1 == [x \in Ends |-> b'[x].hi]
  <2>1. /\ hi = [x \in Ends |-> hi[x]] /\ hi1 = [x \in Ends |-> hi1[x]]
        /\ \A x \in Ends : x # e => hi1[x] = hi[x]
        /\ hi1[e] > hi[e]
    BY <1>1, <1>2, <1>3
  <2>2. Stream!Advances(hi, hi1, e)
    <3> HIDE DEF hi, hi1
    <3> QED
      BY <2>1, StreamAdvances
  <2>3. \A x \in Ends : b'[x].lo = b[x].lo
    BY <1>2
  <2>4. b[e].lo = b[e].hi
    BY <1>2, <1>3
  <2> QED
    BY <1>2, <2>2, <2>3, <2>4 DEF Stream!SAccept
<1> QED
  BY <1>4 DEF Stream!SNext

LEMMA StreamAck ==
  ASSUME IndInv, NEW e \in Ends, ChooseConfirm(e)
  PROVE  [Stream!SNext]_(Stream!svars)
<1> DEFINE p == Peer(e)
<1>1. TypeOK /\ p \in Ends /\ AckInv(e) /\ DataInv(e)
  BY PeerFacts DEF IndInv
<1>2. /\ b[e].lo \in Nat /\ writed[e] \in Nat /\ confirm[e] \in Nat
      /\ confirmed[p].lo \in Nat /\ confirmed[p].hi \in Nat
      /\ reading[p].lo \in Nat /\ reading[p].hi \in Nat
      /\ pipe[p].lo \in Nat /\ pipe[p].hi \in Nat
  BY <1>1, Typed
<1>3. /\ b[e].lo - writed[e] + confirm[e] <= confirmed[p].lo
      /\ confirmed[p].lo <= confirmed[p].hi
      /\ confirmed[p].hi <= reading[p].lo
  BY <1>1 DEF AckInv, Applied
<1>4. /\ reading[p].lo <= reading[p].hi /\ reading[p].hi <= pipe[p].lo
      /\ pipe[p].lo <= pipe[p].hi /\ pipe[p].hi <= b[e].lo
  BY <1>1 DEF DataInv
<1>5. /\ b[e].lo - writed[e] + confirm[e] <= pipe[p].lo
      /\ ~(confirm[e] > writed[e])
  <2> HIDE DEF p
  <2> QED
    BY <1>2, <1>3, <1>4
<1>6. /\ UNCHANGED <<b, pipe, closed>>
      /\ writed'[e] = writed[e] - confirm[e]
      /\ \A x \in Ends : x # e => writed'[x] = writed[x]
      /\ confirm[e] # 0
  BY <1>1, <1>5 DEF ChooseConfirm, TypeOK, readVars, loopVars
<1>7. Stream!SAck(e)
  <2> DEFINE ack == [x \in Ends |-> b[x].lo - writed[x]]
             ack1 == [x \in Ends |-> b'[x].lo - writed'[x]]
  <2>1. ack1[e] = b[e].lo - writed[e] + confirm[e]
    BY <1>2, <1>6
  <2>2. /\ ack = [x \in Ends |-> ack[x]] /\ ack1 = [x \in Ends |-> ack1[x]]
        /\ \A x \in Ends : x # e => ack1[x] = ack[x]
        /\ ack1[e] > ack[e]
    BY <1>2, <1>6, <2>1
  <2>3. Stream!Advances(ack, ack1, e)
    <3> HIDE DEF ack, ack1
    <3> QED
      BY <2>2, StreamAdvances
  <2>4. ack1[e] <= pipe[Peer(e)].lo
    BY <1>5, <2>1
  <2> QED
    BY <1>1, <1>6, <2>3, <2>4 DEF Stream!SAck
<1> QED
  BY <1>7 DEF Stream!SNext

LEMMA StreamSend ==
  ASSUME IndInv, NEW e \in Ends, SendWrite(e)
  PROVE  [Stream!SNext]_(Stream!svars)
<1> DEFINE n == SendSize(e)
<1>1. TypeOK /\ SenderInv(e)
  BY DEF IndInv
<1>2. /\ b[e].lo \in Nat /\ b[e].hi \in Nat
      /\ writed[e] \in Nat /\ remoteWindow(e) \in Nat
  BY <1>1, Typed, WindowFacts
<1>3. /\ n \in Nat /\ n > 0
      /\ b[e].lo + n <= b[e].hi /\ writed[e] + n <= remoteWindow(e)
  <2>1. writed[e] < remoteWindow(e) /\ b[e].lo < b[e].hi
    BY <1>1 DEF SendWrite, SenderInv, Enqueue
  <2> QED
    BY <1>2, <2>1, FrameAssumption DEF SendSize, Least, Size
<1>4. /\ UNCHANGED <<pipe, closed>>
      /\ b'[e].lo = b[e].lo + n /\ b'[e].hi = b[e].hi
      /\ writed'[e] = writed[e] + n
      /\ \A x \in Ends : x # e => b'[x] = b[x] /\ writed'[x] = writed[x]
  BY <1>1 DEF SendWrite, TypeOK, Interval, readVars, lifeVars, Enqueue, loopVars
<1> HIDE DEF n
<1>5. /\ b'[e].lo - writed'[e] = b[e].lo - writed[e]
      /\ b[e].lo + n <= b[e].lo - writed[e] + remoteWindow(e)
  BY <1>2, <1>3, <1>4
<1>6. Stream!SSend(e)
  <2> DEFINE lo == [x \in Ends |-> b[x].lo]
             lo1 == [x \in Ends |-> b'[x].lo]
  <2>1. /\ lo = [x \in Ends |-> lo[x]] /\ lo1 = [x \in Ends |-> lo1[x]]
        /\ \A x \in Ends : x # e => lo1[x] = lo[x]
        /\ lo1[e] > lo[e]
    BY <1>2, <1>3, <1>4
  <2>2. Stream!Advances(lo, lo1, e)
    <3> HIDE DEF lo, lo1
    <3> QED
      BY <2>1, StreamAdvances
  <2>3. \A x \in Ends : b'[x].hi = b[x].hi /\ b'[x].lo - writed'[x] = b[x].lo - writed[x]
    BY <1>4, <1>5
  <2>4. lo1[e] <= b[e].hi /\ lo1[e] <= b[e].lo - writed[e] + Window[Peer(e)]
    BY <1>3, <1>4, <1>5 DEF remoteWindow
  <2> QED
    BY <1>4, <2>2, <2>3, <2>4 DEF Stream!SSend
<1> QED
  BY <1>6 DEF Stream!SNext

LEMMA StreamRead ==
  ASSUME IndInv, NEW e \in Ends, NEW n \in 1..Window[e], Read(e, n)
  PROVE  [Stream!SNext]_(Stream!svars)
<1>1. TypeOK /\ n \in Nat /\ n > 0
  BY WindowFacts DEF IndInv
<1>2. /\ UNCHANGED <<b, writed, closed>>
      /\ pipe'[e].lo = pipe[e].lo + n /\ pipe'[e].hi = pipe[e].hi
      /\ \A x \in Ends : x # e => pipe'[x] = pipe[x]
      /\ n <= pipe[e].hi - pipe[e].lo
  BY <1>1 DEF Read, TypeOK, Interval, Size, serveVars, lifeVars, loopVars
<1>3. pipe[e].lo \in Nat /\ pipe[e].hi \in Nat
  BY <1>1, Typed
<1>4. Stream!SRead(e)
  <2> DEFINE lo == [x \in Ends |-> pipe[x].lo]
             lo1 == [x \in Ends |-> pipe'[x].lo]
  <2>1. /\ lo = [x \in Ends |-> lo[x]] /\ lo1 = [x \in Ends |-> lo1[x]]
        /\ \A x \in Ends : x # e => lo1[x] = lo[x]
        /\ lo1[e] > lo[e]
    BY <1>1, <1>2, <1>3
  <2>2. Stream!Advances(lo, lo1, e)
    <3> HIDE DEF lo, lo1
    <3> QED
      BY <2>1, StreamAdvances
  <2>3. \A x \in Ends : pipe'[x].hi = pipe[x].hi
    BY <1>2
  <2>4. lo1[e] <= pipe[e].hi
    BY <1>1, <1>2, <1>3
  <2> QED
    BY <1>2, <2>2, <2>3, <2>4 DEF Stream!SRead
<1> QED
  BY <1>4 DEF Stream!SNext

(* A piece always fits, so the reader stores it or drops it.               *)
LEMMA StreamReceive ==
  ASSUME IndInv, NEW e \in Ends, ReaderWrite(e)
  PROVE  [Stream!SNext]_(Stream!svars)
<1> DEFINE p == Peer(e)
           f == Head(net[p])
           n == Least(Size(f), RecvBuf)
<1>1. /\ TypeOK /\ p \in Ends /\ Peer(p) = e
      /\ SenderInv(p) /\ AckInv(p) /\ DataInv(p)
      /\ HasFrame(e, "Write")
  BY PeerFacts DEF IndInv, ReaderWrite
<1>2. /\ f.lo \in Nat /\ f.hi \in Nat
      /\ pipe[e].hi <= f.lo /\ f.lo <= f.hi /\ f.hi <= b[p].lo
  BY <1>1, HeadWrite
<1>3. /\ b[p].lo \in Nat /\ writed[p] \in Nat /\ confirm[p] \in Nat
      /\ confirmed[e].lo \in Nat /\ confirmed[e].hi \in Nat
      /\ reading[e].lo \in Nat /\ reading[e].hi \in Nat
      /\ pipe[e].lo \in Nat /\ pipe[e].hi \in Nat /\ Window[e] \in Nat
      /\ pipe[e] \in Slice
  BY <1>1, Typed, WindowFacts
<1>4. /\ b[p].lo - writed[p] + confirm[p] <= confirmed[e].lo
      /\ confirmed[e].lo <= confirmed[e].hi
      /\ confirmed[e].hi <= reading[e].lo
  BY <1>1 DEF AckInv, Applied
<1>5. reading[e].lo <= reading[e].hi /\ reading[e].hi <= pipe[e].lo
  BY <1>1 DEF DataInv
<1>6. writed[p] <= Window[e]
  BY <1>1 DEF SenderInv, remoteWindow
<1>7. n \in Nat /\ n <= f.hi - f.lo
  BY <1>2, FrameAssumption DEF Least, Size
<1>8. Size(pipe[e]) + n <= Window[e] /\ pipe[e].hi + n <= b[p].lo
  <2> HIDE DEF n, f, p
  <2> QED
    BY <1>2, <1>3, <1>4, <1>5, <1>6, <1>7 DEF Size
<1>9. /\ UNCHANGED <<b, writed, closed>>
      /\ pipe' = IF keys[e] /\ ~closed[e]
                   THEN [pipe EXCEPT ![e] = Interval(pipe[e].lo, pipe[e].hi + n)]
                   ELSE pipe
  BY <1>1, <1>8 DEF ReaderWrite, TypeOK, serveVars, loopVars
<1> HIDE DEF n, f
<1>10. CASE keys[e] /\ ~closed[e] /\ n # 0
  <2>1. /\ pipe'[e].lo = pipe[e].lo /\ pipe'[e].hi = pipe[e].hi + n
        /\ \A x \in Ends : x # e => pipe'[x] = pipe[x]
    BY <1>1, <1>9, <1>10 DEF TypeOK, Interval
  <2>2. Stream!SReceive(e)
    <3> DEFINE hi == [x \in Ends |-> pipe[x].hi]
               hi1 == [x \in Ends |-> pipe'[x].hi]
    <3>1. /\ hi = [x \in Ends |-> hi[x]] /\ hi1 = [x \in Ends |-> hi1[x]]
          /\ \A x \in Ends : x # e => hi1[x] = hi[x]
          /\ hi1[e] > hi[e]
      BY <1>3, <1>7, <1>10, <2>1
    <3>2. Stream!Advances(hi, hi1, e)
      <4> HIDE DEF hi, hi1
      <4> QED
        BY <3>1, StreamAdvances
    <3>3. \A x \in Ends : pipe'[x].lo = pipe[x].lo
      BY <2>1
    <3>4. hi1[e] <= b[Peer(e)].lo /\ Peer(e) \in Ends
      BY <1>1, <1>8, <2>1
    <3> QED
      BY <1>9, <1>10, <3>2, <3>3, <3>4 DEF Stream!SReceive
  <2> QED
    BY <2>2 DEF Stream!SNext
<1>11. CASE ~(keys[e] /\ ~closed[e] /\ n # 0)
  <2>1. n = 0 => Interval(pipe[e].lo, pipe[e].hi + n) = pipe[e]
    BY <1>3 DEF Interval, Slice
  <2>2. pipe' = pipe
    BY <1>1, <1>9, <1>11, <2>1 DEF TypeOK
  <2> QED
    BY <1>9, <2>2, StreamSame
<1> QED
  BY <1>10, <1>11

LEMMA StreamStep ==
  ASSUME IndInv, [Next]_vars
  PROVE  [Stream!SNext]_(Stream!svars)
<1>1. TypeOK
  BY DEF IndInv
<1>2. ASSUME NEW e \in Ends, ServeStep(e) PROVE [Stream!SNext]_(Stream!svars)
  <2>1. ServeExit(e) => UNCHANGED <<b, writed, pipe>> /\ closed' = [closed EXCEPT ![e] = TRUE]
    BY DEF ServeExit, readVars
  <2>2. ServeDelete(e) \/ ServeSendClose(e) => UNCHANGED <<b, writed, pipe, closed>>
    BY DEF ServeDelete, ServeSendClose, readVars, lifeVars, SendClose, Enqueue,
           loopVars
  <2> QED
    BY <1>1, <1>2, <2>1, <2>2, StreamAck, StreamSend, StreamClose, StreamSame DEF ServeStep
<1>3. ASSUME NEW e \in Ends, ConfirmStep(e) PROVE [Stream!SNext]_(Stream!svars)
  <2>1. UNCHANGED <<b, writed, pipe, closed>>
    BY <1>3 DEF ConfirmStep, TakeConfirm, GatherConfirm, GatherEnd, SendConfirm,
                ConfirmExit, serveVars, readVars, lifeVars, Enqueue, loopVars
  <2> QED
    BY <2>1, StreamSame
<1>4. ASSUME NEW e \in Ends, ReadStep(e) PROVE [Stream!SNext]_(Stream!svars)
  <2>1. ReadConfirm(e) => UNCHANGED <<b, writed, pipe, closed>>
    BY DEF ReadConfirm, serveVars, lifeVars, loopVars
  <2> QED
    BY <1>4, <2>1, StreamRead, StreamSame DEF ReadStep
<1>5. ASSUME NEW e \in Ends, ReaderStep(e) PROVE [Stream!SNext]_(Stream!svars)
  <2>1. (\/ ReaderConfirm(e) \/ ReaderMerge(e) \/ ReaderConfirmDown(e)
         \/ ReaderConfirmUnknown(e) \/ ReaderSendClose(e))
          => UNCHANGED <<b, writed, pipe, closed>>
    BY DEF ReaderConfirm, ReaderMerge, ReaderConfirmDown, ReaderConfirmUnknown,
           ReaderSendClose,
           serveVars, readVars, lifeVars, ToSendClose, loopVars
  <2>2. ASSUME ReaderOverflow(e) PROVE [Stream!SNext]_(Stream!svars)
    <3> DEFINE c == (e = "client")
    <3>1. c \in BOOLEAN /\ UNCHANGED <<b, writed, pipe>> /\ closed' = [closed EXCEPT ![e] = @ \/ c]
      BY <2>2 DEF ReaderOverflow, serveVars, readVars, ToSendClose
    <3> HIDE DEF c
    <3> QED
      BY <1>1, <3>1, StreamMayClose
  <2>3. ASSUME ReaderClose(e) PROVE [Stream!SNext]_(Stream!svars)
    <3>1. /\ keys[e] \in BOOLEAN /\ UNCHANGED <<b, writed, pipe>>
          /\ closed' = [closed EXCEPT ![e] = @ \/ keys[e]]
      BY <1>1, <2>3 DEF ReaderClose, TypeOK, serveVars, readVars, loopVars
    <3> QED
      BY <1>1, <3>1, StreamMayClose
  <2> QED
    BY <1>5, <2>1, <2>2, <2>3, StreamReceive, StreamSame DEF ReaderStep
<1>6. ASSUME NEW e \in Ends, Close(e) PROVE [Stream!SNext]_(Stream!svars)
  <2>1. UNCHANGED <<b, writed, pipe>> /\ closed' = [closed EXCEPT ![e] = TRUE]
    BY <1>6 DEF Close, serveVars, readVars
  <2> QED
    BY <1>1, <2>1, StreamClose
<1>7. ASSUME NEW e \in Ends, ReaderExit(e) PROVE [Stream!SNext]_(Stream!svars)
  <2>1. /\ keys[e] \in BOOLEAN /\ UNCHANGED <<b, writed, pipe>>
        /\ closed' = [closed EXCEPT ![e] = @ \/ keys[e]]
    BY <1>1, <1>7 DEF ReaderExit, TypeOK, serveVars, readVars, loopVars
  <2> QED
    BY <1>1, <2>1, StreamMayClose
<1>8. TransportClose \/ UNCHANGED vars \/ (\E e \in Ends : Jam(e))
        => UNCHANGED <<b, writed, pipe, closed>>
  BY DEF TransportClose, Jam, vars, serveVars, readVars, lifeVars, loopVars
<1> QED
  BY <1>2, <1>3, <1>4, <1>5, <1>6, <1>7, <1>8, StreamAccept, StreamSame
     DEF Next

(* The two ends and their goroutines implement the credit stream, for every*)
(* window and frame size, through closes, overflow reports and the end of  *)
(* the tcp-chain.                                                          *)
THEOREM Refinement == Safe => ImplementsStream
<1>1. Init => Stream!SInit
  BY StreamInit
<1>2. IndInv /\ [Next]_vars => [Stream!SNext]_(Stream!svars)
  BY StreamStep
<1> QED
  BY <1>1, <1>2, Invariance, PTL DEF Safe, ImplementsStream, Stream!SSpec

-----------------------------------------------------------------------------
(* Nothing is missing.  The chains of IndInv keep slices apart; as long as *)
(* an end takes what it is sent they also leave no gap.                    *)

Holds(f, k) == f.lo < k /\ k <= f.hi

(* Every byte within low..high is in a frame with this command ...         *)
Covered(s, cmd, low, high) ==
  \A k \in Int : low < k /\ k <= high =>
    \E i \in 1..Len(s) : s[i].cmd = cmd /\ Holds(s[i], k)

(* ... or in a slice of a queue.                                           *)
SliceCovered(s, low, high) ==
  \A k \in Int : low < k /\ k <= high => \E i \in 1..Len(s) : Holds(s[i], k)

(* An end that is not closed is in keys and its Serve runs; serveConfirm   *)
(* waits with nothing to confirm; Read has handed over what it took.       *)
LifeInv(e) ==
  /\ ~keys[e] \/ pcServe[e] \notin {"choose", "send"} => closed[e]
  /\ pcConfirm[e] = "wait" => confirmed[e].lo = confirmed[e].hi
  /\ reading[e].hi = pipe[e].lo

DataWhole(e) ==
  ~closed[Peer(e)] => Covered(net[e], "Write", pipe[Peer(e)].hi, b[e].lo)

Credible(e) == ~Down(e) /\ ~Down(Peer(e)) /\ e \notin overflow
AckWhole(e) ==
  LET p == Peer(e)
  IN  Credible(e) =>
        /\ Covered(net[p], "Confirm", Applied(e), confirmed[p].lo)
        /\ SliceCovered(sendConfirm[p], confirmed[p].hi, reading[p].lo)

Whole(e) == LifeInv(e) /\ DataWhole(e) /\ AckWhole(e)
WholeInv == IndInv /\ \A e \in Ends : Whole(e)

(* What the operations on a queue do to what it covers.                    *)
LEMMA CoveredAppend ==
  ASSUME NEW s \in Seq(Frame), NEW f \in Frame, NEW cmd, NEW l \in Int, NEW h \in Int,
         Covered(s, cmd, l, h)
  PROVE  /\ Covered(Append(s, f), cmd, l, h)
         /\ f.cmd = cmd /\ f.lo <= h => Covered(Append(s, f), cmd, l, f.hi)
<1> DEFINE t == Append(s, f)
<1>1. /\ Len(t) = Len(s) + 1 /\ Len(s) \in Nat
      /\ \A i \in 1..Len(s) : i \in 1..Len(t) /\ t[i] = s[i]
      /\ t[Len(s) + 1] = f /\ Len(s) + 1 \in 1..Len(t)
      /\ f.lo \in Nat /\ f.hi \in Nat
  BY QueuedFrame DEF Frame
<1> HIDE DEF t
<1>2. Covered(t, cmd, l, h)
  BY <1>1 DEF Covered
<1>3. ASSUME f.cmd = cmd, f.lo <= h, NEW k \in Int, l < k, k <= f.hi
      PROVE  \E i \in 1..Len(t) : t[i].cmd = cmd /\ Holds(t[i], k)
  <2>1. CASE k <= h
    BY <1>2, <1>3, <2>1 DEF Covered
  <2>2. CASE ~(k <= h)
    BY <1>1, <1>3, <2>2 DEF Holds
  <2> QED
    BY <2>1, <2>2
<1>4. f.cmd = cmd /\ f.lo <= h => Covered(t, cmd, l, f.hi)
  BY <1>3 DEF Covered
<1> QED
  BY <1>2, <1>4 DEF t

LEMMA CoveredTail ==
  ASSUME NEW s \in Seq(Frame), s # << >>, NEW cmd, NEW l \in Int, NEW h \in Int,
         Covered(s, cmd, l, h)
  PROVE  /\ Head(s).cmd # cmd => Covered(Tail(s), cmd, l, h)
         /\ l <= Head(s).hi => Covered(Tail(s), cmd, Head(s).hi, h)
<1> DEFINE t == Tail(s)
<1>1. /\ Len(s) >= 1 /\ Len(t) = Len(s) - 1 /\ Head(s) = s[1]
      /\ \A i \in 1..Len(s) : i = 1 \/ (i - 1 \in 1..Len(t) /\ t[i - 1] = s[i])
      /\ s[1].lo \in Nat /\ s[1].hi \in Nat
  BY QueuedFrame
<1> HIDE DEF t
<1>2. ASSUME NEW k \in Int, l < k, k <= h, Head(s).cmd # cmd \/ Head(s).hi < k
      PROVE  \E i \in 1..Len(t) : t[i].cmd = cmd /\ Holds(t[i], k)
  <2>1. PICK i \in 1..Len(s) : s[i].cmd = cmd /\ Holds(s[i], k)
    BY <1>2 DEF Covered
  <2>2. i # 1
    BY <1>1, <1>2, <2>1 DEF Holds
  <2> QED
    BY <1>1, <2>1, <2>2
<1>3. Head(s).cmd # cmd => Covered(t, cmd, l, h)
  BY <1>2 DEF Covered
<1>4. ASSUME l <= Head(s).hi, NEW k \in Int, Head(s).hi < k, k <= h
      PROVE  \E i \in 1..Len(t) : t[i].cmd = cmd /\ Holds(t[i], k)
  <2>1. l < k
    BY <1>1, <1>4
  <2> QED
    BY <1>2, <1>4, <2>1
<1>5. l <= Head(s).hi => Covered(t, cmd, Head(s).hi, h)
  BY <1>4 DEF Covered
<1> QED
  BY <1>3, <1>5 DEF t

LEMMA CoveredCut ==
  ASSUME NEW s \in Seq(Frame), s # << >>, NEW cmd, NEW l \in Int, NEW h \in Int,
         NEW n \in Nat, Head(s).cmd = "Write",
         Covered(s, cmd, l, h), NEW t, IsCut(s, t, n)
  PROVE  /\ cmd # "Write" => Covered(t, cmd, l, h)
         /\ l <= Head(s).lo + n => Covered(t, cmd, Head(s).lo + n, h)
<1>1. /\ Len(s) >= 1 /\ Len(s) \in Nat /\ Head(s) = s[1] /\ 1 \in 1..Len(s)
      /\ s[1].lo \in Nat /\ s[1].hi \in Nat
  BY QueuedFrame
<1>2. /\ Len(t) = Len(s)
      /\ t[1] = WriteFrame(Head(s).lo + n, Head(s).hi)
      /\ \A i \in 1..Len(s) : i # 1 => t[i] = s[i]
  BY <1>1 DEF IsCut
<1>3. t[1].cmd = "Write" /\ t[1].lo = s[1].lo + n /\ t[1].hi = s[1].hi
  BY <1>1, <1>2 DEF WriteFrame
<1>4. ASSUME NEW k \in Int, l < k, k <= h, cmd # "Write" \/ Head(s).lo + n < k
      PROVE  \E i \in 1..Len(t) : t[i].cmd = cmd /\ Holds(t[i], k)
  <2>1. PICK i \in 1..Len(s) : s[i].cmd = cmd /\ Holds(s[i], k)
    BY <1>4 DEF Covered
  <2>2. CASE i = 1
    BY <1>1, <1>2, <1>3, <1>4, <2>1, <2>2 DEF Holds
  <2>3. CASE i # 1
    BY <1>2, <2>1, <2>3
  <2> QED
    BY <2>2, <2>3
<1>5. cmd # "Write" => Covered(t, cmd, l, h)
  BY <1>4 DEF Covered
<1>6. ASSUME l <= Head(s).lo + n, NEW k \in Int, Head(s).lo + n < k, k <= h
      PROVE  \E i \in 1..Len(t) : t[i].cmd = cmd /\ Holds(t[i], k)
  <2>1. l < k
    BY <1>1, <1>6
  <2> QED
    BY <1>4, <1>6, <2>1
<1> QED
  BY <1>5, <1>6 DEF Covered

(* The first frame with the command starts where the range starts.         *)
LEMMA CoveredFirst ==
  ASSUME NEW s \in Seq(Frame), NEW cmd, NEW l \in Int, NEW h \in Int,
         Covered(s, cmd, l, h), Chain(s, cmd, l, h),
         NEW i \in 1..Len(s), s[i].cmd = cmd, \A j \in 1..(i - 1) : s[j].cmd # cmd
  PROVE  s[i].lo = l
<1>1. /\ \A j \in 1..Len(s) : s[j].lo \in Nat /\ s[j].hi \in Nat
      /\ Len(s) \in Nat
      /\ l <= s[i].lo /\ s[i].lo <= s[i].hi /\ s[i].hi <= h
  BY QueuedFrame DEF Chain
<1> SUFFICES ASSUME l < s[i].lo PROVE FALSE
  BY <1>1
<1>2. PICK j \in 1..Len(s) : s[j].cmd = cmd /\ Holds(s[j], l + 1)
  BY <1>1 DEF Covered
<1>3. s[j].lo <= l
  BY <1>1, <1>2 DEF Holds
<1>4. i < j
  BY <1>1, <1>2, <1>3
<1>5. s[i].hi <= s[j].lo
  BY <1>2, <1>4 DEF Chain
<1> QED
  BY <1>1, <1>3, <1>5

LEMMA SliceCoveredAppend ==
  ASSUME NEW s \in Seq(Slice), NEW f \in Slice, NEW l \in Int, NEW h \in Int,
         SliceCovered(s, l, h), f.lo <= h
  PROVE  SliceCovered(Append(s, f), l, f.hi)
<1> DEFINE t == Append(s, f)
<1>1. /\ Len(t) = Len(s) + 1 /\ Len(s) \in Nat
      /\ \A i \in 1..Len(s) : i \in 1..Len(t) /\ t[i] = s[i]
      /\ t[Len(s) + 1] = f /\ Len(s) + 1 \in 1..Len(t)
      /\ f.lo \in Nat /\ f.hi \in Nat
  BY QueuedSlice DEF Slice
<1> HIDE DEF t
<1>2. ASSUME NEW k \in Int, l < k, k <= f.hi
      PROVE  \E i \in 1..Len(t) : Holds(t[i], k)
  <2>1. CASE k <= h
    BY <1>1, <1>2, <2>1 DEF SliceCovered
  <2>2. CASE ~(k <= h)
    BY <1>1, <1>2, <2>2 DEF Holds
  <2> QED
    BY <2>1, <2>2
<1> QED
  BY <1>2 DEF SliceCovered, t

LEMMA SliceCoveredTail ==
  ASSUME NEW s \in Seq(Slice), s # << >>, NEW l \in Int, NEW h \in Int,
         SliceCovered(s, l, h), SliceChain(s, l, h)
  PROVE  Head(s).lo = l /\ SliceCovered(Tail(s), Head(s).hi, h)
<1> DEFINE t == Tail(s)
<1>1. /\ Len(s) >= 1 /\ Len(s) \in Nat /\ Len(t) = Len(s) - 1 /\ Head(s) = s[1]
      /\ \A i \in 1..Len(s) : i = 1 \/ (i - 1 \in 1..Len(t) /\ t[i - 1] = s[i] /\ 1 < i)
      /\ \A i \in 1..Len(s) : s[i].lo \in Nat /\ s[i].hi \in Nat
      /\ 1 \in 1..Len(s)
  BY QueuedSlice
<1> HIDE DEF t
<1>2. l <= s[1].lo /\ s[1].lo <= s[1].hi /\ s[1].hi <= h
  BY <1>1 DEF SliceChain
<1>3. s[1].lo = l
  <2> SUFFICES ASSUME l < s[1].lo PROVE FALSE
    BY <1>1, <1>2
  <2>1. PICK j \in 1..Len(s) : Holds(s[j], l + 1)
    BY <1>1, <1>2 DEF SliceCovered
  <2>2. s[j].lo <= l /\ j # 1
    BY <1>1, <2>1 DEF Holds
  <2>3. s[1].hi <= s[j].lo
    BY <1>1, <2>2 DEF SliceChain
  <2> QED
    BY <1>1, <1>2, <2>2, <2>3
<1>4. ASSUME NEW k \in Int, s[1].hi < k, k <= h
      PROVE  \E i \in 1..Len(t) : Holds(t[i], k)
  <2> l < k
    BY <1>1, <1>2, <1>4
  <2>1. PICK i \in 1..Len(s) : Holds(s[i], k)
    BY <1>4 DEF SliceCovered
  <2>2. i # 1
    BY <1>1, <1>4, <2>1 DEF Holds
  <2> QED
    BY <1>1, <2>1, <2>2
<1> QED
  BY <1>1, <1>3, <1>4 DEF SliceCovered, t
(* What is over stays over.                                                *)
LEMMA Over ==
  ASSUME TypeOK, Next
  PROVE  /\ \A x \in Ends : Down(x) => Down(x)'
         /\ \A x \in Ends : closed[x] => closed'[x]
         /\ overflow \subseteq overflow'
<1>1. closed \in [Ends -> BOOLEAN] /\ link \in [Ends -> {"up", "closed", "exited"}]
  BY DEF TypeOK
<1>2. UNCHANGED closed \/ \E e \in Ends, v \in BOOLEAN : closed' = [closed EXCEPT ![e] = @ \/ v]
  <2>1. ASSUME NEW e \in Ends, ServeStep(e)
        PROVE  \E v \in BOOLEAN : UNCHANGED closed \/ closed' = [closed EXCEPT ![e] = @ \/ v]
    <3>1. CASE ChooseConfirm(e)
      BY <3>1 DEF ChooseConfirm
    <3>2. CASE ServeExit(e)
      BY <1>1, <3>2 DEF ServeExit
    <3> QED
      BY <2>1, <3>1, <3>2 DEF ServeStep, SendWrite, ServeDelete, ServeSendClose,
                              lifeVars, Enqueue, SendClose, loopVars
  <2>2. ASSUME NEW e \in Ends, ReaderStep(e)
        PROVE  \E v \in BOOLEAN : UNCHANGED closed \/ closed' = [closed EXCEPT ![e] = @ \/ v]
    BY <1>1, <2>2 DEF ReaderStep, ReaderWrite, ReaderConfirm, ReaderMerge,
                      ReaderOverflow, ReaderConfirmDown, ReaderConfirmUnknown,
                      ReaderClose, lifeVars, TypeOK, ReaderSendClose, SendClose,
                      Enqueue, ToSendClose, loopVars
  <2>3. ASSUME NEW e \in Ends, ConfirmStep(e) \/ ReadStep(e) \/ \E n \in 1..MaxBytes[e] : Write(e, n)
        PROVE  UNCHANGED closed
    BY <2>3 DEF ConfirmStep, TakeConfirm, GatherConfirm, GatherEnd, SendConfirm,
                ConfirmExit, ReadStep, Read, ReadConfirm, Write, lifeVars, Enqueue,
                loopVars
  <2>4. ASSUME NEW e \in Ends, Close(e) \/ ReaderExit(e)
        PROVE  \E v \in BOOLEAN : closed' = [closed EXCEPT ![e] = @ \/ v]
    BY <1>1, <2>4 DEF Close, ReaderExit, TypeOK, loopVars
  <2>5. TransportClose \/ (\E e \in Ends : Jam(e)) => UNCHANGED closed
    BY DEF TransportClose, Jam
  <2> QED
    BY <2>1, <2>2, <2>3, <2>4, <2>5 DEF Next
<1>3. \A x \in Ends : closed[x] => closed'[x]
  BY <1>1, <1>2
<1>4. \A x \in Ends : link[x] # "up" => link'[x] # "up"
  <2>1. UNCHANGED link \/ TransportClose \/ \E e \in Ends : ReaderExit(e)
    BY DEF Next, ServeStep, ChooseConfirm, SendWrite, ServeExit, ServeDelete,
           ServeSendClose, ConfirmStep, TakeConfirm, GatherConfirm, GatherEnd,
           SendConfirm, ConfirmExit, ReadStep, Read, ReadConfirm, Write, Close,
           ReaderStep, ReaderWrite, ReaderConfirm, ReaderMerge, ReaderOverflow,
           ReaderConfirmDown, ReaderConfirmUnknown, ReaderClose, lifeVars, Enqueue,
           SendClose, ReaderSendClose, ToSendClose, loopVars, Jam
  <2> QED
    BY <1>1, <2>1 DEF TransportClose, ReaderExit
<1>5. overflow \subseteq overflow'
  BY DEF Next, ServeStep, ChooseConfirm, SendWrite, ServeExit, ServeDelete,
         ServeSendClose, ConfirmStep, TakeConfirm, GatherConfirm, GatherEnd,
         SendConfirm, ConfirmExit, ReadStep, Read, ReadConfirm, Write, Close,
         TransportClose, ReaderExit, ReaderStep, ReaderWrite, ReaderConfirm,
         ReaderMerge, ReaderOverflow, ReaderConfirmDown, ReaderConfirmUnknown,
         ReaderClose, Enqueue, SendClose, ReaderSendClose, ToSendClose, Jam,
         loopVars
<1> QED
  BY <1>3, <1>4, <1>5 DEF Down

(* A channel leaves keys, and its Serve the loop, only when it is closed.  *)
LEMMA LifeStep ==
  ASSUME TypeOK, \A x \in Ends : LifeInv(x), Next
  PROVE  \A x \in Ends : LifeInv(x)'
<1> SUFFICES ASSUME NEW x \in Ends PROVE LifeInv(x)'
  OBVIOUS
<1>1. closed[x] => closed'[x]
  BY Over
<1>2. keys'[x] = keys[x] \/ closed'[x]
  <2>1. UNCHANGED keys \/ \E e \in Ends : ServeDelete(e) \/ ReaderClose(e)
    BY DEF Next, ServeStep, ChooseConfirm, SendWrite, ServeExit, ServeSendClose,
           ConfirmStep, TakeConfirm, GatherConfirm, GatherEnd, SendConfirm,
           ConfirmExit, ReadStep, Read, ReadConfirm, Write, Close, TransportClose,
           ReaderExit, ReaderStep, ReaderWrite, ReaderConfirm, ReaderMerge,
           ReaderOverflow, ReaderConfirmDown, ReaderConfirmUnknown, lifeVars,
           Enqueue, SendClose, ReaderSendClose, ToSendClose, loopVars, Jam
  <2>2. ASSUME NEW e \in Ends, ServeDelete(e) PROVE keys'[x] = keys[x] \/ closed'[x]
    BY <1>1, <2>2, ZenonT(40) DEF ServeDelete, LifeInv, TypeOK, loopVars
  <2>3. ASSUME NEW e \in Ends, ReaderClose(e) PROVE keys'[x] = keys[x] \/ closed'[x]
    BY <1>1, <2>3, ZenonT(40) DEF ReaderClose, LifeInv, TypeOK, loopVars
  <2> QED
    BY <2>1, <2>2, <2>3
<1>3. pcServe'[x] \notin {"choose", "send"} =>
        pcServe[x] \notin {"choose", "send"} \/ closed'[x]
  <2>1. UNCHANGED pcServe \/ \E e \in Ends : ServeStep(e) \/ \E n \in 1..MaxBytes[e] : Write(e, n)
    BY DEF Next, ConfirmStep, TakeConfirm, GatherConfirm, GatherEnd, SendConfirm,
           ConfirmExit, ReadStep, Read, ReadConfirm, Close, TransportClose,
           ReaderExit, ReaderStep, ReaderWrite, ReaderConfirm, ReaderMerge,
           ReaderOverflow, ReaderConfirmDown, ReaderConfirmUnknown, ReaderClose,
           serveVars, Enqueue, ReaderSendClose, SendClose, ToSendClose, Jam,
           loopVars
  <2>2. ASSUME NEW e \in Ends, NEW n \in 1..MaxBytes[e], Write(e, n)
        PROVE  pcServe'[x] \in {"choose", "send"} \/ pcServe'[x] = pcServe[x]
    BY <2>2 DEF Write, AfterLoop, TypeOK
  <2>3. ASSUME NEW e \in Ends, ServeStep(e)
        PROVE  \/ pcServe'[x] \in {"choose", "send"} \/ pcServe'[x] = pcServe[x]
               \/ closed'[x] \/ pcServe[x] \notin {"choose", "send"}
    BY <2>3 DEF ServeStep, ChooseConfirm, SendWrite, ServeExit, ServeDelete,
                ServeSendClose, AfterLoop, TypeOK, Enqueue, SendClose, loopVars
  <2> QED
    BY <2>1, <2>2, <2>3
<1>4. pcConfirm'[x] = "wait" => confirmed'[x].lo = confirmed'[x].hi
  <2>1. UNCHANGED <<pcConfirm, confirmed>> \/ \E e \in Ends : ConfirmStep(e)
    BY DEF Next, ServeStep, ChooseConfirm, SendWrite, ServeExit, ServeDelete,
           ServeSendClose, ReadStep, Read, ReadConfirm, Write, Close,
           TransportClose, ReaderExit, ReaderStep, ReaderWrite, ReaderConfirm,
           ReaderMerge, ReaderOverflow, ReaderConfirmDown, ReaderConfirmUnknown,
           ReaderClose, confirmVars, Enqueue, SendClose, ReaderSendClose,
           ToSendClose, Jam, loopVars
  <2>2. ASSUME NEW e \in Ends, TakeConfirm(e) \/ GatherConfirm(e) \/ GatherEnd(e) \/ ConfirmExit(e)
        PROVE  /\ pcConfirm'[x] = "wait" => pcConfirm[x] = "wait" /\ x # e
               /\ x # e => confirmed'[x] = confirmed[x]
    BY <2>2 DEF TakeConfirm, GatherConfirm, GatherEnd, ConfirmExit, AfterGather,
                TypeOK
  <2>3. ASSUME NEW e \in Ends, SendConfirm(e)
        PROVE  pcConfirm'[x] = "wait" => confirmed'[x].lo = confirmed'[x].hi
    <3>1. CASE x # e
      BY <2>3, <3>1 DEF SendConfirm, LifeInv, TypeOK, Enqueue
    <3>2. CASE x = e
      <4> DEFINE rest == Interval(confirmed[e].lo + Least(Size(confirmed[e]), MaxUint16),
                                  confirmed[e].hi)
      <4>1. confirmed'[e] = rest /\ (pcConfirm'[e] = "wait" => Size(rest) = 0)
        BY <2>3 DEF SendConfirm, TypeOK, Enqueue
      <4>2. confirmed[e].lo \in Nat /\ confirmed[e].hi \in Nat /\ rest.lo \in Int /\ rest.hi \in Int
        BY Typed, FrameAssumption DEF Least, Size, Interval
      <4> HIDE DEF rest
      <4> QED
        BY <3>2, <4>1, <4>2 DEF Size
    <3> QED
      BY <3>1, <3>2
  <2> QED
    BY <2>1, <2>2, <2>3 DEF ConfirmStep, LifeInv
<1>5. reading'[x].hi = pipe'[x].lo
  <2>1. \/ UNCHANGED <<reading, pipe>>
        \/ \E e \in Ends : ReadConfirm(e) \/ ReaderWrite(e) \/ \E n \in 1..Window[e] : Read(e, n)
    BY DEF Next, ServeStep, ChooseConfirm, SendWrite, ServeExit, ServeDelete,
           ServeSendClose, ConfirmStep, TakeConfirm, GatherConfirm, GatherEnd,
           SendConfirm, ConfirmExit, ReadStep, Write, Close, TransportClose,
           ReaderExit, ReaderStep, ReaderConfirm, ReaderMerge, ReaderOverflow,
           ReaderConfirmDown, ReaderConfirmUnknown, ReaderClose, readVars, Enqueue,
           SendClose, ReaderSendClose, ToSendClose, Jam, loopVars
  <2>2. ASSUME NEW e \in Ends, ReadConfirm(e) PROVE reading'[x].hi = pipe'[x].lo
    BY <2>2 DEF ReadConfirm, LifeInv, Interval, TypeOK
  <2>3. ASSUME NEW e \in Ends, ReaderWrite(e) PROVE reading'[x].hi = pipe'[x].lo
    BY <2>3 DEF ReaderWrite, LifeInv, Interval, TypeOK, loopVars
  <2>4. ASSUME NEW e \in Ends, NEW n \in 1..Window[e], Read(e, n)
        PROVE  reading'[x].hi = pipe'[x].lo
    BY <2>4 DEF Read, LifeInv, Interval, TypeOK
  <2> QED
    BY <2>1, <2>2, <2>3, <2>4 DEF LifeInv
<1> QED
  BY <1>1, <1>2, <1>3, <1>4, <1>5 DEF LifeInv
(* What becomes of the frames of x in a step.                              *)
Takes(p) ==
  \/ ReaderConfirm(p) \/ ReaderMerge(p) \/ ReaderOverflow(p)
  \/ ReaderConfirmDown(p) \/ ReaderConfirmUnknown(p)

LEMMA NetMoves ==
  ASSUME TypeOK, NEW x \in Ends, Next
  PROVE  \/ net'[x] \in {net[x], Append(net[x], CloseFrame)}
         \/ SendWrite(x) \/ SendConfirm(x) \/ ReaderWrite(Peer(x))
         \/ /\ net[x] # << >> /\ net'[x] = Tail(net[x])
            /\ \/ Head(net[x]).cmd = "Close"
               \/ Head(net[x]).cmd = "Confirm" /\ Takes(Peer(x))
<1>0. net \in [Ends -> Seq(Frame)]
  BY DEF TypeOK
<1>1. ASSUME NEW e \in Ends, ReaderStep(e), ~ReaderWrite(e), ~ReaderSendClose(e)
      PROVE  \/ net'[x] \in {net[x], Append(net[x], CloseFrame)}
             \/ /\ net[x] # << >> /\ net'[x] = Tail(net[x]) /\ e = Peer(x)
                /\ \/ Head(net[x]).cmd = "Close"
                   \/ Head(net[x]).cmd = "Confirm" /\ Takes(e)
  <2>1. /\ Peer(e) \in Ends /\ Peer(e) # e /\ Peer(Peer(e)) = e /\ (x = e \/ x = Peer(e))
    BY PeerFacts
  <2>2. /\ net' = Dequeue(e)
        /\ net[Peer(e)] # << >>
        /\ \/ Head(net[Peer(e)]).cmd = "Close"
           \/ Head(net[Peer(e)]).cmd = "Confirm" /\ Takes(e)
    BY <1>1 DEF ReaderStep, ReaderConfirm, ReaderMerge, ReaderOverflow,
                ReaderConfirmDown, ReaderConfirmUnknown, ReaderClose, HasFrame,
                Takes
  <2>3. /\ net'[Peer(e)] = Tail(net[Peer(e)])
        /\ net'[e] \in {net[e], Append(net[e], CloseFrame)}
    BY <1>0, <2>1, <2>2 DEF Dequeue
  <2> QED
    BY <2>1, <2>2, <2>3
<1>2. ASSUME NEW e \in Ends, ReaderWrite(e)
      PROVE  net'[x] = net[x] \/ ReaderWrite(Peer(x))
  <2>1. x = e \/ e = Peer(x)
    BY PeerFacts
  <2>2. CASE x = e
    <3>1. net'[e] = net[e]
      BY <1>0, <1>2, PeerFacts DEF ReaderWrite, Dequeue
    <3> QED
      BY <2>2, <3>1
  <2> QED
    BY <1>2, <2>1, <2>2
<1>3. ASSUME NEW e \in Ends, ServeStep(e)
      PROVE  net'[x] \in {net[x], Append(net[x], CloseFrame)} \/ SendWrite(x)
  <2>1. CASE SendWrite(e) /\ x # e
    BY <1>0, <2>1 DEF SendWrite, Enqueue
  <2> QED
    BY <1>0, <1>3, <2>1 DEF ServeStep, ChooseConfirm, ServeExit, ServeDelete,
                            ServeSendClose, SendClose, Enqueue
<1>4. ASSUME NEW e \in Ends, ConfirmStep(e)
      PROVE  net'[x] = net[x] \/ SendConfirm(x)
  <2>1. CASE SendConfirm(e) /\ x # e
    BY <1>0, <2>1 DEF SendConfirm, Enqueue
  <2> QED
    BY <1>4, <2>1 DEF ConfirmStep, TakeConfirm, GatherConfirm, GatherEnd,
                      ConfirmExit
<1>5. ASSUME \/ TransportClose
             \/ \E e \in Ends : \/ ReadStep(e) \/ Close(e) \/ ReaderExit(e)
                                \/ Jam(e) \/ \E n \in 1..MaxBytes[e] : Write(e, n)
      PROVE  net'[x] = net[x]
  BY <1>5 DEF TransportClose, ReadStep, Read, ReadConfirm, Close, ReaderExit, Jam,
              Write
<1>6. ASSUME NEW e \in Ends, ReaderSendClose(e)
      PROVE  net'[x] \in {net[x], Append(net[x], CloseFrame)}
  BY <1>0, <1>6 DEF ReaderSendClose, SendClose, Enqueue
<1> QED
  BY <1>1, <1>2, <1>3, <1>4, <1>5, <1>6 DEF Next

(* The bytes between what is stored and what is sent are on their way.     *)
LEMMA DataWholeStep ==
  ASSUME IndInv, \A y \in Ends : Whole(y), Next, NEW x \in Ends
  PROVE  DataWhole(x)'
<1> DEFINE p == Peer(x)
           l == pipe[p].hi
           h == b[x].lo
           s == net[x]
<1>1. TypeOK /\ p \in Ends /\ p # x /\ Peer(p) = x /\ DataInv(x) /\ LifeInv(p) /\ SenderInv(x)
  BY PeerFacts DEF IndInv, Whole
<1> SUFFICES ASSUME ~closed'[p]
             PROVE  Covered(net'[x], "Write", pipe'[p].hi, b'[x].lo)
  BY DEF DataWhole
<1>2. ~closed[p] /\ Covered(s, "Write", l, h) /\ Chain(s, "Write", l, h)
  BY <1>1, Over DEF Whole, DataWhole, DataInv
<1>3. s \in Seq(Frame) /\ l \in Int /\ h \in Int /\ CloseFrame \in Frame
  BY <1>1, Typed, FrameFacts
<1>4. CASE ReaderWrite(p)
  <2> DEFINE f == Head(s)
             n == Least(Size(f), RecvBuf)
             cut == [s EXCEPT ![1] = WriteFrame(f.lo + n, f.hi)]
  <2>1. /\ s # << >> /\ f.cmd = "Write" /\ f.lo \in Nat /\ f.hi \in Nat
        /\ l <= f.lo /\ f.lo <= f.hi
    BY <1>1, <1>4, HeadWrite DEF ReaderWrite
  <2>2. f.lo = l
    <3>1. 1 \in 1..Len(s) /\ s[1] = f /\ \A j \in 1..(1 - 1) : s[j].cmd # "Write"
      BY <1>3, <2>1, QueuedFrame
    <3> HIDE DEF s, l, h
    <3>2. s[1].lo = l
      BY <1>2, <1>3, <2>1, <3>1, CoveredFirst
    <3> QED
      BY <3>1, <3>2
  <2>3. n \in Nat /\ (n = Size(f) => f.lo + n = f.hi)
    BY <2>1, FrameAssumption DEF Least, Size
  <2>4. /\ b'[x].lo = h
        /\ net'[x] = (IF n = Size(f) THEN Tail(s) ELSE cut)
        /\ pipe'[p].hi = l + n
    BY <1>1, <1>2, <1>4 DEF ReaderWrite, Dequeue, TypeOK, serveVars, LifeInv,
                            Interval, loopVars
  <2>5. IsCut(s, cut, n)
    BY DEF IsCut
  <2> HIDE DEF s, l, h, n, cut
  <2>6. Covered(cut, "Write", f.lo + n, h)
    BY <1>2, <1>3, <2>1, <2>2, <2>3, <2>5, CoveredCut
  <2>7. Covered(Tail(s), "Write", f.hi, h)
    BY <1>2, <1>3, <2>1, CoveredTail
  <2> QED
    BY <2>2, <2>3, <2>4, <2>6, <2>7
<1>5. CASE SendWrite(x)
  <2> DEFINE n == SendSize(x)
             f == WriteFrame(h, h + n)
  <2>1. n \in Nat
    <3>1. writed[x] < remoteWindow(x) /\ b[x].lo < b[x].hi
      BY <1>1, <1>5 DEF SenderInv, SendWrite, Enqueue
    <3> QED
      BY <1>1, <3>1, Typed, WindowFacts, FrameAssumption DEF SendSize, Least, Size
  <2>2. f \in Frame /\ f.cmd = "Write" /\ f.lo = h /\ f.hi = h + n
    BY <1>1, <2>1, Typed, FrameFacts DEF WriteFrame
  <2>3. /\ b'[x].lo = h + n /\ net'[x] = Append(s, f) /\ pipe' = pipe
    <3> HIDE DEF n
    <3> QED
      BY <1>1, <1>5 DEF SendWrite, TypeOK, Interval, readVars, n, Enqueue
  <2> HIDE DEF s, l, h, n, f
  <2>4. Covered(Append(s, f), "Write", l, h + n)
    BY <1>2, <1>3, <2>2, CoveredAppend
  <2> QED
    BY <2>3, <2>4 DEF l
<1>6. CASE ~ReaderWrite(p) /\ ~SendWrite(x)
  <2>1. b'[x].lo = h
    <3>1. \/ UNCHANGED b
          \/ \E e \in Ends : SendWrite(e) \/ \E n \in 1..MaxBytes[e] : Write(e, n)
      BY DEF Next, ServeStep, ChooseConfirm, ServeExit, ServeDelete,
             ServeSendClose, ConfirmStep, TakeConfirm, GatherConfirm, GatherEnd,
             SendConfirm, ConfirmExit, ReadStep, Read, ReadConfirm, Close,
             TransportClose, ReaderExit, ReaderStep, ReaderWrite, ReaderConfirm,
             ReaderMerge, ReaderOverflow, ReaderConfirmDown, ReaderConfirmUnknown,
             ReaderClose, serveVars, Enqueue, SendClose, ReaderSendClose,
             ToSendClose, Jam, loopVars
    <3>2. ASSUME NEW e \in Ends, SendWrite(e) PROVE b'[x].lo = h
      BY <1>1, <1>6, <3>2 DEF SendWrite, TypeOK, Enqueue
    <3>3. ASSUME NEW e \in Ends, NEW n \in 1..MaxBytes[e], Write(e, n) PROVE b'[x].lo = h
      BY <1>1, <3>3 DEF Write, TypeOK, Interval
    <3> QED
      BY <3>1, <3>2, <3>3
  <2>2. pipe'[p].hi = l
    <3>1. \/ UNCHANGED pipe
          \/ \E e \in Ends : ReaderWrite(e) \/ \E n \in 1..Window[e] : Read(e, n)
      BY DEF Next, ServeStep, ChooseConfirm, SendWrite, ServeExit, ServeDelete,
             ServeSendClose, ConfirmStep, TakeConfirm, GatherConfirm, GatherEnd,
             SendConfirm, ConfirmExit, ReadStep, ReadConfirm, Write, Close,
             TransportClose, ReaderExit, ReaderStep, ReaderConfirm, ReaderMerge,
             ReaderOverflow, ReaderConfirmDown, ReaderConfirmUnknown, ReaderClose,
             readVars, Enqueue, SendClose, ReaderSendClose, ToSendClose, Jam,
             loopVars
    <3>2. ASSUME NEW e \in Ends, ReaderWrite(e) PROVE pipe'[p].hi = l
      BY <1>1, <1>6, <3>2 DEF ReaderWrite, TypeOK, loopVars
    <3>3. ASSUME NEW e \in Ends, NEW n \in 1..Window[e], Read(e, n) PROVE pipe'[p].hi = l
      BY <1>1, <3>3 DEF Read, TypeOK, Interval
    <3> QED
      BY <3>1, <3>2, <3>3
  <2>3. \/ \E f \in Frame : net'[x] \in {s, Append(s, f)}
        \/ s # << >> /\ net'[x] = Tail(s) /\ Head(s).cmd # "Write"
    <3>1. CASE SendConfirm(x)
      <4> DEFINE ok == Least(Size(confirmed[x]), MaxUint16)
      <4>1. confirmed[x].lo \in Nat /\ confirmed[x].lo <= confirmed[x].hi /\ confirmed[x].hi \in Nat
        BY <1>1, Typed DEF IndInv, AckInv
      <4>2. ok \in Nat
        BY <4>1, FrameAssumption DEF Least, Size
      <4>3. net'[x] = Append(s, ConfirmFrame(confirmed[x].lo, confirmed[x].lo + ok))
        BY <1>1, <3>1 DEF SendConfirm, TypeOK, Enqueue
      <4> HIDE DEF ok
      <4> QED
        BY <4>1, <4>2, <4>3, FrameFacts
    <3> QED
      BY <1>1, <1>3, <1>6, <3>1, NetMoves
  <2> HIDE DEF s, l, h
  <2>4. Covered(net'[x], "Write", l, h)
    BY <1>2, <1>3, <2>3, CoveredAppend, CoveredTail
  <2> QED
    BY <2>1, <2>2, <2>4
<1> QED
  BY <1>4, <1>5, <1>6
(* The credit of an end that no step of its own reader moves stays.        *)
LEMMA AppliedStays ==
  ASSUME IndInv, Next, NEW x \in Ends, ~closed'[x], x \notin overflow',
         ~ReaderConfirm(x), ~ReaderMerge(x)
  PROVE  Applied(x)' = Applied(x)
<1>1. TypeOK /\ SenderInv(x)
  BY DEF IndInv
<1>2. b[x].lo \in Nat /\ writed[x] \in Nat /\ confirm[x] \in Nat
  BY <1>1, Typed
<1>3. CASE SendWrite(x)
  <2> DEFINE n == SendSize(x)
  <2>1. n \in Int
    BY <1>1, Typed, WindowFacts, FrameAssumption DEF SendSize, Least, Size
  <2>2. b'[x].lo = b[x].lo + n /\ writed'[x] = writed[x] + n /\ confirm'[x] = confirm[x]
    <3> HIDE DEF n
    <3> QED
      BY <1>1, <1>3 DEF SendWrite, TypeOK, Interval, n, Enqueue
  <2> HIDE DEF n
  <2> QED
    BY <1>2, <2>1, <2>2 DEF Applied
<1>4. CASE ChooseConfirm(x)
  <2>1. ~(confirm[x] > writed[x])
    BY <1>1, <1>4 DEF ChooseConfirm, TypeOK, loopVars
  <2>2. b'[x].lo = b[x].lo /\ writed'[x] = writed[x] - confirm[x] /\ confirm'[x] = 0
    BY <1>1, <1>4, <2>1 DEF ChooseConfirm, TypeOK, loopVars
  <2> QED
    BY <1>2, <2>2 DEF Applied
<1>5. CASE ~SendWrite(x) /\ ~ChooseConfirm(x)
  <2>1. \/ UNCHANGED <<b, writed, confirm>>
        \/ \E e \in Ends : \/ SendWrite(e) \/ ChooseConfirm(e) \/ \E n \in 1..MaxBytes[e] : Write(e, n)
                           \/ ReaderConfirm(e) \/ ReaderMerge(e) \/ ReaderOverflow(e)
    BY DEF Next, ServeStep, ServeExit, ServeDelete, ServeSendClose, ConfirmStep,
           TakeConfirm, GatherConfirm, GatherEnd, SendConfirm, ConfirmExit,
           ReadStep, Read, ReadConfirm, Close, TransportClose, ReaderExit,
           ReaderStep, ReaderWrite, ReaderConfirmDown, ReaderConfirmUnknown,
           ReaderClose, serveVars, Enqueue, SendClose, ReaderSendClose,
           ToSendClose, Jam, loopVars
  <2>2. ASSUME NEW e \in Ends, SendWrite(e) \/ ChooseConfirm(e)
        PROVE  b'[x] = b[x] /\ writed'[x] = writed[x] /\ confirm'[x] = confirm[x]
    BY <1>1, <1>5, <2>2 DEF SendWrite, ChooseConfirm, TypeOK, Enqueue, loopVars
  <2>3. ASSUME NEW e \in Ends, NEW n \in 1..MaxBytes[e], Write(e, n)
        PROVE  b'[x].lo = b[x].lo /\ writed'[x] = writed[x] /\ confirm'[x] = confirm[x]
    BY <1>1, <2>3 DEF Write, TypeOK, Interval
  <2>4. ASSUME NEW e \in Ends, ReaderConfirm(e) \/ ReaderMerge(e) \/ ReaderOverflow(e)
        PROVE  b'[x] = b[x] /\ writed'[x] = writed[x] /\ confirm'[x] = confirm[x]
    BY <1>1, <2>4 DEF ReaderConfirm, ReaderMerge, ReaderOverflow, serveVars,
                      TypeOK, ToSendClose
  <2> QED
    BY <2>1, <2>2, <2>3, <2>4 DEF Applied
<1> QED
  BY <1>3, <1>4, <1>5

(* What is sent, received and read, and not yet confirmed, is on its way   *)
(* back.                                                                   *)
LEMMA AckWholeStep ==
  ASSUME IndInv, \A y \in Ends : Whole(y), Next, NEW x \in Ends
  PROVE  AckWhole(x)'
<1> DEFINE p == Peer(x)
           a == Applied(x)
           c == confirmed[p]
           q == sendConfirm[p]
           r == reading[p]
           s == net[p]
<1>1. /\ TypeOK /\ p \in Ends /\ p # x /\ Peer(p) = x
      /\ AckInv(x) /\ DataInv(x) /\ LifeInv(x) /\ LifeInv(p)
  BY PeerFacts DEF IndInv, Whole
<1> SUFFICES ASSUME Credible(x)'
             PROVE  /\ Covered(net'[p], "Confirm", Applied(x)', confirmed'[p].lo)
                    /\ SliceCovered(sendConfirm'[p], confirmed'[p].hi, reading'[p].lo)
  BY DEF AckWhole
<1>2. /\ Credible(x) /\ ~closed'[x] /\ ~closed'[p] /\ x \notin overflow' /\ keys[x]
      /\ ~closed[x] /\ ~Down(p) /\ ~Down(x)
  BY <1>1, Over DEF Credible, Down, LifeInv
<1>3. /\ Covered(s, "Confirm", a, c.lo) /\ SliceCovered(q, c.hi, r.lo)
      /\ Chain(s, "Confirm", a, c.lo) /\ SliceChain(q, c.hi, r.lo)
  BY <1>1, <1>2 DEF Whole, AckWhole, AckInv
<1>4. /\ s \in Seq(Frame) /\ q \in Seq(Slice) /\ a \in Int
      /\ c.lo \in Nat /\ c.hi \in Nat /\ c.lo <= c.hi
      /\ r \in Slice /\ r.lo \in Nat /\ r.hi \in Nat
  BY <1>1, Typed DEF AckInv
<1>5. ~ReaderOverflow(x) /\ ~ReaderConfirmDown(x) /\ ~ReaderConfirmUnknown(x)
  BY <1>2 DEF ReaderOverflow, ReaderConfirmDown, ReaderConfirmUnknown, ToSendClose
<1>6. CASE TakeConfirm(p) \/ GatherConfirm(p)
  <2> DEFINE f == Head(q)
  <2>1. q # << >> /\ sendConfirm'[p] = Tail(q) /\ UNCHANGED <<net, reading>>
    BY <1>1, <1>6 DEF TakeConfirm, GatherConfirm, TypeOK, readVars
  <2>2. Applied(x)' = a
    BY <1>6 DEF TakeConfirm, GatherConfirm, Applied, serveVars
  <2>3. confirmed'[p] = (IF pcConfirm[p] = "wait" THEN f ELSE Add(c, f))
    BY <1>1, <1>6 DEF TakeConfirm, GatherConfirm, TypeOK
  <2>4. pcConfirm[p] = "wait" => c.lo = c.hi
    BY <1>1 DEF LifeInv
  <2> HIDE DEF s, q, c, a, r
  <2>5. f.lo = c.hi /\ SliceCovered(Tail(q), f.hi, r.lo)
    BY <1>3, <1>4, <2>1, SliceCoveredTail
  <2>6. confirmed'[p].lo = c.lo /\ confirmed'[p].hi = f.hi
    BY <1>4, <2>3, <2>4, <2>5 DEF Add, Interval, Size
  <2> QED
    BY <1>3, <2>1, <2>2, <2>5, <2>6 DEF s, r
<1>7. CASE SendConfirm(p)
  <2> DEFINE ok == Least(Size(c), MaxUint16)
             f == ConfirmFrame(c.lo, c.lo + ok)
  <2>1. ok \in Nat
    BY <1>4, FrameAssumption DEF Least, Size
  <2>2. f \in Frame /\ f.cmd = "Confirm" /\ f.lo = c.lo /\ f.hi = c.lo + ok
    BY <1>4, <2>1, FrameFacts DEF ConfirmFrame
  <2>3. /\ net'[p] = Append(s, f) /\ UNCHANGED <<reading, sendConfirm>>
        /\ confirmed'[p].lo = c.lo + ok /\ confirmed'[p].hi = c.hi
    BY <1>1, <1>7 DEF SendConfirm, TypeOK, Interval, readVars, Enqueue
  <2>4. Applied(x)' = a
    BY <1>7 DEF SendConfirm, Applied, serveVars, Enqueue
  <2> HIDE DEF s, c, a, f, ok
  <2>5. Covered(Append(s, f), "Confirm", a, c.lo + ok)
    BY <1>3, <1>4, <2>2, CoveredAppend
  <2> QED
    BY <1>3, <2>3, <2>4, <2>5 DEF q, r
<1>8. CASE ReadConfirm(p)
  <2>1. /\ UNCHANGED <<net, confirmed>> /\ sendConfirm'[p] = Append(q, r)
        /\ reading'[p].lo = r.hi
    BY <1>1, <1>2, <1>8 DEF ReadConfirm, TypeOK, Interval
  <2>2. Applied(x)' = a
    BY <1>8 DEF ReadConfirm, Applied, serveVars
  <2> HIDE DEF q, r
  <2>3. SliceCovered(Append(q, r), c.hi, r.hi)
    BY <1>3, <1>4, SliceCoveredAppend
  <2> QED
    BY <1>3, <2>1, <2>2, <2>3
<1>9. CASE \E n \in 1..Window[p] : Read(p, n)
  <2>1. /\ UNCHANGED <<net, confirmed, sendConfirm>> /\ Size(r) = 0
        /\ reading'[p].lo = pipe[p].lo
    BY <1>1, <1>9 DEF Read, TypeOK, Interval, confirmVars
  <2>2. Applied(x)' = a
    BY <1>9 DEF Read, Applied, serveVars
  <2>3. reading'[p].lo = r.lo
    BY <1>1, <1>4, <2>1 DEF LifeInv, Size
  <2> QED
    BY <1>3, <2>1, <2>2, <2>3
<1>10. UNCHANGED <<confirmed[p], sendConfirm[p], reading[p]>> \/ TakeConfirm(p)
       \/ GatherConfirm(p) \/ SendConfirm(p) \/ ReadConfirm(p) \/ \E n \in 1..Window[p] : Read(p, n)
  <2>1. \/ UNCHANGED <<confirmed, sendConfirm, reading>>
        \/ \E e \in Ends : TakeConfirm(e) \/ GatherConfirm(e) \/ SendConfirm(e) \/ ReadStep(e)
    BY DEF Next, ServeStep, ChooseConfirm, SendWrite, ServeExit, ServeDelete,
           ServeSendClose, ConfirmStep, GatherEnd, ConfirmExit, Write, Close,
           TransportClose, ReaderExit, ReaderStep, ReaderWrite, ReaderConfirm,
           ReaderMerge, ReaderOverflow, ReaderConfirmDown, ReaderConfirmUnknown,
           ReaderClose, readVars, confirmVars, Enqueue, SendClose, ReaderSendClose,
           ToSendClose, Jam, loopVars
  <2>2. ASSUME NEW e \in Ends, e # p,
               TakeConfirm(e) \/ GatherConfirm(e) \/ SendConfirm(e) \/ ReadStep(e)
        PROVE  UNCHANGED <<confirmed[p], sendConfirm[p], reading[p]>>
    BY <1>1, <2>2 DEF TakeConfirm, GatherConfirm, SendConfirm, ReadStep, Read,
                      ReadConfirm, TypeOK, readVars, confirmVars, Enqueue
  <2> QED
    BY <1>1, <2>1, <2>2 DEF ReadStep
<1>11. CASE ReaderConfirm(x) \/ ReaderMerge(x)
  <2> DEFINE f == Head(s)
  <2>1. /\ s # << >> /\ f.cmd = "Confirm" /\ f.lo \in Nat /\ f.hi \in Nat
        /\ a <= f.lo /\ f.lo <= f.hi /\ Size(f) \in Nat
    BY <1>1, <1>11, HeadConfirm DEF ReaderConfirm, ReaderMerge
  <2>2. /\ UNCHANGED <<confirmed, sendConfirm, reading>> /\ net'[p] = Tail(s)
    BY <1>1, <1>11 DEF ReaderConfirm, ReaderMerge, Dequeue, TypeOK, readVars,
                       confirmVars
  <2>3. b'[x] = b[x] /\ writed'[x] = writed[x] /\ confirm'[x] = confirm[x] + Size(f)
    BY <1>1, <1>11, <2>1 DEF ReaderConfirm, ReaderMerge, MergedConfirm, TypeOK,
                             serveVars
  <2>4. Applied(x)' = a + (f.hi - f.lo)
    <3>1. b[x].lo \in Nat /\ writed[x] \in Nat /\ confirm[x] \in Nat
      BY <1>1, Typed
    <3> HIDE DEF f
    <3> QED
      BY <2>1, <2>3, <3>1 DEF Applied, Size
  <2>5. f.lo = a
    <3>1. 1 \in 1..Len(s) /\ s[1] = f /\ \A j \in 1..(1 - 1) : s[j].cmd # "Confirm"
      BY <1>4, <2>1, QueuedFrame
    <3> HIDE DEF s, a, c
    <3>2. s[1].lo = a
      BY <1>3, <1>4, <2>1, <3>1, CoveredFirst
    <3> QED
      BY <3>1, <3>2
  <2>6. Applied(x)' = f.hi /\ a <= f.hi
    BY <1>4, <2>1, <2>4, <2>5
  <2> HIDE DEF s, a, c
  <2>7. Covered(Tail(s), "Confirm", f.hi, c.lo)
    BY <1>3, <1>4, <2>1, <2>6, CoveredTail
  <2> QED
    BY <1>3, <2>2, <2>6, <2>7 DEF c, q, r
<1>12. CASE ReaderWrite(x)
  <2> DEFINE f == Head(s)
             n == Least(Size(f), RecvBuf)
             cut == [s EXCEPT ![1] = WriteFrame(f.lo + n, f.hi)]
  <2>1. s # << >> /\ f.cmd = "Write" /\ f.lo \in Nat /\ f.hi \in Nat /\ f.lo <= f.hi
    BY <1>1, <1>12, HeadWrite, PeerFacts DEF ReaderWrite, IndInv
  <2>2. n \in Nat
    BY <2>1, FrameAssumption DEF Least, Size
  <2>3. /\ net'[p] = (IF n = Size(f) THEN Tail(s) ELSE cut)
        /\ UNCHANGED <<confirmed, sendConfirm, reading>>
    BY <1>1, <1>12 DEF ReaderWrite, Dequeue, TypeOK, confirmVars, loopVars
  <2>4. Applied(x)' = a
    BY <1>12 DEF ReaderWrite, Applied, serveVars
  <2>5. IsCut(s, cut, n)
    BY DEF IsCut
  <2> HIDE DEF s, a, n, cut
  <2>6. Covered(cut, "Confirm", a, c.lo)
    BY <1>3, <1>4, <2>1, <2>2, <2>5, CoveredCut
  <2>7. Covered(Tail(s), "Confirm", a, c.lo)
    BY <1>3, <1>4, <2>1, CoveredTail
  <2> QED
    BY <1>3, <2>3, <2>4, <2>6, <2>7
<1>13. CASE /\ UNCHANGED <<confirmed[p], sendConfirm[p], reading[p]>>
            /\ ~SendConfirm(p) /\ ~ReaderConfirm(x) /\ ~ReaderMerge(x) /\ ~ReaderWrite(x)
  <2>1. Applied(x)' = a
    BY <1>2, <1>13, AppliedStays
  <2>2. \/ \E f \in Frame : net'[p] \in {s, Append(s, f)}
        \/ s # << >> /\ net'[p] = Tail(s) /\ Head(s).cmd # "Confirm"
    <3>1. CASE SendWrite(p)
      <4> DEFINE n == SendSize(p)
      <4>1. n \in Nat
        <5>1. writed[p] < remoteWindow(p) /\ b[p].lo < b[p].hi
          BY <1>1, <3>1 DEF SendWrite, IndInv, SenderInv, Enqueue
        <5> QED
          BY <1>1, <5>1, Typed, WindowFacts, FrameAssumption DEF SendSize, Least,
                              Size
      <4>2. net'[p] = Append(s, WriteFrame(b[p].lo, b[p].lo + n))
        BY <1>1, <3>1 DEF SendWrite, TypeOK, Enqueue
      <4> HIDE DEF n
      <4>3. b[p].lo \in Nat /\ b[p].lo + n \in Nat
        BY <1>1, <4>1, Typed
      <4> QED
        BY <4>2, <4>3, FrameFacts
    <3> QED
      BY <1>1, <1>5, <1>13, <3>1, NetMoves, FrameFacts DEF Takes
  <2> DEFINE h == c.lo
  <2>3. Covered(s, "Confirm", a, h) /\ a \in Int /\ h \in Int /\ s \in Seq(Frame)
    BY <1>3, <1>4
  <2> HIDE DEF s, a, h
  <2>4. Covered(net'[p], "Confirm", a, h)
    <3>1. ASSUME NEW f \in Frame, net'[p] \in {s, Append(s, f)}
          PROVE  Covered(net'[p], "Confirm", a, h)
      BY <2>3, <3>1, CoveredAppend
    <3>2. ASSUME s # << >>, net'[p] = Tail(s), Head(s).cmd # "Confirm"
          PROVE  Covered(net'[p], "Confirm", a, h)
      BY <2>3, <3>2, CoveredTail
    <3> QED
      BY <2>2, <3>1, <3>2
  <2> QED
    BY <1>3, <1>13, <2>1, <2>4 DEF h
<1> QED
  BY <1>6, <1>7, <1>8, <1>9, <1>10, <1>11, <1>12, <1>13
LEMMA InitWhole == Init => WholeInv
<1> SUFFICES ASSUME Init PROVE WholeInv
  OBVIOUS
<1>1. ASSUME NEW e \in Ends PROVE Whole(e)
  <2>1. Peer(e) \in Ends
    BY PeerFacts
  <2>2. LifeInv(e)
    BY DEF Init, LifeInv, Interval
  <2>3. DataWhole(e) /\ AckWhole(e)
    BY <2>1 DEF Init, DataWhole, AckWhole, Covered, SliceCovered, Applied, Interval
  <2> QED
    BY <2>2, <2>3 DEF Whole
<1> QED
  BY <1>1, InitIndInv DEF WholeInv

LEMMA WholeStep == WholeInv /\ [Next]_vars => WholeInv'
<1> SUFFICES ASSUME WholeInv, [Next]_vars PROVE WholeInv'
  OBVIOUS
<1>1. IndInv'
  BY IndInvStep DEF WholeInv
<1>2. CASE Next
  <2>1. IndInv /\ TypeOK /\ \A x \in Ends : Whole(x)
    BY DEF WholeInv, IndInv
  <2>2. \A x \in Ends : LifeInv(x)'
    BY <1>2, <2>1, LifeStep DEF Whole
  <2> QED
    BY <1>1, <1>2, <2>1, <2>2, DataWholeStep, AckWholeStep DEF WholeInv, Whole
<1>3. CASE UNCHANGED vars
  <2>1. UNCHANGED <<net, b, writed, pcServe, confirm, pipe, reading, sendConfirm, confirmed,
                    pcConfirm, closed, keys, link, overflow>>
    BY <1>3 DEF vars, serveVars, readVars, confirmVars, lifeVars, loopVars
  <2>2. ASSUME NEW x \in Ends PROVE Whole(x)'
    <3>1. Whole(x)
      BY DEF WholeInv
    <3>2. Applied(x)' = Applied(x) /\ (Credible(x)' => Credible(x))
      BY <2>1 DEF Applied, Credible, Down
    <3> QED
      BY <2>1, <3>1, <3>2 DEF Whole, LifeInv, DataWhole, AckWhole
  <2> QED
    BY <1>1, <2>2 DEF WholeInv
<1> QED
  BY <1>2, <1>3

LEMMA WholeAlways == Safe => []WholeInv
BY InitWhole, WholeStep, PTL DEF Safe

(* No byte is lost, repeated or out of order before an end that is open    *)
(* (channel.go:157-183).                                                   *)
THEOREM ByteOrder == Safe => []InOrder
<1>1. ASSUME WholeInv PROVE InOrder
  <2> SUFFICES ASSUME NEW e \in Ends, NEW i \in DOMAIN net[Peer(e)], ~closed[e],
                      net[Peer(e)][i].cmd = "Write",
                      \A j \in 1..(i - 1) : net[Peer(e)][j].cmd # "Write"
               PROVE  net[Peer(e)][i].lo = pipe[e].hi
    BY DEF InOrder
  <2> DEFINE p == Peer(e)
             s == net[p]
             l == pipe[e].hi
             h == b[p].lo
  <2>1. /\ p \in Ends /\ Peer(p) = e /\ TypeOK /\ DataInv(p) /\ DataWhole(p)
    BY <1>1, PeerFacts DEF WholeInv, IndInv, Whole
  <2>2. /\ s \in Seq(Frame) /\ l \in Int /\ h \in Int
        /\ Covered(s, "Write", l, h) /\ Chain(s, "Write", l, h)
    BY <2>1, Typed DEF DataInv, DataWhole
  <2>3. i \in 1..Len(s) /\ s[i].cmd = "Write" /\ \A j \in 1..(i - 1) : s[j].cmd # "Write"
    BY <2>2
  <2> HIDE DEF s, l, h
  <2>4. s[i].lo = l
    BY <2>2, <2>3, CoveredFirst
  <2> QED
    BY <2>4 DEF s, l
<1> QED
  BY <1>1, WholeAlways, PTL

LEMMA FrameOf ==
  ASSUME TypeOK, NEW e \in Ends, NEW cmd, NEW f
  PROVE  f \in FramesOf(e, cmd) <=>
           \E i \in 1..Len(net[e]) : net[e][i].cmd = cmd /\ f = net[e][i]
<1>1. DOMAIN net[e] = 1..Len(net[e])
  BY Typed
<1> QED
  BY <1>1 DEF FramesOf

(* No credit is lost or made up: between two open ends every byte that     *)
(* counts as outstanding is in one of the places that give it back         *)
(* (channel.go:126-260, 273-323).                                          *)
THEOREM CreditKept == Safe => []CreditConserved
<1>1. ASSUME WholeInv PROVE CreditConserved
  <2> SUFFICES ASSUME NEW e \in Ends, ~Down(e), ~Down(Peer(e)), e \notin overflow
               PROVE  LET p == Peer(e)
                          outstanding == Interval(Applied(e), b[e].lo)
                          places == {pipe[p], reading[p], confirmed[p]}
                                      \cup FramesOf(e, "Write") \cup FramesOf(p, "Confirm")
                                      \cup {sendConfirm[p][i] : i \in DOMAIN sendConfirm[p]}
                      IN  Bytes(outstanding) = UNION {Bytes(s) : s \in places}
    BY DEF CreditConserved
  <2> DEFINE p == Peer(e)
             a == Applied(e)
             h == b[e].lo
             c == confirmed[p]
             q == sendConfirm[p]
             r == reading[p]
             w == pipe[p]
             places == {w, r, c} \cup FramesOf(e, "Write") \cup FramesOf(p, "Confirm")
                         \cup {q[i] : i \in DOMAIN q}
  <2>1. /\ p \in Ends /\ TypeOK /\ AckInv(e) /\ DataInv(e) /\ LifeInv(p)
        /\ DataWhole(e) /\ AckWhole(e) /\ Credible(e) /\ ~closed[p]
    BY <1>1, PeerFacts DEF WholeInv, IndInv, Whole, Credible, Down
  <2>2. /\ net[e] \in Seq(Frame) /\ net[p] \in Seq(Frame) /\ q \in Seq(Slice)
        /\ a \in Int /\ h \in Nat /\ c.lo \in Nat /\ c.hi \in Nat
        /\ r.lo \in Nat /\ r.hi \in Nat /\ w.lo \in Nat /\ w.hi \in Nat
    BY <2>1, Typed
  <2>3. /\ Covered(net[p], "Confirm", a, c.lo) /\ SliceCovered(q, c.hi, r.lo)
        /\ Covered(net[e], "Write", w.hi, h)
        /\ Chain(net[p], "Confirm", a, c.lo) /\ SliceChain(q, c.hi, r.lo)
        /\ Chain(net[e], "Write", w.hi, h)
        /\ a <= c.lo /\ c.lo <= c.hi /\ c.hi <= r.lo /\ r.lo <= r.hi /\ r.hi = w.lo
        /\ w.lo <= w.hi /\ w.hi <= h
    BY <2>1 DEF AckWhole, DataWhole, AckInv, DataInv, LifeInv
  <2>4. /\ \A f : f \in FramesOf(e, "Write") <=>
               \E i \in 1..Len(net[e]) : net[e][i].cmd = "Write" /\ f = net[e][i]
        /\ \A f : f \in FramesOf(p, "Confirm") <=>
               \E i \in 1..Len(net[p]) : net[p][i].cmd = "Confirm" /\ f = net[p][i]
        /\ DOMAIN q = 1..Len(q)
    <3>1. DOMAIN q = 1..Len(q)
      BY <2>2
    <3> HIDE DEF p
    <3> QED
      BY <2>1, <3>1, FrameOf
  <2> HIDE DEF a, h, c, q, r, w, p
  <2> DEFINE Within(s) == s.lo \in Int /\ s.hi \in Int /\ a <= s.lo /\ s.hi <= h
  <2>5. /\ a <= w.hi /\ a <= c.hi /\ c.lo <= h /\ r.lo <= h
        /\ Within(w) /\ Within(r) /\ Within(c)
    BY <2>2, <2>3
  <2>6. ASSUME NEW s \in places
        PROVE  Within(s)
    <3>1. CASE s \in {w, r, c}
      BY <2>5, <3>1
    <3>2. CASE s \in FramesOf(e, "Write")
      <4>1. PICK i \in 1..Len(net[e]) : net[e][i].cmd = "Write" /\ s = net[e][i]
        BY <2>4, <3>2
      <4>2. net[e][i].lo \in Nat /\ net[e][i].hi \in Nat
        BY <2>2, QueuedFrame
      <4>3. w.hi <= net[e][i].lo /\ net[e][i].hi <= h
        BY <2>3, <4>1 DEF Chain
      <4>4. s.lo \in Nat /\ s.hi \in Nat /\ w.hi <= s.lo /\ s.hi <= h
        BY <4>1, <4>2, <4>3
      <4>5. a <= s.lo
        BY <2>2, <2>5, <4>4
      <4> QED
        BY <4>4, <4>5
    <3>3. CASE s \in FramesOf(p, "Confirm")
      <4>1. PICK i \in 1..Len(net[p]) : net[p][i].cmd = "Confirm" /\ s = net[p][i]
        BY <2>4, <3>3
      <4>2. net[p][i].lo \in Nat /\ net[p][i].hi \in Nat
        BY <2>2, QueuedFrame
      <4>3. a <= net[p][i].lo /\ net[p][i].hi <= c.lo
        BY <2>3, <4>1 DEF Chain
      <4> QED
        BY <2>2, <2>5, <4>1, <4>2, <4>3
    <3>4. CASE s \in {q[i] : i \in DOMAIN q}
      <4>1. PICK i \in 1..Len(q) : s = q[i]
        BY <2>4, <3>4
      <4>2. q[i].lo \in Nat /\ q[i].hi \in Nat
        BY <2>2, QueuedSlice
      <4>3. c.hi <= q[i].lo /\ q[i].hi <= r.lo
        BY <2>3 DEF SliceChain
      <4> QED
        BY <2>2, <2>5, <4>1, <4>2, <4>3, SMTT(30)
    <3> QED
      BY <3>1, <3>2, <3>3, <3>4
  <2>7. ASSUME NEW k \in Int, a < k, k <= h
        PROVE  \E s \in places : Holds(s, k)
    <3>1. CASE k <= c.lo
      <4>1. PICK i \in 1..Len(net[p]) : net[p][i].cmd = "Confirm" /\ Holds(net[p][i], k)
        BY <2>3, <2>7, <3>1 DEF Covered
      <4> QED
        BY <2>4, <4>1
    <3>2. CASE c.lo < k /\ k <= c.hi
      BY <3>2 DEF Holds
    <3>3. CASE c.hi < k /\ k <= r.lo
      <4>1. PICK i \in 1..Len(q) : Holds(q[i], k)
        BY <2>3, <3>3 DEF SliceCovered
      <4> QED
        BY <2>4, <4>1
    <3>4. CASE r.lo < k /\ k <= r.hi
      BY <3>4 DEF Holds
    <3>5. CASE w.lo < k /\ k <= w.hi
      BY <3>5 DEF Holds
    <3>6. CASE w.hi < k
      <4>1. PICK i \in 1..Len(net[e]) : net[e][i].cmd = "Write" /\ Holds(net[e][i], k)
        BY <2>3, <2>7, <3>6 DEF Covered
      <4> QED
        BY <2>4, <4>1
    <3> QED
      BY <2>2, <2>3, <3>1, <3>2, <3>3, <3>4, <3>5, <3>6
  <2> HIDE DEF places
  <2>8. Bytes(Interval(a, h)) = UNION {Bytes(s) : s \in places}
    <3>1. ASSUME NEW k \in Bytes(Interval(a, h)) PROVE k \in UNION {Bytes(s) : s \in places}
      <4>1. k \in Int /\ a < k /\ k <= h
        BY <2>2, <3>1 DEF Bytes, Interval
      <4>2. PICK s \in places : Holds(s, k)
        BY <2>7, <4>1
      <4>3. k \in Bytes(s)
        BY <2>6, <4>1, <4>2 DEF Bytes, Holds
      <4> QED
        BY <4>3
    <3>2. ASSUME NEW s \in places, NEW k \in Bytes(s) PROVE k \in Bytes(Interval(a, h))
      <4>1. k \in Int /\ s.lo < k /\ k <= s.hi
        BY <2>6, <3>2 DEF Bytes
      <4>2. a < k /\ k <= h
        BY <2>2, <2>6, <4>1
      <4> QED
        BY <2>2, <4>1, <4>2 DEF Bytes, Interval
    <3> QED
      BY <3>1, <3>2
  <2> QED
    BY <2>8 DEF places, a, h, c, q, r, w, p
<1> QED
  BY <1>1, WholeAlways, PTL
=============================================================================
