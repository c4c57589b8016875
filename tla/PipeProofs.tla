------------------------------ MODULE PipeProofs ------------------------------
(* Proofs about PipeReader and Pipe, for any number of goroutines, any ring *)
(* and slices of any length.                                                *)
EXTENDS Pipe, FiniteSetTheorems, TLAPS

(* The goroutines that wait counts.                                         *)
Waiting == {p \in Readers : pc[p] \in {"parked", "woken"}}

LEMMA WaitingFinite == IsFiniteSet(Waiting) /\ Cardinality(Waiting) \in Nat
<1>1. Waiting \subseteq Readers
  BY DEF Waiting
<1> QED
  BY <1>1, ProcAssumption, FS_Subset, FS_CardinalityType

(* If wait is zero nobody is on the notify list.                            *)
LEMMA WaitNotZero ==
  ASSUME WaitInv, waitset # {} PROVE wait # 0
<1>1. Waiting # {}
  BY DEF WaitInv, Waiting
<1>2. Cardinality(Waiting) # 0
  BY <1>1, WaitingFinite, FS_EmptySet
<1> QED
  BY <1>2 DEF WaitInv, WaitCounts, Waiting

LEMMA InitPipeInv == Init => PipeInv
<1> SUFFICES ASSUME Init PROVE PipeInv
  OBVIOUS
<1>1. TypeOK
  <2>1. size \in 0..Cap
    BY CapAssumption DEF Init
  <2>2. pc \in [Procs -> Labels]
    BY DEF Init, Labels
  <2>3. wait \in Int
    BY DEF Init
  <2> QED
    BY <2>1, <2>2, <2>3 DEF Init, TypeOK
<1>2. LabelInv /\ MutexInv /\ ParkInv /\ NoLostWakeup /\ EOFIsFinal /\ EOFInv
  BY DEF Init, LabelInv, MutexInv, ParkInv, NoLostWakeup, EOFIsFinal, EOFInv, Inside, Procs
<1>3. Waiting = {}
  BY DEF Init, Waiting, Procs
<1>4. WaitInv
  BY <1>3, FS_EmptySet DEF Init, WaitInv, WaitCounts, Waiting, Procs
<1> QED
  BY <1>1, <1>2, <1>4 DEF PipeInv

(* A step that changes only pc at one goroutine, not to or from the labels  *)
(* of a waiting one, keeps the notify list and its count.                   *)
LEMMA WaitSame ==
  ASSUME WaitInv, NEW p \in Procs, NEW l, pc \in [Procs -> Labels],
         pc' = [pc EXCEPT ![p] = l],
         pc[p] \notin {"parked", "woken"}, l \notin {"parked", "woken"},
         UNCHANGED <<waitset, wait>>
  PROVE  WaitInv'
<1>1. \A q \in Readers : /\ pc'[q] = "parked" <=> pc[q] = "parked"
                         /\ pc'[q] = "woken" <=> pc[q] = "woken"
  BY DEF Procs
<1>2. {q \in Readers : pc'[q] = "parked"} = {q \in Readers : pc[q] = "parked"}
  BY <1>1
<1>3. Waiting' = Waiting
  BY <1>1 DEF Waiting
<1> QED
  BY <1>2, <1>3 DEF WaitInv, WaitCounts, Waiting

LEMMA WaitWakeup ==
  ASSUME WaitInv, NEW p \in Procs, NEW l, pc \in [Procs -> Labels],
         Wakeup(p, l), pc[p] \notin {"parked", "woken"}, l \notin {"parked", "woken"},
         UNCHANGED wait
  PROVE  WaitInv' /\ waitset' = {}
<1>1. waitset' = {}
  BY WaitNotZero DEF Wakeup
<1>2. \A q \in Readers : pc'[q] # "parked"
  BY WaitNotZero DEF Wakeup, WaitInv, Procs
<1>3. Waiting' = Waiting
  BY WaitNotZero DEF Wakeup, WaitInv, Waiting, Procs
<1> QED
  BY <1>1, <1>2, <1>3 DEF WaitInv, WaitCounts, Waiting

-----------------------------------------------------------------------------
(* The invariant without the notify list.                                   *)
MainInv ==
  TypeOK /\ LabelInv /\ MutexInv /\ ParkInv /\ NoLostWakeup /\ EOFIsFinal /\ EOFInv

LEMMA ReadStep ==
  ASSUME PipeInv, NEW p \in Readers, ReadLock(p) \/ ReadRun(p) \/ ReadWake(p)
  PROVE  PipeInv'
<1> USE DEF PipeInv
<1>0. p \in Procs /\ pc \in [Procs -> Labels] /\ p \notin Writers /\ p \notin Closers
  BY ProcAssumption DEF TypeOK, Procs
<1>1. CASE ReadLock(p)
  <2>1. MainInv'
    BY <1>0, <1>1 DEF ReadLock, Lock, MainInv, TypeOK, Labels, LabelInv, MutexInv, Inside,
         ParkInv, NoLostWakeup, EOFIsFinal, EOFInv, Procs
  <2>2. WaitInv'
    BY <1>0, <1>1, WaitSame DEF ReadLock, Lock
  <2> QED
    BY <2>1, <2>2 DEF MainInv
<1>2. ASSUME NEW n \in 1..Cap, ReadData(p, n) PROVE PipeInv'
  <2>1. size' \in 0..Cap
    BY <1>2, CapAssumption DEF ReadData, TypeOK
  <2>2. waitset = {}
    BY <1>2 DEF ReadData, NoLostWakeup
  <2>3. MainInv'
    BY <1>0, <1>2, <2>1, <2>2 DEF ReadData, Return, MainInv, TypeOK, Labels, LabelInv, MutexInv, Inside,
         ParkInv, NoLostWakeup, EOFIsFinal, EOFInv, Procs
  <2>4. WaitInv'
    BY <1>0, <1>2, WaitSame DEF ReadData, Return
  <2> QED
    BY <2>3, <2>4 DEF MainInv
<1>3. CASE ReadEOF(p)
  <2>1. MainInv'
    BY <1>0, <1>3 DEF ReadEOF, Return, MainInv, TypeOK, Labels, LabelInv, MutexInv, Inside,
         ParkInv, NoLostWakeup, EOFIsFinal, EOFInv, Procs
  <2>2. WaitInv'
    BY <1>0, <1>3, WaitSame DEF ReadEOF, Return
  <2> QED
    BY <2>1, <2>2 DEF MainInv
<1>4. CASE ReadOpen(p)
  <2>1. MainInv'
    BY <1>0, <1>4 DEF ReadOpen, MainInv, TypeOK, Labels, LabelInv, MutexInv, Inside,
         ParkInv, NoLostWakeup, EOFIsFinal, EOFInv, Procs
  <2>2. WaitInv'
    BY <1>0, <1>4, WaitSame DEF ReadOpen
  <2> QED
    BY <2>1, <2>2 DEF MainInv
<1>5. CASE ReadWait(p)
  <2>1. MainInv'
    BY <1>0, <1>5 DEF ReadWait, MainInv, TypeOK, Labels, LabelInv, MutexInv, Inside,
         ParkInv, NoLostWakeup, EOFIsFinal, EOFInv, Procs
  <2>2. Waiting' = Waiting \cup {p} /\ p \notin Waiting
    BY <1>0, <1>5 DEF ReadWait, Waiting, Procs
  <2>3. Cardinality(Waiting') = Cardinality(Waiting) + 1
    BY <2>2, WaitingFinite, FS_AddElement
  <2>4. waitset' = {q \in Readers : pc'[q] = "parked"}
    BY <1>0, <1>5 DEF ReadWait, WaitInv, Procs
  <2>5. WaitInv'
    BY <1>5, <2>3, <2>4 DEF ReadWait, WaitInv, WaitCounts, Waiting
  <2> QED
    BY <2>1, <2>5 DEF MainInv
<1>6. CASE ReadWake(p)
  <2>1. MainInv'
    BY <1>0, <1>6 DEF ReadWake, Lock, MainInv, TypeOK, Labels, LabelInv, MutexInv, Inside,
         ParkInv, NoLostWakeup, EOFIsFinal, EOFInv, Procs
  <2>2. Waiting' = Waiting \ {p} /\ p \in Waiting
    BY <1>0, <1>6 DEF ReadWake, Lock, Waiting, Procs
  <2>3. Cardinality(Waiting') = Cardinality(Waiting) - 1
    BY <2>2, WaitingFinite, FS_RemoveElement
  <2>4. waitset' = {q \in Readers : pc'[q] = "parked"}
    BY <1>0, <1>6 DEF ReadWake, Lock, WaitInv, Procs
  <2>5. WaitInv'
    BY <1>6, <2>3, <2>4 DEF ReadWake, WaitInv, WaitCounts, Waiting
  <2> QED
    BY <2>1, <2>5 DEF MainInv
<1> QED
  BY <1>1, <1>2, <1>3, <1>4, <1>5, <1>6 DEF ReadRun

LEMMA WriteStep ==
  ASSUME PipeInv, NEW p \in Writers, WriteLock(p) \/ WriteRun(p)
  PROVE  PipeInv'
<1> USE DEF PipeInv
<1>0. p \in Procs /\ pc \in [Procs -> Labels] /\ p \notin Readers /\ p \notin Closers
  BY ProcAssumption DEF TypeOK, Procs
<1>1. CASE WriteLock(p)
  <2>1. MainInv'
    BY <1>0, <1>1 DEF WriteLock, Lock, MainInv, TypeOK, Labels, LabelInv, MutexInv, Inside,
         ParkInv, NoLostWakeup, EOFIsFinal, EOFInv, Procs
  <2>2. WaitInv'
    BY <1>0, <1>1, WaitSame DEF WriteLock, Lock
  <2> QED
    BY <2>1, <2>2 DEF MainInv
<1>2. CASE WriteClosed(p)
  <2>1. MainInv'
    BY <1>0, <1>2 DEF WriteClosed, Return, MainInv, TypeOK, Labels, LabelInv, MutexInv, Inside,
         ParkInv, NoLostWakeup, EOFIsFinal, EOFInv, Procs
  <2>2. WaitInv'
    BY <1>0, <1>2, WaitSame DEF WriteClosed, Return
  <2> QED
    BY <2>1, <2>2 DEF MainInv
<1>3. CASE WriteOpen(p)
  <2>1. MainInv'
    BY <1>0, <1>3 DEF WriteOpen, MainInv, TypeOK, Labels, LabelInv, MutexInv, Inside,
         ParkInv, NoLostWakeup, EOFIsFinal, EOFInv, Procs
  <2>2. WaitInv'
    BY <1>0, <1>3, WaitSame DEF WriteOpen
  <2> QED
    BY <2>1, <2>2 DEF MainInv
<1>4. ASSUME NEW n \in 1..Cap + 1, WriteStore(p, n) PROVE PipeInv'
  <2>1. size' \in 0..Cap
    BY <1>4, CapAssumption DEF WriteStore, TypeOK
  <2>2. WaitInv' /\ waitset' = {}
    BY <1>0, <1>4, WaitWakeup DEF WriteStore
  <2>3. /\ pc' \in [Procs -> Labels]
        /\ pc'[p] = "idle"
        /\ \A q \in Procs : q # p =>
             pc'[q] = pc[q] \/ (q \in Readers /\ pc[q] = "parked" /\ pc'[q] = "woken")
    BY <1>0, <1>4 DEF WriteStore, Wakeup, WaitInv, TypeOK, Labels, Procs
  <2>4. held = {p} /\ held' = {} /\ UNCHANGED <<closed, eof>> /\ pc[p] = "store"
    BY <1>0, <1>4 DEF WriteStore, MutexInv, Inside
  <2>5. eof = FALSE
    BY <1>0, <2>4 DEF EOFInv, TypeOK
  <2>6. TypeOK'
    BY <2>1, <2>2, <2>3, <2>4, <1>4 DEF TypeOK, WriteStore
  <2>7. LabelInv'
    BY <1>0, <2>3 DEF LabelInv, Procs
  <2>8. \A q \in Procs : ~Inside(q)'
    BY <1>0, <2>3, <2>4 DEF MutexInv, Inside
  <2>9. MutexInv' /\ ParkInv'
    BY <2>8 DEF MutexInv, ParkInv, Inside
  <2>10. NoLostWakeup' /\ EOFIsFinal' /\ EOFInv'
    BY <2>2, <2>4, <2>5 DEF NoLostWakeup, EOFIsFinal, EOFInv
  <2>11. MainInv'
    BY <2>6, <2>7, <2>9, <2>10 DEF MainInv
  <2> QED
    BY <2>2, <2>11 DEF MainInv
<1>5. ASSUME NEW n \in 1..Cap + 1, WriteOverflow(p, n) PROVE PipeInv'
  <2>1. MainInv'
    BY <1>0, <1>5 DEF WriteOverflow, Return, MainInv, TypeOK, Labels, LabelInv, MutexInv, Inside,
         ParkInv, NoLostWakeup, EOFIsFinal, EOFInv, Procs
  <2>2. WaitInv'
    BY <1>0, <1>5, WaitSame DEF WriteOverflow, Return
  <2> QED
    BY <2>1, <2>2 DEF MainInv
<1> QED
  BY <1>1, <1>2, <1>3, <1>4, <1>5 DEF WriteRun

LEMMA CloseStep ==
  ASSUME PipeInv, NEW p \in Closers, CloseSwap(p) \/ CloseWake(p)
  PROVE  PipeInv'
<1> USE DEF PipeInv
<1>0. p \in Procs /\ pc \in [Procs -> Labels] /\ p \notin Readers /\ p \notin Writers
  BY ProcAssumption DEF TypeOK, Procs
<1>1. CASE CloseSwap(p)
  <2>1. MainInv'
    BY <1>0, <1>1 DEF CloseSwap, MainInv, TypeOK, Labels, LabelInv, MutexInv, Inside,
         ParkInv, NoLostWakeup, EOFIsFinal, EOFInv, Procs
  <2>2. WaitInv'
    BY <1>0, <1>1, WaitSame DEF CloseSwap
  <2> QED
    BY <2>1, <2>2 DEF MainInv
<1>2. CASE CloseWake(p)
  <2>1. WaitInv' /\ waitset' = {}
    BY <1>0, <1>2, WaitWakeup DEF CloseWake
  <2>2. /\ pc' \in [Procs -> Labels]
        /\ pc'[p] = "done"
        /\ \A q \in Procs : q # p =>
             pc'[q] = pc[q] \/ (q \in Readers /\ pc[q] = "parked" /\ pc'[q] = "woken")
    BY <1>0, <1>2 DEF CloseWake, Wakeup, WaitInv, TypeOK, Labels, Procs
  <2>3. held = {} /\ UNCHANGED <<held, wait, closed, size, eof>>
    BY <1>2 DEF CloseWake
  <2>4. \A q \in Procs : pc[q] # "park"
    BY <2>3 DEF MutexInv, Inside
  <2>5. MainInv'
    BY <1>0, <2>1, <2>2, <2>3, <2>4 DEF MainInv, TypeOK, Labels, LabelInv, MutexInv,
         Inside, ParkInv, NoLostWakeup, EOFIsFinal, EOFInv, Procs
  <2> QED
    BY <2>1, <2>5 DEF MainInv
<1> QED
  BY <1>1, <1>2

LEMMA PipeInvStep == PipeInv /\ [Next]_vars => PipeInv'
<1> SUFFICES ASSUME PipeInv, [Next]_vars PROVE PipeInv'
  OBVIOUS
<1>1. CASE UNCHANGED vars
  BY <1>1 DEF vars, PipeInv, TypeOK, Labels, LabelInv, MutexInv, Inside, ParkInv, WaitInv,
       WaitCounts, NoLostWakeup, EOFIsFinal, EOFInv
<1> QED
  BY <1>1, ReadStep, WriteStep, CloseStep DEF Next

(* For any number of goroutines: no wake-up is lost, wait counts the        *)
(* goroutines in cond.Wait, io.EOF is final.                                *)
THEOREM PipeInvariance == Safe => []PipeInv
<1>1. Init => PipeInv
  BY InitPipeInv
<1>2. PipeInv /\ [Next]_vars => PipeInv'
  BY PipeInvStep
<1> QED
  BY <1>1, <1>2, PTL DEF Safe

(* No Read sleeps beside data or a finished Close (pipe_reader.go:32, 52).  *)
THEOREM NeverLostWakeup == Safe => []NoLostWakeup
<1>1. PipeInv => NoLostWakeup
  BY DEF PipeInv
<1> QED
  BY <1>1, PipeInvariance, PTL

(* Nothing is stored after an io.EOF (pipe_reader.go:42, 71-75).            *)
THEOREM EOFFinality == Safe => []EOFIsFinal
<1>1. PipeInv => EOFIsFinal
  BY DEF PipeInv
<1> QED
  BY <1>1, PipeInvariance, PTL

-----------------------------------------------------------------------------
(* Pipe: the ring in the place of its size.                                 *)

LEMMA SliceIsSeq ==
  ASSUME NEW s \in Ring!Slices PROVE s \in Seq(Byte)
BY RingAssumption DEF Ring!Slices

(* A slice that is stored fits, one that does not fit is as good as one     *)
(* byte too long.                                                           *)
LEMMA PipeStep == PipeInv /\ [PNext]_pvars => [Next]_vars
<1> SUFFICES ASSUME PipeInv, [PNext]_pvars PROVE [Next]_vars
  OBVIOUS
<1>1. CASE UNCHANGED pvars
  BY <1>1 DEF pvars
<1>2. size \in Nat /\ size <= Cap /\ Cap \in Nat
  BY CapAssumption DEF PipeInv, TypeOK
<1>3. ASSUME NEW p \in Readers, ReadHeld(p) \/ Alone(ReadLock(p) \/ ReadWake(p))
      PROVE  [Next]_vars
  BY <1>3 DEF ReadHeld, ReadStart, ReadMore, ReadLast, Alone, Next, ReadRun
<1>4. ASSUME NEW p \in Writers, NEW s \in Ring!Slices, Store(p, s) PROVE Next
  <2>1. Len(s) \in Nat /\ Len(s) # 0 /\ WriteStore(p, Len(s))
    BY <1>4, SliceIsSeq DEF Store, Ring!Write
  <2>2. Len(s) \in 1..Cap + 1
    BY <1>2, <2>1 DEF WriteStore
  <2> QED
    BY <2>1, <2>2 DEF Next, WriteRun
<1>5. ASSUME NEW p \in Writers, NEW n \in 1..MaxSlice, WriteOverflow(p, n) PROVE Next
  <2> DEFINE least == IF n <= Cap THEN n ELSE Cap + 1
  <2>1. WriteOverflow(p, least) /\ least \in 1..Cap + 1
    BY <1>2, <1>5, RingAssumption DEF WriteOverflow, least
  <2> QED
    BY <2>1 DEF Next, WriteRun
<1>6. ASSUME NEW p \in Writers, WriteHeld(p) \/ Alone(WriteLock(p)) PROVE Next
  BY <1>4, <1>5, <1>6 DEF WriteHeld, Alone, Next, WriteRun
<1>7. ASSUME NEW p \in Closers, Alone(CloseSwap(p) \/ CloseWake(p)) PROVE Next
  BY <1>7 DEF Alone, Next
<1> QED
  BY <1>1, <1>3, <1>6, <1>7 DEF PNext

-----------------------------------------------------------------------------
(* The ring.  sz is the size that the ring has, without what a Read that is *)
(* not complete has taken.                                                  *)
sz == size - Len(got)

(* Between calls nothing is half read; a Read that goes on finds something. *)
RingInv ==
  /\ PipeInv /\ Ring!TypeOK
  /\ IF want = 0 THEN got = << >> ELSE size > Len(got)

(* An index that has passed the end of the ring once.                       *)
Wrap(x) == IF x < Cap THEN x ELSE x - Cap

LEMMA ModWrap ==
  ASSUME NEW x \in Nat, x < 2 * Cap
  PROVE  x % Cap = Wrap(x) /\ Wrap(x) \in 0..(Cap - 1)
<1>1. CASE x < Cap
  BY <1>1, CapAssumption DEF Wrap
<1>2. CASE x >= Cap
  <2>1. x - Cap \in 0..(Cap - 1)
    BY <1>2, CapAssumption
  <2>2. (x - Cap) % Cap = x - Cap
    BY <2>1, CapAssumption
  <2>3. x % Cap = (x - Cap) % Cap
    BY <1>2, CapAssumption
  <2> QED
    BY <1>2, <2>1, <2>2, <2>3, CapAssumption DEF Wrap
<1> QED
  BY <1>1, <1>2, CapAssumption

LEMMA RingTypes ==
  ASSUME RingInv
  PROVE  /\ Cap \in Nat \ {0} /\ sz \in 0..Cap /\ size \in 0..Cap
         /\ buffer \in [0..(Cap - 1) -> Byte] /\ offset \in 0..(Cap - 1)
         /\ got \in Seq(Byte) /\ Len(got) \in Nat /\ result \in Seq(Byte)
         /\ want \in Nat
BY CapAssumption, RingAssumption DEF RingInv, PipeInv, TypeOK, Ring!TypeOK, sz

(* What a ring holds, read around its end.                                  *)
Held(buf, o, z) == [i \in 1..z |-> buf[(o + i - 1) % Cap]]

LEMMA HeldIs ==
  ASSUME NEW buf \in [0..(Cap - 1) -> Byte], NEW o \in 0..(Cap - 1), NEW z \in 0..Cap
  PROVE  /\ Held(buf, o, z) \in Seq(Byte) /\ Len(Held(buf, o, z)) = z
         /\ \A i \in 1..z : Held(buf, o, z)[i] = buf[Wrap(o + i - 1)]
<1>1. Cap \in Nat /\ o \in Nat /\ o < Cap /\ z \in Nat /\ z <= Cap
  BY CapAssumption
<1>2. ASSUME NEW i \in 1..z
      PROVE  /\ (o + i - 1) % Cap = Wrap(o + i - 1)
             /\ Wrap(o + i - 1) \in 0..(Cap - 1)
  <2>1. o + i - 1 \in Nat /\ o + i - 1 < 2 * Cap
    BY <1>1
  <2> QED
    BY <2>1, ModWrap
<1>3. Held(buf, o, z) = [i \in 1..z |-> buf[Wrap(o + i - 1)]]
  BY <1>2 DEF Held
<1>4. \A i \in 1..z : buf[Wrap(o + i - 1)] \in Byte
  BY <1>2
<1> QED
  BY <1>1, <1>3, <1>4

LEMMA ContentsAre ==
  ASSUME RingInv
  PROVE  /\ Ring!Contents \in Seq(Byte) /\ Len(Ring!Contents) = sz
         /\ \A i \in 1..sz : Ring!Contents[i] = buffer[Wrap(offset + i - 1)]
<1>1. Ring!Contents = Held(buffer, offset, sz)
  BY DEF Ring!Contents, sz, Held
<1> QED
  BY <1>1, RingTypes, HeldIs

LEMMA NextContentsAre ==
  ASSUME buffer' \in [0..(Cap - 1) -> Byte], offset' \in 0..(Cap - 1), sz' \in 0..Cap
  PROVE  /\ Ring!Contents' \in Seq(Byte) /\ Len(Ring!Contents') = sz'
         /\ \A i \in 1..sz' : Ring!Contents'[i] = buffer'[Wrap(offset' + i - 1)]
<1>1. Ring!Contents' = Held(buffer', offset', sz')
  BY DEF Ring!Contents, sz, Held
<1> QED
  BY <1>1, HeldIs

(* One part of a copy into the ring.                                        *)
Part(buf, at, s, skip) ==
  [i \in 0..(Cap - 1) |->
     IF at <= i /\ skip + i - at < Len(s) THEN s[skip + i - at + 1] ELSE buf[i]]

LEMMA CopiedIs ==
  ASSUME NEW buf \in [0..(Cap - 1) -> Byte], NEW at \in 0..(Cap - 1), NEW s \in Seq(Byte),
         NEW skip \in 0..Len(s)
  PROVE  /\ Ring!Copied(buf, at, s, skip) = Part(buf, at, s, skip)
         /\ Ring!Copied(buf, at, s, skip) \in [0..(Cap - 1) -> Byte]
<1>1. Len(s) \in Nat /\ Cap \in Nat
  BY CapAssumption
<1>2. Ring!Copied(buf, at, s, skip) = Part(buf, at, s, skip)
  BY <1>1 DEF Ring!Copied, Ring!Least, Part
<1>3. ASSUME NEW i \in 0..(Cap - 1), at <= i, skip + i - at < Len(s)
      PROVE  s[skip + i - at + 1] \in Byte
  <2>1. skip + i - at + 1 \in 1..Len(s)
    BY <1>1, <1>3
  <2> QED
    BY <2>1
<1> QED
  BY <1>2, <1>3 DEF Part

(* What Write puts behind the contents, in one part or two.                 *)
LEMMA WriteAppends ==
  ASSUME RingInv, NEW s \in Seq(Byte), Ring!Write(s)
  PROVE  /\ want = 0 /\ UNCHANGED <<offset, want, got, result>>
         /\ Len(s) \in Nat \ {0}
         /\ sz' = sz + Len(s) /\ sz' <= Cap
         /\ buffer' \in [0..(Cap - 1) -> Byte]
         /\ \A i \in 1..sz : buffer'[Wrap(offset + i - 1)] = buffer[Wrap(offset + i - 1)]
         /\ \A i \in 1..Len(s) : buffer'[Wrap(offset + sz + i - 1)] = s[i]
<1> DEFINE at == (offset + sz) % Cap
           n1 == Ring!Least(Cap - at, Len(s))
           first == Ring!Copied(buffer, at, s, 0)
<1>1. /\ want = 0 /\ UNCHANGED <<offset, want, got, result>>
      /\ Len(s) # 0 /\ Cap - sz >= Len(s)
      /\ buffer' = Ring!Copied(first, 0, s, n1)
      /\ sz' = sz + n1 + Ring!Least(Cap, Len(s) - n1)
  BY DEF Ring!Write, sz
<1>2. Len(s) \in Nat
  OBVIOUS
<1>3. offset + sz \in Nat /\ offset + sz < 2 * Cap
  BY RingTypes
<1>4. at = Wrap(offset + sz) /\ at \in 0..(Cap - 1)
  BY <1>3, ModWrap
<1> HIDE DEF at
<1>5. n1 = (IF Cap - at <= Len(s) THEN Cap - at ELSE Len(s)) /\ n1 \in 0..Len(s)
  BY <1>2, <1>4, RingTypes DEF Ring!Least
<1> HIDE DEF n1
<1>6. /\ n1 \in Nat /\ n1 <= Len(s) /\ n1 <= Cap - at
      /\ n1 = Len(s) \/ n1 = Cap - at
      /\ Cap \in Nat /\ offset \in Nat /\ offset < Cap /\ sz \in Nat
      /\ sz + Len(s) <= Cap /\ at \in Nat /\ at < Cap
  <2>1. Cap \in Nat /\ offset \in Nat /\ offset < Cap /\ sz \in Nat /\ at \in Nat /\ at < Cap
    BY <1>4, RingTypes
  <2>2. sz + Len(s) <= Cap
    BY <1>1, <1>2, <2>1
  <2>3. Cap - at \in Nat
    BY <2>1
  <2>4. CASE Cap - at <= Len(s)
    BY <1>2, <1>5, <2>1, <2>2, <2>3, <2>4
  <2>5. CASE ~(Cap - at <= Len(s))
    BY <1>2, <1>5, <2>1, <2>2, <2>3, <2>5
  <2> QED
    BY <2>4, <2>5
<1>7. sz' = sz + Len(s)
  <2>1. Len(s) - n1 \in Nat /\ Len(s) - n1 <= Cap
    BY <1>2, <1>5, <1>6
  <2>2. Ring!Least(Cap, Len(s) - n1) = Len(s) - n1
    BY <1>6, <2>1 DEF Ring!Least
  <2>3. sz' = sz + n1 + (Len(s) - n1)
    BY <1>1, <2>2
  <2> QED
    BY <1>2, <1>6, <2>3
<1>8. /\ buffer \in [0..(Cap - 1) -> Byte] /\ 0 \in 0..Len(s) /\ 0 \in 0..(Cap - 1)
  BY <1>2, <1>6, RingTypes
<1>9. first = Part(buffer, at, s, 0) /\ first \in [0..(Cap - 1) -> Byte]
  BY <1>4, <1>8, CopiedIs
<1> HIDE DEF first
<1>10. buffer' = Part(first, 0, s, n1) /\ buffer' \in [0..(Cap - 1) -> Byte]
  BY <1>1, <1>5, <1>8, <1>9, CopiedIs
<1>11. ASSUME NEW j \in 0..(Cap - 1)
       PROVE  buffer'[j] = IF n1 + j < Len(s) THEN s[n1 + j + 1]
                           ELSE IF at <= j /\ j - at < Len(s) THEN s[j - at + 1]
                           ELSE buffer[j]
  BY <1>2, <1>5, <1>6, <1>9, <1>10 DEF Part
<1>12. ASSUME NEW i \in 1..sz
       PROVE  buffer'[Wrap(offset + i - 1)] = buffer[Wrap(offset + i - 1)]
  <2> DEFINE j == Wrap(offset + i - 1)
  <2>1. j \in 0..(Cap - 1)
    BY <1>6 DEF Wrap
  <2>2. ~(n1 + j < Len(s)) /\ ~(at <= j /\ j - at < Len(s))
    BY <1>2, <1>4, <1>6 DEF Wrap
  <2> QED
    BY <1>11, <2>1, <2>2
<1>13. ASSUME NEW i \in 1..Len(s)
       PROVE  buffer'[Wrap(offset + sz + i - 1)] = s[i]
  <2> DEFINE j == Wrap(offset + sz + i - 1)
  <2>1. j \in 0..(Cap - 1)
    BY <1>2, <1>6 DEF Wrap
  <2>2. CASE i <= n1
    <3>1. j = at + i - 1 /\ ~(n1 + j < Len(s)) /\ at <= j /\ j - at < Len(s) /\ j - at + 1 = i
      BY <1>2, <1>4, <1>6, <2>2 DEF Wrap
    <3> QED
      BY <1>11, <2>1, <3>1
  <2>3. CASE i > n1
    <3>1. n1 + j < Len(s) /\ n1 + j + 1 = i
      BY <1>2, <1>4, <1>6, <2>3 DEF Wrap
    <3> QED
      BY <1>11, <2>1, <3>1
  <2> QED
    BY <1>2, <1>5, <2>2, <2>3
<1> QED
  BY <1>1, <1>2, <1>6, <1>7, <1>10, <1>12, <1>13

(* What one turn of Read takes: the oldest bytes, up to the end of the ring.*)
LEMMA TurnTakes ==
  ASSUME RingInv, Ring!ReadTurn
  PROVE  \E n \in 1..sz, more \in Seq(Byte) :
           /\ n <= want /\ want # 0
           /\ Len(more) = Len(got) + n
           /\ \A i \in 1..Len(got) : more[i] = got[i]
           /\ \A i \in 1..n : more[Len(got) + i] = Ring!Contents[i]
           /\ IF want = n \/ sz = n
                THEN want' = 0 /\ got' = << >> /\ result' = more
                ELSE want' = want - n /\ got' = more /\ result' = result
           /\ offset' = Wrap(offset + n) /\ offset' \in 0..(Cap - 1)
           /\ sz' = sz - n /\ UNCHANGED buffer
           /\ \A i \in 1..(sz - n) : Ring!Contents'[i] = Ring!Contents[n + i]
<1> DEFINE end == Ring!Least(offset + sz, Cap)
           n == Ring!Least(want, end - offset)
           turn == [i \in 1..n |-> buffer[offset + i - 1]]
           more == got \o turn
<1>1. /\ want # 0
      /\ want' = IF want - n = 0 \/ sz - n = 0 THEN 0 ELSE want - n
      /\ got' = IF want - n = 0 \/ sz - n = 0 THEN << >> ELSE more
      /\ result' = IF want - n = 0 \/ sz - n = 0 THEN more ELSE result
      /\ offset' = (offset + n) % Cap
      /\ sz' = sz - n
      /\ UNCHANGED buffer
  BY DEF Ring!ReadTurn, sz
<1>2. /\ Cap \in Nat /\ offset \in Nat /\ offset < Cap /\ sz \in Nat /\ sz <= Cap
      /\ want \in Nat /\ want # 0 /\ sz # 0
  BY <1>1, RingTypes DEF RingInv, sz
<1>3. n \in Nat /\ 1 <= n /\ n <= sz /\ n <= want /\ offset + n <= Cap
  BY <1>2 DEF Ring!Least
<1> HIDE DEF n
<1>4. turn \in Seq(Byte) /\ Len(turn) = n /\ \A i \in 1..n : turn[i] = buffer[offset + i - 1]
  <2>1. \A i \in 1..n : buffer[offset + i - 1] \in Byte
    BY <1>2, <1>3, RingTypes
  <2> QED
    BY <1>3, <2>1
<1> HIDE DEF turn
<1>5. got \in Seq(Byte) /\ Len(got) \in Nat
  BY RingTypes
<1>6. /\ more \in Seq(Byte) /\ Len(more) = Len(got) + n
      /\ \A i \in 1..Len(got) : more[i] = got[i]
      /\ \A i \in 1..n : more[Len(got) + i] = turn[i]
  BY <1>3, <1>4, <1>5
<1> HIDE DEF more
<1>7. ASSUME NEW i \in 1..n PROVE turn[i] = Ring!Contents[i]
  <2>1. i \in 1..sz /\ Wrap(offset + i - 1) = offset + i - 1
    BY <1>2, <1>3 DEF Wrap
  <2> QED
    BY <1>4, <2>1, ContentsAre
<1>8. offset' = Wrap(offset + n) /\ offset' \in 0..(Cap - 1)
  <2>1. offset + n \in Nat /\ offset + n < 2 * Cap
    BY <1>2, <1>3
  <2> QED
    BY <1>1, <2>1, ModWrap
<1>9. ASSUME NEW i \in 1..(sz - n) PROVE Ring!Contents'[i] = Ring!Contents[n + i]
  <2>1. buffer' \in [0..(Cap - 1) -> Byte] /\ sz' \in 0..Cap /\ i \in 1..sz'
    BY <1>1, <1>2, <1>3, RingTypes
  <2>2. Ring!Contents'[i] = buffer[Wrap(offset' + i - 1)]
    BY <1>1, <1>8, <2>1, NextContentsAre
  <2>3. n + i \in 1..sz /\ Wrap(offset' + i - 1) = Wrap(offset + (n + i) - 1)
    BY <1>2, <1>3, <1>8 DEF Wrap
  <2> QED
    BY <2>2, <2>3, ContentsAre
<1>10. /\ n \in 1..sz
       /\ (want - n = 0 \/ sz - n = 0) <=> (want = n \/ sz = n)
       /\ \A i \in 1..n : more[Len(got) + i] = Ring!Contents[i]
  BY <1>2, <1>3, <1>6, <1>7
<1> QED
  BY <1>1, <1>3, <1>6, <1>8, <1>9, <1>10

-----------------------------------------------------------------------------
(* Steps of the ring.                                                       *)

(* The queue that the ring is, between calls and in the midst of a Read.    *)
LEMMA QueueIs ==
  ASSUME RingInv
  PROVE  LET queue == got \o Ring!Contents
         IN  /\ queue \in Seq(Byte) /\ Len(queue) = size
             /\ \A i \in 1..Len(got) : queue[i] = got[i]
             /\ \A i \in 1..sz : queue[Len(got) + i] = Ring!Contents[i]
             /\ got = << >> => queue = Ring!Contents
<1> DEFINE queue == got \o Ring!Contents
<1>1. /\ Ring!Contents \in Seq(Byte) /\ Len(Ring!Contents) = sz /\ sz \in Nat
      /\ got \in Seq(Byte) /\ Len(got) \in Nat
  BY RingTypes, ContentsAre
<1>2. queue \in Seq(Byte) /\ Len(queue) = Len(got) + sz
  BY <1>1
<1>3. Len(queue) = size
  BY <1>1, <1>2, RingTypes DEF sz
<1>4. /\ \A i \in 1..Len(got) : queue[i] = got[i]
      /\ \A i \in 1..sz : queue[Len(got) + i] = Ring!Contents[i]
  BY <1>1
<1>5. got = << >> => queue = Ring!Contents
  BY <1>1
<1> QED
  BY <1>2, <1>3, <1>4, <1>5

LEMMA PutStep ==
  ASSUME RingInv, NEW s \in Seq(Byte), Ring!Write(s)
  PROVE  Ring!Queue!QPut
<1>1. /\ UNCHANGED <<offset, got, result>> /\ Len(s) \in Nat \ {0}
      /\ sz' = sz + Len(s) /\ sz' <= Cap
      /\ buffer' \in [0..(Cap - 1) -> Byte] /\ got = << >>
      /\ \A i \in 1..sz : buffer'[Wrap(offset + i - 1)] = buffer[Wrap(offset + i - 1)]
  BY WriteAppends DEF RingInv
<1>2. sz \in 0..Cap /\ sz' \in 0..Cap /\ Cap \in Nat /\ offset' \in 0..(Cap - 1)
  BY <1>1, RingTypes
<1>3. /\ Ring!Contents' \in Seq(Byte) /\ Len(Ring!Contents') = sz'
      /\ \A i \in 1..sz' : Ring!Contents'[i] = buffer'[Wrap(offset' + i - 1)]
  BY <1>1, <1>2, NextContentsAre
<1>4. /\ Ring!Contents \in Seq(Byte) /\ Len(Ring!Contents) = sz
      /\ \A i \in 1..sz : Ring!Contents[i] = buffer[Wrap(offset + i - 1)]
  BY ContentsAre
<1>5. ASSUME NEW i \in 1..sz PROVE Ring!Contents'[i] = Ring!Contents[i]
  <2>1. i \in 1..sz'
    BY <1>1, <1>2
  <2> QED
    BY <1>1, <1>3, <1>4, <2>1
<1>6. SubSeq(Ring!Contents', 1, sz) = Ring!Contents
  BY <1>1, <1>2, <1>3, <1>4, <1>5
<1>7. got \o Ring!Contents = Ring!Contents /\ (got \o Ring!Contents)' = Ring!Contents'
  <2>1. << >> \o Ring!Contents = Ring!Contents /\ << >> \o Ring!Contents' = Ring!Contents'
    BY <1>3, <1>4
  <2>2. got' = << >>
    BY <1>1
  <2> QED
    BY <1>1, <2>1, <2>2
<1> QED
  BY <1>1, <1>2, <1>3, <1>4, <1>6, <1>7 DEF Ring!Queue!QPut, Ring!Queue!Prefix

(* A Read begins: nothing has moved yet.                                    *)
LEMMA StartStep ==
  ASSUME RingInv, NEW k \in 1..MaxSlice, Ring!Read(k)
  PROVE  UNCHANGED <<got \o Ring!Contents, result>>
<1>1. got = << >> /\ got' = << >> /\ UNCHANGED <<buffer, offset, result, sz>>
  BY DEF RingInv, Ring!Read, sz
<1> QED
  BY <1>1 DEF Ring!Contents, sz

LEMMA Joined ==
  ASSUME NEW S, NEW a \in Seq(S), NEW b \in Seq(S)
  PROVE  a \o b \in Seq(S) /\ Len(a \o b) = Len(a) + Len(b)
OBVIOUS

(* A turn after which the loop goes on is not seen; the last one returns    *)
(* the oldest bytes, those of this turn and of the ones before it.          *)
LEMMA TakeStep ==
  ASSUME RingInv, Ring!ReadTurn
  PROVE  IF want' = 0 THEN Ring!Queue!QGet
         ELSE UNCHANGED <<got \o Ring!Contents, result>>
<1> DEFINE queue == got \o Ring!Contents
<1>1. PICK n \in 1..sz, more \in Seq(Byte) :
           /\ n <= want /\ want # 0
           /\ Len(more) = Len(got) + n
           /\ \A i \in 1..Len(got) : more[i] = got[i]
           /\ \A i \in 1..n : more[Len(got) + i] = Ring!Contents[i]
           /\ IF want = n \/ sz = n
                THEN want' = 0 /\ got' = << >> /\ result' = more
                ELSE want' = want - n /\ got' = more /\ result' = result
           /\ offset' = Wrap(offset + n) /\ offset' \in 0..(Cap - 1)
           /\ sz' = sz - n /\ UNCHANGED buffer
           /\ \A i \in 1..(sz - n) : Ring!Contents'[i] = Ring!Contents[n + i]
  BY TurnTakes
<1>2. /\ Cap \in Nat /\ sz \in Nat /\ sz <= Cap /\ n \in Nat /\ 1 <= n /\ n <= sz
      /\ want \in Nat /\ size \in Nat /\ size <= Cap
      /\ Len(got) \in Nat /\ got \in Seq(Byte) /\ sz' \in 0..Cap /\ size = Len(got) + sz
      /\ Len(more) \in Nat /\ sz - n \in Nat
  <2>1. /\ Cap \in Nat /\ sz \in Nat /\ sz <= Cap /\ want \in Nat /\ size \in Nat /\ size <= Cap
        /\ Len(got) \in Nat /\ got \in Seq(Byte)
    BY RingTypes
  <2>2. size = Len(got) + sz
    BY <2>1 DEF sz
  <2>3. n \in Nat /\ 1 <= n /\ n <= sz
    BY <2>1
  <2>4. sz' = sz - n
    BY <1>1
  <2>5. sz' \in 0..Cap /\ sz - n \in Nat
    BY <2>1, <2>3, <2>4
  <2>6. Len(more) \in Nat
    OBVIOUS
  <2> QED
    BY <2>1, <2>2, <2>3, <2>5, <2>6
<1>3. /\ queue \in Seq(Byte) /\ Len(queue) = Len(got) + sz
      /\ \A i \in 1..Len(got) : queue[i] = got[i]
      /\ \A i \in 1..sz : queue[Len(got) + i] = Ring!Contents[i]
  BY <1>2, QueueIs
<1>4. /\ Ring!Contents' \in Seq(Byte) /\ Len(Ring!Contents') = sz - n
      /\ \A i \in 1..(sz - n) : Ring!Contents'[i] = queue[Len(got) + n + i]
  <2>1. Ring!Contents' \in Seq(Byte) /\ Len(Ring!Contents') = sz - n
    BY <1>1, <1>2, RingTypes, NextContentsAre
  <2>2. ASSUME NEW i \in 1..(sz - n) PROVE Ring!Contents'[i] = queue[Len(got) + n + i]
    <3>1. n + i \in 1..sz /\ Len(got) + n + i = Len(got) + (n + i)
      BY <1>2
    <3> QED
      BY <1>1, <1>3, <3>1
  <2> QED
    BY <2>1, <2>2
<1> DEFINE rest == Ring!Contents'
<1>5. /\ rest \in Seq(Byte) /\ Len(rest) = sz - n
      /\ \A i \in 1..(sz - n) : rest[i] = queue[Len(got) + n + i]
  BY <1>4
<1> HIDE DEF rest
<1>6. ASSUME NEW i \in 1..Len(more) PROVE more[i] = queue[i]
  <2>1. i \in Nat /\ 1 <= i /\ i <= Len(got) + n
    BY <1>1, <1>2
  <2>2. CASE i <= Len(got)
    <3>1. i \in 1..Len(got)
      BY <1>2, <2>1, <2>2
    <3> QED
      BY <1>1, <1>3, <3>1
  <2>3. CASE ~(i <= Len(got))
    <3>1. i - Len(got) \in 1..n /\ i - Len(got) \in 1..sz /\ Len(got) + (i - Len(got)) = i
      BY <1>2, <2>1, <2>3
    <3> QED
      BY <1>1, <1>3, <3>1
  <2> QED
    BY <2>2, <2>3
<1>7. Len(more) = Len(got) + n /\ Len(queue) = Len(more) + Len(rest)
  BY <1>1, <1>2, <1>3, <1>5
<1>8. more \o rest = queue
  <2>1. more \o rest \in Seq(Byte) /\ Len(more \o rest) = Len(queue)
    <3>1. more \o rest \in Seq(Byte) /\ Len(more \o rest) = Len(more) + Len(rest)
      BY <1>5, Joined
    <3> QED
      BY <1>7, <3>1
  <2>2. ASSUME NEW i \in 1..Len(queue) PROVE (more \o rest)[i] = queue[i]
    <3>1. i \in Nat /\ 1 <= i /\ i <= Len(more) + (sz - n)
      BY <1>2, <1>5, <1>7
    <3>2. CASE i <= Len(more)
      <4>1. i \in 1..Len(more) /\ (more \o rest)[i] = more[i]
        BY <1>2, <1>5, <3>1, <3>2
      <4> QED
        BY <1>6, <4>1
    <3>3. CASE ~(i <= Len(more))
      <4> DEFINE j == i - Len(more)
      <4>1. j \in 1..(sz - n) /\ Len(got) + n + j = i
        BY <1>2, <1>7, <3>1, <3>3
      <4>2. (more \o rest)[i] = rest[j]
        BY <1>2, <1>5, <3>1, <3>3
      <4> QED
        BY <1>5, <4>1, <4>2
    <3> QED
      BY <3>2, <3>3
  <2> QED
    BY <1>3, <2>1, <2>2
<1> HIDE DEF queue
<1>9. CASE want = n \/ sz = n
  <2> DEFINE k == Len(more)
  <2>1. want' = 0 /\ got' = << >> /\ result' = more
    BY <1>1, <1>9
  <2>2. k \in Nat /\ 1 <= k /\ k <= Len(queue) /\ k \in 1..Cap + 1
    BY <1>2, <1>3, <1>5, <1>7
  <2>3. more = SubSeq(queue, 1, k)
    BY <1>5, <1>8
  <2>4. rest = SubSeq(queue, k + 1, Len(queue))
    BY <1>5, <1>7, <1>8
  <2>5. queue' = rest
    <3>1. << >> \o rest = rest
      BY <1>5
    <3> QED
      BY <2>1, <3>1 DEF queue, rest
  <2>6. queue # << >> /\ Ring!Queue!Fewer(k, Len(queue)) = k
    BY <1>2, <1>3, <2>2 DEF Ring!Queue!Fewer
  <2>7. /\ result' = Ring!Queue!Prefix(queue, Ring!Queue!Fewer(k, Len(queue)))
        /\ queue' = Ring!Queue!Drop(queue, Ring!Queue!Fewer(k, Len(queue)))
    BY <2>1, <2>3, <2>4, <2>5, <2>6 DEF Ring!Queue!Prefix, Ring!Queue!Drop
  <2> HIDE DEF k
  <2>8. Ring!Queue!QGet
    BY <2>2, <2>6, <2>7 DEF Ring!Queue!QGet, queue
  <2> QED
    BY <2>1, <2>8
<1>10. CASE ~(want = n \/ sz = n)
  <2>1. want' = want - n /\ got' = more /\ result' = result /\ want' # 0
    BY <1>1, <1>2, <1>10
  <2>2. queue' = queue
    BY <1>8, <2>1 DEF queue, rest
  <2> QED
    BY <2>1, <2>2 DEF queue
<1> QED
  BY <1>9, <1>10

-----------------------------------------------------------------------------
(* What the steps of Pipe are for the ring.                                 *)
LEMMA RingMoves ==
  ASSUME RingInv, [PNext]_pvars
  PROVE  \/ UNCHANGED <<buffer, offset, size, want, got, result>>
         \/ \E s \in Ring!Slices : Ring!Write(s)
         \/ \E k \in 1..MaxSlice : Ring!Read(k)
         \/ Ring!ReadTurn
<1>1. CASE UNCHANGED pvars
  BY <1>1 DEF pvars, vars, ringVars
<1>2. ASSUME NEW p \in Readers, Alone(ReadEOF(p) \/ ReadOpen(p) \/ ReadWait(p))
             \/ Alone(ReadLock(p) \/ ReadWake(p))
      PROVE  UNCHANGED <<buffer, offset, size, want, got, result>>
  BY <1>2 DEF Alone, ringVars, ReadEOF, ReadOpen, ReadWait, ReadLock, ReadWake
<1>3. ASSUME NEW p \in Writers, (\E n \in 1..MaxSlice : Alone(WriteOverflow(p, n)))
             \/ Alone(WriteClosed(p) \/ WriteOpen(p)) \/ Alone(WriteLock(p))
      PROVE  UNCHANGED <<buffer, offset, size, want, got, result>>
  BY <1>3 DEF Alone, ringVars, WriteOverflow, WriteClosed, WriteOpen, WriteLock
<1>4. ASSUME NEW p \in Closers, Alone(CloseSwap(p) \/ CloseWake(p))
      PROVE  UNCHANGED <<buffer, offset, size, want, got, result>>
  BY <1>4 DEF Alone, ringVars, CloseSwap, CloseWake
<1> QED
  BY <1>1, <1>2, <1>3, <1>4
  DEF PNext, ReadHeld, WriteHeld, Store, ReadStart, ReadMore, ReadLast

LEMMA RingInvStep == RingInv /\ [PNext]_pvars => RingInv'
<1> SUFFICES ASSUME RingInv, [PNext]_pvars PROVE RingInv'
  OBVIOUS
<1>1. PipeInv'
  BY PipeStep, PipeInvStep DEF RingInv
<1>2. size' \in Nat /\ size' <= Cap
  BY <1>1, CapAssumption DEF PipeInv, TypeOK
<1>3. CASE UNCHANGED <<buffer, offset, size, want, got, result>>
  BY <1>1, <1>3 DEF RingInv, Ring!TypeOK
<1>4. ASSUME NEW s \in Ring!Slices, Ring!Write(s) PROVE RingInv'
  <2>1. /\ want = 0 /\ UNCHANGED <<offset, want, got, result>>
        /\ sz' = sz + Len(s) /\ sz' <= Cap /\ Len(s) \in Nat
        /\ buffer' \in [0..(Cap - 1) -> Byte]
    BY <1>4, SliceIsSeq, WriteAppends
  <2>2. sz' \in 0..Cap
    BY <2>1, RingTypes
  <2> QED
    BY <1>1, <2>1, <2>2 DEF RingInv, Ring!TypeOK, sz
<1>5. ASSUME NEW k \in 1..MaxSlice, Ring!Read(k) PROVE RingInv'
  <2>1. /\ want' = k /\ got' = << >> /\ UNCHANGED <<buffer, offset, result, sz>> /\ sz # 0
    BY <1>5 DEF Ring!Read, sz
  <2>2. k \in 0..MaxSlice /\ want' # 0 /\ Len(got') = 0
    BY <2>1, RingAssumption
  <2>3. sz' \in 0..Cap /\ size' > Len(got')
    <3>1. sz' = size' - Len(got')
      BY DEF sz
    <3>2. sz' \in 0..Cap /\ sz' # 0
      BY <2>1, RingTypes
    <3>3. Len(got') \in Nat
      BY <2>2
    <3> QED
      BY <1>2, <3>1, <3>2, <3>3
  <2>4. << >> \in Seq(Byte)
    OBVIOUS
  <2> QED
    BY <1>1, <2>1, <2>2, <2>3, <2>4 DEF RingInv, Ring!TypeOK, sz
<1>6. CASE Ring!ReadTurn
  <2>1. PICK n \in 1..sz, more \in Seq(Byte) :
           /\ n <= want /\ want # 0
           /\ IF want = n \/ sz = n
                THEN want' = 0 /\ got' = << >> /\ result' = more
                ELSE want' = want - n /\ got' = more /\ result' = result
           /\ offset' \in 0..(Cap - 1)
           /\ sz' = sz - n /\ UNCHANGED buffer
    BY <1>6, TurnTakes
  <2>2. /\ sz' \in 0..Cap /\ got' \in Seq(Byte) /\ result' \in Seq(Byte)
        /\ buffer' \in [0..(Cap - 1) -> Byte]
    <3>1. sz' \in 0..Cap /\ buffer' \in [0..(Cap - 1) -> Byte]
      BY <2>1, RingTypes
    <3>2. << >> \in Seq(Byte) /\ result \in Seq(Byte)
      BY RingTypes
    <3> QED
      BY <2>1, <3>1, <3>2
  <2>3. want' \in 0..MaxSlice
    BY <2>1, RingTypes, RingAssumption DEF RingInv, Ring!TypeOK
  <2>4. IF want' = 0 THEN got' = << >> ELSE size' > Len(got')
    <3>1. want' # 0 => sz' # 0
      BY <2>1, RingTypes
    <3>2. sz' = size' - Len(got') /\ Len(got') \in Nat
      BY <2>2 DEF sz
    <3>3. want' # 0 => size' > Len(got')
      BY <1>2, <2>2, <3>1, <3>2
    <3> QED
      BY <2>1, <3>3, RingTypes
  <2> QED
    BY <1>1, <2>1, <2>2, <2>3, <2>4 DEF RingInv, Ring!TypeOK, sz
<1> QED
  BY <1>3, <1>4, <1>5, <1>6, RingMoves

LEMMA InitRingInv == PInit => RingInv
<1> SUFFICES ASSUME PInit PROVE RingInv
  OBVIOUS
<1>1. PipeInv /\ want = 0 /\ got = << >> /\ result = << >> /\ offset = 0 /\ size = 0
  BY InitPipeInv DEF PInit, Init, Ring!Init
<1>2. buffer = [i \in 0..(Cap - 1) |-> Zero]
  BY DEF PInit, Ring!Init
<1>3. buffer \in [0..(Cap - 1) -> Byte] /\ offset \in 0..(Cap - 1)
  BY <1>1, <1>2, CapAssumption, RingAssumption
<1>4. size - Len(got) \in 0..Cap /\ want \in 0..MaxSlice
  <2>1. Len(got) = 0
    BY <1>1
  <2> QED
    BY <1>1, <2>1, CapAssumption, RingAssumption
<1>5. got \in Seq(Byte) /\ result \in Seq(Byte)
  BY <1>1
<1> QED
  BY <1>1, <1>3, <1>4, <1>5 DEF RingInv, Ring!TypeOK

LEMMA RingAlways == PSpec => []RingInv
BY InitRingInv, RingInvStep, PTL DEF PSpec

LEMMA QueueStep ==
  RingInv /\ [PNext]_pvars => [Ring!Queue!QNext]_(Ring!Queue!qvars)
<1> SUFFICES ASSUME RingInv, [PNext]_pvars
             PROVE  [Ring!Queue!QNext]_(Ring!Queue!qvars)
  OBVIOUS
<1>1. CASE UNCHANGED <<buffer, offset, size, want, got, result>>
  BY <1>1 DEF Ring!Queue!qvars, Ring!Contents
<1>2. ASSUME NEW s \in Ring!Slices, Ring!Write(s) PROVE Ring!Queue!QNext
  BY <1>2, SliceIsSeq, PutStep DEF Ring!Queue!QNext
<1>3. ASSUME NEW k \in 1..MaxSlice, Ring!Read(k) PROVE UNCHANGED Ring!Queue!qvars
  BY <1>3, StartStep DEF Ring!Queue!qvars
<1>4. CASE Ring!ReadTurn
  BY <1>4, TakeStep DEF Ring!Queue!QNext, Ring!Queue!qvars
<1> QED
  BY <1>1, <1>2, <1>3, <1>4, RingMoves

(* With its ring the pipe is still the pipe whose invariant is proved: the  *)
(* ring never takes more than fits, nor gives more than it holds            *)
(* (pipe_reader.go:38-84, read_writer.go:47-90).                            *)
THEOREM PipeKeepsInvariant == PSpec => []PipeInv
<1>1. RingInv => PipeInv
  BY DEF RingInv
<1> QED
  BY <1>1, RingAlways, PTL

(* Pipe implements PipeReader: every step of a goroutine, of whatever slice,*)
(* is one of PipeReader or none (pipe_reader.go:38-84).                     *)
THEOREM PipeImplementsReader == PSpec => Safe
<1>1. PInit => Init
  BY DEF PInit
<1>2. RingInv /\ [PNext]_pvars => [Next]_vars
  BY PipeStep DEF RingInv
<1> QED
  BY <1>1, <1>2, RingAlways, PTL DEF PSpec, Safe

(* The ring is a queue: for any number of goroutines, any window and slices *)
(* of any length no byte is lost, repeated or reordered around the end of   *)
(* the buffer, and a Read returns the oldest bytes, whatever the turns of   *)
(* its loop (read_writer.go:47-90).                                         *)
THEOREM RingIsQueue == PSpec => ImplementsQueue
<1>1. PInit => Ring!Queue!QInit
  <2> SUFFICES ASSUME PInit PROVE Ring!Queue!QInit
    OBVIOUS
  <2>1. RingInv /\ got = << >> /\ result = << >> /\ size = 0
    BY InitRingInv DEF PInit, Init, Ring!Init
  <2>2. got \o Ring!Contents \in Seq(Byte) /\ Len(got \o Ring!Contents) = 0
    BY <2>1, QueueIs
  <2> QED
    BY <2>1, <2>2 DEF Ring!Queue!QInit
<1> QED
  BY <1>1, QueueStep, RingAlways, PTL
  DEF PSpec, ImplementsQueue, Ring!ImplementsQueue, Ring!Queue!QSpec

(* A Read that returns less than it was asked for has emptied the pipe:     *)
(* after the end of the ring its loop goes on (pipe_reader.go:58-84,        *)
(* read_writer.go:67-90).                                                   *)
THEOREM ShortReads == PSpec => ShortReadEmpties
<1>1. RingInv /\ [PNext]_pvars =>
        [(want # 0 /\ want' = 0) => (Len(result') = Len(got) + want \/ size' = 0)]_pvars
  <2> SUFFICES ASSUME RingInv, [PNext]_pvars, want # 0, want' = 0
               PROVE  Len(result') = Len(got) + want \/ size' = 0
    OBVIOUS
  <2>1. Ring!ReadTurn
    <3>1. want' # want
      OBVIOUS
    <3>2. \A s : ~Ring!Write(s)
      BY DEF Ring!Write
    <3>3. \A k : ~Ring!Read(k)
      BY DEF Ring!Read
    <3> QED
      BY <3>1, <3>2, <3>3, RingMoves
  <2>2. PICK n \in 1..sz, more \in Seq(Byte) :
           /\ n <= want
           /\ Len(more) = Len(got) + n
           /\ IF want = n \/ sz = n
                THEN want' = 0 /\ got' = << >> /\ result' = more
                ELSE want' = want - n /\ got' = more /\ result' = result
           /\ sz' = sz - n
    BY <2>1, TurnTakes
  <2>3. want = n \/ sz = n
    BY <2>2, RingTypes
  <2>4. CASE want = n
    BY <2>2, <2>4
  <2>5. CASE sz = n
    <3>1. sz' = size' - Len(got')
      BY DEF sz
    <3>2. sz' = 0
      BY <2>2, <2>5, RingTypes
    <3>3. Len(got') \in Nat
      BY <2>2, <2>5
    <3>4. size' \in Nat
      BY RingInvStep, CapAssumption DEF RingInv, PipeInv, TypeOK
    <3>5. size' = Len(got')
      BY <3>1, <3>2, <3>3, <3>4
    <3>6. Len(got') = 0
      BY <2>2, <2>5
    <3> QED
      BY <3>5, <3>6
  <2> QED
    BY <2>3, <2>4, <2>5
<1> QED
  BY <1>1, RingAlways, PTL DEF PSpec, ShortReadEmpties
=============================================================================
