--------------------------------- MODULE Pipe ---------------------------------
(***************************************************************************)
(* A PipeReader with the ring it really has: pipe_reader.go calls          *)
(* ReadWriter.Write and ReadWriter.Read with its mutex held.  The ring is  *)
(* an instance of ReadWriter and takes its own steps, a Read one turn of   *)
(* its loop at a time; PipeReader sees a Read only when it is complete.    *)
(***************************************************************************)
EXTENDS PipeReader, Sequences

CONSTANTS Byte, Zero, MaxSlice   \* of ReadWriter

ASSUME RingAssumption == Zero \in Byte /\ MaxSlice \in Nat \ {0}

VARIABLES buffer, offset, want, got, result   \* of ReadWriter

ringVars == <<buffer, offset, want, got, result>>

(* What a Read has copied has left the ring, but is still in the pipe.     *)
Ring == INSTANCE ReadWriter WITH size <- size - Len(got)

PInit == Init /\ Ring!Init

(* A step of PipeReader that does not reach the ring, or is refused by it.  *)
Alone(Step) == UNCHANGED ringVars /\ Step

Store(p, s) == WriteStore(p, Len(s)) /\ Ring!Write(s)

(* rw.Read with a slice of k bytes: its first turn is still to come ...    *)
ReadStart(p, k) ==
  /\ pc[p] = "test"
  /\ UNCHANGED vars
  /\ Ring!Read(k)

(* ... one turn, and another has to follow; the last one.                  *)
ReadMore(p) ==
  /\ pc[p] = "test"
  /\ UNCHANGED vars
  /\ Ring!ReadTurn
  /\ want' # 0
ReadLast(p) ==
  \E n \in 1..Cap : ReadData(p, n) /\ Ring!ReadTurn /\ want' = 0

(* What a goroutine does while it holds the mutex.                         *)
ReadHeld(p) ==
  \/ \E k \in 1..MaxSlice : ReadStart(p, k)
  \/ ReadMore(p)
  \/ ReadLast(p)
  \/ Alone(ReadEOF(p) \/ ReadOpen(p) \/ ReadWait(p))

WriteHeld(p) ==
  \/ \E s \in Ring!Slices : Store(p, s)
  \/ \E n \in 1..MaxSlice : Alone(WriteOverflow(p, n))
  \/ Alone(WriteClosed(p) \/ WriteOpen(p))

PNext ==
  \/ \E p \in Readers : ReadHeld(p) \/ Alone(ReadLock(p) \/ ReadWake(p))
  \/ \E p \in Writers : WriteHeld(p) \/ Alone(WriteLock(p))
  \/ \E p \in Closers : Alone(CloseSwap(p) \/ CloseWake(p))

pvars == <<vars, ringVars>>

(* Code that holds the mutex runs on, and a sync.Mutex lets in whoever     *)
(* waits for it in the end.  Nobody has to call Read, Write or Close.      *)
PFairness ==
  /\ \A p \in Readers : WF_pvars(ReadHeld(p)) /\ SF_pvars(Alone(ReadWake(p)))
  /\ \A p \in Writers : WF_pvars(WriteHeld(p))
  /\ \A p \in Closers : SF_pvars(Alone(CloseWake(p)))

PSpec == PInit /\ [][PNext]_pvars /\ PFairness

-----------------------------------------------------------------------------
(* Whoever reads, writes and closes, and however a Read is cut by the end  *)
(* of the ring: the bytes come out in the order in which they went in, each*)
(* once, and none is stored that does not fit (pipe_reader.go:38-84,       *)
(* read_writer.go:47-90).                                                  *)
ImplementsQueue == Ring!ImplementsQueue

(* A Read that returns fewer bytes than its slice holds has emptied the    *)
(* pipe: the loop goes on after the end of the ring.                       *)
ShortReadEmpties ==
  [][(want # 0 /\ want' = 0) =>
       (Len(result') = Len(got) + want \/ size' = 0)]_pvars
=============================================================================
