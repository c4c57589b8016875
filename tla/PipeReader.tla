------------------------------ MODULE PipeReader ------------------------------
(***************************************************************************)
(* pipe.PipeReader (pipe/pipe_reader.go): the receive pipe of a channel,   *)
(* shared by the goroutines that Read, the transport reader that Writes    *)
(* and whoever Closes.  A mutex and a condition variable; closed is set    *)
(* without the mutex, and wait counts the goroutines inside cond.Wait so   *)
(* that nobody broadcasts in vain.                                         *)
(*                                                                         *)
(* The ring is here only the number of bytes it holds; Pipe puts ReadWriter*)
(* in its place.  Code that runs with the mutex is split where it reads    *)
(* closed, the one field that others may change meanwhile.                 *)
(***************************************************************************)
EXTENDS Integers, FiniteSets

CONSTANTS
  Readers,   \* goroutines that call Read, again and again
  Writers,   \* goroutines that call Write, again and again
  Closers,   \* goroutines that call Close, once each
  Cap        \* size of the ring

Procs == Readers \cup Writers \cup Closers

ASSUME ProcAssumption ==
  /\ Readers \cap Writers = {}
  /\ Readers \cap Closers = {}
  /\ Writers \cap Closers = {}
  /\ IsFiniteSet(Readers)
ASSUME CapAssumption == Cap \in Nat \ {0}

VARIABLES
  pc,       \* where each goroutine is
  held,     \* who holds the mutex: the empty set or one goroutine
  waitset,  \* the notify list of the condition variable
  wait,     \* the field wait
  closed,   \* the field closed
  size,     \* bytes in the ring
  eof       \* history: some Read has returned io.EOF

vars == <<pc, held, waitset, wait, closed, size, eof>>

Labels == {"idle", "test", "park", "parked", "woken", "check", "store",
           "swapped", "done"}

TypeOK ==
  /\ pc \in [Procs -> Labels]
  /\ held \in SUBSET Procs
  /\ waitset \in SUBSET Readers
  /\ wait \in Int
  /\ closed \in BOOLEAN
  /\ size \in 0..Cap
  /\ eof \in BOOLEAN

Init ==
  /\ pc = [p \in Procs |-> "idle"]
  /\ held = {}
  /\ waitset = {}
  /\ wait = 0
  /\ closed = FALSE
  /\ size = 0
  /\ eof = FALSE

(* cond.L.Lock at label from; the goroutine goes on at label to.           *)
Lock(p, from, to) ==
  /\ pc[p] = from
  /\ held = {}
  /\ held' = {p}
  /\ pc' = [pc EXCEPT ![p] = to]

(* The deferred Unlock as the call returns.                                *)
Return(p, from) ==
  /\ pc[p] = from
  /\ held' = {}
  /\ pc' = [pc EXCEPT ![p] = "idle"]

-----------------------------------------------------------------------------
(* Read with a slice of n > 0 bytes.                                       *)

ReadLock(p) ==
  /\ Lock(p, "idle", "test")
  /\ UNCHANGED <<waitset, wait, closed, size, eof>>

ReadData(p, n) ==
  /\ size # 0
  /\ size' = IF n <= size THEN size - n ELSE 0
  /\ Return(p, "test")
  /\ UNCHANGED <<waitset, wait, closed, eof>>

ReadEOF(p) ==
  /\ size = 0 /\ closed
  /\ eof' = TRUE
  /\ Return(p, "test")
  /\ UNCHANGED <<waitset, wait, closed, size>>

(* Mutant: closed is not tested before waiting.                            *)
ReadOpenUntested(p) ==
  /\ pc[p] = "test"
  /\ size = 0
  /\ pc' = [pc EXCEPT ![p] = "park"]
  /\ UNCHANGED <<held, waitset, wait, closed, size, eof>>

(* Nothing to read and closed found unset ...                              *)
ReadOpen(p) ==
  /\ pc[p] = "test"
  /\ size = 0 /\ ~closed
  /\ pc' = [pc EXCEPT ![p] = "park"]
  /\ UNCHANGED <<held, waitset, wait, closed, size, eof>>

(* ... wait++ and cond.Wait, on the notify list before the mutex is free.  *)
ReadWait(p) ==
  /\ pc[p] = "park"
  /\ wait' = wait + 1
  /\ waitset' = waitset \cup {p}
  /\ held' = {}
  /\ pc' = [pc EXCEPT ![p] = "parked"]
  /\ UNCHANGED <<closed, size, eof>>

(* cond.Wait returns with the mutex; wait--, and the loop tests again.     *)
ReadWake(p) ==
  /\ Lock(p, "woken", "test")
  /\ wait' = wait - 1
  /\ UNCHANGED <<waitset, closed, size, eof>>

(* cond.Broadcast, called only when wait is not zero: who is on the list   *)
(* goes for the mutex.  The caller p continues at label to.                *)
Wakeup(p, to) ==
  LET woken == IF wait # 0 THEN waitset ELSE {}
  IN  /\ waitset' = waitset \ woken
      /\ pc' = [q \in Procs |-> IF q = p THEN to
                                ELSE IF q \in woken THEN "woken" ELSE pc[q]]

-----------------------------------------------------------------------------
(* Write of n bytes.                                                       *)

WriteLock(p) ==
  /\ Lock(p, "idle", "check")
  /\ UNCHANGED <<waitset, wait, closed, size, eof>>

(* Mutant: the test of closed comes to nothing.                            *)
WriteClosedStores(p) ==
  /\ closed
  /\ pc[p] = "check"
  /\ pc' = [pc EXCEPT ![p] = "store"]
  /\ UNCHANGED <<held, waitset, wait, closed, size, eof>>

(* ErrReaderClosed.                                                        *)
WriteClosed(p) ==
  /\ closed
  /\ Return(p, "check")
  /\ UNCHANGED <<waitset, wait, closed, size, eof>>

WriteOpen(p) ==
  /\ pc[p] = "check"
  /\ ~closed
  /\ pc' = [pc EXCEPT ![p] = "store"]
  /\ UNCHANGED <<held, waitset, wait, closed, size, eof>>

(* rw.Write stores the bytes, and the readers are woken ...                *)
WriteStore(p, n) ==
  /\ pc[p] = "store"
  /\ size + n <= Cap
  /\ size' = size + n
  /\ held' = {}
  /\ Wakeup(p, "idle")
  /\ UNCHANGED <<wait, closed, eof>>

(* ... or refuses them with ErrWriteOverflow.                              *)
WriteOverflow(p, n) ==
  /\ size + n > Cap
  /\ Return(p, "store")
  /\ UNCHANGED <<waitset, wait, closed, size, eof>>

-----------------------------------------------------------------------------
(* Close: the swap without the mutex, and then the broadcast with it.      *)

CloseSwap(p) ==
  /\ pc[p] = "idle"
  /\ closed' = TRUE
  /\ pc' = [pc EXCEPT ![p] = IF closed THEN "done" ELSE "swapped"]
  /\ UNCHANGED <<held, waitset, wait, size, eof>>

(* Mutants: the broadcast is left out; it does not wait for the mutex.     *)
CloseWakeSilent(p) ==
  /\ pc[p] = "swapped"
  /\ held = {}
  /\ pc' = [pc EXCEPT ![p] = "done"]
  /\ UNCHANGED <<held, waitset, wait, closed, size, eof>>
CloseWakeUnlocked(p) ==
  /\ pc[p] = "swapped"
  /\ Wakeup(p, "done")
  /\ UNCHANGED <<held, wait, closed, size, eof>>

CloseWake(p) ==
  /\ pc[p] = "swapped"
  /\ held = {}
  /\ Wakeup(p, "done")
  /\ UNCHANGED <<held, wait, closed, size, eof>>

-----------------------------------------------------------------------------
ReadRun(p) ==
  \/ \E n \in 1..Cap : ReadData(p, n)
  \/ ReadEOF(p)
  \/ ReadOpen(p)
  \/ ReadWait(p)

WriteRun(p) ==
  \/ WriteClosed(p)
  \/ WriteOpen(p)
  \/ \E n \in 1..Cap + 1 : WriteStore(p, n) \/ WriteOverflow(p, n)

Next ==
  \/ \E p \in Readers : ReadLock(p) \/ ReadRun(p) \/ ReadWake(p)
  \/ \E p \in Writers : WriteLock(p) \/ WriteRun(p)
  \/ \E p \in Closers : CloseSwap(p) \/ CloseWake(p)

Safe == Init /\ [][Next]_vars

-----------------------------------------------------------------------------
(* No wake-up is lost: a goroutine on the notify list has nothing to read, *)
(* and if the pipe is closed a Close is still to broadcast (the test of    *)
(* wait, and the swap outside of the mutex, pipe_reader.go:28-35, 52-55).  *)
NoLostWakeup ==
  waitset # {} =>
    /\ size = 0
    /\ closed => \E c \in Closers : pc[c] = "swapped"

(* wait is the number of goroutines between wait++ and wait--, so a test   *)
(* for zero never misses one (pipe_reader.go:32, 52, 76-78).               *)
WaitCounts == wait = Cardinality({p \in Readers : pc[p] \in {"parked", "woken"}})

(* io.EOF is final: after it nothing is stored any more, though closed is  *)
(* set without the mutex (pipe_reader.go:42, 71-75).                       *)
EOFIsFinal == eof => closed /\ size = 0

(* A blocked Read returns once the pipe is closed.                         *)
CloseUnblocks == \A p \in Readers : (pc[p] = "parked" /\ closed) ~> pc[p] = "idle"

-----------------------------------------------------------------------------
(* The inductive invariant of NoLostWakeup and EOFIsFinal: who is at a     *)
(* label inside the mutex holds it.                                        *)
Inside(p) == pc[p] \in {"test", "park", "check", "store"}

LabelInv ==
  /\ \A p \in Readers : pc[p] \in {"idle", "test", "park", "parked", "woken"}
  /\ \A p \in Writers : pc[p] \in {"idle", "check", "store"}
  /\ \A p \in Closers : pc[p] \in {"idle", "swapped", "done"}

MutexInv == \A p \in Procs : Inside(p) => held = {p}

ParkInv ==
  \A p \in Procs : pc[p] = "park" =>
    /\ size = 0
    /\ closed => \E c \in Closers : pc[c] = "swapped"

WaitInv == waitset = {p \in Readers : pc[p] = "parked"} /\ WaitCounts

EOFInv == eof => \A p \in Procs : pc[p] # "store"

(* Together these hold in every state and imply the properties above.      *)
PipeInv ==
  /\ TypeOK /\ LabelInv /\ MutexInv /\ ParkInv /\ WaitInv
  /\ NoLostWakeup /\ EOFIsFinal /\ EOFInv
=============================================================================
