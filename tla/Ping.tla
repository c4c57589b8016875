-------------------------------- MODULE Ping ---------------------------------
(***************************************************************************)
(* The goroutine servePing of a transport (base_transport.go): its timer,  *)
(* the one-place channel active by which the reader loop and serveWrite    *)
(* report traffic, and the queue t.ch that the ping goes through.          *)
(*                                                                         *)
(* Time is a clock that ticks; what the code reads is how old at is and    *)
(* when the timer expires, and both are kept instead of the time.          *)
(***************************************************************************)
EXTENDS Integers

CONSTANTS
  Duration,  \* opts.ping, in ticks
  MaxAge,    \* bound: older than this the age of at is not told apart
  QueueCap   \* capacity of t.ch

ASSUME PingAssumption ==
  /\ Duration \in Nat \ {0}
  /\ MaxAge \in Nat /\ MaxAge > Duration
  /\ QueueCap \in Nat \ {0}

VARIABLES
  age,      \* time.Since(at)
  timer,    \* "armed", "fired" (a value is in timer.C), "drained" (taken)
  left,     \* ticks until an armed timer expires
  active,   \* the channel active holds a value
  pc,       \* servePing: at its select, at the send of a ping, or returned
  queued,   \* frames in t.ch
  writing,  \* serveWrite is running
  done      \* t.done is closed

vars == <<age, timer, left, active, pc, queued, writing, done>>

TypeOK ==
  /\ age \in 0..MaxAge
  /\ timer \in {"armed", "fired", "drained"}
  /\ left \in 0..MaxAge
  /\ active \in BOOLEAN
  /\ pc \in {"select", "ping", "returned"}
  /\ queued \in 0..QueueCap
  /\ writing \in BOOLEAN
  /\ done \in BOOLEAN

(* Reader loop and serveWrite both report before their first wait.         *)
Init ==
  /\ age = 0
  /\ timer = "armed" /\ left = Duration
  /\ active = TRUE
  /\ pc = "select"
  /\ queued = 0
  /\ writing = TRUE
  /\ done = FALSE

Tick ==
  /\ age' = IF age < MaxAge THEN age + 1 ELSE age
  /\ left' = IF timer = "armed" THEN left - 1 ELSE left
  /\ timer' = IF timer = "armed" /\ left = 1 THEN "fired" ELSE timer
  /\ UNCHANGED <<active, pc, queued, writing, done>>

(* timer.Reset.                                                            *)
Reset(d) == timer' = "armed" /\ left' = d

-----------------------------------------------------------------------------
(* The reader loop has handled a frame: active <- 1, unless it is full.    *)
ReaderActive ==
  /\ active' = TRUE
  /\ UNCHANGED <<age, timer, left, pc, queued, writing, done>>

(* Some goroutine of the transport queues a frame.                         *)
Post ==
  /\ queued < QueueCap
  /\ queued' = queued + 1
  /\ UNCHANGED <<age, timer, left, active, pc, writing, done>>

(* serveWrite empties the queue, flushes, and reports: active <- 2.        *)
ServeWrite ==
  /\ writing
  /\ queued > 0
  /\ queued' = 0
  /\ active' = TRUE
  /\ UNCHANGED <<age, timer, left, pc, writing, done>>

(* A write fails or t.done is closed.                                      *)
WriterExit ==
  /\ writing
  /\ writing' = FALSE
  /\ UNCHANGED <<age, timer, left, active, pc, queued, done>>

(* baseTransport.Close.                                                    *)
Close ==
  /\ ~done
  /\ done' = TRUE
  /\ UNCHANGED <<age, timer, left, active, pc, queued, writing>>

-----------------------------------------------------------------------------
(* servePing.                                                              *)

PingActive ==
  /\ pc = "select"
  /\ active
  /\ active' = FALSE
  /\ age' = 0
  /\ UNCHANGED <<timer, left, pc, queued, writing, done>>

(* The timer has expired: wait is time.Since(at) - duration.               *)
PingTimer ==
  LET wait == age - Duration
  IN  /\ pc = "select"
      /\ timer = "fired"
      /\ IF wait > 0
           THEN Reset(wait) /\ UNCHANGED pc
           ELSE timer' = "drained" /\ pc' = "ping" /\ UNCHANGED left
      /\ UNCHANGED <<age, active, queued, writing, done>>

(* Mutant: the timer is not reset after a ping.                            *)
PingSendOnce ==
  /\ pc = "ping"
  /\ queued < QueueCap
  /\ queued' = queued + 1
  /\ age' = 0
  /\ pc' = "select"
  /\ UNCHANGED <<timer, left, active, writing, done>>

PingSend ==
  /\ pc = "ping"
  /\ queued < QueueCap
  /\ queued' = queued + 1
  /\ age' = 0
  /\ Reset(Duration)
  /\ pc' = "select"
  /\ UNCHANGED <<active, writing, done>>

(* Mutant: the send of the ping does not watch t.done.                     *)
PingDoneAtSelect ==
  /\ done
  /\ pc = "select"
  /\ timer # "drained"
  /\ pc' = "returned"
  /\ timer' = "drained"
  /\ UNCHANGED <<age, left, active, queued, writing, done>>

(* t.done at either select.  At the first one the timer is stopped, and a  *)
(* timer that has expired is drained, which waits for its value.           *)
PingDone ==
  /\ done
  /\ pc # "returned"
  /\ pc = "select" => timer # "drained"
  /\ pc' = "returned"
  /\ timer' = "drained"
  /\ UNCHANGED <<age, left, active, queued, writing, done>>

PingStep == PingActive \/ PingTimer \/ PingSend \/ PingDone

Next == Tick \/ ReaderActive \/ Post \/ ServeWrite \/ WriterExit \/ Close \/ PingStep

Safe == Init /\ [][Next]_vars

(* Time passes; servePing and serveWrite go on when they can, and a select *)
(* that finds t.done closed again and again takes it in the end.  Traffic  *)
(* and the end of the transport are not bound to come.                     *)
Fairness ==
  WF_vars(Tick) /\ WF_vars(PingStep) /\ WF_vars(ServeWrite) /\ SF_vars(PingDone)

Spec == Safe /\ Fairness

(* The runs in which the connection is up and nothing but pings is sent.   *)
IdleSpec == Init /\ [][Tick \/ ServeWrite \/ PingStep]_vars /\ Fairness

-----------------------------------------------------------------------------
(* At its select servePing has a running or an expired timer, never one    *)
(* whose value is taken: neither a stopped ping nor a drain that waits for *)
(* ever (base_transport.go:46-49, 53-63).                                  *)
TimerLive == pc = "select" => timer # "drained"
PingInv == TypeOK /\ TimerLive

(* servePing returns when the transport is closed, wherever it waits: for  *)
(* the timer, or for room in a queue that nobody empties any more.         *)
PingReturns == done ~> pc = "returned"

(* A connection without traffic is pinged: what WithPing and ServerPing    *)
(* promise.                                                                *)
IdlePinged == age >= Duration ~> age < Duration
=============================================================================
