----------------------------- MODULE PingProofs ------------------------------
(* Proofs about Ping, for any duration and any capacity of the queue.      *)
EXTENDS Ping, TLAPS

(* An armed timer has not expired: Reset is never called with zero ticks,  *)
(* and the tick that would make left zero fires the timer.                 *)
LeftInv == timer = "armed" => left \in 1..MaxAge

(* While servePing waits for room in the queue no timer runs, so that the  *)
(* Reset after the ping finds an empty timer.C.                            *)
PingDrained == pc = "ping" => timer = "drained"

IndInv == TypeOK /\ TimerLive /\ LeftInv /\ PingDrained

LEMMA InitIndInv == Init => IndInv
<1> SUFFICES ASSUME Init PROVE IndInv
  OBVIOUS
<1>1. age \in 0..MaxAge /\ left \in 1..MaxAge /\ queued \in 0..QueueCap
  BY PingAssumption DEF Init
<1>2. left \in 0..MaxAge
  BY <1>1
<1> QED
  BY <1>1, <1>2 DEF Init, IndInv, TypeOK, TimerLive, LeftInv, PingDrained

(* The clock.                                                              *)
LEMMA TickStep == IndInv /\ Tick => IndInv'
<1> SUFFICES ASSUME IndInv, Tick PROVE IndInv'
  OBVIOUS
<1>1. age' \in 0..MaxAge
  BY PingAssumption DEF IndInv, TypeOK, Tick
<1>2. CASE timer = "armed" /\ left = 1
  BY <1>1, <1>2, PingAssumption DEF IndInv, TypeOK, TimerLive, LeftInv, PingDrained, Tick
<1>3. CASE timer = "armed" /\ left # 1
  <2>1. left' \in 1..MaxAge
    BY <1>3, PingAssumption DEF IndInv, TypeOK, LeftInv, Tick
  <2> QED
    BY <1>1, <1>3, <2>1 DEF IndInv, TypeOK, TimerLive, LeftInv, PingDrained, Tick
<1>4. CASE timer # "armed"
  BY <1>1, <1>4 DEF IndInv, TypeOK, TimerLive, LeftInv, PingDrained, Tick
<1> QED
  BY <1>2, <1>3, <1>4

(* Traffic, the queue and Close, which leave servePing and its timer alone.*)
LEMMA OthersStep ==
  IndInv /\ (ReaderActive \/ Post \/ ServeWrite \/ WriterExit \/ Close) => IndInv'
<1> SUFFICES ASSUME IndInv, ReaderActive \/ Post \/ ServeWrite \/ WriterExit \/ Close
             PROVE  IndInv'
  OBVIOUS
<1>1. UNCHANGED <<age, timer, left, pc>>
  BY DEF ReaderActive, Post, ServeWrite, WriterExit, Close
<1>2. queued' \in 0..QueueCap
  <2>1. Post \/ queued' \in {queued, 0}
    BY DEF ReaderActive, ServeWrite, WriterExit, Close
  <2> QED
    BY <2>1, PingAssumption DEF IndInv, TypeOK, Post
<1>3. active' \in BOOLEAN /\ writing' \in BOOLEAN /\ done' \in BOOLEAN
  BY DEF IndInv, TypeOK, ReaderActive, Post, ServeWrite, WriterExit, Close
<1> QED
  BY <1>1, <1>2, <1>3 DEF IndInv, TypeOK, TimerLive, LeftInv, PingDrained

(* servePing itself.                                                       *)
LEMMA PingStepStep == IndInv /\ PingStep => IndInv'
<1> SUFFICES ASSUME IndInv, PingStep PROVE IndInv'
  OBVIOUS
<1> USE DEF IndInv, TypeOK, TimerLive, LeftInv, PingDrained
<1>1. CASE PingActive
  <2>1. age' = 0 /\ 0 \in 0..MaxAge
    BY <1>1, PingAssumption DEF PingActive
  <2> QED
    BY <1>1, <2>1 DEF PingActive
<1>2. CASE PingTimer
  <2>1. CASE age - Duration > 0
    <3>1. age - Duration \in 1..MaxAge
      BY <2>1, PingAssumption
    <3>2. timer' = "armed" /\ left' = age - Duration /\ pc' = pc
      BY <1>2, <2>1 DEF PingTimer, Reset
    <3> QED
      BY <1>2, <3>1, <3>2 DEF PingTimer
  <2>2. CASE ~(age - Duration > 0)
    BY <1>2, <2>2 DEF PingTimer
  <2> QED
    BY <2>1, <2>2
<1>3. CASE PingSend
  BY <1>3, PingAssumption DEF PingSend, Reset
<1>4. CASE PingDone
  BY <1>4 DEF PingDone
<1> QED
  BY <1>1, <1>2, <1>3, <1>4 DEF PingStep

(* Whenever servePing is at its select its timer is armed or has a value   *)
(* for it, so neither a ping is lost nor does the drain after a failed     *)
(* Stop wait for ever (base_transport.go:46-63), whatever the intervals    *)
(* between traffic, pings, a full queue and Close.                         *)
THEOREM PingInvariance == Safe => []PingInv
<1>1. IndInv /\ [Next]_vars => IndInv'
  <2> SUFFICES ASSUME IndInv, [Next]_vars PROVE IndInv'
    OBVIOUS
  <2>1. CASE UNCHANGED vars
    BY <2>1 DEF vars, IndInv, TypeOK, TimerLive, LeftInv, PingDrained
  <2> QED
    BY <2>1, TickStep, OthersStep, PingStepStep DEF Next
<1>2. IndInv => PingInv
  BY DEF IndInv, PingInv
<1> QED
  BY InitIndInv, <1>1, <1>2, PTL DEF Safe
=============================================================================
