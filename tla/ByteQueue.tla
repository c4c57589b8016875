------------------------------ MODULE ByteQueue ------------------------------
(* What pipe.ReadWriter promises: a bounded queue of bytes.  A write is     *)
(* stored whole or refused, a read returns the oldest bytes, as many as     *)
(* there are up to the length asked for.                                    *)
EXTENDS Integers, Sequences

CONSTANTS Byte, Cap

VARIABLES queue, result

qvars == <<queue, result>>

Prefix(s, n) == SubSeq(s, 1, n)
Drop(s, n) == SubSeq(s, n + 1, Len(s))
Fewer(m, n) == IF m <= n THEN m ELSE n

QInit == queue = << >> /\ result = << >>

(* Some bytes are appended, all of them, if they fit.                       *)
QPut ==
  /\ Len(queue') > Len(queue)
  /\ Len(queue') <= Cap
  /\ Prefix(queue', Len(queue)) = queue
  /\ UNCHANGED result

(* The oldest bytes move to the result.                                     *)
QGet ==
  /\ queue # << >>
  /\ \E k \in 1..Cap + 1 :
       /\ result' = Prefix(queue, Fewer(k, Len(queue)))
       /\ queue' = Drop(queue, Fewer(k, Len(queue)))

QClear == queue' = << >> /\ UNCHANGED result

QNext == QPut \/ QGet \/ QClear

QSpec == QInit /\ [][QNext]_qvars
=============================================================================
