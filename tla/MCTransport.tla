----------------------------- MODULE MCTransport -----------------------------
(* Values for the constants of Transport: WritesCS lets the ends of every   *)
(* channel send C and S Write frames.                                       *)
EXTENDS Transport, TLC

Values(c, s) == [e \in Ends |-> IF e = "client" THEN c ELSE s]
Writes00 == Values(0, 0)
Writes02 == Values(0, 2)

(* Channel ids are interchangeable.                                         *)
IdSymmetry == Permutations(Ids)
=============================================================================
