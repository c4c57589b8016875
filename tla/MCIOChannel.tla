----------------------------- MODULE MCIOChannel -----------------------------
(* Values for the constants of IOChannel: WindowCS is a window of C bytes   *)
(* at the client and S at the server, BytesCS lets the applications write C *)
(* and S bytes.                                                             *)
EXTENDS IOChannel

Values(c, s) == [e \in Ends |-> IF e = "client" THEN c ELSE s]

Window63 == Values(6, 3)
Window61 == Values(6, 1)
Window22 == Values(2, 2)
Bytes30 == Values(3, 0)
Bytes20 == Values(2, 0)
=============================================================================
