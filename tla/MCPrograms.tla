------------------------------ MODULE MCPrograms ------------------------------
(* For TLC: options of SYN packets, with the MSS first or behind others, or  *)
(* none; sizes, where a compressed body is shorter or longer than the plain. *)
EXTENDS Programs

\* MSS 12 alone; MSS 13 behind a window scale of 2, a SACK option whose length is
\* 2 as well, and a No-Operation; no MSS.  Lowered, both change in both bytes.
MCSynOptions ==
    {[bytes |-> <<2, 4, 2, 0>>, starts |-> {1}],
     [bytes |-> <<3, 3, 2, 4, 2, 1, 2, 4, 2, 1, 1>>, starts |-> {1, 4, 6, 7, 11}],
     [bytes |-> <<4, 2>>, starts |-> {1}]}

MCZipSize == [n \in 0 .. MaxBody + PageSize |-> 2 + n \div 2]
=============================================================================
