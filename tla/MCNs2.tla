-------------------------------- MODULE MCNs2 --------------------------------
(* An instance of Ns2 for TLC. *)
EXTENDS Ns2

\* All k up to 6, with ratios from 0 to 2 in steps of a half; and with 0.1, 1.05
\* and 1.2, which are rounded down for some k and refused for others.
MCShapes == (0 .. 6) \X (((0 .. 4) \X {2}) \union {<<1, 10>>, <<21, 20>>, <<6, 5>>})

\* k = 2 and x = 1: two servers, and a group for each direction.
MCExperiment == <<2, <<1, 1>>>>
MCGroups == {pair \in (0 .. 1) \X (0 .. 1) : pair[1] # pair[2]}
=============================================================================
