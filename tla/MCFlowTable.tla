----------------------------- MODULE MCFlowTable -----------------------------
(* Instances of HashedTable for TLC. *)
EXTENDS HashedTable, TLC

CONSTANTS c1, c2, f1, f2, f3, eth0, eth1

Packet(f, s, e, l, d, t) == [flow |-> f, syn |-> s, fin |-> e, len |-> l, dev |-> d, tcp |-> t]

\* For every flow an opening, a data and a closing packet; f1 also sends one
\* through another device and one that is not TCP.
MCPackets ==
    UNION {{Packet(f, TRUE, FALSE, 1 % Wrap, eth0, TRUE), Packet(f, FALSE, FALSE, 1 % Wrap, eth0, TRUE),
            Packet(f, FALSE, TRUE, 0, NULL, TRUE)} : f \in Flows}
    \union {Packet(f1, TRUE, FALSE, 0, eth1, TRUE), Packet(f1, FALSE, TRUE, 0, eth0, FALSE)}

MCPorts == [f \in Flows |-> {5001, 80}]

\* Three connections of one host to port 5001 of another: in a table of two
\* lists the hash puts f3 into a list of its own.
LocalPort == [f \in Flows |-> CASE f = f1 -> {4, 6} [] f = f2 -> {0, 4, 6} [] f = f3 -> {2, 4, 6}]
MCTuples == [f \in Flows |->
    <<{9, 11}, {0}, {9, 11}, {1}, Right(LocalPort[f], 8) \union Left(16, LocalPort[f], 8),
      {15, 11, 8, 4, 1, 0}>>]
MCBuckets == SUBSET (0 .. Bits - 1)
Hashed == {<<f, HashedLists[f]>> : f \in Flows}
MCBucketOf == [f \in Flows |-> CHOOSE b \in MCBuckets : <<f, b>> \in Hashed]

\* One CPU is as good as another, and so is the memory of an entry.
Interchangeable == Permutations(Cpus) \union Permutations(Nodes)
=============================================================================
