----------------------------- MODULE HashedTable -----------------------------
(***************************************************************************)
(* FlowTable with its lists chosen by Crc: the tuple of a flow is hashed   *)
(* for every packet of it, and the upper bits of the hash number the list. *)
(***************************************************************************)
EXTENDS FlowTable, Crc

CONSTANTS
    Tuples,    \* the addresses and ports of a flow, as six words
    Bits       \* table->bits: init_table makes 1 << bits lists, 16 at most

HashedLists == [f \in Flows |-> index(Tuples[f], Bits)]

ASSUME HashedTableAssumption ==
    /\ Tuples \in [Flows -> [1 .. 6 -> SUBSET (0 .. 15)]]
    /\ Bits \in 0 .. 16
    /\ Buckets = SUBSET (0 .. Bits - 1)
    /\ BucketOf = HashedLists

\* crc16 is a remainder, on all data tried; and with the copy of its table in
\* flow_table.c every entry is linked in the list that the remainder of its
\* tuple selects, whatever was inserted and deleted before, so that all
\* packets of a flow look there.
ListOf == [f \in Flows |-> Right(Remainder(16, Octets(Tuples[f])), 16 - Bits)]
LinkedWhereHashed ==
    /\ NotRemainders = {}
    /\ \A b \in Buckets : \A i \in DOMAIN chain[b] : ListOf[heap[chain[b][i]].flow] = b
=============================================================================
