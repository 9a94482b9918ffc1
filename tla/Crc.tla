--------------------------------- MODULE Crc ---------------------------------
(***************************************************************************)
(* The cyclic redundancy checks of src/crc (crc16.c and crc8.c), each      *)
(* computed bit by bit and by table, and the copy in src/flow-tracker that *)
(* picks the list of a flow.  A word is the set of its bits that are 1, so *)
(* that ^ is the symmetric difference; w is the width of the register.     *)
(***************************************************************************)
EXTENDS Integers, Sequences

CONSTANTS
    CrcBytes,    \* the input bytes tried
    MaxLen       \* bound on the length of the data tried

ASSUME CrcAssumption == CrcBytes \subseteq SUBSET (0 .. 7) /\ MaxLen \in Nat

Widths == {8, 16}
generator == [w \in Widths |-> IF w = 16 THEN {12, 5, 0} ELSE {4, 3, 2, 0}]  \* 0x1021, 0x1d

Xor(p, q) == (p \ q) \union (q \ p)
Left(w, p, n) == {e + n : e \in p} \intersect (0 .. w - 1)         \* p << n
Right(p, n) == {e - n : e \in {x \in p : x >= n}}                  \* p >> n
LowByte(p) == p \intersect (0 .. 7)

-----------------------------------------------------------------------------
\* Mutant: the lower byte does not move up.
LookupNoShift(crc, b, table) == Xor(crc, table[Xor(Right(crc, 8), b)])

-----------------------------------------------------------------------------
\* One round of the inner loop: shift out the top bit and divide by it.
Shift(w, crc) ==
    IF w - 1 \in crc THEN Xor(Left(w, crc, 1), generator[w]) ELSE Left(w, crc, 1)
Shift8(w, crc) ==
    LET r[j \in 0 .. 8] == IF j = 0 THEN crc ELSE Shift(w, r[j - 1]) IN r[8]

\* gen_lookuptable.  The 256 words of flow-tracker/crc_table.h are these.
crc_table == [w \in Widths |-> [i \in SUBSET (0 .. 7) |-> Shift8(w, Left(w, i, w - 8))]]

\* crc16_simple and crc8_simple: one byte.
SimpleByte(w, crc, b) == Shift8(w, Xor(crc, Left(w, b, w - 8)))

\* crc16_lookuptable and crc8_lookuptable: one byte.
Lookup16(crc, b, table) == Xor(Left(16, crc, 8), table[Xor(Right(crc, 8), b)])
Lookup8(crc, b, table) == table[Xor(crc, b)]
LookupByte(w, crc, b) ==
    IF w = 16 THEN Lookup16(crc, b, crc_table[16]) ELSE Lookup8(crc, b, crc_table[8])

simple(w, data) ==
    LET r[i \in 0 .. Len(data)] == IF i = 0 THEN {} ELSE SimpleByte(w, r[i - 1], data[i])
    IN  r[Len(data)]
lookuptable(w, data) ==
    LET r[i \in 0 .. Len(data)] == IF i = 0 THEN {} ELSE LookupByte(w, r[i - 1], data[i])
    IN  r[Len(data)]

\* flow_hash: the addresses and ports as six words, the lower byte first.
Octets(tuples) == [k \in 1 .. 12 |->
    IF k % 2 = 1 THEN LowByte(tuples[(k + 1) \div 2]) ELSE Right(tuples[k \div 2], 8)]
flow_hash(tuples) == lookuptable(16, Octets(tuples))

\* The list of a flow, of 1 << bits lists.
index(tuples, bits) == Right(flow_hash(tuples), 16 - bits)

-----------------------------------------------------------------------------
(* The reference: the data and the check as polynomials over GF(2), which  *)
(* are the sets of their exponents, divided from the top.                  *)

Polynomial(d) == UNION {{8 * (Len(d) - i) + e : e \in d[i]} : i \in DOMAIN d}

\* One step of the division: the term of exponent e, if there, is eliminated.
Eliminate(w, p, e) ==
    IF e \in p THEN Xor(p, {e - w + g : g \in {w} \union generator[w]}) ELSE p

\* Of the data d moved up by the width w of the check.
Remainder(w, d) ==
    LET r[k \in 0 .. 8 * Len(d)] ==
          IF k = 0 THEN {e + w : e \in Polynomial(d)}
          ELSE Eliminate(w, r[k - 1], 8 * Len(d) + w - k)
    IN  r[8 * Len(d)]

\* "General CRC-16 bitwise implementation" and "Lookup table based solution"
\* (crc16.c:26 and 43, and so in crc8.c) both compute the remainder of the
\* data divided by the "generator polynomial": there is no exception.
Cases == Widths \X UNION {[1 .. n -> CrcBytes] : n \in 0 .. MaxLen}
NotRemainders ==
    {c \in Cases : {simple(c[1], c[2]), lookuptable(c[1], c[2])} # {Remainder(c[1], c[2])}}
=============================================================================
