---------------------------- MODULE PackedField ----------------------------
(***************************************************************************)
(* The fields of an index entry that say where a value is: an offset and a *)
(* length in one word (wc24.h).                                            *)
(***************************************************************************)
EXTENDS Integers

CONSTANTS
    Offsets,   \* how many offsets a packed field can have, 2^20 in wc24.h
    Lengths    \* and how many lengths, 2^12

ASSUME PackAssumption == Offsets \in Nat \ {0} /\ Lengths \in Nat \ {0}

\* (length << 20) | (offset & kPackedOffsetMask), of 32 bits.
PackField(offset, length) == (length % Lengths) * Offsets + (offset % Offsets)
PackedOffset(packed) == packed % Offsets
PackedLength(packed) == packed \div Offsets
=============================================================================
