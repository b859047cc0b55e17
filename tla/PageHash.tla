------------------------------ MODULE PageHash ------------------------------
(***************************************************************************)
(* page_hash of mem.c, the one-at-a-time hash that stands for a page in     *)
(* every comparison.  Two pages that differ in at most one byte are hashed  *)
(* side by side, one byte of each per step.                                 *)
(*                                                                         *)
(* A uint32_t is a pair <<high, low>> of 16-bit halves, because TLC's       *)
(* integers have 32 bits and a sign.                                        *)
(***************************************************************************)
EXTENDS Naturals, FiniteSets, Bitwise

CONSTANTS Byte,      \* the values of a byte considered
          pageSize   \* 4096 in the code

ASSUME HashAssumption == Byte \subseteq 0..255 /\ pageSize \in Nat \ {0}

VARIABLES i,      \* the loop variable: bytes hashed so far
          hash,   \* hash[k]: the hash of page k
          diff,   \* the number of bytes so far in which the pages differ
          done    \* page_hash has returned

hvars == <<i, hash, diff, done>>

Half == 2^16
Zero == <<0, 0>>

-----------------------------------------------------------------------------
(* Arithmetic of uint32_t, for shifts by less than 16.                      *)

Add(x, y) == <<(x[1] + y[1] + ((x[2] + y[2]) \div Half)) % Half, (x[2] + y[2]) % Half>>
Shl(x, n) == <<(x[1] * 2^n + (x[2] \div 2^(16 - n))) % Half, (x[2] * 2^n) % Half>>
Shr(x, n) == <<x[1] \div 2^n, (x[2] \div 2^n) + (x[1] % 2^n) * 2^(16 - n)>>
Xor32(x, y) == <<x[1] ^^ y[1], x[2] ^^ y[2]>>

\* hash += hash << n  and  hash ^= hash >> n
AddShift(h, n) == Add(h, Shl(h, n))
XorShift(h, n) == Xor32(h, Shr(h, n))

\* The body of the loop, and what follows it.
Mix(h, b) == XorShift(AddShift(Add(h, <<0, b>>), 10), 6)
Final(h) == AddShift(XorShift(AddShift(h, 3), 11), 15)

-----------------------------------------------------------------------------

HInit ==
    /\ i = 0
    /\ hash = [k \in 1..2 |-> Zero]
    /\ diff = 0
    /\ done = FALSE

Sees(b) ==
    /\ Cardinality({b[1], b[2]}) - 1 + diff <= 1
    /\ diff' = diff + Cardinality({b[1], b[2]}) - 1

\* A loop that leaves out the last byte.
SkipsLast ==
    /\ i # pageSize
    /\ \E b \in [1..2 -> Byte] :
        /\ Sees(b)
        /\ hash' = [k \in 1..2 |-> IF i = pageSize - 1 THEN hash[k] ELSE Mix(hash[k], b[k])]
    /\ i' = i + 1
    /\ UNCHANGED done

\* while (i != length)
HashByte ==
    /\ i # pageSize
    /\ \E b \in [1..2 -> Byte] :
        /\ Sees(b)
        /\ hash' = [k \in 1..2 |-> Mix(hash[k], b[k])]
    /\ i' = i + 1
    /\ UNCHANGED done

HashReturns ==
    /\ i = pageSize /\ ~done
    /\ hash' = [k \in 1..2 |-> Final(hash[k])]
    /\ done' = TRUE
    /\ UNCHANGED <<i, diff>>

HSpec == HInit /\ [][HashByte \/ HashReturns]_hvars

-----------------------------------------------------------------------------
(* Properties.                                                              *)

\* Pages that differ in one byte are never taken for equal, wherever the byte
\* is and whatever follows: from the byte on, every step of page_hash maps
\* different 32-bit words to different words.  So a page with one byte that is
\* not zero is never taken for a page of zeros.
OneByteTells == diff = 1 => hash[1] # hash[2]
=============================================================================
