----------------------------- MODULE Types6502 -----------------------------
(***************************************************************************)
(* The data types of include/types.h.  Bytes and words are numbers; the    *)
(* status register P is the set of the flags that are 1, so SET_FLAG,      *)
(* CLR_FLAG and GET_FLAG are union, difference and membership.  P becomes  *)
(* a byte only where the code stores it in memory (PByte) and is read back *)
(* from one only where the code pulls it (PFlags).                         *)
(***************************************************************************)
EXTENDS Integers

Byte == 0 .. 255
UINT16_MAX == 65535
Word == 0 .. UINT16_MAX

NMOS == "CPU_VARIANT_NMOS_6502"
CMOS == "CPU_VARIANT_CMOS_65C02"
CPU_VARIANT == {NMOS, CMOS}

FLAG == {"C", "Z", "I", "D", "B", "U", "V", "N"}

T_REGISTER ==
  [PC : Word, A : Byte, P : SUBSET FLAG, S : Byte, X : Byte, Y : Byte]

STACK_START == \h0100
CPU_RESET_STACK_POINTER == \hFD
CPU_RESET_STATUS == {"U", "I"}                      \* 0x24
CPU_RESET_VECTOR_ADDRESS == \hFFFC

----------------------------------------------------------------------------
(* C integer conversions *)

MEM_WORD(n) == n % 256                              \* unsigned char
MEM_TWO_WORDS(n) == n % 65536                       \* unsigned short
SIGNED_MEM_WORD(b) == IF b < 128 THEN b ELSE b - 256    \* int8_t

Word16(lo, hi) == lo + 256 * hi                     \* lo | (hi << 8)
Page(a) == a \div 256                               \* a & 0xFF00

----------------------------------------------------------------------------
(* Bitwise operations on bytes *)

Bit(v, i) == (v \div (2^i)) % 2 = 1

\* The byte whose bit i is set iff b(i) holds.
OfBits(b(_)) ==
    (IF b(7) THEN 128 ELSE 0) + (IF b(6) THEN 64 ELSE 0)
  + (IF b(5) THEN 32 ELSE 0)  + (IF b(4) THEN 16 ELSE 0)
  + (IF b(3) THEN 8 ELSE 0)   + (IF b(2) THEN 4 ELSE 0)
  + (IF b(1) THEN 2 ELSE 0)   + (IF b(0) THEN 1 ELSE 0)

And8(a, b) == OfBits(LAMBDA i : Bit(a, i) /\ Bit(b, i))
Or8(a, b) == OfBits(LAMBDA i : Bit(a, i) \/ Bit(b, i))
Xor8(a, b) == OfBits(LAMBDA i : Bit(a, i) # Bit(b, i))
AndNot8(a, b) == OfBits(LAMBDA i : Bit(a, i) /\ ~ Bit(b, i))    \* a & ~b

----------------------------------------------------------------------------
(* The status register *)

\* FLAG_C 0x01 .. FLAG_N 0x80
PByte(p) ==
    (IF "N" \in p THEN 128 ELSE 0) + (IF "V" \in p THEN 64 ELSE 0)
  + (IF "U" \in p THEN 32 ELSE 0)  + (IF "B" \in p THEN 16 ELSE 0)
  + (IF "D" \in p THEN 8 ELSE 0)   + (IF "I" \in p THEN 4 ELSE 0)
  + (IF "Z" \in p THEN 2 ELSE 0)   + (IF "C" \in p THEN 1 ELSE 0)

FLAG_BIT ==
  [C |-> 0, Z |-> 1, I |-> 2, D |-> 3, B |-> 4, U |-> 5, V |-> 6, N |-> 7]

PFlags(b) == {f \in FLAG : Bit(b, FLAG_BIT[f])}

\* if (on) SET_FLAG(f); else CLR_FLAG(f);
PutFlag(p, f, on) == IF on THEN p \cup {f} ELSE p \ {f}
=============================================================================
