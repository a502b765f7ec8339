-------------------------------- MODULE Bits --------------------------------
(***************************************************************************)
(* Multi-precision values (src/gmputil.c).  A non-negative mpz is the set  *)
(* of the positions of its one bits, 0 the least significant; the bitwise  *)
(* operators are then those of sets.  The memory image of a value is the   *)
(* set of the offsets of its one bits, offset 0 being the most significant *)
(* bit of the first byte, so a header or a register is such a set too.     *)
(* The host is little-endian.                                              *)
(***************************************************************************)
EXTENDS Integers, FiniteSetsExt

Num(n) == {i \in 0..30 : (n \div 2 ^ i) % 2 = 1}

And(a, b) == a \cap b

Or(a, b) == a \cup b

Xor(a, b) == (a \ b) \cup (b \ a)

Bitmask(width) == 0..(width - 1)

Prefixmask(width, plen) == (width - plen)..(width - 1)

Lshift(v, n) == {i + n : i \in v}

Rshift(v, n) == {i - n : i \in {j \in v : j >= n}}

\* mpz_scan1() and mpz_scan0() from a given bit; neither is asked to run off
\* the end of a value that has no such bit.
Scan1(v, from) == Min({i \in v : i >= from})

Scan0(v, from) == Min({i \in from..(Max(v \cup {from}) + 1) : i \notin v})

Less(a, b) == a # b /\ Max(Xor(a, b)) \in b

LessEq(a, b) == a = b \/ Less(a, b)

Bytes(len) == (len + 7) \div 8

RoundUp(n, m) == ((n + m - 1) \div m) * m

\* The value whose bytes are those of v in the opposite order.
SwitchByteorder(v, bytes) == {8 * (bytes - 1 - (i \div 8)) + (i % 8) : i \in v}

\* mpz_export_data(): the memory image.
Export(v, bo, bytes) ==
  {8 * bytes - 1 - i : i \in IF bo = "host" THEN SwitchByteorder(v, bytes) ELSE v}

\* mpz_import_data(): anything but host order is read as big-endian.
Import(m, bo, bytes) ==
  LET v == {8 * bytes - 1 - i : i \in m}
  IN IF bo = "host" THEN SwitchByteorder(v, bytes) ELSE v

\* memcpy() to, and from, an offset counted in bits.
At(m, off) == {i + off : i \in m}

From(m, off, len) == {i - off : i \in m \cap (off..(off + len - 1))}
=============================================================================
