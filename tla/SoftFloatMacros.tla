-------------------------- MODULE SoftFloatMacros --------------------------
(***************************************************************************)
(* The multiword arithmetic below the floating-point emulation              *)
(* (fpu/softfloat-macros.h).  A word has W bits in place of 64, a wide        *)
(* number is a tuple of words, most significant first.                      *)
(***************************************************************************)
EXTENDS Integers, Sequences

CONSTANT W                          \* bits of a word; even, its halves are multiplied

\* What the constants must be.
WordAssumption == W \in Nat \ {0} /\ W % 2 = 0

Base == 2 ^ W
Word == 0 .. Base - 1
Half == 2 ^ (W \div 2)
TopBit == 2 ^ (W - 1)

\* Words shift modulo 2^W; a shift count is masked by the code, never here.
Shl(a, n) == IF n >= W THEN 0 ELSE (a % 2 ^ (W - n)) * 2 ^ n
Shr(a, n) == a \div 2 ^ n
Flag(c) == IF c THEN 1 ELSE 0
\* a | (c ? 1 : 0)
Sticky(a, c) == IF c THEN a - (a % 2) + 1 ELSE a
Negative(a) == a >= TopBit          \* (sbits64) a < 0

\* shift32RightJamming and shift64RightJamming, for words of w bits
ShiftRightJamming(a, count, w) ==
  IF count = 0 THEN a
  ELSE IF count < w THEN Sticky(Shr(a, count), a % 2 ^ count # 0)
  ELSE Flag(a # 0)

shift64RightJamming(a, count) == ShiftRightJamming(a, count, W)

shift64ExtraRightJamming(a0, a1, count) ==
  IF count = 0 THEN <<a0, a1>>
  ELSE IF count < W THEN <<Shr(a0, count), Sticky(Shl(a0, W - count), a1 # 0)>>
  ELSE IF count = W THEN <<0, Sticky(a0, a1 # 0)>>
  ELSE <<0, Flag(a0 # 0 \/ a1 # 0)>>

\* The third case yields 0 for every count from W on.
shift128Right(a0, a1, count) ==
  IF count = 0 THEN <<a0, a1>>
  ELSE IF count < W THEN <<Shr(a0, count), Shl(a0, W - count) + Shr(a1, count)>>
  ELSE <<0, 0>>

shift128RightJamming(a0, a1, count) ==
  IF count = 0 THEN <<a0, a1>>
  ELSE IF count < W
       THEN <<Shr(a0, count), Sticky(Shl(a0, W - count) + Shr(a1, count), a1 % 2 ^ count # 0)>>
  ELSE IF count = W THEN <<0, Sticky(a0, a1 # 0)>>
  ELSE IF count < 2 * W
       THEN <<0, Sticky(Shr(a0, count - W), a0 % 2 ^ (count - W) # 0 \/ a1 # 0)>>
  ELSE <<0, Flag(a0 # 0 \/ a1 # 0)>>

shift128ExtraRightJamming(a0, a1, a2, count) ==
  IF count = 0 THEN <<a0, a1, a2>>
  ELSE IF count < W
       THEN <<Shr(a0, count), Shl(a0, W - count) + Shr(a1, count), Sticky(Shl(a1, W - count), a2 # 0)>>
  ELSE IF count = W THEN <<0, a0, Sticky(a1, a2 # 0)>>
  ELSE LET rest == a2 # 0 \/ a1 # 0
       IN  IF count < 2 * W THEN <<0, Shr(a0, count - W), Sticky(Shl(a0, 2 * W - count), rest)>>
           ELSE <<0, 0, Sticky(IF count = 2 * W THEN a0 ELSE Flag(a0 # 0), rest)>>

\* count is less than W
shortShift128Left(a0, a1, count) ==
  <<IF count = 0 THEN a0 ELSE Shl(a0, count) + Shr(a1, W - count), Shl(a1, count)>>

shortShift192Left(a0, a1, a2, count) ==
  IF count = 0 THEN <<a0, a1, a2>>
  ELSE <<Shl(a0, count) + Shr(a1, W - count), Shl(a1, count) + Shr(a2, W - count), Shl(a2, count)>>

add128(a0, a1, b0, b1) ==
  LET z1 == (a1 + b1) % Base
  IN  <<(a0 + b0 + Flag(z1 < a1)) % Base, z1>>

add192(a0, a1, a2, b0, b1, b2) ==
  LET z2 == (a2 + b2) % Base
      carry1 == Flag(z2 < a2)
      sum1 == (a1 + b1) % Base
      z1 == (sum1 + carry1) % Base
  IN  <<(a0 + b0 + Flag(z1 < carry1) + Flag(sum1 < a1)) % Base, z1, z2>>

sub128(a0, a1, b0, b1) == <<(a0 - b0 - Flag(a1 < b1)) % Base, (a1 - b1) % Base>>

sub192(a0, a1, a2, b0, b1, b2) ==
  LET borrow1 == Flag(a2 < b2)
      diff1 == (a1 - b1) % Base
  IN  <<((a0 - b0) - Flag(diff1 < borrow1) - Flag(a1 < b1)) % Base,
        (diff1 - borrow1) % Base, (a2 - b2) % Base>>

\* The four products of halves; the carry of the middle sum goes to the top half.
mul64To128(a, b) ==
  LET aHigh == a \div Half   aLow == a % Half
      bHigh == b \div Half   bLow == b % Half
      zMiddleB == aHigh * bLow
      zMiddleA == (aLow * bHigh + zMiddleB) % Base
      low == Shl(zMiddleA, W \div 2)
      z1 == (aLow * bLow + low) % Base
  IN  <<(aHigh * bHigh + Flag(zMiddleA < zMiddleB) * Half + (zMiddleA \div Half) + Flag(z1 < low)) % Base, z1>>

mul128By64To192(a0, a1, b) ==
  LET p == mul64To128(a1, b)
      q == mul64To128(a0, b)
  IN  add128(q[1], q[2], 0, p[1]) \o <<p[2]>>

mul128To256(a0, a1, b0, b1) ==
  LET p == mul64To128(a1, b1)
      q == mul64To128(a1, b0)
      r == add128(q[1], q[2], 0, p[1])
      t == mul64To128(a0, b0)
      u == add128(t[1], t[2], 0, r[1])
      v == mul64To128(a0, b1)
      x == add128(v[1], v[2], 0, r[2])
  IN  add128(u[1], u[2], 0, x[1]) \o <<x[2], p[2]>>

\* Mutant: the remainder of the first half is not brought back to positive.
estimateDiv128To64_once(a0, a1, b) ==
  LET b0 == b \div Half
      z0 == IF b0 * Half <= a0 THEN Base - Half ELSE (a0 \div b0) * Half
      term == mul64To128(b, z0)
      rem == sub128(a0, a1, term[1], term[2])
      rem0 == Shl(rem[1], W \div 2) + (rem[2] \div Half)
  IN  IF b <= a0 THEN Base - 1
      ELSE (z0 + (IF b0 * Half <= rem0 THEN Half - 1 ELSE rem0 \div b0)) % Base

\* An estimate of the quotient, half a word at a time: while the remainder of
\* the first half is negative, that half is too large by one.
estimateDiv128To64(a0, a1, b) ==
  LET b0 == b \div Half
      z0 == IF b0 * Half <= a0 THEN Base - Half ELSE (a0 \div b0) * Half
      Rem[n \in Nat] ==
        IF n = 0 THEN LET term == mul64To128(b, z0) IN sub128(a0, a1, term[1], term[2])
        ELSE add128(Rem[n - 1][1], Rem[n - 1][2], b0, Shl(b, W \div 2))
      n == CHOOSE k \in 0 .. Half : ~ Negative(Rem[k][1]) /\ \A i \in 0 .. k - 1 : Negative(Rem[i][1])
      rem0 == Shl(Rem[n][1], W \div 2) + (Rem[n][2] \div Half)
  IN  IF b <= a0 THEN Base - 1
      ELSE ((z0 - n * Half) % Base) + (IF b0 * Half <= rem0 THEN Half - 1 ELSE rem0 \div b0)

\* countLeadingZeros32 and countLeadingZeros64, for words of w bits
CountLeadingZeros(a, w) == CHOOSE n \in 0 .. w : a < 2 ^ (w - n) /\ (n = w \/ a >= 2 ^ (w - n - 1))

countLeadingZeros64(a) == CountLeadingZeros(a, W)

eq128(a0, a1, b0, b1) == a0 = b0 /\ a1 = b1
le128(a0, a1, b0, b1) == a0 < b0 \/ (a0 = b0 /\ a1 <= b1)
lt128(a0, a1, b0, b1) == a0 < b0 \/ (a0 = b0 /\ a1 < b1)
=============================================================================
