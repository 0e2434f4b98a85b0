---------------------------- MODULE SoftFloat128 ----------------------------
(***************************************************************************)
(* float128, the quadruple-precision format (fpu/softfloat.c,                  *)
(* softfloat-specialize.h): [high, low] with sign, exponent and the upper part  *)
(* of the fraction in the word high.                                         *)
(***************************************************************************)
EXTENDS SoftFloatx80

FB0 == W - 1 - EBX                  \* bits of the fraction in high (48)
H0 == 2 ^ FB0                       \* the hidden bit

packFloat128(zSign, zExp, zSig0, zSig1) == [high |-> (zSign * TopBit + zExp * H0 + zSig0) % Base, low |-> zSig1]
extractFloat128Frac1(a) == a.low
extractFloat128Frac0(a) == a.high % H0
extractFloat128Exp(a) == (a.high \div H0) % 2 ^ EBX
extractFloat128Sign(a) == a.high \div TopBit

Inf128(zSign) == packFloat128(zSign, EX, 0, 0)
HasFrac(a) == extractFloat128Frac0(a) # 0 \/ a.low # 0
NaN128(a) == extractFloat128Exp(a) = EX /\ HasFrac(a)
Infinite128(a) == extractFloat128Exp(a) = EX /\ ~ HasFrac(a)
Zero128(a) == extractFloat128Exp(a) = 0 /\ ~ HasFrac(a)

normalizeFloat128Subnormal(aSig0, aSig1) ==
  LET n == countLeadingZeros64(IF aSig0 = 0 THEN aSig1 ELSE aSig0) - EBX
      z == IF aSig0 # 0 THEN shortShift128Left(aSig0, aSig1, n)
           ELSE IF n < 0 THEN <<Shr(aSig1, - n), Shl(aSig1, n % W)>> ELSE <<Shl(aSig1, n), 0>>
  IN  [exp |-> IF aSig0 = 0 THEN (- n) - (W - 1) ELSE 1 - n, sig |-> z]

\* zSig2 is the word behind the number.
roundAndPackFloat128(zSign, zExp, zSig0, zSig1, zSig2, s) ==
  LET ones == zSig0 = 2 * H0 - 1 /\ zSig1 = Base - 1
      inc == Increment(zSign, zSig2, s)
      tiny == s.tiny \/ zExp < -1 \/ ~ inc \/ lt128(zSig0, zSig1, 2 * H0 - 1, Base - 1)
      Finish(exp, z, fl) ==
        LET up == add128(z[1], z[2], 0, 1)
            even == s.mode = "even" /\ (2 * z[3]) % Base = 0
        IN  Raise(Inexact(IF Increment(zSign, z[3], s) THEN packFloat128(zSign, exp, up[1], IF even THEN up[2] - (up[2] % 2) ELSE up[2])
                          ELSE packFloat128(zSign, IF z[1] = 0 /\ z[2] = 0 THEN 0 ELSE exp, z[1], z[2]), z[3] # 0), fl)
      sub == shift128ExtraRightJamming(zSig0, zSig1, zSig2, - zExp)
  IN  IF zExp > EX - 2 \/ (zExp = EX - 2 /\ ones /\ inc)
      THEN Res(IF s.mode # "even" /\ ~ Increment(zSign, 1, s) THEN packFloat128(zSign, EX - 1, H0 - 1, Base - 1) ELSE Inf128(zSign),
               {"overflow", "inexact"})
      ELSE IF zExp >= 0 THEN Finish(zExp, <<zSig0, zSig1, zSig2>>, {})
      ELSE IF s.ftz THEN Exact(packFloat128(zSign, 0, 0, 0))
      ELSE Finish(0, sub, IF tiny /\ sub[3] # 0 THEN {"underflow"} ELSE {})

normalizeRoundAndPackFloat128(zSign, zExp, zSig0, zSig1, s) ==
  LET swap == zSig0 = 0
      a0 == IF swap THEN zSig1 ELSE zSig0
      a1 == IF swap THEN 0 ELSE zSig1
      n == countLeadingZeros64(a0) - EBX
      l == shortShift128Left(a0, a1, n)
      r == shift128ExtraRightJamming(a0, a1, 0, - n)
      z == IF n >= 0 THEN <<l[1], l[2], 0>> ELSE r
  IN  roundAndPackFloat128(zSign, (IF swap THEN zExp - W ELSE zExp) - n, z[1], z[2], z[3], s)

(***************************************************************************)
(* NaNs                                                                     *)
(***************************************************************************)

float128_default_nan == packFloat128(1, EX, H0 \div 2, 0)
float128_is_nan(a) == NaN128(a)
float128_is_signaling_nan(a) == NaN128(a) /\ extractFloat128Frac0(a) < H0 \div 2

float128ToCommonNaN(a) ==
  LET z == shortShift128Left(a.high, a.low, EBX + 1)
  IN  [sign |-> extractFloat128Sign(a), high |-> z[1], low |-> z[2], f |-> InvalidIf(float128_is_signaling_nan(a))]
commonNaNToFloat128(c) ==
  LET z == shift128Right(c.high, c.low, EBX + 1) IN Res(packFloat128(c.sign, EX, z[1], z[2]), c.f)

propagateFloat128NaN(a, b, s) ==
  LET Quiet(x) == IF extractFloat128Frac0(x) < H0 \div 2 THEN [x EXCEPT !.high = @ + (H0 \div 2)] ELSE x
      aS == float128_is_signaling_nan(a)   bS == float128_is_signaling_nan(b)
      av == Quiet(a)                       bv == Quiet(b)
      am == Magnitude(av, W - 1)           bm == Magnitude(bv, W - 1)
      larger == IF lt128(am.high, am.low, bm.high, bm.low) THEN bv
                ELSE IF lt128(bm.high, bm.low, am.high, am.low) THEN av
                ELSE IF av.high < bv.high THEN av ELSE bv
      z == CASE aS /\ ~ bS -> IF NaN128(b) THEN bv ELSE av
             [] ~ aS /\ NaN128(a) /\ (bS \/ ~ NaN128(b)) -> av
             [] (aS /\ bS) \/ (~ aS /\ NaN128(a) /\ ~ bS /\ NaN128(b)) -> larger
             [] OTHER -> bv
  IN  IF s.dnan THEN Exact(float128_default_nan) ELSE Res(z, InvalidIf(aS \/ bS))

Invalid128 == Res(float128_default_nan, {"invalid"})

\* Exponent and significand of a finite number that is not zero, with hidden bit.
Normal128(a) ==
  IF extractFloat128Exp(a) = 0 THEN normalizeFloat128Subnormal(extractFloat128Frac0(a), a.low)
  ELSE [exp |-> extractFloat128Exp(a), sig |-> <<extractFloat128Frac0(a) + H0, a.low>>]

(***************************************************************************)
(* Conversions                                                              *)
(***************************************************************************)

int32_to_float128(a) ==
  LET n == CountLeadingZeros(Abs(a), W32) + (FB0 + 1) - W32
  IN  IF a = 0 THEN packFloat128(0, 0, 0, 0) ELSE packFloat128(SignOf(a), BX + FB0 - 1 - n, Abs(a) * 2 ^ n, 0)

int64_to_float128(a) ==
  LET n == countLeadingZeros64(Abs(a)) + FB0 + 1
      z == IF n >= W THEN shortShift128Left(Abs(a), 0, n - W) ELSE shortShift128Left(0, Abs(a), n)
  IN  IF a = 0 THEN packFloat128(0, 0, 0, 0) ELSE packFloat128(SignOf(a), BX + FB0 + W - 1 - n, z[1], z[2])

\* A fraction without hidden bit, or a normalized one whose exponent is one less.
ToFloat128(f, a) ==
  LET sign == extractSign(f, a)
      x == IF extractExp(f, a) = 0 THEN [normalizeSubnormal(f, extractFrac(f, a)) EXCEPT !.exp = @ - 1]
           ELSE [exp |-> extractExp(f, a), sig |-> extractFrac(f, a)]
      z == IF f = F32 THEN <<x.sig * 2 ^ (FB0 - fb(F32)), 0>> ELSE shift128Right(x.sig, 0, fb(F64) - FB0)
  IN  CASE IsNaN(f, a) -> commonNaNToFloat128(ToCommonNaN(f, a))
        [] IsInf(f, a) -> Exact(Inf128(sign))
        [] IsZero(f, a) -> Exact(packFloat128(sign, 0, 0, 0))
        [] OTHER -> Exact(packFloat128(sign, x.exp + (BX - bias(f)), z[1], z[2]))

float32_to_float128(a) == ToFloat128(F32, a)
float64_to_float128(a) == ToFloat128(F64, a)

floatx80_to_float128(a) ==
  LET z == shift128Right(Shl(a.low, 1), 0, EBX + 1)
  IN  IF floatx80_is_nan(a) THEN commonNaNToFloat128(floatx80ToCommonNaN(a))
      ELSE Exact(packFloat128(extractFloatx80Sign(a), extractFloatx80Exp(a), z[1], z[2]))

float128_to_floatx80(a, s) ==
  LET x == Normal128(a)
      z == shortShift128Left(x.sig[1], x.sig[2], EBX)
      sign == extractFloat128Sign(a)
  IN  CASE NaN128(a) -> commonNaNToFloatx80(float128ToCommonNaN(a))
        [] Infinite128(a) -> Exact(Infx80(sign))
        [] Zero128(a) -> Exact(packFloatx80(sign, 0, 0))
        [] OTHER -> roundAndPackFloatx80(80, sign, x.exp, z[1], z[2], s)

\* zSig is the fraction at its place below the hidden bit, jammed.
FromFloat128(f, a, zSig, s) ==
  LET sign == extractFloat128Sign(a)
  IN  CASE NaN128(a) -> commonNaNTo(f, float128ToCommonNaN(a))
        [] Infinite128(a) -> Exact(packFloat(f, sign, emax(f), 0))
        [] Zero128(a) -> roundAndPackFloat(f, sign, 0, 0, s)
        [] OTHER -> roundAndPackFloat(f, sign, extractFloat128Exp(a) - (BX - bias(f)) - 1, zSig + 2 ^ (f.w - 2), s)

float128_to_float32(a, s) ==
  FromFloat128(F32, a, shift64RightJamming(Sticky(extractFloat128Frac0(a), a.low # 0), FB0 - fb(F32) - g(F32)), s)
float128_to_float64(a, s) ==
  LET z == shortShift128Left(extractFloat128Frac0(a), a.low, EBX - 1)
  IN  FromFloat128(F64, a, Sticky(z[1], z[2] # 0), s)

TooLarge128(a, w) ==
  Res(IF extractFloat128Sign(a) = 0 \/ NaN128(a) THEN MaxInt(w) ELSE MinInt(w), {"invalid"})

Sig0(a) == extractFloat128Frac0(a) + (IF extractFloat128Exp(a) # 0 THEN H0 ELSE 0)

float128_to_int32(a, s) ==
  LET sig == Sticky(Sig0(a), a.low # 0)
      n == BX + FB0 - IntGuard - extractFloat128Exp(a)
  IN  roundAndPackInt32(IF NaN128(a) THEN 0 ELSE extractFloat128Sign(a),
                        IF n > 0 THEN shift64RightJamming(sig, n) ELSE sig, s)

float128_to_int32_round_to_zero(a) ==
  LET n == BX + FB0 - extractFloat128Exp(a)
      sig == Sticky(Sig0(a), a.low # 0)
      z == sig \div 2 ^ n
      sign == extractFloat128Sign(a)
  IN  CASE extractFloat128Exp(a) > BX + W32 - 1 -> TooLarge128(a, W32)
        [] extractFloat128Exp(a) < BX -> Inexact(0, ~ Zero128(a))
        [] OTHER -> IF z > MaxInt(W32) + sign THEN TooLarge128(a, W32)
                    ELSE Inexact(IF sign = 1 THEN - z ELSE z, sig % 2 ^ n # 0)

float128_to_int64(a, s) ==
  LET n == BX + FB0 - extractFloat128Exp(a)
      z == IF n <= 0 THEN shortShift128Left(Sig0(a), a.low, - n) ELSE shift64ExtraRightJamming(Sig0(a), a.low, n)
  IN  IF extractFloat128Exp(a) > BX + W - 1 THEN TooLarge128(a, W)
      ELSE roundAndPackInt64(extractFloat128Sign(a), z[1], z[2], s)

float128_to_int64_round_to_zero(a) ==
  LET exp == extractFloat128Exp(a)
      n == exp - (BX + FB0)
      Signed(z) == IF extractFloat128Sign(a) = 1 THEN - z ELSE z
  IN  CASE exp >= BX + W - 1 ->
             IF a.high = TopBit + (BX + W - 1) * H0 /\ a.low < 2 * H0 THEN Inexact(MinInt(W), a.low # 0) ELSE TooLarge128(a, W)
        [] n > 0 /\ exp < BX + W - 1 -> Inexact(Signed(Shl(Sig0(a), n) + Shr(a.low, W - n)), Shl(a.low, n) # 0)
        [] exp < BX -> Inexact(0, ~ Zero128(a))
        [] OTHER -> Inexact(Signed(Shr(Sig0(a), - n)), a.low # 0 \/ Sig0(a) % 2 ^ (- n) # 0)

\* The last place before the point is in low, just above it, or in high.
float128_round_to_int(a, s) ==
  LET exp == extractFloat128Exp(a)
      sign == extractFloat128Sign(a)
      away == s.mode = (IF sign = 1 THEN "down" ELSE "up")
      one == IF s.mode = "even" THEN exp = BX - 1 /\ HasFrac(a) ELSE away
      lo == 2 ^ ((BX + FB0 + W) - exp)            \* last place in low; Base: just above
      half == add128(a.high, a.low, 0, lo \div 2)
      full == add128(a.high, a.low, 0, lo - 1)
      ClearLow(z, even) == [high |-> z[1], low |-> (z[2] - (z[2] % lo)) - (IF even /\ (z[2] \div lo) % 2 = 1 THEN lo ELSE 0)]
      inLow == CASE s.mode = "even" /\ lo < Base -> ClearLow(half, half[2] % lo = 0)
                 [] s.mode = "even" /\ lo = Base ->
                      [high |-> IF Negative(a.low) THEN RoundUp(a.high, a.low, s) ELSE a.high, low |-> 0]
                 [] s.mode # "even" /\ away -> ClearLow(full, FALSE)
                 [] OTHER -> ClearLow(<<a.high, a.low>>, FALSE)
      hi == 2 ^ ((BX + FB0) - exp)                \* last place in high
      zh == CASE s.mode = "even" -> a.high + (hi \div 2)
              [] s.mode # "even" /\ away -> Sticky(a.high, a.low # 0) + (hi - 1)
              [] OTHER -> a.high
      even == s.mode = "even" /\ zh % hi = 0 /\ a.low = 0 /\ (zh \div hi) % 2 = 1
      inHigh == [high |-> (zh - (zh % hi)) - (IF even THEN hi ELSE 0), low |-> 0]
  IN  CASE NaN128(a) -> propagateFloat128NaN(a, a, s)
        [] exp >= BX + FB0 + W /\ ~ NaN128(a) -> Exact(a)
        [] exp < BX -> IF Zero128(a) THEN Exact(a) ELSE Res(packFloat128(sign, IF one THEN BX ELSE 0, 0, 0), {"inexact"})
        [] exp >= BX + FB0 /\ exp < BX + FB0 + W -> Inexact(inLow, inLow # a)
        [] OTHER -> Inexact(inHigh, inHigh # a)

float128_scalbn(a, n, s) ==
  IF extractFloat128Exp(a) = EX \/ Zero128(a) THEN Exact(a)
  ELSE normalizeRoundAndPackFloat128(extractFloat128Sign(a), extractFloat128Exp(a) + n - 1, Sig0(a), a.low, s)

(***************************************************************************)
(* Arithmetic                                                               *)
(***************************************************************************)

addFloat128Sigs(a, b, zSign, s) ==
  LET aExp == extractFloat128Exp(a)   bExp == extractFloat128Exp(b)
      expDiff == aExp - bExp
      big == IF expDiff > 0 THEN a ELSE b
      small == IF expDiff > 0 THEN b ELSE a
      dist == (IF expDiff > 0 THEN expDiff ELSE - expDiff) - Flag(extractFloat128Exp(small) = 0)
      t == shift128ExtraRightJamming(Sig0(small), small.low, 0, dist)
      zExp == extractFloat128Exp(big)
      same == add128(extractFloat128Frac0(a), a.low, extractFloat128Frac0(b), b.low)
      sum == add128(extractFloat128Frac0(big) + H0, big.low, t[1], t[2])
      Right(z0, z1, z2) == LET z == shift128ExtraRightJamming(z0, z1, z2, 1) IN roundAndPackFloat128(zSign, zExp, z[1], z[2], z[3], s)
  IN  CASE zExp = EX ->
             IF NaN128(a) \/ NaN128(b) THEN propagateFloat128NaN(a, b, s) ELSE Exact(IF expDiff >= 0 THEN a ELSE Inf128(zSign))
        [] expDiff = 0 /\ zExp = 0 ->
             Exact(IF s.ftz THEN packFloat128(zSign, 0, 0, 0) ELSE packFloat128(zSign, 0, same[1], same[2]))
        [] expDiff = 0 /\ zExp \in 1 .. EX - 1 -> Right(same[1] + 2 * H0, same[2], 0)
        [] OTHER -> IF sum[1] < 2 * H0 THEN roundAndPackFloat128(zSign, zExp - 1, sum[1], sum[2], t[3], s)
                    ELSE Right(sum[1], sum[2], t[3])

subFloat128Sigs(a, b, zSign, s) ==
  LET aExp == extractFloat128Exp(a)   bExp == extractFloat128Exp(b)
      expDiff == aExp - bExp
      Up(x, h) == shortShift128Left(extractFloat128Frac0(x) + (IF h THEN H0 ELSE 0), x.low, EBX - 1)
      aSig == Up(a, expDiff # 0 /\ aExp # 0)   bSig == Up(b, expDiff # 0 /\ bExp # 0)
      aBigger == expDiff > 0 \/ (expDiff = 0 /\ lt128(bSig[1], bSig[2], aSig[1], aSig[2]))
      big == IF aBigger THEN aSig ELSE bSig
      small == IF aBigger THEN bSig ELSE aSig
      smallExp == IF aBigger THEN bExp ELSE aExp
      t == IF expDiff = 0 THEN small
           ELSE shift128RightJamming(small[1], small[2], (IF aBigger THEN expDiff ELSE - expDiff) - Flag(smallExp = 0))
      z == sub128(big[1], big[2], t[1], t[2])
      zExp == IF expDiff = 0 /\ aExp = 0 THEN 1 ELSE IF aBigger THEN aExp ELSE bExp
  IN  CASE aExp = EX \/ bExp = EX ->
             IF NaN128(a) \/ NaN128(b) THEN propagateFloat128NaN(a, b, s)
             ELSE IF expDiff = 0 THEN Invalid128
             ELSE Exact(IF expDiff > 0 THEN a ELSE Inf128(1 - zSign))
        [] aExp # EX /\ bExp # EX /\ expDiff = 0 /\ aSig = bSig -> Exact(packFloat128(Flag(s.mode = "down"), 0, 0, 0))
        [] OTHER -> normalizeRoundAndPackFloat128(IF aBigger THEN zSign ELSE 1 - zSign, (zExp - 1) - (EBX - 1), z[1], z[2], s)

float128_add(a, b, s) ==
  LET aSign == extractFloat128Sign(a)
  IN  IF aSign = extractFloat128Sign(b) THEN addFloat128Sigs(a, b, aSign, s) ELSE subFloat128Sigs(a, b, aSign, s)
float128_sub(a, b, s) ==
  LET aSign == extractFloat128Sign(a)
  IN  IF aSign = extractFloat128Sign(b) THEN subFloat128Sigs(a, b, aSign, s) ELSE addFloat128Sigs(a, b, aSign, s)

\* The fraction of b is multiplied; a itself is added for b's hidden bit.
float128_mul(a, b, s) ==
  LET zSign == Xor(extractFloat128Sign(a), extractFloat128Sign(b))
      x == Normal128(a)   y == Normal128(b)
      bf == shortShift128Left(y.sig[1], y.sig[2], EBX + 1)
      p == mul128To256(x.sig[1], x.sig[2], bf[1], bf[2])
      sum == add128(p[1], p[2], x.sig[1], x.sig[2])
      z2 == Sticky(p[3], p[4] # 0)
      zExp == x.exp + y.exp - (BX + 1)
      r == shift128ExtraRightJamming(sum[1], sum[2], z2, 1)
  IN  CASE NaN128(a) \/ NaN128(b) -> propagateFloat128NaN(a, b, s)
        [] (Infinite128(a) /\ Zero128(b)) \/ (Zero128(a) /\ Infinite128(b)) -> Invalid128
        [] (Infinite128(a) /\ ~ Zero128(b) /\ ~ NaN128(b)) \/ (Infinite128(b) /\ ~ Zero128(a) /\ ~ NaN128(a)) -> Exact(Inf128(zSign))
        [] (Zero128(a) /\ extractFloat128Exp(b) # EX) \/ (Zero128(b) /\ extractFloat128Exp(a) # EX) ->
             Exact(packFloat128(zSign, 0, 0, 0))
        [] OTHER -> IF sum[1] >= 2 * H0 THEN roundAndPackFloat128(zSign, zExp + 1, r[1], r[2], r[3], s)
                    ELSE roundAndPackFloat128(zSign, zExp, sum[1], sum[2], z2, s)

\* How often b is added to the number r of three words until it is not negative.
Corrections192(r, b0, b1) ==
  LET R[n \in Nat] == IF n = 0 THEN r ELSE add192(R[n - 1][1], R[n - 1][2], R[n - 1][3], 0, b0, b1)
      n == CHOOSE k \in 0 .. 15 : ~ Negative(R[k][1]) /\ \A i \in 0 .. k - 1 : Negative(R[i][1])
  IN  [n |-> n, rem |-> R[n]]

Quot128(a, b) ==
  LET est0 == estimateDiv128To64(a[1], a[2], b[1])
      t == mul128By64To192(b[1], b[2], est0)
      c == Corrections192(sub192(a[1], a[2], 0, t[1], t[2], t[3]), b[1], b[2])
      est1 == estimateDiv128To64(c.rem[2], c.rem[3], b[1])
      u == mul128By64To192(b[1], b[2], est1)
      d == Corrections192(sub192(c.rem[2], c.rem[3], 0, u[1], u[2], u[3]), b[1], b[2])
  IN  <<est0 - c.n, IF est1 % 2 ^ (EBX - 1) <= 4 THEN Sticky((est1 - d.n) % Base, d.rem # <<0, 0, 0>>) ELSE est1>>

float128_div(a, b, s) ==
  LET zSign == Xor(extractFloat128Sign(a), extractFloat128Sign(b))
      x == Normal128(a)   y == Normal128(b)
      n == shortShift128Left(x.sig[1], x.sig[2], EBX)
      m == shortShift128Left(y.sig[1], y.sig[2], EBX)
      big == le128(m[1], m[2], n[1], n[2])
      q == Quot128(IF big THEN shift128Right(n[1], n[2], 1) ELSE n, m)
      z == shift128ExtraRightJamming(q[1], q[2], 0, EBX)
      finiteA == extractFloat128Exp(a) # EX   finiteB == extractFloat128Exp(b) # EX
  IN  CASE NaN128(a) \/ NaN128(b) -> propagateFloat128NaN(a, b, s)
        [] (Infinite128(a) /\ Infinite128(b)) \/ (Zero128(a) /\ Zero128(b)) -> Invalid128
        [] Infinite128(a) /\ finiteB -> Exact(Inf128(zSign))
        [] Infinite128(b) /\ finiteA -> Exact(packFloat128(zSign, 0, 0, 0))
        [] Zero128(b) /\ finiteA /\ ~ Zero128(a) -> Res(Inf128(zSign), {"divbyzero"})
        [] Zero128(a) /\ finiteB /\ ~ Zero128(b) -> Exact(packFloat128(zSign, 0, 0, 0))
        [] OTHER -> roundAndPackFloat128(zSign, x.exp - y.exp + (BX - 2) + Flag(big), z[1], z[2], z[3], s)

\* A quotient estimated from above, made one from below.
Below4(q) == IF 4 < q THEN q - 4 ELSE 0

\* W - 3 bits of the quotient at a time.
float128_rem(a, b, s) ==
  LET x == Normal128(a)   y == Normal128(b)
      diff == x.exp - y.exp
      start == shortShift128Left(x.sig[1], x.sig[2], EBX - Flag(diff < 0))
      m == shortShift128Left(y.sig[1], y.sig[2], EBX)
      q0 == Flag(le128(m[1], m[2], start[1], start[2]))
      A[d \in Int] == \* the rest when expDiff, less W, is d
        IF d = diff - W THEN IF q0 = 1 THEN sub128(start[1], start[2], m[1], m[2]) ELSE start
        ELSE LET p == A[d + W - 3]
                 t == mul128By64To192(m[1], m[2], Below4(estimateDiv128To64(p[1], p[2], m[1])))
                 u == shortShift192Left(t[1], t[2], t[3], W - 3)
                 v == shortShift128Left(p[1], p[2], W - 3)
             IN  sub128(v[1], 0, u[1], u[2])
      d == IF diff <= W THEN diff - W ELSE CHOOSE n \in (4 - W) .. 0 : ((diff - W) - n) % (W - 3) = 0
      last == A[d]
      more == d + W > 0
      q1 == Below4(estimateDiv128To64(last[1], last[2], m[1])) \div 2 ^ (- d)
      m2 == shift128Right(m[1], m[2], EBX - 3)
      e == d + (W - (EBX - 3))
      l2 == IF ~ more THEN shift128Right(last[1], last[2], EBX - 3)
            ELSE IF e < 0 THEN shift128Right(last[1], last[2], - e) ELSE shortShift128Left(last[1], last[2], e)
      t2 == mul128By64To192(m2[1], m2[2], q1)
      rest == IF more THEN sub128(l2[1], l2[2], t2[2], t2[3]) ELSE l2
      R[n \in Nat] == IF n = 0 THEN rest ELSE sub128(R[n - 1][1], R[n - 1][2], m2[1], m2[2])
      k == CHOOSE n \in 1 .. 15 : Negative(R[n][1]) /\ \A i \in 1 .. n - 1 : ~ Negative(R[i][1])
      mean == add128(R[k][1], R[k][2], R[k - 1][1], R[k - 1][2])
      q == (IF more THEN q1 ELSE q0) + k
      z == IF Negative(mean[1]) \/ (mean = <<0, 0>> /\ q % 2 = 1) THEN R[k - 1] ELSE R[k]
      neg == Negative(z[1])
      abs == IF neg THEN sub128(0, 0, z[1], z[2]) ELSE z
  IN  CASE NaN128(a) \/ NaN128(b) -> propagateFloat128NaN(a, b, s)
        [] (Infinite128(a) /\ ~ NaN128(b)) \/ (Zero128(b) /\ extractFloat128Exp(a) # EX) -> Invalid128
        [] extractFloat128Exp(a) # EX /\ ~ Zero128(b) /\ (Infinite128(b) \/ Zero128(a) \/ diff < -1) /\ ~ NaN128(b) -> Exact(a)
        [] OTHER -> normalizeRoundAndPackFloat128(Xor(extractFloat128Sign(a), Flag(neg)), y.exp - 4, abs[1], abs[2], s)

float128_sqrt(a, s) ==
  LET x == Normal128(a)
      n == shortShift128Left(x.sig[1], x.sig[2], (EBX - 2) - (x.exp % 2))
      r == SqrtWords(n[1], n[2], EBX - 2)
      z == shift128ExtraRightJamming(r.z0, r.z1, 0, EBX - 1)
  IN  CASE NaN128(a) -> propagateFloat128NaN(a, a, s)
        [] Zero128(a) \/ (Infinite128(a) /\ extractFloat128Sign(a) = 0) -> Exact(a)
        [] extractFloat128Sign(a) = 1 /\ ~ Zero128(a) /\ ~ NaN128(a) -> Invalid128
        [] OTHER -> roundAndPackFloat128(0, ((x.exp - BX) \div 2) + (BX - 1), z[1], z[2], z[3], s)

(***************************************************************************)
(* Comparisons                                                              *)
(***************************************************************************)

Compare128(a, b, quiet, holds) ==
  IF NaN128(a) \/ NaN128(b)
  THEN Res(FALSE, InvalidIf(~ quiet \/ float128_is_signaling_nan(a) \/ float128_is_signaling_nan(b)))
  ELSE Exact(holds)

float128_eq(a, b) == Compare128(a, b, TRUE, EqualWide(a, b, W - 1))
float128_le(a, b) == Compare128(a, b, FALSE, EqualWide(a, b, W - 1) \/ LessWide(a, b, W - 1))
float128_lt(a, b) == Compare128(a, b, FALSE, LessWide(a, b, W - 1))
float128_eq_signaling(a, b) == Compare128(a, b, FALSE, EqualWide(a, b, W - 1))
float128_le_quiet(a, b) == Compare128(a, b, TRUE, EqualWide(a, b, W - 1) \/ LessWide(a, b, W - 1))
float128_lt_quiet(a, b) == Compare128(a, b, TRUE, LessWide(a, b, W - 1))

\* float128_compare_internal: -1, 0, 1, or 2 for unordered
float128_compare(a, b, quiet) ==
  IF NaN128(a) \/ NaN128(b)
  THEN Res(2, InvalidIf(~ quiet \/ float128_is_signaling_nan(a) \/ float128_is_signaling_nan(b)))
  ELSE Exact(IF EqualWide(a, b, W - 1) THEN 0 ELSE IF LessWide(a, b, W - 1) THEN -1 ELSE 1)
=============================================================================
