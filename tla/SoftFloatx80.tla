---------------------------- MODULE SoftFloatx80 ----------------------------
(***************************************************************************)
(* floatx80, the extended double-precision format (fpu/softfloat.c,            *)
(* softfloat-specialize.h): [high, low] with sign and exponent in high and the  *)
(* significand, its leading bit explicit, in the word low.                    *)
(***************************************************************************)
EXTENDS SoftFloatConvert

CONSTANT EBX                        \* bits of the exponent of floatx80 and float128 (15)

\* What the constants must be.
WideAssumption == EBX \in Nat \ {0, 1, 2} /\ EBX < W - 1

BX == 2 ^ (EBX - 1) - 1             \* 0x3FFF
EX == 2 ^ EBX - 1                   \* 0x7FFF

packFloatx80(zSign, zExp, zSig) == [high |-> zSign * 2 ^ EBX + zExp, low |-> zSig]
extractFloatx80Frac(a) == a.low
extractFloatx80Exp(a) == a.high % 2 ^ EBX
extractFloatx80Sign(a) == a.high \div 2 ^ EBX

Infx80(zSign) == packFloatx80(zSign, EX, TopBit)

normalizeFloatx80Subnormal(aSig) ==
  LET n == countLeadingZeros64(aSig) IN [exp |-> 1 - n, sig |-> Shl(aSig, n)]

\* Rounding to the n bits shorter significand of a float32 or float64.
RoundShort(n, zSign, zExp, zSig, s) ==
  LET inc == RoundIncrement(zSign, s, n)
      sub == shift64RightJamming(zSig, 1 - zExp)
      z == CutGuard(zSig, inc, s, n) * 2 ^ n
      tiny == s.tiny \/ zExp < 0 \/ zSig + inc < Base
      lost == sub % 2 ^ n # 0
  IN  IF zExp > EX - 1 \/ (zExp = EX - 1 /\ zSig + inc >= Base)
      THEN Res(IF inc = 0 THEN packFloatx80(zSign, EX - 1, Base - 2 ^ n) ELSE Infx80(zSign), {"overflow", "inexact"})
      ELSE IF zExp <= 0 THEN
        IF s.ftz THEN Exact(packFloatx80(zSign, 0, 0))
        ELSE Raise(Inexact(packFloatx80(zSign, Flag(sub + inc >= TopBit), CutGuard(sub, inc, s, n) * 2 ^ n), lost),
                   IF tiny /\ lost THEN {"underflow"} ELSE {})
      ELSE Inexact(IF zSig + inc >= Base THEN packFloatx80(zSign, zExp + 1, TopBit)
                   ELSE packFloatx80(zSign, IF z = 0 THEN 0 ELSE zExp, z), zSig % 2 ^ n # 0)

\* precision80: flush_to_zero is not asked here.
RoundFull(zSign, zExp, zSig0, zSig1, s) ==
  LET inc == Increment(zSign, zSig1, s)
      sub == shift64ExtraRightJamming(zSig0, zSig1, 1 - zExp)
      z == IF Increment(zSign, sub[2], s) THEN RoundUp(sub[1], sub[2], s) ELSE sub[1]
      tiny == s.tiny \/ zExp < 0 \/ ~ inc \/ zSig0 < Base - 1
  IN  IF zExp > EX - 1 \/ (zExp = EX - 1 /\ zSig0 = Base - 1 /\ inc)
      THEN Res(IF s.mode # "even" /\ ~ Increment(zSign, 1, s) THEN packFloatx80(zSign, EX - 1, Base - 1) ELSE Infx80(zSign),
               {"overflow", "inexact"})
      ELSE IF zExp <= 0
      THEN Raise(Inexact(packFloatx80(zSign, Flag(Increment(zSign, sub[2], s) /\ z >= TopBit), z), sub[2] # 0),
                 IF tiny /\ sub[2] # 0 THEN {"underflow"} ELSE {})
      ELSE Inexact(IF inc THEN IF zSig0 = Base - 1 THEN packFloatx80(zSign, zExp + 1, TopBit)
                               ELSE packFloatx80(zSign, zExp, RoundUp(zSig0, zSig1, s))
                   ELSE packFloatx80(zSign, IF zSig0 = 0 THEN 0 ELSE zExp, zSig0), zSig1 # 0)

roundAndPackFloatx80(prec, zSign, zExp, zSig0, zSig1, s) ==
  CASE prec = 64 -> RoundShort(W - fb(F64) - 1, zSign, zExp, Sticky(zSig0, zSig1 # 0), s)
    [] prec = 32 -> RoundShort(W - fb(F32) - 1, zSign, zExp, Sticky(zSig0, zSig1 # 0), s)
    [] OTHER -> RoundFull(zSign, zExp, zSig0, zSig1, s)

normalizeRoundAndPackFloatx80(prec, zSign, zExp, zSig0, zSig1, s) ==
  LET swap == zSig0 = 0
      n == countLeadingZeros64(IF swap THEN zSig1 ELSE zSig0)
      z == IF swap THEN <<Shl(zSig1, n), 0>> ELSE shortShift128Left(zSig0, zSig1, n)
  IN  roundAndPackFloatx80(prec, zSign, (IF swap THEN zExp - W ELSE zExp) - n, z[1], z[2], s)

(***************************************************************************)
(* NaNs                                                                     *)
(***************************************************************************)

floatx80_default_nan == packFloatx80(1, EX, TopBit + (TopBit \div 2))

floatx80_is_nan(a) == extractFloatx80Exp(a) = EX /\ a.low % TopBit # 0
floatx80_is_signaling_nan(a) ==
  extractFloatx80Exp(a) = EX /\ a.low % (TopBit \div 2) # 0 /\ (a.low \div (TopBit \div 2)) % 2 = 0

\* The payload is the whole significand, the explicit leading bit included.
floatx80ToCommonNaN(a) ==
  [sign |-> extractFloatx80Sign(a), high |-> a.low, low |-> 0, f |-> InvalidIf(floatx80_is_signaling_nan(a))]
commonNaNToFloatx80(c) ==
  Res(packFloatx80(c.sign, EX, IF c.high # 0 THEN c.high ELSE floatx80_default_nan.low), c.f)

propagateFloatx80NaN(a, b, s) ==
  LET Quiet(x) == [x EXCEPT !.low = (@ % (TopBit \div 2)) + TopBit + (TopBit \div 2)]
      aS == floatx80_is_signaling_nan(a)   bS == floatx80_is_signaling_nan(b)
      aN == floatx80_is_nan(a)             bN == floatx80_is_nan(b)
      av == Quiet(a)                       bv == Quiet(b)
      larger == IF av.low < bv.low THEN bv ELSE IF bv.low < av.low THEN av ELSE IF av.high < bv.high THEN av ELSE bv
      z == CASE aS /\ ~ bS -> IF bN THEN bv ELSE av
             [] ~ aS /\ aN /\ (bS \/ ~ bN) -> av
             [] (aS /\ bS) \/ (~ aS /\ aN /\ ~ bS /\ bN) -> larger
             [] OTHER -> bv
  IN  IF s.dnan THEN Exact(floatx80_default_nan) ELSE Res(z, InvalidIf(aS \/ bS))

Invalidx80 == Res(floatx80_default_nan, {"invalid"})
Infinitex80(a) == extractFloatx80Exp(a) = EX /\ a.low % TopBit = 0
Zerox80(a) == extractFloatx80Exp(a) = 0 /\ a.low = 0

\* Exponent and normalized significand of a finite number that is not zero.
Normalx80(a) ==
  IF extractFloatx80Exp(a) = 0 THEN normalizeFloatx80Subnormal(a.low) ELSE [exp |-> extractFloatx80Exp(a), sig |-> a.low]

(***************************************************************************)
(* Conversions                                                              *)
(***************************************************************************)

int32_to_floatx80(a) ==
  LET n == CountLeadingZeros(Abs(a), W32) + (W - W32)
  IN  IF a = 0 THEN packFloatx80(0, 0, 0) ELSE packFloatx80(SignOf(a), BX + W - 1 - n, Abs(a) * 2 ^ n)
int64_to_floatx80(a) ==
  LET n == countLeadingZeros64(Abs(a))
  IN  IF a = 0 THEN packFloatx80(0, 0, 0) ELSE packFloatx80(SignOf(a), BX + W - 1 - n, Abs(a) * 2 ^ n)

ToFloatx80(f, a) ==
  LET sign == extractSign(f, a)
      x == Normal(f, a)
  IN  CASE IsNaN(f, a) -> commonNaNToFloatx80(ToCommonNaN(f, a))
        [] IsInf(f, a) -> Exact(Infx80(sign))
        [] IsZero(f, a) -> Exact(packFloatx80(sign, 0, 0))
        [] OTHER -> Exact(packFloatx80(sign, x.exp + (BX - bias(f)), Shl(x.sig, W - fb(f) - 1)))
float32_to_floatx80(a) == ToFloatx80(F32, a)
float64_to_floatx80(a) == ToFloatx80(F64, a)

FromFloatx80(f, a, s) ==
  LET exp == extractFloatx80Exp(a)
      sign == extractFloatx80Sign(a)
      zSig == shift64RightJamming(a.low, W - fb(f) - 1 - g(f))
  IN  CASE floatx80_is_nan(a) -> commonNaNTo(f, floatx80ToCommonNaN(a))
        [] Infinitex80(a) -> Exact(packFloat(f, sign, emax(f), 0))
        [] OTHER -> roundAndPackFloat(f, sign, IF Zerox80(a) THEN 0 ELSE exp - (BX - bias(f)) - 1, zSig, s)
floatx80_to_float32(a, s) == FromFloatx80(F32, a, s)
floatx80_to_float64(a, s) == FromFloatx80(F64, a, s)

TooLargex80(a, w) ==
  Res(IF extractFloatx80Sign(a) = 0 \/ floatx80_is_nan(a) THEN MaxInt(w) ELSE MinInt(w), {"invalid"})

floatx80_to_int32(a, s) ==
  LET n == BX + W - 1 - IntGuard - extractFloatx80Exp(a)
  IN  roundAndPackInt32(IF floatx80_is_nan(a) THEN 0 ELSE extractFloatx80Sign(a),
                        shift64RightJamming(a.low, IF n <= 0 THEN 1 ELSE n), s)

floatx80_to_int64(a, s) ==
  LET n == BX + W - 1 - extractFloatx80Exp(a)
      z == shift64ExtraRightJamming(a.low, 0, n)
  IN  IF n < 0 THEN TooLargex80(a, W) ELSE roundAndPackInt64(extractFloatx80Sign(a), z[1], z[2], s)

\* The significand without the bits behind the point, for exponents of numbers
\* from 1 up; the integer has w bits.
Truncx80(a, w) ==
  LET n == BX + W - 1 - extractFloatx80Exp(a)
      z == a.low \div 2 ^ n
  IN  IF z > MaxInt(w) + extractFloatx80Sign(a) THEN TooLargex80(a, w)
      ELSE Inexact(IF extractFloatx80Sign(a) = 1 THEN - z ELSE z, a.low % 2 ^ n # 0)

floatx80_to_int32_round_to_zero(a) ==
  CASE extractFloatx80Exp(a) > BX + W32 - 1 -> TooLargex80(a, W32)
    [] extractFloatx80Exp(a) < BX -> Inexact(0, ~ Zerox80(a))
    [] OTHER -> Truncx80(a, W32)
floatx80_to_int64_round_to_zero(a) ==
  CASE extractFloatx80Exp(a) >= BX + W - 1 ->
         IF a.high = 2 ^ EBX + BX + W - 1 /\ a.low % TopBit = 0 THEN Exact(MinInt(W)) ELSE TooLargex80(a, W)
    [] extractFloatx80Exp(a) < BX -> Inexact(0, ~ Zerox80(a))
    [] OTHER -> Truncx80(a, W)

\* A carry out of the significand leaves 0, which becomes the next power of two.
floatx80_round_to_int(a, s) ==
  LET exp == extractFloatx80Exp(a)
      sign == extractFloatx80Sign(a)
      away == s.mode = (IF sign = 1 THEN "down" ELSE "up")
      last == 2 ^ (BX + W - 1 - exp)
      z == CASE s.mode = "even" -> a.low + (last \div 2)
             [] s.mode # "even" /\ away -> a.low + (last - 1)
             [] OTHER -> a.low
      even == s.mode = "even" /\ z % last = 0 /\ (z \div last) % 2 = 1
      cut == ((z - (z % last)) - (IF even THEN last ELSE 0)) % Base
      one == IF s.mode = "even" THEN exp = BX - 1 /\ a.low % TopBit # 0 ELSE away
  IN  CASE floatx80_is_nan(a) -> propagateFloatx80NaN(a, a, s)
        [] exp >= BX + W - 1 /\ ~ floatx80_is_nan(a) -> Exact(a)
        [] exp < BX -> IF exp = 0 /\ a.low % TopBit = 0 THEN Exact(a)
                       ELSE Res(IF one THEN packFloatx80(sign, BX, TopBit) ELSE packFloatx80(sign, 0, 0), {"inexact"})
        [] OTHER -> LET r == IF cut = 0 THEN [high |-> a.high + 1, low |-> TopBit] ELSE [a EXCEPT !.low = cut]
                    IN  Inexact(r, r.low # a.low)

\* Infinities are told by 0x7FF, which is an ordinary exponent here.
floatx80_scalbn(a, n, s) ==
  IF extractFloatx80Exp(a) = emax(F64) \/ Zerox80(a) THEN Exact(a)
  ELSE normalizeRoundAndPackFloatx80(s.prec, extractFloatx80Sign(a), Int16(extractFloatx80Exp(a) + n), a.low, 0, s)

(***************************************************************************)
(* Arithmetic                                                               *)
(***************************************************************************)

addFloatx80Sigs(a, b, zSign, s) ==
  LET aExp == extractFloatx80Exp(a)   bExp == extractFloatx80Exp(b)
      expDiff == aExp - bExp
      small == IF expDiff > 0 THEN b ELSE a
      big == IF expDiff > 0 THEN a ELSE b
      dist == (IF expDiff > 0 THEN expDiff ELSE - expDiff) - Flag(extractFloatx80Exp(small) = 0)
      shifted == IF expDiff = 0 THEN <<small.low, 0>> ELSE shift64ExtraRightJamming(small.low, 0, dist)
      zSig0 == (big.low + shifted[1]) % Base
      right == shift64ExtraRightJamming(zSig0, shifted[2], 1)
      zExp == extractFloatx80Exp(big)
      sub == normalizeFloatx80Subnormal(zSig0)
  IN  CASE zExp = EX ->
             IF floatx80_is_nan(a) \/ floatx80_is_nan(b) THEN propagateFloatx80NaN(a, b, s)
             ELSE Exact(IF expDiff >= 0 THEN a ELSE Infx80(zSign))
        [] zExp = 0 -> roundAndPackFloatx80(s.prec, zSign, sub.exp, sub.sig, 0, s)
        [] OTHER -> IF expDiff # 0 /\ Negative(zSig0) THEN roundAndPackFloatx80(s.prec, zSign, zExp, zSig0, shifted[2], s)
                    ELSE roundAndPackFloatx80(s.prec, zSign, zExp + 1, (right[1] % TopBit) + TopBit, right[2], s)

subFloatx80Sigs(a, b, zSign, s) ==
  LET aExp == extractFloatx80Exp(a)   bExp == extractFloatx80Exp(b)
      expDiff == aExp - bExp
      aBigger == expDiff > 0 \/ (expDiff = 0 /\ b.low < a.low)
      big == IF aBigger THEN a ELSE b
      small == IF aBigger THEN b ELSE a
      dist == (IF aBigger THEN expDiff ELSE - expDiff) - Flag(extractFloatx80Exp(small) = 0)
      shifted == IF expDiff = 0 THEN <<small.low, 0>> ELSE shift128RightJamming(small.low, 0, dist)
      z == sub128(big.low, 0, shifted[1], shifted[2])
      zExp == IF expDiff = 0 /\ aExp = 0 THEN 1 ELSE extractFloatx80Exp(big)
  IN  CASE aExp = EX \/ bExp = EX ->
             IF floatx80_is_nan(a) \/ floatx80_is_nan(b) THEN propagateFloatx80NaN(a, b, s)
             ELSE IF expDiff = 0 THEN Invalidx80
             ELSE Exact(IF expDiff > 0 THEN a ELSE Infx80(1 - zSign))
        [] aExp # EX /\ bExp # EX /\ expDiff = 0 /\ a.low = b.low -> Exact(packFloatx80(Flag(s.mode = "down"), 0, 0))
        [] OTHER -> normalizeRoundAndPackFloatx80(s.prec, IF aBigger THEN zSign ELSE 1 - zSign, zExp, z[1], z[2], s)

floatx80_add(a, b, s) ==
  LET aSign == extractFloatx80Sign(a)
  IN  IF aSign = extractFloatx80Sign(b) THEN addFloatx80Sigs(a, b, aSign, s) ELSE subFloatx80Sigs(a, b, aSign, s)
floatx80_sub(a, b, s) ==
  LET aSign == extractFloatx80Sign(a)
  IN  IF aSign = extractFloatx80Sign(b) THEN subFloatx80Sigs(a, b, aSign, s) ELSE addFloatx80Sigs(a, b, aSign, s)

floatx80_mul(a, b, s) ==
  LET zSign == Xor(extractFloatx80Sign(a), extractFloatx80Sign(b))
      x == Normalx80(a)   y == Normalx80(b)
      p == mul64To128(x.sig, y.sig)
      zExp == x.exp + y.exp - (BX - 1)
      q == shortShift128Left(p[1], p[2], 1)
  IN  CASE floatx80_is_nan(a) \/ floatx80_is_nan(b) -> propagateFloatx80NaN(a, b, s)
        [] (Infinitex80(a) /\ Zerox80(b)) \/ (Zerox80(a) /\ Infinitex80(b)) -> Invalidx80
        [] (Infinitex80(a) /\ ~ Zerox80(b) /\ ~ floatx80_is_nan(b)) \/ (Infinitex80(b) /\ ~ Zerox80(a) /\ ~ floatx80_is_nan(a)) ->
             Exact(Infx80(zSign))
        [] (Zerox80(a) /\ extractFloatx80Exp(b) # EX) \/ (Zerox80(b) /\ extractFloatx80Exp(a) # EX) ->
             Exact(packFloatx80(zSign, 0, 0))
        [] OTHER -> IF p[1] > 0 /\ ~ Negative(p[1]) THEN roundAndPackFloatx80(s.prec, zSign, zExp - 1, q[1], q[2], s)
                    ELSE roundAndPackFloatx80(s.prec, zSign, zExp, p[1], p[2], s)

\* The quotient of two words, exact up to its last bit: the first word always,
\* the second when its bits do not decide the rounding.
Quotx80(a0, a1, b) ==
  LET est0 == estimateDiv128To64(a0, a1, b)
      t == mul64To128(b, est0)
      c == Corrections(sub128(a0, a1, t[1], t[2]), 0, b)
      est1 == estimateDiv128To64(c.rem[2], 0, b)
      u == mul64To128(b, est1)
      d == Corrections(sub128(c.rem[2], 0, u[1], u[2]), 0, b)
  IN  <<est0 - c.n, IF Shl(est1, 1) <= 8 THEN Sticky((est1 - d.n) % Base, d.rem # <<0, 0>>) ELSE est1>>

floatx80_div(a, b, s) ==
  LET zSign == Xor(extractFloatx80Sign(a), extractFloatx80Sign(b))
      x == Normalx80(a)   y == Normalx80(b)
      big == y.sig <= x.sig
      n == IF big THEN shift128Right(x.sig, 0, 1) ELSE <<x.sig, 0>>
      q == Quotx80(n[1], n[2], y.sig)
      finiteA == extractFloatx80Exp(a) # EX   finiteB == extractFloatx80Exp(b) # EX
  IN  CASE floatx80_is_nan(a) \/ floatx80_is_nan(b) -> propagateFloatx80NaN(a, b, s)
        [] (Infinitex80(a) /\ Infinitex80(b)) \/ (Zerox80(a) /\ Zerox80(b)) -> Invalidx80
        [] Infinitex80(a) /\ finiteB -> Exact(Infx80(zSign))
        [] Infinitex80(b) /\ finiteA -> Exact(packFloatx80(zSign, 0, 0))
        [] Zerox80(b) /\ finiteA /\ ~ Zerox80(a) -> Res(Infx80(zSign), {"divbyzero"})
        [] Zerox80(a) /\ finiteB /\ ~ Zerox80(b) -> Exact(packFloatx80(zSign, 0, 0))
        [] OTHER -> roundAndPackFloatx80(s.prec, zSign, x.exp - y.exp + (BX - 1) + Flag(big), q[1], q[2], s)

\* W - 2 bits of the quotient at a time; the last step brings the rest below b,
\* then of the rest and b less the rest the smaller is taken, on a tie the one of
\* the even quotient.
floatx80_rem(a, b, s) ==
  LET x == Normalx80(a)   y == Normalx80(b)
      diff0 == x.exp - y.exp
      start == IF diff0 < 0 THEN shift128Right(x.sig, 0, 1) ELSE <<x.sig, 0>>
      diff == IF diff0 < 0 THEN 0 ELSE diff0
      q0 == Flag(y.sig <= start[1])
      A[d \in Int] == \* the rest when expDiff, less W, is d
        IF d = diff - W THEN <<start[1] - q0 * y.sig, start[2]>>
        ELSE LET p == A[d + W - 2]
                 t == mul64To128(y.sig, Below(estimateDiv128To64(p[1], p[2], y.sig)))
                 r == sub128(p[1], p[2], t[1], t[2])
             IN  shortShift128Left(r[1], r[2], W - 2)
      d == IF diff <= W THEN diff - W ELSE CHOOSE n \in (3 - W) .. 0 : ((diff - W) - n) % (W - 2) = 0
      last == A[d]
      q1 == Below(estimateDiv128To64(last[1], last[2], y.sig)) \div 2 ^ (- d)
      t1 == mul64To128(y.sig, Shl(q1, - d))
      rest == sub128(last[1], last[2], t1[1], t1[2])
      term == IF d + W > 0 THEN shortShift128Left(0, y.sig, - d) ELSE <<y.sig, 0>>
      R[n \in Nat] == IF n = 0 THEN rest ELSE sub128(R[n - 1][1], R[n - 1][2], term[1], term[2])
      k == CHOOSE n \in 0 .. 7 : ~ le128(term[1], term[2], R[n][1], R[n][2]) /\ \A i \in 0 .. n - 1 : le128(term[1], term[2], R[i][1], R[i][2])
      fin == IF d + W > 0 THEN R[k] ELSE last
      q == IF d + W > 0 THEN q1 + k ELSE q0
      alt == sub128(term[1], term[2], fin[1], fin[2])
      other == lt128(alt[1], alt[2], fin[1], fin[2]) \/ (alt = fin /\ q % 2 = 1)
      z == IF other THEN alt ELSE fin
      aSign == extractFloatx80Sign(a)
  IN  CASE floatx80_is_nan(a) \/ floatx80_is_nan(b) -> propagateFloatx80NaN(a, b, s)
        [] Infinitex80(a) /\ ~ floatx80_is_nan(b) -> Invalidx80
        [] Zerox80(b) /\ extractFloatx80Exp(a) # EX -> Invalidx80
        [] extractFloatx80Exp(a) # EX /\ ~ Zerox80(b) /\ (Infinitex80(b) \/ Zerox80(a) \/ diff0 < -1) /\ ~ floatx80_is_nan(b) -> Exact(a)
        [] OTHER -> normalizeRoundAndPackFloatx80(80, IF other THEN 1 - aSign ELSE aSign, y.exp + d + W, z[1], z[2], s)

\* The estimate of the first word is at least the root, and the loop brings it to
\* the root.  The second word is sharpened when it does not decide the rounding.
SqrtWords(a0, a1, n) ==
  LET z0 == Root(a0 * Base + a1)
      double == (2 * z0) % Base
      sq == mul64To128(z0, z0)
      rem == sub128(a0, a1, sq[1], sq[2])
      est == estimateDiv128To64(rem[2], 0, double)
      e == IF est = 0 THEN 1 ELSE est
      t == mul64To128(double, e)
      u == mul64To128(e, e)
      r1 == sub128(rem[2], 0, t[1], t[2])
      R[k \in Nat] == IF k = 0 THEN sub192(r1[1], r1[2], 0, 0, u[1], u[2])
                      ELSE LET v == shortShift128Left(0, e - k, 1)
                           IN  add192(R[k - 1][1], R[k - 1][2], R[k - 1][3], 0, double + v[1], v[2] + 1)
      k == CHOOSE m \in 0 .. 7 : ~ Negative(R[m][1]) /\ \A i \in 0 .. m - 1 : Negative(R[i][1])
  IN  [z0 |-> z0, double |-> double,
       z1 |-> IF est % 2 ^ n <= 5 THEN Sticky(e - k, R[k] # <<0, 0, 0>>) ELSE est]

floatx80_sqrt(a, s) ==
  LET x == Normalx80(a)
      n == shift128Right(x.sig, 0, 2 + (x.exp % 2))
      r == SqrtWords(n[1], n[2], W - 2)
      z == shortShift128Left(0, r.z1, 1)
  IN  CASE floatx80_is_nan(a) -> propagateFloatx80NaN(a, a, s)
        [] Zerox80(a) \/ (Infinitex80(a) /\ extractFloatx80Sign(a) = 0) -> Exact(a)
        [] extractFloatx80Sign(a) = 1 /\ ~ Zerox80(a) /\ ~ floatx80_is_nan(a) -> Invalidx80
        [] OTHER -> roundAndPackFloatx80(s.prec, 0, ((x.exp - BX) \div 2) + BX, (r.double - (r.double % 2)) + z[1], z[2], s)

(***************************************************************************)
(* Comparisons of numbers of two parts; hb is the place of the sign in high.    *)
(***************************************************************************)

Magnitude(a, hb) == [a EXCEPT !.high = @ % 2 ^ hb]
BothZeroWide(a, b, hb) == a.low = 0 /\ b.low = 0 /\ a.high % 2 ^ hb = 0 /\ b.high % 2 ^ hb = 0
EqualWide(a, b, hb) == a = b \/ BothZeroWide(a, b, hb)

LessWide(a, b, hb) ==
  LET aSign == a.high \div 2 ^ hb   bSign == b.high \div 2 ^ hb
  IN  IF aSign # bSign THEN aSign = 1 /\ ~ BothZeroWide(a, b, hb)
      ELSE IF aSign = 1 THEN lt128(b.high, b.low, a.high, a.low) ELSE lt128(a.high, a.low, b.high, b.low)

Comparex80(a, b, quiet, holds) ==
  IF floatx80_is_nan(a) \/ floatx80_is_nan(b)
  THEN Res(FALSE, InvalidIf(~ quiet \/ floatx80_is_signaling_nan(a) \/ floatx80_is_signaling_nan(b)))
  ELSE Exact(holds)

floatx80_eq(a, b) == Comparex80(a, b, TRUE, EqualWide(a, b, EBX))
floatx80_le(a, b) == Comparex80(a, b, FALSE, EqualWide(a, b, EBX) \/ LessWide(a, b, EBX))
floatx80_lt(a, b) == Comparex80(a, b, FALSE, LessWide(a, b, EBX))
floatx80_eq_signaling(a, b) == Comparex80(a, b, FALSE, EqualWide(a, b, EBX))
floatx80_le_quiet(a, b) == Comparex80(a, b, TRUE, EqualWide(a, b, EBX) \/ LessWide(a, b, EBX))
floatx80_lt_quiet(a, b) == Comparex80(a, b, TRUE, LessWide(a, b, EBX))
=============================================================================
