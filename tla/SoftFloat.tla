----------------------------- MODULE SoftFloat -----------------------------
(***************************************************************************)
(* Floating-point emulation (fpu/softfloat.c, softfloat-specialize.h): the     *)
(* formats that fit one word, float32, float64 and float16.  The algorithms    *)
(* are the same for float32 and float64 up to the sizes of the fields; the     *)
(* sizes are constants here, and every literal of the code is the expression   *)
(* of the sizes it stands for.  A value is its bit pattern, an operation       *)
(* takes the status s and yields a record of the result z and the set f of     *)
(* flags it raises.                                                          *)
(***************************************************************************)
EXTENDS SoftFloatMacros, FiniteSets

CONSTANTS
  W32, EB32,          \* bits of float32 and int32, and of float32's exponent (32, 8)
  EB64,               \* bits of float64's exponent (11); float64 and int64 have W bits (64)
  EB16, FB16          \* bits of the exponent and of the fraction of float16 (5, 10)

\* What the constants must be.
FormatAssumption ==
  /\ {W32, EB32, EB64, EB16, FB16} \subseteq Nat \ {0}
  /\ W32 > EB32 + 1 /\ W > EB64 + 1

F32 == [w |-> W32, eb |-> EB32]
F64 == [w |-> W, eb |-> EB64]

fb(f) == f.w - 1 - f.eb             \* bits of the fraction (23, 52)
g(f) == f.eb - 1                    \* guard bits below the fraction while rounding (7, 10)
bias(f) == 2 ^ (f.eb - 1) - 1       \* 0x7F, 0x3FF
emax(f) == 2 ^ f.eb - 1             \* 0xFF, 0x7FF: infinities and NaNs
hidden(f) == 2 ^ fb(f)              \* the implicit bit of a significand
IntGuard == EB32 - 1                \* 7: guard bits of roundAndPackInt32

\* float_status: rounding mode "even", "down", "up" or "zero"; whether tininess is
\* detected before rounding; flush_to_zero; default_nan_mode; floatx80's precision
Status == [mode : {"even", "down", "up", "zero"}, tiny : BOOLEAN, ftz : BOOLEAN, dnan : BOOLEAN,
           prec : {32, 64, 80}]

Res(z, f) == [z |-> z, f |-> f]
Exact(z) == Res(z, {})
Inexact(z, c) == Res(z, IF c THEN {"inexact"} ELSE {})
Raise(r, f) == [r EXCEPT !.f = @ \cup f]
Xor(a, b) == (a + b) % 2

(***************************************************************************)
(* Rounding and packing                                                     *)
(***************************************************************************)

extractFrac(f, a) == a % 2 ^ fb(f)
extractExp(f, a) == (a \div 2 ^ fb(f)) % 2 ^ f.eb
extractSign(f, a) == a \div 2 ^ (f.w - 1)

\* The fields are added: a carry out of the significand goes to the exponent.
packFloat(f, zSign, zExp, zSig) == (zSign * 2 ^ (f.w - 1) + zExp * 2 ^ fb(f) + zSig) % 2 ^ f.w
packFloat32(zSign, zExp, zSig) == packFloat(F32, zSign, zExp, zSig)
packFloat64(zSign, zExp, zSig) == packFloat(F64, zSign, zExp, zSig)

\* What is added before n guard bits are cut.
RoundIncrement(zSign, s, n) ==
  CASE s.mode = "even" -> 2 ^ (n - 1)
    [] s.mode = "zero" \/ (zSign = 1 /\ s.mode = "up") \/ (zSign = 0 /\ s.mode = "down") -> 0
    [] OTHER -> 2 ^ n - 1

\* n guard bits are cut; a tie goes to even.
CutGuard(zSig, inc, s, n) ==
  LET z == (zSig + inc) \div 2 ^ n
  IN  IF s.mode = "even" /\ zSig % 2 ^ n = 2 ^ (n - 1) THEN z - (z % 2) ELSE z

MaxInt(w) == 2 ^ (w - 1) - 1
MinInt(w) == -(2 ^ (w - 1))

roundAndPackInt32(zSign, absZ, s) ==
  LET z == CutGuard(absZ, RoundIncrement(zSign, s, IntGuard), s, IntGuard)
  IN  IF z > MaxInt(W32) + zSign
      THEN Res(IF zSign = 1 THEN MinInt(W32) ELSE MaxInt(W32), {"invalid"})
      ELSE Inexact(IF zSign = 1 THEN - z ELSE z, absZ % 2 ^ IntGuard # 0)

\* Whether a word z1 of bits behind the point rounds the number before it up.
Increment(zSign, z1, s) ==
  CASE s.mode = "even" -> Negative(z1)
    [] s.mode = "zero" -> FALSE
    [] OTHER -> s.mode = (IF zSign = 1 THEN "down" ELSE "up") /\ z1 # 0

\* The number before the point, rounded up; a tie goes to even.
RoundUp(z0, z1, s) ==
  IF s.mode = "even" /\ Shl(z1, 1) = 0 THEN (z0 + 1) - ((z0 + 1) % 2) ELSE z0 + 1

roundAndPackInt64(zSign, absZ0, absZ1, s) ==
  LET z == IF Increment(zSign, absZ1, s) THEN RoundUp(absZ0, absZ1, s) ELSE absZ0
  IN  IF z > MaxInt(W) + zSign
      THEN Res(IF zSign = 1 THEN MinInt(W) ELSE MaxInt(W), {"invalid"})
      ELSE Inexact(IF zSign = 1 THEN - z ELSE z, absZ1 # 0)

normalizeSubnormal(f, aSig) ==
  LET n == CountLeadingZeros(aSig, f.w) - f.eb
  IN  [exp |-> 1 - n, sig |-> aSig * 2 ^ n]

IsTiny(f, zExp, zSig, inc, s) == s.tiny \/ zExp < -1 \/ zSig + inc < 2 ^ (f.w - 1)

Denormalize(f, zExp, zSig) == ShiftRightJamming(zSig, - zExp, f.w)

\* zSig has its binary point behind bit w - 2; zExp is one less than the exponent.
roundAndPackFloat(f, zSign, zExp, zSig, s) ==
  LET inc == RoundIncrement(zSign, s, g(f))
      Finish(exp, sig, fl) ==
        LET z == CutGuard(sig, inc, s, g(f))
        IN  Raise(Inexact(packFloat(f, zSign, IF z = 0 THEN 0 ELSE exp, z), sig % 2 ^ g(f) # 0), fl)
      sub == Denormalize(f, zExp, zSig)
  IN  IF zExp > emax(f) - 2 \/ (zExp = emax(f) - 2 /\ zSig + inc >= 2 ^ (f.w - 1))
      THEN Res(packFloat(f, zSign, emax(f), IF inc = 0 THEN -1 ELSE 0), {"overflow", "inexact"})
      ELSE IF zExp >= 0 THEN Finish(zExp, zSig, {})
      ELSE IF s.ftz THEN Exact(packFloat(f, zSign, 0, 0))
      ELSE Finish(0, sub, IF IsTiny(f, zExp, zSig, inc, s) /\ sub % 2 ^ g(f) # 0 THEN {"underflow"} ELSE {})
roundAndPackFloat32(zSign, zExp, zSig, s) == roundAndPackFloat(F32, zSign, zExp, zSig, s)
roundAndPackFloat64(zSign, zExp, zSig, s) == roundAndPackFloat(F64, zSign, zExp, zSig, s)

\* A word with its top bit set is shifted by -1, which the processor takes modulo
\* the width of the word.
normalizeRoundAndPackFloat(f, zSign, zExp, zSig, s) ==
  LET n == CountLeadingZeros(zSig, f.w) - 1
  IN  roundAndPackFloat(f, zSign, zExp - n, (zSig % 2 ^ (f.w - (n % f.w))) * 2 ^ (n % f.w), s)
normalizeRoundAndPackFloat32(zSign, zExp, zSig, s) == normalizeRoundAndPackFloat(F32, zSign, zExp, zSig, s)
normalizeRoundAndPackFloat64(zSign, zExp, zSig, s) == normalizeRoundAndPackFloat(F64, zSign, zExp, zSig, s)

(***************************************************************************)
(* NaNs (softfloat-specialize.h, with the choices made for the i386)          *)
(***************************************************************************)

IsNaN(f, a) == extractExp(f, a) = emax(f) /\ extractFrac(f, a) # 0
QuietBit(f) == 2 ^ (fb(f) - 1)

default_nan(f) == packFloat(f, 1, emax(f), QuietBit(f))
float32_default_nan == default_nan(F32)
float64_default_nan == default_nan(F64)

\* is_nan tells the quiet NaNs only.
is_nan(f, a) == IsNaN(f, a) /\ extractFrac(f, a) >= QuietBit(f)
is_signaling_nan(f, a) == IsNaN(f, a) /\ extractFrac(f, a) < QuietBit(f)
float32_is_signaling_nan(a) == is_signaling_nan(F32, a)
float64_is_signaling_nan(a) == is_signaling_nan(F64, a)

Invalid(f) == Res(default_nan(f), {"invalid"})
InvalidIf(c) == IF c THEN {"invalid"} ELSE {}

Quieted(f, a) == IF is_signaling_nan(f, a) THEN a + QuietBit(f) ELSE a

\* The NaN with the larger significand, then the one without a sign.
LargerSignificand(f, av, bv) ==
  LET m == 2 ^ (f.w - 1)
  IN  IF av % m < bv % m THEN bv ELSE IF bv % m < av % m THEN av ELSE IF av < bv THEN av ELSE bv

\* In default_nan_mode nothing is raised.
propagateNaN(f, a, b, s) ==
  LET aS == is_signaling_nan(f, a)   bS == is_signaling_nan(f, b)
      av == Quieted(f, a)            bv == Quieted(f, b)
      z == CASE aS /\ ~ bS -> IF is_nan(f, b) THEN bv ELSE av
             [] is_nan(f, a) /\ (bS \/ ~ is_nan(f, b)) -> av
             [] (aS /\ bS) \/ (is_nan(f, a) /\ is_nan(f, b)) -> LargerSignificand(f, av, bv)
             [] OTHER -> bv
  IN  IF s.dnan THEN Exact(default_nan(f)) ELSE Res(z, InvalidIf(aS \/ bS))
propagateFloat32NaN(a, b, s) == propagateNaN(F32, a, b, s)
propagateFloat64NaN(a, b, s) == propagateNaN(F64, a, b, s)

\* Mutant: a signaling NaN raises nothing.
ToCommonNaN_silent(f, a) ==
  [sign |-> extractSign(f, a), high |-> Shl(extractFrac(f, a), W - fb(f)), low |-> 0, f |-> {}]

\* The canonical NaN: its payload starts at the top of the word high.
ToCommonNaN(f, a) ==
  [sign |-> extractSign(f, a), high |-> Shl(extractFrac(f, a), W - fb(f)), low |-> 0,
   f |-> InvalidIf(is_signaling_nan(f, a))]

float32ToCommonNaN(a) == ToCommonNaN(F32, a)
float64ToCommonNaN(a) == ToCommonNaN(F64, a)

commonNaNTo(f, c) ==
  LET mantissa == Shr(c.high, W - fb(f))
  IN  Res(IF mantissa # 0 THEN packFloat(f, c.sign, emax(f), mantissa) ELSE default_nan(f), c.f)

commonNaNToFloat32(c) == commonNaNTo(F32, c)
commonNaNToFloat64(c) == commonNaNTo(F64, c)

(***************************************************************************)
(* Addition and subtraction                                                 *)
(***************************************************************************)

\* The operand with the smaller exponent, aligned: a subnormal one has exponent 1
\* and no hidden bit h.
Aligned(f, sig, exp, diff, h) ==
  IF exp = 0 THEN ShiftRightJamming(sig, diff - 1, f.w) ELSE ShiftRightJamming(sig + h, diff, f.w)

addFloatSigs(f, a, b, zSign, s) ==
  LET guard == 2 ^ (g(f) - 1)
      aSig == extractFrac(f, a) * guard   aExp == extractExp(f, a)
      bSig == extractFrac(f, b) * guard   bExp == extractExp(f, b)
      expDiff == aExp - bExp
      h == hidden(f) * guard
      sum == IF expDiff > 0 THEN (aSig + h) + Aligned(f, bSig, bExp, expDiff, h)
             ELSE (bSig + h) + Aligned(f, aSig, aExp, - expDiff, h)
      zExp == IF expDiff > 0 THEN aExp ELSE bExp
  IN  CASE zExp = emax(f) ->
             IF (aExp = emax(f) /\ aSig # 0) \/ (bExp = emax(f) /\ bSig # 0) THEN propagateNaN(f, a, b, s)
             ELSE Exact(packFloat(f, zSign, emax(f), 0))
        [] expDiff = 0 /\ zExp = 0 ->
             Exact(packFloat(f, zSign, 0, IF s.ftz THEN 0 ELSE (aSig + bSig) \div guard))
        [] expDiff = 0 /\ zExp \in 1 .. emax(f) - 1 -> roundAndPackFloat(f, zSign, zExp, 2 * h + aSig + bSig, s)
        [] OTHER -> IF 2 * sum < 2 ^ (f.w - 1) THEN roundAndPackFloat(f, zSign, zExp - 1, 2 * sum, s)
                    ELSE roundAndPackFloat(f, zSign, zExp, sum, s)
addFloat32Sigs(a, b, zSign, s) == addFloatSigs(F32, a, b, zSign, s)
addFloat64Sigs(a, b, zSign, s) == addFloatSigs(F64, a, b, zSign, s)

subFloatSigs(f, a, b, zSign, s) ==
  LET guard == 2 ^ g(f)
      aSig == extractFrac(f, a) * guard   aExp == extractExp(f, a)
      bSig == extractFrac(f, b) * guard   bExp == extractExp(f, b)
      expDiff == aExp - bExp
      h == hidden(f) * guard
      exp == IF aExp = 0 THEN 1 ELSE aExp          \* of both, when they are equal
      aBigger == expDiff > 0 \/ (expDiff = 0 /\ bSig < aSig)
      diff == CASE expDiff > 0 -> (aSig + h) - Aligned(f, bSig, bExp, expDiff, h)
                [] expDiff < 0 -> (bSig + h) - Aligned(f, aSig, aExp, - expDiff, h)
                [] OTHER -> IF aBigger THEN aSig - bSig ELSE bSig - aSig
      zExp == IF expDiff > 0 THEN aExp ELSE IF expDiff < 0 THEN bExp ELSE exp
  IN  CASE zExp = emax(f) ->
             IF (aExp = emax(f) /\ aSig # 0) \/ (bExp = emax(f) /\ bSig # 0) THEN propagateNaN(f, a, b, s)
             ELSE IF expDiff = 0 THEN Invalid(f)
             ELSE Exact(packFloat(f, IF expDiff > 0 THEN zSign ELSE 1 - zSign, emax(f), 0))
        [] expDiff = 0 /\ aSig = bSig /\ zExp # emax(f) ->
             Exact(packFloat(f, IF s.mode = "down" THEN 1 ELSE 0, 0, 0))
        [] OTHER -> normalizeRoundAndPackFloat(f, IF aBigger THEN zSign ELSE 1 - zSign, zExp - 1, diff, s)
subFloat32Sigs(a, b, zSign, s) == subFloatSigs(F32, a, b, zSign, s)
subFloat64Sigs(a, b, zSign, s) == subFloatSigs(F64, a, b, zSign, s)

SameSign(f, a, b) == extractSign(f, a) = extractSign(f, b)

float32_add(a, b, s) ==
  IF SameSign(F32, a, b) THEN addFloat32Sigs(a, b, extractSign(F32, a), s) ELSE subFloat32Sigs(a, b, extractSign(F32, a), s)
float32_sub(a, b, s) ==
  IF SameSign(F32, a, b) THEN subFloat32Sigs(a, b, extractSign(F32, a), s) ELSE addFloat32Sigs(a, b, extractSign(F32, a), s)
float64_add(a, b, s) ==
  IF SameSign(F64, a, b) THEN addFloat64Sigs(a, b, extractSign(F64, a), s) ELSE subFloat64Sigs(a, b, extractSign(F64, a), s)
float64_sub(a, b, s) ==
  IF SameSign(F64, a, b) THEN subFloat64Sigs(a, b, extractSign(F64, a), s) ELSE addFloat64Sigs(a, b, extractSign(F64, a), s)

(***************************************************************************)
(* Multiplication, division, remainder, square root                          *)
(***************************************************************************)

IsInf(f, a) == extractExp(f, a) = emax(f) /\ extractFrac(f, a) = 0
IsZero(f, a) == extractExp(f, a) = 0 /\ extractFrac(f, a) = 0

\* Exponent and significand of a number that is not zero, infinite or a NaN, the
\* leading bit at the hidden bit's place.
Normal(f, a) ==
  IF extractExp(f, a) = 0 THEN normalizeSubnormal(f, extractFrac(f, a))
  ELSE [exp |-> extractExp(f, a), sig |-> extractFrac(f, a) + hidden(f)]

\* The upper word of the product x * y, jammed.
High32(x, y) == ShiftRightJamming(x * y, W32, 2 * W32)
High64(x, y) == LET z == mul64To128(x, y) IN Sticky(z[1], z[2] # 0)

FloatMul(f, a, b, s) ==
  LET zSign == Xor(extractSign(f, a), extractSign(f, b))
      x == Normal(f, a)   y == Normal(f, b)
      x1 == x.sig * 2 ^ g(f)   y1 == y.sig * 2 ^ (g(f) + 1)
      zSig == IF f = F32 THEN High32(x1, y1) ELSE High64(x1, y1)
      zExp == x.exp + y.exp - bias(f)
  IN  CASE IsNaN(f, a) \/ IsNaN(f, b) -> propagateNaN(f, a, b, s)
        [] (IsInf(f, a) /\ IsZero(f, b)) \/ (IsZero(f, a) /\ IsInf(f, b)) -> Invalid(f)
        [] (IsInf(f, a) /\ ~ IsZero(f, b) /\ ~ IsNaN(f, b)) \/ (IsInf(f, b) /\ ~ IsZero(f, a) /\ ~ IsNaN(f, a)) ->
             Exact(packFloat(f, zSign, emax(f), 0))
        [] (IsZero(f, a) \/ IsZero(f, b)) /\ extractExp(f, a) # emax(f) /\ extractExp(f, b) # emax(f) ->
             Exact(packFloat(f, zSign, 0, 0))
        [] OTHER -> IF zSig < 2 ^ (f.w - 2) THEN roundAndPackFloat(f, zSign, zExp - 1, zSig * 2, s)
                    ELSE roundAndPackFloat(f, zSign, zExp, zSig, s)

float32_mul(a, b, s) == FloatMul(F32, a, b, s)
float64_mul(a, b, s) == FloatMul(F64, a, b, s)

\* The quotient of x, with a word of zeros behind it, by y: exact up to its last
\* bit, and the bit is set when a remainder is left.
Quot32(x, y) ==
  LET zSig == (x * 2 ^ W32) \div y
  IN  IF zSig % 2 ^ (g(F32) - 1) = 0 THEN Sticky(zSig, y * zSig # x * 2 ^ W32) ELSE zSig

\* How often b is added to the number r of two words until it is not negative.
Corrections(r, b0, b1) ==
  LET R[n \in Nat] == IF n = 0 THEN r ELSE add128(R[n - 1][1], R[n - 1][2], b0, b1)
      n == CHOOSE k \in 0 .. 7 : ~ Negative(R[k][1]) /\ \A i \in 0 .. k - 1 : Negative(R[i][1])
  IN  [n |-> n, rem |-> R[n]]

\* The estimate is corrected when its last bits do not decide the rounding.
Quot64(x, y) ==
  LET zSig == estimateDiv128To64(x, 0, y)
      term == mul64To128(y, zSig)
      c == Corrections(sub128(x, 0, term[1], term[2]), 0, y)
  IN  IF zSig % 2 ^ (g(F64) - 1) <= 2 THEN Sticky(zSig - c.n, c.rem[2] # 0) ELSE zSig

FloatDiv(f, a, b, s) ==
  LET zSign == Xor(extractSign(f, a), extractSign(f, b))
      x == Normal(f, a)   y == Normal(f, b)
      aSig == x.sig * 2 ^ g(f)   bSig == y.sig * 2 ^ (g(f) + 1)
      big == bSig <= 2 * aSig
      aSig1 == IF big THEN aSig \div 2 ELSE aSig
      zSig == IF f = F32 THEN Quot32(aSig1, bSig) ELSE Quot64(aSig1, bSig)
  IN  CASE IsNaN(f, a) \/ IsNaN(f, b) -> propagateNaN(f, a, b, s)
        [] (IsInf(f, a) /\ IsInf(f, b)) \/ (IsZero(f, a) /\ IsZero(f, b)) -> Invalid(f)
        [] IsInf(f, a) /\ extractExp(f, b) # emax(f) -> Exact(packFloat(f, zSign, emax(f), 0))
        [] IsZero(f, b) /\ ~ IsZero(f, a) /\ extractExp(f, a) # emax(f) ->
             Res(packFloat(f, zSign, emax(f), 0), {"divbyzero"})
        [] (IsInf(f, b) /\ extractExp(f, a) # emax(f))
             \/ (IsZero(f, a) /\ ~ IsZero(f, b) /\ extractExp(f, b) # emax(f)) -> Exact(packFloat(f, zSign, 0, 0))
        [] OTHER -> roundAndPackFloat(f, zSign, x.exp - y.exp + bias(f) - (IF big THEN 1 ELSE 2), zSig, s)

float32_div(a, b, s) == FloatDiv(F32, a, b, s)
float64_div(a, b, s) == FloatDiv(F64, a, b, s)

\* Mutant: a tie is not decided by the quotient.
Nearest_tie(aSig, bSig, q) ==
  LET k == CHOOSE n \in 1 .. 8 : aSig - n * bSig < 0 /\ aSig - (n - 1) * bSig >= 0
      z == aSig - k * bSig
  IN  IF 2 * z + bSig < 0 THEN z + bSig ELSE z

\* The last loop subtracts bSig until the rest is negative; of that rest and the
\* one before, the smaller is taken, on a tie the one of the even quotient.
Nearest(aSig, bSig, q) ==
  LET k == CHOOSE n \in 1 .. 8 : aSig - n * bSig < 0 /\ aSig - (n - 1) * bSig >= 0
      z == aSig - k * bSig
  IN  IF 2 * z + bSig < 0 \/ (2 * z + bSig = 0 /\ (q + k) % 2 = 1) THEN z + bSig ELSE z

\* A quotient estimated from above, made one from below.
Below(q) == IF 2 < q THEN q - 2 ELSE 0

\* The remainder as a signed number of units of b's last guard bit.
Rem32(aSig, bSig, expDiff) ==
  LET sh == 2 ^ EB32
      a1 == (aSig * sh) \div (IF expDiff < 0 THEN 2 ELSE 1)
      q0 == Flag(bSig * sh <= a1)
      a2 == a1 - q0 * bSig * sh
      q1 == ((a2 * 2 ^ W32) \div (bSig * sh)) \div 2 ^ (W32 - expDiff)
      b2 == (bSig * sh) \div 4
      \* exponents far apart: words, W - 2 bits of the quotient at a time
      far0 == Shl(IF bSig <= aSig THEN aSig - bSig ELSE aSig, W - fb(F32) - 1)
      bFar == Shl(bSig, W - fb(F32) - 1)
      Far[d \in Int] == \* aSig64 when expDiff is d
        IF d = expDiff - W THEN far0
        ELSE (-(bSig * 2 ^ (W - fb(F32) - 3) * Below(estimateDiv128To64(Far[d + W - 2], 0, bFar)))) % Base
      d == CHOOSE n \in (2 - W) .. 0 : (expDiff - W - n) % (W - 2) = 0
      q2 == Below(estimateDiv128To64(Far[d], 0, bFar)) \div 2 ^ (- d)
  IN  IF expDiff <= 0 THEN Nearest(a2 \div 4, b2, q0)
      ELSE IF expDiff < W32 THEN Nearest((a2 \div 2) * 2 ^ (expDiff - 1) - b2 * q1, b2, q1)
      ELSE Nearest((((Far[d] \div 2 ^ (W - W32 + 1)) * 2 ^ (d + W - 1)) - b2 * q2) % 2 ^ W32, b2, q2)

Rem64(aSig, bSig, expDiff) ==
  LET sh == 2 ^ EB64
      b1 == bSig * sh
      a1 == (aSig * sh) \div (IF expDiff < 0 THEN 2 ELSE 1)
      q0 == Flag(b1 <= a1)
      A[d \in Int] ==
        IF d = expDiff - W THEN a1 - q0 * b1
        ELSE (-((b1 \div 4) * Below(estimateDiv128To64(A[d + W - 2], 0, b1)))) % Base
      d == IF expDiff <= W THEN expDiff - W ELSE CHOOSE n \in (3 - W) .. 0 : (expDiff - W - n) % (W - 2) = 0
      q == Below(estimateDiv128To64(A[d], 0, b1)) \div 2 ^ (- d)
  IN  IF d + W <= 0 THEN Nearest(A[d] \div 4, b1 \div 4, q0)
      ELSE Nearest((A[d] \div 2) * 2 ^ (d + W - 1) - (b1 \div 4) * q, b1 \div 4, q)

FloatRem(f, a, b, s) ==
  LET x == Normal(f, a)   y == Normal(f, b)
      r == IF f = F32 THEN Rem32(x.sig, y.sig, x.exp - y.exp) ELSE Rem64(x.sig, y.sig, x.exp - y.exp)
  IN  CASE IsNaN(f, a) \/ IsNaN(f, b) -> propagateNaN(f, a, b, s)
        [] IsInf(f, a) \/ (IsZero(f, b) /\ extractExp(f, a) # emax(f)) -> Invalid(f)
        [] (IsInf(f, b) \/ IsZero(f, a) \/ x.exp - y.exp < -1) /\ ~ IsZero(f, b) /\ extractExp(f, a) # emax(f) -> Exact(a)
        [] OTHER -> normalizeRoundAndPackFloat(f, IF r < 0 THEN 1 - extractSign(f, a) ELSE extractSign(f, a),
                                               y.exp, IF r < 0 THEN - r ELSE r, s)

float32_rem(a, b, s) == FloatRem(F32, a, b, s)
float64_rem(a, b, s) == FloatRem(F64, a, b, s)

\* The largest r with r * r <= n, bit by bit
RootBits == 15
Root(n) ==
  LET R[k \in 0 .. RootBits] ==
        IF k = 0 THEN 0 ELSE LET t == R[k - 1] + 2 ^ (RootBits - k) IN IF t * t <= n THEN t ELSE R[k - 1]
  IN  R[RootBits]

\* estimateSqrt32 has its tables for 32 bits only.  What its callers rely on is
\* that the estimate is the root or up to err more.  The root is sharpened when
\* the last bits do not decide the rounding.
Root32(sig, odd, err) ==
  LET aSig == (sig * 2 ^ EB32) \div 2 ^ odd
      root == Root(aSig * 2 ^ W32)
      zSig == IF root + err < 2 ^ W32 THEN root + err ELSE 2 ^ W32 - 1
      exact == IF zSig % 2 ^ g(F32) <= 5 THEN Sticky(root, root * root # aSig * 2 ^ W32) ELSE zSig
  IN  ShiftRightJamming(exact, 1, W32)

Root64(sig, odd, err) ==
  LET aSig == sig * 2 ^ ((EB64 - 2) - odd)
      root == Root(aSig * Base)
      zSig == root + err
  IN  IF zSig % 2 ^ (g(F64) - 1) <= 5 THEN Sticky(root, root * root # aSig * Base) ELSE zSig

FloatSqrt(f, a, err, s) ==
  LET x == Normal(f, a)
      zExp == ((x.exp - bias(f)) \div 2) + bias(f) - 1
      zSig == IF f = F32 THEN Root32(x.sig, x.exp % 2, err) ELSE Root64(x.sig, x.exp % 2, err)
  IN  CASE IsNaN(f, a) -> propagateNaN(f, a, IF f = F32 THEN 0 ELSE a, s)
        [] IsZero(f, a) \/ (IsInf(f, a) /\ extractSign(f, a) = 0) -> Exact(a)
        [] extractSign(f, a) = 1 /\ ~ IsNaN(f, a) /\ ~ IsZero(f, a) -> Invalid(f)
        [] OTHER -> roundAndPackFloat(f, 0, zExp, zSig, s)

float32_sqrt(a, err, s) == FloatSqrt(F32, a, err, s)
float64_sqrt(a, err, s) == FloatSqrt(F64, a, err, s)
=============================================================================
