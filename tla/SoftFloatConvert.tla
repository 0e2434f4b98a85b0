-------------------------- MODULE SoftFloatConvert --------------------------
(***************************************************************************)
(* Conversions, comparisons and scaling of float32, float64 and float16        *)
(* (fpu/softfloat.c).  An integer operand or result is the number itself.     *)
(***************************************************************************)
EXTENDS SoftFloat

Int16(n) == ((n + 2 ^ 15) % 2 ^ 16) - 2 ^ 15        \* exponents are kept in an int16
Abs(n) == IF n < 0 THEN - n ELSE n
SignOf(n) == Flag(n < 0)

(***************************************************************************)
(* From integers                                                            *)
(***************************************************************************)

\* The least integer has no absolute value in its own width.
FromInt(f, a, s) ==
  CASE a = 0 -> Exact(0)
    [] a = MinInt(f.w) -> Exact(packFloat(f, 1, bias(f) + f.w - 1, 0))
    [] OTHER -> normalizeRoundAndPackFloat(f, SignOf(a), bias(f) + f.w - 3, Abs(a), s)

int32_to_float32(a, s) == FromInt(F32, a, s)
int64_to_float64(a, s) == FromInt(F64, a, s)

int32_to_float64(a) ==
  LET shiftCount == CountLeadingZeros(Abs(a), W32) + (fb(F64) + 1) - W32
  IN  IF a = 0 THEN 0
      ELSE packFloat64(SignOf(a), bias(F64) + fb(F64) - 1 - shiftCount, Abs(a) * 2 ^ shiftCount)

\* The word absA, rounded when it has more bits than a significand.
WordToFloat32(sign, absA, s) ==
  LET shiftCount == countLeadingZeros64(absA) - (W - fb(F32) - 1)
      n == shiftCount + g(F32)
  IN  IF absA = 0 THEN Exact(0)
      ELSE IF shiftCount >= 0 THEN Exact(packFloat32(sign, bias(F32) + fb(F32) - 1 - shiftCount, absA * 2 ^ shiftCount))
      ELSE roundAndPackFloat32(sign, bias(F32) + W32 - 3 - n,
                               IF n < 0 THEN shift64RightJamming(absA, - n) ELSE absA * 2 ^ n, s)

int64_to_float32(a, s) == WordToFloat32(SignOf(a), Abs(a), s)

\* The sign that is passed is 1 > 0.
uint64_to_float32(a, s) == WordToFloat32(IF a = 0 THEN 0 ELSE 1, a, s)

uint64_to_float64(a, s) ==
  IF a = 0 THEN Exact(0) ELSE normalizeRoundAndPackFloat64(0, bias(F64) + W - 3, a, s)

uint32_to_float32(a, s) == int64_to_float32(a, s)
uint32_to_float64(a, s) == int64_to_float64(a, s)

(***************************************************************************)
(* To integers                                                              *)
(***************************************************************************)

\* The significand of a, with its hidden bit when a is normal.
Significand(f, a) == extractFrac(f, a) + (IF extractExp(f, a) # 0 THEN hidden(f) ELSE 0)

\* A number too large for w bits; a NaN is taken for a large positive one.
TooLarge(f, a, w) == Res(IF extractSign(f, a) = 0 \/ IsNaN(f, a) THEN MaxInt(w) ELSE MinInt(w), {"invalid"})

ToInt32(f, a, sig, shiftCount, s) ==
  roundAndPackInt32(IF IsNaN(f, a) THEN 0 ELSE extractSign(f, a),
                    IF shiftCount > 0 THEN shift64RightJamming(sig, shiftCount) ELSE sig, s)

float32_to_int32(a, s) ==
  ToInt32(F32, a, Significand(F32, a) * 2 ^ W32, bias(F32) + fb(F32) - IntGuard + W32 - extractExp(F32, a), s)
float64_to_int32(a, s) ==
  ToInt32(F64, a, Significand(F64, a), bias(F64) + fb(F64) - IntGuard - extractExp(F64, a), s)

\* The significand without the bits behind the point.
ToIntZero(f, a, w) ==
  LET exp == extractExp(f, a)
      shiftCount == bias(f) + fb(f) - exp
      sig == Significand(f, a)
      z == IF shiftCount > 0 THEN sig \div 2 ^ shiftCount ELSE sig * 2 ^ (- shiftCount)
  IN  CASE exp >= bias(f) + w - 1 -> IF a = packFloat(f, 1, bias(f) + w - 1, 0) THEN Exact(MinInt(w)) ELSE TooLarge(f, a, w)
        [] exp < bias(f) -> Inexact(0, ~ IsZero(f, a))
        [] OTHER -> Inexact(IF extractSign(f, a) = 1 THEN - z ELSE z, shiftCount > 0 /\ sig % 2 ^ shiftCount # 0)

float32_to_int32_round_to_zero(a) == ToIntZero(F32, a, W32)
float32_to_int64_round_to_zero(a) == ToIntZero(F32, a, W)
float64_to_int64_round_to_zero(a) == ToIntZero(F64, a, W)

\* The result is taken as an int32 before it is tested.
float64_to_int32_round_to_zero(a) ==
  LET exp == extractExp(F64, a)
      sign == extractSign(F64, a)
      shiftCount == bias(F64) + fb(F64) - exp
      sig == Significand(F64, a)
      z == sig \div 2 ^ shiftCount
  IN  CASE exp > bias(F64) + W32 - 1 -> TooLarge(F64, a, W32)
        [] exp < bias(F64) -> Inexact(0, ~ IsZero(F64, a))
        [] exp \in bias(F64) .. bias(F64) + W32 - 1 ->
             IF z > MaxInt(W32) + sign THEN TooLarge(F64, a, W32)
             ELSE Inexact(IF sign = 1 THEN - z ELSE z, sig % 2 ^ shiftCount # 0)

float32_to_int64(a, s) ==
  LET shiftCount == bias(F32) + W - 1 - extractExp(F32, a)
      z == shift64ExtraRightJamming(Shl(Significand(F32, a), W - fb(F32) - 1), 0, shiftCount)
  IN  IF shiftCount < 0 THEN TooLarge(F32, a, W) ELSE roundAndPackInt64(extractSign(F32, a), z[1], z[2], s)

float64_to_int64(a, s) ==
  LET shiftCount == bias(F64) + fb(F64) - extractExp(F64, a)
      z == IF shiftCount <= 0 THEN <<Shl(Significand(F64, a), - shiftCount), 0>>
           ELSE shift64ExtraRightJamming(Significand(F64, a), 0, shiftCount)
  IN  IF extractExp(F64, a) > bias(F64) + W - 1 THEN TooLarge(F64, a, W)
      ELSE roundAndPackInt64(extractSign(F64, a), z[1], z[2], s)

\* The flags of the conversion to 64 bits stay raised.
ToUint32(v) ==
  IF v.z < 0 THEN Raise(Res(0, v.f), {"invalid"})
  ELSE IF v.z >= 2 ^ W32 THEN Raise(Res(2 ^ W32 - 1, v.f), {"invalid"})
  ELSE v

float32_to_uint32(a, s) == ToUint32(float32_to_int64(a, s))
float32_to_uint32_round_to_zero(a) == ToUint32(float32_to_int64_round_to_zero(a))
float64_to_uint32(a, s) == ToUint32(float64_to_int64(a, s))
float64_to_uint32_round_to_zero(a) == ToUint32(float64_to_int64_round_to_zero(a))

\* The two bit patterns are added, not the numbers.
MinusLeast(a, s) == (int64_to_float64(MinInt(W), s).z + a) % Base
PlusLeast(v) == [v EXCEPT !.z = (@ - MinInt(W)) % Base]

float64_to_uint64(a, s) == PlusLeast(float64_to_int64(MinusLeast(a, s), s))
float64_to_uint64_round_to_zero(a, s) == PlusLeast(float64_to_int64_round_to_zero(MinusLeast(a, s)))

(***************************************************************************)
(* Between formats, and to an integral value                                 *)
(***************************************************************************)

float32_to_float64(a) ==
  LET sign == extractSign(F32, a)
      n == normalizeSubnormal(F32, extractFrac(F32, a))
      x == IF extractExp(F32, a) = 0 THEN [n EXCEPT !.exp = @ - 1]
           ELSE [exp |-> extractExp(F32, a), sig |-> extractFrac(F32, a)]
  IN  CASE IsNaN(F32, a) -> commonNaNToFloat64(float32ToCommonNaN(a))
        [] IsInf(F32, a) -> Exact(packFloat64(sign, emax(F64), 0))
        [] IsZero(F32, a) -> Exact(packFloat64(sign, 0, 0))
        [] OTHER -> Exact(packFloat64(sign, x.exp + (bias(F64) - bias(F32)), x.sig * 2 ^ (fb(F64) - fb(F32))))

float64_to_float32(a, s) ==
  LET sign == extractSign(F64, a)
      zSig == shift64RightJamming(extractFrac(F64, a), fb(F64) - fb(F32) - g(F32))
  IN  CASE IsNaN(F64, a) -> commonNaNToFloat32(float64ToCommonNaN(a))
        [] IsInf(F64, a) -> Exact(packFloat32(sign, emax(F32), 0))
        [] IsZero(F64, a) -> roundAndPackFloat32(sign, 0, 0, s)
        [] OTHER -> roundAndPackFloat32(sign, extractExp(F64, a) - (bias(F64) - bias(F32)) - 1, zSig + 2 ^ (W32 - 2), s)

Bias16 == 2 ^ (EB16 - 1) - 1
Emax16 == 2 ^ EB16 - 1
packFloat16(zSign, zExp, zSig) == (zSign * 2 ^ (EB16 + FB16) + zExp * 2 ^ FB16 + zSig) % 2 ^ (EB16 + FB16 + 1)

\* The half precision number itself is examined as if it were a float32.
float16_to_float32(a, ieee) ==
  LET sign == a \div 2 ^ (EB16 + FB16)
      exp == (a \div 2 ^ FB16) % 2 ^ EB16
      sig == a % 2 ^ FB16
      up == 2 ^ (fb(F32) - FB16)
      n == CountLeadingZeros(sig, W32) - (W32 - FB16 - 1)
      quiet == IF sig # 0 /\ sig < 2 ^ (FB16 - 1) THEN sig + 2 ^ (FB16 - 1) ELSE sig
  IN  CASE exp = Emax16 /\ ieee ->
             Res(packFloat32(sign, emax(F32), quiet * up), IF sig # 0 THEN float32ToCommonNaN(a).f ELSE {})
        [] exp = 0 -> Exact(IF sig = 0 THEN packFloat32(sign, 0, 0)
                            ELSE packFloat32(sign, (bias(F32) - Bias16) - n, sig * 2 ^ n * up))
        [] OTHER -> Exact(packFloat32(sign, exp + (bias(F32) - Bias16), sig * up))

\* What is added to a significand before the bits below mask are cut.
HalfIncrement(sign, sig, mask, s) ==
  LET lost == sig % mask
  IN  CASE lost = 0 -> 0
        [] lost # 0 /\ s.mode = "even" ->
             IF lost = mask \div 2 THEN (IF (sig \div mask) % 2 = 1 THEN mask ELSE 0) ELSE mask \div 2
        [] lost # 0 /\ s.mode = (IF sign = 1 THEN "down" ELSE "up") -> mask - 1
        [] OTHER -> 0

\* Positive subnormal numbers become zero; of negative ones the fraction counts
\* with a hidden bit, as it does in all numbers too small for a float16.
float32_to_float16(a, ieee, s) ==
  LET sign == extractSign(F32, a)
      least == 1 - Bias16                                \* -14
      exp == extractExp(F32, a) - bias(F32)
      exp1 == IF exp < least - FB16 THEN least - FB16 - 1 ELSE exp
      sig == extractFrac(F32, a) + hidden(F32)
      mask == IF exp < least - FB16 THEN hidden(F32)      \* mask + 1
              ELSE IF exp < least THEN hidden(F32) \div 2 ^ (FB16 - least + exp)
              ELSE 2 ^ (fb(F32) - FB16)
      lost == sig % mask
      inc == HalfIncrement(sign, sig, mask, s)
      over == sig + inc >= 2 * hidden(F32)
      sig2 == IF over THEN (sig + inc) \div 2 ELSE sig + inc
      exp2 == IF over THEN exp1 + 1 ELSE exp1
      fl == IF lost # 0 \/ (exp1 < least /\ s.tiny) THEN {"underflow"} ELSE {}
      quiet == IF extractFrac(F32, a) < QuietBit(F32) THEN extractFrac(F32, a) + QuietBit(F32) ELSE extractFrac(F32, a)
      down == 2 ^ (fb(F32) - FB16)
  IN  CASE IsNaN(F32, a) -> Res(packFloat16(sign, Emax16, quiet \div down), float32ToCommonNaN(a).f)
        [] IsInf(F32, a) -> Exact(packFloat16(sign, Emax16, 0))
        [] extractExp(F32, a) = 0 /\ sign = 0 -> Exact(packFloat16(0, 0, 0))
        [] OTHER ->
             IF exp2 > Bias16 + (IF ieee THEN 0 ELSE 1)
             THEN Res(packFloat16(sign, Emax16, IF ieee THEN 0 ELSE 2 ^ FB16 - 1), fl \cup {"overflow", "inexact"})
             ELSE IF exp2 < least - FB16 THEN Res(packFloat16(sign, 0, 0), fl)
             ELSE IF exp2 < least THEN Res(packFloat16(sign, 0, (sig2 \div 2 ^ (least - exp2)) \div down), fl)
             ELSE Res(packFloat16(sign, exp2 + Bias16 - 1, sig2 \div down), fl)

\* A number of magnitude less than 1
SmallToInt(f, a, s) ==
  LET sign == extractSign(f, a)
      one == IF s.mode = "even" THEN extractExp(f, a) = bias(f) - 1 /\ extractFrac(f, a) # 0
             ELSE s.mode = (IF sign = 1 THEN "down" ELSE "up")
  IN  Res(packFloat(f, sign, IF one THEN bias(f) ELSE 0, 0), {"inexact"})

\* The bits behind the point are cut from the number as a whole: a carry out of
\* the fraction goes to the exponent.
round_to_int(f, a, s) ==
  LET exp == extractExp(f, a)
      last == 2 ^ (bias(f) + fb(f) - exp)
      z == CASE s.mode = "even" -> a + (last \div 2)
             [] s.mode = (IF extractSign(f, a) = 1 THEN "down" ELSE "up") -> a + (last - 1)
             [] OTHER -> a
      even == s.mode = "even" /\ z % last = 0 /\ (z \div last) % 2 = 1
      cut == (z - (z % last)) - (IF even THEN last ELSE 0)
  IN  CASE IsNaN(f, a) -> propagateNaN(f, a, a, s)
        [] exp >= bias(f) + fb(f) /\ ~ IsNaN(f, a) -> Exact(a)
        [] exp < bias(f) -> IF IsZero(f, a) THEN Exact(a) ELSE SmallToInt(f, a, s)
        [] OTHER -> Inexact(cut, cut # a)

float32_round_to_int(a, s) == round_to_int(F32, a, s)
float64_round_to_int(a, s) == round_to_int(F64, a, s)
float64_trunc_to_int(a, s) == float64_round_to_int(a, [s EXCEPT !.mode = "zero"])

(***************************************************************************)
(* Scaling and logarithm                                                     *)
(***************************************************************************)

\* A subnormal number is taken to have exponent 0.
scalbn(f, a, n, s) ==
  IF extractExp(f, a) = emax(f) \/ IsZero(f, a) THEN Exact(a)
  ELSE normalizeRoundAndPackFloat(f, extractSign(f, a), Int16(extractExp(f, a) + n - 1),
                                  Significand(f, a) * 2 ^ g(f), s)

float32_scalbn(a, n, s) == scalbn(F32, a, n, s)
float64_scalbn(a, n, s) == scalbn(F64, a, n, s)

\* Squaring finds one bit of the fraction after the other; a logarithm below 0 is
\* kept as a two's complement number until the end.
\* The exponent is the logarithm before the point.
LogStart(f, x) == [sig |-> x.sig, z |-> (x.exp - bias(f)) * 2 ^ fb(f)]

\* A bit of the logarithm per squaring.
log2(f, a, s) ==
  LET x == Normal(f, a)
      exp == x.exp - bias(f)
      Sig[n \in 0 .. fb(f)] ==
        IF n = 0 THEN LogStart(f, x)
        ELSE LET q == (Sig[n - 1].sig * Sig[n - 1].sig) \div 2 ^ fb(f)
             IN  IF q >= 2 * hidden(f) THEN [sig |-> q \div 2, z |-> Sig[n - 1].z + 2 ^ (fb(f) - n)]
                 ELSE [sig |-> q, z |-> Sig[n - 1].z]
  IN  CASE IsZero(f, a) -> Exact(packFloat(f, 1, emax(f), 0))
        [] ~ IsZero(f, a) /\ extractSign(f, a) = 1 -> Invalid(f)
        [] extractSign(f, a) = 0 /\ IsNaN(f, a) -> propagateNaN(f, a, 0, s)
        [] extractSign(f, a) = 0 /\ IsInf(f, a) -> Exact(a)
        [] OTHER -> normalizeRoundAndPackFloat(f, SignOf(exp), bias(f) + g(f) - 1, Abs(Sig[fb(f)].z), s)

float32_log2(a, s) == log2(F32, a, s)
float64_log2(a, s) == log2(F64, a, s)

(***************************************************************************)
(* Comparisons                                                              *)
(***************************************************************************)

Unordered(f, a, b) == IsNaN(f, a) \/ IsNaN(f, b)
Signals(f, a, b) == is_signaling_nan(f, a) \/ is_signaling_nan(f, b)
BothZero(f, a, b) == IsZero(f, a) /\ IsZero(f, b)

\* a < b for numbers, from the order of their bit patterns
Less(f, a, b) ==
  IF ~ SameSign(f, a, b) THEN extractSign(f, a) = 1 /\ ~ BothZero(f, a, b)
  ELSE a # b /\ (IF extractSign(f, a) = 1 THEN ~ (a < b) ELSE a < b)

Equal(f, a, b) == a = b \/ BothZero(f, a, b)

\* A comparison that is false on a NaN; quiet ones signal signaling NaNs only.
Compare(f, a, b, quiet, holds) ==
  IF Unordered(f, a, b) THEN Res(FALSE, InvalidIf(~ quiet \/ Signals(f, a, b))) ELSE Exact(holds)

eq(f, a, b) == Compare(f, a, b, TRUE, Equal(f, a, b))
le(f, a, b) == Compare(f, a, b, FALSE, Equal(f, a, b) \/ Less(f, a, b))
lt(f, a, b) == Compare(f, a, b, FALSE, Less(f, a, b))
eq_signaling(f, a, b) == Compare(f, a, b, FALSE, Equal(f, a, b))
le_quiet(f, a, b) == Compare(f, a, b, TRUE, Equal(f, a, b) \/ Less(f, a, b))
lt_quiet(f, a, b) == Compare(f, a, b, TRUE, Less(f, a, b))

float32_eq(a, b) == eq(F32, a, b)
float32_le(a, b) == le(F32, a, b)
float32_lt(a, b) == lt(F32, a, b)
float32_eq_signaling(a, b) == eq_signaling(F32, a, b)
float32_le_quiet(a, b) == le_quiet(F32, a, b)
float32_lt_quiet(a, b) == lt_quiet(F32, a, b)
float64_eq(a, b) == eq(F64, a, b)
float64_le(a, b) == le(F64, a, b)
float64_lt(a, b) == lt(F64, a, b)
float64_eq_signaling(a, b) == eq_signaling(F64, a, b)
float64_le_quiet(a, b) == le_quiet(F64, a, b)
float64_lt_quiet(a, b) == lt_quiet(F64, a, b)

\* COMPARE: -1, 0, 1, or 2 for unordered
compare(f, a, b, quiet) ==
  IF Unordered(f, a, b) THEN Res(2, InvalidIf(~ quiet \/ Signals(f, a, b)))
  ELSE Exact(IF Equal(f, a, b) THEN 0 ELSE IF Less(f, a, b) THEN -1 ELSE 1)
=============================================================================
