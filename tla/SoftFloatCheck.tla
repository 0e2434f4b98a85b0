--------------------------- MODULE SoftFloatCheck ---------------------------
(***************************************************************************)
(* The emulated operations against exact arithmetic: Draw chooses an operation, *)
(* a format, operands and a status; Arithmetic, Conversion and Comparisons apply  *)
(* it; the predicates at the end say what that may return.  The reference takes  *)
(* a number as sign, integer m and exponent e, and rounds the exact result once. *)
(***************************************************************************)
EXTENDS SoftFloat128

CONSTANTS
  Formats,       \* of "f32", "f64", "x80", "f128"
  Names,         \* the operations
  Exponents,     \* the exponents of the operands
  Modes,         \* rounding modes
  Tininess,      \* values of tiny
  Flush,         \* values of ftz
  DefaultNaN,    \* values of dnan
  Precisions     \* values of floatx80's precision

VARIABLES op, fmt, a, b, s

Binary == {"add", "sub", "mul", "div", "rem", "compare"}
Unary == {"sqrt", "round_to_int", "log2"}
FromInts == {"from_int32", "from_int64", "from_uint64"}
ToInts == {"to_int32", "to_int64", "to_int32_zero", "to_int64_zero", "to_uint32", "to_uint32_zero"}
ToFormats == {"to_f32", "to_f64", "to_x80", "to_f128"}
(***************************************************************************)
(* Operands: the significands are at the edges of their range                   *)
(***************************************************************************)

Edge(n) == {m \in {0, 1, 3, 4, 2 ^ (n - 1), 2 ^ (n - 1) + 1, 2 ^ n - 1} : m < 2 ^ n}

Small(f) == {packFloat(f, g0, e, m) : g0 \in {0, 1}, e \in Exponents \cap 0 .. emax(f), m \in Edge(fb(f))}
\* A number of floatx80 has its leading bit set exactly when its exponent is not 0.
X80 == {packFloatx80(g0, e, (IF e = 0 THEN 0 ELSE TopBit) + m) : g0 \in {0, 1}, e \in Exponents, m \in Edge(W - 1)}
F128 == {packFloat128(g0, e, m, l) : g0 \in {0, 1}, e \in Exponents, m \in {0, 1, 2 ^ FB0 - 1}, l \in {0, TopBit, Base - 1}}
Operands(F) == CASE F = "f32" -> Small(F32) [] F = "f64" -> Small(F64) [] F = "x80" -> X80 [] F = "f128" -> F128
Ints(w) == {n \in MinInt(w) .. MaxInt(w) : Abs(n) < 40 \/ n % 5 = 1 \/ Abs(n) > MaxInt(w) - 40}

Draw ==
  /\ op \in Names /\ fmt \in Formats
  /\ s \in [mode : Modes, tiny : Tininess, ftz : Flush, dnan : DefaultNaN, prec : Precisions]
  /\ op \notin {"add", "sub", "mul", "div", "sqrt"} => s.prec = 80
  /\ s.tiny \in (IF op \in {"mul", "div", "scalbn"} \cup ToFormats THEN BOOLEAN ELSE {TRUE})
  /\ \/ op \in Binary /\ a \in Operands(fmt) /\ b \in Operands(fmt)
     \/ op \in Unary \cup ToInts \cup (ToFormats \ {"to_" \o fmt}) /\ a \in Operands(fmt)
        /\ b \in (IF op = "sqrt" /\ fmt \in {"f32", "f64"} THEN 0 .. 3 ELSE {0})
     \/ op = "scalbn" /\ a \in Operands(fmt) /\ b \in {-9, -1, 0, 1, 9}
     \/ op = "from_int32" /\ a \in Ints(W32) /\ b = 0
     \/ op = "from_int64" /\ a \in Ints(W) /\ b = 0
     \* uint64_to_float32 is left out, it passes 1 for the sign; uint64_to_float64
     \* from 2^63 on, where the shift that normalizes the number has count -1.
     \/ op = "from_uint64" /\ fmt = "f64" /\ b = 0
        /\ a \in {n \in 0 .. TopBit - 1 : n % 97 = 0 \/ n < 40 \/ n > TopBit - 40}
     \/ op = "to_f16" /\ fmt = "f32" /\ a \in Operands("f32") /\ b = 0
     \/ op = "from_f16" /\ fmt = "f32" /\ a \in 0 .. 2 ^ (EB16 + FB16 + 1) - 1 /\ b = 0
  /\ fmt \in {"x80", "f128"} => op \notin {"to_uint32", "to_uint32_zero", "log2"}

Arithmetic ==
  CASE op = "add" -> (CASE fmt = "f32" -> float32_add(a, b, s) [] fmt = "f64" -> float64_add(a, b, s)
                        [] fmt = "x80" -> floatx80_add(a, b, s) [] fmt = "f128" -> float128_add(a, b, s))
    [] op = "sub" -> (CASE fmt = "f32" -> float32_sub(a, b, s) [] fmt = "f64" -> float64_sub(a, b, s)
                        [] fmt = "x80" -> floatx80_sub(a, b, s) [] fmt = "f128" -> float128_sub(a, b, s))
    [] op = "mul" -> (CASE fmt = "f32" -> float32_mul(a, b, s) [] fmt = "f64" -> float64_mul(a, b, s)
                        [] fmt = "x80" -> floatx80_mul(a, b, s) [] fmt = "f128" -> float128_mul(a, b, s))
    [] op = "div" -> (CASE fmt = "f32" -> float32_div(a, b, s) [] fmt = "f64" -> float64_div(a, b, s)
                        [] fmt = "x80" -> floatx80_div(a, b, s) [] fmt = "f128" -> float128_div(a, b, s))
    [] op = "rem" -> (CASE fmt = "f32" -> float32_rem(a, b, s) [] fmt = "f64" -> float64_rem(a, b, s)
                        [] fmt = "x80" -> floatx80_rem(a, b, s) [] fmt = "f128" -> float128_rem(a, b, s))
    [] op = "sqrt" -> (CASE fmt = "f32" -> float32_sqrt(a, b, s) [] fmt = "f64" -> float64_sqrt(a, b, s)
                         [] fmt = "x80" -> floatx80_sqrt(a, s) [] fmt = "f128" -> float128_sqrt(a, s))
    [] op = "round_to_int" -> (CASE fmt = "f32" -> float32_round_to_int(a, s)
                                 [] fmt = "f64" -> IF s.mode = "zero" THEN float64_trunc_to_int(a, [s EXCEPT !.mode = "even"])
                                                   ELSE float64_round_to_int(a, s)
                                 [] fmt = "x80" -> floatx80_round_to_int(a, s) [] fmt = "f128" -> float128_round_to_int(a, s))
    [] op = "scalbn" -> (CASE fmt = "f32" -> float32_scalbn(a, b, s) [] fmt = "f64" -> float64_scalbn(a, b, s)
                           [] fmt = "x80" -> floatx80_scalbn(a, b, s) [] fmt = "f128" -> float128_scalbn(a, b, s))
    [] op = "log2" -> IF fmt = "f32" THEN float32_log2(a, s) ELSE float64_log2(a, s)

Conversion ==
  CASE op = "from_int32" -> (CASE fmt = "f32" -> int32_to_float32(a, s) [] fmt = "f64" -> Exact(int32_to_float64(a))
                               [] fmt = "x80" -> Exact(int32_to_floatx80(a)) [] fmt = "f128" -> Exact(int32_to_float128(a)))
    [] op = "from_int64" -> (CASE fmt = "f32" -> int64_to_float32(a, s) [] fmt = "f64" -> int64_to_float64(a, s)
                               [] fmt = "x80" -> Exact(int64_to_floatx80(a)) [] fmt = "f128" -> Exact(int64_to_float128(a)))
    [] op = "from_uint64" -> IF fmt = "f32" THEN uint64_to_float32(a, s) ELSE uint64_to_float64(a, s)
    [] op = "to_int32" -> (CASE fmt = "f32" -> float32_to_int32(a, s) [] fmt = "f64" -> float64_to_int32(a, s)
                             [] fmt = "x80" -> floatx80_to_int32(a, s) [] fmt = "f128" -> float128_to_int32(a, s))
    [] op = "to_int64" -> (CASE fmt = "f32" -> float32_to_int64(a, s) [] fmt = "f64" -> float64_to_int64(a, s)
                             [] fmt = "x80" -> floatx80_to_int64(a, s) [] fmt = "f128" -> float128_to_int64(a, s))
    [] op = "to_int32_zero" -> (CASE fmt = "f32" -> float32_to_int32_round_to_zero(a) [] fmt = "f64" -> float64_to_int32_round_to_zero(a)
                                  [] fmt = "x80" -> floatx80_to_int32_round_to_zero(a) [] fmt = "f128" -> float128_to_int32_round_to_zero(a))
    [] op = "to_int64_zero" -> (CASE fmt = "f32" -> float32_to_int64_round_to_zero(a) [] fmt = "f64" -> float64_to_int64_round_to_zero(a)
                                  [] fmt = "x80" -> floatx80_to_int64_round_to_zero(a) [] fmt = "f128" -> float128_to_int64_round_to_zero(a))
    [] op = "to_uint32" -> IF fmt = "f32" THEN float32_to_uint32(a, s) ELSE float64_to_uint32(a, s)
    [] op = "to_uint32_zero" -> IF fmt = "f32" THEN float32_to_uint32_round_to_zero(a) ELSE float64_to_uint32_round_to_zero(a)
    [] op = "to_f32" -> (CASE fmt = "f64" -> float64_to_float32(a, s) [] fmt = "x80" -> floatx80_to_float32(a, s)
                           [] fmt = "f128" -> float128_to_float32(a, s))
    [] op = "to_f64" -> (CASE fmt = "f32" -> float32_to_float64(a) [] fmt = "x80" -> floatx80_to_float64(a, s)
                           [] fmt = "f128" -> float128_to_float64(a, s))
    [] op = "to_x80" -> (CASE fmt = "f32" -> float32_to_floatx80(a) [] fmt = "f64" -> float64_to_floatx80(a)
                           [] fmt = "f128" -> float128_to_floatx80(a, s))
    [] op = "to_f128" -> (CASE fmt = "f32" -> float32_to_float128(a) [] fmt = "f64" -> float64_to_float128(a)
                            [] fmt = "x80" -> floatx80_to_float128(a))
    [] op = "to_f16" -> float32_to_float16(a, TRUE, s)
    [] op = "from_f16" -> float16_to_float32(a, TRUE)

\* All comparisons of the two operands at once.
Comparisons ==
  CASE fmt = "f32" -> [eq |-> float32_eq(a, b), le |-> float32_le(a, b), lt |-> float32_lt(a, b),
                       eqs |-> float32_eq_signaling(a, b), leq |-> float32_le_quiet(a, b), ltq |-> float32_lt_quiet(a, b)]
    [] fmt = "f64" -> [eq |-> float64_eq(a, b), le |-> float64_le(a, b), lt |-> float64_lt(a, b),
                       eqs |-> float64_eq_signaling(a, b), leq |-> float64_le_quiet(a, b), ltq |-> float64_lt_quiet(a, b)]
    [] fmt = "x80" -> [eq |-> floatx80_eq(a, b), le |-> floatx80_le(a, b), lt |-> floatx80_lt(a, b),
                       eqs |-> floatx80_eq_signaling(a, b), leq |-> floatx80_le_quiet(a, b), ltq |-> floatx80_lt_quiet(a, b)]
    [] fmt = "f128" -> [eq |-> float128_eq(a, b), le |-> float128_le(a, b), lt |-> float128_lt(a, b),
                        eqs |-> float128_eq_signaling(a, b), leq |-> float128_le_quiet(a, b), ltq |-> float128_lt_quiet(a, b)]

(***************************************************************************)
(* The reference                                                            *)
(***************************************************************************)

\* A number is (-1)^sign * m * 2^e with m odd or 0.
Num(sign, m, e) ==
  LET k == CHOOSE n \in 0 .. 29 : m % 2 ^ (n + 1) # 0 \/ n = 29
  IN  IF m = 0 THEN [k |-> "num", sign |-> sign, m |-> 0, e |-> 0]
      ELSE [k |-> "num", sign |-> sign, m |-> m \div 2 ^ k, e |-> e + k]
Infinity(sign) == [k |-> "inf", sign |-> sign, m |-> 0, e |-> 0]
NotANumber == [k |-> "nan", sign |-> 0, m |-> 0, e |-> 0]

Field(sign, exp, top, expMax, frac, sig, unit) ==
  IF exp = expMax THEN IF frac THEN NotANumber ELSE Infinity(sign) ELSE Num(sign, sig, (IF exp = 0 THEN 1 ELSE exp) - top - unit)

Value(F, x) ==
  CASE F = "f32" -> Field(extractSign(F32, x), extractExp(F32, x), bias(F32), emax(F32), extractFrac(F32, x) # 0, Significand(F32, x), fb(F32))
    [] F = "f64" -> Field(extractSign(F64, x), extractExp(F64, x), bias(F64), emax(F64), extractFrac(F64, x) # 0, Significand(F64, x), fb(F64))
    [] F = "x80" -> Field(extractFloatx80Sign(x), extractFloatx80Exp(x), BX, EX, x.low % TopBit # 0, x.low, W - 1)
    [] F = "f128" -> Field(extractFloat128Sign(x), extractFloat128Exp(x), BX, EX, HasFrac(x), Sig0(x) * Base + x.low, FB0 + W)

\* Fraction bits and bias of a format; of floatx80 also by its precision.
Format(F) ==
  CASE F = "f32" -> [p |-> fb(F32), bias |-> bias(F32)]
    [] F = "f64" -> [p |-> fb(F64), bias |-> bias(F64)]
    [] F = "x80" -> [p |-> CASE s.prec = 32 -> fb(F32) [] s.prec = 64 -> fb(F64) [] OTHER -> W - 1, bias |-> BX]
    [] F = "f128" -> [p |-> FB0 + W, bias |-> BX]

Bits(m) == CHOOSE n \in 0 .. 30 : m < 2 ^ n /\ (n = 0 \/ m >= 2 ^ (n - 1))

\* m * 2^e in units of 2^u, rounded to an integer
RoundUnit(sign, m, e, u) ==
  LET n == u - e
      q == IF n <= 0 THEN m * 2 ^ (- n) ELSE IF n > 30 THEN 0 ELSE m \div 2 ^ n
      exact == n <= 0 \/ (n <= 30 /\ m % 2 ^ n = 0) \/ m = 0
      above == n \in 1 .. 30 /\ m % 2 ^ n > 2 ^ (n - 1)
      tie == n \in 1 .. 30 /\ m % 2 ^ n = 2 ^ (n - 1)
      up == CASE s.mode = "even" -> above \/ (tie /\ q % 2 = 1)
              [] s.mode = "zero" -> FALSE
              [] OTHER -> ~ exact /\ s.mode = (IF sign = 1 THEN "down" ELSE "up")
  IN  [q |-> IF up THEN q + 1 ELSE q, exact |-> exact]

\* The exact number rounded once to the format, with the flags of IEEE 754.
Rounded(F, sign, m, e) ==
  LET p == Format(F).p
      least == 1 - Format(F).bias
      top == e + Bits(m) - 1                       \* exponent of the number
      u == (IF top < least THEN least ELSE top) - p
      x == RoundUnit(sign, m, e, u)
      free == RoundUnit(sign, m, e, top - p)       \* as if exponents had no bound
      tiny == IF s.tiny THEN top < least ELSE top < least - 1 \/ (top = least - 1 /\ free.q < 2 ^ (p + 1))
      over == (u + p = Format(F).bias /\ x.q >= 2 ^ (p + 1)) \/ u + p > Format(F).bias
      max == Num(sign, 2 ^ (p + 1) - 1, Format(F).bias - p)
      toward == s.mode = "zero" \/ (s.mode = "down" /\ sign = 0) \/ (s.mode = "up" /\ sign = 1)
  IN  IF m = 0 THEN [v |-> Num(sign, 0, 0), f |-> {}]
      ELSE IF over THEN [v |-> IF toward THEN max ELSE Infinity(sign), f |-> {"overflow", "inexact"}]
      ELSE IF s.ftz /\ top < least THEN [v |-> Num(sign, 0, 0), f |-> {}]
      ELSE [v |-> Num(sign, x.q, u),
            f |-> (IF x.exact THEN {} ELSE {"inexact"}) \cup (IF tiny /\ ~ x.exact THEN {"underflow"} ELSE {})]

Just(v) == [v |-> v, f |-> {}]
InvalidOperation == [v |-> NotANumber, f |-> {"invalid"}]

\* x + y for numbers
Sum(F, x, y) ==
  LET e == IF x.m = 0 THEN y.e ELSE IF y.m = 0 THEN x.e ELSE IF x.e < y.e THEN x.e ELSE y.e
      M(v) == IF v.m = 0 THEN 0 ELSE v.m * 2 ^ (v.e - e)
      Signed(v) == IF v.sign = 1 THEN - M(v) ELSE M(v)
      t == Signed(x) + Signed(y)
  IN  IF t # 0 THEN Rounded(F, Flag(t < 0), Abs(t), e)
      ELSE Just(Num(IF x.sign = y.sign THEN x.sign ELSE Flag(s.mode = "down"), 0, 0))

\* A quotient of 2^15 and more, its last bit sticky
Quotient(F, x, y) ==
  LET lx == 13 - Bits(x.m)
      n == (x.m * 2 ^ lx) * 2 ^ 15
  IN  Rounded(F, Xor(x.sign, y.sign), 2 * (n \div y.m) + Flag(n % y.m # 0), x.e - lx - 15 - y.e - 1)

\* x - n * y, with n the integer nearest to x / y
Remainder(F, x, y) ==
  LET e == IF x.e < y.e THEN x.e ELSE y.e
      X == x.m * 2 ^ (x.e - e)   Y == y.m * 2 ^ (y.e - e)
      n == X \div Y   t == X % Y
      up == 2 * t > Y \/ (2 * t = Y /\ n % 2 = 1)
  IN  IF t = 0 THEN Just(Num(x.sign, 0, 0))
      ELSE Rounded(F, IF up THEN 1 - x.sign ELSE x.sign, IF up THEN Y - t ELSE t, e)

\* A root of 14 bits and more, its last bit sticky
SquareRoot(F, x) ==
  LET odd == x.e % 2
      lx == CHOOSE n \in 0 .. 28 : n % 2 = 0 /\ Bits(x.m * 2 ^ odd) + n \in {27, 28}
      n == (x.m * 2 ^ odd) * 2 ^ lx
      q == Root(n)
  IN  Rounded(F, 0, 2 * q + Flag(q * q # n), ((x.e - odd - lx) \div 2) - 1)

Reference ==
  LET x == Value(fmt, a)
      y == IF op \in Binary THEN Value(fmt, b) ELSE x
      y1 == IF op = "sub" THEN [y EXCEPT !.sign = 1 - @] ELSE y
      z == Xor(x.sign, y.sign)
      Inf(v) == v.k = "inf"
      Zero(v) == v.k = "num" /\ v.m = 0
  IN  CASE op \in {"add", "sub"} ->
             IF Inf(x) \/ Inf(y) THEN IF Inf(x) /\ Inf(y) /\ x.sign # y1.sign THEN InvalidOperation ELSE Just(IF Inf(x) THEN x ELSE y1)
             ELSE Sum(fmt, x, y1)
        [] op = "mul" ->
             IF Inf(x) \/ Inf(y) THEN IF Zero(x) \/ Zero(y) THEN InvalidOperation ELSE Just(Infinity(z))
             ELSE Rounded(fmt, z, x.m * y.m, x.e + y.e)
        [] op = "div" ->
             IF (Inf(x) /\ Inf(y)) \/ (Zero(x) /\ Zero(y)) THEN InvalidOperation
             ELSE IF Inf(x) THEN Just(Infinity(z))
             ELSE IF Zero(y) THEN [v |-> Infinity(z), f |-> {"divbyzero"}]
             ELSE IF Inf(y) \/ Zero(x) THEN Just(Num(z, 0, 0)) ELSE Quotient(fmt, x, y)
        [] op = "rem" ->
             IF Inf(x) \/ Zero(y) THEN InvalidOperation
             ELSE IF Inf(y) \/ Zero(x) THEN Just(x) ELSE Remainder(fmt, x, y)
        [] op = "sqrt" ->
             IF Zero(x) THEN Just(x) ELSE IF x.sign = 1 THEN InvalidOperation ELSE IF Inf(x) THEN Just(x) ELSE SquareRoot(fmt, x)
        [] op = "round_to_int" ->
             IF Inf(x) THEN Just(x)
             ELSE LET t == RoundUnit(x.sign, x.m, x.e, 0)
                  IN  IF x.m = 0 \/ x.e >= 0 THEN Just(x) ELSE [v |-> Num(x.sign, t.q, 0), f |-> IF t.exact THEN {} ELSE {"inexact"}]
        [] op = "scalbn" -> IF Inf(x) THEN Just(x) ELSE Rounded(fmt, x.sign, x.m, x.e + b)

\* The reference computes with 30 bits: operands of a remainder are not farther apart.
Fits ==
  LET x == Value(fmt, a)   y == Value(fmt, b)
  IN  x.m = 0 \/ y.m = 0 \/ (Bits(x.m) + x.e - y.e < 30 /\ Bits(y.m) + y.e - x.e < 30)

DrawFitting == Draw /\ (op = "rem" => Fits)

NaNs == Value(fmt, a).k = "nan" \/ (op \in Binary /\ Value(fmt, b).k = "nan")
Subnormal(F, x) ==
  CASE F = "f32" -> extractExp(F32, x) = 0 [] F = "f64" -> extractExp(F64, x) = 0
    [] F = "x80" -> extractFloatx80Exp(x) = 0 [] F = "f128" -> extractFloat128Exp(x) = 0
Agrees(F, t, ref) == Value(F, t.z) = ref.v /\ t.f = ref.f

(***************************************************************************)
(* Properties                                                              *)
(***************************************************************************)

\* Every arithmetic result is the exact one rounded once in the rounding mode, with
\* signed zeros, infinities, subnormal numbers and exactly the flags of IEEE 754,
\* whichever correction of an estimate or alignment was taken on the way.
CorrectlyRounded ==
  (op \in (Binary \cup {"sqrt", "round_to_int"}) \ {"compare"}) /\ ~ NaNs
       => Agrees(fmt, Arithmetic, Reference)

\* scalbn multiplies by a power of two.  A subnormal number it halves once too
\* often, and an infinity of floatx80 it does not recognise (it compares with
\* 0x7FF): the property is about the other numbers.
ScaledByPower ==
  op = "scalbn" /\ Value(fmt, a).k = "num" /\ ~ Subnormal(fmt, a) => Agrees(fmt, Arithmetic, Reference)

Target == CASE op = "to_f32" -> "f32" [] op = "to_f64" -> "f64" [] op = "to_x80" -> "x80" [] op = "to_f128" -> "f128"

\* A number that changes its format, or comes from an integer, is rounded once.
ConvertedNumbersRounded ==
  /\ op \in ToFormats /\ ~ NaNs =>
       LET x == Value(fmt, a)
       IN  Agrees(Target, Conversion, IF x.k = "inf" THEN Just(x) ELSE Rounded(Target, x.sign, x.m, x.e))
  /\ op \in FromInts => Agrees(fmt, Conversion, Rounded(fmt, SignOf(a), Abs(a), 0))

\* A conversion to an integer rounds, or truncates, once, and a number out of the
\* integer's range, or a NaN, gives the nearest bound and raises invalid alone (with
\* inexact perhaps when unsigned, through an integer of twice the width).
ConvertedIntegersSaturate ==
  (op \in ToInts) =>
       LET x == Value(fmt, a)
           zero == op \in {"to_int32_zero", "to_int64_zero", "to_uint32_zero"}
           lo == CASE op \in {"to_int32", "to_int32_zero"} -> MinInt(W32) [] op \in {"to_int64", "to_int64_zero"} -> MinInt(W) [] OTHER -> 0
           hi == CASE op \in {"to_int32", "to_int32_zero"} -> MaxInt(W32) [] op \in {"to_int64", "to_int64_zero"} -> MaxInt(W)
                   [] OTHER -> 2 ^ W32 - 1
           t == RoundUnit(x.sign, x.m, x.e, 0)
           q == IF zero THEN (IF x.e >= 0 THEN x.m * 2 ^ x.e ELSE IF x.e < -30 THEN 0 ELSE x.m \div 2 ^ (- x.e)) ELSE t.q
           n == IF x.sign = 1 THEN - q ELSE q
           huge == x.k # "num" \/ (x.m # 0 /\ x.e + Bits(x.m) > W + 1)
           out == huge \/ n < lo \/ n > hi
           r == Conversion
       IN  /\ out => r.z = (IF x.k # "nan" /\ x.sign = 1 THEN lo ELSE hi)
                     /\ r.f \in (IF lo = 0 THEN {{"invalid"}, {"invalid", "inexact"}} ELSE {{"invalid"}})
           /\ ~ out => r.z = n /\ r.f = (IF x.m = 0 \/ x.e >= 0 THEN {} ELSE {"inexact"})

Signaling(F, x) ==
  CASE F = "f32" -> float32_is_signaling_nan(x) [] F = "f64" -> float64_is_signaling_nan(x)
    [] F = "x80" -> floatx80_is_signaling_nan(x) [] F = "f128" -> float128_is_signaling_nan(x)

\* An operation on a NaN yields a quiet NaN, and raises invalid when an operand is
\* signaling.
NaNsPropagate ==
  (op \in (Binary \ {"compare"}) \cup {"sqrt", "round_to_int"}) /\ NaNs =>
       LET r == Arithmetic
       IN  /\ Value(fmt, r.z).k = "nan" /\ ~ Signaling(fmt, r.z)
           /\ r.f = InvalidIf(Signaling(fmt, a) \/ (op \in Binary /\ Signaling(fmt, b)))

\* The word that carries a NaN's payload from format to format.
Payload ==
  CASE fmt = "f32" -> float32ToCommonNaN(a).high [] fmt = "f64" -> float64ToCommonNaN(a).high
    [] fmt = "x80" -> floatx80ToCommonNaN(a).high [] fmt = "f128" -> float128ToCommonNaN(a).high

\* A NaN is still a NaN in another format, even when its payload does not fit, and a
\* signaling one raises invalid.  A quiet one stays quiet.  In floatx80 the word's top
\* bit, which is the quiet bit of the others, becomes the leading bit of the
\* significand: a NaN with that bit alone becomes an infinity, and only that one.
NaNsStayNaNs ==
  (op \in ToFormats) /\ NaNs =>
    LET r == Conversion
    IN  /\ r.f = InvalidIf(Signaling(fmt, a))
        /\ Value(Target, r.z).k = IF op = "to_x80" /\ Payload = TopBit THEN "inf" ELSE "nan"
        /\ op # "to_x80" /\ ~ Signaling(fmt, a) => ~ Signaling(Target, r.z)

\* A converted NaN is a quiet NaN, as "performed according to the IEC/IEEE Standard"
\* (softfloat.c:1440) has it.  The code keeps the payload, quiet bit included, or puts
\* it one bit too high, so it does not keep this.
NaNsConvertQuiet ==
  (op \in ToFormats) /\ NaNs =>
    Value(Target, Conversion.z).k = "nan" /\ ~ Signaling(Target, Conversion.z)

\* The comparisons are those of the numbers: the order of bit patterns is not that
\* of negative numbers, and both zeros are equal.
ComparesNumbers ==
  op = "compare" =>
       LET x == Value(fmt, a)   y == Value(fmt, b)
           d == Sum(fmt, x, [y EXCEPT !.sign = 1 - @]).v
           less == CASE x.k = "inf" -> x.sign = 1 /\ ~ (y.k = "inf" /\ y.sign = 1)
                     [] x.k # "inf" /\ y.k = "inf" -> y.sign = 0
                     [] OTHER -> d.sign = 1 /\ (d.m # 0 \/ d.k = "inf")
           equal == IF x.k = "inf" \/ y.k = "inf" THEN x = y ELSE d.k = "num" /\ d.m = 0
           sig == InvalidIf(Signaling(fmt, a) \/ Signaling(fmt, b))
           r == Comparisons
       IN  IF NaNs THEN /\ \A c \in DOMAIN r : r[c].z = FALSE
                        /\ \A c \in {"le", "lt", "eqs"} : r[c].f = {"invalid"}
                        /\ \A c \in {"eq", "leq", "ltq"} : r[c].f = sig
           ELSE /\ r.eq.z = equal /\ r.eqs.z = equal
                /\ r.lt.z = less /\ r.ltq.z = less
                /\ r.le.z = (less \/ equal) /\ r.leq.z = (less \/ equal)

\* The logarithm of a power of two is exact.
LogOfPowerExact ==
  op = "log2" /\ ~ NaNs =>
       LET x == Value(fmt, a)
           z == Value(fmt, Arithmetic.z)
       IN  x.k = "num" /\ x.sign = 0 /\ x.m = 1 =>
             z = Num(SignOf(x.e), Abs(x.e), 0) \/ (x.e = 0 /\ z.m = 0)

Value16(x) ==
  LET exp == (x \div 2 ^ FB16) % 2 ^ EB16
      sig == x % 2 ^ FB16
  IN  Field(x \div 2 ^ (EB16 + FB16), exp, Bias16, Emax16, sig # 0, IF exp = 0 THEN sig ELSE sig + 2 ^ FB16, FB16)

\* Half precision numbers are widened without loss, and a number that is not below
\* the least half precision number is rounded once on the way back.
HalfPrecision ==
  /\ op = "from_f16" => Value("f32", Conversion.z) = Value16(a)
  /\ op = "to_f16" /\ ~ NaNs =>
       LET x == Value("f32", a)
           least == 1 - Bias16
           top == x.e + Bits(x.m) - 1
           u == (IF top < least THEN least ELSE top) - FB16
           t == RoundUnit(x.sign, x.m, x.e, u)
       IN  x.k = "num" /\ top >= least - FB16 =>
             Value16(Conversion.z) = IF (u + FB16 = Bias16 /\ t.q >= 2 ^ (FB16 + 1)) \/ u + FB16 > Bias16 THEN Infinity(x.sign)
                                     ELSE Num(x.sign, t.q, u)
=============================================================================
