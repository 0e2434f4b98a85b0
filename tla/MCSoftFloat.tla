---------------------------- MODULE MCSoftFloat ----------------------------
(***************************************************************************)
(* The floating point emulation, model checked on small formats: a            *)
(* behaviour draws an operation and its operands and applies it in one step.  *)
(* The sizes are chosen per group of operations: TLC's integers have 31 bits,  *)
(* and the shifts and estimates need room that depends on the format.         *)
(***************************************************************************)
EXTENDS Integers, Sequences

VARIABLES
  size,                \* the group
  op, fmt, a, b, s,    \* operation, format, operands and status
  applied

operation == <<size, op, fmt, a, b, s>>
vars == <<operation, applied>>

ArithmeticOps == {"add", "sub", "mul", "div", "rem", "sqrt", "round_to_int", "compare"}
Conversions ==
  {"from_int32", "from_int64", "to_int32", "to_int64", "to_int32_zero", "to_int64_zero",
   "to_uint32", "to_uint32_zero", "from_uint64", "to_f32", "to_f64", "to_x80", "to_f128",
   "to_f16", "from_f16"}

\* The words of SoftFloatMacros, of four bits.  shift128Right gets counts below
\* a word: it is wrong for others.
Words == INSTANCE SoftFloatWords WITH W <- 4, AllCounts <- FALSE, arg <- a, count <- b

\* float32 of 8 bits and float64 of 12.
Short == INSTANCE SoftFloatCheck WITH
  W <- 12, W32 <- 8, EB32 <- 4, EB64 <- 4, EB16 <- 3, FB16 <- 2, EBX <- 4,
  Formats <- {"f32", "f64"}, Names <- ArithmeticOps \cup {"log2", "scalbn"},
  Exponents <- {0, 1, 2, 7, 14, 15}, Modes <- {"even", "down", "zero"}, Tininess <- BOOLEAN,
  Flush <- {FALSE}, DefaultNaN <- {FALSE}, Precisions <- {80}

\* floatx80 and float128 in words of 8 bits.
Wide == INSTANCE SoftFloatCheck WITH
  W <- 8, W32 <- 8, EB32 <- 4, EB64 <- 3, EB16 <- 3, FB16 <- 2, EBX <- 4,
  Formats <- {"x80", "f128"}, Names <- ArithmeticOps \ {"rem", "round_to_int"},
  Exponents <- {0, 1, 8, 14, 15}, Modes <- {"even", "up"}, Tininess <- {TRUE},
  Flush <- {FALSE}, DefaultNaN <- {FALSE}, Precisions <- {32, 80}

\* Remainders and roundings to an integer, which need larger exponents.
Long == INSTANCE SoftFloatCheck WITH
  W <- 12, W32 <- 8, EB32 <- 4, EB64 <- 4, EB16 <- 3, FB16 <- 2, EBX <- 8,
  Formats <- {"x80", "f128"}, Names <- {"rem", "round_to_int", "scalbn"},
  Exponents <- {0, 1, 127, 130, 137, 139, 142, 255}, Modes <- {"even", "down", "zero"},
  Tininess <- BOOLEAN, Flush <- {FALSE}, DefaultNaN <- {FALSE}, Precisions <- {80}

\* Conversions of float32, whose exponent must reach the integers' width.
Conv32 == INSTANCE SoftFloatCheck WITH
  W <- 18, W32 <- 12, EB32 <- 6, EB64 <- 7, EB16 <- 3, FB16 <- 2, EBX <- 7,
  Formats <- {"f32"}, Names <- Conversions, Exponents <- 0 .. 63,
  Modes <- {"even", "down", "zero"}, Tininess <- BOOLEAN,
  Flush <- {FALSE}, DefaultNaN <- {FALSE}, Precisions <- {80}

\* Conversions of the others, with three different exponent ranges.
Conv == INSTANCE SoftFloatCheck WITH
  W <- 18, W32 <- 7, EB32 <- 4, EB64 <- 6, EB16 <- 3, FB16 <- 2, EBX <- 7,
  Formats <- {"f64", "x80", "f128"}, Names <- Conversions,
  Exponents <- (0 .. 2) \cup (22 .. 42) \cup (52 .. 72) \cup (78 .. 83) \cup (93 .. 96) \cup (124 .. 127),
  Modes <- {"even", "zero"}, Tininess <- BOOLEAN,
  Flush <- {FALSE}, DefaultNaN <- {FALSE}, Precisions <- {80}

ASSUME SizesAssumption ==
  /\ Words!WordAssumption
  /\ Short!WordAssumption /\ Short!FormatAssumption
  /\ Wide!WordAssumption /\ Wide!FormatAssumption /\ Wide!WideAssumption
  /\ Long!WordAssumption /\ Long!FormatAssumption /\ Long!WideAssumption
  /\ Conv32!WordAssumption /\ Conv32!FormatAssumption /\ Conv32!WideAssumption
  /\ Conv!WordAssumption /\ Conv!FormatAssumption /\ Conv!WideAssumption

Init ==
  /\ applied = FALSE
  /\ \/ size = "Words" /\ Words!Draw /\ fmt = "word" /\ s = "none"
     \/ size = "Conv32" /\ Conv32!DrawFitting
     \/ size = "Long" /\ Long!DrawFitting
     \/ size = "Short" /\ Short!DrawFitting
     \/ size = "Conv" /\ Conv!DrawFitting
     \/ size = "Wide" /\ Wide!DrawFitting

Apply == ~ applied /\ applied' = TRUE /\ UNCHANGED operation
Done == applied /\ UNCHANGED vars
Next == Apply \/ Done

Spec == Init /\ [][Next]_vars

\* Shifts, sums, products and estimated quotients of words are exact, or as far
\* off as their callers allow for.
WordsAreExact == [][size = "Words" => Words!WordsAreExact]_vars

\* Every arithmetic result is the exact one rounded once, with exactly the flags
\* of IEEE 754; comparisons are those of the numbers, logarithms of powers exact.
\* A number that changes its format is rounded once; out of an integer's range it
\* becomes the nearest bound and raises invalid.
CorrectlyRounded ==
  [][/\ size = "Short" => /\ Short!CorrectlyRounded /\ Short!ComparesNumbers
                          /\ Short!ScaledByPower /\ Short!LogOfPowerExact
     /\ size = "Wide" => Wide!CorrectlyRounded /\ Wide!ComparesNumbers
     /\ size = "Long" => Long!CorrectlyRounded /\ Long!ScaledByPower
     /\ size = "Conv32" => /\ Conv32!ConvertedNumbersRounded
                           /\ Conv32!ConvertedIntegersSaturate /\ Conv32!HalfPrecision
     /\ size = "Conv" => Conv!ConvertedNumbersRounded /\ Conv!ConvertedIntegersSaturate]_vars

\* An operation on a NaN yields a quiet NaN; a NaN that changes its format stays one,
\* and quiet if it was, but for one that floatx80 takes for an infinity; a signaling
\* one raises invalid.
NaNsPropagate ==
  [][/\ size = "Short" => Short!NaNsPropagate
     /\ size = "Wide" => Wide!NaNsPropagate
     /\ size = "Long" => Long!NaNsPropagate
     /\ size = "Conv32" => Conv32!NaNsStayNaNs
     /\ size = "Conv" => Conv!NaNsStayNaNs]_vars
=============================================================================
