--------------------------- MODULE SoftFloatWords ---------------------------
(***************************************************************************)
(* Every operation of SoftFloatMacros on small inputs: Draw chooses an        *)
(* operation and its operands, Result applies it.                            *)
(***************************************************************************)
EXTENDS SoftFloatMacros

CONSTANTS AllCounts      \* TRUE: shift128Right also gets counts of a word and more

VARIABLES op, arg, count

Edges == {0, 1, TopBit - 1, TopBit, Base - 1}
Counts == 0 .. 3 * W

Tuples(S, n) == [1 .. n -> S]

Draw ==
  /\ \/ op \in {"jam64", "extra64"} /\ arg \in Tuples(Word, 2) /\ count \in Counts
     \/ op \in {"right128", "rightjam128"} /\ arg \in Tuples(Word, 2)
        /\ count \in (IF AllCounts \/ op # "right128" THEN Counts ELSE 0 .. W - 1)
     \/ op = "left128" /\ arg \in Tuples(Word, 2) /\ count \in 0 .. W - 1
     \/ op = "left192" /\ arg \in Tuples(Word, 3) /\ count \in 0 .. W - 1
     \/ op = "extra128" /\ arg \in Tuples(Word, 3) /\ count \in {0, 1, W - 1, W, W + 1, 2 * W - 1, 2 * W, 2 * W + 1}
     \/ op \in {"add128", "sub128", "mul256"} /\ arg \in Tuples(Edges \cup {2, TopBit + 1}, 4) /\ count = 0
     \/ op \in {"add192", "sub192"} /\ arg \in Tuples(Edges, 6) /\ count = 0
     \/ op = "mul128" /\ arg \in Tuples(Word, 2) /\ count = 0
     \/ op = "mul192" /\ arg \in Tuples(Word, 3) /\ count = 0
     \/ op = "div" /\ arg \in {t \in Tuples(Word, 3) : t[3] >= TopBit} /\ count = 0

Result ==
  CASE op = "jam64" -> <<shift64RightJamming(arg[1], count)>>
    [] op = "extra64" -> shift64ExtraRightJamming(arg[1], arg[2], count)
    [] op = "right128" -> shift128Right(arg[1], arg[2], count)
    [] op = "rightjam128" -> shift128RightJamming(arg[1], arg[2], count)
    [] op = "extra128" -> shift128ExtraRightJamming(arg[1], arg[2], arg[3], count)
    [] op = "left128" -> shortShift128Left(arg[1], arg[2], count)
    [] op = "left192" -> shortShift192Left(arg[1], arg[2], arg[3], count)
    [] op = "add128" -> add128(arg[1], arg[2], arg[3], arg[4])
    [] op = "sub128" -> sub128(arg[1], arg[2], arg[3], arg[4])
    [] op = "add192" -> add192(arg[1], arg[2], arg[3], arg[4], arg[5], arg[6])
    [] op = "sub192" -> sub192(arg[1], arg[2], arg[3], arg[4], arg[5], arg[6])
    [] op = "mul128" -> mul64To128(arg[1], arg[2])
    [] op = "mul192" -> mul128By64To192(arg[1], arg[2], arg[3])
    [] op = "mul256" -> mul128To256(arg[1], arg[2], arg[3], arg[4])
    [] op = "div" -> <<estimateDiv128To64(arg[1], arg[2], arg[3])>>

(***************************************************************************)
(* Properties                                                              *)
(***************************************************************************)

\* The number that a tuple of words stands for.
Num(t) == LET N[i \in 0 .. Len(t)] == IF i = 0 THEN 0 ELSE N[i - 1] * Base + t[i] IN N[Len(t)]

\* x shifted right by n, its last bit set when a bit that was shifted out was.
Jammed(x, n) == Sticky(IF n > 24 THEN 0 ELSE x \div 2 ^ n, IF n > 24 THEN x # 0 ELSE x % 2 ^ n # 0)

\* z is x shifted right by count and an extra word: its top bit is the last bit
\* shifted out, its other bits tell whether any bit before that one was set.
ExtraJammed(x, rest, zz) ==
  LET n == IF count > 24 THEN 24 ELSE count
  IN  /\ Num(SubSeq(zz, 1, Len(zz) - 1)) = x \div 2 ^ n
      /\ Negative(zz[Len(zz)]) = ((x \div 2 ^ (n - 1)) % 2 = 1)
      /\ (zz[Len(zz)] % TopBit # 0) = (rest \/ x % 2 ^ (n - 1) # 0)

\* Every shift moves the wide number as its comment says: lost bits are dropped
\* (right128), or leave a mark in the last bit of the whole (jam), or are told
\* by the extra word behind the number (extra).  Counts past the width are included,
\* for right128 if AllCounts.
ShiftsAreExact(z) ==
    /\ op = "jam64" => z[1] = Jammed(arg[1], count)
    /\ op = "rightjam128" => Num(z) = Jammed(Num(<<arg[1], arg[2]>>), count)
    /\ op = "extra64" => IF count = 0 THEN z = arg ELSE ExtraJammed(arg[1], arg[2] # 0, z)
    /\ op = "extra128" => IF count = 0 THEN z = arg ELSE ExtraJammed(Num(<<arg[1], arg[2]>>), arg[3] # 0, z)
    /\ op = "right128" => Num(z) = (IF count >= 2 * W THEN 0 ELSE Num(<<arg[1], arg[2]>>) \div 2 ^ count)
    /\ op = "left128" => Num(z) = (Num(<<arg[1], arg[2]>>) * 2 ^ count) % (Base * Base)
    /\ op = "left192" => Num(z) = (Num(arg) * 2 ^ count) % (Base * Base * Base)

\* Sums, differences and products are those of the numbers, modulo their width:
\* no carry and no borrow is lost between the words.
ArithmeticIsExact(z) ==
    /\ op = "add128" => Num(z) = (Num(<<arg[1], arg[2]>>) + Num(<<arg[3], arg[4]>>)) % (Base ^ 2)
    /\ op = "sub128" => Num(z) = (Num(<<arg[1], arg[2]>>) - Num(<<arg[3], arg[4]>>)) % (Base ^ 2)
    /\ op = "add192" => Num(z) = (Num(<<arg[1], arg[2], arg[3]>>) + Num(<<arg[4], arg[5], arg[6]>>)) % (Base ^ 3)
    /\ op = "sub192" => Num(z) = (Num(<<arg[1], arg[2], arg[3]>>) - Num(<<arg[4], arg[5], arg[6]>>)) % (Base ^ 3)
    /\ op = "mul128" => Num(z) = arg[1] * arg[2]
    /\ op = "mul192" => Num(z) = Num(<<arg[1], arg[2]>>) * arg[3]
    /\ op = "mul256" => Num(z) = Num(<<arg[1], arg[2]>>) * Num(<<arg[3], arg[4]>>)

\* The estimated quotient is the true one or at most 2 more, or all ones when
\* the true one does not fit: what the corrections of its callers rely on.
QuotientWithinTwo(z) ==
  op = "div" =>
    LET q == Num(<<arg[1], arg[2]>>) \div arg[3]
    IN  IF q >= Base THEN z[1] = Base - 1 ELSE z[1] \in q .. q + 2

\* Each of the three, of the operation drawn.
WordsAreExact ==
  LET z == Result IN ShiftsAreExact(z) /\ ArithmeticIsExact(z) /\ QuotientWithinTwo(z)
=============================================================================
