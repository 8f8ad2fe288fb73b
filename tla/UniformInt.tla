----------------------------- MODULE UniformInt -----------------------------
(***************************************************************************)
(* ext::uniform_int_distribution_fast                                      *)
(* (MCTSSearchTree/uniform_int_distribution_fast.hpp): integers of an      *)
(* interval out of the words of a generator, by multiplication and         *)
(* rejection.                                                              *)
(*                                                                         *)
(* A word is one of 0 .. W - 1 and an integer type holds W values, so that *)
(* its arithmetic is modulo W.  operator ( ) calls bounded_range_lemire.   *)
(* bounded_range_lemire_oneill stands next to it to be put in its place,   *)
(* and is checked for the same; which one it is, is fixed in DrawInit.     *)
(***************************************************************************)
EXTENDS Integers, FiniteSets

CONSTANTS W,         \* 2^16, 2^32 or 2^64 in the code
          Promoted   \* range_type is narrower than int, and is computed with as int

ASSUME WordsAssumption == W \in Nat \ {0, 1} /\ Promoted \in BOOLEAN

VARIABLES
  loop,       \* "lemire" or "lemire_oneill"
  lowest,     \* numeric_limits::min ( ) of the result_type
  bounds,     \* history: the arguments of the constructor
  min, range, \* param_type
  pc,         \* "idle", "first" (a word is drawn ahead of the loop) or "loop"
  result

drawVars == <<loop, lowest, bounds, min, range, pc, result>>

Words == 0 .. W - 1
highest == lowest + W - 1

\* Conversions to range_type and to result_type.
toRange(i) == i % W
toResult(i) == lowest + ((i - lowest) % W)

(***************************************************************************)
(* param_type.  The range wraps to 0 for all values of the type.           *)
(*                                                                         *)
(* The sum is computed in the signed type.  For 32 and 64 bits and a wide  *)
(* interval it overflows there, which is undefined; the model takes the    *)
(* value modulo W, which the conversion to the unsigned range_type makes   *)
(* of a sum that wraps.                                                    *)
(***************************************************************************)
\* [Mutant: the upper bound is taken for exclusive.]
rangeOf_exclusive(a, b) == toRange(b - a)

rangeOf(a, b) == toRange(b - a + 1)

b_of(m, r) == IF r # 0 THEN toResult(r + m - 1) ELSE highest

(***************************************************************************)
(* The loops: which word ends them, and what they return for it.           *)
(***************************************************************************)
low(x, r) == (x * r) % W
high(x, r) == (x * r) \div W
range_mask == W \div 2

\* [Mutant: words are rejected up to the range.]
threshold_range(r) == r

\* ( 0 - range ) % range: in int this is a multiple of the range.
threshold(r) == IF Promoted THEN 0 ELSE toRange(-r) % r

\* The same, without a division when the range is large.
threshold_oneill(r) ==
  LET t == toRange(toRange(-r) - r) IN IF t >= r THEN t % r ELSE t

accepts(x, r) ==
  IF loop = "lemire" THEN low(x, r) >= threshold(r)
  ELSE IF r >= range_mask THEN x < r
  ELSE low(x, r) >= r \/ low(x, r) >= threshold_oneill(r)

drawn(x, r) == IF loop = "lemire_oneill" /\ r >= range_mask THEN x ELSE high(x, r)

\* operator ( ): a range of 0 takes the word as it is.
ends(x) == range = 0 \/ accepts(x, range)
value(x) == IF range = 0 THEN toResult(x) ELSE toResult(toResult(drawn(x, range)) + min)

----------------------------------------------------------------------------
Intervals == {ab \in (lowest .. highest) \X (lowest .. highest) : ab[1] <= ab[2]}

\* Signed or unsigned, any interval.
DrawInit ==
  /\ loop \in {"lemire", "lemire_oneill"}
  /\ lowest \in {0, -(W \div 2)}
  /\ bounds \in Intervals
  /\ min = bounds[1] /\ range = rangeOf(bounds[1], bounds[2])
  /\ pc = "idle" /\ result = bounds[1]

\* param ( params ).
Param ==
  /\ pc = "idle"
  /\ bounds' \in Intervals
  /\ min' = bounds'[1] /\ range' = rangeOf(bounds'[1], bounds'[2])
  /\ result' = bounds'[1]   \* the last integer is dropped
  /\ UNCHANGED <<loop, lowest, pc>>

Call ==
  /\ pc = "idle"
  /\ pc' = IF loop = "lemire_oneill" /\ range >= range_mask THEN "first" ELSE "loop"
  /\ UNCHANGED <<loop, lowest, bounds, min, range, result>>

\* A large range does without the word that was drawn first.
First == pc = "first" /\ pc' = "loop" /\ UNCHANGED <<loop, lowest, bounds, min, range, result>>

\* A word that does not end the loop changes nothing.
Draw(x) ==
  /\ pc = "loop"
  /\ IF ends(x) THEN pc' = "idle" /\ result' = value(x) ELSE UNCHANGED <<pc, result>>
  /\ UNCHANGED <<loop, lowest, bounds, min, range>>

DrawNext == Param \/ Call \/ First \/ \E x \in Words : Draw(x)

DrawSpec == DrawInit /\ [][DrawNext]_drawVars

----------------------------------------------------------------------------
\* What operator ( ) returns is in the interval the distribution was made for,
\* and a ( ) and b ( ) give the interval back, signed or not, for all values of
\* the type and across the wrap of range to 0.
InInterval ==
  /\ result \in bounds[1] .. bounds[2]
  /\ min = bounds[1] /\ b_of(min, range) = bounds[2]

\* Each integer of the interval is the result of equally many words, and no loop
\* rejects more of them than it has to, but that the second takes one word for
\* each integer of half of the words, too.
Uniform ==
  LET a == bounds[1]
      b == bounds[2]
      words(v) == Cardinality({x \in Words : ends(x) /\ value(x) = v})
  IN  \A v \in a .. b :
        words(v) = IF loop = "lemire_oneill" /\ range = range_mask THEN 1 ELSE W \div (b - a + 1)

============================================================================
