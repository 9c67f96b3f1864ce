---------------------------- MODULE LeadMapping ----------------------------
(***************************************************************************)
(* How LEAD turns a prediction of the model into a hash: the calibration,  *)
(* MappingConfig::compute and IndexMapper.  Up to one word of hash space   *)
(* is handled in native integers, more in UInt256 and UInt320.             *)
(*                                                                         *)
(* A prediction is a rational, in units of 1 / Grain as it leaves the      *)
(* model.  The rounding of double arithmetic before the fraction is cut    *)
(* to a word is left out.                                                  *)
(***************************************************************************)
EXTENDS UInt256, TLC

CONSTANTS FixedBits,    \* the scale factor is in units of 2^-32
          Grain         \* of the predictions of the model

ASSUME MappingAssumption ==
    /\ FixedBits \in Nat /\ FixedBits < WordBits
    /\ Grain \in Nat \ {0}

FixedOne == PowerOf2(FixedBits)

\* scale_factor n/d: rounded to the nearest step, and kept in 1 .. FixedOne.
scale_factor_fixed(n, d) ==
    LET rounded == (2 * n * FixedOne + d) \div (2 * d)
    IN IF n > d \/ rounded > FixedOne THEN FixedOne
       ELSE IF rounded = 0 THEN 1 ELSE rounded

Fits(bits) == bits <= WordBits

ScaledRangeWord(bits, fixed) == ((PowerOf2(bits) - 1) * fixed) \div FixedOne
ScaledRangeWide(bits, fixed) ==
    IF fixed = FixedOne THEN max_for_bits(bits)
    ELSE shr_320(mul_u64_wide(max_for_bits(bits), fixed), FixedBits)

ScaledRange(bits, fixed) ==
    IF Fits(bits) THEN FromWord(ScaledRangeWord(bits, fixed))
    ELSE ScaledRangeWide(bits, fixed)

\* MappingConfig::compute, which knows only the wide path.
Mapping(maxIndex, bits, fixed) ==
    [max_index |-> maxIndex,
     space_bits |-> bits,
     fixed |-> fixed,
     scale_words |-> IF maxIndex = 0 THEN Zero256
                     ELSE div_u64(ScaledRangeWide(bits, fixed), maxIndex)]

\* fraction_to_fixed of n/d with 0 < n < d.
FractionToFixed(n, d) ==
    LET fixed == (n * Base) \div d
    IN IF fixed = 0 THEN 1 ELSE fixed

ScaleByFraction(config, fixed) ==
    LET range == ScaledRange(config.space_bits, config.fixed)
    IN IF Fits(config.space_bits) THEN FromWord((range[0] * fixed) \div Base)
       ELSE mask_bits(shr_320_64(mul_u64_wide(range, fixed)), config.space_bits)

\* IndexMapper::map_double of the prediction n/d.
map_double(config, n, d) ==
    IF config.max_index = 0 \/ n <= 0 THEN Zero256
    ELSE IF n >= config.max_index * d
         THEN ScaledRange(config.space_bits, config.fixed)
    ELSE ScaleByFraction(config, FractionToFixed(n, config.max_index * d))

\* IndexMapper::map of an index.
map(config, index) ==
    LET idx == IF index < config.max_index THEN index ELSE config.max_index
        low == config.scale_words[0]
    IN IF Fits(config.space_bits)
       THEN FromWord(IF low # 0 THEN (idx * low) % Base
                     ELSE IF config.max_index = 0 THEN 0
                     ELSE (idx * ScaledRangeWord(config.space_bits, config.fixed))
                             \div config.max_index)
       ELSE mask_bits(mul_u64(config.scale_words, idx), config.space_bits)

\* Hasher::apply_calibration of p / Grain: the numerator and denominator of
\* (p - low) * max_index / (high - low).
apply_calibration(max_index, low, high, p) ==
    <<(p - low) * max_index, high - low>>

-----------------------------------------------------------------------------
(* What the above computes, in unbounded integers.                         *)

RangeRef(config) == ((PowerOf2(config.space_bits) - 1) * config.fixed) \div FixedOne

HashRef(config, n, d) ==
    IF config.max_index = 0 \/ n <= 0 THEN 0
    ELSE IF n >= config.max_index * d THEN RangeRef(config)
    ELSE (RangeRef(config) * FractionToFixed(n, config.max_index * d)) \div Base

=============================================================================
