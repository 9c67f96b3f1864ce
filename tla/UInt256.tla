------------------------------ MODULE UInt256 ------------------------------
(***************************************************************************)
(* The word-by-word arithmetic of rm_model's UInt256 and UInt320: four and *)
(* five words of WordBits bits, little-endian, with the carry or remainder *)
(* passed from word to word.  Value gives the number the words stand for.  *)
(***************************************************************************)
EXTENDS Integers

CONSTANT WordBits       \* 64

ASSUME WordAssumption == WordBits \in Nat \ {0}

\* 2^n, by doubling: the provers know no law of ^ with a variable exponent.
PowerOf2(n) ==
    LET power[i \in 0 .. n] == IF i = 0 THEN 1 ELSE 2 * power[i - 1]
    IN power[n]

Base == PowerOf2(WordBits)
WordIndex == 0 .. 3
Word256 == [WordIndex -> 0 .. Base - 1]

Zero256 == [i \in WordIndex |-> 0]
FromWord(x) == [Zero256 EXCEPT ![0] = x]

Value(v) == v[0] + Base * (v[1] + Base * (v[2] + Base * v[3]))

max_for_bits(bits) ==
    [i \in WordIndex |->
        IF i < bits \div WordBits THEN Base - 1
        ELSE IF i = bits \div WordBits THEN PowerOf2(bits % WordBits) - 1
        ELSE 0]

mask_bits(v, bits) ==
    [i \in WordIndex |->
        IF i < bits \div WordBits THEN v[i]
        ELSE IF i = bits \div WordBits THEN v[i] % PowerOf2(bits % WordBits)
        ELSE 0]

\* The carry out of the words below word i.
Carry(v, m) ==
    LET carry[i \in 0 .. 4] ==
            IF i = 0 THEN 0 ELSE (v[i - 1] * m + carry[i - 1]) \div Base
    IN carry

\* Mutant: the carry is dropped.
MulWithoutCarry(v, m) ==
    [i \in 0 .. 4 |-> IF i = 4 THEN Carry(v, m)[4] ELSE (v[i] * m) % Base]

\* Five words.
mul_u64_wide(v, m) ==
    LET carry == Carry(v, m)
    IN [i \in 0 .. 4 |-> IF i = 4 THEN carry[4] ELSE ((v[i] * m) + carry[i]) % Base]

\* Four words; what overflows is dropped.
mul_u64(v, m) == [i \in WordIndex |-> mul_u64_wide(v, m)[i]]

div_u64(v, d) ==
    LET rem[i \in 0 .. 4] ==
            IF i = 4 THEN 0 ELSE (rem[i + 1] * Base + v[i]) % d
    IN [i \in WordIndex |-> (rem[i + 1] * Base + v[i]) \div d]

\* Of five words, for shift < WordBits.
shr_320(w, shift) ==
    [i \in WordIndex |->
        (w[i] \div PowerOf2(shift)) + ((w[i + 1] * PowerOf2(WordBits - shift)) % Base)]

\* Of five words, by one word.
shr_320_64(w) == [i \in WordIndex |-> w[i + 1]]

shr_256(v, shift) ==
    LET word(i) == IF i < 4 THEN v[i] ELSE 0
        skip == shift \div WordBits
        bits == shift % WordBits
    IN [i \in WordIndex |->
            (word(i + skip) \div PowerOf2(bits))
            + ((word(i + skip + 1) * PowerOf2(WordBits - bits)) % Base)]

\* The most significant word of a value of so many bits.
msb_u64(v, bits) ==
    IF bits <= WordBits THEN v[0] % PowerOf2(bits) ELSE shr_256(v, bits - WordBits)[0]

\* The two most significant words, the lower one first.
msb_u128(v, bits) ==
    LET shifted == shr_256(v, IF bits <= 2 * WordBits THEN 0 ELSE bits - 2 * WordBits)
    IN <<shifted[0], shifted[1]>>

=============================================================================
