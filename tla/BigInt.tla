-------------------------------- MODULE BigInt --------------------------------
(***************************************************************************)
(* BigInts (quickjs.c): two's complement numbers of any length, in limbs,  *)
(* the least one first.  Operators of the script, with their short cuts    *)
(* for numbers of one limb; conversions to text and to doubles, and        *)
(* comparison with doubles.                                                *)
(*                                                                         *)
(* A limb has JS_LIMB_BITS bits, and a double DBL_MANT_DIG bits of         *)
(* significand.  A JSBigInt of one limb is a short BigInt                  *)
(* (JS_CompactBigInt), so the sequence of limbs says which one it is.      *)
(***************************************************************************)
EXTENDS Integers, FiniteSets, Sequences, SequencesExt, Bitwise

CONSTANTS
    JS_LIMB_BITS,
    JS_BIGINT_MAX_SIZE,  \* in limbs
    DBL_MANT_DIG,        \* at least 3 less than JS_LIMB_BITS, as 53 is
    MaxExp,              \* bound: exponents of doubles
    Xs, Ys,              \* the integers that are first and second operands
    Radices, TextRadices,\* for digits, and of those for text that is parsed
    Ops                  \* the operators and functions that are called

VARIABLES
    x,    \* limbs of the first operand
    out   \* the operator, the second operand, and the result

vars == <<x, out>>

BigIntAssumption ==
    /\ JS_LIMB_BITS \in Nat /\ JS_LIMB_BITS > 1
    /\ JS_BIGINT_MAX_SIZE \in Nat
    /\ TextRadices \subseteq Radices \cap {2, 8, 10, 16}

Base == 2 ^ JS_LIMB_BITS
Half == Base \div 2
Ones == Base - 1             \* -1 as a limb
RangeError == <<>>           \* no number

-----------------------------------------------------------------------------
(***************************************************************************)
(* Loops over limbs.  One from the least limb up, with a carry: T is the   *)
(* double limb of an iteration.                                            *)
(***************************************************************************)
Upwards(n, T(_, _), carry) ==
    LET into[i \in 1..n + 1] == IF i = 1 THEN carry ELSE T(i - 1, into[i - 1]) \div Base
    IN [tab |-> [i \in 1..n |-> T(i, into[i]) % Base], carry |-> into[n + 1]]

\* One from the highest limb down, with a remainder: D is the quotient and the
\* remainder of the two limbs of an iteration.
Downwards(a, D(_, _)) ==
    LET rem[i \in 0..Len(a)] == IF i = Len(a) THEN 0 ELSE D(rem[i + 1], a[i + 1]).r
    IN [tab |-> [i \in DOMAIN a |-> D(rem[i], a[i]).q], rem |-> rem[0]]

mp_add(a, b) == Upwards(Len(b), LAMBDA i, c : a[i] + b[i] + c, 0)
mp_sub(a, b) == Upwards(Len(b), LAMBDA i, c : a[i] - b[i] + c, 0)
mp_neg(a) == Upwards(Len(a), LAMBDA i, c : Ones - a[i] + c, 1).tab
mp_mul1(a, b, l) == Upwards(Len(a), LAMBDA i, c : a[i] * b + c, l)
mp_add_mul1(r, a, b) == Upwards(Len(a), LAMBDA i, c : r[i] + a[i] * b + c, 0)
mp_sub_mul1(r, a, b) == Upwards(Len(a), LAMBDA i, c : r[i] - a[i] * b + c, 0)

Divided(r, limb, b) == [q |-> (r * Base + limb) \div b, r |-> (r * Base + limb) % b]
mp_div1(a, b) == Downwards(a, LAMBDA r, limb : Divided(r, limb, b))

\* 1 <= shift < JS_LIMB_BITS
mp_shl(a, shift) ==
    LET out_of(i) == IF i = 0 THEN 0 ELSE a[i] \div 2 ^ (JS_LIMB_BITS - shift)
    IN [tab |-> [i \in DOMAIN a |-> ((a[i] * 2 ^ shift) % Base) + out_of(i - 1)],
        carry |-> out_of(Len(a))]

mp_shr(a, shift, high) ==
    [i \in DOMAIN a |->
        (a[i] \div 2 ^ shift)
            + ((IF i = Len(a) THEN high ELSE a[i + 1]) * 2 ^ (JS_LIMB_BITS - shift) % Base)]

\* r with tab in it, behind the first from limbs.
Splice(r, from, tab) == SubSeq(r, 1, from) \o tab \o SubSeq(r, from + Len(tab) + 1, Len(r))

\* The first row, then each limb of b one limb further up.
mp_mul_basecase(a, b) ==
    LET first == mp_mul1(a, b[1], 0)
        Put(r, i, row) == SubSeq(r, 1, i - 1) \o row.tab \o <<row.carry>>
        Row(r, i) == Put(r, i, mp_add_mul1(SubSeq(r, i, Len(r)), a, b[i]))
        rows[i \in DOMAIN b] ==
            IF i = 1 THEN first.tab \o <<first.carry>> ELSE Row(rows[i - 1], i)
    IN rows[Len(b)]

-----------------------------------------------------------------------------
(***************************************************************************)
(* Division by a normalized number, whose highest bit is set               *)
(***************************************************************************)
UDIV1NORM_THRESHOLD == 3

udiv1norm_init(d) == ((Base - d - 1) * Base + Ones) \div d

\* The inverse of d instead of a division: a1 and a0 are the two limbs.
udiv1norm(a1, a0, d, d_inv) ==
    LET n1m == IF a0 >= Half THEN Ones ELSE 0
        n_adj == (a0 + (n1m & d)) % Base
        q1 == ((d_inv * ((a1 - n1m) % Base) + n_adj) \div Base + a1) % Base
        a == (a1 * Base + a0 - q1 * d - d) % (Base * Base)
        ah == a \div Base
    IN [q |-> (q1 + 1 + ah) % Base, r |-> (a + (ah & d)) % Base]

mp_div1norm(a, b) ==
    LET b_inv == udiv1norm_init(b)
    IN IF Len(a) >= UDIV1NORM_THRESHOLD
       THEN Downwards(a, LAMBDA r, limb : udiv1norm(r, limb, b, b_inv))
       ELSE mp_div1(a, b)

\* b is added back until the carry reaches the limb above.
RECURSIVE AddBack(_, _, _, _)
AddBack(q, tab, top, b) ==
    LET sum == mp_add(tab, b)
        up == (top + sum.carry) % Base
    IN IF sum.carry # 0 /\ up = 0 THEN [q |-> (q - 1) % Base, tab |-> sum.tab, top |-> up]
       ELSE AddBack((q - 1) % Base, sum.tab, up, b)

\* A guess q and the limbs that are left with it; top is the limb above them.
Corrected(q, diff, top, b) ==
    LET up == (top + diff.carry) % Base
    IN IF up > top THEN AddBack(q, diff.tab, up, b) ELSE [q |-> q, tab |-> diff.tab, top |-> up]

\* The quotient of a and b, and the remainder.  A limb of the quotient is
\* guessed from the highest limb of b.
mp_divnorm(a, b) ==
    LET nb == Len(b)
        n == Len(a) - nb
        b1 == b[nb]
        high == SubSeq(a, n + 1, Len(a))
        differ == {j \in 1..nb : high[j] # b[j]}
        below == \E j \in differ : high[j] < b[j] /\ \A k \in differ : k <= j
        Guess(top, next) ==
            IF top >= b1 THEN Ones
            ELSE IF n >= UDIV1NORM_THRESHOLD
            THEN udiv1norm(top, next, b1, udiv1norm_init(b1)).q
            ELSE Divided(top, next, b1).q
        Tried(i, r, q) ==
            Corrected(q, mp_sub_mul1(SubSeq(r, i + 1, i + nb), b, q), r[i + nb + 1], b)
        Put(i, r, limb) ==
            [q |-> <<limb.q>> \o r.q, a |-> Splice(r.a, i, limb.tab \o <<limb.top>>)]
        Limb(i, r) == Put(i, r, Tried(i, r.a, Guess(r.a[i + nb + 1], r.a[i + nb])))
        from[i \in 0..n] ==
            IF i < n THEN Limb(i, from[i + 1])
            ELSE IF below THEN [q |-> <<0>>, a |-> a]
            ELSE [q |-> <<1>>, a |-> Splice(a, n, mp_sub(high, b).tab)]
        Many(r) == [q |-> r.q, rem |-> SubSeq(r.a, 1, nb)]
        One(r) == [q |-> r.tab, rem |-> <<r.rem>>]
    IN IF nb = 1 THEN One(mp_div1norm(a, b1)) ELSE Many(from[0])

-----------------------------------------------------------------------------
(***************************************************************************)
(* JSBigInts                                                               *)
(***************************************************************************)
\* js_bigint_new: what is computed, if there is room for so many limbs.
Allocated(len, r) == IF len > JS_BIGINT_MAX_SIZE THEN RangeError ELSE r

js_bigint_sign(a) == a[Len(a)] \div Half
SignLimb(a) == IF js_bigint_sign(a) = 1 THEN Ones ELSE 0
Zero(a) == a = <<0>>

\* The highest limb only repeats the sign of the one below.
Redundant(limb, below) == limb \in {0, Ones} /\ limb % 2 = below \div Half

js_bigint_normalize(a) ==
    SubSeq(a, 1, CHOOSE l \in DOMAIN a :
                    /\ l = 1 \/ ~Redundant(a[l], a[l - 1])
                    /\ \A k \in l + 1 .. Len(a) : Redundant(a[k], a[k - 1]))

\* Mutant of js_bigint_extend: a limb that is a sign is dropped, whatever sign it is.
js_bigint_extend_any(r, op1) ==
    IF op1 \notin {0, Ones} THEN Append(r, op1) ELSE js_bigint_normalize(r)

js_bigint_extend(r, op1) ==
    IF Redundant(op1, r[Len(r)]) THEN js_bigint_normalize(r) ELSE Append(r, op1)

js_bigint_new_si(v) == <<v % Base>>
js_bigint_new_di(v) ==
    IF v \in -Half..Half - 1 THEN <<v % Base>> ELSE <<v % Base, (v \div Base) % Base>>

js_bigint_add(a, b, b_neg) ==
    LET n2 == IF Len(a) > Len(b) THEN Len(a) ELSE Len(b)
        op1(i) == IF i <= Len(a) THEN a[i] ELSE SignLimb(a)
        op2(i) == LET limb == IF i <= Len(b) THEN b[i] ELSE SignLimb(b)
                  IN IF b_neg = 1 THEN Ones - limb ELSE limb
        sum == Upwards(n2, LAMBDA i, c : op1(i) + op2(i) + c, b_neg)
        above == (op1(Len(a) + 1) + op2(Len(b) + 1) + sum.carry) % Base
    IN Allocated(n2, js_bigint_extend(sum.tab, above))

js_bigint_neg(a) == js_bigint_add(<<0>>, a, 1)

js_bigint_mul(a, b) ==
    LET Less(r, u, v) ==     \* u is negative: v is subtracted above it
            IF js_bigint_sign(u) = 0 THEN r
            ELSE Splice(r, Len(u), mp_sub(SubSeq(r, Len(u) + 1, Len(r)), v).tab)
    IN Allocated(Len(a) + Len(b),
                 js_bigint_normalize(Less(Less(mp_mul_basecase(a, b), a, b), b, a)))

\* The absolute value, without sign limbs.
Magnitude(a) ==
    LET m == IF js_bigint_sign(a) = 1 THEN mp_neg(a) ELSE a
        l == CHOOSE l \in DOMAIN m :
                (l = 1 \/ m[l] # 0) /\ \A k \in l + 1 .. Len(m) : m[k] = 0
    IN SubSeq(m, 1, l)

\* js_limb_clz
Clz(limb) == CHOOSE n \in 0..JS_LIMB_BITS :
    limb < 2 ^ (JS_LIMB_BITS - n) /\ (n < JS_LIMB_BITS => limb >= 2 ^ (JS_LIMB_BITS - n - 1))

\* Shifted until the highest bit of the divisor is set, and back.
Normalized(m, shift) ==
    LET WithCarry(r) == r.tab \o (IF r.carry = 0 THEN <<>> ELSE <<r.carry>>)
    IN IF shift = 0 THEN m ELSE WithCarry(mp_shl(m, shift))

Denormalized(m, shift) == IF shift = 0 THEN m ELSE mp_shr(m, shift, 0)

js_bigint_divrem(a, b, is_rem) ==
    LET neg == js_bigint_sign(a) # (IF is_rem THEN 0 ELSE js_bigint_sign(b))
        WithSign(r) == js_bigint_normalize(IF neg THEN mp_neg(r) ELSE r)
        Chosen(r, shift) == (IF is_rem THEN Denormalized(r.rem, shift) ELSE r.q) \o <<0>>
        Shifted(taba, tabb, shift) ==
            Allocated(Len(taba) - Len(tabb) + 2,
                      WithSign(Chosen(mp_divnorm(taba, tabb), shift)))
        Magnitudes(ma, mb, shift) ==
            IF Len(ma) < Len(mb) THEN IF is_rem THEN a ELSE js_bigint_new_si(0)
            ELSE Shifted(Normalized(ma, shift), Normalized(mb, shift), shift)
        Shift(m) == Clz(m[Len(m)])
    IN IF Zero(b) THEN RangeError
       ELSE Allocated(Len(a) + 2, Magnitudes(Magnitude(a), Magnitude(b), Shift(Magnitude(b))))

LimbOp(op, limb1, limb2) ==
    CASE op = "and" -> limb1 & limb2
      [] op = "or" -> limb1 | limb2
      [] op = "xor" -> limb1 ^^ limb2

js_bigint_logic(a, b, op) ==
    LET long == IF Len(a) < Len(b) THEN b ELSE a
        short == IF Len(a) < Len(b) THEN a ELSE b
    IN Allocated(Len(long),
           js_bigint_normalize([i \in DOMAIN long |->
               LimbOp(op, long[i], IF i <= Len(short) THEN short[i] ELSE SignLimb(short))]))

js_bigint_not(a) == Allocated(Len(a), [i \in DOMAIN a |-> Ones - a[i]])

js_bigint_shl(a, shift1) ==
    LET zeros == [i \in 1..shift1 \div JS_LIMB_BITS |-> 0]
        shift == shift1 % JS_LIMB_BITS
        shifted == mp_shl(a, shift)
        above == shifted.carry + (IF js_bigint_sign(a) = 1 THEN Base - 2 ^ shift ELSE 0)
    IN IF Zero(a) THEN js_bigint_new_si(0)
       ELSE Allocated(Len(a) + shift1 \div JS_LIMB_BITS,
                IF shift = 0 THEN zeros \o a
                ELSE js_bigint_extend(zeros \o shifted.tab, above))

js_bigint_shr(a, shift1) ==
    LET d == shift1 \div JS_LIMB_BITS
        shift == shift1 % JS_LIMB_BITS
        rest == SubSeq(a, d + 1, Len(a))
    IN IF d >= Len(a) THEN js_bigint_new_si(-js_bigint_sign(a))
       ELSE IF shift = 0 THEN rest
       ELSE js_bigint_normalize(mp_shr(rest, shift, SignLimb(a)))

\* Shifts of more bits than a BigInt can have do not fail by their count.
INT32_MAX == Half - 1

\* Squares and multiplies, from the second highest bit of e down.
Power(a, e) ==
    LET bits == CHOOSE n \in 1..JS_LIMB_BITS : 2 ^ (n - 1) <= e /\ e < 2 ^ n
        Product(u, v) == IF u = RangeError THEN u ELSE js_bigint_mul(u, v)
        Step(bit, r) ==
            LET square == Product(r, r)
            IN IF (e \div 2 ^ bit) % 2 = 1 THEN Product(square, a) ELSE square
    IN FoldRight(Step, [i \in 1..bits - 1 |-> i - 1], a)

js_bigint_pow(a, b) ==
    LET v == a[1]
        is_neg == v >= Half
        m == IF is_neg THEN Base - v ELSE v
        e == b[1]
        n == JS_LIMB_BITS - 1 - Clz(m)
        negative == is_neg /\ e % 2 = 1
        len == (e * n + JS_LIMB_BITS + (IF negative THEN 0 ELSE 1)) \div JS_LIMB_BITS
        top == 2 ^ ((e * n) % JS_LIMB_BITS)
        overflow == Len(b) > 1 \/ e > INT32_MAX
    IN IF js_bigint_sign(b) = 1 THEN RangeError
       ELSE IF Zero(b) THEN js_bigint_new_si(1)
       ELSE IF Len(a) = 1 /\ v <= 1 THEN js_bigint_new_si(v)
       ELSE IF Len(a) = 1 /\ v = Ones THEN js_bigint_new_si(1 - 2 * (e % 2))
       ELSE IF overflow THEN RangeError
       ELSE IF Len(a) = 1 /\ m = 2 ^ n
       THEN IF e * n > JS_BIGINT_MAX_SIZE * JS_LIMB_BITS THEN RangeError
            ELSE Allocated(len,
                     [i \in 1..len |->
                         IF i # (e * n) \div JS_LIMB_BITS + 1 THEN 0
                         ELSE IF negative THEN Base - top ELSE top])
       ELSE Power(a, e)

\* -1, 0 or 1
js_bigint_cmp(a, b) ==
    LET sign == js_bigint_sign(a)
        differ == {i \in DOMAIN a : a[i] # b[i]}
        i == CHOOSE k \in differ : \A l \in differ : l <= k
    IN IF sign # js_bigint_sign(b) THEN 1 - 2 * sign
       ELSE IF Len(a) # Len(b) THEN IF Len(a) < Len(b) THEN 2 * sign - 1 ELSE 1 - 2 * sign
       ELSE IF differ = {} THEN 0
       ELSE IF a[i] < b[i] THEN -1 ELSE 1

-----------------------------------------------------------------------------
(***************************************************************************)
(* Doubles.  A finite one is m units of its last place, of which there are *)
(* 2^(DBL_MANT_DIG - 1) in 2^e.                                            *)
(***************************************************************************)
NaN == [kind |-> "nan", s |-> 0, e |-> 0, m |-> 0]
Infinity(s) == [kind |-> "inf", s |-> s, e |-> 0, m |-> 0]
FloatZero(s) == [kind |-> "zero", s |-> s, e |-> 0, m |-> 0]
Float(s, e, m) ==
    IF e > MaxExp THEN Infinity(s) ELSE [kind |-> "finite", s |-> s, e |-> e, m |-> m]

Significands == 2 ^ (DBL_MANT_DIG - 1) .. 2 ^ DBL_MANT_DIG - 1

Doubles ==
    {NaN} \cup {Infinity(s) : s \in {0, 1}} \cup {FloatZero(s) : s \in {0, 1}}
        \cup {Float(s, e, m) : s \in {0, 1}, e \in -2..MaxExp, m \in Significands}

\* The bits of abs(a) from the highest one on, the last of them set if any of those
\* that are left out is; and the exponent of the highest.
js_bigint_get_mant_exp(a) ==
    LET n == Len(a)
        Top(mag, a0, shift) ==
            IF mag[n] = 0 THEN [a1 |-> a0, rest |-> 0]
            ELSE [a1 |-> mag[n] * 2 ^ shift + a0 \div 2 ^ (JS_LIMB_BITS - shift),
                  rest |-> (a0 * 2 ^ shift) % Base]
        Sticky(bits, more) == IF more /\ bits % 2 = 0 THEN bits + 1 ELSE bits
        Whole(top, shift) ==
            [mant |-> Sticky(top.a1, top.rest # 0), e |-> n * JS_LIMB_BITS - shift - 1]
        Bits(mag, a0, shift) == Whole(Top(mag, a0, shift), shift)
        Lower(mag) ==
            Sticky(IF n = 1 THEN 0 ELSE mag[n - 1], \E i \in 1..n - 2 : mag[i] # 0)
        Of(mag) == Bits(mag, Lower(mag), IF mag[n] = 0 THEN JS_LIMB_BITS ELSE Clz(mag[n]))
    IN Of(IF js_bigint_sign(a) = 1 THEN mp_neg(a) ELSE a)

shr_rndn(a, n) == (a + ((a \div 2 ^ n) % 2) + 2 ^ (n - 1) - 1) \div 2 ^ n

\* The double next to n, the even one of two: the conversion of C, and what the
\* conversion of BigInts is for.
Nearest(n) ==
    LET s == IF n < 0 THEN 1 ELSE 0
        abs == IF n < 0 THEN -n ELSE n
        e == CHOOSE k \in 0..30 : 2 ^ k <= abs /\ (k < 30 => abs < 2 ^ (k + 1))
        unit == IF e < DBL_MANT_DIG THEN 1 ELSE 2 ^ (e - DBL_MANT_DIG + 1)
        down == abs \div unit
        up == \/ 2 * (abs % unit) > unit
              \/ 2 * (abs % unit) = unit /\ down % 2 = 1
        m == IF up THEN down + 1 ELSE down
    IN IF n = 0 THEN FloatZero(0)
       ELSE IF e < DBL_MANT_DIG THEN Float(s, e, abs * 2 ^ (DBL_MANT_DIG - 1 - e))
       ELSE IF m = 2 ^ DBL_MANT_DIG THEN Float(s, e + 1, m \div 2)
       ELSE Float(s, e, m)

Signed(limb) == IF limb >= Half THEN limb - Base ELSE limb

js_bigint_to_float64(a) ==
    LET Kept(mant) == IF mant % 4 = 1 THEN mant \div 2 + 1 ELSE mant \div 2
        Carried(mant, e) ==
            IF mant >= 2 ^ DBL_MANT_DIG THEN Float(js_bigint_sign(a), e + 1, mant \div 2)
            ELSE Float(js_bigint_sign(a), e, mant)
        Rounded(r) ==
            IF r.e > MaxExp THEN Infinity(js_bigint_sign(a))
            ELSE Carried(shr_rndn(Kept(r.mant), JS_LIMB_BITS - 1 - DBL_MANT_DIG), r.e)
    IN IF Len(a) = 1 THEN Nearest(Signed(a[1])) ELSE Rounded(js_bigint_get_mant_exp(a))

\* js_bigint_from_float64 with the errors of JS_ToBigIntCtorFree.
js_bigint_from_float64(d) ==
    LET shift == DBL_MANT_DIG - 1 - d.e
        whole == IF shift > 0 THEN d.m \div 2 ^ shift ELSE d.m
    IN IF d.kind \in {"nan", "inf"} THEN RangeError
       ELSE IF d.kind = "zero" THEN js_bigint_new_si(0)
       ELSE IF d.e < 0 \/ (shift > 0 /\ d.m % 2 ^ shift # 0) THEN RangeError
       ELSE js_bigint_shl(js_bigint_new_si(IF d.s = 1 THEN -whole ELSE whole),
                          IF shift > 0 THEN 0 ELSE -shift)

\* -1, 0, 1, or 2 if d is not a number
js_bigint_float64_cmp(a, d) ==
    LET a_sign == js_bigint_sign(a)
        mant == d.m * 2 ^ (JS_LIMB_BITS - DBL_MANT_DIG)
        Finite(r) ==
            IF r.e # d.e THEN IF r.e < d.e THEN -1 ELSE 1
            ELSE IF r.mant = mant THEN 0
            ELSE IF r.mant < mant THEN 2 * a_sign - 1
            ELSE 1 - 2 * a_sign
    IN IF d.kind = "nan" THEN 2
       ELSE IF d.kind = "inf" THEN 2 * d.s - 1
       ELSE IF d.kind = "zero" THEN IF Zero(a) THEN 0 ELSE 1 - 2 * a_sign
       ELSE IF Zero(a) THEN 2 * d.s - 1
       ELSE IF a_sign # d.s THEN 1 - 2 * a_sign
       ELSE Finite(js_bigint_get_mant_exp(a))

-----------------------------------------------------------------------------
(***************************************************************************)
(* Text: digits as numbers, the first one first, and a sign.               *)
(***************************************************************************)
Binary(radix) == \E k \in 1..5 : radix = 2 ^ k
CeilLog(radix) == CHOOSE k \in 1..6 : 2 ^ (k - 1) < radix /\ radix <= 2 ^ k
FloorLog(radix) == CHOOSE k \in 1..6 : 2 ^ k <= radix /\ radix < 2 ^ (k + 1)

\* digits_per_limb_table, JS_LIMB_DIGITS
DigitsPerLimb(radix) ==
    CHOOSE k \in 1..JS_LIMB_BITS : radix ^ k <= Base /\ radix ^ (k + 1) > Base

\* js_u64toa, i64toa_radix
RECURSIVE Digits(_, _)
Digits(n, radix) ==
    IF n < radix THEN <<n>> ELSE Digits(n \div radix, radix) \o <<n % radix>>

limb_to_a(n, radix, len) == [k \in 1..len |-> (n \div radix ^ (len - k)) % radix]

RECURSIVE Chunks(_, _)
Chunks(r, radix) ==
    LET len == CHOOSE l \in DOMAIN r : (l = 1 \/ r[l] # 0) /\ \A k \in l + 1 .. Len(r) : r[k] = 0
        radix_base == radix ^ DigitsPerLimb(radix)
        div == mp_div1(SubSeq(r, 1, len), radix_base)
    IN IF len = 1 /\ r[1] < radix_base THEN IF r[1] = 0 THEN <<>> ELSE Digits(r[1], radix)
       ELSE Chunks(div.tab, radix) \o limb_to_a(div.rem, radix, DigitsPerLimb(radix))

\* The digits there is room for; exact for powers of two.
n_digits(r, radix) ==
    LET n_bits == Len(r) * JS_LIMB_BITS - Clz(r[Len(r)])
    IN (n_bits + FloorLog(radix) - 1) \div FloorLog(radix)

js_bigint_to_string1(a, radix) ==
    LET neg == js_bigint_sign(a) = 1
        Digit(r, i) ==
            LET pos == (i * FloorLog(radix)) \div JS_LIMB_BITS + 1
                shift == (i * FloorLog(radix)) % JS_LIMB_BITS
                above == IF shift + FloorLog(radix) > JS_LIMB_BITS /\ pos < Len(r)
                         THEN r[pos + 1] * 2 ^ (JS_LIMB_BITS - shift) ELSE 0
            IN (r[pos] \div 2 ^ shift + above) % radix
        Text(r, n) ==
            [neg |-> neg, room |-> n,
             digits |-> IF Binary(radix) THEN [k \in 1..n |-> Digit(r, n - k)]
                        ELSE Chunks(r, radix)]
        Of(r) == Text(r, n_digits(r, radix))
    IN Of(IF neg THEN js_bigint_neg(a) ELSE a)

to_string(a, radix) ==
    LET v == Signed(a[1])
        short == Digits(IF v < 0 THEN -v ELSE v, radix)
    IN IF Len(a) > 1 THEN js_bigint_to_string1(a, radix)
       ELSE [neg |-> v < 0, room |-> JS_LIMB_BITS, digits |-> short]

\* The limbs that are allocated for so many digits.
n_limbs(n, radix) ==
    LET n_bits == IF radix = 10 THEN (n * 27 + 7) \div 8 ELSE n * CeilLog(radix)
    IN n_bits \div JS_LIMB_BITS + 1

\* Decimal digits, a limb of them at a time, and a limb for the sign.
FromDecimal(digits) ==
    LET per == DigitsPerLimb(10)
        n == Len(digits)
        chunk(k) == SubSeq(digits, (k - 1) * per + 1, IF k * per < n THEN k * per ELSE n)
        number(str) == FoldLeft(LAMBDA v, c : 10 * v + c, 0, str)
        Step(r, k) ==
            LET grown == mp_mul1(r, 10 ^ Len(chunk(k)), number(chunk(k)))
            IN IF r = <<0>> THEN <<number(chunk(k))>>
               ELSE IF grown.carry = 0 THEN grown.tab ELSE Append(grown.tab, grown.carry)
        r == FoldLeft(Step, <<0>>, [k \in 1..(n + per - 1) \div per |-> k])
    IN IF Last(r) >= Half THEN Append(r, 0) ELSE r

FromBits(digits, radix) ==
    LET log2 == CeilLog(radix)
        n == Len(digits)
        Put(r, i) ==
            LET c == digits[n - i]
                pos == (i * log2) \div JS_LIMB_BITS + 1
                shift == (i * log2) % JS_LIMB_BITS
                low == [r EXCEPT ![pos] = @ + ((c * 2 ^ shift) % Base)]
            IN IF shift + log2 > JS_LIMB_BITS
               THEN [low EXCEPT ![pos + 1] = @ + c \div 2 ^ (JS_LIMB_BITS - shift)]
               ELSE low
    IN FoldLeft(Put, [k \in 1..n_limbs(n, radix) |-> 0], [i \in 1..n |-> i - 1])

WithoutZeros(digits) ==
    SubSeq(digits, 1 + Cardinality({k \in DOMAIN digits : \A j \in 1..k : digits[j] = 0}),
           Len(digits))

js_bigint_from_string(neg, text, radix) ==
    LET FromDigits(d) ==
            js_bigint_normalize(IF radix = 10 THEN FromDecimal(d) ELSE FromBits(d, radix))
        WithSign(r) == IF neg THEN js_bigint_neg(r) ELSE r
        Read(d) ==
            IF Len(d) > JS_BIGINT_MAX_SIZE * JS_LIMB_BITS THEN RangeError
            ELSE Allocated(n_limbs(Len(d), radix), WithSign(FromDigits(d)))
    IN Read(WithoutZeros(text))

-----------------------------------------------------------------------------
(***************************************************************************)
(* The operators of the script, with the short cuts for short BigInts      *)
(***************************************************************************)
Short(a) == Len(a) = 1

\* The quotient of C is rounded to zero.
Quotient(m, n) ==
    LET abs(k) == IF k < 0 THEN -k ELSE k
        q == abs(m) \div abs(n)
    IN IF (m < 0) = (n < 0) THEN q ELSE -q

Slow(op, a, b) ==
    CASE op \in {"add", "sub"} -> js_bigint_add(a, b, IF op = "sub" THEN 1 ELSE 0)
      [] op = "mul" -> js_bigint_mul(a, b)
      [] op \in {"div", "mod"} -> js_bigint_divrem(a, b, op = "mod")
      [] op = "pow" -> js_bigint_pow(a, b)

\* js_add_slow, js_binary_arith_slow
Arith(op, a, b) ==
    LET v1 == Signed(a[1])
        v2 == Signed(b[1])
        whole == v2 # 0 /\ ~(v1 = -Half /\ v2 = -1)
    IN IF ~Short(a) \/ ~Short(b) \/ op = "pow" \/ (op \in {"div", "mod"} /\ ~whole)
       THEN Slow(op, a, b)
       ELSE CASE op = "add" -> js_bigint_new_di(v1 + v2)
              [] op = "sub" -> js_bigint_new_di(v1 - v2)
              [] op = "mul" -> js_bigint_new_di(v1 * v2)
              [] op = "div" -> js_bigint_new_si(Quotient(v1, v2))
              [] op = "mod" -> js_bigint_new_si(v1 - v2 * Quotient(v1, v2))

\* js_bigint_get_si_sat, and the limits that js_binary_logic_slow puts on it.
Saturated(b) ==
    LET v == Signed(b[1])
    IN IF ~Short(b) THEN IF js_bigint_sign(b) = 1 THEN -INT32_MAX ELSE INT32_MAX
       ELSE IF v < -INT32_MAX THEN -INT32_MAX ELSE v

\* js_binary_logic_slow
Logic(op, a, b) ==
    LET v1 == Signed(a[1])
        by(v) == IF op = "shl" THEN v ELSE -v
        near == by(Signed(b[1]))
        far == by(Saturated(b))
    IN IF op \in {"and", "or", "xor"}
       THEN IF Short(a) /\ Short(b) THEN <<LimbOp(op, a[1], b[1])>> ELSE js_bigint_logic(a, b, op)
       ELSE IF Short(a) /\ Short(b) /\ near \in -(JS_LIMB_BITS - 1)..JS_LIMB_BITS - 1
       THEN IF near >= 0 THEN js_bigint_new_di(v1 * 2 ^ near)
            ELSE js_bigint_new_si(v1 \div 2 ^ (-near))
       ELSE IF far >= 0 THEN js_bigint_shl(a, far) ELSE js_bigint_shr(a, -far)

\* js_unary_arith_slow, js_not_slow
Unary(op, a) ==
    LET v == Signed(a[1])
    IN CASE op = "neg" -> IF Short(a) /\ v # -Half THEN js_bigint_new_si(-v) ELSE js_bigint_neg(a)
         [] op = "inc" -> IF Short(a) /\ v # Half - 1 THEN js_bigint_new_si(v + 1)
                          ELSE js_bigint_add(a, js_bigint_new_si(1), 0)
         [] op = "dec" -> IF Short(a) /\ v # -Half THEN js_bigint_new_si(v - 1)
                          ELSE js_bigint_add(a, js_bigint_new_si(-1), 0)
         [] op = "not" -> IF Short(a) THEN js_bigint_new_si(-v - 1) ELSE js_bigint_not(a)

\* js_bigint_asUintN: the highest limb that is kept loses its highest bits.
js_bigint_asUintN(bits, a, asIntN) ==
    LET len == (bits + JS_LIMB_BITS - 1) \div JS_LIMB_BITS
        shift == (-bits) % JS_LIMB_BITS
        v == (a[len] * 2 ^ shift) % Base
        top == IF asIntN THEN (Signed(v) \div 2 ^ shift) % Base ELSE v \div 2 ^ shift
    IN IF bits = 0 THEN js_bigint_new_si(0)
       ELSE IF bits >= Len(a) * JS_LIMB_BITS THEN a
       ELSE Allocated(len, js_bigint_normalize(SubSeq(a, 1, len - 1) \o <<top>>))

-----------------------------------------------------------------------------
\* The limbs of an integer, and the integer.
Limbs(n) ==
    LET len == CHOOSE l \in 1..JS_BIGINT_MAX_SIZE :
                  /\ n \in -(Base ^ l \div 2)..(Base ^ l \div 2) - 1
                  /\ l > 1 => n \notin -(Base ^ (l - 1) \div 2)..(Base ^ (l - 1) \div 2) - 1
    IN [k \in 1..len |-> (n \div Base ^ (k - 1)) % Base]

Value(a) ==
    FoldRight(LAMBDA limb, v : limb + Base * v, Front(a), Signed(Last(a)))

Nothing == [op |-> "none"]

Init ==
    /\ x \in {Limbs(n) : n \in Xs}
    /\ out = Nothing

Result(op, with, r) ==
    /\ out = Nothing /\ op \in Ops
    /\ out' = [op |-> op, with |-> with, r |-> r]
    /\ UNCHANGED x

ArithOps == {"add", "sub", "mul", "div", "mod", "pow"}
LogicOps == {"and", "or", "xor", "shl", "sar"}

BinaryArith == \E op \in ArithOps, n \in Ys : Result(op, n, Arith(op, x, Limbs(n)))
BinaryLogic == \E op \in LogicOps, n \in Ys : Result(op, n, Logic(op, x, Limbs(n)))
UnaryArith == \E op \in {"neg", "inc", "dec", "not"} : Result(op, 0, Unary(op, x))
Compare == \E n \in Ys : Result("cmp", n, js_bigint_cmp(x, Limbs(n)))
CompareNumber == \E d \in Doubles : Result("compare", d, js_bigint_float64_cmp(x, d))
ToNumber == Result("number", 0, js_bigint_to_float64(x))
FromNumber == \E d \in Doubles : Result("bigint", d, js_bigint_from_float64(d))
AsN ==
    \E bits \in 0..(Len(x) + 1) * JS_LIMB_BITS, asIntN \in BOOLEAN :
        Result(IF asIntN THEN "asIntN" ELSE "asUintN", bits, js_bigint_asUintN(bits, x, asIntN))
ToText == \E radix \in Radices : Result("text", radix, to_string(x, radix))
Again(text, radix) == js_bigint_from_string(text.neg, <<0>> \o text.digits, radix)
FromText ==
    \E radix \in TextRadices : Result("parsed", radix, Again(to_string(x, radix), radix))

Next ==
    \/ BinaryArith \/ BinaryLogic \/ UnaryArith \/ Compare \/ CompareNumber
    \/ ToNumber \/ FromNumber \/ AsN \/ ToText \/ FromText

Spec == Init /\ [][Next]_vars

-----------------------------------------------------------------------------
(***************************************************************************)
(* What the operators are for, with the integers of TLA+.                  *)
(***************************************************************************)
\* js_bigint_extend may add a limb to the largest.
MaxBits == (JS_BIGINT_MAX_SIZE + 1) * JS_LIMB_BITS
Limit == 2 ^ MaxBits
Huge == [huge |-> TRUE, n |-> 0]
Exactly(n) == [huge |-> FALSE, n |-> n]

AbsOf(n) == IF n < 0 THEN -n ELSE n

Times(r, n) ==
    IF r.huge \/ (n # 0 /\ AbsOf(r.n) > Limit \div AbsOf(n)) THEN Huge ELSE Exactly(r.n * n)

\* n times m^k.
Scaled(n, m, k) ==
    IF n = 0 \/ m = 0 \/ AbsOf(m) = 1
    THEN Exactly(IF m = 0 /\ k > 0 THEN 0 ELSE IF m = -1 /\ k % 2 = 1 THEN -n ELSE n)
    ELSE IF k > MaxBits THEN Huge
    ELSE FoldLeft(LAMBDA r, i : Times(r, m), Exactly(n), [i \in 1..k |-> i])

\* The lowest bits of a number as one that may be negative.
Wrapped(n, bits) ==
    IF bits > 0 /\ n % 2 ^ bits >= 2 ^ (bits - 1) THEN (n % 2 ^ bits) - 2 ^ bits
    ELSE n % 2 ^ bits

Expected(op, v, w) ==
    CASE op = "add" -> Exactly(v + w)
      [] op = "sub" -> Exactly(v - w)
      [] op = "mul" -> Exactly(v * w)
      [] op = "div" -> Exactly(Quotient(v, w))
      [] op = "mod" -> Exactly(v - w * Quotient(v, w))
      [] op = "pow" -> Scaled(1, v, w)
      [] op \in {"and", "or", "xor"} ->
            Exactly(Wrapped(LimbOp(op, v % Limit, w % Limit), MaxBits))
      [] op \in {"shl", "sar"} ->
            LET by == IF op = "shl" THEN w ELSE -w
            IN IF by >= 0 THEN Scaled(v, 2, by)
               ELSE Exactly(IF -by > MaxBits THEN IF v < 0 THEN -1 ELSE 0 ELSE v \div 2 ^ (-by))
      [] op = "neg" -> Exactly(-v)
      [] op = "inc" -> Exactly(v + 1)
      [] op = "dec" -> Exactly(v - 1)
      [] op = "not" -> Exactly(-v - 1)
      [] op = "asIntN" -> Exactly(IF w > MaxBits THEN v ELSE Wrapped(v, w))
      [] op = "asUintN" -> IF w > MaxBits THEN IF v < 0 THEN Huge ELSE Exactly(v)
                           ELSE Exactly(v % 2 ^ w)
      [] op = "parsed" -> Exactly(v)

\* An operand or the result takes nearly all the limbs there may be.
Large(r) == r.huge \/ r.n \notin -(Base ^ (JS_BIGINT_MAX_SIZE - 2) \div 2) ..
                                  (Base ^ (JS_BIGINT_MAX_SIZE - 2) \div 2) - 1

Sign(n) == IF n < 0 THEN -1 ELSE IF n > 0 THEN 1 ELSE 0

\* Finite doubles as multiples of a number less than all of them.
Unit == 2 ^ (DBL_MANT_DIG + 1)
InUnits(d) == IF d.kind = "zero" THEN 0 ELSE (IF d.s = 1 THEN -1 ELSE 1) * d.m * 2 ^ (d.e + 2)

Compared(v, d) ==
    CASE d.kind = "nan" -> 2
      [] d.kind = "inf" -> IF d.s = 1 THEN 1 ELSE -1
      [] OTHER -> Sign(v * Unit - InUnits(d))

\* js_bigint_float64_cmp takes the sign into account where only the significands
\* differ, but not where the exponents do.
Misjudged(v, d) ==
    d.kind = "finite" /\ d.s = 1 /\ v < 0 /\ js_bigint_get_mant_exp(Limbs(v)).e # d.e

\* js_bigint_asUintN returns a negative number where the highest bit of the
\* result is the highest bit of a limb, or above all limbs.
Unsigned(v, bits) ==
    LET limbs == Len(Limbs(v)) * JS_LIMB_BITS
    IN IF bits >= limbs THEN v >= 0
       ELSE bits % JS_LIMB_BITS # 0 \/ bits = 0 \/ (v \div 2 ^ (bits - 1)) % 2 = 0

NumberExact(v) ==
    LET r == out.r
        w == out.with
        expected == Expected(out.op, v, w)
    IN IF r = RangeError
       THEN \/ out.op \in {"div", "mod"} /\ w = 0
            \/ out.op = "pow" /\ w < 0
            \/ Large(Exactly(v)) \/ Large(Exactly(w)) \/ Large(expected)
       ELSE /\ r = js_bigint_normalize(r)
            /\ expected = Exactly(Value(r))

\* Every operator gives the exact number, in its shortest form, whatever limbs and
\* signs its operands have and whichever way it is computed; it fails only for an
\* operand without a result, or if there is hardly room for the operands or the
\* result.  Text takes no more digits, and digits no more limbs, than are allocated.
BigIntExact ==
    LET v == Value(x)
        r == out.r
        w == out.with
    IN CASE out.op = "none" -> TRUE
         [] out.op = "cmp" -> r = Sign(v - w)
         [] out.op = "compare" -> Misjudged(v, w) \/ r = Compared(v, w)
         [] out.op = "number" -> r = Nearest(v)
         [] out.op = "bigint" ->
               IF w.kind \in {"nan", "inf"} \/ InUnits(w) % Unit # 0 THEN r = RangeError
               ELSE r = Limbs(InUnits(w) \div Unit)
         [] out.op = "asUintN" -> Unsigned(v, w) => NumberExact(v)
         [] out.op = "text" ->
               /\ r.neg = (v < 0) /\ r.digits = Digits(AbsOf(v), w)
               /\ Len(r.digits) <= r.room
         [] out.op = "parsed" ->
               /\ NumberExact(v)
               /\ w = 10 => LET digits == WithoutZeros(Digits(AbsOf(v), w))
                           IN Len(FromDecimal(digits)) <= n_limbs(Len(digits), w)
         [] OTHER -> NumberExact(v)

\* Comparison with a double agrees with the numbers they stand for.
ComparesExactly == out.op = "compare" => out.r = Compared(Value(x), out.with)
=============================================================================
