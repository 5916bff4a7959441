------------------------------- MODULE GGValues -------------------------------
(***************************************************************************)
(* Numbers that cross the bridge: toJavaObject and toJSValue (utils.cpp),  *)
(* the tags the engine gives to numbers (quickjs.h), and the properties of *)
(* Kotlin objects they are stored in: one that keeps any value, and        *)
(* Person.age, whose setter takes an Int.                                  *)
(*                                                                         *)
(* Widths are parameters: an int32_t has W bits, a jlong LW, and a double  *)
(* a significand of P bits.  Doubles are counted in halves, so that some   *)
(* are not integers.                                                       *)
(***************************************************************************)
EXTENDS Integers

CONSTANTS
    W,        \* bits of int32_t, jint and Kotlin's Int
    LW,       \* bits of jlong
    P,        \* bits of a double's significand
    MaxHalf   \* bound: the largest double, in halves

WidthAssumption ==
    /\ {W, LW, P, MaxHalf} \subseteq Nat
    /\ 1 < W /\ W <= P /\ W < LW

VARIABLES
    js,       \* the number the script holds
    box,      \* a Kotlin property of type Any?
    age,      \* Person.age
    written   \* the JS value last written to box, Null if Kotlin set it

vars == <<js, box, age, written>>

-----------------------------------------------------------------------------
(***************************************************************************)
(* Numbers                                                                 *)
(***************************************************************************)

INT32 == -(2^(W-1)) .. 2^(W-1) - 1
JLONG == -(2^(LW-1)) .. 2^(LW-1) - 1

Abs(h) == IF h < 0 THEN -h ELSE h

\* h halves are a double: P bits followed by zeros.
IsDouble(h) == \E e \in 0..LW+1 : h % 2^e = 0 /\ Abs(h) \div 2^e < 2^P

Finite == {h \in -MaxHalf..MaxHalf : IsDouble(h)}

\* The double nearest to h halves; of two, the one with an even significand.
Round(h) ==
    LET e == CHOOSE i \in 0..LW+1 :
                 Abs(h) \div 2^i < 2^P /\ \A j \in 0..i-1 : Abs(h) \div 2^j >= 2^P
        q == Abs(h) \div 2^e
        r == 2 * (Abs(h) % 2^e)
        n == IF r > 2^e \/ (r = 2^e /\ q % 2 = 1) THEN q + 1 ELSE q
    IN (IF h < 0 THEN -n ELSE n) * 2^e

Null == [tag |-> "null", n |-> 0]
Int32(k) == [tag |-> "int", n |-> k]
Float64(h) == [tag |-> "float64", n |-> h]
NaN == [tag |-> "nan", n |-> 0]
MinusZero == [tag |-> "-0", n |-> 0]
Infinity(s) == [tag |-> "inf", n |-> s]

\* JSValues; NaN, -0 and the infinities are float64 like the other doubles.
JSValue ==
    {Null, NaN, MinusZero, Infinity(1), Infinity(-1)}
        \cup {Int32(k) : k \in INT32} \cup {Float64(h) : h \in Finite}

\* Boxed Java values; a Double carries a JS double.
Integer(k) == [class |-> "Integer", n |-> k]
Long(j) == [class |-> "Long", n |-> j]
Double(v) == [class |-> "Double", n |-> v.n, tag |-> v.tag]
Nothing == [class |-> "null", n |-> 0]

JavaValue ==
    {Nothing} \cup {Integer(k) : k \in INT32} \cup {Long(j) : j \in JLONG}
        \cup {Double(v) : v \in JSValue \ ({Null} \cup {Int32(k) : k \in INT32})}

\* JS_NewFloat64: doubles that are ints get the tag of ints; -0 does not.
JS_NewFloat64(v) ==
    IF v.tag = "float64" /\ v.n % 2 = 0 /\ v.n \div 2 \in INT32
    THEN Int32(v.n \div 2) ELSE v

\* JS_NewInt64: other values are rounded to a double.
JS_NewInt64(j) == IF j \in INT32 THEN Int32(j) ELSE Float64(Round(2 * j))

-----------------------------------------------------------------------------
(***************************************************************************)
(* The conversions                                                         *)
(***************************************************************************)

\* toJavaObject: the possible results.  A double with floor(d) == d is cast to
\* a jlong; the cast of one that is out of range, an infinity among them, is
\* undefined.  NaN is not equal to its floor.
toJavaObject(v) ==
    CASE v.tag = "int" -> {Integer(v.n)}
      [] v.tag = "-0" -> {Long(0)}
      [] v.tag = "inf" -> {Long(j) : j \in JLONG}
      [] v.tag = "nan" -> {Double(v)}
      [] v.tag = "float64" ->
            IF v.n % 2 # 0 THEN {Double(v)}
            ELSE IF v.n \div 2 \in JLONG THEN {Long(v.n \div 2)}
            ELSE {Long(j) : j \in JLONG}
      [] v.tag = "null" -> {Nothing}

toJSValue(x) ==
    CASE x.class = "null" -> Null
      [] x.class = "Integer" -> Int32(x.n)
      [] x.class = "Long" -> JS_NewInt64(x.n)
      [] x.class = "Double" -> JS_NewFloat64([tag |-> x.tag, n |-> x.n])

-----------------------------------------------------------------------------
Init ==
    /\ js = Null
    /\ box = Nothing
    /\ age = 0
    /\ written = Null

\* Halves of a number, and the number of a result.
Halves(v) == IF v.tag = "int" THEN 2 * v.n ELSE v.n

\* Mutant of OP_add: the sum of two ints wraps.
OP_add_wrapped(v, k) ==
    IF v.tag = "int"
    THEN Int32(((v.n + k + 2^(W-1)) % 2^W) - 2^(W-1))
    ELSE Float64(Round(Halves(v) + 2 * k))

\* v + k for a number v and an int k: an int if both are and the sum is one.
OP_add(v, k) ==
    IF v.tag = "int" /\ v.n + k \in INT32 THEN Int32(v.n + k)
    ELSE Float64(Round(Halves(v) + 2 * k))

\* The script computes a number: a sum with an int, a sum of two doubles, a
\* quotient of ints (which JS_NewFloat64 normalizes, also when it is 0/0 or
\* -1/0), or null.
Compute ==
    /\ \/ /\ js.tag \in {"int", "float64"}
          /\ \E k \in {-1, 1} : js' = OP_add(js, k)
       \/ /\ js.tag = "float64"
          /\ js' = Float64(Round(2 * js.n))
       \/ \E k \in INT32 : js' = JS_NewFloat64(Float64(k))
       \/ js' \in {Null, NaN, MinusZero, Infinity(1), Infinity(-1)}
    /\ Abs(js'.n) <= MaxHalf
    /\ UNCHANGED <<box, age, written>>

\* The script writes its number to the property, and reads it.
SetBox ==
    /\ box' \in toJavaObject(js)
    /\ written' = js
    /\ UNCHANGED <<js, age>>

GetBox ==
    /\ js' = toJSValue(box)
    /\ UNCHANGED <<box, age, written>>

\* Kotlin assigns a number of its own.
PutBox ==
    /\ box' \in {x \in JavaValue : x.class = "Long" \/ x.class = "Double"}
    /\ written' = Null
    /\ UNCHANGED <<js, age>>

\* Person.setter: (value as? Int)?.let { age = it }
setter(x, old) == IF x.class = "Integer" THEN x.n ELSE old

\* The script writes person.age, and reads it.
SetAge ==
    /\ \E x \in toJavaObject(js) : age' = setter(x, age)
    /\ UNCHANGED <<js, box, written>>

GetAge ==
    /\ js' = toJSValue(Integer(age))
    /\ UNCHANGED <<box, age, written>>

\* A tap runs person.age = person.age + 1.
TapAge ==
    /\ \E x \in toJavaObject(OP_add(toJSValue(Integer(age)), 1)) :
          age' = setter(x, age)
    /\ UNCHANGED <<js, box, written>>

Next == Compute \/ SetBox \/ GetBox \/ PutBox \/ SetAge \/ GetAge \/ TapAge

Spec == Init /\ [][Next]_vars

-----------------------------------------------------------------------------
TypeOK ==
    /\ js \in JSValue
    /\ box \in JavaValue
    /\ age \in INT32
    /\ written \in JSValue

\* Defined numbers: those whose conversion to Java is.
Defined(v) == v.tag # "inf" /\ (v.tag = "float64" /\ v.n % 2 = 0 => v.n \div 2 \in JLONG)

\* Two JS values are the same number: -0 is 0, whatever the tags.
SameNumber(v, w) ==
    /\ v.tag = "nan" <=> w.tag = "nan"
    /\ v.tag = "null" <=> w.tag = "null"
    /\ v.tag = "inf" <=> w.tag = "inf"
    /\ Halves(v) = Halves(w)

\* A number the script writes to a Kotlin property and reads back is the same
\* number, also beyond int32_t, but for -0, which loses its sign, and for what
\* is out of the range of jlong.
BoxKept == written # Null /\ Defined(written) => SameNumber(toJSValue(box), written)

\* Person.age follows the script or stands still: it never takes a number the
\* script did not write, although the sum of the largest age and one is out of
\* the range of Int, and float64 results are longs.
AgeWritten ==
    age' # age => \/ SetAge /\ SameNumber(js, Int32(age'))
                  \/ TapAge /\ age' = age + 1

\* Numbers are kept when they cross the bridge, there and back.
NumbersKept == [][BoxKept' /\ AgeWritten]_vars
=============================================================================
