------------------------------- MODULE MulDiv -------------------------------
(***************************************************************************)
(* llMulDiv and Int64x32Div32 (arithutil.cpp): (a * b + d) / c without     *)
(* loss, though the product needs twice the width.  A word (the code's     *)
(* DWORD) has Width bits here, a LONGLONG two words; the product is two    *)
(* LONGLONGs, the lower one first.                                         *)
(***************************************************************************)
EXTENDS Integers, Sequences

CONSTANT Width

Power[n \in 0 .. 2 * Width] == IF n = 0 THEN 1 ELSE 2 * Power[n - 1]
Word == Power[Width]    \* 2^32
Double == Word * Word   \* 2^64

LongLongs == -(Double \div 2) .. Double \div 2 - 1
Longs == -(Word \div 2) .. Word \div 2 - 1

Low(x) == x % Word
High(x) == x \div Word
Join(high, low) == high * Word + low

Abs(x) == IF x >= 0 THEN x ELSE -x

\* What a LONGLONG keeps of a number.
AsLongLong(x) == ((x + Double \div 2) % Double) - Double \div 2

-----------------------------------------------------------------------------
\* Faulty: the carry out of the product of the low words is lost.
ProductDropsCarry(x, y) ==
  LET middle == Low(x) * High(y) + High(x) * Low(y)
  IN  <<Join(Low(middle), Low(Low(x) * Low(y))), High(x) * High(y) + High(middle)>>

\* The long multiplication of absolute values, word by word.
Product(x, y) ==
  LET low == Low(x) * Low(y)
      middle == (Low(x) * High(y) + High(x) * Low(y) + High(low)) % Double
  IN  <<Join(Low(middle), Low(low)), (High(x) * High(y) + High(middle)) % Double>>

\* d with the sign of the product taken off it, extended to two LONGLONGs.
Extended(d, negative) ==
  LET signed == IF negative THEN -d ELSE d
  IN  <<signed % Double, IF signed < 0 THEN Double - 1 ELSE 0>>

\* The extended addition, with its carries from word to word.
Sum(p, q) ==
  LET first == Low(p[1]) + Low(q[1])
      second == High(p[1]) + High(q[1]) + High(first)
  IN  <<Join(Low(second), Low(first)), (p[2] + q[2] + High(second)) % Double>>

Negated(p) ==
  LET low == (Double - p[1]) % Double
  IN  <<low, (Double - 1 - p[2] + IF low = 0 THEN 1 ELSE 0) % Double>>

\* The sum as <<absolute value, it is negative>>: the top bit tells a change of
\* sign.
Total(p, d, negative) ==
  LET sum == Sum(p, Extended(d, negative))
  IN  IF d = 0 THEN <<p, negative>>
      ELSE IF sum[2] >= Double \div 2 THEN <<Negated(sum), ~negative>>
      ELSE <<sum, negative>>

\* The quotient by a divisor of one word, which the remainder of the upper part
\* joins to the lower.
ByWord(p, c) ==
  LET upper == Join(Low(p[2]), High(p[1]))
  IN  (Join(upper \div c, 0) + Join(upper % c, Low(p[1])) \div c) % Double

\* The quotient bit by bit: both halves of p are shifted left, and c is taken
\* off the upper one where it goes.
BitByBit(p, c) ==
  LET shift[i \in 0 .. 2 * Width] ==
        IF i = 0 THEN [quotient |-> 0, low |-> p[1], high |-> p[2]]
        ELSE LET s == shift[i - 1]
                 high == (2 * s.high + IF s.low >= Double \div 2 THEN 1 ELSE 0) % Double
             IN  [quotient |-> 2 * s.quotient + IF c <= high THEN 1 ELSE 0,
                  low |-> (2 * s.low) % Double,
                  high |-> IF c <= high THEN high - c ELSE high]
  IN  shift[2 * Width].quotient

Quotient(p, c) ==
  IF p[2] = 0 THEN p[1] \div c
  ELSE IF High(c) = 0 THEN ByWord(p, c)
  ELSE BitByBit(p, c)

\* A quotient too large for an unsigned LONGLONG, and a divisor of zero, give
\* the largest or the smallest LONGLONG.
Divided(p, c, negative) ==
  IF c <= p[2]
  THEN IF negative THEN -(Double \div 2) ELSE Double \div 2 - 1
  ELSE AsLongLong(IF negative THEN -Quotient(p, c) ELSE Quotient(p, c))

llMulDiv(a, b, c, d) ==
  LET t == Total(Product(Abs(a), Abs(b)), d, (a < 0) # (b < 0))
  IN  Divided(t[1], Abs(c), t[2] # (c < 0))

\* b, c and d of one word, the upper half of the product too.
Int64x32Div32(a, b, c, d) ==
  LET t == Total(Product(Abs(a), Abs(b)), d, (a < 0) # (b < 0))
      p == t[1]
      upper == Join(Low(p[2]), High(p[1]))
      u == Abs(c)
      quotient == Join(Low(upper \div u), Low(Join(upper % u, Low(p[1])) \div u))
      negative == t[2] # (c < 0)
  IN  IF u <= Low(p[2])
      THEN IF negative THEN -(Double \div 2) ELSE Double \div 2 - 1
      ELSE AsLongLong(IF negative THEN -quotient ELSE quotient)

-----------------------------------------------------------------------------
VARIABLES
  call,   \* <<the function, its arguments>>
  result  \* what it returned

vars == <<call, result>>

Init == call = <<"none">> /\ result = 0

Call64 ==
  /\ call = <<"none">>
  /\ \E a, b, c, d \in LongLongs :
       call' = <<"llMulDiv", a, b, c, d>> /\ result' = llMulDiv(a, b, c, d)

Call32 ==
  /\ call = <<"none">>
  /\ \E a \in LongLongs, b, c, d \in Longs :
       call' = <<"Int64x32Div32", a, b, c, d>> /\ result' = Int64x32Div32(a, b, c, d)

Next == Call64 \/ Call32

Spec == Init /\ [][Next]_vars

-----------------------------------------------------------------------------
\* The quotient of two numbers, rounded towards zero.
Truncated(n, c) ==
  IF (n < 0) = (c < 0) THEN Abs(n) \div Abs(c) ELSE -(Abs(n) \div Abs(c))

\* Products, sums and quotients of any signs are exact, rounded towards zero,
\* wherever a LONGLONG holds the result, and a quotient of more than its bits
\* saturates with the right sign.  (Between the two, where the quotient fits an
\* unsigned LONGLONG only, it wraps, though the comment at arithutil.cpp:168 has
\* overflow caught.)
QuotientExact ==
  call # <<"none">> /\ call[4] # 0 =>
    LET exact == Truncated(call[2] * call[3] + call[5], call[4])
    IN  /\ exact \in LongLongs => result = exact
        /\ exact >= Double => result = Double \div 2 - 1
        /\ exact <= -Double => result = -(Double \div 2)
=============================================================================
