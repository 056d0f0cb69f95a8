---------------------------- MODULE ScalarLimbs ----------------------------
(* Scalars of libsecp256k1 (scalar_8x32_impl.h): numbers modulo the order n  *)
(* of the group in 2 * Half words.  The code has eight words of 32 bits and  *)
(* 2^256 - n has Half + 1 words, the last of which is 1.  Products are summed *)
(* in an accumulator of three words, each of which wraps.                    *)
EXTENDS Integers, Sequences, FiniteSetsExt

CONSTANTS Half,         (* 4 *)
          Bits,         (* the bits of a word: 32                            *)
          N,            (* the order of the group                            *)
          ScalarNumbers, BitOffsets, Shifts,
          MaxScalarCalls

VARIABLES s, t,         (* two scalars                                       *)
          sCall, sRet,  (* the last call and what it returned                *)
          sCalls
scalarVars == <<s, t, sCall, sRet, sCalls>>

Base == 2 ^ Bits
Size == 2 * Half
Index == 0 .. Size - 1
Wrap(x) == x % Base
WordsOf(k) == [i \in Index |-> (k \div Base ^ i) % Base]
Nat256(d) == MapThenSumSet(LAMBDA i : d[i] * Base ^ i, DOMAIN d)
Flag(p) == IF p THEN 1 ELSE 0

NWords == WordsOf(N)
NC == [i \in 0 .. Half |-> ((Base ^ Size - N) \div Base ^ i) % Base]
NHalf == WordsOf(N \div 2)

(* The highest word in which d differs from e decides; d >= e when none does. *)
AtLeast(d, e) ==
  LET differ == {i \in Index : d[i] # e[i]}
  IN  differ = {} \/ d[Max(differ)] > e[Max(differ)]
ScalarCheckOverflow(d) == AtLeast(d, NWords)
ScalarIsHigh(d) == d # NHalf /\ AtLeast(d, NHalf)
ScalarIsZero(d) == \A i \in Index : d[i] = 0
ScalarIsOne(d) == d[0] = 1 /\ \A i \in Index \ {0} : d[i] = 0
ScalarEq(d, e) == \A i \in Index : d[i] = e[i]

(* Words of the sums x[i] with the carries of each word moved to the next.    *)
CarryChain(x) ==
  LET c[i \in DOMAIN x] == x[i] + (IF i = 0 THEN 0 ELSE c[i - 1] \div Base)
  IN  [d |-> [i \in DOMAIN x |-> Wrap(c[i])], over |-> c[Max(DOMAIN x)] \div Base]

ScalarReduce(d, overflow) ==
  CarryChain([i \in Index |-> d[i] + (IF i <= Half THEN Wrap(overflow * NC[i]) ELSE 0)]).d
ScalarAdd(d, e) ==
  LET sum == CarryChain([i \in Index |-> d[i] + e[i]])
      overflow == sum.over + Flag(ScalarCheckOverflow(sum.d))
  IN  [d |-> ScalarReduce(sum.d, overflow), over |-> overflow]
(* Without the flag the bit is moved above the last word.                    *)
ScalarCaddBit(d, bit, flag) ==
  LET at == bit + (IF flag THEN 0 ELSE Size * Bits)
  IN  CarryChain([i \in Index |-> d[i] + (IF at \div Bits = i THEN 2 ^ (at % Bits) ELSE 0)])
ScalarSetB32(k) ==
  LET over == Flag(ScalarCheckOverflow(WordsOf(k)))
  IN  [d |-> ScalarReduce(WordsOf(k), over), over |-> over]
ScalarSetInt(k) == [i \in Index |-> IF i = 0 THEN k ELSE 0]
ScalarClear == [i \in Index |-> 0]
ScalarGetB32(d) == Nat256(d)

(* ~d + n + 1, and zero for zero.                                            *)
ScalarNegate(d) ==
  LET sum == CarryChain([i \in Index |-> Base - 1 - d[i] + NWords[i] + Flag(i = 0)]).d
  IN  IF ScalarIsZero(d) THEN ScalarClear ELSE sum
ScalarCondNegate(d, flag) ==
  LET mask == IF flag THEN Base - 1 ELSE 0
      sum == CarryChain([i \in Index |->
               IF flag THEN mask - d[i] + NWords[i] + Flag(i = 0) ELSE d[i]]).d
  IN  [d |-> IF ScalarIsZero(d) THEN ScalarClear ELSE sum, sign |-> IF flag THEN -1 ELSE 1]

ScalarGetBits(d, offset, count) == (d[offset \div Bits] \div 2 ^ (offset % Bits)) % 2 ^ count
ScalarGetBitsVar(d, offset, count) ==
  LET w == offset \div Bits
  IN  IF (offset + count - 1) \div Bits = w
      THEN ScalarGetBits(d, offset, count)
      ELSE (d[w] \div 2 ^ (offset % Bits) + Wrap(d[w + 1] * 2 ^ (Bits - (offset % Bits)))) % 2 ^ count
ScalarShrInt(d, n) ==
  [i \in Index |-> d[i] \div 2 ^ n + (IF i = Size - 1 THEN 0 ELSE Wrap(d[i + 1] * 2 ^ (Bits - n)))]

-----------------------------------------------------------------------------
(* The accumulator <<c0, c1, c2>>.                                           *)
Muladd(c, x, y) ==
  LET tl == Wrap(x * y)
      c0 == Wrap(c[1] + tl)
      th == Wrap((x * y) \div Base + Flag(c0 < tl))
      c1 == Wrap(c[2] + th)
  IN  <<c0, c1, Wrap(c[3] + Flag(c1 < th))>>
(* Mutant: the carry of a high word that overflows to zero is lost.            *)
Muladd2LosesCarry(c, x, y) ==
  LET th2 == Wrap(2 * ((x * y) \div Base))
      tl == Wrap(x * y)
      tl2 == Wrap(2 * tl)
      c0 == Wrap(c[1] + tl2)
      th4 == Wrap(th2 + Flag(tl2 < tl) + Flag(c0 < tl2))
      c1 == Wrap(c[2] + th4)
  IN  <<c0, c1, Wrap(c[3] + Flag(th2 < (x * y) \div Base) + Flag(c1 < th4))>>
Muladd2(c, x, y) ==
  LET th == (x * y) \div Base
      tl == Wrap(x * y)
      th2 == Wrap(2 * th)
      tl2 == Wrap(2 * tl)
      c0 == Wrap(c[1] + tl2)
      th3 == Wrap(th2 + Flag(tl2 < tl))
      th4 == Wrap(th3 + Flag(c0 < tl2))
      c1 == Wrap(c[2] + th4)
  IN  <<c0, c1, Wrap(c[3] + Flag(th2 < th) + Flag(c0 < tl2 /\ th4 = 0) + Flag(c1 < th4))>>
Sumadd(c, x) ==
  LET c0 == Wrap(c[1] + x)
      over == Flag(c0 < x)
      c1 == Wrap(c[2] + over)
  IN  <<c0, c1, Wrap(c[3] + Flag(c1 < over))>>
(* The _fast variants leave c2 alone: nothing may carry out of c1.            *)
Fast(c, r) == <<r[1], r[2], c[3]>>
Extract(c) == <<c[2], c[3], 0>>
ExtractFast(c) == <<c[2], 0, c[3]>>

(* The products of words of d and e that weigh as much as word k.            *)
Products(c, d, e, k) ==
  LET first == IF k - Max(DOMAIN e) > 0 THEN k - Max(DOMAIN e) ELSE 0
      last == IF k < Max(DOMAIN d) THEN k ELSE Max(DOMAIN d)
      acc[i \in first - 1 .. last] ==
        IF i < first THEN c ELSE Muladd(acc[i - 1], d[i], e[k - i])
  IN  acc[last]
Squares(c, d, k) ==
  LET first == IF k - (Size - 1) > 0 THEN k - (Size - 1) ELSE 0
      acc[i \in first - 1 .. k \div 2] ==
        CASE i < first -> c
          [] 2 * i = k -> Muladd(acc[i - 1], d[i], d[i])
          [] OTHER -> Muladd2(acc[i - 1], d[i], d[k - i])
  IN  acc[k \div 2]
(* The accumulator at the start of column k, given the one that ended k - 1.  *)
Next512(k, c) == IF k = 1 THEN ExtractFast(c) ELSE Extract(c)
LastColumn == 2 * Size - 2
Empty == <<0, 0, 0>>

(* Both keep the accumulators of the columns so far; the code stores the low   *)
(* word of each and, after the last, the word above it.                       *)
WordsOfColumns(cols) ==
  [k \in 0 .. Len(cols) |-> IF k = Len(cols) THEN cols[k][2] ELSE cols[k + 1][1]]
WithColumn(done, c, sum, fast) == Append(done, IF fast THEN Fast(c, sum) ELSE sum)
ScalarMul512(d, e) ==
  LET cols[k \in 0 .. LastColumn] ==
        LET done == IF k = 0 THEN <<>> ELSE cols[k - 1]
            c == IF k = 0 THEN Empty ELSE Next512(k, done[k])
        IN  WithColumn(done, c, Products(c, d, e, k), k \in {0, LastColumn})
  IN  WordsOfColumns(cols[LastColumn])
ScalarSqr512(d) ==
  LET cols[k \in 0 .. LastColumn] ==
        LET done == IF k = 0 THEN <<>> ELSE cols[k - 1]
            c == IF k = 0 THEN Empty ELSE Next512(k, done[k])
        IN  WithColumn(done, c, Squares(c, d, k), k \in {0, LastColumn})
  IN  WordsOfColumns(cols[LastColumn])

(* low + high * (2^256 - n), one round of the reduction, as that many words   *)
(* and a carry.  The last word of 2^256 - n is 1: its products are sums.  The *)
(* first and the last column do not expect to carry into c2.                 *)
SumaddWord(c, words, k) == IF k \in DOMAIN words THEN Sumadd(c, words[k]) ELSE c
TimesNC(low, high, words) ==
  LET body == [j \in 0 .. Half - 1 |-> NC[j]]
      ones == [j \in {i + Half : i \in DOMAIN high} |-> high[j - Half]]
      start(c, k) == IF k = 1 THEN Fast(c, SumaddWord(c, low, k)) ELSE SumaddWord(c, low, k)
      cols[k \in 0 .. words - 1] ==
        LET done == IF k = 0 THEN <<>> ELSE cols[k - 1]
            c == IF k = 0 THEN Empty ELSE Next512(k, done[k])
        IN  WithColumn(done, c, SumaddWord(Products(start(c, k), high, body, k), ones, k), k \in {0, words - 1})
  IN  WordsOfColumns(cols[words - 1])
Slice(l, from, to) == [i \in 0 .. to - from |-> l[from + i]]

(* 385 bits to 258, and those to 256 and a carry.                            *)
Reduced(r) == ScalarReduce(r.d, r.over + Flag(ScalarCheckOverflow(r.d)))
LastRound(p, top) == Reduced(CarryChain([i \in Index |-> p[i] + (IF i <= Half THEN NC[i] * (p[Size] + top) ELSE 0)]))
FromM(m) == LastRound(TimesNC(Slice(m, 0, Size - 1), Slice(m, Size, Size + Half), Size), m[Size + Half])
ScalarReduce512 ==
  [l \in [0 .. 2 * Size - 1 -> 0 .. Base - 1] |->
     FromM(TimesNC(Slice(l, 0, Size - 1), Slice(l, Size, 2 * Size - 1), Size + Half))]
ScalarMul(d, e) == ScalarReduce512[ScalarMul512(d, e)]
ScalarSqr(d) == ScalarReduce512[ScalarSqr512(d)]

(* d * e / 2^shift rounded, for a shift of at least 256 bits.                *)
ScalarMulShiftVar(d, e, shift) ==
  LET l == ScalarMul512(d, e)
      limbs == shift \div Bits
      low == shift % Bits
      at(i) == IF i + limbs < 2 * Size THEN l[i + limbs] ELSE 0
      r == [i \in Index |-> at(i) \div 2 ^ low +
              (IF low = 0 THEN 0 ELSE Wrap(at(i + 1) * 2 ^ (Bits - low)))]
  IN  ScalarCaddBit(r, 0, (l[(shift - 1) \div Bits] \div 2 ^ ((shift - 1) % Bits)) % 2 = 1).d

-----------------------------------------------------------------------------
ScalarInit == /\ s = ScalarClear
              /\ t = ScalarClear
              /\ sCall = <<"clear">>
              /\ sRet = 0
              /\ sCalls = 0

Gives(name, d, result) ==
  /\ sCalls < MaxScalarCalls
  /\ sCalls' = sCalls + 1
  /\ sCall' = name
  /\ sRet' = result
  /\ s' = d

ScalarNext ==
  \/ \E k \in ScalarNumbers :
       Gives(<<"set_b32", k>>, ScalarSetB32(k).d, ScalarSetB32(k).over) /\ UNCHANGED t
  \/ Gives(<<"copy">>, s, 0) /\ t' = s
  \/ /\ \/ Gives(<<"set_int">>, ScalarSetInt(2), 0)
        \/ Gives(<<"add">>, ScalarAdd(s, t).d, ScalarAdd(s, t).over)
        \/ Gives(<<"mul">>, ScalarMul(s, t), 0)
        \/ Gives(<<"sqr">>, ScalarSqr(s), 0)
        \/ Gives(<<"negate">>, ScalarNegate(s), 0)
        \/ \E flag \in BOOLEAN :
             Gives(<<"cond_negate", flag>>, ScalarCondNegate(s, flag).d,
                   ScalarCondNegate(s, flag).sign)
        \/ \E bit \in BitOffsets, flag \in BOOLEAN :
             /\ Nat256(s) + 2 ^ bit < N      (* the caller's obligation       *)
             /\ Gives(<<"cadd_bit", bit, flag>>, ScalarCaddBit(s, bit, flag).d, 0)
        \/ \E n \in 1 .. Bits - 1 : Gives(<<"shr_int", n>>, ScalarShrInt(s, n), s[0] % 2 ^ n)
        \/ \E shift \in Shifts :
             Gives(<<"mul_shift_var", shift>>, ScalarMulShiftVar(s, t, shift), 0)
        \/ \E offset \in BitOffsets, count \in 1 .. Bits - 1 :
             /\ offset + count <= Size * Bits
             /\ Gives(<<"get_bits_var", offset, count>>, s, ScalarGetBitsVar(s, offset, count))
        \/ Gives(<<"get_b32">>, s, ScalarGetB32(s))
        \/ Gives(<<"tests">>, s, <<ScalarIsZero(s), ScalarIsOne(s), ScalarIsHigh(s),
                                  ScalarEq(s, t), s[0] % 2 = 0>>)
     /\ UNCHANGED t

ScalarSpec == ScalarInit /\ [][ScalarNext]_scalarVars

Exact ==
  LET x == Nat256(s)
      y == Nat256(t)
      z == Nat256(s')
      call == sCall'
  IN  CASE call[1] = "set_b32" -> z = call[2] % N /\ sRet' = Flag(call[2] >= N)
        [] call[1] = "set_int" -> z = 2
        [] call[1] = "add" -> z = (x + y) % N /\ sRet' = Flag(x + y >= N)
        [] call[1] = "mul" -> z = (x * y) % N
        [] call[1] = "sqr" -> z = (x * x) % N
        [] call[1] = "negate" -> z = (N - x) % N
        [] call[1] = "cond_negate" ->
             IF call[2] THEN z = (N - x) % N /\ sRet' = -1 ELSE z = x /\ sRet' = 1
        [] call[1] = "cadd_bit" -> z = x + (IF call[3] THEN 2 ^ call[2] ELSE 0)
        [] call[1] = "shr_int" -> z = x \div 2 ^ call[2] /\ sRet' = x % (2 ^ call[2])
        [] call[1] = "mul_shift_var" ->
             z = (x * y) \div 2 ^ call[2] + (((x * y) \div 2 ^ (call[2] - 1)) % 2)
        [] call[1] = "get_bits_var" -> sRet' = (x \div 2 ^ call[2]) % (2 ^ call[3])
        [] call[1] = "get_b32" -> sRet' = x
        [] call[1] = "tests" -> sRet' = <<x = 0, x = 1, x > N \div 2, x = y, x % 2 = 0>>
        [] OTHER -> z = x
(* The word arithmetic is arithmetic modulo n: the sums, products and         *)
(* reductions with their carries in 96-bit accumulators, the shifts and the   *)
(* bits read from scalars give the numbers the callers mean, and what they    *)
(* leave is below n, which lets scalar_eq, is_zero and is_high compare words. *)
ScalarsExact == [][Exact /\ Nat256(s') < N /\ Nat256(t') < N]_scalarVars
=============================================================================
