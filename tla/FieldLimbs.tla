----------------------------- MODULE FieldLimbs -----------------------------
(* The field of libsecp256k1 on limbs (field_10x26_impl.h): Top + 1 words of *)
(* which each stands for LimbBits bits and the last for TopBits bits.  The   *)
(* code has ten of 26 and 22 bits in 32-bit words, p = 2^256 - 2^32 - 977,   *)
(* and 64-bit accumulators; here these are constants, and every word and     *)
(* accumulator wraps at its width.                                           *)
EXTENDS Integers, FiniteSetsExt

CONSTANTS Top,              (* the index of the last limb: 9                 *)
          LimbBits,         (* 26                                            *)
          TopBits,          (* 22                                            *)
          WordBits,         (* uint32_t                                      *)
          AccBits,          (* uint64_t                                      *)
          StorageBits,      (* the words of fe_storage: 32                   *)
          FoldLow,          (* 2^256 - p = FoldLow + FoldHigh * 2^LimbBits:  *)
          FoldHigh,         (*   0x3D1 and 1 << 6                            *)
          MaxMagnitude,     (* 32                                            *)
          MaxMulMagnitude,  (* 8                                             *)
          Numbers, SmallInts, MaxCalls

(* What the layout of the code satisfies: the limbs of the largest magnitude *)
(* fit their words, and as many times p as a negation adds exceed them.      *)
ASSUME LayoutAssumption ==
  /\ Top \in Nat /\ Top >= 2
  /\ MaxMagnitude \in Nat /\ MaxMagnitude >= 1
  /\ FoldLow \in Nat /\ FoldLow >= 1 /\ FoldHigh \in Nat
  /\ 2 ^ LimbBits \in Nat /\ 2 ^ TopBits \in Nat /\ 2 ^ WordBits \in Nat
  /\ 2 <= 2 ^ TopBits /\ 2 ^ TopBits <= 2 ^ LimbBits
  /\ 2 * MaxMagnitude * (2 ^ LimbBits - 1) < 2 ^ WordBits
  /\ MaxMagnitude * FoldLow <= 2 ^ LimbBits
  /\ MaxMagnitude * FoldHigh < 2 ^ LimbBits

VARIABLES a, b, call, ret, calls

Limb == 0 .. Top
Radix == 2 ^ LimbBits
TopRadix == 2 ^ TopBits
AllBits == Top * LimbBits + TopBits
P == 2 ^ AllBits - FoldHigh * Radix - FoldLow

Word(x) == x % (2 ^ WordBits)
Acc(x) == x % (2 ^ AccBits)

(* The number that limbs stand for.                                          *)
Number(t) ==
  LET upTo[i \in Limb] == t[i] * Radix ^ i + (IF i = 0 THEN 0 ELSE upTo[i - 1]) IN upTo[Top]
(* The limbs of a number below 2^AllBits.                                    *)
LimbsOf(k) == [i \in Limb |-> (k \div Radix ^ i) % (IF i = Top THEN TopRadix ELSE Radix)]
Element(t, m, isNormalized) == [n |-> t, magnitude |-> m, normalized |-> isNormalized]

(* Mutant: the carry of the lowest limb is forgotten.                         *)
NotBelowPWithoutCarry(t) ==
  /\ t[Top] = TopRadix - 1
  /\ \A i \in 2 .. Top - 1 : t[i] = Radix - 1
  /\ Word(t[1] + FoldHigh) > Radix - 1
(* Whether limbs without excess stand for a number that is not below p.       *)
NotBelowP(t) ==
  /\ t[Top] = TopRadix - 1
  /\ \A i \in 2 .. Top - 1 : t[i] = Radix - 1
  /\ Word(t[1] + FoldHigh + Word(t[0] + FoldLow) \div Radix) > Radix - 1

FeVerify(e) ==
  LET m == IF e.normalized THEN 1 ELSE 2 * e.magnitude
  IN  /\ \A i \in 0 .. Top - 1 : e.n[i] <= (Radix - 1) * m
      /\ e.n[Top] <= (TopRadix - 1) * m
      /\ e.magnitude \in 0 .. MaxMagnitude
      /\ e.normalized => e.magnitude <= 1 /\ ~NotBelowP(e.n)

(* t0 += x * 0x3D1; t1 += x << 6; and the carries from limb to limb.         *)
Fold(t, x) ==
  LET s[i \in Limb] == CASE i = 0 -> Word(t[0] + Word(x * FoldLow))
                         [] i = 1 -> Word(Word(t[1] + Word(x * FoldHigh)) + s[0] \div Radix)
                         [] OTHER -> Word(t[i] + s[i - 1] \div Radix)
  IN  [i \in Limb |-> IF i = Top THEN s[i] ELSE s[i] % Radix]
(* The first pass: the excess of the last limb is folded in.                 *)
FirstPass(t) == Fold([t EXCEPT ![Top] = @ % TopRadix], t[Top] \div TopRadix)
WithoutTopCarry(t) == [t EXCEPT ![Top] = @ % TopRadix]

FeNormalize(e) ==
  LET t == FirstPass(e.n)
      x == IF t[Top] \div TopRadix # 0 \/ NotBelowP(t) THEN 1 ELSE 0
  IN  Element(WithoutTopCarry(Fold(t, x)), 1, TRUE)
FeNormalizeWeak(e) == Element(FirstPass(e.n), 1, e.normalized)
FeNormalizeVar(e) ==
  LET t == FirstPass(e.n)
  IN  Element(IF t[Top] \div TopRadix # 0 \/ NotBelowP(t)
              THEN WithoutTopCarry(Fold(t, 1)) ELSE t, 1, TRUE)

(* Raw limbs of 0 or of p.                                                   *)
RawZero(t) == \A i \in Limb : t[i] = 0
RawP(t) == /\ t[0] = Radix - FoldLow
           /\ t[1] = Radix - 1 - FoldHigh
           /\ \A i \in 2 .. Top - 1 : t[i] = Radix - 1
           /\ t[Top] = TopRadix - 1
FeNormalizesToZero(e) == LET t == FirstPass(e.n) IN RawZero(t) \/ RawP(t)
(* The lowest limb decides most cases before the carries are computed.       *)
FeNormalizesToZeroVar(e) ==
  LET low == Word(e.n[0] + Word((e.n[Top] \div TopRadix) * FoldLow)) % Radix
  IN  low \in {0, Radix - FoldLow} /\ (RawZero(FirstPass(e.n)) \/ RawP(FirstPass(e.n)))

FeClear == Element([i \in Limb |-> 0], 0, TRUE)
FeSetInt(k) == Element([i \in Limb |-> IF i = 0 THEN k ELSE 0], 1, TRUE)
FeIsZero(e) == RawZero(e.n)
FeIsOdd(e) == e.n[0] % 2 = 1
FeCmpVar(e, f) ==
  LET differ == {i \in Limb : e.n[i] # f.n[i]}
  IN  IF differ = {} THEN 0 ELSE IF e.n[Max(differ)] > f.n[Max(differ)] THEN 1 ELSE -1

(* Bytes are the number they write in base 256.  For a number that is not    *)
(* below p the call returns 0 before it sets the tags, and its callers drop  *)
(* the element; here it has the tags that its limbs bear.                    *)
FeSetB32(k) ==
  LET ok == ~NotBelowP(LimbsOf(k)) IN [ok |-> ok, fe |-> Element(LimbsOf(k), 1, ok)]
FeGetB32(e) == Number(e.n)

(* Limb i of 2 * (m + 1) * p.                                                *)
NegationLimb(i, m) ==
  2 * (m + 1) * (CASE i = 0 -> Radix - FoldLow
                   [] i = 1 -> Radix - 1 - FoldHigh
                   [] i = Top -> TopRadix - 1
                   [] OTHER -> Radix - 1)
FeNegate(e, m) == Element([i \in Limb |-> Word(NegationLimb(i, m) - e.n[i])], m + 1, FALSE)
(* Mutant: the magnitude is not multiplied.                                   *)
FeMulIntSameMagnitude(e, k) == Element([i \in Limb |-> Word(e.n[i] * k)], e.magnitude, FALSE)
FeMulInt(e, k) == Element([i \in Limb |-> Word(e.n[i] * k)], e.magnitude * k, FALSE)
FeAdd(e, f) ==
  Element([i \in Limb |-> Word(e.n[i] + f.n[i])], e.magnitude + f.magnitude, FALSE)

-----------------------------------------------------------------------------
(* Multiplication.  A column is the sum of the products of limbs whose        *)
(* indices add up to k; the columns above Top are folded with R0 and R1,     *)
(* since 2^(LimbBits * (Top + 1)) = R0 + R1 * 2^LimbBits modulo p.           *)
R0 == FoldLow * 2 ^ (LimbBits - TopBits)
R1 == FoldHigh * 2 ^ (LimbBits - TopBits)
InColumn(k) == {i \in Limb : k - i \in Limb}
MulColumn(s, t, k) == Acc(MapThenSumSet(LAMBDA i : s[i] * t[k - i], InColumn(k)))
(* A column of a square: products off the diagonal once, with a doubled word. *)
SqrColumn(t, k) ==
  Acc(MapThenSumSet(LAMBDA i : (IF 2 * i = k THEN t[i] ELSE Word(2 * t[i])) * t[k - i],
                    {i \in InColumn(k) : 2 * i <= k}))

(* Column k with column k + Top + 1 folded into it: t[k] is ready, c carries *)
(* to the next column and d holds what is left of the upper ones.            *)
Rounds(column) ==
  LET round[k \in 0 .. Top - 1] ==
        LET c0 == IF k = 0 THEN 0 ELSE round[k - 1].c
            d0 == IF k = 0 THEN column[Top] \div Radix ELSE round[k - 1].d
            d == Acc(d0 + column[k + Top + 1])
            u == d % Radix
            c == Acc(Acc(c0 + column[k]) + u * R0)
        IN  [c |-> Acc(c \div Radix + u * R1), d |-> d \div Radix, t |-> c % Radix]
  IN  round

(* The last column and what is above TopBits of it.                          *)
LastFold(column) ==
  LET round == Rounds(column)
      c9 == Acc(round[Top - 1].c + Acc(round[Top - 1].d * R0 + (column[Top] % Radix)))
      c  == Acc(c9 \div TopRadix + round[Top - 1].d * R1 * 2 ^ (LimbBits - TopBits))
      d0 == Acc(c * FoldLow + round[0].t)
      d1 == Acc(d0 \div Radix + Acc(c * FoldHigh + round[1].t))
  IN  [i \in Limb |-> CASE i = 0 -> d0 % Radix
                        [] i = 1 -> d1 % Radix
                        [] i = 2 -> Word(d1 \div Radix + round[2].t)
                        [] i = Top -> c9 % TopRadix
                        [] OTHER -> round[i].t]

FeMulInner(s, t) == LastFold([k \in 0 .. 2 * Top |-> MulColumn(s, t, k)])
FeSqrInner(t) == LastFold([k \in 0 .. 2 * Top |-> SqrColumn(t, k)])
FeMul(e, f) == Element(FeMulInner(e.n, f.n), 1, FALSE)
FeSqr(e) == Element(FeSqrInner(e.n), 1, FALSE)

FeCmov(r, e, flag) ==
  Element(IF flag THEN e.n ELSE r.n, Max({r.magnitude, e.magnitude}),
          r.normalized /\ e.normalized)

(* Storage packs the bits of the limbs into words without gaps.              *)
FeToStorage(e) ==
  [w \in 0 .. AllBits \div StorageBits - 1 |->
     MapThenSumSet(LAMBDA j : ((e.n[(w * StorageBits + j) \div LimbBits]
                                 \div 2 ^ ((w * StorageBits + j) % LimbBits)) % 2) * 2 ^ j,
                   0 .. StorageBits - 1)]
FeFromStorage(s) ==
  Element([i \in Limb |->
             MapThenSumSet(LAMBDA j : ((s[(i * LimbBits + j) \div StorageBits]
                                         \div 2 ^ ((i * LimbBits + j) % StorageBits)) % 2) * 2 ^ j,
                           0 .. (IF i = Top THEN TopBits ELSE LimbBits) - 1)], 1, TRUE)

-----------------------------------------------------------------------------
Calls == INSTANCE FieldCalls
Init == Calls!Init
Next == Calls!Next
fieldVars == <<a, b, call, ret, calls>>
Spec == Init /\ [][Next]_fieldVars

(* Every element the calls can build keeps to the limits of its magnitude:   *)
(* what fe_verify checks in a VERIFY build, and what keeps the sums of the   *)
(* next call inside their words.                                             *)
Verified == FeVerify(a) /\ FeVerify(b)

Digit == 8
(* Built from digits of y, so that no number is larger than P * Digit.        *)
MulMod(x, y) ==
  LET by[k \in 0 .. y] == IF k = 0 THEN 0 ELSE (by[k \div Digit] * Digit + x * (k % Digit)) % P
  IN  by[y]
Value == INSTANCE FieldElement
ValueOf(e) == [v |-> Number(e.n) % P, magnitude |-> e.magnitude, normalized |-> e.normalized]
StoredNumber(s) == MapThenSumSet(LAMBDA w : s[w] * 2 ^ (w * StorageBits), DOMAIN s)
Contract ==
  INSTANCE FieldCalls WITH
    a <- ValueOf(a), b <- ValueOf(b),
    ret <- IF call = "fe_to_storage" THEN StoredNumber(ret) ELSE ret,
    FeSetInt <- Value!FeSetInt, FeClear <- Value!FeClear, FeSetB32 <- Value!FeSetB32,
    FeGetB32 <- Value!FeGetB32, FeNormalize <- Value!FeNormalize,
    FeNormalizeWeak <- Value!FeNormalizeWeak, FeNormalizeVar <- Value!FeNormalizeVar,
    FeNormalizesToZero <- Value!FeNormalizesToZero,
    FeNormalizesToZeroVar <- Value!FeNormalizesToZeroVar, FeNegate <- Value!FeNegate,
    FeMulInt <- Value!FeMulInt, FeAdd <- Value!FeAdd, FeMul <- Value!FeMul,
    FeSqr <- Value!FeSqr, FeCmov <- Value!FeCmov, FeIsZero <- Value!FeIsZero,
    FeIsOdd <- Value!FeIsOdd, FeCmpVar <- Value!FeCmpVar,
    FeToStorage <- Value!FeToStorage, FeFromStorage <- Value!FeFromStorage

(* The functions on limbs do what field.h promises of the values: the sums,  *)
(* products, reductions and comparisons are those modulo p, whatever limbs   *)
(* stand for the elements.                                                   *)
RefinesFieldElement == Contract!Spec
=============================================================================
