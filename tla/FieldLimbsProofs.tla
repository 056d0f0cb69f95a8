-------------------------- MODULE FieldLimbsProofs --------------------------
(***************************************************************************)
(* The functions of field_10x26_impl.h that work limb by limb, for every    *)
(* layout of limbs.  What fe_verify checks is not inductive: it lets a      *)
(* normalized element of magnitude 0 have any limbs, and the sum of such an *)
(* element and another would exceed its magnitude.  Within says that all    *)
(* limbs keep to the magnitude, also those of normalized elements; with it  *)
(* no word wraps, and the result keeps to its magnitude again.              *)
(***************************************************************************)
EXTENDS FieldLimbs, TLAPS

LimbMax(i) == IF i = Top THEN TopRadix - 1 ELSE Radix - 1

(* The limbs of e are those an element of its magnitude may have. *)
Within(e) ==
  /\ e.n \in [Limb -> Nat]
  /\ e.magnitude \in 0 .. MaxMagnitude
  /\ e.normalized \in BOOLEAN
  /\ \A i \in Limb : e.n[i] <= 2 * e.magnitude * LimbMax(i)
  /\ e.normalized => FeVerify(e)

(* Products of the numbers that bound a limb. *)
LEMMA Monotone ==
  ASSUME NEW x \in Nat, NEW y \in Nat, NEW z \in Nat, x <= y
  PROVE  x * z <= y * z
  OBVIOUS

(* What is below the modulus is its own remainder. *)
LEMMA BelowModulus ==
  ASSUME NEW x \in Nat, NEW w \in Nat, x < w
  PROVE  x % w = x
  OBVIOUS

(* The numbers that bound a limb, from the assumption on the layout. *)
LEMMA LimbMaxFacts ==
  ASSUME NEW i \in Limb
  PROVE  /\ LimbMax(i) \in Nat /\ LimbMax(i) >= 1 /\ LimbMax(i) <= Radix - 1
         /\ Radix \in Nat /\ TopRadix \in Nat /\ 2 ^ WordBits \in Nat /\ Top \in Nat
  BY LayoutAssumption DEF LimbMax, Radix, TopRadix, Limb

(* A number within a magnitude the code admits fits a word. *)
LEMMA FitsWord ==
  ASSUME NEW i \in Limb, NEW m \in 0 .. MaxMagnitude, NEW x \in Nat,
         x <= 2 * m * LimbMax(i)
  PROVE  Word(x) = x
<1>1. m * LimbMax(i) <= MaxMagnitude * LimbMax(i)
  BY Monotone, LimbMaxFacts, LayoutAssumption
<1>2. LimbMax(i) * MaxMagnitude <= (Radix - 1) * MaxMagnitude
  BY Monotone, LimbMaxFacts, LayoutAssumption
<1>3. x < 2 ^ WordBits
  BY <1>1, <1>2, LimbMaxFacts, LayoutAssumption DEF Radix
<1> QED
  BY <1>3, LimbMaxFacts, BelowModulus DEF Word

(* An element whose limbs keep to its magnitude passes fe_verify. *)
LEMMA WithinVerifies ==
  ASSUME NEW e, Within(e)
  PROVE  FeVerify(e)
<1>1. CASE e.normalized
  BY <1>1 DEF Within
<1>2. CASE ~e.normalized
  <2>1. \A i \in 0 .. Top - 1 : i \in Limb /\ LimbMax(i) = Radix - 1
    BY LayoutAssumption DEF Limb, LimbMax
  <2>2. Top \in Limb /\ LimbMax(Top) = TopRadix - 1
    BY LayoutAssumption DEF Limb, LimbMax
  <2>3. \A i \in Limb : LimbMax(i) \in Nat
    BY LimbMaxFacts
  <2>4. \A i \in Limb : e.n[i] <= LimbMax(i) * (2 * e.magnitude)
    BY <2>3, LayoutAssumption DEF Within
  <2> QED
    BY <1>2, <2>1, <2>2, <2>4 DEF Within, FeVerify
<1> QED
  BY <1>1, <1>2 DEF Within

(* fe_add: within the largest magnitude no word of the sum wraps, so that the *)
(* sum stands for the sum of the numbers, and it keeps to its magnitude.      *)
THEOREM AddIsExact ==
  ASSUME NEW e, NEW f, Within(e), Within(f), e.magnitude + f.magnitude <= MaxMagnitude
  PROVE  /\ \A i \in Limb : FeAdd(e, f).n[i] = e.n[i] + f.n[i]
         /\ Within(FeAdd(e, f))
<1> DEFINE sum == e.magnitude + f.magnitude
<1>1. sum \in 0 .. MaxMagnitude
  BY LayoutAssumption DEF Within
<1>2. ASSUME NEW i \in Limb
      PROVE  e.n[i] + f.n[i] \in Nat /\ e.n[i] + f.n[i] <= 2 * sum * LimbMax(i)
  <2>1. /\ e.n[i] \in Nat /\ f.n[i] \in Nat
        /\ e.magnitude \in Nat /\ f.magnitude \in Nat /\ LimbMax(i) \in Nat
        /\ e.n[i] <= 2 * e.magnitude * LimbMax(i) /\ f.n[i] <= 2 * f.magnitude * LimbMax(i)
    BY LimbMaxFacts, LayoutAssumption DEF Within
  <2> QED
    BY <2>1
<1>3. \A i \in Limb : Word(e.n[i] + f.n[i]) = e.n[i] + f.n[i]
  BY <1>1, <1>2, FitsWord
<1> QED
  BY <1>1, <1>2, <1>3 DEF FeAdd, Element, Within

(* fe_mul_int: as long as the product of magnitude and factor is one the code *)
(* admits, no word wraps and the product keeps to its magnitude.              *)
THEOREM MulIntIsExact ==
  ASSUME NEW e, NEW k \in Nat, Within(e), e.magnitude * k <= MaxMagnitude
  PROVE  /\ \A i \in Limb : FeMulInt(e, k).n[i] = e.n[i] * k
         /\ Within(FeMulInt(e, k))
<1> DEFINE product == e.magnitude * k
<1>1. product \in 0 .. MaxMagnitude
  BY LayoutAssumption DEF Within
<1>2. ASSUME NEW i \in Limb
      PROVE  e.n[i] * k \in Nat /\ e.n[i] * k <= 2 * product * LimbMax(i)
  <2>1. /\ e.n[i] \in Nat /\ e.magnitude \in Nat /\ LimbMax(i) \in Nat
        /\ e.n[i] <= 2 * e.magnitude * LimbMax(i)
    BY LimbMaxFacts, LayoutAssumption DEF Within
  <2>2. e.n[i] * k <= (2 * e.magnitude * LimbMax(i)) * k
    BY <2>1, Monotone
  <2>3. (2 * e.magnitude * LimbMax(i)) * k = 2 * (e.magnitude * k) * LimbMax(i)
    BY <2>1
  <2> QED
    BY <2>1, <2>2, <2>3
<1>3. \A i \in Limb : Word(e.n[i] * k) = e.n[i] * k
  BY <1>1, <1>2, FitsWord
<1> QED
  BY <1>1, <1>2, <1>3 DEF FeMulInt, Element, Within

(* fe_negate: the multiple of p that a negation starts from exceeds every     *)
(* limb of an element of magnitude at most m, so that no limb borrows, and    *)
(* the difference keeps to magnitude m + 1.                                   *)
THEOREM NegateIsExact ==
  ASSUME NEW e, NEW m \in Nat, Within(e), e.magnitude <= m, m < MaxMagnitude
  PROVE  /\ \A i \in Limb : /\ e.n[i] <= NegationLimb(i, m)
                            /\ FeNegate(e, m).n[i] = NegationLimb(i, m) - e.n[i]
         /\ Within(FeNegate(e, m))
<1>1. m + 1 \in 0 .. MaxMagnitude /\ m + 1 <= MaxMagnitude
  BY LayoutAssumption
<1>2. ASSUME NEW i \in Limb
      PROVE  /\ NegationLimb(i, m) \in Nat
             /\ 2 * m * LimbMax(i) <= NegationLimb(i, m)
             /\ NegationLimb(i, m) <= 2 * (m + 1) * LimbMax(i)
  <2>1. (m + 1) * FoldLow <= Radix /\ (m + 1) * FoldHigh <= Radix - 1
    <3>1. (m + 1) * FoldLow <= MaxMagnitude * FoldLow /\ (m + 1) * FoldHigh <= MaxMagnitude * FoldHigh
      BY <1>1, Monotone, LayoutAssumption
    <3> QED
      BY <3>1, LayoutAssumption DEF Radix
  <2>2. /\ Radix \in Nat /\ TopRadix \in Nat /\ Radix >= 2 /\ TopRadix >= 2 /\ Top \in Nat /\ Top >= 2
        /\ FoldLow \in Nat /\ FoldLow >= 1 /\ FoldHigh \in Nat
    BY LayoutAssumption DEF Radix, TopRadix
  <2>3. CASE i = 0
    <3>1. NegationLimb(i, m) = 2 * (m + 1) * (Radix - FoldLow) /\ LimbMax(i) = Radix - 1
      BY <2>2, <2>3 DEF NegationLimb, LimbMax
    <3>2. (m + 1) * (Radix - FoldLow) = m * Radix + Radix - (m + 1) * FoldLow
      BY <2>2
    <3>3. m * (Radix - 1) = m * Radix - m /\ (m + 1) * (Radix - 1) = m * Radix + Radix - m - 1
      BY <2>2
    <3>4. (m + 1) * FoldLow >= m + 1
      BY <2>2
    <3> HIDE DEF NegationLimb
    <3>5. m * Radix \in Nat /\ (m + 1) * FoldLow \in Nat
      BY <2>2
    <3> QED
      BY <2>1, <2>2, <3>1, <3>2, <3>3, <3>4, <3>5
  <2>4. CASE i = 1
    <3>1. NegationLimb(i, m) = 2 * (m + 1) * (Radix - 1 - FoldHigh) /\ LimbMax(i) = Radix - 1
      BY <2>2, <2>4 DEF NegationLimb, LimbMax
    <3>2. (m + 1) * (Radix - 1 - FoldHigh) = m * (Radix - 1) + (Radix - 1) - (m + 1) * FoldHigh
      BY <2>2
    <3>3. (m + 1) * (Radix - 1) = m * (Radix - 1) + (Radix - 1)
      BY <2>2
    <3>5. m * (Radix - 1) \in Nat /\ (m + 1) * FoldHigh \in Nat
      BY <2>2
    <3> QED
      BY <2>1, <2>2, <3>1, <3>2, <3>3, <3>5
  <2>5. CASE i # 0 /\ i # 1
    <3>1. NegationLimb(i, m) = 2 * (m + 1) * LimbMax(i)
      BY <2>2, <2>5 DEF NegationLimb, LimbMax
    <3>2. LimbMax(i) \in Nat
      BY LimbMaxFacts
    <3> QED
      BY <3>1, <3>2
  <2> QED
    BY <2>3, <2>4, <2>5
<1>3. ASSUME NEW i \in Limb
      PROVE  e.n[i] \in Nat /\ e.n[i] <= 2 * m * LimbMax(i)
  <2>1. /\ e.n[i] \in Nat /\ e.magnitude \in Nat /\ LimbMax(i) \in Nat
        /\ e.n[i] <= 2 * e.magnitude * LimbMax(i)
    BY LimbMaxFacts, LayoutAssumption DEF Within
  <2>2. e.magnitude * LimbMax(i) <= m * LimbMax(i)
    BY <2>1, Monotone
  <2> QED
    BY <2>1, <2>2
<1>4. ASSUME NEW i \in Limb
      PROVE  /\ e.n[i] <= NegationLimb(i, m)
             /\ NegationLimb(i, m) - e.n[i] \in Nat
             /\ NegationLimb(i, m) - e.n[i] <= 2 * (m + 1) * LimbMax(i)
  BY <1>2, <1>3, LimbMaxFacts
<1>5. \A i \in Limb : Word(NegationLimb(i, m) - e.n[i]) = NegationLimb(i, m) - e.n[i]
  BY <1>1, <1>4, FitsWord
<1> QED
  BY <1>1, <1>4, <1>5 DEF FeNegate, Element, Within

(* An element called normalized passes fe_verify with limbs without excess. *)
LEMMA NormalizedVerifies ==
  ASSUME NEW t, NEW m \in 0 .. MaxMagnitude, m <= 1, ~NotBelowP(t),
         \A i \in 0 .. Top - 1 : t[i] <= (Radix - 1) * 1, t[Top] <= (TopRadix - 1) * 1
  PROVE  FeVerify(Element(t, m, TRUE))
  BY DEF FeVerify, Element

(* fe_cmov: the result has the larger magnitude whichever element it copies,  *)
(* and it is only called normalized when both elements are.                   *)
LEMMA CmovWithin ==
  ASSUME NEW r, NEW e, NEW flag \in BOOLEAN, Within(r), Within(e)
  PROVE  Within(FeCmov(r, e, flag))
<1> DEFINE larger == IF e.magnitude > r.magnitude THEN e.magnitude ELSE r.magnitude
           from == IF flag THEN e ELSE r
<1>1. Max({r.magnitude, e.magnitude}) = larger /\ larger \in 0 .. MaxMagnitude
  <2>1. r.magnitude \in Int /\ e.magnitude \in Int /\ larger \in 0 .. MaxMagnitude
    BY LayoutAssumption DEF Within
  <2>2. larger \in {r.magnitude, e.magnitude} /\ \A y \in {r.magnitude, e.magnitude} : larger >= y
    BY <2>1
  <2>3. \A x \in {r.magnitude, e.magnitude} : (\A y \in {r.magnitude, e.magnitude} : x >= y) => x = larger
    BY <2>1
  <2> QED
    BY <2>1, <2>2, <2>3 DEF Max
<1>2. FeCmov(r, e, flag) = [n |-> from.n, magnitude |-> larger, normalized |-> r.normalized /\ e.normalized]
  BY <1>1 DEF FeCmov, Element
<1>3. ASSUME NEW i \in Limb
      PROVE  from.n[i] <= 2 * larger * LimbMax(i)
  <2>1. /\ from.n[i] \in Nat /\ from.magnitude \in Nat /\ larger \in Nat /\ LimbMax(i) \in Nat
        /\ from.magnitude <= larger /\ from.n[i] <= 2 * from.magnitude * LimbMax(i)
    BY <1>1, LimbMaxFacts, LayoutAssumption DEF Within
  <2>2. from.magnitude * LimbMax(i) <= larger * LimbMax(i)
    BY <2>1, Monotone
  <2> QED
    BY <2>1, <2>2
<1>4. ASSUME r.normalized, e.normalized
      PROVE  FeVerify(FeCmov(r, e, flag))
  <2>1. /\ \A i \in 0 .. Top - 1 : from.n[i] <= (Radix - 1) * 1
        /\ from.n[Top] <= (TopRadix - 1) * 1 /\ ~NotBelowP(from.n)
        /\ r.magnitude <= 1 /\ e.magnitude <= 1
    BY <1>4 DEF Within, FeVerify
  <2>2. larger \in 0 .. MaxMagnitude /\ larger <= 1
    BY <1>1, <2>1
  <2>3. r.normalized = TRUE /\ e.normalized = TRUE
    BY <1>4 DEF Within
  <2>4. (r.normalized /\ e.normalized) = TRUE
    BY Zenon, <2>3
  <2>5. FeCmov(r, e, flag) = Element(from.n, larger, TRUE)
    BY Zenon, <1>2, <2>4 DEF Element
  <2> QED
    BY <2>1, <2>2, <2>5, NormalizedVerifies
<1> QED
  BY <1>1, <1>2, <1>3, <1>4 DEF Within

(* fe_set_int with a small number, which is all the code passes. *)
LEMMA SetIntWithin ==
  ASSUME NEW k \in 0 .. Radix - 1
  PROVE  Within(FeSetInt(k))
<1>1. /\ Radix \in Nat /\ TopRadix \in Nat /\ TopRadix >= 2 /\ Top \in Nat /\ Top >= 2
      /\ MaxMagnitude \in Nat /\ MaxMagnitude >= 1
  BY LayoutAssumption DEF Radix, TopRadix
<1>2. FeSetInt(k) = [n |-> [i \in Limb |-> IF i = 0 THEN k ELSE 0], magnitude |-> 1, normalized |-> TRUE]
  BY DEF FeSetInt, Element
<1>3. \A i \in Limb : FeSetInt(k).n[i] <= LimbMax(i) /\ FeSetInt(k).n[i] \in Nat /\ LimbMax(i) \in Nat
  BY <1>1, <1>2 DEF LimbMax, Limb
<1>4. FeSetInt(k).n[Top] # TopRadix - 1
  BY <1>1, <1>2 DEF Limb
<1>5. FeVerify(FeSetInt(k))
  <2>1. \A i \in 0 .. Top - 1 : FeSetInt(k).n[i] <= (Radix - 1) * 1
    BY <1>1, <1>3 DEF LimbMax, Limb
  <2>2. FeSetInt(k).n[Top] <= (TopRadix - 1) * 1
    BY <1>1, <1>3 DEF LimbMax, Limb
  <2>3. ~NotBelowP(FeSetInt(k).n)
    BY <1>4 DEF NotBelowP
  <2> QED
    BY <1>1, <2>1, <2>2, <2>3, NormalizedVerifies DEF FeSetInt, Element
<1> QED
  BY <1>1, <1>2, <1>3, <1>5 DEF Within

(* The calls of FieldCalls that work limb by limb, and those that only look. *)
LimbwiseCall ==
  \/ \E k \in SmallInts : Calls!SetInt(k) \/ Calls!MulInt(k)
  \/ Calls!Copy \/ Calls!Add
  \/ \E m \in Nat : Calls!Negate(m)
  \/ \E flag \in BOOLEAN : Calls!Cmov(flag)
  \/ Calls!ZeroTests \/ Calls!OfNormalized \/ Calls!Compare

(* A limb-wise call on elements that keep to their magnitudes leaves such     *)
(* elements.                                                                  *)
LEMMA LimbwiseStep ==
  ASSUME SmallInts \subseteq 0 .. Radix - 1,
         Within(a), Within(b), LimbwiseCall
  PROVE  Within(a') /\ Within(b')
<1>0. SmallInts \subseteq Nat
  BY LayoutAssumption DEF Radix
<1>1. ASSUME NEW k \in SmallInts, Calls!SetInt(k)
      PROVE  Within(a') /\ Within(b')
  BY <1>1, SetIntWithin DEF Calls!SetInt
<1>2. ASSUME NEW k \in SmallInts, Calls!MulInt(k)
      PROVE  Within(a') /\ Within(b')
  BY <1>0, <1>2, MulIntIsExact DEF Calls!MulInt
<1>3. CASE Calls!Copy
  BY <1>3 DEF Calls!Copy
<1>4. CASE Calls!Add
  BY <1>4, AddIsExact DEF Calls!Add
<1>5. ASSUME NEW m \in Nat, Calls!Negate(m)
      PROVE  Within(a') /\ Within(b')
  BY <1>5, NegateIsExact DEF Calls!Negate
<1>6. ASSUME NEW flag \in BOOLEAN, Calls!Cmov(flag)
      PROVE  Within(a') /\ Within(b')
  BY <1>6, CmovWithin DEF Calls!Cmov
<1>7. CASE Calls!ZeroTests \/ Calls!OfNormalized \/ Calls!Compare
  BY <1>7 DEF Calls!ZeroTests, Calls!OfNormalized, Calls!Compare, Calls!Asks
<1> QED
  BY <1>1, <1>2, <1>3, <1>4, <1>5, <1>6, <1>7 DEF LimbwiseCall

(* The elements that fe_clear leaves. *)
LEMMA ClearWithin == Within(FeClear)
<1>1. /\ Radix \in Nat /\ Radix >= 2 /\ TopRadix \in Nat /\ TopRadix >= 2 /\ Top \in Nat /\ Top >= 2
      /\ MaxMagnitude \in Nat /\ MaxMagnitude >= 1
  BY LayoutAssumption DEF Radix, TopRadix
<1> DEFINE zero == [i \in Limb |-> 0]
<1>2. FeClear = Element(zero, 0, TRUE)
  BY DEF FeClear
<1>3. FeVerify(Element(zero, 0, TRUE))
  <2>1. zero[Top] # TopRadix - 1 /\ zero[Top] <= (TopRadix - 1) * 1
    BY <1>1 DEF Limb
  <2>2. \A i \in 0 .. Top - 1 : zero[i] <= (Radix - 1) * 1
    BY <1>1 DEF Limb
  <2>3. ~NotBelowP(zero)
    BY <2>1 DEF NotBelowP
  <2>4. 0 \in 0 .. MaxMagnitude /\ 0 <= 1
    BY <1>1
  <2> HIDE DEF zero
  <2> QED
    BY Zenon, <2>1, <2>2, <2>3, <2>4, NormalizedVerifies
<1>4. \A i \in Limb : LimbMax(i) \in Nat /\ zero[i] <= 2 * 0 * LimbMax(i)
  BY LimbMaxFacts
<1>5. zero \in [Limb -> Nat] /\ 0 \in 0 .. MaxMagnitude /\ TRUE \in BOOLEAN
  BY <1>1
<1>6. FeClear.n = zero /\ FeClear.magnitude = 0 /\ FeClear.normalized = TRUE
  BY <1>2 DEF Element
<1> HIDE DEF zero
<1> QED
  BY <1>2, <1>3, <1>4, <1>5, <1>6 DEF Within

(* However fe_set_int, fe_mul_int, fe_add, fe_negate and fe_cmov follow each  *)
(* other between two reductions, and as long as their callers keep to the     *)
(* magnitudes, every element passes fe_verify: Within is the inductive        *)
(* invariant, and it implies Verified.                                        *)
THEOREM LimbwiseCallsVerify ==
  ASSUME SmallInts \subseteq 0 .. Radix - 1
  PROVE  Init /\ [][LimbwiseCall]_fieldVars => []Verified
<1> DEFINE IInv == Within(a) /\ Within(b)
<1>1. Init => IInv
  BY ClearWithin DEF Init, Calls!Init
<1>2. IInv /\ [LimbwiseCall]_fieldVars => IInv'
  <2>1. CASE LimbwiseCall
    BY <2>1, LimbwiseStep DEF Within, FeVerify, NotBelowP, Limb, LimbMax, Radix, TopRadix, Word
  <2>2. CASE UNCHANGED fieldVars
    BY <2>2 DEF fieldVars, Within, FeVerify, NotBelowP, Limb, LimbMax, Radix, TopRadix, Word
  <2> QED
    BY <2>1, <2>2
<1>3. IInv => Verified
  BY WithinVerifies DEF Verified
<1> QED
  BY <1>1, <1>2, <1>3, PTL
=============================================================================
