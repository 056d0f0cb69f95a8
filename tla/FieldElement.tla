---------------------------- MODULE FieldElement ----------------------------
(* What the field of libsecp256k1 promises its callers (field.h): an element *)
(* is a value modulo p with a magnitude and a flag that says whether it is   *)
(* normalized.  The limbs are in FieldLimbs, which implements these          *)
(* operators; the group, multiplication and signature code is built on them. *)
(* A call that breaks a VERIFY_CHECK of the code gives a Misused element,    *)
(* and so does everything computed from it.                                  *)
EXTENDS Integers, Sequences, FiniteSetsExt

CONSTANTS P,              (* the field's characteristic                      *)
          MaxMagnitude,   (* the largest magnitude fe_verify accepts         *)
          MaxMulMagnitude,(* the largest magnitude fe_mul and fe_sqr take    *)
          MulMod(_, _)    (* x * y modulo P, computed as the size of P needs *)

Power(x, k) ==
  LET to[j \in 0 .. k] == IF j = 0 THEN 1
                          ELSE LET root == to[j \div 2]
                               IN  MulMod(MulMod(root, root), IF j % 2 = 1 THEN x ELSE 1)
  IN  to[k]

Misused == MaxMagnitude + 1
MagnitudeOf(m) == IF m > MaxMagnitude THEN MaxMagnitude + 1 ELSE m

FieldElements == [v : 0 .. P - 1, magnitude : 0 .. MaxMagnitude + 1, normalized : BOOLEAN]
(* fe_set_int, fe_set_b32 and SECP256K1_FE_CONST: a normalized element.       *)
Fe(v) == [v |-> v, magnitude |-> 1, normalized |-> TRUE]
Raw(v, m) == [v |-> v % P, magnitude |-> MagnitudeOf(m), normalized |-> FALSE]
FeClear == [v |-> 0, magnitude |-> 0, normalized |-> TRUE]

FeSetInt(i) == Fe(i)
(* fe_set_b32 returns 0 for a number that is not below p, which it has stored *)
(* all the same.                                                             *)
FeSetB32(k) == [ok |-> k < P, fe |-> IF k < P THEN Fe(k) ELSE Raw(k, 1)]
FeGetB32(a) == IF a.normalized THEN a.v ELSE a.v + P

FeNormalize(a) ==
  [v |-> a.v, magnitude |-> IF a.magnitude = Misused THEN Misused ELSE 1, normalized |-> TRUE]
FeNormalizeVar(a) == FeNormalize(a)
FeNormalizeWeak(a) == [FeNormalize(a) EXCEPT !.normalized = a.normalized]
FeNormalizesToZero(a) == a.v = 0
FeNormalizesToZeroVar(a) == a.v = 0

FeNegate(a, m) == Raw(-a.v, IF a.magnitude > m THEN Misused ELSE m + 1)
FeMulInt(a, i) == Raw(a.v * i, a.magnitude * i)
FeAdd(a, b) == Raw(a.v + b.v, a.magnitude + b.magnitude)
Product(v, good) == [v |-> v, magnitude |-> IF good THEN 1 ELSE MaxMagnitude + 1, normalized |-> FALSE]
FeMul(a, b) ==
  Product(MulMod(a.v, b.v), a.magnitude <= MaxMulMagnitude /\ b.magnitude <= MaxMulMagnitude)
FeSqr(a) == Product(MulMod(a.v, a.v), a.magnitude <= MaxMulMagnitude)
FeCmov(r, a, flag) ==
  [v |-> IF flag THEN a.v ELSE r.v,
   magnitude |-> IF a.magnitude > r.magnitude THEN a.magnitude ELSE r.magnitude,
   normalized |-> r.normalized /\ a.normalized]

(* The tests that need a normalized element look at its lowest limb or at    *)
(* all limbs; of an element that is not normalized they see another          *)
(* representative of the same value.                                         *)
FeIsZero(a) == a.normalized /\ a.v = 0
FeIsOdd(a) == IF a.normalized THEN a.v % 2 = 1 ELSE a.v % 2 = 0
FeCmpVar(a, b) == IF a.v > b.v THEN 1 ELSE IF a.v < b.v THEN -1 ELSE 0
FeToStorage(a) == FeGetB32(a)
FeFromStorage(s) == Fe(s)

(* field_impl.h: fe_equal negates its first argument, which must have         *)
(* magnitude 1.  The powers are those the addition chains compute             *)
(* (AdditionChains).                                                         *)
FeEqual(a, b) == LET na == FeAdd(FeNegate(a, 1), b)
                 IN  na.magnitude # Misused /\ FeNormalizesToZero(na)
FeInv(a) == Product(Power(a.v, P - 2), a.magnitude <= MaxMulMagnitude)
FeSqrt(a) ==
  LET r == Product(Power(a.v, (P + 1) \div 4), a.magnitude <= MaxMulMagnitude)
  IN  [fe |-> r, ok |-> FeEqual(FeSqr(r), a)]
FeIsQuadVar(a) == FeSqrt(a).ok
(* fe_inv_all_var inverts the product of all elements once and divides it     *)
(* by the others on the way back.                                            *)
FeInvAllVar(a) ==
  LET len == Len(a)
      prefix[i \in 1 .. len] ==
        IF i = 1 THEN <<a[1]>> ELSE LET s == prefix[i - 1] IN Append(s, FeMul(s[i - 1], a[i]))
      r == prefix[len]
      u[i \in 1 .. len] ==
        IF i = 1 THEN <<FeInv(r[len])>>
        ELSE LET s == u[i - 1] IN Append(s, FeMul(s[i - 1], a[len - i + 2]))
      inverses == u[len]
  IN  [i \in 1 .. len |-> LET inverse == inverses[len - i + 1]
                          IN  IF i = 1 THEN inverse ELSE FeMul(r[i - 1], inverse)]
=============================================================================
