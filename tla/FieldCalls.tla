----------------------------- MODULE FieldCalls -----------------------------
(* Callers of the field: two elements a and b and the calls made on them,    *)
(* each under the conditions its VERIFY_CHECKs state.  The functions are     *)
(* parameters, so that the same calls can be made on limbs (FieldLimbs) and  *)
(* on values (FieldElement).                                                 *)
EXTENDS Integers

CONSTANTS
  FeSetInt(_), FeClear, FeSetB32(_), FeGetB32(_), FeNormalize(_), FeNormalizeWeak(_),
  FeNormalizeVar(_), FeNormalizesToZero(_), FeNormalizesToZeroVar(_), FeNegate(_, _),
  FeMulInt(_, _), FeAdd(_, _), FeMul(_, _), FeSqr(_), FeCmov(_, _, _), FeIsZero(_),
  FeIsOdd(_), FeCmpVar(_, _), FeToStorage(_), FeFromStorage(_),
  MaxMagnitude, MaxMulMagnitude,
  Numbers,      (* the numbers given to fe_set_b32                           *)
  SmallInts,    (* the integers given to fe_set_int and fe_mul_int           *)
  MaxCalls      (* bound on the number of calls                              *)

VARIABLES a, b,  (* two elements                                             *)
          call,  (* the last call made                                       *)
          ret,   (* what it returned                                         *)
          calls  (* the number of calls made                                 *)
vars == <<a, b, call, ret, calls>>

Init == /\ a = FeClear
        /\ b = FeClear
        /\ call = "fe_clear"
        /\ ret = 0
        /\ calls = 0

Made(name, result) ==
  /\ calls < MaxCalls
  /\ calls' = calls + 1
  /\ call' = name
  /\ ret' = result

SetB32(k) == /\ Made("fe_set_b32", FeSetB32(k).ok)
             /\ a' = FeSetB32(k).fe
             /\ UNCHANGED b
SetInt(i) == Made("fe_set_int", 0) /\ a' = FeSetInt(i) /\ UNCHANGED b
(* *b = *a, as the formulas of group_impl.h copy elements.                    *)
Copy == Made("copy", 0) /\ b' = a /\ UNCHANGED a

Normalize == Made("fe_normalize", 0) /\ a' = FeNormalize(a) /\ UNCHANGED b
NormalizeVar == Made("fe_normalize_var", 0) /\ a' = FeNormalizeVar(a) /\ UNCHANGED b
NormalizeWeak == Made("fe_normalize_weak", 0) /\ a' = FeNormalizeWeak(a) /\ UNCHANGED b

Negate(m) == /\ a.magnitude <= m
             /\ m < MaxMagnitude
             /\ Made("fe_negate", 0)
             /\ a' = FeNegate(a, m)
             /\ UNCHANGED b
MulInt(i) == /\ a.magnitude * i <= MaxMagnitude
             /\ Made("fe_mul_int", 0)
             /\ a' = FeMulInt(a, i)
             /\ UNCHANGED b
Add == /\ a.magnitude + b.magnitude <= MaxMagnitude
       /\ Made("fe_add", 0)
       /\ a' = FeAdd(a, b)
       /\ UNCHANGED b
Mul == /\ a.magnitude <= MaxMulMagnitude
       /\ b.magnitude <= MaxMulMagnitude
       /\ Made("fe_mul", 0)
       /\ a' = FeMul(a, b)
       /\ UNCHANGED b
Sqr == /\ a.magnitude <= MaxMulMagnitude
       /\ Made("fe_sqr", 0)
       /\ a' = FeSqr(a)
       /\ UNCHANGED b
Cmov(flag) == Made("fe_cmov", flag) /\ a' = FeCmov(a, b, flag) /\ UNCHANGED b

(* fe_from_storage reads what the last call packed.                          *)
FromStorage == /\ call = "fe_to_storage"
               /\ Made("fe_from_storage", 0)
               /\ b' = FeFromStorage(ret)
               /\ UNCHANGED a

Asks(name, result) == Made(name, result) /\ UNCHANGED <<a, b>>
ZeroTests == \/ Asks("fe_normalizes_to_zero", FeNormalizesToZero(a))
             \/ Asks("fe_normalizes_to_zero_var", FeNormalizesToZeroVar(a))
OfNormalized == /\ a.normalized
                /\ \/ Asks("fe_is_zero", FeIsZero(a))
                   \/ Asks("fe_is_odd", FeIsOdd(a))
                   \/ Asks("fe_get_b32", FeGetB32(a))
                   \/ Asks("fe_to_storage", FeToStorage(a))
Compare == a.normalized /\ b.normalized /\ Asks("fe_cmp_var", FeCmpVar(a, b))

Next == \/ \E k \in Numbers : SetB32(k)
        \/ \E i \in SmallInts : SetInt(i) \/ MulInt(i)
        \/ Copy \/ Normalize \/ NormalizeVar \/ NormalizeWeak
        \/ \E m \in a.magnitude .. a.magnitude + 1 : Negate(m)
        \/ Add \/ Mul \/ Sqr \/ FromStorage \/ ZeroTests \/ OfNormalized \/ Compare
        \/ \E flag \in BOOLEAN : Cmov(flag)

Spec == Init /\ [][Next]_vars
=============================================================================
