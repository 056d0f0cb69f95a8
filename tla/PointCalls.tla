----------------------------- MODULE PointCalls -----------------------------
(* Callers of the group and of the multiplications: a Jacobian point acc, an  *)
(* affine point aff and the context of ecmult_gen, with any sequence of calls *)
(* on them.  accAt and affAt are the points that acc and aff should stand for *)
(* by the law of the group; no call of the code looks at them.                *)
EXTENDS Ecmult

CONSTANTS Scales,        (* factors of z coordinates, and of blinding        *)
          Factors,       (* the scalars given to multiplications             *)
          Blinds,        (* the scalars drawn for blinding                   *)
          XNumbers,      (* x coordinates to decompress                      *)
          MaxPointCalls  (* bound on the number of calls                     *)

VARIABLES acc, aff, blinded, accAt, affAt, pointCalls
pointVars == <<acc, aff, blinded, accAt, affAt, pointCalls>>

(* The state secp256k1_ecmult_gen_context_build leaves, before a seed.        *)
Built(s, b) ==
  EcmultGenBlind([prec |-> Prec, initial |-> GejInfinity, blind |-> 0], FALSE, s, b)

PointInit == /\ acc = GejInfinity
             /\ aff = GeConstG
             /\ accAt = Infinity
             /\ affAt = <<GenX, GenY>>
             /\ blinded \in {Built(s, b) : s \in Scales, b \in Blinds}
             /\ pointCalls = 0

Called == pointCalls < MaxPointCalls /\ pointCalls' = pointCalls + 1
(* A call that gives acc the value r, which should stand for the point at.    *)
SetAcc(r, at) == Called /\ acc' = r /\ accAt' = at /\ UNCHANGED <<aff, affAt, blinded>>
SetAff(r, at) == Called /\ aff' = r /\ affAt' = at /\ UNCHANGED <<acc, accAt, blinded>>

(* As ecmult uses gej_add_zinv_var: acc is kept without the factor z of its   *)
(* coordinate z, which is multiplied in again at the end.                     *)
AddZinv(a, b, z) == TimesZ(GejAddZinvVar([a EXCEPT !.z = FeMul(a.z, FeInv(z))], b, z), z)

Move == \/ SetAcc(GejSetGe(aff), affAt)
        \/ SetAcc(GejNeg(acc), Neg(accAt))
        \/ SetAff(GeNeg(aff), Neg(affAt))
        \/ SetAff(GeSetGejVar(acc), accAt)
        \/ ~aff.infinity /\ SetAff(GeFromStorage(GeToStorage(aff)), affAt)
        \/ \E s \in Scales : SetAcc(GejRescale(acc, Fe(s)), accAt)
(* The point with this x whose y is odd or even, when there is one.           *)
Decompress ==
  \E x \in XNumbers, odd \in BOOLEAN :
     LET ys == {y \in 0 .. P - 1 : (y * y - x * x * x - CurveB) % P = 0 /\ (y % 2 = 1) = odd}
     IN  \E r \in {GeSetXoVar(Fe(x), odd)} :
            SetAff(IF r.ok THEN r.ge ELSE aff, IF ys = {} THEN affAt ELSE <<x, CHOOSE y \in ys : TRUE>>)
AddCalls ==
  \/ SetAcc(GejDoubleVar(acc).r, Plus(accAt, accAt))
  \/ SetAcc(GejAddGeVar(acc, aff).r, Plus(accAt, affAt))
  \/ ~aff.infinity /\ SetAcc(GejAddGe(acc, aff), Plus(accAt, affAt))
  \/ \E s \in Scales : \/ SetAcc(AddZinv(acc, aff, Fe(s)), Plus(accAt, affAt))
                       \/ SetAcc(GejAddVar(acc, GejRescale(GejSetGe(aff), Fe(s))).r, Plus(accAt, affAt))
MulCalls ==
  \E na \in Factors :
     \/ /\ ~acc.infinity
        /\ \E ng \in Factors : SetAcc(SecpEcmult(PreG, acc, na, ng), Multiple(LogOf(accAt) * na + ng))
     \/ /\ ~aff.infinity
        /\ na # 0
        /\ SetAcc(EcmultConst(aff, na), Multiple(LogOf(affAt) * na))
     \/ SetAcc(EcmultGen(blinded, na), Multiple(na))
Blind == /\ Called
         /\ \E seeded \in BOOLEAN, s \in Scales, b \in Blinds :
               blinded' = EcmultGenBlind(blinded, seeded, s, b)
         /\ UNCHANGED <<acc, aff, accAt, affAt>>

PointNext == Move \/ Decompress \/ AddCalls \/ MulCalls \/ Blind
PointSpec == PointInit /\ [][PointNext]_pointVars

-----------------------------------------------------------------------------
(* Whatever calls of group_impl.h and of the ecmult files led to them, and    *)
(* whatever the z coordinates, the points stand for what the group law says:  *)
(* doubles, opposite points, infinity and the degenerate case of the constant *)
(* time addition included, no result depends on the blinding, and no call     *)
(* breaks a magnitude limit of the field below.                               *)
PointsFollowTheGroupLaw ==
  /\ GejOk(acc) /\ GeOk(aff)
  /\ OfGej(acc) = accAt
  /\ OfGe(aff) = affAt

(* The predicates on points agree with the points: equality of an x           *)
(* coordinate, being on the curve, and having a square y.                     *)
PredicatesAgree ==
  /\ GejIsValidVar(acc) = (accAt # Infinity)
  /\ GeIsValidVar(aff) = (affAt # Infinity)
  /\ accAt # Infinity =>
       /\ \A x \in XNumbers : GejEqXVar(Fe(x), acc) = (accAt[1] = x)
       /\ GejHasQuadYVar(acc) = (\E r \in 0 .. P - 1 : (r * r) % P = accAt[2])

(* The blinding of ecmult_gen always cancels: initial is -blind * G.          *)
BlindingCancels ==
  /\ GejOk(blinded.initial)
  /\ OfGej(blinded.initial) = Multiple(-blinded.blind)
=============================================================================
