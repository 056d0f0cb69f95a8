------------------------------- MODULE Group -------------------------------
(* Points of libsecp256k1's curve y^2 = x^3 + CurveB (group_impl.h): affine   *)
(* points (ge) and points in Jacobian coordinates (gej), (x, y, z) for        *)
(* (x / z^2, y / z^3).  The formulas work on field elements with magnitudes   *)
(* (FieldElement).  A function that sets the infinity flag only leaves the    *)
(* coordinates of its result as they were; all callers that meet this case    *)
(* compute in place, so these are the coordinates of the first argument.      *)
EXTENDS FieldElement

CONSTANTS CurveB

One == FeSetInt(1)
Ge(x, y) == [x |-> x, y |-> y, infinity |-> FALSE]
Gej == [x : FieldElements, y : FieldElements, z : FieldElements, infinity : BOOLEAN]
GeInfinity == [x |-> FeClear, y |-> FeClear, infinity |-> TRUE]
GejInfinity == [x |-> FeClear, y |-> FeClear, z |-> FeClear, infinity |-> TRUE]

GeNeg(a) == [a EXCEPT !.y = FeNegate(FeNormalizeWeak(a.y), 1)]
GejNeg(a) == [a EXCEPT !.y = FeNegate(FeNormalizeWeak(a.y), 1)]
GejSetGe(a) == [x |-> a.x, y |-> a.y, z |-> One, infinity |-> a.infinity]

GeSetGejZinv(a, zi) ==
  LET zi2 == FeSqr(zi)
  IN  [x |-> FeMul(a.x, zi2), y |-> FeMul(a.y, FeMul(zi2, zi)), infinity |-> a.infinity]
GeSetGej(a) == GeSetGejZinv(a, FeInv(a.z))
GeSetGejVar(a) == IF a.infinity THEN GeInfinity ELSE GeSetGej(a)
(* The z coordinates of all finite points are inverted together.             *)
GeSetAllGejVar(a) ==
  LET finite == SelectSeq([i \in DOMAIN a |-> i], LAMBDA i : ~a[i].infinity)
      azi == IF finite = <<>> THEN <<>> ELSE FeInvAllVar([c \in DOMAIN finite |-> a[finite[c]].z])
      place(i) == CHOOSE c \in DOMAIN finite : finite[c] = i
  IN  [i \in DOMAIN a |-> IF a[i].infinity THEN GeInfinity ELSE GeSetGejZinv(a[i], azi[place(i)])]
(* zr[i] is the ratio of the z coordinates of a[i] and a[i - 1]: one inverse, *)
(* or none when the table may share a z coordinate, gives all points.        *)
GeSetTableGejVar(a, zr) ==
  LET zi[i \in DOMAIN a] == IF i = Len(a) THEN FeInv(a[i].z) ELSE FeMul(zi[i + 1], zr[i + 1])
  IN  [i \in DOMAIN a |-> GeSetGejZinv(a[i], zi[i])]
GeGlobalzSetTableGej(a, zr) ==
  LET zs[i \in DOMAIN a] == IF i = Len(a) - 1 THEN zr[Len(a)] ELSE FeMul(zs[i + 1], zr[i + 1])
  IN  [pre |-> [i \in DOMAIN a |-> IF i = Len(a) THEN Ge(a[i].x, a[i].y)
                                                 ELSE GeSetGejZinv(a[i], zs[i])],
       globalz |-> a[Len(a)].z]

GeSetXquad(x) ==
  LET root == FeSqrt(FeAdd(FeSetInt(CurveB), FeMul(x, FeSqr(x))))
  IN  [ok |-> root.ok, ge |-> Ge(x, root.fe)]
GeSetXoVar(x, odd) ==
  LET quad == GeSetXquad(x)
      y == FeNormalizeVar(quad.ge.y)
  IN  [ok |-> quad.ok, ge |-> Ge(x, IF FeIsOdd(y) # odd THEN FeNegate(y, 1) ELSE y)]

(* Mutant: x * z instead of x * z^2.                                          *)
GejEqXVarOverZ(x, a) == FeEqual(FeMul(a.z, x), FeNormalizeWeak(a.x))
(* fe_equal_var(&r, &r2) with r = x * z^2.                                    *)
GejEqXVar(x, a) == FeEqual(FeMul(FeSqr(a.z), x), FeNormalizeWeak(a.x))
GejIsValidVar(a) ==
  LET z2 == FeSqr(a.z)
      z6 == FeMulInt(FeMul(FeSqr(z2), z2), CurveB)
      x3 == FeAdd(FeMul(FeSqr(a.x), a.x), z6)
  IN  ~a.infinity /\ FeEqual(FeSqr(a.y), FeNormalizeWeak(x3))
GeIsValidVar(a) ==
  LET x3 == FeAdd(FeMul(FeSqr(a.x), a.x), FeSetInt(CurveB))
  IN  ~a.infinity /\ FeEqual(FeSqr(a.y), FeNormalizeWeak(x3))
(* The Jacobi symbol of y / z^3 is that of y * z.                             *)
GejHasQuadYVar(a) == ~a.infinity /\ FeIsQuadVar(FeMul(a.y, a.z))

-----------------------------------------------------------------------------
(* Sums come with rzr, the ratio of the z coordinates of result and first     *)
(* argument, which the tables of multiples use.                              *)
Sum(r, rzr) == [r |-> r, rzr |-> rzr]

GejDoubleVar(a) ==
  LET z  == FeMulInt(FeMul(a.z, a.y), 2)
      t1 == FeMulInt(FeSqr(a.x), 3)
      t2 == FeSqr(t1)
      y2 == FeMulInt(FeSqr(a.y), 2)
      t4 == FeMulInt(FeSqr(y2), 2)
      t3 == FeMul(y2, a.x)
      x  == FeAdd(FeNegate(FeMulInt(t3, 4), 4), t2)
      t5 == FeAdd(FeMulInt(t3, 6), FeNegate(t2, 1))
      y  == FeAdd(FeMul(t1, t5), FeNegate(t4, 2))
  IN  IF a.infinity
      THEN Sum(a, One)
      ELSE Sum([x |-> x, y |-> y, z |-> z, infinity |-> FALSE],
               FeMulInt(FeNormalizeWeak(a.y), 2))

(* What the three variable time additions share: u1, u2 and s1, s2 are the    *)
(* coordinates over a common denominator, bz is empty or holds the z of b.       *)
AddCommon(a, u1, u2, s1, s2, bz) ==
  LET h  == FeAdd(FeNegate(u1, 1), u2)
      i  == FeAdd(FeNegate(s1, 1), s2)
      h2 == FeSqr(h)
      h3 == FeMul(h, h2)
      t  == FeMul(u1, h2)
      x  == FeAdd(FeNegate(FeAdd(FeMulInt(t, 2), h3), 3), FeSqr(i))
      y  == FeAdd(FeMul(FeAdd(FeNegate(x, 5), t), i), FeNegate(FeMul(h3, s1), 1))
      hz == IF bz = <<>> THEN h ELSE FeMul(h, bz[1])
  IN  IF FeNormalizesToZeroVar(h)
      THEN IF FeNormalizesToZeroVar(i) THEN GejDoubleVar(a)
           ELSE Sum([a EXCEPT !.infinity = TRUE], FeSetInt(0))
      ELSE Sum([x |-> x, y |-> y, z |-> FeMul(a.z, hz), infinity |-> FALSE], hz)

GejAddVar(a, b) ==
  LET z22 == FeSqr(b.z)
      z12 == FeSqr(a.z)
  IN  IF a.infinity THEN Sum(b, One)
      ELSE IF b.infinity THEN Sum(a, One)
      ELSE AddCommon(a, FeMul(a.x, z22), FeMul(b.x, z12), FeMul(FeMul(a.y, z22), b.z),
                     FeMul(FeMul(b.y, z12), a.z), <<b.z>>)
GejAddGeVar(a, b) ==
  LET z12 == FeSqr(a.z)
  IN  IF a.infinity THEN Sum(GejSetGe(b), One)
      ELSE IF b.infinity THEN Sum(a, One)
      ELSE AddCommon(a, FeNormalizeWeak(a.x), FeMul(b.x, z12), FeNormalizeWeak(a.y),
                     FeMul(FeMul(b.y, z12), a.z), <<>>)
(* b is given on an isomorphic curve, with the inverse of its z coordinate.   *)
GejAddZinvVar(a, b, bzinv) ==
  LET az  == FeMul(a.z, bzinv)
      z12 == FeSqr(az)
  IN  IF b.infinity THEN a
      ELSE IF a.infinity THEN GejSetGe(GeSetGejZinv(b, bzinv))
      ELSE AddCommon(a, FeNormalizeWeak(a.x), FeMul(b.x, z12), FeNormalizeWeak(a.y),
                     FeMul(FeMul(b.y, z12), az), <<>>).r

(* Mutant: the points with opposite y are not told apart.                     *)
NeverDegenerate(m, rr) == FALSE
Degenerate(m, rr) == FeNormalizesToZero(m) /\ FeNormalizesToZero(rr)
(* The constant time addition: one formula for sums and doubles, a second     *)
(* slope for points with opposite y and different x.  b is finite.            *)
GejAddGe(a, b) ==
  LET zz == FeSqr(a.z)
      u1 == FeNormalizeWeak(a.x)
      u2 == FeMul(b.x, zz)
      s1 == FeNormalizeWeak(a.y)
      s2 == FeMul(FeMul(b.y, zz), a.z)
      t  == FeAdd(u1, u2)
      m  == FeAdd(s1, s2)
      negU2 == FeNegate(u2, 1)
      rr == FeAdd(FeSqr(t), FeMul(u1, negU2))
      degenerate == Degenerate(m, rr)
      rrAlt == FeCmov(FeMulInt(s1, 2), rr, ~degenerate)
      mAlt  == FeCmov(FeAdd(negU2, u1), m, ~degenerate)
      n2 == FeSqr(mAlt)
      q  == FeNegate(FeMul(n2, t), 1)
      n  == FeCmov(FeSqr(n2), m, degenerate)
      z  == FeMul(a.z, mAlt)
      x  == FeNormalizeWeak(FeAdd(FeSqr(rrAlt), q))
      t3 == FeAdd(FeMul(FeAdd(FeMulInt(x, 2), q), rrAlt), n)
      y  == FeNormalizeWeak(FeNegate(t3, 3))
  IN  [x |-> FeCmov(FeMulInt(x, 4), b.x, a.infinity),
       y |-> FeCmov(FeMulInt(y, 4), b.y, a.infinity),
       z |-> FeCmov(FeMulInt(z, 2), One, a.infinity),
       infinity |-> FeNormalizesToZero(z) /\ ~a.infinity]

GejRescale(a, s) ==
  LET zz == FeSqr(s)
  IN  [a EXCEPT !.x = FeMul(a.x, zz), !.y = FeMul(FeMul(a.y, zz), s), !.z = FeMul(a.z, s)]

GeToStorage(a) == [x |-> FeToStorage(FeNormalize(a.x)), y |-> FeToStorage(FeNormalize(a.y))]
GeFromStorage(s) == Ge(FeFromStorage(s.x), FeFromStorage(s.y))
GeStorageCmov(r, a, flag) == IF flag THEN a ELSE r

-----------------------------------------------------------------------------
(* The group itself: points as pairs of numbers, and the chord and tangent    *)
(* law.  The formulas above are checked against it.                           *)
Infinity == <<>>
Inverse2(x) == Power(x % P, P - 2)
Neg(p) == IF p = Infinity THEN p ELSE <<p[1], (P - p[2]) % P>>
Through(p, slope, q) ==
  LET x == (slope * slope - p[1] - q[1]) % P
  IN  <<x, (slope * (p[1] - x) - p[2]) % P>>
Plus(p, q) ==
  CASE p = Infinity -> q
    [] q = Infinity -> p
    [] p = Neg(q) -> Infinity
    [] p = q -> Through(p, (3 * p[1] * p[1] * Inverse2(2 * p[2])) % P, p)
    [] OTHER -> Through(p, ((q[2] - p[2]) * Inverse2(q[1] - p[1])) % P, q)

OfGe(a) == IF a.infinity THEN Infinity ELSE <<a.x.v, a.y.v>>
OfGej(a) ==
  LET zi == Power(a.z.v, P - 2)
  IN  IF a.infinity THEN Infinity
      ELSE <<MulMod(a.x.v, MulMod(zi, zi)), MulMod(a.y.v, MulMod(zi, MulMod(zi, zi)))>>
(* No VERIFY_CHECK on magnitudes was broken on the way to this point.         *)
FeOk(a) == a.magnitude # Misused
GeOk(a) == FeOk(a.x) /\ FeOk(a.y)
GejOk(a) == FeOk(a.x) /\ FeOk(a.y) /\ FeOk(a.z) /\ (a.infinity \/ a.z.v # 0)
=============================================================================
