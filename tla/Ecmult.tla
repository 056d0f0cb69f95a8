------------------------------- MODULE Ecmult -------------------------------
(* Multiplication of points by scalars in libsecp256k1: ecmult_impl.h (na * A *)
(* + ng * G in variable time), ecmult_const_impl.h (one product in constant   *)
(* time) and ecmult_gen_impl.h (multiples of G with blinding).  A scalar is a  *)
(* number below N; ScalarLimbs shows that the words compute modulo N.         *)
EXTENDS Group, TLC

CONSTANTS N,               (* the order of the group                         *)
          ScalarBits,      (* the bits of a scalar: 256                      *)
          WindowA, WindowG,(* 5 and 16                                       *)
          GenWindows,      (* the windows of ecmult_gen: 64                  *)
          GenBits,         (* the bits of one: 4                             *)
          GenX, GenY,      (* the generator                                  *)
          NumsX,           (* the x coordinate nobody knows the multiple of  *)
          PreG,            (* the table EcmultContextBuild computes          *)
          Prec             (* the table EcmultGenContextBuild computes       *)

GeConstG == Ge(Fe(GenX), Fe(GenY))
TableSize(w) == 2 ^ (w - 2)
ScalarIsHigh(s) == s > N \div 2
ScalarNegate(s) == (N - s) % N
Bit(s, i) == (s \div 2 ^ i) % 2

(* Odd multiples 1a, 3a, ... on the isomorphic curve on which d = 2a is       *)
(* affine, with the ratios of their z coordinates.  a is finite.              *)
OddMultiplesFrom(n, first, az, d) ==
  LET start == [x |-> first.x, y |-> first.y, z |-> az, infinity |-> FALSE]
      table[i \in 1 .. n] ==
        IF i = 1 THEN <<Sum(start, d.z)>>
        ELSE LET t == table[i - 1] IN Append(t, GejAddGeVar(t[i - 1].r, Ge(d.x, d.y)))
  IN  table[n]
TableOf(all, dz) ==
  LET n == Len(all)
      prej == [i \in 1 .. n |-> all[i].r]
  IN  [prej |-> [prej EXCEPT ![n].z = FeMul(prej[n].z, dz)],
       zr |-> [i \in 1 .. n |-> all[i].rzr]]
OddMultiplesTable(n, a) ==
  LET d == GejDoubleVar(a).r
  IN  TableOf(OddMultiplesFrom(n, GeSetGejZinv(a, d.z), a.z, d), d.z)
OddMultiplesTableGlobalzWindowa(a) ==
  LET t == OddMultiplesTable(TableSize(WindowA), a) IN GeGlobalzSetTableGej(t.prej, t.zr)
OddMultiplesTableStorageVar(n, a) ==
  LET t == OddMultiplesTable(n, a)
      prea == GeSetTableGejVar(t.prej, t.zr)
  IN  [i \in 1 .. n |-> GeToStorage(prea[i])]

(* The entry for n * a with an odd n that may be negative.                    *)
Abs(n) == IF n > 0 THEN n ELSE -n
TableGetGe(pre, n) ==
  LET e == pre[(Abs(n) - 1) \div 2 + 1] IN IF n > 0 THEN e ELSE GeNeg(e)
TableGetGeStorage(pre, n) ==
  LET e == GeFromStorage(pre[(Abs(n) - 1) \div 2 + 1]) IN IF n > 0 THEN e ELSE GeNeg(e)

EcmultContextBuild == OddMultiplesTableStorageVar(TableSize(WindowG), GejSetGe(GeConstG))

(* The digits of a in windowed non-adjacent form, those that are not zero.    *)
EcmultWnaf(a, w) ==
  LET sign == IF Bit(a, ScalarBits - 1) = 1 THEN -1 ELSE 1
      s == IF sign = -1 THEN ScalarNegate(a) ELSE a
      digits[bit \in 0 .. ScalarBits, carry \in 0 .. 1] ==
        IF bit = ScalarBits THEN <<>>
        ELSE IF Bit(s, bit) = carry THEN digits[bit + 1, carry]
        ELSE LET now == IF w > ScalarBits - bit THEN ScalarBits - bit ELSE w
                 word == ((s \div 2 ^ bit) % 2 ^ now) + carry
                 next == (word \div 2 ^ (w - 1)) % 2
             IN  (bit :> sign * (word - next * 2 ^ w)) @@ digits[bit + now, next]
  IN  digits[0, 0]
WnafBits(wnaf) == Max(DOMAIN wnaf \cup {-1}) + 1

(* One bit of the loop of ecmult: the entries that have a digit here.         *)
AddEntry(r, table, wnaf, i) ==
  IF i \in DOMAIN wnaf THEN GejAddGeVar(r, TableGetGe(table.pre, wnaf[i])).r ELSE r
AddEntryG(r, preG, globalz, wnaf, i) ==
  IF i \in DOMAIN wnaf THEN GejAddZinvVar(r, TableGetGeStorage(preG, wnaf[i]), globalz) ELSE r
TimesZ(r, globalz) == IF r.infinity THEN r ELSE [r EXCEPT !.z = FeMul(r.z, globalz)]
EcmultLoop(preG, table, wnafNa, wnafNg) ==
  LET bits == Max({WnafBits(wnafNa), WnafBits(wnafNg)})
      loop[i \in -1 .. bits - 1, r \in Gej] ==
        IF i < 0 THEN r
        ELSE loop[i - 1, AddEntryG(AddEntry(GejDoubleVar(r).r, table, wnafNa, i),
                                   preG, table.globalz, wnafNg, i)]
  IN  TimesZ(loop[bits - 1, GejInfinity], table.globalz)
(* na * a + ng * G.  The table of a has one z coordinate for all entries,     *)
(* which is left out until the end; the entries of G are added with it as     *)
(* the inverse of their z.                                                   *)
SecpEcmult(preG, a, na, ng) ==
  EcmultLoop(preG, OddMultiplesTableGlobalzWindowa(a), EcmultWnaf(na, WindowA), EcmultWnaf(ng, WindowG))

-----------------------------------------------------------------------------
(* The constant time table look-up moves every entry under a mask.            *)
ConstTableGetGe(pre, n) ==
  LET e == pre[Abs(n) \div 2 + 1]
      magnitude(f(_)) == Max({f(pre[m]).magnitude : m \in DOMAIN pre})
      y == [e.y EXCEPT !.magnitude = magnitude(LAMBDA q : q.y), !.normalized = FALSE]
  IN  Ge([e.x EXCEPT !.magnitude = magnitude(LAMBDA q : q.x), !.normalized = FALSE],
         FeCmov(y, FeNegate(y, 1), n # Abs(n)))

WnafSize(w) == (ScalarBits + w - 1) \div w
(* Odd digits for s plus 1 or 2: even numbers are skewed by 1, odd ones by 2, *)
(* high ones negated first.  -1 would overflow and is only negated.           *)
WnafConst(s, w) ==
  LET flip == ScalarIsHigh(s)
      bit == IF flip # (s % 2 = 1) THEN 1 ELSE 0
      notNegOne == ScalarNegate(s) # 1
      added == s + (IF notNegOne THEN 2 ^ bit ELSE 0)
      value == IF flip THEN ScalarNegate(added) ELSE added
      sign == (IF flip THEN -1 ELSE 1) * (IF notNegOne THEN 1 ELSE -1)
      (* The state after that many words: what is left, u_last and the digits. *)
      loop[word \in 0 .. WnafSize(w)] ==
        IF word = 0 THEN [rest |-> value \div 2 ^ w, uLast |-> value % 2 ^ w, wnaf |-> <<>>]
        ELSE LET l == loop[word - 1]
                 u == l.rest % 2 ^ w
                 fix == IF u % 2 = 1 THEN 0 ELSE IF l.uLast > 0 THEN 1 ELSE -1
             IN  [rest |-> l.rest \div 2 ^ w, uLast |-> u + fix,
                  wnaf |-> Append(l.wnaf, (l.uLast - fix * 2 ^ w) * sign)]
      end == loop[WnafSize(w)]
  IN  [wnaf |-> Append(end.wnaf, end.uLast * sign), skew |-> 2 ^ bit]

RECURSIVE Doubled(_, _)
Doubled(r, times) == IF times = 0 THEN r ELSE Doubled(GejDoubleVar(r).r, times - 1)

EcmultConstLoop(table, digits) ==
  LET w == WindowA - 1
      pre == [i \in DOMAIN table.pre |-> [table.pre[i] EXCEPT !.y = FeNormalizeWeak(@)]]
      size == WnafSize(w)
      loop[i \in -1 .. size - 1, r \in Gej] ==
        IF i < 0 THEN r
        ELSE loop[i - 1, GejAddGe(Doubled(r, w), ConstTableGetGe(pre, digits[i + 1]))]
  IN  [loop[size - 1, GejSetGe(ConstTableGetGe(pre, digits[size + 1]))] EXCEPT !.z = FeMul(@, table.globalz)]
(* a or 2a, whichever the digits have too much.                               *)
Correction(a, skew) ==
  GeFromStorage(GeStorageCmov(GeToStorage(a), GeToStorage(GeSetGej(GejDoubleVar(GejSetGe(a)).r)), skew = 2))
Corrected(a, table, wnaf) == GejAddGe(EcmultConstLoop(table, wnaf.wnaf), GeNeg(Correction(a, wnaf.skew)))
(* scalar * a; a is finite and the scalar not zero.                           *)
EcmultConst(a, scalar) ==
  Corrected(a, OddMultiplesTableGlobalzWindowa(GejSetGe(a)), WnafConst(scalar, WindowA - 1))

-----------------------------------------------------------------------------
(* The table of ecmult_gen: row j has numsbase + i * 2^(GenBits * j) * G.  The *)
(* multiples of nums are 1, 2, 4, ... and in the last row minus their sum.     *)
Nums == GejAddGeVar(GejSetGe(GeSetXoVar(Fe(NumsX), FALSE).ge), GeConstG).r
GenRow(base, numsbase) ==
  LET row[i \in 0 .. 2 ^ GenBits - 1] ==
        IF i = 0 THEN <<numsbase>>
        ELSE LET r == row[i - 1] IN Append(r, GejAddVar(r[i], base).r)
  IN  row[2 ^ GenBits - 1]
EcmultGenContextBuild ==
  LET bases[j \in 0 .. GenWindows - 1] ==
        IF j = 0 THEN [g |-> GejSetGe(GeConstG), nums |-> Nums]
        ELSE LET before == bases[j - 1]
                 twice == GejDoubleVar(before.nums).r
             IN  [g |-> Doubled(before.g, GenBits),
                  nums |-> IF j < GenWindows - 1 THEN twice ELSE GejAddVar(GejNeg(twice), Nums).r]
      rows[j \in 0 .. GenWindows - 1] ==
        (IF j = 0 THEN <<>> ELSE rows[j - 1]) \o GenRow(bases[j].g, bases[j].nums)
      prec == GeSetAllGejVar(rows[GenWindows - 1])
  IN  [i \in DOMAIN prec |-> GeToStorage(prec[i])]

(* Blinded: (gn + blind) * G added to initial = -blind * G.                    *)
EcmultGen(gen, gn) ==
  LET gnb == (gn + gen.blind) % N
      loop[j \in 0 .. GenWindows, r \in Gej] ==
        LET bits == (gnb \div 2 ^ (GenBits * j)) % 2 ^ GenBits
        IN  IF j = GenWindows THEN r
            ELSE loop[j + 1, GejAddGe(r, GeFromStorage(gen.prec[j * 2 ^ GenBits + bits + 1]))]
  IN  loop[0, gen.initial]
(* Without a seed the blinding is reset first.  s and b are the first outputs *)
(* of the generator that are in range and not zero.                           *)
Reset(gen) == [gen EXCEPT !.initial = GejNeg(GejSetGe(GeConstG)), !.blind = 1]
Rescaled(gen, s) == [gen EXCEPT !.initial = GejRescale(@, Fe(s))]
(* Mutant: the blind is not negated.                                          *)
ReblindedSameSign(gen, b) == [gen EXCEPT !.initial = EcmultGen(gen, b), !.blind = b]
Reblinded(gen, b) == [gen EXCEPT !.initial = EcmultGen(gen, b), !.blind = ScalarNegate(b)]
EcmultGenBlind(gen, seeded, s, b) == Reblinded(Rescaled(IF seeded THEN gen ELSE Reset(gen), s), b)

-----------------------------------------------------------------------------
(* The multiples of the generator by the group law: k * G is Multiple(k).     *)
Multiples ==
  LET upto[k \in 0 .. N - 1] ==
        IF k = 0 THEN <<Infinity>>
        ELSE LET m == upto[k - 1] IN Append(m, Plus(m[k], <<GenX, GenY>>))
  IN  upto[N - 1]
Multiple(k) == Multiples[(k % N) + 1]
LogOf(p) == CHOOSE k \in 0 .. N - 1 : Multiple(k) = p
=============================================================================
