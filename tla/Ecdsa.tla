------------------------------- MODULE Ecdsa -------------------------------
(* Keys and signatures of libsecp256k1: eckey_impl.h, ecdsa_impl.h, the       *)
(* opaque objects of secp256k1.c and the recovery module.  A string of 32     *)
(* bytes is the number it writes, which may be larger than N and than P.  A   *)
(* serialized public key is a record [size, tag, x, y].                       *)
EXTENDS Ecmult

(* A string as a scalar: reduced, with the overflow flag.                     *)
ScalarSetB32(k) == [v |-> k % N, overflow |-> k >= N]
ValidSeckey(k) == LET sec == ScalarSetB32(k) IN ~sec.overflow /\ sec.v # 0
ScalarInverse(s) ==
  LET to[j \in 0 .. N - 2] ==
        IF j = 0 THEN 1
        ELSE LET root == to[j \div 2] IN (root * root * (IF j % 2 = 1 THEN s ELSE 1)) % N
  IN  to[N - 2]

-----------------------------------------------------------------------------
(* eckey_impl.h                                                              *)
EckeyPubkeyParse(in) ==
  LET x == FeSetB32(in.x)
      y == FeSetB32(in.y)
      elem == Ge(x.fe, y.fe)
      root == GeSetXoVar(x.fe, in.tag = 3)
      refused == [ok |-> FALSE, ge |-> elem]
  IN  CASE in.size = 33 /\ in.tag \in {2, 3} -> IF x.ok THEN root ELSE refused
        [] in.size = 65 /\ in.tag \in {4, 6, 7} ->
             [ok |-> /\ x.ok /\ y.ok
                     /\ in.tag \in {6, 7} => FeIsOdd(y.fe) = (in.tag = 7)
                     /\ GeIsValidVar(elem),
              ge |-> elem]
        [] OTHER -> refused
EckeyPubkeySerialize(elem, compressed) ==
  LET x == FeGetB32(FeNormalizeVar(elem.x))
      y == FeNormalizeVar(elem.y)
  IN  IF compressed THEN [size |-> 33, tag |-> IF FeIsOdd(y) THEN 3 ELSE 2, x |-> x, y |-> 0]
                    ELSE [size |-> 65, tag |-> 4, x |-> x, y |-> FeGetB32(y)]

EckeyPrivkeyTweakAdd(sec, tweak) ==
  LET sum == (sec + tweak) % N IN [ok |-> sum # 0, sec |-> sum]
Finite(pt) == [ok |-> ~pt.infinity, ge |-> GeSetGejVar(pt)]
EckeyPubkeyTweakAdd(preG, ge, tweak) == Finite(SecpEcmult(preG, GejSetGe(ge), 1, tweak))
EckeyPrivkeyTweakMul(sec, tweak) ==
  IF tweak = 0 THEN [ok |-> FALSE, sec |-> sec] ELSE [ok |-> TRUE, sec |-> (sec * tweak) % N]
EckeyPubkeyTweakMul(preG, ge, tweak) ==
  IF tweak = 0 THEN [ok |-> FALSE, ge |-> ge]
  ELSE [ok |-> TRUE, ge |-> GeSetGej(SecpEcmult(preG, GejSetGe(ge), tweak, 0))]

-----------------------------------------------------------------------------
(* ecdsa_impl.h                                                              *)
OrderAsFe == Fe(N)
PMinusOrder == Fe(P - N)

(* Mutant: an x coordinate above the order is not considered.                  *)
XIsBelowOrder(xr, pr) == ~pr.infinity /\ GejEqXVar(xr, pr)
XIs(xr, pr) ==
  /\ ~pr.infinity
  /\ \/ GejEqXVar(xr, pr)
     \/ FeCmpVar(xr, PMinusOrder) < 0 /\ GejEqXVar(FeAdd(xr, OrderAsFe), pr)
EcdsaSigVerify(preG, r, s, pubkey, message) ==
  LET sn == ScalarInverse(s)
  IN  /\ r # 0 /\ s # 0
      /\ XIs(FeSetB32(r).fe, SecpEcmult(preG, GejSetGe(pubkey), (sn * r) % N, (sn * message) % N))

(* Mutant: recid is not turned over when s is.                                *)
SignatureKeepsRecid(sigr, odd, sigs) ==
  [ok |-> sigs # 0,
   r |-> sigr.v,
   s |-> IF ScalarIsHigh(sigs) THEN ScalarNegate(sigs) ELSE sigs,
   recid |-> (IF sigr.overflow THEN 2 ELSE 0) + (IF odd THEN 1 ELSE 0)]
(* The larger of s and -s is never given out; recid then names the other y.   *)
Signature(sigr, odd, sigs) ==
  LET high == ScalarIsHigh(sigs)
  IN  [ok |-> sigs # 0,
       r |-> sigr.v,
       s |-> IF high THEN ScalarNegate(sigs) ELSE sigs,
       recid |-> (IF sigr.overflow THEN 2 ELSE 0) + (IF high # odd THEN 1 ELSE 0)]
SignWith(rp, seckey, message, nonce) ==
  LET sigr == ScalarSetB32(FeGetB32(FeNormalize(rp.x)))
  IN  Signature(sigr, FeIsOdd(FeNormalize(rp.y)),
                (ScalarInverse(nonce) * ((sigr.v * seckey + message) % N)) % N)
EcdsaSigSign(gen, seckey, message, nonce) ==
  SignWith(GeSetGej(EcmultGen(gen, nonce)), seckey, message, nonce)

(* The loop of ecdsa_sign and ecdsa_sign_recoverable: nonces[i] is what the   *)
(* nonce function gives for count i - 1, and it fails when there is no more.  *)
EcdsaSignLoop(gen, seckey, message, nonces) ==
  LET good == {i \in DOMAIN nonces : /\ ValidSeckey(nonces[i])
                                     /\ EcdsaSigSign(gen, seckey, message, nonces[i]).ok}
  IN  IF good = {} THEN [ok |-> FALSE, r |-> 0, s |-> 0, recid |-> 0]
      ELSE EcdsaSigSign(gen, seckey, message, nonces[Min(good)])

(* recovery/main_impl.h                                                      *)
EcdsaSigRecover(preG, r, s, message, recid) ==
  LET fr == FeSetB32(r).fe
      fx == IF recid >= 2 THEN FeAdd(fr, OrderAsFe) ELSE fr
      x == GeSetXoVar(fx, recid % 2 = 1)
      rn == ScalarInverse(r)
  IN  IF /\ r # 0 /\ s # 0
         /\ recid >= 2 => FeCmpVar(fr, PMinusOrder) < 0
         /\ x.ok
      THEN Finite(SecpEcmult(preG, GejSetGe(x.ge), (rn * s) % N, ScalarNegate((rn * message) % N)))
      ELSE [ok |-> FALSE, ge |-> GeInfinity]

-----------------------------------------------------------------------------
(* secp256k1.c: a public key is kept as the storage of its point, and one     *)
(* that was not set, or cleared by a failed call, has x = 0.                  *)
ZeroPubkey == [x |-> 0, y |-> 0]
PubkeyLoad(pk) == LET ge == GeFromStorage(pk) IN [ok |-> ~FeIsZero(ge.x), ge |-> ge]
PubkeySave(ge) == GeToStorage(ge)
=============================================================================
