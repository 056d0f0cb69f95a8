----------------------------- MODULE IdealEcdsa -----------------------------
(* What include/secp256k1.h promises of keys, signatures and shared secrets,  *)
(* over an ideal group: a public key is the number of its secret key, 0 for   *)
(* an object that was cleared, and multiplying is multiplying numbers modulo  *)
(* N.  Of the curve only X[k] and Y[k] are left, the coordinates of k * G.    *)
EXTENDS Integers, Sequences, TLC

CONSTANTS N, X, Y,
          Tweaks, Messages, NonceLists, PeerLists, PubkeyInputs, SigInputs, Scalars,
          MaxApiCalls

VARIABLES caps,    (* what the context can do, {} when there is none         *)
          key,     (* a secret key, any string                               *)
          pub,     (* a public key object                                    *)
          sig,     (* a signature object                                     *)
          rsig,    (* a recoverable signature object                         *)
          call, ok, illegal, out,  (* the last call and what it gave         *)
          apiCalls
idealVars == <<caps, key, pub, sig, rsig, call, ok, illegal, out, apiCalls>>

Points == 1 .. N - 1
Odd(k) == Y[k] % 2 = 1
Low(s) == s <= N \div 2
Inverse(s) == CHOOSE t \in Points : (s * t) % N = 1
NoSig == [r |-> 0, s |-> 0]
NoRsig == [r |-> 0, s |-> 0, recid |-> 0]

(* s * R = m * G + r * Q, and the x coordinate of R is r modulo N.            *)
Verifies(g, m, k) ==
  /\ g.r # 0 /\ g.s # 0 /\ Low(g.s) /\ k # 0
  /\ LET R == (Inverse(g.s) * (m + g.r * k)) % N IN R # 0 /\ X[R] % N = g.r
(* The key that a recoverable signature names, 0 when there is none.          *)
Recovered(g, m) ==
  LET nonces == {k \in Points : /\ X[k] = g.r + (IF g.recid >= 2 THEN N ELSE 0)
                                /\ Odd(k) = (g.recid % 2 = 1)}
  IN  IF g.r = 0 \/ g.s = 0 \/ nonces = {} THEN 0
      ELSE (Inverse(g.r) * (g.s * (CHOOSE k \in nonces : TRUE) - m)) % N
(* A nonce is taken when it is a scalar that does not give s = 0.             *)
Usable(nonce, m) == nonce \in Points /\ (m + X[nonce] * key) % N # 0

(* Compressed, uncompressed and hybrid encodings of a point.                  *)
Compressed(k) == [size |-> 33, tag |-> IF Odd(k) THEN 3 ELSE 2, x |-> X[k], y |-> 0]
Uncompressed(k) == [size |-> 65, tag |-> 4, x |-> X[k], y |-> Y[k]]
Encodings(k) == {Compressed(k), Uncompressed(k),
                 [Uncompressed(k) EXCEPT !.tag = IF Odd(k) THEN 7 ELSE 6]}
Decoded(in) == LET ks == {k \in Points : in \in Encodings(k)}
               IN  IF ks = {} THEN 0 ELSE CHOOSE k \in ks : TRUE

-----------------------------------------------------------------------------
Gives(result, value) == ok' = result /\ out' = value /\ illegal' = FALSE
(* An argument that may not be: the callback is called, the result is 0.      *)
Refused == ok' = FALSE /\ out' = 0 /\ illegal' = TRUE
Call(name) == /\ call' = name
              /\ apiCalls < MaxApiCalls
              /\ apiCalls' = apiCalls + 1
OnContext(name) == Call(name) /\ caps # {} /\ UNCHANGED caps
Query(name) == /\ call' = name
               /\ caps # {}
               /\ apiCalls <= MaxApiCalls /\ apiCalls' = MaxApiCalls + 1
               /\ UNCHANGED <<caps, key, pub, sig, rsig>>

(* No object depends on a context or on its blinding.                         *)
Context ==
  /\ \/ Call("context_create") /\ caps = {} /\ "context" \in caps'
     \/ Call("context_destroy") /\ caps' = {}
     \/ OnContext("context_clone")
  /\ Gives(TRUE, 0)
  /\ UNCHANGED <<key, pub, sig, rsig>>
Randomize == /\ OnContext("context_randomize")
             /\ IF "sign" \in caps THEN Gives(TRUE, 0) ELSE Refused
             /\ UNCHANGED <<key, pub, sig, rsig>>

SeckeyVerify == /\ Query("ec_seckey_verify")
                /\ Gives(key \in Points, 0)
PubkeyCreate == /\ OnContext("ec_pubkey_create")
                /\ pub' = IF "sign" \in caps /\ key \in Points THEN key ELSE 0
                /\ IF "sign" \in caps THEN Gives(key \in Points, 0) ELSE Refused
                /\ UNCHANGED <<key, sig, rsig>>

(* A tweak that is out of range or gives zero clears the key.                 *)
PrivkeyTweakAdd(t) == /\ OnContext("ec_privkey_tweak_add")
                      /\ key' = IF t < N THEN (key + t) % N ELSE 0
                      /\ Gives(key' # 0, 0)
                      /\ UNCHANGED <<pub, sig, rsig>>
PrivkeyTweakMul(t) == /\ OnContext("ec_privkey_tweak_mul")
                      /\ key' = IF t < N THEN (key * t) % N ELSE 0
                      /\ Gives(t \in Points, 0)
                      /\ UNCHANGED <<pub, sig, rsig>>
(* The same on public keys, which need a context for verification.  One that  *)
(* was cleared is refused.                                                    *)
TweakPubkey(t, tweaked) ==
  /\ pub' = IF "verify" \notin caps THEN pub ELSE IF t < N THEN tweaked ELSE 0
  /\ IF "verify" \in caps /\ (t < N => pub # 0) THEN Gives(pub' # 0, 0) ELSE Refused
  /\ UNCHANGED <<key, sig, rsig>>
PubkeyTweakAdd(t) == /\ OnContext("ec_pubkey_tweak_add")
                     /\ TweakPubkey(t, IF pub = 0 THEN 0 ELSE (pub + t) % N)
PubkeyTweakMul(t) == OnContext("ec_pubkey_tweak_mul") /\ TweakPubkey(t, (pub * t) % N)
PubkeyCombine(peers) ==
  LET total[i \in 0 .. Len(peers)] == IF i = 0 THEN 0 ELSE (total[i - 1] + peers[i]) % N
  IN  /\ OnContext("ec_pubkey_combine")
      /\ pub' = total[Len(peers)]
      /\ IF peers = <<>> THEN Refused ELSE Gives(pub' # 0, 0)
      /\ UNCHANGED <<key, sig, rsig>>
PubkeyParse(in) == /\ OnContext("ec_pubkey_parse")
                   /\ pub' = Decoded(in)
                   /\ Gives(pub' # 0, 0)
                   /\ UNCHANGED <<key, sig, rsig>>
PubkeySerialize(compressed, legal) ==
  /\ Query("ec_pubkey_serialize")
  /\ IF ~legal \/ pub = 0 THEN Refused
     ELSE Gives(TRUE, IF compressed THEN Compressed(pub) ELSE Uncompressed(pub))

(* A signature is made exactly when the key is valid and the nonce function   *)
(* comes to a usable nonce, and then it recovers to the key.                  *)
CanSign(m, nonces) == key \in Points /\ \E i \in DOMAIN nonces : Usable(nonces[i], m)
Genuine(g, m) == g.s \in Points /\ Low(g.s) /\ g.recid \in 0 .. 3 /\ Recovered(g, m) = key
SignRecoverable(m, nonces) ==
  /\ OnContext("ecdsa_sign_recoverable")
  /\ IF "sign" \notin caps THEN Refused /\ UNCHANGED rsig
     ELSE /\ Gives(CanSign(m, nonces), 0)
          /\ IF ok' THEN Genuine(rsig', m) ELSE rsig' = NoRsig
  /\ UNCHANGED <<key, pub, sig>>
Sign(m, nonces) ==
  /\ OnContext("ecdsa_sign")
  /\ IF "sign" \notin caps THEN Refused /\ UNCHANGED sig
     ELSE /\ Gives(CanSign(m, nonces), 0)
          /\ IF ok' THEN \E recid \in 0 .. 3 : Genuine(sig' @@ [recid |-> recid], m)
             ELSE sig' = NoSig
  /\ UNCHANGED <<key, pub, rsig>>
Verify(m) == /\ Query("ecdsa_verify")
             /\ IF "verify" \notin caps \/ (Low(sig.s) /\ pub = 0) THEN Refused
                ELSE Gives(Verifies(sig, m, pub), 0)
Recover(m) == /\ OnContext("ecdsa_recover")
              /\ IF "verify" \notin caps THEN Refused /\ UNCHANGED pub
                 ELSE pub' = Recovered(rsig, m) /\ Gives(pub' # 0, 0)
              /\ UNCHANGED <<key, sig, rsig>>

(* Parsing refuses scalars that are not below N, and clears the object.       *)
InRange(g) == g.r < N /\ g.s < N
ParseCompact(g) == /\ OnContext("ecdsa_signature_parse_compact")
                   /\ sig' = IF InRange(g) THEN [r |-> g.r, s |-> g.s] ELSE NoSig
                   /\ Gives(InRange(g), 0)
                   /\ UNCHANGED <<key, pub, rsig>>
ParseRecoverable(g) ==
  /\ OnContext("ecdsa_recoverable_signature_parse_compact")
  /\ IF g.recid \notin 0 .. 3 THEN Refused /\ UNCHANGED rsig
     ELSE rsig' = (IF InRange(g) THEN g ELSE NoRsig) /\ Gives(InRange(g), 0)
  /\ UNCHANGED <<key, pub, sig>>
SerializeCompact == /\ Query("ecdsa_signature_serialize_compact")
                    /\ Gives(TRUE, sig)
SerializeRecoverable == /\ Query("ecdsa_recoverable_signature_serialize_compact")
                        /\ Gives(TRUE, rsig)
Convert == /\ OnContext("ecdsa_recoverable_signature_convert")
           /\ sig' = [r |-> rsig.r, s |-> rsig.s]
           /\ Gives(TRUE, 0)
           /\ UNCHANGED <<key, pub, rsig>>
Normalize == /\ OnContext("ecdsa_signature_normalize")
             /\ sig' = IF Low(sig.s) THEN sig ELSE [sig EXCEPT !.s = N - sig.s]
             /\ Gives(~Low(sig.s), 0)
             /\ UNCHANGED <<key, pub, rsig>>

(* A shared secret depends on the product of the two secret keys only.        *)
Ecdh(k) == /\ Query("ecdh")
           /\ pub # 0
           /\ IF k \in Points THEN Gives(TRUE, Compressed((k * pub) % N)) ELSE Gives(FALSE, 0)

(* ext.h: the same on encoded objects.  Its context can sign and verify.      *)
ExtRecover(g, m) == /\ Query("ext_ecdsa_recover") /\ "verify" \in caps
                    /\ IF g.recid \notin 0 .. 3 THEN Refused
                       ELSE LET k == IF InRange(g) THEN Recovered(g, m) ELSE 0
                            IN  Gives(k # 0, IF k = 0 THEN 0 ELSE Uncompressed(k))
ExtVerify(g, m, in) == /\ Query("ext_ecdsa_verify") /\ "verify" \in caps
                       /\ Gives(InRange(g) /\ Verifies(g, m, Decoded(in)), 0)
ExtReencode(in, compressed) ==
  LET k == Decoded(in)
  IN  /\ Query("ext_reencode_pubkey")
      /\ Gives(k # 0, IF k = 0 THEN 0 ELSE IF compressed THEN Compressed(k) ELSE Uncompressed(k))
ExtScalarMul(k) ==
  /\ Query("ext_scalar_mul")
  /\ pub # 0
  /\ IF k \in Points THEN Gives(TRUE, Uncompressed((k * pub) % N)) ELSE Gives(FALSE, 0)

Serialized == IF pub = 0 THEN {} ELSE {Compressed(pub), Uncompressed(pub)}

KeyNext ==
  \/ SeckeyVerify \/ PubkeyCreate
  \/ \E t \in Tweaks : \/ PrivkeyTweakAdd(t) \/ PrivkeyTweakMul(t)
                       \/ PubkeyTweakAdd(t) \/ PubkeyTweakMul(t)
  \/ \E peers \in PeerLists : PubkeyCombine(peers)
  \/ \E in \in PubkeyInputs : PubkeyParse(in)
  \/ \E compressed, legal \in BOOLEAN : PubkeySerialize(compressed, legal)
SignatureNext ==
  \/ \E m \in Messages : \/ Verify(m) \/ Recover(m)
                         \/ \E nonces \in NonceLists : Sign(m, nonces) \/ SignRecoverable(m, nonces)
  \/ \E g \in SigInputs : ParseCompact(g) \/ ParseRecoverable(g)
  \/ SerializeCompact \/ SerializeRecoverable \/ Convert \/ Normalize
ExtNext ==
  \/ \E k \in Scalars : Ecdh(k) \/ ExtScalarMul(k)
  \/ \E g \in SigInputs \cup {rsig}, m \in Messages : ExtRecover(g, m)
  \/ \E g \in SigInputs \cup {sig}, m \in Messages, in \in Serialized : ExtVerify(g, m, in)
  \/ \E in \in PubkeyInputs \cup Serialized, compressed \in BOOLEAN : ExtReencode(in, compressed)
IdealNext == Context \/ Randomize \/ KeyNext \/ SignatureNext \/ ExtNext
IdealInit == /\ pub = 0 /\ sig = NoSig /\ rsig = NoRsig
             /\ call = "none" /\ ok = TRUE /\ illegal = FALSE /\ out = 0 /\ apiCalls = 0
IdealSpec == IdealInit /\ [][IdealNext]_idealVars
=============================================================================
