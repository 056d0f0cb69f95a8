----------------------------- MODULE Secp256k1 -----------------------------
(* The library's interface, secp256k1.c with the recovery and ecdh modules    *)
(* and ext.h: an application with a context, a secret key, a public key, a    *)
(* signature and a recoverable signature, and every call it may make on them. *)
(* Pointers are never NULL.  The illegal callback returns, as it does when an *)
(* application sets one that counts; the node's own callback panics.          *)
EXTENDS Ecdsa

CONSTANTS
  Seeds,          (* what randomizing draws: pairs of a scale and a blind     *)
  Keys,           (* strings the application uses as secret keys              *)
  Tweaks, Messages, Scalars,  (* strings given as tweaks, messages, scalars   *)
  NonceLists,     (* nonce functions: what they give for count 0, 1, ...      *)
  PeerLists,      (* lists of keys of others, to combine                      *)
  PubkeyInputs,   (* serialized public keys                                   *)
  SigInputs,      (* compact signatures with a recovery id                    *)
  MaxApiCalls     (* bound on the number of calls                             *)

VARIABLES ctx,     (* the context, NoContext when there is none               *)
          key, pub, sig, rsig,     (* the application's objects               *)
          call, ok, illegal, out,  (* the last call: its name, its result,    *)
                                   (* whether the callback ran, its output    *)
          madeFor,                 (* the key and message sig was made for    *)
          apiCalls
secpVars == <<ctx, key, pub, sig, rsig, call, ok, illegal, out, madeFor, apiCalls>>

-----------------------------------------------------------------------------
(* Contexts: gen and preG are the contexts of ecmult_gen and ecmult, with an  *)
(* empty table until they are built.                                          *)
NoGen == [prec |-> <<>>, initial |-> GejInfinity, blind |-> 0]
NoContext == [exists |-> FALSE, gen |-> NoGen, preG |-> <<>>]
GenIsBuilt == ctx.gen.prec # <<>>
EcmultIsBuilt == ctx.preG # <<>>
(* The build blinds without a seed, from the state it has just set.           *)
GenContext(seed) ==
  EcmultGenBlind([NoGen EXCEPT !.prec = Prec], FALSE, seed[1], seed[2])
Created(sign, verify, seed) ==
  [exists |-> TRUE, gen |-> IF sign THEN GenContext(seed) ELSE NoGen,
   preG |-> IF verify THEN PreG ELSE <<>>]

Unsigned == [key |-> 0, msg |-> 0]
NoSig == [r |-> 0, s |-> 0]
NoRsig == [r |-> 0, s |-> 0, recid |-> 0]
SecpInit == /\ ctx \in {Created(sign, verify, seed) :
                          sign \in BOOLEAN, verify \in BOOLEAN, seed \in Seeds} \cup {NoContext}
            /\ key \in Keys
            /\ pub = ZeroPubkey /\ sig = NoSig /\ rsig = NoRsig
            /\ call = "none" /\ ok = TRUE /\ illegal = FALSE /\ out = 0
            /\ madeFor = Unsigned
            /\ apiCalls = 0

Call(name) == call' = name /\ apiCalls < MaxApiCalls /\ apiCalls' = apiCalls + 1
OnContext(name) == ctx.exists /\ Call(name) /\ UNCHANGED ctx
(* A call that changes no object ends a sequence of calls: what can follow it *)
(* can also follow without it.                                                *)
Query(name) == /\ ctx.exists
               /\ call' = name
               /\ apiCalls <= MaxApiCalls /\ apiCalls' = MaxApiCalls + 1
               /\ UNCHANGED <<ctx, key, pub, sig, rsig, madeFor>>
Gives(result, value) == ok' = result /\ out' = value /\ illegal' = FALSE
(* ARG_CHECK: the callback runs and the function returns 0.                   *)
Refused == ok' = FALSE /\ out' = 0 /\ illegal' = TRUE
OnlyPub == UNCHANGED <<key, sig, rsig, madeFor>>
OnlyKey == UNCHANGED <<pub, sig, rsig, madeFor>>
OnlyRsig == UNCHANGED <<key, pub, sig, madeFor>>
OnlySig == UNCHANGED <<key, pub, rsig>>
NoObject == UNCHANGED <<key, pub, sig, rsig, madeFor>>

(* The public key is the point that was found, and cleared when none was.     *)
GivesPub(found) == /\ pub' = IF found.ok THEN PubkeySave(found.ge) ELSE ZeroPubkey
                   /\ Gives(found.ok, 0)

ContextCreate(sign, verify, seed) ==
  /\ ~ctx.exists
  /\ Call("context_create")
  /\ ctx' = Created(sign, verify, seed)
  /\ Gives(TRUE, 0)
  /\ NoObject
(* The application goes on with the copy and destroys the original.           *)
ContextClone ==
  LET src == ctx.gen
      dst == IF GenIsBuilt THEN [prec |-> src.prec, initial |-> src.initial, blind |-> src.blind]
             ELSE NoGen
  IN  /\ ctx.exists
      /\ Call("context_clone")
      /\ ctx' = [exists |-> TRUE, gen |-> dst, preG |-> ctx.preG]
      /\ Gives(TRUE, 0)
      /\ NoObject
ContextDestroy == /\ Call("context_destroy")
                  /\ ctx' = NoContext
                  /\ Gives(TRUE, 0)
                  /\ NoObject
ContextRandomize(seeded, seed) ==
  /\ ctx.exists
  /\ Call("context_randomize")
  /\ IF GenIsBuilt
     THEN /\ ctx' = [ctx EXCEPT !.gen = EcmultGenBlind(@, seeded, seed[1], seed[2])]
          /\ Gives(TRUE, 0)
     ELSE Refused /\ UNCHANGED ctx
  /\ NoObject

-----------------------------------------------------------------------------
EcSeckeyVerify == /\ Query("ec_seckey_verify")
                  /\ Gives(ValidSeckey(key), 0)
EcPubkeyCreate ==
  /\ OnContext("ec_pubkey_create")
  /\ pub' = IF GenIsBuilt /\ ValidSeckey(key)
            THEN PubkeySave(GeSetGej(EcmultGen(ctx.gen, key))) ELSE ZeroPubkey
  /\ IF GenIsBuilt THEN Gives(ValidSeckey(key), 0) ELSE Refused
  /\ OnlyPub
(* The key is cleared first and written back when all went well.              *)
EcPrivkeyTweakAdd(t) ==
  LET term == ScalarSetB32(t)
      sec == EckeyPrivkeyTweakAdd(ScalarSetB32(key).v, term.v)
      good == ~term.overflow /\ sec.ok
  IN  /\ OnContext("ec_privkey_tweak_add")
      /\ key' = IF good THEN sec.sec ELSE 0
      /\ Gives(good, 0)
      /\ OnlyKey
EcPrivkeyTweakMul(t) ==
  LET factor == ScalarSetB32(t)
      sec == EckeyPrivkeyTweakMul(ScalarSetB32(key).v, factor.v)
      good == ~factor.overflow /\ sec.ok
  IN  /\ OnContext("ec_privkey_tweak_mul")
      /\ key' = IF good THEN sec.sec ELSE 0
      /\ Gives(good, 0)
      /\ OnlyKey
(* An overflow is seen before the key is loaded; a key that cannot be loaded  *)
(* makes load call the callback.  Either way the public key is cleared.       *)
EcPubkeyTweakAdd(t) ==
  LET term == ScalarSetB32(t)
      load == PubkeyLoad(pub)
  IN  /\ OnContext("ec_pubkey_tweak_add")
      /\ IF ~EcmultIsBuilt THEN Refused /\ UNCHANGED pub
         ELSE IF term.overflow THEN pub' = ZeroPubkey /\ Gives(FALSE, 0)
         ELSE IF ~load.ok THEN pub' = ZeroPubkey /\ Refused
         ELSE \E tweaked \in {EckeyPubkeyTweakAdd(ctx.preG, load.ge, term.v)} : GivesPub(tweaked)
      /\ OnlyPub
EcPubkeyTweakMul(t) ==
  LET factor == ScalarSetB32(t)
      load == PubkeyLoad(pub)
  IN  /\ OnContext("ec_pubkey_tweak_mul")
      /\ IF ~EcmultIsBuilt THEN Refused /\ UNCHANGED pub
         ELSE IF factor.overflow THEN pub' = ZeroPubkey /\ Gives(FALSE, 0)
         ELSE IF ~load.ok THEN pub' = ZeroPubkey /\ Refused
         ELSE \E tweaked \in {EckeyPubkeyTweakMul(ctx.preG, load.ge, factor.v)} : GivesPub(tweaked)
      /\ OnlyPub
(* The sum of the peers' keys, none of which was cleared.                     *)
EcPubkeyCombine(peers) ==
  LET stored(k) == [x |-> Multiple(k)[1], y |-> Multiple(k)[2]]
      Qj[i \in 0 .. Len(peers)] ==
        IF i = 0 THEN GejInfinity ELSE GejAddGe(Qj[i - 1], PubkeyLoad(stored(peers[i])).ge)
  IN  /\ OnContext("ec_pubkey_combine")
      /\ IF peers = <<>> THEN pub' = ZeroPubkey /\ Refused
         ELSE \E sum \in {Finite(Qj[Len(peers)])} : GivesPub(sum)
      /\ OnlyPub
EcPubkeyParse(in) ==
  /\ OnContext("ec_pubkey_parse")
  /\ \E parsed \in {EckeyPubkeyParse(in)} : GivesPub(parsed)
  /\ OnlyPub
(* ARG_CHECK: the output has room, and the flags name a format.               *)
EcPubkeySerialize(compressed, legal) ==
  LET load == PubkeyLoad(pub)
  IN  /\ Query("ec_pubkey_serialize")
      /\ IF legal /\ load.ok THEN Gives(TRUE, EckeyPubkeySerialize(load.ge, compressed)) ELSE Refused

-----------------------------------------------------------------------------
(* A signature object that was not made by signing has no key and message.    *)
Signed(m, nonces) ==
  IF ValidSeckey(key) THEN EcdsaSignLoop(ctx.gen, key, ScalarSetB32(m).v, nonces)
  ELSE [ok |-> FALSE, r |-> 0, s |-> 0, recid |-> 0]
EcdsaSign(m, nonces) ==
  /\ OnContext("ecdsa_sign")
  /\ IF ~GenIsBuilt THEN Refused /\ UNCHANGED <<sig, madeFor>>
     ELSE \E made \in {Signed(m, nonces)} :
            /\ sig' = [r |-> made.r, s |-> made.s]
            /\ madeFor' = IF made.ok THEN [key |-> key, msg |-> m] ELSE Unsigned
            /\ Gives(made.ok, 0)
  /\ OnlySig
EcdsaSignRecoverable(m, nonces) ==
  /\ OnContext("ecdsa_sign_recoverable")
  /\ IF ~GenIsBuilt THEN Refused /\ UNCHANGED rsig
     ELSE \E made \in {Signed(m, nonces)} :
            /\ rsig' = [r |-> made.r, s |-> made.s, recid |-> made.recid]
            /\ Gives(made.ok, 0)
  /\ OnlyRsig
(* A high s is refused before the public key is looked at.                    *)
EcdsaVerify(m) ==
  LET load == PubkeyLoad(pub)
  IN  /\ Query("ecdsa_verify")
      /\ IF ~EcmultIsBuilt \/ (~ScalarIsHigh(sig.s) /\ ~load.ok) THEN Refused
         ELSE Gives(/\ ~ScalarIsHigh(sig.s)
                    /\ EcdsaSigVerify(ctx.preG, sig.r, sig.s, load.ge, ScalarSetB32(m).v), 0)
EcdsaRecover(m) ==
  /\ OnContext("ecdsa_recover")
  /\ IF ~EcmultIsBuilt THEN Refused /\ UNCHANGED pub
     ELSE \E q \in {EcdsaSigRecover(ctx.preG, rsig.r, rsig.s, ScalarSetB32(m).v, rsig.recid)} : GivesPub(q)
  /\ OnlyPub

(* What the two parsers of compact signatures have in common.                 *)
Overflows(g) == ScalarSetB32(g.r).overflow \/ ScalarSetB32(g.s).overflow
EcdsaSignatureParseCompact(g) ==
  /\ OnContext("ecdsa_signature_parse_compact")
  /\ sig' = IF Overflows(g) THEN NoSig ELSE [r |-> g.r, s |-> g.s]
  /\ madeFor' = Unsigned
  /\ Gives(~Overflows(g), 0)
  /\ OnlySig
EcdsaRecoverableSignatureParseCompact(g) ==
  /\ OnContext("ecdsa_recoverable_signature_parse_compact")
  /\ IF g.recid \notin 0 .. 3 THEN Refused /\ UNCHANGED rsig
     ELSE rsig' = (IF Overflows(g) THEN NoRsig ELSE g) /\ Gives(~Overflows(g), 0)
  /\ OnlyRsig
EcdsaSignatureSerializeCompact ==
  /\ Query("ecdsa_signature_serialize_compact")
  /\ Gives(TRUE, sig)
EcdsaRecoverableSignatureSerializeCompact ==
  /\ Query("ecdsa_recoverable_signature_serialize_compact")
  /\ Gives(TRUE, rsig)
EcdsaRecoverableSignatureConvert ==
  /\ OnContext("ecdsa_recoverable_signature_convert")
  /\ sig' = [r |-> rsig.r, s |-> rsig.s]
  /\ madeFor' = Unsigned
  /\ Gives(TRUE, 0)
  /\ OnlySig
(* In place: sigout is sigin.                                                 *)
EcdsaSignatureNormalize ==
  LET high == ScalarIsHigh(sig.s)
  IN  /\ OnContext("ecdsa_signature_normalize")
      /\ sig' = IF high THEN [sig EXCEPT !.s = ScalarNegate(@)] ELSE sig
      /\ Gives(high, 0)
      /\ OnlySig /\ UNCHANGED madeFor

-----------------------------------------------------------------------------
(* The secret is a hash of the product in compressed form; the model names it *)
(* by what is hashed.  The caller's public key was not cleared.               *)
Ecdh(k) ==
  LET s == ScalarSetB32(k)
      load == PubkeyLoad(pub)
      pt == GeSetGej(EcmultConst(load.ge, s.v))
  IN  /\ Query("ecdh")
      /\ load.ok
      /\ IF s.overflow \/ s.v = 0 THEN Gives(FALSE, 0)
         ELSE Gives(TRUE, EckeyPubkeySerialize(pt, TRUE))

(* ext.h.  Its context can sign and verify.                                   *)
ExtEcdsaRecover(g, m) ==
  /\ Query("ext_ecdsa_recover")
  /\ EcmultIsBuilt
  /\ IF g.recid \notin 0 .. 3 THEN Refused
     ELSE IF Overflows(g) THEN Gives(FALSE, 0)
     ELSE \E q \in {EcdsaSigRecover(ctx.preG, g.r, g.s, ScalarSetB32(m).v, g.recid)} :
            IF ~q.ok THEN Gives(FALSE, 0)
            ELSE Gives(TRUE, EckeyPubkeySerialize(PubkeyLoad(PubkeySave(q.ge)).ge, FALSE))
ExtEcdsaVerify(g, m, in) ==
  /\ Query("ext_ecdsa_verify")
  /\ EcmultIsBuilt
  /\ \E parsed \in {EckeyPubkeyParse(in)} :
       Gives(/\ ~Overflows(g)
             /\ parsed.ok
             /\ ~ScalarIsHigh(g.s)
             /\ EcdsaSigVerify(ctx.preG, g.r, g.s, PubkeyLoad(PubkeySave(parsed.ge)).ge,
                               ScalarSetB32(m).v), 0)
ExtReencodePubkey(in, compressed) ==
  /\ Query("ext_reencode_pubkey")
  /\ \E parsed \in {EckeyPubkeyParse(in)} :
       IF parsed.ok
       THEN Gives(TRUE, EckeyPubkeySerialize(PubkeyLoad(PubkeySave(parsed.ge)).ge, compressed))
       ELSE Gives(FALSE, 0)
(* The point is given by its coordinates, here those of the public key.       *)
ExtScalarMul(k) ==
  LET s == ScalarSetB32(k)
      ge == Ge(FeSetB32(pub.x).fe, FeSetB32(pub.y).fe)
      res == GeSetGej(EcmultConst(ge, s.v))
  IN  /\ Query("ext_scalar_mul")
      /\ pub # ZeroPubkey
      /\ IF s.overflow \/ s.v = 0 THEN Gives(FALSE, 0)
         ELSE Gives(TRUE, EckeyPubkeySerialize(res, FALSE))

(* The public key as the application may have sent it before.                 *)
Serialized == LET load == PubkeyLoad(pub)
              IN  IF load.ok THEN {EckeyPubkeySerialize(load.ge, c) : c \in BOOLEAN} ELSE {}

ContextNext ==
  \/ \E sign \in BOOLEAN, verify \in BOOLEAN, seed \in Seeds : ContextCreate(sign, verify, seed)
  \/ ContextClone
  \/ ContextDestroy
  \/ \E seeded \in BOOLEAN, seed \in Seeds : ContextRandomize(seeded, seed)
KeyNext ==
  \/ EcSeckeyVerify
  \/ EcPubkeyCreate
  \/ \E t \in Tweaks : \/ EcPrivkeyTweakAdd(t) \/ EcPrivkeyTweakMul(t)
                       \/ EcPubkeyTweakAdd(t) \/ EcPubkeyTweakMul(t)
  \/ \E peers \in PeerLists : EcPubkeyCombine(peers)
  \/ \E in \in PubkeyInputs : EcPubkeyParse(in)
  \/ \E compressed, legal \in BOOLEAN : EcPubkeySerialize(compressed, legal)
SignatureNext ==
  \/ \E m \in Messages, nonces \in NonceLists : \/ EcdsaSign(m, nonces)
                                                \/ EcdsaSignRecoverable(m, nonces)
  \/ \E m \in Messages : EcdsaVerify(m) \/ EcdsaRecover(m)
  \/ \E g \in SigInputs : \/ EcdsaSignatureParseCompact(g)
                          \/ EcdsaRecoverableSignatureParseCompact(g)
  \/ EcdsaSignatureSerializeCompact
  \/ EcdsaRecoverableSignatureSerializeCompact
  \/ EcdsaRecoverableSignatureConvert
  \/ EcdsaSignatureNormalize
ExtNext ==
  \/ \E k \in Scalars : Ecdh(k) \/ ExtScalarMul(k)
  \/ \E g \in SigInputs \cup {rsig}, m \in Messages : ExtEcdsaRecover(g, m)
  \/ \E g \in SigInputs \cup {sig}, m \in Messages, in \in Serialized : ExtEcdsaVerify(g, m, in)
  \/ \E in \in PubkeyInputs \cup Serialized, compressed \in BOOLEAN : ExtReencodePubkey(in, compressed)
SecpNext == ContextNext \/ KeyNext \/ SignatureNext \/ ExtNext
SecpSpec == SecpInit /\ [][SecpNext]_secpVars

-----------------------------------------------------------------------------
(* The ideal group: a public key stands for its multiple of the generator.    *)
LogOfPubkey(pk) ==
  IF pk = ZeroPubkey THEN 0
  ELSE IF \E k \in 1 .. N - 1 : Multiple(k) = <<pk.x, pk.y>> THEN LogOf(<<pk.x, pk.y>>) ELSE N
Capabilities ==
  {c \in {"context", "sign", "verify"} :
     ctx.exists /\ (c = "sign" => GenIsBuilt) /\ (c = "verify" => EcmultIsBuilt)}
XOfMultiples == [k \in 1 .. N - 1 |-> Multiple(k)[1]]
YOfMultiples == [k \in 1 .. N - 1 |-> Multiple(k)[2]]
Ideal == INSTANCE IdealEcdsa WITH
  caps <- Capabilities, pub <- LogOfPubkey(pub),
  X <- XOfMultiples, Y <- YOfMultiples

(* Every call of secp256k1.c, of its modules and of ext.h does what           *)
(* include/secp256k1.h promises over the ideal group, with every blinding of  *)
(* the context and after every sequence of calls: tweaks of secret and        *)
(* public keys agree, signatures recover to the key that made them, a         *)
(* verdict is the ECDSA equation, failed calls clear their outputs.           *)
RefinesIdealEcdsa == Ideal!IdealSpec

(* A signature made by ecdsa_sign has a low s and passes the equation of      *)
(* ecdsa_sig_verify for the key and message it was made for, whatever calls   *)
(* came before and after, normalizing included.                              *)
SignaturesVerify ==
  madeFor # Unsigned =>
    LET Q == Multiple(madeFor.key)
    IN  /\ ~ScalarIsHigh(sig.s)
        /\ EcdsaSigVerify(PreG, sig.r, sig.s, Ge(Fe(Q[1]), Fe(Q[2])),
                          ScalarSetB32(madeFor.msg).v)
=============================================================================
