-------------------------------- MODULE Hash --------------------------------
(* hash_impl.h: SHA-256 fed in pieces through a buffer of one block, HMAC on   *)
(* top of it, the generator of RFC 6979 on top of HMAC, and the nonce function *)
(* of secp256k1.c that restarts the generator for every attempt.  The rounds   *)
(* of the transformation are abstract, and blocks and digests are small.       *)
EXTENDS Integers, Sequences, Bitwise

CONSTANTS BlockBytes,        (* 64                                            *)
          DigestBytes,       (* 32                                            *)
          WordBytesBits,     (* bits of one of the two words of the length: 32 *)
          Transform,         (* what the rounds make of a state and a block   *)
          StartState,        (* the state before the first block              *)
          DigestOf,          (* the bytes of a state                          *)
          Leftovers,         (* what the buffer may hold before it is written *)
          PieceSizes,        (* bytes written in one call                     *)
          KeySizes,          (* bytes of an HMAC key                          *)
          OutSizes,          (* bytes asked of the generator in one call      *)
          MaxWritten,        (* bytes written to one hash                     *)
          MaxOutputs         (* calls of one generator                        *)

LengthBytes == 2
Octet == 0 .. 255
Zeros(n) == [i \in 1 .. n |-> 0]

-----------------------------------------------------------------------------
(* [s, buf, bytes]: the state, the block being filled and the bytes written.   *)
Sha256Initialize(left) == [s |-> StartState, buf |-> [i \in 1 .. BlockBytes |-> left], bytes |-> 0]
(* The state after the first n blocks of the stream.                           *)
Transformed(s, stream, n) ==
  LET after[i \in 0 .. n] ==
        IF i = 0 THEN s
        ELSE Transform[after[i - 1], SubSeq(stream, (i - 1) * BlockBytes + 1, i * BlockBytes)]
  IN  after[n]
(* The new buffer: the rest of the stream over what was there, the last block  *)
(* when one was filled.                                                        *)
Buffered(buf, stream, n) ==
  LET rest == SubSeq(stream, n * BlockBytes + 1, Len(stream))
      under == IF n = 0 THEN buf ELSE SubSeq(stream, (n - 1) * BlockBytes + 1, n * BlockBytes)
  IN  rest \o SubSeq(under, Len(rest) + 1, BlockBytes)
WriteStream(hash, stream, len) ==
  [s |-> Transformed(hash.s, stream, Len(stream) \div BlockBytes),
   buf |-> Buffered(hash.buf, stream, Len(stream) \div BlockBytes),
   bytes |-> hash.bytes + len]
Sha256Write(hash, data) ==
  WriteStream(hash, SubSeq(hash.buf, 1, hash.bytes % BlockBytes) \o data, Len(data))
SizeDesc(bytes) == <<(bytes \div 2 ^ (WordBytesBits - 3)) % 2 ^ WordBytesBits, (bytes * 8) % 2 ^ WordBytesBits>>
(* Mutant: no second block when the length does not fit after the message.     *)
Sha256FinalizeOneBlock(hash) ==
  LET room == BlockBytes - LengthBytes - (hash.bytes % BlockBytes)
  IN  DigestOf[Sha256Write(Sha256Write(hash, <<128>> \o Zeros(IF room > 0 THEN room - 1 ELSE 0)),
                           SizeDesc(hash.bytes)).s]
(* 119 is two blocks less the length and the byte that ends the message.       *)
Sha256Finalize(hash) ==
  LET pad == 1 + ((2 * BlockBytes - LengthBytes - 1 - (hash.bytes % BlockBytes)) % BlockBytes)
  IN  DigestOf[Sha256Write(Sha256Write(hash, <<128>> \o Zeros(pad - 1)), SizeDesc(hash.bytes)).s]

XorAll(bytes, mask) == [i \in 1 .. Len(bytes) |-> bytes[i] ^^ mask]
BlockOfKey(left, k) ==
  IF Len(k) <= BlockBytes THEN k \o Zeros(BlockBytes - Len(k))
  ELSE Sha256Finalize(Sha256Write(Sha256Initialize(left), k)) \o Zeros(BlockBytes - DigestBytes)
(* rkey is xored with 0x5c for the outer hash, then with 0x5c ^ 0x36.           *)
KeyedBlock(left, okey) ==
  [outer |-> Sha256Write(Sha256Initialize(left), okey),
   inner |-> Sha256Write(Sha256Initialize(left), XorAll(okey, 92 ^^ 54))]
HmacSha256Initialize(left, k) == KeyedBlock(left, XorAll(BlockOfKey(left, k), 92))
HmacSha256Write(hmac, data) == [hmac EXCEPT !.inner = Sha256Write(@, data)]
HmacSha256Finalize(hmac) == Sha256Finalize(Sha256Write(hmac.outer, Sha256Finalize(hmac.inner)))

(* One keyed hash of up to three pieces, as the generator uses it.             *)
Keyed[left \in Octet, k \in Seq(Octet), pieces \in Seq(Seq(Octet))] ==
  LET fed[i \in 0 .. Len(pieces)] ==
        IF i = 0 THEN HmacSha256Initialize(left, k)
        ELSE LET prev == fed[i - 1] IN HmacSha256Write(prev, pieces[i])
  IN  HmacSha256Finalize(fed[Len(pieces)])
(* A new key from the old one, the value and what else is hashed, and a new   *)
(* value from the new key.                                                     *)
Renewed(left, k, v) == [k |-> k, v |-> Keyed[left, k, <<v>>], retry |-> FALSE]
Updated(left, rng, pieces) == Renewed(left, Keyed[left, rng.k, <<rng.v>> \o pieces], rng.v)
FirstKeyAndValue == [k |-> Zeros(DigestBytes), v |-> [i \in 1 .. DigestBytes |-> 1]]
(* Mutant: the second key is made with the first value.                        *)
Rfc6979InitializeStale(left, seed) ==
  Updated(left, [Updated(left, FirstKeyAndValue, <<<<0>>, seed>>) EXCEPT !.v = FirstKeyAndValue.v], <<<<1>>, seed>>)
Rfc6979Initialize(left, seed) ==
  Updated(left, Updated(left, FirstKeyAndValue, <<<<0>>, seed>>), <<<<1>>, seed>>)
(* [rng, bytes]: the generator afterwards, and outlen bytes of it.             *)
Extended(made, v) == [v |-> v, bytes |-> made.bytes \o v]
Cut(k, made, outlen) ==
  [rng |-> [k |-> k, v |-> made.v, retry |-> TRUE], bytes |-> SubSeq(made.bytes, 1, outlen)]
Generated(left, rng, outlen) ==
  LET rounds == (outlen + DigestBytes - 1) \div DigestBytes
      made[i \in 0 .. rounds] ==
        IF i = 0 THEN [v |-> rng.v, bytes |-> <<>>]
        ELSE LET prev == made[i - 1] IN Extended(prev, Keyed[left, rng.k, <<prev.v>>])
  IN  Cut(rng.k, made[rounds], outlen)
Rfc6979Generate(left, rng, outlen) ==
  Generated(left, IF rng.retry THEN Updated(left, rng, <<<<0>>>>) ELSE rng, outlen)
Rfc6979Finalize == [k |-> Zeros(DigestBytes), v |-> Zeros(DigestBytes), retry |-> FALSE]

(* The seed of a nonce: key and message, and what else was passed.  key32,      *)
(* msg32 and data have the size of a digest and algo16 half of it.             *)
KeyData(args) == args.key32 \o args.msg32 \o args.data \o args.algo16
NonceFunctionRfc6979(left, args, counter) ==
  LET called[i \in 0 .. counter] ==
        IF i = 0 THEN Rfc6979Generate(left, Rfc6979Initialize(left, KeyData(args)), DigestBytes)
        ELSE LET prev == called[i - 1] IN Rfc6979Generate(left, prev.rng, DigestBytes)
  IN  called[counter].bytes

-----------------------------------------------------------------------------
(* The code's users: one object at a time is initialized, written to in        *)
(* pieces and finalized, or asked for outputs.                                 *)
VARIABLES kind,      (* the object: none, sha, hmac or rng                    *)
          object,    (* its state                                             *)
          junk,      (* what uninitialized buffers hold                       *)
          secret,    (* the HMAC key, or the seed of the generator            *)
          written,   (* all that was written                                  *)
          outputs    (* all that was produced                                 *)
hashVars == <<kind, object, junk, secret, written, outputs>>

Content(from, n) == [i \in 1 .. n |-> (37 * (from + i)) % 256]
NonceArgs == [key32 : {Content(1, DigestBytes), Content(9, DigestBytes)}, msg32 : {Content(5, DigestBytes)},
              data : {<<>>, Content(1, DigestBytes), Content(5, DigestBytes)},
              algo16 : {<<>>, Content(5, DigestBytes \div 2)}]

HashInit ==
  /\ kind = "none" /\ object = <<>> /\ junk = 0
  /\ secret = <<>> /\ written = <<>> /\ outputs = <<>>
Starts(name, with) ==
  /\ kind = "none"
  /\ kind' = name /\ secret' = with
  /\ UNCHANGED <<written, outputs>>
StartSha == \E l \in Leftovers : Starts("sha", <<>>) /\ junk' = l /\ object' = Sha256Initialize(l)
StartHmac ==
  \E l \in Leftovers, n \in KeySizes :
    Starts("hmac", Content(3, n)) /\ junk' = l /\ object' = HmacSha256Initialize(l, Content(3, n))
StartRng ==
  \E l \in Leftovers, args \in NonceArgs :
    Starts("rng", args) /\ junk' = l /\ object' = Rfc6979Initialize(l, KeyData(args))
Write ==
  /\ outputs = <<>>
  /\ \E n \in PieceSizes :
       LET data == Content(Len(written), n)
       IN  /\ Len(written) + n <= MaxWritten
           /\ \/ kind = "sha" /\ object' = Sha256Write(object, data)
              \/ kind = "hmac" /\ object' = HmacSha256Write(object, data)
           /\ written' = written \o data
  /\ UNCHANGED <<kind, junk, secret, outputs>>
Finalize ==
  /\ outputs = <<>>
  /\ \/ kind = "sha" /\ outputs' = <<Sha256Finalize(object)>>
     \/ kind = "hmac" /\ outputs' = <<HmacSha256Finalize(object)>>
  /\ object' = <<>>
  /\ UNCHANGED <<kind, junk, secret, written>>
Generate ==
  /\ kind = "rng" /\ Len(outputs) < MaxOutputs
  /\ \E n \in OutSizes :
       LET made == Rfc6979Generate(junk, object, n)
       IN  object' = made.rng /\ outputs' = Append(outputs, made.bytes)
  /\ UNCHANGED <<kind, junk, secret, written>>
FinalizeRng ==
  /\ kind = "rng"
  /\ kind' = "finalized" /\ object' = Rfc6979Finalize
  /\ UNCHANGED <<junk, secret, written, outputs>>
HashNext ==
  StartSha \/ StartHmac \/ StartRng \/ Write \/ Finalize \/ Generate \/ FinalizeRng

-----------------------------------------------------------------------------
(* What the standards say, over whole messages.                                *)
(* FIPS 180-4: the message, a one bit, zeros and the length fill whole blocks. *)
Padded(m) ==
  LET zeros == CHOOSE z \in 0 .. BlockBytes - 1 : (Len(m) + 1 + z + LengthBytes) % BlockBytes = 0
      bits == 8 * Len(m)
  IN  m \o <<128>> \o Zeros(zeros) \o <<bits \div 2 ^ WordBytesBits, bits % 2 ^ WordBytesBits>>
Digest[m \in Seq(Octet)] ==
  LET all == Padded(m)
      state[i \in 0 .. Len(all) \div BlockBytes] ==
        IF i = 0 THEN StartState
        ELSE LET prev == state[i - 1]
             IN  Transform[prev, SubSeq(all, (i - 1) * BlockBytes + 1, i * BlockBytes)]
  IN  DigestOf[state[Len(all) \div BlockBytes]]
(* RFC 2104 *)
Hmac[k \in Seq(Octet), m \in Seq(Octet)] ==
  LET short == IF Len(k) > BlockBytes THEN Digest[k] ELSE k
      full == short \o Zeros(BlockBytes - Len(short))
      ipad == XorAll(full, 54)
      opad == XorAll(full, 92)
  IN  Digest[opad \o Digest[ipad \o m]]
(* RFC 6979, 3.2 b to h: outputs of the given sizes, K and V being renewed     *)
(* after each of them.                                                         *)
WithKey(k, v) == [k |-> k, v |-> Hmac[k, v]]
NextKey(kv, m) == WithKey(Hmac[kv.k, kv.v \o m], kv.v)
Values(k, v, size) ==
  LET vs[j \in 0 .. size] == IF j = 0 THEN <<v>>
                             ELSE LET prev == vs[j - 1] IN Append(prev, Hmac[k, prev[j]])
  IN  vs[CHOOSE j \in 0 .. size : j * DigestBytes >= size /\ (j - 1) * DigestBytes < size]
AfterOutput(done, vs, size) ==
  [kv |-> NextKey([k |-> done.kv.k, v |-> vs[Len(vs)]], <<0>>),
   outs |-> Append(done.outs, [i \in 1 .. size |-> vs[2 + ((i - 1) \div DigestBytes)][1 + ((i - 1) % DigestBytes)]])]
Rfc6979(seed, sizes) ==
  LET start == [k |-> Zeros(DigestBytes), v |-> [i \in 1 .. DigestBytes |-> 1]]
      reach[i \in 0 .. Len(sizes)] ==
        IF i = 0 THEN [kv |-> NextKey(NextKey(start, <<0>> \o seed), <<1>> \o seed), outs |-> <<>>]
        ELSE LET prev == reach[i - 1]
             IN  AfterOutput(prev, Values(prev.kv.k, prev.kv.v, sizes[i]), sizes[i])
  IN  reach[Len(sizes)].outs

(* However a message is cut into calls of secp256k1_sha256_write or            *)
(* secp256k1_hmac_sha256_write, also when a piece ends where a block or the    *)
(* room for the length ends, and whatever the buffers held before, the result  *)
(* is the one the standards define for the whole message.                      *)
PiecesHashAsAWhole ==
  outputs # <<>> => /\ kind = "sha" => outputs[1] = Digest[written]
                    /\ kind = "hmac" => outputs[1] = Hmac[secret, written]

(* secp256k1_rfc6979_hmac_sha256_generate renews K and V at the start of the    *)
(* next call and not at the end of this one, and nonce_function_rfc6979 starts *)
(* a new generator for every attempt: both give the outputs of RFC 6979, so    *)
(* attempt number c gets the nonce that follows the one of attempt c - 1.       *)
(* The generator is seeded differently whenever one argument differs: "Because *)
(* the arguments have distinct fixed lengths it is not possible for different  *)
(* argument mixtures to emulate each other".                                   *)
NoncesFollowRfc6979 ==
  kind = "rng" =>
    LET seed == KeyData(secret)
        n == Len(outputs)
    IN  /\ outputs = Rfc6979(seed, [i \in 1 .. n |-> Len(outputs[i])])
        /\ n > 0 => NonceFunctionRfc6979(junk, secret, n - 1) = Rfc6979(seed, [i \in 1 .. n |-> DigestBytes])[n]
        /\ \A args \in NonceArgs : KeyData(args) = seed => args = secret
=============================================================================
