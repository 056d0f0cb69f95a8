-------------------------------- MODULE Der --------------------------------
(* Encodings of signatures and secret keys in bytes: the strict DER parser    *)
(* and the serializer of ecdsa_impl.h, and the lax parsers of contrib/.  A    *)
(* byte is a number below 2 * Sign, where Sign is 0x80 in the code: smaller   *)
(* bytes make the long forms of lengths short enough to enumerate.            *)
EXTENDS Integers, Sequences

CONSTANTS Sign,         (* the bit that marks long lengths and negatives: 0x80 *)
          ScalarBytes,  (* the bytes of a scalar: 32                         *)
          SizeBytes,    (* sizeof(size_t)                                    *)
          DerN,         (* the order: scalars are below it                   *)
          Framing,      (* what is written around a secret key: below        *)
          DerInputs,    (* the byte strings that are parsed                  *)
          DerNumbers,   (* scalars that are serialized, keys that are exported *)
          DerSizes      (* sizes of the buffer a signature is written to     *)

Byte == 2 * Sign
SeqTag == 3    (* 0x30 *)
IntTag == 2    (* 0x02 *)
OctetTag == 4  (* 0x04 *)

NumberOf(bytes) ==
  LET upto[i \in 0 .. Len(bytes)] == IF i = 0 THEN 0 ELSE upto[i - 1] * Byte + bytes[i]
  IN  upto[Len(bytes)]
BytesOf(k, n) == [i \in 1 .. n |-> (k \div Byte ^ (n - i)) % Byte]
(* The first position at or after pos, and before end, whose byte is not 0.   *)
SkipZeros(in, pos, end) ==
  CHOOSE i \in pos .. end : /\ i = end \/ in[i] # 0
                            /\ \A j \in pos .. i - 1 : in[j] = 0

-----------------------------------------------------------------------------
(* A position counts from 1.  A length is [len, pos], with the position after  *)
(* it; der_read_len gives -1 for every form that DER does not allow.           *)
NoLength == [len |-> -1, pos |-> 0]
(* n bytes of length from position at: the loop is left as soon as the length  *)
(* is more than what remains of the input.                                     *)
LongLength(in, at, n) ==
  IF \/ n > Len(in) + 1 - at
     \/ in[at] = 0
     \/ n > SizeBytes
     \/ \E i \in 1 .. n : NumberOf(SubSeq(in, at, at + i - 1)) + (n - i + 1) > Len(in) + 1 - (at + i - 1)
     \/ NumberOf(SubSeq(in, at, at + n - 1)) < Sign
  THEN NoLength
  ELSE [len |-> NumberOf(SubSeq(in, at, at + n - 1)), pos |-> at + n]
DerReadLen(in, pos) ==
  CASE pos > Len(in) -> NoLength
    [] pos <= Len(in) /\ in[pos] \in {Byte - 1, Sign} -> NoLength
    [] pos <= Len(in) /\ in[pos] < Sign -> [len |-> in[pos], pos |-> pos + 1]
    [] OTHER -> LongLength(in, pos + 1, in[pos] - Sign)

(* Negative numbers and numbers that are too large are read as 0.             *)
NoInteger == [ok |-> FALSE, v |-> 0, pos |-> 0]
SkippedInteger(in, negative, start, end) ==
  [ok |-> TRUE, pos |-> end,
   v |-> IF negative \/ end - start > ScalarBytes \/ NumberOf(SubSeq(in, start, end - 1)) >= DerN THEN 0
         ELSE NumberOf(SubSeq(in, start, end - 1))]
(* Mutant: padding is not refused.                                            *)
IntegerOfAnyLength(in, at, len) ==
  IF len <= 0 \/ at + len > Len(in) + 1 THEN NoInteger
  ELSE SkippedInteger(in, in[at] >= Sign, SkipZeros(in, at, at + len), at + len)
IntegerOfLength(in, at, len) ==
  IF \/ len <= 0
     \/ at + len > Len(in) + 1
     \/ in[at] = 0 /\ len > 1 /\ in[at + 1] < Sign
     \/ in[at] = Byte - 1 /\ len > 1 /\ in[at + 1] >= Sign
  THEN NoInteger
  ELSE SkippedInteger(in, in[at] >= Sign, SkipZeros(in, at, at + len), at + len)
IntegerAfter(in, length) == IntegerOfLength(in, length.pos, length.len)
DerParseInteger(in, pos) ==
  IF pos > Len(in) THEN NoInteger
  ELSE IF in[pos] # IntTag THEN NoInteger
  ELSE IntegerAfter(in, DerReadLen(in, pos + 1))

NoSignature == [ok |-> FALSE, r |-> 0, s |-> 0]
BothIntegers(in, rr, rs) ==
  IF rr.ok /\ rs.ok /\ rs.pos = Len(in) + 1 THEN [ok |-> TRUE, r |-> rr.v, s |-> rs.v] ELSE NoSignature
IntegersAfter(in, rr) == BothIntegers(in, rr, IF rr.ok THEN DerParseInteger(in, rr.pos) ELSE NoInteger)
SequenceOf(in, length) ==
  IF length.len < 0 \/ length.pos + length.len # Len(in) + 1 THEN NoSignature
  ELSE IntegersAfter(in, DerParseInteger(in, length.pos))
EcdsaSigParse(in) ==
  IF in = <<>> THEN NoSignature
  ELSE IF in[1] # SeqTag THEN NoSignature
  ELSE SequenceOf(in, DerReadLen(in, 2))

(* The shortest form with one zero in front of a number that has its sign bit. *)
Shortest(k) ==
  LET r == BytesOf(k, ScalarBytes + 1)
      start == CHOOSE i \in 1 .. ScalarBytes + 1 :
                 /\ i = ScalarBytes + 1 \/ r[i] # 0 \/ r[i + 1] >= Sign
                 /\ \A j \in 1 .. i - 1 : r[j] = 0 /\ r[j + 1] < Sign
  IN  SubSeq(r, start, ScalarBytes + 1)
(* With a buffer that is too small nothing is written but the size needed.    *)
EcdsaSigSerialize(ar, as, size) ==
  LET rp == Shortest(ar)
      sp == Shortest(as)
      need == 6 + Len(sp) + Len(rp)
  IN  [ok |-> size >= need, size |-> need,
       sig |-> IF size < need THEN <<>>
               ELSE <<SeqTag, 4 + Len(sp) + Len(rp)>> \o <<IntTag, Len(rp)>> \o rp
                    \o <<IntTag, Len(sp)>> \o sp]

-----------------------------------------------------------------------------
(* contrib/lax_der_parsing.c: the length of the sequence is skipped, lengths   *)
(* and numbers may have zeros in front, and bytes may follow.                 *)
LaxLong(in, start, past) ==
  IF past - start >= SizeBytes THEN NoLength
  ELSE [len |-> NumberOf(SubSeq(in, start, past - 1)), pos |-> past]
LaxLength(in, pos) ==
  CASE pos > Len(in) -> NoLength
    [] pos <= Len(in) /\ in[pos] < Sign -> [len |-> in[pos], pos |-> pos + 1]
    [] pos <= Len(in) /\ in[pos] >= Sign /\ pos + in[pos] - Sign > Len(in) -> NoLength
    [] OTHER -> LaxLong(in, SkipZeros(in, pos + 1, pos + 1 + in[pos] - Sign), pos + 1 + in[pos] - Sign)
(* An overflow of either number makes both of them 0.                          *)
LaxNumber(in, start, end) ==
  IF end - start > ScalarBytes THEN DerN ELSE NumberOf(SubSeq(in, start, end - 1))
LaxAfter(in, length) ==
  IF length.len < 0 \/ length.len > Len(in) + 1 - length.pos THEN NoInteger
  ELSE [ok |-> TRUE, pos |-> length.pos + length.len,
        v |-> LaxNumber(in, SkipZeros(in, length.pos, length.pos + length.len), length.pos + length.len)]
LaxInteger(in, pos) ==
  IF pos > Len(in) THEN NoInteger
  ELSE IF in[pos] # IntTag THEN NoInteger
  ELSE LaxAfter(in, LaxLength(in, pos + 1))
LaxBoth(r, s) ==
  CASE ~r.ok \/ ~s.ok -> NoSignature
    [] r.ok /\ s.ok /\ (r.v >= DerN \/ s.v >= DerN) -> [NoSignature EXCEPT !.ok = TRUE]
    [] OTHER -> [ok |-> TRUE, r |-> r.v, s |-> s.v]
LaxIntegers(in, r) == LaxBoth(r, IF r.ok THEN LaxInteger(in, r.pos) ELSE NoInteger)
EcdsaSignatureParseDerLax(in) ==
  IF Len(in) < 2 THEN NoSignature
  ELSE LET skip == IF in[2] >= Sign THEN in[2] - Sign ELSE 0
       IN  IF in[1] # SeqTag \/ 2 + skip > Len(in) THEN NoSignature
           ELSE LaxIntegers(in, LaxInteger(in, 3 + skip))

(* Mutant: the second byte of the length is not read.                         *)
ImportLengthOneByte(in, lenb) == in[2 + lenb]
ImportLength(in, lenb) == NumberOf(SubSeq(in, 3, 2 + lenb))
(* contrib/lax_der_privatekey_parsing.c: up to two bytes of length, which is   *)
(* only held against the size of the input.                                   *)
EcPrivkeyImportDer(in) ==
  LET lenb == in[2] - Sign
      len == ImportLength(in, lenb)
      body == 3 + lenb
      k == NumberOf(SubSeq(in, body + 5, body + 4 + in[body + 4]))
      has(n) == Len(in) >= n
  IN  IF /\ has(1) /\ in[1] = SeqTag
         /\ has(2) /\ in[2] >= Sign
         /\ lenb \in 1 .. 2 /\ has(2 + lenb)
         /\ has(2 + lenb + len)
         /\ has(body + 2) /\ SubSeq(in, body, body + 2) = <<IntTag, 1, 1>>
         /\ has(body + 4) /\ in[body + 3] = OctetTag
         /\ in[body + 4] <= ScalarBytes /\ has(body + 4 + in[body + 4])
         /\ k \in 1 .. DerN - 1
      THEN [ok |-> TRUE, seckey |-> k] ELSE [ok |-> FALSE, seckey |-> 0]
(* Framing[compressed] has the fixed bytes before and after the key, which     *)
(* hold the length of the sequence, and the size of the public key at its end. *)
EcPrivkeyExportDer(k, compressed) ==
  LET f == Framing[compressed]
  IN  IF k \in 1 .. DerN - 1
      THEN [ok |-> TRUE, der |-> f.begin \o BytesOf(k, ScalarBytes) \o f.middle
                                 \o [i \in 1 .. f.pubkeylen |-> 0]]
      ELSE [ok |-> FALSE, der |-> <<>>]

-----------------------------------------------------------------------------
VARIABLES dcall,  (* the last call                                           *)
          dok,    (* what it returned                                        *)
          din,    (* the bytes it was given                                  *)
          dout,   (* the bytes it wrote                                      *)
          dsig,   (* the signature object                                    *)
          dkey,   (* the secret key that was exported                        *)
          dread   (* the secret key that was imported                        *)
derVars == <<dcall, dok, din, dout, dsig, dkey, dread>>

DerInit ==
  /\ dcall = "none" /\ dok = FALSE /\ din = <<>> /\ dout = <<>>
  /\ dsig = [r |-> 0, s |-> 0] /\ dkey = 0 /\ dread = 0

Parsed(name, in, got) ==
  /\ dcall' = name /\ dok' = got.ok /\ din' = in /\ dout' = <<>>
  /\ dsig' = [r |-> got.r, s |-> got.s]
  /\ UNCHANGED <<dkey, dread>>
EcdsaSignatureParseDer ==
  /\ dcall = "none"
  /\ \E in \in DerInputs : Parsed("parse_der", in, EcdsaSigParse(in))
ParseDerLax ==
  /\ dcall = "none"
  /\ \E in \in DerInputs : Parsed("parse_der_lax", in, EcdsaSignatureParseDerLax(in))
(* The scalars of a signature that comes from anywhere else.                  *)
EcdsaSignatureSave ==
  /\ dcall = "none"
  /\ \E r, s \in DerNumbers : Parsed("save", <<>>, [ok |-> TRUE, r |-> r, s |-> s])
EcdsaSignatureSerializeDer ==
  /\ dcall \in {"parse_der", "parse_der_lax", "save"}
  /\ \E size \in DerSizes :
       LET got == EcdsaSigSerialize(dsig.r, dsig.s, size)
       IN  dcall' = "serialize_der" /\ dok' = got.ok /\ dout' = got.sig
  /\ UNCHANGED <<din, dsig, dkey, dread>>
ExportDer ==
  /\ dcall = "none"
  /\ \E k \in DerNumbers \cup {DerN}, compressed \in BOOLEAN :
       LET got == EcPrivkeyExportDer(k, compressed)
       IN  dcall' = "export" /\ dok' = got.ok /\ dout' = got.der /\ dkey' = k
  /\ UNCHANGED <<din, dsig, dread>>
(* A written key is read back, whole or cut short, with bytes after it or with *)
(* one of its bytes in front of the key changed.                              *)
ImportDer ==
  /\ dcall = "export" /\ dok
  /\ \E in \in {dout, dout \o <<0>>} \cup {SubSeq(dout, 1, n) : n \in 0 .. Len(dout) - 1}
               \cup {[dout EXCEPT ![i] = b] : i \in 1 .. 8, b \in 0 .. Byte - 1} :
       LET got == EcPrivkeyImportDer(in)
       IN  dcall' = "import" /\ dok' = got.ok /\ din' = in /\ dread' = got.seckey
  /\ UNCHANGED <<dout, dsig, dkey>>

DerNext ==
  \/ EcdsaSignatureParseDer \/ ParseDerLax \/ EcdsaSignatureSave
  \/ EcdsaSignatureSerializeDer \/ ExportDer \/ ImportDer

(* What secp256k1_ecdsa_sig_parse accepts has one encoding, the one            *)
(* secp256k1_ecdsa_sig_serialize writes: a signature that was parsed, and      *)
(* whose numbers were in range (out of range they become 0), is written back   *)
(* byte for byte, and what is written is parsed to the same numbers.           *)
(* ecdsa_signature_parse_der_lax of contrib/ reads every such signature to the *)
(* same numbers; and what it reads beyond that is at least a signature whose   *)
(* numbers are in range.                                                       *)
DerParsersAgree ==
  LET strict == EcdsaSigParse(din)
      inRange == strict.ok /\ strict.r # 0 /\ strict.s # 0
  IN  /\ dcall = "serialize_der" /\ dok =>
            /\ EcdsaSigParse(dout) = [ok |-> TRUE, r |-> dsig.r, s |-> dsig.s]
            /\ inRange => dout = din
      /\ dcall = "parse_der_lax" =>
            /\ inRange => dok /\ dsig = [r |-> strict.r, s |-> strict.s]
            /\ dsig.r \in 0 .. DerN - 1 /\ dsig.s \in 0 .. DerN - 1
            /\ ~dok => dsig = [r |-> 0, s |-> 0]

(* ec_privkey_import_der reads back the key that ec_privkey_export_der wrote,  *)
(* also when bytes follow it; cut short it reads nothing, and a failed import  *)
(* leaves no key behind.                                                       *)
ExportedKeysImport ==
  dcall = "import" =>
    /\ (Len(din) >= Len(dout) /\ SubSeq(din, 1, Len(dout)) = dout) => dok /\ dread = dkey
    /\ Len(din) < Len(dout) => ~dok
    /\ ~dok => dread = 0
=============================================================================
