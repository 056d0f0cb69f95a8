--------------------------- MODULE AdditionChains ---------------------------
(* The addition chains of libsecp256k1: fe_inv, fe_sqrt and scalar_inverse    *)
(* raise their argument to a fixed 256-bit power with squarings and           *)
(* multiplications only.  The model runs them on exponents: squaring doubles  *)
(* the exponent, multiplying adds two.  An exponent is the tuple of its       *)
(* residues modulo pairwise different primes whose product exceeds 2^256, so  *)
(* that the tuples of two exponents below 2^256 are equal only if they are.   *)
EXTENDS Integers, Sequences

Moduli == <<32749, 32719, 32717, 32713, 32707, 32693, 32687, 32653, 32647,
            32633, 32621, 32611, 32609, 32603, 32587, 32579, 32573, 32569>>

VARIABLES chain,   (* the function that runs                                 *)
          line,    (* the row of its program that is next                    *)
          exps     (* register k: the exponent of x_k; register 0: of t      *)
chainVars == <<chain, line, exps>>

Residues(k) == [i \in DOMAIN Moduli |-> k % Moduli[i]]
Plus(e, f) == [i \in DOMAIN Moduli |-> (e[i] + f[i]) % Moduli[i]]
Minus(e, f) == [i \in DOMAIN Moduli |-> (e[i] - f[i]) % Moduli[i]]
TwoTo(k, m) ==
  LET power[j \in 0 .. k] == IF j < 15 THEN 2 ^ j % m
                             ELSE (power[j \div 2] * power[j - j \div 2]) % m
  IN  power[k]
Squared(e, times) == [i \in DOMAIN Moduli |-> (e[i] * TwoTo(times, Moduli[i])) % Moduli[i]]
Ones(k) == Minus(Squared(Residues(1), k), Residues(1))

(* A row <<to, from, squarings, times>>: copy a register, square it so often  *)
(* and multiply it by another register.                                      *)
FieldBlocks ==
  << <<2, 1, 1, 1>>, <<3, 2, 1, 1>>, <<6, 3, 3, 3>>, <<9, 6, 3, 3>>, <<11, 9, 2, 2>>,
     <<22, 11, 11, 11>>, <<44, 22, 22, 22>>, <<88, 44, 44, 44>>, <<176, 88, 88, 88>>,
     <<220, 176, 44, 44>>, <<223, 220, 3, 3>>, <<0, 223, 23, 22>> >>
(* Multiplying by no register: the last two squarings of fe_sqrt.            *)
None == -1
FeSqrt == FieldBlocks \o << <<0, 0, 6, 2>>, <<0, 0, 2, None>> >>
(* Mutant: the two zeros of the last bits are squared once too often.           *)
FeInvTooFar == FieldBlocks \o << <<0, 0, 5, 1>>, <<0, 0, 3, 2>>, <<0, 0, 3, 1>> >>
FeInv == FieldBlocks \o << <<0, 0, 5, 1>>, <<0, 0, 3, 2>>, <<0, 0, 2, 1>> >>
InverseBlocks ==
  << <<2, 1, 1, 1>>, <<3, 2, 1, 1>>, <<4, 3, 1, 1>>, <<6, 4, 2, 2>>, <<7, 6, 1, 1>>, <<8, 7, 1, 1>>,
     <<15, 8, 7, 7>>, <<30, 15, 15, 15>>, <<60, 30, 30, 30>>, <<120, 60, 60, 60>>,
     <<127, 120, 7, 7>> >>
ScalarInverse == InverseBlocks \o
  << <<0, 127, 2, 1>>, <<0, 0, 4, 3>>, <<0, 0, 2, 1>>, <<0, 0, 2, 1>>, <<0, 0, 2, 1>>, <<0, 0, 4, 3>>, <<0, 0, 3, 2>>,
     <<0, 0, 4, 3>>, <<0, 0, 5, 3>>, <<0, 0, 4, 2>>, <<0, 0, 2, 1>>, <<0, 0, 2, 1>>, <<0, 0, 5, 4>>,
     <<0, 0, 2, 1>>, <<0, 0, 3, 1>>, <<0, 0, 4, 1>>, <<0, 0, 2, 1>>, <<0, 0, 10, 3>>, <<0, 0, 4, 3>>,
     <<0, 0, 9, 8>>, <<0, 0, 2, 1>>, <<0, 0, 3, 1>>, <<0, 0, 3, 1>>, <<0, 0, 5, 4>>, <<0, 0, 2, 1>>,
     <<0, 0, 5, 2>>, <<0, 0, 4, 2>>, <<0, 0, 2, 1>>, <<0, 0, 8, 2>>, <<0, 0, 3, 2>>, <<0, 0, 3, 1>>,
     <<0, 0, 6, 1>>, <<0, 0, 8, 6>> >>
Program == [fe_sqrt |-> FeSqrt, fe_inv |-> FeInv, scalar_inverse |-> ScalarInverse]

(* The field's characteristic 2^256 - 2^32 - 977 and the group's order, in    *)
(* digits of 16 bits.                                                        *)
FieldP == Minus(Squared(Residues(1), 256), Plus(Squared(Residues(1), 32), Residues(977)))
OrderDigits == <<65535, 65535, 65535, 65535, 65535, 65535, 65535, 65534,
                 47790, 56550, 44872, 41019, 49106, 24204, 53302, 16705>>
OrderN ==
  LET upto[k \in 0 .. Len(OrderDigits)] ==
        IF k = 0 THEN Residues(0)
        ELSE Plus(Squared(upto[k - 1], 16), Residues(OrderDigits[k]))
  IN  upto[Len(OrderDigits)]

ChainInit == /\ chain \in DOMAIN Program
             /\ line = 1
             /\ exps = [k \in {1} |-> Residues(1)]
(* One row of the program.                                                   *)
Row ==
  /\ line <= Len(Program[chain])
  /\ LET row == Program[chain][line]
         square == Squared(exps[row[2]], row[3])
         power == IF row[4] = None THEN square ELSE Plus(square, exps[row[4]])
     IN  exps' = [k \in DOMAIN exps \cup {row[1]} |-> IF k = row[1] THEN power ELSE exps[k]]
  /\ line' = line + 1
  /\ UNCHANGED chain

(* fe_inv computes x^(p-2) and scalar_inverse x^(n-2), the inverses by        *)
(* Fermat's theorem, and fe_sqrt computes r = x^((p+1)/4), so that r^4 has    *)
(* the exponent p + 1 and r^2 = x for a square x.  On the way register k      *)
(* holds x^(2^k - 1), as the code's comments say.                            *)
ChainsReachTheirExponent ==
  /\ \A k \in DOMAIN exps \ {0} : exps[k] = Ones(k)
  /\ line > Len(Program[chain]) =>
       CASE chain = "fe_inv" -> exps[0] = Minus(FieldP, Residues(2))
         [] chain = "fe_sqrt" -> Squared(exps[0], 2) = Plus(FieldP, Residues(1))
         [] chain = "scalar_inverse" -> exps[0] = Minus(OrderN, Residues(2))
=============================================================================
