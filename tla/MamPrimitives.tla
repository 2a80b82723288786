--------------------------- MODULE MamPrimitives ---------------------------
(***************************************************************************)
(* The external collaborators that src/mam/mam/message.c calls through    *)
(* narrow interfaces (spec.md section 6): the spongos transcript, the pb3  *)
(* trinary codec widths, the Merkle signature scheme (MSS) and NTRU.       *)
(* Their code is not part of this repository's sources, so every operator *)
(* here is modelled from the spec, idealised:                              *)
(*                                                                         *)
(*  - a transcript (spongos state) is the sequence of operations applied  *)
(*    to it; two transcripts agree iff they saw the same operations.      *)
(*    A squeezed MAC is the transcript itself (collision-free digest).    *)
(*  - encryption under a transcript yields [pt, st]; decryption under the *)
(*    same transcript returns pt, under any other transcript a value that *)
(*    is not pt (Garbage).                                                 *)
(*  - an MSS signature records its signer key and the signed digest; it  *)
(*    verifies iff both match.                                              *)
(*  - an NTRU ciphertext records the recipient public key id; decryption *)
(*    with that key's secret half returns pt, otherwise it fails.         *)
(***************************************************************************)
EXTENDS Integers, Sequences

CONSTANTS
  Garbage,   (* what decryption under a wrong transcript returns           *)
  Junk       (* a value that no writer produced (a flipped trit)           *)

---------------------------------------------------------------------------
(* Spongos transcript.                                                     *)

SpongosInit == <<>>

(* absorb and absorb_external have the same effect on the transcript: the *)
(* difference is only whether the trits are also written to the buffer.   *)
SpongosAbsorb(s, kind, x) == Append(s, <<"absorb", kind, x>>)

SpongosCommit(s) == Append(s, <<"commit">>)

(* squeeze returns a digest of everything absorbed so far.                 *)
SpongosMac(s) == s

SpongosSqueeze(s) == Append(s, <<"squeeze">>)

(* crypt: keystream transform; the transcript then depends on the         *)
(* plaintext.  Wrap and unwrap use inverse directions.                    *)
SpongosEncr(s, x) == [pt |-> x, st |-> s]

SpongosDecr(s, c) == IF c.st = s THEN c.pt ELSE Garbage

SpongosCrypt(s, x) == Append(s, <<"crypt", "data", x>>)

(* fork: an independent branch that starts from the parent's state.       *)
SpongosFork(s) == s

(* A ciphertext no writer produced.                                        *)
JunkCipher == [pt |-> Junk, st |-> <<>>]

---------------------------------------------------------------------------
(* pb3 widths, in trits.                                                   *)

Pb3SizeofTryte == 3

Pb3SizeofOneof == Pb3SizeofTryte

Pb3SizeofTrint == 9

Pb3SizeofNtrytes(n) == 3 * n

(* A size_t is written as one tryte holding the number d of trytes that   *)
(* follow, then d trytes of the value (base 27, digits in -13..13).        *)
RECURSIVE SizeTTrytes(_)
SizeTTrytes(n) == IF n = 0 THEN 0 ELSE 1 + SizeTTrytes((n + 13) \div 27)

Pb3SizeofSizeT(n) == Pb3SizeofTryte + Pb3SizeofNtrytes(SizeTTrytes(n))

Pb3SizeofRepeated(n) == Pb3SizeofSizeT(n)

---------------------------------------------------------------------------
(* MSS and NTRU.                                                           *)

(* MAM_MSS_SIG_SIZE(height): skn, WOTS signature and authentication path. *)
MssSigSize(height) == 18 + 13122 + 243 * height

JunkSig == [signer |-> Junk, msg |-> <<>>]

(* mam_mss_sign: a signature of the digest by the tree's key.  The MSS    *)
(* code is not in src/; test_message.c signs 21 times with trees of depth *)
(* 1 and expects every signature to verify, so signing does not stop at  *)
(* the 2^height-th leaf.                                                   *)
MssSign(key, digest) == [signer |-> key, msg |-> digest]

(* The leaf counter after one mam_mss_sign: it advances (spec.md 4.4).   *)
MssNextSkn(skn) == skn + 1

MssVerify(digest, sig, pk) == sig.signer = pk /\ sig.msg = digest

(* mam_prng_gen3: a deterministic function of the PRNG's secret key and   *)
(* its three inputs.                                                        *)
PrngGen3(prng, x1, x2, x3) == <<"prng", prng, x1, x2, x3>>

NtruEncr(pkid, key) == [ntru |-> pkid, pt |-> key]

(* ntru_decr succeeds only with the secret key of the addressed public key *)
NtruDecrOk(skid, c) == c.ntru = skid

JunkNtru == [ntru |-> Junk, pt |-> Junk]

---------------------------------------------------------------------------
(* trits_put18 / trits_get18: an integer as 18 balanced trits, least      *)
(* significant first.  put18 keeps the 18 low trits of any value, so an   *)
(* integer outside +-(3^18-1)/2 comes back as a different one.            *)

OrdTrits == 18

(* Mutant: digits taken in 0..2 with no carry into the next trit.        *)
RECURSIVE PutTritsUnbalanced(_, _)
PutTritsUnbalanced(n, k) ==
  IF k = 0 THEN <<>> ELSE <<n % 3>> \o PutTritsUnbalanced(n \div 3, k - 1)

RECURSIVE PutTrits(_, _)
PutTrits(n, k) ==
  IF k = 0 THEN <<>>
  ELSE IF n = 0 THEN [i \in 1..k |-> 0]
  ELSE LET d == IF n % 3 = 2 THEN -1 ELSE n % 3
       IN  <<d>> \o PutTrits((n - d) \div 3, k - 1)

RECURSIVE GetTrits(_)
GetTrits(t) == IF t = <<>> THEN 0 ELSE Head(t) + 3 * GetTrits(Tail(t))

TritsPut18(n) == PutTrits(n, OrdTrits)

TritsGet18(t) == GetTrits(t)

(* Reference: the representative of n modulo 3^18 in the balanced range. *)
Trint18Max == (3 ^ OrdTrits - 1) \div 2

Wrap18(n) == ((n + Trint18Max) % (3 ^ OrdTrits)) - Trint18Max

=============================================================================
