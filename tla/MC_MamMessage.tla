--------------------------- MODULE MC_MamMessage ---------------------------
(***************************************************************************)
(* Instantiation of MamMessage for TLC.  The channel owner's identities   *)
(* mirror test_message.c (CHANAME with endpoint EPANAME, delegate channel *)
(* CHANAME9 and delegate endpoint EPANAME9, PSKs A and B, one NTRU key);  *)
(* Eve publishes on the same channel id with keys of her own.             *)
(***************************************************************************)
EXTENDS MamMessage

CONSTANTS
  Owner, Eve,              (* senders                                      *)
  Ch, Ep, Ch1, Ep1,        (* the owner's MSS keys = identifiers            *)
  EveKey, EveEp,           (* Eve's MSS keys                                *)
  PskA, PskB, PskE,        (* PSK identifiers                               *)
  NtruR,                   (* the receiver's NTRU public key identifier     *)
  KOwner, KEve,            (* the senders' PRNG secret keys                 *)
  P1, P2                   (* payloads                                      *)

MCIdent ==
  [s \in Senders |->
     IF s = Owner THEN [ch |-> Ch, chkey |-> Ch, ep |-> Ep, ch1 |-> Ch1, ep1 |-> Ep1]
                  ELSE [ch |-> Ch, chkey |-> EveKey, ep |-> EveEp, ch1 |-> NULL, ep1 |-> NULL]]

MCFreshKey == [s \in Senders |-> IF s = Owner THEN KOwner ELSE KEve]

(* The keyloads of test_message.c: public, PSK {A, B}, NTRU; plus a single *)
(* PSK the receiver does not hold and a mixed PSK + NTRU keyload.          *)
MCPskChoices ==
  [s \in Senders |-> IF s = Owner THEN {{}, {PskA}, {PskA, PskB}} ELSE {{}, {PskE}}]

MCNtruChoices == [s \in Senders |-> {{}, {NtruR}}]

(* Keyloads with a single entry: enough for tampering with one entry.    *)
MCPskChoicesSmall == [s \in Senders |-> IF s = Owner THEN {{}, {PskB}} ELSE {{}}]

MCNtruChoicesSmall == [s \in Senders |-> {{}}]

MCPayloadLen == [p \in {P1, P2} |-> IF p = P1 THEN 1 ELSE 2]

MCSendersOwner == {Owner}

MCSendersBoth == {Owner, Eve}

=============================================================================
