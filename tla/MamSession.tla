----------------------------- MODULE MamSession -----------------------------
(***************************************************************************)
(* One send context used for a sequence of messages, as test_message.c     *)
(* uses send_ctx for all 36 of its messages.  mam_msg_send re-initialises  *)
(* ctx->spongos but not ctx->ord or ctx->mss, and the MSS trees of the     *)
(* channel, its endpoint and its delegates (cha, epa, ch1a, ep1a) keep     *)
(* their leaf counters from one message to the next.  The session key of  *)
(* a message is drawn from the sender's PRNG with the leaf counter of the  *)
(* endpoint's or channel's tree as nonce (message.c 513-527).             *)
(*                                                                         *)
(* Every message written is read back as test_message.c reads it: a fresh *)
(* receive context whose pk is the channel id, mam_msg_recv on the header *)
(* and mam_msg_recv_packet on each packet in order, into a NULL payload.  *)
(***************************************************************************)
EXTENDS Integers, Sequences, FiniteSets, SequencesExt, MamCodec

CONSTANTS
  Ch, Ep, Ch1, Ep1,  (* MSS keys = ids of cha, epa, ch1a, ep1a             *)
  Prng,              (* the secret key of prng_sender                       *)
  PskChoices,        (* SUBSET SUBSET PSK ids: the psks argument            *)
  NtruChoices,       (* SUBSET SUBSET NTRU ids: the ntru_pks argument       *)
  RecvPsks,          (* ids of the PSKs the receiver holds                  *)
  RecvNtrus,         (* ids of the NTRU secret keys the receiver holds      *)
  MsgId,             (* msg_id; test_message.c uses one for every message   *)
  Payloads,          (* payload values                                      *)
  PayloadLen,        (* [Payloads -> Nat]: length in trytes                 *)
  MaxMsgs,           (* bound: messages sent on the context                 *)
  MaxPackets         (* bound: packets per message                          *)

VARIABLES
  ctx,  (* mam_msg_send_context_t: [s, ord, mss]                           *)
  skn,  (* [Trees -> Nat]: the leaf counter of each MSS tree               *)
  log   (* Seq([psks, ntrus, key, hdr, pkts]): the messages written; pkts *)
        (* is a Seq([b, p, ord]) of the packets written for it             *)

vars == <<ctx, skn, log>>

Trees == {Ch, Ep, Ch1, Ep1}

(* One mam_mss_sign by tree k.                                              *)
Signs(n, k) == [n EXCEPT ![k] = MssNextSkn(@)]

(* Mutant: no signer is attached for a packet on the plain channel id.    *)
PacketSignerNoDefault(ep, ch1, ep1) ==
  IF ch1 # NULL THEN ch1 ELSE IF ep1 # NULL THEN ep1 ELSE ep

(* The tree test_message.c attaches as send_ctx->mss for signed packets: *)
(* the one of the identity the header announces.                          *)
PacketSigner(ep, ch1, ep1) ==
  IF ch1 # NULL THEN ch1 ELSE IF ep1 # NULL THEN ep1 ELSE IF ep # NULL THEN ep ELSE Ch

Init ==
  /\ ctx = [s |-> SpongosInit, ord |-> 0, mss |-> NULL]
  /\ skn = [k \in Trees |-> 0]
  /\ log = <<>>

(* mam_msg_send on the context, then the signer for its packets.  A      *)
(* signed id (chid1, epid1) is signed by the channel's tree.              *)
Send(ep, ch1, ep1, psks, ntrus) ==
  LET key == SessionKey(psks, ntrus, PrngGen3(Prng, Ch, ep, skn[SknSource(Ch, ep)]))
      out == MsgSend(ctx.s, Ch, Ch, ep, ch1, ep1, MsgId, 0, psks, ntrus, key)
  IN  /\ Len(log) < MaxMsgs
      /\ ctx' = [ctx EXCEPT !.s = out.s, !.mss = PacketSigner(ep, ch1, ep1)]
      /\ skn' = IF ch1 # NULL \/ ep1 # NULL THEN Signs(skn, Ch) ELSE skn
      /\ log' = Append(log, [psks |-> psks, ntrus |-> ntrus, key |-> key, hdr |-> out.b, pkts |-> <<>>])

(* mam_msg_send_packet for the current message.  MAM_ASSERT(mss) for a   *)
(* signed packet.                                                           *)
SendPkt(ck, p) ==
  LET out == SendPacket(ctx.s, ctx.ord, ctx.mss, ck, p, PayloadLen[p])
  IN  /\ log # <<>>
      /\ Len(Last(log).pkts) < MaxPackets
      /\ ck = ChecksumMssig => ctx.mss # NULL
      /\ ctx' = [ctx EXCEPT !.s = out.s]
      /\ skn' = IF ck = ChecksumMssig THEN Signs(skn, ctx.mss) ELSE skn
      /\ log' = [log EXCEPT ![Len(log)].pkts = Append(@, [b |-> out.b, p |-> p, ord |-> ctx.ord])]

Next ==
  \/ \E ep \in {NULL, Ep}, ch1 \in {NULL, Ch1}, ep1 \in {NULL, Ep1},
        psks \in PskChoices, ntrus \in NtruChoices : Send(ep, ch1, ep1, psks, ntrus)
  \/ \E ck \in {ChecksumNone, ChecksumMac, ChecksumMssig}, p \in Payloads : SendPkt(ck, p)

Spec == Init /\ [][Next]_vars

---------------------------------------------------------------------------
(* Reading back.                                                            *)

(* The receiver holds a key for the keyload, if the message has one.       *)
Addressed(m) ==
  m.psks \cup m.ntrus # {} => (m.psks \cap RecvPsks) \cup (m.ntrus \cap RecvNtrus) # {}

(* mam_msg_recv_packet on each packet in turn, from transcript s, with    *)
(* ctx->pk = pk; every call succeeds and yields the payload written.      *)
RECURSIVE ReadsBack(_, _, _)
ReadsBack(s, pk, pkts) ==
  IF pkts = <<>> THEN TRUE
  ELSE LET out == RecvPacket(s, Head(pkts).ord, pk, Head(pkts).b, NULL, TRUE)
       IN  /\ out.rc = OK
           /\ out.payload = Head(pkts).p
           /\ ReadsBack(out.s, pk, Tail(pkts))

---------------------------------------------------------------------------
(* Invariants.                                                              *)

TypeOK ==
  /\ ctx.mss \in IF log = <<>> THEN {NULL} ELSE Trees
  /\ ctx.ord = 0
  /\ skn \in [Trees -> 0..MaxMsgs * (MaxPackets + 1)]
  /\ Len(log) <= MaxMsgs
  /\ \A i \in 1..Len(log) : Len(log[i].pkts) <= MaxPackets

(* Round trip over a reused context (spec.md 8, test_message.c): every    *)
(* message mam_msg_send and mam_msg_send_packet wrote on the context,     *)
(* whatever was sent on it before, reads back without error, with the     *)
(* session key it was sent with and the payloads in order, when the       *)
(* receiver holds a key for it.  The headers and signed packets of all    *)
(* messages draw on the same MSS trees.                                     *)
MessagesReadable ==
  \A i \in 1..Len(log) : Addressed(log[i]) =>
    LET r == MsgRecv(log[i].hdr, Ch, MsgId, RecvPsks, RecvNtrus)
    IN  /\ r.rc = OK
        /\ r.key = log[i].key
        /\ ReadsBack(r.s, r.pk, log[i].pkts)

(* Session key freshness (spec.md 2: a session key is generated fresh per *)
(* message from key material and a per-message counter): two messages   *)
(* with recipients never get the same session key.                        *)
SessionKeyFresh ==
  \A i, j \in 1..Len(log) : i < j /\ log[i].key # ZeroKey => log[i].key # log[j].key

=============================================================================
