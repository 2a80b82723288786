----------------------------- MODULE MamMessage -----------------------------
(***************************************************************************)
(* Senders wrap one message each (mam_msg_send) and then packets          *)
(* (mam_msg_send_packet) into a ledger; a receiver unwraps a header        *)
(* (mam_msg_recv) and then packets (mam_msg_recv_packet) in any order, any *)
(* number of times.  Contexts can be serialized and restored between       *)
(* packets.  An adversary may flip a field of what is on the ledger or     *)
(* cut its tail (a lost fragment).  Every handler of message.c is one      *)
(* atomic action: the code is single-threaded per context (spec.md 5).     *)
(***************************************************************************)
EXTENDS Integers, Sequences, FiniteSets, SequencesExt, MamCodec

CONSTANTS
  Senders,       (* who publishes messages claiming channel ChannelId      *)
  ChannelId,     (* the channel the receiver follows (its MSS root)        *)
  Ident,         (* [Senders -> [ch, chkey, ep, ch1, ep1]]: claimed channel *)
                 (* id, key of ch->mss, and ids of the endpoint / delegate *)
                 (* channel / delegate endpoint the sender owns (or NULL). *)
                 (* An id is its MSS public key.                           *)
  PskChoices,    (* [Senders -> SUBSET SUBSET PskIds]: psks argument       *)
  NtruChoices,   (* [Senders -> SUBSET SUBSET NtruIds]: ntru_pks argument  *)
  FreshKey,      (* [Senders -> prng]: the secret key of each sender's PRNG *)
  RecvPsks,      (* ids of the PSKs the receiver holds                     *)
  RecvNtrus,     (* ids of the NTRU secret keys the receiver holds         *)
  MsgId,         (* msg_id, known to both sides                            *)
  Payloads,      (* payload values                                         *)
  PayloadLen,    (* [Payloads -> Nat]: length in trytes                    *)
  BufChoices,    (* payload buffers the receiver passes: NULL or capacity  *)
  SizeEdits,     (* payload sizes the adversary may write over a packet's  *)
                 (* size field: values of the same encoded width (1..13   *)
                 (* for a one-tryte size_t), so nothing after it moves    *)
  MaxPackets,    (* bound: packets per message                             *)
  MaxReads,      (* bound: packets the receiver unwraps per message        *)
  MaxTamper,     (* bound: adversary edits of the ledger                   *)
  OrdBase,       (* the ord the application starts a context at            *)
  MaxOrd         (* bound: times an application advances ord per context   *)

VARIABLES
  sender,   (* [Senders -> [st, ctx, blob, key, adv, shape, sent]]        *)
  wire,     (* [Senders -> [hdr, pkts]]: what each sender wrote            *)
  ledger,   (* [Senders -> [hdr, pkts]]: what is published, as altered     *)
  tampers,  (* adversary edits so far                                      *)
  recv,     (* [st, ctx, blob]: the receiver's mam_msg_recv_context_t      *)
  rg        (* history of the receive session: [src, delivered, auth, key, *)
            (*   clean, signers, overalloc, freedcaller]                   *)

vars == <<sender, wire, ledger, tampers, recv, rg>>

---------------------------------------------------------------------------
(* Session contexts and their serialized forms.                            *)

(* mam_msg_send_context_t: spongos, ord, mss (NULL after deserialization) *)
(* and mss_root.                                                           *)
NoCtx == [s |-> SpongosInit, ord |-> 0, mss |-> NULL, root |-> NULL]

(* mam_msg_send_ctx_serialize: spongos, ord in 18 trits, ctx->mss->root.  *)
SendCtxSerialize(ctx) == <<ctx.s, TritsPut18(ctx.ord), ctx.mss>>

(* Mutant: the transcript is not restored.                                 *)
SendCtxDeserializeNoSpongos(b) == [s |-> SpongosInit, ord |-> TritsGet18(b[2]), mss |-> NULL, root |-> b[3]]

(* Mutant: ord is not read back.                                          *)
SendCtxDeserializeNoOrd(b) == [s |-> b[1], ord |-> 0, mss |-> NULL, root |-> b[3]]

(* Mutant: ord and mss_root read in the wrong order.                      *)
SendCtxDeserializeSwapped(b) == [s |-> b[1], ord |-> b[3], mss |-> NULL, root |-> b[2]]

(* mam_msg_send_ctx_deserialize: the signer is not restored, only its root *)
SendCtxDeserialize(b) == [s |-> b[1], ord |-> TritsGet18(b[2]), mss |-> NULL, root |-> b[3]]

(* mam_msg_recv_ctx_serialize: spongos, pk, ord.                           *)
RecvCtxSerialize(ctx) == <<ctx.s, ctx.pk, TritsPut18(ctx.ord)>>

(* Mutant: pk and ord read in the wrong order.                              *)
RecvCtxDeserializeSwapped(b) == [s |-> b[1], pk |-> b[3], ord |-> b[2]]

RecvCtxDeserialize(b) == [s |-> b[1], pk |-> b[2], ord |-> TritsGet18(b[3])]

---------------------------------------------------------------------------
(* The caller's choices.                                                    *)

(* The key the application attaches as send_ctx->mss for packets, as the *)
(* test does: the key of the identity the header announces.               *)
SignerFor(s, ep, ch1, ep1) ==
  IF ch1 # NULL THEN ch1 ELSE IF ep1 # NULL THEN ep1 ELSE IF ep # NULL THEN ep ELSE Ident[s].chkey

OrNull(x) == {NULL, x}

(* The arguments of the mam_msg_send call, kept to check sizes and to     *)
(* know the recipients.                                                     *)
NoShape == [ep |-> NULL, ch1 |-> NULL, ep1 |-> NULL, psks |-> {}, ntrus |-> {}]

Init ==
  /\ sender = [s \in Senders |-> [st |-> "init", ctx |-> NoCtx, blob |-> <<>>, key |-> ZeroKey, adv |-> 0,
                                  shape |-> NoShape, sent |-> <<>>]]
  /\ wire = [s \in Senders |-> [hdr |-> <<>>, pkts |-> <<>>]]
  /\ ledger = wire
  /\ tampers = 0
  /\ recv = [st |-> "idle", ctx |-> [s |-> SpongosInit, pk |-> ChannelId, ord |-> 0], blob |-> <<>>, adv |-> 0]
  /\ rg = [src |-> CHOOSE s \in Senders : TRUE, delivered |-> <<>>, auth |-> 0, key |-> ZeroKey,
           clean |-> FALSE, signers |-> {}, overalloc |-> FALSE, freedcaller |-> FALSE]

---------------------------------------------------------------------------
(* Sender actions.                                                          *)

(* The application sets ord, calls mam_msg_send, then attaches the packet *)
(* signer.  The session key is drawn from the PRNG with the leaf counter  *)
(* of the endpoint's or channel's tree as nonce, and wiped on return.     *)
(* Each sender sends one message on fresh trees, so the counter read is   *)
(* 0; MamSession follows the counters across messages.                    *)
Send(s, ep, ch1, ep1, psks, ntrus) ==
  LET id  == Ident[s]
      key == SessionKey(psks, ntrus, PrngGen3(FreshKey[s], id.ch, ep, 0))
      out == MsgSend(sender[s].ctx.s, id.ch, id.chkey, ep, ch1, ep1, MsgId, 0, psks, ntrus, key)
  IN  /\ sender[s].st = "init"
      /\ sender' = [sender EXCEPT ![s].st = "open",
                      ![s].ctx = [@ EXCEPT !.s = out.s, !.ord = OrdBase, !.mss = SignerFor(s, ep, ch1, ep1)],
                      ![s].key = key,
                      ![s].shape = [ep |-> ep, ch1 |-> ch1, ep1 |-> ep1, psks |-> psks, ntrus |-> ntrus]]
      /\ wire' = [wire EXCEPT ![s].hdr = out.b]
      /\ ledger' = [ledger EXCEPT ![s].hdr = out.b]
      /\ UNCHANGED <<tampers, recv, rg>>

(* mam_msg_send_packet.  MAM_ASSERT(mss) for a signed packet.              *)
SendPkt(s, ck, p) ==
  LET ctx == sender[s].ctx
      out == SendPacket(ctx.s, ctx.ord, ctx.mss, ck, p, PayloadLen[p])
  IN  /\ sender[s].st = "open"
      /\ Len(wire[s].pkts) < MaxPackets
      /\ ck = ChecksumMssig => ctx.mss # NULL
      /\ sender' = [sender EXCEPT ![s].ctx.s = out.s,
                      ![s].sent = Append(@, [p |-> p, ck |-> ck, ord |-> ctx.ord])]
      /\ wire' = [wire EXCEPT ![s].pkts = Append(@, out.b)]
      /\ ledger' = [ledger EXCEPT ![s].pkts = Append(@, out.b)]
      /\ UNCHANGED <<tampers, recv, rg>>

(* The application persists the context and drops the in-memory copy.    *)
(* Serializing reads ctx->mss->root, so the signer must be attached.      *)
SenderSuspend(s) ==
  /\ sender[s].st = "open"
  /\ sender[s].ctx.mss # NULL
  /\ sender' = [sender EXCEPT ![s].st = "suspended", ![s].blob = SendCtxSerialize(sender[s].ctx),
                              ![s].ctx = NoCtx]
  /\ UNCHANGED <<wire, ledger, tampers, recv, rg>>

SenderResume(s) ==
  /\ sender[s].st = "suspended"
  /\ sender' = [sender EXCEPT ![s].st = "open", ![s].ctx = SendCtxDeserialize(sender[s].blob)]
  /\ UNCHANGED <<wire, ledger, tampers, recv, rg>>

(* The application looks the signing key up by the restored mss_root.     *)
AttachSigner(s) ==
  /\ sender[s].st = "open"
  /\ sender[s].ctx.mss = NULL
  /\ sender' = [sender EXCEPT ![s].ctx.mss = sender[s].ctx.root]
  /\ UNCHANGED <<wire, ledger, tampers, recv, rg>>

(* The application advances the ordinal between packets.                   *)
SenderAdvanceOrd(s) ==
  /\ sender[s].st = "open"
  /\ sender[s].adv < MaxOrd
  /\ sender' = [sender EXCEPT ![s].ctx.ord = @ + 1, ![s].adv = @ + 1]
  /\ UNCHANGED <<wire, ledger, tampers, recv, rg>>

---------------------------------------------------------------------------
(* Adversary: the ledger is public and fragments travel unprotected.      *)

PskIds == UNION {UNION PskChoices[s] : s \in Senders} \cup RecvPsks

(* Values of the same layout a flipped field may take.  sigsize is not    *)
(* altered, and paysize only to a SizeEdits value larger than the payload: *)
(* either way the reader would take the following fields at other offsets *)
(* than the writer put them, which buffers of fields do not represent.    *)
Alternatives(f) ==
  CASE f.k = "version"                  -> {1}
    [] f.k = "pubkey"                   -> {4}
    [] f.k \in {"keyload", "checksum"}  -> {3}
    [] f.k = "typeid"                   -> {1}
    [] f.k = "paysize"                  -> {n \in SizeEdits : n > f.v}
    [] f.k = "count"                    -> {f.v + 1} \cup (IF f.v > 0 THEN {f.v - 1} ELSE {})
    [] f.k = "pskid"                    -> PskIds \ {f.v}
    [] f.k \in {"epid", "id", "ntruid"} -> {Junk}
    [] f.k \in {"ekey", "payload"}      -> {JunkCipher}
    [] f.k = "ntrukey"                  -> {JunkNtru}
    [] f.k = "sig"                      -> {JunkSig}
    [] f.k = "mac"                      -> {<<>>}
    [] OTHER                            -> {}

TamperHdr(s, i, v) ==
  /\ tampers < MaxTamper
  /\ ledger' = [ledger EXCEPT ![s].hdr[i].v = v]
  /\ tampers' = tampers + 1
  /\ UNCHANGED <<sender, wire, recv, rg>>

TamperPkt(s, j, i, v) ==
  /\ tampers < MaxTamper
  /\ ledger' = [ledger EXCEPT ![s].pkts[j][i].v = v]
  /\ tampers' = tampers + 1
  /\ UNCHANGED <<sender, wire, recv, rg>>

(* A fragment is lost: the buffer ends early.                              *)
LoseHdrTail(s) ==
  /\ tampers < MaxTamper
  /\ ledger[s].hdr # <<>>
  /\ ledger' = [ledger EXCEPT ![s].hdr = Front(@)]
  /\ tampers' = tampers + 1
  /\ UNCHANGED <<sender, wire, recv, rg>>

LosePktTail(s, j) ==
  /\ tampers < MaxTamper
  /\ ledger' = [ledger EXCEPT ![s].pkts[j] = Front(@)]
  /\ tampers' = tampers + 1
  /\ UNCHANGED <<sender, wire, recv, rg>>

---------------------------------------------------------------------------
(* Receiver actions.                                                        *)

PayloadsOf(s) == [i \in 1..Len(sender[s].sent) |-> sender[s].sent[i].p]

(* A sender that really owns the channel it claims.                        *)
Honest(s) == Ident[s].ch = ChannelId /\ Ident[s].chkey = ChannelId

(* The receiver reads s's header as s wrote it, s owns the channel, and   *)
(* the receiver holds a key for the keyload if it has entries.             *)
CleanHeader(s) ==
  LET sh == sender[s].shape
  IN  /\ ledger[s].hdr = wire[s].hdr
      /\ Honest(s)
      /\ sh.psks \cup sh.ntrus # {} => (sh.psks \cap RecvPsks) \cup (sh.ntrus \cap RecvNtrus) # {}

(* The receiver reads the next packet of the same sender as written, with *)
(* a buffer that holds it, and at the ordinal it was sent with.            *)
CleanPacket(s, j, buf, allocOk) ==
  /\ s = rg.src
  /\ j = Len(rg.delivered) + 1
  /\ ledger[s].pkts[j] = wire[s].pkts[j]
  /\ IF buf = NULL THEN allocOk ELSE PayloadLen[sender[s].sent[j].p] <= buf
  /\ recv.ctx.ord = sender[s].sent[j].ord

(* The application copies the channel id into ctx->pk, as the test does  *)
(* before every call (test_message.c 138), sets ord and calls            *)
(* mam_msg_recv on s's header.                                              *)
Recv(s) ==
  LET out == MsgRecv(ledger[s].hdr, ChannelId, MsgId, RecvPsks, RecvNtrus)
  IN  /\ recv.st # "suspended"
      /\ ledger[s].hdr # <<>>
      /\ recv' = [st |-> IF out.rc = OK THEN "open" ELSE "failed",
                  ctx |-> [s |-> out.s, pk |-> out.pk, ord |-> OrdBase], blob |-> <<>>, adv |-> 0]
      /\ rg' = [src |-> s, delivered |-> <<>>, auth |-> 0, key |-> out.key,
                clean |-> CleanHeader(s), signers |-> rg.signers, overalloc |-> FALSE,
                freedcaller |-> FALSE]
      /\ UNCHANGED <<sender, wire, ledger, tampers>>

(* mam_msg_recv_packet on packet j of s.  The history records a call to   *)
(* trits_alloc for more trits than the packet holds, and a trits_free of  *)
(* a slice of the caller's payload buffer.                                 *)
RecvPkt(s, j, buf, allocOk) ==
  LET out == RecvPacket(recv.ctx.s, recv.ctx.ord, recv.ctx.pk, ledger[s].pkts[j], buf, allocOk)
      ok  == out.rc = OK
  IN  /\ recv.st = "open"
      /\ Len(rg.delivered) < MaxReads
      /\ recv' = [recv EXCEPT !.st = IF ok THEN "open" ELSE "failed", !.ctx.s = out.s]
      /\ rg' = [rg EXCEPT
                  !.delivered = IF ok THEN Append(@, out.payload) ELSE @,
                  !.auth = IF ok /\ out.ck \in {ChecksumMac, ChecksumMssig} THEN Len(rg.delivered) + 1 ELSE @,
                  !.signers = IF ok /\ out.ck = ChecksumMssig THEN @ \cup {recv.ctx.pk} ELSE @,
                  !.clean = @ /\ CleanPacket(s, j, buf, allocOk),
                  !.overalloc = @ \/ out.alloc > Written(ledger[s].pkts[j]),
                  !.freedcaller = @ \/ out.freed = "caller"]
      /\ UNCHANGED <<sender, wire, ledger, tampers>>

ReceiverSuspend ==
  /\ recv.st = "open"
  /\ recv' = [recv EXCEPT !.st = "suspended", !.blob = RecvCtxSerialize(recv.ctx),
                          !.ctx = [s |-> SpongosInit, pk |-> NULL, ord |-> 0]]
  /\ UNCHANGED <<sender, wire, ledger, tampers, rg>>

ReceiverResume ==
  /\ recv.st = "suspended"
  /\ recv' = [recv EXCEPT !.st = "open", !.ctx = RecvCtxDeserialize(recv.blob)]
  /\ UNCHANGED <<sender, wire, ledger, tampers, rg>>

ReceiverAdvanceOrd ==
  /\ recv.st = "open"
  /\ recv.adv < MaxOrd
  /\ recv' = [recv EXCEPT !.ctx.ord = @ + 1, !.adv = @ + 1]
  /\ UNCHANGED <<sender, wire, ledger, tampers, rg>>

---------------------------------------------------------------------------

Next ==
  \/ \E s \in Senders :
       \/ \E ep \in OrNull(Ident[s].ep), ch1 \in OrNull(Ident[s].ch1), ep1 \in OrNull(Ident[s].ep1),
             psks \in PskChoices[s], ntrus \in NtruChoices[s] : Send(s, ep, ch1, ep1, psks, ntrus)
       \/ \E ck \in {ChecksumNone, ChecksumMac, ChecksumMssig}, p \in Payloads : SendPkt(s, ck, p)
       \/ SenderSuspend(s) \/ SenderResume(s) \/ AttachSigner(s) \/ SenderAdvanceOrd(s)
       \/ \E i \in 1..Len(ledger[s].hdr) : \E v \in Alternatives(ledger[s].hdr[i]) : TamperHdr(s, i, v)
       \/ \E j \in 1..Len(ledger[s].pkts) : \E i \in 1..Len(ledger[s].pkts[j]) :
             \E v \in Alternatives(ledger[s].pkts[j][i]) : TamperPkt(s, j, i, v)
       \/ LoseHdrTail(s)
       \/ \E j \in 1..Len(ledger[s].pkts) : LosePktTail(s, j)
       \/ Recv(s)
       \/ \E j \in 1..Len(ledger[s].pkts), buf \in BufChoices :
             \E allocOk \in (IF buf = NULL THEN BOOLEAN ELSE {TRUE}) : RecvPkt(s, j, buf, allocOk)
  \/ ReceiverSuspend \/ ReceiverResume \/ ReceiverAdvanceOrd

Spec == Init /\ [][Next]_vars

---------------------------------------------------------------------------
(* Invariants.                                                              *)

TypeOK ==
  /\ \A s \in Senders :
       /\ sender[s].st \in {"init", "open", "suspended"}
       /\ sender[s].adv \in 0..MaxOrd
       /\ sender[s].ctx.ord \in {0} \cup OrdBase..OrdBase + MaxOrd
       /\ Len(sender[s].sent) = Len(wire[s].pkts)
       /\ Len(wire[s].pkts) <= MaxPackets
       /\ Len(ledger[s].pkts) = Len(wire[s].pkts)
  /\ tampers \in 0..MaxTamper
  /\ recv.st \in {"idle", "open", "failed", "suspended"}
  /\ recv.adv \in 0..MaxOrd
  /\ recv.ctx.ord \in {0} \cup OrdBase..OrdBase + MaxOrd
  /\ rg.src \in Senders
  /\ rg.auth \in 0..Len(rg.delivered)
  /\ rg.clean \in BOOLEAN


(* The ordinal a packet is bound to: the 18 trits trits_put18 makes of    *)
(* ctx->ord (message.c 661, 832), read as a number.                        *)
BoundOrd(ord) == TritsGet18(TritsPut18(ord))

(* Ordinal monotonicity (spec.md 2 and 4.4: the ordinal is a monotonic    *)
(* position marker against reordering and replay; 4.5: a restored context *)
(* behaves as the saved one): the ordinals mam_msg_send_packet binds into *)
(* one sender's packets never decrease, across advances of ctx->ord and   *)
(* suspend/restore of the context (trits_put18 / trits_get18).            *)
OrdMonotonic ==
  \A s \in Senders : \A i \in 1..Len(sender[s].sent) - 1 :
    BoundOrd(sender[s].sent[i].ord) <= BoundOrd(sender[s].sent[i + 1].ord)

(* Size/wrap agreement (spec.md 4.1): the buffer mam_msg_send and         *)
(* mam_msg_send_packet fill is exactly as wide as mam_msg_send_size and    *)
(* mam_msg_send_packet_size predicted for the same arguments.              *)
SizeAgreement ==
  \A s \in Senders : sender[s].st # "init" =>
    LET sh == sender[s].shape IN
    /\ Written(wire[s].hdr) = MsgSendSize(sh.ep, sh.ch1, sh.ep1, Cardinality(sh.psks), Cardinality(sh.ntrus))
    /\ \A j \in 1..Len(wire[s].pkts) :
         Written(wire[s].pkts[j]) = SendPacketSize(sender[s].sent[j].ck, PayloadLen[sender[s].sent[j].p])

(* Round trip (spec.md 8): while the receiver has read, in order and as   *)
(* written, the header and packets of a sender that owns the channel,     *)
(* holds a key for the keyload, passes buffers that fit and keeps its     *)
(* ordinal in step with the sender, no mam_msg_recv / mam_msg_recv_packet *)
(* call fails, the recovered session key is the sender's, and the         *)
(* payloads delivered are the ones sent, in order.  Suspending and        *)
(* restoring either context in between must not change this.              *)
RoundTrip ==
  rg.clean =>
    /\ recv.st # "failed"
    /\ rg.key = sender[rg.src].key
    /\ Len(rg.delivered) <= Len(sender[rg.src].sent)
    /\ rg.delivered = SubSeq(PayloadsOf(rg.src), 1, Len(rg.delivered))

(* Stream integrity (spec.md 4.4, 8 tamper detection): once a packet with *)
(* a MAC or an MSS signature is accepted, every payload delivered up to   *)
(* it, including earlier packets with checksum none, is the payload       *)
(* stream of one sender, in order: no edited, reordered, replayed or      *)
(* foreign packet is accepted before an authenticated one.                *)
AuthenticPrefix ==
  \E s \in Senders :
    /\ rg.auth <= Len(sender[s].sent)
    /\ SubSeq(rg.delivered, 1, rg.auth) = SubSeq(PayloadsOf(s), 1, rg.auth)

(* Key authenticity (spec.md 7(b), 8 irrelevance): a header mam_msg_recv  *)
(* accepts yields the session key its sender encapsulated, never a        *)
(* different key without an error.                                         *)
KeyAuthenticity ==
  recv.st \in {"open", "suspended"} => rg.key = sender[rg.src].key

(* Origin authenticity (spec.md 4.4): a packet whose MSS signature the    *)
(* receiver accepts on channel ChannelId is signed by a key of the        *)
(* channel's owner: the channel itself, its endpoint or a delegate it     *)
(* signed.                                                                  *)
OwnerKeys ==
  LET o == CHOOSE s \in Senders : Honest(s)
  IN  {ChannelId, Ident[o].ep, Ident[o].ch1, Ident[o].ep1} \ {NULL}

OriginAuthenticity == rg.signers \subseteq OwnerKeys

(* Allocation bound (spec.md 1: the sizes validate buffers before         *)
(* unwrapping; spec.md 9: consume exactly N, fail if fewer than N remain): *)
(* mam_msg_recv_packet never asks trits_alloc for more trits than the     *)
(* packet it reads could fill.                                             *)
AllocBounded == ~rg.overalloc

(* Buffer ownership (spec.md 4.4: a caller-supplied fixed buffer is        *)
(* filled, not owned): no mam_msg_recv_packet call, failed or not, frees  *)
(* memory of the payload buffer the caller passed in.                      *)
CallerBufferKept == ~rg.freedcaller

=============================================================================
