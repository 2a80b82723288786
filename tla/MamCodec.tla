------------------------------ MODULE MamCodec ------------------------------
(***************************************************************************)
(* The message codec of src/mam/mam/message.c as pure operators: the size  *)
(* estimator (the *_size functions), the wrap functions that write a      *)
(* header or a packet, and the unwrap functions that read one back.       *)
(*                                                                         *)
(* A buffer is a sequence of fields [k, v, w]: the element written (k,     *)
(* e.g. "pubkey", "pskid"), its value and its width in trits.  A writer    *)
(* is [s, b]: the transcript and the buffer written so far.  A reader is   *)
(* a record whose field rc is the retcode_t; the ERR_*_RETURN macros are  *)
(* Bind: once rc is not RC_OK the remaining steps are skipped.            *)
(***************************************************************************)
EXTENDS Integers, Sequences, FiniteSets, SequencesExt, MamPrimitives

CONSTANTS
  NULL,      (* a null pointer: no endpoint / delegate / signer            *)
  ZeroKey,   (* the all-zero session key of public mode                    *)
  MssHeight  (* height of every Merkle tree (TEST_MSS_DEPTH)               *)

(* mam_msg_pubkey_t, mam_msg_keyload_t, mam_msg_checksum_t                 *)
PubkeyChid == 0
PubkeyEpid == 1
PubkeyChid1 == 2
PubkeyEpid1 == 3
KeyloadPsk == 1
KeyloadNtru == 2
ChecksumNone == 0
ChecksumMac == 1
ChecksumMssig == 2

OK == "RC_OK"

(* The secret of a pre-shared key with identifier id.                      *)
PskSecret(id) == <<"psk", id>>

---------------------------------------------------------------------------
(* Writers: pb3_wrap_absorb_*, pb3_absorb_external_*, commit, crypt.      *)

Field(k, v, w) == [k |-> k, v |-> v, w |-> w]

WriteAbsorb(wr, k, pb3, v, w) ==
  [s |-> SpongosAbsorb(wr.s, pb3, v), b |-> Append(wr.b, Field(k, v, w))]

AbsorbExternal(wr, pb3, v) == [wr EXCEPT !.s = SpongosAbsorb(@, pb3, v)]

Commit(wr) == [wr EXCEPT !.s = SpongosCommit(@)]

(* pb3_trits_take: trits written to the buffer, not absorbed.             *)
WriteSkip(wr, k, v, w) == [wr EXCEPT !.b = Append(@, Field(k, v, w))]

WriteCrypt(wr, k, x, w) ==
  [s |-> SpongosCrypt(wr.s, x), b |-> Append(wr.b, Field(k, SpongosEncr(wr.s, x), w))]

(* Width of everything written: what the caller's buffer must hold.       *)
Written(b) == FoldLeft(LAMBDA acc, f : acc + f.w, 0, b)

---------------------------------------------------------------------------
(* Size estimator.                                                         *)

MacSize == Pb3SizeofNtrytes(81)

MssigSize(h) ==
  LET sz == MssSigSize(h) \div 3 IN Pb3SizeofSizeT(sz) + Pb3SizeofNtrytes(sz)

SignedidSize(h) == Pb3SizeofNtrytes(81) + MssigSize(h)

ChannelWrapSize == Pb3SizeofTryte

PubkeyEpidSize == Pb3SizeofNtrytes(81)

KeyloadPskSize == Pb3SizeofNtrytes(27) + Pb3SizeofNtrytes(81)

KeyloadNtruSize == Pb3SizeofNtrytes(27) + Pb3SizeofNtrytes(3072)

(* Mutant: the pubkey precedence tested in another order than mam_msg_send *)
MsgSendSizeEpFirst(ep, ch1, ep1, npsk, nntru) ==
  ChannelWrapSize + Pb3SizeofOneof
  + (IF ep # NULL THEN PubkeyEpidSize
     ELSE IF ch1 # NULL THEN SignedidSize(MssHeight)
     ELSE IF ep1 # NULL THEN SignedidSize(MssHeight)
     ELSE 0)
  + Pb3SizeofTrint
  + (Pb3SizeofOneof + KeyloadPskSize) * npsk
  + (Pb3SizeofOneof + KeyloadNtruSize) * nntru
  + Pb3SizeofRepeated(npsk + nntru)

(* mam_msg_send_size: ep, ch1, ep1 are NULL or an identifier.              *)
MsgSendSize(ep, ch1, ep1, npsk, nntru) ==
  ChannelWrapSize
  + Pb3SizeofOneof
  + (IF ch1 # NULL THEN SignedidSize(MssHeight)
     ELSE IF ep1 # NULL THEN SignedidSize(MssHeight)
     ELSE IF ep # NULL THEN PubkeyEpidSize
     ELSE 0)
  + Pb3SizeofTrint
  + (Pb3SizeofOneof + KeyloadPskSize) * npsk
  + (Pb3SizeofOneof + KeyloadNtruSize) * nntru
  + Pb3SizeofRepeated(npsk + nntru)

(* mam_msg_send_packet_size; len is the payload length in trytes.         *)
SendPacketSize(ck, len) ==
  Pb3SizeofSizeT(len) + Pb3SizeofNtrytes(len) + Pb3SizeofOneof
  + CASE ck = ChecksumNone  -> 0
      [] ck = ChecksumMac   -> MacSize
      [] ck = ChecksumMssig -> MssigSize(MssHeight)

---------------------------------------------------------------------------
(* Wrap.                                                                   *)

(* mam_msg_wrap_mac: commit; squeeze tryte mac[81]                         *)
WrapMac(wr) ==
  LET c == Commit(wr)
  IN  [s |-> SpongosSqueeze(c.s), b |-> Append(c.b, Field("mac", SpongosMac(c.s), MacSize))]

(* mam_msg_wrap_mssig: commit; external squeeze mac; absorb size_t sz;    *)
(* sign the mac into the next sz trytes with key's tree.                 *)
(* The result of mam_mss_sign is not looked at.                             *)
WrapMssig(wr, key) ==
  LET c  == Commit(wr)
      sz == MssSigSize(MssHeight) \div 3
      c1 == WriteAbsorb([c EXCEPT !.s = SpongosSqueeze(@)], "sigsize", "size_t", sz, Pb3SizeofSizeT(sz))
  IN  WriteSkip(c1, "sig", MssSign(key, SpongosMac(c.s)), Pb3SizeofNtrytes(sz))

(* mam_msg_wrap_signedid (chid1, epid1): absorb id; MSSig under key.      *)
WrapSignedid(wr, id, key) ==
  WrapMssig(WriteAbsorb(wr, "id", "ntrytes", id, Pb3SizeofNtrytes(81)), key)

(* mam_msg_channel_wrap: absorb tryte version; absorb external chid.      *)
ChannelWrap(wr, version, chid) ==
  AbsorbExternal(WriteAbsorb(wr, "version", "tryte", version, Pb3SizeofTryte), "ntrytes", chid)

(* mam_msg_wrap_keyload_psk on the fork: absorb id; absorb external psk;  *)
(* commit; crypt the session key.                                          *)
WrapKeyloadPsk(wr, key, id) ==
  LET c == Commit(AbsorbExternal(WriteAbsorb(wr, "pskid", "ntrytes", id, Pb3SizeofNtrytes(27)),
                                 "ntrytes", PskSecret(id)))
  IN  WriteCrypt(c, "ekey", key, Pb3SizeofNtrytes(81))

(* mam_msg_wrap_keyload_ntru on the fork: absorb id; write the NTRU       *)
(* encryption of the key, then absorb it.                                   *)
WrapKeyloadNtru(wr, key, pk) ==
  LET c    == WriteAbsorb(wr, "ntruid", "ntrytes", pk, Pb3SizeofNtrytes(27))
      ekey == NtruEncr(pk, key)
  IN  [s |-> SpongosAbsorb(c.s, "ntrytes", ekey),
       b |-> Append(c.b, Field("ntrukey", ekey, Pb3SizeofNtrytes(3072)))]

(* One keyload entry: absorb oneof on the main transcript, fork, wrap the *)
(* entry on the fork.  The main transcript does not see the entry.         *)
WrapKeyload(wr, key, e) ==
  LET m == WriteAbsorb(wr, "keyload", "tryte", e.kind, Pb3SizeofOneof)
      f == IF e.kind = KeyloadPsk THEN WrapKeyloadPsk([m EXCEPT !.s = SpongosFork(@)], key, e.id)
                                  ELSE WrapKeyloadNtru([m EXCEPT !.s = SpongosFork(@)], key, e.id)
  IN  [s |-> m.s, b |-> f.b]

RECURSIVE WrapKeyloads(_, _, _)
WrapKeyloads(wr, key, es) ==
  IF es = <<>> THEN wr ELSE WrapKeyloads(WrapKeyload(wr, key, Head(es)), key, Tail(es))

(* The keyload entries in the order the HASH_ITER loops visit them: all   *)
(* PSKs, then all NTRU keys; within a set the order is the hash order.     *)
KeyloadEntries(psks, ntrus) ==
  [i \in 1..Cardinality(psks) |-> [kind |-> KeyloadPsk, id |-> SetToSeq(psks)[i]]]
  \o [i \in 1..Cardinality(ntrus) |-> [kind |-> KeyloadNtru, id |-> SetToSeq(ntrus)[i]]]

(* The tree whose leaf counter mam_msg_send reads (mam_mss_skn) into the *)
(* nonce of the session key: the endpoint's if one is given, else the    *)
(* channel's.                                                               *)
SknSource(chkey, ep) == IF ep # NULL THEN ep ELSE chkey

(* Mutant: the header continues the transcript left in the context.       *)
MsgSendNoInit(s0, ch, chkey, ep, ch1, ep1, msgid, typeid, psks, ntrus, key) ==
  LET w0 == ChannelWrap([s |-> s0, b |-> <<>>], 0, ch)
      w1 == IF ch1 # NULL
              THEN WrapSignedid(WriteAbsorb(w0, "pubkey", "tryte", PubkeyChid1, Pb3SizeofOneof), ch1, chkey)
            ELSE IF ep1 # NULL
              THEN WrapSignedid(WriteAbsorb(w0, "pubkey", "tryte", PubkeyEpid1, Pb3SizeofOneof), ep1, chkey)
            ELSE IF ep # NULL
              THEN WriteAbsorb(WriteAbsorb(w0, "pubkey", "tryte", PubkeyEpid, Pb3SizeofOneof),
                               "epid", "ntrytes", ep, Pb3SizeofNtrytes(81))
            ELSE WriteAbsorb(w0, "pubkey", "tryte", PubkeyChid, Pb3SizeofOneof)
      w2 == WriteAbsorb(AbsorbExternal(w1, "ntrytes", msgid), "typeid", "trint", typeid, Pb3SizeofTrint)
      n  == Cardinality(psks) + Cardinality(ntrus)
      w3 == WrapKeyloads(WriteAbsorb(w2, "count", "size_t", n, Pb3SizeofSizeT(n)),
                         key, KeyloadEntries(psks, ntrus))
  IN  Commit(AbsorbExternal(w3, "ntrytes", key))

(* mam_msg_send: the header.  s0 is ctx->spongos on entry, which the code *)
(* re-initialises; ch is the channel id absorbed externally, chkey the    *)
(* key of ch->mss that signs a delegate id, key the session key         *)
(* (generated by the caller, see SessionKey).                             *)
MsgSend(s0, ch, chkey, ep, ch1, ep1, msgid, typeid, psks, ntrus, key) ==
  LET w0 == ChannelWrap([s |-> SpongosInit, b |-> <<>>], 0, ch)
      w1 == IF ch1 # NULL
              THEN WrapSignedid(WriteAbsorb(w0, "pubkey", "tryte", PubkeyChid1, Pb3SizeofOneof), ch1, chkey)
            ELSE IF ep1 # NULL
              THEN WrapSignedid(WriteAbsorb(w0, "pubkey", "tryte", PubkeyEpid1, Pb3SizeofOneof), ep1, chkey)
            ELSE IF ep # NULL
              THEN WriteAbsorb(WriteAbsorb(w0, "pubkey", "tryte", PubkeyEpid, Pb3SizeofOneof),
                               "epid", "ntrytes", ep, Pb3SizeofNtrytes(81))
            ELSE WriteAbsorb(w0, "pubkey", "tryte", PubkeyChid, Pb3SizeofOneof)
      w2 == WriteAbsorb(AbsorbExternal(w1, "ntrytes", msgid), "typeid", "trint", typeid, Pb3SizeofTrint)
      n  == Cardinality(psks) + Cardinality(ntrus)
      w3 == WrapKeyloads(WriteAbsorb(w2, "count", "size_t", n, Pb3SizeofSizeT(n)),
                         key, KeyloadEntries(psks, ntrus))
  IN  Commit(AbsorbExternal(w3, "ntrytes", key))

(* Session key choice of mam_msg_send: zero iff both sets are empty.      *)
SessionKey(psks, ntrus, fresh) == IF psks = {} /\ ntrus = {} THEN ZeroKey ELSE fresh

(* mam_msg_send_packet; the packet is written to a fresh buffer.          *)
SendPacket(s, ord, mss, ck, p, len) ==
  LET w0 == AbsorbExternal([s |-> s, b |-> <<>>], "ntrytes", TritsPut18(ord))
      w1 == WriteAbsorb(w0, "paysize", "size_t", len, Pb3SizeofSizeT(len))
      w2 == WriteAbsorb(WriteCrypt(w1, "payload", p, Pb3SizeofNtrytes(len)),
                        "checksum", "tryte", ck, Pb3SizeofOneof)
      w3 == CASE ck = ChecksumNone  -> w2
              [] ck = ChecksumMac   -> WrapMac(w2)
              [] ck = ChecksumMssig -> WrapMssig(w2, mss)
  IN  Commit(w3)

---------------------------------------------------------------------------
(* Unwrap.  A reader is [rc, s, b, pos, v, ...]: the transcript, the      *)
(* buffer, the cursor and the value read last.                             *)

Bind(r, Step(_)) == IF r.rc = OK THEN Step(r) ELSE r

Fail(r, rc) == [r EXCEPT !.rc = rc]

AtEof(r) == r.pos > Len(r.b)

(* pb3_unwrap_absorb_*: fails with RC_MAM_PB3_EOF past the end.           *)
ReadAbsorb(r, pb3) ==
  IF AtEof(r) THEN Fail(r, "RC_MAM_PB3_EOF")
  ELSE [r EXCEPT !.v = r.b[r.pos].v, !.pos = @ + 1, !.s = SpongosAbsorb(@, pb3, r.b[r.pos].v)]

(* Width of what is left of the buffer from the cursor on.               *)
Remaining(r) == Written(SubSeq(r.b, r.pos, Len(r.b)))

(* pb3_unwrap_crypt_ntrytes of w trits: fails with RC_MAM_PB3_EOF unless  *)
(* the buffer still holds w trits.                                          *)
ReadCrypt(r, w) ==
  IF AtEof(r) \/ Remaining(r) < w THEN Fail(r, "RC_MAM_PB3_EOF")
  ELSE LET x == SpongosDecr(r.s, r.b[r.pos].v)
       IN  [r EXCEPT !.v = x, !.pos = @ + 1, !.s = SpongosCrypt(@, x)]

(* pb3_trits_take after the size guard: skip one element unread.          *)
ReadSkip(r) == IF AtEof(r) THEN Fail(r, "RC_MAM_PB3_EOF") ELSE [r EXCEPT !.pos = @ + 1]

ReadExternal(r, pb3, x) == [r EXCEPT !.s = SpongosAbsorb(@, pb3, x)]

ReadCommit(r) == [r EXCEPT !.s = SpongosCommit(@)]

(* Mutant: the squeezed mac is read but not compared.                     *)
UnwrapMacNoCompare(r) ==
  LET c == ReadCommit(r)
  IN  IF AtEof(c) THEN Fail(c, "RC_MAM_PB3_EOF") ELSE [c EXCEPT !.pos = @ + 1, !.s = SpongosSqueeze(@)]

(* mam_msg_unwrap_mac: commit; squeeze the mac and compare.                *)
UnwrapMac(r) ==
  LET c == ReadCommit(r)
  IN  IF AtEof(c) THEN Fail(c, "RC_MAM_PB3_EOF")
      ELSE IF c.b[c.pos].v # SpongosMac(c.s) THEN Fail(c, "RC_MAM_PB3_BAD_MAC")
      ELSE [c EXCEPT !.pos = @ + 1, !.s = SpongosSqueeze(@)]

(* Mutant: the signature is checked against pk but not against the mac.  *)
UnwrapMssigNoDigest(r, pk) ==
  LET c   == ReadCommit(r)
      Verify(q) == IF AtEof(q) THEN Fail(q, "RC_MAM_PB3_EOF")
                   ELSE IF q.b[q.pos].v.signer # pk THEN Fail(q, "RC_MAM_PB3_BAD_SIG")
                   ELSE [q EXCEPT !.pos = @ + 1]
  IN  Bind(ReadAbsorb([c EXCEPT !.s = SpongosSqueeze(@)], "size_t"), Verify)

(* mam_msg_unwrap_mssig: commit; external squeeze mac; absorb size_t sz;  *)
(* the signature must be there and verify against pk.                      *)
UnwrapMssig(r, pk) ==
  LET c   == ReadCommit(r)
      mac == SpongosMac(c.s)
      Verify(q) == IF AtEof(q) THEN Fail(q, "RC_MAM_PB3_EOF")
                   ELSE IF ~MssVerify(mac, q.b[q.pos].v, pk) THEN Fail(q, "RC_MAM_PB3_BAD_SIG")
                   ELSE [q EXCEPT !.pos = @ + 1]
  IN  Bind(ReadAbsorb([c EXCEPT !.s = SpongosSqueeze(@)], "size_t"), Verify)

(* mam_msg_unwrap_signedid: the id read is stored into ctx->pk (field pk) *)
(* before its signature is verified against chid.                          *)
UnwrapSignedid(r) ==
  LET StoreId(q) == [q EXCEPT !.pk = q.v]
      Sig(q) == UnwrapMssig(q, q.chid)
  IN  Bind(Bind(ReadAbsorb(r, "ntrytes"), StoreId), Sig)

(* A recovered key: the first one is kept, a later one must equal it.     *)
Recovered(r, key2) ==
  IF r.found THEN (IF r.key = key2 THEN r ELSE Fail(r, "RC_MAM_KEYLOAD_OVERLOADED"))
  ELSE [r EXCEPT !.key = key2, !.found = TRUE]

(* mam_msg_unwrap_keyload_psk on the fork; psks is the set of PSK ids.    *)
UnwrapKeyloadPsk(r, psks) ==
  LET Entry(q) ==
        IF q.v \in psks
          THEN LET c == ReadCrypt(ReadCommit(ReadExternal(q, "ntrytes", PskSecret(q.v))), Pb3SizeofNtrytes(81))
               IN  Bind(c, LAMBDA d : Recovered(d, d.v))
          ELSE ReadSkip(q)
  IN  Bind(ReadAbsorb(r, "ntrytes"), Entry)

(* mam_msg_unwrap_keyload_ntru on the fork; ntrus is the set of ids of    *)
(* the NTRU secret keys held.                                               *)
UnwrapKeyloadNtru(r, ntrus) ==
  LET Entry(q) ==
        IF q.v \in ntrus
          THEN IF AtEof(q) THEN Fail(q, "RC_MAM_PB3_EOF")
               ELSE LET ekey == q.b[q.pos].v
                    IN  IF ~NtruDecrOk(q.v, ekey) THEN Fail(q, "RC_MAM_PB3_BAD_EKEY")
                        ELSE Recovered([q EXCEPT !.pos = @ + 1,
                                                 !.s = SpongosAbsorb(@, "ntrytes", ekey)], ekey.pt)
          ELSE ReadSkip(q)
  IN  Bind(ReadAbsorb(r, "ntrytes"), Entry)

(* One iteration of the keyload loop of mam_msg_recv: absorb oneof on the *)
(* main transcript, check its range, fork, unwrap the entry on the fork.  *)
UnwrapKeyload(r, psks, ntrus) ==
  LET Entry(q) ==
        IF ~(1 <= q.v /\ q.v <= 2) THEN Fail(q, "RC_MAM_PB3_BAD_ONEOF")
        ELSE LET f == [q EXCEPT !.s = SpongosFork(@)]
                 g == IF q.v = KeyloadPsk THEN UnwrapKeyloadPsk(f, psks)
                                          ELSE UnwrapKeyloadNtru(f, ntrus)
             IN  [g EXCEPT !.s = q.s]
  IN  Bind(ReadAbsorb(r, "tryte"), Entry)

RECURSIVE UnwrapKeyloads(_, _, _, _)
UnwrapKeyloads(r, n, psks, ntrus) ==
  IF r.rc # OK \/ n = 0 THEN r
  ELSE UnwrapKeyloads(UnwrapKeyload(r, psks, ntrus), n - 1, psks, ntrus)

(* mam_msg_recv.  pk is ctx->pk on entry; the result carries the new       *)
(* transcript, ctx->pk (overwritten by epid, chid1, epid1) and the session *)
(* key.  psks and ntrus are the ids of the keys the receiver holds.        *)
MsgRecv(b, pk, msgid, psks, ntrus) ==
  LET r0 == [rc |-> OK, s |-> SpongosInit, b |-> b, pos |-> 1, v |-> 0,
             pk |-> pk, chid |-> pk, key |-> ZeroKey, found |-> FALSE]
      Version(q) ==
        LET c == ReadExternal(q, "ntrytes", q.chid)
        IN  IF c.v # 0 THEN Fail(c, "RC_MAM_VERSION_NOT_SUPPORTED") ELSE c
      Pubkey(q) ==
        IF ~(0 <= q.v /\ q.v <= 3) THEN Fail(q, "RC_MAM_PB3_BAD_ONEOF")
        ELSE CASE q.v = PubkeyChid1 -> UnwrapSignedid(q)
               [] q.v = PubkeyEpid1 -> UnwrapSignedid(q)
               [] q.v = PubkeyEpid  -> Bind(ReadAbsorb(q, "ntrytes"), LAMBDA d : [d EXCEPT !.pk = d.v])
               [] q.v = PubkeyChid  -> q
      Keyloads(q) ==
        IF q.v > 0
          THEN LET d == UnwrapKeyloads(q, q.v, psks, ntrus)
               IN  IF d.rc = OK /\ ~d.found THEN Fail(d, "RC_MAM_KEYLOAD_IRRELEVANT") ELSE d
          ELSE [q EXCEPT !.key = ZeroKey]
      Finish(q) == ReadCommit(ReadExternal(q, "ntrytes", q.key))
      r1 == Bind(ReadAbsorb(r0, "tryte"), Version)
      r2 == Bind(Bind(r1, LAMBDA q : ReadAbsorb(q, "tryte")), Pubkey)
      r3 == Bind(r2, LAMBDA q : ReadAbsorb(ReadExternal(q, "ntrytes", msgid), "trint"))
      r4 == Bind(Bind(r3, LAMBDA q : ReadAbsorb(q, "size_t")), Keyloads)
  IN  Bind(r4, Finish)

(* Mutant: ord is not absorbed before the packet.                         *)
AbsorbOrdSkipped(s, ord) == s

(* mam_msg_recv_packet: absorb the ordinal (trits_put18) externally.       *)
AbsorbOrd(s, ord) == SpongosAbsorb(s, "ntrytes", TritsPut18(ord))

(* mam_msg_recv_packet.  buf is NULL (allocate) or the capacity in trytes *)
(* of the caller's payload buffer; allocOk says whether trits_alloc        *)
(* succeeds.  The result carries the payload, the checksum kind read, the *)
(* trits asked of trits_alloc (alloc), whose memory p is a slice of       *)
(* ("own": the allocation, "caller": the payload buffer, by               *)
(* pb3_trits_take) and what trits_free(p) at cleanup releases (freed):   *)
(* p on every failure after it was set, nothing on success, where p is   *)
(* handed over and reset.                                                  *)
RecvPacket(s, ord, pk, b, buf, allocOk) ==
  LET r0 == [rc |-> OK, s |-> AbsorbOrd(s, ord), b |-> b, pos |-> 1, v |-> 0,
             sz |-> 0, payload |-> NULL, ck |-> NULL, alloc |-> 0, p |-> "none",
             freed |-> "none"]
      Buffer(q) ==
        LET c == [q EXCEPT !.sz = q.v]
            a == [c EXCEPT !.alloc = Pb3SizeofNtrytes(c.sz)]
        IN  IF buf = NULL THEN (IF allocOk THEN [a EXCEPT !.p = "own"] ELSE Fail(a, "RC_OOM"))
            ELSE IF buf < c.sz THEN Fail(c, "RC_MAM_BUFFER_TOO_SMALL") ELSE [c EXCEPT !.p = "caller"]
      Checksum(q0) ==
        LET q == [q0 EXCEPT !.ck = q0.v] IN
        CASE q.v = ChecksumNone  -> q
          [] q.v = ChecksumMac   -> UnwrapMac(q)
          [] q.v = ChecksumMssig -> UnwrapMssig(q, pk)
          [] OTHER               -> Fail(q, "RC_MAM_PB3_BAD_ONEOF")
      r1 == Bind(ReadAbsorb(r0, "size_t"), Buffer)
      r2 == Bind(r1, LAMBDA q : LET c == ReadCrypt(q, Pb3SizeofNtrytes(q.sz)) IN [c EXCEPT !.payload = c.v])
      r3 == Bind(Bind(r2, LAMBDA q : ReadAbsorb(q, "tryte")), Checksum)
      r4 == Bind(r3, ReadCommit)
  IN  [r4 EXCEPT !.freed = IF r4.rc = OK THEN "none" ELSE r4.p]

=============================================================================
