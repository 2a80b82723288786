# TLA+ model of the MAM message layer (`src/mam/mam/message.c`)

This directory holds a TLC-checkable model of the Masked Authenticated
Messaging message layer. A sender writes headers and packets into trit
buffers. A receiver reads them back, under an adversary that can edit or
truncate what is published.

## 1. Inventory

### Components and their state

| component | code | state it keeps |
|---|---|---|
| size estimator | `mam_msg_send_size`, `mam_msg_send_packet_size` and the `*_size` helpers (message.c 20–494, 618–646) | none (pure) |
| header codec | `mam_msg_send` 496–616, `mam_msg_recv` 688–814, with the channel, pubkey, signed-id and MAC/MSSIG helpers | `ctx->spongos` (the transcript); `ctx->pk` of the receive context, which on entry is the channel id and on exit is the key packets are verified with |
| keyload engine | `mam_msg_{wrap,unwrap}_keyload_{psk,ntru}` 246–396 and the loops in send and recv | a forked spongos per entry, the session key, `key_found` |
| packet codec | `mam_msg_send_packet` 648–686, `mam_msg_recv_packet` 816–881 | `ctx->spongos`, `ctx->ord`, `ctx->mss` (the signer) |
| context (de)serialization | 883–933 | spongos, ord, mss root (send) or pk (recv) |
| send context across messages | `mam_msg_send` 513–529 on a reused `send_ctx` (test_message.c 228–231, 276–300) | the leaf counters of the MSS trees, which seed the session key and sign ids and packets; `ctx->ord` and `ctx->mss` carried over |
| primitives | spongos, pb3, MSS, NTRU, PRNG (not in `src/`) | idealised in `MamPrimitives`; an MSS tree keeps a leaf counter |

The other files under `src/` do not belong to this layer:

- `types.h`, `logger.h` and `pow.h` are headers with declarations only.
- `test_add_neighbors.c` tests a CIRI API.

`test_message.c` is the caller the model follows.

### How the components interact

1. The sender calls `mam_msg_send` once per message. This writes the header and leaves the transcript in `ctx->spongos`.
2. The sender calls `mam_msg_send_packet` once per packet. Each call continues that transcript: it absorbs `ord`, then the payload size, the encrypted payload and the checksum (none, MAC or MSS signature), then commits.
3. The receiver mirrors this with `mam_msg_recv` and `mam_msg_recv_packet`. Its transcript stays equal to the sender's only while it reads exactly what was written, in order.
4. Between packets, either context can be serialized and restored. A restored send context has no signer (`ctx->mss = NULL`, line 903). The application must attach one again.

### Hard behaviours

Each item below is a hazard listed in `PROJECT.json`:

- Reading packets out of order, twice, at the wrong ordinal or after a suspend/resume. `ord` is absorbed but never checked (line 835).
- An adversary flips a field or cuts a fragment. This includes tampering with the keyload count, the PSK id and ekey, and the pubkey kind.
- Key selection in the keyload loop: one key must be found, and a second key found must equal the first (OVERLOADED). A header that carries keyloads but none for this receiver is IRRELEVANT.
- Who may sign packets. The `epid` branch installs an unsigned key into `ctx->pk`.
- Buffer-size agreement between the estimator and the writer.
- Partial failure of a packet read. The transcript has already moved before the error is returned, and the cleanup frees `p` even when it is a slice of the caller's payload buffer (line 879).
- Allocation from the packet's unauthenticated size field before the packet's length is checked (line 841).
- The 18-trit encoding of `ord` bound into packets (lines 661, 832).
- The session key's nonce: `mam_msg_send` seeds `mam_prng_gen3` with the leaf counter of the endpoint's or channel's tree (lines 513–527), which only a signature by that tree advances.
- Tree exhaustion: `mam_msg_wrap_mssig` does not look at the result of `mam_mss_sign` (line 72). No property covers it; see section 5.
- A send context reused for the next message keeps `ord` and `mss`; only the transcript is re-initialised (line 529).

### What makes each component correct

| property | meaning |
|---|---|
| `SizeAgreement` | the estimator predicts exactly the width the writer produces |
| `RoundTrip` | a clean stream never fails to read, and yields the sender's key and payloads in order |
| `AuthenticPrefix` | once a MAC or MSSIG packet is accepted, the stream delivered up to it is one sender's stream, in order |
| `KeyAuthenticity` | an accepted header yields the sender's session key |
| `OriginAuthenticity` | accepted signatures come from the channel owner's keys |
| `OrdMonotonic` | the ordinals bound into one sender's packets (18 trits of `ctx->ord`) never decrease, across advances and suspend/restore |
| `MessagesReadable` | every message written on a reused send context reads back with its session key and payloads |
| `SessionKeyFresh` | no two messages with recipients share a session key |
| `AllocBounded` | `mam_msg_recv_packet` never asks `trits_alloc` for more trits than the packet could fill |
| `CallerBufferKept` | `mam_msg_recv_packet` never frees memory of the payload buffer the caller passed in |

## 2. Modules

### `MamPrimitives`

The spongos, pb3, MSS and NTRU interfaces. This code is not in `src/`, so every operator is marked `spec_modelled`, and each one is idealised:

- A transcript is the sequence of operations applied to it.
- A MAC is the transcript itself, so it is collision-free.
- Encryption under a different transcript decrypts to `Garbage`.
- A signature is `[signer, msg]`. `MssSign` always signs: the MSS code is not in `src/`, and `test_message.c` signs 21 times with trees of depth 1 and expects every signature to verify. The leaf counter (`MssNextSkn`) only advances; it matters as the session key's nonce.
- An NTRU ciphertext names its recipient.
- `ord` goes through `trits_put18`/`trits_get18` (`TritsPut18`, `TritsGet18`, RECURSIVE): 18 balanced trits, so a value outside ±193710244 comes back as another one. `BoundOrd` in `MamMessage` is the ordinal a packet is bound to.
- The pb3 widths are exact, in trits, including the variable-width `size_t`. `SizeTTrytes` is RECURSIVE.

### `MamCodec`

Every function of message.c as a pure operator.

- **Buffers.** A buffer is a sequence of fields `[k, v, w]`: the element, its value and its width.
- **Writers.** A writer is `[s, b]`: the transcript and the buffer.
- **Readers.** A reader is a record whose `rc` is the `retcode_t`. The `ERR_BIND_RETURN` macro is `Bind`: once `rc` is not OK, the remaining steps are skipped. So every early return of the code is an early return of the operator.
- **Loops.** The keyload loops are RECURSIVE (`WrapKeyloads`, `UnwrapKeyloads`).
- **Hash order.** The HASH_ITER order is `SetToSeq`.

### `MamMessage`

The system. Its state:

- the senders (context, suspended blob, session key, shape of the header, packets sent);
- `wire` (what each sender wrote);
- `ledger` (what is published, as altered);
- the receiver's context;
- the history `rg` of the current receive session. Its `overalloc` and `freedcaller` flags are set from what `RecvPacket` reports about the call: the trits it asked of `trits_alloc` at line 841 (`alloc`) and what `trits_free(p)` released at line 879 (`freed`).

Each action is one whole handler:

| action | code |
|---|---|
| `Send` | `mam_msg_send` |
| `SendPkt` | `mam_msg_send_packet` |
| `Recv` | `mam_msg_recv` |
| `RecvPkt` | `mam_msg_recv_packet` |
| `SenderSuspend` / `SenderResume` | send context serialize / deserialize |
| `ReceiverSuspend` / `ReceiverResume` | receive context serialize / deserialize |

The caller's conventions are taken from `test_message.c`. Each is part of an action or an action of its own:

- `Send` attaches the signer of the announced identity (test lines 93–103).
- `AttachSigner` re-attaches it after a restore.
- `Recv` first copies the channel id into `ctx->pk` (test line 138).
- `Send` and `Recv` set `ord` to `OrdBase` (the test uses 0, lines 153 and 230).
- `SenderAdvanceOrd` and `ReceiverAdvanceOrd` increment `ord` between packets, as an application may. They are bounded by `MaxOrd` advances per context.

The adversary has four actions:

- `TamperHdr` and `TamperPkt` replace one field by a value of the same layout (`Alternatives`).
- `LoseHdrTail` and `LosePktTail` drop the last field.

A payload size may be rewritten to any value of `SizeEdits` above the written one that still fits the field's width. A larger size makes the crypt read fail with EOF, because `ReadCrypt` checks that the buffer holds the announced width, as `pb3_unwrap_crypt_ntrytes` does. With a NULL payload, `trits_alloc` has already been asked for the larger size by then. Edits that change a size's width, and edits of `sigsize`, are not generated. The "other" value of a oneof covers the bad-discriminator paths.

### `MamSession`

One send context used for a sequence of messages, as `message_test_generic` uses `send_ctx` for all 36 of its messages. Its state:

- `ctx`: the send context (`spongos`, `ord`, `mss`);
- `skn`: the leaf counter of each of the four MSS trees (`Ch`, `Ep`, `Ch1`, `Ep1`);
- `log`: every message written, with its arguments, session key, header and packets.

| action | code |
|---|---|
| `Send` | `mam_msg_send`: the session key from `mam_prng_gen3` with `skn` of the endpoint's or channel's tree as nonce, the header (the channel tree signs a chid1/epid1 id), then the packet signer of test lines 93–103 |
| `SendPkt` | `mam_msg_send_packet` on the current message; an MSSIG packet uses the attached tree's next leaf |

The properties read every logged message back the way the test does: a fresh receive context with the channel id as `pk`, `mam_msg_recv`, then `mam_msg_recv_packet` on each packet in order (`ReadsBack`). In `MamMessage` each sender sends one message on fresh trees, so the nonce it reads is 0 and the counters are not kept there.

### `MC_MamSession`

One context with the four trees of the test, PSK B held by the receiver, one payload of one tryte.

### `MC_MamMessage`

Instantiates the model with the identities of `test_message.c`:

- channel `Ch` with endpoint `Ep`, delegate channel `Ch1` and delegate endpoint `Ep1`;
- PSKs A and B, and one NTRU key;
- a second sender `Eve`, who claims the same channel id but holds only her own keys.

## 3. Runs

| run | expect | what it shows |
|---|---|---|
| `roundtrip` (`MC_roundtrip.cfg`) | pass | See below. About 460k states, 1.5 min on two workers. |
| `ord` (`MC_ord.cfg`) | pass | Both sides advance `ord` (0..1) and suspend/restore. Clean in-step reads never fail (`RoundTrip`). A packet read at another ordinal is never accepted by MAC or MSSIG (`AuthenticPrefix`). The bound ordinals of one sender's packets never decrease (`OrdMonotonic`). About 410k states. |
| `tamper` (`MC_tamper.cfg`) | pass | One edit or lost fragment anywhere in the header or in two packets never leads to an accepted MAC or MSSIG packet with a wrong stream (`AuthenticPrefix`). About 600k states. |
| `psk_tamper` | violation | `KeyAuthenticity`: a flipped PSK ekey is accepted with RC_OK and key `Garbage`. |
| `eve_epid` | violation | `OriginAuthenticity`: Eve's header names her endpoint as unsigned `epid`, and her MSSIG packet is accepted on the owner's channel. |
| `ord_wrap` | violation | `OrdMonotonic`: a sender starts at `OrdBase = 193710244`, the last ordinal 18 trits hold, and advances `ord` once. `trits_put18` binds the next packet to −193710244 (line 661), with or without a suspend/restore in between. |
| `session` (`MC_session.cfg`) | pass | Two messages of up to two packets on one reused context. Every pubkey combination, public or PSK keyload, each checksum, and the test's trees of depth 1, which the channel tree signs past. `MessagesReadable` holds. About 17k states. |
| `alloc_size` | violation | `AllocBounded`: the adversary rewrites a published packet's one-tryte size to 13. A receiver with a NULL payload calls `trits_alloc` for 39 trits (line 841) before `pb3_unwrap_crypt_ntrytes` fails with EOF (line 848). The size is not authenticated when it is used. |
| `caller_free` | violation | `CallerBufferKept`: the receiver reads the second packet first into a buffer of its own. The MAC check fails, and the cleanup calls `trits_free(p)` on the slice `pb3_trits_take` took of the caller's buffer (lines 846, 879). |
| `key_reuse` | violation | `SessionKeyFresh`: two messages with the PSK keyload and no signature by the nonce tree between them get the same session key (its leaf counter is 0 for both). |

The `roundtrip` run covers:

- the owner, with every pubkey shape (chid, epid, chid1, epid1);
- the keyloads: none, {A}, {A, B}, NTRU, and mixed;
- two packets, with each checksum kind and each payload, read in any order and repeatedly;
- buffers NULL (with OOM) and too small;
- suspend and resume of both contexts.

In this run, `SizeAgreement`, `RoundTrip` and `AuthenticPrefix` hold.

Every violation run is reported as a finding in `PROJECT.json`.

Every property of every passing run has a mutant in `PROJECT.json`. A mutant is a plausible bug of the mapped code, such as:

- an unchecked MAC;
- a signature check that ignores the digest;
- a swapped pubkey precedence in the estimator;
- fields restored in the wrong order;
- a transcript that is not restored;
- `ord` that is not absorbed;
- a header that continues the transcript left in a reused context;
- no packet signer attached for the plain channel id.

TLC finds each mutant's property violated.

### Bounds

- **Packets.** `MaxPackets = 2` is the smallest bound at which reordering and replay exist.
- **Reads.** `MaxReads = 2` caps how many packets one receive session delivers. Without it, re-reading a checksum-none packet grows the history forever.
- **Tampering.** `MaxTamper = 1`: every single-field edit is tried. Two edits add nothing new for a collision-free transcript.
- **Ordinals.** `MaxOrd = 1` makes a mismatched ordinal possible.
- **MSS height.** `MssHeight = 1`, the test's depth, only changes widths.
- **Payloads.** The payload lengths 1 and 2 trytes give `RC_MAM_BUFFER_TOO_SMALL` with a 1-tryte buffer.
- **Messages per context.** `MaxMsgs = 2` in `MamSession` is the smallest bound at which a message follows another on the same context. Three messages take about 2.2M states and 3 minutes, and add no new interaction.
- **MSS height in `MamSession`.** Height 1, the test's `TEST_MSS_DEPTH`: leaf counters still go up to 6, which is what the session key's nonce depends on.

### Fairness and deadlock

No liveness is claimed, and there is no fairness. Every step is a call the application chooses to make, and the code has no scheduler or retry loop. In `MamMessage`, `Recv` stays enabled once a header exists, so deadlock is checked in every run. `MamSession` has only the sender, and a sender may stop sending at any point; its runs set `CHECK_DEADLOCK FALSE`.

## 4. Plan for later sittings

Work is listed in order of importance:

Done so far:
- the 18-trit `ord` bound into packets (runs `ord`, `ord_wrap`);
- several messages on one send context, leaf counters and session-key reuse (runs `session`, `key_reuse`);
- allocation from an unauthenticated size (run `alloc_size`);
- the cleanup free of a caller's buffer (run `caller_free`).

Left, in order:
1. **Retry after a partial failure.** A second `mam_msg_recv_packet` on a context whose previous call failed after absorbing `ord` and the size (`RC_MAM_BUFFER_TOO_SMALL`, line 845). spec.md says such a context must be discarded; the model marks the receiver failed.
2. **An abstract channel with several publishers.** With one sender, a refinement to an authenticated-stream specification says no more than `AuthenticPrefix`. With Eve on the owner's channel id, the `epid` branch breaks it (run `eve_epid`). So no refinement is kept until a mapping can say something `AuthenticPrefix` does not.

## 5. Not modelled

- **Trit-level encodings.** The sponge permutation, Merkle trees and NTRU arithmetic are idealised: a MAC or signature collision is impossible in the model.
- **Width-changing size edits.** A size rewritten to a wider encoding shifts every later field. It ends in EOF or a misparse, which truncation and same-width edits already reach.
- **HASH_ITER order.** Entries are taken in one fixed order (the receiver's outcome does not depend on it).
- **Headers outside message.c.** `types.h`, `logger.h`, `pow.h` and `test_add_neighbors.c`.
- **What `mam_mss_sign` does past the last leaf.** The MSS code is not in `src/`. `test_message.c` expects signatures past the last leaf of its depth-1 trees to verify, so the model signs there. The reuse of a one-time key that this implies is not represented.
- **Wiping of session keys.** `mam_msg_recv` leaves the session key in `session_key_trits` on the stack and never zeroes it (spec.md 5 asks for it on every exit path). The model has no memory to wipe, so a property about it would only restate the code. It is not checked.
- **A receive context reused without resetting `ctx->pk`.** After an epid, chid1 or epid1 header, `ctx->pk` holds that id, and a second `mam_msg_recv` on the same context would read it as the channel id. The test copies the channel id in before every call (line 138), and spec.md 3 makes one context per message, so the model always resets it.
- **Liveness.** No fairness is assumed. Every step is a call the application chooses to make, and message.c has no loop, retry or scheduler that would justify one.
