# Verification of the Modbus/TPM gateways

TLA+ specifications, TLC runs and TLAPS proofs for the pair of gateways in
`src/src/modbus_tpm_security_fapi`. A Modbus client (a SCADA server) talks to the
*client gateway*, which encrypts its traffic and sends it over a TCP connection
to the *server gateway*, which decrypts it for the PLC; responses go the other
way. The two gateways agree on a session key with signed X25519 secrets, the
signing keys live in their TPMs, and during a session they *rekey* from time to
time by exchanging further X25519 secrets in the headers and footers of the
Modbus packets themselves.

Paths below are relative to `src/src/modbus_tpm_security_fapi`.

## 1. The system

| Component | Code | State it keeps | Operations | Talks to |
|---|---|---|---|---|
| Rekeyer | `rekeyer.py` | flag to send, own and peer secret, old and new key, role, fail flag, rekey-clear flag, time of the last switch | `handle_rekey`, `get_new_key`, `get_send_state`, `get_own_public_secret`, `set_fail_flag` | called by its SymCipher |
| SymCipher | `sym_cipher.py` | current key, its Rekeyer, its replay processor | `encrypt_and_digest`, `decrypt_and_verify`, `__update_key` | called by both threads of a gateway, without a lock |
| Replay protection | `sym_cipher.py` | send and expected sequence number, salt; or nothing, and the clock is read | number or stamp a packet, make its cipher, verify what arrives | inside SymCipher |
| Packet format | `packet_format.py` | none | `pack`, `unpack` | called by the replay processors |
| NetComm | `netcomm.py` | the position in the byte stream | `send`, `receive` | sockets |
| Client and server gateway | `gateway/*.py` | `reset_flag`, `exit_flag`, sockets, two forwarding threads | `main`, `handle_transfer`, `forward_source_dest`, `forward_dest_source` | each other, the Modbus client, the PLC |
| Session key exchange | `key_exchange.py`, `security.py` | none | `DH_key_exchange` | the peer, the TPM, the file with the peer's public key |
| Device association | `auth_handshake/*.py` | sealed hash of the peer's key (TPM), the key itself (file), own signing key (TPM) | `auth_key_exchange`, `auth_delete_keys` | the peer, the TPM |
| TPM access | `tpm_security*.py` | objects in the TPM | create, sign, seal, unseal, delete | the FAPI library |
| Latency measurement, argument parsing, utilities | `perf_measure/`, `parse_args.py`, `utils.py` | averages; options | – | – |

What is hard here:

* **Two state machines that must agree without talking about it.** Each gateway
  switches to the new key by its own reckoning, the initiator before it sends
  SWITCH, the replier before it decrypts it. There is no message whose only
  purpose is rekeying: the protocol moves only as fast as the Modbus traffic, and
  every packet is taken for the answer to the last one sent.
* **State is changed before a packet is known to be good.** The flag is acted on
  before decryption, tag and age are checked, because the key may depend on it.
* **Failures on one side.** Key agreement may raise, a packet may be rejected as
  too old, a session may end in the middle of a rekeying, one gateway may give up
  in the key exchange or in the association after the other has finished it.
* **Two threads on one cipher**, plus the main thread, with no lock.
* **Timeouts in a byte stream**: a receive timeout inside a frame.
* **Waiting without a timeout**: the association and the key exchange receive on
  sockets that have none, and a connection waits in the backlog of a main loop that
  is busy with another.
* **One-sided persistence** in the device association: a seal in the TPM and a
  file on disk, written one after the other, on two machines, by programs that may
  be stopped anywhere, and deleted under gateways that are using them.

What makes each component correct: *SymCipher with Rekeyer*: every packet of the
honest peer opens, both ends use one key when nothing is under way, at most one
end initiates, a finished exchange leaves no secret behind, a rekeying that is
due is carried out, and traffic goes on. *Replay protection*: no nonce is used
twice, no packet is accepted twice, none that arrives in order and in time is refused.
*Packet format*: unpack inverts pack, and makes nothing up of a piece of a packet.
*NetComm*: messages arrive whole and in order, and the end of the connection is noticed. *Gateways*: the pair is a reliable
tunnel while the session lasts, both notice its end, and another session follows.
*Key exchange*: two gateways that forward to each other hold one key, and each has
checked the other with the key that the other signs with; nobody waits for ever.
*Association*: success on both sides means that each has sealed the key that the other
signs with, a failed handshake costs no trust, and a deletion leaves nothing but what it
has said it could not delete.

## 2. Modules

| Module | Models | How |
|---|---|---|
| `Rekeyer` | `rekeyer.py`, both classes; `ECDHE_key_agreement` | the object is a record, each method an operator from record to record, no variables |
| `SymCipher` | `encrypt_and_digest`, `decrypt_and_verify`, `__update_key` | operators over `[key, rek]`; a packet records the key it was sealed with and opens under no other |
| `SecureLink` | the forwarding threads of both gateways, the connection, the Modbus client and the PLC | `Request`, `Response` (encrypting threads), `Decrypt`, `DecryptNotice` (decrypting threads), `Disconnect`, `End`, `Reconnect` (reset, end of connection, main loops), `Expire` (a rekey timer) |
| `Tunnel` | what the pair promises | abstract specification; `SecureLink` instantiates it with the plaintext bodies of what is under way |
| `Lockstep` | – | the inductive invariant of `SecureLink` with one transaction at a time |
| `ThreadedLink` | the same session with the two threads of each gateway inside the shared cipher | `StartSeal`, `SealBody`, `AskFlag`, `AskSecret` are the calls that `encrypt_and_digest` consists of, `StartOpen`, `MakeOwn`, `Agree`, `UpdateOpen`, `OpenBody` those of `decrypt_and_verify`; shown to implement `SecureLink` |
| `SequenceNumbers` | `SequenceNumbersReplayProcessor` at both gateways | numbering a packet and making its nonce are two steps of a thread, as they are two calls in the code |
| `PacketFormat`, `CipherTypes` | `packet_format.py`, and the sizes of the six ciphers of `sym_cipher.py` | byte sequences with the program's sizes, packing by offset, sizes recomputed by `unpack` as the code does |
| `NetComm` | `netcomm.py`, framed mode | a byte stream that hands over any chunk; `__recv_exact` one `recv` at a time; timeouts at either end |
| `TpmStore` | `tpm_security.py` as it is used, `verify_RSA_signature` | a device's signing key, seal and key file as a record, each call an operator on it |
| `Association` | the programs under `auth_handshake` on both devices | one action per message, per object sealed or deleted, per file written; `BreakOff` for the exceptions and early returns, `CrashTool` between any two steps |
| `Trust` | what the devices' keys, seals and files may do | abstract specification of `Association`, and the environment of the gateways |
| `Sessions` | the main loops of both gateways, `DH_key_exchange`, `measure_latency` around it | one action per blocking call; a session of forwarding is one state, which `SecureLink` takes apart |
| `Deployment` | – | composes `Sessions` and `Trust`: the gateways run over stores that change |
| `MC...` | – | values for the constants |
| `...Proofs` | – | theorems and proofs about `SymCipher`, `SecureLink`, `Lockstep`, `ThreadedLink`, `SequenceNumbers`, `PacketFormat`, `NetComm`, `Association`, `Deployment` |

Two refinements tie the levels together. `ThreadedLink` implements `SecureLink`, which
implements `Tunnel`: what is checked of calls that are one step holds of their
interleaved parts. `Association` implements `Trust`, and `Deployment` is checked with
`Trust` in the place of the association programs, so what it shows holds over
anything those programs do.

Correspondence, where it is not by name:

* `RekeyerState` has one field per attribute of the class. `role` stands for
  `__is_initiator` (None, True, False); `due` for "more than `rekey_time` seconds
  since `__rekey_switch_time`", set by `Expire` at any time and reset where the
  code resets the time.
* A key pair is a member of `Secret`; a symmetric key is the set of the two
  pairs it was agreed from, hence the same from both sides; the key of the signed
  exchange that starts a session is the empty set. `FreshSecrets` returns a pair
  that nothing in the system refers to any more. Which unused pair it is cannot
  matter, so one is chosen.
* `agreed` in `HandleRekey` is whether `ECDHE_key_agreement` returns rather than
  raises; `replayed` in `Verdict` is whether the replay check raises TimeoutError.
* `Verdict` is how a call of `decrypt_and_verify` ends: a plaintext, a ValueError
  (which the gateway reports and survives), or the TimeoutError of the second
  attempt, which nothing catches.
* `Hand` is `communicator.send` in the encrypting thread: while the peer is in the session
  the packet is under way; when it has left, the packet may vanish into the socket or raise
  what the loop does not catch, and the thread ends. (A `BrokenPipeError`, which it does
  catch, sets `reset_flag`: `Disconnect` or `End`.)
* `up[g]` says that the session of `g` runs and its reset message is not sealed. `Disconnect`
  stands for the moment of that sealing: what the threads of `g` do in the round in which
  `reset_flag` is set comes before it. It is one step, as every call is in `SecureLink`, so a
  reset message that is sealed while the other thread is inside `handle_rekey` is not covered.
* In `NetComm`, `reader` is "failed" when `unpack` has raised `struct.error` on a piece of a
  torn frame, and nobody calls `receive` any more. `PacketFormat` says which pieces do that:
  `Tear` hands `unpack` a part of a packet in the place of the packet.
* `chan[g]` holds the data packets under way to `g`; `notice[g]` the reset message
  behind them. It is the last packet its sender seals in a session. The server
  gateway's threads can each send one; the second meets a peer whose session the
  first has ended, so one is modelled.
* In `ThreadedLink` a run of attribute assignments without a slow call is one step:
  a thread may be interrupted between two calls, and during `ECC_key_gen` and
  `ECDHE_key_agreement`. The rekey timer is read once in a call, so it expires
  between calls.
* A signing key stands for its public half, its hash and what is sealed of it. A
  device's keys are its own (`KeysOf`); a new one is any that nothing refers to.
* In `Association` a message is its public key (or none) and its signer; the random
  numbers, which an honest peer signs as they are, are left out. `report` is a
  history of what the last program on a device reported: "associated" as soon as the
  key is sealed, before the file is written, as the code prints it; "complete" or "deleted" at
  the program's end; reset when another starts (on both, when a deletion starts).
* `DeleteOutcomes` lets the TPM refuse a deletion. `auth_delete_keys` swallows the exception
  and goes on, and `left` is what it has said "could NOT be deleted".
* In `Sessions` an ephemeral pair is named by the run of the exchange that made it,
  and an agreed key by the runs of both sides. `pub` is the key that
  `verify_with_seal` has approved and `verify_RSA_signature` will be given; `signer`
  who signed the own ephemeral key. `measure` is the set of gateways started with
  `--measure-perf`.
* `Ended` and `EndProgram` are every way a program ends: by an exception, by Ctrl+C,
  by a crash. The operating system closes its connections, which the peer sees as
  the end of the stream.

## 3. Runs

Passing runs:

| Run | Question | Properties |
|---|---|---|
| `lockstep` | One transaction at a time, whole responses, nothing late; key agreement may fail, both timers may expire at any time, either gateway may disconnect at any time and sessions follow one another: does rekeying work? | `LockstepInv`, `DataReadable`, `ResetReadable`, `OneInitiator`, `TunnelImplemented`, `RequestsGetThrough`, `RekeyCarriedOut` |
| `late` | The same with responses that `recv` splits and a packet that arrives too old, and with both gateways rekeying or only one: what still holds? | `TypeOK`, `ThreadsSurvive`, `FallbackUnused`, `AtRestForgets`, `KeysAgree`, `RekeyingAloneHarmless`, `SwitchTogether` |
| `threads` | The two threads of each gateway inside the shared cipher, one transaction at a time: is a call what `SecureLink` takes it for? | `OneCall`, `OwnSecretThere`, `LinkImplemented` |
| `numbers` | One sealing thread per gateway: are nonces unique, packets accepted once, and nothing refused that is in order? | `NumbersInv`, `NoncesUnique`, `AcceptedOnce`, `NothingRefused` |
| `framing` | A stream that splits and merges frames at any byte, with timeouts inside frames at both ends | `TypeOK`, `InOrder`, `Arrives`, `CloseNoticed` |
| `packets` | Both layouts, all ciphers, the smallest and the largest message, with and without a footer, and pieces of packets: is what `unpack` returns what there was? | `UnpackInvertsPack`, `PackInvertsUnpack`, `PacketFits` |
| `association` | Handshakes and deletions on two devices in any order, each interrupted anywhere: do success reports mean that the sealed keys are the right ones, does a failure leave trust alone, and what does a deletion leave? | `TypeOK`, `BothAssociated`, `DeletedIsClean`, `TrustKept`, `HandshakeEnds`, `TrustImplemented` |
| `deployment` | Both gateway programs, started, stopped and crashed at any step over keys that change under them: do their sessions fit together, and do they go on? | `TypeOK`, `OneSession`, `MeasuringHarmless`, `NobodyWaitsForever`, `SessionsResume` |

Runs that show a disagreement between the code and what the repository says of it:

| Run | Property | What happens |
|---|---|---|
| `stale_switch` | `RoleKnown` | A SWITCH that arrives too late is rejected only after `handle_rekey` has acted on it: the replier has switched and has no role any more. The initiator, unanswered, puts SWITCH into its next packet too, and `handle_rekey` raises "`__is_initiator` is not bool type" (`rekeyer.py:168`), for every later request of the session. |
| `overlap` | `OwnSecretThere` | With two requests under way a gateway seals a response while its other thread has announced a rekeying and is still generating the pair for it. `get_own_public_secret` raises "`self.__own_secret` is None when it should have been EccKey" (`rekeyer.py:120`), outside of any try block, and the encrypting thread dies. |
| `two_sealers` | `NonceRebuilt` | The client gateway's decrypting thread seals the reset message while the encrypting thread is between numbering a packet and making its nonce. The packet carries one number and is sealed under the nonce of another (`sym_cipher.py:175`). |
| `torn_frame` | `HeaderTrue` | A timeout inside a frame drops the bytes read so far and the next call takes payload for a header. The pieces that reach `unpack` are shorter than their header says and raise `struct.error`, which the gateways do not catch. |

These four are reported in `PROJECT.json` under `findings`.

Some answers need reading with care:

* `ResetReadable` has an exception, which the program cannot avoid: while the switch is
  between the two ends, the reset message is sealed with the key that the other has
  given up (the initiator has moved on and flags its last packet NONE; or the replier
  has not moved yet). That one message is lost; the end of the connection, which
  follows, ends the session (`RequestsGetThrough`, `SessionsResume`).
* `BothAssociated` speaks of two reports of success. One is not enough: the server
  may have stored its peer while the client has not, and only a deletion on both
  helps, because an existing seal refuses the next handshake. Nor do two reports mean
  trust yet: each is printed before the key file is written (`auth_handshake_common.py:113`,
  118-120), and a crash in between leaves a device that has reported success and that
  `DH_key_exchange` will refuse for want of the file. What two reports do mean is that the
  sealed keys are the right ones; trust comes with the end of the program.
* `DeletedIsClean` does not say that a deletion succeeds: when the TPM refuses one, the key
  or the seal stays and the program comes to its end all the same. It has said so, and the
  other deletions are done.
* `ThreadsSurvive` is about the calls of the cipher, which end no thread. Sends do, when the
  peer has left the session; that is why it looks at the peer.
* `CloseNoticed` excepts a reader that is not there any more: after a torn frame `unpack` may
  have ended its thread. `PackInvertsUnpack` says of the pieces that do not end it that nothing
  of them is lost or read twice; they are then refused by the cipher.
* `NobodyWaitsForever` and `SessionsResume` except the network in which each gateway sees a
  lower address than its own (`NobodyFirst`). `key_exchange.py:76` is false at both there, both
  receive first, without a timeout, and both wait for ever. No other network does this: not
  equal addresses, and not the translation that shows each a higher address.
* `TrustKept` names the two things that do lose trust: a deletion, and a crash in the
  moment in which the file is written.
* `NobodyWaitsForever` and `SessionsResume` leave `--measure-perf` out. There the two
  gateways choose by the clock how often they repeat the exchange; the one that
  chooses more waits until its peer has traffic. The key of the first run is what
  counts, and `MeasuringHarmless` says that it is never lost to the repetition.

### Bounds, and why they are enough

* `Secret`: six pairs where one transaction is open, eight where two are. Pairs are
  reused once nothing refers to them. `PairsSuffice` in `MCSecureLink` (a fresh pair
  is always left) was checked for every configuration, so the bound removes no
  behaviour; with five, respectively six pairs it does not hold.
* `Payload`: two values in `lockstep`. With one, a payload that is lost would look
  like one that is delivered a second time; with two the refinement of `Tunnel` tells
  them apart. One value where the properties do not look at payloads.
* `Window = 1` is a Modbus client that waits for its answer, `Window = 2` (in `overlap`)
  the smallest that pipelines, or repeats a request it gave up on.
* `MaxDelays = 1`: one packet per session is rejected as too old. It recurs in
  every session, and sessions follow one another without bound.
* `Rekeying` is a set of sets: the gateways started without `--disable-rekeying`
  are chosen at the start and stay so over sessions. `SomeRekey` has both and each
  one alone.
* `ClientMask = 4`, `MaxPackets = 3`: three packets each way, in a number space
  whose halves the counters just do not leave (2^63 in the program). The
  proof covers any mask and any number of packets below it.
* `Base = 2`, three messages of one to three bytes, `Capacity = 4`: lengths use both
  bytes of the header, a message can look like a header, the socket holds parts
  of two frames, and a frame does not fit it, which makes `sendall` block.
* `packets` uses the real sizes: headers of 3 and 2 bytes, 4 and 8 byte replay data,
  16 byte tags, 32 byte secrets, the nonces of every cipher (11 to 16 bytes),
  ciphertexts of messages of one byte, one block and a full `recv` of 4096 bytes, with
  contents that differ at every boundary. `Starts` and `Sizes` cut pieces that begin in the
  header, the nonce, the ciphertext and the footer, some shorter than what they are taken for
  a header of says and some not; the proof covers every piece.
* `KeysOf` in `association`: four keys per device, reused once nothing refers to them.
  `KeysSuffice` in `MCAssociation` was checked: a new key is always left.
  Handshakes, deletions and crashes are unbounded in number.
* `deployment`: two connections at a time (one in use, one in the backlog), two
  runs of a repeated exchange, two keys of the client's device and one of the
  server's, so that a key can be deleted and another made while it is in use. Two addresses
  suffice for every order that a gateway can see them in, so `Networks` has all of them: either
  gateway first, equal addresses, and the two translations, where both or none come first.
  All are explored where everything is left alone (`calm`); where programs, keys and the PLC
  come and go, the one in which the client sends first.
  Starts, stops and sessions are unbounded in number.

`CHECK_DEADLOCK FALSE` appears for `NetComm` and `SequenceNumbers`, which model one
connection and one session and stop at its end or at the bound on its packets, and
for `Deployment`, where a measuring gateway waits and nobody has to do
anything. The other runs check deadlock.

### Fairness

`FairSpec` of `SecureLink` assumes weak fairness of what keeps running in the
program: the forwarding loops (`Decrypt`, `DecryptNotice`), the loops' exit at the
end of a connection (`End`), the main loops (`Reconnect`), a Modbus client that
polls (`Request`) and a PLC that answers (whole `Response`s). There is none on
`Disconnect`, on `Expire`, nor on the choice of an agreement's outcome, so liveness does
not depend on anybody leaving or on a timer. `NetComm` assumes that TCP takes and
delivers bytes (`Transmit`, `Recv`) and that the reader goes on (`EndOfStream`,
`EmptyMessage`) until `unpack` ends it; nobody has to send, close or time out. `Association` assumes that a
program that runs takes its next step if it can (`Step(d)`); nobody has to
start one, and none has to crash. `Deployment` assumes the same of the gateways
(`Gateways(g)`), which includes that a Modbus client connects to a client gateway
that is listening; traffic, disconnections, starts and stops (`Environment`) and
changes of the keys are never assumed.

## 4. Proofs

All theorems hold for every value of the constants that meets the named
assumptions.

* `SecureLinkProofs!TypeCorrect`: `Spec => []TypeOK`, for any window, splitting,
  failures and delays. It is not only about types: a gateway's key is always one
  agreed from two generated pairs, and only packets travel. The lemmas about
  `Rekeyer` and `SymCipher` come first in the module.
* `SecureLinkProofs!RekeyingAlone`: `Spec => []RekeyingAloneHarmless`, under the same
  generality. `AloneInv` says why it is harmless: the cipher without a rekeyer
  never leaves its first key, and announces nothing, so its peer's rekeyer asks for a
  rekeying but is never answered (`Unanswered`) and never switches either; whatever
  travels is plain or sealed under the first key.
* `LockstepProofs`: under `LockstepTraffic` (`Window = 1`, no split responses, no late
  packet) `LockstepInv` is inductive, and `AlwaysReadable`, `NeverBothInitiate`,
  `SameKeyAtRest`, `NoThreadDies`, `NoticeReadable`, `FallbackNeverUsed`, `ForwardSecrecy`
  and `SwitchedTogether` follow. `DataReadable` by itself is not inductive:
  that a packet opens depends on what the two rekeyers will do with its flag, hence
  on both states at once. `InStepInv` adds *whose turn it is*: with one
  transaction open exactly one gateway is about to send or has just sent, and
  `InStep(a, b)` lists the nine joint states of the two rekeyers, by the flag that the
  turn's owner announces. `Turn` says that both use one key before a packet is sent,
  `Sent` that the packet matches the state of its sender, whose key is the new one
  exactly when it announces SWITCH. `SafelyOpens` carries readability over to
  a receiver whose peer has already gone, when there is no joint state any
  more. The proof has a lemma for each flag received and one for each action. On top of
  it `Forgets` is what one rekeyer keeps between exchanges, which holds in every
  session whatever the peer does, and `NoticeFollows` is what is known of the reset message:
  its key is the one its receiver will have once what is before it is read, or the
  receiver has a key to switch to. Both need `InStepInv` in their steps; it does
  not need them. The run `late` checks these properties under wider traffic than the
  theorems assume.
* `LockstepProofs!LinkImplementsTunnel`: `Spec => TunnelImplemented`, under the same assumption.
  A request, a response and the end of a session map to the tunnel's actions of the
  same name, and `Decrypt` to a delivery because `DataReadable` holds: without the
  invariant the packet might be dropped, which the tunnel forbids.
* `ThreadedLinkProofs!OneCallAtATime`: with `Window = 1` no cipher is in two calls at once.
  The argument is a token: the one transaction is a request in a thread, a
  packet under way, or a response at the PLC, and `TokenInv` says that there is never
  more than one of these; a thread is in a call only while it has the token.
* `ThreadedLinkProofs!ThreadsImplementLink`: `ThreadedSpec => LinkImplemented` with `Window = 1`,
  whatever timers expire and agreements fail. The mapping shows `SecureLink` the cipher
  that a call found for as long as the call lasts (`BetweenCalls`). The step
  that ends a call is then the step of `SecureLink` (`AskSecretStep`, `OpenBodyStep`, or `StartOpenStep`
  where `handle_rekey` raises), and every other a stutter. `CallsInv`
  says what this takes: a call that seals works on the updated key of the cipher it
  found and carries the flag of that state (`Sealing`), a call that opens is as far as
  `Reached` says, which for each of its program counters gives the cipher as a function of the
  one it found. `CallBegins`, `CallAgrees`, `CallAnswers`, `CallUpdates` and `CallEnds`
  compose these functions to `AfterDecrypt` and `Verdict`, the whole call. The pair that
  `ECC_key_gen` is to return stays unused because no other gateway is in a call.
* `ThreadedLinkProofs!OwnSecretIsThere`: `ThreadedSpec => []OwnSecretThere`. `LockstepInv` is taken
  over through the refinement: `Link`, the instance of `LockstepProofs` at the mapping, has
  its theorems for the ciphers between calls (with no split responses and no delays,
  which `ThreadedLink` does not have), and a cipher that is `Sound` has the pair that it
  announces.
* `SequenceNumbersProofs`: under `OneSealerEach` nonces are unique (`NoncesStayUnique`) and
  no number is accepted twice or out of order (`PacketsAcceptedOnce`). `NumbersInv` adds
  that what was sealed is behind the counter, strictly so while a number is drawn
  whose nonce is not made yet, and that each number lies in its gateway's half.
  Nothing is refused either (`NothingIsRefused`): `SequenceInv` says that the numbers under
  way to a gateway rise, that each is above the last that it accepted and none is
  beyond the peer's counter, so `verify` always finds a larger one in front. The
  assumption is needed: the run `two_sealers` is what happens without it.
* `PacketFormatProofs!PacketsRoundTrip`: `Spec => []UnpackInvertsPack`, for byte strings of
  any length, by a lemma on reading at an offset what was written there, past everything
  written elsewhere. `PiecesRoundTrip`, `Spec => []PackInvertsUnpack`, is the other direction, for
  any piece: when no size comes out negative, the parts that `unpack` reads lie one behind
  the other and reach from the end of the header to the end of the packet. `FormatInv` joins
  the two and is inductive.
* `PacketFormatProofs!FramesFit`: `Spec => []PacketFits`, where every ciphertext is one of
  a chunk that `BlindRecvBufferSize` admits (`SealedChunks`). Nothing in the code
  checks the two bytes of the length: the bound comes from the plain side's `recv`.
* `NetCommProofs`: for any byte values, messages, capacity and chunks, `TypeCorrect`,
  `MessagesInOrder` (`Spec => []InOrder`) and `LengthsInStep`, which says that `HeaderTrue`, the
  property of the run `torn_frame`, fails after a timeout within a frame only. The order of
  what was received says nothing of what comes next; `Stream` adds that `Rest`, the bytes
  that the reader does not have as part of a message yet, is the rest of the current
  frame and the whole frames behind it. `Frames` says so with the offset at which each
  frame starts, negative when its header has been read. A recv takes bytes from the front
  of `Rest` or only from one of its parts to another; `HeaderRead` and `PayloadRead` say what
  the bytes in front are, `FramesShift` and `FramesSent` that whole frames are left.
* `AssociationProofs`: for any supply of keys and any number of handshakes,
  deletions and crashes, `TypeCorrect`, `CleanAfterDeletion`, `TrustIsKept` and
  `AssociationImplementsTrust`. The argument follows a key: everything on the way to a
  device is signed by a key of its peer, so a key that passes
  `verify_RSA_signature` is one, so what is sealed is, and what is written to the file
  is what is sealed (`DeviceInv`, which for `CleanAfterDeletion` also says that what a
  deletion has passed is gone or among what is `left`). `StoreChanges` then lists what a step can do to a store,
  from which the action property and the step simulation follow.
* `AssociationProofs!AssociatedTogether`: `Spec => []BothAssociated`. What a device
  was told of its peer's key may turn out false, but only of a peer that is
  `Gone`: one that has not reported success and will not before its next program.
  `KnowledgeInv` says so of every key under way, held and sealed. That a peer which is
  `Gone` stays so needs `LinkInv`, which relates the two ends of a connection
  (`Phase`): who still sends does so to a peer that is still in the same handshake.

* `DeploymentProofs`: for any number of keys, connections and runs of a measured exchange, and
  with the whole of `Trust` as environment, `TypeCorrect`, `SessionsAgree` (`OneSession`) and
  `MeasuringIsHarmless`. `OneSession` speaks of two gateways that forward; what makes it
  true happened several blocking calls earlier, at each of them separately, while keys
  were deleted and made anew. `DeploymentInv` therefore follows the exchange. `Connected`
  says which program has which end of a connection: the client gateway's is the last one in
  the backlog, or the server gateway is at its other end or has left it. `FirstKeys`: the
  key of a session is that of the first runs. Where anything may change, nobody
  measures: all that is under way is of run 1 and signed as its sender remembers
  (`Exchanged`), and a gateway with a key has approved the key its peer signed with.
  Where all is left alone (`calm`), the gateways may measure; the stores are those of the
  association, so every check succeeds (`Kept`), and the first message a
  gateway receives is the key of its peer's first run (`FirstComes`), so the
  key that `measure_latency` returns is there.

Assumptions on constants are those that the modules name. `LinkAssumption`, `StoreAssumption`,
`SessionsAssumption` and `DeploymentAssumption` say what the constants are: that `None` is no
secret, key or connection, that the devices' keys are disjoint and each has one, that there is at
least one run. `NetCommAssumption` says that a message is not empty and fits the length field, which
`FramesFit` shows of the packets, and that there are at least two byte values. `LockstepTraffic`, `OneSealerEach` and `SealedChunks` are hypotheses of the
theorems that need them, and each is named above.

Only model-checked: liveness (`RequestsGetThrough`, `RekeyCarriedOut`, `Arrives`,
`CloseNoticed`, `HandshakeEnds`, `NobodyWaitsForever`, `SessionsResume`), which is out of the
prover's reach. Every invariant and action property of the passing runs is a theorem.

## 5. Not modelled

* The cryptography: authenticated encryption and signatures are ideal, and which
  cipher is chosen makes no difference to the protocol but in its sizes.
* `blind_operation` of NetComm is a single `recv`; it appears as `SplitResponses` and as the
  size of a chunk. `headerless_send` and `header_receive` are set nowhere in the program.
* Hosts that vanish without closing their connections: the key exchange and the
  association have no timeout and would wait.
* `TimestampReplayProcessor` keeps no state and compares two whole seconds: the verdict is an outcome
  in `SecureLink`, whatever the clocks are (`delays`).
* `SequenceNumbers` and `SecureLink` are not composed: sequence numbers never
  refuse what TCP delivers in order (`NothingRefused`), so a late packet in `SecureLink` is
  one of the timestamp processor.
* What `threads` shows is for one transaction at a time. With more, calls do overlap;
  `overlap` and `two_sealers` show two consequences, and no list of them is claimed.
* `tpm_security.py`: paths and profiles; `verify_hash`, `delete_key` and `delete_seal`, which
  nothing calls. `tpm_security_improved.py` is a copy that no module imports.
* Averages and output of the latency measurement, option parsing, messages, the
  host's address: no protocol state.

## 6. Hazards

`PROJECT.json` lists what is hard to test in this code, each at its line, with the
properties that would catch it. Two have none: a peer whose host vanishes in the
key exchange, and timestamps that are cut off to whole seconds (`sym_cipher.py:115`), where the
verdict is one inequality. Notes say where the properties cover a hazard in part.

## 7. What is left

* A composition of the byte stream with the packet format: `NetComm` lets a torn frame end the
  reader or not, and `PacketFormat` says which pieces do, but no module has both.
* The end of a session inside the calls of the cipher: a `ThreadedLink` with `Disconnect`.
