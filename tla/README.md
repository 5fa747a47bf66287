# A formal model of websocket-lite

This directory holds TLA+ specifications of the crates in this repository
(`websocket-codec`, `websocket-lite`, `hyper-websocket-lite`), the TLC
configurations that check them on small instances, and proofs that TLAPS checks
for every instance. Paths below are relative to the repository.

    tlc -config SyncClient.cfg MCSyncClient      # one of the runs listed below
    tlapm SyncClient_proofs.tla                  # one of the proof modules

## 1. The system

| part | where | state | operations |
|---|---|---|---|
| frame header | `websocket-codec/src/frame.rs`, `opcode.rs` | none (`FrameHeaderCodec` is stateless) | `parse_slice`, `write_to_slice`, `write_to_bytes`, conversions of `DataLength` |
| masking | `websocket-codec/src/mask.rs` | the local register `mask` | `mask_slice_copy` (encoder), `mask_slice` (decoder) |
| message codec | `websocket-codec/src/message.rs` | `interrupted_message`, the message whose last fragment is still to come | `decode`, `encode`, `Message::new` and other constructors |
| close codes | `websocket-codec/src/close.rs` | none | conversions from and to `u16` |
| handshake | `websocket-codec/src/upgrade.rs` | the expected accept digest | `UpgradeCodec::decode`, `ClientRequest::parse` |
| blocking client | `websocket-lite/src/sync.rs`, `client.rs` (`connect_on`) | `stream`, `codec`, `read_buf`, `write_buf` | `receive`, `send`, `replace_codec` |
| asynchronous client | `client.rs` (`async_connect_on`, `replace_codec`) | tokio_util's `Framed`: both buffers, `is_readable`, `eof`, `has_errored` | the same, by polling |
| builder of clients | `client.rs` (`ClientBuilder`, `build_request`, `make_key`) | URL, headers, connectors; the key of the request | setters; six ways to connect |
| TLS | `websocket-lite/src/ssl.rs` | the chosen library's stream | `new_with_default_tls_config`, `wrap`, forwards `read` and `write` |
| server | `hyper-websocket-lite/src/lib.rs` | a spawned task | `server_upgrade` |
| `wsinspect` | `websocket-codec/examples/wsinspect.rs` | a `BufReader` over a file | `decode_stream`, `seek_forward`, `inspect` |
| other examples | `*/examples` | echo loops, `wsdump`'s two loops | |

**How they interact.** `connect_on` writes the HTTP request, and reads the
response through `sync::Framed<_, UpgradeCodec>`. When `UpgradeCodec::decode`
has the whole response it consumes it and leaves what follows in `read_buf`;
`replace_codec` hands that buffer to `MessageCodec`. From then on the
application calls `receive`: it asks the codec for a message, and reads from the
stream only when the codec answers `None`. `MessageCodec::decode` splits whole
frames off the front of the buffer, unmasks them, assembles fragments, and
returns at most one message per call. It keeps a message under assembly in
`interrupted_message` from one call to the next. The other end of the stream is
the environment: it answers the handshake, sends frames, and closes.

The asynchronous client uses the same two codecs, but it is tokio_util's
`Framed` that calls them. It reads only when it believes that the buffer holds
no frame, gives `None` once after each `Err`, and is polled through futures that
the application may drop at any wait. `async_connect_on` takes the first answer
with `into_future` and its own `replace_codec`.

At the other end of the handshake `server_upgrade` parses the request, spawns a
task that waits for hyper to hand the connection over, and returns the response
that makes hyper do so. What a `ClientBuilder` sends there depends on its
settings, and what stands between the two depends on the connector.

**What is hard.** There are no threads inside the crates: what makes them hard
is how the bytes arrive. A read returns any number of bytes, so the decoder
stops at any point of a header, payload or fragmented message and goes on in a
later call; control frames come between the fragments of a message; errors drop
a message under assembly (all but that of a malformed close message, which is
found after the message was put back); the stream ends, or a read fails,
anywhere; frames come in the same read as the handshake response; lengths are announced by the
peer and added up in `usize`; masking works on words at whatever address the
slices have. Around this core it is the order of steps of several actors: a
dropped poll and a read, the spawned task and the response, a lost connection
and whoever waits for it. `PROJECT.json` lists each of these as a hazard at its line, with
the properties that cover it.

**What makes each part correct.**

* header: what is decoded is what was encoded, however the bytes arrive; a
  header is recognised exactly when its bytes are there; no uninitialised byte
  is sent;
* masking: byte *k* is masked with byte *k* mod 4 of the mask, whatever the
  addresses, and unmasking undoes it;
* codec: messages are exactly the runs of fragments on the wire, in order, and
  an error is reported exactly when the frames break the protocol;
* client: the messages do not depend on how the bytes arrive; the client never
  waits for bytes while it has an answer; it reports the end of the stream as a
  clean end only between frames; `decode` does not panic where `usize` has 64
  bits (the handshake may, see section 4);
* asynchronous client: the same, whatever calls are dropped or repeated, after
  errors too;
* sending: what is on the stream is whole frames end to end, except for the end
  of the last after a failure, and the peer's decoder accepts them; a close
  reason arrives cut to the longest part that fits;
* programs: each answer is sent once and in order, nothing follows a close
  message, and the loop ends;
* server: it accepts exactly the requests that pass its five checks, and each
  connection that a client takes to be open is served by the spawned task;
* builder: its request is accepted whatever headers were added, and every way to
  connect comes back;
* `wsinspect`: it reads headers only where frames start, and says of a file
  what is true of it.

## 2. The modules

| module | models | extends |
|---|---|---|
| `Frame` | opcodes, length forms, what lengths are refused, `header_len` | |
| `Message` | `Message::new`: UTF-8 and close data over payloads that are not spelled out | `Frame` |
| `MessageStream` | *abstract*: what `MessageCodec` promises, frame by frame, with no bytes or calls | `Message` |
| `SyncClient` | handshake, `sync::Framed::receive`, `MessageCodec::decode` over a buffer of bytes | `Message`; implements `MessageStream` |
| `AsyncClient` | `Framed`'s polling of the two codecs, `async_connect_on`, `replace_codec` | `Message`; instantiates `SyncClient`; implements `MessageStream` |
| `HeaderCodec` | `FrameHeaderCodec` on real bytes | `Frame` |
| `Mask` | `mask.rs`, a byte or a word per step (`MaskSpec`) | |
| `CloseReason` | a close message from `close_with_reason` to the peer's `as_close`, with the loop that cuts the reason | `Frame` |
| `Echo` | the loops of the autobahn programs over `MessageStream`, with `encode`, `sync::Framed::send` and tokio_util's sink | `Message`; uses `MessageStream` twice |
| `ServerUpgrade` | `server_upgrade`, `ClientRequest::parse`, the spawned task, hyper | |
| `ClientBuilder` | its settings, the ways to connect, the choice of a connector, `wrap`, the headers of the request | |
| `Handshake` | both ends, or a foreign client and the server, and the client's check of the response | `ServerUpgrade`, `ClientBuilder` |
| `WsInspect` | `wsinspect` over a `BufReader` | `Frame` |
| `MC*` | the frames, headers and values of the runs | the module they are named for |
| `MessageStream_proofs`, `SyncClient_proofs`, `AsyncClient_proofs`, `CloseReason_proofs`, `Echo_proofs`, `Handshake_proofs`, `WsInspect_proofs` | theorems | the module they are named for |
| `FrameBytes_proofs` | theorems about both halves of a frame's bytes | `HeaderCodec`, `Mask` |

**Data.** A frame is a record of its header fields and of how its payload reads
as UTF-8. A payload is the number *k* of its frame in the stream, and *-k* while
it is masked; a message is an opcode and a sequence of these. This is as much as
the properties can tell apart: which frames a message is made of, in which
order, and whether it is text. A piece of text is `whole`, or takes a reader of
UTF-8 into a character (`head`), through it (`middle`) or out of it (`tail`), or
is `bad`; `Utf8` says what `str::from_utf8` makes of a sequence of pieces.

**Bytes.** `SyncClient` does not hold bytes, it counts them: `ends[k]` is the
byte at which frame *k* ends, `recvd` of the bytes sent have been read, `head`
of these have been split off `read_buf`. A read raises `recvd` by any number,
`TakeFrame` raises `head` by the `frame_len` that decode computed. That the header
read next is the one of frame `pos + 1` is then something to check: `Aligned`.
The bytes of headers themselves are in `HeaderCodec`.

**State and actions of `SyncClient`.**

| in the model | in the code |
|---|---|
| `codec`, `recvd`, `head` | `Framed::codec`, `Framed::read_buf` |
| `interrupted`, `state` | `MessageCodec::interrupted_message`, the local `state` of `decode` |
| `pc` | `start`, `idle` (no call of `receive` runs), `read` (before `stream.read`), `decode` and `decode_eof` (one turn of the loop of `decode` is a step), `closed` (`connect_on` returned an error), `panicked` |
| `result`, `out` | what the last `receive` returned, and all messages returned |
| `Connect`, `Receive`, `Read`, `ReadEof`, `ReadError` | `connect_on`, and `receive` up to and after `stream.read` |
| `UpgradeMore`, `UpgradeReject`, `UpgradeAccept` | the answers of `UpgradeCodec::decode`; the last with `replace_codec` |
| `UpgradePanic` | `base64::decode_config_slice` panics on an accept header that decodes to more than 20 bytes |
| `NeedMore` | the two returns of `Ok(None)`, message put back |
| `Refuse` | a length that is padded, too large, or unreasonable |
| `Panic` | `advance` past the end of a frame whose length wrapped around |
| `RejectFrame`, `Interleave`, `FirstFragment`, `NextFragment` | the branches of `decode` once a frame is split off |
| `ServerRespond`, `PeerSend`, `PeerClose` | the environment |

`receive` tests `capacity() == 0`. `BytesMut` may or may not have capacity left
once everything has been split off, so `Receive` reads at once or decodes first
when nothing is buffered, and decodes first otherwise. `decode_eof` is
tokio_util's default: decode once more, and report an error if that wants more
and bytes are left. `connect_on` returns an error when the handshake fails or
the stream ends before it is over, and the client is gone.

**State and actions of `AsyncClient`.** Its buffer, codecs and peer are those of
`SyncClient`, whose actions it uses by instance; what it adds is when they are
called, and what `Framed` remembers.

| in the model | in the code |
|---|---|
| `readable`, `eof`, `errored` | `ReadFrame::is_readable`, `eof`, `has_errored` of tokio_util |
| `told` | whether `next()` ever gave an `Err` (kept for `CleanEnd`) |
| `pc` | `idle` (no future of `next()` is alive), `read` (`poll_read` is pending), the rest as in `SyncClient` |
| `Poll`, `PollAfterErr` | the start of `poll_next`: decode first, or read, or `None` because of `has_errored` |
| `DropNext` | the application drops the future of `next()` while it waits, as a timeout does (the environment's choice: nothing in the repository does it) |
| `Read`, `ReadEof`, `ReadEofAgain`, `ReadError` | what `poll_read` gives; the second end in a row is `None` without `decode_eof` |
| `Decode` | a turn of `decode` or `decode_eof`, and what `poll_next` makes of its result |
| `Upgraded` | `into_future` has its answer, and `replace_codec` moves both buffers into a new `Framed` |

`Framed::from_parts` sets `is_readable` when `read_buf` has any capacity. A
buffer that holds a byte has some; an empty one may or may not: `DecodeFirst`.

**State and actions of `Echo`.** Five programs run in it: the three loops of
`autobahn-client.rs` (`autobahn_client` stands for that of `main`), the loop of
`main` in `async-autobahn-client.rs`, and `on_client` of `autobahn-server.rs`.

| in the model | in the code |
|---|---|
| `In!Fragment`, `In!Complete`, ... | what `receive` or the stream of tokio_util does with a frame, by the abstract `MessageStream` that `SyncClient` implements |
| `pc` | `receive` (in a call of it), `send` (called, nothing encoded), `flush` (tokio_util's `poll_ready` has to empty the buffer first), `write` (`write_all`, or `poll_flush`), `last` (before the server's last `send`), `done` |
| `reply` | the message given to `send`, and where the program goes on after `Ok` and after an error: `?`, `let _ =` and `break` are told apart by these |
| `write_buf`, `at` | `Framed::write_buf`, and how much of it `write_all` has written (a sink removes what is written) |
| `stream`, `sent` | the bytes written, and the messages encoded; byte *i* of the *k*-th frame is the pair *(k, i)* |
| `OnMessage`, `OnError`, `OnEnd` | the arms of the `match` in each loop |
| `Leftover`, `StartOfBuffer` | `write_buf.truncate(0)`; a sink appends |
| `ReadError` | a failed read, or the end of the stream inside a frame |

None of the programs sends after a failed `sync::Framed::send`, and the server
does so only through a sink, which keeps what it has not written. An
application of the blocking client that went on would write a new frame into the
middle of the old one: nothing here is claimed for it.

**State and actions of `CloseReason`.** `pc` is the place in
`truncate_floor_char_boundary` and `close_with_reason`, `len` its local
variable. A string is its length and its character boundaries, so any string is
one; its bytes are told from others by their sign. `Floor` is a turn of the
`while`, `Cut` is `truncate`, `Fill` the rest of `close_with_reason`, `AsClose`
the peer's `decode` with `Message::new`, and `as_close`. The codes sent are
those that `CloseCode::from` gives. A code that an application builds by hand,
such as `Bad(1000)`, arrives under its proper name, which `CloseArrives` does not
speak of.

**State and actions of `ServerUpgrade`.** `request` is the sequence of the
request's headers, of which `Header` finds the first of a name; `pc` and
`haystack` are the place in `parse` and the argument of
`contains_ignore_ascii_case`, one turn of its loop being `SearchOn`. `task` is
the spawned task: `Serve` and `GiveUp` are the arms of its `match`. hyper is
external: `WriteResponse`, then `HandOver` if the status is 101, and an error
for whoever waits when there will be no upgrade or the connection is lost
(`Lose`).

**State and actions of `ClientBuilder` and `Handshake`.** `builder` is the
`ClientBuilder`, which each way to connect takes by value; `call` is the method
that took it and `at` where that is. `Set` and its three uses are the setters,
`Resolve`, `Dial`, `ConfigFails`, `Wrap` and `WriteRequest` the steps of
connecting, each with its failure. `backend` is the TLS feature the crate was
built with: it decides which connectors exist, whether the default configuration
can fail (`native_tls`), fail or panic (`rustls_native_roots`: the `expect`), and
whether a host given by its address can be wrapped. `Own` and `Ordered` are
`build_request`. `Handshake` starts either with a builder or with a foreign
client that has sent any of `ForeignRequests`. `Validate` is
`validate_server_response`, with the key of `UpgradeCodec`.

**State and actions of `WsInspect`.** `pos` and `filled` are the logical position
of the `BufReader` and what it has buffered; `DecodeNone`, `DecodeMore` and
`DecodeHeader` are a turn of `decode_stream`, `Skip` the two seeks, the `Copy`
actions `io::copy` (what is buffered, then either straight from the file or
through the buffer: the library has both), and `Finish` what `inspect` makes of
the rest. The cast to `i64` is `I64Max`, and a file system refuses offsets beyond
`SeekMax`.

**Faulty variants.** A definition such as `IncompleteOrExact` or
`ReplaceCodecEmpty` stands before the one it is a faulty variant of. It is used
only to show that each property notices a plausible bug: `PROJECT.json`, under
`mutants`, says which.

## 3. The runs

| run | configuration | question | distinct states |
|---|---|---|---|
| `message_stream` | `MCMessageStream` | Does frame-by-frame decoding deliver exactly the messages on the wire, and complain exactly when it must? | 365 000 |
| `sync_client` | `SyncClient` | Does the blocking client do the same whatever the reads, failures and end of the stream, where `usize` is narrower than the lengths, and get everything out at last? | 135 000 |
| `async_client` | `AsyncClient` | And the asynchronous one, whatever calls are dropped or repeated? | 102 000 |
| `close_reason` | `CloseReason` | Does the peer get the code and as much of the reason as fits? | 34 000 |
| `echo` | `Echo` | Do the programs send whole frames that answer what came, whatever the writes, and come to an end? | 242 000 |
| `handshake` | `Handshake` | Which requests are accepted, who is served, and does every way to connect come back? | 81 000 |
| `ws_inspect` | `WsInspect` | Does `wsinspect` say of a file what is true of it? | 107 000 |
| `ws_inspect_additional` | `WsInspectDump` | Are "additional bytes at end of stream" at its end? *No*, see findings | |
| `narrow_usize_panic` | `SyncClientPanic` | Where `usize` is narrow, does decode never panic? *No*, see findings | |
| `header_codec` | `HeaderCodec` | Are headers decoded as encoded? | 28 000 |
| `mask` | `Mask` | Does masking not depend on addresses? | 1 300 |
| `mask_big_endian` | `MaskBigEndian` | On a big-endian platform? *No*, see findings | |

**What the properties say.**

* `Exact` (`message_stream`): every delivered message is an unbroken run of
  fragments on the wire, from the frame that names the opcode to the one with
  FIN, with nothing between two of them but whole control frames that the
  decoder supports. So a frame that was refused for what it is or for where it
  stands never lies inside a message. A malformed close message may:
  `Message::new` refuses it (`message.rs:326`) after the message under assembly
  was put back (`message.rs:299`), and a caller that goes on receives the rest.
  `Exact` is stated over the wire alone, not over how the decoder works.
* `DeliversAll`: the messages that a peer that keeps to the protocol has
  finished are delivered, each once, in the order of their last frames and with
  all their frames. `Exact` says that nothing else is delivered; this, that
  nothing is lost, in particular not the control messages that came between the
  fragments of another, nor the message they came in.
* `RejectsNonconformant` and `AcceptsConformant`: no error was reported only if
  all frames taken conform to the protocol, and the other way round. Both are
  about the definition `Conformant`, which restates the protocol's rules from
  the frames alone and does not use the decoder's tests. The rules are those
  that its comment lists. Two are not among them, because `decode` checks
  neither: who masks, and which close codes may be sent.
* `Aligned`, `NoBlockOnReady`, `CleanEnd` (`sync_client`): see what section 1
  says of the client. `NeverPanics` is proved where `usize` is wide and refuted
  where it is narrow (`narrow_usize_panic`).
* `Implements`: `SyncClient` implements `MessageStream`, with the open message
  in `state` while decode runs and in `interrupted` otherwise. A read, a failed
  read or the end of the stream is a step that `MessageStream` does not see.
* `Drained` and `EndReported`: every frame that arrives whole is taken, unless
  the connection is gone, or decode panicked or cannot get past a frame in front
  of it, refused for its length or too long to be waited for; and a client that
  keeps calling `receive` is told of the end.
* `async_client` has five of these for the asynchronous client. `Implements` is
  the same refinement. `NoBlockOnReady` and `CleanEnd` hold up to the first
  error that the codec or the application sees: after it `Framed` reads before
  it decodes again, and gives a `None` that is not the end. `Drained`: a frame
  that arrived is taken, in particular the frames that came with the response.
  `EndReported`: who goes on polling is told of the end, also after errors.
* `RoundTrips`, `AllDecoded`, `Initialised` (`header_codec`) and
  `MaskedInOrder`, `Restored`, `AssertsHold` (`mask`): see section 1.
* `CloseArrives` (`close_reason`): the message is one the peer's decoder takes,
  and what it reads is the code and the longest prefix of whole characters that
  fits.
* `OutAligned` (`echo`): the bytes written are those of the frames encoded, in
  order, none twice and none missing, however the writes are cut up, and also
  after the sends that failed. `AllWritten`: when the program waits again, its
  answers are on the stream. `AnswersInOrder`: each text, binary message and
  ping is answered once, in order, with its own data. `PeerAccepts`: the
  decoder at the other end takes every frame sent, although `encode` checks
  nothing: what is echoed has passed the same checks (so nothing is said of
  messages that an application makes up). `NothingAfterClose`: only
  close messages follow a close message (the server and the asynchronous
  client send two), if the peer sends nothing after its own; a peer that does is
  answered. `Ends`: once the peer has closed its side the program ends.
* `AcceptsExactly` (`handshake`): 101 exactly for a request that passes the five
  checks of `ClientRequest::parse` (`Proper`), with the one that is a loop, the
  search for "Upgrade", stated without it. These are fewer than the protocol
  asks: the method, the version of HTTP, `Host` and the form of the key are not
  looked at, "Upgrade" need not be a whole token, and only the first
  `Connection` header counts. `OwnRequestAccepted`: that of a
  `ClientBuilder` is always one of these and the answer always passes the
  client's check, whatever headers were added, also those with the names of its
  own (the first of a name counts, and the client's own come first). This is
  about names and their order: whether an added name or value is one that HTTP
  allows, and hyper's limit of 100 headers, are not modelled.
  `ServesAccepted`, `ConnectedIsServed`: `on_client` runs only after a 101 that
  the client accepts, and a client that accepted it has a task. `Served`: a
  proper request is served unless the connection is lost. `ConnectReturns`: each
  of the six ways to connect ends with a client or an error (or the panic of
  `rustls_native_roots`), although both ends wait for each other.
* `Aligned` (`ws_inspect`): each header is read at the first byte of a frame,
  whatever was buffered before a seek. `Verdict`: `inspect` succeeds, complains
  of an incomplete payload, or of additional bytes, as is true of the file; with
  `--dump-data` it may give up at a header that is only partly in the buffer,
  which `AdditionalAtEnd` refutes. `Terminates`: `decode_stream` does not spin.

**Bounds, and why they are enough.** The numbers 125, 65535, 126, 2^63 and
`usize::MAX` are constants. For TLC they are brought close together (3, 5, 4, 8
in `message_stream`; 1, 2, 2, 11 in `sync_client`; 1, 2, 2, 30 in
`async_client`), so that small frames lie on
both sides of each; the proofs hold for the real values. `HeaderCodec` has the
real 125 and 65535, and 2^31-1 for the longest length, TLC's largest number; the
proof has all eight bytes of 2^64-1.
Four frames (`MaxFrames`, `message_stream`) hold a message of three fragments
with a control frame, or an error between fragments. `sync_client` and
`async_client` have two frames: enough for a
message in two pieces, a frame after a control frame or after an error, and
two frames in one read, cut up in every way. That longer streams behave alike
is what the theorem `Refinement` of either client says, so the rest is left to
`message_stream`. With `UsizeMax` 23 and frames of up to 24 bytes
(`sync_client`, `async_client`, `narrow_usize_panic`) a frame can be given up or
wrap around; one more has a padded length in `async_client`. 13 bytes are the least for two words with any
prefix and suffix (`mask`). Strings of 8 bytes with a limit of 5
(`close_reason`) are cut anywhere in a character of 1 to 4 bytes. Frames of 2
to 9 bytes go out in writes of any size, with a sink that flushes first from 3
bytes on (`echo`), so that a buffer left by a failed send is on both sides of
that boundary. "Upgrade" is two letters long (`handshake`), in haystacks
that have it at either end, in the middle, nearly, or not; two added headers
can repeat the key, the version, or both; two keys tell the client's from an
added one. A `BufReader` of 14 bytes (`ws_inspect`) holds the longest header, as
that of 8192 bytes does, and three frames, with payloads that are empty, fit, are longer,
cannot be sought past or only in two steps, lie across its end in every way;
files end at any byte. The frames are in the
`MC` modules, each there for a reason given in its comment.

**Fairness.** The `FairSpec` of `SyncClient`, used for `Drained` and
`EndReported` only, assumes that the client's thread runs and that the application calls `receive` again
after it returned (weak fairness of `Connect`, `Receive` and `Decode`; the
example programs loop in this way), and that a read with bytes or the end of
the stream before it does not fail every time (strong fairness of `Read` and
`ReadEof`: `ReadError` is always possible beside them). Nothing is assumed of
the server. In `Echo` the program runs and a write returns, with or without an
error (weak fairness of `Receive` and `Sending`); the peer need not send or
close. In `AsyncClient` the application polls again after each answer and after
it dropped `next()`, and decoding goes on (weak fairness of `PollAfterErr \/
Poll` and of `Decode \/ Upgraded`); it does not drop `next()` each time that
bytes or the end are there (strong fairness of `Read` and of the end: `DropNext`
and `ReadError` are always possible beside them). In `Handshake` `connect` goes
on once it is called, tokio polls what can go on, hyper does its part unless the
connection is lost, and who waits for an answer gets it or hears of the loss
(weak fairness of each); the application need not call `connect`. `WsInspect` is
one thread that runs.

`MessageStream`, `HeaderCodec` and `Handshake` may come to rest, when all
frames have been sent and taken or the connection is at its end: deadlock is not
checked there. It is in `SyncClient`, `AsyncClient`, `Echo`, `CloseReason`, `WsInspect` and `Mask`, where a
client that is gone, or a program or function at its end, stutters explicitly.

## 4. Findings

* **A frame length that wraps around** (`narrow_usize_panic`, `message.rs:236`).
  `header_len + data_len` is not checked. Where `usize` has 32 bits, a length
  just below 2^32 passes all checks and the sum wraps around; decode panics.
  The test `frame_bigger_than_2_64_does_not_panic` and the comment at line 240
  promise an error. On 64 bits `NeverPanicsHolds` proves that `decode` does not
  panic. `Panic` stands for both outcomes of the build: in a debug build the
  addition itself panics, in a release build `advance` does.
* **Masking on big-endian platforms** (`mask_big_endian`, `mask.rs:69`). The
  byte loops take the low byte of a register that was read in native order. The
  test `can_mask` takes care to be right on both byte orders, and would fail.
* **`wsinspect --dump-data` stops early** (`ws_inspect_additional`,
  `wsinspect.rs:18`). `decode_stream` gives up when `fill_buf` has no more bytes
  than the last time, but a `BufReader` reads only when its buffer is empty. A
  header across the end of the buffer is never completed, and what is buffered
  is reported as additional bytes at the end of the stream. Without
  `--dump-data` each seek drops the buffer, and this cannot happen after a
  payload. (In the run's trace the file is also cut short; what goes wrong does
  not depend on it.)

Remarks without a run:

* `header_len`'s doc (`frame.rs:149`) says at most 10 bytes; with a mask and a
  64-bit length it is 14, as `HeaderLen` has it.
* A client panics when the `Sec-WebSocket-Accept` of the response decodes to
  more than the 20 bytes of a digest: `decode_config_slice` (`upgrade.rs:52`;
  base64 0.13 documents the panic) gets a slice of that length. `UpgradePanic`
  models it in both clients, whose properties hold beside it. No doc or test
  says what a client does with such a response, so there is no property for it
  to refute. `server_upgrade` sends 20 bytes, so it cannot happen in `Handshake`.
* The doc of `server_upgrade` (`lib.rs:22-24`) says that it "fails" on a request
  without the right headers; the code returns `Ok` with a response of status
  400, as `BadRequest` has it.

## 5. The proofs

All theorems are for every value of the constants that the modules' assumptions
allow: any set of frames, any number of them, any length of the response, and
any boundaries in the order the code has them (`LengthAssumption`).

* **`MessageStream_proofs`**: `TypeCorrect`, `ExactHolds`, `OpenIsRunHolds`
  (the same for a message that is not finished). `Exact` is not
  inductive: that the next fragment extends a run needs the open message to be a
  run that reaches the present, with only supported control frames since. The
  invariant is `TypeOK /\ Exact /\ OpenIsRun`; the lemmas say that a run stays one when the
  wire grows or frames are taken, and that a continuation appended to a run
  whose last frame has no FIN is a run.
  `RejectsNonconformantHolds`, `AcceptsConformantHolds` and `DeliversAllHolds`
  assume `ShortControl` (a control frame may be as long
  as the short form of a length says: 125 and 126 are next to each other).
  `Conformant` and `PayloadOk` speak of the wire alone, so the invariant `Link`
  relates it to the decoder: a message is open exactly if the last data frame on
  the wire did not finish one (`Unfinished`), and it has exactly the frames of
  that message in their order (`Lists`). That there is only one such order
  (`SameOrder`) is shown by counting the elements below each. The rest is that
  what was sent stays as it is (`WellFormedKept`). For `DeliversAll` the
  invariant has `Listed`: as long as no error was reported, the number of
  messages delivered is that of the frames with FIN taken, and the message at
  the rank of such a frame is the one it finishes. A step takes one frame: if it
  has FIN it is the last of those taken and its rank is their number
  (`ListedNext`), and the ranks of the others do not change (`SameListed`).
  The module also has the lemmas about lengths added up (`Sums`), which `Echo_proofs`
  and `WsInspect_proofs` use. What a recursive function computes is proved by the least
  counterexample: a set of numbers that is not empty has a smallest element
  (`Smallest`, from the well-foundedness of the subsets of a finite set), and
  the definition at that element refutes it. This needs no induction theorem.
* **`SyncClient_proofs`**: `TypeCorrect`, `AlignedHolds`, `NeverPanicsHolds`,
  `NoBlockOnReadyHolds`, `CleanEndHolds`. `TypeOK` and `Aligned` are only
  inductive together, with `Layout`: frames lie end to end, nothing is sent
  before the handshake was accepted, and what can be read was sent. The step
  that matters is `TakeFrameFacts`: the size that decode computed, even modulo
  the width of `usize`, is the length of the frame whenever decode does not
  panic. `NeverPanicsHolds` assumes `WideUsize` (`LargeLimit + 13 <= UsizeMax`,
  true for 2^63 and 64 bits). `CleanEnd` needs `EndInv`: the end is only seen
  on a closed stream that has been read to its limit, and it stays so.
  `Refinement` is the theorem that `SyncClient`
  implements `MessageStream`, from the invariant above and `Idle` (no message is
  under assembly before the handshake is over). One lemma per group of
  actions: steps that the abstract codec does not see, and steps that are one
  of its actions. `Refuse` is `GiveUp` because a frame is only refused as
  unreasonable when it does not fit twice into `usize`.
* **`AsyncClient_proofs`**: `Refinement`, `CleanEndHolds`,
  `NoBlockOnReadyHolds`. Most steps of the asynchronous client are steps of the
  blocking one (`StepCases`), so the facts of `SyncClient_proofs` are
  taken by instance: its invariant is one here too, together with `Decided` (the
  end of the stream does not leave the handshake undecided). The four actions
  that are `Framed`'s own leave buffer, codec and messages alone (`OwnFacts`).
  `CleanEnd` needs `EndInv`: until an error was told, an end that is remembered
  with nothing to decode means an empty buffer. `NoBlockOnReady` needs
  `BlockInv`: whenever the next poll would read, the buffer holds no answer; the
  case that matters is `UpgradedWaits`, the frames that came with the response.
* **`FrameBytes_proofs`**, of `HeaderCodec`: `RoundTripsHolds`,
  `InitialisedHolds`, `AllDecodedHolds`, for any headers and any number of them.
  They assume `CodeLengths`: 125 is below the two numbers that announce a longer
  form, and the lengths of the other forms fit two and eight bytes. The
  invariant `CInv` adds to `RoundTrips` that the headers not yet decoded lie end
  to end in the bytes that arrived and the bytes that did not, taken together
  (`Laid`, with the place of each). Cutting the bytes anywhere leaves these as
  they were (`CutJoin`); what is at the front is the next header, so its first
  two bytes give its length (`AtFront`), and `Parsed` gives it back
  (`ParsedIs`). For the length this is `ReadBack`: the recursive
  `BigEndian` and `FromBigEndian` are unrolled for two and eight bytes.
* **`FrameBytes_proofs`**, of `Mask`: `MaskedInOrderHolds`, `RestoredHolds`,
  `NoAssertFails`, for
  payloads of any length, from `LittleEndian`. The invariant says how far the
  register has been turned (`Turned`), where the three loops stand (`Position`:
  words are never left in the middle), and what each byte holds (`Contents`).
* **`CloseReason_proofs`**: `TypeCorrect` and `CloseArrivesHolds`, for every string, every limit in place of 123 and every
  `u16`, and `CodeRoundTrips`. The invariant says that no boundary within the
  limit has been passed while the loop runs (it ends at boundary 0 at the
  latest), that afterwards the string is the longest prefix, and what `Fill`
  has put where.
* **`Echo_proofs`**: `OutAlignedHolds`, `AllWrittenHolds`,
  `AnswersInOrderHolds`, `NothingAfterCloseHolds`, `PeerAcceptsHolds`, for any
  frames received, any number of them, and all five programs at once. The
  invariant `EInv` contains that of `MessageStream` for what is received, and:
  `Messages` (whatever is sent or about to be has the data of one message
  received, or none); `Laid` (what is written with what is still to be written
  is the frames sent, end to end), of which `OutAligned` is the part that is
  written; `Control` (where the program can be while something is left to
  write; from it `AllWritten`); `Paired` (the answers so far and the messages
  that ask for one correspond by rank, and while an answer waits to be encoded
  there is one message more: a rank is a cardinality, so a step is shown to
  change it by one or not at all), from which `AnswersInOrder` follows; `Closing`
  (once a close message was said, only a close message is pending, and either
  the peer's own close message was the last thing received or the program is
  about to stop), which makes `NothingAfterClose` inductive.
  `PeerAcceptsHolds` assumes `ShortControl`, here `ControlLimit = SmallMax + 1`,
  and `[]Fits`: no message that is echoed has 2^63 bytes, which no vector
  has. Its argument: an echoed message was taken by the decoder, which checked
  every fragment; the answer is one frame, with the shortest form for the sum of
  their lengths; a control message has one fragment, so its length is one that
  was checked; text that was put together of pieces is valid as a whole.
* **`Handshake_proofs`**: `AcceptsExactlyHolds`, `ServesAcceptedHolds`,
  `ConnectedIsServedHolds`, `OwnRequestAcceptedHolds`, for any set of requests,
  any number of any added headers and any keys (`HandshakeAssumption`: headers
  are built from `Names` and `Chars`). The invariant has three parts. `Parsed`
  says what is known of the request at each place in `parse`; while the search
  runs, what is left contains "Upgrade" exactly if the header does
  (`SearchTail`). `Tasks` ties the task to the response and the hand-over: a
  task exists exactly if there is or will be a 101. `ClientInv` and `Joint`
  relate the ends: the server's request is the client's, the key is the first
  one in it (`HeaderFirst`, `OwnProper`: the client's own headers come first),
  and a client that decided did so on the response that was written.
* **`WsInspect_proofs`**: `AlignedHolds`, `VerdictHolds`, for any file of any
  frames, any size of the `BufReader` that holds a header, and any limit of a
  seek. The invariant `WInv` says where `inspect` stands in the file between two frames
  (`Between`) and in a payload (`Inside`), as sums over the lengths of the
  frames before. The part that takes an argument is `prev`: that `fill_buf` gave
  no more than before means that the file is at its end, unless a payload was
  copied out of the buffer (`dump`), which is the case of the finding above.
  `Told` is the verdict itself, once given.

**Only model-checked.** The liveness properties (`Drained`, `EndReported`,
`Ends`, `Served`, `ConnectReturns`, `Terminates`): fairness and ENABLED are out
of the prover's reach. Every safety invariant and both refinements that a
passing run checks are proved.

## 6. Not modelled

* The capacity of buffers: `reserve` in `decode` and `receive` and when
  `BytesMut` allocates (the README's claim about allocations).
* The text of the HTTP request and response, its path and port, base64 and
  SHA-1. In the clients a response is accepted, refused or one that makes base64
  panic, as a whole, one that
  is not HTTP as early as at its first byte; in `Handshake` it is a status and
  an accept header. hyper always hands the connection over after a 101 there:
  requests of HTTP/1.0, after which it does not, are not modelled.
* Streams of the application's that hold back what is written: no request and
  no blocking send is flushed.
* Applications that send after a failed blocking send, and the freely made
  messages of an application (`Message::ping` of any length): see the plan.
* The forwarding of reads and writes in `ssl.rs`, and the certificates of either
  library.
* `wsdump`'s own two loops (when one ends, the program drops the other with its
  stream and returns) and `hello-world`: I/O without state of their own. `CloseCode::is_allowed`,
  getters, test support.

## 7. The plan

Done: `Frame`, `Message`, `MessageStream`, `SyncClient` with the refinement,
`AsyncClient` with the refinement, `HeaderCodec`, `Mask`, `CloseReason`, `Echo`,
`ServerUpgrade`, `ClientBuilder`, `Handshake`, `WsInspect`. Next, in this order:

1. **`Endpoint`**: two endpoints through two streams, with an application that
   sends what it likes, also after a send that failed half-way. What does the
   peer deliver then?
2. **`ReadBuffer`**: the capacity of `BytesMut` as `receive`, `decode` and
   `Framed::from_parts` see it, to replace the free choices in `Receive` and
   `DecodeFirst`.
