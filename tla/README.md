# A verification project for the NDI / WebRTC peer worker

The worker is a process driven over stdin and stdout. It owns one WebRTC peer
connection, feeds it with what an NDI source sends, and sends what the peer
sends to NDI sources. This directory holds TLA+ models of its components,
configurations that check them with TLC, and proofs checked by TLAPS.

Paths of the source are relative to the root of the repository; the worker's
own code is in `src/` (so `src/Dispatcher.cpp`, listed in `PROJECT.json` as
`src/src/Dispatcher.cpp`). There is no specification of the worker beside its
code, its comments, its assertions and the texts of its errors.

## 1. The system

### Threads

| thread | what it runs |
|---|---|
| main | `Dispatcher::run`; it is WebRTC's signaling thread as well: in `processMessages` it executes the calls other threads make on the peer connection and on data channels (marshalled by WebRTC's proxies, the caller blocks), the `PeerContext` callbacks and the observers |
| runner | `Dispatcher::dispatch`: reads a command line, executes it, reads the next |
| a reader's thread | `NDIReader::run`: captures from NDI, feeds `VideoDeviceModule` and `BaseAudioDeviceModule` |
| WebRTC's worker | starts and stops the audio device, registers its callback |
| process thread | `BaseAudioDeviceModule::OnMessage`: a frame of audio every 10 ms |
| a track's thread | `NDIWriter::OnFrame`, `OnData` |
| encoder, decoder threads | `FFmpegVideoEncoder`, `FFmpegVideoDecoder`, `MSDKVideoEncoder`: one call at a time for each codec; the encoder's thread also asks `CustomEncoderFactory` for the encoder |
| reporters | `ThrottledReporter::run`, one thread in each reader, one in the video device module and one in the audio device module |

### Components

| component | state | operations | interacts with | hard behaviour | what makes it correct |
|---|---|---|---|---|---|
| `Signaling` | `buffer` under `mutex` | `send` and the replies, `commitBuffer`, `receive` | called by every handler and observer; writes stdout | a line sent while the buffer is copied | every line printed once, in order |
| `Dispatcher` | `finished` | `run`, `dispatch`, `exec` | calls `PeerContext`; joins the runner | marshalled calls at the end, STOP, end of stdin, exceptions | no deadlock at the end, the peer outlives the runner, one reply per command at most |
| `PeerContext`, commands | `pc`, the configurations | one handler per command, observers that reply later | WebRTC, `Signaling` | replies from two threads, early returns, exceptions after effects | one reply, `createPeer` keeps its word |
| `PeerContext`, data channel | `dc` | `createDataChannel`, `sendDataMessage`, `OnDataChannel`, `OnStateChange`, `OnMessage`, `end` | WebRTC channels | `dc` shared by two threads without a lock | one channel, no null reference, states reported as they are |
| `PeerContext`, tracks | `reader` | `addTrack`, `removeTrack`, `replaceTrack`, `OnIceGatheringChange` | `NDIReader` | the reader started by two threads, replaced while used | started once, never used when destroyed, capturing when gathering is complete |
| `NDIReader` | `running`, its thread, its receiver | `open`, `start`, `stop`, `run` | the device modules | the flag set before the thread exists, join | stop and destruction return |
| `BaseAudioDeviceModule` | what is active, `_started`, the process thread, the FIFO, the callback | start and stop of both ways, `RegisterAudioCallback`, `feedRecorderData`, the messages | WebRTC's worker, a reader | two locks, a message loop that restarts itself, a thread joined | one loop, silence after a stop, callback not used after it is gone, no deadlock |
| `NDIWriter` | `_connected`, `_connected_attempts`, `_NDI_video_frame`, `_lastVideoFrame` | `set`/`reset` of tracks, `OnFrame`, `OnData`, the destructor | the tracks, NDI | NDI reads a buffer asynchronously; several tracks, one writer; sizes, rotations, padding | the buffer is alive while it is read, and has the size NDI is told |
| `VideoDeviceModule`, `FrameRateUpdater` | the adapter | `feedFrame`, `updateFrameRate` | a reader, the encoder factory | halved frame rates, odd sizes | what the encoder is told is what it gets |
| `FFmpegVideoEncoder` | codec and hardware contexts, frames | `InitEncode`, `Encode`, `SetRates`, `Release` | WebRTC, libavcodec | calls in any order after a failure, NAL units cut at a packet's end | no use of a released context, fragments cover the packet |
| `FFmpegVideoDecoder` | the same, for decoding | `InitDecode`, `Decode`, `Release` | WebRTC, libavcodec | the same | the same |
| Intel Media SDK encoder (Windows) | session, allocator, encoder, surfaces | `InitEncode`, `Encode`, `SetRates`, `Release`, the destructor | WebRTC, the driver | a stage that fails leaves what the others did | no fault and no leak for a caller in order, pictures fit their surfaces |
| codec factories | a configuration, the frame rate | `GetSupportedFormats`, `Create...` | WebRTC | advertised formats without a codec | what is advertised can be created |
| `PeerFactoryContext` | threads, factory, configuration | constructor, `setConfiguration`, `createPeerConnection` | everything | a failed `createPeer` consumed the port allocator | a failure leaves it usable |
| `ThrottledReporter` | `running_`, `total_reports_` | `report`, `run`, the destructor | the reader, both device modules | a lost wakeup, lost counts | the destructor returns, nothing is printed twice |
| `main` | - | - | - | - | exits after `run` |

The hazards of the code are listed in `PROJECT.json`, each at its line, with the
properties aimed at it, or the reason why none is. What has no model is in
section 5.

## 2. The modules

```
OutputChannel  <--implements--  Signaling                       SignalingProofs
      ^------------implements--  Dispatcher                      DispatcherProofs
                                 DataChannel                     DataChannelProofs
                                 ReaderLifecycle                 ReaderProofs
                                 AudioDevice                     AudioDeviceProofs

ThrottledReporter  <--extends--  Capture         (MCCapture)     CaptureProofs
FrameGeometry      <--extends--  NDIWriter       (MCNDIWriter)   NDIWriterProofs
CodecFactories     <--extends--  PeerFactory     (MCPeerFactory) FactoryProofs
      ^---extends-- FFmpegEncoder, FFmpegDecoder, MSDKEncoder    FactoryProofs
                        ^ with NalUnits                 ^ with SysMemAllocator
                    Codecs: the three composed   (MCCodecs)
```

Every module has its steps named after the code they stand for, and begins with
the faulty variants ("mutants") of some of them: each property is shown to fail
for one. The MC modules only give values to constants that a configuration file
cannot express.

Models of the same thread at different grain meet where one shows what the other
assumes: `Dispatcher` takes `send` and the copy in `commitBuffer` to be atomic
because `Signaling`, which does not, implements the same `OutputChannel`;
`DataChannel` and `ReaderLifecycle` take for granted that the main thread serves
a marshalled call and that `end` runs after the runner, which are `CallReturns`
and `EndIsLast` of `Dispatcher`. `Capture` begins with a reader that runs and
ends with its destruction, which `ReaderLifecycle` shows to come after its
thread has ended (`ThreadsEndFirst`).

**OutputChannel** is the abstract promise to the client: what is printed is at
all times a prefix of what was handed in, in that order.

**Signaling** has the mutex, and one step for the lock, the loop that copies,
the `clear`, the `unlock` and each line printed. `pc` is the place of each
thread; the main thread is one of the senders.

**Dispatcher** has both loops. A command is `todo`, the list of what its handler
still does: `call` and `post` block the runner until the main thread serves
them, `post` leaves an observer in `pending`, `ok`, `error` and `wrongError`
reply, `throw` is an exception caught in the loop. The handlers are definitions
named after those of `PeerContext`; what WebRTC answers is a choice among the
paths. A line is identified by its position, which stands for `correlation`.

**DataChannel** begins when there is a peer connection. Every access to `dc` is
a step; a marshalled call is a step of the main thread between two of the
runner. WebRTC's channels change their state at any moment in their order.
`end` is modelled line by line, with the state changes that `Close` causes.

**ReaderLifecycle** has the unique_ptr `reader`, and for each reader its flag, its
thread (not joinable, in its loop, returned), its receiver and whether its
memory was given back. `start` is two steps, as is `stop`. `fault` says how the
process was ended: a null pointer, a freed object, or `std::terminate` by a
joinable thread. Assertions are taken not to be compiled: what they forbid goes
on to what follows.

**AudioDevice** has the two critical sections, the messages of the process
thread and the number of samples in the FIFO. `_crit` is recursive in the code,
and no thread takes it twice here.

**ThrottledReporter** has the counter, the flag, the thread and the destructor
of each reporter. The print and the reset of the counter are two steps; so are
the two halves of the destructor, because it notifies without the mutex. The
thread leaves its loop without another look at the counter. The reporter of the
audio device module has no user in the models: it is one more of the same kind.

**Capture** is the way of a video frame, on the reader's thread, from `run`
through `VideoDeviceModule` to `CustomEncoderFactory`, with the encoder's thread
that reads the rate whenever it likes. A rate is a fraction, halved as the code
halves it: only the numerator, as an integer, and once more in the factory, in a
second assignment another thread can see the first one without. Both reporters
are composed with their users, and the end destroys all of them in the order of
the code.

**FrameGeometry** has the sizes of a frame in the three output modes, with the
rounding of `nearbyint`, the truncation of an integer division, and what
`PasteFrom` checks. **NDIWriter** has the threads of several tracks in `OnFrame`,
in every configuration, the connection check with its counter, and which buffers
some `shared_ptr` refers to. Memory is reused once freed. The fields of
`_NDI_video_frame`, which the tracks share, are assigned one by one, in a step
each, from the width, height and buffer that are local to a call. The process
ends where the code ends it: if NDI refuses to create the source, `open` throws a
string that no handler catches; `PasteFrom` checks its arguments. (`open` throws
for a source without a name too, but `OnAddTrack` asks `isEnabled` first.)

**CodecFactories** has the configuration of both factories, the formats they tell
and the class of codec they create, per platform. **PeerFactory** is `createPeer`
with every place at which the JSON can have the wrong type and so end it with an
exception, after some of its effects: an attempt is one step, for nothing else
uses this state before there is a peer; the history of the failed attempts is
kept, because each of them leaves something to the next.

**NalUnits** is the search for start codes and the loop around it, on bytes, and
the reference: a packet made of units, each with its start code.
**SysMemAllocator** has the memory of a surface per format and the pitch and
rows of its planes: sizes in 32 bits, the pitch in 16, which a wide surface of a
format with two bytes or more a pixel would exceed (the worker uses NV12).
**FFmpegEncoder**, **FFmpegDecoder** and **MSDKEncoder** have one record each, the
members of the class and the state of the library behind it: which frames it
keeps, what is held, leaked or dangling. Every call of WebRTC is a step that
can fail at each of its returns. **Codecs** composes them with the factories: the
initial state is any codec that a factory creates, on any platform.

## 3. The runs

Invariants that belong together are one conjunction of named parts
(`SignalingInv`, `LoopsInv`, `DataChannelInv`, `ReaderInv`, `DeviceInv`,
`WriterInv`, `ReportersInv`, `PeerInv`, `EncoderInv`, `DecoderInv`); each part has
its own comment in the module.

| run | shows | bounds and why they suffice |
|---|---|---|
| `signaling` | the buffer implements the channel and prints every line | three threads: the committing one and two that contend for the lock; three lines: one printed, one copied, one arriving |
| `dispatcher` | no deadlock at the end, ends on STOP, calls return, observers reply, lines are printed, at most one reply, `createPeer` keeps its word | one command per way of answering: by the runner after a call or two, or by an observer. The other commands have the same shapes, and the theorems are about all of them. Three lines let one command be answered while the next is executed; one event |
| `data_channel` | one channel created, null only after two, reports right, answers in order | the local channel and one of the peer's; four commands: a check, a creation, and two messages whose answers can differ |
| `data_channel_one` | a finding: two channels observed | one command, one channel |
| `reader` | when each way to end the process can happen, and that otherwise the reader is started once, captures, and ends | two streams, because the second `removeTrack` is what finds no reader; two readers, one being destroyed while the other starts; two completions; three commands |
| `reader_overlap` | a finding: a reader started by two threads | one of each |
| `audio` | one loop of frames, silence after a stop, callback lifetime, one late feed, stops return, playout goes on | frames of two samples fed by one or three, so that a frame can be incomplete or leave a rest; eight calls: initialize and register, then two rounds of start and stop |
| `writer` | for one track, buffers are alive, clients noticed and NDI told the truth about each picture; the last also for more tracks where the configuration gives all frames one size | two tracks, the second a source of interference; a buffer for each place that can hold one, and one more; a check every three frames instead of ten; a frame wider than high and one higher than wide, in each rotation; outputs as the frame, no multiple of four wide, and higher than wide. Tracks and buffers are symmetric: no step tells one from another |
| `writer_two` | a finding: a buffer freed while NDI reads it | two tracks, a check at every frame |
| `capture` | every other frame above 30 per second is dropped, the encoder is created with a rate, it is the one of the frames, reports are printed once or lost where the code loses them, everything ends | rates just below 30 (30000/1001), above it and odd (31), and above 60 (120), in any order; two reports for each reporter: one printed and one lost, or both together |
| `peer_creation` | a client told of its peer has the one it configured; its ports are in the range; what makes an attempt fail; the formats advertised have a codec | two attempts, so that what each failed one leaves is seen, by the attempt after it or in the state that remains; servers none, good, refused, wrong; each other part absent, right and wrong |
| `codecs` | images in the order of the frames with their timestamps, fragments are the units of the packet, decoded pictures stay in order and, with a decoder that keeps none back, have the timestamps of their packets, the Media SDK encoder meets no fault | packets of up to three units over both start codes with payloads of one byte, with a zero in front, and with an emulation prevention byte; at most two units instead of 32; four frames, two of them inside the library, in several contexts; sizes of 1, 720 and 1080 |

`reader`, `data_channel` and `writer` state some properties under a condition
(`overlap`, `assigned`, `ever`). The condition excludes the behaviours of the
three findings, and of several tracks that share the writer's fields and counter,
so that the rest says what the code does guarantee. `MSDKSafe` likewise has
callers in order (`orderly`) as its condition.

Two runs do not check deadlock. In `audio`, when nothing is active and the worker
has made its calls, the device rests. In `codecs`, a destroyed or faulted encoder
takes no more calls, and a codec of WebRTC itself has none here. All other
models end in a step that stutters, when the process has exited or crashed.

### Findings

1. `createDataChannel` answers "Only one datachannel supported"
   (`src/PeerContext.cpp:128`), but between its test of `dc` and its assignment
   the main thread can run `OnDataChannel`: two channels are observed, and what
   is reported of one is the state of the other.
2. `NDIReader::start` asserts `!running` (`src/NDIReader.cpp:115`). `addTrack`
   asks whether gathering is complete in a marshalled call and then starts the
   reader; the completion can be delivered in that call, and starts it too.
3. "save current & clean last" (`src/NDIWriter.cpp:149`): with two video tracks
   the buffer kept is the one NDI has given back, and the one cleaned is the one
   NDI reads.

### What the models show besides

No text of the repository promises otherwise, so these are not findings; the
properties state them as they are.

- A notification of `~ThrottledReporter` can be lost; because the wait has a
  timeout, the destructor still returns (`EndsCompletely`). Reports are lost
  between a print and its reset, and at the end, if they came after the thread
  looked at the counter for the last time; no others are (`CountsAreExact`).
- The rate told to the encoder is below the rate of the frames by what the
  integer halving loses; above 120 frames a second it may exceed 30
  (`RateIsFed`).
- `PasteFrom` ends the process for a rotated picture at least half a step of four
  too wide for its output, and can for outputs whose width is no multiple of
  four; elsewhere it accepts all pictures (`FrameFits`).
- The first attempt that gets as far as WebRTC consumes the allocator of ports,
  and servers accumulate: once WebRTC refused one, no attempt creates a peer any
  more (`RetryWorks`, `PortsInRange`).
- H265 is advertised for encoding although without hardware there is no such
  encoder (`FormatsServed`).
- The decoder leaves the buffer unfilled for layouts other than I420 and NV12
  (`DecodedIsInput`).
- With several tracks whose frames differ in size, NDI can be told the size of one
  frame with the buffer of another (`FrameFits` has the condition).
- A last NAL unit of one byte after a short start code is not found, nor are
  units after the 32nd (`FragmentsAreUnits`).
- `MSDKVideoEncoder` never initializes `m_mfxSession`; a second `InitEncode`
  without a `Release` frees the allocator and then uses it; the buffer of an
  image is lost if it had grown, and the surfaces if fewer were allocated than
  asked for (`MSDKSafe` and its conditions).

One text does expect otherwise, of a library: "We don't expect reordering. Decoded
frame tamestamp should match the input one" and the `RTC_DCHECK_EQ` under it
(`src/webrtc/FFmpegVideoDecoder.cpp:191-193`). The decoder takes one frame per
packet and gives it the timestamp of that packet, so if libavcodec keeps frames
back, a picture gets the timestamp of a later packet, by any number of packets
when some give no frame, until there is a new context. The model has both kinds of
decoder (`delays`), takes the check as not compiled, as in a release build, and
`DecodedIsInput` says what holds for each: the picture is of the same context,
not of a later packet, and pictures keep their order; without delay the timestamp
is its own. Whether libavcodec keeps frames back depends on the stream and the
decoder, which are outside of this code, so this is not listed as a finding.

### Fairness

- `Signaling`: a thread under the lock goes on; the lock is not refused for ever
  to a thread that asks again and again.
- `Dispatcher`: both threads are scheduled. A marshalled call is found by
  `rtc::Thread::Get` before anything else, and an observer is in the queue that
  the loop empties; the loop is elsewhere in between, hence strong fairness for
  each. The client owes nothing: lines, STOP and the end of stdin may not come.
- `ReaderLifecycle`: every thread is scheduled (a capture returns within a
  second); a marshalled call is served although the main thread comes and goes.
  Neither gathering nor the client owes anything.
- `AudioDevice`: the worker and the process thread are scheduled, and get the
  locks they ask for again and again. A reader owes nothing.
- `Capture`: the reader's thread and those of the reporters are scheduled, and
  the wait of a reporter times out; a stopped reader is destroyed, and after it
  the device module. Nobody is bound to stop it.
- `DataChannel`, `NDIWriter`, `PeerFactory` and `Codecs` have safety properties
  only, and no fairness.

## 4. The proofs

The proofs are for every value of the constants: any threads and lines, any set
of commands, any bounds, frame and feed sizes, rates, picture sizes and
configurations. They assume what the modules name, which says what kind of value
each constant is: `SignalingAssumption`, `DispatcherAssumption`,
`DataChannelAssumption`, `AudioAssumption`, `ReporterAssumption`,
`ReaderAssumption`, `CaptureAssumption`, `WriterAssumption`,
`PeerFactoryAssumption`, `EncoderAssumption`, `DecoderAssumption`,
`MSDKAssumption` and `NalAssumption`. The only restrictions are that rates and
sizes are positive, that a server after one of the wrong type is left out of a
configuration, and `ShapeAssumption`: a packet consists of NAL units as the
standards of H.264 and H.265 define them, so that no payload has a start code
inside or a zero at its end (the encoders behind libavcodec insert emulation
prevention bytes for that; nothing in the repository checks it).

- `SignalingProofs`. `SignalingInv` is inductive: beside the types, it says that
  the mutex is owned by the one thread in a step under the lock (`MutexInv`),
  without which another thread could push between the copy and the clear, and
  that the copy is the whole buffer (`CopyIsWhole`), without which the clear
  would lose lines. Then each step of the buffer is a step of `OutputChannel` or
  a stutter: copying and clearing do not change `Accepted`.
- `DispatcherProofs`. `ThreadInv` relates the places of the two threads to
  `finished`: only the runner sets it, when it leaves; so a runner that waits
  finds the loop running, and `end` comes after it (`LoopsCorrect`). `AnswerInv`
  says that what is left of a handler answers once at most and that a line still
  to be answered is not answered yet, which makes `OneReply` inductive; it rests
  on a lemma on the shape of the handlers. `CreateInv` says that a success of
  `createPeer` still to come is preceded by the assignment. The refinement of
  `OutputChannel` is as for `Signaling`.
- `AudioDeviceProofs`. `LockInv` says who holds the locks where, `ChainInv` that
  without `_started` no frame is pending and without the thread nothing is, and
  why the worker starts or joins it (`DeviceCorrect`); `FeedInv` that a feed that
  passed the test is the only one that can be late.
- `DataChannelProofs`. `assigned`, the channels `dc` has referred to, carries the
  argument. `ReferenceInv` says which of them is where in the steps of the
  runner, and that before the end `dc` is null only if nothing was assigned;
  `NullInv` that the end observes the channel it forgets no more, so that only
  another one's observer finds `dc` null, after a second assignment;
  `CreatedInv`, `ToldInv` and `AnswerInv` relate the replies and reports to the
  state, which only goes forward (`RankGrows`).
- `CaptureProofs`. `AlternationInv` relates the parity of the counter to what
  became of the last frame above 30, at each place between the test of a frame
  and its count; `RateInv` says which rate is in `frame_rate` at each of the two
  assignments, and lemmas on the halving give what is left of it;
  `CountInv` is the sum of what was printed, lost and still counted, with what the
  thread found at its last look (`looked`): what it leaves behind came after that.
- `NDIWriterProofs`. `HandOverInv`: with one track, what NDI reads is the frame
  kept, or the one the track is about to keep. `NoticeInv` bounds the skipped
  frames by the counter. `ToldInv`: the fields a call has already written are its own
  (`Written`), because no other track writes them or, with one size configured,
  because all tracks write the same (`TheSize`); so what NDI is told at the call is
  the description of the buffer. The rest of `FrameFits` follows from lemmas on the
  geometry: a
  quotient less than half a step above a bound is rounded to the bound
  (`NearbyBound`), so a picture less than half a step of four too wide is pasted
  (`PastedIfFits`).
- `ReaderProofs`. `HolderInv` says who has a reader: the member, one destructor,
  or nobody once it is destroyed; so nothing is used after it was freed.
  `SenderInv`: before the end the member is null only without senders or after two
  streams had one. `GatheringInv`: before the first completion nothing was
  started. `OpenedInv`: what `addTrack` starts was opened. Until a completion
  meets a track command (`overlap`), `FlagInv` says that the flag and the thread
  of a reader agree except between the two halves of `start` and of `stop`,
  `OrderInv` that the main thread starts a reader only while the runner rests and
  that the member runs once gathering is complete, and `OnceInv` that no reader
  is started twice. `ReaderInv`, `OneCapture` and `CapturesWhenComplete` follow.
- `FactoryProofs`, on `PeerFactory`. `RefusalInv`: if the allocator is gone and
  there is no peer, a refused server is among those kept, and those are never
  removed; so no peer is created without the allocator, and an attempt without an
  error fails only because of such a server. `ConfiguredInv`: the servers kept
  are those of all attempts in order (`Joins` says so without recursion: each
  attempt has a place in the list), and each codec factory is as the last attempt
  that reached it left it; so a client told of its peer has the one it asked for.
- `FactoryProofs`, on `Codecs`. `EncodingInv` and `DecodingInv` say that what
  libavcodec keeps inside is in the order it was given (`Ordered`), belongs to
  the present context, and comes after all that came out (`Delivered`,
  `Decoded`), whatever call fails in between. `MSDKInv` says what the Intel
  encoder holds after each last call in order (`Held`, one case for each stage at
  which `InitEncode` can stop), and lemmas on the alignment give that a frame
  fits in its surface (`AlignedSize`, `NV12Fits`).
- `FactoryProofs`, on `NalUnits`. `SearchIsComplete`: the search skips up to three
  bytes at a time and still finds the first start code it can see, because the
  bytes that made it skip cannot begin one. `PacketIsCut`: in a packet the search
  that begins at a payload finds the end of that unit, and nothing inside it, so
  the positions are the ends of the units, and the fragments are what `Expected`
  says. `FragmentsCorrect` applies it to every image of an encoder. The functions
  are recursive: each is shown to exist and to have these values by induction on
  the positions, from the end of the packet to its beginning (`Downward`), which
  rests on the least element of a set of numbers (`Least`).

Every invariant and action property of the runs that pass is a theorem. Only
model-checked are the liveness properties under fairness (`EveryLinePrinted`,
`StopEnds`, `CallReturns`, `PostedIsAnswered`, `SentIsPrinted`, `StopReturns`,
`KeepsPlaying`, `CommandReturns`, `EndReturns`, `EndsCompletely`), which are out of
the prover's reach.

## 5. What the models leave out

- Data: the JSON of messages, SDP, candidates, options, payloads, the contents
  of frames. A message is its line, its command and whether it is a success.
- Reads and writes of an unprotected reference (`dc`, `reader`) are taken to be
  one step each. Formally they are data races; a torn scoped_refptr or
  unique_ptr is not modelled, only what follows from their order. So is the
  counter `_connected_attempts`, whose read and write are two steps, and the
  frame rate of the factory.
- Failures of WebRTC the code does not look at: `CreateDataChannel` gives a
  channel (with the default configuration it can only fail on a closed peer
  connection).
- A reader's `open` succeeds or throws as one step; it takes up to six seconds,
  in which the main thread goes on, as it does in the model before and after.
- `OnRenegotiationNeeded`, which does nothing; the queries of the audio device
  that return constants; volumes; logging.
- In the codecs: profiles, levels, bit rates, temporal layers and the parameters
  given to the drivers, which are handed on as they are.

### Not modelled

- Vendored code: `json.hpp`, `args.hxx`, `webrtc/FFmpegVaapiEncode.h` (a private
  header of FFmpeg) and `vendor/abseil-cpp`. The three headers are three quarters
  of the lines of code under `src/`. They are libraries the worker uses through a handful
  of calls; a model of them would say nothing of the worker, so a map of this
  repository cannot reach a third of its lines. Of the worker's own sources the
  map covers two fifths; the rest is declarations, includes, logging, tables of
  parameters and the items below.
- `webrtc/win/d3d_allocator`: compiled, but its factory function is never
  called. `webrtc/win/mediautils`: tables of names, and a parser of a prefix NAL
  unit, pure functions over data.
- `NDIReader`: what `open` configures, `findSources` (a loop over the answers of
  a library) and the copy of audio channels, but for the exit it may take.
- `main`: the parsing of the arguments and the initialization of libraries,
  sequential and before anything else. So is the construction of
  `PeerFactoryContext`.

## 6. What is left

1. `Worker`: `Dispatcher` with the reader and the data channel in one model, so
   that what they assume of each other (section 2) is checked rather than cited.
2. An abstract asynchronous sender that `NDIWriter` with one track implements.
