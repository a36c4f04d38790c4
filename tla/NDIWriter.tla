----------------------------- MODULE NDIWriter -----------------------------
(***************************************************************************)
(* class NDIWriter: what is received from the peer, sent to an NDI source. *)
(* The main thread registers the writer as the sink of each video track in *)
(* OnAddTrack, and takes it back in OnRemoveTrack; each track delivers its *)
(* frames from a thread of its own.                                        *)
(*                                                                         *)
(* A frame is handed to NDI without a copy: NDI reads the buffer until the *)
(* next frame is handed to it.  The writer keeps the buffer alive meanwhile*)
(* in _lastVideoFrame.  A buffer is alive as long as a shared_ptr refers   *)
(* to it, _lastVideoFrame or the local one of an OnFrame in progress.  The *)
(* struct that describes the frame to NDI is a member too: all tracks write*)
(* it, field by field and without a lock, before they pass it on.          *)
(*                                                                         *)
(* FrameGeometry has what OnFrame does with the size of a frame; here each *)
(* frame has any of a few sizes and rotations, and the writer any of a few *)
(* configurations.  Two things end the process: a source that NDI refuses  *)
(* to open, as open then throws a string that nobody catches, and a check  *)
(* of PasteFrom.                                                           *)
(*                                                                         *)
(* The audio, which changes no state of the writer, is left out.           *)
(***************************************************************************)
EXTENDS FrameGeometry, FiniteSets

CONSTANTS Track,        \* the video tracks of the peer
          Buffer,       \* the memory of the frames, reused once freed
          NoBuffer,     \* a null pointer
          CheckEvery,   \* the frames between two looks at the connections, 10
          Size,         \* the sizes of the frames
          Out           \* the configured sizes of the output, 0 if not configured

ASSUME WriterAssumption == /\ CheckEvery \in Nat \ {0}
                           /\ Size \subseteq (Nat \ {0}) \X (Nat \ {0})
                           /\ Out \subseteq Nat \X Nat
                           /\ NoBuffer \notin [at : Buffer, size : Nat \X Nat]

\* A pointer to the memory of a frame, and the size of the picture converted into it.
Frame == [at : Buffer, size : Nat \X Nat]

\* What NDI is told of a frame: NDIlib_video_frame_v2_t.
Descriptor == [xres : Nat, yres : Nat, p_data : Frame \cup {NoBuffer}, line_stride : Nat]
NullFrame == [xres |-> 0, yres |-> 0, p_data |-> NoBuffer, line_stride |-> 0]

\* The writes of OnFrame to the descriptor, in order; the last one is followed by the call.
After == [xres |-> "yres", yres |-> "p_data", p_data |-> "line_stride", line_stride |-> "send"]

Nothing == <<>>

Configuration == [mode : {"vertical", "square", "pad"}, out : Out]

VARIABLES config,       \* writerConfig
          writer,       \* "none", "open", "flushed" in the destructor, "gone", or
                        \* "aborted" with the process
          sinks,        \* the tracks that have the writer as a sink
          clients,      \* TRUE while somebody receives the NDI source
          attempts,     \* _connected_attempts, modulo CheckEvery
          connected,    \* _connected
          pc,           \* where the thread of each track is in OnFrame
          seen,         \* the attempts it has read
          target,       \* its local width and height
          frame,        \* its local shared_ptr
          descriptor,   \* _NDI_video_frame, which all tracks share
          sending,      \* what NDI was told of the frame it reads
          last,         \* _lastVideoFrame
          ever,         \* history: the tracks there have been
          missed,       \* history: the frames skipped in a row although there are clients
          refused       \* history: the sizes PasteFrom ended the process with
countVars == <<clients, attempts, connected, missed>>
sizeVars == <<config, refused>>
localVars == <<seen, target, frame>>
vars == <<sizeVars, writer, sinks, countVars, pc, localVars, descriptor, sending, last, ever>>

Init == /\ config \in Configuration
        /\ writer = "none"
        /\ sinks = {}
        /\ clients = FALSE
        /\ attempts = 0
        /\ connected = FALSE
        /\ pc = [t \in Track |-> "idle"]
        /\ seen = [t \in Track |-> 0]
        /\ target = [t \in Track |-> <<0, 0>>]
        /\ frame = [t \in Track |-> NoBuffer]
        /\ descriptor = NullFrame
        /\ sending = NullFrame
        /\ last = NoBuffer
        /\ ever = {}
        /\ missed = 0
        /\ refused = Nothing

\* The buffers some shared_ptr refers to.
Alive == ({last} \cup {frame[t] : t \in Track}) \ {NoBuffer}

\* What a track has to tell NDI: its locals width, height, frame and stride.
Description(t) == [xres |-> target[t][1], yres |-> target[t][2], p_data |-> frame[t],
                   line_stride |-> 2 * target[t][1]]

Goto(t, step) == pc' = [pc EXCEPT ![t] = step]

\* A frame that is not sent; counted for one interval at most.
Skip == missed' = IF clients /\ missed < CheckEvery THEN missed + 1 ELSE missed
-----------------------------------------------------------------------------
(***************************************************************************)
(* Faulty variants of the steps below, one per property stated at the end. *)
(***************************************************************************)

\* Frames are not counted while they are skipped.
CountSent(t) == /\ pc[t] = "count"
                /\ attempts' = IF connected THEN (seen[t] + 1) % CheckEvery ELSE 1 % CheckEvery
                /\ connected' = IF seen[t] = 0 THEN clients ELSE connected
                /\ IF connected' THEN Goto(t, "convert") /\ UNCHANGED missed
                                 ELSE Goto(t, "idle") /\ Skip
                /\ UNCHANGED <<sizeVars, writer, sinks, clients, localVars, descriptor, sending, last,
                               ever>>

\* The last frame is dropped before the next one is handed over.
DescribeDroppingLast(t) == /\ pc[t] \in DOMAIN After
                           /\ descriptor' = [descriptor EXCEPT ![pc[t]] = Description(t)[pc[t]]]
                           /\ last' = NoBuffer
                           /\ Goto(t, After[pc[t]])
                           /\ UNCHANGED <<sizeVars, writer, sinks, countVars, localVars, sending,
                                          ever>>

\* The stride is assigned with the first frame only.
DescribeStrideOnce(t) == /\ pc[t] \in DOMAIN After
                         /\ IF pc[t] = "line_stride" /\ descriptor.line_stride # 0
                              THEN UNCHANGED descriptor
                              ELSE descriptor' = [descriptor EXCEPT ![pc[t]] = Description(t)[pc[t]]]
                         /\ Goto(t, After[pc[t]])
                         /\ UNCHANGED <<sizeVars, writer, sinks, countVars, localVars, sending, last,
                                        ever>>
-----------------------------------------------------------------------------
(* The main thread. *)

\* OnAddTrack: the writer is opened for the first track, and becomes its sink.
SetVideoTrack(t) == /\ writer \in {"none", "open"}
                    /\ t \notin sinks
                    /\ writer' = "open"
                    /\ sinks' = sinks \cup {t}
                    /\ ever' = ever \cup {t}
                    /\ UNCHANGED <<sizeVars, countVars, pc, localVars, descriptor, sending, last>>

\* If NDI refuses to create the source, open throws a string: the process ends.  (A source
\* without a name is not opened: OnAddTrack asks isEnabled() first.)
OpenFails(t) == /\ writer = "none"
                /\ writer' = "aborted"
                /\ UNCHANGED <<sizeVars, sinks, countVars, pc, localVars, descriptor, sending,
                               last, ever>>

\* OnRemoveTrack: RemoveSink waits for the frame being delivered.
ResetVideoTrack(t) == /\ writer = "open"
                      /\ t \in sinks
                      /\ pc[t] = "idle"
                      /\ sinks' = sinks \ {t}
                      /\ UNCHANGED <<sizeVars, writer, countVars, pc, localVars, descriptor,
                                     sending, last, ever>>

\* ~NDIWriter, after the peer connection was closed and delivers nothing any more:
\* a null frame makes NDI give back the one it reads.
Flush == /\ writer = "open"
         /\ \A t \in Track : pc[t] = "idle"
         /\ writer' = "flushed"
         /\ sending' = NullFrame
         /\ UNCHANGED <<sizeVars, sinks, countVars, pc, localVars, descriptor, last, ever>>

\* The members are destroyed.
Destroy == /\ writer = "flushed"
           /\ writer' = "gone"
           /\ last' = NoBuffer
           /\ UNCHANGED <<sizeVars, sinks, countVars, pc, localVars, descriptor, sending, ever>>

(* A track: OnFrame. *)

\* _connected_attempts++ is not atomic: it is read here.
OnFrame(t) == /\ writer = "open"
              /\ t \in sinks
              /\ pc[t] = "idle"
              /\ seen' = [seen EXCEPT ![t] = attempts]
              /\ Goto(t, "count")
              /\ UNCHANGED <<sizeVars, writer, sinks, countVars, target, frame, descriptor, sending,
                             last, ever>>

\* The counter is written, and one frame out of CheckEvery looks for clients.
Count(t) == /\ pc[t] = "count"
            /\ attempts' = (seen[t] + 1) % CheckEvery
            /\ connected' = IF seen[t] = 0 THEN clients ELSE connected
            /\ IF connected' THEN Goto(t, "convert") /\ UNCHANGED missed
                             ELSE Goto(t, "idle") /\ Skip
            /\ UNCHANGED <<sizeVars, writer, sinks, clients, localVars, descriptor, sending, last,
                           ever>>

\* A frame without a buffer or with one libyuv cannot convert is given up, and what was
\* allocated for it freed.  What PasteFrom refuses ends the process.
Convert(t) ==
    /\ pc[t] = "convert"
    /\ \E s \in Size, rotation \in Rotation :
           LET g == Process(config, s, rotation)
           IN \/ /\ g.pasted
                 /\ \/ /\ Goto(t, "idle")
                       /\ UNCHANGED <<target, frame>>
                    \/ /\ \E b \in Buffer \ {f.at : f \in Alive} :
                              frame' = [frame EXCEPT ![t] = [at |-> b, size |-> Converted(g)]]
                       /\ target' = [target EXCEPT ![t] = g.target]
                       /\ Goto(t, "xres")
                 /\ UNCHANGED <<writer, refused>>
              \/ /\ ~g.pasted
                 /\ writer' = "aborted"
                 /\ refused' = <<g.target, s>>
                 /\ UNCHANGED <<pc, target, frame>>
    /\ UNCHANGED <<config, sinks, countVars, seen, descriptor, sending, last, ever>>

\* A field of _NDI_video_frame is assigned, one after the other.  (The last, the timecode,
\* is the same for all frames.)
Describe(t) == /\ pc[t] \in DOMAIN After
               /\ descriptor' = [descriptor EXCEPT ![pc[t]] = Description(t)[pc[t]]]
               /\ Goto(t, After[pc[t]])
               /\ UNCHANGED <<sizeVars, writer, sinks, countVars, localVars, sending, last, ever>>

\* NDIlib_send_send_video_async_v2: NDI gives back the frame before this one.
SendAsync(t) == /\ pc[t] = "send"
                /\ sending' = descriptor
                /\ missed' = 0
                /\ Goto(t, "keep")
                /\ UNCHANGED <<sizeVars, writer, sinks, clients, attempts, connected, localVars,
                               descriptor, last, ever>>

\* _lastVideoFrame = frame, and the return.
Keep(t) == /\ pc[t] = "keep"
           /\ last' = frame[t]
           /\ frame' = [frame EXCEPT ![t] = NoBuffer]
           /\ target' = [target EXCEPT ![t] = <<0, 0>>]
           /\ Goto(t, "idle")
           /\ UNCHANGED <<sizeVars, writer, sinks, countVars, seen, descriptor, sending, ever>>

(* NDI. *)

\* The first client connects, or the last one disconnects.
ClientsChange == /\ writer = "open"
                 /\ clients' = ~clients
                 /\ missed' = 0
                 /\ UNCHANGED <<sizeVars, writer, sinks, attempts, connected, pc, localVars,
                                descriptor, sending, last, ever>>

Gone == writer \in {"gone", "aborted"} /\ UNCHANGED vars

Step(t) == \/ OpenFails(t) \/ SetVideoTrack(t) \/ ResetVideoTrack(t)
           \/ OnFrame(t) \/ Count(t) \/ Convert(t) \/ Describe(t) \/ SendAsync(t) \/ Keep(t)

Next == \/ /\ writer # "aborted"
           /\ (\E t \in Track : Step(t)) \/ ClientsChange \/ Flush \/ Destroy
        \/ Gone

Spec == Init /\ [][Next]_vars
-----------------------------------------------------------------------------
\* The types of the variables; a track holds a buffer only while it sends it.
TypeOK == /\ config \in Configuration
          /\ writer \in {"none", "open", "flushed", "gone", "aborted"}
          /\ sinks \subseteq ever
          /\ clients \in BOOLEAN
          /\ attempts \in 0..(CheckEvery - 1)
          /\ connected \in BOOLEAN
          /\ pc \in [Track -> {"idle", "count", "convert", "send", "keep"} \cup DOMAIN After]
          /\ seen \in [Track -> 0..(CheckEvery - 1)]
          /\ target \in [Track -> Nat \X Nat]
          /\ frame \in [Track -> Frame \cup {NoBuffer}]
          /\ \A t \in Track : frame[t] # NoBuffer <=> pc[t] \in {"send", "keep"} \cup DOMAIN After
          /\ descriptor \in Descriptor
          /\ sending \in Descriptor
          /\ last \in Frame \cup {NoBuffer}
          /\ ever \subseteq Track
          /\ missed \in 0..CheckEvery
          /\ refused # Nothing => writer = "aborted"

\* "save current & clean last": the buffer NDI reads is kept alive until NDI has the
\* next one, whichever thread handed it over.
CurrentIsKept == sending.p_data # NoBuffer => sending.p_data \in Alive

\* With one video track the buffer NDI reads is never freed: not by the frame that
\* follows, not by a failed one, and not by the destructor.
KeptForOneTrack == Cardinality(ever) <= 1 => CurrentIsKept

\* What a run checks of the buffers.
WriterInv == TypeOK /\ KeptForOneTrack

\* The configuration gives all frames one size: their own and their rotation are not asked.
OneSize == config.mode # "vertical" /\ config.out[1] # 0 /\ config.out[2] # 0

\* What NDI is told fits the picture in the buffer: its width, its height and its rows.
Truthful(d) == d.p_data # NoBuffer => /\ <<d.xres, d.yres>> = d.p_data.size
                                      /\ d.line_stride = 2 * d.p_data.size[1]

\* "apply additional scaling": whatever the mode, the configured size and the rotation,
\* I420ToUYVY converts a picture of the size it is given.  With one video track, or where
\* the configuration gives all frames one size, NDI is told the size and the stride of the
\* very picture in the buffer it is told to read, although the fields are written one by
\* one.  And only a rotated picture that is half a step of four too wide, or an output
\* whose width is no multiple of four, ends the process in PasteFrom.
FrameFits == /\ \A t \in Track : frame[t] # NoBuffer => frame[t].size = target[t]
             /\ (Cardinality(ever) <= 1 \/ OneSize) => Truthful(sending)
             /\ refused # Nothing => LET size == refused[1]
                                        s == refused[2]
                                    IN size[1] % 4 # 0 \/ size[2] * s[2] >= (size[1] + 2) * s[1]

\* With one video track, the CheckEvery-th frame at the latest is meant for a client that
\* connected, wherever the counter was then.
ClientIsNoticed == Cardinality(ever) <= 1 => missed < CheckEvery
=============================================================================
