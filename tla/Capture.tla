------------------------------ MODULE Capture ------------------------------
(***************************************************************************)
(* The way of a video frame from the NDI source to the encoder.            *)
(*   - NDIReader::run captures frames on the reader's thread.  Above 30    *)
(*     frames a second it feeds every other one, and tells half the rate.  *)
(*   - VideoDeviceModule passes the rate on to CustomEncoderFactory, and   *)
(*     the frame, unless AdaptFrame drops it, to WebRTC.                   *)
(*   - CustomEncoderFactory keeps the rate in frame_rate for the encoders  *)
(*     it creates, which WebRTC asks for on a thread of its own, once it   *)
(*     has a frame; the rate is not protected by a lock.                   *)
(* Then the end: the reader is stopped and destroyed with its reporter of  *)
(* captures without data, later the device module with its own.            *)
(*                                                                         *)
(* A rate is a fraction <<num, den>>.  Pixels, sizes and the samples of    *)
(* audio frames, which AudioDevice has, are left out.                      *)
(***************************************************************************)
EXTENDS ThrottledReporter

CONSTANTS FrameRate,                \* the rates of the frames NDI delivers
          NoDataReporter,           \* NDIReader::no_data_reporter
          SkipFrameReporter         \* VideoDeviceModule::_skip_frame_reporter

ASSUME CaptureAssumption ==
           /\ FrameRate \subseteq {n \in Nat : n > 0} \X {n \in Nat : n > 0}
           /\ Reporter = {NoDataReporter, SkipFrameReporter}
           /\ NoDataReporter # SkipFrameReporter

NoRate == <<0, 1>>      \* what frame_rate is at first
NoEncoder == <<0, 0>>

VARIABLES running,          \* NDIReader::running
          reader,           \* where the reader's thread is
          frame,            \* the rate of the frame it has captured
          numVideoFrames,   \* modulo 2
          frame_rate,       \* of CustomEncoderFactory
          delivered,        \* TRUE once WebRTC has a frame
          encoder,          \* the rate the encoder was created with
          lastHigh,         \* history: what became of the last frame above 30
          alike,            \* history: two such frames in a row were treated alike
          fast              \* history: a frame above 60 was fed
readerVars == <<reader, frame, numVideoFrames>>
encoderVars == <<frame_rate, delivered, encoder>>
history == <<lastHigh, alike, fast>>
captureVars == <<running, readerVars, encoderVars, history>>
vars == <<reporterVars, captureVars>>

Init == /\ ReporterInit
        /\ running = TRUE
        /\ reader = "test"
        /\ frame = NoRate
        /\ numVideoFrames = 0
        /\ frame_rate = NoRate
        /\ delivered = FALSE
        /\ encoder = NoEncoder
        /\ lastHigh = "none"
        /\ alike = FALSE
        /\ fast = FALSE

Above(rate, fps) == rate[1] > fps * rate[2]
Halve(rate) == <<rate[1] \div 2, rate[2]>>

\* The rate told: half of the frames are fed above 30.
Told(rate) == IF Above(rate, 30) THEN Halve(rate) ELSE rate

Goto(step) == reader' = step
-----------------------------------------------------------------------------
\* Faulty variants: only the frames that are fed are counted; the frame is fed before
\* the rate is told.

CountFed == /\ reader = "count"
            /\ numVideoFrames' = IF Above(frame, 30) /\ numVideoFrames = 1 THEN 1
                                 ELSE 1 - numVideoFrames
            /\ frame' = NoRate
            /\ Goto("test")
            /\ UNCHANGED <<reporterVars, running, encoderVars, history>>

UpdateNothing == /\ reader = "update"
                 /\ Goto("feed")
                 /\ UNCHANGED <<reporterVars, running, frame, numVideoFrames,
                                encoderVars, history>>
-----------------------------------------------------------------------------
(* The reader's thread: run. *)

TestRunning == /\ reader = "test"
               /\ Goto(IF running THEN "capture" ELSE "left")
               /\ UNCHANGED <<reporterVars, running, frame, numVideoFrames, encoderVars,
                              history>>

\* The capture times out after a second.
CaptureNothing == /\ reader = "capture"
                  /\ Report(NoDataReporter)
                  /\ Goto("test")
                  /\ UNCHANGED <<running, frame, numVideoFrames, encoderVars, history>>

\* Every other frame above 30 is only counted.
CaptureVideo ==
    /\ reader = "capture"
    /\ frame' \in FrameRate
    /\ LET high == Above(frame', 30)
           treated == IF numVideoFrames = 0 THEN "fed" ELSE "dropped"
       IN /\ Goto(IF high /\ numVideoFrames = 1 THEN "count" ELSE "update")
          /\ lastHigh' = IF high THEN treated ELSE "none"
          /\ alike' = (alike \/ (high /\ lastHigh = treated))
          /\ fast' = (fast \/ (Above(frame', 60) /\ numVideoFrames = 0))
    /\ UNCHANGED <<reporterVars, running, numVideoFrames, encoderVars>>

\* Audio goes to the audio device, metadata and a change of status nowhere;
\* extractAudioFrame ends the process if more channels are asked for than there are.
CaptureOther == /\ reader = "capture"
                /\ Goto("test") \/ Goto("exited")
                /\ UNCHANGED <<reporterVars, running, frame, numVideoFrames, encoderVars,
                               history>>

\* updateFrameRate of the device module and of the factory: a rate still above 30 is
\* written first and halved in a second assignment.
Update == /\ reader = "update"
          /\ frame_rate' = Told(frame)
          /\ Goto(IF Above(frame_rate', 30) THEN "halve" ELSE "feed")
          /\ UNCHANGED <<reporterVars, running, frame, numVideoFrames, delivered,
                         encoder, history>>

UpdateHalves == /\ reader = "halve"
                /\ frame_rate' = Halve(Told(frame))
                /\ Goto("feed")
                /\ UNCHANGED <<reporterVars, running, frame, numVideoFrames, delivered,
                               encoder, history>>

\* feedFrame: AdaptFrame drops the frame, the conversion fails, or WebRTC gets it.
FeedSkipped == /\ reader = "feed"
               /\ Report(SkipFrameReporter)
               /\ Goto("count")
               /\ UNCHANGED <<running, frame, numVideoFrames, encoderVars, history>>

FeedFrame == /\ reader = "feed"
             /\ delivered' \in {delivered, TRUE}
             /\ Goto("count")
             /\ UNCHANGED <<reporterVars, running, frame, numVideoFrames, frame_rate,
                            encoder, history>>

Count == /\ reader = "count"
         /\ numVideoFrames' = 1 - numVideoFrames
         /\ frame' = NoRate
         /\ Goto("test")
         /\ UNCHANGED <<reporterVars, running, encoderVars, history>>

(* WebRTC's encoder thread. *)

\* CreateVideoEncoder, when there is a frame to encode.
CreateEncoder == /\ delivered
                 /\ encoder' = frame_rate
                 /\ UNCHANGED <<reporterVars, running, readerVars, frame_rate, delivered,
                                history>>

(* The thread that ends the reader and, later, the worker. *)

Stop == /\ running
        /\ running' = FALSE
        /\ UNCHANGED <<reporterVars, readerVars, encoderVars, history>>

\* The members of the reader are destroyed after its thread was joined, the device
\* module after the reader.
DestroyReader == /\ ~running /\ reader = "left"
                 /\ DestructorClears(NoDataReporter)
                 /\ UNCHANGED captureVars

DestroyModule == /\ object[NoDataReporter] = "gone"
                 /\ DestructorClears(SkipFrameReporter)
                 /\ UNCHANGED captureVars

Ended == object[SkipFrameReporter] = "gone"

ReaderThread == \/ TestRunning
                \/ CaptureNothing \/ CaptureVideo \/ CaptureOther
                \/ Update \/ UpdateHalves
                \/ FeedSkipped \/ FeedFrame \/ Count

Step == \/ ReaderThread \/ CreateEncoder
        \/ Stop \/ DestroyReader \/ DestroyModule
        \/ \E r \in Reporter : (Run(r) \/ Destroying(r)) /\ UNCHANGED captureVars

Stopped == (Ended \/ reader = "exited") /\ UNCHANGED vars

Next == (reader # "exited" /\ Step) \/ Stopped

Spec == Init /\ [][Next]_vars

\* A capture takes a second at most, a wait its timeout; a destructor that was called
\* goes on.  Nobody is bound to call one.
Fairness == /\ WF_vars(reader # "exited" /\ ReaderThread)
            /\ WF_vars(reader # "exited" /\ (DestroyReader \/ DestroyModule))
            /\ \A r \in Reporter :
                   /\ WF_vars(reader # "exited" /\ Run(r) /\ UNCHANGED captureVars)
                   /\ WF_vars(reader # "exited" /\ Destroying(r) /\ UNCHANGED captureVars)

FairSpec == Spec /\ Fairness
-----------------------------------------------------------------------------
\* The types of the variables; a reporter is destroyed after its users.
TypeOK == /\ ReporterTypeOK
          /\ running \in BOOLEAN
          /\ reader \in {"test", "capture", "update", "halve", "feed", "count", "left",
                         "exited"}
          /\ frame \in FrameRate \cup {NoRate}
          /\ numVideoFrames \in 0..1
          /\ frame_rate \in Nat \X Nat
          /\ delivered \in BOOLEAN
          /\ encoder \in Nat \X Nat
          /\ lastHigh \in {"none", "fed", "dropped"}
          /\ alike \in BOOLEAN
          /\ fast \in BOOLEAN
          /\ \A r \in Reporter : object[r] # "alive" => reader \in {"left", "exited"}

\* What a run checks of the reporters: types, the end of their users, and the counts.
ReportersInv == TypeOK /\ CountsAreExact

\* "high fps - send half of frames": of two successive frames above 30 one is fed and
\* one is dropped, whatever the rates of the frames before them were.
AlternateFrames == ~alike

\* An encoder knows a rate when it is created, because the rate is told before the first
\* frame is fed, and never one above 30 unless the source exceeds 60.
EncoderKnowsRate == encoder # NoEncoder => encoder[1] > 0 /\ (~fast => ~Above(encoder, 30))

\* While a frame is fed, the rate told is not above the rate at which the frames are fed,
\* and up to 60 less than one below it, for the halving is one of integers; up to 120,
\* which the reader and the factory halve together, it is not above 30.
RateIsFed ==
    reader = "feed" =>
        LET fed == IF Above(frame, 30) THEN <<frame[1], 2 * frame[2]>> ELSE frame
            gap == fed[1] * frame_rate[2] - frame_rate[1] * fed[2]
        IN /\ gap >= 0
           /\ ~Above(frame, 60) => gap < fed[2] * frame_rate[2]
           /\ ~Above(frame, 120) => ~Above(frame_rate, 30)

\* Once the reader is told to stop, everything is destroyed: the thread leaves its loop,
\* and no destructor hangs on a notification that was lost.
EndsCompletely == ~running ~> (Ended \/ reader = "exited")
=============================================================================
