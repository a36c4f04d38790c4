--------------------------- MODULE FFmpegEncoder ---------------------------
(***************************************************************************)
(* class FFmpegVideoEncoder.  WebRTC makes one call at a time, in any      *)
(* order here: each call is a step.  libavcodec keeps the images it has    *)
(* not given back: a call gives it a frame and takes the packets that are  *)
(* ready, which a failed call leaves inside for the next one.              *)
(*                                                                         *)
(* A frame is a number, which is its timestamp too; all packets of an      *)
(* encoder have the same shape, a sequence of NAL units.  Profile, level,  *)
(* rates and the pixels are left out.                                      *)
(***************************************************************************)
EXTENDS NalUnits, CodecFactories

CONSTANTS Shape,        \* the shapes of packets
          NoCodec,      \* the state of a codec the factory did not create
          MaxFrames,    \* bound on the frames given to a codec
          MaxDelay      \* bound on the images libavcodec keeps

ASSUME EncoderAssumption == MaxFrames \in Nat /\ MaxDelay \in Nat

\* The packets of an encoder are what the standards of H.264 and H.265 say they are.
ASSUME ShapeAssumption == \A shape \in Shape : IsPacket(shape)

VARIABLE encoder        \* the members of FFmpegVideoEncoder and its libavcodec context:
                        \*   platform, hardware, codec   as created by the factory
                        \*   shape              the units of its packets
                        \*   context            av_context_: "none" or "open"
                        \*   inside             the frames in the context
                        \*   callback           TRUE once registered
                        \*   frames             history: the frames WebRTC has given
                        \*   first              history: the first one of this context
                        \*   images             history: the images given to the callback
                        \*   header             the fragments of the last one

NewEncoder(platform, hardware, codec, shape) ==
    [platform |-> platform, hardware |-> hardware, codec |-> codec, shape |-> shape,
     context |-> "none", inside |-> <<>>, callback |-> FALSE, frames |-> 0, first |-> 1,
     images |-> <<>>, header |-> <<>>]

HasUnits(codec) == codec \in {"H264", "H265"}

\* The fragments of a packet; that of VP8 is the whole packet.
Header(e) == IF HasUnits(e.codec) THEN Fragments(Joined(e.shape)) ELSE <<Joined(e.shape)>>

Released(e) == [e EXCEPT !.context = "none", !.inside = <<>>]
Given == encoder.frames + 1
-----------------------------------------------------------------------------
\* Faulty variant: the timestamp of the frame that was just given.

ImageNow(frame) == [frame |-> frame, timestamp |-> Given]
-----------------------------------------------------------------------------
\* An image has the timestamp libavcodec gives its packet.
Image(frame) == [frame |-> frame, timestamp |-> frame]

\* Wrong settings change nothing; else the context is made anew, if there is an encoder for
\* the hardware and the platform has it.
InitEncode ==
    \/ UNCHANGED encoder
    \/ /\ HasEncoderName(encoder.hardware, encoder.codec)
       /\ encoder.hardware = "vaapi" <=> encoder.platform = "linux"
       /\ encoder' = [Released(encoder) EXCEPT !.context = "open", !.first = Given]

\* No device, no name for the encoder, no such encoder, no frame context, or a codec that
\* does not open: what was open before is released.
InitEncodeFails == encoder' = Released(encoder)

RegisterEncodeCompleteCallback == encoder' = [encoder EXCEPT !.callback = TRUE]

CanEncode == encoder.callback /\ encoder.context = "open"

\* Not initialized; or an error before the frame is sent, to convert or to upload it.
EncodeNothing == encoder' = [encoder EXCEPT !.frames = Given]

\* The frame for the conversion, which only VAAPI needs, cannot be allocated.
EncodeReleases == /\ CanEncode
                  /\ encoder.hardware = "vaapi"
                  /\ encoder' = [Released(encoder) EXCEPT !.frames = Given]

\* The frame is sent, and n images come out before libavcodec wants another frame or fails.
\* An image without a start code, or one the callback refuses, ends the call as well.
Encode(n) ==
    /\ CanEncode
    /\ LET inside == Append(encoder.inside, Given)
           header == Header(encoder)
           whole == header # <<>>
       IN /\ n <= Len(inside)
          /\ Len(inside) - n <= MaxDelay
          /\ ~whole => n <= 1
          /\ encoder' = [encoder EXCEPT
                !.frames = Given,
                !.inside = SubSeq(inside, n + 1, Len(inside)),
                !.images = IF whole THEN @ \o [i \in 1..n |-> Image(inside[i])] ELSE @,
                !.header = IF whole /\ n > 0 THEN header ELSE @]

\* The rate goes into the private data of the context, which is one of VAAPI on Linux.
SetRates == encoder.context = "open" /\ UNCHANGED encoder

Release == encoder' = Released(encoder)

EncoderCall == /\ encoder # NoCodec
               /\ \/ InitEncode \/ InitEncodeFails \/ RegisterEncodeCompleteCallback
                  \/ SetRates \/ Release
                  \/ /\ encoder.frames < MaxFrames
                     /\ \/ EncodeNothing \/ EncodeReleases
                        \/ \E n \in 0..(MaxDelay + 1) : Encode(n)
-----------------------------------------------------------------------------
\* The types of the encoder's members.  A context is open, and holds frames, only where the
\* cast of SetRates is right: it is one of VAAPI on Linux.
EncoderTypeOK ==
    encoder # NoCodec =>
        /\ encoder.hardware \in Hardware \ {"none"} /\ encoder.codec \in CodecType
        /\ encoder.shape \in Shape
        /\ encoder.context \in {"none", "open"}
        /\ encoder.context = "open" /\ encoder.platform = "linux" => encoder.hardware = "vaapi"
        /\ encoder.inside # <<>> => encoder.context = "open"
        /\ Len(encoder.inside) <= MaxDelay
        /\ encoder.callback \in BOOLEAN
        /\ encoder.frames \in 0..MaxFrames

\* Whatever calls fail in between, the images come in the order of their frames, each once
\* and with its own timestamp, and none from a context that was released.
ImagesInOrder ==
    encoder # NoCodec =>
        /\ \A i \in DOMAIN encoder.images :
               /\ encoder.images[i].timestamp = encoder.images[i].frame
               /\ i > 1 => encoder.images[i - 1].frame < encoder.images[i].frame
        /\ \A i \in DOMAIN encoder.inside :
               /\ encoder.inside[i] >= encoder.first
               /\ encoder.images # <<>> => Last(encoder.images).frame < encoder.inside[i]

EncoderInv == EncoderTypeOK /\ ImagesInOrder

\* The fragments of an image are its NAL units; a last unit of one byte after a short start
\* code, and those beyond MaxNalus, are part of the one before.
FragmentsAreUnits ==
    encoder # NoCodec /\ encoder.header # <<>> =>
        encoder.header = IF HasUnits(encoder.codec) THEN Expected(encoder.shape)
                                                    ELSE <<Joined(encoder.shape)>>
=============================================================================
