--------------------------- MODULE FFmpegDecoder ---------------------------
(***************************************************************************)
(* class FFmpegVideoDecoder.  Each Decode gives libavcodec one packet, and *)
(* takes one frame at most: a decoder that keeps frames back gives the     *)
(* picture of an earlier packet, which the code says it does not expect.   *)
(* Its RTC_DCHECK_EQ on that is taken as absent, as it is without checks.  *)
(* Calls come one at a time and in any order; each is a step.              *)
(*                                                                         *)
(* A packet is a number, which is its timestamp and its picture too.  Only *)
(* frames in I420 and NV12 are copied to the buffer that is delivered: in  *)
(* any other layout the picture is Blank.                                  *)
(***************************************************************************)
EXTENDS CodecFactories, SequencesExt, Integers

CONSTANTS NoDecoder,    \* the state of a decoder the factory did not create
          MaxPackets,   \* bound on the packets given to a decoder
          MaxKept       \* bound on the frames libavcodec keeps

ASSUME DecoderAssumption == MaxPackets \in Nat /\ MaxKept \in Nat

Layout == {"I420", "NV12", "other"}     \* of the frames libavcodec decodes
Blank == 0

VARIABLE decoder        \* the members of FFmpegVideoDecoder and its libavcodec context:
                        \*   hardware     as created by the factory
                        \*   layout       of the frames, once in system memory
                        \*   delays       TRUE if libavcodec keeps frames back
                        \*   context      av_context_: "none", "unopened" or "open"
                        \*   inside       the packets whose frame it keeps
                        \*   callback     TRUE once registered
                        \*   packets      history: the packets WebRTC has given
                        \*   first        history: the first one of this context
                        \*   delivered    history: the frames, each with its picture, its
                        \*                timestamp and the first packet of its context

NewDecoder(hardware, layout, delays) ==
    [hardware |-> hardware, layout |-> layout, delays |-> delays, context |-> "none",
     inside |-> <<>>, callback |-> FALSE, packets |-> 0, first |-> 1, delivered |-> <<>>]

Arrived == decoder.packets + 1
Picture(packet) == IF decoder.layout = "other" THEN Blank ELSE packet
ReleasedD(d) == [d EXCEPT !.context = "none", !.inside = <<>>]
-----------------------------------------------------------------------------
\* Faulty variant: what was open before is not released.

InitAgain == decoder' = [decoder EXCEPT !.context = "open", !.first = Arrived]
-----------------------------------------------------------------------------
InitDecode == decoder' = [ReleasedD(decoder) EXCEPT !.context = "open", !.first = Arrived]

\* Wrong settings change nothing; without a decoder, or if it does not open, everything is
\* released; without a device the context is kept as it is, not opened.
InitDecodeFails == \/ UNCHANGED decoder
                   \/ decoder' = ReleasedD(decoder)
                   \/ /\ decoder.hardware # "none"
                      /\ decoder' = [ReleasedD(decoder) EXCEPT !.context = "unopened"]

RegisterDecodeCompleteCallback == decoder' = [decoder EXCEPT !.callback = TRUE]

CanDecode == decoder.context = "open" /\ decoder.callback

\* Not initialized, an empty packet, or one that libavcodec does not take, as in a context
\* that is not open.
DecodeNothing == decoder' = [decoder EXCEPT !.packets = Arrived]

\* libavcodec has the packet, and keeps its frame for now.
DecodeKeeps == /\ CanDecode
               /\ decoder.delays
               /\ Len(decoder.inside) < MaxKept
               /\ decoder' = [decoder EXCEPT !.packets = Arrived,
                                             !.inside = Append(@, Arrived)]

\* One of its frames is damaged, or cannot be transferred to system memory.
DecodeLoses == /\ CanDecode
               /\ decoder' = [decoder EXCEPT !.packets = Arrived,
                                             !.inside = Tail(Append(@, Arrived))]

\* The oldest frame is delivered, with the timestamp of the packet that was just given.
Decode == /\ CanDecode
          /\ LET inside == Append(decoder.inside, Arrived)
             IN decoder' = [decoder EXCEPT
                    !.packets = Arrived,
                    !.inside = Tail(inside),
                    !.delivered = Append(@, [picture |-> Picture(Head(inside)),
                                             timestamp |-> Arrived, first |-> decoder.first])]

ReleaseDecoder == decoder' = ReleasedD(decoder)

DecoderCall == /\ decoder # NoDecoder
               /\ \/ InitDecode \/ InitDecodeFails \/ RegisterDecodeCompleteCallback
                  \/ ReleaseDecoder
                  \/ /\ decoder.packets < MaxPackets
                     /\ DecodeNothing \/ DecodeKeeps \/ DecodeLoses \/ Decode
-----------------------------------------------------------------------------
\* The types of the decoder's members; a context keeps frames only while it is open.
DecoderTypeOK ==
    decoder # NoDecoder =>
        /\ decoder.hardware \in Hardware
        /\ decoder.layout \in Layout
        /\ decoder.delays \in BOOLEAN
        /\ decoder.context \in {"none", "unopened", "open"}
        /\ decoder.inside # <<>> => decoder.context = "open"
        /\ Len(decoder.inside) <= MaxKept
        /\ decoder.callback \in BOOLEAN
        /\ decoder.packets \in 0..MaxPackets

\* "We don't expect reordering. Decoded frame tamestamp should match the input one":
\* through any failed calls and any contexts, a frame has the picture of the packet whose
\* timestamp it has, if libavcodec keeps none back and its layout is copied.  If it does,
\* the expectation is wrong, and nothing bounds how many packets earlier the picture is
\* from, as packets can be refused meanwhile; but it is never one of another context or of
\* a later packet, and no picture is delivered twice or before an earlier one.
DecodedIsInput ==
    decoder # NoDecoder /\ decoder.layout # "other" =>
        \A i \in DOMAIN decoder.delivered :
            LET frame == decoder.delivered[i]
            IN /\ frame.picture \in frame.first..frame.timestamp
               /\ ~decoder.delays => frame.picture = frame.timestamp
               /\ i > 1 => decoder.delivered[i - 1].picture < frame.picture

DecoderInv == DecoderTypeOK /\ DecodedIsInput
=============================================================================
