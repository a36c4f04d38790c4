--------------------------- MODULE CodecFactories ---------------------------
(***************************************************************************)
(* CustomEncoderFactory and CustomDecoderFactory: the formats they tell    *)
(* WebRTC and the codec they create for each of them, as configured by     *)
(* "encoder" and "decoder" of createPeer.                                  *)
(*                                                                         *)
(* A configuration is a record of the hardware type, disable_h264_high     *)
(* (which only the encoder factory has) and software_override_, a set.  A  *)
(* value of the wrong type in the JSON is WrongType: reading it throws.    *)
(***************************************************************************)
EXTENDS FiniteSets

CONSTANT WrongType      \* a JSON value of another type than the one read

Platforms == {"linux", "mac", "windows"}    \* how the worker was built
Hardware == {"none", "vaapi", "mfx", "videotoolbox"}
CodecType == {"VP8", "VP9", "H264", "H265"}
Format == [codec : CodecType, high : BOOLEAN]

Default == [hardware |-> "none", high |-> TRUE, software |-> {}]

\* ParseHardwareType: anything it does not know is no hardware.
ParseHardwareType(name) == IF name \in Hardware THEN name ELSE "none"

\* setConfiguration throws at the first value of a wrong type, and if the configuration is
\* not an object before it changes anything.
Throws(json) == \/ json = WrongType
                \/ json.hardware = WrongType
                \/ json.high = WrongType
                \/ WrongType \in json.software

\* What it has changed by then: software_override_ is filled up to the wrong value, the
\* last one here.
Configured(old, json) ==
    IF json = WrongType \/ json.hardware = WrongType THEN old
    ELSE IF json.high = WrongType
         THEN [old EXCEPT !.hardware = ParseHardwareType(json.hardware)]
         ELSE [hardware |-> ParseHardwareType(json.hardware),
               high |-> json.high,
               software |-> json.software \ {WrongType}]

HasSoftwareOverride(config, codec) == codec \in config.software

Software(config, codec) == HasSoftwareOverride(config, codec) \/ config.hardware = "none"

\* GetSupportedFormats, as a set.
H264Formats(high) == {[codec |-> "H264", high |-> h] : h \in IF high THEN BOOLEAN ELSE {FALSE}}
Others == {[codec |-> c, high |-> FALSE] : c \in {"VP8", "VP9", "H265"}}
EncoderFormats(config) == Others \cup H264Formats(config.high)
DecoderFormats == Others \cup H264Formats(TRUE)

\* CreateVideoEncoder: the class of the encoder, or "null".
CreateVideoEncoder(platform, config, codec) ==
    IF Software(config, codec)
    THEN IF codec = "H265" THEN "null" ELSE "builtin"
    ELSE IF platform # "windows" THEN "ffmpeg"
         ELSE IF config.hardware # "mfx" THEN "null"
              ELSE IF codec \in {"VP8", "VP9"} THEN "builtin" ELSE "msdk"

\* CreateVideoDecoder: the class and the hardware of the decoder.
CreateVideoDecoder(config, codec) ==
    IF Software(config, codec)
    THEN [class |-> IF codec = "H265" THEN "ffmpeg" ELSE "builtin", hardware |-> "none"]
    ELSE [class |-> "ffmpeg", hardware |-> config.hardware]

\* findEncoderName of FFmpegVideoEncoder: TRUE if there is a name.
HasEncoderName(hardware, codec) ==
    \/ hardware = "vaapi" /\ codec \in {"H264", "H265", "VP8"}
    \/ hardware = "videotoolbox" /\ codec \in {"H264", "H265"}
=============================================================================
