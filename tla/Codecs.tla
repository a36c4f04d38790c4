------------------------------- MODULE Codecs -------------------------------
(***************************************************************************)
(* A codec that one of the factories created for WebRTC, and the calls of  *)
(* WebRTC on it.  The builtin codecs are WebRTC's own.                     *)
(***************************************************************************)
EXTENDS FFmpegEncoder, FFmpegDecoder, MSDKEncoder

codecVars == <<encoder, decoder, msdk>>

CreatedEncoder(platform, hardware, codec) ==
    LET class == CreateVideoEncoder(platform, [Default EXCEPT !.hardware = hardware], codec)
    IN /\ decoder = NoDecoder
       /\ encoder \in IF class = "ffmpeg"
                      THEN {NewEncoder(platform, hardware, codec, s) : s \in Shape}
                      ELSE {NoCodec}
       /\ msdk \in IF class = "msdk" THEN {NewMSDK(codec, d) : d \in BOOLEAN} ELSE {NoMSDK}

CreatedDecoder(hardware, codec) ==
    LET created == CreateVideoDecoder([Default EXCEPT !.hardware = hardware], codec)
    IN /\ encoder = NoCodec /\ msdk = NoMSDK
       /\ decoder \in IF created.class = "ffmpeg"
                      THEN {NewDecoder(created.hardware, l, d) : l \in Layout, d \in BOOLEAN}
                      ELSE {NoDecoder}

CodecInit == \E platform \in Platforms, hardware \in Hardware, codec \in CodecType :
                 CreatedEncoder(platform, hardware, codec) \/ CreatedDecoder(hardware, codec)

CodecNext == \/ EncoderCall /\ UNCHANGED <<decoder, msdk>>
             \/ DecoderCall /\ UNCHANGED <<encoder, msdk>>
             \/ MSDKCall /\ UNCHANGED <<encoder, decoder>>

CodecSpec == CodecInit /\ [][CodecNext]_codecVars
=============================================================================
