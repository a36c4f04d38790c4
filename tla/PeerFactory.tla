---------------------------- MODULE PeerFactory ----------------------------
(***************************************************************************)
(* createPeer and what it leaves behind: PeerFactoryContext keeps the      *)
(* servers, the allocator of ports and the configuration of the codec      *)
(* factories for the whole life of the worker, PeerContext the peer and    *)
(* the configuration of its writers.  Any value of the JSON can have the   *)
(* wrong type, which throws at the place where it is read, and WebRTC can  *)
(* refuse a server: the client gets no reply and may try again.            *)
(*                                                                         *)
(* createPeer runs on the runner, and nothing else uses this state before  *)
(* there is a peer: one attempt is one step.                               *)
(***************************************************************************)
EXTENDS CodecFactories, SequencesExt

CONSTANTS Platform,         \* how the worker was built
          Configuration,    \* the configurations the client may send
          Absent,           \* what it leaves out
          NoPeer,           \* pc before it is assigned
          MaxAttempts       \* bound on its attempts

\* A server is "good", "refused" by WebRTC (as one without urls) or of the wrong type; those
\* after one of the wrong type are not read, and left out.  So are the names of "software"
\* that are no codec's: they override nothing.
ASSUME PeerFactoryAssumption ==
           /\ Platform \in Platforms
           /\ WrongType \notin {"good", "refused"} /\ WrongType \notin BOOLEAN
           /\ NoPeer \notin [servers : Seq({"good", "refused"}), adaptation : BOOLEAN,
                             ranged : BOOLEAN]
           /\ \A c \in Configuration :
                  /\ c.servers \in Seq({"good", "refused", WrongType})
                  /\ \A i \in DOMAIN c.servers :
                         c.servers[i] = WrongType => i = Len(c.servers)
                  /\ c.adaptation \in BOOLEAN \cup {WrongType}
                  /\ c.routes \in BOOLEAN \cup {WrongType}
                  /\ {c.ndi, c.preview} \subseteq {"name", Absent, WrongType}
                  /\ \A json \in {c.encoder, c.decoder} \ {Absent, WrongType} :
                         /\ json.high \in BOOLEAN \cup {WrongType}
                         /\ json.software \subseteq CodecType \cup {WrongType}
           /\ MaxAttempts \in Nat

VARIABLES servers,          \* config.servers
          adaptation,       \* config.cpu_adaptation
          encoderConfig,    \* of CustomEncoderFactory
          decoderConfig,    \* of CustomDecoderFactory
          portAllocator,    \* FALSE once it was moved to WebRTC
          pc,               \* what the peer connection was created with
          writers,          \* writerConfig and previewConfig: those that are set
          failures,         \* history: the configurations of the attempts that failed
          told              \* history: the configuration the client was told of
contextVars == <<servers, adaptation, encoderConfig, decoderConfig, portAllocator>>
vars == <<contextVars, pc, writers, failures, told>>

Init == /\ servers = <<>>
        /\ adaptation = TRUE
        /\ encoderConfig = Default
        /\ decoderConfig = Default
        /\ portAllocator = TRUE
        /\ pc = NoPeer
        /\ writers = {}
        /\ failures = <<>>
        /\ told = Absent

\* The places at which a configuration can throw, in the order in which it is read.
ReadsServers(c) == WrongType \notin ToSet(c.servers)
ReadsAdaptation(c) == ReadsServers(c) /\ (Platform # "mac" => c.adaptation # WrongType)
ReadsEncoder(c) == ReadsAdaptation(c) /\ (c.encoder # Absent => ~Throws(c.encoder))
ReadsDecoder(c) == ReadsEncoder(c) /\ (c.decoder # Absent => ~Throws(c.decoder))
ReadsRoutes(c) == ReadsDecoder(c) /\ (Platform = "linux" => c.routes # WrongType)
ReadsWriters(c) == ReadsRoutes(c) /\ WrongType \notin {c.ndi, c.preview}

\* The servers before the first one of the wrong type.
Pushed(c) == IF ReadsServers(c) THEN c.servers ELSE Front(c.servers)
Refused(list) == "refused" \in ToSet(list)
-----------------------------------------------------------------------------
\* Faulty variants: the servers of the last attempt only; the first configuration of the
\* encoder only; an allocator that is moved before the configuration was read.

ReplaceServers(c) == servers' = Pushed(c)

SetCodecsOnce(c) ==
    /\ encoderConfig' = IF ReadsAdaptation(c) /\ c.encoder # Absent /\ encoderConfig = Default
                        THEN Configured(encoderConfig, c.encoder) ELSE encoderConfig
    /\ decoderConfig' = IF ReadsEncoder(c) /\ c.decoder # Absent
                        THEN Configured(decoderConfig, c.decoder) ELSE decoderConfig

CreateNeedingRange(c) ==
    /\ portAllocator' = (portAllocator /\ ~ReadsAdaptation(c))
    /\ pc' = IF ReadsRoutes(c) /\ ~Refused(servers') /\ portAllocator
             THEN [servers |-> servers', adaptation |-> adaptation', ranged |-> TRUE]
             ELSE NoPeer
-----------------------------------------------------------------------------
(* PeerFactoryContext *)

SetServers(c) == servers' = servers \o Pushed(c)

SetCodecs(c) ==
    /\ encoderConfig' = IF ReadsAdaptation(c) /\ c.encoder # Absent
                        THEN Configured(encoderConfig, c.encoder) ELSE encoderConfig
    /\ decoderConfig' = IF ReadsEncoder(c) /\ c.decoder # Absent
                        THEN Configured(decoderConfig, c.decoder) ELSE decoderConfig

setConfiguration(c) == /\ SetServers(c)
                       /\ adaptation' = IF ~ReadsAdaptation(c) THEN adaptation
                                        ELSE Platform # "mac" /\ c.adaptation
                       /\ SetCodecs(c)

\* WebRTC takes the allocator, whether it creates a peer or not, and refuses all servers
\* if it refuses one; without an allocator it makes one of its own, for any port.
createPeerConnection(c) ==
    /\ portAllocator' = (portAllocator /\ ~ReadsRoutes(c))
    /\ pc' = IF ReadsRoutes(c) /\ ~Refused(servers')
             THEN [servers |-> servers', adaptation |-> adaptation', ranged |-> portAllocator]
             ELSE NoPeer

(* PeerContext *)

createPeer(c) ==
    /\ pc = NoPeer
    /\ Len(failures) < MaxAttempts
    /\ setConfiguration(c)
    /\ createPeerConnection(c)
    /\ writers' = IF pc' = NoPeer \/ c.ndi = WrongType THEN {}
                  ELSE {w \in {"ndi", "preview"} : c[w] = "name"}
    /\ LET succeeds == pc' # NoPeer /\ ReadsWriters(c)
       IN /\ told' = IF succeeds THEN c ELSE Absent
          /\ failures' = IF succeeds THEN failures ELSE Append(failures, c)

\* "peer already created"
RefusePeer == pc # NoPeer /\ UNCHANGED vars

\* The attempts are over.
Done == pc = NoPeer /\ Len(failures) = MaxAttempts /\ UNCHANGED vars

Next == (\E c \in Configuration : createPeer(c)) \/ RefusePeer \/ Done

Spec == Init /\ [][Next]_vars
-----------------------------------------------------------------------------
\* The types of the variables; the writers are configured only with a peer.
TypeOK == /\ servers \in Seq({"good", "refused"})
          /\ adaptation \in BOOLEAN
          /\ \A config \in {encoderConfig, decoderConfig} :
                 /\ config.hardware \in Hardware
                 /\ config.high \in BOOLEAN
                 /\ config.software \subseteq CodecType
          /\ portAllocator \in BOOLEAN
          /\ pc # NoPeer => pc.servers = servers
          /\ writers # {} => pc # NoPeer
          /\ told \in Configuration \cup {Absent}
          /\ ToSet(failures) \subseteq Configuration

\* A list is made of the servers of some configurations, one after the other: those of the
\* i-th end at the place at[i].
Joins(list, configurations) ==
    LET n == Len(configurations)
    IN \E at \in [0..n -> 0..Len(list)] :
           /\ at[0] = 0
           /\ at[n] = Len(list)
           /\ \A i \in 1..n : LET pushed == Pushed(configurations[i])
                             IN /\ at[i] = at[i - 1] + Len(pushed)
                                /\ \A j \in DOMAIN pushed : list[at[i - 1] + j] = pushed[j]

\* A client that is told of its peer has one with the adaptation and the writers it asked
\* for, with its servers last, and those of its failed attempts before them; the codecs
\* are configured as it asked, or, where it did not ask, by a failed attempt or not at all.
PeerAsConfigured ==
    told # Absent =>
        /\ pc # NoPeer
        /\ pc.adaptation = (Platform # "mac" /\ told.adaptation)
        /\ Joins(pc.servers, Append(failures, told))
        /\ writers = {w \in {"ndi", "preview"} : told[w] = "name"}
        /\ told.encoder # Absent => encoderConfig = Configured(Default, told.encoder)
        /\ told.decoder # Absent => decoderConfig = Configured(Default, told.decoder)
        /\ (\A i \in DOMAIN failures : failures[i].encoder = Absent) /\ told.encoder = Absent
               => encoderConfig = Default

\* "Minimum and maximum port for port range": the ports of every peer are in the range,
\* although WebRTC takes the allocator with the first attempt: after a refused one there is
\* no other peer.
PortsInRange == pc # NoPeer => pc.ranged

\* An attempt without an error fails only because of a server that WebRTC refuses, in it
\* or, since the servers are kept, in an earlier attempt.
RetryWorks == \A i \in DOMAIN failures :
                  ReadsWriters(failures[i]) => \E j \in 1..i : Refused(Pushed(failures[j]))

\* Every format a factory tells WebRTC has a codec, but for H265 without hardware on the
\* encoder's side, and for an encoder whose hardware the platform has not.
FormatsServed ==
    /\ \A f \in EncoderFormats(encoderConfig) :
           CreateVideoEncoder(Platform, encoderConfig, f.codec) = "null"
               => \/ f.codec = "H265" /\ Software(encoderConfig, "H265")
                  \/ Platform = "windows" /\ encoderConfig.hardware # "mfx"
    /\ \A f \in DecoderFormats :
           CreateVideoDecoder(decoderConfig, f.codec).class # "null"

\* What holds of every peer and of the codecs it can use: the three above.
PeerInv == TypeOK /\ PeerAsConfigured /\ FormatsServed
=============================================================================
