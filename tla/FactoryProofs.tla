--------------------------- MODULE FactoryProofs ---------------------------
(***************************************************************************)
(* What the factory of the peers and the codecs it creates promise, for    *)
(* any configurations and any number of attempts, on every platform, and   *)
(* for any number of calls on a codec, any failure of the libraries and    *)
(* any delay inside them.                                                  *)
(*                                                                         *)
(* RefusalInv and ConfiguredInv are about PeerFactory: a server WebRTC     *)
(* refused stays in the list, and each part of the factory is the one of   *)
(* the last attempt that reached it.  EncodingInv, DecodingInv and MSDKInv *)
(* are about Codecs: what libavcodec keeps inside is in the order it was   *)
(* given and after all that came out, and what the Intel encoder holds     *)
(* depends on the last call in order only.                                 *)
(*                                                                         *)
(* PacketIsCut is about NalUnits.  Its functions are recursive: each is a  *)
(* CHOOSE of a function that satisfies an equation, which is shown to      *)
(* exist, and to have the values claimed, by induction on positions.       *)
(***************************************************************************)
EXTENDS PeerFactory, Codecs, SequenceTheorems, WellFoundedInduction, TLAPS

USE PeerFactoryAssumption

Servers == Seq({"good", "refused"})

RefusalInv ==
    /\ servers \in Servers /\ failures \in Seq(Configuration)
    /\ adaptation \in BOOLEAN /\ portAllocator \in BOOLEAN
    /\ pc = NoPeer /\ ~portAllocator => Refused(servers)
    /\ pc = NoPeer /\ Refused(servers) => \E j \in DOMAIN failures : Refused(Pushed(failures[j]))
    /\ PortsInRange /\ RetryWorks
-----------------------------------------------------------------------------
\* The servers of a configuration up to one of the wrong type.
LEMMA PushedServers == ASSUME NEW c \in Configuration PROVE Pushed(c) \in Servers
<1>1. c.servers \in Seq({"good", "refused", WrongType})
  OBVIOUS
<1>2. CASE ReadsServers(c)
  <2>1. \A i \in 1..Len(c.servers) : c.servers[i] \in {"good", "refused"}
    BY <1>1, <1>2 DEF ReadsServers, ToSet
  <2>2. QED
    BY <1>1, <1>2, <2>1 DEF Pushed, Servers
<1>3. CASE ~ReadsServers(c)
  <2>1. PICK i \in DOMAIN c.servers : c.servers[i] = WrongType
    BY <1>1, <1>3 DEF ReadsServers, ToSet
  <2>2. i = Len(c.servers) /\ Len(c.servers) \in Nat \ {0}
    BY <1>1, <2>1
  <2>3. \A j \in 1..(Len(c.servers) - 1) : c.servers[j] \in {"good", "refused"}
    BY <1>1
  <2>4. Pushed(c) = SubSeq(c.servers, 1, Len(c.servers) - 1)
    BY <1>3 DEF Pushed, Front
  <2>5. QED
    BY <1>1, <2>2, <2>3, <2>4 DEF Servers
<1>4. QED
  BY <1>2, <1>3

\* A list has a server that is refused if one of its parts has.
LEMMA RefusedParts == ASSUME NEW s \in Servers, NEW t \in Servers
                      PROVE  Refused(s \o t) <=> Refused(s) \/ Refused(t)
<1>1. s \o t \in Servers /\ Len(s \o t) = Len(s) + Len(t) /\ Len(s) \in Nat /\ Len(t) \in Nat
  BY DEF Servers
<1>2. \A i \in 1..Len(s) : (s \o t)[i] = s[i]
  BY DEF Servers
<1>3. \A i \in 1..Len(t) : (s \o t)[Len(s) + i] = t[i]
  BY DEF Servers
<1>4. ASSUME NEW i \in 1..Len(s \o t), (s \o t)[i] = "refused"
      PROVE  Refused(s) \/ Refused(t)
  <2>1. CASE i <= Len(s)
    BY <1>1, <1>2, <1>4, <2>1 DEF Refused, ToSet, Servers
  <2>2. CASE i > Len(s)
    <3>1. i - Len(s) \in 1..Len(t) /\ i = Len(s) + (i - Len(s))
      BY <1>1, <2>2
    <3>2. t[i - Len(s)] = "refused"
      BY <1>3, <1>4, <3>1
    <3>3. QED
      BY <3>1, <3>2 DEF Refused, ToSet, Servers
  <2>3. QED
    BY <1>1, <2>1, <2>2
<1>5. Refused(s \o t) => Refused(s) \/ Refused(t)
  BY <1>1, <1>4 DEF Refused, ToSet, Servers
<1>6. Refused(s) => Refused(s \o t)
  BY <1>1, <1>2 DEF Refused, ToSet, Servers
<1>7. Refused(t) => Refused(s \o t)
  <2>1. SUFFICES ASSUME NEW i \in 1..Len(t), t[i] = "refused" PROVE Refused(s \o t)
    BY DEF Refused, ToSet, Servers
  <2>2. Len(s) + i \in 1..Len(s \o t) /\ (s \o t)[Len(s) + i] = "refused"
    BY <1>1, <1>3, <2>1
  <2>3. QED
    BY <1>1, <2>2 DEF Refused, ToSet, Servers
<1>8. QED
  BY <1>5, <1>6, <1>7

\* A worker that was just started has its allocator and no servers.
LEMMA InitRefusal == Init => RefusalInv
<1> SUFFICES ASSUME Init PROVE RefusalInv
  OBVIOUS
<1>1. ~Refused(servers) /\ servers \in Servers /\ failures \in Seq(Configuration)
  BY DEF Init, Refused, ToSet, Servers
<1>2. PortsInRange /\ RetryWorks
  BY DEF Init, PortsInRange, RetryWorks
<1>3. QED
  BY <1>1, <1>2 DEF Init, RefusalInv

\* An attempt fails without an error only if a server is refused, and is the last otherwise.
LEMMA AttemptKeeps == ASSUME RefusalInv, NEW c \in Configuration, createPeer(c) PROVE RefusalInv'
<1> USE DEF RefusalInv
<1>1. pc = NoPeer /\ servers' = servers \o Pushed(c) /\ Pushed(c) \in Servers
  BY PushedServers DEF createPeer, setConfiguration, SetServers
<1>2. /\ servers' \in Servers
      /\ Refused(servers') <=> Refused(servers) \/ Refused(Pushed(c))
  BY <1>1, RefusedParts DEF Servers
<1>3. adaptation' \in BOOLEAN
  <2>1. ReadsAdaptation(c) /\ Platform # "mac" => c.adaptation \in BOOLEAN
    BY DEF ReadsAdaptation
  <2>2. adaptation' = IF ~ReadsAdaptation(c) THEN adaptation ELSE Platform # "mac" /\ c.adaptation
    BY DEF createPeer, setConfiguration
  <2>3. QED
    BY <2>1, <2>2
<1>4. /\ portAllocator' = (portAllocator /\ ~ReadsRoutes(c))
      /\ pc' = IF ReadsRoutes(c) /\ ~Refused(servers')
               THEN [servers |-> servers', adaptation |-> adaptation', ranged |-> portAllocator]
               ELSE NoPeer
  BY DEF createPeer, createPeerConnection
<1>5. pc' = NoPeer <=> ~ReadsRoutes(c) \/ Refused(servers')
  BY <1>2, <1>3, <1>4 DEF Servers
<1>6. portAllocator' \in BOOLEAN /\ (pc' = NoPeer /\ ~portAllocator' => Refused(servers'))
  <2>1. portAllocator' \in BOOLEAN /\ (~portAllocator' => ~portAllocator \/ ReadsRoutes(c))
    BY <1>4
  <2>2. QED
    BY <1>1, <1>2, <1>5, <2>1
<1>7. PortsInRange'
  <2>1. SUFFICES ASSUME pc' # NoPeer PROVE pc'.ranged
    BY DEF PortsInRange
  <2>2. pc'.ranged = portAllocator /\ ~Refused(servers)
    BY <1>2, <1>4, <2>1
  <2>3. QED
    BY <1>1, <2>2
<1>8. failures' = failures \/ failures' = Append(failures, c)
  BY DEF createPeer
<1>9. failures' = failures => pc' # NoPeer
  BY DEF createPeer
<1>10. failures' \in Seq(Configuration)
  BY <1>8
<1>11. pc' = NoPeer /\ Refused(servers')
          => \E j \in DOMAIN failures' : Refused(Pushed(failures'[j]))
  <2>1. SUFFICES ASSUME pc' = NoPeer, Refused(servers')
                 PROVE  \E j \in DOMAIN failures' : Refused(Pushed(failures'[j]))
    OBVIOUS
  <2>2. failures' = Append(failures, c)
    BY <1>8, <1>9, <2>1
  <2>3. CASE Refused(servers)
    <3>1. PICK j \in DOMAIN failures : Refused(Pushed(failures[j]))
      BY <1>1, <2>3
    <3>2. j \in DOMAIN failures' /\ failures'[j] = failures[j]
      BY <2>2, <3>1
    <3>3. QED
      BY <3>1, <3>2
  <2>4. CASE Refused(Pushed(c))
    <3>1. Len(failures) + 1 \in DOMAIN failures' /\ failures'[Len(failures) + 1] = c
      BY <2>2
    <3>2. QED
      BY <2>4, <3>1
  <2>5. QED
    BY <1>2, <2>1, <2>3, <2>4
<1>12. RetryWorks'
  <2>1. CASE failures' = failures
    BY <2>1 DEF RetryWorks
  <2>2. CASE failures' = Append(failures, c)
    <3>1. SUFFICES ASSUME NEW i \in DOMAIN failures', ReadsWriters(failures'[i])
                   PROVE  \E j \in 1..i : Refused(Pushed(failures'[j]))
      BY DEF RetryWorks
    <3>2. CASE i \in DOMAIN failures
      <4>1. ReadsWriters(failures[i])
        BY <2>2, <3>1, <3>2
      <4>2. PICK j \in 1..i : Refused(Pushed(failures[j]))
        BY <3>2, <4>1 DEF RetryWorks
      <4>3. failures'[j] = failures[j]
        BY <2>2, <3>2, <4>2
      <4>4. QED
        BY <4>2, <4>3
    <3>3. CASE i \notin DOMAIN failures
      <4>1. i = Len(failures) + 1 /\ DOMAIN failures' = 1..i /\ failures'[i] = c
        BY <2>2, <3>1, <3>3
      <4>2. pc' = NoPeer
        <5>1. ReadsWriters(c)
          BY <3>1, <4>1
        <5>2. SUFFICES ASSUME pc' # NoPeer PROVE failures' = failures
          BY <2>2
        <5>3. QED
          BY <5>1, <5>2 DEF createPeer
      <4>3. Refused(servers')
        BY <1>5, <3>1, <4>1, <4>2 DEF ReadsWriters
      <4>4. QED
        BY <1>11, <4>1, <4>2, <4>3
    <3>4. QED
      BY <3>2, <3>3
  <2>3. QED
    BY <1>8, <2>1, <2>2
<1>13. QED
  BY <1>2, <1>3, <1>6, <1>7, <1>10, <1>11, <1>12
-----------------------------------------------------------------------------
\* The invariant is inductive.
THEOREM RefusalCorrect == Spec => []RefusalInv
<1>1. RefusalInv /\ [Next]_vars => RefusalInv'
  <2> SUFFICES ASSUME RefusalInv, [Next]_vars PROVE RefusalInv'
    OBVIOUS
  <2>1. CASE UNCHANGED vars
    BY <2>1 DEF vars, contextVars, RefusalInv, PortsInRange, RetryWorks
  <2>2. QED
    BY <2>1, AttemptKeeps DEF Next, RefusePeer, Done
<1>2. QED
  BY <1>1, InitRefusal, PTL DEF Spec

\* Whatever fails before, a peer uses the ports of the range.
THEOREM PortsAreInRange == Spec => []PortsInRange
<1>1. RefusalInv => PortsInRange
  BY DEF RefusalInv
<1>2. QED
  BY <1>1, RefusalCorrect, PTL

\* An attempt without an error fails only after a server was refused.
THEOREM RetriesWork == Spec => []RetryWorks
<1>1. RefusalInv => RetryWorks
  BY DEF RefusalInv
<1>2. QED
  BY <1>1, RefusalCorrect, PTL
-----------------------------------------------------------------------------
(* The peer and the codecs are as configured. *)

\* A configuration of a factory.
Config == [hardware : Hardware, high : BOOLEAN, software : SUBSET CodecType]

\* What the attempts so far have left behind: their servers, one list after the other, and
\* the configuration of the factories; and with a peer, what it was created with.
ConfiguredInv ==
    /\ servers \in Servers /\ failures \in Seq(Configuration)
    /\ adaptation \in BOOLEAN /\ portAllocator \in BOOLEAN
    /\ encoderConfig \in Config /\ decoderConfig \in Config
    /\ pc # NoPeer => pc.servers = servers
    /\ writers # {} => pc # NoPeer
    /\ told \in Configuration \cup {Absent}
    /\ pc = NoPeer => /\ told = Absent
                      /\ Joins(servers, failures)
                      /\ (\A i \in DOMAIN failures : failures[i].encoder = Absent)
                            => encoderConfig = Default
    /\ PeerAsConfigured

\* No servers are those of no configurations.
LEMMA JoinsNothing == Joins(<<>>, <<>>)
<1> DEFINE at == [i \in 0..0 |-> 0]
<1>1. at \in [0..Len(<<>>) -> 0..Len(<<>>)] /\ at[0] = 0 /\ Len(<<>>) = 0
  OBVIOUS
<1> HIDE DEF at
<1>2. QED
  BY <1>1 DEF Joins

\* The servers of one more configuration are pushed behind the others.
LEMMA JoinsOneMore ==
    ASSUME NEW list \in Servers, NEW cs \in Seq(Configuration), NEW c \in Configuration,
           Joins(list, cs)
    PROVE  Joins(list \o Pushed(c), Append(cs, c))
<1> DEFINE n == Len(cs)
           more == list \o Pushed(c)
           css == Append(cs, c)
<1>1. PICK at \in [0..n -> 0..Len(list)] :
          /\ at[0] = 0
          /\ at[n] = Len(list)
          /\ \A i \in 1..n : /\ at[i] = at[i - 1] + Len(Pushed(cs[i]))
                             /\ \A j \in DOMAIN Pushed(cs[i]) :
                                    list[at[i - 1] + j] = Pushed(cs[i])[j]
  BY DEF Joins
<1>2. /\ Pushed(c) \in Servers /\ more \in Servers /\ Len(more) = Len(list) + Len(Pushed(c))
      /\ Len(list) \in Nat /\ Len(Pushed(c)) \in Nat
      /\ DOMAIN Pushed(c) = 1..Len(Pushed(c))
      /\ \A k \in 1..Len(list) : more[k] = list[k]
      /\ \A k \in 1..Len(Pushed(c)) : more[Len(list) + k] = Pushed(c)[k]
  BY PushedServers DEF Servers
<1>3. /\ n \in Nat /\ Len(css) = n + 1 /\ css[n + 1] = c
      /\ \A i \in 1..n : css[i] = cs[i] /\ cs[i] \in Configuration
  OBVIOUS
<1> DEFINE further == [i \in 0..(n + 1) |-> IF i <= n THEN at[i] ELSE Len(more)]
<1> HIDE DEF n, more, css
<1>4. /\ further \in [0..(n + 1) -> 0..Len(more)] /\ further[n + 1] = Len(more)
      /\ \A i \in 0..n : further[i] = at[i]
  BY <1>1, <1>2, <1>3
<1> HIDE DEF further
<1>5. ASSUME NEW i \in 1..(n + 1)
      PROVE  /\ further[i] = further[i - 1] + Len(Pushed(css[i]))
             /\ \A j \in DOMAIN Pushed(css[i]) : more[further[i - 1] + j] = Pushed(css[i])[j]
  <2>1. CASE i = n + 1
    <3>1. further[i - 1] = Len(list) /\ css[i] = c /\ further[i] = Len(more)
      BY <1>1, <1>3, <1>4, <2>1
    <3>2. QED
      BY <1>2, <3>1
  <2>2. CASE i # n + 1
    <3>1. i \in 1..n /\ i \in 0..n /\ i - 1 \in 0..n
      BY <1>3, <2>2
    <3>2. /\ further[i] = at[i] /\ further[i - 1] = at[i - 1] /\ css[i] = cs[i]
          /\ at[i] \in 0..Len(list) /\ at[i - 1] \in 0..Len(list)
      BY <1>1, <1>3, <1>4, <3>1
    <3>3. Pushed(cs[i]) \in Servers /\ DOMAIN Pushed(cs[i]) = 1..Len(Pushed(cs[i]))
          /\ Len(Pushed(cs[i])) \in Nat
      <4>1. cs[i] \in Configuration
        BY <1>3, <3>1
      <4>2. Pushed(cs[i]) \in Servers
        BY <4>1, PushedServers
      <4>3. QED
        BY <4>2 DEF Servers
    <3>4. ASSUME NEW j \in DOMAIN Pushed(cs[i])
          PROVE  more[at[i - 1] + j] = Pushed(cs[i])[j]
      <4>1. at[i - 1] + j \in 1..Len(list)
        <5>1. at[i] = at[i - 1] + Len(Pushed(cs[i]))
          BY <1>1, <3>1
        <5>2. QED
          <6>1. j \in 1..Len(Pushed(cs[i]))
            BY <3>3, <3>4
          <6>2. QED
            BY <1>2, <3>2, <3>3, <5>1, <6>1
      <4>2. list[at[i - 1] + j] = Pushed(cs[i])[j]
        BY <1>1, <3>1, <3>4
      <4>3. QED
        BY <1>2, <4>1, <4>2
    <3>5. QED
      BY <1>1, <3>1, <3>2, <3>4
  <2>3. QED
    BY <2>1, <2>2
<1>6. further[0] = 0
  BY <1>1, <1>3, <1>4
<1>7. Joins(more, css)
  <2>1. further \in [0..Len(css) -> 0..Len(more)] /\ further[Len(css)] = Len(more)
    BY <1>3, <1>4
  <2>2. \A i \in 1..Len(css) :
            /\ further[i] = further[i - 1] + Len(Pushed(css[i]))
            /\ \A j \in DOMAIN Pushed(css[i]) : more[further[i - 1] + j] = Pushed(css[i])[j]
    BY <1>3, <1>5
  <2>3. QED
    BY <1>6, <2>1, <2>2 DEF Joins
<1>8. QED
  BY <1>7 DEF more, css

\* A factory is configured with hardware and codecs that are known, at whichever value the
\* configuration throws; one that does not throw replaces the whole configuration.
LEMMA ConfiguredType ==
    ASSUME NEW c \in Configuration, NEW json \in {c.encoder, c.decoder}, json # Absent,
           NEW old \in Config
    PROVE  /\ Configured(old, json) \in Config
           /\ ~Throws(json) => Configured(old, json) = Configured(Default, json)
<1>1. json # WrongType => /\ json.high \in BOOLEAN \cup {WrongType}
                          /\ json.software \subseteq CodecType \cup {WrongType}
  OBVIOUS
<1>2. ParseHardwareType(json.hardware) \in Hardware
  BY DEF ParseHardwareType, Hardware
<1>3. CASE json = WrongType \/ json.hardware = WrongType
  BY <1>3 DEF Configured, Throws
<1>4. CASE json # WrongType /\ json.hardware # WrongType /\ json.high = WrongType
  <2>1. Configured(old, json) = [old EXCEPT !.hardware = ParseHardwareType(json.hardware)]
    BY <1>4 DEF Configured
  <2>2. QED
    BY <1>2, <1>4, <2>1 DEF Config, Throws
<1>5. CASE json # WrongType /\ json.hardware # WrongType /\ json.high # WrongType
  <2>1. \A config : Configured(config, json) =
                        [hardware |-> ParseHardwareType(json.hardware), high |-> json.high,
                         software |-> json.software \ {WrongType}]
    BY <1>5 DEF Configured
  <2>2. json.high \in BOOLEAN /\ json.software \ {WrongType} \in SUBSET CodecType
    BY <1>1, <1>5
  <2>3. Configured(old, json) = Configured(Default, json)
    BY <2>1
  <2>4. [hardware |-> ParseHardwareType(json.hardware), high |-> json.high,
         software |-> json.software \ {WrongType}] \in Config
    BY <1>2, <2>2 DEF Config
  <2>5. QED
    BY <2>1, <2>3, <2>4
<1>6. QED
  BY <1>3, <1>4, <1>5

\* A worker that was just started has configured nothing.
LEMMA InitConfigured == Init => ConfiguredInv
<1> SUFFICES ASSUME Init PROVE ConfiguredInv
  OBVIOUS
<1>1. Default \in Config
  BY DEF Default, Config, Hardware
<1>2. servers \in Servers /\ failures \in Seq(Configuration) /\ Joins(servers, failures)
  BY JoinsNothing DEF Init, Servers
<1>3. QED
  BY <1>1, <1>2 DEF Init, ConfiguredInv, PeerAsConfigured

\* An attempt pushes its servers, configures the factories, and tells the client of its
\* peer only if it read the whole configuration.
LEMMA AttemptConfigures ==
    ASSUME ConfiguredInv, NEW c \in Configuration, createPeer(c) PROVE ConfiguredInv'
<1> USE DEF ConfiguredInv
<1>1. /\ pc = NoPeer /\ told = Absent /\ Joins(servers, failures)
      /\ servers' = servers \o Pushed(c) /\ Pushed(c) \in Servers
  BY PushedServers DEF createPeer, setConfiguration, SetServers
<1>2. servers' \in Servers /\ Joins(servers', Append(failures, c))
  BY <1>1, JoinsOneMore DEF Servers
<1>3. adaptation' = IF ~ReadsAdaptation(c) THEN adaptation ELSE Platform # "mac" /\ c.adaptation
  BY DEF createPeer, setConfiguration
<1>4. adaptation' \in BOOLEAN
  <2>1. ReadsAdaptation(c) /\ Platform # "mac" => c.adaptation \in BOOLEAN
    BY DEF ReadsAdaptation
  <2>2. QED
    BY <1>3, <2>1
<1>5. /\ portAllocator' = (portAllocator /\ ~ReadsRoutes(c))
      /\ pc' = IF ReadsRoutes(c) /\ ~Refused(servers')
               THEN [servers |-> servers', adaptation |-> adaptation', ranged |-> portAllocator]
               ELSE NoPeer
  BY DEF createPeer, createPeerConnection
<1>6. pc' # NoPeer => pc'.servers = servers' /\ pc'.adaptation = adaptation'
  BY <1>5
<1>7. /\ encoderConfig' = IF ReadsAdaptation(c) /\ c.encoder # Absent
                          THEN Configured(encoderConfig, c.encoder) ELSE encoderConfig
      /\ decoderConfig' = IF ReadsEncoder(c) /\ c.decoder # Absent
                          THEN Configured(decoderConfig, c.decoder) ELSE decoderConfig
  BY DEF createPeer, setConfiguration, SetCodecs
<1>8. encoderConfig' \in Config /\ decoderConfig' \in Config
  BY <1>7, ConfiguredType
<1>9. writers' = IF pc' = NoPeer \/ c.ndi = WrongType THEN {}
                 ELSE {w \in {"ndi", "preview"} : c[w] = "name"}
  BY DEF createPeer
<1>10. CASE pc' # NoPeer /\ ReadsWriters(c)
  <2>1. told' = c /\ failures' = failures
    BY <1>10 DEF createPeer
  <2>2. /\ ReadsAdaptation(c) /\ ReadsEncoder(c) /\ ReadsDecoder(c) /\ c.ndi # WrongType
        /\ c.encoder # Absent => ~Throws(c.encoder)
        /\ c.decoder # Absent => ~Throws(c.decoder)
    BY <1>10 DEF ReadsWriters, ReadsRoutes, ReadsDecoder, ReadsEncoder
  <2>3. pc'.adaptation = (Platform # "mac" /\ c.adaptation)
    BY <1>3, <1>6, <1>10, <2>2
  <2>4. c.encoder # Absent => encoderConfig' = Configured(Default, c.encoder)
    BY <1>7, <2>2, ConfiguredType
  <2>5. c.decoder # Absent => decoderConfig' = Configured(Default, c.decoder)
    BY <1>7, <2>2, ConfiguredType
  <2>6. (\A i \in DOMAIN failures : failures[i].encoder = Absent) /\ c.encoder = Absent
            => encoderConfig' = Default
    BY <1>1, <1>7
  <2>7. writers' = {w \in {"ndi", "preview"} : c[w] = "name"}
    BY <1>9, <1>10, <2>2
  <2>8. PeerAsConfigured'
    BY <1>2, <1>6, <1>10, <2>1, <2>3, <2>4, <2>5, <2>6, <2>7 DEF PeerAsConfigured
  <2>9. QED
    BY <1>2, <1>4, <1>5, <1>6, <1>8, <1>10, <2>1, <2>8
<1>11. CASE ~(pc' # NoPeer /\ ReadsWriters(c))
  <2>1. told' = Absent /\ failures' = Append(failures, c)
    BY <1>11 DEF createPeer
  <2>2. failures' \in Seq(Configuration)
    BY <2>1
  <2>3. (\A i \in DOMAIN failures' : failures'[i].encoder = Absent) => encoderConfig' = Default
    <3>1. SUFFICES ASSUME \A i \in DOMAIN failures' : failures'[i].encoder = Absent
                   PROVE  encoderConfig' = Default
      OBVIOUS
    <3>2. Len(failures) + 1 \in DOMAIN failures' /\ failures'[Len(failures) + 1] = c
      BY <2>1
    <3>3. \A i \in DOMAIN failures : i \in DOMAIN failures' /\ failures'[i] = failures[i]
      BY <2>1
    <3>4. c.encoder = Absent /\ encoderConfig = Default
      BY <1>1, <3>1, <3>2, <3>3
    <3>5. QED
      BY <1>7, <3>4
  <2>4. PeerAsConfigured'
    BY <2>1 DEF PeerAsConfigured
  <2>5. portAllocator' \in BOOLEAN
    BY <1>5
  <2>6. writers' # {} => pc' # NoPeer
    BY <1>9
  <2>7. QED
    BY <1>2, <1>4, <1>6, <1>8, <2>1, <2>2, <2>3, <2>4, <2>5, <2>6
<1>12. QED
  BY <1>10, <1>11

\* The invariant is inductive: after a peer was created there is no other attempt.
THEOREM ConfiguredCorrect == Spec => []ConfiguredInv
<1>1. ConfiguredInv /\ [Next]_vars => ConfiguredInv'
  <2> SUFFICES ASSUME ConfiguredInv, [Next]_vars PROVE ConfiguredInv'
    OBVIOUS
  <2>1. CASE UNCHANGED vars
    BY <2>1 DEF vars, contextVars, ConfiguredInv, PeerAsConfigured
  <2>2. QED
    BY <2>1, AttemptConfigures DEF Next, RefusePeer, Done
<1>2. QED
  BY <1>1, InitConfigured, PTL DEF Spec

\* A factory configured with known hardware has a codec for each of its formats, with the
\* exceptions FormatsServed names.
LEMMA FormatsAreServed == ASSUME encoderConfig \in Config, decoderConfig \in Config
                          PROVE  FormatsServed
<1>1. ASSUME NEW f \in EncoderFormats(encoderConfig),
             CreateVideoEncoder(Platform, encoderConfig, f.codec) = "null"
      PROVE  \/ f.codec = "H265" /\ Software(encoderConfig, "H265")
             \/ Platform = "windows" /\ encoderConfig.hardware # "mfx"
  <2>1. CASE Software(encoderConfig, f.codec)
    BY <1>1, <2>1 DEF CreateVideoEncoder
  <2>2. CASE ~Software(encoderConfig, f.codec)
    BY <1>1, <2>2 DEF CreateVideoEncoder
  <2>3. QED
    BY <2>1, <2>2
<1>2. ASSUME NEW f \in DecoderFormats
      PROVE  CreateVideoDecoder(decoderConfig, f.codec).class # "null"
  BY DEF CreateVideoDecoder
<1>3. QED
  BY <1>1, <1>2 DEF FormatsServed

\* A peer the client is told of is as it asked, after any failed attempts, and every format
\* its factories tell WebRTC has a codec, with the exceptions FormatsServed names.
THEOREM PeerCorrect == Spec => []PeerInv
<1>1. ConfiguredInv => PeerInv
  <2> SUFFICES ASSUME ConfiguredInv PROVE PeerInv
    OBVIOUS
  <2>1. ToSet(failures) \subseteq Configuration
    BY DEF ConfiguredInv, ToSet
  <2>2. \A config \in {encoderConfig, decoderConfig} :
            /\ config.hardware \in Hardware
            /\ config.high \in BOOLEAN
            /\ config.software \subseteq CodecType
    BY DEF ConfiguredInv, Config
  <2>3. TypeOK
    BY <2>1, <2>2 DEF ConfiguredInv, Servers, TypeOK
  <2>4. QED
    BY <2>3, FormatsAreServed DEF ConfiguredInv, PeerInv
<1>2. QED
  BY <1>1, ConfiguredCorrect, PTL
-----------------------------------------------------------------------------
HIDE PeerFactoryAssumption

(* What libavcodec keeps inside: numbers of frames, or of packets, in their order. *)

\* The numbers inside were given to one context, whose first is first, one after the other.
Ordered(inside, first, given) ==
    /\ first <= given + 1
    /\ \A i \in 1..Len(inside) : first <= inside[i] /\ inside[i] <= given
    /\ \A i, j \in 1..Len(inside) : i < j => inside[i] < inside[j]

\* A number is below all those inside.
Before(number, inside) == \A i \in 1..Len(inside) : number < inside[i]

\* One more is given: it is the greatest.
LEMMA GiveOne ==
    ASSUME NEW inside \in Seq(Nat), NEW first \in Nat, NEW given \in Nat,
           Ordered(inside, first, given)
    PROVE  LET all == Append(inside, given + 1)
           IN /\ all \in Seq(Nat) /\ Len(all) = Len(inside) + 1
              /\ Ordered(all, first, given + 1)
              /\ \A number \in Nat : number <= given /\ Before(number, inside) => Before(number, all)
<1> DEFINE all == Append(inside, given + 1)
<1>1. /\ all \in Seq(Nat) /\ Len(all) = Len(inside) + 1 /\ Len(inside) \in Nat
      /\ all[Len(inside) + 1] = given + 1
      /\ \A i \in 1..Len(inside) : all[i] = inside[i] /\ inside[i] \in Nat
  OBVIOUS
<1> HIDE DEF all
<1>2. ASSUME NEW i \in 1..Len(all)
      PROVE  /\ first <= all[i] /\ all[i] <= given + 1
             /\ i \in 1..Len(inside) \/ (i = Len(inside) + 1 /\ all[i] = given + 1)
  <2>1. CASE i \in 1..Len(inside)
    <3>1. all[i] = inside[i] /\ inside[i] \in Nat /\ first <= inside[i] /\ inside[i] <= given
      BY <1>1, <2>1 DEF Ordered
    <3>2. all[i] <= given + 1
      BY <3>1
    <3>3. QED
      BY <2>1, <3>1, <3>2
  <2>2. CASE i \notin 1..Len(inside)
    <3>1. i = Len(inside) + 1
      BY <1>1, <2>2
    <3>2. QED
      BY <1>1, <3>1 DEF Ordered
  <2>3. QED
    BY <2>1, <2>2
<1>3. ASSUME NEW i \in 1..Len(all), NEW j \in 1..Len(all), i < j PROVE all[i] < all[j]
  <2>1. i \in 1..Len(inside) /\ all[i] = inside[i] /\ inside[i] <= given /\ inside[i] \in Nat
    BY <1>1, <1>3 DEF Ordered
  <2>2. CASE j = Len(inside) + 1
    BY <1>1, <2>1, <2>2
  <2>3. CASE j # Len(inside) + 1
    <3>1. j \in 1..Len(inside) /\ all[j] = inside[j]
      BY <1>1, <2>3
    <3>2. QED
      BY <1>3, <2>1, <3>1 DEF Ordered
  <2>4. QED
    BY <2>2, <2>3
<1>4. first <= given + 2
  BY DEF Ordered
<1>5. Ordered(all, first, given + 1)
  BY <1>2, <1>3, <1>4 DEF Ordered
<1>6. ASSUME NEW number \in Nat, number <= given, Before(number, inside) PROVE Before(number, all)
  <2>1. ASSUME NEW i \in 1..Len(all) PROVE number < all[i]
    <3>1. CASE i \in 1..Len(inside)
      BY <1>1, <1>6, <3>1 DEF Before
    <3>2. CASE i \notin 1..Len(inside)
      BY <1>2, <1>6, <3>2
    <3>3. QED
      BY <3>1, <3>2
  <2>2. QED
    BY <2>1 DEF Before
<1>7. QED
  BY <1>1, <1>5, <1>6 DEF all

\* The first n are taken out: the others are still in order, and those taken before them.
LEMMA TakeSome ==
    ASSUME NEW all \in Seq(Nat), NEW first \in Nat, NEW given \in Nat, Ordered(all, first, given),
           NEW n \in Nat, n <= Len(all)
    PROVE  LET rest == SubSeq(all, n + 1, Len(all))
           IN /\ rest \in Seq(Nat) /\ Len(rest) = Len(all) - n
              /\ Ordered(rest, first, given)
              /\ \A number \in Nat : Before(number, all) => Before(number, rest)
              /\ \A k \in 1..n : Before(all[k], rest)
<1> DEFINE rest == SubSeq(all, n + 1, Len(all))
<1>1. /\ rest \in Seq(Nat) /\ Len(rest) = Len(all) - n /\ Len(all) \in Nat
      /\ \A i \in 1..Len(rest) : rest[i] = all[n + i] /\ n + i \in 1..Len(all)
      /\ \A i \in 1..Len(all) : all[i] \in Nat
  OBVIOUS
<1> HIDE DEF rest
<1>2. \A i \in 1..Len(rest) : first <= rest[i] /\ rest[i] <= given
  BY <1>1 DEF Ordered
<1>3. ASSUME NEW i \in 1..Len(rest), NEW j \in 1..Len(rest), i < j PROVE rest[i] < rest[j]
  <2>1. n + i \in 1..Len(all) /\ n + j \in 1..Len(all) /\ n + i < n + j
    BY <1>1, <1>3
  <2>2. QED
    BY <1>1, <2>1 DEF Ordered
<1>4. Ordered(rest, first, given)
  BY <1>2, <1>3 DEF Ordered
<1>5. ASSUME NEW number \in Nat, Before(number, all) PROVE Before(number, rest)
  BY <1>1, <1>5 DEF Before
<1>6. ASSUME NEW k \in 1..n, NEW i \in 1..Len(rest) PROVE all[k] < rest[i]
  <2>1. k \in 1..Len(all) /\ n + i \in 1..Len(all) /\ k < n + i
    BY <1>1
  <2>2. QED
    BY <1>1, <2>1 DEF Ordered
<1>7. QED
  BY <1>1, <1>4, <1>5, <1>6 DEF rest, Before
-----------------------------------------------------------------------------
(* FFmpegVideoEncoder *)

ImageRecord == [frame : Nat, timestamp : Nat]

\* The fields of an encoder; its header is bytes, of which nothing is said here.
IsEncoder(e) ==
    e \in [platform : Platforms, hardware : Hardware \ {"none"}, codec : CodecType,
           shape : Shape, context : {"none", "open"}, inside : Seq(Nat), callback : BOOLEAN,
           frames : Nat, first : Nat, images : Seq(ImageRecord), header : {e.header}]

\* Images with the timestamps of their frames, delivered in order and before those inside.
Delivered(images, inside, given) ==
    \A k \in 1..Len(images) :
        /\ images[k].timestamp = images[k].frame
        /\ images[k].frame <= given
        /\ Before(images[k].frame, inside)
        /\ \A l \in 1..Len(images) : l < k => images[l].frame < images[k].frame

EncoderOrder(e) == /\ Ordered(e.inside, e.first, e.frames)
                   /\ Delivered(e.images, e.inside, e.frames)

EncodingInv == encoder # NoCodec => IsEncoder(encoder) /\ EncoderTypeOK /\ EncoderOrder(encoder)

\* A context that is released holds nothing and gives nothing more.
LEMMA ReleasedEncoder ==
    ASSUME NEW e, IsEncoder(e)
    PROVE  LET r == Released(e)
           IN /\ IsEncoder(r) /\ r.context = "none" /\ r.inside = <<>>
              /\ r.frames = e.frames /\ r.first = e.first /\ r.images = e.images
              /\ r.platform = e.platform /\ r.hardware = e.hardware /\ r.callback = e.callback
<1>1. LET r == Released(e)
      IN /\ r.context = "none" /\ r.inside = <<>> /\ r.header = e.header
         /\ r.frames = e.frames /\ r.first = e.first /\ r.images = e.images
         /\ r.platform = e.platform /\ r.hardware = e.hardware /\ r.callback = e.callback
  BY DEF IsEncoder, Released
<1>2. <<>> \in Seq(Nat)
  OBVIOUS
<1>3. IsEncoder(Released(e))
  BY <1>1, <1>2 DEF IsEncoder, Released
<1>4. QED
  BY <1>1, <1>3

\* The images of the first n frames are delivered after the others.
LEMMA DeliverSome ==
    ASSUME NEW all \in Seq(Nat), NEW first \in Nat, NEW given \in Nat, Ordered(all, first, given),
           NEW n \in Nat, n <= Len(all),
           NEW images \in Seq(ImageRecord), Delivered(images, all, given)
    PROVE  LET more == images \o [i \in 1..n |-> Image(all[i])]
           IN /\ more \in Seq(ImageRecord)
              /\ Delivered(more, SubSeq(all, n + 1, Len(all)), given)
<1> DEFINE rest == SubSeq(all, n + 1, Len(all))
           out == [i \in 1..n |-> Image(all[i])]
           more == images \o out
           m == Len(images)
<1>1. /\ Len(all) \in Nat /\ \A i \in 1..n : i \in 1..Len(all) /\ all[i] \in Nat
      /\ out \in Seq(ImageRecord) /\ Len(out) = n
      /\ \A i \in 1..n : out[i].frame = all[i] /\ out[i].timestamp = all[i]
  BY DEF Image, ImageRecord
<1>2. /\ \A number \in Nat : Before(number, all) => Before(number, rest)
      /\ \A k \in 1..n : Before(all[k], rest)
  BY TakeSome
<1> HIDE DEF out, rest
<1>3. /\ m \in Nat /\ more \in Seq(ImageRecord) /\ Len(more) = m + n
      /\ \A k \in 1..m : more[k] = images[k] /\ images[k].frame \in Nat
      /\ \A k \in 1..n : more[m + k] = out[k]
  <2>1. more \in Seq(ImageRecord) /\ Len(more) = m + n /\ m \in Nat
    BY <1>1, ConcatProperties
  <2>2. \A k \in 1..m : more[k] = images[k]
    BY <1>1, ConcatProperties
  <2>3. \A k \in 1..m : images[k].frame \in Nat
    <3>1. \A k \in 1..m : images[k] \in ImageRecord
      BY ElementOfSeq
    <3>2. QED
      BY <3>1 DEF ImageRecord
  <2>4. \A k \in 1..n : more[m + k] = out[k]
    BY <1>1, ConcatProperties
  <2>5. QED
    BY <2>1, <2>2, <2>3, <2>4
<1> HIDE DEF m, more
<1>4. ASSUME NEW k \in 1..m
      PROVE  /\ more[k].timestamp = more[k].frame
             /\ more[k].frame <= given
             /\ Before(more[k].frame, rest)
             /\ \A l \in 1..(m + n) : l < k => more[l].frame < more[k].frame
  <2>1. /\ more[k] = images[k] /\ images[k].timestamp = images[k].frame
        /\ images[k].frame <= given /\ Before(images[k].frame, all) /\ images[k].frame \in Nat
    BY <1>3 DEF Delivered, m
  <2>2. ASSUME NEW l \in 1..(m + n), l < k PROVE more[l].frame < more[k].frame
    <3>1. l \in 1..m /\ more[l] = images[l]
      BY <1>3, <2>2
    <3>2. QED
      BY <2>1, <2>2, <3>1 DEF Delivered, m
  <2>3. QED
    BY <1>2, <2>1, <2>2
<1>5. ASSUME NEW k \in 1..n
      PROVE  /\ more[m + k].timestamp = more[m + k].frame
             /\ more[m + k].frame <= given
             /\ Before(more[m + k].frame, rest)
             /\ \A l \in 1..(m + n) : l < m + k => more[l].frame < more[m + k].frame
  <2>1. more[m + k].frame = all[k] /\ more[m + k].timestamp = all[k] /\ k \in 1..Len(all)
    BY <1>1, <1>3
  <2>2. all[k] <= given
    BY <2>1 DEF Ordered
  <2>3. ASSUME NEW l \in 1..(m + n), l < m + k PROVE more[l].frame < all[k]
    <3>1. CASE l \in 1..m
      <4>1. more[l].frame = images[l].frame /\ Before(images[l].frame, all)
        BY <1>3, <3>1 DEF Delivered, m
      <4>2. QED
        BY <2>1, <4>1 DEF Before
    <3>2. CASE l \notin 1..m
      <4>1. l - m \in 1..n /\ m + (l - m) = l /\ l - m < k
        BY <1>3, <2>3, <3>2
      <4>2. more[l].frame = all[l - m] /\ l - m \in 1..Len(all)
        BY <1>1, <1>3, <4>1
      <4>3. QED
        BY <2>1, <4>1, <4>2 DEF Ordered
    <3>3. QED
      BY <3>1, <3>2
  <2>4. QED
    BY <1>2, <2>1, <2>2, <2>3
<1>6. \A k \in 1..(m + n) : k \in 1..m \/ (k - m \in 1..n /\ m + (k - m) = k)
  BY <1>3
<1>7. Delivered(more, rest, given)
  BY <1>3, <1>4, <1>5, <1>6 DEF Delivered
<1>8. QED
  BY <1>3, <1>7 DEF rest, out, more

\* Without frames inside, images stay in order whatever more is given.
LEMMA NothingInside ==
    ASSUME NEW e, IsEncoder(e), EncoderOrder(e),
           NEW f, IsEncoder(f), f.inside = <<>>, f.images = e.images,
           f.frames >= e.frames, f.first <= f.frames + 1
    PROVE  EncoderOrder(f)
<1>1. Ordered(f.inside, f.first, f.frames)
  BY DEF Ordered
<1>2. ASSUME NEW k \in 1..Len(e.images)
      PROVE  e.images[k].frame <= f.frames /\ Before(e.images[k].frame, f.inside)
  <2>1. e.images[k] \in ImageRecord /\ e.frames \in Nat /\ f.frames \in Nat
    BY ElementOfSeq DEF IsEncoder
  <2>2. e.images[k].frame <= e.frames /\ e.images[k].frame \in Nat
    BY <2>1 DEF EncoderOrder, Delivered, ImageRecord
  <2>3. QED
    BY <2>1, <2>2 DEF Before
<1>3. Delivered(f.images, f.inside, f.frames)
  BY <1>2 DEF EncoderOrder, Delivered
<1>4. QED
  BY <1>1, <1>3 DEF EncoderOrder

\* A call that encodes: the images are those of the first frames inside.
LEMMA EncodeStep ==
    ASSUME encoder # NoCodec, EncodingInv, encoder.frames < MaxFrames,
           NEW n \in 0..(MaxDelay + 1), Encode(n)
    PROVE  EncodingInv'
<1> DEFINE all == Append(encoder.inside, Given)
           whole == Header(encoder) # <<>>
           out == [i \in 1..n |-> Image(all[i])]
<1>1. /\ IsEncoder(encoder) /\ EncoderOrder(encoder) /\ EncoderTypeOK
      /\ n \in Nat /\ n <= Len(all) /\ Len(all) - n <= MaxDelay
      /\ encoder.context = "open"
      /\ encoder' = [encoder EXCEPT
                !.frames = Given,
                !.inside = SubSeq(all, n + 1, Len(all)),
                !.images = IF whole THEN encoder.images \o out ELSE encoder.images,
                !.header = IF whole /\ n > 0 THEN Header(encoder) ELSE encoder.header]
  BY EncoderAssumption DEF EncodingInv, Encode, CanEncode
<1>2. /\ encoder'.frames = Given /\ encoder'.first = encoder.first
      /\ encoder'.inside = SubSeq(all, n + 1, Len(all))
      /\ encoder'.images = IF whole THEN encoder.images \o out ELSE encoder.images
      /\ encoder'.context = "open" /\ encoder'.hardware = encoder.hardware
      /\ encoder'.platform = encoder.platform
  BY <1>1 DEF IsEncoder
<1>3. /\ encoder.inside \in Seq(Nat) /\ encoder.images \in Seq(ImageRecord)
      /\ encoder.frames \in Nat /\ encoder.first \in Nat
      /\ Given \in Nat /\ Given = encoder.frames + 1
  BY <1>1 DEF IsEncoder, Given
<1>4. /\ all \in Seq(Nat) /\ Len(all) \in Nat /\ Ordered(all, encoder.first, Given)
      /\ \A number \in Nat : number <= encoder.frames /\ Before(number, encoder.inside)
                                => Before(number, all)
  BY <1>1, <1>3, GiveOne DEF EncoderOrder
<1>5. Delivered(encoder.images, all, Given)
  <2>1. ASSUME NEW k \in 1..Len(encoder.images)
        PROVE  encoder.images[k].frame <= Given /\ Before(encoder.images[k].frame, all)
    <3>1. encoder.images[k] \in ImageRecord
      BY <1>3, ElementOfSeq
    <3>2. /\ encoder.images[k].frame \in Nat /\ encoder.images[k].frame <= encoder.frames
          /\ Before(encoder.images[k].frame, encoder.inside)
      BY <1>1, <3>1 DEF ImageRecord, EncoderOrder, Delivered
    <3>3. QED
      BY <1>3, <1>4, <3>2
  <2>2. QED
    BY <1>1, <2>1 DEF EncoderOrder, Delivered
<1> HIDE DEF all, whole
<1>6. /\ encoder'.inside \in Seq(Nat) /\ Len(encoder'.inside) = Len(all) - n
      /\ Ordered(encoder'.inside, encoder.first, Given)
      /\ \A number \in Nat : Before(number, all) => Before(number, encoder'.inside)
  BY <1>1, <1>2, <1>3, <1>4, TakeSome
<1>7. /\ encoder.images \o out \in Seq(ImageRecord)
      /\ Delivered(encoder.images \o out, encoder'.inside, Given)
  BY <1>1, <1>2, <1>3, <1>4, <1>5, DeliverSome
<1>8. Delivered(encoder.images, encoder'.inside, Given)
  <2>1. ASSUME NEW k \in 1..Len(encoder.images) PROVE Before(encoder.images[k].frame, encoder'.inside)
    <3>1. encoder.images[k] \in ImageRecord
      BY <1>3, ElementOfSeq
    <3>2. encoder.images[k].frame \in Nat /\ Before(encoder.images[k].frame, all)
      BY <1>5, <3>1 DEF ImageRecord, Delivered
    <3>3. QED
      BY <1>6, <3>2
  <2>2. QED
    BY <1>5, <2>1 DEF Delivered
<1>9. encoder'.images \in Seq(ImageRecord) /\ EncoderOrder(encoder')
  BY <1>2, <1>3, <1>6, <1>7, <1>8 DEF EncoderOrder
<1>10. IsEncoder(encoder')
  BY <1>1, <1>3, <1>6, <1>9 DEF IsEncoder
<1>11. EncoderTypeOK'
  <2>1. encoder'.frames \in 0..MaxFrames /\ Len(encoder'.inside) <= MaxDelay
    BY <1>1, <1>2, <1>3, <1>4, <1>6, EncoderAssumption
  <2>2. encoder'.context = "open" /\ encoder'.platform = "linux" => encoder'.hardware = "vaapi"
    BY <1>1, <1>2 DEF EncoderTypeOK
  <2>3. QED
    BY <1>2, <1>10, <2>1, <2>2 DEF IsEncoder, EncoderTypeOK
<1>12. QED
  BY <1>9, <1>10, <1>11 DEF EncodingInv

\* A new encoder has no context, and hardware: without any there is none of this class.
LEMMA InitEncoding == CodecInit => EncodingInv
<1> SUFFICES ASSUME CodecInit, encoder # NoCodec
             PROVE  IsEncoder(encoder) /\ EncoderTypeOK /\ EncoderOrder(encoder)
  BY DEF EncodingInv
<1>1. PICK platform \in Platforms, hardware \in Hardware, codec \in CodecType, shape \in Shape :
          /\ CreateVideoEncoder(platform, [Default EXCEPT !.hardware = hardware], codec) = "ffmpeg"
          /\ encoder = NewEncoder(platform, hardware, codec, shape)
  BY DEF CodecInit, CreatedEncoder, CreatedDecoder
<1>2. [Default EXCEPT !.hardware = hardware].hardware = hardware
  BY DEF Default
<1>3. hardware # "none"
  BY <1>1, <1>2 DEF CreateVideoEncoder, Software
<1>4. <<>> \in Seq(Nat) /\ <<>> \in Seq(ImageRecord) /\ Len(<<>>) = 0
  OBVIOUS
<1>5. IsEncoder(encoder)
  BY <1>1, <1>3, <1>4 DEF NewEncoder, IsEncoder
<1>6. /\ encoder.inside = <<>> /\ encoder.images = <<>> /\ encoder.first = 1
      /\ encoder.frames = 0 /\ encoder.context = "none"
  BY <1>1 DEF NewEncoder
<1>7. EncoderTypeOK
  BY <1>4, <1>5, <1>6, EncoderAssumption DEF EncoderTypeOK, IsEncoder
<1>8. EncoderOrder(encoder)
  BY <1>4, <1>6 DEF EncoderOrder, Ordered, Delivered
<1>9. QED
  BY <1>5, <1>7, <1>8

\* A call that releases the context, and may open another or count a frame.
LEMMA ReleasingStep ==
    ASSUME encoder # NoCodec, EncodingInv,
           \/ InitEncode \/ InitEncodeFails \/ Release
           \/ encoder.frames < MaxFrames /\ EncodeReleases,
           encoder' # encoder
    PROVE  EncodingInv'
<1> DEFINE r == Released(encoder)
<1>1. IsEncoder(encoder) /\ EncoderTypeOK /\ EncoderOrder(encoder)
  BY DEF EncodingInv
<1>2. /\ IsEncoder(r) /\ r.context = "none" /\ r.inside = <<>>
      /\ r.frames = encoder.frames /\ r.first = encoder.first /\ r.images = encoder.images
      /\ r.platform = encoder.platform /\ r.hardware = encoder.hardware
  BY <1>1, ReleasedEncoder
<1>3. /\ encoder.frames \in Nat /\ encoder.frames <= MaxFrames /\ encoder.first \in Nat
      /\ encoder.first <= encoder.frames + 1
      /\ Given = encoder.frames + 1 /\ Given \in Nat
  BY <1>1, EncoderAssumption DEF IsEncoder, EncoderTypeOK, EncoderOrder, Ordered, Given
<1>4. \/ encoder' = r
      \/ /\ encoder' = [r EXCEPT !.context = "open", !.first = Given]
         /\ encoder.platform = "linux" => encoder.hardware = "vaapi"
      \/ encoder' = [r EXCEPT !.frames = Given] /\ encoder.frames < MaxFrames
  BY DEF InitEncode, InitEncodeFails, Release, EncodeReleases
<1> HIDE DEF r
<1>5. /\ IsEncoder(encoder') /\ encoder'.inside = <<>> /\ encoder'.images = encoder.images
      /\ encoder'.frames \in {encoder.frames, Given} /\ encoder'.frames \in 0..MaxFrames
      /\ encoder'.first <= encoder'.frames + 1
      /\ encoder'.context = "open" /\ encoder'.platform = "linux" => encoder'.hardware = "vaapi"
  <2>1. CASE encoder' = r
    BY <1>2, <1>3, <2>1, EncoderAssumption
  <2>2. CASE /\ encoder' = [r EXCEPT !.context = "open", !.first = Given]
             /\ encoder.platform = "linux" => encoder.hardware = "vaapi"
    <3>1. /\ encoder'.context = "open" /\ encoder'.first = Given /\ encoder'.inside = <<>>
          /\ encoder'.images = encoder.images /\ encoder'.frames = encoder.frames
          /\ encoder'.platform = encoder.platform /\ encoder'.hardware = encoder.hardware
      BY <1>2, <2>2 DEF IsEncoder
    <3>2. IsEncoder(encoder')
      BY <1>2, <1>3, <2>2 DEF IsEncoder
    <3>3. QED
      BY <1>3, <2>2, <3>1, <3>2, EncoderAssumption
  <2>3. CASE encoder' = [r EXCEPT !.frames = Given] /\ encoder.frames < MaxFrames
    BY <1>2, <1>3, <2>3, EncoderAssumption DEF IsEncoder
  <2>4. QED
    BY <1>4, <2>1, <2>2, <2>3
<1>6. encoder'.frames >= encoder.frames
  BY <1>3, <1>5
<1>7. EncoderOrder(encoder')
  BY <1>1, <1>5, <1>6, NothingInside
<1>8. Len(encoder'.inside) = 0
  BY <1>5
<1>9. EncoderTypeOK'
  BY <1>5, <1>8, EncoderAssumption DEF EncoderTypeOK, IsEncoder
<1>10. QED
  BY <1>5, <1>7, <1>9 DEF EncodingInv

\* A call that leaves the context alone: the registration, and an Encode that sends nothing.
LEMMA KeepingStep ==
    ASSUME encoder # NoCodec, EncodingInv,
           \/ RegisterEncodeCompleteCallback
           \/ encoder.frames < MaxFrames /\ EncodeNothing
    PROVE  EncodingInv'
<1>1. IsEncoder(encoder) /\ EncoderTypeOK /\ EncoderOrder(encoder)
  BY DEF EncodingInv
<1>2. /\ encoder.frames \in Nat /\ encoder.frames <= MaxFrames /\ encoder.first \in Nat
      /\ Given = encoder.frames + 1 /\ Given \in Nat
  BY <1>1, EncoderAssumption DEF IsEncoder, EncoderTypeOK, Given
<1>3. /\ IsEncoder(encoder') /\ encoder'.inside = encoder.inside
      /\ encoder'.images = encoder.images /\ encoder'.first = encoder.first
      /\ encoder'.context = encoder.context /\ encoder'.platform = encoder.platform
      /\ encoder'.hardware = encoder.hardware
      /\ encoder'.frames \in Nat /\ encoder'.frames >= encoder.frames /\ encoder'.frames <= MaxFrames
  <2>1. CASE RegisterEncodeCompleteCallback
    <3>1. IsEncoder(encoder')
      BY <1>1, <2>1 DEF RegisterEncodeCompleteCallback, IsEncoder
    <3>2. /\ encoder'.inside = encoder.inside /\ encoder'.images = encoder.images
          /\ encoder'.first = encoder.first /\ encoder'.context = encoder.context
          /\ encoder'.platform = encoder.platform /\ encoder'.hardware = encoder.hardware
          /\ encoder'.frames = encoder.frames
      BY <1>1, <2>1 DEF RegisterEncodeCompleteCallback, IsEncoder
    <3>3. QED
      BY <1>2, <3>1, <3>2
  <2>2. CASE encoder.frames < MaxFrames /\ EncodeNothing
    <3>1. IsEncoder(encoder')
      BY <1>1, <1>2, <2>2 DEF EncodeNothing, IsEncoder
    <3>2. /\ encoder'.inside = encoder.inside /\ encoder'.images = encoder.images
          /\ encoder'.first = encoder.first /\ encoder'.context = encoder.context
          /\ encoder'.platform = encoder.platform /\ encoder'.hardware = encoder.hardware
          /\ encoder'.frames = Given
      BY <1>1, <2>2 DEF EncodeNothing, IsEncoder
    <3>3. QED
      BY <1>2, <2>2, <3>1, <3>2, EncoderAssumption
  <2>3. QED
    BY <2>1, <2>2
<1>4. Ordered(encoder'.inside, encoder'.first, encoder'.frames)
  <2>1. \A i \in 1..Len(encoder.inside) : encoder.inside[i] \in Nat
    BY <1>1, ElementOfSeq DEF IsEncoder
  <2>2. QED
    BY <1>1, <1>2, <1>3, <2>1 DEF EncoderOrder, Ordered
<1>5. Delivered(encoder'.images, encoder'.inside, encoder'.frames)
  <2>1. \A k \in 1..Len(encoder.images) : encoder.images[k].frame \in Nat
    <3>1. \A k \in 1..Len(encoder.images) : encoder.images[k] \in ImageRecord
      BY <1>1, ElementOfSeq DEF IsEncoder
    <3>2. QED
      BY <3>1 DEF ImageRecord
  <2>2. QED
    BY <1>1, <1>2, <1>3, <2>1 DEF EncoderOrder, Delivered
<1>6. EncoderTypeOK'
  BY <1>1, <1>2, <1>3, EncoderAssumption DEF EncoderTypeOK, IsEncoder
<1>7. QED
  BY <1>3, <1>4, <1>5, <1>6 DEF EncodingInv, EncoderOrder

\* Every call of WebRTC on the encoder preserves the invariant, and one on another codec.
LEMMA EncodingStep == EncodingInv /\ [CodecNext]_codecVars => EncodingInv'
<1> SUFFICES ASSUME EncodingInv, [CodecNext]_codecVars PROVE EncodingInv'
  OBVIOUS
<1>1. CASE encoder' = encoder
  BY <1>1 DEF EncodingInv, EncoderTypeOK
<1>2. CASE encoder' # encoder
  <2>1. EncoderCall
    BY <1>2 DEF CodecNext, codecVars
  <2>2. encoder # NoCodec
    BY <2>1 DEF EncoderCall
  <2>3. CASE InitEncode \/ InitEncodeFails \/ Release
    BY <1>2, <2>2, <2>3, ReleasingStep
  <2>4. CASE RegisterEncodeCompleteCallback
    BY <2>2, <2>4, KeepingStep
  <2>5. CASE encoder.frames < MaxFrames /\ EncodeNothing
    BY <2>2, <2>5, KeepingStep
  <2>6. CASE encoder.frames < MaxFrames /\ EncodeReleases
    BY <1>2, <2>2, <2>6, ReleasingStep
  <2>7. ASSUME encoder.frames < MaxFrames, NEW n \in 0..(MaxDelay + 1), Encode(n)
        PROVE  EncodingInv'
    BY <2>2, <2>7, EncodeStep
  <2>8. QED
    BY <1>2, <2>1, <2>3, <2>4, <2>5, <2>6, <2>7 DEF EncoderCall, SetRates
<1>3. QED
  BY <1>1, <1>2

\* The invariant is inductive, whatever calls fail.
THEOREM EncodingCorrect == CodecSpec => []EncodingInv
BY InitEncoding, EncodingStep, PTL DEF CodecSpec

\* Whatever calls fail, the images of an encoder come in the order of their frames, each once
\* and with its own timestamp, and none from a context that was released.
THEOREM EncoderCorrect == CodecSpec => []EncoderInv
<1>1. EncodingInv => EncoderInv
  <2> SUFFICES ASSUME EncodingInv, encoder # NoCodec PROVE EncoderTypeOK /\ ImagesInOrder
    BY DEF EncoderInv, EncoderTypeOK, ImagesInOrder
  <2>1. IsEncoder(encoder) /\ EncoderTypeOK /\ EncoderOrder(encoder)
    BY DEF EncodingInv
  <2>2. encoder.images \in Seq(ImageRecord) /\ encoder.inside \in Seq(Nat)
    BY <2>1 DEF IsEncoder
  <2>3. ASSUME NEW k \in DOMAIN encoder.images
        PROVE  /\ encoder.images[k].timestamp = encoder.images[k].frame
               /\ k > 1 => encoder.images[k - 1].frame < encoder.images[k].frame
    <3>1. k \in 1..Len(encoder.images) /\ (k > 1 => k - 1 \in 1..Len(encoder.images) /\ k - 1 < k)
      BY <2>2
    <3>2. QED
      BY <2>1, <3>1 DEF EncoderOrder, Delivered
  <2>4. ASSUME NEW i \in DOMAIN encoder.inside
        PROVE  /\ encoder.inside[i] >= encoder.first
               /\ encoder.images # <<>> => Last(encoder.images).frame < encoder.inside[i]
    <3>1. i \in 1..Len(encoder.inside)
      BY <2>2
    <3>2. encoder.inside[i] >= encoder.first
      BY <2>1, <2>2, <3>1 DEF EncoderOrder, Ordered, IsEncoder
    <3>3. encoder.images # <<>> => Len(encoder.images) \in 1..Len(encoder.images)
      BY <2>2
    <3>4. QED
      BY <2>1, <3>1, <3>2, <3>3 DEF EncoderOrder, Delivered, Before, Last
  <2>5. QED
    BY <2>1, <2>3, <2>4 DEF ImagesInOrder
<1>2. QED
  BY <1>1, EncodingCorrect, PTL
-----------------------------------------------------------------------------
(* Induction, as facts about sets of numbers. *)

\* A set of numbers that is not empty has a least one.
LEMMA Least == ASSUME NEW T, T \subseteq Nat, T # {}
               PROVE  \E least \in T : \A n \in T : least <= n
<1> DEFINE R == OpToRel(<, Nat)
<1>1. \A m, n \in Nat : m < n => <<m, n>> \in R
  BY DEF OpToRel
<1>2. IsWellFoundedOn(R, Nat)
  BY NatLessThanWellFounded
<1> HIDE DEF R
<1>3. PICK least \in T : \A n \in T : <<n, least>> \notin R
  BY <1>2, WFMin
<1>4. ASSUME NEW n \in T PROVE least <= n
  <2>1. n \in Nat /\ least \in Nat /\ <<n, least>> \notin R
    BY <1>3
  <2>2. ~(n < least)
    BY <1>1, <2>1
  <2>3. QED
    BY <2>1, <2>2
<1>5. QED
  BY <1>4

\* A set with 0, and with the number after each of its own below n, has all up to n.
LEMMA Upward == ASSUME NEW n \in Nat, NEW T, 0 \in T, \A i \in 0..(n - 1) : i \in T => i + 1 \in T
                PROVE  0..n \subseteq T
<1> SUFFICES ASSUME (0..n) \ T # {} PROVE FALSE
  OBVIOUS
<1>1. PICK least \in (0..n) \ T : \A m \in (0..n) \ T : least <= m
  <2>1. (0..n) \ T \subseteq Nat
    OBVIOUS
  <2>2. QED
    BY <2>1, Least
<1>2. least # 0 /\ least - 1 \in 0..(n - 1) /\ ~(least <= least - 1)
  BY <1>1
<1>3. least - 1 \in T
  BY <1>1, <1>2
<1>4. least - 1 + 1 \in T
  BY <1>2, <1>3
<1>5. QED
  BY <1>1, <1>2, <1>4

\* The same downwards from n.
LEMMA Downward == ASSUME NEW n \in Nat, NEW T,
                         \A i \in 0..n : (\A j \in (i + 1)..n : j \in T) => i \in T
                  PROVE  0..n \subseteq T
<1> DEFINE U == {i \in 0..n : \A j \in (n - i)..n : j \in T}
<1>1. 0 \in U
  <2>1. \A j \in (n - 0)..n : j = n
    OBVIOUS
  <2>2. n \in T
    OBVIOUS
  <2>3. QED
    BY <2>1, <2>2
<1>2. ASSUME NEW i \in 0..(n - 1), i \in U PROVE i + 1 \in U
  <2>1. n - (i + 1) \in 0..n /\ (n - (i + 1)) + 1 = n - i
    OBVIOUS
  <2>2. \A j \in ((n - (i + 1)) + 1)..n : j \in T
    BY <1>2, <2>1
  <2>3. n - (i + 1) \in T
    BY <2>1, <2>2
  <2>4. \A j \in (n - (i + 1))..n : j = n - (i + 1) \/ j \in (n - i)..n
    OBVIOUS
  <2>5. \A j \in (n - (i + 1))..n : j \in T
    BY <1>2, <2>3, <2>4
  <2>6. QED
    BY <2>5
<1> HIDE DEF U
<1>3. 0..n \subseteq U
  BY <1>1, <1>2, Upward
<1>4. n \in U
  BY <1>3
<1>5. \A i \in 0..n : i \in (n - n)..n
  OBVIOUS
<1>6. QED
  BY <1>4, <1>5 DEF U

(* The search: NextNaluPosition skips no start code. *)

\* The first start code from a position on, which the search can see, or -1.
FirstCode(p, at) ==
    IF \E q \in at..(Len(p) - 5) : Skip(p, q) = 0
    THEN CHOOSE q \in at..(Len(p) - 5) : Skip(p, q) = 0 /\ \A r \in at..(q - 1) : Skip(p, r) # 0
    ELSE -1

\* There is no start code at the positions that are skipped.
LEMMA SkipsNone == ASSUME NEW p \in Seq(Nat), NEW at \in 0..(Len(p) - 5)
                   PROVE  /\ Skip(p, at) \in 0..3
                          /\ \A q \in at..(at + Skip(p, at) - 1) : Skip(p, q) # 0
<1>1. /\ Byte(p, at) \in Nat /\ Byte(p, at + 1) \in Nat /\ Byte(p, at + 2) \in Nat
      /\ at \in Nat
  <2>1. Len(p) \in Nat
    OBVIOUS
  <2>2. /\ at + 1 \in 1..Len(p) /\ at + 1 + 1 \in 1..Len(p) /\ at + 2 + 1 \in 1..Len(p)
    BY <2>1
  <2>3. \A i \in 1..Len(p) : p[i] \in Nat
    OBVIOUS
  <2>4. QED
    BY <2>1, <2>2, <2>3 DEF Byte
<1>2. Skip(p, at) \in 0..3
  BY DEF Skip
<1>3. at + 1 + 1 = at + 2
  BY <1>1
<1>4. CASE Byte(p, at) # 0
  <2>1. Skip(p, at) = 1
    BY <1>4 DEF Skip
  <2>2. QED
    BY <1>1, <1>2, <2>1
<1>5. CASE Byte(p, at) = 0 /\ Byte(p, at + 1) # 0
  <2>1. Skip(p, at) = 2 /\ Skip(p, at + 1) = 1
    BY <1>5 DEF Skip
  <2>2. \A q \in at..(at + 2 - 1) : q = at \/ q = at + 1
    BY <1>1
  <2>3. QED
    BY <2>1, <2>2
<1>6. CASE Byte(p, at) = 0 /\ Byte(p, at + 1) = 0 /\ Byte(p, at + 2) > 1
  <2>1. Skip(p, at) = 3
    BY <1>6 DEF Skip
  <2>2. Skip(p, at + 1) = 2
    BY <1>1, <1>3, <1>6 DEF Skip
  <2>3. Skip(p, at + 2) = 1
    BY <1>1, <1>6 DEF Skip
  <2>4. \A q \in at..(at + 3 - 1) : q = at \/ q = at + 1 \/ q = at + 2
    BY <1>1
  <2>5. QED
    BY <2>1, <2>2, <2>3, <2>4
<1>7. CASE Byte(p, at) = 0 /\ Byte(p, at + 1) = 0 /\ ~(Byte(p, at + 2) > 1)
  <2>1. Skip(p, at) \in {0, 1}
    BY <1>7 DEF Skip
  <2>2. \A q \in at..(at + Skip(p, at) - 1) : Skip(p, at) = 1 /\ q = at
    BY <1>1, <2>1
  <2>3. QED
    BY <1>2, <2>2
<1>8. QED
  BY <1>4, <1>5, <1>6, <1>7

\* FirstCode is what its name says.
LEMMA FirstCodeIsFirst ==
    ASSUME NEW p \in Seq(Nat), NEW at \in Nat, NEW q \in at..(Len(p) - 5), Skip(p, q) = 0,
           \A r \in at..(q - 1) : Skip(p, r) # 0
    PROVE  FirstCode(p, at) = q
<1> DEFINE Is(n) == n \in at..(Len(p) - 5) /\ Skip(p, n) = 0 /\ \A r \in at..(n - 1) : Skip(p, r) # 0
<1>1. FirstCode(p, at) = CHOOSE n \in at..(Len(p) - 5) :
                             Skip(p, n) = 0 /\ \A r \in at..(n - 1) : Skip(p, r) # 0
  BY DEF FirstCode
<1>2. Is(q)
  OBVIOUS
<1>3. Is(FirstCode(p, at))
  BY <1>1, <1>2
<1>4. Len(p) \in Nat
  OBVIOUS
<1>5. ASSUME FirstCode(p, at) < q PROVE FALSE
  <2>1. FirstCode(p, at) \in at..(q - 1)
    BY <1>3, <1>4, <1>5
  <2>2. QED
    BY <1>3, <2>1
<1>6. ASSUME q < FirstCode(p, at) PROVE FALSE
  <2>1. q \in at..(FirstCode(p, at) - 1)
    BY <1>3, <1>4, <1>6
  <2>2. QED
    BY <1>3, <2>1
<1>7. QED
  BY <1>3, <1>4, <1>5, <1>6

\* There is a first start code wherever there is one.
LEMMA FirstCodeFound ==
    ASSUME NEW p \in Seq(Nat), NEW at \in Nat
    PROVE  \/ /\ FirstCode(p, at) \in at..(Len(p) - 5) /\ Skip(p, FirstCode(p, at)) = 0
              /\ \A r \in at..(FirstCode(p, at) - 1) : Skip(p, r) # 0
           \/ FirstCode(p, at) = -1 /\ \A q \in at..(Len(p) - 5) : Skip(p, q) # 0
<1>1. CASE \E q \in at..(Len(p) - 5) : Skip(p, q) = 0
  <2> DEFINE C == {q \in at..(Len(p) - 5) : Skip(p, q) = 0}
  <2>1. Len(p) \in Nat
    OBVIOUS
  <2>2. C \subseteq Nat /\ C # {}
    BY <1>1, <2>1
  <2>3. PICK q \in C : \A n \in C : q <= n
    BY <2>2, Least
  <2>4. \A r \in at..(q - 1) : Skip(p, r) # 0
    <3>1. SUFFICES ASSUME NEW r \in at..(q - 1), Skip(p, r) = 0 PROVE FALSE
      OBVIOUS
    <3>2. r \in C /\ r < q
      BY <2>1, <2>3, <3>1
    <3>3. QED
      BY <2>1, <2>3, <3>2
  <2>5. FirstCode(p, at) = q
    BY <2>3, <2>4, FirstCodeIsFirst
  <2>6. QED
    BY <2>3, <2>4, <2>5
<1>2. CASE ~ \E q \in at..(Len(p) - 5) : Skip(p, q) = 0
  BY <1>2 DEF FirstCode
<1>3. QED
  BY <1>1, <1>2

\* A step of the search.
LEMMA SearchStep ==
    ASSUME NEW p \in Seq(Nat), NEW at \in 0..(Len(p) + 2)
    PROVE  FirstCode(p, at) = IF at >= Len(p) - 4 THEN -1
                              ELSE IF Skip(p, at) = 0 THEN at
                              ELSE FirstCode(p, at + Skip(p, at))
<1>1. Len(p) \in Nat /\ at \in Nat
  OBVIOUS
<1>2. CASE at >= Len(p) - 4
  <2>1. at..(Len(p) - 5) = {}
    BY <1>1, <1>2
  <2>2. QED
    BY <1>2, <2>1 DEF FirstCode
<1>3. CASE at < Len(p) - 4 /\ Skip(p, at) = 0
  <2>1. at \in at..(Len(p) - 5) /\ at..(at - 1) = {}
    BY <1>1, <1>3
  <2>2. FirstCode(p, at) = at
    BY <1>1, <1>3, <2>1, FirstCodeIsFirst
  <2>3. QED
    BY <1>1, <1>3, <2>2
<1>4. CASE at < Len(p) - 4 /\ Skip(p, at) # 0
  <2> DEFINE n == at + Skip(p, at)
             q == FirstCode(p, n)
  <2>1. at \in 0..(Len(p) - 5)
    BY <1>1, <1>4
  <2>2. Skip(p, at) \in 1..3 /\ \A r \in at..(n - 1) : Skip(p, r) # 0
    BY <1>4, <2>1, SkipsNone
  <2>3. n \in Nat /\ n > at
    BY <1>1, <2>2
  <2> HIDE DEF n
  <2>4. CASE /\ q \in n..(Len(p) - 5) /\ Skip(p, q) = 0
             /\ \A r \in n..(q - 1) : Skip(p, r) # 0
    <3>1. q \in at..(Len(p) - 5)
      BY <1>1, <2>3, <2>4
    <3>2. \A r \in at..(q - 1) : r \in at..(n - 1) \/ r \in n..(q - 1)
      BY <1>1, <2>3, <2>4
    <3>3. \A r \in at..(q - 1) : Skip(p, r) # 0
      BY <2>2, <2>4, <3>2
    <3>4. FirstCode(p, at) = q
      BY <1>1, <2>4, <3>1, <3>3, FirstCodeIsFirst
    <3>5. QED
      BY <1>1, <1>4, <3>4 DEF n
  <2>5. CASE q = -1 /\ \A r \in n..(Len(p) - 5) : Skip(p, r) # 0
    <3>1. \A r \in at..(Len(p) - 5) : r \in at..(n - 1) \/ r \in n..(Len(p) - 5)
      BY <1>1, <2>3
    <3>2. \A r \in at..(Len(p) - 5) : Skip(p, r) # 0
      BY <2>2, <2>5, <3>1
    <3>3. FirstCode(p, at) = -1
      BY <3>2 DEF FirstCode
    <3>4. QED
      BY <1>1, <1>4, <2>5, <3>3 DEF n
  <2>6. QED
    BY <2>3, <2>4, <2>5, FirstCodeFound
<1>5. QED
  BY <1>1, <1>2, <1>3, <1>4

\* For every packet and position, NextNaluPosition finds the first start code.
THEOREM SearchIsComplete ==
    ASSUME NEW p \in Seq(Nat), NEW at \in 0..(Len(p) + 2)
    PROVE  NextNaluPosition(p)[at] = FirstCode(p, at)
<1> DEFINE S == 0..(Len(p) + 2)
           f == NextNaluPosition(p)
           g == [i \in S |-> FirstCode(p, i)]
<1>1. Len(p) \in Nat
  OBVIOUS
<1>2. \A i \in S : i < Len(p) - 4 => i + Skip(p, i) \in S /\ Skip(p, i) \in 0..3
  <2>1. SUFFICES ASSUME NEW i \in S, i < Len(p) - 4
                 PROVE  i + Skip(p, i) \in S /\ Skip(p, i) \in 0..3
    OBVIOUS
  <2>2. i \in 0..(Len(p) - 5)
    BY <1>1, <2>1
  <2>3. Skip(p, i) \in 0..3
    BY <2>2, SkipsNone
  <2>4. QED
    BY <1>1, <2>2, <2>3
<1>3. g = [i \in S |-> IF i >= Len(p) - 4 THEN -1
                       ELSE IF Skip(p, i) = 0 THEN i ELSE g[i + Skip(p, i)]]
  <2>1. \A i \in S : FirstCode(p, i) = IF i >= Len(p) - 4 THEN -1
                                       ELSE IF Skip(p, i) = 0 THEN i ELSE g[i + Skip(p, i)]
    <3>1. SUFFICES ASSUME NEW i \in S
                   PROVE  FirstCode(p, i) = IF i >= Len(p) - 4 THEN -1
                                            ELSE IF Skip(p, i) = 0 THEN i ELSE g[i + Skip(p, i)]
      OBVIOUS
    <3>2. i < Len(p) - 4 => g[i + Skip(p, i)] = FirstCode(p, i + Skip(p, i))
      BY <1>2
    <3>3. QED
      BY <1>1, <3>2, SearchStep
  <2>2. QED
    BY <2>1
<1>4. f = [i \in S |-> IF i >= Len(p) - 4 THEN -1
                       ELSE IF Skip(p, i) = 0 THEN i ELSE f[i + Skip(p, i)]]
  <2> HIDE DEF g
  <2>1. QED
    BY <1>3 DEF NextNaluPosition
<1> HIDE DEF f, g
<1> DEFINE T == {i \in S : f[i] = FirstCode(p, i)}
<1>5. ASSUME NEW i \in S, \A j \in (i + 1)..(Len(p) + 2) : j \in T PROVE i \in T
  <2>1. CASE i >= Len(p) - 4 \/ Skip(p, i) = 0
    <3>1. f[i] = IF i >= Len(p) - 4 THEN -1 ELSE i
      BY <1>1, <1>4, <2>1
    <3>2. FirstCode(p, i) = IF i >= Len(p) - 4 THEN -1 ELSE i
      BY <1>1, <2>1, SearchStep
    <3>3. QED
      BY <3>1, <3>2
  <2>2. CASE i < Len(p) - 4 /\ Skip(p, i) # 0
    <3>1. i + Skip(p, i) \in (i + 1)..(Len(p) + 2)
      <4>1. i + Skip(p, i) \in S /\ Skip(p, i) \in 0..3 /\ Skip(p, i) # 0
        BY <1>2, <2>2
      <4>2. QED
        BY <1>1, <4>1
    <3>2. f[i + Skip(p, i)] = FirstCode(p, i + Skip(p, i))
      BY <1>5, <3>1
    <3>3. f[i] = f[i + Skip(p, i)]
      <4>1. f[i] = IF i >= Len(p) - 4 THEN -1
                   ELSE IF Skip(p, i) = 0 THEN i ELSE f[i + Skip(p, i)]
        BY <1>4
      <4>2. ~(i >= Len(p) - 4)
        BY <1>1, <2>2
      <4>3. QED
        BY <2>2, <4>1, <4>2
    <3>4. FirstCode(p, i) = FirstCode(p, i + Skip(p, i))
      BY <1>1, <2>2, SearchStep
    <3>5. QED
      BY <3>2, <3>3, <3>4
  <2>3. QED
    BY <1>1, <2>1, <2>2
<1>6. S \subseteq T
  <2> HIDE DEF T
  <2>1. Len(p) + 2 \in Nat
    BY <1>1
  <2>2. QED
    BY <1>5, <2>1, Downward
<1>7. QED
  BY <1>6 DEF f

(* Joined: packets are units one after the other. *)

Flattens(f, seqs, n) ==
    f = [i \in 1..n |-> IF i = 1 THEN seqs[i] ELSE f[i - 1] \o seqs[i]]

\* FlattenSeq is a recursive function: it exists, and puts the last sequence at the end.
LEMMA FlattenExists ==
    ASSUME NEW seqs, NEW n \in Nat
    PROVE  \E f : Flattens(f, seqs, n)
<1> DEFINE T == {m \in 0..n : \E f : Flattens(f, seqs, m)}
<1>1. 0 \in T
  <2>1. Flattens([i \in 1..0 |-> 0], seqs, 0)
    BY DEF Flattens
  <2>2. 0 \in 0..n
    OBVIOUS
  <2>3. QED
    BY <2>1, <2>2
<1>2. ASSUME NEW m \in 0..(n - 1), m \in T PROVE m + 1 \in T
  <2>1. PICK f : Flattens(f, seqs, m)
    BY <1>2
  <2> DEFINE e == IF m + 1 = 1 THEN seqs[m + 1] ELSE f[m] \o seqs[m + 1]
             g == [i \in 1..(m + 1) |-> IF i = m + 1 THEN e ELSE f[i]]
  <2>2. ASSUME NEW i \in 1..(m + 1)
        PROVE  g[i] = IF i = 1 THEN seqs[i] ELSE g[i - 1] \o seqs[i]
    <3>1. CASE i = m + 1
      <4>1. i # 1 => g[i - 1] = f[m]
        BY <3>1
      <4>2. g[i] = e
        BY <3>1
      <4> HIDE DEF g
      <4>3. QED
        BY <3>1, <4>1, <4>2
    <3>2. CASE i # m + 1
      <4>1. i \in 1..m /\ g[i] = f[i] /\ (i # 1 => g[i - 1] = f[i - 1])
        BY <3>2
      <4> HIDE DEF g
      <4>2. f[i] = IF i = 1 THEN seqs[i] ELSE f[i - 1] \o seqs[i]
        BY <2>1, <4>1 DEF Flattens
      <4>3. QED
        BY <4>1, <4>2
    <3>3. QED
      BY <3>1, <3>2
  <2>3. g = [i \in 1..(m + 1) |-> g[i]]
    OBVIOUS
  <2> HIDE DEF g
  <2>4. Flattens(g, seqs, m + 1)
    BY <2>2, <2>3 DEF Flattens
  <2>5. m + 1 \in 0..n
    OBVIOUS
  <2>6. QED
    BY <2>4, <2>5
<1> HIDE DEF T
<1>3. n \in T
  <2>1. 0..n \subseteq T
    BY <1>1, <1>2, Upward
  <2>2. QED
    BY <2>1
<1>4. QED
  BY <1>3 DEF T

LEMMA FlattenAppend ==
    ASSUME NEW seqs \in Seq(Seq(Nat)), NEW s \in Seq(Nat)
    PROVE  FlattenSeq(Append(seqs, s)) = FlattenSeq(seqs) \o s /\ FlattenSeq(seqs) \in Seq(Nat)
<1> DEFINE n == Len(seqs)
           more == Append(seqs, s)
           f == CHOOSE f : Flattens(f, seqs, n)
           g == CHOOSE g : Flattens(g, more, n + 1)
<1>1. n \in Nat /\ Len(more) = n + 1 /\ more[n + 1] = s
      /\ \A i \in 1..n : more[i] = seqs[i] /\ seqs[i] \in Seq(Nat)
  OBVIOUS
<1>2. Flattens(f, seqs, n)
  BY <1>1, FlattenExists
<1>3. Flattens(g, more, n + 1)
  <2>1. n + 1 \in Nat
    BY <1>1
  <2>2. QED
    BY <2>1, FlattenExists
<1>4. FlattenSeq(more) = g[n + 1]
  <2>1. Len(more) # 0 /\ Len(more) = n + 1
    BY <1>1
  <2> HIDE DEF more
  <2>2. QED
    BY <2>1, Zenon DEF FlattenSeq, Flattens
<1>5. n # 0 => FlattenSeq(seqs) = f[n]
  BY <1>1, Zenon DEF FlattenSeq, Flattens
<1> HIDE DEF f, g
<1> DEFINE Same(m) == m # 0 => f[m] = g[m] /\ f[m] \in Seq(Nat)
           T == {m \in 0..n : Same(m)}
<1>6. \A i \in 1..n : f[i] = IF i = 1 THEN seqs[i] ELSE f[i - 1] \o seqs[i]
  BY <1>2 DEF Flattens
<1>7. \A i \in 1..(n + 1) : g[i] = IF i = 1 THEN more[i] ELSE g[i - 1] \o more[i]
  BY <1>3 DEF Flattens
<1> HIDE DEF more
<1>8. ASSUME NEW m \in 0..(n - 1), m \in T PROVE m + 1 \in T
  <2>1. /\ m + 1 \in 1..n /\ m + 1 \in 1..(n + 1)
        /\ f[m + 1] = (IF m + 1 = 1 THEN seqs[m + 1] ELSE f[m] \o seqs[m + 1])
        /\ g[m + 1] = (IF m + 1 = 1 THEN more[m + 1] ELSE g[m] \o more[m + 1])
    <3>1. m + 1 \in 1..n /\ m + 1 \in 1..(n + 1) /\ m + 1 - 1 = m
      BY <1>1
    <3>2. QED
      BY <1>6, <1>7, <3>1
  <2>2. more[m + 1] = seqs[m + 1] /\ seqs[m + 1] \in Seq(Nat)
    BY <1>1, <2>1
  <2>3. f[m + 1] = g[m + 1] /\ f[m + 1] \in Seq(Nat)
    BY <1>8, <2>1, <2>2
  <2>4. Same(m + 1) /\ m + 1 \in 0..n
    BY <1>1, <2>1, <2>3
  <2> HIDE DEF Same
  <2>5. QED
    BY <2>4
<1>9. 0..n \subseteq T
  <2>1. 0 \in T
    BY <1>1
  <2> HIDE DEF T
  <2>2. QED
    BY <1>1, <1>8, <2>1, Upward
<1>10. n # 0 => f[n] = g[n] /\ f[n] \in Seq(Nat)
  <2> HIDE DEF Same
  <2>1. Same(n)
    BY <1>1, <1>9
  <2>2. QED
    BY <2>1 DEF Same
<1>11. g[n + 1] = IF n = 0 THEN s ELSE g[n] \o s
  BY <1>1, <1>7
<1>12. CASE n = 0
  <2>1. FlattenSeq(seqs) = <<>>
    BY <1>12 DEF FlattenSeq
  <2>2. QED
    BY <1>4, <1>11, <1>12, <2>1 DEF more
<1>13. CASE n # 0
  BY <1>4, <1>5, <1>10, <1>11, <1>13 DEF more
<1>14. QED
  BY <1>12, <1>13

\* What a packet is made of, as far as its length is concerned.
Piece == [code : Seq(Nat), payload : Seq(Nat)]

\* No units have no bytes.
LEMMA JoinedNothing == Joined(<<>>) = <<>>
<1>1. DOMAIN <<>> = {} /\ Len(<<>>) = 0
  OBVIOUS
<1>2. [i \in DOMAIN <<>> |-> <<>>[i].code \o <<>>[i].payload] = <<>>
  BY <1>1
<1>3. QED
  BY <1>1, <1>2 DEF Joined, FlattenSeq

\* The bytes of one more unit are at the end.
LEMMA JoinedAppend ==
    ASSUME NEW us \in Seq(Piece), NEW u \in Piece
    PROVE  /\ Joined(Append(us, u)) = Joined(us) \o (u.code \o u.payload)
           /\ Joined(us) \in Seq(Nat)
<1> DEFINE B(v) == v.code \o v.payload
           n == Len(us)
           more == Append(us, u)
           old == [i \in 1..n |-> B(us[i])]
           new == [i \in 1..(n + 1) |-> B(more[i])]
<1>1. /\ n \in Nat /\ DOMAIN us = 1..n /\ DOMAIN more = 1..(n + 1)
      /\ more[n + 1] = u /\ \A i \in 1..n : more[i] = us[i] /\ us[i] \in Piece
  OBVIOUS
<1>2. \A v \in Piece : B(v) \in Seq(Nat)
  BY DEF Piece
<1>3. Joined(us) = FlattenSeq(old) /\ Joined(more) = FlattenSeq(new)
  BY <1>1, Zenon DEF Joined
<1> HIDE DEF B, more
<1>4. \A i \in 1..(n + 1) : i = n + 1 \/ i \in 1..n
  BY <1>1
<1>5. /\ old \in Seq(Seq(Nat)) /\ Len(old) = n
      /\ new \in Seq(Seq(Nat)) /\ Len(new) = n + 1
  <2>1. \A i \in 1..n : B(us[i]) \in Seq(Nat)
    BY <1>1, <1>2
  <2>2. \A i \in 1..(n + 1) : B(more[i]) \in Seq(Nat)
    BY <1>1, <1>2, <1>4
  <2>3. QED
    BY <1>1, <2>1, <2>2
<1>6. new[n + 1] = B(u) /\ B(u) \in Seq(Nat) /\ \A i \in 1..n : new[i] = old[i]
  BY <1>1, <1>2
<1> HIDE DEF old, new
<1>7. new = Append(old, B(u))
  <2> DEFINE other == Append(old, B(u))
  <2>1. /\ other \in Seq(Seq(Nat)) /\ Len(other) = n + 1
        /\ other[n + 1] = B(u) /\ \A i \in 1..n : other[i] = old[i]
    BY <1>1, <1>5, <1>6
  <2> HIDE DEF other
  <2>2. \A i \in 1..Len(new) : new[i] = other[i]
    BY <1>4, <1>5, <1>6, <2>1
  <2>3. new = other
    BY <1>5, <2>1, <2>2, SeqEqual
  <2>4. QED
    BY <2>3 DEF other
<1>8. FlattenSeq(new) = FlattenSeq(old) \o B(u) /\ FlattenSeq(old) \in Seq(Nat)
  BY <1>5, <1>6, <1>7, FlattenAppend
<1>9. QED
  BY <1>3, <1>8 DEF B, more

LEMMA JoinedBytes == ASSUME NEW us \in Seq(Piece) PROVE Joined(us) \in Seq(Nat)
<1>1. PICK u : u \in Piece
  <2>1. <<>> \in Seq(Nat)
    OBVIOUS
  <2>2. [code |-> <<>>, payload |-> <<>>] \in Piece
    BY <2>1 DEF Piece
  <2>3. QED
    BY <2>2
<1>2. QED
  BY <1>1, JoinedAppend

LEMMA Associates ==
    ASSUME NEW a \in Seq(Nat), NEW b \in Seq(Nat), NEW c \in Seq(Nat)
    PROVE  (a \o b) \o c = a \o (b \o c)
BY ConcatAssociative

\* A packet is cut between two units.
LEMMA JoinedSplit ==
    ASSUME NEW us \in Seq(Piece), NEW m \in 0..Len(us)
    PROVE  Joined(us) = Joined(SubSeq(us, 1, m)) \o Joined(SubSeq(us, m + 1, Len(us)))
<1> DEFINE n == Len(us)
           head == Joined(SubSeq(us, 1, m))
           Splits(k) == Joined(SubSeq(us, 1, m + k)) = head \o Joined(SubSeq(us, m + 1, m + k))
           T == {k \in 0..(n - m) : Splits(k)}
<1>1. n \in Nat /\ m \in Nat /\ n - m \in Nat /\ m + (n - m) = n
      /\ \A i \in 1..n : us[i] \in Piece
  OBVIOUS
<1>2. \A i, j \in 0..(n + 1) : i >= 1 /\ j <= n => SubSeq(us, i, j) \in Seq(Piece)
  BY <1>1
<1>3. head \in Seq(Nat)
  <2>1. SubSeq(us, 1, m) \in Seq(Piece)
    BY <1>1
  <2>2. QED
    BY <2>1, JoinedBytes
<1> HIDE DEF head
<1>4. Splits(0)
  <2>1. SubSeq(us, m + 1, m + 0) = <<>> /\ m + 0 = m
    BY <1>1, SubSeqEmpty
  <2>2. head \o <<>> = head
    BY <1>3, ConcatEmptySeq
  <2>3. Joined(SubSeq(us, 1, m + 0)) = head
    BY <2>1 DEF head
  <2>4. QED
    BY <2>1, <2>2, <2>3, JoinedNothing
<1>5. ASSUME NEW k \in 0..(n - m - 1), Splits(k) PROVE Splits(k + 1)
  <2> DEFINE u == us[m + k + 1]
             all == SubSeq(us, 1, m + k)
             rest == SubSeq(us, m + 1, m + k)
             b == u.code \o u.payload
  <2>1. /\ u \in Piece /\ all \in Seq(Piece) /\ rest \in Seq(Piece)
        /\ m + k \in Nat /\ m + k + 1 \in 1..n /\ m + (k + 1) = m + k + 1
    BY <1>1
  <2>2. SubSeq(us, 1, m + k + 1) = Append(all, u)
    BY <1>1, <2>1
  <2>3. SubSeq(us, m + 1, m + k + 1) = Append(rest, u)
    BY <1>1, <2>1
  <2> HIDE DEF u, all, rest
  <2>4. b \in Seq(Nat)
    BY <2>1 DEF Piece
  <2>5. Joined(Append(all, u)) = Joined(all) \o b /\ Joined(Append(rest, u)) = Joined(rest) \o b
        /\ Joined(rest) \in Seq(Nat)
    BY <2>1, JoinedAppend
  <2>6. Joined(all) = head \o Joined(rest)
    BY <1>5 DEF all, rest
  <2> HIDE DEF b
  <2>7. (head \o Joined(rest)) \o b = head \o (Joined(rest) \o b)
    <3> HIDE DEF head
    <3>1. head \in Seq(Nat) /\ b \in Seq(Nat) /\ Joined(rest) \in Seq(Nat)
      BY <1>3, <2>4, <2>5
    <3>2. QED
      BY <3>1, Associates, Zenon
  <2>8. QED
    BY <2>1, <2>2, <2>3, <2>5, <2>6, <2>7
<1> HIDE DEF Splits
<1>6. 0..(n - m) \subseteq T
  <2>1. 0 \in T
    BY <1>1, <1>4
  <2>2. ASSUME NEW k \in 0..(n - m - 1), k \in T PROVE k + 1 \in T
    BY <1>1, <1>5, <2>2
  <2> HIDE DEF T
  <2>3. QED
    BY <1>1, <2>1, <2>2, Upward
<1>7. Splits(n - m)
  BY <1>1, <1>6
<1>8. SubSeq(us, 1, n) = us
  BY SubSeqFull
<1>9. QED
  BY <1>1, <1>7, <1>8 DEF Splits, head

(* Where the units of a packet are. *)

\* The end of a unit, and the start of its payload.
CutAt(us, i) == Len(Joined(SubSeq(us, 1, i)))
PayloadAt(us, i) == IF i = 0 THEN 0 ELSE CutAt(us, i - 1) + Len(us[i].code)

\* What two sequences in a row have where.
LEMMA TwoParts ==
    ASSUME NEW a \in Seq(Nat), NEW b \in Seq(Nat)
    PROVE  /\ a \o b \in Seq(Nat) /\ Len(a \o b) = Len(a) + Len(b)
           /\ Len(a) \in Nat /\ Len(b) \in Nat
           /\ \A k \in 1..Len(a) : (a \o b)[k] = a[k]
           /\ \A k \in 1..Len(b) : (a \o b)[Len(a) + k] = b[k]
<1>1. Len(a) \in Nat /\ Len(b) \in Nat
  OBVIOUS
<1> DEFINE ab == a \o b
<1>2. /\ ab \in Seq(Nat) /\ Len(ab) = Len(a) + Len(b)
      /\ \A k \in 1..(Len(a) + Len(b)) : ab[k] = IF k <= Len(a) THEN a[k] ELSE b[k - Len(a)]
  BY ConcatProperties
<1> HIDE DEF ab
<1>3. \A k \in 1..Len(a) : ab[k] = a[k]
  <2>1. \A k \in 1..Len(a) : k \in 1..(Len(a) + Len(b)) /\ k <= Len(a)
    BY <1>1
  <2>2. QED
    BY <1>2, <2>1
<1>4. \A k \in 1..Len(b) : ab[Len(a) + k] = b[k]
  <2>1. \A k \in 1..Len(b) : /\ Len(a) + k \in 1..(Len(a) + Len(b)) /\ ~(Len(a) + k <= Len(a))
                             /\ Len(a) + k - Len(a) = k
    BY <1>1
  <2>2. QED
    BY <1>2, <2>1
<1>5. QED
  BY <1>1, <1>2, <1>3, <1>4 DEF ab

\* A sequence found in another one is a subsequence.
LEMMA CutEqual ==
    ASSUME NEW p \in Seq(Nat), NEW s \in Seq(Nat), NEW from \in Nat,
           from + Len(s) <= Len(p), \A k \in 1..Len(s) : p[from + k] = s[k]
    PROVE  SubSeq(p, from + 1, from + Len(s)) = s
<1> DEFINE t == SubSeq(p, from + 1, from + Len(s))
<1>1. Len(s) \in Nat /\ Len(p) \in Nat /\ from + 1 \in Int /\ from + Len(s) \in Int
  OBVIOUS
<1>2. \A i \in (from + 1)..(from + Len(s)) : p[i] \in Nat
  <2>1. \A i \in (from + 1)..(from + Len(s)) : i \in 1..Len(p)
    BY <1>1
  <2>2. \A i \in 1..Len(p) : p[i] \in Nat
    OBVIOUS
  <2>3. QED
    BY <2>1, <2>2
<1>3. /\ t \in Seq(Nat)
      /\ Len(t) = IF from + 1 <= from + Len(s) THEN from + Len(s) - (from + 1) + 1 ELSE 0
      /\ \A i \in 1..(from + Len(s) - (from + 1) + 1) : t[i] = p[from + 1 + i - 1]
  BY <1>1, <1>2, SubSeqProperties
<1> HIDE DEF t
<1>4. from + Len(s) - (from + 1) + 1 = Len(s) /\ \A i \in 1..Len(s) : from + 1 + i - 1 = from + i
  BY <1>1
<1>5. Len(t) = Len(s)
  BY <1>1, <1>3
<1>6. \A i \in 1..Len(s) : t[i] = s[i]
  <2>1. \A i \in 1..Len(s) : t[i] = p[from + 1 + i - 1]
    BY <1>1, <1>3, <1>4
  <2>2. \A i \in 1..Len(s) : t[i] = p[from + i]
    BY <1>4, <2>1
  <2>3. QED
    BY <2>2
<1>7. t = s
  BY <1>3, <1>5, <1>6, SeqEqual
<1>8. QED
  BY <1>7 DEF t

Regroups(h, c, s, r) == (h \o (c \o s)) \o r = (h \o c) \o (s \o r)

LEMMA FourInARow ==
    ASSUME NEW h \in Seq(Nat), NEW c \in Seq(Nat), NEW s \in Seq(Nat), NEW r \in Seq(Nat)
    PROVE  Regroups(h, c, s, r)
<1> DEFINE hc == h \o c
<1>1. hc \in Seq(Nat)
  BY TwoParts
<1>2. hc \o s = h \o (c \o s)
  BY Associates, Zenon
<1> HIDE DEF hc
<1>3. (hc \o s) \o r = hc \o (s \o r)
  BY <1>1, Associates, Zenon
<1>4. QED
  BY <1>2, <1>3, Zenon DEF hc, Regroups

\* What four sequences in a row have where.
InARow(p, h, c, s, r) ==
    /\ p \in Seq(Nat) /\ Len(p) = Len(h) + Len(c) + Len(s) + Len(r)
    /\ Len(h) \in Nat /\ Len(c) \in Nat /\ Len(s) \in Nat /\ Len(r) \in Nat
    /\ \A k \in 1..Len(c) : p[Len(h) + k] = c[k]
    /\ \A k \in 1..Len(s) : p[Len(h) + Len(c) + k] = s[k]
    /\ SubSeq(p, Len(h) + Len(c) + 1, Len(h) + Len(c) + Len(s)) = s
    /\ SubSeq(p, Len(h) + Len(c) + 1, Len(p)) = s \o r

LEMMA FourParts ==
    ASSUME NEW h \in Seq(Nat), NEW c \in Seq(Nat), NEW s \in Seq(Nat), NEW r \in Seq(Nat)
    PROVE  InARow((h \o c) \o (s \o r), h, c, s, r)
<1> DEFINE hc == h \o c
           sr == s \o r
           from == Len(h) + Len(c)
           p == hc \o sr
<1>1. /\ hc \in Seq(Nat) /\ Len(hc) = from /\ Len(h) \in Nat /\ Len(c) \in Nat
      /\ \A k \in 1..Len(c) : hc[Len(h) + k] = c[k]
  BY TwoParts
<1>2. /\ sr \in Seq(Nat) /\ Len(sr) = Len(s) + Len(r) /\ Len(s) \in Nat /\ Len(r) \in Nat
      /\ \A k \in 1..Len(s) : sr[k] = s[k]
  BY TwoParts
<1> HIDE DEF hc, sr, p
<1>5. /\ p \in Seq(Nat) /\ Len(p) = Len(hc) + Len(sr)
      /\ \A k \in 1..Len(hc) : p[k] = hc[k]
      /\ \A k \in 1..Len(sr) : p[Len(hc) + k] = sr[k]
  <2>1. hc \in Seq(Nat) /\ sr \in Seq(Nat)
    BY <1>1, <1>2
  <2>2. QED
    BY <2>1, TwoParts DEF p
<1>6. \A k \in 1..Len(c) : p[Len(h) + k] = c[k]
  <2>1. \A k \in 1..Len(c) : Len(h) + k \in 1..Len(hc)
    BY <1>1
  <2>2. QED
    BY <1>1, <1>5, <2>1
<1>7. \A k \in 1..Len(s) : p[from + k] = s[k]
  <2>1. \A k \in 1..Len(s) : k \in 1..Len(sr)
    BY <1>2
  <2>2. QED
    BY <1>1, <1>2, <1>5, <2>1
<1>8. from \in Nat /\ from + Len(s) <= Len(p) /\ from + Len(sr) = Len(p)
      /\ Len(p) = Len(h) + Len(c) + Len(s) + Len(r)
  BY <1>1, <1>2, <1>5
<1>9. \A k \in 1..Len(sr) : p[from + k] = sr[k]
  BY <1>1, <1>5
<1> HIDE DEF from
<1>10. SubSeq(p, from + 1, from + Len(s)) = s
  BY <1>5, <1>7, <1>8, CutEqual
<1>11. SubSeq(p, from + 1, from + Len(sr)) = sr
  <2>1. from + Len(sr) <= Len(p)
    BY <1>5, <1>8
  <2>2. QED
    BY <1>2, <1>5, <1>8, <1>9, <2>1, CutEqual
<1>12. QED
  <2>1. SubSeq(p, from + 1, Len(p)) = sr
    BY <1>8, <1>11
  <2>2. InARow(p, h, c, s, r)
    BY <1>1, <1>2, <1>5, <1>6, <1>7, <1>8, <1>10, <2>1 DEF from, sr, InARow
  <2>3. QED
    BY <2>2 DEF p, hc, sr

\* The units of a packet, as far as the proofs need them.
LEMMA PacketUnits ==
    ASSUME NEW us, IsPacket(us)
    PROVE  /\ us \in Seq(Piece) /\ Len(us) \in Nat \ {0} /\ DOMAIN us = 1..Len(us)
           /\ \A i \in 1..Len(us) : /\ us[i].code \in StartCodes /\ us[i].code \in Seq(Nat)
                                    /\ Len(us[i].code) \in {3, 4}
                                    /\ us[i].payload \in Seq(Nat) /\ IsPayload(us[i].payload)
                                    /\ Len(us[i].payload) \in Nat \ {0}
<1>1. us \in Seq(Unit(Seq(0..255))) /\ us # <<>> /\ DOMAIN us = 1..Len(us)
  <2>1. us \in Seq(Unit(Seq(0..255))) /\ us # <<>>
    BY DEF IsPacket
  <2>2. QED
    BY <2>1, LenProperties
<1>2. \A s \in Seq(0..255) : s \in Seq(Nat)
  <2>1. 0..255 \subseteq Nat
    OBVIOUS
  <2>2. QED
    BY <2>1, SeqMonotonic
<1>3. \A c \in StartCodes : c \in Seq(Nat) /\ Len(c) \in {3, 4}
  <2>1. <<0, 0, 1>> \in Seq(Nat) /\ Len(<<0, 0, 1>>) = 3
    OBVIOUS
  <2>2. <<0, 0, 0, 1>> \in Seq(Nat) /\ Len(<<0, 0, 0, 1>>) = 4
    OBVIOUS
  <2>3. QED
    BY <2>1, <2>2 DEF StartCodes
<1>4. Unit(Seq(0..255)) \subseteq Piece
  BY <1>2, <1>3 DEF Unit, Piece
<1>5. us \in Seq(Piece)
  BY <1>1, <1>4
<1>6. \A i \in 1..Len(us) : us[i] \in Unit(Seq(0..255)) /\ IsPayload(us[i].payload)
  BY <1>1 DEF IsPacket
<1>7. \A i \in 1..Len(us) : us[i].code \in StartCodes /\ us[i].payload \in Seq(0..255)
  BY <1>6 DEF Unit
<1>8. \A s \in Seq(Nat) : IsPayload(s) => Len(s) \in Nat \ {0}
  BY DEF IsPayload
<1>9. QED
  BY <1>1, <1>2, <1>3, <1>5, <1>6, <1>7, <1>8

\* Where a unit is in its packet.
LEMMA UnitInPacket ==
    ASSUME NEW us, IsPacket(us), NEW i \in 1..Len(us)
    PROVE  LET p == Joined(us)
               code == us[i].code
               payload == us[i].payload
               at == CutAt(us, i - 1)
           IN /\ p \in Seq(Nat) /\ at \in Nat
              /\ CutAt(us, i) = at + Len(code) + Len(payload) /\ CutAt(us, i) <= Len(p)
              /\ \A k \in 1..Len(code) : p[at + k] = code[k]
              /\ \A k \in 1..Len(payload) : p[at + Len(code) + k] = payload[k]
              /\ SubSeq(p, at + Len(code) + 1, CutAt(us, i)) = payload
              /\ SubSeq(p, at + Len(code) + 1, Len(p)) = payload \o Joined(SubSeq(us, i + 1, Len(us)))
<1> DEFINE n == Len(us)
           c == us[i].code
           s == us[i].payload
           h == Joined(SubSeq(us, 1, i - 1))
           r == Joined(SubSeq(us, i + 1, n))
           p == Joined(us)
<1>1. us \in Seq(Piece) /\ n \in Nat /\ us[i] \in Piece /\ c \in Seq(Nat) /\ s \in Seq(Nat)
  BY PacketUnits
<1>2. SubSeq(us, 1, i - 1) \in Seq(Piece) /\ SubSeq(us, i + 1, n) \in Seq(Piece)
  BY <1>1
<1>3. SubSeq(us, 1, i) = Append(SubSeq(us, 1, i - 1), us[i])
  BY <1>1
<1>4. h \in Seq(Nat) /\ r \in Seq(Nat)
  BY <1>2, JoinedBytes
<1>5. Joined(SubSeq(us, 1, i)) = h \o (c \o s)
  BY <1>1, <1>2, <1>3, JoinedAppend
<1>6. p = Joined(SubSeq(us, 1, i)) \o r
  BY <1>1, JoinedSplit
<1>7. CutAt(us, i - 1) = Len(h) /\ CutAt(us, i) = Len(h \o (c \o s))
  BY <1>5 DEF CutAt
<1> HIDE DEF c, s, h, r, p
<1>8. p = (h \o c) \o (s \o r)
  <2>1. Regroups(h, c, s, r)
    <3>1. h \in Seq(Nat) /\ c \in Seq(Nat) /\ s \in Seq(Nat) /\ r \in Seq(Nat)
      BY <1>1, <1>4
    <3>2. QED
      BY <3>1, FourInARow
  <2>2. p = (h \o (c \o s)) \o r
    BY <1>5, <1>6, Zenon
  <2>3. QED
    BY <2>1, <2>2, Zenon DEF Regroups
<1>9. InARow(p, h, c, s, r)
  <2>1. InARow((h \o c) \o (s \o r), h, c, s, r)
    BY <1>1, <1>4, FourParts
  <2>2. QED
    BY <1>8, <2>1, Zenon
<1>10. Len(h \o (c \o s)) = Len(h) + Len(c) + Len(s)
  <2>1. c \o s \in Seq(Nat) /\ Len(c \o s) = Len(c) + Len(s)
    BY <1>1, TwoParts
  <2>2. Len(h \o (c \o s)) = Len(h) + Len(c \o s)
    BY <1>4, <2>1, TwoParts
  <2>3. QED
    BY <1>9, <2>1, <2>2 DEF InARow
<1>11. Len(h) + Len(c) + Len(s) <= Len(p)
  BY <1>9 DEF InARow
<1>12. QED
  BY <1>7, <1>9, <1>10, <1>11 DEF p, c, s, r, InARow

\* The units whose start code the search can see.
SeenUnits(us) == IF Visible(Last(us)) THEN Len(us) ELSE Len(us) - 1

\* Where the units are, as numbers only.
LEMMA CutsAscend ==
    ASSUME NEW us, IsPacket(us)
    PROVE  /\ Joined(us) \in Seq(Nat) /\ Len(Joined(us)) \in Nat /\ Len(us) \in Nat \ {0}
           /\ CutAt(us, 0) = 0 /\ CutAt(us, Len(us)) = Len(Joined(us))
           /\ \A i \in 1..Len(us) :
                  /\ CutAt(us, i - 1) \in Nat /\ CutAt(us, i) \in Nat
                  /\ PayloadAt(us, i) = CutAt(us, i - 1) + Len(us[i].code)
                  /\ CutAt(us, i) = PayloadAt(us, i) + Len(us[i].payload)
                  /\ Len(us[i].code) \in {3, 4} /\ Len(us[i].payload) \in Nat \ {0}
                  /\ CutAt(us, i) <= Len(Joined(us))
<1> DEFINE p == Joined(us)
           n == Len(us)
<1>1. us \in Seq(Piece) /\ n \in Nat \ {0}
  BY PacketUnits
<1>2. p \in Seq(Nat) /\ Len(p) \in Nat
  <2>1. p \in Seq(Nat)
    BY <1>1, JoinedBytes
  <2>2. QED
    BY <2>1, LenProperties
<1>3. CutAt(us, 0) = 0
  <2>1. SubSeq(us, 1, 0) = <<>>
    BY SubSeqEmpty
  <2>2. Joined(SubSeq(us, 1, 0)) = <<>>
    BY <2>1, JoinedNothing
  <2>3. QED
    BY <2>2 DEF CutAt
<1>4. CutAt(us, n) = Len(p)
  <2>1. SubSeq(us, 1, n) = us
    BY <1>1, SubSeqFull
  <2>2. QED
    BY <2>1, Zenon DEF CutAt
<1>5. ASSUME NEW i \in 1..n
      PROVE  /\ CutAt(us, i - 1) \in Nat /\ CutAt(us, i) \in Nat
             /\ PayloadAt(us, i) = CutAt(us, i - 1) + Len(us[i].code)
             /\ CutAt(us, i) = PayloadAt(us, i) + Len(us[i].payload)
             /\ Len(us[i].code) \in {3, 4} /\ Len(us[i].payload) \in Nat \ {0}
             /\ CutAt(us, i) <= Len(p)
  <2>1. /\ CutAt(us, i - 1) \in Nat
        /\ CutAt(us, i) = CutAt(us, i - 1) + Len(us[i].code) + Len(us[i].payload)
        /\ CutAt(us, i) <= Len(p)
    BY UnitInPacket
  <2>2. Len(us[i].code) \in {3, 4} /\ Len(us[i].payload) \in Nat \ {0}
    BY PacketUnits
  <2>3. PayloadAt(us, i) = CutAt(us, i - 1) + Len(us[i].code)
    <3>1. i # 0
      BY <1>1
    <3>2. QED
      BY <3>1 DEF PayloadAt
  <2>4. CutAt(us, i) = PayloadAt(us, i) + Len(us[i].payload) /\ CutAt(us, i) \in Nat
    BY <2>1, <2>2, <2>3
  <2>5. QED
    BY <2>1, <2>2, <2>3, <2>4
<1> HIDE DEF p, n
<1>6. QED
  BY <1>1, <1>2, <1>3, <1>4, <1>5 DEF p, n

\* Two cuts are apart by a code and a payload.
Apart(a, b, code, payload) == /\ a \in Nat /\ b \in Nat /\ b = a + code + payload
                              /\ code \in {3, 4} /\ payload \in Nat \ {0}

LEMMA ApartByFour == ASSUME NEW a, NEW b, NEW code, NEW payload, Apart(a, b, code, payload)
                     PROVE  /\ a \in Nat /\ b \in Nat /\ b >= a + 4
                            /\ a <= b - 5 <=> code + payload > 4
BY DEF Apart

\* There is a start code at the end of a unit, and the search sees it, unless it is that of a
\* last one that is too short.
LEMMA SeenCodes ==
    ASSUME NEW us, IsPacket(us), NEW i \in 0..Len(us)
    PROVE  /\ SeenUnits(us) \in 0..Len(us)
           /\ CutAt(us, i) <= Len(Joined(us)) - 5 <=> i < SeenUnits(us)
<1> DEFINE n == Len(us)
           L == Len(Joined(us))
           Between(j, k) == Apart(CutAt(us, j), CutAt(us, k), Len(us[k].code), Len(us[k].payload))
<1>1. /\ n \in Nat \ {0} /\ L \in Nat /\ CutAt(us, n) = L
      /\ \A k \in 1..n : Between(k - 1, k) /\ CutAt(us, k) <= L
  BY CutsAscend DEF Apart
<1>2. Visible(Last(us)) <=> Len(us[n].code) + Len(us[n].payload) > 4
  BY DEF Visible, Last
<1> HIDE DEF n, L, Between
<1>3. CASE i = n
  <2>1. CutAt(us, i) = L
    BY <1>1, <1>3
  <2>2. QED
    BY <1>1, <1>3, <2>1 DEF SeenUnits, n, L
<1>4. CASE i = n - 1
  <2>1. n \in 1..n
    BY <1>1
  <2>2. Between(i, n)
    BY <1>1, <1>4, <2>1
  <2>3. CutAt(us, i) <= L - 5 <=> Visible(Last(us))
    BY <1>1, <1>2, <2>2, ApartByFour DEF Between
  <2>4. QED
    BY <1>1, <1>4, <2>3 DEF SeenUnits, n, L
<1>5. CASE i < n - 1
  <2>1. i + 1 \in 1..n /\ i + 2 \in 1..n /\ i + 1 - 1 = i /\ i + 2 - 1 = i + 1
    BY <1>1, <1>5 DEF n
  <2>2. Between(i + 1 - 1, i + 1) /\ Between(i + 2 - 1, i + 2)
    BY <1>1, <2>1
  <2>3. Between(i, i + 1) /\ Between(i + 1, i + 2)
    BY <2>1, <2>2
  <2>4. CutAt(us, i) <= L - 5
    <3>1. /\ CutAt(us, i) \in Nat /\ CutAt(us, i + 1) \in Nat /\ CutAt(us, i + 2) \in Nat
          /\ CutAt(us, i + 1) >= CutAt(us, i) + 4 /\ CutAt(us, i + 2) >= CutAt(us, i + 1) + 4
      BY <2>3, ApartByFour DEF Between
    <3>2. L \in Nat /\ CutAt(us, i + 2) <= L
      BY <1>1, <2>1
    <3>3. QED
      BY <3>1, <3>2
  <2>5. i < SeenUnits(us) /\ SeenUnits(us) \in 0..n
    BY <1>1, <1>5 DEF SeenUnits, n
  <2>6. QED
    BY <2>4, <2>5 DEF n, L
<1>6. QED
  BY <1>1, <1>3, <1>4, <1>5 DEF n

LEMMA CodeIsFound ==
    ASSUME NEW us, IsPacket(us), NEW i \in 1..Len(us)
    PROVE  /\ StartCodeLength(Joined(us), CutAt(us, i - 1)) = Len(us[i].code)
           /\ Skip(Joined(us), CutAt(us, i - 1)) = 0
<1> DEFINE p == Joined(us)
           at == CutAt(us, i - 1)
           code == us[i].code
<1>1. at \in Nat /\ \A k \in 1..Len(code) : p[at + k] = code[k]
  BY UnitInPacket
<1>2. code \in StartCodes
  BY PacketUnits
<1> HIDE DEF p, at, code
<1>3. at + 1 + 1 = at + 2 /\ at + 2 + 1 = at + 3 /\ at + 3 + 1 = at + 4
  BY <1>1
<1>4. CASE code = <<0, 0, 1>>
  <2>1. Len(code) = 3 /\ code[1] = 0 /\ code[2] = 0 /\ code[3] = 1
    BY <1>4
  <2>2. 1 \in 1..Len(code) /\ 2 \in 1..Len(code) /\ 3 \in 1..Len(code)
    BY <2>1
  <2>3. p[at + 1] = 0 /\ p[at + 2] = 0 /\ p[at + 3] = 1
    BY <1>1, <2>1, <2>2
  <2>4. Byte(p, at) = 0 /\ Byte(p, at + 1) = 0 /\ Byte(p, at + 2) = 1
    BY <1>3, <2>3 DEF Byte
  <2>5. QED
    BY <2>1, <2>4 DEF Skip, StartCodeLength, p, at, code
<1>5. CASE code = <<0, 0, 0, 1>>
  <2>1. Len(code) = 4 /\ code[1] = 0 /\ code[2] = 0 /\ code[3] = 0 /\ code[4] = 1
    BY <1>5
  <2>2. 1 \in 1..Len(code) /\ 2 \in 1..Len(code) /\ 3 \in 1..Len(code) /\ 4 \in 1..Len(code)
    BY <2>1
  <2>3. p[at + 1] = 0 /\ p[at + 2] = 0 /\ p[at + 3] = 0 /\ p[at + 4] = 1
    BY <1>1, <2>1, <2>2
  <2>4. Byte(p, at) = 0 /\ Byte(p, at + 1) = 0 /\ Byte(p, at + 2) = 0 /\ Byte(p, at + 3) = 1
    BY <1>3, <2>3 DEF Byte
  <2>5. QED
    BY <2>1, <2>4 DEF Skip, StartCodeLength, p, at, code
<1>6. QED
  BY <1>2, <1>4, <1>5 DEF StartCodes

\* There is none inside a payload.
LEMMA NoCodeInside ==
    ASSUME NEW us, IsPacket(us), NEW i \in 1..Len(us),
           NEW q \in PayloadAt(us, i)..(CutAt(us, i) - 1)
    PROVE  Skip(Joined(us), q) # 0
<1> DEFINE p == Joined(us)
           at == PayloadAt(us, i)
           s == us[i].payload
           k == q - at + 1
<1>1. at \in Nat /\ CutAt(us, i) = at + Len(s) /\ Len(s) \in Nat \ {0}
  <2>1. /\ at = CutAt(us, i - 1) + Len(us[i].code) /\ CutAt(us, i - 1) \in Nat
        /\ Len(us[i].code) \in {3, 4}
        /\ CutAt(us, i) = at + Len(s) /\ Len(s) \in Nat \ {0}
    BY CutsAscend
  <2>2. QED
    BY <2>1
<1>2. \A j \in 1..Len(s) : p[at + j] = s[j]
  <2>1. \A j \in 1..Len(s) : p[CutAt(us, i - 1) + Len(us[i].code) + j] = s[j]
    BY UnitInPacket
  <2>2. at = CutAt(us, i - 1) + Len(us[i].code)
    BY CutsAscend
  <2>3. QED
    BY <2>1, <2>2
<1>3. IsPayload(s) /\ s \in Seq(Nat)
  BY PacketUnits
<1> HIDE DEF p, at, s
<1>4. k \in 1..Len(s) /\ at + k = q + 1 /\ q \in Nat
  BY <1>1 DEF at
<1> HIDE DEF k
<1>5. Byte(p, q) = s[k]
  BY <1>2, <1>4 DEF Byte
<1>6. k < Len(s) => Byte(p, q + 1) = s[k + 1]
  <2>1. k < Len(s) => k + 1 \in 1..Len(s) /\ at + (k + 1) = q + 1 + 1
    BY <1>1, <1>4
  <2>2. QED
    BY <1>2, <2>1 DEF Byte
<1>7. k < Len(s) - 1 => Byte(p, q + 2) = s[k + 2]
  <2>1. k < Len(s) - 1 => k + 2 \in 1..Len(s) /\ at + (k + 2) = q + 2 + 1
    BY <1>1, <1>4
  <2>2. QED
    BY <1>2, <2>1 DEF Byte
<1>8. CASE s[k] # 0
  BY <1>5, <1>8 DEF Skip, p
<1>9. CASE s[k] = 0 /\ k < Len(s) /\ s[k + 1] # 0
  BY <1>5, <1>6, <1>9 DEF Skip, p
<1>10. CASE s[k] = 0 /\ k < Len(s) /\ s[k + 1] = 0
  <2>1. s[Len(s)] # 0
    BY <1>3 DEF IsPayload
  <2>2. k + 1 # Len(s)
    BY <1>10, <2>1
  <2>3. k \in 1..(Len(s) - 2) /\ k < Len(s) - 1
    BY <1>1, <1>4, <1>10, <2>2
  <2>4. s[k + 2] > 1
    BY <1>3, <1>10, <2>3 DEF IsPayload
  <2>5. QED
    BY <1>5, <1>6, <1>7, <1>10, <2>3, <2>4 DEF Skip, p
<1>11. k < Len(s) \/ s[k] # 0
  BY <1>1, <1>3, <1>4 DEF IsPayload
<1>12. QED
  BY <1>8, <1>9, <1>10, <1>11

\* From the payload of a unit on, the search finds the next unit.
LEMMA NextCode ==
    ASSUME NEW us, IsPacket(us), NEW i \in 0..Len(us)
    PROVE  FirstCode(Joined(us), PayloadAt(us, i)) = IF i < SeenUnits(us) THEN CutAt(us, i) ELSE -1
<1> DEFINE p == Joined(us)
           from == PayloadAt(us, i)
           to == CutAt(us, i)
<1>1. p \in Seq(Nat) /\ Len(p) \in Nat /\ Len(us) \in Nat \ {0}
  BY CutsAscend
<1>2. from \in Nat /\ to \in Nat /\ from <= to
  <2>1. CASE i = 0
    <3>1. from = 0 /\ to = 0
      BY <2>1, CutsAscend DEF PayloadAt
    <3>2. QED
      BY <3>1
  <2>2. CASE i # 0
    <3>1. i \in 1..Len(us)
      BY <2>2
    <3>2. /\ from = CutAt(us, i - 1) + Len(us[i].code) /\ CutAt(us, i - 1) \in Nat /\ to \in Nat
          /\ to = from + Len(us[i].payload)
          /\ Len(us[i].code) \in {3, 4} /\ Len(us[i].payload) \in Nat \ {0}
      BY <3>1, CutsAscend
    <3> HIDE DEF from, to
    <3>3. QED
      BY <3>2
  <2>3. QED
    BY <2>1, <2>2
<1>3. \A q \in from..(to - 1) : Skip(p, q) # 0
  <2>1. CASE i = 0
    <3>1. from = 0 /\ to = 0
      BY <2>1, CutsAscend DEF PayloadAt
    <3>2. QED
      BY <3>1
  <2>2. CASE i # 0
    <3>1. i \in 1..Len(us)
      BY <2>2
    <3>2. QED
      BY <3>1, NoCodeInside
  <2>3. QED
    BY <2>1, <2>2
<1>4. to <= Len(p) - 5 <=> i < SeenUnits(us)
  BY SeenCodes
<1>5. SeenUnits(us) \in 0..Len(us)
  BY SeenCodes
<1>6. CASE i < SeenUnits(us)
  <2>1. i + 1 \in 1..Len(us) /\ i + 1 - 1 = i
    BY <1>1, <1>5, <1>6
  <2>2. Skip(p, CutAt(us, i + 1 - 1)) = 0
    BY <2>1, CodeIsFound
  <2>3. Skip(p, to) = 0
    BY <2>1, <2>2
  <2> HIDE DEF p, from, to
  <2>4. to \in from..(Len(p) - 5)
    BY <1>1, <1>2, <1>4, <1>6
  <2>5. FirstCode(p, from) = to
    BY <1>1, <1>2, <1>3, <2>3, <2>4, FirstCodeIsFirst
  <2>6. QED
    BY <1>6, <2>5 DEF p, from, to
<1>7. CASE ~(i < SeenUnits(us))
  <2> HIDE DEF p, from, to
  <2>1. \A q \in from..(Len(p) - 5) : q \in from..(to - 1)
    BY <1>1, <1>2, <1>4, <1>7
  <2>2. \A q \in from..(Len(p) - 5) : Skip(p, q) # 0
    BY <1>3, <2>1
  <2>3. FirstCode(p, from) = -1
    BY <2>2 DEF FirstCode
  <2>4. QED
    BY <1>7, <2>3 DEF p, from
<1>8. QED
  BY <1>6, <1>7

(* The loop around the search: the positions are the ends of the units before. *)

\* One step of the loop: the start code found, before what is found from its payload on.
Found(p, at, rest) ==
    IF NextNaluPosition(p)[at] < 0 THEN <<>> ELSE <<NextNaluPosition(p)[at]>> \o rest
After(p, at) == NextNaluPosition(p)[at] + StartCodeLength(p, NextNaluPosition(p)[at])
Collects(f, p, first) == f = [at \in first..Len(p) |-> Found(p, at, f[After(p, at)])]

\* The loop goes on to the right.
LEMMA LoopAdvances ==
    ASSUME NEW p \in Seq(Nat), NEW at \in 0..Len(p)
    PROVE  \/ After(p, at) \in (at + 1)..Len(p)
           \/ \A rest : Found(p, at, rest) = <<>>
<1> DEFINE q == NextNaluPosition(p)[at]
<1>1. Len(p) \in Nat /\ at \in Nat
  OBVIOUS
<1>2. q = FirstCode(p, at)
  <2>1. at \in 0..(Len(p) + 2)
    BY <1>1
  <2>2. QED
    BY <2>1, SearchIsComplete
<1> HIDE DEF q
<1>3. q \in at..(Len(p) - 5) \/ q = -1
  BY <1>1, <1>2, FirstCodeFound
<1>4. CASE q = -1
  <2>1. q < 0
    BY <1>4
  <2>2. QED
    BY <2>1 DEF Found, q
<1>5. CASE q \in at..(Len(p) - 5)
  <2>1. StartCodeLength(p, q) \in {3, 4}
    BY DEF StartCodeLength
  <2>2. After(p, at) = q + StartCodeLength(p, q)
    BY DEF After, q
  <2>3. q + StartCodeLength(p, q) \in (at + 1)..Len(p)
    BY <1>1, <1>5, <2>1
  <2>4. QED
    BY <2>2, <2>3
<1>6. QED
  BY <1>3, <1>4, <1>5

\* So the list of positions exists.
LEMMA CollectionExists ==
    ASSUME NEW p \in Seq(Nat)
    PROVE  \E f : Collects(f, p, 0)
<1> DEFINE n == Len(p)
           T == {i \in 0..n : \E f : Collects(f, p, i)}
<1>1. n \in Nat
  OBVIOUS
<1>2. ASSUME NEW i \in 0..n, \A j \in (i + 1)..n : j \in T PROVE i \in T
  <2>1. PICK f : i = n \/ Collects(f, p, i + 1)
    <3>1. CASE i = n
      BY <3>1
    <3>2. CASE i # n
      <4>1. i + 1 \in (i + 1)..n
        BY <1>1, <3>2
      <4>2. i + 1 \in T
        BY <1>2, <4>1
      <4>3. QED
        BY <4>2
    <3>3. QED
      BY <3>1, <3>2
  <2> DEFINE g == [at \in i..n |-> IF at = i THEN Found(p, i, f[After(p, i)]) ELSE f[at]]
  <2>2. ASSUME NEW at \in i..n PROVE Found(p, at, g[After(p, at)]) = Found(p, at, f[After(p, at)])
    <3>1. at \in 0..Len(p) /\ at \in Nat
      BY <1>1
    <3>2. CASE After(p, at) \in (at + 1)..Len(p)
      <4>1. After(p, at) \in i..n /\ After(p, at) # i
        BY <1>1, <3>1, <3>2
      <4>2. g[After(p, at)] = f[After(p, at)]
        BY <4>1
      <4>3. QED
        BY <4>2
    <3>3. CASE \A rest : Found(p, at, rest) = <<>>
      BY <3>3
    <3>4. QED
      BY <3>1, <3>2, <3>3, LoopAdvances
  <2>3. ASSUME NEW at \in i..n PROVE g[at] = Found(p, at, f[After(p, at)])
    <3>1. CASE at = i
      BY <3>1
    <3>2. CASE at # i
      <4>1. i # n /\ at \in (i + 1)..n
        BY <1>1, <3>2
      <4>2. f[at] = Found(p, at, f[After(p, at)])
        <5>1. Collects(f, p, i + 1)
          BY <2>1, <4>1
        <5>2. QED
          BY <4>1, <5>1 DEF Collects
      <4>3. g[at] = f[at]
        BY <3>2
      <4>4. QED
        BY <4>2, <4>3
    <3>3. QED
      BY <3>1, <3>2
  <2>4. g = [at \in i..n |-> g[at]]
    OBVIOUS
  <2> HIDE DEF g
  <2>5. \A at \in i..n : g[at] = Found(p, at, g[After(p, at)])
    BY <2>2, <2>3
  <2>6. Collects(g, p, i)
    BY <2>4, <2>5 DEF Collects
  <2>7. QED
    BY <2>6
<1> HIDE DEF T
<1>3. 0..n \subseteq T
  BY <1>1, <1>2, Downward
<1>4. 0 \in T
  BY <1>1, <1>3
<1>5. QED
  BY <1>4 DEF T

\* The ends of units before one that is seen, from a unit on.
CutsFrom(us, i) == [j \in 1..(SeenUnits(us) - i) |-> CutAt(us, i + j - 1)]

LEMMA CutsRecursive ==
    ASSUME NEW us, IsPacket(us), NEW i \in 0..Len(us)
    PROVE  /\ i < SeenUnits(us) => CutsFrom(us, i) = <<CutAt(us, i)>> \o CutsFrom(us, i + 1)
           /\ ~(i < SeenUnits(us)) => CutsFrom(us, i) = <<>>
<1> DEFINE n == SeenUnits(us)
           c(k) == CutAt(us, k)
<1>1. n \in 0..Len(us) /\ Len(us) \in Nat
  BY SeenCodes, CutsAscend
<1>2. \A k \in 0..Len(us) : c(k) \in Nat
  <2>1. c(0) \in Nat
    BY CutsAscend
  <2>2. \A k \in 1..Len(us) : c(k) \in Nat
    BY CutsAscend
  <2>3. QED
    BY <1>1, <2>1, <2>2
<1> HIDE DEF n, c
<1>3. ASSUME i < n PROVE CutsFrom(us, i) = <<c(i)>> \o CutsFrom(us, i + 1)
  <2> DEFINE one == <<c(i)>>
             s == CutsFrom(us, i)
             r == CutsFrom(us, i + 1)
  <2>1. s \in Seq(Nat) /\ Len(s) = n - i /\ \A j \in 1..(n - i) : s[j] = c(i + j - 1)
    <3>1. \A j \in 1..(n - i) : i + j - 1 \in 0..Len(us)
      BY <1>1
    <3>2. n - i \in Nat
      BY <1>1, <1>3
    <3>3. QED
      BY <1>2, <3>1, <3>2 DEF CutsFrom, c, n
  <2>2. r \in Seq(Nat) /\ Len(r) = n - (i + 1) /\ \A j \in 1..(n - (i + 1)) : r[j] = c(i + 1 + j - 1)
    <3>1. \A j \in 1..(n - (i + 1)) : i + 1 + j - 1 \in 0..Len(us)
      BY <1>1
    <3>2. n - (i + 1) \in Nat
      BY <1>1, <1>3
    <3>3. r = [j \in 1..(n - (i + 1)) |-> c(i + 1 + j - 1)]
      BY DEF CutsFrom, c, n
    <3>4. \A j \in 1..(n - (i + 1)) : c(i + 1 + j - 1) \in Nat
      BY <1>2, <3>1
    <3> HIDE DEF r
    <3>5. QED
      BY <3>2, <3>3, <3>4
  <2>3. one \in Seq(Nat) /\ Len(one) = 1 /\ one[1] = c(i)
    BY <1>2
  <2> HIDE DEF one, s, r
  <2>4. /\ one \o r \in Seq(Nat) /\ Len(one \o r) = 1 + Len(r)
        /\ \A k \in 1..1 : (one \o r)[k] = one[k]
        /\ \A k \in 1..Len(r) : (one \o r)[1 + k] = r[k]
    <3>1. one \in Seq(Nat) /\ r \in Seq(Nat)
      BY <2>2, <2>3
    <3>2. /\ one \o r \in Seq(Nat) /\ Len(one \o r) = Len(one) + Len(r)
          /\ \A k \in 1..Len(one) : (one \o r)[k] = one[k]
          /\ \A k \in 1..Len(r) : (one \o r)[Len(one) + k] = r[k]
      BY <3>1, TwoParts
    <3>3. Len(one) = 1
      BY <2>3
    <3>4. QED
      BY <3>2, <3>3, Zenon
  <2>5. ASSUME NEW j \in 1..Len(s) PROVE s[j] = (one \o r)[j]
    <3>1. CASE j = 1
      <4>1. s[j] = c(i) /\ (one \o r)[j] = c(i)
        <5>1. i + 1 - 1 = i /\ 1 \in 1..(n - i) /\ 1 \in 1..1
          BY <1>1, <1>3
        <5>2. QED
          BY <2>1, <2>3, <2>4, <3>1, <5>1
      <4>2. QED
        BY <4>1
    <3>2. CASE j # 1
      <4>1. j - 1 \in 1..Len(r) /\ j - 1 \in 1..(n - (i + 1)) /\ 1 + (j - 1) = j
            /\ i + 1 + (j - 1) - 1 = i + j - 1 /\ j \in 1..(n - i)
        BY <1>1, <2>1, <2>2, <3>2
      <4>2. (one \o r)[j] = r[j - 1]
        BY <2>4, <4>1
      <4>3. r[j - 1] = c(i + j - 1)
        BY <2>2, <4>1
      <4>4. QED
        BY <2>1, <4>1, <4>2, <4>3
    <3>3. QED
      BY <3>1, <3>2
  <2>6. Len(s) = Len(one \o r)
    BY <1>1, <2>1, <2>2, <2>4
  <2>7. s = one \o r
    BY <2>1, <2>4, <2>5, <2>6, SeqEqual
  <2>8. QED
    BY <2>7 DEF one, s, r
<1>4. ASSUME ~(i < n) PROVE CutsFrom(us, i) = <<>>
  <2>1. 1..(n - i) = {}
    BY <1>1, <1>4
  <2>2. QED
    BY <2>1 DEF CutsFrom, n
<1>5. QED
  BY <1>3, <1>4 DEF n, c

\* From the payload of a unit on, the loop finds all units that follow.
LEMMA LoopFindsUnits ==
    ASSUME NEW us, IsPacket(us), NEW f, Collects(f, Joined(us), 0)
    PROVE  f[0] = CutsFrom(us, 0)
<1> DEFINE p == Joined(us)
           n == Len(us)
           T == {i \in 0..n : f[PayloadAt(us, i)] = CutsFrom(us, i)}
<1>1. p \in Seq(Nat) /\ Len(p) \in Nat /\ n \in Nat
  BY CutsAscend
<1>2. \A i \in 0..n : PayloadAt(us, i) \in 0..Len(p)
  <2>1. PayloadAt(us, 0) = 0
    BY DEF PayloadAt
  <2>2. ASSUME NEW i \in 1..n PROVE PayloadAt(us, i) \in 0..Len(p)
    <3>1. /\ CutAt(us, i - 1) \in Nat /\ PayloadAt(us, i) = CutAt(us, i - 1) + Len(us[i].code)
          /\ CutAt(us, i) = PayloadAt(us, i) + Len(us[i].payload) /\ CutAt(us, i) <= Len(p)
          /\ Len(us[i].code) \in {3, 4} /\ Len(us[i].payload) \in Nat \ {0}
      BY CutsAscend
    <3> HIDE DEF p
    <3>2. QED
      BY <1>1, <3>1
  <2>3. \A i \in 0..n : i = 0 \/ i \in 1..n
    BY <1>1
  <2>4. QED
    BY <1>1, <2>1, <2>2, <2>3
<1>3. ASSUME NEW i \in 0..n, \A j \in (i + 1)..n : j \in T PROVE i \in T
  <2> DEFINE at == PayloadAt(us, i)
  <2>1. at \in 0..Len(p) /\ at \in 0..(Len(p) + 2)
    BY <1>1, <1>2
  <2>2. NextNaluPosition(p)[at] = IF i < SeenUnits(us) THEN CutAt(us, i) ELSE -1
    BY <1>1, <2>1, SearchIsComplete, NextCode
  <2>3. f[at] = Found(p, at, f[After(p, at)])
    BY <2>1 DEF Collects
  <2> HIDE DEF p, at
  <2>4. CASE i < SeenUnits(us)
    <3>1. SeenUnits(us) \in 0..n
      BY SeenCodes
    <3>2. i + 1 \in 1..n /\ i + 1 \in (i + 1)..n /\ i + 1 - 1 = i
      BY <1>1, <2>4, <3>1
    <3>3. /\ CutAt(us, i) \in Nat
          /\ PayloadAt(us, i + 1) = CutAt(us, i) + Len(us[i + 1].code)
      <4>1. /\ CutAt(us, i + 1 - 1) \in Nat
            /\ PayloadAt(us, i + 1) = CutAt(us, i + 1 - 1) + Len(us[i + 1].code)
        <5> DEFINE k == i + 1
        <5>1. k \in 1..n
          BY <3>2
        <5> HIDE DEF k
        <5>2. CutAt(us, k - 1) \in Nat /\ PayloadAt(us, k) = CutAt(us, k - 1) + Len(us[k].code)
          BY <5>1, CutsAscend
        <5>3. QED
          BY <5>2 DEF k
      <4>2. QED
        BY <3>2, <4>1
    <3>4. StartCodeLength(p, CutAt(us, i)) = Len(us[i + 1].code)
      <4>1. StartCodeLength(Joined(us), CutAt(us, i + 1 - 1)) = Len(us[i + 1].code)
        BY <3>2, CodeIsFound
      <4>2. QED
        BY <3>2, <4>1 DEF p
    <3>5. After(p, at) = PayloadAt(us, i + 1)
      BY <2>2, <2>4, <3>3, <3>4 DEF After
    <3>6. ~(CutAt(us, i) < 0)
      BY <3>3
    <3>7. f[at] = <<CutAt(us, i)>> \o f[PayloadAt(us, i + 1)]
      BY <2>2, <2>3, <2>4, <3>5, <3>6 DEF Found
    <3>8. f[PayloadAt(us, i + 1)] = CutsFrom(us, i + 1)
      BY <1>3, <3>2
    <3>9. CutsFrom(us, i) = <<CutAt(us, i)>> \o CutsFrom(us, i + 1)
      BY <2>4, CutsRecursive
    <3>10. QED
      BY <3>7, <3>8, <3>9 DEF at
  <2>5. CASE ~(i < SeenUnits(us))
    <3>1. NextNaluPosition(p)[at] < 0
      BY <2>2, <2>5
    <3>2. f[at] = <<>>
      BY <2>3, <3>1 DEF Found
    <3>3. CutsFrom(us, i) = <<>>
      BY <2>5, CutsRecursive
    <3>4. QED
      BY <3>2, <3>3 DEF at
  <2>6. QED
    BY <2>4, <2>5
<1> HIDE DEF T
<1>4. 0..n \subseteq T
  BY <1>1, <1>3, Downward
<1>5. 0 \in T
  BY <1>1, <1>4
<1>6. QED
  BY <1>5 DEF T, PayloadAt

\* The units that get a fragment of their own.
OwnUnits(us) == IF SeenUnits(us) <= MaxNalus THEN SeenUnits(us) ELSE MaxNalus

LEMMA PositionsFound ==
    ASSUME NEW us, IsPacket(us)
    PROVE  /\ OwnUnits(us) \in 0..Len(us)
           /\ Len(Positions(Joined(us))) = OwnUnits(us)
           /\ \A j \in 1..OwnUnits(us) : Positions(Joined(us))[j] = CutAt(us, j - 1)
<1> DEFINE p == Joined(us)
           f == CHOOSE f : Collects(f, p, 0)
           n == SeenUnits(us)
           m == OwnUnits(us)
           s == CutsFrom(us, 0)
<1>1. p \in Seq(Nat) /\ Len(us) \in Nat /\ n \in 0..Len(us)
  <2>1. 0 \in 0..Len(us)
    BY CutsAscend
  <2>2. QED
    BY <2>1, CutsAscend, SeenCodes
<1>2. Collects(f, p, 0)
  BY <1>1, CollectionExists
<1>3. Positions(p) = IF Len(f[0]) <= MaxNalus THEN f[0] ELSE SubSeq(f[0], 1, MaxNalus)
  BY Zenon DEF Positions, Collects, Found, After
<1> HIDE DEF f
<1>4. f[0] = s
  BY <1>2, LoopFindsUnits
<1>5. s \in Seq(Nat) /\ Len(s) = n /\ \A j \in 1..n : s[j] = CutAt(us, j - 1)
  <2>1. s = [j \in 1..n |-> CutAt(us, j - 1)]
    <3>1. n - 0 = n /\ \A j \in 1..n : 0 + j - 1 = j - 1
      BY <1>1
    <3>2. s = [j \in 1..(n - 0) |-> CutAt(us, 0 + j - 1)]
      BY DEF CutsFrom
    <3> HIDE DEF s, n
    <3>3. QED
      BY <3>1, <3>2
  <2>2. \A j \in 1..n : j \in 1..Len(us)
    BY <1>1
  <2>3. \A j \in 1..n : CutAt(us, j - 1) \in Nat
    BY <2>2, CutsAscend
  <2> HIDE DEF s, n
  <2>4. n \in Nat
    BY <1>1
  <2>5. QED
    BY <2>1, <2>3, <2>4
<1>6. MaxNalus \in Nat \ {0}
  BY NalAssumption
<1>7. m = (IF n <= MaxNalus THEN n ELSE MaxNalus)
  BY DEF OwnUnits
<1> HIDE DEF p, s, n, m
<1>8. m \in 0..Len(us) /\ m <= n
  BY <1>1, <1>6, <1>7
<1>9. Positions(p) = IF n <= MaxNalus THEN s ELSE SubSeq(s, 1, MaxNalus)
  BY <1>3, <1>4, <1>5, Zenon
<1>10. CASE n <= MaxNalus
  BY <1>5, <1>7, <1>8, <1>9, <1>10 DEF p, m
<1>11. CASE ~(n <= MaxNalus)
  <2>1. m = MaxNalus /\ Positions(p) = SubSeq(s, 1, m)
    BY <1>7, <1>9, <1>11
  <2>2. \A j \in 1..m : j \in 1..n
    BY <1>1, <1>8
  <2>3. \A j \in 1..m : s[j] \in Nat
    BY <1>5, <2>2
  <2>4. /\ Len(SubSeq(s, 1, m)) = m /\ \A j \in 1..m : SubSeq(s, 1, m)[j] = s[j]
    BY <1>1, <1>5, <1>8
  <2>5. \A j \in 1..m : SubSeq(s, 1, m)[j] = CutAt(us, j - 1)
    BY <1>5, <2>2, <2>4
  <2>6. QED
    BY <1>8, <2>1, <2>4, <2>5 DEF p, m
<1>12. QED
  BY <1>10, <1>11

\* Every packet is cut into its units, whatever their number, their sizes and their bytes: a
\* fragment has the payload of a unit, and the last one what the search cannot see besides.
THEOREM PacketIsCut ==
    ASSUME NEW us, IsPacket(us)
    PROVE  Fragments(Joined(us)) = Expected(us)
<1> DEFINE p == Joined(us)
           m == OwnUnits(us)
           at == Positions(p)
           offset(i) == at[i] + StartCodeLength(p, at[i])
           end(i) == IF i = Len(at) THEN Len(p) ELSE at[i + 1]
           rest(i) == Joined(SubSeq(us, i + 1, Len(us)))
           unit(i) == IF i < m THEN us[i].payload ELSE us[i].payload \o rest(m)
<1>1. /\ m \in 0..Len(us) /\ Len(at) = m /\ Len(us) \in Nat
      /\ \A j \in 1..m : at[j] = CutAt(us, j - 1)
  BY PositionsFound, CutsAscend
<1>2. Fragments(p) = [i \in 1..m |-> SubSeq(p, offset(i) + 1, end(i))]
  BY <1>1, Zenon DEF Fragments
<1>3. Expected(us) = [i \in 1..m |-> unit(i)]
  BY Zenon DEF Expected, OwnUnits, SeenUnits
<1>4. ASSUME NEW i \in 1..m PROVE SubSeq(p, offset(i) + 1, end(i)) = unit(i)
  <2> HIDE DEF p, m, at
  <2>1. i \in 1..Len(us) /\ i \in Nat
    BY <1>1
  <2>2. at[i] = CutAt(us, i - 1)
    BY <1>1
  <2>3. offset(i) = CutAt(us, i - 1) + Len(us[i].code)
    <3>1. StartCodeLength(p, CutAt(us, i - 1)) = Len(us[i].code)
      BY <2>1, CodeIsFound DEF p
    <3>2. QED
      BY <2>2, <3>1
  <2>4. /\ SubSeq(p, offset(i) + 1, CutAt(us, i)) = us[i].payload
        /\ SubSeq(p, offset(i) + 1, Len(p)) = us[i].payload \o rest(i)
    <3>1. LET first == CutAt(us, i - 1) + Len(us[i].code) + 1
          IN /\ SubSeq(p, first, CutAt(us, i)) = us[i].payload
             /\ SubSeq(p, first, Len(p)) = us[i].payload \o rest(i)
      BY <2>1, UnitInPacket DEF p
    <3> HIDE DEF offset, rest
    <3>2. QED
      BY <2>3, <3>1
  <2> HIDE DEF offset
  <2>5. CASE i < m
    <3>1. i + 1 \in 1..m /\ i + 1 - 1 = i /\ i # Len(at)
      BY <1>1, <2>1, <2>5
    <3>2. end(i) = CutAt(us, i)
      BY <1>1, <3>1
    <3>3. unit(i) = us[i].payload
      BY <2>5
    <3>4. QED
      BY <2>4, <3>2, <3>3
  <2>6. CASE i = m
    <3>1. end(i) = Len(p)
      BY <1>1, <2>6
    <3>2. ~(i < m)
      BY <2>1, <2>6
    <3>3. unit(i) = us[i].payload \o rest(i)
      BY <2>6, <3>2
    <3>4. QED
      BY <2>4, <3>1, <3>3
  <2>7. i < m \/ i = m
    BY <1>1, <2>1
  <2>8. QED
    BY <2>5, <2>6, <2>7
<1>5. Fragments(p) = Expected(us)
  <2> HIDE DEF p, m, at, offset, end, unit
  <2>1. QED
    BY <1>2, <1>3, <1>4
<1>6. QED
  BY <1>5 DEF p

\* The fragments of the last image are those of the packets of the encoder.
HeaderInv == encoder # NoCodec => /\ encoder.shape \in Shape
                                  /\ encoder.header \in {<<>>, Header(encoder)}

\* No call changes the codec or the shape, and Encode alone the header.
LEMMA HeaderStep == EncodingInv /\ HeaderInv /\ [CodecNext]_codecVars => HeaderInv'
<1> SUFFICES ASSUME EncodingInv, HeaderInv, [CodecNext]_codecVars PROVE HeaderInv'
  OBVIOUS
<1>1. CASE encoder' = encoder
  BY <1>1 DEF HeaderInv, Header
<1>2. CASE encoder' # encoder
  <2>1. EncoderCall /\ encoder # NoCodec
    BY <1>2 DEF CodecNext, codecVars, EncoderCall
  <2>2. IsEncoder(encoder) /\ IsEncoder(Released(encoder))
        /\ encoder.shape \in Shape /\ encoder.header \in {<<>>, Header(encoder)}
    BY <2>1, ReleasedEncoder DEF EncodingInv, HeaderInv
  <2>3. /\ Released(encoder).codec = encoder.codec /\ Released(encoder).shape = encoder.shape
        /\ Released(encoder).header = encoder.header
    BY <2>2 DEF IsEncoder, Released
  <2>4. /\ encoder'.codec = encoder.codec /\ encoder'.shape = encoder.shape
        /\ encoder'.header \in {encoder.header, Header(encoder)}
    <3>1. CASE InitEncode
      BY <1>2, <2>2, <2>3, <3>1 DEF InitEncode, IsEncoder
    <3>2. CASE InitEncodeFails \/ Release
      BY <2>3, <3>2 DEF InitEncodeFails, Release
    <3>3. CASE RegisterEncodeCompleteCallback
      BY <2>2, <3>3 DEF RegisterEncodeCompleteCallback, IsEncoder
    <3>4. CASE EncodeNothing
      BY <2>2, <3>4 DEF EncodeNothing, IsEncoder
    <3>5. CASE EncodeReleases
      BY <2>2, <2>3, <3>5 DEF EncodeReleases, IsEncoder
    <3>6. ASSUME NEW n \in 0..(MaxDelay + 1), Encode(n)
          PROVE  /\ encoder'.codec = encoder.codec /\ encoder'.shape = encoder.shape
                 /\ encoder'.header \in {encoder.header, Header(encoder)}
      BY <2>2, <3>6 DEF Encode, IsEncoder
    <3>7. QED
      BY <1>2, <2>1, <3>1, <3>2, <3>3, <3>4, <3>5, <3>6 DEF EncoderCall, SetRates
  <2>5. Header(encoder)' = Header(encoder)
    BY <2>4 DEF Header
  <2>6. QED
    BY <2>2, <2>4, <2>5 DEF HeaderInv
<1>3. QED
  BY <1>1, <1>2

LEMMA InitHeader == CodecInit => HeaderInv
<1> SUFFICES ASSUME CodecInit, encoder # NoCodec
             PROVE  encoder.shape \in Shape /\ encoder.header = <<>>
  BY DEF HeaderInv
<1>1. PICK platform \in Platforms, hardware \in Hardware, codec \in CodecType, shape \in Shape :
          encoder = NewEncoder(platform, hardware, codec, shape)
  BY DEF CodecInit, CreatedEncoder, CreatedDecoder
<1>2. QED
  BY <1>1 DEF NewEncoder

\* The fragments of every image are the NAL units of its packet, for any units that the
\* standards allow.
THEOREM FragmentsCorrect == CodecSpec => []FragmentsAreUnits
<1>1. HeaderInv => FragmentsAreUnits
  <2> SUFFICES ASSUME HeaderInv, encoder # NoCodec, encoder.header # <<>>
               PROVE  encoder.header = IF HasUnits(encoder.codec) THEN Expected(encoder.shape)
                                                                  ELSE <<Joined(encoder.shape)>>
    BY DEF FragmentsAreUnits
  <2>1. encoder.header = Header(encoder) /\ IsPacket(encoder.shape)
    BY ShapeAssumption DEF HeaderInv
  <2>2. Fragments(Joined(encoder.shape)) = Expected(encoder.shape)
    BY <2>1, PacketIsCut
  <2>3. QED
    BY <2>1, <2>2 DEF Header
<1>2. QED
  BY <1>1, InitHeader, HeaderStep, EncodingCorrect, PTL DEF CodecSpec
-----------------------------------------------------------------------------
(* FFmpegVideoDecoder *)

FrameRecord == [picture : Nat, timestamp : Nat, first : Nat]

IsDecoder(d) ==
    d \in [hardware : Hardware, layout : Layout, delays : BOOLEAN,
           context : {"none", "unopened", "open"}, inside : Seq(Nat), callback : BOOLEAN,
           packets : Nat, first : Nat, delivered : Seq(FrameRecord)]

\* Frames with a picture of their own context and not from a later packet, delivered in
\* order and before those inside; of the packet that was given, if none is kept back.
Decoded(frames, inside, given, delays) ==
    \A k \in 1..Len(frames) :
        /\ frames[k].first <= frames[k].picture /\ frames[k].picture <= frames[k].timestamp
        /\ ~delays => frames[k].picture = frames[k].timestamp
        /\ frames[k].picture <= given
        /\ Before(frames[k].picture, inside)
        /\ \A l \in 1..Len(frames) : l < k => frames[l].picture < frames[k].picture

DecoderOrder(d) == /\ Ordered(d.inside, d.first, d.packets)
                   /\ ~d.delays => d.inside = <<>>
                   /\ d.layout # "other" => Decoded(d.delivered, d.inside, d.packets, d.delays)

DecodingInv == decoder # NoDecoder => IsDecoder(decoder) /\ DecoderTypeOK /\ DecoderOrder(decoder)

\* A new decoder has no context.
LEMMA InitDecoding == CodecInit => DecodingInv
<1> SUFFICES ASSUME CodecInit, decoder # NoDecoder
             PROVE  IsDecoder(decoder) /\ DecoderTypeOK /\ DecoderOrder(decoder)
  BY DEF DecodingInv
<1>1. PICK hardware \in Hardware, codec \in CodecType, layout \in Layout, delays \in BOOLEAN :
          LET created == CreateVideoDecoder([Default EXCEPT !.hardware = hardware], codec)
          IN decoder = NewDecoder(created.hardware, layout, delays)
  BY DEF CodecInit, CreatedEncoder, CreatedDecoder
<1>2. [Default EXCEPT !.hardware = hardware].hardware = hardware /\ "none" \in Hardware
  BY DEF Default, Hardware
<1>3. CreateVideoDecoder([Default EXCEPT !.hardware = hardware], codec).hardware \in Hardware
  BY <1>2 DEF CreateVideoDecoder
<1>4. <<>> \in Seq(Nat) /\ <<>> \in Seq(FrameRecord) /\ Len(<<>>) = 0
  OBVIOUS
<1>5. IsDecoder(decoder)
  BY <1>1, <1>3, <1>4 DEF NewDecoder, IsDecoder
<1>6. /\ decoder.inside = <<>> /\ decoder.delivered = <<>> /\ decoder.first = 1
      /\ decoder.packets = 0 /\ decoder.context = "none"
  BY <1>1 DEF NewDecoder
<1>7. DecoderTypeOK
  BY <1>4, <1>5, <1>6, DecoderAssumption DEF DecoderTypeOK, IsDecoder
<1>8. DecoderOrder(decoder)
  BY <1>4, <1>6 DEF DecoderOrder, Ordered, Decoded
<1>9. QED
  BY <1>5, <1>7, <1>8

\* A call that releases the context, and may make another.
LEMMA ReleasingCall ==
    ASSUME decoder # NoDecoder, DecodingInv,
           InitDecode \/ InitDecodeFails \/ ReleaseDecoder, decoder' # decoder
    PROVE  DecodingInv'
<1>1. IsDecoder(decoder) /\ DecoderTypeOK /\ DecoderOrder(decoder)
  BY DEF DecodingInv
<1>2. /\ decoder.packets \in Nat /\ decoder.first \in Nat
      /\ decoder.first <= decoder.packets + 1
      /\ Arrived = decoder.packets + 1 /\ Arrived \in Nat
      /\ <<>> \in Seq(Nat) /\ Len(<<>>) = 0
  BY <1>1 DEF IsDecoder, DecoderOrder, Ordered, Arrived
<1> DEFINE r == ReleasedD(decoder)
<1>3. /\ IsDecoder(r) /\ r.inside = <<>> /\ r.delivered = decoder.delivered
      /\ r.packets = decoder.packets /\ r.first = decoder.first
      /\ r.layout = decoder.layout /\ r.delays = decoder.delays
  BY <1>1, <1>2 DEF ReleasedD, IsDecoder
<1>4. \/ decoder' = r
      \/ decoder' = [r EXCEPT !.context = "open", !.first = Arrived]
      \/ decoder' = [r EXCEPT !.context = "unopened"]
  BY DEF InitDecode, InitDecodeFails, ReleaseDecoder
<1> HIDE DEF r
<1>5. /\ IsDecoder(decoder')
      /\ decoder'.inside = <<>> /\ decoder'.delivered = decoder.delivered
      /\ decoder'.packets = decoder.packets /\ decoder'.first <= decoder.packets + 1
      /\ decoder'.layout = decoder.layout /\ decoder'.delays = decoder.delays
  <2>1. CASE decoder' = r
    BY <1>2, <1>3, <2>1
  <2>2. CASE decoder' = [r EXCEPT !.context = "open", !.first = Arrived]
    <3>1. IsDecoder(decoder')
      BY <1>2, <1>3, <2>2 DEF IsDecoder
    <3>2. QED
      BY <1>2, <1>3, <2>2, <3>1 DEF IsDecoder
  <2>3. CASE decoder' = [r EXCEPT !.context = "unopened"]
    BY <1>2, <1>3, <2>3 DEF IsDecoder
  <2>4. QED
    BY <1>4, <2>1, <2>2, <2>3
<1>6. DecoderOrder(decoder')
  BY <1>1, <1>2, <1>5 DEF DecoderOrder, Ordered, Decoded, Before
<1>7. DecoderTypeOK'
  BY <1>1, <1>2, <1>5, DecoderAssumption DEF DecoderTypeOK, IsDecoder
<1>8. QED
  BY <1>5, <1>6, <1>7 DEF DecodingInv

\* A call that leaves the context alone: the registration, and a Decode of a packet that
\* libavcodec does not take.
LEMMA KeepingCall ==
    ASSUME decoder # NoDecoder, DecodingInv,
           \/ RegisterDecodeCompleteCallback
           \/ decoder.packets < MaxPackets /\ DecodeNothing
    PROVE  DecodingInv'
<1>1. IsDecoder(decoder) /\ DecoderTypeOK /\ DecoderOrder(decoder)
  BY DEF DecodingInv
<1>2. /\ decoder.packets \in Nat /\ decoder.packets <= MaxPackets /\ decoder.first \in Nat
      /\ Arrived = decoder.packets + 1 /\ Arrived \in Nat
  BY <1>1, DecoderAssumption DEF IsDecoder, DecoderTypeOK, Arrived
<1>3. /\ IsDecoder(decoder')
      /\ decoder'.inside = decoder.inside /\ decoder'.delivered = decoder.delivered
      /\ decoder'.first = decoder.first /\ decoder'.context = decoder.context
      /\ decoder'.layout = decoder.layout /\ decoder'.delays = decoder.delays
      /\ decoder'.packets \in {decoder.packets, Arrived} /\ decoder'.packets <= MaxPackets
  <2>1. CASE RegisterDecodeCompleteCallback
    BY <1>1, <1>2, <2>1 DEF RegisterDecodeCompleteCallback, IsDecoder
  <2>2. CASE decoder.packets < MaxPackets /\ DecodeNothing
    <3>1. decoder' = [decoder EXCEPT !.packets = Arrived] /\ Arrived <= MaxPackets
      BY <1>2, <2>2, DecoderAssumption DEF DecodeNothing
    <3>2. IsDecoder(decoder')
      BY <1>1, <1>2, <3>1 DEF IsDecoder
    <3>3. QED
      BY <1>1, <3>1, <3>2 DEF IsDecoder
  <2>3. QED
    BY <2>1, <2>2
<1>4. decoder'.packets \in Nat /\ decoder.packets <= decoder'.packets
  BY <1>2, <1>3
<1>5. Ordered(decoder'.inside, decoder'.first, decoder'.packets)
  <2>1. \A i \in 1..Len(decoder.inside) : decoder.inside[i] \in Nat
    BY <1>1, ElementOfSeq DEF IsDecoder
  <2>2. QED
    BY <1>1, <1>2, <1>3, <1>4, <2>1 DEF DecoderOrder, Ordered
<1>6. decoder'.layout # "other"
          => Decoded(decoder'.delivered, decoder'.inside, decoder'.packets, decoder'.delays)
  <2>1. \A k \in 1..Len(decoder.delivered) : decoder.delivered[k].picture \in Nat
    <3>1. \A k \in 1..Len(decoder.delivered) : decoder.delivered[k] \in FrameRecord
      BY <1>1, ElementOfSeq DEF IsDecoder
    <3>2. QED
      BY <3>1 DEF FrameRecord
  <2>2. QED
    BY <1>1, <1>2, <1>3, <1>4, <2>1 DEF DecoderOrder, Decoded
<1>7. DecoderOrder(decoder')
  BY <1>1, <1>3, <1>5, <1>6 DEF DecoderOrder
<1>8. DecoderTypeOK'
  BY <1>1, <1>3, <1>4, DecoderAssumption DEF DecoderTypeOK, IsDecoder
<1>9. QED
  BY <1>3, <1>7, <1>8 DEF DecodingInv

\* A packet that libavcodec takes: its number is the greatest of those inside.
LEMMA Arrival ==
    ASSUME IsDecoder(decoder), DecoderOrder(decoder)
    PROVE  LET all == Append(decoder.inside, Arrived)
           IN /\ decoder.packets \in Nat /\ Arrived = decoder.packets + 1 /\ Arrived \in Nat
              /\ all \in Seq(Nat) /\ Len(all) = Len(decoder.inside) + 1
              /\ Ordered(all, decoder.first, Arrived)
              /\ decoder.layout # "other"
                    => Decoded(decoder.delivered, all, Arrived, decoder.delays)
<1> DEFINE all == Append(decoder.inside, Arrived)
<1>1. /\ decoder.packets \in Nat /\ decoder.first \in Nat /\ decoder.inside \in Seq(Nat)
      /\ decoder.delivered \in Seq(FrameRecord)
      /\ Arrived = decoder.packets + 1 /\ Arrived \in Nat
  BY DEF IsDecoder, Arrived
<1>2. /\ all \in Seq(Nat) /\ Len(all) = Len(decoder.inside) + 1
      /\ Ordered(all, decoder.first, Arrived)
      /\ \A number \in Nat : number <= decoder.packets /\ Before(number, decoder.inside)
                                => Before(number, all)
  BY <1>1, GiveOne DEF DecoderOrder
<1> HIDE DEF all
<1>3. ASSUME decoder.layout # "other"
      PROVE  Decoded(decoder.delivered, all, Arrived, decoder.delays)
  <2>1. Decoded(decoder.delivered, decoder.inside, decoder.packets, decoder.delays)
    BY <1>3 DEF DecoderOrder
  <2>2. ASSUME NEW k \in 1..Len(decoder.delivered)
        PROVE  /\ decoder.delivered[k].picture <= Arrived
               /\ Before(decoder.delivered[k].picture, all)
    <3>1. decoder.delivered[k] \in FrameRecord
      BY <1>1, ElementOfSeq
    <3>2. /\ decoder.delivered[k].picture \in Nat
          /\ decoder.delivered[k].picture <= decoder.packets
          /\ Before(decoder.delivered[k].picture, decoder.inside)
      BY <2>1, <3>1 DEF FrameRecord, Decoded
    <3>3. QED
      BY <1>1, <1>2, <3>2
  <2>3. QED
    BY <2>1, <2>2 DEF Decoded
<1>4. QED
  BY <1>1, <1>2, <1>3 DEF all

\* What is inside without its oldest is still in order, after the frames before it.
LEMMA WithoutOldest ==
    ASSUME NEW all \in Seq(Nat), NEW first \in Nat, NEW given \in Nat, Ordered(all, first, given),
           all # <<>>, NEW frames \in Seq(FrameRecord), NEW delays \in BOOLEAN,
           NEW matters \in BOOLEAN, matters => Decoded(frames, all, given, delays)
    PROVE  /\ Tail(all) \in Seq(Nat) /\ Len(Tail(all)) = Len(all) - 1
           /\ Ordered(Tail(all), first, given)
           /\ matters => Decoded(frames, Tail(all), given, delays)
           /\ Before(Head(all), Tail(all))
<1>1. Len(all) \in Nat \ {0} /\ Tail(all) = SubSeq(all, 1 + 1, Len(all)) /\ Head(all) = all[1]
  <2>1. Tail(all) = SubSeq(all, 2, Len(all))
    BY TailIsSubSeq
  <2>2. QED
    BY <2>1
<1>2. /\ Tail(all) \in Seq(Nat) /\ Len(Tail(all)) = Len(all) - 1
      /\ Ordered(Tail(all), first, given)
      /\ \A number \in Nat : Before(number, all) => Before(number, Tail(all))
      /\ Before(all[1], Tail(all))
  <2>1. 1 \in Nat /\ 1 <= Len(all)
    BY <1>1
  <2>2. LET rest == SubSeq(all, 1 + 1, Len(all))
        IN /\ rest \in Seq(Nat) /\ Len(rest) = Len(all) - 1
           /\ Ordered(rest, first, given)
           /\ \A number \in Nat : Before(number, all) => Before(number, rest)
           /\ \A k \in 1..1 : Before(all[k], rest)
    BY <2>1, TakeSome, Zenon
  <2>3. 1 \in 1..1
    OBVIOUS
  <2>4. QED
    BY <1>1, <2>2, <2>3
<1>3. ASSUME matters PROVE Decoded(frames, Tail(all), given, delays)
  <2>1. Decoded(frames, all, given, delays)
    BY <1>3
  <2>2. ASSUME NEW k \in 1..Len(frames) PROVE Before(frames[k].picture, Tail(all))
    <3>1. frames[k] \in FrameRecord
      BY ElementOfSeq
    <3>2. frames[k].picture \in Nat /\ Before(frames[k].picture, all)
      BY <2>1, <3>1 DEF FrameRecord, Decoded
    <3>3. QED
      BY <1>2, <3>2
  <2>3. QED
    BY <2>1, <2>2 DEF Decoded
<1>4. QED
  BY <1>1, <1>2, <1>3

\* A frame is kept, or lost.
LEMMA KeepsOrLoses ==
    ASSUME decoder # NoDecoder, DecodingInv, decoder.packets < MaxPackets,
           DecodeKeeps \/ DecodeLoses
    PROVE  DecodingInv'
<1> DEFINE all == Append(decoder.inside, Arrived)
<1>1. IsDecoder(decoder) /\ DecoderTypeOK /\ DecoderOrder(decoder) /\ decoder.context = "open"
  BY DEF DecodingInv, DecodeKeeps, DecodeLoses, CanDecode
<1>2. /\ decoder.packets \in Nat /\ Arrived = decoder.packets + 1 /\ Arrived \in Nat
      /\ all \in Seq(Nat) /\ Len(all) = Len(decoder.inside) + 1 /\ all # <<>>
      /\ Ordered(all, decoder.first, Arrived)
      /\ decoder.layout # "other" => Decoded(decoder.delivered, all, Arrived, decoder.delays)
  BY <1>1, Arrival
<1>3. /\ decoder.first \in Nat /\ decoder.delivered \in Seq(FrameRecord)
      /\ decoder.delays \in BOOLEAN /\ decoder.inside \in Seq(Nat)
  BY <1>1 DEF IsDecoder
<1>4. /\ Tail(all) \in Seq(Nat) /\ Len(Tail(all)) = Len(all) - 1
      /\ Ordered(Tail(all), decoder.first, Arrived)
      /\ decoder.layout # "other"
            => Decoded(decoder.delivered, Tail(all), Arrived, decoder.delays)
  BY <1>2, <1>3, WithoutOldest
<1>5. ~decoder.delays => Tail(all) = <<>>
  BY <1>1, <1>2, <1>4 DEF DecoderOrder
<1>6. PICK inside \in {all, Tail(all)} :
          /\ decoder' = [decoder EXCEPT !.packets = Arrived, !.inside = inside]
          /\ inside = all => decoder.delays /\ Len(decoder.inside) < MaxKept
          /\ inside # all => inside = Tail(all)
  <2>1. CASE DecodeKeeps
    BY <2>1 DEF DecodeKeeps
  <2>2. CASE DecodeLoses
    <3>1. Tail(all) # all
      BY <1>2, <1>4
    <3>2. QED
      BY <2>2, <3>1 DEF DecodeLoses
  <2>3. QED
    BY <2>1, <2>2
<1> HIDE DEF all
<1>7. /\ inside \in Seq(Nat) /\ Len(inside) <= MaxKept
      /\ Ordered(inside, decoder.first, Arrived)
      /\ decoder.layout # "other" => Decoded(decoder.delivered, inside, Arrived, decoder.delays)
      /\ ~decoder.delays => inside = <<>>
  <2>1. Len(decoder.inside) <= MaxKept /\ Len(decoder.inside) \in Nat
    BY <1>1, <1>3 DEF DecoderTypeOK
  <2>2. CASE inside = all
    BY <1>2, <1>6, <2>1, <2>2, DecoderAssumption
  <2>3. CASE inside # all
    <3>1. inside = Tail(all) /\ Len(inside) <= MaxKept
      BY <1>2, <1>4, <1>6, <2>1, <2>3, DecoderAssumption
    <3>2. QED
      BY <1>4, <1>5, <3>1
  <2>4. QED
    BY <2>2, <2>3
<1>8. IsDecoder(decoder')
  BY <1>1, <1>2, <1>6, <1>7 DEF IsDecoder
<1>9. /\ decoder'.inside = inside /\ decoder'.packets = Arrived
      /\ decoder'.delivered = decoder.delivered /\ decoder'.first = decoder.first
      /\ decoder'.layout = decoder.layout /\ decoder'.delays = decoder.delays
      /\ decoder'.context = "open"
  BY <1>1, <1>6 DEF IsDecoder
<1>10. DecoderOrder(decoder')
  BY <1>7, <1>9 DEF DecoderOrder
<1>11. DecoderTypeOK'
  BY <1>2, <1>7, <1>8, <1>9, DecoderAssumption DEF DecoderTypeOK, IsDecoder
<1>12. QED
  BY <1>8, <1>10, <1>11 DEF DecodingInv

\* The frame that is delivered is the oldest inside: it comes after those before it, and
\* is that of the packet just given if none is kept back.
LEMMA OldestIsNext ==
    ASSUME NEW all \in Seq(Nat), NEW first \in Nat, NEW given \in Nat, Ordered(all, first, given),
           all # <<>>, NEW frames \in Seq(FrameRecord), NEW delays \in BOOLEAN,
           Decoded(frames, all, given, delays), ~delays => Head(all) = given
    PROVE  LET frame == [picture |-> Head(all), timestamp |-> given, first |-> first]
           IN Decoded(Append(frames, frame), Tail(all), given, delays)
<1> DEFINE frame == [picture |-> Head(all), timestamp |-> given, first |-> first]
           more == Append(frames, frame)
           m == Len(frames)
<1>1. /\ Decoded(frames, Tail(all), given, delays) /\ Before(Head(all), Tail(all))
  <2>1. TRUE => Decoded(frames, all, given, delays)
    OBVIOUS
  <2>2. QED
    BY <2>1, WithoutOldest
<1>2. Head(all) = all[1] /\ 1 \in 1..Len(all) /\ Head(all) \in Nat
  OBVIOUS
<1>3. first <= Head(all) /\ Head(all) <= given
  BY <1>2 DEF Ordered
<1>4. /\ m \in Nat /\ Len(more) = m + 1 /\ more[m + 1] = frame
      /\ \A k \in 1..m : more[k] = frames[k]
  BY <1>2 DEF FrameRecord
<1>5. frame.picture = Head(all) /\ frame.timestamp = given /\ frame.first = first
  OBVIOUS
<1> HIDE DEF frame, more
<1>6. ASSUME NEW k \in 1..m, NEW l \in 1..(m + 1), l < k PROVE more[l].picture < more[k].picture
  <2>1. l \in 1..m /\ more[l] = frames[l] /\ more[k] = frames[k]
    BY <1>4, <1>6
  <2>2. QED
    BY <1>6, <2>1 DEF Decoded
<1>7. ASSUME NEW l \in 1..m PROVE more[l].picture < frame.picture
  BY <1>2, <1>4, <1>5 DEF Decoded, Before
<1>8. ASSUME NEW k \in 1..(m + 1)
      PROVE  /\ more[k].first <= more[k].picture /\ more[k].picture <= more[k].timestamp
             /\ ~delays => more[k].picture = more[k].timestamp
             /\ more[k].picture <= given
             /\ Before(more[k].picture, Tail(all))
             /\ \A l \in 1..(m + 1) : l < k => more[l].picture < more[k].picture
  <2>1. CASE k = m + 1
    <3>1. more[k] = frame
      BY <1>4, <2>1
    <3>2. \A l \in 1..(m + 1) : l < k => l \in 1..m
      BY <1>4, <2>1
    <3>3. QED
      BY <1>1, <1>3, <1>5, <1>7, <3>1, <3>2
  <2>2. CASE k # m + 1
    <3>1. k \in 1..m /\ more[k] = frames[k]
      BY <1>4, <2>2
    <3>2. QED
      BY <1>1, <1>6, <3>1 DEF Decoded
  <2>3. QED
    BY <2>1, <2>2
<1>9. Decoded(more, Tail(all), given, delays)
  BY <1>4, <1>8 DEF Decoded
<1>10. QED
  BY <1>9 DEF more, frame

\* A frame is delivered.
LEMMA DecodeStep ==
    ASSUME decoder # NoDecoder, DecodingInv, decoder.packets < MaxPackets, Decode
    PROVE  DecodingInv'
<1> DEFINE all == Append(decoder.inside, Arrived)
           frame == [picture |-> Picture(Head(all)), timestamp |-> Arrived,
                     first |-> decoder.first]
<1>1. IsDecoder(decoder) /\ DecoderTypeOK /\ DecoderOrder(decoder) /\ decoder.context = "open"
  BY DEF DecodingInv, Decode, CanDecode
<1>2. /\ decoder.packets \in Nat /\ Arrived = decoder.packets + 1 /\ Arrived \in Nat
      /\ all \in Seq(Nat) /\ Len(all) = Len(decoder.inside) + 1 /\ all # <<>>
      /\ Ordered(all, decoder.first, Arrived)
      /\ decoder.layout # "other" => Decoded(decoder.delivered, all, Arrived, decoder.delays)
  BY <1>1, Arrival
<1>3. /\ decoder.first \in Nat /\ decoder.delivered \in Seq(FrameRecord)
      /\ decoder.delays \in BOOLEAN /\ decoder.inside \in Seq(Nat)
  BY <1>1 DEF IsDecoder
<1>4. /\ Tail(all) \in Seq(Nat) /\ Len(Tail(all)) = Len(all) - 1
      /\ Ordered(Tail(all), decoder.first, Arrived)
  <2>1. FALSE => Decoded(decoder.delivered, all, Arrived, decoder.delays)
    OBVIOUS
  <2>2. QED
    BY <1>2, <1>3, <2>1, WithoutOldest
<1>5. ~decoder.delays => Tail(all) = <<>> /\ Head(all) = Arrived
  BY <1>1, <1>2, <1>4 DEF DecoderOrder
<1>6. Head(all) \in Nat
  BY <1>2
<1>7. frame \in FrameRecord
  BY <1>2, <1>3, <1>6 DEF FrameRecord, Picture, Blank
<1>8. ASSUME decoder.layout # "other"
      PROVE  Decoded(Append(decoder.delivered, frame), Tail(all), Arrived, decoder.delays)
  <2>1. Picture(Head(all)) = Head(all)
    BY <1>8 DEF Picture
  <2>2. QED
    BY <1>2, <1>3, <1>5, <1>8, <2>1, OldestIsNext
<1>9. decoder' = [decoder EXCEPT !.packets = Arrived, !.inside = Tail(all),
                                 !.delivered = Append(decoder.delivered, frame)]
  BY DEF Decode
<1> HIDE DEF all, frame
<1>10. /\ decoder'.inside = Tail(all) /\ decoder'.packets = Arrived
       /\ decoder'.delivered = Append(decoder.delivered, frame)
       /\ decoder'.first = decoder.first /\ decoder'.layout = decoder.layout
       /\ decoder'.delays = decoder.delays /\ decoder'.context = "open"
  BY <1>1, <1>9 DEF IsDecoder
<1>11. Append(decoder.delivered, frame) \in Seq(FrameRecord)
  BY <1>3, <1>7
<1>12. IsDecoder(decoder')
  BY <1>1, <1>2, <1>4, <1>9, <1>11 DEF IsDecoder
<1>13. DecoderOrder(decoder')
  BY <1>4, <1>5, <1>8, <1>10 DEF DecoderOrder
<1>14. Len(decoder'.inside) <= MaxKept
  BY <1>1, <1>2, <1>3, <1>4, <1>10, DecoderAssumption DEF DecoderTypeOK
<1>15. DecoderTypeOK'
  BY <1>2, <1>10, <1>12, <1>14, DecoderAssumption DEF DecoderTypeOK, IsDecoder
<1>16. QED
  BY <1>12, <1>13, <1>15 DEF DecodingInv

\* Every call of WebRTC on the decoder preserves the invariant, and one on another codec.
LEMMA DecodingStep == DecodingInv /\ [CodecNext]_codecVars => DecodingInv'
<1> SUFFICES ASSUME DecodingInv, [CodecNext]_codecVars PROVE DecodingInv'
  OBVIOUS
<1>1. CASE decoder' = decoder
  BY <1>1 DEF DecodingInv, DecoderTypeOK
<1>2. CASE decoder' # decoder
  <2>1. DecoderCall
    BY <1>2 DEF CodecNext, codecVars
  <2>2. decoder # NoDecoder
    BY <2>1 DEF DecoderCall
  <2>3. CASE InitDecode \/ InitDecodeFails \/ ReleaseDecoder
    BY <1>2, <2>2, <2>3, ReleasingCall
  <2>4. CASE RegisterDecodeCompleteCallback
    BY <2>2, <2>4, KeepingCall
  <2>5. CASE decoder.packets < MaxPackets /\ DecodeNothing
    BY <2>2, <2>5, KeepingCall
  <2>6. CASE decoder.packets < MaxPackets /\ (DecodeKeeps \/ DecodeLoses)
    BY <2>2, <2>6, KeepsOrLoses
  <2>7. CASE decoder.packets < MaxPackets /\ Decode
    BY <2>2, <2>7, DecodeStep
  <2>8. QED
    BY <2>1, <2>3, <2>4, <2>5, <2>6, <2>7 DEF DecoderCall
<1>3. QED
  BY <1>1, <1>2

\* The invariant is inductive, whatever calls fail.
THEOREM DecodingCorrect == CodecSpec => []DecodingInv
BY InitDecoding, DecodingStep, PTL DEF CodecSpec

\* Through any failed calls and any contexts, a frame has the picture of the packet whose
\* timestamp it has if libavcodec keeps none back, and otherwise that of an earlier packet of
\* the same context; no picture is delivered twice.
THEOREM DecoderCorrect == CodecSpec => []DecoderInv
<1>1. DecodingInv => DecoderInv
  <2> SUFFICES ASSUME DecodingInv, decoder # NoDecoder PROVE DecoderTypeOK /\ DecodedIsInput
    BY DEF DecoderInv, DecoderTypeOK, DecodedIsInput
  <2>1. IsDecoder(decoder) /\ DecoderTypeOK /\ DecoderOrder(decoder)
    BY DEF DecodingInv
  <2>2. decoder.delivered \in Seq(FrameRecord)
    BY <2>1 DEF IsDecoder
  <2>3. ASSUME decoder.layout # "other", NEW i \in DOMAIN decoder.delivered
        PROVE  LET frame == decoder.delivered[i]
               IN /\ frame.picture \in frame.first..frame.timestamp
                  /\ ~decoder.delays => frame.picture = frame.timestamp
                  /\ i > 1 => decoder.delivered[i - 1].picture < frame.picture
    <3>1. /\ i \in 1..Len(decoder.delivered) /\ decoder.delivered[i] \in FrameRecord
          /\ i > 1 => i - 1 \in 1..Len(decoder.delivered) /\ i - 1 < i
      BY <2>2, ElementOfSeq
    <3>2. Decoded(decoder.delivered, decoder.inside, decoder.packets, decoder.delays)
      BY <2>1, <2>3 DEF DecoderOrder
    <3>3. QED
      BY <3>1, <3>2 DEF Decoded, FrameRecord
  <2>4. QED
    BY <2>1, <2>3 DEF DecodedIsInput
<1>2. QED
  BY <1>1, DecodingCorrect, PTL
-----------------------------------------------------------------------------
(* MSDKVideoEncoder and SysMemFrameAllocator *)

\* A size of the settings is rounded up to 16, within 16 bits.
LEMMA AlignedSize == ASSUME NEW n \in 1..MaxSize
                     PROVE  Align16(n) \in 1..MaxSize
<1>1. n \in Nat /\ 1 <= n /\ n <= 32768
  BY DEF MaxSize
<1>2. 16 * ((n + 15) \div 16) >= 1 /\ 16 * ((n + 15) \div 16) <= 32768
  BY <1>1
<1>3. 16 * ((n + 15) \div 16) \in Nat
  BY <1>1
<1>4. Align16(n) = 16 * ((n + 15) \div 16)
  BY <1>2, <1>3 DEF Align16
<1>5. QED
  BY <1>2, <1>3, <1>4 DEF MaxSize

\* A picture in NV12 lies in the memory its allocator reserves: the widths and the heights
\* are multiples of 32 there, so that the halves of the rows of colours are whole.
LEMMA NV12Fits == ASSUME NEW w \in 1..MaxSize, NEW h \in 1..MaxSize PROVE Fits("NV12", w, h)
<1> DEFINE W == 32 * ((w + 31) \div 32)
           k == (h + 31) \div 32
<1>1. /\ w \in Nat /\ 1 <= w /\ w <= 32768 /\ h \in Nat /\ 1 <= h /\ h <= 32768
  BY DEF MaxSize
<1>2. W \in Nat /\ w <= W /\ W <= 32768
  BY <1>1
<1>3. k \in Nat /\ 32 * k <= 32768
  BY <1>1
<1>4. Align32(w) = W /\ Align32(h) = 32 * k
  BY DEF Align32
<1> HIDE DEF W, k
<1>5. Width16(w) = W /\ Width16(h) = 32 * k
  BY <1>2, <1>3, <1>4 DEF Width16
<1>6. Pitch("NV12", w) = W
  <2>1. Pitch("NV12", w) = (1 * W) % 65536
    BY <1>5 DEF Pitch
  <2>2. (1 * W) % 65536 = W
    BY <1>2
  <2>3. QED
    BY <2>1, <2>2
<1>7. Rows("NV12", h) = 48 * k
  BY <1>3, <1>5 DEF Rows
<1>8. Reserved("NV12", w, h) = W * (32 * k) + (W * (32 * k)) \div 2
  BY <1>4 DEF Reserved
<1>9. (W * (32 * k)) \div 2 = W * (16 * k)
  <2>1. W * (32 * k) = 2 * (W * (16 * k)) /\ W * (16 * k) \in Nat
    BY <1>2, <1>3
  <2>2. \A x \in Nat : (2 * x) \div 2 = x
    OBVIOUS
  <2>3. QED
    BY <2>1, <2>2
<1>10. W * (48 * k) <= W * (32 * k) + W * (16 * k)
  BY <1>2, <1>3
<1>11. QED
  BY <1>2, <1>6, <1>7, <1>8, <1>9, <1>10 DEF Fits

Objects == {"session", "encoder", "surfaces", "frames", "bitstream"}
Sizes == (1..MaxSize) \X (1..MaxSize)
Phases == {"new", "tried", "working", "released", "destroyed"}

IsMSDK(m) ==
    m \in [codec : CodecType, device : BOOLEAN, session : {"unassigned", "null", "live"},
           encoder : BOOLEAN, allocator : BOOLEAN, surfaces : {"null", "live", "dangling"},
           size : Sizes, inited : BOOLEAN, callback : BOOLEAN,
           coding : {"none", "AVC", "HEVC"}, phase : Phases, orderly : BOOLEAN,
           grown : BOOLEAN, leaked : SUBSET Objects, fault : BOOLEAN]

\* What an encoder holds in each phase of its life, if its caller is orderly: nothing before
\* the first InitEncode and after a release, and all it needs once it works.
Held(m) ==
    /\ ~m.fault
    /\ m.leaked \subseteq {"frames"} \cup (IF m.grown THEN {"bitstream"} ELSE {})
    /\ m.phase = "new" => m.session = "unassigned"
    /\ m.phase = "tried" => m.session # "unassigned"
    /\ m.phase \in {"released", "destroyed"} => m.session = "null"
    /\ m.phase \in {"new", "released", "destroyed"} =>
           ~m.encoder /\ ~m.allocator /\ m.surfaces = "null"
    /\ m.phase # "working" => ~m.inited
    /\ m.phase = "working" =>
           /\ m.encoder /\ m.allocator /\ m.surfaces = "live" /\ m.session = "live"
           /\ m.coding = IF m.codec = "H265" THEN "HEVC" ELSE "AVC"

MSDKInv == msdk # NoMSDK =>
               IsMSDK(msdk) /\ (msdk.orderly /\ msdk.device => Held(msdk))

\* A new encoder holds nothing.
LEMMA InitMSDK == CodecInit => MSDKInv
<1> SUFFICES ASSUME CodecInit, msdk # NoMSDK PROVE IsMSDK(msdk) /\ Held(msdk)
  BY DEF MSDKInv
<1>1. PICK codec \in CodecType, device \in BOOLEAN : msdk = NewMSDK(codec, device)
  BY DEF CodecInit, CreatedEncoder, CreatedDecoder
<1>2. <<16, 16>> \in Sizes
  BY DEF MaxSize, Sizes
<1>3. IsMSDK(msdk)
  BY <1>1, <1>2 DEF NewMSDK, IsMSDK, Phases
<1>4. Held(msdk)
  BY <1>1 DEF NewMSDK, Held
<1>5. QED
  BY <1>3, <1>4

\* The history of a call: all but the phase stays, and what was in order.
LEMMA PhaseFields ==
    ASSUME NEW m, IsMSDK(m), NEW phase \in Phases, NEW inOrder, inOrder \in BOOLEAN,
           NEW c, c = Phase(m, phase, inOrder)
    PROVE  /\ IsMSDK(c) /\ c.phase = phase /\ (c.orderly <=> m.orderly /\ inOrder)
           /\ c.codec = m.codec /\ c.device = m.device /\ c.session = m.session
           /\ c.encoder = m.encoder /\ c.allocator = m.allocator
           /\ c.surfaces = m.surfaces /\ c.size = m.size /\ c.inited = m.inited
           /\ c.callback = m.callback /\ c.coding = m.coding /\ c.grown = m.grown
           /\ c.leaked = m.leaked /\ c.fault = m.fault
<1> DEFINE o == m.orderly /\ inOrder
<1>1. o \in BOOLEAN /\ c = [m EXCEPT !.phase = phase, !.orderly = o]
  BY DEF IsMSDK, Phase
<1> HIDE DEF o
<1>2. IsMSDK(c)
  BY <1>1 DEF IsMSDK
<1>3. /\ c.phase = phase /\ c.orderly = o
      /\ c.codec = m.codec /\ c.device = m.device /\ c.session = m.session
      /\ c.encoder = m.encoder /\ c.allocator = m.allocator
      /\ c.surfaces = m.surfaces /\ c.size = m.size /\ c.inited = m.inited
      /\ c.callback = m.callback /\ c.coding = m.coding /\ c.grown = m.grown
      /\ c.leaked = m.leaked /\ c.fault = m.fault
  BY <1>1 DEF IsMSDK
<1>4. QED
  BY <1>2, <1>3 DEF o

\* A fault, in a call that was out of order or without the hardware.
LEMMA FaultOutOfOrder ==
    ASSUME NEW m, IsMSDK(m), msdk' = Fault(m), ~(m.orderly /\ m.device)
    PROVE  MSDKInv'
<1>1. /\ IsMSDK(msdk') /\ msdk'.orderly = m.orderly /\ msdk'.device = m.device
  BY DEF IsMSDK, Fault
<1>2. QED
  BY <1>1 DEF MSDKInv

\* Release and the destructor free everything.
LEMMA ReleasingMSDK ==
    ASSUME msdk # NoMSDK, MSDKInv, ReleaseMSDK \/ DestroyMSDK
    PROVE  MSDKInv'
<1>1. IsMSDK(msdk) /\ (msdk.orderly /\ msdk.device => Held(msdk))
  BY DEF MSDKInv
<1>2. PICK phase \in {"released", "destroyed"} :
          LET called == Phase(msdk, phase, msdk.phase # "new")
          IN \/ msdk' = ReleasedMSDK(called)
             \/ msdk.session = "unassigned" /\ msdk.device /\ msdk' = Fault(called)
  BY DEF ReleaseMSDK, DestroyMSDK
<1> DEFINE c == Phase(msdk, phase, msdk.phase # "new")
<1>3. /\ IsMSDK(c) /\ c.phase = phase /\ (c.orderly <=> msdk.orderly /\ msdk.phase # "new")
      /\ c.device = msdk.device /\ c.grown = msdk.grown
      /\ c.leaked = msdk.leaked /\ c.fault = msdk.fault
  <2> DEFINE used == msdk.phase # "new"
  <2>1. phase \in Phases /\ used \in BOOLEAN /\ c = Phase(msdk, phase, used)
    BY DEF Phases
  <2> HIDE DEF used, c
  <2>2. /\ IsMSDK(c) /\ c.phase = phase /\ (c.orderly <=> msdk.orderly /\ used)
        /\ c.device = msdk.device /\ c.grown = msdk.grown
        /\ c.leaked = msdk.leaked /\ c.fault = msdk.fault
    BY <1>1, <2>1, PhaseFields
  <2>3. QED
    BY <2>2 DEF used
<1> HIDE DEF c
<1>4. CASE msdk' = ReleasedMSDK(c)
  <2>1. /\ IsMSDK(msdk') /\ ~msdk'.encoder /\ msdk'.surfaces = "null" /\ msdk'.session = "null"
        /\ ~msdk'.allocator /\ ~msdk'.inited /\ msdk'.phase = phase
        /\ msdk'.orderly = c.orderly /\ msdk'.device = c.device /\ msdk'.grown = c.grown
        /\ msdk'.leaked = c.leaked /\ msdk'.fault = c.fault
    BY <1>3, <1>4 DEF ReleasedMSDK, IsMSDK
  <2>2. msdk'.orderly /\ msdk'.device => Held(msdk')
    BY <1>1, <1>3, <2>1 DEF Held
  <2>3. QED
    BY <2>1, <2>2 DEF MSDKInv
<1>5. CASE msdk.session = "unassigned" /\ msdk.device /\ msdk' = Fault(c)
  <2>1. ~(c.orderly /\ c.device)
    <3>1. SUFFICES ASSUME c.orderly, c.device PROVE FALSE
      OBVIOUS
    <3>2. Held(msdk) /\ msdk.phase # "new" /\ msdk.session = "unassigned"
      BY <1>1, <1>3, <1>5, <3>1
    <3>3. msdk.phase \in {"tried", "working", "released", "destroyed"}
      BY <1>1, <3>2 DEF IsMSDK, Phases
    <3>4. QED
      BY <3>2, <3>3 DEF Held
  <2>2. QED
    BY <1>3, <1>5, <2>1, FaultOutOfOrder
<1>6. QED
  BY <1>2, <1>4, <1>5 DEF c

\* Register sets the callback only.
LEMMA RegisteringMSDK == ASSUME msdk # NoMSDK, MSDKInv, RegisterMSDK PROVE MSDKInv'
<1>1. IsMSDK(msdk) /\ (msdk.orderly /\ msdk.device => Held(msdk))
  BY DEF MSDKInv
<1>2. /\ IsMSDK(msdk')
      /\ msdk'.codec = msdk.codec /\ msdk'.device = msdk.device
      /\ msdk'.session = msdk.session /\ msdk'.encoder = msdk.encoder
      /\ msdk'.allocator = msdk.allocator /\ msdk'.surfaces = msdk.surfaces
      /\ msdk'.inited = msdk.inited /\ msdk'.coding = msdk.coding
      /\ msdk'.phase = msdk.phase /\ msdk'.orderly = msdk.orderly
      /\ msdk'.grown = msdk.grown /\ msdk'.leaked = msdk.leaked /\ msdk'.fault = msdk.fault
  BY <1>1 DEF RegisterMSDK, IsMSDK
<1>3. Held(msdk) => Held(msdk')
  BY <1>2 DEF Held
<1>4. QED
  BY <1>1, <1>2, <1>3 DEF MSDKInv

\* The rates are set of an encoder that is inited: if it is orderly, it has its encoder.
LEMMA RatingMSDK == ASSUME msdk # NoMSDK, MSDKInv, SetRatesMSDK PROVE MSDKInv'
<1>1. IsMSDK(msdk) /\ (msdk.orderly /\ msdk.device => Held(msdk))
  BY DEF MSDKInv
<1>2. CASE msdk.encoder
  BY <1>2 DEF SetRatesMSDK, MSDKInv, IsMSDK, Held
<1>3. CASE ~msdk.encoder
  <2>1. msdk.inited /\ msdk' = Fault(msdk)
    BY <1>3 DEF SetRatesMSDK
  <2>2. ~Held(msdk)
    BY <1>3, <2>1 DEF Held
  <2>3. QED
    BY <1>1, <2>1, <2>2, FaultOutOfOrder
<1>4. QED
  BY <1>2, <1>3

\* What a call of Encode keeps, and whether it was in order.
LEMMA EncodeFields ==
    ASSUME IsMSDK(msdk)
    PROVE  /\ IsMSDK(EncodeInOrder) /\ EncodeInOrder.phase = msdk.phase
           /\ (EncodeInOrder.orderly
                  <=> msdk.orderly /\ msdk.phase = "working" /\ msdk.callback)
           /\ EncodeInOrder.codec = msdk.codec /\ EncodeInOrder.device = msdk.device
           /\ EncodeInOrder.session = msdk.session /\ EncodeInOrder.encoder = msdk.encoder
           /\ EncodeInOrder.allocator = msdk.allocator
           /\ EncodeInOrder.surfaces = msdk.surfaces
           /\ EncodeInOrder.inited = msdk.inited /\ EncodeInOrder.callback = msdk.callback
           /\ EncodeInOrder.coding = msdk.coding /\ EncodeInOrder.grown = msdk.grown
           /\ EncodeInOrder.leaked = msdk.leaked /\ EncodeInOrder.fault = msdk.fault
<1> DEFINE ready == msdk.phase = "working" /\ msdk.callback
           c == EncodeInOrder
<1>1. msdk.phase \in Phases /\ ready \in BOOLEAN /\ c = Phase(msdk, msdk.phase, ready)
  BY DEF IsMSDK, EncodeInOrder
<1> HIDE DEF ready, c
<1>2. /\ IsMSDK(c) /\ c.phase = msdk.phase /\ (c.orderly <=> msdk.orderly /\ ready)
      /\ c.codec = msdk.codec /\ c.device = msdk.device /\ c.session = msdk.session
      /\ c.encoder = msdk.encoder /\ c.allocator = msdk.allocator
      /\ c.surfaces = msdk.surfaces /\ c.inited = msdk.inited
      /\ c.callback = msdk.callback /\ c.coding = msdk.coding /\ c.grown = msdk.grown
      /\ c.leaked = msdk.leaked /\ c.fault = msdk.fault
  BY <1>1, PhaseFields
<1>3. QED
  BY <1>2 DEF ready, c

\* A frame that is not encoded changes the history only.
LEMMA EncodingNothingMSDK ==
    ASSUME msdk # NoMSDK, MSDKInv, EncodeNothingMSDK
    PROVE  MSDKInv'
<1>1. IsMSDK(msdk) /\ (msdk.orderly /\ msdk.device => Held(msdk))
  BY DEF MSDKInv
<1>2. msdk' = EncodeInOrder
  BY DEF EncodeNothingMSDK
<1>3. Held(msdk) => Held(msdk')
  BY <1>1, <1>2, EncodeFields DEF Held
<1>4. QED
  BY <1>1, <1>2, <1>3, EncodeFields DEF MSDKInv

\* A frame that is encoded in order finds all it needs; a buffer that is lost had grown.
LEMMA EncodingMSDK ==
    ASSUME msdk # NoMSDK, MSDKInv, NEW growths \in 0..2, NEW outcome,
           EncodeMSDK(growths, outcome)
    PROVE  MSDKInv'
<1> DEFINE c == EncodeInOrder
           grown == c.grown \/ growths > 0
           g == [c EXCEPT !.grown = grown]
           lost == \/ growths = 2
                   \/ growths = 1 /\ outcome \in {"status", "noStartCode", "refused"}
<1>1. IsMSDK(msdk) /\ (msdk.orderly /\ msdk.device => Held(msdk))
  BY DEF MSDKInv
<1>2. /\ IsMSDK(c) /\ c.phase = msdk.phase
      /\ (c.orderly <=> msdk.orderly /\ msdk.phase = "working" /\ msdk.callback)
      /\ c.codec = msdk.codec /\ c.device = msdk.device /\ c.session = msdk.session
      /\ c.encoder = msdk.encoder /\ c.allocator = msdk.allocator
      /\ c.surfaces = msdk.surfaces /\ c.inited = msdk.inited /\ c.coding = msdk.coding
      /\ c.grown = msdk.grown /\ c.leaked = msdk.leaked /\ c.fault = msdk.fault
  BY <1>1, EncodeFields
<1>3. grown \in BOOLEAN /\ (growths > 0 => grown) /\ (c.grown => grown)
  BY <1>2 DEF IsMSDK
<1>4. \/ /\ \/ msdk.surfaces = "dangling" \/ ~msdk.allocator \/ ~msdk.encoder
            \/ outcome \in {"refused", "delivered"} /\ ~msdk.callback
         /\ msdk' = Fault(g)
      \/ msdk' = Leaks(g, {"bitstream"}) /\ growths > 0
      \/ msdk' = Leaks(g, {})
  BY DEF EncodeMSDK
<1> HIDE DEF c, grown
<1>5. /\ IsMSDK(g) /\ g.phase = c.phase /\ g.orderly = c.orderly /\ g.codec = c.codec
      /\ g.device = c.device /\ g.session = c.session /\ g.encoder = c.encoder
      /\ g.allocator = c.allocator /\ g.surfaces = c.surfaces /\ g.inited = c.inited
      /\ g.coding = c.coding /\ g.grown = grown /\ g.leaked = c.leaked /\ g.fault = c.fault
  BY <1>2, <1>3 DEF IsMSDK
<1> HIDE DEF g
<1>6. CASE /\ \/ msdk.surfaces = "dangling" \/ ~msdk.allocator \/ ~msdk.encoder
              \/ outcome \in {"refused", "delivered"} /\ ~msdk.callback
           /\ msdk' = Fault(g)
  <2>1. ~(g.orderly /\ g.device)
    BY <1>1, <1>2, <1>5, <1>6 DEF Held
  <2>2. QED
    BY <1>5, <1>6, <2>1, FaultOutOfOrder
<1>7. ASSUME NEW objects, objects \subseteq IF growths > 0 THEN {"bitstream"} ELSE {},
             msdk' = Leaks(g, objects)
      PROVE  MSDKInv'
  <2>1. objects \subseteq {"bitstream"} /\ g.leaked \cup objects \in SUBSET Objects
    BY <1>5, <1>7 DEF IsMSDK, Objects
  <2>2. /\ IsMSDK(msdk') /\ msdk'.leaked = g.leaked \cup objects
        /\ msdk'.phase = g.phase /\ msdk'.orderly = g.orderly /\ msdk'.codec = g.codec
        /\ msdk'.device = g.device /\ msdk'.session = g.session
        /\ msdk'.encoder = g.encoder /\ msdk'.allocator = g.allocator
        /\ msdk'.surfaces = g.surfaces /\ msdk'.inited = g.inited
        /\ msdk'.coding = g.coding /\ msdk'.grown = g.grown /\ msdk'.fault = g.fault
    BY <1>5, <1>7, <2>1 DEF Leaks, IsMSDK
  <2>3. ASSUME Held(msdk) PROVE Held(msdk')
    <3>1. msdk'.leaked \subseteq {"frames"} \cup
                                 (IF msdk'.grown THEN {"bitstream"} ELSE {})
      BY <1>2, <1>3, <1>5, <1>7, <2>2, <2>3 DEF Held
    <3>2. QED
      BY <1>2, <1>5, <2>2, <2>3, <3>1 DEF Held
  <2>4. QED
    BY <1>1, <1>2, <1>5, <2>2, <2>3 DEF MSDKInv
<1>8. QED
  BY <1>4, <1>6, <1>7

\* The stages of an InitEncode, and all of them.
Counts == 0..7
Complete(n) == n = 7

\* What InitEncode leaves after n stages, in any state.
LEMMA ReachedFields ==
    ASSUME NEW m, IsMSDK(m), NEW n \in Counts, NEW size \in Sizes,
           NEW r, r = Reached(m, n, size)
    PROVE  /\ IsMSDK(r) /\ r.codec = m.codec /\ r.phase = m.phase
           /\ (r.device <=> m.device) /\ (r.orderly <=> m.orderly)
           /\ (r.grown <=> m.grown) /\ (r.fault <=> m.fault)
           /\ r.session # "unassigned" /\ (r.inited => Complete(n))
           /\ Complete(n) =>
                  /\ r.session = "live" /\ r.allocator /\ r.encoder /\ r.surfaces = "live"
                  /\ r.coding = IF m.codec = "H265" THEN "HEVC" ELSE "AVC"
           /\ m.session # "live" /\ ~m.encoder /\ m.surfaces = "null" => r.leaked = m.leaked
<1> DEFINE freed == n >= 2 /\ m.surfaces # "null"
           overwritten == {o \in {"session", "encoder", "surfaces"} :
                               CASE o = "session" -> m.session = "live"
                                 [] o = "encoder" -> n >= 4 /\ m.encoder
                                 [] o = "surfaces" -> n >= 6 /\ m.surfaces # "null"}
           session == IF n >= 1 THEN "live" ELSE "null"
           allocator == IF n >= 2 THEN n >= 3 ELSE m.allocator
           encoded == m.encoder \/ n >= 4
           coding == IF n >= 4 THEN IF m.codec = "H265" THEN "HEVC" ELSE "AVC" ELSE m.coding
           surfaces == IF n >= 6 THEN "live" ELSE IF freed THEN "dangling" ELSE m.surfaces
           newSize == IF n >= 6 THEN size ELSE m.size
           done == n = 7
           all == m.leaked \cup overwritten
           s == [m EXCEPT !.session = session, !.allocator = allocator,
                          !.encoder = encoded, !.coding = coding,
                          !.surfaces = surfaces, !.size = newSize, !.inited = done]
<1>1. Len(Stages) = 7 /\ n \in 0..7
  BY DEF Stages, Counts
<1>2. r = [s EXCEPT !.leaked = @ \cup overwritten]
  BY <1>1 DEF Reached, Leaks, Counts
<1>3. /\ m.allocator \in BOOLEAN /\ m.encoder \in BOOLEAN
      /\ m.coding \in {"none", "AVC", "HEVC"} /\ m.surfaces \in {"null", "live", "dangling"}
      /\ m.size \in Sizes /\ m.leaked \in SUBSET Objects
  BY DEF IsMSDK
<1>4. session \in {"unassigned", "null", "live"} /\ session # "unassigned"
  BY <1>1
<1>5. allocator \in BOOLEAN /\ encoded \in BOOLEAN /\ done \in BOOLEAN
  <2>1. (n >= 3) \in BOOLEAN /\ (n >= 4) \in BOOLEAN /\ done \in BOOLEAN
    BY <1>1
  <2>2. allocator \in BOOLEAN
    BY <1>3, <2>1, Zenon
  <2>3. encoded \in BOOLEAN
    BY <1>3, <2>1, Zenon
  <2>4. QED
    BY <2>1, <2>2, <2>3
<1>6. coding \in {"none", "AVC", "HEVC"} /\ surfaces \in {"null", "live", "dangling"}
  BY <1>3
<1>7. newSize \in Sizes
  BY <1>3
<1>8. done => /\ session = "live" /\ allocator /\ encoded /\ surfaces = "live"
              /\ coding = IF m.codec = "H265" THEN "HEVC" ELSE "AVC"
  BY <1>1
<1>9. all \in SUBSET Objects
  BY <1>3 DEF Objects
<1>10. m.session # "live" /\ ~m.encoder /\ m.surfaces = "null" => all = m.leaked
  OBVIOUS
<1>11. s.leaked = m.leaked
  BY DEF IsMSDK
<1>12. r = [m EXCEPT !.session = session, !.allocator = allocator,
                     !.encoder = encoded, !.coding = coding, !.surfaces = surfaces,
                     !.size = newSize, !.inited = done, !.leaked = all]
  BY <1>2, <1>11
<1> HIDE DEF session, allocator, encoded, coding, surfaces, newSize, done, all
<1>13. IsMSDK(r)
  BY <1>4, <1>5, <1>6, <1>7, <1>9, <1>12 DEF IsMSDK
<1>14. /\ r.codec = m.codec /\ r.device = m.device /\ r.phase = m.phase
       /\ r.orderly = m.orderly /\ r.grown = m.grown /\ r.fault = m.fault
  BY <1>12 DEF IsMSDK
<1>15. /\ r.session = session /\ r.allocator = allocator /\ r.encoder = encoded
       /\ r.coding = coding /\ r.surfaces = surfaces /\ r.inited = done /\ r.leaked = all
  BY <1>12 DEF IsMSDK
<1>16. QED
  BY <1>4, <1>8, <1>10, <1>13, <1>14, <1>15 DEF done, Complete

\* InitEncode in order: a new or released encoder holds nothing that could be overwritten,
\* and it works after all the stages only.
LEMMA InitEncodingMSDK ==
    ASSUME msdk # NoMSDK, MSDKInv, NEW n \in Counts,
           NEW size \in Sizes, InitEncodeMSDK(n, size)
    PROVE  MSDKInv'
<1> DEFINE phase == IF Complete(n) THEN "working" ELSE "tried"
           first == msdk.phase \in {"new", "released"}
           c == Phase(msdk, phase, first)
           closed == [c EXCEPT !.surfaces = "null", !.allocator = FALSE, !.coding = "AVC"]
<1>1. IsMSDK(msdk) /\ (msdk.orderly /\ msdk.device => Held(msdk))
  BY DEF MSDKInv
<1>2. Len(Stages) = 7
  BY DEF Stages
<1>3. \/ msdk.inited /\ (msdk' = Fault(closed) \/ msdk' = closed)
      \/ /\ ~msdk.inited
         /\ \/ msdk' = Reached(c, n, size)
            \/ n = 5 /\ msdk' = Leaks(Reached(c, n, size), {"frames"})
      \/ ~msdk.device /\ msdk' = Fault(c)
  BY <1>2 DEF InitEncodeMSDK, Complete
<1>4. first \in BOOLEAN /\ phase \in Phases
  BY DEF Phases
<1> HIDE DEF first, phase, closed, c
<1>5. /\ IsMSDK(c) /\ c.phase = phase /\ (c.orderly <=> msdk.orderly /\ first)
      /\ c.codec = msdk.codec /\ c.device = msdk.device /\ c.session = msdk.session
      /\ c.encoder = msdk.encoder /\ c.allocator = msdk.allocator
      /\ c.surfaces = msdk.surfaces /\ c.inited = msdk.inited
      /\ c.grown = msdk.grown /\ c.leaked = msdk.leaked /\ c.fault = msdk.fault
  <2>1. c = Phase(msdk, phase, first)
    BY DEF c
  <2>2. QED
    BY <1>1, <1>4, <2>1, PhaseFields
<1>6. c.orderly /\ c.device =>
          /\ Held(msdk) /\ ~msdk.inited /\ msdk.session # "live" /\ ~msdk.encoder
          /\ msdk.surfaces = "null"
  BY <1>1, <1>5 DEF Held, first
<1>7. CASE msdk.inited /\ (msdk' = Fault(closed) \/ msdk' = closed)
  <2>1. /\ IsMSDK(closed) /\ closed.orderly = c.orderly /\ closed.device = c.device
    BY <1>5 DEF closed, IsMSDK
  <2>2. ~(closed.orderly /\ closed.device)
    BY <1>6, <1>7, <2>1
  <2>3. QED
    BY <1>7, <2>1, <2>2, FaultOutOfOrder DEF MSDKInv
<1>8. CASE ~msdk.device /\ msdk' = Fault(c)
  BY <1>5, <1>8, FaultOutOfOrder
<1> DEFINE r == Reached(c, n, size)
<1>9. /\ IsMSDK(r) /\ r.codec = c.codec /\ r.phase = c.phase
      /\ (r.device <=> c.device) /\ (r.orderly <=> c.orderly)
      /\ (r.grown <=> c.grown) /\ (r.fault <=> c.fault)
      /\ r.session # "unassigned" /\ (r.inited => Complete(n))
      /\ Complete(n) => /\ r.session = "live" /\ r.allocator /\ r.encoder
                        /\ r.surfaces = "live"
                        /\ r.coding = IF c.codec = "H265" THEN "HEVC" ELSE "AVC"
      /\ c.session # "live" /\ ~c.encoder /\ c.surfaces = "null" => r.leaked = c.leaked
  <2> HIDE DEF r
  <2>1. r = Reached(c, n, size)
    BY DEF r
  <2>2. QED
    BY <1>5, <2>1, ReachedFields
<1> HIDE DEF r
<1>10. ASSUME r.orderly, r.device PROVE Held(r)
  <2>1. /\ Held(msdk) /\ msdk.session # "live" /\ ~msdk.encoder /\ msdk.surfaces = "null"
    BY <1>6, <1>9, <1>10
  <2>2. r.leaked \subseteq {"frames"} \cup (IF r.grown THEN {"bitstream"} ELSE {})
    BY <1>5, <1>9, <2>1 DEF Held
  <2>3. ~r.fault
    BY <1>5, <1>9, <2>1 DEF Held
  <2>4. r.phase = IF Complete(n) THEN "working" ELSE "tried"
    BY <1>5, <1>9 DEF phase
  <2>5. QED
    BY <1>9, <2>2, <2>3, <2>4, <1>5 DEF Held
<1>11. CASE msdk' = r
  BY <1>9, <1>10, <1>11 DEF MSDKInv
<1>12. CASE msdk' = Leaks(r, {"frames"})
  <2>1. r.leaked \cup {"frames"} \in SUBSET Objects
    BY <1>9 DEF IsMSDK, Objects
  <2>2. /\ IsMSDK(msdk') /\ msdk'.leaked = r.leaked \cup {"frames"}
        /\ msdk'.phase = r.phase /\ msdk'.orderly = r.orderly /\ msdk'.codec = r.codec
        /\ msdk'.device = r.device /\ msdk'.session = r.session
        /\ msdk'.encoder = r.encoder /\ msdk'.allocator = r.allocator
        /\ msdk'.surfaces = r.surfaces /\ msdk'.inited = r.inited
        /\ msdk'.coding = r.coding /\ msdk'.grown = r.grown /\ msdk'.fault = r.fault
    BY <1>9, <1>12, <2>1 DEF Leaks, IsMSDK
  <2>3. Held(r) => Held(msdk')
    <3>1. ASSUME Held(r)
          PROVE  msdk'.leaked \subseteq
                     {"frames"} \cup (IF msdk'.grown THEN {"bitstream"} ELSE {})
      BY <2>2, <3>1 DEF Held
    <3>2. QED
      BY <2>2, <3>1 DEF Held
  <2>4. QED
    BY <1>10, <2>2, <2>3 DEF MSDKInv
<1>13. QED
  BY <1>3, <1>7, <1>8, <1>11, <1>12 DEF r

\* A step of the codecs keeps what an encoder holds.
LEMMA MSDKStep == MSDKInv /\ [CodecNext]_codecVars => MSDKInv'
<1> SUFFICES ASSUME MSDKInv, [CodecNext]_codecVars PROVE MSDKInv'
  OBVIOUS
<1>1. CASE MSDKCall
  <2>1. msdk # NoMSDK
    BY <1>1 DEF MSDKCall
  <2>2. ASSUME NEW n \in 0..(Len(Stages)), NEW w \in SurfaceSize, NEW h \in SurfaceSize,
               InitEncodeMSDK(n, <<Align16(w), Align16(h)>>)
        PROVE  MSDKInv'
    <3>1. n \in Counts
      BY <2>2 DEF Stages, Counts
    <3>2. <<Align16(w), Align16(h)>> \in Sizes
      BY MSDKAssumption, AlignedSize DEF Sizes
    <3>3. QED
      BY <2>1, <2>2, <3>1, <3>2, InitEncodingMSDK
  <2>3. ASSUME NEW growths \in 0..2, NEW outcome, EncodeMSDK(growths, outcome)
        PROVE  MSDKInv'
    BY <2>1, <2>3, EncodingMSDK
  <2>4. QED
    BY <1>1, <2>1, <2>2, <2>3, RegisteringMSDK, EncodingNothingMSDK, RatingMSDK,
       ReleasingMSDK DEF MSDKCall
<1>2. CASE UNCHANGED msdk
  BY <1>2 DEF MSDKInv
<1>3. QED
  BY <1>1, <1>2 DEF CodecNext, codecVars

\* What the Intel encoder holds is the same in every history of calls in order.
THEOREM HeldCorrect == CodecSpec => []MSDKInv
<1>1. QED
  BY InitMSDK, MSDKStep, PTL DEF CodecSpec

\* MSDKSafe, for any sizes of the settings: no fault and no leak for an orderly caller, at
\* any failure, and pictures that fit in their surfaces.
THEOREM MSDKCorrect == CodecSpec => []MSDKSafe
<1>1. MSDKInv => MSDKSafe
  <2> SUFFICES ASSUME MSDKInv, msdk # NoMSDK, msdk.orderly, msdk.device
               PROVE  MSDKSafe
    BY DEF MSDKSafe
  <2>1. IsMSDK(msdk) /\ Held(msdk)
    BY DEF MSDKInv
  <2>2. Fits("NV12", msdk.size[1], msdk.size[2])
    BY <2>1, NV12Fits DEF IsMSDK, Sizes
  <2>3. QED
    BY <2>1, <2>2 DEF MSDKSafe, Held
<1>2. QED
  BY <1>1, HeldCorrect, PTL
=============================================================================
