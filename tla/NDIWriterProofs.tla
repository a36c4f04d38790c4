-------------------------- MODULE NDIWriterProofs --------------------------
(***************************************************************************)
(* The invariants of NDIWriter, for any tracks, buffers and sizes, and for *)
(* every interval between two looks at the connections.  WriterProofInv is *)
(* inductive: beside what the runs check, it says where the frame of the   *)
(* only track is on its way to NDI, which fields of the descriptor it has  *)
(* written, and how the frames that were skipped relate to the counter.    *)
(***************************************************************************)
EXTENDS NDIWriter, FiniteSetTheorems, TLAPS

USE WriterAssumption

OneTrack == Cardinality(ever) <= 1

\* Only tracks that are or were sinks deliver frames, and only to an open writer.
PlaceInv == /\ IsFiniteSet(ever)
            /\ \A t \in Track : pc[t] # "idle" => t \in ever /\ writer \in {"open", "aborted"}
            /\ writer \in {"flushed", "gone"} => sending = NullFrame

\* With one track, what NDI reads is the frame kept, or the one about to be kept.
HandOverInv ==
    OneTrack => /\ (\A t \in Track : pc[t] # "keep") => sending.p_data \in {NoBuffer, last}
                /\ \A t \in Track : /\ pc[t] \in {"line_stride", "send"} => descriptor.p_data = frame[t]
                                    /\ pc[t] = "keep" => sending.p_data = frame[t]

\* The size that all frames have, if they have one.
TheSize == IF config.mode = "square"
             THEN <<IF config.out[1] <= config.out[2] THEN config.out[1] ELSE config.out[2],
                    IF config.out[1] <= config.out[2] THEN config.out[1] ELSE config.out[2]>>
             ELSE config.out

\* The fields a track has written are those of its picture.
Written(t) == /\ pc[t] \in {"yres", "p_data", "line_stride", "send"} => descriptor.xres = target[t][1]
              /\ pc[t] \in {"p_data", "line_stride", "send"} => descriptor.yres = target[t][2]
              /\ pc[t] \in {"line_stride", "send"} =>
                     descriptor.p_data # NoBuffer /\ descriptor.p_data.size = target[t]
              /\ pc[t] = "send" => descriptor.line_stride = 2 * target[t][1]

\* Where nothing can come in between, or it brings the same size, NDI is told the truth.
ToldInv == /\ \A t \in Track : frame[t] # NoBuffer => frame[t].size = target[t]
           /\ OneSize => \A t \in Track : frame[t] # NoBuffer => target[t] = TheSize
           /\ OneTrack \/ OneSize => Truthful(sending) /\ \A t \in Track : Written(t)

\* With one track, all frames since the last look were skipped if some were.
NoticeInv ==
    /\ ~clients => missed = 0
    /\ OneTrack => /\ \A t \in Track : pc[t] = "count" => seen[t] = attempts
                   /\ missed < CheckEvery
                   /\ ~connected => IF attempts = 0 THEN missed <= CheckEvery - 1
                                                    ELSE missed <= attempts - 1

\* What PasteFrom refuses.
RefusedInv == refused # Nothing => LET size == refused[1]
                                       s == refused[2]
                                   IN size[1] % 4 # 0 \/ size[2] * s[2] >= (size[1] + 2) * s[1]

WriterProofInv == TypeOK /\ PlaceInv /\ HandOverInv /\ NoticeInv /\ ToldInv /\ RefusedInv
-----------------------------------------------------------------------------
(* The geometry. *)

\* The quotient nearbyint rounds is below any bound that the fraction is half a step below.
LEMMA NearbyBound ==
    ASSUME NEW n \in Nat, NEW d \in Nat \ {0}, NEW k \in Nat, 2 * n < 2 * (k * d) + d
    PROVE  NearbyInt(n, d) \in Nat /\ NearbyInt(n, d) <= k
<1> DEFINE down == n \div d
           rest == n % d
<1>1. down \in Nat /\ rest \in 0..(d - 1) /\ n = d * down + rest
  OBVIOUS
<1> HIDE DEF down, rest
<1>2. down <= k
  <2>1. SUFFICES ASSUME down >= k + 1 PROVE FALSE
    BY <1>1
  <2>2. d * down >= d * (k + 1)
    BY <1>1, <2>1
  <2>3. d * (k + 1) = k * d + d
    OBVIOUS
  <2>4. QED
    BY <1>1, <2>2, <2>3
<1>3. CASE down = k
  <2>1. d * down = k * d
    BY <1>3
  <2>2. 2 * rest < d
    BY <1>1, <2>1
  <2>3. QED
    BY <1>1, <1>3, <2>2 DEF NearbyInt, down, rest
<1>4. CASE down < k
  BY <1>1, <1>4 DEF NearbyInt, down, rest
<1>5. QED
  BY <1>1, <1>2, <1>3, <1>4

\* PasteFrom refuses no picture that is less than half a step of four too wide.
LEMMA PastedIfFits ==
    ASSUME NEW size \in Nat \X Nat, NEW s \in (Nat \ {0}) \X (Nat \ {0}),
           size[1] % 4 = 0, size[2] * s[2] < (size[1] + 2) * s[1]
    PROVE  Pasted(size, s)
<1> DEFINE w == size[1]
           n == size[2] * s[2]
           r == NearbyInt(n, 4 * s[1])
<1>1. w \in Nat /\ n \in Nat /\ s[1] \in Nat \ {0} /\ 4 * s[1] \in Nat \ {0}
  OBVIOUS
<1>2. PICK k \in Nat : w = 4 * k
  BY <1>1
<1>3. r \in Nat /\ r <= k
  <2>1. (w + 2) * s[1] = k * (4 * s[1]) + 2 * s[1]
    BY <1>1, <1>2
  <2>2. 2 * n < 2 * (k * (4 * s[1])) + 4 * s[1]
    BY <1>1, <2>1
  <2>3. QED
    BY <1>1, <2>2, NearbyBound
<1>4. ScaledWidth(size, s) = 4 * r
  BY DEF ScaledWidth
<1> HIDE DEF r
<1>5. PadWidth(size, s) = 2 * (k - r)
  <2>1. w - 4 * r >= 0 /\ (w - 4 * r) \div 2 = 2 * (k - r)
    BY <1>2, <1>3
  <2>2. QED
    BY <1>4, <2>1 DEF PadWidth
<1>6. QED
  BY <1>2, <1>3, <1>4, <1>5 DEF Pasted

\* In every mode the buffer has the size announced, and is pasted unless it is too wide.
LEMMA ProcessFits ==
    ASSUME NEW c \in Configuration, NEW s \in Size, NEW rotation \in Rotation
    PROVE  LET g == Process(c, s, rotation)
           IN /\ Converted(g) = g.target
              /\ ~g.pasted => \/ g.target[1] % 4 # 0
                              \/ g.target[2] * s[2] >= (g.target[1] + 2) * s[1]
<1> DEFINE g == Process(c, s, rotation)
<1>1. s \in (Nat \ {0}) \X (Nat \ {0}) /\ c.out \in Nat \X Nat
  BY DEF Configuration
<1>2. CASE c.mode = "vertical"
  BY <1>2 DEF Process, AsIs, Converted
<1>3. CASE c.mode = "square"
  BY <1>3 DEF Process, Square, Converted
<1>4. CASE c.mode = "pad"
  <2>1. g = Pad(c.out, s, rotation)
    BY <1>4 DEF Process
  <2>2. Converted(g) = g.target
    BY <2>1 DEF Pad, Converted
  <2>3. g.target = Output(c.out, s)
    BY <2>1 DEF Pad
  <2>4. ~g.pasted => ~Pasted(Output(c.out, s), s)
    <3> DEFINE size == IF Quarter(rotation) THEN Output(c.out, s) ELSE s
    <3>1. g.pasted = (Quarter(rotation) => Pasted(size, s))
      BY <2>1 DEF Pad
    <3>2. ~g.pasted => Quarter(rotation) /\ ~Pasted(size, s)
      BY <3>1, Zenon
    <3>3. Quarter(rotation) => size = Output(c.out, s)
      OBVIOUS
    <3> HIDE DEF g, size
    <3>4. QED
      BY <3>2, <3>3
  <2>5. Output(c.out, s) \in Nat \X Nat
    BY <1>1 DEF Output
  <2> HIDE DEF g
  <2>6. g.target = Output(c.out, s) => g.target[1] \in Nat /\ g.target[2] \in Nat
    BY <2>5
  <2>7. ASSUME ~g.pasted, g.target[1] % 4 = 0
        PROVE  g.target[2] * s[2] >= (g.target[1] + 2) * s[1]
    <3>1. ~(g.target[2] * s[2] < (g.target[1] + 2) * s[1])
      BY <1>1, <2>3, <2>4, <2>5, <2>7, PastedIfFits
    <3>2. g.target[2] * s[2] \in Int /\ (g.target[1] + 2) * s[1] \in Int
      BY <1>1, <2>3, <2>4, <2>6, <2>7
    <3>3. QED
      BY <3>1, <3>2
  <2>8. QED
    BY <2>2, <2>7 DEF g
<1>5. QED
  BY <1>2, <1>3, <1>4 DEF Configuration

\* A size announced is a pair of numbers, and the configured one if there is one for all.
LEMMA TargetSize ==
    ASSUME config \in Configuration, NEW s \in Size, NEW rotation \in Rotation
    PROVE  LET g == Process(config, s, rotation)
           IN /\ g.target \in Nat \X Nat
              /\ OneSize => g.target = TheSize
<1>1. s \in (Nat \ {0}) \X (Nat \ {0}) /\ config.out \in Nat \X Nat
  BY DEF Configuration
<1>2. /\ Output(config.out, s) \in Nat \X Nat
      /\ OneSize => Output(config.out, s) = config.out
  BY <1>1 DEF Output, OneSize
<1>3. CASE config.mode = "vertical"
  <2>1. Process(config, s, rotation).target = Turned(Output(config.out, s), rotation)
    BY <1>3 DEF Process, AsIs
  <2>2. QED
    BY <1>2, <1>3, <2>1 DEF Turned, OneSize
<1>4. CASE config.mode = "square"
  BY <1>2, <1>4 DEF Process, Square, TheSize
<1>5. CASE config.mode = "pad"
  <2>1. Process(config, s, rotation).target = Output(config.out, s)
    BY <1>5 DEF Process, Pad
  <2>2. QED
    BY <1>2, <1>5, <2>1 DEF TheSize
<1>6. QED
  BY <1>3, <1>4, <1>5 DEF Configuration
-----------------------------------------------------------------------------
(* The steps. *)

\* The fields of the descriptor, in the order of their writes.
LEMMA Fields == /\ DOMAIN After = {"xres", "yres", "p_data", "line_stride"}
                /\ After["xres"] = "yres"
                /\ After["yres"] = "p_data"
                /\ After["p_data"] = "line_stride"
                /\ After["line_stride"] = "send"
  BY DEF After

\* The null pointer is no frame.
LEMMA NoFrame == NoBuffer \notin Frame
  BY DEF Frame

\* What is written to which field.
LEMMA DescribeWrites ==
    ASSUME NEW t \in Track, Describe(t)
    PROVE  \/ /\ pc[t] = "xres" /\ Goto(t, "yres")
              /\ descriptor' = [descriptor EXCEPT !.xres = target[t][1]]
           \/ /\ pc[t] = "yres" /\ Goto(t, "p_data")
              /\ descriptor' = [descriptor EXCEPT !.yres = target[t][2]]
           \/ /\ pc[t] = "p_data" /\ Goto(t, "line_stride")
              /\ descriptor' = [descriptor EXCEPT !.p_data = frame[t]]
           \/ /\ pc[t] = "line_stride" /\ Goto(t, "send")
              /\ descriptor' = [descriptor EXCEPT !.line_stride = 2 * target[t][1]]
<1>1. pc[t] \in {"xres", "yres", "p_data", "line_stride"}
  BY Fields DEF Describe
<1>2. /\ Description(t)["xres"] = target[t][1]
      /\ Description(t)["yres"] = target[t][2]
      /\ Description(t)["p_data"] = frame[t]
      /\ Description(t)["line_stride"] = 2 * target[t][1]
  BY DEF Description
<1>3. QED
  BY <1>1, <1>2, Fields DEF Describe

\* No other track delivers frames when there has been one.
LEMMA OnlyTrack ==
    ASSUME IsFiniteSet(ever), OneTrack, NEW t \in ever, NEW u \in ever
    PROVE  t = u
<1> SUFFICES ASSUME t # u PROVE FALSE
  OBVIOUS
<1>1. Cardinality({t}) = 1 /\ IsFiniteSet({t})
  BY FS_Singleton
<1>2. Cardinality({t} \cup {u}) = 2 /\ IsFiniteSet({t} \cup {u})
  <2>1. u \notin {t}
    OBVIOUS
  <2>2. Cardinality({t} \cup {u}) = Cardinality({t}) + 1 /\ IsFiniteSet({t} \cup {u})
    BY <1>1, <2>1, FS_AddElement
  <2>3. QED
    BY <1>1, <2>2
<1>3. {t} \cup {u} \in SUBSET ever
  OBVIOUS
<1>4. Cardinality({t} \cup {u}) <= Cardinality(ever)
  BY <1>3, FS_Subset
<1>5. Cardinality(ever) \in Nat
  BY FS_CardinalityType
<1>6. QED
  BY <1>2, <1>4, <1>5 DEF OneTrack

\* A track more does not make one of two.
LEMMA FewerBefore ==
    ASSUME IsFiniteSet(ever), NEW t, ever' = ever \cup {t}, OneTrack'
    PROVE  OneTrack
<1>1. IsFiniteSet(ever') /\ Cardinality(ever) <= Cardinality(ever')
  BY FS_AddElement, FS_Subset
<1>2. Cardinality(ever) \in Nat /\ Cardinality(ever') \in Nat
  BY <1>1, FS_CardinalityType
<1>3. QED
  BY <1>1, <1>2 DEF OneTrack

\* A writer that is not open yet satisfies the invariant.
LEMMA InitWriter == Init => WriterProofInv
<1> SUFFICES ASSUME Init PROVE WriterProofInv
  OBVIOUS
<1> USE DEF Init
<1>1. TypeOK
  <2>1. attempts \in 0..(CheckEvery - 1) /\ missed \in 0..CheckEvery
    OBVIOUS
  <2>2. seen \in [Track -> 0..(CheckEvery - 1)]
    BY <2>1
  <2>3. clients \in BOOLEAN /\ connected \in BOOLEAN
    OBVIOUS
  <2>4. /\ target \in [Track -> Nat \X Nat]
        /\ frame \in [Track -> Frame \cup {NoBuffer}]
        /\ \A t \in Track : /\ frame[t] # NoBuffer <=> pc[t] \in {"send", "keep"} \cup DOMAIN After
                            /\ pc[t] \in {"idle", "count", "convert", "send", "keep"}
    BY Fields
  <2>5. descriptor \in Descriptor /\ sending \in Descriptor
    BY DEF Descriptor, NullFrame
  <2>6. QED
    BY <2>1, <2>2, <2>3, <2>4, <2>5 DEF TypeOK
<1>2. PlaceInv
  BY FS_EmptySet DEF PlaceInv
<1>3. HandOverInv /\ NoticeInv
  BY DEF HandOverInv, NoticeInv, NullFrame
<1>4. ToldInv /\ RefusedInv
  BY DEF ToldInv, Written, Truthful, NullFrame, RefusedInv
<1>5. QED
  BY <1>1, <1>2, <1>3, <1>4 DEF WriterProofInv

\* No step takes a variable out of its type.
LEMMA TypeStep == TypeOK /\ [Next]_vars => TypeOK'
<1> SUFFICES ASSUME TypeOK, [Next]_vars PROVE TypeOK'
  OBVIOUS
<1> USE DEF TypeOK, sizeVars, countVars, localVars, Goto
<1>1. ASSUME NEW t \in Track, OpenFails(t) \/ SetVideoTrack(t) \/ ResetVideoTrack(t)
      PROVE  TypeOK'
  BY <1>1 DEF OpenFails, SetVideoTrack, ResetVideoTrack
<1>2. ASSUME NEW t \in Track, OnFrame(t) PROVE TypeOK'
  BY <1>2, Fields DEF OnFrame
<1>3. ASSUME NEW t \in Track, Count(t) PROVE TypeOK'
  <2>1. attempts' \in 0..(CheckEvery - 1) /\ connected' \in BOOLEAN
    BY <1>3 DEF Count
  <2>2. missed' \in 0..CheckEvery
    BY <1>3 DEF Count, Skip
  <2>3. pc' = [pc EXCEPT ![t] = "convert"] \/ pc' = [pc EXCEPT ![t] = "idle"]
    BY <1>3 DEF Count
  <2>4. /\ pc' \in [Track -> {"idle", "count", "convert", "send", "keep"} \cup DOMAIN After]
        /\ \A u \in Track : frame[u] # NoBuffer <=> pc'[u] \in {"send", "keep"} \cup DOMAIN After
    BY <1>3, <2>3, Fields DEF Count
  <2>5. QED
    BY <1>3, <2>1, <2>2, <2>4 DEF Count
<1>4. ASSUME NEW t \in Track, Convert(t) PROVE TypeOK'
  <2>1. pc[t] = "convert" /\ config \in Configuration
    BY <1>4 DEF Convert
  <2>2. writer' \in {writer, "aborted"} /\ (refused' # Nothing => writer' = "aborted")
    BY <1>4 DEF Convert
  <2>3. PICK s \in Size, rotation \in Rotation :
            LET g == Process(config, s, rotation)
            IN \/ UNCHANGED <<frame, target>> /\ (UNCHANGED pc \/ pc' = [pc EXCEPT ![t] = "idle"])
               \/ /\ \E b \in Buffer : frame' = [frame EXCEPT ![t] = [at |-> b, size |-> Converted(g)]]
                  /\ target' = [target EXCEPT ![t] = g.target]
                  /\ pc' = [pc EXCEPT ![t] = "xres"]
    BY <1>4 DEF Convert
  <2> DEFINE g == Process(config, s, rotation)
  <2>4. g.target \in Nat \X Nat /\ Converted(g) = g.target
    BY <2>1, TargetSize, ProcessFits
  <2>5. \/ UNCHANGED <<frame, target>> /\ (UNCHANGED pc \/ pc' = [pc EXCEPT ![t] = "idle"])
        \/ /\ \E f \in Frame : frame' = [frame EXCEPT ![t] = f]
           /\ target' = [target EXCEPT ![t] = g.target]
           /\ pc' = [pc EXCEPT ![t] = "xres"]
    BY <2>3, <2>4 DEF Frame
  <2> HIDE DEF g
  <2>6. /\ target' \in [Track -> Nat \X Nat]
        /\ frame' \in [Track -> Frame \cup {NoBuffer}]
        /\ pc' \in [Track -> {"idle", "count", "convert", "send", "keep"} \cup DOMAIN After]
        /\ \A u \in Track : frame'[u] # NoBuffer <=> pc'[u] \in {"send", "keep"} \cup DOMAIN After
    BY <2>1, <2>4, <2>5, Fields, NoFrame
  <2>7. QED
    BY <1>4, <2>2, <2>6 DEF Convert
<1>5. ASSUME NEW t \in Track, Describe(t) \/ SendAsync(t) \/ Keep(t) PROVE TypeOK'
  <2>1. CASE Describe(t)
    <3>1. descriptor' \in Descriptor
      BY <2>1, DescribeWrites DEF Descriptor
    <3>2. /\ pc' \in [Track -> {"idle", "count", "convert", "send", "keep"} \cup DOMAIN After]
          /\ \A u \in Track : frame[u] # NoBuffer <=> pc'[u] \in {"send", "keep"} \cup DOMAIN After
      BY <2>1, DescribeWrites, Fields
    <3>3. QED
      BY <2>1, <3>1, <3>2 DEF Describe
  <2>2. CASE SendAsync(t)
    BY <2>2, Fields DEF SendAsync
  <2>3. CASE Keep(t)
    BY <2>3, Fields DEF Keep
  <2>4. QED
    BY <1>5, <2>1, <2>2, <2>3
<1>6. CASE ClientsChange \/ Flush \/ Destroy
  <2>1. CASE ClientsChange
    <3>1. clients' \in BOOLEAN /\ missed' \in 0..CheckEvery
      BY <2>1 DEF ClientsChange
    <3>2. QED
      BY <2>1, <3>1 DEF ClientsChange
  <2>2. CASE Flush \/ Destroy
    BY <2>2 DEF Flush, Destroy, Descriptor, NullFrame
  <2>3. QED
    BY <1>6, <2>1, <2>2
<1>7. CASE UNCHANGED vars
  BY <1>7 DEF vars
<1>8. QED
  BY <1>1, <1>2, <1>3, <1>4, <1>5, <1>6, <1>7 DEF Next, Step, Gone

\* Frames are delivered by sinks only, and the last one is given back before the end.
LEMMA PlaceStep == TypeOK /\ PlaceInv /\ [Next]_vars => PlaceInv'
<1> SUFFICES ASSUME TypeOK, PlaceInv, [Next]_vars PROVE PlaceInv'
  OBVIOUS
<1> USE DEF TypeOK, PlaceInv, sizeVars, countVars, localVars, Goto
<1>1. ASSUME NEW t \in Track, OpenFails(t) \/ ResetVideoTrack(t) PROVE PlaceInv'
  BY <1>1 DEF OpenFails, ResetVideoTrack
<1>2. ASSUME NEW t \in Track, SetVideoTrack(t) PROVE PlaceInv'
  BY <1>2, FS_AddElement DEF SetVideoTrack
<1>3. ASSUME NEW t \in Track, OnFrame(t) \/ Count(t) PROVE PlaceInv'
  BY <1>3 DEF OnFrame, Count
<1>4. ASSUME NEW t \in Track, Convert(t) PROVE PlaceInv'
  <2>1. pc[t] = "convert" /\ writer' \in {writer, "aborted"} /\ UNCHANGED <<ever, sending>>
    BY <1>4 DEF Convert
  <2>2. UNCHANGED pc \/ pc' = [pc EXCEPT ![t] = "idle"] \/ pc' = [pc EXCEPT ![t] = "xres"]
    BY <1>4 DEF Convert
  <2>3. QED
    BY <2>1, <2>2
<1>5. ASSUME NEW t \in Track, Describe(t) \/ SendAsync(t) \/ Keep(t) PROVE PlaceInv'
  BY <1>5, Fields DEF Describe, SendAsync, Keep
<1>6. CASE ClientsChange \/ Flush \/ Destroy
  BY <1>6 DEF ClientsChange, Flush, Destroy
<1>7. CASE UNCHANGED vars
  BY <1>7 DEF vars
<1>8. QED
  BY <1>1, <1>2, <1>3, <1>4, <1>5, <1>6, <1>7 DEF Next, Step, Gone

\* The frame handed over is the one kept next, because no other track is in between.
LEMMA HandOverStep == TypeOK /\ PlaceInv /\ HandOverInv /\ [Next]_vars => HandOverInv'
<1> SUFFICES ASSUME TypeOK, PlaceInv, HandOverInv, [Next]_vars, OneTrack' PROVE HandOverInv'
  BY DEF HandOverInv
<1> USE DEF TypeOK, PlaceInv, HandOverInv, sizeVars, countVars, localVars, Goto
<1>1. ASSUME NEW t \in Track, OpenFails(t) \/ ResetVideoTrack(t) PROVE HandOverInv'
  BY <1>1 DEF OpenFails, ResetVideoTrack, OneTrack
<1>2. ASSUME NEW t \in Track, SetVideoTrack(t) PROVE HandOverInv'
  <2>1. OneTrack
    BY <1>2, FewerBefore DEF SetVideoTrack
  <2>2. QED
    BY <1>2, <2>1 DEF SetVideoTrack
<1>3. ASSUME NEW t \in Track,
             OnFrame(t) \/ Count(t) \/ Convert(t) \/ Describe(t) \/ SendAsync(t) \/ Keep(t)
      PROVE  HandOverInv'
  <2>1. UNCHANGED ever
    BY <1>3 DEF OnFrame, Count, Convert, Describe, SendAsync, Keep
  <2>2. OneTrack
    BY <2>1 DEF OneTrack
  <2>3. t \in ever
    BY <1>3, Fields DEF OnFrame, Count, Convert, Describe, SendAsync, Keep
  <2>4. \A u \in Track : u # t => pc[u] = "idle"
    BY <2>2, <2>3, OnlyTrack
  <2>5. CASE OnFrame(t) \/ Count(t)
    BY <2>2, <2>4, <2>5 DEF OnFrame, Count
  <2>6. CASE Convert(t)
    <3>1. pc[t] = "convert" /\ UNCHANGED <<sending, last, descriptor>>
      BY <2>6 DEF Convert
    <3>2. pc'[t] \in {"convert", "idle", "xres"} /\ \A u \in Track : u # t => pc'[u] = "idle"
      BY <2>4, <2>6 DEF Convert
    <3>3. QED
      BY <2>2, <2>4, <3>1, <3>2
  <2>7. CASE Describe(t) \/ SendAsync(t)
    <3>1. CASE Describe(t)
      <4>1. UNCHANGED <<frame, sending, last>>
        BY <3>1 DEF Describe
      <4>2. /\ \A u \in Track : pc[u] # "keep" /\ pc'[u] # "keep"
            /\ \A u \in Track : u # t => pc'[u] = "idle"
            /\ pc'[t] \in {"line_stride", "send"} => descriptor'.p_data = frame[t]
        BY <2>2, <2>4, <3>1, DescribeWrites DEF Descriptor
      <4>3. QED
        BY <2>2, <4>1, <4>2
    <3>2. CASE SendAsync(t)
      BY <2>2, <2>4, <3>2 DEF SendAsync
    <3>3. QED
      BY <2>7, <3>1, <3>2
  <2>8. CASE Keep(t)
    BY <2>2, <2>4, <2>8 DEF Keep
  <2>9. QED
    BY <1>3, <2>5, <2>6, <2>7, <2>8
<1>4. CASE ClientsChange \/ Flush \/ Destroy
  BY <1>4 DEF ClientsChange, Flush, Destroy, OneTrack, NullFrame
<1>5. CASE UNCHANGED vars
  BY <1>5 DEF vars, OneTrack
<1>6. QED
  BY <1>1, <1>2, <1>3, <1>4, <1>5 DEF Next, Step, Gone

\* The counter modulo the interval, one frame later.
LEMMA NextAttempt ==
    ASSUME NEW n \in 0..(CheckEvery - 1)
    PROVE  (n + 1) % CheckEvery = IF n + 1 = CheckEvery THEN 0 ELSE n + 1
<1>1. CheckEvery \in Nat /\ CheckEvery >= 1 /\ n \in Nat /\ n + 1 <= CheckEvery
  OBVIOUS
<1>2. CASE n + 1 = CheckEvery
  BY <1>1, <1>2
<1>3. CASE n + 1 < CheckEvery
  BY <1>1, <1>3
<1>4. QED
  BY <1>1, <1>2, <1>3

\* A frame that is skipped although there are clients is one step further from the last look.
LEMMA NoticeStep == TypeOK /\ PlaceInv /\ NoticeInv /\ [Next]_vars => NoticeInv'
<1> SUFFICES ASSUME TypeOK, PlaceInv, NoticeInv, [Next]_vars PROVE NoticeInv'
  OBVIOUS
<1> USE DEF TypeOK, PlaceInv, NoticeInv, sizeVars, countVars, localVars, Goto
<1>1. ASSUME NEW t \in Track, OpenFails(t) \/ ResetVideoTrack(t) PROVE NoticeInv'
  BY <1>1 DEF OpenFails, ResetVideoTrack, OneTrack
<1>2. ASSUME NEW t \in Track, SetVideoTrack(t) PROVE NoticeInv'
  <2>1. OneTrack' => OneTrack
    BY <1>2, FewerBefore DEF SetVideoTrack
  <2>2. QED
    BY <1>2, <2>1 DEF SetVideoTrack
<1>3. ASSUME NEW t \in Track, OnFrame(t) PROVE NoticeInv'
  BY <1>3 DEF OnFrame, OneTrack
<1>4. ASSUME NEW t \in Track, Count(t) PROVE NoticeInv'
  <2>1. UNCHANGED <<ever, clients, seen>> /\ t \in ever
    BY <1>4 DEF Count
  <2>2. ~clients' => missed' = 0
    BY <1>4 DEF Count, Skip
  <2>3. SUFFICES ASSUME OneTrack
                 PROVE  /\ \A u \in Track : pc'[u] = "count" => seen'[u] = attempts'
                        /\ missed' < CheckEvery
                        /\ ~connected' => IF attempts' = 0 THEN missed' <= CheckEvery - 1
                                                           ELSE missed' <= attempts' - 1
    BY <2>1, <2>2 DEF OneTrack
  <2>4. \A u \in Track : pc'[u] # "count"
    BY <1>4, <2>1, <2>3, OnlyTrack DEF Count
  <2>5. seen[t] = attempts
    BY <1>4, <2>3 DEF Count
  <2>6. attempts' = IF attempts + 1 = CheckEvery THEN 0 ELSE attempts + 1
    <3>1. attempts' = (attempts + 1) % CheckEvery /\ attempts \in 0..(CheckEvery - 1)
      BY <1>4, <2>5 DEF Count
    <3>2. QED
      BY <3>1, NextAttempt
  <2>7. CASE connected'
    <3>1. missed' = missed
      BY <1>4, <2>7 DEF Count
    <3>2. QED
      BY <2>3, <2>4, <2>7, <3>1
  <2>8. CASE ~connected'
    <3>1. missed' = IF clients /\ missed < CheckEvery THEN missed + 1 ELSE missed
      BY <1>4, <2>8 DEF Count, Skip
    <3>2. CASE ~clients
      BY <2>4, <2>6, <3>1, <3>2
    <3>3. CASE clients
      <4>1. attempts # 0 /\ ~connected
        BY <1>4, <2>5, <2>8, <3>3 DEF Count
      <4>2. missed <= attempts - 1
        BY <2>3, <4>1
      <4>3. QED
        BY <2>3, <2>4, <2>6, <3>1, <4>1, <4>2
    <3>4. QED
      BY <3>2, <3>3
  <2>9. QED
    BY <2>7, <2>8
<1>5. ASSUME NEW t \in Track, Convert(t) PROVE NoticeInv'
  <2>1. UNCHANGED <<clients, attempts, connected, missed, ever, seen>>
    BY <1>5 DEF Convert
  <2>2. \A u \in Track : pc'[u] = "count" => pc[u] = "count"
    BY <1>5 DEF Convert
  <2>3. QED
    BY <2>1, <2>2 DEF OneTrack
<1>6. ASSUME NEW t \in Track, Describe(t) \/ SendAsync(t) \/ Keep(t) PROVE NoticeInv'
  <2>1. CASE Describe(t)
    BY <2>1, DescribeWrites DEF Describe, OneTrack
  <2>2. CASE SendAsync(t) \/ Keep(t)
    BY <2>2 DEF SendAsync, Keep, OneTrack
  <2>3. QED
    BY <1>6, <2>1, <2>2
<1>7. CASE ClientsChange \/ Flush \/ Destroy
  BY <1>7 DEF ClientsChange, Flush, Destroy, OneTrack
<1>8. CASE UNCHANGED vars
  BY <1>8 DEF vars, OneTrack
<1>9. QED
  BY <1>1, <1>2, <1>3, <1>4, <1>5, <1>6, <1>7, <1>8 DEF Next, Step, Gone

\* What NDI is told was written by the only track, or is the same for all of them.
LEMMA ToldStep == TypeOK /\ PlaceInv /\ ToldInv /\ [Next]_vars => ToldInv'
<1> SUFFICES ASSUME TypeOK, PlaceInv, ToldInv, [Next]_vars PROVE ToldInv'
  OBVIOUS
<1>0. UNCHANGED config
  BY DEF Next, Step, Gone, OpenFails, SetVideoTrack, ResetVideoTrack, OnFrame, Count, Convert,
         Describe, SendAsync, Keep, ClientsChange, Flush, Destroy, vars, sizeVars
<1>1. (OneSize <=> OneSize') /\ TheSize' = TheSize
  BY <1>0 DEF OneSize, TheSize
<1>2. CASE UNCHANGED <<frame, target, descriptor, sending, ever>>
           /\ \A t \in Track : pc'[t] \in {"idle", "count", "convert"} \/ pc'[t] = pc[t]
  BY <1>1, <1>2 DEF ToldInv, Written, Truthful, OneTrack
<1>3. ASSUME NEW t \in Track, SetVideoTrack(t) PROVE ToldInv'
  <2>1. OneTrack' => OneTrack
    BY <1>3, FewerBefore DEF SetVideoTrack, PlaceInv
  <2>2. UNCHANGED <<frame, target, descriptor, sending, pc>>
    BY <1>3 DEF SetVideoTrack, localVars
  <2>3. QED
    BY <1>1, <2>1, <2>2 DEF ToldInv, Written, Truthful
<1>4. ASSUME NEW t \in Track, Convert(t), ~UNCHANGED frame PROVE ToldInv'
  <2>1. PICK s \in Size, rotation \in Rotation :
            LET g == Process(config, s, rotation)
            IN /\ \E b \in Buffer : frame' = [frame EXCEPT ![t] = [at |-> b, size |-> Converted(g)]]
               /\ target' = [target EXCEPT ![t] = g.target]
               /\ pc' = [pc EXCEPT ![t] = "xres"]
    BY <1>4 DEF Convert, Goto
  <2>2. UNCHANGED <<descriptor, sending, ever>> /\ pc[t] = "convert"
    BY <1>4 DEF Convert
  <2> DEFINE g == Process(config, s, rotation)
  <2>3. Converted(g) = g.target /\ g.target \in Nat \X Nat /\ (OneSize => g.target = TheSize)
    BY ProcessFits, TargetSize DEF TypeOK
  <2>4. PICK b \in Buffer : frame' = [frame EXCEPT ![t] = [at |-> b, size |-> g.target]]
    BY <2>1, <2>3
  <2>5. target' = [target EXCEPT ![t] = g.target] /\ pc' = [pc EXCEPT ![t] = "xres"]
    BY <2>1
  <2> HIDE DEF g
  <2>6. frame'[t].size = target'[t] /\ (OneSize => target'[t] = TheSize)
    BY <2>3, <2>4, <2>5 DEF TypeOK
  <2>7. \A u \in Track : u # t => UNCHANGED <<frame[u], target[u], pc[u]>>
    BY <2>4, <2>5 DEF TypeOK
  <2>8. pc'[t] = "xres"
    BY <2>5 DEF TypeOK
  <2>9. (OneTrack <=> OneTrack') /\ (Truthful(sending) <=> Truthful(sending)')
    BY <2>2 DEF OneTrack, Truthful
  <2>10. \A u \in Track : Written(u) => Written(u)'
    BY <2>2, <2>7, <2>8 DEF Written
  <2>11. QED
    BY <1>1, <2>6, <2>7, <2>9, <2>10 DEF ToldInv
<1>5. ASSUME NEW t \in Track, Describe(t) PROVE ToldInv'
  <2>1. UNCHANGED <<frame, target, sending, ever>> /\ pc[t] # "idle"
    BY <1>5, Fields DEF Describe, localVars
  <2>2. (OneTrack <=> OneTrack') /\ (Truthful(sending) <=> Truthful(sending)')
    BY <2>1 DEF OneTrack, Truthful
  <2>3. ASSUME OneTrack \/ OneSize, NEW u \in Track PROVE Written(u)'
    <3>1. Written(u) /\ Written(t)
      BY <2>3 DEF ToldInv
    <3>2. pc[u] \in {"idle", "count", "convert", "xres"} \/ target[u] = target[t]
      <4>1. CASE OneTrack
        BY <2>1, <4>1, OnlyTrack DEF PlaceInv
      <4>2. CASE OneSize
        <5>1. frame[t] # NoBuffer /\ (frame[u] # NoBuffer \/ pc[u] \in {"idle", "count", "convert"})
          BY <1>5, Fields DEF TypeOK, Describe
        <5>2. QED
          BY <4>2, <5>1 DEF ToldInv
      <4>3. QED
        BY <2>3, <4>1, <4>2
    <3>3. frame[t] # NoBuffer /\ frame[t].size = target[t]
      BY <1>5, Fields DEF TypeOK, ToldInv, Describe
    <3>4. u # t => pc'[u] = pc[u]
      BY <1>5 DEF Describe, Goto, TypeOK
    <3>5. CASE pc[t] = "xres"
      BY <1>5, <2>1, <3>1, <3>2, <3>4, <3>5, DescribeWrites DEF Written, Goto, TypeOK, Descriptor
    <3>6. CASE pc[t] = "yres"
      BY <1>5, <2>1, <3>1, <3>2, <3>4, <3>6, DescribeWrites DEF Written, Goto, TypeOK, Descriptor
    <3>7. CASE pc[t] = "p_data"
      BY <1>5, <2>1, <3>1, <3>2, <3>3, <3>4, <3>7, DescribeWrites DEF Written, Goto, TypeOK, Descriptor
    <3>8. CASE pc[t] = "line_stride"
      BY <1>5, <2>1, <3>1, <3>2, <3>4, <3>8, DescribeWrites DEF Written, Goto, TypeOK, Descriptor
    <3>9. QED
      BY <1>5, <3>5, <3>6, <3>7, <3>8, DescribeWrites
  <2>4. QED
    BY <1>1, <2>1, <2>2, <2>3 DEF ToldInv
<1>6. ASSUME NEW t \in Track, SendAsync(t) PROVE ToldInv'
  <2>1. /\ UNCHANGED <<frame, target, descriptor, ever>> /\ sending' = descriptor
        /\ pc[t] = "send" /\ pc' = [pc EXCEPT ![t] = "keep"]
    BY <1>6 DEF SendAsync, localVars, Goto
  <2>2. OneTrack <=> OneTrack'
    BY <2>1 DEF OneTrack
  <2>3. \A u \in Track : pc'[u] = pc[u] \/ pc'[u] = "keep"
    BY <2>1 DEF TypeOK
  <2>4. \A u \in Track : Written(u) => Written(u)'
    BY <2>1, <2>3 DEF Written
  <2>5. Written(t) => Truthful(sending)'
    BY <2>1 DEF Written, Truthful, TypeOK
  <2>6. QED
    BY <1>1, <2>1, <2>2, <2>4, <2>5 DEF ToldInv
<1>7. ASSUME NEW t \in Track, Keep(t) PROVE ToldInv'
  <2>1. /\ frame' = [frame EXCEPT ![t] = NoBuffer] /\ target' = [target EXCEPT ![t] = <<0, 0>>]
        /\ pc' = [pc EXCEPT ![t] = "idle"] /\ UNCHANGED <<descriptor, sending, ever>>
    BY <1>7 DEF Keep, Goto
  <2>2. /\ frame'[t] = NoBuffer /\ pc'[t] = "idle"
        /\ \A u \in Track : u # t => UNCHANGED <<frame[u], target[u], pc[u]>>
    BY <2>1 DEF TypeOK
  <2>3. (OneTrack <=> OneTrack') /\ (Truthful(sending) <=> Truthful(sending)')
    BY <2>1 DEF OneTrack, Truthful
  <2>4. \A u \in Track : Written(u) => Written(u)'
    BY <2>1, <2>2 DEF Written
  <2>5. QED
    BY <1>1, <2>2, <2>3, <2>4 DEF ToldInv
<1>8. CASE Flush
  BY <1>1, <1>8 DEF Flush, ToldInv, Written, Truthful, NullFrame, OneTrack, localVars
<1>9. ASSUME NEW t \in Track,
             OpenFails(t) \/ ResetVideoTrack(t) \/ OnFrame(t) \/ Count(t) \/ (Convert(t) /\ UNCHANGED frame)
      PROVE  /\ UNCHANGED <<frame, target, descriptor, sending, ever>>
             /\ \A u \in Track : pc'[u] \in {"idle", "count", "convert"} \/ pc'[u] = pc[u]
  <2>1. CASE OpenFails(t) \/ ResetVideoTrack(t)
    BY <2>1 DEF OpenFails, ResetVideoTrack, localVars
  <2>2. CASE OnFrame(t) \/ Count(t)
    BY <2>2 DEF OnFrame, Count, localVars, Goto, TypeOK
  <2>3. CASE Convert(t) /\ UNCHANGED frame
    <3>1. ~\E f \in Frame : frame' = [frame EXCEPT ![t] = f]
      BY <2>3, Fields, NoFrame DEF Convert, TypeOK
    <3>2. \A s \in Size, rotation \in Rotation, b \in Buffer :
             [at |-> b, size |-> Converted(Process(config, s, rotation))] \in Frame
      BY ProcessFits, TargetSize DEF TypeOK, Frame
    <3>3. QED
      BY <2>3, <3>1, <3>2 DEF Convert, Goto, TypeOK
  <2>4. QED
    BY <1>9, <2>1, <2>2, <2>3
<1>10. CASE ClientsChange \/ Destroy \/ UNCHANGED vars
  BY <1>2, <1>10 DEF ClientsChange, Destroy, vars, localVars
<1>11. QED
  BY <1>2, <1>3, <1>4, <1>5, <1>6, <1>7, <1>8, <1>9, <1>10 DEF Next, Step, Gone

\* Only a conversion refuses a size.
LEMMA RefusedStep == TypeOK /\ RefusedInv /\ [Next]_vars => RefusedInv'
<1> SUFFICES ASSUME TypeOK, RefusedInv, [Next]_vars PROVE RefusedInv'
  OBVIOUS
<1>1. CASE UNCHANGED refused
  BY <1>1 DEF RefusedInv
<1>2. ASSUME NEW t \in Track, Convert(t), ~UNCHANGED refused PROVE RefusedInv'
  <2>1. PICK s \in Size, rotation \in Rotation :
            LET g == Process(config, s, rotation) IN ~g.pasted /\ refused' = <<g.target, s>>
    BY <1>2 DEF Convert
  <2> DEFINE g == Process(config, s, rotation)
  <2>2. ~g.pasted => g.target[1] % 4 # 0 \/ g.target[2] * s[2] >= (g.target[1] + 2) * s[1]
    BY ProcessFits DEF TypeOK
  <2> HIDE DEF g
  <2>3. QED
    BY <2>1, <2>2 DEF RefusedInv, g
<1>3. ASSUME NEW t \in Track,
             \/ OpenFails(t) \/ SetVideoTrack(t) \/ ResetVideoTrack(t)
             \/ OnFrame(t) \/ Count(t) \/ Describe(t) \/ SendAsync(t) \/ Keep(t)
      PROVE  UNCHANGED refused
  BY <1>3 DEF OpenFails, SetVideoTrack, ResetVideoTrack, OnFrame, Count, Describe, SendAsync,
              Keep, sizeVars
<1>4. CASE ClientsChange \/ Flush \/ Destroy \/ UNCHANGED vars
  BY <1>1, <1>4 DEF ClientsChange, Flush, Destroy, vars, sizeVars
<1>5. QED
  BY <1>1, <1>2, <1>3, <1>4 DEF Next, Step, Gone
-----------------------------------------------------------------------------
\* The invariant is inductive.
THEOREM WriterCorrect == Spec => []WriterProofInv
<1>1. WriterProofInv /\ [Next]_vars => WriterProofInv'
  BY TypeStep, PlaceStep, HandOverStep, NoticeStep, ToldStep, RefusedStep DEF WriterProofInv
<1>2. QED
  BY <1>1, InitWriter, PTL DEF Spec

\* With one video track, the buffer NDI reads is alive, whatever fails and whenever it ends.
THEOREM BufferIsAlive == Spec => []WriterInv
<1>1. WriterProofInv => WriterInv
  <2> SUFFICES ASSUME WriterProofInv, OneTrack, sending.p_data # NoBuffer PROVE CurrentIsKept
    BY DEF WriterProofInv, WriterInv, KeptForOneTrack, OneTrack, CurrentIsKept
  <2>1. CASE \E t \in Track : pc[t] = "keep"
    BY <2>1 DEF WriterProofInv, HandOverInv, CurrentIsKept, Alive
  <2>2. CASE \A t \in Track : pc[t] # "keep"
    BY <2>2 DEF WriterProofInv, HandOverInv, CurrentIsKept, Alive
  <2>3. QED
    BY <2>1, <2>2
<1>2. QED
  BY <1>1, WriterCorrect, PTL

\* For all sizes: with one video track, or one size for all frames, NDI is told the size and
\* the stride of the picture it reads, and what PasteFrom refuses is too wide or goes to an
\* output whose width is no multiple of four.
THEOREM FramesFit == Spec => []FrameFits
<1>1. WriterProofInv => FrameFits
  BY DEF WriterProofInv, ToldInv, RefusedInv, OneTrack, FrameFits
<1>2. QED
  BY <1>1, WriterCorrect, PTL

\* With one video track, a client waits for less than an interval of frames.
THEOREM ClientsAreNoticed == Spec => []ClientIsNoticed
<1>1. WriterProofInv => ClientIsNoticed
  BY DEF WriterProofInv, NoticeInv, ClientIsNoticed, OneTrack
<1>2. QED
  BY <1>1, WriterCorrect, PTL
=============================================================================
