---------------------------- MODULE MSDKEncoder ----------------------------
(***************************************************************************)
(* class MSDKVideoEncoder, the encoder of the Intel Media SDK on Windows,  *)
(* with MSDKFactory and the allocator of its surfaces.  Calls come one at  *)
(* a time and in any order; each is a step, for InitEncode waits for its   *)
(* thread.  Every stage of a call can fail, and the call returns there     *)
(* without undoing what it did.                                            *)
(*                                                                         *)
(* An object is held, or it is leaked once the only pointer to it was      *)
(* overwritten; a call that reads through a pointer that is null, was      *)
(* never assigned or points to a freed object is a fault.  The pixels and  *)
(* the parameters are left out, but for the codec and the surface's size.  *)
(***************************************************************************)
EXTENDS SysMemAllocator, CodecFactories, Sequences

CONSTANTS NoMSDK,       \* the state of an encoder the factory did not create
          SurfaceSize   \* the widths and heights of the settings

ASSUME MSDKAssumption == SurfaceSize \subseteq 1..MaxSize

VARIABLE msdk           \* the members of MSDKVideoEncoder:
                        \*   codec        codecType_
                        \*   device       TRUE if there is the hardware of the Media SDK
                        \*   session      m_mfxSession: "unassigned", "null" or "live"
                        \*   encoder      TRUE while m_pmfxENC is not null
                        \*   allocator    TRUE while m_pMFXAllocator is not null
                        \*   surfaces     m_pEncSurfaces: "null", "live" or, after their
                        \*                allocator was freed, "dangling"
                        \*   size         of the surfaces
                        \*   inited, callback
                        \*   coding       the codec id of m_mfxEncParams
                        \*   phase        history: the last call that matters: "new",
                        \*                "tried" for a failed InitEncode, "working",
                        \*                "released" or "destroyed"
                        \*   orderly      history: FALSE after a call out of order
                        \*   grown        history: TRUE if the buffer of an image grew
                        \*   leaked, fault

NewMSDK(codec, device) ==
    [codec |-> codec, device |-> device, session |-> "unassigned", encoder |-> FALSE,
     allocator |-> FALSE, surfaces |-> "null", size |-> <<16, 16>>, inited |-> FALSE,
     callback |-> FALSE, coding |-> "none", phase |-> "new", orderly |-> TRUE,
     grown |-> FALSE, leaked |-> {}, fault |-> FALSE]

Fault(m) == [m EXCEPT !.fault = TRUE]
Leaks(m, objects) == [m EXCEPT !.leaked = @ \cup objects]
Phase(m, phase, inOrder) == [m EXCEPT !.phase = phase, !.orderly = @ /\ inOrder]

Align16(n) == (16 * ((n + 15) \div 16)) % 65536

\* The stages of an InitEncode of an encoder that is not inited.
Stages == <<"session", "plugin", "allocator", "encoder", "init", "frames", "lock">>
-----------------------------------------------------------------------------
\* Faulty variant: m_pMFXAllocator is not reset, and its surfaces not either.
ReleasedSession(m) == [m EXCEPT !.encoder = FALSE, !.session = "null", !.inited = FALSE]

ReleasedMSDK(m) == [m EXCEPT !.encoder = FALSE, !.surfaces = "null", !.session = "null",
                             !.allocator = FALSE, !.inited = FALSE]
-----------------------------------------------------------------------------
\* What m holds after the first n stages, and what was overwritten by them.
Reached(m, n, size) ==
    LET freed == n >= 2 /\ m.surfaces # "null"
        overwritten == {o \in {"session", "encoder", "surfaces"} :
                            CASE o = "session" -> m.session = "live"
                              [] o = "encoder" -> n >= 4 /\ m.encoder
                              [] o = "surfaces" -> n >= 6 /\ m.surfaces # "null"}
    IN Leaks([m EXCEPT
        !.session = IF n >= 1 THEN "live" ELSE "null",
        !.allocator = IF n >= 2 THEN n >= 3 ELSE @,
        !.encoder = @ \/ n >= 4,
        !.coding = IF n >= 4 THEN IF m.codec = "H265" THEN "HEVC" ELSE "AVC" ELSE @,
        !.surfaces = IF n >= 6 THEN "live" ELSE IF freed THEN "dangling" ELSE @,
        !.size = IF n >= 6 THEN size ELSE @,
        !.inited = n = Len(Stages)], overwritten)

\* Without the device there is no factory: its CreateSession has no session to join.  If
\* frames are short, those allocated before are lost.  An encoder that is inited is closed
\* and its allocator freed, before it is used once more: it fails, or the allocator is null.
InitEncodeMSDK(n, size) ==
    LET phase == IF n = Len(Stages) THEN "working" ELSE "tried"
        called == Phase(msdk, phase, msdk.phase \in {"new", "released"})
    IN \/ /\ msdk.inited
          /\ LET closed == [called EXCEPT !.surfaces = "null", !.allocator = FALSE,
                                          !.coding = "AVC"]
             IN msdk' = Fault(closed) \/ msdk' = closed
       \/ /\ ~msdk.inited /\ (n > 0 => msdk.device)
          /\ \/ msdk' = Reached(called, n, size)
             \/ n = 5 /\ msdk' = Leaks(Reached(called, n, size), {"frames"})
       \/ ~msdk.inited /\ ~msdk.device /\ msdk' = Fault(called)

RegisterMSDK == msdk' = [msdk EXCEPT !.callback = TRUE]

EncodeInOrder == Phase(msdk, msdk.phase, msdk.phase = "working" /\ msdk.callback)

\* There is no surface; or an error before the buffer of the image is allocated.
EncodeNothingMSDK == msdk' = EncodeInOrder

\* The buffer grows up to twice.  It is lost unless the image is delivered or was not
\* synchronized: only the first buffer is freed.
EncodeMSDK(growths, outcome) ==
    /\ msdk.surfaces # "null"
    /\ LET called == [EncodeInOrder EXCEPT !.grown = @ \/ growths > 0]
           lost == \/ growths = 2
                   \/ growths = 1 /\ outcome \in {"status", "noStartCode", "refused"}
       IN msdk' = IF \/ msdk.surfaces = "dangling" \/ ~msdk.allocator \/ ~msdk.encoder
                     \/ outcome \in {"refused", "delivered"} /\ ~msdk.callback
                  THEN Fault(called)
                  ELSE Leaks(called, IF lost THEN {"bitstream"} ELSE {})

\* The encoder is used only if it is inited.
SetRatesMSDK == msdk.inited /\ msdk' = IF msdk.encoder THEN msdk ELSE Fault(msdk)

\* The session is destroyed if it is not null, one that was never assigned as well.  Close
\* frees the surfaces' memory, and a second Close of the allocator does nothing.
ReleaseMSDK == LET called == Phase(msdk, "released", msdk.phase # "new")
               IN \/ msdk' = ReleasedMSDK(called)
                  \/ msdk.session = "unassigned" /\ msdk.device /\ msdk' = Fault(called)

\* The destructor does the same.
DestroyMSDK == LET called == Phase(msdk, "destroyed", msdk.phase # "new")
               IN \/ msdk' = ReleasedMSDK(called)
                  \/ msdk.session = "unassigned" /\ msdk.device /\ msdk' = Fault(called)

MSDKCall == /\ msdk # NoMSDK /\ msdk.phase # "destroyed" /\ ~msdk.fault
            /\ \/ \E n \in 0..(Len(Stages)), w, h \in SurfaceSize :
                      InitEncodeMSDK(n, <<Align16(w), Align16(h)>>)
               \/ RegisterMSDK \/ EncodeNothingMSDK \/ SetRatesMSDK
               \/ ReleaseMSDK \/ DestroyMSDK
               \/ \E growths \in 0..2,
                     outcome \in {"status", "sync", "noStartCode", "refused", "delivered"} :
                         EncodeMSDK(growths, outcome)
-----------------------------------------------------------------------------
\* A caller that has the hardware, initializes a new or released encoder only, releases
\* what it tried to initialize, and encodes only after it succeeded and a callback was
\* registered, meets no fault at any failure; all that is lost is memory of an image whose
\* buffer grew and of surfaces when it was short.  An encoder that works has the codec it
\* was created for and surfaces in which its pictures fit, and a released one holds nothing.
MSDKSafe ==
    msdk # NoMSDK /\ msdk.orderly /\ msdk.device =>
        /\ ~msdk.fault
        /\ msdk.leaked \subseteq {"frames"} \cup (IF msdk.grown THEN {"bitstream"} ELSE {})
        /\ msdk.inited => /\ msdk.phase = "working"
                          /\ msdk.coding = IF msdk.codec = "H265" THEN "HEVC" ELSE "AVC"
                          /\ Fits("NV12", msdk.size[1], msdk.size[2])
        /\ msdk.phase \in {"released", "destroyed"} =>
               /\ ~msdk.encoder /\ ~msdk.allocator
               /\ msdk.surfaces = "null" /\ msdk.session = "null"
=============================================================================
