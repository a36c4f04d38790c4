------------------------------ MODULE NalUnits ------------------------------
(***************************************************************************)
(* How the encoders cut a packet of H.264 or H.265 into its NAL units, for *)
(* the RTP fragmentation header: NextNaluPosition and the loop around it,  *)
(* the same in FFmpegVideoEncoder and MSDKVideoEncoder.  A packet is a     *)
(* sequence of bytes; a position is an offset from 0, as in the code.      *)
(***************************************************************************)
EXTENDS Integers, SequencesExt

CONSTANT MaxNalus       \* MAX_NALUS_PERFRAME, 32

ASSUME NalAssumption == MaxNalus \in Nat \ {0}

Byte(p, at) == p[at + 1]

\* Faulty variant: three zeros are skipped together.
SkipZeros(p, at) == IF Byte(p, at) # 0 THEN 1
                    ELSE IF Byte(p, at + 1) # 0 THEN 2
                    ELSE IF Byte(p, at + 2) # 1 THEN 3
                    ELSE 0

\* What the search at a position tells: how far to skip, 0 if there is a start code.
Skip(p, at) == IF Byte(p, at) # 0 THEN 1
               ELSE IF Byte(p, at + 1) # 0 THEN 2
               ELSE IF Byte(p, at + 2) > 1 THEN 3
               ELSE IF Byte(p, at + 2) # 1 /\ Byte(p, at + 3) # 1 THEN 1
               ELSE 0

\* The first start code from a position on, or -1.  The search ends four bytes before the
\* end, so that it can look at four bytes.
NextNaluPosition(p) ==
    LET next[at \in 0..(Len(p) + 2)] ==
            IF at >= Len(p) - 4 THEN -1
            ELSE IF Skip(p, at) = 0 THEN at ELSE next[at + Skip(p, at)]
    IN next

StartCodeLength(p, at) == IF Byte(p, at + 2) = 1 THEN 3 ELSE 4

\* scPositions: the start codes found, MaxNalus at most.
Positions(p) ==
    LET next == NextNaluPosition(p)
        from[at \in 0..Len(p)] ==
            IF next[at] < 0 THEN <<>>
            ELSE <<next[at]>> \o from[next[at] + StartCodeLength(p, next[at])]
    IN IF Len(from[0]) <= MaxNalus THEN from[0] ELSE SubSeq(from[0], 1, MaxNalus)

\* The bytes of each fragment: from the end of its start code to the next start code.
Fragments(p) ==
    LET at == Positions(p)
        offset(i) == at[i] + StartCodeLength(p, at[i])
        end(i) == IF i = Len(at) THEN Len(p) ELSE at[i + 1]
    IN [i \in 1..Len(at) |-> SubSeq(p, offset(i) + 1, end(i))]

(* The reference: a packet is made of units. *)

StartCodes == {<<0, 0, 1>>, <<0, 0, 0, 1>>}
Unit(payloads) == [code : StartCodes, payload : payloads]
Joined(units) == FlattenSeq([i \in DOMAIN units |-> units[i].code \o units[i].payload])

\* What H.264 and H.265 require of a payload, with the emulation prevention bytes in it: no
\* start code, and no zero at the end.
IsPayload(s) == /\ s # <<>>
                /\ s[Len(s)] # 0
                /\ \A i \in 1..(Len(s) - 2) : s[i] = 0 /\ s[i + 1] = 0 => s[i + 2] > 1
IsPacket(units) == /\ units \in Seq(Unit(Seq(0..255)))
                   /\ units # <<>>
                   /\ \A i \in DOMAIN units : IsPayload(units[i].payload)

\* A start code of three bytes with one byte after it is too near to the end.
Visible(unit) == Len(unit.code) + Len(unit.payload) > 4

\* The units the search cannot see, the last one or those after MaxNalus, are part of the
\* fragment before them.
Expected(units) ==
    LET seen == IF Visible(Last(units)) THEN Len(units) ELSE Len(units) - 1
        n == IF seen <= MaxNalus THEN seen ELSE MaxNalus
    IN [i \in 1..n |->
            IF i < n THEN units[i].payload
            ELSE units[i].payload \o Joined(SubSeq(units, n + 1, Len(units)))]
=============================================================================
