--------------------------- MODULE FrameGeometry ---------------------------
(***************************************************************************)
(* The sizes of a frame on its way through NDIWriter: processVerticalAsIs, *)
(* processVerticalPad, processSquare and the scaling of OnFrame.  A size is*)
(* a pair <<width, height>>; a rotation is 0, 90, 180 or 270 degrees.      *)
(*                                                                         *)
(* Each operator returns the size announced to NDI (target), the size the  *)
(* code takes the buffer to have (processed), the size of the buffer it    *)
(* returns, and whether PasteFrom accepts the scaled picture.  The floats  *)
(* of processVerticalPad are taken as the fractions they stand for.        *)
(***************************************************************************)
EXTENDS Integers

Rotation == {0, 90, 180, 270}
Quarter(rotation) == rotation \in {90, 270}
Turned(s, rotation) == IF Quarter(rotation) THEN <<s[2], s[1]>> ELSE s

\* The size of the output: as configured, or that of the frame.
Output(out, s) == IF out[1] # 0 /\ out[2] # 0 THEN out ELSE s

\* A faulty variant: the processed size of a rotated frame is that of the frame.
AsIsUnturned(out, s, rotation) == [target |-> Turned(Output(out, s), rotation),
                                   processed |-> s,
                                   buffer |-> Turned(s, rotation),
                                   pasted |-> TRUE]

AsIs(out, s, rotation) == [target |-> Turned(Output(out, s), rotation),
                           processed |-> Turned(s, rotation),
                           buffer |-> Turned(s, rotation),
                           pasted |-> TRUE]

\* nearbyint(n / d), which rounds a half to the even neighbour.
NearbyInt(n, d) == LET down == n \div d
                       rest == n % d
                   IN IF 2 * rest < d \/ (2 * rest = d /\ down % 2 = 0) THEN down ELSE down + 1

\* The width of a rotated frame s scaled to the height of size, in steps of four.
ScaledWidth(size, s) == 4 * NearbyInt(size[2] * s[2], 4 * s[1])

\* (processedWidth - scaleWidth) / 2, which truncates.
PadWidth(size, s) == LET room == size[1] - ScaledWidth(size, s)
                     IN IF room >= 0 THEN room \div 2 ELSE -((-room) \div 2)

\* PasteFrom checks that the picture lies inside, from an even column on.
Pasted(size, s) == LET pad == PadWidth(size, s)
                   IN pad >= 0 /\ pad % 2 = 0 /\ pad + ScaledWidth(size, s) <= size[1]

Pad(out, s, rotation) ==
    LET size == IF Quarter(rotation) THEN Output(out, s) ELSE s
    IN [target |-> Output(out, s), processed |-> size, buffer |-> size,
        pasted |-> Quarter(rotation) => Pasted(size, s)]

Square(out, s) == LET side(size) == IF size[1] <= size[2] THEN size[1] ELSE size[2]
                      cropped == <<side(s), side(s)>>
                  IN [target |-> <<side(Output(out, s)), side(Output(out, s))>>,
                      processed |-> cropped, buffer |-> cropped, pasted |-> TRUE]

\* The switch of OnFrame.
Process(config, s, rotation) ==
    CASE config.mode = "vertical" -> AsIs(config.out, s, rotation)
      [] config.mode = "square" -> Square(config.out, s)
      [] OTHER -> Pad(config.out, s, rotation)

\* "apply additional scaling": only if the processed size is not the target.
Converted(g) == IF g.processed # g.target THEN g.target ELSE g.buffer
=============================================================================
