-------------------------- MODULE SysMemAllocator --------------------------
(***************************************************************************)
(* SysMemFrameAllocator: the memory AllocImpl reserves for a surface of    *)
(* the Media SDK and the planes LockFrame points into it, per format.  The *)
(* sizes of AllocImpl are of 32 bits, those of LockFrame, and the pitch,   *)
(* of 16.                                                                  *)
(***************************************************************************)
EXTENDS Integers

FourCC == {"NV12", "YV12", "NV16", "RGB3", "RGB4", "AYUV", "UYVY", "YUY2", "R16", "P010",
           "A2RGB10", "P210"}

\* Up to this width and height no product of two of them overflows.
MaxSize == 32768

Align32(n) == 32 * ((n + 31) \div 32)
Width16(n) == Align32(n) % 65536

\* The bytes AllocImpl reserves behind the header of a surface.
Reserved(format, width, height) ==
    LET area == Align32(width) * Align32(height)
    IN CASE format \in {"NV12", "YV12"} -> area + area \div 2
         [] format \in {"NV16", "UYVY", "YUY2", "R16"} -> 2 * area
         [] format \in {"RGB3", "P010"} -> 3 * area
         [] OTHER -> 4 * area

\* The pitch of LockFrame, and its rows: those of the second plane and of the third one
\* follow the first.
Pitch(format, width) ==
    LET bytes == CASE format \in {"NV12", "YV12", "NV16"} -> 1
                   [] format = "RGB3" -> 3
                   [] format \in {"RGB4", "A2RGB10", "AYUV"} -> 4
                   [] OTHER -> 2
    IN (bytes * Width16(width)) % 65536

Rows(format, height) == CASE format \in {"NV12", "YV12", "P010"} -> Width16(height)
                                                                   + Width16(height) \div 2
                          [] format \in {"NV16", "P210"} -> 2 * Width16(height)
                          [] OTHER -> Width16(height)

\* A picture of the surface's size lies in the rows of LockFrame, and they in the memory.
Fits(format, width, height) ==
    /\ width <= Pitch(format, width)
    /\ Pitch(format, width) * Rows(format, height) <= Reserved(format, width, height)
=============================================================================
