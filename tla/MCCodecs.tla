------------------------------ MODULE MCCodecs ------------------------------
(***************************************************************************)
(* Packets of up to three units, for model checking: both start codes, and *)
(* payloads of one byte, with the header of an H.265 slice, which starts   *)
(* with a zero, and with an emulation prevention byte.  In the packet of   *)
(* one short unit no start code is found.                                  *)
(***************************************************************************)
EXTENDS Codecs

MCUnits == [code : StartCodes,
            payload : {<<5>>, <<0, 1, 5>>, <<5, 0, 0, 3, 1>>}]

MCShape == {<<u>> : u \in MCUnits} \cup {<<u, v>> : u, v \in MCUnits}
           \cup {<<u, v, u>> : u, v \in MCUnits}
=============================================================================
