----------------------------- MODULE MCCapture -----------------------------
(***************************************************************************)
(* Rates for model checking: NTSC's just below 30, an odd one just above,  *)
(* and one above 60.                                                       *)
(***************************************************************************)
EXTENDS Capture

MCFrameRate == {<<30000, 1001>>, <<31, 1>>, <<120, 1>>}
=============================================================================
