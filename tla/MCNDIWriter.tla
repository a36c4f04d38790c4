---------------------------- MODULE MCNDIWriter ----------------------------
(***************************************************************************)
(* Sizes for model checking: a frame wider than high and one higher than  *)
(* wide; an output as the frames are, one whose width is no multiple of    *)
(* four, and one higher than wide, so that a rotated frame meets its own   *)
(* size.  All tracks are alike, and all buffers are.                       *)
(***************************************************************************)
EXTENDS NDIWriter, TLC

MCSize == {<<16, 12>>, <<12, 16>>}
MCOut == {<<0, 0>>, <<14, 8>>, <<12, 16>>}

MCSymmetry == Permutations(Track) \cup Permutations(Buffer)
=============================================================================
