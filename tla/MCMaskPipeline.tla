--------------------------- MODULE MCMaskPipeline ---------------------------
(* Model-checking instance of MaskPipeline; the names are model values.    *)
EXTENDS MaskPipeline
=============================================================================
