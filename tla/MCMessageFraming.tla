-------------------------- MODULE MCMessageFraming --------------------------
(* Bodies that look like the end of a line, like a header or like its end,   *)
(* and one that looks like nothing of this.                                  *)
EXTENDS MessageFraming

MCBodies ==
    {<<LF>>, <<CR, LF>>, <<ContentLength(1), LF, LF>>, <<Text, Text>>}
=============================================================================
