------------------------ MODULE MCAudioSampleQueue ------------------------
(***************************************************************************)
(* Two samples that differ, so that one out of order shows. The storage    *)
(* holds one sample at first instead of 4096, and four may be queued: it   *)
(* doubles twice, or by four at once, from every position of head.         *)
(***************************************************************************)
EXTENDS AudioSampleQueue

CONSTANTS a, b, silence

MCSamples == {a, b}
MCBursts  == {<<a>>, <<b>>, <<a, b, b>>}
============================================================================
