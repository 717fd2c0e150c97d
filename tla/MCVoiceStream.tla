---------------------------- MODULE MCVoiceStream ----------------------------
(***************************************************************************)
(* An instance of VoiceStream: a sample is 10 ms of audio. The durations   *)
(* are real ones; the input resampler holds back up to 20 ms and the       *)
(* output resampler 10, or both have nothing to do; the model makes all of *)
(* a window but the last 20 ms, which is just enough to stitch, or all but *)
(* 30 ms, which is too little.                                             *)
(***************************************************************************)
EXTENDS VoiceStream

MCLags == {[input |-> 0, output |-> 0], [input |-> 2, output |-> 1]}
=============================================================================
