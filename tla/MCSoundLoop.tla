---------------------------- MODULE MCSoundLoop ----------------------------
(* Values of the formats for the runs of SoundLoop.                        *)
EXTENDS SoundLoop

CD  == [freq |-> 44100, kind |-> "stereo16"]
DVD == [freq |-> 48000, kind |-> "surround16"]

TwoFormats == {CD, DVD}
=============================================================================
