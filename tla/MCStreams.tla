------------------------------ MODULE MCStreams ------------------------------
(* Every carrier with a banner, two words and the end of the channel, and  *)
(* writes at the borders of the three length encodings.                    *)
EXTENDS Streams
=============================================================================
