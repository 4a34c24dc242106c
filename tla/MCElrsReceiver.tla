--------------------------- MODULE MCElrsReceiver ---------------------------
(***************************************************************************)
(* Frames that tell the bits of every channel from those of its            *)
(* neighbours: one channel at its highest and the others at zero; and all  *)
(* of them at rest or at the highest.                                      *)
(***************************************************************************)
EXTENDS ElrsReceiver

OneHigh == {[c \in Channel |-> IF c = k THEN 2047 ELSE 0] : k \in Channel}
MCFrames == OneHigh \cup {[c \in Channel |-> v] : v \in {992, 2047}}
MCCrc == [f \in MCFrames |-> 90]
=============================================================================
