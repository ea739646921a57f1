---------------------------- MODULE MCSaveQueue ----------------------------
(* Instances of SaveQueue for TLC.  The run of its properties has one that *)
(* says what must eventually happen, so that the characters, although they *)
(* are interchangeable, are not declared symmetric.                        *)
EXTENDS SaveQueue
=============================================================================
