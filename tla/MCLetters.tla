----------------------------- MODULE MCLetters -----------------------------
(***************************************************************************)
(* Instances of Letters for TLC.                                           *)
(***************************************************************************)
EXTENDS Letters

\* Two handlers of the same letter may be at work at the same time.
CONSTANTS s1, s2
=============================================================================
