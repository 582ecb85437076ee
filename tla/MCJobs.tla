------------------------------- MODULE MCJobs -------------------------------
(***************************************************************************)
(* Instances of Jobs for TLC.                                              *)
(***************************************************************************)
EXTENDS Jobs, TLC

CONSTANTS w1, w2

WorkerSymmetry == Permutations({w1, w2})

Plain(size) == [NoFile EXCEPT !.size = size]

\* A letter job, texts of a trial service with an invalid number, and a file with
\* a row that fits in no message.
MixedFiles == {[Plain(2) EXCEPT !.letter = TRUE],
               [Plain(2) EXCEPT !.invalid = {1}, !.restricted = {0}],
               [Plain(3) EXCEPT !.huge = {1}]}
PlainFiles == {Plain(3)}
=============================================================================
