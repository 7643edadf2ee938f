--------------------------- MODULE MCStreamWriter ---------------------------
(* StreamWriter for TLC: model values for the threads, and their symmetry.  *)
EXTENDS StreamWriter, TLC

CONSTANTS t1, t2

\* The application threads are interchangeable (safety runs only).
ThreadSymmetry == Permutations(Thread)
=============================================================================
