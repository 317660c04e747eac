---------------------------- MODULE MCMatrixRun ----------------------------
(* TLC instances of MatrixRun: a sweep of two cells. *)
EXTENDS MatrixRun, TLC

CONSTANTS x1, x2

TwoCells == <<x1, x2>>
=============================================================================
