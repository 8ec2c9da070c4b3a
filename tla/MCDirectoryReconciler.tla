----------------------- MODULE MCDirectoryReconciler -----------------------
(* Model-checking instances of DirectoryReconciler.  The safety runs use   *)
(* two passwords, so that a second generated password could overwrite the *)
(* first; the liveness runs need only one.                                 *)
EXTENDS DirectoryReconciler, TLC

CONSTANTS p1, p2

MCPasswords == {p1, p2}

MCOnePassword == {p1}

MCSymmetry == Permutations(MCPasswords)
=============================================================================
