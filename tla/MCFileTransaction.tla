-------------------------- MODULE MCFileTransaction --------------------------
(***************************************************************************)
(* A small instance of FileTransaction: of two paths one holds a file.     *)
(***************************************************************************)
EXTENDS FileTransaction

OneOfTwo == [f \in Files |-> IF f = 1 THEN Original ELSE Absent]
=============================================================================
