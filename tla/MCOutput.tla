------------------------------ MODULE MCOutput ------------------------------
(* Output with the values of min-depth around the depths that occur.  The    *)
(* option is read with atoi, so a negative value reaches the comparison.     *)
EXTENDS Output

MCMinDepths == -1..2
=============================================================================
