---------------------------- MODULE MCSpxBuffer -----------------------------
(***************************************************************************)
(* SpxBuffer on a short input and blocks of two bytes: lines and bare LFs  *)
(* that end within a block, at its end, and in the next one.               *)
(***************************************************************************)
EXTENDS SpxBuffer

MCInput == <<"x", "y", "lf", "cr", "lf">>
=============================================================================
