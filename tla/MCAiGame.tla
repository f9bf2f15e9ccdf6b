------------------------------ MODULE MCAiGame ------------------------------
(***************************************************************************)
(* AiGame for TLC: a board of 3 x 3 with lines of three, on which games    *)
(* are won, drawn and blocked as on the large one, or a board of 2 x 2     *)
(* that every game can fill.                                               *)
(***************************************************************************)
EXTENDS AiGame, TLC

ThreadSymmetry == Permutations(Thread)
=============================================================================
