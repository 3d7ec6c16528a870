---------------------------- MODULE MCWavePlanner ----------------------------
(***************************************************************************)
(* Instance of WavePlanner: every graph on four keys without self loops,   *)
(* every graph on three keys with them, and two-item plans whose edges     *)
(* name a third key that is not an item.                                   *)
(***************************************************************************)
EXTENDS WavePlanner

MCKeys == 1 .. 4

NoLoops(S) == {e \in S \X S : e[1] # e[2]}

MCInputs ==
         [items : {1 .. 4}, edges : SUBSET NoLoops(1 .. 4)]
    \cup [items : {1 .. 3}, edges : SUBSET ((1 .. 3) \X (1 .. 3))]
    \cup [items : {{1, 3}}, edges : SUBSET NoLoops(1 .. 3)]
=============================================================================
