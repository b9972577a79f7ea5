------------------------------- MODULE MCModels -------------------------------
(* p5eInit with one seed that a draw comes from which is rounded up to the    *)
(* number behind the last: 2147483647 * 3 / 2147483647 is 3.                 *)
EXTENDS Models

AllSettings == {[midWinter |-> FALSE, randomCombatOutfit |-> TRUE,
                 enableCutsceneOutfits |-> FALSE, P5RTitleBGM |-> TRUE,
                 enableModCPK |-> FALSE, extraModCPK |-> 0]}
===============================================================================
