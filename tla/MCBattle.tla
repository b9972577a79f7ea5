------------------------------- MODULE MCBattle -------------------------------
(* One mate who comes and goes by the console, the toggles for the contact's *)
(* theme and for a fallen Joker on and off, and up to two enemies. Number 11  *)
(* is an error of the commands.                                              *)
EXTENDS Battle

SomeConfigs ==
  {[ambushOverDLC |-> a, enableExpandedBGM |-> TRUE, PreventJokerGameOver |-> p] : a, p \in BOOLEAN}
=============================================================================
