----------------------------- MODULE MCKasumiData -----------------------------
(* Shots of a burst, and magazines that are given back.                      *)
EXTENDS KasumiData

AllShots == {-6, 12}
===============================================================================
