------------------------------ MODULE MCConfig ------------------------------
(* Two settings, and a file whose last line, a module's toggle, has no line  *)
(* end.                                                                      *)
EXTENDS Config

Types == <<"BOOL", "INT">>
Classes == <<"ATOMIC", "ATOMIC">>

AllTexts == {"true", "false", "default", "garbled", "yes", "29"}

Atomic(s, id, len, eol) ==
  [key |-> s, class |-> "ATOMIC", elems |-> <<[id |-> id, len |-> len, form |-> "text"]>>,
   eol |-> eol]
ToggleAtEnd == {<<Atomic(2, "29", 2, "lf"), Atomic(1, "yes", 3, "none")>>}
=============================================================================
