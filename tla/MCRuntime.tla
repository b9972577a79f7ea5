------------------------------ MODULE MCRuntime ------------------------------
(* A cut of the P5 build: EXFLW, dc (depends on EXFLW) and SecreC, and five *)
(* hooks in the order of hooks.yml.                                         *)
EXTENDS Runtime

P5Tables == {<< << >>, <<1>>, << >> >>}

\* _shk_prx_elf_substitute, PUT_Function, SetCountFunction, ParseUNITTBL and
\* SkillHealDamageModifier, which no module binds
P5Owner == <<Prx, 1, 1, 2, Nobody>>
P5Emits == {<<FALSE, FALSE, TRUE, FALSE, TRUE>>}

\* and with other choices for the same hooks, among them one that leaves the
\* last trampoline empty
SomeEmits == P5Emits \cup {<<FALSE, TRUE, TRUE, TRUE, TRUE>>, <<FALSE, TRUE, FALSE, TRUE, FALSE>>}
=============================================================================
