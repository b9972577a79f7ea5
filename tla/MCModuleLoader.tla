--------------------------- MODULE MCModuleLoader ---------------------------
(* Three modules with every dependency list of at most two names.          *)
EXTENDS ModuleLoader

Pairs == {<<a, b>> : a, b \in Module}
DependencyLists ==
  {<< >>, <<NotFound>>} \cup {<<a>> : a \in Module} \cup {p \in Pairs : p[1] # p[2]}
AllTables == [Module -> DependencyLists]

\* prx/README.md's example: foo depends on bar and qux, listed after it
ReadmeTable == {<< <<2, 3>>, << >>, << >> >>}

\* An entry whose dependency is misspelt, and one that depends on that entry
MisspeltTable == {<< <<NotFound>>, <<1>>, << >> >>}
=============================================================================
