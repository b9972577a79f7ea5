------------------------------ MODULE MCLibrary ------------------------------
(* What the modules stand on, one part after the other: the loading of the   *)
(* configuration, the patch file tool, the hooks' dispatch, the functions on *)
(* strings and those on memory. A behaviour is one part's; the others stay as*)
(* they begin.                                                               *)
EXTENDS Config, PatchFile, HookDispatch, Text, Clib

VARIABLE part     \* rigid

libraryVars == <<part, vars, patchVars, hooksVars, text, clibVars>>

(* Config: one setting of each kind, and every file of at most three lines of *)
(* a kind each that the loop tells apart.                                     *)
Types == <<"BOOL", "STRING", "STRING", "INT">>
Classes == <<"ATOMIC", "ATOMIC", "ARRAY", "ATOMIC">>

Plain(id, len) == [id |-> id, len |-> len, form |-> "text"]
Odd(form) == [id |-> form, len |-> 0, form |-> form]
Atomic(s, e) == [key |-> s, class |-> "ATOMIC", elems |-> <<e>>]
List(s, es) == [key |-> s, class |-> "ARRAY", elems |-> es]
Missing(s) == [key |-> s, class |-> "ATOMIC", elems |-> << >>]

Contents ==
  {Atomic(1, Plain("yes", 3)), Atomic(1, Plain("no", 2)), Missing(1), List(1, <<Plain("yes", 3)>>),
   Atomic(2, Plain("mod", 3)), Atomic(2, Plain("p5r", 1)), Atomic(2, Odd("quote")),
   List(3, << >>), List(3, <<Plain("bgm", 2)>>), List(3, <<Plain("bgm", 1), Plain("pack", 2)>>),
   List(3, <<Plain("bgm", 1), Odd("empty"), Plain("pack", 2)>>), List(3, <<Odd("blank")>>),
   Atomic(3, Plain("bgm", 2)), Atomic(4, Plain("29", 2)), Missing(Unknown), Missing(Blank)}

Ended(c, eol) == [key |-> c.key, class |-> c.class, elems |-> c.elems, eol |-> eol]
LastLine == {Ended(c, eol) : c \in Contents, eol \in {"lf", "none", "cr"}}
FullLine == {Ended(c, "lf") : c \in Contents}
AllTexts == {"true", "false", "default", "garbled", "yes", "no", "mod", "p5r", "bgm", "pack", "29",
             "quote", "empty", "blank", ""}
AllFiles == {<< >>} \cup {<<z>> : z \in LastLine} \cup {<<y, z>> : y \in FullLine, z \in LastLine}
            \cup {<<x, y, z>> : x \in FullLine, y \in FullLine, z \in LastLine}

(* PatchFile: the two runs of a build on the files that basepatches/ provides *)
(* and on some that were edited by hand.                                      *)
Build(loader, inject) == <<[name |-> "loader", sizes |-> loader],
                          [name |-> "inject", sizes |-> inject]>>
AllBuilds == {Build(<<8, 4>>, <<4, 6>>), Build(<<5>>, <<4, 7>>)}

Note(n) == [kind |-> "text", of |-> n]
Empty(n) == <<Begin(n), End>>
Full(n) == <<Begin(n), Value(n, 4), Value(n, 1), End>>
AllPatchFiles == {
  <<Note("a")>> \o Empty("loader") \o <<Note("b")>> \o Empty("inject"),
  <<Note("a")>> \o Full("inject") \o Full("other") \o <<Note("b")>> \o Full("loader") \o <<Note("c")>>,
  Full("loader") \o Full("other"),
  <<Begin("loader"), Note("a")>> \o Empty("inject"),
  Empty("inject") \o Empty("loader") \o Empty("loader")}

(* Text: letters of both cases, whitespace of two kinds, digits.              *)
TheCharacters == {"a", "B", " ", "\n", "1", "0"}
ThePatterns == {<<"a">>, <<"a", "B">>, <<"a", "a">>, <<" ">>}

(* Clib: every memory of five bytes; tables of every length up to six.        *)
AllMemories == {<<>>} \cup [0..4 -> ByteValues]
AllSorted == {[i \in 1..n |-> 2 * i - 1] : n \in 0..6}
------------------------------------------------------------------------------
\* The file that is not loaded is one of which nothing is said.
NoFile == <<Ended(Missing(1), "none")>>

MCInit ==
  /\ part \in {"config", "patch", "hooks", "text", "clib"}
  /\ Init /\ (part # "config" => file = NoFile)
  /\ PatchInit /\ (part # "patch" => jobs = Build(<<5>>, <<4, 7>>) /\ original = Full("loader") \o Full("other"))
  /\ HooksInit /\ (part # "hooks" => emit = [h \in Hook |-> TRUE])
  /\ TextInit
  /\ ClibInit /\ (memory = <<>> \/ table = <<>>)
  /\ (part # "clib" => memory = <<>> /\ table = <<>>)

Loading == part = "config" /\ Load /\ UNCHANGED <<part, patchVars, hooksVars, text, clibVars>>
Building == part = "patch" /\ Work /\ UNCHANGED <<part, vars, hooksVars, text, clibVars>>

MCNext ==
  \/ Loading \/ Building
  \/ part = "config" /\ Over /\ UNCHANGED libraryVars
  \/ part = "patch" /\ (Scan \/ Flush \/ FailRun) /\ UNCHANGED <<part, vars, hooksVars, text, clibVars>>
  \/ part = "patch" /\ (Spin \/ Enough) /\ UNCHANGED libraryVars
  \/ part = "hooks" /\ HooksNext /\ UNCHANGED <<part, vars, patchVars, text, clibVars>>
  \/ part = "text" /\ TextNext /\ UNCHANGED <<part, vars, patchVars, hooksVars, clibVars>>
  \/ part = "clib" /\ ClibNext /\ UNCHANGED <<part, vars, patchVars, hooksVars, text>>

MCSpec == MCInit /\ [][MCNext]_libraryVars /\ WF_libraryVars(Loading) /\ WF_libraryVars(Building)
=============================================================================
