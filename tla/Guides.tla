-------------------------------- MODULE Guides --------------------------------
(***************************************************************************)
(* The navigators' files (prx/modules/p5/EXFLW/EXFLW.c): the text of their *)
(* lines, which the hooks read from a file that can be exchanged, and their*)
(* sound.  Which of three it is, Mona, Futaba or another in her place, is  *)
(* count 9 of the save, which scripts set and the loading of the text      *)
(* corrects.  The game loads the text of a battle before the sound; what   *)
(* opens and lets go of files is the game's.                               *)
(***************************************************************************)
EXTENDS Integers, FiniteSets

CONSTANTS
    Installations,      \* enableExternalNavi, and the text files that can be read
    Counts,             \* what scripts set count 9 to
    MaxOpen             \* bound: files that are open at a time

Mona == 3
Futaba == 8
Another == 9
None == 0                       \* no file, no sound
Built == 0                      \* where the text lies that is built into the game
Lines(owner, place) == [owner |-> owner, place |-> place]
NoLines == Lines(None, Built)

ASSUME GuidesAssumption ==
    /\ \A i \in Installations : /\ i.enableExternalNavi \in BOOLEAN
                                /\ i.readable \subseteq {Mona, Futaba, Another}
    /\ Counts \subseteq Nat /\ MaxOpen \in Nat \ {0}

VARIABLES
    install,            \* one of Installations (rigid)
    count9,
    FutabaNavi,         \* the handle of the file of Futaba's text, or none
    open,               \* the file of each handle that is open
    text,               \* the text that is spoken: whose, and the handle it lies in
    pending,            \* whose sound the game is about to load, or none
    sound               \* whose is loaded

guideVars == <<install, count9, FutabaNavi, open, text, pending, sound>>

Free(files) == CHOOSE h \in 1..MaxOpen : h \notin DOMAIN files /\ 1..(h - 1) \subseteq DOMAIN files
HasRoom(files) == Cardinality(DOMAIN files) < MaxOpen
With(files, h, navigator) ==
    [k \in DOMAIN files \cup {h} |-> IF k = h THEN navigator ELSE files[k]]

\* The file is used if it could be read and the configuration wants it.
TextOf(navigator, handle) ==
    IF navigator \in install.readable /\ install.enableExternalNavi
    THEN Lines(navigator, handle)
    ELSE Lines(IF navigator = Mona THEN Mona ELSE Futaba, Built)

\* Nobody but the other one takes Futaba's place.
CustomNavi == IF count9 = Another THEN Another ELSE Futaba

\* semaphore_WaitPost lets go of the file of the time before.
KeptOpen == [h \in DOMAIN open \ {FutabaNavi} |-> open[h]]

\* the new file let go, by the variable that holds it
LetGoAfterwards(handle, navigator) == KeptOpen

OpenedAnew(handle, navigator) == With(KeptOpen, handle, navigator)

HandleAfter(memory, handle) == IF memory THEN handle ELSE None

(* Without memory for it there is no text, but the file has been let go and the
   count corrected. *)
LoadFutabaNaviBMDHook(memory) ==
    /\ pending = None /\ HasRoom(KeptOpen)
    /\ count9' = CustomNavi
    /\ LET handle == Free(KeptOpen)
       IN  /\ open' = IF memory THEN OpenedAnew(handle, CustomNavi) ELSE KeptOpen
           /\ FutabaNavi' = HandleAfter(memory, handle)
           /\ text' = IF memory THEN TextOf(CustomNavi, handle) ELSE NoLines
    /\ pending' = Futaba /\ sound' = None
    /\ UNCHANGED install

\* Mona's file is opened for every battle with her, and stays open. The sound that
\* the game has for her is external, and may be the one that is exchanged.
LoadMonaNaviBMDHook(memory) ==
    /\ pending = None /\ HasRoom(open)
    /\ count9' = IF memory THEN Mona ELSE count9
    /\ open' = IF memory THEN With(open, Free(open), Mona) ELSE open
    /\ text' = IF memory THEN TextOf(Mona, Free(open)) ELSE NoLines
    /\ pending' \in {Mona, Futaba} /\ sound' = None
    /\ UNCHANGED <<install, FutabaNavi>>

\* Futaba's sound is exchanged for the one of the count, in either language.
LoadNaviSoundFileHook ==
    /\ pending # None
    /\ sound' = IF pending = Futaba /\ count9 # Futaba THEN count9 ELSE pending
    /\ pending' = None
    /\ UNCHANGED <<install, count9, FutabaNavi, open, text>>

SetCountFunctionHook(n) ==
    /\ pending = None
    /\ count9' = n
    /\ UNCHANGED <<install, FutabaNavi, open, text, pending, sound>>

GuidesInit ==
    /\ install \in Installations /\ count9 = 0
    /\ FutabaNavi = None /\ open = <<>> /\ text = NoLines /\ pending = None /\ sound = None

GuidesNext ==
    \/ \E memory \in BOOLEAN : LoadFutabaNaviBMDHook(memory) \/ LoadMonaNaviBMDHook(memory)
    \/ LoadNaviSoundFileHook
    \/ \E n \in Counts : SetCountFunctionHook(n)

GuidesSpec == GuidesInit /\ [][GuidesNext]_guideVars
------------------------------------------------------------------------------
\* Types of all variables; a handle that is kept is of a file that is open.
GuidesTypeOK ==
    /\ install \in Installations /\ count9 \in Counts \cup {0, Mona, Futaba, Another}
    /\ DOMAIN open \subseteq 1..MaxOpen
    /\ \A h \in DOMAIN open : open[h] \in {Mona, Futaba, Another}
    /\ FutabaNavi \in DOMAIN open \cup {None}
    /\ text.owner \in {None, Mona, Futaba, Another} /\ text.place \in 0..MaxOpen
    /\ {pending, sound} \subseteq Counts \cup {None, Mona, Futaba, Another}

(* The text that is spoken is built in, or lies in a file that is open and is
   that navigator's, however battles with Mona and with Futaba, whose files are
   kept differently, follow each other. *)
LinesAreReadable ==
    text.place # Built =>
        text.place \in DOMAIN open /\ open[text.place] = text.owner

(* Text and sound are of the same navigator, whatever count scripts have left.
   The one case in which they are not is that of the other one without a text:
   the lines are Futaba's then, spoken by the other. *)
VoiceFitsText ==
    pending = None /\ sound # None /\ text # NoLines /\ sound # text.owner =>
        /\ sound = Another /\ text = Lines(Futaba, Built)
        /\ ~(install.enableExternalNavi /\ Another \in install.readable)

(* The navigator's lines are there, and in the voice of who says them. *)
GuidesAgree == GuidesTypeOK /\ LinesAreReadable /\ VoiceFitsText
===============================================================================
