------------------------------- MODULE Console -------------------------------
(***************************************************************************)
(* The console: once a frame mainUpdateHook reads a line from the TTY, and *)
(* the library finds the command and runs it (EXFLW.c, ttycmd.c).  Commands*)
(* write the party's slots (Party) and the flags and counts that scripts   *)
(* use too (ScriptState); the others call the game or print.               *)
(*                                                                         *)
(* A line is a sequence of words and blanks.  What is a word is decided by *)
(* stringTrim and stringSplit (Strings); a number is a word of its own.    *)
(***************************************************************************)
EXTENDS Party, ScriptState, Strings

CONSTANTS
    Sessions,       \* what happens in a run: the lines typed, and whether scripts run too
    LowerCase(_),   \* a word in lower case
    ValueOf(_)      \* the number that a word is, which intParse (Numerals) reads

VARIABLES
    session,        \* rigid: enableTTYCommands is on
    last            \* the line of the last frame, what was run of it and how it ended

consoleVars == <<session, last, slots, vars>>

Blank == " "
Nothing == [line |-> <<>>, ran |-> <<>>, outcome |-> "ignored"]

ConsoleInit ==
    /\ PartyInit /\ Init
    /\ session \in Sessions
    /\ last = Nothing
------------------------------------------------------------------------------
(* The table of commands: how many of their parameters are required.       *)
ttyCommands ==
    [setbgm |-> 1, setcount |-> 2, getcount |-> 1, biton |-> 1, bitoff |-> 1, bitget |-> 1,
     bitchk |-> 1, partyin |-> 1, partyout |-> 1, fadein |-> 1, fadeout |-> 1,
     comseplay |-> 1, testmodel |-> 1, setpersona |-> 1, loadbf |-> 1, getdays |-> 0,
     getfieldworkdata |-> 0, getenemy |-> 0, event |-> 2, field |-> 2, battle |-> 1,
     player |-> 1, savekasumi |-> 0, loadkasumi |-> 0, testsetbit |-> 2, testgetbit |-> 1]
Builtin == {"help", "-h", "--help"}
Writing == {"setcount", "biton", "bitoff", "partyin", "partyout", "testsetbit"}

\* The trimmed line in pieces.  An argument is a word, or nothing between two
\* blanks, which intParse takes for 0.
Pieces(line) == stringSplit(stringTrim(line), Blank)

Name(piece) == IF piece = <<>> THEN "" ELSE LowerCase(Head(piece))
Value(piece) == IF piece = <<>> THEN 0 ELSE ValueOf(Head(piece))

\* findCommandByName and the count of arguments; more than are required is no error.
Status(name, args) ==
    IF name \in DOMAIN ttyCommands
    THEN IF Len(args) < ttyCommands[name] THEN "missing" ELSE "run"
    ELSE IF name \in Builtin THEN "help" ELSE "unrecognised"
------------------------------------------------------------------------------
(* The handlers.  Negative numbers are large ones, for the handlers read   *)
(* their arguments as unsigned.                                            *)
Above(n, limit) == n < 0 \/ n > limit
FlagNumber(n) == [section |-> n \div SectionUnit, index |-> n % SectionUnit]
Script == UNCHANGED slots
State == UNCHANGED vars

Invalid(name, args) ==
    \/ name = "setcount" /\ Above(Value(args[1]), 512)
    \/ name = "getcount" /\ Above(Value(args[1]), 512)
    \/ name \in {"partyin", "partyout"} /\ Above(Value(args[1]), LastUnit)

\* Args, CountArgs, Values and FlagArgs have the numbers that a line writes with.
Listed(name, args) ==
    /\ name \in {"partyin", "partyout"} => Value(args[1]) \in Args
    /\ name = "setcount" => Value(args[1]) \in CountArgs /\ Value(args[2]) \in Values
    /\ name \in {"biton", "bitoff"} => FlagNumber(Value(args[1])) \in FlagArgs

AllListed(line) ==
    LET name == Name(Head(Pieces(line)))
        args == Tail(Pieces(line))
    IN  ~stringIsNullOrWhitespace(line) /\ Status(name, args) = "run" /\ ~Invalid(name, args)
            => Listed(name, args)

ASSUME ConsoleAssumption ==
    \A s \in Sessions :
        /\ s.lines \subseteq Seq(STRING) /\ s.scripts \in BOOLEAN
        /\ \A line \in s.lines : AllListed(line)

ttySetCountCmd(c, v) == Script /\ (SetCount(c, v) \/ Overrun(c))
ttyBITCmd(n, on) == Script /\ SetBitFlagState(FlagNumber(n), on)

\* a handler that looks at its argument when it has used it
RefuseAfterwards(name, args) ==
    IF name = "setcount" THEN ttySetCountCmd(Value(args[1]), 0) ELSE State /\ Script

\* A handler that refuses its argument does so before anything else.
Refuse(name, args) == State /\ Script

\* testsetbit goes to the PRX's bits directly, by their position, whatever it is.
ttySetBITTEST(n, on) ==
    /\ UNCHANGED <<slots, gameBits, countVars>>
    /\ \/ /\ n \in 0..(LastBit - BIT_MAX)
          /\ extraBits' = With(extraBits, Place(BIT_MAX + n), on)
          /\ said' = [f \in FlagArgs |-> IF Bit(f) = BIT_MAX + n THEN on ELSE said[f]]
          /\ UNCHANGED overrun
       \/ /\ n \notin 0..(LastBit - BIT_MAX)
          /\ overrun' = TRUE
          /\ UNCHANGED <<extraBits, said>>

Handler(name, args) ==
    \/ name = "setcount" /\ ttySetCountCmd(Value(args[1]), Value(args[2]))
    \/ name = "biton" /\ ttyBITCmd(Value(args[1]), TRUE)
    \/ name = "bitoff" /\ ttyBITCmd(Value(args[1]), FALSE)
    \/ name = "testsetbit" /\ ttySetBITTEST(Value(args[1]), Value(args[2]) # 0)
    \/ name = "partyin" /\ State /\ ttyPartyInCmd(Value(args[1]))
    \/ name = "partyout" /\ State /\ ttyPartyOutCmd(Value(args[1]))
    \/ name \notin Writing /\ State /\ Script
------------------------------------------------------------------------------
(* ttyCmdProcessLine                                                       *)
Ends(line, name, args, outcome) ==
    last' = [line |-> line, ran |-> <<name>> \o args, outcome |-> outcome]

Process(line, name, args) ==
    \/ /\ Status(name, args) = "run" /\ ~Invalid(name, args)
       /\ Handler(name, args)
       /\ Ends(line, name, args, "done")
    \/ /\ Status(name, args) = "run" /\ Invalid(name, args)
       /\ Refuse(name, args)
       /\ Ends(line, name, args, "invalid")
    \/ /\ Status(name, args) # "run"
       /\ State /\ Script
       /\ Ends(line, name, args, Status(name, args))

\* A line of nothing but whitespace is trimmed from a place in front of the
\* buffer: it is the command "", or the copy that follows is one of almost 4 GB.
BlankLine(line) ==
    /\ line # <<>> /\ stringIsNullOrWhitespace(line)
    /\ Script
    /\ \/ State /\ Ends(line, "", <<>>, "unrecognised")
       \/ /\ overrun' = TRUE
          /\ UNCHANGED <<flagVars, countVars>>
          /\ Ends(line, "", <<>>, "crashed")

ttyCmdProcessLine(line) ==
    \/ line = <<>> /\ State /\ Script /\ last' = Nothing
    \/ BlankLine(line)
    \/ /\ ~stringIsNullOrWhitespace(line)
       /\ LET pieces == Pieces(line)
          IN  Process(line, Name(Head(pieces)), Tail(pieces))

\* The line is the user's.  After a write behind a buffer nothing is said.
mainUpdateHook ==
    /\ ~overrun
    /\ \E line \in session.lines : ttyCmdProcessLine(line)
    /\ UNCHANGED session

ScriptRuns ==
    /\ session.scripts
    /\ Use
    /\ last' = Nothing
    /\ UNCHANGED <<session, slots>>

ConsoleNext == mainUpdateHook \/ ScriptRuns
ConsoleSpec == ConsoleInit /\ [][ConsoleNext]_consoleVars
------------------------------------------------------------------------------
\* Words with one blank between them, from one place to another, and whatever
\* whitespace in front and behind.
Orderly(line, from, to) ==
    /\ (to - from) % 2 = 0
    /\ \A k \in from..to :
           IF (k - from) % 2 = 0 THEN ~charIsWhitespace(line[k]) ELSE line[k] = Blank
    /\ \A k \in DOMAIN line \ (from..to) : charIsWhitespace(line[k])

Words(line, from, to) == [i \in 1..((to - from) \div 2 + 1) |-> line[from + 2 * (i - 1)]]

(* An orderly line, with the newline behind it, runs the command that its first
   word names in any case, with the other words as its arguments (the trim and
   the split of the line). *)
RunsWhatWasTyped ==
    \A from, to \in DOMAIN last.line : from <= to /\ Orderly(last.line, from, to) =>
        LET words == Words(last.line, from, to)
            args  == Tail(last.ran)
        IN  /\ Head(last.ran) = LowerCase(Head(words))
            /\ Len(args) = Len(words) - 1
            /\ \A i \in DOMAIN args : args[i] = <<words[i + 1]>>

(* The console either runs a command or complains, and a complaint is about a
   line that has changed nothing: no slot, flag or count is written before the
   arguments have been counted and looked at. *)
ComplaintsChangeNothing ==
    [][last'.outcome \in {"invalid", "missing", "unrecognised"} => UNCHANGED <<slots, vars>>]_consoleVars

(* What is typed is done, and what is not understood is not done in part. *)
LinesRunAsTyped == []RunsWhatWasTyped /\ ComplaintsChangeNothing
==============================================================================
