------------------------------- MODULE MCConsole -------------------------------
(* Three sessions.  In the first the party is rewritten by orderly lines; in   *)
(* the second scripts and the console write flags at the borders of the        *)
(* sections and of their overflow, and counts next to the limit of the game's  *)
(* array; in the third the lines are short of arguments, have too many, too    *)
(* many blanks, no command or nothing at all.                                  *)
EXTENDS Console, TLC

F(section, index) == [section |-> section, index |-> index]
SomeFlags == {F(0, 2047), F(1, 0), F(1, 2049), F(1, 2442), F(2, 0), F(2, 4097), F(2, 5120),
              F(4, 512), F(5, 257), F(5, 1397), F(6, 3)}
SomeCounts == {255, 256, 384, 512}
SomeArgs == {0, 1, 2, 3, 4, 5, 10, 11}

Numerals ==
    ("0" :> 0 @@ "1" :> 1 @@ "2" :> 2 @@ "3" :> 3 @@ "4" :> 4 @@ "5" :> 5 @@ "10" :> 10
     @@ "11" :> 11 @@ "-1" :> -1 @@ "255" :> 255 @@ "256" :> 256 @@ "384" :> 384
     @@ "512" :> 512 @@ "513" :> 513 @@ "0x100007ff" :> 268437503 @@ "0x10000801" :> 268437505
     @@ "0x20000000" :> 536870912 @@ "2047" :> 2047 @@ "3072" :> 3072)
Numeral(w) == IF w \in DOMAIN Numerals THEN Numerals[w] ELSE 0
Small(w) == CASE w = "PARTYIN" -> "partyin" [] w = "setCount" -> "setcount"
              [] w = "getCount" -> "getcount" [] OTHER -> w

Party1 == {<<c, " ", u, "\n">> : c \in {"partyin", "partyout"},
                                 u \in {"0", "1", "2", "3", "4", "5", "10", "11"}}
Flags1 == {<<"biton", " ", "0x10000801", "\n">>, <<"testsetbit", " ", "0", " ", "0", "\n">>,
           <<"setCount", " ", "384", " ", "1", "\n">>}
Odd1 ==
    {<<>>, <<"\n">>, <<" ", " ", "\n">>, <<"partyin", "\n">>, <<"partyin">>,
     <<"PARTYIN", " ", "2", " ", "3", "\n">>, <<" ", "partyin", " ", "2", " ", "\n">>,
     <<"partyin", " ", " ", "2", "\n">>, <<"partyout", " ", "-1">>,
     <<"setCount", " ", "512", " ", "1", "\n">>, <<"setCount", " ", "513", " ", "1", "\n">>,
     <<"setCount", " ", "256", "\n">>, <<"setCount", " ", "256", " ", "1", "\n">>,
     <<"getCount", " ", "-1", "\n">>, <<"biton", "\n">>, <<"biton", " ", "0x20000000", "\n">>,
     <<"bitoff", " ", "0x20000000", " ", "\n">>, <<"help", " ", "biton", "\n">>, <<"quit", "\n">>,
     <<" ", "event", " ", "101", " ", "0", "\n">>, <<"field", " ", "1", "\n">>,
     <<"testsetbit", " ", "0", "\n">>, <<"testsetbit", " ", "0", " ", "0", "\n">>,
     <<"testsetbit", " ", "3072", " ", "1", "\n">>}
PartySession == [lines |-> Party1, scripts |-> FALSE]
FlagSession == [lines |-> Flags1, scripts |-> TRUE]
OddSession == [lines |-> Odd1, scripts |-> FALSE]
SomeSessions == {PartySession, FlagSession, OddSession}

\* Parties with gaps in the first session, Joker and two mates in the others.
MCInit == ConsoleInit /\ (session = PartySession \/ slots = <<3, 0, 2>> @@ 0 :> Joker)
MCSpec == MCInit /\ [][ConsoleNext]_consoleVars
==============================================================================
