# ps3-ckit in TLA+

ps3-ckit injects C code into PS3 games. A loader patched into the game's ELF
starts a PRX; the PRX reads a configuration, initialises modules in the order
their dependencies ask for, and the modules bind handlers to game functions
that generated assembly has redirected. A build script keeps the patches in
the patch file of an emulator. Most of the code is in the modules for Persona 5:
scripts and a console, encounters, menus, shops, dialogue, models and tables.

This directory holds TLA+ models of those parts, TLC runs that check them on
small instances, and proofs of the properties that matter most for all
instances. `PROJECT.json` maps every definition to the lines it models and
lists the runs, findings, hazards and theorems.

## Inventory

| Component | State | Operations | Interacts with |
|---|---|---|---|
| Module manager (`prx/lib/module.c`) and entry points (`prx/runtime/init.c`) | flags of each module, the C stack of the recursion | `moduleInitModule`, `moduleShutdownModule`, `_start`, `_stop` | reads toggles from the configuration, calls the modules' init and shutdown |
| Hook dispatch (`tools/shkgen.py` templates, `prx/lib/shk.h`) | pointer table, the word with its address, registers and stack of the game thread | bind, call of a hooked function, call of an original | modules bind; the game calls |
| Loader (`loader/loader.s`) | none | load and start the PRX | runs `_start` on the game's main thread |
| Configuration (`prx/lib/config.c`, `file.c`) | values, their counts, one text buffer | `configLoad` (saving is not implemented) | read by module manager and modules |
| Patch file tool (`tools/bin2rpcs3patch.py`) | the patch file, Python's write buffer | a run per section and build | called by the makefiles |
| TTY commands (`prx/lib/ttycmd.c`) | line buffer, first-run flag | trim, split, look up, check arguments, run | EXFLW's per-frame hook (the listener thread exists only in the test build); writes flags, counts and party slots |
| EXFLW | counts, extra bit flags, party slots (the game's), wishes of scripted enemies, the members' persona data, the navigators' files | some forty hooks and script commands | all other P5 modules but SecreC depend on it |
| Encounters (in dc, p5e, kasumi and EXFLW) | globals in `p5.h`: contact, request for no game over, challenge rounds, acting unit, outfits; Joker's HP and ailments | hooks from contact to the end of a battle, script commands | each other, through the globals; the party's slots |
| dc | enlarged tables, looks and colours, abilities, endurance, skill ring | parsers and look-ups, loaders, battle hooks | wishes of EXFLW's commands; `GetActiveConfidantAmount` and others of `p5.c` |
| kasumi | window of the menus' lists, who pays, what was warned of, bullets, Kasumi's place in a save | whole game functions replaced | `p5.c` writes and reads the save |
| SecreC | open shop and its money, row asked for, count 321 | shop, calendar and list hooks | the game's counts and items |
| p5e | title music, gear, archives | loaders | `random.c`; outfits with encounters |
| scarltz | skill tables | parser and look-ups | |
| Library (`string.c`, `char.c`, `utils.c`, `random.c`, `clib.c`) | random seed, output line buffer | pure functions, mostly | everything |

What is hard in this code:

* *Order and recursion*: dependencies are loaded by recursion over flags that
  are set before the work is done, and a missing `return` makes a status
  undefined. Correct: dependents only after dependencies, nothing twice,
  shutdown exactly for what was initialised, an end to every recursion.
* *Nested calls*: a shared thunk serves all hooks, recursively, on the game's
  stack. Correct: no caller can tell that a function was hooked.
* *Partial states*: between the start of the game and `_start`, and in builds
  where a module is switched off, hooks exist without handlers.
* *Boundaries*: `assert` prints and goes on (`prx/lib/clib.h`), so that every
  limit in the code is a place where it continues wrongly. Line ends, blank
  texts and full buffers are such places.
* *State that outlives its purpose*: what the modules remember of an encounter,
  an enemy's turn or a menu is in globals that no save restores, set in one
  function, cleared in a second and read in a third, in an order that the game
  decides. Correct: nothing remembered of one decides about another.
* *Copies of one decision*: one condition (who wears which look, which currency
  a shop has, who is named) is written out in up to a dozen hooks. Correct:
  the copies agree.
* *Arithmetic on other people's layouts*: tables padded to 16 bytes, bits of
  flags beyond the game's array, fields of a save borrowed from another unit.
* *Failure half-way*: the patch tool empties its file before it knows what to
  write.

Nothing here is distributed, and the P5 build has no thread of its own: the
interleavings that remain are those of calls and returns, of hooks that the
game calls in whatever order, of scripts and console, and of runs of a tool
with its failures.

## Modules

| Module | Models | Extends / uses |
|---|---|---|
| `ModulePolicy` | what the header and `prx/README.md` promise about loading | |
| `ModuleLoader` | `module.c` with `init.c` | refines `ModulePolicy` |
| `HookDispatch` | generated assembly and `shk.h` | |
| `Runtime` | the PRX from boot to unloading, with the game calling | extends `ModuleLoader`, instance of `HookDispatch` |
| `Config` | `configLoad`, `fileReadLine` | |
| `PatchFile` | `bin2rpcs3patch.py --replace_patch` | |
| `Strings` | `string.c`, `char.c`, `utils.c`: operators on strings | |
| `Numerals` | `intParse` (`utils.c`) and the `pow` of `clib.c` it stands on, in words and floats | extends `Strings` |
| `Text` | every text up to a length, with what those functions must make of it | extends `Numerals` |
| `Clib` | `clib.c` on memory | |
| `ScriptState` | the flags and counts of scripts (`EXFLW.c`, `p5.c`) | |
| `Party` | `partyin` and `partyout` on the party's slots (`EXFLW.c`) | |
| `Console` | a line from the TTY to its command (`ttycmd.c`, `EXFLW.c`) | extends `Party`, `ScriptState` and `Strings` |
| `Battle` | encounters as the hooks of `dc.c`, `p5e.c`, `kasumi.c` and `EXFLW.c` see them | extends `Party` |
| `PartyList`, `Healing` | menus, and healing from them (`kasumi.c`) | `Healing` extends `PartyList` |
| `Navigator`, `KasumiData` | the navigator's lines; Kasumi in saves and her bullets (`kasumi.c`, `p5.c`) | |
| `Shop`, `Daily` | shops; calendar, confidants, icons (`SecreC.c`) | |
| `Random`, `Models` | `random.c`; title, outfits, archives (`p5e.c`) | `Models` extends `Random` |
| `Enemies`, `Orders` | scripted enemies; the orders of scripts to units in combat (`EXFLW.c`, `dc.c`, `p5.c`) | |
| `Growth`, `Guides` | members raised by scripts; the navigators' files (`EXFLW.c`) | |
| `Looks`, `Tables`, `Abilities` | looks and colours; enlarged tables; confidants' abilities (`dc.c`, `scarltz.c`) | |
| `MC*` | values of the constants for TLC; `MCLibrary`, `MCConsole`, `MCScenes` put several modules into one state space | |
| `Runtime_proofs` | theorems about the loader, its refinement and the running game | the `*_proofs` extend the modules they are about |
| `Text_proofs` | theorems about `Text` and `Clib`; induction over numbers and sequences | |
| `HookDispatch_proofs` | theorems about dispatch, configuration and the patch file | also extends `Text_proofs` |
| `Console_proofs` | theorems about flags, counts and the console | also extends `Text_proofs` |
| `Battle_proofs` | theorems about the party and encounters | |
| `Combat_proofs` | theorems about `Enemies`, `Navigator`, `Orders`, `Abilities`, `Looks` | |
| `Members_proofs` | theorems about `Growth`, `Models`, `PartyList`, `Healing` | |
| `Scenes_proofs` | theorems about `Shop`, `Daily`, `Guides`, `KasumiData`, `Tables` | |

A variable that keeps its first value is called rigid where it is declared:
tables, configurations, saves and casts are chosen in `Init`, so that one run
covers all of them. "External" in a comment is the game's part, given as far
as the hooks use it.

**ModuleLoader.** `stack` holds the activations of `moduleInitModule`,
innermost first; `pc` and `next` are an activation's position in the function
and in its dependency list; `status` is the return register. Calls of one
activation are `Call` (the checks of the flags and of the toggle, lines
34-56), a step per dependency found or not found, a step per case of the
`switch`, and `RunInit` for the end of the function, where the status is any
value. `_start` and `_stop` are loops over the table. The table and the
toggles are chosen in `Init` and never change, so that one run covers all
builds and configurations of its size.

**HookDispatch.** A frame records what its prologue saved and the function its
caller asked for (the latter a ghost). `CallHooked` is patch, thunk and shared
thunk in one step, as nothing else touches the thread between them; `Epilog`
is the shared thunk's way back. Descriptors of empty trampolines are resolved
as the data section lays them out. A call with no descriptor, or through the
unset table, sets `at` to 0. One TOC stands for the ELF (hooks.yml can name
another per hook) and arguments passed on the stack (a ninth and further,
which the thunk does not forward) are not modelled.

**Runtime.** `StartRuntime` is `_start` up to its loop, `InitAndBind` an init
function. The game calls only after `_start` has returned, because `loader.s`
calls it from `main` and waits, and not after `_stop`, because the PRX is
unloaded with the game. The init functions call game functions as well
(`getTicks`, `GetBtlPlayerUnitFromID`), none of them hooked. `_stop` unbinds
nothing, and neither does the model.

**Config.** A line is what its bytes mean to the loop: key, brackets, elements
and line end; a text has an identity and a length. The string buffer is kept
byte by byte, since what texts share is the question. A file that cannot be
opened behaves as an empty one. `overrun`, `crashed` and `hung` absorb what
the program does after a write behind the buffer, a wild read, or in an
endless loop; `MayCrash` and `MayHang` are reads whose outcome depends on
stale bytes. Float settings are parsed the way integers are and left out, as
are texts without their closing quote, lines without colon, lines over 1023
bytes and lists over 256 elements (see the hazards).

**PatchFile.** Lines are marks of sections, values and other text. A run reads
(`Scan`), empties (`Open`), converts (`WriteValue`, `WritePart`, `NextInput`)
and closes. A file is `Proper` if every section begins once, ends, and holds only
values in between; a section with anything else in it loses that when it is
replaced. `Flush` is Python's buffer on its way to the disk at any moment,
`Fail` an exception (which flushes) or a kill (which does not), after which
the build stops and may be made again. `Spin` is the loop that does not end.

**ScriptState.** The get and set hooks of flags and counts, called in any
order by scripts and by the console. A flag number is a section and an index
(its top four and its other bits; numbers with the sign bit set are not used);
`ReturnConvertedFlag` and the bound at 12031 are arithmetic as in the code.
`gameBits` and `gameCounts` are what the game's own functions keep, taken to
do what their names say; `extraBits` are the bytes and bit positions of
`NewBits`, `globalCounts` the array of the PRX. `said` and `saidCounts` are
ghosts. A write behind `globalCounts` sets `overrun`, after which nothing is
said. `Own` names the flags with a bit to themselves: the last flag that a
section's `>` still places in the game's array is not among them, because its
bit is also the next section's first (or, for section 5, section 1's first
overflow). `SectionLimit` is derived from the code's constants: a section's
overflow ends where the next one's begins.

**Party.** `slots` are the game's four party slots; `sub_24B274` writes one.
`PartyIn` and `PartyOut` are functions from slots to slots, since nothing runs
between the commands' reads and writes. The game keeps Joker in front.

**Battle.** `mode` is where the game is, and says when a hook can be called.
The game itself is external: units fall (`Fall`) and rise (`Rise`), the
original of `FUN_006a75c4` ends a battle when Joker or the last enemy falls
(`OriginalIsOver`; that a fallen Joker ends it is why the hook exists), and
after a game over a save is loaded with no hook called. Everything else is a
hook or a script command of the modules. `LoadDLCBGM` runs in the set-up and
at any other time; of the music it chooses, only whether there is one
(`dlc`) decides about the contact's flags. Fields that are loaded draw outfits
if `randomizedCombatOutfit` says so: that guard is the reader that
`OutfitsKept` is about. `owed`, `asked` and `byContact` are ghosts. An empty
slot counts as a fallen unit: unit 0 of the game has no HP. Left out are the
colours themselves, voices (both in `Looks`) and what enemies do (`Enemies`).

**Strings, Numerals, Text.** A string is the sequence of its characters up to the
terminator, positions count from 0 and -1 is none, as in the code. The loops are
recursive functions over positions or the equivalent sets. A trim of
nothing but blanks goes past the start of the buffer (an unsigned `i >= 0`):
`stringTrim` is meant for other texts, and `Config` and `Console` have the crash
as an outcome of their own (`MayCrash`, `BlankLine`). A search for the empty
string returns a variable that was never set and is left out.
`stringReplaceEx` is what the
loop does, not what its comment says (string.c:353, "all occurrences"): what
follows the last occurrence is not copied, and the second search counts from
where it starts but is used as if from the beginning (`Failed` where the copy
then gets a length that wraps around). `EditsAgree` states the case in which
the two agree, a text that ends with the only occurrence. `Text` itself grows a
text by a character at a time, so that a run meets every text of its alphabet.

`intParse` (`Numerals`) is written in the widths of the code: digits times powers
are summed up in an unsigned word (`Word`, 2^32) by way of doubles, the sum is
multiplied by the sign and returned as a signed word, so a number from 2^31 on
comes back as another one (`AsSigned`). A sum that is no word is converted to one
all the same, which C leaves undefined: `intParse` is therefore the set of what it
may return, and that is any signed word then. `pow` is the library's own: it halves
even exponents and squares the result as a float, which is infinite from 2^128 on
(`FloatMax`), so a number with many zeros in front may be read as anything too (0
times infinity). Rounding of floats is left out, and loses nothing: the powers of
10 and 16 below 2^32 have at most 24 significant bits (10^9 is 5^9 * 2^9), and of
larger ones no more matters than that they are no words.

**Clib.** A memory is a function from addresses to bytes. Copies go byte by byte
in the direction the code chooses (`Direction`, from which region lies first)
and are compared with what a copy of disjoint regions would give. `strncpy`
pads with zeros and leaves a text that fills its limit without an end; `strstr`
of the empty string finds nothing, which is what the code does and not what C
says. `bsearch` is
the search of a range by its halves, as in the code: a function of the length of
the range and of where it begins. `ClibNext` moves and fills, so that the
functions are asked of every memory that those leave behind.

**Console.** A line is a sequence of words and blanks; `Pieces` are what trim
and split make of it, with the functions of `Strings`. The handler is
found by its lower-case name and refuses by `Refuse` when arguments are
missing. Handlers that change modelled state are the actions of `ScriptState`
and `Party` themselves, but for `testsetbit`, which writes a bit of `NewBits` by its
position and has no bound (p5.c:1200): beyond the 3072 bits it is an overrun. The
others call the game. `ReadsAsWritten`,
`OutIsExact` and the rest thus hold of what was typed, not of calls made up. An
`Orderly` line is words with one blank between them from one place of the line to
another, and whitespace anywhere else: `RunsWhatWasTyped` finds the words by
their places, not by a trim and a split of its own.

**PartyList, Healing.** `Members` is the order of the members a menu shows;
the window over them is `partyListOffset` with `scrollMax`, rebuilt before the
cursor moves and corrected after. In `Healing`, `chooser` is a ghost: the
member who was selected when the skill was chosen, against
`skillMenuPartyMemberSource`, which the code remembers. An answer that the
code reads uninitialised is a free choice.

**Shop.** `SpentIn`, `ReadFrom` and the two hooks that lend shop 70 its money
are the code's own lists. `order` stands between the game's question how many
and the purchase: what was seen to at the one must hold at the other. The
table of shops is the game's, and `ShopAssumption` says what is used of it.

**Daily.** `phase` is how far the calendar has turned; each phase has any
number of frames. The list of confidants is built row by row, with R2 free to
change between rows (`steady` tells the lists in which it did not). The count
of confidants starts at whatever the byte holds.

**Random, Models.** `randomInt` keeps the C widths, in halves of 16 bits; a
draw passes through a float of 24 bits. `Models` has the title's music and
model (loaded in either order), the loop that draws until the music changes,
the outfits drawn for combat, the clothes of a cutscene, and the priorities
under which archives are bound.

**Navigator.** One operator per function that the code replaces, each with its
own chain of numbers; `busy` is the line that still runs. A warning is marked
whether or not it can be said (`MarkWarning` comes before the question for `busy`),
so that one which falls while another line runs is lost for the battle. `past` and
`late` are ghosts: the warnings whose moment was, said or not, and whether one of
them was said after it. Blows fall while lines run (`Suffer`).

**KasumiData.** `WrittenTo` and `TakenFrom` are the two long lists of fields,
as maps of slots. A file keeps what it was written with; loading, playing on,
saving elsewhere and restarting come in any order. Bullets have 16 bits.

**Enemies.** The script of an enemy sets `EnemyPersona`, `SummonCustomBED` and
count 420; hooks of `dc.c` take them when the game carries the action out, if
it does. `wish` is a ghost: what the script of this turn asked for. The
summons' arguments and the black mask's alternation are here too.

**Orders.** Four commands set whether a unit can be targeted and whether it
endures, by bits of its flags; two more its tactics. `GetBtlUnitInCombat` gives
the first in the list with an ID, so that a script cannot name the second of
two twins except in its own turn, when `AI_CHK_SLIP` makes the game look at the
acting unit and a hook of `dc.c` keeps it in `enemyBtlUnit`. A state is shifted
into place as the code does, and a negative one fills the bits above (`wild`).
`given` and `told` are ghosts: the flags of the game and the orders since. Who
enters, leaves and acts is external.

**Looks.** A loading hook each for cut-in, model, persona, portrait and so on,
each with its own copy of the condition on Akechi's persona, as in the code, so that
one that differs shows (the mutant is one); `seen` collects the looks loaded since
the persona changed. `hsv2rgb` is the code's integer
arithmetic, and the wheel has 1440 positions.

**Tables.** Memory is bytes, the tables at any addresses that are apart
(`TableAt`: the linker's choice) and other data around them; a byte says where in
the file it came from, so that any wrong offset shows. `ReadSegment` copies all of
a segment, as the code does, which compares no length with the size of a table: what
is too long lies over whatever follows, where a table that is read later may
cover it again. `Written` says which segment each byte must then be from. Only a
copy that would leave memory is excluded, for it ends the program. The
padding is the code's bit trick (`ClzOfZero` is the count of leading zeros that
it relies on). A look-up that finds 0 writes the unit's own ID into the table.

**Abilities.** Five tables of which confidant's bonus gives what; a register
that `CheckUnitIsEndure` reads without writing it is `Leftovers`; the early end
of an encounter is a flag that three moments write; the ring is the skill list
closed by the added skill, and `ActiveGlobalSkillSlot` the position that the
hook remembers from the list before.

**Growth.** A member is its persona, level, experience, stats and eight skill
slots. Commands raise and reset it, exchange its persona and teach it; fights
(external) raise it by one level at a time up to `Trained`. `GET_LEARNABLE`
compares only with the first entry's level, stats are bytes, and a reset copies
six stats into an array of five, of which the sixth is the next field of the
structure. `WithRow` adds one row of a persona's table, and `GrownFrom` so many
of them from a level on: the code sums the rows in words and stores bytes at
the end, which comes to the same modulo 256. The initial skills are taken to be among the first eight entries, as
in the game's table.

**Guides.** A file's text lies at a place while the file is open; handles are
reused. Text is loaded before sound, as the game does at the start of a battle,
and count 9 may be set between any two steps.

## Runs

| Run | Instance | Shows |
|---|---|---|
| `loader` | 3 modules, all tables of lists up to 2 names (unknown names, sharing, cycles), all toggles; 230,737 states | order, pairing of calls, exactness for ordered tables, refinement of the policy, termination |
| `loader_misspelt` (violation) | 3 modules, one misspelt name | a module is initialised though its dependency was refused |
| `loader_status` (violation) | the example table of `prx/README.md` | a module refused though its dependencies are loaded |
| `runtime` | 3 modules, 5 hooks, 6 frames, all toggles, 3 choices of trampolines; 95,766 states | calls reach their function, handlers have their modules |
| `runtime_exflw_off` (violation) | the trampolines of hooks.yml | a call runs another function's original |
| `library` | the parts beneath the game: `HookDispatch` with 2 hooks and 6 frames, `Config` with 4 settings and files of up to 3 lines, `PatchFile` with 2 builds and 5 runs, all texts of up to 4 characters, memories of 5 cells; 136,282 states | each part against its own properties |
| `config_eof` (violation) | one file | last line without newline is garbled |
| `console` | three sessions: orderly party commands on every party; flags and counts at their borders with scripts between the lines; lines that are wrong in every way; 58,754 states | the right command, and state that reads back |
| `battle` | 1 mate, 2 enemies, 4 configurations; 631,970 states | globals of one encounter decide nothing about another |
| `scenes` | thirteen parts of the game, one per behaviour; 224,090 states | see below |
| `random_range` (violation) | one seed | a draw above the maximum |
| `bullets` (violation) | every change of bullets | more than the gun holds |

A property that a run checks is often a conjunction of named parts, each
with its own comment in the module:

| Property | Parts | What would break it |
|---|---|---|
| `SettingsAsWritten` (`Config`) | types, `LoadedAsWritten`, `OthersUndisturbed` | a text that runs into the next in the shared buffer |
| `PatchesKept` (`PatchFile`) | types, `SectionsFound`, `OnlyTheTailIsLost`, `RunReplacesItsSection` | a failed run that loses more than the tail |
| `TextsAgree` (`Text`) | `SearchesAgree`, `TrimIsExact`, `SplitRejoins`, `NumbersAsWritten`, `EditsAgree` | a search, trim, split, number, change of case or insertion that is not what the text says |
| `MemoryAgrees` (`Clib`) | `MovesAreExact`, `CopiesAreTexts`, `ComparesTexts`, `SearchesFind`, `BsearchFinds` | an overlapping move, a lost terminator |
| `ReadsAsWritten` (`ScriptState`) | types, `FlagsAsSaid`, `CountsAsSaid` | two flags in one bit |
| `LinesRunAsTyped` (`Console`) | `RunsWhatWasTyped`, `ComplaintsChangeNothing` | a refused line that has changed something |
| `EncounterEnds` (`Battle`) | types, `OutfitsKept`, `NoActorAfterBattle`, `JokerWalksAway` | something of an encounter left behind |
| `ContactMusic` (`Battle`) | `ThemeIsOwed`, `OutfitMusicKept` | a theme of another contact |
| `MembersInReach`, `HealingIsPaid` (`Healing`) | `RowsAreWindow`, `MovesToNeighbour`; `MenuCountsStock`, `CasterPays`, `ItemPaysForHealing` | a skipped member; a skill paid by its target |
| `ShopKeepsBooks` (`Shop`) | types, `NothingOwed`, `ItemsInRange`, `ShownIsOwned`, `FairTrade` | one currency shown and another taken |
| `CalendarIsRight` (`Daily`) | types, `AnnouncedOnce`, `OneRowIsLeftOut` | a clip in every frame, a confidant twice |
| `ModelsFit` (`Models`) | types, `TitleMatchesMusic`, `NobodyFreezes`, `ArchivesInOrder` | title and music of different games |
| `LinesAreRight` (`Navigator`) | types, `WarnedInTime`, `TellsEventAndUnit` | one line for two events or members, a warning said again, or late |
| `DataSurvives` (`KasumiData`) | types, `KasumiSurvives` | a field read from another's place |
| `FoesAsScripted` (`Enemies`) | types, `ShownAsScripted`, `CustomLineOnce`, `MaskVaries` | a wish that outlives its turn |
| `OrdersObeyed` (`Orders`) | types, `FlagsAsTold`, `OrdersAreOwn` | an order that reaches a twin, or other flags |
| `LooksAgree` (`Looks`) | types, `OneLook`, `WheelIsSmooth` | two looks in a battle |
| `TablesAsFiled` (`Tables`) | types, `MemoryAsCopied`, `TablesHoldTheFile`, `LookupsAsWritten` | a segment read from a wrong offset, or over other bytes than those that follow |
| `AbilitiesFit` (`Abilities`) | types, `EnduresOnce`, `EarlyEndIsThisBattles`, `TraitsAreOwn`, `CursorMovesToNeighbour` | an early end of the encounter before |
| `GrowthIsEarned` (`Growth`) | types, `ExpMatchesLevel`, `StatsMatchLevel`, `SkillsAreEarned` | a level's gains twice |
| `GuidesAgree` (`Guides`) | types, `LinesAreReadable`, `VoiceFitsText` | text of a closed file |

*Parts in one run.* `MCLibrary` and `MCScenes` have a rigid variable `part`: a
behaviour belongs to one part, and the variables of the others stay as they
begin. This is a sum of state spaces, not a product, and loses nothing: the
parts share no variables. `MCConsole` is one system: the console, scripts,
flags, counts and the party together.

*Why the bounds are enough.* Three modules with two names each give cycles of
length one to three, diamonds, a failure after a success, and a dependent of a
refused module; longer lists repeat the loop. Six frames hold a handler that
calls another hooked function, which calls an original: each kind of frame
lies on each other kind. Five hooks cover a descriptor found at, behind, and
beyond the hook's own place. Files of three lines let a setting be written,
overwritten and left alone; the buffer of eleven bytes is overrun by some and
not by others. Five runs of the tool are two complete builds and one more, or
a failure in any of them followed by others. Texts of four characters from an
alphabet of a blank, a line end, digits and a letter of either case contain a pattern of two at
the front, at the end, twice, and overlapping itself. Memories of a few cells
have all pairs of regions, overlapping from either side. The flags are first
and last of a section, of its overflow and of the storage, and one out of
bounds: any two that the conversion could bring together; 255, 256 and 512 are
the limits of the counts. Party slots start in every state a party can have.
`battle` has no bound on the number of encounters: the globals are finite, so
that every sequence of contacts, endings, requests and loaded saves is covered;
two enemies are the difference between the last and one before it.
`enableExpandedBGM` is on in all its configurations, since without it no theme
is played. In `scenes`: parties of eight with a gap in the list (more than the seven rows)
and of three; points and stock of at most two, which tell paid from not paid;
quantities of 33 and 66 that meet the limit of 99; days 229 to 238 around the
holiday; all ring positions of lists of two and three skills; tables whose
segments are shorter than they, longer (over the next table or other data), of an
odd length or padded, in two placements; levels by command from below the first to past the last, with
those around each entry of the list of skills; two enemies of one ID, of whom one at most has
been disturbed (`OneDisturbed`: an order that reaches the wrong one shows in the step that
gives it); two ailments and each debuff for the navigator.

In the run a word has 7 bits (`Word` is 128, `FloatMax` 256): with four
characters there are numbers within its signed half, beyond it and beyond the
word, and powers beyond a float. `NumbersAsWrittenCorrect` has every width.

*Named bounds*: `MaxFrames`, `HeapSize`, `MaxRuns`, `MaxFoes`, `MaxLength`,
`MaxPoints`, `MaxStock`, `Finds`, `Trained`, `MaxOpen`, `OneDisturbed`; the sizes of tables,
files and builds are the sets in the `MC` modules.

*Fairness.* `ModuleLoader` and `Config` assume weak fairness of the code of
the thread that runs `_start` and `_stop`: straight-line calls. Nothing
obliges the system to unload the PRX, and `Stop` has no fairness. `PatchFile`
assumes that a run which is neither stopped nor killed goes on; new runs and
failures have no fairness. `RunsEnd` is stated for inputs that leave no value
of three bytes, because with one the tool does not end. `MusicIsFound` assumes
that the loop in `p5eInit` goes on (`WF` of `Drawing`), and is stated for the
seeds of the run: from others the generator draws the same for ever. The
remaining modules have no liveness properties: the game may call without end,
and players need not finish a battle, leave a shop or close a menu. Deadlock is
not checked where an absorbing state stands for a crash or an end of the input
(`library`, `console`, `scenes`, `random_range`).

## Findings

1. `module.c:70`: an unknown dependency leaves the module marked as enabled
   (`loader_misspelt`).
2. `module.c:109`: no status is returned after a fresh load (`loader_status`).
   The shipped P5 table is not affected: `OrderedTableIsExact` is proved.
3. `shkgen.py:83`: an unbound hook without trampoline runs the next hook's
   original (`runtime_exflw_off`). This happens whenever a module is off.
4. `file.c:159`: a last line without newline is garbled (`config_eof`).
5. `random.c:29`: a draw from `min` to `max` can be `max + 1` (`random_range`).
6. `kasumi.c:1916`: the sum of the bullets is written, not the smaller of the
   sum and the maximum (`bullets`).

Other places in which the code does what its author may not have meant are
hazards with a note, and are kept in the models as they are: the trim of a
blank text, the last flag of each section, a cursor in a list of two skills,
an effect or a persona that a summon or an act leaves to the next, Mona's text
files that stay open. Two more are in no run: the comment of `stringReplaceEx`
(see **Text**; nothing in the repository calls it), and `EX_SET_ENEMY_SKILL`
(EXFLW.c:1524), which writes a row of the table of enemies without the test for
IDs above 999 that the commands beside it have (EXFLW.c:1436, 1475).

## Proofs

Checked with TLAPS for all values of the constants that the assumptions allow;
what those are is said with each part. Of the 40 properties of passing runs, all
but the four of liveness are theorems; `theorems` in `PROJECT.json` names the
telling ones and the
invariants that carry them. Every invariant that is called inductive holds
initially, is kept by each action (one lemma per action, where it is more than a
line), and implies its property; the last step of a theorem puts these together.

*Loader* (`Runtime_proofs`; `LoaderAssumption`: tables map modules to
sequences of modules or unknown names). `TypeOK` and `Core` are inductive: the
stack has no module twice, and a module is on it exactly while it is
`resolving`. `Core` is needed because the model names activations by their
module. For tables whose names resolve, the invariant adds how flags and calls
determine each other: a module that has `ENABLED` is on the stack or was
initialised once; one that is done without it never was. `CallsPairUp` follows.
`NamedDependenciesReady` needs, in addition, that dependencies before `next`
are initialised or still on the stack, and that in an acyclic table the stack
descends along the ranking, so that a dependency cannot be on the stack above
which its dependent runs.

*Refinement* (also there). Under the mapping `Life`, every step of the loader is
a step of `ModulePolicy` or a stutter. The invariant adds what the policy's
guards ask for: a module refused by the loader was toggled off, or has a
refused dependency, or the table is not ordered (in an ordered table the return
of a fresh load never reaches a caller that looks at it, as the dependency has
been loaded by `_start` before). `OrderedTableIsExact` is proved from the same
invariant.

*Dispatch* (`HookDispatch_proofs`; `HookAssumption`: numbers of hooks and
frames). The invariant says of each frame that its link names the frame directly
below, and that the r31 and TOC it saved are those of that frame; `at`, `r2` and
`r31` are then right for the innermost frame after every return.
`CallersStateKept` follows.

*Configuration* (also there; `ConfigAssumption`: files are sequences of lines,
an atomic setting's line has one element at most, and some texts are told
apart). `ConfigInv` has four parts. `SettingsFit` says that a cell of a setting
points at a literal or at a text that ends below `top`; `HeapFits`, that nothing
has been written above; hence a new text runs into none (`HeapWritten`), and
`OthersUndisturbed` follows for every file, malformed or not. `LoadedSoFar` is
`LoadedAsWritten` for the lines before the cursor, with the elements parsed so
far of the line at it. It needs `EndsInNewline`, which is the finding
`config_eof` seen from the other side.

*Patch file* (`HookDispatch_proofs`; `PatchAssumption`: files are sequences of
lines, builds are lists of sections with the sizes of their inputs). `PatchInv` says
that while a run writes, header and footer are cut from the file it has read
(`Cut`), that behind the header stand values of its inputs, whose bytes and what is
left add up to what has been read (`ValuesFit`), and, for a proper original, that
the lines on the disk that are not values are a beginning of the original's
(`TailsFit`), all of them while nothing has failed. `Skeleton` and `Total` are
recursive functions; what they make of a file in parts is shown by induction over
its lines. A run that ends has then replaced its section (`EndedRun`) and no other:
`ReplacingIsLocal` follows each section to its new place. The proof did not go
through for sections that hold lines other than values, which a run does not keep;
`Proper` now says so.

*Game* (`Runtime_proofs`, last part; `RuntimeAssumption`). Every step of the composition is
a step or a stutter of each half (`LoaderInGame`, `DispatchInGame`), so that what
is proved of the halves holds of the game. What neither half knows alone is
`GameInv`: until `_start` has returned `main` is the only frame, hence no hook
is bound under a call in progress; a bound hook's module has been initialised;
and every frame answers the call it was entered for. Binding under a call would
break the last part, which is why the first is needed. With
`NamedDependenciesReadyCorrect`, `HandlersAreReady` follows;
`UsableCallsReachTheirFunction` needs, besides, that the label of a hook with a
trampoline has its own descriptor behind it (`OwnDescriptor`).

*Scripts* (`Console_proofs`; `ScriptAssumption`: arguments are flag numbers
and natural numbers). `Converted` and `OwnBounds` read the tables of the
sections; from them, `OwnBitsDiffer` shows by linear arithmetic that the
conversion is injective on flags with a bit to themselves and keeps them off bit
12031. `PlacesDiffer` adds that distinct bits have distinct places in
`NewBits`. `TypeOK`, `FlagsAsSaid` and `CountsAsSaid` are then inductive, each
with `TypeOK`; `ReadsAsWritten` is the three together.

*Console* (also there; `ConsoleAssumption`: the constants list the numbers that the
sessions' lines write with). That the pieces of an orderly line are its words
(`PiecesAreWords`) follows from what `Text_proofs` knows of trim and split.
`RunsWhatWasTyped` is then inductive, and `ComplaintsChangeNothing` is read off
the branches of `ttyCmdProcessLine`. `TypedReadsAsWritten` proves `ReadsAsWritten`
of the console itself, where `testsetbit` writes bits by their position; and
`ConsoleKeepsParty` that the console implements `Party`, whence `NobodyTwice`,
`OutIsExact` and `InDisplacesTheLastOnly` hold of what is typed.

*Party* (`Battle_proofs`; `ArgsAssumption`: the commands' numbers are natural
numbers). `PartyTypeOK` and `NobodyTwice` are inductive together. For
`OutIsExact` the three fills are followed one by one: what is put back stands in
front of everything put back later, because the slots behind it are still empty.

*Battle* (also there; `BattleAssumption`: toggles are Boolean, `MaxFoes` is
positive). `BattleInv` has a part for each group of variables. The flags of a
contact agree with the contact owed, so never both stand; `isPreventGameOver`
equals the ghost `asked`; a third round is announced only in a challenge whose
second has been shown. The part about Joker is the reason why he walks away: he
has HP on the field and, without the toggle, as long as the fight goes on; a
battle that is found over with the toggle has a fallen Joker only when nobody
stands; and a battle that ends with him at 0 HP is one whose defeat was
prevented. All properties of the run follow. The slots' invariant is `PartyInv`,
taken over with its step lemma.

*Combat* (`Combat_proofs`), five small systems:
- `FoesInv` (any enemies, wishes and summons): between the decision of a turn
  and its use the globals are that turn's wish (`WishIsKept`), which is what
  `ShownAsScripted` needs; a line that waits has not been spoken (`LineWaits`);
  the mask's next line is the other one (`MaskTurns`).
- `NaviInv` (any cast, units and ailments): what is said is the line of its event
  and unit (`SaidRight`), and every warning whose moment was, said or not, is marked
  (`PastIsMarked`), whence `WarnedInTime`. That no two events share a number is
  read off the chains of numbers (`Numbers`).
- `OrdersInv` (any squad and IDs, with any number of twins, any states): types and
  `FlagsAsTold` are inductive as they stand; `OrdersAreOwn` follows from the
  look-up giving the first of its ID.
- `AbilitiesInv` (any bonuses, encounters and lists of at least two skills): who
  has endured in this encounter has been remembered, if no bonus meets the
  register left over; the ring arithmetic is done for lists of every length.
- `LooksInv` (any options, personas and frames): the files of a battle are of the
  look that the persona decides, which does not change in it. The wheel's
  smoothness is proved for each of its 360 hues by integer arithmetic within a
  sector and at its six borders (`Rises`), the division included.

*Members* (`Members_proofs`), with lemmas on recursive functions over the
naturals: `ByCounting` is induction for sets instead of
predicates, and `Recursion` gives the existence of a function whose value at n + 1
is made from that at n.
- `GrowthInv` (any member, experience that rises with the level, any gains and
  lists of skills): `GrownAdds` says that rows added in two goes are those of
  one, so that the stats after a command, a fight or several of either are those
  that the level gives; skills stay earned at higher levels and after more
  personas.
- `ModelsInv` (any seeds, outfits, settings and number of archives): `DrawIsNear`
  bounds what `randomIntBetween` returns by one beyond the maximum, rounding to a
  float of 24 bits included, which is the finding `random_range` as a theorem's
  bound and enough for `TitleMatchesMusic`; priorities are a recursion over the
  archives; the coat is put on last.
- `ListInv` and `HealInv` (any save, patients, costs and a stock below 100, as the
  game keeps it): members of the list are counted by rank (`RowsByRank`), from
  which the rows of a window are consecutive members and every press moves by
  one, round the ends (`MoveIsByOne`). `AimedByChooser` is why the caster pays.

*Scenes* (`Scenes_proofs`):
- `ShopInv` (`ShopAssumption`: shop 70 and no other has the clothes that can be
  sold, one at a time): `Orderly` says what `Choose` has seen to and `Buy` relies
  on: the order is of the shop's goods, its price is at most what is shown (shop
  70 apart), and its pieces fit, or are there. The sum that is spent is then at
  most what is owned because `ShownIsOwned`, and the byte through which pieces
  go holds them because they are at most 99. `FairTrade` and `ShopKeepsBooks`
  follow.
- `DailyInv` (all days and first counts): what has been heard is determined by
  the phase and count 321; the list so far is that of the rows built.
- `GuidesInv` (any installations and number of handles): the sound that is to be
  loaded next will fit the text (`VoiceWillFit`), whichever count is set before.
- `DataInv` (any files, values and shots): what lies in a file is what she was,
  each field at its place (`FilesHold`), and every field comes back from where it
  went (`SameWayBack`).
- `TablesInv` (segments of every length, tables of every size and place): segments
  begin where the padded ones before them end (`Begins`, a recursion, strictly
  growing); every byte of memory is of the last segment read that reaches it
  (`Written`), or the fill, or untouched. That tables hold their own file if every
  segment fits follows from it (`FittingIsWritten`), because the tables are apart.

*Strings* (`Text_proofs`; `TextAssumption`: any characters, patterns of at least
one). Texts are of any length, so every part of `TextsAgree` is an induction over
data. The library's induction theorems take an operator, which the provers cannot
instantiate; `ByCounting` and `ByAppending` state induction for sets instead, from
the fact that naturals have a least element, `StepsStay` gives a recursive function
its values one after the other, and `CourseOfValues` does so where the recursion
goes further back than one step (`LooksBack`), as in `stringReplaceEx` and
`bsearch`. Each part then has a statement about every prefix: the pieces up to a
place joined are the text up to it (`SplitRejoins`), the number read up to a digit
is that of Horner's rule (`NumbersAsWritten`, in base 10 and 16, both signs). For
numbers there are two inductions more: of `pow` over its exponents (`PowIs`: the
power, unless the last square was infinite), and over the digits of the sum that
stays the number until it is no word and undefined from then on (`WorthIs`).
`NumeralsAssumption` asks for words of an even number, and floats beyond them.
`SearchesAgree` and `TrimIsExact` need the least and the greatest place only.

*Memory* (also there; `ClibAssumption`: memories are finite and of bytes, with 0
among them; tables are strictly sorted). `ClibTypes` is inductive: moves and fills
leave a memory of as many bytes. `CopiedIs` says what a copy byte by byte gives
when no byte is read after it was written, and `memmove`'s choice of direction is
just that condition (`MovesAreExact`). Texts in memory are given by where they end
(`EndsAfter`): `WritesText` is what every copying function comes to, and
`FirstStop`, where two strings stop being the same, decides all comparisons.
`RangeSearched` is the invariant of `bsearch` by course of values: a search of a
range in which the key lies, if anywhere, finds it, the uneven half of an even
range included.

*Only model-checked.* Liveness (`EntryPointsReturn`, `LoadEnds`, `RunsEnd`,
`MusicIsFound`), which is out of the prover's reach. The findings' properties are
violated, and have nothing to prove.

## Plan

Done: loader, dispatch and runtime, configuration, patch file, scripts, party,
console, encounters, shops and screens, menus and dialogue, models and music,
orders, tables, looks and abilities, strings, memory and random numbers; theorems
for all safety properties.

Worth doing next: the commands of EXFLW that set one field of a unit, once more of
the game's structures is known; the TOC overrides of hooks and arguments on the
stack in `HookDispatch`.

## Not modelled

* The vendored `printf`, the disassembled ELF function (one more handler in
  `Runtime`), structures of the game, `p5_2014.c` (one-line forwards), and test
  samples.
* The text processing of `shkgen.py` and of the makefiles, floats in the
  configuration, formatting in the library, threads.
* Hooks of dc, p5e, kasumi and SecreC that answer from one comparison, add a
  constant or exchange one file: they have no state, and a model would restate
  them. Script commands that set one field of a unit, print, play a sound or
  call an event, and the extended command table, for the same reason.
* What happens behind an overrun (more than 32 words, more than 256 elements, a
  line of the TTY over 1024 bytes, count 512): it depends on what the linker
  put there.
* The argument stack of scripts: pushes and pops are the game's interpreter's,
  and the mod's push (`EXFLW.c:435`) moves its pointer by two without the
  repository saying what a slot is.
