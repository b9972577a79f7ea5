----------------------------- MODULE PatchFile -----------------------------
(***************************************************************************)
(* tools/bin2rpcs3patch.py with --replace_patch, as the build runs it: once*)
(* for the loader section of the patch file and once for the hook section, *)
(* never with --add_patch. A run reads the file, opens it for writing,     *)
(* which empties it, and writes what it kept around the new values. It can *)
(* end at any step: an input that cannot be read, an interrupt, a kill.    *)
(*                                                                         *)
(* The file is a sequence of lines. Python hands written lines to the disk *)
(* when its buffer is full or the file is closed: `disk` holds what is     *)
(* there for the next run to read, `written` what this run has written.    *)
(***************************************************************************)
EXTENDS Integers, Sequences

CONSTANTS Builds,        \* the builds considered, sequences of runs: records of
                         \* the section and the sizes of the input files
          PatchFiles,         \* the patch files considered
          MaxValueSize,  \* --max_value_size; the build leaves it at 4
          MaxRuns        \* bound: runs of the tool

ValueSizes == {1, 2, 4, 8}

LineKinds == {"text", "begin", "end", "value"}
LinesOf(f) == {f[i] : i \in DOMAIN f}

ASSUME PatchAssumption ==
  /\ Builds \subseteq Seq([name : STRING, sizes : Seq(Nat) \ {<< >>}]) \ {<< >>}
  /\ \A f \in PatchFiles : f \in Seq(LinesOf(f)) /\ \A l \in LinesOf(f) : l.kind \in LineKinds
  /\ MaxValueSize \in 1..8
  /\ MaxRuns \in Nat

Begin(n) == [kind |-> "begin", of |-> n]
End == [kind |-> "end", of |-> "any"]
Value(n, size) == [kind |-> "value", of |-> <<n, size>>]

VARIABLES
  jobs,      \* the build that is made, again and again; never changes
  original,  \* the patch file as it was made; never changes
  disk,      \* the lines of the patch file on disk
  written,   \* the lines the current run has written
  header,    \* what preprocessPatchFile found up to the start of the section
  footer,    \* and from its end on
  job,       \* the run of the build that is next, or going on
  input,     \* the input file being converted
  left,      \* its bytes that have not been read
  rem,       \* what is left of a value of another size; -1 outside that loop
  stage,
  failed,    \* a run has failed
  runs,      \* the runs begun
  before     \* the file the last run found; only the properties look at it

cursor == <<input, left, rem>>
patchVars == <<jobs, original, disk, written, header, footer, job, input, left, rem, stage, failed,
          runs, before>>

Name == jobs[job].name
Sizes == jobs[job].sizes

PatchInit ==
  /\ jobs \in Builds
  /\ original \in PatchFiles
  /\ disk = original
  /\ written = << >> /\ header = << >> /\ footer = << >>
  /\ job = 1 /\ input = 1 /\ left = 0 /\ rem = -1
  /\ stage = "idle" /\ failed = FALSE /\ runs = 0
  /\ before = << >>

-----------------------------------------------------------------------------
(* preprocessPatchFile                                                     *)

StartsOf(f, n) == {i \in DOMAIN f : f[i] = Begin(n)}
EndsBehind(f, i) == {k \in (i + 1)..Len(f) : f[k] = End}
LeastOf(S) == CHOOSE i \in S : \A k \in S : i <= k

\* up to the first start of section n, that line included
HeaderOf(f, n) == SubSeq(f, 1, LeastOf(StartsOf(f, n)))

\* a footer without the line that ends the section
FooterBehindEnd(f, n) ==
  LET ends == EndsBehind(f, LeastOf(StartsOf(f, n)))
  IN IF ends = {} THEN << >> ELSE SubSeq(f, LeastOf(ends) + 1, Len(f))

\* From the first end behind it to the end of the file. A section that nothing
\* ends takes the rest of the file with it.
FooterOf(f, n) ==
  LET ends == EndsBehind(f, LeastOf(StartsOf(f, n)))
  IN IF ends = {} THEN << >> ELSE SubSeq(f, LeastOf(ends), Len(f))

Scan ==
  /\ stage = "idle" /\ runs < MaxRuns
  /\ runs' = runs + 1
  /\ before' = disk
  /\ IF StartsOf(disk, Name) # {}
     THEN /\ header' = HeaderOf(disk, Name)
          /\ footer' = FooterOf(disk, Name)
          /\ stage' = "open"
     ELSE stage' = "not found" /\ UNCHANGED <<header, footer>>
  /\ UNCHANGED <<jobs, original, disk, written, job, cursor, failed>>

-----------------------------------------------------------------------------
(* main                                                                    *)

\* open( args.output, 'w+' ) and the header
Open ==
  /\ stage = "open"
  /\ disk' = << >>
  /\ written' = header
  /\ input' = 1 /\ left' = Sizes[1] /\ rem' = -1
  /\ stage' = "values"
  /\ UNCHANGED <<jobs, original, header, footer, job, failed, runs, before>>

Write(size) ==
  /\ written' = Append(written, Value(Name, size))
  /\ left' = left - size

\* the buffer is full
Flush ==
  /\ stage = "values" /\ disk # written
  /\ disk' = written
  /\ UNCHANGED <<jobs, original, written, header, footer, job, cursor, stage, failed, runs, before>>

\* values of what does not fill a whole one
RestOnly == left % MaxValueSize

NextSize == IF left < MaxValueSize THEN left ELSE MaxValueSize

\* writePatchVal
WriteValue ==
  /\ stage = "values" /\ rem = -1 /\ left > 0
  /\ IF NextSize \in ValueSizes THEN Write(NextSize) /\ UNCHANGED rem
     ELSE rem' = NextSize /\ UNCHANGED <<written, left>>
  /\ UNCHANGED <<jobs, original, disk, header, footer, job, input, stage, failed, runs, before>>

\* and its loop over the parts of a value of another size
WritePart ==
  /\ stage = "values" /\ rem > 0
  /\ LET part == CHOOSE z \in ValueSizes : z <= rem /\ \A y \in ValueSizes : y <= rem => y <= z
     IN Write(part) /\ rem' = rem - part
  /\ UNCHANGED <<jobs, original, disk, header, footer, job, input, stage, failed, runs, before>>

\* `while remValSize >= 0`: at 0 the loop goes on, and writes nothing.
Spin == stage = "values" /\ rem = 0 /\ UNCHANGED patchVars

NextInput ==
  /\ stage = "values" /\ rem = -1 /\ left = 0
  /\ input < Len(Sizes)
  /\ input' = input + 1
  /\ left' = Sizes[input + 1]
  /\ UNCHANGED <<jobs, original, disk, written, header, footer, job, rem, stage, failed, runs, before>>

CloseFile ==
  /\ stage = "values" /\ rem = -1 /\ left = 0
  /\ input = Len(Sizes)
  /\ written' = written \o footer
  /\ disk' = written \o footer
  /\ stage' = "idle"
  /\ job' = IF job = Len(jobs) THEN 1 ELSE job + 1
  /\ UNCHANGED <<jobs, original, header, footer, cursor, failed, runs, before>>

\* "Requested path to replace was not found in the output file"
GiveUp ==
  /\ stage = "not found"
  /\ stage' = "idle" /\ job' = 1 /\ failed' = TRUE
  /\ UNCHANGED <<jobs, original, disk, written, header, footer, cursor, runs, before>>

\* The run ends early, with the file closed by the interpreter or not at all,
\* and the build stops.
FailRun ==
  /\ stage \in {"open", "values"}
  /\ disk' \in IF stage = "values" THEN {disk, written} ELSE {disk}
  /\ stage' = "idle" /\ job' = 1 /\ failed' = TRUE
  /\ UNCHANGED <<jobs, original, written, header, footer, cursor, runs, before>>

Work == Open \/ WriteValue \/ WritePart \/ NextInput \/ CloseFile \/ GiveUp

Enough == stage = "idle" /\ runs = MaxRuns /\ UNCHANGED patchVars

PatchNext == Scan \/ Work \/ Flush \/ Spin \/ FailRun \/ Enough

PatchSpec == PatchInit /\ [][PatchNext]_patchVars

\* A run that is neither stopped nor killed goes on.
PatchFairSpec == PatchSpec /\ WF_patchVars(Work)

-----------------------------------------------------------------------------
(* Properties                                                              *)

PatchTypeOK ==
  /\ \A f \in {disk, written, header, footer, before} :
       \A i \in DOMAIN f : f[i].kind \in LineKinds
  /\ job \in DOMAIN jobs
  /\ input \in Nat /\ left \in Nat /\ rem \in -1..MaxValueSize
  /\ stage \in {"idle", "open", "values", "not found"}
  /\ failed \in BOOLEAN
  /\ runs \in 0..MaxRuns

\* The lines of section n of file f
Section(f, n) ==
  LET b == LeastOf(StartsOf(f, n))
  IN SubSeq(f, b + 1, LeastOf(EndsBehind(f, b)) - 1)

\* Sections are there once, ended, and hold nothing but values: a run replaces
\* whatever else is in its section, too.
Proper(f) ==
  \A i \in DOMAIN f : f[i].kind = "begin" =>
    /\ StartsOf(f, f[i].of) = {i}
    /\ EndsBehind(f, i) # {}
    /\ \A k \in (i + 1)..(LeastOf(EndsBehind(f, i)) - 1) : f[k].kind = "value"

\* everything but the values: other patches, comments, the marks of sections
Skeleton(f) ==
  LET kept[i \in 0..Len(f)] ==
        IF i = 0 THEN << >>
        ELSE IF f[i].kind = "value" THEN kept[i - 1] ELSE Append(kept[i - 1], f[i])
  IN kept[Len(f)]

Total(s) ==
  LET sum[i \in 0..Len(s)] == IF i = 0 THEN 0 ELSE sum[i - 1] + s[i] IN sum[Len(s)]
Bytes(body) == Total([i \in DOMAIN body |-> body[i].of[2]])

\* A run that ends well puts every byte of its inputs into its section, and
\* leaves the other sections and all that is around them as it found them.
RunReplacesItsSection ==
  [][Proper(before) /\ CloseFile =>
       /\ Skeleton(disk') = Skeleton(before)
       /\ Bytes(Section(disk', Name)) = Total(Sizes)
       /\ \A i \in DOMAIN before :
            before[i].kind = "begin" /\ before[i].of # Name =>
              Section(disk', before[i].of) = Section(before, before[i].of)]_patchVars

\* The builds go on finding their sections while no run has failed.
SectionsFound ==
  Proper(original) /\ (\A j \in DOMAIN jobs : StartsOf(original, jobs[j].name) # {}) /\ ~failed
    => stage # "not found"

\* Whatever fails however often: what the file holds besides values is always a
\* beginning of what it was made with, never anything twice or out of place.
OnlyTheTailIsLost ==
  Proper(original) =>
    LET s == Skeleton(disk) IN s = SubSeq(Skeleton(original), 1, Len(s))

\* Every run ends, in a build whose inputs leave no value of three bytes.
RunsEnd ==
  (\A j \in DOMAIN jobs : \A i \in DOMAIN jobs[j].sizes :
     (jobs[j].sizes[i] % MaxValueSize) \in ValueSizes \cup {0})
  => (stage = "values" ~> stage = "idle")

\* What the patches of others can rely on, whatever builds do and however they end.
PatchesKept == [](PatchTypeOK /\ SectionsFound /\ OnlyTheTailIsLost) /\ RunReplacesItsSection
=============================================================================
