------------------------- MODULE HookDispatch_proofs -------------------------
(* Theorems about what the modules stand on: the dispatch of hooks, for     *)
(* every number of hooks, every choice of trampolines and every nesting of *)
(* calls, the loading of the configuration, for every file, and the patch  *)
(* file, for every build and every way its runs end.                       *)
EXTENDS HookDispatch, Config, PatchFile, Text_proofs

FrameSet == [kind : Kinds, of : Hook \cup {NoHook},
             asked : {"main", "call", "original"} \X (Hook \cup {NoHook}),
             toc : {"elf", "prx"}, r31 : Nat, lr : Nat]

\* What frame i of a stack s owes to the frame below it: it returns there, with
\* the r31 of that frame; a thunk is called by compiled code and keeps the TOC
\* of the game; compiled code is called by a thunk or by a handler.
Linked(s, i) ==
  /\ s[i].lr = i - 1
  /\ i > 1 => s[i].r31 = i - 1
  /\ s[i].kind = "main" <=> i = 1
  /\ s[i].kind = "thunk" => s[i].toc = "elf" /\ s[i - 1].kind # "thunk"
  /\ s[i].kind \in {"handler", "original"} => s[i - 1].kind \in {"thunk", "handler"}

Chained(s) == /\ s \in Seq(FrameSet)
              /\ Len(s) \in Nat \ {0}
              /\ \A i \in 1..Len(s) : Linked(s, i)

\* The code that runs is that of the innermost frame.
AtTop ==
  at # 0 => /\ at = Len(mem)
            /\ r31 = at
            /\ mem[at].kind # "thunk" => r2 = Toc(mem[at].kind)

DispatchInv == DispatchTypeOK /\ Chained(mem) /\ AtTop

LEMMA AppendChained ==
  ASSUME NEW s, Chained(s), NEW f \in FrameSet,
         f.lr = Len(s), f.r31 = Len(s), f.kind # "main",
         f.kind = "thunk" => f.toc = "elf" /\ s[Len(s)].kind # "thunk",
         f.kind \in {"handler", "original"} => s[Len(s)].kind \in {"thunk", "handler"}
  PROVE  Chained(Append(s, f)) /\ Len(Append(s, f)) = Len(s) + 1
<1> DEFINE t == Append(s, f)
<1>1. /\ t \in Seq(FrameSet) /\ Len(t) = Len(s) + 1 /\ Len(s) \in Nat \ {0}
      /\ t[Len(s) + 1] = f
      /\ \A i \in 1..Len(s) : t[i] = s[i]
  BY DEF Chained
<1>2. \A i \in 1..Len(s) : Linked(s, i)
  BY DEF Chained
<1> HIDE DEF t
<1>3. ASSUME NEW i \in 1..Len(t) PROVE Linked(t, i)
  <2>1. CASE i = Len(s) + 1
    <3>1. t[i] = f /\ t[i - 1] = s[Len(s)] /\ i > 1 /\ i - 1 = Len(s)
      BY <1>1, <2>1
    <3> QED
      BY <3>1 DEF Linked
  <2>2. CASE i = 1
    <3>1. t[1] = s[1] /\ Linked(s, 1)
      BY <1>1, <1>2
    <3> QED
      BY <2>2, <3>1 DEF Linked
  <2>3. CASE i \in 2..Len(s)
    <3>1. t[i] = s[i] /\ t[i - 1] = s[i - 1] /\ Linked(s, i)
      BY <1>1, <1>2, <2>3
    <3> QED
      BY <3>1 DEF Linked
  <2> QED
    BY <1>1, <2>1, <2>2, <2>3
<1>4. Chained(t)
  BY <1>1, <1>3 DEF Chained
<1> QED
  BY <1>1, <1>4 DEF t

LEMMA PopChained ==
  ASSUME NEW s, Chained(s), Len(s) > 1
  PROVE  /\ Chained(TopWithout(s)) /\ Len(TopWithout(s)) = Len(s) - 1
         /\ \A i \in 1..(Len(s) - 1) : TopWithout(s)[i] = s[i]
<1> DEFINE t == TopWithout(s)
<1>1. /\ t \in Seq(FrameSet) /\ Len(t) = Len(s) - 1 /\ Len(s) \in Nat
      /\ \A i \in 1..(Len(s) - 1) : t[i] = s[i]
  BY DEF Chained, TopWithout
<1>2. \A i \in 1..Len(s) : Linked(s, i)
  BY DEF Chained
<1> HIDE DEF t
<1>3. ASSUME NEW i \in 1..Len(t) PROVE Linked(t, i)
  <2>1. t[i] = s[i] /\ Linked(s, i) /\ i \in Nat
    BY <1>1, <1>2
  <2>2. CASE i = 1
    BY <2>1, <2>2 DEF Linked
  <2>3. CASE i # 1
    <3>1. t[i - 1] = s[i - 1]
      BY <1>1, <2>3
    <3> QED
      BY <2>1, <3>1 DEF Linked
  <2> QED
    BY <2>2, <2>3
<1>4. Chained(t)
  BY <1>1, <1>3 DEF Chained
<1> QED
  BY <1>1, <1>4 DEF t

\* A compiled function entered on top of a chained stack
LEMMA EnterKeeps ==
  ASSUME NEW below, Chained(below), Len(below) + 1 <= MaxFrames,
         NEW kind \in {"handler", "original"}, NEW of \in Hook, NEW toc \in {"elf", "prx"},
         NEW asked \in {"main", "call", "original"} \X (Hook \cup {NoHook}),
         below[Len(below)].kind \in {"thunk", "handler"},
         Enter(below, kind, of, asked, toc, Len(below), Len(below)),
         DispatchTypeOK, UNCHANGED shared
  PROVE  DispatchInv'
<1> DEFINE f == Frame(kind, of, asked, toc, Len(below), Len(below))
<1>1. /\ f \in FrameSet /\ f.kind = kind /\ f.lr = Len(below) /\ f.r31 = Len(below)
      /\ Len(below) \in Nat \ {0}
  BY DEF Frame, FrameSet, Kinds, Chained
<1>2. /\ mem' = Append(below, f) /\ at' = Len(below) + 1 /\ r31' = Len(below) + 1
      /\ r2' = Toc(kind)
  BY DEF Enter
<1> HIDE DEF f
<1>3. Chained(mem') /\ Len(mem') = Len(below) + 1
  BY <1>1, <1>2, AppendChained
<1>4. mem'[at'].kind = kind
  BY <1>1, <1>2 DEF Chained
<1>5. AtTop'
  BY <1>2, <1>3, <1>4 DEF AtTop
<1>6. DispatchTypeOK'
  BY <1>1, <1>2, <1>3, HookAssumption DEF DispatchTypeOK, shared, Chained, FrameSet, Toc
<1> QED
  BY <1>3, <1>5, <1>6 DEF DispatchInv

\* The descriptor found behind the label of h is that of the first hook from h
\* on that has a trampoline; h's own, if it has one.
LEMMA DescriptorIs ==
  ASSUME NEW h \in Hook
  PROVE  /\ Descriptor(h) # NoHook => Descriptor(h) \in Hook
         /\ emit[h] => Descriptor(h) = h
<1> DEFINE T == {k \in h..HookCount : emit[k]}
<1>0. HookCount \in Nat /\ h \in 1..HookCount
  BY HookAssumption DEF Hook
<1>1. CASE T = {}
  <2>1. ~\E k \in h..HookCount : emit[k]
    BY <1>1
  <2>2. h \in h..HookCount
    BY <1>0
  <2> QED
    BY <2>1, <2>2 DEF Descriptor
<1>2. CASE T # {}
  <2>1. T \subseteq Nat
    BY <1>0
  <2>2. PICK x \in T : \A y \in T : ~(y < x)
    <3> HIDE DEF T
    <3>1. PICK x \in T : \A y \in T : x <= y
      BY <1>2, <2>1, LeastNumber
    <3>2. \A y \in T : ~(y < x)
      BY <2>1, <3>1
    <3> QED
      BY <3>2
  <2>3. x \in h..HookCount /\ emit[x] /\ \A i \in h..(x - 1) : ~emit[i]
    BY <1>0, <2>2
  <2>4. /\ Descriptor(h) \in h..HookCount /\ emit[Descriptor(h)]
        /\ \A i \in h..(Descriptor(h) - 1) : ~emit[i]
    BY <2>3 DEF Descriptor
  <2>5. Descriptor(h) \in Hook
    BY <1>0, <2>4 DEF Hook
  <2>6. ASSUME emit[h] PROVE Descriptor(h) = h
    <3>1. ~(h \in h..(Descriptor(h) - 1))
      BY <2>4, <2>6
    <3> QED
      BY <1>0, <2>4, <3>1
  <2> QED
    BY <2>5, <2>6
<1> QED
  BY <1>1, <1>2

LEMMA OriginalKeeps ==
  ASSUME NEW below, Chained(below), Len(below) + 1 <= MaxFrames, NEW h \in Hook,
         NEW asked \in {"main", "call", "original"} \X (Hook \cup {NoHook}),
         below[Len(below)].kind \in {"thunk", "handler"},
         EnterOriginal(below, h, asked, Len(below), Len(below)),
         DispatchInv, UNCHANGED shared
  PROVE  DispatchInv'
<1>1. CASE Descriptor(h) = NoHook
  BY <1>1 DEF EnterOriginal, WildJump, DispatchInv, DispatchTypeOK, AtTop, shared
<1>2. CASE Descriptor(h) # NoHook
  <2>1. Descriptor(h) \in Hook
    BY <1>2, DescriptorIs
  <2> QED
    BY <1>2, <2>1, EnterKeeps DEF EnterOriginal, DispatchInv
<1> QED
  BY <1>1, <1>2

\* What a running function may rely on
LEMMA BodyFacts ==
  ASSUME DispatchInv, InBody
  PROVE  /\ at = Len(mem) /\ r31 = at /\ r2 = Toc(mem[at].kind)
         /\ mem[at].kind # "thunk" /\ Linked(mem, at) /\ mem[at] \in FrameSet
         /\ Chained(mem) /\ DispatchTypeOK
BY DEF DispatchInv, InBody, AtTop, Chained

LEMMA DispatchStep == DispatchInv /\ [HooksNext]_hooksVars => DispatchInv'
<1> SUFFICES ASSUME DispatchInv, [HooksNext]_hooksVars PROVE DispatchInv'
  OBVIOUS
<1>1. ASSUME NEW h \in Hook, CallHooked(h) PROVE DispatchInv'
  <2>0. /\ InBody /\ Len(mem) + 2 <= MaxFrames /\ UNCHANGED shared
    BY <1>1 DEF CallHooked
  <2>1. /\ at = Len(mem) /\ r31 = at /\ r2 = Toc(mem[at].kind) /\ mem[at].kind # "thunk"
        /\ Chained(mem) /\ DispatchTypeOK
    BY <2>0, BodyFacts
  <2> DEFINE f == ThunkFrame(h)
             below == Append(mem, f)
  <2>2. /\ f \in FrameSet /\ f.kind = "thunk" /\ f.toc = "elf"
        /\ f.lr = Len(mem) /\ f.r31 = Len(mem)
    BY <2>1 DEF ThunkFrame, Frame, FrameSet, Kinds, CallToc, Toc, DispatchTypeOK
  <2> HIDE DEF f
  <2>3. Chained(below) /\ Len(below) = Len(mem) + 1
    BY <2>1, <2>2, AppendChained
  <2>4. below[Len(below)] = f /\ Len(below) + 1 <= MaxFrames
    BY <2>0, <2>1, <2>3, HookAssumption DEF Chained
  <2> HIDE DEF below
  <2>5. <<"call", h>> \in {"main", "call", "original"} \X (Hook \cup {NoHook})
    OBVIOUS
  <2>6. CASE word # "prx"
    BY <1>1, <2>6 DEF CallHooked, WildJump, DispatchInv, DispatchTypeOK, AtTop, shared
  <2>7. CASE word = "prx" /\ ptr[h] = "handler"
    <3>1. Enter(below, "handler", h, <<"call", h>>, "prx", Len(below), Len(below))
      BY <1>1, <2>3, <2>7 DEF CallHooked, below, f
    <3> QED
      BY <2>0, <2>1, <2>2, <2>3, <2>4, <2>5, <3>1, EnterKeeps
  <2>8. CASE word = "prx" /\ ptr[h] # "handler"
    <3>1. EnterOriginal(below, h, <<"call", h>>, Len(below), Len(below))
      BY <1>1, <2>3, <2>8 DEF CallHooked, below, f
    <3> QED
      BY <2>0, <2>1, <2>2, <2>3, <2>4, <2>5, <3>1, OriginalKeeps
  <2> QED
    BY <2>6, <2>7, <2>8
<1>2. ASSUME NEW h \in Hook, CallOriginal(h) PROVE DispatchInv'
  <2>0. /\ InBody /\ Len(mem) + 1 <= MaxFrames /\ UNCHANGED shared
        /\ mem[at].kind = "handler" /\ EnterOriginal(mem, h, <<"original", h>>, r31, at)
    BY <1>2 DEF CallOriginal
  <2>1. at = Len(mem) /\ r31 = Len(mem) /\ Chained(mem)
    BY <2>0, BodyFacts
  <2>2. <<"original", h>> \in {"main", "call", "original"} \X (Hook \cup {NoHook})
    OBVIOUS
  <2> QED
    BY <2>0, <2>1, <2>2, OriginalKeeps
<1>3. CASE Return
  <2>0. InBody /\ mem[at].kind # "main" /\ UNCHANGED shared
    BY <1>3 DEF Return
  <2>1. /\ at = Len(mem) /\ mem[at].kind \in {"handler", "original"} /\ Linked(mem, at)
        /\ r2 = Toc(mem[at].kind) /\ Chained(mem) /\ DispatchTypeOK /\ at \in Nat \ {0}
    BY <2>0, BodyFacts DEF FrameSet, Kinds, Chained
  <2>2. /\ Len(mem) > 1 /\ Top.lr = Len(mem) - 1 /\ Top.r31 = Len(mem) - 1
        /\ mem[Len(mem) - 1].kind \in {"thunk", "handler"}
    BY <2>1 DEF Linked, Top
  <2>3. /\ mem' = TopWithout(mem) /\ at' = Len(mem) - 1 /\ r31' = Len(mem) - 1
        /\ r2' = Resumed(Len(mem) - 1, r2)
    BY <1>3, <2>2 DEF Return
  <2>4. /\ Chained(mem') /\ Len(mem') = Len(mem) - 1
        /\ mem'[Len(mem) - 1] = mem[Len(mem) - 1]
    BY <2>1, <2>2, <2>3, PopChained
  <2>5. AtTop'
    BY <2>2, <2>3, <2>4 DEF AtTop, Resumed, Toc
  <2>6. r2' \in {"elf", "prx"}
    BY <2>1, <2>3 DEF Resumed, DispatchTypeOK
  <2>7. mem' \in Seq(FrameSet) /\ Len(mem') \in 1..MaxFrames
    <3>1. Len(mem) \in Nat /\ Len(mem) > 1 /\ Len(mem) <= MaxFrames
      BY <2>1, <2>2 DEF DispatchTypeOK
    <3> QED
      BY <3>1, <2>4, HookAssumption DEF Chained
  <2>8. DispatchTypeOK'
    <3>1. Len(mem) - 1 \in Nat
      BY <2>1, <2>2
    <3>2. emit' = emit /\ word' = word /\ ptr' = ptr
      BY <2>0 DEF shared
    <3> QED
      BY <2>1, <2>3, <2>6, <2>7, <3>1, <3>2 DEF DispatchTypeOK, FrameSet
  <2> QED
    BY <2>4, <2>5, <2>8 DEF DispatchInv
<1>4. CASE Epilog
  <2>0. at > 0 /\ mem[at].kind = "thunk" /\ UNCHANGED shared
    BY <1>4 DEF Epilog
  <2>1. at = Len(mem) /\ Chained(mem) /\ DispatchTypeOK /\ at \in Nat \ {0} /\ Linked(mem, at)
    BY <2>0 DEF DispatchInv, AtTop, Chained
  <2>2. /\ Len(mem) > 1 /\ Top.lr = Len(mem) - 1 /\ Top.r31 = Len(mem) - 1
        /\ Top.toc = "elf" /\ mem[Len(mem) - 1].kind # "thunk"
    BY <2>0, <2>1 DEF Linked, Top
  <2>3. /\ mem' = TopWithout(mem) /\ at' = Len(mem) - 1 /\ r31' = Len(mem) - 1
        /\ r2' = Resumed(Len(mem) - 1, "elf")
    BY <1>4, <2>2 DEF Epilog
  <2>4. /\ Chained(mem') /\ Len(mem') = Len(mem) - 1
        /\ mem'[Len(mem) - 1] = mem[Len(mem) - 1]
    BY <2>1, <2>2, <2>3, PopChained
  <2>5. AtTop'
    BY <2>2, <2>3, <2>4 DEF AtTop, Resumed, Toc
  <2>6. r2' \in {"elf", "prx"}
    BY <2>1, <2>3 DEF Resumed, DispatchTypeOK
  <2>7. mem' \in Seq(FrameSet) /\ Len(mem') \in 1..MaxFrames
    <3>1. Len(mem) \in Nat /\ Len(mem) > 1 /\ Len(mem) <= MaxFrames
      BY <2>1, <2>2 DEF DispatchTypeOK
    <3> QED
      BY <3>1, <2>4, HookAssumption DEF Chained
  <2>8. DispatchTypeOK'
    <3>1. Len(mem) - 1 \in Nat
      BY <2>1, <2>2
    <3>2. emit' = emit /\ word' = word /\ ptr' = ptr
      BY <2>0 DEF shared
    <3> QED
      BY <2>1, <2>3, <2>6, <2>7, <3>1, <3>2 DEF DispatchTypeOK, FrameSet
  <2> QED
    BY <2>4, <2>5, <2>8 DEF DispatchInv
<1>5. ASSUME NEW hs \in SUBSET Hook, InitRuntime(hs) \/ BindAll(hs) PROVE DispatchInv'
  <2>1. /\ UNCHANGED <<emit, thread>> /\ word' \in {"0x0BADF00D", "prx"}
        /\ ptr' \in [Hook -> {"trampoline", "handler"}]
    BY <1>5 DEF InitRuntime, BindAll, Bind, DispatchInv, DispatchTypeOK
  <2> QED
    BY <2>1 DEF DispatchInv, DispatchTypeOK, AtTop, thread
<1>6. CASE UNCHANGED hooksVars
  BY <1>6 DEF hooksVars, DispatchInv, DispatchTypeOK, AtTop
<1> QED
  BY <1>1, <1>2, <1>3, <1>4, <1>5, <1>6 DEF HooksNext, Run

\* Frames are linked to those below them, whatever is called in whatever order.
THEOREM DispatchInvariant == HooksSpec => []DispatchInv
<1>1. HooksInit => DispatchInv
  <2> SUFFICES ASSUME HooksInit PROVE DispatchInv
    OBVIOUS
  <2>1. Main \in FrameSet /\ Main.kind = "main" /\ Main.lr = 0
    BY DEF Main, Frame, FrameSet, Kinds, NoHook
  <2>2. mem = <<Main>> /\ Len(mem) = 1 /\ mem[1] = Main
    BY DEF HooksInit
  <2>3. Chained(mem)
    BY <2>1, <2>2 DEF Chained, Linked
  <2>4. AtTop
    BY <2>1, <2>2 DEF HooksInit, AtTop, Toc
  <2>5. DispatchTypeOK
    BY <2>1, <2>2, HookAssumption DEF HooksInit, DispatchTypeOK, FrameSet
  <2> QED
    BY <2>3, <2>4, <2>5 DEF DispatchInv
<1> QED
  BY <1>1, DispatchStep, PTL DEF HooksSpec

\* No link register or stack pointer ever leaves the stack of frames.
THEOREM DispatchTypeCorrect == HooksSpec => []DispatchTypeOK
<1>1. DispatchInv => DispatchTypeOK
  BY DEF DispatchInv
<1> QED
  BY <1>1, DispatchInvariant, PTL

\* The machine state a caller owns survives every call of a hooked function.
THEOREM CallersStateKeptCorrect == HooksSpec => []CallersStateKept
<1>1. DispatchInv => CallersStateKept
  BY BodyFacts DEF CallersStateKept
<1> QED
  BY <1>1, DispatchInvariant, PTL

(***************************************************************************)
(* The configuration, for every set of settings, every file and every size *)
(* of the buffer.                                                          *)
(***************************************************************************)

\* A text of n bytes at address p of the buffer h
TextIs(h, p, n) == /\ p \in Nat /\ n \in Nat /\ p + n < HeapSize /\ h[p + n] = Nul
                   /\ \A i \in p..(p + n - 1) : h[i] # Nul
TextIn(h, p) == LET n == CHOOSE n \in 0..(HeapSize - p) :
                             h[p + n] = Nul /\ \A i \in p..(p + n - 1) : h[i] # Nul
                IN [i \in 1..n |-> h[p + i - 1]]

LEMMA TextRead ==
  ASSUME NEW h, NEW p, NEW n, TextIs(h, p, n)
  PROVE  TextIn(h, p) = [i \in 1..n |-> h[p + i - 1]]
<1> DEFINE Ends(m) == h[p + m] = Nul /\ \A i \in p..(p + m - 1) : h[i] # Nul
<1>1. p \in Nat /\ n \in Nat /\ p + n < HeapSize /\ Ends(n) /\ HeapSize \in Nat
  BY ConfigAssumption DEF TextIs
<1>2. n \in 0..(HeapSize - p)
  BY <1>1
<1>3. ASSUME NEW m \in 0..(HeapSize - p), Ends(m)
      PROVE  m = n
  <2>1. m \in Nat
    BY <1>1
  <2>2. ~(m < n)
    <3> SUFFICES ASSUME m < n PROVE FALSE
      OBVIOUS
    <3>1. p + m \in p..(p + n - 1)
      BY <1>1, <2>1
    <3> QED
      BY <1>1, <1>3, <3>1
  <2>3. ~(n < m)
    <3> SUFFICES ASSUME n < m PROVE FALSE
      OBVIOUS
    <3>1. p + n \in p..(p + m - 1)
      BY <1>1, <2>1
    <3> QED
      BY <1>1, <1>3, <3>1
  <2> QED
    BY <1>1, <2>1, <2>2, <2>3
<1>4. (CHOOSE m \in 0..(HeapSize - p) : Ends(m)) = n
  <2> HIDE DEF Ends
  <2> QED
    BY <1>1, <1>2, <1>3
<1> QED
  BY <1>4 DEF TextIn

\* Two buffers that agree on a text read the same there.
LEMMA TextKept ==
  ASSUME NEW h, NEW g, NEW p, NEW n, TextIs(h, p, n), \A i \in p..(p + n) : g[i] = h[i]
  PROVE  TextIs(g, p, n) /\ TextIn(g, p) = TextIn(h, p)
<1>1. p \in Nat /\ n \in Nat
  BY DEF TextIs
<1>2. TextIs(g, p, n)
  BY <1>1 DEF TextIs
<1>3. TextIn(g, p) = [i \in 1..n |-> g[p + i - 1]] /\ TextIn(h, p) = [i \in 1..n |-> h[p + i - 1]]
  BY <1>2, TextRead
<1>4. \A i \in 1..n : p + i - 1 \in p..(p + n)
  BY <1>1
<1>5. \A i \in 1..n : g[p + i - 1] = h[p + i - 1]
  BY <1>4
<1> QED
  BY <1>2, <1>3, <1>5

CellSet(s) == IF Type[s] = "STRING" THEN Nat \cup {BuiltIn} ELSE Texts

\* What the cells point to: a literal of config.inc, or a text below the top.
Placed(s, k) ==
  Type[s] = "STRING" /\ value[s][k] # BuiltIn =>
    \E n \in Nat : TextIs(heap, value[s][k], n) /\ value[s][k] + n < top

SettingsFit ==
  /\ value = [s \in Setting |-> value[s]]
  /\ \A s \in Setting : value[s] \in Seq(CellSet(s))
  /\ count \in [Setting -> Nat]
  /\ \A s \in Setting : count[s] <= Len(value[s]) /\ (Class[s] = "ATOMIC" => count[s] = 1)
  /\ \A s \in Setting : \A k \in 1..Len(value[s]) : Placed(s, k)

\* Above the top nothing has been written.
HeapFits ==
  /\ top \in Nat /\ heap = [i \in 0..(HeapSize - 1) |-> heap[i]]
  /\ \A i \in 0..(HeapSize - 1) : i >= top => heap[i] = Nul

\* A line that is being parsed is its setting's.
LineFits ==
  /\ line \in Line /\ elem \in Nat /\ elem > 0
  /\ line.class = "ATOMIC" => Len(line.elems) <= 1
  /\ pc = "elements" =>
       /\ line.key \in Setting /\ ~Skipped(line)
       /\ elem - 1 <= Len(line.elems) /\ elem - 1 <= Len(value[line.key])

\* The lines of s before line n, and what they make of it
LinesTo(s, n) == {i \in LinesFor(s) : i < n}
LastOf(T) == CHOOSE i \in T : \A j \in T : j <= i
Default(s) == IF Type[s] = "STRING" THEN << <<None>> >> ELSE <<None>>
Recorded(s, n) ==
  Shown(s) = IF LinesTo(s, n) = {} THEN Default(s) ELSE MeaningOf(s, file[LastOf(LinesTo(s, n))])

\* A proper file is loaded up to the line that is parsed, and that one up to
\* its element.
LoadedSoFar ==
  ProperTexts /\ EndsInNewline =>
    /\ pc \in {"lines", "done"} => \A s \in Setting : Recorded(s, pos)
    /\ pc = "elements" =>
         /\ pos > 1 /\ line = file[pos - 1]
         /\ \A s \in Setting \ {line.key} : Recorded(s, pos)
         /\ \A k \in 1..(elem - 1) : Cell(line.key, k) = Meaning(line.key, line.elems[k])

\* The inductive invariant
ConfigInv ==
  /\ file \in Files /\ pos \in Nat /\ pos > 0 /\ pos <= Len(file) + 1
  /\ pc \in {"lines", "elements", "done", "overrun", "crashed", "hung"}
  /\ pc = "done" => pos > Len(file)
  /\ SettingsFit /\ HeapFits /\ LineFits /\ LoadedSoFar

LEMMA FilesAre ==
  ASSUME NEW f \in Files
  PROVE  /\ f \in Seq(Line) /\ Len(f) \in Nat
         /\ \A i \in 1..Len(f) :
              f[i] \in Line /\ (f[i].class = "ATOMIC" => Len(f[i].elems) <= 1)
<1>1. f \in Seq(Line)
  BY ConfigAssumption
<1>2. Len(f) \in Nat /\ \A i \in 1..Len(f) : f[i] \in Line
  BY <1>1
<1>3. \A i \in 1..Len(f) : f[i].class = "ATOMIC" => Len(f[i].elems) <= 1
  BY ConfigAssumption
<1> QED
  BY <1>1, <1>2, <1>3

LEMMA LineIs ==
  ASSUME NEW l \in Line
  PROVE  /\ l.key \in Setting \cup {Unknown, Blank} /\ l.class \in {"ATOMIC", "ARRAY"}
         /\ l.elems \in Seq(Element) /\ Len(l.elems) \in Nat
         /\ \A k \in 1..Len(l.elems) :
              l.elems[k].id \in Texts /\ l.elems[k].id # Nul /\ l.elems[k].len \in Nat
<1>1. /\ l.key \in Setting \cup {Unknown, Blank} /\ l.class \in {"ATOMIC", "ARRAY"}
      /\ l.elems \in Seq(Element)
  BY DEF Line
<1>2. Len(l.elems) \in Nat /\ \A k \in 1..Len(l.elems) : l.elems[k] \in Element
  BY <1>1
<1>3. Nul \notin Texts
  BY ConfigAssumption DEF Nul
<1> QED
  BY <1>1, <1>2, <1>3 DEF Element

LEMMA SettingsAre ==
  ASSUME NEW s \in Setting
  PROVE  /\ s \in Nat /\ s # Unknown /\ s # Blank
         /\ Type[s] \in {"BOOL", "INT", "STRING"} /\ Class[s] \in {"ATOMIC", "ARRAY"}
<1>1. s \in Nat /\ s # Unknown
  BY ConfigAssumption
<1> QED
  BY <1>1, ConfigAssumption DEF Blank

LEMMA ConfigInitial == Init => ConfigInv
<1> SUFFICES ASSUME Init PROVE ConfigInv
  OBVIOUS
<1>1. file \in Files /\ pos = 1 /\ elem = 1 /\ pc = "lines" /\ top = 0
  BY DEF Init
<1>2. Len(file) \in Nat
  BY <1>1, FilesAre
<1>3. value = [s \in Setting |-> <<DefaultCell(s)>>] /\ count = [s \in Setting |-> 1]
      /\ heap = [i \in 0..(HeapSize - 1) |-> Nul]
  BY DEF Init
<1>4. ASSUME NEW s \in Setting
      PROVE  /\ DefaultCell(s) \in CellSet(s) /\ Cell(s, 1) = Default(s)[1]
             /\ value[s] = <<DefaultCell(s)>> /\ count[s] = 1
             /\ Placed(s, 1)
  <2>1. value[s] = <<DefaultCell(s)>> /\ count[s] = 1 /\ value[s][1] = DefaultCell(s)
    BY <1>3
  <2>2. DefaultCell(s) \in CellSet(s)
    <3>1. CASE Type[s] = "STRING"
      <4>1. BuiltIn \in Nat \cup {BuiltIn}
        OBVIOUS
      <4>2. DefaultCell(s) = BuiltIn /\ CellSet(s) = Nat \cup {BuiltIn}
        BY <3>1 DEF DefaultCell, CellSet
      <4> QED
        BY <4>1, <4>2
    <3>2. CASE Type[s] # "STRING"
      <4>1. None \in Texts
        BY ConfigAssumption DEF None
      <4>2. DefaultCell(s) = None /\ CellSet(s) = Texts
        BY <3>2 DEF DefaultCell, CellSet
      <4> QED
        BY <4>1, <4>2
    <3> QED
      BY <3>1, <3>2
  <2>3. Cell(s, 1) = Default(s)[1]
    BY <2>1 DEF Cell, Default, DefaultCell
  <2>4. Placed(s, 1)
    BY <2>1 DEF Placed, DefaultCell
  <2> QED
    BY <2>1, <2>2, <2>3, <2>4
<1>5. SettingsFit
  <2>1. value = [s \in Setting |-> value[s]] /\ count \in [Setting -> Nat]
    BY <1>3
  <2>2. ASSUME NEW s \in Setting
        PROVE  value[s] \in Seq(CellSet(s)) /\ Len(value[s]) = 1
    <3>1. PICK x : x = DefaultCell(s)
      OBVIOUS
    <3>2. PICK S : S = CellSet(s)
      OBVIOUS
    <3>3. x \in S /\ value[s] = <<x>>
      BY <1>4, <3>1, <3>2
    <3> QED
      BY <3>2, <3>3
  <2>3. \A s \in Setting : count[s] = 1
    BY <1>4
  <2>4. \A s \in Setting : \A k \in 1..Len(value[s]) : Placed(s, k)
    <3> TAKE s \in Setting
    <3> TAKE k \in 1..Len(value[s])
    <3>1. k = 1
      <4>1. Len(value[s]) = 1
        BY <2>2
      <4> QED
        BY <4>1
    <3> QED
      BY <1>4, <3>1
  <2>5. \A s \in Setting : count[s] <= Len(value[s])
    <3> TAKE s \in Setting
    <3>1. count[s] = 1 /\ Len(value[s]) = 1
      BY <2>2, <2>3
    <3> QED
      BY <3>1
  <2> QED
    BY <2>1, <2>2, <2>3, <2>4, <2>5 DEF SettingsFit
<1>6. HeapFits
  BY <1>1, <1>3 DEF HeapFits
<1>7. LineFits
  <2>1. line = [key |-> Blank, class |-> "ATOMIC", elems |-> << >>, eol |-> "lf"]
    BY DEF Init
  <2>2. line \in Line /\ Len(line.elems) = 0
    BY <2>1 DEF Line
  <2> QED
    BY <1>1, <2>2 DEF LineFits
<1>8. \A s \in Setting : Recorded(s, pos)
  <2> TAKE s \in Setting
  <2>1. LinesTo(s, pos) = {}
    BY <1>1, <1>2 DEF LinesTo, LinesFor
  <2>2. Shown(s) = [k \in 1..1 |-> Cell(s, k)]
    BY <1>4 DEF Shown
  <2>3. Shown(s) = [k \in 1..1 |-> Default(s)[1]]
    BY <1>4, <2>2
  <2>4. Default(s) = [k \in 1..1 |-> Default(s)[1]]
    BY DEF Default
  <2> QED
    BY <2>1, <2>3, <2>4 DEF Recorded
<1> QED
  BY <1>1, <1>2, <1>5, <1>6, <1>7, <1>8 DEF ConfigInv, LoadedSoFar

\* The lines before a line stay the same lines.
LEMMA FileRests ==
  ASSUME file' = file
  PROVE  /\ ProperTexts' = ProperTexts /\ EndsInNewline' = EndsInNewline
         /\ \A s, n : LinesTo(s, n)' = LinesTo(s, n)
<1>1. ProperTexts' = ProperTexts /\ EndsInNewline' = EndsInNewline
  BY DEF ProperTexts, EndsInNewline
<1>2. \A s, n : LinesTo(s, n)' = LinesTo(s, n)
  BY DEF LinesTo, LinesFor, Skipped
<1> QED
  BY <1>1, <1>2

LEMMA MeaningRests ==
  /\ \A s, e : Meaning(s, e)' = Meaning(s, e)
  /\ \A s, l : MeaningOf(s, l)' = MeaningOf(s, l)
<1>1. \A s, e : Meaning(s, e)' = Meaning(s, e)
  BY DEF Meaning
<1>2. \A s, l : MeaningOf(s, l)' = MeaningOf(s, l)
  BY <1>1 DEF MeaningOf
<1> QED
  BY <1>1, <1>2

\* What is shown does not depend on more than the settings and the buffer.
LEMMA SettingsRest ==
  ASSUME UNCHANGED settings, UNCHANGED heap
  PROVE  /\ \A s, k : Cell(s, k)' = Cell(s, k)
         /\ \A s : Shown(s)' = Shown(s)
<1>1. value' = value /\ count' = count /\ heap' = heap
  BY DEF settings
<1>2. \A p : TextAt(p)' = TextAt(p)
  BY <1>1 DEF TextAt
<1>3. \A s, k : Cell(s, k)' = Cell(s, k)
  BY <1>1, <1>2 DEF Cell
<1> QED
  BY <1>1, <1>3 DEF Shown

\* How a record is carried from one state to the next
LEMMA RecordIs ==
  ASSUME file' = file, NEW s,
         Shown(s)' = IF LinesTo(s, pos') = {} THEN Default(s)
                     ELSE MeaningOf(s, file[LastOf(LinesTo(s, pos'))])
  PROVE  Recorded(s, pos)'
<1>1. LinesTo(s, pos)' = LinesTo(s, pos')
  BY DEF LinesTo, LinesFor, Skipped
<1>2. MeaningOf(s, file[LastOf(LinesTo(s, pos))])' = MeaningOf(s, file[LastOf(LinesTo(s, pos'))])
  BY <1>1 DEF MeaningOf, Meaning
<1> QED
  BY <1>1, <1>2 DEF Recorded, Default

\* A step that leaves the settings and the buffer alone
LEMMA SettingsFitStill ==
  ASSUME SettingsFit, HeapFits, UNCHANGED settings
  PROVE  SettingsFit' /\ HeapFits'
<1>1. value' = value /\ count' = count /\ heap' = heap /\ top' = top
  BY DEF settings
<1>2. \A s, k : Placed(s, k)' <=> Placed(s, k)
  BY <1>1 DEF Placed, TextIs
<1> QED
  BY <1>1, <1>2 DEF SettingsFit, HeapFits

LEMMA EndedStep ==
  ASSUME ConfigInv, UNCHANGED <<file, pos, line, settings, elem>>,
         pc' \in {"overrun", "crashed", "hung"}
  PROVE  ConfigInv'
<1>1. SettingsFit' /\ HeapFits'
  BY SettingsFitStill DEF ConfigInv
<1>2. pc' # "elements" /\ pc' # "done" /\ pc' # "lines"
  OBVIOUS
<1>3. LineFits'
  BY <1>2 DEF ConfigInv, LineFits
<1>4. LoadedSoFar'
  BY <1>2 DEF LoadedSoFar
<1> QED
  BY <1>1, <1>2, <1>3, <1>4 DEF ConfigInv

LEMMA GarbledIs ==
  ASSUME NEW l \in Line
  PROVE  Garbled(l) \in Line /\ Len(Garbled(l).elems) = 1
<1>1. PICK n \in Nat : n = IF l.elems = << >> THEN 0 ELSE l.elems[1].len
  <2>1. l.elems \in Seq(Element) /\ Len(l.elems) \in Nat
    BY LineIs
  <2>2. l.elems # << >> => 1 \in 1..Len(l.elems)
    BY <2>1
  <2>3. l.elems # << >> => l.elems[1].len \in Nat
    BY <2>2, LineIs
  <2> QED
    BY <2>3
<1>2. PICK e : e = [id |-> "garbled", len |-> n + 1, form |-> "text"]
  OBVIOUS
<1>3. "garbled" \in Texts
  BY ConfigAssumption
<1>4. e \in Element
  BY <1>2, <1>3 DEF Element
<1>5. <<e>> \in Seq(Element) /\ Len(<<e>>) = 1
  BY <1>4
<1>6. Garbled(l) = [l EXCEPT !.class = "ATOMIC", !.elems = <<e>>]
  BY <1>1, <1>2 DEF Garbled
<1> QED
  BY <1>5, <1>6 DEF Line

\* Without odd endings, lines are read as they are.
LEMMA ReadAsWritten ==
  ASSUME EndsInNewline, NEW i \in 1..Len(file), NEW l \in LineAsRead(file[i])
  PROVE  l = file[i]
<1> QED
  BY DEF EndsInNewline, LineAsRead

\* A line that is skipped, or another setting's, does not count.
LEMMA NotItsLine ==
  ASSUME NEW n \in 1..Len(file), NEW s, Skipped(file[n]) \/ file[n].key # s
  PROVE  LinesTo(s, n + 1) = LinesTo(s, n)
<1>1. n \notin LinesFor(s)
  BY DEF LinesFor
<1>2. ASSUME NEW i \in LinesFor(s)
      PROVE  i < n + 1 <=> i < n
  <2>1. i \in 1..Len(file) /\ i # n
    BY <1>1 DEF LinesFor
  <2>2. i \in Int /\ n \in Int
    BY <2>1
  <2> QED
    BY <2>1, <2>2
<1> QED
  BY <1>2 DEF LinesTo

\* A line of the setting is the last one so far.
LEMMA ItsOwnIsLast ==
  ASSUME NEW n \in 1..Len(file), ~Skipped(file[n])
  PROVE  LinesTo(file[n].key, n + 1) # {} /\ LastOf(LinesTo(file[n].key, n + 1)) = n
<1>1. PICK T : T = LinesTo(file[n].key, n + 1)
  OBVIOUS
<1>2. n \in Int /\ n \in T
  <2>1. n \in Int
    OBVIOUS
  <2> QED
    BY <1>1, <2>1 DEF LinesTo, LinesFor
<1>3. \A i \in T : i \in Int /\ i <= n
  <2> TAKE i \in T
  <2>1. i \in 1..Len(file) /\ i < n + 1
    BY <1>1 DEF LinesTo, LinesFor
  <2> QED
    BY <1>2, <2>1
<1>4. \A i \in T : (\A j \in T : j <= i) => i = n
  <2> TAKE i \in T
  <2> SUFFICES ASSUME \A j \in T : j <= i PROVE i = n
    OBVIOUS
  <2>1. i \in Int /\ i <= n /\ n <= i
    BY <1>2, <1>3
  <2> QED
    BY <1>2, <2>1
<1>5. LastOf(T) = n
  BY <1>2, <1>3, <1>4 DEF LastOf
<1> QED
  BY <1>1, <1>2, <1>5

LEMMA ReadLineStep ==
  ASSUME ConfigInv, ReadLine
  PROVE  ConfigInv'
<1>1. /\ pc = "lines" /\ pos' = pos + 1 /\ file' = file /\ UNCHANGED settings
      /\ elem' = 1 /\ ~(pos > Len(file))
  BY DEF ReadLine, FirstElement, AtEnd
<1>2. PICK l \in LineAsRead(file[pos]) :
        line' = l /\ pc' = IF Skipped(l) THEN "lines" ELSE "elements"
  BY DEF ReadLine
<1>3. file \in Files /\ Len(file) \in Nat /\ pos \in Nat /\ pos > 0 /\ pos \in 1..Len(file)
  BY <1>1, FilesAre DEF ConfigInv
<1>4. SettingsFit' /\ HeapFits' /\ (\A s : Shown(s)' = Shown(s))
  <2>1. heap' = heap
    BY <1>1 DEF settings
  <2> QED
    BY <1>1, <2>1, SettingsFitStill, SettingsRest DEF ConfigInv
<1>5. file[pos] \in Line /\ (file[pos].class = "ATOMIC" => Len(file[pos].elems) <= 1)
  BY <1>3, FilesAre
<1>6. l \in Line /\ (l.class = "ATOMIC" => Len(l.elems) <= 1)
  <2>1. CASE l = file[pos]
    BY <1>5, <2>1
  <2>2. CASE l = Garbled(file[pos])
    <3>1. l \in Line /\ Len(l.elems) = 1
      BY <1>5, <2>2, GarbledIs
    <3> QED
      BY <3>1
  <2> QED
    BY <2>1, <2>2 DEF LineAsRead
<1>7. pc' \in {"lines", "elements"} /\ (pc' = "elements" => ~Skipped(l))
  BY <1>2
<1>8. LineFits'
  <2>1. l.key \in Setting \cup {Unknown, Blank} /\ Len(l.elems) \in Nat
    BY <1>6, LineIs
  <2>2. ~Skipped(l) => l.key \in Setting
    BY <2>1 DEF Skipped
  <2>3. pc' = "elements" => l.key \in Setting /\ Len(value'[l.key]) \in Nat
    BY <1>4, <1>7, <2>2 DEF SettingsFit
  <2>4. Skipped(line)' <=> Skipped(l)
    BY <1>2 DEF Skipped
  <2>5. elem' \in Nat /\ elem' > 0 /\ elem' - 1 = 0
    BY <1>1
  <2>6. pc' = "elements" => /\ l.key \in Setting /\ ~Skipped(line)'
                            /\ elem' - 1 <= Len(l.elems) /\ elem' - 1 <= Len(value'[l.key])
    BY <1>7, <2>1, <2>3, <2>4, <2>5
  <2> QED
    BY <1>2, <1>6, <2>5, <2>6 DEF LineFits
<1>9. LoadedSoFar'
  <2> SUFFICES ASSUME ProperTexts, EndsInNewline
               PROVE  /\ pc' = "lines" => \A s \in Setting : Recorded(s, pos)'
                      /\ pc' = "elements" =>
                           /\ pos' > 1 /\ line' = file[pos' - 1]
                           /\ \A s \in Setting \ {line'.key} : Recorded(s, pos)'
                           /\ \A k \in 1..(elem' - 1) :
                                Cell(line.key, k)' = Meaning(line.key, line.elems[k])'
    BY <1>1, <1>7, FileRests DEF LoadedSoFar
  <2>1. \A s \in Setting : Recorded(s, pos)
    BY <1>1 DEF ConfigInv, LoadedSoFar
  <2>2. l = file[pos] /\ pos' > 1 /\ pos' - 1 = pos
    BY <1>1, <1>3, ReadAsWritten
  <2>3. ASSUME NEW s \in Setting, Skipped(file[pos]) \/ file[pos].key # s
        PROVE  Recorded(s, pos)'
    <3>1. LinesTo(s, pos + 1) = LinesTo(s, pos)
      BY <1>3, <2>3, NotItsLine
    <3> QED
      BY <1>1, <1>4, <2>1, <3>1, RecordIs DEF Recorded
  <2>4. \A k : ~(k \in 1..(elem' - 1))
    BY <1>1
  <2> QED
    BY <1>1, <1>2, <2>2, <2>3, <2>4
<1>10. pos' \in Nat /\ pos' > 0 /\ pos' <= Len(file') + 1 /\ (pc' = "done" => pos' > Len(file'))
  BY <1>1, <1>3, <1>7
<1> QED
  BY <1>1, <1>3, <1>4, <1>7, <1>8, <1>9, <1>10 DEF ConfigInv

\* What the elements of a line write: a cell of its setting.
LEMMA CellWritten ==
  ASSUME NEW S, NEW cells \in Seq(S), NEW k \in Nat, k > 0, k <= Len(cells) + 1, NEW cell \in S,
         NEW new, new = IF k <= Len(cells) THEN [cells EXCEPT ![k] = cell] ELSE Append(cells, cell)
  PROVE  /\ new \in Seq(S) /\ Len(new) \in Nat /\ Len(cells) <= Len(new) /\ k <= Len(new)
         /\ new[k] = cell
         /\ \A j \in 1..Len(new) : j # k => j \in 1..Len(cells) /\ new[j] = cells[j]
<1>1. CASE k <= Len(cells)
  <2>1. k \in 1..Len(cells) /\ new = [cells EXCEPT ![k] = cell]
    BY <1>1
  <2>2. new \in Seq(S) /\ Len(new) = Len(cells) /\ new[k] = cell
    BY <2>1
  <2>3. \A j \in 1..Len(cells) : j # k => new[j] = cells[j]
    BY <2>1
  <2> QED
    BY <1>1, <2>2, <2>3
<1>2. CASE ~(k <= Len(cells))
  <2>1. k = Len(cells) + 1 /\ new = Append(cells, cell)
    BY <1>2
  <2>2. new \in Seq(S) /\ Len(new) = Len(cells) + 1 /\ new[k] = cell
    BY <2>1
  <2>3. \A j \in 1..Len(cells) : new[j] = cells[j]
    BY <2>1
  <2> QED
    BY <2>1, <2>2, <2>3
<1> QED
  BY <1>1, <1>2

\* What a text does to the buffer: nothing below the top, and it ends there.
LEMMA HeapWritten ==
  ASSUME HeapFits, NEW e, NEW n \in Nat, n = e.len, e.id # Nul, top + n + 1 < HeapSize,
         NEW h, h = HeapWith(e)
  PROVE  /\ h = [i \in 0..(HeapSize - 1) |-> h[i]]
         /\ \A i \in 0..(HeapSize - 1) : i >= top + n + 1 => h[i] = Nul
         /\ \A i \in 0..(HeapSize - 1) : i < top => h[i] = heap[i]
         /\ TextIs(h, top, n) /\ TextIn(h, top) = [i \in 1..n |-> e.id]
<1>1. top \in Nat /\ HeapSize \in Nat /\ DOMAIN heap = 0..(HeapSize - 1)
  BY ConfigAssumption DEF HeapFits
<1>2. h = [i \in 0..(HeapSize - 1) |->
             IF i \in top..(top + n - 1) THEN e.id ELSE IF i = top + n + 1 THEN Nul ELSE heap[i]]
  BY <1>1 DEF HeapWith
<1>3. \A i \in 0..(HeapSize - 1) :
        h[i] = IF i \in top..(top + n - 1) THEN e.id ELSE IF i = top + n + 1 THEN Nul ELSE heap[i]
  BY <1>2
<1>4. \A i \in 0..(HeapSize - 1) : i >= top + n + 1 => h[i] = Nul
  BY <1>1, <1>3 DEF HeapFits
<1>5. \A i \in 0..(HeapSize - 1) : i < top => h[i] = heap[i]
  BY <1>1, <1>3
<1>6. \A i \in top..(top + n - 1) : h[i] = e.id
  BY <1>1, <1>3, SMTT(30)
<1>7. h[top + n] = Nul
  <2>1. top + n \in 0..(HeapSize - 1) /\ top + n >= top
    BY <1>1
  <2>2. ~(top + n \in top..(top + n - 1)) /\ top + n # top + n + 1
    BY <1>1
  <2> QED
    BY <1>3, <2>1, <2>2 DEF HeapFits
<1>8. TextIs(h, top, n)
  BY <1>1, <1>6, <1>7 DEF TextIs
<1>9. TextIn(h, top) = [i \in 1..n |-> e.id]
  <2>1. TextIn(h, top) = [i \in 1..n |-> h[top + i - 1]]
    BY <1>8, TextRead
  <2>2. \A i \in 1..n : top + i - 1 \in top..(top + n - 1)
    BY <1>1
  <2> QED
    BY <1>6, <2>1, <2>2
<1> QED
  BY <1>2, <1>4, <1>5, <1>8, <1>9

\* A text that is there stays when only what is above the top changes.
TextsKept ==
  \A p, n : TextIs(heap, p, n) /\ p + n < top =>
              TextIs(heap', p, n) /\ p + n < top' /\ TextIn(heap', p) = TextIn(heap, p)

LEMMA TextsBelowStay ==
  ASSUME HeapFits, top' \in Nat, top <= top',
         \A i \in 0..(HeapSize - 1) : i < top => heap'[i] = heap[i]
  PROVE  TextsKept
<1> SUFFICES ASSUME NEW p, NEW n, TextIs(heap, p, n), p + n < top
             PROVE  TextIs(heap', p, n) /\ p + n < top' /\ TextIn(heap', p) = TextIn(heap, p)
  BY DEF TextsKept
<1>1. p \in Nat /\ n \in Nat /\ top \in Nat /\ HeapSize \in Nat /\ p + n < HeapSize
  BY ConfigAssumption DEF TextIs, HeapFits
<1>2. \A i \in p..(p + n) : heap'[i] = heap[i]
  BY <1>1
<1>3. TextIs(heap', p, n) /\ TextIn(heap', p) = TextIn(heap, p)
  BY <1>2, TextKept
<1> QED
  BY <1>1, <1>3

\* One element of a line: its own cell is written, and nothing else is seen.
LEMMA ElementIsParsed ==
  ASSUME ConfigInv, NEW s \in Setting, NEW k \in Nat, k > 0, k <= Len(value[s]) + 1,
         NEW e, e.id \in Texts, e.id # Nul, e.len \in Nat,
         Parse(s, e, k), ~Overruns(s, e)
  PROVE  /\ HeapFits' /\ TextsKept
         /\ value' = [t \in Setting |-> value'[t]]
         /\ \A t \in Setting : t # s => value'[t] = value[t]
         /\ value'[s] \in Seq(CellSet(s)) /\ Len(value'[s]) \in Nat
         /\ Len(value[s]) <= Len(value'[s]) /\ k <= Len(value'[s])
         /\ \A j \in 1..Len(value'[s]) : j # k => j \in 1..Len(value[s]) /\ value'[s][j] = value[s][j]
         /\ Placed(s, k)' /\ Cell(s, k)' = Meaning(s, e)
<1>1. SettingsFit /\ HeapFits
  BY DEF ConfigInv
<1>2. value[s] \in Seq(CellSet(s)) /\ DOMAIN value = Setting
  BY <1>1 DEF SettingsFit
<1>3. PICK n \in Nat : n = e.len
  OBVIOUS
<1>4. ASSUME NEW cell \in CellSet(s), SetCell(s, k, cell)
      PROVE  /\ value' = [t \in Setting |-> value'[t]]
             /\ \A t \in Setting : t # s => value'[t] = value[t]
             /\ value'[s] \in Seq(CellSet(s)) /\ Len(value'[s]) \in Nat
             /\ Len(value[s]) <= Len(value'[s]) /\ k <= Len(value'[s])
             /\ value'[s][k] = cell
             /\ \A j \in 1..Len(value'[s]) : j # k => j \in 1..Len(value[s]) /\ value'[s][j] = value[s][j]
  <2>1. PICK new : new = IF k <= Len(value[s]) THEN [value[s] EXCEPT ![k] = cell] ELSE Append(value[s], cell)
    OBVIOUS
  <2>2. value' = [value EXCEPT ![s] = new]
    BY <1>4, <2>1 DEF SetCell
  <2>3. value' = [t \in Setting |-> value'[t]] /\ value'[s] = new
        /\ \A t \in Setting : t # s => value'[t] = value[t]
    BY <1>1, <1>2, <2>2 DEF SettingsFit
  <2>4. /\ new \in Seq(CellSet(s)) /\ Len(new) \in Nat /\ Len(value[s]) <= Len(new) /\ k <= Len(new)
        /\ new[k] = cell
        /\ \A j \in 1..Len(new) : j # k => j \in 1..Len(value[s]) /\ new[j] = value[s][j]
    BY <1>2, <1>4, <2>1, CellWritten
  <2> QED
    BY <2>3, <2>4
<1>5. CASE Type[s] # "STRING"
  <2>1. PICK cell : cell = IF Type[s] = "BOOL" THEN IF IsTrue(e.id) THEN "true" ELSE "false" ELSE e.id
    OBVIOUS
  <2>2. cell \in CellSet(s)
    <3>1. "true" \in Texts /\ "false" \in Texts
      BY ConfigAssumption
    <3> QED
      BY <1>5, <2>1, <3>1 DEF CellSet
  <2>3. SetCell(s, k, cell) /\ heap' = heap /\ top' = top
    BY <1>5, <2>1 DEF Parse
  <2>4. HeapFits'
    BY <1>1, <2>3 DEF HeapFits
  <2>5. TextsKept
    BY <2>3 DEF TextsKept
  <2>6. Placed(s, k)'
    BY <1>5 DEF Placed
  <2>7. value'[s][k] = cell
    BY <1>4, <2>2, <2>3
  <2>8. Cell(s, k)' = Meaning(s, e)
    BY <1>5, <2>1, <2>7 DEF Cell, Meaning
  <2> QED
    BY <1>4, <2>2, <2>3, <2>4, <2>5, <2>6, <2>8
<1>6. CASE Type[s] = "STRING"
  <2>1. SetCell(s, k, top) /\ heap' = HeapWith(e) /\ top' = top + n + 1
    <3>1. top + (n + 1) = top + n + 1
      BY <1>1, <1>3 DEF HeapFits
    <3> QED
      BY <1>3, <1>6, <3>1 DEF Parse, BytesOf
  <2>2. top \in Nat /\ top + n + 1 < HeapSize
    <3>1. top \in Nat /\ HeapSize \in Nat
      BY <1>1, ConfigAssumption DEF HeapFits
    <3>2. ~(top + (n + 1) >= HeapSize)
      BY <1>3, <1>6 DEF Overruns, BytesOf
    <3> QED
      BY <3>1, <3>2
  <2>3. /\ heap' = [i \in 0..(HeapSize - 1) |-> heap'[i]]
        /\ \A i \in 0..(HeapSize - 1) : i >= top + n + 1 => heap'[i] = Nul
        /\ \A i \in 0..(HeapSize - 1) : i < top => heap'[i] = heap[i]
        /\ TextIs(heap', top, n) /\ TextIn(heap', top) = [i \in 1..n |-> e.id]
    BY <1>1, <1>3, <2>1, <2>2, HeapWritten
  <2>4. HeapFits'
    BY <2>1, <2>2, <2>3 DEF HeapFits
  <2>5. TextsKept
    BY <1>1, <2>1, <2>2, <2>3, TextsBelowStay
  <2>6. top \in CellSet(s) /\ top # BuiltIn
    BY <1>6, <2>2 DEF CellSet, BuiltIn
  <2>7. value'[s][k] = top
    BY <1>4, <2>1, <2>6
  <2>8. Placed(s, k)'
    <3>1. top + n < top'
      BY <2>1, <2>2
    <3> QED
      BY <2>3, <2>7, <3>1 DEF Placed
  <2>9. Cell(s, k)' = Meaning(s, e)
    <3>1. TextAt(value[s][k])' = TextIn(heap', top)
      BY <2>7 DEF TextAt, TextIn
    <3> QED
      BY <1>3, <1>6, <2>3, <2>6, <2>7, <3>1 DEF Cell, Meaning
  <2> QED
    BY <1>4, <2>1, <2>4, <2>5, <2>6, <2>8, <2>9
<1> QED
  BY <1>5, <1>6

\* The cells that an element does not write show what they did.
LEMMA OthersShow ==
  ASSUME SettingsFit, TextsKept, NEW s \in Setting, NEW k \in 1..Len(value[s]),
         value'[s][k] = value[s][k]
  PROVE  Placed(s, k)' /\ Cell(s, k)' = Cell(s, k)
<1>1. Placed(s, k)
  BY DEF SettingsFit
<1>2. CASE Type[s] = "STRING" /\ value[s][k] # BuiltIn
  <2>1. PICK n \in Nat : TextIs(heap, value[s][k], n) /\ value[s][k] + n < top
    BY <1>1, <1>2 DEF Placed
  <2>2. /\ TextIs(heap', value[s][k], n) /\ value[s][k] + n < top'
        /\ TextIn(heap', value[s][k]) = TextIn(heap, value[s][k])
    BY <2>1 DEF TextsKept
  <2>3. TextAt(value[s][k])' = TextIn(heap', value[s][k]) /\ TextAt(value[s][k]) = TextIn(heap, value[s][k])
    BY DEF TextAt, TextIn
  <2> QED
    BY <1>2, <2>2, <2>3 DEF Placed, Cell
<1>3. CASE ~(Type[s] = "STRING" /\ value[s][k] # BuiltIn)
  BY <1>3 DEF Placed, Cell
<1> QED
  BY <1>2, <1>3

\* The element that is parsed is one of the line's.
LEMMA ElementIs ==
  ASSUME ConfigInv, pc = "elements", MoreElements
  PROVE  /\ line.key \in Setting /\ elem \in 1..Len(line.elems)
         /\ elem \in Nat /\ elem > 0 /\ elem <= Len(value[line.key]) + 1
         /\ line.elems[elem].id \in Texts /\ line.elems[elem].id # Nul
         /\ line.elems[elem].len \in Nat
<1>1. /\ line \in Line /\ line.key \in Setting /\ elem \in Nat /\ elem > 0
      /\ elem - 1 <= Len(value[line.key])
  BY DEF ConfigInv, LineFits
<1>2. elem <= Len(line.elems) /\ Len(line.elems) \in Nat
  BY <1>1, LineIs DEF MoreElements
<1>3. Len(value[line.key]) \in Nat
  BY <1>1 DEF ConfigInv, SettingsFit
<1>4. elem \in 1..Len(line.elems) /\ elem <= Len(value[line.key]) + 1
  BY <1>1, <1>2, <1>3
<1> QED
  BY <1>1, <1>4, LineIs

LEMMA ParseElementStep ==
  ASSUME ConfigInv, ParseElement
  PROVE  ConfigInv' /\ \A t \in Setting : line.key # t => Shown(t)' = Shown(t)
<1>1. /\ pc = "elements" /\ MoreElements /\ file' = file /\ pos' = pos /\ line' = line
  BY DEF ParseElement
<1>2. PICK s, e, k : s = line.key /\ e = line.elems[elem] /\ k = elem
  OBVIOUS
<1>3. /\ s \in Setting /\ k \in Nat /\ k > 0 /\ k <= Len(value[s]) + 1
      /\ k \in 1..Len(line.elems) /\ e.id \in Texts /\ e.id # Nul /\ e.len \in Nat
  BY <1>1, <1>2, ElementIs
<1>4. SettingsFit /\ HeapFits /\ LineFits /\ LoadedSoFar
  BY DEF ConfigInv
<1>5. \/ /\ ~Overruns(s, e) /\ Parse(s, e, k) /\ elem' = k + 1
         /\ count' = count /\ pc' = pc
      \/ UNCHANGED <<settings, elem>> /\ pc' \in {"overrun", "crashed"}
  BY <1>2 DEF ParseElement, NextElement, Fail
<1>6. CASE UNCHANGED <<settings, elem>> /\ pc' \in {"overrun", "crashed"}
  <2>1. ConfigInv'
    BY <1>1, <1>6, EndedStep
  <2>2. \A t : Shown(t)' = Shown(t)
    BY <1>6, SettingsRest DEF settings
  <2> QED
    BY <2>1, <2>2
<1>7. CASE /\ ~Overruns(s, e) /\ Parse(s, e, k) /\ elem' = k + 1
           /\ count' = count /\ pc' = pc
  <2>1. /\ HeapFits' /\ TextsKept
        /\ value' = [t \in Setting |-> value'[t]]
        /\ \A t \in Setting : t # s => value'[t] = value[t]
        /\ value'[s] \in Seq(CellSet(s)) /\ Len(value'[s]) \in Nat
        /\ Len(value[s]) <= Len(value'[s]) /\ k <= Len(value'[s])
        /\ \A j \in 1..Len(value'[s]) : j # k => j \in 1..Len(value[s]) /\ value'[s][j] = value[s][j]
        /\ Placed(s, k)' /\ Cell(s, k)' = Meaning(s, e)
    BY <1>3, <1>7, ElementIsParsed
  <2>2. \A t \in Setting : value[t] \in Seq(CellSet(t)) /\ Len(value[t]) \in Nat
    BY <1>4 DEF SettingsFit
  <2>3. ASSUME NEW t \in Setting, NEW j \in 1..Len(value'[t]), t # s \/ j # k
        PROVE  j \in 1..Len(value[t]) /\ Placed(t, j)' /\ Cell(t, j)' = Cell(t, j)
    <3>1. j \in 1..Len(value[t]) /\ value'[t][j] = value[t][j]
      BY <2>1, <2>3
    <3> QED
      BY <1>4, <2>1, <3>1, OthersShow
  <2>4. SettingsFit'
    <3>1. \A t \in Setting : value'[t] \in Seq(CellSet(t)) /\ Len(value[t]) <= Len(value'[t])
                             /\ Len(value'[t]) \in Nat
      <4> TAKE t \in Setting
      <4>1. CASE t = s
        BY <2>1, <4>1
      <4>2. CASE t # s
        BY <2>1, <2>2, <4>2
      <4> QED
        BY <4>1, <4>2
    <3>2. count' \in [Setting -> Nat] /\ \A t \in Setting : Class[t] = "ATOMIC" => count'[t] = 1
      BY <1>4, <1>7 DEF SettingsFit
    <3>3. \A t \in Setting : count'[t] <= Len(value'[t])
      <4> TAKE t \in Setting
      <4>1. count[t] <= Len(value[t]) /\ count[t] \in Nat
        BY <1>4 DEF SettingsFit
      <4> QED
        BY <1>7, <2>2, <3>1, <4>1
    <3>4. \A t \in Setting : \A j \in 1..Len(value'[t]) : Placed(t, j)'
      <4> TAKE t \in Setting
      <4> TAKE j \in 1..Len(value'[t])
      <4>1. CASE t = s /\ j = k
        BY <2>1, <4>1
      <4>2. CASE t # s \/ j # k
        BY <2>3, <4>2
      <4> QED
        BY <4>1, <4>2
    <3> QED
      BY <2>1, <3>1, <3>2, <3>3, <3>4 DEF SettingsFit
  <2>5. LineFits'
    <3>1. elem' \in Nat /\ elem' > 0 /\ elem' - 1 = k
      BY <1>3, <1>7
    <3>2. Skipped(line)' <=> Skipped(line)
      BY <1>1 DEF Skipped
    <3>3. elem' - 1 <= Len(line.elems) /\ elem' - 1 <= Len(value'[s])
      BY <1>3, <2>1, <3>1
    <3> QED
      BY <1>1, <1>2, <1>4, <1>7, <3>1, <3>2, <3>3 DEF LineFits
  <2>6. ASSUME NEW t \in Setting, t # s
        PROVE  Shown(t)' = Shown(t)
    <3>1. count[t] \in Nat /\ count[t] <= Len(value[t]) /\ Len(value[t]) \in Nat
          /\ value'[t] = value[t] /\ count'[t] = count[t]
      BY <1>4, <1>7, <2>1, <2>2, <2>6 DEF SettingsFit
    <3>2. \A j \in 1..count[t] : Cell(t, j)' = Cell(t, j)
      <4> TAKE j \in 1..count[t]
      <4>1. j \in 1..Len(value'[t])
        BY <3>1
      <4> QED
        BY <2>3, <2>6, <4>1
    <3> QED
      BY <3>1, <3>2 DEF Shown
  <2>7. LoadedSoFar'
    <3> SUFFICES ASSUME ProperTexts, EndsInNewline
                 PROVE  /\ pos' > 1 /\ line' = file'[pos' - 1]
                        /\ \A t \in Setting \ {line'.key} : Recorded(t, pos)'
                        /\ \A j \in 1..(elem' - 1) :
                             Cell(line.key, j)' = Meaning(line.key, line.elems[j])'
      BY <1>1, <1>7, FileRests DEF LoadedSoFar
    <3>1. /\ pos > 1 /\ line = file[pos - 1]
          /\ \A t \in Setting \ {s} : Recorded(t, pos)
          /\ \A j \in 1..(k - 1) : Cell(s, j) = Meaning(s, line.elems[j])
      BY <1>1, <1>2, <1>4 DEF LoadedSoFar
    <3>2. \A t \in Setting \ {s} : Recorded(t, pos)'
      <4> TAKE t \in Setting \ {s}
      <4>1. Shown(t)' = Shown(t) /\ Recorded(t, pos)
        BY <2>6, <3>1
      <4> QED
        BY <1>1, <4>1, RecordIs DEF Recorded
    <3>3. ASSUME NEW j \in 1..(elem' - 1)
          PROVE  Cell(s, j)' = Meaning(s, line.elems[j])
      <4>1. j \in 1..k
        BY <1>3, <1>7
      <4>2. CASE j = k
        BY <1>2, <2>1, <4>2
      <4>3. CASE j # k
        <5>1. j \in 1..(k - 1) /\ j \in 1..Len(value'[s])
          BY <1>3, <2>1, <4>1, <4>3
        <5> QED
          BY <1>3, <2>3, <3>1, <4>3, <5>1
      <4> QED
        BY <4>2, <4>3
    <3>4. \A j : Meaning(line.key, line.elems[j])' = Meaning(s, line.elems[j])
      BY <1>1, <1>2 DEF Meaning
    <3>5. \A j : Cell(line.key, j)' = Cell(s, j)'
      BY <1>1, <1>2 DEF Cell
    <3> QED
      BY <1>1, <1>2, <3>1, <3>2, <3>3, <3>4, <3>5
  <2>8. ConfigInv'
    BY <1>1, <1>7, <2>1, <2>4, <2>5, <2>7 DEF ConfigInv
  <2> QED
    BY <1>2, <2>6, <2>8
<1> QED
  BY <1>5, <1>6, <1>7

LEMMA EndLineStep ==
  ASSUME ConfigInv, EndLine
  PROVE  ConfigInv' /\ \A t \in Setting : line.key # t => Shown(t)' = Shown(t)
<1>1. /\ pc = "elements" /\ ~MoreElements /\ pc' = "lines"
      /\ file' = file /\ pos' = pos /\ line' = line /\ elem' = elem
      /\ value' = value /\ heap' = heap /\ top' = top
  BY DEF EndLine
<1>2. PICK s : s = line.key
  OBVIOUS
<1>3. count' = [count EXCEPT ![s] = NewCount(s)]
  BY <1>2 DEF EndLine
<1>4. /\ s \in Setting /\ ~Skipped(line) /\ elem \in Nat /\ elem > 0
      /\ elem - 1 <= Len(line.elems) /\ elem - 1 <= Len(value[s]) /\ line \in Line
      /\ line.class = "ATOMIC" => Len(line.elems) <= 1
  BY <1>1, <1>2 DEF ConfigInv, LineFits
<1>5. SettingsFit /\ HeapFits /\ LineFits /\ LoadedSoFar
  BY DEF ConfigInv
<1>6. count \in [Setting -> Nat] /\ count[s] <= Len(value[s]) /\ (Class[s] = "ATOMIC" => count[s] = 1)
  BY <1>4, <1>5 DEF SettingsFit
<1>7. /\ NewCount(s) \in Nat /\ NewCount(s) <= Len(value[s])
      /\ Class[s] = "ATOMIC" => NewCount(s) = 1
  BY <1>4, <1>6 DEF NewCount
<1>8. count' \in [Setting -> Nat] /\ count'[s] = NewCount(s)
      /\ \A t \in Setting : t # s => count'[t] = count[t]
  BY <1>3, <1>4, <1>6, <1>7
<1>9. \A t, k : Placed(t, k)' <=> Placed(t, k)
  BY <1>1 DEF Placed, TextIs
<1>10. \A p : TextAt(p)' = TextAt(p)
  BY <1>1 DEF TextAt
<1>11. \A t, k : Cell(t, k)' = Cell(t, k)
  BY <1>1, <1>10 DEF Cell
<1>12. SettingsFit'
  <2>1. \A t \in Setting : count'[t] <= Len(value[t]) /\ (Class[t] = "ATOMIC" => count'[t] = 1)
    <3> TAKE t \in Setting
    <3>1. CASE t = s
      BY <1>7, <1>8, <3>1
    <3>2. CASE t # s
      BY <1>5, <1>8, <3>2 DEF SettingsFit
    <3> QED
      BY <3>1, <3>2
  <2> QED
    BY <1>1, <1>5, <1>8, <1>9, <2>1 DEF SettingsFit
<1>13. HeapFits'
  BY <1>1, <1>5 DEF HeapFits
<1>14. LineFits'
  BY <1>1, <1>5 DEF LineFits
<1>15. \A t \in Setting : t # s => Shown(t)' = Shown(t)
  BY <1>8, <1>11 DEF Shown
<1>16. LoadedSoFar'
  <2> SUFFICES ASSUME ProperTexts, EndsInNewline, NEW t \in Setting
               PROVE  Recorded(t, pos)'
    BY <1>1, FileRests DEF LoadedSoFar
  <2>1. /\ pos > 1 /\ line = file[pos - 1]
        /\ \A u \in Setting \ {s} : Recorded(u, pos)
        /\ \A j \in 1..(elem - 1) : Cell(s, j) = Meaning(s, line.elems[j])
    BY <1>1, <1>2, <1>5 DEF LoadedSoFar
  <2>2. CASE t # s
    <3>1. Shown(t)' = Shown(t) /\ Recorded(t, pos)
      BY <1>15, <2>1, <2>2
    <3> QED
      BY <1>1, <3>1, RecordIs DEF Recorded
  <2>3. CASE t = s
    <3>1. PICK n \in Nat : n = pos - 1 /\ n \in 1..Len(file) /\ n + 1 = pos
      <4>1. pos \in Nat /\ pos <= Len(file) + 1 /\ Len(file) \in Nat
        BY FilesAre DEF ConfigInv
      <4> QED
        BY <2>1, <4>1
    <3>2. LinesTo(s, pos) # {} /\ LastOf(LinesTo(s, pos)) = n
      BY <1>2, <1>4, <2>1, <3>1, ItsOwnIsLast
    <3>3. elem - 1 = Len(line.elems)
      <4>1. Len(line.elems) \in Nat
        BY <1>4, LineIs
      <4>2. ~(elem <= Len(line.elems) /\ line.elems[elem].form # "empty")
        BY <1>1 DEF MoreElements
      <4>3. \A k \in 1..Len(line.elems) : line.elems[k].form = "text"
        BY <2>1, <3>1 DEF ProperTexts
      <4>4. elem <= Len(line.elems) => line.elems[elem].form = "text"
        BY <1>4, <4>1, <4>3
      <4> QED
        BY <1>4, <4>1, <4>2, <4>4
    <3>4. NewCount(s) = Len(line.elems)
      <4>1. CASE Class[s] = "ARRAY"
        BY <3>3, <4>1 DEF NewCount
      <4>2. CASE Class[s] = "ATOMIC"
        <5>1. line.class = "ATOMIC" /\ line.elems # << >>
          BY <1>2, <1>4, <4>2 DEF Skipped
        <5>2. Len(line.elems) \in Nat /\ line.elems \in Seq(Element)
          BY <1>4, LineIs
        <5>3. Len(line.elems) # 0
          BY <5>1, <5>2
        <5>4. Len(line.elems) <= 1 /\ NewCount(s) = 1
          BY <1>4, <1>7, <4>2, <5>1
        <5>5. \A m \in Nat : m # 0 /\ m <= 1 => m = 1
          OBVIOUS
        <5>6. Len(line.elems) = 1
          BY <5>2, <5>3, <5>4, <5>5, Zenon
        <5> QED
          BY <5>4, <5>6
      <4> QED
        BY <1>4, <4>1, <4>2, SettingsAre
    <3>5. Shown(s)' = [k \in 1..Len(line.elems) |-> Cell(s, k)]
      BY <1>8, <1>11, <3>4 DEF Shown
    <3>6. Shown(s)' = MeaningOf(s, line)
      BY <2>1, <3>3, <3>5 DEF MeaningOf
    <3> QED
      BY <1>1, <2>1, <2>3, <3>1, <3>2, <3>6, RecordIs
  <2> QED
    BY <2>2, <2>3
<1>17. ConfigInv'
  BY <1>1, <1>12, <1>13, <1>14, <1>16 DEF ConfigInv
<1> QED
  BY <1>2, <1>15, <1>17

LEMMA CloseStep ==
  ASSUME ConfigInv, Close
  PROVE  ConfigInv'
<1>1. /\ pc = "lines" /\ pos > Len(file) /\ pc' = "done"
      /\ UNCHANGED <<file, pos, line, elem, settings>>
  BY DEF Close, AtEnd
<1>2. SettingsFit' /\ HeapFits'
  BY <1>1, SettingsFitStill DEF ConfigInv
<1>3. LineFits'
  BY <1>1 DEF ConfigInv, LineFits
<1>4. \A s : Shown(s)' = Shown(s)
  BY <1>1, SettingsRest DEF settings
<1>5. LoadedSoFar'
  <2> SUFFICES ASSUME ProperTexts, EndsInNewline, NEW s \in Setting
               PROVE  Recorded(s, pos)'
    BY <1>1, FileRests DEF LoadedSoFar
  <2>1. Recorded(s, pos)
    BY <1>1 DEF ConfigInv, LoadedSoFar
  <2> QED
    BY <1>1, <1>4, <2>1, RecordIs DEF Recorded
<1> QED
  BY <1>1, <1>2, <1>3, <1>5 DEF ConfigInv

\* Every step, and what it shows of the settings of other lines
LEMMA ConfigStep ==
  ASSUME ConfigInv, [Next]_vars
  PROVE  ConfigInv' /\ \A s \in Setting : line.key # s => Shown(s)' = Shown(s)
<1>1. CASE ReadLine
  <2>1. \A s : Shown(s)' = Shown(s)
    BY <1>1, SettingsRest DEF ReadLine, settings
  <2> QED
    BY <1>1, <2>1, ReadLineStep
<1>2. CASE UNCHANGED <<file, pos, line>> /\ (Fail("crashed") \/ Fail("hung"))
  <2>1. UNCHANGED <<file, pos, line, settings, elem>> /\ pc' \in {"overrun", "crashed", "hung"}
    BY <1>2 DEF Fail
  <2>2. \A s : Shown(s)' = Shown(s)
    BY <2>1, SettingsRest DEF settings
  <2> QED
    BY <2>1, <2>2, EndedStep
<1>3. CASE ParseElement
  BY <1>3, ParseElementStep
<1>4. CASE EndLine
  BY <1>4, EndLineStep
<1>5. CASE Close
  <2>1. \A s : Shown(s)' = Shown(s)
    BY <1>5, SettingsRest DEF Close, settings
  <2> QED
    BY <1>5, <2>1, CloseStep
<1>6. CASE UNCHANGED vars
  <2>1. /\ UNCHANGED <<file, pos, line, settings, elem>> /\ pc' = pc
    BY <1>6 DEF vars, settings
  <2>2. \A s : Shown(s)' = Shown(s)
    BY <2>1, SettingsRest DEF settings
  <2>3. SettingsFit' /\ HeapFits'
    BY <2>1, SettingsFitStill DEF ConfigInv
  <2>4. LineFits'
    <3>1. Skipped(line)' <=> Skipped(line)
      BY <2>1 DEF Skipped
    <3>2. value' = value
      BY <2>1 DEF settings
    <3> QED
      BY <2>1, <3>1, <3>2 DEF ConfigInv, LineFits
  <2>5. \A s \in Setting : Recorded(s, pos) => Recorded(s, pos)'
    BY <2>1, <2>2, RecordIs DEF Recorded
  <2>6. \A k : Cell(line.key, k)' = Cell(line.key, k)
    <3>1. value' = value /\ heap' = heap
      BY <2>1 DEF settings
    <3> QED
      BY <2>1, <3>1 DEF Cell, TextAt
  <2>7. \A k : Meaning(line.key, line.elems[k])' = Meaning(line.key, line.elems[k])
    BY <2>1 DEF Meaning
  <2>8. LoadedSoFar'
    <3>1. ProperTexts' = ProperTexts /\ EndsInNewline' = EndsInNewline
      BY <2>1, FileRests
    <3> QED
      BY <2>1, <2>5, <2>6, <2>7, <3>1 DEF ConfigInv, LoadedSoFar
  <2> QED
    BY <2>1, <2>2, <2>3, <2>4, <2>8 DEF ConfigInv
<1> QED
  BY <1>1, <1>2, <1>3, <1>4, <1>5, <1>6 DEF Next, Load, Over, CrashOnMissingValue, Hang

(* The settings fit, the texts are apart in the buffer, and a proper file has
   been loaded up to the line and the element that are parsed. *)
THEOREM ConfigInvariant == Spec => []ConfigInv
<1>1. ConfigInv /\ [Next]_vars => ConfigInv'
  BY ConfigStep
<1> QED
  BY <1>1, ConfigInitial, PTL DEF Spec

LEMMA ConfigTypesFit == ConfigInv => TypeOK
<1> SUFFICES ASSUME ConfigInv PROVE TypeOK
  OBVIOUS
<1>1. file \in Seq(Line) /\ pos \in 1..(Len(file) + 1)
  <2>1. file \in Seq(Line) /\ Len(file) \in Nat
    BY FilesAre DEF ConfigInv
  <2>2. pos \in Nat /\ pos > 0 /\ pos <= Len(file) + 1
    BY DEF ConfigInv
  <2> QED
    BY <2>1, <2>2
<1>2. line \in Line /\ elem \in Nat \ {0}
  BY DEF ConfigInv, LineFits
<1>3. \A s \in Setting : value[s] \in Seq(CellSet(s))
  BY DEF ConfigInv, SettingsFit
<1>4. count \in [Setting -> Nat] /\ DOMAIN heap = 0..(HeapSize - 1) /\ top \in Nat
  BY DEF ConfigInv, SettingsFit, HeapFits
<1> QED
  BY <1>1, <1>2, <1>3, <1>4 DEF ConfigInv, TypeOK, CellSet

LEMMA WrittenIsLoaded == ConfigInv => LoadedAsWritten
<1> SUFFICES ASSUME ConfigInv, pc = "done", ProperTexts, EndsInNewline, NEW s \in Setting
             PROVE  Shown(s) = IF LinesFor(s) = {} THEN Default(s)
                               ELSE MeaningOf(s, file[LastLineFor(s)])
  BY DEF LoadedAsWritten, Default
<1>1. Recorded(s, pos)
  BY DEF ConfigInv, LoadedSoFar
<1>2. LinesTo(s, pos) = LinesFor(s)
  <2>1. pos > Len(file) /\ Len(file) \in Nat /\ pos \in Nat
    BY FilesAre DEF ConfigInv
  <2>2. \A i \in LinesFor(s) : i < pos
    BY <2>1 DEF LinesFor
  <2> QED
    BY <2>2 DEF LinesTo
<1>3. LastOf(LinesFor(s)) = LastLineFor(s)
  BY DEF LastOf, LastLineFor
<1> QED
  BY <1>1, <1>2, <1>3 DEF Recorded

(* The settings that modules see are those of the last line for each, and no line
   disturbs another's setting, however malformed: for every file of any length,
   every set of settings and every size of configStringBuffer (config.c). *)
THEOREM SettingsAsWrittenCorrect == Spec => SettingsAsWritten
<1>1. ConfigInv => TypeOK /\ LoadedAsWritten
  BY ConfigTypesFit, WrittenIsLoaded
<1>2. ConfigInv /\ [Next]_vars
        => [\A s \in Setting : line.key # s => Shown(s)' = Shown(s)]_vars
  BY ConfigStep
<1> QED
  BY <1>1, <1>2, ConfigInvariant, PTL DEF Spec, SettingsAsWritten, OthersUndisturbed

(***************************************************************************)
(* The patch file, for every build and every file.                         *)
(***************************************************************************)
KeptStep(L) == [l \in L |-> [a \in Seq(L) |-> IF l.kind = "value" THEN a ELSE Append(a, l)]]

LEMMA KeptSteps == ASSUME NEW L PROVE Steps(KeptStep(L), L, Seq(L))
BY DEF Steps, KeptStep

LEMMA SkeletonFolds ==
  ASSUME NEW L, NEW f \in Seq(L)
  PROVE  FoldsTo(Skeleton(f), << >>, KeptStep(L), Seq(L), f)
<1> DEFINE IsKept(g) == g = [i \in 0..Len(f) |->
                               IF i = 0 THEN << >>
                               ELSE IF f[i].kind = "value" THEN g[i - 1] ELSE Append(g[i - 1], f[i])]
<1>1. \A i \in 1..Len(f), a \in Seq(L) :
        KeptStep(L)[f[i]][a] = IF f[i].kind = "value" THEN a ELSE Append(a, f[i])
  BY DEF KeptStep
<1>2. \E g : IsKept(g)
  <2>1. PICK g : /\ g \in [0..Len(f) -> Seq(L)] /\ g[0] = << >>
                 /\ \A i \in 1..Len(f) : g[i] = KeptStep(L)[f[i]][g[i - 1]]
    <3>1. << >> \in Seq(L)
      OBVIOUS
    <3> QED
      BY <3>1, KeptSteps, FoldExists
  <2>2. \A i \in 0..Len(f) : g[i] = IF i = 0 THEN << >>
                               ELSE IF f[i].kind = "value" THEN g[i - 1] ELSE Append(g[i - 1], f[i])
    <3> TAKE i \in 0..Len(f)
    <3>1. i # 0 => i \in 1..Len(f) /\ g[i - 1] \in Seq(L)
      BY <2>1
    <3> QED
      BY <1>1, <2>1, <3>1
  <2>3. IsKept(g)
    BY <2>1, <2>2
  <2> QED
    BY <2>3
<1>3. ASSUME NEW g, IsKept(g) PROVE IsFold(g, << >>, KeptStep(L), Seq(L), f)
  <2>1. \A i \in 0..Len(f) : g[i] = IF i = 0 THEN << >>
                               ELSE IF f[i].kind = "value" THEN g[i - 1] ELSE Append(g[i - 1], f[i])
    BY <1>3
  <2>2. g = [i \in 0..Len(f) |-> g[i]]
    BY <1>3
  <2>3. Len(f) \in Nat /\ \A i \in 1..Len(f) : i \in 0..Len(f) /\ i # 0
    OBVIOUS
  <2>4. g[0] = << >>
    BY <2>1, <2>3
  <2>5. \A i \in 1..Len(f) : g[i - 1] \in Seq(L) => g[i] = KeptStep(L)[f[i]][g[i - 1]]
    BY <1>1, <2>1, <2>3
  <2> QED
    BY <2>2, <2>4, <2>5 DEF IsFold
<1>4. Skeleton(f) = (CHOOSE g : IsKept(g))[Len(f)]
  BY DEF Skeleton
<1> HIDE DEF IsKept
<1>5. IsFold(CHOOSE g : IsKept(g), << >>, KeptStep(L), Seq(L), f)
  BY <1>2, <1>3
<1> QED
  BY <1>4, <1>5 DEF FoldsTo

LEMMA SkeletonOfAppended ==
  ASSUME NEW L, NEW f \in Seq(L), NEW l \in L
  PROVE  /\ Skeleton(f) \in Seq(L)
         /\ Skeleton(Append(f, l)) = IF l.kind = "value" THEN Skeleton(f) ELSE Append(Skeleton(f), l)
<1>1. << >> \in Seq(L) /\ Append(f, l) \in Seq(L)
  OBVIOUS
<1>2. Skeleton(f) \in Seq(L)
  BY <1>1, SkeletonFolds, KeptSteps, FoldStays
<1>3. Skeleton(Append(f, l)) = KeptStep(L)[l][Skeleton(f)]
  <2> DEFINE D == Seq(L)
             step == KeptStep(L)
             v == Skeleton(f)
             w == Skeleton(Append(f, l))
  <2>1. FoldsTo(v, << >>, step, D, f)
    BY SkeletonFolds
  <2>2. FoldsTo(w, << >>, step, D, Append(f, l))
    BY <1>1, SkeletonFolds
  <2>3. Steps(step, L, D) /\ << >> \in D
    BY <1>1, KeptSteps
  <2>4. f \in Seq(L) /\ l \in L
    OBVIOUS
  <2> HIDE DEF D, step, v, w
  <2>5. w = step[l][v]
    BY <2>1, <2>2, <2>3, <2>4, FoldOfAppended
  <2> QED
    BY <2>5 DEF step, v, w
<1> QED
  BY <1>2, <1>3 DEF KeptStep

LEMMA SkeletonOfNothing == Skeleton(<< >>) = << >>
<1>1. << >> \in Seq({}) 
  OBVIOUS
<1> QED
  BY <1>1, SkeletonFolds, FoldOfNothing

\* What is kept of two parts of a file is what is kept of each.
LEMMA SkeletonOfParts ==
  ASSUME NEW L, NEW f \in Seq(L), NEW g \in Seq(L)
  PROVE  Skeleton(f \o g) = Skeleton(f) \o Skeleton(g)
<1> DEFINE Z == {h \in Seq(L) : Skeleton(f \o h) = Skeleton(f) \o Skeleton(h)}
<1>1. << >> \in Z
  BY SkeletonOfNothing, SkeletonOfAppended, ConcatEmptySeq, EmptySeq
<1>2. ASSUME NEW h \in Seq(L), Skeleton(f \o h) = Skeleton(f) \o Skeleton(h), NEW l \in L
      PROVE  Skeleton(f \o Append(h, l)) = Skeleton(f) \o Skeleton(Append(h, l))
  <2>1. f \o Append(h, l) = Append(f \o h, l) /\ f \o h \in Seq(L)
    OBVIOUS
  <2>2. /\ Skeleton(f) \in Seq(L) /\ Skeleton(h) \in Seq(L)
        /\ Skeleton(Append(h, l)) = IF l.kind = "value" THEN Skeleton(h) ELSE Append(Skeleton(h), l)
        /\ Skeleton(Append(f \o h, l)) =
             IF l.kind = "value" THEN Skeleton(f \o h) ELSE Append(Skeleton(f \o h), l)
    BY <2>1, SkeletonOfAppended
  <2>3. Skeleton(f) \o Append(Skeleton(h), l) = Append(Skeleton(f) \o Skeleton(h), l)
    BY <2>2
  <2> QED
    BY <1>2, <2>1, <2>2, <2>3
<1>3. Z = Seq(L)
  <2>1. \A h \in Z, l \in L : Append(h, l) \in Z
    BY <1>2, AppendProperties
  <2>2. Z \subseteq Seq(L)
    OBVIOUS
  <2> HIDE DEF Z
  <2> QED
    BY <1>1, <2>1, <2>2, ByAppending
<1> QED
  BY <1>3

\* Nothing but lines of the file is kept, and every one that is no value.
LEMMA SkeletonElements ==
  ASSUME NEW L, NEW f \in Seq(L)
  PROVE  /\ \A p \in 1..Len(Skeleton(f)) :
               \E i \in 1..Len(f) : f[i] = Skeleton(f)[p] /\ f[i].kind # "value"
         /\ \A i \in 1..Len(f) :
               f[i].kind # "value" => \E p \in 1..Len(Skeleton(f)) : f[i] = Skeleton(f)[p]
<1> DEFINE Marked(h) ==
             /\ \A p \in 1..Len(Skeleton(h)) :
                   \E i \in 1..Len(h) : h[i] = Skeleton(h)[p] /\ h[i].kind # "value"
             /\ \A i \in 1..Len(h) :
                   h[i].kind # "value" => \E p \in 1..Len(Skeleton(h)) : h[i] = Skeleton(h)[p]
           Z == {h \in Seq(L) : Marked(h)}
<1>1. Marked(<< >>)
  BY SkeletonOfNothing, EmptySeq
<1>2. ASSUME NEW h \in Seq(L), Marked(h), NEW l \in L PROVE Marked(Append(h, l))
  <2>0. PICK k : k = Append(h, l)
    OBVIOUS
  <2>1. PICK n \in Nat : n = Len(h)
    BY LenProperties
  <2>2. Len(k) = n + 1 /\ k[n + 1] = l /\ \A i \in 1..n : k[i] = h[i]
    BY <2>0, <2>1
  <2>3. PICK s \in Seq(L) : s = Skeleton(h)
    BY SkeletonOfAppended
  <2>4. PICK m \in Nat : m = Len(s)
    BY LenProperties
  <2>5. /\ \A p \in 1..m : \E i \in 1..n : k[i] = s[p] /\ k[i].kind # "value"
        /\ \A i \in 1..n : k[i].kind # "value" => \E p \in 1..m : k[i] = s[p]
    <3>1. /\ \A p \in 1..m : \E i \in 1..n : h[i] = s[p] /\ h[i].kind # "value"
          /\ \A i \in 1..n : h[i].kind # "value" => \E p \in 1..m : h[i] = s[p]
      BY <1>2, <2>1, <2>3, <2>4, Zenon
    <3>2. ASSUME NEW p \in 1..m PROVE \E i \in 1..n : k[i] = s[p] /\ k[i].kind # "value"
      <4>1. PICK i \in 1..n : h[i] = s[p] /\ h[i].kind # "value"
        BY <3>1
      <4>2. k[i] = h[i]
        BY <2>2
      <4> QED
        BY <4>1, <4>2, Zenon
    <3>3. ASSUME NEW i \in 1..n, k[i].kind # "value" PROVE \E p \in 1..m : k[i] = s[p]
      <4>1. k[i] = h[i]
        BY <2>2
      <4> QED
        BY <3>1, <3>3, <4>1, Zenon
    <3> QED
      BY <3>2, <3>3
  <2>6. CASE l.kind = "value"
    <3>1. Skeleton(k) = s
      BY <2>0, <2>3, <2>6, SkeletonOfAppended
    <3>2. \A p \in 1..m : \E i \in 1..(n + 1) : k[i] = s[p] /\ k[i].kind # "value"
      BY <2>5
    <3>3. \A i \in 1..(n + 1) : k[i].kind # "value" => i \in 1..n
      BY <2>2, <2>6
    <3>4. Marked(k)
      BY <2>2, <2>4, <2>5, <3>1, <3>2, <3>3
    <3> QED
      BY <2>0, <3>4
  <2>7. CASE l.kind # "value"
    <3>1. PICK t : t = Append(s, l)
      OBVIOUS
    <3>2. Skeleton(k) = t
      BY <2>0, <2>3, <2>7, <3>1, SkeletonOfAppended
    <3>3. Len(t) = m + 1 /\ t[m + 1] = l /\ \A p \in 1..m : t[p] = s[p]
      BY <2>4, <3>1
    <3>4. \A p \in 1..(m + 1) : \E i \in 1..(n + 1) : k[i] = t[p] /\ k[i].kind # "value"
      <4> TAKE p \in 1..(m + 1)
      <4>1. CASE p = m + 1
        BY <2>2, <2>7, <3>3, <4>1
      <4>2. CASE p # m + 1
        <5>1. p \in 1..m
          BY <4>2
        <5>2. PICK i \in 1..n : k[i] = s[p] /\ k[i].kind # "value"
          BY <2>5, <5>1
        <5>3. i \in 1..(n + 1)
          OBVIOUS
        <5> QED
          BY <3>3, <5>1, <5>2, <5>3
      <4> QED
        BY <4>1, <4>2
    <3>5. \A i \in 1..(n + 1) : k[i].kind # "value" => \E p \in 1..(m + 1) : k[i] = t[p]
      <4> SUFFICES ASSUME NEW i \in 1..(n + 1), k[i].kind # "value"
                   PROVE  \E p \in 1..(m + 1) : k[i] = t[p]
        OBVIOUS
      <4>1. CASE i = n + 1
        BY <2>2, <3>3, <4>1
      <4>2. CASE i # n + 1
        <5>1. i \in 1..n
          BY <4>2
        <5>2. PICK p \in 1..m : k[i] = s[p]
          BY <2>5, <5>1
        <5>3. p \in 1..(m + 1)
          OBVIOUS
        <5> QED
          BY <3>3, <5>2, <5>3
      <4> QED
        BY <4>1, <4>2
    <3>6. Marked(k)
      BY <2>2, <3>2, <3>3, <3>4, <3>5
    <3> QED
      BY <2>0, <3>6
  <2> QED
    BY <2>6, <2>7
<1> HIDE DEF Marked
<1>3. Z = Seq(L)
  <2>1. \A h \in Z, l \in L : Append(h, l) \in Z
    BY <1>2, AppendProperties
  <2>2. Z \subseteq Seq(L) /\ << >> \in Z
    BY <1>1
  <2> HIDE DEF Z
  <2> QED
    BY <2>1, <2>2, ByAppending
<1>4. Marked(f)
  BY <1>3
<1> QED
  BY <1>4 DEF Marked

\* The sum of a sequence that is appended to.
AddStep == [x \in Int |-> [a \in Int |-> a + x]]

LEMMA TotalFolds ==
  ASSUME NEW s \in Seq(Int)
  PROVE  FoldsTo(Total(s), 0, AddStep, Int, s)
<1> DEFINE IsSum(g) == g = [i \in 0..Len(s) |-> IF i = 0 THEN 0 ELSE g[i - 1] + s[i]]
<1>1. \A i \in 1..Len(s), a \in Int : AddStep[s[i]][a] = a + s[i]
  BY DEF AddStep
<1>2. \E g : IsSum(g)
  <2>1. PICK g : /\ g \in [0..Len(s) -> Int] /\ g[0] = 0
                 /\ \A i \in 1..Len(s) : g[i] = AddStep[s[i]][g[i - 1]]
    <3> DEFINE D == Int
    <3>1. Steps(AddStep, D, D) /\ 0 \in D /\ s \in Seq(D)
      BY DEF Steps, AddStep
    <3> HIDE DEF D
    <3>2. \E g : /\ g \in [0..Len(s) -> D] /\ g[0] = 0
                 /\ \A i \in 1..Len(s) : g[i] = AddStep[s[i]][g[i - 1]]
      BY <3>1, FoldExists
    <3> QED
      BY <3>2 DEF D
  <2>2. \A i \in 0..Len(s) : g[i] = IF i = 0 THEN 0 ELSE g[i - 1] + s[i]
    <3> TAKE i \in 0..Len(s)
    <3>1. i # 0 => i \in 1..Len(s) /\ g[i - 1] \in Int
      <4>1. Len(s) \in Nat
        OBVIOUS
      <4>2. i # 0 => i \in 1..Len(s) /\ i - 1 \in 0..Len(s)
        BY <4>1
      <4> QED
        BY <2>1, <4>2, Zenon
    <3> QED
      BY <1>1, <2>1, <3>1
  <2>3. IsSum(g)
    BY <2>1, <2>2
  <2> QED
    BY <2>3
<1>3. ASSUME NEW g, IsSum(g) PROVE IsFold(g, 0, AddStep, Int, s)
  <2>1. \A i \in 0..Len(s) : g[i] = IF i = 0 THEN 0 ELSE g[i - 1] + s[i]
    BY <1>3
  <2>2. g = [i \in 0..Len(s) |-> g[i]]
    BY <1>3
  <2>3. Len(s) \in Nat /\ \A i \in 1..Len(s) : i \in 0..Len(s) /\ i # 0
    OBVIOUS
  <2>4. g[0] = 0
    BY <2>1, <2>3
  <2>5. \A i \in 1..Len(s) : g[i - 1] \in Int => g[i] = AddStep[s[i]][g[i - 1]]
    BY <1>1, <2>1, <2>3
  <2> QED
    BY <2>2, <2>4, <2>5 DEF IsFold
<1>4. Total(s) = (CHOOSE g : IsSum(g))[Len(s)]
  BY DEF Total
<1> HIDE DEF IsSum
<1>5. IsFold(CHOOSE g : IsSum(g), 0, AddStep, Int, s)
  BY <1>2, <1>3
<1> QED
  BY <1>4, <1>5 DEF FoldsTo

LEMMA TotalOfAppended ==
  ASSUME NEW s \in Seq(Int), NEW x \in Int
  PROVE  Total(s) \in Int /\ Total(Append(s, x)) = Total(s) + x
<1>1. Steps(AddStep, Int, Int) /\ 0 \in Int /\ Append(s, x) \in Seq(Int)
  BY DEF Steps, AddStep
<1>2. FoldsTo(Total(s), 0, AddStep, Int, s) /\ FoldsTo(Total(Append(s, x)), 0, AddStep, Int, Append(s, x))
  BY <1>1, TotalFolds
<1>3. Total(s) \in Int
  BY <1>1, <1>2, FoldStays
<1>4. Total(Append(s, x)) = AddStep[x][Total(s)]
  <2> DEFINE D == Int
             v == Total(s)
             w == Total(Append(s, x))
  <2>1. s \in Seq(D) /\ x \in D /\ Steps(AddStep, D, D) /\ 0 \in D
    BY <1>1
  <2>2. FoldsTo(v, 0, AddStep, D, s) /\ FoldsTo(w, 0, AddStep, D, Append(s, x))
    BY <1>2
  <2> HIDE DEF D, v, w
  <2>3. w = AddStep[x][v]
    BY <2>1, <2>2, FoldOfAppended
  <2> QED
    BY <2>3 DEF v, w
<1> QED
  BY <1>3, <1>4 DEF AddStep

LEMMA TotalOfNothing == Total(<< >>) = 0
<1>1. << >> \in Seq(Int) /\ 0 \in Int
  OBVIOUS
<1> QED
  BY <1>1, TotalFolds, FoldOfNothing

\* Values for section n.
ValuesOf(n) == {Value(n, z) : z \in Int}

LEMMA BytesOfAppended ==
  ASSUME NEW n, NEW v \in Seq(ValuesOf(n)), NEW z \in Int
  PROVE  Bytes(v) \in Int /\ Bytes(Append(v, Value(n, z))) = Bytes(v) + z
<1> DEFINE sizes == [i \in DOMAIN v |-> v[i].of[2]]
           more == [i \in DOMAIN Append(v, Value(n, z)) |-> Append(v, Value(n, z))[i].of[2]]
<1>1. \A l \in ValuesOf(n) : l.of[2] \in Int
  BY DEF ValuesOf, Value
<1>2. Value(n, z).of[2] = z
  BY DEF Value
<1>3. sizes \in Seq(Int) /\ Len(sizes) = Len(v)
  BY <1>1
<1>4. DOMAIN Append(v, Value(n, z)) = 1..(Len(v) + 1)
  OBVIOUS
<1>5. more = Append(sizes, z)
  <2>1. Append(sizes, z) = [i \in 1..(Len(v) + 1) |-> Append(sizes, z)[i]]
    BY <1>3
  <2>2. \A i \in 1..(Len(v) + 1) : more[i] = Append(sizes, z)[i]
    <3> TAKE i \in 1..(Len(v) + 1)
    <3>1. CASE i = Len(v) + 1
      BY <1>2, <1>3, <1>4, <3>1
    <3>2. CASE i # Len(v) + 1
      <4>1. i \in 1..Len(v) /\ i \in DOMAIN v
        BY <3>2
      <4>2. Append(v, Value(n, z))[i] = v[i] /\ Append(sizes, z)[i] = sizes[i] /\ sizes[i] = v[i].of[2]
        BY <1>3, <4>1
      <4> QED
        BY <1>4, <4>2
    <3> QED
      BY <3>1, <3>2
  <2> QED
    BY <1>4, <2>1, <2>2
<1>6. Bytes(v) = Total(sizes) /\ Bytes(Append(v, Value(n, z))) = Total(more)
  BY DEF Bytes
<1> HIDE DEF sizes, more
<1> QED
  BY <1>3, <1>5, <1>6, TotalOfAppended

LEMMA BytesOfNothing == Bytes(<< >>) = 0
<1>1. [i \in DOMAIN << >> |-> << >>[i].of[2]] = << >>
  OBVIOUS
<1> QED
  BY <1>1, TotalOfNothing DEF Bytes

\* Places in a file.
LEMMA EarliestIs ==
  ASSUME NEW S, NEW i \in S, S \subseteq Nat, \A k \in S : i <= k
  PROVE  LeastOf(S) = i
<1>1. \A j \in S : (\A k \in S : j <= k) => j = i
  <2> SUFFICES ASSUME NEW j \in S, \A k \in S : j <= k PROVE j = i
    OBVIOUS
  <2>1. i \in Nat /\ j \in Nat /\ i <= j /\ j <= i
    OBVIOUS
  <2> QED
    BY <2>1
<1> QED
  BY <1>1 DEF LeastOf

LEMMA EarliestExists ==
  ASSUME NEW S, S \subseteq Nat, S # {}
  PROVE  LeastOf(S) \in S /\ \A k \in S : LeastOf(S) <= k
<1>1. PICK i \in S : \A k \in S : i <= k
  BY LeastNumber
<1>2. LeastOf(S) = i
  BY <1>1, EarliestIs
<1> QED
  BY <1>1, <1>2

\* Section m of a file: its start is at i, its end at e.
LEMMA SectionAt ==
  ASSUME NEW L, NEW f \in Seq(L), NEW m, NEW i \in 1..Len(f), NEW e \in 1..Len(f), i < e,
         f[i] = Begin(m), \A k \in 1..(i - 1) : f[k] # Begin(m),
         f[e] = End, \A k \in (i + 1)..(e - 1) : f[k] # End
  PROVE  /\ LeastOf(StartsOf(f, m)) = i /\ LeastOf(EndsBehind(f, i)) = e
         /\ Section(f, m) = SubSeq(f, i + 1, e - 1)
<1>0. Len(f) \in Nat /\ DOMAIN f = 1..Len(f)
  OBVIOUS
<1>1. LeastOf(StartsOf(f, m)) = i
  <2> DEFINE S == StartsOf(f, m)
  <2>1. i \in S /\ S \subseteq Nat
    BY <1>0 DEF StartsOf
  <2>2. \A k \in S : i <= k
    BY <1>0 DEF StartsOf
  <2> QED
    BY <2>1, <2>2, EarliestIs
<1>2. LeastOf(EndsBehind(f, i)) = e
  <2> DEFINE S == EndsBehind(f, i)
  <2>1. e \in S /\ S \subseteq Nat
    BY <1>0 DEF EndsBehind
  <2>2. \A k \in S : e <= k
    BY <1>0 DEF EndsBehind
  <2> QED
    BY <2>1, <2>2, EarliestIs
<1> QED
  BY <1>1, <1>2 DEF Section

\* A file in three parts: up to the start of section n, what is between it and an
\* end, and the rest.
Cut(L, f, n, h, o, t) ==
  /\ h \in Seq(L) /\ o \in Seq(L) /\ t \in Seq(L)
  /\ f = h \o (o \o t)
  /\ h # << >> /\ h[Len(h)] = Begin(n) /\ \A k \in 1..(Len(h) - 1) : h[k] # Begin(n)
  /\ \A k \in 1..Len(o) : o[k] # End
  /\ t # << >> => t[1] = End

LEMMA ScanCuts ==
  ASSUME NEW L, NEW f \in Seq(L), NEW n, StartsOf(f, n) # {}
  PROVE  \E o \in Seq(L) : Cut(L, f, n, HeaderOf(f, n), o, FooterOf(f, n))
<1>0. PICK len \in Nat : len = Len(f) /\ DOMAIN f = 1..len
  BY LenProperties
<1>1. PICK b : b = LeastOf(StartsOf(f, n))
  OBVIOUS
<1>2. b \in 1..len /\ f[b] = Begin(n) /\ \A k \in 1..(b - 1) : f[k] # Begin(n)
  <2> DEFINE S == StartsOf(f, n)
  <2>1. S \subseteq Nat
    BY <1>0 DEF StartsOf
  <2>2. b \in S /\ \A k \in S : b <= k
    BY <1>1, <2>1, EarliestExists
  <2>3. b \in 1..len /\ f[b] = Begin(n)
    BY <1>0, <2>2 DEF StartsOf
  <2>4. \A k \in 1..(b - 1) : k \in 1..len /\ ~(b <= k)
    BY <2>3
  <2> QED
    BY <1>0, <2>2, <2>3, <2>4 DEF StartsOf
<1> DEFINE h == SubSeq(f, 1, b)
<1>3. HeaderOf(f, n) = h
  BY <1>1 DEF HeaderOf
<1>4. h \in Seq(L) /\ Len(h) = b /\ \A k \in 1..b : h[k] = f[k]
  BY <1>0, <1>2
<1> HIDE DEF h
<1>5. /\ h # << >> /\ h[Len(h)] = Begin(n) /\ \A k \in 1..(Len(h) - 1) : h[k] # Begin(n)
  BY <1>2, <1>4
<1>6. CASE EndsBehind(f, b) = {}
  <2> DEFINE o == SubSeq(f, b + 1, len)
  <2>1. FooterOf(f, n) = << >>
    BY <1>1, <1>6 DEF FooterOf
  <2>2. o \in Seq(L) /\ Len(o) = len - b /\ \A k \in 1..(len - b) : o[k] = f[b + k]
    BY <1>0, <1>2
  <2>3. \A k \in 1..Len(o) : o[k] # End
    <3> TAKE k \in 1..Len(o)
    <3>1. b + k \in (b + 1)..Len(f) /\ o[k] = f[b + k]
      BY <1>0, <1>2, <2>2
    <3> QED
      BY <1>6, <3>1 DEF EndsBehind
  <2>4. f = h \o o
    BY <1>0, <1>2 DEF h
  <2>5. o \o << >> = o
    BY <2>2
  <2> HIDE DEF o
  <2>6. Cut(L, f, n, h, o, << >>)
    BY <1>4, <1>5, <2>2, <2>3, <2>4, <2>5 DEF Cut
  <2> QED
    BY <1>3, <2>1, <2>2, <2>6
<1>7. CASE EndsBehind(f, b) # {}
  <2>1. PICK e : e = LeastOf(EndsBehind(f, b))
    OBVIOUS
  <2>2. e \in (b + 1)..len /\ f[e] = End /\ \A k \in (b + 1)..(e - 1) : f[k] # End
    <3> DEFINE S == EndsBehind(f, b)
    <3>1. S \subseteq Nat
      BY <1>0, <1>2 DEF EndsBehind
    <3>2. e \in S /\ \A k \in S : e <= k
      BY <1>7, <2>1, <3>1, EarliestExists
    <3>3. e \in (b + 1)..len /\ f[e] = End
      BY <1>0, <3>2 DEF EndsBehind
    <3>4. \A k \in (b + 1)..(e - 1) : k \in (b + 1)..len /\ ~(e <= k)
      BY <1>2, <3>3
    <3> QED
      BY <1>0, <3>2, <3>3, <3>4 DEF EndsBehind
  <2> DEFINE o == SubSeq(f, b + 1, e - 1)
             t == SubSeq(f, e, len)
  <2>3. FooterOf(f, n) = t
    BY <1>0, <1>1, <1>7, <2>1 DEF FooterOf
  <2>4. o \in Seq(L) /\ Len(o) = e - 1 - b /\ \A k \in 1..(e - 1 - b) : o[k] = f[b + k]
    BY <1>0, <1>2, <2>2
  <2>5. t \in Seq(L) /\ Len(t) = len - e + 1 /\ t[1] = End
    BY <1>0, <1>2, <2>2
  <2>6. \A k \in 1..Len(o) : o[k] # End
    <3> TAKE k \in 1..Len(o)
    <3>1. b + k \in (b + 1)..(e - 1) /\ o[k] = f[b + k]
      BY <1>2, <2>2, <2>4
    <3> QED
      BY <2>2, <3>1
  <2>7. f = h \o (o \o t)
    <3>1. o \o t = SubSeq(f, b + 1, len)
      BY <1>0, <1>2, <2>2
    <3>2. h \o SubSeq(f, b + 1, len) = f
      BY <1>0, <1>2 DEF h
    <3> QED
      BY <3>1, <3>2
  <2> HIDE DEF o, t
  <2>8. Cut(L, f, n, h, o, t)
    BY <1>4, <1>5, <2>4, <2>5, <2>6, <2>7 DEF Cut
  <2> QED
    BY <1>3, <2>3, <2>4, <2>8
<1> QED
  BY <1>6, <1>7

\* s is a beginning of w.
IsStart(s, w) == Len(s) <= Len(w) /\ \A i \in 1..Len(s) : s[i] = w[i]
EndsNext(s) == \A p \in 1..Len(s) : s[p].kind = "begin" => p + 1 <= Len(s) /\ s[p + 1] = End

LEMMA KindsDiffer == \A n : Begin(n) # End /\ Begin(n).kind = "begin" /\ End.kind = "end"
BY DEF Begin, End

\* Values are all that a run drops of a file that is a beginning of a proper one.
LEMMA CutKeepsSkeleton ==
  ASSUME NEW L, NEW f \in Seq(L), NEW n, NEW h, NEW o, NEW t, Cut(L, f, n, h, o, t),
         NEW w \in Seq(L), EndsNext(w), IsStart(Skeleton(f), w)
  PROVE  Skeleton(h \o t) = Skeleton(f) /\ IsStart(Skeleton(h), w)
<1>1. /\ h \in Seq(L) /\ o \in Seq(L) /\ t \in Seq(L) /\ o \o t \in Seq(L)
      /\ f = h \o (o \o t) /\ h # << >> /\ h[Len(h)] = Begin(n)
      /\ \A k \in 1..Len(o) : o[k] # End
  BY DEF Cut
<1>2. /\ Skeleton(f) = Skeleton(h) \o (Skeleton(o) \o Skeleton(t))
      /\ Skeleton(h \o t) = Skeleton(h) \o Skeleton(t)
  <2>1. Skeleton(f) = Skeleton(h) \o Skeleton(o \o t)
    BY <1>1, SkeletonOfParts, Zenon
  <2>2. Skeleton(o \o t) = Skeleton(o) \o Skeleton(t)
    BY <1>1, SkeletonOfParts, Zenon
  <2>3. Skeleton(h \o t) = Skeleton(h) \o Skeleton(t)
    BY <1>1, SkeletonOfParts, Zenon
  <2> QED
    BY <2>1, <2>2, <2>3
<1>3. PICK sh \in Seq(L), so \in Seq(L), st \in Seq(L) :
        sh = Skeleton(h) /\ so = Skeleton(o) /\ st = Skeleton(t)
  <2>1. \A x \in Seq(L), l \in L : Skeleton(x) \in Seq(L)
    BY SkeletonOfAppended
  <2>2. h[Len(h)] \in L
    BY <1>1
  <2> QED
    BY <1>1, <2>1, <2>2
<1>4. sh # << >> /\ sh[Len(sh)] = Begin(n)
  <2>1. PICK g \in Seq(L), l \in L : h = Append(g, l) /\ Len(h) = Len(g) + 1
    BY <1>1, Appended
  <2>2. l = Begin(n)
    BY <1>1, <2>1
  <2>3. sh = Append(Skeleton(g), l) /\ Skeleton(g) \in Seq(L)
    BY <1>3, <2>1, <2>2, SkeletonOfAppended, KindsDiffer
  <2>4. PICK sg \in Seq(L) : sh = Append(sg, l)
    BY <2>3
  <2>5. Len(sh) = Len(sg) + 1
    BY <2>4
  <2>6. sh[Len(sg) + 1] = l
    BY <2>4
  <2>7. sh # << >>
    BY <2>4
  <2> QED
    BY <2>2, <2>5, <2>6, <2>7
<1>5. so = << >>
  <2> SUFFICES ASSUME so # << >> PROVE FALSE
    OBVIOUS
  <2>1. PICK p \in Nat : p = Len(sh) /\ p >= 1
    BY <1>4
  <2>2. /\ (sh \o (so \o st))[p] = Begin(n) /\ (sh \o (so \o st))[p + 1] = so[1]
        /\ p + 1 <= Len(sh \o (so \o st)) /\ 1 \in 1..Len(so)
    BY <1>4, <2>1
  <2>3. w[p] = Begin(n) /\ w[p + 1] = so[1] /\ p \in 1..Len(w)
    <3>1. p \in 1..Len(sh \o (so \o st)) /\ p + 1 \in 1..Len(sh \o (so \o st))
      BY <2>1, <2>2
    <3>2. IsStart(sh \o (so \o st), w)
      BY <1>2, <1>3
    <3> QED
      BY <2>1, <2>2, <3>1, <3>2 DEF IsStart
  <2>4. so[1] = End
    BY <2>3, KindsDiffer DEF EndsNext
  <2>5. \E k \in 1..Len(o) : o[k] = so[1]
    BY <1>1, <1>3, <2>2, SkeletonElements
  <2> QED
    BY <1>1, <2>4, <2>5
<1>6. so \o st = st
  BY <1>5
<1>7. IsStart(sh, w)
  <2>1. IsStart(sh \o st, w)
    BY <1>2, <1>3, <1>6
  <2>2. \A i \in 1..Len(sh) : (sh \o st)[i] = sh[i] /\ i \in 1..Len(sh \o st)
    OBVIOUS
  <2>3. Len(sh) <= Len(sh \o st)
    OBVIOUS
  <2> QED
    BY <2>1, <2>2, <2>3 DEF IsStart
<1> QED
  BY <1>2, <1>3, <1>6, <1>7

LEMMA SkeletonOfValues ==
  ASSUME NEW L, NEW v \in Seq(L), \A k \in 1..Len(v) : v[k].kind = "value"
  PROVE  Skeleton(v) = << >>
<1> SUFFICES ASSUME Skeleton(v) # << >> PROVE FALSE
  OBVIOUS
<1>1. Skeleton(v) \in Seq(L)
  <2>1. CASE v = << >>
    BY <2>1, SkeletonOfNothing
  <2>2. CASE v # << >>
    <3>1. v[1] \in L
      BY <2>2
    <3> QED
      BY <3>1, SkeletonOfAppended
  <2> QED
    BY <2>1, <2>2
<1>2. 1 \in 1..Len(Skeleton(v))
  BY <1>1
<1> QED
  BY <1>2, SkeletonElements

LEMMA SkeletonOfOne ==
  ASSUME NEW L, NEW l \in L, l.kind # "value"
  PROVE  Skeleton(<<l>>) = <<l>>
<1>1. <<l>> = Append(<< >>, l) /\ << >> \in Seq(L)
  OBVIOUS
<1>2. Skeleton(Append(<< >>, l)) = Append(Skeleton(<< >>), l)
  BY <1>1, SkeletonOfAppended
<1> QED
  BY <1>1, <1>2, SkeletonOfNothing

\* Where a section of a proper file is.
LEMMA ProperAt ==
  ASSUME NEW L, NEW f \in Seq(L), Proper(f), NEW i \in 1..Len(f), f[i].kind = "begin"
  PROVE  /\ f[i] = Begin(f[i].of)
         /\ \A k \in 1..Len(f) : f[k] = Begin(f[i].of) => k = i
         /\ \E e \in (i + 1)..Len(f) : f[e] = End /\ \A k \in (i + 1)..(e - 1) : f[k].kind = "value"
<1>0. DOMAIN f = 1..Len(f) /\ Len(f) \in Nat
  OBVIOUS
<1>1. /\ StartsOf(f, f[i].of) = {i} /\ EndsBehind(f, i) # {}
      /\ \A k \in (i + 1)..(LeastOf(EndsBehind(f, i)) - 1) : f[k].kind = "value"
  BY <1>0 DEF Proper
<1>2. PICK e : e = LeastOf(EndsBehind(f, i))
  OBVIOUS
<1>3. e \in EndsBehind(f, i)
  <2>1. EndsBehind(f, i) \subseteq Nat
    BY <1>0 DEF EndsBehind
  <2> QED
    BY <1>1, <1>2, <2>1, EarliestExists
<1>4. e \in (i + 1)..Len(f) /\ f[e] = End
  BY <1>3 DEF EndsBehind
<1>5. \A k \in 1..Len(f) : f[k] = Begin(f[i].of) <=> k \in {i}
  BY <1>0, <1>1 DEF StartsOf
<1> QED
  BY <1>1, <1>2, <1>4, <1>5

\* In a proper file the line behind the start of a section is its end, values aside.
LEMMA ProperEndsNext ==
  ASSUME NEW L, NEW f \in Seq(L), Proper(f)
  PROVE  EndsNext(Skeleton(f))
<1> SUFFICES ASSUME NEW p \in 1..Len(Skeleton(f)), Skeleton(f)[p].kind = "begin"
             PROVE  p + 1 <= Len(Skeleton(f)) /\ Skeleton(f)[p + 1] = End
  BY DEF EndsNext
<1>0. PICK len \in Nat : len = Len(f)
  BY LenProperties
<1>1. PICK i \in 1..len : f[i] = Skeleton(f)[p]
  BY <1>0, SkeletonElements
<1>2. PICK n : n = f[i].of
  OBVIOUS
<1>3. f[i] = Begin(n) /\ \A k \in 1..len : f[k] = Begin(n) => k = i
  BY <1>0, <1>1, <1>2, ProperAt
<1>4. PICK e \in (i + 1)..len : f[e] = End /\ \A k \in (i + 1)..(e - 1) : f[k].kind = "value"
  BY <1>0, <1>1, ProperAt
<1>5. f[i] \in L /\ f[e] \in L
  BY <1>0, <1>4
<1> DEFINE a == SubSeq(f, 1, i - 1)
           v == SubSeq(f, i + 1, e - 1)
           r == SubSeq(f, e + 1, len)
<1>6. a \in Seq(L) /\ Len(a) = i - 1 /\ \A k \in 1..(i - 1) : a[k] = f[k]
  BY <1>0
<1>7. v \in Seq(L) /\ Len(v) = e - i - 1 /\ \A k \in 1..(e - i - 1) : v[k] = f[i + k]
  BY <1>0, <1>4
<1>8. r \in Seq(L) /\ Len(r) = len - e /\ \A k \in 1..(len - e) : r[k] = f[e + k]
  <2>1. r \in Seq(L)
    BY <1>0, <1>4
  <2>2. Len(r) = len - e
    BY <1>0, <1>4
  <2>3. \A k \in 1..(len - e) : r[k] = f[e + k]
    BY <1>0, <1>4
  <2> QED
    BY <2>1, <2>2, <2>3
<1>9. f = a \o (<<f[i]>> \o (v \o (<<f[e]>> \o r)))
  <2>1. <<f[e]>> \o r = SubSeq(f, e, len)
    BY <1>0, <1>4
  <2>2. v \o SubSeq(f, e, len) = SubSeq(f, i + 1, len)
    BY <1>0, <1>4
  <2>3. <<f[i]>> \o SubSeq(f, i + 1, len) = SubSeq(f, i, len)
    BY <1>0, <1>4
  <2>4. a \o SubSeq(f, i, len) = f
    BY <1>0, <1>4
  <2> QED
    BY <2>1, <2>2, <2>3, <2>4
<1> HIDE DEF a, v, r
<1>10. PICK sa \in Seq(L), sr \in Seq(L) : sa = Skeleton(a) /\ sr = Skeleton(r)
  BY <1>5, <1>6, <1>8, SkeletonOfAppended
<1>11. Skeleton(v) = << >>
  <2>1. \A k \in 1..Len(v) : v[k].kind = "value"
    <3> TAKE k \in 1..Len(v)
    <3>1. i \in Nat /\ e \in Nat
      BY <1>4
    <3>2. k \in 1..(e - i - 1)
      BY <1>7
    <3>3. v[k] = f[i + k]
      BY <1>7, <3>2
    <3>4. i + k \in (i + 1)..(e - 1)
      BY <3>1, <3>2
    <3> QED
      BY <1>4, <3>3, <3>4
  <2> QED
    BY <1>7, <2>1, SkeletonOfValues
<1>12. Skeleton(f) = sa \o (<<Begin(n)>> \o (<<End>> \o sr))
  <2>1. Skeleton(<<f[i]>>) = <<f[i]>> /\ Skeleton(<<f[e]>>) = <<f[e]>>
    BY <1>3, <1>4, <1>5, KindsDiffer, SkeletonOfOne
  <2>2. <<f[e]>> \in Seq(L) /\ <<f[i]>> \in Seq(L) /\ <<f[e]>> \o r \in Seq(L)
    BY <1>5, <1>8
  <2>3. v \o (<<f[e]>> \o r) \in Seq(L)
    BY <1>7, <2>2, ConcatProperties
  <2>4. <<f[i]>> \o (v \o (<<f[e]>> \o r)) \in Seq(L)
    BY <2>2, <2>3, ConcatProperties
  <2>5. Skeleton(<<f[e]>> \o r) = <<f[e]>> \o sr
    BY <1>8, <1>10, <2>1, <2>2, SkeletonOfParts
  <2>6. Skeleton(v \o (<<f[e]>> \o r)) = << >> \o (<<f[e]>> \o sr)
    BY <1>7, <1>11, <2>2, <2>5, SkeletonOfParts, ZenonT(60)
  <2>7. << >> \o (<<f[e]>> \o sr) = <<f[e]>> \o sr
    BY <2>2, ConcatProperties, ConcatEmptySeq
  <2>8. Skeleton(<<f[i]>> \o (v \o (<<f[e]>> \o r))) = <<f[i]>> \o (<<f[e]>> \o sr)
    <3>1. Skeleton(<<f[i]>> \o (v \o (<<f[e]>> \o r)))
            = Skeleton(<<f[i]>>) \o Skeleton(v \o (<<f[e]>> \o r))
      BY <2>2, <2>3, SkeletonOfParts, Zenon
    <3> QED
      BY <2>1, <2>6, <2>7, <3>1
  <2>9. Skeleton(f) = sa \o (<<f[i]>> \o (<<f[e]>> \o sr))
    BY <1>6, <1>9, <1>10, <2>4, <2>8, SkeletonOfParts
  <2> QED
    BY <1>3, <1>4, <2>9
<1>13. PICK q \in Nat : q = Len(sa)
  BY LenProperties
<1>14. PICK m \in Nat : m = Len(sr)
  BY LenProperties
<1>15. PICK s \in Seq(L) : s = Skeleton(f)
  BY <1>5, SkeletonOfAppended
<1>16. Begin(n) \in L /\ End \in L
  BY <1>3, <1>4, <1>5
<1>17. Len(s) = q + 2 + m
  BY <1>12, <1>13, <1>14, <1>15, <1>16
<1>18. \A k \in 1..q : s[k] = sa[k]
  BY <1>12, <1>13, <1>14, <1>15, <1>16
<1>19. s[q + 1] = Begin(n)
  BY <1>12, <1>13, <1>14, <1>15, <1>16
<1>20. s[q + 2] = End
  BY <1>12, <1>13, <1>14, <1>15, <1>16
<1>21. \A k \in 1..m : s[q + 2 + k] = sr[k]
  BY <1>12, <1>13, <1>14, <1>15, <1>16
<1>22. p = q + 1
  <2>1. p \in 1..(q + 2 + m) /\ s[p] = Begin(n)
    BY <1>1, <1>3, <1>15, <1>17
  <2>2. ~(p \in 1..q)
    <3> SUFFICES ASSUME p \in 1..q PROVE FALSE
      OBVIOUS
    <3>1. PICK k \in 1..Len(a) : a[k] = sa[p]
      BY <1>6, <1>10, <1>13, SkeletonElements
    <3>2. f[k] = Begin(n) /\ k \in 1..len /\ k < i
      BY <1>6, <1>18, <2>1, <3>1
    <3> QED
      BY <1>3, <3>2
  <2>3. p # q + 2
    BY <1>20, <2>1, KindsDiffer
  <2>4. ~(p - q - 2 \in 1..m)
    <3> SUFFICES ASSUME p - q - 2 \in 1..m PROVE FALSE
      OBVIOUS
    <3>0. s[q + 2 + (p - q - 2)] = sr[p - q - 2] /\ q + 2 + (p - q - 2) = p
      <4>1. s[q + 2 + (p - q - 2)] = sr[p - q - 2]
        BY <1>21, Zenon
      <4>2. p \in Int
        BY <1>15, <1>17
      <4>3. q + 2 + (p - q - 2) = p
        BY <4>2
      <4> QED
        BY <4>1, <4>3
    <3>1. PICK k \in 1..Len(r) : r[k] = sr[p - q - 2]
      BY <1>8, <1>10, <1>14, SkeletonElements
    <3>2. f[e + k] = Begin(n) /\ e + k \in 1..len /\ e + k > i
      BY <1>8, <2>1, <3>0, <3>1
    <3> QED
      BY <1>3, <3>2
  <2> QED
    BY <2>1, <2>2, <2>3, <2>4
<1> QED
  BY <1>15, <1>17, <1>20, <1>22

\* A part of a file that is found again, moved by d lines, is the same part.
LEMMA SamePart ==
  ASSUME NEW L, NEW f \in Seq(L), NEW g \in Seq(L), NEW d \in Int,
         NEW i \in 1..Len(f), NEW e \in 1..Len(f), i < e,
         i + d \in 1..Len(g), e + d \in 1..Len(g), \A k \in i..e : g[k + d] = f[k]
  PROVE  SubSeq(g, i + d + 1, e + d - 1) = SubSeq(f, i + 1, e - 1)
<1> DEFINE x == SubSeq(f, i + 1, e - 1)
           y == SubSeq(g, i + d + 1, e + d - 1)
<1>1. x \in Seq(L) /\ Len(x) = e - i - 1
  OBVIOUS
<1>2. \A k \in 1..(e - i - 1) : x[k] = f[i + k]
  OBVIOUS
<1>3. y \in Seq(L) /\ Len(y) = e - i - 1
  OBVIOUS
<1>4. \A k \in 1..(e - i - 1) : y[k] = g[i + d + k]
  BY SMTT(30)
<1>5. \A k \in 1..(e - i - 1) : x[k] = y[k]
  <2> TAKE k \in 1..(e - i - 1)
  <2>1. i + k \in i..e /\ i + d + k = (i + k) + d
    OBVIOUS
  <2> QED
    BY <1>2, <1>4, <2>1
<1> HIDE DEF x, y
<1>6. x = y
  BY <1>1, <1>3, <1>5, SeqEqual
<1> QED
  BY <1>6 DEF x, y

Replaced(h, v, t) == h \o (v \o t)

\* What replacing the values of section n does to a proper file.
LEMMA ReplacingIsLocal ==
  ASSUME NEW L, NEW f \in Seq(L), NEW n, NEW h, NEW o, NEW t, Cut(L, f, n, h, o, t), Proper(f),
         NEW v \in Seq(L), \A k \in 1..Len(v) : v[k].kind = "value"
  PROVE  /\ Skeleton(Replaced(h, v, t)) = Skeleton(f)
         /\ Section(Replaced(h, v, t), n) = v
         /\ \A i \in DOMAIN f : f[i].kind = "begin" /\ f[i].of # n =>
              Section(Replaced(h, v, t), f[i].of) = Section(f, f[i].of)
<1>1. /\ h \in Seq(L) /\ o \in Seq(L) /\ t \in Seq(L) /\ o \o t \in Seq(L) /\ v \o t \in Seq(L)
      /\ f = h \o (o \o t) /\ h # << >>
  BY DEF Cut
<1>2. h[Len(h)] = Begin(n) /\ \A k \in 1..(Len(h) - 1) : h[k] # Begin(n)
  BY DEF Cut
<1>3. /\ \A k \in 1..Len(o) : o[k] # End
      /\ t # << >> => t[1] = End
  BY DEF Cut
<1>4. PICK b \in Nat : b = Len(h) /\ b >= 1
  <2>1. PICK b \in Nat : b = Len(h)
    BY <1>1, LenProperties
  <2>2. b # 0
    BY <1>1, <2>1, EmptySeq
  <2> QED
    BY <2>1, <2>2
<1>5. PICK lo \in Nat : lo = Len(o)
  BY <1>1, LenProperties
<1>6. PICK lt \in Nat : lt = Len(t)
  BY <1>1, LenProperties
<1>7. PICK lv \in Nat : lv = Len(v)
  BY <1>1, LenProperties
<1>8. PICK g \in Seq(L) : g = Replaced(h, v, t)
  BY <1>1, ConcatProperties, Zenon DEF Replaced
<1>9. Len(f) = b + lo + lt /\ Len(g) = b + lv + lt
  BY <1>1, <1>4, <1>5, <1>6, <1>7, <1>8 DEF Replaced
<1>10. \A k \in 1..b : f[k] = h[k]
  BY <1>1, <1>4, <1>5, <1>6
<1>11. \A k \in 1..lo : f[b + k] = o[k]
  BY <1>1, <1>4, <1>5, <1>6
<1>12. \A k \in 1..lt : f[b + lo + k] = t[k]
  BY <1>1, <1>4, <1>5, <1>6
<1>13. \A k \in 1..b : g[k] = h[k]
  BY <1>1, <1>4, <1>6, <1>7, <1>8 DEF Replaced
<1>14. \A k \in 1..lv : g[b + k] = v[k]
  BY <1>1, <1>4, <1>6, <1>7, <1>8 DEF Replaced
<1>15. \A k \in 1..lt : g[b + lv + k] = t[k]
  BY <1>1, <1>4, <1>6, <1>7, <1>8 DEF Replaced
<1>16. f[b] = Begin(n) /\ b \in 1..Len(f) /\ b \in 1..b
  BY <1>2, <1>4, <1>9, <1>10
<1>17. PICK eb \in (b + 1)..Len(f) : f[eb] = End /\ \A k \in (b + 1)..(eb - 1) : f[k].kind = "value"
  BY <1>16, KindsDiffer, ProperAt
<1>18. eb > b + lo
  <2> SUFFICES ASSUME ~(eb > b + lo) PROVE FALSE
    OBVIOUS
  <2>1. eb - b \in 1..lo /\ b + (eb - b) = eb
    BY <1>9
  <2> QED
    BY <1>3, <1>5, <1>11, <1>17, <2>1
<1>19. lt >= 1 /\ t[1] = End
  <2>1. lt >= 1
    BY <1>9, <1>18
  <2> QED
    BY <1>3, <1>6, <2>1
<1>20. \A k \in 1..lo : f[b + k].kind = "value"
  <2> TAKE k \in 1..lo
  <2>1. b + k \in (b + 1)..(eb - 1)
    BY <1>18
  <2> QED
    BY <1>17, <2>1
<1>21. \A k \in 1..lv : g[b + k].kind = "value"
  BY <1>7, <1>14
<1>22. Skeleton(g) = Skeleton(f)
  <2>1. PICK w \in Seq(L) : w = Skeleton(f)
    BY <1>16, SkeletonOfAppended
  <2>2. IsStart(w, w) /\ EndsNext(w)
    BY <2>1, ProperEndsNext DEF IsStart
  <2>3. Skeleton(h \o t) = w
    BY <2>1, <2>2, CutKeepsSkeleton
  <2>4. Skeleton(h \o t) = Skeleton(h) \o Skeleton(t)
    BY <1>1, SkeletonOfParts, Zenon
  <2>5. Skeleton(g) = Skeleton(h) \o (Skeleton(v) \o Skeleton(t))
    <3>1. Skeleton(h \o (v \o t)) = Skeleton(h) \o Skeleton(v \o t)
      BY <1>1, SkeletonOfParts, Zenon
    <3>2. Skeleton(v \o t) = Skeleton(v) \o Skeleton(t)
      BY <1>1, SkeletonOfParts, Zenon
    <3> QED
      BY <1>8, <3>1, <3>2 DEF Replaced
  <2>6. Skeleton(v) = << >>
    BY SkeletonOfValues
  <2>7. << >> \o Skeleton(t) = Skeleton(t)
    <3>1. Skeleton(t) \in Seq(L)
      BY <1>1, <1>16, SkeletonOfAppended
    <3> QED
      BY <3>1
  <2> QED
    BY <2>1, <2>3, <2>4, <2>5, <2>6, <2>7
<1>23. Section(g, n) = v
  <2>1. b \in 1..Len(g) /\ b + lv + 1 \in 1..Len(g) /\ b < b + lv + 1
    BY <1>4, <1>9, <1>19
  <2>2. g[b] = Begin(n) /\ \A k \in 1..(b - 1) : g[k] # Begin(n)
    <3>1. b \in 1..b /\ \A k \in 1..(b - 1) : k \in 1..b
      BY <1>4
    <3> QED
      BY <1>2, <1>4, <1>13, <3>1
  <2>3. g[b + lv + 1] = End
    BY <1>15, <1>19
  <2>4. \A k \in (b + 1)..(b + lv + 1 - 1) : g[k] # End
    <3> TAKE k \in (b + 1)..(b + lv + 1 - 1)
    <3>1. k - b \in 1..lv /\ b + (k - b) = k
      OBVIOUS
    <3>2. g[k].kind = "value"
      BY <1>21, <3>1
    <3> QED
      BY <3>2, KindsDiffer
  <2>5. Section(g, n) = SubSeq(g, b + 1, b + lv + 1 - 1)
    BY <2>1, <2>2, <2>3, <2>4, SectionAt
  <2>6. SubSeq(g, b + 1, b + lv) \in Seq(L) /\ Len(SubSeq(g, b + 1, b + lv)) = lv
    BY <1>9
  <2>7. \A k \in 1..lv : SubSeq(g, b + 1, b + lv)[k] = v[k]
    <3>1. \A k \in 1..lv : SubSeq(g, b + 1, b + lv)[k] = g[b + k]
      BY <1>9
    <3> QED
      BY <1>14, <3>1
  <2>8. SubSeq(g, b + 1, b + lv) = v
    BY <1>7, <2>6, <2>7, SeqEqual
  <2>9. b + lv + 1 - 1 = b + lv
    OBVIOUS
  <2> QED
    BY <2>5, <2>8, <2>9
<1>24. ASSUME NEW i \in DOMAIN f, f[i].kind = "begin", f[i].of # n
       PROVE  Section(g, f[i].of) = Section(f, f[i].of)
  <2>0. PICK m : m = f[i].of
    OBVIOUS
  <2>1. i \in 1..Len(f)
    BY <1>24
  <2>2. f[i] = Begin(m) /\ \A k \in 1..Len(f) : f[k] = Begin(m) => k = i
    BY <1>24, <2>0, <2>1, ProperAt
  <2>3. PICK e \in (i + 1)..Len(f) : f[e] = End /\ \A k \in (i + 1)..(e - 1) : f[k].kind = "value"
    BY <1>24, <2>1, ProperAt
  <2>4. \A k \in (i + 1)..(e - 1) : f[k] # End
    BY <2>3, KindsDiffer
  <2>5. \A k \in 1..(i - 1) : f[k] # Begin(m)
    <3>1. \A k \in 1..(i - 1) : k \in 1..Len(f) /\ k # i
      BY <2>1
    <3> QED
      BY <2>2, <3>1
  <2>6. Section(f, m) = SubSeq(f, i + 1, e - 1)
    <3>1. e \in 1..Len(f) /\ i < e
      BY <2>1
    <3> QED
      BY <2>1, <2>2, <2>3, <2>4, <2>5, <3>1, SectionAt
  <2>7. Begin(m) # Begin(n)
    BY <1>24, <2>0 DEF Begin
  <2>8. CASE i <= b
    <3>1. i < b
      BY <1>16, <2>2, <2>7, <2>8
    <3>2. e < b
      <4>1. e # b
        BY <1>16, <2>3, KindsDiffer
      <4>2. ~(b \in (i + 1)..(e - 1))
        BY <1>16, <2>3, KindsDiffer
      <4> QED
        BY <3>1, <4>1, <4>2
    <3>3. \A k \in 1..b : g[k] = f[k]
      BY <1>10, <1>13
    <3>4. i \in 1..Len(g) /\ e \in 1..Len(g) /\ i < e
      BY <1>9, <2>1, <3>1, <3>2
    <3>5. g[i] = Begin(m) /\ g[e] = End
      BY <2>1, <2>2, <2>3, <3>1, <3>2, <3>3
    <3>6. \A k \in 1..(i - 1) : g[k] # Begin(m)
      <4> TAKE k \in 1..(i - 1)
      <4>1. k \in 1..b
        BY <2>1, <3>1
      <4> QED
        BY <2>5, <3>3, <4>1, Zenon
    <3>7. \A k \in (i + 1)..(e - 1) : g[k] # End
      BY <2>1, <2>4, <3>2, <3>3
    <3>8. Section(g, m) = SubSeq(g, i + 1, e - 1)
      BY <3>4, <3>5, <3>6, <3>7, SectionAt
    <3>9. SubSeq(g, i + 1, e - 1) = SubSeq(f, i + 1, e - 1)
      <4>1. \A k \in i..e : g[k + 0] = f[k]
        BY <2>1, <3>2, <3>3
      <4>2. i + 0 \in 1..Len(g) /\ e + 0 \in 1..Len(g) /\ e \in 1..Len(f) /\ 0 \in Int
        BY <2>1, <3>4
      <4>3. SubSeq(g, i + 0 + 1, e + 0 - 1) = SubSeq(f, i + 1, e - 1)
        BY <2>1, <3>4, <4>1, <4>2, SamePart
      <4>4. i + 0 + 1 = i + 1 /\ e + 0 - 1 = e - 1
        OBVIOUS
      <4> QED
        BY <4>3, <4>4
    <3> QED
      BY <2>0, <2>6, <3>8, <3>9
  <2>9. CASE i > b
    <3>1. i > b + lo
      <4> SUFFICES ASSUME ~(i > b + lo) PROVE FALSE
        OBVIOUS
      <4>1. i - b \in 1..lo /\ b + (i - b) = i
        BY <2>1, <2>9
      <4>2. f[i].kind = "value"
        BY <1>20, <4>1
      <4> QED
        BY <1>24, <4>2
    <3>2. PICK d \in Int : d = lv - lo
      OBVIOUS
    <3>3. \A k \in (b + lo + 1)..Len(f) : g[k + d] = f[k] /\ k + d \in (b + lv + 1)..Len(g)
      <4> TAKE k \in (b + lo + 1)..Len(f)
      <4>1. k - b - lo \in 1..lt /\ b + lo + (k - b - lo) = k /\ b + lv + (k - b - lo) = k + d
        BY <1>9, <3>2
      <4>2. k + d \in (b + lv + 1)..Len(g)
        BY <1>9, <4>1
      <4> QED
        BY <1>12, <1>15, <4>1, <4>2
    <3>4. \A k \in 1..Len(g) : \/ k \in 1..b /\ g[k] = f[k]
                               \/ g[k].kind = "value"
                               \/ k - d \in (b + lo + 1)..Len(f) /\ g[k] = f[k - d]
      <4> TAKE k \in 1..Len(g)
      <4>1. CASE k <= b
        BY <1>10, <1>13, <4>1
      <4>2. CASE k > b /\ k <= b + lv
        <5>1. k - b \in 1..lv /\ b + (k - b) = k
          BY <4>2
        <5> QED
          BY <1>21, <5>1
      <4>3. CASE k > b + lv
        <5>1. k - d \in (b + lo + 1)..Len(f) /\ (k - d) + d = k
          BY <1>9, <3>2, <4>3, SMTT(30)
        <5> QED
          BY <3>3, <5>1
      <4> QED
        BY <4>1, <4>2, <4>3
    <3>5. /\ i + d \in 1..Len(g) /\ e + d \in 1..Len(g) /\ i + d < e + d
          /\ g[i + d] = Begin(m) /\ g[e + d] = End
      BY <1>9, <2>1, <2>2, <2>3, <3>1, <3>3
    <3>6. \A k \in 1..(i + d - 1) : g[k] # Begin(m)
      <4> SUFFICES ASSUME NEW k \in 1..(i + d - 1), g[k] = Begin(m) PROVE FALSE
        OBVIOUS
      <4>1. k \in 1..Len(g) /\ k < i + d
        BY <3>5, SMTT(30)
      <4>2. CASE k \in 1..b /\ g[k] = f[k]
        <5>1. k \in 1..Len(f) /\ k # i
          BY <1>9, <2>1, <2>9, <4>2
        <5> QED
          BY <2>2, <4>2, <5>1
      <4>3. CASE g[k].kind = "value"
        BY <4>3, KindsDiffer
      <4>4. CASE k - d \in (b + lo + 1)..Len(f) /\ g[k] = f[k - d]
        <5>1. k - d \in 1..Len(f) /\ k - d # i
          BY <4>1, <4>4, SMTT(30)
        <5> QED
          BY <2>2, <4>4, <5>1
      <4> QED
        BY <3>4, <4>1, <4>2, <4>3, <4>4
    <3>7. \A k \in (i + d + 1)..(e + d - 1) : g[k] # End
      <4> TAKE k \in (i + d + 1)..(e + d - 1)
      <4>1. k - d \in (i + 1)..(e - 1) /\ k - d \in (b + lo + 1)..Len(f) /\ (k - d) + d = k
        BY <3>1, SMTT(30)
      <4> QED
        BY <2>4, <3>3, <4>1
    <3>8. Section(g, m) = SubSeq(g, i + d + 1, e + d - 1)
      <4>1. PICK i2 \in 1..Len(g), e2 \in 1..Len(g) : i2 = i + d /\ e2 = e + d
        BY <3>5
      <4>2. i2 < e2 /\ g[i2] = Begin(m) /\ g[e2] = End
        BY <3>5, <4>1
      <4>3. \A k \in 1..(i2 - 1) : g[k] # Begin(m)
        BY <3>6, <4>1
      <4>4. \A k \in (i2 + 1)..(e2 - 1) : g[k] # End
        BY <3>7, <4>1
      <4>5. Section(g, m) = SubSeq(g, i2 + 1, e2 - 1)
        BY <4>2, <4>3, <4>4, SectionAt
      <4>6. i2 + 1 = i + d + 1 /\ e2 - 1 = e + d - 1
        BY <4>1
      <4> QED
        BY <4>5, <4>6, Zenon
    <3>9. SubSeq(g, i + d + 1, e + d - 1) = SubSeq(f, i + 1, e - 1)
      <4>1. \A k \in i..e : g[k + d] = f[k]
        <5> TAKE k \in i..e
        <5>1. k \in (b + lo + 1)..Len(f)
          BY <2>1, <3>1
        <5> QED
          BY <3>3, <5>1, Zenon
      <4>2. e \in 1..Len(f) /\ i < e
        BY <2>1
      <4> QED
        BY <2>1, <3>5, <4>1, <4>2, SamePart
    <3> QED
      BY <2>0, <2>6, <3>8, <3>9
  <2> QED
    BY <2>1, <2>8, <2>9
<1> QED
  BY <1>8, <1>22, <1>23, <1>24

\* What files are made of, and the inductive invariant.
FoundLines == UNION {LinesOf(f) : f \in PatchFiles}
AddedLines == UNION {ValuesOf(n) : n \in STRING}
PatchLines == FoundLines \cup AddedLines
PatchTexts == Seq(PatchLines)

PatchTypes ==
  /\ jobs \in Builds /\ original \in PatchFiles /\ job \in 1..Len(jobs)
  /\ disk \in PatchTexts /\ written \in PatchTexts /\ before \in PatchTexts
  /\ header \in PatchTexts /\ footer \in PatchTexts
  /\ input \in Nat /\ left \in Nat /\ rem \in -1..MaxValueSize /\ rem <= left
  /\ stage \in {"idle", "open", "values", "not found"}
  /\ failed \in BOOLEAN /\ runs \in 0..MaxRuns

\* The header and the footer are of the file that the run has read.
HeaderAndFooterFit ==
  stage \in {"open", "values"} => \E o \in PatchTexts : Cut(PatchLines, before, Name, header, o, footer)

\* Behind the header stands what has been read of the inputs.
ValuesFit ==
  stage = "values" =>
    /\ input \in 1..Len(Sizes)
    /\ \E v \in Seq(ValuesOf(Name)) :
         /\ written = header \o v
         /\ Bytes(v) + left = Total(SubSeq(Sizes, 1, input))

\* What the file holds besides values is a beginning of what it was made with, and
\* all of it while nothing has failed.
TailsFit ==
  Proper(original) =>
    /\ IsStart(Skeleton(disk), Skeleton(original))
    /\ stage \in {"open", "values"} => IsStart(Skeleton(before), Skeleton(original))
    /\ ~failed /\ stage = "idle" => Skeleton(disk) = Skeleton(original)
    /\ ~failed /\ stage \in {"open", "values"} => Skeleton(before) = Skeleton(original)

PatchInv == PatchTypes /\ HeaderAndFooterFit /\ ValuesFit /\ TailsFit /\ SectionsFound

LEMMA OriginalIsAFile == \A f \in PatchFiles : f \in PatchTexts
<1> SUFFICES ASSUME NEW f \in PatchFiles PROVE f \in PatchTexts
  OBVIOUS
<1>1. f \in Seq(LinesOf(f)) /\ LinesOf(f) \subseteq PatchLines
  BY PatchAssumption DEF PatchLines, FoundLines
<1> QED
  BY <1>1 DEF PatchTexts

LEMMA LinesHaveKinds == \A l \in PatchLines : l.kind \in LineKinds
<1>1. \A f \in PatchFiles : \A l \in LinesOf(f) : l.kind \in LineKinds
  BY PatchAssumption
<1>2. \A n : \A l \in ValuesOf(n) : l.kind = "value"
  BY DEF ValuesOf, Value
<1> SUFFICES ASSUME NEW l \in PatchLines PROVE l.kind \in LineKinds
  OBVIOUS
<1>3. CASE l \in FoundLines
  <2>1. PICK f \in PatchFiles : l \in LinesOf(f)
    BY <1>3 DEF FoundLines
  <2> QED
    BY <1>1, <2>1
<1>4. CASE l \in AddedLines
  <2>1. PICK n \in STRING : l \in ValuesOf(n)
    BY <1>4 DEF AddedLines
  <2> QED
    BY <1>2, <2>1 DEF LineKinds
<1> QED
  BY <1>3, <1>4 DEF PatchLines

LEMMA BuildIs ==
  ASSUME NEW b \in Builds, NEW j \in 1..Len(b)
  PROVE  /\ Len(b) \in Nat \ {0} /\ DOMAIN b = 1..Len(b)
         /\ b[j].name \in STRING
         /\ b[j].sizes \in Seq(Nat) /\ Len(b[j].sizes) \in Nat \ {0}
         /\ \A i \in 1..Len(b[j].sizes) : b[j].sizes[i] \in Nat
<1>0. PICK R : R = [name : STRING, sizes : Seq(Nat) \ {<< >>}]
  OBVIOUS
<1>1. b \in Seq(R) /\ b # << >>
  BY <1>0, PatchAssumption, Zenon
<1>2. Len(b) \in Nat \ {0} /\ DOMAIN b = 1..Len(b) /\ b[j] \in R
  BY <1>1
<1>3. b[j].name \in STRING /\ b[j].sizes \in Seq(Nat) /\ b[j].sizes # << >>
  BY <1>0, <1>2
<1> QED
  BY <1>2, <1>3

LEMMA ValuesAreLines ==
  ASSUME NEW n \in STRING
  PROVE  /\ ValuesOf(n) \subseteq PatchLines /\ Seq(ValuesOf(n)) \subseteq PatchTexts
         /\ \A l \in ValuesOf(n) : l.kind = "value"
<1>1. ValuesOf(n) \subseteq PatchLines
  <2> SUFFICES ASSUME NEW l \in ValuesOf(n) PROVE l \in PatchLines
    OBVIOUS
  <2>1. l \in AddedLines
    BY Zenon DEF AddedLines
  <2> QED
    BY <2>1 DEF PatchLines
<1> QED
  BY <1>1 DEF PatchTexts, ValuesOf, Value

LEMMA PatchInitial == PatchInit => PatchInv
<1> SUFFICES ASSUME PatchInit PROVE PatchInv
  OBVIOUS
<1>1. /\ jobs \in Builds /\ original \in PatchFiles /\ disk = original
      /\ stage = "idle" /\ job = 1 /\ input = 1 /\ left = 0 /\ rem = -1
  BY DEF PatchInit
<1>2. PatchTypes
  <2>1. Len(jobs) \in Nat \ {0}
    BY <1>1, PatchAssumption
  <2>2. job \in 1..Len(jobs) /\ << >> \in PatchTexts /\ original \in PatchTexts
    BY <1>1, <2>1, OriginalIsAFile DEF PatchTexts
  <2>3. input \in Nat /\ left \in Nat /\ rem \in -1..MaxValueSize /\ rem <= left /\ 0 \in 0..MaxRuns
    BY <1>1, PatchAssumption
  <2> QED
    BY <1>1, <2>2, <2>3 DEF PatchInit, PatchTypes
<1>3. HeaderAndFooterFit /\ ValuesFit /\ SectionsFound
  BY <1>1 DEF HeaderAndFooterFit, ValuesFit, SectionsFound
<1>4. TailsFit
  BY <1>1 DEF TailsFit, IsStart
<1> QED
  BY <1>2, <1>3, <1>4 DEF PatchInv

LEMMA SkeletonIs == ASSUME NEW L, NEW f \in Seq(L) PROVE Skeleton(f) \in Seq(L)
<1>1. CASE f = << >>
  BY <1>1, SkeletonOfNothing
<1>2. CASE f # << >>
  <2>1. f[1] \in L
    BY <1>2
  <2> QED
    BY <2>1, SkeletonOfAppended
<1> QED
  BY <1>1, <1>2

\* What has been summed so far, and the next term.
LEMMA SumsSoFar ==
  ASSUME NEW s \in Seq(Nat), NEW i \in 1..Len(s)
  PROVE  /\ Total(SubSeq(s, 1, i)) \in Int
         /\ Total(SubSeq(s, 1, 1)) = s[1]
         /\ i < Len(s) => Total(SubSeq(s, 1, i + 1)) = Total(SubSeq(s, 1, i)) + s[i + 1]
         /\ i = Len(s) => Total(SubSeq(s, 1, i)) = Total(s)
<1>0. PICK len \in Nat : len = Len(s)
  BY LenProperties
<1>1. s \in Seq(Int) /\ \A k \in 1..len : s[k] \in Int
  BY <1>0
<1>2. SubSeq(s, 1, i) \in Seq(Int) /\ 0 \in Int
  BY <1>0, <1>1
<1>3. Total(SubSeq(s, 1, i)) \in Int
  BY <1>2, TotalOfAppended
<1>4. Total(SubSeq(s, 1, 1)) = s[1]
  <2>0. PICK x \in Int : x = s[1]
    BY <1>0, <1>1
  <2>1. SubSeq(s, 1, 1) = <<x>>
    <3>1. PICK t : t = SubSeq(s, 1, 1)
      OBVIOUS
    <3>2. t \in Seq(Int) /\ Len(t) = 1 /\ t[1] = x
      BY <1>0, <1>1, <2>0, <3>1
    <3>3. t = <<x>>
      BY <3>2
    <3> QED
      BY <3>1, <3>3
  <2>2. <<x>> = Append(<< >>, x) /\ << >> \in Seq(Int)
    OBVIOUS
  <2>3. Total(Append(<< >>, x)) = Total(<< >>) + x
    BY <2>2, TotalOfAppended
  <2>4. Total(<<x>>) = x
    BY <2>2, <2>3, TotalOfNothing
  <2> QED
    BY <2>0, <2>1, <2>4
<1>5. ASSUME i < Len(s) PROVE Total(SubSeq(s, 1, i + 1)) = Total(SubSeq(s, 1, i)) + s[i + 1]
  <2>1. s[i + 1] \in Int
    BY <1>0, <1>1, <1>5
  <2>2. SubSeq(s, 1, i + 1) = Append(SubSeq(s, 1, i), s[i + 1])
    BY <1>0, <1>1, <1>5
  <2> QED
    BY <1>2, <2>1, <2>2, TotalOfAppended
<1>6. ASSUME i = Len(s) PROVE Total(SubSeq(s, 1, i)) = Total(s)
  <2>1. SubSeq(s, 1, Len(s)) = s
    BY <1>0, <1>1
  <2> QED
    BY <1>6, <2>1
<1> QED
  BY <1>3, <1>4, <1>5, <1>6

\* A file that keeps what another holds besides values has the sections it has.
LEMMA SectionsStay ==
  ASSUME NEW L, NEW f \in Seq(L), NEW g \in Seq(L), Skeleton(f) = Skeleton(g), NEW n,
         StartsOf(g, n) # {}
  PROVE  StartsOf(f, n) # {}
<1>1. PICK i \in DOMAIN g : g[i] = Begin(n)
  BY DEF StartsOf
<1>2. i \in 1..Len(g) /\ g[i].kind # "value"
  BY <1>1, KindsDiffer
<1>3. PICK p \in 1..Len(Skeleton(g)) : g[i] = Skeleton(g)[p]
  BY <1>2, SkeletonElements
<1>4. \E k \in 1..Len(f) : f[k] = Skeleton(g)[p]
  BY <1>3, SkeletonElements
<1>5. PICK k \in 1..Len(f) : f[k] = Begin(n)
  BY <1>1, <1>3, <1>4
<1>6. k \in DOMAIN f
  OBVIOUS
<1> QED
  BY <1>5, <1>6 DEF StartsOf

LEMMA JobIs ==
  PatchTypes => /\ Name \in STRING /\ Sizes \in Seq(Nat) /\ Len(Sizes) \in Nat \ {0}
                /\ \A i \in 1..Len(Sizes) : Sizes[i] \in Nat
                /\ DOMAIN jobs = 1..Len(jobs) /\ Len(jobs) \in Nat \ {0}
BY BuildIs DEF PatchTypes, Name, Sizes

LEMMA ScanStep == PatchInv /\ Scan => PatchInv'
<1> SUFFICES ASSUME PatchInv, Scan PROVE PatchInv'
  OBVIOUS
<1>1. PatchTypes /\ TailsFit
  BY DEF PatchInv
<1>2. /\ stage = "idle" /\ runs < MaxRuns /\ runs' = runs + 1 /\ before' = disk
      /\ jobs' = jobs /\ original' = original /\ disk' = disk /\ written' = written /\ job' = job
      /\ input' = input /\ left' = left /\ rem' = rem /\ failed' = failed
  BY DEF Scan, cursor
<1>3. Name' = Name /\ disk \in Seq(PatchLines)
  BY <1>1, <1>2 DEF Name, PatchTypes, PatchTexts
<1>4. CASE StartsOf(disk, Name) # {}
  <2>1. header' = HeaderOf(disk, Name) /\ footer' = FooterOf(disk, Name) /\ stage' = "open"
    BY <1>4 DEF Scan
  <2>2. PICK o \in Seq(PatchLines) :
          Cut(PatchLines, disk, Name, HeaderOf(disk, Name), o, FooterOf(disk, Name))
    BY <1>3, <1>4, ScanCuts
  <2>3. Cut(PatchLines, before', Name', header', o, footer')
    BY <1>2, <1>3, <2>1, <2>2
  <2>4. header' \in PatchTexts /\ footer' \in PatchTexts /\ o \in PatchTexts
    BY <2>3 DEF Cut, PatchTexts
  <2>5. PatchTypes'
    <3>1. runs' \in 0..MaxRuns
      BY <1>1, <1>2, PatchAssumption DEF PatchTypes
    <3> QED
      BY <1>1, <1>2, <2>1, <2>4, <3>1 DEF PatchTypes
  <2>6. HeaderAndFooterFit'
    BY <2>3, <2>4 DEF HeaderAndFooterFit
  <2>7. ValuesFit' /\ SectionsFound'
    BY <2>1 DEF ValuesFit, SectionsFound
  <2>8. TailsFit'
    BY <1>1, <1>2, <2>1 DEF TailsFit
  <2> QED
    BY <2>5, <2>6, <2>7, <2>8 DEF PatchInv
<1>5. CASE StartsOf(disk, Name) = {}
  <2>1. header' = header /\ footer' = footer /\ stage' = "not found"
    BY <1>5 DEF Scan
  <2>2. PatchTypes'
    <3>1. runs' \in 0..MaxRuns
      BY <1>1, <1>2, PatchAssumption DEF PatchTypes
    <3> QED
      BY <1>1, <1>2, <2>1, <3>1 DEF PatchTypes
  <2>3. HeaderAndFooterFit' /\ ValuesFit'
    BY <2>1 DEF HeaderAndFooterFit, ValuesFit
  <2>4. TailsFit'
    BY <1>1, <1>2, <2>1 DEF TailsFit
  <2>5. SectionsFound'
    <3> SUFFICES ASSUME Proper(original), ~failed,
                        \A j \in DOMAIN jobs : StartsOf(original, jobs[j].name) # {}
                 PROVE  FALSE
      BY <1>2 DEF SectionsFound
    <3>1. Skeleton(disk) = Skeleton(original)
      BY <1>1, <1>2 DEF TailsFit
    <3>2. original \in Seq(PatchLines) /\ job \in DOMAIN jobs
      BY <1>1, OriginalIsAFile, JobIs DEF PatchTypes, PatchTexts
    <3>3. StartsOf(original, Name) # {}
      BY <3>2 DEF Name
    <3>4. StartsOf(disk, Name) # {}
      BY <1>3, <3>1, <3>2, <3>3, SectionsStay
    <3> QED
      BY <1>5, <3>4
  <2> QED
    BY <2>2, <2>3, <2>4, <2>5 DEF PatchInv
<1> QED
  BY <1>4, <1>5

LEMMA OpenStep == PatchInv /\ Open => PatchInv'
<1> SUFFICES ASSUME PatchInv, Open PROVE PatchInv'
  OBVIOUS
<1>1. PatchTypes /\ HeaderAndFooterFit /\ TailsFit
  BY DEF PatchInv
<1>2. /\ stage = "open" /\ disk' = << >> /\ written' = header /\ stage' = "values"
      /\ input' = 1 /\ left' = Sizes[1] /\ rem' = -1
      /\ jobs' = jobs /\ original' = original /\ header' = header /\ footer' = footer
      /\ job' = job /\ failed' = failed /\ runs' = runs /\ before' = before
  BY DEF Open
<1>3. Name' = Name /\ Sizes' = Sizes
  BY <1>2 DEF Name, Sizes
<1>4. Sizes \in Seq(Nat) /\ Len(Sizes) \in Nat \ {0} /\ Sizes[1] \in Nat /\ 1 \in 1..Len(Sizes)
  BY <1>1, JobIs
<1>5. PatchTypes'
  <2>1. rem' \in -1..MaxValueSize /\ rem' <= left' /\ left' \in Nat /\ input' \in Nat
    BY <1>2, <1>4, PatchAssumption
  <2>2. << >> \in PatchTexts
    BY DEF PatchTexts
  <2> QED
    BY <1>1, <1>2, <2>1, <2>2 DEF PatchTypes
<1>6. HeaderAndFooterFit'
  BY <1>1, <1>2, <1>3 DEF HeaderAndFooterFit
<1>7. ValuesFit'
  <2>1. << >> \in Seq(ValuesOf(Name)) /\ Bytes(<< >>) = 0
    BY BytesOfNothing
  <2>2. Total(SubSeq(Sizes, 1, 1)) = Sizes[1]
    BY <1>4, SumsSoFar
  <2>3. header \o << >> = header
    BY <1>1, ConcatEmptySeq DEF PatchTypes, PatchTexts
  <2>4. written' = header' \o << >> /\ Bytes(<< >>) + left' = Total(SubSeq(Sizes', 1, input'))
    BY <1>2, <1>3, <1>4, <2>1, <2>2, <2>3
  <2>5. << >> \in Seq(ValuesOf(Name')) /\ input' \in 1..Len(Sizes')
    BY <1>2, <1>3, <1>4, <2>1
  <2> QED
    BY <2>4, <2>5 DEF ValuesFit
<1>8. TailsFit'
  <2>1. Len(Skeleton(original)) \in Nat
    BY <1>1, OriginalIsAFile, SkeletonIs, LenProperties DEF PatchTypes, PatchTexts
  <2>2. IsStart(Skeleton(disk'), Skeleton(original))
    BY <1>2, <2>1, SkeletonOfNothing DEF IsStart
  <2> QED
    BY <1>1, <1>2, <2>2 DEF TailsFit
<1>9. SectionsFound'
  BY <1>2 DEF SectionsFound
<1> QED
  BY <1>5, <1>6, <1>7, <1>8, <1>9 DEF PatchInv

LEMMA ValueWritten ==
  ASSUME PatchInv, stage = "values", NEW z \in 1..left, Write(z),
         rem' \in -1..MaxValueSize, rem' <= left',
         UNCHANGED <<jobs, original, disk, header, footer, job, input, stage, failed, runs, before>>
  PROVE  PatchInv'
<1>1. PatchTypes /\ HeaderAndFooterFit /\ ValuesFit /\ TailsFit /\ SectionsFound
  BY DEF PatchInv
<1>2. Name' = Name /\ Sizes' = Sizes
  BY DEF Name, Sizes
<1>3. written' = Append(written, Value(Name, z)) /\ left' = left - z
  BY DEF Write
<1>4. left' \in Nat /\ z \in Int /\ left \in Nat
  BY <1>1, <1>3 DEF PatchTypes
<1>5. Value(Name, z) \in ValuesOf(Name) /\ Value(Name, z) \in PatchLines
  <2>1. Value(Name, z) \in ValuesOf(Name)
    BY <1>4 DEF ValuesOf
  <2> QED
    BY <1>1, <2>1, JobIs, ValuesAreLines
<1>6. PatchTypes'
  <2>1. written' \in PatchTexts
    BY <1>1, <1>3, <1>5 DEF PatchTypes, PatchTexts
  <2> QED
    BY <1>1, <1>4, <2>1 DEF PatchTypes
<1>7. HeaderAndFooterFit' /\ TailsFit' /\ SectionsFound'
  BY <1>1, <1>2 DEF HeaderAndFooterFit, TailsFit, SectionsFound
<1>8. ValuesFit'
  <2>1. PICK v \in Seq(ValuesOf(Name)) : written = header \o v
                                         /\ Bytes(v) + left = Total(SubSeq(Sizes, 1, input))
    BY <1>1 DEF ValuesFit
  <2>2. Bytes(v) \in Int /\ Bytes(Append(v, Value(Name, z))) = Bytes(v) + z
    BY <1>4, BytesOfAppended
  <2>3. PICK w : w = Append(v, Value(Name, z))
    OBVIOUS
  <2>4. w \in Seq(ValuesOf(Name))
    BY <1>5, <2>3
  <2>5. written' = header \o w
    <3>1. v \in Seq(PatchLines) /\ header \in Seq(PatchLines)
      <4>1. Seq(ValuesOf(Name)) \subseteq PatchTexts
        BY <1>1, JobIs, ValuesAreLines
      <4> QED
        BY <1>1, <4>1 DEF PatchTypes, PatchTexts
    <3>2. PICK l \in PatchLines : l = Value(Name, z)
      BY <1>5
    <3>3. Append(header \o v, l) = header \o Append(v, l)
      BY <3>1
    <3> QED
      BY <1>3, <2>1, <2>3, <3>2, <3>3
  <2>6. Bytes(w) + left' = Total(SubSeq(Sizes, 1, input))
    BY <1>3, <1>4, <2>1, <2>2, <2>3
  <2>7. input \in 1..Len(Sizes)
    BY <1>1 DEF ValuesFit
  <2> QED
    BY <1>2, <2>4, <2>5, <2>6, <2>7 DEF ValuesFit
<1> QED
  BY <1>6, <1>7, <1>8 DEF PatchInv

LEMMA WriteValueStep == PatchInv /\ WriteValue => PatchInv'
<1> SUFFICES ASSUME PatchInv, WriteValue PROVE PatchInv'
  OBVIOUS
<1>1. PatchTypes /\ HeaderAndFooterFit /\ ValuesFit /\ TailsFit /\ SectionsFound
  BY DEF PatchInv
<1>2. /\ stage = "values" /\ rem = -1 /\ left > 0
      /\ UNCHANGED <<jobs, original, disk, header, footer, job, input, stage, failed, runs, before>>
  BY DEF WriteValue
<1>3. NextSize \in 1..left /\ NextSize <= MaxValueSize /\ left \in Nat
  BY <1>1, <1>2, PatchAssumption DEF NextSize, PatchTypes
<1>4. CASE NextSize \in ValueSizes
  <2>1. Write(NextSize) /\ rem' = rem
    BY <1>4 DEF WriteValue
  <2>2. rem' \in -1..MaxValueSize /\ rem' <= left'
    BY <1>1, <1>2, <1>3, <2>1 DEF PatchTypes, Write
  <2>3. PICK z \in 1..left : z = NextSize
    BY <1>3
  <2>4. Write(z)
    BY <2>1, <2>3
  <2> QED
    BY <1>2, <2>2, <2>4, ValueWritten
<1>5. CASE NextSize \notin ValueSizes
  <2>1. rem' = NextSize /\ written' = written /\ left' = left
    BY <1>5 DEF WriteValue
  <2>2. Name' = Name /\ Sizes' = Sizes
    BY <1>2 DEF Name, Sizes
  <2>3. rem' \in -1..MaxValueSize /\ rem' <= left'
    BY <1>3, <2>1, PatchAssumption
  <2>4. PatchTypes'
    BY <1>1, <1>2, <2>1, <2>3 DEF PatchTypes
  <2>5. HeaderAndFooterFit' /\ ValuesFit' /\ TailsFit' /\ SectionsFound'
    BY <1>1, <1>2, <2>1, <2>2 DEF HeaderAndFooterFit, ValuesFit, TailsFit, SectionsFound
  <2> QED
    BY <2>4, <2>5 DEF PatchInv
<1> QED
  BY <1>4, <1>5

LEMMA WritePartStep == PatchInv /\ WritePart => PatchInv'
<1> SUFFICES ASSUME PatchInv, WritePart PROVE PatchInv'
  OBVIOUS
<1>1. PatchTypes
  BY DEF PatchInv
<1>2. rem \in 1..MaxValueSize /\ rem <= left /\ left \in Nat /\ MaxValueSize \in 1..8
  BY <1>1, PatchAssumption DEF WritePart, PatchTypes
<1>3. PICK part : part = CHOOSE z \in ValueSizes : z <= rem /\ \A y \in ValueSizes : y <= rem => y <= z
  OBVIOUS
<1>4. part \in ValueSizes /\ part <= rem
  <2>1. \E z \in ValueSizes : z <= rem /\ \A y \in ValueSizes : y <= rem => y <= z
    <3>1. CASE rem >= 8
      BY <1>2, <3>1 DEF ValueSizes
    <3>2. CASE rem \in 4..7
      BY <1>2, <3>2 DEF ValueSizes
    <3>3. CASE rem \in 2..3
      BY <1>2, <3>3 DEF ValueSizes
    <3>4. CASE rem = 1
      BY <1>2, <3>4 DEF ValueSizes
    <3> QED
      BY <1>2, <3>1, <3>2, <3>3, <3>4
  <2> QED
    BY <1>3, <2>1
<1>5. Write(part) /\ rem' = rem - part /\ stage = "values"
      /\ UNCHANGED <<jobs, original, disk, header, footer, job, input, stage, failed, runs, before>>
  BY <1>3 DEF WritePart
<1>6. part \in 1..left
  BY <1>2, <1>4 DEF ValueSizes
<1>7. rem' \in -1..MaxValueSize /\ rem' <= left'
  BY <1>2, <1>4, <1>5, <1>6 DEF Write
<1> QED
  BY <1>5, <1>6, <1>7, ValueWritten

\* What a run has written is, values aside, a beginning of the file it began with.
LEMMA WrittenIsStart ==
  ASSUME PatchInv, stage = "values", Proper(original)
  PROVE  /\ IsStart(Skeleton(written), Skeleton(original))
         /\ Skeleton(written \o footer) = Skeleton(before)
<1>1. PatchTypes /\ HeaderAndFooterFit /\ ValuesFit /\ TailsFit
  BY DEF PatchInv
<1> DEFINE w == Skeleton(original)
<1>2. original \in Seq(PatchLines) /\ before \in Seq(PatchLines)
      /\ header \in Seq(PatchLines) /\ footer \in Seq(PatchLines)
  BY <1>1, OriginalIsAFile DEF PatchTypes, PatchTexts
<1>3. w \in Seq(PatchLines) /\ EndsNext(w) /\ IsStart(Skeleton(before), w)
  BY <1>1, <1>2, SkeletonIs, ProperEndsNext DEF TailsFit
<1>4. PICK o : Cut(PatchLines, before, Name, header, o, footer)
  BY <1>1 DEF HeaderAndFooterFit
<1>5. PICK v \in Seq(ValuesOf(Name)) : written = header \o v
  BY <1>1 DEF ValuesFit
<1>6. v \in Seq(PatchLines) /\ \A k \in 1..Len(v) : v[k].kind = "value"
  <2>1. Seq(ValuesOf(Name)) \subseteq PatchTexts /\ \A l \in ValuesOf(Name) : l.kind = "value"
    BY <1>1, JobIs, ValuesAreLines
  <2>2. \A k \in 1..Len(v) : v[k] \in ValuesOf(Name)
    OBVIOUS
  <2> QED
    BY <2>1, <2>2 DEF PatchTexts
<1> HIDE DEF w
<1>7. Skeleton(header \o footer) = Skeleton(before) /\ IsStart(Skeleton(header), w)
  BY <1>2, <1>3, <1>4, CutKeepsSkeleton
<1>8. Skeleton(header \o v) = Skeleton(header)
  <2>1. Skeleton(header \o v) = Skeleton(header) \o Skeleton(v)
    BY <1>2, <1>6, SkeletonOfParts, Zenon
  <2>2. Skeleton(v) = << >> /\ Skeleton(header) \in Seq(PatchLines)
    BY <1>2, <1>6, SkeletonOfValues, SkeletonIs
  <2>3. Skeleton(header) \o << >> = Skeleton(header)
    BY <2>2, ConcatEmptySeq
  <2> QED
    BY <2>1, <2>2, <2>3
<1>9. Skeleton(written \o footer) = Skeleton(before)
  <2>1. header \o v \in Seq(PatchLines)
    BY <1>2, <1>6
  <2>2. Skeleton((header \o v) \o footer) = Skeleton(header \o v) \o Skeleton(footer)
    BY <1>2, <2>1, SkeletonOfParts, Zenon
  <2>3. Skeleton(header \o footer) = Skeleton(header) \o Skeleton(footer)
    BY <1>2, SkeletonOfParts, Zenon
  <2> QED
    BY <1>5, <1>7, <1>8, <2>2, <2>3
<1> QED
  BY <1>5, <1>7, <1>8, <1>9 DEF w

LEMMA FlushStep == PatchInv /\ Flush => PatchInv'
<1> SUFFICES ASSUME PatchInv, Flush PROVE PatchInv'
  OBVIOUS
<1>1. PatchTypes /\ HeaderAndFooterFit /\ ValuesFit /\ TailsFit /\ SectionsFound
  BY DEF PatchInv
<1>2. /\ stage = "values" /\ disk' = written /\ input' = input /\ left' = left /\ rem' = rem
      /\ UNCHANGED <<jobs, original, written, header, footer, job, stage, failed, runs, before>>
  BY DEF Flush, cursor
<1>3. Name' = Name /\ Sizes' = Sizes
  BY <1>2 DEF Name, Sizes
<1>4. PatchTypes'
  BY <1>1, <1>2 DEF PatchTypes
<1>5. HeaderAndFooterFit' /\ ValuesFit' /\ SectionsFound'
  BY <1>1, <1>2, <1>3 DEF HeaderAndFooterFit, ValuesFit, SectionsFound
<1>6. TailsFit'
  BY <1>1, <1>2, WrittenIsStart DEF TailsFit
<1> QED
  BY <1>4, <1>5, <1>6 DEF PatchInv

LEMMA NextInputStep == PatchInv /\ NextInput => PatchInv'
<1> SUFFICES ASSUME PatchInv, NextInput PROVE PatchInv'
  OBVIOUS
<1>1. PatchTypes /\ HeaderAndFooterFit /\ ValuesFit /\ TailsFit /\ SectionsFound
  BY DEF PatchInv
<1>2. /\ stage = "values" /\ rem = -1 /\ left = 0 /\ input < Len(Sizes)
      /\ input' = input + 1 /\ left' = Sizes[input + 1]
      /\ UNCHANGED <<jobs, original, disk, written, header, footer, job, rem, stage, failed, runs, before>>
  BY DEF NextInput
<1>3. Name' = Name /\ Sizes' = Sizes
  BY <1>2 DEF Name, Sizes
<1>4. Sizes \in Seq(Nat) /\ Len(Sizes) \in Nat \ {0} /\ \A i \in 1..Len(Sizes) : Sizes[i] \in Nat
  BY <1>1, JobIs
<1>5. input \in 1..Len(Sizes) /\ input' \in 1..Len(Sizes) /\ left' \in Nat /\ input' \in Nat
  <2>1. input \in 1..Len(Sizes)
    BY <1>1, <1>2 DEF ValuesFit
  <2>2. input + 1 \in 1..Len(Sizes)
    BY <1>2, <1>4, <2>1
  <2> QED
    BY <1>2, <1>4, <2>1, <2>2
<1>6. PatchTypes'
  BY <1>1, <1>2, <1>5 DEF PatchTypes
<1>7. HeaderAndFooterFit' /\ TailsFit' /\ SectionsFound'
  BY <1>1, <1>2, <1>3 DEF HeaderAndFooterFit, TailsFit, SectionsFound
<1>8. ValuesFit'
  <2>1. PICK v \in Seq(ValuesOf(Name)) : written = header \o v
                                         /\ Bytes(v) + left = Total(SubSeq(Sizes, 1, input))
    BY <1>1, <1>2 DEF ValuesFit
  <2>2. Total(SubSeq(Sizes, 1, input + 1)) = Total(SubSeq(Sizes, 1, input)) + Sizes[input + 1]
    BY <1>2, <1>4, <1>5, SumsSoFar
  <2>3. Bytes(v) \in Int
    BY BytesOfAppended
  <2>4. Bytes(v) + left' = Total(SubSeq(Sizes, 1, input'))
    BY <1>2, <2>1, <2>2, <2>3
  <2> QED
    BY <1>2, <1>3, <1>5, <2>1, <2>4 DEF ValuesFit
<1> QED
  BY <1>6, <1>7, <1>8 DEF PatchInv

LEMMA CloseFileStep == PatchInv /\ CloseFile => PatchInv'
<1> SUFFICES ASSUME PatchInv, CloseFile PROVE PatchInv'
  OBVIOUS
<1>1. PatchTypes /\ HeaderAndFooterFit /\ ValuesFit /\ TailsFit /\ SectionsFound
  BY DEF PatchInv
<1>2. /\ stage = "values" /\ stage' = "idle"
      /\ written' = written \o footer /\ disk' = written \o footer
      /\ job' = (IF job = Len(jobs) THEN 1 ELSE job + 1)
      /\ input' = input /\ left' = left /\ rem' = rem
      /\ UNCHANGED <<jobs, original, header, footer, failed, runs, before>>
  BY DEF CloseFile, cursor
<1>3. PatchTypes'
  <2>1. written \o footer \in PatchTexts
    <3>1. written \in Seq(PatchLines) /\ footer \in Seq(PatchLines)
      BY <1>1 DEF PatchTypes, PatchTexts
    <3> QED
      BY <3>1, ConcatProperties DEF PatchTexts
  <2>2. job' \in 1..Len(jobs')
    <3>1. PICK n \in Nat \ {0} : n = Len(jobs)
      BY <1>1, JobIs
    <3>2. job \in 1..n
      BY <1>1, <3>1 DEF PatchTypes
    <3>3. job' \in 1..n
      BY <1>2, <3>1, <3>2
    <3> QED
      BY <1>2, <3>1, <3>3
  <2> QED
    BY <1>1, <1>2, <2>1, <2>2 DEF PatchTypes
<1>4. HeaderAndFooterFit' /\ ValuesFit' /\ SectionsFound'
  BY <1>2 DEF HeaderAndFooterFit, ValuesFit, SectionsFound
<1>5. TailsFit'
  BY <1>1, <1>2, WrittenIsStart DEF TailsFit
<1> QED
  BY <1>3, <1>4, <1>5 DEF PatchInv

LEMMA FailureSteps == PatchInv /\ (GiveUp \/ FailRun) => PatchInv'
<1>1. ASSUME PatchInv, GiveUp PROVE PatchInv'
  <2>1. PatchTypes /\ TailsFit
    BY <1>1 DEF PatchInv
  <2>2. /\ stage = "not found" /\ stage' = "idle" /\ job' = 1 /\ failed' = TRUE
        /\ input' = input /\ left' = left /\ rem' = rem
        /\ UNCHANGED <<jobs, original, disk, written, header, footer, runs, before>>
    BY <1>1 DEF GiveUp, cursor
  <2>3. job' \in 1..Len(jobs')
    <3>1. PICK n \in Nat \ {0} : n = Len(jobs)
      BY <2>1, JobIs
    <3>2. 1 \in 1..n
      OBVIOUS
    <3>3. jobs' = jobs /\ job' = 1
      BY <2>2
    <3> QED
      BY <3>1, <3>2, <3>3
  <2>4. PatchTypes'
    BY <2>1, <2>2, <2>3 DEF PatchTypes
  <2>5. HeaderAndFooterFit' /\ ValuesFit' /\ SectionsFound'
    BY <2>2 DEF HeaderAndFooterFit, ValuesFit, SectionsFound
  <2>6. TailsFit'
    BY <2>1, <2>2 DEF TailsFit
  <2> QED
    BY <2>4, <2>5, <2>6 DEF PatchInv
<1>2. ASSUME PatchInv, FailRun PROVE PatchInv'
  <2>1. PatchTypes /\ TailsFit
    BY <1>2 DEF PatchInv
  <2>2. /\ stage \in {"open", "values"} /\ stage' = "idle" /\ job' = 1 /\ failed' = TRUE
        /\ disk' = disk \/ (stage = "values" /\ disk' = written)
        /\ input' = input /\ left' = left /\ rem' = rem
        /\ UNCHANGED <<jobs, original, written, header, footer, runs, before>>
    <3>1. disk' \in IF stage = "values" THEN {disk, written} ELSE {disk}
      BY <1>2 DEF FailRun
    <3>2. disk' = disk \/ (stage = "values" /\ disk' = written)
      BY <3>1
    <3> QED
      BY <1>2, <3>2 DEF FailRun, cursor
  <2>3. job' \in 1..Len(jobs')
    <3>1. PICK n \in Nat \ {0} : n = Len(jobs)
      BY <2>1, JobIs
    <3>2. 1 \in 1..n
      OBVIOUS
    <3>3. jobs' = jobs /\ job' = 1
      BY <2>2
    <3> QED
      BY <3>1, <3>2, <3>3
  <2>4. disk' \in PatchTexts
    BY <2>1, <2>2 DEF PatchTypes
  <2>5. PatchTypes'
    BY <2>1, <2>2, <2>3, <2>4 DEF PatchTypes
  <2>6. HeaderAndFooterFit' /\ ValuesFit' /\ SectionsFound'
    BY <2>2 DEF HeaderAndFooterFit, ValuesFit, SectionsFound
  <2>7. TailsFit'
    BY <1>2, <2>1, <2>2, WrittenIsStart DEF TailsFit
  <2> QED
    BY <2>5, <2>6, <2>7 DEF PatchInv
<1> QED
  BY <1>1, <1>2

LEMMA PatchStands == PatchInv /\ UNCHANGED patchVars => PatchInv'
<1> SUFFICES ASSUME PatchInv, UNCHANGED patchVars PROVE PatchInv'
  OBVIOUS
<1>1. /\ UNCHANGED <<jobs, original, disk, written, header, footer, job, stage, failed, runs, before>>
      /\ input' = input /\ left' = left /\ rem' = rem
  BY DEF patchVars, cursor
<1>2. Name' = Name /\ Sizes' = Sizes
  BY <1>1 DEF Name, Sizes
<1>3. PatchTypes' /\ HeaderAndFooterFit'
  BY <1>1, <1>2 DEF PatchInv, PatchTypes, HeaderAndFooterFit
<1>4. ValuesFit' /\ TailsFit' /\ SectionsFound'
  BY <1>1, <1>2 DEF PatchInv, ValuesFit, TailsFit, SectionsFound
<1> QED
  BY <1>3, <1>4 DEF PatchInv

\* Every step of the tool, and whatever ends one of its runs, leaves the file fit.
LEMMA PatchStep == PatchInv /\ [PatchNext]_patchVars => PatchInv'
<1> SUFFICES ASSUME PatchInv, [PatchNext]_patchVars PROVE PatchInv'
  OBVIOUS
<1>1. CASE Scan
  BY <1>1, ScanStep
<1>2. CASE Work
  BY <1>2, OpenStep, WriteValueStep, WritePartStep, NextInputStep, CloseFileStep, FailureSteps DEF Work
<1>3. CASE Flush
  BY <1>3, FlushStep
<1>4. CASE FailRun
  BY <1>4, FailureSteps
<1>5. CASE Spin \/ Enough \/ UNCHANGED patchVars
  BY <1>5, PatchStands DEF Spin, Enough
<1> QED
  BY <1>1, <1>2, <1>3, <1>4, <1>5 DEF PatchNext

\* For every build, every file and every way runs end: what a run has read and
\* written so far, and what that leaves of the file. (tools/bin2rpcs3patch.py)
THEOREM PatchInvariant == PatchSpec => []PatchInv
<1>1. PatchInit => PatchInv
  BY PatchInitial
<1>2. PatchInv /\ [PatchNext]_patchVars => PatchInv'
  BY PatchStep
<1> QED
  BY <1>1, <1>2, PTL DEF PatchSpec

LEMMA PatchTypesFit == PatchInv => PatchTypeOK
<1> SUFFICES ASSUME PatchInv PROVE PatchTypeOK
  OBVIOUS
<1>1. PatchTypes
  BY DEF PatchInv
<1>2. ASSUME NEW f \in Seq(PatchLines) PROVE \A i \in DOMAIN f : f[i].kind \in LineKinds
  <2>1. \A i \in DOMAIN f : f[i] \in PatchLines
    OBVIOUS
  <2> QED
    BY <2>1, LinesHaveKinds
<1>3. \A f \in {disk, written, header, footer, before} : f \in Seq(PatchLines)
  BY <1>1 DEF PatchTypes, PatchTexts
<1> QED
  BY <1>1, <1>2, <1>3, JobIs DEF PatchTypes, PatchTypeOK

LEMMA TailsAreLost == PatchInv => OnlyTheTailIsLost
<1> SUFFICES ASSUME PatchInv, Proper(original)
             PROVE  Skeleton(disk) = SubSeq(Skeleton(original), 1, Len(Skeleton(disk)))
  BY DEF OnlyTheTailIsLost
<1>1. PICK s \in Seq(PatchLines), w \in Seq(PatchLines) : s = Skeleton(disk) /\ w = Skeleton(original)
  BY OriginalIsAFile, SkeletonIs DEF PatchInv, PatchTypes, PatchTexts
<1>2. PICK n \in Nat : n = Len(s)
  BY LenProperties
<1>3. n <= Len(w) /\ \A i \in 1..n : s[i] = w[i]
  BY <1>1, <1>2 DEF PatchInv, TailsFit, IsStart
<1>4. PICK t : t = SubSeq(w, 1, n)
  OBVIOUS
<1>5. t \in Seq(PatchLines) /\ Len(t) = n /\ \A i \in 1..n : t[i] = w[i]
  BY <1>2, <1>3, <1>4
<1>6. s = t
  BY <1>2, <1>3, <1>5, SeqEqual
<1> QED
  BY <1>1, <1>2, <1>4, <1>6

\* What a run leaves when it ends well.
LEMMA EndedRun ==
  ASSUME PatchInv, CloseFile, Proper(before)
  PROVE  /\ Skeleton(disk') = Skeleton(before)
         /\ Bytes(Section(disk', Name)) = Total(Sizes)
         /\ \A i \in DOMAIN before :
              before[i].kind = "begin" /\ before[i].of # Name =>
                Section(disk', before[i].of) = Section(before, before[i].of)
<1>1. PatchTypes /\ HeaderAndFooterFit /\ ValuesFit
  BY DEF PatchInv
<1>2. /\ stage = "values" /\ left = 0 /\ input = Len(Sizes) /\ disk' = written \o footer
  BY DEF CloseFile
<1>3. PICK o : Cut(PatchLines, before, Name, header, o, footer)
  BY <1>1, <1>2 DEF HeaderAndFooterFit
<1>4. PICK v \in Seq(ValuesOf(Name)) : written = header \o v
                                       /\ Bytes(v) + left = Total(SubSeq(Sizes, 1, input))
  BY <1>1, <1>2 DEF ValuesFit
<1>5. v \in Seq(PatchLines) /\ \A k \in 1..Len(v) : v[k].kind = "value"
  <2>1. Seq(ValuesOf(Name)) \subseteq PatchTexts /\ \A l \in ValuesOf(Name) : l.kind = "value"
    BY <1>1, JobIs, ValuesAreLines
  <2>2. \A k \in 1..Len(v) : v[k] \in ValuesOf(Name)
    OBVIOUS
  <2> QED
    BY <2>1, <2>2 DEF PatchTexts
<1>6. before \in Seq(PatchLines) /\ header \in Seq(PatchLines) /\ footer \in Seq(PatchLines)
  BY <1>1 DEF PatchTypes, PatchTexts
<1>7. Bytes(v) = Total(Sizes)
  <2>1. Bytes(v) \in Int
    BY BytesOfAppended
  <2>2. Sizes \in Seq(Nat) /\ Len(Sizes) \in Nat \ {0} /\ Len(Sizes) \in 1..Len(Sizes)
    BY <1>1, JobIs
  <2>3. Total(SubSeq(Sizes, 1, Len(Sizes))) = Total(Sizes)
    BY <2>2, SumsSoFar
  <2> QED
    BY <1>2, <1>4, <2>1, <2>3
<1>8. disk' = Replaced(header, v, footer)
  <2>1. (header \o v) \o footer = header \o (v \o footer)
    BY <1>5, <1>6, ConcatAssociative
  <2> QED
    BY <1>2, <1>4, <2>1 DEF Replaced
<1>9. PICK f : f = before
  OBVIOUS
<1>10. PICK n : n = Name
  OBVIOUS
<1>11. /\ Skeleton(Replaced(header, v, footer)) = Skeleton(f)
       /\ Section(Replaced(header, v, footer), n) = v
       /\ \A i \in DOMAIN f : f[i].kind = "begin" /\ f[i].of # n =>
            Section(Replaced(header, v, footer), f[i].of) = Section(f, f[i].of)
  BY <1>3, <1>5, <1>6, <1>9, <1>10, ReplacingIsLocal
<1> QED
  BY <1>7, <1>8, <1>9, <1>10, <1>11

\* What others keep in the patch file survives every build, however runs end, and
\* builds go on finding their sections: for all builds, files and sizes.
\* (tools/bin2rpcs3patch.py)
THEOREM PatchesKeptCorrect == PatchSpec => PatchesKept
<1>1. PatchInv => PatchTypeOK /\ SectionsFound /\ OnlyTheTailIsLost
  BY PatchTypesFit, TailsAreLost DEF PatchInv
<1>2. PatchInv /\ [PatchNext]_patchVars =>
        [Proper(before) /\ CloseFile =>
           /\ Skeleton(disk') = Skeleton(before)
           /\ Bytes(Section(disk', Name)) = Total(Sizes)
           /\ \A i \in DOMAIN before :
                before[i].kind = "begin" /\ before[i].of # Name =>
                  Section(disk', before[i].of) = Section(before, before[i].of)]_patchVars
  BY EndedRun
<1> QED
  BY <1>1, <1>2, PatchInvariant, PTL DEF PatchSpec, PatchesKept, RunReplacesItsSection
==============================================================================
