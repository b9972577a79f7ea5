---------------------------- MODULE HookDispatch ----------------------------
(***************************************************************************)
(* A call of a hooked game function, instruction by instruction where the  *)
(* machine state matters (the assembly that tools/shkgen.py emits).        *)
(*                                                                         *)
(* The first instruction of the function is patched into a branch to its   *)
(* thunk, which loads the hook's offset and goes to the thunk shared by all*)
(* hooks; that one saves r2, r31 and lr, fetches the handler's descriptor  *)
(* through the pointer table of the PRX and calls it. A handler reaches the*)
(* original through a trampoline: the replaced instruction and a branch to *)
(* the second one. A hook no module has bound has its trampoline in the    *)
(* pointer table.                                                          *)
(*                                                                         *)
(* `mem` is the stack of one game thread, innermost frame last; Len(mem) is*)
(* r1. `at` says whose code runs, as lr led there: a frame of `mem`, and   *)
(* the proofs show that it is always the innermost.                        *)
(***************************************************************************)
EXTENDS Integers, Sequences

CONSTANTS HookCount,   \* the hooks of hooks.yml, numbered in pointer-table order
          MaxFrames    \* bound: frames on the stack

Hook == 1..HookCount
NoHook == 0

ASSUME HookAssumption == HookCount \in Nat /\ MaxFrames \in Nat \ {0}

VARIABLES
  emit,    \* emit[h]: hooks.yml does not say `emitTrampoline: no`; never changes
  word,    \* _shk_elf_prx_ptr_table in the ELF: "0x0BADF00D" or "prx"
  ptr,     \* ptr[h]: _shk_prx_ptr_h, "trampoline" or "handler"
  mem,     \* the frames of the thread
  at,      \* the frame whose code runs; 0 after a wild jump
  r2,      \* the TOC register
  r31      \* the one register that the thunk uses and its caller owns

shared == <<emit, word, ptr>>
thread == <<mem, at, r2, r31>>
hooksVars == <<emit, word, ptr, mem, at, r2, r31>>

\* The TOC a compiled function runs under
Toc(kind) == IF kind = "handler" THEN "prx" ELSE "elf"

\* One frame: what its prologue saved. `asked` is not in the machine: it is the
\* function, hooked or original, that the code calling it had in mind.
Frame(kind, of, asked, toc, saved31, lr) ==
  [kind |-> kind, of |-> of, asked |-> asked, toc |-> toc, r31 |-> saved31, lr |-> lr]

Main == Frame("main", NoHook, <<"main", NoHook>>, "elf", 0, 0)

HooksInit ==
  /\ emit \in [Hook -> BOOLEAN]
  /\ word = "0x0BADF00D"
  /\ ptr = [h \in Hook |-> "trampoline"]
  /\ mem = <<Main>>
  /\ at = 1
  /\ r2 = "elf"
  /\ r31 = 1

-----------------------------------------------------------------------------
(* initRuntime and the binding of hooks                                    *)

\* SHK_BIND_HOOK for each of hs
Bind(hs) == ptr' = [h \in Hook |-> IF h \in hs THEN "handler" ELSE ptr[h]]

\* `prxHooks` are the hooks whose handlers the runtime itself provides.
InitRuntime(prxHooks) ==
  /\ word' = "prx"
  /\ Bind(prxHooks)
  /\ UNCHANGED <<emit, thread>>

\* the init function of a module
BindAll(hs) == Bind(hs) /\ UNCHANGED <<emit, word, thread>>

-----------------------------------------------------------------------------
(* Calls                                                                   *)

Top == mem[Len(mem)]
TopWithout(s) == SubSeq(s, 1, Len(s) - 1)

\* A compiled function has the processor, and calls another one.
InBody == at > 0 /\ mem[at].kind # "thunk"

\* An empty trampoline is a label with nothing behind it: in the data section
\* the descriptor found there is that of the next hook that has one.
Descriptor(h) ==
  IF \E k \in h..HookCount : emit[k]
  THEN CHOOSE k \in h..HookCount : emit[k] /\ \A i \in h..(k - 1) : ~emit[i]
  ELSE NoHook

\* The r2 a call of a game function starts with. A call out of the PRX goes
\* through a descriptor, so r2 is set for the callee, and the compiler restores
\* it behind the call; a call inside the ELF leaves r2 to the callee.
CallToc == IF mem[at].kind = "handler" THEN "elf" ELSE r2
Resumed(lr, toc) == IF lr > 0 /\ mem[lr].kind = "handler" THEN "prx" ELSE toc

\* The prologue of a compiled function: the frame goes on top of mem, and r31
\* belongs to it.
Enter(below, kind, of, asked, toc, saved31, lr) ==
  /\ mem' = Append(below, Frame(kind, of, asked, toc, saved31, lr))
  /\ at' = Len(below) + 1
  /\ r31' = Len(below) + 1
  /\ r2' = Toc(kind)

WildJump == at' = 0 /\ UNCHANGED <<mem, r2, r31>>

\* a trampoline that branches to the first instruction, which is the patch
EnterPatched(below, h, asked, saved31, lr) ==
  IF ptr[h] = "handler" THEN Enter(below, "handler", h, asked, "prx", saved31, lr)
  ELSE Enter(below, "original", h, asked, "elf", saved31, lr)

\* The trampoline of h, called from frame lr
EnterOriginal(below, h, asked, saved31, lr) ==
  IF Descriptor(h) = NoHook THEN WildJump
  ELSE Enter(below, "original", Descriptor(h), asked, "elf", saved31, lr)

\* a prologue that saves r2 after it has loaded the TOC of the handler
ThunkFrameNewToc(h) ==
  Frame("thunk", h, <<"call", h>>, IF ptr[h] = "handler" THEN "prx" ELSE "elf", r31, at)

\* The prologue of _shk_elf_thunk saves what belongs to its caller.
ThunkFrame(h) == Frame("thunk", h, <<"call", h>>, CallToc, r31, at)

\* Patch, thunk and shared thunk, up to the first instruction of the function
\* that the pointer table names.
CallHooked(h) ==
  /\ InBody
  /\ Len(mem) + 2 <= MaxFrames
  /\ LET below == Append(mem, ThunkFrame(h))
         fp == Len(mem) + 1
     IN IF word # "prx" THEN WildJump
        ELSE IF ptr[h] = "handler"
             THEN Enter(below, "handler", h, <<"call", h>>, "prx", fp, fp)
             ELSE EnterOriginal(below, h, <<"call", h>>, fp, fp)
  /\ UNCHANGED shared

\* SHK_CALL_HOOK( h ) in PRX code
CallOriginal(h) ==
  /\ InBody /\ mem[at].kind = "handler"
  /\ Len(mem) + 1 <= MaxFrames
  /\ EnterOriginal(mem, h, <<"original", h>>, r31, at)
  /\ UNCHANGED shared

\* blr of a compiled function
Return ==
  /\ InBody /\ mem[at].kind # "main"
  /\ mem' = TopWithout(mem)
  /\ at' = Top.lr
  /\ r31' = Top.r31
  /\ r2' = Resumed(Top.lr, r2)
  /\ UNCHANGED shared

\* the epilog of _shk_elf_thunk, with r1 pointing to its frame
Epilog ==
  /\ at > 0 /\ mem[at].kind = "thunk"
  /\ mem' = TopWithout(mem)
  /\ at' = Top.lr
  /\ r31' = Top.r31
  /\ r2' = Resumed(Top.lr, Top.toc)
  /\ UNCHANGED shared

Run == (\E h \in Hook : CallHooked(h) \/ CallOriginal(h)) \/ Return \/ Epilog

\* Seen alone, hooks may be bound at any time, under calls in progress too.
HooksNext == Run \/ \E hs \in SUBSET Hook : InitRuntime(hs) \/ BindAll(hs)

HooksSpec == HooksInit /\ [][HooksNext]_hooksVars

-----------------------------------------------------------------------------
(* Properties                                                              *)

Kinds == {"main", "thunk", "handler", "original"}

DispatchTypeOK ==
  /\ emit \in [Hook -> BOOLEAN]
  /\ word \in {"0x0BADF00D", "prx"}
  /\ ptr \in [Hook -> {"trampoline", "handler"}]
  /\ mem \in Seq([kind : Kinds, of : Hook \cup {NoHook},
                  asked : {"main", "call", "original"} \X (Hook \cup {NoHook}),
                  toc : {"elf", "prx"}, r31 : Nat, lr : Nat])
  /\ Len(mem) \in 1..MaxFrames
  /\ at \in Nat
  /\ r2 \in {"elf", "prx"}
  /\ r31 \in Nat

\* Whatever calls whatever, nested or recursive, through handlers bound or not:
\* a function that has the processor runs on its own frame, under its own TOC
\* and with its own r31. The game's functions do not know that they are hooked.
CallersStateKept ==
  InBody => at = Len(mem) /\ r2 = Toc(mem[at].kind) /\ r31 = at

\* A hook with a usable entry: bound, or with a trampoline of its own
Usable(h) == emit[h] \/ ptr[h] = "handler"

\* What runs for the call that frame f answers
Answers(f) ==
  IF f.asked[1] = "call" /\ ptr[f.asked[2]] = "handler"
  THEN f.kind = "handler" /\ f.of = f.asked[2]
  ELSE f.kind = "original" /\ f.of = f.asked[2]

\* shk.h: the handler answers a call of a bound hook, the original function a
\* call of an unbound one, and SHK_CALL_HOOK bypasses the hook.
CallsReachTheirFunction ==
  \A i \in 2..Len(mem) : mem[i].kind # "thunk" => Answers(mem[i])

\* The same for the hooks whose trampoline, should it be called, has a body.
UsableCallsReachTheirFunction ==
  \A i \in 2..Len(mem) :
    mem[i].kind # "thunk" /\ Usable(mem[i].asked[2])
      /\ (mem[i].asked[1] = "original" => emit[mem[i].asked[2]])
    => Answers(mem[i])
=============================================================================
