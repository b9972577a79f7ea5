---------------------------- MODULE Battle_proofs -----------------------------
(* Theorems about the party and its battles, for all configurations, numbers   *)
(* of enemies and numbers that may follow the console's commands.              *)
EXTENDS Battle, TLAPS

(***************************************************************************)
(* The party: who is in which of its slots.                                *)
(***************************************************************************)
Slots == [Slot -> Unit]

\* A party with room has a first empty slot.
LEMMA FirstEmptyIs ==
  ASSUME NEW s, HasRoom(s)
  PROVE  /\ FirstEmpty(s) \in Slot /\ s[FirstEmpty(s)] = Empty
         /\ \A j \in 0..(FirstEmpty(s) - 1) : s[j] # Empty
<1>1. \E i \in Slot : s[i] = Empty /\ \A j \in 0..(i - 1) : s[j] # Empty
  <2>1. CASE s[0] = Empty
    BY <2>1 DEF Slot
  <2>2. CASE s[0] # Empty /\ s[1] = Empty
    BY <2>2 DEF Slot
  <2>3. CASE s[0] # Empty /\ s[1] # Empty /\ s[2] = Empty
    BY <2>3 DEF Slot
  <2>4. CASE s[0] # Empty /\ s[1] # Empty /\ s[2] # Empty
    <3>1. s[3] = Empty
      BY <2>4 DEF HasRoom, Slot
    <3> QED
      BY <2>4, <3>1 DEF Slot
  <2> QED
    BY <2>1, <2>2, <2>3, <2>4
<1> QED
  BY <1>1 DEF FirstEmpty

\* What PartyIn does to slots: nothing, or one slot is overwritten, an empty one if
\* there is any.
LEMMA PartyInShape ==
  ASSUME NEW s \in Slots, NEW u \in Unit
  PROVE  \/ PartyIn(s, u) = s /\ \E i \in Slot : s[i] = u
         \/ \E k \in Slot : /\ PartyIn(s, u) = [s EXCEPT ![k] = u]
                            /\ \A i \in Slot : s[i] # u
                            /\ s[k] = Empty \/ k = 3
                            /\ HasRoom(s) => s[k] = Empty
<1>1. CASE u \in {s[i] : i \in Slot}
  BY <1>1 DEF PartyIn
<1>2. CASE u \notin {s[i] : i \in Slot} /\ HasRoom(s)
  BY <1>2, FirstEmptyIs DEF PartyIn, Put
<1>3. CASE u \notin {s[i] : i \in Slot} /\ ~HasRoom(s)
  BY <1>3 DEF PartyIn, Put, Slot
<1> QED
  BY <1>1, <1>2, <1>3

\* PartyIn keeps the type and lets nobody stand twice; the first slot keeps a unit.
LEMMA PartyInKeeps ==
  ASSUME NEW s \in Slots, NEW u \in Unit
  PROVE  /\ PartyIn(s, u) \in Slots
         /\ s[0] # Empty => PartyIn(s, u)[0] = s[0]
         /\ Distinct(s) => Distinct(PartyIn(s, u))
<1>1. CASE PartyIn(s, u) = s
  BY <1>1
<1>2. ASSUME NEW k \in Slot, PartyIn(s, u) = [s EXCEPT ![k] = u],
             \A i \in Slot : s[i] # u, s[k] = Empty \/ k = 3
      PROVE  /\ PartyIn(s, u) \in Slots
             /\ s[0] # Empty => PartyIn(s, u)[0] = s[0]
             /\ Distinct(s) => Distinct(PartyIn(s, u))
  <2>1. PartyIn(s, u) \in Slots
    BY <1>2 DEF Slots
  <2>2. ASSUME s[0] # Empty PROVE PartyIn(s, u)[0] = s[0]
    BY <1>2, <2>2 DEF Slots, Slot
  <2>3. ASSUME Distinct(s) PROVE Distinct(PartyIn(s, u))
    <3> SUFFICES ASSUME NEW i \in Slot, NEW j \in Slot,
                        PartyIn(s, u)[i] = PartyIn(s, u)[j], PartyIn(s, u)[i] # Empty
                 PROVE  i = j
      BY DEF Distinct
    <3> QED
      BY <1>2, <2>3 DEF Slots, Distinct
  <2> QED
    BY <2>1, <2>2, <2>3
<1> QED
  BY <1>1, <1>2, PartyInShape

Back(t, m, u) == IF m # u THEN PartyIn(t, m) ELSE t

LEMMA PartyOutIs ==
  ASSUME NEW s, NEW u
  PROVE  PartyOut(s, u) = Back(Back(Back(Cleared(s), s[1], u), s[2], u), s[3], u)
BY DEF PartyOut, Back

LEMMA BackKeeps ==
  ASSUME NEW t \in Slots, NEW m \in Unit, NEW u
  PROVE  /\ Back(t, m, u) \in Slots
         /\ t[0] # Empty => Back(t, m, u)[0] = t[0]
         /\ Distinct(t) => Distinct(Back(t, m, u))
BY PartyInKeeps DEF Back

LEMMA ClearedKeeps ==
  ASSUME NEW s \in Slots
  PROVE  /\ Cleared(s) \in Slots /\ Cleared(s)[0] = s[0]
         /\ Distinct(Cleared(s))
<1>1. Cleared(s) \in Slots
  BY DEF Cleared, Slots, Slot, Mate, Unit, Empty, LastUnit
<1>2. /\ Cleared(s)[0] = s[0]
      /\ Cleared(s)[1] = Empty /\ Cleared(s)[2] = Empty /\ Cleared(s)[3] = Empty
  BY DEF Cleared, Slot, Mate
<1>3. Distinct(Cleared(s))
  BY <1>2 DEF Distinct, Slot
<1> QED
  BY <1>1, <1>2, <1>3

LEMMA PartyOutKeeps ==
  ASSUME NEW s \in Slots, NEW u
  PROVE  /\ PartyOut(s, u) \in Slots
         /\ s[0] # Empty => PartyOut(s, u)[0] = s[0]
         /\ Distinct(PartyOut(s, u))
<1> DEFINE a == Cleared(s)
           b == Back(a, s[1], u)
           c == Back(b, s[2], u)
           d == Back(c, s[3], u)
<1>1. s[1] \in Unit /\ s[2] \in Unit /\ s[3] \in Unit
  BY DEF Slots, Slot
<1>2. a \in Slots /\ a[0] = s[0] /\ Distinct(a)
  BY ClearedKeeps
<1> HIDE DEF a
<1>3. b \in Slots /\ (s[0] # Empty => b[0] = s[0]) /\ Distinct(b)
  BY <1>1, <1>2, BackKeeps
<1> HIDE DEF b
<1>4. c \in Slots /\ (s[0] # Empty => c[0] = s[0]) /\ Distinct(c)
  BY <1>1, <1>3, BackKeeps
<1> HIDE DEF c
<1>5. d \in Slots /\ (s[0] # Empty => d[0] = s[0]) /\ Distinct(d)
  BY <1>1, <1>4, BackKeeps
<1>6. PartyOut(s, u) = d
  BY PartyOutIs DEF a, b, c
<1> QED
  BY <1>5, <1>6

-----------------------------------------------------------------------------
PartyInv == PartyTypeOK /\ NobodyTwice

\* A party as the game starts with it has the invariant, and a command keeps it.
LEMMA PartyStart ==
  ASSUME PartyInit
  PROVE  PartyInv
<1>1. (Args \cap Unit) \cup {Empty, Joker} \subseteq Unit
  BY DEF Unit, Empty, Joker, LastUnit
<1>2. slots \in [Slot -> Unit]
  BY <1>1 DEF PartyInit
<1> QED
  BY <1>2 DEF PartyInit, PartyInv, PartyTypeOK, NobodyTwice

LEMMA PartyStep ==
  ASSUME PartyInv, [PartyNext]_slots
  PROVE  PartyInv'
<1>1. slots \in Slots /\ slots[0] = Joker /\ Joker # Empty /\ Distinct(slots)
  BY DEF PartyInv, PartyTypeOK, NobodyTwice, Slots, Joker, Empty
<1>2. ASSUME NEW u \in Args, ttyPartyInCmd(u) PROVE PartyInv'
  <2>1. u \in Unit
    BY <1>2, ArgsAssumption DEF ttyPartyInCmd, Unit, LastUnit
  <2>2. slots' \in Slots /\ slots'[0] = Joker /\ Distinct(slots')
    BY <1>1, <1>2, <2>1, PartyInKeeps DEF ttyPartyInCmd
  <2> QED
    BY <2>2 DEF PartyInv, PartyTypeOK, NobodyTwice, Slots, Distinct
<1>3. ASSUME NEW u \in Args, ttyPartyOutCmd(u) PROVE PartyInv'
  <2>1. slots' \in Slots /\ slots'[0] = Joker /\ Distinct(slots')
    BY <1>1, <1>3, PartyOutKeeps DEF ttyPartyOutCmd
  <2> QED
    BY <2>1 DEF PartyInv, PartyTypeOK, NobodyTwice, Slots, Distinct
<1>4. CASE UNCHANGED slots
  BY <1>4 DEF PartyInv, PartyTypeOK, NobodyTwice, Distinct
<1> QED
  BY <1>2, <1>3, <1>4 DEF PartyNext

\* Whatever the commands are given: Joker stays in front, slots hold units, and
\* nobody stands in two of them.
THEOREM PartyInvariant == PartySpec => []PartyInv
<1>1. PartyInit => PartyInv
  BY PartyStart
<1>2. PartyInv /\ [PartyNext]_slots => PartyInv'
  BY PartyStep
<1> QED
  BY <1>1, <1>2, PTL DEF PartySpec

\* The slots hold units and Joker keeps the first one, whatever is typed.
THEOREM PartyTypeCorrect == PartySpec => []PartyTypeOK
<1>1. PartyInv => PartyTypeOK
  BY DEF PartyInv
<1> QED
  BY <1>1, PartyInvariant, PTL

\* No unit is ever in two slots.
THEOREM NobodyTwiceCorrect == PartySpec => []NobodyTwice
<1>1. PartyInv => NobodyTwice
  BY DEF PartyInv
<1> QED
  BY <1>1, PartyInvariant, PTL

\* A newcomer is in the party, and only the last of a full one makes room.
THEOREM InDisplacesTheLastOnlyCorrect == PartySpec => []InDisplacesTheLastOnly
<1>1. PartyInv => InDisplacesTheLastOnly
  <2> SUFFICES ASSUME PartyInv, NEW u \in (Args \cap Unit) \ {Empty}
               PROVE  /\ u \in Members(PartyIn(slots, u))
                      /\ Members(slots) \subseteq Members(PartyIn(slots, u))
                                             \cup (IF HasRoom(slots) THEN {} ELSE {slots[3]})
    BY DEF InDisplacesTheLastOnly
  <2> DEFINE after == PartyIn(slots, u)
  <2>1. slots \in Slots
    BY DEF PartyInv, PartyTypeOK, Slots
  <2>2. CASE after = slots /\ \E i \in Slot : slots[i] = u
    BY <2>2 DEF Members
  <2>3. ASSUME NEW k \in Slot, after = [slots EXCEPT ![k] = u],
               slots[k] = Empty \/ k = 3, HasRoom(slots) => slots[k] = Empty
        PROVE  /\ u \in Members(after)
               /\ Members(slots) \subseteq Members(after) \cup (IF HasRoom(slots) THEN {} ELSE {slots[3]})
    <3>1. after[k] = u /\ \A i \in Slot \ {k} : after[i] = slots[i]
      BY <2>1, <2>3 DEF Slots
    <3>2. u \in Members(after)
      BY <3>1 DEF Members
    <3>3. ASSUME NEW m \in Members(slots)
          PROVE  m \in Members(after) \cup (IF HasRoom(slots) THEN {} ELSE {slots[3]})
      <4>1. PICK i \in Slot : slots[i] = m /\ m # Empty
        BY DEF Members
      <4>2. CASE i # k
        BY <3>1, <4>1, <4>2 DEF Members
      <4>3. CASE i = k
        BY <2>3, <4>1, <4>3
      <4> QED
        BY <4>2, <4>3
    <3> QED
      BY <3>2, <3>3
  <2> QED
    BY <2>1, <2>2, <2>3, PartyInShape
<1> QED
  BY <1>1, PartyInvariant, PTL

-----------------------------------------------------------------------------
\* What has come back of the slots 0..n of s when u is taken out: the members
\* without u, without gaps and in their order.
Kept(s, u, n, t) ==
  /\ t \in Slots
  /\ \E k \in 1..(n + 1) : \A i \in Slot : i < k <=> t[i] # Empty
  /\ \A i \in Slot : t[i] # Empty => \E j \in 0..n : s[j] = t[i] /\ (j = 0 \/ s[j] # u)
  /\ \A j \in 0..n : s[j] # Empty /\ (j = 0 \/ s[j] # u) => \E i \in Slot : t[i] = s[j]
  /\ \A i, j \in Slot : i < j /\ t[j] # Empty => \E p, q \in 0..n : p < q /\ s[p] = t[i] /\ s[q] = t[j]

LEMMA KeptNext ==
  ASSUME NEW s \in Slots, Distinct(s), NEW u, NEW n \in 0..2, NEW t, Kept(s, u, n, t)
  PROVE  Kept(s, u, n + 1, Back(t, s[n + 1], u))
<1> DEFINE m == s[n + 1]
           r == Back(t, m, u)
<1>1. PICK k \in 1..(n + 1) : \A i \in Slot : i < k <=> t[i] # Empty
  BY DEF Kept
<1>2. n + 1 \in Slot /\ m \in Unit /\ k \in Slot /\ t \in Slots
  BY DEF Slot, Slots, Kept
<1>3. CASE m = u \/ m = Empty
  <2>1. r = t
    <3>1. CASE m = u
      BY <3>1 DEF Back
    <3>2. CASE m = Empty
      <4>1. t[k] = Empty
        BY <1>1, <1>2 DEF Slot
      <4> QED
        BY <1>2, <3>2, <4>1 DEF Back, PartyIn
    <3> QED
      BY <1>3, <3>1, <3>2
  <2>2. \E l \in 1..((n + 1) + 1) : \A i \in Slot : i < l <=> t[i] # Empty
    BY <1>1
  <2>3. \A i \in Slot : t[i] # Empty => \E j \in 0..(n + 1) : s[j] = t[i] /\ (j = 0 \/ s[j] # u)
    BY DEF Kept
  <2>4. ASSUME NEW j \in 0..(n + 1), s[j] # Empty /\ (j = 0 \/ s[j] # u)
        PROVE  \E i \in Slot : t[i] = s[j]
    <3>1. j \in 0..n
      BY <1>3, <2>4
    <3> QED
      BY <2>4, <3>1 DEF Kept
  <2>5. ASSUME NEW i \in Slot, NEW j \in Slot, i < j, t[j] # Empty
        PROVE  \E p, q \in 0..(n + 1) : p < q /\ s[p] = t[i] /\ s[q] = t[j]
    BY <2>5 DEF Kept
  <2>6. Kept(s, u, n + 1, t)
    BY <1>2, <2>2, <2>3, <2>4, <2>5, ZenonT(30) DEF Kept
  <2> QED
    BY <2>1, <2>6
<1>4. CASE m # u /\ m # Empty
  <2>1. \A i \in Slot : t[i] # m
    <3> SUFFICES ASSUME NEW i \in Slot, t[i] = m PROVE FALSE
      OBVIOUS
    <3>1. PICK j \in 0..n : s[j] = m
      BY <1>4 DEF Kept
    <3>2. j \in Slot /\ j # n + 1
      BY DEF Slot
    <3> QED
      BY <1>2, <1>4, <3>1, <3>2 DEF Distinct
  <2>2. HasRoom(t) /\ FirstEmpty(t) = k
    <3>1. HasRoom(t)
      BY <1>1, <1>2 DEF HasRoom, Slot
    <3>2. /\ FirstEmpty(t) \in Slot /\ t[FirstEmpty(t)] = Empty
          /\ \A j \in 0..(FirstEmpty(t) - 1) : t[j] # Empty
      BY <3>1, FirstEmptyIs
    <3>3. ~(FirstEmpty(t) < k)
      BY <1>1, <3>2
    <3>4. ~(k < FirstEmpty(t))
      BY <1>1, <1>2, <3>2 DEF Slot
    <3> QED
      BY <1>2, <3>1, <3>2, <3>3, <3>4 DEF Slot
  <2>3. r = [t EXCEPT ![k] = m]
    BY <1>4, <2>1, <2>2 DEF Back, PartyIn, Put
  <2> HIDE DEF m, r
  <2>4. r \in Slots /\ r[k] = m /\ \A i \in Slot \ {k} : r[i] = t[i]
    BY <1>2, <2>3 DEF Slots
  <2>5. \A i \in Slot : i < k + 1 <=> r[i] # Empty
    BY <1>1, <1>2, <1>4, <2>4 DEF Slot
  <2>6. k + 1 \in 1..((n + 1) + 1)
    OBVIOUS
  <2>7. ASSUME NEW i \in Slot, r[i] # Empty
        PROVE  \E j \in 0..(n + 1) : s[j] = r[i] /\ (j = 0 \/ s[j] # u)
    <3>1. CASE i = k
      BY <1>4, <2>4, <3>1 DEF m
    <3>2. CASE i # k
      BY <2>4, <2>7, <3>2 DEF Kept
    <3> QED
      BY <3>1, <3>2
  <2>8. ASSUME NEW j \in 0..(n + 1), s[j] # Empty /\ (j = 0 \/ s[j] # u)
        PROVE  \E i \in Slot : r[i] = s[j]
    <3>1. CASE j = n + 1
      BY <1>2, <2>4, <3>1 DEF m
    <3>2. CASE j # n + 1
      <4>1. PICK i \in Slot : t[i] = s[j]
        BY <2>8, <3>2 DEF Kept
      <4>2. i # k
        BY <1>1, <1>2, <2>8, <4>1 DEF Slot
      <4> QED
        BY <2>4, <4>1, <4>2
    <3> QED
      BY <3>1, <3>2
  <2>9. ASSUME NEW i \in Slot, NEW j \in Slot, i < j, r[j] # Empty
        PROVE  \E p, q \in 0..(n + 1) : p < q /\ s[p] = r[i] /\ s[q] = r[j]
    <3>1. j < k + 1
      BY <2>5, <2>9
    <3>2. i # k /\ i < k /\ r[i] = t[i] /\ t[i] # Empty
      BY <1>1, <1>2, <2>4, <2>9, <3>1 DEF Slot
    <3>3. CASE j = k
      <4>1. PICK p \in 0..n : s[p] = t[i]
        BY <3>2 DEF Kept
      <4>2. p < n + 1 /\ p \in 0..(n + 1) /\ n + 1 \in 0..(n + 1)
        OBVIOUS
      <4> QED
        BY <2>4, <3>2, <3>3, <4>1, <4>2 DEF m
    <3>4. CASE j # k
      <4>1. r[j] = t[j]
        BY <2>4, <3>4
      <4>2. PICK p \in 0..n, q \in 0..n : p < q /\ s[p] = t[i] /\ s[q] = t[j]
        BY <2>9, <4>1 DEF Kept
      <4> QED
        BY <3>2, <4>1, <4>2
    <3> QED
      BY <3>3, <3>4
  <2>10. Kept(s, u, n + 1, r)
    BY <2>4, <2>5, <2>6, <2>7, <2>8, <2>9 DEF Kept
  <2> QED
    BY <2>10 DEF r, m
<1> QED
  BY <1>3, <1>4

LEMMA KeptFirst ==
  ASSUME NEW s \in Slots, s[0] # Empty, NEW u
  PROVE  Kept(s, u, 0, Cleared(s))
<1>1. /\ Cleared(s) \in Slots /\ Cleared(s)[0] = s[0]
      /\ \A i \in Slot : i # 0 => Cleared(s)[i] = Empty
  BY ClearedKeeps DEF Cleared, Slot, Mate
<1>2. \A i \in Slot : i < 1 <=> Cleared(s)[i] # Empty
  BY <1>1 DEF Slot
<1>3. 1 \in 1..(0 + 1)
  OBVIOUS
<1> QED
  BY <1>1, <1>2, <1>3 DEF Kept, Slot

\* partyout, slot by slot: what it leaves of a party.
LEMMA PartyOutKept ==
  ASSUME NEW s \in Slots, Distinct(s), s[0] # Empty, NEW u
  PROVE  Kept(s, u, 3, PartyOut(s, u))
<1> DEFINE a == Cleared(s)
           b == Back(a, s[1], u)
           c == Back(b, s[2], u)
<1>1. Kept(s, u, 0, a)
  BY KeptFirst
<1> HIDE DEF a
<1>2. Kept(s, u, 1, b)
  <2>1. Kept(s, u, 0 + 1, Back(a, s[0 + 1], u))
    BY <1>1, KeptNext
  <2> QED
    BY <2>1 DEF b
<1> HIDE DEF b
<1>3. Kept(s, u, 2, c)
  <2>1. Kept(s, u, 1 + 1, Back(b, s[1 + 1], u))
    BY <1>2, KeptNext
  <2> QED
    BY <2>1 DEF c
<1> HIDE DEF c
<1>4. Kept(s, u, 3, Back(c, s[3], u))
  <2>1. Kept(s, u, 2 + 1, Back(c, s[2 + 1], u))
    BY <1>3, KeptNext
  <2> QED
    BY <2>1
<1>5. PartyOut(s, u) = Back(c, s[3], u)
  BY PartyOutIs DEF a, b, c
<1> QED
  BY <1>4, <1>5

\* partyout takes out the mate it is told and nobody else, in whatever slots there
\* are gaps, and keeps the order.
THEOREM OutIsExactCorrect == PartySpec => []OutIsExact
<1>1. PartyInv => OutIsExact
  <2> SUFFICES ASSUME PartyInv, NEW u \in Args \cap Unit
               PROVE  /\ Members(PartyOut(slots, u)) = (Members(slots) \ {u}) \cup {Joker}
                      /\ \A a, b \in Members(PartyOut(slots, u)) :
                           InFrontOf(slots, a, b) => InFrontOf(PartyOut(slots, u), a, b)
    BY DEF OutIsExact
  <2> DEFINE t == PartyOut(slots, u)
  <2>1. slots \in Slots /\ slots[0] = Joker /\ Joker # Empty /\ Distinct(slots)
    BY DEF PartyInv, PartyTypeOK, NobodyTwice, Slots, Joker, Empty
  <2>2. Kept(slots, u, 3, t)
    BY <2>1, PartyOutKept
  <2> HIDE DEF t
  <2>3. 0..3 = Slot
    BY DEF Slot
  <2>4. ASSUME NEW m \in Members(t) PROVE m \in (Members(slots) \ {u}) \cup {Joker}
    <3>1. PICK i \in Slot : t[i] = m /\ m # Empty
      BY DEF Members
    <3>2. PICK j \in Slot : slots[j] = m /\ (j = 0 \/ slots[j] # u)
      BY <2>2, <2>3, <3>1 DEF Kept
    <3> QED
      BY <2>1, <3>1, <3>2 DEF Members
  <2>5. ASSUME NEW m \in (Members(slots) \ {u}) \cup {Joker} PROVE m \in Members(t)
    <3>1. PICK j \in Slot : slots[j] = m /\ m # Empty /\ (j = 0 \/ slots[j] # u)
      BY <2>1 DEF Members, Slot
    <3>2. PICK i \in Slot : t[i] = m
      BY <2>2, <2>3, <3>1 DEF Kept
    <3> QED
      BY <3>1, <3>2 DEF Members
  <2>6. ASSUME NEW a \in Members(t), NEW b \in Members(t), InFrontOf(slots, a, b)
        PROVE  InFrontOf(t, a, b)
    <3>1. PICK i \in Slot, j \in Slot : t[i] = a /\ t[j] = b /\ a # Empty /\ b # Empty
      BY DEF Members
    <3>2. PICK p \in Slot, q \in Slot : p < q /\ slots[p] = a /\ slots[q] = b
      BY <2>6 DEF InFrontOf
    <3>3. i # j
      BY <2>1, <3>1, <3>2 DEF Distinct, Slot
    <3>4. ~(j < i)
      <4> SUFFICES ASSUME j < i PROVE FALSE
        OBVIOUS
      <4>1. PICK x \in Slot, y \in Slot : x < y /\ slots[x] = b /\ slots[y] = a
        BY <2>2, <2>3, <3>1 DEF Kept
      <4>2. x = q /\ y = p
        BY <2>1, <3>1, <3>2, <4>1 DEF Distinct
      <4> QED
        BY <3>2, <4>1, <4>2 DEF Slot
    <3>5. i < j
      BY <3>3, <3>4 DEF Slot
    <3> QED
      BY <3>1, <3>5 DEF InFrontOf
  <2> QED
    BY <2>4, <2>5, <2>6 DEF t
<1> QED
  BY <1>1, PartyInvariant, PTL

(***************************************************************************)
(* Battles.                                                                *)
(***************************************************************************)
PlaceInv == config \in Configs /\ mode \in Place

\* Joker has HP until he is spared, and again when the battle ends.
LifeInv ==
  /\ foes \in 0..MaxFoes /\ down \subseteq Unit \ {Joker}
  /\ jokerHP \in 0..2 /\ jokerAilment \in BOOLEAN
  /\ mode \in {"field", "starting", "loaded"} => jokerHP # 0
  /\ mode = "fighting" => config.PreventJokerGameOver \/ jokerHP # 0
  /\ mode = "ending" => jokerHP # 0 \/ isPreventGameOver
  /\ mode = "over" /\ config.PreventJokerGameOver /\ JokerDown => ~SomeMateStands

\* The flags of a contact are those of the contact whose theme is owed.
MusicInv ==
  /\ isAmbush \in BOOLEAN /\ isAmbushed \in BOOLEAN
  /\ bgm \in {"own", "ambush", "ambushed"} /\ owed \in Kind
  /\ isAmbush => owed = "ambush"
  /\ isAmbushed => owed = "ambushed"

RoundsInv ==
  /\ isChallengeBtl \in BOOLEAN /\ isRound3 \in BOOLEAN /\ splash \in {"plain", "round2", "round3"}
  /\ isRound3 => isChallengeBtl /\ splash = "round2"

\* Nobody but the script that asks makes the request.
AskedInv == asked \in BOOLEAN /\ isPreventGameOver = asked

ActorInv == currentActingUnit \in Unit \cup {Foe} /\ NoActorAfterBattle

OutfitInv == randomizedCombatOutfit \in BOOLEAN /\ byContact \in BOOLEAN /\ OutfitsKept

BattleInv ==
  /\ PartyInv /\ PlaceInv /\ LifeInv /\ MusicInv
  /\ RoundsInv /\ AskedInv /\ ActorInv /\ OutfitInv

\* What types need of units.
LEMMA Units ==
  /\ NoUnit \in Unit /\ Joker \in Unit /\ Empty \in Unit
  /\ Joker # Empty /\ Joker # Foe /\ Foe \notin Unit
  /\ 0 \in Slot
BY DEF NoUnit, Joker, Empty, Foe, Unit, LastUnit, Slot

LEMMA MembersAreUnits ==
  ASSUME PartyTypeOK
  PROVE  /\ Members(slots) \subseteq Unit \ {Empty}
         /\ slots[0] = Joker
BY DEF PartyTypeOK, Members

\* Falling is external: whoever falls, the question of the end comes next.
LEMMA FallKeepsLife ==
  ASSUME PartyTypeOK, LifeInv, NEW u \in Members(slots) \cup {Foe}, Fall(u)
  PROVE  LifeInv'
<1>1. mode' = "checking"
  BY DEF Fall
<1>2. CASE u = Foe
  <2>1. foes > 0 /\ foes' = foes - 1 /\ down' = down /\ jokerHP' = jokerHP /\ jokerAilment' = jokerAilment
    BY <1>2, Units, MembersAreUnits DEF Fall
  <2>2. foes' \in 0..MaxFoes
    BY <2>1, BattleAssumption DEF LifeInv
  <2> QED
    BY <1>1, <2>1, <2>2 DEF LifeInv
<1>3. CASE u = Joker
  <2>1. foes' = foes /\ down' = down /\ jokerHP' = 0
    BY <1>3, Units DEF Fall
  <2>2. jokerHP' \in 0..2
    BY <2>1
  <2>3. jokerAilment' \in BOOLEAN
    BY <1>3, Units DEF Fall
  <2> QED
    BY <1>1, <2>1, <2>2, <2>3 DEF LifeInv
<1>4. CASE u # Foe /\ u # Joker
  BY <1>1, <1>4, Units, MembersAreUnits DEF Fall, LifeInv
<1> QED
  BY <1>2, <1>3, <1>4

LEMMA RiseKeepsLife ==
  ASSUME LifeInv, NEW u \in Members(slots), Rise(u)
  PROVE  LifeInv'
<1>1. mode' = "fighting"
  BY DEF Rise
<1>2. CASE u = Joker
  <2>1. foes' = foes /\ down' = down /\ jokerHP' = 2 /\ jokerHP' \in 0..2 /\ jokerHP' # 0
    BY <1>2 DEF Rise
  <2>2. jokerAilment' \in BOOLEAN
    BY <1>2 DEF Rise
  <2> QED
    BY <1>1, <2>1, <2>2 DEF LifeInv
<1>3. CASE u # Joker
  BY <1>1, <1>3 DEF Rise, LifeInv
<1> QED
  BY <1>2, <1>3

\* An escape stands a spared Joker up; without the toggle a battle with a fallen
\* Joker is over before.
LEMMA EscapeKeepsLife ==
  ASSUME LifeInv, Escape
  PROVE  LifeInv'
<1>1. mode = "fighting" /\ mode' = "ending" /\ foes' = foes /\ down' = down
  BY DEF Escape
<1>2. CASE JokerDown /\ config.PreventJokerGameOver
  <2>1. jokerHP' \in 0..2 /\ jokerHP' # 0
    BY <1>2 DEF Escape, StandUp
  <2>2. jokerAilment' \in BOOLEAN
    BY <1>2 DEF Escape, StandUp
  <2> QED
    BY <1>1, <2>1, <2>2 DEF LifeInv
<1>3. CASE ~(JokerDown /\ config.PreventJokerGameOver)
  BY <1>1, <1>3 DEF Escape, LifeInv, JokerDown
<1> QED
  BY <1>2, <1>3

\* A prevented defeat is the one end with Joker at 0 HP.
LEMMA BattleEndKeepsLife ==
  ASSUME LifeInv, BattleEndSkillChecks
  PROVE  LifeInv'
<1>1. mode = "ending" /\ mode' = "field" /\ foes' = 0 /\ down' = {}
  BY DEF BattleEndSkillChecks
<1>2. jokerHP' \in 0..2 /\ jokerHP' # 0
  BY <1>1 DEF BattleEndSkillChecks, HPAfterBattle, LifeInv
<1>3. jokerAilment' \in BOOLEAN
  BY DEF BattleEndSkillChecks, LifeInv
<1> QED
  BY <1>1, <1>2, <1>3, BattleAssumption DEF LifeInv

LEMMA LoadSaveKeepsLife ==
  ASSUME LifeInv, LoadSave
  PROVE  LifeInv'
<1>1. mode' = "loaded" /\ foes' = 0 /\ down' = {}
  BY DEF LoadSave
<1>2. jokerHP' \in 0..2 /\ jokerHP' # 0
  BY DEF LoadSave
<1>3. jokerAilment' \in BOOLEAN
  BY DEF LoadSave
<1> QED
  BY <1>1, <1>2, <1>3, BattleAssumption DEF LifeInv

\* The hook finds a battle with a fallen Joker over only when nobody stands, or with
\* him standing up.
LEMMA HookKeepsLife ==
  ASSUME LifeInv, FUN_006a75c4Hook
  PROVE  LifeInv'
<1>1. mode = "checking" /\ foes' = foes /\ down' = down /\ config' = config /\ slots' = slots
  BY DEF FUN_006a75c4Hook
<1>2. CASE Spared /\ foes = 0
  <2>0. IsOver
    BY <1>2 DEF IsOver
  <2>1. mode' = "over" /\ jokerHP' = 1 /\ jokerHP' \in 0..2
    BY <1>2, <2>0 DEF FUN_006a75c4Hook, StandUp
  <2>2. jokerAilment' \in BOOLEAN /\ ~jokerAilment'
    BY <1>2 DEF FUN_006a75c4Hook, StandUp
  <2>3. ~JokerDown'
    BY <2>1, <2>2 DEF JokerDown
  <2> QED
    BY <1>1, <2>1, <2>2, <2>3 DEF LifeInv
<1>3. CASE Spared /\ foes # 0
  <2>1. ~IsOver /\ config.PreventJokerGameOver
    BY <1>3 DEF IsOver, Spared
  <2>2. mode' = "fighting"
    BY <2>1 DEF FUN_006a75c4Hook
  <2> QED
    BY <1>1, <1>3, <2>1, <2>2 DEF FUN_006a75c4Hook, LifeInv
<1>4. CASE ~Spared
  <2>1. jokerHP' = jokerHP /\ jokerAilment' = jokerAilment
    BY <1>4 DEF FUN_006a75c4Hook
  <2>2. JokerDown' = JokerDown /\ SomeMateStands' = SomeMateStands
    BY <1>1, <2>1 DEF JokerDown, SomeMateStands, isPlayerUnitDead
  <2>3. IsOver <=> JokerDown \/ foes = 0
    BY <1>4 DEF IsOver, OriginalIsOver
  <2>4. mode' = "over" \/ (mode' = "fighting" /\ ~JokerDown)
    BY <2>3 DEF FUN_006a75c4Hook
  <2> QED
    BY <1>1, <1>4, <2>1, <2>2, <2>4 DEF LifeInv, Spared, JokerDown
<1> QED
  BY <1>2, <1>3, <1>4

\* No hook touches the slots; the console does by its commands.
LEMMA SlotsByCommand ==
  ASSUME Next
  PROVE  [PartyNext]_slots
BY DEF Next, Contact, CallEncounter, CheckIsEncounterAmbush, LoadDLCBGM,
     SetUpEncounterFlags, EX_PREVENT_PLAYER_LOSS, EX_SET_CHALLENGE_BATTLE, LoadEPL,
     StartTurn, LeaveStage, Fall, Rise, FUN_006a75c4Hook, CheckAllPartyMembersDead,
     Escape, VictoryMusic, BattleEndSkillChecks, LoadSave, Console

\* Every action, and the conjuncts it disturbs.
LEMMA BattleStep ==
  ASSUME BattleInv, [Next]_vars
  PROVE  BattleInv'
<1> USE DEF life, music, rounds, loss, outfits
<1>1. /\ PartyTypeOK /\ PartyInv /\ PlaceInv /\ LifeInv /\ MusicInv
      /\ RoundsInv /\ AskedInv /\ ActorInv /\ OutfitInv
  BY DEF BattleInv, PartyInv
<1>2. PartyInv'
  BY <1>1, SlotsByCommand, PartyStep DEF vars
<1> DEFINE Rest == /\ PlaceInv /\ LifeInv /\ MusicInv /\ RoundsInv
                   /\ AskedInv /\ ActorInv /\ OutfitInv
<1>3. ASSUME NEW kind \in Kind, Contact(kind) PROVE Rest'
  <2>1. MusicInv'
    BY <1>1, <1>3 DEF Contact, OnField, Flag, MusicInv, Kind
  <2>2. OutfitInv'
    BY <1>1, <1>3 DEF Contact, OnField, MayRedress, OutfitInv, OutfitsKept
  <2>3. LifeInv'
    BY <1>1, <1>3, Units DEF Contact, OnField, LifeInv, JokerDown
  <2>4. PlaceInv' /\ RoundsInv' /\ AskedInv' /\ ActorInv'
    BY <1>1, <1>3 DEF Contact, OnField, PlaceInv, Place, RoundsInv, AskedInv, ActorInv,
         NoActorAfterBattle
  <2> QED
    BY <2>1, <2>2, <2>3, <2>4
<1>4. ASSUME CallEncounter PROVE Rest'
  <2>1. LifeInv'
    BY <1>1, <1>4, Units DEF CallEncounter, OnField, LifeInv, JokerDown
  <2>2. OutfitInv'
    BY <1>1, <1>4 DEF CallEncounter, OnField, OutfitInv, OutfitsKept
  <2>3. PlaceInv' /\ MusicInv' /\ RoundsInv' /\ AskedInv' /\ ActorInv'
    BY <1>1, <1>4 DEF CallEncounter, OnField, PlaceInv, Place, MusicInv, Kind, RoundsInv,
         AskedInv, ActorInv, NoActorAfterBattle
  <2> QED
    BY <2>1, <2>2, <2>3
<1>5. ASSUME CheckIsEncounterAmbush PROVE Rest'
  <2>1. LifeInv'
    BY <1>1, <1>5, Units DEF CheckIsEncounterAmbush, LifeInv, JokerDown
  <2>2. OutfitInv'
    BY <1>1, <1>5 DEF CheckIsEncounterAmbush, MayRedress, OutfitInv, OutfitsKept
  <2>3. PlaceInv' /\ MusicInv' /\ RoundsInv' /\ AskedInv' /\ ActorInv'
    BY <1>1, <1>5 DEF CheckIsEncounterAmbush, PlaceInv, Place, MusicInv, Kind, RoundsInv,
         AskedInv, ActorInv, NoActorAfterBattle
  <2> QED
    BY <2>1, <2>2, <2>3
<1>6. ASSUME NEW dlc \in BOOLEAN, LoadDLCBGM(dlc) PROVE Rest'
  <2>1. MusicInv'
    BY <1>1, <1>6 DEF LoadDLCBGM, Forgotten, MusicInv, Kind
  <2>2. LifeInv'
    BY <1>1, <1>6, Units DEF LoadDLCBGM, ScriptsRun, LifeInv, JokerDown
  <2>3. PlaceInv' /\ RoundsInv' /\ AskedInv' /\ ActorInv' /\ OutfitInv'
    BY <1>1, <1>6 DEF LoadDLCBGM, PlaceInv, Place, RoundsInv, AskedInv, ActorInv,
         NoActorAfterBattle, OutfitInv, OutfitsKept
  <2> QED
    BY <2>1, <2>2, <2>3
<1>7. ASSUME NEW lastSurprise \in BOOLEAN, NEW dlc \in BOOLEAN, SetUpEncounterFlags(lastSurprise, dlc)
      PROVE  Rest'
  <2>1. LifeInv'
    BY <1>1, <1>7, Units, BattleAssumption DEF SetUpEncounterFlags, NotPrevented,
         LifeInv, JokerDown
  <2>2. MusicInv'
    BY <1>1, <1>7 DEF SetUpEncounterFlags, Theme, Forgotten, MusicInv, Kind
  <2>3. RoundsInv'
    BY <1>1, <1>7 DEF SetUpEncounterFlags, RoundsReset, RoundsInv
  <2>4. AskedInv'
    BY <1>1, <1>7 DEF SetUpEncounterFlags, NotPrevented, AskedInv
  <2>5. PlaceInv' /\ ActorInv' /\ OutfitInv'
    BY <1>1, <1>7, Units DEF SetUpEncounterFlags, PlaceInv, Place, ActorInv,
         NoActorAfterBattle, OutfitInv, OutfitsKept
  <2> QED
    BY <2>1, <2>2, <2>3, <2>4, <2>5
<1>8. ASSUME EX_PREVENT_PLAYER_LOSS PROVE Rest'
  <2>1. LifeInv'
    BY <1>1, <1>8, Units DEF EX_PREVENT_PLAYER_LOSS, ScriptsRun, LifeInv, JokerDown
  <2>2. AskedInv'
    BY <1>1, <1>8 DEF EX_PREVENT_PLAYER_LOSS, AskedInv
  <2>3. PlaceInv' /\ MusicInv' /\ RoundsInv' /\ ActorInv' /\ OutfitInv'
    BY <1>1, <1>8 DEF EX_PREVENT_PLAYER_LOSS, PlaceInv, Place, MusicInv, Kind, RoundsInv,
         ActorInv, NoActorAfterBattle, OutfitInv, OutfitsKept
  <2> QED
    BY <2>1, <2>2, <2>3
<1>9. ASSUME EX_SET_CHALLENGE_BATTLE PROVE Rest'
  <2>1. RoundsInv'
    BY <1>1, <1>9 DEF EX_SET_CHALLENGE_BATTLE, RoundsInv
  <2>2. LifeInv'
    BY <1>1, <1>9, Units DEF EX_SET_CHALLENGE_BATTLE, ScriptsRun, LifeInv, JokerDown
  <2>3. PlaceInv' /\ MusicInv' /\ AskedInv' /\ ActorInv' /\ OutfitInv'
    BY <1>1, <1>9 DEF EX_SET_CHALLENGE_BATTLE, PlaceInv, Place, MusicInv, Kind, AskedInv,
         ActorInv, NoActorAfterBattle, OutfitInv, OutfitsKept
  <2> QED
    BY <2>1, <2>2, <2>3
<1>10. ASSUME LoadEPL PROVE Rest'
  <2>1. RoundsInv'
    BY <1>1, <1>10 DEF LoadEPL, RoundsInv
  <2>2. LifeInv'
    BY <1>1, <1>10, Units DEF LoadEPL, LifeInv, JokerDown
  <2>3. PlaceInv' /\ MusicInv' /\ AskedInv' /\ ActorInv' /\ OutfitInv'
    BY <1>1, <1>10 DEF LoadEPL, PlaceInv, Place, MusicInv, Kind, AskedInv, ActorInv,
         NoActorAfterBattle, OutfitInv, OutfitsKept
  <2> QED
    BY <2>1, <2>2, <2>3
<1>11. ASSUME NEW u \in Members(slots) \cup {Foe}, StartTurn(u) PROVE Rest'
  <2>1. ActorInv'
    BY <1>1, <1>11, Units, MembersAreUnits DEF StartTurn, ActorInv, NoActorAfterBattle
  <2>2. LifeInv'
    BY <1>1, <1>11, Units DEF StartTurn, LifeInv, JokerDown
  <2>3. PlaceInv' /\ MusicInv' /\ RoundsInv' /\ AskedInv' /\ OutfitInv'
    BY <1>1, <1>11 DEF StartTurn, PlaceInv, Place, MusicInv, Kind, RoundsInv, AskedInv,
         OutfitInv, OutfitsKept
  <2> QED
    BY <2>1, <2>2, <2>3
<1>12. ASSUME LeaveStage PROVE Rest'
  <2>1. ActorInv'
    BY <1>1, <1>12, Units, MembersAreUnits DEF LeaveStage, ActorInv, NoActorAfterBattle
  <2>2. LifeInv'
    BY <1>1, <1>12, Units DEF LeaveStage, LifeInv, JokerDown
  <2>3. PlaceInv' /\ MusicInv' /\ RoundsInv' /\ AskedInv' /\ OutfitInv'
    BY <1>1, <1>12 DEF LeaveStage, PlaceInv, Place, MusicInv, Kind, RoundsInv, AskedInv,
         OutfitInv, OutfitsKept
  <2> QED
    BY <2>1, <2>2, <2>3
<1>13. ASSUME NEW u \in Members(slots) \cup {Foe}, Fall(u) PROVE Rest'
  <2>1. LifeInv'
    BY <1>1, <1>13, FallKeepsLife
  <2>2. PlaceInv' /\ MusicInv' /\ RoundsInv' /\ AskedInv' /\ ActorInv' /\ OutfitInv'
    BY <1>1, <1>13 DEF Fall, PlaceInv, Place, MusicInv, Kind, RoundsInv, AskedInv,
         ActorInv, NoActorAfterBattle, OutfitInv, OutfitsKept
  <2> QED
    BY <2>1, <2>2
<1>14. ASSUME NEW u \in Members(slots), Rise(u) PROVE Rest'
  <2>1. LifeInv'
    BY <1>1, <1>14, RiseKeepsLife
  <2>2. PlaceInv' /\ MusicInv' /\ RoundsInv' /\ AskedInv' /\ ActorInv' /\ OutfitInv'
    BY <1>1, <1>14 DEF Rise, PlaceInv, Place, MusicInv, Kind, RoundsInv, AskedInv,
         ActorInv, NoActorAfterBattle, OutfitInv, OutfitsKept
  <2> QED
    BY <2>1, <2>2
<1>15. ASSUME FUN_006a75c4Hook PROVE Rest'
  <2>1. LifeInv'
    BY <1>1, <1>15, HookKeepsLife
  <2>2. PlaceInv' /\ MusicInv' /\ RoundsInv' /\ AskedInv' /\ ActorInv' /\ OutfitInv'
    BY <1>1, <1>15 DEF FUN_006a75c4Hook, PlaceInv, Place, MusicInv, Kind, RoundsInv,
         AskedInv, ActorInv, NoActorAfterBattle, OutfitInv, OutfitsKept
  <2> QED
    BY <2>1, <2>2
<1>16. ASSUME CheckAllPartyMembersDead PROVE Rest'
  <2>1. LifeInv'
    BY <1>1, <1>16, Units, MembersAreUnits DEF CheckAllPartyMembersDead,
         isPlayerUnitDead, LifeInv, JokerDown
  <2>2. PlaceInv' /\ MusicInv' /\ RoundsInv' /\ AskedInv' /\ ActorInv' /\ OutfitInv'
    BY <1>1, <1>16 DEF CheckAllPartyMembersDead, PlaceInv, Place, MusicInv, Kind,
         RoundsInv, AskedInv, ActorInv, NoActorAfterBattle, OutfitInv, OutfitsKept
  <2> QED
    BY <2>1, <2>2
<1>17. ASSUME Escape PROVE Rest'
  <2>1. LifeInv'
    BY <1>1, <1>17, EscapeKeepsLife
  <2>2. ActorInv'
    BY <1>1, <1>17, Units, MembersAreUnits DEF Escape, ActorInv, NoActorAfterBattle
  <2>3. PlaceInv' /\ MusicInv' /\ RoundsInv' /\ AskedInv' /\ OutfitInv'
    BY <1>1, <1>17 DEF Escape, PlaceInv, Place, MusicInv, Kind, RoundsInv, AskedInv,
         OutfitInv, OutfitsKept
  <2> QED
    BY <2>1, <2>2, <2>3
<1>18. ASSUME VictoryMusic PROVE Rest'
  <2>1. OutfitInv'
    BY <1>1, <1>18 DEF VictoryMusic, MayRedress, OutfitInv, OutfitsKept
  <2>2. ActorInv'
    BY <1>1, <1>18, Units, MembersAreUnits DEF VictoryMusic, ActorInv, NoActorAfterBattle
  <2>3. LifeInv'
    BY <1>1, <1>18, Units DEF VictoryMusic, LifeInv, JokerDown
  <2>4. PlaceInv' /\ MusicInv' /\ RoundsInv' /\ AskedInv'
    BY <1>1, <1>18 DEF VictoryMusic, PlaceInv, Place, MusicInv, Kind, RoundsInv, AskedInv
  <2> QED
    BY <2>1, <2>2, <2>3, <2>4
<1>19. ASSUME BattleEndSkillChecks PROVE Rest'
  <2>1. LifeInv'
    BY <1>1, <1>19, BattleEndKeepsLife
  <2>2. OutfitInv'
    BY <1>1, <1>19 DEF BattleEndSkillChecks, MayRedress, OutfitInv, OutfitsKept
  <2>3. ActorInv'
    BY <1>1, <1>19, Units, MembersAreUnits DEF BattleEndSkillChecks, ActorLeaves,
         ActorInv, NoActorAfterBattle
  <2>4. PlaceInv' /\ MusicInv' /\ RoundsInv' /\ AskedInv'
    BY <1>1, <1>19 DEF BattleEndSkillChecks, PlaceInv, Place, MusicInv, Kind, RoundsInv,
         AskedInv
  <2> QED
    BY <2>1, <2>2, <2>3, <2>4
<1>20. ASSUME LoadSave PROVE Rest'
  <2>1. LifeInv'
    BY <1>1, <1>20, LoadSaveKeepsLife
  <2>2. PlaceInv' /\ MusicInv' /\ RoundsInv' /\ AskedInv' /\ ActorInv' /\ OutfitInv'
    BY <1>1, <1>20 DEF LoadSave, PlaceInv, Place, MusicInv, Kind, RoundsInv, AskedInv,
         ActorInv, NoActorAfterBattle, OutfitInv, OutfitsKept
  <2> QED
    BY <2>1, <2>2
<1>21. ASSUME Console PROVE Rest'
  <2>1. LifeInv'
    BY <1>1, <1>21, Units DEF Console, LifeInv, JokerDown
  <2>2. PlaceInv' /\ MusicInv' /\ RoundsInv' /\ AskedInv' /\ ActorInv' /\ OutfitInv'
    BY <1>1, <1>21 DEF Console, PlaceInv, Place, MusicInv, Kind, RoundsInv, AskedInv,
         ActorInv, NoActorAfterBattle, OutfitInv, OutfitsKept
  <2> QED
    BY <2>1, <2>2
<1>22. ASSUME UNCHANGED vars PROVE Rest'
  <2>1. LifeInv'
    BY <1>1, <1>22, Units, MembersAreUnits DEF vars, SomeMateStands, isPlayerUnitDead,
         LifeInv, JokerDown
  <2>2. PlaceInv' /\ MusicInv' /\ RoundsInv' /\ AskedInv' /\ ActorInv' /\ OutfitInv'
    BY <1>1, <1>22 DEF vars, PlaceInv, Place, MusicInv, Kind, RoundsInv, AskedInv,
         ActorInv, NoActorAfterBattle, OutfitInv, OutfitsKept
  <2> QED
    BY <2>1, <2>2
<1> QED
  BY <1>2, <1>3, <1>4, <1>5, <1>6, <1>7, <1>8, <1>9, <1>10, <1>11, <1>12, <1>13, <1>14,
       <1>15, <1>16, <1>17, <1>18, <1>19, <1>20, <1>21, <1>22 DEF Next, BattleInv

\* What the modules remember of encounters has the invariant, whatever encounters
\* follow one another, however they end.
THEOREM BattleInvariant == Spec => []BattleInv
<1>1. Init => BattleInv
  <2> SUFFICES ASSUME Init PROVE BattleInv
    OBVIOUS
  <2>1. PartyInv
    BY PartyStart DEF Init
  <2>2. PlaceInv /\ RoundsInv /\ AskedInv /\ OutfitInv
    BY DEF Init, PlaceInv, Place, RoundsInv, AskedInv, OutfitInv, OutfitsKept
  <2>3. LifeInv
    <3>1. foes \in 0..MaxFoes
      BY BattleAssumption DEF Init
    <3>2. down \subseteq Unit \ {Joker} /\ jokerAilment \in BOOLEAN
      BY DEF Init
    <3>3. mode = "field" /\ jokerHP \in 0..2 /\ jokerHP # 0
      BY DEF Init
    <3> QED
      BY <3>1, <3>2, <3>3 DEF LifeInv
  <2>4. MusicInv
    BY DEF Init, MusicInv, Kind
  <2>5. ActorInv
    BY Units DEF Init, ActorInv, NoActorAfterBattle
  <2> QED
    BY <2>1, <2>2, <2>3, <2>4, <2>5 DEF BattleInv
<1>2. BattleInv /\ [Next]_vars => BattleInv'
  BY BattleStep
<1> QED
  BY <1>1, <1>2, PTL DEF Spec

\* The variables keep their types.
THEOREM TypeCorrect == Spec => []TypeOK
<1>1. BattleInv => TypeOK
  BY DEF BattleInv, PartyInv, PlaceInv, LifeInv, MusicInv, RoundsInv, AskedInv, ActorInv,
         OutfitInv, TypeOK
<1> QED
  BY <1>1, BattleInvariant, PTL

\* From a contact to the victory no field draws new outfits.
THEOREM OutfitsKeptCorrect == Spec => []OutfitsKept
<1>1. BattleInv => OutfitsKept
  BY DEF BattleInv, OutfitInv
<1> QED
  BY <1>1, BattleInvariant, PTL

\* Joker has HP on the field.
THEOREM JokerWalksAwayCorrect == Spec => []JokerWalksAway
<1>1. BattleInv => JokerWalksAway
  BY DEF BattleInv, LifeInv, JokerWalksAway
<1> QED
  BY <1>1, BattleInvariant, PTL

\* A battle that ends without a game over leaves no acting unit.
THEOREM NoActorAfterBattleCorrect == Spec => []NoActorAfterBattle
<1>1. BattleInv => NoActorAfterBattle
  BY DEF BattleInv, ActorInv
<1> QED
  BY <1>1, BattleInvariant, PTL

\* Themes are those of the last contact that called for one, and played once.
THEOREM ThemeIsOwedCorrect == Spec => ThemeIsOwed
<1>1. ASSUME BattleInv, NEW l \in BOOLEAN, NEW d \in BOOLEAN, SetUpEncounterFlags(l, d)
      PROVE  bgm' \in {"own", owed}
  BY <1>1 DEF BattleInv, MusicInv, SetUpEncounterFlags, Theme
<1>2. BattleInv =>
        [\A l, d \in BOOLEAN : SetUpEncounterFlags(l, d) => bgm' \in {"own", owed}]_vars
  BY <1>1
<1> QED
  BY <1>2, BattleInvariant, PTL DEF ThemeIsOwed

\* An outfit's music yields to a contact's theme by configuration only.
THEOREM OutfitMusicKeptCorrect == Spec => OutfitMusicKept
<1>1. ASSUME NEW l \in BOOLEAN, SetUpEncounterFlags(l, TRUE), bgm' # "own"
      PROVE  config.ambushOverDLC
  BY <1>1 DEF SetUpEncounterFlags, Theme, Forgotten
<1>2. [\A l \in BOOLEAN :
         SetUpEncounterFlags(l, TRUE) /\ bgm' # "own" => config.ambushOverDLC]_vars
  BY <1>1
<1> QED
  BY <1>2, PTL DEF OutfitMusicKept

\* The third round's splash follows the second's in the same encounter.
THEOREM RoundsInOrderCorrect == Spec => RoundsInOrder
<1>1. ASSUME BattleInv, Next, splash' = "round3" PROVE splash \in {"round2", "round3"}
  <2>1. LoadEPL \/ splash' = splash \/ splash' = "plain"
    BY <1>1 DEF Next, rounds, Contact, CallEncounter, CheckIsEncounterAmbush, LoadDLCBGM,
         SetUpEncounterFlags, RoundsReset, EX_PREVENT_PLAYER_LOSS, EX_SET_CHALLENGE_BATTLE,
         StartTurn, LeaveStage, Fall, Rise, FUN_006a75c4Hook, CheckAllPartyMembersDead, Escape,
         VictoryMusic, BattleEndSkillChecks, LoadSave, Console
  <2>2. LoadEPL => isRound3
    BY <1>1 DEF LoadEPL
  <2> QED
    BY <1>1, <2>1, <2>2 DEF BattleInv, RoundsInv
<1>2. BattleInv /\ [Next]_vars => [splash' = "round3" => splash \in {"round2", "round3"}]_vars
  BY <1>1
<1> QED
  BY <1>2, BattleInvariant, PTL DEF Spec, RoundsInOrder

\* Whether a defeat is a game over is decided by the request of this encounter's
\* script, and by nothing else.
THEOREM PreventedWhereAskedCorrect == Spec => PreventedWhereAsked
<1>1. ASSUME BattleInv, CheckAllPartyMembersDead
      PROVE  mode' = "gameover" <=> JokerDown /\ ~asked
  <2>1. isPlayerUnitDead(slots[0]) <=> JokerDown
    BY <1>1, Units, MembersAreUnits DEF BattleInv, PartyInv, LifeInv, isPlayerUnitDead
  <2>2. asked \in BOOLEAN /\ isPreventGameOver = asked
    BY <1>1 DEF BattleInv, AskedInv
  <2>3. mode' = (IF isPlayerUnitDead(slots[0]) /\ ~isPreventGameOver THEN "gameover" ELSE "ending")
    BY <1>1 DEF CheckAllPartyMembersDead
  <2> HIDE <1>1
  <2> QED
    BY <2>1, <2>2, <2>3
<1>2. BattleInv =>
        [CheckAllPartyMembersDead => (mode' = "gameover" <=> JokerDown /\ ~asked)]_vars
  BY <1>1
<1> QED
  BY <1>2, BattleInvariant, PTL DEF PreventedWhereAsked

\* With the toggle, the game is over when all have fallen, and a battle goes on with
\* somebody.
THEOREM OverWhenAllAreDownCorrect == Spec => OverWhenAllAreDown
<1> DEFINE Over == CheckAllPartyMembersDead /\ mode' = "gameover" =>
                     \A i \in Slot : isPlayerUnitDead(slots[i])
           GoesOn == FUN_006a75c4Hook /\ mode' = "fighting" =>
                     \E i \in Slot : ~isPlayerUnitDead(slots[i])
<1>1. ASSUME BattleInv, config.PreventJokerGameOver, CheckAllPartyMembersDead, mode' = "gameover"
      PROVE  \A i \in Slot : isPlayerUnitDead(slots[i])
  <2>1. mode = "over" /\ isPlayerUnitDead(slots[0])
    BY <1>1 DEF CheckAllPartyMembersDead
  <2>2. JokerDown
    BY <1>1, <2>1, Units, MembersAreUnits DEF BattleInv, PartyInv, LifeInv, isPlayerUnitDead
  <2>3. ~SomeMateStands
    BY <1>1, <2>1, <2>2 DEF BattleInv, LifeInv
  <2>4. ASSUME NEW i \in Slot, i # 0 PROVE i \in Mate
    BY <2>4 DEF Slot, Mate
  <2> QED
    BY <2>1, <2>3, <2>4 DEF SomeMateStands
<1>2. ASSUME BattleInv, FUN_006a75c4Hook, mode' = "fighting"
      PROVE  \E i \in Slot : ~isPlayerUnitDead(slots[i])
  <2>1. ~IsOver
    BY <1>2 DEF FUN_006a75c4Hook
  <2>2. CASE Spared
    BY <2>2 DEF Spared, SomeMateStands, Mate, Slot
  <2>3. CASE ~Spared
    <3>1. ~JokerDown
      BY <2>1, <2>3 DEF IsOver, OriginalIsOver
    <3> QED
      BY <1>2, <3>1, Units, MembersAreUnits DEF BattleInv, PartyInv, LifeInv, isPlayerUnitDead
  <2> QED
    BY <2>2, <2>3
<1>3. BattleInv => [config.PreventJokerGameOver => Over /\ GoesOn]_vars
  BY <1>1, <1>2
<1> QED
  BY <1>3, BattleInvariant, PTL DEF OverWhenAllAreDown

\* The music of a battle is its contact's or the outfit's, whatever contacts and
\* encounters came before (dc.c, SetUpEncounterFlags).
THEOREM ContactMusicCorrect == Spec => ContactMusic
BY ThemeIsOwedCorrect, OutfitMusicKeptCorrect DEF ContactMusic

\* Whichever way a battle ends, nothing of it is left on the field but what the
\* modules mean to keep.
THEOREM EncounterEndsCorrect == Spec => []EncounterEnds
<1>1. EncounterEnds <=> TypeOK /\ OutfitsKept /\ NoActorAfterBattle /\ JokerWalksAway
  BY DEF EncounterEnds
<1> QED
  BY <1>1, TypeCorrect, OutfitsKeptCorrect, NoActorAfterBattleCorrect, JokerWalksAwayCorrect, PTL
=============================================================================
