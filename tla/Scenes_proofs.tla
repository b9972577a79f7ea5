----------------------------- MODULE Scenes_proofs -----------------------------
(* Theorems about what happens outside of combat: shops, the calendar and    *)
(* the confidants, the files of the navigators, what a save says of Kasumi,  *)
(* and the data tables that are read when the game starts.                   *)
EXTENDS Shop, Daily, Guides, KasumiData, Tables, TLAPS, FiniteSetTheorems, WellFoundedInduction

(***************************************************************************)
(* Shops, for every set of shops and goods, every quantity and every purse  *)
(* a new player may have.                                                   *)
(***************************************************************************)

Price(o) == o.price * o.quantity
Pieces(o) == o.itemsPerUnit * o.quantity

\* What Choose has seen to when an order stands: it is of goods that the shop has,
\* the player can pay it, and the items fit or are there.
Orderly ==
    order # NoOrder =>
        /\ \E g \in Goods : /\ ShopID \in g.shops /\ order.id = g.id
                            /\ order.price = g.price /\ order.itemsPerUnit = g.itemsPerUnit
        /\ Price(order) \in Nat /\ Pieces(order) \in Nat
        /\ ShopID # UsedClothes => Price(order) <= SpendableMoney
        /\ IF ShopID = UsedClothes
           THEN Pieces(order) <= stocks[order.id]
           ELSE stocks[order.id] + Pieces(order) <= LastItem

\* The inductive invariant
ShopInv == /\ ShopTypeOK /\ NothingOwed /\ ItemsInRange /\ ShownIsOwned
           /\ Orderly

\* A byte is wide enough for what a shop may hand over.
LEMMA ByteHolds ==
    ASSUME NEW n \in 0..LastItem
    PROVE  Byte(n) = n
BY DEF Byte, LastItem

LEMMA ProductIsNat ==
    ASSUME NEW a \in Nat, NEW b \in Nat
    PROVE  a * b \in Nat
OBVIOUS

\* Reading and spending name the same currency, in every shop.
LEMMA SameCurrency ==
    ASSUME NEW shop
    PROVE  ReadFrom(shop) = SpentIn(shop) /\ SpentIn(shop) \in Currencies
BY DEF ReadFrom, SpentIn, Currencies

LEMMA ShopInitial == ShopInit => ShopInv
<1> SUFFICES ASSUME ShopInit PROVE ShopInv
    OBVIOUS
<1>1. Funds \in Nat
    BY ShopAssumption
<1>2. /\ wallet = [c \in Currencies |-> Funds] /\ stocks = [i \in ItemIDs |-> 0]
      /\ ShopID = NoShop /\ SpendableMoney = 0 /\ order = NoOrder
    BY DEF ShopInit
<1>3. ShopTypeOK
    BY <1>1, <1>2 DEF ShopTypeOK
<1> QED
    BY <1>1, <1>2, <1>3 DEF ShopInv, NothingOwed, ItemsInRange, ShownIsOwned, Orderly, LastItem

\* With no shop open there is no order, and an order is never of nothing.
LEMMA OrderIsInShop ==
    ASSUME ShopTypeOK, order # NoOrder
    PROVE  /\ ShopID # NoShop
           /\ order.id \in ItemIDs
           /\ ShopID = UsedClothes => order.id \in Returnable
<1>1. PICK g \in Goods, n \in Quantities :
          /\ ShopID \in g.shops
          /\ order = [id |-> g.id, price |-> g.price,
                      itemsPerUnit |-> g.itemsPerUnit, quantity |-> n]
    BY DEF ShopTypeOK
<1>2. g.shops \subseteq 0..89 /\ (UsedClothes \in g.shops => g.id \in Returnable)
    BY <1>1, ShopAssumption
<1> QED
    BY <1>1, <1>2 DEF NoShop, ItemIDs

LEMMA FindStep ==
    ASSUME ShopInv, NEW id \in ItemIDs, Find(id)
    PROVE  ShopInv'
<1>1. /\ stocks \in [ItemIDs -> Int] /\ stocks[id] \in 0..LastItem
      /\ \A i \in ItemIDs : stocks[i] \in 0..LastItem
    BY DEF ShopInv, ShopTypeOK, ItemsInRange
<1>2. /\ UNCHANGED <<wallet, ShopID, SpendableMoney, order>> /\ ShopID = NoShop
      /\ stocks' = [stocks EXCEPT ![id] = @ + Finds] /\ stocks[id] + Finds <= LastItem
    BY DEF Find
<1>3. Finds \in 1..LastItem
    BY ShopAssumption
<1>4. order = NoOrder
    BY <1>2, OrderIsInShop DEF ShopInv
<1>5. stocks' \in [ItemIDs -> Int] /\ \A i \in ItemIDs : stocks'[i] \in 0..LastItem
    BY <1>1, <1>2, <1>3 DEF LastItem
<1>6. ShopTypeOK' /\ ItemsInRange'
    BY <1>2, <1>4, <1>5 DEF ShopInv, ShopTypeOK, ItemsInRange, NoShop
<1>7. NothingOwed' /\ ShownIsOwned' /\ Orderly'
    BY <1>2, <1>4 DEF ShopInv, NothingOwed, ShownIsOwned, Orderly
<1> QED
    BY <1>6, <1>7 DEF ShopInv

LEMMA VisitStep ==
    ASSUME ShopInv, NEW shop \in ShopIDs, Visit(shop)
    PROVE  ShopInv'
<1>1. /\ UNCHANGED <<wallet, stocks, order>> /\ ShopID = NoShop /\ ShopID' = shop
      /\ SpendableMoney' = wallet[SpentIn(shop)]
    BY SameCurrency DEF Visit, ReturnSpendableCurrency
<1>2. order = NoOrder
    BY <1>1, OrderIsInShop DEF ShopInv
<1>3. SpendableMoney' \in Int
    BY <1>1, SameCurrency DEF ShopInv, ShopTypeOK
<1>4. ShopTypeOK' /\ ItemsInRange' /\ NothingOwed'
    BY <1>1, <1>2, <1>3 DEF ShopInv, ShopTypeOK, ItemsInRange, NothingOwed
<1>5. ShownIsOwned' /\ Orderly'
    BY <1>1, <1>2 DEF ShownIsOwned, Orderly
<1> QED
    BY <1>4, <1>5 DEF ShopInv

LEMMA ChooseStep ==
    ASSUME ShopInv, NEW g \in Goods, NEW n \in Quantities, Choose(g, n)
    PROVE  ShopInv'
<1>1. /\ UNCHANGED <<wallet, stocks, ShopID>> /\ ShopID \in g.shops
      /\ SpendableMoney' = Allowance /\ n * g.price <= SpendableMoney'
      /\ InverseItemPurchaseLimit(g.id) + n * g.itemsPerUnit <= LastItem
      /\ order' = [id |-> g.id, price |-> g.price,
                   itemsPerUnit |-> g.itemsPerUnit, quantity |-> n]
    BY DEF Choose
<1>2. /\ n \in Nat /\ g.price \in Nat /\ g.itemsPerUnit \in Nat
      /\ g.id \in Returnable <=> g.shops = {UsedClothes}
      /\ UsedClothes \in g.shops => g.shops = {UsedClothes} /\ g.itemsPerUnit = 1
    BY ShopAssumption DEF LastItem
<1>3. /\ g.price * n = n * g.price /\ g.itemsPerUnit * n = n * g.itemsPerUnit
      /\ g.price * n \in Nat /\ g.itemsPerUnit * n \in Nat
    BY <1>2, ProductIsNat
<1>4. /\ order'.id = g.id /\ order'.price = g.price /\ order'.itemsPerUnit = g.itemsPerUnit
      /\ order'.quantity = n
    BY <1>1
<1>5. Price(order') = g.price * n /\ Pieces(order') = g.itemsPerUnit * n
    BY <1>4 DEF Price, Pieces
<1>6. stocks[g.id] \in 0..LastItem
    BY DEF ShopInv, ItemsInRange, ItemIDs
<1>7. SpendableMoney' \in Int /\ (ShopID # UsedClothes => SpendableMoney' = SpendableMoney)
    BY <1>1 DEF Allowance, ShopInv, ShopTypeOK
<1>8. Pieces(order') + InverseItemPurchaseLimit(g.id) <= LastItem
    BY <1>1, <1>3, <1>5, <1>6, <1>2 DEF InverseItemPurchaseLimit, LastItem
<1>9. IF ShopID = UsedClothes THEN Pieces(order') <= stocks[g.id]
                              ELSE stocks[g.id] + Pieces(order') <= LastItem
    <2>1. CASE ShopID = UsedClothes
        <3>1. g.id \in Returnable
            BY <1>1, <1>2, <2>1
        <3>2. InverseItemPurchaseLimit(g.id) = LastItem - stocks[g.id]
            BY <3>1 DEF InverseItemPurchaseLimit
        <3> QED
            BY <1>3, <1>5, <1>6, <1>8, <2>1, <3>2 DEF LastItem
    <2>2. CASE ShopID # UsedClothes
        <3>1. g.id \notin Returnable
            BY <1>1, <1>2, <2>2
        <3>2. InverseItemPurchaseLimit(g.id) = stocks[g.id]
            BY <3>1 DEF InverseItemPurchaseLimit
        <3> QED
            BY <1>3, <1>5, <1>6, <1>8, <2>2, <3>2 DEF LastItem
    <2> QED
        BY <2>1, <2>2
<1>10. Orderly'
    <2>1. Price(order') <= SpendableMoney'
        BY <1>1, <1>3, <1>5
    <2>2. Price(order)' = Price(order') /\ Pieces(order)' = Pieces(order')
        BY DEF Price, Pieces
    <2> QED
        BY <1>1, <1>3, <1>4, <1>5, <1>9, <2>1, <2>2 DEF Orderly
<1>11. ShopTypeOK'
    BY <1>1, <1>7 DEF ShopInv, ShopTypeOK
<1>12. NothingOwed' /\ ItemsInRange' /\ ShownIsOwned'
    BY <1>1, <1>7 DEF ShopInv, NothingOwed, ItemsInRange, ShownIsOwned
<1> QED
    BY <1>10, <1>11, <1>12 DEF ShopInv

\* What a purchase comes to: its price and its pieces, one way or the other.
LEMMA BuyIs ==
    ASSUME ShopInv, Buy
    PROVE  /\ order.id \in ItemIDs /\ SpentIn(ShopID) \in Currencies
           /\ wallet' = [wallet EXCEPT ![SpentIn(ShopID)] = @ - Signed(Price(order))]
           /\ stocks' = [stocks EXCEPT ![order.id] = @ + Signed(Pieces(order))]
           /\ SpendableMoney' = wallet'[SpentIn(ShopID)]
           /\ wallet[SpentIn(ShopID)] - Signed(Price(order)) \in Nat
           /\ stocks[order.id] + Signed(Pieces(order)) \in 0..LastItem
<1> DEFINE c == SpentIn(ShopID)
           i == order.id
           p == Price(order)
           n == Pieces(order)
<1>1. order # NoOrder /\ i \in ItemIDs /\ c \in Currencies /\ ReadFrom(ShopID) = c
      /\ ShopID # NoShop
    BY OrderIsInShop, SameCurrency DEF Buy, ShopInv
<1>2. /\ wallet \in [Currencies -> Int] /\ stocks \in [ItemIDs -> Int]
      /\ wallet[c] \in Int /\ wallet[c] >= 0 /\ stocks[i] \in 0..LastItem
    BY <1>1 DEF ShopInv, ShopTypeOK, NothingOwed, ItemsInRange
<1>3. /\ p \in Nat /\ n \in Nat /\ n <= LastItem
      /\ ShopID # UsedClothes => p <= wallet[c] /\ stocks[i] + n <= LastItem
      /\ ShopID = UsedClothes => n <= stocks[i]
    <2>1. /\ p \in Nat /\ n \in Nat
          /\ ShopID # UsedClothes => p <= SpendableMoney /\ stocks[i] + n <= LastItem
          /\ ShopID = UsedClothes => n <= stocks[i]
        BY <1>1 DEF ShopInv, Orderly
    <2>2. ShopID # UsedClothes => SpendableMoney = wallet[c]
        BY <1>1 DEF ShopInv, ShownIsOwned
    <2> HIDE DEF c, i, p, n
    <2> QED
        BY <1>2, <2>1, <2>2 DEF LastItem
<1>4. Byte(n) = n
    BY <1>3, ByteHolds DEF LastItem
<1>5. /\ wallet' = [wallet EXCEPT ![c] = wallet[c] - Cost(ShopID, p)]
      /\ SpendableMoney' = wallet[c] - Cost(ShopID, p)
    BY <1>1 DEF Buy, ReturnSpendableCurrency, SubtractCurrencyForPurchase, Price
<1>6. stocks' = [stocks EXCEPT ![i] = IF ShopID = UsedClothes THEN @ - n ELSE @ + n]
    BY <1>4 DEF Buy, SET_ITEM_NUM, Pieces
<1> HIDE DEF c, i, p, n
<1>7. /\ wallet[c] - Cost(ShopID, p) = wallet[c] - Signed(p)
      /\ wallet[c] - Signed(p) \in Nat
      /\ stocks[i] + Signed(n) \in 0..LastItem
      /\ stocks[i] + Signed(n) = IF ShopID = UsedClothes THEN stocks[i] - n ELSE stocks[i] + n
    <2>1. CASE ShopID = UsedClothes
        <3>1. Cost(ShopID, p) = -1 * p /\ Signed(p) = 0 - p /\ Signed(n) = 0 - n
            BY <2>1 DEF Cost, Signed
        <3>2. Cost(ShopID, p) = 0 - p
            BY <1>3, <3>1
        <3>3. wallet[c] - (0 - p) \in Nat /\ stocks[i] + (0 - n) = stocks[i] - n
            BY <1>2, <1>3 DEF LastItem
        <3>4. stocks[i] - n \in 0..LastItem
            BY <1>2, <1>3, <2>1, SMTT(30) DEF LastItem
        <3> QED
            BY <2>1, <3>1, <3>2, <3>3, <3>4
    <2>2. CASE ShopID # UsedClothes
        <3>1. Cost(ShopID, p) = p /\ Signed(p) = p /\ Signed(n) = n
            BY <2>2 DEF Cost, Signed
        <3> QED
            BY <1>2, <1>3, <2>2, <3>1, SMTT(30) DEF LastItem
    <2> QED
        BY <2>1, <2>2
<1>8. wallet' = [wallet EXCEPT ![c] = @ - Signed(p)] /\ stocks' = [stocks EXCEPT ![i] = @ + Signed(n)]
    BY <1>1, <1>2, <1>5, <1>6, <1>7
<1>9. SpendableMoney' = wallet'[c]
    BY <1>1, <1>2, <1>5
<1> QED
    BY <1>1, <1>7, <1>8, <1>9 DEF c, i, p, n

LEMMA BuyStep ==
    ASSUME ShopInv, Buy
    PROVE  ShopInv'
<1>1. /\ order' = NoOrder /\ ShopID' = ShopID
    BY DEF Buy
<1>2. /\ wallet \in [Currencies -> Int] /\ stocks \in [ItemIDs -> Int]
      /\ \A c \in Currencies : wallet[c] >= 0
      /\ \A i \in ItemIDs : stocks[i] \in 0..LastItem
      /\ ShopID \in ShopIDs \cup {NoShop}
    BY DEF ShopInv, ShopTypeOK, NothingOwed, ItemsInRange
<1> DEFINE d == wallet[SpentIn(ShopID)] - Signed(Price(order))
           e == stocks[order.id] + Signed(Pieces(order))
<1>3. /\ wallet' = [wallet EXCEPT ![SpentIn(ShopID)] = d] /\ d \in Nat
      /\ stocks' = [stocks EXCEPT ![order.id] = e] /\ e \in 0..LastItem
      /\ SpendableMoney' = wallet'[SpentIn(ShopID)] /\ SpentIn(ShopID) \in Currencies
      /\ order.id \in ItemIDs
    BY BuyIs
<1> HIDE DEF d, e
<1>4. wallet' \in [Currencies -> Int] /\ \A c \in Currencies : wallet'[c] >= 0
    BY <1>2, <1>3
<1>5. stocks' \in [ItemIDs -> Int] /\ \A i \in ItemIDs : stocks'[i] \in 0..LastItem
    BY <1>2, <1>3 DEF LastItem
<1>6. ShopTypeOK' /\ NothingOwed' /\ ItemsInRange'
    BY <1>1, <1>2, <1>3, <1>4, <1>5 DEF ShopTypeOK, NothingOwed, ItemsInRange
<1>7. ShownIsOwned' /\ Orderly'
    BY <1>1, <1>3 DEF ShownIsOwned, Orderly
<1> QED
    BY <1>6, <1>7 DEF ShopInv

LEMMA ShopStep == ShopInv /\ [ShopNext]_shopVars => ShopInv'
<1> SUFFICES ASSUME ShopInv, [ShopNext]_shopVars PROVE ShopInv'
    OBVIOUS
<1>1. ASSUME Decline PROVE ShopInv'
    BY <1>1 DEF Decline, ShopInv, ShopTypeOK, NothingOwed, ItemsInRange, ShownIsOwned, Orderly
<1>2. ASSUME LeaveShop PROVE ShopInv'
    BY <1>2 DEF LeaveShop, ShopInv, ShopTypeOK, NothingOwed, ItemsInRange, ShownIsOwned, Orderly
<1>3. ASSUME UNCHANGED shopVars PROVE ShopInv'
    <2>1. UNCHANGED <<wallet, stocks, ShopID, SpendableMoney, order>>
        BY <1>3 DEF shopVars
    <2> QED
        BY <2>1 DEF ShopInv, ShopTypeOK, NothingOwed, ItemsInRange, ShownIsOwned, Orderly,
                    Price, Pieces
<1> QED
    BY <1>1, <1>2, <1>3, FindStep, VisitStep, ChooseStep, BuyStep DEF ShopNext

\* Between choosing and paying, what was seen to stays true.
THEOREM ShopInvariant == ShopSpec => []ShopInv
    BY ShopInitial, ShopStep, PTL DEF ShopSpec

\* SecreC.c, SET_ITEM_NUM_Hook and the three currency functions: a purchase moves
\* its price and its pieces and nothing else, in every shop and either way round.
THEOREM FairTradeCorrect == ShopSpec => FairTrade
<1> DEFINE Fair ==
        order # NoOrder /\ stocks' # stocks =>
            /\ wallet' = [wallet EXCEPT ![ReadFrom(ShopID)] =
                             @ - Signed(order.price * order.quantity)]
            /\ stocks' = [stocks EXCEPT ![order.id] =
                             @ + Signed(order.itemsPerUnit * order.quantity)]
<1>1. ShopInv /\ [ShopNext]_shopVars => [Fair]_shopVars
    <2> SUFFICES ASSUME ShopInv, ShopNext, order # NoOrder, stocks' # stocks
                 PROVE  Fair
        OBVIOUS
    <2>1. ShopID # NoShop
        BY OrderIsInShop DEF ShopInv
    <2>2. Buy
        BY <2>1 DEF ShopNext, Find, Visit, Choose, Decline, LeaveShop
    <2> QED
        BY <2>2, BuyIs, SameCurrency DEF Price, Pieces
<1> QED
    BY <1>1, ShopInvariant, PTL DEF ShopSpec, FairTrade

\* Nobody owes, nothing is owned less than never or more than the game can store,
\* and the sum shown is the sum that will be drawn on.
THEOREM ShopKeepsBooksCorrect == ShopSpec => ShopKeepsBooks
<1>1. ShopInv => ShopTypeOK /\ NothingOwed /\ ItemsInRange /\ ShownIsOwned
    BY DEF ShopInv
<1> QED
    BY <1>1, ShopInvariant, FairTradeCorrect, PTL DEF ShopKeepsBooks

(***************************************************************************)
(* The calendar and the confidants, on every day and with whatever flags    *)
(* and confidants are active.                                               *)
(***************************************************************************)
\* What has been heard, by the phase of the calendar.
HeardByPhase ==
    /\ phase \in 1..2 => heard = <<>>
    /\ phase = 3 => \/ heard = <<>> /\ (announceWeekday => count321 = 0)
                    \/ Len(heard) = 1 /\ announceWeekday /\ count321 = 1

\* The rows of the confidants up to n, if they have been counted from 0.
InList(c) == BuildConfidantListHook(c, c \in active, confCount(0))
ListedTo(n) == {c \in Sae..n : InList(c)}
ListedSoFar == asked # NoList /\ steady => listed = ListedTo(asked)

\* The inductive invariant
DailyInv == DailyTypeOK /\ AnnouncedOnce /\ HeardByPhase /\ ListedSoFar

\* The clip is of the day.
LEMMA CueNamesDay ==
    ASSUME NEW d \in Nat, NEW v \in {0, 1}
    PROVE  /\ CueOfDay(d, v) \in 120..133
           /\ CueOfDay(d, v) = 120 + v + 2 * Weekday(d)
<1>1. PICK q \in Nat, r \in 0..6 : d = 7 * q + r /\ d % 7 = r
    <2>1. d = 7 * (d \div 7) + (d % 7) /\ d \div 7 \in Nat /\ d % 7 \in 0..6
        OBVIOUS
    <2> QED
        BY <2>1
<1>2. Weekday(d) = (r + 4) % 7
    BY <1>1 DEF Weekday
<1>3. /\ r = 0 => CueOfDay(d, v) = 128 + v
      /\ r = 1 => CueOfDay(d, v) = 130 + v
      /\ r = 2 => CueOfDay(d, v) = 132 + v
      /\ r > 2 => CueOfDay(d, v) = 114 + v + 2 * r
    BY <1>1 DEF CueOfDay
<1> QED
    BY <1>1, <1>2, <1>3

\* All four are active if and only if the byte says 23.
LEMMA EverybodyIsCounted ==
    ASSUME active \subseteq Sae..Maruki
    PROVE  confCount(0) = 23 <=> active = Sae..Maruki
<1>1. IsFiniteSet(Sae..Maruki) /\ Cardinality(Sae..Maruki) = 4
    <2>1. Sae \in Int /\ Maruki \in Int
        BY DEF Sae, Maruki
    <2>2. /\ IsFiniteSet(Sae..Maruki)
          /\ Cardinality(Sae..Maruki) = IF Sae > Maruki THEN 0 ELSE Maruki - Sae + 1
        BY <2>1, FS_Interval
    <2> QED
        BY <2>2 DEF Sae, Maruki
<1>2. /\ Cardinality(active) \in Nat /\ Cardinality(active) <= 4
      /\ Cardinality(active) = 4 => active = Sae..Maruki
    BY <1>1, FS_Subset, FS_CardinalityType
<1> QED
    BY <1>1, <1>2 DEF confCount

LEMMA DailyInitial == DailyInit => DailyInv
<1> SUFFICES ASSUME DailyInit PROVE DailyInv
    OBVIOUS
<1>1. shown.portrait = 0 /\ day \in Nat /\ active \subseteq Sae..Maruki
    BY DailyAssumption DEF DailyInit
<1>2. announceWeekday \in BOOLEAN /\ R2 \in BOOLEAN /\ steady \in BOOLEAN
    BY DEF DailyInit
<1>3. DailyTypeOK
    BY <1>1, <1>2 DEF DailyInit, DailyTypeOK, NoList, Closed, LastPhase
<1> QED
    BY <1>3 DEF DailyInit, DailyInv, AnnouncedOnce, HeardByPhase, ListedSoFar, Closed

LEMMA CalendarStep ==
    ASSUME DailyInv, CalendarFrame
    PROVE  DailyInv'
<1>1. /\ UNCHANGED <<announceWeekday, flags, active, day, asked, listed, steady, R2, shown>>
      /\ phase # Closed /\ count321' = Counted
      /\ phase' \in {phase} \cup (IF phase < LastPhase THEN {phase + 1} ELSE {})
    BY DEF CalendarFrame, rigid, confidants
<1>2. /\ phase \in 1..5 /\ phase' \in 1..5 /\ count321 \in 0..1 /\ day \in Nat
      /\ heard \in Seq({51} \cup (120..133)) /\ phase' \in {phase, phase + 1}
      /\ announceWeekday \in BOOLEAN
    BY <1>1 DEF DailyInv, DailyTypeOK, Closed, LastPhase
<1>3. CASE announceWeekday /\ phase = 3 /\ count321 = 0
    <2>1. PICK cue \in Cues : heard' = Append(heard, cue)
        BY <1>3 DEF CalendarFrame
    <2>2. cue = 51 \/ \E v \in {0, 1} : cue = CueOfDay(day, v)
        BY DEF Cues
    <2>3. cue \in {51} \cup (120..133)
        BY <1>2, <2>2, CueNamesDay
    <2>4. cue # 51 => cue \in {120 + 2 * Weekday(day), 121 + 2 * Weekday(day)}
        <3>1. Weekday(day) \in Int
            BY <1>2 DEF Weekday
        <3> QED
            BY <1>2, <2>2, <3>1, CueNamesDay
    <2>5. heard = <<>>
        BY <1>3 DEF DailyInv, HeardByPhase
    <2>6. heard' \in Seq({51} \cup (120..133)) /\ Len(heard') = 1 /\ heard'[1] = cue
        BY <2>1, <2>3, <2>5
    <2>7. count321' = 1
        BY <1>1, <1>3 DEF Counted
    <2>8. AnnouncedOnce' /\ HeardByPhase'
        BY <1>1, <1>2, <1>3, <2>4, <2>6, <2>7 DEF AnnouncedOnce, HeardByPhase, Weekday
    <2>9. DailyTypeOK'
        BY <1>1, <1>2, <2>6, <2>7 DEF DailyInv, DailyTypeOK, Closed, LastPhase
    <2> QED
        BY <1>1, <2>8, <2>9
           DEF DailyInv, ListedSoFar, ListedTo, InList, confCount, BuildConfidantListHook
<1>4. CASE ~(announceWeekday /\ phase = 3 /\ count321 = 0)
    <2>1. heard' = heard
        BY <1>4 DEF CalendarFrame
    <2>2. /\ count321' \in 0..1
          /\ announceWeekday /\ phase = 2 => count321' = 0
          /\ announceWeekday /\ phase = 3 => count321' = 1
        BY <1>1, <1>2 DEF Counted
    <2>3. HeardByPhase'
        BY <1>1, <1>2, <1>4, <2>1, <2>2 DEF DailyInv, HeardByPhase
    <2>4. phase' > 3 => Len(heard) = IF announceWeekday THEN 1 ELSE 0
        <3>1. phase > 3 => Len(heard) = IF announceWeekday THEN 1 ELSE 0
            BY DEF DailyInv, AnnouncedOnce
        <3>2. phase = 3 => Len(heard) = IF announceWeekday THEN 1 ELSE 0
            BY <1>4 DEF DailyInv, HeardByPhase
        <3> QED
            BY <1>2, <3>1, <3>2
    <2>5. AnnouncedOnce'
        BY <1>1, <2>1, <2>4 DEF DailyInv, AnnouncedOnce, Weekday
    <2>6. DailyTypeOK'
        BY <1>1, <1>2, <2>1, <2>2 DEF DailyInv, DailyTypeOK, Closed, LastPhase
    <2> QED
        BY <1>1, <2>3, <2>5, <2>6
           DEF DailyInv, ListedSoFar, ListedTo, InList, confCount, BuildConfidantListHook
<1> QED
    BY <1>3, <1>4

LEMMA AskConfidantStep ==
    ASSUME DailyInv, AskConfidant
    PROVE  DailyInv'
<1>1. /\ asked \in 20..23 /\ asked' = asked + 1
      /\ UNCHANGED <<announceWeekday, flags, active, day, phase, count321, heard, R2, shown>>
    BY DEF AskConfidant, rigid, calendar, Sae, Maruki
<1>2. PICK start \in Starts :
          /\ listed' = IF BuildConfidantListHook(asked', asked' \in active, confCount(start))
                       THEN listed \cup {asked'} ELSE listed
          /\ steady' = (steady /\ start = 0)
    BY <1>1 DEF AskConfidant
<1>3. asked' \in Sae..Maruki /\ listed' \subseteq Sae..Maruki
    BY <1>1, <1>2 DEF DailyInv, DailyTypeOK, Sae, Maruki
<1>4. steady' \in BOOLEAN
    <2>1. steady \in BOOLEAN
        BY DEF DailyInv, DailyTypeOK
    <2> QED
        BY <1>2, <2>1
<1>5. DailyTypeOK'
    BY <1>1, <1>3, <1>4 DEF DailyInv, DailyTypeOK, Sae, Maruki, NoList
<1>6. ListedSoFar'
    <2> SUFFICES ASSUME steady' PROVE listed' = ListedTo(asked)'
        BY DEF ListedSoFar
    <2>1. steady /\ start = 0
        BY <1>2
    <2>2. listed = ListedTo(asked)
        BY <1>1, <2>1 DEF DailyInv, ListedSoFar, NoList
    <2>3. ListedTo(asked)' = {c \in Sae..asked' : InList(c)}
        BY <1>1 DEF ListedTo, InList, confCount, BuildConfidantListHook
    <2>4. listed' = IF InList(asked') THEN listed \cup {asked'} ELSE listed
        BY <1>2, <2>1 DEF InList
    <2>5. Sae..asked' = (Sae..asked) \cup {asked'}
        BY <1>1 DEF Sae
    <2> QED
        BY <2>2, <2>3, <2>4, <2>5 DEF ListedTo
<1>7. AnnouncedOnce' /\ HeardByPhase'
    BY <1>1 DEF DailyInv, AnnouncedOnce, HeardByPhase, Weekday
<1> QED
    BY <1>5, <1>6, <1>7 DEF DailyInv

\* The steps that open and close a screen, press a button or ask about icons.
LEMMA ScreenStep ==
    ASSUME DailyInv,
           \/ OpenCalendar \/ CloseCalendar \/ OpenConfidants \/ CloseConfidants \/ Press
           \/ \E results \in Answers : Ask(results)
    PROVE  DailyInv'
<1> USE DEF rigid, calendar, confidants, Closed, LastPhase, NoList
<1>1. CASE OpenCalendar
    <2>1. DailyTypeOK'
        BY <1>1, DailyAssumption DEF OpenCalendar, DailyInv, DailyTypeOK
    <2> QED
        BY <1>1, <2>1 DEF OpenCalendar, DailyInv, AnnouncedOnce, HeardByPhase, ListedSoFar
<1>2. CASE CloseCalendar
    BY <1>2 DEF CloseCalendar, DailyInv, DailyTypeOK, AnnouncedOnce, HeardByPhase, ListedSoFar,
                Weekday, ListedTo, InList, confCount, BuildConfidantListHook
<1>3. CASE OpenConfidants
    <2>1. DailyTypeOK'
        BY <1>3 DEF OpenConfidants, DailyInv, DailyTypeOK, Sae, Maruki
    <2>2. ListedTo(asked)' = {} /\ listed' = {}
        BY <1>3 DEF OpenConfidants, ListedTo, Sae
    <2> QED
        BY <1>3, <2>1, <2>2
           DEF OpenConfidants, DailyInv, AnnouncedOnce, HeardByPhase, ListedSoFar, Weekday
<1>4. CASE CloseConfidants
    <2>1. DailyTypeOK'
        BY <1>4 DEF CloseConfidants, DailyInv, DailyTypeOK
    <2> QED
        BY <1>4, <2>1 DEF CloseConfidants, DailyInv, AnnouncedOnce, HeardByPhase, ListedSoFar, Weekday
<1>5. CASE Press
    <2>1. R2' \in BOOLEAN /\ steady' \in BOOLEAN
        BY <1>5 DEF Press, DailyInv, DailyTypeOK
    <2>2. DailyTypeOK'
        BY <1>5, <2>1 DEF Press, DailyInv, DailyTypeOK
    <2> QED
        BY <1>5, <2>2 DEF Press, DailyInv, AnnouncedOnce, HeardByPhase, ListedSoFar, Weekday
<1>6. CASE \E results \in Answers : Ask(results)
    <2>1. PICK results \in Answers : Ask(results)
        BY <1>6
    <2>2. shown'.portrait = SelPortraitFromModelID(0)
        BY <2>1 DEF Ask
    <2>3. shown'.portrait \in {0, 5}
        BY <2>2 DEF SelPortraitFromModelID
    <2> QED
        BY <2>1, <2>3
           DEF Ask, DailyInv, DailyTypeOK, AnnouncedOnce, HeardByPhase, ListedSoFar, Weekday,
               ListedTo, InList, confCount, BuildConfidantListHook
<1> QED
    BY <1>1, <1>2, <1>3, <1>4, <1>5, <1>6

LEMMA DailyStep == DailyInv /\ [DailyNext]_dailyVars => DailyInv'
<1> SUFFICES ASSUME DailyInv, [DailyNext]_dailyVars PROVE DailyInv'
    OBVIOUS
<1>1. ASSUME UNCHANGED dailyVars PROVE DailyInv'
    BY <1>1 DEF dailyVars, DailyInv, DailyTypeOK, AnnouncedOnce, HeardByPhase, ListedSoFar,
                Weekday, ListedTo, InList, confCount, BuildConfidantListHook
<1> QED
    BY <1>1, CalendarStep, AskConfidantStep, ScreenStep DEF DailyNext

\* What has been heard and what is listed follow the phase and the question.
THEOREM DailyInvariant == DailySpec => []DailyInv
    BY DailyInitial, DailyStep, PTL DEF DailySpec

\* SecreC.c, FUN_000503d0Hook and BuildConfidantListHook: the weekday is called out
\* once and is that of the day, and of four confidants at the end of the list one is
\* left out.
THEOREM CalendarIsRightCorrect == DailySpec => []CalendarIsRight
<1>1. DailyInv => OneRowIsLeftOut
    <2> SUFFICES ASSUME DailyInv, asked = Maruki, steady
                 PROVE  listed = active \ (IF active # Sae..Maruki THEN {}
                                           ELSE IF R2 THEN {Sae} ELSE {Maruki})
        BY DEF OneRowIsLeftOut
    <2>1. /\ listed = {c \in Sae..Maruki : InList(c)}
          /\ active \subseteq Sae..Maruki
        BY DEF DailyInv, DailyTypeOK, ListedSoFar, ListedTo, Maruki, NoList
    <2>2. \A c \in Sae..Maruki :
              InList(c) <=> /\ c \in active
                            /\ active = Sae..Maruki => /\ R2 => c # Sae
                                                       /\ ~R2 => c # Maruki
        BY <2>1, EverybodyIsCounted DEF InList, BuildConfidantListHook
    <2> QED
        BY <2>1, <2>2
<1>2. DailyInv => CalendarIsRight
    BY <1>1 DEF DailyInv, CalendarIsRight
<1> QED
    BY <1>2, DailyInvariant, PTL

(***************************************************************************)
(* The files of the navigators, for every installation, whatever count      *)
(* scripts leave, and however many files may be open.                       *)
(***************************************************************************)
Navigators == {Mona, Futaba, Another}

\* Whose the sound is that the game loads next, and that it fits the text.
NextVoice == IF pending = Futaba /\ count9 # Futaba THEN count9 ELSE pending
Fits(voice) ==
    text # NoLines /\ voice # text.owner =>
        /\ voice = Another /\ text = Lines(Futaba, Built)
        /\ ~(install.enableExternalNavi /\ Another \in install.readable)
VoiceWillFit == pending # None => Fits(NextVoice)

\* The inductive invariant
GuidesInv ==
    /\ GuidesTypeOK /\ LinesAreReadable /\ VoiceFitsText /\ VoiceWillFit
    /\ text \in [owner : {None} \cup Navigators, place : 0..MaxOpen]
    /\ pending \in {None, Mona, Futaba}

\* A set of naturals that is not empty has a least element.
LEMMA LeastNumber ==
    ASSUME NEW T, T \subseteq Nat, T # {}
    PROVE  \E x \in T : \A y \in T : ~(y < x)
<1>1. \E x \in T : \A y \in T : ~(<<y, x>> \in OpToRel(<, Nat))
    BY NatLessThanWellFounded, WFMin
<1> QED
    BY <1>1 DEF OpToRel

\* If there is room for a file there is a free handle.
LEMMA FreeHandle ==
    ASSUME NEW handles, DOMAIN handles \subseteq 1..MaxOpen, HasRoom(handles)
    PROVE  Free(handles) \in 1..MaxOpen /\ Free(handles) \notin DOMAIN handles
<1>1. MaxOpen \in Nat /\ MaxOpen > 0
    BY GuidesAssumption
<1>2. IsFiniteSet(1..MaxOpen) /\ Cardinality(1..MaxOpen) = MaxOpen
    <2>1. PICK a \in Int : a = 1
        OBVIOUS
    <2>2. Cardinality(a..MaxOpen) = IF a > MaxOpen THEN 0 ELSE MaxOpen - a + 1
        BY <1>1, FS_Interval
    <2>3. IsFiniteSet(a..MaxOpen)
        BY <1>1, FS_Interval
    <2> QED
        BY <1>1, <2>1, <2>2, <2>3
<1> DEFINE T == (1..MaxOpen) \ DOMAIN handles
<1>3. T # {}
    <2> SUFFICES ASSUME T = {} PROVE FALSE
        OBVIOUS
    <2>1. DOMAIN handles = 1..MaxOpen
        OBVIOUS
    <2> QED
        BY <1>1, <1>2, <2>1 DEF HasRoom
<1>4. PICK h \in T : \A y \in T : ~(y < h)
    <2>1. T \subseteq Nat
        BY <1>1
    <2> HIDE DEF T
    <2> QED
        BY <1>3, <2>1, LeastNumber
<1>5. 1..(h - 1) \subseteq DOMAIN handles
    <2> SUFFICES ASSUME NEW k \in 1..(h - 1), k \notin DOMAIN handles PROVE FALSE
        OBVIOUS
    <2>1. k \in T /\ k < h
        BY <1>1
    <2> QED
        BY <1>4, <2>1
<1>6. \E k \in 1..MaxOpen : k \notin DOMAIN handles /\ 1..(k - 1) \subseteq DOMAIN handles
    BY <1>5
<1> QED
    BY <1>6 DEF Free

\* What lies in a file that is added, and what is kept.
LEMMA WithIs ==
    ASSUME NEW handles, NEW h, NEW navigator
    PROVE  /\ DOMAIN With(handles, h, navigator) = DOMAIN handles \cup {h}
           /\ With(handles, h, navigator)[h] = navigator
           /\ \A k \in DOMAIN handles \ {h} : With(handles, h, navigator)[k] = handles[k]
BY DEF With

\* The text is the navigator's, at the handle of its file, or built in.
LEMMA TextIs ==
    ASSUME NEW navigator \in Navigators, NEW handle \in 1..MaxOpen
    PROVE  /\ TextOf(navigator, handle) \in [owner : {None} \cup Navigators, place : 0..MaxOpen]
           /\ \/ TextOf(navigator, handle) = Lines(navigator, handle)
              \/ /\ navigator # Another /\ TextOf(navigator, handle) = Lines(navigator, Built)
              \/ /\ navigator = Another /\ TextOf(navigator, handle) = Lines(Futaba, Built)
                 /\ ~(install.enableExternalNavi /\ Another \in install.readable)
<1>1. MaxOpen \in Nat
    BY GuidesAssumption
<1> QED
    BY <1>1 DEF TextOf, Lines, Navigators, Mona, Futaba, Another, None, Built

LEMMA LinesHave ==
    ASSUME NEW owner, NEW place
    PROVE  Lines(owner, place).owner = owner /\ Lines(owner, place).place = place
BY DEF Lines

LEMMA GuidesInitial == GuidesInit => GuidesInv
<1> SUFFICES ASSUME GuidesInit PROVE GuidesInv
    OBVIOUS
<1>1. NoLines \in [owner : {None} \cup Navigators, place : 0..MaxOpen] /\ DOMAIN <<>> = {}
    BY GuidesAssumption DEF NoLines, Lines, Built
<1>2. NoLines.place = Built /\ NoLines.owner = None
    BY DEF NoLines, Lines
<1>3. GuidesTypeOK
    BY <1>1, <1>2, GuidesAssumption DEF GuidesInit, GuidesTypeOK, Built
<1> QED
    BY <1>1, <1>2, <1>3 DEF GuidesInit, GuidesInv, LinesAreReadable, VoiceFitsText, VoiceWillFit

\* Both hooks leave a text of a navigator that lies in a file, if in one, that is
\* open and the navigator's, and whose sound will be the navigator's.
LEMMA LoadStep ==
    ASSUME GuidesInv, NEW handles, DOMAIN handles \subseteq 1..MaxOpen, HasRoom(handles),
           \A h \in DOMAIN handles : handles[h] \in Navigators,
           NEW navigator \in Navigators, NEW remembered \in BOOLEAN,
           open' = IF remembered THEN With(handles, Free(handles), navigator) ELSE handles,
           text' = IF remembered THEN TextOf(navigator, Free(handles)) ELSE NoLines,
           FutabaNavi' \in DOMAIN open' \cup {None},
           count9' \in Counts \cup {0, Mona, Futaba, Another},
           pending' \in {Mona, Futaba}, sound' = None, install' = install,
           remembered => NextVoice' = navigator
    PROVE  GuidesInv'
<1>1. PICK h \in 1..MaxOpen : h = Free(handles) /\ h \notin DOMAIN handles
    BY FreeHandle
<1>2. CASE remembered
    <2>1. open' = With(handles, h, navigator) /\ text' = TextOf(navigator, h)
        BY <1>1, <1>2
    <2>2. /\ DOMAIN open' \subseteq 1..MaxOpen /\ h \in DOMAIN open' /\ open'[h] = navigator
          /\ \A k \in DOMAIN open' : open'[k] \in Navigators
        <3>1. DOMAIN open' = DOMAIN handles \cup {h}
            BY <2>1 DEF With
        <3>2. open'[h] = navigator /\ \A k \in DOMAIN handles \ {h} : open'[k] = handles[k]
            BY <2>1 DEF With
        <3> QED
            BY <1>1, <3>1, <3>2
    <2>3. /\ text' \in [owner : {None} \cup Navigators, place : 0..MaxOpen]
          /\ \/ text' = Lines(navigator, h)
             \/ navigator # Another /\ text' = Lines(navigator, Built)
             \/ /\ navigator = Another /\ text' = Lines(Futaba, Built)
                /\ ~(install.enableExternalNavi /\ Another \in install.readable)
        BY <1>1, <2>1, TextIs
    <2>4. LinesAreReadable'
        BY <2>2, <2>3, LinesHave DEF LinesAreReadable
    <2>5. Fits(NextVoice)'
        <3>1. NextVoice' = navigator
            BY <1>2
        <3> QED
            BY <2>3, <3>1, LinesHave DEF Fits
    <2> QED
        BY <2>2, <2>3, <2>4, <2>5
           DEF GuidesInv, GuidesTypeOK, VoiceFitsText, VoiceWillFit, Navigators
<1>3. CASE ~remembered
    <2>1. open' = handles /\ text' = NoLines /\ NoLines.place = Built /\ NoLines.owner = None
        BY <1>3 DEF NoLines, Lines
    <2>2. text' \in [owner : {None} \cup Navigators, place : 0..MaxOpen]
        BY <2>1, GuidesAssumption DEF NoLines, Lines, Built
    <2> QED
        BY <2>1, <2>2 DEF GuidesInv, GuidesTypeOK, LinesAreReadable, VoiceFitsText, VoiceWillFit,
                          Fits, Navigators
<1> QED
    BY <1>2, <1>3

LEMMA FutabaStep ==
    ASSUME GuidesInv, NEW remembered \in BOOLEAN, LoadFutabaNaviBMDHook(remembered)
    PROVE  GuidesInv'
<1>1. /\ HasRoom(KeptOpen) /\ count9' = CustomNavi
      /\ open' = IF remembered THEN With(KeptOpen, Free(KeptOpen), CustomNavi) ELSE KeptOpen
      /\ FutabaNavi' = IF remembered THEN Free(KeptOpen) ELSE None
      /\ text' = IF remembered THEN TextOf(CustomNavi, Free(KeptOpen)) ELSE NoLines
      /\ pending' = Futaba /\ sound' = None /\ install' = install
    BY DEF LoadFutabaNaviBMDHook, OpenedAnew, HandleAfter
<1>2. CustomNavi \in {Another, Futaba}
    BY DEF CustomNavi
<1>3. /\ DOMAIN KeptOpen \subseteq 1..MaxOpen
      /\ \A h \in DOMAIN KeptOpen : KeptOpen[h] \in Navigators
    BY DEF KeptOpen, GuidesInv, GuidesTypeOK, Navigators
<1>4. NextVoice' = CustomNavi
    BY <1>1, <1>2 DEF NextVoice
<1>5. FutabaNavi' \in DOMAIN open' \cup {None}
    <2>1. CASE remembered
        <3>1. DOMAIN open' = DOMAIN KeptOpen \cup {Free(KeptOpen)}
            BY <1>1, <2>1, WithIs
        <3> QED
            BY <1>1, <2>1, <3>1
    <2>2. CASE ~remembered
        BY <1>1, <2>2
    <2> QED
        BY <2>1, <2>2
<1> QED
    BY <1>1, <1>2, <1>3, <1>4, <1>5, LoadStep DEF Navigators

LEMMA MonaStep ==
    ASSUME GuidesInv, NEW remembered \in BOOLEAN, LoadMonaNaviBMDHook(remembered)
    PROVE  GuidesInv'
<1>1. /\ HasRoom(open) /\ count9' = (IF remembered THEN Mona ELSE count9)
      /\ open' = IF remembered THEN With(open, Free(open), Mona) ELSE open
      /\ text' = IF remembered THEN TextOf(Mona, Free(open)) ELSE NoLines
      /\ pending' \in {Mona, Futaba} /\ sound' = None
      /\ install' = install /\ FutabaNavi' = FutabaNavi
    BY DEF LoadMonaNaviBMDHook
<1>2. /\ DOMAIN open \subseteq 1..MaxOpen /\ \A h \in DOMAIN open : open[h] \in Navigators
      /\ FutabaNavi \in DOMAIN open \cup {None}
      /\ count9 \in Counts \cup {0, Mona, Futaba, Another}
    BY DEF GuidesInv, GuidesTypeOK, Navigators
<1>3. remembered => NextVoice' = Mona
    BY <1>1 DEF NextVoice, Mona, Futaba
<1>4. FutabaNavi' \in DOMAIN open' \cup {None}
    <2>1. CASE remembered
        <3>1. DOMAIN open' = DOMAIN open \cup {Free(open)}
            BY <1>1, <2>1, WithIs
        <3> QED
            BY <1>1, <1>2, <3>1
    <2>2. CASE ~remembered
        BY <1>1, <1>2, <2>2
    <2> QED
        BY <2>1, <2>2
<1> QED
    BY <1>1, <1>2, <1>3, <1>4, LoadStep DEF Navigators

LEMMA GuidesStep == GuidesInv /\ [GuidesNext]_guideVars => GuidesInv'
<1> SUFFICES ASSUME GuidesInv, [GuidesNext]_guideVars PROVE GuidesInv'
    OBVIOUS
<1>1. ASSUME LoadNaviSoundFileHook PROVE GuidesInv'
    <2>1. /\ pending # None /\ sound' = NextVoice /\ pending' = None
          /\ UNCHANGED <<install, count9, FutabaNavi, open, text>>
        BY <1>1 DEF LoadNaviSoundFileHook, NextVoice
    <2>2. NextVoice \in Counts \cup {None, Mona, Futaba, Another}
        BY DEF NextVoice, GuidesInv, GuidesTypeOK, None
    <2>3. Fits(NextVoice)
        BY <2>1 DEF GuidesInv, VoiceWillFit
    <2>4. VoiceFitsText'
        BY <2>1, <2>3 DEF VoiceFitsText, Fits
    <2> QED
        BY <2>1, <2>2, <2>4 DEF GuidesInv, GuidesTypeOK, LinesAreReadable, VoiceWillFit
<1>2. ASSUME NEW n \in Counts, SetCountFunctionHook(n) PROVE GuidesInv'
    BY <1>2 DEF SetCountFunctionHook, GuidesInv, GuidesTypeOK, LinesAreReadable, VoiceFitsText,
                VoiceWillFit
<1>3. ASSUME UNCHANGED guideVars PROVE GuidesInv'
    BY <1>3 DEF guideVars, GuidesInv, GuidesTypeOK, LinesAreReadable, VoiceFitsText,
                VoiceWillFit, NextVoice, Fits
<1> QED
    BY <1>1, <1>2, <1>3, FutabaStep, MonaStep DEF GuidesNext

\* Whoever's text is loaded, the sound that follows will be of the same navigator.
THEOREM GuidesInvariant == GuidesSpec => []GuidesInv
    BY GuidesInitial, GuidesStep, PTL DEF GuidesSpec

\* EXFLW.c, LoadFutabaNaviBMDHook, LoadMonaNaviBMDHook and LoadNaviSoundFileHook: the
\* text is built in or lies in a file that is open, and the voice is of who says it.
THEOREM GuidesAgreeCorrect == GuidesSpec => []GuidesAgree
<1>1. GuidesInv => GuidesAgree
    BY DEF GuidesInv, GuidesAgree
<1> QED
    BY <1>1, GuidesInvariant, PTL

(***************************************************************************)
(* Kasumi's data in the save files, for every set of files and of values.   *)
(***************************************************************************)
KeptFields ==
    {"Field06", "Field1A", "currentHP", "currentSP", "Field42", "meleeID", "protectorID",
     "accessoryID", "outfitID", "rangedWeaponID", "TacticsState", "Field29A", "HPGainNextLv",
     "SPGainNextLv", "Field28E", "Field296", "persona", "personaID"}

\* What lies in a file is what she was, field by field, at its place.
FilesHold == \A file \in Files : \A f \in Kept : files[file][WrittenTo[f]] = atSave[file][f]

\* The inductive invariant
DataInv == DataTypeOK /\ KasumiSurvives /\ FilesHold

LEMMA KeptIs == Kept = KeptFields
BY DEF Kept, WrittenTo, KeptFields

\* Every field comes back from where it went.
LEMMA SameWayBack == DOMAIN TakenFrom = Kept /\ \A f \in Kept : TakenFrom[f] = WrittenTo[f]
<1>1. DOMAIN TakenFrom = KeptFields
    BY DEF TakenFrom, KeptFields
<1>2. \A f \in KeptFields : TakenFrom[f] = WrittenTo[f]
    BY DEF TakenFrom, WrittenTo, KeptFields
<1> QED
    BY <1>1, <1>2, KeptIs

\* Every field has a place of its own.
LEMMA PlacesDiffer == \A f, g \in Kept : WrittenTo[f] = WrittenTo[g] => f = g
<1>1. \A f, g \in KeptFields : WrittenTo[f] = WrittenTo[g] => f = g
    BY DEF WrittenTo, KeptFields
<1> QED
    BY <1>1, KeptIs

LEMMA PlaceIsSlot == \A f \in Kept : WrittenTo[f] \in Slots
BY DEF Slots

LEMMA HalfwordIs == Halfword = 65536
BY DEF Halfword

\* What is kept in 16 bits fits them.
LEMMA KeptInHalfword == \A x \in Int : x % Halfword \in 0..(Halfword - 1)
<1>1. \A x \in Int, n \in Nat : n # 0 => x % n \in Int /\ 0 <= x % n /\ x % n < n
    BY SMT
<1>2. \A r, n \in Int : 0 <= r /\ r < n => r \in 0..(n - 1)
    BY SMT
<1>3. Halfword \in Nat /\ Halfword \in Int /\ Halfword # 0
    BY HalfwordIs, SMT
<1> QED
    BY <1>1, <1>2, <1>3, Zenon

LEMMA DataInitial == DataInit => DataInv
<1> SUFFICES ASSUME DataInit PROVE DataInv
    OBVIOUS
<1>1. bullets \in 0..(Halfword - 1)
    BY HalfwordIs DEF DataInit
<1>2. boost \in BOOLEAN
    BY DEF DataInit
<1>3. DataTypeOK
    BY <1>1, <1>2 DEF DataInit, DataTypeOK, Newborn, Empty
<1>4. FilesHold
    BY PlaceIsSlot DEF DataInit, FilesHold, Newborn, Empty
<1> QED
    BY <1>3, <1>4 DEF DataInit, DataInv, KasumiSurvives

LEMMA SaveStep ==
    ASSUME DataInv, NEW file \in Files, Save(file)
    PROVE  DataInv'
<1>1. /\ kasumi \in [Kept -> Versions \cup {0}]
      /\ files \in [Files -> [Slots -> Versions \cup {0}]]
      /\ atSave \in [Files -> [Kept -> Versions \cup {0}]]
    BY DEF DataInv, DataTypeOK
<1>2. \A f \in Kept : futaba'[WrittenTo[f]] = kasumi[f]
    <2> TAKE f \in Kept
    <2>1. futaba'[WrittenTo[f]] = kasumi[CHOOSE g \in Kept : WrittenTo[g] = WrittenTo[f]]
        BY PlaceIsSlot DEF Save
    <2>2. (CHOOSE g \in Kept : WrittenTo[g] = WrittenTo[f]) = f
        BY PlacesDiffer
    <2> QED
        BY <2>1, <2>2
<1>3. futaba' \in [Slots -> Versions \cup {0}]
    <2>1. \A s \in Slots : \E f \in Kept : s = WrittenTo[f]
        BY DEF Slots
    <2>2. \A s \in Slots : futaba'[s] \in Versions \cup {0}
        BY <1>1, <1>2, <2>1
    <2>3. futaba' = [s \in Slots |-> futaba'[s]]
        BY DEF Save
    <2> QED
        BY <2>2, <2>3
<1>4. /\ files' = [files EXCEPT ![file] = futaba'] /\ atSave' = [atSave EXCEPT ![file] = kasumi]
      /\ kasumi' = kasumi /\ restored' = restored /\ bullets' = bullets /\ boost' = boost
    BY DEF Save
<1>5. DataTypeOK'
    BY <1>1, <1>3, <1>4 DEF DataInv, DataTypeOK
<1>6. KasumiSurvives'
    BY <1>1, <1>4 DEF DataInv, DataTypeOK, KasumiSurvives
<1>7. FilesHold'
    <2> SUFFICES ASSUME NEW g \in Files, NEW f \in Kept
                 PROVE  files'[g][WrittenTo[f]] = atSave'[g][f]
        BY DEF FilesHold
    <2>1. CASE g = file
        BY <1>1, <1>2, <1>4, <2>1
    <2>2. CASE g # file
        BY <1>1, <1>4, <2>2 DEF DataInv, FilesHold
    <2> QED
        BY <2>1, <2>2
<1> QED
    BY <1>5, <1>6, <1>7 DEF DataInv

LEMMA LoadFileStep ==
    ASSUME DataInv, NEW file \in Files, Load(file)
    PROVE  DataInv'
<1>1. /\ futaba' = files[file] /\ futaba' \in [Slots -> Versions \cup {0}]
      /\ files' = files /\ atSave' = atSave /\ bullets' = bullets /\ boost' = boost
    BY DEF Load, DataInv, DataTypeOK
<1>2. FilesHold'
    BY <1>1 DEF DataInv, FilesHold
<1>3. CASE futaba'[<<3, "personaID">>] = 0
    <2>1. kasumi' = kasumi /\ restored' = NoFile
        BY <1>3 DEF Load
    <2> QED
        BY <1>1, <1>2, <2>1 DEF DataInv, DataTypeOK, KasumiSurvives
<1>4. CASE futaba'[<<3, "personaID">>] # 0
    <2>1. kasumi' = [f \in Kept |-> futaba'[TakenFrom[f]]] /\ restored' = file
        BY <1>4 DEF Load
    <2>2. \A f \in Kept : kasumi'[f] = atSave[file][f]
        BY <1>1, <2>1, SameWayBack DEF DataInv, FilesHold
    <2>3. atSave[file] \in [Kept -> Versions \cup {0}]
        BY DEF DataInv, DataTypeOK
    <2>4. kasumi' = atSave[file]
        BY <2>1, <2>2, <2>3
    <2> QED
        BY <1>1, <1>2, <2>1, <2>3, <2>4 DEF DataInv, DataTypeOK, KasumiSurvives
<1> QED
    BY <1>3, <1>4

LEMMA PlayStep ==
    ASSUME DataInv, Play
    PROVE  DataInv'
<1>1. PICK v \in Versions : \/ kasumi' = [kasumi EXCEPT !["currentHP"] = v]
                            \/ kasumi' = [kasumi EXCEPT !["meleeID"] = v, !["accessoryID"] = 0]
                            \/ kasumi' = [f \in Kept |-> v]
    BY Zenon DEF Play
<1>2. kasumi \in [Kept -> Versions \cup {0}]
    BY DEF DataInv, DataTypeOK
<1>3. ASSUME kasumi' = [kasumi EXCEPT !["currentHP"] = v] PROVE kasumi' \in [Kept -> Versions \cup {0}]
    BY <1>2, <1>3
<1>4. ASSUME kasumi' = [kasumi EXCEPT !["meleeID"] = v, !["accessoryID"] = 0]
      PROVE  kasumi' \in [Kept -> Versions \cup {0}]
    BY <1>2, <1>4
<1>5. ASSUME kasumi' = [f \in Kept |-> v] PROVE kasumi' \in [Kept -> Versions \cup {0}]
    BY <1>5
<1>6. kasumi' \in [Kept -> Versions \cup {0}]
    BY <1>1, <1>3, <1>4, <1>5
<1>7. UNCHANGED <<futaba, files, atSave, bullets, boost>> /\ restored' = NoFile
    BY DEF Play
<1> QED
    BY <1>6, <1>7 DEF DataInv, DataTypeOK, KasumiSurvives, FilesHold

LEMMA DataStep == DataInv /\ [DataNext]_dataVars => DataInv'
<1> SUFFICES ASSUME DataInv, [DataNext]_dataVars PROVE DataInv'
    OBVIOUS
<1>1. ASSUME Restart PROVE DataInv'
    <2>1. bullets' \in 0..(Halfword - 1)
        BY <1>1, HalfwordIs DEF Restart
    <2>2. boost' \in BOOLEAN
        BY <1>1 DEF Restart
    <2> QED
        BY <1>1, <2>1, <2>2 DEF Restart, DataInv, DataTypeOK, KasumiSurvives, FilesHold, Newborn, Empty
<1>2. ASSUME UNCHANGED <<kasumi, futaba, files, atSave, restored>>,
             bullets' \in 0..(Halfword - 1), boost' \in BOOLEAN
      PROVE  DataInv'
    BY <1>2 DEF DataInv, DataTypeOK, KasumiSurvives, FilesHold
<1>3. ASSUME SetBulletsToMax PROVE DataInv'
    <2>1. bullets' \in 0..(Halfword - 1) /\ boost' = boost
        BY <1>3, HalfwordIs DEF SetBulletsToMax, GetMaxBullets
    <2> QED
        BY <1>2, <1>3, <2>1 DEF SetBulletsToMax, DataInv, DataTypeOK
<1>4. ASSUME NEW n \in Shots, SetBullets(n) PROVE DataInv'
    <2>1. bullets + n \in Int
        BY DataAssumption DEF DataInv, DataTypeOK
    <2>2. PICK sum \in Int : sum = bullets + n
        BY <2>1
    <2>3. bullets' = sum % Halfword
        BY <1>4, <2>2 DEF SetBullets
    <2>4. bullets' \in 0..(Halfword - 1)
        BY <2>2, <2>3, KeptInHalfword, Zenon
    <2> QED
        BY <1>2, <1>4, <2>4 DEF SetBullets, DataInv, DataTypeOK
<1>5. ASSUME Befriend PROVE DataInv'
    BY <1>2, <1>5 DEF Befriend, DataInv, DataTypeOK
<1>6. ASSUME UNCHANGED dataVars PROVE DataInv'
    BY <1>2, <1>6 DEF dataVars, DataInv, DataTypeOK
<1> QED
    BY <1>1, <1>3, <1>4, <1>5, <1>6, SaveStep, LoadFileStep, PlayStep
       DEF DataNext, Shoot, Reload

\* The fields have places that differ, and each comes back from where it went.
THEOREM DataInvariant == DataSpec => []DataInv
    BY DataInitial, DataStep, PTL DEF DataSpec

\* p5.c, WriteKasumiData and ReadKasumiData: what is loaded is what was saved,
\* whatever was saved, loaded and played in between, and across restarts.
THEOREM DataSurvivesCorrect == DataSpec => []DataSurvives
<1>1. DataInv => DataSurvives
    BY DEF DataInv, DataSurvives
<1> QED
    BY <1>1, DataInvariant, PTL

(***************************************************************************)
(* The data tables, for every file, every length of its segments and every  *)
(* order of lookups.                                                        *)
(***************************************************************************)

\* The next multiple of 16.
LEMMA AlignUpIs ==
    ASSUME NEW n \in Nat
    PROVE  AlignUp(n) \in n..(n + 15) /\ AlignUp(n) % 16 = 0
<1>1. PICK q \in Nat : q = n % 16 /\ q < 16
    OBVIOUS
<1>2. \E m \in n..(n + 15) : m % 16 = 0
    <2>1. CASE q = 0
        BY <1>1, <2>1
    <2>2. CASE q # 0
        <3>1. n + 16 - q \in n..(n + 15) /\ (n + 16 - q) % 16 = 0
            BY <1>1, <2>2
        <3> QED
            BY <3>1
    <2> QED
        BY <2>1, <2>2
<1> QED
    BY <1>2 DEF AlignUp

\* Where the parser's arithmetic arrives: at the writer's next segment.
LEMMA PaddingIs ==
    ASSUME NEW at \in Nat, at % 16 = 0, NEW length \in Nat
    PROVE  at + 4 + length + Padding(length) = AlignUp(at + 4 + length)
<1>1. PICK n \in Nat : n = length + 4
    OBVIOUS
<1>2. PICK q \in Nat, r \in Nat : q = n \div 16 /\ r = n % 16 /\ n = 16 * q + r /\ r < 16
    BY <1>1
<1>3. PICK a \in Nat : at = 16 * a
    <2>1. at = 16 * (at \div 16) + (at % 16) /\ at \div 16 \in Nat
        OBVIOUS
    <2> QED
        BY <2>1
<1>4. Padding(length) = (q + (IF r # 0 THEN 1 ELSE 0)) * 16 - n
    BY <1>1, <1>2 DEF Padding
<1>5. PICK z \in Nat : z = AlignUp(at + n) /\ z \in (at + n)..(at + n + 15) /\ z % 16 = 0
    <2>1. at + n \in Nat
        OBVIOUS
    <2> QED
        BY <2>1, AlignUpIs
<1>6. PICK y \in Nat : z = 16 * y
    <2>1. z = 16 * (z \div 16) + (z % 16) /\ z \div 16 \in Nat
        OBVIOUS
    <2> QED
        BY <1>5, <2>1
<1>7. y = a + q + (IF r # 0 THEN 1 ELSE 0)
    BY <1>2, <1>3, <1>5, <1>6
<1>8. at + 4 + length = at + n
    BY <1>1
<1> QED
    BY <1>1, <1>2, <1>3, <1>4, <1>5, <1>6, <1>7, <1>8

\* The segments begin one behind the other, at multiples of 16.
LEMMA BeginsIs ==
    /\ Begins[1] = 0
    /\ \A k \in 2..5 : Begins[k] = AlignUp(Begins[k - 1] + 4 + tableFile.lengths[k - 1])
<1> DEFINE b2 == AlignUp(0 + 4 + tableFile.lengths[1])
           b3 == AlignUp(b2 + 4 + tableFile.lengths[2])
           b4 == AlignUp(b3 + 4 + tableFile.lengths[3])
           b5 == AlignUp(b4 + 4 + tableFile.lengths[4])
           g == [k \in 1..5 |-> IF k = 1 THEN 0 ELSE IF k = 2 THEN b2 ELSE IF k = 3 THEN b3
                                ELSE IF k = 4 THEN b4 ELSE b5]
<1>1. g[1] = 0 /\ g[2] = b2 /\ g[3] = b3 /\ g[4] = b4 /\ g[5] = b5
    OBVIOUS
<1>2. \A k \in 2..5 : g[k] = AlignUp(g[k - 1] + 4 + tableFile.lengths[k - 1])
    <2> HIDE DEF g
    <2> TAKE k \in 2..5
    <2>1. k = 2 \/ k = 3 \/ k = 4 \/ k = 5
        OBVIOUS
    <2> QED
        BY <1>1, <2>1
<1>3. g = [k \in 1..5 |-> IF k = 1 THEN 0 ELSE AlignUp(g[k - 1] + 4 + tableFile.lengths[k - 1])]
    <2>1. g = [k \in 1..5 |-> g[k]]
        OBVIOUS
    <2>2. \A k \in 1..5 : g[k] = IF k = 1 THEN 0 ELSE AlignUp(g[k - 1] + 4 + tableFile.lengths[k - 1])
        <3> HIDE DEF g
        <3> QED
            BY <1>1, <1>2
    <2> HIDE DEF g
    <2> QED
        BY <2>1, <2>2
<1>4. Begins = [k \in 1..5 |-> IF k = 1 THEN 0
                               ELSE AlignUp(Begins[k - 1] + 4 + tableFile.lengths[k - 1])]
    <2> HIDE DEF g
    <2> QED
        BY <1>3 DEF Begins
<1> QED
    BY <1>4

LEMMA FileIs ==
    ASSUME tableFile \in TableFiles
    PROVE  /\ tableFile.parser \in Parser /\ tableFile.lengths \in Seq(Nat)
           /\ Sizes \in Seq(Nat) /\ Len(tableFile.lengths) = Len(Sizes)
           /\ Len(Sizes) = IF tableFile.parser = "unit" THEN 5 ELSE 2
           /\ Segments = 1..Len(Sizes)
           /\ \A k \in Segments : k \in 1..5 /\ tableFile.lengths[k] \in Nat /\ Sizes[k] \in Nat
<1>1. tableFile.parser \in Parser /\ tableFile.lengths \in Seq(Nat)
    BY TablesAssumption
<1>2. Sizes \in Seq(Nat) /\ Len(tableFile.lengths) = Len(Sizes)
    BY <1>1, TablesAssumption DEF Sizes
<1>3. Len(Sizes) = IF tableFile.parser = "unit" THEN 5 ELSE 2
    BY <1>1, TablesAssumption DEF Sizes
<1>4. Segments = 1..Len(Sizes)
    BY <1>2 DEF Segments
<1>5. ASSUME NEW k \in Segments
      PROVE  k \in 1..5 /\ tableFile.lengths[k] \in Nat /\ Sizes[k] \in Nat
    <2>1. PICK n \in {2, 5} : n = Len(Sizes)
        BY <1>3
    <2>2. k \in 1..n
        BY <1>4, <2>1
    <2>3. k \in 1..5
        BY <2>1, <2>2
    <2> QED
        BY <1>1, <1>2, <2>1, <2>2, <2>3
<1> QED
    BY <1>1, <1>2, <1>3, <1>4, <1>5

\* Where the tables are, and where copies end.
LEMMA PlacesAre ==
    ASSUME tableFile \in TableFiles
    PROVE  /\ \A k \in Segments :
                  /\ Places[k] \in Nat /\ Places[k] + Sizes[k] <= Top
                  /\ Places[k] + tableFile.lengths[k] <= Top
           /\ \A j, k \in Segments :
                  j # k => \/ Places[j] + Sizes[j] <= Places[k]
                           \/ Places[k] + Sizes[k] <= Places[j]
<1>1. tableFile.parser \in Parser /\ Segments = 1..Len(Sizes) /\ Len(tableFile.lengths) = Len(Sizes)
    BY FileIs
<1>2. Places \in Seq(Nat) /\ Len(Places) = Len(Sizes)
    BY <1>1, TablesAssumption DEF Places, Sizes
<1>3. DOMAIN Places = Segments /\ DOMAIN tableFile.lengths = Segments
    <2>1. tableFile.lengths \in Seq(Nat)
        BY FileIs
    <2> QED
        BY <1>1, <1>2, <2>1
<1>4. \A k \in Segments : Places[k] \in Nat
    BY <1>2, <1>3
<1>5. \A k \in DOMAIN Places : Places[k] + Sizes[k] <= Top
    BY <1>1, TablesAssumption DEF Places, Sizes
<1>6. \A j, k \in DOMAIN Places :
          j # k => \/ Places[j] + Sizes[j] <= Places[k]
                   \/ Places[k] + Sizes[k] <= Places[j]
    BY <1>1, TablesAssumption DEF Places, Sizes
<1>7. \A k \in DOMAIN tableFile.lengths : Places[k] + tableFile.lengths[k] <= Top
    BY TablesAssumption DEF Places
<1> QED
    BY <1>3, <1>4, <1>5, <1>6, <1>7

LEMMA NextBegins ==
    ASSUME tableFile \in TableFiles, NEW k \in Segments, k + 1 \in Segments, Begins[k] \in Nat
    PROVE  /\ Begins[k + 1] = AlignUp(Begins[k] + 4 + tableFile.lengths[k])
           /\ Begins[k + 1] \in Nat /\ Begins[k + 1] % 16 = 0 /\ Begins[k] < Begins[k + 1]
<1>1. k \in 1..5 /\ k + 1 \in 2..5 /\ tableFile.lengths[k] \in Nat
    <2>1. k \in 1..5 /\ k + 1 \in 1..5 /\ tableFile.lengths[k] \in Nat
        BY FileIs
    <2> QED
        BY <2>1
<1>2. (k + 1) - 1 = k
    BY <1>1
<1>3. Begins[k + 1] = AlignUp(Begins[k] + 4 + tableFile.lengths[k])
    BY <1>1, <1>2, BeginsIs
<1>4. PICK n \in Nat : n = Begins[k] + 4 + tableFile.lengths[k] /\ n > Begins[k]
    BY <1>1
<1>5. AlignUp(n) \in n..(n + 15) /\ AlignUp(n) % 16 = 0
    BY <1>4, AlignUpIs
<1> QED
    BY <1>3, <1>4, <1>5

LEMMA BeginsGrow ==
    ASSUME tableFile \in TableFiles
    PROVE  /\ \A k \in Segments : Begins[k] \in Nat /\ Begins[k] % 16 = 0
           /\ \A j, k \in Segments : j < k => Begins[j] < Begins[k]
<1>1. PICK n \in {2, 5} : Segments = 1..n
    BY FileIs
<1>2. Begins[1] \in Nat /\ Begins[1] % 16 = 0
    BY BeginsIs
<1>3. 1 \in Segments /\ 1 + 1 \in Segments
    BY <1>1
<1>4. Begins[2] \in Nat /\ Begins[2] % 16 = 0 /\ Begins[1] < Begins[2]
    <2>1. Begins[1 + 1] \in Nat /\ Begins[1 + 1] % 16 = 0 /\ Begins[1] < Begins[1 + 1]
        BY <1>2, <1>3, NextBegins
    <2> QED
        BY <2>1
<1>5. CASE n = 2
    <2>1. \A k \in Segments : k = 1 \/ k = 2
        BY <1>1, <1>5
    <2> QED
        BY <1>2, <1>4, <2>1
<1>6. CASE n = 5
    <2>1. 2 \in Segments /\ 2 + 1 \in Segments /\ 3 \in Segments /\ 3 + 1 \in Segments
          /\ 4 \in Segments /\ 4 + 1 \in Segments
        BY <1>1, <1>6
    <2>2. Begins[2 + 1] \in Nat /\ Begins[2 + 1] % 16 = 0 /\ Begins[2] < Begins[2 + 1]
        BY <1>4, <2>1, NextBegins
    <2>3. Begins[3] \in Nat /\ Begins[3] % 16 = 0 /\ Begins[2] < Begins[3]
        BY <2>2
    <2>4. Begins[3 + 1] \in Nat /\ Begins[3 + 1] % 16 = 0 /\ Begins[3] < Begins[3 + 1]
        BY <2>1, <2>3, NextBegins
    <2>5. Begins[4] \in Nat /\ Begins[4] % 16 = 0 /\ Begins[3] < Begins[4]
        BY <2>4
    <2>6. Begins[4 + 1] \in Nat /\ Begins[4 + 1] % 16 = 0 /\ Begins[4] < Begins[4 + 1]
        BY <2>1, <2>5, NextBegins
    <2>7. Begins[5] \in Nat /\ Begins[5] % 16 = 0 /\ Begins[4] < Begins[5]
        BY <2>6
    <2>8. \A k \in Segments : k = 1 \/ k = 2 \/ k = 3 \/ k = 4 \/ k = 5
        BY <1>1, <1>6
    <2>9. \A k \in Segments : Begins[k] \in Nat /\ Begins[k] % 16 = 0
        BY <1>2, <1>4, <2>3, <2>5, <2>7, <2>8
    <2>10. \A j, k \in Segments : j < k => Begins[j] < Begins[k]
        BY <1>2, <1>4, <2>3, <2>5, <2>7, <2>8
    <2> QED
        BY <2>9, <2>10
<1> QED
    BY <1>1, <1>5, <1>6

\* The length word where a segment begins is that segment's.
LEMMA LengthThere ==
    ASSUME tableFile \in TableFiles, NEW k \in Segments
    PROVE  LengthAt(Begins[k]) = tableFile.lengths[k]
<1>1. \A j \in Segments : j \in Nat
    BY FileIs
<1>2. \A j \in Segments : Begins[j] = Begins[k] => j = k
    BY <1>1, BeginsGrow
<1>3. (CHOOSE j \in Segments : Begins[j] = Begins[k]) = k
    BY <1>2
<1> QED
    BY <1>3 DEF LengthAt

LEMMA SameReach ==
    ASSUME NEW s, NEW t, NEW a, Reach(s, a) = Reach(t, a)
    PROVE  Written(s, a) = Written(t, a)
<1>1. Last(s, a) = Last(t, a)
    BY DEF Last
<1> QED
    BY <1>1 DEF Written

\* What the next segment adds: its own bytes, wherever it reaches.
LEMMA WrittenNext ==
    ASSUME tableFile \in TableFiles, NEW s \in Segments, NEW a \in Int
    PROVE  Written(s + 1, a) =
               IF Places[s] <= a /\ a < Places[s] + tableFile.lengths[s]
               THEN InFile(Begins[s] + 4 + a - Places[s]) ELSE Written(s, a)
<1>1. \A k \in Segments : k \in Nat
    BY FileIs
<1>2. CASE Places[s] <= a /\ a < Places[s] + tableFile.lengths[s]
    <2>1. s \in Reach(s + 1, a)
        BY <1>1, <1>2 DEF Reach
    <2>2. \A k \in Reach(s + 1, a) : k \in Nat /\ k <= s
        BY <1>1 DEF Reach
    <2>3. Last(s + 1, a) = s
        <3>1. \A j \in Reach(s + 1, a) : j <= s
            BY <2>2
        <3>2. \A k \in Reach(s + 1, a) : (\A j \in Reach(s + 1, a) : j <= k) => k = s
            BY <1>1, <2>1, <2>2
        <3> QED
            BY <2>1, <3>1, <3>2 DEF Last
    <2>4. Reach(s + 1, a) # {}
        BY <2>1
    <2> QED
        BY <1>2, <2>3, <2>4 DEF Written
<1>3. CASE ~(Places[s] <= a /\ a < Places[s] + tableFile.lengths[s])
    <2>1. \A k \in Segments : k # s => (k < s + 1 <=> k < s)
        BY <1>1
    <2>2. Reach(s + 1, a) = Reach(s, a)
        BY <1>1, <1>3, <2>1 DEF Reach
    <2>3. Written(s + 1, a) = Written(s, a)
        BY <2>2, SameReach
    <2> QED
        BY <1>3, <2>3
<1> QED
    BY <1>2, <1>3

\* Before the first segment, and behind the last.
LEMMA WrittenEnds ==
    ASSUME tableFile \in TableFiles, NEW a \in Int
    PROVE  /\ Written(1, a) = IF InTables(a) THEN Fill[tableFile.parser] ELSE Other
           /\ Written(Len(Sizes) + 2, a) = Written(Len(Sizes) + 1, a)
<1>1. PICK n \in {2, 5} : n = Len(Sizes) /\ Segments = 1..n
    BY FileIs
<1>2. \A k \in Segments : ~(k < 1) /\ k < n + 1 /\ k < n + 2
    BY <1>1
<1>3. Reach(1, a) = {}
    BY <1>2 DEF Reach
<1>4. Reach(n + 2, a) = Reach(n + 1, a)
    BY <1>2 DEF Reach
<1>5. Written(1, a) = IF InTables(a) THEN Fill[tableFile.parser] ELSE Other
    BY <1>3 DEF Written
<1>6. Written(n + 2, a) = Written(n + 1, a)
    BY <1>4, SameReach
<1> QED
    BY <1>1, <1>5, <1>6

\* The fields of rows are in the fifth table, and apart.
LEMMA FieldsAre ==
    ASSUME tableFile \in TableFiles, NEW f \in Fields
    PROVE  /\ tableFile.parser = "unit" /\ 5 \in Segments
           /\ f = <<f[1], f[2]>> /\ f[1] \in 1..(Rows - 1) /\ f[2] \in {0, 2}
           /\ AtField(f) \in Address /\ AtField(f) + 1 \in Address
           /\ \A a \in {AtField(f), AtField(f) + 1} : Places[5] <= a /\ a < Places[5] + Sizes[5]
           /\ \A g \in Fields : g # f =>
                  {AtField(g), AtField(g) + 1} \cap {AtField(f), AtField(f) + 1} = {}
<1>1. tableFile.parser = "unit"
    BY DEF Fields
<1>2. \A g \in Fields : g = <<g[1], g[2]>> /\ g[1] \in 1..(Rows - 1) /\ g[2] \in {0, 2}
    BY <1>1 DEF Fields
<1>3. 5 \in Segments
    <2>1. Segments = 1..Len(Sizes) /\ Len(Sizes) = 5
        BY <1>1, FileIs
    <2> QED
        BY <2>1
<1>4. PICK r \in Nat : r = Rows /\ Sizes[5] = 4 * r
    BY <1>1, TablesAssumption DEF Sizes
<1>5. PICK p \in Nat : p = Places[5] /\ p + 4 * r <= Top
    BY <1>3, <1>4, PlacesAre
<1>6. \A g \in Fields : AtField(g) = p + 4 * g[1] + g[2]
    BY <1>5 DEF AtField
<1>7. Top \in Nat
    BY TablesAssumption
<1>8. PICK u \in Nat, h \in {0, 2} : u = f[1] /\ h = f[2] /\ u < r
    BY <1>2, <1>4
<1>9. AtField(f) = p + 4 * u + h
    BY <1>6, <1>8
<1>10. AtField(f) \in Address /\ AtField(f) + 1 \in Address
    BY <1>4, <1>5, <1>7, <1>8, <1>9 DEF Address
<1>11. \A a \in {AtField(f), AtField(f) + 1} : Places[5] <= a /\ a < Places[5] + Sizes[5]
    BY <1>4, <1>5, <1>8, <1>9
<1>12. ASSUME NEW g \in Fields, g # f
       PROVE  {AtField(g), AtField(g) + 1} \cap {AtField(f), AtField(f) + 1} = {}
    <2>1. PICK v \in Nat, i \in {0, 2} : v = g[1] /\ i = g[2]
        BY <1>2, <1>4
    <2>2. v # u \/ i # h
        BY <1>2, <1>8, <1>12, <2>1
    <2>3. AtField(g) = p + 4 * v + i
        BY <1>6, <2>1
    <2> QED
        BY <1>9, <2>2, <2>3
<1> QED
    BY <1>1, <1>2, <1>3, <1>10, <1>11, <1>12

\* What the two bytes of a field hold once all is read, lookups since included.
FieldHolds(f) ==
    \/ <<memory[AtField(f)], memory[AtField(f) + 1]>> = WrittenAt(segment, f)
    \/ /\ WrittenAt(segment, f) = <<Zero, Zero>>
       /\ <<memory[AtField(f)], memory[AtField(f) + 1]>> = IDBytes(f[1])
InField(a) == \E f \in Fields : a \in {AtField(f), AtField(f) + 1}

\* The inductive invariant: the segments before the one that is read are in memory,
\* and the parser is where the next begins.
TablesInv ==
    /\ tableFile \in TableFiles
    /\ segment \in 0..(Len(Sizes) + 2)
    /\ filePos \in Nat /\ filePos % 16 = 0
    /\ segment \in Segments => filePos = Begins[segment]
    /\ memory = [a \in Address |-> memory[a]]
    /\ segment = 0 => \A a \in Address : ~InTables(a) => memory[a] = Other
    /\ segment \in 1..(Len(Sizes) + 1) => \A a \in Address : memory[a] = Written(segment, a)
    /\ segment = Len(Sizes) + 2 =>
           /\ \A a \in Address : memory[a] = Written(segment, a) \/ InField(a)
           /\ \A f \in Fields : FieldHolds(f)
    /\ looked.unit \in UnitIDs \cup {0}

LEMMA TablesInitial == TablesInit => TablesInv
<1> SUFFICES ASSUME TablesInit PROVE TablesInv
    OBVIOUS
<1>1. tableFile \in TableFiles /\ segment = 0 /\ filePos = 0
    BY DEF TablesInit
<1>2. memory = [a \in Address |-> IF InTables(a) THEN Zero ELSE Other]
    BY DEF TablesInit
<1>3. PICK n \in {2, 5} : n = Len(Sizes) /\ Segments = 1..n
    BY <1>1, FileIs
<1>4. /\ segment \in 0..(n + 2) /\ ~(segment \in Segments) /\ ~(segment \in 1..(n + 1))
      /\ segment # n + 2
    BY <1>1, <1>3
<1>5. looked.unit = 0
    BY DEF TablesInit, NotYet
<1>6. memory = [a \in Address |-> memory[a]]
    BY <1>2
<1>7. \A a \in Address : ~InTables(a) => memory[a] = Other
    BY <1>2
<1> QED
    BY <1>1, <1>3, <1>4, <1>5, <1>6, <1>7 DEF TablesInv

\* The file stays, and all that is said of it.
LEMMA FileStays ==
    ASSUME tableFile' = tableFile
    PROVE  /\ Sizes' = Sizes /\ Segments' = Segments /\ Places' = Places /\ Begins' = Begins
           /\ \A at : InFile(at)' = InFile(at)
           /\ \A a : InTables(a)' <=> InTables(a)
           /\ Fields' = Fields /\ \A f : AtField(f)' = AtField(f)
           /\ \A a : InField(a)' <=> InField(a)
<1>1. Sizes' = Sizes /\ Segments' = Segments /\ Places' = Places
    BY DEF Sizes, Segments, Places
<1>2. Begins' = Begins
    BY DEF Begins
<1>3. \A at : InFile(at)' = InFile(at)
    BY DEF InFile
<1>4. \A a : InTables(a)' <=> InTables(a)
    BY <1>1 DEF InTables
<1>5. Fields' = Fields /\ \A f : AtField(f)' = AtField(f)
    BY <1>1 DEF Fields, AtField
<1>6. \A a : InField(a)' <=> InField(a)
    BY <1>5 DEF InField
<1> QED
    BY <1>1, <1>2, <1>3, <1>4, <1>5, <1>6

\* So what is written when the parser is at s is known before.
LEMMA WrittenThen ==
    ASSUME tableFile' = tableFile, NEW s, segment' = s
    PROVE  /\ \A a : Written(segment, a)' = Written(s, a)
           /\ \A f : WrittenAt(segment, f)' = WrittenAt(s, f)
<1>1. ASSUME NEW a PROVE Written(segment, a)' = Written(s, a)
    <2>1. Places' = Places /\ Begins' = Begins /\ (InTables(a)' <=> InTables(a))
          /\ \A at : InFile(at)' = InFile(at)
        BY FileStays
    <2>2. Reach(segment, a)' = Reach(s, a)
        BY FileStays DEF Reach
    <2>3. Last(segment, a)' = Last(s, a)
        BY <2>2 DEF Last
    <2>4. CASE Reach(s, a) # {}
        <3>1. PICK l : l = Last(s, a)
            OBVIOUS
        <3>2. Begins'[l] + 4 + a - Places'[l] = Begins[l] + 4 + a - Places[l]
            BY <2>1
        <3>3. Written(segment, a)' = InFile(Begins[l] + 4 + a - Places[l])
            BY <2>2, <2>3, <2>4, <3>1, <3>2 DEF Written, InFile
        <3>4. Written(s, a) = InFile(Begins[l] + 4 + a - Places[l])
            BY <2>4, <3>1 DEF Written
        <3> QED
            BY <3>3, <3>4
    <2>5. CASE Reach(s, a) = {}
        BY <2>1, <2>2, <2>5 DEF Written
    <2> QED
        BY <2>4, <2>5
<1>2. ASSUME NEW f PROVE WrittenAt(segment, f)' = WrittenAt(s, f)
    <2>1. PICK at : at = AtField(f) /\ AtField(f)' = at
        BY FileStays
    <2>2. WrittenAt(segment, f)' = <<Written(segment, at)', Written(segment, at + 1)'>>
        BY <2>1 DEF WrittenAt
    <2>3. WrittenAt(s, f) = <<Written(s, at), Written(s, at + 1)>>
        BY <2>1 DEF WrittenAt
    <2> QED
        BY <1>1, <2>2, <2>3
<1> QED
    BY <1>1, <1>2

LEMMA ParseStep ==
    ASSUME TablesInv, Parse
    PROVE  TablesInv'
<1>1. /\ segment = 0 /\ segment' = 1 /\ filePos' = 0 /\ tableFile' = tableFile /\ looked' = looked
      /\ memory' = [a \in Address |-> IF InTables(a) THEN Fill[tableFile.parser] ELSE memory[a]]
    BY DEF Parse
<1>2. /\ Sizes' = Sizes /\ Segments' = Segments /\ Begins' = Begins
      /\ \A a : Written(segment, a)' = Written(1, a)
    BY <1>1, FileStays, WrittenThen
<1>3. PICK n \in {2, 5} : n = Len(Sizes) /\ Segments = 1..n
    BY FileIs DEF TablesInv
<1>4. segment' \in 0..(n + 2) /\ segment' # 0 /\ segment' # n + 2
    BY <1>1, <1>3
<1>5. Begins[1] = 0
    BY BeginsIs
<1>6. memory' = [a \in Address |-> memory'[a]]
    BY <1>1
<1>7. \A a \in Address : memory'[a] = Written(1, a)
    <2> TAKE a \in Address
    <2>1. a \in Int
        BY DEF Address
    <2>2. ~InTables(a) => memory[a] = Other
        BY <1>1 DEF TablesInv
    <2>3. memory'[a] = IF InTables(a) THEN Fill[tableFile.parser] ELSE memory[a]
        BY <1>1
    <2>4. tableFile \in TableFiles
        BY DEF TablesInv
    <2> QED
        BY <2>1, <2>2, <2>3, <2>4, WrittenEnds
<1>8. \A a \in Address : memory'[a] = Written(segment, a)'
    BY <1>2, <1>7
<1>9. filePos' \in Nat /\ filePos' % 16 = 0
    BY <1>1
<1> QED
    BY <1>1, <1>2, <1>3, <1>4, <1>5, <1>6, <1>8, <1>9 DEF TablesInv

LEMMA ReadSegmentStep ==
    ASSUME TablesInv, ReadSegment
    PROVE  TablesInv'
<1>1. PICK s \in Segments : s = segment
    BY DEF ReadSegment
<1>2. PICK length : length = LengthAt(filePos)
    OBVIOUS
<1>3. /\ memory' = [a \in Address |->
                        IF Places[s] <= a /\ a < Places[s] + length
                        THEN InFile(filePos + 4 + a - Places[s]) ELSE memory[a]]
      /\ segment' = s + 1 /\ filePos' = filePos + 4 + length + Padding(length)
      /\ tableFile' = tableFile /\ looked' = looked
    BY <1>1, <1>2 DEF ReadSegment
<1>4. /\ Sizes' = Sizes /\ Segments' = Segments /\ Begins' = Begins
      /\ \A a : Written(segment, a)' = Written(s + 1, a)
    BY <1>3, FileStays, WrittenThen
<1>5. tableFile \in TableFiles
    BY DEF TablesInv
<1>6. PICK n \in {2, 5} : n = Len(Sizes) /\ Segments = 1..n
    BY <1>5, FileIs
<1>7. s \in 1..(n + 1) /\ segment' \in 0..(n + 2) /\ segment' # 0 /\ segment' # n + 2
    BY <1>3, <1>6
<1>8. length = tableFile.lengths[s] /\ filePos = Begins[s] /\ length \in Nat
    <2>1. filePos = Begins[s]
        BY <1>1 DEF TablesInv
    <2> QED
        BY <1>2, <1>5, <2>1, LengthThere, FileIs
<1>9. filePos' = AlignUp(filePos + 4 + length) /\ filePos' \in Nat /\ filePos' % 16 = 0
    <2>1. filePos \in Nat /\ filePos % 16 = 0
        BY DEF TablesInv
    <2>2. filePos + 4 + length \in Nat
        BY <1>8, <2>1
    <2>3. filePos' = AlignUp(filePos + 4 + length)
        BY <1>3, <1>8, <2>1, PaddingIs
    <2>4. PICK z : z = filePos + 4 + length
        OBVIOUS
    <2>5. AlignUp(z) \in z..(z + 15) /\ AlignUp(z) % 16 = 0 /\ z \in Nat
        BY <2>2, <2>4, AlignUpIs
    <2>6. AlignUp(z) \in Nat
        BY <2>5
    <2> QED
        BY <2>3, <2>4, <2>5, <2>6
<1>10. segment' \in Segments => filePos' = Begins[segment']
    <2> SUFFICES ASSUME s + 1 \in Segments PROVE filePos' = Begins[s + 1]
        BY <1>3
    <2>1. Begins[s] \in Nat
        BY <1>5, BeginsGrow
    <2> QED
        BY <1>5, <1>8, <1>9, <2>1, NextBegins
<1>11. memory' = [a \in Address |-> memory'[a]]
    BY <1>3
<1>12. \A a \in Address : memory'[a] = Written(s + 1, a)
    <2> TAKE a \in Address
    <2>1. a \in Int
        BY DEF Address
    <2>2. memory[a] = Written(s, a)
        BY <1>1, <1>6, <1>7 DEF TablesInv
    <2>3. memory'[a] = IF Places[s] <= a /\ a < Places[s] + tableFile.lengths[s]
                       THEN InFile(Begins[s] + 4 + a - Places[s]) ELSE memory[a]
        BY <1>3, <1>8
    <2> QED
        BY <1>5, <2>1, <2>2, <2>3, WrittenNext
<1>13. \A a \in Address : memory'[a] = Written(segment, a)'
    BY <1>4, <1>12
<1> QED
    BY <1>3, <1>4, <1>5, <1>6, <1>7, <1>9, <1>10, <1>11, <1>13 DEF TablesInv

LEMMA SwapBytesStep ==
    ASSUME TablesInv, SwapBytes
    PROVE  TablesInv'
<1>1. ~SwapsBytes
    BY DEF SwapsBytes, ClzOfZero
<1>2. /\ segment = Len(Sizes) + 1 /\ segment' = segment + 1 /\ memory' = memory
      /\ tableFile' = tableFile /\ filePos' = filePos /\ looked' = looked
    BY <1>1 DEF SwapBytes
<1>3. /\ Sizes' = Sizes /\ Segments' = Segments /\ Begins' = Begins
      /\ Fields' = Fields /\ \A f : AtField(f)' = AtField(f)
    BY <1>2, FileStays
<1>4. tableFile \in TableFiles
    BY DEF TablesInv
<1>5. PICK n \in {2, 5} : n = Len(Sizes) /\ Segments = 1..n
    BY <1>4, FileIs
<1>6. segment = n + 1 /\ segment' = n + 2 /\ segment \in 1..(n + 1)
    BY <1>2, <1>5
<1>7. /\ segment' \in 0..(n + 2) /\ segment' \notin Segments /\ segment' # 0
      /\ segment' \notin 1..(n + 1)
    BY <1>5, <1>6
<1>8. \A a \in Address : memory[a] = Written(n + 2, a)
    <2> TAKE a \in Address
    <2>1. a \in Int
        BY DEF Address
    <2>2. memory[a] = Written(n + 1, a)
        BY <1>5, <1>6 DEF TablesInv
    <2> QED
        BY <1>4, <1>5, <2>1, <2>2, WrittenEnds
<1>9. /\ \A a : Written(segment, a)' = Written(n + 2, a)
      /\ \A f : WrittenAt(segment, f)' = WrittenAt(n + 2, f)
    BY <1>2, <1>6, WrittenThen
<1>13. \A a \in Address : memory'[a] = Written(segment, a)' \/ InField(a)'
    BY <1>2, <1>8, <1>9
<1>10. \A f \in Fields : FieldHolds(f)'
    <2> TAKE f \in Fields
    <2>1. AtField(f) \in Address /\ AtField(f) + 1 \in Address
        BY <1>4, FieldsAre
    <2>2. <<memory[AtField(f)], memory[AtField(f) + 1]>> = WrittenAt(n + 2, f)
        BY <1>8, <2>1 DEF WrittenAt
    <2>3. <<memory[AtField(f)], memory[AtField(f) + 1]>>' = WrittenAt(segment, f)'
        BY <1>2, <1>3, <1>9, <2>2
    <2> QED
        BY <2>3 DEF FieldHolds
<1> QED
    BY <1>2, <1>3, <1>4, <1>5, <1>6, <1>7, <1>10, <1>13 DEF TablesInv

\* The field of a lookup.
LEMMA FieldIsThere ==
    ASSUME tableFile \in TableFiles, tableFile.parser = "unit",
           NEW unit \in 1..(Rows - 1), NEW field \in {"persona", "model"},
           NEW f, f = <<unit, IF field = "persona" THEN 0 ELSE 2>>
    PROVE  f \in Fields /\ AtField(f) = Places[5] + FieldAt(unit, field) /\ f[1] = unit
<1>1. PICK h \in {0, 2} : h = IF field = "persona" THEN 0 ELSE 2
    OBVIOUS
<1>2. f = <<unit, h>> /\ f[1] = unit /\ f[2] = h
    BY <1>1
<1>3. f \in Fields
    BY <1>2 DEF Fields
<1>4. FieldAt(unit, field) = 4 * unit + h
    <2>1. unit \in Int
        OBVIOUS
    <2> QED
        BY <1>1, <2>1 DEF FieldAt
<1>5. AtField(f) = Places[5] + 4 * unit + h
    BY <1>2 DEF AtField
<1>6. PICK p \in Nat, u \in Nat : p = Places[5] /\ u = unit
    <2>1. 5 \in Segments
        BY <1>3, FieldsAre
    <2> QED
        BY <2>1, PlacesAre
<1>7. p + 4 * u + h = p + (4 * u + h)
    BY <1>6
<1> QED
    BY <1>2, <1>3, <1>4, <1>5, <1>6, <1>7

\* A lookup that sets a field sets that one and nothing else.
LEMMA SettingStep ==
    ASSUME TablesInv, NEW f \in Fields, NEW at, at = AtField(f),
           <<memory[at], memory[at + 1]>> = <<Zero, Zero>>,
           memory' = [memory EXCEPT ![at] = IDBytes(f[1])[1], ![at + 1] = IDBytes(f[1])[2]],
           segment \in {0, Len(Sizes) + 2}, segment' = segment,
           tableFile' = tableFile, filePos' = filePos, looked'.unit \in UnitIDs \cup {0}
    PROVE  TablesInv'
<1>1. tableFile \in TableFiles /\ memory = [a \in Address |-> memory[a]]
    BY DEF TablesInv
<1>2. /\ Sizes' = Sizes /\ Segments' = Segments /\ Begins' = Begins
      /\ \A a : InTables(a)' <=> InTables(a)
      /\ Fields' = Fields /\ \A g : AtField(g)' = AtField(g)
      /\ \A a : Written(segment, a)' = Written(segment, a)
      /\ \A g : WrittenAt(segment, g)' = WrittenAt(segment, g)
      /\ \A a : InField(a)' <=> InField(a)
    BY FileStays, WrittenThen
<1>3. PICK n \in {2, 5} : n = Len(Sizes) /\ Segments = 1..n
    BY <1>1, FileIs
<1>4. /\ at \in Address /\ at + 1 \in Address /\ at # at + 1 /\ 5 \in Segments
      /\ \A a \in {at, at + 1} : Places[5] <= a /\ a < Places[5] + Sizes[5]
    BY <1>1, FieldsAre DEF Address
<1>5. PICK x, y : x = IDBytes(f[1])[1] /\ y = IDBytes(f[1])[2] /\ IDBytes(f[1]) = <<x, y>>
    BY DEF IDBytes
<1>6. memory' = [memory EXCEPT ![at] = x, ![at + 1] = y]
    BY <1>5
<1>7. /\ memory'[at] = x /\ memory'[at + 1] = y
      /\ \A a \in Address : a \notin {at, at + 1} => memory'[a] = memory[a]
      /\ memory' = [a \in Address |-> memory'[a]]
    <2>1. DOMAIN memory = Address
        BY <1>1
    <2> QED
        BY <1>4, <1>6, <2>1
<1>8. ASSUME segment = 0, NEW a \in Address, ~InTables(a) PROVE memory'[a] = Other
    <2>1. a \notin {at, at + 1}
        BY <1>4, <1>8 DEF InTables
    <2> QED
        BY <1>7, <1>8, <2>1 DEF TablesInv
<1>9. ASSUME segment = n + 2, NEW a \in Address
      PROVE  memory'[a] = Written(segment, a) \/ InField(a)
    <2>1. CASE a \in {at, at + 1}
        BY <2>1 DEF InField
    <2>2. CASE a \notin {at, at + 1}
        BY <1>3, <1>7, <1>9, <2>2 DEF TablesInv
    <2> QED
        BY <2>1, <2>2
<1>10. ASSUME segment = n + 2, NEW g \in Fields PROVE FieldHolds(g)'
    <2>1. FieldHolds(g)
        BY <1>3, <1>10 DEF TablesInv
    <2>2. CASE g = f
        <3>1. WrittenAt(segment, f) = <<Zero, Zero>>
            BY <2>1, <2>2 DEF FieldHolds
        <3>2. <<memory'[AtField(f)], memory'[AtField(f) + 1]>> = IDBytes(f[1])
            BY <1>5, <1>7
        <3> QED
            BY <1>2, <2>2, <3>1, <3>2 DEF FieldHolds
    <2>3. CASE g # f
        <3>1. AtField(g) \in Address /\ AtField(g) + 1 \in Address
            BY <1>1, FieldsAre
        <3>2. {AtField(g), AtField(g) + 1} \cap {at, at + 1} = {}
            BY <1>1, <2>3, FieldsAre
        <3>3. memory'[AtField(g)] = memory[AtField(g)] /\ memory'[AtField(g) + 1] = memory[AtField(g) + 1]
            BY <1>7, <3>1, <3>2
        <3> QED
            BY <1>2, <2>1, <3>3 DEF FieldHolds
    <2> QED
        BY <2>2, <2>3
<1>11. segment \notin 1..(n + 1)
    BY <1>3
<1>12. ASSUME segment = n + 2, NEW a \in Address
       PROVE  memory'[a] = Written(segment, a)' \/ InField(a)'
    BY <1>2, <1>9, <1>12
<1>13. /\ segment' \in 0..(Len(Sizes') + 2) /\ filePos' \in Nat /\ filePos' % 16 = 0
       /\ segment' \in Segments' => filePos' = Begins'[segment']
    BY <1>2 DEF TablesInv
<1> QED
    BY <1>1, <1>2, <1>3, <1>7, <1>8, <1>10, <1>11, <1>12, <1>13 DEF TablesInv

\* What no change of memory leaves as it is.
LEMMA StillStep ==
    ASSUME TablesInv, memory' = memory, segment' = segment, tableFile' = tableFile,
           filePos' = filePos, looked'.unit \in UnitIDs \cup {0}
    PROVE  TablesInv'
<1>1. /\ Sizes' = Sizes /\ Segments' = Segments /\ Begins' = Begins
      /\ \A a : InTables(a)' <=> InTables(a)
      /\ Fields' = Fields /\ \A g : AtField(g)' = AtField(g)
      /\ \A a : Written(segment, a)' = Written(segment, a)
      /\ \A g : WrittenAt(segment, g)' = WrittenAt(segment, g)
      /\ \A a : InField(a)' <=> InField(a)
    BY FileStays, WrittenThen
<1>2. \A f : FieldHolds(f)' <=> FieldHolds(f)
    BY <1>1 DEF FieldHolds
<1> QED
    BY <1>1, <1>2 DEF TablesInv

LEMMA VisualSegmentStep ==
    ASSUME TablesInv, NEW unit \in UnitIDs, NEW field \in {"persona", "model"},
           VisualSegment(unit, field)
    PROVE  TablesInv'
<1>1. /\ tableFile.parser = "unit" /\ segment \in {0, Len(Sizes) + 2}
      /\ tableFile' = tableFile /\ segment' = segment /\ filePos' = filePos
    BY DEF VisualSegment
<1>2. looked'.unit = unit /\ unit \in UnitIDs \cup {0}
    BY DEF VisualSegment
<1>3. PICK at : at = Places[5] + FieldAt(unit, field)
    OBVIOUS
<1>4. \/ memory' = memory
      \/ /\ unit \in 1..(Rows - 1) /\ <<memory[at], memory[at + 1]>> = <<Zero, Zero>>
         /\ memory' = [memory EXCEPT ![at] = IDBytes(unit)[1], ![at + 1] = IDBytes(unit)[2]]
    BY <1>3 DEF VisualSegment
<1>5. CASE memory' = memory
    BY <1>1, <1>2, <1>5, StillStep
<1>6. CASE /\ unit \in 1..(Rows - 1) /\ <<memory[at], memory[at + 1]>> = <<Zero, Zero>>
           /\ memory' = [memory EXCEPT ![at] = IDBytes(unit)[1], ![at + 1] = IDBytes(unit)[2]]
    <2>1. PICK f : f = <<unit, IF field = "persona" THEN 0 ELSE 2>>
        OBVIOUS
    <2>2. f \in Fields /\ at = AtField(f) /\ f[1] = unit
        BY <1>1, <1>3, <1>6, <2>1, FieldIsThere DEF TablesInv
    <2>3. memory' = [memory EXCEPT ![at] = IDBytes(f[1])[1], ![at + 1] = IDBytes(f[1])[2]]
        BY <1>6, <2>2
    <2>4. <<memory[at], memory[at + 1]>> = <<Zero, Zero>> /\ at = AtField(f) /\ f \in Fields
        BY <1>6, <2>2
    <2> QED
        BY <1>1, <1>2, <2>3, <2>4, SettingStep
<1> QED
    BY <1>4, <1>5, <1>6

LEMMA TablesStep == TablesInv /\ [TablesNext]_tableVars => TablesInv'
<1> SUFFICES ASSUME TablesInv, [TablesNext]_tableVars PROVE TablesInv'
    OBVIOUS
<1>1. CASE Parse
    BY <1>1, ParseStep
<1>2. CASE ReadSegment
    BY <1>2, ReadSegmentStep
<1>3. CASE SwapBytes
    BY <1>3, SwapBytesStep
<1>4. ASSUME NEW u \in UnitIDs, NEW f \in {"persona", "model"}, VisualSegment(u, f)
      PROVE  TablesInv'
    BY <1>4, VisualSegmentStep
<1>5. CASE UNCHANGED tableVars
    <2>1. /\ tableFile' = tableFile /\ memory' = memory /\ segment' = segment
          /\ filePos' = filePos /\ looked' = looked
        BY <1>5 DEF tableVars
    <2>2. looked'.unit \in UnitIDs \cup {0}
        BY <2>1 DEF TablesInv
    <2> QED
        BY <2>1, <2>2, StillStep
<1> QED
    BY <1>1, <1>2, <1>3, <1>4, <1>5 DEF TablesNext

(* Memory is what the segments read so far say, each copied in full over what is
   where its table begins, and the parser is where the next one begins, whatever
   the segments' lengths and lookups. *)
THEOREM TablesInvariant == TablesSpec => []TablesInv
<1> QED
    BY TablesInitial, TablesStep, PTL DEF TablesSpec

LEMMA TablesTypesFit == TablesInv => TablesTypeOK
<1> SUFFICES ASSUME TablesInv PROVE TablesTypeOK
    OBVIOUS
<1>1. DOMAIN memory = Address
    BY DEF TablesInv
<1> QED
    BY <1>1 DEF TablesInv, TablesTypeOK

LEMMA CopiedToMemory == TablesInv => MemoryAsCopied
<1> SUFFICES ASSUME TablesInv, segment > 0
             PROVE  /\ \A a \in Address : memory[a] = Written(segment, a) \/ InField(a)
                    /\ \A f \in Fields : FieldHolds(f)
    BY DEF MemoryAsCopied, InField, FieldHolds
<1>1. tableFile \in TableFiles
    BY DEF TablesInv
<1>2. PICK n \in {2, 5} : n = Len(Sizes)
    BY <1>1, FileIs
<1>3. segment \in 1..(n + 1) \/ segment = n + 2
    BY <1>2 DEF TablesInv
<1>4. CASE segment \in 1..(n + 1)
    <2>1. \A a \in Address : memory[a] = Written(segment, a)
        BY <1>2, <1>4 DEF TablesInv
    <2>2. \A f \in Fields : AtField(f) \in Address /\ AtField(f) + 1 \in Address
        BY <1>1, FieldsAre
    <2>3. \A f \in Fields :
              <<memory[AtField(f)], memory[AtField(f) + 1]>> = WrittenAt(segment, f)
        BY <2>1, <2>2 DEF WrittenAt
    <2> QED
        BY <2>1, <2>3 DEF FieldHolds
<1>5. CASE segment = n + 2
    BY <1>2, <1>5 DEF TablesInv
<1> QED
    BY <1>3, <1>4, <1>5

\* What is written where every segment fits.
LEMMA FittingIsWritten ==
    ASSUME tableFile \in TableFiles, \A k \in Segments : tableFile.lengths[k] <= Sizes[k]
    PROVE  LET s == Len(Sizes) + 2
           IN  /\ \A a \in Address : ~InTables(a) => Written(s, a) = Other
               /\ \A k \in Segments : \A i \in 0..(Sizes[k] - 1) :
                      /\ Places[k] + i \in Address
                      /\ Written(s, Places[k] + i) =
                             IF i < tableFile.lengths[k] THEN InFile(Begins[k] + 4 + i)
                                                         ELSE Fill[tableFile.parser]
<1>1. PICK n \in {2, 5} : n = Len(Sizes) /\ Segments = 1..n
    BY FileIs
<1>2. PICK s \in Nat : s = Len(Sizes) + 2 /\ \A k \in Segments : k < s
    BY <1>1
<1>3. \A k \in Segments : Places[k] \in Nat /\ Sizes[k] \in Nat /\ tableFile.lengths[k] \in Nat
    BY FileIs, PlacesAre
<1>4. ASSUME NEW a \in Int, NEW k \in Reach(s, a)
      PROVE  k \in Segments /\ Places[k] <= a /\ a < Places[k] + Sizes[k]
    <2>1. k \in Segments /\ Places[k] <= a /\ a < Places[k] + tableFile.lengths[k]
        BY <1>4 DEF Reach
    <2>2. tableFile.lengths[k] <= Sizes[k]
        BY <2>1
    <2> QED
        BY <1>3, <2>1, <2>2
<1>5. ASSUME NEW a \in Address, ~InTables(a) PROVE Written(s, a) = Other
    <2>1. a \in Int
        BY DEF Address
    <2>2. Reach(s, a) = {}
        BY <1>4, <1>5, <2>1 DEF InTables
    <2> QED
        BY <1>5, <2>2 DEF Written
<1>6. ASSUME NEW k \in Segments, NEW i \in 0..(Sizes[k] - 1)
      PROVE  /\ Places[k] + i \in Address
             /\ Written(s, Places[k] + i) =
                    IF i < tableFile.lengths[k] THEN InFile(Begins[k] + 4 + i)
                                                ELSE Fill[tableFile.parser]
    <2>1. PICK p \in Nat, z \in Nat, l \in Nat :
              p = Places[k] /\ z = Sizes[k] /\ l = tableFile.lengths[k]
        BY <1>3
    <2>2. PICK a \in Nat : a = p + i /\ a < p + z /\ i \in Nat
        BY <2>1
    <2>3. a \in Address
        <3>1. p + z <= Top /\ Top \in Nat
            BY <2>1, PlacesAre, TablesAssumption
        <3> QED
            BY <2>2, <3>1 DEF Address
    <2>4. InTables(a)
        BY <2>1, <2>2 DEF InTables
    <2>5. \A j \in Reach(s, a) : j = k
        <3> TAKE j \in Reach(s, a)
        <3>1. j \in Segments /\ Places[j] <= a /\ a < Places[j] + Sizes[j]
            BY <1>4
        <3>2. j # k => Places[j] + Sizes[j] <= p \/ p + z <= Places[j]
            BY <2>1, <3>1, PlacesAre
        <3> QED
            BY <1>3, <2>2, <3>1, <3>2
    <2>6. k \in Reach(s, a) <=> i < l
        BY <1>2, <2>1, <2>2 DEF Reach
    <2>7. CASE i < l
        <3>1. k \in Reach(s, a) /\ k <= k
            BY <1>1, <2>6, <2>7
        <3>2. Last(s, a) = k
            BY <2>5, <3>1 DEF Last
        <3>3. Written(s, a) = InFile(Begins[k] + 4 + a - Places[k])
            BY <3>1, <3>2 DEF Written
        <3>4. Begins[k] + 4 + a - Places[k] = Begins[k] + 4 + i
            <4>1. Begins[k] \in Nat
                BY BeginsGrow
            <4> QED
                BY <2>1, <2>2, <4>1
        <3> QED
            BY <2>1, <2>2, <2>3, <2>7, <3>3, <3>4
    <2>8. CASE ~(i < l)
        <3>1. Reach(s, a) = {}
            BY <2>5, <2>6, <2>8
        <3>2. Written(s, a) = Fill[tableFile.parser]
            BY <2>4, <3>1 DEF Written
        <3> QED
            BY <2>1, <2>2, <2>3, <2>8, <3>2
    <2> QED
        BY <2>7, <2>8
<1> QED
    BY <1>2, <1>5, <1>6

LEMMA HeldByTables == TablesInv => TablesHoldTheFile
<1> SUFFICES ASSUME TablesInv, segment = Len(Sizes) + 2,
                    \A k \in Segments : tableFile.lengths[k] <= Sizes[k]
             PROVE  /\ \A k \in Segments : \A i \in 0..(Sizes[k] - 1) :
                           LET own  == IF i < tableFile.lengths[k] THEN InFile(Begins[k] + 4 + i)
                                                                   ELSE Fill[tableFile.parser]
                               byte == memory[Places[k] + i]
                           IN  \/ byte = own
                               \/ k = 5 /\ own = Zero /\ byte.from = "own"
                    /\ \A a \in Address : ~InTables(a) => memory[a] = Other
    BY DEF TablesHoldTheFile
<1>1. tableFile \in TableFiles
    BY DEF TablesInv
<1>2. /\ \A a \in Address : memory[a] = Written(segment, a) \/ InField(a)
      /\ \A f \in Fields : FieldHolds(f)
    BY DEF TablesInv
<1>3. /\ \A a \in Address : ~InTables(a) => Written(segment, a) = Other
      /\ \A k \in Segments : \A i \in 0..(Sizes[k] - 1) :
             /\ Places[k] + i \in Address
             /\ Written(segment, Places[k] + i) =
                    IF i < tableFile.lengths[k] THEN InFile(Begins[k] + 4 + i)
                                                ELSE Fill[tableFile.parser]
    BY <1>1, FittingIsWritten
<1>4. ASSUME NEW a \in Address, InField(a)
      PROVE  /\ 5 \in Segments /\ Places[5] <= a /\ a < Places[5] + Sizes[5]
             /\ \/ memory[a] = Written(segment, a)
                \/ Written(segment, a) = Zero /\ memory[a].from = "own"
    <2>1. PICK f \in Fields : a \in {AtField(f), AtField(f) + 1}
        BY <1>4 DEF InField
    <2>2. 5 \in Segments /\ Places[5] <= a /\ a < Places[5] + Sizes[5]
        BY <1>1, <2>1, FieldsAre
    <2>3. PICK x, y : IDBytes(f[1]) = <<x, y>> /\ x.from = "own" /\ y.from = "own"
        <3>1. /\ IDBytes(f[1]) = <<Cell("own", 2 * f[1]), Cell("own", 2 * f[1] + 1)>>
              /\ Cell("own", 2 * f[1]).from = "own" /\ Cell("own", 2 * f[1] + 1).from = "own"
            BY DEF IDBytes, Cell
        <3> QED
            BY <3>1
    <2>4. \/ /\ memory[AtField(f)] = Written(segment, AtField(f))
             /\ memory[AtField(f) + 1] = Written(segment, AtField(f) + 1)
          \/ /\ Written(segment, AtField(f)) = Zero /\ Written(segment, AtField(f) + 1) = Zero
             /\ memory[AtField(f)] = x /\ memory[AtField(f) + 1] = y
        <3>1. FieldHolds(f)
            BY <1>2
        <3> QED
            BY <2>3, <3>1 DEF FieldHolds, WrittenAt
    <2> QED
        BY <2>1, <2>2, <2>3, <2>4
<1>5. ASSUME NEW a \in Address, ~InTables(a) PROVE memory[a] = Other
    <2>1. ~InField(a)
        BY <1>4, <1>5 DEF InTables
    <2> QED
        BY <1>2, <1>3, <1>5, <2>1
<1>6. ASSUME NEW k \in Segments, NEW i \in 0..(Sizes[k] - 1),
             NEW own, own = IF i < tableFile.lengths[k] THEN InFile(Begins[k] + 4 + i)
                                                        ELSE Fill[tableFile.parser]
      PROVE  \/ memory[Places[k] + i] = own
             \/ k = 5 /\ own = Zero /\ memory[Places[k] + i].from = "own"
    <2>1. PICK a \in Address : a = Places[k] + i /\ Written(segment, a) = own
        BY <1>3, <1>6
    <2>2. CASE ~InField(a)
        BY <1>2, <2>1, <2>2
    <2>3. CASE InField(a)
        <3>1. k = 5
            <4>1. 5 \in Segments /\ Places[5] <= a /\ a < Places[5] + Sizes[5]
                BY <1>4, <2>3
            <4>2. PICK p \in Nat, z \in Nat, q \in Nat, y \in Nat :
                      p = Places[k] /\ z = Sizes[k] /\ q = Places[5] /\ y = Sizes[5]
                BY <1>1, <4>1, PlacesAre, FileIs
            <4>3. a = p + i /\ i \in 0..(z - 1) /\ q <= a /\ a < q + y
                BY <2>1, <4>1, <4>2
            <4>4. k # 5 => p + z <= q \/ q + y <= p
                BY <1>1, <4>1, <4>2, PlacesAre
            <4> QED
                BY <4>3, <4>4
        <3> QED
            BY <1>4, <2>1, <2>3, <3>1
    <2> QED
        BY <2>2, <2>3
<1> QED
    BY <1>5, <1>6

LEMMA AnswersAsWritten ==
    ASSUME TablesInv, TablesNext, segment = Len(Sizes) + 2, looked' # looked,
           looked'.unit \in 1..(Rows - 1)
    PROVE  LET w == WrittenAt(segment, <<looked'.unit, IF looked'.field = "persona" THEN 0 ELSE 2>>)
           IN  looked'.id = (IF w = <<Zero, Zero>> THEN IDBytes(looked'.unit) ELSE w)
<1>1. ~Parse /\ ~ReadSegment /\ ~SwapBytes
    BY DEF Parse, ReadSegment, SwapBytes
<1>2. PICK u \in UnitIDs, field \in {"persona", "model"} : VisualSegment(u, field)
    BY <1>1 DEF TablesNext
<1>3. looked'.unit = u /\ looked'.field = field /\ tableFile.parser = "unit"
    BY <1>2 DEF VisualSegment
<1>4. PICK f : f = <<u, IF field = "persona" THEN 0 ELSE 2>>
    OBVIOUS
<1>5. u \in Int /\ Rows \in Nat /\ u \in 1..(Rows - 1)
    BY <1>3, TablesAssumption
<1>6. f \in Fields /\ AtField(f) = Places[5] + FieldAt(u, field) /\ f[1] = u
    BY <1>3, <1>4, <1>5, FieldIsThere DEF TablesInv
<1>7. PICK is : is = <<memory[AtField(f)], memory[AtField(f) + 1]>>
    OBVIOUS
<1>8. looked'.id = IF is = <<Zero, Zero>> THEN IDBytes(u) ELSE is
    BY <1>2, <1>5, <1>6, <1>7 DEF VisualSegment
<1>9. \/ is = WrittenAt(segment, f)
      \/ WrittenAt(segment, f) = <<Zero, Zero>> /\ is = IDBytes(u)
    <2>1. FieldHolds(f)
        BY <1>6 DEF TablesInv
    <2> QED
        BY <1>6, <1>7, <2>1 DEF FieldHolds
<1>10. looked'.id = IF WrittenAt(segment, f) = <<Zero, Zero>> THEN IDBytes(u) ELSE WrittenAt(segment, f)
    BY <1>8, <1>9
<1> QED
    BY <1>3, <1>4, <1>10

(* Every byte of memory, of the tables and around them, and every answer from the
   tables are the file's: for every length of the segments, each copied in full, so
   that one longer than its table is found over what follows, for every place of the
   tables, and for every order of lookups before and after the parsing (dc.c's and
   scarltz.c's parsers). *)
THEOREM TablesAsFiledCorrect == TablesSpec => TablesAsFiled
<1>1. TablesInv => TablesTypeOK /\ MemoryAsCopied /\ TablesHoldTheFile
    BY TablesTypesFit, CopiedToMemory, HeldByTables
<1>2. TablesInv /\ [TablesNext]_tableVars
        => [segment = Len(Sizes) + 2 /\ looked' # looked /\ looked'.unit \in 1..(Rows - 1) =>
                LET w == WrittenAt(segment, <<looked'.unit, IF looked'.field = "persona" THEN 0 ELSE 2>>)
                IN  looked'.id = (IF w = <<Zero, Zero>> THEN IDBytes(looked'.unit) ELSE w)]_tableVars
    BY AnswersAsWritten
<1> QED
    BY <1>1, <1>2, TablesInvariant, PTL DEF TablesSpec, TablesAsFiled, LookupsAsWritten
===============================================================================
