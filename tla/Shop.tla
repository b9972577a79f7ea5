--------------------------------- MODULE Shop ---------------------------------
(***************************************************************************)
(* Buying at a shop with the hooks of prx/modules/p5/SecreC/SecreC.c.      *)
(* Some shops take a count of the game instead of money, and shop 70 buys  *)
(* from the player: three functions say which currency a shop reads,       *)
(* writes and is shown with, and seven hooks turn a purchase round.  How   *)
(* the game strings the calls together is external.                        *)
(***************************************************************************)
EXTENDS Integers, FiniteSets

CONSTANTS
    ShopIDs,      \* shops that are visited
    Goods,        \* items on sale: id, price, itemsPerUnit and the shops
    Quantities,   \* how many units are bought at once
    Finds,        \* how many of a returnable item are found at once
    Funds         \* what a new player has of each currency

UsedClothes == 70
LastItem == 99         \* the game's limit of an item

\* 0x1000 + 14, 15, 48, ...: clothes that can be sold again.
Returnable ==
    {4096 + n : n \in {14, 15, 48, 49, 68, 69, 88, 89, 108, 109, 128, 129, 148,
                       149, 168, 169, 188, 189}}

\* The table of shops is data of the game: returnable clothes are what shop 70
\* has, and nothing else is there.
ASSUME ShopAssumption ==
    /\ ShopIDs \subseteq 0..89 /\ Funds \in Nat
    /\ Quantities \subseteq 1..LastItem /\ Finds \in 1..LastItem
    /\ \A g \in Goods : /\ g.price \in Nat \ {0} /\ g.itemsPerUnit \in 1..LastItem
                        /\ g.shops \subseteq 0..89
                        /\ g.id \in Returnable <=> g.shops = {UsedClothes}
                        /\ UsedClothes \in g.shops =>
                               g.shops = {UsedClothes} /\ g.itemsPerUnit = 1
    /\ \A g, h \in Goods : g.id = h.id => g = h

VARIABLES
    wallet,    \* money and the counts 8, 90 and 162
    stocks,    \* numbers of the items
    ShopID,    \* the shop that is open, or -1
    SpendableMoney,
    order      \* what is about to be bought

shopVars == <<wallet, stocks, ShopID, SpendableMoney, order>>

Currencies == {"money", "count8", "count90", "count162"}
NoShop == -1
NoOrder == [id |-> 0, price |-> 0, itemsPerUnit |-> 0, quantity |-> 0]
ItemIDs == {g.id : g \in Goods}

(* The three lists of shops, as the three functions have them. *)
SpentIn(shop) ==           \* SubtractCurrencyForPurchase
    CASE shop = 72         -> "count90"
      [] shop \in {75, 76} -> "count162"
      [] shop = 85         -> "count8"
      [] OTHER             -> "money"

ReadFrom(shop) ==          \* ReturnSpendableCurrency
    CASE shop = 72         -> "count90"
      [] shop \in {75, 76} -> "count162"
      [] shop = 85         -> "count8"
      [] OTHER             -> "money"

ReturnSpendableCurrency(shop) == wallet[ReadFrom(shop)]
SubtractCurrencyForPurchase(shop, sum) ==
    wallet' = [wallet EXCEPT ![SpentIn(shop)] = sum]

\* The number the game takes for the number owned when it limits a purchase.
InverseItemPurchaseLimit(id) ==
    IF id \in Returnable THEN LastItem - stocks[id] ELSE stocks[id]

\* FUN_005a7098Hook and FUN_00597740Hook.
Cost(shop, sum) == IF shop = UsedClothes THEN -1 * sum ELSE sum

Byte(n) == n % 256

\* units taken for items
SetUnits(shop, o) ==
    LET change == Byte(o.quantity)
    IN  stocks' = [stocks EXCEPT ![o.id] =
                      IF shop = UsedClothes THEN @ - change ELSE @ + change]

\* SET_ITEM_NUM_Hook with the pointer to a purchase.
SET_ITEM_NUM(shop, o) ==
    LET change == Byte(o.itemsPerUnit * o.quantity)
    IN  stocks' = [stocks EXCEPT ![o.id] =
                      IF shop = UsedClothes THEN @ - change ELSE @ + change]
------------------------------------------------------------------------------
ShopInit ==
    /\ wallet = [c \in Currencies |-> Funds]
    /\ stocks = [i \in ItemIDs |-> 0]
    /\ ShopID = NoShop /\ SpendableMoney = 0 /\ order = NoOrder

Visit(shop) ==
    /\ ShopID = NoShop
    /\ ShopID' = shop
    /\ SpendableMoney' = ReturnSpendableCurrency(shop)
    /\ UNCHANGED <<wallet, stocks, order>>

\* FUN_005a6b78Hook and FUN_005a5130Hook: before the limit is worked out, shop
\* 70 is given money without end.
Allowance == IF ShopID = UsedClothes THEN 9999999 ELSE SpendableMoney

Choose(g, n) ==
    /\ ShopID \in g.shops /\ order = NoOrder
    /\ SpendableMoney' = Allowance
    /\ n * g.price <= SpendableMoney'
    /\ InverseItemPurchaseLimit(g.id) + n * g.itemsPerUnit <= LastItem
    /\ order' = [id |-> g.id, price |-> g.price,
                 itemsPerUnit |-> g.itemsPerUnit, quantity |-> n]
    /\ UNCHANGED <<wallet, stocks, ShopID>>

(* The cost is taken from what the shop reads, and what is left is written. *)
Buy ==
    /\ order # NoOrder
    /\ LET cost == Cost(ShopID, order.price * order.quantity)
           left == ReturnSpendableCurrency(ShopID) - cost
       IN  /\ SubtractCurrencyForPurchase(ShopID, left)
           /\ SpendableMoney' = left
    /\ SET_ITEM_NUM(ShopID, order)
    /\ order' = NoOrder
    /\ UNCHANGED ShopID

Decline ==
    /\ order # NoOrder
    /\ order' = NoOrder
    /\ UNCHANGED <<wallet, stocks, ShopID, SpendableMoney>>

LeaveShop ==
    /\ ShopID # NoShop /\ order = NoOrder
    /\ ShopID' = NoShop /\ SpendableMoney' = 0
    /\ UNCHANGED <<wallet, stocks, order>>

\* Clothes get dirty elsewhere; the bound keeps who sells them from growing rich.
Find(id) ==
    /\ ShopID = NoShop
    /\ id \in Returnable /\ stocks[id] + Finds <= LastItem
    /\ wallet["money"] <= Funds
    /\ stocks' = [stocks EXCEPT ![id] = @ + Finds]
    /\ UNCHANGED <<wallet, ShopID, SpendableMoney, order>>

ShopNext ==
    \/ \E id \in ItemIDs : Find(id)
    \/ \E shop \in ShopIDs : Visit(shop)
    \/ \E g \in Goods, n \in Quantities : Choose(g, n)
    \/ Buy \/ Decline \/ LeaveShop

ShopSpec == ShopInit /\ [][ShopNext]_shopVars
------------------------------------------------------------------------------
\* Types of all variables.
ShopTypeOK ==
    /\ wallet \in [Currencies -> Int]
    /\ stocks \in [ItemIDs -> Int]
    /\ ShopID \in ShopIDs \cup {NoShop}
    /\ SpendableMoney \in Int
    /\ \/ order = NoOrder
       \/ \E g \in Goods, n \in Quantities :
              /\ ShopID \in g.shops
              /\ order = [id |-> g.id, price |-> g.price,
                          itemsPerUnit |-> g.itemsPerUnit, quantity |-> n]

(* What the limits of a purchase are for, with the limit turned round in one
   shop and switched off in the other: nobody owes money, and no item is owned
   less than never or more often than the game can store. *)
NothingOwed == \A c \in Currencies : wallet[c] >= 0
ItemsInRange == \A i \in ItemIDs : stocks[i] \in 0..LastItem

(* The sum a shop shows and limits purchases with is what the player has of
   the currency it is about to take: reading, keeping and spending agree for
   every shop.  Shop 70 pretends, from the first choice on. *)
ShownIsOwned ==
    ShopID \notin {NoShop, UsedClothes} =>
        SpendableMoney = wallet[SpentIn(ShopID)]

(* A purchase moves exactly its price and exactly its goods, both ways round,
   and touches no other currency. *)
Signed(n) == IF ShopID = UsedClothes THEN 0 - n ELSE n
FairTrade ==
    [][order # NoOrder /\ stocks' # stocks =>
        /\ wallet' = [wallet EXCEPT ![ReadFrom(ShopID)] =
                         @ - Signed(order.price * order.quantity)]
        /\ stocks' = [stocks EXCEPT ![order.id] =
                         @ + Signed(order.itemsPerUnit * order.quantity)]]_shopVars

(* Money, items and what is shown of them agree, in every shop and currency. *)
ShopKeepsBooks ==
    [](ShopTypeOK /\ NothingOwed /\ ItemsInRange /\ ShownIsOwned) /\ FairTrade
===============================================================================
