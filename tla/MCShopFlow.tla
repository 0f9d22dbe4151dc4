------------------------------ MODULE MCShopFlow ------------------------------
(* ShopFlow for TLC: two stores, a category and one below it, the offers and *)
(* their changes, and the carts and orders of a small shop.                  *)
EXTENDS ShopFlow

CONSTANTS s1, s2, root, leaf, spare, c1, c2, x1, x2, p1, p2, q1, q2

\* Store products 1 and 2 are of the root category and the leaf in s1; 3 is the
\* first product in the central store s2; 4 costs nothing.
Of(store, product, variation, cat, brand) ==
    [store |-> store, product |-> product, variation |-> variation,
     category |-> cat, brand |-> brand, model |-> product]
SmallShop ==
    1 :> Of(s1, "shoe", "shoe38", root, "A") @@ 2 :> Of(s1, "boot", "boot40", leaf, "B")
      @@ 3 :> Of(s2, "shoe", "shoe38", root, "A") @@ 4 :> Of(s1, "bag", "bag", root, "B")

At(list, cost) == [list |-> list, cost |-> cost]
SmallPrices ==
    [i \in StoreProducts |-> CASE i = 2 -> At(9990, 5500)
                                [] i = 3 -> At(11945, 6000)
                                [] OTHER -> At(0, 0)]
SmallTree == root :> NULL @@ leaf :> root
OneSpare == spare :> "none"

Percent(n) == [discountType |-> "PERCENTAGE", value |-> n]
OnCategory(deep) ==
    [targetScope |-> "CATEGORY", storeID |-> s1, categoryID |-> root,
     includeSubcategories |-> deep]

\* Offers of each type and scope; two on one category with different scopes.
OffersSent ==
    { Percent(10) @@ OnCategory(TRUE),
      Percent(20) @@ OnCategory(FALSE) @@ [exclusive |-> TRUE, priority |-> 1],
      [discountType |-> "FIXED_AMOUNT", value |-> 3000, storeProductID |-> 1],
      [discountType |-> "FIXED_PRICE", value |-> 6150, targetScope |-> "BRAND",
       storeID |-> s1, brand |-> "B", startDate |-> 1, allowBelowMargin |-> TRUE],
      [discountType |-> "BUY_X_GET_Y", value |-> 0, targetScope |-> "STORE", storeID |-> s1,
       buyQuantity |-> 2, payQuantity |-> 1],
      [discountType |-> "BUNDLE", value |-> 0, storeID |-> s1,
       bundleItems |-> 1 :> 1 @@ 2 :> 2],
      [discountType |-> "PERCENTAGE", value |-> 50, targetScope |-> "PRODUCT", storeID |-> s1,
       productIDs |-> {"shoe"}, endDate |-> 0],
      Percent(5) @@ [OnCategory(FALSE) EXCEPT !.storeID = s2] @@ [storeProductID |-> 1] }

ChangesSent ==
    { [isActive |-> FALSE, endDate |-> 0], [discountType |-> "PERCENTAGE"], [targetScope |-> "MODEL"],
      [targetScope |-> "MODEL", model |-> "boot"], [discountType |-> "BUY_X_GET_Y"],
      [storeID |-> s2, productIDs |-> {"shoe"}] }

CartsPriced ==
    { 1 :> 1 @@ 2 :> 2, 1 :> 2 @@ 2 :> 3, 2 :> 4, 1 :> 1 @@ 2 :> 1 @@ 4 :> 3 }

\* The web shop: an offer that starts in the afternoon, paid in the morning, in
\* the afternoon with the total of the morning, and a test payment.
AfternoonOffer == { Percent(10) @@ [targetScope |-> "STORE", storeID |-> s1, startDate |-> 1] }
NoChanges == {}
Paid(items, amount, at, test) ==
    [items |-> items, amount |-> amount, paidAt |-> at, isTest |-> test]
OrdersPaid == { Paid(2 :> 1, 9990, 1, FALSE), Paid(1 :> 1 @@ 2 :> 2, 31925, 0, TRUE) }
NotesSold == { 1 :> 1 @@ 2 :> 1 }
ChannelsMade == { [storeID |-> s1, salesEnabled |-> TRUE] }
ChannelsChanged == { [salesEnabled |-> FALSE], [storeID |-> s2, acceptTestPayments |-> TRUE] }
ShopSymmetry == Permutations({q1, q2}) \cup Permutations({p1, p2}) \cup Permutations({c1, c2})
================================================================================
