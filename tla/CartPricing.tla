------------------------------ MODULE CartPricing ------------------------------
(***************************************************************************)
(* The discount engine of PricingService: what an offer takes off the      *)
(* lines of a cart, and the two validators.  Amounts are hundredths of a   *)
(* peso, percentages whole numbers.  Store products are numbers in the     *)
(* order of their identifiers, which breaks the ties of the free units.    *)
(* A cart is a function from the store products in it to their lines; the  *)
(* breakdown and the discount records, which only tell the story, are left *)
(* out.                                                                    *)
(***************************************************************************)
EXTENDS Integers, Sequences, FiniteSets

Seqs == INSTANCE SequencesExt
Sets == INSTANCE FiniteSetsExt
Funs == INSTANCE Functions

CONSTANTS
    NULL,
    MinMargin,     \* MIN_MARGIN_PERCENT, in hundredths
    MaxDiscount    \* DEFAULT_MAX_DISCOUNT_PERCENT

ASSUME PricingAssumption == MinMargin \in Nat /\ MaxDiscount \in 0..100

\* n/d rounded to a hundredth, halves up.
ToMoney(n, d) == (2 * n + d) \div (2 * d)
NotNegative(n) == Sets!Max({0, n})

\* A set in an order: at each place, the one that so many come before.
Ranked(S, Precedes(_, _)) ==
    [k \in 1..Cardinality(S) |->
        CHOOSE x \in S : Cardinality({y \in S : Precedes(y, x)}) = k - 1]

SumOf(f) == Funs!FoldFunctionOnSet(+, 0, f, DOMAIN f)

\* buildLines: the row of the store product priced as a line.
Line(quantity, unitPrice, unitCost) ==
    [quantity |-> quantity, baseUnitPrice |-> unitPrice, unitCost |-> unitCost,
     basePrice |-> unitPrice * quantity, currentTotal |-> unitPrice * quantity,
     marginExempt |-> FALSE]

\* recordAutomaticDiscount
Discounted(line, offer, nextPrice) ==
    [line EXCEPT !.currentTotal = nextPrice,
                 !.marginExempt = @ \/ offer.allowBelowMargin]

ApplyStandardOffer(line, offer) ==
    LET units == IF offer.scope = "UNIT" THEN line.quantity ELSE 1
        next  == CASE offer.discountType = "PERCENTAGE" ->
                        ToMoney(line.currentTotal * (100 - offer.value), 100)
                   [] offer.discountType = "FIXED_AMOUNT" ->
                        line.currentTotal - offer.value * units
                   [] offer.discountType = "FIXED_PRICE" -> offer.value * units
    IN  Discounted(line, offer, NotNegative(next))

\* By the price of a unit today, then by identifier.
Dearer(lines, i, j) ==
    LET left  == lines[i].currentTotal * lines[j].quantity
        right == lines[j].currentTotal * lines[i].quantity
    IN  left > right \/ (left = right /\ i > j)
Cheaper(lines, i, j) == i # j /\ ~Dearer(lines, i, j)

\* A variant: the dearest units are given away.
FreeCandidates_Dearest(lines, ids) ==
    Ranked({i \in ids : lines[i].currentTotal > 0}, LAMBDA i, j : Dearer(lines, i, j))

FreeCandidates(lines, ids) ==
    Ranked({i \in ids : lines[i].currentTotal > 0}, LAMBDA i, j : Cheaper(lines, i, j))

\* The cheapest units of the lines ids are free, line after line.
GrantFreeUnits(lines, ids, count, offer) ==
    LET Grant(given, i) ==
          LET line == given.lines[i]
              free == Sets!Min({line.quantity, given.remaining})
              next == NotNegative(line.currentTotal
                                    - ToMoney(free * line.currentTotal, line.quantity))
          IN  IF given.remaining <= 0 \/ next = line.currentTotal THEN given
              ELSE [lines |-> [given.lines EXCEPT ![i] = Discounted(line, offer, next)],
                    remaining |-> given.remaining - free]
    IN  Seqs!FoldLeft(Grant, [lines |-> lines, remaining |-> count],
                      FreeCandidates(lines, ids)).lines

UnitsIn(lines, ids) == SumOf([i \in ids |-> lines[i].quantity])

FreeUnits(lines, ids, offer) ==
    (UnitsIn(lines, ids) \div offer.buyQuantity) * (offer.buyQuantity - offer.payQuantity)

ApplyBuyXGetY(lines, ids, offer) ==
    GrantFreeUnits(lines, ids, FreeUnits(lines, ids, offer), offer)

\* Complete sets of the bundle among the lines; each has one free unit.
BundleSets(lines, ids, offer) ==
    Sets!Min({(IF i \in ids THEN lines[i].quantity ELSE 0) \div offer.bundleItems[i]
                : i \in DOMAIN offer.bundleItems})

ApplyBundle(lines, ids, offer) ==
    IF Cardinality(DOMAIN offer.bundleItems) < 2 THEN lines
    ELSE GrantFreeUnits(lines, ids, BundleSets(lines, ids, offer), offer)

\* One offer over the lines it is for.
ApplyOffer(lines, ids, offer) ==
    CASE offer.discountType = "BUY_X_GET_Y" -> ApplyBuyXGetY(lines, ids, offer)
      [] offer.discountType = "BUNDLE"      -> ApplyBundle(lines, ids, offer)
      [] OTHER -> [i \in DOMAIN lines |->
                     IF i \in ids THEN ApplyStandardOffer(lines[i], offer) ELSE lines[i]]

\* MarginValidator
KeepsMargin(cost, total, quantity) == 100 * total >= cost * (100 + MinMargin) * quantity

\* UserDiscountValidator, for a user of the store: cost is the row's own.
ValidManualDiscount(line, cost, percent) ==
    /\ percent <= MaxDiscount
    /\ cost > 0 =>
         KeepsMargin(100 * cost, line.currentTotal * (100 - percent), line.quantity)
    /\ line.baseUnitPrice > 0

ApplyManualDiscount(line, percent) ==
    [line EXCEPT !.currentTotal = NotNegative(ToMoney(@ * (100 - percent), 100))]
================================================================================
