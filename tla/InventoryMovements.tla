-------------------------- MODULE InventoryMovements --------------------------
(***************************************************************************)
(* StoreProduct rows and the InventoryMovement log: the one way stock      *)
(* changes (applyInventoryMovement), and movements entered by hand.  Every *)
(* caller runs it in its own transaction over rows it has locked, so a set *)
(* of movements over different rows is one step, and one refused movement  *)
(* refuses them all.  Prices and costs of the row are left out.            *)
(***************************************************************************)
EXTENDS BackOffice, FiniteSets, TLC

CONSTANTS
    References,  \* what a movement may refer to (referenceID)
    ByHand,      \* the reference of the movements entered by hand
    ReasonsByHand, Conditions,  \* bound: what a movement by hand may ask for
    MaxUnits     \* bound: units of a row, and units one reference moves of it

Columns == {"stock", "stockDefective"}

ASSUME InventoryAssumption ==
    /\ IsFiniteSet(References) /\ IsFiniteSet(Variations)
    /\ ByHand \in References /\ MaxUnits \in Nat
    /\ Conditions \subseteq Columns

Places == Stores \X Variations
Bounded == (-MaxUnits)..MaxUnits

VARIABLES
    level,  \* StoreProduct rows, by store and variation
    moved   \* the deltas of the movements that refer to each thing, added up

Row   == [exists : BOOLEAN, stock : Bounded, stockDefective : Bounded]
NoRow == [exists |-> FALSE, stock |-> 0, stockDefective |-> 0]

OutReasons == {"SALE", "TRANSFER_OUT", "DISPATCH_GUIDE"}
InReasons  == {"PURCHASE", "TRANSFER_IN", "RETURN"}
Reasons    == OutReasons \cup InReasons \cup {"ADJUSTMENT"}

\* units is the quantity, or the newStock of an adjustment.
CalculateInventoryDelta(reason, units, current) ==
    IF reason \in OutReasons THEN -units
    ELSE IF reason \in InReasons THEN units
    ELSE units - current

\* A movement as its caller asks for it.
Ask(reason, units, column, free) ==
    [reason |-> reason, units |-> units, column |-> column,
     allowNegativeStock |-> free, createIfMissing |-> free]

DeltaOf(row, ask) == CalculateInventoryDelta(ask.reason, ask.units, row[ask.column])

Accepts(row, ask) ==
    /\ ask.reason # "ADJUSTMENT" => ask.units > 0
    /\ row.exists \/ ask.createIfMissing
    /\ ask.allowNegativeStock \/ row[ask.column] + DeltaOf(row, ask) >= 0

UpsertStoreProduct(row, ask) ==
    [row EXCEPT !.exists = TRUE, ![ask.column] = @ + DeltaOf(row, ask)]

\* What one thing has moved, with the movements it asks for now.
Logged(log, asks) ==
    [p \in Places |->
       IF p \in DOMAIN asks
       THEN [log[p] EXCEPT ![asks[p].column] = @ + DeltaOf(level[p], asks[p])]
       ELSE log[p]]

\* A variant: an adjustment writes the row and no movement.
ApplyInventoryMovement_SilentAdjustment(asks, ref) ==
    /\ \A p \in DOMAIN asks : Accepts(level[p], asks[p])
    /\ level' = [p \in Places |->
                   IF p \in DOMAIN asks THEN UpsertStoreProduct(level[p], asks[p])
                   ELSE level[p]]
    /\ IF \E p \in DOMAIN asks : asks[p].reason = "ADJUSTMENT" THEN UNCHANGED moved
       ELSE moved' = [moved EXCEPT ![ref] = Logged(@, asks)]
    /\ \A p \in DOMAIN asks : level'[p][asks[p].column] \in Bounded

\* asks: the movement of each of some rows; ref: what they refer to.
ApplyInventoryMovement(asks, ref) ==
    /\ \A p \in DOMAIN asks : Accepts(level[p], asks[p])
    /\ level' = [p \in Places |->
                   IF p \in DOMAIN asks THEN UpsertStoreProduct(level[p], asks[p])
                   ELSE level[p]]
    /\ moved' = [moved EXCEPT ![ref] = Logged(@, asks)]
    /\ \A p \in DOMAIN asks :
         LET c == asks[p].column
         IN  level'[p][c] \in Bounded /\ moved'[ref][p][c] \in Bounded

InventoryInit ==
    /\ level = [p \in Places |-> NoRow]
    /\ moved = [r \in References |-> [p \in Places |-> [c \in Columns |-> 0]]]

\* POST /inventory/movements
CreateMovement(p, reason, units, column) ==
    ApplyInventoryMovement(
        [q \in {p} |-> Ask(reason, units, column, reason \notin OutReasons)], ByHand)
===============================================================================
