-------------------------- MODULE MCPurchaseReturns --------------------------
(***************************************************************************)
(* One unit of p received on one order, and two returns: both against the  *)
(* order, or one of them without.  p also lies on a shelf of the warehouse *)
(* that returns do not take from, and arrives without an order too.        *)
(***************************************************************************)
EXTENDS PurchaseReturns, TLC

CONSTANTS p, main, shelf, o1, org

MCOrganizationOf == [e \in {p, main, o1} |-> org]
MCWarehouseOf == [l \in {shelf} |-> main]

MCLine == {<<p, 1>>, <<p, 2>>}
MCNewReturns == {[order |-> o, warehouse |-> main] : o \in {o1, NoOrder}}
MCOrdered == [o \in {o1} |-> [q \in {p} |-> 1]]

MCCall(o, at, n) ==
    << [op |-> o, cell |-> <<p, main, at>>, quantity |-> n, allow_negative |-> FALSE] >>
MCBlocks == {MCCall("receive", shelf, 2), MCCall("receive", NoLocation, 1)}

Symmetry == Permutations(Return) \cup Permutations(Request)
=============================================================================
