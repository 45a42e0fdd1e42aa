--------------------------- MODULE MCInvoiceStock ---------------------------
(***************************************************************************)
(* One invoice, created as a draft or unpaid, with or without a warehouse, *)
(* over a product and a service.  Its organization has a main warehouse,   *)
(* the first active one, and a branch that clients can write by PATCH.     *)
(***************************************************************************)
EXTENDS InvoiceStock, TLC

CONSTANTS p, service, main, branch, i1, org

MCOrganizationOf == [x \in {p, service, main, branch, i1} |-> org]
MCWarehouseOf == [l \in {} |-> main]
MCDefaultWarehouse == [i \in Invoice |-> main]

MCLine == {<<p, 1>>, <<service, 1>>}

New(st, place, items) ==
    [status |-> st, flag |-> FALSE, warehouse |-> place, lines |-> items]

MCNewInvoices ==
    { New("DRAFT", NoWarehouse, << <<p, 1>> >>), New("UNPAID", branch, << <<service, 1>> >>) }


Receive(place) ==
    [op |-> "receive", cell |-> <<p, place, NoLocation>>,
     quantity |-> 1, allow_negative |-> FALSE]

MCRestocks == { <<Receive(main), Receive(branch)>> }
MCBlocks == MCRestocks

Symmetry == Permutations(Request)
=============================================================================
