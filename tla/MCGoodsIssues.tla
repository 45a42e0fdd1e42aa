--------------------------- MODULE MCGoodsIssues ----------------------------
(***************************************************************************)
(* One store and one invoice over two units of p, one of q and a service.  *)
(* Notes issue one p, one of each, or goods without an invoice, one of     *)
(* them names p twice.  The clerk and the manager both write notes; only   *)
(* the manager has gin.approve.  The shelf is filled up to what is first   *)
(* invoiced.  An edit takes one p back and drops the service.              *)
(***************************************************************************)
EXTENDS GoodsIssues, TLC

CONSTANTS p, q, service, store, i1, org, clerk, manager

MCOrganizationOf == [x \in {p, q, service, store, i1} |-> org]
MCWarehouseOf == [l \in {} |-> store]

MCInvoiceLines == i1 :> << <<p, 2>>, <<q, 1>>, <<service, 1>> >>
MCEditedLines == { << <<p, 1>>, <<q, 1>> >> }

By(user, invoice, lines) ==
    [invoice |-> invoice, warehouse |-> store, creator |-> user, lines |-> lines]

MCNewNotes ==
    { By(clerk, i1, << <<p, 1>> >>),
      By(clerk, i1, << <<p, 1>>, <<q, 1>> >>),
      By(manager, NoInvoice, << <<p, 1>> >>),
      By(clerk, i1, << <<p, 1>>, <<p, 1>> >>) }

Receive(product, n) ==
    [op |-> "receive", cell |-> <<product, store, NoLocation>>,
     quantity |-> n, allow_negative |-> FALSE]

MCRestocks == { <<Receive(p, 2), Receive(q, 1)>> }
MCBlocks == MCRestocks

Symmetry == Permutations(Request)
=============================================================================
