------------------------ MODULE MCInventoryDocuments ------------------------
(***************************************************************************)
(* One product and two warehouses of its organization, and one of another  *)
(* organization.  Clients create receipts, issues and transfers of two     *)
(* lines for the same product, so that one can run short after its first   *)
(* line, and move a document to the other warehouse, so that a transfer    *)
(* can end with one warehouse on both sides.                               *)
(***************************************************************************)
EXTENDS InventoryDocuments, TLC

CONSTANTS p, main, branch, foreign, orgA, orgB

MCOrganizationOf == [x \in {p, main, branch} |-> orgA] @@ (foreign :> orgB)
MCWarehouseOf == [l \in {} |-> main]

MCLines == { << <<p, 1>>, <<p, 1>> >> }

At(kind, to) == [kind |-> kind, warehouse |-> main, to |-> to]

MCNewHeads ==
    {At("GRN", NoWarehouse), At("GIN", NoWarehouse), At("TRF", branch), At("TRF", foreign)}

MCBlocks == Postings

Symmetry == Permutations(Document) \cup Permutations(Request)
=============================================================================
