------------------------- MODULE DocumentLifecycle -------------------------
(***************************************************************************)
(* The life of an inventory document (BaseInventoryDocument.status) and    *)
(* the statuses each operation of InventoryDocumentService accepts.  The   *)
(* four kinds of document (GRN, GIN, transfer, adjustment) have the same   *)
(* checks, written out four times in inventory/document_services.py.       *)
(***************************************************************************)

(* DOC_STATUS_CHOICES; "unborn" and "deleted" documents have no row. *)
Status == {"DRAFT", "PENDING", "APPROVED", "COMPLETED", "CANCELLED"}
Absent == {"unborn", "deleted"}

MaySubmit(status) == status = "DRAFT"
MayApprove(status) == status \in {"DRAFT", "PENDING"}

(* Mutants: a completed document may be completed again, or cancelled. *)
MayCompleteAgain(status) == status # "CANCELLED"
MayCancelAny(status) == status # "CANCELLED"

MayComplete(status) == status \notin {"COMPLETED", "CANCELLED"}
MayCancel(status) == status # "COMPLETED"
=============================================================================
