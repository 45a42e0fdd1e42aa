--------------------- MODULE InventoryDocuments_proofs ----------------------
(***************************************************************************)
(* Proofs about InventoryDocuments, for any number of documents, requests  *)
(* and lines.  What a completed block does to a balance is a fold over its *)
(* calls, which these proofs never open.                                   *)
(***************************************************************************)
EXTENDS InventoryDocuments, TLAPS

-----------------------------------------------------------------------------
(* Every change of a status comes from a request that was loaded. *)
LEMMA LoadedRequest ==
    ASSUME DocumentTypeOK, NEW r \in Request, request[r] # Idle
    PROVE  /\ request[r] \in Loaded
           /\ request[r].document \in Document
           /\ request[r].status \in Status
           /\ request[r].head \in Heading
           /\ request[r].lines \in Lines \cup {<<>>}
  BY DEF DocumentTypeOK, Loaded

LEMMA PatchedHeading ==
    ASSUME NEW h \in Heading, NEW g \in Patched(h)
    PROVE  g \in Heading
  <1>1. /\ PatchedWarehouse \subseteq Warehouse
        /\ NoWarehouse \notin Warehouse
    BY HeadsAssumption
  <1>2. CASE g = h
    BY <1>2
  <1>3. CASE \E wh \in PatchedWarehouse : g = [h EXCEPT !.warehouse = wh]
    BY <1>1, <1>3 DEF Heading
  <1>4. CASE h.kind = "TRF" /\ \E wh \in PatchedWarehouse : g = [h EXCEPT !.to = wh]
    BY <1>1, <1>4 DEF Heading
  <1> QED
    BY <1>2, <1>3, <1>4 DEF Patched

LEMMA InitDocumentTypeOK == Init => DocumentTypeOK
  BY DEF Init, DocumentTypeOK, HasRow, Absent

(* A status is only ever written to a document that has a row. *)
LEMMA SavedTypeOK ==
    ASSUME DocumentTypeOK, NEW d \in Document, HasRow(d), NEW new \in Status,
           status' = [status EXCEPT ![d] = new],
           NEW r \in Request, request' = [request EXCEPT ![r] = Idle],
           UNCHANGED <<head, lines, contended>>, posted' \in [Document -> 0..2]
    PROVE  DocumentTypeOK'
  <1>1. \A e \in Document : HasRow(e)' => HasRow(e)
    BY DEF DocumentTypeOK, HasRow
  <1> QED
    BY <1>1 DEF DocumentTypeOK

LEMMA NextDocumentTypeOK ==
    ASSUME DocumentTypeOK, [Next]_vars
    PROVE  DocumentTypeOK'
  <1>1. ASSUME NEW d \in Document, Create(d)
        PROVE  DocumentTypeOK'
    <2>1. PICK h \in NewHeads, items \in Lines :
             /\ head' = [head EXCEPT ![d] = h]
             /\ lines' = [lines EXCEPT ![d] = items]
      BY <1>1 DEF Create
    <2>2. h \in Heading
      BY HeadsAssumption
    <2>3. status' = [status EXCEPT ![d] = "DRAFT"] /\ UNCHANGED <<posted, request, contended>>
      BY <1>1 DEF Create
    <2>4. \A e \in Document : HasRow(e)' => head'[e] \in Heading
      BY <2>1, <2>2, <2>3 DEF DocumentTypeOK, HasRow
    <2> QED
      BY <2>1, <2>2, <2>3, <2>4 DEF Status, DocumentTypeOK
  <1>2. ASSUME NEW r \in Request, Load(r)
        PROVE  DocumentTypeOK'
    <2>1. PICK d \in Document :
             /\ HasRow(d)
             /\ request' = [request EXCEPT ![r] =
                   [document |-> d, status |-> status[d], head |-> head[d], lines |-> lines[d]]]
      BY <1>2 DEF Load
    <2>2. status[d] \in Status /\ head[d] \in Heading /\ lines[d] \in Lines \cup {<<>>}
      BY <2>1 DEF HasRow, DocumentTypeOK
    <2>3. [document |-> d, status |-> status[d], head |-> head[d], lines |-> lines[d]] \in Loaded
      BY <2>2 DEF Loaded
    <2>4. UNCHANGED documents /\ contended' \subseteq Document
      BY <1>2, <2>1 DEF Load, DocumentTypeOK
    <2> QED
      BY <2>1, <2>3, <2>4 DEF documents, DocumentTypeOK, HasRow
  <1>3. ASSUME NEW r \in Request, Submit(r) \/ Approve(r) \/ Cancel(r)
        PROVE  DocumentTypeOK'
    <2>1. PICK new \in {"PENDING", "APPROVED", "CANCELLED"} :
             status' = [status EXCEPT ![request[r].document] = new]
      <3>1. Submit(r) => status' = [status EXCEPT ![request[r].document] = "PENDING"]
        BY DEF Submit, SaveStatus
      <3>2. Approve(r) => status' = [status EXCEPT ![request[r].document] = "APPROVED"]
        BY DEF Approve, SaveStatus
      <3>3. Cancel(r) => status' = [status EXCEPT ![request[r].document] = "CANCELLED"]
        BY DEF Cancel, SaveStatus
      <3> QED
        BY <1>3, <3>1, <3>2, <3>3
    <2>2. /\ request[r] # Idle /\ HasRow(request[r].document)
          /\ request' = [request EXCEPT ![r] = Idle]
          /\ UNCHANGED <<head, lines, posted, contended>>
      BY <1>3 DEF Submit, Approve, Cancel, SaveStatus, Done
    <2>3. posted' \in [Document -> 0..2]
      BY <2>2 DEF DocumentTypeOK
    <2> QED
      BY <2>1, <2>2, <2>3, LoadedRequest, SavedTypeOK DEF Status
  <1>4. ASSUME NEW r \in Request, Complete(r)
        PROVE  DocumentTypeOK'
    <2> DEFINE d == request[r].document
    <2>1. /\ request[r] # Idle /\ HasRow(d)
          /\ status' = [status EXCEPT ![d] = "COMPLETED"]
          /\ request' = [request EXCEPT ![r] = Idle]
          /\ UNCHANGED <<head, lines, contended>>
          /\ posted' = [posted EXCEPT ![d] = IF @ < 2 THEN @ + 1 ELSE 2]
      BY <1>4 DEF Complete, SaveStatus, Done
    <2>2. d \in Document /\ posted \in [Document -> 0..2]
      BY <2>1, LoadedRequest DEF DocumentTypeOK
    <2>3. \A n \in 0..2 : (IF n < 2 THEN n + 1 ELSE 2) \in 0..2
      OBVIOUS
    <2>4. posted' \in [Document -> 0..2]
      BY <2>1, <2>2, <2>3, Zenon
    <2> QED
      BY <2>1, <2>2, <2>4, SavedTypeOK DEF Status
  <1>5. ASSUME NEW r \in Request, Patch(r)
        PROVE  DocumentTypeOK'
    <2> DEFINE d == request[r].document
    <2>1. request[r] # Idle
      BY <1>5 DEF Patch
    <2>2. PICK h \in Patched(request[r].head) : head' = [head EXCEPT ![d] = h]
      BY <1>5 DEF Patch
    <2>3. h \in Heading /\ d \in Document /\ request[r].status \in Status
      BY <2>1, LoadedRequest, PatchedHeading
    <2>4. /\ status' = [status EXCEPT ![d] = request[r].status]
          /\ request' = [request EXCEPT ![r] = Idle]
          /\ UNCHANGED <<lines, posted, contended>>
      BY <1>5 DEF Patch, Done
    <2>5. \A e \in Document : HasRow(e)' => head'[e] \in Heading
      BY <2>2, <2>3, <2>4 DEF DocumentTypeOK, HasRow
    <2> QED
      BY <2>2, <2>3, <2>4, <2>5 DEF DocumentTypeOK
  <1>6. ASSUME NEW r \in Request, Destroy(r)
        PROVE  DocumentTypeOK'
    <2> DEFINE d == request[r].document
    <2>1. d \in Document
      BY <1>6, LoadedRequest DEF Destroy
    <2>2. /\ status' = [status EXCEPT ![d] = "deleted"]
          /\ lines' = [lines EXCEPT ![d] = <<>>]
          /\ head' = [head EXCEPT ![d] = NoHead]
          /\ request' = [request EXCEPT ![r] = Idle]
          /\ UNCHANGED <<posted, contended>>
      BY <1>6 DEF Destroy, Done
    <2>3. \A e \in Document : HasRow(e)' => HasRow(e)
      BY <2>1, <2>2 DEF DocumentTypeOK, HasRow, Absent
    <2>4. \A e \in Document : HasRow(e)' => head'[e] \in Heading
      BY <2>1, <2>2, <2>3 DEF DocumentTypeOK, HasRow, Absent
    <2> QED
      BY <2>1, <2>2, <2>4 DEF DocumentTypeOK, Absent
  <1>7. ASSUME NEW r \in Request, Fail(r)
        PROVE  DocumentTypeOK'
    BY <1>7 DEF Fail, Done, documents, DocumentTypeOK, HasRow
  <1>8. CASE UNCHANGED vars
    BY <1>8 DEF vars, DocumentTypeOK, HasRow
  <1> QED
    BY <1>1, <1>2, <1>3, <1>4, <1>5, <1>6, <1>7, <1>8 DEF Next, Handle

(* The documents, their lines and the copies requests hold are well formed. *)
THEOREM DocumentsTyped == Spec => []DocumentTypeOK
  BY InitDocumentTypeOK, NextDocumentTypeOK, PTL DEF Spec

-----------------------------------------------------------------------------
(* COMPLETED is written by a completion, which posts, or copied from a row *)
(* that said so; posted never decreases.                                   *)
LEMMA PostedGrows ==
    ASSUME DocumentTypeOK, [Next]_vars, NEW d \in Document, posted[d] > 0
    PROVE  posted'[d] > 0
  <1>1. ASSUME NEW r \in Request, Complete(r)
        PROVE  posted'[d] > 0
    <2>1. posted' = [posted EXCEPT ![request[r].document] = IF @ < 2 THEN @ + 1 ELSE 2]
      BY <1>1 DEF Complete
    <2> QED
      BY <2>1 DEF DocumentTypeOK
  <1>2. CASE UNCHANGED posted
    BY <1>2
  <1> QED
    BY <1>1, <1>2 DEF Next, Handle, Create, Load, Submit, Approve, Cancel, Patch,
                      Destroy, Fail, documents, vars

LEMMA CompletedIsPostedStep ==
    ASSUME DocumentTypeOK, CompletedIsPosted, CopiesArePosted, [Next]_vars
    PROVE  CompletedIsPosted' /\ CopiesArePosted'
  <1> USE PostedGrows
  <1>1. ASSUME NEW d \in Document, Create(d)
        PROVE  CompletedIsPosted' /\ CopiesArePosted'
    <2>1. status' = [status EXCEPT ![d] = "DRAFT"] /\ UNCHANGED <<posted, request, contended>>
      BY <1>1 DEF Create
    <2> QED
      BY <2>1 DEF CompletedIsPosted, CopiesArePosted, DocumentTypeOK
  <1>2. ASSUME NEW r \in Request, Load(r)
        PROVE  CompletedIsPosted' /\ CopiesArePosted'
    <2>1. PICK d \in Document :
             request' = [request EXCEPT ![r] =
                [document |-> d, status |-> status[d], head |-> head[d], lines |-> lines[d]]]
      BY <1>2 DEF Load
    <2>2. UNCHANGED <<status, posted>>
      BY <1>2 DEF Load, documents
    <2> QED
      BY <2>1, <2>2 DEF CompletedIsPosted, CopiesArePosted, DocumentTypeOK
  <1>3. ASSUME NEW r \in Request, Submit(r) \/ Approve(r) \/ Cancel(r)
        PROVE  CompletedIsPosted' /\ CopiesArePosted'
    <2>1. PICK new \in {"PENDING", "APPROVED", "CANCELLED"} :
             status' = [status EXCEPT ![request[r].document] = new]
      <3>1. Submit(r) => status' = [status EXCEPT ![request[r].document] = "PENDING"]
        BY DEF Submit, SaveStatus
      <3>2. Approve(r) => status' = [status EXCEPT ![request[r].document] = "APPROVED"]
        BY DEF Approve, SaveStatus
      <3>3. Cancel(r) => status' = [status EXCEPT ![request[r].document] = "CANCELLED"]
        BY DEF Cancel, SaveStatus
      <3> QED
        BY <1>3, <3>1, <3>2, <3>3
    <2>2. request' = [request EXCEPT ![r] = Idle] /\ UNCHANGED posted
      BY <1>3 DEF Submit, Approve, Cancel, SaveStatus, Done
    <2> QED
      BY <2>1, <2>2 DEF CompletedIsPosted, CopiesArePosted, DocumentTypeOK
  <1>4. ASSUME NEW r \in Request, Complete(r)
        PROVE  CompletedIsPosted' /\ CopiesArePosted'
    <2> DEFINE d == request[r].document
    <2>1. /\ status' = [status EXCEPT ![d] = "COMPLETED"]
          /\ request' = [request EXCEPT ![r] = Idle]
          /\ posted' = [posted EXCEPT ![d] = IF @ < 2 THEN @ + 1 ELSE 2]
      BY <1>4 DEF Complete, SaveStatus, Done
    <2>2. d \in Document
      BY <1>4, LoadedRequest DEF Complete, SaveStatus
    <2>3. posted'[d] > 0
      BY <2>1, <2>2 DEF DocumentTypeOK
    <2>4. CompletedIsPosted'
      BY <2>1, <2>2, <2>3 DEF CompletedIsPosted, DocumentTypeOK
    <2>5. ASSUME NEW s \in Request, request'[s] # Idle, request'[s].status = "COMPLETED"
          PROVE  posted'[request'[s].document] > 0
      <3>1. request'[s] = request[s]
        BY <2>1, <2>5 DEF DocumentTypeOK
      <3>2. request[s].document \in Document
        BY <2>5, <3>1, LoadedRequest
      <3> QED
        BY <2>5, <3>1, <3>2 DEF CopiesArePosted
    <2> QED
      BY <2>4, <2>5 DEF CopiesArePosted
  <1>5. ASSUME NEW r \in Request, Patch(r)
        PROVE  CompletedIsPosted' /\ CopiesArePosted'
    <2>1. /\ status' = [status EXCEPT ![request[r].document] = request[r].status]
          /\ request' = [request EXCEPT ![r] = Idle]
          /\ request[r] # Idle
          /\ UNCHANGED posted
      BY <1>5 DEF Patch, Done
    <2> QED
      BY <2>1 DEF CompletedIsPosted, CopiesArePosted, DocumentTypeOK
  <1>6. ASSUME NEW r \in Request, Destroy(r)
        PROVE  CompletedIsPosted' /\ CopiesArePosted'
    <2>1. /\ status' = [status EXCEPT ![request[r].document] = "deleted"]
          /\ request' = [request EXCEPT ![r] = Idle]
          /\ UNCHANGED posted
      BY <1>6 DEF Destroy, Done
    <2> QED
      BY <2>1 DEF CompletedIsPosted, CopiesArePosted, DocumentTypeOK
  <1>7. ASSUME NEW r \in Request, Fail(r)
        PROVE  CompletedIsPosted' /\ CopiesArePosted'
    BY <1>7 DEF Fail, Done, documents, CompletedIsPosted, CopiesArePosted, DocumentTypeOK
  <1>8. CASE UNCHANGED vars
    BY <1>8 DEF vars, CompletedIsPosted, CopiesArePosted
  <1> QED
    BY <1>1, <1>2, <1>3, <1>4, <1>5, <1>6, <1>7, <1>8 DEF Next, Handle

(* A document that says COMPLETED has been posted, however many requests   *)
(* write old copies back.                                                  *)
THEOREM CompletedWasPosted == Spec => []CompletedIsPosted
  <1>1. Init => CompletedIsPosted /\ CopiesArePosted
    BY DEF Init, CompletedIsPosted, CopiesArePosted
  <1>2. DocumentTypeOK /\ CompletedIsPosted /\ CopiesArePosted /\ [Next]_vars
           => CompletedIsPosted' /\ CopiesArePosted'
    BY CompletedIsPostedStep
  <1> QED
    BY <1>1, <1>2, DocumentsTyped, PTL DEF Spec

-----------------------------------------------------------------------------
(* On a document only one request works on, the checks made on the copy    *)
(* are made on the row.                                                    *)
UncontendedInv == PostedOnceUncontended /\ CopiesAreCurrent

LEMMA UncontendedStep ==
    ASSUME DocumentTypeOK, UncontendedInv, [Next]_vars
    PROVE  UncontendedInv'
  <1> USE DEF UncontendedInv
  <1>1. ASSUME NEW d \in Document, Create(d)
        PROVE  UncontendedInv'
    <2>1. /\ status[d] = "unborn"
          /\ status' = [status EXCEPT ![d] = "DRAFT"]
          /\ UNCHANGED <<posted, request, contended>>
      BY <1>1 DEF Create
    <2>2. d \notin contended => posted[d] = 0
      BY <2>1 DEF PostedOnceUncontended, DocumentTypeOK
    <2>3. \A r \in Request : request[r] # Idle /\ request[r].document \notin contended
                                => request[r].document # d
      BY <2>1, LoadedRequest DEF CopiesAreCurrent, Status
    <2>4. PostedOnceUncontended'
      BY <2>1, <2>2 DEF PostedOnceUncontended, DocumentTypeOK
    <2> QED
      BY <2>1, <2>3, <2>4 DEF CopiesAreCurrent, WorksOn, DocumentTypeOK
  <1>2. ASSUME NEW r \in Request, Load(r)
        PROVE  UncontendedInv'
    <2>1. PICK d \in Document :
             /\ request' = [request EXCEPT ![r] =
                   [document |-> d, status |-> status[d], head |-> head[d], lines |-> lines[d]]]
             /\ contended' = contended \cup {e \in {d} : \E s \in Request : WorksOn(s, e)}
      BY <1>2 DEF Load
    <2>2. UNCHANGED <<status, posted>>
      BY <1>2 DEF Load, documents
    <2>3. PostedOnceUncontended'
      BY <2>1, <2>2 DEF PostedOnceUncontended
    <2>4. CopiesAreCurrent'
      <3> SUFFICES ASSUME NEW q \in Request, request'[q] # Idle,
                          request'[q].document \notin contended'
                   PROVE  /\ status'[request'[q].document] = request'[q].status
                          /\ \A s \in Request :
                                request'[s] # Idle /\ request'[s].document = request'[q].document
                                    => s = q
        BY DEF CopiesAreCurrent, WorksOn
      <3>1. CASE q = r
        <4>1. request'[q].document = d /\ request'[q].status = status[d]
          BY <2>1, <3>1 DEF DocumentTypeOK
        <4>2. \A s \in Request : ~WorksOn(s, d)
          BY <2>1, <4>1
        <4>3. \A s \in Request : s # r => request'[s] = request[s]
          BY <2>1 DEF DocumentTypeOK
        <4> QED
          BY <2>2, <3>1, <4>1, <4>2, <4>3 DEF WorksOn
      <3>2. CASE q # r
        <4>1. request'[q] = request[q] /\ request[q].document \notin contended
          BY <2>1, <3>2 DEF DocumentTypeOK
        <4>2. request[q].document # d
          BY <2>1, <4>1 DEF WorksOn
        <4>3. \A s \in Request :
             request'[s] # Idle /\ request'[s].document = request[q].document
                 => WorksOn(s, request[q].document)
          BY <2>1, <4>1, <4>2 DEF WorksOn, DocumentTypeOK
        <4> QED
          BY <2>2, <4>1, <4>3 DEF CopiesAreCurrent
      <3> QED
        BY <3>1, <3>2
    <2> QED
      BY <2>3, <2>4
  <1>3. ASSUME NEW r \in Request, request[r] # Idle, request[r].document \notin contended,
               request[r].status # "COMPLETED"
        PROVE  posted[request[r].document] = 0
    BY <1>3, LoadedRequest DEF CopiesAreCurrent, PostedOnceUncontended, DocumentTypeOK, Status
  <1>4. ASSUME NEW r \in Request, request[r] # Idle,
               request' = [request EXCEPT ![r] = Idle], UNCHANGED contended,
               \A e \in Document : e # request[r].document => status'[e] = status[e]
        PROVE  CopiesAreCurrent'
    <2> SUFFICES ASSUME NEW q \in Request, request'[q] # Idle,
                        request'[q].document \notin contended'
                 PROVE  /\ status'[request'[q].document] = request'[q].status
                        /\ \A s \in Request :
                                request'[s] # Idle /\ request'[s].document = request'[q].document
                                    => s = q
      BY DEF CopiesAreCurrent, WorksOn
    <2>1. q # r /\ request'[q] = request[q]
      BY <1>4 DEF DocumentTypeOK
    <2>2. request[q].document # request[r].document
      BY <1>4, <2>1 DEF CopiesAreCurrent, WorksOn
    <2>3. request[q].document \in Document
      BY <2>1, LoadedRequest
    <2>4. \A s \in Request :
             request'[s] # Idle /\ request'[s].document = request[q].document
                 => WorksOn(s, request[q].document)
      BY <1>4 DEF WorksOn, DocumentTypeOK
    <2> QED
      BY <1>4, <2>1, <2>2, <2>3, <2>4 DEF CopiesAreCurrent
  <1>5. ASSUME NEW r \in Request, request[r] # Idle,
               request' = [request EXCEPT ![r] = Idle], UNCHANGED <<posted, contended>>,
               NEW new, status' = [status EXCEPT ![request[r].document] = new],
               \/ new \in {"COMPLETED", "deleted"}
               \/ request[r].status # "COMPLETED"
        PROVE  UncontendedInv'
    <2>1. CopiesAreCurrent'
      BY <1>4, <1>5 DEF DocumentTypeOK
    <2>2. PostedOnceUncontended'
      BY <1>3, <1>5, LoadedRequest DEF PostedOnceUncontended, DocumentTypeOK
    <2> QED
      BY <2>1, <2>2
  <1>6. ASSUME NEW r \in Request, Submit(r)
        PROVE  UncontendedInv'
    <2>1. /\ request[r] # Idle /\ request[r].status # "COMPLETED"
          /\ request' = [request EXCEPT ![r] = Idle] /\ UNCHANGED <<posted, contended>>
          /\ status' = [status EXCEPT ![request[r].document] = "PENDING"]
      BY <1>6 DEF Submit, SaveStatus, Done, MaySubmit
    <2> QED
      BY <1>5, <2>1
  <1>7. ASSUME NEW r \in Request, Approve(r)
        PROVE  UncontendedInv'
    <2>1. /\ request[r] # Idle /\ request[r].status # "COMPLETED"
          /\ request' = [request EXCEPT ![r] = Idle] /\ UNCHANGED <<posted, contended>>
          /\ status' = [status EXCEPT ![request[r].document] = "APPROVED"]
      BY <1>7 DEF Approve, SaveStatus, Done, MayApprove
    <2> QED
      BY <1>5, <2>1
  <1>8. ASSUME NEW r \in Request, Cancel(r)
        PROVE  UncontendedInv'
    <2>1. /\ request[r] # Idle /\ request[r].status # "COMPLETED"
          /\ request' = [request EXCEPT ![r] = Idle] /\ UNCHANGED <<posted, contended>>
          /\ status' = [status EXCEPT ![request[r].document] = "CANCELLED"]
      BY <1>8 DEF Cancel, SaveStatus, Done, MayCancel
    <2> QED
      BY <1>5, <2>1
  <1>9. ASSUME NEW r \in Request, Complete(r)
        PROVE  UncontendedInv'
    <2> DEFINE d == request[r].document
    <2>1. /\ request[r] # Idle
          /\ request[r].status # "COMPLETED"
          /\ status' = [status EXCEPT ![d] = "COMPLETED"]
          /\ request' = [request EXCEPT ![r] = Idle]
          /\ posted' = [posted EXCEPT ![d] = IF @ < 2 THEN @ + 1 ELSE 2]
          /\ UNCHANGED contended
      BY <1>9 DEF Complete, SaveStatus, Done, MayComplete
    <2>2. d \in Document /\ (d \notin contended => posted[d] = 0)
      BY <2>1, <1>3, LoadedRequest
    <2>3. PostedOnceUncontended'
      BY <2>1, <2>2 DEF PostedOnceUncontended, DocumentTypeOK
    <2>4. CopiesAreCurrent'
      BY <1>4, <2>1 DEF DocumentTypeOK
    <2> QED
      BY <2>3, <2>4
  <1>10. ASSUME NEW r \in Request, Patch(r)
         PROVE  UncontendedInv'
    <2>1. /\ request[r] # Idle
          /\ status' = [status EXCEPT ![request[r].document] = request[r].status]
          /\ request' = [request EXCEPT ![r] = Idle]
          /\ UNCHANGED <<posted, contended>>
      BY <1>10 DEF Patch, Done
    <2> QED
      BY <2>1, <1>5
  <1>11. ASSUME NEW r \in Request, Destroy(r)
         PROVE  UncontendedInv'
    <2>1. /\ request[r] # Idle
          /\ status' = [status EXCEPT ![request[r].document] = "deleted"]
          /\ request' = [request EXCEPT ![r] = Idle]
          /\ UNCHANGED <<posted, contended>>
      BY <1>11 DEF Destroy, Done
    <2> QED
      BY <2>1, <1>5
  <1>12. ASSUME NEW r \in Request, Fail(r)
         PROVE  UncontendedInv'
    <2>1. /\ request[r] # Idle
          /\ request' = [request EXCEPT ![r] = Idle]
          /\ UNCHANGED <<status, posted, contended>>
      BY <1>12 DEF Fail, Done, documents
    <2>2. CopiesAreCurrent'
      BY <1>4, <2>1
    <2> QED
      BY <2>1, <2>2 DEF PostedOnceUncontended
  <1>13. CASE UNCHANGED vars
    BY <1>13 DEF vars, PostedOnceUncontended, CopiesAreCurrent, WorksOn
  <1> QED
    BY <1>1, <1>2, <1>6, <1>7, <1>8, <1>9, <1>10, <1>11, <1>12, <1>13 DEF Next, Handle

(* A document no two requests worked on at once is posted at most once,    *)
(* and a posted one stays COMPLETED until it is deleted.                   *)
THEOREM PostedOnceTheorem == Spec => []PostedOnceUncontended
  <1>1. Init => UncontendedInv
    BY DEF Init, UncontendedInv, PostedOnceUncontended, CopiesAreCurrent
  <1>2. DocumentTypeOK /\ UncontendedInv /\ [Next]_vars => UncontendedInv'
    BY UncontendedStep
  <1>3. UncontendedInv => PostedOnceUncontended
    BY DEF UncontendedInv
  <1> QED
    BY <1>1, <1>2, <1>3, DocumentsTyped, PTL DEF Spec
=============================================================================
