------------------------- MODULE GoodsIssues_proofs -------------------------
(***************************************************************************)
(* Proofs about GoodsIssues, for any notes, invoices, users and requests.  *)
(* What is left of an invoice is a sum over its notes, for which the       *)
(* lemmas of SumTheorems are; what issues do to the shelf is a fold over   *)
(* calls, which these proofs do not open.                                  *)
(***************************************************************************)
EXTENDS GoodsIssues, SumTheorems

-----------------------------------------------------------------------------
(* The types of what is not stock.  A note that was ever created has its   *)
(* columns, and a request only works on such notes.                        *)
NotesTypeOK ==
    /\ status \in [Gin -> Status \cup Absent]
    /\ note \in [Gin -> Note \cup {NoNote}]
    /\ \A g \in Gin : status[g] # "unborn" => note[g] \in Note
    /\ approver \in [Gin -> User \cup {NoUser}]
    /\ posted \in [Gin -> 0..2]
    /\ \A g \in Gin : status[g] = "unborn" => posted[g] = 0
    /\ request \in [Request -> Copy \cup {Idle}]
    /\ \A r \in Request : Working(r) =>
          /\ status[request[r].gin] # "unborn"
          /\ request[r].note.invoice = note[request[r].gin].invoice
          /\ request[r].validated => request[r].status = "APPROVED"
    /\ contended \subseteq Invoice
    /\ bypassed \subseteq Gin
    /\ items \in [Invoice -> Seq(Product \X (Nat \ {0}))]
    /\ cut \subseteq Invoice

(* What a request works on is a copy of a note. *)
LEMMA WorkingCopy ==
    ASSUME NotesTypeOK, NEW r \in Request, Working(r)
    PROVE  /\ request[r] \in Copy
           /\ request[r].gin \in Gin
           /\ request[r].status \in Status
           /\ request[r].note \in Note
           /\ note[request[r].gin] \in Note
  BY DEF NotesTypeOK, Working, Copy

(* NoteOf changes the items of the copy only. *)
LEMMA NoteOfCopy ==
    ASSUME NotesTypeOK, NEW r \in Request, Working(r)
    PROVE  /\ NoteOf(r) \in Note
           /\ NoteOf(r).creator = request[r].note.creator
           /\ NoteOf(r).invoice = request[r].note.invoice
  <1>1. request[r].note \in Note /\ note[request[r].gin].lines \in Seq(Product \X Int)
    BY WorkingCopy DEF Note
  <1> QED
    BY <1>1 DEF NoteOf, Note

LEMMA InitNotesTypeOK == Init => NotesTypeOK
  BY NotesAssumption DEF Init, NotesTypeOK, Absent, Working

(* The end of a request that writes its note's row, or writes it back. *)
Ended(r, new, n, u, k) ==
    LET g == request[r].gin IN
    /\ Working(r) /\ Done(r)
    /\ new \in Status \cup {"deleted"} /\ status' = [status EXCEPT ![g] = new]
    /\ n \in Note /\ n.invoice = note[g].invoice /\ note' = [note EXCEPT ![g] = n]
    /\ u \in User \cup {NoUser} /\ approver' = [approver EXCEPT ![g] = u]
    /\ k \in 0..2 /\ posted' = [posted EXCEPT ![g] = k]
    /\ contended' = contended /\ bypassed' \subseteq Gin /\ UNCHANGED <<items, cut>>

LEMMA EndedTypeOK ==
    ASSUME NotesTypeOK, NEW r \in Request, NEW new, NEW n, NEW u, NEW k,
           Ended(r, new, n, u, k)
    PROVE  NotesTypeOK'
  <1> DEFINE g == request[r].gin
  <1> USE DEF Ended
  <1>0. g \in Gin
    BY WorkingCopy
  <1>1. /\ status' \in [Gin -> Status \cup Absent]
        /\ note' \in [Gin -> Note \cup {NoNote}]
        /\ approver' \in [Gin -> User \cup {NoUser}]
        /\ posted' \in [Gin -> 0..2]
        /\ request' \in [Request -> Copy \cup {Idle}]
        /\ contended' \subseteq Invoice
    BY DEF NotesTypeOK, Done, Absent
  <1>2. new # "unborn" /\ status'[g] = new /\ note'[g] = n
    BY <1>0 DEF NotesTypeOK, Status
  <1>3. \A h \in Gin : h # g => /\ status'[h] = status[h]
                                /\ note'[h] = note[h]
                                /\ posted'[h] = posted[h]
    BY DEF NotesTypeOK
  <1>4. \A h \in Gin : status'[h] # "unborn" => note'[h] \in Note
    BY <1>2, <1>3 DEF NotesTypeOK
  <1>5. \A h \in Gin : status'[h] = "unborn" => posted'[h] = 0
    BY <1>2, <1>3 DEF NotesTypeOK
  <1>6. ASSUME NEW s \in Request, Working(s)'
        PROVE  /\ status'[request'[s].gin] # "unborn"
               /\ request'[s].note.invoice = note'[request'[s].gin].invoice
               /\ request'[s].validated => request'[s].status = "APPROVED"
    <2>1. Working(s) /\ request'[s] = request[s]
      BY <1>6 DEF NotesTypeOK, Done, Working
    <2>2. request[s].gin \in Gin
      BY <2>1, WorkingCopy
    <2> QED
      BY <2>1, <2>2, <1>2, <1>3 DEF NotesTypeOK
  <1> QED
    BY <1>1, <1>4, <1>5, <1>6 DEF NotesTypeOK

(* An action leaves of these columns what it does not mention. *)
LEMMA Unwritten ==
    ASSUME NotesTypeOK, NEW r \in Request, Working(r), NEW g \in Gin, g = request[r].gin
    PROVE  /\ status = [status EXCEPT ![g] = status[g]]
           /\ note = [note EXCEPT ![g] = note[g]]
           /\ approver = [approver EXCEPT ![g] = approver[g]]
           /\ posted = [posted EXCEPT ![g] = posted[g]]
           /\ status[g] \in Status \cup {"deleted"}
           /\ approver[g] \in User \cup {NoUser}
           /\ posted[g] \in 0..2
  BY DEF NotesTypeOK, Absent

(* Every action keeps the types. *)
LEMMA NextNotesTypeOK ==
    ASSUME NotesTypeOK, [Next]_vars
    PROVE  NotesTypeOK'
  <1>1. ASSUME NEW g \in Gin, CreateFromInvoice(g) \/ Create(g)
        PROVE  NotesTypeOK'
    <2>1. PICK n \in NewNotes : Insert(g, n)
      BY <1>1 DEF CreateFromInvoice, Create
    <2>2. /\ n \in Note /\ status[g] = "unborn"
          /\ status' = [status EXCEPT ![g] = "DRAFT"]
          /\ note' = [note EXCEPT ![g] = n]
          /\ UNCHANGED <<approver, posted, request, contended, bypassed, items, cut>>
      BY <2>1, NotesAssumption DEF Insert
    <2>3. \A r \in Request : Working(r) => request[r].gin \in Gin /\ request[r].gin # g
      BY <2>2, WorkingCopy DEF NotesTypeOK
    <2> QED
      BY <2>2, <2>3 DEF NotesTypeOK, Status, Working
  <1>2. ASSUME NEW r \in Request, Load(r)
        PROVE  NotesTypeOK'
    <2>1. PICK g \in Gin :
             /\ Exists(g)
             /\ request' = [request EXCEPT ![r] =
                   [gin |-> g, status |-> status[g], note |-> note[g],
                    approver |-> approver[g], validated |-> FALSE]]
             /\ contended' \subseteq contended \cup ({note[g].invoice} \ {NoInvoice})
      BY <1>2 DEF Load
    <2>2. UNCHANGED <<status, note, approver, posted, bypassed, items, cut>>
      BY <1>2 DEF Load
    <2>3. status[g] \in Status /\ note[g] \in Note /\ approver[g] \in User \cup {NoUser}
      BY <2>1 DEF Exists, NotesTypeOK, Absent
    <2>4. [gin |-> g, status |-> status[g], note |-> note[g],
           approver |-> approver[g], validated |-> FALSE] \in Copy
      BY <2>3 DEF Copy
    <2>5. note[g].invoice \in Invoice \cup {NoInvoice}
      BY <2>3 DEF Note
    <2>6. request' \in [Request -> Copy \cup {Idle}] /\ contended' \subseteq Invoice
      BY <2>1, <2>4, <2>5 DEF NotesTypeOK
    <2>7. ASSUME NEW s \in Request, Working(s)'
          PROVE  /\ status'[request'[s].gin] # "unborn"
                 /\ request'[s].note.invoice = note'[request'[s].gin].invoice
                 /\ request'[s].validated => request'[s].status = "APPROVED"
      <3>1. CASE s = r
        BY <3>1, <2>1, <2>2 DEF NotesTypeOK, Exists, Absent
      <3>2. CASE s # r
        BY <3>2, <2>1, <2>2, <2>7 DEF NotesTypeOK, Working
      <3> QED
        BY <3>1, <3>2
    <2> QED
      BY <2>2, <2>6, <2>7 DEF NotesTypeOK
  <1>3. ASSUME NEW r \in Request, NEW u \in User, Validate(r, u)
        PROVE  NotesTypeOK'
    <2>1. /\ request' = [request EXCEPT ![r].validated = TRUE]
          /\ Working(r) /\ request[r].status = "APPROVED"
          /\ UNCHANGED <<status, note, approver, posted, contended, bypassed, items, cut>>
      BY <1>3 DEF Validate
    <2>2. [request[r] EXCEPT !.validated = TRUE] \in Copy
      BY <2>1, WorkingCopy DEF Copy
    <2>3. request' \in [Request -> Copy \cup {Idle}]
      BY <2>1, <2>2 DEF NotesTypeOK
    <2>4. \A s \in Request : Working(s)' =>
             /\ Working(s)
             /\ request'[s].gin = request[s].gin
             /\ request'[s].note = request[s].note
             /\ request'[s].validated => request'[s].status = "APPROVED"
      BY <2>1, WorkingCopy DEF NotesTypeOK, Working, Copy
    <2> QED
      BY <2>1, <2>3, <2>4 DEF NotesTypeOK
  <1>4. ASSUME NEW r \in Request,
               Submit(r) \/ PlainChange(r) \/ \E u \in User : Approve(r, u)
        PROVE  NotesTypeOK'
    <2> DEFINE g == request[r].gin
    <2>1. PICK new \in {"PENDING", "APPROVED", "CANCELLED"}, u \in User \cup {NoUser} :
             /\ status' = [status EXCEPT ![g] = new]
             /\ approver' = [approver EXCEPT ![g] = u]
             /\ Working(r) /\ Done(r)
             /\ UNCHANGED <<note, posted, contended, items, cut>>
             /\ bypassed' \subseteq bypassed \cup {g}
      <3>1. CASE Submit(r)
        BY <3>1, Unwritten, WorkingCopy DEF Submit, SaveStatus
      <3>2. CASE PlainChange(r)
        BY <3>2, Unwritten, WorkingCopy DEF PlainChange, SaveStatus, PlainlyHandled
      <3>3. CASE \E u \in User : Approve(r, u)
        BY <3>3 DEF Approve, SaveStatus
      <3> QED
        BY <1>4, <3>1, <3>2, <3>3
    <2>2. g \in Gin /\ note[g] \in Note /\ new \in Status /\ bypassed' \subseteq Gin
      BY <2>1, WorkingCopy DEF NotesTypeOK, Status
    <2>3. /\ note' = [note EXCEPT ![g] = note[g]]
          /\ posted' = [posted EXCEPT ![g] = posted[g]] /\ posted[g] \in 0..2
          /\ contended' = contended
      BY <2>1, <2>2, Unwritten
    <2>4. Ended(r, new, note[g], u, posted[g])
      BY <2>1, <2>2, <2>3 DEF Ended
    <2> QED
      BY <2>4, EndedTypeOK
  <1>5. ASSUME NEW r \in Request, Complete(r) \/ PlainComplete(r)
        PROVE  NotesTypeOK'
    <2> DEFINE g == request[r].gin
    <2>1. /\ status' = [status EXCEPT ![g] = "COMPLETED"]
          /\ Working(r) /\ Done(r)
          /\ PostOnce(g)
          /\ UNCHANGED <<note, approver, contended, items, cut>>
          /\ bypassed' \subseteq bypassed \cup {g}
      BY <1>5 DEF Complete, PlainComplete, PlainlyHandled, SaveStatus
    <2>2. g \in Gin /\ note[g] \in Note /\ bypassed' \subseteq Gin
      BY <2>1, WorkingCopy DEF NotesTypeOK
    <2>3. posted[g] \in 0..2
      BY <2>1, <2>2, Unwritten
    <2>4. (IF posted[g] < 2 THEN posted[g] + 1 ELSE 2) \in 0..2
      BY <2>3
    <2>5. posted' = [posted EXCEPT ![g] = IF posted[g] < 2 THEN posted[g] + 1 ELSE 2]
      BY <2>1, <2>2, Zenon DEF PostOnce, NotesTypeOK
    <2>6. /\ note' = [note EXCEPT ![g] = note[g]]
          /\ approver' = [approver EXCEPT ![g] = approver[g]]
          /\ approver[g] \in User \cup {NoUser}
      BY <2>1, <2>2, Unwritten
    <2>7. "COMPLETED" \in Status \cup {"deleted"} /\ contended' = contended
      BY <2>1 DEF Status
    <2>8. Ended(r, "COMPLETED", note[g], approver[g], IF posted[g] < 2 THEN posted[g] + 1 ELSE 2)
      BY <2>1, <2>2, <2>4, <2>5, <2>6, <2>7 DEF Ended
    <2> QED
      BY <2>8, EndedTypeOK
  <1>6. ASSUME NEW r \in Request, PlainPatch(r)
        PROVE  NotesTypeOK'
    <2> DEFINE g == request[r].gin
    <2>1. Working(r)
      BY <1>6 DEF PlainPatch, PlainlyHandled
    <2>2. PICK wh \in PatchedWarehouse \cup {request[r].note.warehouse},
               author \in PatchedUser \cup {request[r].note.creator},
               u \in PatchedUser \cup {request[r].approver} :
             /\ note' = [note EXCEPT ![g] = [NoteOf(r) EXCEPT !.warehouse = wh,
                                                             !.creator = author]]
             /\ approver' = [approver EXCEPT ![g] = u]
      BY <1>6 DEF PlainPatch
    <2>3. /\ status' = [status EXCEPT ![g] = request[r].status]
          /\ Done(r) /\ UNCHANGED <<posted, contended, items, cut>>
          /\ bypassed' \subseteq bypassed \cup {g}
      BY <1>6 DEF PlainPatch
    <2>4. /\ g \in Gin /\ request[r].note \in Note /\ request[r].status \in Status
          /\ request[r].approver \in User \cup {NoUser}
      BY <2>1, WorkingCopy DEF Copy
    <2>5. /\ [NoteOf(r) EXCEPT !.warehouse = wh, !.creator = author] \in Note
          /\ [NoteOf(r) EXCEPT !.warehouse = wh, !.creator = author].invoice = NoteOf(r).invoice
      BY <2>1, <2>4, NoteOfCopy, UsersAssumption DEF Note
    <2>6. NoteOf(r).invoice = note[g].invoice
      BY <2>1, NoteOfCopy DEF NotesTypeOK
    <2>7. u \in User \cup {NoUser} /\ bypassed' \subseteq Gin
      BY <2>3, <2>4, UsersAssumption DEF NotesTypeOK
    <2>8. posted' = [posted EXCEPT ![g] = posted[g]] /\ posted[g] \in 0..2
      BY <2>1, <2>3, <2>4, Unwritten
    <2> QED
      <3>1. Ended(r, request[r].status, [NoteOf(r) EXCEPT !.warehouse = wh, !.creator = author],
                  u, posted[g])
        BY <2>1, <2>2, <2>3, <2>4, <2>5, <2>6, <2>7, <2>8 DEF Ended
      <3> QED
        BY <3>1, EndedTypeOK
  <1>7. ASSUME NEW r \in Request, PlainDestroy(r)
        PROVE  NotesTypeOK'
    <2> DEFINE g == request[r].gin
    <2>1. /\ Working(r) /\ Done(r) /\ UNCHANGED <<posted, contended, items, cut>>
          /\ status' = [status EXCEPT ![g] = "deleted"]
          /\ note' = [note EXCEPT ![g].lines = <<>>]
          /\ approver' = [approver EXCEPT ![g] = NoUser]
          /\ bypassed' \subseteq bypassed \cup {g}
      BY <1>7 DEF PlainDestroy, PlainlyHandled
    <2>2. g \in Gin /\ note[g] \in Note /\ bypassed' \subseteq Gin
      BY <2>1, WorkingCopy DEF NotesTypeOK
    <2>3. /\ [note[g] EXCEPT !.lines = <<>>] \in Note
          /\ [note[g] EXCEPT !.lines = <<>>].invoice = note[g].invoice
      <3>1. <<>> \in Seq(Product \X Int)
        OBVIOUS
      <3> QED
        BY <2>2, <3>1 DEF Note
    <2>4. note' = [note EXCEPT ![g] = [note[g] EXCEPT !.lines = <<>>]]
      BY <2>1, <2>2 DEF NotesTypeOK
    <2>5. posted' = [posted EXCEPT ![g] = posted[g]] /\ posted[g] \in 0..2
      BY <2>1, <2>2, Unwritten
    <2>6. Ended(r, "deleted", [note[g] EXCEPT !.lines = <<>>], NoUser, posted[g])
      BY <2>1, <2>2, <2>3, <2>4, <2>5 DEF Ended
    <2> QED
      BY <2>6, EndedTypeOK
  <1>8. ASSUME NEW r \in Request, Fail(r)
        PROVE  NotesTypeOK'
    <2>1. /\ Working(r) /\ Done(r)
          /\ UNCHANGED <<status, note, approver, posted, contended, bypassed, items, cut>>
      BY <1>8 DEF Fail
    <2>2. request[r].gin \in Gin /\ note[request[r].gin] \in Note
      BY <2>1, WorkingCopy
    <2> DEFINE g == request[r].gin
    <2>3. Ended(r, status[g], note[g], approver[g], posted[g])
      BY <2>1, <2>2, Unwritten DEF Ended, NotesTypeOK
    <2> QED
      BY <2>3, EndedTypeOK
  <1>9. CASE Restock
    BY <1>9 DEF Restock, NotesTypeOK, Working
  <1>10. CASE UNCHANGED vars
    BY <1>10 DEF vars, NotesTypeOK, Working
  <1>11. ASSUME NEW i \in Invoice, EditInvoice(i)
         PROVE  NotesTypeOK'
    <2>1. /\ UNCHANGED <<status, note, approver, posted, request, bypassed>>
          /\ contended' \subseteq contended \cup {i} /\ cut' \subseteq cut \cup {i}
      BY <1>11 DEF EditInvoice
    <2>2. PICK new \in EditedLines : items' = [items EXCEPT ![i] = new]
      BY <1>11 DEF EditInvoice
    <2>3. items' \in [Invoice -> Seq(Product \X (Nat \ {0}))]
      BY <2>2, NotesAssumption DEF NotesTypeOK
    <2> QED
      BY <2>1, <2>3 DEF NotesTypeOK, Working
  <1> QED
    BY <1>1, <1>2, <1>3, <1>4, <1>5, <1>6, <1>7, <1>8, <1>9, <1>10, <1>11 DEF Next, Handle

(* Notes, copies, counters and statuses keep their types. *)
THEOREM NotesTyped == Spec => []NotesTypeOK
  <1>1. Init => NotesTypeOK
    BY InitNotesTypeOK
  <1>2. NotesTypeOK /\ [Next]_vars => NotesTypeOK'
    BY NextNotesTypeOK
  <1> QED
    BY <1>1, <1>2, PTL DEF Spec

-----------------------------------------------------------------------------
(* Four eyes: a note only the service handled keeps its author, its copies *)
(* know it, and APPROVED is only written by Approve, or by a completion    *)
(* whose copy said APPROVED.                                               *)
FourEyesInv == FourEyes /\ CopiesAreApproved

(* A request ends and its note, if the service still vouches for it, has   *)
(* author and approver as required.                                        *)
LEMMA EndedFourEyes ==
    ASSUME NotesTypeOK, FourEyesInv, NEW r \in Request, Working(r), Done(r),
           NEW g \in Gin, g = request[r].gin,
           \A h \in Gin : h # g => /\ status'[h] = status[h]
                                   /\ note'[h] = note[h]
                                   /\ approver'[h] = approver[h],
           bypassed \subseteq bypassed',
           g \notin bypassed' =>
              /\ note'[g] = note[g]
              /\ ApprovedByAnother(g) => ApprovedByAnother(g)'
              /\ status'[g] \in {"APPROVED", "COMPLETED"} => ApprovedByAnother(g)'
    PROVE  FourEyesInv'
  <1>1. FourEyes'
    BY DEF FourEyesInv, FourEyes, ApprovedByAnother
  <1>2. ASSUME NEW s \in Request, Working(s)', request'[s].gin \notin bypassed'
        PROVE  /\ request'[s].note.creator = note'[request'[s].gin].creator
               /\ request'[s].status \in {"APPROVED", "COMPLETED"}
                     => ApprovedByAnother(request[s].gin)'
    <2>1. Working(s) /\ request'[s] = request[s]
      BY <1>2 DEF NotesTypeOK, Done, Working
    <2>2. request[s].gin \in Gin /\ request[s].gin \notin bypassed
      BY <1>2, <2>1, WorkingCopy
    <2>3. /\ request[s].note.creator = note[request[s].gin].creator
          /\ request[s].status \in {"APPROVED", "COMPLETED"}
                => ApprovedByAnother(request[s].gin)
      BY <2>1, <2>2 DEF FourEyesInv, CopiesAreApproved
    <2> QED
      BY <1>2, <2>1, <2>2, <2>3 DEF ApprovedByAnother
  <1>3. CopiesAreApproved'
    <2>1. \A s \in Request : Working(s)' => request'[s] = request[s]
      BY DEF NotesTypeOK, Done, Working
    <2> QED
      BY <1>2, <2>1 DEF CopiesAreApproved, ApprovedByAnother
  <1> QED
    BY <1>1, <1>3 DEF FourEyesInv

(* Every action keeps FourEyesInv. *)
LEMMA FourEyesStep ==
    ASSUME NotesTypeOK, FourEyesInv, [Next]_vars
    PROVE  FourEyesInv'
  <1>1. ASSUME NEW g \in Gin, CreateFromInvoice(g) \/ Create(g)
        PROVE  FourEyesInv'
    <2>1. PICK n \in NewNotes : Insert(g, n)
      BY <1>1 DEF CreateFromInvoice, Create
    <2>2. /\ status[g] = "unborn"
          /\ status' = [status EXCEPT ![g] = "DRAFT"]
          /\ note' = [note EXCEPT ![g] = n]
          /\ UNCHANGED <<approver, request, bypassed>>
      BY <2>1 DEF Insert
    <2>3. \A r \in Request : Working(r) => request[r].gin \in Gin /\ request[r].gin # g
      BY <2>2, WorkingCopy DEF NotesTypeOK
    <2>4. FourEyes'
      BY <2>2 DEF FourEyesInv, FourEyes, NotesTypeOK
    <2>5. CopiesAreApproved'
      BY <2>2, <2>3 DEF FourEyesInv, CopiesAreApproved, ApprovedByAnother, NotesTypeOK, Working
    <2> QED
      BY <2>4, <2>5 DEF FourEyesInv
  <1>2. ASSUME NEW r \in Request, Load(r)
        PROVE  FourEyesInv'
    <2>1. PICK g \in Gin :
             /\ Exists(g)
             /\ request' = [request EXCEPT ![r] =
                   [gin |-> g, status |-> status[g], note |-> note[g],
                    approver |-> approver[g], validated |-> FALSE]]
      BY <1>2 DEF Load
    <2>2. UNCHANGED <<status, note, approver, bypassed>>
      BY <1>2 DEF Load
    <2>3. FourEyes'
      BY <2>2 DEF FourEyesInv, FourEyes
    <2>4. ASSUME NEW s \in Request, Working(s)', request'[s].gin \notin bypassed'
          PROVE  /\ request'[s].note.creator = note'[request'[s].gin].creator
                 /\ request'[s].status \in {"APPROVED", "COMPLETED"}
                       => approver'[request'[s].gin]
                             \in Approver \ {note'[request'[s].gin].creator}
      <3>1. CASE s = r
        BY <3>1, <2>1, <2>2, <2>4 DEF FourEyesInv, FourEyes, NotesTypeOK
      <3>2. CASE s # r
        BY <3>2, <2>1, <2>2, <2>4
           DEF FourEyesInv, CopiesAreApproved, ApprovedByAnother, NotesTypeOK, Working
      <3> QED
        BY <3>1, <3>2
    <2> QED
      BY <2>3, <2>4 DEF FourEyesInv, CopiesAreApproved, ApprovedByAnother
  <1>3. ASSUME NEW r \in Request, NEW u \in User, Validate(r, u)
        PROVE  FourEyesInv'
    <2>1. /\ request' = [request EXCEPT ![r].validated = TRUE] /\ Working(r)
          /\ UNCHANGED <<status, note, approver, bypassed>>
      BY <1>3 DEF Validate
    <2>2. \A s \in Request : Working(s)' =>
             /\ Working(s)
             /\ request'[s].gin = request[s].gin
             /\ request'[s].note = request[s].note
             /\ request'[s].status = request[s].status
      BY <2>1, WorkingCopy DEF NotesTypeOK, Working, Copy
    <2> QED
      BY <2>1, <2>2 DEF FourEyesInv, FourEyes, CopiesAreApproved, ApprovedByAnother
  <1>4. ASSUME NEW r \in Request, Submit(r)
        PROVE  FourEyesInv'
    <2>1. /\ Working(r) /\ Done(r) /\ UNCHANGED <<note, approver, bypassed>>
          /\ status' = [status EXCEPT ![request[r].gin] = "PENDING"]
      BY <1>4 DEF Submit, SaveStatus
    <2>2. request[r].gin \in Gin
      BY <2>1, WorkingCopy
    <2> QED
      BY <2>1, <2>2, EndedFourEyes DEF NotesTypeOK, ApprovedByAnother
  <1>5. ASSUME NEW r \in Request, NEW u \in User, Approve(r, u)
        PROVE  FourEyesInv'
    <2>0. PICK g \in Gin : g = request[r].gin
      BY <1>5, WorkingCopy DEF Approve
    <2>1. /\ Working(r) /\ Done(r) /\ UNCHANGED <<note, bypassed>>
          /\ status' = [status EXCEPT ![g] = "APPROVED"]
          /\ approver' = [approver EXCEPT ![g] = u]
          /\ u \in Approver /\ u # NoteOf(r).creator
      BY <1>5, <2>0 DEF Approve, SaveStatus
    <2>3. g \notin bypassed => u # note[g].creator
      BY <2>0, <2>1, NoteOfCopy DEF FourEyesInv, CopiesAreApproved
    <2>4. g \notin bypassed => ApprovedByAnother(g)'
      BY <2>1, <2>3 DEF ApprovedByAnother, NotesTypeOK
    <2> QED
      BY <2>0, <2>1, <2>4, EndedFourEyes DEF NotesTypeOK
  <1>6. ASSUME NEW r \in Request, Complete(r)
        PROVE  FourEyesInv'
    <2> DEFINE g == request[r].gin
    <2>1. /\ Working(r) /\ Done(r) /\ UNCHANGED <<note, approver, bypassed>>
          /\ status' = [status EXCEPT ![g] = "COMPLETED"]
          /\ request[r].validated
      BY <1>6 DEF Complete, SaveStatus
    <2>2. g \in Gin /\ request[r].status = "APPROVED"
      BY <2>1, WorkingCopy DEF NotesTypeOK
    <2>3. g \notin bypassed => ApprovedByAnother(g)
      BY <2>1, <2>2 DEF FourEyesInv, CopiesAreApproved
    <2> QED
      BY <2>1, <2>2, <2>3, EndedFourEyes DEF NotesTypeOK, ApprovedByAnother
  <1>7. ASSUME NEW r \in Request,
               PlainChange(r) \/ PlainComplete(r) \/ PlainPatch(r) \/ PlainDestroy(r)
        PROVE  FourEyesInv'
    <2> DEFINE g == request[r].gin
    <2>1. /\ Working(r) /\ Done(r) /\ bypassed' = bypassed \cup {g}
      BY <1>7 DEF PlainChange, PlainComplete, PlainPatch, PlainDestroy, PlainlyHandled
    <2>2. g \in Gin
      BY <2>1, WorkingCopy
    <2>3. \A h \in Gin : h # g => /\ status'[h] = status[h]
                                  /\ note'[h] = note[h]
                                  /\ approver'[h] = approver[h]
      <3>1. CASE PlainChange(r)
        BY <3>1, <2>2 DEF PlainChange, SaveStatus, NotesTypeOK
      <3>2. CASE PlainComplete(r)
        BY <3>2, <2>2 DEF PlainComplete, SaveStatus, NotesTypeOK
      <3>3. CASE PlainPatch(r)
        <4>1. PICK n, u : /\ note' = [note EXCEPT ![g] = n]
                          /\ approver' = [approver EXCEPT ![g] = u]
          BY <3>3, Zenon DEF PlainPatch
        <4> QED
          BY <3>3, <2>2, <4>1 DEF PlainPatch, NotesTypeOK
      <3>4. CASE PlainDestroy(r)
        <4>1. note' = [note EXCEPT ![g].lines = <<>>]
          BY <3>4 DEF PlainDestroy
        <4>2. \A h \in Gin : h # g => note'[h] = note[h]
          BY <2>2, <4>1 DEF NotesTypeOK
        <4> QED
          BY <3>4, <2>2, <4>2 DEF PlainDestroy, NotesTypeOK
      <3> QED
        BY <1>7, <3>1, <3>2, <3>3, <3>4
    <2> QED
      BY <2>1, <2>2, <2>3, EndedFourEyes
  <1>8. ASSUME NEW r \in Request, Fail(r)
        PROVE  FourEyesInv'
    <2>1. Working(r) /\ Done(r) /\ UNCHANGED <<status, note, approver, bypassed>>
      BY <1>8 DEF Fail
    <2>2. request[r].gin \in Gin
      BY <2>1, WorkingCopy
    <2> QED
      BY <2>1, <2>2, EndedFourEyes DEF FourEyesInv, FourEyes, ApprovedByAnother
  <1>9. CASE Restock \/ UNCHANGED vars \/ \E i \in Invoice : EditInvoice(i)
    <2>1. UNCHANGED <<status, note, approver, request, bypassed>>
      BY <1>9 DEF Restock, EditInvoice, vars
    <2> QED
      BY <2>1 DEF FourEyesInv, FourEyes, CopiesAreApproved, ApprovedByAnother, Working
  <1> QED
    BY <1>1, <1>2, <1>3, <1>4, <1>5, <1>6, <1>7, <1>8, <1>9 DEF Next, Handle

(* GoodsIssueService lets goods leave only after somebody with gin.approve *)
(* who did not write the note approved it, whichever copies are stale.     *)
THEOREM FourEyesTheorem == Spec => []FourEyes
  <1>1. Init => FourEyesInv
    BY DEF Init, FourEyesInv, FourEyes, CopiesAreApproved, Working
  <1>2. NotesTypeOK /\ FourEyesInv /\ [Next]_vars => FourEyesInv'
    BY FourEyesStep
  <1>3. FourEyesInv => FourEyes
    BY DEF FourEyesInv
  <1> QED
    BY <1>1, <1>2, <1>3, NotesTyped, PTL DEF Spec

-----------------------------------------------------------------------------
(* The fulfilment report.  Only copies that are no longer true could let a *)
(* posted note lose its COMPLETED or be posted again, and as long as an    *)
(* invoice is worked for by one request at a time there are none.          *)
ReportInv == ReportedHasLeft /\ CopiesAreCurrent

(* A request alone with its invoice knows whether its note was posted. *)
LEMMA KnowsWhatLeft ==
    ASSUME NotesTypeOK, ReportInv, NEW r \in Request, Working(r),
           note[request[r].gin].invoice \in Invoice \ contended
    PROVE  /\ status[request[r].gin] = request[r].status
           /\ posted[request[r].gin] = IF request[r].status = "COMPLETED" THEN 1 ELSE 0
  <1>1. WorksFor(r, note[request[r].gin].invoice)
    BY DEF WorksFor, NotesTypeOK
  <1>2. status[request[r].gin] = request[r].status
    BY <1>1 DEF ReportInv, CopiesAreCurrent
  <1>3. request[r].status \notin {"unborn", "deleted"}
    BY WorkingCopy DEF Status
  <1> QED
    BY <1>2, <1>3, WorkingCopy DEF ReportInv, ReportedHasLeft

LEMMA EndedReport ==
    ASSUME NotesTypeOK, ReportInv, NEW r \in Request, Working(r), Done(r),
           NEW g \in Gin, g = request[r].gin, contended' = contended,
           bypassed \subseteq bypassed',
           \A h \in Gin : note'[h].invoice = note[h].invoice,
           \A h \in Gin : h # g => status'[h] = status[h] /\ posted'[h] = posted[h],
           (/\ status[g] = request[r].status
            /\ posted[g] = IF request[r].status = "COMPLETED" THEN 1 ELSE 0)
              => \/ posted'[g] = IF status'[g] = "COMPLETED" THEN 1 ELSE 0
                 \/ posted'[g] = posted[g] /\ status'[g] = "deleted" /\ g \in bypassed'
    PROVE  ReportInv'
  <1>1. ASSUME NEW h \in Gin, status'[h] # "unborn", note'[h].invoice \in Invoice \ contended'
        PROVE  \/ posted'[h] = IF status'[h] = "COMPLETED" THEN 1 ELSE 0
               \/ posted'[h] = 1 /\ status'[h] = "deleted" /\ h \in bypassed'
    <2>1. note[h].invoice \in Invoice \ contended
      BY <1>1
    <2>2. CASE h = g
      BY <2>1, <2>2, KnowsWhatLeft
    <2>3. CASE h # g
      BY <1>1, <2>1, <2>3 DEF ReportInv, ReportedHasLeft
    <2> QED
      BY <2>2, <2>3
  <1>2. ASSUME NEW i \in Invoice \ contended, NEW s \in Request, WorksFor(s, i)'
        PROVE  /\ status'[request'[s].gin] = request'[s].status
               /\ \A t \in Request : WorksFor(t, i)' => t = s
    <2>1. \A t \in Request : WorksFor(t, i)' =>
              t # r /\ request'[t] = request[t] /\ WorksFor(t, i)
      BY DEF NotesTypeOK, Done, WorksFor, Working
    <2>2. \A t \in Request : WorksFor(t, i) => t = s
      BY <1>2, <2>1 DEF ReportInv, CopiesAreCurrent
    <2>3. request[s].gin \in Gin /\ note[request[s].gin].invoice = i
      BY <1>2, <2>1, WorkingCopy DEF WorksFor, NotesTypeOK
    <2>4. request[s].gin # g
      <3>1. SUFFICES ASSUME request[s].gin = g PROVE FALSE
        OBVIOUS
      <3>2. request[r].note.invoice = note[g].invoice
        BY DEF NotesTypeOK
      <3>4. WorksFor(r, i)
        BY <2>3, <3>1, <3>2 DEF WorksFor
      <3>3. s # r /\ WorksFor(s, i)
        BY <1>2, <2>1
      <3> QED
        BY <2>2, <3>3, <3>4
    <2>5. request'[s] = request[s] /\ status[request[s].gin] = request[s].status
      BY <1>2, <2>1 DEF ReportInv, CopiesAreCurrent
    <2> QED
      BY <2>1, <2>2, <2>3, <2>4, <2>5
  <1> QED
    BY <1>1, <1>2 DEF ReportInv, ReportedHasLeft, CopiesAreCurrent

(* Every action keeps ReportInv. *)
LEMMA ReportStep ==
    ASSUME NotesTypeOK, ReportInv, [Next]_vars
    PROVE  ReportInv'
  <1>1. ASSUME NEW g \in Gin, CreateFromInvoice(g) \/ Create(g)
        PROVE  ReportInv'
    <2>1. PICK n \in NewNotes : Insert(g, n)
      BY <1>1 DEF CreateFromInvoice, Create
    <2>2. /\ status[g] = "unborn"
          /\ status' = [status EXCEPT ![g] = "DRAFT"]
          /\ note' = [note EXCEPT ![g] = n]
          /\ UNCHANGED <<posted, request, contended, bypassed>>
      BY <2>1 DEF Insert
    <2>3. \A r \in Request : Working(r) => request[r].gin \in Gin /\ request[r].gin # g
      BY <2>2, WorkingCopy DEF NotesTypeOK
    <2>4. ReportedHasLeft'
      BY <2>2 DEF ReportInv, ReportedHasLeft, NotesTypeOK
    <2>5. CopiesAreCurrent'
      BY <2>2, <2>3 DEF ReportInv, CopiesAreCurrent, WorksFor, Working, NotesTypeOK
    <2> QED
      BY <2>4, <2>5 DEF ReportInv
  <1>2. ASSUME NEW r \in Request, Load(r)
        PROVE  ReportInv'
    <2>1. PICK g \in Gin :
             /\ Exists(g)
             /\ request' = [request EXCEPT ![r] =
                   [gin |-> g, status |-> status[g], note |-> note[g],
                    approver |-> approver[g], validated |-> FALSE]]
             /\ contended' = contended \cup
                   {i \in {note[g].invoice} \ {NoInvoice} :
                       \E s \in Request : Working(s) /\ request[s].note.invoice = i}
      BY <1>2 DEF Load
    <2>2. UNCHANGED <<status, note, posted, bypassed>> /\ ~Working(r)
      BY <1>2 DEF Load
    <2>3. ReportedHasLeft'
      BY <2>1, <2>2 DEF ReportInv, ReportedHasLeft
    <2>4. ASSUME NEW i \in Invoice \ contended', NEW s \in Request, WorksFor(s, i)'
          PROVE  /\ status'[request'[s].gin] = request'[s].status
                 /\ \A t \in Request : WorksFor(t, i)' => t = s
      <3>1. \A t \in Request : t # r /\ WorksFor(t, i)' =>
                 WorksFor(t, i) /\ request'[t] = request[t]
        BY <2>1 DEF NotesTypeOK, WorksFor, Working
      <3>2. CASE s = r
        <4>1. note[g].invoice = i /\ request'[r].status = status[g] /\ request'[r].gin = g
          BY <3>2, <2>1, <2>4 DEF NotesTypeOK, WorksFor
        <4>2. i # NoInvoice
          BY NothingAssumption
        <4>3. \A t \in Request : ~WorksFor(t, i)
          BY <2>1, <2>4, <4>1, <4>2 DEF WorksFor
        <4> QED
          BY <3>1, <3>2, <4>1, <4>3, <2>2
      <3>3. CASE s # r
        <4>1. WorksFor(s, i) /\ request'[s] = request[s] /\ i \notin contended
          BY <3>1, <3>3, <2>1, <2>4
        <4>2. ~WorksFor(r, i)'
          <5>1. SUFFICES ASSUME WorksFor(r, i)' PROVE FALSE
            OBVIOUS
          <5>2. note[g].invoice = i /\ i # NoInvoice
            BY <5>1, <2>1, NothingAssumption DEF NotesTypeOK, WorksFor
          <5> QED
            BY <2>1, <2>4, <4>1, <5>2 DEF WorksFor
        <4> QED
          BY <2>2, <3>1, <4>1, <4>2 DEF ReportInv, CopiesAreCurrent
      <3> QED
        BY <3>2, <3>3
    <2> QED
      BY <2>3, <2>4 DEF ReportInv, CopiesAreCurrent
  <1>3. ASSUME NEW r \in Request, NEW u \in User, Validate(r, u)
        PROVE  ReportInv'
    <2>1. /\ request' = [request EXCEPT ![r].validated = TRUE] /\ Working(r)
          /\ UNCHANGED <<status, note, posted, contended, bypassed>>
      BY <1>3 DEF Validate
    <2>2. \A s \in Request : Working(s)' =>
             /\ Working(s)
             /\ request'[s].gin = request[s].gin
             /\ request'[s].note = request[s].note
             /\ request'[s].status = request[s].status
      BY <2>1, WorkingCopy DEF NotesTypeOK, Working, Copy
    <2> QED
      BY <2>1, <2>2 DEF ReportInv, ReportedHasLeft, CopiesAreCurrent, WorksFor
  <1>4. ASSUME NEW r \in Request,
               Submit(r) \/ PlainChange(r) \/ \E u \in User : Approve(r, u)
        PROVE  ReportInv'
    <2>0. PICK g \in Gin : g = request[r].gin
      BY <1>4, WorkingCopy DEF Submit, PlainChange, PlainlyHandled, Approve
    <2>1. PICK new \in {"PENDING", "APPROVED", "CANCELLED"} :
             /\ status' = [status EXCEPT ![g] = new]
             /\ request[r].status # "COMPLETED"
             /\ Working(r) /\ Done(r)
             /\ UNCHANGED <<note, posted, contended>> /\ bypassed \subseteq bypassed'
      <3>1. CASE Submit(r)
        BY <3>1, <2>0 DEF Submit, SaveStatus
      <3>2. CASE PlainChange(r)
        BY <3>2, <2>0 DEF PlainChange, SaveStatus, PlainlyHandled,
                          MaySubmit, MayApprove, MayCancel
      <3>3. CASE \E u \in User : Approve(r, u)
        BY <3>3, <2>0 DEF Approve, SaveStatus
      <3> QED
        BY <1>4, <3>1, <3>2, <3>3
    <2> QED
      BY <2>0, <2>1, EndedReport DEF NotesTypeOK
  <1>5. ASSUME NEW r \in Request, Complete(r) \/ PlainComplete(r)
        PROVE  ReportInv'
    <2>0. PICK g \in Gin : g = request[r].gin
      BY <1>5, WorkingCopy DEF Complete, PlainComplete, PlainlyHandled
    <2>1. /\ status' = [status EXCEPT ![g] = "COMPLETED"]
          /\ Working(r) /\ Done(r) /\ PostOnce(g)
          /\ UNCHANGED <<note, contended>> /\ bypassed \subseteq bypassed'
      BY <1>5, <2>0 DEF Complete, PlainComplete, PlainlyHandled, SaveStatus
    <2>2. request[r].status # "COMPLETED"
      BY <1>5 DEF Complete, PlainComplete, MayComplete, NotesTypeOK
    <2>3. posted' = [posted EXCEPT ![g] = IF posted[g] < 2 THEN posted[g] + 1 ELSE 2]
      BY <2>1, Zenon DEF PostOnce, NotesTypeOK
    <2>4. posted[g] = 0 => posted'[g] = 1
      BY <2>3 DEF NotesTypeOK
    <2>5. status'[g] = "COMPLETED"
      BY <2>1 DEF NotesTypeOK
    <2>6. \A h \in Gin : h # g => status'[h] = status[h] /\ posted'[h] = posted[h]
      BY <2>1, <2>3 DEF NotesTypeOK
    <2> QED
      BY <2>0, <2>1, <2>2, <2>4, <2>5, <2>6, EndedReport
  <1>6. ASSUME NEW r \in Request, PlainPatch(r)
        PROVE  ReportInv'
    <2>0. PICK g \in Gin : g = request[r].gin
      BY <1>6, WorkingCopy DEF PlainPatch, PlainlyHandled
    <2>1. /\ status' = [status EXCEPT ![g] = request[r].status]
          /\ Working(r) /\ Done(r) /\ UNCHANGED <<posted, contended>>
          /\ bypassed \subseteq bypassed'
      BY <1>6, <2>0 DEF PlainPatch, PlainlyHandled
    <2>2. PICK n : n.invoice = note[g].invoice /\ note' = [note EXCEPT ![g] = n]
      <3>1. PICK wh, author :
               note' = [note EXCEPT ![g] = [NoteOf(r) EXCEPT !.warehouse = wh,
                                                            !.creator = author]]
        BY <1>6, <2>0 DEF PlainPatch
      <3>2. NoteOf(r) \in Note /\ NoteOf(r).invoice = note[g].invoice
        BY <2>0, <2>1, NoteOfCopy DEF NotesTypeOK
      <3>3. [NoteOf(r) EXCEPT !.warehouse = wh, !.creator = author].invoice
                = note[g].invoice
        BY <3>2 DEF Note
      <3> QED
        BY <3>1, <3>3
    <2>3. \A h \in Gin : note'[h].invoice = note[h].invoice
      BY <2>2 DEF NotesTypeOK
    <2> QED
      BY <2>0, <2>1, <2>3, EndedReport DEF NotesTypeOK
  <1>7. ASSUME NEW r \in Request, PlainDestroy(r)
        PROVE  ReportInv'
    <2>0. PICK g \in Gin : g = request[r].gin
      BY <1>7, WorkingCopy DEF PlainDestroy, PlainlyHandled
    <2>1. /\ status' = [status EXCEPT ![g] = "deleted"]
          /\ note' = [note EXCEPT ![g].lines = <<>>]
          /\ Working(r) /\ Done(r) /\ UNCHANGED <<posted, contended>>
          /\ bypassed' = bypassed \cup {g}
      BY <1>7, <2>0 DEF PlainDestroy, PlainlyHandled
    <2>2. \A h \in Gin : note'[h].invoice = note[h].invoice
      <3>1. note[g] \in Note
        BY <2>0, <2>1, WorkingCopy
      <3> QED
        BY <2>1, <3>1 DEF NotesTypeOK, Note
    <2> QED
      BY <2>0, <2>1, <2>2, EndedReport DEF NotesTypeOK
  <1>8. ASSUME NEW r \in Request, Fail(r)
        PROVE  ReportInv'
    <2>0. PICK g \in Gin : g = request[r].gin
      BY <1>8, WorkingCopy DEF Fail
    <2>1. Working(r) /\ Done(r) /\ UNCHANGED <<status, note, posted, contended, bypassed>>
      BY <1>8 DEF Fail
    <2> QED
      BY <2>0, <2>1, EndedReport
  <1>9. CASE Restock \/ UNCHANGED vars \/ \E i \in Invoice : EditInvoice(i)
    <2>1. UNCHANGED <<status, note, posted, request, bypassed>> /\ contended \subseteq contended'
      BY <1>9 DEF Restock, EditInvoice, vars
    <2> QED
      BY <2>1 DEF ReportInv, ReportedHasLeft, CopiesAreCurrent, WorksFor, Working
  <1> QED
    BY <1>1, <1>2, <1>3, <1>4, <1>5, <1>6, <1>7, <1>8, <1>9 DEF Next, Handle

(* The COMPLETED notes of an invoice that no two requests worked for at    *)
(* once are those whose goods left the shelf, and they left once; only     *)
(* notes the /gin/ handler deleted are missing among them.                 *)
THEOREM ReportTheorem == Spec => []ReportedHasLeft
  <1>1. Init => ReportInv
    BY DEF Init, ReportInv, ReportedHasLeft, CopiesAreCurrent, WorksFor, Working
  <1>2. NotesTypeOK /\ ReportInv /\ [Next]_vars => ReportInv'
    BY ReportStep
  <1>3. ReportInv => ReportedHasLeft
    BY DEF ReportInv
  <1> QED
    BY <1>1, <1>2, <1>3, NotesTyped, PTL DEF Spec

-----------------------------------------------------------------------------
(* What is invoiced and what is issued are sums of lines: over the lines   *)
(* of one note, and over the notes of one invoice.                         *)
LinesFor(lines, p) == {n \in DOMAIN lines : lines[n][1] = p}
Amounts(lines) == [n \in DOMAIN lines |-> lines[n][2]]

(* The quantities of the lines of a product. *)
LEMMA QuantitiesAreIntegers ==
    ASSUME NEW lines \in Seq(Product \X Int), NEW p
    PROVE  IntegersOn(Amounts(lines), LinesFor(lines, p))
  <1>1. IsFiniteSet(1..Len(lines))
    BY FS_Interval
  <1>2. LinesFor(lines, p) \in SUBSET (1..Len(lines))
    BY DEF LinesFor
  <1>3. IsFiniteSet(LinesFor(lines, p))
    BY <1>1, <1>2, FS_Subset
  <1>4. \A n \in LinesFor(lines, p) : Amounts(lines)[n] \in Int
    BY DEF LinesFor, Amounts
  <1> QED
    BY <1>3, <1>4 DEF IntegersOn

(* QuantityOf, whose definition adds the lines of a product, is their      *)
(* sum.                                                                    *)
LEMMA QuantityIsSum ==
    ASSUME NEW lines \in Seq(Product \X Int), NEW p
    PROVE  QuantityOf(lines, p) = SumFunctionOnSet(Amounts(lines), LinesFor(lines, p))
  <1> DEFINE S == LinesFor(lines, p)
             f == Amounts(lines)
             Step(h) == [s \in SUBSET S |->
                            IF s = {} THEN 0
                            ELSE lines[CHOOSE x \in s : TRUE][2] + h[s \ {CHOOSE x \in s : TRUE}]]
             h == CHOOSE h : h = Step(h)
  <1>1. \A k : Step(k) = [s \in SUBSET S |->
                             IF s = {} THEN 0
                             ELSE f[CHOOSE x \in s : TRUE] + k[s \ {CHOOSE x \in s : TRUE}]]
    BY DEF Amounts, LinesFor
  <1>2. IntegersOn(f, S)
    BY QuantitiesAreIntegers
  <1>3. PICK k : Adds(k, f, S)
    BY <1>2, SumsExist
  <1>4. k = Step(k)
    <2>1. k = [s \in SUBSET S |-> IF s = {} THEN 0
                 ELSE f[CHOOSE x \in s : TRUE] + k[s \ {CHOOSE x \in s : TRUE}]]
      BY <1>3 DEF Adds
    <2> HIDE DEF Step, f, S
    <2> QED
      BY <1>1, <2>1
  <1>5. Adds(h, f, S)
    <2>1. h = Step(h)
      <3> HIDE DEF Step
      <3> QED
        BY <1>4
    <2>2. Step(h) = [s \in SUBSET S |-> IF s = {} THEN 0
                 ELSE f[CHOOSE x \in s : TRUE] + h[s \ {CHOOSE x \in s : TRUE}]]
      <3> HIDE DEF Step, f, S, h
      <3> QED
        BY <1>1
    <2> HIDE DEF Step, f, S, h
    <2> QED
      BY <2>1, <2>2 DEF Adds
  <1>6. h[S] = SumFunctionOnSet(f, S)
    BY <1>2, <1>5, SumOnly
  <1>7. QuantityOf(lines, p) = h[S]
    BY DEF QuantityOf, MapThenSumSet, MapThenFoldSet, LinesFor
  <1> QED
    BY <1>6, <1>7

(* IssuedBy is Issued for given rows and given notes. *)
IssuedBy(rowsOf, notes, p) == MapThenSumSet(LAMBDA g : QuantityOf(rowsOf[g].lines, p), notes)
Quantities(rowsOf, notes, p) == [g \in notes |-> QuantityOf(rowsOf[g].lines, p)]
Listed(rowsOf, notes) ==
    IsFiniteSet(notes) /\ \A g \in notes : rowsOf[g].lines \in Seq(Product \X Int)

(* What each note issues of a product. *)
LEMMA NoteQuantitiesAreIntegers ==
    ASSUME NEW rowsOf, NEW notes, Listed(rowsOf, notes), NEW p
    PROVE  IntegersOn(Quantities(rowsOf, notes, p), notes)
  <1>1. ASSUME NEW g \in notes PROVE Quantities(rowsOf, notes, p)[g] \in Int
    <2>1. rowsOf[g].lines \in Seq(Product \X Int)
      BY DEF Listed
    <2>2. QuantityOf(rowsOf[g].lines, p) \in Int
      BY <2>1, QuantitiesAreIntegers, QuantityIsSum, SumInteger
    <2> QED
      BY <2>2 DEF Quantities
  <1> QED
    BY <1>1 DEF IntegersOn, Listed

(* IssuedBy is a sum over the notes. *)
LEMMA IssuedIsSum ==
    ASSUME NEW rowsOf, NEW notes, Listed(rowsOf, notes), NEW p
    PROVE  IssuedBy(rowsOf, notes, p) = SumFunctionOnSet(Quantities(rowsOf, notes, p), notes)
  <1> DEFINE f == Quantities(rowsOf, notes, p)
             Step(h) == [s \in SUBSET notes |->
                 IF s = {} THEN 0
                 ELSE QuantityOf(rowsOf[CHOOSE x \in s : TRUE].lines, p)
                          + h[s \ {CHOOSE x \in s : TRUE}]]
             h == CHOOSE h : h = Step(h)
  <1>1. \A k : Step(k) = [s \in SUBSET notes |-> IF s = {} THEN 0
                 ELSE f[CHOOSE x \in s : TRUE] + k[s \ {CHOOSE x \in s : TRUE}]]
    BY DEF Quantities
  <1>2. IntegersOn(f, notes)
    BY NoteQuantitiesAreIntegers
  <1>3. PICK k : Adds(k, f, notes)
    BY <1>2, SumsExist
  <1>4. k = Step(k)
    <2>1. k = [s \in SUBSET notes |-> IF s = {} THEN 0
                 ELSE f[CHOOSE x \in s : TRUE] + k[s \ {CHOOSE x \in s : TRUE}]]
      BY <1>3 DEF Adds
    <2> HIDE DEF Step, f
    <2> QED
      BY <1>1, <2>1
  <1>5. Adds(h, f, notes)
    <2>1. h = Step(h)
      <3> HIDE DEF Step
      <3> QED
        BY <1>4
    <2>2. Step(h) = [s \in SUBSET notes |-> IF s = {} THEN 0
                 ELSE f[CHOOSE x \in s : TRUE] + h[s \ {CHOOSE x \in s : TRUE}]]
      <3> HIDE DEF Step, f, h
      <3> QED
        BY <1>1
    <2> HIDE DEF Step, f, h
    <2> QED
      BY <2>1, <2>2 DEF Adds
  <1>6. h[notes] = SumFunctionOnSet(f, notes)
    BY <1>2, <1>5, SumOnly
  <1>7. IssuedBy(rowsOf, notes, p) = h[notes]
    BY DEF IssuedBy, MapThenSumSet, MapThenFoldSet
  <1> QED
    BY <1>6, <1>7

(* What is issued is an integer, and does not depend on other notes. *)
LEMMA IssuedByKept ==
    ASSUME NEW rowsOf, NEW rowsOf1, NEW notes, Listed(rowsOf, notes), NEW p,
           \A g \in notes : rowsOf1[g].lines = rowsOf[g].lines
    PROVE  /\ IssuedBy(rowsOf, notes, p) \in Int
           /\ IssuedBy(rowsOf1, notes, p) = IssuedBy(rowsOf, notes, p)
  <1>1. Listed(rowsOf1, notes)
    BY DEF Listed
  <1>2. Quantities(rowsOf1, notes, p) = Quantities(rowsOf, notes, p)
    BY DEF Quantities
  <1> QED
    BY <1>1, <1>2, IssuedIsSum, NoteQuantitiesAreIntegers, SumInteger

(* One more note adds its quantity. *)
LEMMA IssuedByOneMore ==
    ASSUME NEW rowsOf, NEW notes, NEW g, g \notin notes, Listed(rowsOf, notes \cup {g}), NEW p
    PROVE  IssuedBy(rowsOf, notes \cup {g}, p)
               = IssuedBy(rowsOf, notes, p) + QuantityOf(rowsOf[g].lines, p)
  <1> DEFINE more == notes \cup {g}
             f == Quantities(rowsOf, more, p)
  <1>1. Listed(rowsOf, notes) /\ more \ {g} = notes
    BY FS_Subset DEF Listed
  <1>2. IntegersOn(f, more)
    BY NoteQuantitiesAreIntegers
  <1>3. SumFunctionOnSet(f, more) = f[g] + SumFunctionOnSet(f, more \ {g})
    BY <1>2, SumOneMore
  <1>4. f[g] \in Int /\ f[g] = QuantityOf(rowsOf[g].lines, p)
    BY <1>2 DEF Quantities, IntegersOn
  <1>5. SumFunctionOnSet(f, notes) = SumFunctionOnSet(Quantities(rowsOf, notes, p), notes)
    <2>1. IntegersOn(f, notes) /\ \A x \in notes : f[x] = Quantities(rowsOf, notes, p)[x]
      BY <1>1, <1>2, IntegersOnPart DEF Quantities
    <2> QED
      BY <2>1, SumSame
  <1>6. SumFunctionOnSet(f, notes) \in Int
    <2>1. IntegersOn(f, notes)
      BY <1>2, IntegersOnPart
    <2> QED
      BY <2>1, SumInteger
  <1> HIDE DEF f
  <1>7. IssuedBy(rowsOf, more, p) = SumFunctionOnSet(f, more)
    BY IssuedIsSum DEF f
  <1>8. IssuedBy(rowsOf, notes, p) = SumFunctionOnSet(f, notes)
    BY <1>1, <1>5, IssuedIsSum
  <1>9. SumFunctionOnSet(f, more) = f[g] + SumFunctionOnSet(f, notes)
    BY <1>1, <1>3
  <1> QED
    BY <1>4, <1>6, <1>7, <1>8, <1>9

(* The lines of a note the service accepts are of different products. *)
LEMMA QuantityOfLine ==
    ASSUME NEW lines \in Seq(Product \X Int), NEW a \in DOMAIN lines,
           \A b \in DOMAIN lines : lines[b][1] = lines[a][1] => a = b
    PROVE  QuantityOf(lines, lines[a][1]) = lines[a][2]
  <1> DEFINE S == LinesFor(lines, lines[a][1])
             f == Amounts(lines)
  <1>1. a \in S /\ S \ {a} = {}
    BY DEF LinesFor
  <1>2. IntegersOn(f, S)
    BY QuantitiesAreIntegers
  <1>3. SumFunctionOnSet(f, S) = f[a] + 0
    <2>1. SumFunctionOnSet(f, S) = f[a] + SumFunctionOnSet(f, S \ {a})
      BY <1>1, <1>2, SumOneMore
    <2>2. SumFunctionOnSet(f, S \ {a}) = 0
      BY <1>1, SumEmpty
    <2> QED
      BY <2>1, <2>2
  <1>4. f[a] = lines[a][2] /\ f[a] \in Int
    BY <1>1, <1>2 DEF Amounts, IntegersOn
  <1>5. QuantityOf(lines, lines[a][1]) = SumFunctionOnSet(f, S)
    <2>1. lines[a][1] \in Product
      OBVIOUS
    <2> QED
      BY QuantityIsSum
  <1> HIDE DEF S, f
  <1> QED
    BY <1>3, <1>4, <1>5

(* A note without lines of a product issues none of it. *)
LEMMA QuantityOfNone ==
    ASSUME NEW lines \in Seq(Product \X Int), NEW p, \A b \in DOMAIN lines : lines[b][1] # p
    PROVE  QuantityOf(lines, p) = 0
  <1>1. LinesFor(lines, p) = {}
    BY DEF LinesFor
  <1> QED
    BY <1>1, QuantityIsSum, SumEmpty

(* Max chooses the largest element, where there is one. *)
LEMMA MaxIsLargest ==
    ASSUME NEW S \in SUBSET Int, NEW m \in S, \A x \in S : x <= m
    PROVE  Max(S) = m
  <1>1. \A x \in S : m >= x
    OBVIOUS
  <1>2. Max(S) \in S /\ \A x \in S : Max(S) >= x
    BY <1>1 DEF Max
  <1>3. Max(S) \in Int /\ m \in Int /\ Max(S) >= m /\ m >= Max(S)
    BY <1>1, <1>2
  <1> QED
    BY <1>3

(* The last line of a product in a list has a number. *)
LEMMA LastIsNatural ==
    ASSUME NEW list \in Seq(Product \X (Nat \ {0})), NEW L, L # {},
           L \in SUBSET (DOMAIN list)
    PROVE  list[Max(L)][2] \in Nat
  <1>1. L \in SUBSET (1..Len(list)) /\ Len(list) \in Nat
    OBVIOUS
  <1>2. PICK m \in L : \A x \in L : x <= m
    <2>1. L \in SUBSET Nat /\ \A x \in L : x <= Len(list)
      BY <1>1
    <2> QED
      BY <1>1, <2>1, LargestNatural
  <1>3. Max(L) = m
    BY <1>1, <1>2, MaxIsLargest
  <1>4. list[m] \in Product \X (Nat \ {0})
    BY <1>1
  <1> QED
    BY <1>3, <1>4

(* So has the line of a product that an invoice has. *)
LEMMA InvoicedIsNatural ==
    ASSUME NotesTypeOK, NEW i \in Invoice, NEW p \in Product, OnInvoice(i, p)
    PROVE  Invoiced(i, p) \in Nat
  <1>1. items[i] \in Seq(Product \X (Nat \ {0}))
    BY DEF NotesTypeOK
  <1>2. LineFor(i, p) # {} /\ LineFor(i, p) \in SUBSET (DOMAIN items[i])
    BY DEF OnInvoice, LineFor
  <1> QED
    BY <1>1, <1>2, LastIsNatural DEF Invoiced

(* The same after a step. *)
LEMMA InvoicedStaysNatural ==
    ASSUME NotesTypeOK', NEW i \in Invoice, NEW p \in Product, OnInvoice(i, p)'
    PROVE  Invoiced(i, p)' \in Nat
  <1>1. items'[i] \in Seq(Product \X (Nat \ {0}))
    BY DEF NotesTypeOK
  <1>2. LineFor(i, p)' # {} /\ LineFor(i, p)' \in SUBSET (DOMAIN items'[i])
    BY DEF OnInvoice, LineFor
  <1> QED
    BY <1>1, <1>2, LastIsNatural DEF Invoiced

(* What is left is never negative. *)
LEMMA RemainingIs ==
    ASSUME NEW i, NEW p, Invoiced(i, p) \in Int, Issued(i, p) \in Int
    PROVE  Remaining(i, p) = IF Invoiced(i, p) > Issued(i, p)
                             THEN Invoiced(i, p) - Issued(i, p) ELSE 0
  <1> DEFINE d == Invoiced(i, p) - Issued(i, p)
             S == {0, d}
  <1>1. d \in Int /\ S \in SUBSET Int
    OBVIOUS
  <1>2. CASE d > 0
    <2>1. d \in S /\ \A x \in S : x <= d
      BY <1>1, <1>2
    <2>2. Max(S) = d
      BY <1>1, <2>1, MaxIsLargest
    <2> QED
      BY <1>2, <2>2 DEF Remaining
  <1>3. CASE ~(d > 0)
    <2>1. 0 \in S /\ \A x \in S : x <= 0
      BY <1>1, <1>3
    <2>2. Max(S) = 0
      BY <1>1, <2>1, MaxIsLargest
    <2> QED
      BY <1>3, <2>2 DEF Remaining
  <1> QED
    BY <1>2, <1>3

-----------------------------------------------------------------------------
(* What is issued for an invoice that one request at a time works for and  *)
(* no /gin/ handler: its completed notes took goods away, no more than it  *)
(* invoices unless its last edit took some back, and a note a request has  *)
(* validated still fits into the rest.                                     *)
Sold(lines) == \A a \in DOMAIN lines : lines[a][2] > 0

Fulfilment(i) ==
    /\ IsFiniteSet(CompletedFor(i))
    /\ \A g \in CompletedFor(i) : Sold(note[g].lines)
    /\ i \notin cut => \A p \in Product : OnInvoice(i, p) => Issued(i, p) <= Invoiced(i, p)
    /\ \A r \in Request : WorksFor(r, i) /\ request[r].validated => Valid(NoteOf(r))

FulfilmentInv ==
    /\ \A g \in bypassed : status[g] # "unborn"
    /\ \A i \in Invoice \ contended : ByTheService(i) => Fulfilment(i)

(* What a step issues is on the invoice and within what it invoices. *)
Within(i) ==
    \A p \in Product : Issued(i, p)' > Issued(i, p) =>
        OnInvoice(i, p)' /\ Issued(i, p)' <= Invoiced(i, p)'

FulfilmentKept ==
    /\ \A g \in bypassed' : status'[g] # "unborn"
    /\ \A i \in Invoice \ contended' : ByTheService(i)' => Fulfilment(i)' /\ Within(i)

(* An edit of another invoice changes nothing of this one. *)
LEMMA ItemsKept ==
    ASSUME NEW i \in Invoice, items'[i] = items[i]
    PROVE  \A p : OnInvoice(i, p)' = OnInvoice(i, p) /\ Invoiced(i, p)' = Invoiced(i, p)
  <1>1. \A p : LineFor(i, p)' = LineFor(i, p)
    BY DEF LineFor
  <1>2. \A p : OnInvoice(i, p)' = OnInvoice(i, p)
    BY <1>1 DEF OnInvoice
  <1>3. \A p : Invoiced(i, p)' = Invoiced(i, p)
    BY <1>1 DEF Invoiced
  <1> QED
    BY <1>2, <1>3

(* What the model calls Issued. *)
LEMMA IssuedIsBy ==
    ASSUME NEW i, NEW p
    PROVE  /\ Issued(i, p) = IssuedBy(note, CompletedFor(i), p)
           /\ Issued(i, p)' = IssuedBy(note', CompletedFor(i)', p)
  <1>1. Issued(i, p) = IssuedBy(note, CompletedFor(i), p)
    BY DEF Issued, IssuedBy
  <1>2. Issued(i, p)' = IssuedBy(note', CompletedFor(i)', p)
    BY DEF Issued, IssuedBy, MapThenSumSet, MapThenFoldSet
  <1> QED
    BY <1>1, <1>2

(* Completed notes have lines. *)
LEMMA CompletedAreListed ==
    ASSUME NotesTypeOK, NEW i, IsFiniteSet(CompletedFor(i))
    PROVE  Listed(note, CompletedFor(i))
  <1>1. \A g \in CompletedFor(i) : note[g] \in Note
    BY DEF NotesTypeOK, CompletedFor
  <1> QED
    BY <1>1 DEF Listed, Note

(* A step that leaves the completed notes and the validated requests of an *)
(* invoice alone keeps what is known of it.                                *)
LEMMA KeepsFulfilment ==
    ASSUME NotesTypeOK, NEW i \in Invoice, Fulfilment(i),
           items'[i] = items[i], i \in cut <=> i \in cut',
           CompletedFor(i)' = CompletedFor(i),
           \A g \in CompletedFor(i) : note'[g].lines = note[g].lines,
           \A r \in Request : WorksFor(r, i)' /\ request'[r].validated =>
              /\ WorksFor(r, i) /\ request[r].validated
              /\ NoteOf(r)' = NoteOf(r) /\ NoteOf(r).invoice = i
    PROVE  Fulfilment(i)' /\ Within(i)
  <1>1. Listed(note, CompletedFor(i))
    BY CompletedAreListed DEF Fulfilment
  <1>2. \A p : Issued(i, p) \in Int /\ Issued(i, p)' = Issued(i, p)
    BY <1>1, IssuedIsBy, IssuedByKept
  <1>3. \A p : /\ Remaining(i, p)' = Remaining(i, p)
               /\ OnInvoice(i, p)' = OnInvoice(i, p)
               /\ Invoiced(i, p)' = Invoiced(i, p)
    <2>1. \A p : OnInvoice(i, p)' = OnInvoice(i, p) /\ Invoiced(i, p)' = Invoiced(i, p)
      BY ItemsKept
    <2>2. \A p : Remaining(i, p)' = Remaining(i, p)
      BY <1>2, <2>1 DEF Remaining
    <2> QED
      BY <2>1, <2>2
  <1>4. ASSUME NEW r \in Request, WorksFor(r, i)', request'[r].validated
        PROVE  Valid(NoteOf(r))'
    <2>1. PICK n : n = NoteOf(r) /\ n = NoteOf(r)' /\ n.invoice = i /\ Valid(n)
      BY <1>4 DEF Fulfilment
    <2>2. Valid(n)'
      BY <2>1, <1>3 DEF Valid
    <2> QED
      BY <2>1, <2>2
  <1>5. i \notin cut' =>
            \A p \in Product : OnInvoice(i, p)' => Issued(i, p)' <= Invoiced(i, p)'
    BY <1>2, <1>3 DEF Fulfilment
  <1>6. \A g \in CompletedFor(i)' : Sold(note'[g].lines)
    BY DEF Fulfilment
  <1>7. Within(i)
    BY <1>2 DEF Within
  <1> QED
    BY <1>4, <1>5, <1>6, <1>7 DEF Fulfilment

(* A request ends that did not complete its note. *)
LEMMA EndedKeeps ==
    ASSUME NotesTypeOK, NotesTypeOK', CopiesAreCurrent, FulfilmentInv,
           NEW r \in Request, Working(r), Done(r), NEW g \in Gin, g = request[r].gin,
           \A h \in Gin : note'[h].invoice = note[h].invoice,
           \A h \in Gin : h # g => status'[h] = status[h] /\ note'[h] = note[h],
           bypassed \subseteq bypassed', UNCHANGED <<items, cut>>,
           NEW i \in Invoice \ contended, ByTheService(i)',
           note[g].invoice = i =>
              /\ note'[g].lines = note[g].lines
              /\ status'[g] = "COMPLETED" <=> status[g] = "COMPLETED"
    PROVE  Fulfilment(i)' /\ Within(i)
  <1>1. ByTheService(i)
    BY DEF ByTheService, NotesTypeOK
  <1>2. Fulfilment(i)
    BY <1>1 DEF FulfilmentInv
  <1>3. CompletedFor(i)' = CompletedFor(i)
    BY DEF CompletedFor
  <1>4. \A h \in CompletedFor(i) : note'[h].lines = note[h].lines
    BY DEF CompletedFor
  <1>5. ASSUME NEW s \in Request, WorksFor(s, i)', request'[s].validated
        PROVE  /\ WorksFor(s, i) /\ request[s].validated
               /\ NoteOf(s)' = NoteOf(s) /\ NoteOf(s).invoice = i
    <2>1. s # r /\ request'[s] = request[s]
      BY <1>5 DEF Done, WorksFor, Working, NotesTypeOK
    <2>2. WorksFor(s, i) /\ Working(s)
      BY <1>5, <2>1 DEF WorksFor, Working
    <2>3. request[s].gin \in Gin /\ note[request[s].gin].invoice = i
      BY <2>2, WorkingCopy DEF WorksFor, NotesTypeOK
    <2>4. request[s].gin # g
      <3>1. SUFFICES ASSUME request[s].gin = g PROVE FALSE
        OBVIOUS
      <3>2. WorksFor(r, i)
        BY <2>3, <3>1 DEF WorksFor, NotesTypeOK
      <3> QED
        BY <2>1, <2>2, <3>2 DEF CopiesAreCurrent
    <2>5. note'[request[s].gin] = note[request[s].gin]
      BY <2>3, <2>4
    <2>6. NoteOf(s)' = NoteOf(s)
      BY <2>1, <2>5 DEF NoteOf
    <2>7. NoteOf(s).invoice = i
      BY <2>2, NoteOfCopy DEF WorksFor
    <2> QED
      BY <1>5, <2>1, <2>2, <2>6, <2>7
  <1> QED
    BY <1>2, <1>3, <1>4, <1>5, KeepsFulfilment

(* A service completes a note it has validated. *)
LEMMA CompleteKeeps ==
    ASSUME NotesTypeOK, NotesTypeOK', CopiesAreCurrent, FulfilmentInv,
           NEW r \in Request, Complete(r),
           NEW i \in Invoice \ contended, ByTheService(i)',
           note[request[r].gin].invoice = i
    PROVE  Fulfilment(i)' /\ Within(i)
  <1> DEFINE g == request[r].gin
             C == CompletedFor(i)
             lines == note[g].lines
  <1>1. /\ Working(r) /\ Done(r) /\ request[r].validated
        /\ status' = [status EXCEPT ![g] = "COMPLETED"]
        /\ UNCHANGED <<note, bypassed, items, cut>>
    BY DEF Complete, SaveStatus
  <1>2. g \in Gin /\ WorksFor(r, i) /\ request[r].status = "APPROVED"
    BY <1>1, WorkingCopy DEF WorksFor, NotesTypeOK
  <1>3. Fulfilment(i) /\ Valid(NoteOf(r)) /\ status[g] = "APPROVED"
    <2>1. ByTheService(i)
      BY <1>1 DEF ByTheService
    <2> QED
      BY <2>1, <1>1, <1>2 DEF FulfilmentInv, Fulfilment, CopiesAreCurrent
  <1>4. NoteOf(r).lines = lines /\ NoteOf(r).invoice = i /\ lines \in Seq(Product \X Int)
    <2>1. request[r].note \in Note /\ note[g] \in Note
      BY <1>1, WorkingCopy
    <2>2. NoteOf(r).invoice = i
      BY <1>1, <1>2, NoteOfCopy DEF WorksFor
    <2> QED
      BY <2>1, <2>2 DEF NoteOf, Note
  <1>5. g \notin C /\ CompletedFor(i)' = C \cup {g} /\ IsFiniteSet(C \cup {g})
    <2>1. IsFiniteSet(C)
      BY <1>3 DEF Fulfilment
    <2>2. status'[g] = "COMPLETED" /\ \A h \in Gin : h # g => status'[h] = status[h]
      BY <1>1, <1>2 DEF NotesTypeOK
    <2> QED
      BY <1>1, <1>2, <1>3, <2>1, <2>2, FS_AddElement DEF CompletedFor
  <1>6. Listed(note, C \cup {g}) /\ Listed(note, C)
    BY <1>3, <1>4, <1>5, CompletedAreListed DEF Listed, Fulfilment
  <1>7. \A a \in DOMAIN lines :
            /\ lines[a][2] > 0 /\ OnInvoice(i, lines[a][1])
            /\ lines[a][2] <= Remaining(i, lines[a][1])
            /\ \A b \in DOMAIN lines : lines[b][1] = lines[a][1] => a = b
    BY <1>3, <1>4, NothingAssumption DEF Valid
  <1>8. ASSUME NEW p \in Product
        PROVE  /\ Issued(i, p) \in Int
               /\ \/ Issued(i, p)' = Issued(i, p)
                  \/ OnInvoice(i, p) /\ Issued(i, p)' <= Invoiced(i, p)
    <2>1. Issued(i, p)' = Issued(i, p) + QuantityOf(lines, p)
      <3>1. IssuedBy(note, C \cup {g}, p) = IssuedBy(note, C, p) + QuantityOf(note[g].lines, p)
        BY <1>5, <1>6, IssuedByOneMore
      <3>2. Issued(i, p)' = IssuedBy(note', CompletedFor(i)', p)
        BY IssuedIsBy
      <3>3. Issued(i, p)' = IssuedBy(note, C \cup {g}, p)
        BY <1>1, <1>5, <3>2
      <3> QED
        BY <3>1, <3>3, IssuedIsBy
    <2>2. Issued(i, p) \in Int
      BY <1>6, IssuedByKept, IssuedIsBy
    <2>3. CASE \E a \in DOMAIN lines : lines[a][1] = p
      <3>1. PICK a \in DOMAIN lines : lines[a][1] = p
        BY <2>3
      <3>2. QuantityOf(lines, p) = lines[a][2]
        BY <1>4, <1>7, <3>1, QuantityOfLine
      <3>3. lines[a][2] \in Int /\ lines[a][2] > 0 /\ lines[a][2] <= Remaining(i, p)
        BY <1>4, <1>7, <3>1
      <3>5. OnInvoice(i, p) /\ Invoiced(i, p) \in Int
        BY <1>7, <3>1, InvoicedIsNatural
      <3>4. Remaining(i, p) = IF Invoiced(i, p) > Issued(i, p)
                              THEN Invoiced(i, p) - Issued(i, p) ELSE 0
        BY <2>2, <3>5, RemainingIs
      <3> QED
        BY <2>1, <2>2, <3>2, <3>3, <3>4, <3>5
    <2>4. CASE \A a \in DOMAIN lines : lines[a][1] # p
      <3>1. QuantityOf(lines, p) = 0
        BY <1>4, <2>4, QuantityOfNone
      <3> QED
        BY <2>1, <2>2, <3>1
    <2> QED
      BY <2>2, <2>3, <2>4
  <1>9. \A s \in Request : ~WorksFor(s, i)'
    <2>1. \A s \in Request : WorksFor(s, i)' => s # r /\ WorksFor(s, i)
      BY <1>1 DEF Done, WorksFor, Working, NotesTypeOK
    <2> QED
      BY <1>2, <2>1 DEF CopiesAreCurrent
  <1>10. \A h \in CompletedFor(i)' : Sold(note'[h].lines)
    BY <1>1, <1>3, <1>5, <1>7 DEF Fulfilment, Sold
  <1>11. /\ \A p : OnInvoice(i, p)' = OnInvoice(i, p) /\ Invoiced(i, p)' = Invoiced(i, p)
         /\ cut' = cut
    BY <1>1, ItemsKept
  <1>12. Within(i)
    BY <1>8, <1>11 DEF Within
  <1>13. i \notin cut' =>
             \A p \in Product : OnInvoice(i, p)' => Issued(i, p)' <= Invoiced(i, p)'
    BY <1>3, <1>8, <1>11 DEF Fulfilment
  <1> QED
    BY <1>5, <1>9, <1>10, <1>12, <1>13 DEF Fulfilment

(* FulfilmentInv is kept: only a completion adds to what is issued, and    *)
(* it was validated while nobody else worked for the invoice.              *)
LEMMA FulfilmentStep ==
    ASSUME NotesTypeOK, NotesTypeOK', CopiesAreCurrent, FulfilmentInv, [Next]_vars
    PROVE  FulfilmentKept
  <1>1. ASSUME NEW g \in Gin, CreateFromInvoice(g) \/ Create(g)
        PROVE  FulfilmentKept
    <2>1. PICK n \in NewNotes : Insert(g, n)
      BY <1>1 DEF CreateFromInvoice, Create
    <2>2. /\ status[g] = "unborn"
          /\ status' = [status EXCEPT ![g] = "DRAFT"]
          /\ note' = [note EXCEPT ![g] = n]
          /\ UNCHANGED <<request, contended, bypassed, items, cut>>
      BY <2>1 DEF Insert
    <2>3. \A h \in Gin : h # g => status'[h] = status[h] /\ note'[h] = note[h]
      BY <2>2 DEF NotesTypeOK
    <2>4. g \notin bypassed /\ status'[g] = "DRAFT"
      BY <2>2 DEF FulfilmentInv, NotesTypeOK
    <2>5. \A h \in bypassed' : status'[h] # "unborn"
      BY <2>2, <2>3, <2>4 DEF FulfilmentInv, NotesTypeOK
    <2>6. ASSUME NEW i \in Invoice \ contended', ByTheService(i)'
          PROVE  Fulfilment(i)' /\ Within(i)
      <3>1. Fulfilment(i)
        BY <2>2, <2>3, <2>4, <2>6 DEF FulfilmentInv, ByTheService, NotesTypeOK
      <3>2. CompletedFor(i)' = CompletedFor(i)
        BY <2>2, <2>3, <2>4 DEF CompletedFor
      <3>3. \A h \in CompletedFor(i) : note'[h].lines = note[h].lines
        BY <2>2, <2>3 DEF CompletedFor
      <3>4. ASSUME NEW r \in Request, WorksFor(r, i)', request'[r].validated
            PROVE  /\ WorksFor(r, i) /\ request[r].validated
                   /\ NoteOf(r)' = NoteOf(r) /\ NoteOf(r).invoice = i
        <4>1. WorksFor(r, i) /\ Working(r) /\ request[r].validated
          BY <2>2, <3>4 DEF WorksFor, Working
        <4>2. request[r].gin \in Gin /\ request[r].gin # g
          BY <2>2, <4>1, WorkingCopy DEF NotesTypeOK
        <4>3. NoteOf(r)' = NoteOf(r)
          BY <2>2, <2>3, <4>2 DEF NoteOf
        <4> QED
          BY <4>1, <4>3, NoteOfCopy DEF WorksFor
      <3> QED
        BY <2>2, <3>1, <3>2, <3>3, <3>4, KeepsFulfilment
    <2> QED
      BY <2>5, <2>6 DEF FulfilmentKept, FulfilmentInv
  <1>2. ASSUME NEW r \in Request, Load(r)
        PROVE  FulfilmentKept
    <2>1. PICK g \in Gin :
             request' = [request EXCEPT ![r] =
                   [gin |-> g, status |-> status[g], note |-> note[g],
                    approver |-> approver[g], validated |-> FALSE]]
      BY <1>2 DEF Load
    <2>2. UNCHANGED <<status, note, bypassed, items, cut>> /\ contended \subseteq contended'
      BY <1>2 DEF Load
    <2>3. ASSUME NEW i \in Invoice \ contended', ByTheService(i)'
          PROVE  Fulfilment(i)' /\ Within(i)
      <3>1. Fulfilment(i)
        BY <2>2, <2>3 DEF FulfilmentInv, ByTheService
      <3>2. ASSUME NEW s \in Request, WorksFor(s, i)', request'[s].validated
            PROVE  /\ WorksFor(s, i) /\ request[s].validated
                   /\ NoteOf(s)' = NoteOf(s) /\ NoteOf(s).invoice = i
        <4>1. s # r /\ request'[s] = request[s]
          BY <2>1, <3>2 DEF NotesTypeOK
        <4>2. WorksFor(s, i) /\ Working(s)
          BY <3>2, <4>1 DEF WorksFor, Working
        <4> QED
          BY <2>2, <3>2, <4>1, <4>2, NoteOfCopy DEF WorksFor, NoteOf
      <3> QED
        BY <2>2, <3>1, <3>2, KeepsFulfilment DEF CompletedFor
    <2> QED
      BY <2>2, <2>3 DEF FulfilmentKept, FulfilmentInv
  <1>3. ASSUME NEW r \in Request, NEW u \in User, Validate(r, u)
        PROVE  FulfilmentKept
    <2>1. /\ request' = [request EXCEPT ![r].validated = TRUE]
          /\ Working(r) /\ Valid(NoteOf(r))
          /\ UNCHANGED <<status, note, contended, bypassed, items, cut>>
      BY <1>3 DEF Validate
    <2>2. ASSUME NEW s \in Request, Working(s)'
          PROVE  /\ Working(s)
                 /\ request'[s].gin = request[s].gin
                 /\ request'[s].note = request[s].note
                 /\ s # r => request'[s].validated = request[s].validated
      BY <2>1, <2>2, WorkingCopy DEF NotesTypeOK, Working, Copy
    <2>3. ASSUME NEW i \in Invoice \ contended', ByTheService(i)'
          PROVE  Fulfilment(i)' /\ Within(i)
      <3>1. Fulfilment(i)
        BY <2>1, <2>3 DEF FulfilmentInv, ByTheService
      <3>2. /\ CompletedFor(i)' = CompletedFor(i)
            /\ \A p : Remaining(i, p)' = Remaining(i, p)
            /\ \A p : OnInvoice(i, p)' = OnInvoice(i, p) /\ Invoiced(i, p)' = Invoiced(i, p)
            /\ \A p : Issued(i, p) \in Int /\ Issued(i, p)' = Issued(i, p)
        <4>1. CompletedFor(i)' = CompletedFor(i)
          BY <2>1 DEF CompletedFor
        <4>2. \A p : Issued(i, p) \in Int
          BY <3>1, CompletedAreListed, IssuedIsBy, IssuedByKept DEF Fulfilment
        <4>3. \A p : Issued(i, p)' = Issued(i, p)
          BY <2>1, <4>1, IssuedIsBy
        <4>4. \A p : OnInvoice(i, p)' = OnInvoice(i, p) /\ Invoiced(i, p)' = Invoiced(i, p)
          BY <2>1, ItemsKept
        <4> QED
          BY <4>1, <4>2, <4>3, <4>4 DEF Remaining
      <3>3. ASSUME NEW s \in Request, WorksFor(s, i)', request'[s].validated
            PROVE  Valid(NoteOf(s))'
        <4>1. Working(s) /\ WorksFor(s, i) /\ NoteOf(s)' = NoteOf(s)
          BY <2>1, <2>2, <3>3 DEF WorksFor, NoteOf
        <4>2. Valid(NoteOf(s))
          BY <2>1, <2>2, <3>1, <3>3, <4>1 DEF Fulfilment, WorksFor
        <4>3. NoteOf(s).invoice = i
          BY <4>1, NoteOfCopy DEF WorksFor
        <4>4. PICK n : n = NoteOf(s) /\ n = NoteOf(s)' /\ n.invoice = i /\ Valid(n)
          BY <4>1, <4>2, <4>3
        <4>5. Valid(n)'
          BY <4>4, <3>2 DEF Valid
        <4> QED
          BY <4>4, <4>5
      <3> QED
        BY <2>1, <3>1, <3>2, <3>3 DEF Fulfilment, Within
    <2> QED
      BY <2>1, <2>3 DEF FulfilmentKept, FulfilmentInv
  <1>4. ASSUME NEW r \in Request,
               Submit(r) \/ (\E u \in User : Approve(r, u)) \/ Fail(r)
        PROVE  FulfilmentKept
    <2>0. PICK g \in Gin : g = request[r].gin
      BY <1>4, WorkingCopy DEF Submit, Approve, Fail
    <2>1. PICK new : /\ status' = [status EXCEPT ![g] = new] /\ new # "unborn"
                     /\ new = status[g] \/ (new # "COMPLETED" /\ request[r].status # "COMPLETED")
      <3>1. CASE Submit(r)
        <4>1. status' = [status EXCEPT ![g] = "PENDING"] /\ request[r].status = "DRAFT"
          BY <3>1, <2>0 DEF Submit, SaveStatus
        <4> WITNESS "PENDING"
        <4> QED
          BY <4>1
      <3>2. CASE \E u \in User : Approve(r, u)
        BY <3>2, <2>0 DEF Approve, SaveStatus
      <3>3. CASE Fail(r)
        BY <3>3, <2>0 DEF Fail, NotesTypeOK
      <3> QED
        BY <1>4, <3>1, <3>2, <3>3
    <2>2. Working(r) /\ Done(r) /\ UNCHANGED <<note, contended, bypassed, items, cut>>
      BY <1>4 DEF Submit, Approve, Fail
    <2>3. status'[g] = new /\ \A h \in Gin : h # g => status'[h] = status[h]
      BY <2>1 DEF NotesTypeOK
    <2>4. ASSUME NEW i \in Invoice \ contended', ByTheService(i)'
          PROVE  Fulfilment(i)' /\ Within(i)
      <3>1. ASSUME note[g].invoice = i
            PROVE  status'[g] = "COMPLETED" <=> status[g] = "COMPLETED"
        <4>1. WorksFor(r, i)
          BY <2>0, <2>2, <3>1 DEF WorksFor, NotesTypeOK
        <4>2. status[g] = request[r].status
          BY <2>0, <2>2, <4>1 DEF CopiesAreCurrent
        <4> QED
          BY <2>1, <2>3, <4>2
      <3> QED
        BY <2>0, <2>2, <2>3, <2>4, <3>1, EndedKeeps
    <2>5. \A h \in bypassed' : status'[h] # "unborn"
      BY <2>1, <2>2, <2>3 DEF FulfilmentInv, NotesTypeOK
    <2> QED
      BY <2>4, <2>5 DEF FulfilmentKept, FulfilmentInv
  <1>5. ASSUME NEW r \in Request, Complete(r)
        PROVE  FulfilmentKept
    <2>0. PICK g \in Gin : g = request[r].gin
      BY <1>5, WorkingCopy DEF Complete
    <2>1. /\ Working(r) /\ Done(r) /\ UNCHANGED <<note, contended, bypassed, items, cut>>
          /\ status' = [status EXCEPT ![g] = "COMPLETED"]
      BY <1>5, <2>0 DEF Complete, SaveStatus
    <2>2. status'[g] = "COMPLETED" /\ \A h \in Gin : h # g => status'[h] = status[h]
      BY <2>1 DEF NotesTypeOK
    <2>3. ASSUME NEW i \in Invoice \ contended', ByTheService(i)'
          PROVE  Fulfilment(i)' /\ Within(i)
      <3>1. CASE note[g].invoice = i
        BY <1>5, <2>0, <2>1, <2>3, <3>1, CompleteKeeps
      <3>2. CASE note[g].invoice # i
        BY <2>0, <2>1, <2>2, <2>3, <3>2, EndedKeeps
      <3> QED
        BY <3>1, <3>2
    <2>4. \A h \in bypassed' : status'[h] # "unborn"
      BY <2>1, <2>2 DEF FulfilmentInv, NotesTypeOK
    <2> QED
      BY <2>3, <2>4 DEF FulfilmentKept, FulfilmentInv
  <1>6. ASSUME NEW r \in Request,
               PlainChange(r) \/ PlainComplete(r) \/ PlainPatch(r) \/ PlainDestroy(r)
        PROVE  FulfilmentKept
    <2>0. PICK g \in Gin : g = request[r].gin
      BY <1>6, WorkingCopy DEF PlainChange, PlainComplete, PlainPatch, PlainDestroy, PlainlyHandled
    <2>1. /\ Working(r) /\ Done(r) /\ bypassed' = bypassed \cup {g} /\ contended' = contended
          /\ UNCHANGED <<items, cut>>
      BY <1>6, <2>0 DEF PlainChange, PlainComplete, PlainPatch, PlainDestroy, PlainlyHandled
    <2>2. PICK new : status' = [status EXCEPT ![g] = new] /\ new # "unborn"
      <3>1. CASE PlainChange(r)
        <4>1. PICK new \in {"PENDING", "APPROVED", "CANCELLED"} : status' = [status EXCEPT ![g] = new]
          BY <3>1, <2>0 DEF PlainChange, SaveStatus
        <4>2. new # "unborn"
          OBVIOUS
        <4> QED
          BY <4>1, <4>2
      <3>2. CASE PlainComplete(r)
        <4>1. status' = [status EXCEPT ![g] = "COMPLETED"]
          BY <3>2, <2>0 DEF PlainComplete, SaveStatus
        <4> WITNESS "COMPLETED"
        <4> QED
          BY <4>1
      <3>3. CASE PlainPatch(r)
        <4>1. request[r].status # "unborn"
          BY <2>1, WorkingCopy DEF Status
        <4> QED
          BY <3>3, <2>0, <4>1 DEF PlainPatch
      <3>4. CASE PlainDestroy(r)
        <4>1. status' = [status EXCEPT ![g] = "deleted"]
          BY <3>4, <2>0 DEF PlainDestroy
        <4> WITNESS "deleted"
        <4> QED
          BY <4>1
      <3> QED
        BY <1>6, <3>1, <3>2, <3>3, <3>4
    <2>3. PICK n : note' = [note EXCEPT ![g] = n] /\ n.invoice = note[g].invoice
      <3>1. CASE PlainChange(r) \/ PlainComplete(r)
        BY <3>1, <2>0, Unwritten, WorkingCopy
           DEF PlainChange, PlainComplete, PlainlyHandled, NotesTypeOK
      <3>2. CASE PlainPatch(r)
        <4>1. PICK wh, author :
                 note' = [note EXCEPT ![g] = [NoteOf(r) EXCEPT !.warehouse = wh,
                                                              !.creator = author]]
          BY <3>2, <2>0 DEF PlainPatch
        <4>2. NoteOf(r) \in Note /\ NoteOf(r).invoice = note[g].invoice
          BY <2>0, <2>1, NoteOfCopy DEF NotesTypeOK
        <4>3. [NoteOf(r) EXCEPT !.warehouse = wh, !.creator = author].invoice = note[g].invoice
          BY <4>2 DEF Note
        <4> QED
          BY <4>1, <4>3
      <3>3. CASE PlainDestroy(r)
        <4>1. note[g] \in Note
          BY <2>0, <2>1, WorkingCopy
        <4>2. note' = [note EXCEPT ![g] = [note[g] EXCEPT !.lines = <<>>]]
          BY <3>3, <2>0 DEF PlainDestroy, NotesTypeOK
        <4>3. [note[g] EXCEPT !.lines = <<>>].invoice = note[g].invoice
          BY <4>1 DEF Note
        <4> QED
          BY <4>2, <4>3
      <3> QED
        BY <1>6, <3>1, <3>2, <3>3
    <2>4. /\ status'[g] = new /\ \A h \in Gin : h # g => status'[h] = status[h]
          /\ note'[g] = n /\ \A h \in Gin : h # g => note'[h] = note[h]
          /\ \A h \in Gin : note'[h].invoice = note[h].invoice
      BY <2>2, <2>3 DEF NotesTypeOK
    <2>5. ASSUME NEW i \in Invoice \ contended', ByTheService(i)'
          PROVE  Fulfilment(i)' /\ Within(i)
      <3>1. note[g].invoice # i
        BY <2>1, <2>4, <2>5 DEF ByTheService
      <3> QED
        BY <2>0, <2>1, <2>4, <2>5, <3>1, EndedKeeps
    <2>6. \A h \in bypassed' : status'[h] # "unborn"
      BY <2>1, <2>2, <2>4 DEF FulfilmentInv, NotesTypeOK
    <2> QED
      BY <2>5, <2>6 DEF FulfilmentKept, FulfilmentInv
  <1>7. CASE Restock \/ UNCHANGED vars
    <2>1. UNCHANGED <<status, note, request, contended, bypassed, items, cut>>
      BY <1>7 DEF Restock, vars
    <2>2. ASSUME NEW i \in Invoice \ contended', ByTheService(i)'
          PROVE  Fulfilment(i)' /\ Within(i)
      <3>1. Fulfilment(i)
        BY <2>1, <2>2 DEF FulfilmentInv, ByTheService
      <3>2. CompletedFor(i)' = CompletedFor(i)
        BY <2>1 DEF CompletedFor
      <3>3. \A s \in Request : WorksFor(s, i)' => WorksFor(s, i) /\ NoteOf(s)' = NoteOf(s)
        BY <2>1 DEF WorksFor, Working, NoteOf
      <3>4. \A s \in Request : WorksFor(s, i) => NoteOf(s).invoice = i
        BY NoteOfCopy DEF WorksFor
      <3> QED
        BY <2>1, <3>1, <3>2, <3>3, <3>4, KeepsFulfilment
    <2> QED
      BY <2>1, <2>2 DEF FulfilmentKept, FulfilmentInv
  <1>8. ASSUME NEW j \in Invoice, EditInvoice(j)
        PROVE  FulfilmentKept
    <2>1. UNCHANGED <<status, note, request, bypassed>>
      BY <1>8 DEF EditInvoice
    <2>2. PICK new : items' = [items EXCEPT ![j] = new]
      BY <1>8 DEF EditInvoice
    <2>3. cut' = IF \E p \in Product : OnInvoice(j, p)' /\ Issued(j, p) > Invoiced(j, p)'
                 THEN cut \cup {j} ELSE cut \ {j}
      BY <1>8 DEF EditInvoice
    <2>4. /\ contended \subseteq contended'
          /\ j \notin contended' => \A s \in Request : WorksFor(s, j) => ~request[s].validated
      BY <1>8 DEF EditInvoice, WorksFor
    <2>5. ASSUME NEW i \in Invoice \ contended', ByTheService(i)'
          PROVE  Fulfilment(i)' /\ Within(i)
      <3>1. Fulfilment(i)
        BY <2>1, <2>4, <2>5 DEF FulfilmentInv, ByTheService
      <3>2. CompletedFor(i)' = CompletedFor(i)
        BY <2>1 DEF CompletedFor
      <3>3. \A s \in Request : WorksFor(s, i)' => WorksFor(s, i) /\ NoteOf(s)' = NoteOf(s)
        BY <2>1 DEF WorksFor, Working, NoteOf
      <3>4. \A s \in Request : WorksFor(s, i) => NoteOf(s).invoice = i
        BY NoteOfCopy DEF WorksFor
      <3>5. CASE i # j
        <4>1. items'[i] = items[i] /\ (i \in cut <=> i \in cut')
          BY <2>2, <2>3, <3>5 DEF NotesTypeOK
        <4> QED
          BY <2>1, <3>1, <3>2, <3>3, <3>4, <4>1, KeepsFulfilment
      <3>6. CASE i = j
        <4>1. \A p : Issued(i, p) \in Int /\ Issued(i, p)' = Issued(i, p)
          <5>1. \A p : Issued(i, p) \in Int
            BY <3>1, CompletedAreListed, IssuedIsBy, IssuedByKept DEF Fulfilment
          <5>2. \A p : Issued(i, p)' = Issued(i, p)
            BY <2>1, <3>2, IssuedIsBy
          <5> QED
            BY <5>1, <5>2
        <4>2. \A p \in Product : OnInvoice(i, p)' => Invoiced(i, p)' \in Nat
          BY InvoicedStaysNatural
        <4>3. i \notin cut' =>
                 \A p \in Product : OnInvoice(i, p)' => Issued(i, p)' <= Invoiced(i, p)'
          BY <2>3, <3>6, <4>1, <4>2
        <4>4. \A s \in Request : ~(WorksFor(s, i)' /\ request'[s].validated)
          BY <2>1, <2>4, <2>5, <3>3, <3>6
        <4> QED
          BY <2>1, <3>1, <3>2, <4>1, <4>3, <4>4 DEF Fulfilment, Within
      <3> QED
        BY <3>5, <3>6
    <2> QED
      BY <2>1, <2>5 DEF FulfilmentInv, FulfilmentKept
  <1> QED
    BY <1>1, <1>2, <1>3, <1>4, <1>5, <1>6, <1>7, <1>8 DEF Next, Handle

(* Nothing is issued when there are no notes. *)
LEMMA InitFulfilment == ASSUME Init PROVE FulfilmentInv
  <1>1. bypassed = {} /\ \A i \in Invoice : CompletedFor(i) = {}
    BY DEF Init, CompletedFor
  <1>2. ASSUME NEW i \in Invoice PROVE Fulfilment(i)
    <2>1. \A r \in Request : ~WorksFor(r, i)
      BY DEF Init, WorksFor, Working
    <2>2. ASSUME NEW p \in Product, OnInvoice(i, p)
          PROVE  Issued(i, p) <= Invoiced(i, p)
      <3>1. Listed(note, {})
        BY FS_EmptySet DEF Listed
      <3>2. IssuedBy(note, {}, p) = 0
        BY <3>1, IssuedIsSum, SumEmpty
      <3>3. Issued(i, p) = 0
        BY <1>1, <3>2, IssuedIsBy
      <3> QED
        BY <2>2, <3>3, InitNotesTypeOK, InvoicedIsNatural
    <2> QED
      BY <1>1, <2>1, <2>2, FS_EmptySet DEF Fulfilment
  <1> QED
    BY <1>1, <1>2 DEF FulfilmentInv

(* The invariant behind IssuedWithinInvoice and FulfilledIsComplete. *)
LEMMA FulfilmentHolds == Spec => [](NotesTypeOK /\ ReportInv /\ FulfilmentInv)
  <1>1. Init => NotesTypeOK /\ ReportInv /\ FulfilmentInv
    BY InitNotesTypeOK, InitFulfilment
       DEF Init, ReportInv, ReportedHasLeft, CopiesAreCurrent, WorksFor, Working
  <1>2. NotesTypeOK /\ ReportInv /\ [Next]_vars => NotesTypeOK' /\ ReportInv'
    BY NextNotesTypeOK, ReportStep
  <1>3. NotesTypeOK /\ NotesTypeOK' /\ ReportInv /\ FulfilmentInv /\ [Next]_vars => FulfilmentInv'
    BY FulfilmentStep DEF ReportInv, FulfilmentKept, FulfilmentInv
  <1> QED
    BY <1>1, <1>2, <1>3, PTL DEF Spec

(* Whatever leaves for an invoice is on it and within what it invoices at  *)
(* that moment, however partial notes and edits follow each other, as long *)
(* as one request at a time works for it and no /gin/ handler does.        *)
THEOREM IssuedWithinInvoiceTheorem == Spec => IssuedWithinInvoice
  <1>1. /\ NotesTypeOK /\ ReportInv /\ FulfilmentInv
        /\ NotesTypeOK' /\ [Next]_vars
        => [\A i \in Invoice \ contended' : ByTheService(i)' =>
               \A p \in Product : Issued(i, p)' > Issued(i, p) =>
                   OnInvoice(i, p)' /\ Issued(i, p)' <= Invoiced(i, p)']_vars
    BY FulfilmentStep DEF ReportInv, FulfilmentKept, Within
  <1> QED
    BY <1>1, FulfilmentHolds, PTL DEF Spec, IssuedWithinInvoice

-----------------------------------------------------------------------------
(* The report compares the sum of what is issued with the sum of what is   *)
(* invoiced.  As no product is issued beyond its own line, the sums can    *)
(* only be equal if each product's are.                                    *)
Products(i) == {p \in Product : OnInvoice(i, p)}
IssuedOf(i) == [p \in Products(i) |-> Issued(i, p)]
InvoicedOf(i) == [p \in Products(i) |-> Invoiced(i, p)]

(* The products of an invoice are finitely many. *)
LEMMA FewProducts ==
    ASSUME NotesTypeOK, NEW i \in Invoice
    PROVE  IsFiniteSet(Products(i))
  <1> DEFINE N == DOMAIN items[i]
             f == [n \in N |-> items[i][n][1]]
             T == {f[n] : n \in N}
  <1>1. IsFiniteSet(N)
    <2>1. items[i] \in Seq(Product \X (Nat \ {0}))
      BY DEF NotesTypeOK
    <2>2. N = 1..Len(items[i]) /\ Len(items[i]) \in Nat
      BY <2>1
    <2>3. IsFiniteSet(1..Len(items[i]))
      BY <2>2, FS_Interval
    <2> QED
      BY <2>2, <2>3
  <1>2. f \in Surjection(N, T)
    BY DEF Surjection
  <1>3. IsFiniteSet(T)
    <2> HIDE DEF f, N, T
    <2> QED
      BY <1>1, <1>2, FS_Surjection
  <1>4. Products(i) \subseteq T
    BY DEF Products, OnInvoice, LineFor
  <1> QED
    BY <1>3, <1>4, FS_Subset

(* The sums of the report, over the products of the invoice. *)
LEMMA IssuedOfIsSum ==
    ASSUME NEW i \in Invoice, IntegersOn(IssuedOf(i), Products(i))
    PROVE  MapThenSumSet(LAMBDA p : Issued(i, p), Products(i))
               = SumFunctionOnSet(IssuedOf(i), Products(i))
  <1> DEFINE S == Products(i)
             f == IssuedOf(i)
             Step(h) == [s \in SUBSET S |->
                 IF s = {} THEN 0
                 ELSE Issued(i, CHOOSE x \in s : TRUE) + h[s \ {CHOOSE x \in s : TRUE}]]
             h == CHOOSE h : h = Step(h)
  <1>1. \A k : Step(k) = [s \in SUBSET S |-> IF s = {} THEN 0
                 ELSE f[CHOOSE x \in s : TRUE] + k[s \ {CHOOSE x \in s : TRUE}]]
    BY DEF IssuedOf
  <1>3. PICK k : Adds(k, f, S)
    BY SumsExist
  <1>4. k = Step(k)
    <2>1. k = [s \in SUBSET S |-> IF s = {} THEN 0
                 ELSE f[CHOOSE x \in s : TRUE] + k[s \ {CHOOSE x \in s : TRUE}]]
      BY <1>3 DEF Adds
    <2> HIDE DEF Step, f, S
    <2> QED
      BY <1>1, <2>1
  <1>5. Adds(h, f, S)
    <2>1. h = Step(h)
      <3> HIDE DEF Step
      <3> QED
        BY <1>4
    <2>2. Step(h) = [s \in SUBSET S |-> IF s = {} THEN 0
                 ELSE f[CHOOSE x \in s : TRUE] + h[s \ {CHOOSE x \in s : TRUE}]]
      <3> HIDE DEF Step, f, h, S
      <3> QED
        BY <1>1
    <2> HIDE DEF Step, f, h, S
    <2> QED
      BY <2>1, <2>2 DEF Adds
  <1>6. h[S] = SumFunctionOnSet(f, S)
    BY <1>5, SumOnly
  <1>7. MapThenSumSet(LAMBDA p : Issued(i, p), S) = h[S]
    BY DEF MapThenSumSet, MapThenFoldSet
  <1> QED
    BY <1>6, <1>7

(* The same of what it invoices. *)
LEMMA InvoicedOfIsSum ==
    ASSUME NEW i \in Invoice, IntegersOn(InvoicedOf(i), Products(i))
    PROVE  MapThenSumSet(LAMBDA p : Invoiced(i, p), Products(i))
               = SumFunctionOnSet(InvoicedOf(i), Products(i))
  <1> DEFINE S == Products(i)
             f == InvoicedOf(i)
             Step(h) == [s \in SUBSET S |->
                 IF s = {} THEN 0
                 ELSE Invoiced(i, CHOOSE x \in s : TRUE) + h[s \ {CHOOSE x \in s : TRUE}]]
             h == CHOOSE h : h = Step(h)
  <1>1. \A k : Step(k) = [s \in SUBSET S |-> IF s = {} THEN 0
                 ELSE f[CHOOSE x \in s : TRUE] + k[s \ {CHOOSE x \in s : TRUE}]]
    BY DEF InvoicedOf
  <1>3. PICK k : Adds(k, f, S)
    BY SumsExist
  <1>4. k = Step(k)
    <2>1. k = [s \in SUBSET S |-> IF s = {} THEN 0
                 ELSE f[CHOOSE x \in s : TRUE] + k[s \ {CHOOSE x \in s : TRUE}]]
      BY <1>3 DEF Adds
    <2> HIDE DEF Step, f, S
    <2> QED
      BY <1>1, <2>1
  <1>5. Adds(h, f, S)
    <2>1. h = Step(h)
      <3> HIDE DEF Step
      <3> QED
        BY <1>4
    <2>2. Step(h) = [s \in SUBSET S |-> IF s = {} THEN 0
                 ELSE f[CHOOSE x \in s : TRUE] + h[s \ {CHOOSE x \in s : TRUE}]]
      <3> HIDE DEF Step, f, h, S
      <3> QED
        BY <1>1
    <2> HIDE DEF Step, f, h, S
    <2> QED
      BY <2>1, <2>2 DEF Adds
  <1>6. h[S] = SumFunctionOnSet(f, S)
    BY <1>5, SumOnly
  <1>7. MapThenSumSet(LAMBDA p : Invoiced(i, p), S) = h[S]
    BY DEF MapThenSumSet, MapThenFoldSet
  <1> QED
    BY <1>6, <1>7

(* What completed notes issued of a product. *)
LEMMA CompletedSoldSomething ==
    ASSUME NotesTypeOK, NEW i \in Invoice, Fulfilment(i), NEW p
    PROVE  Issued(i, p) \in Nat
  <1> DEFINE C == CompletedFor(i)
             f == Quantities(note, C, p)
  <1>1. Listed(note, C)
    BY CompletedAreListed DEF Fulfilment
  <1>2. ASSUME NEW g \in C PROVE f[g] \in Nat
    <2> DEFINE lines == note[g].lines
               L == LinesFor(lines, p)
    <2>1. lines \in Seq(Product \X Int) /\ Sold(lines)
      BY <1>1 DEF Listed, Fulfilment
    <2>2. IntegersOn(Amounts(lines), L) /\ \A n \in L : Amounts(lines)[n] \in Nat
      <3>1. \A n \in DOMAIN lines : lines[n][2] \in Nat
        BY <2>1 DEF Sold
      <3>2. \A n \in L : Amounts(lines)[n] \in Nat
        BY <3>1 DEF Amounts, LinesFor
      <3> QED
        BY <2>1, <3>2, QuantitiesAreIntegers
    <2>3. SumFunctionOnSet(Amounts(lines), L) \in Nat
      BY <2>2, SumNatural DEF IntegersOn
    <2> QED
      BY <2>1, <2>3, QuantityIsSum DEF Quantities
  <1>3. SumFunctionOnSet(f, C) \in Nat
    <2> HIDE DEF f
    <2> QED
      BY <1>1, <1>2, SumNatural DEF Listed
  <1> QED
    BY <1>1, <1>3, IssuedIsSum, IssuedIsBy

(* FULFILLED means that every product left: as long as no edit took back   *)
(* what had left, no surplus of one product hides that another is missing. *)
THEOREM FulfilledIsCompleteTheorem == Spec => []FulfilledIsComplete
  <1>1. ASSUME NotesTypeOK, FulfilmentInv, NEW i \in Invoice \ (contended \cup cut),
               ByTheService(i),
               FulfillmentStatus(i) = "FULFILLED", NEW p \in Product, OnInvoice(i, p)
        PROVE  Issued(i, p) = Invoiced(i, p)
    <2> DEFINE S == Products(i)
               issued == SumFunctionOnSet(IssuedOf(i), S)
               invoiced == SumFunctionOnSet(InvoicedOf(i), S)
    <2>0. Fulfilment(i)
      BY <1>1 DEF FulfilmentInv
    <2>1. \A q \in S : /\ Issued(i, q) \in Nat /\ Invoiced(i, q) \in Nat
                       /\ Issued(i, q) <= Invoiced(i, q)
      BY <1>1, <2>0, CompletedSoldSomething, InvoicedIsNatural DEF Products, Fulfilment
    <2>2. /\ IntegersOn(IssuedOf(i), S) /\ IntegersOn(InvoicedOf(i), S)
          /\ \A q \in S : IssuedOf(i)[q] \in Nat /\ InvoicedOf(i)[q] \in Nat
          /\ \A q \in S : IssuedOf(i)[q] <= InvoicedOf(i)[q]
      BY <1>1, <2>1, FewProducts DEF IntegersOn, IssuedOf, InvoicedOf
    <2>3. issued \in Nat /\ invoiced \in Nat /\ issued <= invoiced
      BY <2>2, SumNatural, SumMonotone DEF IntegersOn
    <2>4. p \in S
      BY <1>1 DEF Products
    <2>5. ~(issued \in 1..(invoiced - 1)) /\ issued # 0
      <3>1. /\ MapThenSumSet(LAMBDA q : Issued(i, q), S) = issued
            /\ MapThenSumSet(LAMBDA q : Invoiced(i, q), S) = invoiced
        BY <2>2, IssuedOfIsSum, InvoicedOfIsSum
      <3>2. FulfillmentStatus(i) =
              CASE S = {} -> "NOT_APPLICABLE"
                [] S # {} /\ issued = 0 -> "UNFULFILLED"
                [] S # {} /\ issued \in 1..(invoiced - 1) -> "PARTIALLY_FULFILLED"
                [] OTHER -> "FULFILLED"
        BY <3>1 DEF FulfillmentStatus, Products
      <3> HIDE DEF S, issued, invoiced
      <3> QED
        BY <1>1, <2>3, <2>4, <3>2
    <2>6. issued = invoiced
      <3> HIDE DEF issued, invoiced
      <3> QED
        BY <2>3, <2>5
    <2> DEFINE T == S \ {p}
               issuedRest == SumFunctionOnSet(IssuedOf(i), T)
               invoicedRest == SumFunctionOnSet(InvoicedOf(i), T)
    <2>7. IntegersOn(IssuedOf(i), T) /\ IntegersOn(InvoicedOf(i), T)
      BY <2>2, IntegersOnPart
    <2>8. issuedRest \in Int /\ invoicedRest \in Int /\ issuedRest <= invoicedRest
      BY <2>2, <2>7, SumInteger, SumMonotone
    <2>9. issued = IssuedOf(i)[p] + issuedRest /\ invoiced = InvoicedOf(i)[p] + invoicedRest
      BY <2>2, <2>4, SumOneMore
    <2>10. IssuedOf(i)[p] = Issued(i, p) /\ InvoicedOf(i)[p] = Invoiced(i, p)
      BY <2>4 DEF IssuedOf, InvoicedOf
    <2>11. Issued(i, p) \in Nat /\ Invoiced(i, p) \in Nat /\ Issued(i, p) <= Invoiced(i, p)
      BY <2>1, <2>4
    <2>12. Issued(i, p) + issuedRest = Invoiced(i, p) + invoicedRest
      BY <2>6, <2>9, <2>10
    <2> HIDE DEF issuedRest, invoicedRest
    <2> QED
      BY <2>8, <2>11, <2>12
  <1>2. NotesTypeOK /\ FulfilmentInv => FulfilledIsComplete
    BY <1>1 DEF FulfilledIsComplete
  <1> QED
    BY <1>2, FulfilmentHolds, PTL
=============================================================================
