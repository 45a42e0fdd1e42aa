------------------------------ MODULE RowCopies ------------------------------
(***************************************************************************)
(* What the handlers of quotations and of subscriptions have in common: a  *)
(* request loads its row, on which the service then decides, before the    *)
(* transaction that saves all columns of this copy.                        *)
(***************************************************************************)
CONSTANTS
    Request,     \* the requests that can be in progress at once
    Idle

VARIABLES
    request,     \* the copy a request works on, Idle between requests
    contended    \* the rows several worked on at once

(* The rows there are not, before their creation and after their deletion. *)
Absent == {"unborn", "deleted"}

Working(r) == request[r] # Idle
Of(r) == request[r].on
Loaded(r) == request[r].row

Done(r) == request' = [request EXCEPT ![r] = Idle]

(* A PATCH replaces the columns it names. *)
Patched(row, patch) ==
    [column \in DOMAIN row |-> IF column \in DOMAIN patch THEN patch[column] ELSE row[column]]
=============================================================================
