---------------------------- MODULE MCQuotations ----------------------------
(***************************************************************************)
(* A quotation with two lines at most: a discounted one, a product given   *)
(* for free and one whose price the client leaves to the program.          *)
(***************************************************************************)
EXTENDS Quotations, TLC

CONSTANTS x, y

Discounted == [qty |-> 2, price |-> 1, discount |-> 1, product |-> TRUE]
Free == [qty |-> 1, price |-> 0, discount |-> 0, product |-> TRUE]

Unpriced == [qty |-> 1, price |-> NoPrice, discount |-> 0, product |-> TRUE]

On(a, b) == [i \in Item |-> IF i = x THEN a ELSE b]

New(status, lines) ==
    [row |-> [status |-> status, vat |-> 100, discount |-> 1, total |-> 0], lines |-> lines]

MCNewQuotations == { New("DRAFT", On(Discounted, Free)), New("SENT", On(Unpriced, NoLine)) }

MCEdits == { [vat |-> 100, discount |-> 1, lines |-> On(Discounted, Discounted)] }

MCPatches == { [status |-> "CONVERTED"], [total |-> 5] }

Symmetry == Permutations(Request)
=============================================================================
