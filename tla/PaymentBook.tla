---------------------------- MODULE PaymentBook ----------------------------
(***************************************************************************)
(* What the payments of a shop promise, whatever its handlers do: a bank   *)
(* takes and gives back money, and a book with one slot per order follows  *)
(* it.  The book may lag behind the bank and may be corrected in any       *)
(* order; it never says more than the bank has done, never forgets a       *)
(* payment, and never holds two payments of one order.                     *)
(***************************************************************************)
EXTENDS Integers

CONSTANTS Payment,   \* payment attempts
          OrderOf    \* the order an attempt pays for

VARIABLES bank,      \* per attempt: has the money been taken, and what is left
          book       \* per attempt: what the shop has written down, if anything

vars == <<bank, book>>

Account == [taken : BOOLEAN, left : Nat]
Blank == [st |-> "NONE", bal |-> 0]
Entry == [st : {"PENDING", "SUCCESS", "CANCELLED", "FAILED"}, bal : Nat]

\* What an entry e may say of the bank account b of its payment.
Truthful(e, b) ==
    /\ e.st = "SUCCESS" => b.taken
    /\ e.st = "CANCELLED" => b.taken /\ b.left = 0
    /\ e.st # "FAILED" => e.bal >= b.left

Init == /\ bank \in [Payment -> [taken : {FALSE}, left : Nat \ {0}]]
        /\ book = [p \in Payment |-> Blank]

Take(p) == /\ ~bank[p].taken
           /\ bank' = [bank EXCEPT ![p] = [taken |-> TRUE, left |-> bank[p].left]]
           /\ UNCHANGED book

\* In parts or at once.
GiveBack(p) ==
    /\ bank[p].taken
    /\ bank' = [bank EXCEPT ![p] = bank'[p]]
    /\ bank'[p] \in Account /\ bank'[p].taken /\ bank'[p].left < bank[p].left
    /\ UNCHANGED book

\* An entry is written, or replaced by one that need not be newer.
Record(p) ==
    /\ \A q \in Payment : OrderOf[q] = OrderOf[p] /\ book[q].st # "NONE" => q = p
    /\ book' = [book EXCEPT ![p] = book'[p]]
    /\ book'[p] \in Entry /\ Truthful(book'[p], bank[p])
    /\ UNCHANGED bank

Next == \E p \in Payment : Take(p) \/ GiveBack(p) \/ Record(p)

Spec == Init /\ [][Next]_vars
=============================================================================
