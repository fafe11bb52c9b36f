---------------------------- MODULE TossGateway ----------------------------
(***************************************************************************)
(* One payment as the Toss gateway keeps it.  The gateway is outside the   *)
(* repository: only what payment.service.ts and toss-payment-api.service.ts *)
(* rely on is modelled.  It approves a payment once, refuses a cancellation *)
(* it has no balance for, and reports status and remaining balance.        *)
(***************************************************************************)
EXTENDS Integers

\* The statuses mapTossStatusToPaymentStatus knows, less IN_PROGRESS, which
\* the code treats as READY.
GatewayStatus == {"READY", "WAITING_FOR_DEPOSIT", "DONE", "PARTIAL_CANCELED",
                  "CANCELED", "ABORTED", "EXPIRED"}

GatewayPayment == [st : GatewayStatus, bal : Nat]

\* The customer's money has been taken (and possibly given back since).
MoneyTaken(p) == p.st \in {"DONE", "PARTIAL_CANCELED", "CANCELED"}

Approve(p, virtual) ==
    [p EXCEPT !.st = IF virtual THEN "WAITING_FOR_DEPOSIT" ELSE "DONE"]

Refundable(p, amount) ==
    p.st \in {"DONE", "PARTIAL_CANCELED"} /\ amount \in 1..p.bal

Refund(p, amount) ==
    [st  |-> IF amount = p.bal THEN "CANCELED" ELSE "PARTIAL_CANCELED",
     bal |-> p.bal - amount]
=============================================================================
