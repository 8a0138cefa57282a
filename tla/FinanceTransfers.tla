-------------------------- MODULE FinanceTransfers --------------------------
(***************************************************************************)
(* The finance service, as the warehouse relies on it: transfers raised    *)
(* under an operation key, corrected or voided while they are not booked,  *)
(* decided by people and booked.  It lies outside this repository; what is *)
(* assumed of it is what the calls in procurement and maintenance say.     *)
(***************************************************************************)
EXTENDS Integers, Sequences, SequencesExt, FiniteSets

CONSTANT MaxTransfers  \* bound: transfers raised

VARIABLE transfers     \* finance's rows, by id: [kind, attempt, amount, status]

Kind == {"FULL", "PREPAYMENT", "BALANCE", "ADJUSTMENT", "REFUND"}
TransferStatus == {"PENDING", "APPROVED", "REJECTED", "BOOKED", "VOID"}
Transfer == [kind : Kind, attempt : Nat, amount : Nat, status : TransferStatus]

Unbooked == {"PENDING", "APPROVED"}

Sum(xs, Amount(_)) == FoldSeq(LAMBDA x, n : Amount(x) + n, 0, xs)

(* The transfer of an operation key, 0 if it was not raised.               *)
Keyed(kind, attempt) == {t \in DOMAIN transfers :
  transfers[t].kind = kind /\ transfers[t].attempt = attempt}

(* A key finance has seen names the transfer it raised; asking for other   *)
(* money under that key is refused.                                        *)
Raise(kind, attempt, amount, t) ==
  IF Keyed(kind, attempt) = {}
    THEN /\ Len(transfers) < MaxTransfers /\ t = Len(transfers) + 1
         /\ transfers' = Append(transfers,
              [kind |-> kind, attempt |-> attempt, amount |-> amount, status |-> "PENDING"])
    ELSE /\ t \in Keyed(kind, attempt) /\ transfers[t].amount = amount
         /\ UNCHANGED transfers

(* PATCH :id/amount, refused once the transfer is booked.                  *)
Correct(t, amount) ==
  /\ transfers[t].status \in Unbooked
  /\ transfers' = [transfers EXCEPT ![t].amount = amount]

(* cancel-by-ref: everything under the order's reference but what is       *)
(* booked already.                                                         *)
VoidAll ==
  transfers' = [t \in DOMAIN transfers |->
    IF transfers[t].status \in Unbooked THEN [transfers[t] EXCEPT !.status = "VOID"]
                                        ELSE transfers[t]]

(* A verdict takes effect once the warehouse has answered for it.          *)
Decide(t, verdict) ==
  transfers' = [transfers EXCEPT ![t].status = IF @ = "PENDING" THEN verdict ELSE @]

Book(t) ==
  /\ transfers[t].status = "APPROVED"
  /\ transfers' = [transfers EXCEPT ![t].status = "BOOKED"]

(* What finance has paid or will pay, refunds taken off.                   *)
Committed ==
  Sum(SelectSeq(transfers, LAMBDA x : x.status \in Unbooked \union {"BOOKED"}),
      LAMBDA x : IF x.kind = "REFUND" THEN -x.amount ELSE x.amount)
=============================================================================
