----------------------------- MODULE OrderMoves ------------------------------
(***************************************************************************)
(* The statuses of an order and which of them follow which.  A handler     *)
(* checks the status it reads and commits later, so what it writes may     *)
(* follow whatever the others have made of the order meanwhile: a move is  *)
(* a status that the order can have at the commit and the one written.     *)
(***************************************************************************)
OrderStatus == {"created", "stock_reserved", "payment_pending", "paid",
                "cod_pending", "payment_failed", "cancelled", "fulfilled"}

Terminal == {"cancelled", "fulfilled"}

Cancellable == {"created", "stock_reserved", "payment_pending",
                "cod_pending", "payment_failed"}

AdminStatus == {"paid", "fulfilled", "cancelled", "payment_failed"}

\* What others ever see: created and stock_reserved are of one transaction.
Committed == OrderStatus \ {"created"}

\* An intent, a cancellation, an admin and a webhook write after whatever the
\* order has become; a confirmation, which alone makes an order cod_pending, has
\* seen it pending, and nothing takes it back to stock_reserved.
Moves ==
    (Committed \X ({"payment_pending", "cancelled"} \cup AdminStatus))
        \cup ((Committed \ {"stock_reserved"}) \X {"cod_pending"})
==============================================================================
