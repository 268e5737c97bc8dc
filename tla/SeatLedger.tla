----------------------------- MODULE SeatLedger -----------------------------
(***************************************************************************)
(* What the reservation system promises, without processes, semaphores or  *)
(* sockets: a ledger of seats in which a sale is one step, made only while *)
(* the ledger is open and only if the flight has the seats.  The buyer is  *)
(* told of the sale after it, perhaps when the ledger is closed, perhaps   *)
(* never.  A seat may also be withdrawn without being sold (the buyer's    *)
(* agent died half way), but never comes back and is never sold twice.     *)
(***************************************************************************)
EXTENDS Integers

CONSTANTS Flights, InitSeats, Amounts

VARIABLES avail,   \* seats still on offer
          sold,    \* seats sold
          told,    \* seats sold that the buyer was told of
          book     \* "open" while sales are possible

Init ==
  /\ avail = InitSeats
  /\ sold = [f \in Flights |-> 0] /\ told = [f \in Flights |-> 0]
  /\ book = "open"

Withdraw(f, n) ==
  /\ avail[f] >= n
  /\ avail' = [avail EXCEPT ![f] = @ - n]
  /\ UNCHANGED <<sold, told, book>>

Sell(f, n) ==
  /\ book = "open" /\ avail[f] >= n
  /\ avail' = [avail EXCEPT ![f] = @ - n]
  /\ sold' = [sold EXCEPT ![f] = @ + n]
  /\ UNCHANGED <<told, book>>

Tell(f, n) ==
  /\ told[f] + n <= sold[f]
  /\ told' = [told EXCEPT ![f] = @ + n]
  /\ UNCHANGED <<avail, sold, book>>

Close == book = "open" /\ book' = "closed" /\ UNCHANGED <<avail, sold, told>>

Next ==
  \/ Close
  \/ \E f \in Flights, n \in Amounts : Withdraw(f, n) \/ Sell(f, n) \/ Tell(f, n)

Spec == Init /\ [][Next]_<<avail, sold, told, book>>

=============================================================================
