----------------------------- MODULE Token2022 -----------------------------
(***************************************************************************)
(* The part of the Token-2022 program the loyalty program leans on, seen   *)
(* through its calls: a token account of a one-token mint, and what the    *)
(* token program does to it.  The token program is not in the repository;  *)
(* these operators are read off the CPIs in src/ and the tests that drive  *)
(* the wallet's own instructions.                                          *)
(***************************************************************************)
EXTENDS Naturals

CONSTANT NoAccount      \* what an address holds when no account lives there

\* Who may close a token account: its owner (no close authority set), the
\* voucher that the owner granted the right to, or some other key.
Closers == {"owner", "voucher", "other"}

TokenAccount ==
  [amount : 0..1, state : {"Initialized", "Frozen"}, closer : Closers]

\* An associated token account as `create` leaves it.
EmptyToken == [amount |-> 0, state |-> "Initialized", closer |-> "owner"]

Holds(t)   == t # NoAccount /\ t.amount = 1
Frozen(t)  == t # NoAccount /\ t.state = "Frozen"
Movable(t) == Holds(t) /\ ~Frozen(t)

\* One token arrives in the account at an address, which is created if needed.
Credited(t) == IF t = NoAccount THEN [EmptyToken EXCEPT !.amount = 1]
                                ELSE [t EXCEPT !.amount = 1]
Debited(t)  == [t EXCEPT !.amount = 0]
Thawed(t)   == [t EXCEPT !.state = "Initialized"]

\* What is left at an address once the program has tried to close the emptied
\* account there with the authorities it can sign for.
ClosedBy(t, authorities) ==
  IF t.closer \in authorities THEN NoAccount
                              ELSE Thawed(Debited(t))
=============================================================================
