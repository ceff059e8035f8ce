------------------------------- MODULE MCCli -------------------------------
(* The program on small inputs, for TLC. *)
EXTENDS Cli

(* Ids are only compared for equality; clients are also sorted. *)
Symmetry == Permutations(TransactionId)

(* Rows that make accounts, rows that the service refuses, and rows that   *)
(* it never sees.                                                          *)
Faulty ==
  {row \in CommandRecord : \/ row.type = "Deposit"
                           \/ row.type = "Dispute" /\ row.client = 1}
    \cup {Malformed, Unreadable}

(* Rows that post, dispute and charge back: one client uses two amounts    *)
(* and withdraws, the other one gets in between.  Some lack their amount,  *)
(* and one is no record.                                                   *)
Amount(row) == IF row.type = "Deposit" /\ row.client = 1 THEN {{}, {1}, {2}}
               ELSE IF row.type \in {"Deposit", "Withdrawal"} THEN {{1}} ELSE {{}}

History ==
  {row \in CommandRecord : /\ row.type # "Resolve"
                           /\ row.type = "Withdrawal" => row.client = 1
                           /\ row.amount \in Amount(row)}
    \cup {Malformed, Unreadable}
=============================================================================
