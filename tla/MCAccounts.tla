----------------------------- MODULE MCAccounts -----------------------------
(* Instances of Accounts for TLC: clients, passwords and codes are model   *)
(* values; every client types the same address.                            *)
EXTENDS Accounts, TLC

CONSTANT e1

OneAddress == [c \in Clients |-> e1]
=============================================================================
