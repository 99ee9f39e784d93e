------------------------------ MODULE MCAccounts ------------------------------
(***************************************************************************)
(* Accounts for TLC.  The emails other than the bootstrap account, and the *)
(* clients, are interchangeable.                                           *)
(***************************************************************************)
EXTENDS Accounts, TLC

Symmetry == Permutations(Emails \ {BootstrapEmail}) \cup Permutations(Clients)
===============================================================================
