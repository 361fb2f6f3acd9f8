----------------------- MODULE MCFinancialTransaction -----------------------
(* Two requests of one owner, a mutation and a request that is not one     *)
(* (a GET or a journey route), and a mutation of another owner.            *)
EXTENDS FinancialTransaction, TLC

CONSTANTS mutation, reading, foreign, dana, noa

MCOwnerOf == (mutation :> dana) @@ (reading :> dana) @@ (foreign :> noa)
=============================================================================
