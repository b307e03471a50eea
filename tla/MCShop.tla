------------------------------- MODULE MCShop -------------------------------
(***************************************************************************)
(* Small instances of Shop: the values of Role, and the symmetry of the    *)
(* orders.                                                                 *)
(***************************************************************************)
EXTENDS Shop, TLC

CONSTANTS manager, staff

MCRole == (manager :> "manager") @@ (staff :> "staff")

OrderSymmetry == Permutations(Order)

=============================================================================
