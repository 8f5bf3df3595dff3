------------------------------ MODULE MCSession ------------------------------
(***************************************************************************)
(* Session with the bounds TLC checks it under.  Descriptors 3, 5 and 6    *)
(* are free for passive sockets: the third leaked one fills the table.     *)
(***************************************************************************)
EXTENDS Session, TLC

MCSymmetry == Permutations(Transfers)
=============================================================================
