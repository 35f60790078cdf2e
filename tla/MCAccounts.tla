------------------------------ MODULE MCAccounts ------------------------------
(* Instances of Accounts for TLC. *)
EXTENDS Accounts, TLC

Symmetry ==
    Permutations(User) \cup Permutations(Email) \cup Permutations(Handle)
        \cup Permutations(Device)

=============================================================================
