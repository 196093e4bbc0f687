------------------------------ MODULE MCStores ------------------------------
(* Stores and Storage for TLC: readers are only compared.                  *)
EXTENDS Storage, TLC

ReaderSymmetry == Permutations(Readers)
=============================================================================
