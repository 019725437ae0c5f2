------------------------------ MODULE MCSearch ------------------------------
(* Small instances of Search for TLC, over the operators of MCMemo.        *)
EXTENDS Search, MCMemo
=============================================================================
