--------------------------- MODULE MCLedgerChain ---------------------------
(* Constants that a configuration file cannot write, for model checking    *)
(* LedgerChain.                                                            *)
EXTENDS LedgerChain, TLC

CONSTANTS q1, q2

RequestSymmetry == Permutations(Requests)
============================================================================
