------------------------------ MODULE MCDynload ------------------------------
(* Small instances of handles and symbols: a library has one of the symbols *)
(* that signature tables name.                                              *)
EXTENDS DynloadProps, TLC

CONSTANTS f, g, malformed
MCExports == [l \in Libs |-> {f}]
MCTables  == {<<f, malformed>>, <<g, f>>}
=============================================================================
