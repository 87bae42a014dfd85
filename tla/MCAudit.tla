------------------------------- MODULE MCAudit -------------------------------
(***************************************************************************)
(* Whole contexts with every combination of up to three further entries    *)
(* behind them, or up to two before them with a weak, borderline or absent *)
(* iteration count.                                                        *)
(***************************************************************************)
EXTENDS Audit, MCPlistScan
==============================================================================
