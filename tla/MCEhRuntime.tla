---------------------------- MODULE MCEhRuntime -----------------------------
EXTENDS EhRuntime, TLC

CONSTANTS e1, e2, f1

MCPrimary == {e1, e2}
MCForeign == {f1}
MCSymmetry == Permutations(MCPrimary)
=============================================================================
