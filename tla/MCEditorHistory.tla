-------------------------- MODULE MCEditorHistory --------------------------
EXTENDS EditorHistory, TLC

CONSTANTS r1, r2, c1, c2

MCSymmetry == Permutations({r1, r2}) \union Permutations({c1, c2})
=============================================================================
