--------------------------- MODULE MCSnapshotTree ---------------------------
EXTENDS SnapshotTree

CONSTANTS a, b, c, x

\* Three validators: the window is two blocks, and one validator is free to
\* sign at any time.
ThreeValidators == <<a, b, c>>

=============================================================================
