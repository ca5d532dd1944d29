--------------------------- MODULE MCBodyDownload ---------------------------
EXTENDS BodyDownload, TLC

CONSTANTS v1, v2, v3

\* One span and three validators: the window is two blocks.
ThreeValidators == 0 :> {v1, v2, v3}

=============================================================================
