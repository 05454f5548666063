------------------------- MODULE MCImmutableWindow -------------------------
EXTENDS ImmutableWindow
=============================================================================
