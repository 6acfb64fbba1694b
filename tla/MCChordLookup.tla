--------------------------- MODULE MCChordLookup ---------------------------
EXTENDS ChordLookup

AllKeys == Key
=============================================================================
