----------------------------- MODULE MCPalette ------------------------------
EXTENDS Palette

CONSTANTS i1, i2, i3, t1

MCFirstItems == <<i1, i2, i3>>
=============================================================================
