-------------------------- MODULE MCLayoutManager --------------------------
EXTENDS LayoutManager
=============================================================================
