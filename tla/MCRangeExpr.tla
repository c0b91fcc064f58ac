---------------------------- MODULE MCRangeExpr ----------------------------
EXTENDS RangeExpr
MCListValues == -2 .. 8
=============================================================================
