----------------------------- MODULE MCOfiwPool -----------------------------
\* Instances of OfiwPool for TLC.
EXTENDS OfiwPool

Pairs == {1, 2}
SingleEvents == {1}
=============================================================================
