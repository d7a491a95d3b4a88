------------------------------ MODULE MCOfiMr -------------------------------
\* Instances of OfiMr for TLC: addresses are small numbers, messages bodies
\* with and without a header small enough for a slab.
EXTENDS OfiMr

Range(b, n) == [base |-> b, len |-> n]
header == Range(9, 1)

\* Three bodies that overlap; addresses 1 to 5.
ManyBodies == {<<Range(1, 2)>>, <<Range(2, 3)>>, <<header, Range(4, 2)>>}
OneMark == {Range(1, 2)}
NoMarks == {}
=============================================================================
