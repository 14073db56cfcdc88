------------------------------ MODULE MCWalks ------------------------------
EXTENDS Walks

\* Three directories, the second with one of its own before its file.
Tree == {<<1, 1>>, <<2, 1, 1>>, <<2, 2>>}
Stock == Tree \ {<<2, 2>>}
Shelf == {<<1, 1>>, <<1, 2>>, <<2, 1>>}
=============================================================================
