-------------------------- MODULE MCMainBackground --------------------------
EXTENDS MainBackground
CONSTANT pc1
MCLists == {<<pc1>>}
=============================================================================
