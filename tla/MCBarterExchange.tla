-------------------------- MODULE MCBarterExchange --------------------------
(* BarterExchange.tla for TLC: files of one block, and vectors of keys.      *)
EXTENDS BarterExchange

CONSTANTS a1, b1

OneFileA == {<<a1>>}
OneFileB == {<<b1>>}
NoKeys == {}
WrongKey == {<<(<<"X", 0>>)>>}
FirstKeyShort == {<<"A", 1>>}
=============================================================================
