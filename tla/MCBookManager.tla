--------------------------- MODULE MCBookManager ---------------------------
(* A small instance of BookManager: one id that the feed adds under either *)
(* symbol and one that belongs to a symbol.                                *)
EXTENDS BookManager, TLC

CONSTANTS o1, o2, s1, s2

MCOrderId == {o1, o2}
MCSymbol == {s1, s2}
MCSymbolsOf == (o1 :> {s1, s2}) @@ (o2 :> {s2})
=============================================================================
