------------------------- MODULE MCConstantRegistry -------------------------
(***************************************************************************)
(* Two threads, an alias ("pi") with its glyph and one more symbol.  The   *)
(* documents overlap, and hold a disabled and a bad entry in the middle.   *)
(***************************************************************************)
EXTENDS ConstantRegistry

MCCanonical(s) == "glyph"

Item(s, v, k) == [symbol |-> s, value |-> v, kind |-> k]
CallOf(op, doc) == [op |-> op, doc |-> doc]

MCCalls ==
  {CallOf("lookup", <<Item("pi", "own", "good")>>),
   CallOf("lookup", <<Item("tau", "own", "good")>>),
   CallOf("register", <<Item("pi", "own", "good")>>),
   CallOf("register", <<Item("pi", "other", "good")>>),
   CallOf("reregister", <<Item("glyph", "own", "good")>>),
   CallOf("load", <<Item("glyph", "default", "good"), Item("pi", "default", "disabled"),
                    Item("tau", "default", "good")>>),
   CallOf("load", <<Item("tau", "other", "good"), Item("pi", "default", "bad"),
                    Item("glyph", "other", "good")>>),
   CallOf("register_many", <<Item("tau", "own", "good"), Item("pi", "other", "good")>>),
   CallOf("replace_many", <<Item("glyph", "other", "good"), Item("tau", "own", "bad")>>)}
=============================================================================
