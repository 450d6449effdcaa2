---------------------------- MODULE MCLogSearch -----------------------------
(* LogSearch with three logs, of which v occurs in two and w in two.         *)
EXTENDS LogSearch, TLC

CONSTANTS d1, d2, d3, v, w

FoundInThree == {<<d1, "tag", v>>, <<d2, "content", v>>, <<d2, "host", w>>, <<d3, "file", w>>}
TimeOfThree == (d1 :> 4) @@ (d2 :> 5) @@ (d3 :> 9)
Forms == {[values |-> <<v, Empty, Empty>>, start |-> 5, end |-> 9],
          [values |-> <<Empty, w, v>>, start |-> Empty, end |-> 9],
          [values |-> <<Empty, Empty, Empty>>, start |-> 4, end |-> 9],
          [values |-> <<w, Empty, Empty>>, start |-> Empty, end |-> Empty]}
Right == [user |-> "elastic", pwd |-> "right"]
Accounts == {Right, [user |-> "elastic", pwd |-> "wrong"]}
=============================================================================
