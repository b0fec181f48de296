------------------------------- MODULE MCArla -------------------------------
(***************************************************************************)
(* Arla for TLC, with a small application: the data is a set of rows, row  *)
(* "ab" refers to row "a" (as an email refers to its member in test-app).  *)
(***************************************************************************)
EXTENDS Arla

\* A set of sets, not SUBSET: TLC has to ask whether Rejected is in it.
MCDB == {rows : rows \in SUBSET {"a", "ab", "u"}}

Insert(rows, row) == IF row \in rows THEN Rejected ELSE rows \cup {row}

MCEffect ==
    [x \in MCDB \X Writes |->
        LET rows == x[1]
        IN  CASE x[2] = "addA"   -> Insert(rows, "a")
              [] x[2] = "signup" -> Insert(rows, "u")
              [] x[2] = "linkA"  -> IF "a" \in rows THEN Insert(rows, "ab") ELSE Rejected]
=============================================================================
