-------------------------- MODULE MCCollationScreens --------------------------
(* The hierarchies of MCCollation with two parties.  The client wins the    *)
(* first unit and loses the second by as much; typed at the LGA, it loses.  *)
EXTENDS MCCollation, CollationBrowse

CONSTANTS ours, theirs

Columns == <<theirs, ours>>

Result(a, b) == (ours :> a) @@ (theirs :> b)
Votes == [u \in Unit |-> [f \in Figures |->
            CASE u = p1 -> IF f = f1 THEN Result(2, 1) ELSE Result(0, 3)
              [] u = p2 -> Result(1, 2)
              [] OTHER  -> Result(0, 1)]]
=============================================================================
