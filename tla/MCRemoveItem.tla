---- MODULE MCRemoveItem ----
(* r holds the directory a and the link l, a holds the links k and m.  l leads
   out of the tree to the directory o with a file x, k to the file y, and m back
   to r.                                                                        *)
EXTENDS RemoveItem

TreeParent == [r |-> "none", a |-> "r", k |-> "a", l |-> "r", m |-> "a", o |-> "none",
               x |-> "o", y |-> "none"]
TreeLinkTo == [k |-> "y", l |-> "o", m |-> "r"]
====
