------------------------------ MODULE Gallery -------------------------------
(***************************************************************************)
(* What the images of a listing promise to the seller who ordered them: a  *)
(* new one goes last, a deleted one leaves the others in their order, and  *)
(* nothing else moves them.                                                *)
(*                                                                         *)
(* StartUp shows that renumbering the rows on start keeps it.              *)
(***************************************************************************)
CONSTANTS Rows, Listings

VARIABLE shown   \* <<r, s>> in shown[l]: image r of listing l is shown, then s, or s is r

vars == shown

Images(l) == {r \in Rows : <<r, r>> \in shown[l]}

\* All images that are shown are shown one after the other.
Lined(order) ==
  /\ \A p \in order : <<p[1], p[1]>> \in order /\ <<p[2], p[2]>> \in order
  /\ \A r, s \in Rows : <<r, r>> \in order /\ <<s, s>> \in order =>
       /\ <<r, s>> \in order \/ <<s, r>> \in order
       /\ <<r, s>> \in order /\ <<s, r>> \in order => r = s
  /\ \A r, s, t \in Rows : <<r, s>> \in order /\ <<s, t>> \in order => <<r, t>> \in order

Init ==
  /\ shown \in [Listings -> SUBSET (Rows \X Rows)]
  /\ \A l \in Listings : Lined(shown[l])

Add(l, r) ==
  /\ \A k \in Listings : r \notin Images(k)
  /\ shown' = [shown EXCEPT ![l] = @ \cup (Images(l) \cup {r}) \X {r}]

Delete(l, r) ==
  /\ r \in Images(l)
  /\ shown' = [shown EXCEPT ![l] = {p \in @ : p[1] # r /\ p[2] # r}]

Next == \E l \in Listings, r \in Rows : Add(l, r) \/ Delete(l, r)
=============================================================================
