------------------------------- MODULE MCTrust -------------------------------
(***************************************************************************)
(* Trust for TLC: the marketplace events, and loops that are alike.        *)
(***************************************************************************)
EXTENDS Trust, TLC

CONSTANTS ann, bob

Note(kind, one, two, other) == [kind |-> kind, one |-> one, two |-> two, other |-> other]

\* A deal of a user with himself, a dispute, a review, and an event that names
\* nobody in a role.  Two deliveries of the dispute take a score to 0.
MCEvents ==
  {Note("deal", ann, ann, NoUser), Note("dispute", bob, ann, NoUser),
   Note("review", bob, ann, NoUser), Note("deal", NoUser, NoUser, ann)}

Symmetry == Permutations(Loops)
=============================================================================
