------------------------------- MODULE MCRoles -------------------------------
(* What the tables of Roles may hold to begin with.                         *)
EXTENDS Roles, TLC

CONSTANTS e1, e2, p1, g1, read_a, all_a

Base == [username |-> e1, email |-> e1, password |-> 0, link |-> None, until |-> 0,
         by |-> "email", google |-> None, role |-> "user", places |-> {}]

Driver == [Base EXCEPT !.username = p1, !.email = None, !.role = "shipper"]
Admin == [Base EXCEPT !.username = e2, !.email = e2, !.role = "super_admin"]

\* Nobody; a customer with an address, whose address was changed, or who is
\* linked to Google and has lost the role; a driver; and an administrator.
MCStarts ==
    {[user |-> << >>, cert |-> None],
     [user |-> [i \in {e1} |-> [Base EXCEPT !.places = {0}, !.link = 0]], cert |-> None],
     [user |-> [i \in {e1} |-> [Base EXCEPT !.email = e2, !.by = "google", !.google = g1]],
      cert |-> None],
     [user |-> [i \in {0} |-> Driver], cert |-> "PENDING"],
     [user |-> [i \in {e1, e2} |-> IF i = e1 THEN [Base EXCEPT !.role = None] ELSE Admin],
      cert |-> None]}

\* One name and the one that allows all of its category.
MCNames == {read_a, all_a}
MCAll == [n \in MCNames |-> all_a]

\* The handlers do not differ from one another.
MCSymmetry == Permutations(Slots)
=============================================================================
