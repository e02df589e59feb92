---- MODULE MCStaff ----
EXTENDS Staff, TLC
CONSTANTS a, c, t1, t2, b1, b2, x, y, z

MCUsers == {a, c}
MCTokens == {t1, t2}
MCBrowsers == {b1, b2}
MCTabs == {x, y, z}
\* Two tabs of one browser, and another browser.
MCBrowserOf == x :> b1 @@ y :> b1 @@ z :> b2

NoChange == [role |-> None, active |-> None, password |-> FALSE, on |-> {}, off |-> {}]

\* The form with a role, with another role and a password, the
\* switch of the list, and the removal of the right to manage accounts.
MCChanges ==
    { [NoChange EXCEPT !.role = "super_admin"],
      [NoChange EXCEPT !.role = "manager", !.password = TRUE],
      [NoChange EXCEPT !.active = FALSE],
      [NoChange EXCEPT !.active = TRUE],
      [NoChange EXCEPT !.role = "super_admin", !.off = Workspaces] }

\* Two pages at once, of one browser (then without a cookie in the other one) or
\* of two; one page once the first sessions have expired.
FewPages ==
    LET shown == {b \in Tabs : screen[b] # None}
    IN /\ Cardinality(shown) <= 2 - now
       /\ {x, y} \subseteq shown => cookie[b2] = None

Symmetric == Permutations(MCTokens) \cup Permutations({x, y})
====
