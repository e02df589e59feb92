---- MODULE MCRewards ----
EXTENDS Rewards, TLC
CONSTANTS c1, c2, c3, dragon

MCLists == {dragon}
MCCharacters == {c1, c2, c3}
MCTickets == [l \in MCLists |-> 5]

\* The two services disagree on the last day: two teams here, one there.
MCRosters ==
    [m \in Modes |-> [d \in 0..LastDay |->
        IF m = "local"
        THEN {[list |-> dragon, members |-> {c1, c2}], [list |-> dragon, members |-> {c3}]}
        ELSE {[list |-> dragon, members |-> {c1, c2, c3}]}]]

MCClearFiles ==
    { {[date |-> LastDay, list |-> dragon, character |-> c1], [date |-> LastDay, list |-> Nothing, character |-> c2]},
      {[date |-> LastDay, list |-> dragon, character |-> c3]} }

MCDirectories == { {c1, c2}, {c1, c2, c3} }
====
