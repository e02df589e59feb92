---- MODULE MCActivities ----
EXTENDS Activities
====
