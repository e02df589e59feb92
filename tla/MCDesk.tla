---- MODULE MCDesk ----
EXTENDS Desk
====
