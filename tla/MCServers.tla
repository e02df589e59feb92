---- MODULE MCServers ----
EXTENDS Servers
CONSTANTS e1, e2, s1, s2
====
