--------------------------- MODULE ManagedSession ---------------------------
(***************************************************************************)
(* What a managed game session promises to those who hold it, however many *)
(* goroutines share it: it is usable after its start, or after a second    *)
(* login has been completed and handed over, and in no other way; there is *)
(* one such login at a time, and none before the start has come to an end; *)
(* a login that comes to nothing, or too late, leaves nothing behind, and  *)
(* one that is handed over costs the old connection; and what has ended    *)
(* stays so.                                                               *)
(***************************************************************************)
CONSTANT Connections

VARIABLES
    phase,      \* "starting", "ready", "down" or "ended"
    link,       \* the connection of the session
    held,       \* the connections that are open
    spare,      \* the one of them, if any, over which the account logs in anew
    complete    \* that one again, once the account is in the game over it

managed == <<phase, link, held, spare, complete>>

Init ==
    /\ phase = "starting"
    /\ link \in Connections /\ held = {link}
    /\ spare = {} /\ complete = {}

(* The account is in the game.                                             *)
Start ==
    /\ phase = "starting" /\ phase' = "ready"
    /\ UNCHANGED <<link, held, spare, complete>>

(* The start fails, the connection does, or somebody asks for another.     *)
GoDown ==
    /\ phase \in {"starting", "ready"} /\ phase' = "down"
    /\ UNCHANGED <<link, held, spare, complete>>

LogIn(c) ==
    /\ phase # "starting"
    /\ spare = {} /\ c \notin held \cup {link}
    /\ spare' = {c} /\ held' = held \cup {c}
    /\ UNCHANGED <<phase, link, complete>>

Complete ==
    /\ spare # {} /\ complete' = spare
    /\ UNCHANGED <<phase, link, held, spare>>

GiveUp ==
    /\ spare # {} /\ held' = held \ spare
    /\ spare' = {} /\ complete' = {}
    /\ UNCHANGED <<phase, link>>

HandOver ==
    /\ phase \in {"ready", "down"} /\ phase' = "ready"
    /\ link' \in complete
    /\ held' = held \ {link}
    /\ spare' = {} /\ complete' = {}

End ==
    /\ phase # "ended" /\ phase' = "ended"
    /\ UNCHANGED <<link, held, spare, complete>>

Release ==
    /\ phase = "ended" /\ link \in held
    /\ held' = held \ {link}
    /\ UNCHANGED <<phase, link, spare, complete>>

Next ==
    \/ Start \/ GoDown \/ Complete \/ GiveUp \/ HandOver \/ End \/ Release
    \/ \E c \in Connections : LogIn(c)

Spec == Init /\ [][Next]_managed
=============================================================================
