----------------------------- MODULE GameSession -----------------------------
(***************************************************************************)
(* One managed game session of auto-process (gamesession.Session) with the *)
(* goroutines that share it: the message monitor, the heartbeat, the       *)
(* reconnect loops, the requests that send a chat, the operator who asks   *)
(* for a reconnect, and Close.                                             *)
(*                                                                         *)
(* Session.mu is held through a whole login, selection, map entry or chat, *)
(* so each of those is one step and the states it passes through are never *)
(* seen.  The one step that waits while it holds mu is replaceTransport,   *)
(* which needs transportMu too; the variable mu says who is in it.  The    *)
(* monitor holds transportMu through its read, without mu; everybody else  *)
(* holds it only inside a step, after cancelling that read.                *)
(*                                                                         *)
(* Abstractions.  A connection is a name; the protocol spoken over it is   *)
(* whether an exchange succeeds.  Manager.StartWithOptions enables the     *)
(* reconnector before anything else, so it is always there.                *)
(***************************************************************************)
EXTENDS Integers, FiniteSets

CONSTANTS
    Connections,    \* TCP connections; a closed one may stand for a new one
    Chats,          \* requests that send a chat
    Callers,        \* callers of Session.Reconnect
    Automatic,      \* the reconnect loop, Reconnector.runAutomatic
    MaxAttempts,    \* ReconnectConfig.MaxAttempts
    None

Drivers == Callers \cup {Automatic}     \* who runs Reconnector.TryReconnect

ASSUME ConstantsAssumption == /\ Automatic \notin Callers
                              /\ None \notin Connections \cup Drivers
                              /\ MaxAttempts \in Nat \ {0}

VARIABLES
    state,          \* Session.state
    transport,      \* Session.transport
    mu,             \* the driver that is inside replaceTransport, or None
    saved,          \* what the reconnector knows: see SavedStates
    open,           \* connections this process has not closed
    lost,           \* the open ones that are broken or closed by the game server
    driver,         \* where each driver is
    attempts,       \* attempts of its TryReconnect so far
    fresh,          \* the connection it is logging in, or None
    reconnecting,   \* Reconnector.reconnecting
    monitor,        \* the message monitor
    heartbeat,      \* the heartbeat
    chat,           \* the chats
    closing         \* how far Close is

network == <<open, lost>>
drivers == <<driver, attempts, fresh, reconnecting>>
workers == <<monitor, heartbeat>>
vars == <<state, transport, mu, saved, network, drivers, workers, chat, closing>>

States == {"new", "logged_in", "character_selected", "ready", "reconnecting",
           "failed", "closed"}
SavedStates == {"nothing", "credentials", "character"}

(* "succeeded", "aborted" and "exhausted" are the results TryReconnect is   *)
(* about to return with its flag still up; "leaving" is the loop before its *)
(* deferred reset of automaticRunning, which stands for driver # "off".     *)
DriverStates == {"off", "checking", "trying", "attempting", "bootstrapping", "handing_over",
                 "swapping", "succeeded", "aborted", "exhausted", "retrying", "delaying",
                 "failing", "leaving"}

(* "idle" is the head of the loop; "reading" holds transportMu; "kicked"    *)
(* and "broken" have read bad news and not acted on it yet.                 *)
MonitorStates == {"off", "idle", "reading", "kicked", "broken", "ended"}
HeartbeatStates == {"off", "idle", "broken", "ended"}

(* "asking" is about to look at the state; "waiting" saw it reconnecting    *)
(* and holds the channel that its next change closes; "admitted" saw it     *)
(* ready.                                                                   *)
ChatStates == {"idle", "asking", "waiting", "admitted"}

TypeOK ==
    /\ state \in States
    /\ transport \in Connections
    /\ mu \in Drivers \cup {None}
    /\ saved \in SavedStates
    /\ open \subseteq Connections
    /\ lost \subseteq open
    /\ driver \in [Drivers -> DriverStates]
    /\ attempts \in [Drivers -> 0..MaxAttempts]
    /\ fresh \in [Drivers -> Connections \cup {None}]
    /\ reconnecting \in BOOLEAN
    /\ monitor \in MonitorStates
    /\ heartbeat \in HeartbeatStates
    /\ chat \in [Chats -> ChatStates]
    /\ closing \in {"no", "stopping", "done"}

Init ==
    /\ state = "new"
    /\ transport \in Connections
    /\ mu = None
    /\ saved = "nothing"
    /\ open = {transport}
    /\ lost = {}
    /\ driver = [d \in Drivers |-> "off"]
    /\ attempts = [d \in Drivers |-> 0]
    /\ fresh = [d \in Drivers |-> None]
    /\ reconnecting = FALSE
    /\ monitor = "off"
    /\ heartbeat = "off"
    /\ chat = [c \in Chats |-> "idle"]
    /\ closing = "no"

-----------------------------------------------------------------------------
(* Helpers.                                                                *)

Unlocked == mu = None

Broken(c) == c \in lost \/ c \notin open

(* A change of state closes the channel the waiting chats hold.            *)
ToldOfReady(s) == [c \in Chats |-> IF s = "ready" /\ chat[c] = "waiting"
                                   THEN "asking" ELSE chat[c]]   \* slip: only success wakes
Told(s) == [c \in Chats |-> IF s # state /\ chat[c] = "waiting" THEN "asking" ELSE chat[c]]

(* setStateLocked, in a step of no chat.                                   *)
Enter(s) == state' = s /\ chat' = Told(s)

(* cancelMonitorRead: a read under way ends with context.Canceled.         *)
ReadCancelled == IF monitor = "reading" THEN "idle" ELSE monitor

Started(w) == IF w = "off" THEN "idle" ELSE w

StartAutomatic ==
    IF driver[Automatic] = "off" THEN [driver EXCEPT ![Automatic] = "checking"] ELSE driver

(* requestReconnectLocked for a cause that shouldReconnect accepts, in a    *)
(* session that is not closed; m is the monitor otherwise.                  *)
Recover(m) ==
    /\ state' = "reconnecting"
    /\ monitor' = m
    /\ driver' = StartAutomatic
    /\ UNCHANGED <<transport, mu, saved, network, attempts, fresh, reconnecting, closing>>

CloseConnections(cs) == open' = open \ cs /\ lost' = lost \ cs

-----------------------------------------------------------------------------
(* Start of the session: SessionManager's Start, Select and Enter.         *)

Login ==
    /\ Unlocked /\ state = "new"
    /\ \/ Enter("logged_in") /\ saved' = "credentials"
       \/ Enter("failed") /\ UNCHANGED saved
    /\ UNCHANGED <<transport, mu, network, drivers, workers, closing>>

SelectCharacter ==
    /\ Unlocked /\ state = "logged_in"
    /\ \/ Enter("character_selected") /\ saved' = "character"
       \/ Enter("failed") /\ UNCHANGED saved
    /\ UNCHANGED <<transport, mu, network, drivers, workers, closing>>

EnterGame ==
    /\ Unlocked /\ state = "character_selected"
    /\ \/ /\ Enter("ready")
          /\ monitor' = Started(monitor) /\ heartbeat' = Started(heartbeat)
       \/ Enter("failed") /\ UNCHANGED workers
    /\ UNCHANGED <<transport, mu, saved, network, drivers, closing>>

-----------------------------------------------------------------------------
(* The game server, and the network to it.                                 *)

LoseConnection(c) ==
    /\ c \in open \ lost
    /\ lost' = lost \cup {c}
    /\ UNCHANGED <<state, transport, mu, saved, open, drivers, workers, chat, closing>>

-----------------------------------------------------------------------------
(* The message monitor.                                                    *)

MonitorStep(from, to) ==
    /\ monitor = from /\ monitor' = to
    /\ UNCHANGED <<state, transport, mu, saved, network, drivers, heartbeat, chat, closing>>

MonitorListens == Unlocked /\ state = "ready" /\ MonitorStep("idle", "reading")

MonitorStops == state = "closed" /\ MonitorStep("idle", "ended")

(* Receive returns: an ordinary message, the notice that the account was   *)
(* logged in elsewhere, or an error.                                       *)
MonitorReceives ==
    \/ MonitorStep("reading", "idle")
    \/ MonitorStep("reading", "kicked")
    \/ /\ Broken(transport)
       /\ MonitorStep("reading", IF state = "closed" THEN "ended" ELSE "broken")

MonitorReports ==
    /\ Unlocked /\ monitor \in {"kicked", "broken"}
    /\ IF state = "closed"
       THEN /\ monitor' = "ended"
            /\ UNCHANGED <<state, transport, mu, saved, network, drivers, heartbeat, chat, closing>>
       ELSE /\ Recover("idle")
            /\ chat' = Told("reconnecting")
            /\ UNCHANGED heartbeat

-----------------------------------------------------------------------------
(* The heartbeat.  A frame written to a lost connection may still succeed. *)

HeartbeatSends ==
    /\ Unlocked /\ state = "ready" /\ heartbeat = "idle"
    /\ monitor' = ReadCancelled
    /\ heartbeat' \in IF Broken(transport) THEN {"idle", "broken"} ELSE {"idle"}
    /\ UNCHANGED <<state, transport, mu, saved, network, drivers, chat, closing>>

HeartbeatStops ==
    /\ state = "closed" /\ heartbeat = "idle"
    /\ heartbeat' = "ended"
    /\ UNCHANGED <<state, transport, mu, saved, network, drivers, monitor, chat, closing>>

HeartbeatReports ==
    /\ Unlocked /\ heartbeat = "broken"
    /\ IF state = "closed"
       THEN /\ heartbeat' = "ended"
            /\ UNCHANGED <<state, transport, mu, saved, network, drivers, monitor, chat, closing>>
       ELSE /\ Recover(ReadCancelled)
            /\ chat' = Told("reconnecting")
            /\ heartbeat' = "idle"

-----------------------------------------------------------------------------
(* A chat: Manager.ChatMode, Session.SendChat.                             *)

ChatStep(c, from, to) ==
    /\ chat[c] = from /\ chat' = [chat EXCEPT ![c] = to]
    /\ UNCHANGED <<state, transport, mu, saved, network, drivers, workers, closing>>

ChatArrives(c) == ChatStep(c, "idle", "asking")

ChatLooks(c) ==
    /\ Unlocked
    /\ ChatStep(c, "asking", CASE state = "ready" -> "admitted"
                               [] state = "reconnecting" -> "waiting"
                               [] OTHER -> "idle")

ChatGivesUp(c) == ChatStep(c, "waiting", "idle")

ChatRefused(c) == Unlocked /\ state # "ready" /\ ChatStep(c, "admitted", "idle")

(* The exchange, with whatever answer, without one in time, or cancelled.  *)
ChatSent(c) ==
    /\ Unlocked /\ state = "ready" /\ chat[c] = "admitted"
    /\ monitor' = ReadCancelled
    /\ chat' = [chat EXCEPT ![c] = "idle"]
    /\ UNCHANGED <<state, transport, mu, saved, network, drivers, heartbeat, closing>>

(* The write or the read fails, or the answer is that the account was      *)
(* logged in elsewhere.                                                    *)
ChatFails(c) ==
    /\ Unlocked /\ state = "ready" /\ chat[c] = "admitted"
    /\ Recover(ReadCancelled)
    /\ chat' = [Told("reconnecting") EXCEPT ![c] = "idle"]
    /\ UNCHANGED heartbeat

-----------------------------------------------------------------------------
(* Requests to reconnect.                                                  *)

(* The operator: AccountManager.Reconnect.                                 *)
RequestReconnect ==
    /\ Unlocked /\ state # "closed"
    /\ Enter("reconnecting")
    /\ driver' = StartAutomatic
    /\ UNCHANGED <<transport, mu, saved, network, attempts, fresh, reconnecting, workers, closing>>

(* Manager.Reconnect, which runs the attempts itself.                      *)
Reconnect(d) ==
    /\ Unlocked /\ state # "closed"
    /\ d \in Callers /\ driver[d] = "off"
    /\ Enter("reconnecting")
    /\ driver' = [driver EXCEPT ![d] = "trying"]
    /\ UNCHANGED <<transport, mu, saved, network, attempts, fresh, reconnecting, workers, closing>>

-----------------------------------------------------------------------------
(* A reconnect: Reconnector.TryReconnect and the loop around it.           *)

DriverStep(d, from, to) ==
    /\ driver[d] = from /\ driver' = [driver EXCEPT ![d] = to]
    /\ UNCHANGED <<state, transport, mu, saved, workers, chat, closing>>

Stopped == closing = "done"      \* stopChan is closed

Check(d) ==
    /\ Unlocked
    /\ DriverStep(d, "checking", IF state = "reconnecting" THEN "trying" ELSE "leaving")
    /\ UNCHANGED <<network, attempts, fresh, reconnecting>>

Busy(d) ==
    /\ reconnecting
    /\ DriverStep(d, "trying", IF d = Automatic THEN "retrying" ELSE "off")
    /\ UNCHANGED <<network, attempts, fresh, reconnecting>>

FlagDown == ~reconnecting

Begin(d) ==
    /\ FlagDown
    /\ DriverStep(d, "trying", "attempting")
    /\ reconnecting' = TRUE
    /\ attempts' = [attempts EXCEPT ![d] = 0]
    /\ UNCHANGED <<network, fresh>>

(* The session is closed, or the caller's context is done.                 *)
Abort(d) ==
    /\ Stopped \/ d \in Callers
    /\ DriverStep(d, "attempting", "aborted")
    /\ UNCHANGED <<network, attempts, fresh, reconnecting>>

(* The stop cancels an attempt from another goroutine: a dial that it finds *)
(* under way, or about to begin, may still succeed after it.                *)
Dial(d) ==
    /\ saved = "character"
    /\ DriverStep(d, "attempting", "bootstrapping")
    /\ \E c \in Connections \ (open \cup {transport}) :
          fresh' = [fresh EXCEPT ![d] = c] /\ open' = open \cup {c}
    /\ UNCHANGED <<lost, attempts, reconnecting>>

KeepOpen(cs) == UNCHANGED network   \* slip: a failed attempt does not close its session
Discard(cs) == CloseConnections(cs)

OneTooMany(d) == attempts[d] = MaxAttempts      \* slip: attempts are counted from zero
LastAttempt(d) == attempts[d] + 1 = MaxAttempts

(* One attempt has failed with its connections cs; is there another?       *)
AttemptFails(d, from, cs) ==
    /\ DriverStep(d, from, IF LastAttempt(d) THEN "exhausted" ELSE "attempting")
    /\ attempts' = [attempts EXCEPT ![d] = @ + 1]
    /\ fresh' = [fresh EXCEPT ![d] = None]
    /\ Discard(cs)
    /\ UNCHANGED reconnecting

DialFails(d) == AttemptFails(d, "attempting", {})

Bootstrapped(d) ==
    /\ DriverStep(d, "bootstrapping", "handing_over")
    /\ UNCHANGED <<network, attempts, fresh, reconnecting>>

BootstrapFails(d) == AttemptFails(d, "bootstrapping", {fresh[d]})

SessionIsClosed(d) == Unlocked /\ state = "closed" /\ AttemptFails(d, "handing_over", {fresh[d]})

(* replaceTransport takes mu, then waits for transportMu.                  *)
TakeSession(d) ==
    /\ Unlocked /\ state # "closed"
    /\ driver[d] = "handing_over"
    /\ driver' = [driver EXCEPT ![d] = "swapping"]
    /\ mu' = d
    /\ UNCHANGED <<state, transport, saved, network, attempts, fresh, reconnecting, workers,
                   chat, closing>>

Replaced(d) == {transport}

ReplaceTransport(d) ==
    /\ driver[d] = "swapping" /\ monitor # "reading"
    /\ driver' = [driver EXCEPT ![d] = "succeeded"]
    /\ mu' = None
    /\ transport' = fresh[d]
    /\ fresh' = [fresh EXCEPT ![d] = None]
    /\ Enter("ready")
    /\ CloseConnections(Replaced(d))
    /\ monitor' = Started(monitor) /\ heartbeat' = Started(heartbeat)
    /\ UNCHANGED <<saved, attempts, reconnecting, closing>>

(* TryReconnect returns, lowering its flag.                                *)
After(d, result) ==
    CASE d # Automatic -> IF result = "succeeded" THEN "off" ELSE "failing"
      [] result = "exhausted" -> "retrying"
      [] OTHER -> "leaving"

Return(d, result) ==
    /\ result \in {"succeeded", "aborted", "exhausted"}
    /\ DriverStep(d, result, After(d, result))
    /\ reconnecting' = FALSE
    /\ UNCHANGED <<network, attempts, fresh>>

Recheck(d) ==
    /\ Unlocked
    /\ DriverStep(d, "retrying", IF state = "reconnecting" THEN "delaying" ELSE "leaving")
    /\ UNCHANGED <<network, attempts, fresh, reconnecting>>

RetryDelay(d) ==
    /\ DriverStep(d, "delaying", IF Stopped THEN "leaving" ELSE "checking")
    /\ UNCHANGED <<network, attempts, fresh, reconnecting>>

(* markReconnectFailed, by a caller of Session.Reconnect.                  *)
Regardless == TRUE                  \* slip: a closed session is marked too
StillOpen == state # "closed"

MarkFailed(d) ==
    /\ Unlocked
    /\ driver[d] = "failing" /\ driver' = [driver EXCEPT ![d] = "off"]
    /\ IF StillOpen THEN Enter("failed") ELSE UNCHANGED <<state, chat>>
    /\ UNCHANGED <<transport, mu, saved, network, attempts, fresh, reconnecting, workers, closing>>

Leave(d) ==
    /\ DriverStep(d, "leaving", "off")
    /\ UNCHANGED <<network, attempts, fresh, reconnecting>>

-----------------------------------------------------------------------------
(* Close: mark the session, then stop everything and close the transport.  *)

Close ==
    /\ Unlocked /\ state # "closed"
    /\ Enter("closed")
    /\ closing' = "stopping"
    /\ UNCHANGED <<transport, mu, saved, network, drivers, workers>>

CloseTransport ==
    /\ closing = "stopping" /\ closing' = "done"
    /\ monitor' = IF monitor = "reading" THEN "ended" ELSE monitor
    /\ CloseConnections({transport})
    /\ UNCHANGED <<state, transport, mu, saved, drivers, heartbeat, chat>>

-----------------------------------------------------------------------------
StartSession == Login \/ SelectCharacter \/ EnterGame
Monitor == MonitorListens \/ MonitorStops \/ MonitorReceives \/ MonitorReports
Heartbeat == HeartbeatSends \/ HeartbeatStops \/ HeartbeatReports
Chat(c) == ChatArrives(c) \/ ChatLooks(c) \/ ChatGivesUp(c) \/ ChatRefused(c)
           \/ ChatSent(c) \/ ChatFails(c)
Drive(d) ==
    \/ Check(d) \/ Busy(d) \/ Begin(d) \/ Abort(d) \/ Dial(d) \/ DialFails(d)
    \/ Bootstrapped(d) \/ BootstrapFails(d) \/ SessionIsClosed(d) \/ TakeSession(d)
    \/ ReplaceTransport(d) \/ Recheck(d) \/ RetryDelay(d) \/ MarkFailed(d) \/ Leave(d)
    \/ \E result \in {"succeeded", "aborted", "exhausted"} : Return(d, result)

Next ==
    \/ StartSession \/ Monitor \/ Heartbeat
    \/ \E c \in Connections : LoseConnection(c)
    \/ \E c \in Chats : Chat(c)
    \/ RequestReconnect
    \/ \E d \in Drivers : Reconnect(d) \/ Drive(d)
    \/ Close \/ CloseTransport

Spec == Init /\ [][Next]_vars

(* Fairness.  Goroutines run, locks are granted, and every network wait of a *)
(* reconnect has a deadline (10 s to dial, RequestTimeout per exchange).     *)
(* Nothing makes the game server speak, so the monitor's read, which has no  *)
(* deadline, gets none; nor do requests, operators or failures.              *)
Fairness ==
    /\ WF_vars(MonitorListens) /\ WF_vars(MonitorStops) /\ WF_vars(MonitorReports)
    /\ WF_vars(HeartbeatStops) /\ WF_vars(HeartbeatReports)
    /\ \A d \in Drivers : WF_vars(Drive(d))
    /\ \A c \in Chats : WF_vars(ChatLooks(c))
    /\ WF_vars(CloseTransport)

FairSpec == Spec /\ Fairness

-----------------------------------------------------------------------------
(* Properties.                                                             *)

Attempting == {"attempting", "bootstrapping", "handing_over", "swapping",
               "succeeded", "aborted", "exhausted"}

(* The reconnect loop and a caller of Reconnect never log the account in at *)
(* the same time (each login throws the other out of the game): between the *)
(* two locked sections of TryReconnect there is at most one of them, and    *)
(* the flag tells.                                                          *)
OneReconnectAtATime ==
    /\ \A d, e \in Drivers : driver[d] \in Attempting /\ driver[e] \in Attempting => d = e
    /\ reconnecting = (\E d \in Drivers : driver[d] \in Attempting)

(* Every connection this process holds open is the session's or that of an *)
(* attempt under way, and never both; a closed session keeps none.  The    *)
(* hand-over closes the old one, a failed attempt its own, and one that    *)
(* finds the session closed while it was logging in closes what it brought. *)
NoConnectionLeaks ==
    /\ \A c \in open : c = transport \/ \E d \in Drivers : fresh[d] = c
    /\ \A d \in Drivers : fresh[d] # None => fresh[d] \in open /\ fresh[d] # transport
    /\ closing = "done" => transport \notin open

(* A session that is not closed still holds its connection: whoever sees it *)
(* ready writes to a socket that this process has not closed, whatever      *)
(* reconnects, hand-overs and failures there were.                          *)
ReadyIsConnected == state # "closed" => transport \in open

(* A chat that waits for a reconnect to end waits in the reconnecting state *)
(* only: no change of state, by success, failure or Close, is missed by a   *)
(* chat that looked just before it (stateChanged is read with the state).   *)
WaitersAreTold == \A c \in Chats : chat[c] = "waiting" => state = "reconnecting"

(* Connections and those who wait for them: the four above.                *)
ConnectionsAreSound ==
    OneReconnectAtATime /\ NoConnectionLeaks /\ ReadyIsConnected /\ WaitersAreTold

(* Nothing brings a closed session back: not a hand-over that was logging   *)
(* in meanwhile, not a late report, not a reconnect that fails after it.    *)
ClosedIsFinal == [][state = "closed" => state' = "closed"]_vars

(* Close ends everything the session started: the loop, the workers and     *)
(* every connection, the one of an attempt under way included.              *)
AllEnded == /\ open = {}
            /\ \A d \in Drivers : driver[d] = "off"
            /\ monitor \in {"off", "ended"} /\ heartbeat \in {"off", "ended"}
            /\ \A c \in Chats : chat[c] # "waiting"
CloseEndsEverything == (state = "closed") ~> []AllEnded

(* What its holders see of the session: how far it is, whichever step of    *)
(* the start or of a recovery that means, and the login of an attempt.      *)
Starting == {"new", "logged_in", "character_selected"}
Phase == CASE state \in Starting -> "starting"
           [] state = "ready" -> "ready"
           [] state = "closed" -> "ended"
           [] OTHER -> "down"

LoginsOf(ds) == {fresh[d] : d \in ds} \ {None}
InGame == {d \in Drivers : driver[d] \in {"handing_over", "swapping"}}

Managed == INSTANCE ManagedSession WITH
    phase <- Phase, link <- transport, held <- open,
    spare <- LoginsOf(Drivers), complete <- LoginsOf(InGame)

(* However the loop, the callers of Reconnect, the workers and Close        *)
(* interleave, a session does what ManagedSession says: it becomes ready    *)
(* again only by the hand-over of a login that reached the game, one login  *)
(* is under way at a time, it costs the session no connection but the old   *)
(* one, what it opens is closed when it ends in vain or after Close, and    *)
(* nothing brings a closed session back, so that ClosedIsFinal follows      *)
(* (reconnect.go:116-224, transport_handoff.go:20-57, chat.go:156-180).     *)
ManagedSpec == Managed!Spec

(* A lost connection is recovered without anybody's help: somebody is       *)
(* reconnecting whenever the state says so.  Not so.                        *)
ReconnectIsDriven == state = "reconnecting" => \E d \in Drivers : driver[d] # "off"

(* The monitor's blocking read is cancelled before the replacement          *)
(* transport waits for its lock.  Not so after RequestReconnect.            *)
ReadIsCancelledFirst == mu # None => monitor # "reading"
=============================================================================
