------------------------- MODULE GameSession_proofs -------------------------
(***************************************************************************)
(* Proofs about GameSession, one session inside the auto process, for any  *)
(* connections, chats, callers and number of attempts, and about Accounts, *)
(* who answers for the sessions of that process, for any number of         *)
(* sessions and faults.  The inductive invariant of the first ties what a  *)
(* driver is doing to the connection it holds, to the flag of the          *)
(* reconnector and to Session.mu.  Most steps leave all of those alone;    *)
(* the others, which are the ones of an attempt and of Close, have a lemma *)
(* each.                                                                   *)
(***************************************************************************)
EXTENDS GameSession, Accounts, FiniteSetTheorems, TLAPS

(* The part of an attempt in which a driver holds a connection.            *)
Connecting == {"bootstrapping", "handing_over", "swapping"}

(* What the drivers hold: the flag, Session.mu, a connection, and another  *)
(* attempt they may still make.                                            *)
Control ==
    /\ OneReconnectAtATime
    /\ \A d \in Drivers : mu = d <=> driver[d] = "swapping"
    /\ \A d \in Drivers : fresh[d] # None <=> driver[d] \in Connecting
    /\ \A d \in Drivers : driver[d] \in {"attempting"} \cup Connecting => attempts[d] < MaxAttempts

(* The session gives up its connection at the very end of Close only.      *)
Sockets == NoConnectionLeaks /\ (transport \in open \/ closing = "done")

(* Close has begun exactly when the state says so, and no hand-over holds  *)
(* Session.mu in a closed session.                                         *)
Closing == /\ state = "closed" <=> closing # "no"
           /\ mu # None => state # "closed"

IInv == TypeOK /\ Control /\ Sockets /\ Closing /\ WaitersAreTold

-----------------------------------------------------------------------------
(* The session starts with one connection and nobody at work.              *)
LEMMA InitInv == Init => IInv
<1> SUFFICES ASSUME Init PROVE IInv
  OBVIOUS
<1>1. TypeOK
  <2>1. /\ state \in States /\ transport \in Connections /\ saved \in SavedStates
        /\ mu \in Drivers \cup {None} /\ open \subseteq Connections /\ lost \subseteq open
    BY DEF Init, States, SavedStates
  <2>2. /\ driver \in [Drivers -> DriverStates] /\ fresh \in [Drivers -> Connections \cup {None}]
        /\ chat \in [Chats -> ChatStates]
    BY DEF Init, DriverStates, ChatStates
  <2>3. attempts \in [Drivers -> 0..MaxAttempts]
    <3>1. 0 \in 0..MaxAttempts
      BY ConstantsAssumption
    <3> QED BY <3>1 DEF Init
  <2>4. /\ reconnecting \in BOOLEAN /\ monitor \in MonitorStates
        /\ heartbeat \in HeartbeatStates /\ closing \in {"no", "stopping", "done"}
    BY DEF Init, MonitorStates, HeartbeatStates
  <2> QED BY <2>1, <2>2, <2>3, <2>4 DEF TypeOK
<1>2. Control
  BY ConstantsAssumption DEF Init, Control, OneReconnectAtATime, Attempting, Connecting
<1>3. Sockets /\ Closing /\ WaitersAreTold
  BY DEF Init, Sockets, NoConnectionLeaks, Closing, WaitersAreTold
<1> QED BY <1>1, <1>2, <1>3 DEF IInv

(* A change of state leaves no chat waiting, and an entry of the same state*)
(* leaves the chats as they are.                                           *)
LEMMA ToldChats ==
    ASSUME TypeOK, WaitersAreTold, NEW s \in States
    PROVE  /\ Told(s) \in [Chats -> ChatStates]
           /\ \A c \in Chats : Told(s)[c] = "waiting" => s = "reconnecting"
BY DEF TypeOK, WaitersAreTold, Told, ChatStates

(* A step that changes no connection, no flag and no lock, and moves       *)
(* drivers only outside of an attempt, keeps the invariant.                *)
LEMMA QuietInv ==
    ASSUME IInv, TypeOK',
           UNCHANGED <<transport, mu, open, attempts, fresh, reconnecting, closing>>,
           \A d \in Drivers : \/ driver'[d] = driver[d]
                              \/ driver[d] \notin Attempting /\ driver'[d] \notin Attempting,
           state' = "closed" <=> state = "closed",
           \A c \in Chats : chat'[c] = "waiting" => state' = "reconnecting"
    PROVE  IInv'
<1>1. Control'
  BY DEF IInv, Control, OneReconnectAtATime, Attempting, Connecting
<1>2. Sockets' /\ Closing' /\ WaitersAreTold'
  BY DEF IInv, Sockets, NoConnectionLeaks, Closing, WaitersAreTold
<1> QED BY <1>1, <1>2 DEF IInv

-----------------------------------------------------------------------------
(* Logging in, choosing a character and entering the game.                 *)
LEMMA StartInv ==
    ASSUME IInv, StartSession
    PROVE  IInv'
<1>1. PICK s \in States \ {"closed"} : Enter(s)
  BY DEF StartSession, Login, SelectCharacter, EnterGame, States
<1>2. /\ UNCHANGED <<transport, mu, open, lost, driver, attempts, fresh, reconnecting, closing>>
      /\ state # "closed" /\ saved' \in SavedStates
      /\ monitor' \in MonitorStates /\ heartbeat' \in HeartbeatStates
  BY DEF StartSession, Login, SelectCharacter, EnterGame, network, drivers, workers, IInv, TypeOK,
     SavedStates, Started, MonitorStates, HeartbeatStates
<1>3. /\ chat' \in [Chats -> ChatStates]
      /\ \A c \in Chats : chat'[c] = "waiting" => s = "reconnecting"
  BY <1>1, ToldChats DEF IInv, Enter
<1>4. TypeOK'
  BY <1>1, <1>2, <1>3 DEF IInv, TypeOK, Enter
<1> QED BY <1>1, <1>2, <1>3, <1>4, QuietInv DEF Enter

(* A connection that is lost is still open here.                           *)
LEMMA LoseInv ==
    ASSUME IInv, NEW n \in Connections, LoseConnection(n)
    PROVE  IInv'
<1>1. TypeOK'
  BY DEF IInv, TypeOK, LoseConnection, drivers, workers
<1> QED BY <1>1, QuietInv DEF LoseConnection, drivers, workers, IInv, WaitersAreTold

(* A report of bad news starts the loop unless it runs.                    *)
LEMMA RecoverInv ==
    ASSUME IInv, NEW m \in MonitorStates, Recover(m), state # "closed",
           chat' \in [Chats -> ChatStates], heartbeat' \in HeartbeatStates
    PROVE  IInv'
<1>1. /\ UNCHANGED <<transport, mu, open, lost, saved, attempts, fresh, reconnecting, closing>>
      /\ state' = "reconnecting" /\ monitor' = m /\ driver' = StartAutomatic
  BY DEF Recover, network
<1>2. /\ driver' \in [Drivers -> DriverStates]
      /\ \A d \in Drivers : \/ driver'[d] = driver[d]
                            \/ driver[d] \notin Attempting /\ driver'[d] \notin Attempting
  BY <1>1 DEF StartAutomatic, IInv, TypeOK, DriverStates, Attempting, Drivers
<1>3. TypeOK'
  BY <1>1, <1>2 DEF IInv, TypeOK, States
<1> QED BY <1>1, <1>2, <1>3, QuietInv

(* The workers touch nothing but themselves, unless they report.           *)
LEMMA WorkersInv ==
    ASSUME IInv, Monitor \/ Heartbeat
    PROVE  IInv'
<1>1. CASE MonitorReports /\ state # "closed"
  <2>1. Recover("idle") /\ chat' = Told("reconnecting") /\ heartbeat' = heartbeat
    BY <1>1 DEF MonitorReports
  <2>2. chat' \in [Chats -> ChatStates]
    BY <2>1, ToldChats DEF IInv, States
  <2> QED BY <1>1, <2>1, <2>2, RecoverInv DEF IInv, TypeOK, MonitorStates
<1>2. CASE HeartbeatReports /\ state # "closed"
  <2>1. Recover(ReadCancelled) /\ chat' = Told("reconnecting") /\ heartbeat' = "idle"
    BY <1>2 DEF HeartbeatReports
  <2>2. chat' \in [Chats -> ChatStates]
    BY <2>1, ToldChats DEF IInv, States
  <2>3. ReadCancelled \in MonitorStates
    BY DEF IInv, TypeOK, ReadCancelled, MonitorStates
  <2> QED BY <1>2, <2>1, <2>2, <2>3, RecoverInv DEF HeartbeatStates
<1>3. CASE ~(MonitorReports /\ state # "closed") /\ ~(HeartbeatReports /\ state # "closed")
  <2>1. /\ UNCHANGED <<state, transport, mu, saved, open, lost, driver, attempts, fresh,
                       reconnecting, chat, closing>>
        /\ monitor' \in MonitorStates /\ heartbeat' \in HeartbeatStates
    BY <1>3 DEF Monitor, Heartbeat, MonitorListens, MonitorStops, MonitorReceives, MonitorReports,
       MonitorStep, HeartbeatSends, HeartbeatStops, HeartbeatReports, ReadCancelled,
       network, drivers, IInv, TypeOK, MonitorStates, HeartbeatStates
  <2>2. TypeOK'
    BY <2>1 DEF IInv, TypeOK
  <2> QED BY <2>1, <2>2, QuietInv DEF IInv, WaitersAreTold
<1> QED BY <1>1, <1>2, <1>3

(* A chat waits only after it has seen the session reconnecting.           *)
LEMMA ChatInv ==
    ASSUME IInv, NEW c \in Chats, Chat(c)
    PROVE  IInv'
<1>1. CASE ChatFails(c)
  <2>1. /\ Recover(ReadCancelled) /\ chat' = [Told("reconnecting") EXCEPT ![c] = "idle"]
        /\ heartbeat' = heartbeat /\ state # "closed"
    BY <1>1 DEF ChatFails
  <2>2. chat' \in [Chats -> ChatStates]
    BY <2>1, ToldChats DEF IInv, States, ChatStates
  <2>3. ReadCancelled \in MonitorStates
    BY DEF IInv, TypeOK, ReadCancelled, MonitorStates
  <2> QED BY <2>1, <2>2, <2>3, RecoverInv DEF IInv, TypeOK
<1>2. CASE ~ChatFails(c)
  <2>1. /\ UNCHANGED <<state, transport, mu, saved, open, lost, driver, attempts, fresh,
                       reconnecting, heartbeat, closing>>
        /\ monitor' \in MonitorStates
    BY <1>2 DEF Chat, ChatArrives, ChatLooks, ChatGivesUp, ChatRefused, ChatSent, ChatStep,
       ReadCancelled, network, drivers, workers, IInv, TypeOK, MonitorStates
  <2>2. PICK to \in ChatStates : /\ chat' = [chat EXCEPT ![c] = to]
                                 /\ to = "waiting" => state = "reconnecting"
    BY <1>2 DEF Chat, ChatArrives, ChatLooks, ChatGivesUp, ChatRefused, ChatSent, ChatStep, ChatStates
  <2>3. TypeOK'
    BY <2>1, <2>2 DEF IInv, TypeOK
  <2>4. \A e \in Chats : chat'[e] = "waiting" => state' = "reconnecting"
    BY <2>1, <2>2 DEF IInv, TypeOK, WaitersAreTold
  <2> QED BY <2>1, <2>3, <2>4, QuietInv
<1> QED BY <1>1, <1>2

(* Who asks for a reconnect starts a driver, outside of an attempt.        *)
LEMMA RequestInv ==
    ASSUME IInv, RequestReconnect \/ \E d \in Drivers : Reconnect(d)
    PROVE  IInv'
<1>1. /\ UNCHANGED <<transport, mu, saved, open, lost, attempts, fresh, reconnecting, monitor,
                     heartbeat, closing>>
      /\ state # "closed" /\ Enter("reconnecting")
  BY DEF RequestReconnect, Reconnect, network, workers
<1>2. /\ driver' \in [Drivers -> DriverStates]
      /\ \A d \in Drivers : \/ driver'[d] = driver[d]
                            \/ driver[d] \notin Attempting /\ driver'[d] \notin Attempting
  BY DEF RequestReconnect, Reconnect, StartAutomatic, IInv, TypeOK, DriverStates, Attempting, Drivers
<1>3. chat' \in [Chats -> ChatStates]
  BY <1>1, ToldChats DEF IInv, Enter, States
<1>4. TypeOK'
  BY <1>1, <1>2, <1>3 DEF IInv, TypeOK, States, Enter
<1> QED BY <1>1, <1>2, <1>4, QuietInv DEF Enter

-----------------------------------------------------------------------------
(* The steps of a driver that are outside of an attempt.                   *)
Outside(d) == Check(d) \/ Busy(d) \/ Recheck(d) \/ RetryDelay(d) \/ MarkFailed(d) \/ Leave(d)

(* They move the driver only, and may mark an open session as failed.      *)
LEMMA OutsideInv ==
    ASSUME IInv, NEW d \in Drivers, Outside(d)
    PROVE  IInv'
<1>1. /\ UNCHANGED <<transport, mu, saved, open, lost, attempts, fresh, reconnecting, monitor,
                     heartbeat, closing>>
      /\ \/ UNCHANGED <<state, chat>>
         \/ state # "closed" /\ Enter("failed")
  BY DEF Outside, Check, Busy, Recheck, RetryDelay, MarkFailed, Leave, DriverStep, network, workers,
     StillOpen
<1>2. PICK to \in DriverStates \ Attempting : /\ driver' = [driver EXCEPT ![d] = to]
                                              /\ driver[d] \notin Attempting
  BY DEF Outside, Check, Busy, Recheck, RetryDelay, MarkFailed, Leave, DriverStep, DriverStates,
     Attempting
<1>3. /\ driver' \in [Drivers -> DriverStates]
      /\ \A e \in Drivers : \/ driver'[e] = driver[e]
                            \/ driver[e] \notin Attempting /\ driver'[e] \notin Attempting
  BY <1>2 DEF IInv, TypeOK
<1>4. /\ chat' \in [Chats -> ChatStates] /\ state' \in States
      /\ \A c \in Chats : chat'[c] = "waiting" => state' = "reconnecting"
  <2>1. CASE UNCHANGED <<state, chat>>
    BY <2>1 DEF IInv, TypeOK, WaitersAreTold
  <2>2. CASE Enter("failed")
    BY <2>2, ToldChats DEF IInv, Enter, States
  <2> QED BY <1>1, <2>1, <2>2
<1>5. TypeOK'
  BY <1>1, <1>3, <1>4 DEF IInv, TypeOK
<1> QED BY <1>1, <1>3, <1>4, <1>5, QuietInv DEF Enter

(* While a driver stays in its attempt, it is the only one in any.         *)
LEMMA AttemptGoesOn ==
    ASSUME IInv, NEW d \in Drivers, driver[d] \in Attempting, NEW to \in Attempting,
           driver' = [driver EXCEPT ![d] = to], UNCHANGED reconnecting
    PROVE  /\ OneReconnectAtATime'
           /\ driver' \in [Drivers -> DriverStates]
           /\ \A e \in Drivers \ {d} : /\ driver'[e] = driver[e] /\ driver[e] \notin Attempting
                                       /\ fresh[e] = None /\ mu # e
BY DEF IInv, Control, TypeOK, OneReconnectAtATime, Attempting, Connecting, DriverStates

(* The flag is down only when nobody makes an attempt.                     *)
LEMMA BeginInv ==
    ASSUME IInv, NEW d \in Drivers, Begin(d)
    PROVE  IInv'
<1>1. /\ UNCHANGED <<state, transport, mu, saved, open, lost, fresh, monitor, heartbeat, chat, closing>>
      /\ driver[d] = "trying" /\ driver' = [driver EXCEPT ![d] = "attempting"]
      /\ ~reconnecting /\ reconnecting' = TRUE /\ attempts' = [attempts EXCEPT ![d] = 0]
  BY DEF Begin, FlagDown, DriverStep, network, workers
<1>2. \A e \in Drivers : driver[e] \notin Attempting
  BY <1>1 DEF IInv, Control, OneReconnectAtATime
<1>3. /\ driver'[d] = "attempting" /\ driver' \in [Drivers -> DriverStates]
      /\ \A e \in Drivers \ {d} : driver'[e] = driver[e]
  BY <1>1 DEF IInv, TypeOK, DriverStates
<1>4. 0 \in 0..MaxAttempts /\ 0 < MaxAttempts
  BY ConstantsAssumption
<1>5. /\ attempts' \in [Drivers -> 0..MaxAttempts] /\ attempts'[d] = 0
      /\ \A e \in Drivers \ {d} : attempts'[e] = attempts[e]
  BY <1>1, <1>4 DEF IInv, TypeOK
<1>6. TypeOK'
  BY <1>1, <1>3, <1>5 DEF IInv, TypeOK
<1>7. OneReconnectAtATime'
  BY <1>1, <1>2, <1>3 DEF OneReconnectAtATime, Attempting
<1>8. Control'
  BY <1>1, <1>3, <1>4, <1>5, <1>7 DEF IInv, Control, Connecting
<1> QED BY <1>1, <1>6, <1>8 DEF IInv, Sockets, NoConnectionLeaks, Closing, WaitersAreTold

(* The bootstrap succeeds, or the attempt stops before it.                 *)
LEMMA WithinInv ==
    ASSUME IInv, NEW d \in Drivers, Abort(d) \/ Bootstrapped(d)
    PROVE  IInv'
<1>1. /\ UNCHANGED <<state, transport, mu, saved, open, lost, attempts, fresh, reconnecting, monitor,
                     heartbeat, chat, closing>>
      /\ \/ driver[d] = "attempting" /\ driver' = [driver EXCEPT ![d] = "aborted"]
         \/ driver[d] = "bootstrapping" /\ driver' = [driver EXCEPT ![d] = "handing_over"]
  BY DEF Abort, Bootstrapped, DriverStep, network, workers
<1>2. PICK to \in Attempting : driver' = [driver EXCEPT ![d] = to]
  BY <1>1 DEF Attempting
<1>3. driver[d] \in Attempting
  BY <1>1 DEF Attempting
<1>4. /\ OneReconnectAtATime' /\ driver' \in [Drivers -> DriverStates]
      /\ \A e \in Drivers \ {d} : driver'[e] = driver[e]
  BY <1>1, <1>2, <1>3, AttemptGoesOn
<1>5. TypeOK'
  BY <1>1, <1>4 DEF IInv, TypeOK
<1>6. Control'
  BY <1>1, <1>4 DEF IInv, TypeOK, Control, Connecting
<1> QED BY <1>1, <1>5, <1>6 DEF IInv, Sockets, NoConnectionLeaks, Closing, WaitersAreTold

(* A new connection is neither the session's nor anybody's.                *)
LEMMA DialInv ==
    ASSUME IInv, NEW d \in Drivers, Dial(d)
    PROVE  IInv'
<1>1. PICK n \in Connections \ (open \cup {transport}) :
          fresh' = [fresh EXCEPT ![d] = n] /\ open' = open \cup {n}
  BY DEF Dial
<1>2. /\ UNCHANGED <<state, transport, mu, saved, lost, attempts, reconnecting, monitor,
                     heartbeat, chat, closing>>
      /\ driver[d] = "attempting" /\ driver' = [driver EXCEPT ![d] = "bootstrapping"]
  BY DEF Dial, DriverStep, workers
<1>3. /\ OneReconnectAtATime' /\ driver' \in [Drivers -> DriverStates]
      /\ \A e \in Drivers \ {d} : driver'[e] = driver[e]
  BY <1>2, AttemptGoesOn DEF Attempting
<1>4. /\ fresh' \in [Drivers -> Connections \cup {None}] /\ fresh'[d] = n /\ n # None
      /\ \A e \in Drivers \ {d} : fresh'[e] = fresh[e]
  BY <1>1, ConstantsAssumption DEF IInv, TypeOK
<1>5. TypeOK'
  BY <1>1, <1>2, <1>3, <1>4 DEF IInv, TypeOK
<1>6. Control'
  BY <1>2, <1>3, <1>4 DEF IInv, TypeOK, Control, Connecting
<1>7. Sockets'
  <2>1. fresh[d] = None
    BY <1>2 DEF IInv, Control, Connecting
  <2> QED BY <1>1, <1>2, <1>4, <2>1, ConstantsAssumption DEF IInv, TypeOK, Sockets, NoConnectionLeaks
<1> QED BY <1>2, <1>5, <1>6, <1>7 DEF IInv, Closing, WaitersAreTold

(* A failed attempt gives up exactly the connection it made, if any.       *)
LEMMA FailInv ==
    ASSUME IInv, NEW d \in Drivers, DialFails(d) \/ BootstrapFails(d) \/ SessionIsClosed(d)
    PROVE  IInv'
<1>1. PICK from \in {"attempting", "bootstrapping", "handing_over"},
           cs \in {{}, {fresh[d]}} : /\ AttemptFails(d, from, cs)
                                     /\ from = "attempting" <=> cs = {}
  BY DEF DialFails, BootstrapFails, SessionIsClosed
<1>2. /\ UNCHANGED <<state, transport, mu, saved, reconnecting, monitor, heartbeat, chat, closing>>
      /\ open' = open \ cs /\ lost' = lost \ cs
      /\ driver[d] = from
      /\ attempts' = [attempts EXCEPT ![d] = @ + 1] /\ fresh' = [fresh EXCEPT ![d] = None]
  BY <1>1 DEF AttemptFails, DriverStep, Discard, CloseConnections, workers
<1>3. PICK to \in {"attempting", "exhausted"} : /\ driver' = [driver EXCEPT ![d] = to]
                                                /\ to = "attempting" => attempts[d] + 1 # MaxAttempts
  BY <1>1 DEF AttemptFails, DriverStep, LastAttempt
<1>4. /\ OneReconnectAtATime' /\ driver' \in [Drivers -> DriverStates]
      /\ \A e \in Drivers \ {d} : driver'[e] = driver[e]
  BY <1>2, <1>3, AttemptGoesOn DEF Attempting
<1>5. attempts[d] < MaxAttempts /\ attempts[d] \in Nat /\ MaxAttempts \in Nat
  BY <1>2, ConstantsAssumption DEF IInv, TypeOK, Control, Connecting
<1>6. /\ attempts' \in [Drivers -> 0..MaxAttempts] /\ attempts'[d] = attempts[d] + 1
      /\ \A e \in Drivers \ {d} : attempts'[e] = attempts[e]
  BY <1>2, <1>5 DEF IInv, TypeOK
<1>7. /\ fresh' \in [Drivers -> Connections \cup {None}] /\ fresh'[d] = None
      /\ \A e \in Drivers \ {d} : fresh'[e] = fresh[e]
  BY <1>2 DEF IInv, TypeOK
<1>8. TypeOK'
  BY <1>2, <1>4, <1>6, <1>7 DEF IInv, TypeOK
<1>9. Control'
  <2>1. driver'[d] = "attempting" => attempts'[d] < MaxAttempts
    BY <1>2, <1>3, <1>5, <1>6 DEF IInv, TypeOK
  <2>2. driver'[d] \in {"attempting", "exhausted"} /\ driver[d] # "swapping"
    BY <1>2, <1>3 DEF IInv, TypeOK
  <2> QED BY <1>2, <1>4, <1>6, <1>7, <2>1, <2>2 DEF IInv, Control, Connecting
<1>10. Sockets'
  <2>1. \A e \in Drivers \ {d} : fresh[e] = None
    BY <1>2, <1>3, AttemptGoesOn DEF Attempting
  <2>2. CASE fresh[d] = None
    BY <1>1, <1>2, <1>7, <2>1, <2>2, ConstantsAssumption
       DEF IInv, TypeOK, Sockets, NoConnectionLeaks, Control, Connecting
  <2>3. CASE fresh[d] # None
    <3>1. cs = {fresh[d]}
      BY <1>1, <1>2, <2>3 DEF IInv, Control, Connecting
    <3> QED BY <1>2, <1>7, <2>1, <2>3, <3>1 DEF IInv, Sockets, NoConnectionLeaks
  <2> QED BY <2>2, <2>3
<1> QED BY <1>2, <1>8, <1>9, <1>10 DEF IInv, Closing, WaitersAreTold

(* Session.mu is taken when it is free, in a session that is not closed.   *)
LEMMA TakeInv ==
    ASSUME IInv, NEW d \in Drivers, TakeSession(d)
    PROVE  IInv'
<1>1. /\ UNCHANGED <<state, transport, saved, open, lost, attempts, fresh, reconnecting, monitor,
                     heartbeat, chat, closing>>
      /\ driver[d] = "handing_over" /\ driver' = [driver EXCEPT ![d] = "swapping"]
      /\ mu = None /\ mu' = d /\ state # "closed"
  BY DEF TakeSession, Unlocked, network, workers
<1>2. /\ OneReconnectAtATime' /\ driver' \in [Drivers -> DriverStates]
      /\ \A e \in Drivers \ {d} : driver'[e] = driver[e] /\ driver[e] \notin Attempting
  BY <1>1, AttemptGoesOn DEF Attempting
<1>3. TypeOK'
  BY <1>1, <1>2 DEF IInv, TypeOK
<1>4. Control'
  BY <1>1, <1>2 DEF IInv, TypeOK, Control, Connecting, Attempting
<1> QED BY <1>1, <1>3, <1>4 DEF IInv, Sockets, NoConnectionLeaks, Closing, WaitersAreTold

(* The hand-over puts the new connection where it closes the old one.      *)
LEMMA ReplaceInv ==
    ASSUME IInv, NEW d \in Drivers, ReplaceTransport(d)
    PROVE  IInv'
<1>1. /\ UNCHANGED <<saved, attempts, reconnecting, closing>>
      /\ driver[d] = "swapping" /\ driver' = [driver EXCEPT ![d] = "succeeded"]
      /\ mu' = None /\ transport' = fresh[d] /\ fresh' = [fresh EXCEPT ![d] = None]
      /\ Enter("ready") /\ open' = open \ {transport} /\ lost' = lost \ {transport}
      /\ monitor' = Started(monitor) /\ heartbeat' = Started(heartbeat)
  BY DEF ReplaceTransport, CloseConnections, Replaced
<1>2. mu = d /\ mu # None /\ fresh[d] # None /\ state # "closed" /\ closing = "no"
  BY <1>1, ConstantsAssumption DEF IInv, Control, Connecting, Closing, TypeOK
<1>3. /\ OneReconnectAtATime' /\ driver' \in [Drivers -> DriverStates] /\ driver'[d] = "succeeded"
      /\ \A e \in Drivers \ {d} : /\ driver'[e] = driver[e] /\ driver[e] \notin Attempting
                                  /\ fresh[e] = None
  BY <1>1, AttemptGoesOn DEF Attempting, IInv, TypeOK
<1>4. /\ fresh' \in [Drivers -> Connections \cup {None}]
      /\ \A e \in Drivers : fresh'[e] = None
  BY <1>1, <1>3 DEF IInv, TypeOK
<1>5. fresh[d] \in Connections /\ fresh[d] \in open /\ fresh[d] # transport
  BY <1>2 DEF IInv, TypeOK, Sockets, NoConnectionLeaks
<1>6. /\ chat' \in [Chats -> ChatStates] /\ state' = "ready"
      /\ \A c \in Chats : chat'[c] # "waiting"
  BY <1>1, ToldChats DEF IInv, Enter, States
<1>7. TypeOK'
  BY <1>1, <1>3, <1>4, <1>5, <1>6 DEF IInv, TypeOK, States, Started, MonitorStates, HeartbeatStates
<1>8. Control'
  BY <1>1, <1>3, <1>4, ConstantsAssumption DEF IInv, Control, Connecting, Attempting
<1>9. Sockets'
  BY <1>1, <1>2, <1>3, <1>4, <1>5 DEF IInv, Sockets, NoConnectionLeaks
<1>10. Closing' /\ WaitersAreTold'
  BY <1>1, <1>2, <1>6 DEF IInv, Closing, WaitersAreTold
<1> QED BY <1>7, <1>8, <1>9, <1>10 DEF IInv

(* TryReconnect lowers the flag as its attempt ends.                       *)
LEMMA ReturnInv ==
    ASSUME IInv, NEW d \in Drivers, NEW result, Return(d, result)
    PROVE  IInv'
<1>1. /\ UNCHANGED <<state, transport, mu, saved, open, lost, attempts, fresh, monitor, heartbeat,
                     chat, closing>>
      /\ driver[d] \in {"succeeded", "aborted", "exhausted"} /\ reconnecting' = FALSE
  BY DEF Return, DriverStep, network, workers
<1>2. PICK to \in {"off", "failing", "retrying", "leaving"} : driver' = [driver EXCEPT ![d] = to]
  <2>1. After(d, result) \in {"off", "failing", "retrying", "leaving"}
    <3>1. CASE d # Automatic
      BY <3>1 DEF After
    <3>2. CASE d = Automatic /\ result = "exhausted"
      BY <3>2 DEF After
    <3>3. CASE d = Automatic /\ result # "exhausted"
      BY <3>3 DEF After
    <3> QED BY <3>1, <3>2, <3>3
  <2> QED BY <2>1 DEF Return, DriverStep
<1>3. /\ driver' \in [Drivers -> DriverStates] /\ driver'[d] = to
      /\ \A e \in Drivers \ {d} : driver'[e] = driver[e]
  BY <1>2 DEF IInv, TypeOK, DriverStates
<1>4. \A e \in Drivers \ {d} : driver[e] \notin Attempting
  BY <1>1 DEF IInv, Control, OneReconnectAtATime, Attempting
<1>5. TypeOK'
  BY <1>1, <1>3 DEF IInv, TypeOK
<1>6. OneReconnectAtATime'
  BY <1>1, <1>3, <1>4 DEF OneReconnectAtATime, Attempting
<1>7. Control'
  BY <1>1, <1>3, <1>6 DEF IInv, Control, Connecting
<1> QED BY <1>1, <1>5, <1>7 DEF IInv, Sockets, NoConnectionLeaks, Closing, WaitersAreTold

-----------------------------------------------------------------------------
(* Close marks the session first and gives up its connection last.         *)
LEMMA CloseInv ==
    ASSUME IInv, Close \/ CloseTransport
    PROVE  IInv'
<1>1. CASE Close
  <2>1. /\ UNCHANGED <<transport, mu, saved, open, lost, driver, attempts, fresh, reconnecting,
                       monitor, heartbeat>>
        /\ mu = None /\ state # "closed" /\ Enter("closed") /\ closing' = "stopping"
    BY <1>1 DEF Close, Unlocked, network, drivers, workers
  <2>2. /\ chat' \in [Chats -> ChatStates] /\ state' = "closed"
        /\ \A c \in Chats : chat'[c] # "waiting"
    BY <2>1, ToldChats DEF IInv, Enter, States
  <2>3. TypeOK'
    BY <2>1, <2>2 DEF IInv, TypeOK, States
  <2>4. Control'
    BY <2>1 DEF IInv, Control, OneReconnectAtATime
  <2>5. Sockets'
    BY <2>1 DEF IInv, Sockets, NoConnectionLeaks, Closing
  <2> QED BY <2>1, <2>2, <2>3, <2>4, <2>5 DEF IInv, Closing, WaitersAreTold
<1>2. CASE CloseTransport
  <2>1. /\ UNCHANGED <<state, transport, mu, saved, driver, attempts, fresh, reconnecting,
                       heartbeat, chat>>
        /\ closing = "stopping" /\ closing' = "done"
        /\ open' = open \ {transport} /\ lost' = lost \ {transport}
        /\ monitor' \in MonitorStates
    BY <1>2 DEF CloseTransport, CloseConnections, drivers, IInv, TypeOK, MonitorStates
  <2>2. TypeOK'
    BY <2>1 DEF IInv, TypeOK
  <2>3. Control'
    BY <2>1 DEF IInv, Control, OneReconnectAtATime
  <2>4. Sockets'
    BY <2>1 DEF IInv, Sockets, NoConnectionLeaks
  <2> QED BY <2>1, <2>2, <2>3, <2>4 DEF IInv, Closing, WaitersAreTold
<1> QED BY <1>1, <1>2

-----------------------------------------------------------------------------
(* Every step keeps the invariant.                                         *)
LEMMA NextInv == IInv /\ [Next]_vars => IInv'
<1> SUFFICES ASSUME IInv, [Next]_vars PROVE IInv'
  OBVIOUS
<1>1. CASE StartSession
  BY <1>1, StartInv
<1>2. CASE Monitor \/ Heartbeat
  BY <1>2, WorkersInv
<1>3. CASE \E c \in Connections : LoseConnection(c)
  BY <1>3, LoseInv
<1>4. CASE \E c \in Chats : Chat(c)
  BY <1>4, ChatInv
<1>5. CASE RequestReconnect \/ \E d \in Drivers : Reconnect(d)
  BY <1>5, RequestInv
<1>6. ASSUME NEW d \in Drivers, Drive(d) PROVE IInv'
  <2>1. CASE Outside(d)
    BY <2>1, OutsideInv
  <2>2. CASE Begin(d)
    BY <2>2, BeginInv
  <2>3. CASE Abort(d) \/ Bootstrapped(d)
    BY <2>3, WithinInv
  <2>4. CASE Dial(d)
    BY <2>4, DialInv
  <2>5. CASE DialFails(d) \/ BootstrapFails(d) \/ SessionIsClosed(d)
    BY <2>5, FailInv
  <2>6. CASE TakeSession(d)
    BY <2>6, TakeInv
  <2>7. CASE ReplaceTransport(d)
    BY <2>7, ReplaceInv
  <2>8. CASE \E result \in {"succeeded", "aborted", "exhausted"} : Return(d, result)
    BY <2>8, ReturnInv
  <2> QED BY <1>6, <2>1, <2>2, <2>3, <2>4, <2>5, <2>6, <2>7, <2>8 DEF Drive, Outside
<1>7. CASE Close \/ CloseTransport
  BY <1>7, CloseInv
<1>8. CASE UNCHANGED vars
  BY <1>8 DEF vars, network, drivers, workers, IInv, TypeOK, Control, OneReconnectAtATime, Sockets,
     NoConnectionLeaks, Closing, WaitersAreTold
<1> QED BY <1>1, <1>2, <1>3, <1>4, <1>5, <1>6, <1>7, <1>8 DEF Next

LEMMA Invariance == Spec => []IInv
BY InitInv, NextInv, PTL DEF Spec

-----------------------------------------------------------------------------
(* A session, its drivers, workers and chats are always in a state of      *)
(* their kind, and attempts stay within ReconnectConfig.MaxAttempts.       *)
THEOREM SessionTyped == Spec => []TypeOK
<1>1. IInv => TypeOK
  BY DEF IInv
<1> QED BY <1>1, Invariance, PTL

(* The flag of the reconnector lets one driver at a time log the account   *)
(* in, and is up exactly while one does.                                   *)
THEOREM OneLoginAtATime == Spec => []OneReconnectAtATime
<1>1. IInv => OneReconnectAtATime
  BY DEF IInv, Control
<1> QED BY <1>1, Invariance, PTL

(* Whatever fails in whatever order, this process holds open only the      *)
(* session's connection and that of an attempt under way, and a closed     *)
(* session gives up its own.                                               *)
THEOREM NothingLeaks == Spec => []NoConnectionLeaks
<1>1. IInv => NoConnectionLeaks
  BY DEF IInv, Sockets
<1> QED BY <1>1, Invariance, PTL

(* A session that is not closed, so also one that is ready, writes to a    *)
(* connection that this process has not closed.                            *)
THEOREM OpenSessionsAreConnected == Spec => []ReadyIsConnected
<1>1. IInv => ReadyIsConnected
  BY DEF IInv, Sockets, Closing, ReadyIsConnected
<1> QED BY <1>1, Invariance, PTL

(* No change of state passes by a chat that waits for it: SendChat takes   *)
(* the channel and the state in one locked section.                        *)
THEOREM WaitersHear == Spec => []WaitersAreTold
<1>1. IInv => WaitersAreTold
  BY DEF IInv
<1> QED BY <1>1, Invariance, PTL

(* A step of a closed session leaves it closed: each writer of the state   *)
(* looks at it under Session.mu, and the hand-over, which looked before it *)
(* waited, holds mu until it has written.                                  *)
LEMMA ClosedStep == IInv /\ [Next]_vars /\ state = "closed" => state' = "closed"
<1> SUFFICES ASSUME IInv, [Next]_vars, state = "closed" PROVE state' = "closed"
  OBVIOUS
<1>1. ASSUME StartSession \/ Monitor \/ Heartbeat PROVE state' = "closed"
  BY <1>1 DEF StartSession, Login, SelectCharacter, EnterGame, Monitor, MonitorListens, MonitorStops,
     MonitorReceives, MonitorReports, MonitorStep, Heartbeat, HeartbeatSends, HeartbeatStops,
     HeartbeatReports
<1>2. ASSUME NEW c \in Chats, Chat(c) PROVE state' = "closed"
  BY <1>2 DEF Chat, ChatArrives, ChatLooks, ChatGivesUp, ChatRefused, ChatSent, ChatFails, ChatStep
<1>3. ASSUME NEW d \in Drivers, Drive(d) PROVE state' = "closed"
  <2>1. ~ReplaceTransport(d)
    BY ConstantsAssumption DEF ReplaceTransport, IInv, Control, Closing
  <2> QED BY <1>3, <2>1 DEF Drive, Check, Busy, Begin, Abort, Dial, DialFails, Bootstrapped,
     BootstrapFails, SessionIsClosed, TakeSession, Recheck, RetryDelay, MarkFailed, Leave, Return,
     AttemptFails, DriverStep, StillOpen
<1>4. CASE Close \/ CloseTransport \/ RequestReconnect \/ \E d \in Drivers : Reconnect(d)
  BY <1>4 DEF Close, CloseTransport, RequestReconnect, Reconnect
<1>5. CASE \E c \in Connections : LoseConnection(c)
  BY <1>5 DEF LoseConnection
<1>6. CASE UNCHANGED vars
  BY <1>6 DEF vars
<1> QED BY <1>1, <1>2, <1>3, <1>4, <1>5, <1>6 DEF Next

(* Nothing brings a closed session back, an attempt that was logging in    *)
(* when it was closed included.                                            *)
THEOREM ClosedStaysClosed == Spec => ClosedIsFinal
<1>1. IInv /\ [Next]_vars => [state = "closed" => state' = "closed"]_vars
  BY ClosedStep
<1> QED BY <1>1, Invariance, PTL DEF Spec, ClosedIsFinal

(* One login at a time, no connection without an owner, a connection for   *)
(* every session that is not closed, and no chat left waiting for a change *)
(* that has passed.                                                        *)
THEOREM ConnectionsHold == Spec => []ConnectionsAreSound
<1>1. /\ OneReconnectAtATime /\ NoConnectionLeaks
      /\ ReadyIsConnected /\ WaitersAreTold
      => ConnectionsAreSound
  BY DEF ConnectionsAreSound
<1> QED BY <1>1, OneLoginAtATime, NothingLeaks, OpenSessionsAreConnected, WaitersHear, PTL

-----------------------------------------------------------------------------
(* A session implements ManagedSession.  The invariant knows that one login *)
(* is under way at most; what it does not know is that the start has come  *)
(* to an end when anybody makes one: nothing returns to it.                *)
StartIsOver == \A d \in Drivers : driver[d] # "off" => state \notin Starting

(* A step that leaves the session in its start finds it there, with nobody *)
(* at work.                                                                *)
LEMMA StartStaysOver == StartIsOver /\ [Next]_vars => StartIsOver'
<1> SUFFICES ASSUME StartIsOver, [Next]_vars, state' \in Starting
             PROVE  state \in Starting /\ UNCHANGED driver
  BY DEF StartIsOver
<1>1. CASE StartSession
  BY <1>1 DEF StartSession, Login, SelectCharacter, EnterGame, Starting, drivers
<1>2. CASE Monitor \/ Heartbeat
  BY <1>2 DEF Monitor, MonitorListens, MonitorStops, MonitorReceives, MonitorReports, MonitorStep,
     Heartbeat, HeartbeatSends, HeartbeatStops, HeartbeatReports, Recover, Starting, drivers
<1>3. CASE \E c \in Connections : LoseConnection(c)
  BY <1>3 DEF LoseConnection, drivers
<1>4. CASE \E c \in Chats : Chat(c)
  BY <1>4 DEF Chat, ChatArrives, ChatLooks, ChatGivesUp, ChatRefused, ChatSent, ChatFails, ChatStep,
     Recover, Starting, drivers
<1>5. CASE RequestReconnect \/ \E d \in Drivers : Reconnect(d)
  BY <1>5 DEF RequestReconnect, Reconnect, Enter, Starting
<1>6. ~ \E d \in Drivers : Drive(d)
  <2> SUFFICES ASSUME NEW d \in Drivers, Drive(d) PROVE FALSE
    OBVIOUS
  <2>1. driver[d] # "off"
    BY DEF Drive, Check, Busy, Begin, Abort, Dial, DialFails, Bootstrapped, BootstrapFails,
       SessionIsClosed, TakeSession, ReplaceTransport, Recheck, RetryDelay, MarkFailed, Leave, Return,
       AttemptFails, DriverStep
  <2>2. state' \in {state, "failed", "ready"}
    BY DEF Drive, Check, Busy, Begin, Abort, Dial, DialFails, Bootstrapped, BootstrapFails,
       SessionIsClosed, TakeSession, ReplaceTransport, Recheck, RetryDelay, MarkFailed, Leave, Return,
       AttemptFails, DriverStep, Enter
  <2> QED BY <2>1, <2>2 DEF StartIsOver, Starting
<1>7. CASE Close \/ CloseTransport
  BY <1>7 DEF Close, CloseTransport, Enter, Starting, drivers
<1>8. CASE UNCHANGED vars
  BY <1>8 DEF vars, drivers
<1> QED BY <1>1, <1>2, <1>3, <1>4, <1>5, <1>6, <1>7, <1>8 DEF Next

RefInv == IInv /\ StartIsOver

LEMMA RefInvariance == Spec => []RefInv
<1>1. Init => RefInv
  BY InitInv DEF RefInv, StartIsOver, Init
<1>2. RefInv /\ [Next]_vars => RefInv'
  BY NextInv, StartStaysOver DEF RefInv
<1> QED BY <1>1, <1>2, PTL DEF Spec

ManagedStep == Managed!Next \/ UNCHANGED Managed!managed

(* The phase, from the state.                                              *)
LEMMA PhaseIs ==
    /\ state \in Starting <=> Phase = "starting"
    /\ state = "ready" <=> Phase = "ready"
    /\ state = "closed" <=> Phase = "ended"
    /\ state \in {"reconnecting", "failed"} => Phase = "down"
    /\ Phase \in {"starting", "ready", "down", "ended"}
    /\ UNCHANGED state => UNCHANGED Phase
BY DEF Phase, Starting

LEMMA NextPhaseIs ==
    /\ state' \in Starting => Phase' = "starting"
    /\ state' = "ready" => Phase' = "ready"
    /\ state' = "closed" => Phase' = "ended"
    /\ state' \in {"reconnecting", "failed"} => Phase' = "down"
BY DEF Phase, Starting

(* The drivers that have brought an account into the game are the same,    *)
(* and so are their logins, when drivers move outside of that.             *)
LEMMA SameLogins ==
    ASSUME UNCHANGED fresh,
           \A d \in Drivers : \/ driver'[d] = driver[d]
                              \/ /\ driver[d] \notin {"handing_over", "swapping"}
                                 /\ driver'[d] \notin {"handing_over", "swapping"}
                              \/ /\ driver[d] \in {"handing_over", "swapping"}
                                 /\ driver'[d] \in {"handing_over", "swapping"}
    PROVE  UNCHANGED <<LoginsOf(Drivers), LoginsOf(InGame)>>
<1>1. InGame' = InGame
  BY DEF InGame
<1> QED BY <1>1 DEF LoginsOf

(* A step that keeps the connections and the logins is a step of the start,*)
(* the end of the session, a failure, or nothing that its holders see.     *)
LEMMA PhaseRefines ==
    ASSUME RefInv,
           UNCHANGED <<transport, open>>,
           UNCHANGED <<LoginsOf(Drivers), LoginsOf(InGame)>>,
           \/ UNCHANGED state
           \/ state \in Starting /\ state' \in Starting \cup {"ready"}
           \/ state # "closed" /\ state' \in {"reconnecting", "failed", "closed"}
    PROVE  ManagedStep
<1>1. CASE UNCHANGED Phase
  BY <1>1 DEF ManagedStep, Managed!managed
<1>2. CASE Phase = "starting" /\ Phase' = "ready"
  <2>1. Managed!Start
    BY <1>2 DEF Managed!Start
  <2> QED BY <2>1 DEF ManagedStep, Managed!Next
<1>3. CASE Phase \in {"starting", "ready"} /\ Phase' = "down"
  <2>1. Managed!GoDown
    BY <1>3 DEF Managed!GoDown
  <2> QED BY <2>1 DEF ManagedStep, Managed!Next
<1>4. CASE Phase # "ended" /\ Phase' = "ended"
  <2>1. Managed!End
    BY <1>4 DEF Managed!End
  <2> QED BY <2>1 DEF ManagedStep, Managed!Next
<1> QED BY <1>1, <1>2, <1>3, <1>4, PhaseIs, NextPhaseIs

(* While a driver is in its attempt, the login under way is its own.       *)
LEMMA OwnLogin ==
    ASSUME IInv, NEW d \in Drivers, driver[d] \in Attempting
    PROVE  /\ LoginsOf(Drivers) = {fresh[d]} \ {None}
           /\ driver[d] \in {"handing_over", "swapping"} => LoginsOf(InGame) = LoginsOf(Drivers)
           /\ driver[d] \notin {"handing_over", "swapping"} => LoginsOf(InGame) = {}
<1>1. \A e \in Drivers \ {d} : driver[e] \notin Attempting /\ fresh[e] = None
  BY DEF IInv, Control, OneReconnectAtATime, Attempting, Connecting
<1>2. LoginsOf(Drivers) = {fresh[d]} \ {None}
  BY <1>1 DEF LoginsOf
<1>3. CASE driver[d] \in {"handing_over", "swapping"}
  <2>1. InGame = {d}
    BY <1>1, <1>3 DEF InGame, Attempting
  <2> QED BY <1>2, <1>3, <2>1 DEF LoginsOf
<1>4. CASE driver[d] \notin {"handing_over", "swapping"}
  <2>1. InGame = {}
    BY <1>1, <1>4 DEF InGame, Attempting
  <2> QED BY <1>2, <1>4, <2>1 DEF LoginsOf
<1> QED BY <1>2, <1>3, <1>4

(* The same after a step.                                                  *)
LEMMA OwnLoginNext ==
    ASSUME IInv', NEW d \in Drivers, driver'[d] \in Attempting
    PROVE  /\ LoginsOf(Drivers)' = {fresh'[d]} \ {None}
           /\ driver'[d] \in {"handing_over", "swapping"} => LoginsOf(InGame)' = LoginsOf(Drivers)'
           /\ driver'[d] \notin {"handing_over", "swapping"} => LoginsOf(InGame)' = {}
<1>1. \A e \in Drivers \ {d} : driver'[e] \notin Attempting /\ fresh'[e] = None
  BY DEF IInv, Control, OneReconnectAtATime, Attempting, Connecting
<1>2. LoginsOf(Drivers)' = {fresh'[d]} \ {None}
  BY <1>1 DEF LoginsOf
<1>3. CASE driver'[d] \in {"handing_over", "swapping"}
  <2>1. InGame' = {d}
    BY <1>1, <1>3 DEF InGame, Attempting
  <2> QED BY <1>2, <1>3, <2>1 DEF LoginsOf
<1>4. CASE driver'[d] \notin {"handing_over", "swapping"}
  <2>1. InGame' = {}
    BY <1>1, <1>4 DEF InGame, Attempting
  <2> QED BY <1>2, <1>4, <2>1 DEF LoginsOf
<1> QED BY <1>2, <1>3, <1>4

(* Steps outside of attempts, and those of an attempt that nobody sees.    *)
LEMMA StartRefines ==
    ASSUME RefInv, StartSession
    PROVE  ManagedStep
<1>1. /\ UNCHANGED <<transport, open, fresh, driver>>
      /\ state \in Starting /\ state' \in Starting \cup {"ready", "failed"}
  BY DEF StartSession, Login, SelectCharacter, EnterGame, Enter, Starting, network, drivers
<1> QED BY <1>1, SameLogins, PhaseRefines DEF Starting

LEMMA BystandersRefine ==
    ASSUME RefInv,
           \/ Monitor \/ Heartbeat \/ RequestReconnect
           \/ \E c \in Connections : LoseConnection(c)
           \/ \E c \in Chats : Chat(c)
           \/ \E d \in Drivers : Reconnect(d)
    PROVE  ManagedStep
<1>1. /\ UNCHANGED <<transport, open, fresh>>
      /\ \/ UNCHANGED state
         \/ state # "closed" /\ state' = "reconnecting"
  <2>1. CASE Monitor \/ Heartbeat
    BY <2>1 DEF Monitor, MonitorListens, MonitorStops, MonitorReceives, MonitorReports, MonitorStep,
       Heartbeat, HeartbeatSends, HeartbeatStops, HeartbeatReports, Recover, network, drivers
  <2>2. CASE \E c \in Chats : Chat(c)
    BY <2>2 DEF Chat, ChatArrives, ChatLooks, ChatGivesUp, ChatRefused, ChatSent, ChatFails, ChatStep,
       Recover, network, drivers
  <2>3. CASE RequestReconnect \/ \E d \in Drivers : Reconnect(d)
    BY <2>3 DEF RequestReconnect, Reconnect, Enter, network
  <2>4. CASE \E c \in Connections : LoseConnection(c)
    BY <2>4 DEF LoseConnection, drivers
  <2> QED BY <2>1, <2>2, <2>3, <2>4
<1>2. \A d \in Drivers : \/ driver'[d] = driver[d]
                         \/ driver[d] = "off" /\ driver'[d] \in {"checking", "trying"}
  <2>1. UNCHANGED driver \/ driver' = StartAutomatic \/ \E d \in Drivers : Reconnect(d)
    BY DEF Monitor, MonitorListens, MonitorStops, MonitorReceives, MonitorReports, MonitorStep,
       Heartbeat, HeartbeatSends, HeartbeatStops, HeartbeatReports, Chat, ChatArrives, ChatLooks,
       ChatGivesUp, ChatRefused, ChatSent, ChatFails, ChatStep, Recover, RequestReconnect,
       LoseConnection, drivers
  <2>2. driver \in [Drivers -> DriverStates]
    BY DEF RefInv, IInv, TypeOK
  <2>3. CASE driver' = StartAutomatic
    BY <2>2, <2>3 DEF StartAutomatic
  <2>4. CASE \E d \in Drivers : Reconnect(d)
    BY <2>2, <2>4 DEF Reconnect
  <2> QED BY <2>1, <2>3, <2>4
<1>3. UNCHANGED <<LoginsOf(Drivers), LoginsOf(InGame)>>
  BY <1>1, <1>2, SameLogins
<1> QED BY <1>1, <1>3, PhaseRefines

LEMMA DriverQuietRefines ==
    ASSUME RefInv, NEW d \in Drivers,
           \/ Outside(d) \/ Begin(d) \/ Abort(d) \/ TakeSession(d)
           \/ \E result \in {"succeeded", "aborted", "exhausted"} : Return(d, result)
    PROVE  ManagedStep
<1> DEFINE handing == {"handing_over", "swapping"}
<1>1. /\ UNCHANGED <<transport, open, fresh>>
      /\ \/ UNCHANGED state
         \/ state # "closed" /\ state' = "failed"
  BY DEF Outside, Check, Busy, Recheck, RetryDelay, MarkFailed, Leave, Begin, Abort, TakeSession, Return,
     DriverStep, Enter, StillOpen, network
<1>2. \E to \in DriverStates : /\ driver' = [driver EXCEPT ![d] = to]
                               /\ driver[d] \in handing <=> to \in handing
  <2>1. CASE TakeSession(d)
    BY <2>1 DEF TakeSession, DriverStates
  <2>2. CASE Begin(d) \/ Abort(d)
    BY <2>2 DEF Begin, Abort, DriverStep, DriverStates
  <2>3. CASE \E result \in {"succeeded", "aborted", "exhausted"} : Return(d, result)
    BY <2>3 DEF Return, After, DriverStep, DriverStates
  <2>4. CASE Outside(d)
    BY <2>4 DEF Outside, Check, Busy, Recheck, RetryDelay, MarkFailed, Leave, DriverStep, DriverStates
  <2> QED BY <2>1, <2>2, <2>3, <2>4
<1>3. \A e \in Drivers : \/ driver'[e] = driver[e]
                         \/ driver[e] \notin handing /\ driver'[e] \notin handing
                         \/ driver[e] \in handing /\ driver'[e] \in handing
  BY <1>2 DEF RefInv, IInv, TypeOK
<1>4. UNCHANGED <<LoginsOf(Drivers), LoginsOf(InGame)>>
  BY <1>1, <1>3, SameLogins
<1> QED BY <1>1, <1>4, PhaseRefines

-----------------------------------------------------------------------------
(* The account logs in over a connection that nobody has.                  *)
LEMMA DialRefines ==
    ASSUME RefInv, IInv', NEW d \in Drivers, Dial(d)
    PROVE  ManagedStep
<1>1. PICK c \in Connections \ (open \cup {transport}) :
          fresh' = [fresh EXCEPT ![d] = c] /\ open' = open \cup {c}
  BY DEF Dial
<1>2. /\ UNCHANGED <<state, transport>>
      /\ driver[d] = "attempting" /\ driver' = [driver EXCEPT ![d] = "bootstrapping"]
  BY DEF Dial, DriverStep
<1>3. driver'[d] = "bootstrapping" /\ fresh'[d] = c /\ c # None /\ fresh[d] = None
  BY <1>1, <1>2, ConstantsAssumption DEF RefInv, IInv, TypeOK, Control, Connecting
<1>4. LoginsOf(Drivers) = {} /\ LoginsOf(InGame) = {}
  BY <1>2, <1>3, OwnLogin DEF RefInv, Attempting
<1>5. LoginsOf(Drivers)' = {c} /\ LoginsOf(InGame)' = {}
  BY <1>3, OwnLoginNext DEF Attempting
<1>6. Phase # "starting"
  BY <1>2, PhaseIs DEF RefInv, StartIsOver
<1>7. Managed!LogIn(c)
  BY <1>1, <1>2, <1>4, <1>5, <1>6, PhaseIs DEF Managed!LogIn
<1> QED BY <1>1, <1>7 DEF ManagedStep, Managed!Next

(* It has entered the game over that connection.                           *)
LEMMA BootstrapRefines ==
    ASSUME RefInv, IInv', NEW d \in Drivers, Bootstrapped(d)
    PROVE  ManagedStep
<1>1. /\ UNCHANGED <<state, transport, open, fresh>>
      /\ driver[d] = "bootstrapping" /\ driver' = [driver EXCEPT ![d] = "handing_over"]
  BY DEF Bootstrapped, DriverStep, network
<1>2. driver'[d] = "handing_over" /\ fresh[d] # None
  BY <1>1 DEF RefInv, IInv, TypeOK, Control, Connecting
<1>3. LoginsOf(Drivers) # {}
  BY <1>1, <1>2, OwnLogin DEF RefInv, Attempting
<1>4. LoginsOf(Drivers)' = LoginsOf(Drivers) /\ LoginsOf(InGame)' = LoginsOf(Drivers)
  BY <1>1, <1>2, OwnLogin, OwnLoginNext DEF RefInv, Attempting
<1>5. Managed!Complete
  BY <1>1, <1>3, <1>4, PhaseIs DEF Managed!Complete
<1> QED BY <1>5 DEF ManagedStep, Managed!Next

(* It did not, or too late: what the attempt opened, it closes.            *)
LEMMA FailRefines ==
    ASSUME RefInv, IInv', NEW d \in Drivers, DialFails(d) \/ BootstrapFails(d) \/ SessionIsClosed(d)
    PROVE  ManagedStep
<1>1. PICK from \in {"attempting", "bootstrapping", "handing_over"},
           cs \in {{}, {fresh[d]}} : /\ AttemptFails(d, from, cs)
                                     /\ from = "attempting" <=> cs = {}
  BY DEF DialFails, BootstrapFails, SessionIsClosed
<1>2. /\ UNCHANGED <<state, transport>> /\ open' = open \ cs
      /\ driver[d] = from /\ fresh' = [fresh EXCEPT ![d] = None]
  BY <1>1 DEF AttemptFails, DriverStep, Discard, CloseConnections
<1>3. driver'[d] \in {"attempting", "exhausted"} /\ fresh'[d] = None
  BY <1>1, <1>2 DEF AttemptFails, DriverStep, RefInv, IInv, TypeOK
<1>4. LoginsOf(Drivers)' = {} /\ LoginsOf(InGame)' = {}
  BY <1>3, OwnLoginNext DEF Attempting
<1>5. CASE from = "attempting"
  <2>1. fresh[d] = None
    BY <1>2, <1>5 DEF RefInv, IInv, Control, Connecting
  <2>2. LoginsOf(Drivers) = {} /\ LoginsOf(InGame) = {}
    BY <1>2, <1>5, <2>1, OwnLogin DEF RefInv, Attempting
  <2> QED BY <1>1, <1>2, <1>4, <1>5, <2>2, PhaseRefines
<1>6. CASE from # "attempting"
  <2>1. fresh[d] # None /\ cs = {fresh[d]}
    BY <1>1, <1>2, <1>6 DEF RefInv, IInv, Control, Connecting
  <2>2. LoginsOf(Drivers) = {fresh[d]}
    BY <1>2, <2>1, OwnLogin DEF RefInv, Attempting
  <2>3. Managed!GiveUp
    BY <1>2, <1>4, <2>1, <2>2, PhaseIs DEF Managed!GiveUp
  <2> QED BY <2>3 DEF ManagedStep, Managed!Next
<1> QED BY <1>5, <1>6

(* The hand-over: the session is ready on the new connection, and the old  *)
(* one is closed.                                                          *)
LEMMA ReplaceRefines ==
    ASSUME RefInv, IInv', NEW d \in Drivers, ReplaceTransport(d)
    PROVE  ManagedStep
<1>1. /\ driver[d] = "swapping" /\ driver' = [driver EXCEPT ![d] = "succeeded"]
      /\ transport' = fresh[d] /\ fresh' = [fresh EXCEPT ![d] = None]
      /\ state' = "ready" /\ open' = open \ {transport}
  BY DEF ReplaceTransport, CloseConnections, Replaced, Enter
<1>2. driver'[d] = "succeeded" /\ fresh'[d] = None /\ fresh[d] # None
  BY <1>1 DEF RefInv, IInv, TypeOK, Control, Connecting
<1>3. state \notin Starting /\ state # "closed" /\ state \in States
  BY <1>1, ConstantsAssumption DEF RefInv, StartIsOver, IInv, TypeOK, Control, Closing
<1>4. Phase \in {"ready", "down"} /\ Phase' = "ready"
  BY <1>1, <1>3, PhaseIs, NextPhaseIs
<1>5. fresh[d] \in LoginsOf(InGame)
  BY <1>1, <1>2, OwnLogin DEF RefInv, Attempting
<1>6. LoginsOf(Drivers)' = {} /\ LoginsOf(InGame)' = {}
  BY <1>2, OwnLoginNext DEF Attempting
<1>7. Managed!HandOver
  BY <1>1, <1>4, <1>5, <1>6 DEF Managed!HandOver
<1> QED BY <1>7 DEF ManagedStep, Managed!Next

(* Close ends the session first and lets go of its connection last.        *)
LEMMA CloseRefines ==
    ASSUME RefInv, Close \/ CloseTransport
    PROVE  ManagedStep
<1>1. CASE Close
  <2>1. UNCHANGED <<transport, open, fresh, driver>> /\ state # "closed" /\ state' = "closed"
    BY <1>1 DEF Close, Enter, network, drivers
  <2>2. UNCHANGED <<LoginsOf(Drivers), LoginsOf(InGame)>>
    BY <2>1, SameLogins
  <2> QED BY <2>1, <2>2, PhaseRefines
<1>2. CASE CloseTransport
  <2>1. /\ UNCHANGED <<state, transport, driver, fresh>>
        /\ closing = "stopping" /\ open' = open \ {transport}
    BY <1>2 DEF CloseTransport, CloseConnections, drivers
  <2>2. state = "closed" /\ transport \in open
    BY <2>1 DEF RefInv, IInv, Closing, Sockets
  <2>3. UNCHANGED <<LoginsOf(Drivers), LoginsOf(InGame)>>
    BY <2>1, SameLogins
  <2>4. Managed!Release
    BY <2>1, <2>2, <2>3, PhaseIs DEF Managed!Release
  <2> QED BY <2>4 DEF ManagedStep, Managed!Next
<1> QED BY <1>1, <1>2

(* Every step of a session is one of ManagedSession, or nothing to it.     *)
LEMMA NextRefines == RefInv /\ RefInv' /\ [Next]_vars => ManagedStep
<1> SUFFICES ASSUME RefInv, RefInv', [Next]_vars PROVE ManagedStep
  OBVIOUS
<1>1. IInv'
  BY DEF RefInv
<1>2. CASE StartSession
  BY <1>2, StartRefines
<1>3. CASE \/ Monitor \/ Heartbeat \/ RequestReconnect
           \/ \E c \in Connections : LoseConnection(c)
           \/ \E c \in Chats : Chat(c)
           \/ \E d \in Drivers : Reconnect(d)
  BY <1>3, BystandersRefine
<1>4. ASSUME NEW d \in Drivers, Drive(d) PROVE ManagedStep
  <2>1. CASE \/ Outside(d) \/ Begin(d) \/ Abort(d) \/ TakeSession(d)
             \/ \E result \in {"succeeded", "aborted", "exhausted"} : Return(d, result)
    BY <2>1, DriverQuietRefines
  <2>2. CASE Dial(d)
    BY <1>1, <2>2, DialRefines
  <2>3. CASE Bootstrapped(d)
    BY <1>1, <2>3, BootstrapRefines
  <2>4. CASE DialFails(d) \/ BootstrapFails(d) \/ SessionIsClosed(d)
    BY <1>1, <2>4, FailRefines
  <2>5. CASE ReplaceTransport(d)
    BY <1>1, <2>5, ReplaceRefines
  <2> QED BY <1>4, <2>1, <2>2, <2>3, <2>4, <2>5 DEF Drive, Outside
<1>5. CASE Close \/ CloseTransport
  BY <1>5, CloseRefines
<1>6. CASE UNCHANGED vars
  <2>1. UNCHANGED <<state, transport, open, fresh, driver>>
    BY <1>6 DEF vars, network, drivers
  <2> QED BY <2>1, SameLogins, PhaseRefines
<1> QED BY <1>2, <1>3, <1>4, <1>5, <1>6 DEF Next

LEMMA InitImplements == Init => Managed!Init
<1> SUFFICES ASSUME Init PROVE Managed!Init
  OBVIOUS
<1>1. LoginsOf(Drivers) = {} /\ LoginsOf(InGame) = {}
  BY DEF Init, LoginsOf, InGame
<1>2. Phase = "starting"
  BY DEF Init, Phase, Starting
<1> QED BY <1>1, <1>2 DEF Init, Managed!Init

(* A session, with its loop, callers, workers, chats and Close, implements *)
(* ManagedSession: it becomes ready again only by a hand-over of the one   *)
(* login under way, and no connection stays behind.                        *)
THEOREM SessionImplementsManaged == Spec => ManagedSpec
<1>1. RefInv /\ RefInv' /\ [Next]_vars => [Managed!Next]_(Managed!managed)
  BY NextRefines DEF ManagedStep
<1> QED BY <1>1, InitImplements, RefInvariance, PTL DEF Spec, ManagedSpec, Managed!Spec

-----------------------------------------------------------------------------
(***************************************************************************)
(* Accounts.  That a live session has an owner is a fact about steps, and  *)
(* rests on what the pages, the requests and the account know of each      *)
(* other: AccInv.  Every step is shown to keep AccInv and to let go of no  *)
(* session (KeepsHold), except for what NoSilentLeak excuses.              *)
(***************************************************************************)

(* A process lives no longer than there were faults, and logs in and enters *)
(* for an enabled account alone.                                            *)
Lived == life <= faults /\ (job # "idle" => account.state = "enabled")

(* Of two pages one is in use, and a dialog asks what its step lets it ask, *)
(* about the session it holds.                                              *)
Asks(step) ==
    CASE step = "closed"      -> {"start", "halt", "delete", "reconnect"}
      [] step = "credentials" -> {"login", "stop"}
      [] step = "character"   -> {"enter", "stop"}
      [] step = "entered"     -> {"create"}
      [] step = "edit on"     -> {"save on"}
      [] step = "edit off"    -> {"save off"}

Orderly ==
    /\ Desk \notin inUse => calls[Desk] = NoCall /\ dialog.step = "closed"
    /\ Editor \notin inUse => calls[Editor] = NoCall
    /\ calls[Desk].kind \in Asks(dialog.step) \cup {"none"}
    /\ calls[Desk].kind \in {"enter", "stop", "create"} => calls[Desk].ref = dialog.session
    /\ dialog.step \in {"closed", "edit on", "edit off"} => dialog.session = NoRef
    /\ calls[Editor].kind \in {"none", "login", "enter", "list", "potential", "stop"}

(* An answer names a session of the life it was given in, which is the one  *)
(* it was asked about by number; a session that was stopped stays stopped   *)
(* while its number is mentioned.                                           *)
Answers ==
    \A c \in Pages :
        /\ calls[c].ref[2] <= life /\ calls[c].got[2] <= life
        /\ calls[c].kind = "none" => calls[c] = NoCall
        /\ calls[c].got # NoRef <=> calls[c].phase = "done" /\ calls[c].kind \in {"login", "enter", "list", "potential"}
        /\ calls[c].got # NoRef /\ calls[c].kind # "login" =>
               calls[c].got[1] = calls[c].ref[1] /\ calls[c].ref[2] <= calls[c].got[2]
        /\ calls[c].ready => calls[c].got # NoRef
        /\ calls[c].kind = "stop" /\ calls[c].phase \in {"done", "missing"} =>
               \A n \in Numbers : calls[c].ref = <<n, life>> => sessions[n] = "none"

(* The pages know of sessions of this life and of earlier ones.             *)
Known ==
    /\ dialog.session[2] <= life /\ store[2] <= life /\ tab.saved[2] <= life
    /\ tab.session[2] <= life /\ tab.poll.got[2] <= life

(* An account is deleted by somebody who saw it, and a creation that was    *)
(* answered has left one that nobody deletes meanwhile.                     *)
Deletes == {r \in adrift \cup {calls[c] : c \in Pages} : r.kind = "delete"}

Created ==
    /\ account.state = "absent" => shown = "absent" /\ Deletes = {}
    /\ calls[Desk].kind = "create" /\ calls[Desk].phase = "done" =>
           account.state \in {"enabled", "disabled"} /\ Deletes = {}

(* A dialog that came to its characters in an earlier life.                 *)
Stale ==
    \/ dialog.step = "character" /\ dialog.session[2] # life
    \/ calls[Desk].kind = "login" /\ calls[Desk].got # NoRef /\ calls[Desk].got[2] # life

(* Beside such a dialog the account alone has a session.                    *)
Alone ==
    Stale => /\ adopting = 0 /\ (job = "login" => account.session = 0)
             /\ \A r \in adrift : r.kind \notin {"login", "create"}
             /\ \A n \in Numbers : sessions[n] # "none" =>
                    account.session = n /\ account.state \in {"enabled", "disabled"}

(* A single tab shows and polls the session it saved, and asks about it.    *)
OneTab ==
    Other \notin inUse =>
        /\ store = tab.saved /\ tab.event = "none"
        /\ tab.session \in {NoRef, tab.saved}
        /\ tab.ready => tab.session # NoRef
        /\ calls[Editor].kind = "login" => tab.saved = NoRef
        /\ calls[Editor].kind \in {"enter", "list", "potential", "stop"} => tab.saved \in {NoRef, calls[Editor].ref}
        /\ calls[Editor].kind = "stop" /\ tab.saved = NoRef =>
               \A n \in Numbers : calls[Editor].ref = <<n, life>> => sessions[n] = "none"
        /\ tab.poll # NoPoll =>
               /\ tab.poll.of = tab.saved /\ tab.saved # NoRef
               /\ tab.poll.got # tab.poll.of =>
                      \A n \in Numbers : tab.saved = <<n, life>> => sessions[n] = "none"

AccInv == AccountsTypeOK /\ Lived /\ Orderly /\ Answers /\ Known /\ Created /\ Alone /\ OneTab
-----------------------------------------------------------------------------
LEMMA Distinct == Desk # Editor /\ Desk # Other /\ Editor # Other
<1>1. \A x, y : Cardinality({x, y}) <= 2
  <2> SUFFICES ASSUME NEW x, NEW y PROVE Cardinality({x, y}) <= 2
    OBVIOUS
  <2>1. IsFiniteSet({x}) /\ Cardinality({x}) = 1
    BY FS_Singleton
  <2>2. {x, y} = {x} \cup {y}
    OBVIOUS
  <2>3. Cardinality({x} \cup {y}) = 1 \/ Cardinality({x} \cup {y}) = 2
    BY <2>1, FS_AddElement
  <2> QED BY <2>2, <2>3
<1>2. ASSUME Desk = Editor PROVE Cardinality({Desk, Editor, Other}) <= 2
  <2>1. {Desk, Editor, Other} = {Desk, Other}
    BY <1>2
  <2> QED BY <1>1, <2>1
<1>3. ASSUME Desk = Other PROVE Cardinality({Desk, Editor, Other}) <= 2
  <2>1. {Desk, Editor, Other} = {Desk, Editor}
    BY <1>3
  <2> QED BY <1>1, <2>1
<1>4. ASSUME Editor = Other PROVE Cardinality({Desk, Editor, Other}) <= 2
  <2>1. {Desk, Editor, Other} = {Desk, Editor}
    BY <1>4
  <2> QED BY <1>1, <2>1
<1>5. ~(Cardinality({Desk, Editor, Other}) <= 2)
  BY AccountsAssumption
<1> QED BY <1>2, <1>3, <1>4, <1>5

LEMMA TwoTabs == inUse \in Uses /\ Other \in inUse => Cardinality(inUse) > 1
<1>1. inUse \in Uses /\ Other \in inUse => inUse = {Editor, Other}
  BY Distinct DEF Uses
<1>2. IsFiniteSet({Editor}) /\ Cardinality({Editor}) = 1
  BY FS_Singleton
<1>3. {Editor, Other} = {Editor} \cup {Other}
  OBVIOUS
<1>4. Cardinality({Editor} \cup {Other}) = 2
  BY <1>2, Distinct, FS_AddElement
<1> QED BY <1>1, <1>3, <1>4

(* A number and a life make a session, the number 0 none.                   *)
LEMMA RefsAre ==
    /\ NoRef \in Refs /\ NoRef[1] = 0 /\ NoRef[2] = 0
    /\ \A r \in Refs : /\ r[2] \in Nat /\ (r # NoRef => r[1] \in Numbers /\ r[2] \in Lives)
                       /\ r = NoRef <=> r[1] = 0
                       /\ r = <<r[1], r[2]>>
    /\ \A n \in Numbers, l \in Lives : <<n, l>> \in Refs /\ <<n, l>> # NoRef
    /\ \A n \in Numbers : n \in Nat /\ n # 0
    /\ \A r, s \in Refs : r[1] = s[1] /\ r[2] = s[2] => r = s
    /\ \A n, l : <<n, l>>[1] = n /\ <<n, l>>[2] = l
    /\ 0 \in Lives
BY AccountsAssumption DEF Refs, NoRef, Numbers, Lives

LEMMA PairIs ==
    ASSUME NEW n \in Numbers, NEW l \in Lives
    PROVE  \A r : r = <<n, l>> => r # NoRef /\ r[1] = n
BY RefsAre

LEMMA EditorRequests == {"login", "enter", "list", "potential", "stop"} \subseteq Requests
BY DEF Requests

LEMMA NothingAsked ==
    /\ NoCall \in Call /\ NoPoll \in Poll /\ NewTab \in Tab
    /\ NoCall.kind = "none" /\ NoCall.ref = NoRef /\ NoCall.got = NoRef /\ NoCall.phase = "none" /\ NoCall.ready = FALSE
BY RefsAre DEF NoCall, Call, NoPoll, Poll, NewTab, Tab

(* The hands that may hold a session, one by one.                           *)
Names(n) ==
    \/ account.session = n /\ account.state \in {"enabled", "disabled"}
    \/ adopting = n
    \/ dialog.session = <<n, life>> \/ store = <<n, life>> \/ tab.saved = <<n, life>>
    \/ \E c \in Pages : calls[c].got = <<n, life>>
    \/ \E c \in Pages : calls[c].kind \in {"stop", "create"} /\ calls[c].ref = <<n, life>>
    \/ \E r \in adrift : r.kind \in {"stop", "create"} /\ r.ref = <<n, life>>

LEMMA HeldIs == \A n : (Held(n) <=> Names(n)) /\ (Held(n)' <=> Names(n)')
BY DEF Held, Names

(* A new session has a number that nobody mentions.                         *)
LEMMA FreshIs ==
    ASSUME NEW n, Fresh(n)
    PROVE  /\ sessions[n] = "none" /\ ~Names(n)
           /\ \A c \in Pages : calls[c].ref # <<n, life>>
           /\ \A r \in adrift : r.ref # <<n, life>>
BY HeldIs DEF Fresh, Mentioned

(* What a request may do, whoever waits for it.                             *)
Born(r, phase, got) ==
    \A n \in Numbers : sessions[n] = "none" /\ sessions'[n] # "none" =>
        r.kind = "login" /\ phase = "done" /\ got = <<n, life>> /\ Fresh(n)

Answering(r, phase, got) ==
    /\ got # NoRef <=> phase = "done" /\ r.kind \in {"login", "enter", "list", "potential"}
    /\ got # NoRef => got[2] = life /\ (r.kind # "login" => got[1] = r.ref[1])
    /\ r.kind = "stop" =>
           \A n \in Numbers : r.ref[1] = n => sessions'[n] = "none"
    /\ r.kind = "login" /\ phase = "done" =>
           sessions[got[1]] = "none" /\ sessions'[got[1]] # "none"

Accounting(r, phase) ==
    /\ account'.session \in {account.session, 0}
    /\ account'.state = account.state \/ job = "idle" \/ account.state = "absent"
    /\ account.state = "absent" => \/ account' = account
                                   \/ account'.state = "enabled" /\ r.kind = "create" /\ phase = "done"
    /\ account.state # "absent" => account'.state # "absent"
    /\ account.state \in {"enabled", "disabled"} /\ r.kind # "delete" => account'.state \in {"enabled", "disabled"}
    /\ r.kind # "create" => adopting' = adopting
    /\ adopting' = adopting \/ account.state = "absent"
    /\ r.kind = "create" /\ phase = "done" => account.state = "absent" /\ account'.state = "enabled"
    /\ \A n \in Numbers :
          account.session = n /\ account.state \in {"enabled", "disabled"} /\ sessions'[n] # "none" =>
              account'.session = n /\ account'.state \in {"enabled", "disabled"}

EffectFacts(r, phase, got) ==
    /\ sessions' \in [Numbers -> SessionStates] /\ account' \in Account /\ adopting' \in Numbers \cup {0}
    /\ life' = life /\ server' = server /\ job' = job
    /\ Born(r, phase, got) /\ Answering(r, phase, got) /\ Accounting(r, phase)

LEMMA SessionEffect ==
    ASSUME AccountsTypeOK, NEW r \in Call, NEW phase \in {"done", "missing", "refused"}, NEW got \in Refs,
           SessionRequest(r, phase, got), UNCHANGED <<life, server, job>>
    PROVE  EffectFacts(r, phase, got)
<1> DEFINE n == r.ref[1]
<1>1. /\ sessions \in [Numbers -> SessionStates] /\ account \in Account /\ adopting \in Numbers \cup {0}
      /\ r.ref \in Refs /\ (Live(n) => n \in Numbers) /\ NoRef[2] = 0 /\ life \in Lives
  BY RefsAre DEF AccountsTypeOK, Call, Live
<1>2. UNCHANGED <<account, adopting>>
  BY DEF SessionRequest
<1>4. r.kind # "create"
  BY DEF SessionRequest
<1>3. Accounting(r, phase)
  <2>1. account' = account /\ adopting' = adopting
    BY <1>2
  <2> QED BY <1>4, <2>1 DEF Accounting
<1>5. CASE r.kind = "login" /\ phase = "done"
  <2>1. PICK k \in Numbers : /\ Fresh(k) /\ got = <<k, life>>
                             /\ sessions' = [sessions EXCEPT ![k] = "logged_in"]
    BY <1>5 DEF SessionRequest
  <2>2. sessions[k] = "none" /\ sessions'[k] = "logged_in" /\ got[1] = k /\ got[2] = life /\ got # NoRef
    BY <1>1, <2>1, FreshIs, RefsAre
  <2>3. sessions' \in [Numbers -> SessionStates]
    BY <1>1, <2>1 DEF SessionStates
  <2>4. Born(r, phase, got)
    BY <1>1, <1>5, <2>1 DEF Born
  <2>5. Answering(r, phase, got)
    BY <1>5, <2>2 DEF Answering
  <2> QED BY <1>1, <1>2, <1>3, <1>4, <2>3, <2>4, <2>5 DEF EffectFacts
<1>6. CASE r.kind = "login" /\ phase # "done"
  BY <1>1, <1>2, <1>3, <1>6 DEF SessionRequest, EffectFacts, Born, Answering
<1>7. CASE r.kind = "enter" /\ Live(n)
  <2>1. EnterSession(n, phase) /\ got = (IF phase = "done" THEN <<n, life>> ELSE NoRef)
    BY <1>7 DEF SessionRequest
  <2>2. sessions' \in [Numbers -> SessionStates] /\ \A m \in Numbers : sessions[m] = "none" => sessions'[m] = "none"
    BY <1>1, <1>7, <2>1 DEF EnterSession, SessionStates
  <2>3. Answering(r, phase, got)
    BY <1>1, <1>7, <2>1, RefsAre DEF Answering
  <2> QED BY <1>1, <1>2, <1>3, <1>4, <2>2, <2>3 DEF EffectFacts, Born
<1>8. CASE r.kind = "stop" /\ Live(n)
  <2>1. phase = "done" /\ got = NoRef /\ sessions' = [sessions EXCEPT ![n] = "none"]
    BY <1>8 DEF SessionRequest
  <2>2. sessions' \in [Numbers -> SessionStates] /\ sessions'[n] = "none"
        /\ \A m \in Numbers : sessions[m] = "none" => sessions'[m] = "none"
    BY <1>1, <1>8, <2>1 DEF SessionStates
  <2>3. Answering(r, phase, got)
    BY <1>1, <1>8, <2>1, <2>2 DEF Answering
  <2> QED BY <1>1, <1>2, <1>3, <1>4, <2>2, <2>3 DEF EffectFacts, Born
<1>9. CASE r.kind \in {"list", "potential"} /\ Live(n)
  <2>1. sessions' = sessions /\ (got # NoRef <=> phase = "done") /\ (got # NoRef => got = <<n, life>>)
    BY <1>1, <1>9, RefsAre DEF SessionRequest
  <2> QED BY <1>1, <1>2, <1>3, <1>4, <1>9, <2>1, RefsAre DEF EffectFacts, Born, Answering
<1>10. CASE r.kind \in {"enter", "stop", "list", "potential"} /\ ~Live(n)
  <2>1. sessions' = sessions /\ got = NoRef /\ phase # "done"
    BY <1>10 DEF SessionRequest, Live
  <2>2. \A m \in Numbers : m = n => sessions'[m] = "none"
    BY <1>10, <2>1, RefsAre DEF Live
  <2> QED BY <1>1, <1>2, <1>3, <1>4, <1>10, <2>1, <2>2 DEF EffectFacts, Born, Answering
<1> QED BY <1>5, <1>6, <1>7, <1>8, <1>9, <1>10 DEF SessionRequest

LEMMA AccountEffect ==
    ASSUME AccountsTypeOK, Lived, NEW r \in Call, NEW phase \in {"done", "missing", "refused"}, NEW got \in Refs,
           AccountRequest(r, phase), got = NoRef, UNCHANGED <<life, server, job>>
    PROVE  EffectFacts(r, phase, got)
<1>1. /\ sessions \in [Numbers -> SessionStates] /\ account \in Account /\ adopting \in Numbers \cup {0}
      /\ r.ref[1] \in Numbers \cup {0} /\ account.session \in Numbers \cup {0}
      /\ account.state \in {"absent", "enabled", "disabled", "deleted"}
      /\ account = [state |-> account.state, session |-> account.session]
  BY RefsAre DEF AccountsTypeOK, Call, Account
<1>2. ASSUME sessions' \in [Numbers -> SessionStates],
             \A m \in Numbers : sessions[m] = "none" => sessions'[m] = "none",
             account' \in Account, adopting' \in Numbers \cup {0}, Accounting(r, phase)
      PROVE  EffectFacts(r, phase, got) \/ r.kind \in {"login", "enter", "stop", "list", "potential"}
  BY <1>2 DEF EffectFacts, Born, Answering
<1>3. r.kind \notin {"login", "enter", "stop", "list", "potential"}
  BY DEF AccountRequest
<1>4. CASE r.kind = "create"
  <2>1. sessions' = sessions
    BY <1>4 DEF AccountRequest
  <2>2. CASE CanAdopt(r)
    <3>1. account.state = "absent" /\ account' = [state |-> "enabled", session |-> 0] /\ adopting' = r.ref[1]
      BY <1>4, <2>2 DEF AccountRequest, CanAdopt
    <3>2. account' \in Account /\ account'.state = "enabled" /\ account'.session = 0 /\ phase = "done"
      BY <1>4, <2>2, <3>1 DEF Account, AccountRequest
    <3>3. Accounting(r, phase)
      BY <1>1, <1>4, <3>1, <3>2 DEF Accounting
    <3> QED BY <1>1, <1>2, <1>3, <2>1, <3>1, <3>2, <3>3
  <2>3. CASE ~CanAdopt(r)
    <3>1. account' = account /\ adopting' = adopting /\ phase = "refused"
      BY <1>4, <2>3 DEF AccountRequest
    <3> QED BY <1>1, <1>2, <1>3, <2>1, <3>1 DEF Accounting
  <2> QED BY <2>2, <2>3
<1>5. CASE r.kind # "create" /\ adopting' = adopting /\ account' = account
  <2>1. /\ sessions' \in [Numbers -> SessionStates]
        /\ \A m \in Numbers : sessions[m] = "none" => sessions'[m] = "none"
    <3>1. CASE sessions' = sessions
      BY <1>1, <3>1
    <3> DEFINE without == [m \in Numbers |-> IF m = account.session THEN "none" ELSE sessions[m]]
    <3>w. /\ without \in [Numbers -> SessionStates]
          /\ \A m \in Numbers : sessions[m] = "none" => without[m] = "none"
      BY <1>1 DEF SessionStates
    <3>2. CASE r.kind = "start"
      <4>1. sessions' \in {sessions, without}
        BY <3>2 DEF AccountRequest
      <4> HIDE DEF without
      <4> QED BY <1>1, <3>w, <4>1
    <3>3. CASE r.kind \in {"halt", "delete", "save on", "save off"}
      <4>1. sessions' \in {sessions, without}
        BY <3>3 DEF AccountRequest
      <4> HIDE DEF without
      <4> QED BY <1>1, <3>w, <4>1
    <3>4. CASE r.kind = "reconnect"
      <4>1. CASE account.state = "enabled" /\ Live(account.session)
        BY <1>1, <1>5, <3>4, <4>1 DEF AccountRequest, SessionStates, Live
      <4>2. CASE ~(account.state = "enabled" /\ Live(account.session))
        BY <1>1, <1>5, <3>4, <4>2 DEF AccountRequest
      <4> QED BY <4>1, <4>2
    <3> QED BY <1>5, <3>1, <3>2, <3>3, <3>4 DEF AccountRequest
  <2> QED BY <1>1, <1>2, <1>3, <1>5, <2>1 DEF Accounting
<1>6. CASE /\ r.kind # "create" /\ adopting' = adopting /\ job = "idle" /\ account.state \in {"enabled", "disabled"}
           /\ account'.state \in {"enabled", "disabled"} \/ (r.kind = "delete" /\ account'.state = "deleted")
           /\ account' \in Account /\ account'.session = 0
           /\ sessions' = [n \in Numbers |-> IF n = account.session THEN "none" ELSE sessions[n]]
  <2>1. /\ sessions' \in [Numbers -> SessionStates]
        /\ \A m \in Numbers : sessions[m] = "none" => sessions'[m] = "none"
        /\ \A m \in Numbers : account.session = m => sessions'[m] = "none"
    BY <1>1, <1>6 DEF SessionStates
  <2> QED BY <1>1, <1>2, <1>3, <1>6, <2>1 DEF Accounting
<1>7. CASE /\ r.kind = "start" /\ adopting' = adopting /\ job = "idle" /\ account.state \in {"enabled", "disabled"}
           /\ sessions' = sessions /\ account' = [account EXCEPT !.state = "enabled"]
  <2>1. account' \in Account /\ account'.state = "enabled" /\ account'.session = account.session
    BY <1>1, <1>7 DEF Account
  <2> QED BY <1>1, <1>2, <1>3, <1>7, <2>1 DEF Accounting
<1>8. CASE r.kind = "start"
  <2>1. CASE account.state \in {"absent", "deleted"} /\ UNCHANGED <<sessions, account, adopting>>
    BY <1>5, <1>8, <2>1
  <2>2. CASE Working(account.session) /\ account.state \in {"enabled", "disabled"} /\ job = "idle"
    BY <1>7, <1>8, <2>2 DEF AccountRequest
  <2>3. CASE ~Working(account.session) /\ account.state \in {"enabled", "disabled"} /\ job = "idle"
    <3>1. account' = [state |-> "enabled", session |-> 0] /\ adopting' = adopting
          /\ sessions' = [n \in Numbers |-> IF n = account.session THEN "none" ELSE sessions[n]]
      BY <1>8, <2>3 DEF AccountRequest
    <3>2. account' \in Account /\ account'.state = "enabled" /\ account'.session = 0
      BY <3>1 DEF Account
    <3> QED BY <1>6, <1>8, <2>3, <3>1, <3>2
  <2> QED BY <1>1, <1>8, <2>1, <2>2, <2>3 DEF AccountRequest
<1>9. CASE r.kind \in {"halt", "delete"}
  <2>1. CASE account.state \in {"absent", "deleted"}
    BY <1>5, <1>9, <2>1 DEF AccountRequest
  <2>2. CASE account.state \in {"enabled", "disabled"}
    <3>1. account' = [state |-> IF r.kind = "halt" THEN "disabled" ELSE "deleted", session |-> 0]
          /\ adopting' = adopting /\ job = "idle"
          /\ sessions' = [n \in Numbers |-> IF n = account.session THEN "none" ELSE sessions[n]]
      BY <1>9, <2>2 DEF AccountRequest
    <3>2. account' \in Account /\ account'.session = 0
          /\ (account'.state \in {"enabled", "disabled"} \/ (r.kind = "delete" /\ account'.state = "deleted"))
      BY <1>9, <3>1 DEF Account
    <3> QED BY <1>6, <1>9, <2>2, <3>1, <3>2
  <2> QED BY <1>1, <2>1, <2>2
<1>10. CASE r.kind \in {"save on", "save off"}
  <2>1. CASE account' = account
    BY <1>5, <1>10, <2>1 DEF AccountRequest
  <2>2. CASE account' # account
    <3>1. /\ account' = [state |-> IF r.kind = "save on" THEN "enabled" ELSE "disabled", session |-> 0]
          /\ adopting' = adopting /\ job = "idle" /\ account.state \in {"enabled", "disabled"}
          /\ sessions' = [n \in Numbers |-> IF n = account.session THEN "none" ELSE sessions[n]]
      BY <1>10, <2>2 DEF AccountRequest
    <3>2. account' \in Account /\ account'.session = 0 /\ account'.state \in {"enabled", "disabled"}
      BY <1>10, <3>1 DEF Account
    <3> QED BY <1>6, <1>10, <3>1, <3>2
  <2> QED BY <2>1, <2>2
<1>11. CASE r.kind = "reconnect"
  BY <1>5, <1>11 DEF AccountRequest
<1> QED BY <1>4, <1>8, <1>9, <1>10, <1>11 DEF AccountRequest

LEMMA EffectIs ==
    ASSUME AccountsTypeOK, Lived, NEW r \in Call, NEW phase \in {"done", "missing", "refused"}, NEW got \in Refs,
           Effect(r, phase, got)
    PROVE  EffectFacts(r, phase, got)
BY SessionEffect, AccountEffect DEF Effect

(* What the account manager does of its own accord, and what befalls the    *)
(* sessions: no page and no request changes, and the account keeps the live *)
(* session that it has, unless a creation or a login overtakes it.          *)
Manages ==
    /\ sessions' \in [Numbers -> SessionStates] /\ account' \in Account /\ server' \in Server
    /\ job' \in {"idle", "login", "entering"} /\ adopting' \in {adopting, 0} /\ faults' \in {faults, faults + 1}
    /\ faults' <= MaxFaults
    /\ UNCHANGED <<inUse, life, calls, adrift, dialog, shown, store, tab>>
    /\ account'.state = account.state /\ (job' # "idle" => account.state = "enabled")
    /\ \A n \in Numbers : sessions[n] = "none" /\ sessions'[n] # "none" =>
           Fresh(n) /\ account'.session = n /\ account.state = "enabled"
    /\ \A n \in Numbers : sessions'[n] # "none" /\ account.session = n =>
           account'.session = n \/ adopting # 0 \/ job = "login"
    /\ adopting = 0 /\ (job = "login" => account.session = 0) => (job' = "login" => account'.session = 0)

LEMMA ManagerTyped ==
    ASSUME AccountsTypeOK
    PROVE  /\ sessions \in [Numbers -> SessionStates] /\ account \in Account /\ server \in Server
           /\ job \in {"idle", "login", "entering"} /\ adopting \in Numbers \cup {0}
           /\ faults \in 0..MaxFaults /\ faults <= MaxFaults /\ faults \in Nat
           /\ account.session \in Numbers \cup {0}
           /\ \A n \in Numbers : Live(n) <=> sessions[n] # "none"
           /\ Live(account.session) => account.session \in Numbers
           /\ \A s \in Numbers \cup {0} : /\ [account EXCEPT !.session = s] \in Account
                                          /\ [account EXCEPT !.session = s].state = account.state
                                          /\ [account EXCEPT !.session = s].session = s
<1>1. \A n \in Numbers : n # 0
  BY RefsAre
<1> QED BY <1>1, AccountsAssumption DEF AccountsTypeOK, Account, Live

LEMMA StopIs ==
    ASSUME AccountsTypeOK, StopLocked
    PROVE  /\ sessions' \in [Numbers -> SessionStates] /\ account' \in Account
           /\ account'.state = account.state /\ account'.session = 0
           /\ \A n \in Numbers : /\ sessions[n] = "none" => sessions'[n] = "none"
                                 /\ account.session = n => sessions'[n] = "none"
<1>1. account' \in Account /\ account'.state = account.state /\ account'.session = 0
  BY ManagerTyped DEF StopLocked
<1>2. CASE Live(account.session)
  <2>1. sessions' = [sessions EXCEPT ![account.session] = "none"] /\ account.session \in Numbers
    BY <1>2, ManagerTyped DEF StopLocked
  <2> QED BY <1>1, <2>1, ManagerTyped DEF SessionStates
<1>3. CASE ~Live(account.session)
  <2>1. sessions' = sessions
    BY <1>3 DEF StopLocked
  <2> QED BY <1>1, <1>3, <2>1, ManagerTyped
<1> QED BY <1>2, <1>3

LEMMA StartManages ==
    ASSUME AccountsTypeOK, Lived, StartLocked \/ EnterFails \/ StopServer
    PROVE  Manages
<1> USE ManagerTyped
<1>1. StopLocked /\ UNCHANGED <<inUse, life, adopting, calls, adrift, pages>>
  BY DEF StartLocked, EnterFails, StopServer
<1>2. server' \in Server /\ job' \in {"idle", "login", "entering"} /\ (job' # "idle" => account.state = "enabled")
  BY <1>1 DEF StartLocked, EnterFails, StopServer, Server
<1>3. faults' \in {faults, faults + 1} /\ faults' <= MaxFaults
  BY <1>1, AccountsAssumption DEF StartLocked, EnterFails, StopServer, Fault
<1>4. UNCHANGED <<inUse, life, calls, adrift, dialog, shown, store, tab>> /\ adopting' = adopting
  BY <1>1 DEF pages
<1> QED BY <1>1, <1>2, <1>3, <1>4, StopIs, RefsAre DEF Manages

LEMMA LogInManages ==
    ASSUME AccountsTypeOK, Lived, NEW n \in Numbers, LoggedIn(n)
    PROVE  Manages
<1> USE ManagerTyped
<1>1. /\ Fresh(n) /\ job = "login" /\ job' = "entering" /\ account.state = "enabled"
      /\ sessions' = [sessions EXCEPT ![n] = "logged_in"] /\ account' = [account EXCEPT !.session = n]
      /\ UNCHANGED <<inUse, life, server, adopting, calls, adrift, pages, faults>>
  BY DEF LoggedIn, Lived
<1>2. sessions' \in [Numbers -> SessionStates]
  BY <1>1 DEF SessionStates
<1>3. UNCHANGED <<inUse, life, calls, adrift, dialog, shown, store, tab>>
  BY <1>1 DEF pages
<1> QED BY <1>1, <1>2, <1>3, RefsAre DEF Manages

LEMMA EnterManages ==
    ASSUME AccountsTypeOK, Lived, LoginFails \/ Entered
    PROVE  Manages
<1> USE ManagerTyped
<1>1. job' = "idle" /\ UNCHANGED <<inUse, life, server, adopting, calls, adrift, pages, faults>>
  BY DEF LoginFails, Entered
<1>2. UNCHANGED <<inUse, life, calls, adrift, dialog, shown, store, tab>>
  BY <1>1 DEF pages
<1>3. CASE LoginFails
  <2>1. sessions' = sessions /\ account' = account
    BY <1>3 DEF LoginFails
  <2> QED BY <1>1, <1>2, <2>1 DEF Manages
<1>4. CASE Entered /\ Live(account.session)
  <2>1. sessions' = [sessions EXCEPT ![account.session] = "ready"] /\ account' = account
    BY <1>4 DEF Entered
  <2>2. sessions' \in [Numbers -> SessionStates] /\ \A n \in Numbers : sessions[n] = "none" => sessions'[n] = "none"
    BY <1>4, <2>1 DEF SessionStates
  <2> QED BY <1>1, <1>2, <2>1, <2>2 DEF Manages
<1>5. CASE Entered /\ ~Live(account.session)
  <2>1. StopLocked
    BY <1>5 DEF Entered
  <2> QED BY <1>1, <1>2, <2>1, StopIs, RefsAre DEF Manages
<1> QED BY <1>3, <1>4, <1>5

LEMMA OthersManage ==
    ASSUME AccountsTypeOK, Lived, Adopt \/ Upsert \/ \E n \in Numbers : SessionBreaks(n) \/ SessionReturns(n)
    PROVE  Manages
<1> USE ManagerTyped
<1>1. UNCHANGED <<inUse, life, calls, adrift, dialog, shown, store, tab, job>> /\ server' \in Server
  BY DEF Adopt, Upsert, SessionBreaks, SessionReturns, pages, Server
<1>2. CASE Adopt
  <2>1. adopting # 0 /\ account' = [account EXCEPT !.session = adopting] /\ adopting' = 0 /\ faults' = faults
        /\ sessions' = sessions
    BY <1>2 DEF Adopt
  <2> QED BY <1>1, <2>1 DEF Manages, Lived
<1>3. ASSUME NEW n \in Numbers, SessionBreaks(n) \/ SessionReturns(n) PROVE Manages
  <2>1. account' = account /\ adopting' = adopting /\ faults' \in {faults, faults + 1} /\ faults' <= MaxFaults
    BY <1>3, AccountsAssumption DEF SessionBreaks, SessionReturns, Fault
  <2>2. /\ sessions[n] # "none"
        /\ \E s \in {"ready", "reconnecting", "failed"} : sessions' = [sessions EXCEPT ![n] = s]
    BY <1>3 DEF SessionBreaks, SessionReturns
  <2>3. sessions' \in [Numbers -> SessionStates] /\ \A m \in Numbers : sessions[m] = "none" => sessions'[m] = "none"
    BY <2>2 DEF SessionStates
  <2> QED BY <1>1, <2>1, <2>3 DEF Manages, Lived
<1>4. CASE Upsert
  <2>1. sessions' = sessions /\ account' = account /\ adopting' = adopting /\ faults' = faults
    BY <1>4 DEF Upsert
  <2> QED BY <1>1, <2>1 DEF Manages, Lived
<1> QED BY <1>2, <1>3, <1>4

(* What excuses a session that nobody holds any more.                       *)
Excused ==
    \/ faults' # faults \/ SetupRace \/ LoginOverKept
    \/ Cardinality(inUse) > 1
    \/ \E r \in adrift : r.kind \in {"login", "create"} /\ r \notin adrift'

KeepsHold == \A n \in Numbers : sessions'[n] # "none" /\ (sessions[n] = "none" \/ Names(n)) => Names(n)' \/ Excused

(* A stale dialog is in use, alone, and asks about a session.               *)
LEMMA StaleIs ==
    ASSUME AccInv, Stale
    PROVE  /\ calls[Editor].kind = "none" /\ calls[Editor].phase = "none"
           /\ calls[Desk].phase = "sent" => calls[Desk].kind \in {"enter", "stop"}
<1>1. Desk \in Pages /\ Editor \in Pages
  BY DEF Pages
<1>2. Desk \in inUse
  BY NothingAsked DEF AccInv, Orderly, Stale
<1>3. Editor \notin inUse
  BY <1>2, Distinct DEF AccInv, AccountsTypeOK, Uses
<1>4. calls[Editor] = NoCall
  BY <1>3 DEF AccInv, Orderly
<1>5. CASE dialog.step = "character"
  <2>1. calls[Desk].kind \in {"enter", "stop", "none"}
    BY <1>5 DEF AccInv, Orderly, Asks
  <2>2. calls[Desk].kind = "none" => calls[Desk] = NoCall
    BY <1>1 DEF AccInv, Answers
  <2> QED BY <1>4, <2>1, <2>2, NothingAsked
<1>6. CASE calls[Desk].got # NoRef
  BY <1>1, <1>4, <1>6, NothingAsked DEF AccInv, Answers
<1> QED BY <1>5, <1>6 DEF Stale

(* A page that is not in use has asked nothing.                             *)
LEMMA OneAtWork ==
    ASSUME AccInv, calls[Editor].phase # "none"
    PROVE  calls[Desk] = NoCall
<1>1. Editor \in inUse
  BY NothingAsked DEF AccInv, Orderly
<1> QED BY <1>1, Distinct DEF AccInv, AccountsTypeOK, Uses, Orderly

(* A tab that stays as it is has lost none of what it knows when only new   *)
(* sessions, which nobody mentions, come to life.                           *)
LEMMA TabStays ==
    ASSUME AccInv, UNCHANGED <<inUse, life, store, tab>>,
           calls'[Editor].kind = calls[Editor].kind, calls'[Editor].ref = calls[Editor].ref,
           \A n \in Numbers : sessions[n] = "none" /\ sessions'[n] # "none" =>
               ~Names(n) /\ calls[Editor].ref # <<n, life>>
    PROVE  OneTab'
<1> SUFFICES ASSUME Other \notin inUse PROVE OneTab'
  BY DEF OneTab
<1>1. ASSUME calls[Editor].kind = "stop", tab.saved = NoRef, NEW n \in Numbers, calls[Editor].ref = <<n, life>>
      PROVE  sessions'[n] = "none"
  BY <1>1 DEF AccInv, OneTab
<1>2. ASSUME tab.poll # NoPoll, tab.poll.got # tab.poll.of, NEW n \in Numbers, tab.saved = <<n, life>>
      PROVE  sessions'[n] = "none"
  BY <1>2 DEF AccInv, OneTab, Names
<1> QED BY <1>1, <1>2 DEF AccInv, OneTab

LEMMA ManagesKeeps ==
    ASSUME AccInv, Manages
    PROVE  AccInv' /\ KeepsHold
<1>1. AccountsTypeOK /\ Lived
  BY DEF AccInv
<1>2. AccountsTypeOK'
  BY <1>1, ManagerTyped DEF AccountsTypeOK, Manages
<1>3. Lived'
  BY <1>1, ManagerTyped, RefsAre DEF Lived, Manages, AccountsTypeOK, Lives
<1>4. Orderly'
  BY DEF AccInv, Orderly, Manages
<1>5. \A n \in Numbers : sessions[n] = "none" /\ sessions'[n] # "none" =>
          /\ ~Names(n) /\ \A c \in Pages : calls[c].ref # <<n, life>>
  BY FreshIs DEF Manages
<1>6. Answers'
  BY <1>5 DEF AccInv, Answers, Manages
<1>11. Known'
  BY DEF AccInv, Known, Manages
<1>7. Created'
  BY DEF AccInv, Created, Deletes, Manages
<1>8. Alone'
  <2>1. Stale' <=> Stale
    BY DEF Stale, Manages
  <2>2. ASSUME Stale
        PROVE  /\ adopting' = 0 /\ (job' = "login" => account'.session = 0)
               /\ \A r \in adrift' : r.kind \notin {"login", "create"}
    BY <2>2 DEF AccInv, Alone, Manages
  <2>3. ASSUME Stale, NEW n \in Numbers, sessions'[n] # "none"
        PROVE  account'.session = n /\ account'.state \in {"enabled", "disabled"}
    <3>1. CASE sessions[n] = "none"
      BY <2>3, <3>1 DEF Manages
    <3>2. CASE sessions[n] # "none"
      <4>1. /\ account.session = n /\ account.state \in {"enabled", "disabled"} /\ adopting = 0
            /\ job = "login" => account.session = 0
        BY <2>3, <3>2 DEF AccInv, Alone
      <4> QED BY <2>3, <4>1, RefsAre DEF Manages
    <3> QED BY <3>1, <3>2
  <2> QED BY <2>1, <2>2, <2>3 DEF Alone
<1>9. OneTab'
  <2>1. Editor \in Pages /\ UNCHANGED <<inUse, life, store, tab, calls>>
    BY DEF Pages, Manages
  <2> QED BY <1>5, <2>1, TabStays
<1>10. KeepsHold
  <2> SUFFICES ASSUME NEW n \in Numbers, sessions'[n] # "none", sessions[n] = "none" \/ Names(n)
               PROVE  Names(n)' \/ SetupRace
    BY DEF KeepsHold, Excused
  <2>1. CASE sessions[n] = "none"
    BY <2>1 DEF Manages, Names
  <2>2. CASE account.session = n /\ account.state \in {"enabled", "disabled"}
    BY <2>2, RefsAre DEF Manages, Names, SetupRace
  <2>3. CASE adopting = n
    BY <2>3, RefsAre DEF SetupRace
  <2>4. CASE /\ ~(account.session = n /\ account.state \in {"enabled", "disabled"})
             /\ adopting # n /\ sessions[n] # "none"
    BY <2>4 DEF Manages, Names
  <2> QED BY <2>1, <2>2, <2>3, <2>4
<1> QED BY <1>2, <1>3, <1>4, <1>6, <1>7, <1>8, <1>9, <1>10, <1>11 DEF AccInv

LEMMA RestartKeeps ==
    ASSUME AccInv, Restart
    PROVE  AccInv' /\ KeepsHold
<1>1. /\ faults < MaxFaults /\ faults' = faults + 1 /\ life' = life + 1
      /\ \A n \in Numbers : sessions'[n] = "none"
      /\ account' = [account EXCEPT !.session = 0] /\ job' = "idle" /\ adopting' = 0 /\ adrift' = {}
      /\ calls' = [c \in Pages |-> IF calls[c].phase = "sent"
                                     THEN [calls[c] EXCEPT !.phase = "refused"] ELSE calls[c]]
      /\ server' = [server EXCEPT !.changing = FALSE]
      /\ UNCHANGED <<inUse, dialog, shown, store, tab>>
  BY DEF Restart, Fault, pages
<1>2. AccountsTypeOK /\ Lived /\ life \in Nat /\ faults \in Nat /\ MaxFaults \in Nat
  BY AccountsAssumption DEF AccInv, AccountsTypeOK, Lives
<1>3. \A c \in Pages : /\ calls'[c] \in Call /\ calls'[c].kind = calls[c].kind /\ calls'[c].ref = calls[c].ref
                       /\ calls'[c].got = calls[c].got /\ calls'[c].ready = calls[c].ready
                       /\ calls[c].phase # "sent" => calls'[c] = calls[c]
                       /\ calls'[c].phase \in {"done", "missing"} => calls'[c] = calls[c]
                       /\ calls[c].phase = "done" => calls'[c].phase = "done"
  BY <1>1, <1>2 DEF AccountsTypeOK, Call
<1>4. Desk \in Pages /\ Editor \in Pages
  BY DEF Pages
<1>5. AccountsTypeOK'
  <2>1. sessions' \in [Numbers -> SessionStates]
    BY DEF Restart, SessionStates
  <2>2. account' \in Account /\ account'.state = account.state
    BY <1>1, <1>2, ManagerTyped
  <2>3. life' \in Lives /\ faults' \in 0..MaxFaults
    BY <1>1, <1>2 DEF Lives, Lived
  <2>4. calls' \in [Pages -> Call]
    BY <1>1, <1>3
  <2>5. server' \in Server
    BY <1>1, <1>2 DEF AccountsTypeOK, Server
  <2> QED BY <1>1, <1>2, <2>1, <2>2, <2>3, <2>4, <2>5 DEF AccountsTypeOK
<1>6. Lived'
  BY <1>1, <1>2 DEF Lived
<1>7. Orderly'
  BY <1>1, <1>3, <1>4, NothingAsked DEF AccInv, Orderly
<1>8. Answers'
  <2>1. ASSUME NEW c \in Pages
        PROVE  calls[c].ref[2] <= life' /\ calls[c].got[2] <= life'
    <3>1. calls[c].ref[2] \in Nat /\ calls[c].got[2] \in Nat
      BY <1>2, RefsAre DEF AccountsTypeOK, Call
    <3> QED BY <1>1, <1>2, <3>1 DEF AccInv, Answers
  <2> QED BY <1>1, <1>3, <2>1, NothingAsked DEF AccInv, Answers
<1>9. Created'
  <2>1. account'.state = account.state
    BY <1>1, <1>2, ManagerTyped
  <2>2. ASSUME Deletes = {} PROVE Deletes' = {}
    <3>1. \A c \in Pages : calls[c].kind # "delete"
      BY <2>2 DEF Deletes
    <3>2. \A c \in Pages : calls'[c].kind # "delete"
      BY <1>3, <3>1
    <3> QED BY <1>1, <3>2 DEF Deletes
  <2> QED BY <1>1, <1>3, <1>4, <2>1, <2>2 DEF AccInv, Created
<1>10. Alone'
  BY <1>1 DEF Alone
<1>11. OneTab'
  BY <1>1, <1>3, <1>4 DEF AccInv, OneTab
<1>13. Known'
  <2>1. /\ dialog.session \in Refs /\ store \in Refs /\ tab.saved \in Refs /\ tab.session \in Refs
        /\ tab.poll.got \in Refs
    BY <1>2 DEF AccountsTypeOK, Dialog, Tab, Poll
  <2>2. \A r \in Refs : r[2] <= life => r[2] <= life'
    BY <1>1, <1>2, RefsAre
  <2> QED BY <1>1, <2>1, <2>2 DEF AccInv, Known
<1>12. KeepsHold
  BY <1>1 DEF KeepsHold
<1> QED BY <1>5, <1>6, <1>7, <1>8, <1>9, <1>10, <1>11, <1>12, <1>13 DEF AccInv

(* A request that is served, with its answer or without one, leaves the     *)
(* account and the sessions as the invariant has them, for dialogs and tabs *)
(* that stay as they are.                                                   *)
LEMMA EffectKeeps ==
    ASSUME AccInv, NEW r \in Call, NEW phase \in {"done", "missing", "refused"}, NEW got \in Refs,
           EffectFacts(r, phase, got)
    PROVE  /\ account.state # "absent" => account'.state # "absent"
           /\ life' = life /\ job' \in {"idle", "login", "entering"} /\ server' \in Server
           /\ job' # "idle" => account'.state = "enabled"
           /\ \A n \in Numbers : sessions[n] = "none" /\ sessions'[n] # "none" =>
                  /\ r.kind = "login" /\ got = <<n, life>> /\ ~Names(n)
                  /\ \A c \in Pages : calls[c].ref # <<n, life>>
           /\ Stale /\ r.kind \notin {"login", "create"} =>
                  /\ adopting' = 0 /\ (job' = "login" => account'.session = 0)
                  /\ \A n \in Numbers : sessions'[n] # "none" =>
                         account'.session = n /\ account'.state \in {"enabled", "disabled"}
<1>1. account.state # "absent" => account'.state # "absent"
  BY DEF EffectFacts, Accounting
<1>2. life' = life /\ job' \in {"idle", "login", "entering"} /\ server' \in Server
  BY DEF EffectFacts, AccInv, AccountsTypeOK
<1>3. job' # "idle" => account'.state = "enabled"
  BY DEF EffectFacts, Accounting, AccInv, Lived
<1>4. \A n \in Numbers : sessions[n] = "none" /\ sessions'[n] # "none" =>
          /\ r.kind = "login" /\ got = <<n, life>> /\ ~Names(n)
          /\ \A c \in Pages : calls[c].ref # <<n, life>>
  BY FreshIs DEF EffectFacts, Born
<1>5. ASSUME Stale, r.kind \notin {"login", "create"}
      PROVE  /\ adopting' = 0 /\ (job' = "login" => account'.session = 0)
             /\ \A n \in Numbers : sessions'[n] # "none" =>
                    account'.session = n /\ account'.state \in {"enabled", "disabled"}
  <2>1. /\ adopting = 0 /\ (job = "login" => account.session = 0)
        /\ \A n \in Numbers : sessions[n] # "none" =>
               account.session = n /\ account.state \in {"enabled", "disabled"}
    BY <1>5 DEF AccInv, Alone
  <2>2. adopting' = 0 /\ (job' = "login" => account'.session = 0)
    BY <1>5, <2>1 DEF EffectFacts, Accounting
  <2>3. ASSUME NEW n \in Numbers, sessions'[n] # "none"
        PROVE  account'.session = n /\ account'.state \in {"enabled", "disabled"}
    <3>1. sessions[n] # "none"
      BY <1>4, <1>5, <2>3
    <3> QED BY <2>1, <2>3, <3>1 DEF EffectFacts, Accounting
  <2> QED BY <2>2, <2>3
<1> QED BY <1>1, <1>2, <1>3, <1>4, <1>5

(* Who holds a session by a page, a request of a page, or the account,      *)
(* still does after a request was served.                                   *)
LEMMA EffectHolds ==
    ASSUME AccInv, NEW r \in Call, NEW phase \in {"done", "missing", "refused"}, NEW got \in Refs,
           EffectFacts(r, phase, got), UNCHANGED <<dialog, store, tab>>,
           NEW n \in Numbers, sessions'[n] # "none", Names(n)
    PROVE  \/ Names(n)' \/ SetupRace
           \/ \E c \in Pages : calls[c].got = <<n, life>>
           \/ \E c \in Pages : calls[c].kind \in {"stop", "create"} /\ calls[c].ref = <<n, life>>
           \/ \E a \in adrift : a.kind \in {"stop", "create"} /\ a.ref = <<n, life>>
<1>1. life' = life
  BY DEF EffectFacts
<1>2. CASE account.session = n /\ account.state \in {"enabled", "disabled"}
  BY <1>2 DEF EffectFacts, Accounting, Names
<1>3. CASE adopting = n
  BY <1>3, RefsAre DEF SetupRace
<1>4. CASE dialog.session = <<n, life>> \/ store = <<n, life>> \/ tab.saved = <<n, life>>
  BY <1>1, <1>4 DEF Names
<1> QED BY <1>2, <1>3, <1>4 DEF Names

LEMMA ServeKeeps ==
    ASSUME AccInv, NEW c \in Pages, Serve(c)
    PROVE  AccInv' /\ KeepsHold
<1>1. PICK phase \in {"done", "missing", "refused"}, got \in Refs :
        /\ Effect(calls[c], phase, got)
        /\ calls' = [calls EXCEPT ![c].phase = phase, ![c].got = got,
                         ![c].ready = got # NoRef /\ sessions'[got[1]] = "ready"]
  BY DEF Serve
<1>2. /\ calls[c].phase = "sent" /\ calls[c] \in Call /\ calls[c].kind # "none"
      /\ calls[c].got = NoRef /\ calls \in [Pages -> Call]
      /\ UNCHANGED <<inUse, adrift, dialog, shown, store, tab, faults>>
  BY NothingAsked DEF Serve, AccInv, AccountsTypeOK, Answers, pages
<1>3. EffectFacts(calls[c], phase, got)
  BY <1>1, <1>2, EffectIs DEF AccInv
<1>4. /\ calls'[c] \in Call /\ calls'[c].kind = calls[c].kind /\ calls'[c].ref = calls[c].ref
      /\ calls'[c].phase = phase /\ calls'[c].got = got /\ (calls'[c].ready => got # NoRef)
      /\ \A d \in Pages \ {c} : calls'[d] = calls[d]
      /\ calls' \in [Pages -> Call]
  BY <1>1, <1>2 DEF Call
<1>5. \A d \in Pages : calls'[d].kind = calls[d].kind /\ calls'[d].ref = calls[d].ref
  BY <1>4
<1>6. Desk \in Pages /\ Editor \in Pages /\ Desk # Editor /\ Pages = {Desk, Editor}
  BY Distinct DEF Pages
<1>7. /\ account.state # "absent" => account'.state # "absent"
      /\ life' = life /\ job' \in {"idle", "login", "entering"} /\ server' \in Server
      /\ job' # "idle" => account'.state = "enabled"
      /\ \A n \in Numbers : sessions[n] = "none" /\ sessions'[n] # "none" =>
             /\ calls[c].kind = "login" /\ got = <<n, life>> /\ ~Names(n)
             /\ \A d \in Pages : calls[d].ref # <<n, life>>
  BY <1>2, <1>3, EffectKeeps
<1>8. AccountsTypeOK'
  BY <1>2, <1>3, <1>4, <1>7 DEF AccInv, AccountsTypeOK, EffectFacts
<1>9. Lived'
  BY <1>2, <1>7 DEF AccInv, Lived
<1>10. Orderly'
  BY <1>2, <1>4, <1>5, <1>6, NothingAsked DEF AccInv, Orderly
<1>11. Answers'
  <2>1. life \in Nat /\ NoRef[2] = 0 /\ 0 <= life
    BY RefsAre, AccountsAssumption DEF AccInv, AccountsTypeOK, Lives
  <2>2. /\ calls'[c].ref[2] <= life' /\ calls'[c].got[2] <= life'
        /\ calls'[c].kind # "none" /\ (calls'[c].ready => calls'[c].got # NoRef)
    <3>1. calls[c].ref[2] <= life
      BY DEF AccInv, Answers
    <3>2. got[2] <= life
      BY <1>3, <2>1 DEF EffectFacts, Answering
    <3> QED BY <1>2, <1>4, <1>7, <3>1, <3>2
  <2>3. /\ got # NoRef <=> phase = "done" /\ calls[c].kind \in {"login", "enter", "list", "potential"}
        /\ got # NoRef /\ calls[c].kind # "login" => got[1] = calls[c].ref[1] /\ calls[c].ref[2] <= got[2]
    BY <1>3 DEF EffectFacts, Answering, AccInv, Answers
  <2>4. calls[c].kind = "stop" => \A n \in Numbers : calls[c].ref = <<n, life>> => sessions'[n] = "none"
    BY <1>3, RefsAre DEF EffectFacts, Answering
  <2>5. ASSUME NEW d \in Pages \ {c}, calls[d].kind = "stop", calls[d].phase \in {"done", "missing"},
               NEW n \in Numbers, calls[d].ref = <<n, life>>
        PROVE  sessions'[n] = "none"
    BY <1>7, <2>5 DEF AccInv, Answers
  <2> QED BY <1>4, <1>7, <2>2, <2>3, <2>4, <2>5 DEF AccInv, Answers
<1>16. Known'
  BY <1>2, <1>7 DEF AccInv, Known
<1>12. Created'
  <2>1. Deletes = {} => Deletes' = {}
    BY <1>2, <1>5 DEF Deletes
  <2>2. account'.state = "absent" => shown' = "absent" /\ Deletes' = {}
    BY <1>2, <1>7, <2>1 DEF AccInv, Created
  <2>3. ASSUME calls'[Desk].kind = "create", calls'[Desk].phase = "done"
        PROVE  account'.state \in {"enabled", "disabled"} /\ Deletes' = {}
    <3>1. c = Desk
      BY <1>2, <1>4, <1>6, <2>3, OneAtWork, NothingAsked
    <3>2. account.state = "absent" /\ account'.state = "enabled"
      BY <1>3, <1>4, <2>3, <3>1 DEF EffectFacts, Accounting
    <3> QED BY <2>1, <3>2 DEF AccInv, Created
  <2> QED BY <2>2, <2>3 DEF Created
<1>13. Alone'
  <2>1. SUFFICES ASSUME Stale' PROVE Alone'
    BY DEF Alone
  <2>2. Stale
    <3>1. CASE c = Desk
      BY <1>2, <1>3, <1>4, <1>7, <2>1, <3>1 DEF Stale, EffectFacts, Answering
    <3>2. CASE c # Desk
      BY <1>2, <1>4, <1>6, <1>7, <2>1, <3>2 DEF Stale
    <3> QED BY <3>1, <3>2
  <2>3. calls[c].kind \in {"enter", "stop"}
    BY <1>2, <1>6, <2>2, StaleIs
  <2>4. /\ adopting' = 0 /\ (job' = "login" => account'.session = 0)
        /\ \A n \in Numbers : sessions'[n] # "none" =>
               account'.session = n /\ account'.state \in {"enabled", "disabled"}
    BY <1>2, <1>3, <2>2, <2>3, EffectKeeps
  <2>5. \A r \in adrift' : r.kind \notin {"login", "create"}
    BY <1>2, <2>2 DEF AccInv, Alone
  <2> QED BY <2>4, <2>5 DEF Alone
<1>14. OneTab'
  BY <1>2, <1>5, <1>6, <1>7, TabStays
<1>15. KeepsHold
  <2> SUFFICES ASSUME NEW n \in Numbers, sessions'[n] # "none", sessions[n] = "none" \/ Names(n)
               PROVE  Names(n)' \/ Excused
    BY DEF KeepsHold
  <2>1. CASE sessions[n] = "none"
    BY <1>4, <1>7, <2>1 DEF Names
  <2>2. CASE Names(n)
    <3>1. CASE \E d \in Pages : calls[d].got = <<n, life>>
      BY <1>2, <1>4, <1>7, <3>1, RefsAre DEF Names, AccInv, AccountsTypeOK
    <3>2. CASE \E d \in Pages : calls[d].kind \in {"stop", "create"} /\ calls[d].ref = <<n, life>>
      BY <1>5, <1>7, <3>2 DEF Names
    <3>3. CASE \E a \in adrift : a.kind \in {"stop", "create"} /\ a.ref = <<n, life>>
      BY <1>2, <1>7, <3>3 DEF Names
    <3> QED BY <1>2, <1>3, <2>2, <3>1, <3>2, <3>3, EffectHolds DEF Excused
  <2> QED BY <2>1, <2>2
<1> QED BY <1>8, <1>9, <1>10, <1>11, <1>12, <1>13, <1>14, <1>15, <1>16 DEF AccInv

LEMMA ServeAdriftKeeps ==
    ASSUME AccInv, NEW r, ServeAdrift(r)
    PROVE  AccInv' /\ KeepsHold
<1>1. PICK phase \in {"done", "missing", "refused"}, got \in Refs : Effect(r, phase, got)
  BY DEF ServeAdrift
<1>2. /\ r \in adrift /\ r \in Call /\ adrift' = adrift \ {r}
      /\ UNCHANGED <<inUse, calls, dialog, shown, store, tab, faults>>
  BY DEF ServeAdrift, AccInv, AccountsTypeOK, pages
<1>3. EffectFacts(r, phase, got)
  BY <1>1, <1>2, EffectIs DEF AccInv
<1>7. /\ account.state # "absent" => account'.state # "absent"
      /\ life' = life /\ job' \in {"idle", "login", "entering"} /\ server' \in Server
      /\ job' # "idle" => account'.state = "enabled"
      /\ \A n \in Numbers : sessions[n] = "none" /\ sessions'[n] # "none" =>
             /\ r.kind = "login" /\ got = <<n, life>> /\ ~Names(n)
             /\ \A d \in Pages : calls[d].ref # <<n, life>>
  BY <1>2, <1>3, EffectKeeps
<1>8. AccountsTypeOK'
  BY <1>2, <1>3, <1>7 DEF AccInv, AccountsTypeOK, EffectFacts
<1>9. Lived'
  BY <1>2, <1>7 DEF AccInv, Lived
<1>10. Orderly'
  BY <1>2 DEF AccInv, Orderly
<1>11. Answers'
  BY <1>2, <1>7 DEF AccInv, Answers
<1>16. Known'
  BY <1>2, <1>7 DEF AccInv, Known
<1>12. Created'
  <2>1. Deletes = {} => Deletes' = {} /\ r.kind # "delete"
    BY <1>2 DEF Deletes
  <2> QED BY <1>2, <1>3, <1>7, <2>1 DEF AccInv, Created, EffectFacts, Accounting
<1>13. Alone'
  <2>1. Stale' => Stale
    BY <1>2, <1>7 DEF Stale
  <2> QED BY <1>2, <1>3, <2>1, EffectKeeps DEF AccInv, Alone
<1>14. OneTab'
  <2>1. Editor \in Pages
    BY DEF Pages
  <2> QED BY <1>2, <1>7, <2>1, TabStays
<1>15. KeepsHold
  <2> SUFFICES ASSUME NEW n \in Numbers, sessions'[n] # "none", sessions[n] = "none" \/ Names(n)
               PROVE  Names(n)' \/ Excused
    BY DEF KeepsHold
  <2>1. CASE r.kind \in {"login", "create"}
    BY <1>2, <2>1 DEF Excused
  <2>2. CASE r.kind \notin {"login", "create"}
    <3>1. Names(n)
      BY <1>7, <2>2
    <3>2. CASE \/ \E d \in Pages : calls[d].got = <<n, life>>
               \/ \E d \in Pages : calls[d].kind \in {"stop", "create"} /\ calls[d].ref = <<n, life>>
      BY <1>2, <1>7, <3>2 DEF Names
    <3>3. CASE \E a \in adrift : a.kind \in {"stop", "create"} /\ a.ref = <<n, life>>
      <4>1. PICK a \in adrift : a.kind \in {"stop", "create"} /\ a.ref = <<n, life>>
        BY <3>3
      <4>2. a # r
        BY <1>3, <2>2, <4>1, RefsAre DEF EffectFacts, Answering
      <4>3. a \in adrift'
        BY <1>2, <4>1, <4>2
      <4> QED BY <1>7, <4>1, <4>3 DEF Names
    <3> QED BY <1>2, <1>3, <3>1, <3>2, <3>3, EffectHolds DEF Excused
  <2> QED BY <2>1, <2>2
<1> QED BY <1>8, <1>9, <1>10, <1>11, <1>12, <1>13, <1>14, <1>15, <1>16 DEF AccInv

LEMMA GivenUpKeeps ==
    ASSUME AccInv, (\E c \in Pages : Abandon(c)) \/ (\E r \in adrift : Drop(r))
    PROVE  AccInv' /\ KeepsHold
<1>1. /\ faults' = faults + 1 /\ faults' \in 0..MaxFaults /\ faults \in Nat
      /\ UNCHANGED <<inUse, life, sessions, server, account, job, adopting, dialog, shown, store, tab>>
  <2>1. Fault /\ UNCHANGED <<inUse, auto, pages>>
    BY DEF Abandon, Drop
  <2>2. faults \in 0..MaxFaults /\ MaxFaults \in Nat
    BY AccountsAssumption DEF AccInv, AccountsTypeOK
  <2>3. faults' = faults + 1 /\ faults' \in 0..MaxFaults /\ faults \in Nat
    BY <2>1, <2>2 DEF Fault
  <2> QED BY <2>1, <2>3 DEF auto, pages
<1>2. KeepsHold
  BY <1>1 DEF KeepsHold, Excused
<1>3. Desk \in Pages /\ Editor \in Pages /\ Desk # Editor /\ Pages = {Desk, Editor}
  BY Distinct DEF Pages
<1>4. Lived'
  BY <1>1, RefsAre DEF AccInv, Lived, AccountsTypeOK, Lives
<1>5. CASE \E r \in adrift : Drop(r)
  <2>1. calls' = calls /\ adrift' \subseteq adrift
    BY <1>5 DEF Drop
  <2>2. AccountsTypeOK'
    BY <1>1, <2>1 DEF AccInv, AccountsTypeOK
  <2>3. Orderly' /\ Known' /\ OneTab'
    <3>1. Orderly'
      BY <1>1, <2>1 DEF AccInv, Orderly
    <3>2. Known'
      BY <1>1 DEF AccInv, Known
    <3>3. OneTab'
      BY <1>1, <2>1 DEF AccInv, OneTab
    <3> QED BY <3>1, <3>2, <3>3
  <2>7. Answers'
    BY <1>1, <2>1 DEF AccInv, Answers
  <2>4. Deletes' \subseteq Deletes
    BY <2>1 DEF Deletes
  <2>5. Created'
    BY <1>1, <2>1, <2>4 DEF AccInv, Created
  <2>6. Alone'
    BY <1>1, <2>1 DEF AccInv, Alone, Stale
  <2> QED BY <1>2, <1>4, <2>2, <2>3, <2>5, <2>6, <2>7 DEF AccInv
<1>6. ASSUME NEW c \in Pages, Abandon(c) PROVE AccInv'
  <2>1. /\ calls[c].phase \in {"sent", "done"} /\ calls \in [Pages -> Call] /\ calls[c] \in Call
        /\ calls[c].kind # "none" /\ calls[c].phase # "none"
        /\ adrift' = (IF calls[c].phase = "sent" THEN adrift \cup {calls[c]} ELSE adrift)
        /\ calls' = [calls EXCEPT ![c].phase = "refused", ![c].got = NoRef, ![c].ready = FALSE]
    BY <1>6, NothingAsked DEF Abandon, AccInv, AccountsTypeOK, Answers
  <2>2. /\ calls'[c] \in Call /\ calls'[c].kind = calls[c].kind /\ calls'[c].ref = calls[c].ref
        /\ calls'[c].phase = "refused" /\ calls'[c].got = NoRef /\ calls'[c].ready = FALSE
        /\ \A d \in Pages \ {c} : calls'[d] = calls[d]
        /\ calls' \in [Pages -> Call]
    <3> DEFINE k == [calls[c] EXCEPT !.phase = "refused", !.got = NoRef, !.ready = FALSE]
    <3>1. /\ k \in Call /\ k.kind = calls[c].kind /\ k.ref = calls[c].ref
          /\ k.phase = "refused" /\ k.got = NoRef /\ k.ready = FALSE
      BY <2>1, RefsAre DEF Call
    <3>2. calls' = [calls EXCEPT ![c] = k]
      BY <2>1 DEF Call
    <3> HIDE DEF k
    <3>3. calls' \in [Pages -> Call] /\ calls'[c] = k /\ \A d \in Pages \ {c} : calls'[d] = calls[d]
      <4>1. calls \in [Pages -> Call] /\ k \in Call
        BY <2>1, <3>1
      <4> QED BY <3>2, <4>1
    <3> QED BY <3>1, <3>3
  <2>3. \A d \in Pages : calls'[d].kind = calls[d].kind /\ calls'[d].ref = calls[d].ref
    BY <2>2
  <2>4. AccountsTypeOK'
    BY <1>1, <2>1, <2>2 DEF AccInv, AccountsTypeOK
  <2>5. Orderly'
    <3>1. Orderly /\ \A d \in Pages : calls[d] = NoCall => calls'[d] = calls[d]
      BY <2>1, <2>2, NothingAsked DEF AccInv
    <3> QED BY <1>1, <1>3, <2>3, <3>1 DEF Orderly
  <2>6. Answers'
    <3>1. life \in Nat /\ NoRef[2] = 0 /\ 0 <= life
      BY RefsAre, AccountsAssumption DEF AccInv, AccountsTypeOK, Lives
    <3> QED BY <1>1, <2>1, <2>2, <2>3, <3>1 DEF AccInv, Answers
  <2>7. Created'
    <3>1. ASSUME Deletes = {} PROVE Deletes' = {}
      <4>1. \A d \in Pages : calls[d].kind # "delete"
        BY <3>1 DEF Deletes
      <4>2. \A d \in Pages : calls'[d].kind # "delete"
        BY <2>3, <4>1
      <4>3. \A r \in adrift' : r.kind # "delete"
        BY <2>1, <3>1, <4>1 DEF Deletes
      <4> QED BY <4>2, <4>3 DEF Deletes
    <3>2. calls'[Desk].kind = "create" /\ calls'[Desk].phase = "done" =>
              calls[Desk].kind = "create" /\ calls[Desk].phase = "done"
      BY <1>3, <2>2
    <3> QED BY <1>1, <3>1, <3>2 DEF AccInv, Created
  <2>8. Alone'
    <3>1. Stale' => Stale
      BY <1>1, <1>3, <2>2 DEF Stale
    <3>2. ASSUME Stale PROVE \A r \in adrift' : r.kind \notin {"login", "create"}
      <4>1. calls[c].phase = "sent" => calls[c].kind \in {"enter", "stop"}
        BY <1>3, <2>1, <3>2, StaleIs
      <4> QED BY <2>1, <3>2, <4>1 DEF AccInv, Alone
    <3> QED BY <1>1, <3>1, <3>2 DEF AccInv, Alone
  <2>9. OneTab'
    BY <1>1, <1>3, <2>3 DEF AccInv, OneTab
  <2>10. Known'
    BY <1>1 DEF AccInv, Known
  <2> QED BY <1>4, <2>4, <2>5, <2>6, <2>7, <2>8, <2>9, <2>10 DEF AccInv
<1> QED BY <1>2, <1>5, <1>6

LEMMA AccInvInit == AccountsInit => AccInv
<1> SUFFICES ASSUME AccountsInit PROVE AccInv
  OBVIOUS
<1> USE DEF AccountsInit
<1>1. /\ 0 \in Lives /\ 0 \in 0..MaxFaults /\ NoRef \in Refs /\ NoRef[2] = 0
      /\ NoCall \in Call /\ NewTab \in Tab /\ life = 0 /\ faults = 0
  BY RefsAre, NothingAsked, AccountsAssumption
<1>2. AccountsTypeOK
  <2>1. account \in Account /\ sessions \in [Numbers -> SessionStates]
    BY DEF Account, SessionStates
  <2>4. server \in Server
    BY DEF Server
  <2>2. dialog \in Dialog /\ shown \in Rows /\ calls \in [Pages -> Call]
    BY <1>1 DEF Dialog, Rows
  <2>3. tab.list = NoRef
    BY DEF NewTab
  <2> QED BY <1>1, <2>1, <2>2, <2>3, <2>4 DEF AccountsTypeOK
<1>3. Desk \in Pages /\ Editor \in Pages /\ \A c \in Pages : calls[c] = NoCall
  BY DEF Pages
<1>4. Lived /\ Orderly
  BY <1>1, <1>3, NothingAsked DEF Lived, Orderly
<1>5. Answers
  BY <1>1, <1>3, NothingAsked DEF Answers
<1>6. Known
  BY <1>1 DEF Known, NewTab, NoPoll
<1>7. Created
  <2>1. Deletes = {}
    BY <1>3, NothingAsked DEF Deletes
  <2> QED BY <1>3, <2>1, NothingAsked DEF Created
<1>8. Alone
  BY <1>3, NothingAsked DEF Alone, Stale
<1>9. OneTab
  BY <1>3, NothingAsked DEF OneTab, NewTab
<1> QED BY <1>2, <1>4, <1>5, <1>6, <1>7, <1>8, <1>9 DEF AccInv

(* A step of the dialog asks for one thing, or settles what was answered.   *)
Moves(k) ==
    /\ Desk \in inUse /\ UNCHANGED <<inUse, life, sessions, server, account, job, adopting, store, tab>>
    /\ calls' = [calls EXCEPT ![Desk] = k]
    /\ k \in Call /\ k.got = NoRef /\ k.ready = FALSE /\ k.phase \in {"none", "sent"}
    /\ k.ref[2] <= life /\ (k.kind = "none" => k = NoCall)
    /\ faults' \in 0..MaxFaults /\ faults <= faults'
    /\ shown' = shown /\ dialog' \in Dialog /\ dialog'.session[2] <= life
    /\ k.kind \in Asks(dialog'.step) \cup {"none"}
    /\ k.kind \in {"enter", "stop", "create"} => k.ref = dialog'.session
    /\ dialog'.step \in {"closed", "edit on", "edit off"} => dialog'.session = NoRef
    /\ k.kind = "delete" => shown # "absent"
    /\ adrift' \subseteq Call /\ \A r \in adrift' : r.kind = "delete" => r \in Deletes
    /\ Stale' => Stale /\ \A r \in adrift' : r \in adrift \/ r.kind = "stop"

LEMMA CallsAre ==
    ASSUME AccountsTypeOK, NEW c \in Pages, NEW k, calls' = [calls EXCEPT ![c] = k]
    PROVE  calls'[c] = k /\ \A d \in Pages \ {c} : calls'[d] = calls[d]
BY DEF AccountsTypeOK

LEMMA MovesKeeps ==
    ASSUME AccInv, NEW k, Moves(k)
    PROVE  AccInv'
<1>1. Desk \in Pages /\ Editor \in Pages /\ Desk # Editor /\ Pages = {Desk, Editor}
  BY Distinct DEF Pages
<1>2. calls'[Desk] = k /\ calls'[Editor] = calls[Editor]
  BY <1>1, CallsAre DEF AccInv, Moves
<1>3. /\ Desk \in inUse /\ UNCHANGED <<inUse, life, sessions, server, account, job, adopting, store, tab>>
      /\ shown' = shown
  BY DEF Moves
<1>4. AccountsTypeOK'
  <2>1. calls' \in [Pages -> Call]
    BY <1>1 DEF Moves, AccInv, AccountsTypeOK
  <2> QED BY <1>3, <2>1 DEF Moves, AccInv, AccountsTypeOK
<1>5. Lived'
  <2>1. /\ life \in 0..MaxFaults /\ faults \in 0..MaxFaults /\ faults' \in 0..MaxFaults
        /\ MaxFaults \in Nat /\ faults <= faults' /\ life <= faults
    BY AccountsAssumption DEF AccInv, AccountsTypeOK, Lives, Lived, Moves
  <2>2. life <= faults'
    BY <2>1
  <2> QED BY <1>3, <2>2 DEF AccInv, Lived
<1>6. Orderly'
  BY <1>2, <1>3 DEF AccInv, Orderly, Moves
<1>7. Answers'
  <2>1. NoRef[2] = 0 /\ 0 <= life
    BY RefsAre, AccountsAssumption DEF AccInv, AccountsTypeOK, Lives
  <2>2. k.got[2] <= life
    BY <2>1 DEF Moves
  <2>3. /\ k.ref[2] <= life /\ (k.kind = "none" => k = NoCall) /\ k.got = NoRef /\ k.ready = FALSE
        /\ k.phase \notin {"done", "missing"}
    BY DEF Moves
  <2> QED BY <1>1, <1>2, <1>3, <2>2, <2>3 DEF AccInv, Answers
<1>8. Known'
  BY <1>3 DEF AccInv, Known, Moves
<1>9. Created'
  <2>1. ASSUME Deletes = {}, k.kind # "delete" PROVE Deletes' = {}
    <3>1. calls[Editor].kind # "delete"
      BY <1>1, <2>1 DEF Deletes
    <3>2. \A c \in Pages : calls'[c].kind # "delete"
      BY <1>1, <1>2, <2>1, <3>1
    <3>3. \A r \in adrift' : r.kind # "delete"
      BY <2>1 DEF Moves
    <3> QED BY <3>2, <3>3 DEF Deletes
  <2>2. k.phase # "done" /\ (k.kind = "delete" => shown # "absent")
    BY DEF Moves
  <2> QED BY <1>2, <1>3, <2>1, <2>2 DEF AccInv, Created
<1>10. Alone'
  BY <1>3 DEF AccInv, Alone, Moves
<1>11. OneTab'
  BY <1>2, <1>3 DEF AccInv, OneTab
<1> QED BY <1>4, <1>5, <1>6, <1>7, <1>8, <1>9, <1>10, <1>11 DEF AccInv

(* Beside the session of the dialog, and the one it was answered, nothing   *)
(* slips out of its hands.                                                  *)
LEMMA MovesHold ==
    ASSUME AccInv, NEW k, Moves(k), adrift \subseteq adrift',
           NEW n, Names(n), dialog.session # <<n, life>>, calls[Desk].got # <<n, life>>
    PROVE  Names(n)'
<1>1. Desk \in Pages /\ Editor \in Pages /\ Desk # Editor /\ Pages = {Desk, Editor}
  BY Distinct DEF Pages
<1>2. calls'[Desk] = k /\ calls'[Editor] = calls[Editor]
  BY <1>1, CallsAre DEF AccInv, Moves
<1>3. UNCHANGED <<life, account, adopting, store, tab>>
  BY DEF Moves
<1>4. ~(calls[Desk].kind \in {"stop", "create"} /\ calls[Desk].ref = <<n, life>>)
  BY DEF AccInv, Orderly
<1>5. CASE \E c \in Pages : calls[c].got = <<n, life>> \/ (calls[c].kind \in {"stop", "create"} /\ calls[c].ref = <<n, life>>)
  BY <1>1, <1>2, <1>3, <1>4, <1>5 DEF Names
<1>6. CASE \E r \in adrift : r.kind \in {"stop", "create"} /\ r.ref = <<n, life>>
  BY <1>3, <1>6 DEF Names
<1> QED BY <1>3, <1>5, <1>6 DEF Names

(* A request of the desk, and none, as the next of its calls.               *)
LEMMA AskIs ==
    ASSUME NEW c, NEW kind \in Requests, NEW ref \in Refs, Ask(c, kind, ref)
    PROVE  LET k == [NoCall EXCEPT !.kind = kind, !.ref = ref, !.phase = "sent"]
           IN  /\ calls' = [calls EXCEPT ![c] = k] /\ k \in Call /\ k.kind = kind /\ k.ref = ref
               /\ k.phase = "sent" /\ k.got = NoRef /\ k.ready = FALSE /\ kind # "none"
<1>1. "none" \notin Requests
  BY DEF Requests
<1>2. calls' = [calls EXCEPT ![c] = [NoCall EXCEPT !.kind = kind, !.ref = ref, !.phase = "sent"]]
  BY DEF Ask
<1> QED BY <1>1, <1>2, RefsAre DEF NoCall, Call

(* What the desk needs to know of its own state.                            *)
LEMMA DeskIs ==
    ASSUME AccInv
    PROVE  /\ Desk \in Pages /\ faults \in 0..MaxFaults /\ faults <= faults /\ MaxFaults \in Nat
           /\ dialog \in Dialog /\ adrift \subseteq Call /\ calls[Desk] \in Call
           /\ dialog.session \in Refs /\ calls[Desk].ref \in Refs /\ calls[Desk].got \in Refs
           /\ calls[Desk].got[2] <= life /\ NoRef[2] <= life /\ dialog.session[2] <= life
           /\ NoCall.ref[2] <= life
           /\ \A r \in adrift : r.kind = "delete" => r \in Deletes
           /\ calls[Desk].kind \in Asks(dialog.step) \cup {"none"}
           /\ dialog.step \in {"closed", "credentials", "character", "entered", "edit on", "edit off"}
<1>1. 0 <= life
  BY AccountsAssumption DEF AccInv, AccountsTypeOK, Lives
<1>2. /\ Desk \in Pages /\ faults \in 0..MaxFaults /\ MaxFaults \in Nat
      /\ dialog \in Dialog /\ adrift \subseteq Call /\ calls[Desk] \in Call
  BY AccountsAssumption DEF AccInv, AccountsTypeOK, Pages
<1>3. faults <= faults
  BY <1>2
<1>4. NoRef[2] <= life
  BY <1>1, RefsAre
<1>5. calls[Desk].got[2] <= life /\ dialog.session[2] <= life
  BY <1>2 DEF AccInv, Answers, Known
<1>6. \A r \in adrift : r.kind = "delete" => r \in Deletes
  BY DEF Deletes
<1> QED BY <1>2, <1>3, <1>4, <1>5, <1>6, NothingAsked DEF Dialog, Call, AccInv, Orderly

(* The dialog stays or goes on to a step that lets it.                      *)
Turns ==
    /\ Desk \in inUse /\ UNCHANGED <<inUse, life, sessions, server, account, job, adopting, store, tab>>
    /\ shown' = shown /\ faults' \in 0..MaxFaults /\ faults <= faults'
    /\ dialog' \in Dialog /\ dialog'.session[2] <= life
    /\ dialog'.step \in {"closed", "edit on", "edit off"} => dialog'.session = NoRef
    /\ dialog' = dialog \/ dialog'.step # "character"

LEMMA AskMoves ==
    ASSUME AccInv, Turns, UNCHANGED adrift, NEW kind \in Requests, NEW ref \in Refs, Ask(Desk, kind, ref),
           kind \in Asks(dialog'.step), ref[2] <= life,
           kind \in {"enter", "stop", "create"} => ref = dialog'.session,
           kind = "delete" => shown # "absent"
    PROVE  \E k : Moves(k)
<1> USE DeskIs
<1> DEFINE k == [NoCall EXCEPT !.kind = kind, !.ref = ref, !.phase = "sent"]
<1>1. /\ calls' = [calls EXCEPT ![Desk] = k] /\ k \in Call /\ k.kind = kind /\ k.ref = ref
      /\ k.phase = "sent" /\ k.got = NoRef /\ k.ready = FALSE /\ kind # "none"
  BY AskIs
<1> HIDE DEF k
<1>2. calls'[Desk] = k
  BY <1>1, CallsAre DEF AccInv
<1>3. Stale' => Stale
  BY <1>1, <1>2 DEF Stale, Turns
<1> QED BY <1>1, <1>3 DEF Moves, Turns

LEMMA SettleMoves ==
    ASSUME AccInv, Turns, Settle(Desk), adrift' \subseteq Call,
           \A r \in adrift' : r.kind = "delete" => r \in Deletes,
           Stale' => \A r \in adrift' : r \in adrift \/ r.kind = "stop"
    PROVE  \E k : Moves(k)
<1> USE DeskIs
<1>1. calls' = [calls EXCEPT ![Desk] = NoCall]
  BY DEF Settle
<1>2. calls'[Desk] = NoCall
  BY <1>1, CallsAre DEF AccInv
<1>3. Stale' => Stale
  BY <1>2, NothingAsked DEF Stale, Turns
<1> QED BY <1>1, <1>3, NothingAsked DEF Moves, Turns

(* What holds the session of the dialog from now on, or has ended it.       *)
LEMMA DeskHolds ==
    ASSUME AccInv, NEW k, Moves(k), adrift \subseteq adrift',
           \A n \in Numbers : sessions[n] # "none" /\ (dialog.session = <<n, life>> \/ calls[Desk].got = <<n, life>>)
               => Names(n)' \/ Excused
    PROVE  KeepsHold
<1>1. sessions' = sessions
  BY DEF Moves
<1> QED BY <1>1, MovesHold DEF KeepsHold

LEMMA DeskActs ==
    ASSUME AccInv, AtDesk, UNCHANGED <<shown, faults>>
    PROVE  /\ Desk \in inUse /\ UNCHANGED <<inUse, life, sessions, server, account, job, adopting, store, tab>>
           /\ shown' = shown /\ faults' \in 0..MaxFaults /\ faults <= faults'
           /\ dialog' = dialog => Turns
<1>1. Desk \in inUse /\ UNCHANGED <<inUse, life, sessions, server, account, job, adopting, store, tab>>
  BY DEF AtDesk, auto
<1> QED BY <1>1, DeskIs DEF Turns, AccInv, Orderly

LEMMA RowKeeps ==
    ASSUME AccInv, RowAnswered \/ \E kind \in {"start", "halt", "delete", "reconnect"} : RowAction(kind)
    PROVE  AccInv' /\ KeepsHold
<1> USE DeskIs
<1>1. AtDesk /\ UNCHANGED <<dialog, shown, adrift, faults>>
  BY DEF RowAnswered, RowAction
<1>2. /\ calls[Desk].got = NoRef /\ dialog.step = "closed" /\ dialog.session = NoRef
      /\ calls[Desk].kind \notin {"login", "enter"}
  BY NothingAsked DEF AccInv, Orderly, Answers, Asks, RowAnswered, RowAction, Idle, Answered
<1>3. Turns
  BY <1>1, DeskActs
<1>4. \E k : Moves(k)
  <2>1. CASE RowAnswered
    BY <1>1, <1>3, <2>1, SettleMoves DEF RowAnswered
  <2>2. ASSUME NEW kind \in {"start", "halt", "delete", "reconnect"}, RowAction(kind) PROVE \E k : Moves(k)
    <3>1. Ask(Desk, kind, NoRef) /\ (kind = "delete" => shown # "absent")
      BY <2>2 DEF RowAction
    <3>2. kind \in Requests /\ kind \in Asks(dialog'.step)
      BY <1>1, <1>2 DEF Requests, Asks
    <3> QED BY <1>1, <1>3, <3>1, <3>2, RefsAre, AskMoves
  <2> QED BY <2>1, <2>2
<1>5. KeepsHold
  BY <1>1, <1>2, <1>4, DeskHolds, RefsAre DEF AccInv, AccountsTypeOK
<1> QED BY <1>4, <1>5, MovesKeeps

LEMMA OpenKeeps ==
    ASSUME AccInv, OpenDialog
    PROVE  AccInv' /\ KeepsHold
<1> USE DeskIs
<1>1. AtDesk /\ UNCHANGED <<calls, shown, adrift, faults>> /\ calls[Desk] = NoCall /\ dialog.step = "closed"
  BY DEF OpenDialog, Idle
<1>2. dialog' \in [step : {"credentials", "edit on", "edit off"}, session : {NoRef}]
  <2>1. PICK step \in {"credentials"} \cup (CASE shown = "absent" -> {}
                                             [] shown = "off" -> {"edit off"}
                                             [] OTHER -> {"edit on"}) :
                 dialog' = [step |-> step, session |-> NoRef]
    BY DEF OpenDialog
  <2>2. step \in {"credentials", "edit on", "edit off"}
    OBVIOUS
  <2> QED BY <2>1, <2>2
<1>3. Turns
  <2>1. dialog' \in Dialog /\ dialog'.session = NoRef /\ dialog'.step # "character"
    BY <1>2, RefsAre DEF Dialog
  <2> QED BY <1>1, <2>1, DeskActs DEF Turns
<1>4. Settle(Desk)
  BY <1>1 DEF Settle, AccInv, AccountsTypeOK
<1>5. \E k : Moves(k)
  BY <1>1, <1>3, <1>4, SettleMoves
<1>6. dialog.session = NoRef /\ calls[Desk].got = NoRef
  BY <1>1, NothingAsked DEF AccInv, Orderly
<1>7. KeepsHold
  BY <1>1, <1>5, <1>6, DeskHolds, RefsAre DEF AccInv, AccountsTypeOK
<1> QED BY <1>5, <1>7, MovesKeeps

LEMMA SubmitKeeps ==
    ASSUME AccInv, Submit
    PROVE  AccInv' /\ KeepsHold
<1> USE DeskIs
<1>1. AtDesk /\ UNCHANGED <<dialog, shown, adrift, faults>> /\ calls[Desk] = NoCall
  BY DEF Submit, Idle
<1>2. Turns
  BY <1>1, DeskActs
<1>3. \E kind \in Requests, ref \in {NoRef, dialog.session} :
          /\ Ask(Desk, kind, ref) /\ kind \in Asks(dialog.step) /\ kind # "delete"
          /\ kind \in {"enter", "stop", "create"} => ref = dialog.session
  BY DEF Submit, Requests, Asks
<1>4. \E k : Moves(k)
  BY <1>1, <1>2, <1>3, RefsAre, AskMoves
<1>5. KeepsHold
  <2>1. ASSUME NEW n \in Numbers, dialog.session = <<n, life>> PROVE Names(n)'
    BY <1>1, <2>1 DEF Names, AtDesk, auto
  <2>2. \A n \in Numbers : calls[Desk].got # <<n, life>>
    <3>1. life \in Lives /\ calls[Desk].got = NoRef
      BY <1>1, NothingAsked DEF AccInv, AccountsTypeOK
    <3> QED BY <3>1, RefsAre
  <2> QED BY <1>1, <1>4, <2>1, <2>2, DeskHolds
<1> QED BY <1>4, <1>5, MovesKeeps

LEMMA LoginAnsweredKeeps ==
    ASSUME AccInv, LoginAnswered
    PROVE  AccInv' /\ KeepsHold
<1> USE DeskIs
<1>1. AtDesk /\ UNCHANGED <<shown, adrift, faults>> /\ calls[Desk].kind = "login"
  BY DEF LoginAnswered, Answered
<1>2. dialog.step = "credentials" /\ life \in Lives
  BY <1>1 DEF Asks, AccInv, AccountsTypeOK
<1>3. Desk \in inUse /\ UNCHANGED <<inUse, life, sessions, server, account, job, adopting, store, tab>>
  BY <1>1, DeskActs
<1>4. CASE calls[Desk].phase # "done"
  <2>1. Settle(Desk) /\ dialog' = dialog
    BY <1>4 DEF LoginAnswered
  <2>2. \E k : Moves(k)
    BY <1>1, <2>1, DeskActs, SettleMoves
  <2>3. calls[Desk].got = NoRef
    BY <1>4 DEF AccInv, Answers
  <2>4. \A n \in Numbers : dialog.session = <<n, life>> => Names(n)'
    BY <1>3, <2>1 DEF Names
  <2>5. \A n \in Numbers : calls[Desk].got # <<n, life>>
    BY <1>2, <2>3, RefsAre
  <2>6. KeepsHold
    BY <1>1, <2>2, <2>4, <2>5, DeskHolds
  <2> QED BY <2>2, <2>6, MovesKeeps
<1>5. CASE calls[Desk].phase = "done"
  <2>6. \/ dialog' = [step |-> "character", session |-> calls[Desk].got] /\ Settle(Desk)
        \/ dialog' = [step |-> "credentials", session |-> calls[Desk].got] /\ Ask(Desk, "stop", calls[Desk].got)
    BY ONLY <1>5, LoginAnswered DEF LoginAnswered
  <2>7. calls[Desk].got # NoRef
    BY <1>1, <1>5 DEF AccInv, Answers
  <2>8. \E step \in {"character", "credentials"} : dialog' = [step |-> step, session |-> calls[Desk].got]
    BY ONLY <2>6
  <2>1. calls[Desk].got # NoRef /\ dialog'.session = calls[Desk].got
    BY ONLY <2>7, <2>8
  <2>2. dialog' \in Dialog /\ dialog'.step \in {"character", "credentials"}
    <3>1. calls[Desk].got \in Refs
      OBVIOUS
    <3>2. PICK step \in {"character", "credentials"} : dialog' = [step |-> step, session |-> calls[Desk].got]
      BY <2>8
    <3>3. dialog'.step = step /\ [step |-> step, session |-> calls[Desk].got] \in Dialog
      BY ONLY <3>1, <3>2 DEF Dialog
    <3> QED BY ONLY <3>2, <3>3
  <2>3. \E k : Moves(k)
    <3>1. CASE dialog'.step = "credentials"
      <4>1. Turns
        BY <1>1, <2>1, <2>2, <3>1, DeskActs DEF Turns
      <4>2. Ask(Desk, "stop", calls[Desk].got) /\ "stop" \in Requests /\ "stop" \in Asks(dialog'.step)
        BY ONLY <2>6, <3>1 DEF Requests, Asks
      <4> QED BY <1>1, <2>1, <4>1, <4>2, AskMoves
    <3>2. CASE dialog'.step = "character"
      <4>1. calls' = [calls EXCEPT ![Desk] = NoCall]
        BY ONLY <2>6, <3>2 DEF Settle
      <4>2. calls'[Desk] = NoCall
        BY <4>1, CallsAre DEF AccInv
      <4>3. Stale' => Stale
        BY <1>1, <1>3, <2>1, <4>2, NothingAsked DEF Stale
      <4>4. shown' = shown /\ faults' \in 0..MaxFaults /\ faults <= faults'
        BY <1>1, DeskActs
      <4> QED BY <1>1, <1>3, <2>1, <2>2, <3>2, <4>1, <4>3, <4>4, NothingAsked DEF Moves
    <3> QED BY <2>2, <3>1, <3>2
  <2>4. ASSUME NEW n \in Numbers, dialog.session = <<n, life>> \/ calls[Desk].got = <<n, life>>
        PROVE  Names(n)' \/ Excused
    <3>1. CASE dialog.session = <<n, life>>
      <4>1. dialog.session # NoRef
        BY <1>2, <3>1, RefsAre
      <4> QED BY <1>5, <1>1, <4>1 DEF Excused, LoginOverKept, Answered
    <3>2. CASE calls[Desk].got = <<n, life>>
      BY <1>3, <2>1, <3>2 DEF Names
    <3> QED BY <2>4, <3>1, <3>2
  <2>5. KeepsHold
    BY <1>1, <2>3, <2>4, DeskHolds
  <2> QED BY <2>3, <2>5, MovesKeeps
<1> QED BY <1>4, <1>5

LEMMA BackKeeps ==
    ASSUME AccInv, BackToCredentials
    PROVE  AccInv' /\ KeepsHold
<1> USE DeskIs
<1>1. /\ AtDesk /\ UNCHANGED <<shown, adrift, faults>> /\ Settle(Desk) /\ calls[Desk].kind = "stop"
      /\ dialog' = IF calls[Desk].phase = "done"
                     THEN [step |-> "credentials", session |-> NoRef] ELSE dialog
  BY DEF BackToCredentials, Answered
<1>2. Desk \in inUse /\ UNCHANGED <<inUse, life, sessions, server, account, job, adopting, store, tab>>
  BY <1>1, DeskActs
<1>3. Turns
  <2>1. CASE dialog' = dialog
    BY <1>1, <2>1, DeskActs
  <2>2. CASE dialog' = [step |-> "credentials", session |-> NoRef]
    <3>1. dialog' \in Dialog /\ dialog'.session = NoRef /\ dialog'.step = "credentials"
      BY <2>2, RefsAre DEF Dialog
    <3> QED BY <1>1, <3>1, DeskActs DEF Turns
  <2> QED BY <1>1, <2>1, <2>2
<1>4. \E k : Moves(k)
  BY <1>1, <1>3, SettleMoves
<1>5. calls[Desk].got = NoRef /\ calls[Desk].ref = dialog.session /\ life \in Lives
  BY <1>1 DEF AccInv, Answers, Orderly, AccountsTypeOK
<1>6. ASSUME NEW n \in Numbers, sessions[n] # "none", dialog.session = <<n, life>>
      PROVE  Names(n)'
  <2>1. calls[Desk].phase # "done"
    BY <1>1, <1>5, <1>6 DEF AccInv, Answers
  <2> QED BY <1>1, <1>2, <1>6, <2>1 DEF Names
<1>7. \A n \in Numbers : calls[Desk].got # <<n, life>>
  BY <1>5, RefsAre
<1>8. KeepsHold
  BY <1>1, <1>4, <1>6, <1>7, DeskHolds
<1> QED BY <1>4, <1>8, MovesKeeps

LEMMA EnterAnsweredKeeps ==
    ASSUME AccInv, EnterAnswered
    PROVE  AccInv' /\ KeepsHold
<1> USE DeskIs
<1>1. /\ AtDesk /\ UNCHANGED <<shown, adrift, faults>> /\ Settle(Desk) /\ calls[Desk].kind = "enter"
      /\ dialog' = IF calls[Desk].phase = "done" THEN [dialog EXCEPT !.step = "entered"] ELSE dialog
  BY DEF EnterAnswered, Answered
<1>2. Desk \in inUse /\ UNCHANGED <<inUse, life, sessions, server, account, job, adopting, store, tab>>
  BY <1>1, DeskActs
<1>3. dialog'.session = dialog.session /\ dialog' \in Dialog /\ (dialog' = dialog \/ dialog'.step = "entered")
  BY <1>1 DEF Dialog
<1>4. Turns
  BY <1>1, <1>3, DeskActs DEF Turns
<1>5. \E k : Moves(k)
  BY <1>1, <1>4, SettleMoves
<1>6. dialog.step = "character" /\ calls[Desk].ref = dialog.session /\ life \in Lives
  BY <1>1 DEF AccInv, Orderly, Asks, AccountsTypeOK
<1>7. ASSUME NEW n \in Numbers, sessions[n] # "none", dialog.session = <<n, life>> \/ calls[Desk].got = <<n, life>>
      PROVE  Names(n)'
  <2>1. CASE dialog.session = <<n, life>>
    BY <1>2, <1>3, <2>1 DEF Names
  <2>2. CASE calls[Desk].got = <<n, life>> /\ dialog.session[2] = life
    <3>1. calls[Desk].got # NoRef
      BY <1>6, <2>2, RefsAre
    <3>2. calls[Desk].got[1] = dialog.session[1] /\ calls[Desk].got[2] = life
      BY <1>1, <1>6, <2>2, <3>1 DEF AccInv, Answers
    <3>3. calls[Desk].got = dialog.session
      <4>1. calls[Desk].got \in Refs /\ dialog.session \in Refs
        OBVIOUS
      <4> QED BY ONLY <2>2, <3>2, <4>1, RefsAre
    <3> QED BY <2>1, <2>2, <3>3
  <2>3. CASE dialog.session[2] # life
    <3>1. account.session = n /\ account.state \in {"enabled", "disabled"}
      BY <1>6, <1>7, <2>3 DEF AccInv, Alone, Stale
    <3> QED BY <1>2, <3>1 DEF Names
  <2> QED BY <1>7, <2>1, <2>2, <2>3
<1>8. KeepsHold
  BY <1>1, <1>5, <1>7, DeskHolds
<1> QED BY <1>5, <1>8, MovesKeeps

LEMMA CompleteKeeps ==
    ASSUME AccInv, CompleteAnswered
    PROVE  AccInv' /\ KeepsHold
<1> USE DeskIs
<1>1. /\ AtDesk /\ UNCHANGED <<shown, adrift, faults>> /\ Settle(Desk)
      /\ calls[Desk].kind \in {"create", "save on", "save off"} /\ Answered(Desk, calls[Desk].kind)
      /\ dialog' = IF calls[Desk].phase = "done" THEN [step |-> "closed", session |-> NoRef] ELSE dialog
  BY DEF CompleteAnswered, Answered
<1>2. Desk \in inUse /\ UNCHANGED <<inUse, life, sessions, server, account, job, adopting, store, tab>>
  BY <1>1, DeskActs
<1>3. Turns
  <2>1. CASE dialog' = dialog
    BY <1>1, <2>1, DeskActs
  <2>2. CASE dialog' = [step |-> "closed", session |-> NoRef]
    <3>1. dialog' \in Dialog /\ dialog'.session = NoRef /\ dialog'.step = "closed"
      BY <2>2, RefsAre DEF Dialog
    <3> QED BY <1>1, <3>1, DeskActs DEF Turns
  <2> QED BY <1>1, <2>1, <2>2
<1>4. \E k : Moves(k)
  BY <1>1, <1>3, SettleMoves
<1>5. calls[Desk].got = NoRef /\ life \in Lives
  BY <1>1 DEF AccInv, Answers, AccountsTypeOK
<1>6. ASSUME NEW n \in Numbers, dialog.session = <<n, life>>
      PROVE  Names(n)' \/ Excused
  <2>1. dialog.session # NoRef /\ dialog.session[1] = n
    <3>1. n \in Numbers /\ life \in Lives
      BY <1>5, <1>6
    <3>2. \A r : r = <<n, life>> => r # NoRef /\ r[1] = n
      BY <3>1, PairIs
    <3> QED BY <1>6, <3>2
  <2>2. calls[Desk].kind = "create"
    BY <1>1, <2>1 DEF AccInv, Orderly, Asks
  <2>3. CASE calls[Desk].phase # "done"
    BY <1>1, <1>2, <1>6, <2>3 DEF Names
  <2>4. CASE calls[Desk].phase = "done" /\ account.session = n
    BY <1>2, <2>2, <2>4 DEF AccInv, Created, Names
  <2>5. CASE account.session # n
    BY <1>1, <2>1, <2>2, <2>5 DEF Excused, SetupRace
  <2> QED BY <2>3, <2>4, <2>5
<1>7. \A n \in Numbers : calls[Desk].got # <<n, life>>
  BY <1>5, RefsAre
<1>8. KeepsHold
  BY <1>1, <1>4, <1>6, <1>7, DeskHolds
<1> QED BY <1>4, <1>8, MovesKeeps

LEMMA CancelKeeps ==
    ASSUME AccInv, CancelAccountSetup
    PROVE  AccInv' /\ KeepsHold
<1> USE DeskIs
<1> DEFINE stop == [NoCall EXCEPT !.kind = "stop", !.ref = dialog.session, !.phase = "sent"]
<1>1. /\ AtDesk /\ UNCHANGED <<calls, shown, faults>> /\ calls[Desk] = NoCall
      /\ dialog' = [step |-> "closed", session |-> NoRef]
      /\ adrift' = IF dialog.session = NoRef THEN adrift ELSE adrift \cup {stop}
  BY DEF CancelAccountSetup, Idle
<1>2. stop \in Call /\ stop.kind = "stop" /\ stop.ref = dialog.session
  BY RefsAre DEF NoCall, Call, Requests
<1> HIDE DEF stop
<1>3. Turns
  <2>1. dialog' \in Dialog /\ dialog'.session = NoRef /\ dialog'.step = "closed"
    BY <1>1, RefsAre DEF Dialog
  <2> QED BY <1>1, <2>1, DeskActs DEF Turns
<1>4. Settle(Desk)
  BY <1>1 DEF Settle, AccInv, AccountsTypeOK
<1>5. /\ adrift' \subseteq Call /\ adrift \subseteq adrift'
      /\ \A r \in adrift' : (r \in adrift \/ r.kind = "stop") /\ (r.kind = "delete" => r \in Deletes)
  BY <1>1, <1>2
<1>6. \E k : Moves(k)
  BY <1>3, <1>4, <1>5, SettleMoves
<1>7. life \in Lives /\ life' = life /\ calls[Desk].got = NoRef
  BY <1>1, NothingAsked DEF AccInv, AccountsTypeOK, AtDesk, auto
<1>8. ASSUME NEW n \in Numbers, dialog.session = <<n, life>>
      PROVE  Names(n)'
  <2>1. dialog.session # NoRef
    BY <1>7, <1>8, RefsAre
  <2>2. stop \in adrift'
    BY <1>1, <2>1
  <2> QED BY <1>2, <1>7, <1>8, <2>2 DEF Names
<1>9. \A n \in Numbers : calls[Desk].got # <<n, life>>
  BY <1>7, RefsAre
<1>10. KeepsHold
  BY <1>5, <1>6, <1>8, <1>9, DeskHolds
<1> QED BY <1>6, <1>10, MovesKeeps

LEMMA LeaveKeeps ==
    ASSUME AccInv, LeaveDialog
    PROVE  AccInv' /\ KeepsHold
<1> USE DeskIs
<1>1. /\ AtDesk /\ shown' = shown /\ Settle(Desk) /\ faults' = faults + 1 /\ faults < MaxFaults
      /\ dialog' \in [step : {"closed", "credentials"}, session : {NoRef}]
      /\ adrift = {}
      /\ adrift' = IF calls[Desk].phase = "sent" THEN adrift \cup {calls[Desk]} ELSE adrift
  BY DEF LeaveDialog, Fault
<1>2. faults' \in 0..MaxFaults /\ faults <= faults' /\ faults' # faults
  <2>1. faults \in 0..MaxFaults /\ MaxFaults \in Nat
    OBVIOUS
  <2> QED BY ONLY <1>1, <2>1
<1>3. Turns
  <2>1. dialog' \in Dialog /\ dialog'.session = NoRef /\ dialog'.step \in {"closed", "credentials"}
    BY <1>1, RefsAre DEF Dialog
  <2>2. Desk \in inUse /\ UNCHANGED <<inUse, life, sessions, server, account, job, adopting, store, tab>>
    BY <1>1 DEF AtDesk, auto
  <2> QED BY <1>1, <1>2, <2>1, <2>2 DEF Turns
<1>4. ~Stale'
  <2>1. calls'[Desk] = NoCall
    BY <1>1, CallsAre DEF AccInv, Settle
  <2>2. dialog'.step # "character"
    BY <1>1
  <2> QED BY <2>1, <2>2, NothingAsked DEF Stale
<1>5. adrift' \subseteq Call /\ \A r \in adrift' : r.kind = "delete" => r \in Deletes
  BY <1>1 DEF Deletes
<1>6. \E k : Moves(k)
  BY <1>1, <1>3, <1>4, <1>5, SettleMoves
<1>7. KeepsHold
  BY <1>2 DEF KeepsHold, Excused
<1> QED BY <1>6, <1>7, MovesKeeps

LEMMA OverviewKeeps ==
    ASSUME AccInv, LoadOverview
    PROVE  AccInv' /\ KeepsHold
<1>1. /\ UNCHANGED <<inUse, life, sessions, server, account, job, adopting, store, tab>>
      /\ UNCHANGED <<dialog, calls, adrift, faults>> /\ shown' = RowNow
  BY DEF LoadOverview, AtDesk, auto
<1>2. shown' \in Rows /\ (account.state = "absent" => shown' = "absent")
  BY <1>1 DEF RowNow, Rows
<1>3. AccountsTypeOK' /\ Lived'
  BY <1>1, <1>2 DEF AccInv, AccountsTypeOK, Lived
<1>4. Orderly' /\ Known'
  BY <1>1 DEF AccInv, Orderly, Known
<1>5. Answers'
  BY <1>1 DEF AccInv, Answers
<1>6. Created'
  BY <1>1, <1>2 DEF AccInv, Created, Deletes
<1>7. Alone'
  BY <1>1 DEF AccInv, Alone, Stale
<1>8. OneTab'
  BY <1>1 DEF AccInv, OneTab
<1>9. KeepsHold
  BY <1>1 DEF KeepsHold, Names
<1> QED BY <1>3, <1>4, <1>5, <1>6, <1>7, <1>8, <1>9 DEF AccInv

(* What a step of the editor leaves alone, and what it may ask.             *)
Edits ==
    /\ Editor \in inUse /\ faults' \in 0..MaxFaults /\ faults <= faults'
    /\ UNCHANGED <<inUse, life, sessions, server, account, job, adopting, adrift, dialog, shown>>
    /\ store' \in Refs /\ tab' \in Tab /\ (tab'.list # NoRef => tab'.list[1] = tab'.session[1])
    /\ store'[2] <= life /\ tab'.saved[2] <= life /\ tab'.session[2] <= life /\ tab'.poll.got[2] <= life

Asked(k) ==
    /\ calls' = [calls EXCEPT ![Editor] = k]
    /\ k \in Call /\ k.got = NoRef /\ k.ready = FALSE /\ k.phase \in {"none", "sent"} /\ k.ref[2] <= life
    /\ k.kind \in {"none", "login", "enter", "list", "potential", "stop"} /\ (k.kind = "none" => k = NoCall)

LEMMA EditorIs ==
    ASSUME AccInv
    PROVE  /\ Editor \in Pages /\ faults \in 0..MaxFaults /\ faults <= faults /\ MaxFaults \in Nat
           /\ calls[Editor] \in Call /\ calls[Editor].got \in Refs /\ calls[Editor].ready \in BOOLEAN
           /\ calls[Editor].got[2] <= life /\ NoRef[2] <= life /\ life \in Lives
           /\ store \in Refs /\ tab \in Tab /\ (tab.list # NoRef => tab.list[1] = tab.session[1])
           /\ store[2] <= life /\ tab.saved[2] <= life /\ tab.session[2] <= life /\ tab.poll.got[2] <= life
           /\ tab.poll.got \in Refs /\ tab.poll.of \in Refs /\ tab.poll.ready \in BOOLEAN
           /\ tab.saved \in Refs /\ tab.session \in Refs /\ tab.list \in Refs
<1>1. 0 <= life
  BY AccountsAssumption DEF AccInv, AccountsTypeOK, Lives
<1>2. /\ Editor \in Pages /\ faults \in 0..MaxFaults /\ MaxFaults \in Nat
      /\ calls[Editor] \in Call /\ store \in Refs /\ tab \in Tab /\ (tab.list # NoRef => tab.list[1] = tab.session[1])
      /\ life \in Lives
  BY AccountsAssumption DEF AccInv, AccountsTypeOK, Pages
<1>3. faults <= faults /\ NoRef[2] <= life
  BY <1>1, <1>2, RefsAre
<1>4. calls[Editor].got[2] <= life
  BY <1>2 DEF AccInv, Answers
<1> QED BY <1>2, <1>3, <1>4 DEF Call, Tab, Poll, AccInv, Known

LEMMA EditsKeeps ==
    ASSUME AccInv, Edits, OneTab', calls' = calls \/ \E k : Asked(k)
    PROVE  AccInv'
<1>1. Desk \in Pages /\ Editor \in Pages /\ Desk # Editor /\ Pages = {Desk, Editor}
  BY Distinct DEF Pages
<1>2. PICK k : /\ calls'[Editor] = k /\ calls'[Desk] = calls[Desk] /\ calls' \in [Pages -> Call]
               /\ k = calls[Editor] \/ (Asked(k) /\ k.got[2] <= life)
  <2>1. CASE calls' = calls
    BY <1>1, <2>1 DEF AccInv, AccountsTypeOK
  <2>2. ASSUME NEW k, Asked(k)
        PROVE  calls'[Editor] = k /\ calls'[Desk] = calls[Desk] /\ calls' \in [Pages -> Call] /\ k.got[2] <= life
    BY <1>1, <2>2, EditorIs, CallsAre DEF AccInv, AccountsTypeOK, Asked
  <2> QED BY <2>1, <2>2
<1>3. UNCHANGED <<inUse, life, sessions, server, account, job, adopting, adrift, dialog, shown>>
  BY DEF Edits
<1>4. AccountsTypeOK'
  BY <1>2, <1>3 DEF Edits, AccInv, AccountsTypeOK
<1>5. Lived'
  <2>1. /\ life \in 0..MaxFaults /\ faults \in 0..MaxFaults /\ faults' \in 0..MaxFaults
        /\ MaxFaults \in Nat /\ faults <= faults' /\ life <= faults
    BY AccountsAssumption DEF AccInv, AccountsTypeOK, Lives, Lived, Edits
  <2>2. life <= faults'
    BY <2>1
  <2> QED BY <1>3, <2>2 DEF AccInv, Lived
<1>6. Orderly'
  BY <1>2, <1>3 DEF AccInv, Orderly, Asked, Edits
<1>7. Answers'
  <2>1. CASE k = calls[Editor]
    BY <1>1, <1>2, <1>3, <2>1 DEF AccInv, Answers
  <2>2. CASE Asked(k) /\ k.got[2] <= life
    <3>1. /\ k.ref[2] <= life /\ (k.kind = "none" => k = NoCall) /\ k.got = NoRef /\ k.ready = FALSE
          /\ k.phase \notin {"done", "missing"}
      BY <2>2 DEF Asked
    <3> QED BY <1>1, <1>2, <1>3, <2>2, <3>1 DEF AccInv, Answers
  <2> QED BY <1>2, <2>1, <2>2
<1>8. Known'
  BY <1>3 DEF AccInv, Known, Edits
<1>9. Created'
  <2>1. ASSUME Deletes = {} PROVE Deletes' = {}
    <3>1. calls[Desk].kind # "delete" /\ \A r \in adrift : r.kind # "delete"
      BY <1>1, <2>1 DEF Deletes
    <3>2. k.kind # "delete"
      BY <1>2 DEF Asked, AccInv, Orderly
    <3> QED BY <1>1, <1>2, <1>3, <3>1, <3>2 DEF Deletes
  <2> QED BY <1>2, <1>3, <2>1 DEF AccInv, Created
<1>10. Alone'
  BY <1>2, <1>3 DEF AccInv, Alone, Stale
<1> QED BY <1>4, <1>5, <1>6, <1>7, <1>8, <1>9, <1>10 DEF AccInv

(* With a single tab, what it saved, was answered or asked to stop is all   *)
(* that can slip out of its hands.                                          *)
LEMMA EditsHold ==
    ASSUME AccInv, Edits, calls' = calls \/ \E k : Asked(k),
           \A n \in Numbers :
               /\ Other \notin inUse /\ sessions[n] # "none"
               /\ \/ tab.saved = <<n, life>> \/ calls[Editor].got = <<n, life>>
                  \/ calls[Editor].kind = "stop" /\ calls[Editor].ref = <<n, life>>
               => Names(n)'
    PROVE  KeepsHold
<1>1. Desk \in Pages /\ Editor \in Pages /\ Desk # Editor /\ Pages = {Desk, Editor}
  BY Distinct DEF Pages
<1>2. calls'[Desk] = calls[Desk]
  BY <1>1, CallsAre DEF AccInv, Asked
<1>3. UNCHANGED <<inUse, life, sessions, account, adopting, adrift, dialog>>
  BY DEF Edits
<1> SUFFICES ASSUME NEW n \in Numbers, sessions[n] # "none", Names(n) PROVE Names(n)' \/ Excused
  BY <1>3 DEF KeepsHold
<1>4. CASE Other \in inUse
  BY <1>4, TwoTabs DEF AccInv, AccountsTypeOK, Excused
<1>5. CASE Other \notin inUse
  <2>1. store = tab.saved /\ calls[Editor].kind # "create"
    BY <1>5 DEF AccInv, OneTab, Orderly
  <2>2. CASE \/ tab.saved = <<n, life>> \/ calls[Editor].got = <<n, life>>
             \/ calls[Editor].kind = "stop" /\ calls[Editor].ref = <<n, life>>
    BY <1>5, <2>2
  <2>3. CASE \/ calls[Desk].got = <<n, life>>
             \/ calls[Desk].kind \in {"stop", "create"} /\ calls[Desk].ref = <<n, life>>
    BY <1>1, <1>2, <1>3, <2>3 DEF Names
  <2>4. CASE \/ account.session = n /\ account.state \in {"enabled", "disabled"}
             \/ adopting = n \/ dialog.session = <<n, life>>
             \/ \E r \in adrift : r.kind \in {"stop", "create"} /\ r.ref = <<n, life>>
    BY <1>3, <2>4 DEF Names
  <2> QED BY <1>1, <2>1, <2>2, <2>3, <2>4 DEF Names
<1> QED BY <1>4, <1>5

LEMMA ShowingIs ==
    ASSUME tab \in Tab, tab.list # NoRef => tab.list[1] = tab.session[1],
           NEW r \in Refs, NEW ready \in BOOLEAN, NEW t \in {Showing(r, ready), Accepting(r, ready)}
    PROVE  /\ t \in Tab /\ t.session = r /\ t.ready = ready /\ t.event = tab.event
           /\ t.list \in Refs /\ (t.list # NoRef => t.list[1] = r[1])
           /\ t = Showing(r, ready) => t.saved = tab.saved /\ t.poll = tab.poll
           /\ t = Accepting(r, ready) => t.saved = r /\ t.poll = NoPoll
<1>1. NoPoll \in Poll /\ NoRef \in Refs
  BY RefsAre, NothingAsked
<1>2. Showing(r, ready) = [tab EXCEPT !.session = r, !.ready = ready,
                                      !.list = IF tab.session[1] = r[1] THEN tab.list ELSE NoRef]
  BY DEF Showing
<1>3. /\ Showing(r, ready) \in Tab /\ Showing(r, ready).session = r /\ Showing(r, ready).ready = ready
      /\ Showing(r, ready).event = tab.event /\ Showing(r, ready).saved = tab.saved
      /\ Showing(r, ready).poll = tab.poll
      /\ Showing(r, ready).list = IF tab.session[1] = r[1] THEN tab.list ELSE NoRef
  BY <1>1, <1>2 DEF Tab
<1>7. ASSUME NEW s \in Tab
      PROVE  LET a == [s EXCEPT !.saved = r, !.poll = NoPoll]
             IN  /\ a \in Tab /\ a.session = s.session /\ a.ready = s.ready /\ a.event = s.event
                 /\ a.saved = r /\ a.poll = NoPoll /\ a.list = s.list
  BY ONLY <1>1, <1>7, r \in Refs DEF Tab
<1>4. Accepting(r, ready) = [Showing(r, ready) EXCEPT !.saved = r, !.poll = NoPoll]
  BY DEF Accepting
<1>5. PICK s, a : s = Showing(r, ready) /\ a = Accepting(r, ready)
  OBVIOUS
<1>8. /\ s \in Tab /\ s.session = r /\ s.ready = ready /\ s.event = tab.event
      /\ s.saved = tab.saved /\ s.poll = tab.poll
      /\ s.list = IF tab.session[1] = r[1] THEN tab.list ELSE NoRef
  BY <1>3, <1>5
<1>9. a = [s EXCEPT !.saved = r, !.poll = NoPoll]
  BY <1>4, <1>5
<1>10. /\ a \in Tab /\ a.session = r /\ a.ready = ready /\ a.event = tab.event
       /\ a.saved = r /\ a.poll = NoPoll /\ a.list = s.list
  BY ONLY <1>7, <1>8, <1>9
<1>6. tab.list \in Refs
  BY DEF Tab
<1>11. t \in {s, a}
  BY <1>5
<1>12. /\ t \in Tab /\ t.session = r /\ t.ready = ready /\ t.event = tab.event
       /\ t.list \in Refs /\ (t.list # NoRef => t.list[1] = r[1])
       /\ (t = s => t.saved = tab.saved /\ t.poll = tab.poll)
       /\ (t = a => t.saved = r /\ t.poll = NoPoll)
  BY <1>1, <1>6, <1>8, <1>10, <1>11
<1> QED BY <1>5, <1>12

LEMMA AsksKeeps ==
    ASSUME AccInv, EditorAsks
    PROVE  AccInv' /\ KeepsHold
<1> USE EditorIs
<1>1. /\ InEditor /\ UNCHANGED <<adrift, store, tab, faults>> /\ calls[Editor] = NoCall
  BY DEF EditorAsks, Idle
<1>2. PICK kind \in {"login", "enter", "list", "potential", "stop"}, ref \in {NoRef, tab.session, tab.saved} :
          /\ Ask(Editor, kind, ref)
          /\ kind = "login" => tab.saved = NoRef /\ tab.session = NoRef
          /\ kind \in {"enter", "list", "potential"} => ref = tab.session /\ (tab.session # NoRef \/ tab.ready)
          /\ kind = "stop" => ref = tab.saved /\ tab.saved # NoRef
  BY DEF EditorAsks
<1> DEFINE k == [NoCall EXCEPT !.kind = kind, !.ref = ref, !.phase = "sent"]
<1>3. /\ calls' = [calls EXCEPT ![Editor] = k] /\ k \in Call /\ k.kind = kind /\ k.ref = ref
      /\ k.phase = "sent" /\ k.got = NoRef /\ k.ready = FALSE /\ kind # "none"
  <2>1. kind \in Requests
    BY EditorRequests
  <2>2. ref \in Refs
    BY RefsAre
  <2> QED BY <1>2, <2>1, <2>2, AskIs
<1> HIDE DEF k
<1>4. calls'[Editor] = k
  BY <1>3, CallsAre DEF AccInv
<1>5. Asked(k)
  BY <1>3 DEF Asked
<1>6. Edits
  BY <1>1 DEF Edits, InEditor, auto
<1>7. OneTab'
  BY <1>1, <1>2, <1>3, <1>4, <1>6 DEF Edits, AccInv, OneTab
<1>8. KeepsHold
  <2>1. ASSUME NEW n \in Numbers, tab.saved = <<n, life>> PROVE Names(n)'
    BY <1>1, <1>6, <2>1 DEF Edits, Names
  <2>2. \A n \in Numbers : calls[Editor].got # <<n, life>> /\ calls[Editor].kind # "stop"
    BY <1>1, NothingAsked, RefsAre
  <2> QED BY <1>5, <1>6, <2>1, <2>2, EditsHold
<1> QED BY <1>5, <1>6, <1>7, <1>8, EditsKeeps

LEMMA SettledIs ==
    ASSUME AccInv, Settle(Editor)
    PROVE  Asked(NoCall) /\ calls'[Editor] = NoCall
BY EditorIs, NothingAsked, CallsAre DEF AccInv, Settle, Asked

LEMMA EditorAnsweredKeeps ==
    ASSUME AccInv, EditorAnswered
    PROVE  AccInv' /\ KeepsHold
<1> USE EditorIs
<1>1. /\ InEditor /\ UNCHANGED <<adrift, faults>> /\ Settle(Editor)
      /\ calls[Editor].kind \in {"login", "enter", "list", "potential"}
  BY DEF EditorAnswered, Answered
<1>2. /\ Editor \in inUse /\ faults' \in 0..MaxFaults /\ faults <= faults'
      /\ UNCHANGED <<inUse, life, sessions, server, account, job, adopting, adrift, dialog, shown>>
  BY <1>1 DEF InEditor, auto
<1>3. Asked(NoCall) /\ calls'[Editor] = NoCall
  BY <1>1, SettledIs
<1>4. CASE calls[Editor].phase # "done"
  <2>1. UNCHANGED <<store, tab>>
    BY <1>4 DEF EditorAnswered
  <2>2. Edits
    BY <1>2, <2>1 DEF Edits
  <2>3. OneTab'
    BY <1>2, <1>3, <2>1, NothingAsked DEF AccInv, OneTab
  <2>4. KeepsHold
    <3>1. calls[Editor].got = NoRef
      BY <1>4 DEF AccInv, Answers
    <3>2. \A n \in Numbers : calls[Editor].got # <<n, life>>
      BY <3>1, RefsAre
    <3>3. ASSUME NEW n \in Numbers, tab.saved = <<n, life>> PROVE Names(n)'
      BY <1>2, <2>1, <3>3 DEF Names
    <3> QED BY <1>1, <1>3, <2>2, <3>2, <3>3, EditsHold
  <2> QED BY <1>3, <2>2, <2>3, <2>4, EditsKeeps
<1>5. CASE calls[Editor].phase = "done"
  <2> DEFINE got == calls[Editor].got
  <2> DEFINE ready == calls[Editor].ready
  <2> DEFINE listed == calls[Editor].kind = "list" /\ tab.session[1] = got[1]
  <2> DEFINE a == Accepting(got, ready)
  <2>1. tab' = [a EXCEPT !.list = IF listed THEN got ELSE @] /\ store' = got
    BY <1>5 DEF EditorAnswered
  <2>2. got # NoRef /\ got \in Refs /\ ready \in BOOLEAN /\ got[2] <= life
    BY <1>1, <1>5 DEF AccInv, Answers
  <2>3. /\ a \in Tab /\ a.session = got /\ a.ready = ready /\ a.event = tab.event
        /\ a.list \in Refs /\ (a.list # NoRef => a.list[1] = got[1])
        /\ a.saved = got /\ a.poll = NoPoll
    BY <2>2, ShowingIs
  <2> HIDE DEF a
  <2>4. /\ tab' \in Tab /\ tab'.session = got /\ tab'.ready = ready /\ tab'.event = tab.event
        /\ tab'.saved = got /\ tab'.poll = NoPoll
        /\ tab'.list # NoRef => tab'.list[1] = got[1]
    <3> HIDE DEF got, ready
    <3>1. CASE listed
      <4>1. tab' = [a EXCEPT !.list = got]
        BY <2>1, <3>1
      <4> QED BY ONLY <2>2, <2>3, <4>1 DEF Tab
    <3>2. CASE ~listed
      <4>1. tab' = a
        BY <2>1, <2>3, <3>2 DEF Tab
      <4> QED BY ONLY <2>3, <4>1
    <3> QED BY <3>1, <3>2
  <2>5. Edits
    BY <1>2, <2>1, <2>2, <2>4, NothingAsked DEF Edits, NoPoll
  <2>6. OneTab'
    BY <1>2, <1>3, <2>1, <2>2, <2>4, NothingAsked DEF AccInv, OneTab
  <2>7. ASSUME NEW n \in Numbers, Other \notin inUse, tab.saved = <<n, life>> \/ got = <<n, life>>
        PROVE  Names(n)'
    <3>1. CASE got = <<n, life>>
      BY <1>2, <2>1, <3>1 DEF Names
    <3>2. CASE tab.saved = <<n, life>>
      <4>1. calls[Editor].kind # "login" /\ tab.saved = calls[Editor].ref
        BY <1>1, <2>7, <3>2, RefsAre DEF AccInv, OneTab
      <4>2. got[1] = n /\ life <= got[2]
        BY <1>1, <2>2, <3>2, <4>1, RefsAre DEF AccInv, Answers
      <4>3. got[2] = life
        BY ONLY <2>2, <4>2, RefsAre, life \in Lives, AccountsAssumption DEF Lives
      <4>4. got = <<n, life>>
        BY <2>2, <4>2, <4>3, RefsAre
      <4> QED BY <3>1, <4>4
    <3> QED BY <2>7, <3>1, <3>2
  <2>8. KeepsHold
    BY <1>1, <1>3, <2>5, <2>7, EditsHold
  <2> QED BY <1>3, <2>5, <2>6, <2>8, EditsKeeps
<1> QED BY <1>4, <1>5

(* What forgetting leaves.                                                  *)
LEMMA ForgetIs ==
    ASSUME AccInv, Forget
    PROVE  /\ store' = NoRef /\ tab' \in Tab /\ tab'.saved = NoRef /\ tab'.session = NoRef
           /\ tab'.ready = FALSE /\ tab'.poll = NoPoll /\ tab'.event = tab.event
           /\ tab'.list # NoRef => tab'.list[1] = tab'.session[1]
           /\ NoPoll.got = NoRef
<1>1. tab' = Accepting(NoRef, FALSE) /\ store' = NoRef /\ NoRef \in Refs /\ FALSE \in BOOLEAN
  BY RefsAre DEF Forget
<1>2. tab \in Tab /\ (tab.list # NoRef => tab.list[1] = tab.session[1])
  BY EditorIs
<1>3. PICK t : t = Accepting(NoRef, FALSE)
  OBVIOUS
<1>4. /\ t \in Tab /\ t.session = NoRef /\ t.ready = FALSE /\ t.event = tab.event
      /\ t.list # NoRef => t.list[1] = NoRef[1]
      /\ t.saved = NoRef /\ t.poll = NoPoll
  BY <1>1, <1>2, <1>3, ShowingIs
<1>5. NoPoll.got = NoRef
  BY DEF NoPoll
<1> QED BY <1>1, <1>3, <1>4, <1>5

LEMMA LoggedOutKeeps ==
    ASSUME AccInv, LoggedOut
    PROVE  AccInv' /\ KeepsHold
<1> USE EditorIs
<1>1. /\ InEditor /\ UNCHANGED <<adrift, faults>> /\ Settle(Editor) /\ calls[Editor].kind = "stop"
      /\ IF calls[Editor].phase \in {"done", "missing"} THEN Forget ELSE UNCHANGED <<store, tab>>
  BY DEF LoggedOut, Answered
<1>2. /\ Editor \in inUse /\ faults' \in 0..MaxFaults /\ faults <= faults'
      /\ UNCHANGED <<inUse, life, sessions, server, account, job, adopting, adrift, dialog, shown>>
  BY <1>1 DEF InEditor, auto
<1>3. Asked(NoCall) /\ calls'[Editor] = NoCall
  BY <1>1, SettledIs
<1>4. Edits /\ OneTab'
  <2>1. CASE UNCHANGED <<store, tab>>
    <3>1. Edits
      BY <1>2, <2>1 DEF Edits
    <3> QED BY <1>2, <1>3, <2>1, <3>1, NothingAsked DEF AccInv, OneTab
  <2>2. CASE Forget
    <3>1. Edits
      BY <1>2, <2>2, ForgetIs, RefsAre DEF Edits
    <3> QED BY <1>2, <1>3, <2>2, <3>1, ForgetIs, NothingAsked DEF AccInv, OneTab
  <2> QED BY <1>1, <2>1, <2>2
<1>5. ASSUME NEW n \in Numbers, Other \notin inUse, sessions[n] # "none",
             \/ tab.saved = <<n, life>> \/ calls[Editor].got = <<n, life>>
             \/ calls[Editor].kind = "stop" /\ calls[Editor].ref = <<n, life>>
      PROVE  Names(n)'
  <2>1. calls[Editor].got # <<n, life>>
    <3>1. calls[Editor].got = NoRef
      BY <1>1 DEF AccInv, Answers
    <3> QED BY <3>1, RefsAre
  <2>2. calls[Editor].ref = <<n, life>>
    BY <1>1, <1>5, <2>1, RefsAre DEF AccInv, OneTab
  <2>3. tab.saved = <<n, life>>
    BY <1>1, <1>5, <2>2 DEF AccInv, OneTab
  <2>4. calls[Editor].phase \notin {"done", "missing"}
    BY <1>1, <1>5, <2>2 DEF AccInv, Answers
  <2> QED BY <1>1, <1>2, <2>3, <2>4 DEF Names
<1>6. KeepsHold
  BY <1>3, <1>4, <1>5, EditsHold
<1> QED BY <1>3, <1>4, <1>6, EditsKeeps

LEMMA PollKeeps ==
    ASSUME AccInv, PollSession
    PROVE  AccInv' /\ KeepsHold
<1> USE EditorIs
<1> DEFINE n == tab.saved[1]
<1> DEFINE poll == [of |-> tab.saved, ready |-> sessions[n] = "ready",
                    got |-> IF Live(n) THEN <<n, life>> ELSE NoRef]
<1>1. /\ InEditor /\ UNCHANGED <<calls, adrift, store, faults>> /\ tab.saved # NoRef
      /\ tab' = [tab EXCEPT !.poll = poll]
  BY DEF PollSession
<1>2. /\ Editor \in inUse /\ faults' \in 0..MaxFaults /\ faults <= faults'
      /\ UNCHANGED <<inUse, life, sessions, server, account, job, adopting, adrift, dialog, shown>>
  BY <1>1 DEF InEditor, auto
<1>3. n \in Numbers /\ <<n, life>> \in Refs /\ <<n, life>>[2] = life /\ life <= life
  BY ONLY <1>1, RefsAre, tab.saved \in Refs, life \in Lives, AccountsAssumption DEF Lives
<1>4. poll \in Poll /\ poll.of = tab.saved /\ poll.got[2] <= life
      /\ poll.got = (IF Live(n) THEN <<n, life>> ELSE NoRef)
  <2>1. PICK got : got = (IF Live(n) THEN <<n, life>> ELSE NoRef)
    OBVIOUS
  <2>2. got \in Refs /\ got[2] <= life
    BY <1>3, <2>1, RefsAre
  <2>3. poll = [of |-> tab.saved, ready |-> sessions[n] = "ready", got |-> got]
    BY <2>1
  <2> HIDE DEF poll, n
  <2> QED BY <2>1, <2>2, <2>3 DEF Poll
<1> HIDE DEF poll
<1>5. /\ tab' \in Tab /\ tab'.saved = tab.saved /\ tab'.session = tab.session /\ tab'.ready = tab.ready
      /\ tab'.list = tab.list /\ tab'.event = tab.event /\ tab'.poll = poll
  BY <1>1, <1>4 DEF Tab
<1>6. Edits
  BY <1>1, <1>2, <1>4, <1>5 DEF Edits
<1>7. ASSUME Other \notin inUse, poll.got # poll.of, NEW m \in Numbers, tab.saved = <<m, life>>
      PROVE  sessions[m] = "none"
  <2>1. n = m
    BY <1>7, RefsAre
  <2>2. ~Live(n)
    BY <1>4, <1>7, <2>1
  <2> QED BY ONLY <1>3, <2>1, <2>2, RefsAre DEF Live
<1>8. OneTab'
  BY <1>1, <1>2, <1>4, <1>5, <1>7 DEF AccInv, OneTab
<1>9. ASSUME NEW m \in Numbers,
             \/ tab.saved = <<m, life>> \/ calls[Editor].got = <<m, life>>
             \/ calls[Editor].kind = "stop" /\ calls[Editor].ref = <<m, life>>
      PROVE  Names(m)'
  BY <1>1, <1>2, <1>5, <1>9 DEF Names
<1>10. KeepsHold
  BY <1>1, <1>6, <1>9, EditsHold
<1> QED BY <1>1, <1>6, <1>8, <1>10, EditsKeeps

LEMMA PollAnsweredKeeps ==
    ASSUME AccInv, PollAnswered
    PROVE  AccInv' /\ KeepsHold
<1> USE EditorIs
<1>1. /\ InEditor /\ UNCHANGED <<calls, adrift, faults>> /\ tab.poll # NoPoll
  BY DEF PollAnswered
<1>2. /\ Editor \in inUse /\ faults' \in 0..MaxFaults /\ faults <= faults'
      /\ UNCHANGED <<inUse, life, sessions, server, account, job, adopting, adrift, dialog, shown, calls>>
  BY <1>1 DEF InEditor, auto
<1>3. CASE tab.poll.got # tab.poll.of
  <2>1. Forget
    BY <1>3 DEF PollAnswered, OtherSession
  <2>2. Edits
    BY <1>2, <2>1, ForgetIs, RefsAre DEF Edits
  <2>3. Other \notin inUse => tab.saved # NoRef /\ \A n \in Numbers : tab.saved = <<n, life>> => sessions[n] = "none"
    BY <1>1, <1>3 DEF AccInv, OneTab
  <2>4. OneTab'
    <3> SUFFICES ASSUME Other \notin inUse PROVE OneTab'
      BY <1>2 DEF OneTab
    <3>1. calls[Editor].kind \in {"enter", "list", "potential", "stop"} => tab.saved = calls[Editor].ref
      BY <2>3 DEF AccInv, OneTab
    <3> QED BY <1>2, <2>1, <2>3, <3>1, ForgetIs DEF AccInv, OneTab
  <2>5. ASSUME NEW n \in Numbers, Other \notin inUse, sessions[n] # "none",
               \/ tab.saved = <<n, life>> \/ calls[Editor].got = <<n, life>>
               \/ calls[Editor].kind = "stop" /\ calls[Editor].ref = <<n, life>>
        PROVE  Names(n)'
    BY <1>2, <2>3, <2>5 DEF Names
  <2>6. KeepsHold
    BY <1>2, <2>2, <2>5, EditsHold
  <2> QED BY <1>2, <2>2, <2>4, <2>6, EditsKeeps
<1>4. CASE tab.poll.got = tab.poll.of
  <2>1. tab' = [Showing(tab.poll.got, tab.poll.ready) EXCEPT !.poll = NoPoll] /\ store' = store
    BY <1>4 DEF PollAnswered, OtherSession
  <2>2. PICK s : s = Showing(tab.poll.got, tab.poll.ready)
    OBVIOUS
  <2>3. /\ s \in Tab /\ s.session = tab.poll.got /\ s.ready = tab.poll.ready /\ s.event = tab.event
        /\ s.list # NoRef => s.list[1] = tab.poll.got[1]
        /\ s.saved = tab.saved
    BY <2>2, ShowingIs
  <2>4. /\ tab' \in Tab /\ tab'.session = tab.poll.got /\ tab'.event = tab.event
        /\ tab'.saved = tab.saved /\ tab'.poll = NoPoll
        /\ tab'.list # NoRef => tab'.list[1] = tab'.session[1]
    BY ONLY <2>1, <2>2, <2>3, NothingAsked DEF Tab
  <2>5. Edits
    BY <1>2, <2>1, <2>4, NothingAsked DEF Edits, NoPoll
  <2>6. OneTab'
    BY <1>1, <1>2, <1>4, <2>1, <2>4 DEF AccInv, OneTab
  <2>7. ASSUME NEW n \in Numbers,
               \/ tab.saved = <<n, life>> \/ calls[Editor].got = <<n, life>>
               \/ calls[Editor].kind = "stop" /\ calls[Editor].ref = <<n, life>>
        PROVE  Names(n)'
    BY <1>2, <2>4, <2>7 DEF Names
  <2>8. KeepsHold
    BY <1>2, <2>5, <2>7, EditsHold
  <2> QED BY <1>2, <2>5, <2>6, <2>8, EditsKeeps
<1> QED BY <1>3, <1>4

LEMMA OtherTabKeeps ==
    ASSUME AccInv, OtherTab \/ StorageEvent
    PROVE  AccInv' /\ KeepsHold
<1> USE EditorIs
<1>1. InEditor /\ UNCHANGED <<calls, adrift>>
  BY DEF OtherTab, StorageEvent
<1>2. faults' \in 0..MaxFaults /\ faults <= faults'
  <2>1. faults' = faults \/ (faults' = faults + 1 /\ faults < MaxFaults)
    BY DEF OtherTab, StorageEvent, Fault
  <2>2. faults \in 0..MaxFaults /\ MaxFaults \in Nat
    OBVIOUS
  <2> QED BY ONLY <2>1, <2>2
<1>3. /\ Editor \in inUse
      /\ UNCHANGED <<inUse, life, sessions, server, account, job, adopting, adrift, dialog, shown, calls>>
  BY <1>1 DEF InEditor, auto
<1>4. Other \in inUse
  BY DEF OtherTab, StorageEvent, AccInv, OneTab
<1>5. OneTab'
  BY <1>3, <1>4 DEF OneTab
<1>6. CASE OtherTab
  <2>1. store' \in Refs /\ store'[2] <= life
    <3>1. store' = NoRef \/ \E n \in Numbers : store' = <<n, life>>
      BY <1>6 DEF OtherTab
    <3>2. life <= life
      BY ONLY life \in Lives, AccountsAssumption DEF Lives
    <3> QED BY <3>1, <3>2, RefsAre
  <2>2. PICK e \in {"set", "clear"} : tab' = [tab EXCEPT !.event = e]
    BY <1>6 DEF OtherTab
  <2>3. /\ tab' \in Tab /\ tab'.saved = tab.saved /\ tab'.session = tab.session
        /\ tab'.list = tab.list /\ tab'.poll = tab.poll
    BY <2>2 DEF Tab
  <2>4. Edits
    BY <1>2, <1>3, <2>1, <2>3 DEF Edits
  <2>5. KeepsHold
    BY <1>3, <1>4, <2>4, EditsHold
  <2> QED BY <1>3, <1>5, <2>4, <2>5, EditsKeeps
<1>7. CASE StorageEvent
  <2>1. PICK a, next : /\ a \in {tab, Accepting(NoRef, FALSE)} /\ next \in {a.saved, store, NoRef}
                       /\ tab' = [a EXCEPT !.event = "none", !.saved = next]
    <3>1. PICK a \in {tab, Accepting(NoRef, FALSE)} :
              tab' = [a EXCEPT !.event = "none", !.saved = IF store' = NoRef /\ tab.event = "set" THEN @ ELSE store']
      BY <1>7 DEF StorageEvent
    <3>2. store' \in {NoRef, store}
      BY <1>7 DEF StorageEvent
    <3> QED BY <3>1, <3>2
  <2>2. /\ a \in Tab /\ a.saved \in Refs /\ a.saved[2] <= life /\ a.session[2] <= life /\ a.poll.got[2] <= life
        /\ (a.list # NoRef => a.list[1] = a.session[1])
    <3>1. CASE a = tab
      BY <3>1
    <3>2. CASE a = Accepting(NoRef, FALSE)
      <4>1. NoRef \in Refs /\ FALSE \in BOOLEAN /\ tab \in Tab /\ (tab.list # NoRef => tab.list[1] = tab.session[1])
        BY RefsAre
      <4>2. /\ a \in Tab /\ a.session = NoRef /\ (a.list # NoRef => a.list[1] = NoRef[1])
            /\ a.saved = NoRef /\ a.poll = NoPoll
        BY ONLY <3>2, <4>1, ShowingIs
      <4> QED BY <4>1, <4>2 DEF NoPoll
    <3> QED BY <2>1, <3>1, <3>2
  <2>3. next \in Refs /\ next[2] <= life
    BY <2>1, <2>2, RefsAre
  <2>4. /\ tab' \in Tab /\ tab'.saved = next /\ tab'.session = a.session
        /\ tab'.list = a.list /\ tab'.poll = a.poll
    BY ONLY <2>1, <2>2, <2>3 DEF Tab
  <2>5. store' \in {store, NoRef}
    BY <1>7 DEF StorageEvent
  <2>6. Edits
    BY <1>2, <1>3, <2>2, <2>3, <2>4, <2>5, RefsAre DEF Edits
  <2>7. KeepsHold
    BY <1>3, <1>4, <2>6, EditsHold
  <2> QED BY <1>3, <1>5, <2>6, <2>7, EditsKeeps
<1> QED BY <1>6, <1>7

LEMMA NextKeeps ==
    ASSUME AccInv, AccountsNext
    PROVE  AccInv' /\ KeepsHold
<1>1. CASE ManagerStep
  <2>1. CASE Restart
    BY <2>1, RestartKeeps
  <2>2. CASE StartLocked \/ EnterFails \/ StopServer
    BY <2>2, StartManages, ManagesKeeps DEF AccInv
  <2>3. CASE LoginFails \/ Entered
    BY <2>3, EnterManages, ManagesKeeps DEF AccInv
  <2>4. CASE \E n \in Numbers : LoggedIn(n)
    BY <2>4, LogInManages, ManagesKeeps DEF AccInv
  <2>5. CASE Adopt \/ Upsert \/ \E n \in Numbers : SessionBreaks(n) \/ SessionReturns(n)
    BY <2>5, OthersManage, ManagesKeeps DEF AccInv
  <2> QED BY <1>1, <2>1, <2>2, <2>3, <2>4, <2>5 DEF ManagerStep
<1>2. CASE RequestStep
  BY <1>2, ServeKeeps, ServeAdriftKeeps, GivenUpKeeps DEF RequestStep, ServeLate
<1>3. CASE DeskStep
  BY <1>3, RowKeeps, OpenKeeps, SubmitKeeps, LoginAnsweredKeeps, BackKeeps, EnterAnsweredKeeps,
     CompleteKeeps, CancelKeeps, LeaveKeeps, OverviewKeeps DEF DeskStep, DeskAnswered
<1>4. CASE EditorStep
  BY <1>4, AsksKeeps, EditorAnsweredKeeps, LoggedOutKeeps, PollKeeps, PollAnsweredKeeps, OtherTabKeeps
     DEF EditorStep
<1> QED BY <1>1, <1>2, <1>3, <1>4 DEF AccountsNext

LEMMA AccStutter ==
    ASSUME AccInv, UNCHANGED accountVars
    PROVE  AccInv'
<1>1. /\ UNCHANGED <<inUse, life, sessions, server, account, job, adopting, calls, adrift>>
      /\ UNCHANGED <<dialog, shown, store, tab, faults>>
  BY DEF accountVars, auto, pages
<1>2. AccountsTypeOK' /\ Lived' /\ Known'
  BY <1>1 DEF AccInv, AccountsTypeOK, Lived, Known
<1>3. Orderly' /\ OneTab'
  <2>1. Orderly'
    BY <1>1 DEF AccInv, Orderly
  <2>2. OneTab'
    BY <1>1 DEF AccInv, OneTab
  <2> QED BY <2>1, <2>2
<1>4. Answers'
  BY <1>1 DEF AccInv, Answers
<1>5. Created' /\ Alone'
  BY <1>1 DEF AccInv, Created, Deletes, Alone, Stale
<1> QED BY <1>2, <1>3, <1>4, <1>5 DEF AccInv

LEMMA AccInvariance == AccountsSpec => []AccInv
<1>1. AccInv /\ [AccountsNext]_accountVars => AccInv'
  BY NextKeeps, AccStutter
<1> QED BY <1>1, AccInvInit, PTL DEF AccountsSpec

(* Whatever the auto process, its requests and the pages of the SOP do, in  *)
(* any order, and for any number of sessions and faults: a live game        *)
(* session always has somebody who could stop it, unless a fault, two open  *)
(* tabs or one of the two overlaps that the code leaves open took it away   *)
(* (manager.go:194, GameServerWorkspace.tsx:120,                            *)
(* usePotentialSession.ts:37).                                              *)
THEOREM SessionsKept == AccountsSpec => SessionsAreKept
<1>1. AccInv => AccountsTypeOK
  BY DEF AccInv
<1>2. ASSUME AccInv, AccountsNext, NEW n \in Numbers,
             sessions'[n] # "none", sessions[n] = "none" \/ Held(n)
      PROVE  Held(n)' \/ Excused
  <2>1. KeepsHold
    BY <1>2, NextKeeps
  <2>2. sessions[n] = "none" \/ Names(n)
    BY <1>2, HeldIs
  <2> QED BY <1>2, <2>1, <2>2, HeldIs DEF KeepsHold
<1>3. AccInv /\ [AccountsNext]_accountVars =>
        [\A n \in Numbers :
            /\ sessions'[n] # "none"
            /\ sessions[n] = "none" \/ Held(n)
            => \/ Held(n)'
               \/ faults' # faults \/ SetupRace \/ LoginOverKept
               \/ Cardinality(inUse) > 1
               \/ \E r \in adrift : r.kind \in {"login", "create"} /\ r \notin adrift']_accountVars
  BY <1>2 DEF Excused
<1>4. AccountsSpec => NoSilentLeak
  BY <1>3, AccInvariance, PTL DEF AccountsSpec, NoSilentLeak
<1> QED BY <1>1, <1>4, AccInvariance, PTL DEF SessionsAreKept
=============================================================================
