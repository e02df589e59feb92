------------------------------ MODULE Accounts ------------------------------
(***************************************************************************)
(* Who answers for a live game session.  The auto process keeps sessions   *)
(* under numbers that start again with the process (sessioncontrol.Manager)*)
(* and logs one managed account in and out (AccountManager); the pages of  *)
(* the SOP hold the number of a session they started: the account setup    *)
(* dialog of the server workspace, or the tabs of the potential editor,    *)
(* which share one saved session.  A session is named <<number, life>>,    *)
(* the life of the process standing for created_at, and NoRef is none.     *)
(* A number that nobody mentions is as good as a new one, so numbers are   *)
(* taken from a small set.  Credentials, roles and the game server's name  *)
(* are left out: a dialog enters the role it then saves.                   *)
(***************************************************************************)
EXTENDS Naturals, FiniteSets

CONSTANTS Desk,         \* the server workspace
          Editor,       \* a tab of the potential editor
          Other,        \* another tab of it
          MaxSessions,  \* how many sessions the manager admits
          MaxFaults     \* bound: answers lost, sessions broken, pages left, restarts

VARIABLES inUse,     \* the pages in use, chosen once
          life,      \* restarts of the auto process
          sessions,  \* Manager.sessions: the state of each number
          server,    \* the game server, and a change of it under way
          account,   \* the stored account and AccountManager.sessions
          job,       \* the section that holds the account's lock
          adopting,  \* the session a creation has checked and not yet adopted
          calls,     \* the request each page waits for
          adrift,    \* requests nobody waits for (bound: one at a time)
          dialog,    \* AccountSetupDialog
          shown,     \* GameServerWorkspace: what the account's row shows
          store,     \* localStorage: the saved session
          tab,       \* usePotentialSession and PotentialEditorView
          faults

auto == <<life, sessions, server, account, job, adopting>>
pages == <<dialog, shown, store, tab>>
accountVars == <<inUse, auto, calls, adrift, pages, faults>>

Numbers == 1..MaxSessions
Lives == 0..MaxFaults
Refs == (Numbers \X Lives) \cup {<<0, 0>>}
NoRef == <<0, 0>>
Pages == {Desk, Editor}
Uses == {{Desk}, {Editor}, {Editor, Other}}

SessionStates == {"none", "logged_in", "ready", "reconnecting", "failed"}
Account == [state: {"absent", "enabled", "disabled", "deleted"}, session: Numbers \cup {0}]
Server == [enabled : BOOLEAN, changing : BOOLEAN]
Requests == {"login", "enter", "stop", "create", "start", "halt", "delete",
             "reconnect", "save on", "save off", "list", "potential"}
Call == [kind: Requests \cup {"none"}, ref: Refs,
         phase: {"none", "sent", "done", "missing", "refused"}, got: Refs, ready: BOOLEAN]
NoCall == [kind |-> "none", ref |-> NoRef, phase |-> "none", got |-> NoRef, ready |-> FALSE]
Rows == {"absent", "off", "on", "online"}
Dialog == [step: {"closed", "credentials", "character", "entered", "edit on", "edit off"},
           session: Refs]
Poll == [of: Refs, got: Refs, ready: BOOLEAN]
NoPoll == [of |-> NoRef, got |-> NoRef, ready |-> FALSE]
Tab == [saved: Refs, session: Refs, ready: BOOLEAN, list: Refs, poll: Poll,
        event: {"none", "set", "clear"}]
NewTab == [saved |-> NoRef, session |-> NoRef, ready |-> FALSE, list |-> NoRef,
           poll |-> NoPoll, event |-> "none"]

ASSUME AccountsAssumption ==
    /\ Cardinality({Desk, Editor, Other}) = 3
    /\ MaxSessions \in Nat \ {0} /\ MaxFaults \in Nat

Live(n) == n # 0 /\ sessions[n] # "none"

\* A slip: a session that failed for good is left alone as well.
WorkingOrFailed(n) == Live(n)

\* isStartingState, ready or reconnecting: a session the watcher leaves alone.
Working(n) == Live(n) /\ sessions[n] # "failed"

Current(r) == r # NoRef /\ r[2] = life

\* Somebody has the number and may still stop, use or adopt the session.
Held(n) ==
    LET named == {dialog.session, store, tab.saved}
                 \cup {calls[c].got : c \in Pages}
                 \cup {r.ref : r \in {a \in adrift \cup {calls[c] : c \in Pages} :
                                           a.kind \in {"stop", "create"}}}
    IN  \/ account.session = n /\ account.state \in {"enabled", "disabled"}
        \/ adopting = n
        \/ <<n, life>> \in named

Mentioned(n) ==
    Held(n) \/ \E a \in adrift \cup {calls[c] : c \in Pages} : a.ref = <<n, life>>

\* Manager.nextID: a number no other session of this life has had.
Fresh(n) ==
    /\ sessions[n] = "none" /\ ~Mentioned(n)
    /\ \A k \in 1..(n - 1) : sessions[k] # "none" \/ Mentioned(k)

----------------------------------------------------------------------------
AccountsTypeOK ==
    /\ inUse \in Uses /\ life \in Lives
    /\ sessions \in [Numbers -> SessionStates] /\ server \in Server
    /\ account \in Account /\ job \in {"idle", "login", "entering"}
    /\ adopting \in Numbers \cup {0}
    /\ calls \in [Pages -> Call] /\ adrift \subseteq Call
    /\ dialog \in Dialog /\ shown \in Rows
    /\ store \in Refs /\ tab \in Tab
    /\ tab.list # NoRef => tab.list[1] = tab.session[1]
    /\ faults \in 0..MaxFaults

\* The workspace sets an account up; the editor finds one that is enabled.
AccountsInit ==
    /\ inUse \in Uses
    /\ life = 0 /\ sessions = [n \in Numbers |-> "none"]
    /\ server = [enabled |-> TRUE, changing |-> FALSE]
    /\ account = [state |-> IF Desk \in inUse THEN "absent" ELSE "enabled", session |-> 0]
    /\ job = "idle" /\ adopting = 0
    /\ calls = [c \in Pages |-> NoCall] /\ adrift = {}
    /\ dialog = [step |-> "closed", session |-> NoRef]
    /\ shown = "absent"
    /\ store = NoRef /\ tab = NewTab
    /\ faults = 0

Fault == faults < MaxFaults /\ faults' = faults + 1

----------------------------------------------------------------------------
(* AccountManager. *)

\* stopLocked: the session is stopped and no longer the account's.
StopLocked ==
    /\ sessions' = IF Live(account.session)
                     THEN [sessions EXCEPT ![account.session] = "none"] ELSE sessions
    /\ account' = [account EXCEPT !.session = 0]

\* A slip: a session that works is left alone, whatever became of its server.
StartUnlessWorking ==
    /\ job = "idle" /\ account.state = "enabled" /\ ~Working(account.session)
    /\ StopLocked
    /\ job' = IF server.enabled THEN "login" ELSE "idle"
    /\ UNCHANGED <<inUse, life, server, adopting, calls, adrift, pages, faults>>

\* reconcileAccount, and the goroutine of startAsync, which does the same
\* with the server left to Manager.Start: a session that works on an enabled
\* server is left alone, another is given up, and where the server is enabled
\* the account logs in, under its lock.
StartLocked ==
    /\ job = "idle" /\ account.state = "enabled"
    /\ ~Working(account.session) \/ ~server.enabled
    /\ StopLocked
    /\ job' = IF server.enabled THEN "login" ELSE "idle"
    /\ UNCHANGED <<inUse, life, server, adopting, calls, adrift, pages, faults>>

\* startLocked, Manager.StartWithOptions: the login succeeds and its session
\* becomes the account's.
LoggedIn(n) ==
    /\ job = "login" /\ Fresh(n)
    /\ sessions' = [sessions EXCEPT ![n] = "logged_in"]
    /\ account' = [account EXCEPT !.session = n]
    /\ job' = "entering"
    /\ UNCHANGED <<inUse, life, server, adopting, calls, adrift, pages, faults>>

\* The login is refused, or there is no room for a session.
LoginFails ==
    /\ job = "login" /\ job' = "idle"
    /\ UNCHANGED <<inUse, life, sessions, server, account, adopting, calls, adrift, pages, faults>>

\* startLocked, Manager.Select and Enter.
Entered ==
    /\ job = "entering" /\ job' = "idle"
    /\ IF Live(account.session)
         THEN /\ sessions' = [sessions EXCEPT ![account.session] = "ready"]
              /\ UNCHANGED account
         ELSE StopLocked
    /\ UNCHANGED <<inUse, life, server, adopting, calls, adrift, pages, faults>>

EnterFails ==
    /\ job = "entering" /\ job' = "idle"
    /\ StopLocked
    /\ UNCHANGED <<inUse, life, server, adopting, calls, adrift, pages, faults>>

\* create, its last part, which does not take the account's lock: the
\* checked session becomes that of the account.
Adopt ==
    /\ adopting # 0
    /\ account' = [account EXCEPT !.session = adopting]
    /\ adopting' = 0
    /\ UNCHANGED <<inUse, life, sessions, server, job, calls, adrift, pages, faults>>

\* updateServer of a server that needs a restart, its first part: StopServer
\* stops the account's session under the account's lock and lets the lock go.
\* (Bound: it begins while the workspace does nothing else, and that of an enabled
\* server counts as a fault.)
StopServer ==
    /\ job = "idle" /\ Desk \in inUse /\ calls[Desk] = NoCall /\ dialog.step = "closed"
    /\ ~server.changing /\ server' = [server EXCEPT !.changing = TRUE]
    /\ IF server.enabled THEN Fault ELSE UNCHANGED faults
    /\ StopLocked
    /\ UNCHANGED <<inUse, life, job, adopting, calls, adrift, pages>>

\* Its second part, which takes no account's lock: the catalogue has the new
\* entry, switched over or with another address, or fails to save it.
Upsert ==
    /\ server.changing
    /\ server' \in [enabled : BOOLEAN, changing : {FALSE}]
    /\ UNCHANGED <<inUse, life, sessions, account, job, adopting, calls, adrift, pages, faults>>

\* The connection of a session breaks; its reconnector brings it back or
\* gives up (GameSession has the details).
SessionBreaks(n) ==
    /\ Fault
    /\ sessions[n] = "ready"
    /\ \E s \in {"reconnecting", "failed"} : sessions' = [sessions EXCEPT ![n] = s]
    /\ UNCHANGED <<inUse, life, server, account, job, adopting, calls, adrift, pages>>

SessionReturns(n) ==
    /\ sessions[n] = "reconnecting"
    /\ \E s \in {"ready", "failed"} : sessions' = [sessions EXCEPT ![n] = s]
    /\ UNCHANGED <<inUse, life, server, account, job, adopting, calls, adrift, pages, faults>>

----------------------------------------------------------------------------
(* What the auto process does with a request, and answers. *)

\* SelectAndEnter works on a session that is logged in, and says so again of
\* one that is ready; what fails on the way fails the session.
EnterSession(n, phase) ==
    \/ /\ phase = "done" /\ sessions[n] \in {"logged_in", "ready"}
       /\ sessions' = [sessions EXCEPT ![n] = "ready"]
    \/ /\ phase = "refused" /\ sessions[n] = "logged_in"
       /\ \E s \in {"logged_in", "failed"} : sessions' = [sessions EXCEPT ![n] = s]
    \/ /\ phase = "refused" /\ sessions[n] # "logged_in" /\ UNCHANGED sessions

\* create: the session is there and ready, and the account is new.
CanAdopt(r) == account.state = "absent" /\ (r.ref # NoRef => sessions[r.ref[1]] = "ready")

\* A session could be started now.
Vacancy == \E n \in Numbers : Fresh(n)

\* Bound: a page logs in while a number is left for the account.
Room == Cardinality({n \in Numbers : sessions[n] = "none" /\ ~Mentioned(n)}) > 1

\* The requests about a session; got is the session of the answer.
SessionRequest(r, phase, got) ==
    LET n == r.ref[1]
    IN  \/ /\ r.kind = "login" /\ phase = "done" /\ server.enabled /\ Room
           /\ \E k \in Numbers : /\ Fresh(k) /\ got = <<k, life>>
                                 /\ sessions' = [sessions EXCEPT ![k] = "logged_in"]
           /\ UNCHANGED <<account, adopting>>
        \/ /\ r.kind = "login" /\ phase = "refused" /\ got = NoRef
           /\ UNCHANGED <<sessions, account, adopting>>
        \/ /\ r.kind \in {"enter", "stop", "list", "potential"} /\ ~Live(n) /\ got = NoRef
           /\ phase = IF r.kind = "stop" THEN "missing" ELSE "refused"
           /\ UNCHANGED <<sessions, account, adopting>>
        \/ /\ r.kind = "enter" /\ Live(n) /\ EnterSession(n, phase)
           /\ got = IF phase = "done" THEN <<n, life>> ELSE NoRef
           /\ UNCHANGED <<account, adopting>>
        \/ /\ r.kind = "stop" /\ Live(n) /\ phase = "done" /\ got = NoRef
           /\ sessions' = [sessions EXCEPT ![n] = "none"]
           /\ UNCHANGED <<account, adopting>>
        \/ /\ r.kind \in {"list", "potential"} /\ Live(n)
           /\ phase = IF sessions[n] = "ready" THEN "done" ELSE "refused"
           /\ got = IF phase = "done" THEN <<n, life>> ELSE NoRef
           /\ UNCHANGED <<sessions, account, adopting>>

\* The requests about the account. A creation checks its session, stores the
\* account and adopts the session later; the others take the account's lock.
AccountRequest(r, phase) ==
    \/ /\ r.kind = "create"
       /\ phase = IF CanAdopt(r) THEN "done" ELSE "refused"
       /\ account' = IF CanAdopt(r) THEN [state |-> "enabled", session |-> 0] ELSE account
       /\ adopting' = IF CanAdopt(r) THEN r.ref[1] ELSE adopting
       /\ UNCHANGED sessions
    \/ /\ r.kind \in {"start", "halt", "delete", "reconnect", "save on", "save off"}
       /\ account.state \in {"absent", "deleted"} /\ phase = "refused"
       /\ UNCHANGED <<sessions, account, adopting>>
    \/ /\ r.kind = "start" /\ job = "idle" /\ account.state \in {"enabled", "disabled"}
       /\ phase = "done"
       /\ IF Working(account.session)
            THEN UNCHANGED sessions /\ account' = [account EXCEPT !.state = "enabled"]
            ELSE /\ sessions' = [n \in Numbers |-> IF n = account.session THEN "none" ELSE sessions[n]]
                 /\ account' = [state |-> "enabled", session |-> 0]
       /\ UNCHANGED adopting
    \/ /\ r.kind \in {"halt", "delete"} /\ job = "idle"
       /\ account.state \in {"enabled", "disabled"} /\ phase = "done"
       /\ sessions' = [n \in Numbers |-> IF n = account.session THEN "none" ELSE sessions[n]]
       /\ account' = [state |-> IF r.kind = "halt" THEN "disabled" ELSE "deleted", session |-> 0]
       /\ UNCHANGED adopting
    \/ /\ r.kind = "reconnect" /\ job = "idle" /\ account.state \in {"enabled", "disabled"}
       /\ phase = IF account.state = "enabled" THEN "done" ELSE "refused"
       /\ IF account.state = "enabled" /\ Live(account.session)
            THEN sessions' = [sessions EXCEPT ![account.session] =
                                  IF @ \in {"ready", "failed"} THEN "reconnecting" ELSE @]
            ELSE UNCHANGED sessions
       /\ UNCHANGED <<account, adopting>>
    \/ /\ r.kind \in {"save on", "save off"} /\ job = "idle"
       /\ account.state \in {"enabled", "disabled"} /\ phase = "done"
       /\ LET enabled == IF r.kind = "save on" THEN "enabled" ELSE "disabled"
          IN  \/ /\ enabled = account.state
                 /\ UNCHANGED <<sessions, account>>
              \/ /\ sessions' = [n \in Numbers |-> IF n = account.session THEN "none" ELSE sessions[n]]
                 /\ account' = [state |-> enabled, session |-> 0]
       /\ UNCHANGED adopting

Effect(r, phase, got) ==
    /\ \/ SessionRequest(r, phase, got)
       \/ AccountRequest(r, phase) /\ got = NoRef
    /\ UNCHANGED <<life, server, job>>

Serve(c) ==
    /\ calls[c].phase = "sent"
    /\ \E phase \in {"done", "missing", "refused"}, got \in Refs :
           /\ Effect(calls[c], phase, got)
           /\ calls' = [calls EXCEPT ![c].phase = phase, ![c].got = got,
                            ![c].ready = got # NoRef /\ sessions'[got[1]] = "ready"]
    /\ UNCHANGED <<inUse, adrift, pages, faults>>

\* HttpAutoIntegrationClient gives up after a while, or the connection of the
\* page does: the page is told of an error, and the request goes on alone.
Abandon(c) ==
    /\ Fault /\ adrift = {}
    /\ calls[c].phase \in {"sent", "done"}
    /\ adrift' = IF calls[c].phase = "sent" THEN adrift \cup {calls[c]} ELSE adrift
    /\ calls' = [calls EXCEPT ![c].phase = "refused", ![c].got = NoRef, ![c].ready = FALSE]
    /\ UNCHANGED <<inUse, auto, pages>>

\* A request nobody waits for is served late, or never.
ServeAdrift(r) ==
    /\ r \in adrift
    /\ adrift' = adrift \ {r}
    /\ \E phase \in {"done", "missing", "refused"}, got \in Refs : Effect(r, phase, got)
    /\ UNCHANGED <<inUse, calls, pages, faults>>

Drop(r) ==
    /\ Fault
    /\ r \in adrift /\ adrift' = adrift \ {r}
    /\ UNCHANGED <<inUse, auto, calls, pages>>

\* The auto process starts again: its sessions are gone, their numbers are
\* given again, and StartEnabled logs the account in if it is enabled.
Restart ==
    /\ Fault /\ life' = life + 1
    /\ sessions' = [n \in Numbers |-> "none"]
    /\ account' = [account EXCEPT !.session = 0]
    /\ job' = "idle" /\ adopting' = 0
    /\ adrift' = {}
    /\ calls' = [c \in Pages |-> IF calls[c].phase = "sent"
                                     THEN [calls[c] EXCEPT !.phase = "refused"] ELSE calls[c]]
    /\ server' = [server EXCEPT !.changing = FALSE]
    /\ UNCHANGED <<inUse, pages>>

----------------------------------------------------------------------------
(* The account setup dialog and the account's row in the workspace. *)

Ask(c, kind, ref) == calls' = [calls EXCEPT ![c] = [NoCall EXCEPT !.kind = kind, !.ref = ref, !.phase = "sent"]]
Idle(c) == calls[c] = NoCall
Answered(c, kind) == calls[c].kind = kind /\ calls[c].phase \notin {"none", "sent"}
Settle(c) == calls' = [calls EXCEPT ![c] = NoCall]
AtDesk == Desk \in inUse /\ UNCHANGED <<inUse, auto, store, tab>>

\* The row's buttons are those of what the overview showed.
RowAction(kind) ==
    /\ AtDesk /\ Idle(Desk) /\ dialog.step = "closed"
    /\ \/ kind = "start" /\ shown = "off"
       \/ kind = "halt" /\ shown \in {"on", "online"}
       \/ kind = "reconnect" /\ shown = "on"
       \/ kind = "delete" /\ shown # "absent"
    /\ Ask(Desk, kind, NoRef)
    /\ UNCHANGED <<dialog, shown, adrift, faults>>

RowAnswered ==
    /\ AtDesk /\ \E kind \in {"start", "halt", "delete", "reconnect"} : Answered(Desk, kind)
    /\ Settle(Desk)
    /\ UNCHANGED <<dialog, shown, adrift, faults>>

\* setAccountTarget: a new account, or the row as it is shown at that moment
\* (bound: not after the account's deletion).
OpenDialog ==
    /\ AtDesk /\ Idle(Desk) /\ dialog.step = "closed" /\ account.state # "deleted"
    /\ \E step \in {"credentials"} \cup (CASE shown = "absent" -> {}
                                          [] shown = "off" -> {"edit off"}
                                          [] OTHER -> {"edit on"}) :
           dialog' = [step |-> step, session |-> NoRef]
    /\ UNCHANGED <<calls, shown, adrift, faults>>

\* The requests of the dialog, each from its step: login, back, enterGame
\* and complete; an edit saves the enabled flag it was opened with.
Submit ==
    /\ AtDesk /\ Idle(Desk)
    /\ \/ dialog.step = "credentials" /\ Ask(Desk, "login", NoRef)
       \/ dialog.step = "character" /\ Ask(Desk, "enter", dialog.session)
       \/ dialog.step = "character" /\ Ask(Desk, "stop", dialog.session)
       \/ dialog.step = "entered" /\ Ask(Desk, "create", dialog.session)
       \/ dialog.step = "edit on" /\ Ask(Desk, "save on", NoRef)
       \/ dialog.step = "edit off" /\ Ask(Desk, "save off", NoRef)
    /\ UNCHANGED <<dialog, shown, adrift, faults>>

\* login: the session is kept; one without roles is stopped at once.
LoginAnswered ==
    /\ AtDesk /\ Answered(Desk, "login")
    /\ IF calls[Desk].phase # "done" THEN Settle(Desk) /\ UNCHANGED dialog
       ELSE \/ /\ dialog' = [step |-> "character", session |-> calls[Desk].got]
               /\ Settle(Desk)
            \/ /\ dialog' = [step |-> "credentials", session |-> calls[Desk].got]
               /\ Ask(Desk, "stop", calls[Desk].got)
    /\ UNCHANGED <<shown, adrift, faults>>

\* backToCredentials, and the end of login without roles: only a session
\* that was stopped is let go of.
BackToCredentials ==
    /\ AtDesk /\ Answered(Desk, "stop")
    /\ dialog' = IF calls[Desk].phase = "done"
                   THEN [step |-> "credentials", session |-> NoRef] ELSE dialog
    /\ Settle(Desk)
    /\ UNCHANGED <<shown, adrift, faults>>

EnterAnswered ==
    /\ AtDesk /\ Answered(Desk, "enter")
    /\ dialog' = IF calls[Desk].phase = "done" THEN [dialog EXCEPT !.step = "entered"] ELSE dialog
    /\ Settle(Desk)
    /\ UNCHANGED <<shown, adrift, faults>>

\* complete: the dialog closes when the account is stored.
CompleteAnswered ==
    /\ AtDesk /\ adopting = 0
    /\ \E kind \in {"create", "save on", "save off"} : Answered(Desk, kind)
    /\ dialog' = IF calls[Desk].phase = "done" THEN [step |-> "closed", session |-> NoRef] ELSE dialog
    /\ Settle(Desk)
    /\ UNCHANGED <<shown, adrift, faults>>

\* A slip: the cancelled dialog's session is not stopped.
CancelOnly ==
    /\ AtDesk /\ Idle(Desk) /\ dialog.step # "closed"
    /\ dialog' = [step |-> "closed", session |-> NoRef]
    /\ UNCHANGED <<calls, shown, adrift, faults>>

\* cancelAccountSetup: the dialog's session is stopped, and nobody waits.
CancelAccountSetup ==
    /\ AtDesk /\ Idle(Desk) /\ dialog.step # "closed" /\ adrift = {}
    /\ dialog' = [step |-> "closed", session |-> NoRef]
    /\ adrift' = IF dialog.session = NoRef THEN adrift
                 ELSE adrift \cup {[NoCall EXCEPT !.kind = "stop", !.ref = dialog.session, !.phase = "sent"]}
    /\ UNCHANGED <<calls, shown, faults>>

\* The page is left, or the connection is paused and takes the dialog with
\* it, to come back at its first step.
LeaveDialog ==
    /\ AtDesk /\ Fault /\ dialog.step # "closed" /\ adrift = {}
    /\ dialog' \in [step : {"closed", "credentials"}, session : {NoRef}]
    /\ adrift' = IF calls[Desk].phase = "sent" THEN adrift \cup {calls[Desk]} ELSE adrift
    /\ Settle(Desk)
    /\ UNCHANGED shown

\* loadOverview, every two seconds: the row is what the auto process answers.
RowNow == CASE account.state \in {"absent", "deleted"} -> "absent"
            [] account.state = "disabled" -> "off"
            [] OTHER -> IF Live(account.session) /\ sessions[account.session] = "ready"
                          THEN "online" ELSE "on"

LoadOverview ==
    /\ AtDesk
    /\ shown' = RowNow
    /\ UNCHANGED <<dialog, calls, adrift, faults>>

DeskAnswered ==
    RowAnswered \/ LoginAnswered \/ BackToCredentials \/ EnterAnswered \/ CompleteAnswered

DeskStep ==
    \/ \E kind \in {"start", "halt", "delete", "reconnect"} : RowAction(kind)
    \/ OpenDialog \/ Submit \/ DeskAnswered \/ CancelAccountSetup \/ LeaveDialog
    \/ LoadOverview

----------------------------------------------------------------------------
(* The potential editor. *)

InEditor == Editor \in inUse /\ UNCHANGED <<inUse, auto, dialog, shown>>

\* setSession, and the effect that clears the list of another session.
Showing(r, ready) ==
    [tab EXCEPT !.session = r, !.ready = ready,
                !.list = IF tab.session[1] = r[1] THEN @ ELSE NoRef]

\* accept, or with NoRef forget: saved and shown, a read under way is dropped.
Accepting(r, ready) == [Showing(r, ready) EXCEPT !.saved = r, !.poll = NoPoll]
Forget == tab' = Accepting(NoRef, FALSE) /\ store' = NoRef

\* The buttons: a login when no session is saved, the rest by its state.
EditorAsks ==
    /\ InEditor /\ Idle(Editor)
    /\ \/ tab.saved = NoRef /\ tab.session = NoRef /\ Ask(Editor, "login", NoRef)
       \/ tab.session # NoRef /\ ~tab.ready /\ Ask(Editor, "enter", tab.session)
       \/ tab.ready /\ Ask(Editor, "list", tab.session)
       \/ tab.ready /\ tab.list # NoRef /\ Ask(Editor, "potential", tab.session)
       \/ tab.session # NoRef /\ tab.saved # NoRef /\ Ask(Editor, "stop", tab.saved)
    /\ UNCHANGED <<adrift, store, tab, faults>>

\* login, enter, loadList and save accept the session of the answer; a list
\* is kept when its session is the one shown, else the effect clears it.
EditorAnswered ==
    /\ InEditor
    /\ \E kind \in {"login", "enter", "list", "potential"} : Answered(Editor, kind)
    /\ IF calls[Editor].phase # "done" THEN UNCHANGED <<store, tab>>
       ELSE LET got == calls[Editor].got
                listed == calls[Editor].kind = "list" /\ tab.session[1] = got[1]
            IN  /\ tab' = [Accepting(got, calls[Editor].ready) EXCEPT !.list = IF listed THEN got ELSE @]
                /\ store' = got
    /\ Settle(Editor)
    /\ UNCHANGED <<adrift, faults>>

\* logout: a session that is gone is as good as a stopped one.
LoggedOut ==
    /\ InEditor /\ Answered(Editor, "stop")
    /\ IF calls[Editor].phase \in {"done", "missing"} THEN Forget ELSE UNCHANGED <<store, tab>>
    /\ Settle(Editor)
    /\ UNCHANGED <<adrift, faults>>

\* refresh: the saved session is read every five seconds.
PollSession ==
    /\ InEditor /\ tab.saved # NoRef /\ tab.poll = NoPoll
    /\ LET n == tab.saved[1]
       IN  tab' = [tab EXCEPT !.poll = [of |-> tab.saved, ready |-> sessions[n] = "ready",
                                        got |-> IF Live(n) THEN <<n, life>> ELSE NoRef]]
    /\ UNCHANGED <<calls, adrift, store, faults>>

\* A slip: created_at is not compared.
OtherNumber(r, s) == r[1] # s[1]

\* Another created_at: a session of the same number and another life.
OtherSession(r, s) == r # s

PollAnswered ==
    /\ InEditor /\ tab.poll # NoPoll
    /\ IF OtherSession(tab.poll.got, tab.poll.of) THEN Forget
       ELSE tab' = [Showing(tab.poll.got, tab.poll.ready) EXCEPT !.poll = NoPoll] /\ UNCHANGED store
    /\ UNCHANGED <<calls, adrift, faults>>

\* Another tab of the same user logs out, or logs in after that; the browser
\* tells this one.
OtherTab ==
    /\ InEditor /\ Other \in inUse /\ tab.event = "none"
    /\ \/ store # NoRef /\ store' = NoRef
       \/ store = NoRef /\ \E n \in Numbers : Live(n) /\ store' = <<n, life>>
    /\ tab' = [tab EXCEPT !.event = IF store' = NoRef THEN "clear" ELSE "set"]
    /\ Fault /\ UNCHANGED <<calls, adrift>>

\* The storage event: `clear` forgets, whatever was saved since; `set` takes
\* what is saved now.
StorageEvent ==
    /\ InEditor /\ tab.event # "none"
    /\ LET next == IF tab.event = "clear" THEN NoRef ELSE store
       IN  /\ tab' = [IF tab.event = "set" /\ store = NoRef THEN tab ELSE Accepting(NoRef, FALSE)
                       EXCEPT !.event = "none", !.saved = IF next = NoRef /\ tab.event = "set" THEN @ ELSE next]
           /\ store' = next
    /\ UNCHANGED <<calls, adrift, faults>>

EditorStep ==
    \/ EditorAsks \/ EditorAnswered \/ LoggedOut
    \/ PollSession \/ PollAnswered \/ OtherTab \/ StorageEvent

ManagerStep ==
    \/ StartLocked \/ LoginFails \/ Entered \/ EnterFails \/ Adopt
    \/ StopServer \/ Upsert \/ Restart
    \/ \E n \in Numbers : LoggedIn(n) \/ SessionBreaks(n) \/ SessionReturns(n)

ServeLate == \E r \in adrift : ServeAdrift(r)

RequestStep ==
    \/ \E c \in Pages : Serve(c) \/ Abandon(c)
    \/ ServeLate
    \/ \E r \in adrift : Drop(r)

AccountsNext == ManagerStep \/ RequestStep \/ DeskStep \/ EditorStep

(***************************************************************************)
(* The watcher's ticker comes round, a login and an entry that are tried   *)
(* again and again succeed at last, requests are served and their answers  *)
(* handled, and the timers of the pages keep running.  Nothing says that a *)
(* reconnector ever comes to an end.                                       *)
(***************************************************************************)
Requested == ServeLate \/ \E c \in Pages : Serve(c)

AccountsFairness ==
    /\ WF_accountVars(StartLocked) /\ WF_accountVars(Adopt)
    /\ WF_accountVars(LoginFails \/ \E n \in Numbers : LoggedIn(n))
    /\ SF_accountVars(\E n \in Numbers : LoggedIn(n)) /\ SF_accountVars(Entered)
    /\ WF_accountVars(Requested) /\ WF_accountVars(DeskAnswered) /\ WF_accountVars(LoadOverview)
    /\ WF_accountVars(PollSession) /\ WF_accountVars(PollAnswered)

AccountsSpec == AccountsInit /\ [][AccountsNext]_accountVars
AccountsFairSpec == AccountsSpec /\ AccountsFairness

----------------------------------------------------------------------------
\* Two logins of one account: the watcher's, and the one a creation adopts
\* without the lock (account_manager.go:106).
SetupRace ==
    \/ adopting # 0
    \/ job = "login" /\ account.session # 0
    \/ Answered(Desk, "create") /\ account.session # dialog.session[1]

\* A second login over a session that could not be stopped.
LoginOverKept == Answered(Desk, "login") /\ dialog.session # NoRef

(* A live game session is never left without anybody who could stop it, on  *)
(* any way through the dialog (back, cancel, retry, complete), through the  *)
(* editor, the watcher or the account's buttons.  It takes a lost answer, a *)
(* page that is left, the editor open in two tabs, a request served after its *)
(* page gave up, or one of the two overlaps named above (manager.go:194,    *)
(* GameServerWorkspace.tsx:120, usePotentialSession.ts:37).                 *)
NoSilentLeak ==
    [][\A n \in Numbers :
          /\ sessions'[n] # "none"
          /\ sessions[n] = "none" \/ Held(n)
          => \/ Held(n)'
             \/ faults' # faults \/ SetupRace \/ LoginOverKept
             \/ Cardinality(inUse) > 1
             \/ \E r \in adrift : r.kind \in {"login", "create"} /\ r \notin adrift']_accountVars

(* Sessions, reservations, dialogs and editors fit together, and no live    *)
(* session slips out of the hands that hold it.                             *)
SessionsAreKept == []AccountsTypeOK /\ NoSilentLeak

\* The account's session is left to its reconnector.
Reconnecting == account.session # 0 /\ sessions[account.session] = "reconnecting"

(* An account that stays enabled on an enabled server, with a place among   *)
(* the sessions that leaked ones have not taken, is online again and again, *)
(* whatever broke, was stopped by number or restarted, unless its session   *)
(* stays with a reconnector that never ends or the operator asks for a      *)
(* reconnection for ever; and the page shows an account that stays online   *)
(* (account_manager_watch.go:66; what an endless reconnection comes from is *)
(* in GameSession: the watcher takes it for work, :83).                     *)
EnabledComesBack ==
    /\ /\ <>[](account.state = "enabled" /\ server.enabled /\ (Live(account.session) \/ Vacancy))
       /\ []<>~Reconnecting /\ <>[](calls[Desk].kind # "reconnect")
       => []<>(RowNow = "online")
    /\ <>[](Desk \in inUse /\ RowNow = "online") => <>[](shown = "online")

(* On a server that stays disabled an enabled account has no session in the *)
(* end, although the watcher may log it in between StopServer and Upsert,   *)
(* or finish a login begun before both, or a creation adopt a session later *)
(* (server_handlers.go:43-48, account_manager_watch.go:73-80).              *)
DisabledServerIsQuiet ==
    <>[](account.state = "enabled" /\ ~server.enabled) => <>[](account.session = 0)

(* A tab does not keep a session that has ended or that belongs to an       *)
(* earlier life of the auto process, even when its number lives again       *)
(* (usePotentialSession.ts:75-79).                                          *)
DeadSessionIsDropped ==
    []<>(tab.saved = NoRef \/ (Current(tab.saved) /\ Live(tab.saved[1])))
=============================================================================
