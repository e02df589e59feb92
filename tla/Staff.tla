---- MODULE Staff ----
(***************************************************************************)
(* Staff accounts and their sessions (sop/auth), and the tabs that show    *)
(* them (frontend App, UserAdminView).  All tabs of a browser send the same*)
(* cookie (HttpOnly, Path=/), and none looks at what another one did.  A   *)
(* request is one turn of the event loop, except that a change of an       *)
(* account writes twice: the row, then the removal of its sessions.  The   *)
(* process may stop in between.                                            *)
(***************************************************************************)
EXTENDS Naturals, FiniteSets

CONSTANTS Users,      \* account ids
          Root,       \* the account the first start creates
          Tokens,     \* session tokens
          Browsers,   \* a cookie each
          Tabs,       \* open pages
          BrowserOf,  \* whose cookie a tab sends
          None,
          Changes,    \* what an update of an account may ask for
          TTL,        \* life of a session, in ticks of the clock
          MaxTime, MaxGrants   \* bounds of the clock and of grants

VARIABLES users,        \* the table users
          sessions,     \* the table sessions
          now,          \* the clock
          revoking,     \* the change whose sessions are still to be removed
          interrupted,  \* history: accounts whose removal a stop cut off
          cookie,       \* the token a browser sends
          screen,       \* what a tab shows
          displaced     \* history: tabs behind whose back another tab logged in

tables == <<users, sessions, revoking, interrupted>>
vars == <<users, sessions, now, revoking, interrupted, cookie, screen, displaced>>

Roles == {"customer", "manager", "super_admin"}
\* One of each kind: the thirteen workspaces and three uploads of the code
\* differ only in which roles have them from the start.
Workspaces == {"request", "accounts", "server-operations"}
Uploads == {"upload-item-catalog"}
Rights == Workspaces \cup Uploads

DefaultWorkspaces(role) ==
    CASE role = "customer"    -> {"request"}
      [] role = "manager"     -> {"request", "accounts"}
      [] role = "super_admin" -> Workspaces

DefaultUploads(role) == IF role = "customer" THEN {} ELSE Uploads

DefaultRights(role) == DefaultWorkspaces(role) \cup DefaultUploads(role)

\* The rights of a row written before the maps existed are its role's defaults.
\* grants counts the passwords, roles and activations an account has had.
User == [role: Roles, active: BOOLEAN, rights: SUBSET Rights, grants: 0..MaxGrants]
Session == [user: Users, expires: 0..MaxTime + TTL, grants: 0..MaxGrants]
Screen == [user: Users, rights: SUBSET Rights, at: Workspaces \cup {None}]
Revoking == [user: Users, relogin: Tabs \cup {None}]
Change == [role: Roles \cup {None}, active: BOOLEAN \cup {None}, password: BOOLEAN,
           on: SUBSET Rights, off: SUBSET Rights]

ASSUME StaffAssumption ==
    /\ Root \in Users
    /\ BrowserOf \in [Tabs -> Browsers]
    /\ None \notin Users \cup Tokens \cup Browsers \cup Tabs
    /\ None \notin Roles \cup Rights
    /\ None \notin BOOLEAN
    /\ None \notin User /\ None \notin Session
    /\ None \notin Screen /\ None \notin Revoking
    /\ Changes \subseteq Change
    /\ TTL \in Nat \ {0} /\ MaxTime \in Nat /\ MaxGrants \in Nat

TypeOK ==
    /\ users \in [Users -> User \cup {None}]
    /\ sessions \in [Tokens -> Session \cup {None}]
    /\ now \in 0..MaxTime
    /\ revoking \in Revoking \cup {None}
    /\ interrupted \subseteq Users
    /\ cookie \in [Browsers -> Tokens \cup {None}]
    /\ screen \in [Tabs -> Screen \cup {None}]
    /\ displaced \subseteq Tabs

----------------------------------------------------------------------------
Accepted(t) ==
    /\ t # None
    /\ sessions[t] # None
    /\ sessions[t].expires > now
    /\ users[sessions[t].user] # None
    /\ users[sessions[t].user].active

\* Looking a token up deletes all expired rows, and its own when it is refused.
Looked(t) ==
    [s \in Tokens |->
        IF t # None /\ sessions[s] # None
           /\ (sessions[s].expires <= now \/ (s = t /\ ~Accepted(t)))
        THEN None ELSE sessions[s]]

\* What a tab asks for is judged by the cookie of its browser, whoever it shows.
CookieOf(b) == cookie[BrowserOf[b]]

Actor(b) == sessions[CookieOf(b)].user

May(b, right) == Accepted(CookieOf(b)) /\ right \in users[Actor(b)].rights

ActiveSuperAdmins == {u \in Users : users[u] # None /\ users[u].active /\ users[u].role = "super_admin"}

IsLastSuperAdmin == \A u, v \in ActiveSuperAdmins : u = v

\* slip: the address decides.
PlaceWanted(rights, wanted) == {wanted}

\* A workspace the user may see: the one of the address, else the first allowed.
PlacesFor(rights, wanted) ==
    IF wanted \in rights THEN {wanted}
    ELSE IF rights \cap Workspaces = {} THEN {None}
    ELSE rights \cap Workspaces

ScreensOf(u, user, wanted) ==
    {[user |-> u, rights |-> user.rights, at |-> p] :
        p \in PlacesFor(user.rights, wanted)}

----------------------------------------------------------------------------
Init ==
    /\ \E others \in SUBSET (Users \ {Root}) :
         users = [u \in Users |->
            IF u = Root
            THEN [role |-> "super_admin", active |-> TRUE,
                  rights |-> DefaultRights("super_admin"), grants |-> 0]
            ELSE IF u \in others
            THEN [role |-> "manager", active |-> TRUE,
                  rights |-> DefaultRights("manager"), grants |-> 0]
            ELSE None]
    /\ sessions = [t \in Tokens |-> None]
    /\ now = 0
    /\ revoking = None
    /\ interrupted = {}
    /\ cookie = [b \in Browsers |-> None]
    /\ screen = [b \in Tabs |-> None]
    /\ displaced = {}

SessionFor(u) == [user |-> u, expires |-> now + TTL, grants |-> users[u].grants]

\* The other tabs of the browser keep the user they show.
Displaced(b, u) ==
    {o \in Tabs \ {b} :
        IF BrowserOf[o] = BrowserOf[b] THEN screen[o] # None /\ screen[o].user # u
        ELSE o \in displaced}

\* Tokens are random: a new one is in no table and in no other browser.
Login(b, u, t) ==
    /\ revoking = None
    /\ screen[b] = None
    /\ users[u] # None
    /\ users[u].active
    /\ sessions[t] = None /\ \A other \in Browsers \ {BrowserOf[b]} : cookie[other] # t
    /\ sessions' = [sessions EXCEPT ![t] = SessionFor(u)]
    /\ cookie' = [cookie EXCEPT ![BrowserOf[b]] = t]
    /\ \E s \in ScreensOf(u, users[u], None) : screen' = [screen EXCEPT ![b] = s]
    /\ displaced' = Displaced(b, u)
    /\ UNCHANGED <<users, now, revoking, interrupted>>

\* The screen is cleared even when the request fails; the cookie then stays.
\* What is removed is the session of the cookie, whoever the tab shows.
Logout(b) ==
    /\ revoking = None
    /\ screen[b] # None
    /\ screen' = [screen EXCEPT ![b] = None]
    /\ \/ /\ sessions' = [s \in Tokens |-> IF s = CookieOf(b) THEN None ELSE sessions[s]]
          /\ cookie' = [cookie EXCEPT ![BrowserOf[b]] = None]
       \/ UNCHANGED <<sessions, cookie>>
    /\ displaced' = displaced \ {b}
    /\ UNCHANGED <<users, now, revoking, interrupted>>

\* The page is loaded: GET /auth/me decides between the login and a workspace.
Bootstrap(b) ==
    /\ revoking = None
    /\ sessions' = Looked(CookieOf(b))
    /\ IF Accepted(CookieOf(b))
       THEN \E w \in Workspaces : \E s \in ScreensOf(Actor(b), users[Actor(b)], w) :
                screen' = [screen EXCEPT ![b] = s]
       ELSE screen' = [screen EXCEPT ![b] = None]
    /\ displaced' = displaced \ {b}
    /\ UNCHANGED <<users, now, revoking, interrupted, cookie>>

SelectWorkspace(b, w) ==
    /\ revoking = None
    /\ screen[b] # None
    /\ w \in screen[b].rights
    /\ sessions' = Looked(CookieOf(b))
    /\ screen' = [screen EXCEPT ![b].at = w]
    /\ UNCHANGED <<users, now, revoking, interrupted, cookie, displaced>>

Merged(rights, change) == (rights \cup change.on) \ change.off

CreateUser(b, u, role, change) ==
    /\ revoking = None
    /\ screen[b] # None /\ screen[b].at = "accounts"
    /\ May(b, "accounts")
    /\ users[u] = None
    /\ users' = [users EXCEPT ![u] =
            [role |-> role, active |-> TRUE, grants |-> 0,
             rights |-> Merged(DefaultRights(role), change)]]
    /\ sessions' = Looked(CookieOf(b))
    /\ UNCHANGED <<now, revoking, interrupted, cookie, screen, displaced>>

----------------------------------------------------------------------------
\* Only a change of role falls back to the defaults of the new role.
Updated(user, change) ==
    LET role   == IF change.role = None THEN user.role ELSE change.role
        active == IF change.active = None THEN user.active ELSE change.active
        base   == IF role = user.role THEN user.rights ELSE DefaultRights(role)
    IN [role |-> role, active |-> active, rights |-> Merged(base, change),
        grants |-> IF change.password \/ role # user.role \/ ~active
                   THEN user.grants + 1 ELSE user.grants]

\* slip: only demotion is looked at.
LosesLastByDemotion(user, next) ==
    /\ user.role = "super_admin"
    /\ next.role # "super_admin"
    /\ IsLastSuperAdmin

\* The count is of the active ones, whether or not this one is active.
LosesLastSuperAdmin(user, next) ==
    /\ user.role = "super_admin"
    /\ next.role # "super_admin" \/ ~next.active
    /\ IsLastSuperAdmin

\* updateSessionUser: the tab shows at once the new rights of the user it shows.
Shown(b, u, next) ==
    IF screen[b] # None /\ screen[b].user = u
    THEN {[screen EXCEPT ![b] = s] : s \in ScreensOf(u, next, screen[b].at)}
    ELSE {screen}

\* The row is written; sessions go next when the password, the role or the
\* activity changed.  The form (a role is sent) logs out when this is the user
\* the tab shows; the switch of the list (only active is sent) does not.
UpdateUser(b, u, change) ==
    /\ revoking = None
    /\ screen[b] # None /\ screen[b].at = "accounts"
    /\ May(b, "accounts")
    /\ users[u] # None
    /\ LET next == Updated(users[u], change)
           form == change.role # None
       IN /\ ~LosesLastSuperAdmin(users[u], next)
          /\ next.grants <= MaxGrants
          /\ users' = [users EXCEPT ![u] = next]
          /\ IF next.grants # users[u].grants
             THEN /\ revoking' = [user |-> u, relogin |-> IF form /\ screen[b].user = u THEN b ELSE None]
                  /\ UNCHANGED screen
             ELSE /\ screen' \in IF form THEN Shown(b, u, next) ELSE {screen}
                  /\ UNCHANGED revoking
    /\ sessions' = Looked(CookieOf(b))
    /\ UNCHANGED <<now, interrupted, cookie, displaced>>

\* slip: only the session the browser holds is removed.
WithoutOne(u) ==
    [t \in Tokens |->
        IF sessions[t] # None /\ sessions[t].user = u
           /\ \E b \in Browsers : cookie[b] = t
        THEN None ELSE sessions[t]]

Without(u) == [t \in Tokens |-> IF sessions[t] # None /\ sessions[t].user = u THEN None ELSE sessions[t]]

\* removeForUser, and the answer to the tab that asked, with the logout it
\* makes: of the cookie's session, and perhaps in vain.
Revoke ==
    /\ revoking # None
    /\ \E tab \in Tabs \cup {None}, ok \in BOOLEAN :
         /\ tab = revoking.relogin
         /\ LET out == ok /\ tab # None
            IN /\ sessions' = [t \in Tokens |-> IF out /\ t = CookieOf(tab) THEN None
                                              ELSE Without(revoking.user)[t]]
               /\ cookie' = [c \in Browsers |-> IF out /\ c = BrowserOf[tab] THEN None ELSE cookie[c]]
         /\ screen' = [b \in Tabs |-> IF b = tab THEN None ELSE screen[b]]
         /\ displaced' = displaced \ {tab}
    /\ interrupted' = interrupted \ {revoking.user}
    /\ revoking' = None
    /\ UNCHANGED <<users, now>>

\* The row takes its sessions along (ON DELETE CASCADE).  The tab offers no
\* deletion of the user it shows, the server none of the user it serves.
DeleteUser(b, u) ==
    /\ revoking = None
    /\ screen[b] # None /\ screen[b].at = "accounts"
    /\ May(b, "accounts")
    /\ Actor(b) # u /\ screen[b].user # u
    /\ users[u] # None
    /\ ~(users[u].role = "super_admin" /\ users[u].active /\ IsLastSuperAdmin)
    /\ users' = [users EXCEPT ![u] = None]
    /\ sessions' = [t \in Tokens |-> IF Without(u)[t] = None THEN None ELSE Looked(CookieOf(b))[t]]
    /\ interrupted' = interrupted \ {u}
    /\ UNCHANGED <<now, revoking, cookie, screen, displaced>>

\* The process stops and starts: the browsers keep their cookies and screens.
Crash ==
    /\ interrupted' = IF revoking = None THEN interrupted ELSE interrupted \cup {revoking.user}
    /\ revoking' = None
    /\ UNCHANGED <<users, sessions, now, cookie, screen, displaced>>

Tick ==
    /\ now < MaxTime
    /\ now' = now + 1
    /\ UNCHANGED <<users, sessions, revoking, interrupted, cookie, screen, displaced>>

TabStep(b) ==
    \/ \E u \in Users, t \in Tokens : Login(b, u, t)
    \/ Logout(b)
    \/ Bootstrap(b)
    \/ \E w \in Workspaces : SelectWorkspace(b, w)

AccountStep(b, u) ==
    \/ \E role \in Roles, change \in Changes : CreateUser(b, u, role, change)
    \/ \E change \in Changes : UpdateUser(b, u, change)
    \/ DeleteUser(b, u)

Next ==
    \/ \E b \in Tabs : TabStep(b)
    \/ \E b \in Tabs, u \in Users : AccountStep(b, u)
    \/ Revoke
    \/ Crash
    \/ Tick

Spec == Init /\ [][Next]_vars

----------------------------------------------------------------------------
\* A session is of an account that exists and of its present password, role
\* and activation, unless a stop came between the change of the account and
\* the removal of its sessions (updateUser, deleteUser).
SessionsAreCurrent ==
    \A t \in Tokens : sessions[t] # None =>
        /\ users[sessions[t].user] # None
        /\ \/ sessions[t].grants = users[sessions[t].user].grants
           \/ sessions[t].user \in interrupted
           \/ revoking # None /\ revoking.user = sessions[t].user

\* Whatever accounts are changed, demoted, switched off or deleted, and by
\* whom, an active super administrator is left (activeSuperAdminCount).
SuperAdminRemains == ActiveSuperAdmins # {}

\* The tables are well formed, and an active super administrator is left.
AccountsAreSound == TypeOK /\ SuperAdminRemains

\* A tab shows the account that its requests are made for, unless another tab
\* of the browser has logged in as somebody else since: nobody tells it then
\* (no part of App compares the two), and it shows the old account until it is
\* loaded again.  In either case the workspace it stands in is one that the
\* account it shows may use as the tab knows it (App: workspaceFromPath,
\* updateSessionUser, relogin).
ScreensAreHonest ==
    \A b \in Tabs : screen[b] # None =>
        /\ Accepted(CookieOf(b)) /\ b \notin displaced => screen[b].user = Actor(b)
        /\ screen[b].at = None <=> screen[b].rights \cap Workspaces = {}
        /\ screen[b].at # None => screen[b].at \in screen[b].rights
====
