---------------------------- MODULE Staff_proofs ----------------------------
(***************************************************************************)
(* Proofs about Staff for any accounts, tokens, browsers, tabs and changes.*)
(* That an account keeps its sessions only with its present grants is      *)
(* inductive with the types.  What a screen shows is not: it rests on the  *)
(* session behind the tab's cookie being the screen's even when it is not  *)
(* accepted any more (Backed), because an account may be switched on again.*)
(***************************************************************************)
EXTENDS Staff, TLAPS

(* The session that a tab's cookie names is one of the user on its screen, *)
(* if no other tab logged in as somebody else.                             *)
Backed ==
    \A b \in Tabs :
        screen[b] # None /\ b \notin displaced
        /\ CookieOf(b) # None /\ sessions[CookieOf(b)] # None =>
            screen[b].user = sessions[CookieOf(b)].user

(* A screen shows a workspace exactly when its user has one, and one of    *)
(* that user's.                                                            *)
Fits(s) == /\ s.at = None <=> s.rights \cap Workspaces = {}
           /\ s.at # None => s.at \in s.rights

Placed == \A b \in Tabs : screen[b] # None => Fits(screen[b])

IInv == TypeOK /\ SuperAdminRemains /\ SessionsAreCurrent /\ Backed /\ Placed

-----------------------------------------------------------------------------
(* A tab sends a token or nothing.                                         *)
LEMMA TabHasCookie ==
    ASSUME IInv, NEW b \in Tabs
    PROVE  BrowserOf[b] \in Browsers /\ CookieOf(b) \in Tokens \cup {None}
BY StaffAssumption DEF IInv, TypeOK, CookieOf

(* A lookup only removes sessions.                                         *)
LEMMA LookedRemoves ==
    ASSUME TypeOK, NEW t \in Tokens \cup {None}
    PROVE  /\ Looked(t) \in [Tokens -> Session \cup {None}]
           /\ \A s \in Tokens : Looked(t)[s] \in {None, sessions[s]}
BY DEF Looked, TypeOK

(* The removal of an account's sessions removes exactly those.             *)
LEMMA WithoutRemoves ==
    ASSUME TypeOK, NEW u \in Users
    PROVE  /\ Without(u) \in [Tokens -> Session \cup {None}]
           /\ \A s \in Tokens : Without(u)[s] \in {None, sessions[s]}
           /\ \A s \in Tokens : Without(u)[s] # None => sessions[s].user # u
BY DEF Without, TypeOK

(* The rights a role starts with, and any that a change leaves, are rights.*)
LEMMA RightsAreRights ==
    ASSUME NEW role \in Roles, NEW change \in Change, NEW base \in SUBSET Rights
    PROVE  DefaultRights(role) \in SUBSET Rights /\ Merged(base, change) \in SUBSET Rights
<1>1. DefaultWorkspaces(role) \in SUBSET Rights
  BY DEF DefaultWorkspaces, Roles, Workspaces, Rights
<1>2. DefaultUploads(role) \in SUBSET Rights
  BY DEF DefaultUploads, Rights
<1>3. DefaultRights(role) \in SUBSET Rights
  BY <1>1, <1>2 DEF DefaultRights
<1>4. Merged(base, change) \in SUBSET Rights
  BY DEF Merged, Change
<1> QED BY <1>3, <1>4

(* Every screen that is built from an account and an address fits it.      *)
LEMMA ScreensFit ==
    ASSUME NEW u \in Users, NEW user \in User, NEW wanted \in Workspaces \cup {None},
           NEW s \in ScreensOf(u, user, wanted)
    PROVE  s \in Screen /\ s.user = u /\ Fits(s)
<1>1. user.rights \in SUBSET Rights
  BY DEF User
<1>2. PICK p \in PlacesFor(user.rights, wanted) : s = [user |-> u, rights |-> user.rights, at |-> p]
  BY DEF ScreensOf
<1>3. None \notin Rights
  BY StaffAssumption
<1>4. /\ p \in Workspaces \cup {None}
      /\ p = None <=> user.rights \cap Workspaces = {}
      /\ p # None => p \in user.rights
  BY <1>1, <1>3 DEF PlacesFor, Rights
<1> QED BY <1>1, <1>2, <1>4 DEF Fits, Screen

(* A change leaves an account an account, and keeps its grants or counts   *)
(* one more.                                                               *)
LEMMA UpdatedIsUser ==
    ASSUME NEW user \in User, NEW change \in Change, Updated(user, change).grants <= MaxGrants
    PROVE  Updated(user, change) \in User
<1> DEFINE role   == IF change.role = None THEN user.role ELSE change.role
           active == IF change.active = None THEN user.active ELSE change.active
           base   == IF role = user.role THEN user.rights ELSE DefaultRights(role)
           grants == IF change.password \/ role # user.role \/ ~active
                     THEN user.grants + 1 ELSE user.grants
<1>1. role \in Roles
  BY DEF Change, User
<1>2. active \in BOOLEAN
  BY Zenon DEF Change, User
<1>3. base \in SUBSET Rights
  BY <1>1, RightsAreRights DEF User
<1>4. Merged(base, change) \in SUBSET Rights
  BY <1>1, <1>3, RightsAreRights
<1>5. grants \in Nat
  BY StaffAssumption DEF User
<1>6. Updated(user, change) = [role |-> role, active |-> active, rights |-> Merged(base, change),
                               grants |-> grants]
  BY DEF Updated
<1>7. grants \in 0..MaxGrants
  BY <1>5, <1>6, StaffAssumption
<1> QED BY <1>1, <1>2, <1>4, <1>6, <1>7 DEF User

-----------------------------------------------------------------------------
(* The first start leaves the root account, and no session.                *)
LEMMA InitInv == Init => IInv
<1> SUFFICES ASSUME Init PROVE IInv
  OBVIOUS
<1> DEFINE root == [role |-> "super_admin", active |-> TRUE,
                    rights |-> DefaultRights("super_admin"), grants |-> 0]
           staff == [role |-> "manager", active |-> TRUE,
                     rights |-> DefaultRights("manager"), grants |-> 0]
<1>1. PICK others \in SUBSET (Users \ {Root}) :
          users = [u \in Users |-> IF u = Root THEN root ELSE IF u \in others THEN staff ELSE None]
  BY DEF Init
<1>2. root \in User /\ staff \in User
  <2>1. DefaultRights("super_admin") \in SUBSET Rights /\ DefaultRights("manager") \in SUBSET Rights
    BY DEF DefaultRights, DefaultWorkspaces, DefaultUploads, Rights, Workspaces, Uploads
  <2> QED BY <2>1, StaffAssumption DEF User, Roles
<1>3. TypeOK
  <2>1. users \in [Users -> User \cup {None}]
    BY <1>1, <1>2
  <2>2. /\ sessions \in [Tokens -> Session \cup {None}]
        /\ cookie \in [Browsers -> Tokens \cup {None}]
        /\ screen \in [Tabs -> Screen \cup {None}]
        /\ displaced \subseteq Tabs
    BY DEF Init
  <2>3. now \in 0..MaxTime /\ revoking \in Revoking \cup {None} /\ interrupted \subseteq Users
    BY StaffAssumption DEF Init
  <2> QED BY <2>1, <2>2, <2>3 DEF TypeOK
<1>4. SuperAdminRemains
  <2>1. Root \in Users /\ users[Root] = root /\ root # None
    BY <1>1, <1>2, StaffAssumption
  <2>2. Root \in ActiveSuperAdmins
    BY <2>1 DEF ActiveSuperAdmins
  <2> QED BY <2>2 DEF SuperAdminRemains
<1>5. SessionsAreCurrent /\ Backed /\ Placed
  BY DEF Init, SessionsAreCurrent, Backed, Placed
<1> QED BY <1>3, <1>4, <1>5 DEF IInv

(* Sessions that are only removed, the accounts alone, stay current.       *)
LEMMA RemovalKeepsCurrent ==
    ASSUME IInv, UNCHANGED <<users, revoking, interrupted>>,
           \A t \in Tokens : sessions'[t] \in {None, sessions[t]}
    PROVE  SuperAdminRemains' /\ SessionsAreCurrent'
<1>1. SuperAdminRemains'
  BY DEF IInv, SuperAdminRemains, ActiveSuperAdmins
<1>2. SessionsAreCurrent'
  <2> SUFFICES ASSUME NEW t \in Tokens, sessions'[t] # None
               PROVE  /\ users'[sessions'[t].user] # None
                      /\ \/ sessions'[t].grants = users'[sessions'[t].user].grants
                         \/ sessions'[t].user \in interrupted'
                         \/ revoking' # None /\ revoking'.user = sessions'[t].user
    BY DEF SessionsAreCurrent
  <2>1. sessions'[t] = sessions[t] /\ sessions[t] # None
    OBVIOUS
  <2> QED BY <2>1 DEF IInv, SessionsAreCurrent
<1> QED BY <1>1, <1>2

(* Nor do removals take a tab's screen from the session behind it.         *)
LEMMA RemovalKeepsBacked ==
    ASSUME IInv, UNCHANGED cookie, UNCHANGED displaced,
           \A t \in Tokens : sessions'[t] \in {None, sessions[t]},
           \A b \in Tabs : \/ screen'[b] = None
                           \/ screen[b] # None /\ screen'[b].user = screen[b].user
    PROVE  Backed'
<1> SUFFICES ASSUME NEW b \in Tabs, screen'[b] # None, b \notin displaced',
                    CookieOf(b)' # None, sessions'[CookieOf(b)'] # None
             PROVE  screen'[b].user = sessions'[CookieOf(b)'].user
  BY DEF Backed
<1>1. CookieOf(b)' = CookieOf(b) /\ b \notin displaced
  BY DEF CookieOf
<1>2. CookieOf(b) \in Tokens /\ sessions'[CookieOf(b)] = sessions[CookieOf(b)]
  BY <1>1, TabHasCookie
<1> QED BY <1>1, <1>2 DEF IInv, Backed

(* An accepted cookie stands for a session of an account that exists.      *)
LEMMA ActorIsUser ==
    ASSUME IInv, NEW b \in Tabs, Accepted(CookieOf(b))
    PROVE  /\ CookieOf(b) \in Tokens /\ sessions[CookieOf(b)] \in Session
           /\ Actor(b) \in Users /\ users[Actor(b)] \in User
BY TabHasCookie DEF IInv, TypeOK, Accepted, Actor, Session

-----------------------------------------------------------------------------
LEMMA LoginInv ==
    ASSUME IInv, NEW b \in Tabs, NEW u \in Users, NEW t \in Tokens, Login(b, u, t)
    PROVE  IInv'
<1> USE DEF IInv
<1>1. users[u] \in User
  BY DEF Login, TypeOK
<1>2. PICK s \in ScreensOf(u, users[u], None) : screen' = [screen EXCEPT ![b] = s]
  BY DEF Login
<1>3. s \in Screen /\ s.user = u /\ Fits(s)
  BY <1>1, ScreensFit
<1>4. SessionFor(u) \in Session
  BY <1>1, StaffAssumption DEF SessionFor, Session, User, TypeOK
<1>5. TypeOK'
  <2>1. BrowserOf[b] \in Browsers /\ displaced' \subseteq Tabs
    BY TabHasCookie DEF Login, Displaced
  <2> QED BY <1>2, <1>3, <1>4, <2>1 DEF Login, TypeOK
<1>6. SuperAdminRemains'
  BY DEF Login, SuperAdminRemains, ActiveSuperAdmins
<1>7. SessionsAreCurrent'
  <2>1. sessions' = [sessions EXCEPT ![t] = SessionFor(u)] /\ sessions \in [Tokens -> Session \cup {None}]
    BY DEF Login, TypeOK
  <2>2. SessionFor(u).user = u /\ SessionFor(u).grants = users[u].grants /\ users[u] # None
    BY <1>1, StaffAssumption DEF SessionFor
  <2> QED BY <2>1, <2>2 DEF SessionsAreCurrent, Login
<1>8. Backed'
  <2> SUFFICES ASSUME NEW c \in Tabs, screen'[c] # None, c \notin displaced',
                      CookieOf(c)' # None, sessions'[CookieOf(c)'] # None
               PROVE  screen'[c].user = sessions'[CookieOf(c)'].user
    BY DEF Backed
  <2>1. BrowserOf[b] \in Browsers /\ BrowserOf[c] \in Browsers /\ CookieOf(c) \in Tokens \cup {None}
    BY TabHasCookie
  <2>2. CASE BrowserOf[c] = BrowserOf[b]
    <3>1. CookieOf(c)' = t /\ sessions'[t].user = u
      BY <2>1, <2>2 DEF Login, SessionFor, CookieOf, TypeOK
    <3>2. screen'[c].user = u
      BY <1>2, <1>3, <2>2 DEF Login, Displaced, TypeOK
    <3> QED BY <3>1, <3>2
  <2>3. CASE BrowserOf[c] # BrowserOf[b]
    <3>1. CookieOf(c)' = CookieOf(c) /\ CookieOf(c) # t /\ screen'[c] = screen[c] /\ c \notin displaced
      BY <1>2, <2>1, <2>3 DEF Login, CookieOf, Displaced, TypeOK
    <3>2. CookieOf(c) \in Tokens /\ sessions'[CookieOf(c)] = sessions[CookieOf(c)]
      BY <2>1, <3>1 DEF Login, TypeOK
    <3> QED BY <3>1, <3>2 DEF Backed
  <2> QED BY <2>2, <2>3
<1>9. Placed'
  BY <1>2, <1>3 DEF Placed, TypeOK
<1> QED BY <1>5, <1>6, <1>7, <1>8, <1>9

LEMMA LogoutInv ==
    ASSUME IInv, NEW b \in Tabs, Logout(b)
    PROVE  IInv'
<1> USE DEF IInv
<1>1. \A t \in Tokens : sessions'[t] \in {None, sessions[t]}
  BY DEF Logout, TypeOK
<1>2. /\ cookie' \in [Browsers -> Tokens \cup {None}]
      /\ \A c \in Browsers : cookie'[c] \in {None, cookie[c]}
  BY DEF Logout, TypeOK
<1>3. TypeOK'
  BY <1>2 DEF Logout, TypeOK
<1>4. SuperAdminRemains' /\ SessionsAreCurrent'
  BY <1>1, RemovalKeepsCurrent DEF Logout
<1>5. Backed'
  <2> SUFFICES ASSUME NEW c \in Tabs, screen'[c] # None, c \notin displaced',
                      CookieOf(c)' # None, sessions'[CookieOf(c)'] # None
               PROVE  screen'[c].user = sessions'[CookieOf(c)'].user
    BY DEF Backed
  <2>1. c # b /\ screen'[c] = screen[c] /\ c \notin displaced
    BY DEF Logout, TypeOK
  <2>2. CookieOf(c)' = CookieOf(c) /\ CookieOf(c) \in Tokens
    BY <1>2, TabHasCookie DEF CookieOf
  <2> QED BY <1>1, <2>1, <2>2 DEF Backed
<1>6. Placed'
  BY DEF Logout, Placed, TypeOK
<1> QED BY <1>3, <1>4, <1>5, <1>6

LEMMA BootstrapInv ==
    ASSUME IInv, NEW b \in Tabs, Bootstrap(b)
    PROVE  IInv'
<1> USE DEF IInv
<1>1. CookieOf(b) \in Tokens \cup {None}
  BY TabHasCookie
<1>2. sessions' \in [Tokens -> Session \cup {None}] /\ \A t \in Tokens : sessions'[t] \in {None, sessions[t]}
  BY <1>1, LookedRemoves DEF Bootstrap
<1>3. PICK s \in Screen \cup {None} :
          /\ screen' = [screen EXCEPT ![b] = s]
          /\ s # None => Accepted(CookieOf(b)) /\ s.user = Actor(b) /\ Fits(s)
  <2>1. CASE Accepted(CookieOf(b))
    <3>1. PICK w \in Workspaces : \E s \in ScreensOf(Actor(b), users[Actor(b)], w) :
              screen' = [screen EXCEPT ![b] = s]
      BY <2>1 DEF Bootstrap
    <3>2. PICK s \in ScreensOf(Actor(b), users[Actor(b)], w) : screen' = [screen EXCEPT ![b] = s]
      BY <3>1
    <3>3. Actor(b) \in Users /\ users[Actor(b)] \in User
      BY <2>1, ActorIsUser
    <3>4. s \in Screen /\ s.user = Actor(b) /\ Fits(s)
      BY <3>3, ScreensFit
    <3> QED BY <2>1, <3>2, <3>4
  <2>2. CASE ~Accepted(CookieOf(b))
    BY <2>2 DEF Bootstrap
  <2> QED BY <2>1, <2>2
<1>4. TypeOK'
  BY <1>2, <1>3 DEF Bootstrap, TypeOK
<1>5. SuperAdminRemains' /\ SessionsAreCurrent'
  BY <1>2, RemovalKeepsCurrent DEF Bootstrap
<1>6. Backed'
  <2> SUFFICES ASSUME NEW c \in Tabs, screen'[c] # None, c \notin displaced',
                      CookieOf(c)' # None, sessions'[CookieOf(c)'] # None
               PROVE  screen'[c].user = sessions'[CookieOf(c)'].user
    BY DEF Backed
  <2>1. CookieOf(c)' = CookieOf(c) /\ CookieOf(c) \in Tokens
    BY TabHasCookie DEF Bootstrap, CookieOf
  <2>2. sessions'[CookieOf(c)] = sessions[CookieOf(c)]
    BY <1>2, <2>1
  <2>3. CASE c = b
    BY <2>1, <2>2, <2>3, <1>3 DEF Actor, TypeOK
  <2>4. CASE c # b
    <3>1. screen'[c] = screen[c] /\ c \notin displaced
      BY <2>4, <1>3 DEF Bootstrap, TypeOK
    <3> QED BY <2>1, <2>2, <3>1 DEF Backed
  <2> QED BY <2>3, <2>4
<1>7. Placed'
  BY <1>3 DEF Placed, TypeOK
<1> QED BY <1>4, <1>5, <1>6, <1>7

LEMMA SelectInv ==
    ASSUME IInv, NEW b \in Tabs, NEW w \in Workspaces, SelectWorkspace(b, w)
    PROVE  IInv'
<1> USE DEF IInv
<1>1. sessions' \in [Tokens -> Session \cup {None}] /\ \A t \in Tokens : sessions'[t] \in {None, sessions[t]}
  BY LookedRemoves, TabHasCookie DEF SelectWorkspace
<1>2. screen[b] \in Screen /\ w \in screen[b].rights /\ w # None
  BY StaffAssumption DEF SelectWorkspace, TypeOK, Rights
<1>3. screen' = [screen EXCEPT ![b] = [screen[b] EXCEPT !.at = w]]
  BY DEF SelectWorkspace
<1>4. [screen[b] EXCEPT !.at = w] \in Screen /\ Fits([screen[b] EXCEPT !.at = w])
  BY <1>2 DEF Screen, Fits
<1>5. TypeOK'
  BY <1>1, <1>3, <1>4 DEF SelectWorkspace, TypeOK
<1>6. SuperAdminRemains' /\ SessionsAreCurrent'
  BY <1>1, RemovalKeepsCurrent DEF SelectWorkspace
<1>7. Backed'
  <2>1. \A c \in Tabs : \/ screen'[c] = None
                        \/ screen[c] # None /\ screen'[c].user = screen[c].user
    BY <1>2, <1>3 DEF TypeOK, Screen, SelectWorkspace
  <2> QED BY <1>1, <2>1, RemovalKeepsBacked DEF SelectWorkspace
<1>8. Placed'
  BY <1>3, <1>4 DEF Placed, TypeOK
<1> QED BY <1>5, <1>6, <1>7, <1>8

-----------------------------------------------------------------------------
LEMMA CreateInv ==
    ASSUME IInv, NEW b \in Tabs, NEW u \in Users, NEW role \in Roles, NEW change \in Changes,
           CreateUser(b, u, role, change)
    PROVE  IInv'
<1> USE DEF IInv
<1> DEFINE new == [role |-> role, active |-> TRUE, grants |-> 0,
                   rights |-> Merged(DefaultRights(role), change)]
<1>1. sessions' \in [Tokens -> Session \cup {None}] /\ \A t \in Tokens : sessions'[t] \in {None, sessions[t]}
  BY LookedRemoves, TabHasCookie DEF CreateUser
<1>2. new \in User
  <2>1. change \in Change
    BY StaffAssumption
  <2>2. DefaultRights(role) \in SUBSET Rights
    BY <2>1, RightsAreRights
  <2>3. Merged(DefaultRights(role), change) \in SUBSET Rights
    BY <2>1, <2>2, RightsAreRights
  <2> QED BY <2>3, StaffAssumption DEF User
<1>3. users' = [users EXCEPT ![u] = new] /\ users[u] = None
  BY DEF CreateUser
<1>4. new # None
  BY <1>2, StaffAssumption
<1>5. TypeOK'
  BY <1>1, <1>2, <1>3 DEF CreateUser, TypeOK
<1>6. SuperAdminRemains'
  BY <1>3 DEF SuperAdminRemains, ActiveSuperAdmins, TypeOK
<1>7. SessionsAreCurrent'
  <2> SUFFICES ASSUME NEW t \in Tokens, sessions'[t] # None
               PROVE  /\ users'[sessions'[t].user] # None
                      /\ \/ sessions'[t].grants = users'[sessions'[t].user].grants
                         \/ sessions'[t].user \in interrupted'
                         \/ revoking' # None /\ revoking'.user = sessions'[t].user
    BY DEF SessionsAreCurrent
  <2>1. sessions'[t] = sessions[t] /\ sessions[t] # None
    BY <1>1
  <2>2. users[sessions[t].user] # None
    BY <2>1 DEF SessionsAreCurrent
  <2>3. sessions[t].user \in Users /\ sessions[t].user # u
    BY <1>3, <2>1, <2>2 DEF TypeOK, Session
  <2>4. users'[sessions[t].user] = users[sessions[t].user]
    BY <1>3, <2>3 DEF TypeOK
  <2> QED BY <2>1, <2>4 DEF CreateUser, SessionsAreCurrent
<1>8. Backed'
  BY <1>1, RemovalKeepsBacked DEF CreateUser
<1>9. Placed'
  BY DEF CreateUser, Placed
<1> QED BY <1>5, <1>6, <1>7, <1>8, <1>9

(* A change of an account that is let through leaves an active super       *)
(* administrator: this one, or the other one that was counted.             *)
LEMMA GuardLeavesOne ==
    ASSUME IInv, NEW u \in Users, users[u] # None, NEW next \in User \cup {None},
           users' = [users EXCEPT ![u] = next],
           \/ users[u].role # "super_admin" \/ ~users[u].active
           \/ ~IsLastSuperAdmin
           \/ next # None /\ next.role = "super_admin" /\ next.active
    PROVE  SuperAdminRemains'
<1> USE DEF IInv
<1>1. \A v \in Users : v # u => users'[v] = users[v]
  BY DEF TypeOK
<1>2. users'[u] = next
  BY DEF TypeOK
<1>3. \A v \in ActiveSuperAdmins : v # u => v \in ActiveSuperAdmins'
  BY <1>1 DEF ActiveSuperAdmins
<1>4. CASE users[u].role # "super_admin" \/ ~users[u].active
  <2>1. u \notin ActiveSuperAdmins
    BY <1>4 DEF ActiveSuperAdmins
  <2> QED BY <2>1, <1>3 DEF SuperAdminRemains
<1>5. CASE ~IsLastSuperAdmin
  <2>1. PICK v, w \in ActiveSuperAdmins : v # w
    BY <1>5 DEF IsLastSuperAdmin
  <2> QED BY <2>1, <1>3 DEF SuperAdminRemains
<1>6. CASE next # None /\ next.role = "super_admin" /\ next.active
  <2>1. u \in ActiveSuperAdmins'
    BY <1>2, <1>6 DEF ActiveSuperAdmins
  <2> QED BY <2>1 DEF SuperAdminRemains
<1> QED BY <1>4, <1>5, <1>6

LEMMA UpdateInv ==
    ASSUME IInv, NEW b \in Tabs, NEW u \in Users, NEW change \in Changes,
           UpdateUser(b, u, change)
    PROVE  IInv'
<1> USE DEF IInv
<1> DEFINE next == Updated(users[u], change)
           form == change.role # None
<1>1. sessions' \in [Tokens -> Session \cup {None}] /\ \A t \in Tokens : sessions'[t] \in {None, sessions[t]}
  BY LookedRemoves, TabHasCookie DEF UpdateUser
<1>2. users[u] \in User /\ users[u] # None /\ change \in Change
  BY StaffAssumption DEF UpdateUser, TypeOK
<1>3. next.grants <= MaxGrants /\ users' = [users EXCEPT ![u] = next]
  BY DEF UpdateUser
<1>4. next \in User /\ next # None
  BY <1>2, <1>3, UpdatedIsUser, StaffAssumption
<1>5. /\ revoking = None /\ screen[b] # None /\ UNCHANGED <<now, interrupted, cookie, displaced>>
      /\ ~LosesLastSuperAdmin(users[u], next)
      /\ \/ /\ next.grants # users[u].grants
            /\ revoking' = [user |-> u, relogin |-> IF form /\ screen[b].user = u THEN b ELSE None]
            /\ UNCHANGED screen
         \/ /\ next.grants = users[u].grants
            /\ screen' \in Shown(b, u, next) \cup {screen}
            /\ UNCHANGED revoking
  BY DEF UpdateUser
<1>6. revoking' \in Revoking \cup {None}
  BY <1>5 DEF Revoking
<1>7. \A c \in Tabs : \/ screen'[c] = screen[c]
                          \/ /\ screen[c] # None /\ screen'[c] \in Screen
                             /\ screen'[c].user = screen[c].user /\ Fits(screen'[c])
  <2> SUFFICES ASSUME NEW c \in Tabs, screen' \in Shown(b, u, next), screen' # screen
               PROVE  \/ screen'[c] = screen[c]
                      \/ /\ screen[c] # None /\ screen'[c] \in Screen
                         /\ screen'[c].user = screen[c].user /\ Fits(screen'[c])
    BY <1>5
  <2>1. screen[b].user = u /\ \E s \in ScreensOf(u, next, screen[b].at) : screen' = [screen EXCEPT ![b] = s]
    BY DEF Shown
  <2>2. PICK s \in ScreensOf(u, next, screen[b].at) : screen' = [screen EXCEPT ![b] = s]
    BY <2>1
  <2>3. screen[b].at \in Workspaces \cup {None}
    BY <1>5 DEF TypeOK, Screen
  <2>4. s \in Screen /\ s.user = u /\ Fits(s)
    BY <1>4, <2>3, ScreensFit
  <2> QED BY <1>5, <2>1, <2>2, <2>4 DEF TypeOK
<1>8. screen' \in [Tabs -> Screen \cup {None}]
  <2>1. screen' = screen \/ \E s : screen' = [screen EXCEPT ![b] = s]
    BY <1>5 DEF Shown
  <2>2. screen' = [c \in Tabs |-> screen'[c]]
    BY <2>1 DEF TypeOK
  <2>3. \A c \in Tabs : screen'[c] \in Screen \cup {None}
    BY <1>7 DEF TypeOK
  <2> QED BY <2>2, <2>3
<1>9. TypeOK'
  BY <1>1, <1>3, <1>4, <1>5, <1>6, <1>8 DEF TypeOK
<1>10. SuperAdminRemains'
  BY <1>2, <1>3, <1>4, <1>5, GuardLeavesOne DEF LosesLastSuperAdmin
<1>11. SessionsAreCurrent'
  <2> SUFFICES ASSUME NEW t \in Tokens, sessions'[t] # None
               PROVE  /\ users'[sessions'[t].user] # None
                      /\ \/ sessions'[t].grants = users'[sessions'[t].user].grants
                         \/ sessions'[t].user \in interrupted'
                         \/ revoking' # None /\ revoking'.user = sessions'[t].user
    BY DEF SessionsAreCurrent
  <2>1. sessions'[t] = sessions[t] /\ sessions[t] # None /\ sessions[t].user \in Users
    BY <1>1 DEF TypeOK, Session
  <2>2. /\ users[sessions[t].user] # None
        /\ sessions[t].grants = users[sessions[t].user].grants \/ sessions[t].user \in interrupted
    BY <1>5, <2>1 DEF SessionsAreCurrent
  <2>3. CASE sessions[t].user # u
    <3>1. users'[sessions[t].user] = users[sessions[t].user]
      BY <1>3, <2>1, <2>3 DEF TypeOK
    <3> QED BY <1>5, <2>1, <2>2, <3>1
  <2>4. CASE sessions[t].user = u
    <3>1. users'[u] = next
      BY <1>3 DEF TypeOK
    <3>2. CASE next.grants # users[u].grants
      <4>1. revoking' # None /\ revoking'.user = u
        <5>1. revoking' \in Revoking /\ revoking'.user = u
          BY <1>5, <3>2 DEF Revoking
        <5> QED BY <5>1, StaffAssumption
      <4> QED BY <1>4, <2>1, <2>4, <3>1, <4>1
    <3>3. CASE next.grants = users[u].grants
      BY <1>4, <1>5, <2>1, <2>2, <2>4, <3>1, <3>3
    <3> QED BY <3>2, <3>3
  <2> QED BY <2>3, <2>4
<1>12. Backed'
  <2>1. \A c \in Tabs : \/ screen'[c] = None
                        \/ screen[c] # None /\ screen'[c].user = screen[c].user
    BY <1>7
  <2>2. cookie' = cookie /\ displaced' = displaced
    BY <1>5
  <2> QED BY <1>1, <2>1, <2>2, RemovalKeepsBacked
<1>13. Placed'
  BY <1>7 DEF Placed
<1> QED BY <1>9, <1>10, <1>11, <1>12, <1>13

LEMMA RevokeInv ==
    ASSUME IInv, Revoke
    PROVE  IInv'
<1> USE DEF IInv
<1> DEFINE u == revoking.user
<1>1. revoking \in Revoking /\ u \in Users
  BY DEF Revoke, TypeOK, Revoking
<1>2. PICK tab \in Tabs \cup {None}, ok \in BOOLEAN :
          /\ sessions' = [t \in Tokens |-> IF ok /\ tab # None /\ t = CookieOf(tab) THEN None
                                          ELSE Without(u)[t]]
          /\ cookie' = [c \in Browsers |-> IF ok /\ tab # None /\ c = BrowserOf[tab] THEN None
                                           ELSE cookie[c]]
          /\ screen' = [b \in Tabs |-> IF b = tab THEN None ELSE screen[b]]
          /\ displaced' = displaced \ {tab}
  BY Zenon DEF Revoke
<1>3. /\ sessions' \in [Tokens -> Session \cup {None}]
      /\ \A t \in Tokens : sessions'[t] \in {None, sessions[t]}
      /\ \A t \in Tokens : sessions'[t] # None => sessions[t].user # u
  BY <1>1, <1>2, WithoutRemoves
<1>4. /\ screen' \in [Tabs -> Screen \cup {None}]
      /\ \A b \in Tabs : screen'[b] # None => screen'[b] = screen[b] /\ b # tab
  BY <1>2 DEF TypeOK
<1>5. /\ cookie' \in [Browsers -> Tokens \cup {None}]
      /\ \A c \in Browsers : cookie'[c] \in {None, cookie[c]}
  BY <1>2 DEF TypeOK
<1>6. TypeOK'
  BY <1>2, <1>3, <1>4, <1>5 DEF Revoke, TypeOK
<1>7. SuperAdminRemains'
  BY DEF Revoke, SuperAdminRemains, ActiveSuperAdmins
<1>8. SessionsAreCurrent'
  <2> SUFFICES ASSUME NEW t \in Tokens, sessions'[t] # None
               PROVE  /\ users'[sessions'[t].user] # None
                      /\ \/ sessions'[t].grants = users'[sessions'[t].user].grants
                         \/ sessions'[t].user \in interrupted'
    BY DEF SessionsAreCurrent
  <2>1. sessions'[t] = sessions[t] /\ sessions[t] # None /\ sessions[t].user # u
    BY <1>3
  <2> QED BY <2>1 DEF Revoke, SessionsAreCurrent
<1>9. Backed'
  <2> SUFFICES ASSUME NEW c \in Tabs, screen'[c] # None, c \notin displaced',
                      CookieOf(c)' # None, sessions'[CookieOf(c)'] # None
               PROVE  screen'[c].user = sessions'[CookieOf(c)'].user
    BY DEF Backed
  <2>1. screen'[c] = screen[c] /\ c # tab /\ c \notin displaced
    BY <1>2, <1>4
  <2>2. CookieOf(c)' = CookieOf(c) /\ CookieOf(c) \in Tokens
    BY <1>5, TabHasCookie DEF CookieOf
  <2> QED BY <1>3, <2>1, <2>2 DEF Backed
<1>10. Placed'
  BY <1>4 DEF Placed
<1> QED BY <1>6, <1>7, <1>8, <1>9, <1>10

LEMMA DeleteInv ==
    ASSUME IInv, NEW b \in Tabs, NEW u \in Users, DeleteUser(b, u)
    PROVE  IInv'
<1> USE DEF IInv
<1>1. \A t \in Tokens : /\ Looked(CookieOf(b))[t] \in (Session \cup {None}) \cap {None, sessions[t]}
                        /\ Without(u)[t] # None => sessions[t].user # u
  BY LookedRemoves, WithoutRemoves, TabHasCookie
<1>2. /\ sessions' \in [Tokens -> Session \cup {None}]
      /\ \A t \in Tokens : sessions'[t] \in {None, sessions[t]}
      /\ \A t \in Tokens : sessions'[t] # None => sessions[t].user # u
  BY <1>1 DEF DeleteUser
<1>3. TypeOK'
  BY <1>2 DEF DeleteUser, TypeOK
<1>4. SuperAdminRemains'
  BY GuardLeavesOne DEF DeleteUser
<1>5. SessionsAreCurrent'
  <2> SUFFICES ASSUME NEW t \in Tokens, sessions'[t] # None
               PROVE  /\ users'[sessions'[t].user] # None
                      /\ \/ sessions'[t].grants = users'[sessions'[t].user].grants
                         \/ sessions'[t].user \in interrupted'
    BY DEF SessionsAreCurrent
  <2>1. /\ sessions'[t] = sessions[t] /\ sessions[t] # None
        /\ sessions[t].user # u /\ sessions[t].user \in Users
    BY <1>2 DEF TypeOK, Session
  <2>2. users'[sessions[t].user] = users[sessions[t].user]
    BY <2>1 DEF DeleteUser, TypeOK
  <2> QED BY <2>1, <2>2 DEF DeleteUser, SessionsAreCurrent
<1>6. Backed'
  BY <1>2, RemovalKeepsBacked DEF DeleteUser
<1>7. Placed'
  BY DEF DeleteUser, Placed
<1> QED BY <1>3, <1>4, <1>5, <1>6, <1>7

LEMMA CrashInv ==
    ASSUME IInv, Crash
    PROVE  IInv'
<1> USE DEF IInv
<1>1. TypeOK'
  BY DEF Crash, TypeOK, Revoking
<1>2. SessionsAreCurrent'
  BY DEF Crash, SessionsAreCurrent
<1>3. SuperAdminRemains' /\ Backed' /\ Placed'
  BY DEF Crash, SuperAdminRemains, ActiveSuperAdmins, Backed, CookieOf, Placed
<1> QED BY <1>1, <1>2, <1>3

LEMMA TickInv ==
    ASSUME IInv, Tick \/ UNCHANGED vars
    PROVE  IInv'
<1> USE DEF IInv
<1>1. TypeOK'
  BY StaffAssumption DEF Tick, vars, TypeOK
<1>2. SessionsAreCurrent'
  BY DEF Tick, vars, SessionsAreCurrent
<1>3. SuperAdminRemains' /\ Backed' /\ Placed'
  BY DEF Tick, vars, SuperAdminRemains, ActiveSuperAdmins, Backed, CookieOf, Placed
<1> QED BY <1>1, <1>2, <1>3

LEMMA NextInv == IInv /\ [Next]_vars => IInv'
<1> SUFFICES ASSUME IInv, [Next]_vars PROVE IInv'
  OBVIOUS
<1>1. CASE \E b \in Tabs : TabStep(b)
  BY <1>1, LoginInv, LogoutInv, BootstrapInv, SelectInv DEF TabStep
<1>2. CASE \E b \in Tabs, u \in Users : AccountStep(b, u)
  BY <1>2, CreateInv, UpdateInv, DeleteInv DEF AccountStep
<1>3. CASE Revoke
  BY <1>3, RevokeInv
<1>4. CASE Crash
  BY <1>4, CrashInv
<1>5. CASE Tick \/ UNCHANGED vars
  BY <1>5, TickInv
<1> QED BY <1>1, <1>2, <1>3, <1>4, <1>5 DEF Next

THEOREM Invariance == Spec => []IInv
BY InitInv, NextInv, PTL DEF Spec

-----------------------------------------------------------------------------
(* The tables stay well formed and an active super administrator is left   *)
(* (activeSuperAdminCount), for any accounts, tabs and changes.        *)
THEOREM AccountsHold == Spec => []AccountsAreSound
<1>1. IInv => AccountsAreSound
  BY DEF IInv, AccountsAreSound
<1> QED BY <1>1, Invariance, PTL

(* A session is of its account's present password, role and activation,    *)
(* but for the time between the two writes of a change, or when the        *)
(* process stopped between them (updateUser, deleteUser).                  *)
THEOREM SessionsHold == Spec => []SessionsAreCurrent
<1>1. IInv => SessionsAreCurrent
  BY DEF IInv
<1> QED BY <1>1, Invariance, PTL

(* A tab shows the user that its requests are made for, or another tab of  *)
(* its browser has logged in as somebody else since; and it stands in a    *)
(* workspace which the user it shows has, as far as it knows (App:         *)
(* workspaceFromPath, updateSessionUser, relogin).                         *)
THEOREM ScreensHold == Spec => []ScreensAreHonest
<1>1. IInv => ScreensAreHonest
  <2> SUFFICES ASSUME IInv, NEW b \in Tabs, screen[b] # None
               PROVE  /\ Accepted(CookieOf(b)) /\ b \notin displaced => screen[b].user = Actor(b)
                      /\ Fits(screen[b])
    BY DEF ScreensAreHonest, Fits
  <2>1. Accepted(CookieOf(b)) /\ b \notin displaced => screen[b].user = Actor(b)
    BY DEF IInv, Backed, Accepted, Actor
  <2>2. Fits(screen[b])
    BY DEF IInv, Placed
  <2> QED BY <2>1, <2>2
<1> QED BY <1>1, Invariance, PTL
=============================================================================
