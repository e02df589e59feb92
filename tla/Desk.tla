---- MODULE Desk ----
(***************************************************************************)
(* What one browser page shows of one work order while others change it.   *)
(* The page holds a cache of its reads (api/client.ts), a list it loads     *)
(* for the view that is open (CustomerView, ManagerView), the counts of the *)
(* navigation (App: useWorkspaceCounts), and one stream of change events    *)
(* (operation-groups/interface/http.ts), which drop the cache and mark what *)
(* they concern as dirty.  The list and the counts load by the same means   *)
(* and meet only where the cache is dropped, so a behaviour watches one of  *)
(* them.  The order is the sequence of its statuses, so that a read is      *)
(* identified by the number of changes it was made after.                  *)
(***************************************************************************)
EXTENDS Naturals, Sequences, FiniteSets

CONSTANTS MaxChanges,  \* bound: changes of the order
          MaxReads,    \* bound: reads under way at once
          MaxFaults,   \* bound: failed reads, lost answers, broken streams
          None

VARIABLES record,   \* the statuses the order has had
          role,     \* of the user
          view,     \* the list that is open, or "counts" where these are watched
          visible,  \* document.visibilityState
          loading,  \* of what is watched
          shown,    \* what is displayed of each read
          wire,     \* reads under way
          cache,    \* responseCache
          dirty,    \* what a timer or the page's return reloads
          stream,   \* the EventSource
          missed,   \* the changes the page is not told of any more
          own,      \* a change of its own under way
          wrote,    \* the last of its own changes that was answered
          crossed,  \* the last load was for another view than the open one
          faults

server == <<record>>
screen == <<view, visible, loading, shown, crossed>>
client == <<wire, cache, dirty>>
news == <<stream, missed>>
writing == <<own, wrote>>
vars == <<server, role, screen, client, news, writing, faults>>

Versions == 1..(MaxChanges + 1)
Past == Versions \cup {0}
Roles == {"customer", "manager"}
\* "reminded" is approved with a reminder, "closed" issued or cancelled.
Statuses == {"absent", "pending", "approved", "reminded", "rejected", "closed"}
Lists == {"records", "reminders", "queue", "ready"}
Reads == Lists \cup {"counts"}
Views(r) == IF r = "customer" THEN {"operations", "records", "reminders"}
            ELSE {"queue", "ready"}

Watched(r) == Views(r) \cup {"counts"}

\* A read, with the version of the order when it was sent.
Request == [of: Reads, since: Versions, fresh: BOOLEAN, latest: BOOLEAN]
Own == [from: UNION {Watched(r) : r \in Roles}, at: Versions]
Stream == [open: BOOLEAN, heard: Versions]

ASSUME DeskAssumption == MaxChanges \in Nat /\ MaxFaults \in Nat /\ MaxReads \in Nat /\ None \notin Nat

Now == Len(record)
StatusAt(v) == record[v]

\* scopesFor: the lists of this user that an order of status s is on.
ScopesFor(s) ==
    IF role = "customer"
    THEN (IF s # "absent" THEN {"records"} ELSE {})
         \cup (IF s = "reminded" THEN {"reminders"} ELSE {})
    ELSE (IF s # "absent" THEN {"record"} ELSE {})
         \cup (IF s = "pending" THEN {"queue"} ELSE {})
         \cup (IF s \in {"approved", "reminded"} THEN {"ready"} ELSE {})

\* countKeys: those of them that the navigation counts.
CountKeys(s) == ScopesFor(s) \ {"record"}

\* What the page would display of a read of version v: for a list the
\* order's version on it, if it is on it; for the counts, where it counts.
Displays(p, v) ==
    IF p = "counts" THEN CountKeys(StatusAt(v))
    ELSE IF p \in ScopesFor(StatusAt(v)) THEN {v} ELSE {}

\* What the buttons of a view can make of an order of status s.
Outcomes(v, s) ==
    CASE v = "operations" /\ s # "closed" -> {"pending"}
      [] v = "records" /\ s \notin {"absent", "closed"} -> {"closed"}
      [] v = "reminders" /\ s = "reminded" -> {"reminded", "approved", "closed"}
      [] v = "queue" /\ s = "pending" -> {"approved", "reminded", "closed", "rejected"}
      [] v = "ready" /\ s \in {"approved", "reminded"} -> {"reminded", "closed"}
      [] OTHER -> {}

TypeOK ==
    /\ record \in Seq(Statuses) /\ Now \in Versions
    /\ role \in Roles /\ view \in Watched(role)
    /\ visible \in BOOLEAN /\ loading \in BOOLEAN /\ crossed \in BOOLEAN
    /\ shown \in [Reads -> Versions \cup {None}]
    /\ wire \subseteq Request
    /\ cache \in [Reads -> Versions \cup {None}]
    /\ dirty \in BOOLEAN
    /\ stream \in Stream /\ missed \in Past
    /\ own \in Own \cup {None} /\ wrote \in Past
    /\ faults \in 0..MaxFaults
    \* inFlightRequests holds one read of a kind, loadingRequest is one load's
    /\ \A q, r \in wire :
        /\ q.fresh /\ r.fresh /\ q.of = r.of => q = r
        /\ q.latest /\ r.latest => q = r
    /\ loading = \E r \in wire : r.latest

----------------------------------------------------------------------------
Empty == [p \in Reads |-> None]
NoReads == [q |-> {}, cached |-> Empty, shows |-> Empty, loads |-> FALSE]

\* setGroups of the customer's one list, or the list of the panel.
Show(shows, p, v) ==
    [q \in Reads |-> IF q = p THEN v
                     ELSE IF role = "customer" THEN None
                     ELSE shows[q]]

\* invalidateApiCache.  c is the client's side: q the reads under way,
\* cached the cache, shows and loads what the page makes of them.
Invalidated(c) ==
    [c EXCEPT !.q = {[r EXCEPT !.fresh = FALSE] : r \in @}, !.cached = Empty]

\* load: a new request id, then ApiClient.request, which answers from the
\* cache, joins a request under way, or sends one.
Loaded(c, p) ==
    LET others == {[r EXCEPT !.latest = FALSE] : r \in c.q}
        joined == {r \in others : r.fresh /\ r.of = p}
        shared == IF joined # {} THEN joined
                  ELSE {[of |-> p, since |-> Now, fresh |-> TRUE, latest |-> FALSE]}
    IN  IF c.cached[p] # None
        THEN [c EXCEPT !.q = others, !.shows = Show(@, p, c.cached[p]), !.loads = FALSE]
        ELSE [c EXCEPT !.q = (others \ joined) \cup {[r EXCEPT !.latest = TRUE] : r \in shared},
                       !.loads = TRUE]

\* load of what is watched: the customer's form has no list, and drops the
\* one that was shown.
LoadedView(c, v) ==
    IF v \in Reads THEN Loaded(c, v)
    ELSE [c EXCEPT !.q = {[r EXCEPT !.latest = FALSE] : r \in @}, !.shows = Empty, !.loads = FALSE]

\* A read that is neither shared nor awaited is forgotten, unless the open
\* list could still be given something old by it.
Kept(c, v) == {r \in c.q : r.fresh \/ r.latest \/ (r.since < Now /\ r.of = v)}

Client == [q |-> wire, cached |-> cache, shows |-> shown, loads |-> loading]
\* GET_CACHE_TTL_MS may have passed since the answer was cached.
Aged == {Client, [Client EXCEPT !.cached = Empty]}
Becomes(c) == Cardinality(Kept(c, view')) <= MaxReads /\ wire' = Kept(c, view') /\ cache' = c.cached /\ shown' = c.shows /\ loading' = c.loads

----------------------------------------------------------------------------
\* The page is opened: its view and the counts load, the stream connects.
Init ==
    /\ record \in {<<"absent">>, <<"pending">>}
    /\ role \in Roles /\ view \in Watched(role)
    /\ visible = TRUE /\ crossed = FALSE
    /\ LET c == LoadedView(NoReads, view)
       IN  wire = c.q /\ cache = c.cached /\ shown = c.shows /\ loading = c.loads
    /\ dirty = FALSE
    /\ stream = [open |-> FALSE, heard |-> Now] /\ missed = 0
    /\ own = None /\ wrote = 0
    /\ faults = 0

\* selectWorkspace, or the browser's back button: the counts stay as they are.
SelectWorkspace(v) ==
    /\ v # view
    /\ view' = IF view = "counts" THEN view ELSE v
    /\ IF view = "counts"
       THEN Becomes(Invalidated(Client)) /\ UNCHANGED <<dirty, crossed>>
       ELSE /\ Becomes(LoadedView(Invalidated(Client), v))
            /\ dirty' = FALSE /\ crossed' = FALSE
    /\ UNCHANGED <<server, role, visible, news, writing, faults>>

\* The refresh button, or the way back to the first page.
Reload ==
    /\ view \in Lists /\ ~loading
    /\ UNCHANGED view
    /\ \E c \in Aged : Becomes(Loaded(c, view))
    /\ crossed' = FALSE
    /\ UNCHANGED <<server, role, visible, dirty, news, writing, faults>>

ToggleVisible ==
    /\ visible' = ~visible
    /\ UNCHANGED <<server, role, view, loading, shown, crossed, client, news, writing, faults>>

\* The timers of useOperationGroupRefresh and useWorkspaceCounts: only a page
\* in front reloads.
Refresh ==
    /\ dirty /\ visible
    /\ UNCHANGED view
    /\ \E c \in Aged : Becomes(LoadedView(c, view))
    /\ dirty' = FALSE /\ crossed' = FALSE
    /\ UNCHANGED <<server, role, visible, news, writing, faults>>

\* fetchRequest: requestEpoch === cacheEpoch.
Caches(r) == r.fresh

\* A slip: any answer is displayed, not only that of the last load.
DisplaysAny(r) == TRUE

\* requestId === loadingRequest.current.
IsLast(r) == r.latest

\* The answer arrives, in any order: the server's table as it was at some
\* moment since the request.
Answer(r) ==
    /\ wire' = wire \ {r}
    /\ loading' = (loading /\ ~r.latest)
    /\ \E v \in r.since..Now :
        /\ cache' = IF Caches(r) THEN [cache EXCEPT ![r.of] = v] ELSE cache
        /\ shown' = IF IsLast(r) THEN Show(shown, r.of, v) ELSE shown
    /\ UNCHANGED <<server, role, view, visible, crossed, dirty, news, writing, faults>>

\* A read fails: the list keeps what it has, and nothing asks again.
Fail(r) ==
    /\ faults < MaxFaults /\ faults' = faults + 1
    /\ wire' = wire \ {r}
    /\ loading' = (loading /\ ~r.latest)
    /\ missed' = IF r.latest THEN Now ELSE missed
    /\ UNCHANGED <<server, role, view, visible, shown, crossed, cache, dirty, stream, writing>>

----------------------------------------------------------------------------
\* The stream reaches the server, which tells it of later changes only.
OpenStream ==
    /\ ~stream.open
    /\ stream' = [open |-> TRUE, heard |-> Now]
    /\ missed' = IF stream.heard < Now THEN Now ELSE missed
    /\ UNCHANGED <<server, role, screen, client, writing, faults>>

\* The connection breaks with its events; the browser opens it again.
BreakStream ==
    /\ stream.open /\ faults < MaxFaults /\ faults' = faults + 1
    /\ stream' = [stream EXCEPT !.open = FALSE]
    /\ UNCHANGED <<server, role, screen, client, missed, writing>>

\* A slip: only the lists the order is on after the change are told.
ScopesOfAfter(before, after) == ScopesFor(after)

\* projectGroupChanges: the lists before and after the change.
ScopesOf(before, after) == ScopesFor(before) \cup ScopesFor(after)

\* An event arrives: changed of useWorkspaceCounts, then of the view.
Hear ==
    /\ stream.open /\ stream.heard < Now
    /\ LET v == stream.heard + 1
           before == StatusAt(v - 1)
           after == StatusAt(v)
           scopes == ScopesOf(before, after)
       IN  /\ stream' = [stream EXCEPT !.heard = v]
           /\ IF scopes = {} THEN UNCHANGED client
              ELSE /\ wire' = Kept(Invalidated(Client), view)
                   /\ cache' = Invalidated(Client).cached
                   /\ dirty' = (dirty \/ IF view = "counts" THEN CountKeys(before) # CountKeys(after)
                                          ELSE view \in scopes)
    /\ UNCHANGED <<server, role, screen, missed, writing, faults>>

\* Someone else changes the order, or the automation does.
Change(s) ==
    /\ Now <= MaxChanges
    /\ \E r \in Roles : \E v \in Views(r) : s \in Outcomes(v, StatusAt(Now))
    /\ record' = Append(record, s)
    /\ UNCHANGED <<role, screen, client, news, writing, faults>>

----------------------------------------------------------------------------
\* The order is on the screen, with the buttons of its status.
Offered ==
    \/ view \in {"operations", "counts"}
    \/ /\ view \in Lists /\ ~loading /\ shown[view] # None
       /\ view \in ScopesFor(StatusAt(shown[view]))
       /\ Outcomes(view, StatusAt(shown[view])) # {}

\* A change of the page's own reaches the server and is made; one at a time.
\* (A change the server refuses leaves no trace but an error message.)
Act ==
    /\ own = None /\ Offered /\ Now <= MaxChanges
    /\ \E v \in Views(role) :
        /\ view \in {v, "counts"}
        /\ \E s \in Outcomes(v, StatusAt(Now)) : record' = Append(record, s)
    /\ own' = [from |-> view, at |-> Now + 1]
    /\ UNCHANGED <<role, screen, client, news, wrote, faults>>

\* A slip: the client keeps its cache over a change of its own.
WrittenThenCached(c) == c

\* fetchRequest: what follows a successful request that is not a GET.
Written(c) == Invalidated(c)

\* The answer of the own change: the handler loads the list it was made in,
\* whichever is open by now; the form shows the order in its own list; the
\* counts take the client's event.
Done ==
    /\ own # None
    /\ own' = None /\ wrote' = own.at /\ UNCHANGED view
    /\ IF view = "counts" THEN Becomes(Written(Client)) /\ dirty' = TRUE /\ UNCHANGED crossed
       ELSE /\ Becomes(IF own.from = "operations" THEN Written(Client)
                       ELSE LoadedView(Written(Client), own.from))
            /\ crossed' = (view # own.from)
            /\ UNCHANGED dirty
    /\ UNCHANGED <<server, role, visible, news, faults>>

\* The answer is lost: an error is shown, and the list is not loaded.
LoseAnswer ==
    /\ own # None /\ faults < MaxFaults /\ faults' = faults + 1
    /\ own' = None
    /\ UNCHANGED <<server, role, screen, client, news, wrote>>

----------------------------------------------------------------------------
UserStep == Reload \/ ToggleVisible \/ Act \/ \E v \in Views(role) : SelectWorkspace(v)
ClientStep == Refresh \/ (\E r \in wire : Answer(r) \/ Fail(r))
StreamStep == OpenStream \/ BreakStream \/ Hear
WriteStep == Done \/ LoseAnswer \/ \E s \in Statuses : Change(s)
Next == UserStep \/ ClientStep \/ StreamStep \/ WriteStep

Spec == Init /\ [][Next]_vars

\* The network answers, the stream is opened again, and timers fire.
FairSpec ==
    /\ Spec
    /\ WF_vars(\E r \in wire : Answer(r))
    /\ WF_vars(OpenStream) /\ WF_vars(Hear)
    /\ WF_vars(Done)
    /\ WF_vars(Refresh)

----------------------------------------------------------------------------
At(p) == IF shown[p] = None THEN 0 ELSE shown[p]

\* After a change of its own a page shows the order no older than that
\* change once the list is loaded, unless the page was told that a read
\* failed or its user left the view before the answer (client.ts:115,
\* ManagerView.tsx:148, CustomerView.tsx:234, 242).
ReadYourWrites ==
    view # "operations" /\ ~loading /\ ~crossed /\ ~(view = "counts" /\ dirty) => At(view) >= wrote \/ At(view) < missed

\* What is loaded is what was asked for, and includes one's own change.
PagesAreSound == TypeOK /\ ReadYourWrites

\* What a list shows of the order is never replaced by an older state,
\* whatever the order of the answers (requestEpoch, loadRequest).
NeverGoesBack ==
    [][\A p \in Reads : shown[p] # None /\ shown'[p] # None => shown'[p] >= shown[p]]_vars

Current(p) ==
    \/ shown[p] # None /\ Displays(p, shown[p]) = Displays(p, Now)
    \/ At(p) < missed

\* A page that stays in front on one list comes to show the order as it is
\* there, and its counts come to be right, unless an event or a read was
\* lost on the way (live-refresh.ts, App.tsx useWorkspaceCounts).
ViewConverges ==
    <>[]visible /\ <>[][view' = view]_view => <>[](view = "operations" \/ crossed \/ Current(view))

\* "the acting manager must not depend on a proxy-delivered event"
\* (ManagerView.tsx:146-147): with nothing lost, a manager's list is at
\* least as new as the change the manager made.  Not so: done() loads the
\* list the action was made in, and drops the load of the one open by then.
ActingManagerIsCurrent ==
    role = "manager" /\ view # "counts" /\ ~loading => At(view) >= wrote
====
