---- MODULE Servers ----
(***************************************************************************)
(* The names of the game servers, from the auto process that owns them to  *)
(* the pages that offer them.  The SOP backend keeps a durable projection  *)
(* (auto-integration: ServerOptionsProjection), merges the answer of every *)
(* change it forwards, and reads the catalogue again, at most every 15     *)
(* seconds, when a request comes in; a page (useAppOptions) asks for the   *)
(* options on a timer and after its own changes.  A name is the number of  *)
(* the change that gave it, so that an older name is a smaller number.     *)
(***************************************************************************)
EXTENDS Naturals, FiniteSets

CONSTANTS Servers,     \* identities a server may have
          Legacy,      \* those of the configuration file (appOptions.servers)
          Edits,       \* requests to change a server that may be under way
          Own,         \* those of the page that is watched
          Capacity,    \* how many servers the projection holds
          MaxChanges,  \* bound: changes of the catalogue
          None

VARIABLES changes,   \* how many changes the auto process has made
          auto,      \* its catalogue: the name of each server, None for none
          options,   \* ServerOptionsProjection.servers
          stored,    \* auto_server_options
          refresh,   \* ServerOptionsProjection.pending, revision
          due,       \* Date.now() >= refreshAfter
          enabled,   \* auto_integration_state
          enabling,  \* a connection is being checked before it is enabled
          edits,     \* changes under way
          page       \* useAppOptions

projection == <<options, stored, refresh, due>>
link == <<enabled, enabling>>
vars == <<changes, auto, projection, link, edits, page>>

Names == 0..MaxChanges
Catalogue == [Servers -> Names \cup {None}]
Known(c) == {s \in Servers : c[s] # None}
NoServers == [s \in Servers |-> None]

Refresh == [phase: {"idle", "reading", "read"}, entries: Catalogue, moved: BOOLEAN]
Kinds == {"create", "update", "delete"}
Edit == [phase: {"sent", "applied", "answered"}, kind: Kinds, server: Servers, name: Names]
Page == [shown: Catalogue, request: {"none", "sent", "waiting", "answered"},
         answer: Catalogue, dirty: BOOLEAN, visible: BOOLEAN]

ASSUME ServersAssumption ==
    /\ Legacy \subseteq Servers /\ Own \subseteq Edits
    /\ IsFiniteSet(Servers) /\ Cardinality(Legacy) <= Capacity
    /\ MaxChanges \in Nat /\ Capacity \in Nat /\ None \notin Nat \cup Edit

\* next = [...this.servers, ...incoming] by id: nothing is ever removed.
Merged(base, entries) ==
    [s \in Servers |-> IF entries[s] # None THEN entries[s] ELSE base[s]]

FromConfiguration == [s \in Servers |-> IF s \in Legacy THEN 0 ELSE None]

Idle == [phase |-> "idle", entries |-> NoServers, moved |-> FALSE]

\* What the projection is after a start of the backend.
Loaded(saved) == Merged(FromConfiguration, saved)

\* What is in the table is in memory as well, and the configuration below it.
TypeOK ==
    /\ changes \in Names
    /\ auto \in Catalogue /\ stored \in Catalogue
    /\ options = Loaded(stored)
    /\ refresh \in Refresh
    /\ due \in BOOLEAN /\ enabled \in BOOLEAN /\ enabling \in BOOLEAN
    /\ edits \in [Edits -> Edit \cup {None}]
    /\ page \in Page

Init ==
    /\ changes = 0
    /\ auto = FromConfiguration
    /\ stored = NoServers
    /\ options = Loaded(stored)
    /\ refresh = Idle
    /\ due = TRUE
    /\ enabled = TRUE
    /\ enabling = FALSE
    /\ edits = [e \in Edits |-> None]
    /\ page = [shown |-> NoServers, request |-> "none", answer |-> NoServers,
               dirty |-> FALSE, visible |-> TRUE]

----------------------------------------------------------------------------
\* A slip: the name an operator saved is shown but never written.
MergeInMemory(entries) ==
    LET next == Merged(options, entries)
        fits == Cardinality(Known(next)) <= Capacity
    IN  /\ stored' = stored
        /\ options' = IF fits THEN next ELSE options
        /\ refresh' = IF fits /\ next # options THEN [refresh EXCEPT !.moved = TRUE] ELSE refresh

\* ServerOptionsProjection.merge: saved first, and counted as a revision
\* when something changes; a catalogue that is too large is refused whole.
Merge(entries) ==
    LET next == Merged(options, entries)
        fits == Cardinality(Known(next)) <= Capacity
    IN  /\ stored' = IF fits /\ next # options THEN next ELSE stored
        /\ options' = IF fits THEN next ELSE options
        /\ refresh' = IF fits /\ next # options THEN [refresh EXCEPT !.moved = TRUE] ELSE refresh

\* useAppOptions: refresh, called by the timer and the browser's events.
Asked(p) ==
    IF ~p.visible THEN p
    ELSE IF p.request # "none" THEN [p EXCEPT !.dirty = TRUE]
    ELSE [p EXCEPT !.request = "sent"]

\* A slip: the request's controller is kept after its end.
SettledNever(p) == p

\* useAppOptions: finally.
Settled(p) ==
    LET ended == [p EXCEPT !.request = "none", !.answer = NoServers, !.dirty = FALSE]
    IN  IF p.dirty THEN Asked(ended) ELSE ended

----------------------------------------------------------------------------
\* An operator saves a server, or deletes one (GameServerWorkspace).
Send(e, kind, s) ==
    /\ edits[e] = None /\ enabled
    /\ changes < MaxChanges
    /\ edits' = [edits EXCEPT ![e] = [phase |-> "sent", kind |-> kind, server |-> s, name |-> 0]]
    /\ UNCHANGED <<changes, auto, projection, link, page>>

\* The auto process changes its catalogue, or refuses to.
Apply(e) ==
    LET edit == edits[e] IN
    /\ edit # None /\ edit.phase = "sent"
    /\ changes < MaxChanges
    /\ IF (edit.kind = "create") = (auto[edit.server] = None)
       THEN /\ changes' = changes + 1
            /\ auto' = [auto EXCEPT ![edit.server] = IF edit.kind = "delete" THEN None ELSE changes']
            /\ edits' = [edits EXCEPT ![e].phase = "applied", ![e].name = changes']
       ELSE /\ edits' = [edits EXCEPT ![e] = None]
            /\ UNCHANGED <<changes, auto>>
    /\ UNCHANGED <<projection, link, page>>

\* The answer is merged and passed on to the page that asked.
Answer(e) ==
    LET edit == edits[e] IN
    /\ edit # None /\ edit.phase = "applied"
    /\ IF edit.kind = "delete"
       THEN UNCHANGED <<options, stored, refresh>>
       ELSE Merge([NoServers EXCEPT ![edit.server] = edit.name])
    /\ edits' = [edits EXCEPT ![e] = IF e \in Own THEN [edit EXCEPT !.phase = "answered"] ELSE None]
    /\ UNCHANGED <<changes, auto, due, link, page>>

\* The client tells the views of its page that the servers changed.
Receive(e) ==
    /\ edits[e] # None /\ edits[e].phase = "answered"
    /\ edits' = [edits EXCEPT ![e] = None]
    /\ page' = Asked(page)
    /\ UNCHANGED <<changes, auto, projection, link>>

\* A request that times out tells nothing of what the auto process did.
Lose(e) ==
    /\ edits[e] # None
    /\ edits' = [edits EXCEPT ![e] = None]
    /\ UNCHANGED <<changes, auto, projection, link, page>>

EditStep ==
    \E e \in Edits :
        \/ \E kind \in Kinds, s \in Servers : Send(e, kind, s)
        \/ Apply(e) \/ Answer(e) \/ Receive(e) \/ Lose(e)

----------------------------------------------------------------------------
\* A request of another user makes the projection read the catalogue.
StartRefresh ==
    /\ enabled /\ due /\ refresh.phase = "idle"
    /\ refresh' = [Idle EXCEPT !.phase = "reading"]
    /\ UNCHANGED <<changes, auto, options, stored, due, link, edits, page>>

Read ==
    /\ refresh.phase = "reading"
    /\ refresh' = [refresh EXCEPT !.phase = "read", !.entries = auto]
    /\ UNCHANGED <<changes, auto, options, stored, due, link, edits, page>>

\* The requests that wait for the refresh are answered from the projection.
Released(p, c) ==
    IF p.request = "waiting" THEN [p EXCEPT !.request = "answered", !.answer = c] ELSE p

\* A slip: what was read is merged whatever was saved meanwhile.
CurrentAlways == TRUE

\* A catalog response started before a successful mutation must not undo it.
Current == ~refresh.moved

\* ServerOptionsProjection.refresh: the answer arrived.
FinishRefresh ==
    LET next == Merged(options, refresh.entries)
        kept == Current /\ Cardinality(Known(next)) <= Capacity
    IN  /\ refresh.phase = "read"
        /\ options' = IF kept THEN next ELSE options
        /\ stored' = IF kept /\ next # options THEN next ELSE stored
        /\ refresh' = Idle
        /\ due' = FALSE
        /\ page' = Released(page, options')
        /\ UNCHANGED <<changes, auto, link, edits>>

\* ServerOptionsProjection.refresh: the read failed, the names stay.
FailRefresh ==
    /\ refresh.phase # "idle"
    /\ refresh' = Idle
    /\ due' = FALSE
    /\ page' = Released(page, options)
    /\ UNCHANGED <<changes, auto, options, stored, link, edits>>

\* Fifteen seconds pass.
Tick ==
    /\ ~due
    /\ due' = TRUE
    /\ UNCHANGED <<changes, auto, options, stored, refresh, link, edits, page>>

RefreshStep == StartRefresh \/ Read \/ FinishRefresh \/ FailRefresh \/ Tick

----------------------------------------------------------------------------
\* The timer, the focus of the window.
Poll ==
    /\ page.visible
    /\ page' = Asked(page)
    /\ UNCHANGED <<changes, auto, projection, link, edits>>

\* visibilitychange.
Show(visible) ==
    /\ page.visible # visible
    /\ page' = Asked([page EXCEPT !.visible = visible])
    /\ UNCHANGED <<changes, auto, projection, link, edits>>

\* The preHandler of the options' route: refresh first when one is due or
\* under way, else answer at once.
Handle ==
    /\ page.request = "sent"
    /\ IF enabled /\ (due \/ refresh.phase # "idle")
       THEN /\ refresh' = IF refresh.phase = "idle" THEN [Idle EXCEPT !.phase = "reading"] ELSE refresh
            /\ page' = [page EXCEPT !.request = "waiting"]
       ELSE /\ page' = [page EXCEPT !.request = "answered", !.answer = options]
            /\ UNCHANGED refresh
    /\ UNCHANGED <<changes, auto, options, stored, due, link, edits>>

ShowOptions ==
    /\ page.request = "answered"
    /\ page' = Settled([page EXCEPT !.shown = page.answer])
    /\ UNCHANGED <<changes, auto, projection, link, edits>>

\* A request may fail; one that waits is only found to have failed later.
FailOptions ==
    /\ page.request \in {"sent", "answered"}
    /\ page' = Settled(page)
    /\ UNCHANGED <<changes, auto, projection, link, edits>>

PageStep == Poll \/ (\E v \in BOOLEAN : Show(v)) \/ Handle \/ ShowOptions \/ FailOptions

----------------------------------------------------------------------------
\* AutoIntegrationService.setConnection.
Disable ==
    /\ enabled' = FALSE
    /\ UNCHANGED <<changes, auto, projection, enabling, edits, page>>

AskEnable ==
    /\ ~enabling
    /\ enabling' = TRUE
    /\ UNCHANGED <<changes, auto, projection, enabled, edits, page>>

\* The health check ended; what was saved meanwhile is overwritten.
Checked(healthy) ==
    /\ enabling
    /\ enabling' = FALSE
    /\ enabled' = (enabled \/ healthy)
    /\ UNCHANGED <<changes, auto, projection, edits, page>>

LinkStep == Disable \/ AskEnable \/ \E healthy \in BOOLEAN : Checked(healthy)

\* The backend stops and starts: the requests under way are lost, not what
\* the auto process does with those it received.
Restart ==
    /\ options' = Loaded(stored)
    /\ refresh' = Idle
    /\ due' = TRUE
    /\ enabling' = FALSE
    /\ edits' = [e \in Edits |-> IF e \in Own /\ edits[e] # None /\ edits[e].phase = "answered" THEN edits[e] ELSE None]
    /\ page' = IF page.request \in {"sent", "waiting"} THEN Settled(page) ELSE page
    /\ UNCHANGED <<changes, auto, stored, enabled>>

Next == EditStep \/ RefreshStep \/ PageStep \/ LinkStep \/ Restart

Spec == Init /\ [][Next]_vars

\* Timers fire, reads end (http-client: timeoutMs), and a request made often
\* enough is handled and answered, whatever stops and fails in between.
FairSpec ==
    /\ Spec
    /\ WF_vars(Tick) /\ WF_vars(Poll) /\ WF_vars(FailRefresh)
    /\ SF_vars(Handle) /\ SF_vars(Read) /\ SF_vars(FinishRefresh) /\ SF_vars(ShowOptions)

----------------------------------------------------------------------------
\* A server the SOP knows stays known, and its name does not go back to an
\* earlier one: not by a read that began before a change (refresh: revision),
\* nor by a restart (merge saves first).  Only the answer of a change that
\* another overtook may bring an older name (updateServer).
NamesGoForward ==
    [][\A s \in Known(options) :
        /\ s \in Known(options')
        /\ \/ options'[s] >= options[s]
           \/ \E e \in Edits : /\ edits[e] # None /\ edits'[e] # edits[e]
                               /\ edits[e].phase = "applied" /\ edits[e].server = s]_vars

\* When the connection stays on, the page in view and the backend up, the page
\* shows in the end the name every server has, whatever was lost, overtaken or
\* restarted before (refresh, useAppOptions).
CatalogueReachesPage ==
    <>[](enabled /\ page.visible) /\ <>[][~Restart]_vars
        => <>[](\A s \in Known(auto) : page.shown[s] = auto[s])
====
