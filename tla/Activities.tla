---- MODULE Activities ----
(***************************************************************************)
(* The shared list of activities, which every change replaces as a whole   *)
(* (ActivitiesService.replaceAll), the pages that edit it (ActivityView)   *)
(* and the request forms that offer it (CustomerView).  A browser keeps a  *)
(* copy of the list in its localStorage, which both pages read and write,  *)
(* and which an editing page sends to a server that has no activities yet, *)
(* once.  In each browser an editing page and a form may be open at a time *)
(* as two tabs.  The order of the list and what an activity consists of    *)
(* are left out: an activity is the number of the change that wrote it,    *)
(* and whether customers see it.                                           *)
(***************************************************************************)
EXTENDS Naturals, FiniteSets, Functions

CONSTANTS Ids,         \* of activities
          Browsers,
          Legacy,      \* bound: the browsers that may hold a list of their own
          Forms,       \* bound: the browsers that open the form
          MaxEditions, \* bound: changes that editing pages send
          MaxOpens,    \* bound: pages and forms that are opened
          MaxCalls,    \* bound: requests under way at once
          MaxLosses,   \* bound: requests that fail or whose answer is lost
          Nothing

VARIABLES stored,    \* the activities table
          editor,    \* the browser's account has the activities workspace
          caches,    \* localStorage: game-support-activities
          migrated,  \* localStorage: game-support-activities-migrated
          page,      \* the editing page
          form,      \* the request form
          told,      \* the forms with a storage event to handle
          calls,     \* requests under way
          changes, opens, losses

activityVars == <<stored, editor, caches, migrated, page, form, told, calls, changes, opens, losses>>

ASSUME ActivitiesAssumption ==
    /\ MaxEditions \in Nat /\ MaxOpens \in Nat /\ MaxCalls \in Nat /\ MaxLosses \in Nat
    /\ Forms \subseteq Browsers /\ Legacy \subseteq Browsers /\ Nothing \notin Ids

Activity == [edition: 0..MaxEditions, visible: BOOLEAN]
List == UNION {[some -> Activity] : some \in SUBSET Ids}
NoActivities == [i \in {} |-> Nothing]
Kinds == {"load", "migrate", "save", "remove", "toggle", "read"}

\* The editor of the activity id, with its visibility as it was on opening.
Draft == [id: Ids \cup {Nothing}, visible: BOOLEAN]
NoDraft == [id |-> Nothing, visible |-> TRUE]
Page == [open: BOOLEAN, list: List, draft: Draft]
NoPage == [open |-> FALSE, list |-> NoActivities, draft |-> NoDraft]
Form == [open: BOOLEAN, offered: List]
NoForm == [open |-> FALSE, offered |-> NoActivities]

\* A request with the list it sends, the list its page had then and the
\* activity it is about; heard while the page that sent it is open.
Call == [from: Browsers, kind: Kinds, base: List, list: List,
         about: Ids \cup {Nothing}, heard: BOOLEAN, answer: List \cup {Nothing}]

ActivitiesTypeOK ==
    /\ stored \in List
    /\ editor \in [Browsers -> BOOLEAN]
    /\ caches \in [Browsers -> List]
    /\ migrated \in [Browsers -> BOOLEAN]
    /\ page \in [Browsers -> Page]
    /\ form \in [Browsers -> Form]
    /\ told \subseteq {b \in Browsers : form[b].open}
    /\ calls \subseteq Call
    /\ changes \in 0..MaxEditions /\ opens \in 0..MaxOpens /\ losses \in 0..MaxLosses
    \* only accounts that may edit have an editing page
    /\ \A b \in Browsers : page[b].open => editor[b]

Visible(list) == Restrict(list, {i \in DOMAIN list : list[i].visible})

\* ActivitiesService.list
ListFor(b) == IF editor[b] THEN stored ELSE Visible(stored)

\* What the buttons of the page make of its list.
With(list, i, a) == [j \in DOMAIN list \cup {i} |-> IF j = i THEN a ELSE list[j]]
\* A slip: what is sent is what customers see.
WithoutHidden(list, i) == Visible(Restrict(list, DOMAIN list \ {i}))
Without(list, i) == Restrict(list, DOMAIN list \ {i})
Edited(list, i, a) == [j \in DOMAIN list |-> IF j = i THEN a ELSE list[j]]
Toggled(list, i) == [list EXCEPT ![i].visible = ~@]

----------------------------------------------------------------------------
NewCall(b, kind, list, i) ==
    [from |-> b, kind |-> kind, base |-> page[b].list, list |-> list,
     about |-> i, heard |-> TRUE, answer |-> Nothing]

MayAsk == Cardinality(calls) < MaxCalls
Opening == MayAsk /\ opens < MaxOpens /\ opens' = opens + 1

\* The server has no activities or one; a browser of old brings its own.
ActivitiesInit ==
    /\ \E i \in Ids, v \in BOOLEAN, own \in SUBSET Legacy :
        LET first == [j \in {i} |-> [edition |-> 0, visible |-> v]] IN
        /\ stored \in {NoActivities, first}
        /\ caches = [b \in Browsers |-> IF b \in own THEN first ELSE NoActivities]
    /\ editor = [b \in Browsers |-> FALSE]
    /\ migrated = [b \in Browsers |-> FALSE]
    /\ page = [b \in Browsers |-> NoPage]
    /\ form = [b \in Browsers |-> NoForm]
    /\ told = {} /\ calls = {}
    /\ changes = 0 /\ opens = 0 /\ losses = 0

\* writeActivities from the editing page: the other tab is told of a change.
Write(b, list) ==
    /\ caches' = [caches EXCEPT ![b] = list]
    /\ told' = IF form[b].open /\ caches[b] # list THEN told \cup {b} ELSE told

\* setActivities, and the effect that writes what is displayed to the cache.
ShowList(b, list, draft) ==
    /\ page' = [page EXCEPT ![b].list = list, ![b].draft = draft]
    /\ Write(b, list)

----------------------------------------------------------------------------
\* Both pages start from the cache and ask for the list.  Another account
\* may have logged in meanwhile (bound: while no page was open); the
\* localStorage stays.
LogIn(b, may) ==
    /\ page[b].open \/ form[b].open => editor[b] = may
    /\ editor' = [editor EXCEPT ![b] = may]

OpenPage(b) ==
    /\ ~page[b].open /\ Opening /\ LogIn(b, TRUE)
    /\ page' = [page EXCEPT ![b] = [open |-> TRUE, list |-> caches[b], draft |-> NoDraft]]
    /\ calls' = calls \cup {[NewCall(b, "load", NoActivities, Nothing) EXCEPT !.base = caches[b]]}
    /\ UNCHANGED <<stored, caches, migrated, form, told, changes, losses>>

\* Nobody hears the answers any more, and that of a load does nothing then.
ClosePage(b) ==
    /\ page[b].open
    /\ page' = [page EXCEPT ![b] = NoPage]
    /\ calls' = {IF c.from = b /\ c.kind # "read" THEN [c EXCEPT !.heard = FALSE] ELSE c :
                    c \in {d \in calls : ~(d.from = b /\ d.kind = "load")}}
    /\ UNCHANGED <<stored, editor, caches, migrated, form, told, changes, opens, losses>>

OpenForm(b) ==
    /\ b \in Forms /\ ~form[b].open /\ Opening
    /\ \E may \in BOOLEAN : LogIn(b, may)
    /\ form' = [form EXCEPT ![b] = [open |-> TRUE, offered |-> Visible(caches[b])]]
    /\ calls' = calls \cup {[NewCall(b, "read", NoActivities, Nothing) EXCEPT !.base = NoActivities]}
    /\ UNCHANGED <<stored, caches, migrated, page, told, changes, losses>>

CloseForm(b) ==
    /\ form[b].open
    /\ form' = [form EXCEPT ![b] = NoForm]
    /\ told' = told \ {b}
    /\ calls' = {c \in calls : ~(c.from = b /\ c.kind = "read")}
    /\ UNCHANGED <<stored, editor, caches, migrated, page, changes, opens, losses>>

\* startEdit: the draft keeps the activity as it is now.
StartEditing(b) ==
    /\ page[b].open /\ page[b].draft = NoDraft
    /\ \E i \in DOMAIN page[b].list :
        page' = [page EXCEPT ![b].draft = [id |-> i, visible |-> page[b].list[i].visible]]
    /\ UNCHANGED <<stored, editor, caches, migrated, form, told, calls, changes, opens, losses>>

CancelEditor(b) ==
    /\ page[b].draft # NoDraft
    /\ page' = [page EXCEPT ![b].draft = NoDraft]
    /\ UNCHANGED <<stored, editor, caches, migrated, form, told, calls, changes, opens, losses>>

Send(b, kind, list, i) ==
    /\ changes < MaxEditions /\ MayAsk
    /\ changes' = changes + 1
    /\ calls' = calls \cup {NewCall(b, kind, list, i)}
    /\ UNCHANGED <<stored, editor, caches, migrated, page, form, told, opens, losses>>

\* save, of a new activity and of an edited one; nothing keeps it from
\* being pressed again before it is answered.
Add(b) ==
    /\ page[b].open /\ page[b].draft = NoDraft
    /\ \E i \in Ids \ DOMAIN page[b].list :
        Send(b, "save", With(page[b].list, i, [edition |-> changes + 1, visible |-> TRUE]), i)

SaveDraft(b) ==
    LET draft == page[b].draft IN
    /\ page[b].open /\ draft # NoDraft
    /\ Send(b, "save", Edited(page[b].list, draft.id,
                              [edition |-> changes + 1, visible |-> draft.visible]), draft.id)

\* confirmRemove; the list is not displayed while the editor is.
Remove(b) ==
    /\ page[b].open /\ page[b].draft = NoDraft
    /\ \E i \in DOMAIN page[b].list : Send(b, "remove", Without(page[b].list, i), i)

\* One change of a visibility at a time (visibilitySavingId).
ToggleVisibility(b) ==
    /\ page[b].open /\ page[b].draft = NoDraft
    /\ ~\E c \in calls : c.from = b /\ c.kind = "toggle" /\ c.heard
    /\ \E i \in DOMAIN page[b].list : Send(b, "toggle", Toggled(page[b].list, i), i)

----------------------------------------------------------------------------
\* The handlers of GET and PUT: a PUT replaces all there is.
Replaces(c) == c.kind \in {"migrate", "save", "remove", "toggle"}

Serve(c) ==
    /\ c.answer = Nothing
    /\ IF Replaces(c) THEN stored' = c.list ELSE UNCHANGED stored
    /\ calls' = (calls \ {c}) \cup
                {[c EXCEPT !.answer = IF Replaces(c) THEN c.list ELSE ListFor(c.from)]}
    /\ UNCHANGED <<editor, caches, migrated, page, form, told, changes, opens, losses>>

\* The request is refused or lost, or its answer is: the pages only say so.
FailCall(c) ==
    /\ losses < MaxLosses
    /\ losses' = losses + 1
    /\ calls' = calls \ {c}
    /\ UNCHANGED <<stored, editor, caches, migrated, page, form, told, changes, opens>>

\* The first list of the server, or the cache in its place where the server
\* has none and the cache was never replaced by the server's.
Load(c) ==
    LET b == c.from IN
    /\ c.kind = "load"
    /\ IF c.answer = NoActivities /\ caches[b] # NoActivities /\ ~migrated[b]
       THEN /\ ShowList(b, caches[b], page[b].draft)
            /\ calls' = (calls \ {c}) \cup {[NewCall(b, "migrate", caches[b], Nothing)
                                                EXCEPT !.base = caches[b]]}
            /\ UNCHANGED migrated
       ELSE /\ ShowList(b, c.answer, page[b].draft)
            /\ migrated' = [migrated EXCEPT ![b] = TRUE]
            /\ calls' = calls \ {c}
    /\ UNCHANGED form

Migrated(c) ==
    LET b == c.from IN
    /\ c.kind = "migrate"
    /\ IF c.heard
       THEN /\ ShowList(b, c.answer, page[b].draft)
            /\ migrated' = [migrated EXCEPT ![b] = TRUE]
       ELSE UNCHANGED <<caches, migrated, page, told>>
    /\ calls' = calls \ {c}
    /\ UNCHANGED form

\* save and confirmRemove write the cache even when the page has been left;
\* save closes the editor, whatever it holds by then.
Saved(c) ==
    LET b == c.from IN
    /\ c.kind \in {"save", "remove"}
    /\ IF c.heard
       THEN ShowList(b, c.answer, IF c.kind = "save" THEN NoDraft ELSE page[b].draft)
       ELSE Write(b, c.answer) /\ UNCHANGED page
    /\ migrated' = [migrated EXCEPT ![b] = TRUE]
    /\ calls' = calls \ {c}
    /\ UNCHANGED form

Toggle(c) ==
    LET b == c.from IN
    /\ c.kind = "toggle"
    /\ IF c.heard
       THEN ShowList(b, c.answer, page[b].draft)
       ELSE UNCHANGED <<caches, page, told>>
    /\ calls' = calls \ {c}
    /\ UNCHANGED <<migrated, form>>

\* A slip: the list is displayed and not kept.
OfferOnly(c) ==
    LET b == c.from IN
    /\ c.kind = "read"
    /\ form' = [form EXCEPT ![b].offered = Visible(c.answer)]
    /\ calls' = calls \ {c}
    /\ UNCHANGED <<migrated, page, told, caches>>

\* The form's own reading of the list; it writes the cache, too.
Offer(c) ==
    LET b == c.from IN
    /\ c.kind = "read"
    /\ form' = [form EXCEPT ![b].offered = Visible(c.answer)]
    /\ caches' = [caches EXCEPT ![b] = c.answer]
    /\ calls' = calls \ {c}
    /\ UNCHANGED <<migrated, page, told>>

Arrive(c) ==
    /\ c.answer # Nothing
    /\ Load(c) \/ Migrated(c) \/ Saved(c) \/ Toggle(c) \/ Offer(c)
    /\ UNCHANGED <<stored, editor, changes, opens, losses>>

\* A slip: the event displays all there is.
SyncAll(b) ==
    /\ b \in told
    /\ told' = told \ {b}
    /\ form' = [form EXCEPT ![b].offered = caches[b]]
    /\ UNCHANGED <<stored, editor, caches, migrated, page, calls, changes, opens, losses>>

\* sync of the form: the storage event of the other tab.
Sync(b) ==
    /\ b \in told
    /\ told' = told \ {b}
    /\ form' = [form EXCEPT ![b].offered = Visible(caches[b])]
    /\ UNCHANGED <<stored, editor, caches, migrated, page, calls, changes, opens, losses>>

----------------------------------------------------------------------------
PageStep ==
    \E b \in Browsers :
        \/ OpenPage(b) \/ ClosePage(b)
        \/ StartEditing(b) \/ CancelEditor(b)
        \/ Add(b) \/ SaveDraft(b) \/ Remove(b) \/ ToggleVisibility(b)

FormStep ==
    \E b \in Browsers : OpenForm(b) \/ CloseForm(b) \/ Sync(b)

ActivitiesNext ==
    \/ PageStep
    \/ FormStep
    \/ \E c \in calls : Serve(c) \/ FailCall(c) \/ Arrive(c)

ActivitiesSpec == ActivitiesInit /\ [][ActivitiesNext]_activityVars

\* The server answers, answers arrive and browsers dispatch their events.
ActivitiesFairSpec ==
    /\ ActivitiesSpec
    /\ WF_activityVars(\E c \in calls : Serve(c))
    /\ WF_activityVars(\E c \in calls : Arrive(c))
    /\ \A b \in Browsers : WF_activityVars(Sync(b))

----------------------------------------------------------------------------
\* A request form never offers an activity that the list it was drawn from
\* hides, be it read from the server, from the cache that an editing page of
\* the same browser left there, or after the storage event of another tab
\* (CustomerView.tsx:62-73, ActivitiesService.list).
HiddenIsNotOffered ==
    \A b \in Browsers : \A i \in DOMAIN form[b].offered : form[b].offered[i].visible

\* The lists are well formed and kept apart: only editors have a page, and
\* no form offers what is hidden.
ListsAreSound == ActivitiesTypeOK /\ HiddenIsNotOffered

\* A change loses or changes an activity it is not about only when others
\* changed the list since the page had it: the whole list is sent for every
\* change, but what the page saw, hidden activities included, goes back as
\* it was (ActivityView.tsx:117-204, service.ts:19-26).
OnlyUnseenIsLost ==
    [][\A c \in calls :
          /\ Replaces(c) /\ c.kind # "migrate" /\ c.answer = Nothing
          /\ c.base = stored
          /\ Serve(c)
          => \A i \in Ids \ {c.about} :
                /\ i \in DOMAIN stored <=> i \in DOMAIN stored'
                /\ i \in DOMAIN stored => stored'[i] = stored[i]]_activityVars

\* The form of a browser comes to offer what the browser's copy of the list
\* shows, whichever tab wrote it last and whatever order answers and storage
\* events come in (CustomerView.tsx:65-75).
FormFollowsCache ==
    \A b \in Browsers : []<>(form[b].open => form[b].offered = Visible(caches[b]))
====
