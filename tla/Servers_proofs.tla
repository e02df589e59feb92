--------------------------- MODULE Servers_proofs ---------------------------
(***************************************************************************)
(* Proofs about Servers for any servers, changes under way and capacity.   *)
(* A name the projection holds, one that was read and one that an answer   *)
(* carries were all given by the auto process, and none is newer than the  *)
(* name the server has there now (NotNewer).  A catalogue that was read    *)
(* and not overtaken is not older than the projection (ReadIsCurrent), so  *)
(* that merging it never takes a name back.                                *)
(***************************************************************************)
EXTENDS Servers, TLAPS

(* Name n was given before the last of c changes, and not after name a, if *)
(* there is one.                                                           *)
Within(n, c, a) == n <= c /\ (a # None => n <= a)

(* Name n was given to server s, which has no older one now.               *)
Given(n, s) == Within(n, changes, auto[s])

NotNewer ==
    /\ \A s \in Known(auto) : auto[s] <= changes
    /\ \A s \in Known(options) : Given(options[s], s)
    /\ refresh.phase = "read" => \A s \in Known(refresh.entries) : Given(refresh.entries[s], s)
    /\ \A e \in Edits : edits[e] # None /\ edits[e].phase = "applied" =>
           Given(edits[e].name, edits[e].server)

ReadIsCurrent ==
    refresh.phase = "read" /\ Current =>
        \A s \in Known(refresh.entries) \cap Known(options) : options[s] <= refresh.entries[s]

IInv == TypeOK /\ NotNewer /\ ReadIsCurrent

(* What NamesGoForward says of one step.                                   *)
Forward ==
    \A s \in Known(options) :
        /\ s \in Known(options')
        /\ \/ options'[s] >= options[s]
           \/ \E e \in Edits : /\ edits[e] # None /\ edits'[e] # edits[e]
                               /\ edits[e].phase = "applied" /\ edits[e].server = s

-----------------------------------------------------------------------------
LEMMA NamesAreNumbers == Names \subseteq Nat /\ None \notin Names
BY ServersAssumption DEF Names

LEMMA KnownAreNumbers ==
    ASSUME NEW c \in Catalogue, NEW s \in Known(c)
    PROVE  s \in Servers /\ c[s] \in Nat
BY NamesAreNumbers DEF Catalogue, Known

(* A merged catalogue knows every server of both.                          *)
LEMMA MergedKnows ==
    ASSUME NEW base \in Catalogue, NEW entries \in Catalogue
    PROVE  /\ Merged(base, entries) \in Catalogue
           /\ Known(Merged(base, entries)) = Known(base) \cup Known(entries)
           /\ \A s \in Known(entries) : Merged(base, entries)[s] = entries[s]
           /\ \A s \in Servers \ Known(entries) : Merged(base, entries)[s] = base[s]
BY DEF Merged, Catalogue, Known

LEMMA ConfigurationIsCatalogue ==
    FromConfiguration \in Catalogue /\ NoServers \in Catalogue
BY ServersAssumption DEF FromConfiguration, NoServers, Catalogue, Names

(* The projection is what a start would load, and so is anything merged    *)
(* into it: it knows every server of the configuration.                    *)
LEMMA LoadedAgain ==
    ASSUME NEW saved \in Catalogue, NEW entries \in Catalogue
    PROVE  LET next == Merged(Loaded(saved), entries)
           IN  Loaded(saved) \in Catalogue /\ next \in Catalogue /\ next = Loaded(next)
BY ConfigurationIsCatalogue DEF Loaded, Merged, Catalogue

(* What the page does with its request leaves it a page.                   *)
LEMMA PageStays ==
    ASSUME NEW p \in Page
    PROVE  Asked(p) \in Page /\ Settled(p) \in Page
<1>1. \A q \in Page : Asked(q) \in Page
  BY DEF Asked, Page
<1>2. [p EXCEPT !.request = "none", !.answer = NoServers, !.dirty = FALSE] \in Page
  BY ConfigurationIsCatalogue DEF Page
<1> QED BY <1>1, <1>2 DEF Settled

LEMMA ReleasedIsPage ==
    ASSUME NEW p \in Page, NEW c \in Catalogue
    PROVE  Released(p, c) \in Page
BY DEF Released, Page

-----------------------------------------------------------------------------
LEMMA InitInv == Init => IInv
<1> SUFFICES ASSUME Init PROVE IInv
  OBVIOUS
<1>1. auto \in Catalogue /\ stored \in Catalogue
  BY ConfigurationIsCatalogue DEF Init
<1>2. refresh \in Refresh
  BY ConfigurationIsCatalogue DEF Init, Idle, Refresh
<1>3. page \in Page
  BY ConfigurationIsCatalogue DEF Init, Page
<1>4. TypeOK
  <2>1. changes \in Names
    BY ServersAssumption DEF Init, Names
  <2> QED BY <1>1, <1>2, <1>3, <2>1 DEF Init, TypeOK
<1>5. \A s \in Known(auto) : auto[s] = 0
  BY DEF Init, Known, FromConfiguration
<1>6. options = auto
  <2>1. options = [s \in Servers |-> FromConfiguration[s]]
    BY DEF Init, Loaded, Merged, NoServers
  <2> QED BY <2>1 DEF Init, FromConfiguration
<1>7. NotNewer
  BY <1>5, <1>6 DEF Init, NotNewer, Given, Within, Known, Idle
<1>8. ReadIsCurrent
  BY DEF Init, ReadIsCurrent, Idle
<1> QED BY <1>4, <1>7, <1>8 DEF IInv

(* A step that changes neither catalogue, and starts or ends a read or an  *)
(* edit at most, keeps the invariant and every name.                       *)
LEMMA QuietInv ==
    ASSUME IInv, TypeOK', UNCHANGED <<changes, auto, options>>,
           refresh' = refresh \/ refresh'.phase # "read",
           \A e \in Edits : \/ edits'[e] = edits[e] \/ edits'[e] = None
                            \/ edits'[e] # None /\ edits'[e].phase # "applied"
    PROVE  IInv' /\ Forward
<1>1. NotNewer'
  BY DEF IInv, NotNewer, Given, Known
<1>2. ReadIsCurrent'
  BY DEF IInv, ReadIsCurrent, Current, Known
<1>3. Forward
  <2>1. \A s \in Known(options) : options[s] \in Nat
    BY DEF IInv, TypeOK, Loaded, Merged, FromConfiguration, Catalogue, Known, Names
  <2> QED BY <2>1 DEF Forward, Known
<1> QED BY <1>1, <1>2, <1>3 DEF IInv

-----------------------------------------------------------------------------
(* A request to change a server.                                           *)
LEMMA SendInv ==
    ASSUME IInv, NEW e \in Edits, NEW kind \in Kinds, NEW s \in Servers, Send(e, kind, s)
    PROVE  IInv' /\ Forward
<1>1. [phase |-> "sent", kind |-> kind, server |-> s, name |-> 0] \in Edit
  BY ServersAssumption DEF Edit, Names
<1>2. TypeOK'
  BY <1>1 DEF IInv, Send, TypeOK, projection, link
<1>3. \A other \in Edits : \/ edits'[other] = edits[other] \/ edits'[other] = None
                           \/ edits'[other] # None /\ edits'[other].phase # "applied"
  <2>1. [phase |-> "sent", kind |-> kind, server |-> s, name |-> 0] # None
    BY <1>1, ServersAssumption
  <2> QED BY <2>1 DEF IInv, TypeOK, Send
<1> QED BY <1>2, <1>3, QuietInv DEF Send, projection

(* The auto process gives the next name, newer than any before.            *)
LEMMA ApplyInv ==
    ASSUME IInv, NEW e \in Edits, Apply(e)
    PROVE  IInv' /\ Forward
<1> USE DEF IInv
<1> DEFINE s == edits[e].server
<1>1. edits[e] \in Edit /\ s \in Servers /\ edits[e].phase = "sent"
  BY DEF Apply, TypeOK, Edit
<1>2. CASE UNCHANGED <<changes, auto>>
  <2>1. TypeOK' /\ edits' = [edits EXCEPT ![e] = None]
    <3>1. edits' = [edits EXCEPT ![e] = None]
      BY <1>2 DEF Apply, TypeOK, Names
    <3> QED BY <1>2, <3>1 DEF Apply, TypeOK, projection, link
  <2> QED BY <1>2, <2>1, QuietInv DEF Apply, projection, TypeOK
<1>3. CASE ~UNCHANGED <<changes, auto>>
  <2>1. /\ changes < MaxChanges /\ changes' = changes + 1
        /\ auto' = [auto EXCEPT ![s] = IF edits[e].kind = "delete" THEN None ELSE changes']
        /\ edits' = [edits EXCEPT ![e] = [edits[e] EXCEPT !.phase = "applied", !.name = changes']]
        /\ UNCHANGED <<options, stored, refresh, due, enabled, enabling, page>>
    BY <1>3 DEF Apply, projection, link
  <2>2. changes \in Nat /\ changes' \in Names /\ changes' \in Nat
    BY <2>1, ServersAssumption DEF TypeOK, Names
  <2>3. auto' \in Catalogue
    BY <2>1, <2>2 DEF TypeOK, Catalogue
  <2>4. [edits[e] EXCEPT !.phase = "applied", !.name = changes'] \in Edit
    BY <1>1, <2>2 DEF Edit
  <2>5. TypeOK'
    BY <2>1, <2>2, <2>3, <2>4 DEF TypeOK
  <2>6. options \in Catalogue /\ refresh.entries \in Catalogue
    BY LoadedAgain, ConfigurationIsCatalogue DEF TypeOK, Refresh
  <2>7. \A n \in Nat, other \in Servers : Given(n, other) => Within(n, changes', auto'[other])
    BY <2>1, <2>2, NamesAreNumbers DEF Given, Within, TypeOK, Catalogue
  <2>8. Within(changes', changes', auto'[s])
    BY <1>1, <2>1, <2>2, NamesAreNumbers DEF Given, Within, TypeOK, Catalogue
  <2>9. NotNewer'
    <3>1. \A other \in Known(auto)' : auto'[other] <= changes'
      BY <2>1, <2>2, NamesAreNumbers DEF NotNewer, Known, TypeOK, Catalogue
    <3>2. \A other \in Known(options) : Within(options[other], changes', auto'[other])
      BY <2>6, <2>7, NamesAreNumbers DEF NotNewer, Known, Catalogue
    <3>3. refresh.phase = "read" =>
              \A other \in Known(refresh.entries) : Within(refresh.entries[other], changes', auto'[other])
      BY <2>6, <2>7, NamesAreNumbers DEF NotNewer, Known, Catalogue
    <3>4. \A other \in Edits : edits'[other] # None /\ edits'[other].phase = "applied" =>
              Within(edits'[other].name, changes', auto'[edits'[other].server])
      <4> SUFFICES ASSUME NEW other \in Edits, edits'[other] # None, edits'[other].phase = "applied"
                   PROVE  Within(edits'[other].name, changes', auto'[edits'[other].server])
        OBVIOUS
      <4>1. CASE other = e
        BY <1>1, <2>1, <2>8, <4>1 DEF TypeOK, Edit
      <4>2. CASE other # e
        <5>1. edits'[other] = edits[other] /\ edits[other] \in Edit
          BY <2>1, <4>2 DEF TypeOK
        <5>2. Given(edits[other].name, edits[other].server)
          BY <5>1 DEF NotNewer
        <5> QED BY <2>7, <5>1, <5>2, NamesAreNumbers DEF Edit
      <4> QED BY <4>1, <4>2
    <3> QED BY <2>1, <3>1, <3>2, <3>3, <3>4 DEF NotNewer, Given, Known
  <2>10. ReadIsCurrent'
    BY <2>1 DEF ReadIsCurrent, Current, Known
  <2>11. Forward
    BY <2>1, <2>6, NamesAreNumbers DEF Forward, Known, Catalogue
  <2> QED BY <2>5, <2>9, <2>10, <2>11
<1> QED BY <1>2, <1>3

(* Whatever is merged, names that were given and not newer than the         *)
(* server's, stays so; the projection is read again after it.               *)
LEMMA MergeKeeps ==
    ASSUME IInv, NEW entries \in Catalogue,
           \A s \in Known(entries) : Given(entries[s], s),
           options' = Merged(options, entries) \/ options' = options,
           UNCHANGED <<changes, auto>>
    PROVE  \A s \in Known(options') : Within(options'[s], changes', auto'[s])
<1>1. options \in Catalogue
  BY LoadedAgain, ConfigurationIsCatalogue DEF IInv, TypeOK
<1>2. CASE options' = options
  BY <1>2 DEF IInv, NotNewer, Given, Known
<1>3. CASE options' = Merged(options, entries)
  BY <1>1, <1>3, MergedKnows DEF IInv, NotNewer, Given, Known
<1> QED BY <1>2, <1>3

(* A merge keeps the projection and the table one, and overtakes a read     *)
(* under way exactly when it changes something.                            *)
LEMMA MergeTypes ==
    ASSUME IInv, NEW entries \in Catalogue, Merge(entries)
    PROVE  /\ stored' \in Catalogue /\ options' = Loaded(stored') /\ refresh' \in Refresh
           /\ options' = options \/ options' = Merged(options, entries)
           /\ \/ refresh' = refresh /\ options' = options
              \/ refresh' = [refresh EXCEPT !.moved = TRUE]
<1> DEFINE next == Merged(options, entries)
<1>1. next \in Catalogue /\ next = Loaded(next)
  BY LoadedAgain DEF IInv, TypeOK
<1>2. [refresh EXCEPT !.moved = TRUE] \in Refresh
  BY DEF IInv, TypeOK, Refresh
<1>3. CASE Cardinality(Known(next)) <= Capacity /\ next # options
  <2>1. stored' = next /\ options' = next /\ refresh' = [refresh EXCEPT !.moved = TRUE]
    BY <1>3 DEF Merge
  <2> QED BY <1>1, <1>2, <2>1
<1>4. CASE ~(Cardinality(Known(next)) <= Capacity /\ next # options)
  <2>1. stored' = stored /\ options' = options /\ refresh' = refresh
    BY <1>4 DEF Merge
  <2> QED BY <2>1 DEF IInv, TypeOK
<1> QED BY <1>3, <1>4

(* The answer of a change is merged; it may be overtaken itself, and then  *)
(* brings an older name.                                                   *)
LEMMA AnswerInv ==
    ASSUME IInv, NEW e \in Edits, Answer(e)
    PROVE  IInv' /\ Forward
<1> USE DEF IInv
<1> DEFINE s == edits[e].server
           entries == [NoServers EXCEPT ![s] = edits[e].name]
           left == IF e \in Own THEN [edits[e] EXCEPT !.phase = "answered"] ELSE None
<1>1. /\ edits[e] \in Edit /\ edits[e].phase = "applied" /\ s \in Servers
      /\ edits' = [edits EXCEPT ![e] = left]
      /\ UNCHANGED <<changes, auto, due, enabled, enabling, page>>
  BY DEF Answer, TypeOK, Edit, link
<1>2. left \in Edit \cup {None} /\ (left # None => left.phase = "answered") /\ left # edits[e]
  BY <1>1, ServersAssumption DEF Edit
<1>3. edits' \in [Edits -> Edit \cup {None}]
  BY <1>1, <1>2 DEF TypeOK
<1>4. CASE edits[e].kind = "delete"
  <2>1. TypeOK' /\ UNCHANGED <<options, refresh>>
    BY <1>1, <1>3, <1>4 DEF Answer, TypeOK
  <2>2. \A other \in Edits : \/ edits'[other] = edits[other] \/ edits'[other] = None
                             \/ edits'[other] # None /\ edits'[other].phase # "applied"
    BY <1>1, <1>2 DEF TypeOK
  <2> QED BY <1>1, <2>1, <2>2, QuietInv
<1>5. CASE edits[e].kind # "delete"
  <2>1. entries \in Catalogue /\ Known(entries) = {s} /\ entries[s] = edits[e].name
    BY <1>1, ConfigurationIsCatalogue, NamesAreNumbers DEF Catalogue, Known, NoServers, Edit
  <2>2. Merge(entries)
    BY <1>5 DEF Answer
  <2>3. /\ stored' \in Catalogue /\ options' = Loaded(stored') /\ refresh' \in Refresh
        /\ options' = options \/ options' = Merged(options, entries)
        /\ \/ refresh' = refresh /\ options' = options
           \/ refresh' = [refresh EXCEPT !.moved = TRUE]
    BY <2>1, <2>2, MergeTypes
  <2>4. TypeOK'
    BY <1>1, <1>3, <2>3 DEF TypeOK
  <2>5. refresh'.phase = refresh.phase /\ refresh'.entries = refresh.entries
    BY <2>3 DEF TypeOK, Refresh
  <2>6. NotNewer'
    <3>1. \A other \in Known(options') : Within(options'[other], changes', auto'[other])
      <4>1. \A other \in Known(entries) : Given(entries[other], other)
        BY <1>1, <2>1, ServersAssumption DEF NotNewer
      <4> QED BY <1>1, <2>1, <2>3, <4>1, MergeKeeps
    <3>2. \A other \in Edits : edits'[other] # None /\ edits'[other].phase = "applied" =>
              edits'[other] = edits[other]
      BY <1>1, <1>2 DEF TypeOK
    <3> QED BY <1>1, <2>5, <3>1, <3>2 DEF NotNewer, Given, Known
  <2>7. ReadIsCurrent'
    BY <2>3, <2>5 DEF ReadIsCurrent, Current, Known, TypeOK, Refresh
  <2>8. Forward
    <3>1. options \in Catalogue
      BY LoadedAgain, ConfigurationIsCatalogue DEF TypeOK
    <3>2. \A other \in Known(options) : /\ other \in Known(options')
                                        /\ other # s => options'[other] = options[other]
      <4>1. CASE options' = options
        BY <3>1, <4>1, KnownAreNumbers
      <4>2. CASE options' = Merged(options, entries)
        <5> DEFINE merged == Merged(options, entries)
        <5>1. /\ Known(merged) = Known(options) \cup Known(entries)
              /\ \A other \in Servers \ Known(entries) : merged[other] = options[other]
          BY <2>1, <3>1, MergedKnows
        <5>2. \A other \in Known(options) : other \in Servers
          BY <3>1, KnownAreNumbers
        <5> HIDE DEF merged, entries
        <5>3. options' = merged
          BY <4>2 DEF merged
        <5> QED BY <2>1, <5>1, <5>2, <5>3
      <4> QED BY <2>3, <4>1, <4>2
    <3>3. edits[e] # None /\ edits'[e] # edits[e] /\ edits[e].phase = "applied" /\ edits[e].server = s
      BY <1>1, <1>2, ServersAssumption DEF TypeOK
    <3> SUFFICES ASSUME NEW other \in Known(options)
                 PROVE  /\ other \in Known(options')
                        /\ \/ options'[other] >= options[other]
                           \/ \E f \in Edits : /\ edits[f] # None /\ edits'[f] # edits[f]
                                               /\ edits[f].phase = "applied" /\ edits[f].server = other
      BY DEF Forward
    <3>4. CASE other = s
      BY <3>2, <3>3, <3>4
    <3>5. CASE other # s
      <4>1. options[other] \in Nat
        BY <3>1, KnownAreNumbers
      <4> QED BY <3>2, <3>5, <4>1
    <3> QED BY <3>4, <3>5
  <2> QED BY <2>4, <2>6, <2>7, <2>8
<1> QED BY <1>4, <1>5

(* The page hears of it, or the request is lost.                           *)
LEMMA EditEndsInv ==
    ASSUME IInv, NEW e \in Edits, Receive(e) \/ Lose(e)
    PROVE  IInv' /\ Forward
<1>1. page' \in Page
  BY PageStays DEF IInv, TypeOK, Receive, Lose
<1>2. TypeOK'
  BY <1>1 DEF IInv, TypeOK, Receive, Lose, projection, link
<1>3. \A other \in Edits : edits'[other] = edits[other] \/ edits'[other] = None
  BY DEF IInv, TypeOK, Receive, Lose
<1> QED BY <1>2, <1>3, QuietInv DEF Receive, Lose, projection

-----------------------------------------------------------------------------
(* The steps of a read that do not merge.                                  *)
LEMMA ReadingInv ==
    ASSUME IInv, StartRefresh \/ FailRefresh \/ Tick
    PROVE  IInv' /\ Forward
<1>1. /\ Idle \in Refresh /\ [Idle EXCEPT !.phase = "reading"] \in Refresh
      /\ Idle.phase = "idle" /\ [Idle EXCEPT !.phase = "reading"].phase = "reading"
  BY ConfigurationIsCatalogue DEF Idle, Refresh
<1>2. options \in Catalogue
  BY LoadedAgain, ConfigurationIsCatalogue DEF IInv, TypeOK
<1>3. refresh' \in Refresh /\ (refresh' = refresh \/ refresh'.phase # "read")
  BY <1>1 DEF IInv, TypeOK, StartRefresh, FailRefresh, Tick
<1>4. page' \in Page
  BY <1>2, ReleasedIsPage DEF IInv, TypeOK, StartRefresh, FailRefresh, Tick
<1>5. TypeOK'
  BY <1>3, <1>4 DEF IInv, TypeOK, StartRefresh, FailRefresh, Tick, link
<1> QED BY <1>3, <1>5, QuietInv DEF StartRefresh, FailRefresh, Tick

(* What is read is the catalogue of that moment, which has no older name   *)
(* than the projection.                                                    *)
LEMMA ReadInv ==
    ASSUME IInv, Read
    PROVE  IInv' /\ Forward
<1> USE DEF IInv
<1>1. /\ refresh' = [refresh EXCEPT !.phase = "read", !.entries = auto]
      /\ UNCHANGED <<changes, auto, options, stored, due, enabled, enabling, edits, page>>
  BY DEF Read, link
<1>2. options \in Catalogue
  BY LoadedAgain, ConfigurationIsCatalogue DEF TypeOK
<1>3. refresh' \in Refresh /\ refresh'.entries = auto
  BY <1>1 DEF TypeOK, Refresh
<1>4. TypeOK'
  BY <1>1, <1>3 DEF TypeOK
<1>5. NotNewer'
  <2>1. \A s \in Known(auto) : Given(auto[s], s)
    BY KnownAreNumbers DEF NotNewer, Given, Within, TypeOK
  <2> QED BY <1>1, <1>3, <2>1 DEF NotNewer, Given, Known
<1>6. ReadIsCurrent'
  BY <1>1, <1>3 DEF NotNewer, Given, Within, ReadIsCurrent, Known
<1>7. Forward
  BY <1>1, <1>2, NamesAreNumbers DEF Forward, Known, Catalogue
<1> QED BY <1>4, <1>5, <1>6, <1>7

LEMMA FinishRefreshInv ==
    ASSUME IInv, FinishRefresh
    PROVE  IInv' /\ Forward
<1> USE DEF IInv
<1> DEFINE next == Merged(options, refresh.entries)
<1>1. refresh.phase = "read" /\ refresh.entries \in Catalogue /\ options \in Catalogue
  BY LoadedAgain, ConfigurationIsCatalogue DEF TypeOK, Refresh, FinishRefresh
<1>2. /\ refresh' = Idle /\ due' = FALSE /\ page' = Released(page, options')
      /\ UNCHANGED <<changes, auto, enabled, enabling, edits>>
  BY DEF FinishRefresh, link
<1>3. \/ options' = options /\ stored' = stored
      \/ Current /\ options' = next /\ stored' = next
  BY DEF FinishRefresh
<1>4. next \in Catalogue /\ next = Loaded(next)
  BY <1>1, LoadedAgain DEF TypeOK
<1>5. TypeOK'
  <2>1. Idle \in Refresh
    BY ConfigurationIsCatalogue DEF Idle, Refresh
  <2>2. options' \in Catalogue /\ stored' \in Catalogue /\ options' = Loaded(stored')
    BY <1>1, <1>3, <1>4 DEF TypeOK
  <2>3. page' \in Page
    BY <1>2, <2>2, ReleasedIsPage DEF TypeOK
  <2> QED BY <1>2, <2>1, <2>2, <2>3 DEF TypeOK
<1>6. NotNewer'
  <2>1. \A s \in Known(options') : Within(options'[s], changes', auto'[s])
    BY <1>1, <1>2, <1>3, MergeKeeps DEF NotNewer
  <2> QED BY <1>2, <2>1 DEF NotNewer, Given, Known, Idle
<1>7. ReadIsCurrent'
  BY <1>2 DEF ReadIsCurrent, Idle
<1>8. Forward
  <2>1. CASE options' = options
    BY <1>1, <2>1, NamesAreNumbers DEF Forward, Known, Catalogue
  <2>2. CASE Current /\ options' = next
    <3> SUFFICES ASSUME NEW s \in Known(options)
                 PROVE  s \in Known(options') /\ options'[s] >= options[s]
      BY DEF Forward
    <3>1. s \in Servers /\ s \in Known(next)
      BY <1>1, MergedKnows DEF Known
    <3>2. CASE s \in Known(refresh.entries)
      <4>1. next[s] = refresh.entries[s] /\ options[s] <= refresh.entries[s]
        BY <1>1, <2>2, <3>2, MergedKnows DEF ReadIsCurrent
      <4> QED BY <1>1, <2>2, <3>1, <3>2, <4>1, NamesAreNumbers DEF Known, Catalogue
    <3>3. CASE s \notin Known(refresh.entries)
      <4>1. next[s] = options[s] /\ options[s] \in Nat
        BY <1>1, <3>1, <3>3, MergedKnows, KnownAreNumbers
      <4> QED BY <2>2, <3>1, <4>1
    <3> QED BY <3>2, <3>3
  <2> QED BY <1>3, <2>1, <2>2
<1> QED BY <1>5, <1>6, <1>7, <1>8

-----------------------------------------------------------------------------
(* The page asks, hides, is answered or gives up; the connection changes.  *)
LEMMA PageInv ==
    ASSUME IInv, PageStep
    PROVE  IInv' /\ Forward
<1>1. options \in Catalogue
  BY LoadedAgain, ConfigurationIsCatalogue DEF IInv, TypeOK
<1>2. page' \in Page
  <2>1. page \in Page /\ \A v \in BOOLEAN : [page EXCEPT !.visible = v] \in Page
    BY DEF IInv, TypeOK, Page
  <2>2. [page EXCEPT !.shown = page.answer] \in Page
    BY <2>1 DEF Page
  <2>3. /\ [page EXCEPT !.request = "waiting"] \in Page
        /\ [page EXCEPT !.request = "answered", !.answer = options] \in Page
    BY <1>1, <2>1 DEF Page
  <2>4. \/ page' = Asked(page) \/ page' = Settled(page)
        \/ \E v \in BOOLEAN : page' = Asked([page EXCEPT !.visible = v])
        \/ page' = Settled([page EXCEPT !.shown = page.answer])
        \/ page' \in {[page EXCEPT !.request = "waiting"],
                      [page EXCEPT !.request = "answered", !.answer = options]}
    BY DEF PageStep, Poll, Show, Handle, ShowOptions, FailOptions
  <2> QED BY <2>1, <2>2, <2>3, <2>4, PageStays
<1>3. refresh' \in Refresh /\ (refresh' = refresh \/ refresh'.phase # "read")
  <2>1. [Idle EXCEPT !.phase = "reading"] \in Refresh /\ [Idle EXCEPT !.phase = "reading"].phase = "reading"
    BY ConfigurationIsCatalogue DEF Idle, Refresh
  <2> QED BY <2>1 DEF IInv, TypeOK, PageStep, Poll, Show, Handle, ShowOptions, FailOptions, projection
<1>4. UNCHANGED <<changes, auto, options, stored, due, enabled, enabling, edits>>
  BY DEF PageStep, Poll, Show, Handle, ShowOptions, FailOptions, projection, link
<1>5. TypeOK'
  BY <1>2, <1>3, <1>4 DEF IInv, TypeOK
<1> QED BY <1>3, <1>4, <1>5, QuietInv

LEMMA LinkInv ==
    ASSUME IInv, LinkStep
    PROVE  IInv' /\ Forward
<1>1. enabled' \in BOOLEAN /\ enabling' \in BOOLEAN
  BY Zenon DEF IInv, TypeOK, LinkStep, Disable, AskEnable, Checked
<1>2. UNCHANGED <<changes, auto, options, stored, refresh, due, edits, page>>
  BY DEF LinkStep, Disable, AskEnable, Checked, projection
<1>3. TypeOK'
  BY <1>1, <1>2 DEF IInv, TypeOK
<1> QED BY <1>2, <1>3, QuietInv

(* A start of the backend loads what the table has: the same projection.   *)
LEMMA RestartInv ==
    ASSUME IInv, Restart
    PROVE  IInv' /\ Forward
<1>1. options' = options /\ UNCHANGED <<changes, auto, stored>>
  BY DEF IInv, TypeOK, Restart
<1>2. refresh' \in Refresh /\ refresh'.phase = "idle"
  BY ConfigurationIsCatalogue DEF Restart, Idle, Refresh
<1>3. page' \in Page
  BY PageStays DEF IInv, TypeOK, Restart
<1>4. \A e \in Edits : edits'[e] = None \/ edits'[e] = edits[e]
  BY DEF Restart
<1>5. TypeOK'
  BY <1>1, <1>2, <1>3 DEF IInv, TypeOK, Restart
<1> QED BY <1>1, <1>2, <1>4, <1>5, QuietInv

LEMMA NextInv == IInv /\ [Next]_vars => IInv' /\ [Forward]_vars
<1> SUFFICES ASSUME IInv, [Next]_vars PROVE IInv' /\ [Forward]_vars
  OBVIOUS
<1>1. CASE EditStep
  BY <1>1, SendInv, ApplyInv, AnswerInv, EditEndsInv DEF EditStep
<1>2. CASE RefreshStep
  BY <1>2, ReadingInv, ReadInv, FinishRefreshInv DEF RefreshStep
<1>3. CASE PageStep
  BY <1>3, PageInv
<1>4. CASE LinkStep
  BY <1>4, LinkInv
<1>5. CASE Restart
  BY <1>5, RestartInv
<1>6. CASE UNCHANGED vars
  <2>1. TypeOK'
    BY <1>6 DEF IInv, TypeOK, vars, projection, link
  <2> QED BY <1>6, <2>1, QuietInv DEF vars, projection
<1> QED BY <1>1, <1>2, <1>3, <1>4, <1>5, <1>6 DEF Next

THEOREM Invariance == Spec => []IInv
<1>1. IInv /\ [Next]_vars => IInv'
  BY NextInv
<1> QED BY <1>1, InitInv, PTL DEF Spec

-----------------------------------------------------------------------------
(* The projection is at every moment what a restart would load.            *)
THEOREM TypesHold == Spec => []TypeOK
<1>1. IInv => TypeOK
  BY DEF IInv
<1> QED BY <1>1, Invariance, PTL

(* A server the SOP knows stays known and keeps a name as new as it had,   *)
(* whatever is read, merged, refused for its size or restarted; only the   *)
(* answer of a change that another overtook brings an older one.           *)
THEOREM NamesNeverGoBack == Spec => NamesGoForward
<1>1. IInv /\ [Next]_vars => [Forward]_vars
  BY NextInv
<1>2. NamesGoForward <=> [][Forward]_vars
  BY DEF NamesGoForward, Forward
<1> QED BY <1>1, <1>2, Invariance, PTL DEF Spec
=============================================================================
