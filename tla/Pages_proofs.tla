---------------------------- MODULE Pages_proofs ----------------------------
(***************************************************************************)
(* Proofs about what the browser pages show: of one work order (Desk), of  *)
(* the activities (Activities) and of the messages to the game (Messages), *)
(* for any values of their constants.  The three share no constant and no  *)
(* variable, and a theorem speaks of one of them alone.                    *)
(***************************************************************************)
EXTENDS Desk, Activities, Messages, SequenceTheorems, TLAPS

-----------------------------------------------------------------------------
(***************************************************************************)
(* Desk.  The invariant says of the reads under way, the cache and what is *)
(* shown, taken together as the record c, that they are Tidy: a read that  *)
(* may be cached or displayed is no older than what is shown, nor a cached *)
(* answer; what may be cached is at least as new as the last change of the *)
(* page's own (w) and no newer than the table (n).  Every step of the page *)
(* is made of Invalidated, Loaded and Kept, each of which keeps c Tidy.    *)
(***************************************************************************)
ClientType == [q: SUBSET Request, cached: [Reads -> Versions \cup {None}],
               shows: [Reads -> Versions \cup {None}], loads: BOOLEAN]

\* No read under way may be cached: the cache was dropped since it was sent.
NoFresh(q) == \A r \in q : ~r.fresh

\* One cacheable read of a list, and one read that the last load waits for.
OneOfAKind(q) ==
    \A r, s \in q : /\ r.fresh /\ s.fresh /\ r.of = s.of => r = s
                    /\ r.latest /\ s.latest => r = s

\* The reads under way are of the past, and newer than what they may replace.
ReadsFit(c, n, w) ==
    \A r \in c.q :
       /\ r.since <= n
       /\ r.fresh => c.cached[r.of] = None /\ r.since >= w
       /\ (r.fresh \/ r.latest) /\ c.shows[r.of] # None => c.shows[r.of] <= r.since

\* What is shown is no newer than what is cached, which has the own change.
PagesFit(c, n, w) ==
    \A p \in Reads :
       /\ c.shows[p] # None => c.shows[p] <= n
       /\ c.cached[p] # None => /\ w <= c.cached[p] /\ c.cached[p] <= n
                                /\ c.shows[p] # None => c.shows[p] <= c.cached[p]

\* A load that outlives an invalidation leaves nothing cached beside it.
Tidy(c, n, w) ==
    /\ c \in ClientType /\ OneOfAKind(c.q)
    /\ c.loads = \E r \in c.q : r.latest
    /\ (\E r \in c.q : r.latest /\ ~r.fresh) => c.cached = Empty /\ NoFresh(c.q)
    /\ ReadsFit(c, n, w) /\ PagesFit(c, n, w)

\* ReadYourWrites, with what a load under way is bound to bring.
Settled ==
    view # "operations" /\ ~crossed /\ ~(view = "counts" /\ dirty) =>
        IF loading THEN \A r \in wire : r.latest => r.of = view /\ r.since >= wrote
        ELSE At(view) >= wrote \/ At(view) < missed

\* Nothing was missed, written or heard that has not happened.
InTime ==
    /\ missed <= Now /\ wrote <= Now /\ stream.heard <= Now
    /\ own # None => own.at <= Now

DeskInv == TypeOK /\ Tidy(Client, Now, wrote) /\ Settled /\ InTime

-----------------------------------------------------------------------------
LEMMA VersionsAreNat == Versions \subseteq Nat /\ None \notin Versions
  BY DeskAssumption DEF Versions

\* What is shown in t is no older than in s.
Later(s, t) == \A p \in Reads : s[p] # None /\ t[p] # None => t[p] >= s[p]

(* Dropping the cache keeps the client tidy, for a newer own change too.   *)
LEMMA InvalidatedTidy ==
  ASSUME NEW c, NEW n \in Nat, NEW w \in Nat, NEW u \in Nat, Tidy(c, n, w)
  PROVE  /\ Tidy(Invalidated(c), n, u)
         /\ NoFresh(Invalidated(c).q) /\ Invalidated(c).cached = Empty
         /\ Invalidated(c).shows = c.shows /\ Invalidated(c).loads = c.loads
         /\ \A r \in Invalidated(c).q : \E s \in c.q :
               r.of = s.of /\ r.since = s.since /\ r.latest = s.latest
<1> DEFINE d == Invalidated(c)
           stale(r) == [r EXCEPT !.fresh = FALSE]
<1>1. c \in ClientType /\ c.q \subseteq Request
  BY DEF Tidy, ClientType
<1>2. \A r \in c.q : /\ stale(r) \in Request /\ stale(r).of = r.of /\ stale(r).since = r.since
                     /\ stale(r).latest = r.latest /\ ~stale(r).fresh
  BY <1>1 DEF Request
<1>3. /\ d.q = {stale(r) : r \in c.q} /\ d.cached = Empty
      /\ d.shows = c.shows /\ d.loads = c.loads /\ d \in ClientType
  <2>1. {stale(r) : r \in c.q} \in SUBSET Request
    BY <1>2
  <2>2. Empty \in [Reads -> Versions \cup {None}]
    BY DEF Empty
  <2> QED BY <1>1, <2>1, <2>2 DEF Invalidated, ClientType
<1>4. \A r \in d.q : \E s \in c.q : r = stale(s)
  BY <1>3
<1> HIDE DEF d, stale
<1>5. OneOfAKind(d.q)
  BY <1>2, <1>4 DEF OneOfAKind, Tidy
<1>6. NoFresh(d.q)
  BY <1>2, <1>4 DEF NoFresh
<1>7. d.loads = \E r \in d.q : r.latest
  BY <1>2, <1>3, <1>4 DEF Tidy
<1>8. ReadsFit(d, n, u)
  BY <1>2, <1>3, <1>4 DEF ReadsFit, Tidy
<1>9. PagesFit(d, n, u)
  BY <1>3 DEF PagesFit, Tidy, Empty
<1>10. Tidy(d, n, u)
  BY <1>3, <1>5, <1>6, <1>7, <1>8, <1>9 DEF Tidy
<1> QED BY <1>2, <1>3, <1>4, <1>6, <1>10 DEF d

(* So does the end of the cache's life.                                    *)
LEMMA AgedTidy ==
  ASSUME NEW c \in Aged, NEW n \in Nat, NEW w \in Nat, Tidy(Client, n, w)
  PROVE  Tidy(c, n, w) /\ c.shows = shown /\ c.q = wire /\ c.loads = loading
<1>1. CASE c = Client
  BY <1>1 DEF Client
<1>2. CASE c = [Client EXCEPT !.cached = Empty]
  <2>1. Client \in ClientType
    BY DEF Tidy
  <2>2. /\ c \in ClientType /\ c.q = Client.q /\ c.shows = Client.shows /\ c.loads = Client.loads
        /\ c.cached = Empty
    <3>1. Empty \in [Reads -> Versions \cup {None}]
      BY DEF Empty
    <3> QED BY <1>2, <2>1, <3>1 DEF ClientType
  <2>3. \A p \in Reads : Empty[p] = None
    BY DEF Empty
  <2>4. ReadsFit(c, n, w)
    <3>1. \A r \in Client.q : r.of \in Reads
      BY <2>1 DEF ClientType, Request
    <3> QED BY <2>2, <2>3, <3>1 DEF ReadsFit, Tidy
  <2>5. PagesFit(c, n, w)
    BY <2>2, <2>3 DEF PagesFit, Tidy
  <2>6. Client.q = wire /\ Client.shows = shown /\ Client.loads = loading
    BY DEF Client
  <2> QED BY <2>2, <2>4, <2>5, <2>6 DEF Tidy
<1> QED BY <1>1, <1>2 DEF Aged

(* What Show changes.                                                      *)
LEMMA ShowIs ==
  ASSUME NEW s \in [Reads -> Versions \cup {None}], NEW p \in Reads, NEW v \in Versions
  PROVE  /\ Show(s, p, v) \in [Reads -> Versions \cup {None}] /\ Show(s, p, v)[p] = v
         /\ \A x \in Reads : x # p => Show(s, p, v)[x] \in {None, s[x]}
  BY DEF Show

(* A load keeps the client tidy, shows nothing older than before, and shows *)
(* or waits for a state of the list that has the page's own changes.       *)
LEMMA LoadedTidy ==
  ASSUME Now \in Versions, NEW c, NEW w \in Nat, w <= Now, Tidy(c, Now, w), NEW p \in Reads
  PROVE  /\ Tidy(Loaded(c, p), Now, w) /\ Later(c.shows, Loaded(c, p).shows)
         /\ IF Loaded(c, p).loads
            THEN \A r \in Loaded(c, p).q : r.latest => r.of = p /\ r.since >= w
            ELSE Loaded(c, p).shows[p] # None /\ Loaded(c, p).shows[p] >= w
<1> DEFINE d == Loaded(c, p)
           dropped(r) == [r EXCEPT !.latest = FALSE]
           asked(r) == [r EXCEPT !.latest = TRUE]
           others == {dropped(r) : r \in c.q}
           joined == {r \in others : r.fresh /\ r.of = p}
           new == [of |-> p, since |-> Now, fresh |-> TRUE, latest |-> FALSE]
           shared == IF joined # {} THEN joined ELSE {new}
<1>n. Now \in Nat /\ Versions \subseteq Nat /\ None \notin Versions
  BY VersionsAreNat
<1>1. c \in ClientType /\ c.q \subseteq Request
      /\ c.cached \in [Reads -> Versions \cup {None}] /\ c.shows \in [Reads -> Versions \cup {None}]
  BY DEF Tidy, ClientType
<1>2. \A r \in Request : /\ dropped(r) \in Request /\ dropped(r).of = r.of
                         /\ dropped(r).since = r.since
                         /\ dropped(r).fresh = r.fresh /\ ~dropped(r).latest
  BY DEF Request
<1>3. \A r \in Request : /\ asked(r) \in Request /\ asked(r).of = r.of
                         /\ asked(r).since = r.since
                         /\ asked(r).fresh = r.fresh /\ asked(r).latest
  BY DEF Request
<1>4. others \subseteq Request /\ \A r \in others : ~r.latest /\ \E s \in c.q : r = dropped(s)
  <2>1. \A r : r \in others <=> \E s \in c.q : r = dropped(s)
    OBVIOUS
  <2> HIDE DEF others, dropped
  <2> QED BY <1>1, <1>2, <2>1
<1>5. /\ c.cached[p] # None =>
            d = [c EXCEPT !.q = others, !.shows = Show(@, p, c.cached[p]), !.loads = FALSE]
      /\ c.cached[p] = None =>
            d = [c EXCEPT !.q = (others \ joined) \cup {asked(r) : r \in shared}, !.loads = TRUE]
  BY DEF Loaded
<1> HIDE DEF d, dropped, asked
<1>6. OneOfAKind(others)
  BY <1>1, <1>2, <1>4 DEF OneOfAKind, Tidy
<1>7. \A r \in others : /\ r.since <= Now /\ (r.fresh => c.cached[r.of] = None /\ r.since >= w)
                        /\ r.fresh /\ c.shows[r.of] # None => c.shows[r.of] <= r.since
  BY <1>1, <1>2, <1>4 DEF ReadsFit, Tidy
<1>c. CASE c.cached[p] # None
  <2>1. c.cached[p] \in Versions
    BY <1>1, <1>c
  <2>2. /\ d \in ClientType /\ d.q = others /\ d.cached = c.cached /\ d.loads = FALSE
        /\ d.shows = Show(c.shows, p, c.cached[p])
    <3>1. others \in SUBSET Request
      BY <1>4
    <3>2. Show(c.shows, p, c.cached[p]) \in [Reads -> Versions \cup {None}]
      BY <1>1, <2>1, ShowIs
    <3> HIDE DEF others
    <3> QED BY <1>1, <1>5, <1>c, <3>1, <3>2 DEF ClientType
  <2>3. /\ d.shows[p] = c.cached[p]
        /\ \A x \in Reads : x # p => d.shows[x] \in {None, c.shows[x]}
    BY <1>1, <2>1, <2>2, ShowIs
  <2> HIDE DEF others
  <2>4. d.loads = \E r \in d.q : r.latest
    BY <1>4, <2>2
  <2>5. ReadsFit(d, Now, w)
    <3> SUFFICES ASSUME NEW r \in others
                 PROVE  /\ r.since <= Now /\ (r.fresh => c.cached[r.of] = None /\ r.since >= w)
                        /\ (r.fresh \/ r.latest) /\ d.shows[r.of] # None => d.shows[r.of] <= r.since
      BY <2>2 DEF ReadsFit
    <3>1. r.of \in Reads
      BY <1>4 DEF Request
    <3> QED BY <3>1, <1>4, <1>7, <1>c, <2>3
  <2>6. PagesFit(d, Now, w)
    <3> SUFFICES ASSUME NEW x \in Reads
                 PROVE  /\ d.shows[x] # None => d.shows[x] <= Now
                        /\ c.cached[x] # None => /\ w <= c.cached[x] /\ c.cached[x] <= Now
                                                 /\ d.shows[x] # None => d.shows[x] <= c.cached[x]
      BY <2>2 DEF PagesFit
    <3>1. /\ c.shows[x] # None => c.shows[x] <= Now
          /\ c.cached[x] # None => /\ w <= c.cached[x] /\ c.cached[x] <= Now
                                   /\ c.shows[x] # None => c.shows[x] <= c.cached[x]
      BY DEF PagesFit, Tidy
    <3>2. CASE x = p
      <4>1. c.cached[p] <= c.cached[p]
        <5>1. c.cached[p] \in Nat
          BY <2>1, <1>n
        <5> QED BY <5>1
      <4> QED BY <3>1, <3>2, <2>3, <4>1
    <3>3. CASE x # p
      BY <3>1, <3>3, <2>3
    <3> QED BY <3>2, <3>3
  <2>7. Tidy(d, Now, w)
    BY <1>4, <1>6, <2>2, <2>4, <2>5, <2>6 DEF Tidy
  <2>8. Later(c.shows, d.shows)
    <3> SUFFICES ASSUME NEW x \in Reads, c.shows[x] # None, d.shows[x] # None
                 PROVE  d.shows[x] >= c.shows[x]
      BY DEF Later
    <3>1. c.shows[x] \in Nat
      BY <1>n, <1>1
    <3> QED BY <3>1, <2>1, <2>3, <1>n, <1>c DEF PagesFit, Tidy
  <2>9. d.shows[p] # None /\ d.shows[p] >= w
    BY <2>3, <1>c, <2>1, <1>n DEF PagesFit, Tidy
  <2> QED BY <2>2, <2>7, <2>8, <2>9 DEF d
<1>u. CASE c.cached[p] = None
  <2>1. new \in Request /\ new.fresh /\ new.of = p /\ new.since = Now
    BY DEF Request
  <2> HIDE DEF new
  <2>2. shared \subseteq Request
    BY <2>1, <1>4
  <2>3. {asked(r) : r \in shared} \subseteq Request
    BY <1>3, <2>2
  <2>4. /\ d \in ClientType /\ d.cached = c.cached /\ d.shows = c.shows /\ d.loads
        /\ d.q = (others \ joined) \cup {asked(r) : r \in shared}
    <3>1. (others \ joined) \cup {asked(r) : r \in shared} \in SUBSET Request
      BY <1>4, <2>3
    <3> HIDE DEF others, joined, shared
    <3> QED BY <1>1, <1>5, <1>u, <3>1 DEF ClientType
  <2>5. PICK j \in Request : /\ shared = {j} /\ j.fresh /\ j.of = p /\ w <= j.since /\ j.since <= Now
                             /\ c.shows[p] # None => c.shows[p] <= j.since
    <3>1. CASE joined = {}
      <4>1. Now >= w /\ Now <= Now /\ (c.shows[p] # None => c.shows[p] <= Now)
        BY <1>n DEF PagesFit, Tidy
      <4> QED BY <3>1, <2>1, <4>1
    <3>2. CASE joined # {}
      <4>1. PICK j \in joined : TRUE
        BY <3>2
      <4>2. j \in others /\ j \in Request /\ j.fresh /\ j.of = p
        BY <1>4
      <4>3. \A r \in joined : r = j
        BY <1>6, <4>2 DEF OneOfAKind
      <4>4. joined = {j}
        BY <4>1, <4>3
      <4>5. w <= j.since /\ j.since <= Now /\ (c.shows[p] # None => c.shows[p] <= j.since)
        <5>1. j.since \in Nat
          BY <4>2, <1>n DEF Request
        <5> QED BY <5>1, <4>2, <1>7
      <4> QED BY <3>2, <4>2, <4>4, <4>5
    <3> QED BY <3>1, <3>2
  <2>6. /\ asked(j) \in d.q /\ asked(j).latest /\ asked(j).fresh /\ asked(j).of = p
        /\ asked(j).since = j.since
        /\ \A r \in d.q : r = asked(j) \/ (r \in others /\ ~(r.fresh /\ r.of = p))
    BY <1>3, <2>4, <2>5
  <2> HIDE DEF others, joined, shared
  <2>7. OneOfAKind(d.q)
    BY <1>4, <1>6, <2>6 DEF OneOfAKind
  <2>8. d.loads = \E r \in d.q : r.latest
    BY <2>4, <2>6
  <2>9. ~ \E r \in d.q : r.latest /\ ~r.fresh
    BY <1>4, <2>6
  <2>10. ReadsFit(d, Now, w)
    <3> SUFFICES ASSUME NEW r \in d.q
                 PROVE  /\ r.since <= Now /\ (r.fresh => c.cached[r.of] = None /\ r.since >= w)
                        /\ (r.fresh \/ r.latest) /\ c.shows[r.of] # None => c.shows[r.of] <= r.since
      BY <2>4 DEF ReadsFit
    <3>1. CASE r = asked(j)
      <4>1. j.since \in Nat
        BY <2>5, <1>n DEF Request
      <4> QED BY <3>1, <4>1, <2>5, <2>6, <1>u
    <3>2. CASE r \in others
      BY <3>2, <1>4, <1>7
    <3> QED BY <3>1, <3>2, <2>6
  <2>11. PagesFit(d, Now, w)
    BY <2>4 DEF PagesFit, Tidy
  <2>12. Tidy(d, Now, w)
    BY <2>4, <2>7, <2>8, <2>9, <2>10, <2>11 DEF Tidy
  <2>13. Later(c.shows, d.shows)
    <3>1. \A x \in Reads : c.shows[x] # None => c.shows[x] >= c.shows[x]
      <4>1. \A x \in Reads : c.shows[x] # None => c.shows[x] \in Nat
        BY <1>1, <1>n
      <4> QED BY <4>1
    <3> QED BY <3>1, <2>4 DEF Later
  <2>14. \A r \in d.q : r.latest => r.of = p /\ r.since >= w
    <3>1. j.since \in Nat
      BY <2>5, <1>n DEF Request
    <3> QED BY <3>1, <1>4, <2>5, <2>6
  <2> QED BY <2>4, <2>12, <2>13, <2>14 DEF d
<1> QED BY <1>c, <1>u
\* The client's side put together from its parts.
PageOf(q, k, s, l) == [q |-> q, cached |-> k, shows |-> s, loads |-> l]

(* Fewer reads are as tidy, and so is a client in a later state.           *)
LEMMA FewerTidy ==
  ASSUME NEW c, NEW n \in Nat, NEW w \in Nat, Tidy(c, n, w),
         NEW q, q \subseteq c.q, NEW l \in BOOLEAN, l = \E r \in q : r.latest
  PROVE  Tidy(PageOf(q, c.cached, c.shows, l), n, w)
<1> DEFINE d == PageOf(q, c.cached, c.shows, l)
<1>1. d.q = q /\ d.cached = c.cached /\ d.shows = c.shows /\ d.loads = l
  BY DEF PageOf
<1>2. d \in ClientType
  BY DEF Tidy, ClientType, PageOf
<1> HIDE DEF d
<1>3. OneOfAKind(d.q)
  BY <1>1 DEF Tidy, OneOfAKind
<1>4. (\E r \in d.q : r.latest /\ ~r.fresh) => d.cached = Empty /\ NoFresh(d.q)
  BY <1>1 DEF Tidy, NoFresh
<1>5. ReadsFit(d, n, w)
  BY <1>1 DEF Tidy, ReadsFit
<1>6. PagesFit(d, n, w)
  BY <1>1 DEF Tidy, PagesFit
<1>7. Tidy(d, n, w)
  BY <1>1, <1>2, <1>3, <1>4, <1>5, <1>6 DEF Tidy
<1> QED BY <1>7 DEF d

LEMMA TidyGrows ==
  ASSUME NEW c, NEW n \in Nat, NEW m \in Nat, n <= m, NEW w \in Nat, Tidy(c, n, w)
  PROVE  Tidy(c, m, w)
<1>1. /\ c \in ClientType /\ Versions \subseteq Nat
      /\ \A r \in c.q : r.since \in Nat
      /\ \A p \in Reads : /\ c.shows[p] # None => c.shows[p] \in Nat
                          /\ c.cached[p] # None => c.cached[p] \in Nat
  BY VersionsAreNat DEF Tidy, ClientType, Request
<1>2. ReadsFit(c, m, w)
  BY <1>1 DEF Tidy, ReadsFit
<1>3. PagesFit(c, m, w)
  <2> SUFFICES ASSUME NEW p \in Reads
               PROVE  /\ c.shows[p] # None => c.shows[p] <= m
                      /\ c.cached[p] # None => /\ w <= c.cached[p] /\ c.cached[p] <= m
                                               /\ c.shows[p] # None => c.shows[p] <= c.cached[p]
    BY DEF PagesFit
  <2> QED BY <1>1 DEF Tidy, PagesFit
<1> QED BY <1>2, <1>3 DEF Tidy

\* The client shows in v what has the own change w, or waits for it.
UpToDate(c, v, w) ==
    v # "operations" => IF c.loads THEN \A r \in c.q : r.latest => r.of = v /\ r.since >= w
                        ELSE c.shows[v] # None /\ c.shows[v] >= w

(* The same of the load of a view, the form without a list included.       *)
LEMMA LoadedViewTidy ==
  ASSUME Now \in Versions, NEW c, NEW w \in Nat, w <= Now, Tidy(c, Now, w),
         NEW v, v \in Reads \cup {"operations"}
  PROVE  /\ Tidy(LoadedView(c, v), Now, w) /\ Later(c.shows, LoadedView(c, v).shows)
         /\ UpToDate(LoadedView(c, v), v, w)
<1>1. CASE v \in Reads
  BY <1>1, LoadedTidy DEF LoadedView, UpToDate
<1>2. CASE v \notin Reads
  <2> DEFINE d == LoadedView(c, v)
             dropped(r) == [r EXCEPT !.latest = FALSE]
  <2>1. c \in ClientType /\ c.q \subseteq Request
    BY DEF Tidy, ClientType
  <2>2. \A r \in Request : /\ dropped(r) \in Request /\ dropped(r).of = r.of
                           /\ dropped(r).since = r.since
                           /\ dropped(r).fresh = r.fresh /\ ~dropped(r).latest
    BY DEF Request
  <2>3. d.q = {dropped(r) : r \in c.q} /\ d.shows = Empty /\ d.cached = c.cached /\ d.loads = FALSE
        /\ d \in ClientType
    <3>1. {dropped(r) : r \in c.q} \in SUBSET Request
      BY <2>1, <2>2
    <3>2. Empty \in [Reads -> Versions \cup {None}]
      BY DEF Empty
    <3> QED BY <1>2, <2>1, <3>1, <3>2 DEF LoadedView, ClientType
  <2>4. \A r \in d.q : r \in Request /\ ~r.latest /\ \E s \in c.q : r = dropped(s)
    BY <2>1, <2>2, <2>3
  <2>5. \A p \in Reads : Empty[p] = None
    BY DEF Empty
  <2> HIDE DEF d, dropped
  <2>6. OneOfAKind(d.q)
    BY <2>1, <2>2, <2>4 DEF Tidy, OneOfAKind
  <2>7. d.loads = \E r \in d.q : r.latest
    BY <2>3, <2>4
  <2>8. ReadsFit(d, Now, w)
    <3> SUFFICES ASSUME NEW r \in d.q
                 PROVE  /\ r.since <= Now /\ (r.fresh => c.cached[r.of] = None /\ r.since >= w)
                        /\ Empty[r.of] = None
      BY <2>3 DEF ReadsFit
    <3>1. PICK s \in c.q : r = dropped(s)
      BY <2>4
    <3> QED BY <3>1, <2>1, <2>2, <2>5 DEF Tidy, ReadsFit, Request
  <2>9. PagesFit(d, Now, w)
    BY <2>3, <2>5 DEF Tidy, PagesFit
  <2>10. Tidy(d, Now, w)
    BY <2>3, <2>4, <2>6, <2>7, <2>8, <2>9 DEF Tidy
  <2>11. Later(c.shows, d.shows)
    BY <2>3, <2>5 DEF Later
  <2> QED BY <1>2, <2>10, <2>11 DEF d, UpToDate
<1> QED BY <1>1, <1>2

(* Reads that are forgotten do not matter.                                 *)
LEMMA BecomesTidy ==
  ASSUME NEW n \in Nat, NEW c, NEW w \in Nat, Tidy(c, n, w), Becomes(c)
  PROVE  /\ Tidy(Client', n, w) /\ wire' \subseteq c.q /\ shown' = c.shows /\ loading' = c.loads
<1>1. Kept(c, view') \subseteq c.q /\ \A r \in c.q : r.latest => r \in Kept(c, view')
  BY DEF Kept
<1>2. c.loads = \E r \in Kept(c, view') : r.latest
  BY <1>1 DEF Tidy
<1>3. c.loads \in BOOLEAN
  BY DEF Tidy, ClientType
<1>4. Tidy(PageOf(Kept(c, view'), c.cached, c.shows, c.loads), n, w)
  BY <1>1, <1>2, <1>3, FewerTidy
<1>5. Client' = PageOf(Kept(c, view'), c.cached, c.shows, c.loads)
  BY DEF Client, PageOf, Becomes
<1> QED BY <1>1, <1>4, <1>5 DEF Becomes

(* The types of the client's side are part of Tidy; Rest is the others.    *)
LEMMA TidyTypes ==
  ASSUME NEW q, NEW k, NEW s, NEW l, NEW n, NEW w, Tidy(PageOf(q, k, s, l), n, w)
  PROVE  /\ q \subseteq Request /\ k \in [Reads -> Versions \cup {None}]
         /\ s \in [Reads -> Versions \cup {None}] /\ l \in BOOLEAN
         /\ l = (\E r \in q : r.latest) /\ OneOfAKind(q)
  BY DEF Tidy, ClientType, PageOf

Rest ==
    /\ record \in Seq(Statuses) /\ Now \in Versions
    /\ role \in Roles /\ view \in Watched(role)
    /\ visible \in BOOLEAN /\ crossed \in BOOLEAN
    /\ dirty \in BOOLEAN
    /\ stream \in Stream /\ missed \in Past
    /\ own \in Own \cup {None} /\ wrote \in Past
    /\ faults \in 0..MaxFaults

LEMMA TypeFromRest == (Rest /\ Tidy(Client, Now, wrote)) => TypeOK
<1>1. Client = PageOf(wire, cache, shown, loading)
  BY DEF Client, PageOf
<1> QED BY <1>1, TidyTypes DEF Rest, TypeOK, OneOfAKind

LEMMA TypeGivesRest == TypeOK => Rest
  BY DEF TypeOK, Rest

(* An up-to-date view is settled, in this state and in the next.           *)
LEMMA SettledFromUpToDate ==
  ASSUME UpToDate(Client, view, wrote), view \in Reads \cup {"operations"},
         shown \in [Reads -> Versions \cup {None}]
  PROVE  Settled
  BY DEF UpToDate, Settled, Client, At
LEMMA BecomesUpToDate ==
  ASSUME NEW c, NEW v, NEW w, UpToDate(c, v, w), Becomes(c)
  PROVE  UpToDate(Client', v, w)
<1>1. Kept(c, view') \subseteq c.q
  BY DEF Kept
<1>2. /\ Client.q' = Kept(c, view') /\ Client.shows' = c.shows /\ Client.loads' = c.loads
  BY DEF Becomes, Client
<1> QED BY <1>1, <1>2 DEF UpToDate

LEMMA SettledNext ==
  ASSUME UpToDate(Client, view, wrote)', (view \in Reads \cup {"operations"})'
  PROVE  Settled'
<1>1. /\ Client.q' = wire' /\ Client.shows' = shown' /\ Client.loads' = loading'
  BY DEF Client
<1> QED BY <1>1 DEF UpToDate, Settled, At

LEMMA ViewsAreRead == \A r \in Roles : Watched(r) \subseteq Reads \cup {"operations"}
  BY DEF Roles, Watched, Views, Reads, Lists

(* What the steps need of the invariant.                                   *)
LEMMA Basics ==
  ASSUME DeskInv
  PROVE  /\ Now \in Nat /\ wrote \in Nat /\ missed \in Nat /\ wrote <= Now /\ Now \in Versions
         /\ Now \in Past /\ Now <= Now /\ missed <= Now /\ missed \in Past
         /\ Versions \subseteq Nat /\ None \notin Versions
         /\ view \in Reads \cup {"operations"}
         /\ Client.q = wire /\ Client.cached = cache /\ Client.shows = shown /\ Client.loads = loading
         /\ shown \in [Reads -> Versions \cup {None}] /\ cache \in [Reads -> Versions \cup {None}]
         /\ wire \subseteq Request /\ loading = (\E r \in wire : r.latest)
         /\ own # None => own.at \in Nat /\ own.at <= Now /\ own.at \in Versions
                          /\ own.from \in Reads \cup {"operations"}
<1>1. own # None => own.at \in Versions /\ own.from \in Reads \cup {"operations"}
  BY ViewsAreRead DEF DeskInv, TypeOK, Own
<1>2. wrote \in Nat /\ missed \in Nat
  BY VersionsAreNat DEF DeskInv, TypeOK, Past
<1>3. Now \in Nat /\ Now \in Past
  BY VersionsAreNat DEF DeskInv, TypeOK, Past
<1>4. Now <= Now
  BY <1>3
<1> QED BY <1>1, <1>2, <1>3, <1>4, VersionsAreNat, ViewsAreRead DEF DeskInv, TypeOK, InTime, Client

LEMMA LaterOrSame ==
  ASSUME NEW s \in [Reads -> Versions \cup {None}]
  PROVE  Later(s, s)
<1>1. \A p \in Reads : s[p] # None => s[p] \in Nat
  BY VersionsAreNat
<1>2. \A p \in Reads : s[p] # None => s[p] >= s[p]
  BY <1>1
<1> QED BY <1>2 DEF Later

-----------------------------------------------------------------------------
LEMMA InitIsTidy == Init => DeskInv
<1> SUFFICES ASSUME Init PROVE DeskInv
  OBVIOUS
<1>1. record \in Seq(Statuses) /\ Now = 1 /\ Now \in Versions
  BY DeskAssumption DEF Init, Now, Statuses, Versions
<1>2. view \in Reads \cup {"operations"}
  BY ViewsAreRead DEF Init
<1>3. Tidy(NoReads, Now, 0)
  <2>1. NoReads \in ClientType /\ \A p \in Reads : Empty[p] = None
    BY DEF NoReads, Empty, ClientType
  <2>2. NoReads.q = {} /\ NoReads.cached = Empty /\ NoReads.shows = Empty /\ NoReads.loads = FALSE
    BY DEF NoReads
  <2> QED BY <2>1, <2>2 DEF Tidy, OneOfAKind, ReadsFit, PagesFit, NoFresh
<1>4. Tidy(LoadedView(NoReads, view), Now, 0) /\ UpToDate(LoadedView(NoReads, view), view, 0)
  BY <1>1, <1>2, <1>3, LoadedViewTidy
<1>5. LoadedView(NoReads, view) = Client
  <2>1. LoadedView(NoReads, view) \in ClientType
    BY <1>4 DEF Tidy
  <2> DEFINE c == LoadedView(NoReads, view)
  <2>2. wire = c.q /\ cache = c.cached /\ shown = c.shows /\ loading = c.loads
    BY DEF Init
  <2> HIDE DEF c
  <2>3. c = [q |-> c.q, cached |-> c.cached, shows |-> c.shows, loads |-> c.loads]
    BY <2>1 DEF ClientType, c
  <2> QED BY <2>2, <2>3 DEF Client, c
<1>6. Rest
  <2>1. stream \in Stream
    BY <1>1 DEF Init, Stream
  <2>2. faults \in 0..MaxFaults
    BY DeskAssumption DEF Init
  <2> QED BY <1>1, <2>1, <2>2 DEF Rest, Init, Past
<1>7. TypeOK /\ Tidy(Client, Now, wrote)
  BY <1>4, <1>5, <1>6, TypeFromRest DEF Init
<1>8. Settled
  BY <1>2, <1>4, <1>5, <1>7, SettledFromUpToDate DEF Init, TypeOK
<1>9. InTime
  BY <1>1 DEF Init, InTime
<1> QED BY <1>7, <1>8, <1>9 DEF DeskInv

\* What every step establishes.
Good == Rest' /\ Tidy(Client, Now, wrote)' /\ Settled' /\ InTime' /\ Later(shown, shown')

LEMMA GoodStep == Good => DeskInv' /\ Later(shown, shown')
<1>1. (Rest /\ Tidy(Client, Now, wrote) => TypeOK)'
  BY TypeFromRest, PTL
<1> QED BY <1>1 DEF Good, DeskInv

LEMMA SelectGood == ASSUME DeskInv, NEW v \in Views(role), SelectWorkspace(v) PROVE Good
<1> DEFINE c == Invalidated(Client)
<1>1. /\ Tidy(c, Now, wrote) /\ c.shows = shown /\ c.loads = loading
      /\ \A r \in c.q : \E s \in wire : r.of = s.of /\ r.since = s.since /\ r.latest = s.latest
  <2>1. Tidy(Client, Now, wrote) /\ Now \in Nat /\ wrote \in Nat
    BY Basics DEF DeskInv
  <2>2. /\ Client.q = wire /\ Client.shows = shown /\ Client.loads = loading
    BY Basics
  <2>3. /\ Tidy(c, Now, wrote) /\ c.shows = Client.shows /\ c.loads = Client.loads
        /\ \A r \in c.q : \E s \in Client.q : r.of = s.of /\ r.since = s.since /\ r.latest = s.latest
    BY <2>1, InvalidatedTidy
  <2> QED BY <2>2, <2>3
<1> HIDE DEF c
<1>2. v \in Reads \cup {"operations"} /\ v \in Watched(role) /\ v # "counts"
  BY ViewsAreRead DEF DeskInv, TypeOK, Watched, Views, Roles
<1>3. CASE view = "counts"
  <2>1. Becomes(c)
    BY <1>3 DEF SelectWorkspace, c
  <2>2. Tidy(Client', Now, wrote) /\ wire' \subseteq c.q /\ shown' = shown /\ loading' = loading
    BY <1>1, <2>1, BecomesTidy, Basics
  <2>3. Settled'
    BY <1>1, <1>3, <2>2 DEF DeskInv, Settled, SelectWorkspace, At, news, writing
  <2>4. Rest' /\ InTime'
    BY <1>3, TypeGivesRest DEF Rest, DeskInv, SelectWorkspace, InTime, Now, server, news, writing
  <2>5. Later(shown, shown')
    BY <2>2, LaterOrSame, Basics
  <2>6. Now' = Now /\ wrote' = wrote
    BY DEF SelectWorkspace, Now, server, writing
  <2> QED BY <2>2, <2>3, <2>4, <2>5, <2>6 DEF Good
<1>4. CASE view # "counts"
  <2>1. Becomes(LoadedView(c, v)) /\ view' = v /\ ~crossed' /\ ~dirty'
    BY <1>4 DEF SelectWorkspace, c
  <2>2. /\ Tidy(LoadedView(c, v), Now, wrote) /\ Later(shown, LoadedView(c, v).shows)
        /\ UpToDate(LoadedView(c, v), v, wrote)
    BY <1>1, <1>2, LoadedViewTidy, Basics
  <2>3. Tidy(Client', Now, wrote) /\ UpToDate(Client', v, wrote)
        /\ Later(shown, shown')
    BY <2>1, <2>2, BecomesTidy, BecomesUpToDate, Basics
  <2>4. Now' = Now /\ wrote' = wrote
    BY DEF SelectWorkspace, Now, server, writing
  <2>5. Settled'
    BY <1>2, <2>1, <2>3, <2>4, SettledNext
  <2>6. Rest' /\ InTime'
    BY <1>2, <1>4, TypeGivesRest DEF Rest, DeskInv, SelectWorkspace, InTime, Now, server, news, writing
  <2> QED BY <2>3, <2>4, <2>5, <2>6 DEF Good
<1> QED BY <1>3, <1>4

LEMMA ReloadGood == ASSUME DeskInv, Reload PROVE Good
<1>1. PICK c \in Aged : Becomes(Loaded(c, view))
  BY DEF Reload
<1>2. Tidy(c, Now, wrote) /\ c.shows = shown
  BY AgedTidy, Basics DEF DeskInv
<1>3. view \in Reads /\ view' = view
  BY DEF Reload, Reads
<1>4. LoadedView(c, view) = Loaded(c, view)
  BY <1>3 DEF LoadedView
<1>5. /\ Tidy(LoadedView(c, view), Now, wrote) /\ Later(shown, LoadedView(c, view).shows)
      /\ UpToDate(LoadedView(c, view), view, wrote)
  BY <1>2, <1>3, LoadedViewTidy, Basics
<1>6. Tidy(Client', Now, wrote) /\ UpToDate(Client', view, wrote) /\ Later(shown, shown')
  BY <1>1, <1>4, <1>5, BecomesTidy, BecomesUpToDate, Basics
<1>7. Now' = Now /\ wrote' = wrote
  BY DEF Reload, Now, server, writing
<1>8. Settled'
  BY <1>3, <1>6, <1>7, SettledNext
<1>9. Rest' /\ InTime'
  BY TypeGivesRest DEF Rest, DeskInv, Reload, InTime, Now, server, news, writing
<1> QED BY <1>6, <1>7, <1>8, <1>9 DEF Good

LEMMA RefreshGood == ASSUME DeskInv, Refresh PROVE Good
<1>1. PICK c \in Aged : Becomes(LoadedView(c, view))
  BY DEF Refresh
<1>2. Tidy(c, Now, wrote) /\ c.shows = shown
  BY AgedTidy, Basics DEF DeskInv
<1>3. view' = view /\ view \in Reads \cup {"operations"}
  BY Basics DEF Refresh
<1>4. /\ Tidy(LoadedView(c, view), Now, wrote) /\ Later(shown, LoadedView(c, view).shows)
      /\ UpToDate(LoadedView(c, view), view, wrote)
  BY <1>2, <1>3, LoadedViewTidy, Basics
<1>5. Tidy(Client', Now, wrote) /\ UpToDate(Client', view, wrote) /\ Later(shown, shown')
  BY <1>1, <1>4, BecomesTidy, BecomesUpToDate, Basics
<1>6. Now' = Now /\ wrote' = wrote
  BY DEF Refresh, Now, server, writing
<1>7. Settled'
  BY <1>3, <1>5, <1>6, SettledNext
<1>8. Rest' /\ InTime'
  BY TypeGivesRest DEF Rest, DeskInv, Refresh, InTime, Now, server, news, writing
<1> QED BY <1>5, <1>6, <1>7, <1>8 DEF Good

LEMMA ToggleGood == ASSUME DeskInv, ToggleVisible PROVE Good
<1>1. /\ Client' = Client /\ Now' = Now /\ wrote' = wrote /\ shown' = shown
  BY DEF ToggleVisible, Client, Now, server, writing, client
<1>2. Settled'
  BY <1>1 DEF DeskInv, Settled, ToggleVisible, At, client, news
<1>3. Rest' /\ InTime'
  BY TypeGivesRest DEF Rest, DeskInv, ToggleVisible, InTime, Now, server, news, writing, client
<1> QED BY <1>1, <1>2, <1>3, LaterOrSame, Basics DEF Good, DeskInv
(* An answer in any order: it is shown only if the last load waits for it, *)
(* cached only if the cache was not dropped since, and newer either way.   *)
LEMMA AnswerGood == ASSUME DeskInv, NEW r \in wire, Answer(r) PROVE Good
<1>1. PICK v \in r.since..Now : /\ cache' = IF r.fresh THEN [cache EXCEPT ![r.of] = v] ELSE cache
                                /\ shown' = IF r.latest THEN Show(shown, r.of, v) ELSE shown
  BY DEF Answer, Caches, IsLast
<1>2. wire' = wire \ {r} /\ loading' = (loading /\ ~r.latest)
  BY DEF Answer
<1>3. r \in Request /\ r.of \in Reads /\ r.since \in Versions /\ r.since \in Nat
  BY Basics DEF Request
<1>4. v \in Versions /\ v \in Nat /\ r.since <= v /\ v <= Now
  BY <1>1, <1>3, Basics, DeskAssumption DEF Versions
<1>5. /\ cache' \in [Reads -> Versions \cup {None}] /\ shown' \in [Reads -> Versions \cup {None}]
  <2>1. cache' \in [Reads -> Versions \cup {None}]
    BY <1>1, <1>4, Basics
  <2>2. shown' \in [Reads -> Versions \cup {None}]
    BY <1>1, <1>3, <1>4, ShowIs, Basics
  <2> QED BY <2>1, <2>2
<1>6. /\ r.fresh => cache'[r.of] = v
      /\ ~r.fresh => cache' = cache
      /\ \A x \in Reads : x # r.of => cache'[x] = cache[x]
  BY <1>1, <1>3, Basics
<1>7. /\ r.latest => shown'[r.of] = v
      /\ ~r.latest => shown' = shown
      /\ \A x \in Reads : x # r.of => shown'[x] \in {None, shown[x]}
  BY <1>1, <1>3, <1>4, ShowIs, Basics
<1>8. /\ OneOfAKind(wire) /\ loading = (\E s \in wire : s.latest)
      /\ (\E s \in wire : s.latest /\ ~s.fresh) => cache = Empty /\ NoFresh(wire)
      /\ \A s \in wire : /\ s.since <= Now
                         /\ s.fresh => cache[s.of] = None /\ s.since >= wrote
                         /\ (s.fresh \/ s.latest) /\ shown[s.of] # None => shown[s.of] <= s.since
      /\ \A p \in Reads :
            /\ shown[p] # None => shown[p] <= Now
            /\ cache[p] # None => /\ wrote <= cache[p] /\ cache[p] <= Now
                                  /\ shown[p] # None => shown[p] <= cache[p]
  <2>1. Tidy(Client, Now, wrote)
    BY DEF DeskInv
  <2> QED BY <2>1, Basics DEF Tidy, ReadsFit, PagesFit
<1>9. Tidy(PageOf(wire', cache', shown', loading'), Now, wrote)
  <2> DEFINE d == PageOf(wire', cache', shown', loading')
  <2>1. d.q = wire' /\ d.cached = cache' /\ d.shows = shown' /\ d.loads = loading'
    BY DEF PageOf
  <2>2. loading' = \E s \in wire' : s.latest
    BY <1>2, <1>8 DEF OneOfAKind
  <2>3. d \in ClientType
    <3>1. wire' \subseteq Request /\ loading' \in BOOLEAN
      BY <1>2, <2>2, Basics
    <3> QED BY <1>5, <3>1 DEF ClientType, PageOf
  <2> HIDE DEF d
  <2>4. OneOfAKind(d.q)
    BY <1>2, <1>8, <2>1 DEF OneOfAKind
  <2>5. (\E s \in d.q : s.latest /\ ~s.fresh) => d.cached = Empty /\ NoFresh(d.q)
    BY <1>2, <1>6, <1>8, <2>1 DEF NoFresh
  <2>6. ReadsFit(d, Now, wrote)
    <3> SUFFICES ASSUME NEW s \in wire, s # r
                 PROVE  /\ s.since <= Now
                        /\ s.fresh => cache'[s.of] = None /\ s.since >= wrote
                        /\ (s.fresh \/ s.latest) /\ shown'[s.of] # None => shown'[s.of] <= s.since
      BY <1>2, <2>1 DEF ReadsFit
    <3>1. s.of \in Reads
      BY Basics DEF Request
    <3>2. CASE s.of = r.of
      <4>1. ~(s.fresh /\ r.fresh) /\ ~(s.latest /\ r.latest)
        BY <3>2, <1>8 DEF OneOfAKind
      <4>2. ~(s.fresh /\ r.latest)
        BY <4>1, <1>8 DEF NoFresh
      <4> QED BY <3>1, <3>2, <4>1, <4>2, <1>6, <1>7, <1>8
    <3>3. CASE s.of # r.of
      BY <3>1, <3>3, <1>6, <1>7, <1>8
    <3> QED BY <3>2, <3>3
  <2>7. PagesFit(d, Now, wrote)
    <3> SUFFICES ASSUME NEW p \in Reads
                 PROVE  /\ shown'[p] # None => shown'[p] <= Now
                        /\ cache'[p] # None => /\ wrote <= cache'[p] /\ cache'[p] <= Now
                                               /\ shown'[p] # None => shown'[p] <= cache'[p]
      BY <2>1 DEF PagesFit
    <3>1. CASE p # r.of
      BY <3>1, <1>6, <1>7, <1>8
    <3>2. CASE p = r.of /\ r.latest /\ ~r.fresh
      <4>1. cache'[p] = None
        BY <3>2, <1>6, <1>8 DEF Empty
      <4> QED BY <3>2, <4>1, <1>4, <1>7
    <3>3. CASE p = r.of /\ r.latest /\ r.fresh
      <4>1. v >= wrote /\ v <= v
        BY <3>3, <1>3, <1>4, <1>8, Basics
      <4> QED BY <3>3, <4>1, <1>4, <1>6, <1>7
    <3>4. CASE p = r.of /\ ~r.latest /\ r.fresh
      <4>1. v >= wrote
        BY <3>4, <1>3, <1>4, <1>8, Basics
      <4>2. shown[p] # None => shown[p] \in Nat /\ shown[p] <= r.since
        BY <3>4, <1>8, Basics
      <4>3. shown[p] # None => shown[p] <= v
        BY <4>2, <1>3, <1>4
      <4> QED BY <3>4, <4>1, <4>3, <1>4, <1>6, <1>7, <1>8
    <3>5. CASE p = r.of /\ ~r.latest /\ ~r.fresh
      BY <3>5, <1>6, <1>7, <1>8
    <3> QED BY <3>1, <3>2, <3>3, <3>4, <3>5
  <2>8. d.loads = \E s \in d.q : s.latest
    BY <2>1, <2>2
  <2>9. Tidy(d, Now, wrote)
    BY <2>3, <2>4, <2>5, <2>6, <2>7, <2>8 DEF Tidy
  <2> QED BY <2>9 DEF d
<1>10. Later(shown, shown')
  <2> SUFFICES ASSUME NEW p \in Reads, shown[p] # None, shown'[p] # None
               PROVE  shown'[p] >= shown[p]
    BY DEF Later
  <2>1. shown[p] \in Nat
    BY Basics
  <2>2. CASE p = r.of /\ r.latest
    <3>1. shown[p] <= r.since
      BY <2>2, <1>8
    <3> QED BY <3>1, <2>1, <2>2, <1>3, <1>4, <1>7
  <2>3. CASE ~(p = r.of /\ r.latest)
    BY <2>1, <2>3, <1>7
  <2> QED BY <2>2, <2>3
<1>11. /\ Now' = Now /\ wrote' = wrote /\ view' = view /\ crossed' = crossed /\ dirty' = dirty
       /\ missed' = missed
  BY DEF Answer, Now, server, writing, news
<1>12. Settled'
  <2> SUFFICES ASSUME view # "operations", ~crossed, ~(view = "counts" /\ dirty)
               PROVE  IF loading' THEN \A s \in wire' : s.latest => s.of = view /\ s.since >= wrote
                      ELSE At(view)' >= wrote \/ At(view)' < missed
    BY <1>11 DEF Settled
  <2>1. IF loading THEN \A s \in wire : s.latest => s.of = view /\ s.since >= wrote
        ELSE At(view) >= wrote \/ At(view) < missed
    BY DEF DeskInv, Settled
  <2>2. CASE r.latest
    <3>1. loading /\ ~loading' /\ r.of = view /\ r.since >= wrote
      BY <2>1, <2>2, <1>2, <1>8
    <3>2. shown'[view'] = v /\ v # None
      BY <3>1, <2>2, <1>4, <1>7, <1>11, Basics
    <3>3. At(view)' = v
      BY <3>2 DEF At
    <3>4. v >= wrote
      BY <3>1, <1>3, <1>4, Basics
    <3> QED BY <3>1, <3>3, <3>4
  <2>3. CASE ~r.latest
    BY <2>1, <2>3, <1>2, <1>7, <1>11 DEF At
  <2> QED BY <2>2, <2>3
<1>13. Client' = PageOf(wire', cache', shown', loading')
  BY DEF Client, PageOf
<1>14. Rest' /\ InTime'
  BY TypeGivesRest DEF Rest, DeskInv, Answer, InTime, Now, server, news, writing
<1> QED BY <1>9, <1>10, <1>11, <1>12, <1>13, <1>14 DEF Good

(* A read that fails is known to have failed: missed covers it.            *)
LEMMA FailGood == ASSUME DeskInv, NEW r \in wire, Fail(r) PROVE Good
<1>1. /\ wire' = wire \ {r} /\ loading' = (loading /\ ~r.latest) /\ cache' = cache /\ shown' = shown
      /\ Now' = Now /\ wrote' = wrote /\ view' = view /\ crossed' = crossed /\ dirty' = dirty
      /\ missed' = IF r.latest THEN Now ELSE missed
  BY DEF Fail, Now, server, writing
<1>2. loading' = \E s \in wire' : s.latest
  <2>1. OneOfAKind(wire)
    BY Basics DEF DeskInv, Tidy
  <2> QED BY <2>1, <1>1, Basics DEF OneOfAKind
<1>3. Tidy(Client', Now, wrote)
  <2>1. loading' \in BOOLEAN
    BY <1>2
  <2>2. Tidy(Client, Now, wrote) /\ wire' \subseteq Client.q
    BY <1>1, Basics DEF DeskInv
  <2>3. Tidy(PageOf(wire', Client.cached, Client.shows, loading'), Now, wrote)
    BY <1>2, <2>1, <2>2, FewerTidy, Basics
  <2>4. Client' = PageOf(wire', Client.cached, Client.shows, loading')
    BY <1>1 DEF Client, PageOf
  <2> QED BY <2>3, <2>4
<1>4. Settled'
  <2> SUFFICES ASSUME view # "operations", ~crossed, ~(view = "counts" /\ dirty)
               PROVE  IF loading' THEN \A s \in wire' : s.latest => s.of = view /\ s.since >= wrote
                      ELSE At(view)' >= wrote \/ At(view)' < missed'
    BY <1>1 DEF Settled
  <2>1. IF loading THEN \A s \in wire : s.latest => s.of = view /\ s.since >= wrote
        ELSE At(view) >= wrote \/ At(view) < missed
    BY DEF DeskInv, Settled
  <2>2. At(view)' = At(view) /\ At(view) \in Nat
    BY <1>1, Basics DEF At
  <2>3. CASE r.latest
    <3>1. missed' = Now /\ ~loading'
      BY <1>1, <2>3
    <3> QED BY <3>1, <2>2, Basics
  <2>4. CASE ~r.latest
    BY <2>1, <2>2, <2>4, <1>1
  <2> QED BY <2>3, <2>4
<1>5. Rest' /\ InTime'
  <2>1. missed' \in Past /\ missed' <= Now
    BY <1>1, Basics
  <2>2. faults' \in 0..MaxFaults
    BY DeskAssumption DEF Fail, DeskInv, TypeOK
  <2> QED BY <1>1, <2>1, <2>2, TypeGivesRest DEF Rest, DeskInv, Fail, InTime, Now, server, writing
<1>6. Later(shown, shown')
  BY <1>1, LaterOrSame, Basics
<1> QED BY <1>1, <1>3, <1>4, <1>5, <1>6 DEF Good

LEMMA OpenStreamGood == ASSUME DeskInv, OpenStream PROVE Good
<1>1. /\ Client' = Client /\ Now' = Now /\ wrote' = wrote /\ shown' = shown /\ At(view)' = At(view)
  BY DEF OpenStream, Client, Now, server, writing, client, screen, At
<1>2. missed' \in {missed, Now} /\ missed' <= Now /\ missed' \in Past /\ stream' = [open |-> TRUE, heard |-> Now]
  BY Basics DEF OpenStream
<1>3. Settled'
  <2> SUFFICES ASSUME view # "operations", ~crossed, ~(view = "counts" /\ dirty)
               PROVE  IF loading THEN \A s \in wire : s.latest => s.of = view /\ s.since >= wrote
                      ELSE At(view) >= wrote \/ At(view) < missed'
    BY <1>1 DEF Settled, OpenStream, screen, client
  <2>1. IF loading THEN \A s \in wire : s.latest => s.of = view /\ s.since >= wrote
        ELSE At(view) >= wrote \/ At(view) < missed
    BY DEF DeskInv, Settled
  <2>2. At(view) \in Nat
    BY Basics DEF At
  <2> QED BY <1>2, <2>1, <2>2, Basics
<1>4. Rest' /\ InTime'
  <2>1. stream' \in Stream /\ stream'.heard <= Now
    BY <1>2, Basics DEF Stream
  <2> QED BY <1>1, <1>2, <2>1, TypeGivesRest DEF Rest, DeskInv, OpenStream, InTime, Now, server, writing, screen, client
<1> QED BY <1>1, <1>3, <1>4, LaterOrSame, Basics DEF Good, DeskInv

LEMMA BreakStreamGood == ASSUME DeskInv, BreakStream PROVE Good
<1>1. /\ Client' = Client /\ Now' = Now /\ wrote' = wrote /\ shown' = shown
  BY DEF BreakStream, Client, Now, server, writing, client, screen
<1>2. Settled'
  BY DEF DeskInv, Settled, BreakStream, screen, client, At, writing
<1>3. Rest' /\ InTime'
  <2>1. stream' \in Stream /\ stream'.heard = stream.heard
    BY DEF DeskInv, TypeOK, Stream, BreakStream
  <2>2. faults' \in 0..MaxFaults
    BY DeskAssumption DEF BreakStream, DeskInv, TypeOK
  <2> QED BY <2>1, <2>2, TypeGivesRest DEF Rest, DeskInv, BreakStream, InTime, Now, server, writing, screen, client
<1> QED BY <1>1, <1>2, <1>3, LaterOrSame, Basics DEF Good, DeskInv

(* An event drops the cache and leaves the load of the view under way.     *)
LEMMA HearGood == ASSUME DeskInv, Hear PROVE Good
<1> DEFINE c == Invalidated(Client)
           v == stream.heard + 1
<1>1. /\ Tidy(c, Now, wrote) /\ c.shows = shown /\ c.loads = loading
      /\ \A r \in c.q : \E s \in wire : r.of = s.of /\ r.since = s.since /\ r.latest = s.latest
  <2>1. Tidy(Client, Now, wrote) /\ Now \in Nat /\ wrote \in Nat
    BY Basics DEF DeskInv
  <2>2. /\ Client.q = wire /\ Client.shows = shown /\ Client.loads = loading
    BY Basics
  <2>3. /\ Tidy(c, Now, wrote) /\ c.shows = Client.shows /\ c.loads = Client.loads
        /\ \A r \in c.q : \E s \in Client.q : r.of = s.of /\ r.since = s.since /\ r.latest = s.latest
    BY <2>1, InvalidatedTidy
  <2> QED BY <2>2, <2>3
<1>2. /\ stream' = [stream EXCEPT !.heard = v] /\ stream.heard < Now
      /\ Now' = Now /\ wrote' = wrote /\ shown' = shown /\ view' = view /\ crossed' = crossed
      /\ loading' = loading /\ missed' = missed
      /\ \/ UNCHANGED client
         \/ /\ wire' = Kept(c, view) /\ cache' = c.cached
            /\ dirty' \in BOOLEAN /\ (dirty => dirty')
  <2> HIDE DEF c
  <2>1. dirty \in BOOLEAN
    BY DEF DeskInv, TypeOK
  <2> QED BY <2>1 DEF Hear, Now, server, writing, screen, c, client
<1> HIDE DEF c
<1>3. Rest' /\ InTime'
  <2>1. stream' \in Stream /\ stream'.heard <= Now
    <3>1. stream.heard \in Versions /\ v \in Versions /\ v <= Now
      BY <1>2, Basics, DeskAssumption DEF DeskInv, TypeOK, Stream, Versions
    <3> HIDE DEF v
    <3> QED BY <1>2, <3>1 DEF DeskInv, TypeOK, Stream
  <2>2. dirty' \in BOOLEAN
    <3>1. dirty \in BOOLEAN
      BY DEF DeskInv, TypeOK
    <3>2. CASE UNCHANGED client
      BY <3>1, <3>2 DEF client
    <3> QED BY <1>2, <3>2
  <2> QED BY <2>1, <2>2, TypeGivesRest DEF Rest, DeskInv, Hear, InTime, Now, server, writing, screen
<1>4. CASE UNCHANGED client
  <2>1. Client' = Client
    BY <1>2, <1>4 DEF Client, client
  <2>2. Settled'
    BY <1>2, <1>4 DEF DeskInv, Settled, client, At
  <2>3. Tidy(Client, Now, wrote) /\ Later(shown, shown)
    BY LaterOrSame, Basics DEF DeskInv
  <2>4. Now' = Now /\ wrote' = wrote /\ shown' = shown
    BY <1>2
  <2> QED BY <1>3, <2>1, <2>2, <2>3, <2>4 DEF Good
<1>5. CASE /\ wire' = Kept(c, view) /\ cache' = c.cached /\ (dirty => dirty')
  <2>1. wire' \subseteq c.q /\ loading' = \E r \in wire' : r.latest
    BY <1>1, <1>2, <1>5 DEF Kept, Tidy
  <2>2. Tidy(Client', Now, wrote)
    <3>1. loading' \in BOOLEAN
      BY <2>1
    <3>2. Tidy(PageOf(wire', c.cached, c.shows, loading'), Now, wrote)
      BY <1>1, <2>1, <3>1, FewerTidy, Basics
    <3>3. Client' = PageOf(wire', c.cached, c.shows, loading')
      BY <1>1, <1>2, <1>5 DEF Client, PageOf
    <3> QED BY <3>2, <3>3
  <2>3. \A r \in wire' : \E s \in wire : r.of = s.of /\ r.since = s.since /\ r.latest = s.latest
    BY <1>1, <2>1
  <2>4. Settled'
    BY <1>2, <1>5, <2>3 DEF DeskInv, Settled, At
  <2> QED BY <1>2, <1>3, <2>2, <2>4, LaterOrSame, Basics DEF Good
<1> QED BY <1>2, <1>4, <1>5
(* A change of the order, by the page or by anyone.                        *)
LEMMA AppendedGood ==
  ASSUME DeskInv, NEW s \in Statuses, Now <= MaxChanges, record' = Append(record, s),
         UNCHANGED <<role, screen, client, news, wrote, faults>>,
         \/ own' = own
         \/ own' \in Own /\ own'.at = Now + 1
  PROVE  Good
<1>1. record' \in Seq(Statuses) /\ Now' = Now + 1 /\ Now' \in Versions /\ Now' \in Nat
  <2>1. Now' \in Versions
    <3>1. Len(Append(record, s)) = Len(record) + 1
      BY DEF DeskInv, TypeOK
    <3> QED BY <3>1, DeskAssumption, Basics DEF Versions, Now
  <2> QED BY <2>1, Basics DEF DeskInv, TypeOK, Now
<1>2. /\ Client' = Client /\ wrote' = wrote /\ shown' = shown
  BY DEF Client, client, screen
<1>3. Tidy(Client, Now', wrote)
  <2>1. Tidy(Client, Now, wrote) /\ Now \in Nat /\ Now <= Now' /\ wrote \in Nat
    BY <1>1, Basics DEF DeskInv
  <2> QED BY <1>1, <2>1, TidyGrows
<1>4. Settled'
  BY DEF DeskInv, Settled, At, client, screen, news
<1>5. Rest'
  <2>1. own' \in Own \cup {None}
    BY DEF DeskInv, TypeOK
  <2> QED BY <1>1, <2>1, TypeGivesRest DEF Rest, DeskInv, client, screen, news
<1>6. InTime'
  <2>1. missed <= Now' /\ wrote <= Now' /\ stream.heard <= Now'
    <3>1. stream.heard \in Nat /\ stream.heard <= Now
      BY VersionsAreNat DEF DeskInv, TypeOK, InTime, Stream
    <3> QED BY <1>1, <3>1, Basics
  <2>2. own' # None => own'.at <= Now'
    <3>1. CASE own' = own
      BY <3>1, <1>1, Basics
    <3>2. CASE own' \in Own /\ own'.at = Now + 1
      BY <3>2, <1>1
    <3> QED BY <3>1, <3>2
  <2> QED BY <2>1, <2>2 DEF InTime, news
<1>7. Later(shown, shown)
  BY LaterOrSame, Basics
<1> QED BY <1>2, <1>3, <1>4, <1>5, <1>6, <1>7 DEF Good

LEMMA OutcomesAreStatuses == \A v, s : Outcomes(v, s) \subseteq Statuses
<1> TAKE v, s
<1>1. {"pending"} \subseteq Statuses /\ {"closed"} \subseteq Statuses
      /\ {"reminded", "approved", "closed"} \subseteq Statuses
      /\ {"approved", "reminded", "closed", "rejected"} \subseteq Statuses
      /\ {"reminded", "closed"} \subseteq Statuses /\ {} \subseteq Statuses
  BY DEF Statuses
<1> QED BY <1>1 DEF Outcomes

LEMMA ChangeGood == ASSUME DeskInv, NEW s \in Statuses, Change(s) PROVE Good
<1>1. own' = own /\ UNCHANGED <<role, screen, client, news, wrote, faults>>
  BY DEF Change, writing
<1> QED BY <1>1, AppendedGood DEF Change

LEMMA ActGood == ASSUME DeskInv, Act PROVE Good
<1>1. PICK s \in Statuses : record' = Append(record, s)
  BY OutcomesAreStatuses DEF Act
<1>2. own' \in Own /\ own'.at = Now + 1
  <2>1. Now + 1 \in Versions
    BY DeskAssumption, Basics DEF Act, Versions
  <2>2. view \in UNION {Watched(r) : r \in Roles}
    BY DEF DeskInv, TypeOK
  <2> QED BY <2>1, <2>2 DEF Act, Own
<1> QED BY <1>1, <1>2, AppendedGood DEF Act

(* The answer of the page's own change: the cache is dropped before the    *)
(* list is loaded, so that nothing older than the change can be shown.     *)
LEMMA DoneGood == ASSUME DeskInv, Done PROVE Good
<1> DEFINE c == Written(Client)
           w == own.at
<1>1. /\ own' = None /\ wrote' = w /\ view' = view /\ Now' = Now
      /\ w \in Nat /\ w <= Now /\ w \in Versions /\ own.from \in Reads \cup {"operations"}
  BY Basics DEF Done, Now, server
<1>2. /\ Tidy(c, Now, w) /\ c.shows = shown
  <2>1. Tidy(Client, Now, wrote) /\ Now \in Nat /\ wrote \in Nat /\ w \in Nat
    BY <1>1, Basics DEF DeskInv
  <2>2. Client.shows = shown
    BY Basics
  <2>3. Tidy(c, Now, w) /\ c.shows = Client.shows
    BY <2>1, InvalidatedTidy DEF Written
  <2> QED BY <2>2, <2>3
<1> HIDE DEF c, w
<1>3. InTime'
  BY <1>1 DEF DeskInv, InTime, Done, news
<1>4. Rest /\ wrote' \in Past
  BY <1>1, TypeGivesRest DEF DeskInv, Past
<1>5. CASE view = "counts"
  <2>1. Becomes(c) /\ dirty' = TRUE /\ crossed' = crossed
    BY <1>5 DEF Done, c
  <2>2. Tidy(Client', Now, w) /\ shown' = shown
    BY <1>1, <1>2, <2>1, BecomesTidy, Basics
  <2>3. Settled'
    BY <1>1, <1>5, <2>1 DEF Settled
  <2>4. Rest'
    BY <1>1, <1>4, <2>1 DEF Rest, Done, Now, server, news
  <2>5. Later(shown, shown')
    BY <2>2, LaterOrSame, Basics
  <2> QED BY <1>1, <1>3, <2>2, <2>3, <2>4, <2>5 DEF Good
<1>6. CASE view # "counts" /\ own.from = "operations"
  <2>1. Becomes(c) /\ crossed' = (view # own.from) /\ dirty' = dirty
    BY <1>6 DEF Done, c
  <2>2. Tidy(Client', Now, w) /\ shown' = shown
    BY <1>1, <1>2, <2>1, BecomesTidy, Basics
  <2>3. Settled'
    BY <1>1, <1>6, <2>1 DEF Settled
  <2>4. Rest'
    <3>1. crossed' \in BOOLEAN
      BY <2>1
    <3> QED BY <1>1, <1>4, <2>1, <3>1 DEF Rest, Done, Now, server, news
  <2>5. Later(shown, shown')
    BY <2>2, LaterOrSame, Basics
  <2> QED BY <1>1, <1>3, <2>2, <2>3, <2>4, <2>5 DEF Good
<1>7. CASE view # "counts" /\ own.from # "operations"
  <2>1. Becomes(LoadedView(c, own.from)) /\ crossed' = (view # own.from) /\ dirty' = dirty
    BY <1>7 DEF Done, c
  <2>2. /\ Tidy(LoadedView(c, own.from), Now, w) /\ Later(shown, LoadedView(c, own.from).shows)
        /\ UpToDate(LoadedView(c, own.from), own.from, w)
    BY <1>1, <1>2, LoadedViewTidy, Basics
  <2>3. Tidy(Client', Now, w) /\ UpToDate(Client', own.from, w) /\ Later(shown, shown')
    BY <1>1, <2>1, <2>2, BecomesTidy, BecomesUpToDate, Basics
  <2>4. Settled'
    <3>1. CASE view = own.from
      BY <1>1, <2>3, <3>1, SettledNext
    <3>2. CASE view # own.from
      BY <1>1, <2>1, <3>2 DEF Settled
    <3> QED BY <3>1, <3>2
  <2>5. Rest'
    <3>1. crossed' \in BOOLEAN
      BY <2>1
    <3> QED BY <1>1, <1>4, <2>1, <3>1 DEF Rest, Done, Now, server, news
  <2> QED BY <1>1, <1>3, <2>3, <2>4, <2>5 DEF Good
<1> QED BY <1>5, <1>6, <1>7

LEMMA LoseAnswerGood == ASSUME DeskInv, LoseAnswer PROVE Good
<1>1. /\ Client' = Client /\ Now' = Now /\ wrote' = wrote /\ shown' = shown
  BY DEF LoseAnswer, Client, Now, server, client, screen
<1>2. Settled'
  BY DEF DeskInv, Settled, LoseAnswer, screen, client, At, news
<1>3. Rest' /\ InTime'
  <2>1. faults' \in 0..MaxFaults
    BY DeskAssumption DEF LoseAnswer, DeskInv, TypeOK
  <2> QED BY <2>1, TypeGivesRest DEF Rest, DeskInv, LoseAnswer, InTime, Now, server, screen, client, news
<1>4. Tidy(Client, Now, wrote) /\ Later(shown, shown)
  BY LaterOrSame, Basics DEF DeskInv
<1> QED BY <1>1, <1>2, <1>3, <1>4 DEF Good

LEMMA StepGood == ASSUME DeskInv, [Next]_vars PROVE DeskInv' /\ Later(shown, shown')
<1>1. CASE UserStep
  <2>1. Good
    BY <1>1, ReloadGood, ToggleGood, ActGood, SelectGood DEF UserStep
  <2> QED BY <2>1, GoodStep
<1>2. CASE ClientStep
  <2>1. Good
    BY <1>2, RefreshGood, AnswerGood, FailGood DEF ClientStep
  <2> QED BY <2>1, GoodStep
<1>3. CASE StreamStep
  <2>1. Good
    BY <1>3, OpenStreamGood, BreakStreamGood, HearGood DEF StreamStep
  <2> QED BY <2>1, GoodStep
<1>4. CASE WriteStep
  <2>1. Good
    BY <1>4, DoneGood, LoseAnswerGood, ChangeGood DEF WriteStep
  <2> QED BY <2>1, GoodStep
<1>5. CASE UNCHANGED vars
  <2>1. DeskInv'
    BY <1>5 DEF DeskInv, TypeOK, Settled, InTime, Client, Now, At, vars, server, screen, client, news, writing
  <2>2. shown' = shown /\ Later(shown, shown)
    BY <1>5, LaterOrSame, Basics DEF vars, screen
  <2> QED BY <2>1, <2>2
<1> QED BY <1>1, <1>2, <1>3, <1>4, <1>5 DEF Next

LEMMA DeskInvariance == Spec => []DeskInv
<1>1. Init => DeskInv
  BY InitIsTidy
<1>2. DeskInv /\ [Next]_vars => DeskInv'
  BY StepGood
<1> QED BY <1>1, <1>2, PTL DEF Spec

LEMMA DeskInvIsSound == DeskInv => PagesAreSound
<1>1. DeskInv => ReadYourWrites
  BY DEF DeskInv, Settled, ReadYourWrites
<1> QED BY <1>1 DEF DeskInv, PagesAreSound

(* What is loaded is what was asked for, one load at a time, and after a   *)
(* change of its own the page shows the order no older than the change, for *)
(* any roles, views, changes, lost events and failed reads.                *)
THEOREM PagesHold == Spec => []PagesAreSound
<1> QED BY DeskInvariance, DeskInvIsSound, PTL

(* No list of the page ever shows the order in an older state than before, *)
(* in whatever order the reads are answered and however often the cache is *)
(* dropped, refilled or ages.                                              *)
THEOREM NoneGoesBack == Spec => NeverGoesBack
<1>1. DeskInv /\ [Next]_vars =>
        [\A p \in Reads : shown[p] # None /\ shown'[p] # None => shown'[p] >= shown[p]]_vars
  BY StepGood DEF Later
<1> QED BY <1>1, DeskInvariance, PTL DEF Spec, NeverGoesBack

-----------------------------------------------------------------------------
(***************************************************************************)
(* Activities.  A change that is under way was made of a list the page had *)
(* seen (base) and differs from it in one activity: that is what the       *)
(* invariant adds to ListsAreSound, and what spares the others when the    *)
(* whole list is replaced.                                                 *)
(***************************************************************************)
(* Lists a and b differ in the activity i at most.                         *)
Agree(a, b, i) ==
    \A j \in Ids \ {i} : /\ j \in DOMAIN a <=> j \in DOMAIN b
                         /\ j \in DOMAIN a => b[j] = a[j]

(* A change that is under way keeps what its page had seen.                *)
ChangesOne(c) == c.kind \in {"save", "remove", "toggle"} => Agree(c.base, c.list, c.about)

ActivitiesInv == ListsAreSound /\ \A c \in calls : ChangesOne(c)

-----------------------------------------------------------------------------
LEMMA IsList ==
    ASSUME NEW list
    PROVE  list \in List <=> DOMAIN list \subseteq Ids /\ list \in [DOMAIN list -> Activity]
<1>1. ASSUME list \in List
      PROVE  DOMAIN list \subseteq Ids /\ list \in [DOMAIN list -> Activity]
  <2>1. PICK some \in SUBSET Ids : list \in [some -> Activity]
    BY <1>1 DEF List
  <2> QED BY <2>1
<1>2. ASSUME DOMAIN list \subseteq Ids, list \in [DOMAIN list -> Activity]
      PROVE  list \in List
  BY <1>2 DEF List
<1> QED BY <1>1, <1>2

LEMMA VisibleIsList ==
    ASSUME NEW list \in List
    PROVE  /\ Visible(list) \in List
           /\ \A i \in DOMAIN Visible(list) : Visible(list)[i].visible
BY IsList DEF Visible, Restrict

LEMMA NothingIsList == NoActivities \in List /\ DOMAIN NoActivities = {}
BY IsList DEF NoActivities

(* What each button sends is a list, and differs from the page's in the    *)
(* activity it is about.                                                   *)
LEMMA WithTyped ==
    ASSUME NEW list \in List, NEW i \in Ids, NEW a \in Activity
    PROVE  With(list, i, a) \in List /\ Agree(list, With(list, i, a), i)
<1>1. DOMAIN list \subseteq Ids /\ list \in [DOMAIN list -> Activity]
  BY IsList
<1>2. With(list, i, a) \in [DOMAIN list \cup {i} -> Activity]
  BY <1>1 DEF With
<1>3. With(list, i, a) \in List
  BY <1>1, <1>2, IsList
<1> QED BY <1>3 DEF With, Agree

LEMMA EditedTyped ==
    ASSUME NEW list \in List, NEW i, NEW a \in Activity
    PROVE  Edited(list, i, a) \in List /\ Agree(list, Edited(list, i, a), i)
<1>1. DOMAIN list \subseteq Ids /\ list \in [DOMAIN list -> Activity]
  BY IsList
<1>2. Edited(list, i, a) \in [DOMAIN list -> Activity]
  BY <1>1 DEF Edited
<1>3. Edited(list, i, a) \in List
  BY <1>1, <1>2, IsList
<1> QED BY <1>3 DEF Edited, Agree

LEMMA WithoutTyped ==
    ASSUME NEW list \in List, NEW i
    PROVE  Without(list, i) \in List /\ Agree(list, Without(list, i), i)
<1>1. DOMAIN list \subseteq Ids /\ list \in [DOMAIN list -> Activity]
  BY IsList
<1>2. Without(list, i) \in [DOMAIN list \ {i} -> Activity]
  BY <1>1 DEF Without, Restrict
<1>3. Without(list, i) \in List
  BY <1>1, <1>2, IsList
<1> QED BY <1>3 DEF Without, Restrict, Agree

LEMMA ToggledTyped ==
    ASSUME NEW list \in List, NEW i \in DOMAIN list
    PROVE  Toggled(list, i) \in List /\ Agree(list, Toggled(list, i), i)
<1>1. DOMAIN list \subseteq Ids /\ list \in [DOMAIN list -> Activity]
  BY IsList
<1>2. Toggled(list, i) \in [DOMAIN list -> Activity]
  BY <1>1 DEF Toggled, Activity
<1>3. Toggled(list, i) \in List
  BY <1>1, <1>2, IsList
<1> QED BY <1>1, <1>3 DEF Toggled, Agree

LEMMA ActivitiesStart ==
    ActivitiesInit => ActivitiesInv
<1> SUFFICES ASSUME ActivitiesInit PROVE ActivitiesInv
  OBVIOUS
<1>1. PICK i \in Ids, v \in BOOLEAN, having \in SUBSET Legacy :
        LET first == [j \in {i} |-> [edition |-> 0, visible |-> v]] IN
        /\ stored \in {NoActivities, first}
        /\ caches = [b \in Browsers |-> IF b \in having THEN first ELSE NoActivities]
  BY DEF ActivitiesInit
<1>2. [j \in {i} |-> [edition |-> 0, visible |-> v]] \in List
  BY IsList, ActivitiesAssumption DEF Activity
<1>3. stored \in List /\ caches \in [Browsers -> List]
  BY <1>1, <1>2, NothingIsList
<1>4. NoPage \in Page /\ NoForm \in Form
  BY NothingIsList DEF NoPage, Page, NoForm, Form, NoDraft, Draft
<1>5. ActivitiesTypeOK
  BY <1>3, <1>4, ActivitiesAssumption DEF ActivitiesInit, ActivitiesTypeOK, NoPage
<1>6. HiddenIsNotOffered
  BY NothingIsList DEF ActivitiesInit, HiddenIsNotOffered, NoForm
<1> QED BY <1>5, <1>6 DEF ActivitiesInit, ActivitiesInv, ListsAreSound

LEMMA RequestTyped ==
    ASSUME ActivitiesTypeOK, NEW b \in Browsers, NEW kind \in Kinds, NEW list \in List, NEW i \in Ids \cup {Nothing}
    PROVE  /\ NewCall(b, kind, list, i) \in Call
           /\ \A base \in List : [NewCall(b, kind, list, i) EXCEPT !.base = base] \in Call
BY DEF ActivitiesTypeOK, NewCall, Call, Page

LEMMA WriteTyped ==
    ASSUME ActivitiesTypeOK, NEW b \in Browsers, NEW list \in List, Write(b, list)
    PROVE  caches' \in [Browsers -> List] /\ told' \subseteq {x \in Browsers : form[x].open}
<1>1. caches \in [Browsers -> List] /\ told \subseteq {x \in Browsers : form[x].open}
  BY DEF ActivitiesTypeOK
<1>2. caches' \in [Browsers -> List]
  BY <1>1 DEF Write
<1>3. told' \subseteq {x \in Browsers : form[x].open}
  BY <1>1 DEF Write
<1> QED BY <1>2, <1>3

LEMMA ShowTyped ==
    ASSUME ActivitiesTypeOK, NEW b \in Browsers, NEW list \in List, NEW shows \in Draft, ShowList(b, list, shows)
    PROVE  /\ page' \in [Browsers -> Page] /\ \A x \in Browsers : page'[x].open = page[x].open
           /\ caches' \in [Browsers -> List] /\ told' \subseteq {x \in Browsers : form[x].open}
<1>1. page \in [Browsers -> Page]
  BY DEF ActivitiesTypeOK
<1>2. [page[b] EXCEPT !.list = list, !.draft = shows] \in Page
      /\ [page[b] EXCEPT !.list = list, !.draft = shows].open = page[b].open
  BY <1>1 DEF Page
<1>3. page' = [page EXCEPT ![b] = [page[b] EXCEPT !.list = list, !.draft = shows]] /\ Write(b, list)
  BY <1>1 DEF ShowList, Page
<1>4. page' \in [Browsers -> Page] /\ \A x \in Browsers : page'[x].open = page[x].open
  BY <1>1, <1>2, <1>3
<1> QED BY <1>3, <1>4, WriteTyped

(* Steps of the editing page that send nothing.                            *)
LEMMA ActivitiesPage ==
    ASSUME ActivitiesInv, NEW b \in Browsers, OpenPage(b) \/ ClosePage(b) \/ StartEditing(b) \/ CancelEditor(b)
    PROVE  ActivitiesInv'
<1> USE DEF ActivitiesInv, ListsAreSound
<1>1. CASE OpenPage(b)
  <2> DEFINE new == [NewCall(b, "load", NoActivities, Nothing) EXCEPT !.base = caches[b]]
             opened == [open |-> TRUE, list |-> caches[b], draft |-> NoDraft]
  <2>1. new \in Call /\ ChangesOne(new)
    BY RequestTyped, NothingIsList DEF ActivitiesTypeOK, Kinds, NewCall, ChangesOne, Call
  <2>2. opened \in Page
    BY DEF ActivitiesTypeOK, Page, Draft, NoDraft
  <2>3. page' = [page EXCEPT ![b] = opened] /\ calls' = calls \cup {new}
        /\ editor' = [editor EXCEPT ![b] = TRUE] /\ opens' \in 0..MaxOpens
        /\ UNCHANGED <<stored, caches, migrated, form, told, changes, losses>>
    BY <1>1, ActivitiesAssumption DEF OpenPage, LogIn, Opening, ActivitiesTypeOK
  <2>4. opened.open = TRUE
    OBVIOUS
  <2>5. ActivitiesTypeOK'
    <3> HIDE DEF new, opened
    <3> QED BY <2>1, <2>2, <2>3, <2>4 DEF ActivitiesTypeOK
  <2> HIDE DEF new
  <2> QED BY <2>1, <2>3, <2>5 DEF HiddenIsNotOffered, ChangesOne
<1>2. CASE ClosePage(b)
  <2>1. ASSUME NEW c \in calls'
        PROVE  c \in Call /\ ChangesOne(c)
    <3>1. PICK d \in calls : c = d \/ c = [d EXCEPT !.heard = FALSE]
      BY <1>2 DEF ClosePage
    <3>2. d \in Call /\ ChangesOne(d)
      BY DEF ActivitiesTypeOK
    <3> QED BY <3>1, <3>2 DEF Call, ChangesOne
  <2>2. NoPage \in Page /\ NoPage.open = FALSE
    BY NothingIsList DEF NoPage, Page, NoDraft, Draft
  <2>3. ActivitiesTypeOK'
    BY <1>2, <2>1, <2>2 DEF ClosePage, ActivitiesTypeOK
  <2> QED BY <1>2, <2>1, <2>3 DEF ClosePage, HiddenIsNotOffered
<1>3. CASE StartEditing(b)
  <2>1. PICK i \in DOMAIN page[b].list :
          page' = [page EXCEPT ![b].draft = [id |-> i, visible |-> page[b].list[i].visible]]
    BY <1>3 DEF StartEditing
  <2>2. page[b] \in Page /\ page[b].list \in List
    BY DEF ActivitiesTypeOK, Page
  <2>3. [id |-> i, visible |-> page[b].list[i].visible] \in Draft
    BY <2>2, IsList DEF Draft, Activity
  <2>4. page' \in [Browsers -> Page] /\ \A x \in Browsers : page'[x].open = page[x].open
    BY <2>1, <2>2, <2>3 DEF ActivitiesTypeOK, Page
  <2>5. ActivitiesTypeOK'
    BY <1>3, <2>4 DEF StartEditing, ActivitiesTypeOK
  <2> QED BY <1>3, <2>5 DEF StartEditing, HiddenIsNotOffered, ChangesOne
<1>4. CASE CancelEditor(b)
  <2>1. NoDraft \in Draft
    BY DEF NoDraft, Draft
  <2>2. page' \in [Browsers -> Page] /\ \A x \in Browsers : page'[x].open = page[x].open
    BY <1>4, <2>1 DEF CancelEditor, ActivitiesTypeOK, Page
  <2>3. ActivitiesTypeOK'
    BY <1>4, <2>2 DEF CancelEditor, ActivitiesTypeOK
  <2> QED BY <1>4, <2>3 DEF CancelEditor, HiddenIsNotOffered, ChangesOne
<1> QED BY <1>1, <1>2, <1>3, <1>4

(* What a button sends keeps what the page shows.                          *)
LEMMA ActivitiesSend ==
    ASSUME ActivitiesInv, NEW b \in Browsers, NEW kind \in {"save", "remove", "toggle"}, NEW list \in List,
           NEW i \in Ids \cup {Nothing}, Send(b, kind, list, i), Agree(page[b].list, list, i)
    PROVE  ActivitiesInv'
<1> DEFINE new == NewCall(b, kind, list, i)
<1>1. new \in Call
  BY RequestTyped DEF ActivitiesInv, ListsAreSound, Kinds
<1>2. ChangesOne(new)
  BY DEF ChangesOne, NewCall
<1>3. changes' \in 0..MaxEditions /\ calls' = calls \cup {new}
  BY ActivitiesAssumption DEF Send, ActivitiesInv, ListsAreSound, ActivitiesTypeOK
<1> HIDE DEF new
<1>4. ActivitiesTypeOK'
  BY <1>1, <1>3 DEF Send, ActivitiesInv, ListsAreSound, ActivitiesTypeOK
<1> QED BY <1>2, <1>3, <1>4 DEF Send, ActivitiesInv, ListsAreSound, HiddenIsNotOffered, ChangesOne

LEMMA ActivitiesButton ==
    ASSUME ActivitiesInv, NEW b \in Browsers, Add(b) \/ SaveDraft(b) \/ Remove(b) \/ ToggleVisibility(b)
    PROVE  ActivitiesInv'
<1>1. page[b] \in Page /\ page[b].list \in List /\ page[b].draft \in Draft
  BY DEF ActivitiesInv, ListsAreSound, ActivitiesTypeOK, Page
<1>2. \A v \in BOOLEAN : changes < MaxEditions => [edition |-> changes + 1, visible |-> v] \in Activity
  BY ActivitiesAssumption DEF ActivitiesInv, ListsAreSound, ActivitiesTypeOK, Activity
<1>3. CASE Add(b)
  <2>1. PICK i \in Ids \ DOMAIN page[b].list :
            Send(b, "save", With(page[b].list, i, [edition |-> changes + 1, visible |-> TRUE]), i)
    BY <1>3 DEF Add
  <2>2. [edition |-> changes + 1, visible |-> TRUE] \in Activity
    BY <1>2, <2>1 DEF Send
  <2> QED BY <1>1, <2>1, <2>2, WithTyped, ActivitiesSend
<1>4. CASE SaveDraft(b)
  <2> DEFINE shows == page[b].draft
             list == Edited(page[b].list, shows.id, [edition |-> changes + 1, visible |-> shows.visible])
  <2>1. Send(b, "save", list, shows.id) /\ changes < MaxEditions
    BY <1>4 DEF SaveDraft, Send
  <2>2. shows.id \in Ids \cup {Nothing} /\ shows.visible \in BOOLEAN
    BY <1>1 DEF Draft
  <2>3. list \in List /\ Agree(page[b].list, list, shows.id)
    BY <1>1, <1>2, <2>1, <2>2, EditedTyped
  <2> HIDE DEF list, shows
  <2> QED BY <2>1, <2>2, <2>3, ActivitiesSend
<1>5. CASE Remove(b)
  BY <1>1, <1>5, IsList, WithoutTyped, ActivitiesSend DEF Remove
<1>6. CASE ToggleVisibility(b)
  BY <1>1, <1>6, IsList, ToggledTyped, ActivitiesSend DEF ToggleVisibility
<1> QED BY <1>3, <1>4, <1>5, <1>6

LEMMA ActivitiesForm ==
    ASSUME ActivitiesInv, NEW b \in Browsers, OpenForm(b) \/ CloseForm(b) \/ Sync(b)
    PROVE  ActivitiesInv'
<1> USE DEF ActivitiesInv, ListsAreSound
<1>1. CASE OpenForm(b)
  <2> DEFINE new == [NewCall(b, "read", NoActivities, Nothing) EXCEPT !.base = NoActivities]
             opened == [open |-> TRUE, offered |-> Visible(caches[b])]
  <2>1. new \in Call /\ ChangesOne(new)
    BY RequestTyped, NothingIsList DEF ActivitiesTypeOK, Kinds, NewCall, ChangesOne, Call
  <2>2. opened \in Form /\ opened.open = TRUE /\ \A i \in DOMAIN opened.offered : opened.offered[i].visible
    BY VisibleIsList DEF ActivitiesTypeOK, Form
  <2>3. form' = [form EXCEPT ![b] = opened] /\ calls' = calls \cup {new} /\ opens' \in 0..MaxOpens
        /\ UNCHANGED <<stored, caches, migrated, page, told, changes, losses>>
    BY <1>1, ActivitiesAssumption DEF OpenForm, Opening, ActivitiesTypeOK
  <2>4. editor' \in [Browsers -> BOOLEAN] /\ \A x \in Browsers : page[x].open => editor'[x] = editor[x]
    BY <1>1 DEF OpenForm, LogIn, ActivitiesTypeOK
  <2>5. ActivitiesTypeOK'
    <3> HIDE DEF new, opened
    <3> QED BY <2>1, <2>2, <2>3, <2>4 DEF ActivitiesTypeOK
  <2>6. HiddenIsNotOffered'
    <3> HIDE DEF opened
    <3> QED BY <2>2, <2>3 DEF ActivitiesTypeOK, HiddenIsNotOffered
  <2> HIDE DEF new
  <2> QED BY <2>1, <2>3, <2>5, <2>6 DEF ChangesOne
<1>2. CASE CloseForm(b)
  <2>1. NoForm \in Form /\ DOMAIN NoForm.offered = {}
    BY NothingIsList DEF NoForm, Form
  <2>2. ActivitiesTypeOK' /\ HiddenIsNotOffered'
    BY <1>2, <2>1 DEF CloseForm, ActivitiesTypeOK, HiddenIsNotOffered
  <2> QED BY <1>2, <2>2 DEF CloseForm, ChangesOne
<1>3. CASE Sync(b)
  <2>1. Visible(caches[b]) \in List /\ \A i \in DOMAIN Visible(caches[b]) : Visible(caches[b])[i].visible
    BY VisibleIsList DEF ActivitiesTypeOK
  <2>2. form' \in [Browsers -> Form] /\ \A x \in Browsers : form'[x].open = form[x].open
    BY <1>3, <2>1 DEF Sync, ActivitiesTypeOK, Form
  <2>3. ActivitiesTypeOK'
    BY <1>3, <2>2 DEF Sync, ActivitiesTypeOK
  <2>4. HiddenIsNotOffered'
    BY <1>3, <2>1 DEF Sync, ActivitiesTypeOK, Form, HiddenIsNotOffered
  <2> QED BY <1>3, <2>3, <2>4 DEF Sync, ChangesOne
<1> QED BY <1>1, <1>2, <1>3

LEMMA ActivitiesServe ==
    ASSUME ActivitiesInv, NEW c \in calls, Serve(c) \/ FailCall(c)
    PROVE  ActivitiesInv'
<1> USE DEF ActivitiesInv, ListsAreSound
<1>1. CASE Serve(c)
  <2> DEFINE answer == IF Replaces(c) THEN c.list ELSE ListFor(c.from)
             new == [c EXCEPT !.answer = answer]
  <2>1. c \in Call /\ ChangesOne(c)
    BY DEF ActivitiesTypeOK
  <2>2. answer \in List
    BY <2>1, VisibleIsList DEF ListFor, Call, ActivitiesTypeOK
  <2>3. new \in Call /\ ChangesOne(new)
    <3> HIDE DEF answer
    <3> QED BY <2>1, <2>2 DEF Call, ChangesOne
  <2>4. calls' = (calls \ {c}) \cup {new}
    BY <1>1 DEF Serve
  <2>5. stored' \in List
    BY <1>1, <2>1 DEF Serve, ActivitiesTypeOK, Call
  <2> HIDE DEF new
  <2>6. ActivitiesTypeOK'
    BY <1>1, <2>3, <2>4, <2>5 DEF Serve, ActivitiesTypeOK
  <2> QED BY <1>1, <2>3, <2>4, <2>6 DEF Serve, HiddenIsNotOffered, ChangesOne
<1>2. CASE FailCall(c)
  BY <1>2, ActivitiesAssumption DEF FailCall, ActivitiesTypeOK, HiddenIsNotOffered, ChangesOne
<1> QED BY <1>1, <1>2

LEMMA ActivitiesArrive ==
    ASSUME ActivitiesInv, NEW c \in calls, Arrive(c)
    PROVE  ActivitiesInv'
<1> USE DEF ActivitiesInv, ListsAreSound
<1> DEFINE b == c.from
<1>1. c \in Call /\ b \in Browsers /\ c.answer \in List
  BY DEF Arrive, ActivitiesTypeOK, Call
<1>2. page[b].draft \in Draft /\ NoDraft \in Draft /\ caches[b] \in List
  BY <1>1 DEF ActivitiesTypeOK, Page, Draft, NoDraft
<1>3. UNCHANGED <<stored, editor, changes, opens, losses>>
  BY DEF Arrive
<1>4. ASSUME calls' \subseteq Call, \A d \in calls' : ChangesOne(d), migrated' \in [Browsers -> BOOLEAN],
             page' \in [Browsers -> Page], \A x \in Browsers : page'[x].open = page[x].open,
             caches' \in [Browsers -> List], told' \subseteq {x \in Browsers : form[x].open}, form' = form
      PROVE  ActivitiesInv'
  <2>1. ActivitiesTypeOK'
    BY <1>3, <1>4 DEF ActivitiesTypeOK
  <2> QED BY <1>3, <1>4, <2>1 DEF HiddenIsNotOffered, ChangesOne
<1>5. calls \ {c} \subseteq Call /\ \A d \in calls \ {c} : ChangesOne(d)
  BY DEF ActivitiesTypeOK
<1>6. CASE Load(c)
  <2>1. CASE c.answer = NoActivities /\ caches[b] # NoActivities /\ ~migrated[b]
    <3> DEFINE new == [NewCall(b, "migrate", caches[b], Nothing) EXCEPT !.base = caches[b]]
    <3>1. new \in Call /\ ChangesOne(new)
      BY <1>1, <1>2, RequestTyped DEF ActivitiesTypeOK, Kinds, NewCall, ChangesOne
    <3>2. calls' = (calls \ {c}) \cup {new} /\ ShowList(b, caches[b], page[b].draft) /\ UNCHANGED <<migrated, form>>
      BY <1>6, <2>1 DEF Load
    <3> HIDE DEF new
    <3> QED BY <1>1, <1>2, <1>4, <1>5, <3>1, <3>2, ShowTyped DEF ActivitiesTypeOK
  <2>2. CASE ~(c.answer = NoActivities /\ caches[b] # NoActivities /\ ~migrated[b])
    <3>1. /\ calls' = calls \ {c} /\ ShowList(b, c.answer, page[b].draft)
          /\ migrated' = [migrated EXCEPT ![b] = TRUE] /\ form' = form
      BY <1>6, <2>2 DEF Load
    <3> QED BY <1>1, <1>2, <1>4, <1>5, <3>1, ShowTyped DEF ActivitiesTypeOK
  <2> QED BY <2>1, <2>2
<1>7. CASE Migrated(c)
  <2>1. calls' = calls \ {c} /\ form' = form
    BY <1>7 DEF Migrated
  <2>2. CASE c.heard
    BY <1>1, <1>2, <1>4, <1>5, <1>7, <2>1, <2>2, ShowTyped DEF Migrated, ActivitiesTypeOK
  <2>3. CASE ~c.heard
    BY <1>4, <1>5, <1>7, <2>1, <2>3 DEF Migrated, ActivitiesTypeOK
  <2> QED BY <2>2, <2>3
<1>8. CASE Saved(c)
  <2>1. calls' = calls \ {c} /\ form' = form /\ migrated' \in [Browsers -> BOOLEAN]
    BY <1>8 DEF Saved, ActivitiesTypeOK
  <2>2. CASE c.heard
    BY <1>1, <1>2, <1>4, <1>5, <1>8, <2>1, <2>2, ShowTyped DEF Saved
  <2>3. CASE ~c.heard
    BY <1>1, <1>4, <1>5, <1>8, <2>1, <2>3, WriteTyped DEF Saved, ActivitiesTypeOK
  <2> QED BY <2>2, <2>3
<1>9. CASE Toggle(c)
  <2>1. calls' = calls \ {c} /\ UNCHANGED <<migrated, form>>
    BY <1>9 DEF Toggle
  <2>2. CASE c.heard
    BY <1>1, <1>2, <1>4, <1>5, <1>9, <2>1, <2>2, ShowTyped DEF Toggle, ActivitiesTypeOK
  <2>3. CASE ~c.heard
    BY <1>4, <1>5, <1>9, <2>1, <2>3 DEF Toggle, ActivitiesTypeOK
  <2> QED BY <2>2, <2>3
<1>10. CASE Offer(c)
  <2>1. Visible(c.answer) \in List /\ \A i \in DOMAIN Visible(c.answer) : Visible(c.answer)[i].visible
    BY <1>1, VisibleIsList
  <2>2. form' \in [Browsers -> Form] /\ \A x \in Browsers : form'[x].open = form[x].open
    BY <1>1, <1>10, <2>1 DEF Offer, ActivitiesTypeOK, Form
  <2>3. ActivitiesTypeOK'
    BY <1>1, <1>3, <1>10, <2>2 DEF Offer, ActivitiesTypeOK
  <2>4. HiddenIsNotOffered'
    BY <1>10, <2>1 DEF Offer, ActivitiesTypeOK, Form, HiddenIsNotOffered
  <2> QED BY <1>5, <1>10, <2>3, <2>4 DEF Offer, ChangesOne
<1> QED BY <1>6, <1>7, <1>8, <1>9, <1>10 DEF Arrive

LEMMA ActivitiesStep ==
    ActivitiesInv /\ [ActivitiesNext]_activityVars => ActivitiesInv'
<1>1. ASSUME ActivitiesInv, UNCHANGED activityVars
      PROVE  ActivitiesInv'
  BY <1>1 DEF activityVars, ActivitiesInv, ListsAreSound, ActivitiesTypeOK, HiddenIsNotOffered, ChangesOne
<1> QED BY <1>1, ActivitiesPage, ActivitiesButton, ActivitiesForm, ActivitiesServe, ActivitiesArrive DEF ActivitiesNext, PageStep, FormStep

LEMMA ActivitiesInvariance ==
    ActivitiesSpec => []ActivitiesInv
BY ActivitiesStart, ActivitiesStep, PTL DEF ActivitiesSpec

(* The lists are well formed, only editors have an editing page, and no    *)
(* form offers what is hidden, for any activities, browsers and accounts.  *)
THEOREM ListsHold ==
    ActivitiesSpec => []ListsAreSound
<1>1. ActivitiesInv => ListsAreSound
  BY DEF ActivitiesInv
<1> QED BY <1>1, ActivitiesInvariance, PTL

-----------------------------------------------------------------------------
(* What OnlyUnseenIsLost says of one step.                                 *)
Spares ==
    \A c \in calls :
        /\ Replaces(c) /\ c.kind # "migrate" /\ c.answer = Nothing
        /\ c.base = stored
        /\ Serve(c)
        => \A i \in Ids \ {c.about} :
              /\ i \in DOMAIN stored <=> i \in DOMAIN stored'
              /\ i \in DOMAIN stored => stored'[i] = stored[i]

(* A change whose page had seen all there is spares every other activity,  *)
(* for any activities, browsers and changes under way.                     *)
THEOREM OthersAreKept ==
    ActivitiesSpec => OnlyUnseenIsLost
<1>1. ActivitiesInv => Spares
  BY DEF ActivitiesInv, Spares, ChangesOne, Agree, Replaces, Serve
<1>2. [][Spares]_activityVars <=> OnlyUnseenIsLost
  BY PTL DEF OnlyUnseenIsLost, Spares
<1> QED BY <1>1, <1>2, ActivitiesInvariance, PTL DEF ActivitiesSpec

-----------------------------------------------------------------------------
(***************************************************************************)
(* Messages.  The invariant follows one message from the dialog that asks  *)
(* (Asking) over the request (Asked) to the game (Reached), and says of    *)
(* every state of the account that is shown, loaded or kept in a request   *)
(* that it is one the account has had (NotNewer, Polled).                  *)
(***************************************************************************)
\* An account as it was after the edit `since`, which set its target.
NotNewer(since, target) ==
    since <= account.since /\ (since = account.since => target = account.target)

\* The dialog is for the next request, or for the one being sent.
Asking ==
    /\ ask # Nil /\ sending = 0 => ask.n = Len(requests) + 1
    /\ sending > 0 => ask = requests[sending].ask
    /\ renewing => sending > 0 /\ requests[sending].stage = "answered"

\* Each request is its own question, and once written it has reached the game.
Asked ==
    \A n \in 1..Len(requests) :
        /\ requests[n].ask.n = n
        /\ requests[n].content = requests[n].ask.content
        /\ requests[n].stage \in {"written", "answered"} =>
               \E i \in DOMAIN received : received[i].n = n
        /\ NotNewer(requests[n].since, requests[n].ask.target)

\* What reached the game was asked for, once, and went to the target of the
\* account as it was when written.
Reached ==
    \A i \in DOMAIN received :
        /\ received[i].n \in 1..Len(requests)
        /\ LET q == requests[received[i].n]
           IN  /\ received[i].content = q.content
               /\ q.stage \in {"written", "answered", "refused"}
               /\ q.since <= received[i].since
               /\ q.since = received[i].since => received[i].target = q.ask.target
        /\ \A j \in DOMAIN received : received[j].n = received[i].n => i = j

\* The page reads one overview at a time, and shows none newer than it.
Polled ==
    /\ \A x, y \in loads : x = y
    /\ \A x \in loads \ {Nil} :
          /\ NotNewer(x.since, x.target)
          /\ known # Nil => known.since <= x.since
    /\ known # Nil => NotNewer(known.since, known.target)

MessagesInv == MessagesTypeOK /\ Asking /\ Asked /\ Reached /\ Polled /\ ResultIsOfItsMessage

-----------------------------------------------------------------------------
LEMMA SentAndReceived ==
    ASSUME MessagesTypeOK
    PROVE  /\ Len(requests) \in Nat /\ requests \in [1..Len(requests) -> Message]
           /\ DOMAIN requests = 1..Len(requests)
           /\ Len(received) \in Nat /\ received \in [1..Len(received) -> Receipt]
           /\ DOMAIN received = 1..Len(received)
           /\ sending \in Nat /\ (sending > 0 => sending \in 1..Len(requests))
BY LenProperties DEF MessagesTypeOK

LEMMA Since == ASSUME NEW x \in Account PROVE x.since \in Nat
BY MessagesAssumption DEF Account

(* A message goes on: nothing but its stage changes.                       *)
LEMMA MovesOn ==
    ASSUME MessagesTypeOK, NEW n, NEW from, IsAt(n, from), NEW stage \in Stages, Moves(n, stage)
    PROVE  /\ n \in 1..Len(requests)
           /\ requests' \in Seq(Message) /\ Len(requests') = Len(requests)
           /\ \A m \in 1..Len(requests) :
                 /\ requests'[m].ask = requests[m].ask
                 /\ requests'[m].content = requests[m].content
                 /\ requests'[m].since = requests[m].since
                 /\ requests'[m].stage = IF m = n THEN stage ELSE requests[m].stage
<1>1. n \in 1..Len(requests)
  BY SentAndReceived DEF IsAt
<1> DEFINE new == [requests[n] EXCEPT !.stage = stage]
<1>2. new \in Message /\ requests[n] \in Message
  BY <1>1, SentAndReceived DEF Message
<1>3. requests' = [requests EXCEPT ![n] = new]
  BY DEF Moves
<1>4. /\ requests' \in Seq(Message) /\ Len(requests') = Len(requests)
      /\ \A m \in 1..Len(requests) : requests'[m] = IF m = n THEN new ELSE requests[m]
  <2> HIDE DEF new
  <2> QED BY <1>1, <1>2, <1>3, ExceptSeq DEF MessagesTypeOK
<1> QED BY <1>1, <1>2, <1>4 DEF Message

(* What of the invariant speaks of the game and its messages alone.        *)
LEMMA GameKept ==
    ASSUME Asked, Reached, UNCHANGED <<game>>
    PROVE  Asked' /\ Reached'
BY DEF Asked, Reached, NotNewer, game

(* An answer that is shown, at once or after an overview.                  *)
LEMMA Settles ==
    ASSUME MessagesInv, sending > 0, requests[sending].stage = "answered", Settle, UNCHANGED received
    PROVE  /\ draft' \in Texts \cup {Nil} /\ result' \in Result
           /\ ask' = Nil /\ sending' = 0 /\ renewing' = FALSE
           /\ ResultIsOfItsMessage'
           /\ draft' # draft =>
                 \E i \in DOMAIN received : received[i].n = sending /\ received[i].content = draft
<1>1. sending \in 1..Len(requests) /\ sending \in 1..MaxSends
  BY SentAndReceived, MessagesAssumption DEF MessagesInv, MessagesTypeOK
<1>2. ask = requests[sending].ask /\ ask.content = requests[sending].content /\ ask \in Ask
  BY <1>1, SentAndReceived DEF MessagesInv, Asking, Asked, Message
<1>3. PICK i \in DOMAIN received : received[i].n = sending
  BY <1>1 DEF MessagesInv, Asked
<1>4. received[i].content = ask.content
  BY <1>2, <1>3 DEF MessagesInv, Reached
<1>5. result' \in Result
  BY <1>1, <1>2 DEF Settle, Result, Ask
<1> QED BY <1>3, <1>4, <1>5 DEF Settle, ResultIsOfItsMessage, MessagesInv, MessagesTypeOK

(* The steps of the page alone: what it was told stays of the account.     *)
LEMMA PageAlone ==
    ASSUME MessagesInv, UNCHANGED <<desk, game>>,
           alive' \in BOOLEAN /\ fresh' \in BOOLEAN,
           loads' \subseteq Account \cup {Nil} /\ known' \in Account \cup {Nil},
           draft' \in Texts \cup {Nil}, ask' \in Ask \cup {Nil},
           sending' \in 0..Len(requests), renewing' \in BOOLEAN, result' \in Result \cup {Nil},
           Asking', Polled', ResultIsOfItsMessage'
    PROVE  MessagesInv'
<1>1. Asked' /\ Reached'
  BY GameKept DEF MessagesInv
<1> QED BY <1>1 DEF MessagesInv, MessagesTypeOK, game

LEMMA PolledKept ==
    ASSUME Polled, UNCHANGED <<account, known>>, loads' \subseteq loads
    PROVE  Polled'
BY DEF Polled, NotNewer

LEMMA SameResult ==
    ASSUME ResultIsOfItsMessage, UNCHANGED <<result, received>>
    PROVE  ResultIsOfItsMessage'
BY DEF ResultIsOfItsMessage

LEMMA SameAsking ==
    ASSUME Asking, UNCHANGED <<ask, sending, renewing, requests>>
    PROVE  Asking'
BY DEF Asking

LEMMA PollStep == MessagesInv /\ Poll => MessagesInv'
<1> SUFFICES ASSUME MessagesInv, Poll PROVE MessagesInv'
  OBVIOUS
<1>1. Asking' /\ ResultIsOfItsMessage'
  BY SameAsking, SameResult DEF MessagesInv, Poll, panel, game
<1>2. Polled'
  <2>1. CASE loads' = loads
    BY <2>1, PolledKept DEF MessagesInv, Poll, game
  <2>2. CASE loads' # loads
    <3>1. loads = {} /\ loads' = {Nil} /\ UNCHANGED <<account, known>>
      BY <2>2 DEF Poll, MayLoad, game
    <3> QED BY <3>1 DEF MessagesInv, Polled, NotNewer
  <2> QED BY <2>1, <2>2
<1>3. /\ UNCHANGED <<desk, fresh, known, draft, ask, sending, renewing, result, game>>
      /\ alive' \in {alive, TRUE, FALSE} /\ loads' \subseteq loads \cup {Nil}
  BY DEF Poll, panel
<1>4. /\ fresh \in BOOLEAN /\ alive \in BOOLEAN /\ loads \subseteq Account \cup {Nil} /\ known \in Account \cup {Nil}
      /\ draft \in Texts \cup {Nil} /\ ask \in Ask \cup {Nil}
      /\ sending \in 0..Len(requests) /\ renewing \in BOOLEAN /\ result \in Result \cup {Nil}
  BY DEF MessagesInv, MessagesTypeOK
<1> QED BY <1>1, <1>2, <1>3, <1>4, PageAlone

LEMMA ReadStep ==
    MessagesInv /\ ReadOverview => MessagesInv'
<1> SUFFICES ASSUME MessagesInv, ReadOverview PROVE MessagesInv'
  OBVIOUS
<1>1. Asking' /\ ResultIsOfItsMessage'
  BY SameAsking, SameResult DEF MessagesInv, ReadOverview, panel, game
<1>2. loads' = {account} /\ UNCHANGED <<account, known>>
  BY DEF ReadOverview, MessagesInv, Polled, game
<1>3. known # Nil => known.since <= account.since
  BY DEF MessagesInv, Polled, NotNewer
<1>4. account.since <= account.since
  BY Since DEF MessagesInv, MessagesTypeOK
<1>5. Polled'
  BY <1>2, <1>3, <1>4 DEF MessagesInv, Polled, NotNewer
<1> QED BY <1>1, <1>2, <1>5, PageAlone DEF MessagesInv, MessagesTypeOK, ReadOverview, panel, game

(* The end of an overview: what waited for it is shown.                    *)
LEMMA AfterLoadStep ==
    ASSUME MessagesInv, AfterLoad, UNCHANGED <<received, requests>>
    PROVE  /\ draft' \in Texts \cup {Nil} /\ ask' \in Ask \cup {Nil}
           /\ sending' \in 0..Len(requests) /\ renewing' \in BOOLEAN /\ result' \in Result \cup {Nil}
           /\ Asking' /\ ResultIsOfItsMessage'
           /\ sending > 0 /\ draft' # draft =>
                 \E i \in DOMAIN received : received[i].n = sending /\ received[i].content = draft
<1>1. CASE renewing
  <2>1. sending > 0 /\ requests[sending].stage = "answered" /\ Settle
    BY <1>1 DEF MessagesInv, Asking, AfterLoad
  <2>2. sending' = 0 /\ ask' = Nil /\ renewing' = FALSE
    BY <2>1 DEF Settle
  <2>3. Asking'
    BY <2>2 DEF Asking
  <2>4. /\ draft' \in Texts \cup {Nil} /\ result' \in Result /\ ResultIsOfItsMessage'
        /\ draft' # draft =>
              \E i \in DOMAIN received : received[i].n = sending /\ received[i].content = draft
    BY <2>1, Settles
  <2>5. 0 \in 0..Len(requests)
    BY SentAndReceived DEF MessagesInv
  <2> QED BY <2>2, <2>3, <2>4, <2>5
<1>2. CASE ~renewing
  <2>1. UNCHANGED panel
    BY <1>2 DEF AfterLoad
  <2> QED BY <2>1, SameAsking, SameResult DEF MessagesInv, MessagesTypeOK, panel
<1> QED BY <1>1, <1>2

LEMMA LoadStep ==
    MessagesInv /\ LoadEnds => MessagesInv'
<1> SUFFICES ASSUME MessagesInv, LoadEnds PROVE MessagesInv'
  OBVIOUS
<1>1. ASSUME NEW seen \in loads \ {Nil}, OverviewArrives(seen)
      PROVE  MessagesInv'
  <2>1. loads' = {} /\ known' = seen /\ seen \in Account /\ account' = account
    BY <1>1 DEF OverviewArrives, MessagesInv, Polled, MessagesTypeOK, game
  <2>2. Polled'
    BY <2>1 DEF MessagesInv, Polled, NotNewer
  <2>3. UNCHANGED <<received, requests>> /\ AfterLoad
    BY <1>1 DEF OverviewArrives, game
  <2> QED BY <1>1, <2>1, <2>2, <2>3, AfterLoadStep, PageAlone DEF MessagesInv, MessagesTypeOK, OverviewArrives, game
<1>2. ASSUME NEW seen \in loads, OverviewFails(seen)
      PROVE  MessagesInv'
  <2>1. Polled'
    BY <1>2, PolledKept DEF OverviewFails, MessagesInv, game
  <2>2. UNCHANGED <<received, requests>> /\ AfterLoad
    BY <1>2 DEF OverviewFails, game
  <2> QED BY <1>2, <2>1, <2>2, AfterLoadStep, PageAlone DEF MessagesInv, MessagesTypeOK, OverviewFails, game
<1> QED BY <1>1, <1>2 DEF LoadEnds

LEMMA RequestSendStep ==
    ASSUME MessagesInv, NEW content \in Contents, RequestSend(content)
    PROVE  MessagesInv'
<1>1. ask' \in Ask /\ ask'.n = Len(requests) + 1
  <2>1. Len(requests) + 1 \in 1..MaxSends + 1
    BY SentAndReceived, MessagesAssumption DEF MessagesInv, MessagesTypeOK
  <2>2. known.target \in Targets
    BY DEF RequestSend, Idle, MessagesInv, MessagesTypeOK, Account
  <2> QED BY <2>1, <2>2 DEF RequestSend, Ask
<1>2. Asking'
  BY <1>1 DEF RequestSend, Idle, MessagesInv, Asking, game
<1>3. Polled' /\ ResultIsOfItsMessage'
  BY PolledKept, SameResult DEF MessagesInv, RequestSend, polling, game
<1> QED BY <1>1, <1>2, <1>3, PageAlone DEF MessagesInv, MessagesTypeOK, RequestSend, polling, game

LEMMA MessagesForm ==
    MessagesInv /\ (WriteText \/ Submit \/ SubmitQuick \/ Cancel \/ ConfirmRefused) => MessagesInv'
<1> SUFFICES ASSUME MessagesInv, WriteText \/ Submit \/ SubmitQuick \/ Cancel \/ ConfirmRefused PROVE MessagesInv'
  OBVIOUS
<1>1. CASE WriteText
  <2>1. Asking' /\ Polled' /\ ResultIsOfItsMessage'
    BY <1>1, SameAsking, PolledKept, SameResult DEF MessagesInv, WriteText, polling, game
  <2> QED BY <1>1, <2>1, PageAlone DEF MessagesInv, MessagesTypeOK, WriteText, polling, game
<1>2. CASE Submit
  BY <1>2, RequestSendStep DEF Submit, MessagesInv, MessagesTypeOK, Contents
<1>3. CASE SubmitQuick
  BY <1>3, RequestSendStep DEF SubmitQuick, Contents
<1>4. CASE Cancel \/ ConfirmRefused
  <2>1. ask' = Nil /\ sending = 0 /\ UNCHANGED <<desk, polling, known, draft, sending, renewing, result, game>>
    BY <1>4 DEF Cancel, ConfirmRefused, MayConfirm
  <2>2. Asking'
    BY <2>1 DEF MessagesInv, Asking, game
  <2>3. Polled' /\ ResultIsOfItsMessage'
    BY <2>1, PolledKept, SameResult DEF MessagesInv, polling, game
  <2> QED BY <2>1, <2>2, <2>3, PageAlone DEF MessagesInv, MessagesTypeOK, polling, game
<1> QED BY <1>1, <1>2, <1>3, <1>4

LEMMA AnswerStep ==
    MessagesInv /\ (AnswerArrives \/ ErrorArrives \/ Reopen) => MessagesInv'
<1> SUFFICES ASSUME MessagesInv, AnswerArrives \/ ErrorArrives \/ Reopen PROVE MessagesInv'
  OBVIOUS
<1>0. 0 \in 0..Len(requests)
  BY SentAndReceived DEF MessagesInv
<1>1. CASE AnswerArrives /\ MayLoad
  <2>1. loads' = {Nil} /\ renewing' = TRUE /\ UNCHANGED <<desk, alive, fresh, known, draft, ask, sending, result, game>>
    BY <1>1 DEF AnswerArrives, MayLoad
  <2>2. Asking' /\ Polled'
    BY <1>1, <2>1 DEF AnswerArrives, MessagesInv, Asking, Polled, NotNewer, game
  <2>3. ResultIsOfItsMessage'
    BY <2>1, SameResult DEF MessagesInv, game
  <2> QED BY <2>1, <2>2, <2>3, PageAlone DEF MessagesInv, MessagesTypeOK, game
<1>2. CASE AnswerArrives /\ ~MayLoad
  <2>1. sending > 0 /\ requests[sending].stage = "answered" /\ Settle /\ UNCHANGED received
    BY <1>2 DEF AnswerArrives, game
  <2>2. Polled'
    BY <1>2, PolledKept DEF MessagesInv, AnswerArrives, game
  <2>3. Asking'
    BY <2>1 DEF Settle, Asking
  <2>4. loads' \subseteq Account \cup {Nil} /\ UNCHANGED <<desk, alive, fresh, known, game>>
    BY <1>2 DEF AnswerArrives, MessagesInv, MessagesTypeOK
  <2>5. /\ draft' \in Texts \cup {Nil} /\ result' \in Result \cup {Nil} /\ ask' = Nil
        /\ sending' = 0 /\ renewing' = FALSE /\ ResultIsOfItsMessage'
    BY <2>1, Settles
  <2> QED BY <1>0, <2>2, <2>3, <2>4, <2>5, PageAlone DEF MessagesInv, MessagesTypeOK
<1>3. CASE ErrorArrives
  <2>1. ask' = Nil /\ sending' = 0 /\ renewing' = FALSE
        /\ UNCHANGED <<desk, polling, known, draft, result, game>>
    BY <1>3 DEF ErrorArrives, Unlock, MessagesInv, MessagesTypeOK
  <2>2. Asking' /\ Polled' /\ ResultIsOfItsMessage'
    BY <2>1, PolledKept, SameResult DEF MessagesInv, Asking, polling, game
  <2> QED BY <1>0, <2>1, <2>2, PageAlone DEF MessagesInv, MessagesTypeOK, polling
<1>4. CASE Reopen
  <2>1. Asking' /\ Polled' /\ ResultIsOfItsMessage'
    BY <1>4 DEF Reopen, Asking, Polled, ResultIsOfItsMessage
  <2> QED BY <1>0, <1>4, <2>1, PageAlone DEF MessagesInv, MessagesTypeOK, Reopen
<1> QED BY <1>1, <1>2, <1>3, <1>4

LEMMA ConfirmStep ==
    MessagesInv /\ Confirm => MessagesInv'
<1> SUFFICES ASSUME MessagesInv, Confirm PROVE MessagesInv'
  OBVIOUS
<1> DEFINE new == [ask |-> ask, content |-> ask.content, since |-> known.since, stage |-> "sent"]
           last == Len(requests) + 1
<1>1. /\ ask \in Ask /\ ask # Nil /\ sending = 0 /\ ask.n = last
      /\ known \in Account /\ known # Nil /\ known.target = ask.target
      /\ last \in 1..MaxSends /\ requests' = Append(requests, new) /\ sending' = last
  BY SentAndReceived, MessagesAssumption
     DEF Confirm, MayConfirm, StillThere, Usable, MessagesInv, MessagesTypeOK, Asking
<1>2. new \in Message
  BY <1>1 DEF Message, Ask, Account, Stages
<1>3. /\ requests' \in Seq(Message) /\ Len(requests') = last
      /\ requests'[last] = new
      /\ \A n \in 1..Len(requests) : requests'[n] = requests[n]
  <2> HIDE DEF new
  <2> QED BY <1>1, <1>2, AppendProperties, SentAndReceived DEF MessagesInv, MessagesTypeOK
<1>4. MessagesTypeOK'
  BY <1>1, <1>3, SentAndReceived DEF Confirm, MessagesInv, MessagesTypeOK, polling
<1>5. Asking'
  BY <1>1, <1>3, SentAndReceived DEF Confirm, MessagesInv, MessagesTypeOK, Asking
<1>6. Asked'
  <2> SUFFICES ASSUME NEW n \in 1..Len(requests')
               PROVE  /\ requests'[n].ask.n = n
                      /\ requests'[n].content = requests'[n].ask.content
                      /\ requests'[n].stage \in {"written", "answered"} =>
                             \E i \in DOMAIN received : received[i].n = n
                      /\ NotNewer(requests'[n].since, requests'[n].ask.target)
    BY DEF Confirm, Asked, NotNewer
  <2>1. CASE n = last
    BY <1>1, <1>3, <2>1 DEF MessagesInv, Polled
  <2>2. CASE n # last
    <3>1. n \in 1..Len(requests)
      BY <1>3, <2>2, SentAndReceived DEF MessagesInv
    <3> QED BY <1>3, <3>1 DEF MessagesInv, Asked
  <2> QED BY <2>1, <2>2
<1>7. Reached'
  BY <1>3, SentAndReceived DEF Confirm, MessagesInv, Reached
<1>8. Polled' /\ ResultIsOfItsMessage'
  BY PolledKept, SameResult DEF Confirm, MessagesInv, polling
<1> QED BY <1>4, <1>5, <1>6, <1>7, <1>8 DEF MessagesInv

LEMMA MoveStep ==
    ASSUME MessagesInv, NEW n, NEW from \in {"sent", "serving", "written"}, IsAt(n, from),
           NEW stage \in Stages, Moves(n, stage), OnlyRequests,
           IF from = "written" THEN stage \in {"answered", "refused"} ELSE stage \in {"serving", "refused"}
    PROVE  MessagesInv'
<1> USE DEF OnlyRequests
<1>1. /\ n \in 1..Len(requests)
      /\ requests' \in Seq(Message) /\ Len(requests') = Len(requests)
      /\ \A m \in 1..Len(requests) :
            /\ requests'[m].ask = requests[m].ask
            /\ requests'[m].content = requests[m].content
            /\ requests'[m].since = requests[m].since
            /\ requests'[m].stage = IF m = n THEN stage ELSE requests[m].stage
  BY MovesOn DEF MessagesInv
<1>2. requests[n].stage = from
  BY DEF IsAt
<1>3. MessagesTypeOK' /\ Polled' /\ ResultIsOfItsMessage'
  BY <1>1, PolledKept, SameResult DEF MessagesInv, MessagesTypeOK, polling, panel
<1>4. Asking'
  BY <1>1, <1>2, SentAndReceived DEF MessagesInv, Asking, panel
<1>5. Asked'
  BY <1>1, <1>2 DEF MessagesInv, Asked, NotNewer
<1>6. Reached'
  BY <1>1, <1>2 DEF MessagesInv, Reached
<1> QED BY <1>3, <1>4, <1>5, <1>6 DEF MessagesInv

LEMMA MessagesWrite ==
    ASSUME MessagesInv, NEW n, WriteToGame(n)
    PROVE  MessagesInv'
<1> DEFINE new == [n |-> n, content |-> requests[n].content, target |-> account.target, since |-> account.since]
           last == Len(received) + 1
<1>1. /\ n \in 1..Len(requests)
      /\ requests' \in Seq(Message) /\ Len(requests') = Len(requests)
      /\ \A m \in 1..Len(requests) :
            /\ requests'[m].ask = requests[m].ask
            /\ requests'[m].content = requests[m].content
            /\ requests'[m].since = requests[m].since
            /\ requests'[m].stage = IF m = n THEN "written" ELSE requests[m].stage
  <2>1. IsAt(n, "serving") /\ Moves(n, "written") /\ "written" \in Stages
    BY DEF WriteToGame, Stages
  <2> QED BY <2>1, MovesOn DEF MessagesInv
<1>2. requests[n].stage = "serving" /\ requests[n] \in Message
  BY <1>1, SentAndReceived DEF WriteToGame, IsAt, MessagesInv
<1>3. new \in Receipt
  BY <1>1, <1>2, SentAndReceived, MessagesAssumption DEF MessagesInv, MessagesTypeOK, Receipt, Message, Account
<1>4. /\ received' \in Seq(Receipt) /\ Len(received') = last /\ DOMAIN received' = 1..last
      /\ received'[last] = new /\ \A i \in 1..Len(received) : received'[i] = received[i]
  <2>1. received' = Append(received, new)
    BY DEF WriteToGame
  <2> HIDE DEF new
  <2> QED BY <1>3, <2>1, AppendProperties, LenProperties DEF MessagesInv, MessagesTypeOK
<1>5. MessagesTypeOK' /\ Polled'
  BY <1>1, <1>4, PolledKept DEF WriteToGame, MessagesInv, MessagesTypeOK, polling, panel
<1>6. Asking'
  BY <1>1, <1>2, SentAndReceived DEF WriteToGame, MessagesInv, Asking, panel
<1>7. Asked'
  <2>1. \A m \in 1..Len(requests) :
            /\ requests'[m].ask.n = m
            /\ requests'[m].content = requests'[m].ask.content
            /\ NotNewer(requests'[m].since, requests'[m].ask.target)
    BY <1>1 DEF WriteToGame, MessagesInv, Asked, NotNewer
  <2>2. ASSUME NEW m \in 1..Len(requests), requests'[m].stage \in {"written", "answered"}
        PROVE  \E i \in 1..last : received'[i].n = m
    <3>1. CASE m = n
      BY <1>4, <3>1, SentAndReceived DEF MessagesInv
    <3>2. CASE m # n
      <4>1. PICK i \in 1..Len(received) : received[i].n = m
        BY <1>1, <2>2, <3>2, SentAndReceived DEF MessagesInv, Asked
      <4> QED BY <1>4, <4>1, SentAndReceived DEF MessagesInv
    <3> QED BY <3>1, <3>2
  <2> QED BY <1>1, <1>4, <2>1, <2>2 DEF WriteToGame, Asked, NotNewer
<1>8. \A i \in 1..Len(received) : received[i].n # n
  BY <1>2, SentAndReceived DEF MessagesInv, Reached
<1>9. Reached'
  <2>1. NotNewer(requests[n].since, requests[n].ask.target)
    BY <1>1 DEF MessagesInv, Asked
  <2> SUFFICES ASSUME NEW i \in 1..last
               PROVE  /\ received'[i].n \in 1..Len(requests')
                      /\ LET q == requests'[received'[i].n]
                         IN  /\ received'[i].content = q.content
                             /\ q.stage \in {"written", "answered", "refused"}
                             /\ q.since <= received'[i].since
                             /\ q.since = received'[i].since => received'[i].target = q.ask.target
                      /\ \A j \in 1..last : received'[j].n = received'[i].n => i = j
    BY <1>4 DEF Reached
  <2>2. \A j \in 1..Len(received) : received'[j] = received[j] /\ received'[j].n # n
    BY <1>4, <1>8
  <2>3. CASE i = last
    <3>1. \A j \in 1..last : received'[j].n = received'[i].n => i = j
      BY <1>4, <2>2, <2>3, SentAndReceived DEF MessagesInv
    <3>2. requests[n].since <= account.since
          /\ (requests[n].since = account.since => account.target = requests[n].ask.target)
      BY <2>1 DEF NotNewer
    <3> QED BY <1>1, <1>4, <2>3, <3>1, <3>2
  <2>4. CASE i # last
    <3>1. i \in 1..Len(received) /\ i \in DOMAIN received
      BY <2>4, SentAndReceived DEF MessagesInv
    <3>2. \A j \in 1..last : received'[j].n = received'[i].n => i = j
      <4> TAKE j \in 1..last
      <4>1. CASE j = last
        BY <1>4, <2>2, <3>1, <4>1
      <4>2. CASE j # last
        <5>1. j \in DOMAIN received /\ j \in 1..Len(received)
          BY <4>2, SentAndReceived DEF MessagesInv
        <5> QED BY <2>2, <3>1, <5>1 DEF MessagesInv, Reached
      <4> QED BY <4>1, <4>2
    <3>3. received[i].n \in 1..Len(requests) /\ received[i].n # n
      BY <2>2, <3>1 DEF MessagesInv, Reached
    <3> DEFINE q == requests[received[i].n]
    <3>4. /\ received[i].content = q.content /\ q.stage \in {"written", "answered", "refused"}
          /\ q.since <= received[i].since
          /\ q.since = received[i].since => received[i].target = q.ask.target
      BY <3>1 DEF MessagesInv, Reached
    <3>5. received'[i] = received[i]
      BY <2>2, <3>1
    <3>6. /\ requests'[received[i].n].ask = q.ask /\ requests'[received[i].n].content = q.content
          /\ requests'[received[i].n].since = q.since /\ requests'[received[i].n].stage = q.stage
          /\ Len(requests') = Len(requests)
      BY <1>1, <3>3
    <3> HIDE DEF q
    <3> QED BY <3>2, <3>3, <3>4, <3>5, <3>6
  <2> QED BY <2>3, <2>4
<1>10. ResultIsOfItsMessage'
  <2>1. result' = result
    BY DEF WriteToGame, panel
  <2>2. \A i \in DOMAIN received : i \in DOMAIN received' /\ received'[i] = received[i]
    BY <1>4, SentAndReceived DEF MessagesInv
  <2> QED BY <2>1, <2>2 DEF MessagesInv, ResultIsOfItsMessage
<1> QED BY <1>5, <1>6, <1>7, <1>9, <1>10 DEF MessagesInv

LEMMA ServerInv ==
    MessagesInv /\ ServerStep => MessagesInv'
<1> SUFFICES ASSUME MessagesInv, NEW n \in 1..MaxSends,
                    Lose(n) \/ Handle(n) \/ WriteToGame(n) \/ GiveUp(n) \/ Reply(n)
             PROVE  MessagesInv'
  BY DEF ServerStep
<1>1. CASE Lose(n)
  BY <1>1, MoveStep DEF Lose, Stages
<1>2. CASE Handle(n)
  BY <1>2, MoveStep DEF Handle, Stages
<1>3. CASE GiveUp(n)
  BY <1>3, MoveStep DEF GiveUp, Stages
<1>4. CASE Reply(n)
  BY <1>4, MoveStep DEF Reply, Stages
<1> QED BY <1>1, <1>2, <1>3, <1>4, MessagesWrite

LEMMA AccountInv ==
    MessagesInv /\ AccountStep => MessagesInv'
<1> SUFFICES ASSUME MessagesInv, AccountStep PROVE MessagesInv'
  OBVIOUS
<1>1. /\ account' \in Account
      /\ \/ account'.since = account.since /\ account'.target = account.target
         \/ account'.since = account.since + 1
      /\ UNCHANGED <<desk, polling, known, panel, requests, received>>
  <2>1. account \in Account
    BY DEF MessagesInv, MessagesTypeOK
  <2>2. CASE Retarget
    <3>1. PICK t \in Targets : AccountBecomes([account EXCEPT !.target = t, !.online = FALSE, !.since = @ + 1])
      BY <2>2 DEF Retarget
    <3>2. account.since + 1 \in 0..MaxEdits
      BY <2>1, <2>2, MessagesAssumption DEF Retarget, Account
    <3> QED BY <2>1, <3>1, <3>2 DEF AccountBecomes, Account
  <2>3. CASE Drop \/ Return
    BY <2>1, <2>3 DEF Drop, Return, AccountBecomes, Account
  <2> QED BY <2>2, <2>3 DEF AccountStep
<1>2. ASSUME NEW s \in Nat, NEW t, NotNewer(s, t)
      PROVE  NotNewer(s, t)'
  BY <1>1, <1>2, Since DEF NotNewer, MessagesInv, MessagesTypeOK
<1>3. MessagesTypeOK' /\ ResultIsOfItsMessage'
  BY <1>1, SameResult DEF MessagesInv, MessagesTypeOK, polling, panel
<1>4. Asking' /\ Reached'
  BY <1>1 DEF MessagesInv, Asking, Reached, panel
<1>5. Asked'
  <2>1. \A n \in 1..Len(requests) : requests[n].since \in Nat
    BY SentAndReceived, MessagesAssumption DEF MessagesInv, Message
  <2>2. \A n \in 1..Len(requests) : NotNewer(requests[n].since, requests[n].ask.target)'
    BY <1>1, <1>2, <2>1 DEF MessagesInv, Asked
  <2> QED BY <1>1, <2>2 DEF MessagesInv, Asked
<1>6. Polled'
  <2>1. \A x \in loads \ {Nil} : NotNewer(x.since, x.target)'
    BY <1>2, Since DEF MessagesInv, MessagesTypeOK, Polled
  <2>2. known # Nil => NotNewer(known.since, known.target)'
    <3>1. CASE known # Nil
      <4>1. known.since \in Nat /\ NotNewer(known.since, known.target)
        BY <3>1, Since DEF MessagesInv, MessagesTypeOK, Polled
      <4> QED BY <1>1, <1>2, <4>1
    <3> QED BY <1>1, <3>1
  <2> QED BY <1>1, <2>1, <2>2 DEF MessagesInv, Polled, NotNewer, polling
<1> QED BY <1>3, <1>4, <1>5, <1>6 DEF MessagesInv

LEMMA MessagesStart ==
    MessagesInit => MessagesInv
<1> SUFFICES ASSUME MessagesInit PROVE MessagesInv
  OBVIOUS
<1>1. requests = <<>> /\ received = <<>> /\ Len(requests) = 0 /\ DOMAIN received = {}
  BY DEF MessagesInit
<1>2. account \in Account
  BY MessagesAssumption DEF MessagesInit, Account
<1>3. requests \in Seq(Message) /\ received \in Seq(Receipt)
  BY <1>1, EmptySeq
<1>4. MessagesTypeOK
  <2>1. Len(requests) <= MaxSends /\ sending \in 0..Len(requests)
    BY <1>1, MessagesAssumption DEF MessagesInit, Closed
  <2> QED BY <1>2, <1>3, <2>1 DEF MessagesInit, Closed, MessagesTypeOK
<1> QED BY <1>1, <1>4 DEF MessagesInit, Closed, MessagesInv, Asking, Asked, Reached, Polled, ResultIsOfItsMessage

LEMMA MessagesStep ==
    MessagesInv /\ [MessagesNext]_messageVars => MessagesInv'
<1>1. MessagesInv /\ PanelStep => MessagesInv'
  BY PollStep, ReadStep, LoadStep, MessagesForm, ConfirmStep, AnswerStep DEF PanelStep
<1>2. MessagesInv /\ UNCHANGED messageVars => MessagesInv'
  BY DEF messageVars, MessagesInv, MessagesTypeOK, Asking, Asked, Reached, Polled, NotNewer, ResultIsOfItsMessage
<1> QED BY <1>1, <1>2, ServerInv, AccountInv DEF MessagesNext

LEMMA MessagesInvariance ==
    MessagesSpec => []MessagesInv
BY MessagesStart, MessagesStep, PTL DEF MessagesSpec

(* A confirmation is for one message, with what its dialog showed; only an *)
(* edit that the page had not read misleads it; the result on the screen   *)
(* is that of a message that reached the game.  For any texts, quick       *)
(* commands, targets, and numbers of messages and edits.                   *)
THEOREM MessagesHold ==
    MessagesSpec => []MessagesAreHonest
<1>1. MessagesInv => MessagesAreHonest
  <2> SUFFICES ASSUME MessagesInv PROVE OncePerConfirmation /\ OnlyNewerEditsMislead
    BY DEF MessagesInv, MessagesAreHonest
  <2> SUFFICES ASSUME NEW i \in DOMAIN received
               PROVE  LET q == requests[received[i].n]
                      IN  /\ received[i].content = q.ask.content
                          /\ \A j \in DOMAIN received : requests[received[j].n].ask = q.ask => i = j
                          /\ received[i].target # q.ask.target => received[i].since > q.since
    BY DEF OncePerConfirmation, OnlyNewerEditsMislead
  <2> DEFINE n == received[i].n
  <2>1. n \in 1..Len(requests) /\ received[i].content = requests[n].ask.content
    BY DEF MessagesInv, Reached, Asked
  <2>2. ASSUME NEW j \in DOMAIN received, requests[received[j].n].ask = requests[n].ask
        PROVE  i = j
    BY <2>2 DEF MessagesInv, Reached, Asked
  <2>3. requests[n].since \in Nat /\ received[i].since \in Nat
    BY <2>1, SentAndReceived, MessagesAssumption DEF MessagesInv, Message, Receipt
  <2>4. received[i].target # requests[n].ask.target => received[i].since > requests[n].since
    BY <2>3 DEF MessagesInv, Reached
  <2> QED BY <2>1, <2>2, <2>4
<1> QED BY <1>1, MessagesInvariance, PTL

-----------------------------------------------------------------------------
(* What NothingGoesBack says of one step.                                  *)
Forward ==
    known # Nil /\ known' # Nil =>
        /\ known'.since >= known.since
        /\ sending > 0 /\ draft' # draft =>
             \E i \in DOMAIN received : received[i].n = sending /\ received[i].content = draft

LEMMA ForwardStep ==
    ASSUME MessagesInv, [MessagesNext]_messageVars
    PROVE  Forward
<1> SUFFICES ASSUME known # Nil, known' # Nil PROVE Forward
  BY DEF Forward
<1>1. known.since <= known.since
  BY Since DEF MessagesInv, MessagesTypeOK
<1>2. CASE LoadEnds
  <2>1. AfterLoad /\ UNCHANGED <<received, requests>>
    BY <1>2 DEF LoadEnds, OverviewArrives, OverviewFails, game
  <2>2. known'.since >= known.since
    BY <1>1, <1>2 DEF LoadEnds, OverviewArrives, OverviewFails, MessagesInv, Polled
  <2> QED BY <2>1, <2>2, AfterLoadStep DEF Forward
<1>3. CASE AnswerArrives
  <2>1. known' = known
    BY <1>3 DEF AnswerArrives
  <2>2. CASE MayLoad
    BY <1>1, <1>3, <2>1, <2>2 DEF AnswerArrives, Forward
  <2>3. CASE ~MayLoad
    <3>1. sending > 0 /\ requests[sending].stage = "answered" /\ Settle /\ UNCHANGED received
      BY <1>3, <2>3 DEF AnswerArrives, game
    <3> QED BY <1>1, <2>1, <3>1, Settles DEF Forward
  <2> QED BY <2>2, <2>3
<1>4. CASE Reopen
  BY <1>4 DEF Reopen
<1>5. CASE WriteText \/ Submit \/ SubmitQuick
  BY <1>1, <1>5 DEF WriteText, Submit, SubmitQuick, RequestSend, Idle, Forward
<1>6. CASE Poll \/ ReadOverview \/ Cancel \/ Confirm \/ ConfirmRefused \/ ErrorArrives
  BY <1>1, <1>6 DEF Poll, ReadOverview, Cancel, Confirm, ConfirmRefused, ErrorArrives, Unlock, panel, Forward
<1>7. CASE ServerStep \/ AccountStep \/ UNCHANGED messageVars
  <2>1. known' = known /\ draft' = draft
    BY <1>7 DEF ServerStep, Lose, Handle, WriteToGame, GiveUp, Reply, OnlyRequests, AccountStep,
       Retarget, Drop, Return, AccountBecomes, messageVars, panel
  <2> QED BY <1>1, <2>1 DEF Forward
<1> QED BY <1>2, <1>3, <1>4, <1>5, <1>6, <1>7 DEF MessagesNext, PanelStep

(* No overview takes the page back, and a text leaves the box, other than  *)
(* by the operator's hand, only when it has reached the game.              *)
THEOREM NothingIsLost ==
    MessagesSpec => NothingGoesBack
<1>1. [][Forward]_messageVars <=> NothingGoesBack
  BY PTL DEF NothingGoesBack, Forward
<1>2. MessagesInv /\ [MessagesNext]_messageVars => [Forward]_messageVars
  BY ForwardStep
<1> QED BY <1>1, <1>2, MessagesInvariance, PTL DEF MessagesSpec
=============================================================================
