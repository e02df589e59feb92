---- MODULE Rewards ----
(***************************************************************************)
(* The rewards of the daily team bosses, on the SOP's side.  The scheduler *)
(* (team-view) pulls the locked teams of the day from the player service   *)
(* at 00:05, the connection to which (player-integration) may be moved and *)
(* switched off meanwhile; staff import who cleared a boss and apply for   *)
(* the teams the page (TeamView) shows.  A turn of the event loop is one   *)
(* step; a call to the player service begins in one and ends in another.   *)
(***************************************************************************)
EXTENDS Naturals, FiniteSets

CONSTANTS LastDay,      \* days are 0..LastDay
          Lists,        \* the teams of one server for one boss
          Characters,
          Tickets,      \* what a team of a list shares
          Rosters,      \* Rosters[mode][day]: the teams a player service locked
          ClearFiles,   \* files of clears that may be uploaded
          Directories,  \* sets of characters the player directory may know
          MaxChecks,    \* bound: health checks under way at once
          Nothing

VARIABLES clock,       \* half days: an odd one begins at 00:05
          known,       \* characters with exactly one row in player_directory
          clears,      \* team_view_clears
          granted,     \* reward orders, by their key: the quantity, 0 for none
          snapshots,   \* team_view_snapshots: whose teams are kept of a day
          link,        \* player_integration_state
          checks,      \* requests that wait for a health check
          running, timer, pending, completed,   \* TeamViewScheduler
          page         \* TeamView

rewardTables == <<known, clears, granted, snapshots, link>>
scheduler == <<running, timer, pending, completed>>
rewardVars == <<clock, rewardTables, checks, scheduler, page>>

RewardDays == 0..LastDay
LastClock == 2 * LastDay + 1
Modes == {"local", "remote"}

LockedTeam == [list: Lists, members: (SUBSET Characters) \ {{}}]
Clear == [date: RewardDays, list: Lists \cup {Nothing}, character: Characters]
Key == [date: RewardDays, list: Lists, character: Characters]
Link == [mode: Modes, enabled: BOOLEAN]
Check == [kind: {"switch", "enable"}, mode: Modes]
Pull == [date: RewardDays, from: Modes, aborted: BOOLEAN]
Page == [date: RewardDays, shown: RewardDays \cup {Nothing}, loading: BOOLEAN]

ASSUME RewardsAssumption ==
    /\ LastDay \in Nat /\ MaxChecks \in Nat
    /\ Nothing \notin RewardDays /\ Nothing \notin Lists /\ Nothing \notin Modes /\ Nothing \notin Pull
    /\ Tickets \in [Lists -> Nat]
    /\ IsFiniteSet(Characters)
    /\ Rosters \in [Modes -> [RewardDays -> SUBSET LockedTeam]]
    /\ ClearFiles \subseteq SUBSET Clear
    /\ Directories \subseteq SUBSET Characters

RewardsTypeOK ==
    /\ clock \in 0..LastClock
    /\ known \subseteq Characters
    /\ clears \subseteq {row \in Clear : row.list # Nothing}
    /\ granted \in [Key -> Nat]
    /\ snapshots \in [RewardDays -> Modes \cup {Nothing}]
    /\ link \in Link
    /\ checks \subseteq Check
    /\ running \in BOOLEAN
    /\ timer \in 0..LastClock + 2 \cup {Nothing}
    /\ pending \in Pull \cup {Nothing}
    /\ completed \in RewardDays \cup {Nothing}
    /\ page \in Page

RewardsInit ==
    /\ clock = 0
    /\ known \in Directories
    /\ clears = {}
    /\ granted = [k \in Key |-> 0]
    /\ snapshots = [d \in RewardDays |-> Nothing]
    /\ link = [mode |-> "local", enabled |-> TRUE]
    /\ checks = {}
    /\ running = FALSE
    /\ timer = Nothing
    /\ pending = Nothing
    /\ completed = Nothing
    /\ page = [date |-> 0, shown |-> Nothing, loading |-> TRUE]

----------------------------------------------------------------------------
(* The scheduler.  A retry waits a minute, which passes within any half day. *)

businessDay == clock \div 2
IsOpen == clock % 2 = 1

\* 00:05 of today, now while today's teams are due, else 00:05 of tomorrow.
RunAt(done) ==
    CASE ~IsOpen                      -> clock + 1
      [] IsOpen /\ done # businessDay -> clock
      [] OTHER                        -> clock + 2

\* slip: a day counts as done when its teams were asked for.
CompletedWhenAsked(pull) == pull.date

\* A pull that fails leaves the day due.
CompletedAfterFailure(pull) == completed

Start ==
    /\ ~running
    /\ running' = TRUE
    /\ completed' = Nothing
    /\ timer' = RunAt(Nothing)
    /\ UNCHANGED <<clock, rewardTables, checks, pending, page>>

\* The process ends and takes what it waits for along; a stopped scheduler
\* first aborts its pull.
Stop ==
    /\ running
    /\ running' = FALSE
    /\ timer' = Nothing
    /\ pending' = Nothing
    /\ completed' = Nothing
    /\ checks' = {}
    /\ UNCHANGED <<clock, rewardTables, page>>

\* The timer fires: run() up to its call of the player service.
Fire ==
    /\ running /\ timer # Nothing /\ clock >= timer
    /\ IF IsOpen /\ link.enabled
       THEN /\ pending' = [date |-> businessDay, from |-> link.mode, aborted |-> FALSE]
            /\ timer' = Nothing
       ELSE /\ timer' = IF IsOpen THEN clock ELSE RunAt(completed)
            /\ UNCHANGED pending
    /\ UNCHANGED <<clock, rewardTables, checks, running, completed, page>>

\* The teams are read and saved for the day they were asked for.
PullSucceeds ==
    /\ pending # Nothing /\ ~pending.aborted
    /\ snapshots' = [snapshots EXCEPT ![pending.date] = pending.from]
    /\ completed' = pending.date
    /\ timer' = RunAt(pending.date)
    /\ pending' = Nothing
    /\ UNCHANGED <<clock, known, clears, granted, link, checks, running, page>>

\* No answer in time, an abort, or teams that parsePayload or normalizeTeams refuses.
PullFails ==
    /\ pending # Nothing
    /\ completed' = CompletedAfterFailure(pending)
    /\ timer' = RunAt(completed')
    /\ pending' = Nothing
    /\ UNCHANGED <<clock, rewardTables, checks, running, page>>

connectionChanged(enabled) ==
    /\ pending' = IF running /\ pending # Nothing /\ ~enabled
                  THEN [pending EXCEPT !.aborted = TRUE] ELSE pending
    /\ timer' = IF running /\ pending = Nothing THEN RunAt(completed) ELSE timer

Tick ==
    /\ clock < LastClock
    /\ clock' = clock + 1
    /\ UNCHANGED <<rewardTables, checks, scheduler, page>>

SchedulerStep == Start \/ Stop \/ Fire \/ PullSucceeds \/ PullFails

----------------------------------------------------------------------------
(* The connection to the player service.  Both requests read the state,     *)
(* wait for a health check and then write it.                               *)

AskSwitch(mode) ==
    /\ running
    /\ link.enabled
    /\ Cardinality(checks) < MaxChecks
    /\ checks' = checks \cup {[kind |-> "switch", mode |-> mode]}
    /\ UNCHANGED <<clock, rewardTables, scheduler, page>>

AskEnable ==
    /\ running
    /\ Cardinality(checks) < MaxChecks
    /\ checks' = checks \cup {[kind |-> "enable", mode |-> link.mode]}
    /\ UNCHANGED <<clock, rewardTables, scheduler, page>>

Unhealthy(check) ==
    /\ checks' = checks \ {check}
    /\ UNCHANGED <<clock, rewardTables, scheduler, page>>

\* Whether the connection is on is read again; the mode of an enable is not.
Switched(check) ==
    /\ check.kind = "switch"
    /\ checks' = checks \ {check}
    /\ link' = [link EXCEPT !.mode = check.mode]
    /\ UNCHANGED <<clock, known, clears, granted, snapshots, scheduler, page>>

Enabled(check) ==
    /\ check.kind = "enable"
    /\ checks' = checks \ {check}
    /\ link' = [mode |-> check.mode, enabled |-> TRUE]
    /\ connectionChanged(TRUE)
    /\ UNCHANGED <<clock, known, clears, granted, snapshots, running, completed, page>>

Disable ==
    /\ running
    /\ link' = [link EXCEPT !.enabled = FALSE]
    /\ connectionChanged(FALSE)
    /\ UNCHANGED <<clock, known, clears, granted, snapshots, checks, running, completed, page>>

LinkStep ==
    \/ \E mode \in Modes : AskSwitch(mode)
    \/ AskEnable
    \/ \E check \in checks : Unhealthy(check) \/ Switched(check) \/ Enabled(check)
    \/ Disable

----------------------------------------------------------------------------
(* Clears, and the rewards applied for.                                     *)

\* Rows of other reasons are skipped; a file with nothing else is refused.
Recognised(file) == {row \in file : row.list # Nothing}

ImportClears(file) ==
    /\ running
    /\ Recognised(file) # {}
    /\ clears' = clears \cup Recognised(file)
    /\ page' = [page EXCEPT !.loading = TRUE]
    /\ UNCHANGED <<clock, known, granted, snapshots, link, checks, scheduler>>

ReplaceDirectory(directory) ==
    /\ running
    /\ known' = directory
    /\ UNCHANGED <<clock, clears, granted, snapshots, link, checks, scheduler, page>>

TeamsOf(d, l) ==
    IF snapshots[d] = Nothing THEN {}
    ELSE {team \in Rosters[snapshots[d]][d] : team.list = l}

ClearedOf(d, l) == {row.character : row \in {r \in clears : r.date = d /\ r.list = l}}

\* slip: canApply is not looked at.
EligibleWithoutClears(d, l) == TeamsOf(d, l)

\* canApply: at least one member cleared the boss.
Eligible(d, l) == {team \in TeamsOf(d, l) : team.members \cap ClearedOf(d, l) # {}}

Share(team) ==
    LET members == Cardinality(team.members) IN (Tickets[team.list] + members - 1) \div members

\* slip: the characters the directory does not know are left out.
AppliesToKnown(d, l) ==
    /\ snapshots[d] # Nothing
    /\ \A s, t \in Eligible(d, l) : s = t \/ s.members \cap t.members = {}

\* A character in two teams, or without exactly one account, refuses the list.
Applies(d, l) ==
    /\ snapshots[d] # Nothing
    /\ \A s, t \in Eligible(d, l) : s = t \/ s.members \cap t.members = {}
    /\ UNION {team.members : team \in Eligible(d, l)} \subseteq known

\* saveApprovedBatch skips a key that has an order.
Granted(d, l) ==
    [k \in Key |->
        IF k.date = d /\ k.list = l /\ granted[k] = 0 /\ k.character \in known
           /\ \E team \in Eligible(d, l) : k.character \in team.members
        THEN Share(CHOOSE team \in Eligible(d, l) : k.character \in team.members)
        ELSE granted[k]]

\* The page applies for the day whose teams it shows.
ApplyRewards(l) ==
    /\ running
    /\ page.shown # Nothing /\ ~page.loading
    /\ Applies(page.shown, l)
    /\ granted' = Granted(page.shown, l)
    /\ page' = [page EXCEPT !.loading = TRUE]
    /\ UNCHANGED <<clock, known, clears, snapshots, link, checks, scheduler>>

\* Another day is chosen: what was asked for before is aborted.
ChangeDate(d) ==
    /\ page.date # d
    /\ page' = [page EXCEPT !.date = d, !.loading = TRUE]
    /\ UNCHANGED <<clock, rewardTables, checks, scheduler>>

\* An answer shows the day, a failure leaves the teams that were there.
Loaded ==
    /\ page.loading
    /\ \E shown \in {page.date, page.shown} :
         page' = [page EXCEPT !.shown = shown, !.loading = FALSE]
    /\ UNCHANGED <<clock, rewardTables, checks, scheduler>>

PageStep ==
    \/ \E d \in RewardDays : ChangeDate(d)
    \/ Loaded
    \/ \E l \in Lists : ApplyRewards(l)

ImportStep ==
    \/ \E file \in ClearFiles : ImportClears(file)
    \/ \E directory \in Directories : ReplaceDirectory(directory)

RewardsNext == Tick \/ SchedulerStep \/ LinkStep \/ ImportStep \/ PageStep

RewardsSpec == RewardsInit /\ [][RewardsNext]_rewardVars

\* Timers fire, pulls end, and a player service asked often enough answers.
RewardsFairSpec == RewardsSpec /\ WF_rewardVars(Fire) /\ WF_rewardVars(PullFails) /\ SF_rewardVars(PullSucceeds)

----------------------------------------------------------------------------
\* Every reward is the share of a team of that day and list, one of whose
\* members cleared the boss (project: canApply, apply-rewards: quantity),
\* whichever player service the teams came from and however often they were
\* pulled again.
RewardsAreEarned ==
    \A k \in Key : granted[k] # 0 =>
        \E mode \in Modes : \E team \in Rosters[mode][k.date] :
            /\ team.list = k.list
            /\ k.character \in team.members
            /\ team.members \cap ClearedOf(k.date, k.list) # {}
            /\ granted[k] = Share(team)

\* Applying grants to all eligible teams as the tables have them, or to none,
\* and never touches a reward that was granted (applyTeamRewards,
\* saveApprovedBatch).
GrantsAreWhole ==
    [][/\ \A k \in Key : granted[k] # 0 => granted'[k] = granted[k]
       /\ \A k \in Key : granted[k] = 0 /\ granted'[k] # 0 =>
            \A team \in Eligible(k.date, k.list) : \A c \in team.members :
                granted'[[date |-> k.date, list |-> k.list, character |-> c]] # 0]_rewardVars

\* While the connection is switched off no pull goes on (connectionChanged,
\* canSync), so that no snapshot is saved.
DisabledIsQuiet == ~link.enabled => pending = Nothing \/ pending.aborted

\* Nothing is granted without a clear, and nothing pulled while switched off.
RewardsAreSound == RewardsTypeOK /\ RewardsAreEarned /\ DisabledIsQuiet

\* The teams of a day that lasts are pulled in the end, whatever was switched,
\* aborted or restarted before, if the connection stays on.
DayIsFetched ==
    <>[](running /\ link.enabled /\ clock = LastClock) => <>(snapshots[LastDay] # Nothing)
====
