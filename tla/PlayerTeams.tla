----------------------------- MODULE PlayerTeams -----------------------------
(***************************************************************************)
(* The player service: teams for the two daily bosses, applications to     *)
(* join them, whole-team mergers, and the day that locks at midnight.      *)
(*                                                                         *)
(* A handler takes the day from the clock, then reads and writes in one    *)
(* SQLite transaction.  The database runs in WAL mode: of two transactions *)
(* that overlap, one that read what the other changed cannot write, and    *)
(* answers internal-error.  So a handler is two steps: the request with    *)
(* its day, and the transaction, which changes everything or nothing.      *)
(*                                                                         *)
(* Abstractions.  The accounts are those of one game server: join and      *)
(* merge refuse anything else.  An invite code and a request id name what  *)
(* they were made for.  The character an account plays is left out, and    *)
(* with it the replacement of one in a pending application.                *)
(***************************************************************************)
EXTENDS Integers, FiniteSets

CONSTANTS
    Accounts,       \* player_accounts of one server
    Teams,          \* ids of player_teams
    Bosses,
    Requests,       \* HTTP requests in flight
    MaxMembers,     \* 10 in the code
    MaxDay,         \* bound: midnights
    None

ASSUME NoneAssumption == None \notin Accounts \cup Teams \cup Bosses \cup Nat
ASSUME BoundsAssumption == MaxMembers \in Nat \ {0} /\ MaxDay \in Nat

VARIABLES
    today,          \* businessDay(now), the Beijing date
    request,        \* the day each request in flight registers for, or None
    teams,          \* player_teams
    members,        \* player_team_members
    applications,   \* player_team_applications: UNIQUE(team_id, account_id)
    merges          \* player_team_merge_applications: UNIQUE(source, target)

tables == <<teams, members, applications, merges>>
vars == <<today, request, tables>>

Days == 1..(MaxDay + 1)

Team == [status : {"absent", "active", "merged"},
         boss   : Bosses \cup {None},
         leader : Accounts \cup {None},
         day    : Days \cup {0},
         into   : Teams \cup {None}]

NoTeam == [status |-> "absent", boss |-> None, leader |-> None, day |-> 0, into |-> None]

TypeOK ==
    /\ today \in 0..MaxDay
    /\ request \in [Requests -> Days \cup {None}]
    /\ teams \in [Teams -> Team]
    /\ members \subseteq Teams \X Accounts
    /\ applications \in [Teams \X Accounts -> {"none", "pending", "approved", "rejected"}]
    /\ merges \in [Teams \X Teams -> {"none", "pending", "approved"}]

Init ==
    /\ today = 0
    /\ request = [r \in Requests |-> None]
    /\ teams = [t \in Teams |-> NoTeam]
    /\ members = {}
    /\ applications = [p \in Teams \X Accounts |-> "none"]
    /\ merges = [p \in Teams \X Teams |-> "none"]

-----------------------------------------------------------------------------
(* Queries.                                                                *)

Active(t) == teams[t].status = "active"

SameList(t, u) == teams[t].boss = teams[u].boss /\ teams[t].day = teams[u].day

(* leaderExists *)
LeadsTeam(a, boss, day) ==
    \E t \in Teams : Active(t) /\ teams[t].leader = a /\ teams[t].boss = boss /\ teams[t].day = day

(* membershipExists; also the index one_active_boss_team_per_account.       *)
InTeam(a, boss, day) ==
    \E t \in Teams : <<t, a>> \in members /\ teams[t].boss = boss /\ teams[t].day = day

MembersOf(t) == {a \in Accounts : <<t, a>> \in members}

RoomForOneMore(t) == Cardinality(MembersOf(t)) <= MaxMembers   \* slip: off by one
HasRoom(t) == Cardinality(MembersOf(t)) < MaxMembers

FitTogether(s, t) == Cardinality(MembersOf(s)) + Cardinality(MembersOf(t)) <= MaxMembers

(* closePendingApplications for the accounts as, on the list of team t,     *)
(* after the table has become apps.                                         *)
Close(apps, as, t) ==
    [p \in DOMAIN apps |->
        IF p[2] \in as /\ SameList(p[1], t) /\ apps[p] = "pending" THEN "rejected" ELSE apps[p]]

-----------------------------------------------------------------------------
(* The clock, and a request up to its transaction.                         *)

Tomorrow == today + 1

Midnight ==
    /\ today < MaxDay
    /\ today' = today + 1
    /\ UNCHANGED <<request, tables>>

Arrives(r) ==
    /\ request[r] = None
    /\ request' = [request EXCEPT ![r] = Tomorrow]
    /\ UNCHANGED <<today, tables>>

Answered(r) == /\ request[r] # None
               /\ request' = [request EXCEPT ![r] = None]
               /\ UNCHANGED today

(* Any of the guards below fails, or the database does: rolled back.       *)
Refused(r) == Answered(r) /\ UNCHANGED tables

-----------------------------------------------------------------------------
(* teamsPost.  It checks nothing: the index refuses the leader's row.       *)
CreateTeam(r, a, boss, t) ==
    /\ Answered(r)
    /\ teams[t].status = "absent"
    /\ ~InTeam(a, boss, request[r])
    /\ teams' = [teams EXCEPT ![t] = [status |-> "active", boss |-> boss, leader |-> a,
                                      day |-> request[r], into |-> None]]
    /\ members' = members \cup {<<t, a>>}
    /\ applications' = [p \in DOMAIN applications |->
            IF /\ p[2] = a /\ applications[p] = "pending"
               /\ teams[p[1]].boss = boss /\ teams[p[1]].day = request[r]
            THEN "rejected" ELSE applications[p]]
    /\ UNCHANGED merges

Join(r, a, t) ==
    /\ Answered(r)
    /\ Active(t) /\ teams[t].day = request[r]
    /\ ~LeadsTeam(a, teams[t].boss, request[r])
    /\ ~InTeam(a, teams[t].boss, request[r])
    /\ applications[<<t, a>>] # "pending"
    /\ HasRoom(t)
    /\ applications' = [applications EXCEPT ![<<t, a>>] = "pending"]
    /\ UNCHANGED <<teams, members, merges>>

(* approveJoin, by the leader of t.  It does not look at the team's status. *)
ApproveJoin(r, t, a) ==
    /\ Answered(r)
    /\ applications[<<t, a>>] = "pending" /\ teams[t].day = request[r]
    /\ ~InTeam(a, teams[t].boss, request[r])
    /\ HasRoom(t)
    /\ members' = members \cup {<<t, a>>}
    /\ applications' = Close([applications EXCEPT ![<<t, a>>] = "approved"], {a}, t)
    /\ UNCHANGED <<teams, merges>>

RejectJoin(r, t, a) ==
    /\ Answered(r)
    /\ applications[<<t, a>>] = "pending" /\ teams[t].day = request[r] /\ Active(t)
    /\ applications' = [applications EXCEPT ![<<t, a>>] = "rejected"]
    /\ UNCHANGED <<teams, members, merges>>

Left(t, a) == [applications EXCEPT ![<<t, a>>] = IF @ = "approved" THEN "rejected" ELSE @]

LeaveTeam(r, a, t) ==
    /\ Answered(r)
    /\ Active(t) /\ teams[t].day = request[r]
    /\ teams[t].leader # a
    /\ <<t, a>> \in members
    /\ members' = members \ {<<t, a>>}
    /\ applications' = Left(t, a)
    /\ UNCHANGED <<teams, merges>>

-----------------------------------------------------------------------------
(* Whole-team mergers.                                                     *)

(* mergeTeam, by the leader of s.                                          *)
MergeTeam(r, s, t) ==
    /\ Answered(r)
    /\ s # t
    /\ Active(t) /\ teams[t].day = request[r]
    /\ Active(s) /\ teams[s].day = request[r]
    /\ teams[t].leader # teams[s].leader
    /\ teams[s].boss = teams[t].boss
    /\ FitTogether(s, t)
    /\ merges[<<s, t>>] = "none"
    /\ merges' = [merges EXCEPT ![<<s, t>>] = "pending"]
    /\ UNCHANGED <<teams, members, applications>>

BothActive(s, t) == Active(s) /\ Active(t)

Deleted(s, t) == members \ {<<s, a>> : a \in Accounts}     \* slip: the rows are read once they are gone
Moved(s, t) == (members \ {<<s, a>> : a \in Accounts}) \cup {<<t, a>> : a \in MembersOf(s)}

ClosedForMembers(s, t) == Close(applications, MembersOf(s), t)  \* slip: the source keeps its applicants
ClosedByMerge(s, t) ==
    [p \in DOMAIN applications |->
        IF p[1] = s /\ applications[p] = "pending" THEN "rejected"
                                                   ELSE Close(applications, MembersOf(s), t)[p]]

(* approveMerge, by the leader of t.                                       *)
ApproveMerge(r, s, t) ==
    /\ Answered(r)
    /\ merges[<<s, t>>] = "pending" /\ teams[t].day = request[r]
    /\ BothActive(s, t)
    /\ FitTogether(s, t)
    /\ members' = Moved(s, t)
    /\ applications' = ClosedByMerge(s, t)
    /\ teams' = [teams EXCEPT ![s].status = "merged", ![s].into = t]
    /\ merges' = [merges EXCEPT ![<<s, t>>] = "approved"]

-----------------------------------------------------------------------------
Transaction(r) ==
    \/ Refused(r)
    \/ \E a \in Accounts, t \in Teams :
          \/ \E boss \in Bosses : CreateTeam(r, a, boss, t)
          \/ Join(r, a, t) \/ ApproveJoin(r, t, a) \/ RejectJoin(r, t, a) \/ LeaveTeam(r, a, t)
    \/ \E s, t \in Teams : MergeTeam(r, s, t) \/ ApproveMerge(r, s, t)

Next == Midnight \/ \E r \in Requests : Arrives(r) \/ Transaction(r)

Spec == Init /\ [][Next]_vars

-----------------------------------------------------------------------------
(* Properties.                                                             *)

(* No team grows over its limit, by approvals of applications made while   *)
(* there was room, by a merger agreed on while both were smaller, or both. *)
TeamFits == \A t \in Teams : Cardinality(MembersOf(t)) <= MaxMembers

(* Nobody is in two teams for one boss on one day, however applications,   *)
(* mergers and teams of their own overlap (team_queries.go:158-164).       *)
OneTeamPerBossAndDay ==
    \A t, u \in Teams, a \in Accounts :
        <<t, a>> \in members /\ <<u, a>> \in members /\ SameList(t, u) => t = u

(* Only active teams have members, and their leader is one of them: a      *)
(* merger moves everybody, its leader included, who may then leave.        *)
LeadersBelong ==
    /\ \A p \in members : Active(p[1])
    /\ \A t \in Teams : Active(t) => <<t, teams[t].leader>> \in members

(* Who is in which team, over any mixture of applications and mergers.     *)
MembershipIsSound == TypeOK /\ TeamFits /\ OneTeamPerBossAndDay /\ LeadersBelong

(* A pending application can still be decided: its team is active, which   *)
(* approveJoin does not check, and its applicant has no team for that boss *)
(* and day, so that no leader sees one that only fails (teams.go:231-243). *)
PendingCanBeDecided ==
    \A t \in Teams, a \in Accounts : applications[<<t, a>>] = "pending" =>
        Active(t) /\ ~InTeam(a, teams[t].boss, teams[t].day)

(* While a team stands, its approved applicants are its members: leaving   *)
(* and what happens afterwards never leave an approval behind.             *)
ApprovedBelong ==
    \A t \in Teams, a \in Accounts :
        Active(t) /\ applications[<<t, a>>] = "approved" => <<t, a>> \in members

(* A merged team went into another one of its boss and day, which stands   *)
(* or was itself merged on; never in a circle, so that everybody ends up   *)
(* in an active team.                                                      *)
MergersEndInATeam ==
    LET Merged == {t \in Teams : teams[t].status = "merged"}
    IN  /\ \A t \in Merged : /\ teams[t].into \in Teams
                            /\ teams[teams[t].into].status # "absent"
                            /\ SameList(t, teams[t].into)
        /\ \A S \in SUBSET Merged : S # {} => \E t \in S : teams[t].into \notin S

(* What was asked for can be decided, and what was decided is still so.    *)
RequestsAreDecidable == PendingCanBeDecided /\ ApprovedBelong /\ MergersEndInATeam

(* A member leaves a team only by leaving it, or with all of it.           *)
NobodyIsLost ==
    [][\A p \in members \ members' :
          \/ \E r \in Requests : LeaveTeam(r, p[2], p[1])
          \/ teams'[p[1]].status = "merged" /\ <<teams'[p[1]].into, p[2]>> \in members']_vars

(* Who leaves a team has no approved application for that boss and day     *)
(* left.  Not so for those who came with a merger.                         *)
LeavingIsRecorded ==
    \A t \in Teams, a \in Accounts :
        applications[<<t, a>>] = "approved" => InTeam(a, teams[t].boss, teams[t].day)
=============================================================================
