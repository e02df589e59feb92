------------------------- MODULE PlayerTeams_proofs -------------------------
(***************************************************************************)
(* Proofs about PlayerTeams for any accounts, teams, bosses, requests and  *)
(* bounds.  The properties of the tables hold together only: IInv is their *)
(* conjunction with two facts about rows that refer to a team.  Each       *)
(* operation has a lemma with one step per part it can disturb.  The       *)
(* rewards of the teams' members, Rewards, follow at the end.              *)
(***************************************************************************)
EXTENDS PlayerTeams, Rewards, FiniteSetTheorems, TLAPS

(* Nobody applied to a team that was not created yet.                      *)
AbsentIsEmpty ==
    \A t \in Teams, a \in Accounts :
        teams[t].status = "absent" => applications[<<t, a>>] = "none"

(* A merger is asked for between two teams of one list, which approveMerge *)
(* relies on without looking at the boss again.                            *)
MergersFit ==
    \A s, t \in Teams : merges[<<s, t>>] = "pending" =>
        /\ s # t /\ SameList(s, t)
        /\ teams[s].status # "absent" /\ teams[t].status # "absent"

Rows == OneTeamPerBossAndDay /\ LeadersBelong
Decisions == PendingCanBeDecided /\ ApprovedBelong /\ AbsentIsEmpty
Mergers == MergersFit /\ MergersEndInATeam
IInv == TypeOK /\ Rows /\ Decisions /\ Mergers

-----------------------------------------------------------------------------
(* What closing applications leaves of one of them.                        *)
LEMMA CloseAt ==
    ASSUME TypeOK, NEW apps \in [Teams \X Accounts -> {"none", "pending", "approved", "rejected"}],
           NEW as, NEW u \in Teams, NEW t \in Teams, NEW a \in Accounts
    PROVE  /\ Close(apps, as, u) \in [Teams \X Accounts -> {"none", "pending", "approved", "rejected"}]
           /\ Close(apps, as, u)[<<t, a>>] =
                 IF a \in as /\ SameList(t, u) /\ apps[<<t, a>>] = "pending" THEN "rejected"
                                                                              ELSE apps[<<t, a>>]
BY DEF Close

(* The empty tables satisfy the invariant.                                 *)
LEMMA InitInv == Init => IInv
BY BoundsAssumption DEF Init, IInv, TypeOK, Rows, Decisions, Mergers, OneTeamPerBossAndDay,
   LeadersBelong, PendingCanBeDecided, ApprovedBelong, AbsentIsEmpty, MergersFit,
   MergersEndInATeam, Active, NoTeam, Team, Days

(* A step that changes no table keeps what is said of the tables.          *)
LEMMA TablesUnchanged ==
    ASSUME IInv, UNCHANGED tables, today' \in 0..MaxDay,
           request' \in [Requests -> Days \cup {None}]
    PROVE  IInv'
<1>1. teams' = teams /\ members' = members /\ applications' = applications /\ merges' = merges
  BY DEF tables
<1>2. TypeOK'
  BY <1>1 DEF IInv, TypeOK
<1>3. Rows'
  BY <1>1 DEF IInv, Rows, OneTeamPerBossAndDay, LeadersBelong, Active, SameList
<1>4. Decisions'
  BY <1>1 DEF IInv, Decisions, PendingCanBeDecided, ApprovedBelong, AbsentIsEmpty, Active, InTeam
<1>5. Mergers'
  BY <1>1 DEF IInv, Mergers, MergersFit, MergersEndInATeam, SameList
<1> QED BY <1>2, <1>3, <1>4, <1>5 DEF IInv

(* The clock and the requests keep the invariant.                          *)
LEMMA ClockInv ==
    ASSUME IInv, Midnight \/ \E r \in Requests : Arrives(r) \/ Refused(r)
    PROVE  IInv'
<1>1. UNCHANGED tables /\ today' \in 0..MaxDay /\ request' \in [Requests -> Days \cup {None}]
  BY BoundsAssumption DEF IInv, TypeOK, Midnight, Arrives, Refused, Answered, Tomorrow, Days, tables
<1> QED BY <1>1, TablesUnchanged

(* An answered request leaves the clock and the requests well typed.       *)
LEMMA AnsweredTyped ==
    ASSUME TypeOK, NEW r \in Requests, Answered(r)
    PROVE  /\ today' \in 0..MaxDay /\ request' \in [Requests -> Days \cup {None}]
           /\ request[r] \in Days
BY DEF TypeOK, Answered

-----------------------------------------------------------------------------
(* A new team has its leader for a member, takes the applications of the   *)
(* leader off the list, and finds no row that refers to it.                *)
LEMMA CreateInv ==
    ASSUME IInv, NEW r \in Requests, NEW a \in Accounts, NEW boss \in Bosses, NEW t \in Teams,
           CreateTeam(r, a, boss, t)
    PROVE  IInv'
<1> DEFINE new == [status |-> "active", boss |-> boss, leader |-> a, day |-> request[r], into |-> None]
<1>1. /\ request[r] \in Days /\ today' \in 0..MaxDay /\ request' \in [Requests -> Days \cup {None}]
  BY AnsweredTyped DEF CreateTeam, IInv
<1>2. /\ teams[t].status = "absent"
      /\ teams' = [teams EXCEPT ![t] = new]
      /\ members' = members \cup {<<t, a>>}
      /\ merges' = merges
      /\ ~InTeam(a, boss, request[r])
  BY DEF CreateTeam
<1>3. /\ new \in Team
      /\ teams' \in [Teams -> Team] /\ teams'[t] = new
      /\ \A u \in Teams \ {t} : teams'[u] = teams[u]
  BY <1>1, <1>2 DEF IInv, TypeOK, Team
<1>4. /\ applications' \in [Teams \X Accounts -> {"none", "pending", "approved", "rejected"}]
      /\ \A u \in Teams, b \in Accounts :
            applications'[<<u, b>>] =
               IF /\ b = a /\ applications[<<u, b>>] = "pending"
                  /\ teams[u].boss = boss /\ teams[u].day = request[r]
               THEN "rejected" ELSE applications[<<u, b>>]
  BY DEF CreateTeam, IInv, TypeOK
<1>5. TypeOK'
  BY <1>1, <1>2, <1>3, <1>4 DEF IInv, TypeOK
<1>6. \A b \in Accounts : <<t, b>> \notin members
  BY <1>2 DEF IInv, Rows, LeadersBelong, Active
<1>7. Rows'
  <2>1. OneTeamPerBossAndDay'
    BY <1>2, <1>3, <1>6 DEF IInv, Rows, OneTeamPerBossAndDay, SameList, InTeam
  <2>2. LeadersBelong'
    BY <1>2, <1>3 DEF IInv, TypeOK, Rows, LeadersBelong, Active
  <2> QED BY <2>1, <2>2 DEF Rows
<1>8. Decisions'
  <2>1. PendingCanBeDecided'
    <3> SUFFICES ASSUME NEW u \in Teams, NEW b \in Accounts, applications'[<<u, b>>] = "pending"
                 PROVE  /\ Active(u)'
                        /\ \A v \in Teams : <<v, b>> \in members' => ~SameList(v, u)'
      BY DEF PendingCanBeDecided, InTeam, SameList
    <3>1. /\ applications[<<u, b>>] = "pending" /\ u # t
          /\ ~(b = a /\ teams[u].boss = boss /\ teams[u].day = request[r])
      BY <1>2, <1>4 DEF IInv, Decisions, AbsentIsEmpty
    <3>2. Active(u) /\ \A v \in Teams : <<v, b>> \in members => ~SameList(v, u)
      BY <3>1 DEF IInv, Decisions, PendingCanBeDecided, InTeam, SameList
    <3> QED BY <1>2, <1>3, <1>6, <3>1, <3>2 DEF Active, SameList
  <2>2. ApprovedBelong' /\ AbsentIsEmpty'
    BY <1>2, <1>3, <1>4 DEF IInv, Decisions, ApprovedBelong, AbsentIsEmpty, Active
  <2> QED BY <2>1, <2>2 DEF Decisions
<1>9. Mergers'
  <2>1. MergersFit'
    BY <1>2, <1>3 DEF IInv, Mergers, MergersFit, SameList
  <2>2. MergersEndInATeam'
    BY <1>2, <1>3 DEF IInv, Mergers, MergersEndInATeam, SameList
  <2> QED BY <2>1, <2>2 DEF Mergers
<1> QED BY <1>5, <1>7, <1>8, <1>9 DEF IInv

(* An application is made for an active team by somebody in no team.       *)
LEMMA JoinInv ==
    ASSUME IInv, NEW r \in Requests, NEW a \in Accounts, NEW t \in Teams, Join(r, a, t)
    PROVE  IInv'
<1>1. /\ today' \in 0..MaxDay /\ request' \in [Requests -> Days \cup {None}]
  BY AnsweredTyped DEF Join, IInv
<1>2. /\ UNCHANGED <<teams, members, merges>>
      /\ applications' = [applications EXCEPT ![<<t, a>>] = "pending"]
      /\ Active(t) /\ ~InTeam(a, teams[t].boss, teams[t].day)
  BY DEF Join
<1>3. TypeOK'
  BY <1>1, <1>2 DEF IInv, TypeOK
<1>4. Rows'
  BY <1>2 DEF IInv, Rows, OneTeamPerBossAndDay, LeadersBelong, Active, SameList
<1>5. Decisions'
  <2>1. \A u \in Teams, b \in Accounts :
           applications'[<<u, b>>] = IF u = t /\ b = a THEN "pending" ELSE applications[<<u, b>>]
    BY <1>2 DEF IInv, TypeOK
  <2>2. PendingCanBeDecided'
    <3> SUFFICES ASSUME NEW u \in Teams, NEW b \in Accounts, applications'[<<u, b>>] = "pending"
                 PROVE  Active(u) /\ ~InTeam(b, teams[u].boss, teams[u].day)
      BY <1>2 DEF PendingCanBeDecided, Active, InTeam
    <3> QED BY <1>2, <2>1 DEF IInv, Decisions, PendingCanBeDecided
  <2>3. ApprovedBelong' /\ AbsentIsEmpty'
    BY <1>2, <2>1 DEF IInv, Decisions, ApprovedBelong, AbsentIsEmpty, Active
  <2> QED BY <2>2, <2>3 DEF Decisions
<1>6. Mergers'
  BY <1>2 DEF IInv, Mergers, MergersFit, MergersEndInATeam, SameList
<1> QED BY <1>3, <1>4, <1>5, <1>6 DEF IInv

(* An approved applicant is in no other team of the list, and all their    *)
(* other applications of the list are closed.                              *)
LEMMA ApproveInv ==
    ASSUME IInv, NEW r \in Requests, NEW t \in Teams, NEW a \in Accounts, ApproveJoin(r, t, a)
    PROVE  IInv'
<1>1. /\ today' \in 0..MaxDay /\ request' \in [Requests -> Days \cup {None}]
  BY AnsweredTyped DEF ApproveJoin, IInv
<1>2. /\ UNCHANGED <<teams, merges>>
      /\ members' = members \cup {<<t, a>>}
      /\ applications[<<t, a>>] = "pending"
      /\ ~InTeam(a, teams[t].boss, teams[t].day)
      /\ Active(t)
  BY DEF ApproveJoin, IInv, Decisions, PendingCanBeDecided
<1>3. /\ applications' \in [Teams \X Accounts -> {"none", "pending", "approved", "rejected"}]
      /\ applications'[<<t, a>>] = "approved"
      /\ \A u \in Teams, b \in Accounts :
            <<u, b>> # <<t, a>> =>
               applications'[<<u, b>>] =
                  IF b = a /\ SameList(u, t) /\ applications[<<u, b>>] = "pending"
                  THEN "rejected" ELSE applications[<<u, b>>]
  <2> DEFINE apps == [applications EXCEPT ![<<t, a>>] = "approved"]
  <2>1. /\ apps \in [Teams \X Accounts -> {"none", "pending", "approved", "rejected"}]
        /\ apps[<<t, a>>] = "approved"
        /\ \A u \in Teams, b \in Accounts : <<u, b>> # <<t, a>> => apps[<<u, b>>] = applications[<<u, b>>]
    BY DEF IInv, TypeOK
  <2>2. applications' = Close(apps, {a}, t)
    BY DEF ApproveJoin
  <2>3. TypeOK
    BY DEF IInv
  <2> HIDE DEF apps
  <2>4. /\ applications' \in [Teams \X Accounts -> {"none", "pending", "approved", "rejected"}]
        /\ \A u \in Teams, b \in Accounts :
              applications'[<<u, b>>] =
                 IF b \in {a} /\ SameList(u, t) /\ apps[<<u, b>>] = "pending" THEN "rejected"
                                                                            ELSE apps[<<u, b>>]
    BY <2>1, <2>2, <2>3, CloseAt
  <2> QED BY <2>1, <2>4
<1>4. TypeOK'
  BY <1>1, <1>2, <1>3 DEF IInv, TypeOK
<1>5. Rows'
  <2>1. OneTeamPerBossAndDay'
    BY <1>2 DEF IInv, Rows, OneTeamPerBossAndDay, SameList, InTeam
  <2>2. LeadersBelong'
    BY <1>2 DEF IInv, Rows, LeadersBelong, Active
  <2> QED BY <2>1, <2>2 DEF Rows
<1>6. Decisions'
  <2>1. PendingCanBeDecided'
    <3> SUFFICES ASSUME NEW u \in Teams, NEW b \in Accounts, applications'[<<u, b>>] = "pending"
                 PROVE  /\ Active(u)
                        /\ \A v \in Teams : <<v, b>> \in members' => ~SameList(v, u)
      BY <1>2 DEF PendingCanBeDecided, InTeam, Active, SameList
    <3>1. /\ applications[<<u, b>>] = "pending" /\ <<u, b>> # <<t, a>>
          /\ ~(b = a /\ SameList(u, t))
      BY <1>2, <1>3
    <3>2. Active(u) /\ \A v \in Teams : <<v, b>> \in members => ~SameList(v, u)
      BY <3>1 DEF IInv, Decisions, PendingCanBeDecided, InTeam, SameList
    <3> QED BY <1>2, <3>1, <3>2 DEF SameList
  <2>2. ApprovedBelong' /\ AbsentIsEmpty'
    BY <1>2, <1>3 DEF IInv, Decisions, ApprovedBelong, AbsentIsEmpty, Active
  <2> QED BY <2>1, <2>2 DEF Decisions
<1>7. Mergers'
  BY <1>2 DEF IInv, Mergers, MergersFit, MergersEndInATeam, SameList
<1> QED BY <1>4, <1>5, <1>6, <1>7 DEF IInv

(* A rejection closes one application.                                     *)
LEMMA RejectInv ==
    ASSUME IInv, NEW r \in Requests, NEW t \in Teams, NEW a \in Accounts, RejectJoin(r, t, a)
    PROVE  IInv'
<1>1. /\ today' \in 0..MaxDay /\ request' \in [Requests -> Days \cup {None}]
  BY AnsweredTyped DEF RejectJoin, IInv
<1>2. /\ UNCHANGED <<teams, members, merges>>
      /\ applications' = [applications EXCEPT ![<<t, a>>] = "rejected"]
      /\ applications[<<t, a>>] = "pending"
  BY DEF RejectJoin
<1>3. \A u \in Teams, b \in Accounts :
         \/ applications'[<<u, b>>] = applications[<<u, b>>]
         \/ applications'[<<u, b>>] = "rejected" /\ applications[<<u, b>>] = "pending"
  BY <1>2 DEF IInv, TypeOK
<1>4. TypeOK'
  BY <1>1, <1>2 DEF IInv, TypeOK
<1>5. Rows'
  BY <1>2 DEF IInv, Rows, OneTeamPerBossAndDay, LeadersBelong, Active, SameList
<1>6. Decisions'
  <2>1. PendingCanBeDecided'
    <3> SUFFICES ASSUME NEW u \in Teams, NEW b \in Accounts, applications'[<<u, b>>] = "pending"
                 PROVE  Active(u) /\ ~InTeam(b, teams[u].boss, teams[u].day)
      BY <1>2 DEF PendingCanBeDecided, Active, InTeam
    <3>1. applications[<<u, b>>] = "pending"
      BY <1>3
    <3> QED BY <3>1 DEF IInv, Decisions, PendingCanBeDecided
  <2>2. ApprovedBelong' /\ AbsentIsEmpty'
    <3>1. \A u \in Teams, b \in Accounts :
             /\ applications'[<<u, b>>] = "approved" => applications[<<u, b>>] = "approved"
             /\ applications[<<u, b>>] = "none" => applications'[<<u, b>>] = "none"
      BY <1>3
    <3> QED BY <1>2, <3>1 DEF IInv, Decisions, ApprovedBelong, AbsentIsEmpty, Active
  <2> QED BY <2>1, <2>2 DEF Decisions
<1>7. Mergers'
  BY <1>2 DEF IInv, Mergers, MergersFit, MergersEndInATeam, SameList
<1> QED BY <1>4, <1>5, <1>6, <1>7 DEF IInv

(* A member who is not the leader leaves, and their approval with them.    *)
LEMMA LeaveInv ==
    ASSUME IInv, NEW r \in Requests, NEW a \in Accounts, NEW t \in Teams, LeaveTeam(r, a, t)
    PROVE  IInv'
<1>1. /\ today' \in 0..MaxDay /\ request' \in [Requests -> Days \cup {None}]
  BY AnsweredTyped DEF LeaveTeam, IInv
<1>2. /\ UNCHANGED <<teams, merges>>
      /\ members' = members \ {<<t, a>>}
      /\ teams[t].leader # a
  BY DEF LeaveTeam
<1>3. /\ applications' \in [Teams \X Accounts -> {"none", "pending", "approved", "rejected"}]
      /\ applications'[<<t, a>>] # "approved"
      /\ \A u \in Teams, b \in Accounts :
            \/ applications'[<<u, b>>] = applications[<<u, b>>]
            \/ applications'[<<u, b>>] = "rejected" /\ applications[<<u, b>>] = "approved"
  BY DEF LeaveTeam, Left, IInv, TypeOK
<1>4. TypeOK'
  BY <1>1, <1>2, <1>3 DEF IInv, TypeOK
<1>5. Rows'
  BY <1>2 DEF IInv, Rows, OneTeamPerBossAndDay, LeadersBelong, Active, SameList
<1>6. Decisions'
  <2>1. PendingCanBeDecided'
    <3> SUFFICES ASSUME NEW u \in Teams, NEW b \in Accounts, applications'[<<u, b>>] = "pending"
                 PROVE  Active(u)' /\ ~InTeam(b, teams[u].boss, teams[u].day)'
      BY DEF PendingCanBeDecided
    <3>1. applications[<<u, b>>] = "pending"
      BY <1>3
    <3>2. Active(u) /\ ~InTeam(b, teams[u].boss, teams[u].day)
      BY <3>1 DEF IInv, Decisions, PendingCanBeDecided
    <3> QED BY <1>2, <3>2 DEF Active, InTeam
  <2>2. ApprovedBelong' /\ AbsentIsEmpty'
    BY <1>2, <1>3 DEF IInv, Decisions, ApprovedBelong, AbsentIsEmpty, Active
  <2> QED BY <2>1, <2>2 DEF Decisions
<1>7. Mergers'
  BY <1>2 DEF IInv, Mergers, MergersFit, MergersEndInATeam, SameList
<1> QED BY <1>4, <1>5, <1>6, <1>7 DEF IInv

(* A merger is asked for between two active teams of one list.             *)
LEMMA AskMergerInv ==
    ASSUME IInv, NEW r \in Requests, NEW s \in Teams, NEW t \in Teams, MergeTeam(r, s, t)
    PROVE  IInv'
<1>1. /\ today' \in 0..MaxDay /\ request' \in [Requests -> Days \cup {None}]
  BY AnsweredTyped DEF MergeTeam, IInv
<1>2. /\ UNCHANGED <<teams, members, applications>>
      /\ merges' = [merges EXCEPT ![<<s, t>>] = "pending"]
      /\ s # t /\ SameList(s, t) /\ Active(s) /\ Active(t)
  BY DEF MergeTeam, SameList
<1>3. TypeOK'
  BY <1>1, <1>2 DEF IInv, TypeOK
<1>4. Rows'
  BY <1>2 DEF IInv, Rows, OneTeamPerBossAndDay, LeadersBelong, Active, SameList
<1>5. Decisions'
  BY <1>2 DEF IInv, Decisions, PendingCanBeDecided, ApprovedBelong, AbsentIsEmpty, Active, InTeam
<1>6. Mergers'
  <2>1. \A u, v \in Teams : merges'[<<u, v>>] = IF u = s /\ v = t THEN "pending" ELSE merges[<<u, v>>]
    BY <1>2 DEF IInv, TypeOK
  <2>2. MergersFit'
    BY <1>2, <2>1 DEF IInv, Mergers, MergersFit, SameList, Active
  <2>3. MergersEndInATeam'
    BY <1>2 DEF IInv, Mergers, MergersEndInATeam, SameList
  <2> QED BY <2>2, <2>3 DEF Mergers
<1> QED BY <1>3, <1>4, <1>5, <1>6 DEF IInv

(* A merger moves every member from one active team to another of the same *)
(* list, and closes what the members and the source had pending.           *)
LEMMA MergeInv ==
    ASSUME IInv, NEW r \in Requests, NEW s \in Teams, NEW t \in Teams, ApproveMerge(r, s, t)
    PROVE  IInv'
<1>1. /\ today' \in 0..MaxDay /\ request' \in [Requests -> Days \cup {None}]
  BY AnsweredTyped DEF ApproveMerge, IInv
<1>2. /\ merges' = [merges EXCEPT ![<<s, t>>] = "approved"]
      /\ s # t /\ SameList(s, t) /\ Active(s) /\ Active(t)
  BY DEF ApproveMerge, BothActive, IInv, Mergers, MergersFit
<1>3. /\ teams' \in [Teams -> Team]
      /\ teams'[s].status = "merged" /\ teams'[s].into = t
      /\ teams'[s].boss = teams[s].boss /\ teams'[s].day = teams[s].day
      /\ \A u \in Teams \ {s} : teams'[u] = teams[u]
  <2> DEFINE row == [teams[s] EXCEPT !.status = "merged", !.into = t]
  <2>1. teams \in [Teams -> Team] /\ teams[s] \in Team
    BY DEF IInv, TypeOK
  <2>2. /\ row \in Team /\ row.status = "merged" /\ row.into = t
        /\ row.boss = teams[s].boss /\ row.day = teams[s].day
    BY <2>1 DEF Team
  <2>3. teams' = [teams EXCEPT ![s] = row]
    BY <2>1 DEF ApproveMerge
  <2> HIDE DEF row
  <2> QED BY <2>1, <2>2, <2>3
<1>4. /\ members' \subseteq Teams \X Accounts
      /\ \A u \in Teams, b \in Accounts :
            <<u, b>> \in members' <=> \/ u = t /\ <<s, b>> \in members
                                      \/ u # s /\ <<u, b>> \in members
  <2>1. members' = (members \ {<<s, a>> : a \in Accounts}) \cup {<<t, a>> : a \in MembersOf(s)}
    BY DEF ApproveMerge, Moved
  <2>2. members \subseteq Teams \X Accounts
    BY DEF IInv, TypeOK
  <2>3. members' \subseteq Teams \X Accounts
    <3>1. \A a \in MembersOf(s) : <<t, a>> \in Teams \X Accounts
      BY DEF MembersOf
    <3>2. {<<t, a>> : a \in MembersOf(s)} \subseteq Teams \X Accounts
      BY <3>1
    <3>3. members \ {<<s, a>> : a \in Accounts} \subseteq Teams \X Accounts
      BY <2>2
    <3> QED BY <2>1, <3>2, <3>3
  <2>4. ASSUME NEW u \in Teams, NEW b \in Accounts
        PROVE  <<u, b>> \in members' <=> \/ u = t /\ <<s, b>> \in members
                                         \/ u # s /\ <<u, b>> \in members
    <3>1. <<u, b>> \in {<<s, a>> : a \in Accounts} <=> u = s
      OBVIOUS
    <3>2. <<u, b>> \in {<<t, a>> : a \in MembersOf(s)} <=> u = t /\ <<s, b>> \in members
      BY DEF MembersOf
    <3> QED BY <2>1, <3>1, <3>2
  <2> QED BY <2>3, <2>4
<1>5. /\ applications' \in [Teams \X Accounts -> {"none", "pending", "approved", "rejected"}]
      /\ \A u \in Teams, b \in Accounts :
            applications'[<<u, b>>] =
               IF /\ applications[<<u, b>>] = "pending"
                  /\ u = s \/ (<<s, b>> \in members /\ SameList(u, t))
               THEN "rejected" ELSE applications[<<u, b>>]
  <2> DEFINE closed == Close(applications, MembersOf(s), t)
  <2>1. /\ closed \in [Teams \X Accounts -> {"none", "pending", "approved", "rejected"}]
        /\ \A u \in Teams, b \in Accounts :
              closed[<<u, b>>] = IF b \in MembersOf(s) /\ SameList(u, t) /\ applications[<<u, b>>] = "pending"
                                THEN "rejected" ELSE applications[<<u, b>>]
    <3>1. TypeOK /\ applications \in [Teams \X Accounts -> {"none", "pending", "approved", "rejected"}]
      BY DEF IInv, TypeOK
    <3>2. ASSUME NEW u \in Teams, NEW b \in Accounts
          PROVE  /\ closed \in [Teams \X Accounts -> {"none", "pending", "approved", "rejected"}]
                 /\ closed[<<u, b>>] = IF b \in MembersOf(s) /\ SameList(u, t) /\ applications[<<u, b>>] = "pending"
                                       THEN "rejected" ELSE applications[<<u, b>>]
      BY <3>1, CloseAt
    <3>3. closed \in [Teams \X Accounts -> {"none", "pending", "approved", "rejected"}]
      BY <3>1 DEF Close
    <3> QED BY <3>2, <3>3
  <2>2. applications' = [p \in DOMAIN applications |->
                           IF p[1] = s /\ applications[p] = "pending" THEN "rejected" ELSE closed[p]]
    BY DEF ApproveMerge, ClosedByMerge
  <2>3. \A b \in Accounts : b \in MembersOf(s) <=> <<s, b>> \in members
    BY DEF MembersOf
  <2>4. applications \in [Teams \X Accounts -> {"none", "pending", "approved", "rejected"}]
    BY DEF IInv, TypeOK
  <2> HIDE DEF closed
  <2>5. applications' \in [Teams \X Accounts -> {"none", "pending", "approved", "rejected"}]
    BY <2>1, <2>2, <2>4
  <2>6. \A u \in Teams, b \in Accounts :
           applications'[<<u, b>>] =
              IF u = s /\ applications[<<u, b>>] = "pending" THEN "rejected" ELSE closed[<<u, b>>]
    BY <2>2, <2>4
  <2> QED BY <2>1, <2>3, <2>5, <2>6
<1>6. TypeOK'
  BY <1>1, <1>2, <1>3, <1>4, <1>5 DEF IInv, TypeOK
<1>7. \A u, v \in Teams : SameList(u, v)' <=> SameList(u, v)
  BY <1>3 DEF SameList
<1>8. Rows'
  <2>1. OneTeamPerBossAndDay'
    <3> SUFFICES ASSUME NEW u \in Teams, NEW v \in Teams, NEW b \in Accounts,
                        <<u, b>> \in members', <<v, b>> \in members', SameList(u, v), u # v
                 PROVE  FALSE
      BY <1>7 DEF OneTeamPerBossAndDay
    <3>1. \A w \in Teams : <<w, b>> \in members /\ SameList(s, w) => w = s \/ <<s, b>> \notin members
      BY DEF IInv, Rows, OneTeamPerBossAndDay
    <3> QED BY <1>2, <1>4, <3>1 DEF IInv, Rows, OneTeamPerBossAndDay, SameList
  <2>2. LeadersBelong'
    <3>1. \A p \in members' : Active(p[1])'
      <4> SUFFICES ASSUME NEW u \in Teams, NEW b \in Accounts, <<u, b>> \in members'
                   PROVE  Active(u)'
        BY <1>4
      <4>1. u # s /\ (u = t \/ <<u, b>> \in members)
        BY <1>2, <1>4
      <4>2. Active(u)
        BY <1>2, <4>1 DEF IInv, Rows, LeadersBelong
      <4> QED BY <1>3, <4>1, <4>2 DEF Active
    <3>2. \A u \in Teams : Active(u)' => <<u, teams'[u].leader>> \in members'
      <4> SUFFICES ASSUME NEW u \in Teams, Active(u)' PROVE <<u, teams'[u].leader>> \in members'
        OBVIOUS
      <4>1. u # s /\ Active(u) /\ teams'[u] = teams[u]
        BY <1>3 DEF Active
      <4>2. <<u, teams[u].leader>> \in members /\ teams[u].leader \in Accounts
        BY <4>1 DEF IInv, TypeOK, Rows, LeadersBelong
      <4> QED BY <1>4, <4>1, <4>2
    <3> QED BY <3>1, <3>2 DEF LeadersBelong
  <2> QED BY <2>1, <2>2 DEF Rows
<1>9. Decisions'
  <2>1. PendingCanBeDecided'
    <3> SUFFICES ASSUME NEW u \in Teams, NEW b \in Accounts, applications'[<<u, b>>] = "pending"
                 PROVE  /\ Active(u)'
                        /\ \A v \in Teams : <<v, b>> \in members' => ~SameList(v, u)'
      BY DEF PendingCanBeDecided, InTeam, SameList
    <3>1. /\ applications[<<u, b>>] = "pending" /\ u # s
          /\ ~(<<s, b>> \in members /\ SameList(u, t))
      BY <1>5
    <3>2. Active(u) /\ \A v \in Teams : <<v, b>> \in members => ~SameList(v, u)
      BY <3>1 DEF IInv, Decisions, PendingCanBeDecided, InTeam, SameList
    <3>3. Active(u)'
      BY <1>3, <3>1, <3>2 DEF Active
    <3>4. ASSUME NEW v \in Teams, <<v, b>> \in members' PROVE ~SameList(v, u)
      BY <1>4, <3>1, <3>2, <3>4 DEF SameList
    <3> QED BY <1>7, <3>3, <3>4
  <2>2. ApprovedBelong'
    <3> SUFFICES ASSUME NEW u \in Teams, NEW b \in Accounts, Active(u)',
                        applications'[<<u, b>>] = "approved"
                 PROVE  <<u, b>> \in members'
      BY DEF ApprovedBelong
    <3>1. u # s /\ Active(u) /\ applications[<<u, b>>] = "approved"
      BY <1>3, <1>5 DEF Active
    <3> QED BY <1>4, <3>1 DEF IInv, Decisions, ApprovedBelong
  <2>3. AbsentIsEmpty'
    <3>1. \A u \in Teams : teams'[u].status = "absent" => teams[u].status = "absent"
      BY <1>3
    <3>2. \A u \in Teams, b \in Accounts :
             applications[<<u, b>>] = "none" => applications'[<<u, b>>] = "none"
      BY <1>5
    <3> QED BY <3>1, <3>2 DEF IInv, Decisions, AbsentIsEmpty
  <2> QED BY <2>1, <2>2, <2>3 DEF Decisions
<1>10. Mergers'
  <2>1. MergersFit'
    <3>1. \A u, v \in Teams : merges'[<<u, v>>] = "pending" => merges[<<u, v>>] = "pending"
      BY <1>2 DEF IInv, TypeOK
    <3> QED BY <1>3, <1>7, <3>1 DEF IInv, Mergers, MergersFit
  <2>2. MergersEndInATeam'
    <3> DEFINE Merged == {u \in Teams : teams[u].status = "merged"}
               NewMerged == {u \in Teams : teams'[u].status = "merged"}
    <3>1. NewMerged = Merged \cup {s}
      BY <1>3
    <3>2. /\ \A u \in Merged : /\ teams[u].into \in Teams /\ teams[teams[u].into].status # "absent"
                             /\ SameList(u, teams[u].into)
          /\ \A S \in SUBSET Merged : S # {} => \E u \in S : teams[u].into \notin S
      BY DEF IInv, Mergers, MergersEndInATeam
    <3>3. \A u \in Teams : teams[u].status # "absent" => teams'[u].status # "absent"
      BY <1>3
    <3> HIDE DEF Merged, NewMerged
    <3>4. ASSUME NEW u \in Teams, u \in NewMerged
          PROVE  /\ teams'[u].into \in Teams /\ teams'[teams'[u].into].status # "absent"
                 /\ SameList(u, teams[u].into)'
      <4>1. CASE u = s
        <5>1. teams[t].status # "absent" /\ teams'[u].into = t
          BY <1>2, <1>3, <4>1 DEF Active
        <5>2. SameList(s, t)'
          BY <1>2, <1>7
        <5> QED BY <3>3, <4>1, <5>1, <5>2 DEF SameList
      <4>2. CASE u # s
        <5>1. u \in Merged /\ teams'[u].into = teams[u].into
          BY <1>3, <3>1, <3>4, <4>2
        <5>2. teams[u].into \in Teams /\ teams[teams[u].into].status # "absent"
              /\ SameList(u, teams[u].into)
          BY <3>2, <5>1
        <5>3. ASSUME NEW v \in Teams, v = teams[u].into PROVE SameList(u, v)'
          BY <1>7, <5>2, <5>3
        <5> QED BY <3>3, <5>1, <5>2, <5>3 DEF SameList
      <4> QED BY <4>1, <4>2
    <3>5. ASSUME NEW S \in SUBSET NewMerged, S # {} PROVE \E u \in S : teams'[u].into \notin S
      <4>1. CASE s \in S
        <5>1. t \notin NewMerged
          BY <1>2, <1>3 DEF Active, NewMerged
        <5> QED BY <1>3, <4>1, <5>1
      <4>2. CASE s \notin S
        <5>1. S \in SUBSET Merged
          BY <3>1, <4>2
        <5>2. PICK u \in S : teams[u].into \notin S
          BY <3>2, <3>5, <5>1
        <5>3. u \in Teams \ {s}
          BY <4>2, <5>1 DEF Merged
        <5> QED BY <1>3, <5>2, <5>3
      <4> QED BY <4>1, <4>2
    <3> QED
      <4>1. \A u \in NewMerged : u \in Teams
        BY DEF NewMerged
      <4> QED BY <3>4, <3>5, <4>1 DEF MergersEndInATeam, NewMerged, SameList
  <2> QED BY <2>1, <2>2 DEF Mergers
<1> QED BY <1>6, <1>8, <1>9, <1>10 DEF IInv

-----------------------------------------------------------------------------
(* Every step keeps the invariant.                                         *)
LEMMA NextInv ==
    ASSUME IInv, [Next]_vars
    PROVE  IInv'
<1>1. CASE Midnight
  BY <1>1, ClockInv
<1>2. ASSUME NEW r \in Requests, Arrives(r) \/ Transaction(r) PROVE IInv'
  <2>1. CASE Arrives(r) \/ Refused(r)
    BY <2>1, ClockInv
  <2>2. ASSUME NEW a \in Accounts, NEW t \in Teams, NEW boss \in Bosses, CreateTeam(r, a, boss, t)
        PROVE  IInv'
    BY <2>2, CreateInv
  <2>3. ASSUME NEW a \in Accounts, NEW t \in Teams, Join(r, a, t) PROVE IInv'
    BY <2>3, JoinInv
  <2>4. ASSUME NEW a \in Accounts, NEW t \in Teams, ApproveJoin(r, t, a) PROVE IInv'
    BY <2>4, ApproveInv
  <2>5. ASSUME NEW a \in Accounts, NEW t \in Teams, RejectJoin(r, t, a) PROVE IInv'
    BY <2>5, RejectInv
  <2>6. ASSUME NEW a \in Accounts, NEW t \in Teams, LeaveTeam(r, a, t) PROVE IInv'
    BY <2>6, LeaveInv
  <2>7. ASSUME NEW s \in Teams, NEW t \in Teams, MergeTeam(r, s, t) PROVE IInv'
    BY <2>7, AskMergerInv
  <2>8. ASSUME NEW s \in Teams, NEW t \in Teams, ApproveMerge(r, s, t) PROVE IInv'
    BY <2>8, MergeInv
  <2> QED BY <1>2, <2>1, <2>2, <2>3, <2>4, <2>5, <2>6, <2>7, <2>8 DEF Transaction
<1>3. CASE UNCHANGED vars
  <2>1. UNCHANGED tables /\ today' \in 0..MaxDay /\ request' \in [Requests -> Days \cup {None}]
    BY <1>3 DEF vars, IInv, TypeOK
  <2> QED BY <2>1, TablesUnchanged
<1> QED BY <1>1, <1>2, <1>3 DEF Next

(* The invariant holds throughout.                                         *)
LEMMA Invariance == Spec => []IInv
<1>1. Init => IInv
  BY InitInv
<1>2. IInv /\ [Next]_vars => IInv'
  BY NextInv
<1> QED BY <1>1, <1>2, PTL DEF Spec

(* The tables hold what their columns say, for any number of accounts.     *)
THEOREM TablesTyped == Spec => []TypeOK
<1>1. IInv => TypeOK
  BY DEF IInv
<1> QED BY <1>1, Invariance, PTL

(* Nobody is ever in two teams for one boss and one day: approvals, own    *)
(* teams and mergers exclude each other through the pending applications.  *)
THEOREM OneTeamEach == Spec => []OneTeamPerBossAndDay
<1>1. IInv => OneTeamPerBossAndDay
  BY DEF IInv, Rows
<1> QED BY <1>1, Invariance, PTL

(* Every active team has its leader in it, and no other team has members.  *)
THEOREM LeadersAreMembers == Spec => []LeadersBelong
<1>1. IInv => LeadersBelong
  BY DEF IInv, Rows
<1> QED BY <1>1, Invariance, PTL

(* approveJoin need not look at the team's status: a pending application   *)
(* is always one to an active team.                                        *)
THEOREM PendingIsDecidable == Spec => []PendingCanBeDecided
<1>1. IInv => PendingCanBeDecided
  BY DEF IInv, Decisions
<1> QED BY <1>1, Invariance, PTL

(* In a team that stands, an approval is a membership.                     *)
THEOREM ApprovedAreMembers == Spec => []ApprovedBelong
<1>1. IInv => ApprovedBelong
  BY DEF IInv, Decisions
<1> QED BY <1>1, Invariance, PTL

(* Mergers form no circle, however many teams merge in whatever order.     *)
THEOREM MergersEnd == Spec => []MergersEndInATeam
<1>1. IInv => MergersEndInATeam
  BY DEF IInv, Mergers
<1> QED BY <1>1, Invariance, PTL

-----------------------------------------------------------------------------
(* The four operations that change memberships.                            *)
LEMMA MembersChange ==
    ASSUME [Next]_vars
    PROVE  \/ members' = members
           \/ \E r \in Requests, a \in Accounts, t \in Teams :
                 \/ \E boss \in Bosses : CreateTeam(r, a, boss, t)
                 \/ ApproveJoin(r, t, a) \/ LeaveTeam(r, a, t)
           \/ \E r \in Requests, s, t \in Teams : ApproveMerge(r, s, t)
<1>1. CASE Midnight \/ (\E r \in Requests : Arrives(r) \/ Refused(r)) \/ UNCHANGED vars
  BY <1>1 DEF Midnight, Arrives, Refused, vars, tables
<1>2. ASSUME NEW r \in Requests, Transaction(r)
      PROVE  \/ members' = members
             \/ \E a \in Accounts, t \in Teams :
                   \/ \E boss \in Bosses : CreateTeam(r, a, boss, t)
                   \/ ApproveJoin(r, t, a) \/ LeaveTeam(r, a, t)
             \/ \E s, t \in Teams : ApproveMerge(r, s, t)
  <2>1. ASSUME NEW a \in Accounts, NEW t \in Teams, Join(r, a, t) \/ RejectJoin(r, t, a)
        PROVE  members' = members
    BY <2>1 DEF Join, RejectJoin
  <2>2. ASSUME NEW s \in Teams, NEW t \in Teams, MergeTeam(r, s, t)
        PROVE  members' = members
    BY <2>2 DEF MergeTeam
  <2>3. Refused(r) => members' = members
    BY DEF Refused, tables
  <2> QED BY <1>2, <2>1, <2>2, <2>3 DEF Transaction
<1> QED BY <1>1, <1>2 DEF Next

(* The limit on members counts finite sets only: a team has few.           *)
FewMembers == \A t \in Teams : IsFiniteSet(MembersOf(t)) /\ Cardinality(MembersOf(t)) <= MaxMembers

(* Teams start empty.                                                      *)
LEMMA InitFits == Init => FewMembers
<1> SUFFICES ASSUME Init, NEW t \in Teams
             PROVE  IsFiniteSet(MembersOf(t)) /\ Cardinality(MembersOf(t)) <= MaxMembers
  BY DEF FewMembers
<1>1. MembersOf(t) = {}
  BY DEF Init, MembersOf
<1> QED BY <1>1, FS_EmptySet, BoundsAssumption

(* Each check is made in the transaction that inserts, so it still holds   *)
(* of the rows that are there when it does.                                *)
LEMMA StepFits ==
    ASSUME IInv, FewMembers, [Next]_vars
    PROVE  FewMembers'
<1> SUFFICES ASSUME NEW u \in Teams
             PROVE  IsFiniteSet(MembersOf(u)') /\ Cardinality(MembersOf(u)') <= MaxMembers
  BY DEF FewMembers
<1>1. IsFiniteSet(MembersOf(u)) /\ Cardinality(MembersOf(u)) <= MaxMembers
      /\ Cardinality(MembersOf(u)) \in Nat
  BY FS_CardinalityType DEF FewMembers
<1>2. CASE members' = members
  BY <1>1, <1>2 DEF MembersOf
<1>3. ASSUME NEW r \in Requests, NEW a \in Accounts, NEW t \in Teams, NEW boss \in Bosses,
             CreateTeam(r, a, boss, t)
      PROVE  IsFiniteSet(MembersOf(u)') /\ Cardinality(MembersOf(u)') <= MaxMembers
  <2>1. members' = members \cup {<<t, a>>} /\ \A b \in Accounts : <<t, b>> \notin members
    BY <1>3 DEF CreateTeam, IInv, Rows, LeadersBelong, Active
  <2>2. CASE u = t
    <3>1. MembersOf(u)' = {a}
      BY <2>1, <2>2 DEF MembersOf
    <3>2. IsFiniteSet({a}) /\ Cardinality({a}) = 1
      BY FS_Singleton
    <3> QED BY <3>1, <3>2, BoundsAssumption
  <2>3. CASE u # t
    <3>1. MembersOf(u)' = MembersOf(u)
      BY <2>1, <2>3 DEF MembersOf
    <3> QED BY <1>1, <3>1
  <2> QED BY <2>2, <2>3
<1>4. ASSUME NEW r \in Requests, NEW a \in Accounts, NEW t \in Teams, ApproveJoin(r, t, a)
      PROVE  IsFiniteSet(MembersOf(u)') /\ Cardinality(MembersOf(u)') <= MaxMembers
  <2>1. members' = members \cup {<<t, a>>} /\ Cardinality(MembersOf(t)) < MaxMembers
    BY <1>4 DEF ApproveJoin, HasRoom
  <2>2. CASE u = t
    <3>1. MembersOf(u)' = MembersOf(u) \cup {a}
      BY <2>1, <2>2 DEF MembersOf
    <3>2. /\ IsFiniteSet(MembersOf(u) \cup {a})
          /\ \/ Cardinality(MembersOf(u) \cup {a}) = Cardinality(MembersOf(u))
             \/ Cardinality(MembersOf(u) \cup {a}) = Cardinality(MembersOf(u)) + 1
      BY <1>1, FS_AddElement
    <3> QED BY <1>1, <2>1, <2>2, <3>1, <3>2, BoundsAssumption
  <2>3. CASE u # t
    <3>1. MembersOf(u)' = MembersOf(u)
      BY <2>1, <2>3 DEF MembersOf
    <3> QED BY <1>1, <3>1
  <2> QED BY <2>2, <2>3
<1>5. ASSUME NEW r \in Requests, NEW a \in Accounts, NEW t \in Teams, LeaveTeam(r, a, t)
      PROVE  IsFiniteSet(MembersOf(u)') /\ Cardinality(MembersOf(u)') <= MaxMembers
  <2>1. members' \subseteq members
    BY <1>5 DEF LeaveTeam
  <2>2. MembersOf(u)' \subseteq MembersOf(u)
    BY <2>1 DEF MembersOf
  <2>3. /\ IsFiniteSet(MembersOf(u)') /\ Cardinality(MembersOf(u)') \in Nat
        /\ Cardinality(MembersOf(u)') <= Cardinality(MembersOf(u))
    BY <1>1, <2>2, FS_Subset, FS_CardinalityType
  <2> QED BY <1>1, <2>3, BoundsAssumption
<1>6. ASSUME NEW r \in Requests, NEW s \in Teams, NEW t \in Teams, ApproveMerge(r, s, t)
      PROVE  IsFiniteSet(MembersOf(u)') /\ Cardinality(MembersOf(u)') <= MaxMembers
  <2>1. /\ members' = (members \ {<<s, a>> : a \in Accounts}) \cup {<<t, a>> : a \in MembersOf(s)}
        /\ Cardinality(MembersOf(s)) + Cardinality(MembersOf(t)) <= MaxMembers
        /\ s # t
    BY <1>6 DEF ApproveMerge, Moved, FitTogether, IInv, Mergers, MergersFit
  <2>2. \A b \in Accounts :
           /\ <<u, b>> \in {<<s, a>> : a \in Accounts} <=> u = s
           /\ <<u, b>> \in {<<t, a>> : a \in MembersOf(s)} <=> u = t /\ b \in MembersOf(s)
    BY DEF MembersOf
  <2>3. CASE u = t
    <3>1. MembersOf(u)' = MembersOf(s) \cup MembersOf(t)
      BY <2>1, <2>2, <2>3 DEF MembersOf
    <3>2. /\ IsFiniteSet(MembersOf(s)) /\ IsFiniteSet(MembersOf(t))
          /\ Cardinality(MembersOf(s)) \in Nat /\ Cardinality(MembersOf(t)) \in Nat
      BY FS_CardinalityType DEF FewMembers
    <3>3. /\ IsFiniteSet(MembersOf(s) \cup MembersOf(t))
          /\ Cardinality(MembersOf(s) \cup MembersOf(t)) =
               Cardinality(MembersOf(s)) + Cardinality(MembersOf(t))
                  - Cardinality(MembersOf(s) \cap MembersOf(t))
      BY <3>2, FS_Union
    <3>4. Cardinality(MembersOf(s) \cap MembersOf(t)) \in Nat
      BY <3>2, FS_Intersection, FS_CardinalityType
    <3> QED BY <2>1, <3>1, <3>2, <3>3, <3>4, BoundsAssumption
  <2>4. CASE u = s
    <3>1. MembersOf(u)' = {}
      BY <2>1, <2>2, <2>4 DEF MembersOf
    <3> QED BY <3>1, FS_EmptySet, BoundsAssumption
  <2>5. CASE u # s /\ u # t
    <3>1. MembersOf(u)' = MembersOf(u)
      BY <2>1, <2>2, <2>5 DEF MembersOf
    <3> QED BY <1>1, <3>1
  <2> QED BY <2>3, <2>4, <2>5
<1> QED BY <1>2, <1>3, <1>4, <1>5, <1>6, MembersChange

(* No team outgrows the limit, by approvals, mergers or both.              *)
THEOREM TeamsFit == Spec => []TeamFits
<1>1. Init => FewMembers
  BY InitFits
<1>2. IInv /\ FewMembers /\ [Next]_vars => FewMembers'
  BY StepFits
<1>3. FewMembers => TeamFits
  BY DEF FewMembers, TeamFits
<1> QED BY <1>1, <1>2, <1>3, Invariance, PTL DEF Spec

(* A membership row disappears only when its member leaves, or when the    *)
(* whole team moves to another one.                                        *)
THEOREM MembersStay == Spec => NobodyIsLost
<1> DEFINE Stay == \A p \in members \ members' :
                      \/ \E r \in Requests : LeaveTeam(r, p[2], p[1])
                      \/ teams'[p[1]].status = "merged" /\ <<teams'[p[1]].into, p[2]>> \in members'
<1>1. ASSUME IInv, Next PROVE Stay
  <2> SUFFICES ASSUME NEW u \in Teams, NEW b \in Accounts,
                      <<u, b>> \in members, <<u, b>> \notin members'
               PROVE  \/ \E r \in Requests : LeaveTeam(r, b, u)
                      \/ teams'[u].status = "merged" /\ <<teams'[u].into, b>> \in members'
    BY <1>1 DEF IInv, TypeOK
  <2>1. \/ \E r \in Requests, a \in Accounts, t \in Teams : LeaveTeam(r, a, t)
        \/ \E r \in Requests, s, t \in Teams : ApproveMerge(r, s, t)
    <3>1. \A r \in Requests, a \in Accounts, t \in Teams :
             /\ ApproveJoin(r, t, a) => members \subseteq members'
             /\ \A boss \in Bosses : CreateTeam(r, a, boss, t) => members \subseteq members'
      BY DEF ApproveJoin, CreateTeam
    <3> QED BY <1>1, <3>1, MembersChange
  <2>2. ASSUME NEW r \in Requests, NEW a \in Accounts, NEW t \in Teams, LeaveTeam(r, a, t)
        PROVE  LeaveTeam(r, b, u)
    BY <2>2 DEF LeaveTeam
  <2>3. ASSUME NEW r \in Requests, NEW s \in Teams, NEW t \in Teams, ApproveMerge(r, s, t)
        PROVE  teams'[u].status = "merged" /\ <<teams'[u].into, b>> \in members'
    <3>1. members' = (members \ {<<s, a>> : a \in Accounts}) \cup {<<t, a>> : a \in MembersOf(s)}
      BY <2>3 DEF ApproveMerge, Moved
    <3>2. u = s /\ b \in MembersOf(s)
      BY <3>1 DEF MembersOf
    <3>3. teams'[s].status = "merged" /\ teams'[s].into = t
      BY <1>1, <2>3 DEF ApproveMerge, IInv, TypeOK, Team
    <3> QED BY <3>1, <3>2, <3>3
  <2> QED BY <2>1, <2>2, <2>3
<1>2. IInv /\ [Next]_vars => [Stay]_vars
  BY <1>1
<1> QED BY <1>2, Invariance, PTL DEF Spec, NobodyIsLost
(* Teams keep their limit and their leader, and nobody is in two of one    *)
(* list.                                                                   *)
THEOREM MembershipHolds == Spec => []MembershipIsSound
<1>1. TypeOK /\ TeamFits /\ OneTeamPerBossAndDay /\ LeadersBelong => MembershipIsSound
  BY DEF MembershipIsSound
<1> QED BY <1>1, TablesTyped, TeamsFit, OneTeamEach, LeadersAreMembers, PTL

(* Applications can be decided, approvals are of members, and mergers end  *)
(* in a team that stands.                                                  *)
THEOREM RequestsHold == Spec => []RequestsAreDecidable
<1>1. PendingCanBeDecided /\ ApprovedBelong /\ MergersEndInATeam => RequestsAreDecidable
  BY DEF RequestsAreDecidable
<1> QED BY <1>1, PendingIsDecidable, ApprovedAreMembers, MergersEnd, PTL

-----------------------------------------------------------------------------
(***************************************************************************)
(* Proofs about Rewards, for any days, lists, characters, rosters and      *)
(* files.  It shares nothing with PlayerTeams: a theorem speaks of one of  *)
(* the two alone.                                                          *)
(***************************************************************************)
(* A pull goes on only while the scheduler runs: the switch that turns the *)
(* connection off reaches it.                                              *)
PullIsRun == pending # Nothing => running

RewardsInv == RewardsAreSound /\ PullIsRun

(* What GrantsAreWhole says of one step.                                   *)
Whole ==
    /\ \A k \in Key : granted[k] # 0 => granted'[k] = granted[k]
    /\ \A k \in Key : granted[k] = 0 /\ granted'[k] # 0 =>
         \A team \in Eligible(k.date, k.list) : \A c \in team.members :
             granted'[[date |-> k.date, list |-> k.list, character |-> c]] # 0

-----------------------------------------------------------------------------
LEMMA Rounding ==
    ASSUME NEW t \in Nat, NEW m \in Nat, m > 0
    PROVE  /\ (t + m - 1) \div m \in Nat
           /\ t > 0 <=> (t + m - 1) \div m > 0
<1>1. (t + m - 1) \div m \in Nat
  OBVIOUS
<1>2. t > 0 => (t + m - 1) \div m > 0
  OBVIOUS
<1>3. t = 0 => (t + m - 1) \div m = 0
  OBVIOUS
<1> QED BY <1>1, <1>2, <1>3

(* A team's share is a number, and nothing exactly if its list has nothing *)
(* to share.                                                               *)
LEMMA ShareIsNumber ==
    ASSUME NEW team \in LockedTeam
    PROVE  Share(team) \in Nat /\ (Share(team) # 0 <=> Tickets[team.list] # 0)
<1> DEFINE m == Cardinality(team.members)
<1>1. Tickets[team.list] \in Nat
  BY RewardsAssumption DEF LockedTeam
<1>2. team.members \subseteq Characters /\ team.members # {}
  BY DEF LockedTeam
<1>3. IsFiniteSet(team.members)
  BY <1>2, FS_Subset, RewardsAssumption
<1>4. m \in Nat /\ m # 0
  BY <1>2, <1>3, FS_CardinalityType, FS_EmptySet
<1> HIDE DEF m
<1>5. /\ (Tickets[team.list] + m - 1) \div m \in Nat
      /\ Tickets[team.list] > 0 <=> (Tickets[team.list] + m - 1) \div m > 0
  BY <1>1, <1>4, Rounding
<1>6. Share(team) = (Tickets[team.list] + m - 1) \div m
  BY DEF Share, m
<1> QED BY <1>1, <1>5, <1>6

LEMMA Today ==
    ASSUME clock \in 0..LastClock
    PROVE  businessDay \in RewardDays
BY RewardsAssumption DEF businessDay, RewardDays, LastClock

LEMMA RunAtTyped ==
    ASSUME clock \in 0..LastClock, NEW done
    PROVE  RunAt(done) \in 0..LastClock + 2
BY RewardsAssumption DEF RunAt, LastClock

LEMMA EligibleAreTeams ==
    ASSUME RewardsTypeOK, NEW d \in RewardDays, NEW l \in Lists, NEW team \in Eligible(d, l)
    PROVE  /\ team \in LockedTeam /\ team.list = l
           /\ snapshots[d] \in Modes /\ team \in Rosters[snapshots[d]][d]
           /\ team.members \cap ClearedOf(d, l) # {}
<1>1. team \in TeamsOf(d, l) /\ team.members \cap ClearedOf(d, l) # {}
  BY DEF Eligible
<1>2. snapshots[d] \in Modes
  BY <1>1 DEF TeamsOf, RewardsTypeOK
<1>3. team \in Rosters[snapshots[d]][d] /\ team.list = l
  BY <1>1, <1>2 DEF TeamsOf
<1>4. Rosters[snapshots[d]][d] \subseteq LockedTeam
  BY <1>2, RewardsAssumption
<1> QED BY <1>1, <1>2, <1>3, <1>4

(* What applying writes for one key.                                       *)
LEMMA GrantedOf ==
    ASSUME RewardsTypeOK, NEW d \in RewardDays, NEW l \in Lists, NEW k \in Key
    PROVE  \/ Granted(d, l)[k] = granted[k]
           \/ /\ granted[k] = 0 /\ k.date = d /\ k.list = l
              /\ \E team \in Eligible(d, l) :
                    k.character \in team.members /\ Granted(d, l)[k] = Share(team)
<1> DEFINE new == /\ k.date = d /\ k.list = l /\ granted[k] = 0 /\ k.character \in known
                  /\ \E team \in Eligible(d, l) : k.character \in team.members
           chosen == CHOOSE team \in Eligible(d, l) : k.character \in team.members
<1>1. Granted(d, l)[k] = IF new THEN Share(chosen) ELSE granted[k]
  BY DEF Granted
<1>2. CASE new
  <2>1. chosen \in Eligible(d, l) /\ k.character \in chosen.members
    BY <1>2
  <2> QED BY <1>1, <1>2, <2>1
<1>3. CASE ~new
  BY <1>1, <1>3
<1> QED BY <1>2, <1>3

LEMMA GrantedTyped ==
    ASSUME RewardsTypeOK, NEW d \in RewardDays, NEW l \in Lists
    PROVE  Granted(d, l) \in [Key -> Nat]
<1>1. ASSUME NEW k \in Key
      PROVE  Granted(d, l)[k] \in Nat
  <2>1. granted[k] \in Nat
    BY DEF RewardsTypeOK
  <2> QED BY <2>1, GrantedOf, EligibleAreTeams, ShareIsNumber
<1>2. Granted(d, l) = [k \in Key |-> Granted(d, l)[k]]
  BY DEF Granted
<1> QED BY <1>1, <1>2

LEMMA ClearedGrows ==
    ASSUME clears \subseteq clears', NEW d, NEW l
    PROVE  ClearedOf(d, l) \subseteq ClearedOf(d, l)'
BY DEF ClearedOf

-----------------------------------------------------------------------------
LEMMA RewardsStart ==
    RewardsInit => RewardsInv
<1> SUFFICES ASSUME RewardsInit PROVE RewardsInv
  OBVIOUS
<1>1. RewardsTypeOK
  <2>1. 0 \in RewardDays /\ clock \in 0..LastClock
    BY RewardsAssumption DEF RewardsInit, RewardDays, LastClock
  <2>2. page \in Page /\ link \in Link
    BY <2>1 DEF RewardsInit, Page, Link, Modes
  <2>3. known \subseteq Characters
    BY RewardsAssumption DEF RewardsInit
  <2> QED BY <2>1, <2>2, <2>3 DEF RewardsInit, RewardsTypeOK
<1>2. RewardsAreEarned /\ DisabledIsQuiet /\ PullIsRun
  BY DEF RewardsInit, RewardsAreEarned, DisabledIsQuiet, PullIsRun
<1> QED BY <1>1, <1>2 DEF RewardsInv, RewardsAreSound

(* The types, one operation at a time.                                     *)
LEMMA RewardsTypeStep ==
    ASSUME RewardsTypeOK, RewardsNext
    PROVE  RewardsTypeOK'
<1> USE RewardsAssumption DEF RewardsTypeOK
<1>1. CASE Tick
  BY <1>1 DEF Tick, rewardTables, scheduler, LastClock
<1>2. CASE Start
  <2>1. RunAt(Nothing) \in 0..LastClock + 2
    BY RunAtTyped
  <2> QED BY <1>2, <2>1 DEF Start, rewardTables
<1>3. CASE Stop
  BY <1>3 DEF Stop, rewardTables
<1>4. CASE Fire
  <2>1. businessDay \in RewardDays /\ RunAt(completed) \in 0..LastClock + 2 /\ clock \in 0..LastClock + 2
    BY Today, RunAtTyped DEF LastClock
  <2>2. [date |-> businessDay, from |-> link.mode, aborted |-> FALSE] \in Pull
    BY <2>1 DEF Link, Pull
  <2> QED BY <1>4, <2>1, <2>2 DEF Fire, rewardTables
<1>5. CASE PullSucceeds
  <2>1. RunAt(pending.date) \in 0..LastClock + 2 /\ pending.date \in RewardDays /\ pending.from \in Modes
    BY <1>5, RunAtTyped DEF PullSucceeds, Pull
  <2> QED BY <1>5, <2>1 DEF PullSucceeds
<1>6. CASE PullFails
  <2>1. RunAt(completed) \in 0..LastClock + 2
    BY RunAtTyped
  <2> QED BY <1>6, <2>1 DEF PullFails, CompletedAfterFailure, rewardTables
<1>7. ASSUME NEW enabled \in BOOLEAN, connectionChanged(enabled)
      PROVE  pending' \in Pull \cup {Nothing} /\ timer' \in 0..LastClock + 2 \cup {Nothing}
  <2>1. RunAt(completed) \in 0..LastClock + 2
    BY RunAtTyped
  <2> QED BY <1>7, <2>1 DEF connectionChanged, Pull
<1>8. ASSUME NEW mode \in Modes, AskSwitch(mode)
      PROVE  RewardsTypeOK'
  BY <1>8 DEF AskSwitch, rewardTables, scheduler, Check
<1>9. CASE AskEnable
  BY <1>9 DEF AskEnable, rewardTables, scheduler, Check, Link
<1>10. ASSUME NEW check \in checks, Unhealthy(check) \/ Switched(check) \/ Enabled(check)
       PROVE  RewardsTypeOK'
  <2>1. check \in Check
    OBVIOUS
  <2>2. CASE Unhealthy(check)
    BY <2>2 DEF Unhealthy, rewardTables, scheduler
  <2>3. CASE Switched(check)
    BY <2>1, <2>3 DEF Switched, scheduler, Check, Link
  <2>4. CASE Enabled(check)
    BY <2>1, <2>4, <1>7 DEF Enabled, Check, Link
  <2> QED BY <1>10, <2>2, <2>3, <2>4
<1>11. CASE Disable
  BY <1>11, <1>7 DEF Disable, Link
<1>12. ASSUME NEW file \in ClearFiles, ImportClears(file)
       PROVE  RewardsTypeOK'
  <2>1. Recognised(file) \subseteq {row \in Clear : row.list # Nothing}
    BY DEF Recognised
  <2> QED BY <1>12, <2>1 DEF ImportClears, scheduler, Page
<1>13. ASSUME NEW directory \in Directories, ReplaceDirectory(directory)
       PROVE  RewardsTypeOK'
  BY <1>13 DEF ReplaceDirectory, scheduler
<1>14. ASSUME NEW d \in RewardDays, ChangeDate(d)
       PROVE  RewardsTypeOK'
  BY <1>14 DEF ChangeDate, rewardTables, scheduler, Page
<1>15. CASE Loaded
  BY <1>15 DEF Loaded, rewardTables, scheduler, Page
<1>16. ASSUME NEW l \in Lists, ApplyRewards(l)
       PROVE  RewardsTypeOK'
  <2>1. page.shown \in RewardDays
    BY <1>16 DEF ApplyRewards, Page
  <2>2. Granted(page.shown, l) \in [Key -> Nat]
    BY <2>1, GrantedTyped
  <2> QED BY <1>16, <2>2 DEF ApplyRewards, scheduler, Page
<1> QED BY <1>1, <1>2, <1>3, <1>4, <1>5, <1>6, <1>8, <1>9, <1>10, <1>11, <1>12, <1>13, <1>14, <1>15,
           <1>16 DEF RewardsNext, SchedulerStep, LinkStep, ImportStep, PageStep

LEMMA QuietStep ==
    ASSUME RewardsTypeOK, DisabledIsQuiet, PullIsRun, RewardsNext
    PROVE  DisabledIsQuiet' /\ PullIsRun'
<1> USE RewardsAssumption DEF RewardsTypeOK, DisabledIsQuiet, PullIsRun, rewardTables, scheduler, Link
<1>1. CASE Tick
  BY <1>1 DEF Tick
<1>2. CASE SchedulerStep
  BY <1>2 DEF SchedulerStep, Start, Stop, Fire, PullSucceeds, PullFails, Pull
<1>3. CASE LinkStep
  <2>1. ASSUME NEW mode \in Modes, AskSwitch(mode)
        PROVE  DisabledIsQuiet' /\ PullIsRun'
    BY <2>1 DEF AskSwitch
  <2>2. CASE AskEnable
    BY <2>2 DEF AskEnable
  <2>3. ASSUME NEW check \in checks, Unhealthy(check) \/ Switched(check) \/ Enabled(check)
        PROVE  DisabledIsQuiet' /\ PullIsRun'
    BY <2>3 DEF Unhealthy, Switched, Enabled, connectionChanged
  <2>4. CASE Disable
    BY <2>4 DEF Disable, connectionChanged, Pull
  <2> QED BY <1>3, <2>1, <2>2, <2>3, <2>4 DEF LinkStep
<1>4. CASE ImportStep
  BY <1>4 DEF ImportStep, ImportClears, ReplaceDirectory
<1>5. CASE PageStep
  BY <1>5 DEF PageStep, ChangeDate, Loaded, ApplyRewards
<1> QED BY <1>1, <1>2, <1>3, <1>4, <1>5 DEF RewardsNext

(* Every step but an application leaves the rewards alone; clears are never *)
(* taken back.                                                              *)
LEMMA OnlyApplyingGrants ==
    ASSUME RewardsNext
    PROVE  /\ clears \subseteq clears'
           /\ \/ granted' = granted
              \/ \E l \in Lists : ApplyRewards(l)
BY DEF RewardsNext, Tick, SchedulerStep, Start, Stop, Fire, PullSucceeds, PullFails, LinkStep, AskSwitch,
   AskEnable, Unhealthy, Switched, Enabled, Disable, ImportStep, ImportClears, ReplaceDirectory,
   PageStep, ChangeDate, Loaded, ApplyRewards, rewardTables, scheduler

LEMMA EarnedStep ==
    ASSUME RewardsTypeOK, RewardsAreEarned, RewardsNext
    PROVE  RewardsAreEarned'
<1> SUFFICES ASSUME NEW k \in Key, granted'[k] # 0
             PROVE  \E mode \in Modes : \E team \in Rosters[mode][k.date] :
                        /\ team.list = k.list
                        /\ k.character \in team.members
                        /\ team.members \cap ClearedOf(k.date, k.list)' # {}
                        /\ granted'[k] = Share(team)
  BY DEF RewardsAreEarned
<1>1. k.date \in RewardDays /\ k.list \in Lists
  BY DEF Key
<1>2. ClearedOf(k.date, k.list) \subseteq ClearedOf(k.date, k.list)'
  BY OnlyApplyingGrants, ClearedGrows
<1>3. CASE granted'[k] = granted[k]
  BY <1>2, <1>3 DEF RewardsAreEarned
<1>4. CASE granted'[k] # granted[k]
  <2>1. PICK l \in Lists : ApplyRewards(l)
    BY <1>4, OnlyApplyingGrants
  <2>2. page.shown \in RewardDays /\ granted' = Granted(page.shown, l)
    BY <2>1 DEF ApplyRewards, RewardsTypeOK, Page
  <2>3. PICK team \in Eligible(k.date, k.list) : k.character \in team.members /\ granted'[k] = Share(team)
    BY <1>4, <2>2, GrantedOf
  <2> QED BY <1>1, <1>2, <2>3, EligibleAreTeams
<1> QED BY <1>3, <1>4

LEMMA RewardsStep ==
    RewardsInv /\ [RewardsNext]_rewardVars => RewardsInv'
<1>1. ASSUME RewardsInv, RewardsNext
      PROVE  RewardsInv'
  BY <1>1, RewardsTypeStep, QuietStep, EarnedStep DEF RewardsInv, RewardsAreSound
<1>2. ASSUME RewardsInv, UNCHANGED rewardVars
      PROVE  RewardsInv'
  BY <1>2 DEF RewardsInv, RewardsAreSound, RewardsTypeOK, RewardsAreEarned, ClearedOf, DisabledIsQuiet, PullIsRun,
     rewardVars, rewardTables, scheduler
<1> QED BY <1>1, <1>2

(* Every reward is the share of a team of that day one of whose members    *)
(* cleared the boss, and no pull goes on while the connection is off, for  *)
(* any player services, directories, files of clears, days and teams.      *)
THEOREM RewardsHold ==
    RewardsSpec => []RewardsAreSound
<1>1. RewardsInv => RewardsAreSound
  BY DEF RewardsInv
<1> QED BY <1>1, RewardsStart, RewardsStep, PTL DEF RewardsSpec

-----------------------------------------------------------------------------
LEMMA WholeStep ==
    ASSUME RewardsTypeOK, [RewardsNext]_rewardVars
    PROVE  Whole
<1>1. CASE granted' = granted
  BY <1>1 DEF Whole
<1>2. ASSUME NEW l \in Lists, ApplyRewards(l)
      PROVE  Whole
  <2> DEFINE d == page.shown
  <2>1. d \in RewardDays /\ granted' = Granted(d, l) /\ Applies(d, l)
    BY <1>2 DEF ApplyRewards, RewardsTypeOK, Page
  <2>2. \A k \in Key : \/ granted'[k] = granted[k]
                       \/ /\ granted[k] = 0 /\ k.date = d /\ k.list = l
                          /\ \E team \in Eligible(d, l) : granted'[k] = Share(team)
    BY <2>1, GrantedOf
  <2>3. ASSUME NEW k \in Key, granted[k] = 0, granted'[k] # 0,
               NEW team \in Eligible(k.date, k.list), NEW c \in team.members
        PROVE  granted'[[date |-> k.date, list |-> k.list, character |-> c]] # 0
    <3> DEFINE key == [date |-> d, list |-> l, character |-> c]
               chosen == CHOOSE t \in Eligible(d, l) : c \in t.members
    <3>1. k.date = d /\ k.list = l /\ Tickets[l] # 0
      <4>1. k.date = d /\ k.list = l /\ \E t \in Eligible(d, l) : Share(t) # 0
        BY <2>2, <2>3
      <4> QED BY <2>1, <4>1, EligibleAreTeams, ShareIsNumber
    <3>2. team \in Eligible(d, l) /\ c \in known /\ c \in Characters
      BY <2>1, <2>3, <3>1, EligibleAreTeams DEF Applies, LockedTeam
    <3>3. key \in Key
      BY <2>1, <3>2 DEF Key
    <3>4. CASE granted[key] # 0
      BY <2>2, <3>1, <3>3, <3>4
    <3>5. CASE granted[key] = 0
      <4>1. chosen \in Eligible(d, l)
        BY <3>2, <2>3
      <4>2. granted'[key] = Share(chosen)
        BY <2>1, <2>3, <3>2, <3>3, <3>5 DEF Granted
      <4>3. Share(chosen) # 0
        BY <2>1, <3>1, <4>1, EligibleAreTeams, ShareIsNumber
      <4> QED BY <3>1, <4>2, <4>3
    <3> QED BY <3>4, <3>5
  <2> QED BY <2>2, <2>3 DEF Whole
<1>3. CASE UNCHANGED rewardVars
  BY <1>1, <1>3 DEF rewardVars, rewardTables
<1> QED BY <1>1, <1>2, <1>3, OnlyApplyingGrants

(* An application grants to all eligible teams or to none, and never       *)
(* touches what was granted, for any player services, directories and days.*)
THEOREM GrantsHold ==
    RewardsSpec => GrantsAreWhole
<1>1. RewardsTypeOK /\ [RewardsNext]_rewardVars => [Whole]_rewardVars
  BY WholeStep
<1>2. RewardsSpec => []RewardsTypeOK
  <2>1. RewardsAreSound => RewardsTypeOK
    BY DEF RewardsAreSound
  <2> QED BY <2>1, RewardsHold, PTL
<1>3. [][Whole]_rewardVars <=> GrantsAreWhole
  BY PTL DEF GrantsAreWhole, Whole
<1> QED BY <1>1, <1>2, <1>3, PTL DEF RewardsSpec
=============================================================================
