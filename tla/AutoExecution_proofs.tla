------------------------ MODULE AutoExecution_proofs ------------------------
(***************************************************************************)
(* Proofs about AutoExecution for any executions, batches, commands,       *)
(* accounts, calls and verifications.  The inductive invariant says of     *)
(* every row, the stored ones and the working copy, that its commands are  *)
(* marked successful or unknown exactly when the game applied them or      *)
(* nobody saw the outcome (Tells); that a frame is out exactly while its   *)
(* handler waits (OpenFrames); and what the handler knows of the commands  *)
(* before it writes one (Handling).  From it follow the answers, what may  *)
(* be written again, and that the executor implements Delivery.            *)
(***************************************************************************)
EXTENDS AutoExecution, TLAPS, WellFoundedInduction

InHandler == {"selecting", "sending", "written", "finishing"}

CallRecord == [pc : CallStates, request : Request \cup {None},
               reply : Replies \cup {None}, reason : Reasons \cup {None}]

(* The execution the holder works on.                                      *)
Exec == call[holder].request.exec

(* What can have become of a command of which no process kept anything.    *)
Untouched == {"none", "forbidden", "unrecorded"}

(* A row agrees with what became of its commands: f is their fate, u the   *)
(* verification each of them was last tried under.                         *)
Tells(row, f, u) ==
    \A i \in Commands :
        /\ row.commands[i] = "success" <=> f[i] = "applied"
        /\ row.commands[i] = "unknown" <=> f[i] = "unobserved"
        /\ f[i] = "unobserved" /\ u[i] # None => row.verification[i] = u[i]

Holding ==
    /\ \A c \in Calls : call[c].pc \in InHandler <=> holder = c
    /\ \A c \in Calls : call[c].pc # "idle" => call[c].request \in Request
    /\ holder # None <=> work # None

(* What the holder knows: h is its call, r its working copy, f the fates of*)
(* its commands, a the accounts it has left and the one it uses.           *)
Handling ==
    holder # None =>
        /\ Tells(work, fate[Exec], under[Exec])
        /\ work.status = "running"
        /\ call[holder].pc # "finishing" => ~HasUnknown(work)
        /\ call[holder].pc \in {"sending", "written"} => Unfinished(work) # {} /\ current \in ids
        /\ call[holder].pc # "selecting" => work.selected # None
        /\ work.selected = None => \A i \in Commands : fate[Exec][i] \in Untouched
        /\ call[holder].pc # "finishing" /\ ~call[holder].request.retry =>
               \A i \in Commands :
                   /\ fate[Exec][i] \notin {"refused", "broken", "released"}
                   /\ store[Exec] # None => fate[Exec][i] # "unrecorded"
        /\ call[holder].pc = "written" =>
               under[Exec][NextCommand(work)] = call[holder].request.verification

Stored ==
    \A e \in Executions :
        IF store[e] = None THEN \A i \in Commands : fate[e][i] \in Untouched \cup {"open"}
        ELSE /\ Tells(store[e], fate[e], under[e])
             /\ store[e].status = "success" => Unfinished(store[e]) = {}
             /\ store[e].selected = None =>
                    \A i \in Commands : fate[e][i] \in Untouched \cup {"open"}

OpenFrames ==
    \A e \in Executions, i \in Commands :
        fate[e][i] = "open" <=> /\ holder # None /\ call[holder].pc = "written"
                                /\ e = Exec /\ i = NextCommand(work)

IInv == TypeOK /\ Holding /\ Handling /\ Stored /\ OpenFrames /\ SequentialDelivery

-----------------------------------------------------------------------------
(* A set of numbers that is not empty has a least element.                 *)
LEMMA LeastIsLeast ==
    ASSUME NEW S \in SUBSET Nat, S # {}
    PROVE  Least(S) \in S /\ \A b \in S : Least(S) <= b
<1>1. \E m \in S : \A b \in S : ~(b < m)
  <2>1. PICK m \in S : \A b \in S : <<b, m>> \notin OpToRel(<, Nat)
    BY NatLessThanWellFounded, WFMin, Zenon
  <2> QED BY <2>1, Zenon DEF OpToRel
<1>2. \E m \in S : \A b \in S : m <= b
  BY <1>1
<1> QED BY <1>2, Zenon DEF Least

LEMMA NumbersAreNat == Commands \subseteq Nat /\ Accounts \subseteq Nat /\ 1 \in Commands
BY NumbersAssumption DEF Commands, Accounts

(* The next command is the first that is not successful.                   *)
LEMMA NextIsFirst ==
    ASSUME NEW row, Unfinished(row) # {}
    PROVE  /\ NextCommand(row) \in Commands /\ row.commands[NextCommand(row)] # "success"
           /\ \A j \in Commands : j < NextCommand(row) => row.commands[j] = "success"
<1>1. Unfinished(row) \in SUBSET Nat /\ Unfinished(row) \subseteq Commands
  BY NumbersAreNat DEF Unfinished
<1>2. /\ NextCommand(row) \in Unfinished(row)
      /\ \A b \in Unfinished(row) : NextCommand(row) <= b
  BY <1>1, LeastIsLeast DEF NextCommand
<1>3. \A j \in Commands : j < NextCommand(row) => j \notin Unfinished(row)
  BY <1>1, <1>2, NumbersAreNat
<1> QED BY <1>1, <1>2, <1>3 DEF Unfinished

(* The account that is chosen is a candidate.                              *)
LEMMA RoundRobinChooses ==
    ASSUME NEW candidates \in SUBSET Accounts, candidates # {}
    PROVE  NextRoundRobin(candidates) \in candidates
<1> DEFINE later == {a \in candidates : cursor # None /\ a > cursor}
<1>1. candidates \in SUBSET Nat /\ later \in SUBSET Nat
  BY NumbersAreNat
<1>2. Least(candidates) \in candidates
  BY <1>1, LeastIsLeast
<1>3. later # {} => Least(later) \in later
  BY <1>1, LeastIsLeast
<1> QED BY <1>2, <1>3 DEF NextRoundRobin

(* The holder of the lock, its copy of the row and its request.            *)
LEMMA HolderKnown ==
    ASSUME IInv, NEW c \in Calls, call[c].pc \in InHandler
    PROVE  /\ holder = c /\ holder # None /\ work \in Row /\ Exec = call[c].request.exec
           /\ call[c].request \in Request /\ Exec \in Executions
BY NoneAssumption DEF IInv, TypeOK, Holding, Exec, InHandler, Request

LEMMA MarkedIsRow ==
    ASSUME NEW row \in Row, NEW i \in Commands, NEW v \in Verifications \cup {None}
    PROVE  /\ Marked(row, i, v) \in Row /\ Marked(row, i, v).commands = row.commands
           /\ Marked(row, i, v).status = row.status /\ Marked(row, i, v).selected = row.selected
           /\ \A j \in Commands : Marked(row, i, v).verification[j] =
                  IF j = i /\ v # None THEN v ELSE row.verification[j]
BY DEF Marked, Row

LEMMA WithStatusIsRow ==
    ASSUME NEW row \in Row, NEW i \in Commands, NEW s \in CommandStates
    PROVE  /\ WithStatus(row, i, s) \in Row /\ WithStatus(row, i, s).verification = row.verification
           /\ WithStatus(row, i, s).status = row.status /\ WithStatus(row, i, s).selected = row.selected
           /\ \A j \in Commands : WithStatus(row, i, s).commands[j] =
                  IF j = i THEN s ELSE row.commands[j]
BY DEF WithStatus, Row, CommandStates

-----------------------------------------------------------------------------
LEMMA InitInv == Init => IInv
<1> SUFFICES ASSUME Init PROVE IInv
  OBVIOUS
<1>1. TypeOK
  <2>1. \A c \in Calls : call[c] \in CallRecord
    BY DEF Init, CallStates, CallRecord
  <2>2. call \in [Calls -> CallRecord]
    BY <2>1 DEF Init
  <2>3. account \in [Accounts -> AccountStates]
    BY DEF Init, AccountStates
  <2>4. fate \in [Executions -> [Commands -> Fates]]
    BY DEF Init, Fates
  <2> QED BY <2>2, <2>3, <2>4 DEF Init, TypeOK, CallRecord
<1>2. Holding
  BY NoneAssumption DEF Init, Holding, InHandler
<1>3. Handling /\ Stored /\ OpenFrames
  BY DEF Init, Handling, Stored, OpenFrames, Untouched
<1>4. SequentialDelivery
  BY DEF Init, SequentialDelivery
<1> QED BY <1>1, <1>2, <1>3, <1>4 DEF IInv

(* A step outside of every handler.                                        *)
LEMMA OutsideInv ==
    ASSUME IInv, TypeOK', UNCHANGED <<store, running, history>>,
           \A c \in Calls : /\ call[c].pc \in InHandler => call'[c] = call[c]
                            /\ call[c].pc \notin InHandler => call'[c].pc \notin InHandler
                            /\ call'[c].pc # "idle" => call'[c].request \in Request
    PROVE  IInv'
<1> USE DEF IInv
<1>1. Holding' /\ (holder # None => call'[holder] = call[holder])
  BY DEF Holding, running, TypeOK
<1>2. Handling' /\ OpenFrames'
  <2>1. CASE holder = None
    BY <2>1 DEF Handling, OpenFrames, running, history, Exec
  <2>2. CASE holder # None
    <3>1. Exec' = Exec /\ call'[holder] = call[holder] /\ UNCHANGED <<holder, work, ids, current, fate, under>>
      BY <1>1, <2>2 DEF Exec, running, history
    <3>2. Handling'
      BY <3>1 DEF Handling, Tells, HasUnknown, Unfinished, NextCommand
    <3>3. OpenFrames'
      BY <3>1 DEF OpenFrames, NextCommand, Unfinished
    <3> QED BY <3>2, <3>3
  <2> QED BY <2>1, <2>2
<1>3. Stored' /\ SequentialDelivery'
  BY DEF Stored, Tells, Unfinished, SequentialDelivery, history
<1> QED BY <1>1, <1>2, <1>3

(* A call moves to another state, or is answered.                          *)
LEMMA GotoMoves ==
    ASSUME IInv, NEW c \in Calls, NEW pc \in CallStates, Goto(c, pc)
    PROVE  /\ call' \in [Calls -> CallRecord] /\ call'[c].pc = pc
           /\ call'[c].request = call[c].request /\ \A d \in Calls \ {c} : call'[d] = call[d]
BY DEF IInv, TypeOK, CallRecord, Goto

LEMMA AnswerMoves ==
    ASSUME IInv, NEW c \in Calls, NEW row \in Row, Answer(c, row)
    PROVE  /\ call' \in [Calls -> CallRecord] /\ call'[c].pc = "answered"
           /\ call'[c].request = call[c].request /\ \A d \in Calls \ {c} : call'[d] = call[d]
           /\ call'[c].reply = Reply(row) /\ call'[c].reason = Reason(row)
<1>1. Reply(row) \in Replies /\ Reason(row) \in Reasons
  BY DEF Reply, Reason, Row, RowStates, Replies, Reasons
<1>2. "answered" \in CallStates
  BY DEF CallStates
<1>3. call \in [Calls -> CallRecord] /\ call[c] \in CallRecord
  BY DEF IInv, TypeOK, CallRecord
<1>4. [call[c] EXCEPT !.pc = "answered", !.reply = Reply(row), !.reason = Reason(row)] \in CallRecord
  BY <1>1, <1>2, <1>3 DEF CallRecord
<1> QED BY <1>3, <1>4 DEF CallRecord, Answer

LEMMA ReceiveInv ==
    ASSUME IInv, NEW c \in Calls, NEW r \in Request, Receive(c, r)
    PROVE  IInv'
<1>1. TypeOK'
  <2>1. call \in [Calls -> CallRecord] /\ "waiting" \in CallStates
    BY DEF IInv, TypeOK, CallRecord, CallStates
  <2>2. call' \in [Calls -> CallRecord]
    BY <2>1 DEF Receive, CallRecord
  <2> QED BY <2>2 DEF IInv, TypeOK, CallRecord, Receive, running, history
<1>2. \A d \in Calls : /\ call[d].pc \in InHandler => call'[d] = call[d]
                       /\ call[d].pc \notin InHandler => call'[d].pc \notin InHandler
                       /\ call'[d].pc # "idle" => call'[d].request \in Request
  BY DEF IInv, TypeOK, Receive, Holding, InHandler
<1> QED BY <1>1, <1>2, OutsideInv DEF Receive

LEMMA AnswerAtOnceInv ==
    ASSUME IInv, NEW c \in Calls, Conflict(c) \/ Replay(c)
    PROVE  IInv'
<1> USE DEF IInv
<1>1. call[c].pc = "waiting" /\ call[c].request \in Request
  BY DEF Conflict, Replay, Holding
<1>2. \/ Goto(c, "conflict")
      \/ store[call[c].request.exec] \in Row /\ Answer(c, store[call[c].request.exec])
  BY <1>1 DEF Conflict, Replay, AnsweredByRow, TypeOK, Request
<1>3. /\ call' \in [Calls -> CallRecord] /\ call'[c].pc \in {"conflict", "answered"}
      /\ call'[c].request = call[c].request /\ \A d \in Calls \ {c} : call'[d] = call[d]
  <2>1. "conflict" \in CallStates
    BY DEF CallStates
  <2> QED BY <1>2, <2>1, GotoMoves, AnswerMoves
<1>4. TypeOK'
  BY <1>3 DEF TypeOK, CallRecord, Conflict, Replay, running, history
<1>5. \A d \in Calls : /\ call[d].pc \in InHandler => call'[d] = call[d]
                       /\ call[d].pc \notin InHandler => call'[d].pc \notin InHandler
                       /\ call'[d].pc # "idle" => call'[d].request \in Request
  BY <1>1, <1>3 DEF Holding, InHandler
<1> QED BY <1>4, <1>5, OutsideInv DEF Conflict, Replay

LEMMA AccountInv ==
    ASSUME IInv, NEW a \in Accounts, NEW s \in AccountStates, AccountChanges(a, s)
    PROVE  IInv'
<1>1. TypeOK'
  BY DEF IInv, TypeOK, AccountChanges, running, history
<1> QED BY <1>1, OutsideInv DEF IInv, Holding, AccountChanges

-----------------------------------------------------------------------------
(* What an operator releases becomes a failure of the row and "released"   *)
(* of its commands; a new row tells of an execution of which nothing is    *)
(* known.                                                                  *)
LEMMA VerifiedIsRow ==
    ASSUME NEW row \in Row, NEW v \in Verifications
    PROVE  /\ Verified(row, v) \in Row /\ ~HasUnknown(Verified(row, v))
           /\ Verified(row, v).status = row.status /\ Verified(row, v).selected = row.selected
           /\ \A i \in Commands :
                  /\ Verified(row, v).commands[i] =
                         IF row.commands[i] = "unknown" THEN "failure" ELSE row.commands[i]
                  /\ Verified(row, v).verification[i] =
                         IF row.commands[i] = "unknown" THEN v ELSE row.verification[i]
BY DEF Verified, Row, HasUnknown, CommandStates

LEMMA NewRowIsRow ==
    ASSUME NEW b \in Batches
    PROVE  /\ NewRow(b) \in Row /\ ~HasUnknown(NewRow(b)) /\ NewRow(b).selected = None
           /\ NewRow(b).status = "running" /\ \A i \in Commands : NewRow(b).commands[i] = "pending"
BY DEF NewRow, Row, HasUnknown, CommandStates, RowStates

LEMMA StartInv ==
    ASSUME IInv, NEW c \in Calls, Start(c)
    PROVE  IInv'
<1> USE DEF IInv
<1> DEFINE r == call[c].request
           row == store[r.exec]
           releases == row # None /\ HasUnknown(row)
           begun == IF row = None THEN NewRow(r.batch)
                    ELSE IF releases THEN Verified(row, r.verification) ELSE row
<1>1. /\ call[c].pc = "waiting" /\ holder = None /\ work = None
      /\ r \in Request /\ r.exec \in Executions /\ r.batch \in Batches
      /\ row \in Row \cup {None}
  BY DEF Start, Holding, TypeOK, Request
<1>2. row # None => /\ row.status # "success" /\ r.retry
                    /\ HasUnknown(row) => r.verification # None /\ CanVerify(row, r.verification)
  BY DEF Start, AnsweredByRow, CanVerify
<1>3. /\ begun \in Row /\ ~HasUnknown(begun) /\ begun.status # "success"
      /\ row # None => begun.selected = row.selected
      /\ row = None => begun.selected = None
      /\ \A i \in Commands : begun.commands[i] =
             IF row = None THEN "pending"
             ELSE IF row.commands[i] = "unknown" THEN "failure" ELSE row.commands[i]
  <2>1. CASE row = None
    BY <1>1, <2>1, NewRowIsRow
  <2>2. CASE row # None /\ releases
    <3>1. r.verification \in Verifications
      BY <1>1, <1>2, <2>2 DEF Request
    <3> QED BY <1>1, <1>2, <2>2, <3>1, VerifiedIsRow
  <2>3. CASE row # None /\ ~releases
    BY <1>1, <1>2, <2>3 DEF HasUnknown
  <2> QED BY <2>1, <2>2, <2>3
<1>4. /\ holder' = c /\ work' = [begun EXCEPT !.status = "running"]
      /\ store' = IF releases THEN [store EXCEPT ![r.exec] = begun] ELSE store
      /\ fate' = [fate EXCEPT ![r.exec] = [i \in Commands |->
                    IF releases /\ row.commands[i] = "unknown" THEN "released" ELSE fate[r.exec][i]]]
      /\ released' = [released EXCEPT ![r.exec] = IF releases THEN @ \cup {r.verification} ELSE @]
      /\ Goto(c, "selecting")
      /\ UNCHANGED <<cursor, account, ids, current, under>>
  BY DEF Start, Save, TypeOK
<1>5. /\ work' \in Row /\ work'.commands = begun.commands /\ work'.selected = begun.selected
      /\ work'.status = "running" /\ work'.verification = begun.verification
  BY <1>3, <1>4 DEF Row, RowStates
<1>6. \A i \in Commands : fate[r.exec][i] # "open"
  BY <1>1 DEF OpenFrames
<1>7. /\ fate' \in [Executions -> [Commands -> Fates]]
      /\ \A e \in Executions \ {r.exec} : fate'[e] = fate[e]
      /\ \A i \in Commands : fate'[r.exec][i] =
             IF releases /\ row.commands[i] = "unknown" THEN "released" ELSE fate[r.exec][i]
  BY <1>1, <1>4 DEF TypeOK, Fates
<1>8. /\ store' \in [Executions -> Row \cup {None}]
      /\ \A e \in Executions \ {r.exec} : store'[e] = store[e]
      /\ row # None => store'[r.exec] = begun
      /\ row = None => store'[r.exec] = None
  BY <1>1, <1>3, <1>4 DEF TypeOK
<1>8b. \A i \in Commands :
           \/ fate'[r.exec][i] = fate[r.exec][i]
           \/ fate[r.exec][i] = "unobserved" /\ fate'[r.exec][i] = "released"
  <2>1. row # None => \A i \in Commands : row.commands[i] = "unknown" => fate[r.exec][i] = "unobserved"
    BY <1>1 DEF Stored, Tells
  <2> QED BY <1>7, <2>1
<1> HIDE DEF begun
<1>9. TypeOK'
  <2>1. call' \in [Calls -> CallRecord]
    BY <1>4, GotoMoves DEF CallStates
  <2>2. releases => r.verification \in Verifications
    BY <1>1, <1>2 DEF Request
  <2>3. released' \in [Executions -> SUBSET Verifications]
    BY <1>1, <1>4, <2>2 DEF TypeOK
  <2> QED BY <1>4, <1>5, <1>7, <1>8, <2>1, <2>3 DEF TypeOK, CallRecord
<1>10. Holding' /\ Exec' = r.exec /\ call'[holder'].pc = "selecting" /\ call'[holder'].request = r
  <2>1. call'[c].pc = "selecting" /\ call'[c].request = r /\ \A d \in Calls \ {c} : call'[d] = call[d]
    BY <1>4, GotoMoves DEF CallStates
  <2>2. work' # None
    BY <1>5, RecordsAssumption
  <2> QED BY <1>1, <1>4, <2>1, <2>2, NoneAssumption DEF Holding, InHandler, Exec
<1>11. Tells(begun, fate'[r.exec], under[r.exec])
  <2>1. CASE row = None
    BY <1>1, <1>3, <1>7, <2>1 DEF Stored, Tells, Untouched
  <2>2. CASE row # None
    <3>1. Tells(row, fate[r.exec], under[r.exec])
      BY <1>1, <2>2 DEF Stored
    <3>2. \A i \in Commands : fate'[r.exec][i] # "unobserved"
      BY <1>7, <2>2, <3>1 DEF Tells, HasUnknown
    <3>3. \A i \in Commands : begun.commands[i] = "success" <=> fate'[r.exec][i] = "applied"
      BY <1>3, <1>7, <2>2, <3>1 DEF Tells
    <3> QED BY <1>3, <3>2, <3>3 DEF Tells, HasUnknown
  <2> QED BY <2>1, <2>2
<1>12. Handling'
  <2>1. Tells(work', fate'[r.exec], under'[r.exec])
    <3>1. under' = under
      BY <1>4
    <3> QED BY <1>5, <1>11, <3>1 DEF Tells
  <2>2. ~HasUnknown(work')
    BY <1>3, <1>5 DEF HasUnknown
  <2>3. begun.selected = None => \A i \in Commands : fate'[r.exec][i] \in Untouched
    <3>1. begun.selected = None => \A i \in Commands : fate[r.exec][i] \in Untouched
      BY <1>1, <1>3, <1>6 DEF Stored
    <3> QED BY <3>1, <1>8b DEF Untouched
  <2>4. ~r.retry => /\ \A i \in Commands : fate'[r.exec][i] \notin {"refused", "broken", "released"}
                    /\ store'[r.exec] = None
    BY <1>1, <1>2, <1>7, <1>8 DEF Stored, Untouched
  <2> QED BY <1>5, <1>10, <2>1, <2>2, <2>3, <2>4 DEF Handling
<1>13. Stored'
  <2> SUFFICES ASSUME NEW e \in Executions
               PROVE  IF store'[e] = None THEN \A i \in Commands : fate'[e][i] \in Untouched \cup {"open"}
                      ELSE /\ Tells(store'[e], fate'[e], under'[e])
                           /\ store'[e].status = "success" => Unfinished(store'[e]) = {}
                           /\ store'[e].selected = None =>
                                  \A i \in Commands : fate'[e][i] \in Untouched \cup {"open"}
    BY DEF Stored
  <2>1. CASE e # r.exec
    BY <1>4, <1>7, <1>8, <2>1 DEF Stored
  <2>2. CASE e = r.exec /\ row = None
    BY <1>1, <1>7, <1>8, <2>2 DEF Stored
  <2>3. CASE e = r.exec /\ row # None
    <3>1. store'[e] = begun /\ begun # None
      BY <1>3, <1>8, <2>3, RecordsAssumption
    <3>2. begun.selected = None => \A i \in Commands : fate'[e][i] \in Untouched
      <4>1. begun.selected = None => \A i \in Commands : fate[e][i] \in Untouched
        BY <1>1, <1>3, <1>6, <2>3 DEF Stored
      <4> QED BY <4>1, <1>8b, <2>3 DEF Untouched
    <3> QED BY <1>3, <1>4, <1>11, <2>3, <3>1, <3>2
  <2> QED BY <2>1, <2>2, <2>3
<1>14. OpenFrames' /\ SequentialDelivery'
  <2>1. \A e \in Executions, i \in Commands : fate'[e][i] # "open"
    BY <1>1, <1>7 DEF OpenFrames
  <2>2. \A e \in Executions, i \in Commands :
            \/ fate'[e][i] = fate[e][i]
            \/ fate[e][i] = "unobserved" /\ fate'[e][i] = "released"
    BY <1>8b, <1>7
  <2>3. SequentialDelivery'
    BY <2>2 DEF SequentialDelivery
  <2> QED BY <1>10, <2>1, <2>3 DEF OpenFrames
<1> QED BY <1>9, <1>10, <1>12, <1>13, <1>14

-----------------------------------------------------------------------------
(* A step of the holder that leaves the rows, the fates and the commands of *)
(* the working copy alone.                                                 *)
LEMMA ChoiceInv ==
    ASSUME IInv, NEW c \in Calls, call[c].pc \in {"selecting", "sending"},
           NEW pc \in {"sending", "finishing"}, Goto(c, pc),
           ids' \in SUBSET Accounts, current' \in Accounts, cursor' \in Accounts,
           work' \in Row, work'.commands = work.commands, work'.status = work.status,
           work'.selected # None, pc = "sending" => Unfinished(work) # {} /\ current' \in ids',
           UNCHANGED <<store, account, holder, history>>
    PROVE  IInv'
<1> USE DEF IInv
<1>1. /\ holder = c /\ holder # None /\ Exec = call[c].request.exec /\ Exec \in Executions
      /\ call[c].request \in Request /\ work \in Row
  BY HolderKnown DEF InHandler
<1>2. /\ call' \in [Calls -> CallRecord] /\ call'[c].pc = pc /\ call'[c].request = call[c].request
      /\ \A d \in Calls \ {c} : call'[d] = call[d]
  BY GotoMoves DEF CallStates
<1>3. TypeOK'
  BY <1>2 DEF TypeOK, CallRecord, history
<1>4. Holding' /\ Exec' = Exec /\ holder' = holder
  BY <1>1, <1>2, RecordsAssumption DEF Holding, InHandler, Exec
<1>5. \A i \in Commands : fate[Exec][i] # "open" /\ fate[Exec][i] # "unobserved"
  BY <1>1 DEF OpenFrames, Handling, Tells, HasUnknown
<1>6. Unfinished(work') = Unfinished(work) /\ HasUnknown(work') = HasUnknown(work)
  BY DEF Unfinished, HasUnknown
<1>7. Handling'
  <2>1. Tells(work', fate[Exec], under[Exec])
    BY <1>1, <1>5 DEF Handling, Tells
  <2>2. fate' = fate /\ under' = under
    BY DEF history
  <2>3. call[c].pc # "finishing" /\ call[c].pc # "written" /\ pc # "selecting" /\ pc # "written"
    OBVIOUS
  <2> QED BY <1>1, <1>2, <1>4, <1>6, <2>1, <2>2, <2>3 DEF Handling
<1>8. Stored' /\ SequentialDelivery'
  BY DEF Stored, SequentialDelivery, history
<1>9. OpenFrames'
  <2>1. \A e \in Executions, i \in Commands : fate[e][i] # "open"
    BY <1>1 DEF OpenFrames
  <2> QED BY <1>2, <1>4, <1>1, <2>1 DEF OpenFrames, history
<1> QED BY <1>3, <1>4, <1>7, <1>8, <1>9

LEMMA SelectInv ==
    ASSUME IInv, NEW c \in Calls, Select(c)
    PROVE  IInv'
<1>1. Eligible \in SUBSET Accounts /\ current' \in Eligible
  BY RoundRobinChooses DEF Select, Eligible
<1>2. work \in Row
  BY HolderKnown DEF Select, InHandler
<1>3. /\ work' \in Row /\ work'.commands = work.commands /\ work'.status = work.status
      /\ work'.selected = current'
  BY <1>1, <1>2 DEF Select, Row
<1>4. current' # None
  BY <1>1, NumbersAreNat, NoneAssumption
<1> DEFINE pc == IF Unfinished(work) = {} THEN "finishing" ELSE "sending"
<1>5. pc \in {"sending", "finishing"} /\ (pc = "sending" => Unfinished(work) # {})
  OBVIOUS
<1> HIDE DEF pc
<1>6. Goto(c, pc)
  BY DEF Select, pc
<1> QED BY <1>1, <1>3, <1>4, <1>5, <1>6, ChoiceInv DEF Select

(* The handler gives the lock back: what it saved, if anything, tells what *)
(* became of the commands, and no frame is out any more.                   *)
LEMMA ReleaseInv ==
    ASSUME IInv, TypeOK', holder' = None, work' = None,
           \A c \in Calls : /\ call'[c].pc \notin InHandler
                            /\ call'[c].pc # "idle" => call'[c].request \in Request,
           UNCHANGED under, Stored', \A e \in Executions, i \in Commands :
               /\ fate'[e][i] # "open"
               /\ fate'[e][i] = fate[e][i] \/ fate[e][i] = "open"
    PROVE  IInv'
<1> USE DEF IInv
<1>1. Holding' /\ Handling' /\ OpenFrames'
  BY NoneAssumption DEF Holding, Handling, OpenFrames
<1>2. SequentialDelivery'
  BY DEF SequentialDelivery
<1> QED BY <1>1, <1>2

LEMMA EndsInv ==
    ASSUME IInv, NEW c \in Calls, NoAccount(c) \/ Finish(c)
    PROVE  IInv'
<1> USE DEF IInv
<1>1. /\ holder = c /\ holder # None /\ Exec = call[c].request.exec /\ Exec \in Executions
      /\ call[c].request \in Request /\ work \in Row
  BY HolderKnown DEF InHandler, NoAccount, Finish
<1>2. PICK row \in Row : /\ row.commands = work.commands /\ row.verification = work.verification
                         /\ row.selected = work.selected
                         /\ row.status = "success" => Unfinished(work) = {}
                         /\ store' = [store EXCEPT ![Exec] = row] /\ Answer(c, row)
  <2> DEFINE row == [work EXCEPT !.status =
                        IF call[c].pc = "finishing" /\ Unfinished(work) = {} THEN "success" ELSE "failure"]
  <2>1. /\ row \in Row /\ row.commands = work.commands /\ row.verification = work.verification
        /\ row.selected = work.selected /\ (row.status = "success" => Unfinished(work) = {})
    BY <1>1 DEF Row, RowStates
  <2>2. store' = [store EXCEPT ![Exec] = row] /\ Answer(c, row)
    BY <1>1 DEF NoAccount, Finish, Save
  <2> HIDE DEF row
  <2> QED BY <2>1, <2>2
<1>3. /\ call' \in [Calls -> CallRecord] /\ call'[c].pc = "answered" /\ call'[c].request = call[c].request
      /\ \A d \in Calls \ {c} : call'[d] = call[d]
  BY <1>2, AnswerMoves
<1>4. holder' = None /\ work' = None /\ ids' = {} /\ current' = None /\ UNCHANGED <<cursor, account, history>>
  BY DEF NoAccount, Finish, Release
<1>5. TypeOK'
  BY <1>2, <1>3, <1>4 DEF TypeOK, CallRecord, history
<1>6. \A e \in Executions, i \in Commands : fate[e][i] # "open"
  BY <1>1 DEF OpenFrames, NoAccount, Finish
<1>7. Stored'
  <2>1. Tells(row, fate[Exec], under[Exec]) /\ row # None
    BY <1>1, <1>2, RecordsAssumption DEF Handling, Tells
  <2>2. row.selected = None => \A i \in Commands : fate[Exec][i] \in Untouched
    BY <1>1, <1>2 DEF Handling
  <2>3. row.status = "success" => Unfinished(row) = {}
    BY <1>2 DEF Unfinished
  <2>4. store'[Exec] = row /\ \A e \in Executions \ {Exec} : store'[e] = store[e]
    BY <1>1, <1>2 DEF TypeOK
  <2>5. fate' = fate /\ under' = under
    BY <1>4 DEF history
  <2> QED BY <2>1, <2>2, <2>3, <2>4, <2>5 DEF Stored
<1>8. \A d \in Calls : /\ call'[d].pc \notin InHandler
                       /\ call'[d].pc # "idle" => call'[d].request \in Request
  BY <1>1, <1>3 DEF Holding, InHandler
<1> QED BY <1>4, <1>5, <1>6, <1>7, <1>8, ReleaseInv DEF history

(* A failed save, or the end of the process.                               *)
LEMMA GiveUpInv ==
    ASSUME IInv, (\E c \in Calls : StoreFails(c)) \/ Crash
    PROVE  IInv'
<1> USE DEF IInv
<1>1. /\ holder' = None /\ work' = None /\ ids' = {} /\ current' = None /\ fate' = FatesForgotten
      /\ UNCHANGED <<store, cursor, under, released>>
  BY DEF StoreFails, Crash, Release
<1>2. /\ fate' \in [Executions -> [Commands -> Fates]]
      /\ \A e \in Executions, i \in Commands :
             fate'[e][i] = IF fate[e][i] = "open" THEN "unrecorded" ELSE fate[e][i]
  BY <1>1 DEF FatesForgotten, TypeOK, Fates
<1>3. /\ call' \in [Calls -> CallRecord]
      /\ \A c \in Calls : /\ call'[c].pc \notin InHandler
                          /\ call'[c].pc # "idle" => call'[c].request \in Request
  <2>1. CASE Crash
    <3>1. \A c \in Calls : call'[c] = IF call[c].pc \in Ended \cup {"idle"} THEN call[c]
                                      ELSE [call[c] EXCEPT !.pc = "lost"]
      BY <2>1 DEF Crash
    <3>2. \A c \in Calls : [call[c] EXCEPT !.pc = "lost"] \in CallRecord
      <4>1. \A k \in CallRecord : [k EXCEPT !.pc = "lost"] \in CallRecord
        BY DEF CallRecord, CallStates
      <4> QED BY <4>1 DEF TypeOK, CallRecord
    <3>3. \A c \in Calls : call'[c] \in CallRecord
      <4>1. \A c \in Calls : call[c] \in CallRecord
        BY DEF TypeOK, CallRecord
      <4> QED BY <3>1, <3>2, <4>1
    <3>4. call' \in [Calls -> CallRecord]
      BY <2>1, <3>3 DEF Crash
    <3>5. \A c \in Calls : [call[c] EXCEPT !.pc = "lost"].pc = "lost"
                           /\ [call[c] EXCEPT !.pc = "lost"].request = call[c].request
      BY DEF TypeOK
    <3> QED BY <3>1, <3>4, <3>5 DEF Holding, InHandler, Ended
  <2>2. CASE \E c \in Calls : StoreFails(c)
    <3>1. PICK c \in Calls : call[c].pc \in InHandler /\ Goto(c, "lost")
      BY <2>2 DEF StoreFails, InHandler
    <3>2. /\ call' \in [Calls -> CallRecord] /\ call'[c].pc = "lost" /\ call'[c].request = call[c].request
          /\ \A d \in Calls \ {c} : call'[d] = call[d]
      BY <3>1, GotoMoves DEF CallStates
    <3> QED BY <3>1, <3>2 DEF Holding, InHandler
  <2> QED BY <2>1, <2>2
<1>4. account' \in [Accounts -> AccountStates]
  BY DEF StoreFails, Crash, TypeOK, AccountStates
<1>5. TypeOK'
  BY <1>1, <1>2, <1>3, <1>4 DEF TypeOK, CallRecord
<1>6. Stored'
  <2>1. \A row : \A e \in Executions : Tells(row, fate[e], under[e]) => Tells(row, fate'[e], under'[e])
    BY <1>1, <1>2 DEF Tells
  <2>2. \A e \in Executions, i \in Commands : fate'[e][i] \in {fate[e][i], "unrecorded"}
    BY <1>2
  <2> QED BY <1>1, <2>1, <2>2 DEF Stored, Untouched
<1> QED BY <1>1, <1>2, <1>3, <1>5, <1>6, ReleaseInv

-----------------------------------------------------------------------------
(* The fate of the holder's command n becomes f.                           *)
FateBecomes(n, f) == fate' = [fate EXCEPT ![Exec] = [fate[Exec] EXCEPT ![n] = f]]

LEMMA OneFateChanges ==
    ASSUME IInv, Exec \in Executions, NEW n \in Commands, NEW f \in Fates, FateBecomes(n, f)
    PROVE  /\ fate' \in [Executions -> [Commands -> Fates]] /\ fate'[Exec][n] = f
           /\ \A i \in Commands \ {n} : fate'[Exec][i] = fate[Exec][i]
           /\ \A e \in Executions \ {Exec} : fate'[e] = fate[e]
BY DEF FateBecomes, IInv, TypeOK

(* The holder writes the frame of its next command.                        *)
LEMMA WriteInv ==
    ASSUME IInv, NEW c \in Calls, WriteFrame(c)
    PROVE  IInv'
<1> USE DEF IInv
<1> DEFINE n == NextCommand(work)
           v == call[c].request.verification
<1>1. /\ holder = c /\ holder # None /\ Exec = call[c].request.exec /\ Exec \in Executions
      /\ call[c].request \in Request /\ work \in Row /\ call[c].pc = "sending"
  BY HolderKnown DEF InHandler, WriteFrame
<1>2. /\ n \in Commands /\ work.commands[n] # "success" /\ Unfinished(work) # {}
      /\ \A j \in Commands : j < n => work.commands[j] = "success"
  BY <1>1, NextIsFirst DEF Handling
<1>3. /\ FateBecomes(n, "open")
      /\ under' = [under EXCEPT ![Exec] = [under[Exec] EXCEPT ![n] = v]]
      /\ Goto(c, "written") /\ UNCHANGED <<store, cursor, account, holder, work, ids, current, released>>
  BY <1>1 DEF WriteFrame, SetFate, FateBecomes, running, TypeOK
<1>4. v \in Verifications \cup {None}
  BY <1>1 DEF Request
<1> HIDE DEF n, v
<1>5. /\ fate' \in [Executions -> [Commands -> Fates]] /\ fate'[Exec][n] = "open"
      /\ \A i \in Commands \ {n} : fate'[Exec][i] = fate[Exec][i]
      /\ \A e \in Executions \ {Exec} : fate'[e] = fate[e]
  BY <1>1, <1>2, <1>3, OneFateChanges DEF Fates
<1>6. /\ under' \in [Executions -> [Commands -> Verifications \cup {None}]] /\ under'[Exec][n] = v
      /\ \A i \in Commands \ {n} : under'[Exec][i] = under[Exec][i]
      /\ \A e \in Executions \ {Exec} : under'[e] = under[e]
  BY <1>1, <1>2, <1>3, <1>4 DEF TypeOK
<1>7. /\ call' \in [Calls -> CallRecord] /\ call'[c].pc = "written" /\ call'[c].request = call[c].request
      /\ \A d \in Calls \ {c} : call'[d] = call[d]
  BY <1>3, GotoMoves DEF CallStates
<1>8. TypeOK'
  BY <1>3, <1>5, <1>6, <1>7 DEF TypeOK, CallRecord
<1>9. Holding' /\ Exec' = Exec /\ holder' = holder /\ work' = work
  BY <1>1, <1>3, <1>7 DEF Holding, InHandler, Exec
<1>10. /\ fate[Exec][n] \notin {"applied", "unobserved"}
       /\ \A i \in Commands : fate[Exec][i] # "unobserved"
       /\ \A j \in Commands : j < n => fate[Exec][j] = "applied"
  BY <1>1, <1>2 DEF Handling, Tells, HasUnknown
<1>11. \A row \in Row : Tells(row, fate[Exec], under[Exec]) => Tells(row, fate'[Exec], under'[Exec])
  BY <1>2, <1>5, <1>6, <1>10 DEF Tells
<1>12. Handling'
  <2>1. Tells(work, fate'[Exec], under'[Exec]) /\ work.selected # None
    BY <1>1, <1>11 DEF Handling
  <2>2. ~call[c].request.retry =>
            \A i \in Commands : /\ fate'[Exec][i] \notin {"refused", "broken", "released"}
                                /\ store'[Exec] # None => fate'[Exec][i] # "unrecorded"
    BY <1>1, <1>2, <1>3, <1>5 DEF Handling
  <2>3. under'[Exec][NextCommand(work)] = v
    BY <1>6 DEF n
  <2>4. ~HasUnknown(work) /\ work.status = "running" /\ Unfinished(work) # {} /\ current \in ids
    BY <1>1 DEF Handling
  <2> QED BY <1>1, <1>3, <1>7, <1>9, <2>1, <2>2, <2>3, <2>4 DEF Handling, v
<1>13. Stored'
  <2> SUFFICES ASSUME NEW e \in Executions
               PROVE  IF store[e] = None THEN \A i \in Commands : fate'[e][i] \in Untouched \cup {"open"}
                      ELSE /\ Tells(store[e], fate'[e], under'[e])
                           /\ store[e].status = "success" => Unfinished(store[e]) = {}
                           /\ store[e].selected = None =>
                                  \A i \in Commands : fate'[e][i] \in Untouched \cup {"open"}
    BY <1>3 DEF Stored
  <2>1. CASE e # Exec
    BY <1>5, <1>6, <2>1 DEF Stored
  <2>2. CASE e = Exec
    <3>1. store[e] \in Row \cup {None}
      BY DEF TypeOK
    <3>2. \A i \in Commands : fate'[e][i] = fate[e][i] \/ fate'[e][i] = "open"
      BY <1>2, <1>5, <2>2
    <3> QED BY <1>11, <2>2, <3>1, <3>2 DEF Stored
  <2> QED BY <2>1, <2>2
<1>14. OpenFrames'
  <2>1. \A e \in Executions, i \in Commands : fate[e][i] # "open"
    BY <1>1 DEF OpenFrames
  <2>2. \A e \in Executions, i \in Commands : fate'[e][i] = "open" <=> e = Exec /\ i = n
    BY <1>2, <1>5, <2>1
  <2> QED BY <1>1, <1>7, <1>9, <2>2 DEF OpenFrames, n
<1>15. SequentialDelivery'
  BY <1>1, <1>2, <1>5, <1>10, NumbersAreNat DEF SequentialDelivery
<1> QED BY <1>8, <1>9, <1>12, <1>13, <1>14, <1>15

-----------------------------------------------------------------------------
(* A command that was tried is not the fate of any other, and was not      *)
(* successful, unknown or out under another handler before.                *)
LEMMA BeforeOutcome ==
    ASSUME IInv, NEW c \in Calls, call[c].pc \in {"sending", "written"}
    PROVE  /\ holder = c /\ holder # None /\ Exec = call[c].request.exec /\ Exec \in Executions
           /\ call[c].request \in Request /\ call[c].request.verification \in Verifications \cup {None}
           /\ work \in Row /\ work.status = "running" /\ work.selected # None
           /\ NextCommand(work) \in Commands /\ current \in ids
           /\ Tells(work, fate[Exec], under[Exec])
           /\ \A i \in Commands : /\ work.commands[i] # "unknown"
                                  /\ fate[Exec][i] # "unobserved"
                                  /\ i # NextCommand(work) => fate[Exec][i] # "open"
           /\ \A e \in Executions \ {Exec}, i \in Commands : fate[e][i] # "open"
           /\ fate[Exec][NextCommand(work)] # "applied"
           /\ \A j \in Commands : j < NextCommand(work) => fate[Exec][j] = "applied"
           /\ call[c].pc = "sending" => fate[Exec][NextCommand(work)] # "open"
           /\ call[c].pc = "written" =>
                  /\ fate[Exec][NextCommand(work)] = "open"
                  /\ under[Exec][NextCommand(work)] = call[c].request.verification
<1> USE DEF IInv
<1>1. /\ holder = c /\ holder # None /\ Exec = call[c].request.exec /\ Exec \in Executions
      /\ call[c].request \in Request /\ work \in Row
  BY HolderKnown DEF InHandler
<1>2. /\ NextCommand(work) \in Commands /\ work.commands[NextCommand(work)] # "success"
      /\ \A j \in Commands : j < NextCommand(work) => work.commands[j] = "success"
  BY <1>1, NextIsFirst DEF Handling
<1>3. /\ Tells(work, fate[Exec], under[Exec]) /\ ~HasUnknown(work) /\ work.status = "running"
      /\ current \in ids /\ work.selected # None
      /\ call[c].pc = "written" => under[Exec][NextCommand(work)] = call[c].request.verification
  BY <1>1 DEF Handling
<1>4. \A e \in Executions, i \in Commands :
          fate[e][i] = "open" <=> call[c].pc = "written" /\ e = Exec /\ i = NextCommand(work)
  BY <1>1 DEF OpenFrames
<1>5. call[c].request.verification \in Verifications \cup {None}
  BY <1>1 DEF Request
<1>6. \A i \in Commands : /\ work.commands[i] # "unknown" /\ fate[Exec][i] # "unobserved"
                          /\ work.commands[i] = "success" <=> fate[Exec][i] = "applied"
  BY <1>3 DEF Tells, HasUnknown
<1>7. /\ fate[Exec][NextCommand(work)] # "applied"
      /\ \A j \in Commands : j < NextCommand(work) => fate[Exec][j] = "applied"
  BY <1>2, <1>6
<1>8. /\ \A i \in Commands : i # NextCommand(work) => fate[Exec][i] # "open"
      /\ \A e \in Executions \ {Exec}, i \in Commands : fate[e][i] # "open"
      /\ fate[Exec][NextCommand(work)] = "open" <=> call[c].pc = "written"
  BY <1>1, <1>2, <1>4
<1> QED BY <1>1, <1>2, <1>3, <1>5, <1>6, <1>7, <1>8

(* The command has an outcome, and the row is saved with it.  The status   *)
(* of the row says applied and unobserved, and nothing else, of the fate.  *)
LEMMA RecordInv ==
    ASSUME IInv, NEW c \in Calls, call[c].pc \in {"sending", "written"},
           NEW s \in {"success", "failure", "unknown"}, Record(c, NextCommand(work), s),
           NEW f \in Fates \ {"open"},
           FateBecomes(NextCommand(work), f),
           s = "success" <=> f = "applied", s = "unknown" <=> f = "unobserved",
           s = "unknown" => call[c].pc = "written",
           ids' \in SUBSET Accounts, s = "success" => current \in ids',
           UNCHANGED <<cursor, current, account, holder, under, released>>
    PROVE  IInv'
<1> DEFINE n == NextCommand(work)
           v == call[c].request.verification
           row == WithStatus(Marked(work, n, v), n, s)
           pc == IF s = "success" /\ Unfinished(row) # {} THEN "sending" ELSE "finishing"
<1>1. /\ holder = c /\ holder # None /\ Exec = call[c].request.exec /\ Exec \in Executions
      /\ call[c].request \in Request /\ v \in Verifications \cup {None}
      /\ work \in Row /\ work.status = "running" /\ work.selected # None
      /\ n \in Commands /\ current \in ids /\ Tells(work, fate[Exec], under[Exec])
      /\ \A i \in Commands : work.commands[i] # "unknown"
      /\ call[c].pc = "written" => under[Exec][n] = v
  BY BeforeOutcome
<1>before.
      /\ \A i \in Commands : /\ fate[Exec][i] # "unobserved"
                             /\ i # n => fate[Exec][i] # "open"
                             /\ i < n => fate[Exec][i] = "applied"
      /\ \A e \in Executions \ {Exec}, i \in Commands : fate[e][i] # "open"
  BY BeforeOutcome
<1>2. /\ row \in Row /\ row.status = "running" /\ row.selected # None
      /\ \A i \in Commands :
             /\ row.commands[i] = IF i = n THEN s ELSE work.commands[i]
             /\ row.verification[i] = IF i = n /\ v # None THEN v ELSE work.verification[i]
  <2> DEFINE marked == Marked(work, n, v)
  <2>1. /\ marked \in Row /\ marked.status = "running" /\ marked.selected = work.selected
        /\ marked.commands = work.commands
        /\ \A i \in Commands :
               marked.verification[i] = IF i = n /\ v # None THEN v ELSE work.verification[i]
    BY <1>1, MarkedIsRow
  <2>2. n \in Commands /\ s \in CommandStates /\ work.selected # None
    BY <1>1 DEF CommandStates
  <2> HIDE DEF marked, n, v
  <2>3. /\ row \in Row /\ row.status = marked.status /\ row.selected = marked.selected
        /\ row.verification = marked.verification
        /\ \A i \in Commands : row.commands[i] = IF i = n THEN s ELSE marked.commands[i]
    <3>1. row = WithStatus(marked, n, s)
      BY DEF marked
    <3> HIDE DEF row
    <3> QED BY <2>1, <2>2, <3>1, WithStatusIsRow
  <2> HIDE DEF row
  <2> QED BY <2>1, <2>2, <2>3
<1>3. store' = [store EXCEPT ![Exec] = row] /\ work' = row /\ Goto(c, pc)
  BY <1>1 DEF Record, Save
<1>4. pc \in {"sending", "finishing"} /\ (pc = "sending" => s = "success" /\ Unfinished(row) # {})
  OBVIOUS
<1> HIDE DEF n, v, row, pc
<1>5. /\ fate' \in [Executions -> [Commands -> Fates]]
      /\ \A e \in Executions \ {Exec} : fate'[e] = fate[e]
  BY <1>1, OneFateChanges DEF n
<1>after. fate'[Exec][n] = f /\ \A i \in Commands \ {n} : fate'[Exec][i] = fate[Exec][i]
  BY <1>1, OneFateChanges DEF n
<1>6. /\ store' \in [Executions -> Row \cup {None}] /\ store'[Exec] = row
      /\ \A e \in Executions \ {Exec} : store'[e] = store[e]
  BY <1>1, <1>2, <1>3 DEF IInv, TypeOK
<1>7. /\ call' \in [Calls -> CallRecord] /\ call'[c].pc = pc /\ call'[c].request = call[c].request
      /\ \A d \in Calls \ {c} : call'[d] = call[d]
  BY <1>3, <1>4, GotoMoves DEF CallStates
<1>8. TypeOK'
  BY <1>2, <1>3, <1>5, <1>6, <1>7 DEF IInv, TypeOK, CallRecord
<1>9. Holding' /\ Exec' = Exec /\ holder' = c /\ work' = row /\ row # None
  BY <1>1, <1>2, <1>3, <1>4, <1>7, RecordsAssumption DEF IInv, Holding, InHandler, Exec
<1>10. Tells(row, fate'[Exec], under[Exec])
  <2>1. \A i \in Commands \ {n} :
            /\ row.commands[i] = work.commands[i] /\ fate'[Exec][i] = fate[Exec][i]
            /\ fate'[Exec][i] # "unobserved"
    BY <1>1, <1>2, <1>before, <1>after
  <2>2. row.commands[n] = s /\ fate'[Exec][n] = f /\ (under[Exec][n] # None /\ f = "unobserved" => row.verification[n] = under[Exec][n])
    <3>1. f = "unobserved" => s = "unknown" /\ call[c].pc = "written"
      OBVIOUS
    <3> QED BY <1>1, <1>2, <1>after, <3>1
  <2> QED BY <1>1, <2>1, <2>2 DEF Tells
<1>11. Handling'
  <2>1. Tells(row, fate'[Exec], under'[Exec])
    BY <1>10
  <2>2. pc = "sending" => ~HasUnknown(row) /\ Unfinished(row) # {} /\ current' \in ids'
    BY <1>1, <1>2, <1>4 DEF HasUnknown
  <2>3. pc = "sending" /\ ~call[c].request.retry =>
            \A i \in Commands : fate'[Exec][i] \notin {"refused", "broken", "released", "unrecorded"}
    <3>1. pc = "sending" => f = "applied"
      BY <1>4
    <3>2. ~call[c].request.retry =>
              \A i \in Commands \ {n} :
                  fate[Exec][i] \notin {"refused", "broken", "released", "unrecorded"}
      <4>1. ~call[c].request.retry =>
                \A i \in Commands : /\ fate[Exec][i] \notin {"refused", "broken", "released"}
                                    /\ store[Exec] # None => fate[Exec][i] # "unrecorded"
        BY <1>1 DEF IInv, Handling
      <4>2. \A i \in Commands : i < n => fate[Exec][i] = "applied"
        BY <1>before
      <4>3. \A i \in Commands : i > n => fate[Exec][i] = "none"
        BY <1>1, BeforeOutcome DEF IInv, SequentialDelivery, n
      <4> QED BY <1>1, <4>1, <4>2, <4>3, NumbersAreNat
    <3> QED BY <3>1, <3>2, <1>after
  <2> QED BY <1>1, <1>2, <1>4, <1>7, <1>9, <2>1, <2>2, <2>3 DEF Handling
<1>12. Stored'
  <2>1. row.status # "success"
    BY <1>2
  <2>2. UNCHANGED under
    OBVIOUS
  <2> SUFFICES ASSUME NEW e \in Executions
               PROVE  IF store'[e] = None THEN \A i \in Commands : fate'[e][i] \in Untouched \cup {"open"}
                      ELSE /\ Tells(store'[e], fate'[e], under'[e])
                           /\ store'[e].status = "success" => Unfinished(store'[e]) = {}
                           /\ store'[e].selected = None =>
                                  \A i \in Commands : fate'[e][i] \in Untouched \cup {"open"}
    BY DEF Stored
  <2>3. CASE e = Exec
    BY <1>2, <1>6, <1>9, <1>10, <2>1, <2>2, <2>3
  <2>4. CASE e # Exec
    BY <1>5, <1>6, <2>2, <2>4 DEF IInv, Stored
  <2> QED BY <2>3, <2>4
<1>13. OpenFrames'
  <2>1. \A e \in Executions, i \in Commands : fate'[e][i] # "open"
    BY <1>before, <1>5, <1>after
  <2>2. call'[holder'].pc # "written"
    BY <1>4, <1>7, <1>9
  <2> QED BY <2>1, <2>2 DEF OpenFrames
<1>14. SequentialDelivery'
  <2> SUFFICES ASSUME NEW e \in Executions, NEW i \in Commands, NEW j \in Commands,
                      i < j, fate'[e][j] # "none"
               PROVE  fate'[e][i] = "applied"
    BY DEF SequentialDelivery
  <2>1. CASE e # Exec
    BY <1>5, <2>1 DEF IInv, SequentialDelivery
  <2>2. CASE e = Exec /\ j = n
    <3>1. i # n /\ fate[Exec][i] = "applied"
      <4>1. i \in Nat /\ n \in Nat /\ i < n
        BY <1>1, <2>2, NumbersAreNat
      <4> QED BY <1>before, <4>1
    <3> QED BY <1>after, <2>2, <3>1
  <2>3. CASE e = Exec /\ j # n
    <3>1. fate[e][i] = "applied" /\ i # n
      <4>1. fate[e][j] # "none" /\ fate[Exec][n] # "applied"
        BY <1>after, <2>3, BeforeOutcome DEF n
      <4> QED BY <2>3, <4>1 DEF IInv, SequentialDelivery
    <3> QED BY <1>after, <2>3, <3>1
  <2> QED BY <2>1, <2>2, <2>3
<1> QED BY <1>8, <1>9, <1>11, <1>12, <1>13, <1>14 DEF IInv

(* The account is given up for another, the frame refused or not written.  *)
LEMMA SwitchInv ==
    ASSUME IInv, NEW c \in Calls, call[c].pc \in {"sending", "written"},
           HasOther, SwitchAccount(c, NextCommand(work)),
           NEW f \in Fates \ {"open"},
           FateBecomes(NextCommand(work), f),
           f = fate[Exec][NextCommand(work)] \/ f = "forbidden",
           UNCHANGED <<account, holder, under, released>>
    PROVE  IInv'
<1> DEFINE n == NextCommand(work)
           v == call[c].request.verification
           row == [Marked(work, n, v) EXCEPT !.selected = current']
<1>1. /\ holder = c /\ holder # None /\ Exec = call[c].request.exec /\ Exec \in Executions
      /\ call[c].request \in Request /\ v \in Verifications \cup {None}
      /\ work \in Row /\ work.status = "running" /\ work.selected # None
      /\ n \in Commands /\ current \in ids /\ Tells(work, fate[Exec], under[Exec])
      /\ \A i \in Commands : work.commands[i] # "unknown"
  BY BeforeOutcome
<1>before.
      /\ \A i \in Commands : /\ fate[Exec][i] # "unobserved"
                             /\ i # n => fate[Exec][i] # "open"
                             /\ i < n => fate[Exec][i] = "applied"
      /\ fate[Exec][n] # "applied"
      /\ \A e \in Executions \ {Exec}, i \in Commands : fate[e][i] # "open"
  BY BeforeOutcome
<1>2. ids' \in SUBSET Accounts /\ current' \in ids' /\ current' \in Accounts /\ current' # None
  <2>1. ids' = ids \ {current} /\ ids' # {} /\ ids' \in SUBSET Accounts
    BY DEF IInv, TypeOK, SwitchAccount, HasOther
  <2>2. current' \in ids'
    BY <2>1, RoundRobinChooses DEF SwitchAccount
  <2> QED BY <2>1, <2>2, NumbersAreNat, NoneAssumption
<1>3. /\ row \in Row /\ row.status = "running" /\ row.selected = current' /\ row.commands = work.commands
  <2> DEFINE marked == Marked(work, n, v)
  <2>1. /\ marked \in Row /\ marked.status = work.status /\ marked.commands = work.commands
    BY <1>1, MarkedIsRow
  <2> HIDE DEF marked
  <2>2. row = [marked EXCEPT !.selected = current']
    BY DEF marked
  <2> HIDE DEF row
  <2> QED BY <1>1, <1>2, <2>1, <2>2 DEF Row
<1>4. cursor' = current' /\ work' = row /\ Goto(c, "sending") /\ store' = store
  BY DEF SwitchAccount
<1> HIDE DEF n, v, row
<1>5. /\ fate' \in [Executions -> [Commands -> Fates]]
      /\ \A e \in Executions \ {Exec} : fate'[e] = fate[e]
  BY <1>1, OneFateChanges DEF n
<1>after. fate'[Exec][n] = f /\ \A i \in Commands \ {n} : fate'[Exec][i] = fate[Exec][i]
  BY <1>1, OneFateChanges DEF n
<1>6. /\ call' \in [Calls -> CallRecord] /\ call'[c].pc = "sending" /\ call'[c].request = call[c].request
      /\ \A d \in Calls \ {c} : call'[d] = call[d]
  BY <1>4, GotoMoves DEF CallStates
<1>7. TypeOK'
  BY <1>2, <1>3, <1>4, <1>5, <1>6 DEF IInv, TypeOK, CallRecord
<1>8. Holding' /\ Exec' = Exec /\ holder' = c /\ work' = row
  BY <1>1, <1>3, <1>4, <1>6, RecordsAssumption DEF IInv, Holding, InHandler, Exec
<1>9. \A i \in Commands : fate'[Exec][i] \in {fate[Exec][i], "forbidden"} /\ fate'[Exec][i] # "open"
  <2>1. f \in {fate[Exec][n], "forbidden"} /\ f # "open"
    BY DEF n
  <2> QED BY <1>before, <1>after, <2>1
<1>10. \A r : Tells(r, fate[Exec], under[Exec]) =>
           \A i \in Commands : /\ r.commands[i] = "success" <=> fate'[Exec][i] = "applied"
                               /\ r.commands[i] = "unknown" <=> fate'[Exec][i] = "unobserved"
                               /\ fate'[Exec][i] # "unobserved"
  <2>1. ASSUME NEW i \in Commands
        PROVE  /\ fate'[Exec][i] = "applied" <=> fate[Exec][i] = "applied"
               /\ fate'[Exec][i] # "unobserved" /\ fate[Exec][i] # "unobserved"
    <3>1. fate[Exec][i] # "unobserved" /\ fate'[Exec][i] \in {fate[Exec][i], "forbidden"}
      BY <1>before, <1>9
    <3>2. i = n => fate[Exec][i] # "applied" /\ (f # "applied")
      BY <1>before DEF n
    <3> QED BY <1>after, <3>1, <3>2
  <2> QED BY <2>1 DEF Tells
<1>11. Handling'
  <2>1. Tells(row, fate'[Exec], under[Exec])
    <3>1. \A i \in Commands : /\ work.commands[i] = "success" <=> fate'[Exec][i] = "applied"
                             /\ work.commands[i] # "unknown" /\ fate'[Exec][i] # "unobserved"
      BY <1>1, <1>10
    <3> QED BY <1>3, <3>1 DEF Tells
  <2>2. ~HasUnknown(row) /\ Unfinished(row) # {}
    BY <1>1, <1>3, NextIsFirst DEF IInv, Handling, HasUnknown, Unfinished
  <2>3. ~call[c].request.retry =>
            \A i \in Commands : /\ fate'[Exec][i] \notin {"refused", "broken", "released"}
                                /\ store'[Exec] # None => fate'[Exec][i] # "unrecorded"
    <3>1. ~call[c].request.retry =>
              \A i \in Commands : /\ fate[Exec][i] \notin {"refused", "broken", "released"}
                                  /\ store[Exec] # None => fate[Exec][i] # "unrecorded"
      BY <1>1 DEF IInv, Handling
    <3> QED BY <1>4, <1>9, <3>1
  <2> QED BY <1>1, <1>2, <1>3, <1>6, <1>8, <2>1, <2>2, <2>3 DEF Handling
<1>12. Stored'
  <2> SUFFICES ASSUME NEW e \in Executions
               PROVE  IF store[e] = None THEN \A i \in Commands : fate'[e][i] \in Untouched \cup {"open"}
                      ELSE /\ Tells(store[e], fate'[e], under[e])
                           /\ store[e].status = "success" => Unfinished(store[e]) = {}
                           /\ store[e].selected = None =>
                                  \A i \in Commands : fate'[e][i] \in Untouched \cup {"open"}
    BY <1>4 DEF Stored
  <2>1. CASE e # Exec
    BY <1>5, <2>1 DEF IInv, Stored
  <2>2. CASE e = Exec
    <3>1. \A r : Tells(r, fate[e], under[e]) => Tells(r, fate'[e], under[e])
      BY <1>10, <2>2 DEF Tells
    <3> QED BY <1>9, <2>2, <3>1 DEF IInv, Stored, Untouched
  <2> QED BY <2>1, <2>2
<1>13. OpenFrames'
  <2>1. \A e \in Executions, i \in Commands : fate'[e][i] # "open"
    BY <1>before, <1>5, <1>9
  <2> QED BY <1>6, <1>8, <2>1 DEF OpenFrames
<1>14. SequentialDelivery'
  <2> SUFFICES ASSUME NEW e \in Executions, NEW i \in Commands, NEW j \in Commands,
                      i < j, fate'[e][j] # "none"
               PROVE  fate'[e][i] = "applied"
    BY DEF SequentialDelivery
  <2>1. CASE e # Exec
    BY <1>5, <2>1 DEF IInv, SequentialDelivery
  <2>2. CASE e = Exec /\ j = n
    <3>1. fate[Exec][i] = "applied" /\ i # n
      <4>1. i \in Nat /\ n \in Nat /\ i < n
        BY <1>1, <2>2, NumbersAreNat
      <4> QED BY <1>before, <4>1
    <3> QED BY <1>after, <2>2, <3>1
  <2>3. CASE e = Exec /\ j # n
    <3>1. fate[e][i] = "applied" /\ i # n
      <4>1. fate[e][j] # "none" /\ fate[Exec][n] # "applied"
        BY <1>before, <1>after, <2>3
      <4> QED BY <2>3, <4>1 DEF IInv, SequentialDelivery
    <3> QED BY <1>after, <2>3, <3>1
  <2> QED BY <2>1, <2>2, <2>3
<1> QED BY <1>7, <1>8, <1>11, <1>12, <1>13, <1>14 DEF IInv

-----------------------------------------------------------------------------
(* The steps with an outcome are of these two kinds.                       *)
LEMMA OutcomeInv ==
    ASSUME IInv, NEW c \in Calls,
           \/ AccountUnavailable(c) \/ SendFails(c)
           \/ Applied(c) \/ Refused(c) \/ Forbidden(c) \/ Unobserved(c) \/ BrokenAfterWrite(c)
    PROVE  IInv'
<1> DEFINE n == NextCommand(work)
<1>1. call[c].pc \in {"sending", "written"}
  BY DEF AccountUnavailable, SendFails, Applied, Refused, Forbidden, Unobserved, BrokenAfterWrite
<1>2. /\ Exec = call[c].request.exec /\ Exec \in Executions /\ n \in Commands /\ current \in ids
      /\ fate[Exec] \in [Commands -> Fates] /\ ids \in SUBSET Accounts
      /\ fate[Exec][n] \notin {"applied", "unobserved"}
      /\ call[c].pc = "sending" => fate[Exec][n] # "open"
  BY <1>1, BeforeOutcome DEF IInv, TypeOK
<1> HIDE DEF n
<1>3. CASE AccountUnavailable(c) \/ SendFails(c)
  <2>1. FateBecomes(n, fate[Exec][n])
    BY <1>2, <1>3 DEF AccountUnavailable, SendFails, IInv, TypeOK, history, FateBecomes
  <2>2. fate[Exec][n] \in Fates \ {"open"} /\ call[c].pc = "sending"
    BY <1>2, <1>3 DEF AccountUnavailable, SendFails
  <2>3. CASE AccountUnavailable(c) /\ HasOther
    <3>1. SwitchAccount(c, n) /\ UNCHANGED <<account, holder, under, released>>
      BY <2>3 DEF AccountUnavailable, history, n
    <3> QED BY <1>1, <2>1, <2>2, <2>3, <3>1, SwitchInv DEF n
  <2>4. CASE ~(AccountUnavailable(c) /\ HasOther)
    <3>1. /\ Record(c, n, "failure") /\ ids' \in SUBSET Accounts
          /\ UNCHANGED <<cursor, current, account, holder, under, released>>
      BY <1>2, <1>3, <2>4 DEF AccountUnavailable, SendFails, history, n
    <3> QED BY <1>1, <1>2, <2>1, <2>2, <3>1, RecordInv DEF n
  <2> QED BY <2>3, <2>4
<1>4. CASE Forbidden(c)
  <2>1. /\ FateBecomes(n, "forbidden")
        /\ "forbidden" \in Fates \ {"open"}
    BY <1>2, <1>4 DEF Forbidden, SetFate, IInv, TypeOK, Fates, FateBecomes, n
  <2>2. CASE HasOther
    <3>1. SwitchAccount(c, n) /\ UNCHANGED <<account, holder, under, released>>
      BY <1>4, <2>2 DEF Forbidden, SetFate, n
    <3> QED BY <1>1, <2>1, <2>2, <3>1, SwitchInv DEF n
  <2>3. CASE ~HasOther
    <3>1. /\ Record(c, n, "failure") /\ ids' \in SUBSET Accounts
          /\ UNCHANGED <<cursor, current, account, holder, under, released>>
      BY <1>2, <1>4, <2>3 DEF Forbidden, SetFate, n
    <3> QED BY <1>1, <2>1, <3>1, RecordInv DEF n
  <2> QED BY <2>2, <2>3
<1>5. CASE Applied(c) \/ Refused(c) \/ Unobserved(c) \/ BrokenAfterWrite(c)
  <2>1. /\ call[c].pc = "written" /\ UNCHANGED <<cursor, account, holder, ids, current, under, released>>
        /\ \/ SetFate(c, "applied") /\ Record(c, n, "success")
           \/ SetFate(c, "unobserved") /\ Record(c, n, "unknown")
           \/ SetFate(c, "refused") /\ Record(c, n, "failure")
           \/ SetFate(c, "broken") /\ Record(c, n, "failure")
    BY <1>5 DEF Applied, Refused, Unobserved, BrokenAfterWrite, SetFate, n
  <2>2. \A f : SetFate(c, f) => FateBecomes(n, f)
    BY <1>2 DEF SetFate, IInv, TypeOK, FateBecomes, n
  <2>3. {"applied", "unobserved", "refused", "broken"} \subseteq Fates \ {"open"}
    BY DEF Fates
  <2> QED BY <1>1, <1>2, <2>1, <2>2, <2>3, RecordInv DEF n
<1> QED BY <1>3, <1>4, <1>5

LEMMA NextInv == IInv /\ [Next]_vars => IInv'
<1> SUFFICES ASSUME IInv, [Next]_vars PROVE IInv'
  OBVIOUS
<1>1. CASE \E c \in Calls, r \in Request : Receive(c, r)
  BY <1>1, ReceiveInv
<1>2. CASE \E c \in Calls : HandlerStep(c)
  BY <1>2, AnswerAtOnceInv, StartInv, SelectInv, EndsInv, WriteInv, OutcomeInv, GiveUpInv
  DEF HandlerStep
<1>3. CASE \E a \in Accounts, s \in AccountStates : AccountChanges(a, s)
  BY <1>3, AccountInv
<1>4. CASE Crash
  BY <1>4, GiveUpInv
<1>5. CASE UNCHANGED vars
  <2>1. TypeOK'
    BY <1>5 DEF IInv, TypeOK, vars, running, history
  <2> QED BY <1>5, <2>1, OutsideInv DEF IInv, Holding, vars
<1> QED BY <1>1, <1>2, <1>3, <1>4, <1>5 DEF Next

THEOREM Invariance == Spec => []IInv
BY InitInv, NextInv, PTL DEF Spec

LEMMA InvRemembers == IInv => UnknownIsRemembered
<1> SUFFICES ASSUME IInv, NEW e \in Executions, NEW i \in Commands, fate[e][i] = "unobserved"
             PROVE  store[e] # None /\ store[e].commands[i] = "unknown"
  BY DEF UnknownIsRemembered
<1>1. store[e] # None
  BY DEF IInv, Stored, Untouched
<1> QED BY <1>1 DEF IInv, Stored, Tells

(* What is stored of an execution agrees with what became of its commands  *)
(* in the game, and they take effect in order, for any commands, accounts  *)
(* and requests, failed saves and restarts (execution.go:114-121, 151-217).*)
THEOREM ExecutionsHold == Spec => []ExecutionsAreConsistent
<1>1. IInv => ExecutionsAreConsistent
  BY InvRemembers DEF IInv, ExecutionsAreConsistent
<1> QED BY <1>1, Invariance, PTL

-----------------------------------------------------------------------------
(* The only ways a fate changes: an operator's release, a frame written, or*)
(* the end of waiting for its answer.                                      *)
Released(c, e, i) ==
    /\ Start(c) /\ e = call[c].request.exec
    /\ fate[e][i] = "unobserved" /\ fate'[e][i] = "released"

Written(c, e, i) ==
    WriteFrame(c) /\ e = Exec /\ i = NextCommand(work) /\ fate'[e][i] = "open"

Settled(e, i) == fate[e][i] = "open" /\ fate'[e][i] \in Fates \ {"none", "open", "released"}

LEMMA SettledAtNext ==
    ASSUME IInv, NEW c \in Calls,
           \/ Applied(c) \/ Refused(c) \/ Forbidden(c) \/ Unobserved(c) \/ BrokenAfterWrite(c)
    PROVE  /\ \E f \in Fates \ {"none", "open", "released"} :
                  FateBecomes(NextCommand(work), f)
           /\ fate[Exec][NextCommand(work)] = "open" /\ under' = under
           /\ Exec \in Executions /\ NextCommand(work) \in Commands
<1>1. call[c].pc = "written" /\ under' = under
  BY DEF Applied, Refused, Forbidden, Unobserved, BrokenAfterWrite, SetFate
<1>2. Exec = call[c].request.exec /\ fate[Exec][NextCommand(work)] = "open"
      /\ Exec \in Executions /\ NextCommand(work) \in Commands
  BY <1>1, BeforeOutcome
<1>3. \E f \in {"applied", "refused", "forbidden", "unobserved", "broken"} : SetFate(c, f)
  BY DEF Applied, Refused, Forbidden, Unobserved, BrokenAfterWrite
<1>4. {"applied", "refused", "forbidden", "unobserved", "broken"} \subseteq Fates \ {"none", "open", "released"}
  BY DEF Fates
<1>5. \A f : SetFate(c, f) => FateBecomes(NextCommand(work), f)
  BY <1>2 DEF SetFate, IInv, TypeOK, FateBecomes
<1> QED BY <1>1, <1>2, <1>3, <1>4, <1>5

LEMMA FateChanges ==
    ASSUME IInv, Next, NEW e \in Executions, NEW i \in Commands, fate'[e][i] # fate[e][i]
    PROVE  \/ \E c \in Calls : Released(c, e, i) \/ Written(c, e, i)
           \/ Settled(e, i)
<1>1. CASE \E c \in Calls, r \in Request : Receive(c, r)
  BY <1>1 DEF Receive, history
<1>2. CASE \E a \in Accounts, s \in AccountStates : AccountChanges(a, s)
  BY <1>2 DEF AccountChanges, history
<1>3. CASE fate' = FatesForgotten
  <2>1. fate[e][i] = "open" /\ fate'[e][i] = "unrecorded"
    BY <1>3 DEF FatesForgotten
  <2> QED BY <2>1 DEF Settled, Fates
<1>4. ASSUME NEW c \in Calls, HandlerStep(c), ~StoreFails(c)
      PROVE  Released(c, e, i) \/ Written(c, e, i) \/ Settled(e, i)
  <2>1. CASE Start(c)
    <3> DEFINE x == call[c].request.exec
               row == store[x]
    <3>1. /\ call[c].request \in Request /\ x \in Executions
          /\ fate' = [fate EXCEPT ![x] = [j \in Commands |->
                 IF (row # None /\ HasUnknown(row)) /\ row.commands[j] = "unknown"
                 THEN "released" ELSE fate[x][j]]]
      BY <2>1 DEF Start, IInv, Holding, TypeOK, Request
    <3>2. e = x /\ row # None /\ row.commands[i] = "unknown" /\ fate'[e][i] = "released"
      BY <3>1 DEF IInv, TypeOK
    <3>3. fate[e][i] = "unobserved"
      BY <3>2 DEF IInv, Stored, Tells
    <3> QED BY <2>1, <3>2, <3>3 DEF Released
  <2>2. CASE WriteFrame(c)
    <3>1. Exec = call[c].request.exec /\ Exec \in Executions /\ NextCommand(work) \in Commands
      BY <2>2, BeforeOutcome DEF WriteFrame
    <3>2. FateBecomes(NextCommand(work), "open")
      BY <2>2, <3>1 DEF WriteFrame, SetFate, IInv, TypeOK, FateBecomes
    <3>3. e = Exec /\ i = NextCommand(work) /\ fate'[e][i] = "open"
      BY <3>1, <3>2, OneFateChanges DEF Fates
    <3> QED BY <2>2, <3>3 DEF Written
  <2>3. CASE \/ Applied(c) \/ Refused(c) \/ Forbidden(c) \/ Unobserved(c) \/ BrokenAfterWrite(c)
    <3>1. PICK f \in Fates \ {"none", "open", "released"} :
              FateBecomes(NextCommand(work), f)
      BY <2>3, SettledAtNext
    <3>2. /\ fate[Exec][NextCommand(work)] = "open"
          /\ Exec \in Executions /\ NextCommand(work) \in Commands
      BY <2>3, SettledAtNext
    <3>3. e = Exec /\ i = NextCommand(work) /\ fate'[e][i] = f
      BY <3>1, <3>2, OneFateChanges
    <3> QED BY <3>2, <3>3 DEF Settled
  <2>4. CASE \/ Conflict(c) \/ Replay(c) \/ Select(c) \/ NoAccount(c)
             \/ AccountUnavailable(c) \/ SendFails(c) \/ Finish(c)
    BY <2>4 DEF Conflict, Replay, Select, NoAccount, AccountUnavailable, SendFails, Finish, history
  <2> QED BY <1>4, <2>1, <2>2, <2>3, <2>4 DEF HandlerStep
<1> QED BY <1>1, <1>2, <1>3, <1>4 DEF Next, Crash, StoreFails

(* A request is answered by one of three steps.                            *)
LEMMA Answering ==
    ASSUME IInv, Next, NEW c \in Calls, call[c].pc # "answered", call'[c].pc = "answered"
    PROVE  Replay(c) \/ NoAccount(c) \/ Finish(c)
<1>1. CASE \E d \in Calls, r \in Request : Receive(d, r)
  BY <1>1 DEF Receive, IInv, TypeOK
<1>2. CASE \E a \in Accounts, s \in AccountStates : AccountChanges(a, s)
  BY <1>2 DEF AccountChanges
<1>3. CASE Crash
  <2>1. call'[c] = IF call[c].pc \in Ended \cup {"idle"} THEN call[c] ELSE [call[c] EXCEPT !.pc = "lost"]
    BY <1>3 DEF Crash
  <2>2. [call[c] EXCEPT !.pc = "lost"].pc = "lost"
    BY DEF IInv, TypeOK
  <2> QED BY <2>1, <2>2
<1>4. ASSUME NEW d \in Calls, HandlerStep(d)
      PROVE  Replay(c) \/ NoAccount(c) \/ Finish(c)
  <2>1. CASE Replay(d) \/ NoAccount(d) \/ Finish(d)
    <3>1. \E row : Answer(d, row)
      BY <2>1 DEF Replay, NoAccount, Finish
    <3>2. c = d
      BY <3>1 DEF Answer, IInv, TypeOK
    <3> QED BY <2>1, <3>2
  <2>2. CASE ~(Replay(d) \/ NoAccount(d) \/ Finish(d))
    <3>1. \E pc \in {"conflict", "selecting", "sending", "finishing", "written", "lost"} : Goto(d, pc)
      BY <1>4, <2>2 DEF HandlerStep, Conflict, Start, Select, AccountUnavailable, SendFails, WriteFrame,
         Applied, Refused, Forbidden, Unobserved, BrokenAfterWrite, StoreFails, Record, SwitchAccount
    <3> QED BY <3>1 DEF Goto, IInv, TypeOK
  <2> QED BY <2>1, <2>2
<1> QED BY <1>1, <1>2, <1>3, <1>4 DEF Next

-----------------------------------------------------------------------------
(* An answer that is given from a row that tells the fates tells them.     *)
LEMMA RowsAnswer ==
    ASSUME NEW row \in Row, NEW f, NEW u, Tells(row, f, u),
           row.status = "success" => Unfinished(row) = {}
    PROVE  /\ Reply(row) = "success" => \A i \in Commands : f[i] = "applied"
           /\ Reply(row) = "unknown" <=> \E i \in Commands : f[i] = "unobserved"
           /\ Reason(row) = "no_online_accounts" => row.selected = None
<1>1. HasUnknown(row) <=> \E i \in Commands : f[i] = "unobserved"
  BY DEF HasUnknown, Tells
<1>2. Unfinished(row) = {} => \A i \in Commands : f[i] = "applied"
  BY DEF Unfinished, Tells
<1>3. row.status \in {"running", "success", "failure"}
  BY DEF Row, RowStates
<1> QED BY <1>1, <1>2, <1>3 DEF Reply, Reason

LEMMA AnswersTell ==
    ASSUME IInv, Next, NEW c \in Calls, call[c].pc # "answered", call'[c].pc = "answered"
    PROVE  LET f == fate'[call[c].request.exec]
           IN  /\ call'[c].reply = "success" => \A i \in Commands : f[i] = "applied"
               /\ call'[c].reply = "unknown" <=> \E i \in Commands : f[i] = "unobserved"
               /\ call'[c].reason = "no_online_accounts" => \A i \in Commands : f[i] \in Untouched
<1> USE DEF IInv
<1> DEFINE x == call[c].request.exec
<1>1. Replay(c) \/ NoAccount(c) \/ Finish(c)
  BY Answering
<1>2. fate' = fate
  BY <1>1 DEF Replay, NoAccount, Finish, history
<1>3. PICK row \in Row :
          /\ Answer(c, row) /\ Tells(row, fate[x], under[x])
          /\ row.status = "success" => Unfinished(row) = {}
          /\ row.selected = None => \A i \in Commands : fate[x][i] \in Untouched
  <2>1. CASE Replay(c)
    <3>1. /\ holder = None /\ x \in Executions /\ store[x] # None /\ store[x] \in Row /\ Answer(c, store[x])
      BY <2>1 DEF Replay, AnsweredByRow, Holding, TypeOK, Request
    <3>2. \A i \in Commands : fate[x][i] # "open"
      BY <3>1 DEF OpenFrames
    <3> QED BY <3>1, <3>2 DEF Stored
  <2>2. CASE NoAccount(c) \/ Finish(c)
    <3>1. /\ holder = c /\ holder # None /\ Exec = x /\ Exec \in Executions /\ work \in Row
      BY <2>2, HolderKnown DEF InHandler, NoAccount, Finish
    <3> DEFINE row == [work EXCEPT !.status =
                         IF call[c].pc = "finishing" /\ Unfinished(work) = {} THEN "success" ELSE "failure"]
    <3>2. /\ row \in Row /\ row.commands = work.commands /\ row.verification = work.verification
          /\ row.selected = work.selected /\ (row.status = "success" => Unfinished(work) = {})
      <4>1. \A r \in Row, t \in RowStates : [r EXCEPT !.status = t] \in Row
        BY DEF Row
      <4>2. {"success", "failure"} \subseteq RowStates
        BY DEF RowStates
      <4>3. row \in Row
        BY <3>1, <4>1, <4>2
      <4> QED BY <3>1, <4>3 DEF Row
    <3>3. Answer(c, row)
      BY <2>2 DEF NoAccount, Finish
    <3> HIDE DEF row
    <3>4. Tells(row, fate[x], under[x]) /\ Unfinished(row) = Unfinished(work)
      <4>1. Tells(work, fate[x], under[x])
        BY <3>1 DEF Handling
      <4> QED BY <3>2, <4>1 DEF Tells, Unfinished
    <3>5. row.selected = None => \A i \in Commands : fate[x][i] \in Untouched
      BY <3>1, <3>2 DEF Handling
    <3> QED BY <3>2, <3>3, <3>4, <3>5
  <2> QED BY <1>1, <2>1, <2>2
<1>4. call'[c].reply = Reply(row) /\ call'[c].reason = Reason(row)
  BY <1>3, AnswerMoves
<1> QED BY <1>2, <1>3, <1>4, RowsAnswer

(* What the four action properties say of one step.                        *)
LEMMA SafeStep ==
    ASSUME IInv, Next
    PROVE  /\ \A c \in Calls :
                  call[c].pc # "answered" /\ call'[c].pc = "answered" =>
                      LET f == fate'[call[c].request.exec]
                      IN  /\ call'[c].reply = "success" => \A i \in Commands : f[i] = "applied"
                          /\ call'[c].reply = "unknown" <=> \E i \in Commands : f[i] = "unobserved"
                          /\ call'[c].reason = "no_online_accounts" =>
                                 \A i \in Commands : f[i] \in {"none", "forbidden", "unrecorded"}
           /\ \A e \in Executions, i \in Commands :
                  Sends(e, i) => fate[e][i] \notin {"applied", "unobserved"}
           /\ \A e \in Executions, i \in Commands :
                  Sends(e, i) =>
                      /\ fate[e][i] \in {"refused", "broken", "released"} => call[holder].request.retry
                      /\ fate[e][i] = "unrecorded" => call[holder].request.retry \/ store[e] = None
           /\ \A e \in Executions, i \in Commands :
                  fate[e][i] = "unobserved" /\ fate'[e][i] = "released" =>
                      store'[e].verification[i] # under[e][i]
<1>1. ASSUME NEW e \in Executions, NEW i \in Commands, Sends(e, i)
      PROVE  /\ fate[e][i] \notin {"applied", "unobserved"}
             /\ fate[e][i] \in {"refused", "broken", "released"} => call[holder].request.retry
             /\ fate[e][i] = "unrecorded" => call[holder].request.retry \/ store[e] = None
  <2>1. PICK c \in Calls : Written(c, e, i)
    BY <1>1, FateChanges DEF Sends, Released, Settled
  <2>2. /\ call[c].pc = "sending" /\ e = Exec /\ i = NextCommand(work)
    BY <2>1 DEF Written, WriteFrame
  <2>3. holder = c /\ holder # None /\ fate[e][i] \notin {"applied", "unobserved"}
    BY <2>2, BeforeOutcome
  <2> QED BY <2>2, <2>3 DEF IInv, Handling
<1>2. ASSUME NEW e \in Executions, NEW i \in Commands,
             fate[e][i] = "unobserved", fate'[e][i] = "released"
      PROVE  store'[e].verification[i] # under[e][i]
  <2>1. PICK c \in Calls : Start(c) /\ e = call[c].request.exec
    BY <1>2, FateChanges DEF Released, Written, Settled
  <2> DEFINE r == call[c].request
             row == store[e]
  <2>2. row \in Row /\ row # None /\ row.commands[i] = "unknown" /\ r \in Request
    BY <1>2, <2>1, InvRemembers DEF IInv, UnknownIsRemembered, TypeOK, Start, Holding
  <2>3. HasUnknown(row) /\ CanVerify(row, r.verification)
    BY <2>1, <2>2 DEF HasUnknown, Start, AnsweredByRow
  <2>4. r.verification \in Verifications /\ row.verification[i] # r.verification /\ r.verification # None
    BY <2>2, <2>3 DEF CanVerify, Request
  <2>5. store' = [store EXCEPT ![e] = Verified(row, r.verification)]
    BY <2>1, <2>2, <2>3 DEF Start, Save
  <2>6. store'[e].verification[i] = r.verification
    BY <2>2, <2>4, <2>5, VerifiedIsRow DEF IInv, TypeOK
  <2>7. under[e][i] # None => row.verification[i] = under[e][i]
    BY <1>2, <2>2 DEF IInv, Stored, Tells
  <2> QED BY <2>4, <2>6, <2>7
<1>3. \A c \in Calls :
          call[c].pc # "answered" /\ call'[c].pc = "answered" =>
              LET f == fate'[call[c].request.exec]
              IN  /\ call'[c].reply = "success" => \A i \in Commands : f[i] = "applied"
                  /\ call'[c].reply = "unknown" <=> \E i \in Commands : f[i] = "unobserved"
                  /\ call'[c].reason = "no_online_accounts" =>
                         \A i \in Commands : f[i] \in {"none", "forbidden", "unrecorded"}
  BY AnswersTell DEF Untouched
<1> QED BY <1>1, <1>2, <1>3

(* A command recorded as done is not sent again, one recorded as unknown   *)
(* not before it was released, any other only to a caller who asked for it *)
(* or when the execution left no row; no confirmation releases what was    *)
(* tried under it, and no answer tells what did not happen (execution.go,  *)
(* execution_verification.go), for any commands, accounts and requests.    *)
THEOREM SendingHolds == Spec => SendingIsSafe
<1>1. IInv /\ [Next]_vars =>
          /\ [\A c \in Calls :
                  call[c].pc # "answered" /\ call'[c].pc = "answered" =>
                      LET f == fate'[call[c].request.exec]
                      IN  /\ call'[c].reply = "success" => \A i \in Commands : f[i] = "applied"
                          /\ call'[c].reply = "unknown" <=> \E i \in Commands : f[i] = "unobserved"
                          /\ call'[c].reason = "no_online_accounts" =>
                                 \A i \in Commands : f[i] \in {"none", "forbidden", "unrecorded"}]_vars
          /\ [\A e \in Executions, i \in Commands :
                  Sends(e, i) => fate[e][i] \notin {"applied", "unobserved"}]_vars
          /\ [\A e \in Executions, i \in Commands :
                  Sends(e, i) =>
                      /\ fate[e][i] \in {"refused", "broken", "released"} => call[holder].request.retry
                      /\ fate[e][i] = "unrecorded" => call[holder].request.retry \/ store[e] = None]_vars
          /\ [\A e \in Executions, i \in Commands :
                  fate[e][i] = "unobserved" /\ fate'[e][i] = "released" =>
                      store'[e].verification[i] # under[e][i]]_vars
  BY SafeStep
<1> QED BY <1>1, Invariance, PTL
        DEF Spec, SendingIsSafe, AnswersTellTheFate, MarkedIsNotResent, OnlyRetriesResend,
            ConfirmationIsNotReused

-----------------------------------------------------------------------------
(***************************************************************************)
(* AutoExecution implements Delivery.  How far an execution has got and    *)
(* the verification its unknown attempt was made under are functions of    *)
(* the fates of its commands and of what they were tried under; a step     *)
(* changes those of one execution at most, and only in the three ways of   *)
(* FateChanges.  That at most one command is unobserved follows from the   *)
(* order of delivery.                                                      *)
(***************************************************************************)

(* The stage and the mark of an execution whose commands have the fates f  *)
(* and were tried under u.                                                 *)
StageOf(f) ==
    IF \A i \in Commands : f[i] = "applied" THEN "delivered"
    ELSE IF \E i \in Commands : f[i] = "unobserved" THEN "unknown"
    ELSE IF \A i \in Commands : f[i] = "none" THEN "unsent"
    ELSE "partial"

MarkFrom(f, u) ==
    LET unobserved == {i \in Commands : f[i] = "unobserved"}
    IN  IF unobserved = {} THEN None ELSE u[Least(unobserved)]

InOrder(f) == \A i, j \in Commands : i < j /\ f[j] # "none" => f[i] = "applied"

-----------------------------------------------------------------------------
LEMMA StageCases ==
    ASSUME NEW f
    PROVE  /\ StageOf(f) \in {"unsent", "partial", "unknown", "delivered"}
           /\ StageOf(f) = "delivered" <=> \A i \in Commands : f[i] = "applied"
           /\ StageOf(f) = "unknown" <=> \E i \in Commands : f[i] = "unobserved"
           /\ StageOf(f) = "unsent" <=> \A i \in Commands : f[i] = "none"
BY NumbersAreNat DEF StageOf

(* Delivery in order leaves at most one command unobserved.                *)
LEMMA OneUnobserved ==
    ASSUME NEW f, NEW u, InOrder(f), NEW i \in Commands, f[i] = "unobserved"
    PROVE  MarkFrom(f, u) = u[i]
<1> DEFINE unobserved == {j \in Commands : f[j] = "unobserved"}
<1>1. ASSUME NEW j \in Commands, f[j] = "unobserved" PROVE j = i
  <2>1. ~(j < i) /\ ~(i < j)
    BY <1>1 DEF InOrder
  <2> QED BY <2>1, NumbersAreNat
<1>2. unobserved = {i}
  BY <1>1
<1>3. Least({i}) \in {i}
  BY NumbersAreNat, LeastIsLeast
<1> QED BY <1>2, <1>3 DEF MarkFrom

LEMMA NoneUnobserved ==
    ASSUME NEW f, NEW u, StageOf(f) # "unknown"
    PROVE  MarkFrom(f, u) = None
BY StageCases DEF MarkFrom

LEMMA MarkTyped ==
    ASSUME NEW f, NEW u \in [Commands -> Verifications \cup {None}], InOrder(f)
    PROVE  MarkFrom(f, u) \in Verifications \cup {None}
<1>1. CASE StageOf(f) = "unknown"
  <2>1. PICK i \in Commands : f[i] = "unobserved"
    BY <1>1, StageCases
  <2> QED BY <2>1, OneUnobserved
<1> QED BY <1>1, NoneUnobserved

(* The variables of Delivery, before and after a step.                     *)
stages == [e \in Executions |-> StageOf(fate[e])]
marks == [e \in Executions |-> MarkFrom(fate[e], under[e])]

LEMMA Mapping ==
    /\ [e \in Executions |-> DeliveryStage(e)] = stages
    /\ [e \in Executions |-> MarkOf(e)] = marks
    /\ [e \in Executions |-> DeliveryStage(e)]' = stages'
    /\ [e \in Executions |-> MarkOf(e)]' = marks'
BY DEF stages, marks, StageOf, MarkFrom, DeliveryStage, MarkOf

-----------------------------------------------------------------------------
LEMMA InitRefines == Init => D!Init
<1> SUFFICES ASSUME Init PROVE D!Init
  OBVIOUS
<1>1. \A e \in Executions : StageOf(fate[e]) = "unsent"
  BY StageCases DEF Init
<1>2. \A e \in Executions : MarkFrom(fate[e], under[e]) = None
  BY <1>1, NoneUnobserved
<1> QED BY <1>1, <1>2, Mapping DEF D!Init, stages, marks

(* Only the fates of e change.                                             *)
OnlyIn(e) == \A d \in Executions \ {e} : fate'[d] = fate[d] /\ under'[d] = under[d]

LEMMA Moves ==
    ASSUME NEW e \in Executions, OnlyIn(e)
    PROVE  /\ stages' = [stages EXCEPT ![e] = StageOf(fate'[e])]
           /\ marks' = [marks EXCEPT ![e] = MarkFrom(fate'[e], under'[e])]
BY DEF stages, marks, OnlyIn

(* An attempt: the commands of one execution move on, from a stage that    *)
(* allows it.                                                              *)
LEMMA AttemptStep ==
    ASSUME NEW e \in Executions, OnlyIn(e), InOrder(fate'[e]),
           under'[e] \in [Commands -> Verifications \cup {None}],
           StageOf(fate[e]) \in {"unsent", "partial"}, StageOf(fate'[e]) # "unsent"
    PROVE  D!Next
<1> DEFINE v == MarkFrom(fate'[e], under'[e])
           stage == StageOf(fate'[e])
<1>1. v \in Verifications \cup {None} /\ stage \in {"partial", "unknown", "delivered"}
  BY MarkTyped, StageCases
<1>2. v = IF stage = "unknown" THEN v ELSE None
  BY NoneUnobserved
<1>3. stages' = [stages EXCEPT ![e] = stage] /\ marks' = [marks EXCEPT ![e] = v]
  BY Moves
<1>4. stages[e] \in {"unsent", "partial"}
  BY DEF stages
<1> HIDE DEF v, stage
<1>5. D!Becomes(e, stage, v)
  BY <1>2, <1>3, Mapping DEF D!Becomes
<1>6. D!CanAttempt(e)
  BY <1>4, Mapping DEF D!CanAttempt
<1> QED BY <1>1, <1>5, <1>6 DEF D!Next, D!Attempt

(* A release: an unknown execution under another verification.             *)
LEMMA ReleaseStep ==
    ASSUME NEW e \in Executions, OnlyIn(e), NEW v \in Verifications, v # None,
           StageOf(fate[e]) = "unknown", v # MarkFrom(fate[e], under[e]),
           StageOf(fate'[e]) = "partial"
    PROVE  D!Next
<1>1. stages' = [stages EXCEPT ![e] = "partial"] /\ marks' = [marks EXCEPT ![e] = None]
  BY Moves, NoneUnobserved
<1>2. stages[e] = "unknown" /\ marks[e] = MarkFrom(fate[e], under[e])
  BY DEF stages, marks
<1>3. D!Becomes(e, "partial", None)
  BY <1>1, Mapping DEF D!Becomes
<1>4. D!CanRelease(e, v)
  BY <1>2, Mapping DEF D!CanRelease
<1> QED BY <1>3, <1>4 DEF D!Next, D!Release

LEMMA Stutter ==
    ASSUME \A e \in Executions : /\ StageOf(fate'[e]) = StageOf(fate[e])
                                 /\ MarkFrom(fate'[e], under'[e]) = MarkFrom(fate[e], under[e])
    PROVE  UNCHANGED <<[e \in Executions |-> DeliveryStage(e)], [e \in Executions |-> MarkOf(e)]>>
<1>1. stages' = stages /\ marks' = marks
  BY DEF stages, marks
<1> QED BY <1>1, Mapping

(* A frame whose answer is forgotten leaves the stage as it was.           *)
LEMMA ForgottenStutters ==
    ASSUME IInv, IInv', fate' = FatesForgotten, under' = under, NEW e \in Executions
    PROVE  /\ StageOf(fate'[e]) = StageOf(fate[e])
           /\ MarkFrom(fate'[e], under'[e]) = MarkFrom(fate[e], under[e])
<1>1. \A i \in Commands : fate'[e][i] = IF fate[e][i] = "open" THEN "unrecorded" ELSE fate[e][i]
  BY DEF FatesForgotten
<1>2. /\ (\A i \in Commands : fate'[e][i] = "applied") <=> \A i \in Commands : fate[e][i] = "applied"
      /\ (\E i \in Commands : fate'[e][i] = "unobserved") <=> \E i \in Commands : fate[e][i] = "unobserved"
      /\ (\A i \in Commands : fate'[e][i] = "none") <=> \A i \in Commands : fate[e][i] = "none"
  BY <1>1
<1>3. StageOf(fate'[e]) = StageOf(fate[e])
  BY <1>2 DEF StageOf
<1>4. CASE StageOf(fate[e]) = "unknown"
  <2>1. PICK i \in Commands : fate[e][i] = "unobserved"
    BY <1>4, StageCases
  <2>2. fate'[e][i] = "unobserved"
    BY <1>1, <2>1
  <2>3. InOrder(fate[e]) /\ InOrder(fate'[e])
    BY DEF InOrder, IInv, SequentialDelivery
  <2>4. MarkFrom(fate[e], under[e]) = under[e][i]
    BY <2>1, <2>3, OneUnobserved
  <2>5. MarkFrom(fate'[e], under'[e]) = under'[e][i]
    BY <2>2, <2>3, OneUnobserved
  <2> QED BY <1>3, <2>4, <2>5
<1> QED BY <1>3, <1>4, NoneUnobserved

(* A request takes the lock: an execution of unknown outcome is released,  *)
(* any other stays as it is.                                               *)
LEMMA StartRefines ==
    ASSUME IInv, NEW c \in Calls, Start(c)
    PROVE  D!Next \/ fate' = fate
<1> USE DEF IInv
<1> DEFINE r == call[c].request
           x == r.exec
           row == store[x]
           releases == row # None /\ HasUnknown(row)
<1>1. /\ r \in Request /\ x \in Executions /\ row \in Row \cup {None}
      /\ fate' = [fate EXCEPT ![x] = [j \in Commands |->
             IF releases /\ row.commands[j] = "unknown" THEN "released" ELSE fate[x][j]]]
      /\ under' = under
  BY DEF Start, Holding, TypeOK, Request
<1>2. CASE ~releases
  <2>1. fate' = [fate EXCEPT ![x] = [j \in Commands |-> fate[x][j]]]
    BY <1>1, <1>2
  <2>2. [j \in Commands |-> fate[x][j]] = fate[x]
    BY <1>1 DEF TypeOK
  <2>3. fate' = fate
    <3> HIDE DEF x
    <3> QED BY <2>1, <2>2 DEF TypeOK
  <2> QED BY <1>1, <2>3
<1>3. CASE releases
  <2>1. PICK i \in Commands : row.commands[i] = "unknown"
    BY <1>3 DEF HasUnknown
  <2>2. fate[x][i] = "unobserved" /\ Tells(row, fate[x], under[x]) /\ InOrder(fate[x])
    BY <1>1, <1>3, <2>1 DEF Stored, Tells, InOrder, SequentialDelivery
  <2>3. CanVerify(row, r.verification)
    BY <1>3 DEF Start, AnsweredByRow
  <2>4. r.verification \in Verifications /\ r.verification # None /\ row.verification[i] # r.verification
    BY <1>1, <2>1, <2>3 DEF CanVerify, Request
  <2>5. MarkFrom(fate[x], under[x]) = under[x][i]
    BY <2>2, OneUnobserved
  <2>6. r.verification # MarkFrom(fate[x], under[x])
    BY <2>2, <2>4, <2>5 DEF Tells
  <2>7. \A j \in Commands : fate'[x][j] = IF fate[x][j] = "unobserved" THEN "released" ELSE fate[x][j]
    BY <1>1, <1>3, <2>2 DEF TypeOK, Tells
  <2>8. StageOf(fate[x]) = "unknown" /\ StageOf(fate'[x]) = "partial"
    <3>1. StageOf(fate[x]) = "unknown"
      BY <2>1, <2>2, StageCases
    <3>2. fate'[x][i] = "released" /\ \A j \in Commands : fate'[x][j] # "unobserved"
      BY <2>1, <2>2, <2>7
    <3> QED BY <2>1, <3>1, <3>2, StageCases
  <2>9. OnlyIn(x)
    BY <1>1 DEF OnlyIn, TypeOK
  <2> HIDE DEF x, r
  <2> QED BY <1>1, <2>4, <2>6, <2>8, <2>9, ReleaseStep
<1> QED BY <1>2, <1>3

(* A frame goes out, or has its outcome: an attempt.                       *)
LEMMA FrameRefines ==
    ASSUME IInv, IInv', NEW c \in Calls, call[c].pc \in {"sending", "written"},
           NEW f \in Fates \ {"none"},
           FateBecomes(NextCommand(work), f),
           \A e \in Executions \ {Exec} : under'[e] = under[e]
    PROVE  D!Next
<1> DEFINE x == Exec
           n == NextCommand(work)
<1>1. /\ x \in Executions /\ n \in Commands /\ fate[x][n] # "applied"
      /\ \A i \in Commands : fate[x][i] # "unobserved"
  BY BeforeOutcome
<1>2. StageOf(fate[x]) \in {"unsent", "partial"}
  BY <1>1, StageCases
<1>3. fate'[x][n] # "none" /\ \A d \in Executions \ {x} : fate'[d] = fate[d]
  BY <1>1, OneFateChanges
<1>4. StageOf(fate'[x]) # "unsent"
  BY <1>1, <1>3, StageCases
<1>5. InOrder(fate'[x]) /\ under'[x] \in [Commands -> Verifications \cup {None}]
  BY <1>1 DEF IInv, TypeOK, SequentialDelivery, InOrder
<1>6. OnlyIn(x)
  BY <1>3 DEF OnlyIn
<1> HIDE DEF x
<1> QED BY <1>1, <1>2, <1>4, <1>5, <1>6, AttemptStep

LEMMA StepRefines ==
    ASSUME IInv, IInv', [Next]_vars
    PROVE  \/ D!Next
           \/ UNCHANGED <<[e \in Executions |-> DeliveryStage(e)], [e \in Executions |-> MarkOf(e)]>>
<1>1. CASE fate' = fate /\ under' = under
  BY <1>1, Stutter
<1>2. CASE fate' = FatesForgotten /\ under' = under
  BY <1>2, ForgottenStutters, Stutter
<1>3. ASSUME NEW c \in Calls, HandlerStep(c)
      PROVE  D!Next \/ (under' = under /\ (fate' = fate \/ fate' = FatesForgotten))
  <2>1. CASE Start(c)
    BY <2>1, StartRefines DEF Start
  <2>2. CASE WriteFrame(c)
    <3>1. /\ call[c].pc = "sending" /\ Exec = call[c].request.exec
          /\ Exec \in Executions /\ NextCommand(work) \in Commands
      BY <2>2, BeforeOutcome DEF WriteFrame
    <3>2. FateBecomes(NextCommand(work), "open")
      BY <2>2, <3>1 DEF WriteFrame, SetFate, IInv, TypeOK, FateBecomes
    <3>3. \A e \in Executions \ {Exec} : under'[e] = under[e]
      BY <2>2, <3>1 DEF WriteFrame, IInv, TypeOK
    <3>4. "open" \in Fates \ {"none"}
      BY DEF Fates
    <3> QED BY <3>1, <3>2, <3>3, <3>4, FrameRefines
  <2>3. CASE \/ Applied(c) \/ Refused(c) \/ Forbidden(c) \/ Unobserved(c) \/ BrokenAfterWrite(c)
    <3>1. PICK f \in Fates \ {"none", "open", "released"} :
              FateBecomes(NextCommand(work), f)
      BY <2>3, SettledAtNext
    <3>2. under' = under /\ call[c].pc = "written"
      BY <2>3, SettledAtNext DEF Applied, Refused, Forbidden, Unobserved, BrokenAfterWrite
    <3> QED BY <3>1, <3>2, FrameRefines
  <2>4. CASE \/ Conflict(c) \/ Replay(c) \/ Select(c) \/ NoAccount(c)
             \/ AccountUnavailable(c) \/ SendFails(c) \/ Finish(c)
    BY <2>4 DEF Conflict, Replay, Select, NoAccount, AccountUnavailable, SendFails, Finish, history
  <2>5. CASE StoreFails(c)
    BY <2>5 DEF StoreFails
  <2> QED BY <1>3, <2>1, <2>2, <2>3, <2>4, <2>5 DEF HandlerStep
<1>4. CASE \E c \in Calls, r \in Request : Receive(c, r)
  BY <1>1, <1>4 DEF Receive, history
<1>5. CASE \E a \in Accounts, s \in AccountStates : AccountChanges(a, s)
  BY <1>1, <1>5 DEF AccountChanges, history
<1>6. CASE Crash
  BY <1>2, <1>6 DEF Crash
<1>7. CASE UNCHANGED vars
  BY <1>1, <1>7 DEF vars, history
<1> QED BY <1>1, <1>2, <1>3, <1>4, <1>5, <1>6, <1>7 DEF Next

(* The executor implements Delivery for any executions, commands, accounts,*)
(* requests and verifications, over failed saves and restarts: delivered is*)
(* final, and an unknown outcome is left only by a verification other than *)
(* the one it was attempted under (execution.go:79-230).                   *)
THEOREM ExecutorImplementsDelivery == Spec => DeliverySpec
<1>1. IInv /\ IInv' /\ [Next]_vars =>
          [D!Next]_<<[e \in Executions |-> DeliveryStage(e)], [e \in Executions |-> MarkOf(e)]>>
  BY StepRefines
<1> QED BY <1>1, InitRefines, Invariance, PTL DEF Spec, DeliverySpec, D!Spec
=============================================================================
