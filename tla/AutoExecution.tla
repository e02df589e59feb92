---------------------------- MODULE AutoExecution ----------------------------
(***************************************************************************)
(* The command executor of auto-process: POST /servers/{id}/executions.    *)
(* A request names an execution and its ordered command batch; the handler *)
(* sends each command as one chat frame through a GM account, records what *)
(* the game answered, and on a later request continues where it stopped.   *)
(* One game server is modelled (executions of two servers meet only at the *)
(* lock).                                                                  *)
(*                                                                         *)
(* A handler runs under Handler.executionMu, so at most one is past Start; *)
(* what interleaves with it are other requests, the accounts going on and  *)
(* off line, and the death of the process.  A step ends where another of   *)
(* those can take effect: before the lock, at the account list, before a   *)
(* frame, and between the frame and its answer.                            *)
(*                                                                         *)
(* Abstractions.  Attempts is only ever compared with 0 and every saved    *)
(* row has Attempts > 0, so "a row exists" stands for it.  RequestHash is  *)
(* the batch.  Texts, messages and timestamps are left out.                *)
(***************************************************************************)
EXTENDS Integers, FiniteSets

CONSTANTS
    Executions,     \* execution ids
    Batches,        \* command batches (all of NumCommands commands)
    NumCommands,
    NumAccounts,    \* GM accounts of the server, in the order the store lists them
    Calls,          \* requests
    Verifications,  \* offline verification ids an operator may present
    None

Commands == 1..NumCommands
Accounts == 1..NumAccounts

ASSUME NumbersAssumption == NumCommands \in Nat \ {0} /\ NumAccounts \in Nat
ASSUME NoneAssumption == /\ None \notin Executions \cup Batches \cup Calls \cup Verifications
                         /\ None \notin Nat

VARIABLES
    store,      \* automation_executions: the row of each execution, or None
    cursor,     \* automation_round_robin: last account chosen, or None
    account,    \* what an account can do: see AccountStates
    call,       \* the requests
    holder,     \* the request that holds executionMu, or None
    work,       \* the holder's copy of the row
    ids,        \* the holder's remaining accounts
    current,    \* the holder's account
    fate,       \* history: what became of the last frame of each command
    under,      \* history: the verification its request presented
    released    \* history: the verifications that released an unknown result

running == <<holder, work, ids, current>>
history == <<fate, under, released>>
vars == <<store, cursor, account, call, running, history>>

CommandStates == {"pending", "success", "failure", "unknown"}
RowStates == {"running", "success", "failure"}

(* "online": enabled, open to automation, session ready.  "disabled":       *)
(* stopped or closed to automation.  "deleted": no such row any more.       *)
AccountStates == {"online", "offline", "disabled", "deleted"}

(* The last frame of a command: never written; written and not answered     *)
(* yet; done; refused; refused because the account lacks the permission; no *)
(* answer in time; that, and released by an operator; connection or caller  *)
(* lost while waiting; process lost while waiting, or the row not saved.    *)
Fates == {"none", "open", "applied", "refused", "forbidden", "unobserved",
          "released", "broken", "unrecorded"}

Row == [batch        : Batches,
        status       : RowStates,
        commands     : [Commands -> CommandStates],
        verification : [Commands -> Verifications \cup {None}],
        selected     : Accounts \cup {None}]

Request == [exec : Executions, batch : Batches, retry : BOOLEAN,
            verification : Verifications \cup {None}]

ASSUME RecordsAssumption == None \notin Row /\ None \notin Request

CallStates == {"idle", "waiting", "selecting", "sending", "written", "finishing",
               "answered", "conflict", "lost"}
Ended == {"answered", "conflict", "lost"}
Replies == {"success", "failure", "unknown", "running"}
Reasons == {"no_online_accounts", "other"}

TypeOK ==
    /\ store \in [Executions -> Row \cup {None}]
    /\ cursor \in Accounts \cup {None}
    /\ account \in [Accounts -> AccountStates]
    /\ call \in [Calls -> [pc : CallStates, request : Request \cup {None},
                           reply : Replies \cup {None}, reason : Reasons \cup {None}]]
    /\ holder \in Calls \cup {None}
    /\ work \in Row \cup {None}
    /\ ids \subseteq Accounts
    /\ current \in Accounts \cup {None}
    /\ fate \in [Executions -> [Commands -> Fates]]
    /\ under \in [Executions -> [Commands -> Verifications \cup {None}]]
    /\ released \in [Executions -> SUBSET Verifications]

Init ==
    /\ store = [e \in Executions |-> None]
    /\ cursor = None
    /\ account = [a \in Accounts |-> "online"]
    /\ call = [c \in Calls |-> [pc |-> "idle", request |-> None, reply |-> None, reason |-> None]]
    /\ holder = None
    /\ work = None
    /\ ids = {}
    /\ current = None
    /\ fate = [e \in Executions |-> [i \in Commands |-> "none"]]
    /\ under = [e \in Executions |-> [i \in Commands |-> None]]
    /\ released = [e \in Executions |-> {}]

-----------------------------------------------------------------------------
NewRow(b) == [batch |-> b, status |-> "running",
              commands |-> [i \in Commands |-> "pending"],
              verification |-> [i \in Commands |-> None],
              selected |-> None]

HasUnknownStatus(row) == row.status = "unknown"  \* slip: no row has that status
HasUnknown(row) == \E i \in Commands : row.commands[i] = "unknown"

(* execution_verification.go: a confirmation is refused if an unknown       *)
(* command carries it already, else every unknown command becomes a failure *)
(* that carries it.                                                         *)
CanVerifyAgain(row, v) == v # None  \* slip: a verification releases whatever is unknown
CanVerify(row, v) ==
    /\ v # None
    /\ \A i \in Commands : row.commands[i] = "unknown" => row.verification[i] # v

Verified(row, v) ==
    [row EXCEPT !.commands = [i \in Commands |-> IF @[i] = "unknown" THEN "failure" ELSE @[i]],
                !.verification = [i \in Commands |-> IF row.commands[i] = "unknown" THEN v ELSE @[i]]]

(* executionResponseStatus, executionFailureReason                          *)
Reply(row) == IF HasUnknown(row) THEN "unknown" ELSE row.status
Reason(row) == IF row.status = "failure" /\ row.selected = None THEN "no_online_accounts" ELSE "other"

(* autostore.NextRoundRobin: the account after the last one chosen, in list *)
(* order and cyclically, if that one is a candidate; else the first.        *)
Least(S) == CHOOSE a \in S : \A b \in S : a <= b
NextRoundRobin(candidates) ==
    LET later == {a \in candidates : cursor # None /\ a > cursor}
    IN  IF cursor \in candidates /\ later # {} THEN Least(later) ELSE Least(candidates)

Eligible == {a \in Accounts : account[a] = "online"}

(* The first command that is not marked successful, if any.                 *)
Unfinished(row) == {i \in Commands : row.commands[i] # "success"}
NextCommand(row) == Least(Unfinished(row))

Answer(c, row) ==
    call' = [call EXCEPT ![c].pc = "answered", ![c].reply = Reply(row), ![c].reason = Reason(row)]
Goto(c, pc) == call' = [call EXCEPT ![c].pc = pc]
Save(e, row) == store' = [store EXCEPT ![e] = row]
Release == holder' = None /\ work' = None /\ ids' = {} /\ current' = None

-----------------------------------------------------------------------------
(* A client sends an execution; a verification id needs retry = true.       *)
Receive(c, r) ==
    /\ call[c].pc = "idle"
    /\ r.verification # None => r.retry
    /\ call' = [call EXCEPT ![c].pc = "waiting", ![c].request = r]
    /\ UNCHANGED <<store, cursor, account, running, history>>

(* The stored row answers the request: it succeeded, or this is not a retry,*)
(* or an unknown delivery was not released.                                 *)
AnsweredByRow(r) ==
    LET row == store[r.exec]
    IN  /\ row # None
        /\ \/ row.status = "success"
           \/ ~r.retry
           \/ HasUnknown(row) /\ ~CanVerify(row, r.verification)

Conflicts(r) == store[r.exec] # None /\ store[r.exec].batch # r.batch

Conflict(c) ==
    /\ call[c].pc = "waiting" /\ holder = None
    /\ Conflicts(call[c].request)
    /\ Goto(c, "conflict")
    /\ UNCHANGED <<store, cursor, account, running, history>>

Replay(c) ==
    LET r == call[c].request
    IN  /\ call[c].pc = "waiting" /\ holder = None
        /\ ~Conflicts(r)
        /\ AnsweredByRow(r)
        /\ Answer(c, store[r.exec])
        /\ UNCHANGED <<store, cursor, account, running, history>>

(* An unknown delivery that was released is saved as such at once; a new    *)
(* row is not saved before its first command has an outcome.                *)
Start(c) ==
    LET r == call[c].request
        row == store[r.exec]
        releases == row # None /\ HasUnknown(row)
        begun == IF row = None THEN NewRow(r.batch)
                 ELSE IF releases THEN Verified(row, r.verification) ELSE row
    IN  /\ call[c].pc = "waiting" /\ holder = None
        /\ ~Conflicts(r)
        /\ ~AnsweredByRow(r)
        /\ holder' = c
        /\ work' = [begun EXCEPT !.status = "running"]
        /\ IF releases THEN Save(r.exec, begun) ELSE UNCHANGED store
        /\ fate' = [fate EXCEPT ![r.exec] = [i \in Commands |->
                      IF releases /\ row.commands[i] = "unknown" THEN "released" ELSE @[i]]]
        /\ released' = [released EXCEPT ![r.exec] =
                           IF releases THEN @ \cup {r.verification} ELSE @]
        /\ Goto(c, "selecting")
        /\ UNCHANGED <<cursor, account, ids, current, under>>

Select(c) ==
    /\ call[c].pc = "selecting"
    /\ Eligible # {}
    /\ ids' = Eligible
    /\ current' = NextRoundRobin(Eligible)
    /\ cursor' = current'
    /\ work' = [work EXCEPT !.selected = current']
    /\ Goto(c, IF Unfinished(work) = {} THEN "finishing" ELSE "sending")
    /\ UNCHANGED <<store, account, holder, history>>

NoAccount(c) ==
    /\ call[c].pc = "selecting"
    /\ Eligible = {}
    /\ LET row == [work EXCEPT !.status = "failure"]
       IN  Save(call[c].request.exec, row) /\ Answer(c, row)
    /\ Release
    /\ UNCHANGED <<cursor, account, history>>

-----------------------------------------------------------------------------

(* The verification of this request goes with every command it tries.       *)
Marked(row, i, v) == IF v = None THEN row ELSE [row EXCEPT !.verification = [@ EXCEPT ![i] = v]]
WithStatus(row, i, s) == [row EXCEPT !.commands = [@ EXCEPT ![i] = s]]

(* The command has its outcome: the row is saved, and the batch goes on     *)
(* only after a success.                                                    *)
Record(c, i, s) ==
    LET row == WithStatus(Marked(work, i, call[c].request.verification), i, s)
    IN  /\ Save(call[c].request.exec, row)
        /\ work' = row
        /\ Goto(c, IF s = "success" /\ Unfinished(row) # {} THEN "sending" ELSE "finishing")

(* The account is given up; another one takes the command if any is left.   *)
SwitchKeepingAccount(c, i) ==  \* slip: the refused account stays in the list
    /\ current' = NextRoundRobin(ids)
    /\ cursor' = current'
    /\ work' = [Marked(work, i, call[c].request.verification) EXCEPT !.selected = current']
    /\ Goto(c, "sending")
    /\ UNCHANGED <<store, ids>>

HasOther == ids \ {current} # {}
SwitchAccount(c, i) ==
    /\ ids' = ids \ {current}
    /\ current' = NextRoundRobin(ids \ {current})
    /\ cursor' = current'
    /\ work' = [Marked(work, i, call[c].request.verification) EXCEPT !.selected = current']
    /\ Goto(c, "sending")
    /\ UNCHANGED store

(* ChatIfOnline refuses before writing: ErrAccountOffline/ErrAccountDisabled*)
AccountUnavailable(c) ==
    LET i == NextCommand(work)
    IN  /\ call[c].pc = "sending"
        /\ account[current] \in {"offline", "disabled"}
        /\ IF HasOther
           THEN SwitchAccount(c, i)
           ELSE /\ Record(c, i, "failure")
                /\ ids' = ids \ {current}
                /\ UNCHANGED <<cursor, current>>
        /\ UNCHANGED <<account, holder, history>>

(* Any other error before the frame is out: the account is gone, the caller *)
(* went away, the reconnect it waited for failed, the write failed.         *)
SendFails(c) ==
    /\ call[c].pc = "sending"
    /\ account[current] \in {"online", "deleted"}
    /\ Record(c, NextCommand(work), "failure")
    /\ UNCHANGED <<cursor, account, holder, ids, current, history>>

SetFate(c, f) ==
    /\ fate' = [fate EXCEPT ![call[c].request.exec] = [@ EXCEPT ![NextCommand(work)] = f]]
    /\ UNCHANGED released

WriteFrame(c) ==
    /\ call[c].pc = "sending"
    /\ account[current] = "online"
    /\ SetFate(c, "open")
    /\ under' = [under EXCEPT ![call[c].request.exec] =
                   [@ EXCEPT ![NextCommand(work)] = call[c].request.verification]]
    /\ Goto(c, "written")
    /\ UNCHANGED <<store, cursor, account, running>>

Applied(c) ==
    /\ call[c].pc = "written"
    /\ SetFate(c, "applied")
    /\ Record(c, NextCommand(work), "success")
    /\ UNCHANGED <<cursor, account, holder, ids, current, under>>

Refused(c) ==
    /\ call[c].pc = "written"
    /\ SetFate(c, "refused")
    /\ Record(c, NextCommand(work), "failure")
    /\ UNCHANGED <<cursor, account, holder, ids, current, under>>

(* "请输入正确的玩家姓名。": this account may not give the command.            *)
Forbidden(c) ==
    /\ call[c].pc = "written"
    /\ SetFate(c, "forbidden")
    /\ IF HasOther
       THEN SwitchAccount(c, NextCommand(work))
       ELSE /\ Record(c, NextCommand(work), "failure")
            /\ ids' = ids \ {current}
            /\ UNCHANGED <<cursor, current>>
    /\ UNCHANGED <<account, holder, under>>

UnobservedAsFailure(c) ==  \* slip: no answer is taken for a refusal
    /\ call[c].pc = "written"
    /\ SetFate(c, "unobserved")
    /\ Record(c, NextCommand(work), "failure")
    /\ UNCHANGED <<cursor, account, holder, ids, current, under>>

(* ChatResponseTimeout, or the account was logged in elsewhere.             *)
Unobserved(c) ==
    /\ call[c].pc = "written"
    /\ SetFate(c, "unobserved")
    /\ Record(c, NextCommand(work), "unknown")
    /\ UNCHANGED <<cursor, account, holder, ids, current, under>>

(* The connection is lost, or the caller's context is cancelled, while the  *)
(* answer is awaited: SendChat returns an error and no delivery status.     *)
BrokenAfterWrite(c) ==
    /\ call[c].pc = "written"
    /\ SetFate(c, "broken")
    /\ Record(c, NextCommand(work), "failure")
    /\ UNCHANGED <<cursor, account, holder, ids, current, under>>

Finish(c) ==
    /\ call[c].pc = "finishing"
    /\ LET row == [work EXCEPT !.status = IF Unfinished(work) = {} THEN "success" ELSE "failure"]
       IN  Save(call[c].request.exec, row) /\ Answer(c, row)
    /\ Release
    /\ UNCHANGED <<cursor, account, history>>

-----------------------------------------------------------------------------
(* Accounts log in, drop, are stopped, closed to automation or deleted.     *)
AccountChanges(a, s) ==
    /\ account[a] \notin {s, "deleted"}
    /\ account' = [account EXCEPT ![a] = s]
    /\ UNCHANGED <<store, cursor, call, running, history>>

(* A frame whose answer was not awaited, or not saved, stays out.           *)
FatesForgotten == [e \in Executions |-> [i \in Commands |->
                     IF fate[e][i] = "open" THEN "unrecorded" ELSE fate[e][i]]]

(* SQLite refuses a query: the handler gives up with a server error.        *)
StoreFails(c) ==
    /\ call[c].pc \in {"selecting", "sending", "written", "finishing"}
    /\ Goto(c, "lost")
    /\ fate' = FatesForgotten
    /\ Release
    /\ UNCHANGED <<store, cursor, account, under, released>>

(* The process dies: requests and the working copy are gone, sessions are   *)
(* down, rows and the cursor stay.                                          *)
Crash ==
    /\ \E c \in Calls : call[c].pc \notin Ended \cup {"idle"}
    /\ call' = [c \in Calls |-> IF call[c].pc \in Ended \cup {"idle"} THEN call[c]
                                ELSE [call[c] EXCEPT !.pc = "lost"]]
    /\ account' = [a \in Accounts |-> IF account[a] = "online" THEN "offline" ELSE account[a]]
    /\ fate' = FatesForgotten
    /\ Release
    /\ UNCHANGED <<store, cursor, under, released>>

HandlerStep(c) ==
    \/ Conflict(c) \/ Replay(c) \/ Start(c) \/ Select(c) \/ NoAccount(c)
    \/ AccountUnavailable(c) \/ SendFails(c) \/ WriteFrame(c)
    \/ Applied(c) \/ Refused(c) \/ Forbidden(c) \/ Unobserved(c) \/ BrokenAfterWrite(c)
    \/ Finish(c) \/ StoreFails(c)

Next ==
    \/ \E c \in Calls, r \in Request : Receive(c, r)
    \/ \E c \in Calls : HandlerStep(c)
    \/ \E a \in Accounts, s \in AccountStates : AccountChanges(a, s)
    \/ Crash

Spec == Init /\ [][Next]_vars

(* A handler that has started goes on: every wait in it is bounded, the wait *)
(* for the game by ChatResponseTimeout, the others by the caller, whose      *)
(* client gives up after ten seconds and so cancels the request's context.   *)
Fairness == \A c \in Calls : WF_vars(HandlerStep(c))
FairSpec == Spec /\ Fairness

-----------------------------------------------------------------------------
(* Commands of a batch take effect in order: nothing is written for one     *)
(* before the game has confirmed all the earlier ones, over all requests    *)
(* for the execution, crashes included (execution.go:151-217).              *)
SequentialDelivery ==
    \A e \in Executions, i, j \in Commands :
        i < j /\ fate[e][j] # "none" => fate[e][i] = "applied"

(* A delivery nobody saw the outcome of stays marked in the stored row until*)
(* an operator releases it; no later attempt, failure or restart loses the  *)
(* mark (execution.go:114-121, 187-189).                                    *)
UnknownIsRemembered ==
    \A e \in Executions, i \in Commands :
        fate[e][i] = "unobserved" => store[e] # None /\ store[e].commands[i] = "unknown"

(* What a request is told agrees with what happened in the game: "success"  *)
(* only when every command was confirmed, "unknown" exactly when some frame *)
(* has an unobserved outcome (execution.go:79-86, 218-230), and that no      *)
(* account was online only when the game did nothing that a live process    *)
(* knew of (execution.go:88-93).  "success" may be missing when all was      *)
(* done: if the process died before the final save the row says "running",  *)
(* or "failure" after a retry without account.                               *)
AnswersTellTheFate ==
    [][\A c \in Calls :
         call[c].pc # "answered" /\ call'[c].pc = "answered" =>
             LET f == fate'[call[c].request.exec]
             IN  /\ call'[c].reply = "success" => \A i \in Commands : f[i] = "applied"
                 /\ call'[c].reply = "unknown" <=> \E i \in Commands : f[i] = "unobserved"
                 /\ call'[c].reason = "no_online_accounts" =>
                        \A i \in Commands : f[i] \in {"none", "forbidden", "unrecorded"}]_vars

(* A frame for command i of e goes out in this step.                        *)
Sends(e, i) == fate[e][i] # "open" /\ fate'[e][i] = "open"

(* A command whose success the game confirmed is never written again, and   *)
(* one that was left without an answer not before an operator released it:  *)
(* not by a retry, another account, a restart or a replayed request         *)
(* (execution.go:114-121, 153-155).  These are the two outcomes that the row*)
(* keeps apart.  Of two other frames that may have taken effect nothing of  *)
(* the kind holds: one whose connection broke is stored as a failure (see   *)
(* BrokenIsNotResent below), and one that was out when the process died or  *)
(* the row could not be saved is stored as nothing at all.                  *)
MarkedIsNotResent ==
    [][\A e \in Executions, i \in Commands :
         Sends(e, i) => fate[e][i] \notin {"applied", "unobserved"}]_vars

(* Every other command that was tried is written again only for a caller    *)
(* who asked for a retry, those two kinds of frame included: a duplicate of *)
(* the first request resends nothing (execution.go:111-113).  The exception *)
(* is an execution of which no row was ever saved, because its process died *)
(* with its first frame: the duplicate is then the first request again.     *)
OnlyRetriesResend ==
    [][\A e \in Executions, i \in Commands :
         Sends(e, i) =>
             /\ fate[e][i] \in {"refused", "broken", "released"} => call[holder].request.retry
             /\ fate[e][i] = "unrecorded" => call[holder].request.retry \/ store[e] = None]_vars

(* The confirmation an attempt was made under cannot release what that same *)
(* attempt left unknown, whichever command of the batch that is             *)
(* (execution_verification.go:11-15, execution.go:156-158).                 *)
ConfirmationIsNotReused ==
    [][\A e \in Executions, i \in Commands :
         fate[e][i] = "unobserved" /\ fate'[e][i] = "released" =>
             store'[e].verification[i] # under[e][i]]_vars

(* What is stored of an execution agrees with what became of its commands   *)
(* in the game, through failed saves and restarts.                          *)
ExecutionsAreConsistent == TypeOK /\ SequentialDelivery /\ UnknownIsRemembered

(* What is written again, and for whom; what releases an unknown result; and*)
(* that no answer tells what did not happen: the four above.                *)
SendingIsSafe ==
    AnswersTellTheFate /\ MarkedIsNotResent /\ OnlyRetriesResend /\ ConfirmationIsNotReused

(* Every request is answered (or lost with the process), however the        *)
(* accounts come and go and however many of them lack the permission        *)
(* (execution.go:159-213).                                                  *)
EveryRequestEnds ==
    \A c \in Calls : call[c].pc = "waiting" ~> call[c].pc \in Ended

-----------------------------------------------------------------------------
(* The executor implements Delivery: how far an execution has got is read   *)
(* off what became of its frames.                                           *)
DeliveryStage(e) ==
    IF \A i \in Commands : fate[e][i] = "applied" THEN "delivered"
    ELSE IF \E i \in Commands : fate[e][i] = "unobserved" THEN "unknown"
    ELSE IF \A i \in Commands : fate[e][i] = "none" THEN "unsent"
    ELSE "partial"

MarkOf(e) ==
    LET unobserved == {i \in Commands : fate[e][i] = "unobserved"}
    IN  IF unobserved = {} THEN None ELSE under[e][Least(unobserved)]

D == INSTANCE Delivery WITH
        delivery <- [e \in Executions |-> DeliveryStage(e)],
        mark <- [e \in Executions |-> MarkOf(e)]

(* Over every interleaving of requests, account changes, lost answers,      *)
(* failed saves and restarts, an execution advances only as Delivery allows:*)
(* delivered is final and unknown is left only by a fresh verification.     *)
DeliverySpec == D!Spec

-----------------------------------------------------------------------------
(* What the documents say and the code does not do.                         *)

(* operator-api.md: an error that may have happened after the write is not  *)
(* replayed; execution.go:108-110: retrying a frame that was written and not*)
(* answered takes an operator's verification.                               *)
BrokenIsNotResent ==
    [][\A e \in Executions, i \in Commands : Sends(e, i) => fate[e][i] # "broken"]_vars

(* execution_verification.go:5-6: replaying a confirmation cannot release   *)
(* another unknown result.                                                  *)
VerificationReleasesOnce ==
    [][\A e \in Executions, i \in Commands :
         fate[e][i] = "unobserved" /\ fate'[e][i] = "released" =>
             store'[e].verification[i] \notin released[e]]_vars
=============================================================================
