------------------------------ MODULE Messages ------------------------------
(***************************************************************************)
(* Messages of the game master, sent by hand.  An operator writes a        *)
(* message, or fills in a quick command, in one of two pages that were     *)
(* written twice: the desk of the SOP (ServerMessagePanel.tsx, by way of   *)
(* the SOP's backend) and the page of the auto process itself              *)
(* (MessagePanel.tsx).  A dialog shows the target and the content; only    *)
(* its confirmation sends.  Meanwhile the overview is polled, others edit  *)
(* the account or stop it, the game drops the session, requests and        *)
(* answers are lost and the page is opened anew.                           *)
(*                                                                         *)
(* A target stands for what the dialog names and the page compares before  *)
(* it sends: the server's address, the account's name and its character.   *)
(* A text stands for what is written together with its channel, a rate for *)
(* the content that a quick command's row makes of its own draft, which    *)
(* nothing else reads.  One account of one server is followed.             *)
(***************************************************************************)
EXTENDS Naturals, Sequences, FiniteSets

CONSTANTS Texts,      \* what may be written in the box
          Targets,    \* what the account may be configured to be
          First,      \* what it is at first
          Rates,      \* values of a quick command
          Nil,        \* nothing
          MaxSends,   \* bound on the confirmed messages
          MaxEdits    \* bound on the changes of the target

ASSUME MessagesAssumption ==
    /\ Texts \cap Rates = {} /\ Nil \notin Texts \cup Rates
    /\ First \in Targets /\ Rates # {} /\ MaxSends \in Nat /\ MaxEdits \in Nat

VARIABLES desk,      \* which of the two pages the operator uses
          account,   \* the account in the auto process
          requests,  \* the messages that were sent, in the order of their confirmation
          received,  \* what was written to the game, in order
          loads,     \* overviews on their way: Nil when asked, then what was read
          alive,     \* the SOP's page: the last status said that the auto process answers
          fresh,     \* the SOP's page: the last overview arrived
          known,     \* the account as the page shows it
          draft,     \* the text in the box
          ask,       \* what the confirmation dialog shows
          sending,   \* the message whose answer the panel waits for, or 0
          renewing,  \* the answer came, and the page waits for an overview before it shows it
          result     \* the result on the screen

polling == <<loads, alive, fresh>>
panel   == <<draft, ask, sending, renewing, result>>
game    == <<account, requests, received>>
messageVars == <<desk, account, requests, received, loads, alive, fresh, known, draft, ask, sending, renewing, result>>

Desks    == {"sop", "auto"}
Stages   == {"sent", "serving", "written", "answered", "refused"}
Contents == Texts \cup Rates

\* The account, in the auto process and in an overview.  It is not online when
\* it is stopped, logs in or reconnects; `since` numbers the edit that gave it
\* its target.
Account  == [online : BOOLEAN, target : Targets, since : 0..MaxEdits]
\* A dialog, with the number of the message that it asks about.
Ask      == [n : 1..MaxSends + 1, target : Targets, content : Contents]
\* A message on its way, with what its dialog showed; `since` is the target's
\* number in the overview that the page held when it sent it.
Message  == [ask : Ask, content : Contents, since : 0..MaxEdits, stage : Stages]
Receipt  == [n : 1..MaxSends, content : Contents, target : Targets, since : 0..MaxEdits]
Result   == [n : 1..MaxSends, content : Contents]

Closed ==
    /\ loads = {} /\ alive = FALSE /\ fresh = FALSE /\ known = Nil
    /\ draft = Nil /\ ask = Nil
    /\ sending = 0 /\ renewing = FALSE /\ result = Nil

MessagesInit ==
    /\ desk \in Desks
    /\ account = [online |-> TRUE, target |-> First, since |-> 0]
    /\ requests = <<>> /\ received = <<>>
    /\ Closed

-----------------------------------------------------------------------------
(* The page's polls.  The SOP's page asks for the status of the connection *)
(* first and for the overview when the connection stands; the other page   *)
(* asks for the overview alone.  One of each is under way at a time.       *)

\* A slip: the guard against a second overview beside the first is left out.
MayLoadBeside == Cardinality(loads) < 2

MayLoad == loads = {}

Poll ==
    /\ \/ desk = "sop" /\ alive' = FALSE /\ UNCHANGED loads
       \/ desk = "sop" /\ alive' = TRUE /\ (IF MayLoad THEN loads' = loads \cup {Nil} ELSE UNCHANGED loads)
       \/ desk = "auto" /\ MayLoad /\ loads' = loads \cup {Nil} /\ UNCHANGED alive
    /\ UNCHANGED <<desk, fresh, known, panel, game>>

ReadOverview ==
    /\ Nil \in loads
    /\ loads' = (loads \ {Nil}) \cup {account}
    /\ UNCHANGED <<desk, alive, fresh, known, panel, game>>

\* The panel is told the answer to its message.  The box is emptied when it
\* still holds the text that was sent.
Settle ==
    /\ result' = [n |-> sending, content |-> ask.content]
    /\ draft' = IF draft = ask.content THEN Nil ELSE draft
    /\ sending' = 0 /\ renewing' = FALSE /\ ask' = Nil

\* run() waits for the overview that follows an answer, whether it comes or fails.
AfterLoad == IF renewing THEN Settle ELSE UNCHANGED panel

\* The first overview opens the panel.  The page of the auto process lets its
\* panel send whether or not the last overview came.
OverviewArrives(seen) ==
    /\ loads' = loads \ {seen}
    /\ known' = seen /\ fresh' = (desk = "sop")
    /\ AfterLoad
    /\ UNCHANGED <<desk, alive, game>>

OverviewFails(seen) ==
    /\ loads' = loads \ {seen}
    /\ fresh' = FALSE
    /\ AfterLoad
    /\ UNCHANGED <<desk, alive, known, game>>

-----------------------------------------------------------------------------
(* The panel.                                                              *)

\* The form answers: the panel is open, no dialog is over it.
Idle == known # Nil /\ ask = Nil /\ sending = 0

\* What disables the buttons, and is looked at again before a message leaves.
Usable ==
    /\ known # Nil
    /\ known.online
    /\ desk = "sop" => alive /\ fresh

WriteText ==
    /\ Idle
    /\ \E d \in Texts \cup {Nil} : draft' = d
    /\ UNCHANGED <<desk, polling, known, ask, sending, renewing, result, game>>

RequestSend(content) ==
    /\ Idle /\ Usable
    /\ ask' = [n |-> Len(requests) + 1, target |-> known.target, content |-> content]
    /\ UNCHANGED <<desk, polling, known, draft, sending, renewing, result, game>>

Submit == draft # Nil /\ RequestSend(draft)

SubmitQuick == \E r \in Rates : RequestSend(r)

Cancel ==
    /\ ask # Nil /\ sending = 0
    /\ ask' = Nil
    /\ UNCHANGED <<desk, polling, known, draft, sending, renewing, result, game>>

\* A slip: the page only looks whether the account is online.
StillOnline == Usable

\* confirmSend looks for the dialog's target in the overview of the moment.
StillThere == Usable /\ known.target = ask.target

MayConfirm == ask # Nil /\ sending = 0

Confirm ==
    /\ MayConfirm /\ StillThere
    /\ Len(requests) < MaxSends
    /\ requests' = Append(requests, [ask |-> ask, content |-> ask.content,
                                     since |-> known.since, stage |-> "sent"])
    /\ sending' = Len(requests) + 1
    /\ UNCHANGED <<desk, polling, known, draft, ask, renewing, result, account, received>>

ConfirmRefused ==
    /\ MayConfirm /\ ~StillThere
    /\ ask' = Nil
    /\ UNCHANGED <<desk, polling, known, draft, sending, renewing, result, game>>

\* The message n is at that stage of its way.
IsAt(n, stage) == n \in DOMAIN requests /\ requests[n].stage = stage

\* run(): an answer waits for an overview, except when one is already on its
\* way, which it does not wait for.
AnswerArrives ==
    /\ sending > 0 /\ ~renewing
    /\ requests[sending].stage = "answered"
    /\ IF MayLoad
       THEN loads' = loads \cup {Nil} /\ renewing' = TRUE
            /\ UNCHANGED <<draft, ask, sending, result>>
       ELSE Settle /\ UNCHANGED loads
    /\ UNCHANGED <<desk, alive, fresh, known, game>>

\* A slip: told of a failure, the panel keeps its dialog and its lock.
FailLocked == UNCHANGED panel

Unlock == ask' = Nil /\ sending' = 0 /\ UNCHANGED <<draft, renewing, result>>

\* The answer is an error; or none came: the connection broke, or the SOP's
\* backend waited ten seconds for the auto process.  The panel says that
\* sending failed, whatever became of the message.
ErrorArrives ==
    /\ sending > 0 /\ ~renewing
    /\ Unlock
    /\ UNCHANGED <<desk, polling, known, game>>

LoadEnds == \/ \E seen \in loads \ {Nil} : OverviewArrives(seen)
            \/ \E seen \in loads : OverviewFails(seen)

Told == AnswerArrives \/ (IsAt(sending, "refused") /\ ErrorArrives)

\* The page is opened anew, or the connection switch closes the panel.
Reopen ==
    /\ loads' = {} /\ alive' = FALSE /\ fresh' = FALSE /\ known' = Nil
    /\ draft' = Nil /\ ask' = Nil
    /\ sending' = 0 /\ renewing' = FALSE /\ result' = Nil
    /\ UNCHANGED <<desk, game>>

-----------------------------------------------------------------------------
(* The auto process: a message is handled under the account's lock, on the *)
(* account as it is then.                                                  *)

Locked == \E n \in DOMAIN requests : requests[n].stage \in {"serving", "written"}

Moves(n, stage) == requests' = [requests EXCEPT ![n].stage = stage]

OnlyRequests == UNCHANGED <<desk, polling, known, panel, account, received>>

\* The request never arrives, or is refused before it is handled.
Lose(n) == IsAt(n, "sent") /\ Moves(n, "refused") /\ OnlyRequests

\* An account that is stopped or has no session refuses at once; one that
\* reconnects lets the message wait.
Handle(n) ==
    /\ IsAt(n, "sent") /\ ~Locked
    /\ Moves(n, "serving") \/ (~account.online /\ Moves(n, "refused"))
    /\ OnlyRequests

\* The session is ready, or has become so while the message waited.
WriteToGame(n) ==
    /\ IsAt(n, "serving") /\ account.online
    /\ received' = Append(received, [n |-> n, content |-> requests[n].content,
                                     target |-> account.target, since |-> account.since])
    /\ Moves(n, "written")
    /\ UNCHANGED <<desk, polling, known, panel, account>>

\* The session does not come back in time, writing fails, or the caller is gone.
GiveUp(n) == IsAt(n, "serving") /\ Moves(n, "refused") /\ OnlyRequests

\* The game's answer is reported, or its absence; a connection that breaks
\* after the writing is an error, and an answer that nobody waits for any
\* more is as good as none.
Reply(n) ==
    /\ IsAt(n, "written")
    /\ Moves(n, "refused") \/ (sending = n /\ Moves(n, "answered"))
    /\ OnlyRequests

-----------------------------------------------------------------------------
(* The account changes: by others, and by the game.                        *)

AccountBecomes(a) == account' = a /\ UNCHANGED <<desk, polling, known, panel, requests, received>>

\* An edit waits for the message that is being handled, and logs in anew.
Retarget ==
    /\ ~Locked /\ account.since < MaxEdits
    /\ \E t \in Targets \ {account.target} :
          AccountBecomes([account EXCEPT !.target = t, !.online = FALSE, !.since = @ + 1])

\* It is stopped or loses its session; it is started or reconnects.
Drop   == account.online /\ AccountBecomes([account EXCEPT !.online = FALSE])
Return == ~account.online /\ AccountBecomes([account EXCEPT !.online = TRUE])

-----------------------------------------------------------------------------
PanelStep ==
    \/ Poll \/ ReadOverview
    \/ LoadEnds
    \/ WriteText \/ Submit \/ SubmitQuick \/ Cancel
    \/ Confirm \/ ConfirmRefused \/ AnswerArrives \/ ErrorArrives \/ Reopen

ServerStep == \E n \in 1..MaxSends : Lose(n) \/ Handle(n) \/ WriteToGame(n) \/ GiveUp(n) \/ Reply(n)

AccountStep == Retarget \/ Drop \/ Return

MessagesNext == PanelStep \/ ServerStep \/ AccountStep

MessagesSpec == MessagesInit /\ [][MessagesNext]_messageVars

Handled == \E n \in 1..MaxSends : Handle(n) \/ GiveUp(n) \/ Reply(n)

\* Messages get their turn and their handling ends, an answer arrives or its
\* loss is noticed, and an overview arrives or fails.
Fairness == WF_messageVars(Handled) /\ WF_messageVars(Told) /\ WF_messageVars(LoadEnds)

MessagesFairSpec == MessagesSpec /\ Fairness

-----------------------------------------------------------------------------
MessagesTypeOK ==
    /\ desk \in Desks /\ account \in Account
    /\ requests \in Seq(Message) /\ Len(requests) <= MaxSends
    /\ received \in Seq(Receipt)
    /\ alive \in BOOLEAN /\ fresh \in BOOLEAN
    /\ loads \subseteq Account \cup {Nil} /\ known \in Account \cup {Nil}
    /\ draft \in Texts \cup {Nil}
    /\ ask \in Ask \cup {Nil} /\ sending \in 0..Len(requests)
    /\ renewing \in BOOLEAN /\ result \in Result \cup {Nil}

\* A confirmation is for one message: it reaches the game at most once, and
\* with the content that the dialog showed.
OncePerConfirmation ==
    \A i \in DOMAIN received :
        LET q == requests[received[i].n]
        IN  /\ received[i].content = q.ask.content
            /\ \A j \in DOMAIN received :
                  requests[received[j].n].ask = q.ask => i = j

\* A message reaches another target than the one its dialog showed only when
\* the account was edited after the overview that the page held when it sent.
OnlyNewerEditsMislead ==
    \A i \in DOMAIN received :
        LET q == requests[received[i].n]
        IN  received[i].target # q.ask.target => received[i].since > q.since

\* The result on the screen is that of a message which reached the game, and
\* names its content.
ResultIsOfItsMessage ==
    result # Nil =>
        \E i \in DOMAIN received :
            /\ received[i].n = result.n
            /\ received[i].content = result.content

MessagesAreHonest == MessagesTypeOK /\ OncePerConfirmation /\ OnlyNewerEditsMislead /\ ResultIsOfItsMessage

\* Overviews never take the page back to an earlier state of the account.  A
\* text leaves the box, other than by the operator's hand, when it has reached
\* the game, so that what failed can be sent again.
NothingGoesBack ==
    [][ known # Nil /\ known' # Nil =>
          /\ known'.since >= known.since
          /\ sending > 0 /\ draft' # draft =>
               \E i \in DOMAIN received :
                   received[i].n = sending /\ received[i].content = draft ]_messageVars

\* The panel's lock is given back: the wait for an answer ends.
SendingEnds == (sending > 0) ~> (sending = 0)

=============================================================================
