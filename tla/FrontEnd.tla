------------------------------ MODULE FrontEnd ------------------------------
(***************************************************************************)
(* The way of a click to the daemon: the panel calls SetProfile on the     *)
(* D-Bus front end (elitebook-thermal-profile-dbus), which asks polkit and *)
(* hands what polkit grants to one worker thread; the worker talks to the  *)
(* daemon's control socket and gives the outcome to a callback on the main *)
(* loop, which answers the call.  A panel the front end does not answer    *)
(* runs the command line program through pkexec, straight to the socket.   *)
(*                                                                         *)
(* Each click is a call of its own.  What the profile is does not matter   *)
(* here, only whether it is one the front end knows.                       *)
(***************************************************************************)
EXTENDS Integers, Sequences, FiniteSets

CONSTANTS
  None,
  Calls,       \* the clicks of a behaviour
  UnknownCalls,\* those that ask for a profile there is not
  MaxFaults    \* bound: deaths of either service and calls that time out

ASSUME FrontEndAssumption ==
  /\ None \notin Calls
  /\ IsFiniteSet(Calls)
  /\ UnknownCalls \subseteq Calls
  /\ MaxFaults \in Nat

VARIABLES
  click,     \* where each click is: "idle", "called", "prompt", "cli" or "over"
  checks,    \* the calls polkit is being asked about
  rank,      \* history: the order in which polkit granted calls, 0 for not at all
  queue,     \* Forwarder._queue
  worker,    \* the worker: "idle", "took", "waiting", "accepted" or "refused"
  locals,    \* _run's variables: done and failed (of one call), and the outcomes
  callbacks, \* closures on the main loop, by the variable each will look up
  answers,   \* what each call was answered with, in order
  given,     \* history: how many answers were given
  listening, \* the daemon is there
  backlog,   \* connections the daemon has not served
  handled,   \* history: calls the daemon handled for the front end, in order
  retried,   \* history: clicks the daemon handled for the command line
  lost,      \* history: clicks whose call got no answer in time
  wiped,     \* history: how many calls the front end took with it when it died
  faults

clients == <<click, retried, lost>>
frontEnd == <<checks, rank, queue, worker, locals, callbacks, answers, given, wiped>>
daemon == <<listening, backlog, handled>>
vars == <<clients, frontEnd, daemon, faults>>

Outcomes == {"message", "refused", "unexpected"}

NoLocals == [call |-> None, message |-> None, refused |-> None, unexpected |-> None]

Init ==
  /\ click = [c \in Calls |-> "idle"]
  /\ checks = {}
  /\ rank = [c \in Calls |-> 0]
  /\ queue = <<>>
  /\ worker = "idle"
  /\ locals = NoLocals
  /\ callbacks = <<>>
  /\ answers = [c \in Calls |-> <<>>]
  /\ given = 0
  /\ listening \in BOOLEAN
  /\ backlog = <<>>
  /\ handled = <<>>
  /\ retried = {}
  /\ lost = {}
  /\ wiped = 0
  /\ faults = 0

Fault == faults < MaxFaults /\ faults' = faults + 1

-----------------------------------------------------------------------------
(* The main loop of the front end *)

\* The call is answered with the outcome of the request of another, or its own.
Answer(c, outcomeOf, ok) ==
  /\ answers' = [answers EXCEPT ![c] = Append(@, [of |-> outcomeOf, ok |-> ok])]
  /\ given' = given + 1

\* Mutant: a refusal sends the panel to pkexec.
EndedRetry(c) ==
  click' = IF click[c] = "called" THEN [click EXCEPT ![c] = "prompt"] ELSE click

\* What the panel makes of an answer: either way it is final.  A panel that gave
\* up on the call does not see it.
Ended(c) == click' = IF click[c] = "called" THEN [click EXCEPT ![c] = "over"] ELSE click

\* Service._on_call: an unknown profile is refused on the spot.
Click(c) ==
  /\ click[c] = "idle"
  /\ IF c \in UnknownCalls
       THEN /\ Answer(c, c, FALSE)
            /\ click' = [click EXCEPT ![c] = "over"]
            /\ UNCHANGED checks
       ELSE /\ checks' = checks \cup {c}
            /\ click' = [click EXCEPT ![c] = "called"]
            /\ UNCHANGED <<answers, given>>
  /\ UNCHANGED <<retried, lost, rank, queue, worker, locals, callbacks, wiped, daemon, faults>>

Granted == {c \in Calls : rank[c] > 0}

\* polkit said yes: Forwarder.submit.
Grant(c) ==
  /\ c \in checks
  /\ checks' = checks \ {c}
  /\ rank' = [rank EXCEPT ![c] = Cardinality(Granted) + 1]
  /\ queue' = Append(queue, c)
  /\ UNCHANGED <<clients, worker, locals, callbacks, answers, given, wiped, daemon, faults>>

\* Mutant: no answer from polkit is a yes, to a call that was never asked about.
DenyOpen(c) ==
  /\ c \in checks
  /\ checks' = checks \ {c}
  /\ queue' = Append(queue, c)
  /\ UNCHANGED <<clients, rank, worker, locals, callbacks, answers, given, wiped, daemon, faults>>

\* polkit said no, failed, or did not answer in five minutes.
Deny(c) ==
  /\ c \in checks
  /\ checks' = checks \ {c}
  /\ Answer(c, c, FALSE)
  /\ Ended(c)
  /\ UNCHANGED <<retried, lost, rank, queue, worker, locals, callbacks, wiped, daemon, faults>>

\* An idle callback.  The closure holds the names done or failed, message or
\* refused, not their values: it answers the call the worker is at by now.
Deliver ==
  /\ callbacks # <<>>
  /\ callbacks' = Tail(callbacks)
  /\ Answer(locals.call, locals[Head(callbacks)], Head(callbacks) = "message")
  /\ Ended(locals.call)
  /\ UNCHANGED <<retried, lost, checks, rank, queue, worker, locals, wiped, daemon, faults>>

-----------------------------------------------------------------------------
(* The worker: Forwarder._run *)

\* Mutant: the newest request first.
TakeNewest ==
  /\ worker = "idle" /\ queue # <<>>
  /\ worker' = "took"
  /\ locals' = [locals EXCEPT !.call = queue[Len(queue)]]
  /\ queue' = SubSeq(queue, 1, Len(queue) - 1)
  /\ UNCHANGED <<clients, checks, rank, callbacks, answers, given, wiped, daemon, faults>>

Take ==
  /\ worker = "idle" /\ queue # <<>>
  /\ worker' = "took"
  /\ locals' = [locals EXCEPT !.call = Head(queue)]
  /\ queue' = Tail(queue)
  /\ UNCHANGED <<clients, checks, rank, callbacks, answers, given, wiped, daemon, faults>>

\* forward(), up to the answer.
Connect ==
  /\ worker = "took" /\ listening
  /\ worker' = "waiting"
  /\ backlog' = Append(backlog, [call |-> locals.call, via |-> "front_end"])
  /\ UNCHANGED <<clients, checks, rank, queue, locals, callbacks, answers, given, wiped,
                 listening, handled, faults>>

\* Mutant: the callback is left before the outcome is known.
LeaveUnbound(outcome) ==
  /\ worker' = "idle"
  /\ callbacks' = Append(callbacks, outcome)
  /\ UNCHANGED <<clients, checks, rank, queue, locals, answers, given, wiped, daemon, faults>>

\* The outcome is bound to a variable of _run and a callback is left that looks it up.
Leave(outcome) ==
  /\ worker' = "idle"
  /\ locals' = [locals EXCEPT ![outcome] = locals.call]
  /\ callbacks' = Append(callbacks, outcome)
  /\ UNCHANGED <<clients, checks, rank, queue, answers, given, wiped, daemon, faults>>

Accepted == worker = "accepted" /\ Leave("message")

\* Mutant: the send has no timeout.
FailedNoTimeout ==
  /\ worker = "refused" \/ (worker = "took" /\ ~listening)
  /\ Leave("refused")

\* Mutant: an outcome that is not the daemon's is dropped.
FailedSilently ==
  /\ \/ worker \in {"refused", "waiting"}
     \/ worker = "took" /\ ~listening
  /\ worker' = "idle"
  /\ UNCHANGED <<clients, checks, rank, queue, locals, callbacks, answers, given, wiped, daemon,
                 faults>>

\* Refused, service down, an answer that cannot be read, or none in 30 seconds:
\* the daemon may handle that request all the same.
Failed ==
  /\ \/ worker \in {"refused", "waiting"}
     \/ worker = "took" /\ ~listening
  /\ Leave("refused")

\* Any other exception in the send.
Raised == worker \in {"took", "waiting"} /\ Leave("unexpected")

-----------------------------------------------------------------------------
(* The daemon's socket *)

\* serve_one: the client may have given up, the request is handled all the same.
Serve(ok) ==
  /\ listening /\ backlog # <<>>
  /\ backlog' = Tail(backlog)
  /\ IF Head(backlog).via = "front_end"
       THEN /\ handled' = Append(handled, Head(backlog).call)
            /\ worker' = IF worker = "waiting" /\ locals.call = Head(backlog).call
                           THEN IF ok THEN "accepted" ELSE "refused"
                           ELSE worker
            /\ UNCHANGED <<click, retried>>
       ELSE /\ retried' = retried \cup {Head(backlog).call}
            /\ click' = [click EXCEPT ![Head(backlog).call] = "over"]
            /\ UNCHANGED <<handled, worker>>
  /\ UNCHANGED <<lost, checks, rank, queue, locals, callbacks, answers, given, wiped, listening,
                 faults>>

\* It stops or dies: open connections end without an answer.
DaemonGone ==
  /\ Fault
  /\ listening
  /\ listening' = FALSE
  /\ backlog' = <<>>
  /\ worker' = IF worker = "waiting" THEN "refused" ELSE worker
  /\ click' = [c \in Calls |-> IF click[c] = "cli" THEN "over" ELSE click[c]]
  /\ UNCHANGED <<retried, lost, checks, rank, queue, locals, callbacks, answers, given, wiped,
                 handled>>

DaemonBack ==
  /\ ~listening
  /\ listening' = TRUE
  /\ UNCHANGED <<clients, frontEnd, backlog, handled, faults>>

-----------------------------------------------------------------------------
(* The panel without an answer, and the front end's death *)

\* The call timed out after five minutes; the front end goes on working at it.
CallTimesOut(c) ==
  /\ Fault
  /\ click[c] = "called"
  /\ click' = [click EXCEPT ![c] = "prompt"]
  /\ lost' = lost \cup {c}
  /\ UNCHANGED <<retried, frontEnd, daemon>>

\* pkexec: denied, or the command line program finds no daemon.
GiveUp(c) ==
  /\ click[c] \in {"prompt", "cli"}
  /\ click' = [click EXCEPT ![c] = "over"]
  /\ UNCHANGED <<retried, lost, frontEnd, daemon, faults>>

RunCli(c) ==
  /\ click[c] = "prompt" /\ listening
  /\ click' = [click EXCEPT ![c] = "cli"]
  /\ backlog' = Append(backlog, [call |-> c, via |-> "command_line"])
  /\ UNCHANGED <<retried, lost, frontEnd, listening, handled, faults>>

Busy == IF worker = "idle" THEN 0 ELSE 1

\* The calls the front end has yet to answer.
Pending == Cardinality(checks) + Len(queue) + Busy + Len(callbacks)

\* The bus tells every caller still waiting; the next call starts a new front end.
FrontEndDies ==
  /\ Fault
  /\ checks' = {}
  /\ queue' = <<>>
  /\ worker' = "idle"
  /\ locals' = NoLocals
  /\ callbacks' = <<>>
  /\ wiped' = wiped + Pending
  /\ lost' = lost \cup {c \in Calls : click[c] = "called"}
  /\ click' = [c \in Calls |-> IF click[c] = "called" THEN "prompt" ELSE click[c]]
  /\ UNCHANGED <<retried, rank, answers, given, daemon>>

Polkit == \E c \in Calls : Grant(c) \/ Deny(c)
Worker == Take \/ Connect \/ Accepted \/ Failed

Next ==
  \/ \E c \in Calls : Click(c) \/ CallTimesOut(c) \/ GiveUp(c) \/ RunCli(c)
  \/ Polkit
  \/ Deliver
  \/ Worker
  \/ Raised
  \/ \E ok \in BOOLEAN : Serve(ok)
  \/ DaemonGone
  \/ DaemonBack
  \/ FrontEndDies

Spec == Init /\ [][Next]_vars

\* polkit answers or its five minutes run out, the worker's sends end within 30
\* seconds, and the main loop runs what it was given.
Fairness == WF_vars(Polkit) /\ WF_vars(Worker) /\ WF_vars(Deliver)

FairSpec == Spec /\ Fairness

-----------------------------------------------------------------------------
(* What must hold *)

Requests == [call : Calls, via : {"front_end", "command_line"}]

ClientsOK ==
  /\ click \in [Calls -> {"idle", "called", "prompt", "cli", "over"}]
  /\ retried \subseteq Calls /\ lost \subseteq Calls

ForwarderOK ==
  /\ checks \subseteq Calls
  /\ rank \in [Calls -> Nat]
  /\ queue \in Seq(Calls)
  /\ worker \in {"idle", "took", "waiting", "accepted", "refused"}
  /\ locals \in [{"call"} \cup Outcomes -> Calls \cup {None}]
  /\ callbacks \in Seq(Outcomes)

AnswersOK ==
  /\ answers \in [Calls -> Seq([of : Calls, ok : BOOLEAN])]
  /\ given \in Nat /\ wiped \in Nat

DaemonOK ==
  /\ listening \in BOOLEAN
  /\ backlog \in Seq(Requests)
  /\ handled \in Seq(Calls)
  /\ faults \in 0..MaxFaults

TypeOK == ClientsOK /\ ForwarderOK /\ AnswersOK /\ DaemonOK

\* What the daemon does for the front end polkit granted, and it does it in the
\* order of the grants, although a send may time out and be handled after that,
\* the daemon may come and go, and the front end may die. (Forwarder: "A single
\* worker keeps two quick clicks applied in the order they were made")
HandledInOrder ==
  /\ \A i \in DOMAIN handled : rank[handled[i]] > 0
  /\ \A i, j \in DOMAIN handled : i < j => rank[handled[i]] < rank[handled[j]]

\* No outcome is dropped and none is given twice: of the calls made, those not
\* lost with the front end are answered or owed an answer.  Who gets the answer
\* is another matter. (Forwarder._run, _on_call; "the caller must get an answer")
AnswersAddUp ==
  given + Pending + wiped = Cardinality({c \in Calls : click[c] # "idle"})

\* A click the daemon handled for the command line got no answer from the front
\* end in time: a refusal or a denial is never tried again with root's rights.
\* (profileSwitcher.js: "An answer from the front end itself ... is final and
\* never retried through pkexec")
RefusalIsFinal == retried \subseteq lost

\* Every call the front end takes on is worked off, whatever the daemon does.
\* (POLKIT_TIMEOUT_MS, DAEMON_TIMEOUT_S, the except clauses of _run)
WorkedOff == []<>(Pending = 0)

\* tests/test_dbus_frontend.py, test_forwarder_keeps_order_and_reports_every_outcome:
\* each call is answered with the outcome of its own request. (Forwarder._run)
OwnOutcome == \A c \in Calls : \A i \in DOMAIN answers[c] : answers[c][i].of = c
=============================================================================
