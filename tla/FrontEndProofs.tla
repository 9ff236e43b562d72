--------------------------- MODULE FrontEndProofs ---------------------------
(***************************************************************************)
(* What the front end keeps in order and what it keeps count of, for any   *)
(* number of calls and faults.                                             *)
(*                                                                         *)
(* A granted call moves one way: the queue, the worker, the daemon's       *)
(* backlog, handled.  InOrder says that the calls along that way stand in  *)
(* the order of their grants.                                              *)
(***************************************************************************)
EXTENDS FrontEnd, FiniteSetTheorems, TLAPS

\* A worker at work and a callback that waits have a call, and callbacks an outcome.
Bound ==
  /\ worker # "idle" \/ callbacks # <<>> => locals["call"] # None
  /\ \A i \in DOMAIN callbacks : locals[callbacks[i]] # None

TypeInv == TypeOK /\ Bound

\* Only a click there was is checked, and only a call that was checked is granted.
Steps ==
  /\ \A c \in Calls : click[c] = "idle" => rank[c] = 0 /\ c \notin checks
  /\ \A c \in checks : rank[c] = 0

\* The clicks there were.
Clicked == {c \in Calls : click[c] # "idle"}

-----------------------------------------------------------------------------
(* Order *)

\* What waits at the daemon for the front end.
Sent == {i \in DOMAIN backlog : backlog[i].via = "front_end"}

\* The calls of the way were granted,
Positive ==
  /\ \A c \in Calls : rank[c] <= Cardinality(Granted)
  /\ \A i \in DOMAIN handled : rank[handled[i]] > 0
  /\ \A i \in Sent : rank[backlog[i].call] > 0
  /\ worker = "took" => rank[locals["call"]] > 0
  /\ \A i \in DOMAIN queue : rank[queue[i]] > 0

\* each part of it stands in their order,
Sorted ==
  /\ \A i, j \in DOMAIN handled : i < j => rank[handled[i]] < rank[handled[j]]
  /\ \A i, j \in Sent : i < j => rank[backlog[i].call] < rank[backlog[j].call]
  /\ \A i, j \in DOMAIN queue : i < j => rank[queue[i]] < rank[queue[j]]

\* and so do the parts among themselves.
Apart ==
  /\ \A i \in DOMAIN handled, j \in Sent : rank[handled[i]] < rank[backlog[j].call]
  /\ \A i \in DOMAIN handled, j \in DOMAIN queue : rank[handled[i]] < rank[queue[j]]
  /\ \A i \in Sent, j \in DOMAIN queue : rank[backlog[i].call] < rank[queue[j]]

AtWorker ==
  worker = "took" =>
    /\ \A i \in DOMAIN handled : rank[handled[i]] < rank[locals["call"]]
    /\ \A i \in Sent : rank[backlog[i].call] < rank[locals["call"]]
    /\ \A i \in DOMAIN queue : rank[locals["call"]] < rank[queue[i]]

InOrder == Positive /\ Sorted /\ Apart /\ AtWorker

-----------------------------------------------------------------------------
(* The command line *)

\* Who goes to the command line lost the call.
CliInv ==
  /\ RefusalIsFinal
  /\ \A c \in Calls : click[c] \in {"prompt", "cli"} => c \in lost
  /\ \A c \in lost : click[c] # "idle"
  /\ \A i \in DOMAIN backlog : backlog[i].via = "command_line" => backlog[i].call \in lost

-----------------------------------------------------------------------------
(* Each step keeps them *)

LEMMA AnswerTyped ==
  ASSUME AnswersOK, NEW c \in Calls, NEW o \in Calls, NEW ok \in BOOLEAN, Answer(c, o, ok),
         UNCHANGED wiped
  PROVE  AnswersOK'
<1> DEFINE R == [of : Calls, ok : BOOLEAN]
<1>1. [of |-> o, ok |-> ok] \in R
  BY Zenon
<1>2. answers \in [Calls -> Seq(R)] /\ given \in Nat /\ wiped \in Nat
  BY DEF AnswersOK
<1>3. /\ answers' = [answers EXCEPT ![c] = Append(@, [of |-> o, ok |-> ok])]
      /\ given' = given + 1
  BY DEF Answer
<1>4. AnswersOK' <=> answers' \in [Calls -> Seq(R)] /\ given' \in Nat /\ wiped' \in Nat
  BY DEF AnswersOK
<1> HIDE DEF R
<1>5. answers' \in [Calls -> Seq(R)]
  BY <1>1, <1>2, <1>3
<1>6. QED
  BY <1>2, <1>3, <1>4, <1>5

LEMMA GrantedCount == IsFiniteSet(Granted) /\ Cardinality(Granted) \in Nat
<1>1. IsFiniteSet(Calls) /\ Granted \subseteq Calls
  BY FrontEndAssumption DEF Granted
<1>2. QED
  BY <1>1, FS_Subset, FS_CardinalityType

LEMMA PendingCounts ==
  ASSUME ForwarderOK
  PROVE  /\ IsFiniteSet(checks) /\ Cardinality(checks) \in Nat
         /\ Pending \in Nat
<1>1. IsFiniteSet(Calls) /\ checks \subseteq Calls
  BY FrontEndAssumption DEF ForwarderOK
<1>2. IsFiniteSet(checks) /\ Cardinality(checks) \in Nat
  BY <1>1, FS_Subset, FS_CardinalityType
<1>3. Len(queue) \in Nat /\ Len(callbacks) \in Nat /\ Busy \in Nat
  BY DEF ForwarderOK, Busy
<1>4. QED
  BY <1>2, <1>3 DEF Pending

\* The types.
LEMMA TypeStep ==
  ASSUME TypeInv, Next
  PROVE  TypeInv'
<1> USE FrontEndAssumption DEF TypeInv, TypeOK, clients, frontEnd, daemon
<1>1. ASSUME NEW c \in Calls, Click(c)  PROVE TypeInv'
  <2>1. AnswersOK'
    <3>1. CASE c \in UnknownCalls
      <4>1. Answer(c, c, FALSE) /\ UNCHANGED wiped
        BY <1>1, <3>1 DEF Click
      <4>2. QED
        BY <4>1, AnswerTyped
    <3>2. CASE c \notin UnknownCalls
      BY <1>1, <3>2 DEF Click, AnswersOK
    <3>3. QED
      BY <3>1, <3>2
  <2>2. ClientsOK'
    BY <1>1 DEF Click, ClientsOK
  <2>3. ForwarderOK' /\ Bound'
    BY <1>1 DEF Click, ForwarderOK, Bound
  <2>4. DaemonOK'
    BY <1>1 DEF Click, DaemonOK
  <2>5. QED
    BY <2>1, <2>2, <2>3, <2>4 DEF TypeInv, TypeOK
<1>2. ASSUME NEW c \in Calls, CallTimesOut(c)  PROVE TypeInv'
  BY <1>2 DEF CallTimesOut, Fault, ClientsOK, ForwarderOK, AnswersOK, DaemonOK, Bound
<1>3. ASSUME NEW c \in Calls, GiveUp(c)  PROVE TypeInv'
  BY <1>3 DEF GiveUp, ClientsOK, ForwarderOK, AnswersOK, DaemonOK, Bound
<1>4. ASSUME NEW c \in Calls, RunCli(c)  PROVE TypeInv'
  BY <1>4 DEF RunCli, ClientsOK, ForwarderOK, AnswersOK, DaemonOK, Bound, Requests
<1>5. ASSUME NEW c \in Calls, Grant(c)  PROVE TypeInv'
  <2>1. rank' \in [Calls -> Nat]
    BY <1>5, GrantedCount DEF Grant, ForwarderOK
  <2>2. ForwarderOK'
    BY <1>5, <2>1 DEF Grant, ForwarderOK
  <2>3. ClientsOK' /\ AnswersOK' /\ DaemonOK' /\ Bound'
    BY <1>5 DEF Grant, ClientsOK, AnswersOK, DaemonOK, Bound
  <2>4. QED
    BY <2>2, <2>3 DEF TypeInv, TypeOK
<1>6. ASSUME NEW c \in Calls, Deny(c)  PROVE TypeInv'
  <2>1. ClientsOK' /\ ForwarderOK' /\ DaemonOK' /\ Bound'
    BY <1>6 DEF Deny, Ended, ClientsOK, ForwarderOK, DaemonOK, Bound
  <2>2. AnswersOK'
    BY <1>6, AnswerTyped DEF Deny
  <2>3. QED
    BY <2>1, <2>2 DEF TypeInv, TypeOK
<1>7. ASSUME Deliver  PROVE TypeInv'
  <2>1. callbacks \in Seq(Outcomes) /\ callbacks # <<>> /\ callbacks' = Tail(callbacks)
    BY <1>7 DEF Deliver, ForwarderOK
  <2>2. callbacks' \in Seq(Outcomes)
    BY <2>1
  <2>3. Head(callbacks) = callbacks[1] /\ 1 \in DOMAIN callbacks
    BY <2>1
  <2>4. \A i \in DOMAIN callbacks' : i + 1 \in DOMAIN callbacks /\ callbacks'[i] = callbacks[i + 1]
    BY <2>1
  <2>5. /\ UNCHANGED <<checks, rank, queue, worker, locals>>
        /\ UNCHANGED <<retried, lost, wiped, daemon, faults>>
    BY <1>7 DEF Deliver
  <2>6. ForwarderOK'
    BY <2>2, <2>5 DEF ForwarderOK
  <2>7. Bound'
    BY <2>4, <2>5, <2>1 DEF Bound
  <2>8. locals["call"] \in Calls /\ locals[Head(callbacks)] \in Calls
    BY <2>1, <2>3 DEF Bound, ForwarderOK, Outcomes
  <2>9. AnswersOK'
    BY <1>7, <2>5, <2>8, AnswerTyped DEF Deliver
  <2>10. ClientsOK' /\ DaemonOK'
    BY <1>7, <2>5, <2>8 DEF Deliver, Ended, ClientsOK, DaemonOK, daemon
  <2>11. QED
    BY <2>6, <2>7, <2>9, <2>10 DEF TypeInv, TypeOK
<1>8. ASSUME Take  PROVE TypeInv'
  <2>1. Head(queue) \in Calls /\ Tail(queue) \in Seq(Calls)
    BY <1>8 DEF Take, ForwarderOK
  <2>2. locals' \in [{"call"} \cup Outcomes -> Calls \cup {None}] /\ locals'["call"] = Head(queue)
    BY <1>8, <2>1 DEF Take, ForwarderOK
  <2>3. \A v \in Outcomes : locals'[v] = locals[v]
    BY <1>8 DEF Take, ForwarderOK, Outcomes
  <2>4. ForwarderOK'
    BY <1>8, <2>1, <2>2 DEF Take, ForwarderOK
  <2>5. Bound'
    <3>1. callbacks' = callbacks /\ callbacks \in Seq(Outcomes) /\ None \notin Calls
      BY <1>8 DEF Take, ForwarderOK
    <3>2. \A i \in DOMAIN callbacks : callbacks[i] \in Outcomes
      BY <3>1
    <3>3. QED
      BY <3>1, <3>2, <2>1, <2>2, <2>3 DEF Bound
  <2>6. ClientsOK' /\ AnswersOK' /\ DaemonOK'
    BY <1>8 DEF Take, ClientsOK, AnswersOK, DaemonOK
  <2>7. QED
    BY <2>4, <2>5, <2>6 DEF TypeInv, TypeOK
<1>9. ASSUME Connect  PROVE TypeInv'
  <2>1. locals["call"] \in Calls
    BY <1>9 DEF Connect, Bound, ForwarderOK
  <2>2. DaemonOK'
    BY <1>9, <2>1 DEF Connect, DaemonOK, Requests
  <2>3. ClientsOK' /\ AnswersOK' /\ ForwarderOK' /\ Bound'
    BY <1>9 DEF Connect, ClientsOK, AnswersOK, ForwarderOK, Bound
  <2>4. QED
    BY <2>2, <2>3 DEF TypeInv, TypeOK
<1>10. ASSUME Accepted  PROVE TypeInv'
  <2>1. ClientsOK' /\ AnswersOK' /\ DaemonOK'
    BY <1>10 DEF Accepted, Leave, ClientsOK, AnswersOK, DaemonOK
  <2>2. ForwarderOK'
    BY <1>10 DEF Accepted, Leave, ForwarderOK, Bound, Outcomes
  <2>3. Bound'
    BY <1>10 DEF Accepted, Leave, ForwarderOK, Bound, Outcomes
  <2>4. QED
    BY <2>1, <2>2, <2>3 DEF TypeInv, TypeOK
<1>11. ASSUME Failed  PROVE TypeInv'
  <2>1. ClientsOK' /\ AnswersOK' /\ DaemonOK'
    BY <1>11 DEF Failed, Leave, ClientsOK, AnswersOK, DaemonOK
  <2>2. ForwarderOK'
    BY <1>11 DEF Failed, Leave, ForwarderOK, Bound, Outcomes
  <2>3. Bound'
    BY <1>11 DEF Failed, Leave, ForwarderOK, Bound, Outcomes
  <2>4. QED
    BY <2>1, <2>2, <2>3 DEF TypeInv, TypeOK
<1>12. ASSUME Raised  PROVE TypeInv'
  <2>1. ClientsOK' /\ AnswersOK' /\ DaemonOK'
    BY <1>12 DEF Raised, Leave, ClientsOK, AnswersOK, DaemonOK
  <2>2. ForwarderOK'
    BY <1>12 DEF Raised, Leave, ForwarderOK, Bound, Outcomes
  <2>3. Bound'
    BY <1>12 DEF Raised, Leave, ForwarderOK, Bound, Outcomes
  <2>4. QED
    BY <2>1, <2>2, <2>3 DEF TypeInv, TypeOK
<1>13. ASSUME NEW ok \in BOOLEAN, Serve(ok)  PROVE TypeInv'
  <2>1. Head(backlog) \in Requests /\ Tail(backlog) \in Seq(Requests)
    BY <1>13 DEF Serve, DaemonOK
  <2>2. Head(backlog).call \in Calls
    BY <2>1 DEF Requests
  <2>3. handled' \in Seq(Calls)
    BY <1>13, <2>2 DEF Serve, DaemonOK
  <2>4. DaemonOK'
    BY <1>13, <2>1, <2>3 DEF Serve, DaemonOK
  <2>5. ClientsOK'
    BY <1>13, <2>2 DEF Serve, ClientsOK
  <2>6. ForwarderOK' /\ AnswersOK' /\ Bound'
    BY <1>13 DEF Serve, ForwarderOK, AnswersOK, Bound
  <2>7. QED
    BY <2>4, <2>5, <2>6 DEF TypeInv, TypeOK
<1>14. ASSUME DaemonGone  PROVE TypeInv'
  <2>1. ClientsOK'
    BY <1>14 DEF DaemonGone, ClientsOK
  <2>2. DaemonOK'
    <3>1. faults' \in 0..MaxFaults
      BY <1>14 DEF DaemonGone, Fault, DaemonOK
    <3>2. listening' = FALSE /\ backlog' = <<>> /\ handled' = handled
      BY <1>14 DEF DaemonGone
    <3>3. backlog' \in Seq(Requests)
      <4> HIDE DEF Requests
      <4>1. QED
        BY <3>2
    <3>4. listening' \in BOOLEAN
      BY <3>2, Zenon
    <3>5. handled' \in Seq(Calls)
      BY <3>2 DEF DaemonOK
    <3>6. QED
      BY <3>1, <3>3, <3>4, <3>5, Zenon DEF DaemonOK
  <2>3. AnswersOK' /\ ForwarderOK' /\ Bound'
    BY <1>14 DEF DaemonGone, AnswersOK, ForwarderOK, Bound
  <2>4. QED
    BY <2>1, <2>2, <2>3 DEF TypeInv, TypeOK
<1>15. ASSUME DaemonBack  PROVE TypeInv'
  BY <1>15 DEF DaemonBack, ClientsOK, ForwarderOK, AnswersOK, DaemonOK, Bound
<1>16. ASSUME FrontEndDies  PROVE TypeInv'
  <2>1. ClientsOK'
    BY <1>16 DEF FrontEndDies, ClientsOK
  <2>2. ForwarderOK'
    BY <1>16 DEF FrontEndDies, NoLocals, Outcomes, ForwarderOK
  <2>3. DaemonOK'
    BY <1>16 DEF FrontEndDies, Fault, DaemonOK
  <2>4. Bound'
    BY <1>16 DEF FrontEndDies, Bound
  <2>5. Pending \in Nat
    BY PendingCounts
  <2>6. AnswersOK'
    <3>1. answers' = answers /\ given' = given /\ wiped' = wiped + Pending
      BY <1>16 DEF FrontEndDies
    <3>2. wiped' \in Nat
      BY <2>5, <3>1 DEF AnswersOK
    <3>3. QED
      BY <3>1, <3>2, Zenon DEF AnswersOK
  <2>7. QED
    BY <2>1, <2>2, <2>3, <2>4, <2>6 DEF TypeInv, TypeOK
<1> QED
  BY <1>1, <1>2, <1>3, <1>4, <1>5, <1>6, <1>7, <1>8, <1>9, <1>10, <1>11, <1>12, <1>13, <1>14,
     <1>15, <1>16
     DEF Next, Polkit, Worker

\* The command line.
LEMMA CliStep ==
  ASSUME TypeInv, CliInv, Next
  PROVE  CliInv'
<1> USE FrontEndAssumption DEF TypeInv, TypeOK, ClientsOK, DaemonOK, Requests, CliInv, RefusalIsFinal,
           clients, frontEnd, daemon
<1>1. ASSUME NEW c \in Calls, Click(c)  PROVE CliInv'
  BY <1>1 DEF Click, Answer
<1>2. ASSUME NEW c \in Calls, CallTimesOut(c)  PROVE CliInv'
  BY <1>2 DEF CallTimesOut, Fault
<1>3. ASSUME NEW c \in Calls, GiveUp(c)  PROVE CliInv'
  BY <1>3 DEF GiveUp
<1>4. ASSUME NEW c \in Calls, RunCli(c)  PROVE CliInv'
  BY <1>4 DEF RunCli
<1>5. ASSUME NEW c \in Calls, Grant(c)  PROVE CliInv'
  BY <1>5 DEF Grant
<1>6. ASSUME NEW c \in Calls, Deny(c)  PROVE CliInv'
  BY <1>6 DEF Deny, Answer, Ended
<1>7. ASSUME Deliver  PROVE CliInv'
  BY <1>7 DEF Deliver, Answer, Ended
<1>8. ASSUME Take  PROVE CliInv'
  BY <1>8 DEF Take
<1>9. ASSUME Connect  PROVE CliInv'
  BY <1>9 DEF Connect
<1>10. ASSUME Accepted  PROVE CliInv'
  BY <1>10 DEF Accepted, Leave
<1>11. ASSUME Failed  PROVE CliInv'
  BY <1>11 DEF Failed, Leave
<1>12. ASSUME Raised  PROVE CliInv'
  BY <1>12 DEF Raised, Leave
<1>13. ASSUME NEW ok \in BOOLEAN, Serve(ok)  PROVE CliInv'
  <2>1. backlog \in Seq(Requests) /\ backlog # <<>> /\ backlog' = Tail(backlog) /\ lost' = lost
    BY <1>13 DEF Serve
  <2>2. 1 \in DOMAIN backlog /\ Head(backlog) = backlog[1] /\ backlog[1] \in Requests
    <3> HIDE DEF Requests
    <3>1. QED
      BY <2>1
  <2>3. \A i \in DOMAIN backlog' : i + 1 \in DOMAIN backlog /\ backlog'[i] = backlog[i + 1]
    BY <2>1
  <2>4. CASE backlog[1].via = "front_end"
    BY <1>13, <2>1, <2>2, <2>3, <2>4 DEF Serve
  <2>5. CASE backlog[1].via # "front_end"
    <3>1. backlog[1].via = "command_line" /\ backlog[1].call \in lost
      BY <2>2, <2>5
    <3>2. /\ retried' = retried \cup {backlog[1].call}
          /\ click' = [click EXCEPT ![backlog[1].call] = "over"]
      BY <1>13, <2>2, <2>5 DEF Serve
    <3>3. QED
      BY <2>1, <2>3, <3>1, <3>2
  <2>6. QED
    BY <2>4, <2>5
<1>14. ASSUME DaemonGone  PROVE CliInv'
  BY <1>14 DEF DaemonGone, Fault
<1>15. ASSUME DaemonBack  PROVE CliInv'
  BY <1>15 DEF DaemonBack
<1>16. ASSUME FrontEndDies  PROVE CliInv'
  BY <1>16 DEF FrontEndDies, Fault, NoLocals
<1> QED
  BY <1>1, <1>2, <1>3, <1>4, <1>5, <1>6, <1>7, <1>8, <1>9, <1>10, <1>11, <1>12, <1>13, <1>14,
     <1>15, <1>16
     DEF Next, Polkit, Worker

\* What was checked and granted.
LEMMA StepsStep ==
  ASSUME TypeInv, Steps, Next
  PROVE  Steps'
<1> USE FrontEndAssumption DEF TypeInv, TypeOK, ClientsOK, ForwarderOK, Steps, clients, frontEnd, daemon
<1>1. ASSUME NEW c \in Calls, Click(c)  PROVE Steps'
  BY <1>1 DEF Click, Answer
<1>2. ASSUME NEW c \in Calls, CallTimesOut(c)  PROVE Steps'
  BY <1>2 DEF CallTimesOut, Fault
<1>3. ASSUME NEW c \in Calls, GiveUp(c)  PROVE Steps'
  BY <1>3 DEF GiveUp
<1>4. ASSUME NEW c \in Calls, RunCli(c)  PROVE Steps'
  BY <1>4 DEF RunCli
<1>5. ASSUME NEW c \in Calls, Grant(c)  PROVE Steps'
  BY <1>5 DEF Grant
<1>6. ASSUME NEW c \in Calls, Deny(c)  PROVE Steps'
  BY <1>6 DEF Deny, Answer, Ended
<1>7. ASSUME Deliver  PROVE Steps'
  BY <1>7 DEF Deliver, Answer, Ended
<1>8. ASSUME Take  PROVE Steps'
  BY <1>8 DEF Take
<1>9. ASSUME Connect  PROVE Steps'
  BY <1>9 DEF Connect
<1>10. ASSUME Accepted  PROVE Steps'
  BY <1>10 DEF Accepted, Leave
<1>11. ASSUME Failed  PROVE Steps'
  BY <1>11 DEF Failed, Leave
<1>12. ASSUME Raised  PROVE Steps'
  BY <1>12 DEF Raised, Leave
<1>13. ASSUME NEW ok \in BOOLEAN, Serve(ok)  PROVE Steps'
  BY <1>13 DEF Serve
<1>14. ASSUME DaemonGone  PROVE Steps'
  BY <1>14 DEF DaemonGone, Fault
<1>15. ASSUME DaemonBack  PROVE Steps'
  BY <1>15 DEF DaemonBack
<1>16. ASSUME FrontEndDies  PROVE Steps'
  BY <1>16 DEF FrontEndDies, Fault, NoLocals
<1> QED
  BY <1>1, <1>2, <1>3, <1>4, <1>5, <1>6, <1>7, <1>8, <1>9, <1>10, <1>11, <1>12, <1>13, <1>14,
     <1>15, <1>16
     DEF Next, Polkit, Worker

\* What happens to a part of the way a call goes.
LEMMA Appended ==
  ASSUME NEW S, NEW s \in Seq(S), NEW e \in S
  PROVE  /\ \A i \in DOMAIN s : i \in DOMAIN Append(s, e) /\ Append(s, e)[i] = s[i]
         /\ \A i \in DOMAIN Append(s, e) :
              \/ i \in DOMAIN s
              \/ i = Len(s) + 1 /\ Append(s, e)[i] = e
         /\ \A i \in DOMAIN s : i < Len(s) + 1 /\ i \in Nat
OBVIOUS

LEMMA Dropped ==
  ASSUME NEW S, NEW s \in Seq(S), s # <<>>
  PROVE  /\ 1 \in DOMAIN s /\ Head(s) = s[1]
         /\ \A i \in DOMAIN Tail(s) : /\ i + 1 \in DOMAIN s /\ Tail(s)[i] = s[i + 1]
                                       /\ i \in Nat /\ 1 < i + 1
OBVIOUS

\* The order of the grants.
LEMMA OrderStep ==
  ASSUME TypeInv, Steps, InOrder, Next
  PROVE  InOrder'
<1> DEFINE Way == <<rank, queue, handled, backlog, worker, locals>>
<1> USE DEF clients, frontEnd, daemon
<1>1. ASSUME UNCHANGED Way  PROVE InOrder'
  BY <1>1 DEF InOrder, Positive, Sorted, Apart, AtWorker, Sent, Granted
<1>2. /\ rank \in [Calls -> Nat] /\ queue \in Seq(Calls) /\ handled \in Seq(Calls)
      /\ backlog \in Seq(Requests) /\ \A r \in Requests : r.call \in Calls
      /\ \A i \in DOMAIN backlog : backlog[i] \in Requests
      /\ \A i \in DOMAIN queue : queue[i] \in Calls
      /\ \A i \in DOMAIN handled : handled[i] \in Calls
  <2>1. /\ rank \in [Calls -> Nat] /\ queue \in Seq(Calls) /\ handled \in Seq(Calls)
        /\ backlog \in Seq(Requests)
    BY DEF TypeInv, TypeOK, ForwarderOK, DaemonOK
  <2>2. \A r \in Requests : r.call \in Calls
    BY DEF Requests
  <2>3. QED
    BY <2>1, <2>2
<1>3. ASSUME NEW c \in Calls, Grant(c)  PROVE InOrder'
  <2>1. /\ rank[c] = 0
        /\ rank' = [rank EXCEPT ![c] = Cardinality(Granted) + 1]
        /\ queue' = Append(queue, c)
        /\ UNCHANGED <<handled, backlog, worker, locals>>
    BY <1>3 DEF Grant, Steps
  <2>2. Cardinality(Granted) \in Nat /\ Cardinality(Granted') = Cardinality(Granted) + 1
    <3>1. Granted' = Granted \cup {c} /\ c \notin Granted
      <4>1. rank'[c] > 0 /\ \A d \in Calls : d # c => rank'[d] = rank[d]
        BY <1>2, <2>1, GrantedCount
      <4>2. \A d \in Calls : d \in Granted' <=> d \in Granted \/ d = c
        BY <4>1 DEF Granted
      <4>3. c \notin Granted /\ Granted \subseteq Calls /\ Granted' \subseteq Calls
        BY <2>1 DEF Granted
      <4>4. QED
        BY <4>2, <4>3, Zenon
    <3>2. QED
      BY <3>1, GrantedCount, FS_AddElement
  <2>3. /\ \A d \in Calls : rank[d] > 0 => rank'[d] = rank[d]
        /\ \A d \in Calls : rank[d] > 0 => rank[d] < rank'[c]
        /\ \A d \in Calls : rank'[d] <= Cardinality(Granted')
        /\ rank'[c] > 0
    BY <1>2, <2>1, <2>2 DEF InOrder, Positive
  <2>4. /\ \A i \in DOMAIN queue : i \in DOMAIN queue' /\ queue'[i] = queue[i]
        /\ \A i \in DOMAIN queue' : i \in DOMAIN queue \/ (i = Len(queue) + 1 /\ queue'[i] = c)
        /\ \A i \in DOMAIN queue : i < Len(queue) + 1 /\ i \in Nat
        /\ Len(queue) \in Nat
    BY <1>2, <2>1, Appended
  <2>5. Sent' = Sent
    BY <2>1 DEF Sent
  <2>6. worker = "took" => locals["call"] \in Calls
    BY DEF TypeInv, Bound, TypeOK, ForwarderOK
  <2>7. \A i \in Sent : backlog[i].call \in Calls
    BY <1>2 DEF Sent
  <2>8. QED
    <3>1. Positive'
      BY <1>2, <2>1, <2>3, <2>4, <2>5, <2>6, <2>7
         DEF InOrder, Positive, Sorted, Apart, AtWorker
    <3>2. Sorted'
      BY <1>2, <2>1, <2>3, <2>4, <2>5, <2>6, <2>7
         DEF InOrder, Positive, Sorted, Apart, AtWorker
    <3>3. Apart'
      BY <1>2, <2>1, <2>3, <2>4, <2>5, <2>6, <2>7
         DEF InOrder, Positive, Sorted, Apart, AtWorker
    <3>4. AtWorker'
      BY <1>2, <2>1, <2>3, <2>4, <2>5, <2>6, <2>7
         DEF InOrder, Positive, Sorted, Apart, AtWorker
    <3>5. QED
      BY <3>1, <3>2, <3>3, <3>4 DEF InOrder
<1>4. ASSUME Take  PROVE InOrder'
  <2>1. /\ queue # <<>> /\ queue' = Tail(queue)
        /\ worker' = "took" /\ locals'["call"] = Head(queue)
        /\ UNCHANGED <<rank, handled, backlog>>
    BY <1>4 DEF Take, TypeInv, TypeOK, ForwarderOK
  <2>2. /\ 1 \in DOMAIN queue /\ Head(queue) = queue[1]
        /\ \A i \in DOMAIN queue' : /\ i + 1 \in DOMAIN queue /\ queue'[i] = queue[i + 1]
                                     /\ i \in Nat /\ 1 < i + 1
    BY <1>2, <2>1, Dropped
  <2>3. QED
    BY <1>2, <2>1, <2>2 DEF InOrder, Positive, Sorted, Apart, AtWorker, Sent, Granted
<1>5. ASSUME Connect  PROVE InOrder'
  <2> DEFINE r == [call |-> locals["call"], via |-> "front_end"]
  <2>1. /\ worker = "took" /\ worker' = "waiting"
        /\ backlog' = Append(backlog, r)
        /\ UNCHANGED <<rank, queue, handled, locals>>
    BY <1>5 DEF Connect
  <2>2. locals["call"] \in Calls /\ r \in Requests
    BY <2>1 DEF TypeInv, Bound, TypeOK, ForwarderOK, Requests
  <2>3. r.call = locals["call"] /\ r.via = "front_end"
    OBVIOUS
  <2> HIDE DEF r
  <2>4. /\ \A i \in DOMAIN backlog : i \in DOMAIN backlog' /\ backlog'[i] = backlog[i]
        /\ \A i \in DOMAIN backlog' :
             i \in DOMAIN backlog \/ (i = Len(backlog) + 1 /\ backlog'[i] = r)
        /\ \A i \in DOMAIN backlog : i < Len(backlog) + 1 /\ i \in Nat
        /\ Len(backlog) \in Nat
    BY <1>2, <2>1, <2>2, Appended
  <2>5. \A i \in Sent' : i \in Sent \/ (i = Len(backlog) + 1 /\ backlog'[i] = r)
    BY <2>4 DEF Sent
  <2>6. QED
    BY <1>2, <2>1, <2>2, <2>3, <2>4, <2>5 DEF InOrder, Positive, Sorted, Apart, AtWorker, Sent,
       Granted
<1>6. ASSUME NEW c \in Calls, RunCli(c)  PROVE InOrder'
  <2> DEFINE r == [call |-> c, via |-> "command_line"]
  <2>1. /\ backlog' = Append(backlog, r)
        /\ UNCHANGED <<rank, queue, handled, locals, worker>>
    BY <1>6 DEF RunCli
  <2>2. r \in Requests /\ r.via # "front_end"
    BY DEF Requests
  <2> HIDE DEF r
  <2>3. /\ \A i \in DOMAIN backlog : i \in DOMAIN backlog' /\ backlog'[i] = backlog[i]
        /\ \A i \in DOMAIN backlog' :
             i \in DOMAIN backlog \/ (i = Len(backlog) + 1 /\ backlog'[i] = r)
    BY <1>2, <2>1, <2>2, Appended
  <2>4. Sent' = Sent /\ \A i \in Sent : backlog'[i] = backlog[i]
    BY <2>2, <2>3 DEF Sent
  <2>5. QED
    <3>1. Positive'
      BY <2>1, <2>4
         DEF InOrder, Positive, Sorted, Apart, AtWorker, Granted
    <3>2. Sorted'
      BY <2>1, <2>4
         DEF InOrder, Positive, Sorted, Apart, AtWorker, Granted
    <3>3. Apart'
      BY <2>1, <2>4
         DEF InOrder, Positive, Sorted, Apart, AtWorker, Granted
    <3>4. AtWorker'
      BY <2>1, <2>4
         DEF InOrder, Positive, Sorted, Apart, AtWorker, Granted
    <3>5. QED
      BY <3>1, <3>2, <3>3, <3>4 DEF InOrder
<1>7. ASSUME Accepted \/ Failed \/ Raised  PROVE InOrder'
  BY <1>7 DEF Accepted, Failed, Raised, Leave, InOrder, Positive, Sorted, Apart, AtWorker,
     Sent, Granted
<1>8. ASSUME NEW ok \in BOOLEAN, Serve(ok)  PROVE InOrder'
  <2>1. /\ backlog # <<>> /\ backlog' = Tail(backlog)
        /\ UNCHANGED <<rank, queue, locals>>
        /\ worker' = "took" => worker = "took"
    BY <1>8 DEF Serve
  <2>2. /\ 1 \in DOMAIN backlog /\ Head(backlog) = backlog[1]
        /\ \A i \in DOMAIN backlog' : /\ i + 1 \in DOMAIN backlog /\ backlog'[i] = backlog[i + 1]
                                       /\ i \in Nat /\ 1 < i + 1
    BY <1>2, <2>1, Dropped
  <2>3. \A i \in Sent' : i + 1 \in Sent /\ backlog'[i] = backlog[i + 1] /\ i \in Nat /\ 1 < i + 1
    BY <2>2 DEF Sent
  <2>4. \A i, j \in Sent' : i < j => rank'[backlog'[i].call] < rank'[backlog'[j].call]
    <3>1. \A i, j \in Sent' : i < j => i + 1 \in Sent /\ j + 1 \in Sent /\ i + 1 < j + 1
      BY <2>3
    <3>2. \A i, j \in Sent : i < j => rank[backlog[i].call] < rank[backlog[j].call]
      BY DEF InOrder, Sorted
    <3>3. \A i \in Sent' : backlog'[i] = backlog[i + 1]
      BY <2>3
    <3>4. \A i, j \in Sent' : i < j => rank[backlog[i + 1].call] < rank[backlog[j + 1].call]
      BY <3>1, <3>2
    <3>5. QED
      BY <2>1, <3>3, <3>4
  <2>5. CASE backlog[1].via # "front_end"
    <3>1. handled' = handled
      BY <1>8, <2>2, <2>5 DEF Serve
    <3>2. QED
      <4>1. Positive'
        BY <1>2, <2>1, <2>3, <3>1
           DEF InOrder, Positive, Sorted, Apart, AtWorker, Granted
      <4>2. Sorted'
        BY <2>1, <2>4, <3>1 DEF InOrder, Sorted
      <4>3. Apart'
        BY <1>2, <2>1, <2>3, <3>1
           DEF InOrder, Positive, Sorted, Apart, AtWorker, Granted
      <4>4. AtWorker'
        BY <1>2, <2>1, <2>3, <3>1
           DEF InOrder, Positive, Sorted, Apart, AtWorker, Granted
      <4>5. QED
        BY <4>1, <4>2, <4>3, <4>4 DEF InOrder
  <2>6. CASE backlog[1].via = "front_end"
    <3>1. handled' = Append(handled, backlog[1].call) /\ 1 \in Sent /\ backlog[1].call \in Calls
      BY <1>2, <1>8, <2>2, <2>6 DEF Serve, Sent
    <3>2. /\ \A i \in DOMAIN handled : i \in DOMAIN handled' /\ handled'[i] = handled[i]
          /\ \A i \in DOMAIN handled' :
               i \in DOMAIN handled \/ (i = Len(handled) + 1 /\ handled'[i] = backlog[1].call)
          /\ \A i \in DOMAIN handled : i < Len(handled) + 1 /\ i \in Nat
          /\ Len(handled) \in Nat
      BY <1>2, <3>1, Appended
    <3>3. QED
      <4>1. Positive'
        BY <1>2, <2>1, <2>3, <3>1, <3>2
           DEF InOrder, Positive, Sorted, Apart, AtWorker, Granted
      <4>2. Sorted'
        <5>1. \A i, j \in DOMAIN handled' : i < j => rank'[handled'[i]] < rank'[handled'[j]]
          <6>1. \A i \in DOMAIN handled : rank[handled[i]] < rank[backlog[1].call]
            BY <3>1 DEF InOrder, Apart
          <6>2. \A i, j \in DOMAIN handled : i < j => rank[handled[i]] < rank[handled[j]]
            BY DEF InOrder, Sorted
          <6>3. QED
            BY <2>1, <3>2, <6>1, <6>2
        <5>2. \A i, j \in DOMAIN queue' : i < j => rank'[queue'[i]] < rank'[queue'[j]]
          BY <2>1 DEF InOrder, Sorted
        <5>3. QED
          BY <2>4, <5>1, <5>2 DEF Sorted
      <4>3. Apart'
        <5>1. \A i \in DOMAIN handled', j \in Sent' : rank'[handled'[i]] < rank'[backlog'[j].call]
          <6>1. \A j \in Sent' : /\ rank[backlog[1].call] < rank[backlog[j + 1].call]
                                 /\ j + 1 \in Sent /\ backlog'[j] = backlog[j + 1]
            BY <2>3, <3>1 DEF InOrder, Sorted
          <6>2. \A i \in DOMAIN handled, j \in Sent : rank[handled[i]] < rank[backlog[j].call]
            BY DEF InOrder, Apart
          <6>3. QED
            BY <2>1, <3>2, <6>1, <6>2
        <5>2. \A i \in DOMAIN handled', j \in DOMAIN queue' : rank'[handled'[i]] < rank'[queue'[j]]
          BY <2>1, <3>1, <3>2 DEF InOrder, Apart
        <5>3. \A i \in Sent', j \in DOMAIN queue' : rank'[backlog'[i].call] < rank'[queue'[j]]
          BY <2>1, <2>3 DEF InOrder, Apart
        <5>4. QED
          BY <5>1, <5>2, <5>3 DEF Apart
      <4>4. AtWorker'
        BY <1>2, <2>1, <2>3, <3>1, <3>2
           DEF InOrder, Positive, Sorted, Apart, AtWorker, Granted
      <4>5. QED
        BY <4>1, <4>2, <4>3, <4>4 DEF InOrder
  <2>7. QED
    BY <2>5, <2>6
<1>9. ASSUME DaemonGone  PROVE InOrder'
  <2>1. /\ backlog' = <<>>
        /\ UNCHANGED <<rank, queue, handled, locals>>
        /\ worker' = "took" => worker = "took"
    BY <1>9 DEF DaemonGone
  <2>2. Sent' = {}
    BY <2>1 DEF Sent
  <2>3. QED
    BY <2>1, <2>2 DEF InOrder, Positive, Sorted, Apart, AtWorker, Granted
<1>10. ASSUME FrontEndDies  PROVE InOrder'
  <2>1. queue' = <<>> /\ worker' = "idle" /\ UNCHANGED <<rank, handled, backlog>>
    BY <1>10 DEF FrontEndDies
  <2>2. DOMAIN queue' = {}
    BY <2>1
  <2>3. QED
    BY <2>1, <2>2 DEF InOrder, Positive, Sorted, Apart, AtWorker, Sent, Granted
<1>11. ASSUME NEW c \in Calls, Click(c) \/ CallTimesOut(c) \/ GiveUp(c) \/ Deny(c)  PROVE InOrder'
  BY <1>1, <1>11 DEF Click, CallTimesOut, GiveUp, Deny
<1>12. ASSUME Deliver \/ DaemonBack  PROVE InOrder'
  BY <1>1, <1>12 DEF Deliver, DaemonBack
<1> QED
  BY <1>3, <1>4, <1>5, <1>6, <1>7, <1>8, <1>9, <1>10, <1>11, <1>12 DEF Next, Polkit, Worker

LEMMA Lengths ==
  ASSUME NEW S, NEW s \in Seq(S)
  PROVE  /\ Len(s) \in Nat
         /\ \A e \in S : Len(Append(s, e)) = Len(s) + 1
         /\ s # <<>> => Len(Tail(s)) = Len(s) - 1
         /\ Len(<<>>) = 0
OBVIOUS

\* The answers and the calls under way are as many as the clicks.
LEMMA CountStep ==
  ASSUME TypeInv, Steps, CliInv, AnswersAddUp, Next
  PROVE  AnswersAddUp'
<1> DEFINE N == Cardinality(checks)
<1>1. /\ IsFiniteSet(checks) /\ N \in Nat /\ checks \subseteq Calls
      /\ Len(queue) \in Nat /\ Len(callbacks) \in Nat /\ Busy \in {0, 1}
      /\ given \in Nat /\ wiped \in Nat
      /\ queue \in Seq(Calls) /\ callbacks \in Seq(Outcomes)
      /\ click \in [Calls -> {"idle", "called", "prompt", "cli", "over"}]
  BY PendingCounts DEF TypeInv, TypeOK, ClientsOK, ForwarderOK, AnswersOK, Busy
<1>2. IsFiniteSet(Clicked) /\ Cardinality(Clicked) \in Nat
  <2>1. IsFiniteSet(Calls) /\ Clicked \subseteq Calls
    BY FrontEndAssumption DEF Clicked
  <2>2. QED
    BY <2>1, FS_Subset, FS_CardinalityType
<1>3. given + (N + Len(queue) + Busy + Len(callbacks)) + wiped = Cardinality(Clicked)
  BY DEF AnswersAddUp, Pending, Clicked
<1>4. AnswersAddUp' <=>
        given' + (N' + Len(queue') + Busy' + Len(callbacks')) + wiped' = Cardinality(Clicked')
  BY DEF AnswersAddUp, Pending, Clicked
<1> HIDE DEF N
<1> USE DEF clients, frontEnd, daemon
<1>5. ASSUME NEW c \in Calls, Click(c)  PROVE AnswersAddUp'
  <2>1. /\ click[c] = "idle" /\ c \notin checks
        /\ UNCHANGED <<queue, worker, callbacks, wiped>>
    BY <1>5 DEF Click, Steps
  <2>2. Cardinality(Clicked') = Cardinality(Clicked) + 1
    <3>1. click' = [click EXCEPT ![c] = "over"] \/ click' = [click EXCEPT ![c] = "called"]
      BY <1>5 DEF Click
    <3>2. Clicked' = Clicked \cup {c} /\ c \notin Clicked
      BY <1>1, <2>1, <3>1 DEF Clicked
    <3>3. QED
      BY <1>2, <3>2, FS_AddElement
  <2>3. Busy' = Busy
    BY <2>1 DEF Busy
  <2>4. CASE c \in UnknownCalls
    <3>1. given' = given + 1 /\ checks' = checks
      BY <1>5, <2>4 DEF Click, Answer
    <3>2. N' = N
      BY <3>1 DEF N
    <3>3. QED
      BY <1>1, <1>2, <1>3, <1>4, <2>1, <2>2, <2>3, <3>1, <3>2
  <2>5. CASE c \notin UnknownCalls
    <3>1. given' = given /\ checks' = checks \cup {c}
      BY <1>5, <2>5 DEF Click
    <3>2. N' = N + 1
      BY <1>1, <2>1, <3>1, FS_AddElement DEF N
    <3>3. QED
      BY <1>1, <1>2, <1>3, <1>4, <2>1, <2>2, <2>3, <3>1, <3>2
  <2>6. QED
    BY <2>4, <2>5
<1>6. ASSUME Clicked' = Clicked,
             given' + (N' + Len(queue') + Busy' + Len(callbacks')) + wiped'
               = given + (N + Len(queue) + Busy + Len(callbacks)) + wiped
      PROVE  AnswersAddUp'
  BY <1>3, <1>4, <1>6
<1>7. ASSUME NEW c \in Calls, c \in checks, checks' = checks \ {c}  PROVE N' = N - 1
  BY <1>1, <1>7, FS_RemoveElement DEF N
<1>8. ASSUME NEW c \in Calls, Grant(c)  PROVE AnswersAddUp'
  <2>1. /\ c \in checks /\ checks' = checks \ {c} /\ queue' = Append(queue, c)
        /\ UNCHANGED <<click, worker, callbacks, given, wiped>>
    BY <1>8 DEF Grant
  <2>2. N' = N - 1 /\ Len(queue') = Len(queue) + 1
    BY <1>1, <1>7, <2>1, Lengths
  <2>3. Busy' = Busy /\ Clicked' = Clicked
    BY <2>1 DEF Busy, Clicked
  <2>4. QED
    BY <1>1, <1>6, <2>1, <2>2, <2>3
<1>9. ASSUME NEW c \in Calls, Deny(c)  PROVE AnswersAddUp'
  <2>1. /\ c \in checks /\ checks' = checks \ {c} /\ given' = given + 1
        /\ UNCHANGED <<queue, worker, callbacks, wiped>>
    BY <1>9 DEF Deny, Answer
  <2>2. N' = N - 1
    BY <1>7, <2>1
  <2>3. Busy' = Busy /\ Clicked' = Clicked
    BY <1>1, <1>9, <2>1 DEF Deny, Ended, Busy, Clicked
  <2>4. QED
    BY <1>1, <1>6, <2>1, <2>2, <2>3
<1>10. ASSUME Deliver  PROVE AnswersAddUp'
  <2>1. /\ callbacks # <<>> /\ callbacks' = Tail(callbacks) /\ given' = given + 1
        /\ UNCHANGED <<checks, queue, worker, wiped>>
    BY <1>10 DEF Deliver, Answer
  <2>2. Len(callbacks') = Len(callbacks) - 1
    BY <1>1, <2>1, Lengths
  <2>3. Busy' = Busy /\ Clicked' = Clicked /\ N' = N
    BY <1>1, <1>10, <2>1 DEF Deliver, Ended, Busy, Clicked, N
  <2>4. QED
    BY <1>1, <1>6, <2>1, <2>2, <2>3
<1>11. ASSUME Take  PROVE AnswersAddUp'
  <2>1. /\ worker = "idle" /\ worker' = "took" /\ queue # <<>> /\ queue' = Tail(queue)
        /\ UNCHANGED <<click, checks, callbacks, given, wiped>>
    BY <1>11 DEF Take
  <2>2. Len(queue') = Len(queue) - 1
    BY <1>1, <2>1, Lengths
  <2>3. Busy = 0 /\ Busy' = 1 /\ Clicked' = Clicked /\ N' = N
    BY <2>1 DEF Busy, Clicked, N
  <2>4. QED
    BY <1>1, <1>6, <2>1, <2>2, <2>3
<1>12. ASSUME NEW o \in Outcomes, worker # "idle", Leave(o)  PROVE AnswersAddUp'
  <2>1. /\ worker' = "idle" /\ callbacks' = Append(callbacks, o)
        /\ UNCHANGED <<click, checks, queue, given, wiped>>
    BY <1>12 DEF Leave
  <2>2. Len(callbacks') = Len(callbacks) + 1
    BY <1>1, <2>1, Lengths
  <2>3. Busy = 1 /\ Busy' = 0 /\ Clicked' = Clicked /\ N' = N
    BY <1>12, <2>1 DEF Busy, Clicked, N
  <2>4. QED
    BY <1>1, <1>6, <2>1, <2>2, <2>3
<1>13. ASSUME Accepted \/ Failed \/ Raised  PROVE AnswersAddUp'
  BY <1>12, <1>13 DEF Accepted, Failed, Raised, Outcomes
<1>14. ASSUME FrontEndDies  PROVE AnswersAddUp'
  <2>1. /\ checks' = {} /\ queue' = <<>> /\ worker' = "idle" /\ callbacks' = <<>>
        /\ wiped' = wiped + Pending /\ given' = given
    BY <1>14 DEF FrontEndDies
  <2>2. Pending = N + Len(queue) + Busy + Len(callbacks)
    BY DEF Pending, N
  <2>3. N' = 0 /\ Busy' = 0 /\ Len(queue') = 0 /\ Len(callbacks') = 0
    BY <2>1, FS_EmptySet DEF N, Busy
  <2>4. Clicked' = Clicked
    BY <1>1, <1>14 DEF FrontEndDies, Clicked
  <2>5. QED
    BY <1>1, <1>6, <2>1, <2>2, <2>3, <2>4
<1>15. ASSUME UNCHANGED <<checks, queue, callbacks, given, wiped>>, Busy' = Busy, Clicked' = Clicked
       PROVE  AnswersAddUp'
  BY <1>6, <1>15 DEF N
<1>16. ASSUME NEW ok \in BOOLEAN, Serve(ok)  PROVE AnswersAddUp'
  <2>1. UNCHANGED <<checks, queue, callbacks, given, wiped>>
    BY <1>16 DEF Serve
  <2>2. Busy' = Busy
    BY <1>16 DEF Serve, Busy
  <2>3. Clicked' = Clicked
    <3>1. /\ backlog \in Seq(Requests) /\ backlog # <<>>
      BY <1>16 DEF Serve, TypeInv, TypeOK, DaemonOK
    <3>2. 1 \in DOMAIN backlog /\ Head(backlog) = backlog[1] /\ backlog[1] \in Requests
      BY <3>1
    <3>3. CASE backlog[1].via = "front_end"
      BY <1>16, <3>2, <3>3 DEF Serve, Clicked
    <3>4. CASE backlog[1].via # "front_end"
      <4>1. backlog[1].via = "command_line" /\ backlog[1].call \in Calls
        BY <3>2, <3>4 DEF Requests
      <4>2. click[backlog[1].call] # "idle"
        BY <3>2, <4>1 DEF CliInv
      <4>3. click' = [click EXCEPT ![backlog[1].call] = "over"]
        BY <1>16, <3>2, <3>4 DEF Serve
      <4>4. QED
        BY <1>1, <4>1, <4>2, <4>3 DEF Clicked
    <3>5. QED
      BY <3>3, <3>4
  <2>4. QED
    BY <1>15, <2>1, <2>2, <2>3
<1>17. ASSUME DaemonGone  PROVE AnswersAddUp'
  <2>1. UNCHANGED <<checks, queue, callbacks, given, wiped>> /\ Busy' = Busy
    BY <1>17 DEF DaemonGone, Busy
  <2>2. Clicked' = Clicked
    BY <1>1, <1>17 DEF DaemonGone, Clicked
  <2>3. QED
    BY <1>15, <2>1, <2>2
<1>18. ASSUME NEW c \in Calls, CallTimesOut(c) \/ GiveUp(c) \/ RunCli(c)  PROVE AnswersAddUp'
  <2>1. UNCHANGED <<checks, queue, callbacks, given, wiped, worker>>
    BY <1>18 DEF CallTimesOut, GiveUp, RunCli
  <2>2. Clicked' = Clicked
    BY <1>1, <1>18 DEF CallTimesOut, GiveUp, RunCli, Clicked
  <2>3. QED
    BY <1>15, <2>1, <2>2 DEF Busy
<1>19. ASSUME Connect  PROVE AnswersAddUp'
  BY <1>15, <1>19 DEF Connect, Busy, Clicked
<1>20. ASSUME DaemonBack  PROVE AnswersAddUp'
  BY <1>15, <1>20 DEF DaemonBack, Busy, Clicked
<1> QED
  BY <1>5, <1>8, <1>9, <1>10, <1>11, <1>13, <1>14, <1>16, <1>17, <1>18, <1>19, <1>20
     DEF Next, Polkit, Worker

-----------------------------------------------------------------------------
(* The theorems *)

Inv == TypeInv /\ Steps /\ InOrder /\ CliInv /\ AnswersAddUp

LEMMA Starts == Init => Inv
<1> SUFFICES ASSUME Init PROVE Inv
  OBVIOUS
<1> USE FrontEndAssumption DEF Init
<1>1. TypeInv
  <2>1. ClientsOK
    BY DEF ClientsOK
  <2>2. ForwarderOK
    BY DEF ForwarderOK, NoLocals, Outcomes
  <2>3. AnswersOK
    BY DEF AnswersOK
  <2>4. DaemonOK
    BY DEF DaemonOK
  <2>5. Bound
    BY DEF Bound
  <2>6. QED
    BY <2>1, <2>2, <2>3, <2>4, <2>5 DEF TypeInv, TypeOK
<1>2. Steps
  BY DEF Steps
<1>3. Granted = {} /\ Sent = {} /\ DOMAIN queue = {} /\ DOMAIN handled = {}
  BY DEF Granted, Sent
<1>4. InOrder
  <2>1. Cardinality(Granted) = 0
    BY <1>3, FS_EmptySet
  <2>2. QED
    BY <1>3, <2>1 DEF InOrder, Positive, Sorted, Apart, AtWorker
<1>5. CliInv
  BY DEF CliInv, RefusalIsFinal
<1>6. AnswersAddUp
  <2>1. {c \in Calls : click[c] # "idle"} = {}
    OBVIOUS
  <2>2. Pending = 0
    BY FS_EmptySet DEF Pending, Busy
  <2>3. Cardinality({c \in Calls : click[c] # "idle"}) = 0
    BY <2>1, FS_EmptySet, Zenon
  <2>4. given + Pending + wiped = 0
    BY <2>2
  <2>5. QED
    BY <2>3, <2>4, Zenon DEF AnswersAddUp
<1>7. QED
  BY <1>1, <1>2, <1>4, <1>5, <1>6 DEF Inv

LEMMA Stutters ==
  ASSUME Inv, UNCHANGED vars
  PROVE  Inv'
<1> USE DEF vars, clients, frontEnd, daemon, Inv
<1>1. TypeInv'
  BY DEF TypeInv, TypeOK, ClientsOK, ForwarderOK, AnswersOK, DaemonOK, Bound
<1>2. Steps' /\ CliInv'
  BY DEF Steps, CliInv, RefusalIsFinal
<1>3. InOrder'
  BY DEF InOrder, Positive, Sorted, Apart, AtWorker, Sent, Granted
<1>4. AnswersAddUp'
  BY DEF AnswersAddUp, Pending, Busy
<1>5. QED
  BY <1>1, <1>2, <1>3, <1>4

LEMMA Invariant == Spec => []Inv
<1>1. ASSUME Inv, [Next]_vars  PROVE Inv'
  <2>1. CASE Next
    BY <1>1, <2>1, TypeStep, StepsStep, OrderStep, CliStep, CountStep DEF Inv
  <2>2. CASE UNCHANGED vars
    BY <1>1, <2>2, Stutters
  <2>3. QED
    BY <1>1, <2>1, <2>2
<1>2. QED
  BY <1>1, Starts, PTL DEF Spec

\* Whatever calls and faults there are, the front end keeps its types. (Forwarder)
THEOREM Types == Spec => []TypeOK
<1>1. Inv => TypeOK
  BY DEF Inv, TypeInv
<1>2. QED
  BY <1>1, Invariant, PTL

\* For any number of calls and faults, the daemon handles what polkit granted, in the
\* order of the grants. (Forwarder._run, serve_one)
THEOREM Ordered == Spec => []HandledInOrder
<1>1. Inv => HandledInOrder
  BY DEF Inv, InOrder, Positive, Sorted, HandledInOrder
<1>2. QED
  BY <1>1, Invariant, PTL

\* For any number of calls and faults, as many answers are given or owed as there were
\* clicks, but those lost with a front end. (Forwarder._run, _on_call)
THEOREM AddsUp == Spec => []AnswersAddUp
<1>1. Inv => AnswersAddUp
  BY DEF Inv
<1>2. QED
  BY <1>1, Invariant, PTL

\* For any number of calls and faults, the command line's requests are of clicks the
\* front end did not answer in time. (profileSwitcher.js)
THEOREM CliFinal == Spec => []RefusalIsFinal
<1>1. Inv => RefusalIsFinal
  BY DEF Inv, CliInv
<1>2. QED
  BY <1>1, Invariant, PTL
=============================================================================
