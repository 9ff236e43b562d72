----------------------------- MODULE PowerPolicy -----------------------------
(***************************************************************************)
(* What the service promises: which profile rules the machine, by what it  *)
(* rules, and what becomes of the user's choice.  There is one choice, and *)
(* it outlives the daemon; nothing here ticks, is written or can fail.     *)
(* Engine implements it, with a choice kept in memory and in a file, a     *)
(* latch, deadlines, the hardware and every fault of it.                   *)
(***************************************************************************)
EXTENDS Integers

CONSTANTS
  None,
  ProfileNames,  \* the profiles a user may choose
  LowThreshold,  \* percent of charge at which the battery is low; 0 for never
  Hysteresis     \* how far above it a low battery has to come to be let go

VARIABLES
  rule,    \* [name, by] of the profile in force; None while no daemon is up
  facts,   \* what it was decided on
  choice,  \* what the user chose, None for automatic
  told     \* what the user was last told of a request

vars == <<rule, facts, choice, told>>

Facts == [on_ac : BOOLEAN, battery : Nat \cup {None}, game : BOOLEAN]

Saver == [name |-> "battery-saver", by |-> "auto"]

\* A low battery is guarded; once it is, a little charge does not change that.
Limit == IF rule = Saver THEN LowThreshold + Hysteresis ELSE LowThreshold

Guarded(f) ==
  LowThreshold > 0 /\ ~f.on_ac /\ f.battery # None /\ f.battery <= Limit

RuleFor(f, wanted) ==
  IF Guarded(f) THEN Saver
  ELSE IF wanted # None THEN [name |-> wanted, by |-> "manual"]
  ELSE IF f.game THEN [name |-> "gaming", by |-> "game"]
  ELSE [name |-> IF f.on_ac THEN "ac" ELSE "battery", by |-> "auto"]

\* The guard overrules a choice, and forgets it.
Decide(wanted) ==
  /\ facts' \in Facts
  /\ rule' = RuleFor(facts', wanted)
  /\ choice' = IF Guarded(facts') THEN None ELSE wanted

Init ==
  /\ rule = None
  /\ facts = None
  /\ choice = None
  /\ told = None

\* The daemon comes up, or looks at the facts again.
Observe ==
  /\ Decide(choice)
  /\ told' = None

\* A request for a profile, or for automatic.  Games are not looked for.
Ask(wanted) ==
  /\ rule # None
  /\ Decide(wanted)
  /\ facts'.game = facts.game
  /\ told' = [wanted |-> wanted, ok |-> wanted = None \/ rule'.name = wanted]

\* A request to write everything again.
Reassert ==
  /\ rule # None
  /\ Decide(choice)
  /\ facts'.game = facts.game
  /\ told' = [wanted |-> None, ok |-> TRUE]

\* The daemon stops or dies; the choice stays.
End ==
  /\ rule # None
  /\ rule' = None /\ facts' = None /\ told' = None
  /\ UNCHANGED choice

Next ==
  \/ Observe
  \/ \E wanted \in ProfileNames \cup {None} : Ask(wanted)
  \/ Reassert
  \/ End

Spec == Init /\ [][Next]_vars
=============================================================================
