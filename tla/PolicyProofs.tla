---------------------------- MODULE PolicyProofs ----------------------------
(***************************************************************************)
(* The engine implements the policy of PowerPolicy, and the low battery    *)
(* guard does not flap.  Both rest on one more invariant: the latch is set *)
(* exactly while the guard rules.                                          *)
(***************************************************************************)
EXTENDS EngineProofs

\* The profile in force, as the policy sees it.
GuardRules == base.profile.name = "battery-saver" /\ base.source = "auto"

Latch ==
  /\ Up => latched = GuardRules
  /\ ~Up => latched = FALSE /\ reply = None
  /\ latched => LowThreshold > 0

\* Every Step a daemon takes: what it decides, whatever it goes on to write.
Decided(f, choice) ==
  /\ Up'
  /\ facts' = f /\ f \in AllFacts
  /\ latched' = SaverForced(Chosen(f, choice))
  /\ override' = KeptOverride(f, choice, choice)
  /\ base'.profile.name = Chosen(f, choice).name
  /\ base'.source = Chosen(f, choice).source
  /\ Chosen(f, choice) \in [name : ProfileNames, source : {"auto", "manual", "game"}]

LEMMA TakenDecides ==
  ASSUME NEW f, NEW sample, NEW choice, NEW conf, NEW t, NEW refused,
         Taken(f, sample, choice, conf, t, refused)
  PROVE  Decided(f, choice)
<1>1. /\ Step(f, sample, choice, choice, conf, t, refused)
      /\ f \in AllFacts /\ choice \in ProfileNames \cup {None} /\ Up'
  BY DEF Taken, Handled, Up
<1>2. /\ Chosen(f, choice) \in [name : ProfileNames, source : {"auto", "manual", "game"}]
      /\ Resolved(Chosen(f, choice).name, conf).name = Chosen(f, choice).name
  BY <1>1, ChosenTyped
<1>3. /\ base' = [profile |-> Resolved(Chosen(f, choice).name, conf),
                  source |-> Chosen(f, choice).source]
      /\ latched' = SaverForced(Chosen(f, choice))
      /\ override' = KeptOverride(f, choice, choice)
      /\ facts' = f
  BY <1>1, StepDoes
<1>4. QED
  BY <1>1, <1>2, <1>3 DEF Decided

\* What the actions of a running daemon come to.
LEMMA NextDecides ==
  ASSUME Inv, Latch, Next
  PROVE  \/ \E f : Decided(f, override) /\ reply' = None
         \/ \E choice \in ProfileNames \cup {None} : \E f :
              /\ Up /\ Decided(f, choice) /\ f.game = facts.game
              /\ reply' = Answer(choice, base'.profile.name)
         \/ \E f : /\ Up /\ Decided(f, override) /\ f.game = facts.game
                   /\ reply' = Answer(None, base'.profile.name)
         \/ /\ ~Up' /\ override' = override /\ latched' = FALSE /\ reply' = None
         \/ UNCHANGED <<phase, latched, facts, base, override, reply>>
<1> DEFINE Goal == \/ \E f : Decided(f, override) /\ reply' = None
                   \/ \E choice \in ProfileNames \cup {None} : \E f :
                        /\ Up /\ Decided(f, choice) /\ f.game = facts.game
                        /\ reply' = Answer(choice, base'.profile.name)
                   \/ \E f : /\ Up /\ Decided(f, override) /\ f.game = facts.game
                             /\ reply' = Answer(None, base'.profile.name)
                   \/ /\ ~Up' /\ override' = override /\ latched' = FALSE /\ reply' = None
                   \/ UNCHANGED <<phase, latched, facts, base, override, reply>>
<1>0. override = manual \/ phase \notin {"starting", "up"}
  BY DEF Inv, Linked
<1>1. CASE Start
  BY <1>1 DEF Start, Forget, Up, Latch
<1>2. ASSUME NEW power \in PowerFacts, NEW game \in Games, NEW sample \in CpuSamples,
             NEW temp \in Temperatures, NEW refused \in Refusals,
             FirstStep(TickFacts(power, game, temp), sample, refused)
      PROVE  Goal
  <2>1. reply' = None /\ override = manual
    BY <1>0, <1>2 DEF FirstStep
  <2>2. Decided(TickFacts(power, game, temp), manual)
    BY <1>2, FirstStepTaken, TakenDecides
  <2>3. QED
    BY <2>1, <2>2
<1>3. ASSUME NEW power \in PowerFacts, NEW game \in Games, NEW sample \in CpuSamples,
             NEW temp \in Temperatures, NEW slept \in Sleeps, NEW conf \in Configs,
             NEW refused \in Refusals,
             Tick(TickFacts(power, game, temp), sample, slept, conf, refused)
      PROVE  Goal
  <2>1. reply' = None /\ override = manual
    BY <1>0, <1>3 DEF Tick
  <2>2. PICK t : Taken(TickFacts(power, game, temp), sample, manual, conf, t, refused)
    BY <1>3, TickTakesStep
  <2>3. Decided(TickFacts(power, game, temp), manual)
    BY <2>2, TakenDecides
  <2>4. QED
    BY <2>1, <2>3
<1>4. ASSUME NEW choice \in ManualChoices \cup {None}, NEW power \in PowerFacts,
             NEW refused \in Refusals, Choose(choice, power, refused)
      PROVE  Goal
  <2>1. Up /\ reply' = Answer(choice, base'.profile.name)
    BY <1>4 DEF Choose, Up
  <2>2. Decided(Refreshed(power), choice)
    BY <1>4, ChooseTaken, TakenDecides
  <2>3. Refreshed(power).game = facts.game
    BY <2>1 DEF Refreshed, Inv, TypeOK, AllFacts
  <2>4. choice \in ProfileNames \cup {None}
    BY EngineAssumption
  <2>5. QED
    BY <2>1, <2>2, <2>3, <2>4
<1>5. ASSUME NEW power \in PowerFacts, NEW refused \in Refusals,
             HandleReassert(power, refused)
      PROVE  Goal
  <2>1. Up /\ reply' = Answer(None, base'.profile.name) /\ override = manual
    BY <1>0, <1>5 DEF HandleReassert, Up
  <2>2. Decided(Refreshed(power), manual)
    BY <1>5, HandleReassertTaken, TakenDecides
  <2>3. Refreshed(power).game = facts.game
    BY <2>1 DEF Refreshed, Inv, TypeOK, AllFacts
  <2>4. QED
    BY <2>1, <2>2, <2>3
<1>6. ASSUME NEW refused \in Refusals, Stop(refused)
      PROVE  Goal
  BY <1>6 DEF Stop, Forget, Up
<1>7. CASE Crash
  BY <1>7 DEF Crash, Forget, Up, files
<1>8. ASSUME NEW part \in Disturbances, Disturb(part)
      PROVE  Goal
  BY <1>8 DEF Disturb, memory, files
<1>9. QED
  BY <1>1, <1>2, <1>3, <1>4, <1>5, <1>6, <1>7, <1>8 DEF Next, AnyTick

\* The guard is chosen for a low battery only, by the threshold in force.
LEMMA ForcedByBattery ==
  ASSUME NEW f, NEW choice
  PROVE  SaverForced(Chosen(f, choice)) <=> LowBattery(f.on_ac, f.battery, Threshold(latched))
<1>1. CASE LowBattery(f.on_ac, f.battery, Threshold(latched))
  BY <1>1 DEF Chosen, ChooseBase, AutoProfile, LowBattery, SaverForced
<1>2. CASE ~LowBattery(f.on_ac, f.battery, Threshold(latched))
  <2>1. AutoProfile(f.on_ac, f.battery, Threshold(latched))
          = IF f.on_ac THEN "ac" ELSE "battery"
    BY <1>2 DEF AutoProfile
  <2>2. QED
    BY <1>2, <2>1 DEF Chosen, ChooseBase, SaverForced
<1>3. QED
  BY <1>1, <1>2

LEMMA LatchNext == Inv /\ Inv' /\ Latch /\ [Next]_vars => Latch'
<1> SUFFICES ASSUME Inv, Latch, [Next]_vars PROVE Latch'
  OBVIOUS
<1>1. ASSUME NEW f, NEW choice, Decided(f, choice)
      PROVE  Latch'
  <2>1. latched' <=> GuardRules'
    BY <1>1 DEF Decided, GuardRules, SaverForced
  <2>2. latched' => LowThreshold > 0
    BY <1>1, ForcedByBattery, EngineAssumption
       DEF Decided, LowBattery, Threshold
  <2>3. Up' /\ latched' \in BOOLEAN
    BY <1>1 DEF Decided, SaverForced
  <2>4. QED
    BY <2>1, <2>2, <2>3 DEF Latch
<1>2. CASE ~Up' /\ latched' = FALSE /\ reply' = None
  BY <1>2 DEF Latch
<1>3. CASE UNCHANGED <<phase, latched, facts, base, override, reply>>
  BY <1>3 DEF Latch, Up, GuardRules
<1>4. CASE UNCHANGED vars
  BY <1>3, <1>4 DEF vars, memory, files
<1>5. CASE Next
  BY <1>1, <1>2, <1>3, <1>5, NextDecides
<1>6. QED
  BY <1>4, <1>5

LEMMA Latched == Spec => [](Inv /\ Latch)
<1>1. Init => Latch
  BY DEF Init, Latch, Up
<1>2. QED
  BY <1>1, InitInv, NextInv, LatchNext, PTL DEF Spec

-----------------------------------------------------------------------------
(* The refinement *)

\* Deciding is what the policy calls deciding.
LEMMA DecidesByPolicy ==
  ASSUME Inv, Latch, NEW f, NEW choice \in ProfileNames \cup {None}, Decided(f, choice)
  PROVE  Policy!Decide(choice)
<1> DEFINE guarded == LowBattery(f.on_ac, f.battery, Threshold(latched))
           rule == IF Up THEN [name |-> base.profile.name, by |-> base.source] ELSE None
           seen == [on_ac |-> f.on_ac, battery |-> f.battery, game |-> f.game]
<1>1. f \in AllFacts /\ facts' = f /\ Up'
  BY DEF Decided
<1>2. f.on_ac \in BOOLEAN /\ f.battery \in Nat \cup {None} /\ f.game \in BOOLEAN
  BY <1>1 DEF AllFacts
<1>3. seen \in Policy!Facts
  BY <1>2 DEF Policy!Facts
<1>4. latched = (rule = Policy!Saver)
  <2>1. CASE Up
    <3>1. latched = GuardRules
      BY <2>1 DEF Latch
    <3>2. (rule = Policy!Saver) <=> GuardRules
      BY <2>1 DEF Policy!Saver, GuardRules
    <3>3. QED
      BY <3>1, <3>2
  <2>2. CASE ~Up
    <3>1. latched = FALSE
      BY <2>2 DEF Latch
    <3>2. rule = None
      BY <2>2
    <3>3. None # Policy!Saver
      BY NoneIsNoRule DEF Policy!Saver, ProfileNames
    <3>4. QED
      BY <3>1, <3>2, <3>3
  <2>3. QED
    BY <2>1, <2>2
<1>5. Policy!Guarded(seen) <=> guarded
  <2>1. Policy!Limit = IF latched THEN LowThreshold + Hysteresis ELSE LowThreshold
    BY <1>4 DEF Policy!Limit
  <2>2. LowThreshold > 0 => Policy!Limit = Threshold(latched)
    BY <2>1 DEF Threshold
  <2>3. ~(LowThreshold > 0) => Threshold(latched) = LowThreshold
    BY DEF Threshold
  <2>4. LowThreshold \in Nat /\ Threshold(latched) \in Nat
    BY EngineAssumption DEF Threshold, Hysteresis
  <2>5. (LowThreshold > 0) <=> (Threshold(latched) > 0)
    BY <2>4, EngineAssumption DEF Threshold, Hysteresis
  <2>6. QED
    BY <2>2, <2>3, <2>5 DEF Policy!Guarded, LowBattery
<1>6. Chosen(f, choice).name = Policy!RuleFor(seen, choice).name
      /\ Chosen(f, choice).source = Policy!RuleFor(seen, choice).by
  <2>1. CASE guarded
    <3>1. Chosen(f, choice) = [name |-> "battery-saver", source |-> "auto"]
      BY <2>1 DEF Chosen, ChooseBase, AutoProfile, LowBattery
    <3>2. Policy!RuleFor(seen, choice) = [name |-> "battery-saver", by |-> "auto"]
      BY <1>5, <2>1 DEF Policy!RuleFor, Policy!Saver
    <3>3. QED
      BY <3>1, <3>2
  <2>2. CASE ~guarded
    <3>1. AutoProfile(f.on_ac, f.battery, Threshold(latched))
            = IF f.on_ac THEN "ac" ELSE "battery"
      BY <2>2 DEF AutoProfile
    <3>2. QED
      BY <1>5, <2>2, <3>1 DEF Chosen, ChooseBase, Policy!RuleFor
  <2>3. QED
    BY <2>1, <2>2
<1>7. SaverForced(Chosen(f, choice)) <=> guarded
  BY ForcedByBattery
<1>8. override' = IF Policy!Guarded(seen) THEN None ELSE choice
  BY <1>5, <1>7 DEF Decided, KeptOverride
<1>9. [name |-> base'.profile.name, by |-> base'.source] = Policy!RuleFor(seen, choice)
  <2>1. base'.profile.name = Policy!RuleFor(seen, choice).name
        /\ base'.source = Policy!RuleFor(seen, choice).by
    BY <1>6 DEF Decided
  <2>2. Policy!RuleFor(seen, choice)
          = [name |-> Policy!RuleFor(seen, choice).name, by |-> Policy!RuleFor(seen, choice).by]
    BY DEF Policy!RuleFor, Policy!Saver
  <2>3. QED
    BY <2>1, <2>2
<1>10. QED
  BY <1>1, <1>3, <1>8, <1>9 DEF Policy!Decide

\* Some profile is in force while the daemon is up.
LEMMA RuleKnown ==
  ASSUME Inv, Up
  PROVE  [name |-> base.profile.name, by |-> base.source] # None
BY NoneIsNoRule DEF Inv, TypeOK

LEMMA ImplementsNext == Inv /\ Inv' /\ Latch /\ Latch' /\ [Next]_vars => [Policy!Next]_(Policy!vars)
<1> SUFFICES ASSUME Inv, Inv', Latch, Latch', [Next]_vars
             PROVE  Policy!Next \/ UNCHANGED Policy!vars
  OBVIOUS
<1>0. override \in ProfileNames \cup {None}
  BY DEF Inv, TypeOK
<1>1. ASSUME NEW f, Decided(f, override), reply' = None
      PROVE  Policy!Next
  BY <1>0, <1>1, DecidesByPolicy DEF Policy!Next, Policy!Observe
<1>2. ASSUME NEW f, NEW choice \in ProfileNames \cup {None}, Up, Decided(f, choice),
             f.game = facts.game, reply' = Answer(choice, base'.profile.name)
      PROVE  Policy!Next
  <2>1. Up' /\ facts'.game = facts.game
    BY <1>2 DEF Decided
  <2>2. reply' = [wanted |-> choice, ok |-> choice = None \/ base'.profile.name = choice]
    BY <1>2 DEF Answer
  <2>3. Policy!Decide(choice)
    BY <1>2, DecidesByPolicy
  <2>4. Policy!Ask(choice)
    BY <1>2, <2>1, <2>2, <2>3, RuleKnown DEF Policy!Ask
  <2>5. QED
    BY <2>4 DEF Policy!Next
<1>3. ASSUME NEW f, Up, Decided(f, override), f.game = facts.game,
             reply' = Answer(None, base'.profile.name)
      PROVE  Policy!Next
  <2>1. Up' /\ facts'.game = facts.game
    BY <1>3 DEF Decided
  <2>2. reply' = [wanted |-> None, ok |-> TRUE]
    BY <1>3 DEF Answer
  <2>3. Policy!Decide(override)
    BY <1>0, <1>3, DecidesByPolicy
  <2>4. Policy!Reassert
    BY <1>3, <2>1, <2>2, <2>3, RuleKnown DEF Policy!Reassert
  <2>5. QED
    BY <2>4 DEF Policy!Next
<1>4. CASE ~Up' /\ override' = override /\ latched' = FALSE /\ reply' = None
  <2>1. CASE Up
    BY <1>4, <2>1, RuleKnown DEF Policy!Next, Policy!End
  <2>2. CASE ~Up
    BY <1>4, <2>2 DEF Policy!vars, Latch
  <2>3. QED
    BY <2>1, <2>2
<1>5. CASE UNCHANGED <<phase, latched, facts, base, override, reply>>
  BY <1>5 DEF Policy!vars, Up
<1>6. CASE UNCHANGED vars
  BY <1>5, <1>6 DEF vars, memory, files
<1>7. CASE Next
  BY <1>1, <1>2, <1>3, <1>4, <1>5, <1>7, NextDecides
<1>8. QED
  BY <1>6, <1>7

\* The engine implements the policy, for every configuration, overlay, set of facts
\* and interval, and whatever the machine refuses. (Engine.step, Daemon.handle)
THEOREM Implements == Spec => ImplementsPolicy
<1>1. Init => Policy!Init
  BY DEF Init, Policy!Init, Up
<1>2. QED
  BY <1>1, Latched, ImplementsNext, PTL DEF Spec, Policy!Spec, ImplementsPolicy

\* The low battery guard comes in at the threshold and goes only above the hysteresis,
\* while the daemon runs. (Engine._saver_latched)
THEOREM SaverDoesNotFlap == Spec => NoFlapping
<1> DEFINE auto(b) == b.source = "auto" /\ b.profile.name = "battery-saver"
           Steady == Up /\ Up' /\ ~facts'.on_ac /\ facts'.battery # None =>
                       /\ auto(base) /\ ~auto(base') =>
                            facts'.battery > LowThreshold + Hysteresis
                       /\ ~auto(base) /\ auto(base') => facts'.battery <= LowThreshold
<1>1. ASSUME Inv, Latch, Up, NEW f, NEW choice, Decided(f, choice),
             ~f.on_ac, f.battery # None
      PROVE  /\ auto(base) /\ ~auto(base') => f.battery > LowThreshold + Hysteresis
             /\ ~auto(base) /\ auto(base') => f.battery <= LowThreshold
  <2>1. latched <=> auto(base)
    BY <1>1 DEF Latch, GuardRules
  <2>2. auto(base') <=> LowBattery(f.on_ac, f.battery, Threshold(latched))
    BY <1>1, ForcedByBattery DEF Decided, SaverForced
  <2>3. f.battery \in Nat /\ LowThreshold \in Nat
    BY <1>1, EngineAssumption DEF Decided, AllFacts
  <2>4. latched => LowThreshold > 0
    BY <1>1 DEF Latch
  <2>5. CASE latched
    BY <1>1, <2>1, <2>2, <2>3, <2>4, <2>5 DEF LowBattery, Threshold, Hysteresis
  <2>6. CASE ~latched
    BY <1>1, <2>1, <2>2, <2>3, <2>6 DEF LowBattery, Threshold
  <2>7. QED
    BY <2>5, <2>6
<1>2. ASSUME Inv, Latch, [Next]_vars
      PROVE  Steady \/ UNCHANGED vars
  <2>1. CASE UNCHANGED <<phase, latched, facts, base, override, reply>>
    BY <2>1
  <2>2. CASE Next
    BY <1>1, <1>2, <2>1, <2>2, NextDecides DEF Decided
  <2>3. QED
    BY <1>2, <2>2
<1>3. QED
  BY <1>2, Latched, PTL DEF Spec, NoFlapping
=============================================================================
