----------------------- MODULE SessionSettings_proofs ------------------------
(***************************************************************************)
(* Proofs about SessionSettings, for any number of requests, any tiers and *)
(* any number of iterations and ceiling moves.                             *)
(***************************************************************************)
EXTENDS SessionSettings, TLAPS

\* What a loop captured since the last change is what is in force.
CapturedInv ==
    StoreFails \/ ( /\ loop = "streaming" /\ sinceChange > 0 => held.tier = EffectiveTier(row.tier)
                    /\ lastCall.fresh => lastCall.tier <= lastCall.inForce )

\* No copy of the row, and no change about to be written, is above every ceiling
\* there has been.
AdmittedInv ==
    /\ ceiling <= topCeiling
    /\ row.tier <= topCeiling
    /\ \A s \in Setters :
          /\ setters[s].pc # "asked" => setters[s].copy.tier <= topCeiling
          /\ setters[s].pc = "checked" /\ setters[s].op = "SetTier" =>
                setters[s].tier <= topCeiling

\* sinceChange counts some of the iterations.
CountInv == sinceChange <= iteration

Inv == TypeOK /\ CountInv /\ CapturedInv /\ AdmittedInv

-----------------------------------------------------------------------------
LEMMA EffectiveTierIsLower ==
    ASSUME TypeOK, NEW t \in Tiers
    PROVE  EffectiveTier(t) \in Tiers /\ EffectiveTier(t) <= t
BY SettingsAssumption DEF TypeOK, EffectiveTier, Lower, Tiers

\* Changing one field leaves a row, with the tier it had unless that is the field.
LEMMA ChangedIsARow ==
    ASSUME NEW op \in Operations, NEW t \in Tiers, NEW copy \in Rows
    PROVE  /\ Changed(op, t, copy) \in Rows
           /\ op # "SetTier" => Changed(op, t, copy).tier = copy.tier
           /\ op = "SetTier" => Changed(op, t, copy).tier = t
<1>1. CASE op = "SetTier"
  BY <1>1 DEF Changed, Rows, RefusedMidExchange
<1>2. CASE op = "SetSplit"
  BY <1>2 DEF Changed, Rows, Splits
<1>3. CASE op = "SetAutoRun"
  BY <1>3 DEF Changed, Rows
<1>4. CASE op \in {"title", "RenameSession"}
  BY <1>4 DEF Changed, Rows
<1>5. CASE op = "PutProposedSelection"
  BY <1>5 DEF Changed, Rows, RefusedMidExchange
<1>6. CASE op \in RefusedMidExchange
  BY <1>6 DEF Changed, Rows, RefusedMidExchange
<1>7. QED
  BY <1>1, <1>2, <1>3, <1>4, <1>5, <1>6 DEF Operations, RefusedMidExchange

LEMMA InitInv == Init => Inv
<1> SUFFICES ASSUME Init PROVE Inv
  OBVIOUS
<1> USE SettingsAssumption DEF Init, Tiers
<1>1. PICK tier \in 0 .. ceiling : row = [Fresh EXCEPT !.tier = tier]
  OBVIOUS
<1>2. row \in Rows /\ Fresh \in Rows /\ row.tier = tier /\ tier \in Tiers
  <2>1. tier \in 0 .. TopTier
    OBVIOUS
  <2>2. row = [tier |-> tier, split |-> "whole", autoRun |-> FALSE, titled |-> FALSE,
               moved |-> FALSE, selected |-> FALSE]
    BY <1>1 DEF Fresh
  <2>3. Fresh \in Rows
    BY DEF Fresh, Rows, Splits
  <2>4. QED
    BY <2>1, <2>2, <2>3 DEF Rows, Splits
<1>3. TypeOK
  BY <1>1, <1>2 DEF TypeOK, Splits
<1>4. CountInv /\ CapturedInv
  BY DEF CountInv, CapturedInv
<1>5. AdmittedInv
  BY <1>2 DEF AdmittedInv
<1>6. QED
  BY <1>3, <1>4, <1>5 DEF Inv

LEMMA ReadRowKeeps == ASSUME Inv, NEW s \in Setters, ReadRow(s) PROVE Inv'
<1> DEFINE copy == IF setters[s].op \in Clamping THEN [row EXCEPT !.tier = EffectiveTier(@)]
                                                 ELSE row
<1> USE SettingsAssumption DEF Inv
<1>1. /\ setters' = [setters EXCEPT ![s].pc = "read", ![s].copy = copy]
      /\ UNCHANGED <<row, trail, loop, held, iteration, lastCall, ceiling, readable,
                     moves, topCeiling, sinceChange>>
  BY DEF ReadRow, exchangeVars, adminVars
<1>2. copy \in Rows /\ copy.tier <= row.tier
  <2>1. row \in Rows /\ row.tier \in Tiers
    BY DEF TypeOK, Rows
  <2>2. EffectiveTier(row.tier) \in Tiers /\ EffectiveTier(row.tier) <= row.tier
    BY <2>1, EffectiveTierIsLower
  <2>3. QED
    BY <2>1, <2>2 DEF Rows, Tiers
<1> HIDE DEF copy
<1>3. TypeOK'
  <2>1. setters' \in [Setters -> [op : Operations, tier : Tiers,
                                  pc : {"asked", "read", "checked", "written", "over"},
                                  copy : Rows]]
    <3>1. setters[s] \in [op : Operations, tier : Tiers,
                          pc : {"asked", "read", "checked", "written", "over"}, copy : Rows]
      BY DEF TypeOK
    <3>2. setters' = [setters EXCEPT ![s] = [setters[s] EXCEPT !.pc = "read", !.copy = copy]]
      BY <1>1, <3>1, Zenon DEF TypeOK
    <3>3. [setters[s] EXCEPT !.pc = "read", !.copy = copy]
             \in [op : Operations, tier : Tiers,
                  pc : {"asked", "read", "checked", "written", "over"}, copy : Rows]
      BY <3>1, <1>2
    <3>4. QED
      BY <3>2, <3>3 DEF TypeOK
  <2>2. QED
    BY <2>1, <1>1 DEF TypeOK
<1>4. CountInv' /\ CapturedInv'
  BY <1>1 DEF CountInv, CapturedInv, EffectiveTier
<1>5. AdmittedInv'
  BY <1>1, <1>2 DEF AdmittedInv, TypeOK, Rows, Tiers
<1>6. QED
  BY <1>3, <1>4, <1>5

LEMMA CheckChangeKeeps == ASSUME Inv, NEW s \in Setters, CheckChange(s) PROVE Inv'
<1> USE SettingsAssumption DEF Inv
<1>1. /\ setters[s].pc = "read"
      /\ \/ setters' = [setters EXCEPT ![s].pc = "over"]
         \/ /\ setters' = [setters EXCEPT ![s].pc = "checked"]
            /\ setters[s].op = "SetTier" /\ setters[s].tier > setters[s].copy.tier =>
                  setters[s].tier <= ceiling
      /\ UNCHANGED <<row, trail, loop, held, iteration, lastCall, ceiling, readable,
                     moves, topCeiling, sinceChange>>
  BY DEF CheckChange, At, exchangeVars, adminVars, TypeOK, Tiers
<1>2. TypeOK'
  BY <1>1 DEF TypeOK
<1>3. CountInv' /\ CapturedInv'
  BY <1>1 DEF CountInv, CapturedInv, EffectiveTier
<1>4. AdmittedInv'
  BY <1>1 DEF AdmittedInv, TypeOK, Rows, Tiers
<1>5. QED
  BY <1>2, <1>3, <1>4

LEMMA WriteRowKeeps == ASSUME Inv, NEW s \in Setters, WriteRow(s) PROVE Inv'
<1> DEFINE new == Changed(setters[s].op, setters[s].tier, setters[s].copy)
<1> USE SettingsAssumption DEF Inv
<1>1. /\ setters[s].pc = "checked"
      /\ row' = new
      /\ setters' = [setters EXCEPT ![s].pc = IF setters[s].op = "SetTier" THEN "written"
                                                                          ELSE "over"]
      /\ sinceChange' = IF new.tier # row.tier THEN 0 ELSE sinceChange
      /\ UNCHANGED <<trail, loop, held, iteration, lastCall, ceiling, readable, moves,
                     topCeiling>>
  BY DEF WriteRow, At, exchangeVars, adminVars
<1>2. new \in Rows /\ new.tier <= topCeiling
  <2>1. /\ setters[s].op \in Operations /\ setters[s].tier \in Tiers
        /\ setters[s].copy \in Rows
    BY DEF TypeOK
  <2>2. setters[s].copy.tier <= topCeiling
        /\ (setters[s].op = "SetTier" => setters[s].tier <= topCeiling)
    BY <1>1 DEF AdmittedInv
  <2>3. QED
    BY <2>1, <2>2, ChangedIsARow
<1> HIDE DEF new
<1>3. TypeOK'
  BY <1>1, <1>2 DEF TypeOK
<1>4. CountInv' /\ CapturedInv'
  BY <1>1 DEF CountInv, CapturedInv, EffectiveTier, TypeOK
<1>5. AdmittedInv'
  BY <1>1, <1>2 DEF AdmittedInv, TypeOK
<1>6. QED
  BY <1>3, <1>4, <1>5

LEMMA AuditTierKeeps == ASSUME Inv, NEW s \in Setters, AuditTier(s) PROVE Inv'
<1> USE SettingsAssumption DEF Inv
<1>1. TypeOK'
  BY DEF AuditTier, At, exchangeVars, adminVars, TypeOK
<1>2. CountInv' /\ CapturedInv' /\ AdmittedInv'
  BY DEF AuditTier, At, exchangeVars, adminVars, TypeOK, CountInv, CapturedInv,
         AdmittedInv, EffectiveTier
<1>3. QED
  BY <1>1, <1>2

LEMMA StartExchangeKeeps == ASSUME Inv, StartExchange PROVE Inv'
<1> USE SettingsAssumption DEF Inv
<1>1. row.tier \in Tiers /\ row.split \in Splits /\ EffectiveTier(row.tier) \in Tiers
  BY EffectiveTierIsLower DEF TypeOK, Rows
<1>2. TypeOK'
  BY <1>1 DEF StartExchange, adminVars, TypeOK
<1>3. CountInv' /\ CapturedInv' /\ AdmittedInv'
  BY DEF StartExchange, adminVars, CountInv, CapturedInv, AdmittedInv
<1>4. QED
  BY <1>2, <1>3

LEMMA IterateKeeps == ASSUME Inv, Iterate PROVE Inv'
<1> USE SettingsAssumption DEF Inv
<1>1. row.tier \in Tiers /\ row.split \in Splits /\ EffectiveTier(row.tier) \in Tiers
  BY EffectiveTierIsLower DEF TypeOK, Rows
<1>2. TypeOK'
  BY <1>1 DEF Iterate, adminVars, TypeOK, CountInv
<1>3. CountInv'
  BY DEF Iterate, CountInv, TypeOK
<1>4. CapturedInv'
  <2>1. CASE StoreFails
    BY <2>1 DEF CapturedInv
  <2>2. CASE ~StoreFails
    <3>1. held' = [tier |-> EffectiveTier(row.tier), split |-> row.split]
      BY <2>2 DEF Iterate
    <3>2. held'.tier = EffectiveTier(row.tier)' /\ lastCall' = lastCall
      BY <3>1 DEF Iterate, adminVars, EffectiveTier
    <3>3. QED
      BY <2>2, <3>2 DEF CapturedInv
  <2>3. QED
    BY <2>1, <2>2
<1>5. AdmittedInv'
  BY DEF Iterate, adminVars, AdmittedInv
<1>6. QED
  BY <1>2, <1>3, <1>4, <1>5

LEMMA RunToolKeeps == ASSUME Inv, RunTool PROVE Inv'
<1> USE SettingsAssumption DEF Inv
<1>1. row.tier \in Tiers /\ EffectiveTier(row.tier) \in Tiers
  BY EffectiveTierIsLower DEF TypeOK, Rows
<1>2. PICK minTier \in Tiers :
         /\ minTier <= held.tier
         /\ lastCall' = [tier |-> minTier, inForce |-> EffectiveTier(row.tier),
                         fresh |-> sinceChange > 0]
  BY DEF RunTool
<1>3. loop = "streaming" /\ UNCHANGED <<row, trail, setters, loop, held, iteration,
                                        adminVars, sinceChange>>
  BY DEF RunTool
<1>4. TypeOK'
  BY <1>1, <1>2, <1>3 DEF adminVars, TypeOK
<1>5. CapturedInv'
  BY <1>1, <1>2, <1>3 DEF adminVars, CapturedInv, EffectiveTier
<1>6. CountInv' /\ AdmittedInv'
  BY <1>3 DEF adminVars, CountInv, AdmittedInv
<1>7. QED
  BY <1>4, <1>5, <1>6

LEMMA EndIterationKeeps == ASSUME Inv, EndIteration PROVE Inv'
BY DEF Inv, EndIteration, adminVars, TypeOK, CountInv, CapturedInv, AdmittedInv,
       EffectiveTier

LEMMA MoveCeilingKeeps == ASSUME Inv, MoveCeiling PROVE Inv'
<1> USE SettingsAssumption DEF Inv
<1>1. TypeOK'
  BY DEF MoveCeiling, exchangeVars, TypeOK, Tiers
<1>2. CountInv' /\ CapturedInv'
  BY DEF MoveCeiling, exchangeVars, TypeOK, CountInv, CapturedInv
<1>3. AdmittedInv'
  BY DEF MoveCeiling, exchangeVars, TypeOK, AdmittedInv, Rows, Tiers
<1>4. QED
  BY <1>1, <1>2, <1>3

LEMMA PolicyKeeps == ASSUME Inv, PolicyComesAndGoes PROVE Inv'
<1> USE SettingsAssumption DEF Inv
<1>1. TypeOK'
  BY DEF PolicyComesAndGoes, exchangeVars, TypeOK
<1>2. CountInv' /\ CapturedInv' /\ AdmittedInv'
  BY DEF PolicyComesAndGoes, exchangeVars, TypeOK, CountInv, CapturedInv, AdmittedInv
<1>3. QED
  BY <1>1, <1>2

-----------------------------------------------------------------------------
\* The invariant holds in every state.
THEOREM Invariance == Spec => []Inv
<1>1. Inv /\ [Next]_vars => Inv'
  <2> SUFFICES ASSUME Inv, [Next]_vars PROVE Inv'
    OBVIOUS
  <2>1. ASSUME NEW s \in Setters, ReadRow(s) \/ CheckChange(s) \/ WriteRow(s) \/ AuditTier(s)
        PROVE  Inv'
    BY <2>1, ReadRowKeeps, CheckChangeKeeps, WriteRowKeeps, AuditTierKeeps
  <2>2. CASE StartExchange \/ Iterate \/ RunTool \/ EndIteration
    BY <2>2, StartExchangeKeeps, IterateKeeps, RunToolKeeps, EndIterationKeeps
  <2>3. CASE MoveCeiling \/ PolicyComesAndGoes
    BY <2>3, MoveCeilingKeeps, PolicyKeeps
  <2>4. CASE UNCHANGED vars
    BY <2>4 DEF vars, exchangeVars, adminVars, Inv, TypeOK, CountInv, CapturedInv,
                AdmittedInv, EffectiveTier
  <2>5. QED
    BY <2>1, <2>2, <2>3, <2>4 DEF Next
<1>2. QED
  BY InitInv, <1>1, PTL DEF Spec

THEOREM TypeCorrect == Spec => []TypeOK
BY Invariance, PTL DEF Inv

\* No write stores a tier that no ceiling ever allowed.
THEOREM TiersStayAdmitted == Spec => []TierStaysAdmitted
<1>1. Inv => TierStaysAdmitted
  BY DEF Inv, AdmittedInv, TierStaysAdmitted
<1>2. QED
  BY <1>1, Invariance, PTL

\* A lowered tier binds every call of an iteration that begins after it.
THEOREM LoweringsBind == Spec => []LoweringBindsNextIteration
<1>1. Inv => LoweringBindsNextIteration
  BY DEF Inv, CapturedInv, LoweringBindsNextIteration
<1>2. QED
  BY <1>1, Invariance, PTL
=============================================================================
