--------------------------- MODULE SessionSettings ---------------------------
(***************************************************************************)
(* The settings of one chat session and who reads them (pkg/chat).  Every  *)
(* setter reads the stored row, changes one field of its copy and writes   *)
(* the whole row back (UpdateSession); an exchange reads the session when  *)
(* it starts and captures tier and split again once per iteration of its   *)
(* tool loop; an admin moves the ceiling on the tier at any time.          *)
(***************************************************************************)
EXTENDS Naturals, FiniteSets

CONSTANTS
    Setters,        \* requests that change the session, one change each
    TopTier,        \* the highest exposure tier
    StoreFails,     \* whether the loop's own read of the session may fail
    MaxIterations,  \* bound: iterations of the exchanges' tool loops
    CeilingMoves    \* bound: how often the admin moves the ceiling

ASSUME SettingsAssumption ==
    /\ TopTier \in Nat
    /\ StoreFails \in BOOLEAN
    /\ MaxIterations \in Nat
    /\ CeilingMoves \in Nat

VARIABLES
    row,          \* the stored session
    trail,        \* the tier of the last entry of the audit trail
    setters,      \* the requests: what each wants, and the row it has read
    ceiling,      \* the admin's maximum tier
    readable,     \* whether the limits policy can be read
    moves,        \* ceiling moves so far
    loop,         \* the tool loop of the session's exchange, if one runs
    held,         \* what it captured last
    iteration,    \* iterations so far
    sinceChange,  \* iterations begun since tier, ceiling or policy last changed
    lastCall,     \* the last tool call: tier it was checked with, tier in force
    topCeiling    \* the highest ceiling there has been

exchangeVars == <<loop, held, iteration, lastCall>>
adminVars == <<ceiling, readable, moves, topCeiling>>
vars == <<row, trail, setters, exchangeVars, adminVars, sinceChange>>

Tiers == 0 .. TopTier

Splits == {"whole", "training"}

Rows == [tier : Tiers, split : Splits, autoRun : BOOLEAN, titled : BOOLEAN,
         moved : BOOLEAN, selected : BOOLEAN]

Operations == {"SetTier", "SetSplit", "SetAutoRun", "title", "RenameSession",
               "MoveSession", "SetModel", "PutProposedSelection"}

\* The requests that read the session through Session(), which clamps the tier.
Clamping == {"SetSplit", "SetAutoRun", "title"}

\* The requests that are refused while an exchange runs (Attach).
RefusedMidExchange == {"MoveSession", "SetModel"}

TypeOK ==
    /\ row \in Rows
    /\ trail \in Tiers
    /\ setters \in [Setters -> [op : Operations, tier : Tiers,
                                pc : {"asked", "read", "checked", "written", "over"},
                                copy : Rows]]
    /\ ceiling \in Tiers /\ topCeiling \in Tiers
    /\ readable \in BOOLEAN
    /\ moves \in 0 .. CeilingMoves
    /\ loop \in {"none", "idle", "streaming"}
    /\ held \in [tier : Tiers, split : Splits]
    /\ iteration \in 0 .. MaxIterations
    /\ sinceChange \in 0 .. MaxIterations
    /\ lastCall \in [tier : Tiers, inForce : Tiers, fresh : BOOLEAN]

Lower(a, b) == IF a < b THEN a ELSE b

\* effectiveTier: clamped by the ceiling, and L0 if the policy cannot be read.
EffectiveTier(tier) == IF readable THEN Lower(tier, ceiling) ELSE 0

Fresh == [tier |-> 0, split |-> "whole", autoRun |-> FALSE, titled |-> FALSE,
          moved |-> FALSE, selected |-> FALSE]

\* CreateSession checks the starting tier and opens the trail with it.
Init ==
    /\ ceiling \in Tiers /\ topCeiling = ceiling
    /\ \E tier \in 0 .. ceiling :
          /\ row = [Fresh EXCEPT !.tier = tier]
          /\ trail = tier
          /\ held = [tier |-> tier, split |-> "whole"]
    /\ setters \in [Setters -> [op : Operations, tier : Tiers, pc : {"asked"},
                                copy : {Fresh}]]
    /\ \A s \in Setters : setters[s].op # "SetTier" => setters[s].tier = 0
    /\ readable = TRUE /\ moves = 0
    /\ loop = "none"
    /\ iteration = 0 /\ sinceChange = 0
    /\ lastCall = [tier |-> 0, inForce |-> 0, fresh |-> TRUE]

-----------------------------------------------------------------------------
(* The setters. *)

\* What a request's field change makes of the row it has read.
Changed(op, tier, copy) ==
    CASE op = "SetTier" -> [copy EXCEPT !.tier = tier]
      [] op = "SetSplit" -> [copy EXCEPT !.split = "training"]
      [] op = "SetAutoRun" -> [copy EXCEPT !.autoRun = TRUE]
      [] op \in {"title", "RenameSession"} -> [copy EXCEPT !.titled = TRUE]
      [] op \in RefusedMidExchange -> [copy EXCEPT !.moved = TRUE]
      [] op = "PutProposedSelection" -> [copy EXCEPT !.selected = TRUE]

At(s, label) == setters' = [setters EXCEPT ![s].pc = label]

\* The read: store.Session, or Session() with its clamp.
ReadRow(s) ==
    LET op == setters[s].op
        copy == IF op \in Clamping THEN [row EXCEPT !.tier = EffectiveTier(@)] ELSE row
    IN  /\ setters[s].pc = "asked"
        /\ setters' = [setters EXCEPT ![s].pc = "read", ![s].copy = copy]
        /\ UNCHANGED <<row, trail, exchangeVars, adminVars, sinceChange>>

\* Mutant: a raise is not checked against the ceiling.
CheckChangeOnly(s) ==
    LET op == setters[s].op
        copy == setters[s].copy
    IN  /\ setters[s].pc = "read"
        /\ At(s, IF Changed(op, setters[s].tier, copy) = copy THEN "over" ELSE "checked")
        /\ UNCHANGED <<row, trail, exchangeVars, adminVars, sinceChange>>

\* Nothing to change, an exchange in the way, or (SetTier) a raise above the
\* ceiling: the request ends.  Lowering is never checked.
CheckChange(s) ==
    LET op == setters[s].op
        tier == setters[s].tier
        copy == setters[s].copy
        raised == op = "SetTier" /\ tier > copy.tier
    IN  /\ setters[s].pc = "read"
        /\ IF \/ Changed(op, tier, copy) = copy
              \/ op \in RefusedMidExchange /\ loop # "none"
              \/ raised /\ (~readable \/ tier > ceiling)
           THEN At(s, "over")
           ELSE At(s, "checked")
        /\ UNCHANGED <<row, trail, exchangeVars, adminVars, sinceChange>>

\* UpdateSession writes every field.
WriteRow(s) ==
    /\ setters[s].pc = "checked"
    /\ row' = Changed(setters[s].op, setters[s].tier, setters[s].copy)
    /\ At(s, IF setters[s].op = "SetTier" THEN "written" ELSE "over")
    /\ sinceChange' = IF row'.tier # row.tier THEN 0 ELSE sinceChange
    /\ UNCHANGED <<trail, exchangeVars, adminVars>>

\* Mutant: the trail counts tiers from one.
AuditTierFromOne(s) ==
    /\ setters[s].pc = "written"
    /\ trail' = setters[s].tier + 1
    /\ At(s, "over")
    /\ UNCHANGED <<row, exchangeVars, adminVars, sinceChange>>

\* SetTier's AppendTierChange.
AuditTier(s) ==
    /\ setters[s].pc = "written"
    /\ trail' = setters[s].tier
    /\ At(s, "over")
    /\ UNCHANGED <<row, exchangeVars, adminVars, sinceChange>>

-----------------------------------------------------------------------------
(* The exchange. *)

\* start reads the session, and the exchange begins with what it read.
StartExchange ==
    /\ loop = "none" /\ iteration < MaxIterations
    /\ held' = [tier |-> EffectiveTier(row.tier), split |-> row.split]
    /\ loop' = "idle"
    /\ UNCHANGED <<row, trail, setters, iteration, adminVars, lastCall, sinceChange>>

\* Mutant: the exchange keeps what it started with.
IterateWithoutReading ==
    /\ loop = "idle" /\ iteration < MaxIterations
    /\ iteration' = iteration + 1
    /\ sinceChange' = sinceChange + 1
    /\ loop' = "streaming"
    /\ UNCHANGED <<row, trail, setters, held, adminVars, lastCall>>

\* The top of an iteration: tier and split are read again, the tier clamped; a read
\* of the session that fails keeps what the exchange had.
Iterate ==
    /\ loop = "idle" /\ iteration < MaxIterations
    /\ \E found \in (IF StoreFails THEN BOOLEAN ELSE {TRUE}) :
          held' = IF found THEN [tier |-> EffectiveTier(row.tier), split |-> row.split]
                           ELSE held
    /\ iteration' = iteration + 1
    /\ sinceChange' = sinceChange + 1
    /\ loop' = "streaming"
    /\ UNCHANGED <<row, trail, setters, adminVars, lastCall>>

\* Dispatch of one of the turn's calls, gated by what the iteration captured: the
\* tool runs if the captured tier permits its minimum.
RunTool ==
    /\ loop = "streaming"
    /\ \E minTier \in Tiers :
          /\ minTier <= held.tier
          /\ lastCall' = [tier |-> minTier, inForce |-> EffectiveTier(row.tier),
                          fresh |-> sinceChange > 0]
    /\ UNCHANGED <<row, trail, setters, loop, held, iteration, adminVars, sinceChange>>

\* The loop goes on, or the exchange is over.
EndIteration ==
    /\ loop = "streaming"
    /\ loop' \in {"idle", "none"}
    /\ UNCHANGED <<row, trail, setters, held, iteration, lastCall, adminVars, sinceChange>>

-----------------------------------------------------------------------------
(* The policy. *)

MoveCeiling ==
    /\ moves < CeilingMoves
    /\ moves' = moves + 1
    /\ ceiling' \in Tiers \ {ceiling}
    /\ topCeiling' = IF ceiling' > topCeiling THEN ceiling' ELSE topCeiling
    /\ sinceChange' = 0
    /\ UNCHANGED <<row, trail, setters, exchangeVars, readable>>

\* The database that holds the policy fails, or answers again.
PolicyComesAndGoes ==
    /\ moves < CeilingMoves
    /\ moves' = moves + 1
    /\ readable' = ~readable
    /\ sinceChange' = 0
    /\ UNCHANGED <<row, trail, setters, exchangeVars, ceiling, topCeiling>>

-----------------------------------------------------------------------------
Next ==
    \/ \E s \in Setters : ReadRow(s) \/ CheckChange(s) \/ WriteRow(s) \/ AuditTier(s)
    \/ StartExchange \/ Iterate \/ RunTool \/ EndIteration
    \/ MoveCeiling \/ PolicyComesAndGoes

Spec == Init /\ [][Next]_vars

-----------------------------------------------------------------------------
(* Properties. *)

\* The stored tier was within the admin's ceiling at some time: no write-back of a
\* stale row and no race with the ceiling stores one that never was (SetTier,
\* CreateSession).
TierStaysAdmitted == row.tier <= topCeiling

\* A lower tier or ceiling, or a policy that cannot be read, binds every tool call
\* of an iteration that begins after it (run, effectiveTier).
LoweringBindsNextIteration ==
    StoreFails \/ (lastCall.fresh => lastCall.tier <= lastCall.inForce)

\* Every change of the tier is in the audit trail (session.go): with no SetTier
\* between its write and its entry, the trail ends at the stored tier.
TierChangesAreAudited ==
    (\A s \in Setters : setters[s].pc # "written") => row.tier = trail
=============================================================================
