------------------------ MODULE ModuleLifecycleProofs ------------------------
(***************************************************************************)
(* Theorems about ModuleLifecycle for every set of modules, dependency     *)
(* graph, number of requests and bound.                                    *)
(***************************************************************************)
EXTENDS ModuleLifecycle, FiniteSetTheorems, TLAPS

Enabling == pc \in {"register", "start", "publish", "undo_stop", "undo_remove"}

Disabling == pc \in {"drain", "stop", "remove"}

\* Which caller can be suspended where, and where its loop stands.
Control ==
    /\ (pc = "idle") <=> (caller = "none")
    /\ Enabling => caller \in {"enable", "enable_all"}
    /\ Disabling => caller \in {"disable", "disable_all", "rollback", "retire"}
    /\ pc \in {"retire", "retire_rollback"} => caller = "retire"
    /\ pc = "loop" => caller \in {"enable_all", "rollback", "disable_all"}
    /\ caller = "enable_all" => pos \in 1..(N + 1)
    /\ caller \in {"disable_all", "rollback"} => pos \in 0..N
    /\ caller \in {"enable_all", "disable_all", "rollback"} /\ pc # "loop"
         => pos \in 1..N /\ cur = Order[pos]

\* The operation at work has a generation number left to reserve.
Budget ==
    /\ caller = "enable_all" =>
         \A i \in 1..N : (i > pos \/ (i = pos /\ pc = "loop")) => nextGen[Order[i]] < MaxGen
    /\ caller = "retire" /\ pc # "retire_rollback" => nextGen[cur] < MaxGen
    /\ Enabling \/ pc = "retire_rollback" => nextGen[cur] >= 1
    /\ \A m \in Modules : reg[m] <= nextGen[m]

TypeInv == TypeOK /\ Control /\ Budget

USE DEF Gens, Callers, Steps

LEMMA InitTypeInv == Init => TypeInv
<1> SUFFICES ASSUME Init PROVE TypeInv  OBVIOUS
<1> USE DEF Init
<1>1. ModTypeOK  BY BoundsAssumption DEF ModTypeOK, ModuleState
<1>2. GateTypeOK  BY BoundsAssumption DEF GateTypeOK, ContributionState
<1>3. OpTypeOK  BY OrderAssumption DEF OpTypeOK
<1>4. RequestTypeOK  BY DEF RequestTypeOK
<1>5. Control  BY DEF Control, Enabling, Disabling
<1>6. Budget  BY DEF Budget, Enabling
<1> QED BY <1>1, <1>2, <1>3, <1>4, <1>5, <1>6 DEF TypeInv, TypeOK

\* The removal of a generation keeps the registries and the gate well typed.
LEMMA RemoveContributionsType ==
    ASSUME GateTypeOK, NEW m \in Modules, NEW g \in Gens, RemoveContributions(m, g),
           UNCHANGED <<inFlight, nextGen>>, retired' \in SUBSET Modules
    PROVE  GateTypeOK'
<1> USE DEF GateTypeOK, RemoveContributions
<1>1. lifecycle' \in [Modules -> [Gens -> ContributionState]]  BY DEF ContributionState
<1>2. entries' \in [Modules -> SUBSET Gens]  OBVIOUS
<1>3. services' \in [Modules -> SUBSET Gens]  OBVIOUS
<1> QED BY <1>1, <1>2, <1>3

\* So does the registration of a contribution.
LEMMA RegisterModuleType ==
    ASSUME GateTypeOK, cur \in Modules, nextGen[cur] \in Gens, RegisterModule
    PROVE  GateTypeOK'
<1> DEFINE Added(f) == [f EXCEPT ![cur] = @ \cup {nextGen[cur]}]
<1>1. entries' \in {entries, Added(entries)} /\ services' \in {services, Added(services)}
  BY DEF RegisterModule
<1>2. ASSUME NEW f \in [Modules -> SUBSET Gens]
      PROVE  Added(f) \in [Modules -> SUBSET Gens]
  OBVIOUS
<1>3. Added(entries) \in [Modules -> SUBSET Gens] /\ Added(services) \in [Modules -> SUBSET Gens]
  BY <1>2 DEF GateTypeOK
<1> HIDE DEF Added
<1>4. entries' \in [Modules -> SUBSET Gens] /\ services' \in [Modules -> SUBSET Gens]
  BY <1>1, <1>3 DEF GateTypeOK
<1> QED BY <1>4 DEF GateTypeOK, RegisterModule, gateVars

\* One generation's state changes.
LEMMA SetLifecycleType ==
    ASSUME lifecycle \in [Modules -> [Gens -> ContributionState]],
           NEW m \in Modules, NEW g \in Gens, NEW v \in ContributionState
    PROVE  [lifecycle EXCEPT ![m][g] = v] \in [Modules -> [Gens -> ContributionState]]
OBVIOUS

\* A reserved generation is a new number within the bound.
LEMMA ReserveType ==
    ASSUME GateTypeOK, ModTypeOK, NEW m \in Modules, nextGen[m] < MaxGen, Reserve(m),
           UNCHANGED <<inFlight, retired, entries, services>>
    PROVE  /\ GateTypeOK'
           /\ nextGen'[m] = nextGen[m] + 1
           /\ \A n \in Modules \ {m} : nextGen'[n] = nextGen[n]
           /\ (\A n \in Modules : reg[n] <= nextGen[n])
                => \A n \in Modules : reg[n] <= nextGen'[n]
<1> USE BoundsAssumption DEF GateTypeOK, Reserve
<1>1. nextGen[m] + 1 \in Gens  OBVIOUS
<1>2. lifecycle' \in [Modules -> [Gens -> ContributionState]]
  BY <1>1, SetLifecycleType DEF ContributionState
<1>3. nextGen' \in [Modules -> 0..MaxGen]  BY <1>1
<1>4. ASSUME NEW n \in Modules, reg[n] <= nextGen[n]
      PROVE  reg[n] <= nextGen'[n]
  <2>1. nextGen'[n] >= nextGen[n] /\ nextGen'[n] \in Int  BY <1>1, <1>3
  <2> QED BY <1>4, <2>1 DEF ModTypeOK
<1> QED BY <1>2, <1>3, <1>4

LEMMA EnableStepTypeInv ==
    TypeInv /\ (\/ RegisterModule \/ StartModule \/ PublishModule \/ PublishFails
                \/ UndoStop \/ UndoRemove)
    => TypeInv'
<1> SUFFICES ASSUME TypeInv,
                    \/ RegisterModule \/ StartModule \/ PublishModule \/ PublishFails
                    \/ UndoStop \/ UndoRemove
             PROVE  TypeInv'
  OBVIOUS
<1> USE OrderAssumption, BoundsAssumption
    DEF TypeInv, TypeOK, modVars, gateVars, contVars, loopVars
<1>1. CASE RegisterModule
  <2> USE <1>1 DEF RegisterModule
  <2>1. ModTypeOK' /\ RequestTypeOK'  BY DEF ModTypeOK, RequestTypeOK
  <2>2. GateTypeOK'
    <3>1. nextGen[cur] \in Gens  BY DEF GateTypeOK, OpTypeOK, Budget, Enabling
    <3> QED BY <3>1, RegisterModuleType DEF OpTypeOK
  <2>3. OpTypeOK'  BY DEF OpTypeOK
  <2>4. Control'  BY DEF OpTypeOK, Control, Enabling, Disabling
  <2>5. Budget'  BY DEF OpTypeOK, Control, Budget, Enabling
  <2> QED BY <2>1, <2>2, <2>3, <2>4, <2>5
<1>3. CASE PublishModule
  <2> USE <1>3 DEF PublishModule, EnableReturned, Idle
  <2>1. ModTypeOK' /\ RequestTypeOK'
    BY DEF ModTypeOK, GateTypeOK, OpTypeOK, RequestTypeOK, ModuleState
  <2>2. GateTypeOK'  BY DEF GateTypeOK, OpTypeOK, ContributionState
  <2>3. OpTypeOK'  BY DEF OpTypeOK, Control, Enabling
  <2>4. Control'  BY DEF OpTypeOK, Control, Enabling, Disabling
  <2>5. Budget'
    <3>1. \A m \in Modules : reg'[m] <= nextGen'[m]  BY DEF ModTypeOK, GateTypeOK, Budget
    <3>2. caller' = "enable_all" =>
            \A i \in 1..N : (i > pos' \/ (i = pos' /\ pc' = "loop")) => nextGen'[Order[i]] < MaxGen
      BY DEF OpTypeOK, Control, Budget, Enabling
    <3> QED BY <3>1, <3>2 DEF Budget, Control, Enabling
  <2> QED BY <2>1, <2>2, <2>3, <2>4, <2>5
<1>2. CASE StartModule
  BY <1>2 DEF StartModule, ModTypeOK, GateTypeOK, OpTypeOK, RequestTypeOK,
     Control, Budget, Enabling, Disabling
<1>4. CASE PublishFails
  BY <1>4 DEF PublishFails, ModTypeOK, GateTypeOK, OpTypeOK, RequestTypeOK,
     Control, Budget, Enabling, Disabling
<1>5. CASE UndoStop
  BY <1>5 DEF UndoStop, ModTypeOK, GateTypeOK, OpTypeOK, RequestTypeOK,
     Control, Budget, Enabling, Disabling
<1>6. CASE UndoRemove
  <2> USE <1>6 DEF UndoRemove, EnableRaised, Idle
  <2>1. ModTypeOK' /\ RequestTypeOK'  BY DEF ModTypeOK, RequestTypeOK, OpTypeOK, ModuleState
  <2>2. GateTypeOK'
    <3>1. nextGen[cur] \in Gens  BY DEF GateTypeOK, OpTypeOK, Budget, Enabling
    <3>2. retired' \in SUBSET Modules  BY DEF GateTypeOK
    <3> QED BY <3>1, <3>2, RemoveContributionsType DEF OpTypeOK
  <2>3. OpTypeOK'  BY DEF OpTypeOK, Control, Enabling
  <2>4. Control'  BY DEF OpTypeOK, Control, Enabling, Disabling
  <2>5. Budget'  BY DEF OpTypeOK, Control, Budget, Enabling
  <2> QED BY <2>1, <2>2, <2>3, <2>4, <2>5
<1> QED BY <1>1, <1>2, <1>3, <1>4, <1>5, <1>6

LEMMA DisableStepTypeInv ==
    TypeInv /\ (Drained \/ DrainFails \/ StopModule \/ RemoveModule \/ RemoveFails)
    => TypeInv'
<1> SUFFICES ASSUME TypeInv,
                    Drained \/ DrainFails \/ StopModule \/ RemoveModule \/ RemoveFails
             PROVE  TypeInv'
  OBVIOUS
<1> USE OrderAssumption, BoundsAssumption
    DEF TypeInv, TypeOK, modVars, gateVars, contVars, loopVars
<1>1. CASE Drained
  <2> USE <1>1 DEF Drained, AfterDrain
  <2>1. ModTypeOK' /\ RequestTypeOK' /\ OpTypeOK'  BY DEF ModTypeOK, RequestTypeOK, OpTypeOK
  <2>2. GateTypeOK'  BY DEF GateTypeOK, OpTypeOK, ContributionState
  <2>3. Control' /\ Budget'  BY DEF OpTypeOK, Control, Budget, Enabling, Disabling
  <2> QED BY <2>1, <2>2, <2>3
<1>2. CASE DrainFails
  <2> USE <1>2 DEF DrainFails, DisableEnded, Idle
  <2>1. ModTypeOK' /\ GateTypeOK' /\ RequestTypeOK'
    BY DEF ModTypeOK, GateTypeOK, RequestTypeOK, OpTypeOK, ModuleState
  <2>2. OpTypeOK'  BY DEF OpTypeOK, Control, Disabling
  <2>3. Control'  BY DEF OpTypeOK, Control, Enabling, Disabling
  <2>4. Budget'  BY DEF OpTypeOK, Control, Budget, Enabling, Disabling
  <2> QED BY <2>1, <2>2, <2>3, <2>4
<1>3. CASE StopModule
  BY <1>3 DEF StopModule, ModTypeOK, GateTypeOK, OpTypeOK, RequestTypeOK,
     Control, Budget, Enabling, Disabling
<1>4. CASE RemoveModule
  <2> USE <1>4 DEF RemoveModule, Conclude, DisableEnded, Idle
  <2>1. ModTypeOK' /\ RequestTypeOK'
    BY DEF ModTypeOK, GateTypeOK, RequestTypeOK, OpTypeOK, ModuleState
  <2>2. GateTypeOK'
    <3>0. retired' \in SUBSET Modules  BY DEF GateTypeOK
    <3>1. CASE UNCHANGED <<lifecycle, contVars>>  BY <3>1 DEF GateTypeOK
    <3>2. CASE Registered(cur) /\ RemoveContributions(cur, reg[cur])
      BY <3>2, <3>0, RemoveContributionsType DEF OpTypeOK, Registered
    <3> QED BY <3>1, <3>2
  <2>3. OpTypeOK'  BY DEF OpTypeOK, Control, Disabling
  <2>4. Control'  BY DEF OpTypeOK, Control, Enabling, Disabling
  <2>5. Budget'
    <3>1. \A m \in Modules : reg'[m] <= nextGen'[m]  BY DEF ModTypeOK, GateTypeOK, Budget
    <3> QED BY <3>1 DEF OpTypeOK, Control, Budget, Enabling, Disabling
  <2> QED BY <2>1, <2>2, <2>3, <2>4, <2>5
<1>5. CASE RemoveFails
  <2> USE <1>5 DEF RemoveFails, DisableEnded, Idle
  <2>1. ModTypeOK' /\ RequestTypeOK'  BY DEF ModTypeOK, RequestTypeOK, OpTypeOK, ModuleState
  <2>2. GateTypeOK'
    <3>0. retired' \in SUBSET Modules  BY DEF GateTypeOK
    <3>1. CASE RemoveContributions(cur, reg[cur])
      BY <3>1, <3>0, RemoveContributionsType DEF OpTypeOK, Registered
    <3>2. CASE UNCHANGED <<entries, lifecycle>>
                 /\ services' = [services EXCEPT ![cur] = @ \ {reg[cur]}]
      BY <3>2 DEF GateTypeOK
    <3> QED BY <3>1, <3>2
  <2>3. OpTypeOK'  BY DEF OpTypeOK, Control, Disabling
  <2>4. Control'  BY DEF OpTypeOK, Control, Enabling, Disabling
  <2>5. Budget'  BY DEF OpTypeOK, Control, Budget, Enabling, Disabling
  <2> QED BY <2>1, <2>2, <2>3, <2>4, <2>5
<1> QED BY <1>1, <1>2, <1>3, <1>4, <1>5

LEMMA BeginEnableTypeInv ==
    ASSUME TypeInv, NEW m \in Modules, NEW who \in {"enable", "enable_all"},
           nextGen[m] < MaxGen, BeginEnable(m, who),
           who = "enable_all" => caller = "enable_all" /\ pos \in 1..N /\ m = Order[pos]
    PROVE  TypeInv'
<1> USE OrderAssumption, BoundsAssumption
    DEF TypeInv, TypeOK, modVars, gateVars, contVars, loopVars, BeginEnable
<1>1. ModTypeOK' /\ RequestTypeOK' /\ OpTypeOK'  BY DEF ModTypeOK, RequestTypeOK, OpTypeOK
<1>2. /\ GateTypeOK'
      /\ nextGen'[m] = nextGen[m] + 1
      /\ \A n \in Modules \ {m} : nextGen'[n] = nextGen[n]
      /\ (\A n \in Modules : reg[n] <= nextGen[n])
           => \A n \in Modules : reg[n] <= nextGen'[n]
  BY ReserveType
<1>3. Control'  BY DEF OpTypeOK, Control, Enabling, Disabling
<1>4. Budget'
  <2>1. \A n \in Modules : reg'[n] <= nextGen'[n]  BY <1>2 DEF Budget
  <2>2. ASSUME NEW i \in 1..N, who = "enable_all", i > pos
        PROVE  nextGen'[Order[i]] < MaxGen
    <3>1. Order[i] \in Modules \ {m} /\ nextGen[Order[i]] < MaxGen  BY <2>2 DEF Budget
    <3> QED BY <1>2, <3>1
  <2>3. nextGen'[m] >= 1 /\ cur' = m /\ pos' = pos /\ pc' \in {"register", "undo_remove"}
    BY <1>2 DEF GateTypeOK
  <2> QED BY <2>1, <2>2, <2>3 DEF Budget, Enabling
<1> QED BY <1>1, <1>2, <1>3, <1>4

LEMMA BeginDisableTypeInv ==
    ASSUME TypeInv, NEW m \in Modules,
           NEW who \in {"disable", "disable_all", "rollback", "retire"},
           BeginDisable(m, who),
           who = "retire" => nextGen[m] < MaxGen,
           who \in {"disable_all", "rollback"} => pos \in 1..N /\ m = Order[pos]
    PROVE  TypeInv'
<1> USE OrderAssumption, BoundsAssumption
    DEF TypeInv, TypeOK, modVars, gateVars, contVars, loopVars, BeginDisable, AfterDrain
<1>1. ModTypeOK' /\ RequestTypeOK' /\ OpTypeOK'  BY DEF ModTypeOK, RequestTypeOK, OpTypeOK
<1>2. GateTypeOK'
  <2>1. CASE UNCHANGED lifecycle  BY <2>1 DEF GateTypeOK
  <2>2. CASE Registered(m) /\ lifecycle' = [lifecycle EXCEPT ![m][reg[m]] = "draining"]
    BY <2>2, SetLifecycleType DEF GateTypeOK, Registered, ContributionState
  <2> QED BY <2>1, <2>2
<1>3. Control'  BY DEF OpTypeOK, Control, Enabling, Disabling
<1>4. Budget'  BY DEF GateTypeOK, Budget, Enabling
<1> QED BY <1>1, <1>2, <1>3, <1>4

LEMMA LoopTypeInv ==
    TypeInv /\ (EnableNext \/ DisableNext \/ LoopEnds) => TypeInv'
<1> SUFFICES ASSUME TypeInv, EnableNext \/ DisableNext \/ LoopEnds PROVE TypeInv'  OBVIOUS
<1> USE OrderAssumption, BoundsAssumption
    DEF TypeInv, TypeOK, modVars, gateVars, contVars, loopVars
<1>1. CASE EnableNext
  <2>0. pos \in 1..N /\ Order[pos] \in Modules /\ pc = "loop" /\ caller = "enable_all"
    BY <1>1 DEF EnableNext, Control
  <2>1. CASE BeginEnable(Order[pos], "enable_all")
    <3>1. nextGen[Order[pos]] < MaxGen  BY <2>0 DEF Budget
    <3> QED BY <2>0, <2>1, <3>1, BeginEnableTypeInv
  <2>2. CASE /\ EnableReturned(Order[pos], TRUE) \/ EnableRaised
             /\ UNCHANGED <<modVars, gateVars, contVars, cur, errors, req>>
    <3> USE <2>0, <2>2 DEF EnableReturned, EnableRaised, Idle
    <3>1. ModTypeOK' /\ GateTypeOK' /\ RequestTypeOK'
      BY DEF ModTypeOK, GateTypeOK, RequestTypeOK
    <3>2. OpTypeOK'  BY DEF OpTypeOK
    <3>3. Control'  BY DEF Control, Enabling, Disabling
    <3>4. Budget'  BY DEF Budget, Enabling
    <3> QED BY <3>1, <3>2, <3>3, <3>4
  <2> QED BY <1>1, <2>0, <2>1, <2>2 DEF EnableNext
<1>2. CASE DisableNext
  <2>0. /\ pos \in 1..N /\ Order[pos] \in Modules /\ pc = "loop"
        /\ caller \in {"disable_all", "rollback"}
    BY <1>2 DEF DisableNext, Control
  <2>1. CASE BeginDisable(Order[pos], caller)  BY <2>0, <2>1, BeginDisableTypeInv
  <2>2. CASE /\ DisableEnded(TRUE)
             /\ UNCHANGED <<modVars, gateVars, contVars, cur, errors, req>>
    <3> USE <2>0, <2>2 DEF DisableEnded, Idle
    <3>1. ModTypeOK' /\ GateTypeOK' /\ RequestTypeOK'
      BY DEF ModTypeOK, GateTypeOK, RequestTypeOK
    <3>2. OpTypeOK'  BY DEF OpTypeOK
    <3>3. Control'  BY DEF Control, Enabling, Disabling
    <3>4. Budget'  BY DEF Budget, Enabling
    <3> QED BY <3>1, <3>2, <3>3, <3>4
  <2> QED BY <1>2, <2>0, <2>1, <2>2 DEF DisableNext
<1>3. CASE LoopEnds
  <2> USE <1>3 DEF LoopEnds, Idle
  <2>1. ModTypeOK' /\ GateTypeOK' /\ RequestTypeOK'
    BY DEF ModTypeOK, GateTypeOK, RequestTypeOK
  <2>2. OpTypeOK'  BY DEF OpTypeOK
  <2>3. Control' /\ Budget'  BY DEF Control, Budget, Enabling, Disabling
  <2> QED BY <2>1, <2>2, <2>3
<1> QED BY <1>1, <1>2, <1>3

LEMMA RetireStepTypeInv ==
    TypeInv /\ (BeginUninstall \/ FinishRetire) => TypeInv'
<1> SUFFICES ASSUME TypeInv, BeginUninstall \/ FinishRetire PROVE TypeInv'  OBVIOUS
<1> USE OrderAssumption, BoundsAssumption
    DEF TypeInv, TypeOK, modVars, gateVars, contVars, loopVars
<1>1. CASE BeginUninstall
  <2> USE <1>1 DEF BeginUninstall
  <2>1. ModTypeOK' /\ RequestTypeOK' /\ OpTypeOK'
    BY DEF ModTypeOK, RequestTypeOK, OpTypeOK, ModuleState
  <2>0. cur \in Modules /\ nextGen[cur] < MaxGen  BY DEF OpTypeOK, Budget, Control
  <2>2. /\ GateTypeOK'
        /\ nextGen'[cur] = nextGen[cur] + 1
        /\ \A n \in Modules \ {cur} : nextGen'[n] = nextGen[n]
        /\ (\A n \in Modules : reg[n] <= nextGen[n])
             => \A n \in Modules : reg[n] <= nextGen'[n]
    BY <2>0, ReserveType
  <2>3. Control'  BY DEF Control, Enabling, Disabling
  <2>4. Budget'
    <3>1. \A n \in Modules : reg'[n] <= nextGen'[n]  BY <2>2 DEF Budget
    <3>2. nextGen'[cur'] >= 1  BY <2>0, <2>2 DEF GateTypeOK
    <3> QED BY <3>1, <3>2 DEF Control, Budget, Enabling
  <2> QED BY <2>1, <2>2, <2>3, <2>4
<1>2. CASE FinishRetire
  <2> USE <1>2 DEF FinishRetire, Idle
  <2>1. ModTypeOK' /\ RequestTypeOK' /\ OpTypeOK'
    BY DEF ModTypeOK, RequestTypeOK, OpTypeOK, ModuleState
  <2>2. nextGen[cur] \in Gens  BY DEF GateTypeOK, OpTypeOK, Budget
  <2>3. GateTypeOK'
    <3>1. retired' \in SUBSET Modules  BY DEF GateTypeOK, OpTypeOK
    <3> QED BY <2>2, <3>1, RemoveContributionsType DEF OpTypeOK
  <2>4. Control'  BY DEF Control, Enabling, Disabling
  <2>5. Budget'  BY DEF Budget, Enabling
  <2> QED BY <2>1, <2>3, <2>4, <2>5
<1> QED BY <1>1, <1>2

LEMMA CallTypeInv ==
    TypeInv /\ OperationCall => TypeInv'
<1> SUFFICES ASSUME TypeInv, OperationCall PROVE TypeInv'  OBVIOUS
<1> USE OrderAssumption, BoundsAssumption
    DEF TypeInv, TypeOK, modVars, gateVars, contVars, loopVars
<1>1. CASE InstallAll
  <2> USE <1>1 DEF InstallAll, opVars
  <2>1. ModTypeOK'  BY DEF ModTypeOK, ModuleState
  <2>2. GateTypeOK' /\ OpTypeOK' /\ RequestTypeOK'  BY DEF GateTypeOK, OpTypeOK, RequestTypeOK
  <2>3. Control' /\ Budget'  BY DEF Control, Budget, Enabling, Disabling
  <2> QED BY <2>1, <2>2, <2>3
<1>2. CASE EnableAll
  <2> USE <1>2 DEF EnableAll, LockFree, Activable
  <2>1. ModTypeOK' /\ GateTypeOK' /\ RequestTypeOK'
    BY DEF ModTypeOK, GateTypeOK, RequestTypeOK
  <2>2. OpTypeOK'  BY DEF OpTypeOK
  <2>3. Control' /\ Budget'  BY DEF Control, Budget, Enabling, Disabling
  <2> QED BY <2>1, <2>2, <2>3
<1>3. CASE DisableAll
  <2> USE <1>3 DEF DisableAll, LockFree
  <2>1. ModTypeOK' /\ GateTypeOK' /\ RequestTypeOK'
    BY DEF ModTypeOK, GateTypeOK, RequestTypeOK
  <2>2. OpTypeOK'  BY DEF OpTypeOK
  <2>3. Control' /\ Budget'  BY DEF Control, Budget, Enabling, Disabling
  <2> QED BY <2>1, <2>2, <2>3
<1>4. ASSUME NEW m \in Modules, Enable(m) PROVE TypeInv'
  <2> HIDE DEF TypeInv
  <2> QED BY <1>4, BeginEnableTypeInv DEF Enable, Activable
<1>5. ASSUME NEW m \in Modules, Disable(m) PROVE TypeInv'
  <2> HIDE DEF TypeInv
  <2> QED BY <1>5, BeginDisableTypeInv DEF Disable
<1>6. ASSUME NEW m \in Modules, Retire(m) PROVE TypeInv'
  <2>1. CASE BeginDisable(m, "retire")
    <3> HIDE DEF TypeInv
    <3> QED BY <1>6, <2>1, BeginDisableTypeInv DEF Retire, Activable
  <2>2. CASE ~BeginDisable(m, "retire")
    <3> USE <1>6, <2>2 DEF Retire, LockFree, Activable
    <3>1. ModTypeOK' /\ GateTypeOK' /\ RequestTypeOK'
      BY DEF ModTypeOK, GateTypeOK, RequestTypeOK
    <3>2. OpTypeOK'  BY DEF OpTypeOK
    <3>3. Control' /\ Budget'  BY DEF Control, Budget, Enabling, Disabling
    <3> QED BY <3>1, <3>2, <3>3
  <2> QED BY <2>1, <2>2
<1>7. ASSUME NEW m \in Modules, Replace(m) PROVE TypeInv'
  <2> USE <1>7 DEF Replace
  <2>1. ModTypeOK' /\ GateTypeOK' /\ RequestTypeOK'
    BY DEF ModTypeOK, ModuleState, GateTypeOK, RequestTypeOK
  <2>2. OpTypeOK'  BY DEF OpTypeOK
  <2>3. Control' /\ Budget'  BY DEF Control, Budget, Enabling, Disabling
  <2> QED BY <2>1, <2>2, <2>3
<1> QED BY <1>1, <1>2, <1>3, <1>4, <1>5, <1>6, <1>7 DEF OperationCall

LEMMA CountType ==
    ASSUME inFlight \in [Modules -> [Gens -> Int]], NEW ls, NEW d \in Int
    PROVE  Count(ls, d) \in [Modules -> [Gens -> Int]]
<1>1. ASSUME NEW m \in Modules, NEW g \in Gens
      PROVE  (IF <<m, g>> \in ls THEN inFlight[m][g] + d ELSE inFlight[m][g]) \in Int
  <2>1. inFlight[m][g] \in Int  OBVIOUS
  <2> QED BY <2>1
<1> QED BY <1>1 DEF Count

LEMMA RequestTypeInv ==
    TypeInv /\ RequestStep => TypeInv'
<1> SUFFICES ASSUME TypeInv, NEW r \in Requests, Resolve(r) \/ Admit(r) \/ Leave(r)
             PROVE  TypeInv'
  BY DEF RequestStep
<1> USE DEF TypeInv, TypeOK, modVars, gateVars, contVars, opVars, loopVars
<1>0. ModTypeOK' /\ OpTypeOK' /\ Control' /\ Budget'
  BY DEF Resolve, Admit, Leave, ModTypeOK, OpTypeOK, Control, Budget, Enabling, Disabling
<1>1. GateTypeOK'
  <2>1. /\ Count(req[r].leases, 1) \in [Modules -> [Gens -> Int]]
        /\ Count(req[r].leases, -1) \in [Modules -> [Gens -> Int]]
    BY CountType DEF GateTypeOK
  <2>2. \/ inFlight' = inFlight
        \/ inFlight' = Count(req[r].leases, 1)
        \/ inFlight' = Count(req[r].leases, -1)
    BY DEF Resolve, Admit, Leave
  <2>3. inFlight' \in [Modules -> [Gens -> Int]]  BY <2>1, <2>2 DEF GateTypeOK
  <2> QED BY <2>3 DEF Resolve, Admit, Leave, GateTypeOK
<1>2. RequestTypeOK'
  <2>1. CASE Resolve(r)
    <3>1. PICK ls \in SUBSET Resolvable :
             req' = [req EXCEPT ![r] = [pc |-> "resolved", leases |-> ls]]
      BY <2>1 DEF Resolve
    <3>2. ls \in SUBSET (Modules \X Gens)  BY DEF Resolvable
    <3> QED BY <3>1, <3>2 DEF RequestTypeOK
  <2>2. CASE Admit(r)  BY <2>2 DEF Admit, RequestTypeOK
  <2>3. CASE Leave(r)  BY <2>3 DEF Leave, RequestTypeOK
  <2> QED BY <2>1, <2>2, <2>3
<1> QED BY <1>0, <1>1, <1>2

\* TypeInv is inductive.
LEMMA NextTypeInv == TypeInv /\ [Next]_vars => TypeInv'
<1> SUFFICES ASSUME TypeInv, [Next]_vars PROVE TypeInv'  OBVIOUS
<1>1. CASE OperationStep
  BY <1>1, EnableStepTypeInv, DisableStepTypeInv, LoopTypeInv, RetireStepTypeInv
     DEF OperationStep
<1>2. CASE OperationCall  BY <1>2, CallTypeInv
<1>3. CASE RequestStep  BY <1>3, RequestTypeInv
<1>4. CASE UNCHANGED vars
  <2> USE <1>4 DEF vars, modVars, gateVars, contVars, opVars, loopVars
  <2>1. TypeOK'  BY DEF TypeInv, TypeOK, ModTypeOK, GateTypeOK, OpTypeOK, RequestTypeOK
  <2>2. Control' /\ Budget'  BY DEF TypeInv, Control, Budget, Enabling, Disabling
  <2> QED BY <2>1, <2>2 DEF TypeInv
<1> QED BY <1>1, <1>2, <1>3, <1>4 DEF Next

\* Every variable keeps its type: in particular the loops never run past the
\* ends of ordered() and no activation gets a number that was not counted.
THEOREM TypeCorrect == Spec => []TypeOK
<1>1. Spec => []TypeInv  BY InitTypeInv, NextTypeInv, PTL DEF Spec
<1>2. TypeInv => TypeOK  BY DEF TypeInv
<1> QED BY <1>1, <1>2, PTL

-----------------------------------------------------------------------------
(* What is ACTIVE is registered, enabled and started.                      *)

\* What the operation at work knows of its module.
CurInv ==
    /\ Enabling => /\ state[cur] \in {"INSTALLED", "DISABLED"}
                   /\ lifecycle[cur][nextGen[cur]] = "staged"
    /\ pc \in {"register", "start", "publish"} => DependenciesActive(cur)
    /\ pc \in {"start", "publish"} => nextGen[cur] \in entries[cur]
    /\ pc = "publish" => cur \in started
    /\ Disabling => state[cur] \in {"ENABLED", "FAILED"}
    /\ pc = "drain" => reg[cur] \in Gens /\ lifecycle[cur][reg[cur]] = "draining"
    /\ pc \in {"stop", "remove"} =>
         \A g \in Gens : lifecycle[cur][g] \notin {"active", "draining"}
    /\ pc = "retire" => state[cur] \in {"INSTALLED", "DISABLED", "FAILED"} /\ reg[cur] = 0
    /\ pc = "retire_rollback" => /\ state[cur] = "UNINSTALLING"
                                 /\ lifecycle[cur][nextGen[cur]] = "staged"

\* What a registration and an ACTIVE or DRAINING generation imply.
ActiveInv ==
    /\ \A m \in Modules : state[m] \notin {"ENABLED", "FAILED"} => reg[m] = 0
    /\ \A m \in Modules, g \in Gens : lifecycle[m][g] = "active" =>
         reg[m] = g /\ state[m] = "ENABLED" /\ m \in started /\ g \in entries[m]
    /\ \A m \in Modules, g \in Gens : lifecycle[m][g] = "draining" => reg[m] = g

ModInv == CurInv /\ ActiveInv

LEMMA InitModInv == Init => ModInv
<1> SUFFICES ASSUME Init PROVE ModInv  OBVIOUS
<1>1. CurInv  BY DEF Init, CurInv, Enabling, Disabling
<1>2. ActiveInv  BY DEF Init, ActiveInv
<1> QED BY <1>1, <1>2 DEF ModInv

LEMMA EnableStepModInv ==
    TypeInv /\ ModInv /\ (\/ RegisterModule \/ StartModule \/ PublishModule
                          \/ PublishFails \/ UndoStop \/ UndoRemove)
    => ModInv'
<1> SUFFICES ASSUME ModTypeOK, GateTypeOK, OpTypeOK, Control, Budget, CurInv, ActiveInv,
                    \/ RegisterModule \/ StartModule \/ PublishModule
                    \/ PublishFails \/ UndoStop \/ UndoRemove
             PROVE  CurInv' /\ ActiveInv'
  BY DEF ModInv, TypeInv, TypeOK
<1> USE BoundsAssumption DEF modVars, gateVars, contVars, loopVars, ModTypeOK, GateTypeOK, OpTypeOK
<1>1. CASE RegisterModule
  <2> USE <1>1 DEF RegisterModule
  <2>1. CurInv'
    <3>1. pc' = "start" => nextGen'[cur'] \in entries'[cur']  BY DEF Budget, Enabling
    <3>2. pc' \in {"start", "undo_remove"} /\ pc = "register" /\ cur' = cur  OBVIOUS
    <3>3. UNCHANGED <<state, lifecycle, nextGen>>  OBVIOUS
    <3> HIDE <1>1
    <3> QED BY <3>1, <3>2, <3>3 DEF CurInv, Enabling, Disabling, DependenciesActive
  <2>2. ActiveInv'
    <3>1. \A m \in Modules : entries[m] \subseteq entries'[m]  OBVIOUS
    <3>2. UNCHANGED <<state, started, reg, lifecycle>>  OBVIOUS
    <3> HIDE <1>1
    <3> QED BY <3>1, <3>2 DEF ActiveInv
  <2> QED BY <2>1, <2>2
<1>2. CASE StartModule
  <2> USE <1>2 DEF StartModule
  <2>1. CurInv'  BY DEF CurInv, Enabling, Disabling, DependenciesActive
  <2>2. ActiveInv'  BY DEF ActiveInv
  <2> QED BY <2>1, <2>2
<1>3. CASE PublishModule
  <2> USE <1>3 DEF PublishModule
  <2>1. CurInv'  BY DEF CurInv, Enabling, Disabling, EnableReturned, Idle, Control
  <2>2. ActiveInv'  BY DEF ActiveInv, CurInv, Enabling, Budget
  <2> QED BY <2>1, <2>2
<1>4. CASE PublishFails
  <2> USE <1>4 DEF PublishFails
  <2>1. CurInv'  BY DEF CurInv, Enabling, Disabling
  <2>2. ActiveInv'  BY DEF ActiveInv
  <2> QED BY <2>1, <2>2
<1>5. CASE UndoStop
  <2> USE <1>5 DEF UndoStop
  <2>1. CurInv'  BY DEF CurInv, Enabling, Disabling
  <2>2. ActiveInv'  BY DEF ActiveInv, CurInv, Enabling
  <2> QED BY <2>1, <2>2
<1>6. CASE UndoRemove
  <2> USE <1>6 DEF UndoRemove
  <2>1. CurInv'  BY DEF CurInv, Enabling, Disabling, EnableRaised, Idle, Control
  <2>2. ActiveInv'  BY DEF ActiveInv, CurInv, Enabling, Budget, RemoveContributions
  <2> QED BY <2>1, <2>2
<1> QED BY <1>1, <1>2, <1>3, <1>4, <1>5, <1>6

\* What RemoveContributions leaves of the gate and of the registries.
LEMMA RemoveContributionsEffect ==
    ASSUME GateTypeOK, NEW m \in Modules, NEW g \in Gens, RemoveContributions(m, g)
    PROVE  /\ \A n \in Modules, h \in Gens : lifecycle'[n][h] \in {lifecycle[n][h], "absent"}
           /\ \A n \in Modules \ {m} : entries'[n] = entries[n]
           /\ \A h \in Gens \ {g} : lifecycle'[m][h] = lifecycle[m][h] /\ (h \in entries'[m] <=> h \in entries[m])
BY DEF GateTypeOK, RemoveContributions

LEMMA DisableStepModInv ==
    TypeInv /\ ModInv /\ (Drained \/ DrainFails \/ StopModule \/ RemoveModule \/ RemoveFails)
    => ModInv'
<1> SUFFICES ASSUME ModTypeOK, GateTypeOK, OpTypeOK, Control, Budget, CurInv, ActiveInv,
                    Drained \/ DrainFails \/ StopModule \/ RemoveModule \/ RemoveFails
             PROVE  CurInv' /\ ActiveInv'
  BY DEF ModInv, TypeInv, TypeOK
<1> USE BoundsAssumption DEF modVars, gateVars, contVars, loopVars, ModTypeOK, GateTypeOK, OpTypeOK
<1>1. CASE Drained
  <2> USE <1>1 DEF Drained, AfterDrain
  <2>1. CurInv'  BY DEF CurInv, ActiveInv, Enabling, Disabling
  <2>2. ActiveInv'  BY DEF ActiveInv, CurInv
  <2> QED BY <2>1, <2>2
<1>2. CASE DrainFails
  <2> USE <1>2 DEF DrainFails
  <2>1. CurInv'  BY DEF CurInv, Enabling, Disabling, DisableEnded, Idle, Control
  <2>2. ActiveInv'  BY DEF ActiveInv, CurInv
  <2> QED BY <2>1, <2>2
<1>3. CASE StopModule
  <2> USE <1>3 DEF StopModule
  <2>1. CurInv'  BY DEF CurInv, Enabling, Disabling
  <2>2. ActiveInv'  BY DEF ActiveInv, CurInv
  <2> QED BY <2>1, <2>2
<1>4. CASE RemoveModule
  <2> USE <1>4 DEF RemoveModule, Conclude
  <2>1. CurInv'  BY DEF CurInv, Enabling, Disabling, DisableEnded, Idle, Control
  <2>2. ActiveInv'
    <3>1. /\ \A n \in Modules, h \in Gens : lifecycle'[n][h] \in {lifecycle[n][h], "absent"}
          /\ \A n \in Modules \ {cur} : entries'[n] = entries[n]
      BY RemoveContributionsEffect DEF Registered
    <3>2. \A n \in Modules \ {cur} : state'[n] = state[n] /\ reg'[n] = reg[n]  OBVIOUS
    <3>3. \A h \in Gens : lifecycle'[cur][h] \notin {"active", "draining"}  BY <3>1 DEF CurInv
    <3>4. reg'[cur] = 0 /\ started' = started  OBVIOUS
    <3> HIDE <1>4 DEF ModTypeOK, GateTypeOK
    <3>5. ASSUME NEW m \in Modules \ {cur}, NEW g \in Gens
          PROVE  /\ state'[m] \notin {"ENABLED", "FAILED"} => reg'[m] = 0
                 /\ lifecycle'[m][g] = "active" =>
                      reg'[m] = g /\ state'[m] = "ENABLED" /\ m \in started' /\ g \in entries'[m]
                 /\ lifecycle'[m][g] = "draining" => reg'[m] = g
      BY <3>1, <3>2, <3>4 DEF ActiveInv
    <3>6. 1 \in Gens  BY BoundsAssumption
    <3> QED BY <3>3, <3>4, <3>5, <3>6 DEF ActiveInv
  <2> QED BY <2>1, <2>2
<1>5. CASE RemoveFails
  <2> USE <1>5 DEF RemoveFails
  <2>1. CurInv'  BY DEF CurInv, Enabling, Disabling, DisableEnded, Idle, Control
  <2>2. ActiveInv'
    <3>1. /\ \A n \in Modules, h \in Gens : lifecycle'[n][h] \in {lifecycle[n][h], "absent"}
          /\ \A n \in Modules \ {cur} : entries'[n] = entries[n]
      BY RemoveContributionsEffect DEF Registered
    <3>2. \A n \in Modules \ {cur} : state'[n] = state[n]  OBVIOUS
    <3>3. \A h \in Gens : lifecycle'[cur][h] \notin {"active", "draining"}  BY <3>1 DEF CurInv
    <3>4. state'[cur] = "FAILED" /\ started' = started /\ reg' = reg  OBVIOUS
    <3> HIDE <1>5 DEF ModTypeOK, GateTypeOK
    <3>5. ASSUME NEW m \in Modules \ {cur}, NEW g \in Gens
          PROVE  /\ state'[m] \notin {"ENABLED", "FAILED"} => reg'[m] = 0
                 /\ lifecycle'[m][g] = "active" =>
                      reg'[m] = g /\ state'[m] = "ENABLED" /\ m \in started' /\ g \in entries'[m]
                 /\ lifecycle'[m][g] = "draining" => reg'[m] = g
      BY <3>1, <3>2, <3>4 DEF ActiveInv
    <3>6. 1 \in Gens  BY BoundsAssumption
    <3> QED BY <3>3, <3>4, <3>5, <3>6 DEF ActiveInv
  <2> QED BY <2>1, <2>2
<1> QED BY <1>1, <1>2, <1>3, <1>4, <1>5

\* What Reserve does to the gate.
LEMMA ReserveEffect ==
    ASSUME GateTypeOK, NEW m \in Modules, nextGen[m] < MaxGen, Reserve(m)
    PROVE  /\ \A n \in Modules, h \in Gens : lifecycle'[n][h] \in {lifecycle[n][h], "staged"}
           /\ lifecycle'[m][nextGen'[m]] = "staged"
<1>1. nextGen[m] + 1 \in Gens /\ nextGen'[m] = nextGen[m] + 1
  BY BoundsAssumption DEF GateTypeOK, Reserve
<1> QED BY <1>1 DEF GateTypeOK, Reserve

LEMMA BeginEnableModInv ==
    ASSUME TypeInv, ModInv, NEW m \in Modules, NEW who, nextGen[m] < MaxGen,
           BeginEnable(m, who)
    PROVE  ModInv'
<1>1. /\ \A n \in Modules, h \in Gens : lifecycle'[n][h] \in {lifecycle[n][h], "staged"}
      /\ lifecycle'[m][nextGen'[m]] = "staged"
  BY ReserveEffect DEF BeginEnable, TypeInv, TypeOK
<1>2. /\ cur' = m
      /\ state[m] \in {"INSTALLED", "DISABLED"}
      /\ pc' = "undo_remove" \/ (pc' = "register" /\ DependenciesActive(m))
      /\ UNCHANGED <<state, started, reg, entries>>
  BY DEF BeginEnable, modVars, contVars
<1>3. CurInv'  BY <1>1, <1>2 DEF CurInv, Enabling, Disabling, DependenciesActive
<1>4. ActiveInv'  BY <1>1, <1>2 DEF ActiveInv, ModInv
<1> QED BY <1>3, <1>4 DEF ModInv

LEMMA BeginDisableModInv ==
    ASSUME TypeInv, ModInv, NEW m \in Modules, NEW who, BeginDisable(m, who)
    PROVE  ModInv'
<1>0. lifecycle \in [Modules -> [Gens -> ContributionState]]
  BY DEF TypeInv, TypeOK, GateTypeOK
<1>1. cur' = m /\ state[m] \in {"ENABLED", "FAILED"} /\ UNCHANGED <<state, started, reg, entries>>
  BY DEF BeginDisable, NothingToDisable, modVars, contVars
<1>2. CASE Registered(m)
  <2>1. /\ reg[m] \in Gens
        /\ lifecycle' = [lifecycle EXCEPT ![m][reg[m]] = "draining"]
        /\ pc' = "drain"
    BY <1>2 DEF BeginDisable, Registered
  <2>2. CurInv'  BY <1>0, <1>1, <2>1 DEF CurInv, Enabling, Disabling
  <2>3. ActiveInv'  BY <1>0, <1>1, <2>1 DEF ActiveInv, ModInv
  <2> QED BY <2>2, <2>3 DEF ModInv
<1>3. CASE ~Registered(m)
  <2>1. lifecycle' = lifecycle /\ pc' \in {"stop", "remove"}
    BY <1>3 DEF BeginDisable, AfterDrain
  <2>2. \A g \in Gens : lifecycle[m][g] \notin {"active", "draining"}
    BY <1>3 DEF Registered, Finished, ModInv, ActiveInv
  <2>3. CurInv'  BY <1>1, <2>1, <2>2 DEF CurInv, Enabling, Disabling
  <2>4. ActiveInv'  BY <1>1, <2>1 DEF ActiveInv, ModInv
  <2> QED BY <2>3, <2>4 DEF ModInv
<1> QED BY <1>2, <1>3

\* A step that leaves modules, gate and registries alone and suspends no
\* operation inside _enable, _disable or _retire.
LEMMA IdleModInv ==
    ASSUME ModInv, UNCHANGED <<state, started, reg, lifecycle, entries>>,
           pc' \in {"idle", "loop"}
    PROVE  ModInv'
<1>1. CurInv'  BY DEF CurInv, Enabling, Disabling
<1>2. ActiveInv'  BY DEF ActiveInv, ModInv
<1> QED BY <1>1, <1>2 DEF ModInv

LEMMA LoopModInv ==
    TypeInv /\ ModInv /\ (EnableNext \/ DisableNext \/ LoopEnds) => ModInv'
<1> SUFFICES ASSUME TypeInv, ModInv, EnableNext \/ DisableNext \/ LoopEnds PROVE ModInv'
  OBVIOUS
<1>1. CASE EnableNext
  <2>0. pos \in 1..N /\ Order[pos] \in Modules /\ pc = "loop" /\ caller = "enable_all"
    BY <1>1, OrderAssumption DEF EnableNext, Control, TypeInv
  <2>1. CASE BeginEnable(Order[pos], "enable_all")
    <3>1. nextGen[Order[pos]] < MaxGen  BY <2>0 DEF Budget, TypeInv
    <3> QED BY <2>0, <2>1, <3>1, BeginEnableModInv
  <2>2. CASE /\ EnableReturned(Order[pos], TRUE) \/ EnableRaised
             /\ UNCHANGED <<modVars, gateVars, contVars, cur, errors, req>>
    BY <2>0, <2>2, IdleModInv
       DEF EnableReturned, EnableRaised, Idle, modVars, gateVars, contVars
  <2> QED BY <1>1, <2>0, <2>1, <2>2 DEF EnableNext
<1>2. CASE DisableNext
  <2>0. /\ pos \in 1..N /\ Order[pos] \in Modules /\ pc = "loop"
        /\ caller \in {"disable_all", "rollback"}
    BY <1>2, OrderAssumption DEF DisableNext, Control, TypeInv
  <2>1. CASE BeginDisable(Order[pos], caller)  BY <2>0, <2>1, BeginDisableModInv
  <2>2. CASE /\ DisableEnded(TRUE)
             /\ UNCHANGED <<modVars, gateVars, contVars, cur, errors, req>>
    BY <2>0, <2>2, IdleModInv DEF DisableEnded, Idle, modVars, gateVars, contVars
  <2> QED BY <1>2, <2>0, <2>1, <2>2 DEF DisableNext
<1>3. CASE LoopEnds  BY <1>3, IdleModInv DEF LoopEnds, Idle, modVars, gateVars, contVars
<1> QED BY <1>1, <1>2, <1>3

LEMMA RetireStepModInv ==
    TypeInv /\ ModInv /\ (BeginUninstall \/ FinishRetire) => ModInv'
<1> SUFFICES ASSUME TypeInv, ModInv, BeginUninstall \/ FinishRetire PROVE ModInv'  OBVIOUS
<1>0. cur \in Modules /\ GateTypeOK /\ ModTypeOK  BY DEF TypeInv, TypeOK, OpTypeOK
<1>1. CASE BeginUninstall
  <2>1. nextGen[cur] < MaxGen /\ state[cur] \in {"INSTALLED", "DISABLED", "FAILED"} /\ reg[cur] = 0
    BY <1>1 DEF BeginUninstall, TypeInv, Budget, Control, ModInv, CurInv
  <2>2. /\ \A n \in Modules, h \in Gens : lifecycle'[n][h] \in {lifecycle[n][h], "staged"}
        /\ lifecycle'[cur][nextGen'[cur]] = "staged"
    BY <1>0, <1>1, <2>1, ReserveEffect DEF BeginUninstall
  <2>3. /\ state' = [state EXCEPT ![cur] = "UNINSTALLING"]
        /\ pc' = "retire_rollback" /\ cur' = cur
        /\ UNCHANGED <<started, reg, entries>>
    BY <1>1 DEF BeginUninstall, contVars
  <2>4. CurInv'  BY <1>0, <2>2, <2>3 DEF CurInv, Enabling, Disabling, ModTypeOK
  <2>5. ActiveInv'  BY <1>0, <2>1, <2>2, <2>3 DEF ActiveInv, ModInv, ModTypeOK
  <2> QED BY <2>4, <2>5 DEF ModInv
<1>2. CASE FinishRetire
  <2>1. nextGen[cur] \in Gens /\ state[cur] = "UNINSTALLING"
    BY <1>0, <1>2 DEF FinishRetire, TypeInv, Budget, GateTypeOK, ModInv, CurInv
  <2>2. /\ \A n \in Modules, h \in Gens : lifecycle'[n][h] \in {lifecycle[n][h], "absent"}
        /\ \A n \in Modules \ {cur} : entries'[n] = entries[n]
    BY <1>0, <1>2, <2>1, RemoveContributionsEffect DEF FinishRetire
  <2>3. /\ state' = state \/ state' = [state EXCEPT ![cur] = "RETIRED"]
        /\ pc' = "idle"
        /\ UNCHANGED <<started, reg>>
    BY <1>2 DEF FinishRetire, Idle
  <2>4. CurInv'  BY <2>3 DEF CurInv, Enabling, Disabling
  <2>5. /\ \A n \in Modules \ {cur} : state'[n] = state[n]
        /\ state'[cur] \in {"UNINSTALLING", "RETIRED"}
        /\ reg[cur] = 0
    BY <1>0, <2>1, <2>3 DEF ModTypeOK, ModInv, ActiveInv
  <2>6. \A g \in Gens : lifecycle[cur][g] \notin {"active", "draining"}
    BY <1>0, <2>5 DEF ModInv, ActiveInv
  <2>7. ActiveInv'
    <3>1. ASSUME NEW m \in Modules \ {cur}, NEW g \in Gens
          PROVE  /\ state'[m] \notin {"ENABLED", "FAILED"} => reg'[m] = 0
                 /\ lifecycle'[m][g] = "active" =>
                      reg'[m] = g /\ state'[m] = "ENABLED" /\ m \in started' /\ g \in entries'[m]
                 /\ lifecycle'[m][g] = "draining" => reg'[m] = g
      BY <2>2, <2>3, <2>5 DEF ModInv, ActiveInv
    <3>2. \A g \in Gens : lifecycle'[cur][g] \notin {"active", "draining"}
      BY <1>0, <2>2, <2>6
    <3>3. 1 \in Gens  BY BoundsAssumption
    <3> QED BY <2>3, <2>5, <3>1, <3>2, <3>3 DEF ActiveInv
  <2> QED BY <2>4, <2>7 DEF ModInv
<1> QED BY <1>1, <1>2

LEMMA CallModInv ==
    TypeInv /\ ModInv /\ OperationCall => ModInv'
<1> SUFFICES ASSUME TypeInv, ModInv, OperationCall PROVE ModInv'  OBVIOUS
<1>0. state \in [Modules -> ModuleState] /\ cur \in Modules
  BY DEF TypeInv, TypeOK, OpTypeOK, ModTypeOK
<1>1. CASE InstallAll
  <2>1. /\ \A m \in Modules : state'[m] = IF state[m] = "AVAILABLE" THEN "INSTALLED" ELSE state[m]
        /\ UNCHANGED <<started, reg, lifecycle, nextGen, entries, pc, cur>>
    BY <1>1 DEF InstallAll, gateVars, contVars, opVars
  <2>2. CurInv'
    BY <1>0, <2>1, DepsAssumption DEF ModInv, CurInv, Enabling, Disabling, DependenciesActive
  <2>3. ActiveInv'  BY <1>0, <2>1 DEF ModInv, ActiveInv
  <2> QED BY <2>2, <2>3 DEF ModInv
<1>2. CASE EnableAll \/ DisableAll
  BY <1>2, IdleModInv DEF EnableAll, DisableAll, modVars, gateVars, contVars
<1>4. ASSUME NEW m \in Modules, Enable(m) PROVE ModInv'
  BY <1>4, BeginEnableModInv DEF Enable, Activable
<1>5. ASSUME NEW m \in Modules, Disable(m) PROVE ModInv'
  BY <1>5, BeginDisableModInv DEF Disable
<1>6. ASSUME NEW m \in Modules, Retire(m) PROVE ModInv'
  <2>1. CASE BeginDisable(m, "retire")  BY <2>1, BeginDisableModInv
  <2>2. CASE ~BeginDisable(m, "retire")
    <3>1. /\ state[m] \in {"INSTALLED", "DISABLED", "FAILED"} /\ NothingToDisable(m)
          /\ pc' = "retire" /\ cur' = m
          /\ UNCHANGED <<state, started, reg, lifecycle, entries>>
      BY <1>6, <2>2 DEF Retire, modVars, gateVars, contVars
    <3>2. reg[m] = 0  BY <3>1 DEF NothingToDisable, ModInv, ActiveInv
    <3>3. CurInv'  BY <3>1, <3>2 DEF CurInv, Enabling, Disabling
    <3>4. ActiveInv'  BY <3>1 DEF ModInv, ActiveInv
    <3> QED BY <3>3, <3>4 DEF ModInv
  <2> QED BY <2>1, <2>2
<1>7. ASSUME NEW m \in Modules, Replace(m) PROVE ModInv'
  <2>1. /\ state' = [state EXCEPT ![m] = "INSTALLED"]
        /\ state[m] \in {"DISABLED", "INSTALLED"} /\ reg[m] = 0
        /\ pc = "idle" \/ cur # m
        /\ UNCHANGED <<started, reg, lifecycle, nextGen, entries, pc, cur>>
    BY <1>7 DEF Replace, LockFree, gateVars, contVars
  <2>2. CurInv'  BY <1>0, <2>1 DEF ModInv, CurInv, Enabling, Disabling, DependenciesActive
  <2>3. ActiveInv'  BY <1>0, <2>1 DEF ModInv, ActiveInv
  <2> QED BY <2>2, <2>3 DEF ModInv
<1> QED BY <1>1, <1>2, <1>4, <1>5, <1>6, <1>7 DEF OperationCall

LEMMA RequestModInv ==
    ASSUME ModInv, RequestStep \/ UNCHANGED vars
    PROVE  ModInv'
<1>1. UNCHANGED <<state, started, reg, lifecycle, nextGen, entries, pc, cur>>
  BY DEF RequestStep, Resolve, Admit, Leave, vars, modVars, gateVars, contVars, opVars
<1>2. CurInv'  BY <1>1 DEF ModInv, CurInv, Enabling, Disabling, DependenciesActive
<1>3. ActiveInv'  BY <1>1 DEF ModInv, ActiveInv
<1> QED BY <1>2, <1>3 DEF ModInv

LEMMA NextModInv == TypeInv /\ ModInv /\ [Next]_vars => ModInv'
BY EnableStepModInv, DisableStepModInv, LoopModInv, RetireStepModInv, CallModInv,
   RequestModInv DEF Next, OperationStep

\* A generation that registries, routers and active_generation may resolve is
\* the module's registered one, and the module is ENABLED and started.
THEOREM ActiveRegistered == Spec => []ActiveIsRegistered
<1>1. Spec => [](TypeInv /\ ModInv)
  BY InitTypeInv, NextTypeInv, InitModInv, NextModInv, PTL DEF Spec
<1>2. ModInv => ActiveIsRegistered  BY DEF ModInv, ActiveInv, ActiveIsRegistered, IsActive
<1> QED BY <1>1, <1>2, PTL

-----------------------------------------------------------------------------
(* Enabled modules have enabled dependencies, and a failed enable_all      *)
(* leaves nothing enabled that was not enabled before.  Both need that     *)
(* replace() does not run while the lifecycle lock is held.                *)

EnabledSet == {m \in Modules : state[m] = "ENABLED"}

\* Which modules are ENABLED while a loop is under way.
LoopInv ==
    /\ caller = "disable_all" => \A i \in 1..N : i > pos => Order[i] \notin EnabledSet
    /\ caller \in {"enable_all", "rollback"} =>
         /\ before \subseteq EnabledSet
         /\ EnabledSet \subseteq before \cup fresh
         /\ \A m \in before : Deps[m] \subseteq before
         /\ fresh \cap before = {}
    /\ caller = "enable_all" =>
         /\ stale = {}
         /\ \A i \in 1..N : Order[i] \in fresh => i < pos
    /\ caller = "rollback" =>
         /\ \A i \in 1..N : i > pos /\ Order[i] \in EnabledSet => Order[i] \in before
         /\ Disabling => cur \in fresh

DependentInv ==
    /\ \A m \in EnabledSet : Deps[m] \subseteq EnabledSet
    /\ caller \in {"disable", "retire"} /\ Disabling => \A m \in EnabledSet : cur \notin Deps[m]

DepInv == DependentInv /\ LoopInv

LEMMA InitDepInv == Init => DepInv
BY DEF Init, DepInv, DependentInv, LoopInv, EnabledSet, Disabling

\* While a module is being disabled no enabled module depends on it.
LEMMA NoEnabledDependents ==
    ASSUME TypeInv, DepInv, Disabling
    PROVE  \A m \in EnabledSet : cur \notin Deps[m]
<1> SUFFICES ASSUME NEW m \in EnabledSet, cur \in Deps[m] PROVE FALSE  OBVIOUS
<1>0. /\ caller \in {"disable_all", "rollback"}
      /\ pos \in 1..N /\ cur = Order[pos]
  BY DEF DepInv, DependentInv, TypeInv, Control, Disabling
<1>1. PICK i \in 1..N : Order[i] = m  BY OrderAssumption DEF EnabledSet
<1>2. i > pos  BY <1>0, <1>1, OrderAssumption, DepsAssumption
<1>3. CASE caller = "disable_all"  BY <1>1, <1>2, <1>3 DEF DepInv, LoopInv
<1>4. CASE caller = "rollback"
  <2>1. m \in before /\ cur \in fresh  BY <1>1, <1>2, <1>4 DEF DepInv, LoopInv
  <2>2. cur \in before  BY <1>4, <2>1 DEF DepInv, LoopInv
  <2> QED BY <1>4, <2>1, <2>2 DEF DepInv, LoopInv
<1> QED BY <1>0, <1>3, <1>4

\* A step that leaves the operation where it is and enables or disables nothing.
LEMMA SameDepInv ==
    ASSUME DepInv, EnabledSet' = EnabledSet, UNCHANGED <<caller, cur, pos, fresh, stale, before>>,
           Disabling' => Disabling
    PROVE  DepInv'
<1>1. DependentInv'  BY DEF DepInv, DependentInv
<1>2. LoopInv'  BY DEF DepInv, LoopInv
<1> QED BY <1>1, <1>2 DEF DepInv

\* _enable of the module returned to its caller after it became ENABLED.
LEMMA PublishDepInv ==
    ASSUME TypeInv, ModInv, DepInv, PublishModule
    PROVE  DepInv'
<1>0. cur \in Modules /\ state \in [Modules -> ModuleState] /\ fresh \in SUBSET Modules
  BY DEF TypeInv, TypeOK, OpTypeOK, ModTypeOK
<1>1. cur \notin EnabledSet /\ Deps[cur] \subseteq EnabledSet
  BY DepsAssumption, <1>0 DEF PublishModule, ModInv, CurInv, Enabling, DependenciesActive, EnabledSet
<1>2. EnabledSet' = EnabledSet \cup {cur}  BY <1>0 DEF PublishModule, EnabledSet
<1>3. state'[cur] = "ENABLED" /\ pc' \in {"idle", "loop"} /\ caller' \in {"none", "enable_all"}
  BY <1>0 DEF PublishModule, EnableReturned, Idle
<1>4. DependentInv'  BY <1>1, <1>2, <1>3 DEF DepInv, DependentInv, Disabling
<1>5. CASE caller = "enable"
  <2>1. caller' = "none"  BY <1>5 DEF PublishModule, EnableReturned, Idle
  <2> QED BY <1>4, <2>1 DEF DepInv, LoopInv
<1>6. CASE caller = "enable_all"
  <2>1. /\ pos \in 1..N /\ cur = Order[pos] /\ pos' = pos + 1
        /\ caller' = "enable_all" /\ stale' = stale /\ before' = before
        /\ fresh' = fresh \cup {cur}
    BY <1>3, <1>6 DEF PublishModule, EnableReturned, Idle, TypeInv, Control, DepInv, LoopInv
  <2>2. /\ before \subseteq EnabledSet
        /\ EnabledSet \subseteq before \cup fresh
        /\ \A m \in before : Deps[m] \subseteq before
        /\ fresh \cap before = {}
        /\ stale = {}
        /\ \A i \in 1..N : Order[i] \in fresh => i < pos
    BY <1>6 DEF DepInv, LoopInv
  <2>3. \A i \in 1..N : Order[i] \in fresh' => i < pos'  BY <2>1, <2>2, OrderAssumption
  <2>4. LoopInv'  BY <1>1, <1>2, <2>1, <2>2, <2>3 DEF LoopInv
  <2> QED BY <1>4, <2>4 DEF DepInv
<1> QED BY <1>5, <1>6 DEF PublishModule, TypeInv, Control, Enabling

\* _enable raised: the module is FAILED, or it was RETIRED.
LEMMA RaisedDepInv ==
    ASSUME TypeInv, DepInv, caller \in {"enable", "enable_all"}, EnableRaised,
           EnabledSet' = EnabledSet, cur' = cur,
           caller = "enable_all" => pos \in 1..N /\ Order[pos] \notin EnabledSet
    PROVE  DepInv'
<1>1. pc' \in {"idle", "loop"}  BY DEF EnableRaised, Idle
<1>2. DependentInv'  BY <1>1 DEF DepInv, DependentInv, Disabling
<1>3. CASE caller = "enable"
  <2>1. caller' = "none"  BY <1>3 DEF EnableRaised, Idle
  <2> QED BY <1>2, <2>1 DEF DepInv, LoopInv
<1>4. CASE caller = "enable_all"
  <2>1. caller' = "rollback" /\ pos' = pos - 1 /\ UNCHANGED <<fresh, stale, before>>
    BY <1>4 DEF EnableRaised
  <2>2. \A i \in 1..N : i > pos' /\ Order[i] \in EnabledSet => Order[i] \in before
    <3> SUFFICES ASSUME NEW i \in 1..N, i > pos - 1, Order[i] \in EnabledSet
                 PROVE  Order[i] \in before
      BY <2>1
    <3>1. Order[i] \in before \cup fresh  BY <1>4 DEF DepInv, LoopInv
    <3>2. Order[i] \notin fresh  BY <1>4 DEF DepInv, LoopInv
    <3> QED BY <3>1, <3>2
  <2>3. ~Disabling'  BY <1>1 DEF Disabling
  <2>4. LoopInv'  BY <1>4, <2>1, <2>2, <2>3 DEF DepInv, LoopInv
  <2> QED BY <1>2, <2>4 DEF DepInv
<1> QED BY <1>3, <1>4

\* _disable of cur ended, whatever its outcome: cur is not ENABLED any more.
LEMMA DisabledDepInv ==
    ASSUME TypeInv, DepInv, Disabling, EnabledSet' = EnabledSet \ {cur}, cur' = cur,
           NEW ok, DisableEnded(ok)
    PROVE  DepInv'
<1>0. \A m \in EnabledSet : cur \notin Deps[m]  BY NoEnabledDependents
<1>1. ~Disabling'  BY DEF DisableEnded, Idle, Disabling
<1>2. DependentInv'  BY <1>0, <1>1 DEF DepInv, DependentInv
<1>3. CASE caller \in {"disable", "retire"}
  <2>1. caller' \in {"none", "retire"}  BY <1>3 DEF DisableEnded, Idle
  <2> QED BY <1>2, <2>1 DEF DepInv, LoopInv
<1>4. CASE caller \in {"disable_all", "rollback"}
  <2>1. /\ pos \in 1..N /\ cur = Order[pos] /\ pos' = pos - 1
        /\ UNCHANGED <<caller, fresh, stale, before>>
    BY <1>4 DEF DisableEnded, Idle, TypeInv, Control, Disabling
  <2>2. \A i \in 1..N : i > pos' => i > pos \/ i = pos  BY <2>1
  <2>3. CASE caller = "disable_all"  BY <1>2, <2>1, <2>2, <2>3 DEF DepInv, LoopInv
  <2>4. CASE caller = "rollback"  BY <1>1, <1>2, <2>1, <2>2, <2>4 DEF DepInv, LoopInv
  <2> QED BY <1>4, <2>3, <2>4
<1> QED BY <1>3, <1>4 DEF TypeInv, Control

LEMMA StepDepInv ==
    TypeInv /\ ModInv /\ DepInv
      /\ (\/ RegisterModule \/ StartModule \/ PublishModule \/ PublishFails
          \/ UndoStop \/ UndoRemove
          \/ Drained \/ DrainFails \/ StopModule \/ RemoveModule \/ RemoveFails)
    => DepInv'
<1> SUFFICES ASSUME TypeInv, ModInv, DepInv,
                    \/ RegisterModule \/ StartModule \/ PublishModule \/ PublishFails
                    \/ UndoStop \/ UndoRemove
                    \/ Drained \/ DrainFails \/ StopModule \/ RemoveModule \/ RemoveFails
             PROVE  DepInv'
  OBVIOUS
<1>0. cur \in Modules /\ state \in [Modules -> ModuleState]
  BY DEF TypeInv, TypeOK, OpTypeOK, ModTypeOK
<1>1. CASE RegisterModule \/ StartModule \/ PublishFails \/ UndoStop \/ Drained \/ StopModule
  BY <1>1, SameDepInv
     DEF RegisterModule, StartModule, PublishFails, UndoStop, Drained, StopModule, AfterDrain,
         Disabling, EnabledSet, modVars, loopVars
<1>2. CASE PublishModule  BY <1>2, PublishDepInv
<1>3. CASE UndoRemove
  <2>1. /\ caller \in {"enable", "enable_all"}
        /\ caller = "enable_all" => pos \in 1..N /\ Order[pos] = cur
    BY <1>3 DEF UndoRemove, TypeInv, Control, Enabling
  <2>2. cur \notin EnabledSet  BY <1>3 DEF UndoRemove, ModInv, CurInv, Enabling, EnabledSet
  <2>3. EnabledSet' = EnabledSet /\ cur' = cur  BY <1>0, <1>3, <2>2 DEF UndoRemove, EnabledSet
  <2> QED BY <1>3, <2>1, <2>2, <2>3, RaisedDepInv DEF UndoRemove
<1>4. CASE DrainFails \/ RemoveModule \/ RemoveFails
  <2>1. Disabling /\ cur' = cur  BY <1>4 DEF DrainFails, RemoveModule, RemoveFails, Disabling
  <2>2. EnabledSet' = EnabledSet \ {cur}
    BY <1>0, <1>4 DEF DrainFails, RemoveModule, RemoveFails, Conclude, EnabledSet
  <2>3. DisableEnded(FALSE) \/ DisableEnded(errors = {})
    BY <1>4 DEF DrainFails, RemoveModule, RemoveFails, Conclude
  <2> QED BY <2>1, <2>2, <2>3, DisabledDepInv
<1> QED BY <1>1, <1>2, <1>3, <1>4

\* _disable begins on a module no enabled module depends on.
LEMMA BeginDisableDepInv ==
    ASSUME TypeInv, DepInv, NEW m \in Modules,
           NEW who \in {"disable", "disable_all", "rollback", "retire"}, BeginDisable(m, who),
           who \in {"disable", "retire"} => EnabledDependents(m) = {} /\ caller = "none",
           who \in {"disable_all", "rollback"} => who = caller,
           who = "rollback" => m \in fresh
    PROVE  DepInv'
<1>1. /\ cur' = m /\ caller' = who
      /\ EnabledSet' = EnabledSet /\ UNCHANGED <<pos, fresh, stale, before>>
  BY DEF BeginDisable, modVars, loopVars, EnabledSet
<1>2. DependentInv'
  BY <1>1, DepsAssumption DEF DepInv, DependentInv, EnabledDependents, EnabledSet
<1>3. LoopInv'  BY <1>1 DEF DepInv, LoopInv
<1> QED BY <1>2, <1>3 DEF DepInv

LEMMA LoopDepInv ==
    TypeInv /\ DepInv /\ (EnableNext \/ DisableNext \/ LoopEnds) => DepInv'
<1> SUFFICES ASSUME TypeInv, DepInv, EnableNext \/ DisableNext \/ LoopEnds PROVE DepInv'
  OBVIOUS
<1>1. CASE EnableNext
  <2>0. pos \in 1..N /\ Order[pos] \in Modules /\ pc = "loop" /\ caller = "enable_all"
    BY <1>1, OrderAssumption DEF EnableNext, Control, TypeInv
  <2>1. CASE BeginEnable(Order[pos], "enable_all")
    <3>1. /\ EnabledSet' = EnabledSet /\ UNCHANGED <<caller, pos, fresh, stale, before>>
          /\ ~Disabling'
      BY <2>0, <2>1 DEF BeginEnable, modVars, loopVars, EnabledSet, Disabling
    <3>2. DependentInv' /\ LoopInv'  BY <2>0, <3>1 DEF DepInv, DependentInv, LoopInv
    <3> QED BY <3>2 DEF DepInv
  <2>2. CASE /\ state[Order[pos]] \notin {"INSTALLED", "DISABLED", "RETIRED"}
             /\ EnableReturned(Order[pos], TRUE)
             /\ UNCHANGED <<modVars, gateVars, contVars, cur, errors, req>>
    <3>1. /\ EnabledSet' = EnabledSet /\ UNCHANGED <<caller, fresh, stale, before>>
          /\ pos' = pos + 1 /\ ~Disabling'
      BY <2>0, <2>2 DEF EnableReturned, Idle, modVars, EnabledSet, Disabling
    <3>2. DependentInv' /\ LoopInv'  BY <2>0, <3>1 DEF DepInv, DependentInv, LoopInv
    <3> QED BY <3>2 DEF DepInv
  <2>3. CASE /\ state[Order[pos]] = "RETIRED"
             /\ EnableRaised
             /\ UNCHANGED <<modVars, gateVars, contVars, cur, errors, req>>
    BY <2>0, <2>3, RaisedDepInv DEF modVars, EnabledSet
  <2> QED BY <1>1, <2>0, <2>1, <2>2, <2>3 DEF EnableNext
<1>2. CASE DisableNext
  <2>0. /\ pos \in 1..N /\ Order[pos] \in Modules /\ pc = "loop"
        /\ caller \in {"disable_all", "rollback"}
    BY <1>2, OrderAssumption DEF DisableNext, Control, TypeInv
  <2>1. CASE BeginDisable(Order[pos], caller) /\ (caller = "rollback" => Order[pos] \in fresh)
    BY <2>0, <2>1, BeginDisableDepInv
  <2>2. CASE /\ NothingToDisable(Order[pos]) \/ (caller = "rollback" /\ Order[pos] \notin fresh)
             /\ DisableEnded(TRUE)
             /\ UNCHANGED <<modVars, gateVars, contVars, cur, errors, req>>
    <3>1. /\ EnabledSet' = EnabledSet /\ UNCHANGED <<caller, fresh, stale, before>>
          /\ pos' = pos - 1 /\ ~Disabling'
      BY <2>0, <2>2 DEF DisableEnded, Idle, modVars, EnabledSet, Disabling
    <3>2. \/ Order[pos] \notin EnabledSet
          \/ caller = "rollback" /\ Order[pos] \notin fresh
      BY <2>2 DEF NothingToDisable, EnabledSet
    <3>3. \A i \in 1..N : i > pos' => i > pos \/ i = pos  BY <2>0, <3>1
    <3>4. DependentInv'  BY <2>0, <3>1 DEF DepInv, DependentInv
    <3>5. CASE caller = "disable_all"  BY <3>1, <3>2, <3>3, <3>4, <3>5 DEF DepInv, LoopInv
    <3>6. CASE caller = "rollback"  BY <3>1, <3>2, <3>3, <3>4, <3>6 DEF DepInv, LoopInv
    <3> QED BY <2>0, <3>5, <3>6
  <2> QED BY <1>2, <2>0, <2>1, <2>2 DEF DisableNext
<1>3. CASE LoopEnds
  <2>1. EnabledSet' = EnabledSet /\ caller' = "none"
    BY <1>3 DEF LoopEnds, Idle, modVars, EnabledSet
  <2> QED BY <2>1 DEF DepInv, DependentInv, LoopInv
<1> QED BY <1>1, <1>2, <1>3

LEMMA RetireStepDepInv ==
    TypeInv /\ ModInv /\ DepInv /\ (BeginUninstall \/ FinishRetire) => DepInv'
<1> SUFFICES ASSUME TypeInv, ModInv, DepInv, BeginUninstall \/ FinishRetire PROVE DepInv'
  OBVIOUS
<1>0. cur \in Modules /\ state \in [Modules -> ModuleState] /\ caller = "retire"
  BY DEF TypeInv, TypeOK, OpTypeOK, ModTypeOK, Control, BeginUninstall, FinishRetire
<1>1. cur \notin EnabledSet  BY DEF ModInv, CurInv, BeginUninstall, FinishRetire, EnabledSet
<1>2. EnabledSet' = EnabledSet  BY <1>0, <1>1 DEF BeginUninstall, FinishRetire, EnabledSet
<1>3. caller' \in {"none", "retire"} /\ ~Disabling'
  BY <1>0 DEF BeginUninstall, FinishRetire, Idle, Disabling
<1> QED BY <1>2, <1>3 DEF DepInv, DependentInv, LoopInv

LEMMA CallDepInv ==
    TypeInv /\ DepInv /\ OperationCall /\ ~ReplaceUnderLock => DepInv'
<1> SUFFICES ASSUME TypeInv, DepInv, OperationCall, ~ReplaceUnderLock PROVE DepInv'  OBVIOUS
<1>0. state \in [Modules -> ModuleState]  BY DEF TypeInv, TypeOK, ModTypeOK
<1>1. CASE InstallAll
  <2>1. EnabledSet' = EnabledSet  BY <1>0, <1>1 DEF InstallAll, EnabledSet
  <2> QED BY <1>1, <2>1, SameDepInv DEF InstallAll, opVars, loopVars, Disabling
<1>2. CASE EnableAll
  <2>1. /\ EnabledSet' = EnabledSet /\ caller' = "enable_all" /\ pc' = "loop"
        /\ before' = EnabledSet /\ fresh' = {} /\ stale' = {}
    BY <1>2 DEF EnableAll, modVars, EnabledSet
  <2> QED BY <2>1 DEF DepInv, DependentInv, LoopInv, Disabling
<1>3. CASE DisableAll
  <2>1. EnabledSet' = EnabledSet /\ caller' = "disable_all" /\ pc' = "loop" /\ pos' = N
    BY <1>3 DEF DisableAll, modVars, EnabledSet
  <2> QED BY <2>1, OrderAssumption DEF DepInv, DependentInv, LoopInv, Disabling
<1>4. ASSUME NEW m \in Modules, Enable(m) PROVE DepInv'
  <2>1. EnabledSet' = EnabledSet /\ caller' = "enable"
    BY <1>4 DEF Enable, BeginEnable, modVars, EnabledSet
  <2> QED BY <2>1 DEF DepInv, DependentInv, LoopInv
<1>5. ASSUME NEW m \in Modules, Disable(m) PROVE DepInv'
  BY <1>5, BeginDisableDepInv DEF Disable, LockFree, TypeInv, Control
<1>6. ASSUME NEW m \in Modules, Retire(m) PROVE DepInv'
  <2>1. CASE BeginDisable(m, "retire")
    BY <1>6, <2>1, BeginDisableDepInv DEF Retire, LockFree, TypeInv, Control
  <2>2. CASE ~BeginDisable(m, "retire")
    <3>1. EnabledSet' = EnabledSet /\ caller' = "retire" /\ pc' = "retire"
      BY <1>6, <2>2 DEF Retire, modVars, EnabledSet
    <3> QED BY <3>1 DEF DepInv, DependentInv, LoopInv, Disabling
  <2> QED BY <2>1, <2>2
<1>7. ASSUME NEW m \in Modules, Replace(m) PROVE DepInv'
  <2>1. caller = "none" /\ UNCHANGED <<caller, cur, pos, fresh, stale, before, pc>>
    BY <1>7 DEF Replace, LockFree, TypeInv, Control
  <2>2. EnabledSet' = EnabledSet  BY <1>0, <1>7 DEF Replace, EnabledSet
  <2> QED BY <2>1, <2>2, SameDepInv DEF Disabling
<1> QED BY <1>1, <1>2, <1>3, <1>4, <1>5, <1>6, <1>7 DEF OperationCall

LEMMA RequestDepInv ==
    ASSUME DepInv, RequestStep \/ UNCHANGED vars
    PROVE  DepInv'
<1>1. UNCHANGED <<state, caller, cur, pos, fresh, stale, before, pc>>
  BY DEF RequestStep, Resolve, Admit, Leave, vars, modVars, opVars, loopVars
<1>2. EnabledSet' = EnabledSet  BY <1>1 DEF EnabledSet
<1> QED BY <1>1, <1>2, SameDepInv DEF Disabling

LEMMA NextDepInv ==
    ~ReplaceUnderLock /\ TypeInv /\ ModInv /\ DepInv /\ [Next]_vars => DepInv'
BY StepDepInv, LoopDepInv, RetireStepDepInv, CallDepInv, RequestDepInv DEF Next, OperationStep

\* At every await of every lifecycle operation, and whatever fails, an ENABLED
\* module has all its dependencies ENABLED, provided replace() is not called
\* while an operation holds the lifecycle lock.
THEOREM DependenciesEnabled ==
    ASSUME ~ReplaceUnderLock
    PROVE  Spec => []EnabledDependenciesEnabled
<1>1. Spec => [](TypeInv /\ ModInv /\ DepInv)
  <2>1. Init => TypeInv /\ ModInv /\ DepInv  BY InitTypeInv, InitModInv, InitDepInv
  <2>2. TypeInv /\ ModInv /\ DepInv /\ [Next]_vars => (TypeInv /\ ModInv /\ DepInv)'
    BY NextTypeInv, NextModInv, NextDepInv
  <2> QED BY <2>1, <2>2, PTL DEF Spec
<1>2. DepInv => EnabledDependenciesEnabled
  BY DepsAssumption
     DEF DepInv, DependentInv, EnabledSet, EnabledDependenciesEnabled, DependenciesActive
<1> QED BY <1>1, <1>2, PTL

\* A failed enable_all leaves no module ENABLED that was not ENABLED before it,
\* under the same proviso.
THEOREM EnableAllAtomic ==
    ASSUME ~ReplaceUnderLock
    PROVE  Spec => EnableAllRollsBack
<1> DEFINE Ends == caller = "rollback" /\ caller' = "none" =>
                     \A m \in Modules : state'[m] = "ENABLED" => m \in before
<1>1. Spec => [](TypeInv /\ ModInv /\ DepInv)
  <2>1. Init => TypeInv /\ ModInv /\ DepInv  BY InitTypeInv, InitModInv, InitDepInv
  <2>2. TypeInv /\ ModInv /\ DepInv /\ [Next]_vars => (TypeInv /\ ModInv /\ DepInv)'
    BY NextTypeInv, NextModInv, NextDepInv
  <2> QED BY <2>1, <2>2, PTL DEF Spec
<1>2. ASSUME TypeInv, DepInv, Next, caller = "rollback", caller' = "none",
             NEW m \in Modules, state'[m] = "ENABLED"
      PROVE  m \in before
  <2>1. LoopEnds
    <3>1. CASE OperationStep
      BY <1>2, <3>1
         DEF OperationStep, RegisterModule, StartModule, PublishModule, EnableReturned,
             PublishFails, UndoStop, UndoRemove, EnableRaised, Drained, DrainFails, StopModule,
             RemoveModule, Conclude, RemoveFails, DisableEnded, EnableNext, DisableNext,
             BeginDisable, BeginUninstall, FinishRetire, TypeInv, Control, Enabling
    <3>2. CASE OperationCall
      BY <1>2, <3>2
         DEF OperationCall, InstallAll, EnableAll, DisableAll, Enable, Disable, Retire, Replace,
             LockFree, TypeInv, Control, opVars
    <3>3. CASE RequestStep  BY <1>2, <3>3 DEF RequestStep, Resolve, Admit, Leave, opVars
    <3> QED BY <1>2, <3>1, <3>2, <3>3 DEF Next
  <2>2. pos = 0 /\ m \in EnabledSet
    BY <1>2, <2>1, OrderAssumption DEF LoopEnds, TypeInv, Control, modVars, EnabledSet
  <2>3. PICK i \in 1..N : Order[i] = m  BY OrderAssumption
  <2> QED BY <1>2, <2>2, <2>3 DEF DepInv, LoopInv
<1>3. TypeInv /\ DepInv /\ [Next]_vars => [Ends]_vars  BY <1>2 DEF Ends
<1>4. EnableAllRollsBack <=> [][Ends]_vars  BY DEF EnableAllRollsBack
<1> QED BY <1>1, <1>3, <1>4, PTL DEF Spec

-----------------------------------------------------------------------------
(* Admitted work is protected until it leaves.                             *)

Holders(m, g) == {r \in Requests : req[r].pc = "admitted" /\ <<m, g>> \in req[r].leases}

\* The generations that admitted requests hold.
Held(m, g) == \E r \in Requests : req[r].pc = "admitted" /\ <<m, g>> \in req[r].leases

HeldInv ==
    \A m \in Modules, g \in Gens : Held(m, g) =>
        /\ lifecycle[m][g] \in {"active", "draining"}
        /\ m \in started
        /\ g \in entries[m]

WorkInv == InFlightCounts /\ HeldInv

LEMMA InitWorkInv == Init => WorkInv
<1> SUFFICES ASSUME Init PROVE WorkInv  OBVIOUS
<1>1. \A m \in Modules, g \in Gens : Holders(m, g) = {}  BY DEF Init, Holders
<1>2. InFlightCounts  BY <1>1, FS_EmptySet DEF InFlightCounts, Holders, Init
<1>3. HeldInv  BY DEF Init, HeldInv, Held
<1> QED BY <1>2, <1>3 DEF WorkInv

\* A drained generation is held by nobody.
LEMMA DrainedNotHeld ==
    ASSUME InFlightCounts, NEW m \in Modules, NEW g \in Gens, inFlight[m][g] = 0
    PROVE  ~Held(m, g)
<1>1. Cardinality(Holders(m, g)) = 0  BY DEF InFlightCounts, Holders
<1>2. IsFiniteSet(Holders(m, g))  BY BoundsAssumption, FS_Subset DEF Holders
<1>3. Holders(m, g) = {}  BY <1>1, <1>2, FS_EmptySet
<1> QED BY <1>3 DEF Held, Holders

\* A module with a held generation is registered with it, so it is neither
\* inactive nor at work inside _enable or past the drain of _disable.
LEMMA HeldIsRegistered ==
    ASSUME TypeInv, ModInv, HeldInv, NEW m \in Modules, NEW g \in Gens, Held(m, g)
    PROVE  /\ reg[m] = g
           /\ state[m] \in {"ENABLED", "FAILED"}
           /\ g <= nextGen[m]
           /\ cur = m => ~Enabling /\ pc \notin {"stop", "remove", "retire_rollback", "retire"}
<1>1. lifecycle[m][g] \in {"active", "draining"}  BY DEF HeldInv
<1>2. reg[m] = g  BY <1>1 DEF ModInv, ActiveInv
<1>3. state[m] \in {"ENABLED", "FAILED"}
  <2>1. reg[m] # 0  BY <1>2, BoundsAssumption
  <2> QED BY <2>1 DEF ModInv, ActiveInv
<1>4. g <= nextGen[m]  BY <1>2 DEF TypeInv, Budget
<1>5. ASSUME cur = m PROVE ~Enabling /\ pc \notin {"stop", "remove", "retire_rollback", "retire"}
  <2>1. reg[m] # 0  BY <1>2, BoundsAssumption
  <2> QED BY <1>1, <1>3, <1>5, <2>1 DEF ModInv, CurInv
<1> QED BY <1>2, <1>3, <1>4, <1>5

\* Steps of the operations hold no request and release none.
LEMMA OperationInFlight ==
    ASSUME InFlightCounts, UNCHANGED <<inFlight, req>>
    PROVE  InFlightCounts'
BY DEF InFlightCounts

\* No step of an operation takes a held generation out of the gate or of the
\* registries, or stops its module.
LEMMA OperationHeldInv ==
    ASSUME TypeInv, ModInv, WorkInv, OperationStep \/ OperationCall
    PROVE  HeldInv'
<1>0. UNCHANGED req
  BY DEF OperationStep, OperationCall, RegisterModule, StartModule, PublishModule, PublishFails,
         UndoStop, UndoRemove, Drained, DrainFails, StopModule, RemoveModule, RemoveFails,
         EnableNext, DisableNext, LoopEnds, BeginUninstall, FinishRetire, InstallAll, EnableAll,
         DisableAll, Enable, Disable, Retire, Replace, BeginEnable, BeginDisable
<1> SUFFICES ASSUME NEW m \in Modules, NEW g \in Gens, Held(m, g)
             PROVE  /\ lifecycle'[m][g] \in {"active", "draining"}
                    /\ m \in started'
                    /\ g \in entries'[m]
  BY <1>0 DEF HeldInv, Held
<1>1. /\ lifecycle[m][g] \in {"active", "draining"}
      /\ m \in started
      /\ g \in entries[m]
  BY DEF WorkInv, HeldInv
<1>2. /\ reg[m] = g
      /\ state[m] \in {"ENABLED", "FAILED"}
      /\ g <= nextGen[m]
      /\ cur = m => ~Enabling /\ pc \notin {"stop", "remove", "retire_rollback", "retire"}
  BY HeldIsRegistered DEF WorkInv
<1>3. cur \in Modules /\ GateTypeOK /\ ModTypeOK  BY DEF TypeInv, TypeOK, OpTypeOK
<1> USE DEF modVars, gateVars, contVars, loopVars, opVars
<1>4. ASSUME NEW n \in Modules, Reserve(n), nextGen[n] < MaxGen
      PROVE  lifecycle'[m][g] = lifecycle[m][g]
  BY <1>2, <1>3, <1>4 DEF Reserve, GateTypeOK
<1>5. ASSUME NEW n \in Modules, NEW h \in Gens, RemoveContributions(n, h), n # m
      PROVE  lifecycle'[m][g] = lifecycle[m][g] /\ entries'[m] = entries[m]
  BY <1>3, <1>5 DEF RemoveContributions, GateTypeOK
<1>6. ASSUME NEW n \in Modules, NEW who, BeginDisable(n, who)
      PROVE  /\ lifecycle'[m][g] \in {lifecycle[m][g], "draining"}
             /\ UNCHANGED <<started, entries>>
  <2>1. \/ lifecycle' = lifecycle
        \/ Registered(n) /\ lifecycle' = [lifecycle EXCEPT ![n][reg[n]] = "draining"]
    BY <1>6 DEF BeginDisable
  <2>2. UNCHANGED <<started, entries>>  BY <1>6 DEF BeginDisable
  <2>3. lifecycle'[m][g] \in {lifecycle[m][g], "draining"}
    <3>1. lifecycle \in [Modules -> [Gens -> ContributionState]]  BY <1>3 DEF GateTypeOK
    <3>2. \A h \in Gens : [lifecycle EXCEPT ![n][h] = "draining"][m][g] \in {lifecycle[m][g], "draining"}
      BY <3>1
    <3> QED BY <2>1, <3>2 DEF Registered
  <2> QED BY <2>2, <2>3
<1>7. CASE RegisterModule  BY <1>1, <1>2, <1>3, <1>7 DEF RegisterModule, GateTypeOK
<1>8. CASE StartModule \/ PublishFails \/ DrainFails \/ LoopEnds \/ InstallAll \/ EnableAll \/ DisableAll
  BY <1>1, <1>8 DEF StartModule, PublishFails, DrainFails, LoopEnds, InstallAll, EnableAll, DisableAll
<1>9. CASE PublishModule
  <2>1. cur # m  BY <1>2, <1>9 DEF PublishModule, Enabling
  <2> QED BY <1>1, <1>3, <1>9, <2>1 DEF PublishModule, GateTypeOK
<1>10. CASE UndoStop
  <2>1. cur # m  BY <1>2, <1>10 DEF UndoStop, Enabling
  <2> QED BY <1>1, <1>10, <2>1 DEF UndoStop
<1>11. CASE UndoRemove
  <2>1. cur # m /\ nextGen[cur] \in Gens
    BY <1>2, <1>3, <1>11 DEF UndoRemove, Enabling, TypeInv, Budget, GateTypeOK
  <2> QED BY <1>1, <1>3, <1>5, <1>11, <2>1 DEF UndoRemove
<1>12. CASE Drained
  <2>1. m # cur
    <3> SUFFICES ASSUME m = cur PROVE FALSE  OBVIOUS
    <3>1. inFlight[m][g] = 0  BY <1>2, <1>12 DEF Drained
    <3> QED BY <3>1, DrainedNotHeld DEF WorkInv
  <2> QED BY <1>1, <1>3, <1>12, <2>1 DEF Drained, GateTypeOK
<1>13. CASE StopModule
  <2>1. cur # m  BY <1>2, <1>13 DEF StopModule
  <2> QED BY <1>1, <1>13, <2>1 DEF StopModule
<1>14. CASE RemoveModule
  <2>1. cur # m  BY <1>2, <1>14 DEF RemoveModule
  <2>2. CASE Registered(cur) /\ RemoveContributions(cur, reg[cur])
    BY <1>1, <1>3, <1>5, <1>14, <2>1, <2>2 DEF RemoveModule, Registered
  <2>3. CASE UNCHANGED <<lifecycle, contVars>>  BY <1>1, <1>14, <2>3 DEF RemoveModule
  <2> QED BY <1>14, <2>2, <2>3 DEF RemoveModule
<1>15. CASE RemoveFails
  <2>1. cur # m  BY <1>2, <1>15 DEF RemoveFails
  <2>2. CASE RemoveContributions(cur, reg[cur])
    BY <1>1, <1>3, <1>5, <1>15, <2>1, <2>2 DEF RemoveFails, Registered
  <2>3. CASE UNCHANGED <<entries, lifecycle>>  BY <1>1, <1>15, <2>3 DEF RemoveFails
  <2> QED BY <1>15, <2>2, <2>3 DEF RemoveFails
<1>16. CASE EnableNext
  <2>1. pos \in 1..N /\ Order[pos] \in Modules /\ nextGen[Order[pos]] < MaxGen
    BY <1>16, OrderAssumption DEF EnableNext, Control, TypeInv, Budget
  <2>2. CASE BeginEnable(Order[pos], "enable_all")  BY <1>1, <1>4, <2>1, <2>2 DEF BeginEnable
  <2>3. CASE UNCHANGED <<modVars, gateVars, contVars, cur, errors, req>>  BY <1>1, <2>3
  <2> QED BY <1>16, <2>2, <2>3 DEF EnableNext
<1>17. CASE DisableNext
  <2>1. pos \in 1..N /\ Order[pos] \in Modules
    BY <1>17, OrderAssumption DEF DisableNext, Control, TypeInv
  <2>2. CASE BeginDisable(Order[pos], caller)  BY <1>1, <1>6, <2>1, <2>2
  <2>3. CASE UNCHANGED <<modVars, gateVars, contVars, cur, errors, req>>  BY <1>1, <2>3
  <2> QED BY <1>17, <2>2, <2>3 DEF DisableNext
<1>18. CASE BeginUninstall
  <2>1. nextGen[cur] < MaxGen  BY <1>18 DEF BeginUninstall, TypeInv, Budget, Control
  <2> QED BY <1>1, <1>3, <1>4, <1>18, <2>1 DEF BeginUninstall
<1>19. CASE FinishRetire
  <2>1. cur # m /\ nextGen[cur] \in Gens
    BY <1>2, <1>3, <1>19 DEF FinishRetire, TypeInv, Budget, GateTypeOK
  <2> QED BY <1>1, <1>3, <1>5, <1>19, <2>1 DEF FinishRetire
<1>20. ASSUME NEW n \in Modules, Enable(n) \/ Disable(n) \/ Retire(n) \/ Replace(n)
       PROVE  /\ lifecycle'[m][g] \in {"active", "draining"}
              /\ m \in started'
              /\ g \in entries'[m]
  <2>1. CASE Enable(n)  BY <1>1, <1>4, <1>20, <2>1 DEF Enable, BeginEnable, Activable
  <2>2. CASE BeginDisable(n, "disable") \/ BeginDisable(n, "retire")
    BY <1>1, <1>6, <1>20, <2>2
  <2>3. CASE UNCHANGED <<lifecycle, started, entries>>  BY <1>1, <2>3
  <2> QED BY <1>20, <2>1, <2>2, <2>3 DEF Disable, Retire, Replace
<1> QED
  BY <1>7, <1>8, <1>9, <1>10, <1>11, <1>12, <1>13, <1>14, <1>15, <1>16, <1>17, <1>18, <1>19, <1>20
     DEF OperationStep, OperationCall

\* Admission counts a request once per generation it takes, leaving gives it back.
LEMMA RequestWorkInv ==
    ASSUME TypeInv, ModInv, WorkInv, NEW r \in Requests, Resolve(r) \/ Admit(r) \/ Leave(r)
    PROVE  WorkInv'
<1>0. /\ req \in [Requests -> [pc : {"idle", "resolved", "admitted"}, leases : SUBSET (Modules \X Gens)]]
      /\ inFlight \in [Modules -> [Gens -> Int]]
  BY DEF TypeInv, TypeOK, RequestTypeOK, GateTypeOK
<1>1. UNCHANGED <<lifecycle, started, entries>>
  BY DEF Resolve, Admit, Leave, modVars, contVars, gateVars
<1>2. ASSUME NEW m \in Modules, NEW g \in Gens
      PROVE  IsFiniteSet(Holders(m, g))
  BY BoundsAssumption, FS_Subset DEF Holders
<1>3. ASSUME NEW s \in Requests, s # r PROVE req'[s] = req[s]
  BY <1>0, <1>3 DEF Resolve, Admit, Leave
<1>4. CASE UNCHANGED inFlight /\ req[r].pc # "admitted" /\ req'[r].pc # "admitted"
  <2>1. ASSUME NEW m \in Modules, NEW g \in Gens
        PROVE  Holders(m, g)' = Holders(m, g) /\ (Held(m, g)' <=> Held(m, g))
    BY <1>3, <1>4 DEF Holders, Held
  <2>2. InFlightCounts'  BY <1>4, <2>1 DEF WorkInv, InFlightCounts, Holders
  <2>3. HeldInv'  BY <1>1, <2>1 DEF WorkInv, HeldInv
  <2> QED BY <2>2, <2>3 DEF WorkInv
<1>5. CASE /\ req[r].pc = "resolved" /\ req'[r].pc = "admitted" /\ req'[r].leases = req[r].leases
           /\ \A l \in req[r].leases : IsActive(l[1], l[2])
           /\ inFlight' = Count(req[r].leases, 1)
  <2>1. ASSUME NEW m \in Modules, NEW g \in Gens
        PROVE  /\ Holders(m, g)' = IF <<m, g>> \in req[r].leases THEN Holders(m, g) \cup {r} ELSE Holders(m, g)
               /\ r \notin Holders(m, g)
    BY <1>3, <1>5 DEF Holders
  <2>2. InFlightCounts'
    <3> SUFFICES ASSUME NEW m \in Modules, NEW g \in Gens
                 PROVE  inFlight'[m][g] = Cardinality(Holders(m, g)')
      BY DEF InFlightCounts, Holders
    <3>1. inFlight[m][g] = Cardinality(Holders(m, g))  BY DEF WorkInv, InFlightCounts, Holders
    <3>2. inFlight'[m][g] = IF <<m, g>> \in req[r].leases THEN inFlight[m][g] + 1 ELSE inFlight[m][g]
      BY <1>5 DEF Count
    <3>3. Cardinality(Holders(m, g) \cup {r}) = Cardinality(Holders(m, g)) + 1
      BY <1>2, <2>1, FS_AddElement
    <3> QED BY <2>1, <3>1, <3>2, <3>3
  <2>3. HeldInv'
    <3> SUFFICES ASSUME NEW m \in Modules, NEW g \in Gens, Held(m, g)'
                 PROVE  lifecycle[m][g] \in {"active", "draining"} /\ m \in started /\ g \in entries[m]
      BY <1>1 DEF HeldInv
    <3>1. CASE Held(m, g)  BY <3>1 DEF WorkInv, HeldInv
    <3>2. CASE ~Held(m, g)
      <4>1. <<m, g>> \in req[r].leases  BY <1>3, <1>5, <3>2 DEF Held
      <4>2. lifecycle[m][g] = "active"  BY <1>5, <4>1 DEF IsActive
      <4> QED BY <4>2 DEF ModInv, ActiveInv
    <3> QED BY <3>1, <3>2
  <2> QED BY <2>2, <2>3 DEF WorkInv
<1>6. CASE /\ req[r].pc = "admitted" /\ req'[r].pc = "idle"
           /\ inFlight' = Count(req[r].leases, -1)
  <2>1. ASSUME NEW m \in Modules, NEW g \in Gens
        PROVE  /\ Holders(m, g)' = Holders(m, g) \ {r}
               /\ (<<m, g>> \in req[r].leases) <=> (r \in Holders(m, g))
               /\ Held(m, g)' => Held(m, g)
    BY <1>3, <1>6 DEF Holders, Held
  <2>2. InFlightCounts'
    <3> SUFFICES ASSUME NEW m \in Modules, NEW g \in Gens
                 PROVE  inFlight'[m][g] = Cardinality(Holders(m, g)')
      BY DEF InFlightCounts, Holders
    <3>1. inFlight[m][g] = Cardinality(Holders(m, g))  BY DEF WorkInv, InFlightCounts, Holders
    <3>2. inFlight'[m][g] = IF <<m, g>> \in req[r].leases THEN inFlight[m][g] + (-1) ELSE inFlight[m][g]
      BY <1>6 DEF Count
    <3>3. Cardinality(Holders(m, g) \ {r})
            = IF r \in Holders(m, g) THEN Cardinality(Holders(m, g)) - 1 ELSE Cardinality(Holders(m, g))
      BY <1>2, FS_RemoveElement
    <3>4. inFlight[m][g] \in Int  BY <1>0
    <3> QED BY <2>1, <3>1, <3>2, <3>3, <3>4
  <2>3. HeldInv'  BY <1>1, <2>1 DEF WorkInv, HeldInv
  <2> QED BY <2>2, <2>3 DEF WorkInv
<1>7. CASE Resolve(r)
  <2>1. req'[r].pc = "resolved" /\ UNCHANGED inFlight /\ req[r].pc = "idle"
    BY <1>0, <1>7 DEF Resolve, gateVars
  <2> QED BY <1>4, <2>1
<1>8. CASE Admit(r)
  <2>1. CASE \A l \in req[r].leases : IsActive(l[1], l[2])
    BY <1>0, <1>5, <1>8, <2>1 DEF Admit
  <2>2. CASE ~\A l \in req[r].leases : IsActive(l[1], l[2])
    BY <1>0, <1>4, <1>8, <2>2 DEF Admit
  <2> QED BY <2>1, <2>2
<1>9. CASE Leave(r)  BY <1>0, <1>6, <1>9 DEF Leave
<1> QED BY <1>7, <1>8, <1>9

LEMMA NextWorkInv == TypeInv /\ ModInv /\ WorkInv /\ [Next]_vars => WorkInv'
<1> SUFFICES ASSUME TypeInv, ModInv, WorkInv, [Next]_vars PROVE WorkInv'  OBVIOUS
<1>1. CASE OperationStep \/ OperationCall
  <2>1. UNCHANGED <<inFlight, req>>
    BY <1>1 DEF OperationStep, OperationCall, RegisterModule, StartModule, PublishModule,
         PublishFails, UndoStop, UndoRemove, Drained, DrainFails, StopModule, RemoveModule,
         RemoveFails, EnableNext, DisableNext, LoopEnds, BeginUninstall, FinishRetire, InstallAll,
         EnableAll, DisableAll, Enable, Disable, Retire, Replace, BeginEnable, BeginDisable,
         gateVars
  <2> QED BY <1>1, <2>1, OperationInFlight, OperationHeldInv DEF WorkInv
<1>2. CASE RequestStep  BY <1>2, RequestWorkInv DEF RequestStep
<1>3. CASE UNCHANGED vars
  BY <1>3 DEF WorkInv, InFlightCounts, HeldInv, Held, vars, modVars, gateVars, contVars
<1> QED BY <1>1, <1>2, <1>3 DEF Next

\* A request that was admitted runs against a started module with its
\* contributions in place, and the module's stop() and removal wait for it,
\* whatever times out, fails or is cancelled, and however many requests and
\* operations interleave.
THEOREM AdmittedWorkProtected == Spec => []WorkIsProtected
<1>1. Spec => [](TypeInv /\ ModInv /\ WorkInv)
  <2>1. Init => TypeInv /\ ModInv /\ WorkInv  BY InitTypeInv, InitModInv, InitWorkInv
  <2>2. TypeInv /\ ModInv /\ WorkInv /\ [Next]_vars => (TypeInv /\ ModInv /\ WorkInv)'
    BY NextTypeInv, NextModInv, NextWorkInv
  <2> QED BY <2>1, <2>2, PTL DEF Spec
<1>2. TypeInv /\ ModInv /\ WorkInv => WorkIsProtected
  <2> SUFFICES ASSUME TypeInv, ModInv, WorkInv, NEW r \in Requests, req[r].pc = "admitted",
                      NEW l \in req[r].leases
               PROVE  /\ l[1] \in started
                      /\ l[2] \in entries[l[1]]
                      /\ lifecycle[l[1]][l[2]] \in {"active", "draining"}
                      /\ ~(cur = l[1] /\ pc \in {"stop", "undo_stop", "remove", "undo_remove"})
    BY DEF WorkIsProtected
  <2>1. l[1] \in Modules /\ l[2] \in Gens /\ l = <<l[1], l[2]>>
    BY DEF TypeInv, TypeOK, RequestTypeOK
  <2>2. Held(l[1], l[2])  BY <2>1 DEF Held
  <2>3. cur = l[1] => ~Enabling /\ pc \notin {"stop", "remove", "retire_rollback", "retire"}
    BY <2>1, <2>2, HeldIsRegistered DEF WorkInv
  <2> QED BY <2>1, <2>2, <2>3 DEF WorkInv, HeldInv, Enabling
<1> QED BY <1>1, <1>2, PTL

\* The in_flight counter of every generation is the number of requests that
\* hold it.
THEOREM CountersExact == Spec => []InFlightCounts
<1>1. Spec => [](TypeInv /\ ModInv /\ WorkInv)
  <2>1. Init => TypeInv /\ ModInv /\ WorkInv  BY InitTypeInv, InitModInv, InitWorkInv
  <2>2. TypeInv /\ ModInv /\ WorkInv /\ [Next]_vars => (TypeInv /\ ModInv /\ WorkInv)'
    BY NextTypeInv, NextModInv, NextWorkInv
  <2> QED BY <2>1, <2>2, PTL DEF Spec
<1>2. WorkInv => InFlightCounts  BY DEF WorkInv
<1> QED BY <1>1, <1>2, PTL

\* At every await of every lifecycle operation the registry, the gate and the
\* services agree, for any number of modules, generations and requests, as long
\* as ModuleRegistry.replace is not called inside an operation.
THEOREM RegistryStaysConsistent ==
    ASSUME ~ReplaceUnderLock
    PROVE  Spec => []RegistryConsistent
<1>1. Spec => []EnabledDependenciesEnabled  BY DependenciesEnabled
<1>2. TypeOK /\ EnabledDependenciesEnabled /\ ActiveIsRegistered /\ InFlightCounts
        => RegistryConsistent
  BY DEF RegistryConsistent
<1> QED BY <1>1, <1>2, TypeCorrect, ActiveRegistered, CountersExact, PTL

-----------------------------------------------------------------------------
(* Where the contributions of a generation can be.                         *)

\* Some part of generation g of m is in the registries, the container or the gate.
Placed(m, g) == g \in entries[m] \/ g \in services[m] \/ ~Finished(m, g)

\* The operation at work owns the newest generation of m and will publish it or
\* remove it.
Owned(m) == m = cur /\ (Enabling \/ pc = "retire_rollback")

\* Every contribution belongs to the registration of its module or to the
\* operation at work, no contribution outlives the gate entry of its generation,
\* and only the operation at work can hold a module UNINSTALLING.
PlaceInv ==
    /\ \A m \in Modules, g \in Gens : Placed(m, g) =>
         g = reg[m] \/ (Owned(m) /\ g = nextGen[m])
    /\ \A m \in Modules, g \in Gens :
         g \in entries[m] \/ g \in services[m] => ~Finished(m, g)
    /\ \A m \in Modules : state[m] = "UNINSTALLING" => m = cur /\ pc = "retire_rollback"

LEMMA InitPlaceInv == Init => PlaceInv
BY DEF Init, PlaceInv, Placed, Finished

\* A generation no request holds is drained.
LEMMA NotHeldDrained ==
    ASSUME InFlightCounts, NEW m \in Modules, NEW g \in Gens, ~Held(m, g)
    PROVE  inFlight[m][g] = 0
<1>1. Holders(m, g) = {}  BY DEF Held, Holders
<1>2. Cardinality(Holders(m, g)) = 0  BY <1>1, FS_EmptySet
<1> QED BY <1>2 DEF InFlightCounts, Holders

\* The removal of a drained generation leaves nothing of it and adds nothing.
LEMMA RemovedEntirely ==
    ASSUME GateTypeOK, PlaceInv, NEW m \in Modules, NEW g \in Gens,
           RemoveContributions(m, g)
    PROVE  /\ \A n \in Modules, h \in Gens : Placed(n, h)' => Placed(n, h)
           /\ \A n \in Modules, h \in Gens :
                (h \in entries[n] \/ h \in services[n] => ~Finished(n, h))'
           /\ inFlight[m][g] = 0 => ~Placed(m, g)'
<1> USE DEF GateTypeOK, RemoveContributions, Placed, Finished
<1>1. \A n \in Modules, h \in Gens :
        lifecycle'[n][h] = IF n = m /\ h = g /\ Removable(m, g) THEN "absent" ELSE lifecycle[n][h]
  OBVIOUS
<1>2. \A n \in Modules, h \in Gens :
        h \in entries'[n] <=> h \in entries[n] /\ ~(n = m /\ h = g)
  OBVIOUS
<1>3. \A n \in Modules, h \in Gens :
        h \in services'[n] <=> h \in services[n] /\ ~(n = m /\ h = g)
  OBVIOUS
<1>4. \A n \in Modules, h \in Gens : h \in entries[n] \/ h \in services[n] => ~Finished(n, h)
  BY DEF PlaceInv
<1> HIDE DEF GateTypeOK, RemoveContributions
<1> QED BY <1>1, <1>2, <1>3, <1>4 DEF Removable

\* A step that places nothing new, keeps the registrations and the generation
\* numbers, and does not let go of what the operation owns.
LEMMA QuietPlaceInv ==
    ASSUME PlaceInv,
           \A m \in Modules, g \in Gens : Placed(m, g)' => Placed(m, g),
           \A m \in Modules, g \in Gens :
             (g \in entries[m] \/ g \in services[m] => ~Finished(m, g))',
           \A m \in Modules : state'[m] = "UNINSTALLING" => state[m] = "UNINSTALLING",
           UNCHANGED <<reg, nextGen>>,
           \A m \in Modules : Owned(m) => Owned(m)',
           pc = "retire_rollback" => pc' = "retire_rollback" /\ cur' = cur
    PROVE  PlaceInv'
BY DEF PlaceInv

\* The same when nothing at all moves in the registries.
LEMMA StillPlaceInv ==
    ASSUME PlaceInv, UNCHANGED <<reg, lifecycle, nextGen, entries, services>>,
           \A m \in Modules : state'[m] = "UNINSTALLING" => state[m] = "UNINSTALLING",
           \A m \in Modules : Owned(m) => Owned(m)',
           pc = "retire_rollback" => pc' = "retire_rollback" /\ cur' = cur
    PROVE  PlaceInv'
<1>1. \A m \in Modules, g \in Gens : Placed(m, g)' <=> Placed(m, g)  BY DEF Placed, Finished
<1>2. \A m \in Modules, g \in Gens : Finished(m, g)' <=> Finished(m, g)  BY DEF Finished
<1>3. \A m \in Modules, g \in Gens :
        (g \in entries[m] \/ g \in services[m] => ~Finished(m, g))'
  BY <1>2 DEF PlaceInv
<1> QED BY <1>1, <1>3, QuietPlaceInv

LEMMA EnableStepPlaceInv ==
    ASSUME TypeInv, ModInv, WorkInv, PlaceInv,
           \/ RegisterModule \/ StartModule \/ PublishModule
           \/ PublishFails \/ UndoStop \/ UndoRemove
    PROVE  PlaceInv'
<1>0. cur \in Modules /\ GateTypeOK /\ ModTypeOK  BY DEF TypeInv, TypeOK, OpTypeOK
<1>a. Enabling
  BY DEF Enabling, RegisterModule, StartModule, PublishModule, PublishFails, UndoStop, UndoRemove
<1>b. nextGen[cur] \in Gens  BY <1>0, <1>a DEF TypeInv, Budget, GateTypeOK
<1>00. Enabling /\ nextGen[cur] \in Gens /\ state[cur] \in {"INSTALLED", "DISABLED"}
       /\ lifecycle[cur][nextGen[cur]] = "staged" /\ reg[cur] = 0
  BY <1>0, <1>a, <1>b DEF ModInv, CurInv, ActiveInv
<1>000. Owned(cur) /\ \A m \in Modules : m # cur => ~Owned(m)  BY <1>00 DEF Owned
<1> USE DEF modVars, gateVars, contVars, loopVars
<1>1. CASE RegisterModule
  <2>1. UNCHANGED <<lifecycle, reg, nextGen, state, cur>> /\ pc' \in {"start", "undo_remove"}
    BY <1>1 DEF RegisterModule
  <2>2. \A m \in Modules, g \in Gens :
          /\ g \in entries'[m] => g \in entries[m] \/ (m = cur /\ g = nextGen[cur])
          /\ g \in services'[m] => g \in services[m] \/ (m = cur /\ g = nextGen[cur])
    BY <1>0, <1>1 DEF RegisterModule, GateTypeOK
  <2>3. \A m \in Modules, g \in Gens : Finished(m, g)' <=> Finished(m, g)
    BY <2>1 DEF Finished
  <2>4. \A m \in Modules, g \in Gens :
          Placed(m, g)' => Placed(m, g) \/ (m = cur /\ g = nextGen[cur])
    BY <2>2, <2>3 DEF Placed
  <2>5. Owned(cur)' /\ ~Finished(cur, nextGen[cur]) /\ pc # "retire_rollback"
    BY <1>1, <1>00, <2>1 DEF Owned, Enabling, Finished, RegisterModule
  <2>6. \A m \in Modules, g \in Gens : Placed(m, g)' =>
          (g = reg[m] \/ (Owned(m) /\ g = nextGen[m]))'
    BY <1>0, <1>000, <2>1, <2>4, <2>5 DEF PlaceInv
  <2>7. \A m \in Modules, g \in Gens :
          (g \in entries[m] \/ g \in services[m] => ~Finished(m, g))'
    BY <2>2, <2>3, <2>5 DEF PlaceInv
  <2>8. \A m \in Modules : state'[m] = "UNINSTALLING" => m = cur' /\ pc' = "retire_rollback"
    BY <2>1, <2>5 DEF PlaceInv
  <2> QED BY <2>6, <2>7, <2>8 DEF PlaceInv
<1>2. CASE StartModule \/ PublishFails \/ UndoStop
  <2>1. /\ UNCHANGED <<reg, lifecycle, nextGen, entries, services, state, cur>>
        /\ pc' \in {"publish", "undo_stop", "undo_remove"} /\ pc # "retire_rollback"
    BY <1>2 DEF StartModule, PublishFails, UndoStop
  <2>2. \A m \in Modules : Owned(m) => Owned(m)'  BY <2>1 DEF Owned, Enabling
  <2> QED BY <2>1, <2>2, StillPlaceInv
<1>3. CASE PublishModule
  <2>1. /\ UNCHANGED <<entries, services, nextGen>> /\ pc # "retire_rollback"
        /\ lifecycle' = [lifecycle EXCEPT ![cur][nextGen[cur]] = "active"]
        /\ reg' = [reg EXCEPT ![cur] = nextGen[cur]]
        /\ state' = [state EXCEPT ![cur] = "ENABLED"]
    BY <1>3 DEF PublishModule
  <2>2. \A m \in Modules, g \in Gens : Finished(m, g)' <=> Finished(m, g)
    BY <1>0, <1>00, <2>1 DEF Finished, GateTypeOK
  <2>3. \A m \in Modules, g \in Gens : Placed(m, g)' <=> Placed(m, g)
    BY <2>1, <2>2 DEF Placed
  <2>4. \A m \in Modules, g \in Gens : Placed(m, g) => g = reg'[m]
    <3> SUFFICES ASSUME NEW m \in Modules, NEW g \in Gens, Placed(m, g) PROVE g = reg'[m]
      OBVIOUS
    <3>1. CASE m = cur
      <4>1. g = nextGen[cur]  BY <1>00, <3>1, BoundsAssumption DEF PlaceInv
      <4> QED BY <1>0, <2>1, <3>1, <4>1 DEF ModTypeOK
    <3>2. CASE m # cur
      <4>1. g = reg[m]  BY <1>000, <3>2 DEF PlaceInv
      <4> QED BY <1>0, <2>1, <3>2, <4>1 DEF ModTypeOK
    <3> QED BY <3>1, <3>2
  <2>5. \A m \in Modules : state'[m] # "UNINSTALLING"  BY <1>0, <2>1 DEF PlaceInv, ModTypeOK
  <2>6. \A m \in Modules, g \in Gens :
          (g \in entries[m] \/ g \in services[m] => ~Finished(m, g))'
    BY <2>1, <2>2 DEF PlaceInv
  <2> QED BY <2>3, <2>4, <2>5, <2>6 DEF PlaceInv
<1>4. CASE UndoRemove
  <2>1. /\ UNCHANGED <<reg, nextGen, inFlight>> /\ pc # "retire_rollback"
        /\ RemoveContributions(cur, nextGen[cur])
        /\ state' = [state EXCEPT ![cur] = "FAILED"]
    BY <1>4 DEF UndoRemove
  <2>2. PICK c \in Modules, d \in Gens : c = cur /\ d = nextGen[cur]  BY <1>0, <1>00
  <2>3. /\ \A n \in Modules, h \in Gens : Placed(n, h)' => Placed(n, h)
        /\ \A n \in Modules, h \in Gens :
             (h \in entries[n] \/ h \in services[n] => ~Finished(n, h))'
        /\ ~Placed(c, d)'
    <3>1. inFlight[c][d] = 0  BY <1>00, <2>2, NotHeldDrained DEF WorkInv, HeldInv
    <3>2. RemoveContributions(c, d)  BY <2>1, <2>2
    <3> QED BY <1>0, <3>1, <3>2, RemovedEntirely
  <2>4. \A m \in Modules, g \in Gens : Placed(m, g)' => g = reg'[m]
    BY <1>0, <1>000, <2>1, <2>2, <2>3 DEF PlaceInv
  <2>5. \A m \in Modules : state'[m] # "UNINSTALLING"  BY <1>0, <2>1 DEF PlaceInv, ModTypeOK
  <2> QED BY <2>3, <2>4, <2>5 DEF PlaceInv
<1> QED BY <1>1, <1>2, <1>3, <1>4

LEMMA DisableStepPlaceInv ==
    ASSUME TypeInv, ModInv, WorkInv, PlaceInv,
           Drained \/ DrainFails \/ StopModule \/ RemoveModule \/ RemoveFails
    PROVE  PlaceInv'
<1>0. cur \in Modules /\ GateTypeOK /\ ModTypeOK  BY DEF TypeInv, TypeOK, OpTypeOK
<1>00. Disabling /\ (\A m \in Modules : ~Owned(m)) /\ pc # "retire_rollback"
       /\ \A m \in Modules : state[m] # "UNINSTALLING"
  BY DEF Disabling, Owned, Enabling, PlaceInv,
     Drained, DrainFails, StopModule, RemoveModule, RemoveFails
<1> USE DEF modVars, gateVars, contVars, loopVars
<1>1. CASE Drained
  <2>1. /\ UNCHANGED <<reg, nextGen, entries, services, state>>
        /\ lifecycle' = [lifecycle EXCEPT ![cur][reg[cur]] = "inactive"]
        /\ reg[cur] \in Gens /\ lifecycle[cur][reg[cur]] = "draining"
    BY <1>1 DEF Drained, ModInv, CurInv
  <2>2. \A m \in Modules, g \in Gens : Finished(m, g)' <=> Finished(m, g)
    BY <1>0, <2>1 DEF Finished, GateTypeOK
  <2>3. \A m \in Modules, g \in Gens : Placed(m, g)' <=> Placed(m, g)
    BY <2>1, <2>2 DEF Placed
  <2>4. \A m \in Modules, g \in Gens :
          (g \in entries[m] \/ g \in services[m] => ~Finished(m, g))'
    BY <2>1, <2>2 DEF PlaceInv
  <2> QED BY <1>00, <2>1, <2>3, <2>4, QuietPlaceInv
<1>2. CASE DrainFails
  <2>1. \A m \in Modules : state'[m] # "UNINSTALLING"
    BY <1>0, <1>00, <1>2 DEF DrainFails, ModTypeOK
  <2> QED BY <1>00, <1>2, <2>1, StillPlaceInv DEF DrainFails
<1>3. CASE StopModule  BY <1>00, <1>3, StillPlaceInv DEF StopModule
<1>4. CASE RemoveModule
  <2>1. /\ UNCHANGED <<nextGen, inFlight>> /\ reg' = [reg EXCEPT ![cur] = 0]
        /\ \A m \in Modules : state'[m] # "UNINSTALLING"
    BY <1>0, <1>00, <1>4 DEF RemoveModule, Conclude, ModTypeOK
  <2>c. PICK c \in Modules : c = cur  BY <1>0
  <2>2. /\ \A n \in Modules, h \in Gens : Placed(n, h)' => Placed(n, h)
        /\ \A n \in Modules, h \in Gens :
             (h \in entries[n] \/ h \in services[n] => ~Finished(n, h))'
        /\ \A h \in Gens : ~Placed(c, h)'
    <3>1. CASE /\ Registered(cur)
               /\ Removable(cur, reg[cur])
               /\ RemoveContributions(cur, reg[cur])
      <4>0. reg[cur] \in Gens /\ inFlight[cur][reg[cur]] = 0
        BY <3>1 DEF Registered, Removable
      <4>1. PICK d \in Gens : d = reg[cur]  BY <4>0
      <4>2. /\ \A n \in Modules, h \in Gens : Placed(n, h)' => Placed(n, h)
            /\ \A n \in Modules, h \in Gens :
                 (h \in entries[n] \/ h \in services[n] => ~Finished(n, h))'
            /\ ~Placed(c, d)'
        <5>1. RemoveContributions(c, d) /\ inFlight[c][d] = 0  BY <2>c, <3>1, <4>0, <4>1
        <5> QED BY <1>0, <5>1, RemovedEntirely
      <4>3. \A h \in Gens : Placed(c, h) => h = d  BY <1>00, <2>c, <4>1 DEF PlaceInv
      <4>4. \A h \in Gens : ~Placed(c, h)'  BY <4>2, <4>3
      <4> QED BY <4>2, <4>4
    <3>2. CASE ~Registered(cur) /\ UNCHANGED <<lifecycle, contVars>>
      <4>1. \A m \in Modules, g \in Gens : Finished(m, g)' <=> Finished(m, g)
        BY <3>2 DEF Finished
      <4>2. \A m \in Modules, g \in Gens : Placed(m, g)' <=> Placed(m, g)
        BY <3>2, <4>1 DEF Placed
      <4>3. \A h \in Gens : ~Placed(c, h)
        BY <1>00, <2>c, <3>2 DEF PlaceInv, Registered, Placed
      <4>4. \A n \in Modules, h \in Gens :
              (h \in entries[n] \/ h \in services[n] => ~Finished(n, h))'
        BY <3>2, <4>1 DEF PlaceInv
      <4> QED BY <4>2, <4>3, <4>4
    <3> QED BY <1>4, <3>1, <3>2 DEF RemoveModule
  <2>3. \A m \in Modules, g \in Gens : Placed(m, g)' => g = reg'[m]
    <3> SUFFICES ASSUME NEW m \in Modules, NEW g \in Gens, Placed(m, g)' PROVE g = reg'[m]
      OBVIOUS
    <3>1. m # cur  BY <2>c, <2>2
    <3>2. g = reg[m]  BY <1>00, <2>2 DEF PlaceInv
    <3> QED BY <1>0, <2>1, <3>1, <3>2 DEF ModTypeOK
  <2> QED BY <2>1, <2>2, <2>3 DEF PlaceInv
<1>5. CASE RemoveFails
  <2>1. /\ UNCHANGED <<reg, nextGen>> /\ reg[cur] \in Gens
        /\ \A m \in Modules : state'[m] # "UNINSTALLING"
    BY <1>0, <1>00, <1>5 DEF RemoveFails, Registered, ModTypeOK
  <2>2. /\ \A n \in Modules, h \in Gens : Placed(n, h)' => Placed(n, h)
        /\ \A n \in Modules, h \in Gens :
             (h \in entries[n] \/ h \in services[n] => ~Finished(n, h))'
    <3>1. CASE RemoveContributions(cur, reg[cur])  BY <1>0, <2>1, <3>1, RemovedEntirely
    <3>2. CASE /\ services' = [services EXCEPT ![cur] = @ \ {reg[cur]}]
               /\ UNCHANGED <<entries, lifecycle>>
      <4>1. \A n \in Modules, h \in Gens : h \in services'[n] => h \in services[n]
        BY <1>0, <3>2 DEF GateTypeOK
      <4>2. \A m \in Modules, g \in Gens : Finished(m, g)' <=> Finished(m, g)
        BY <3>2 DEF Finished
      <4>3. \A n \in Modules, h \in Gens : Placed(n, h)' => Placed(n, h)
        BY <3>2, <4>1, <4>2 DEF Placed
      <4>4. \A n \in Modules, h \in Gens :
              (h \in entries[n] \/ h \in services[n] => ~Finished(n, h))'
        BY <3>2, <4>1, <4>2 DEF PlaceInv
      <4> QED BY <4>3, <4>4
    <3> QED BY <1>5, <3>1, <3>2 DEF RemoveFails
  <2> QED BY <1>00, <2>1, <2>2, QuietPlaceInv
<1> QED BY <1>1, <1>2, <1>3, <1>4, <1>5

LEMMA BeginEnablePlaceInv ==
    ASSUME TypeInv, PlaceInv, NEW m \in Modules, NEW who, nextGen[m] < MaxGen,
           pc \in {"idle", "loop"}, BeginEnable(m, who)
    PROVE  PlaceInv'
<1>0. GateTypeOK  BY DEF TypeInv, TypeOK
<1>1. /\ UNCHANGED <<state, reg, entries, services>> /\ cur' = m
      /\ pc' \in {"register", "undo_remove"} /\ Reserve(m) /\ state[m] # "UNINSTALLING"
  BY DEF BeginEnable, modVars, contVars
<1>2. Owned(m)' /\ \A n \in Modules : ~Owned(n) /\ state[n] # "UNINSTALLING"
  BY <1>1 DEF Owned, Enabling, PlaceInv
<1>3. nextGen'[m] = nextGen[m] + 1 /\ nextGen[m] + 1 \in Gens
  BY <1>0, <1>1, BoundsAssumption DEF GateTypeOK, Reserve
<1>4. \A n \in Modules, h \in Gens :
        lifecycle'[n][h] = IF n = m /\ h = nextGen'[m] THEN "staged" ELSE lifecycle[n][h]
  BY <1>0, <1>1, <1>3 DEF GateTypeOK, Reserve
<1>5. \A n \in Modules, h \in Gens : Placed(n, h)' => Placed(n, h) \/ (n = m /\ h = nextGen'[m])
  BY <1>1, <1>4 DEF Placed, Finished
<1>6. \A n \in Modules, h \in Gens :
        (h \in entries[n] \/ h \in services[n] => ~Finished(n, h))'
  BY <1>1, <1>4 DEF Finished, PlaceInv
<1> QED BY <1>1, <1>2, <1>5, <1>6 DEF PlaceInv

LEMMA BeginDisablePlaceInv ==
    ASSUME TypeInv, PlaceInv, NEW m \in Modules, NEW who,
           pc \in {"idle", "loop"}, BeginDisable(m, who)
    PROVE  PlaceInv'
<1>0. GateTypeOK  BY DEF TypeInv, TypeOK
<1>1. UNCHANGED <<state, reg, nextGen, entries, services>>
  BY DEF BeginDisable, modVars, contVars
<1>2. \A n \in Modules : ~Owned(n)  BY DEF Owned, Enabling
<1>3. \A n \in Modules, h \in Gens : Finished(n, h)' <=> Finished(n, h)
  <2>1. CASE Registered(m) /\ lifecycle' = [lifecycle EXCEPT ![m][reg[m]] = "draining"]
    <3>1. reg[m] \in Gens /\ lifecycle[m][reg[m]] # "absent"  BY <2>1 DEF Registered, Finished
    <3> QED BY <1>0, <2>1, <3>1 DEF Finished, GateTypeOK
  <2>2. CASE lifecycle' = lifecycle  BY <2>2 DEF Finished
  <2> QED BY <2>1, <2>2 DEF BeginDisable
<1>4. \A n \in Modules, h \in Gens : Placed(n, h)' <=> Placed(n, h)  BY <1>1, <1>3 DEF Placed
<1>5. \A n \in Modules, h \in Gens :
        (h \in entries[n] \/ h \in services[n] => ~Finished(n, h))'
  BY <1>1, <1>3 DEF PlaceInv
<1> QED BY <1>1, <1>2, <1>4, <1>5, QuietPlaceInv

LEMMA LoopPlaceInv ==
    ASSUME TypeInv, PlaceInv, EnableNext \/ DisableNext \/ LoopEnds
    PROVE  PlaceInv'
<1>0. pc = "loop" /\ \A m \in Modules : ~Owned(m)
  BY DEF EnableNext, DisableNext, LoopEnds, Owned, Enabling
<1>1. CASE UNCHANGED <<modVars, gateVars, contVars>>
  BY <1>0, <1>1, StillPlaceInv DEF modVars, gateVars, contVars
<1>2. CASE EnableNext
  <2>1. pos \in 1..N /\ Order[pos] \in Modules /\ caller = "enable_all"
    BY <1>2, OrderAssumption DEF EnableNext, Control, TypeInv
  <2>2. PICK m \in Modules : m = Order[pos] /\ nextGen[m] < MaxGen
    BY <1>0, <2>1 DEF Budget, TypeInv
  <2>3. CASE BeginEnable(m, "enable_all")  BY <1>0, <2>2, <2>3, BeginEnablePlaceInv
  <2> QED BY <1>1, <1>2, <2>2, <2>3 DEF EnableNext
<1>3. CASE DisableNext
  <2>1. pos \in 1..N /\ Order[pos] \in Modules
    BY <1>3, OrderAssumption DEF DisableNext, Control, TypeInv
  <2>2. PICK m \in Modules : m = Order[pos]  BY <2>1
  <2>3. PICK who : who = caller  OBVIOUS
  <2>4. CASE BeginDisable(m, who)  BY <1>0, <2>2, <2>4, BeginDisablePlaceInv
  <2> QED BY <1>1, <1>3, <2>2, <2>3, <2>4 DEF DisableNext
<1>4. CASE LoopEnds  BY <1>1, <1>4 DEF LoopEnds
<1> QED BY <1>2, <1>3, <1>4

LEMMA RetireStepPlaceInv ==
    ASSUME TypeInv, ModInv, WorkInv, PlaceInv, BeginUninstall \/ FinishRetire
    PROVE  PlaceInv'
<1>0. cur \in Modules /\ GateTypeOK /\ ModTypeOK  BY DEF TypeInv, TypeOK, OpTypeOK
<1>c. PICK c \in Modules : c = cur  BY <1>0
<1> USE DEF modVars, gateVars, contVars, loopVars
<1>1. CASE BeginUninstall
  <2>1. /\ UNCHANGED <<reg, entries, services>> /\ cur' = c
        /\ pc = "retire" /\ pc' = "retire_rollback" /\ Reserve(c) /\ nextGen[c] < MaxGen
        /\ state' = [state EXCEPT ![c] = "UNINSTALLING"]
    BY <1>1, <1>c DEF BeginUninstall, TypeInv, Budget, Control
  <2>2. Owned(c)' /\ \A n \in Modules : ~Owned(n) /\ state[n] # "UNINSTALLING"
    BY <2>1 DEF Owned, Enabling, PlaceInv
  <2>3. nextGen'[c] = nextGen[c] + 1 /\ nextGen[c] + 1 \in Gens
    BY <1>0, <2>1, BoundsAssumption DEF GateTypeOK, Reserve
  <2>4. \A n \in Modules, h \in Gens :
          lifecycle'[n][h] = IF n = c /\ h = nextGen'[c] THEN "staged" ELSE lifecycle[n][h]
    BY <1>0, <2>1, <2>3 DEF GateTypeOK, Reserve
  <2>5. \A n \in Modules, h \in Gens : Placed(n, h)' => Placed(n, h) \/ (n = c /\ h = nextGen'[c])
    BY <2>1, <2>4 DEF Placed, Finished
  <2>6. \A n \in Modules, h \in Gens :
          (h \in entries[n] \/ h \in services[n] => ~Finished(n, h))'
    BY <2>1, <2>4 DEF Finished, PlaceInv
  <2>7. \A n \in Modules : state'[n] = "UNINSTALLING" => n = cur' /\ pc' = "retire_rollback"
    BY <1>0, <2>1, <2>2 DEF ModTypeOK
  <2> QED BY <2>1, <2>2, <2>5, <2>6, <2>7 DEF PlaceInv
<1>2. CASE FinishRetire
  <2>1. /\ UNCHANGED <<reg, nextGen, inFlight>> /\ pc = "retire_rollback"
        /\ RemoveContributions(cur, nextGen[cur])
    BY <1>2 DEF FinishRetire
  <2>2. PICK d \in Gens : d = nextGen[c]  BY <1>0, <1>c, <2>1 DEF TypeInv, Budget, GateTypeOK
  <2>3. state[c] = "UNINSTALLING" /\ lifecycle[c][d] = "staged" /\ reg[c] = 0
    BY <1>c, <2>1, <2>2 DEF ModInv, CurInv, ActiveInv
  <2>4. \A g \in Gens : ~Held(c, g)
    BY <2>3, BoundsAssumption DEF WorkInv, HeldInv, ModInv, ActiveInv
  <2>5. \A g \in Gens : inFlight[c][g] = 0  BY <2>4, NotHeldDrained DEF WorkInv
  <2>6. /\ \A n \in Modules, h \in Gens : Placed(n, h)' => Placed(n, h)
        /\ \A n \in Modules, h \in Gens :
             (h \in entries[n] \/ h \in services[n] => ~Finished(n, h))'
        /\ ~Placed(c, d)'
    <3>1. RemoveContributions(c, d) /\ inFlight[c][d] = 0  BY <1>c, <2>1, <2>2, <2>5
    <3> QED BY <1>0, <3>1, RemovedEntirely
  <2>7. \A m \in Modules, g \in Gens : Placed(m, g)' => g = reg'[m]
    BY <1>c, <2>1, <2>2, <2>6 DEF PlaceInv, Owned
  <2>8. \A m \in Modules : state'[m] # "UNINSTALLING"
    <3>1. state' = [state EXCEPT ![c] = "RETIRED"]  BY <1>2, <1>c, <2>5 DEF FinishRetire
    <3> QED BY <1>0, <1>c, <3>1 DEF PlaceInv, ModTypeOK
  <2> QED BY <2>6, <2>7, <2>8 DEF PlaceInv
<1> QED BY <1>1, <1>2

LEMMA CallPlaceInv ==
    ASSUME TypeInv, ModInv, PlaceInv, OperationCall
    PROVE  PlaceInv'
<1>0. ModTypeOK  BY DEF TypeInv, TypeOK
<1> USE DEF modVars, gateVars, contVars, loopVars, opVars
<1>1. CASE InstallAll
  <2>1. \A m \in Modules : state'[m] = "UNINSTALLING" => state[m] = "UNINSTALLING"
    BY <1>0, <1>1 DEF InstallAll, ModTypeOK
  <2>2. UNCHANGED <<pc, cur>>  BY <1>1 DEF InstallAll
  <2>3. \A m \in Modules : Owned(m) => Owned(m)'  BY <2>2 DEF Owned, Enabling
  <2> QED BY <1>1, <2>1, <2>2, <2>3, StillPlaceInv DEF InstallAll
<1>2. CASE EnableAll \/ DisableAll
  BY <1>2, StillPlaceInv DEF EnableAll, DisableAll, LockFree, Owned, Enabling
<1>3. ASSUME NEW m \in Modules, Enable(m) PROVE PlaceInv'
  BY <1>3, BeginEnablePlaceInv DEF Enable, LockFree, Activable
<1>4. ASSUME NEW m \in Modules, Disable(m) \/ Retire(m) PROVE PlaceInv'
  <2>1. pc = "idle"  BY <1>4 DEF Disable, Retire, LockFree
  <2>2. CASE BeginDisable(m, "disable") \/ BeginDisable(m, "retire")
    BY <2>1, <2>2, BeginDisablePlaceInv
  <2>3. CASE UNCHANGED <<modVars, gateVars, contVars>>
    <3>1. \A n \in Modules : ~Owned(n)  BY <2>1 DEF Owned, Enabling
    <3> QED BY <2>1, <2>3, <3>1, StillPlaceInv
  <2> QED BY <1>4, <2>2, <2>3 DEF Disable, Retire
<1>5. ASSUME NEW m \in Modules, Replace(m) PROVE PlaceInv'
  <2>1. \A n \in Modules : state'[n] = "UNINSTALLING" => state[n] = "UNINSTALLING"
    BY <1>0, <1>5 DEF Replace, ModTypeOK
  <2>2. UNCHANGED <<pc, cur>>  BY <1>5 DEF Replace
  <2>3. \A n \in Modules : Owned(n) => Owned(n)'  BY <2>2 DEF Owned, Enabling
  <2> QED BY <1>5, <2>1, <2>2, <2>3, StillPlaceInv DEF Replace
<1> QED BY <1>1, <1>2, <1>3, <1>4, <1>5 DEF OperationCall

LEMMA NextPlaceInv == TypeInv /\ ModInv /\ WorkInv /\ PlaceInv /\ [Next]_vars => PlaceInv'
<1> SUFFICES ASSUME TypeInv, ModInv, WorkInv, PlaceInv, [Next]_vars PROVE PlaceInv'  OBVIOUS
<1>1. CASE OperationStep
  BY <1>1, EnableStepPlaceInv, DisableStepPlaceInv, LoopPlaceInv, RetireStepPlaceInv
     DEF OperationStep
<1>2. CASE OperationCall  BY <1>2, CallPlaceInv
<1>3. CASE RequestStep \/ UNCHANGED vars
  <2>1. UNCHANGED <<modVars, lifecycle, nextGen, contVars, opVars>>
    BY <1>3 DEF RequestStep, Resolve, Admit, Leave, vars, gateVars
  <2>2. UNCHANGED <<pc, cur>>  BY <2>1 DEF opVars
  <2>3. \A m \in Modules : Owned(m) => Owned(m)'  BY <2>2 DEF Owned, Enabling
  <2> QED BY <2>1, <2>2, <2>3, StillPlaceInv DEF modVars, contVars
<1> QED BY <1>1, <1>2, <1>3 DEF Next

\* An operation that ended, well or badly, leaves no contribution without its
\* registration and no module half uninstalled, whatever requests were admitted,
\* whatever drain timed out before, and wherever ModuleRegistry.replace ran.
THEOREM NothingStaysBehind == Spec => []NothingLeftBehind
<1>1. Spec => [](TypeInv /\ ModInv /\ WorkInv /\ PlaceInv)
  <2>1. Init => TypeInv /\ ModInv /\ WorkInv /\ PlaceInv
    BY InitTypeInv, InitModInv, InitWorkInv, InitPlaceInv
  <2>2. TypeInv /\ ModInv /\ WorkInv /\ PlaceInv /\ [Next]_vars
          => (TypeInv /\ ModInv /\ WorkInv /\ PlaceInv)'
    BY NextTypeInv, NextModInv, NextWorkInv, NextPlaceInv
  <2> QED BY <2>1, <2>2, PTL DEF Spec
<1>2. PlaceInv => NothingLeftBehind
  BY DEF PlaceInv, Placed, Owned, Enabling, NothingLeftBehind, NothingOrphaned, RetireNotStuck,
     LockFree
<1> QED BY <1>1, <1>2, PTL

=============================================================================
