--------------------------- MODULE SystemBusProofs ----------------------------
(***************************************************************************)
(* For any number of simulators, of other programs with a device, and any  *)
(* configurations: a simulator uses its device as the file system's        *)
(* specification has it, saves only after a run, and runs all of its       *)
(* configuration or nothing.                                               *)
(***************************************************************************)
EXTENDS SystemBusProperties, TLAPS

Stages == {"off", "configuring", "running", "returned", "saving"}

DevicesShape ==
  /\ state \in [Devices -> {"off", "refused", "running", "saving"}]
  /\ DOMAIN tree = Devices

BusShape ==
  /\ stage \in [Simulators -> Stages]
  /\ DOMAIN config = Simulators /\ DOMAIN processes = Simulators

\* The simulator's stage tells the state of its device.
StageOfState(s) ==
  /\ stage[s] = "off" => Off(s)
  /\ stage[s] \in {"configuring", "running", "returned"} => state[s] = "running"
  /\ stage[s] = "saving" => state[s] = "saving"

\* The processes loaded so far are the first ones configured.
LoadedInOrder(s) ==
  stage[s] # "off" =>
    /\ config[s] \in Configurations
    /\ processes[s] \in Seq(Sources)
    /\ config[s].text # "good" => processes[s] = <<>>
    /\ Len(processes[s]) <= Len(config[s].processes)
    /\ \A i \in 1..Len(processes[s]) : processes[s][i] = config[s].processes[i]
    /\ stage[s] # "configuring" =>
         processes[s] = IF config[s].text = "good" THEN config[s].processes ELSE <<>>

BusInvariant ==
  /\ DevicesShape /\ BusShape
  /\ \A s \in Simulators : StageOfState(s) /\ LoadedInOrder(s)

-----------------------------------------------------------------------------
(* What the actions leave alone.                                           *)

\* The end of a simulator, as the device sees it.
LEMMA TerminateIsUnsaved ==
  ASSUME NEW s, Terminate(s) PROVE SaveNowhere(s)
BY DEF Terminate, SaveNowhere

\* A step of a simulator is a step of its device or leaves devices alone.
LEMMA SimulatorIsClient ==
  ASSUME NEW s \in Simulators, Simulator(s)
  PROVE  (s \in Devices /\ Client(s)) \/ UNCHANGED vars
<1>1. s \in Devices
  BY BusAssumption
<1>2. CASE Start(s) \/ StartThrows(s) \/ Kill(s) \/ Destroy(s)
  BY <1>1, <1>2 DEF Start, StartThrows, Kill, Destroy, Client
<1>3. CASE Mistyped(s) \/ LoadProcessThrows(s) \/ RunThrows(s)
  BY <1>1, <1>3, TerminateIsUnsaved
  DEF Mistyped, LoadProcessThrows, RunThrows, Client
<1>4. CASE LoadDevices(s)
  BY <1>1, <1>4, TerminateIsUnsaved DEF LoadDevices, Client
<1>5. CASE IgnoreFailure(s) \/ LoadProcess(s) \/ Run(s)
  BY <1>5 DEF IgnoreFailure, LoadProcess, Run
<1>6. QED
  BY <1>2, <1>3, <1>4, <1>5 DEF Simulator

LEMMA BusStepIsDeviceStep == [BusNext]_allVars => [Next]_vars
<1>1. ASSUME BusNext PROVE [Next]_vars
  <2>1. ASSUME NEW s \in Simulators, Simulator(s) PROVE [Next]_vars
    BY <2>1, SimulatorIsClient DEF Next
  <2>2. ASSUME NEW d \in Devices \ Simulators, Client(d) PROVE Next
    BY <2>2 DEF Next
  <2>3. QED
    BY <1>1, <2>1, <2>2 DEF BusNext
<1>2. QED
  BY <1>1 DEF allVars

(* The simulators, with the programs that own a device, use their devices  *)
(* as the file system's specification allows: SystemBus implements it.     *)
THEOREM BusImplementsFileSystem == BusSpec => Spec
<1>1. BusInit => Init
  BY DEF BusInit
<1>2. QED
  BY <1>1, BusStepIsDeviceStep, PTL DEF BusSpec, Spec

-----------------------------------------------------------------------------
(* The devices.                                                            *)

\* A step of a device changes no other device, and its file only when it
\* saves.
LEMMA ClientStep ==
  ASSUME DevicesShape, NEW d \in Devices, Client(d)
  PROVE  /\ DevicesShape'
         /\ \A e \in Devices \ {d} : state'[e] = state[e] /\ tree'[e] = tree[e]
         /\ state[d] \notin {"running", "saving"} => file' = file
<1>1. CASE Load(d) \/ LoadUnopened(d) \/ LoadThrows(d)
  BY <1>1 DEF Load, LoadUnopened, LoadThrows, DevicesShape
<1>2. CASE OpenForSave(d) \/ WriteOut(d) \/ SaveNowhere(d) \/ Crash(d)
  BY <1>2 DEF OpenForSave, WriteOut, SaveNowhere, Crash, Uses, DevicesShape
<1>3. CASE \E t : Change(d, t)
  BY <1>3 DEF Change, DevicesShape
<1>4. QED
  BY <1>1, <1>2, <1>3 DEF Client, CreateFile, AppendToFile

LEMMA DevicesStep == ASSUME DevicesShape, [Next]_vars PROVE DevicesShape'
<1>1. CASE Next
  BY <1>1, ClientStep DEF Next
<1>2. CASE UNCHANGED vars
  BY <1>2 DEF vars, DevicesShape
<1>3. QED
  BY <1>1, <1>2

\* What a step leaves of a cut file that no device uses.
StillCut == Cut(file)' /\ \A d \in Devices : Off(d)' \/ tree'[d] = Fresh

\* Nobody builds a device from a file that is cut.
LEMMA StuckStep == ASSUME DevicesShape, Stuck, [Next]_vars PROVE StillCut
<1>1. CASE UNCHANGED vars
  BY <1>1 DEF vars, Stuck, StillCut, Cut, Off
<1>2. ASSUME NEW d \in Devices, Client(d) PROVE StillCut
  <2>1. Off(d) /\ ~ CanLoad(file)
    BY DEF Stuck, Cut, CanLoad
  <2>2. LoadThrows(d) \/ LoadUnopened(d)
    BY <1>2, <2>1 DEF Client, Load, OpenForSave, WriteOut, SaveNowhere, Crash, Uses,
                      CreateFile, AppendToFile, Change, Off
  <2>3. QED
    BY <2>2 DEF LoadThrows, LoadUnopened, DevicesShape, Stuck, StillCut, Cut, Off
<1>3. QED
  BY <1>1, <1>2 DEF Next

LEMMA DevicesKeepShape == Spec => []DevicesShape
<1>1. Init => DevicesShape
  BY DEF Init, DevicesShape
<1>2. QED
  BY <1>1, DevicesStep, PTL DEF Spec

(* A persistence file that a cut save left unreadable stays unreadable     *)
(* with no device in use, however many simulators and programs try, until  *)
(* one that could not open it has a new root to save.                      *)
THEOREM UnreadableForever == BusSpec => StaysUnreadable
<1>1. DevicesShape /\ [Next]_vars => [Stuck => StillCut]_vars
  BY StuckStep
<1>2. Spec => StaysUnreadable
  BY <1>1, DevicesKeepShape, PTL DEF Spec, StaysUnreadable, StillCut
<1>3. QED
  BY <1>2, BusImplementsFileSystem

-----------------------------------------------------------------------------
(* The simulators.                                                         *)

LEMMA GoneOff ==
  ASSUME BusShape, NEW s \in Simulators, Gone(s)
  PROVE  /\ BusShape' /\ stage'[s] = "off"
         /\ \A t \in Simulators \ {s} :
              stage'[t] = stage[t] /\ config'[t] = config[t] /\ processes'[t] = processes[t]
BY DEF Gone, Enter, BusShape, Stages

\* The steps that leave processes and configuration alone.
LEMMA StageMoves ==
  ASSUME BusShape, NEW s \in Simulators, NEW where \in Stages, Enter(s, where),
         UNCHANGED <<config, processes>>
  PROVE  /\ BusShape' /\ stage'[s] = where
         /\ \A t \in Simulators \ {s} : stage'[t] = stage[t]
BY DEF Enter, BusShape

\* What a step of simulator s does to the simulators.
StepOf(s) ==
  /\ BusShape'
  /\ \A t \in Simulators \ {s} :
       stage'[t] = stage[t] /\ config'[t] = config[t] /\ processes'[t] = processes[t]
  /\ StageOfState(s)' /\ LoadedInOrder(s)'

LEMMA TerminateStep ==
  ASSUME BusInvariant, NEW s \in Simulators, Terminate(s)
  PROVE  StepOf(s) /\ file' = file
<1>1. s \in Devices
  BY BusAssumption
<1>2. state'[s] = "off"
  BY <1>1 DEF Terminate, BusInvariant, DevicesShape
<1>3. QED
  BY <1>2, GoneOff
  DEF Terminate, BusInvariant, StepOf, StageOfState, LoadedInOrder, Off

LEMMA EndsStep ==
  ASSUME BusInvariant, NEW s \in Simulators,
         StartThrows(s) \/ Kill(s) \/ Destroy(s)
  PROVE  StepOf(s)
<1>1. s \in Devices
  BY BusAssumption
<1>2. CASE StartThrows(s) \/ Kill(s)
  <2>1. Gone(s) /\ state'[s] \in {"off", "refused"}
    BY <1>1, <1>2 DEF StartThrows, Kill, LoadThrows, Crash, BusInvariant, DevicesShape
  <2>2. QED
    BY <2>1, GoneOff DEF BusInvariant, StepOf, StageOfState, LoadedInOrder, Off
<1>3. CASE At(s, "returned") /\ OpenForSave(s) /\ Enter(s, "saving")
           /\ UNCHANGED <<config, processes>>
  <2>1. state'[s] = "saving"
    BY <1>1, <1>3 DEF OpenForSave, BusInvariant, DevicesShape
  <2>2. QED
    BY <1>3, <2>1, StageMoves
    DEF At, BusInvariant, StepOf, StageOfState, LoadedInOrder, Stages
<1>4. CASE (SaveNowhere(s) \/ WriteOut(s)) /\ Gone(s)
  <2>1. state'[s] = "off"
    BY <1>1, <1>4 DEF SaveNowhere, WriteOut, BusInvariant, DevicesShape
  <2>2. QED
    BY <1>4, <2>1, GoneOff DEF BusInvariant, StepOf, StageOfState, LoadedInOrder, Off
<1>5. QED
  BY <1>2, <1>3, <1>4 DEF Destroy

LEMMA StartStep ==
  ASSUME BusInvariant, NEW s \in Simulators, Start(s)
  PROVE  StepOf(s) /\ file' = file
<1>1. s \in Devices
  BY BusAssumption
<1>2. state'[s] = "running" /\ file' = file
  BY <1>1 DEF Start, Load, LoadUnopened, BusInvariant, DevicesShape
<1>3. /\ BusShape' /\ stage'[s] = "configuring" /\ processes'[s] = <<>>
      /\ config'[s] \in Configurations
      /\ \A t \in Simulators \ {s} :
           stage'[t] = stage[t] /\ config'[t] = config[t] /\ processes'[t] = processes[t]
  BY DEF Start, Enter, BusInvariant, BusShape, Stages
<1>4. Len(config'[s].processes) \in Nat
  BY <1>3, BusAssumption
<1>5. QED
  BY <1>2, <1>3, <1>4 DEF StepOf, StageOfState, LoadedInOrder

LEMMA LoadProcessStep ==
  ASSUME BusInvariant, NEW s \in Simulators, LoadProcess(s)
  PROVE  StepOf(s) /\ UNCHANGED vars
<1> DEFINE c == config[s]
           p == processes[s]
<1>1. /\ stage[s] = "configuring" /\ UNCHANGED <<vars, stage, config>>
      /\ c \in Configurations /\ p \in Seq(Sources) /\ c.processes \in Seq(Sources)
      /\ \A i \in 1..Len(p) : p[i] = c.processes[i]
  BY BusAssumption DEF LoadProcess, At, BusInvariant, LoadedInOrder
<1>2. c.text = "good" /\ Len(p) < Len(c.processes) /\ NextProcess(s) = Len(p) + 1
  BY DEF LoadProcess, NextProcess
<1>3. processes' = [processes EXCEPT ![s] = Append(p, c.processes[Len(p) + 1])]
  BY <1>2 DEF LoadProcess
<1>4. BusShape' /\ processes'[s] = Append(p, c.processes[Len(p) + 1])
      /\ \A t \in Simulators \ {s} : processes'[t] = processes[t]
  BY <1>1, <1>3 DEF BusInvariant, BusShape
<1>5. c.processes[Len(p) + 1] \in Sources
  BY <1>1, <1>2
<1>6. /\ Append(p, c.processes[Len(p) + 1]) \in Seq(Sources)
      /\ Len(Append(p, c.processes[Len(p) + 1])) = Len(p) + 1
      /\ \A i \in 1..(Len(p) + 1) :
           Append(p, c.processes[Len(p) + 1])[i] = c.processes[i]
  BY <1>1, <1>5
<1>7. LoadedInOrder(s)'
  BY <1>1, <1>2, <1>4, <1>6 DEF LoadedInOrder
<1>8. QED
  BY <1>1, <1>4, <1>7 DEF BusInvariant, StepOf, StageOfState, vars

\* No process is left: those loaded are all of them.
LEMMA LoadedAll ==
  ASSUME BusInvariant, NEW s \in Simulators, stage[s] = "configuring",
         config[s].text = "good", NextProcess(s) = 0
  PROVE  processes[s] = config[s].processes
<1>1. /\ processes[s] \in Seq(Sources) /\ config[s].processes \in Seq(Sources)
      /\ Len(processes[s]) <= Len(config[s].processes)
      /\ \A i \in 1..Len(processes[s]) : processes[s][i] = config[s].processes[i]
  BY BusAssumption DEF BusInvariant, LoadedInOrder
<1>2. Len(processes[s]) = Len(config[s].processes)
  BY <1>1 DEF NextProcess
<1>3. QED
  BY <1>1, <1>2

LEMMA MovesStep ==
  ASSUME BusInvariant, NEW s \in Simulators,
         \/ IgnoreFailure(s) \/ Run(s)
         \/ LoadDevices(s) /\ config[s].devices # "unnamed"
  PROVE  StepOf(s) /\ UNCHANGED vars
<1>1. PICK where \in {"running", "returned"} :
        Enter(s, where) /\ UNCHANGED <<vars, config, processes>>
  BY DEF IgnoreFailure, Run, LoadDevices
<1>2. stage[s] \in {"configuring", "running"}
  BY DEF IgnoreFailure, Run, LoadDevices, At
<1>3. processes[s] = IF config[s].text = "good" THEN config[s].processes ELSE <<>>
  <2>1. CASE stage[s] = "running"
    BY <2>1 DEF BusInvariant, LoadedInOrder
  <2>2. CASE stage[s] = "configuring"
    <3>1. IgnoreFailure(s) \/ LoadDevices(s)
      BY <2>2 DEF Run, At
    <3>2. CASE IgnoreFailure(s)
      BY <2>2, <3>2 DEF IgnoreFailure, BusInvariant, LoadedInOrder
    <3>3. CASE LoadDevices(s)
      BY <2>2, <3>3, LoadedAll DEF LoadDevices
    <3>4. QED
      BY <3>1, <3>2, <3>3
  <2>3. QED
    BY <1>2, <2>1, <2>2
<1>4. /\ BusShape' /\ stage'[s] \in {"running", "returned"}
      /\ \A t \in Simulators \ {s} : stage'[t] = stage[t]
  BY <1>1, StageMoves DEF BusInvariant, Stages
<1>5. LoadedInOrder(s)'
  BY <1>1, <1>2, <1>3, <1>4 DEF BusInvariant, LoadedInOrder
<1>6. StageOfState(s)'
  BY <1>1, <1>2, <1>4 DEF BusInvariant, StageOfState, vars
<1>7. QED
  BY <1>1, <1>4, <1>5, <1>6 DEF StepOf

LEMMA SimulatorStep ==
  ASSUME BusInvariant, NEW s \in Simulators, Simulator(s)
  PROVE  /\ StepOf(s)
         /\ Start(s) \/ stage[s] \in {"returned", "saving"} \/ Kill(s) \/ file' = file
         /\ Uses(s) /\ Uses(s)' => tree'[s] = tree[s]
<1>1. s \in Devices
  BY BusAssumption
<1>2. CASE \/ Mistyped(s) \/ LoadProcessThrows(s) \/ RunThrows(s)
           \/ LoadDevices(s) /\ config[s].devices = "unnamed"
  <2>1. Terminate(s)
    BY <1>2 DEF Mistyped, LoadProcessThrows, RunThrows, LoadDevices
  <2>2. state'[s] = "off"
    BY <1>1, <2>1 DEF Terminate, BusInvariant, DevicesShape
  <2>3. QED
    BY <2>1, <2>2, TerminateStep DEF Uses
<1>3. CASE StartThrows(s) \/ Kill(s) \/ Destroy(s)
  <2>1. StepOf(s)
    BY <1>3, EndsStep
  <2>2. stage[s] \in {"returned", "saving"} \/ Kill(s) \/ file' = file
    BY <1>3 DEF StartThrows, LoadThrows, Destroy, At
  <2>3. tree' = tree \/ ~ Uses(s)'
    BY <1>1, <1>3 DEF StartThrows, LoadThrows, Kill, Crash, Destroy, OpenForSave,
                      WriteOut, SaveNowhere, Uses, BusInvariant, DevicesShape
  <2>4. QED
    BY <2>1, <2>2, <2>3
<1>4. CASE Start(s)
  BY <1>4, StartStep DEF Start, Load, LoadUnopened, Off, Uses
<1>5. CASE LoadProcess(s)
  BY <1>5, LoadProcessStep DEF vars
<1>6. CASE \/ IgnoreFailure(s) \/ Run(s)
           \/ LoadDevices(s) /\ config[s].devices # "unnamed"
  BY <1>6, MovesStep DEF vars
<1>7. \/ Mistyped(s) \/ LoadProcessThrows(s) \/ RunThrows(s)
      \/ LoadDevices(s) /\ config[s].devices = "unnamed"
      \/ LoadDevices(s) /\ config[s].devices # "unnamed"
      \/ StartThrows(s) \/ Kill(s) \/ Destroy(s) \/ Start(s)
      \/ LoadProcess(s) \/ IgnoreFailure(s) \/ Run(s)
  BY DEF Simulator
<1>8. QED
  BY <1>2, <1>3, <1>4, <1>5, <1>6, <1>7

\* What another simulator or program does.
LEMMA OtherStep ==
  ASSUME BusInvariant, NEW s \in Simulators, state'[s] = state[s],
         stage'[s] = stage[s], config'[s] = config[s], processes'[s] = processes[s]
  PROVE  StageOfState(s)' /\ LoadedInOrder(s)'
BY DEF BusInvariant, StageOfState, LoadedInOrder, Off

LEMMA BusStep == ASSUME BusInvariant, [BusNext]_allVars PROVE BusInvariant'
<1>1. DevicesShape'
  BY BusStepIsDeviceStep, DevicesStep DEF BusInvariant
<1>2. CASE UNCHANGED allVars
  BY <1>1, <1>2, OtherStep DEF BusInvariant, BusShape, allVars, vars, busVars
<1>3. ASSUME NEW s \in Simulators, Simulator(s) PROVE BusInvariant'
  <2>1. StepOf(s)
    BY <1>3, SimulatorStep
  <2>2. ASSUME NEW t \in Simulators \ {s} PROVE StageOfState(t)' /\ LoadedInOrder(t)'
    <3>1. t \in Devices \ {s}
      BY BusAssumption
    <3>2. state'[t] = state[t]
      BY <1>3, <3>1, SimulatorIsClient, ClientStep DEF BusInvariant, vars
    <3>3. QED
      BY <2>1, <3>2, OtherStep DEF StepOf
  <2>3. QED
    BY <1>1, <2>1, <2>2 DEF BusInvariant, StepOf
<1>4. ASSUME NEW d \in Devices \ Simulators, Client(d), UNCHANGED busVars
      PROVE  BusInvariant'
  <2>1. \A t \in Simulators : state'[t] = state[t]
    BY <1>4, BusAssumption, ClientStep DEF BusInvariant
  <2>2. QED
    BY <1>1, <1>4, <2>1, OtherStep DEF BusInvariant, BusShape, busVars
<1>5. QED
  BY <1>2, <1>3, <1>4 DEF BusNext

LEMMA BusStart == BusInit => BusInvariant
BY BusAssumption DEF BusInit, Init, BusInvariant, DevicesShape, BusShape, Stages, StageOfState,
       LoadedInOrder, Off

(* The program of a simulator runs with all of its configuration loaded,   *)
(* or, if the configuration is unusable, with nothing loaded.              *)
THEOREM AllOrNothingRuns == BusSpec => []RunsAllOrNothing
<1>1. BusInvariant => RunsAllOrNothing
  BY DEF BusInvariant, LoadedInOrder, RunsAllOrNothing
<1>2. QED
  BY <1>1, BusStart, BusStep, PTL DEF BusSpec

(* A simulator's device never writes the file before its run has returned, *)
(* and holds what it has loaded until then.                                *)
THEOREM SavedOnlyAfterRun == BusSpec => SavesAfterRun
<1> DEFINE Saves(s) ==
             /\ state'[s] # state[s] /\ stage[s] \notin {"returned", "saving"}
                  => file' = file
             /\ Uses(s) /\ Uses(s)' => tree'[s] = tree[s]
<1>1. ASSUME BusInvariant, BusNext, NEW s \in Simulators PROVE Saves(s)
  <2>1. s \in Devices
    BY BusAssumption
  <2>2. CASE Simulator(s)
    <3>1. Start(s) => file' = file
      BY DEF Start, Load, LoadUnopened
    <3>2. stage[s] \notin {"returned", "saving"} /\ Kill(s) => file' = file
      BY <1>1 DEF Kill, Crash, Uses, BusInvariant, BusShape, StageOfState, Stages, Off
    <3>3. QED
      BY <1>1, <2>2, <3>1, <3>2, SimulatorStep
  <2>3. ASSUME NEW t \in Simulators \ {s}, Simulator(t) PROVE Saves(s)
    <3>1. state'[s] = state[s] /\ tree'[s] = tree[s]
      BY <1>1, <2>1, <2>3, SimulatorIsClient, ClientStep DEF BusInvariant, vars
    <3>2. QED
      BY <3>1
  <2>4. ASSUME NEW d \in Devices \ Simulators, Client(d) PROVE Saves(s)
    <3>1. state'[s] = state[s] /\ tree'[s] = tree[s]
      BY <1>1, <2>1, <2>4, ClientStep DEF BusInvariant
    <3>2. QED
      BY <3>1
  <2>5. QED
    BY <1>1, <2>2, <2>3, <2>4 DEF BusNext
<1>2. BusInvariant /\ [BusNext]_allVars => [\A s \in Simulators : Saves(s)]_allVars
  BY <1>1
<1>3. QED
  BY <1>2, BusStart, BusStep, PTL DEF BusSpec, SavesAfterRun
=============================================================================
