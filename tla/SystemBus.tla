------------------------------ MODULE SystemBus -------------------------------
(***************************************************************************)
(* main.cpp and SystemBus: the bus builds the file system device, loads    *)
(* the configured processes, runs the first one and saves the device when  *)
(* it is destroyed. Nothing below main catches an exception: the process   *)
(* is terminated and no destructor runs.                                   *)
(*                                                                         *)
(* The simulators share the persistence file with each other and with      *)
(* programs that use a device of their own, as                             *)
(* tests/file_system_device_test.cpp does. The device of the bus is        *)
(* private and no process reaches it.                                      *)
(***************************************************************************)
EXTENDS FileSystem

CONSTANTS
  Simulators,       \* the devices that belong to a SystemBus
  Sources,          \* assembly source files
  Configurations,   \* contents of system_bus.json: [text, processes, devices]
  NoConfiguration

\* text: "unusable" (no file, or no JSON), "mistyped" (JSON of another shape)
\* or "good". processes: the paths of the programs. devices: "none", "named",
\* or "unnamed" when an entry lacks its name or type.
ASSUME BusAssumption ==
  /\ Simulators \subseteq Devices
  /\ \A c \in Configurations : c.processes \in Seq(Sources)

VARIABLES
  stage,       \* how far main has come
  config,      \* what load_configuration reads
  processes    \* processes_, as the paths they were loaded from

busVars == <<stage, config, processes>>
allVars == <<vars, busVars>>

At(s, where)     == stage[s] = where
Enter(s, where)  == stage' = [stage EXCEPT ![s] = where]

\* The simulator is no more.
Gone(s) ==
  /\ Enter(s, "off")
  /\ config' = [config EXCEPT ![s] = NoConfiguration]
  /\ processes' = [processes EXCEPT ![s] = <<>>]

\* The constructor of SystemBus builds the device, which loads the file.
Start(s) ==
  /\ Load(s) \/ LoadUnopened(s)
  /\ Enter(s, "configuring")
  /\ \E c \in Configurations : config' = [config EXCEPT ![s] = c]
  /\ processes' = [processes EXCEPT ![s] = <<>>]

StartThrows(s) ==
  /\ LoadThrows(s)
  /\ Gone(s)

\* Mutant: the stack is unwound to main, and the destructor saves.
TerminateSaving(s) ==
  /\ state[s] = "running"
  /\ state' = [state EXCEPT ![s] = "off"]
  /\ tree' = [tree EXCEPT ![s] = <<>>]
  /\ file' = [kind |-> "tree", tree |-> tree[s]]
  /\ Gone(s)

\* An exception that nobody catches: the device is not saved.
Terminate(s) ==
  /\ state[s] = "running"
  /\ state' = [state EXCEPT ![s] = "off"]
  /\ tree' = [tree EXCEPT ![s] = <<>>]
  /\ UNCHANGED file
  /\ Gone(s)

\* main ignores what load_configuration returns.
IgnoreFailure(s) ==
  /\ At(s, "configuring") /\ config[s].text = "unusable"
  /\ Enter(s, "running")
  /\ UNCHANGED <<vars, config, processes>>

Mistyped(s) ==
  /\ At(s, "configuring") /\ config[s].text = "mistyped"
  /\ Terminate(s)

\* The process whose turn it is, or 0.
NextProcess(s) ==
  IF config[s].text = "good" /\ Len(processes[s]) < Len(config[s].processes)
  THEN Len(processes[s]) + 1 ELSE 0

\* A session, a memory and a simulator; the file is assembled into it,
\* whatever the passes return. The three dump files are only ever written, and
\* one that cannot be opened is passed over: they are left out.
LoadProcess(s) ==
  /\ At(s, "configuring") /\ NextProcess(s) # 0
  /\ processes' = [processes EXCEPT ![s] =
                     Append(@, config[s].processes[NextProcess(s)])]
  /\ UNCHANGED <<vars, stage, config>>

\* Mutant: load_configuration catches, and reports like an unusable file.
LoadProcessGivesUp(s) ==
  /\ At(s, "configuring") /\ NextProcess(s) # 0
  /\ Enter(s, "running")
  /\ UNCHANGED <<vars, config, processes>>

\* createSession, the passes or the decoder throw.
LoadProcessThrows(s) ==
  /\ At(s, "configuring") /\ NextProcess(s) # 0
  /\ Terminate(s)

\* Behind the processes come the devices, which are recorded and not used.
LoadDevices(s) ==
  /\ At(s, "configuring") /\ config[s].text = "good" /\ NextProcess(s) = 0
  /\ IF config[s].devices = "unnamed" THEN Terminate(s)
     ELSE Enter(s, "running") /\ UNCHANGED <<vars, config, processes>>

\* run: the first process, if there is one, until runProgram returns.
Run(s) ==
  /\ At(s, "running")
  /\ Enter(s, "returned")
  /\ UNCHANGED <<vars, config, processes>>

RunThrows(s) ==
  /\ At(s, "running") /\ processes[s] # <<>>
  /\ Terminate(s)

\* ~SystemBus, which destroys the device first.
Destroy(s) ==
  \/ /\ At(s, "returned") /\ OpenForSave(s)
     /\ Enter(s, "saving") /\ UNCHANGED <<config, processes>>
  \/ At(s, "returned") /\ SaveNowhere(s) /\ Gone(s)
  \/ At(s, "saving") /\ WriteOut(s) /\ Gone(s)

\* Killed from outside at any time, for instance while a program spins.
Kill(s) ==
  /\ Crash(s)
  /\ Gone(s)

BusInit ==
  /\ Init
  /\ stage = [s \in Simulators |-> "off"]
  /\ config = [s \in Simulators |-> NoConfiguration]
  /\ processes = [s \in Simulators |-> <<>>]

Simulator(s) ==
  \/ Start(s) \/ StartThrows(s)
  \/ IgnoreFailure(s) \/ Mistyped(s)
  \/ LoadProcess(s) \/ LoadProcessThrows(s) \/ LoadDevices(s)
  \/ Run(s) \/ RunThrows(s) \/ Destroy(s) \/ Kill(s)

BusNext ==
  \/ \E s \in Simulators : Simulator(s)
  \/ \E d \in Devices \ Simulators : Client(d) /\ UNCHANGED busVars

BusSpec == BusInit /\ [][BusNext]_allVars
=============================================================================
