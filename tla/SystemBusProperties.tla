-------------------------- MODULE SystemBusProperties -------------------------
(***************************************************************************)
(* What the bus keeps between its processes, its device and the files.     *)
(***************************************************************************)
EXTENDS SystemBus, FileSystemProperties

(* A program runs only with everything configured loaded: an exception     *)
(* from any process, also a later one that would never have run, or from   *)
(* the device table, ends the simulator with nothing run                   *)
(* (load_configuration, create_and_configure_simulator).                   *)
RunsAllOrNothing ==
  \A s \in Simulators : stage[s] \in {"running", "returned", "saving"} =>
    processes[s] = IF config[s].text = "good" THEN config[s].processes ELSE <<>>

(* The persistence file is written only once run() has returned: a load or *)
(* a program that fails leaves it as it was (main, ~FileSystemDevice). The *)
(* device of the bus holds what it loaded, whatever the programs did.      *)
SavesAfterRun ==
  [][\A s \in Simulators :
       /\ state'[s] # state[s] /\ stage[s] \notin {"returned", "saving"}
            => file' = file
       /\ Uses(s) /\ Uses(s)' => tree'[s] = tree[s]]_allVars
=============================================================================
