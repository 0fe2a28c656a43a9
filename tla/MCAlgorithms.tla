---------------------------- MODULE MCAlgorithms ----------------------------
(***************************************************************************)
(* Instances for TLC of the algorithms and devices that stand alone: the   *)
(* shards, and of weensyos the iterators over page tables, the library,    *)
(* the readers of what others laid out, the console and the keyboard.  A   *)
(* behaviour is one of a part; the variables of the others do not change.  *)
(***************************************************************************)
EXTENDS Shards, WeensyVm, WeensyLib, WeensyMachine, WeensyConsole, WeensyKeyboard

VARIABLE part

allVars == <<part, shardVars, vmVars, libVars, machineVars, consoleVars, keyboardVars>>

ShardsOff == shards = <<>> /\ made = 0
VmOff == pt = <<>> /\ it = <<>> /\ mapped = <<>> /\ maps = 0
LibOff == call = <<>> /\ result = <<>>
MachineOff == question = <<>> /\ answer = <<>>

MCInit ==
  /\ ConsoleInit /\ KeyboardInit
  /\ \/ part = "shards" /\ ShardInit /\ VmOff /\ LibOff /\ MachineOff
     \/ part = "vm" /\ VmInit /\ ShardsOff /\ LibOff /\ MachineOff
     \/ part = "lib" /\ LibInit /\ ShardsOff /\ VmOff /\ MachineOff
     \/ part = "machine" /\ MachineInit /\ ShardsOff /\ VmOff /\ LibOff
     \/ part \in {"console", "keyboard"} /\ ShardsOff /\ VmOff /\ LibOff /\ MachineOff

MCNext ==
  /\ UNCHANGED part
  /\ \/ part = "shards" /\ ShardNext /\ UNCHANGED <<vmVars, libVars, machineVars, consoleVars, keyboardVars>>
     \/ part = "vm" /\ VmNext /\ UNCHANGED <<shardVars, libVars, machineVars, consoleVars, keyboardVars>>
     \/ part = "lib" /\ LibNext /\ UNCHANGED <<shardVars, vmVars, machineVars, consoleVars, keyboardVars>>
     \/ part = "machine" /\ MachineNext /\ UNCHANGED <<shardVars, vmVars, libVars, consoleVars, keyboardVars>>
     \/ part = "console" /\ ConsoleNext /\ UNCHANGED <<shardVars, vmVars, libVars, machineVars, keyboardVars>>
     \/ part = "keyboard" /\ KeyboardNext /\ UNCHANGED <<shardVars, vmVars, libVars, machineVars, consoleVars>>

MCSpec == MCInit /\ [][MCNext]_allVars

MCMaps == {<<4, {"P", "W", "U"}>>, <<6, {"P", "W"}>>, <<0, {}>>}
MCSymmetry == Permutations(Programs)
MCPositions == {-1, 1, 4, 5}
=============================================================================
