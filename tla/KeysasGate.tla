------------------------------ MODULE KeysasGate ------------------------------
(***************************************************************************)
(* What the keysas-core pipeline promises of the files it hands over,      *)
(* whatever the daemons go through: a file standing in sas_out has a       *)
(* content the station may hand over, and an older deposit never takes the *)
(* place of a newer one.  How a file gets there, and whether it does, is   *)
(* not said.                                                               *)
(***************************************************************************)
EXTENDS Naturals

CONSTANTS
  Paths,        \* the names files are handed over under
  Inodes,       \* the deposits, numbered in their order
  Good,         \* the contents the station may hand over
  Nothing       \* no file stands at a path

VARIABLES
  shelf,        \* the file at each path: its deposit and its vetted content
  latest        \* the last deposit written at each path, 0 for none

gateVars == <<shelf, latest>>

GateInit ==
  /\ shelf = [p \in Paths |-> Nothing]
  /\ latest = [p \in Paths |-> 0]

(* A path is cleared to write deposit i there. *)
Clear(p, i) ==
  /\ i >= latest[p]
  /\ latest' = [latest EXCEPT ![p] = i]
  /\ shelf' = [shelf EXCEPT ![p] = Nothing]

(* The deposit the path was cleared for is handed over. *)
Place(p, d) ==
  /\ shelf[p] = Nothing
  /\ d \in Good
  /\ shelf' = [shelf EXCEPT ![p] = [ino |-> latest[p], digest |-> d]]
  /\ UNCHANGED latest

Withdraw(p) ==
  /\ shelf' = [shelf EXCEPT ![p] = Nothing]
  /\ UNCHANGED latest

GateNext ==
  \E p \in Paths :
    \/ \E i \in Inodes : Clear(p, i)
    \/ \E d \in Good : Place(p, d)
    \/ Withdraw(p)

GateSpec == GateInit /\ [][GateNext]_gateVars
=============================================================================
