------------------------------ MODULE Coroutines ------------------------------
(***************************************************************************)
(* What the cooperative multitasking of tp-1/rackdoll promises, free of    *)
(* any array, index or page table register: a set of live flows of         *)
(* control, each with a context (its registers) and an address space.  At  *)
(* most one flow runs.  Only the running flow's context moves, by one      *)
(* instruction at a time, the one that hands over included; a flow that is *)
(* suspended finds its context and its address space again exactly as      *)
(* it left them; a flow leaves the set only by exiting itself.             *)
(***************************************************************************)
EXTENDS Naturals

CONSTANTS
  Contexts,     (* the values of a flow's registers                        *)
  Spaces,       (* the address spaces                                      *)
  Executed(_)   (* the registers one instruction can make of given ones    *)

VARIABLES
  proc,         (* live flow -> [context, space]                           *)
  running,      (* the flow that owns the processor, Idle when none does   *)
  phase         (* "boot" while flows are loaded, then "tasks", then "off" *)

abstractVars == <<proc, running, phase>>

Idle == 0
Flows == Nat \ {Idle}
Proc == [context : Contexts, space : Spaces]

Live == DOMAIN proc

AbstractTypeOK ==
  /\ Live \subseteq Flows
  /\ proc \in [Live -> Proc]
  /\ running \in Live \cup {Idle}
  /\ phase \in {"boot", "tasks", "off"}

(* A step leaves the processes of S as they are. *)
Keep(S) == \A f \in S : proc'[f] = proc[f]

AbstractInit ==
  /\ proc = << >>
  /\ running = Idle
  /\ phase = "boot"

(* A new flow joins the live ones, nothing else changes. *)
Spawn ==
  /\ phase = "boot"
  /\ \E f \in Live' \ Live :
       /\ f \in Flows
       /\ Live' = Live \cup {f}
       /\ proc'[f] \in Proc
  /\ Keep(Live)
  /\ UNCHANGED <<running, phase>>

(* Some live flow gets the processor for the first time. *)
Start ==
  /\ phase = "boot"
  /\ phase' = "tasks"
  /\ running' \in Live
  /\ UNCHANGED proc

(* There is nothing to run at all. *)
StartNothing ==
  /\ phase = "boot" /\ Live = {}
  /\ phase' = "off"
  /\ UNCHANGED <<proc, running>>

RunningMoves ==
  /\ running # Idle
  /\ Live' = Live
  /\ Keep(Live \ {running})
  /\ proc'[running].space = proc[running].space
  /\ proc'[running].context \in Executed(proc[running].context)

(* The running flow changes its own registers, and nobody else's. *)
Advance ==
  /\ RunningMoves
  /\ UNCHANGED <<running, phase>>

(* The running flow hands over: its registers may move (the instruction   *)
(* that yields), and a live flow, perhaps itself, continues.               *)
HandOver ==
  /\ RunningMoves
  /\ running' \in Live
  /\ UNCHANGED phase

(* The running flow ends and is the only one to disappear. *)
Finish ==
  /\ running # Idle
  /\ Live' = Live \ {running}
  /\ Keep(Live')
  /\ \/ /\ Live # {running}
        /\ running' \in Live \ {running}
        /\ UNCHANGED phase
     \/ /\ Live = {running}
        /\ running' = Idle
        /\ phase' = "off"

(* The running flow is copied: the new flows share its address space.      *)
Split ==
  /\ running # Idle
  /\ Live \subseteq Live' /\ Live' \subseteq Flows
  /\ Keep(Live \ {running})
  /\ \A f \in (Live' \ Live) \cup {running} :
       /\ proc'[f].context \in Executed(proc[running].context)
       /\ proc'[f].space = proc[running].space
  /\ UNCHANGED <<running, phase>>

AbstractNext ==
  \/ Spawn \/ Start \/ StartNothing
  \/ Advance \/ HandOver \/ Finish \/ Split

AbstractSpec == AbstractInit /\ [][AbstractNext]_abstractVars
===============================================================================
