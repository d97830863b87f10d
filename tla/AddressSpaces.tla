---------------------------- MODULE AddressSpaces ----------------------------
(***************************************************************************)
(* What the virtual memory of tp-1/rackdoll promises to its tasks: every   *)
(* space is a private memory of pages.  A page is Unmapped or holds a      *)
(* content; mapping one gives zeros; only a write by a task of the space   *)
(* changes it.  No frames, no tables, no TLB.                              *)
(***************************************************************************)
CONSTANTS
  Spaces,        (* names of address spaces                                *)
  VPages,        (* virtual pages                                          *)
  Contents,      (* what a mapped page can hold                            *)
  Zeros,         (* the content of a page that was just mapped             *)
  Unmapped,      (* not a content                                          *)
  Fresh(_, _)    (* the content of a page in a space just built            *)

VARIABLES
  view,          (* view[s][v]: what a read of page v in space s returns   *)
  active         (* the space in use                                       *)

spaceVars == <<view, active>>

SpacesInit == view = [s \in Spaces |-> [v \in VPages |-> Unmapped]]

(* The steps take views as arguments: old is view and new is view'.        *)

(* A space that was never built gets its image, with its bss zeroed. *)
Build(old, new) ==
  \E s \in Spaces :
    /\ \A v \in VPages : old[s][v] = Unmapped
    /\ new = [old EXCEPT ![s] = [v \in VPages |-> Fresh(s, v)]]

(* What can happen to one page of the space in use. *)
Map(before, after) == before = Unmapped /\ after = Zeros
Unmap(before, after) == before # Unmapped /\ after = Unmapped
Write(before, after) == before # Unmapped /\ after \in Contents

OnePage(old, new) ==
  \E v \in VPages :
    /\ LET before == old[active][v]
           after == new[active][v]
       IN Map(before, after) \/ Unmap(before, after) \/ Write(before, after)
    /\ new = [old EXCEPT ![active][v] = new[active][v]]

(* Another space is used: no content moves. *)
Switch(old, new) == old = new /\ active' \in Spaces

Steps(old, new) ==
  \/ Switch(old, new)
  \/ UNCHANGED active /\ (OnePage(old, new) \/ Build(old, new))

SpacesNext == Steps(view, view')
SpacesSpec == SpacesInit /\ [][SpacesNext]_spaceVars
===============================================================================
