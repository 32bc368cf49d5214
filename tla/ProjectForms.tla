---------------------------- MODULE ProjectForms ----------------------------
(***************************************************************************)
(* The forms of a project on the two panels of the split view.             *)
(*                                                                         *)
(* A form has one canonical window or is parked.  In split view a panel    *)
(* may show a clone of a form whose canonical window is on the other one.  *)
(* The file keeps canonical windows, parked forms and the clones of the    *)
(* right panel; loading has to find the form each clone belongs to.        *)
(***************************************************************************)
EXTENDS Naturals, FiniteSets

CONSTANTS
  Forms,
  AutoMap  \* the one of Forms that holds the registers added on request

VARIABLES
  place,    \* where the canonical form is: a panel, parked, or absent
  clones,   \* the panels with a clone of each form
  split,    \* MdiAreaEx::isSplitView
  active,   \* MdiAreaEx::activePanel
  autoAdd   \* AutoAddRegistersOnRequest; locks the AutoMap against deletion

vars == <<place, clones, split, active, autoAdd>>

Panels == {"left", "right"}
other(panel) == IF panel = "left" THEN "right" ELSE "left"

TypeOK ==
  /\ place \in [Forms -> Panels \cup {"parked", "absent"}]
  /\ clones \in [Forms -> SUBSET Panels]
  /\ split \in BOOLEAN
  /\ active \in Panels
  /\ autoAdd \in BOOLEAN

Init ==
  /\ place = [f \in Forms |-> "absent"]
  /\ clones = [f \in Forms |-> {}]
  /\ split = FALSE
  /\ active = "left"
  /\ autoAdd = FALSE

open(f) == place[f] \in Panels
shows(panel, f) == place[f] = panel \/ panel \in clones[f]

\* The panel of a new window is where the keyboard focus is, which need not be
\* the active one.
createAreas == IF split THEN Panels ELSE {"left"}

-----------------------------------------------------------------------------
(* Turning the split view on and off.                                      *)

\* Turning it off closes what is on the right: clones go, forms are parked.
\* It also goes off by itself when the right panel becomes empty.
settle(places, copies, panel) ==
  LET empty == \A f \in Forms : places[f] # "right" /\ "right" \notin copies[f]
  IN /\ place' = places
     /\ clones' = copies
     /\ split' = (split /\ ~empty)
     /\ active' = IF split' THEN panel ELSE "left"

merged ==
  /\ place' = [f \in Forms |-> IF place[f] = "right" THEN "parked" ELSE place[f]]
  /\ clones' = [f \in Forms |-> clones[f] \ {"right"}]
  /\ split' = FALSE
  /\ active' = "left"

DisableSplit == split /\ merged /\ UNCHANGED autoAdd

\* duplicatePrimaryTab: the form of the active window on the left gets a clone
\* on the right.  A clone that is on the left already is moved instead.
EnableSplit ==
  /\ ~split
  /\ split' = TRUE
  /\ active' = "left"
  /\ \/ /\ \A f \in Forms : ~shows("left", f)
        /\ UNCHANGED clones
     \/ \E f \in Forms :
          /\ shows("left", f)
          /\ clones' = [clones EXCEPT ![f] = {"right"}]
  /\ UNCHANGED <<place, autoAdd>>

-----------------------------------------------------------------------------
(* Forms and their windows.                                                *)

createForm(f) ==
  /\ place[f] = "absent" /\ f # AutoMap
  /\ \E panel \in createAreas :
       /\ place' = [place EXCEPT ![f] = panel]
       /\ active' = panel
  /\ UNCHANGED <<clones, split, autoAdd>>

Activate(panel) ==
  /\ panel \in createAreas
  /\ \E f \in Forms : shows(panel, f)
  /\ active' = panel
  /\ UNCHANGED <<place, clones, split, autoAdd>>

\* Closing the canonical window parks the form; a clone of it stays.
closeWindow(f) ==
  /\ open(f)
  /\ settle([place EXCEPT ![f] = "parked"], clones, active)
  /\ UNCHANGED autoAdd

closeClone(f, panel) ==
  /\ panel \in clones[f]
  /\ settle(place, [clones EXCEPT ![f] = @ \ {panel}], active)
  /\ UNCHANGED autoAdd

\* Opening a form from the project tree: the window the active panel has, else
\* the parked form again, else a clone.
openOnActivePanel(f) ==
  \/ /\ shows(active, f)
     /\ UNCHANGED <<place, clones, active>>
  \/ /\ ~shows(active, f) /\ place[f] = "parked"
     /\ \E panel \in createAreas :
          /\ place' = [place EXCEPT ![f] = panel]
          /\ active' = panel
     /\ UNCHANGED clones
  \/ /\ ~shows(active, f) /\ open(f) /\ split
     /\ clones' = [clones EXCEPT ![f] = @ \cup {active}]
     /\ UNCHANGED <<place, active>>

OpenForm(f) ==
  /\ place[f] # "absent"
  /\ openOnActivePanel(f)
  /\ UNCHANGED <<split, autoAdd>>

\* Moving a form to the other panel replaces its clone there.
moveToOtherPanel(f) ==
  /\ split /\ open(f)
  /\ settle([place EXCEPT ![f] = other(@)],
            [clones EXCEPT ![f] = @ \ {other(place[f])}], other(place[f]))
  /\ UNCHANGED autoAdd

deleteForm(f) ==
  /\ place[f] # "absent"
  /\ ~(f = AutoMap /\ autoAdd)
  /\ settle([place EXCEPT ![f] = "absent"], [clones EXCEPT ![f] = {}], active)
  /\ UNCHANGED autoAdd

-----------------------------------------------------------------------------
(* Registers added on request need the AutoMap: it is created on the left, *)
(* or opened again, and shown on the active panel.                         *)

AutoAddOn ==
  /\ ~autoAdd
  /\ autoAdd' = TRUE
  /\ UNCHANGED split
  /\ \/ open(AutoMap) /\ UNCHANGED <<place, clones, active>>
     \/ /\ place[AutoMap] = "parked"
        /\ \E panel \in createAreas :
             place' = [place EXCEPT ![AutoMap] = panel] /\ active' = panel
        /\ UNCHANGED clones
     \/ /\ place[AutoMap] = "absent"
        /\ place' = [place EXCEPT ![AutoMap] = "left"]
        /\ clones' = [clones EXCEPT ![AutoMap] = {active} \ {"left"}]
        /\ UNCHANGED active

AutoAddOff ==
  /\ autoAdd
  /\ autoAdd' = FALSE
  /\ UNCHANGED <<place, clones, split, active>>

\* The definitions stay as they are, the AutoMap goes with the other forms.
CloseProject ==
  /\ place' = [f \in Forms |-> "absent"]
  /\ clones' = [f \in Forms |-> {}]
  /\ split' = FALSE
  /\ active' = "left"
  /\ UNCHANGED autoAdd

Next ==
  \/ EnableSplit \/ DisableSplit
  \/ \E panel \in Panels : Activate(panel)
  \/ \E f \in Forms :
       \/ createForm(f) \/ OpenForm(f) \/ closeWindow(f) \/ moveToOtherPanel(f) \/ deleteForm(f)
       \/ \E panel \in Panels : closeClone(f, panel)
  \/ AutoAddOn \/ AutoAddOff \/ CloseProject

Spec == Init /\ [][Next]_vars

-----------------------------------------------------------------------------
(* What the file of the project gives when it is loaded.                   *)

\* A clone of the right panel is made again from the form with its title on the
\* left panel; when there is none, it is created as a form of its own.
cloneIsFound(f) == place[f] = "left"
formsLoaded(f) ==
  (IF place[f] = "absent" THEN 0 ELSE 1)
  + (IF "right" \in clones[f] /\ split /\ ~cloneIsFound(f) THEN 1 ELSE 0)

\* Saving and loading a project, with forms open and parked and clones on the
\* panels, gives back the forms it had.
RoundTripsForms == \A f \in Forms : formsLoaded(f) = IF place[f] = "absent" THEN 0 ELSE 1
=============================================================================
