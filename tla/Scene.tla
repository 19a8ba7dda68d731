------------------------------- MODULE Scene -------------------------------
(***************************************************************************)
(* The parts of the service that share no step with each other are checked *)
(* side by side.  A behaviour is about one of them: its scene, chosen at   *)
(* the start.  The variables x1, x2, ... are those of the scene's module,  *)
(* in the order it declares them; the rest stay unused.                    *)
(***************************************************************************)
EXTENDS Integers

CONSTANTS Scenes        \* the scenes a run is about

VARIABLES scene, x1, x2, x3, x4, x5, x6, x7, x8, x9, x10, x11, x12, x13, x14

services == <<scene, x1, x2, x3, x4, x5, x6, x7, x8, x9, x10, x11, x12, x13, x14>>

At(s) == scene = s

\* What a module with 4, 6, ... variables leaves alone.
Beyond4  == <<scene, x5, x6, x7, x8, x9, x10, x11, x12, x13, x14>>
Beyond6  == <<scene, x7, x8, x9, x10, x11, x12, x13, x14>>
Beyond7  == <<scene, x8, x9, x10, x11, x12, x13, x14>>
Beyond10 == <<scene, x11, x12, x13, x14>>
Beyond11 == <<scene, x12, x13, x14>>
Beyond12 == <<scene, x13, x14>>
Beyond13 == <<scene, x14>>
Beyond14 == <<scene>>

Unused13 == x14 = 0
Unused12 == x13 = 0 /\ Unused13
Unused11 == x12 = 0 /\ Unused12
Unused10 == x11 = 0 /\ Unused11
Unused7  == x8 = 0 /\ x9 = 0 /\ x10 = 0 /\ Unused10
Unused6  == x7 = 0 /\ Unused7
Unused4  == x5 = 0 /\ x6 = 0 /\ Unused6
=============================================================================
