---------------------------- MODULE LaunchPlan ----------------------------
(***************************************************************************)
(* The setup recipe of a (game, wheel) pair: what logi-launch will do when *)
(* a game is started on the wheels attached (logi-wheel-core games.rs),    *)
(* and the --launch-plan printer the wrapper reads (logi-wheel-tui         *)
(* main.rs).  Pure functions of the game's registry row and of the rig;    *)
(* the Setup page (module SetupPage) renders the same plans.               *)
(*                                                                         *)
(* A wheel is what discovery knows of it: its model, its product id (as a  *)
(* class: listed ids by wheel, an id in neither list, or none when the     *)
(* directory name gives no id) and whether it carries wheel_range.  Notes, *)
(* labels and sentences are left out; so is the unused answer "0" of the   *)
(* raw-HID variable, whose condition (a DirectInput title without launch   *)
(* options) no registry row meets.                                         *)
(***************************************************************************)
EXTENDS Naturals, Sequences

(* What a wheel can do: follow the SDK stream, take the kernel's texture.  *)
DirectDrive == [sdk |-> TRUE, merge |-> TRUE]
XboxSdk     == [sdk |-> TRUE, merge |-> FALSE]
ClassicCaps == [sdk |-> FALSE, merge |-> FALSE]

(* With no wheel detected the general case is described.                   *)
Assumed == DirectDrive

(* The wheels discovery can return: the two direct-drive models by id, one *)
(* found without an id, the Xbox G923 before and after its mode switch,    *)
(* the PlayStation G923 with and without an id, an unidentified device.    *)
Wheel(model, pid, ranged) == [model |-> model, pid |-> pid, ranged |-> ranged]

ForWheel(model, pid) ==
  CASE model = "dd" -> DirectDrive
    [] model = "g923" /\ pid \in {"xbox", "xboxBoot"} -> XboxSdk
    [] OTHER -> ClassicCaps

(* An unknown model with the direct-drive attributes is direct drive.      *)
WheelCaps(w) ==
  IF w.model = "unknown" /\ w.ranged THEN DirectDrive ELSE ForWheel(w.model, w.pid)

(* The registry's rows, up to what the plan tells apart.                   *)
Game(linux, ffb, live) == [linux |-> linux, ffb |-> ffb, live |-> live]

Games ==
  { Game("runs", "shim", "acc"), Game("runs", "shim", "ac-evo"),
    Game("runs", "shim", "none"), Game("runs", "dinput", "lmu"),
    Game("runs", "native", "assetto"), Game("runs", "native", "f1"),
    Game("runs", "native", "none"), Game("unsupported", "shim", "none"),
    Game("unsupported", "native", "none") }

(* The games whose shared memory the relay decodes.                        *)
HasRelayDecoder(id) == id \in {"acc", "ac-evo", "assetto", "lmu"}

SetupAction(g, caps) ==
  CASE g.ffb = "shim" /\ caps.sdk -> "InstallShim"
    [] g.ffb = "shim" -> "WorksOutOfBox"
    [] g.ffb = "dinput" -> "UseLogiFfb"
    [] g.live # "none" -> "SimulatedTrueForce"
    [] OTHER -> "WorksOutOfBox"

LaunchOptions(g, caps) ==
  CASE SetupAction(g, caps) = "InstallShim" -> "hidraw"
    [] SetupAction(g, caps) = "UseLogiFfb" -> "logi-ffb"
    [] OTHER -> "none"

NoPlan == [hidraw |-> FALSE, proxy |-> FALSE, tfsim |-> FALSE, relay |-> "none",
           merge |-> FALSE, supported |-> TRUE]

(* A title the registry does not know still gets the daemon.               *)
Unknown == [NoPlan EXCEPT !.tfsim = TRUE]

(* A game whose own TrueForce reaches the wheel: the merge where hidraw is *)
(* granted, the wheel takes it and the title is the validated one; else    *)
(* the daemon for the lights only, where the relay reads the game.         *)
LightsAnyway(g, merged) == HasRelayDecoder(g.live)

LightsOnly(g, merged) == ~merged /\ HasRelayDecoder(g.live)

NativePlan(plan, g, caps) ==
  LET merged == plan.hidraw /\ caps.merge /\ g.live = "ac-evo"
      lights == LightsOnly(g, merged)
  IN [plan EXCEPT !.merge = merged, !.tfsim = lights,
                  !.relay = IF lights THEN g.live ELSE "none"]

SimulatedPlan(plan, g) ==
  [plan EXCEPT !.tfsim = g.live # "none",
               !.relay = IF HasRelayDecoder(g.live) THEN g.live ELSE "none"]

ForGame(g, caps, ambiguous) ==
  LET options == LaunchOptions(g, caps)
      plan == [NoPlan EXCEPT !.hidraw = options = "hidraw" /\ ~ambiguous,
                             !.proxy = options = "logi-ffb"]
  IN IF g.linux = "unsupported" THEN [NoPlan EXCEPT !.supported = FALSE]
     ELSE IF SetupAction(g, caps) = "InstallShim" THEN NativePlan(plan, g, caps)
     ELSE SimulatedPlan(plan, g)

(* The value of PROTON_ENABLE_HIDRAW: the id of the first wheel of this    *)
(* class that has one of the listed ids; "1" (every HID device) otherwise. *)
ListedPids == {"dd", "xbox", "ps"}

Nameable(rig, caps) ==
  {i \in DOMAIN rig : WheelCaps(rig[i]) = caps /\ rig[i].pid \in ListedPids}

HidrawScopeFor(rig, caps) ==
  LET named == Nameable(rig, caps)
  IN IF named = {} THEN "1" ELSE rig[CHOOSE i \in named : \A j \in named : i <= j].pid

(* The class --wheel names, if any.                                        *)
WheelArgs == {"dd", "xbox", "g923", "none"}

Forced(arg) ==
  CASE arg = "dd" -> DirectDrive [] arg = "xbox" -> XboxSdk [] arg = "g923" -> ClassicCaps

Kinds(rig) == {WheelCaps(rig[i]) : i \in DOMAIN rig}

(* Several kinds of wheel attached and none named.                         *)
AmbiguousNever(rig, arg) == FALSE

Ambiguous(rig, arg) == arg = "none" /\ \E v, w \in Kinds(rig) : v # w

PlanCaps(rig, arg) == IF arg # "none" THEN Forced(arg) ELSE WheelCaps(rig[1])

(* What --launch-plan prints: nothing with no wheel attached and none      *)
(* named, the unknown plan for a game the registry does not have.          *)
Printed(rig, g, arg) ==
  IF rig = << >> /\ arg = "none" THEN [plan |-> NoPlan, scope |-> "1"]
  ELSE IF g \notin Games THEN [plan |-> Unknown, scope |-> "1"]
  ELSE [plan |-> ForGame(g, PlanCaps(rig, arg), Ambiguous(rig, arg)),
        scope |-> HidrawScopeFor(rig, PlanCaps(rig, arg))]

(* The attached wheels Proton hands to the game as raw HID devices.        *)
HandedOver(rig, p) ==
  IF ~p.plan.hidraw THEN {}
  ELSE {rig[i] : i \in {j \in DOMAIN rig : p.scope \in {"1", rig[j].pid}}}

----------------------------------------------------------------------------
(* Raw HID is never handed a wheel that cannot be driven through it: that  *)
(* costs its owner force feedback (games.rs, WheelCaps).  Whatever the rig,*)
(* for every game, unless the user names a class of which no attached      *)
(* wheel can be named, the printed plan hands over only wheels that follow *)
(* the SDK stream.                                                         *)
SparesClassic(rig) ==
  \A g \in Games, arg \in WheelArgs :
    (arg = "none" \/ Nameable(rig, Forced(arg)) # {}) =>
      \A w \in HandedOver(rig, Printed(rig, g, arg)) : WheelCaps(w).sdk

(* One driver of the rev lights and of the texture: the kernel merge comes *)
(* only with raw HID and never beside the daemon, and the relay only with  *)
(* the daemon that listens to it.                                          *)
OneDriver(rig) ==
  \A g \in Games, arg \in WheelArgs :
    LET p == Printed(rig, g, arg).plan
    IN (p.merge => p.hidraw /\ ~p.tfsim) /\ (p.relay # "none" => p.tfsim)
============================================================================
