---------------------------- MODULE FfbKeepalive ----------------------------
(***************************************************************************)
(* The direct-drive stream of logi-tf-sim (tf.rs) and the zero-force       *)
(* effect it keeps playing on the wheel meanwhile, without which the wheel *)
(* drives itself into its stops (ffb_keepalive.rs, issue #57).  The daemon *)
(* streams with or without the effect; the sweep refuses without it.       *)
(*                                                                         *)
(* An event node has the wheel behind it, or a name that cannot be read    *)
(* yet ("appearing") or written to ("locked").  libtrueforce is what it is *)
(* asked to do: "open" has no session, "streaming" sends samples, "quiet"  *)
(* is standby, "dead" writes to a wheel that is gone.  evdev gives each    *)
(* effect a slot and frees the slots of a descriptor that is closed.       *)
(***************************************************************************)
EXTENDS Integers

CONSTANTS
  Events,      \* event node numbers
  Slots,       \* effect slots of a wheel
  MaxOpens,    \* bound on streams opened
  MaxFaults,   \* bound on failed system calls
  MaxPlugs     \* bound on what happens to the wheels and in the game

VARIABLES
  rig,       \* what is behind each event node
  target,    \* the node of the wheel libtrueforce finds at index 0
  user,      \* who opened the stream: "daemon" or "sweep"
  pc,        \* where open() or drop() is
  lib,       \* the state of the library's session
  node, id,  \* the keepalive's open node and effect, or None
  effects,   \* the effect in each slot of each wheel
  alone,     \* history: no other direct-drive wheel when the stream was opened
  opens, faults, plugs

vars == <<rig, target, user, pc, lib, node, id, effects, alone, opens, faults,
          plugs>>

None == -1
Free == "free"

\* Nodes and slots are numbered from 0; asserted where the module is used.
NodeAssumption == Events \subseteq Nat /\ Slots \subseteq Nat

DirectDrive == {"dd", "appearing", "locked"}
Wheels(kinds) == {e \in Events : rig[e] \in kinds}

\* is_dd_product, vendor and product of an entry: one that cannot be read is
\* passed over, not the end of the search.
IsDd(e) == rig[e] \in {"dd", "locked"}

\* find_dd_event_node: by number, not by name.
Found == {e \in Events : IsDd(e) /\ \A f \in Events : f < e => ~IsDd(f)}

\* drop(FfbKeepalive): stop the effect, erase it, close the node.  A stop
\* that fails is passed over; closing frees what is left.
Released(n, i) == [effects EXCEPT ![n][i] = Free]

\* A system call of the process fails.
Faulty == faults < MaxFaults /\ faults' = faults + 1
Works  == UNCHANGED faults

-----------------------------------------------------------------------------
(* TfStream::open *)

\* dllOpen and logiTrueForceAvailable.  With no wheel there, or a library
\* that does not open, the stream is not opened and nothing changes.
Open(u) ==
  /\ pc = "closed" /\ opens < MaxOpens
  /\ target # None /\ rig[target] \in DirectDrive
  /\ pc' = "find" /\ user' = u /\ lib' = "open" /\ opens' = opens + 1
  /\ alone' = (Wheels(DirectDrive) = {target})
  /\ UNCHANGED <<rig, target, node, id, effects, faults, plugs>>

\* FfbKeepalive::open, up to the open of the node.
Find ==
  /\ pc = "find"
  /\ \/ \E e \in Found : rig[e] # "locked" /\ node' = e /\ pc' = "upload"
     \/ (Found = {} \/ \E e \in Found : rig[e] = "locked") /\ pc' = "opened" /\ UNCHANGED node
  /\ UNCHANGED <<rig, target, user, lib, id, effects, opens, faults, plugs, alone>>

\* EVIOCSFF with id -1: the kernel picks a free slot.
Upload ==
  /\ pc = "upload"
  /\ \/ /\ rig[node] # "gone" /\ Works
        /\ \E s \in Slots : /\ effects[node][s] = Free
                            /\ effects' = [effects EXCEPT ![node][s] = "stopped"]
                            /\ id' = s
        /\ pc' = "play" /\ UNCHANGED node
     \/ /\ IF rig[node] # "gone" /\ \E s \in Slots : effects[node][s] = Free THEN Faulty ELSE Works
        /\ node' = None /\ pc' = "opened" /\ UNCHANGED <<id, effects>>
  /\ UNCHANGED <<rig, target, user, lib, opens, plugs, alone>>

\* play(1).ok()?: a keepalive that does not play is dropped again.
Play ==
  /\ pc = "play" /\ pc' = "opened"
  /\ \/ /\ rig[node] # "gone" /\ Works
        /\ effects' = [effects EXCEPT ![node][id] = "playing"]
        /\ UNCHANGED <<node, id>>
     \/ /\ IF rig[node] # "gone" THEN Faulty ELSE Works
        /\ effects' = Released(node, id) /\ node' = None /\ id' = None
  /\ UNCHANGED <<rig, target, user, lib, opens, plugs, alone>>

-----------------------------------------------------------------------------
(* The open stream *)

IsStabilised == id # None

\* sweep.rs refuses a stream that is not stabilised; the daemon does not.
MayDrive == user = "sweep" => IsStabilised

Refuse ==
  /\ pc = "opened" /\ ~MayDrive
  /\ pc' = "close"
  /\ UNCHANGED <<rig, target, user, lib, node, id, effects, opens, faults, plugs, alone>>

\* push: the first one starts the session and its thread.
Push ==
  /\ pc = "opened" /\ MayDrive /\ lib \in {"open", "streaming"}
  /\ rig[target] \in DirectDrive
  /\ lib' = "streaming"
  /\ UNCHANGED <<rig, target, user, pc, node, id, effects, opens, faults, plugs, alone>>

Standby ==
  /\ pc = "opened" /\ user = "daemon" /\ lib = "streaming" /\ lib' = "quiet"
  /\ UNCHANGED <<rig, target, user, pc, node, id, effects, opens, faults, plugs, alone>>

Resume ==
  /\ pc = "opened" /\ lib = "quiet" /\ lib' = "streaming"
  /\ UNCHANGED <<rig, target, user, pc, node, id, effects, opens, faults, plugs, alone>>

\* The caller drops the stream: the game ended, the sweep is over, or a push
\* to a wheel that is gone failed.
Leave ==
  /\ pc = "opened" /\ MayDrive /\ pc' = "close"
  /\ UNCHANGED <<rig, target, user, lib, node, id, effects, opens, faults, plugs, alone>>

-----------------------------------------------------------------------------
(* drop(TfStream): its body first, then its field, the keepalive *)

\* logiTrueForceClearTF, logiWheelClose, dllClose.
CloseStream ==
  /\ pc = "close" /\ pc' = "release" /\ lib' = "closed"
  /\ UNCHANGED <<rig, target, user, node, id, effects, opens, faults, plugs, alone>>

DropKeepalive ==
  /\ pc = "release" /\ pc' = "closed"
  /\ effects' = IF IsStabilised THEN Released(node, id) ELSE effects
  /\ node' = None /\ id' = None
  /\ UNCHANGED <<rig, target, user, lib, opens, faults, plugs, alone>>

\* The process is killed: the kernel closes what it had open.
Kill ==
  /\ pc # "closed" /\ pc' = "closed" /\ lib' = "closed"
  /\ effects' = IF IsStabilised THEN Released(node, id) ELSE effects
  /\ node' = None /\ id' = None
  /\ UNCHANGED <<rig, target, user, opens, faults, plugs, alone>>

-----------------------------------------------------------------------------
(* Outside the process *)

\* A wheel is unplugged: its effects are gone, and a session on it is dead.
Unplug(e) ==
  /\ plugs < MaxPlugs /\ plugs' = plugs + 1 /\ rig[e] # "gone"
  /\ rig' = [rig EXCEPT ![e] = "gone"]
  /\ effects' = [effects EXCEPT ![e] = [s \in Slots |-> Free]]
  /\ lib' = IF e = target /\ lib \in {"streaming", "quiet"} THEN "dead" ELSE lib
  /\ UNCHANGED <<target, user, pc, node, id, opens, faults, alone>>

\* A node that was appearing can be read.
Appear(e) ==
  /\ rig[e] = "appearing" /\ rig' = [rig EXCEPT ![e] = "dd"]
  /\ UNCHANGED <<target, user, pc, lib, node, id, effects, opens, faults, plugs, alone>>

\* A game uploads an effect of its own to a wheel, or erases one.
GameEffect(e, s) ==
  /\ plugs < MaxPlugs /\ plugs' = plugs + 1 /\ rig[e] # "gone"
  /\ \/ effects[e][s] = Free /\ effects' = [effects EXCEPT ![e][s] = "game"]
     \/ effects[e][s] = "game" /\ effects' = [effects EXCEPT ![e][s] = Free]
  /\ UNCHANGED <<rig, target, user, pc, lib, node, id, opens, faults, alone>>

Init ==
  /\ rig \in [Events -> DirectDrive \union {"g923", "gone"}]
  /\ target \in IF Wheels(DirectDrive) = {} THEN {None} ELSE Wheels(DirectDrive)
  /\ user = "daemon" /\ pc = "closed" /\ lib = "closed" /\ node = None /\ id = None
  /\ effects = [e \in Events |-> [s \in Slots |-> Free]]
  /\ alone = FALSE /\ opens = 0 /\ faults = 0 /\ plugs = 0

Next ==
  \/ \E u \in {"daemon", "sweep"} : Open(u)
  \/ Find \/ Upload \/ Play \/ Refuse \/ Push \/ Standby \/ Resume \/ Leave
  \/ CloseStream \/ DropKeepalive \/ Kill
  \/ \E e \in Events : Unplug(e) \/ Appear(e) \/ \E s \in Slots : GameEffect(e, s)

Spec == Init /\ [][Next]_vars

-----------------------------------------------------------------------------
TypeOK ==
  /\ rig \in [Events -> DirectDrive \union {"g923", "gone"}]
  /\ target \in Events \union {None} /\ user \in {"daemon", "sweep"}
  /\ pc \in {"closed", "find", "upload", "play", "opened", "close", "release"}
  /\ lib \in {"closed", "open", "streaming", "quiet", "dead"}
  /\ node \in Events \union {None} /\ id \in Slots \union {None}
  /\ effects \in [Events -> [Slots -> {Free, "stopped", "playing", "game"}]]
  /\ alone \in BOOLEAN
  /\ opens \in 0 .. MaxOpens /\ faults \in 0 .. MaxFaults /\ plugs \in 0 .. MaxPlugs

\* From the first sample to the last, a stream that is_stabilised plays the
\* zero force on the very wheel it streams to, if that was the only
\* direct-drive wheel attached, a G923 beside it or not (issue #57); and the
\* sweep never drives a wheel without it.
StabilisedWhileStreaming ==
  lib = "streaming" /\ alone =>
    /\ IsStabilised => effects[target][id] = "playing"
    /\ user = "sweep" => IsStabilised

\* The wheel is left with no effect of ours once the stream is dropped, and
\* no effect but ours was touched: the one slot of ours is the keepalive's.
OnlyOwnEffect ==
  \A e \in Events, s \in Slots :
    effects[e][s] \in {"stopped", "playing"} => e = node /\ s = id

-----------------------------------------------------------------------------
\* A statement of the repository the code does not keep (see the README).
\* is_stabilised: "Whether the force-feedback session that keeps this wheel
\* stable is actually held."  With two direct-drive wheels the session is held
\* on the first event node found, which need not be the wheel streamed to.
HeldOnOwnWheel == lib = "streaming" /\ IsStabilised => node = target
=============================================================================
