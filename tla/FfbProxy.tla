------------------------------ MODULE FfbProxy ------------------------------
(***************************************************************************)
(* logi-ffb: a virtual wheel whose force feedback is played on the real    *)
(* one.  The kernel's PID layer asks over uhid and blocks until the poll   *)
(* loop answers; the loop hands every decoded report to a sink thread      *)
(* through an unbounded channel and answers at once, so what the host was  *)
(* told runs ahead of what the real wheel has been given.                  *)
(*                                                                         *)
(* A report's fields are abstracted to two groups, set by two reports: the *)
(* effect itself ("shape") and its strength ("force").                     *)
(***************************************************************************)
EXTENDS Integers, Sequences, FiniteSets

CONSTANTS Width,      \* block indices are counted modulo Width (256)
          Slots,      \* effects the real wheel holds
          Forces,     \* values a field group is set to, zero among them
          Depth,      \* bounds of the model: the queue to the sink,
          MaxCreates, MaxAsks, MaxFaults  \* and what the host and the wheel do

\* What the proofs assume: no block index is given out a second time while its
\* first effect may still be there.
BlockAssumption == Width \in Nat /\ MaxCreates \in Nat /\ MaxCreates < Width

None   == -1
Blocks == 0..(Width - 1)
Ids    == 0..(Slots - 1)

Quiet == [op |-> "none"]   \* the kernel is not waiting

Blank == [shape |-> 0, force |-> 0]

VARIABLES
  proc,       \* run_game: "start", "running", "draining", "gone"
  reg,        \* user.reg: None when there is none, else its disabling lines
  nextBlock, lastBlock,    \* Proxy
  queue,      \* ops sent to the sink worker and not applied
  kinds, params, ids,      \* Sink: created blocks, their fields, kernel ids
  wheel,      \* the real wheel: loaded effects by id, and what plays
  gain,       \* its device gain, which outlives every program
  asking,     \* the request the kernel is blocked on, or Quiet
  host,       \* history: the host's blocks, fields and players, by block
  missed,     \* history: blocks the wheel refused something of
  report, virtual, real,   \* input: the frame being folded, sent, and true
  creates, asks, faults

sink    == <<kinds, params, ids, wheel, gain, missed>>
proxy   == <<nextBlock, lastBlock, queue>>
hostv   == <<asking, host, creates, asks>>
input   == <<report, virtual, real>>
vars == <<proc, reg, nextBlock, lastBlock, queue, kinds, params, ids, wheel, gain,
          asking, host, missed, report, virtual, real, creates, asks, faults>>

Map0 == [b \in {} |-> Blank]

With(f, k, v)  == [x \in DOMAIN f \cup {k} |-> IF x = k THEN v ELSE f[x]]
Without(f, k)  == [x \in DOMAIN f \ {k} |-> f[x]]
Default(f, k)  == IF k \in DOMAIN f THEN f ELSE With(f, k, Blank)

Init ==
  /\ proc = "start" /\ reg \in {None, 0}
  /\ nextBlock = 1 % Width /\ lastBlock = 0 /\ queue = <<>>
  /\ kinds = {} /\ params = Map0 /\ ids = Map0
  /\ wheel = [loaded |-> Map0, playing |-> {}] /\ gain \in {0, 1}
  /\ asking = Quiet /\ host = [fx |-> Map0, playing |-> {}] /\ missed = {}
  /\ report = 0 /\ virtual = 0 /\ real = 0
  /\ creates = 0 /\ asks = 0 /\ faults = 0

\* steering::apply: a line written once, and only into a prefix that exists.
Steered(r) == IF r = None THEN None ELSE IF r > 0 THEN r ELSE 1

\* /sys/class/input: event nodes of the wheel and of its siblings.
Nodes == [event : 1..2, wheel : BOOLEAN, ff : BOOLEAN]

\* discover_wheel: the first node that is a wheel and takes effects.
DiscoverWheel(nodes) ==
  LET fit == {n \in nodes : n.wheel /\ n.ff}
  IN {n \in fit : \A k \in fit : n.event <= k.event}

\* run_game and Proxy::new: the steering before the proxy; Sink::open sets
\* full gain.  Without a wheel, or when a device does not open, it ends.
Launch ==
  /\ proc = "start"
  /\ reg' = Steered(reg)
  /\ \E nodes \in SUBSET Nodes :
       \/ DiscoverWheel(nodes) # {} /\ proc' = "running" /\ gain' = 1
       \/ UNCHANGED <<proc, gain>>
  /\ UNCHANGED <<proxy, kinds, params, ids, wheel, missed, hostv, input, faults>>

(***************************************************************************)
(* The host, external: one request at a time, blocked until it is          *)
(* answered.  It frees what it created and resets with nothing loaded.     *)
(***************************************************************************)
Ask(op) ==
  /\ proc = "running" /\ asking = Quiet /\ asks < MaxAsks
  /\ asking' = op /\ asks' = asks + 1
  /\ UNCHANGED <<proc, reg, proxy, sink, input, faults>>

Requests ==
  {[op |-> "set", block |-> b, field |-> f, value |-> v] :
     b \in DOMAIN host.fx, f \in {"shape", "force"}, v \in Forces}
  \cup {[op |-> o, block |-> b] : o \in {"start", "stop", "free"}, b \in DOMAIN host.fx}
  \cup {[op |-> o] : o \in {"stopall", "disable", "enable", "unknown"}}
  \cup {[op |-> "reset"] : x \in IF host.fx = Map0 THEN {1} ELSE {}}

HostWants(r) ==
  CASE r.op = "set"   -> [host EXCEPT !.fx[r.block] = [@ EXCEPT ![r.field] = r.value]]
    [] r.op = "start" -> [host EXCEPT !.playing = @ \cup {r.block}]
    [] r.op = "stop"  -> [host EXCEPT !.playing = @ \ {r.block}]
    [] r.op = "free"  -> [fx |-> Without(host.fx, r.block), playing |-> host.playing \ {r.block}]
    [] r.op = "stopall" -> [host EXCEPT !.playing = {}]
    [] OTHER -> host

HostAsks ==
  \/ \E r \in Requests : Ask(r) /\ host' = HostWants(r) /\ UNCHANGED creates
  \/ /\ creates < MaxCreates /\ creates' = creates + 1
     /\ Ask([op |-> "create"]) /\ UNCHANGED host

(***************************************************************************)
(* The poll loop: one uhid event read, decoded, handed over and answered.  *)
(***************************************************************************)
AssignedBlock == nextBlock

Following(n) == (n + 1) % Width

Restarted(op) == op = "reset"

\* A report that does not decode is acknowledged all the same.
Acknowledged(r) == Quiet

LeftWaiting(r) == IF r.op = "unknown" THEN r ELSE Quiet

Answer(r) == Acknowledged(r)

\* Create New Effect, the block index assigned here, and the PID Block Load
\* the host reads it back with; the host's view is what it was told.
ServeCreate ==
  /\ proc = "running" /\ asking # Quiet /\ asking.op = "create" /\ Len(queue) < Depth
  /\ nextBlock' = Following(nextBlock) /\ lastBlock' = AssignedBlock
  /\ queue' = Append(queue, [op |-> "create", block |-> AssignedBlock])
  /\ asking' = Answer(asking)
  /\ host' = [host EXCEPT !.fx = With(@, lastBlock', Blank)]
  /\ UNCHANGED <<proc, reg, sink, input, creates, asks, faults>>

\* Every other report: dispatch, then the acknowledgement.
Serve ==
  /\ proc = "running" /\ asking # Quiet /\ asking.op # "create" /\ Len(queue) < Depth
  /\ queue' = IF asking.op = "unknown" THEN queue ELSE Append(queue, asking)
  /\ nextBlock' = IF Restarted(asking.op) THEN 1 ELSE nextBlock
  /\ lastBlock' = IF Restarted(asking.op) THEN 0 ELSE lastBlock
  /\ asking' = Answer(asking)
  /\ UNCHANGED <<proc, reg, sink, input, host, creates, asks, faults>>

\* The game ends, a signal comes, or the wheel is unplugged.
StopLoop ==
  /\ proc = "running" /\ proc' = "draining"
  /\ UNCHANGED <<reg, proxy, sink, hostv, input, faults>>

(***************************************************************************)
(* The real wheel's input: events folded into a report, which goes up when *)
(* a frame ends among those read.                                          *)
(***************************************************************************)
WheelMoves ==
  /\ proc = "running" /\ asks < MaxAsks /\ asks' = asks + 1
  /\ real' = 1 - real
  /\ UNCHANGED <<proc, reg, proxy, sink, asking, host, creates, report, virtual, faults>>

ReadSource ==
  /\ proc = "running" /\ report # real
  /\ report' = real /\ virtual' = real
  /\ UNCHANGED <<proc, reg, proxy, sink, hostv, real, faults>>

(***************************************************************************)
(* The sink worker: Sink::apply in the order of the queue.                 *)
(***************************************************************************)
\* to_ff_effect and EVIOCSFF: the whole effect from the accumulated fields,
\* under the id it has or a free one; the kernel may refuse.
Uploads(b, p) ==
  LET free == Ids \ DOMAIN wheel.loaded
  IN /\ b \in kinds
     /\ \E id \in IF b \in DOMAIN ids THEN {ids[b]}
                 ELSE {i \in free : \A j \in free : i <= j} :
          /\ ids' = With(ids, b, id)
          /\ wheel' = [wheel EXCEPT !.loaded = With(@, id, p[b])]
     /\ missed' = missed \ {<<b, "fields">>}
     /\ UNCHANGED faults

Refused(b, what) ==
  /\ missed' = missed \cup {<<b, what>>}
  /\ UNCHANGED <<ids, wheel>>

\* Only the kernel's answer is a fault of the wheel's.
KernelRefuses(b, what) == faults < MaxFaults /\ faults' = faults + 1 /\ Refused(b, what)

OutOfSlots(b) == b \in kinds /\ b \notin DOMAIN ids /\ Ids \subseteq DOMAIN wheel.loaded

Stored(b, field, value) ==
  [Default(params, b) EXCEPT ![b] = [@ EXCEPT ![field] = value]]

StoredOverBlank(b, field, value) ==
  With(params, b, [Blank EXCEPT ![field] = value])

Fields(b, field, value) == Stored(b, field, value)

ApplySet(r) ==
  /\ params' = Fields(r.block, r.field, r.value)
  /\ \/ Uploads(r.block, params')
     \/ KernelRefuses(r.block, "fields")
     \/ OutOfSlots(r.block) /\ Refused(r.block, "fields") /\ UNCHANGED faults
  /\ UNCHANGED <<kinds, gain>>

\* Effect Operation: an effect that was never uploaded cannot be played.
ApplyPlay(r) ==
  /\ IF r.block \in DOMAIN ids
       THEN /\ wheel' = [wheel EXCEPT !.playing = IF r.op = "start" THEN @ \cup {ids[r.block]}
                                                  ELSE @ \ {ids[r.block]}]
            /\ UNCHANGED missed
       ELSE /\ missed' = missed \cup {<<r.block, "play">>} /\ UNCHANGED wheel
  /\ UNCHANGED <<kinds, params, ids, gain, faults>>

Erased(w, gone) == [loaded  |-> [i \in DOMAIN w.loaded \ gone |-> w.loaded[i]],
                    playing |-> w.playing \ gone]

ApplyFree(r) ==
  /\ kinds' = kinds \ {r.block} /\ params' = Without(params, r.block)
  /\ ids' = Without(ids, r.block)
  /\ wheel' = IF r.block \in DOMAIN ids THEN Erased(wheel, {ids[r.block]}) ELSE wheel
  /\ missed' = {m \in missed : m[1] # r.block}
  /\ UNCHANGED <<gain, faults>>

Known == {ids[b] : b \in DOMAIN ids}

\* Device Reset and Sink::shutdown end alike: nothing loaded, full gain.
Emptied(g) ==
  /\ wheel' = Erased(wheel, Known)
  /\ kinds' = {} /\ params' = Map0 /\ ids' = Map0 /\ missed' = {} /\ gain' = g
  /\ UNCHANGED faults

FullGain == 1

ZeroGain == 0

HandedBackGain == FullGain

Apply ==
  /\ proc \in {"running", "draining"} /\ queue # <<>> /\ queue' = Tail(queue)
  /\ LET r == Head(queue)
     IN \/ r.op = "create" /\ kinds' = kinds \cup {r.block} /\ params' = Default(params, r.block)
             /\ UNCHANGED <<ids, wheel, gain, missed, faults>>
        \/ r.op = "set" /\ ApplySet(r)
        \/ r.op \in {"start", "stop"} /\ ApplyPlay(r)
        \/ r.op = "free" /\ ApplyFree(r)
        \/ r.op = "stopall" /\ wheel' = [wheel EXCEPT !.playing = @ \ Known]
             /\ UNCHANGED <<kinds, params, ids, gain, missed, faults>>
        \/ r.op \in {"disable", "enable"} /\ gain' = (IF r.op = "enable" THEN 1 ELSE 0)
             /\ UNCHANGED <<kinds, params, ids, wheel, missed, faults>>
        \/ r.op = "reset" /\ Emptied(1)
  /\ UNCHANGED <<proc, reg, nextBlock, lastBlock, hostv, input>>

\* The channel is closed and empty: Sink::shutdown, and the loop joins it.
Shutdown ==
  /\ proc = "draining" /\ queue = <<>> /\ proc' = "gone"
  /\ Emptied(HandedBackGain)
  /\ asking' = Quiet
  /\ UNCHANGED <<reg, proxy, host, creates, asks, input>>

\* The user plays again; the next process starts from nothing of its own.
Relaunch ==
  /\ proc = "gone" /\ asks < MaxAsks /\ asks' = asks + 1 /\ proc' = "start"
  /\ reg' \in {reg, IF reg = None THEN 0 ELSE reg}
  /\ nextBlock' = 1 % Width /\ lastBlock' = 0
  /\ host' = [fx |-> Map0, playing |-> {}] /\ report' = 0 /\ virtual' = 0
  /\ UNCHANGED <<queue, sink, asking, creates, real, faults>>

Next == Launch \/ HostAsks \/ ServeCreate \/ Serve \/ StopLoop \/ WheelMoves
          \/ ReadSource \/ Apply \/ Shutdown \/ Relaunch

\* The loop polls, the worker is a thread of its own.
Spec == Init /\ [][Next]_vars
          /\ WF_vars(ServeCreate) /\ WF_vars(Serve) /\ WF_vars(Apply) /\ WF_vars(Shutdown)

-----------------------------------------------------------------------------
Settled == proc = "running" /\ queue = <<>> /\ asking = Quiet

(***************************************************************************)
(* Once the sink has caught up, the real wheel holds the effect the host   *)
(* set, every field of it, however many reports it came in and whatever    *)
(* the wheel refused before its last report; and it plays what the host    *)
(* plays, and nothing of a freed block.                                    *)
(***************************************************************************)
WheelFollowsHost ==
  Settled =>
    /\ \A b \in DOMAIN host.fx :
         /\ b \in kinds
         /\ b \in DOMAIN ids /\ <<b, "fields">> \notin missed =>
              wheel.loaded[ids[b]] = host.fx[b]
         /\ b \in DOMAIN ids /\ <<b, "play">> \notin missed =>
              (ids[b] \in wheel.playing <=> b \in host.playing)
    /\ DOMAIN wheel.loaded = Known /\ DOMAIN ids \subseteq DOMAIN host.fx

(***************************************************************************)
(* The wheel is handed back with nothing loaded and at full gain, whatever *)
(* was still queued when the game ended and whether or not the host had    *)
(* disabled the actuators (the gain outlives the program).                 *)
(***************************************************************************)
WheelHandedBack ==
  proc = "gone" => wheel.loaded = Map0 /\ wheel.playing = {} /\ gain = 1

(***************************************************************************)
(* A host blocked on a request is answered, one whose report means nothing *)
(* included, or the device goes away.                                      *)
(***************************************************************************)
HostWaits == asking # Quiet

HostAnswered == HostWaits ~> ~HostWaits

(***************************************************************************)
(* Block indices are valid: proxy.rs says of next_block that it "Starts at *)
(* 1 (0 is not a valid Effect Block Index per the descriptor's logical     *)
(* range)".                                                                *)
(***************************************************************************)
BlockIndexValid == 0 \notin DOMAIN host.fx
=============================================================================
