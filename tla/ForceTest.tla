------------------------------ MODULE ForceTest ------------------------------
(***************************************************************************)
(* The force test of the Info page: logi-wheel-core fftest.rs plays a      *)
(* table of steps on the wheel from a thread of its own, and the window    *)
(* (logi-wheel-gui main.rs run_test_sim) starts it, shows its plan and     *)
(* stops it through a flag it keeps in a cell.  The thread talks to the    *)
(* window by posting closures to its event loop, run later and in order.   *)
(*                                                                         *)
(* A step is a list of device calls, any of which may fail, followed by    *)
(* the calls that undo it.  The wheel moves while a step plays: what       *)
(* matters is what is left on it when the thread is done.                  *)
(***************************************************************************)
EXTENDS Integers, Sequences

CONSTANTS Steps,       \* the table: the action of each row
          MaxRuns, MaxFaults   \* bounds of the model

\* What the proofs assume: the table is one of StepActions.
StepsAssumption == Steps \in Seq({"effect", "mixed", "gain", "auto"})

None    == 0
Full    == 2           \* SIM_GAIN_FULL; 1 is the gain the demo plays at
Demo    == 1
Off     == 0           \* the autocenter's strength between steps
Unknown == 0           \* the gain somebody left before
Rows    == DOMAIN Steps

VARIABLES
  wheel,      \* gain, autocenter, and the effects uploaded and playing
  plugged,
  can,        \* ff_bits: the rows the wheel can play
  thread,     \* the sequence thread
  running,    \* the window's test-sim-running
  cell,       \* the cancel cell: the flag of a run, or None
  flags,      \* the flags raised, by run
  posts,      \* closures the event loop has yet to run
  plan,       \* the rows as the thread last folded them
  stopRow,    \* history: the row being played when Stop was pressed
  dirty,      \* history: the calls that undo a step that failed
  runs, faults

bounds == <<runs, faults>>
vars == <<wheel, plugged, can, thread, running, cell, flags, posts, plan, stopRow, dirty,
          runs, faults>>

(***************************************************************************)
(* The table.  A step's calls, and the calls that follow whatever          *)
(* happened.                                                               *)
(***************************************************************************)
Body(action) ==
  CASE action = "effect" -> <<"upload_a", "play_a", "wait">>
    [] action = "mixed"  -> <<"upload_a", "upload_b", "play_a", "play_b", "wait">>
    [] action = "gain"   -> <<"upload_a", "play_a", "wait", "gain_demo", "wait">>
    [] action = "auto"   -> <<"auto_on", "wait">>

Cleanup(action) ==
  CASE action = "effect" -> <<"stop_a", "erase_a">>
    [] action = "mixed"  -> <<"stop_a", "stop_b", "erase_a", "erase_b">>
    [] action = "gain"   -> <<"stop_a", "erase_a", "gain_full">>
    [] action = "auto"   -> <<"auto_off">>

\* What is left to undo when a call of the body fails.
UndoneAfter(action, call) ==
  CASE call = "upload_a" -> <<>>
    [] call = "upload_b" -> <<"stop_a", "erase_a">>
    [] OTHER             -> Cleanup(action)

UndoneButFirst(action, call) ==
  IF call \in {"upload_a", "upload_b"} THEN <<>> ELSE Cleanup(action)

Undone(action, call) == UndoneAfter(action, call)

\* A call's effect on the wheel.
Done(call) ==
  CASE call = "upload_a"  -> [wheel EXCEPT !.effects = @ \cup {"a"}]
    [] call = "upload_b"  -> [wheel EXCEPT !.effects = @ \cup {"b"}]
    [] call = "play_a"    -> [wheel EXCEPT !.playing = @ \cup {"a"}]
    [] call = "play_b"    -> [wheel EXCEPT !.playing = @ \cup {"b"}]
    [] call = "stop_a"    -> [wheel EXCEPT !.playing = @ \ {"a"}]
    [] call = "stop_b"    -> [wheel EXCEPT !.playing = @ \ {"b"}]
    [] call = "erase_a"   -> [wheel EXCEPT !.effects = @ \ {"a"}, !.playing = @ \ {"a"}]
    [] call = "erase_b"   -> [wheel EXCEPT !.effects = @ \ {"b"}, !.playing = @ \ {"b"}]
    [] call = "gain_demo" -> [wheel EXCEPT !.gain = Demo]
    [] call = "gain_full" -> [wheel EXCEPT !.gain = Full]
    [] call = "auto_on"   -> [wheel EXCEPT !.auto = Full]
    [] call = "auto_off"  -> [wheel EXCEPT !.auto = Off]

\* The thread's place, the row, the flag it was given, the calls it has still
\* to make and, of the step's result, what it knows so far.
Ended == [at |-> "ended", row |-> 0, run |-> None, todo |-> <<>>, result |-> "completed"]

\* SequenceProgress::new.
AllPending == [r \in Rows |-> "pending"]

Init ==
  /\ wheel = [gain |-> Unknown, auto |-> Off, effects |-> {}, playing |-> {}]
  /\ plugged = TRUE /\ can \in SUBSET Rows
  /\ thread = Ended /\ running = FALSE /\ cell = None /\ flags = {} /\ posts = <<>>
  /\ plan = AllPending /\ stopRow = 0 /\ dirty = FALSE /\ runs = 0 /\ faults = 0

(***************************************************************************)
(* The window.                                                             *)
(***************************************************************************)
\* run_test_sim.
StartTest ==
  /\ ~running /\ plugged /\ runs < MaxRuns
  /\ running' = TRUE /\ runs' = runs + 1 /\ cell' = runs' /\ plan' = AllPending
  /\ thread' = [Ended EXCEPT !.at = "open", !.run = runs'] /\ stopRow' = 0
  /\ UNCHANGED <<wheel, plugged, can, flags, posts, dirty, faults>>

\* on_test_sim_stop.
StopTest ==
  /\ running /\ cell # None /\ flags' = flags \cup {cell}
  /\ stopRow' = IF cell = thread.run /\ cell \notin flags THEN thread.row ELSE stopRow
  /\ UNCHANGED <<wheel, plugged, can, thread, running, cell, posts, plan, dirty, bounds>>

\* The event loop runs the next closure: a plan to draw, or the end of the run.
RunPost ==
  /\ posts # <<>> /\ posts' = Tail(posts)
  /\ running' = IF Head(posts) = "reset" THEN FALSE ELSE running
  /\ UNCHANGED <<wheel, plugged, can, thread, cell, flags, plan, stopRow, dirty, bounds>>

Unplug ==
  /\ plugged /\ faults < MaxFaults /\ faults' = faults + 1 /\ plugged' = FALSE
  /\ UNCHANGED <<wheel, can, thread, running, cell, flags, posts, plan, stopRow, dirty, runs>>

(***************************************************************************)
(* The thread: run_test_sequence and run_sequence.                         *)
(***************************************************************************)
Cancelled == thread.run \in flags

window == <<running, cell, flags, posts>>

\* A call may fail although the wheel is there.
May(call) == plugged /\ wheel' = Done(call) /\ UNCHANGED faults

Cannot ==
  /\ UNCHANGED wheel
  /\ \/ ~plugged /\ UNCHANGED faults
     \/ plugged /\ faults < MaxFaults /\ faults' = faults + 1

\* SequenceProgress::apply: an event folds into the state of its row.
RowIs(r, state) == plan' = [plan EXCEPT ![r] = state]

At(where) == thread' = [thread EXCEPT !.at = where]

\* ff_bits first: the rows the wheel cannot play are skipped, and a wheel that
\* can play none is left alone; then the gain, which somebody may have left at 0.
OpenDevice ==
  /\ thread.at = "open"
  /\ \/ /\ plugged /\ plan' = [r \in Rows |-> IF r \in can THEN "pending" ELSE "skipped"]
        /\ IF can = {} THEN At("finish") /\ UNCHANGED <<wheel, faults>>
           ELSE \/ May("gain_full") /\ At("row")
                \/ Cannot /\ At("finish")
     \/ Cannot /\ At("finish") /\ UNCHANGED plan
  /\ UNCHANGED <<plugged, can, window, stopRow, dirty, runs>>

\* The next row that is not skipped, unless the run has been cancelled.
GoesOn == ~Cancelled

NextRow ==
  /\ thread.at = "row"
  /\ LET left == {r \in can : r > thread.row}
     IN IF left = {} \/ ~GoesOn THEN At("finish") /\ UNCHANGED plan
        ELSE LET r == CHOOSE x \in left : \A y \in left : x <= y
             IN /\ thread' = [thread EXCEPT !.at = "countdown", !.row = r]
                /\ RowIs(r, "countdown")
  /\ UNCHANGED <<wheel, plugged, can, window, stopRow, dirty, bounds>>

\* wait_out over the countdown's ticks.
Countdown ==
  /\ thread.at = "countdown"
  /\ IF Cancelled THEN At("finish") /\ UNCHANGED plan
     ELSE /\ thread' = [thread EXCEPT !.at = "step", !.todo = Body(Steps[thread.row])]
          /\ RowIs(thread.row, "playing")
  /\ UNCHANGED <<wheel, plugged, can, window, stopRow, dirty, bounds>>

Action == Steps[thread.row]
Call   == Head(thread.todo)

\* A wait of the step: it runs out, or the flag cuts the step short.
Wait ==
  /\ thread.at = "step" /\ thread.todo # <<>> /\ Call = "wait"
  /\ \/ thread' = [thread EXCEPT !.todo = Tail(@)]
     \/ Cancelled /\ thread' = [thread EXCEPT !.todo = <<>>, !.result = "cancelled"]
  /\ UNCHANGED <<wheel, plugged, can, window, plan, stopRow, dirty, bounds>>

\* run_effect_step and its kin: a failed call leaves the rest of the body out.
StepCall ==
  /\ thread.at = "step" /\ thread.todo # <<>> /\ Call # "wait"
  /\ \/ May(Call) /\ thread' = [thread EXCEPT !.todo = Tail(@)]
     \/ /\ Cannot
        /\ thread' = [thread EXCEPT !.at = "undo", !.todo = Undone(Action, Call),
                                    !.result = "failed"]
  /\ UNCHANGED <<plugged, can, window, plan, stopRow, dirty, runs>>

BodyEnds ==
  /\ thread.at = "step" /\ thread.todo = <<>>
  /\ thread' = [thread EXCEPT !.at = "undo", !.todo = Cleanup(Action)]
  /\ UNCHANGED <<wheel, plugged, can, window, plan, stopRow, dirty, bounds>>

\* Every undoing call is made, whatever became of the ones before it; only the
\* ones that restore the gain and the autocenter say so when they fail.
UndoCall ==
  /\ thread.at = "undo" /\ thread.todo # <<>>
  /\ \/ May(Call) /\ thread' = [thread EXCEPT !.todo = Tail(@)] /\ UNCHANGED dirty
     \/ /\ Cannot /\ dirty' = TRUE
        /\ thread' = [thread EXCEPT !.todo = Tail(@),
                                    !.result = IF Call \in {"gain_full", "auto_off"}
                                                  THEN "failed" ELSE @]
  /\ UNCHANGED <<plugged, can, window, plan, stopRow, runs>>

StepEnds ==
  /\ thread.at = "undo" /\ thread.todo = <<>>
  /\ thread' = [thread EXCEPT !.at = IF thread.result = "completed" THEN "row" ELSE "finish",
                              !.result = "completed"]
  /\ IF thread.result = "failed" THEN UNCHANGED plan ELSE RowIs(thread.row, "done")
  /\ UNCHANGED <<wheel, plugged, can, window, stopRow, dirty, bounds>>

\* The run is over: the cell is emptied, and then the window told.
Finishing ==
  \/ thread.at = "finish" /\ cell' = None /\ At("reset") /\ UNCHANGED posts
  \/ thread.at = "reset" /\ posts' = Append(posts, "reset") /\ thread' = Ended /\ UNCHANGED cell

\* Closing the node erases what was uploaded through it.
Finish ==
  /\ Finishing
  /\ wheel' = [wheel EXCEPT !.effects = {}, !.playing = {}]
  /\ UNCHANGED <<plugged, can, running, flags, plan, stopRow, dirty, bounds>>

Thread == OpenDevice \/ NextRow \/ Countdown \/ Wait \/ StepCall \/ BodyEnds \/ UndoCall
            \/ StepEnds \/ Finish

Next == StartTest \/ StopTest \/ RunPost \/ Unplug \/ Thread

\* The thread is scheduled, and the event loop runs.
Spec == Init /\ [][Next]_vars /\ WF_vars(Thread) /\ WF_vars(RunPost)

-----------------------------------------------------------------------------
(***************************************************************************)
(* Properties.                                                             *)
(***************************************************************************)
(***************************************************************************)
(* "Always cleaning up whatever it touched": between two rows, and when    *)
(* the run is over, however it ended, nothing of a step is left on the     *)
(* wheel, unless the wheel is gone or refused an undoing call itself.      *)
(***************************************************************************)
WheelLeftQuiet ==
  thread.at \notin {"step", "undo"} /\ plugged /\ ~dirty
    => wheel.effects = {} /\ wheel.playing = {} /\ wheel.auto = Off /\ wheel.gain # Demo

(***************************************************************************)
(* Stop stops the run where it is: "in every case the sequence stops right *)
(* there rather than continuing to the next row", and the flag in the cell *)
(* is always that of the run being played.                                 *)
(***************************************************************************)
StopsRightThere ==
  thread.run # None =>
    /\ thread.run \in flags => thread.row = stopRow
    /\ thread.at \notin {"reset", "ended"} => cell = thread.run

(***************************************************************************)
(* A stopped run ends and gives the window back its buttons.               *)
(***************************************************************************)
StopAsked == thread.run # None /\ Cancelled

ButtonsBack == ~running

StopReturns == StopAsked ~> ButtonsBack

(***************************************************************************)
(* "None before anything starts and once the whole run has ended" (the doc *)
(* of SequenceProgress.current): no row of the plan still counts down or   *)
(* plays once the run is over.                                             *)
(***************************************************************************)
PlanAtRest == thread = Ended => \A r \in Rows : plan[r] \notin {"countdown", "playing"}
=============================================================================
