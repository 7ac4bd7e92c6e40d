----------------------------- MODULE SimPanel ------------------------------
(***************************************************************************)
(* The logi-tf-sim processes the two front ends start and stop: the daemon *)
(* (Start and Stop in the window, d in the terminal), found again by a     *)
(* scan of /proc for its name, and the six-second test sweep, a child of   *)
(* the app that plays it (logi-wheel-gui main.rs; logi-wheel-tui app.rs;   *)
(* logi-wheel-core tfsim.rs).                                              *)
(*                                                                         *)
(* In the window a sweep runs on a thread that parks the child's pid for   *)
(* the Stop button, waits, empties the cell and posts the end of the run;  *)
(* a start or stop of the daemon is followed by a probe on a thread of its *)
(* own that polls until the scan agrees with what was asked or it gives    *)
(* up.  The terminal blocks on its own probe and reaps its sweep on ticks. *)
(* Pids are handed out in order and not used again within the bound.       *)
(***************************************************************************)
EXTENDS Naturals, Sequences, FiniteSets

CONSTANTS
  Pids,        \* 1..n: the processes that can be started
  Polls,       \* polls of a probe after the first (10 in the window)
  MaxProbes,   \* probes the window can have under way
  MaxClicks    \* bound on the user's actions

\* A pid is never 0, which stands for none; asserted where the module is used.
PidAssumption == Pids \subseteq Nat \ {0} /\ Polls \in Nat /\ MaxProbes \in Nat

VARIABLES
  procs,       \* pid -> "unused", what runs there, or "gone"
  term,        \* the pids that got SIGTERM
  running,     \* the window's setup-tf-running
  flag,        \* the window's setup-tf-sweep-running
  cell,        \* the sweep pid parked for the Stop button, 0 when empty
  thread,      \* the sweep thread: where it is, and its child
  probes,      \* the window's probes: what each expects, polls left
  posts,       \* closures queued on the window's UI thread
  child,       \* the terminal's sweep child, 0 when none
  clicks

vars == <<procs, term, running, flag, cell, thread, probes, posts, child, clicks>>

NoThread == [at |-> "none", pid |-> 0]

Alive(p) == procs[p] \in {"daemon", "sweep"}

Init ==
  /\ procs = [p \in Pids |-> "unused"] /\ term = {}
  /\ running = FALSE /\ flag = FALSE /\ cell = 0
  /\ thread = NoThread
  /\ probes = << >> /\ posts = << >>
  /\ child = 0 /\ clicks = 0

TypeOK ==
  /\ procs \in [Pids -> {"unused", "daemon", "sweep", "gone"}]
  /\ term \subseteq Pids
  /\ running \in BOOLEAN /\ flag \in BOOLEAN
  /\ cell \in Pids \cup {0} /\ child \in Pids \cup {0}
  /\ thread.at \in {"none", "spawn", "wait", "ended"} /\ thread.pid \in Pids \cup {0}
  /\ Len(probes) <= MaxProbes

----------------------------------------------------------------------------
(* Processes. *)
Free == {p \in Pids : procs[p] = "unused" /\ \A q \in Pids : q < p => procs[q] # "unused"}

Exit(p) ==
  /\ Alive(p)
  /\ procs[p] = "daemon" => p \in term    \* the daemon runs until it is told to stop
  /\ procs' = [procs EXCEPT ![p] = "gone"]
  /\ UNCHANGED <<term, running, flag, cell, thread, probes, posts, child, clicks>>

(* tfsim::daemon_pid: the lowest live pid with the daemon's name, which a  *)
(* sweep's process has too.  0 stands for None.                            *)
PidsByComm == {p \in Pids : Alive(p)}

DaemonPid ==
  IF PidsByComm = {} THEN 0 ELSE CHOOSE p \in PidsByComm : \A q \in PidsByComm : p <= q

Signal(p) == term' = IF p = 0 THEN term ELSE term \cup {p}

----------------------------------------------------------------------------
(* The window. *)
Click == clicks < MaxClicks /\ clicks' = clicks + 1

RefreshTfDaemon(expected) ==
  /\ Len(probes) < MaxProbes
  /\ probes' = Append(probes, [expect |-> expected, left |-> Polls])

StartDaemon ==
  /\ Click /\ ~running
  /\ \/ \E p \in Free : procs' = [procs EXCEPT ![p] = "daemon"]
     \/ UNCHANGED procs
  /\ RefreshTfDaemon(TRUE)
  /\ UNCHANGED <<term, running, flag, cell, thread, posts, child>>

StopDaemon ==
  /\ Click /\ running
  /\ Signal(DaemonPid)
  /\ RefreshTfDaemon(FALSE)
  /\ UNCHANGED <<procs, running, flag, cell, thread, posts, child>>

(* A probe scans again until the scan agrees or it has no poll left, then  *)
(* posts what it saw.                                                      *)
Without(s, i) == SubSeq(s, 1, i - 1) \o SubSeq(s, i + 1, Len(s))

Probe(i) ==
  /\ i \in DOMAIN probes
  /\ LET seen == DaemonPid # 0
     IN IF seen # probes[i].expect /\ probes[i].left > 0
        THEN probes' = [probes EXCEPT ![i].left = @ - 1] /\ UNCHANGED posts
        ELSE probes' = Without(probes, i) /\ posts' = Append(posts, [running |-> seen, end |-> FALSE])
  /\ UNCHANGED <<procs, term, running, flag, cell, thread, child, clicks>>

RunPost ==
  /\ posts # << >>
  /\ posts' = Tail(posts)
  /\ IF Head(posts).end THEN flag' = FALSE /\ UNCHANGED running
     ELSE running' = Head(posts).running /\ UNCHANGED flag
  /\ UNCHANGED <<procs, term, cell, thread, probes, child, clicks>>

(* The consent dialog's Continue: nothing while a sweep runs.              *)
Sweep ==
  /\ Click /\ ~flag
  /\ flag' = TRUE
  /\ thread' = [at |-> "spawn", pid |-> 0]
  /\ UNCHANGED <<procs, term, running, cell, probes, posts, child>>

SweepStopAndReset ==
  /\ Click /\ flag
  /\ Signal(cell) /\ flag' = FALSE
  /\ UNCHANGED <<procs, running, cell, thread, probes, posts, child>>

SweepStop ==
  /\ Click /\ flag
  /\ Signal(cell)
  /\ UNCHANGED <<procs, running, flag, cell, thread, probes, posts, child>>

(* run_tf_sweep's thread.  The spawn may fail, which ends the run.         *)
PostEnd == posts' = Append(posts, [running |-> FALSE, end |-> TRUE])

SpawnSweep ==
  /\ thread.at = "spawn"
  /\ \/ \E p \in Free : /\ procs' = [procs EXCEPT ![p] = "sweep"]
                        /\ thread' = [at |-> "wait", pid |-> p]
                        /\ cell' = p
                        /\ UNCHANGED posts
     \/ thread' = NoThread /\ PostEnd /\ UNCHANGED <<procs, cell>>
  /\ UNCHANGED <<term, running, flag, probes, child, clicks>>

SweepWaited ==
  /\ thread.at = "wait" /\ ~Alive(thread.pid)
  /\ thread' = [thread EXCEPT !.at = "ended"]
  /\ UNCHANGED <<procs, term, running, flag, cell, probes, posts, child, clicks>>

SweepReported ==
  /\ thread.at = "ended"
  /\ cell' = 0 /\ thread' = NoThread /\ PostEnd
  /\ UNCHANGED <<procs, term, running, flag, probes, child, clicks>>

----------------------------------------------------------------------------
(* The terminal. *)
ToggleDaemon ==
  /\ Click
  /\ IF DaemonPid # 0 THEN Signal(DaemonPid) /\ UNCHANGED procs
     ELSE /\ \/ \E p \in Free : procs' = [procs EXCEPT ![p] = "daemon"]
             \/ UNCHANGED procs
          /\ UNCHANGED term
  /\ UNCHANGED <<running, flag, cell, thread, probes, posts, child>>

TfSpawnSweep ==
  /\ Click /\ child = 0
  /\ \E p \in Free : procs' = [procs EXCEPT ![p] = "sweep"] /\ child' = p
  /\ UNCHANGED <<term, running, flag, cell, thread, probes, posts>>

TfStopSweep ==
  /\ Click /\ child # 0
  /\ Signal(child)
  /\ UNCHANGED <<procs, running, flag, cell, thread, probes, posts, child>>

TickTfSweep ==
  /\ child # 0 /\ ~Alive(child)
  /\ child' = 0
  /\ UNCHANGED <<procs, term, running, flag, cell, thread, probes, posts, clicks>>

Next ==
  \/ \E p \in Pids : Exit(p)
  \/ StartDaemon \/ StopDaemon \/ Sweep \/ SweepStop
  \/ \E i \in 1 .. MaxProbes : Probe(i)
  \/ RunPost \/ SpawnSweep \/ SweepWaited \/ SweepReported
  \/ ToggleDaemon \/ TfSpawnSweep \/ TfStopSweep \/ TickTfSweep

Spec == Init /\ [][Next]_vars

----------------------------------------------------------------------------
(* The window's run state is reset exactly once, by the thread that waited *)
(* for the sweep (run_tf_sweep): whenever the button offers another sweep, *)
(* the last one's process is gone (a sweep that still plays is the         *)
(* terminal's), its pid no longer parked, and no end of an older run is    *)
(* still queued to reset the next one's state.                             *)
SweepFlagTruthful ==
  ~flag => /\ thread = NoThread /\ cell = 0
           /\ \A i \in DOMAIN posts : ~posts[i].end
           /\ \A p \in Pids : procs[p] = "sweep" => p = child

(* "The running logi-tf-sim daemon's pid, or None while it is not running" *)
(* (tfsim::daemon_pid).                                                    *)
DaemonPidIsDaemon == DaemonPid # 0 => procs[DaemonPid] = "daemon"
============================================================================
