----------------------------- MODULE SetupPage -----------------------------
(***************************************************************************)
(* The GUI's Setup page, "Your games" (logi-wheel-gui main.rs, bridge.rs): *)
(* launcher scans run on threads of their own, any number at once, and     *)
(* post their rows to the UI thread; the shim installer runs on a thread   *)
(* and starts a scan when it ends; every edit of a configuration file      *)
(* rebuilds the rows on the UI thread from the cached scan; and the worker *)
(* announces which wheel is managed, whose capabilities decide each row's  *)
(* recipe (module LaunchPlan).                                             *)
(*                                                                         *)
(* The rows are kept as what they were built from: the capabilities, the   *)
(* raw-HID scope, the games with the shim, the simulated-TrueForce switch, *)
(* the rev-light style and the relay.  One switch, one style and one relay *)
(* stand for each game's.                                                  *)
(***************************************************************************)
EXTENDS LaunchPlan

CONSTANTS
  Wheels,      \* the wheels that can be attached
  Prefixes,    \* the wine prefixes of the discovered games
  Threads,     \* the launcher scans that can run at once
  MaxClicks,   \* bound on the user's actions
  MaxPlugs     \* bound on replugs and switches of the managed wheel

VARIABLES
  rig,         \* the wheels attached, in discovery order
  caps,        \* the managed wheel's capabilities, as the worker reported
  shim,        \* disk: the prefixes with the shim installed
  sim, rev,    \* disk: tf-sim.conf's switch, launch.conf's rev-light style
  relay,       \* disk: the relay is in the prefix
  cache,       \* GamesCache: the games of the last scan stored
  scans,       \* each scan thread: where it is and what it has read
  posts,       \* closures queued on the UI thread
  rows,        \* what setup-games was last built from
  cmd,         \* the installer thread: the command it runs, if any
  running,     \* setup-shim-running
  clicks, plugs

vars == <<rig, caps, shim, sim, rev, relay, cache, scans, posts, rows, cmd,
          running, clicks, plugs>>

(* A product id of the tables belongs to one kind of wheel.                *)
WheelAssumption ==
  \A v, w \in Wheels : v.pid = w.pid /\ v.pid \in ListedPids =>
                         WheelCaps(v) = WheelCaps(w)

NoCommand == [op |-> "none", prefix |-> "none"]

Idle == [at |-> "idle", shim |-> {}, sim |-> FALSE, rev |-> "bar"]

Empty == [caps |-> Assumed, scope |-> "1", shim |-> {}, sim |-> FALSE,
          rev |-> "bar", relay |-> FALSE, scanned |-> FALSE]

TypeOK ==
  /\ rig \in UNION {[1..n -> Wheels] : n \in 0..2}
  /\ caps \in {DirectDrive, XboxSdk, ClassicCaps}
  /\ shim \subseteq Prefixes /\ cache \subseteq Prefixes
  /\ sim \in BOOLEAN /\ rev \in {"bar", "shift"} /\ relay \in BOOLEAN
  /\ \A t \in Threads : scans[t].at \in {"idle", "start", "found", "loaded"}
  /\ running \in BOOLEAN

(* The app starts with a scan under way and no wheel announced yet.        *)
Init ==
  /\ rig \in UNION {[1..n -> Wheels] : n \in 0..2}
  /\ caps = Assumed
  /\ shim = {} /\ sim = FALSE /\ rev = "bar" /\ relay = FALSE
  /\ cache = {}
  /\ \E t \in Threads :
       scans = [u \in Threads |-> IF u = t THEN [Idle EXCEPT !.at = "start"] ELSE Idle]
  /\ posts = << >> /\ rows = Empty
  /\ cmd = NoCommand /\ running = FALSE
  /\ clicks = 0 /\ plugs = 0

----------------------------------------------------------------------------
(* bridge::setup_games: the rows for the managed wheel, from a scan, the   *)
(* configuration read with it, and the relay as it is on disk now.         *)
SetupGames(c, found, switch, style, copied, seen) ==
  [caps |-> c, scope |-> HidrawScopeFor(rig, c), shim |-> found, sim |-> switch,
   rev |-> style, relay |-> copied, scanned |-> seen]

(* The recipe a row's sentence states.                                     *)
Recipe(g) == [plan |-> ForGame(g, rows.caps, FALSE), scope |-> rows.scope]

(* refresh_games, on the UI thread: the cached scan and fresh files.       *)
RefreshGames == rows' = SetupGames(caps', cache, sim', rev', relay', rows.scanned)

----------------------------------------------------------------------------
(* scan_games: a thread walks the launchers, then loads tf-sim.conf and    *)
(* stores the cache, then reads the rev-light style and posts its rows.    *)
Spawned(t) == [scans EXCEPT ![t] = [Idle EXCEPT !.at = "start"]]

Discover(t) ==
  /\ scans[t].at = "start"
  /\ scans' = [scans EXCEPT ![t].at = "found", ![t].shim = shim]
  /\ UNCHANGED <<rig, caps, shim, sim, rev, relay, cache, posts, rows, cmd,
                 running, clicks, plugs>>

LoadAndStore(t) ==
  /\ scans[t].at = "found"
  /\ scans' = [scans EXCEPT ![t].at = "loaded", ![t].sim = sim]
  /\ cache' = scans[t].shim
  /\ UNCHANGED <<rig, caps, shim, sim, rev, relay, posts, rows, cmd, running,
                 clicks, plugs>>

Post(t) ==
  /\ scans[t].at = "loaded"
  /\ posts' = Append(posts, [scans[t] EXCEPT !.at = "scan", !.rev = rev])
  /\ scans' = [scans EXCEPT ![t] = Idle]
  /\ UNCHANGED <<rig, caps, shim, sim, rev, relay, cache, rows, cmd, running,
                 clicks, plugs>>

(* A posted scan's rows are for the wheel managed when the post runs,      *)
(* whichever it was when the scan began.                                   *)
RunPost ==
  /\ posts # << >>
  /\ posts' = Tail(posts)
  /\ LET p == Head(posts)
     IN IF p.at = "done" THEN running' = FALSE /\ UNCHANGED rows
        ELSE /\ rows' = SetupGames(caps, p.shim, p.sim, p.rev, relay, TRUE)
             /\ UNCHANGED running
  /\ UNCHANGED <<rig, caps, shim, sim, rev, relay, cache, scans, cmd, clicks, plugs>>

----------------------------------------------------------------------------
(* The installer's thread: it runs to its end, clears the running state    *)
(* through a post, and starts a scan.  It may fail, and change nothing.    *)
InstallerEnds(t) ==
  /\ cmd # NoCommand /\ scans[t].at = "idle"
  /\ \/ shim' = (IF cmd.op = "install" THEN shim \cup {cmd.prefix}
                                       ELSE shim \ {cmd.prefix})
     \/ shim' = shim
  /\ cmd' = NoCommand
  /\ posts' = Append(posts, [Idle EXCEPT !.at = "done"])
  /\ scans' = Spawned(t)
  /\ UNCHANGED <<rig, caps, sim, rev, relay, cache, rows, running, clicks, plugs>>

(* The buttons are disabled while the installer runs.                      *)
Click == clicks < MaxClicks /\ clicks' = clicks + 1

RunShimCommand(op, p) ==
  /\ Click /\ ~running /\ rows.scanned
  /\ op = "remove" => p \in rows.shim
  /\ op = "install" => p \notin rows.shim
  /\ running' = TRUE
  /\ cmd' = [op |-> op, prefix |-> p]
  /\ UNCHANGED <<rig, caps, shim, sim, rev, relay, cache, scans, posts, rows, plugs>>

RescanGames(t) ==
  /\ Click /\ ~running /\ scans[t].at = "idle"
  /\ scans' = Spawned(t)
  /\ UNCHANGED <<rig, caps, shim, sim, rev, relay, cache, posts, rows, cmd, running,
                 plugs>>

(* A per-game switch: one key of tf-sim.conf (whose write may fail), then  *)
(* a rebuild.                                                              *)
SimGameEnabled ==
  /\ Click
  /\ \/ sim' = ~rows.sim
     \/ sim' = sim
  /\ UNCHANGED <<caps, rev, relay>>
  /\ RefreshGames
  /\ UNCHANGED <<rig, shim, cache, scans, posts, cmd, running, plugs>>

SetRevLeds(style) ==
  /\ Click
  /\ \/ rev' = style
     \/ rev' = rev
  /\ UNCHANGED <<caps, sim, relay>>
  /\ RefreshGames
  /\ UNCHANGED <<rig, shim, cache, scans, posts, cmd, running, plugs>>

(* A file copy, inline on the UI thread; without a relay to copy it does   *)
(* nothing but rebuild.                                                    *)
InstallRelay ==
  /\ Click
  /\ relay' \in {TRUE, relay}
  /\ UNCHANGED <<caps, sim, rev>>
  /\ RefreshGames
  /\ UNCHANGED <<rig, shim, cache, scans, posts, cmd, running, plugs>>

----------------------------------------------------------------------------
(* The worker's announcement: the wheel it manages, any attached one, or   *)
(* none.  Rows are rebuilt when the capabilities differ.                   *)
NotRebuilt == UNCHANGED rows

Rebuilt == IF caps' # caps THEN RefreshGames ELSE UNCHANGED rows

Announced ==
  /\ plugs < MaxPlugs /\ plugs' = plugs + 1
  /\ caps' \in (IF rig = << >> THEN {Assumed} ELSE Kinds(rig))
  /\ UNCHANGED <<sim, rev, relay>>
  /\ Rebuilt
  /\ UNCHANGED <<rig, shim, cache, scans, posts, cmd, running, clicks>>

Replug ==
  /\ plugs < MaxPlugs /\ plugs' = plugs + 1
  /\ \/ rig # << >> /\ \E i \in DOMAIN rig : rig' = SubSeq(rig, 1, i - 1) \o
                                                    SubSeq(rig, i + 1, Len(rig))
     \/ Len(rig) < 2 /\ \E w \in Wheels : rig' \in {<<w>> \o rig, rig \o <<w>>}
  /\ UNCHANGED <<caps, shim, sim, rev, relay, cache, scans, posts, rows, cmd,
                 running, clicks>>

Next ==
  \/ \E t \in Threads : \/ Discover(t) \/ LoadAndStore(t) \/ Post(t)
                        \/ InstallerEnds(t) \/ RescanGames(t)
  \/ RunPost
  \/ \E op \in {"install", "remove"}, p \in Prefixes : RunShimCommand(op, p)
  \/ SimGameEnabled
  \/ \E style \in {"bar", "shift"} : SetRevLeds(style)
  \/ InstallRelay
  \/ Announced \/ Replug

Spec == Init /\ [][Next]_vars

----------------------------------------------------------------------------
(* The rows always describe the wheel being managed, though a scan begun   *)
(* for another wheel may post at any time (main.rs, refresh_games: "on a   *)
(* two-wheel rig the direct-drive owner was shown the G923's advice").     *)
PageOfManagedWheel == rows.caps = caps

(* For every rig the page can meet: raw HID never takes a wheel that       *)
(* cannot be driven through it (SparesClassic).                            *)
RawHidSparesClassic == SparesClassic(rig)

(* For every rig: one driver of the lights and the texture (OneDriver).    *)
OneLightDriver == OneDriver(rig)

(* What the page promises of the wheel being managed, all of it.           *)
SetupOfManagedWheel ==
  TypeOK /\ PageOfManagedWheel /\ RawHidSparesClassic /\ OneLightDriver

(* "So the page cannot describe one recipe while logi-launch applies       *)
(* another" (bridge.rs): with nothing in flight, and rows built for the    *)
(* wheels attached, each game's recipe is the one the wrapper is printed.  *)
PageSaysWhatWrapperDoes ==
  (rows.scanned /\ rig # << >> /\ caps \in Kinds(rig)
     /\ rows.scope = HidrawScopeFor(rig, caps)) =>
    \A g \in Games : Recipe(g) = Printed(rig, g, "none")

(* "Runs ... after every install/remove so the per-row status reflects     *)
(* what just happened" (scan_games): with nothing in flight the rows show  *)
(* the games with the shim.                                                *)
RowsReflectInstall ==
  (posts = << >> /\ cmd = NoCommand /\ \A t \in Threads : scans[t].at = "idle") =>
    rows.shim = shim
============================================================================
