------------------------------- MODULE TfConfig -------------------------------
(***************************************************************************)
(* tf-sim.conf, the settings file the simulated-TrueForce daemon reads at  *)
(* its start (logi-tf-sim config.rs) and the window, the terminal app and  *)
(* a text editor write (logi-wheel-core tfsim.rs and its callers).         *)
(*                                                                         *)
(* The two crates mirror each other's parser and cannot be linked, the     *)
(* file is not locked, a write is a read, a truncation and a write, and    *)
(* the first of the three programs to run copies a file of the former name *)
(* into place.  A file is the sequence of its lines; a line is a key and   *)
(* the class of its value, which is all a parser looks at.                 *)
(***************************************************************************)
EXTENDS Integers, Sequences

CONSTANTS
  OldFile, NewFile,    \* what the former and the present location may hold at first
  HandLines,           \* lines a user may add in a text editor
  MaxEdits, MaxHand, MaxStarts, MaxFaults

\* A file is a sequence of lines.
ConfAssumption == \A text \in OldFile \cup NewFile : text \in Seq({text[i] : i \in DOMAIN text})

VARIABLES
  file,    \* contents of the "old" and the "new" location
  proc,    \* per program: where it is, the file it settled on, what it read
  shown,   \* per program: the configuration it loaded last
  left     \* what the bounds still allow

vars == <<file, proc, shown, left>>

NoFile == <<[key |-> "absent", value |-> ""]>>

Frontends == {"window", "terminal"}

Programs == Frontends \cup {"daemon"}

(***************************************************************************)
(* The grammar.  Each parser is a table of the values it takes per key;    *)
(* "1" is also a switch, "50" a percentage and a pitch, "250" only a port. *)
(***************************************************************************)
Booleans == {"0", "1"}

Percents == {"0", "1", "50"}

FrontKeys == {"enabled", "intensity", "pitch"}

\* Config::load_from of the front ends: the keys they edit.
FrontTakes(key, value) ==
  CASE key = "enabled"   -> value \in Booleans
    [] key = "intensity" -> value \in Percents
    [] key = "pitch"     -> value = "50"
    [] OTHER             -> FALSE

\* apply_line of the daemon: every key there is.
DaemonTakes(key, value) ==
  CASE key = "enabled"   -> value \in Booleans
    [] key = "intensity" -> value \in Percents
    [] key = "pitch"     -> value = "50"
    [] key = "port"      -> value \in Percents \cup {"250"}
    [] OTHER             -> FALSE

\* Mutant: the mirror knows only the keys the front ends edit.
RecognisesFrontKeys(key, value) == FrontTakes(key, value)

\* daemon_recognises: the front ends' mirror of the daemon's grammar.
DaemonRecognises(key, value) ==
  \/ FrontTakes(key, value)
  \/ key = "port" /\ value \in Percents \cup {"250"}

Default == [enabled |-> "1", intensity |-> "30", pitch |-> "35", port |-> "20777"]

\* A line the parser takes sets its key; a later one of the same key wins.
Load(p, text) ==
  LET Takes(line) == IF p = "daemon" THEN DaemonTakes(line.key, line.value)
                                     ELSE FrontTakes(line.key, line.value)
      Apply(cfg, line) == IF Takes(line) THEN [cfg EXCEPT ![line.key] = line.value] ELSE cfg
      after[k \in 0 .. Len(text)] == IF k = 0 THEN Default ELSE Apply(after[k - 1], text[k])
  IN  after[Len(text)]

\* The lines that pass a test, in their order.
Select(text, Test(_)) ==
  LET of[k \in 0 .. Len(text)] ==
        IF k = 0 THEN <<>>
        ELSE IF Test(text[k]) THEN Append(of[k - 1], text[k]) ELSE of[k - 1]
  IN  of[Len(text)]

\* The lines the Setup pages warn of, and those of the daemon's LoadReport.
Warned(text) ==
  Select(text, LAMBDA line : line.key # "#" /\ ~DaemonRecognises(line.key, line.value))

Skipped(text) ==
  Select(text, LAMBDA line : line.key # "#" /\ ~DaemonTakes(line.key, line.value))

(***************************************************************************)
(* write_key_in: the text that replaces the file.                          *)
(***************************************************************************)
Header == <<[key |-> "#", value |-> ""]>>

\* Mutant: the first line of the key is replaced and its duplicates stay.
WriteKeyFirstOnly(text, key, value) ==
  LET mine == {i \in DOMAIN text : text[i].key = key}
      line == [key |-> key, value |-> value]
      first == CHOOSE i \in mine : \A j \in mine : i <= j
  IN  IF mine = {} THEN Append(text, line) ELSE [text EXCEPT ![first] = line]

WriteKey(text, key, value) ==
  LET line == [key |-> key, value |-> value]
      Copy(acc, l) ==
        IF l.key # key THEN [acc EXCEPT !.out = Append(@, l)]
        ELSE IF acc.replaced THEN acc
        ELSE [out |-> Append(acc.out, line), replaced |-> TRUE]
      after[k \in 0 .. Len(text)] ==
        IF k = 0 THEN [out |-> <<>>, replaced |-> FALSE] ELSE Copy(after[k - 1], text[k])
      all == after[Len(text)]
  IN  IF all.replaced THEN all.out ELSE Append(all.out, line)

\* A write through a descriptor of one's own starts at offset zero, whatever
\* others have put there meanwhile.
Over(there, data) ==
  IF Len(data) >= Len(there) THEN data ELSE data \o SubSeq(there, Len(data) + 1, Len(there))

(***************************************************************************)
(* Steps of the programs.                                                  *)
(***************************************************************************)
Spend(what) == left[what] > 0 /\ left' = [left EXCEPT ![what] = @ - 1]

Goes(p, stage) == proc' = [proc EXCEPT ![p].stage = stage]

\* Whoever read the file before somebody else changed it is no longer alone.
Disturbed(where, by) ==
  [q \in Programs |->
     IF q # by /\ proc[q].path = where THEN [proc[q] EXCEPT !.alone = FALSE] ELSE proc[q]]

\* What a program does once it knows which file to use.
AfterResolving(p) == IF proc[p].key = "" THEN "load" ELSE "read"

Settles(p, path) ==
  proc' = [proc EXCEPT ![p].path = path, ![p].text = <<>>, ![p].stage = AfterResolving(p)]

Idle == [stage |-> "off", path |-> "new", key |-> "", value |-> "", text |-> <<>>, alone |-> FALSE]

Gone(p) ==
  /\ proc' = [proc EXCEPT ![p] = Idle]
  /\ shown' = [shown EXCEPT ![p] = Default]

\* App start, or the daemon's: resolve the path, then load.
Start(p) ==
  /\ proc[p].stage = "off"
  /\ Spend("starts")
  /\ Goes(p, "resolve")
  /\ UNCHANGED <<file, shown>>

Stop(p) ==
  /\ proc[p].stage = "idle"
  /\ Gone(p)
  /\ UNCHANGED <<file, left>>

\* resolve_path_in
Resolve(p) ==
  /\ proc[p].stage = "resolve"
  /\ IF file["new"] = NoFile /\ file["old"] # NoFile
     THEN proc' = [proc EXCEPT ![p].stage = "create", ![p].text = file["old"]]
     ELSE Settles(p, "new")
  /\ UNCHANGED <<file, shown, left>>

\* migrate_file: create_new, where losing the race is no error
Create(p) ==
  /\ proc[p].stage = "create"
  /\ \/ /\ file["new"] = NoFile
        /\ file' = [file EXCEPT !["new"] = <<>>]
        /\ Goes(p, "fill")
        /\ UNCHANGED left
     \/ /\ file["new"] # NoFile
        /\ Settles(p, "new")
        /\ UNCHANGED <<file, left>>
     \/ /\ Spend("faults")
        /\ Settles(p, "old")
        /\ UNCHANGED file
  /\ UNCHANGED shown

\* ... and the copy, which may fail with the new file already there
Fill(p) ==
  /\ proc[p].stage = "fill"
  /\ \/ /\ file' = [file EXCEPT !["new"] = Over(@, proc[p].text)]
        /\ proc' = [Disturbed("new", p) EXCEPT ![p].path = "new", ![p].text = <<>>,
                                               ![p].stage = AfterResolving(p)]
        /\ UNCHANGED left
     \/ /\ Spend("faults")
        /\ Settles(p, "old")
        /\ UNCHANGED file
  /\ UNCHANGED shown

Content(p) == file[proc[p].path]

\* Loading: a missing file is the default configuration.
LoadIt(p) ==
  /\ proc[p].stage = "load"
  /\ shown' = [shown EXCEPT ![p] = Load(p, Content(p))]
  /\ Goes(p, "idle")
  /\ UNCHANGED <<file, left>>

\* The window sets a control to what the user chose and resolves the path
\* again for each write; the terminal flips the value it loaded last and
\* keeps the path of its start.
Toggled(value) == IF value = "0" THEN "1" ELSE "0"

Edit(p) ==
  /\ proc[p].stage = "idle"
  /\ Spend("edits")
  /\ \/ /\ p = "window"
        /\ \E k \in {"enabled", "intensity"}, v \in Booleans :
             proc' = [proc EXCEPT ![p].key = k, ![p].value = v, ![p].stage = "resolve"]
     \/ /\ p = "terminal"
        /\ proc' = [proc EXCEPT ![p].key = "enabled", ![p].value = Toggled(shown[p].enabled),
                                ![p].stage = "read"]
  /\ UNCHANGED <<file, shown>>

ReadText(p) ==
  /\ proc[p].stage = "read"
  /\ proc' = [proc EXCEPT ![p].text = IF Content(p) = NoFile THEN Header ELSE Content(p),
                          ![p].alone = TRUE,
                          ![p].stage = "truncate"]
  /\ UNCHANGED <<file, shown, left>>

Truncate(p) ==
  /\ proc[p].stage = "truncate"
  /\ file' = [file EXCEPT ![proc[p].path] = <<>>]
  /\ proc' = [Disturbed(proc[p].path, p) EXCEPT ![p].stage = "write"]
  /\ UNCHANGED <<shown, left>>

Write(p) ==
  /\ proc[p].stage = "write"
  /\ file' = [file EXCEPT ![proc[p].path] = Over(@, WriteKey(proc[p].text, proc[p].key, proc[p].value))]
  /\ proc' = [Disturbed(proc[p].path, p) EXCEPT ![p].stage = "written"]
  /\ UNCHANGED <<shown, left>>

\* The write is reported and the configuration loaded again.
Report(p) ==
  /\ proc[p].stage = "written"
  /\ proc' = [proc EXCEPT ![p] = [Idle EXCEPT !.path = proc[p].path, !.stage = "load"]]
  /\ UNCHANGED <<file, shown, left>>

\* A program is killed wherever it stands.
Crash(p) ==
  /\ proc[p].stage \notin {"off", "idle"}
  /\ Spend("faults")
  /\ Gone(p)
  /\ UNCHANGED file

\* A text editor saves the file with one more line.
HandEdit ==
  /\ Spend("hand")
  /\ file["new"] # NoFile
  /\ \E line \in HandLines : file' = [file EXCEPT !["new"] = Append(@, line)]
  /\ proc' = Disturbed("new", "editor")
  /\ UNCHANGED shown

Init ==
  /\ file \in {[old |-> o, new |-> n] : o \in OldFile, n \in NewFile}
  /\ proc = [p \in Programs |-> Idle]
  /\ shown = [p \in Programs |-> Default]
  /\ left = [edits |-> MaxEdits, hand |-> MaxHand, starts |-> MaxStarts, faults |-> MaxFaults]

Next ==
  \/ \E p \in Programs :
       \/ Start(p) \/ Stop(p) \/ Resolve(p) \/ Create(p) \/ Fill(p) \/ LoadIt(p) \/ Crash(p)
  \/ \E p \in Frontends :
       \/ Edit(p) \/ ReadText(p) \/ Truncate(p) \/ Write(p) \/ Report(p)
  \/ HandEdit

Spec == Init /\ [][Next]_vars

(***************************************************************************)
(* Properties                                                              *)
(***************************************************************************)
Others(text, key) == Select(text, LAMBDA line : line.key # key)

\* An edit nobody else's write overlapped does what write_key_in promises,
\* on any file a hand edit, a migration or an interrupted write may have
\* left: both parsers then read the value just set, a duplicate of the key
\* included, and every other line is still there, in its order.
EditTakes == \A p \in Frontends :
  LET now == Content(p)
      key == proc[p].key
  IN  (proc[p].stage = "written" /\ proc[p].alone) =>
        /\ Load(p, now)[key] = proc[p].value
        /\ Load("daemon", now)[key] = proc[p].value
        /\ Others(now, key) = Others(proc[p].text, key)

\* The mirrored parsers agree on every file that can be there: the values of
\* the keys the front ends show, and which lines the warning on the Setup
\* page and the daemon's log count as unrecognised (tfsim.rs
\* daemon_recognises against config.rs apply_line).
ReadersAgree == \A where \in {"old", "new"} :
  /\ \A p \in Frontends, k \in FrontKeys :
       Load(p, file[where])[k] = Load("daemon", file[where])[k]
  /\ Warned(file[where]) = Skipped(file[where])

\* What the module comment of tfsim.rs says of write_key_in: "a front-end
\* edit can never drop a key it does not know about" (tfsim.rs:18-21).
PortKept ==
  [][ (\E i \in DOMAIN file["new"] : file["new"][i].key = "port")
      => (\/ \E i \in DOMAIN file["new"]' : file["new"]'[i].key = "port"
          \/ \E p \in Frontends : proc'[p].stage = "write"
                                  /\ \E i \in DOMAIN proc[p].text : proc[p].text[i].key = "port") ]_file
==============================================================================
