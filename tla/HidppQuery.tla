----------------------------- MODULE HidppQuery -----------------------------
(***************************************************************************)
(* logi-wheel-core hidpp.rs: HID++ queries over a hidraw node.  A request  *)
(* is one report out and one report back.  The read that waits for it runs *)
(* on a scratch thread; when the caller gives up, that thread stays parked *)
(* on the same open file and takes a later report for nobody.              *)
(*                                                                         *)
(* Three tools use a handle: the firmware query and the feature list,      *)
(* which resolve a feature, ask for a count and then for each entry, and   *)
(* the rev-light probe, which starts the display and sends a level, twice. *)
(***************************************************************************)
EXTENDS Integers, Sequences, FiniteSets

CONSTANTS
  Features,    \* the ids the wheel implements, by index from 1
  Entities,    \* fwType of its firmware entities, by number from 1
  MaxEntities, \* MAX_ENTITIES
  Interfaces,  \* the report ids its interfaces declare
  Effects,     \* LIGHTSYNC effects the wheel may be on when the tool starts
  MaxFaults    \* bound of the model: lost and late answers, strays, the owner

FeatureSet == 1      \* 0x0001
DeviceInfo == 3      \* 0x0003
RpmDisplay == 122    \* 0x807A
Off        == 0      \* REV_STATE_OFF
Display    == 2      \* REV_EFFECT_DISPLAY
None       == -1
Short      == 16     \* REPORT_ID_SHORT, LONG and VERY_LONG
Long       == 17
VeryLong   == 18

\* What the proofs assume: an interface that declares the short report
\* declares the long one, which carries the levels.
InterfaceAssumption == \A n \in Interfaces : Short \in n => Long \in n

VARIABLES
  node,     \* the report ids the opened interface declares
  tool,     \* "firmware", "features" or "probe"
  pc,       \* the question or command the tool is at
  waiting,  \* the question is out and its answer is not in
  idx,      \* the feature index it resolved
  count,    \* the number of entries it was told
  entry,    \* the entry it asks for
  out,      \* entries it has got, by number
  rounds,   \* levels the probe has sent
  bus,      \* requests the wheel has not taken
  inbox,    \* reports in the buffer of the open file
  parked,   \* threads left behind in read
  effect,   \* the wheel's live effect
  shown,    \* levels the wheel accepted
  owned,    \* history: the effect the owner chose
  dark,     \* history: the wheel has shown nothing since the tool opened it
  lost, late, strays, owner

vars == <<node, tool, pc, waiting, idx, count, entry, out, rounds, bus, inbox, parked, effect,
          shown, owned, dark, lost, late, strays, owner>>

wheel  == <<effect, shown, owned, dark>>
limits == <<lost, late, strays, owner>>

Room == lost + late + strays + owner < MaxFaults

\* looks_like_hidpp: long and one of the others, on an interface of its own
\* or on the joystick's.
LooksLikeHidpp(ids) == Long \in ids /\ (Short \in ids \/ VeryLong \in ids)

\* The probe tries every interface, the others find_hidpp_sibling's.
\* RealHidppIo::open reads how requests must be framed off the node.
LongOnly == Short \notin node /\ Long \in node

Init ==
  /\ tool \in {"firmware", "features", "probe"}
  /\ node \in Interfaces /\ (tool # "probe" => LooksLikeHidpp(node))
  /\ pc = "resolve" /\ waiting = FALSE /\ idx = 0 /\ count = 0 /\ entry = 0 /\ out = <<>> /\ rounds = 0
  /\ bus = <<>> /\ inbox = <<>> /\ parked = 0
  /\ effect \in Effects /\ shown = <<>> /\ owned = effect /\ dark = (effect = Off)
  /\ lost = 0 /\ late = 0 /\ strays = 0 /\ owner = 0

(***************************************************************************)
(* Reports.  A request names a feature index, a function and a parameter;  *)
(* a reply echoes the first two.                                           *)
(***************************************************************************)
Report(index, fn, arg) ==
  [id |-> IF LongOnly THEN Long ELSE Short, index |-> index, fn |-> fn, arg |-> arg]

RevSendShort(fn, arg) == [id |-> Short, index |-> idx, fn |-> fn, arg |-> arg]

RevSend(fn, arg) == Report(idx, fn, arg)

\* The level is always long.
LevelReport(level) == [id |-> Long, index |-> idx, fn |-> 6, arg |-> level]

Wanted == CASE tool = "firmware" -> DeviceInfo
            [] tool = "features" -> FeatureSet
            [] tool = "probe"    -> RpmDisplay

\* resolve_feature_index, entity_count and getCount, fw_entity and
\* getFeatureId, rev_state.
Request ==
  CASE pc = "resolve" -> Report(0, 0, Wanted)
    [] pc = "count"   -> Report(idx, 0, None)
    [] pc = "entry"   -> Report(idx, 1, entry)
    [] pc = "state"   -> RevSend(2, 0)

\* request and rev_state compare the feature and the function, and not what
\* the question was about.
Echoes(r) == r.index = Request.index /\ r.fn = Request.fn

(***************************************************************************)
(* The wheel, external: it takes reports in order.                         *)
(***************************************************************************)
IndexOf(f) == IF \E i \in DOMAIN Features : Features[i] = f
              THEN CHOOSE i \in DOMAIN Features : Features[i] = f ELSE 0

Entries(index) == IF index = IndexOf(DeviceInfo) THEN Entities ELSE Features

WheelAnswer(r) ==
  CASE r.index = 0 -> IndexOf(r.arg)
    [] r.index # 0 /\ r.index = IndexOf(RpmDisplay) -> IF r.fn = 3 THEN r.arg ELSE effect
    [] OTHER -> IF r.fn = 0 THEN Len(Entries(r.index)) ELSE Entries(r.index)[r.arg]

IsRev(r, fn) == r.index # 0 /\ r.index = IndexOf(RpmDisplay) /\ r.fn = fn

\* A report with an id the interface does not declare goes nowhere, without
\* an error; a level is refused by a wheel that displays nothing.
WheelTakes ==
  /\ bus # <<>> /\ bus' = Tail(bus)
  /\ LET r == Head(bus)
     IN \/ /\ r.id \in node
           /\ effect' = IF IsRev(r, 3) THEN r.arg ELSE effect
           /\ shown'  = IF IsRev(r, 6) /\ effect # Off THEN Append(shown, r.arg) ELSE shown
           /\ \/ inbox' = Append(inbox, [index |-> r.index, fn |-> r.fn, val |-> WheelAnswer(r)])
                 /\ UNCHANGED lost
              \/ Room /\ lost' = lost + 1 /\ UNCHANGED inbox
        \/ r.id \notin node /\ UNCHANGED <<effect, shown, inbox, lost>>
  /\ UNCHANGED <<node, tool, pc, waiting, idx, count, entry, out, rounds, parked, owned,
                 dark, late, strays, owner>>

\* The axis reports of a joystick interface that carries HID++ too.
Stray ==
  /\ pc # "done" /\ Room /\ strays' = strays + 1
  /\ inbox' = Append(inbox, [index |-> None, fn |-> None, val |-> None])
  /\ UNCHANGED <<node, tool, pc, waiting, idx, count, entry, out, rounds, bus, parked, wheel, lost,
                 late, owner>>

\* The owner picks a sweep or a colour slot meanwhile.
OwnerPicks ==
  /\ pc # "done" /\ Room /\ owner' = owner + 1
  /\ effect' \in Effects /\ UNCHANGED shown /\ owned' = effect' /\ dark' = (dark \/ effect' = Off)
  /\ UNCHANGED <<node, tool, pc, waiting, idx, count, entry, out, rounds, bus, inbox, parked,
                 lost, late, strays>>

(***************************************************************************)
(* The tool.                                                               *)
(***************************************************************************)
Send ==
  /\ pc \in {"resolve", "count", "entry", "state"} /\ ~waiting
  /\ bus' = Append(bus, Request) /\ waiting' = TRUE
  /\ UNCHANGED <<node, tool, pc, idx, count, entry, out, rounds, inbox, parked, wheel, limits>>

\* read_report of a thread nobody waits for: its report is gone.
ParkedTakes ==
  /\ parked > 0 /\ inbox # <<>>
  /\ parked' = parked - 1 /\ inbox' = Tail(inbox)
  /\ UNCHANGED <<node, tool, pc, waiting, idx, count, entry, out, rounds, bus, wheel, limits>>

Capped(c) == IF tool = "firmware" /\ c > MaxEntities THEN MaxEntities ELSE c

\* The firmware query looks no further than the main application.
MainApp(val) == tool = "firmware" /\ val = 0

NextEntry(e, c) == IF e < c THEN "entry" ELSE "done"

OffOnly(state) == state = Off

NotDisplaying(state) == state # Display

\* ensure_rev_display_mode acts on nothing but a wheel that shows nothing.
Starts(state) == OffOnly(state)

\* What the tool makes of an answer, None for none.
Concludes(val) ==
  CASE pc = "resolve" ->
         /\ idx' = IF val = None THEN 0 ELSE val
         /\ pc' = IF val \in {None, 0} THEN "done" ELSE IF tool = "probe" THEN "arm" ELSE "count"
         /\ UNCHANGED <<count, entry, out>>
    [] pc = "count" ->
         /\ count' = IF val = None THEN 0 ELSE Capped(val)
         /\ entry' = 1
         /\ pc' = IF count' = 0 THEN "done" ELSE "entry"
         /\ UNCHANGED <<idx, out>>
    [] pc = "entry" ->
         /\ out' = IF val = None THEN out ELSE Append(out, <<entry, val>>)
         /\ entry' = entry + 1
         /\ pc' = IF MainApp(val) THEN "done" ELSE NextEntry(entry, count)
         /\ UNCHANGED <<idx, count>>
    [] pc = "state" ->
         /\ pc' = IF val # None /\ Starts(val) THEN "start" ELSE "level"
         /\ UNCHANGED <<idx, count, entry, out>>

\* The report comes to the thread that is waited for.  request fails on one
\* that is not its own; rev_state reads on.
Receive ==
  /\ waiting /\ inbox # <<>> /\ inbox' = Tail(inbox)
  /\ IF Echoes(Head(inbox)) THEN waiting' = FALSE /\ Concludes(Head(inbox).val)
     ELSE IF pc = "state" THEN UNCHANGED <<waiting, pc, idx, count, entry, out>>
     ELSE waiting' = FALSE /\ Concludes(None)
  /\ UNCHANGED <<node, tool, rounds, bus, parked, wheel, limits>>

NeverTimesOut == FALSE

GivesUp == TRUE

\* recv_timeout: no answer, and a thread left behind.
Timeout ==
  /\ waiting /\ inbox = <<>> /\ GivesUp
  /\ Room \/ bus = <<>>
  /\ late' = IF bus = <<>> THEN late ELSE late + 1
  /\ parked' = parked + 1 /\ waiting' = FALSE
  /\ Concludes(None)
  /\ UNCHANGED <<node, tool, rounds, bus, inbox, wheel, lost, strays, owner>>

\* rev_level_via_lightsync: the arm burst, whose replies nobody reads.
Arm ==
  /\ pc = "arm" /\ pc' = "state"
  /\ bus' = bus \o <<RevSend(0, 0), RevSend(1, 0), RevSend(2, 0), RevSend(0, 0)>>
  /\ UNCHANGED <<node, tool, waiting, idx, count, entry, out, rounds, inbox, parked, wheel, limits>>

Start ==
  /\ pc = "start" /\ pc' = "level" /\ bus' = Append(bus, RevSend(3, Display))
  /\ UNCHANGED <<node, tool, waiting, idx, count, entry, out, rounds, inbox, parked, wheel, limits>>

\* fn2 and the level, on the first time round and off the second.
Level ==
  /\ pc = "level" /\ rounds' = rounds + 1 /\ pc' = IF rounds = 1 THEN "done" ELSE "arm"
  /\ bus' = bus \o <<RevSend(2, 0), LevelReport(1 - rounds)>>
  /\ UNCHANGED <<node, tool, waiting, idx, count, entry, out, inbox, parked, wheel, limits>>

Tool == Send \/ Receive \/ Timeout \/ Arm \/ Start \/ Level

Next == Tool \/ WheelTakes \/ ParkedTakes \/ Stray \/ OwnerPicks

\* The tool is a running thread whose waits are bounded; a wheel that is
\* still there takes what is written to it.
Spec == Init /\ [][Next]_vars /\ WF_vars(Tool) /\ WF_vars(WheelTakes)

-----------------------------------------------------------------------------
(***************************************************************************)
(* The owner's colours: a wheel that has shown something ever since the    *)
(* probe opened it is never switched, whatever it was changed to meanwhile *)
(* and whichever answer the probe read, those of its own arm burst and of  *)
(* its first round included (ensure_rev_display_mode).                     *)
(***************************************************************************)
OwnersEffectKept == ~dark => effect = owned

(***************************************************************************)
(* Issue #27: a probe that resolved its feature and was answered in time   *)
(* lights the strip and darkens it again, on a wheel that displayed        *)
(* nothing, on either layout of interfaces and among stray reports; a      *)
(* report in a frame the wheel never declared is dropped without a word,   *)
(* and a level sent before the display was started is refused.             *)
(***************************************************************************)
LevelReachesStrip ==
  tool = "probe" /\ pc = "done" /\ bus = <<>> /\ lost + late + owner = 0
    => shown = (IF idx = 0 THEN <<>> ELSE <<1, 0>>)

(***************************************************************************)
(* A query ends, with an answer or without: no lost report, stray report   *)
(* or thread left behind keeps the page that asked waiting.                *)
(***************************************************************************)
Ended == pc = "done"

QueryEnds == <>Ended

(***************************************************************************)
(* One report lost costs one entry: enumerate_features says "A gap or an   *)
(* unreadable entry is not fatal: report what answered rather than         *)
(* abandoning the whole enumeration".                                      *)
(***************************************************************************)
LossCostsOneEntry ==
  tool = "features" /\ pc = "done" /\ count > 0 =>
    Cardinality({i \in 1..count : \A k \in DOMAIN out : out[k][1] # i}) <= lost + late + strays

(***************************************************************************)
(* An entry is listed under its own number: a report that came late is not *)
(* taken for the answer to the next question.                              *)
(***************************************************************************)
EntriesUnderOwnNumber ==
  tool = "features" => \A k \in DOMAIN out : out[k][2] = Features[out[k][1]]
=============================================================================
