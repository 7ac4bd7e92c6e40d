----------------------------- MODULE GuiWindow ------------------------------
(***************************************************************************)
(* logi-wheel-gui's window (main.rs, bridge.rs): the page on screen, the   *)
(* caches it is composed from, the slot editor, and the queues to and from *)
(* the worker thread.  A click queues requests and returns; the worker     *)
(* serves them in order against the wheel; each reply is posted to the     *)
(* event loop and applied later, when the page may be another one.         *)
(*                                                                         *)
(* Two pages stand for the rest: the light strip, whose rows are composed  *)
(* out of several attributes and a cache of slot names, and the pedals,    *)
(* where a switch of the window's own chooses between a sensitivity row    *)
(* and a curve row.  The wheel reads back the name and the colours of its  *)
(* active slot only.                                                       *)
(***************************************************************************)
EXTENDS Integers, Sequences

CONSTANTS Slots,      \* custom light slots, from 0
          MaxClicks, MaxFaults, MaxTouches   \* bounds of the model

Sweep  == 1           \* wheel_led_effect: a built-in sweep, or
Custom == 5           \* the active custom slot
Unread == -1          \* a name never read; slot s starts out named s
Neutral == -1
New    == 9           \* a name or a colour the user enters

VARIABLES
  wheel,      \* the attributes, and what the strip shows
  reqs,       \* requests the worker has yet to serve
  resps,      \* replies the event loop has yet to run
  cat,        \* current_category
  known,      \* known_values: the last value read of each attribute
  names,      \* led_slot_names
  last,       \* last_rows: the page's rows before they are composed
  shown,      \* what the rows model holds
  curves,     \* shaping_toggles
  editor,     \* rgb_editor, and the slot it was seeded from (history)
  split,      \* history: the page changed between the two replies to a rename
  clicks, faults, touches

vars == <<wheel, reqs, resps, cat, known, names, last, shown, curves, editor, split, clicks,
          faults, touches>>

\* The wheel's first slot is 0.
SlotAssumption == 0 \in Slots

Pages  == {"leds", "pedals"}
Closed == [open |-> FALSE, colors |-> 0, seed |-> 0]
NoRows == [page |-> "none"]

(***************************************************************************)
(* The wheel, as the driver's attributes show it.                          *)
(***************************************************************************)
Values(w, page) ==
  IF page = "pedals" THEN [value |-> w.value]
  ELSE [slot |-> w.slot, name |-> w.names[w.slot], colors |-> w.colors[w.slot],
        effect |-> w.effect, apply |-> 0]

\* A write of the driver: colours are staged in the slot until they are applied,
\* and choosing the custom effect applies them.
Wrote(attr, v) ==
  CASE attr = "value"  -> [wheel EXCEPT !.value = v]
    [] attr = "slot"   -> [wheel EXCEPT !.slot = v]
    [] attr = "name"   -> [wheel EXCEPT !.names[wheel.slot] = v]
    [] attr = "colors" -> [wheel EXCEPT !.colors[wheel.slot] = v]
    [] attr = "apply"  -> [wheel EXCEPT !.strip = wheel.colors[wheel.slot]]
    [] attr = "effect" -> [wheel EXCEPT !.effect = v,
                             !.strip = IF v = Custom THEN wheel.colors[wheel.slot] ELSE @]

(***************************************************************************)
(* Composing a page.                                                       *)
(***************************************************************************)
\* dropdown_labels: a slot whose name was never read has the plain label.
Labels(cache) == [s \in Slots |-> cache[s]]

\* selection_index: the sweeps, then the slots.
SelectionIndex(effect, slot) == IF effect = Custom THEN Custom + slot ELSE effect

\* push_led_preview: a sweep plays a palette the wheel never reports.
Preview(v) == IF v.effect = Custom THEN v.colors ELSE Neutral

ComposeLightsync(v, cache) ==
  [page |-> "leds", at |-> SelectionIndex(v.effect, v.slot), labels |-> Labels(cache),
   button |-> v.effect = Custom, preview |-> Preview(v)]

ComposeShaping(v, toggle) == [page |-> "pedals", curve |-> toggle, value |-> v.value]

\* load_rows.
LoadRows(l, cache, toggle) ==
  CASE l.page = "leds"   -> ComposeLightsync(l.vals, cache)
    [] l.page = "pedals" -> ComposeShaping(l.vals, toggle)
    [] OTHER             -> NoRows

Init ==
  /\ wheel = [slot |-> 0, names |-> [s \in Slots |-> s], colors |-> [s \in Slots |-> s],
              effect |-> Sweep, strip |-> 0, value |-> 0]
  /\ cat = "pedals" /\ reqs = <<[op |-> "load", page |-> "pedals"]>> /\ resps = <<>>
  /\ known = [slot |-> 0, name |-> Unread, colors |-> 0, effect |-> Sweep, value |-> 0]
  /\ names = [s \in Slots |-> Unread] /\ last = NoRows /\ shown = NoRows
  /\ curves = FALSE /\ editor = Closed /\ split = FALSE /\ clicks = 0 /\ faults = 0 /\ touches = 0

(***************************************************************************)
(* The callbacks.                                                          *)
(***************************************************************************)
Edit(attr, v) == [op |-> "edit", page |-> cat, attr |-> attr, v |-> v]
Load(page)    == [op |-> "load", page |-> page]

Ask(s) == reqs' = reqs \o s

Click == clicks < MaxClicks /\ clicks' = clicks + 1

\* The slot's row of a rename has been applied or dropped, and the name's has not.
MidRename == resps # <<>> /\ Head(resps).kind = "row" /\ Head(resps).attr = "name"

\* on_select_category; the overlay of an open editor covers the sidebar.
SelectCategory ==
  /\ Click /\ ~editor.open
  /\ \E p \in Pages : /\ cat' = p /\ Ask(<<Load(p)>>)
                      /\ split' = (split \/ (p # cat /\ MidRename))
  /\ UNCHANGED <<wheel, resps, known, names, last, shown, curves, editor, faults, touches>>

\* on_edit_slider and its kin.
EditRow ==
  /\ Click /\ shown.page = "pedals" /\ Ask(<<Edit("value", 1 - shown.value)>>)
  /\ UNCHANGED <<split, wheel, resps, cat, known, names, last, shown, curves, editor, faults, touches>>

\* on_edit_switch on a shaping row: the window's own state, and no request.
ToggleShaping ==
  /\ Click /\ shown.page = "pedals" /\ curves' = ~curves
  /\ shown' = LoadRows(last, names, ~curves)
  /\ UNCHANGED <<split, wheel, reqs, resps, cat, known, names, last, editor, faults, touches>>

\* on_edit_light_effect: a slot is two writes, and the page is read again.
PickEffect ==
  /\ Click /\ ~editor.open /\ shown.page = "leds"
  /\ \/ Ask(<<Edit("effect", Sweep)>>)
     \/ \E s \in Slots : Ask(<<Edit("slot", s), Edit("effect", Custom), Load(cat)>>)
  /\ UNCHANGED <<split, wheel, resps, cat, known, names, last, shown, curves, editor, faults, touches>>

\* on_edit_rgb: seeded from the values last read.
EditRgb ==
  /\ Click /\ ~editor.open /\ shown.page = "leds" /\ shown.button
  /\ editor' = [open |-> TRUE, colors |-> known.colors, seed |-> known.slot]
  /\ UNCHANGED <<split, wheel, reqs, resps, cat, known, names, last, shown, curves, faults, touches>>

\* on_rgb_set_color and its kin change the staged copy.
SetColor ==
  /\ Click /\ editor.open /\ editor' = [editor EXCEPT !.colors = New]
  /\ UNCHANGED <<split, wheel, reqs, resps, cat, known, names, last, shown, curves, faults, touches>>

\* on_rgb_set_name writes at once.
SetName ==
  /\ Click /\ editor.open /\ Ask(<<Edit("name", New)>>)
  /\ UNCHANGED <<split, wheel, resps, cat, known, names, last, shown, curves, editor, faults, touches>>

\* on_rgb_commit: "it must run last".
Staged(attr, v) ==
  [op |-> "edit", page |-> cat, attr |-> attr, v |-> v, seed |-> editor.seed]

ColorsThenApply(c) == <<Staged("colors", c), Staged("apply", 0)>>

ApplyThenColors(c) == <<Staged("apply", 0), Staged("colors", c)>>

CommitOrder(c) == ColorsThenApply(c)

Commit ==
  /\ Click /\ editor.open /\ editor' = Closed
  /\ Ask(CommitOrder(editor.colors))
  /\ UNCHANGED <<split, wheel, resps, cat, known, names, last, shown, curves, faults, touches>>

Cancel ==
  /\ Click /\ editor.open /\ editor' = Closed
  /\ UNCHANGED <<split, wheel, reqs, resps, cat, known, names, last, shown, curves, faults, touches>>

(***************************************************************************)
(* The worker, and whoever else writes the wheel's attributes.             *)
(***************************************************************************)
RowsReply(w, page)      == [kind |-> "rows", page |-> page, vals |-> Values(w, page)]
RowReply(w, page, attr) == [kind |-> "row", page |-> page, attr |-> attr,
                            v |-> Values(w, page)[attr]]

\* An edit of a row that is not one of the page's own has no reply.
RowOf(w, r) == IF r.attr \in DOMAIN Values(w, r.page) THEN <<RowReply(w, r.page, r.attr)>>
               ELSE <<>>

\* handle(Request::Edit): the row as it reads now, ahead of it the slot a new
\* name belongs to, and the whole page after a change of effect.
SlotAhead(w, r) ==
  IF r.attr = "name" /\ r.page = "leds" THEN <<RowReply(w, r.page, "slot")>> ELSE <<>>

NoSlotAhead(w, r) == <<>>

NamedSlot(w, r) == SlotAhead(w, r)

\* A write the wheel refuses changes nothing, and the row says so.
Write(r) ==
  \/ wheel' = Wrote(r.attr, r.v) /\ UNCHANGED faults
  \/ faults < MaxFaults /\ faults' = faults + 1 /\ UNCHANGED wheel

Reply(w, r, refused) ==
  CASE r.op = "load" -> <<RowsReply(w, r.page)>>
    [] r.op = "edit" -> NamedSlot(w, r) \o RowOf(w, r)
                          \o (IF r.attr = "effect" /\ ~refused THEN <<RowsReply(w, r.page)>>
                              ELSE <<>>)

Serve ==
  /\ reqs # <<>> /\ reqs' = Tail(reqs)
  /\ IF Head(reqs).op = "edit" THEN Write(Head(reqs)) ELSE UNCHANGED <<wheel, faults>>
  /\ resps' = resps \o Reply(wheel', Head(reqs), faults' # faults)
  /\ UNCHANGED <<split, cat, known, names, last, shown, curves, editor, clicks, touches>>

\* Another program, or the wheel's own menu, activates a slot.
OtherSlot ==
  /\ touches < MaxTouches /\ touches' = touches + 1
  /\ \E s \in Slots \ {wheel.slot} : wheel' = [wheel EXCEPT !.slot = s]
  /\ UNCHANGED <<split, reqs, resps, cat, known, names, last, shown, curves, editor, clicks, faults>>

(***************************************************************************)
(* The event loop applies a reply, unless its page has been left.          *)
(***************************************************************************)
Cached(slot, name) == [names EXCEPT ![slot] = name]

Merged(vals) ==
  [a \in DOMAIN known \cup DOMAIN vals |-> IF a \in DOMAIN vals THEN vals[a] ELSE known[a]]

Rows(r) ==
  /\ known' = Merged(r.vals)
  /\ names' = IF r.page = "leds" THEN Cached(r.vals.slot, r.vals.name) ELSE names
  /\ last' = [page |-> r.page, vals |-> r.vals]
  /\ shown' = LoadRows(last', names', curves)

\* update_row and refresh_light_effect_row: the row on screen, if it has one.
UpdateRow(r) ==
  IF shown.page # r.page THEN shown ELSE
    CASE r.attr = "value"  -> [shown EXCEPT !.value = r.v]
      [] r.attr = "effect" -> [shown EXCEPT !.at = SelectionIndex(r.v, known'.slot),
                                            !.labels = Labels(names'), !.button = r.v = Custom]
      [] r.attr = "colors" -> [shown EXCEPT !.preview = Preview(known')]
      [] r.attr = "name"   -> [shown EXCEPT !.labels = Labels(names')]
      [] OTHER             -> shown

\* The unfiltered rows take the new value too.
Remembered(r) ==
  IF last.page = r.page /\ r.attr \in DOMAIN last.vals
    THEN [last EXCEPT !.vals[r.attr] = r.v] ELSE last

Forgotten(r) == last

LastAfter(r) == Remembered(r)

RowUpdated(r) ==
  /\ known' = IF r.attr \in DOMAIN known THEN [known EXCEPT ![r.attr] = r.v] ELSE known
  /\ names' = IF r.attr = "name" THEN Cached(known.slot, r.v) ELSE names
  /\ shown' = UpdateRow(r) /\ last' = LastAfter(r)

Respond ==
  /\ resps # <<>> /\ resps' = Tail(resps)
  /\ LET r == Head(resps)
     IN IF r.page # cat THEN UNCHANGED <<known, names, last, shown>>
        ELSE IF r.kind = "rows" THEN Rows(r) ELSE RowUpdated(r)
  /\ UNCHANGED <<split, wheel, reqs, cat, curves, editor, clicks, faults, touches>>

Next == SelectCategory \/ EditRow \/ ToggleShaping \/ PickEffect \/ EditRgb \/ SetColor
          \/ SetName \/ Commit \/ Cancel \/ Serve \/ OtherSlot \/ Respond

Spec == Init /\ [][Next]_vars

-----------------------------------------------------------------------------
(***************************************************************************)
(* Properties.                                                             *)
(***************************************************************************)
Quiet == reqs = <<>> /\ resps = <<>>

(***************************************************************************)
(* Once every request has been served and every reply applied, the page on *)
(* screen is the page selected and shows what the wheel reports, however   *)
(* clicks, refused writes and replies interleaved (unless somebody else    *)
(* wrote the wheel meanwhile).                                             *)
(***************************************************************************)
PageSettles ==
  Quiet /\ touches = 0 => shown = LoadRows([page |-> cat, vals |-> Values(wheel, cat)], names, curves)

(***************************************************************************)
(* "Attributing a name to any other slot is exactly the poisoned-cache bug *)
(* this guards against": a name in the cache is the name of its slot, also *)
(* when another program switches slots between two requests, as long as    *)
(* the page is not left or entered between the slot's row and the name's.  *)
(***************************************************************************)
NamesOfOwnSlot == ~split => \A s \in Slots : names[s] \in {Unread, s, wheel.names[s]}

(***************************************************************************)
(* What the slot editor commits is on the strip once the commit has run,   *)
(* when nothing was refused.                                               *)
(***************************************************************************)
StripShowsSlot ==
  Quiet /\ faults = 0 /\ touches = 0 /\ wheel.effect = Custom =>
    wheel.strip = wheel.colors[wheel.slot]

(***************************************************************************)
(* "The editor always targets the ACTIVE custom slot, seeded from the      *)
(* slot-scoped attrs' last-known values": colours are written to the slot  *)
(* they were read from.                                                    *)
(***************************************************************************)
ColorsOfOwnSlot ==
  reqs # <<>> /\ Head(reqs).op = "edit" =>
    (Head(reqs).attr = "colors" => Head(reqs).seed = wheel.slot)

(***************************************************************************)
(* worker.rs: "Both rows coming from one `rows_for` pass makes the pairing *)
(* exact by construction."  The replies are two, each with its own check   *)
(* of the page: when the slot's is dropped and the page is entered again   *)
(* before the name's, the name goes to the slot last read.                 *)
(***************************************************************************)
PairingExact == Quiet => \A s \in Slots : names[s] \in {Unread, s, wheel.names[s]}
=============================================================================
