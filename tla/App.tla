-------------------------------- MODULE App --------------------------------
(***************************************************************************)
(* VentoyDepotApp: one event loop, whose handlers run one at a time, and   *)
(* the threads it starts, which scan a drive, save an assignment or write  *)
(* ISOs.  A thread reaches the screen only through call_from_thread: it    *)
(* waits while the loop runs one handler for it.  An action is a handler,  *)
(* or what a thread does between two of them.                              *)
(*                                                                         *)
(* The threads' own work is modelled in Planner and Install; here a scan   *)
(* gives any plan for its drive and an item any of its three outcomes.     *)
(* What settings say and the widgets' texts are left out.                  *)
(***************************************************************************)
EXTENDS Naturals, FiniteSets, FiniteSetsExt

CONSTANTS
  Devices,     \* identifiers of drives
  IsosOf,      \* [Devices -> sets of paths], the ISOs on each
  NoDevice,    \* the Select shows its prompt
  MaxScans,    \* how many metadata threads the user starts
  Scanners,    \* how many metadata threads, 1..Scanners, may run at once
  Writers,     \* how many transfer threads, 1..Writers, may run at once
  TypeAhead    \* whether the user can act before a new thread's first handler

Paths == UNION {IsosOf[d] : d \in Devices}

ASSUME DeviceAssumption == NoDevice \notin Devices /\ IsosOf \in [Devices -> SUBSET Paths]
ASSUME BoundAssumption == {MaxScans, Scanners, Writers} \subseteq Nat /\ TypeAhead \in BOOLEAN

VARIABLES
  devices, selected,  \* the drives listed, and the one chosen
  plan,               \* self.plan
  rows,               \* row_items: what the table shows
  marked,             \* selected_paths
  pending,            \* pending_items: paths
  failed,             \* failed_paths
  running,            \* operation_running
  transferring,       \* transfer_running
  cancel,             \* cancel_event
  screen,             \* the top of the screen stack, and what it shows
  scanners,           \* metadata threads
  writers,            \* transfer threads
  scans               \* counts the metadata threads the user started

list == <<devices, selected>>
choice == <<plan, rows, marked>>
threads == <<scanners, writers, scans>>
vars == <<list, choice, pending, failed, running, transferring, cancel, screen, threads>>

-----------------------------------------------------------------------------
(* Data *)

NoPlan == [number |-> 0, device |-> NoDevice, items |-> [p \in {} |-> "skip"]]

\* PlanItem: to be written, not to be written, of an ISO nobody knows.
Kinds == {"writable", "skip", "unknown"}
Plans ==
  UNION {[number : 1..MaxScans, device : {d}, items : [IsosOf[d] -> Kinds]] : d \in Devices}

Writable(items) == {p \in DOMAIN items : items[p] = "writable"}

Main == [kind |-> "main"]
Confirm(shown, items) == [kind |-> "confirm", plan |-> shown, items |-> items]
AssignDialog(path) == [kind |-> "assign", path |-> path]
SettingsDialog == [kind |-> "settings"]

\* A thread waits at "new" for its first handler; then it works.  A writer
\* remembers the dialog that it was confirmed in.
Idle == [at |-> "idle"]
Saver(n, d, p) == [at |-> "new", job |-> "save", number |-> n, device |-> d, path |-> p]
Builder(n, d) == [at |-> "new", job |-> "build", number |-> n, device |-> d]
Writer(dialog) ==
  [at |-> "new", plan |-> plan, items |-> pending, failed |-> {}, shown |-> dialog]

Busy(pool) == {w \in DOMAIN pool : pool[w].at # "idle"}
Free(pool) == DOMAIN pool \ Busy(pool)

\* A worker in an exclusive group: the older ones are cancelled, which
\* keeps a thread that has not begun from running and does nothing else.
Start(pool, thread) ==
  {[w \in DOMAIN pool |->
      IF w = Min(Free(pool)) THEN thread
      ELSE IF w \in unborn THEN Idle ELSE pool[w]] :
    unborn \in SUBSET {w \in Busy(pool) : pool[w].at = "new"}}

Init ==
  /\ devices = {} /\ selected = NoDevice
  /\ plan = NoPlan /\ rows = NoPlan.items /\ marked = {}
  /\ pending = {} /\ failed = {}
  /\ running = FALSE /\ transferring = FALSE /\ cancel = FALSE
  /\ screen = Main
  /\ scanners = [w \in 1..Scanners |-> Idle]
  /\ writers = [w \in 1..Writers |-> Idle]
  /\ scans = 0
-----------------------------------------------------------------------------
(* Handlers of the user's keys and buttons.  A modal screen receives them  *)
(* instead of the main one.                                                *)

User == TypeAhead \/ \A w \in Busy(scanners) : scanners[w].at # "new"
OnMain == User /\ screen = Main

\* Mutant of Refresh: the Select keeps its value.
RefreshKeepsSelection ==
  /\ OnMain /\ ~running
  /\ devices' \in SUBSET Devices
  /\ plan' = NoPlan /\ rows' = NoPlan.items /\ marked' = {} /\ failed' = {}
  /\ UNCHANGED <<selected, pending, running, transferring, cancel, screen, threads>>

Refresh ==
  /\ OnMain /\ ~running
  /\ devices' \in SUBSET Devices
  /\ selected' = NoDevice
  /\ plan' = NoPlan /\ rows' = NoPlan.items /\ marked' = {} /\ failed' = {}
  /\ UNCHANGED <<pending, running, transferring, cancel, screen, threads>>

\* on_select_changed of the app.  Every Select's message comes to it, those
\* of a dialog above it too, and it does not ask whose it is.
PlanDropped == plan' = NoPlan /\ marked' = {} /\ failed' = {}

\* The Select of drives is disabled while an operation runs.
Select ==
  /\ OnMain /\ ~running
  /\ selected' \in (devices \cup {NoDevice}) \ {selected}
  /\ PlanDropped
  /\ UNCHANGED <<devices, rows, pending, running, transferring, cancel, screen, threads>>

\* Mutant of Scan: a scan may start while another operation runs.
ScanAnyTime ==
  /\ OnMain /\ selected \in devices
  /\ scans < MaxScans /\ Free(scanners) # {}
  /\ scans' = scans + 1
  /\ running' = TRUE
  /\ scanners' \in Start(scanners, Builder(scans', selected))
  /\ UNCHANGED <<list, choice, pending, failed, transferring, cancel, screen, writers>>

Scan ==
  /\ OnMain /\ ~running /\ selected \in devices
  /\ scans < MaxScans /\ Free(scanners) # {}
  /\ scans' = scans + 1
  /\ running' = TRUE
  /\ scanners' \in Start(scanners, Builder(scans', selected))
  /\ UNCHANGED <<list, choice, pending, failed, transferring, cancel, screen, writers>>

ToggleSelection ==
  /\ OnMain /\ ~running
  /\ \E p \in Writable(rows) :
       marked' = IF p \in marked THEN marked \ {p} ELSE marked \cup {p}
  /\ UNCHANGED <<list, plan, rows, pending, failed, running, transferring, cancel, screen, threads>>

\* A dialog's Selects say that they changed when they are first shown.
Open(dialog) ==
  /\ OnMain /\ ~running
  /\ screen' = dialog
  /\ PlanDropped
  /\ UNCHANGED <<list, rows, pending, running, transferring, cancel, threads>>

AssignIdentity ==
  \E p \in {p \in DOMAIN rows : rows[p] = "unknown"} : Open(AssignDialog(p))

OpenSettings == Open(SettingsDialog)

\* The user changes a Select of the dialog.
DialogSelect ==
  /\ User /\ screen.kind \in {"assign", "settings"}
  /\ PlanDropped
  /\ UNCHANGED <<list, rows, pending, running, transferring, cancel, screen, threads>>

\* _settings_chosen: where the settings cannot be saved, _show_error.
SettingsChosen ==
  /\ User /\ screen.kind = "settings"
  /\ screen' = Main
  /\ running' \in {running, FALSE}
  /\ UNCHANGED <<list, choice, pending, failed, transferring, cancel, threads>>

\* The dialog is left without an identity, or no drive is chosen.
AssignmentDismissed ==
  /\ User /\ screen.kind = "assign"
  /\ screen' = Main
  /\ UNCHANGED <<list, choice, pending, failed, running, transferring, cancel, threads>>

\* Unlike action_scan, this leaves operation_running to the thread.
AssignmentChosen ==
  /\ User /\ screen.kind = "assign" /\ selected \in devices
  /\ scans < MaxScans /\ Free(scanners) # {}
  /\ screen' = Main
  /\ scans' = scans + 1
  /\ scanners' \in Start(scanners, Saver(scans', selected, screen.path))
  /\ UNCHANGED <<list, choice, pending, failed, running, transferring, cancel, writers>>

\* Mutant of Ask: what failed is retried although it may not be written.
AskForAnything(paths) ==
  LET items == DOMAIN plan.items \cap paths IN
  /\ OnMain /\ ~running /\ plan # NoPlan /\ items # {}
  /\ pending' = items
  /\ screen' = Confirm(plan, items)
  /\ UNCHANGED <<list, choice, failed, running, transferring, cancel, threads>>

\* action_update and action_retry_failed ask for a confirmation of these.
Ask(paths) ==
  LET items == Writable(plan.items) \cap paths IN
  /\ OnMain /\ ~running /\ plan # NoPlan /\ items # {}
  /\ pending' = items
  /\ screen' = Confirm(plan, items)
  /\ UNCHANGED <<list, choice, failed, running, transferring, cancel, threads>>

Update == Ask(marked)
RetryFailed == failed # {} /\ Ask(failed)

UpdateRefused ==
  /\ User /\ screen.kind = "confirm"
  /\ pending' = {} /\ screen' = Main
  /\ UNCHANGED <<list, choice, failed, running, transferring, cancel, threads>>

\* Mutant of ConfirmUpdates: operation_running is left to the thread.
ConfirmUpdatesLate ==
  /\ User /\ screen.kind = "confirm"
  /\ plan # NoPlan /\ pending # {} /\ Free(writers) # {}
  /\ pending' = {} /\ screen' = Main
  /\ cancel' = FALSE /\ transferring' = TRUE
  /\ writers' \in Start(writers, Writer(screen))
  /\ UNCHANGED <<list, choice, failed, running, scanners, scans>>

\* _confirm_updates, confirmed.
ConfirmUpdates ==
  /\ User /\ screen.kind = "confirm"
  /\ plan # NoPlan /\ pending # {} /\ Free(writers) # {}
  /\ pending' = {} /\ screen' = Main
  /\ cancel' = FALSE /\ transferring' = TRUE /\ running' = TRUE
  /\ writers' \in Start(writers, Writer(screen))
  /\ UNCHANGED <<list, choice, failed, scanners, scans>>

CancelRun ==
  /\ OnMain /\ transferring
  /\ cancel' = TRUE
  /\ UNCHANGED <<list, choice, pending, failed, running, transferring, screen, threads>>
-----------------------------------------------------------------------------
(* Metadata threads *)

\* The first handler of a thread is _set_running(True).
BeginScanner(w) ==
  /\ scanners[w].at = "new"
  /\ scanners' = [scanners EXCEPT ![w].at = "working"]
  /\ running' = TRUE
  /\ UNCHANGED <<list, choice, pending, failed, transferring, cancel, screen, writers, scans>>

Ends(w) == scanners' = [scanners EXCEPT ![w] = Idle]

\* _show_error
ShowError(w) ==
  /\ scanners[w].at = "working"
  /\ Ends(w)
  /\ running' = FALSE
  /\ UNCHANGED <<list, choice, pending, failed, transferring, cancel, screen, writers, scans>>

\* Mutant of ShowPlan: what was marked in the old plan stays marked.
ShowPlanKeepsMarks(w) ==
  /\ scanners[w].at = "working" /\ scanners[w].job = "build"
  /\ \E items \in [IsosOf[scanners[w].device] -> Kinds] :
       /\ plan' = [number |-> scanners[w].number, device |-> scanners[w].device,
                   items |-> items]
       /\ rows' = items
       /\ UNCHANGED marked
  /\ Ends(w)
  /\ running' = FALSE
  /\ UNCHANGED <<list, pending, failed, transferring, cancel, screen, writers, scans>>

\* _show_plan.  Nothing or everything is marked, as settings have it.
ShowPlan(w) ==
  /\ scanners[w].at = "working" /\ scanners[w].job = "build"
  /\ \E items \in [IsosOf[scanners[w].device] -> Kinds] :
       /\ plan' = [number |-> scanners[w].number, device |-> scanners[w].device,
                   items |-> items]
       /\ rows' = items
       /\ marked' \in {Writable(items), {}}
  /\ Ends(w)
  /\ running' = FALSE
  /\ UNCHANGED <<list, pending, failed, transferring, cancel, screen, writers, scans>>

\* The catalog of a drive takes only paths on it.  _assignment_saved starts
\* the scan in the place of the thread that saved.
AssignmentSaved(w) ==
  /\ scanners[w].at = "working" /\ scanners[w].job = "save"
  /\ scanners[w].path \in IsosOf[scanners[w].device]
  /\ \E pool \in Start([scanners EXCEPT ![w] = Idle],
                       Builder(scanners[w].number, scanners[w].device)) : scanners' = pool
  /\ UNCHANGED <<list, choice, pending, failed, running, transferring, cancel, screen, writers, scans>>
-----------------------------------------------------------------------------
(* Transfer threads: _perform_updates *)

BeginWriter(w) ==
  /\ writers[w].at = "new"
  /\ writers' = [writers EXCEPT ![w].at = "between"]
  /\ running' = TRUE
  /\ UNCHANGED <<list, choice, pending, failed, transferring, cancel, screen, scanners, scans>>

WriterOnly == UNCHANGED <<list, choice, pending, failed, running, transferring, cancel,
                          screen, scanners, scans>>

\* Mutant of NextItem: the loop does not look at cancel_event.
NextItemUnchecked(w) ==
  /\ writers[w].at = "between" /\ writers[w].items # {}
  /\ writers' = [writers EXCEPT ![w].at = "applying"]
  /\ WriterOnly

NextItem(w) ==
  /\ writers[w].at = "between" /\ writers[w].items # {} /\ ~cancel
  /\ writers' = [writers EXCEPT ![w].at = "applying"]
  /\ WriterOnly

\* apply_item returns or raises, other than on cancellation.
ItemDone(w) ==
  /\ writers[w].at = "applying"
  /\ \E p \in writers[w].items, fails \in BOOLEAN :
       writers' = [writers EXCEPT
         ![w].at = "between",
         ![w].items = @ \ {p},
         ![w].failed = IF fails THEN @ \cup {p} ELSE @]
  /\ WriterOnly

\* Cancelled in or between items, or there is none left: the report is
\* written, and whether that worked is ignored.
LeaveLoop(w) ==
  /\ \/ writers[w].at = "between" /\ (cancel \/ writers[w].items = {})
     \/ writers[w].at = "applying" /\ cancel
  /\ writers' = [writers EXCEPT ![w].at = "report"]
  /\ WriterOnly

\* Mutant of FinishUpdates: the flag that blocks the keys stays set.
FinishUpdatesBlocked(w) ==
  /\ writers[w].at = "report"
  /\ writers' = [writers EXCEPT ![w] = Idle]
  /\ transferring' = FALSE /\ cancel' = FALSE
  /\ failed' = writers[w].failed
  /\ marked' = {}
  /\ UNCHANGED <<list, plan, rows, pending, running, screen, scanners, scans>>

\* _finish_updates
FinishUpdates(w) ==
  /\ writers[w].at = "report"
  /\ writers' = [writers EXCEPT ![w] = Idle]
  /\ transferring' = FALSE /\ cancel' = FALSE /\ running' = FALSE
  /\ failed' = writers[w].failed
  /\ marked' = {}
  /\ UNCHANGED <<list, plan, rows, pending, screen, scanners, scans>>
-----------------------------------------------------------------------------
UserStep ==
  \/ Refresh \/ Select \/ Scan \/ ToggleSelection
  \/ AssignIdentity \/ AssignmentDismissed \/ AssignmentChosen
  \/ OpenSettings \/ DialogSelect \/ SettingsChosen
  \/ Update \/ RetryFailed \/ UpdateRefused \/ ConfirmUpdates \/ CancelRun

Scanner(w) == BeginScanner(w) \/ ShowError(w) \/ ShowPlan(w) \/ AssignmentSaved(w)

WriterStep(w) ==
  BeginWriter(w) \/ NextItem(w) \/ ItemDone(w) \/ LeaveLoop(w) \/ FinishUpdates(w)

Next ==
  \/ UserStep
  \/ \E w \in 1..Scanners : Scanner(w)
  \/ \E w \in 1..Writers : WriterStep(w)

Spec == Init /\ [][Next]_vars

\* Threads run, and the loop runs the handlers they wait for.  Nothing makes
\* the user act.
FairSpec ==
  /\ Spec
  /\ \A w \in 1..Scanners : WF_vars(Scanner(w))
  /\ \A w \in 1..Writers : WF_vars(WriterStep(w))
-----------------------------------------------------------------------------
(* Correctness *)

Screens ==
  {Main, SettingsDialog} \cup {AssignDialog(p) : p \in Paths} \cup
  {Confirm(shown, items) : shown \in Plans, items \in SUBSET Paths}

\* The drive chosen is one of those listed; everything else has its type.
TypeOK ==
  /\ devices \subseteq Devices /\ selected \in devices \cup {NoDevice}
  /\ plan \in Plans \cup {NoPlan}
  /\ rows \in (UNION {[IsosOf[d] -> Kinds] : d \in Devices}) \cup {NoPlan.items}
  /\ marked \cup pending \cup failed \subseteq Paths
  /\ {running, transferring, cancel} \subseteq BOOLEAN
  /\ screen = Main \/ screen \in Screens
  /\ \A w \in Busy(scanners) : scanners[w].at \in {"new", "working"}
  /\ \A w \in Busy(writers) : writers[w].at \in {"new", "between", "applying", "report"}
  /\ scans \in 0..MaxScans

\* The ISOs of a run are written one after the other: no two threads apply
\* items at once (Install shows what two of them do to each other).
OneWriter == Cardinality(Busy(writers)) <= 1

\* What is being written was shown in the dialog the user confirmed, belongs
\* to the plan whose drive the writer revalidates, and is writable in it
\* (README.md: "review the complete plan, then confirm the transfer").
WritesWhatWasConfirmed ==
  \A w \in Busy(writers) :
    /\ writers[w].shown.plan = writers[w].plan
    /\ writers[w].items \subseteq writers[w].shown.items
    /\ writers[w].items \subseteq Writable(writers[w].plan.items)

\* The parts of the screen agree: the plan is of the drive chosen, the rows
\* are its items, marked are only writable ones, and what can be retried is
\* on that drive.
ScreenAgrees ==
  plan # NoPlan =>
    /\ plan.device = selected /\ rows = plan.items
    /\ marked \subseteq Writable(rows)
    /\ failed \subseteq DOMAIN rows

\* While ISOs are written the user can neither refresh nor choose another
\* drive (test_keyboard_refresh_is_ignored_while_operation_runs).
RefreshIgnored == [][Busy(writers) # {} => UNCHANGED list]_vars

\* After Cancel the run begins no other ISO, and the request lasts until
\* every writer has come to its end.
CancelIsHeeded ==
  [][cancel /\ Busy(writers) # {} =>
       /\ cancel' \/ Busy(writers') = {}
       /\ \A w \in Busy(writers) :
            writers[w].at = "between" => writers'[w].at # "applying"]_vars

\* An operation ends and gives the keys back to the user.
OperationsEnd == running ~> ~running
-----------------------------------------------------------------------------
(* Why they hold when a new thread's first handler runs before the user acts *)

Scans ==
  {Idle} \cup
  [at : {"new", "working"}, job : {"save"}, number : 1..MaxScans, device : Devices, path : Paths]
  \cup [at : {"new", "working"}, job : {"build"}, number : 1..MaxScans, device : Devices]
Transfers ==
  {Idle} \cup
  [at : {"new", "between", "applying", "report"}, plan : Plans, items : SUBSET Paths,
   failed : SUBSET Paths, shown : Screens]
ThreadsOK ==
  scanners \in [1..Scanners -> Scans] /\ writers \in [1..Writers -> Transfers]

\* There is one thread at most, and none while a dialog is open.
OneThread ==
  /\ \A v, w \in Busy(scanners) : v = w
  /\ \A v, w \in Busy(writers) : v = w
  /\ Busy(scanners) = {} \/ Busy(writers) = {}
DialogsAlone == screen # Main => Busy(scanners) = {} /\ Busy(writers) = {}

\* operation_running blocks the keys while a thread has begun; a thread that
\* writes ISOs blocks them before that.
BusyIsRunning ==
  /\ \A w \in Busy(scanners) : scanners[w].at = "working" => running
  /\ Busy(writers) # {} => running

\* A confirmation shows the plan there is, and what is to be written of it.
DialogShowsPlan ==
  screen.kind = "confirm" =>
    /\ screen.plan = plan /\ screen.items = pending /\ plan # NoPlan
    /\ pending \subseteq Writable(plan.items)

\* Threads work on the drive chosen; what failed is on it.
OnSelected ==
  /\ \A w \in Busy(scanners) : scanners[w].device = selected
  /\ \A w \in Busy(writers) :
       writers[w].plan.device = selected /\ writers[w].failed \subseteq IsosOf[selected]
  /\ failed # {} => selected \in Devices /\ failed \subseteq IsosOf[selected]

\* The inductive invariant.
AppInv ==
  /\ TypeOK /\ ThreadsOK
  /\ OneThread /\ DialogsAlone /\ BusyIsRunning
  /\ DialogShowsPlan /\ OnSelected
  /\ WritesWhatWasConfirmed /\ ScreenAgrees
=============================================================================
