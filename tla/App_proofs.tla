----------------------------- MODULE App_proofs -----------------------------
(***************************************************************************)
(* Proofs about module App, for any drives, ISOs and number of threads.    *)
(***************************************************************************)
EXTENDS App, FiniteSetTheorems, TLAPS

TypeInv == TypeOK /\ ThreadsOK

LEMMA IdleThread == Idle.at = "idle" /\ Idle \in Scans /\ Idle \in Transfers
BY DEF Idle, Scans, Transfers

\* A new thread takes a place in the pool; others may be dropped from it.
LEMMA StartedPool ==
  ASSUME NEW N, NEW T, NEW pool \in [1..N -> T], NEW thread \in T, Idle \in T,
         NEW started \in Start(pool, thread)
  PROVE  started \in [1..N -> T]
BY DEF Start

\* Into a pool without threads only the new one comes.
LEMMA StartedAlone ==
  ASSUME NEW N, NEW T, NEW pool \in [1..N -> T], NEW thread \in T, Idle \in T,
         Busy(pool) = {}, NEW started \in Start(pool, thread)
  PROVE  /\ \A w \in Busy(started) : started[w] = thread
         /\ \A v, w \in Busy(started) : v = w
PROOF
<1>1. PICK unborn : started = [w \in 1..N |-> IF w = Min(Free(pool)) THEN thread
                                             ELSE IF w \in unborn THEN Idle ELSE pool[w]]
  BY DEF Start
<1>2. \A w \in 1..N : pool[w].at = "idle"
  BY DEF Busy
<1>3. \A w \in Busy(started) : w \in 1..N /\ w = Min(Free(pool))
  BY <1>1, <1>2, IdleThread DEF Busy
<1> QED
  BY <1>1, <1>3

LEMMA Flags ==
  {running, transferring, cancel} \subseteq BOOLEAN
  <=> running \in BOOLEAN /\ transferring \in BOOLEAN /\ cancel \in BOOLEAN
OBVIOUS

LEMMA DialogScreens ==
  /\ Main \in Screens /\ SettingsDialog \in Screens
  /\ \A p \in Paths : AssignDialog(p) \in Screens
  /\ \A shown \in Plans, items \in SUBSET Paths : Confirm(shown, items) \in Screens
BY DEF Screens

LEMMA ScreenKinds ==
  /\ Main.kind = "main" /\ SettingsDialog.kind = "settings"
  /\ \A p : AssignDialog(p).kind = "assign" /\ AssignDialog(p).path = p
  /\ \A shown, items :
       /\ Confirm(shown, items).kind = "confirm"
       /\ Confirm(shown, items).plan = shown /\ Confirm(shown, items).items = items
BY DEF Main, SettingsDialog, AssignDialog, Confirm

LEMMA PlanTypes ==
  /\ \A d \in Devices : IsosOf[d] \subseteq Paths
  /\ \A plan1 \in Plans :
       /\ plan1.device \in Devices /\ plan1.items \in [IsosOf[plan1.device] -> Kinds]
       /\ Writable(plan1.items) \subseteq IsosOf[plan1.device]
  /\ \A d \in Devices : \A n \in 1..MaxScans : \A items \in [IsosOf[d] -> Kinds] :
       [number |-> n, device |-> d, items |-> items] \in Plans
BY DEF Plans, Writable, Paths

LEMMA ThreadTypes ==
  /\ \A n \in 1..MaxScans, d \in Devices : Builder(n, d) \in Scans
  /\ \A n \in 1..MaxScans, d \in Devices, p \in Paths : Saver(n, d, p) \in Scans
BY DEF Builder, Saver, Scans

LEMMA OpenDialogs ==
  ASSUME NEW s \in Screens
  PROVE  \/ s = Main
         \/ s.kind = "settings"
         \/ s.kind = "assign" /\ s.path \in Paths
         \/ s.kind = "confirm" /\ s.plan \in Plans /\ s.items \in SUBSET Paths
BY DEF Screens, Main, SettingsDialog, AssignDialog, Confirm

AllRows == (UNION {[IsosOf[d] -> Kinds] : d \in Devices}) \cup {NoPlan.items}

LEMMA RowTypes ==
  /\ NoPlan.items \in AllRows
  /\ \A d \in Devices : [IsosOf[d] -> Kinds] \subseteq AllRows
  /\ \A items \in AllRows : DOMAIN items \subseteq Paths /\ Writable(items) \subseteq Paths
PROOF
<1>1. DOMAIN NoPlan.items = {}
  BY DEF NoPlan
<1> QED
  BY <1>1, PlanTypes DEF AllRows, Writable

\* TypeOK, one variable at a time.
PartTypes ==
  /\ devices \subseteq Devices /\ selected \in devices \cup {NoDevice}
  /\ plan \in Plans \cup {NoPlan} /\ rows \in AllRows
  /\ marked \subseteq Paths /\ pending \subseteq Paths /\ failed \subseteq Paths
  /\ running \in BOOLEAN /\ transferring \in BOOLEAN /\ cancel \in BOOLEAN
  /\ screen \in Screens
  /\ scanners \in [1..Scanners -> Scans] /\ writers \in [1..Writers -> Transfers]
  /\ scans \in 0..MaxScans

LEMMA TypeParts == TypeInv <=> PartTypes
PROOF
<1> DEFINE ScannersAt == \A w \in Busy(scanners) : scanners[w].at \in {"new", "working"}
           WritersAt == \A w \in Busy(writers) :
                          writers[w].at \in {"new", "between", "applying", "report"}
<1>1. ThreadsOK => ScannersAt /\ WritersAt
  BY DEF ThreadsOK, Scans, Transfers, Busy, Idle
<1>2. marked \cup pending \cup failed \subseteq Paths
      <=> marked \subseteq Paths /\ pending \subseteq Paths /\ failed \subseteq Paths
  OBVIOUS
<1>3. (screen = Main \/ screen \in Screens) <=> screen \in Screens
  BY DialogScreens
<1> QED
  BY <1>1, <1>2, <1>3, Flags DEF PartTypes, TypeInv, TypeOK, ThreadsOK, AllRows

LEMMA InitTypes == Init => TypeInv
PROOF
<1> SUFFICES ASSUME Init PROVE TypeInv
  OBVIOUS
<1>1. 0 \in 0..MaxScans
  BY BoundAssumption
<1> QED
  BY <1>1, IdleThread, DialogScreens, RowTypes, TypeParts DEF PartTypes, Init

\* What a thread may become.
LEMMA ScannerSteps ==
  ASSUME PartTypes, NEW w \in 1..Scanners, scanners[w].at # "idle"
  PROVE  /\ scanners[w] \in Scans /\ scanners[w].device \in Devices
         /\ scanners[w].number \in 1..MaxScans
         /\ [scanners EXCEPT ![w].at = "working"] \in [1..Scanners -> Scans]
         /\ [scanners EXCEPT ![w] = Idle] \in [1..Scanners -> Scans]
BY IdleThread DEF PartTypes, Scans, Idle

LEMMA WriterThread ==
  ASSUME PartTypes, NEW w \in 1..Writers, writers[w].at # "idle"
  PROVE  /\ writers[w] \in [at : {"new", "between", "applying", "report"}, plan : Plans,
                            items : SUBSET Paths, failed : SUBSET Paths, shown : Screens]
         /\ [writers EXCEPT ![w] = Idle] \in [1..Writers -> Transfers]
BY IdleThread DEF PartTypes, Transfers, Idle

LEMMA WriterSteps ==
  ASSUME PartTypes, NEW w \in 1..Writers, writers[w].at # "idle",
         NEW a \in {"new", "between", "applying", "report"}
  PROVE  [writers EXCEPT ![w].at = a] \in [1..Writers -> Transfers]
PROOF
<1>1. [writers[w] EXCEPT !.at = a] \in Transfers
  BY WriterThread DEF Transfers
<1> QED
  BY <1>1 DEF PartTypes

LEMMA WriterItems ==
  ASSUME PartTypes, NEW w \in 1..Writers, writers[w].at # "idle",
         NEW s \in SUBSET Paths, NEW f \in SUBSET Paths,
         writers' = [writers EXCEPT ![w].at = "between", ![w].items = s, ![w].failed = f]
  PROVE  writers' \in [1..Writers -> Transfers]
PROOF
<1> DEFINE thread == writers[w]
           next == [[[thread EXCEPT !.at = "between"] EXCEPT !.items = s] EXCEPT !.failed = f]
<1>1. next \in Transfers
  BY WriterThread DEF Transfers
<1>2. writers' = [writers EXCEPT ![w] = next]
  BY WriterThread DEF PartTypes
<1> HIDE DEF next
<1> QED
  BY <1>1, <1>2 DEF PartTypes

LEMMA NewWriter ==
  ASSUME PartTypes, plan # NoPlan
  PROVE  Writer(screen) \in Transfers
BY DEF PartTypes, Writer, Transfers

LEMMA UserTypes == PartTypes /\ UserStep => PartTypes'
PROOF
<1> SUFFICES ASSUME PartTypes, UserStep PROVE PartTypes'
  OBVIOUS
<1> USE DEF PartTypes, list, choice, threads
<1>1. CASE Refresh
  BY <1>1, RowTypes DEF Refresh
<1>2. CASE Select
  BY <1>2 DEF Select, PlanDropped
<1>3. CASE Scan
  BY <1>3, BoundAssumption, ThreadTypes, StartedPool, IdleThread DEF Scan
<1>4. CASE ToggleSelection
  BY <1>4, RowTypes DEF ToggleSelection
<1>5. CASE AssignIdentity \/ OpenSettings
  <2>1. /\ screen' \in Screens /\ plan' = NoPlan /\ marked' = {} /\ failed' = {}
        /\ UNCHANGED <<list, rows, pending, running, transferring, cancel, threads>>
    BY <1>5, RowTypes, DialogScreens DEF AssignIdentity, OpenSettings, Open, PlanDropped
  <2> QED
    BY <2>1
<1>13. CASE DialogSelect
  BY <1>13 DEF DialogSelect, PlanDropped
<1>14. CASE SettingsChosen
  BY <1>14, DialogScreens DEF SettingsChosen
<1>6. CASE AssignmentDismissed
  BY <1>6, DialogScreens DEF AssignmentDismissed
<1>7. CASE AssignmentChosen
  BY <1>7, BoundAssumption, ThreadTypes, StartedPool, IdleThread, DialogScreens, OpenDialogs,
     ScreenKinds DEF AssignmentChosen
<1>8. ASSUME NEW paths, Ask(paths) PROVE PartTypes'
  <2>1. Writable(plan.items) \subseteq Paths
    BY <1>8, PlanTypes DEF Ask
  <2> QED
    BY <1>8, <2>1, DialogScreens DEF Ask
<1>9. CASE Update \/ RetryFailed
  BY <1>8, <1>9 DEF Update, RetryFailed
<1>10. CASE UpdateRefused
  BY <1>10, DialogScreens DEF UpdateRefused
<1>11. CASE ConfirmUpdates
  BY <1>11, NewWriter, StartedPool, IdleThread, DialogScreens DEF ConfirmUpdates
<1>12. CASE CancelRun
  BY <1>12 DEF CancelRun
<1> QED
  BY <1>1, <1>2, <1>3, <1>4, <1>5, <1>6, <1>7, <1>9, <1>10, <1>11, <1>12, <1>13, <1>14 DEF UserStep

LEMMA ScannerTypes ==
  ASSUME PartTypes, NEW w \in 1..Scanners, Scanner(w)
  PROVE  PartTypes'
PROOF
<1> USE DEF PartTypes, list, choice, threads
<1>0. scanners[w].at # "idle"
  BY DEF Scanner, BeginScanner, ShowError, ShowPlan, AssignmentSaved
<1>1. CASE BeginScanner(w)
  BY <1>0, <1>1, ScannerSteps DEF BeginScanner
<1>2. CASE ShowError(w)
  BY <1>0, <1>2, ScannerSteps DEF ShowError, Ends
<1>3. CASE ShowPlan(w)
  <2>1. PICK items \in [IsosOf[scanners[w].device] -> Kinds] :
          /\ plan' = [number |-> scanners[w].number, device |-> scanners[w].device,
                      items |-> items]
          /\ rows' = items
          /\ marked' \in {Writable(items), {}}
    BY <1>3 DEF ShowPlan
  <2>2. plan' \in Plans /\ rows' \in AllRows /\ marked' \subseteq Paths
    BY <1>0, <2>1, ScannerSteps, PlanTypes, RowTypes
  <2> QED
    BY <1>0, <1>3, <2>2, ScannerSteps DEF ShowPlan, Ends
<1>4. CASE AssignmentSaved(w)
  <2>1. PICK pool \in Start([scanners EXCEPT ![w] = Idle],
                            Builder(scanners[w].number, scanners[w].device)) : scanners' = pool
    BY <1>4 DEF AssignmentSaved
  <2>2. Builder(scanners[w].number, scanners[w].device) \in Scans
    BY <1>0, ScannerSteps, ThreadTypes
  <2>3. scanners' \in [1..Scanners -> Scans]
    BY <1>0, <2>1, <2>2, ScannerSteps, StartedPool, IdleThread
  <2> QED
    BY <1>4, <2>3 DEF AssignmentSaved
<1> QED
  BY <1>1, <1>2, <1>3, <1>4 DEF Scanner

LEMMA WriterTypes ==
  ASSUME PartTypes, NEW w \in 1..Writers, WriterStep(w)
  PROVE  PartTypes'
PROOF
<1> USE DEF PartTypes, list, choice, threads
<1>0. writers[w].at # "idle"
  BY DEF WriterStep, BeginWriter, NextItem, ItemDone, LeaveLoop, FinishUpdates
<1>1. CASE BeginWriter(w)
  BY <1>0, <1>1, WriterSteps DEF BeginWriter
<1>2. CASE NextItem(w)
  BY <1>0, <1>2, WriterSteps DEF NextItem, WriterOnly
<1>3. CASE ItemDone(w)
  <2>1. PICK p \in writers[w].items, fails \in BOOLEAN :
          writers' = [writers EXCEPT
            ![w].at = "between",
            ![w].items = writers[w].items \ {p},
            ![w].failed = IF fails THEN writers[w].failed \cup {p} ELSE writers[w].failed]
    BY <1>3 DEF ItemDone
  <2>2. writers[w].items \ {p} \in SUBSET Paths /\ writers[w].failed \in SUBSET Paths
        /\ p \in Paths
    BY <1>0, <2>1, WriterThread
  <2> DEFINE f == IF fails THEN writers[w].failed \cup {p} ELSE writers[w].failed
  <2>4. f \in SUBSET Paths
    BY <2>2
  <2>5. writers' = [writers EXCEPT ![w].at = "between", ![w].items = writers[w].items \ {p},
                                   ![w].failed = f]
    BY <2>1
  <2> HIDE DEF f
  <2>3. writers' \in [1..Writers -> Transfers]
    BY <1>0, <2>5, <2>2, <2>4, WriterItems
  <2> QED
    BY <1>3, <2>3 DEF ItemDone, WriterOnly
<1>4. CASE LeaveLoop(w)
  BY <1>0, <1>4, WriterSteps DEF LeaveLoop, WriterOnly
<1>5. CASE FinishUpdates(w)
  BY <1>0, <1>5, WriterThread DEF FinishUpdates
<1> QED
  BY <1>1, <1>2, <1>3, <1>4, <1>5 DEF WriterStep

LEMMA TypeStep == PartTypes /\ [Next]_vars => PartTypes'
PROOF
<1>1. UNCHANGED vars /\ PartTypes => PartTypes'
  BY DEF vars, list, choice, threads, PartTypes
<1> QED
  BY <1>1, UserTypes, ScannerTypes, WriterTypes DEF Next

\* Whatever the user and the threads do, every variable keeps its type, and
\* the drive chosen is one of those listed.
THEOREM AppTypeCorrect == Spec => []TypeOK
PROOF
<1>1. Init => PartTypes
  BY InitTypes, TypeParts
<1>2. PartTypes => TypeOK
  BY TypeParts DEF TypeInv
<1> QED
  BY <1>1, <1>2, TypeStep, PTL DEF Spec
-----------------------------------------------------------------------------
(* The other parts of the inductive invariant, with the assumption that a   *)
(* new thread's first handler runs before the user acts.                    *)

ThreadInv == OneThread /\ BusyIsRunning /\ OnSelected /\ WritesWhatWasConfirmed
ScreenInv == DialogsAlone /\ DialogShowsPlan /\ ScreenAgrees

LEMMA InvParts == AppInv <=> PartTypes /\ ThreadInv /\ ScreenInv
BY TypeParts DEF AppInv, ThreadInv, ScreenInv, TypeInv

\* Who has the keys, while no operation runs or in a dialog, is alone.
LEMMA UserIsAlone ==
  ASSUME ~TypeAhead, PartTypes, ThreadInv, ScreenInv, User, ~running \/ screen # Main
  PROVE  Busy(scanners) = {} /\ Busy(writers) = {}
PROOF
<1>1. \A w \in Busy(scanners) : scanners[w].at = "working"
  BY DEF PartTypes, Busy, Scans, Idle, User
<1> QED
  BY <1>1 DEF ThreadInv, ScreenInv, BusyIsRunning, DialogsAlone

LEMMA NoThreads ==
  ASSUME Busy(scanners) = {}, Busy(writers) = {}
  PROVE  /\ OneThread /\ BusyIsRunning /\ WritesWhatWasConfirmed /\ DialogsAlone
         /\ OnSelected <=> (failed # {} => selected \in Devices /\ failed \subseteq IsosOf[selected])
BY DEF OneThread, BusyIsRunning, WritesWhatWasConfirmed, DialogsAlone, OnSelected

\* NoThreads, of the next state.
LEMMA NoThreadsNext ==
  ASSUME Busy(scanners) = {}, Busy(writers) = {}, UNCHANGED <<scanners, writers>>,
         (failed # {} => selected \in Devices /\ failed \subseteq IsosOf[selected])'
  PROVE  ThreadInv' /\ DialogsAlone'
PROOF
<1>1. Busy(scanners') = {} /\ Busy(writers') = {}
  BY DEF Busy
<1> QED
  BY <1>1 DEF ThreadInv, OneThread, BusyIsRunning, WritesWhatWasConfirmed, DialogsAlone, OnSelected

LEMMA InitInv == Init => PartTypes /\ ThreadInv /\ ScreenInv
PROOF
<1> SUFFICES ASSUME Init PROVE ThreadInv /\ ScreenInv
  BY InitTypes, TypeParts
<1>1. Busy(scanners) = {} /\ Busy(writers) = {}
  BY IdleThread DEF Init, Busy
<1>2. screen.kind # "confirm"
  BY ScreenKinds DEF Init
<1>3. failed = {} /\ plan = NoPlan
  BY DEF Init
<1> QED
  BY <1>1, <1>2, <1>3, NoThreads DEF ThreadInv, ScreenInv, DialogShowsPlan, ScreenAgrees

LEMMA PlanOnSelected ==
  ASSUME PartTypes, ScreenInv, plan # NoPlan
  PROVE  /\ plan.device = selected /\ selected \in Devices /\ rows = plan.items
         /\ DOMAIN rows = IsosOf[selected] /\ Writable(rows) \subseteq IsosOf[selected]
BY PlanTypes DEF PartTypes, ScreenInv, ScreenAgrees

LEMMA UserKeeps ==
  ASSUME ~TypeAhead, PartTypes, ThreadInv, ScreenInv, UserStep
  PROVE  ThreadInv' /\ ScreenInv'
PROOF
<1> USE DEF list, choice, threads
<1>o. failed # {} => selected \in Devices /\ failed \subseteq IsosOf[selected]
  BY DEF ThreadInv, OnSelected
<1>d. DialogShowsPlan /\ ScreenAgrees
  BY DEF ScreenInv
<1>m. Main.kind # "confirm"
  BY ScreenKinds
\* A step that drops the plan, of a user who has the keys.
<1>p. ASSUME plan' = NoPlan, failed' = {}, screen'.kind # "confirm",
             UNCHANGED <<scanners, writers>>, Busy(scanners) = {}, Busy(writers) = {}
      PROVE  ThreadInv' /\ ScreenInv'
  BY <1>p, NoThreadsNext DEF ScreenInv, DialogShowsPlan, ScreenAgrees
<1>1. CASE Refresh \/ Select
  BY <1>1, <1>p, <1>m, UserIsAlone DEF Refresh, Select, PlanDropped, OnMain
<1>2. CASE AssignIdentity \/ OpenSettings \/ DialogSelect
  <2>1. screen'.kind # "confirm"
    BY <1>2, ScreenKinds DEF AssignIdentity, OpenSettings, Open, DialogSelect
  <2>2. Busy(scanners) = {} /\ Busy(writers) = {}
    BY <1>2, UserIsAlone, ScreenKinds DEF AssignIdentity, OpenSettings, Open, DialogSelect, OnMain
  <2>3. plan' = NoPlan /\ failed' = {} /\ UNCHANGED <<scanners, writers>>
    BY <1>2 DEF AssignIdentity, OpenSettings, Open, DialogSelect, PlanDropped
  <2> QED
    BY <2>1, <2>2, <2>3, <1>p
<1>3. CASE Scan
  <2>1. Busy(scanners) = {} /\ Busy(writers) = {}
    BY <1>3, UserIsAlone DEF Scan, OnMain
  <2>2. scans' \in 1..MaxScans /\ selected \in Devices
    BY <1>3, BoundAssumption DEF Scan, PartTypes
  <2>3. Builder(scans', selected) \in Scans
    BY <2>2, ThreadTypes
  <2>4. /\ \A w \in Busy(scanners') : scanners'[w] = Builder(scans', selected)
        /\ \A v, w \in Busy(scanners') : v = w
    BY <1>3, <2>1, <2>3, StartedAlone, IdleThread DEF Scan, PartTypes
  <2>5. Busy(writers') = {}
    BY <1>3, <2>1 DEF Scan
  <2>6. /\ running' = TRUE /\ screen' = Main
        /\ UNCHANGED <<plan, selected, failed, rows, marked, pending>>
    BY <1>3 DEF Scan, OnMain
  <2>7. ThreadInv'
    BY <2>4, <2>5, <2>6, <1>o
    DEF ThreadInv, OneThread, BusyIsRunning, OnSelected, WritesWhatWasConfirmed, Builder
  <2> QED
    BY <2>6, <2>7, <1>d, <1>m DEF ScreenInv, DialogsAlone, DialogShowsPlan, ScreenAgrees
<1>4. CASE ToggleSelection
  <2>1. Busy(scanners) = {} /\ Busy(writers) = {}
    BY <1>4, UserIsAlone DEF ToggleSelection, OnMain
  <2>2. ThreadInv' /\ DialogsAlone'
    BY <1>4, <2>1, <1>o, NoThreadsNext DEF ToggleSelection
  <2>3. ScreenAgrees' /\ DialogShowsPlan'
    BY <1>4, <1>d DEF ToggleSelection, ScreenAgrees, DialogShowsPlan
  <2> QED
    BY <2>2, <2>3 DEF ScreenInv
<1>5. CASE SettingsChosen \/ AssignmentDismissed
  <2>1. Busy(scanners) = {} /\ Busy(writers) = {}
    BY <1>5, UserIsAlone, ScreenKinds DEF SettingsChosen, AssignmentDismissed
  <2>2. ThreadInv' /\ DialogsAlone'
    BY <1>5, <2>1, <1>o, NoThreadsNext DEF SettingsChosen, AssignmentDismissed
  <2>3. screen'.kind # "confirm"
    BY <1>5, ScreenKinds DEF SettingsChosen, AssignmentDismissed
  <2>4. ScreenAgrees' /\ DialogShowsPlan'
    BY <1>5, <1>d, <2>3 DEF SettingsChosen, AssignmentDismissed, ScreenAgrees, DialogShowsPlan
  <2> QED
    BY <2>2, <2>4 DEF ScreenInv
<1>7. CASE AssignmentChosen
  <2>1. Busy(scanners) = {} /\ Busy(writers) = {}
    BY <1>7, UserIsAlone, ScreenKinds DEF AssignmentChosen
  <2>2. scans' \in 1..MaxScans /\ selected \in Devices /\ screen.path \in Paths
    BY <1>7, BoundAssumption, OpenDialogs, ScreenKinds DEF AssignmentChosen, PartTypes
  <2>3. Saver(scans', selected, screen.path) \in Scans
    BY <2>2, ThreadTypes
  <2>4. /\ \A w \in Busy(scanners') : scanners'[w] = Saver(scans', selected, screen.path)
        /\ \A v, w \in Busy(scanners') : v = w
    BY <1>7, <2>1, <2>3, StartedAlone, IdleThread DEF AssignmentChosen, PartTypes
  <2>5. Busy(writers') = {}
    BY <1>7, <2>1 DEF AssignmentChosen
  <2>6. screen' = Main /\ UNCHANGED <<plan, selected, failed, rows, marked, pending>>
    BY <1>7 DEF AssignmentChosen
  <2>7. ThreadInv'
    BY <2>4, <2>5, <2>6, <1>o
    DEF ThreadInv, OneThread, BusyIsRunning, OnSelected, WritesWhatWasConfirmed, Saver
  <2> QED
    BY <2>6, <2>7, <1>d, <1>m DEF ScreenInv, DialogsAlone, DialogShowsPlan, ScreenAgrees
<1>8. ASSUME NEW paths, Ask(paths) PROVE ThreadInv' /\ ScreenInv'
  <2>1. Busy(scanners) = {} /\ Busy(writers) = {}
    BY <1>8, UserIsAlone DEF Ask, OnMain
  <2>2. ThreadInv' /\ DialogsAlone'
    BY <1>8, <2>1, <1>o, NoThreadsNext DEF Ask
  <2>3. /\ screen'.plan = plan /\ screen'.items = pending'
        /\ pending' \subseteq Writable(plan.items) /\ plan # NoPlan
    BY <1>8, ScreenKinds DEF Ask
  <2>4. ScreenAgrees' /\ DialogShowsPlan'
    BY <1>8, <1>d, <2>3 DEF Ask, ScreenAgrees, DialogShowsPlan
  <2> QED
    BY <2>2, <2>4 DEF ScreenInv
<1>9. CASE Update \/ RetryFailed
  BY <1>8, <1>9 DEF Update, RetryFailed
<1>10. CASE UpdateRefused
  <2>1. Busy(scanners) = {} /\ Busy(writers) = {}
    BY <1>10, UserIsAlone, ScreenKinds DEF UpdateRefused
  <2>2. ThreadInv' /\ DialogsAlone'
    BY <1>10, <2>1, <1>o, NoThreadsNext DEF UpdateRefused
  <2>3. ScreenAgrees' /\ DialogShowsPlan'
    BY <1>10, <1>d, <1>m DEF UpdateRefused, ScreenAgrees, DialogShowsPlan
  <2> QED
    BY <2>2, <2>3 DEF ScreenInv
<1>11. CASE ConfirmUpdates
  <2>1. Busy(scanners) = {} /\ Busy(writers) = {}
    BY <1>11, UserIsAlone, ScreenKinds DEF ConfirmUpdates
  <2>2. Writer(screen) \in Transfers
    BY <1>11, NewWriter DEF ConfirmUpdates
  <2>3. /\ \A w \in Busy(writers') : writers'[w] = Writer(screen)
        /\ \A v, w \in Busy(writers') : v = w
    BY <1>11, <2>1, <2>2, StartedAlone, IdleThread DEF ConfirmUpdates, PartTypes
  <2>4. Busy(scanners') = {}
    BY <1>11, <2>1 DEF ConfirmUpdates
  <2>5. /\ running' = TRUE /\ screen' = Main /\ plan # NoPlan
        /\ UNCHANGED <<plan, selected, failed, rows, marked>>
    BY <1>11 DEF ConfirmUpdates
  <2>6. screen.plan = plan /\ screen.items = pending /\ pending \subseteq Writable(plan.items)
    BY <1>11, <1>d DEF ConfirmUpdates, DialogShowsPlan
  <2>7. /\ Writer(screen).plan = plan /\ Writer(screen).shown = screen
        /\ Writer(screen).items = pending /\ Writer(screen).failed = {}
    BY DEF Writer
  <2>8. plan.device = selected
    BY <2>5, PlanOnSelected
  <2>9. OnSelected' /\ WritesWhatWasConfirmed'
    BY <2>3, <2>4, <2>5, <2>6, <2>7, <2>8, <1>o DEF OnSelected, WritesWhatWasConfirmed
  <2>10. OneThread' /\ BusyIsRunning'
    BY <2>3, <2>4, <2>5 DEF OneThread, BusyIsRunning
  <2> QED
    BY <2>5, <2>9, <2>10, <1>d, <1>m
    DEF ThreadInv, ScreenInv, DialogsAlone, DialogShowsPlan, ScreenAgrees
<1>12. CASE CancelRun
  <2>1. UNCHANGED <<plan, rows, marked, pending, failed, running, screen, selected, scanners, writers>>
    BY <1>12 DEF CancelRun
  <2> QED
    BY <2>1 DEF ThreadInv, ScreenInv, OneThread, BusyIsRunning, OnSelected, Busy,
                WritesWhatWasConfirmed, DialogsAlone, DialogShowsPlan, ScreenAgrees
<1> QED
  BY <1>1, <1>2, <1>3, <1>4, <1>5, <1>7, <1>9, <1>10, <1>11, <1>12 DEF UserStep

\* A thread at work is alone, and the main screen is shown.
LEMMA ScannerIsAlone ==
  ASSUME PartTypes, ThreadInv, ScreenInv, NEW w \in 1..Scanners, scanners[w].at # "idle"
  PROVE  /\ w \in Busy(scanners) /\ \A v \in Busy(scanners) : v = w
         /\ Busy(writers) = {} /\ screen = Main
         /\ scanners[w].device = selected
BY DEF PartTypes, ThreadInv, ScreenInv, OneThread, DialogsAlone, OnSelected, Busy

LEMMA ScannerKeeps ==
  ASSUME PartTypes, ThreadInv, ScreenInv, NEW w \in 1..Scanners, Scanner(w)
  PROVE  ThreadInv' /\ ScreenInv'
PROOF
<1> USE DEF list, choice, threads
<1>0. scanners[w].at # "idle"
  BY DEF Scanner, BeginScanner, ShowError, ShowPlan, AssignmentSaved
<1>a. /\ w \in Busy(scanners) /\ \A v \in Busy(scanners) : v = w
      /\ Busy(writers) = {} /\ screen = Main
      /\ scanners[w].device = selected
  BY <1>0, ScannerIsAlone
<1>t. /\ scanners \in [1..Scanners -> Scans] /\ scanners[w] \in Scans
      /\ selected \in Devices /\ scanners[w].number \in 1..MaxScans
  BY <1>0, <1>a, ScannerSteps DEF PartTypes
<1>o. failed # {} => selected \in Devices /\ failed \subseteq IsosOf[selected]
  BY DEF ThreadInv, OnSelected
<1>d. DialogShowsPlan /\ ScreenAgrees
  BY DEF ScreenInv
<1>m. Main.kind # "confirm"
  BY ScreenKinds
<1>e. UNCHANGED <<writers, screen, selected, failed>> /\ Busy(writers') = {}
  BY <1>a DEF Scanner, BeginScanner, ShowError, ShowPlan, AssignmentSaved
<1>1. CASE BeginScanner(w)
  <2>1. /\ scanners' = [scanners EXCEPT ![w].at = "working"] /\ running' = TRUE
        /\ UNCHANGED <<plan, rows, marked, pending>>
    BY <1>1 DEF BeginScanner
  <2>2. Busy(scanners') \subseteq {w} /\ scanners'[w].device = selected
    BY <2>1, <1>t, <1>0, <1>a DEF Busy, Scans, Idle
  <2>3. ThreadInv'
    BY <2>1, <2>2, <1>e, <1>o
    DEF ThreadInv, OneThread, BusyIsRunning, OnSelected, WritesWhatWasConfirmed
  <2> QED
    BY <2>1, <2>3, <1>e, <1>a, <1>d, <1>m
    DEF ScreenInv, DialogsAlone, DialogShowsPlan, ScreenAgrees
<1>2. ASSUME scanners' = [scanners EXCEPT ![w] = Idle]
      PROVE  ThreadInv' /\ DialogsAlone' /\ DialogShowsPlan'
  <2>1. Busy(scanners') = {}
    BY <1>2, <1>t, <1>a, IdleThread DEF Busy
  <2> QED
    BY <2>1, <1>e, <1>a, <1>o, <1>m
    DEF ThreadInv, OneThread, BusyIsRunning, OnSelected, WritesWhatWasConfirmed, DialogsAlone,
        DialogShowsPlan
<1>3. CASE ShowError(w)
  BY <1>2, <1>3, <1>d DEF ShowError, Ends, ScreenInv, ScreenAgrees
<1>4. CASE ShowPlan(w)
  <2>1. PICK items \in [IsosOf[scanners[w].device] -> Kinds] :
          /\ plan' = [number |-> scanners[w].number, device |-> scanners[w].device,
                      items |-> items]
          /\ rows' = items
          /\ marked' \in {Writable(items), {}}
    BY <1>4 DEF ShowPlan
  <2>2. plan'.device = selected' /\ rows' = plan'.items /\ marked' \subseteq Writable(rows')
    BY <2>1, <1>a, <1>e
  <2>3. failed' \subseteq DOMAIN rows'
    BY <2>1, <1>a, <1>e, <1>o
  <2> QED
    BY <1>2, <1>4, <2>2, <2>3 DEF ShowPlan, Ends, ScreenInv, ScreenAgrees
<1>5. CASE AssignmentSaved(w)
  <2> DEFINE rest == [scanners EXCEPT ![w] = Idle]
             scan == Builder(scanners[w].number, scanners[w].device)
  <2>1. scanners' \in Start(rest, scan) /\ UNCHANGED <<plan, rows, marked, pending, running>>
    BY <1>5 DEF AssignmentSaved
  <2>2. rest \in [1..Scanners -> Scans] /\ Busy(rest) = {}
    BY <1>t, <1>a, IdleThread DEF Busy
  <2>3. scan \in Scans
    BY <1>t, <1>a, ThreadTypes
  <2>4. scan.at = "new" /\ scan.device = selected
    BY <1>a DEF Builder
  <2> HIDE DEF rest, scan
  <2>5. /\ \A v \in Busy(scanners') : scanners'[v] = scan
        /\ \A u, v \in Busy(scanners') : u = v
    BY <2>1, <2>2, <2>3, StartedAlone, IdleThread
  <2>6. ThreadInv'
    BY <2>1, <2>4, <2>5, <1>e, <1>o
    DEF ThreadInv, OneThread, BusyIsRunning, OnSelected, WritesWhatWasConfirmed
  <2> QED
    BY <2>1, <2>6, <1>e, <1>a, <1>d, <1>m
    DEF ScreenInv, DialogsAlone, DialogShowsPlan, ScreenAgrees
<1> QED
  BY <1>1, <1>3, <1>4, <1>5 DEF Scanner

LEMMA WriterIsAlone ==
  ASSUME PartTypes, ThreadInv, ScreenInv, NEW w \in 1..Writers, writers[w].at # "idle"
  PROVE  /\ w \in Busy(writers) /\ \A v \in Busy(writers) : v = w
         /\ Busy(scanners) = {} /\ screen = Main /\ running
         /\ writers[w].plan \in Plans /\ writers[w].plan.device = selected
         /\ selected \in Devices /\ writers[w].failed \subseteq IsosOf[selected]
         /\ writers[w].items \subseteq IsosOf[selected]
PROOF
<1>1. w \in Busy(writers) /\ writers[w].plan \in Plans
  BY WriterThread DEF Busy, PartTypes
<1> QED
  BY <1>1, PlanTypes
  DEF ThreadInv, ScreenInv, OneThread, DialogsAlone, BusyIsRunning, OnSelected,
      WritesWhatWasConfirmed

LEMMA WriterKeeps ==
  ASSUME PartTypes, ThreadInv, ScreenInv, NEW w \in 1..Writers, WriterStep(w)
  PROVE  ThreadInv' /\ ScreenInv'
PROOF
<1> USE DEF list, choice, threads
<1>0. writers[w].at # "idle"
  BY DEF WriterStep, BeginWriter, NextItem, ItemDone, LeaveLoop, FinishUpdates
<1>a. /\ w \in Busy(writers) /\ \A v \in Busy(writers) : v = w
      /\ Busy(scanners) = {} /\ screen = Main /\ running
      /\ writers[w].plan \in Plans /\ writers[w].plan.device = selected
      /\ selected \in Devices /\ writers[w].failed \subseteq IsosOf[selected]
      /\ writers[w].items \subseteq IsosOf[selected]
  BY <1>0, WriterIsAlone
<1>c. /\ writers[w].shown.plan = writers[w].plan
      /\ writers[w].items \subseteq writers[w].shown.items
      /\ writers[w].items \subseteq Writable(writers[w].plan.items)
  BY <1>a DEF ThreadInv, WritesWhatWasConfirmed
<1>t. /\ writers \in [1..Writers -> Transfers]
      /\ writers[w] \in [at : {"new", "between", "applying", "report"}, plan : Plans,
                         items : SUBSET Paths, failed : SUBSET Paths, shown : Screens]
  BY <1>0, WriterThread DEF PartTypes
<1>o. failed # {} => selected \in Devices /\ failed \subseteq IsosOf[selected]
  BY DEF ThreadInv, OnSelected
<1>d. DialogShowsPlan /\ ScreenAgrees
  BY DEF ScreenInv
<1>m. Main.kind # "confirm"
  BY ScreenKinds
<1>e. UNCHANGED <<scanners, screen, selected, plan, rows, pending>> /\ Busy(scanners') = {}
  BY <1>a DEF WriterStep, BeginWriter, NextItem, ItemDone, LeaveLoop, FinishUpdates, WriterOnly
\* The thread goes on with what is left of its items.
<1>1. ASSUME Busy(writers') \subseteq {w}, running' = TRUE, UNCHANGED <<failed, marked>>,
             writers'[w].shown = writers[w].shown, writers'[w].plan = writers[w].plan,
             writers'[w].items \subseteq writers[w].items,
             writers'[w].failed \subseteq IsosOf[selected]
      PROVE  ThreadInv' /\ ScreenInv'
  <2>1. OneThread' /\ BusyIsRunning'
    BY <1>1, <1>e DEF OneThread, BusyIsRunning
  <2>2. OnSelected'
    BY <1>1, <1>e, <1>a, <1>o DEF OnSelected
  <2>3. WritesWhatWasConfirmed'
    BY <1>1, <1>c DEF WritesWhatWasConfirmed
  <2>4. ScreenInv'
    BY <1>1, <1>e, <1>a, <1>d, <1>m DEF ScreenInv, DialogsAlone, DialogShowsPlan, ScreenAgrees
  <2> QED
    BY <2>1, <2>2, <2>3, <2>4 DEF ThreadInv
<1>r. running = TRUE
  BY <1>a DEF PartTypes
<1>2. CASE BeginWriter(w) \/ NextItem(w) \/ LeaveLoop(w)
  <2>1. /\ \E a \in {"between", "applying", "report"} : writers' = [writers EXCEPT ![w].at = a]
        /\ running' = TRUE /\ UNCHANGED <<failed, marked>>
    BY <1>2, <1>r DEF BeginWriter, NextItem, LeaveLoop, WriterOnly
  <2>2. /\ Busy(writers') \subseteq {w}
        /\ writers'[w].shown = writers[w].shown /\ writers'[w].plan = writers[w].plan
        /\ writers'[w].items = writers[w].items /\ writers'[w].failed = writers[w].failed
    BY <2>1, <1>t, <1>a DEF Busy
  <2> QED
    BY <1>1, <2>1, <2>2, <1>a
<1>3. CASE ItemDone(w)
  <2>1. PICK p \in writers[w].items, fails \in BOOLEAN :
          writers' = [writers EXCEPT
            ![w].at = "between",
            ![w].items = writers[w].items \ {p},
            ![w].failed = IF fails THEN writers[w].failed \cup {p} ELSE writers[w].failed]
    BY <1>3 DEF ItemDone
  <2>2. running' = TRUE /\ UNCHANGED <<failed, marked>>
    BY <1>3, <1>r DEF ItemDone, WriterOnly
  <2>3. /\ writers'[w].shown = writers[w].shown /\ writers'[w].plan = writers[w].plan
        /\ writers'[w].items \subseteq writers[w].items
    BY <2>1, <1>t
  <2>4. writers'[w].failed \subseteq writers[w].failed \cup {p}
    BY <2>1, <1>t
  <2>5. Busy(writers') \subseteq {w}
    BY <2>1, <1>t, <1>a DEF Busy
  <2> QED
    BY <1>1, <2>2, <2>3, <2>4, <2>5, <1>a
<1>4. CASE FinishUpdates(w)
  <2>1. writers' = [writers EXCEPT ![w] = Idle] /\ failed' = writers[w].failed /\ marked' = {}
    BY <1>4 DEF FinishUpdates
  <2>2. Busy(writers') = {}
    BY <2>1, <1>t, <1>a, IdleThread DEF Busy
  <2>3. plan # NoPlan => DOMAIN rows = IsosOf[selected]
    BY PlanOnSelected
  <2>4. ThreadInv'
    BY <2>1, <2>2, <1>e, <1>a
    DEF ThreadInv, OneThread, BusyIsRunning, OnSelected, WritesWhatWasConfirmed
  <2>5. DialogsAlone' /\ DialogShowsPlan'
    BY <1>e, <1>a, <1>m DEF DialogsAlone, DialogShowsPlan
  <2>6. ScreenAgrees'
    BY <2>1, <2>3, <1>e, <1>a, <1>d DEF ScreenAgrees
  <2> QED
    BY <2>4, <2>5, <2>6 DEF ScreenInv
<1> QED
  BY <1>2, <1>3, <1>4 DEF WriterStep

LEMMA InvStep ==
  ASSUME ~TypeAhead
  PROVE  PartTypes /\ ThreadInv /\ ScreenInv /\ [Next]_vars
         => (PartTypes /\ ThreadInv /\ ScreenInv)'
PROOF
<1>1. UNCHANGED vars /\ ThreadInv /\ ScreenInv => (ThreadInv /\ ScreenInv)'
  BY DEF vars, list, choice, threads, ThreadInv, ScreenInv, OneThread, BusyIsRunning, OnSelected,
         Busy, WritesWhatWasConfirmed, DialogsAlone, DialogShowsPlan, ScreenAgrees
<1> QED
  BY <1>1, TypeStep, UserKeeps, ScannerKeeps, WriterKeeps DEF Next

LEMMA InvAlways ==
  ASSUME ~TypeAhead
  PROVE  Spec => [](PartTypes /\ ThreadInv /\ ScreenInv)
BY InitInv, InvStep, PTL DEF Spec

-----------------------------------------------------------------------------
(* What the user can rely on *)

\* No two threads write ISOs at once, however the handlers of the loop and
\* the threads interleave.
THEOREM OneThreadWrites ==
  ASSUME ~TypeAhead
  PROVE  Spec => []OneWriter
PROOF
<1>1. ThreadInv => OneWriter
  <2> SUFFICES ASSUME ThreadInv PROVE OneWriter
    OBVIOUS
  <2>1. CASE Busy(writers) = {}
    BY <2>1, FS_EmptySet DEF OneWriter
  <2>2. CASE \E w : w \in Busy(writers)
    <3>1. PICK w : w \in Busy(writers)
      BY <2>2
    <3>2. Busy(writers) = {w}
      BY <3>1 DEF ThreadInv, OneThread
    <3> QED
      BY <3>2, FS_Singleton DEF OneWriter
  <2> QED
    BY <2>1, <2>2
<1> QED
  BY <1>1, InvAlways, PTL

\* What a thread writes is what the dialog showed when the user confirmed.
THEOREM OnlyTheConfirmedIsWritten ==
  ASSUME ~TypeAhead
  PROVE  Spec => []WritesWhatWasConfirmed
PROOF
<1>1. ThreadInv => WritesWhatWasConfirmed
  BY DEF ThreadInv
<1> QED
  BY <1>1, InvAlways, PTL

\* Plan, rows, marks and what can be retried belong to the drive chosen.
THEOREM TheScreenAgrees ==
  ASSUME ~TypeAhead
  PROVE  Spec => []ScreenAgrees
PROOF
<1>1. ScreenInv => ScreenAgrees
  BY DEF ScreenInv
<1> QED
  BY <1>1, InvAlways, PTL

\* The drives listed and the one chosen stay while a thread writes.
THEOREM NothingIsChosenMeanwhile ==
  ASSUME ~TypeAhead
  PROVE  Spec => RefreshIgnored
PROOF
<1>1. PartTypes /\ ThreadInv /\ ScreenInv /\ [Next]_vars
      => [Busy(writers) # {} => UNCHANGED list]_vars
  <2> SUFFICES ASSUME PartTypes, ThreadInv, ScreenInv, Next, Busy(writers) # {}
               PROVE  UNCHANGED list
    BY DEF vars
  <2>1. running
    BY DEF ThreadInv, BusyIsRunning
  <2>2. CASE UserStep
    BY <2>1, <2>2
    DEF UserStep, Refresh, Select, Scan, ToggleSelection, AssignIdentity, AssignmentDismissed,
        OpenSettings, Open, DialogSelect, SettingsChosen, AssignmentChosen, Update, RetryFailed, Ask, UpdateRefused, ConfirmUpdates, CancelRun,
        list
  <2>3. ASSUME NEW w \in 1..Scanners, Scanner(w) PROVE UNCHANGED list
    BY <2>3 DEF Scanner, BeginScanner, ShowError, ShowPlan, AssignmentSaved
  <2>4. ASSUME NEW w \in 1..Writers, WriterStep(w) PROVE UNCHANGED list
    BY <2>4 DEF WriterStep, BeginWriter, NextItem, ItemDone, LeaveLoop, FinishUpdates, WriterOnly
  <2> QED
    BY <2>2, <2>3, <2>4 DEF Next
<1> QED
  BY <1>1, InvAlways, PTL DEF Spec, RefreshIgnored

\* After Cancel no further ISO is begun, and the request is not lost before
\* the writer has ended.
THEOREM CancelStopsTheRun ==
  ASSUME ~TypeAhead
  PROVE  Spec => CancelIsHeeded
PROOF
<1> DEFINE Heeded ==
      /\ cancel' \/ Busy(writers') = {}
      /\ \A w \in Busy(writers) : writers[w].at = "between" => writers'[w].at # "applying"
<1>1. PartTypes /\ ThreadInv /\ ScreenInv /\ [Next]_vars
      => [cancel /\ Busy(writers) # {} => Heeded]_vars
  <2> SUFFICES ASSUME PartTypes, ThreadInv, ScreenInv, Next, cancel, Busy(writers) # {}
               PROVE  Heeded
    BY DEF vars
  <2>1. running /\ screen = Main
    BY DEF ThreadInv, BusyIsRunning, ScreenInv, DialogsAlone
  <2>2. ASSUME cancel', UNCHANGED writers PROVE Heeded
    BY <2>2
  <2>3. CASE UserStep
    <3>1. cancel' /\ UNCHANGED writers
      BY <2>1, <2>3, ScreenKinds
      DEF UserStep, Refresh, Select, Scan, ToggleSelection, AssignIdentity, AssignmentDismissed,
          OpenSettings, Open, DialogSelect, SettingsChosen, AssignmentChosen, Update, RetryFailed, Ask, UpdateRefused, ConfirmUpdates, CancelRun,
          threads
    <3> QED
      BY <2>2, <3>1
  <2>4. ASSUME NEW v \in 1..Scanners, Scanner(v) PROVE Heeded
    BY <2>2, <2>4 DEF Scanner, BeginScanner, ShowError, ShowPlan, AssignmentSaved
  <2>5. ASSUME NEW v \in 1..Writers, WriterStep(v) PROVE Heeded
    <3>0. writers[v].at # "idle"
      BY <2>5 DEF WriterStep, BeginWriter, NextItem, ItemDone, LeaveLoop, FinishUpdates
    <3>1. Busy(writers) = {v}
      BY <3>0, WriterIsAlone
    <3>2. writers \in [1..Writers -> Transfers]
      BY DEF PartTypes
    <3>3. CASE FinishUpdates(v)
      BY <3>1, <3>2, <3>3, IdleThread DEF FinishUpdates, Busy
    <3>4. CASE BeginWriter(v) \/ ItemDone(v) \/ LeaveLoop(v)
      <4>1. cancel' /\ writers'[v].at # "applying"
        BY <3>0, <3>2, <3>4, WriterThread DEF BeginWriter, ItemDone, LeaveLoop, WriterOnly
      <4> QED
        BY <3>1, <4>1
    <3> QED
      BY <2>5, <3>3, <3>4 DEF WriterStep, NextItem
  <2> QED
    BY <2>3, <2>4, <2>5 DEF Next
<1> QED
  BY <1>1, InvAlways, PTL DEF Spec, CancelIsHeeded
=============================================================================
