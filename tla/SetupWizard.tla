----------------------------- MODULE SetupWizard -----------------------------
(***************************************************************************)
(* The set-up wizard: src/console-rs/crates/oa-setup (ui/app.rs, steps.rs, *)
(* setuprun.rs, jobs.rs; the buttons' conditions from ui/pages.rs).        *)
(*                                                                         *)
(* One privileged script, started from Review, prints a marker around each *)
(* of its sections; reader threads pass its output on; every frame (Tick)  *)
(* the window takes what has come, sets the steps' statuses and, when the  *)
(* script has ended well, builds the Console and restarts the mixer        *)
(* daemon.  Meanwhile the user clicks and disks are scanned in the         *)
(* background.  Not modelled: opened images and chosen folders, --auto,    *)
(* the first two pages.                                                    *)
(*                                                                         *)
(* A warning counts as Done here: they differ in colour only.  The page on *)
(* view is any page that has been reached.                                 *)
(***************************************************************************)
EXTENDS Integers, Sequences, FiniteSets, SequencesExt, FiniteSetsExt

CONSTANTS Sections,    \* the script's, in order: source, remove, import, firmware, driver last
          FolderSets,  \* the mounted installs that scans list, one set per disk layout
          MountPoint,  \* where the Windows partition shows when it is mounted
          MaxInstalls, \* bound on presses of Install
          MaxExtras,   \* bound on further scans and Console builds the user starts
          UserMounts   \* values the partition's being mounted beforehand may have

Nothing == "nothing"

ASSUME WizardAssumption ==
  /\ Sections \in Seq({"source", "remove", "import", "firmware", "driver"})
  /\ {"source", "driver"} \subseteq Range(Sections)
  /\ IsInjective(Sections) /\ Last(Sections) = "driver"
  /\ {MaxInstalls, MaxExtras} \subseteq Nat
  /\ UserMounts \subseteq BOOLEAN
  /\ Nothing \notin (UNION FolderSets) \cup {MountPoint}

VARIABLES w,       \* the App: see Init
          script,  \* the privileged script: its process
          out,     \* what it has printed, and Job's Exit, not yet taken by a frame
          cons,    \* the Console build's process, as its Job sees it
          left,    \* Console builds that nobody watches any more and that go on
          world,   \* the disks, whether this install has changed anything, and
                   \* whether the Console is installed
          msgs,    \* Msg::Scanned, at most one
          used     \* what has been used of the bounds

vars == <<w, script, out, cons, left, world, msgs, used>>

------------------------------------------------------------------------------
\* Steps (StepId) from Find on, in order; a section's page.
Order == <<"Find", "Review", "Remove", "Import", "Firmware", "Driver", "Console", "Done">>
Steps == Range(Order)
Page == [source |-> "Review", remove |-> "Remove", import |-> "Import",
         firmware |-> "Firmware", driver |-> "Driver"]
SectionNames == Range(Sections)
SectionOf == [Review |-> "source", Remove |-> "remove", Import |-> "import",
              Firmware |-> "firmware", Driver |-> "driver"]
At(step) == CHOOSE i \in DOMAIN Order : Order[i] = step

Statuses == {"Pending", "Running", "Done", "Failed", "Skipped"}
Finished == {"Done", "Failed", "Skipped"}

NewRun(st) == [st |-> st, section |-> [s \in SectionNames |-> "Pending"], cur |-> Nothing,
               outcome |-> "none"]
NoScan == [found |-> {}, loose |-> FALSE, any |-> FALSE]
NoScript == [st |-> "none", at |-> 0, inside |-> FALSE, mounts |-> FALSE]

Init ==
  /\ w = [status |-> [s \in Steps |-> IF s = "Find" THEN "Running" ELSE "Pending"],
          reached |-> 1, follow |-> FALSE,
          scanning |-> TRUE, scan |-> NoScan,
          folder |-> Nothing, device |-> FALSE,
          install |-> NewRun("none"), build |-> "none", restart |-> FALSE, daemon |-> FALSE]
  /\ script = NoScript /\ out = <<>> /\ cons = "none" /\ left = 0
  /\ \E m \in UserMounts, f \in FolderSets :
       world = [folders |-> f, mounted |-> m, changed |-> FALSE, console |-> FALSE]
  /\ msgs = NoScan
  /\ used = [installs |-> 0, extras |-> 0]

Uses(what, max) == used[what] < max /\ used' = [used EXCEPT ![what] = @ + 1]

------------------------------------------------------------------------------
\* steps.rs.

Set(a, step, s) == [a EXCEPT !.status[step] = s]
SetAll(a, S, s) == [a EXCEPT !.status = [t \in Steps |-> IF t \in S THEN s ELSE @[t]]]

\* Each step after Find depends on the one before it: Steps::prerequisites.
Satisfied(a, step) ==
  \/ a.status[step] = "Done"
  \/ a.status[step] = "Skipped" /\ step \in {"Remove", "Driver"}
ConsoleAllowed(a) == Satisfied(a, "Driver")

\* Steps::invalidate_dependents(Find): pending again, unless running.
Invalidate(a) ==
  [a EXCEPT !.status = [t \in Steps |-> IF t \notin {"Find", "Done"} /\ @[t] # "Running"
                                        THEN "Pending" ELSE @[t]]]

\* Steps::reach.
Reach(a, step) == [a EXCEPT !.reached = IF At(step) > @ THEN At(step) ELSE @]
Reached(step) == At(step) <= w.reached

------------------------------------------------------------------------------
\* Picking an install.

Running(a) == a.install.st = "running"
FolderFound(a) == a.folder \in a.scan.found
Picked(a) == FolderFound(a) \/ a.device

UpdateFind(a) ==
  IF a.scanning THEN a ELSE Set(a, "Find", "Done")

\* App::set_selection.
SetSelection(a, pick) ==
  LET b == IF pick # a.folder \/ (pick # Nothing /\ a.device) THEN Invalidate(a) ELSE a
  IN UpdateFind([b EXCEPT !.device = @ /\ pick = Nothing, !.folder = pick])

SelectDevice(a) ==
  LET b == IF a.device THEN a ELSE Invalidate(a)
  IN UpdateFind([b EXCEPT !.folder = Nothing, !.device = TRUE])

StartScan(a) == IF a.scanning THEN a ELSE Set([a EXCEPT !.scanning = TRUE], "Find", "Running")

\* What a scan's result may select: a picked partition that got mounted, and
\* what was selected; while the install runs, that only.
Candidates(a, s) ==
  <<IF ~Running(a) /\ a.device /\ MountPoint \in s.found THEN MountPoint ELSE Nothing, a.folder>>

\* The first candidate that is there, or the scan's best.
Picks(a, s) ==
  LET c == Candidates(a, s)
  IN IF c[1] \in s.found THEN {c[1]}
     ELSE IF c[2] \in s.found THEN {c[2]}
     ELSE IF s.found = {} THEN {Nothing} ELSE s.found

\* App::handle(Scanned).
Scanned(a, s, pick) ==
  LET still == a.device /\ MountPoint \notin s.found /\ s.loose
      b == [a EXCEPT !.scanning = FALSE, !.scan = s]
  IN IF still /\ ~Running(a) THEN UpdateFind(b) ELSE SetSelection(b, pick)

------------------------------------------------------------------------------
\* The run, as its output says (setuprun.rs).

Marker(s, status) == [k |-> "marker", s |-> s, status |-> status]
Exit(code) == [k |-> "exit", code |-> code]

\* SetupRun::feed.
Feed(r, m) ==
  [r EXCEPT !.section[m.s] = m.status,
            !.cur = IF m.status = "Running" THEN m.s ELSE IF @ = m.s THEN Nothing ELSE @]

\* The sections past the source check; the unmount, which has no page and counts
\* for nothing here, is not among Sections.
NothingChanged(r) == \A s \in SectionNames \ {"source"} : r.section[s] = "Pending"

\* SetupRun::finish: what was under way has failed; the outcome says whether
\* anything was changed.
Finish(r, code) ==
  LET f == IF r.cur = Nothing THEN r
           ELSE [r EXCEPT !.section[r.cur] = "Failed", !.cur = Nothing]
  IN [f EXCEPT !.outcome = IF code = "ok" THEN "ok"
                           ELSE IF NothingChanged(f) THEN "unchanged" ELSE "failed"]

\* What a message makes of the run.
Fed(r, m) == IF m.k = "exit" THEN Finish(r, m.code) ELSE Feed(r, m)

Ends(got) == \E i \in DOMAIN got : got[i].k = "exit"

\* Install::pump: what the Job has sent, in order.
Pump(run, got) ==
  LET r == [run EXCEPT !.st = IF Ends(got) THEN "ended" ELSE @]
      after[n \in 0..Len(got)] == IF n = 0 THEN r ELSE Fed(after[n - 1], got[n])
  IN after[Len(got)]
Opened(got) ==
  {Page[got[i].s] : i \in {j \in DOMAIN got : got[j].k = "marker" /\ got[j].status = "Running"}}

\* step_statuses: Review shows the source check, before its marker the password
\* dialog, or how the run ended without one.  The Firmware page is judged by its
\* files (firmware_status), which makes of Done at worst a warning.
Shown(r, s) ==
  IF s # "source" \/ r.section[s] # "Pending" THEN r.section[s]
  ELSE IF r.outcome = "none" THEN "Running" ELSE IF r.outcome = "ok" THEN "Done" ELSE "Failed"

SyncSteps(a) ==
  [a EXCEPT !.status = [t \in Steps |-> IF t \in DOMAIN SectionOf /\ SectionOf[t] \in SectionNames
                                        THEN Shown(a.install, SectionOf[t])
                                        ELSE @[t]]]

StartBuild(a) == Set([a EXCEPT !.build = "running"], "Console", "Running")

\* Seeded fault of OnInstallEnd: the Console is built, the restart forgotten.
OnInstallEndNoRestart(a) ==
  IF a.install.outcome # "ok" THEN a
  ELSE LET b == StartBuild(a) IN IF b.follow THEN Reach(b, "Console") ELSE b

\* App::on_install_end.
OnInstallEnd(a) ==
  IF a.install.outcome # "ok" THEN a
  ELSE LET b == StartBuild([a EXCEPT !.restart = TRUE])
       IN IF b.follow THEN Reach(b, "Console") ELSE b

Follow(a, got) ==
  IF a.follow THEN [a EXCEPT !.reached = Max({@} \cup {At(p) : p \in Opened(got)})] ELSE a

\* r is the run once it has been fed.
PumpInstall(a, r, got) ==
  LET b == Follow(SyncSteps([a EXCEPT !.install = r]), got)
  IN IF Ends(got) THEN OnInstallEnd(b) ELSE b

\* The outcome c of the Console's build, and then the daemon's restart.
BuildEnded(a, c) == a.build = "running" /\ c \in {"ok", "failed"}
PumpBuild(a, c) ==
  IF ~BuildEnded(a, c) THEN a
  ELSE LET b == Set([a EXCEPT !.build = c], "Console", IF c = "ok" THEN "Done" ELSE "Failed")
       IN [b EXCEPT !.daemon = @ \/ b.restart, !.restart = FALSE]

------------------------------------------------------------------------------
\* One frame: messages, what the install's readers have passed on, the build.
\* An install that ends well replaces the build on view by a new one.

\* Only the Job of a build is dropped, which ends neither the process nor what
\* it does (jobs.rs).
Building == cons \in {"running", "installed"}
Dropped == left + (IF Building THEN 1 ELSE 0)

Frame(a) ==
  \E n \in 0..Len(out) :
    LET got == SubSeq(out, 1, n) IN
    \E b \in {IF Running(a) THEN PumpInstall(a, Pump(a.install, got), got) ELSE a} :
      LET new == Running(a) /\ ~Running(b) /\ b.install.outcome = "ok"
          c   == IF new THEN "running" ELSE cons
      IN /\ w' = PumpBuild(b, c)
         /\ out' = SubSeq(out, n + 1, Len(out))
         /\ cons' = IF BuildEnded(b, c) THEN "none" ELSE c
         /\ left' = IF new THEN Dropped ELSE left
         /\ script' = IF Ends(got) THEN NoScript ELSE script
         /\ UNCHANGED <<world, used>>

Tick == Frame(w) /\ UNCHANGED msgs

TickScanned ==
  /\ msgs.any
  /\ \E pick \in Picks(w, msgs) : Frame(Scanned(w, msgs, pick))
  /\ msgs' = NoScan

------------------------------------------------------------------------------
\* The user.

Acts(b) == w' = b /\ UNCHANGED <<out, world, msgs>>
Clicks(b) == Acts(b) /\ UNCHANGED <<script, cons, left, used>>

\* Action::Next on the last page reached.
Next1 ==
  /\ w.reached < Len(Order) /\ w.status[Order[w.reached]] \in Finished
  /\ Clicks([w EXCEPT !.reached = @ + 1, !.follow = FALSE])

\* Back, or a page in the sidebar: the pages no longer follow the install.
Navigate == w.follow /\ Clicks([w EXCEPT !.follow = FALSE])

Select(f) == ~Running(w) /\ f \in w.scan.found /\ f # w.folder /\ Clicks(SetSelection(w, f))

PickPartition == ~Running(w) /\ w.scan.loose /\ ~w.device /\ Clicks(SelectDevice(w))

SkipFind ==
  /\ w.scan.any /\ ~w.scanning /\ ~Picked(w)
  /\ Clicks(Invalidate(Set(w, "Find", "Skipped")))

Rescan ==
  /\ ~w.scanning
  /\ Uses("extras", MaxExtras)
  /\ Acts(StartScan(w)) /\ UNCHANGED <<script, cons, left>>

\* App::install_plan; every install listed has all its parts.
PlanOk(a) == ~Running(a) /\ Picked(a)

\* Seeded faults of Started: the steps, or the build on view, are left as they
\* are.
StartedStale(a) ==
  [Set(a, "Review", "Running") EXCEPT !.build = "none", !.daemon = FALSE, !.restart = FALSE,
                 !.follow = TRUE, !.install = NewRun("running")]
StartedBuilding(a) ==
  [Set(SetAll(a, {"Remove", "Import", "Firmware", "Driver", "Console"}, "Pending"), "Review", "Running")
     EXCEPT !.daemon = FALSE, !.restart = FALSE, !.follow = TRUE,
            !.install = NewRun("running")]

Started(a) ==
  [Set(SetAll(a, {"Remove", "Import", "Firmware", "Driver", "Console"}, "Pending"), "Review", "Running")
     EXCEPT !.build = "none", !.daemon = FALSE, !.restart = FALSE, !.follow = TRUE,
            !.install = NewRun("running")]

StartInstall ==
  /\ Reached("Review") /\ PlanOk(w)
  /\ Uses("installs", MaxInstalls)
  /\ w' = Started(w)
  /\ script' = [NoScript EXCEPT !.st = "asking", !.mounts = ~FolderFound(w)]
  /\ world' = [world EXCEPT !.changed = FALSE]
  /\ cons' = "none" /\ left' = Dropped
  /\ UNCHANGED <<out, msgs>>

SkipInstall ==
  /\ Reached("Review") /\ ~Picked(w) /\ w.install.st = "none"
  /\ Clicks(Reach([SetAll(w, {"Review", "Remove", "Import", "Firmware", "Driver"}, "Skipped")
                     EXCEPT !.follow = FALSE], "Console"))

StartConsole ==
  /\ Reached("Console") /\ ConsoleAllowed(w) /\ w.build # "running"
  /\ Uses("extras", MaxExtras)
  /\ Acts(StartBuild(w)) /\ cons' = "running" /\ UNCHANGED <<script, left>>

SkipConsole ==
  /\ Reached("Console") /\ w.status["Console"] = "Pending" /\ w.build # "running"
  /\ Clicks(Set(w, "Console", "Skipped"))

\* Launch, from the Console's page or from the last one.
Launch ==
  /\ \/ Reached("Console") /\ ConsoleAllowed(w) /\ w.build # "running"
     \/ Reached("Done")
  /\ Clicks(Set(w, "Console", "Done"))

User == \/ Next1 \/ Navigate \/ (\E f \in w.scan.found : Select(f)) \/ PickPartition \/ SkipFind
        \/ Rescan \/ StartInstall \/ SkipInstall \/ StartConsole
        \/ SkipConsole \/ Launch

------------------------------------------------------------------------------
\* Scan threads.

\* scan::scan reads the disks at one moment and says so later.
\* An unmounted partition is opened in the source check and let go at the end.
MountedNow ==
  IF world.mounted THEN {TRUE}
  ELSE IF ~script.mounts \/ script.st \notin {"running", "failing"} THEN {FALSE}
  ELSE IF script.st = "running" /\ script.at > 0 THEN {TRUE} ELSE BOOLEAN

Scan ==
  /\ w.scanning /\ ~msgs.any
  /\ \E mounted \in MountedNow :
       msgs' = [found |-> world.folders \cup (IF mounted THEN {MountPoint} ELSE {}),
                loose |-> ~mounted, any |-> TRUE]
  /\ UNCHANGED <<w, script, out, cons, left, world, used>>

------------------------------------------------------------------------------
\* The scripts (src/scripts/setup-root.sh, install-uaconsole.sh).

Here == Sections[script.at + 1]
Prints(m) == out' = Append(out, m)
ScriptOnly == UNCHANGED <<w, cons, left, msgs, used>>

\* Seeded fault of ExitSent: the readers are not waited for.
ExitSentEarly(code) ==
  /\ script' = [script EXCEPT !.st = "gone"]
  /\ \E n \in 0..Len(out) : out' = SubSeq(out, 1, n) \o <<Exit(code)>> \o SubSeq(out, n + 1, Len(out))

\* jobs.rs: reader threads pass the lines on, at any pace, until the pipe is
\* closed; the exit code is sent after them.
ExitSent(code) ==
  /\ script' = [script EXCEPT !.st = "gone"]
  /\ Prints(Exit(code))

\* The password dialog, and a script that cannot be started.
Authorized ==
  /\ script.st = "asking"
  /\ script' = [script EXCEPT !.st = "running"]
  /\ ScriptOnly /\ UNCHANGED <<out, world>>
Refused ==
  /\ script.st = "asking"
  /\ ExitSent("failed")
  /\ ScriptOnly /\ UNCHANGED world

SectionStarts ==
  /\ script.st = "running" /\ ~script.inside /\ script.at < Len(Sections)
  /\ \/ /\ script' = [script EXCEPT !.inside = TRUE]
        /\ Prints(Marker(Here, "Running"))
     \/ /\ Here = "remove"     \* Plan.keep_current
        /\ script' = [script EXCEPT !.at = @ + 1]
        /\ Prints(Marker("remove", "Skipped"))
  /\ ScriptOnly /\ UNCHANGED world

\* Everything after the source check changes the computer; the removal takes
\* the Console away (uninstall.sh, remove_console).
SectionWorks ==
  /\ script.st = "running" /\ script.inside /\ Here # "source"
  /\ ~world.changed \/ (Here = "remove" /\ world.console)
  /\ world' = [world EXCEPT !.changed = TRUE, !.console = @ /\ Here # "remove"]
  /\ ScriptOnly /\ UNCHANGED <<script, out>>

SectionSucceeds ==
  /\ script.st = "running" /\ script.inside
  /\ script' = [script EXCEPT !.at = @ + 1, !.inside = FALSE]
  /\ Prints(Marker(Here, "Done"))
  /\ ScriptOnly /\ UNCHANGED world

\* A section that fails says so and ends the script.
SectionFails ==
  /\ script.st = "running" /\ script.inside
  /\ script' = [script EXCEPT !.st = "failing", !.inside = FALSE]
  /\ Prints(Marker(Here, "Failed"))
  /\ ScriptOnly /\ UNCHANGED world

\* The end, and a script that is killed, or fails outside of its sections.
ScriptEnds ==
  /\ \/ script.st = "running" /\ script.at = Len(Sections) /\ ExitSent("ok")
     \/ script.st \in {"running", "failing"} /\ ExitSent("failed")
  /\ ScriptOnly /\ UNCHANGED world

\* install-uaconsole.sh puts the Console's files in place and does more before
\* it ends; it may fail before or after.
BuildInstalls ==
  /\ cons = "running"
  /\ cons' = "installed"
  /\ world' = [world EXCEPT !.console = TRUE]
  /\ UNCHANGED <<w, script, out, left, msgs, used>>

BuildEnds ==
  /\ \/ cons = "installed" /\ cons' = "ok"
     \/ Building /\ cons' = "failed"
  /\ UNCHANGED <<w, script, out, left, world, msgs, used>>

\* A build that nobody watches does the same, at any time.
LeftInstalls ==
  /\ left > 0 /\ ~world.console
  /\ world' = [world EXCEPT !.console = TRUE]
  /\ UNCHANGED <<w, script, out, cons, left, msgs, used>>

LeftEnds ==
  /\ left > 0
  /\ left' = left - 1
  /\ UNCHANGED <<w, script, out, cons, world, msgs, used>>

Script == \/ Authorized \/ Refused \/ SectionStarts \/ SectionWorks
          \/ SectionSucceeds \/ SectionFails \/ ScriptEnds

------------------------------------------------------------------------------
Frames == Tick \/ TickScanned

Next == Frames \/ User \/ Scan \/ Script \/ BuildInstalls \/ BuildEnds \/ LeftInstalls \/ LeftEnds

Spec == Init /\ [][Next]_vars

\* A message wakes the window, which draws a frame, and a build ends.  The user,
\* the password dialog and the install script owe nothing.
FairSpec == /\ Spec
            /\ WF_vars(Tick) /\ WF_vars(BuildEnds)

------------------------------------------------------------------------------
\* Properties.

\* What the window holds; an install has an outcome when it has ended.
TypeOK ==
  /\ w.status \in [Steps -> Statuses] /\ w.reached \in DOMAIN Order
  /\ {w.follow, w.scanning, w.device, w.restart, w.daemon} \subseteq BOOLEAN
  /\ w.folder \in world.folders \cup {MountPoint, Nothing}
  /\ ~(w.device /\ w.folder # Nothing)
  /\ w.install.st \in {"none", "running", "ended"}
  /\ w.install.st = "ended" <=> w.install.outcome # "none"
  /\ w.install.section \in [SectionNames -> Statuses]
  /\ w.build \in {"none", "running", "ok", "failed"}
  /\ left \in Nat /\ world.console \in BOOLEAN
  /\ (w.install.st = "ended" => \A s \in SectionNames : w.install.section[s] # "Running")

\* "Nothing was changed on this computer" (SetupRun::finish) is said only when
\* the script had not begun to change anything.
ClaimIsTrue == w.install.outcome = "unchanged" => ~world.changed

\* A step of the install that shows Done was done by the last install that was
\* started: a failed or unfinished one inherits nothing from the one before, so
\* that the Console is not unlocked by it.
DoneByThisInstall ==
  \A s \in SectionNames \ {"source"} : w.status[Page[s]] = "Done" => w.install.section[s] = "Done"

\* A Console the window shows as built is on the computer, builds of earlier
\* presses that nobody watches any more going on beside the install or not: the
\* install's removal does not take it away (steps.rs: "Built after the driver:
\* the removal would take an earlier build away").
ConsoleIsThere == w.build = "ok" => world.console

\* After an install that ended well the mixer daemon is restarted, however the
\* Console's build goes and whatever the user does meanwhile, unless another
\* install is started.
EndedWell == w.install.st = "ended" /\ w.install.outcome = "ok"
DaemonRestarted == EndedWell ~> (w.daemon \/ Running(w))

\* "The install reads the selected install, so it can't change meanwhile."
SelectionLocked ==
  [][Running(w) /\ Running(w)' => w'.folder = w.folder /\ w'.device = w.device]_vars

\* Not so of the code, which lets a build go on when another install is started:
\* no Console is built while the removal is at work.
NoBuildDuringRemoval ==
  script.st = "running" /\ script.inside /\ Here = "remove" => ~Building /\ left = 0
=============================================================================
