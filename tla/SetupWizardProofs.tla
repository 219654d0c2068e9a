-------------------------- MODULE SetupWizardProofs --------------------------
(***************************************************************************)
(* Proofs about SetupWizard, for every script that runs its sections in    *)
(* order, the driver last, and for any number of installs, scans and       *)
(* layouts of the disks: what the wizard says of the install is true of    *)
(* this install, and a Console shown as built is on the computer.          *)
(*                                                                         *)
(* What the pages show lags behind what the run has taken, and that behind *)
(* what the script has done.  The invariant ties the three together:       *)
(* Shows (a page to the run), Followed (the run, and the messages on their *)
(* way to it, to the script) and Said (the exit comes last).  Most of what *)
(* a user or a scan does is Calm: it takes pages back and adds nothing.    *)
(***************************************************************************)
EXTENDS SetupWizard, WellFoundedInduction, SequenceTheorems, TLAPS

------------------------------------------------------------------------------
\* Induction.  The library states it over predicates, which the provers cannot
\* instantiate; here a set stands for the predicate and a function for the
\* step of a recursion.
\* It rests on < being well founded.

\* A set of natural numbers that is not empty has a least element.
LEMMA LeastNat ==
  ASSUME NEW T \in SUBSET Nat, T # {}
  PROVE  \E x \in T : \A y \in T : x <= y
<1>1. \E R : /\ IsWellFoundedOn(R, Nat)
             /\ \A x, y \in Nat : <<y, x>> \in R <=> y < x
  <2>. DEFINE R == OpToRel(<, Nat)
  <2>1. IsWellFoundedOn(R, Nat)
    BY NatLessThanWellFounded
  <2>2. \A x, y \in Nat : <<y, x>> \in R <=> y < x
    BY DEF OpToRel
  <2>. HIDE DEF R
  <2>. QED BY <2>1, <2>2
<1>2. PICK R : /\ IsWellFoundedOn(R, Nat)
               /\ \A x, y \in Nat : <<y, x>> \in R <=> y < x
  BY <1>1
<1>3. PICK x \in T : \A y \in T : ~ (<<y, x>> \in R)
  BY <1>2, WFMin
<1>4. \A y \in T : x <= y
  <2>. TAKE y \in T
  <2>1. x \in Nat /\ y \in Nat
    OBVIOUS
  <2>2. ~(y < x)
    BY <1>2, <1>3, <2>1
  <2>. QED BY <2>1, <2>2
<1>. QED BY <1>4

\* Induction up to a bound.
LEMMA InductionTo ==
  ASSUME NEW N \in Nat, NEW T, 0 \in T, \A n \in 0..(N - 1) : n \in T => n + 1 \in T
  PROVE  \A n \in 0..N : n \in T
<1>. DEFINE Out == {n \in 0..N : n \notin T}
<1>. SUFFICES ASSUME Out # {} PROVE FALSE
  OBVIOUS
<1>1. Out \in SUBSET Nat
  OBVIOUS
<1>2. \A n \in Out : n \in 0..N /\ n \notin T
  OBVIOUS
<1>3. \A n \in 0..N : n \in Out \/ n \in T
  OBVIOUS
<1>. HIDE DEF Out
<1>4. PICK x \in Out : \A y \in Out : x <= y
  BY <1>1, LeastNat
<1>5. x \in 0..N /\ x \notin T /\ x # 0
  BY <1>2
<1>6. x - 1 \in 0..(N - 1) /\ x - 1 \in 0..N
  BY <1>5
<1>7. x - 1 \in T
  <2>1. ~(x <= x - 1)
    BY <1>5
  <2>. QED BY <1>3, <1>4, <1>6, <2>1
<1>8. x - 1 + 1 = x
  BY <1>5
<1>. QED BY <1>5, <1>6, <1>7, <1>8

\* A function whose value at n is made of n and its value at n - 1.
Follows(f, N, X, base, F) ==
  f \in [0..N -> X] /\ f[0] = base /\ \A n \in 1..N : f[n] = F[n][f[n - 1]]

LEMMA RecursiveFunction ==
  ASSUME NEW N \in Nat, NEW X, NEW base \in X, NEW F \in [1..N -> [X -> X]]
  PROVE  \E f : Follows(f, N, X, base, F)
<1>. DEFINE Upto(m, f) == /\ f \in [0..m -> X] /\ f[0] = base
                          /\ \A n \in 1..m : f[n] = F[n][f[n - 1]]
            T == {m \in 0..N : \E f : Upto(m, f)}
<1>1. 0 \in T
  <2>. DEFINE f == [n \in 0..0 |-> base]
  <2>1. f \in [0..0 -> X] /\ f[0] = base /\ 1..0 = {}
    OBVIOUS
  <2>. HIDE DEF f
  <2>2. Upto(0, f)
    BY <2>1
  <2>. HIDE DEF Upto
  <2>3. \E g : Upto(0, g)
    BY <2>2
  <2>. QED BY <2>3
<1>2. ASSUME NEW m \in 0..(N - 1), m \in T PROVE m + 1 \in T
  <2>1. PICK f : Upto(m, f)
    BY <1>2
  <2>2. m + 1 \in 1..N /\ m \in 0..m /\ m \in Nat /\ m + 1 \in 0..N
    OBVIOUS
  <2>3. f[m] \in X
    BY <2>1, <2>2
  <2>4. F[m + 1][f[m]] \in X
    BY <2>2, <2>3
  <2>. DEFINE g == [n \in 0..(m + 1) |-> IF n = m + 1 THEN F[m + 1][f[m]] ELSE f[n]]
  <2>5. \A n \in 0..(m + 1) : g[n] \in X
    BY <2>1, <2>2, <2>4
  <2>6. g \in [0..(m + 1) -> X]
    BY <2>5
  <2>7. g[0] = base
    BY <2>1, <2>2
  <2>8. \A n \in 1..(m + 1) : g[n] = F[n][g[n - 1]]
    <3>. TAKE n \in 1..(m + 1)
    <3>1. CASE n = m + 1
      <4>1. g[n] = F[m + 1][f[m]] /\ g[n - 1] = f[m]
        BY <2>2, <3>1
      <4>. QED BY <3>1, <4>1
    <3>2. CASE n # m + 1
      <4>1. n \in 1..m /\ n \in 0..m /\ n - 1 \in 0..m /\ n - 1 # m + 1
        BY <2>2, <3>2
      <4>2. g[n] = f[n] /\ g[n - 1] = f[n - 1]
        BY <2>2, <4>1
      <4>. QED BY <2>1, <4>1, <4>2
    <3>. QED BY <3>1, <3>2
  <2>. HIDE DEF g
  <2>9. Upto(m + 1, g)
    BY <2>6, <2>7, <2>8
  <2>. HIDE DEF Upto
  <2>. QED BY <2>2, <2>9
<1>3. N \in T
  <2>. HIDE DEF T
  <2>1. \A n \in 0..N : n \in T
    BY <1>1, <1>2, InductionTo
  <2>. QED BY <2>1
<1>. QED BY <1>3 DEF Follows

\* A function on 0..N has a greatest value.
LEMMA GreatestValue ==
  ASSUME NEW N \in Nat, NEW f \in [0..N -> Nat]
  PROVE  \E i \in 0..N : \A j \in 0..N : f[j] <= f[i]
<1>. DEFINE T == {n \in 0..N : \E i \in 0..n : \A j \in 0..n : f[j] <= f[i]}
<1>1. 0 \in T
  <2>1. f[0] \in Nat /\ \A j \in 0..0 : j = 0
    OBVIOUS
  <2>2. \E i \in 0..0 : \A j \in 0..0 : f[j] <= f[i]
    BY <2>1
  <2>. QED BY <2>2
<1>2. ASSUME NEW n \in 0..(N - 1), n \in T PROVE n + 1 \in T
  <2>1. PICK i \in 0..n : \A j \in 0..n : f[j] <= f[i]
    BY <1>2
  <2>2. n + 1 \in 0..N /\ i \in 0..N /\ \A j \in 0..(n + 1) : j \in 0..n \/ j = n + 1
    OBVIOUS
  <2>3. f[i] \in Nat /\ f[n + 1] \in Nat
    BY <2>2
  <2>4. \E m \in 0..(n + 1) : \A j \in 0..(n + 1) : f[j] <= f[m]
    <3>1. CASE f[n + 1] <= f[i]
      BY <2>1, <2>2, <2>3, <3>1
    <3>2. CASE ~(f[n + 1] <= f[i])
      <4>1. \A j \in 0..(n + 1) : f[j] <= f[n + 1]
        <5>. TAKE j \in 0..(n + 1)
        <5>1. j \in 0..n => f[j] \in Nat /\ f[j] <= f[i]
          BY <2>1, <2>2
        <5>. QED BY <2>2, <2>3, <3>2, <5>1
      <4>. QED BY <4>1
    <3>. QED BY <3>1, <3>2
  <2>. QED BY <2>2, <2>4
<1>3. N \in T
  <2>. HIDE DEF T
  <2>1. \A n \in 0..N : n \in T
    BY <1>1, <1>2, InductionTo
  <2>. QED BY <2>1
<1>. QED BY <1>3

------------------------------------------------------------------------------
\* The invariant.

Folders  == (UNION FolderSets) \cup {MountPoint}
Scans    == [found : SUBSET Folders, loose : BOOLEAN, any : BOOLEAN]
Outcomes == {"ok", "unchanged", "failed"}
Runs     == [st : {"none", "running", "ended"}, section : [SectionNames -> Statuses],
             cur : SectionNames \cup {Nothing}, outcome : Outcomes \cup {"none"}]
Windows  == [status : [Steps -> Statuses], reached : DOMAIN Order, follow : BOOLEAN,
             scanning : BOOLEAN, scan : Scans, folder : Folders \cup {Nothing}, device : BOOLEAN,
             install : Runs, build : {"none", "running", "ok", "failed"},
             restart : BOOLEAN, daemon : BOOLEAN]
Scripts  == [st : {"none", "asking", "running", "failing", "gone"}, at : 0..Len(Sections),
             inside : BOOLEAN, mounts : BOOLEAN]
Worlds   == [folders : FolderSets, mounted : BOOLEAN, changed : BOOLEAN, console : BOOLEAN]

Markers  == {Marker(s, t) : s \in SectionNames, t \in Statuses \ {"Pending"}}
Exits    == {Exit(c) : c \in {"ok", "failed"}}

Types ==
  /\ w \in Windows /\ script \in Scripts /\ world \in Worlds /\ msgs \in Scans
  /\ out \in Seq(Markers \cup Exits)
  /\ script.inside => script.at < Len(Sections)

\* The exit is the last thing that is ever said, and is said by a script that
\* has gone; what it says is on its way or taken, by a run that is over.
ExitLast(s) == \A i \in 1..Len(s) : s[i] \in Exits => i = Len(s)
Said ==
  /\ ExitLast(out) /\ ((\E i \in 1..Len(out) : out[i] \in Exits) => script.st = "gone")
  /\ ~Running(w) => script = NoScript /\ out = <<>>
  /\ Running(w) => script.st # "none" /\ w.install.outcome = "none"
  /\ script.st = "asking" => out = <<>> /\ script.at = 0 /\ ~script.inside

\* What the install's pages show is what the run says.
Shows(a) ==
  \A s \in SectionNames \ {"source"} :
    /\ a.status[Page[s]] = "Done" => a.install.section[s] = "Done"
    /\ Running(a) /\ a.status[Page[s]] = "Skipped" => a.install.section[s] = "Skipped"

\* A section the script has begun, or is past, by what the run has taken and what
\* is on its way to it.
Over == {"Done", "Skipped"}
Begun(r, msg, s) ==
  r.section[s] # "Pending" \/ \E i \in 1..Len(msg) : msg[i] \in Markers /\ msg[i].s = s
Past(r, msg, s) ==
  \/ r.section[s] \in Over
  \/ \E i \in 1..Len(msg) : msg[i] \in Markers /\ msg[i].s = s /\ msg[i].status \in Over
Followed ==
  Running(w) =>
    /\ script.inside => Begun(w.install, out, Here)
    /\ world.changed => \E s \in SectionNames \ {"source"} : Begun(w.install, out, s)
    /\ \A s \in SectionNames :
         Past(w.install, out, s) => \E i \in 1..script.at : Sections[i] = s

\* A build the window watches, or has seen end well, was begun when the script
\* had no more to remove.
LiveBuild == {"running", "ok"}
BuiltAfterDriver ==
  Running(w) /\ w.build \in LiveBuild => script.st # "asking" /\ script.at = Len(Sections)

WizInv == Types /\ Said /\ Shows(w) /\ Followed /\ ClaimIsTrue /\ BuiltAfterDriver

\* The Console that is being built, and the files it has put in place.
Watched ==
  /\ cons \in {"none", "running", "installed", "ok", "failed"}
  /\ cons # "none" => w.build = "running"
  /\ cons \in {"installed", "ok"} => world.console
  /\ ConsoleIsThere

------------------------------------------------------------------------------
\* The constants.

Five  == {"source", "remove", "import", "firmware", "driver"}
Pages == {"Review", "Remove", "Import", "Firmware", "Driver"}

LEMMA SectionsAre ==
  ASSUME WizardAssumption
  PROVE  /\ Len(Sections) \in Nat /\ Len(Sections) >= 1
         /\ SectionNames \subseteq Five /\ "driver" \in SectionNames
         /\ \A i \in 1..Len(Sections) : Sections[i] \in SectionNames
         /\ \A i, j \in 1..Len(Sections) : Sections[i] = Sections[j] => i = j
         /\ Sections[Len(Sections)] = "driver"
         /\ Nothing \notin SectionNames
<1>1. Sections \in Seq(Five) /\ "driver" \in Range(Sections)
  BY DEF WizardAssumption, Five
<1>2. DOMAIN Sections = 1..Len(Sections) /\ Len(Sections) \in Nat
      /\ \A i \in 1..Len(Sections) : Sections[i] \in Five
  BY <1>1
<1>3. SectionNames = {Sections[i] : i \in 1..Len(Sections)}
  BY <1>2 DEF SectionNames, Range
<1>4. Len(Sections) # 0
  BY <1>1, <1>2 DEF Range
<1>5. SectionNames \subseteq Five /\ "driver" \in SectionNames
  BY <1>1, <1>2, <1>3 DEF SectionNames
<1>6. Nothing \notin Five
  BY DEF Nothing, Five
<1>7. \A i, j \in 1..Len(Sections) : Sections[i] = Sections[j] => i = j
  BY <1>2 DEF WizardAssumption, IsInjective
<1>8. Sections[Len(Sections)] = "driver"
  BY DEF WizardAssumption, Last
<1>. QED BY <1>2, <1>3, <1>4, <1>5, <1>6, <1>7, <1>8

LEMMA StepsAre ==
  /\ Steps = {"Find", "Review", "Remove", "Import", "Firmware", "Driver", "Console", "Done"}
  /\ DOMAIN Order = 1..8 /\ \A p \in Steps : At(p) \in DOMAIN Order
<1>1. DOMAIN Order = 1..8 /\ \A i \in 1..8 : i = 1 \/ i = 2 \/ i = 3 \/ i = 4 \/ i = 5 \/ i = 6 \/ i = 7 \/ i = 8
  BY DEF Order
<1>2. /\ Order[1] = "Find" /\ Order[2] = "Review" /\ Order[3] = "Remove" /\ Order[4] = "Import"
      /\ Order[5] = "Firmware" /\ Order[6] = "Driver" /\ Order[7] = "Console" /\ Order[8] = "Done"
  BY DEF Order
<1>. HIDE DEF Order
<1>3. Steps = {Order[i] : i \in 1..8}
  BY <1>1 DEF Steps, Range
<1>4. Steps = {"Find", "Review", "Remove", "Import", "Firmware", "Driver", "Console", "Done"}
  BY <1>1, <1>2, <1>3
<1>5. \A p \in Steps : \E i \in DOMAIN Order : Order[i] = p
  BY <1>1, <1>3
<1>. QED BY <1>1, <1>4, <1>5 DEF At

LEMMA PagesAre ==
  /\ \A s \in Five : Page[s] \in Pages /\ SectionOf[Page[s]] = s
                     /\ (s # "source" => Page[s] # "Review")
  /\ Pages \subseteq Steps /\ DOMAIN SectionOf = Pages
  /\ Page["driver"] = "Driver"
<1>1. Pages \subseteq Steps
  BY StepsAre DEF Pages
<1>. QED BY <1>1 DEF Five, Pages, Page, SectionOf

LEMMA MessagesAre ==
  /\ \A m \in Markers : m.k = "marker" /\ m.s \in SectionNames /\ m.status \in Statuses \ {"Pending"}
  /\ \A m \in Exits : m.k = "exit" /\ m.code \in {"ok", "failed"}
BY DEF Markers, Exits, Marker, Exit

\* A set of numbers up to N that is not empty has a greatest.
LEMMA GreatestIn ==
  ASSUME NEW N \in Nat, NEW S \in SUBSET (1..N), S # {}
  PROVE  Max(S) \in S
<1>. DEFINE f == [i \in 0..N |-> IF i \in S THEN i ELSE 0]
<1>1. f \in [0..N -> Nat] /\ \A i \in 0..N : f[i] = IF i \in S THEN i ELSE 0
  OBVIOUS
<1>. HIDE DEF f
<1>2. PICK i \in 0..N : \A j \in 0..N : f[j] <= f[i]
  BY <1>1, GreatestValue
<1>3. \A j \in S : j \in 0..N /\ f[j] = j /\ j > 0 /\ j <= f[i]
  BY <1>1, <1>2
<1>4. PICK x \in S : TRUE
  OBVIOUS
<1>5. i \in S /\ f[i] = i
  BY <1>1, <1>3, <1>4
<1>6. \A j \in S : i >= j
  BY <1>3, <1>5
<1>. QED BY <1>5, <1>6 DEF Max

------------------------------------------------------------------------------
\* What is done to a window.

\* b has the install and the build of a, and no section's page of b shows more
\* than a's; AlmostCalm: its build may have ended.
Calm(a, b) ==
  /\ b \in Windows /\ b.install = a.install /\ b.build = a.build
  /\ \A p \in Pages : b.status[p] = a.status[p] \/ b.status[p] \notin Over
AlmostCalm(a, b) ==
  /\ b \in Windows /\ b.install = a.install /\ (b.build \in LiveBuild => a.build \in LiveBuild)
  /\ \A p \in Pages : b.status[p] = a.status[p] \/ b.status[p] \notin Over

LEMMA CalmTwice ==
  ASSUME NEW a, NEW b, NEW c, Calm(a, b), Calm(b, c) PROVE Calm(a, c)
BY DEF Calm

LEMMA CalmShows ==
  ASSUME WizardAssumption, NEW a, NEW b, Shows(a), AlmostCalm(a, b) PROVE Shows(b)
<1>1. \A s \in SectionNames : Page[s] \in Pages
  BY SectionsAre, PagesAre
<1>. QED BY <1>1 DEF Shows, AlmostCalm, Running, Over

LEMMA CalmIsAlmost ==
  /\ \A a, b : Calm(a, b) => AlmostCalm(a, b)
  /\ \A a, b, c : Calm(a, b) /\ AlmostCalm(b, c) => AlmostCalm(a, c)
BY DEF Calm, AlmostCalm

LEMMA SetCalm ==
  ASSUME NEW a \in Windows, NEW step \in Steps, NEW s \in Statuses, step \notin Pages
  PROVE  Calm(a, Set(a, step, s))
<1>. DEFINE t == [a.status EXCEPT ![step] = s]
            b == Set(a, step, s)
<1>1. a.status \in [Steps -> Statuses]
  BY DEF Windows
<1>2. t \in [Steps -> Statuses] /\ \A p \in Pages : t[p] = a.status[p]
  BY <1>1, PagesAre
<1>3. b = [a EXCEPT !.status = t]
  BY DEF Set
<1>. HIDE DEF b, t
<1>4. b \in Windows /\ b.status = t /\ b.install = a.install /\ b.build = a.build
  BY <1>2, <1>3 DEF Windows
<1>. QED BY <1>2, <1>4 DEF Calm, b

LEMMA InvalidateCalm == ASSUME NEW a \in Windows PROVE Calm(a, Invalidate(a))
<1>. DEFINE t == [p \in Steps |-> IF p \notin {"Find", "Done"} /\ a.status[p] # "Running"
                                  THEN "Pending" ELSE a.status[p]]
            b == Invalidate(a)
<1>1. a.status \in [Steps -> Statuses]
  BY DEF Windows
<1>2. t \in [Steps -> Statuses] /\ \A p \in Pages : t[p] = a.status[p] \/ t[p] \notin Over
  BY <1>1, PagesAre DEF Statuses, Over
<1>3. b = [a EXCEPT !.status = t]
  BY DEF Invalidate
<1>. HIDE DEF b, t
<1>4. b \in Windows /\ b.status = t /\ b.install = a.install /\ b.build = a.build
  BY <1>2, <1>3 DEF Windows
<1>. QED BY <1>2, <1>4 DEF Calm, b

LEMMA CalmSelf == ASSUME NEW a \in Windows PROVE Calm(a, a)
BY DEF Calm

LEMMA UpdateFindCalm == ASSUME NEW a \in Windows PROVE Calm(a, UpdateFind(a))
<1>1. "Find" \in Steps /\ "Done" \in Statuses /\ "Find" \notin Pages
  BY StepsAre DEF Statuses, Pages
<1>. QED BY <1>1, SetCalm, CalmSelf DEF UpdateFind

\* The fields that a selection, a scan or a change of page writes.
LEMMA FolderCalm ==
  ASSUME NEW a \in Windows, NEW f \in Folders \cup {Nothing}, NEW d \in BOOLEAN
  PROVE  /\ Calm(a, [a EXCEPT !.device = d, !.folder = f])
         /\ Calm(a, [a EXCEPT !.folder = f, !.device = d])
BY DEF Calm, Windows

LEMMA ScanCalm ==
  ASSUME NEW a \in Windows, NEW c \in BOOLEAN
  PROVE  /\ Calm(a, [a EXCEPT !.scanning = c])
         /\ \A s \in Scans : Calm(a, [a EXCEPT !.scanning = c, !.scan = s])
BY DEF Calm, Windows

LEMMA PageCalm ==
  ASSUME NEW a \in Windows, NEW c \in BOOLEAN
  PROVE  /\ Calm(a, [a EXCEPT !.follow = c])
         /\ \A n \in DOMAIN Order : /\ Calm(a, [a EXCEPT !.reached = n, !.follow = c])
                                    /\ Calm(a, [a EXCEPT !.reached = n])
BY DEF Calm, Windows

LEMMA SetSelectionCalm ==
  ASSUME NEW a \in Windows, NEW pick \in Folders \cup {Nothing}
  PROVE  Calm(a, SetSelection(a, pick))
<1>. DEFINE b == IF pick # a.folder \/ (pick # Nothing /\ a.device) THEN Invalidate(a) ELSE a
            d == b.device /\ pick = Nothing
            c == [b EXCEPT !.device = d, !.folder = pick]
<1>1. Calm(a, b)
  BY InvalidateCalm, CalmSelf
<1>2. SetSelection(a, pick) = UpdateFind(c)
  BY DEF SetSelection
<1>3. d \in BOOLEAN /\ b \in Windows
  BY <1>1 DEF Calm
<1>. HIDE DEF b, d
<1>4. Calm(b, c) /\ c \in Windows
  <2>1. Calm(b, c)
    BY <1>3, FolderCalm
  <2>. QED BY <2>1 DEF Calm
<1>. HIDE DEF c
<1>5. Calm(c, UpdateFind(c))
  BY <1>4, UpdateFindCalm
<1>. QED BY <1>1, <1>2, <1>4, <1>5, CalmTwice

LEMMA SelectDeviceCalm == ASSUME NEW a \in Windows PROVE Calm(a, SelectDevice(a))
<1>. DEFINE b == IF a.device THEN a ELSE Invalidate(a)
            c == [b EXCEPT !.folder = Nothing, !.device = TRUE]
<1>1. Calm(a, b) /\ b \in Windows
  BY InvalidateCalm, CalmSelf DEF Calm
<1>2. SelectDevice(a) = UpdateFind(c)
  BY DEF SelectDevice
<1>. HIDE DEF b
<1>4. Calm(b, c) /\ c \in Windows
  BY <1>1, FolderCalm DEF Calm
<1>. HIDE DEF c
<1>5. Calm(c, UpdateFind(c))
  BY <1>4, UpdateFindCalm
<1>. QED BY <1>1, <1>2, <1>4, <1>5, CalmTwice

LEMMA StartScanCalm == ASSUME NEW a \in Windows PROVE Calm(a, StartScan(a))
<1>. DEFINE b == [a EXCEPT !.scanning = TRUE]
<1>1. Calm(a, b) /\ b \in Windows
  BY ScanCalm DEF Calm
<1>2. "Find" \in Steps /\ "Running" \in Statuses /\ "Find" \notin Pages
  BY StepsAre DEF Statuses, Pages
<1>3. StartScan(a) = IF a.scanning THEN a ELSE Set(b, "Find", "Running")
  BY DEF StartScan
<1>. HIDE DEF b
<1>4. Calm(b, Set(b, "Find", "Running"))
  BY <1>1, <1>2, SetCalm
<1>5. Calm(a, Set(b, "Find", "Running"))
  BY <1>1, <1>4, CalmTwice
<1>. QED BY <1>3, <1>5, CalmSelf

LEMMA ScannedCalm ==
  ASSUME NEW a \in Windows, NEW s \in Scans, NEW pick \in Folders \cup {Nothing}
  PROVE  Calm(a, Scanned(a, s, pick))
<1>. DEFINE b == [a EXCEPT !.scanning = FALSE, !.scan = s]
<1>1. Calm(a, b) /\ b \in Windows
  BY ScanCalm DEF Calm
<1>2. Scanned(a, s, pick) = UpdateFind(b) \/ Scanned(a, s, pick) = SetSelection(b, pick)
  BY DEF Scanned
<1>. HIDE DEF b
<1>3. Calm(b, UpdateFind(b)) /\ Calm(b, SetSelection(b, pick))
  BY <1>1, UpdateFindCalm, SetSelectionCalm
<1>4. Calm(a, UpdateFind(b)) /\ Calm(a, SetSelection(b, pick))
  BY <1>1, <1>3, CalmTwice
<1>. QED BY <1>2, <1>4

\* What a scan may select is a folder.
LEMMA PicksAre ==
  ASSUME NEW a \in Windows, NEW s \in Scans, NEW pick \in Picks(a, s)
  PROVE  pick \in Folders \cup {Nothing}
<1>1. s.found \subseteq Folders
  BY DEF Scans
<1>. QED BY <1>1 DEF Picks

LEMMA ReachCalm ==
  ASSUME NEW a \in Windows, NEW step \in Steps
  PROVE  Calm(a, Reach(a, step))
<1>. DEFINE n == IF At(step) > a.reached THEN At(step) ELSE a.reached
<1>1. n \in DOMAIN Order
  BY StepsAre DEF Windows
<1>2. Reach(a, step) = [a EXCEPT !.reached = n]
  BY DEF Reach
<1>. HIDE DEF n
<1>. QED BY <1>1, <1>2, PageCalm

------------------------------------------------------------------------------
\* The run that a window feeds.

LEMMA FeedIs ==
  ASSUME NEW r \in Runs, NEW m \in Markers
  PROVE  /\ Feed(r, m) \in Runs /\ Feed(r, m).st = r.st /\ Feed(r, m).outcome = r.outcome
         /\ \A s \in SectionNames :
              Feed(r, m).section[s] = IF s = m.s THEN m.status ELSE r.section[s]
<1>. DEFINE c == IF m.status = "Running" THEN m.s ELSE IF r.cur = m.s THEN Nothing ELSE r.cur
            t == [r.section EXCEPT ![m.s] = m.status]
            q == Feed(r, m)
<1>1. m.s \in SectionNames /\ m.status \in Statuses
  BY MessagesAre
<1>2. c \in SectionNames \cup {Nothing} /\ t \in [SectionNames -> Statuses]
      /\ \A s \in SectionNames : t[s] = IF s = m.s THEN m.status ELSE r.section[s]
  BY <1>1 DEF Runs
<1>3. q = [r EXCEPT !.section = t, !.cur = c]
  BY DEF Feed
<1>. HIDE DEF c, t, q
<1>4. q \in Runs /\ q.st = r.st /\ q.outcome = r.outcome /\ q.section = t
  BY <1>2, <1>3 DEF Runs
<1>. QED BY <1>2, <1>4 DEF q

LEMMA FinishIs ==
  ASSUME WizardAssumption, NEW r \in Runs, NEW code \in {"ok", "failed"}
  PROVE  /\ Finish(r, code) \in Runs /\ Finish(r, code).st = r.st
         /\ Finish(r, code).outcome \in Outcomes
         /\ \A s \in SectionNames :
              Finish(r, code).section[s] \in {r.section[s], "Failed"}
         /\ Finish(r, code).outcome = "unchanged" =>
              \A s \in SectionNames \ {"source"} : Finish(r, code).section[s] = "Pending"
<1>. DEFINE f == IF r.cur = Nothing THEN r
                 ELSE [r EXCEPT !.section[r.cur] = "Failed", !.cur = Nothing]
            o == IF code = "ok" THEN "ok" ELSE IF NothingChanged(f) THEN "unchanged" ELSE "failed"
            q == Finish(r, code)
<1>1. /\ f \in Runs /\ f.st = r.st
      /\ \A s \in SectionNames : f.section[s] \in {r.section[s], "Failed"}
  <2>1. CASE r.cur = Nothing
    BY <2>1
  <2>2. CASE r.cur # Nothing
    <3>. DEFINE t == [r.section EXCEPT ![r.cur] = "Failed"]
    <3>1. t \in [SectionNames -> Statuses] /\ \A s \in SectionNames : t[s] \in {r.section[s], "Failed"}
      BY DEF Runs, Statuses
    <3>2. f = [r EXCEPT !.section = t, !.cur = Nothing]
      BY <2>2
    <3>. HIDE DEF f, t
    <3>3. f \in Runs /\ f.st = r.st /\ f.section = t
      BY <3>1, <3>2 DEF Runs
    <3>. QED BY <3>1, <3>3
  <2>. QED BY <2>1, <2>2
<1>2. q = [f EXCEPT !.outcome = o]
  BY DEF Finish
<1>3. o \in Outcomes /\ (o = "unchanged" => NothingChanged(f))
  BY DEF Outcomes
<1>. HIDE DEF f, o, q
<1>4. q \in Runs /\ q.st = f.st /\ q.section = f.section /\ q.outcome = o
  BY <1>1, <1>2, <1>3 DEF Runs
<1>. QED BY <1>1, <1>3, <1>4 DEF NothingChanged, q

LEMMA FedIs ==
  ASSUME WizardAssumption, NEW r \in Runs, NEW m \in Markers \cup Exits
  PROVE  /\ Fed(r, m) \in Runs /\ Fed(r, m).st = r.st
         /\ m \in Markers => Fed(r, m).outcome = r.outcome
         /\ m \in Exits => /\ Fed(r, m).outcome \in Outcomes
                           /\ Fed(r, m).outcome = "unchanged" =>
                                \A s \in SectionNames \ {"source"} : Fed(r, m).section[s] = "Pending"
         /\ \A s \in SectionNames :
              /\ r.section[s] # "Pending" \/ (m \in Markers /\ m.s = s) => Fed(r, m).section[s] # "Pending"
              /\ Fed(r, m).section[s] \in Over =>
                   r.section[s] \in Over \/ (m \in Markers /\ m.s = s /\ m.status \in Over)
<1>1. CASE m \in Markers
  <2>1. m.k = "marker" /\ m.status # "Pending" /\ m \notin Exits
    BY <1>1, MessagesAre
  <2>2. Fed(r, m) = Feed(r, m)
    BY <2>1 DEF Fed
  <2>. QED BY <1>1, <2>1, <2>2, FeedIs
<1>2. CASE m \in Exits
  <2>1. m.k = "exit" /\ m.code \in {"ok", "failed"} /\ m \notin Markers
    BY <1>2, MessagesAre
  <2>. DEFINE q == Finish(r, m.code)
  <2>2. Fed(r, m) = q
    BY <2>1 DEF Fed
  <2>3. /\ q \in Runs /\ q.st = r.st /\ q.outcome \in Outcomes
        /\ \A s \in SectionNames : q.section[s] \in {r.section[s], "Failed"}
        /\ q.outcome = "unchanged" =>
              \A s \in SectionNames \ {"source"} : q.section[s] = "Pending"
    BY <2>1, FinishIs
  <2>. HIDE DEF q
  <2>. QED BY <1>2, <2>1, <2>2, <2>3 DEF Over
<1>. QED BY <1>1, <1>2

\* What a window makes of the messages it takes, the exit last: a section that
\* was begun shows, one that shows as over is, and a run that is said to have
\* changed nothing has begun nothing.
LEMMA PumpIs ==
  ASSUME WizardAssumption, NEW r \in Runs, NEW got \in Seq(Markers \cup Exits), ExitLast(got)
  PROVE  /\ Pump(r, got) \in Runs
         /\ Pump(r, got).st = IF Ends(got) THEN "ended" ELSE r.st
         /\ ~Ends(got) => Pump(r, got).outcome = r.outcome
         /\ Ends(got) => /\ Pump(r, got).outcome \in Outcomes
                         /\ Pump(r, got).outcome = "unchanged" =>
                              \A s \in SectionNames \ {"source"} : Pump(r, got).section[s] = "Pending"
         /\ \A s \in SectionNames :
              /\ Begun(r, got, s) => Pump(r, got).section[s] # "Pending"
              /\ Pump(r, got).section[s] \in Over => Past(r, got, s)
<1>. DEFINE N == Len(got)
            q == [r EXCEPT !.st = IF Ends(got) THEN "ended" ELSE @]
            Sums(f) == f = [n \in 0..N |-> IF n = 0 THEN q ELSE Fed(f[n - 1], got[n])]
            after == CHOOSE f : Sums(f)
            F == [n \in 1..N |-> [x \in Runs |-> Fed(x, got[n])]]
<1>1. N \in Nat /\ \A n \in 1..N : got[n] \in Markers \cup Exits
  OBVIOUS
<1>2. q \in Runs /\ q.st = (IF Ends(got) THEN "ended" ELSE r.st) /\ q.section = r.section
      /\ q.outcome = r.outcome
  BY DEF Runs
<1>3. Pump(r, got) = after[N]
  BY DEF Pump
<1>. HIDE DEF q, N
<1>4. F \in [1..N -> [Runs -> Runs]] /\ \A n \in 1..N, x \in Runs : F[n][x] = Fed(x, got[n])
  <2>1. \A n \in 1..N : \A x \in Runs : Fed(x, got[n]) \in Runs
    BY <1>1, FedIs
  <2>. QED BY <2>1
<1>. HIDE DEF F
<1>5. PICK f : Follows(f, N, Runs, q, F)
  <2>. DEFINE X == Runs
  <2>1. F \in [1..N -> [X -> X]] /\ q \in X
    BY <1>2, <1>4
  <2>. HIDE DEF X
  <2>2. \E f : Follows(f, N, X, q, F)
    BY <1>1, <2>1, RecursiveFunction
  <2>. QED BY <2>2 DEF X
<1>6. f \in [0..N -> Runs] /\ f[0] = q /\ \A n \in 1..N : f[n] = Fed(f[n - 1], got[n])
  <2>1. f \in [0..N -> Runs] /\ f[0] = q /\ \A n \in 1..N : f[n] = F[n][f[n - 1]]
    BY <1>5 DEF Follows
  <2>2. \A n \in 1..N : n - 1 \in 0..N /\ f[n - 1] \in Runs
    BY <1>1, <2>1
  <2>. QED BY <1>4, <2>1, <2>2
<1>7. Sums(f)
  <2>1. \A n \in 0..N : n = 0 \/ n \in 1..N
    BY <1>1
  <2>2. \A n \in 0..N : f[n] = IF n = 0 THEN q ELSE Fed(f[n - 1], got[n])
    BY <1>6, <2>1
  <2>. QED BY <1>6, <2>2
<1>8. Sums(after)
  <2>. HIDE DEF Sums
  <2>. QED BY <1>7
<1>. HIDE DEF after
<1>9. after[0] = q /\ \A n \in 1..N : after[n] = Fed(after[n - 1], got[n])
  <2>1. 0 \in 0..N /\ \A n \in 1..N : n \in 0..N /\ n # 0
    BY <1>1
  <2>. QED BY <1>8, <2>1
<1>. HIDE DEF Sums
<1>. DEFINE Told(n, s)  == \E i \in 1..n : got[i] \in Markers /\ got[i].s = s
            Ended(n, s) == \E i \in 1..n : got[i] \in Markers /\ got[i].s = s /\ got[i].status \in Over
            Good(x, n) ==
              /\ x \in Runs /\ x.st = q.st
              /\ (\A i \in 1..n : got[i] \in Markers) => x.outcome = q.outcome
              /\ n # 0 /\ got[n] \in Exits =>
                   /\ x.outcome \in Outcomes
                   /\ x.outcome = "unchanged" =>
                        \A s \in SectionNames \ {"source"} : x.section[s] = "Pending"
              /\ \A s \in SectionNames :
                   /\ q.section[s] # "Pending" \/ Told(n, s) => x.section[s] # "Pending"
                   /\ x.section[s] \in Over => q.section[s] \in Over \/ Ended(n, s)
            T == {n \in 0..N : Good(after[n], n)}
<1>10. 0 \in T
  <2>1. Good(q, 0)
    BY <1>2
  <2>. QED BY <1>1, <1>9, <2>1
<1>11. ASSUME NEW n \in 0..(N - 1), n \in T PROVE n + 1 \in T
  <2>. DEFINE x == after[n]
              m == got[n + 1]
              y == Fed(x, m)
  <2>1. n + 1 \in 0..N /\ n + 1 \in 1..N /\ (n + 1) - 1 = n /\ n + 1 # 0
    BY <1>1
  <2>2. m \in Markers \cup Exits /\ after[n + 1] = y
    BY <1>1, <1>9, <2>1
  <2>3. Good(x, n)
    BY <1>11
  <2>4. /\ y \in Runs /\ y.st = x.st
        /\ m \in Markers => y.outcome = x.outcome
        /\ m \in Exits => /\ y.outcome \in Outcomes
                          /\ y.outcome = "unchanged" =>
                               \A s \in SectionNames \ {"source"} : y.section[s] = "Pending"
        /\ \A s \in SectionNames :
             /\ x.section[s] # "Pending" \/ (m \in Markers /\ m.s = s) => y.section[s] # "Pending"
             /\ y.section[s] \in Over =>
                  x.section[s] \in Over \/ (m \in Markers /\ m.s = s /\ m.status \in Over)
    <3>. HIDE DEF m
    <3>. QED BY <2>2, <2>3, FedIs
  <2>5. \A i \in 1..(n + 1) : i \in 1..n \/ i = n + 1
    OBVIOUS
  <2>6. n + 1 \in 1..(n + 1) /\ \A i \in 1..n : i \in 1..(n + 1)
    OBVIOUS
  <2>7. \A s \in SectionNames :
          /\ Told(n + 1, s) => Told(n, s) \/ (m \in Markers /\ m.s = s)
          /\ Ended(n, s) \/ (m \in Markers /\ m.s = s /\ m.status \in Over) => Ended(n + 1, s)
    BY <2>5, <2>6
  <2>8. (\A i \in 1..(n + 1) : got[i] \in Markers) => m \in Markers /\ \A i \in 1..n : got[i] \in Markers
    BY <2>6
  <2>. HIDE DEF x, y, Told, Ended
  <2>9. Good(y, n + 1)
    <3>1. m = got[n + 1]
      OBVIOUS
    <3>. HIDE DEF m
    <3>. QED BY <2>3, <2>4, <2>7, <2>8, <3>1
  <2>. HIDE DEF Good
  <2>. QED BY <2>1, <2>2, <2>9
<1>12. Good(after[N], N)
  <2>. HIDE DEF Good
  <2>1. 0 \in T /\ \A n \in 0..(N - 1) : n \in T => n + 1 \in T
    BY <1>10, <1>11
  <2>2. T = {n \in 0..N : Good(after[n], n)}
    OBVIOUS
  <2>. HIDE DEF T
  <2>3. \A n \in 0..N : n \in T
    BY <1>1, <2>1, InductionTo
  <2>. QED BY <1>1, <2>2, <2>3
<1>13. ~Ends(got) => \A i \in 1..N : got[i] \in Markers
  BY <1>1, MessagesAre DEF Ends, N
<1>14. Ends(got) => N # 0 /\ got[N] \in Exits
  BY <1>1, MessagesAre DEF Ends, N, ExitLast
<1>15. \A s \in SectionNames :
         /\ Begun(r, got, s) <=> q.section[s] # "Pending" \/ Told(N, s)
         /\ Past(r, got, s) <=> q.section[s] \in Over \/ Ended(N, s)
  BY <1>2 DEF Begun, Past, N
<1>. HIDE DEF Told, Ended, after
<1>. QED BY <1>2, <1>3, <1>12, <1>13, <1>14, <1>15

------------------------------------------------------------------------------
\* What a frame makes of the window.

LEMMA SyncIs ==
  ASSUME WizardAssumption, NEW a \in Windows
  PROVE  /\ SyncSteps(a) \in Windows /\ SyncSteps(a).install = a.install
         /\ SyncSteps(a).build = a.build /\ Shows(SyncSteps(a))
<1>. DEFINE t == [p \in Steps |-> IF p \in DOMAIN SectionOf /\ SectionOf[p] \in SectionNames
                                  THEN Shown(a.install, SectionOf[p]) ELSE a.status[p]]
            b == SyncSteps(a)
<1>1. a.status \in [Steps -> Statuses] /\ a.install \in Runs
  BY DEF Windows
<1>2. \A s \in SectionNames : /\ Shown(a.install, s) \in Statuses
                              /\ s # "source" => Shown(a.install, s) = a.install.section[s]
  BY <1>1 DEF Shown, Runs, Statuses
<1>3. t \in [Steps -> Statuses]
  BY <1>1, <1>2
<1>4. \A s \in SectionNames \ {"source"} : t[Page[s]] = a.install.section[s]
  <2>1. \A s \in SectionNames : Page[s] \in DOMAIN SectionOf /\ Page[s] \in Steps /\ SectionOf[Page[s]] = s
    BY SectionsAre, PagesAre
  <2>. QED BY <1>2, <2>1
<1>5. b = [a EXCEPT !.status = t]
  BY DEF SyncSteps
<1>. HIDE DEF b, t
<1>6. b \in Windows /\ b.status = t /\ b.install = a.install /\ b.build = a.build
  BY <1>3, <1>5 DEF Windows
<1>7. Shows(b)
  BY <1>4, <1>6 DEF Shows
<1>. QED BY <1>6, <1>7 DEF b

LEMMA StartBuildIs ==
  ASSUME NEW a \in Windows
  PROVE  /\ StartBuild(a) \in Windows /\ StartBuild(a).install = a.install
         /\ StartBuild(a).build = "running"
         /\ \A p \in Pages : StartBuild(a).status[p] = a.status[p]
<1>. DEFINE c == [a EXCEPT !.build = "running"]
            t == [a.status EXCEPT !["Console"] = "Running"]
            b == StartBuild(a)
<1>1. c \in Windows /\ c.install = a.install /\ c.status = a.status /\ c.build = "running"
  BY DEF Windows
<1>2. a.status \in [Steps -> Statuses]
  BY DEF Windows
<1>3. t \in [Steps -> Statuses] /\ \A p \in Pages : t[p] = a.status[p]
  BY <1>2, PagesAre DEF Statuses, Pages
<1>4. b = [c EXCEPT !.status = t]
  BY <1>1 DEF StartBuild, Set
<1>. HIDE DEF b, c, t
<1>5. b \in Windows /\ b.status = t /\ b.install = c.install /\ b.build = c.build
  BY <1>1, <1>3, <1>4 DEF Windows
<1>. QED BY <1>1, <1>3, <1>5 DEF b

LEMMA FollowCalm ==
  ASSUME WizardAssumption, NEW a \in Windows, NEW got \in Seq(Markers \cup Exits)
  PROVE  Calm(a, Follow(a, got))
<1>. DEFINE S == {a.reached} \cup {At(p) : p \in Opened(got)}
            n == Max(S)
<1>1. DOMAIN Order = 1..8 /\ 8 \in Nat /\ \A p \in Steps : At(p) \in 1..8
  BY StepsAre
<1>2. Opened(got) \subseteq Steps
  <2>1. \A i \in DOMAIN got : got[i].k = "marker" => got[i].s \in SectionNames
    BY MessagesAre
  <2>2. \A s \in SectionNames : Page[s] \in Steps
    BY SectionsAre, PagesAre
  <2>. QED BY <2>1, <2>2 DEF Opened
<1>3. a.reached \in 1..8
  BY <1>1 DEF Windows
<1>4. S \in SUBSET (1..8) /\ S # {}
  BY <1>1, <1>2, <1>3
<1>5. Follow(a, got) = IF a.follow THEN [a EXCEPT !.reached = n] ELSE a
  BY DEF Follow
<1>. HIDE DEF S
<1>6. n \in S
  BY <1>1, <1>4, GreatestIn
<1>. HIDE DEF n
<1>7. n \in DOMAIN Order
  BY <1>1, <1>4, <1>6
<1>. QED BY <1>5, <1>7, PageCalm, CalmSelf

LEMMA OnInstallEndIs ==
  ASSUME WizardAssumption, NEW a \in Windows, Shows(a)
  PROVE  /\ OnInstallEnd(a) \in Windows /\ OnInstallEnd(a).install = a.install
         /\ Shows(OnInstallEnd(a))
         /\ OnInstallEnd(a).build = IF a.install.outcome = "ok" THEN "running" ELSE a.build
<1>. DEFINE c == [a EXCEPT !.restart = TRUE]
            b == StartBuild(c)
<1>1. c \in Windows /\ c.install = a.install /\ c.status = a.status
  BY DEF Windows
<1>2. OnInstallEnd(a) = IF a.install.outcome # "ok" THEN a
                        ELSE IF b.follow THEN Reach(b, "Console") ELSE b
  BY DEF OnInstallEnd
<1>. HIDE DEF c
<1>3. b \in Windows /\ b.install = a.install /\ b.build = "running"
      /\ \A p \in Pages : b.status[p] = a.status[p]
  BY <1>1, StartBuildIs
<1>. HIDE DEF b
<1>4. Shows(b)
  <2>1. \A s \in SectionNames : Page[s] \in Pages
    BY SectionsAre, PagesAre
  <2>. QED BY <1>3, <2>1 DEF Shows, Running
<1>5. "Console" \in Steps
  BY StepsAre
<1>6. Calm(b, Reach(b, "Console"))
  BY <1>3, <1>5, ReachCalm
<1>7. Shows(Reach(b, "Console"))
  BY <1>4, <1>6, CalmShows, CalmIsAlmost
<1>. QED BY <1>2, <1>3, <1>4, <1>6, <1>7 DEF Calm

LEMMA PumpInstallIs ==
  ASSUME WizardAssumption, NEW a \in Windows, NEW r \in Runs, NEW got \in Seq(Markers \cup Exits)
  PROVE  /\ PumpInstall(a, r, got) \in Windows /\ PumpInstall(a, r, got).install = r
         /\ Shows(PumpInstall(a, r, got))
         /\ PumpInstall(a, r, got).build =
              IF Ends(got) /\ r.outcome = "ok" THEN "running" ELSE a.build
<1>. DEFINE c == [a EXCEPT !.install = r]
            d == SyncSteps(c)
            b == Follow(d, got)
<1>1. c \in Windows /\ c.install = r /\ c.build = a.build
  BY DEF Windows
<1>2. PumpInstall(a, r, got) = IF Ends(got) THEN OnInstallEnd(b) ELSE b
  BY DEF PumpInstall
<1>. HIDE DEF c
<1>3. d \in Windows /\ d.install = r /\ d.build = a.build /\ Shows(d)
  BY <1>1, SyncIs
<1>. HIDE DEF d
<1>4. Calm(d, b)
  BY <1>3, FollowCalm
<1>. HIDE DEF b
<1>5. b \in Windows /\ b.install = r /\ b.build = a.build /\ Shows(b)
  BY <1>3, <1>4, CalmShows, CalmIsAlmost DEF Calm
<1>6. /\ OnInstallEnd(b) \in Windows /\ OnInstallEnd(b).install = r /\ Shows(OnInstallEnd(b))
      /\ OnInstallEnd(b).build = IF r.outcome = "ok" THEN "running" ELSE a.build
  BY <1>5, OnInstallEndIs
<1>. QED BY <1>2, <1>5, <1>6

LEMMA PumpBuildIs ==
  ASSUME NEW a \in Windows, NEW c
  PROVE  /\ AlmostCalm(a, PumpBuild(a, c))
         /\ PumpBuild(a, c).build = IF BuildEnded(a, c) THEN c ELSE a.build
<1>1. CASE ~BuildEnded(a, c)
  BY <1>1, CalmSelf, CalmIsAlmost DEF PumpBuild
<1>2. CASE BuildEnded(a, c)
  <2>. DEFINE e == [a EXCEPT !.build = c]
              s == IF c = "ok" THEN "Done" ELSE "Failed"
              b == Set(e, "Console", s)
              d == [b EXCEPT !.daemon = b.daemon \/ b.restart, !.restart = FALSE]
  <2>1. c \in {"ok", "failed"} /\ a.build = "running"
    BY <1>2 DEF BuildEnded
  <2>2. AlmostCalm(a, e) /\ e \in Windows /\ e.build = c
    BY <2>1 DEF AlmostCalm, Windows, LiveBuild
  <2>3. s \in Statuses /\ "Console" \in Steps /\ "Console" \notin Pages
    BY StepsAre DEF Statuses, Pages
  <2>4. PumpBuild(a, c) = d
    BY <1>2 DEF PumpBuild
  <2>. HIDE DEF e, s
  <2>5. Calm(e, b)
    BY <2>2, <2>3, SetCalm
  <2>. HIDE DEF b
  <2>6. Calm(b, d)
    BY <2>5 DEF Calm, Windows
  <2>. HIDE DEF d
  <2>7. AlmostCalm(a, d) /\ d.build = c
    BY <2>2, <2>5, <2>6 DEF AlmostCalm, Calm
  <2>. QED BY <1>2, <2>4, <2>7
<1>. QED BY <1>1, <1>2

------------------------------------------------------------------------------
\* The steps.

\* A step that leaves the script and the install's messages as they are, and
\* shows no more than before.
LEMMA CalmStep ==
  ASSUME WizardAssumption, WizInv, AlmostCalm(w, w'), UNCHANGED <<script, out>>, msgs' \in Scans,
         world' \in Worlds, world'.changed = world.changed
  PROVE  WizInv'
<1>1. w' \in Windows /\ w'.install = w.install /\ (w'.build \in LiveBuild => w.build \in LiveBuild)
  BY DEF AlmostCalm
<1>2. Types' /\ Said' /\ ClaimIsTrue' /\ BuiltAfterDriver'
  BY <1>1 DEF WizInv, Types, Said, ClaimIsTrue, BuiltAfterDriver, Running
<1>3. Followed'
  BY <1>1 DEF WizInv, Followed, Running, Here
<1>4. Shows(w')
  BY CalmShows DEF WizInv
<1>. QED BY <1>2, <1>3, <1>4 DEF WizInv, Shows, Running

\* What is taken of a sequence of messages, and what is left.
LEMMA SplitIs ==
  ASSUME NEW S, NEW o \in Seq(S), NEW n \in 0..Len(o)
  PROVE  /\ SubSeq(o, 1, n) \in Seq(S) /\ Len(SubSeq(o, 1, n)) = n
         /\ \A i \in 1..n : SubSeq(o, 1, n)[i] = o[i]
         /\ SubSeq(o, n + 1, Len(o)) \in Seq(S) /\ Len(SubSeq(o, n + 1, Len(o))) = Len(o) - n
         /\ \A i \in 1..(Len(o) - n) : SubSeq(o, n + 1, Len(o))[i] = o[n + i]
<1>1. Len(o) \in Nat /\ \A i \in 1..Len(o) : o[i] \in S
  OBVIOUS
<1>2. \A i \in 1..n : i \in 1..Len(o)
  BY <1>1
<1>3. \A i \in (n + 1)..Len(o) : i \in 1..Len(o)
  BY <1>1
<1>. QED BY <1>1, <1>2, <1>3

LEMMA FrameStep ==
  ASSUME WizardAssumption, WizInv, NEW a, Calm(w, a), Frame(a), msgs' \in Scans
  PROVE  WizInv'
<1>1. PICK n \in 0..Len(out) :
        LET got == SubSeq(out, 1, n) IN
        \E b \in {IF Running(a) THEN PumpInstall(a, Pump(a.install, got), got) ELSE a} :
          LET new == Running(a) /\ ~Running(b) /\ b.install.outcome = "ok"
              c   == IF new THEN "running" ELSE cons
          IN /\ w' = PumpBuild(b, c)
             /\ out' = SubSeq(out, n + 1, Len(out))
             /\ cons' = IF BuildEnded(b, c) THEN "none" ELSE c
             /\ left' = IF new THEN Dropped ELSE left
             /\ script' = IF Ends(got) THEN NoScript ELSE script
             /\ UNCHANGED <<world, used>>
  BY DEF Frame
<1>. DEFINE got == SubSeq(out, 1, n)
            rest == SubSeq(out, n + 1, Len(out))
            q == Pump(a.install, got)
            b == IF Running(a) THEN PumpInstall(a, q, got) ELSE a
<1>2. PICK c : w' = PumpBuild(b, c)
  BY <1>1
<1>3. out' = rest /\ script' = (IF Ends(got) THEN NoScript ELSE script) /\ world' = world
  BY <1>1
<1>4. /\ out \in Seq(Markers \cup Exits) /\ got \in Seq(Markers \cup Exits) /\ rest \in Seq(Markers \cup Exits)
      /\ Len(out) \in Nat /\ n \in Nat /\ n <= Len(out) /\ Len(got) = n /\ Len(rest) = Len(out) - n
      /\ \A i \in 1..n : got[i] = out[i]
      /\ \A i \in 1..(Len(out) - n) : rest[i] = out[n + i]
  BY SplitIs DEF WizInv, Types
<1>5. a \in Windows /\ w \in Windows /\ a.install = w.install /\ a.install \in Runs
      /\ a.build = w.build /\ (Running(a) <=> Running(w)) /\ world \in Worlds
  BY DEF Calm, WizInv, Types, Windows, Running
<1>. HIDE DEF rest
<1>6. CASE ~Running(w)
  <2>1. out = <<>>
    BY <1>6 DEF WizInv, Said
  <2>2. n = 0 /\ rest = out /\ ~Ends(got)
    BY <1>4, <2>1 DEF Ends
  <2>3. b = a
    BY <1>5, <1>6
  <2>4. AlmostCalm(a, w')
    BY <1>2, <1>5, <2>3, PumpBuildIs
  <2>5. AlmostCalm(w, w')
    BY <2>4, CalmIsAlmost
  <2>6. UNCHANGED <<script, out, world>>
    BY <1>3, <2>2
  <2>. QED BY <1>5, <2>5, <2>6, CalmStep
<1>7. CASE Running(w)
  <2>1. b = PumpInstall(a, q, got)
    BY <1>5, <1>7
  <2>2. ExitLast(got)
    <3>1. \A i \in 1..n : i \in 1..Len(out)
      BY <1>4
    <3>. QED BY <1>4, <3>1 DEF WizInv, Said, ExitLast
  <2>. HIDE DEF got
  <2>3. /\ q \in Runs /\ q.st = (IF Ends(got) THEN "ended" ELSE a.install.st)
        /\ ~Ends(got) => q.outcome = a.install.outcome
        /\ Ends(got) => /\ q.outcome \in Outcomes
                        /\ q.outcome = "unchanged" =>
                             \A s \in SectionNames \ {"source"} : q.section[s] = "Pending"
        /\ \A s \in SectionNames : /\ Begun(a.install, got, s) => q.section[s] # "Pending"
                                   /\ q.section[s] \in Over => Past(a.install, got, s)
    BY <1>4, <1>5, <2>2, PumpIs
  <2>. HIDE DEF q
  <2>4. /\ b \in Windows /\ b.install = q /\ Shows(b)
        /\ ~Ends(got) => b.build = a.build
    BY <1>4, <1>5, <2>1, <2>3, PumpInstallIs
  <2>. HIDE DEF b
  <2>5. AlmostCalm(b, w')
    BY <1>2, <2>4, PumpBuildIs
  <2>6. /\ w' \in Windows /\ w'.install = q /\ Shows(w')
        /\ ~Ends(got) /\ w'.build \in LiveBuild => w.build \in LiveBuild
    BY <1>5, <2>4, <2>5, CalmShows DEF AlmostCalm
  <2>7. Shows(w)'
    BY <2>6 DEF Shows, Running
  <2>8. \A s \in SectionNames : Begun(w.install, out, s) => Begun(q, rest, s)
    <3>. TAKE s \in SectionNames
    <3>1. CASE w.install.section[s] # "Pending"
      BY <1>5, <2>3, <3>1 DEF Begun
    <3>2. ASSUME NEW i \in 1..Len(out), out[i] \in Markers, out[i].s = s PROVE Begun(q, rest, s)
      <4>1. CASE i \in 1..n
        BY <1>4, <2>3, <3>2, <4>1 DEF Begun
      <4>2. CASE i \notin 1..n
        <5>1. i - n \in 1..(Len(out) - n) /\ n + (i - n) = i
          BY <1>4, <4>2
        <5>2. rest[i - n] = out[i]
          BY <1>4, <5>1
        <5>. QED BY <1>4, <3>2, <5>1, <5>2 DEF Begun
      <4>. QED BY <4>1, <4>2
    <3>. QED BY <3>1, <3>2 DEF Begun
  <2>9. \A s \in SectionNames : Past(q, rest, s) => Past(w.install, out, s)
    <3>. TAKE s \in SectionNames
    <3>1. \A i \in 1..n : i \in 1..Len(out)
      BY <1>4
    <3>2. \A i \in 1..(Len(out) - n) : n + i \in 1..Len(out)
      BY <1>4
    <3>3. Past(w.install, got, s) => Past(w.install, out, s)
      BY <1>4, <3>1 DEF Past
    <3>4. q.section[s] \in Over => Past(w.install, out, s)
      BY <1>5, <2>3, <3>3
    <3>5. (\E i \in 1..Len(rest) : rest[i] \in Markers /\ rest[i].s = s /\ rest[i].status \in Over)
            => Past(w.install, out, s)
      BY <1>4, <3>2 DEF Past
    <3>. QED BY <3>4, <3>5 DEF Past
  <2>10. CASE ~Ends(got)
    <3>1. script' = script /\ q.st = "running" /\ q.outcome = "none" /\ Running(w')
      BY <1>3, <1>5, <1>7, <2>3, <2>6, <2>10 DEF WizInv, Said, Running
    <3>2. Types'
      BY <1>3, <1>4, <2>6, <3>1 DEF WizInv, Types
    <3>3. ExitLast(rest) /\ ((\E i \in 1..Len(rest) : rest[i] \in Exits) => script.st = "gone")
      <4>1. \A i \in 1..(Len(out) - n) : n + i \in 1..Len(out) /\ (n + i = Len(out) => i = Len(out) - n)
        BY <1>4
      <4>2. \A i \in 1..(Len(out) - n) : rest[i] = out[n + i]
        BY <1>4
      <4>3. /\ \A j \in 1..Len(out) : out[j] \in Exits => j = Len(out)
            /\ (\E j \in 1..Len(out) : out[j] \in Exits) => script.st = "gone"
        BY DEF WizInv, Said, ExitLast
      <4>4. \A i \in 1..(Len(out) - n) :
              rest[i] \in Exits => i = Len(out) - n /\ script.st = "gone"
        BY <4>1, <4>2, <4>3
      <4>. QED BY <1>4, <4>4 DEF ExitLast
    <3>4. script.st = "asking" => rest = <<>> /\ script.at = 0 /\ ~script.inside
      <4>. SUFFICES ASSUME script.st = "asking" PROVE rest = <<>> /\ script.at = 0 /\ ~script.inside
        OBVIOUS
      <4>1. out = <<>> /\ script.at = 0 /\ ~script.inside
        BY DEF WizInv, Said
      <4>2. Len(rest) = 0
        BY <1>4, <4>1
      <4>. QED BY <1>4, <4>1, <4>2
    <3>5. Said'
      BY <1>3, <1>7, <2>6, <3>1, <3>3, <3>4 DEF WizInv, Said, Running
    <3>6. Followed'
      <4>1. /\ script.inside => Begun(w.install, out, Here) /\ Here \in SectionNames
            /\ world.changed => \E s \in SectionNames \ {"source"} : Begun(w.install, out, s)
            /\ \A s \in SectionNames :
                 Past(w.install, out, s) => \E i \in 1..script.at : Sections[i] = s
        <5>1. script.inside => script.at + 1 \in 1..Len(Sections)
          BY SectionsAre DEF WizInv, Types, Scripts
        <5>. QED BY <1>7, <5>1, SectionsAre DEF WizInv, Followed, Here
      <4>2. Here' = Here
        BY <3>1 DEF Here
      <4>3. /\ script.inside => Begun(q, rest, Here)
            /\ world.changed => \E s \in SectionNames \ {"source"} : Begun(q, rest, s)
            /\ \A s \in SectionNames :
                 Past(q, rest, s) => \E i \in 1..script.at : Sections[i] = s
        BY <2>8, <2>9, <4>1
      <4>. QED BY <1>3, <2>6, <3>1, <4>2, <4>3 DEF Followed
    <3>7. ClaimIsTrue' /\ BuiltAfterDriver'
      BY <1>7, <2>6, <2>10, <3>1 DEF WizInv, ClaimIsTrue, BuiltAfterDriver, Running
    <3>. QED BY <2>7, <3>2, <3>5, <3>6, <3>7 DEF WizInv
  <2>11. CASE Ends(got)
    <3>1. script' = NoScript /\ q.st = "ended" /\ ~Running(w')
      BY <1>3, <2>3, <2>6, <2>11 DEF Running
    <3>2. n = Len(out)
      <4>1. PICK i \in 1..n : got[i].k = "exit"
        BY <1>4, <2>11 DEF Ends
      <4>2. i \in 1..Len(out) /\ out[i] \in Exits
        BY <1>4, <4>1, MessagesAre
      <4>3. i = Len(out)
        BY <4>2 DEF WizInv, Said, ExitLast
      <4>. QED BY <1>4, <4>3
    <3>3. rest = <<>> /\ got \in Seq(Markers \cup Exits) /\ Len(got) = Len(out)
          /\ \A i \in 1..Len(out) : got[i] = out[i]
      BY <1>4, <3>2
    <3>4. NoScript \in Scripts /\ ~NoScript.inside /\ NoScript.st = "none"
      BY SectionsAre DEF NoScript, Scripts
    <3>5. Types' /\ Said'
      BY <1>3, <1>4, <2>6, <3>1, <3>3, <3>4 DEF WizInv, Types, Said, ExitLast
    <3>6. Followed' /\ BuiltAfterDriver'
      BY <3>1 DEF Followed, BuiltAfterDriver
    <3>7. ClaimIsTrue'
      <4>. SUFFICES ASSUME q.outcome = "unchanged", world.changed PROVE FALSE
        BY <1>3, <2>6 DEF ClaimIsTrue
      <4>1. PICK s \in SectionNames \ {"source"} : Begun(w.install, out, s)
        BY <1>7 DEF WizInv, Followed
      <4>2. Begun(a.install, got, s)
        BY <1>5, <3>3, <4>1 DEF Begun
      <4>. QED BY <2>3, <2>11, <4>2
    <3>. QED BY <2>7, <3>5, <3>6, <3>7 DEF WizInv
  <2>. QED BY <2>10, <2>11
<1>. QED BY <1>6, <1>7

------------------------------------------------------------------------------
\* The script's steps.

\* A script that is there is read by a run that has not ended.
LEMMA ScriptRuns ==
  ASSUME WizInv, script.st # "none"
  PROVE  Running(w) /\ w.install.outcome = "none"
BY DEF WizInv, Said, NoScript

LEMMA AppendIs ==
  ASSUME NEW S, NEW o \in Seq(S), NEW m \in S
  PROVE  /\ Append(o, m) \in Seq(S) /\ Len(Append(o, m)) = Len(o) + 1 /\ Len(o) \in Nat
         /\ Append(o, m)[Len(o) + 1] = m
         /\ \A i \in 1..Len(o) : Append(o, m)[i] = o[i]
OBVIOUS

\* The script says one thing more, and may have come further.
LEMMA SaysStep ==
  ASSUME WizardAssumption, WizInv, script.st \notin {"none", "gone"}, UNCHANGED <<w, msgs, world>>,
         NEW m \in Markers \cup Exits, out' = Append(out, m),
         script' \in Scripts, script'.st \notin {"none", "asking"},
         m \in Exits => script'.st = "gone",
         script'.inside => script'.at < Len(Sections) /\ Here' \in SectionNames,
         script'.inside => (m \in Markers /\ m.s = Here') \/ (script.inside /\ Here' = Here),
         script'.at >= script.at, script'.at = script.at \/ script.at < Len(Sections),
         m \in Markers /\ m.status \in Over => \E i \in 1..script'.at : Sections[i] = m.s
  PROVE  WizInv'
<1>. DEFINE L == Len(out)
            o == Append(out, m)
<1>1. Running(w) /\ w.install.outcome = "none"
  BY ScriptRuns
<1>2. /\ o \in Seq(Markers \cup Exits) /\ Len(o) = L + 1 /\ L \in Nat /\ o[L + 1] = m
      /\ \A i \in 1..L : o[i] = out[i]
  <2>. DEFINE S == Markers \cup Exits
  <2>1. out \in Seq(S)
    BY DEF WizInv, Types
  <2>. HIDE DEF S
  <2>2. m \in S
    BY DEF S
  <2>. QED BY <2>1, <2>2, AppendIs DEF S
<1>3. out' = o
  OBVIOUS
<1>. HIDE DEF o
<1>4. \A i \in 1..(L + 1) : i \in 1..L \/ i = L + 1
  BY <1>2
<1>5. L + 1 \in 1..(L + 1) /\ \A i \in 1..L : i \in 1..(L + 1)
  BY <1>2
<1>6. \A i \in 1..L : out[i] \notin Exits
  BY DEF WizInv, Said
<1>7. Types'
  BY <1>2, <1>3 DEF WizInv, Types
<1>8. Said'
  <2>1. ExitLast(o) /\ ((\E i \in 1..Len(o) : o[i] \in Exits) => m \in Exits)
    BY <1>2, <1>4, <1>6 DEF ExitLast
  <2>. QED BY <1>1, <1>3, <2>1 DEF Said, Running
<1>9. \A s \in SectionNames : Begun(w.install, out, s) \/ (m \in Markers /\ m.s = s) => Begun(w.install, o, s)
  BY <1>2, <1>5 DEF Begun
<1>10. \A s \in SectionNames :
         Past(w.install, o, s) => Past(w.install, out, s) \/ (m \in Markers /\ m.s = s /\ m.status \in Over)
  BY <1>2, <1>4 DEF Past
<1>11. Followed'
  <2>1. script'.inside => Begun(w.install, o, Here')
    <3>. SUFFICES ASSUME script'.inside PROVE Begun(w.install, o, Here')
      OBVIOUS
    <3>1. script.inside => Begun(w.install, out, Here)
      BY <1>1 DEF WizInv, Followed
    <3>2. Begun(w.install, out, Here') \/ (m \in Markers /\ m.s = Here')
      BY <3>1
    <3>. QED BY <1>9, <3>2
  <2>2. world.changed => \E s \in SectionNames \ {"source"} : Begun(w.install, o, s)
    BY <1>1, <1>9 DEF WizInv, Followed
  <2>3. \A s \in SectionNames : Past(w.install, o, s) => \E i \in 1..script'.at : Sections[i] = s
    <3>. TAKE s \in SectionNames
    <3>1. script.at \in Nat /\ script'.at \in Nat /\ \A i \in 1..script.at : i \in 1..script'.at
      BY SectionsAre DEF WizInv, Types, Scripts
    <3>2. Past(w.install, out, s) => \E i \in 1..script.at : Sections[i] = s
      BY <1>1 DEF WizInv, Followed
    <3>. QED BY <1>10, <3>1, <3>2
  <2>. QED BY <1>3, <2>1, <2>2, <2>3 DEF Followed
<1>12. Shows(w)'
  BY DEF WizInv, Shows, Running
<1>13. ClaimIsTrue' /\ BuiltAfterDriver'
  BY <1>1, SectionsAre DEF WizInv, Types, Scripts, ClaimIsTrue, BuiltAfterDriver, Running
<1>. QED BY <1>7, <1>8, <1>11, <1>12, <1>13 DEF WizInv

LEMMA MarkerIs ==
  ASSUME NEW s \in SectionNames, NEW t \in Statuses \ {"Pending"}
  PROVE  /\ Marker(s, t) \in Markers /\ Marker(s, t).s = s /\ Marker(s, t).status = t
         /\ Marker(s, t) \notin Exits
BY DEF Markers, Exits, Marker, Exit

\* The section that is begun next.
LEMMA HereIs ==
  ASSUME WizardAssumption, WizInv, script.at < Len(Sections)
  PROVE  /\ script \in Scripts /\ script.at \in Nat /\ script.at + 1 \in 0..Len(Sections)
         /\ script.at + 1 \in 1..(script.at + 1) /\ script.at + 1 >= script.at
         /\ Here \in SectionNames /\ Sections[script.at + 1] = Here
<1>1. script \in Scripts /\ script.at \in Nat /\ script.at + 1 \in 1..Len(Sections)
  BY SectionsAre DEF WizInv, Types, Scripts
<1>. QED BY <1>1, SectionsAre DEF Here

LEMMA ExitStep ==
  ASSUME WizardAssumption, WizInv, NEW code \in {"ok", "failed"}, ExitSent(code), ScriptOnly,
         UNCHANGED world, script.st \notin {"none", "gone"}
  PROVE  WizInv'
<1>1. Exit(code) \in Exits /\ Exit(code) \notin Markers
  <2>1. Exit(code) \in Exits
    BY DEF Exits
  <2>2. Exit(code).k = "exit"
    BY DEF Exit
  <2>. QED BY <2>1, <2>2, MessagesAre
<1>2. script \in Scripts /\ script' = [script EXCEPT !.st = "gone"] /\ out' = Append(out, Exit(code))
  BY DEF WizInv, Types, ExitSent, Prints
<1>3. script' \in Scripts /\ script'.st = "gone" /\ script'.at = script.at /\ script'.inside = script.inside
      /\ script.at \in Nat
  BY <1>2, SectionsAre DEF Scripts
<1>4. Here' = Here
  BY <1>3 DEF Here
<1>5. script.inside => script.at < Len(Sections)
  BY DEF WizInv, Types
<1>6. UNCHANGED <<w, msgs, world>>
  BY DEF ScriptOnly
<1>7. script'.inside => script'.at < Len(Sections) /\ Here' \in SectionNames
  BY <1>3, <1>4, <1>5, HereIs
<1>8. script'.at >= script.at
  BY <1>3
<1>10. script'.inside => script.inside /\ Here' = Here
  BY <1>3, <1>4
<1>. DEFINE m == Exit(code)
<1>. HIDE DEF m
<1>9. m \in Exits /\ m \notin Markers /\ out' = Append(out, m)
  BY <1>1, <1>2 DEF m
<1>. QED BY <1>3, <1>4, <1>6, <1>7, <1>8, <1>9, <1>10, SaysStep

LEMMA ScriptStep == ASSUME WizardAssumption, WizInv, Script PROVE WizInv'
<1>1. w \in Windows /\ script \in Scripts /\ msgs \in Scans /\ world \in Worlds
  BY DEF WizInv, Types
<1>2. CASE Authorized
  <2>1. script.st = "asking" /\ script' = [script EXCEPT !.st = "running"]
        /\ UNCHANGED <<w, msgs, out, world>>
    BY <1>2 DEF Authorized, ScriptOnly
  <2>2. script' \in Scripts /\ script'.st = "running" /\ script'.at = script.at
        /\ script'.inside = script.inside
    BY <1>1, <2>1 DEF Scripts
  <2>3. Running(w) /\ w.install.outcome = "none" /\ w.build \notin LiveBuild
    BY <2>1, ScriptRuns DEF WizInv, BuiltAfterDriver
  <2>4. Types' /\ ClaimIsTrue' /\ BuiltAfterDriver' /\ Shows(w)'
    BY <2>1, <2>2, <2>3 DEF WizInv, Types, ClaimIsTrue, BuiltAfterDriver, Shows, Running
  <2>5. Said'
    BY <2>1, <2>2, <2>3 DEF WizInv, Said, Running
  <2>6. Followed'
    BY <2>1, <2>2 DEF WizInv, Followed, Running, Here
  <2>. QED BY <2>4, <2>5, <2>6 DEF WizInv
<1>3. CASE Refused
  <2>1. script.st = "asking" /\ ExitSent("failed") /\ ScriptOnly /\ UNCHANGED world
    BY <1>3 DEF Refused
  <2>. QED BY <2>1, ExitStep
<1>4. CASE SectionStarts
  <2>1. script.st = "running" /\ ~script.inside /\ script.at < Len(Sections) /\ UNCHANGED <<w, msgs, world>>
    BY <1>4 DEF SectionStarts, ScriptOnly
  <2>2. CASE script' = [script EXCEPT !.inside = TRUE] /\ Prints(Marker(Here, "Running"))
    <3>. DEFINE m == Marker(Here, "Running")
    <3>1. m \in Markers /\ m \notin Exits /\ m.s = Here /\ m.status \notin Over
      BY <2>1, HereIs, MarkerIs DEF Statuses, Over
    <3>2. out' = Append(out, m)
      BY <2>2 DEF Prints
    <3>. HIDE DEF m
    <3>3. script' \in Scripts /\ script'.st = "running" /\ script'.at = script.at /\ script'.at >= script.at
      <4>1. script' \in Scripts /\ script'.st = "running" /\ script'.at = script.at
        BY <1>1, <2>1, <2>2 DEF Scripts
      <4>. QED BY <2>1, <4>1, HereIs
    <3>4. Here' = Here
      BY <3>3 DEF Here
    <3>5. Here \in SectionNames
      BY <2>1, HereIs
    <3>. QED BY <2>1, <3>1, <3>2, <3>3, <3>4, <3>5, SaysStep
  <2>3. CASE Here = "remove" /\ script' = [script EXCEPT !.at = @ + 1] /\ Prints(Marker("remove", "Skipped"))
    <3>. DEFINE m == Marker(Here, "Skipped")
    <3>1. m \in Markers /\ m \notin Exits /\ m.s = Here
      BY <2>1, HereIs, MarkerIs DEF Statuses
    <3>2. out' = Append(out, m)
      BY <2>3 DEF Prints
    <3>. HIDE DEF m
    <3>3. script' \in Scripts /\ script'.st = "running" /\ script'.at = script.at + 1 /\ ~script'.inside
      BY <2>1, <2>3, HereIs DEF Scripts
    <3>4. \E i \in 1..script'.at : Sections[i] = m.s
      BY <2>1, <3>1, <3>3, HereIs
    <3>5. script'.at >= script.at
      BY <2>1, <3>3, HereIs
    <3>. QED BY <2>1, <3>1, <3>2, <3>3, <3>4, <3>5, SaysStep
  <2>. QED BY <1>4, <2>2, <2>3 DEF SectionStarts
<1>5. CASE SectionWorks
  <2>1. /\ script.st = "running" /\ script.inside /\ Here # "source"
        /\ world' = [world EXCEPT !.changed = TRUE, !.console = @ /\ Here # "remove"]
        /\ UNCHANGED <<w, msgs, script, out>>
    BY <1>5 DEF SectionWorks, ScriptOnly
  <2>2. world' \in Worlds /\ world'.changed
    <3>. DEFINE z == world.console /\ Here # "remove"
    <3>1. world' = [world EXCEPT !.changed = TRUE, !.console = z] /\ z \in BOOLEAN
      BY <1>1, <2>1 DEF Worlds
    <3>. HIDE DEF z
    <3>. QED BY <1>1, <3>1 DEF Worlds
  <2>3. Running(w) /\ w.install.outcome = "none"
    BY <2>1, ScriptRuns
  <2>4. Here \in SectionNames \ {"source"} /\ Begun(w.install, out, Here)
    BY <2>1, <2>3, HereIs DEF WizInv, Types, Followed
  <2>5. Types' /\ Said' /\ ClaimIsTrue' /\ BuiltAfterDriver' /\ Shows(w)'
    BY <2>1, <2>2, <2>3 DEF WizInv, Types, Said, ClaimIsTrue, BuiltAfterDriver, Shows, Running
  <2>6. Here' = Here
    BY <2>1 DEF Here
  <2>7. Followed'
    BY <2>1, <2>3, <2>4, <2>6 DEF WizInv, Followed, Running
  <2>. QED BY <2>5, <2>7 DEF WizInv
<1>6. CASE SectionSucceeds
  <2>1. script.st = "running" /\ script.inside /\ UNCHANGED <<w, msgs, world>>
        /\ script' = [script EXCEPT !.at = @ + 1, !.inside = FALSE] /\ Prints(Marker(Here, "Done"))
    BY <1>6 DEF SectionSucceeds, ScriptOnly
  <2>2. script.at < Len(Sections)
    BY <2>1 DEF WizInv, Types
  <2>. DEFINE m == Marker(Here, "Done")
  <2>3. m \in Markers /\ m \notin Exits /\ m.s = Here
    BY <2>2, HereIs, MarkerIs DEF Statuses
  <2>4. out' = Append(out, m)
    BY <2>1 DEF Prints
  <2>. HIDE DEF m
  <2>5. script' \in Scripts /\ script'.st = "running" /\ script'.at = script.at + 1 /\ ~script'.inside
    BY <2>1, <2>2, HereIs DEF Scripts
  <2>6. \E i \in 1..script'.at : Sections[i] = m.s
    BY <2>2, <2>3, <2>5, HereIs
  <2>7. script'.at >= script.at
    BY <2>2, <2>5, HereIs
  <2>. QED BY <2>1, <2>2, <2>3, <2>4, <2>5, <2>6, <2>7, SaysStep
<1>7. CASE SectionFails
  <2>1. script.st = "running" /\ script.inside /\ UNCHANGED <<w, msgs, world>>
        /\ script' = [script EXCEPT !.st = "failing", !.inside = FALSE] /\ Prints(Marker(Here, "Failed"))
    BY <1>7 DEF SectionFails, ScriptOnly
  <2>2. script.at < Len(Sections)
    BY <2>1 DEF WizInv, Types
  <2>. DEFINE m == Marker(Here, "Failed")
  <2>3. m \in Markers /\ m \notin Exits /\ m.status \notin Over
    BY <2>2, HereIs, MarkerIs DEF Statuses, Over
  <2>4. out' = Append(out, m)
    BY <2>1 DEF Prints
  <2>. HIDE DEF m
  <2>5. script' \in Scripts /\ script'.st = "failing" /\ script'.at = script.at /\ ~script'.inside
    BY <1>1, <2>1 DEF Scripts
  <2>6. script'.at >= script.at
    BY <2>2, <2>5, HereIs
  <2>. QED BY <2>1, <2>3, <2>4, <2>5, <2>6, SaysStep
<1>8. CASE ScriptEnds
  <2>1. PICK code \in {"ok", "failed"} : ExitSent(code)
    BY <1>8 DEF ScriptEnds
  <2>2. script.st \in {"running", "failing"} /\ ScriptOnly /\ UNCHANGED world
    BY <1>8 DEF ScriptEnds
  <2>. QED BY <2>1, <2>2, ExitStep
<1>. QED BY <1>2, <1>3, <1>4, <1>5, <1>6, <1>7, <1>8 DEF Script

------------------------------------------------------------------------------
\* The user's steps.

LEMMA StartInstallStep == ASSUME WizardAssumption, WizInv, StartInstall PROVE WizInv'
<1>1. /\ ~Running(w) /\ w' = Started(w) /\ UNCHANGED <<out, msgs>>
      /\ script' = [NoScript EXCEPT !.st = "asking", !.mounts = ~FolderFound(w)]
      /\ world' = [world EXCEPT !.changed = FALSE]
  BY DEF StartInstall, PlanOk
<1>2. w \in Windows /\ world \in Worlds /\ out = <<>>
  BY <1>1 DEF WizInv, Types, Said
<1>3. world' \in Worlds /\ ~world'.changed
  BY <1>1, <1>2 DEF Worlds
<1>4. script' \in Scripts /\ script'.st = "asking" /\ script'.at = 0 /\ ~script'.inside
  <2>. DEFINE z == ~FolderFound(w)
  <2>1. script' = [st |-> "asking", at |-> 0, inside |-> FALSE, mounts |-> z]
    BY <1>1 DEF NoScript
  <2>2. z \in BOOLEAN /\ 0 \in 0..Len(Sections)
    BY SectionsAre DEF FolderFound
  <2>. HIDE DEF z
  <2>. QED BY <2>1, <2>2 DEF Scripts
<1>5. /\ NewRun("running") \in Runs /\ NewRun("running").st = "running" /\ NewRun("running").outcome = "none"
      /\ \A s \in SectionNames : NewRun("running").section[s] = "Pending"
  BY DEF NewRun, Runs, Statuses
<1>6. /\ w' \in Windows /\ w'.install = NewRun("running") /\ w'.build = "none"
      /\ \A p \in Pages \ {"Review"} : w'.status[p] = "Pending"
  <2>. DEFINE t == [p \in Steps |-> IF p \in {"Remove", "Import", "Firmware", "Driver", "Console"}
                                    THEN "Pending" ELSE w.status[p]]
              c == [w EXCEPT !.status = t]
              u == [c.status EXCEPT !["Review"] = "Running"]
              d == [c EXCEPT !.status = u]
  <2>1. w.status \in [Steps -> Statuses]
    BY <1>2 DEF Windows
  <2>2. t \in [Steps -> Statuses] /\ \A p \in Pages \ {"Review"} : t[p] = "Pending"
    BY <2>1, PagesAre DEF Statuses, Pages
  <2>3. c \in Windows /\ c.status = t
    BY <1>2, <2>2 DEF Windows
  <2>4. w' = [d EXCEPT !.build = "none", !.daemon = FALSE, !.restart = FALSE, !.follow = TRUE,
                       !.install = NewRun("running")]
    BY <1>1 DEF Started, Set, SetAll
  <2>. HIDE DEF t, c
  <2>5. u \in [Steps -> Statuses] /\ \A p \in Pages \ {"Review"} : u[p] = "Pending"
    <3>1. u = [t EXCEPT !["Review"] = "Running"] /\ "Running" \in Statuses /\ Pages \subseteq Steps
      BY <2>3, PagesAre DEF Statuses
    <3>. HIDE DEF u
    <3>. QED BY <2>2, <3>1
  <2>. HIDE DEF u
  <2>6. d \in Windows /\ d.status = u
    BY <2>3, <2>5 DEF Windows
  <2>. HIDE DEF d
  <2>. DEFINE r == NewRun("running")
  <2>7. r \in Runs
    BY <1>5
  <2>. HIDE DEF r
  <2>8. w' = [d EXCEPT !.build = "none", !.daemon = FALSE, !.restart = FALSE, !.follow = TRUE,
                       !.install = r]
    BY <2>4 DEF r
  <2>9. w' \in Windows /\ w'.install = r /\ w'.build = "none" /\ w'.status = u
    BY <2>6, <2>7, <2>8 DEF Windows
  <2>. QED BY <2>5, <2>9 DEF r
<1>. HIDE DEF NewRun
<1>7. Types' /\ Said'
  BY <1>1, <1>2, <1>3, <1>4, <1>5, <1>6 DEF WizInv, Types, Said, ExitLast, Running
<1>8. Shows(w)'
  <2>1. \A s \in SectionNames \ {"source"} : Page[s] \in Pages \ {"Review"}
    BY SectionsAre, PagesAre
  <2>. QED BY <1>6, <2>1 DEF Shows
<1>9. Followed'
  BY <1>1, <1>2, <1>3, <1>4, <1>5, <1>6 DEF Followed, Past, Over
<1>10. ClaimIsTrue' /\ BuiltAfterDriver'
  BY <1>3, <1>6 DEF ClaimIsTrue, BuiltAfterDriver, LiveBuild
<1>. QED BY <1>7, <1>8, <1>9, <1>10 DEF WizInv

LEMMA SkipInstallStep == ASSUME WizardAssumption, WizInv, SkipInstall PROVE WizInv'
<1>. DEFINE S == {"Review", "Remove", "Import", "Firmware", "Driver"}
            t == [p \in Steps |-> IF p \in S THEN "Skipped" ELSE w.status[p]]
            c == [w EXCEPT !.status = t, !.follow = FALSE]
            b == Reach(c, "Console")
<1>1. w' = b /\ w.install.st = "none" /\ UNCHANGED <<script, out, world, msgs>>
  BY DEF SkipInstall, Clicks, Acts, SetAll
<1>2. w \in Windows /\ w.status \in [Steps -> Statuses]
  BY DEF WizInv, Types, Windows
<1>3. t \in [Steps -> Statuses] /\ \A p \in Pages : t[p] = "Skipped"
  BY <1>2, PagesAre DEF Statuses, Pages
<1>. HIDE DEF t
<1>4. c \in Windows /\ c.status = t /\ c.install = w.install
  BY <1>2, <1>3 DEF Windows
<1>. HIDE DEF c
<1>5. "Console" \in Steps
  BY StepsAre
<1>6. Calm(c, b)
  BY <1>4, <1>5, ReachCalm
<1>. HIDE DEF b
<1>7. w' \in Windows /\ w'.install = w.install /\ \A p \in Pages : w'.status[p] # "Done"
  BY <1>1, <1>3, <1>4, <1>6 DEF Calm, Over
<1>8. ~Running(w) /\ ~Running(w')
  BY <1>1, <1>7 DEF Running
<1>9. Types' /\ Said' /\ ClaimIsTrue'
  BY <1>1, <1>7, <1>8 DEF WizInv, Types, Said, ClaimIsTrue
<1>10. Shows(w)'
  <2>1. \A s \in SectionNames : Page[s] \in Pages
    BY SectionsAre, PagesAre
  <2>. QED BY <1>7, <1>8, <2>1 DEF Shows
<1>11. Followed' /\ BuiltAfterDriver'
  BY <1>8 DEF Followed, BuiltAfterDriver
<1>. QED BY <1>9, <1>10, <1>11 DEF WizInv

\* The Console is built where the driver's page has been passed: the driver's
\* section is the script's last, and the script is through it.
LEMMA StartConsoleStep == ASSUME WizardAssumption, WizInv, StartConsole PROVE WizInv'
<1>1. /\ Satisfied(w, "Driver") /\ w' = StartBuild(w) /\ UNCHANGED <<script, out, world, msgs>>
  BY DEF StartConsole, ConsoleAllowed, Acts
<1>2. w \in Windows
  BY DEF WizInv, Types
<1>3. /\ w' \in Windows /\ w'.install = w.install
      /\ \A p \in Pages : w'.status[p] = w.status[p]
  BY <1>1, <1>2, StartBuildIs
<1>4. Running(w) => script.st # "asking" /\ script.at = Len(Sections)
  <2>. SUFFICES ASSUME Running(w) PROVE script.st # "asking" /\ script.at = Len(Sections)
    OBVIOUS
  <2>1. "driver" \in SectionNames \ {"source"} /\ w.status[Page["driver"]] \in Over
    BY <1>1, SectionsAre, PagesAre DEF Satisfied, Over
  <2>2. w.install.section["driver"] \in Over
    BY <2>1 DEF WizInv, Shows, Over
  <2>3. Past(w.install, out, "driver")
    BY <2>2 DEF Past
  <2>4. PICK i \in 1..script.at : Sections[i] = "driver"
    BY <2>1, <2>3 DEF WizInv, Followed
  <2>5. script.at \in 0..Len(Sections) /\ Len(Sections) \in Nat
    BY SectionsAre DEF WizInv, Types, Scripts
  <2>6. i \in 1..Len(Sections) /\ Len(Sections) \in 1..Len(Sections)
    BY <2>5, SectionsAre
  <2>7. i = Len(Sections)
    BY <2>4, <2>6, SectionsAre
  <2>8. script.at = Len(Sections) /\ script.at # 0
    BY <2>5, <2>6, <2>7
  <2>. QED BY <2>8 DEF WizInv, Said
<1>5. Running(w') <=> Running(w)
  BY <1>3 DEF Running
<1>6. Types' /\ Said' /\ ClaimIsTrue' /\ BuiltAfterDriver'
  BY <1>1, <1>3, <1>4, <1>5 DEF WizInv, Types, Said, ClaimIsTrue, BuiltAfterDriver
<1>7. Followed'
  BY <1>1, <1>3, <1>5 DEF WizInv, Followed, Here
<1>8. Shows(w)'
  <2>1. \A s \in SectionNames : Page[s] \in Pages
    BY SectionsAre, PagesAre
  <2>. QED BY <1>3, <1>5, <2>1 DEF WizInv, Shows
<1>. QED BY <1>6, <1>7, <1>8 DEF WizInv

\* Of the user's steps three start something; the others leave the build alone.
CalmClick == Calm(w, w') /\ UNCHANGED <<script, out, cons, left, world, msgs>>

LEMMA UserIs ==
  ASSUME WizardAssumption, WizInv, User
  PROVE  CalmClick \/ StartInstall \/ SkipInstall \/ StartConsole
<1>1. w \in Windows /\ w.scan.found \subseteq Folders /\ w.reached \in DOMAIN Order
  BY DEF WizInv, Types, Windows, Scans
<1>2. /\ {"Find", "Console"} \subseteq Steps \ Pages
      /\ {"Done", "Skipped"} \subseteq Statuses
      /\ DOMAIN Order = 1..8 /\ Len(Order) = 8
  <2>1. Len(Order) = 8
    BY DEF Order
  <2>. QED BY <2>1, StepsAre DEF Statuses, Pages
<1>3. CASE Next1
  <2>. DEFINE n == w.reached + 1
  <2>1. w.reached < 8 /\ Clicks([w EXCEPT !.reached = n, !.follow = FALSE])
    BY <1>2, <1>3 DEF Next1
  <2>2. n \in DOMAIN Order
    BY <1>1, <1>2, <2>1
  <2>. HIDE DEF n
  <2>3. Calm(w, [w EXCEPT !.reached = n, !.follow = FALSE])
    BY <1>1, <2>2, PageCalm
  <2>. QED BY <2>1, <2>3 DEF Clicks, Acts, CalmClick
<1>4. CASE Navigate
  BY <1>1, <1>4, PageCalm DEF Navigate, Clicks, Acts, CalmClick
<1>5. CASE \E f \in w.scan.found : Select(f)
  <2>1. PICK f \in w.scan.found : Select(f)
    BY <1>5
  <2>2. Calm(w, SetSelection(w, f))
    BY <1>1, SetSelectionCalm
  <2>. QED BY <2>1, <2>2 DEF Select, Clicks, Acts, CalmClick
<1>6. CASE PickPartition
  BY <1>1, <1>6, SelectDeviceCalm DEF PickPartition, Clicks, Acts, CalmClick
<1>7. CASE SkipFind
  <2>. DEFINE b == Set(w, "Find", "Skipped")
  <2>1. Calm(w, b) /\ b \in Windows
    BY <1>1, <1>2, SetCalm DEF Calm
  <2>2. Clicks(Invalidate(b))
    BY <1>7 DEF SkipFind
  <2>. HIDE DEF b
  <2>3. Calm(w, Invalidate(b))
    BY <2>1, InvalidateCalm, CalmTwice
  <2>. QED BY <2>2, <2>3 DEF Clicks, Acts, CalmClick
<1>8. CASE Rescan
  BY <1>1, <1>8, StartScanCalm DEF Rescan, Acts, CalmClick
<1>9. CASE SkipConsole
  <2>1. Calm(w, Set(w, "Console", "Skipped"))
    BY <1>1, <1>2, SetCalm
  <2>. QED BY <1>9, <2>1 DEF SkipConsole, Clicks, Acts, CalmClick
<1>10. CASE Launch
  <2>1. Calm(w, Set(w, "Console", "Done"))
    BY <1>1, <1>2, SetCalm
  <2>. QED BY <1>10, <2>1 DEF Launch, Clicks, Acts, CalmClick
<1>. QED BY <1>3, <1>4, <1>5, <1>6, <1>7, <1>8, <1>9, <1>10 DEF User

LEMMA UserStep == ASSUME WizardAssumption, WizInv, User PROVE WizInv'
<1>1. CASE CalmClick
  <2>1. msgs' \in Scans /\ world' \in Worlds /\ AlmostCalm(w, w')
    BY <1>1, CalmIsAlmost DEF CalmClick, WizInv, Types
  <2>. QED BY <1>1, <2>1, CalmStep DEF CalmClick
<1>. QED BY <1>1, UserIs, StartInstallStep, SkipInstallStep, StartConsoleStep

------------------------------------------------------------------------------
\* Every step.

LEMMA InitHolds == ASSUME WizardAssumption, Init PROVE WizInv
<1>1. NoScript \in Scripts /\ ~NoScript.inside /\ NoScript.st = "none"
  BY SectionsAre DEF NoScript, Scripts
<1>2. NoScan \in Scans
  BY DEF NoScan, Scans
<1>3. NewRun("none") \in Runs /\ NewRun("none").st = "none" /\ NewRun("none").outcome = "none"
  BY DEF NewRun, Runs, Statuses
<1>4. DOMAIN Order = 1..8 /\ Pages \subseteq Steps /\ \A s \in SectionNames : Page[s] \in Pages
  BY StepsAre, SectionsAre, PagesAre
<1>. DEFINE t == [s \in Steps |-> IF s = "Find" THEN "Running" ELSE "Pending"]
            r == NewRun("none")
            c == NoScan
<1>5. t \in [Steps -> Statuses] /\ \A p \in Pages : t[p] = "Pending"
  BY <1>4 DEF Statuses, Pages
<1>6. w = [status |-> t, reached |-> 1, follow |-> FALSE, scanning |-> TRUE, scan |-> c,
           folder |-> Nothing, device |-> FALSE,
           install |-> r, build |-> "none", restart |-> FALSE, daemon |-> FALSE]
  BY DEF Init
<1>7. r \in Runs /\ c \in Scans /\ r.st = "none" /\ r.outcome = "none"
  BY <1>2, <1>3
<1>. HIDE DEF t, r, c
<1>8. w \in Windows /\ w.install = r /\ w.status = t
  BY <1>4, <1>5, <1>6, <1>7 DEF Windows
<1>9. world \in Worlds
  BY DEF Init, Worlds, WizardAssumption
<1>10. Types
  BY <1>1, <1>2, <1>8, <1>9 DEF Init, Types
<1>11. ~Running(w) /\ script = NoScript /\ out = <<>>
  BY <1>7, <1>8 DEF Init, Running
<1>12. Said
  BY <1>1, <1>11 DEF Said, ExitLast
<1>13. Shows(w)
  BY <1>4, <1>5, <1>8, <1>11 DEF Shows
<1>14. Followed /\ ClaimIsTrue /\ BuiltAfterDriver
  BY <1>7, <1>8, <1>11 DEF Followed, ClaimIsTrue, BuiltAfterDriver
<1>. QED BY <1>10, <1>12, <1>13, <1>14 DEF WizInv

LEMMA NextHolds == ASSUME WizardAssumption, WizInv, [Next]_vars PROVE WizInv'
<1>1. w \in Windows /\ msgs \in Scans /\ world \in Worlds
  BY DEF WizInv, Types
<1>2. Calm(w, w) /\ AlmostCalm(w, w)
  BY <1>1, CalmSelf, CalmIsAlmost
<1>3. CASE Tick
  BY <1>1, <1>2, <1>3, FrameStep DEF Tick
<1>4. CASE TickScanned
  <2>1. PICK pick \in Picks(w, msgs) : Frame(Scanned(w, msgs, pick))
    BY <1>4 DEF TickScanned
  <2>2. pick \in Folders \cup {Nothing}
    BY <1>1, PicksAre
  <2>3. Calm(w, Scanned(w, msgs, pick))
    BY <1>1, <2>2, ScannedCalm
  <2>4. msgs' \in Scans
    BY <1>4 DEF TickScanned, NoScan, Scans
  <2>. QED BY <2>1, <2>3, <2>4, FrameStep
<1>5. CASE Scan
  <2>1. PICK mounted \in MountedNow :
          msgs' = [found |-> world.folders \cup (IF mounted THEN {MountPoint} ELSE {}),
                   loose |-> ~mounted, any |-> TRUE]
    BY <1>5 DEF Scan
  <2>2. world.folders \cup (IF mounted THEN {MountPoint} ELSE {}) \in SUBSET Folders
    BY <1>1 DEF Worlds, Folders
  <2>3. msgs' \in Scans
    BY <2>1, <2>2 DEF Scans
  <2>4. w' = w /\ UNCHANGED <<script, out, world>>
    BY <1>5 DEF Scan
  <2>. QED BY <1>1, <1>2, <2>3, <2>4, CalmStep
<1>6. CASE BuildEnds \/ LeftEnds \/ UNCHANGED vars
  <2>1. w' = w /\ UNCHANGED <<script, out, world, msgs>>
    BY <1>6 DEF BuildEnds, LeftEnds, vars
  <2>. QED BY <1>1, <1>2, <2>1, CalmStep
<1>7. CASE BuildInstalls \/ LeftInstalls
  <2>1. w' = w /\ UNCHANGED <<script, out, msgs>> /\ world' = [world EXCEPT !.console = TRUE]
    BY <1>7 DEF BuildInstalls, LeftInstalls
  <2>2. world' \in Worlds /\ world'.changed = world.changed
    BY <1>1, <2>1 DEF Worlds
  <2>. QED BY <1>1, <1>2, <2>1, <2>2, CalmStep
<1>. QED BY <1>3, <1>4, <1>5, <1>6, <1>7, UserStep, ScriptStep DEF Next, Frames

THEOREM WizHolds == Spec => []WizInv
<1>1. Init => WizInv
  BY InitHolds, WizardAssumption
<1>2. WizInv /\ [Next]_vars => WizInv'
  BY NextHolds, WizardAssumption
<1>. QED BY <1>1, <1>2, PTL DEF Spec

------------------------------------------------------------------------------
\* The theorems.

\* "Nothing was changed on this computer" is never said when something was
\* (SetupRun::finish): a section that has changed something had printed its marker
\* before, and the exit comes after every marker, so that the run has taken it by
\* the time it looks whether a section was begun.
THEOREM ClaimTrue == Spec => []ClaimIsTrue
<1>1. WizInv => ClaimIsTrue
  BY DEF WizInv
<1>. QED BY <1>1, WizHolds, PTL

\* A page that shows Done stands for a section that this install has done: what
\* an earlier install left behind is reset when the next is started, and a stale
\* marker, a new scan or a change of the selection brings none back.
THEOREM DoneIsThisInstalls == Spec => []DoneByThisInstall
<1>1. WizInv => DoneByThisInstall
  BY DEF WizInv, Shows, DoneByThisInstall
<1>. QED BY <1>1, WizHolds, PTL

------------------------------------------------------------------------------
\* The Console and its files.

LEMMA FrameWatched ==
  ASSUME WizardAssumption, WizInv, Watched, NEW a, Calm(w, a), Frame(a)
  PROVE  Watched'
<1>1. PICK n \in 0..Len(out) :
        LET got == SubSeq(out, 1, n) IN
        \E b \in {IF Running(a) THEN PumpInstall(a, Pump(a.install, got), got) ELSE a} :
          LET new == Running(a) /\ ~Running(b) /\ b.install.outcome = "ok"
              c   == IF new THEN "running" ELSE cons
          IN /\ w' = PumpBuild(b, c)
             /\ out' = SubSeq(out, n + 1, Len(out))
             /\ cons' = IF BuildEnded(b, c) THEN "none" ELSE c
             /\ left' = IF new THEN Dropped ELSE left
             /\ script' = IF Ends(got) THEN NoScript ELSE script
             /\ UNCHANGED <<world, used>>
  BY DEF Frame
<1>. DEFINE got == SubSeq(out, 1, n)
            q == Pump(a.install, got)
            b == IF Running(a) THEN PumpInstall(a, q, got) ELSE a
            new == Running(a) /\ ~Running(b) /\ b.install.outcome = "ok"
            c == IF new THEN "running" ELSE cons
<1>2. w' = PumpBuild(b, c) /\ cons' = (IF BuildEnded(b, c) THEN "none" ELSE c) /\ world' = world
  BY <1>1
<1>3. /\ out \in Seq(Markers \cup Exits) /\ got \in Seq(Markers \cup Exits)
      /\ n \in Nat /\ n <= Len(out) /\ Len(got) = n /\ Len(out) \in Nat
      /\ \A i \in 1..n : got[i] = out[i]
  BY SplitIs DEF WizInv, Types
<1>4. a \in Windows /\ a.install \in Runs /\ a.build = w.build /\ a.install = w.install
  BY DEF Calm, Windows
<1>5. ExitLast(got)
  <2>1. \A i \in 1..n : i \in 1..Len(out)
    BY <1>3
  <2>. QED BY <1>3, <2>1 DEF WizInv, Said, ExitLast
<1>. HIDE DEF got
<1>6. b \in Windows /\ b.build = IF new THEN "running" ELSE w.build
  <2>1. CASE ~Running(a)
    BY <1>4, <2>1
  <2>2. CASE Running(a)
    <3>1. /\ q \in Runs /\ q.st = (IF Ends(got) THEN "ended" ELSE a.install.st)
      BY <1>3, <1>4, <1>5, <2>2, PumpIs DEF WizInv, Said, Running
    <3>. HIDE DEF q
    <3>2. b \in Windows /\ b.install = q
          /\ b.build = IF Ends(got) /\ q.outcome = "ok" THEN "running" ELSE a.build
      BY <1>3, <1>4, <2>2, <3>1, PumpInstallIs
    <3>3. new <=> Ends(got) /\ q.outcome = "ok"
      BY <2>2, <3>1, <3>2 DEF Running
    <3>. QED BY <1>4, <3>2, <3>3
  <2>. QED BY <2>1, <2>2
<1>. HIDE DEF q, b, new
<1>7. w'.build = IF BuildEnded(b, c) THEN c ELSE b.build
  BY <1>2, <1>6, PumpBuildIs
<1>8. CASE BuildEnded(b, c)
  <2>1. cons' = "none" /\ w'.build = c /\ c = cons
    BY <1>2, <1>7, <1>8 DEF BuildEnded
  <2>. QED BY <1>2, <2>1 DEF Watched, ConsoleIsThere
<1>9. CASE ~BuildEnded(b, c)
  <2>1. cons' = c /\ w'.build = b.build
    BY <1>2, <1>7, <1>9
  <2>. QED BY <1>2, <1>6, <2>1 DEF Watched, ConsoleIsThere
<1>. QED BY <1>8, <1>9

\* The one step that takes the Console away is the removal's, and the window
\* then watches no build and shows none.
LEMMA ScriptWatched ==
  ASSUME WizardAssumption, WizInv, Watched, Script
  PROVE  Watched'
<1>1. w' = w /\ cons' = cons
  BY DEF Script, Authorized, Refused, SectionStarts, SectionWorks, SectionSucceeds, SectionFails,
         ScriptEnds, ScriptOnly
<1>2. CASE SectionWorks
  <2>1. script.st = "running" /\ script.inside
    BY <1>2 DEF SectionWorks
  <2>2. Running(w) /\ script.at < Len(Sections)
    BY <2>1, ScriptRuns DEF WizInv, Types
  <2>3. script.at # Len(Sections)
    BY <2>2, HereIs, SectionsAre
  <2>4. w.build \notin LiveBuild
    BY <2>2, <2>3 DEF WizInv, BuiltAfterDriver
  <2>. QED BY <1>1, <2>4 DEF Watched, ConsoleIsThere, LiveBuild
<1>3. CASE ~SectionWorks
  <2>1. world' = world
    BY <1>3 DEF Script, Authorized, Refused, SectionStarts, SectionSucceeds, SectionFails, ScriptEnds
  <2>. QED BY <1>1, <2>1 DEF Watched, ConsoleIsThere
<1>. QED BY <1>2, <1>3

LEMMA UserWatched ==
  ASSUME WizardAssumption, WizInv, Watched, User
  PROVE  Watched'
<1>1. CASE CalmClick
  <2>1. w'.build = w.build /\ cons' = cons /\ world' = world
    BY <1>1 DEF CalmClick, Calm
  <2>. QED BY <2>1 DEF Watched, ConsoleIsThere
<1>2. CASE StartInstall
  <2>1. cons' = "none" /\ w' = Started(w)
    BY <1>2 DEF StartInstall
  <2>2. w'.build = "none"
    <3>. DEFINE d == Set(SetAll(w, {"Remove", "Import", "Firmware", "Driver", "Console"}, "Pending"),
                         "Review", "Running")
    <3>1. w \in Windows
      BY DEF WizInv, Types
    <3>2. w' = [d EXCEPT !.build = "none", !.daemon = FALSE, !.restart = FALSE, !.follow = TRUE,
                         !.install = NewRun("running")]
      BY <2>1 DEF Started
    <3>3. "build" \in DOMAIN d
      BY <3>1 DEF Set, SetAll, Windows
    <3>. HIDE DEF d
    <3>. QED BY <3>2, <3>3
  <2>. QED BY <2>1, <2>2 DEF Watched, ConsoleIsThere
<1>3. CASE SkipInstall
  <2>. DEFINE c == [SetAll(w, {"Review", "Remove", "Import", "Firmware", "Driver"}, "Skipped")
                      EXCEPT !.follow = FALSE]
  <2>1. w' = Reach(c, "Console") /\ cons' = cons /\ world' = world
    BY <1>3 DEF SkipInstall, Clicks, Acts
  <2>2. c.build = w.build
    BY DEF SetAll, WizInv, Types, Windows
  <2>. HIDE DEF c
  <2>3. w'.build = c.build
    BY <2>1 DEF Reach
  <2>. QED BY <2>1, <2>2, <2>3 DEF Watched, ConsoleIsThere
<1>4. CASE StartConsole
  <2>1. cons' = "running" /\ w' = StartBuild(w)
    BY <1>4 DEF StartConsole, Acts
  <2>2. w'.build = "running"
    BY <2>1, StartBuildIs DEF WizInv, Types
  <2>. QED BY <2>1, <2>2 DEF Watched, ConsoleIsThere
<1>. QED BY <1>1, <1>2, <1>3, <1>4, UserIs

LEMMA NextWatched == ASSUME WizardAssumption, WizInv, Watched, [Next]_vars PROVE Watched'
<1>1. w \in Windows /\ world \in Worlds
  BY DEF WizInv, Types
<1>2. CASE Tick
  BY <1>1, <1>2, CalmSelf, FrameWatched DEF Tick
<1>3. CASE TickScanned
  <2>1. PICK pick \in Picks(w, msgs) : Frame(Scanned(w, msgs, pick))
    BY <1>3 DEF TickScanned
  <2>2. msgs \in Scans
    BY DEF WizInv, Types
  <2>3. pick \in Folders \cup {Nothing}
    BY <1>1, <2>2, PicksAre
  <2>4. Calm(w, Scanned(w, msgs, pick))
    BY <1>1, <2>2, <2>3, ScannedCalm
  <2>. QED BY <2>1, <2>4, FrameWatched
<1>4. CASE Scan \/ LeftEnds \/ UNCHANGED vars
  <2>1. UNCHANGED <<w, cons, world>>
    BY <1>4 DEF Scan, LeftEnds, vars
  <2>. QED BY <2>1 DEF Watched, ConsoleIsThere
<1>5. CASE BuildInstalls \/ LeftInstalls
  <2>1. w' = w /\ (cons' = cons \/ (cons = "running" /\ cons' = "installed"))
        /\ world' = [world EXCEPT !.console = TRUE]
    BY <1>5 DEF BuildInstalls, LeftInstalls
  <2>2. world'.console
    BY <1>1, <2>1 DEF Worlds
  <2>. QED BY <2>1, <2>2 DEF Watched, ConsoleIsThere
<1>6. CASE BuildEnds
  <2>1. /\ UNCHANGED <<w, world>> /\ cons # "none"
        /\ cons' = "failed" \/ (cons = "installed" /\ cons' = "ok")
    BY <1>6 DEF BuildEnds, Building
  <2>. QED BY <2>1 DEF Watched, ConsoleIsThere
<1>. QED BY <1>2, <1>3, <1>4, <1>5, <1>6, ScriptWatched, UserWatched DEF Next, Frames

\* The Console that the window shows as built is on the computer, though the
\* builds of earlier presses go on unwatched: the button of its page is unlocked
\* by the driver's page, which is passed when the driver's marker has been taken,
\* the last of the script's, so that the removal is over when a build is watched,
\* and the next install takes the build off the page before its own removal.
THEOREM ConsoleStays == Spec => []ConsoleIsThere
<1>1. Init => Watched
  BY DEF Init, Watched, ConsoleIsThere
<1>2. WizInv /\ Watched /\ [Next]_vars => Watched'
  BY NextWatched, WizardAssumption
<1>3. Watched => ConsoleIsThere
  BY DEF Watched
<1>. QED BY <1>1, <1>2, <1>3, WizHolds, PTL DEF Spec

=============================================================================
