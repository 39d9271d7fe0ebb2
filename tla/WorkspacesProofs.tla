--------------------------- MODULE WorkspacesProofs ---------------------------
(***************************************************************************)
(* What holds of a user's workspaces for any number of workspaces,         *)
(* requests and threads, whatever is switched, uploaded and deleted between *)
(* two steps of a request or of a job.                                     *)
(*                                                                         *)
(* The argument: threads that execute jobs have a job each (TasksApart),   *)
(* so that what a profile job has compared with its workspace's resume is  *)
(* what it stores (StoresUploaded), and what a matching job saves comes    *)
(* from a profile its workspace had when the job began (MatchesHad).       *)
(***************************************************************************)
EXTENDS Workspaces, SequenceTheorems, FiniteSetTheorems, TLAPS

-----------------------------------------------------------------------------
(* The inductive invariant *)

\* OneActive without its count, and with the types of what it is about.
Placed ==
  /\ live \in Seq(Workspace) /\ IsInjective(live)
  /\ active \in SUBSET Workspace /\ early \in SUBSET Workspace /\ raced \in BOOLEAN
  /\ raced \/ /\ active \subseteq Live
              /\ \A v, w \in active : v = w
              /\ active = {} => Live \subseteq early

\* A request that deletes names a workspace, one that saves has a resume.
Names(d) ==
  /\ d.step \in {"deleting", "removing"} => d.ws \in Workspace
  /\ d.step = "saving" => d.resume \in Resume

DesksTyped ==
  /\ desk \in [Client -> DeskRow] /\ served \in 0..MaxRequests
  /\ \A c \in Client : Names(desk[c])

HomesTyped ==
  /\ prefs \in [Workspace -> Preference \cup {None}]
  /\ profile \in [Workspace -> ProfileRow]
  /\ match \in [Workspace -> [CorpusJob -> MatchRow]]
  /\ queue \in [Slot -> Job \cup {NoJob}]
  /\ task \in [Task -> TaskRow]
  /\ uploaded \in [Workspace -> SUBSET Resume]
  /\ had \in [Workspace -> SUBSET Text]
  /\ wiped \in SUBSET Task

Works(t) == ~Busy(t, "idle")

\* A thread at work has a job, which no other thread has, and a workspace.
TasksApart ==
  \A t \in Task : Works(t) =>
    /\ task[t].slot \in Slot /\ queue[task[t].slot] \in Job
    /\ task[t].ws \in Workspace
    /\ \A u \in Task \ {t} : Works(u) => task[u].slot # task[t].slot

\* What a job is about to store is the resume a request saved into its workspace.
StoresUploaded ==
  \A t \in Task : Busy(t, "storing") =>
    JobOf(t).resume \in uploaded[JobOf(t).home] \cup {None}

\* The profiles in the table, and those that matching jobs work with, are ones
\* that the workspace has had.
ProfilesHad == \A w \in Workspace : profile[w].extracted \in had[w]
Matches(t) == task[t].step \in {"preparing", "defaulting", "matching"}
MatchesHad ==
  \A t \in Task : Matches(t) => task[t].origin \in had[task[t].ws]

Homely ==
  /\ HomesTyped /\ TasksApart /\ StoresUploaded /\ ProfilesHad /\ MatchesHad
  /\ MatchesStayHome /\ ResumesStayHome /\ MatchingLeavesNoGaps

WorkspacesInv == Placed /\ DesksTyped /\ Homely

-----------------------------------------------------------------------------
(* The sequence of workspaces *)

LEMMA LiveAppended ==
  ASSUME NEW s \in Seq(Workspace), IsInjective(s), NEW w \in Workspace, w \notin ToSet(s)
  PROVE  /\ Append(s, w) \in Seq(Workspace) /\ IsInjective(Append(s, w))
         /\ ToSet(Append(s, w)) = ToSet(s) \cup {w}
<1> DEFINE a == Append(s, w)
<1>1. /\ a \in Seq(Workspace) /\ Len(a) = Len(s) + 1
      /\ \A i \in 1..Len(s) : a[i] = s[i]
      /\ a[Len(s) + 1] = w
  BY AppendProperties
<1>2. Len(s) \in Nat /\ DOMAIN s = 1..Len(s) /\ DOMAIN a = 1..(Len(s) + 1)
  BY <1>1, LenProperties
<1>3. \A i \in 1..Len(s) : s[i] \in ToSet(s)
  BY <1>2 DEF ToSet
<1> HIDE DEF a
<1>4. IsInjective(a)
  <2> SUFFICES ASSUME NEW i \in DOMAIN a, NEW j \in DOMAIN a, a[i] = a[j]  PROVE i = j
    BY DEF IsInjective
  <2>1. CASE i \in 1..Len(s) /\ j \in 1..Len(s)
    BY <2>1, <1>1, <1>2 DEF IsInjective
  <2>2. CASE i \notin 1..Len(s) \/ j \notin 1..Len(s)
    BY <2>2, <1>1, <1>2, <1>3
  <2> QED BY <2>1, <2>2
<1>5. ToSet(a) = ToSet(s) \cup {w}
  <2>1. ASSUME NEW x \in ToSet(a)  PROVE x \in ToSet(s) \cup {w}
    <3>1. PICK i \in DOMAIN a : x = a[i]
      BY DEF ToSet
    <3> QED BY <3>1, <1>1, <1>2, <1>3
  <2>2. ASSUME NEW x \in ToSet(s)  PROVE x \in ToSet(a)
    <3>1. PICK i \in DOMAIN s : x = s[i]
      BY DEF ToSet
    <3>2. i \in DOMAIN a /\ x = a[i]
      BY <3>1, <1>1, <1>2
    <3> QED BY <3>2 DEF ToSet
  <2>3. w \in ToSet(a)
    <3>1. Len(s) + 1 \in DOMAIN a
      BY <1>2
    <3> QED BY <3>1, <1>1 DEF ToSet
  <2> QED BY <2>1, <2>2, <2>3
<1> QED BY <1>1, <1>4, <1>5 DEF a

LEMMA LiveRemoved ==
  ASSUME NEW s \in Seq(Workspace), IsInjective(s), NEW w
  PROVE  /\ RemoveFirst(s, w) \in Seq(Workspace) /\ IsInjective(RemoveFirst(s, w))
         /\ ToSet(RemoveFirst(s, w)) = ToSet(s) \ {w}
<1>0. Len(s) \in Nat /\ DOMAIN s = 1..Len(s) /\ \A i \in 1..Len(s) : s[i] \in Workspace
  BY LenProperties, ElementOfSeq
<1>1. CASE ~ \E i \in 1..Len(s) : s[i] = w
  BY <1>0, <1>1 DEF RemoveFirst, ToSet
<1>2. CASE \E i \in 1..Len(s) : s[i] = w
  <2>1. PICK k \in 1..Len(s) : s[k] = w
    BY <1>2
  <2>2. {i \in 1..Len(s) : s[i] = w} = {k}
    BY <2>1, <1>0 DEF IsInjective
  <2>3. SelectInSeq(s, LAMBDA v : v = w) = k
    <3>1. SelectInSeq(s, LAMBDA v : v = w) = Min({i \in 1..Len(s) : s[i] = w})
      BY <2>2 DEF SelectInSeq
    <3>2. Min({k}) = k
      <4>1. k <= k /\ \A x \in {k} : x = k
        BY <2>1, <1>0
      <4> QED BY <4>1 DEF Min
    <3> QED BY <3>1, <3>2, <2>2
  <2> DEFINE f == SubSeq(s, 1, k - 1)
             g == SubSeq(s, k + 1, Len(s))
             h == f \o g
  <2>4. RemoveFirst(s, w) = h
    BY <1>2, <2>3 DEF RemoveFirst, RemoveAt
  <2>5. /\ f \in Seq(Workspace) /\ Len(f) = k - 1
        /\ \A i \in 1..(k - 1) : f[i] = s[i]
    <3>1. k - 1 \in Int /\ \A i \in 1..(k - 1) : s[i] \in Workspace
      BY <1>0
    <3>2. /\ f \in Seq(Workspace) /\ Len(f) = IF 1 <= k - 1 THEN k - 1 - 1 + 1 ELSE 0
          /\ \A i \in 1..(k - 1 - 1 + 1) : f[i] = s[1 + i - 1]
      BY <3>1, SubSeqProperties
    <3> HIDE DEF f
    <3> QED BY <3>2, <1>0
  <2>6. /\ g \in Seq(Workspace) /\ Len(g) = Len(s) - k
        /\ \A i \in 1..(Len(s) - k) : g[i] = s[k + i]
    <3>1. k + 1 \in Int /\ Len(s) \in Int /\ \A i \in (k + 1)..Len(s) : s[i] \in Workspace
      BY <1>0
    <3>2. /\ g \in Seq(Workspace)
          /\ Len(g) = IF k + 1 <= Len(s) THEN Len(s) - (k + 1) + 1 ELSE 0
          /\ \A i \in 1..(Len(s) - (k + 1) + 1) : g[i] = s[k + 1 + i - 1]
      BY <3>1, SubSeqProperties
    <3> HIDE DEF g
    <3>3. Len(g) = Len(s) - k
      <4>1. Len(g) = IF k + 1 <= Len(s) THEN Len(s) - (k + 1) + 1 ELSE 0
        BY <3>2
      <4>2. Len(s) \in Nat
        BY <1>0
      <4> QED BY <4>1, <4>2
    <3>4. ASSUME NEW i \in 1..(Len(s) - k)  PROVE g[i] = s[k + i]
      <4>1. i \in 1..(Len(s) - (k + 1) + 1) /\ k + 1 + i - 1 = k + i
        BY <1>0
      <4> QED BY <4>1, <3>2
    <3>5. g \in Seq(Workspace)
      BY <3>2
    <3> QED BY <3>3, <3>4, <3>5
  <2> HIDE DEF f, g
  <2>7. /\ h \in Seq(Workspace) /\ Len(h) = Len(s) - 1
        /\ \A i \in 1..(Len(s) - 1) : h[i] = IF i < k THEN s[i] ELSE s[i + 1]
    <3>1. /\ h \in Seq(Workspace) /\ Len(h) = Len(f) + Len(g)
          /\ \A i \in 1..(Len(f) + Len(g)) :
               h[i] = IF i <= Len(f) THEN f[i] ELSE g[i - Len(f)]
      BY <2>5, <2>6, ConcatProperties
    <3> HIDE DEF h
    <3>2. Len(h) = Len(s) - 1
      BY <3>1, <2>5, <2>6, <1>0
    <3>3. ASSUME NEW i \in 1..(Len(s) - 1)  PROVE h[i] = IF i < k THEN s[i] ELSE s[i + 1]
      <4>1. Len(f) = k - 1 /\ Len(g) = Len(s) - k /\ Len(s) \in Nat
        BY <2>5, <2>6, <1>0
      <4>2. i \in 1..(Len(f) + Len(g))
        BY <4>1
      <4>3. h[i] = IF i <= Len(f) THEN f[i] ELSE g[i - Len(f)]
        BY <4>2, <3>1
      <4>4. h[i] = IF i <= k - 1 THEN f[i] ELSE g[i - (k - 1)]
        BY <4>1, <4>3
      <4>5. CASE i < k
        BY <4>4, <4>5, <4>1, <2>5
      <4>6. CASE ~(i < k)
        <5>1. i - (k - 1) \in 1..(Len(s) - k) /\ k + (i - (k - 1)) = i + 1 /\ ~(i <= k - 1)
          BY <4>6, <1>0
        <5> QED BY <5>1, <4>4, <4>6, <2>6
      <4> QED BY <4>5, <4>6
    <3>4. h \in Seq(Workspace)
      BY <3>1
    <3> QED BY <3>2, <3>3, <3>4
  <2> HIDE DEF h
  <2>8. DOMAIN h = 1..(Len(s) - 1)
    BY <2>7, LenProperties
  <2>9. IsInjective(h)
    <3> SUFFICES ASSUME NEW i \in DOMAIN h, NEW j \in DOMAIN h, h[i] = h[j]  PROVE i = j
      BY DEF IsInjective
    <3> DEFINE a == IF i < k THEN i ELSE i + 1
               b == IF j < k THEN j ELSE j + 1
    <3>1. a \in DOMAIN s /\ b \in DOMAIN s /\ s[a] = s[b]
      BY <2>7, <2>8, <1>0
    <3>2. a = b
      BY <3>1 DEF IsInjective
    <3> QED BY <3>2, <2>8, <1>0
  <2>10. ToSet(h) = ToSet(s) \ {w}
    <3>1. ASSUME NEW x \in ToSet(h)  PROVE x \in ToSet(s) \ {w}
      <4>1. PICK i \in DOMAIN h : x = h[i]
        BY DEF ToSet
      <4> DEFINE a == IF i < k THEN i ELSE i + 1
      <4>2. a \in DOMAIN s /\ a # k /\ x = s[a]
        BY <4>1, <2>7, <2>8, <1>0
      <4>3. x # w
        BY <4>2, <2>1, <1>0 DEF IsInjective
      <4> HIDE DEF a
      <4> QED BY <4>2, <4>3 DEF ToSet
    <3>2. ASSUME NEW x \in ToSet(s) \ {w}  PROVE x \in ToSet(h)
      <4>1. PICK i \in DOMAIN s : x = s[i]
        BY DEF ToSet
      <4> DEFINE a == IF i < k THEN i ELSE i - 1
      <4>2. i # k
        BY <4>1, <2>1
      <4>3. a \in DOMAIN h /\ x = h[a]
        BY <4>1, <4>2, <2>7, <2>8, <1>0
      <4> HIDE DEF a
      <4> QED BY <4>3 DEF ToSet
    <3> QED BY <3>1, <3>2
  <2> QED BY <2>4, <2>7, <2>9, <2>10
<1> QED BY <1>1, <1>2

\* What is first of the rest is one of them, and there is one if there are any.
LEMMA OldestIsLive ==
  ASSUME NEW s \in Seq(Workspace)
  PROVE  /\ Oldest(s) \subseteq ToSet(s) /\ \A v, w \in Oldest(s) : v = w
         /\ Oldest(s) = {} => ToSet(s) = {}
<1>1. CASE s = <<>>
  BY <1>1 DEF Oldest, ToSet
<1>2. CASE s # <<>>
  <2>1. Len(s) \in Nat /\ Len(s) > 0 /\ DOMAIN s = 1..Len(s)
    BY <1>2, LenProperties, EmptySeq
  <2>2. Head(s) = s[1] /\ 1 \in DOMAIN s
    BY <2>1
  <2>3. Head(s) \in ToSet(s)
    BY <2>2 DEF ToSet
  <2> QED BY <1>2, <2>3 DEF Oldest
<1> QED BY <1>1, <1>2

-----------------------------------------------------------------------------
(* The active workspace *)

LEMMA PlacedSame ==
  ASSUME Placed, SameWorkspaces
  PROVE  Placed'
BY DEF Placed, SameWorkspaces, Live

LEMMA PlacedActivated ==
  ASSUME WorkspacesAssumption, Placed, ActivateDefault, UNCHANGED raced
  PROVE  Placed'
<1> DEFINE S == live \in Seq(Workspace) /\ IsInjective(live)
<1>0. S /\ Default \in Workspace
  BY DEF Placed, WorkspacesAssumption
<1>1. S' /\ Live \subseteq Live' /\ (active = {} => Default \in Live')
  <2>1. CASE active = {} /\ Default \notin Live
    <3>1. live' = Append(live, Default)
      BY <2>1 DEF ActivateDefault
    <3> QED BY <1>0, <2>1, <3>1, LiveAppended DEF Live
  <2>2. CASE ~(active = {} /\ Default \notin Live)
    <3>1. live' = live
      BY <2>2 DEF ActivateDefault
    <3> QED BY <1>0, <2>2, <3>1 DEF Live
  <2> QED BY <2>1, <2>2
<1>2. active' = (IF active = {} THEN {Default} ELSE active) /\ active' # {}
  BY DEF ActivateDefault
<1>3. early' = {} /\ raced' = raced
  BY <1>2 DEF ActivateDefault, RecordEarly
<1>4. CASE active = {}
  BY <1>0, <1>1, <1>2, <1>3, <1>4 DEF Placed
<1>5. CASE active # {}
  <2>1. active' = active /\ live' = live
    BY <1>2, <1>5 DEF ActivateDefault
  <2> QED BY <2>1, <1>3, <1>5 DEF Placed, Live
<1> QED BY <1>4, <1>5

LEMMA PlacedCreated ==
  ASSUME Placed, NEW c \in Client, NEW w \in Workspace, CreateWorkspace(c, w)
  PROVE  Placed'
<1>1. w \notin ToSet(live) /\ live' = Append(live, w) /\ active' = active /\ raced' = raced
  BY DEF CreateWorkspace, IsNew, Live
<1>2. live' \in Seq(Workspace) /\ IsInjective(live') /\ Live' = Live \cup {w}
  BY <1>1, LiveAppended DEF Placed, Live
<1>3. early' = IF active # {} THEN {} ELSE early \cup {w}
  BY <1>1 DEF CreateWorkspace, RecordEarly
<1> QED BY <1>1, <1>2, <1>3 DEF Placed

LEMMA PlacedSwitched ==
  ASSUME Placed, DesksTyped, NEW c \in Client, SwitchWorkspace(c)
  PROVE  Placed'
<1> DEFINE w == desk[c].ws
<1>1. /\ live' = live /\ active' = {w} \cap Live /\ raced' = (raced \/ w \notin Live)
      /\ early' = IF active' # {} THEN {} ELSE IF active = {} THEN early ELSE {}
  BY DEF SwitchWorkspace, ActiveAfterSwitch, RecordEarly
<1>2. Live' = Live /\ Live \subseteq Workspace
  BY <1>1, ElementOfSeq, LenProperties DEF Live, ToSet, Placed
<1> HIDE DEF w
<1>3. /\ live' \in Seq(Workspace) /\ IsInjective(live')
      /\ active' \in SUBSET Workspace /\ early' \in SUBSET Workspace /\ raced' \in BOOLEAN
  BY <1>1, <1>2 DEF Placed
<1>4. raced' \/ (active' \subseteq Live' /\ (\A u, v \in active' : u = v) /\ active' # {})
  BY <1>1, <1>2
<1> QED BY <1>3, <1>4 DEF Placed

LEMMA PlacedDeleted ==
  ASSUME Placed, DesksTyped, NEW c \in Client, DeleteWorkspace(c)
  PROVE  Placed'
<1> DEFINE w == desk[c].ws
           was == desk[c].was
           rest == RemoveFirst(live, w)
<1>1. /\ live' = rest
      /\ active' = (active \ {w}) \cup (IF was THEN Oldest(rest) ELSE {})
      /\ raced' = (raced \/ was # IsActive(w))
      /\ early' = IF active' # {} THEN {} ELSE IF active = {} THEN early ELSE {}
  BY DEF DeleteWorkspace, ActiveAfterDeletion, RecordEarly
<1>2. rest \in Seq(Workspace) /\ IsInjective(rest) /\ ToSet(rest) = Live \ {w}
  BY LiveRemoved DEF Placed, Live
<1>3. /\ Oldest(rest) \subseteq ToSet(rest) /\ \A u, v \in Oldest(rest) : u = v
      /\ Oldest(rest) = {} => ToSet(rest) = {}
  BY <1>2, OldestIsLive
<1>4. was \in BOOLEAN
  BY DEF DesksTyped, DeskRow
<1>5. Live' = ToSet(rest) /\ Live \subseteq Workspace
  BY <1>1, ElementOfSeq, LenProperties DEF Live, ToSet, Placed
<1> HIDE DEF w, was, rest
<1>6. /\ live' \in Seq(Workspace) /\ IsInjective(live')
      /\ active' \in SUBSET Workspace /\ early' \in SUBSET Workspace /\ raced' \in BOOLEAN
  BY <1>1, <1>2, <1>3, <1>4, <1>5 DEF Placed, IsActive
<1>7. ASSUME ~raced'
      PROVE  /\ active' \subseteq Live' /\ \A u, v \in active' : u = v
             /\ active' = {} => Live' \subseteq early'
  <2>1. ~raced /\ was = IsActive(w)
    BY <1>1, <1>4, <1>7 DEF IsActive
  <2>2. /\ active \subseteq Live /\ \A u, v \in active : u = v
        /\ active = {} => Live \subseteq early
    BY <2>1 DEF Placed
  <2>3. CASE was
    <3>1. active' = Oldest(rest)
      BY <2>1, <2>2, <2>3, <1>1 DEF IsActive
    <3> QED BY <3>1, <1>3, <1>5
  <2>4. CASE ~was
    <3>1. active' = active /\ w \notin active
      BY <2>1, <2>4, <1>1 DEF IsActive
    <3> QED BY <3>1, <2>2, <1>1, <1>2, <1>5
  <2> QED BY <2>3, <2>4, <1>4
<1> QED BY <1>6, <1>7 DEF Placed
-----------------------------------------------------------------------------
(* Requests in progress *)

LEMMA DesksMove ==
  ASSUME WorkspacesAssumption, DesksTyped, NEW c \in Client, NEW d \in DeskRow, Names(d),
         Proceed(c, d),
         UNCHANGED served \/ (served < MaxRequests /\ served' = served + 1)
  PROVE  DesksTyped'
BY DEF DesksTyped, Proceed, WorkspacesAssumption

LEMMA IdleDeskTyped == IdleDesk \in DeskRow /\ Names(IdleDesk)
BY DEF IdleDesk, DeskRow, DeskStep, Text, Names

LEMMA DesksRest ==
  ASSUME WorkspacesAssumption, DesksTyped, NEW c \in Client, Rest(c), UNCHANGED served
  PROVE  DesksTyped'
BY DesksMove, IdleDeskTyped DEF Rest

-----------------------------------------------------------------------------
(* Jobs and the threads that execute them *)

\* The jobs that threads work at stay as they are.
JobsKept ==
  \A u \in Task : Works(u) /\ Works(u)' /\ task'[u].slot = task[u].slot => JobOf(u)' = JobOf(u)

TasksTyped == queue \in [Slot -> Job \cup {NoJob}] /\ task \in [Task -> TaskRow]

LEMMA NoJobIsNone == NoJob \notin Job
BY DEF NoJob, Job, JobKind

LEMMA TasksSame ==
  ASSUME TasksTyped, TasksApart, UNCHANGED <<queue, task>>
  PROVE  TasksTyped' /\ TasksApart' /\ JobsKept
BY DEF TasksTyped, TasksApart, JobsKept, Works, Busy, JobOf

LEMMA TasksQueued ==
  ASSUME TasksTyped, TasksApart, NEW kind \in JobKind, NEW w \in Workspace, NEW r \in Text,
         Enqueue(kind, w, r), UNCHANGED task
  PROVE  TasksTyped' /\ TasksApart' /\ JobsKept
<1> DEFINE s == CHOOSE s \in Slot : queue[s] = NoJob
           new == [kind |-> kind, home |-> w, resume |-> r]
<1>1. s \in Slot /\ queue[s] = NoJob /\ queue' = [queue EXCEPT ![s] = new]
  BY DEF Enqueue
<1>2. new \in Job
  BY DEF Job
<1> HIDE DEF s, new
<1>3. TasksTyped'
  BY <1>1, <1>2 DEF TasksTyped
<1>4. \A u \in Task : Works(u) => task[u].slot # s /\ queue'[task[u].slot] = queue[task[u].slot]
  BY <1>1, NoJobIsNone DEF TasksApart, TasksTyped
<1>5. TasksApart'
  BY <1>4 DEF TasksApart, Works, Busy
<1>6. JobsKept
  BY <1>4 DEF JobsKept, Works, Busy, JobOf
<1> QED BY <1>3, <1>5, <1>6

\* A job that is over as soon as it is begun.
LEMMA TasksDropped ==
  ASSUME TasksTyped, TasksApart, NEW s \in Slot, IsFree(s),
         queue' = [queue EXCEPT ![s] = NoJob], UNCHANGED task
  PROVE  TasksTyped' /\ TasksApart' /\ JobsKept
<1>1. TasksTyped'
  BY DEF TasksTyped
<1>2. \A u \in Task : Works(u) => queue'[task[u].slot] = queue[task[u].slot]
  BY DEF TasksApart, TasksTyped, IsFree
<1>3. TasksApart'
  BY <1>2 DEF TasksApart, Works, Busy
<1>4. JobsKept
  BY <1>2 DEF JobsKept, Works, Busy, JobOf
<1> QED BY <1>1, <1>3, <1>4

LEMMA TasksBegun ==
  ASSUME TasksTyped, TasksApart, NEW t \in Task, NEW s \in Slot, IsFree(s),
         Busy(t, "idle"), NEW d \in TaskRow, d.step # "idle", d.slot = s, d.ws \in Workspace,
         Continue(t, d), UNCHANGED queue
  PROVE  TasksTyped' /\ TasksApart' /\ JobsKept
<1>1. task' \in [Task -> TaskRow] /\ task'[t] = d /\ \A u \in Task \ {t} : task'[u] = task[u]
  BY DEF TasksTyped, Continue
<1>2. queue[s] \in Job /\ \A u \in Task : task[u].slot # s
  BY DEF IsFree, TasksTyped
<1>3. TasksApart'
  BY <1>1, <1>2 DEF TasksApart, Works, Busy
<1>4. JobsKept
  BY <1>1 DEF JobsKept, Works, Busy, JobOf
<1> QED BY <1>1, <1>3, <1>4 DEF TasksTyped

LEMMA TasksWent ==
  ASSUME TasksTyped, TasksApart, NEW t \in Task, Works(t), NEW d \in TaskRow,
         d.step # "idle", d.slot = task[t].slot, d.ws = task[t].ws,
         Continue(t, d), UNCHANGED queue
  PROVE  TasksTyped' /\ TasksApart' /\ JobsKept
<1>1. task' \in [Task -> TaskRow] /\ task'[t] = d /\ \A u \in Task \ {t} : task'[u] = task[u]
  BY DEF TasksTyped, Continue
<1>2. TasksApart'
  BY <1>1 DEF TasksApart, Works, Busy
<1>3. JobsKept
  BY <1>1 DEF JobsKept, Works, Busy, JobOf
<1> QED BY <1>1, <1>2, <1>3 DEF TasksTyped

LEMMA IdleTaskTyped == IdleTask \in TaskRow
BY DEF IdleTask, TaskRow, TaskStep, Text

\* The job of thread t is over, or it is retried later.
Ended(t) ==
  /\ Continue(t, IdleTask)
  /\ queue' = [queue EXCEPT ![task[t].slot] = NoJob] \/ queue' = queue

LEMMA TasksEnded ==
  ASSUME TasksTyped, TasksApart, NEW t \in Task, Works(t), Ended(t)
  PROVE  TasksTyped' /\ TasksApart' /\ JobsKept
<1>1. task' \in [Task -> TaskRow] /\ task'[t] = IdleTask
      /\ \A u \in Task \ {t} : task'[u] = task[u]
  BY IdleTaskTyped DEF TasksTyped, Ended, Continue
<1>2. ~Works(t)'
  BY <1>1 DEF Works, Busy, IdleTask
<1>3. queue' \in [Slot -> Job \cup {NoJob}]
      /\ \A s \in Slot \ {task[t].slot} : queue'[s] = queue[s]
  BY DEF Ended, TasksTyped, TasksApart
<1>4. ASSUME NEW u \in Task, Works(u)'
      PROVE  /\ u # t /\ Works(u) /\ task'[u] = task[u]
             /\ task[u].slot \in Slot /\ queue'[task[u].slot] = queue[task[u].slot]
  <2>1. u # t /\ task'[u] = task[u] /\ Works(u)
    BY <1>1, <1>2, <1>4 DEF Works, Busy
  <2>2. task[u].slot \in Slot \ {task[t].slot}
    BY <2>1 DEF TasksApart
  <2> QED BY <2>1, <2>2, <1>3
<1>5. TasksApart'
  BY <1>4 DEF TasksApart
<1>6. JobsKept
  BY <1>4 DEF JobsKept, JobOf
<1> QED BY <1>1, <1>3, <1>5, <1>6 DEF TasksTyped
-----------------------------------------------------------------------------
(* What a step has to keep *)

\* What is remembered of a workspace is not forgotten.
Remembered ==
  \A w \in Workspace : had[w] \subseteq had'[w] /\ uploaded[w] \subseteq uploaded'[w]

\* Every row and every thread is as it was, or what it holds is its workspace's own.
OwnUploads ==
  \A u \in Task : Busy(u, "storing")' =>
    \/ Busy(u, "storing") /\ JobOf(u)' = JobOf(u)
    \/ JobOf(u)'.resume \in uploaded'[JobOf(u)'.home] \cup {None}

OwnOrigins ==
  \A u \in Task : Matches(u)' =>
    \/ Matches(u) /\ task'[u].origin = task[u].origin /\ task'[u].ws = task[u].ws
    \/ task'[u].origin \in had'[task'[u].ws]

OwnProfiles ==
  \A w \in Workspace :
    \/ profile'[w] = profile[w]
    \/ profile'[w].extracted \in had'[w] /\ profile'[w].resume \in uploaded'[w] \cup {None}

OwnMatches ==
  \A w \in Workspace, p \in CorpusJob :
    \/ match'[w][p] = match[w][p]
    \/ match'[w][p].present => match'[w][p].origin \in had'[w]

LEMMA OwnedIsHomely ==
  ASSUME Homely, HomesTyped', TasksApart', Remembered,
         OwnUploads, OwnOrigins, OwnProfiles, OwnMatches, MatchingLeavesNoGaps'
  PROVE  Homely'
<1>1. StoresUploaded'
  <2> SUFFICES ASSUME NEW u \in Task, Busy(u, "storing")'
               PROVE  JobOf(u)'.resume \in uploaded'[JobOf(u)'.home] \cup {None}
    BY DEF StoresUploaded
  <2>1. CASE Busy(u, "storing") /\ JobOf(u)' = JobOf(u)
    <3>1. JobOf(u).resume \in uploaded[JobOf(u).home] \cup {None}
      BY <2>1 DEF Homely, StoresUploaded
    <3>2. JobOf(u) \in Job
      BY <2>1 DEF Homely, TasksApart, Works, Busy, JobOf
    <3>3. JobOf(u).home \in Workspace
      BY <3>2 DEF Job
    <3> QED BY <2>1, <3>1, <3>3 DEF Remembered
  <2> QED BY <2>1 DEF OwnUploads
<1>2. ProfilesHad'
  BY DEF Homely, ProfilesHad, OwnProfiles, Remembered
<1>3. MatchesHad'
  <2> SUFFICES ASSUME NEW u \in Task, Matches(u)'
               PROVE  task'[u].origin \in had'[task'[u].ws]
    BY DEF MatchesHad, Matches
  <2>1. CASE /\ Matches(u)
             /\ task'[u].origin = task[u].origin /\ task'[u].ws = task[u].ws
    <3>1. task[u].origin \in had[task[u].ws]
      BY <2>1 DEF Homely, MatchesHad, Matches, Busy
    <3>2. task[u].ws \in Workspace
      BY <2>1 DEF Homely, TasksApart, Works, Busy, Matches
    <3> QED BY <2>1, <3>1, <3>2 DEF Remembered
  <2> QED BY <2>1 DEF OwnOrigins
<1>4. MatchesStayHome'
  BY DEF Homely, MatchesStayHome, OwnMatches, Remembered
<1>5. ResumesStayHome'
  BY DEF Homely, ResumesStayHome, OwnProfiles, Remembered
<1> QED BY <1>1, <1>2, <1>3, <1>4, <1>5 DEF Homely

\* The threads and the matches are as they were.
LEMMA GapsSame ==
  ASSUME MatchingLeavesNoGaps, UNCHANGED <<match, task>>, wiped \subseteq wiped'
  PROVE  MatchingLeavesNoGaps'
BY DEF MatchingLeavesNoGaps, Busy

\* A thread that has begun with all postings, or does not match.
LEMMA GapsBegun ==
  ASSUME MatchingLeavesNoGaps, NEW t \in Task, task'[t].step = "matching" => task'[t].todo = CorpusJob
  PROVE  MatchingLeavesNoGaps'
BY DEF MatchingLeavesNoGaps, Busy

\* Nothing that this is about is touched.
LEMMA HomelySame ==
  ASSUME Homely, SameProfiles, UNCHANGED <<match, queue, task>>,
         prefs' \in [Workspace -> Preference \cup {None}]
  PROVE  Homely'
<1>1. UNCHANGED <<profile, uploaded, had, wiped, match, queue, task>>
  BY DEF SameProfiles
<1>2. HomesTyped'
  BY <1>1 DEF Homely, HomesTyped
<1>3. TasksApart' /\ JobsKept
  BY <1>1, TasksSame DEF Homely, HomesTyped, TasksTyped
<1>4. OwnUploads
  BY <1>1, <1>3 DEF OwnUploads, JobsKept, Works, Busy
<1>5. Remembered /\ OwnOrigins /\ OwnProfiles /\ OwnMatches
  BY <1>1 DEF Remembered, OwnOrigins, OwnProfiles, OwnMatches, Matches
<1>6. MatchingLeavesNoGaps'
  BY <1>1, GapsSame DEF Homely
<1> QED BY <1>2, <1>3, <1>4, <1>5, <1>6, OwnedIsHomely
-----------------------------------------------------------------------------
(* What requests write *)

LEMMA HomelyQueued ==
  ASSUME Homely, NEW kind \in JobKind, NEW w \in Workspace, NEW r \in Text,
         Enqueue(kind, w, r), SameProfiles, UNCHANGED <<prefs, match, task>>
  PROVE  Homely'
<1>1. UNCHANGED <<profile, uploaded, had, wiped, match, task, prefs>>
  BY DEF SameProfiles
<1>2. TasksTyped' /\ TasksApart' /\ JobsKept
  BY TasksQueued DEF Homely, HomesTyped, TasksTyped
<1>3. HomesTyped'
  BY <1>1, <1>2 DEF Homely, HomesTyped, TasksTyped
<1>4. OwnUploads
  BY <1>1, <1>2 DEF OwnUploads, JobsKept, Works, Busy
<1>5. Remembered /\ OwnOrigins /\ OwnProfiles /\ OwnMatches
  BY <1>1 DEF Remembered, OwnOrigins, OwnProfiles, OwnMatches, Matches
<1>6. MatchingLeavesNoGaps'
  BY <1>1, GapsSame DEF Homely
<1> QED BY <1>2, <1>3, <1>4, <1>5, <1>6, OwnedIsHomely

LEMMA ProfileTypes ==
  ASSUME Homely, NEW w \in Workspace, NEW row \in ProfileRow, SetProfile(w, row)
  PROVE  /\ profile' \in [Workspace -> ProfileRow] /\ had' \in [Workspace -> SUBSET Text]
         /\ profile'[w] = row /\ row.extracted \in had'[w]
         /\ \A v \in Workspace : had[v] \subseteq had'[v]
         /\ \A v \in Workspace \ {w} : profile'[v] = profile[v] /\ had'[v] = had[v]
BY DEF SetProfile, Homely, HomesTyped, ProfileRow

\* A request writes or removes a profile; the jobs are as they were.
LEMMA HomelyProfileSet ==
  ASSUME Homely, NEW w \in Workspace, NEW row \in ProfileRow, SetProfile(w, row),
         uploaded' \in [Workspace -> SUBSET Resume],
         \A v \in Workspace : uploaded[v] \subseteq uploaded'[v],
         row.resume \in uploaded'[w] \cup {None},
         UNCHANGED <<prefs, match, queue, task, wiped>>
  PROVE  Homely'
<1>1. HomesTyped'
  BY ProfileTypes DEF Homely, HomesTyped
<1>2. TasksApart' /\ JobsKept
  BY TasksSame DEF Homely, HomesTyped, TasksTyped
<1>3. Remembered /\ OwnProfiles
  BY ProfileTypes DEF Remembered, OwnProfiles
<1>4. OwnUploads
  BY <1>2 DEF OwnUploads, JobsKept, Works, Busy
<1>5. OwnOrigins /\ OwnMatches
  BY DEF OwnOrigins, OwnMatches, Matches
<1>6. MatchingLeavesNoGaps'
  BY GapsSame DEF Homely
<1> QED BY <1>1, <1>2, <1>3, <1>4, <1>5, <1>6, OwnedIsHomely

LEMMA AbsentTyped ==
  /\ Absent \in ProfileRow /\ Absent.resume = None /\ Absent.extracted = None
  /\ Unmatched \in MatchRow /\ Unmatched.present = FALSE
BY DEF Absent, ProfileRow, Unmatched, MatchRow, Text

LEMMA HomelyDeleted ==
  ASSUME WorkspacesAssumption, Homely, NEW c \in Client, DeleteWorkspace(c),
         desk[c].ws \in Workspace
  PROVE  Homely'
<1> DEFINE w == desk[c].ws
<1>1. /\ SetProfile(w, Absent)
      /\ match' = [match EXCEPT ![w] = [p \in CorpusJob |-> Unmatched]]
      /\ prefs' = [prefs EXCEPT ![w] = None]
      /\ wiped' = wiped \cup {t \in Task : task[t].ws = w}
      /\ UNCHANGED <<uploaded, queue, task>>
  BY DEF DeleteWorkspace
<1> HIDE DEF w
<1>2. HomesTyped'
  <2>1. match' \in [Workspace -> [CorpusJob -> MatchRow]]
    BY <1>1, AbsentTyped DEF Homely, HomesTyped
  <2>2. prefs' \in [Workspace -> Preference \cup {None}] /\ wiped' \in SUBSET Task
    BY <1>1 DEF Homely, HomesTyped
  <2> QED BY <1>1, <2>1, <2>2, AbsentTyped, ProfileTypes DEF Homely, HomesTyped, w
<1>3. TasksApart' /\ JobsKept
  BY <1>1, TasksSame DEF Homely, HomesTyped, TasksTyped
<1>4. Remembered /\ OwnProfiles
  BY <1>1, ProfileTypes, AbsentTyped DEF Remembered, OwnProfiles, w
<1>5. OwnUploads
  BY <1>1, <1>3 DEF OwnUploads, JobsKept, Works, Busy
<1>6. OwnOrigins
  BY <1>1 DEF OwnOrigins, Matches
<1>7. OwnMatches
  BY <1>1, AbsentTyped DEF OwnMatches, Homely, HomesTyped
<1>8. MatchingLeavesNoGaps'
  <2> SUFFICES ASSUME NEW t \in Task, Task = {t}, Busy(t, "matching")', t \notin wiped',
                      NEW p \in CorpusJob \ (task'[t].todo \cup task'[t].failed)
               PROVE  match'[task'[t].ws][p].present /\ match'[task'[t].ws][p].pref = task'[t].pref
    BY DEF MatchingLeavesNoGaps
  <2>1. task[t] = task'[t] /\ Busy(t, "matching") /\ t \notin wiped /\ task[t].ws # w
    BY <1>1 DEF Busy
  <2>2. task[t].ws \in Workspace
    BY <2>1 DEF Homely, TasksApart, Works, Busy
  <2>3. match'[task[t].ws] = match[task[t].ws]
    BY <1>1, <2>1, <2>2 DEF Homely, HomesTyped
  <2>4. match[task[t].ws][p].present /\ match[task[t].ws][p].pref = task[t].pref
    BY <2>1 DEF Homely, MatchingLeavesNoGaps
  <2> QED BY <2>1, <2>3, <2>4
<1> QED BY <1>2, <1>3, <1>4, <1>5, <1>6, <1>7, <1>8, OwnedIsHomely

\* Nothing refers to the new workspace, of which nothing is remembered.
LEMMA HomelyCreated ==
  ASSUME WorkspacesAssumption, Homely, NEW c \in Client, NEW w \in Workspace,
         CreateWorkspace(c, w)
  PROVE  Homely'
<1>1. /\ IsNew(w)
      /\ prefs' = [prefs EXCEPT ![w] = None]
      /\ uploaded' = [uploaded EXCEPT ![w] = {}]
      /\ had' = [had EXCEPT ![w] = {None}]
      /\ UNCHANGED <<profile, match, queue, task, wiped>>
  BY DEF CreateWorkspace
<1>2. HomesTyped'
  BY <1>1 DEF Homely, HomesTyped, Text
<1>3. TasksApart' /\ JobsKept
  BY <1>1, TasksSame DEF Homely, HomesTyped, TasksTyped
<1>4. \A v \in Workspace \ {w} : uploaded'[v] = uploaded[v] /\ had'[v] = had[v]
  BY <1>1 DEF Homely, HomesTyped
<1>5. \A u \in Task : Works(u) => task[u].ws \in Workspace \ {w} /\ JobOf(u).home \in Workspace \ {w}
  <2> SUFFICES ASSUME NEW u \in Task, Works(u)
               PROVE  task[u].ws \in Workspace \ {w} /\ JobOf(u).home \in Workspace \ {w}
    OBVIOUS
  <2>1. /\ task[u].slot \in Slot /\ JobOf(u) \in Job /\ task[u].ws \in Workspace
    BY DEF Homely, TasksApart, JobOf
  <2>2. JobOf(u).home \in Workspace /\ JobOf(u) # NoJob
    BY <2>1, NoJobIsNone DEF Job
  <2> QED BY <2>1, <2>2, <1>1 DEF IsNew, JobOf
<1>6. StoresUploaded'
  <2> SUFFICES ASSUME NEW u \in Task, Busy(u, "storing")'
               PROVE  JobOf(u)'.resume \in uploaded'[JobOf(u)'.home] \cup {None}
    BY DEF StoresUploaded
  <2>1. Busy(u, "storing") /\ JobOf(u)' = JobOf(u)
    BY <1>1 DEF Busy, JobOf
  <2>2. JobOf(u).home \in Workspace \ {w}
    BY <2>1, <1>5 DEF Works, Busy
  <2>3. JobOf(u).resume \in uploaded[JobOf(u).home] \cup {None}
    BY <2>1 DEF Homely, StoresUploaded
  <2> QED BY <2>1, <2>2, <2>3, <1>4
<1>7. MatchesHad'
  <2> SUFFICES ASSUME NEW u \in Task, Matches(u)'
               PROVE  task'[u].origin \in had'[task'[u].ws]
    BY DEF MatchesHad, Matches
  <2>1. Matches(u) /\ task'[u] = task[u]
    BY <1>1 DEF Matches
  <2>2. task[u].ws \in Workspace \ {w}
    BY <2>1, <1>5 DEF Works, Busy, Matches
  <2>3. task[u].origin \in had[task[u].ws]
    BY <2>1 DEF Homely, MatchesHad, Matches, Busy
  <2> QED BY <2>1, <2>2, <2>3, <1>4
<1>8. profile[w] = Absent /\ \A p \in CorpusJob : ~match[w][p].present
  BY <1>1, AbsentTyped DEF IsNew
<1>9. ProfilesHad' /\ MatchesStayHome' /\ ResumesStayHome'
  <2>1. had'[w] = {None} /\ profile[w].extracted = None /\ profile[w].resume = None
    BY <1>1, <1>8, AbsentTyped DEF Homely, HomesTyped
  <2> QED BY <2>1, <1>1, <1>4, <1>8 DEF Homely, ProfilesHad, MatchesStayHome, ResumesStayHome
<1>10. MatchingLeavesNoGaps'
  BY <1>1, GapsSame DEF Homely
<1> QED BY <1>2, <1>3, <1>6, <1>7, <1>9, <1>10 DEF Homely
-----------------------------------------------------------------------------
(* What jobs write *)

\* A job that is over, or retried, without a trace.
LEMMA HomelyEnded ==
  ASSUME Homely, NEW t \in Task, Works(t), Ended(t), wiped' = wiped \ {t},
         UNCHANGED <<prefs, profile, uploaded, had, match>>
  PROVE  Homely'
<1>1. TasksTyped' /\ TasksApart' /\ JobsKept
  BY TasksEnded DEF Homely, HomesTyped, TasksTyped
<1>2. task'[t] = IdleTask /\ \A u \in Task \ {t} : task'[u] = task[u]
  BY DEF Ended, Continue, Homely, HomesTyped
<1>3. \A u \in Task : Works(u)' => u # t /\ task'[u] = task[u]
  BY <1>2 DEF Works, Busy, IdleTask
<1>4. HomesTyped'
  BY <1>1 DEF Homely, HomesTyped, TasksTyped
<1>5. OwnUploads
  BY <1>1, <1>3 DEF OwnUploads, JobsKept, Works, Busy
<1>6. OwnOrigins
  BY <1>3 DEF OwnOrigins, Works, Busy, Matches
<1>7. Remembered /\ OwnProfiles /\ OwnMatches
  BY DEF Remembered, OwnProfiles, OwnMatches
<1>8. MatchingLeavesNoGaps'
  <2>1. task'[t].step # "matching"
    BY <1>2 DEF IdleTask
  <2> QED BY <2>1, GapsBegun DEF Homely
<1> QED BY <1>1, <1>4, <1>5, <1>6, <1>7, <1>8, OwnedIsHomely

LEMMA CloseEnds ==
  ASSUME NEW t \in Task, Close(t) \/ Requeue(t)
  PROVE  Ended(t) /\ wiped' = wiped \ {t}
BY DEF Close, Requeue, Ended

\* Nothing was to be done for a job.
LEMMA HomelyDropped ==
  ASSUME Homely, NEW s \in Slot, IsFree(s), queue' = [queue EXCEPT ![s] = NoJob],
         SameProfiles, UNCHANGED <<prefs, match, task>>
  PROVE  Homely'
<1>1. UNCHANGED <<profile, uploaded, had, wiped>>
  BY DEF SameProfiles
<1>2. TasksTyped' /\ TasksApart' /\ JobsKept
  BY TasksDropped DEF Homely, HomesTyped, TasksTyped
<1>3. HomesTyped'
  BY <1>1, <1>2 DEF Homely, HomesTyped, TasksTyped
<1>4. OwnUploads
  BY <1>1, <1>2 DEF OwnUploads, JobsKept, Works, Busy
<1>5. Remembered /\ OwnOrigins /\ OwnProfiles /\ OwnMatches
  BY <1>1 DEF Remembered, OwnOrigins, OwnProfiles, OwnMatches, Matches
<1>6. MatchingLeavesNoGaps'
  BY <1>1, GapsSame DEF Homely
<1> QED BY <1>2, <1>3, <1>4, <1>5, <1>6, OwnedIsHomely

\* A thread begins with a job, or goes on with it, and writes no row.
LEMMA HomelyWent ==
  ASSUME Homely, NEW t \in Task, NEW d \in TaskRow, Continue(t, d), d.step # "idle",
         \/ /\ Busy(t, "idle") /\ IsFree(d.slot) /\ d.slot \in Slot /\ d.ws \in Workspace
         \/ Works(t) /\ d.slot = task[t].slot /\ d.ws = task[t].ws,
         d.step = "storing" => JobOf(t).resume \in uploaded[JobOf(t).home] \cup {None},
         d.step = "storing" => Works(t),
         d.step \in {"preparing", "defaulting", "matching"} => d.origin \in had[d.ws],
         SameProfiles, UNCHANGED <<prefs, match, queue>>, MatchingLeavesNoGaps'
  PROVE  Homely'
<1>1. UNCHANGED <<profile, uploaded, had, wiped>>
  BY DEF SameProfiles
<1>2. TasksTyped' /\ TasksApart' /\ JobsKept
  <2>1. CASE Busy(t, "idle") /\ IsFree(d.slot) /\ d.slot \in Slot /\ d.ws \in Workspace
    BY <2>1, TasksBegun DEF Homely, HomesTyped, TasksTyped
  <2>2. CASE Works(t) /\ d.slot = task[t].slot /\ d.ws = task[t].ws
    BY <2>2, TasksWent DEF Homely, HomesTyped, TasksTyped
  <2> QED BY <2>1, <2>2
<1>3. task'[t] = d /\ \A u \in Task \ {t} : task'[u] = task[u]
  BY DEF Continue, Homely, HomesTyped
<1>4. HomesTyped'
  BY <1>1, <1>2 DEF Homely, HomesTyped, TasksTyped
<1>5. OwnUploads
  <2> SUFFICES ASSUME NEW u \in Task, Busy(u, "storing")'
               PROVE  \/ Busy(u, "storing") /\ JobOf(u)' = JobOf(u)
                      \/ JobOf(u)'.resume \in uploaded'[JobOf(u)'.home] \cup {None}
    BY DEF OwnUploads
  <2>1. CASE u = t
    <3>1. d.step = "storing"
      BY <2>1, <1>3 DEF Busy
    <3>2. Works(t) /\ d.slot = task[t].slot
      BY <3>1 DEF Works
    <3>3. JobOf(t)' = JobOf(t)
      BY <3>2, <1>3 DEF JobOf
    <3> QED BY <2>1, <3>1, <3>3, <1>1
  <2>2. CASE u # t
    BY <2>2, <1>3 DEF Busy, JobOf
  <2> QED BY <2>1, <2>2
<1>6. OwnOrigins
  BY <1>1, <1>3 DEF OwnOrigins, Matches
<1>7. Remembered /\ OwnProfiles /\ OwnMatches
  BY <1>1 DEF Remembered, OwnProfiles, OwnMatches
<1> QED BY <1>2, <1>4, <1>5, <1>6, <1>7, OwnedIsHomely
-----------------------------------------------------------------------------
(* The steps of a job *)

LEMMA HomelyBeginExtraction ==
  ASSUME WorkspacesAssumption, Homely, NEW t \in Task, NEW s \in Slot, BeginExtraction(t, s)
  PROVE  Homely'
<1>1. /\ Busy(t, "idle") /\ IsFree(s)
      /\ SameProfiles /\ UNCHANGED <<prefs, match>>
  BY DEF BeginExtraction, requestVars
<1>2. CASE profile[queue[s].home].present
  <2> DEFINE d == [IdleTask EXCEPT !.step = "extracting", !.slot = s, !.ws = queue[s].home]
  <2>1. Continue(t, d) /\ UNCHANGED queue
    BY <1>2 DEF BeginExtraction
  <2>2. queue[s].home \in Workspace
    BY <1>1 DEF Homely, HomesTyped, IsFree, Job
  <2>3. d \in TaskRow /\ d.step = "extracting" /\ d.slot = s /\ d.ws = queue[s].home
    BY <2>2 DEF IdleTask, TaskRow, TaskStep, Text
  <2> HIDE DEF d
  <2>4. MatchingLeavesNoGaps'
    <3>1. task'[t] = d
      BY <2>1 DEF Continue, Homely, HomesTyped
    <3> QED BY <3>1, <2>3, GapsBegun DEF Homely
  <2> QED BY <1>1, <2>1, <2>2, <2>3, <2>4, HomelyWent
<1>3. CASE ~profile[queue[s].home].present
  <2>1. queue' = [queue EXCEPT ![s] = NoJob] /\ UNCHANGED task
    BY <1>3 DEF BeginExtraction
  <2> QED BY <1>1, <2>1, HomelyDropped
<1> QED BY <1>2, <1>3

LEMMA HomelyCheckResume ==
  ASSUME Homely, NEW t \in Task, CheckResume(t)
  PROVE  Homely'
<1>1. /\ Busy(t, "extracting") /\ Works(t)
      /\ UNCHANGED <<prefs, profile, uploaded, had, match>>
  BY DEF CheckResume, requestVars, Busy, Works
<1>2. CASE StillCurrent(t)
  <2> DEFINE d == [task[t] EXCEPT !.step = "storing"]
  <2>1. Continue(t, d) /\ UNCHANGED <<queue, wiped>>
    BY <1>2 DEF CheckResume
  <2>2. d \in TaskRow /\ d.step = "storing" /\ d.slot = task[t].slot /\ d.ws = task[t].ws
    BY DEF Homely, HomesTyped, TaskRow, TaskStep
  <2> HIDE DEF d
  <2>3. JobOf(t).resume \in uploaded[JobOf(t).home] \cup {None}
    <3>1. JobOf(t).home \in Workspace
      BY <1>1 DEF Homely, TasksApart, JobOf, Job
    <3>2. profile[JobOf(t).home].resume \in uploaded[JobOf(t).home] \cup {None}
      BY <3>1 DEF Homely, ResumesStayHome
    <3> QED BY <1>2, <3>2 DEF StillCurrent
  <2>4. MatchingLeavesNoGaps'
    <3>1. task'[t] = d
      BY <2>1 DEF Continue, Homely, HomesTyped
    <3> QED BY <3>1, <2>2, GapsBegun DEF Homely
  <2>5. SameProfiles
    BY <1>1, <2>1 DEF SameProfiles
  <2> QED BY <1>1, <2>1, <2>2, <2>3, <2>4, <2>5, HomelyWent
<1>3. CASE ~StillCurrent(t)
  <2>1. Close(t)
    BY <1>3 DEF CheckResume
  <2> QED BY <1>1, <2>1, CloseEnds, HomelyEnded
<1> QED BY <1>2, <1>3

\* What is stored was compared with the resume of the workspace (StoresUploaded).
LEMMA HomelyStoreProfile ==
  ASSUME Homely, NEW t \in Task, StoreProfile(t)
  PROVE  Homely'
<1> DEFINE w == JobOf(t).home
           r == JobOf(t).resume
           row == [present |-> TRUE, resume |-> r, extracted |-> r]
<1>1. /\ Busy(t, "storing") /\ Works(t) /\ SetProfile(w, row) /\ Close(t)
      /\ UNCHANGED <<prefs, match, uploaded>>
  BY DEF StoreProfile, StoreTarget, requestVars, Busy, Works
<1>2. w \in Workspace /\ r \in Text
  BY <1>1 DEF Homely, TasksApart, JobOf, Job
<1>3. r \in uploaded[w] \cup {None}
  BY <1>1 DEF Homely, StoresUploaded
<1>4. row \in ProfileRow /\ row.resume = r
  BY <1>2 DEF ProfileRow
<1> HIDE DEF w, r, row
<1>5. /\ profile' \in [Workspace -> ProfileRow] /\ had' \in [Workspace -> SUBSET Text]
      /\ profile'[w] = row /\ row.extracted \in had'[w]
      /\ \A v \in Workspace : had[v] \subseteq had'[v]
      /\ \A v \in Workspace \ {w} : profile'[v] = profile[v]
  BY <1>1, <1>2, <1>4, ProfileTypes
<1>6. Ended(t) /\ wiped' = wiped \ {t}
  BY <1>1, CloseEnds
<1>7. TasksTyped' /\ TasksApart' /\ JobsKept
  BY <1>1, <1>6, TasksEnded DEF Homely, HomesTyped, TasksTyped
<1>8. task'[t] = IdleTask /\ \A u \in Task \ {t} : task'[u] = task[u]
  BY <1>6 DEF Ended, Continue, Homely, HomesTyped
<1>9. \A u \in Task : Works(u)' => u # t /\ task'[u] = task[u]
  BY <1>8 DEF Works, Busy, IdleTask
<1>10. HomesTyped'
  BY <1>1, <1>5, <1>6, <1>7 DEF Homely, HomesTyped, TasksTyped
<1>11. Remembered /\ OwnProfiles /\ OwnMatches
  BY <1>1, <1>2, <1>3, <1>4, <1>5 DEF Remembered, OwnProfiles, OwnMatches
<1>12. OwnUploads
  BY <1>7, <1>9 DEF OwnUploads, JobsKept, Works, Busy
<1>13. OwnOrigins
  BY <1>9 DEF OwnOrigins, Works, Busy, Matches
<1>14. MatchingLeavesNoGaps'
  <2>1. task'[t].step # "matching"
    BY <1>8 DEF IdleTask
  <2> QED BY <2>1, GapsBegun DEF Homely
<1> QED BY <1>7, <1>10, <1>11, <1>12, <1>13, <1>14, OwnedIsHomely

LEMMA HomelyBeginMatching ==
  ASSUME WorkspacesAssumption, Homely, active \in SUBSET Workspace,
         NEW t \in Task, NEW s \in Slot, BeginMatching(t, s)
  PROVE  Homely'
<1>1. /\ Busy(t, "idle") /\ IsFree(s)
      /\ SameProfiles /\ UNCHANGED <<prefs, match>>
  BY DEF BeginMatching, requestVars
<1>2. ASSUME NEW w \in active,
             Continue(t, [IdleTask EXCEPT !.step = "preparing", !.slot = s, !.ws = w,
                            !.origin = profile[w].extracted]),
             UNCHANGED queue
      PROVE  Homely'
  <2> DEFINE d == [IdleTask EXCEPT !.step = "preparing", !.slot = s, !.ws = w,
                     !.origin = profile[w].extracted]
  <2>1. w \in Workspace /\ profile[w].extracted \in Text
    BY DEF Homely, HomesTyped, ProfileRow
  <2>2. /\ d \in TaskRow /\ d.step = "preparing" /\ d.slot = s /\ d.ws = w
        /\ d.origin = profile[w].extracted
    BY <2>1 DEF IdleTask, TaskRow, TaskStep, Text
  <2>3. Continue(t, d)
    BY <1>2
  <2> HIDE DEF d
  <2>4. d.origin \in had[d.ws]
    BY <2>1, <2>2 DEF Homely, ProfilesHad
  <2>5. MatchingLeavesNoGaps'
    <3>1. task'[t] = d
      BY <2>3 DEF Continue, Homely, HomesTyped
    <3> QED BY <3>1, <2>2, GapsBegun DEF Homely
  <2> QED BY <1>1, <1>2, <2>1, <2>2, <2>3, <2>4, <2>5, HomelyWent
<1>3. CASE queue' = [queue EXCEPT ![s] = NoJob] /\ UNCHANGED task
  BY <1>1, <1>3, HomelyDropped
<1> QED BY <1>2, <1>3 DEF BeginMatching

\* A thread goes on to its postings, all of them.
LEMMA MatchingTyped ==
  ASSUME Homely, NEW t \in Task, NEW p \in Preference \cup Text
  PROVE  /\ Matching(t, p) \in TaskRow /\ Matching(t, p).step = "matching"
         /\ Matching(t, p).slot = task[t].slot /\ Matching(t, p).ws = task[t].ws
         /\ Matching(t, p).origin = task[t].origin /\ Matching(t, p).todo = CorpusJob
<1>1. task[t] \in TaskRow
  BY DEF Homely, HomesTyped
<1> QED BY <1>1 DEF Matching, TaskRow, TaskStep

\* A thread that prepares to match goes on for the same workspace and profile.
LEMMA HomelyPrepared ==
  ASSUME Homely, NEW t \in Task, Matches(t), NEW d \in TaskRow, Continue(t, d),
         d.step = "defaulting" \/ (d.step = "matching" /\ d.todo = CorpusJob),
         d.slot = task[t].slot, d.ws = task[t].ws, d.origin = task[t].origin,
         SameProfiles, UNCHANGED <<prefs, match, queue>>
  PROVE  Homely'
<1>1. Works(t)
  BY DEF Matches, Works, Busy
<1>2. d.origin \in had[d.ws]
  BY DEF Homely, MatchesHad
<1>3. MatchingLeavesNoGaps'
  <2>1. task'[t] = d
    BY DEF Continue, Homely, HomesTyped
  <2> QED BY <2>1, GapsBegun DEF Homely
<1> QED BY <1>1, <1>2, <1>3, HomelyWent

LEMMA HomelyReadPreferences ==
  ASSUME WorkspacesAssumption, Homely, NEW t \in Task, ReadPreferences(t)
  PROVE  Homely'
<1> DEFINE w == task[t].ws
           e == [task[t] EXCEPT !.step = "defaulting"]
<1>1. /\ Matches(t) /\ Works(t)
      /\ SameProfiles /\ UNCHANGED <<prefs, match, queue>>
  BY DEF ReadPreferences, requestVars, Busy, Matches, Works
<1>2. w \in Workspace /\ task[t] \in TaskRow
  BY <1>1 DEF Homely, HomesTyped, TasksApart
<1>3. CASE Continue(t, e)
  <2>1. /\ e \in TaskRow /\ e.step = "defaulting" /\ e.slot = task[t].slot
        /\ e.ws = task[t].ws /\ e.origin = task[t].origin
    BY <1>2 DEF TaskRow, TaskStep
  <2> HIDE DEF e
  <2> QED BY <1>1, <1>3, <2>1, HomelyPrepared
<1>4. ASSUME NEW p \in Preference \cup Text, Continue(t, Matching(t, p))  PROVE Homely'
  BY <1>1, <1>4, MatchingTyped, HomelyPrepared
<1>5. None \in Preference \cup Text /\ (prefs[w] # None => prefs[w] \in Preference \cup Text)
  BY <1>2 DEF Homely, HomesTyped, Text
<1>6. \/ Continue(t, e) \/ Continue(t, Matching(t, None))
      \/ prefs[w] # None /\ Continue(t, Matching(t, prefs[w]))
  BY DEF ReadPreferences
<1> QED BY <1>3, <1>4, <1>5, <1>6

LEMMA HomelyReadDefaultRoles ==
  ASSUME Homely, NEW t \in Task, ReadDefaultRoles(t)
  PROVE  Homely'
<1>1. /\ Matches(t) /\ Works(t) /\ Continue(t, Matching(t, profile[task[t].ws].extracted))
      /\ SameProfiles /\ UNCHANGED <<prefs, match, queue>>
  BY DEF ReadDefaultRoles, requestVars, Busy, Matches, Works
<1>2. profile[task[t].ws].extracted \in Preference \cup Text
  BY <1>1 DEF Homely, HomesTyped, TasksApart, ProfileRow
<1> QED BY <1>1, <1>2, MatchingTyped, HomelyPrepared

\* A posting that is skipped, or about to be looked at.
LEMMA HomelyLookUpMatch ==
  ASSUME Homely, NEW t \in Task, NEW p \in CorpusJob, LookUpMatch(t, p)
  PROVE  Homely'
<1> DEFINE skip == [task[t] EXCEPT !.todo = @ \ {p}]
           look == [task[t] EXCEPT !.at = p]
           d == IF IsCached(t, p) THEN skip ELSE look
<1>1. /\ Busy(t, "matching") /\ Works(t) /\ Continue(t, d)
      /\ SameProfiles /\ UNCHANGED <<prefs, match, queue>>
  BY DEF LookUpMatch, requestVars, Busy, Works
<1>2. task[t] \in TaskRow
  BY DEF Homely, HomesTyped
<1>3. /\ skip \in TaskRow /\ skip.step = task[t].step /\ skip.slot = task[t].slot
      /\ skip.ws = task[t].ws /\ skip.origin = task[t].origin /\ skip.pref = task[t].pref
      /\ skip.failed = task[t].failed /\ skip.todo = task[t].todo \ {p}
  BY <1>2 DEF TaskRow
<1>4. /\ look \in TaskRow /\ look.step = task[t].step /\ look.slot = task[t].slot
      /\ look.ws = task[t].ws /\ look.origin = task[t].origin /\ look.pref = task[t].pref
      /\ look.failed = task[t].failed /\ look.todo = task[t].todo
  BY <1>2 DEF TaskRow
<1> HIDE DEF skip, look
<1>5. /\ d \in TaskRow /\ d.step = "matching" /\ d.slot = task[t].slot /\ d.ws = task[t].ws
      /\ d.origin = task[t].origin /\ d.pref = task[t].pref /\ d.failed = task[t].failed
      /\ d.todo = task[t].todo \/ (IsCached(t, p) /\ d.todo = task[t].todo \ {p})
  BY <1>1, <1>3, <1>4 DEF Busy
<1> HIDE DEF d
<1>6. d.origin \in had[d.ws]
  BY <1>1, <1>5 DEF Homely, MatchesHad, Matches, Busy
<1>7. MatchingLeavesNoGaps'
  <2> SUFFICES ASSUME NEW u \in Task, Task = {u}, Busy(u, "matching")', u \notin wiped',
                      NEW q \in CorpusJob \ (task'[u].todo \cup task'[u].failed)
               PROVE  match'[task'[u].ws][q].present /\ match'[task'[u].ws][q].pref = task'[u].pref
    BY DEF MatchingLeavesNoGaps
  <2>1. u = t /\ task'[t] = d /\ t \notin wiped /\ match' = match
    BY <1>1 DEF Continue, Homely, HomesTyped, SameProfiles
  <2>2. match[d.ws][q].present /\ match[d.ws][q].pref = d.pref
    <3>1. CASE q \in task[t].todo
      <4>1. IsCached(t, p) /\ q = p
        BY <3>1, <2>1, <1>5
      <4> QED BY <4>1, <1>5 DEF IsCached
    <3>2. CASE q \notin task[t].todo
      <4>1. q \in CorpusJob \ (task[t].todo \cup task[t].failed)
        BY <3>2, <2>1, <1>5
      <4> QED BY <4>1, <2>1, <1>1, <1>5 DEF Homely, MatchingLeavesNoGaps
    <3> QED BY <3>1, <3>2
  <2> QED BY <2>1, <2>2
<1> QED BY <1>1, <1>5, <1>6, <1>7, HomelyWent

LEMMA HomelyFailMatch ==
  ASSUME Homely, NEW t \in Task, FailMatch(t)
  PROVE  Homely'
<1> DEFINE a == task[t].at
           d == [task[t] EXCEPT !.todo = @ \ {task[t].at}, !.at = None, !.failed = @ \cup {a}]
<1>1. /\ Busy(t, "matching") /\ Works(t) /\ Continue(t, d) /\ a # None
      /\ SameProfiles /\ UNCHANGED <<prefs, match, queue>>
  BY DEF FailMatch, requestVars, Busy, Works
<1>2. task[t] \in TaskRow /\ a \in CorpusJob
  BY <1>1 DEF Homely, HomesTyped, TaskRow
<1>3. /\ d \in TaskRow /\ d.step = task[t].step /\ d.slot = task[t].slot
      /\ d.ws = task[t].ws /\ d.origin = task[t].origin /\ d.pref = task[t].pref
      /\ d.todo = task[t].todo \ {a} /\ d.failed = task[t].failed \cup {a}
  BY <1>2 DEF TaskRow
<1> HIDE DEF a, d
<1>4. d.step = "matching" /\ d.origin \in had[d.ws]
  BY <1>1, <1>3 DEF Homely, MatchesHad, Matches, Busy
<1>5. MatchingLeavesNoGaps'
  <2> SUFFICES ASSUME NEW u \in Task, Task = {u}, Busy(u, "matching")', u \notin wiped',
                      NEW q \in CorpusJob \ (task'[u].todo \cup task'[u].failed)
               PROVE  match'[task'[u].ws][q].present /\ match'[task'[u].ws][q].pref = task'[u].pref
    BY DEF MatchingLeavesNoGaps
  <2>1. u = t /\ task'[t] = d /\ t \notin wiped /\ match' = match
    BY <1>1 DEF Continue, Homely, HomesTyped, SameProfiles
  <2>2. q \in CorpusJob \ (task[t].todo \cup task[t].failed)
    BY <2>1, <1>3
  <2>3. match[task[t].ws][q].present /\ match[task[t].ws][q].pref = task[t].pref
    BY <2>1, <2>2, <1>1 DEF Homely, MatchingLeavesNoGaps
  <2> QED BY <2>1, <2>3, <1>3
<1> QED BY <1>1, <1>3, <1>4, <1>5, HomelyWent

LEMMA HomelySaveMatch ==
  ASSUME Homely, NEW t \in Task, SaveMatch(t)
  PROVE  Homely'
<1> DEFINE a == task[t].at
           w == task[t].ws
           row == [present |-> TRUE, origin |-> task[t].origin, pref |-> task[t].pref]
           d == [task[t] EXCEPT !.todo = @ \ {task[t].at}, !.at = None]
<1>1. /\ Busy(t, "matching") /\ Works(t) /\ Continue(t, d) /\ a # None
      /\ match' = [match EXCEPT ![w][a] = row]
      /\ SameProfiles /\ UNCHANGED <<prefs, queue>>
  BY DEF SaveMatch, MatchTarget, requestVars, Busy, Works
<1>2. task[t] \in TaskRow /\ a \in CorpusJob /\ w \in Workspace
  BY <1>1 DEF Homely, HomesTyped, TaskRow, TasksApart
<1>3. /\ d \in TaskRow /\ d.step = task[t].step /\ d.slot = task[t].slot
      /\ d.ws = w /\ d.origin = task[t].origin /\ d.pref = task[t].pref
      /\ d.todo = task[t].todo \ {a} /\ d.failed = task[t].failed
  BY <1>2 DEF TaskRow
<1>4. row \in MatchRow /\ row.present /\ row.origin = task[t].origin /\ row.pref = task[t].pref
  BY <1>2 DEF MatchRow, TaskRow
<1>5. task[t].origin \in had[w]
  BY <1>1 DEF Homely, MatchesHad, Matches, Busy
<1> HIDE DEF a, w, row, d
<1>6. UNCHANGED <<profile, uploaded, had, wiped>>
  BY <1>1 DEF SameProfiles
<1>7. /\ match' \in [Workspace -> [CorpusJob -> MatchRow]] /\ match'[w][a] = row
      /\ \A v \in Workspace, q \in CorpusJob : v # w \/ q # a => match'[v][q] = match[v][q]
  BY <1>1, <1>2, <1>4 DEF Homely, HomesTyped
<1>8. TasksTyped' /\ TasksApart' /\ JobsKept
  <2>1. d.step # "idle" /\ d.ws = task[t].ws
    BY <1>1, <1>3 DEF Works, Busy, w
  <2> QED BY <2>1, <1>1, <1>3, TasksWent DEF Homely, HomesTyped, TasksTyped
<1>9. task'[t] = d /\ \A u \in Task \ {t} : task'[u] = task[u]
  BY <1>1 DEF Continue, Homely, HomesTyped
<1>10. HomesTyped'
  BY <1>1, <1>6, <1>7, <1>8 DEF Homely, HomesTyped, TasksTyped
<1>11. OwnUploads
  <2>1. \A u \in Task : Busy(u, "storing")' => Busy(u, "storing") /\ task'[u].slot = task[u].slot
    BY <1>1, <1>3, <1>9 DEF Busy
  <2> QED BY <2>1, <1>8 DEF OwnUploads, JobsKept, Works, Busy
<1>12. OwnOrigins
  BY <1>1, <1>3, <1>9 DEF OwnOrigins, Busy, Matches, w
<1>13. Remembered /\ OwnProfiles
  BY <1>6 DEF Remembered, OwnProfiles
<1>14. OwnMatches
  BY <1>4, <1>5, <1>6, <1>7 DEF OwnMatches
<1>15. MatchingLeavesNoGaps'
  <2> SUFFICES ASSUME NEW u \in Task, Task = {u}, Busy(u, "matching")', u \notin wiped',
                      NEW q \in CorpusJob \ (task'[u].todo \cup task'[u].failed)
               PROVE  match'[task'[u].ws][q].present /\ match'[task'[u].ws][q].pref = task'[u].pref
    BY DEF MatchingLeavesNoGaps
  <2>1. u = t /\ task'[t] = d /\ t \notin wiped
    BY <1>1, <1>6, <1>9
  <2>2. match'[w][q].present /\ match'[w][q].pref = task[t].pref
    <3>1. CASE q = a
      BY <3>1, <1>4, <1>7
    <3>2. CASE q # a
      <4>1. q \in CorpusJob \ (task[t].todo \cup task[t].failed)
        BY <3>2, <2>1, <1>3
      <4>2. match[w][q].present /\ match[w][q].pref = task[t].pref
        BY <4>1, <2>1, <1>1 DEF Homely, MatchingLeavesNoGaps, w
      <4> QED BY <4>2, <3>2, <1>2, <1>7
    <3> QED BY <3>1, <3>2
  <2> QED BY <2>1, <2>2, <1>3
<1> QED BY <1>8, <1>10, <1>11, <1>12, <1>13, <1>14, <1>15, OwnedIsHomely

LEMMA HomelyEndOfTask ==
  ASSUME Homely, NEW t \in Task, CompleteMatching(t) \/ FailTask(t)
  PROVE  Homely'
<1>1. Works(t) /\ (Close(t) \/ Requeue(t))
  BY DEF CompleteMatching, FailTask, Works, Busy
<1>2. UNCHANGED <<prefs, profile, uploaded, had, match>>
  BY DEF CompleteMatching, FailTask, requestVars
<1> QED BY <1>1, <1>2, CloseEnds, HomelyEnded

LEMMA HomelyTask ==
  ASSUME WorkspacesAssumption, Homely, active \in SUBSET Workspace,
         NEW t \in Task, TaskStepOf(t)
  PROVE  Homely'
<1>1. CASE \E s \in Slot : BeginExtraction(t, s)
  BY <1>1, HomelyBeginExtraction
<1>2. CASE \E s \in Slot : BeginMatching(t, s)
  BY <1>2, HomelyBeginMatching
<1>3. CASE CheckResume(t)
  BY <1>3, HomelyCheckResume
<1>4. CASE StoreProfile(t)
  BY <1>4, HomelyStoreProfile
<1>5. CASE \E p \in CorpusJob : LookUpMatch(t, p)
  BY <1>5, HomelyLookUpMatch
<1>6. CASE SaveMatch(t)
  BY <1>6, HomelySaveMatch
<1>7. CASE FailMatch(t)
  BY <1>7, HomelyFailMatch
<1>8. CASE CompleteMatching(t) \/ FailTask(t)
  BY <1>8, HomelyEndOfTask
<1>9. CASE ReadPreferences(t)
  BY <1>9, HomelyReadPreferences
<1>10. CASE ReadDefaultRoles(t)
  BY <1>10, HomelyReadDefaultRoles
<1> QED BY <1>1, <1>2, <1>3, <1>4, <1>5, <1>6, <1>7, <1>8, <1>9, <1>10 DEF TaskStepOf
-----------------------------------------------------------------------------
(* The requests, one after the other *)

LEMMA DesksArrive ==
  ASSUME WorkspacesAssumption, DesksTyped, NEW c \in Client, Arrive(c),
         NEW d \in DeskRow, Names(d), Proceed(c, d)
  PROVE  DesksTyped'
BY DesksMove DEF Arrive

\* A request that is served at once.
LEMMA DesksServe ==
  ASSUME WorkspacesAssumption, DesksTyped, NEW c \in Client, Arrive(c), UNCHANGED desk
  PROVE  DesksTyped'
BY DEF Arrive, DesksTyped, WorkspacesAssumption

\* What requests put down.
LEMMA DeskRead ==
  ASSUME NEW st \in DeskStep \ {"deleting", "removing"}, NEW r \in Text, NEW x \in Text,
         st = "saving" => r \in Resume
  PROVE  LET d == [IdleDesk EXCEPT !.step = st, !.resume = r, !.carry = x]
             e == [IdleDesk EXCEPT !.step = st, !.resume = r]
             f == [IdleDesk EXCEPT !.step = st]
         IN /\ d \in DeskRow /\ Names(d)
            /\ e \in DeskRow /\ Names(e)
            /\ f \in DeskRow /\ (st # "saving" => Names(f))
BY DEF IdleDesk, DeskRow, DeskStep, Text, Names

LEMMA DeskNamed ==
  ASSUME NEW st \in DeskStep \ {"saving"}, NEW w \in Workspace
  PROVE  LET d == [IdleDesk EXCEPT !.step = st, !.ws = w] IN d \in DeskRow /\ Names(d)
BY DEF IdleDesk, DeskRow, DeskStep, Text, Names

Steady == SameWorkspaces /\ SameProfiles /\ UNCHANGED <<prefs, match, queue, task>>

\* A request that has only read.
LEMMA SteadyKeeps ==
  ASSUME WorkspacesInv, Steady, DesksTyped'
  PROVE  WorkspacesInv'
<1>1. Placed'
  BY PlacedSame DEF WorkspacesInv, Steady
<1>2. Homely'
  BY HomelySame DEF WorkspacesInv, Steady, Homely, HomesTyped
<1> QED BY <1>1, <1>2 DEF WorkspacesInv

\* A request that reads and puts something down, or is answered.
LEMMA ReadingKeeps ==
  ASSUME WorkspacesAssumption, WorkspacesInv, NEW c \in Client, Steady,
         NEW d \in DeskRow, Names(d), Proceed(c, d), Arrive(c) \/ UNCHANGED served
  PROVE  WorkspacesInv'
<1>1. DesksTyped'
  BY DesksMove, DesksArrive DEF WorkspacesInv
<1> QED BY <1>1, SteadyKeeps

LEMMA DeskFields ==
  ASSUME DesksTyped, NEW c \in Client
  PROVE  /\ desk[c] \in DeskRow /\ Names(desk[c])
         /\ desk[c].resume \in Text /\ desk[c].carry \in Text /\ desk[c].was \in BOOLEAN
BY DEF DesksTyped, DeskRow

LEMMA RequestsThatRead ==
  ASSUME WorkspacesAssumption, WorkspacesInv, NEW c \in Client,
         \/ \E w \in Workspace : FindSwitch(c, w) \/ CountWorkspaces(c, w)
         \/ FindDeletion(c) \/ \E r \in Resume : BeginUpload(c, r)
         \/ RetryUpload(c) \/ AskMatching(c) \/ FindMatchingJob(c) \/ Abandon(c)
  PROVE  WorkspacesInv'
<1>0. /\ desk[c] \in DeskRow /\ Names(desk[c])
      /\ \A w \in active : w \in Workspace /\ profile[w].extracted \in Text
                          /\ profile[w].resume \in Text
  BY DeskFields DEF WorkspacesInv, Placed, Homely, HomesTyped, ProfileRow
<1>1. ASSUME NEW w \in Workspace, FindSwitch(c, w)  PROVE WorkspacesInv'
  <2>1. "switching" \in DeskStep \ {"saving"}
    BY DEF DeskStep
  <2> QED BY <1>1, <2>1, DeskNamed, ReadingKeeps DEF FindSwitch, Steady
<1>2. ASSUME NEW w \in Workspace, CountWorkspaces(c, w)  PROVE WorkspacesInv'
  <2>1. "deleting" \in DeskStep \ {"saving"}
    BY DEF DeskStep
  <2> QED BY <1>2, <2>1, DeskNamed, ReadingKeeps DEF CountWorkspaces, Steady
<1>3. CASE FindDeletion(c)
  <2> DEFINE d == [desk[c] EXCEPT !.step = "removing", !.was = IsActive(desk[c].ws)]
  <2>1. Steady /\ UNCHANGED served /\ (Proceed(c, d) \/ Proceed(c, IdleDesk))
    BY <1>3 DEF FindDeletion, Steady, Rest
  <2>2. IsActive(desk[c].ws) \in BOOLEAN /\ desk[c].ws \in Workspace
    BY <1>0, <1>3 DEF FindDeletion, AtStep, Names, IsActive
  <2>3. d \in DeskRow /\ Names(d)
    BY <1>0, <2>2 DEF DeskRow, DeskStep, Names
  <2> HIDE DEF d
  <2> QED BY <2>1, <2>3, IdleDeskTyped, ReadingKeeps
<1>4. ASSUME NEW r \in Resume, BeginUpload(c, r)  PROVE WorkspacesInv'
  <2>1. PICK row \in (IF active = {} THEN {Absent} ELSE {profile[w] : w \in active}) :
          /\ Arrive(c)
          /\ Proceed(c, [IdleDesk EXCEPT
               !.step = IF row.resume = r /\ row.extracted # None THEN "answering" ELSE "saving",
               !.resume = r, !.carry = row.extracted])
          /\ Steady
    BY <1>4 DEF BeginUpload, Steady
  <2> DEFINE st == IF row.resume = r /\ row.extracted # None THEN "answering" ELSE "saving"
  <2>2. st \in DeskStep \ {"deleting", "removing"} /\ r \in Text
    BY DEF DeskStep, Text
  <2>3. row.extracted \in Text
    BY <1>0, AbsentTyped DEF Text
  <2>4. Proceed(c, [IdleDesk EXCEPT !.step = st, !.resume = r, !.carry = row.extracted])
    BY <2>1
  <2> HIDE DEF st
  <2> QED BY <2>1, <2>2, <2>3, <2>4, DeskRead, ReadingKeeps
<1>5. CASE RetryUpload(c)
  <2>1. PICK w \in active :
          /\ Arrive(c) /\ Steady /\ profile[w].resume # None
          /\ Proceed(c, [IdleDesk EXCEPT !.step = "saving", !.resume = profile[w].resume])
    BY <1>5 DEF RetryUpload, Steady
  <2>2. "saving" \in DeskStep \ {"deleting", "removing"}
    BY DEF DeskStep
  <2>3. profile[w].resume \in Resume
    BY <1>0, <2>1 DEF Text
  <2> QED BY <1>0, <2>1, <2>2, <2>3, DeskRead, ReadingKeeps
<1>6. CASE AskMatching(c)
  <2>1. "asking" \in DeskStep \ {"deleting", "removing"} /\ None \in Text
    BY DEF DeskStep, Text
  <2> QED BY <1>6, <2>1, DeskRead, ReadingKeeps DEF AskMatching, Steady
<1>7. CASE FindMatchingJob(c)
  <2>1. "creating" \in DeskStep \ {"deleting", "removing"} /\ None \in Text
    BY DEF DeskStep, Text
  <2>2. Steady /\ UNCHANGED served
        /\ (Proceed(c, [IdleDesk EXCEPT !.step = "creating"]) \/ Proceed(c, IdleDesk))
    BY <1>7 DEF FindMatchingJob, Steady, Rest
  <2> QED BY <2>1, <2>2, DeskRead, IdleDeskTyped, ReadingKeeps
<1>8. CASE Abandon(c)
  BY <1>8, IdleDeskTyped, ReadingKeeps DEF Abandon, Steady, Rest
<1> QED BY <1>1, <1>2, <1>3, <1>4, <1>5, <1>6, <1>7, <1>8
\* Which of the workspaces is active changes, and nothing else.
LEMMA RequestsThatActivate ==
  ASSUME WorkspacesAssumption, WorkspacesInv, NEW c \in Client,
         \/ SwitchWorkspace(c) \/ AnswerUpload(c)
         \/ \E w \in Workspace, p \in Preference : UpdatePreferences(c, w, p)
  PROVE  WorkspacesInv'
<1>1. CASE SwitchWorkspace(c)
  <2>1. Placed'
    BY <1>1, PlacedSwitched DEF WorkspacesInv
  <2>2. DesksTyped'
    BY <1>1, DesksRest DEF WorkspacesInv, SwitchWorkspace
  <2>3. Homely'
    BY <1>1, HomelySame DEF WorkspacesInv, SwitchWorkspace, Homely, HomesTyped
  <2> QED BY <2>1, <2>2, <2>3 DEF WorkspacesInv
<1>2. CASE AnswerUpload(c)
  <2>1. Placed'
    BY <1>2, PlacedActivated DEF WorkspacesInv, AnswerUpload
  <2>2. DesksTyped'
    BY <1>2, DesksRest DEF WorkspacesInv, AnswerUpload
  <2>3. Homely'
    BY <1>2, HomelySame DEF WorkspacesInv, AnswerUpload, Homely, HomesTyped
  <2> QED BY <2>1, <2>2, <2>3 DEF WorkspacesInv
<1>3. ASSUME NEW w \in Workspace, NEW p \in Preference, UpdatePreferences(c, w, p)
      PROVE  WorkspacesInv'
  <2>1. Placed'
    BY <1>3, PlacedActivated, PlacedSame DEF WorkspacesInv, UpdatePreferences
  <2>2. DesksTyped'
    BY <1>3, DesksServe DEF WorkspacesInv, UpdatePreferences
  <2>3. prefs' \in [Workspace -> Preference \cup {None}]
    BY <1>3 DEF WorkspacesInv, UpdatePreferences, Homely, HomesTyped
  <2>4. Homely'
    BY <1>3, <2>3, HomelySame DEF WorkspacesInv, UpdatePreferences
  <2> QED BY <2>1, <2>2, <2>4 DEF WorkspacesInv
<1> QED BY <1>1, <1>2, <1>3

LEMMA RequestsThatQueue ==
  ASSUME WorkspacesAssumption, WorkspacesInv, NEW c \in Client,
         QueueProfileJob(c) \/ QueueMatchingJob(c)
  PROVE  WorkspacesInv'
<1>1. PICK w \in Workspace, kind \in JobKind, r \in Text :
        /\ ActivateDefault /\ UNCHANGED raced
        /\ Enqueue(kind, w, r)
        /\ Rest(c) /\ SameProfiles
        /\ UNCHANGED <<prefs, match, task, served>>
  <2>1. desk[c].resume \in Text /\ None \in Text
    BY DeskFields DEF WorkspacesInv, Text
  <2>2. "profile_generation" \in JobKind /\ "matching" \in JobKind
    BY DEF JobKind
  <2> QED BY <2>1, <2>2 DEF QueueProfileJob, QueueMatchingJob
<1>2. Placed'
  BY <1>1, PlacedActivated DEF WorkspacesInv
<1>3. DesksTyped'
  BY <1>1, DesksRest DEF WorkspacesInv
<1>4. Homely'
  BY <1>1, HomelyQueued DEF WorkspacesInv
<1> QED BY <1>2, <1>3, <1>4 DEF WorkspacesInv

LEMMA RequestsThatSave ==
  ASSUME WorkspacesAssumption, WorkspacesInv, NEW c \in Client, SaveUpload(c)
  PROVE  WorkspacesInv'
<1> DEFINE r == desk[c].resume
           row == [present |-> TRUE, resume |-> r, extracted |-> desk[c].carry]
           d == [IdleDesk EXCEPT !.step = "queueing", !.resume = r]
<1>1. PICK w \in Workspace :
        /\ AtStep(c, "saving") /\ ActivateDefault /\ UNCHANGED raced
        /\ SetProfile(w, row)
        /\ uploaded' = [uploaded EXCEPT ![w] = @ \cup {r}]
        /\ UNCHANGED wiped
        /\ Proceed(c, d)
        /\ UNCHANGED <<prefs, match, queue, task, served>>
  BY DEF SaveUpload
<1>2. r \in Resume /\ desk[c].carry \in Text
  BY <1>1, DeskFields DEF WorkspacesInv, Names, AtStep
<1>3. row \in ProfileRow /\ row.resume = r
  BY <1>2 DEF ProfileRow, Text
<1>4. d \in DeskRow /\ Names(d)
  <2>1. "queueing" \in DeskStep \ {"deleting", "removing"} /\ r \in Text
    BY <1>2 DEF DeskStep, Text
  <2> HIDE DEF r
  <2> QED BY <2>1, DeskRead
<1> HIDE DEF r, row, d
<1>5. /\ uploaded' \in [Workspace -> SUBSET Resume] /\ r \in uploaded'[w]
      /\ \A v \in Workspace : uploaded[v] \subseteq uploaded'[v]
  BY <1>1, <1>2 DEF WorkspacesInv, Homely, HomesTyped
<1>6. Placed'
  BY <1>1, PlacedActivated DEF WorkspacesInv
<1>7. DesksTyped'
  BY <1>1, <1>4, DesksMove DEF WorkspacesInv
<1>8. Homely'
  BY <1>1, <1>3, <1>5, HomelyProfileSet DEF WorkspacesInv
<1> QED BY <1>6, <1>7, <1>8 DEF WorkspacesInv

LEMMA RequestsThatRemove ==
  ASSUME WorkspacesAssumption, WorkspacesInv, NEW c \in Client,
         DeleteResume(c) \/ DeleteProfile(c)
  PROVE  WorkspacesInv'
<1>1. /\ Arrive(c) /\ SameWorkspaces
      /\ UNCHANGED <<uploaded, wiped, prefs, match, queue, desk, task>>
  BY DEF DeleteResume, DeleteProfile
<1>2. Placed' /\ DesksTyped'
  BY <1>1, PlacedSame, DesksServe DEF WorkspacesInv
<1>3. PICK w \in Workspace : \E row \in ProfileRow : row.resume = None /\ SetProfile(w, row)
  <2>1. CASE DeleteResume(c)
    <3>1. PICK w \in active : SetProfile(w, [profile[w] EXCEPT !.resume = None])
      BY <2>1 DEF DeleteResume
    <3>2. w \in Workspace /\ profile[w] \in ProfileRow
      BY DEF WorkspacesInv, Placed, Homely, HomesTyped
    <3>3. /\ [profile[w] EXCEPT !.resume = None] \in ProfileRow
          /\ [profile[w] EXCEPT !.resume = None].resume = None
      BY <3>2 DEF ProfileRow, Text
    <3> QED BY <3>1, <3>2, <3>3
  <2>2. CASE DeleteProfile(c)
    <3>1. PICK w \in active : SetProfile(w, Absent)
      BY <2>2 DEF DeleteProfile
    <3> QED BY <3>1, AbsentTyped DEF WorkspacesInv, Placed
  <2> QED BY <2>1, <2>2
<1>4. Homely'
  BY <1>1, <1>3, HomelyProfileSet DEF WorkspacesInv, Homely, HomesTyped
<1> QED BY <1>2, <1>4 DEF WorkspacesInv

LEMMA RequestsAboutWorkspaces ==
  ASSUME WorkspacesAssumption, WorkspacesInv, NEW c \in Client,
         DeleteWorkspace(c) \/ \E w \in Workspace : CreateWorkspace(c, w)
  PROVE  WorkspacesInv'
<1>1. CASE DeleteWorkspace(c)
  <2>1. Placed' /\ DesksTyped'
    BY <1>1, PlacedDeleted, DesksRest DEF WorkspacesInv, DeleteWorkspace
  <2>2. desk[c].ws \in Workspace
    BY <1>1, DeskFields DEF WorkspacesInv, DeleteWorkspace, AtStep, Names
  <2> QED BY <1>1, <2>1, <2>2, HomelyDeleted DEF WorkspacesInv
<1>2. ASSUME NEW w \in Workspace, CreateWorkspace(c, w)  PROVE WorkspacesInv'
  <2>1. Placed' /\ DesksTyped'
    BY <1>2, PlacedCreated, DesksServe DEF WorkspacesInv, CreateWorkspace
  <2> QED BY <1>2, <2>1, HomelyCreated DEF WorkspacesInv
<1> QED BY <1>1, <1>2
-----------------------------------------------------------------------------
(* The theorems *)

LEMMA WorkspacesInvInit ==
  ASSUME WorkspacesAssumption, WorkspacesInit
  PROVE  WorkspacesInv
<1>1. /\ active = (IF live = <<>> THEN {} ELSE {Default})
      /\ prefs = [w \in Workspace |-> None]
      /\ match = [w \in Workspace |-> [p \in CorpusJob |-> Unmatched]]
      /\ queue = [s \in Slot |-> NoJob]
      /\ desk = [c \in Client |-> IdleDesk]
      /\ task = [t \in Task |-> IdleTask]
      /\ served = 0 /\ early = {} /\ raced = FALSE
      /\ uploaded = [w \in Workspace |-> {profile[w].resume} \ {None}]
      /\ had = [w \in Workspace |-> {profile[w].extracted}]
      /\ wiped = {}
  BY DEF WorkspacesInit
<1>2. /\ live \in Seq(Workspace) /\ IsInjective(live) /\ (live # <<>> => Default \in Live)
      /\ profile \in [Workspace -> ProfileRow]
  <2>1. CASE live = <<>> /\ profile = [w \in Workspace |-> Absent]
    BY <2>1, AbsentTyped DEF IsInjective
  <2>2. ASSUME NEW w \in Workspace \ {Default}, NEW r \in Resume, live = <<Default, w>>,
               profile = [v \in Workspace |->
                 IF v = Default THEN [present |-> TRUE, resume |-> r, extracted |-> r]
                 ELSE Absent]
        PROVE  /\ live \in Seq(Workspace) /\ IsInjective(live) /\ Default \in Live
               /\ profile \in [Workspace -> ProfileRow]
    <3>1. Default \in Workspace
      BY DEF WorkspacesAssumption
    <3>2. live \in Seq(Workspace) /\ IsInjective(live)
      BY <2>2, <3>1 DEF IsInjective
    <3>3. 1 \in DOMAIN live /\ live[1] = Default
      BY <2>2
    <3>4. [present |-> TRUE, resume |-> r, extracted |-> r] \in ProfileRow
      BY DEF ProfileRow, Text
    <3>5. profile \in [Workspace -> ProfileRow]
      BY <2>2, <3>4, AbsentTyped
    <3> QED BY <3>2, <3>3, <3>5 DEF Live, ToSet
  <2> QED BY <2>1, <2>2 DEF WorkspacesInit
<1>3. Placed
  <2>1. CASE live = <<>>
    <3>1. active = {} /\ Live = {}
      BY <1>1, <2>1 DEF Live, ToSet
    <3>2. early = {} /\ raced \in BOOLEAN
      BY <1>1
    <3> QED BY <3>1, <3>2, <1>2 DEF Placed
  <2>2. CASE live # <<>>
    <3>1. active = {Default} /\ Default \in Live /\ Default \in Workspace
      BY <1>1, <1>2, <2>2 DEF WorkspacesAssumption
    <3>2. early \in SUBSET Workspace /\ raced \in BOOLEAN
      BY <1>1
    <3> QED BY <3>1, <3>2, <1>2 DEF Placed
  <2> QED BY <2>1, <2>2
<1>4. DesksTyped
  BY <1>1, IdleDeskTyped DEF DesksTyped, WorkspacesAssumption
<1>5. HomesTyped
  <2>1. \A w \in Workspace : profile[w].resume \in Text /\ profile[w].extracted \in Text
    BY <1>2 DEF ProfileRow
  <2>2. prefs \in [Workspace -> Preference \cup {None}] /\ wiped \in SUBSET Task
        /\ queue \in [Slot -> Job \cup {NoJob}]
    BY <1>1
  <2>3. match \in [Workspace -> [CorpusJob -> MatchRow]] /\ task \in [Task -> TaskRow]
    BY <1>1, AbsentTyped, IdleTaskTyped
  <2>4. uploaded \in [Workspace -> SUBSET Resume] /\ had \in [Workspace -> SUBSET Text]
    BY <1>1, <2>1 DEF Text
  <2> QED BY <1>2, <2>2, <2>3, <2>4 DEF HomesTyped
<1>6. \A t \in Task : task[t].step = "idle"
  BY <1>1 DEF IdleTask
<1>7. TasksApart /\ StoresUploaded /\ MatchesHad /\ MatchingLeavesNoGaps
  BY <1>6 DEF TasksApart, StoresUploaded, MatchesHad, MatchingLeavesNoGaps, Works, Busy, Matches
<1>8. ProfilesHad /\ ResumesStayHome
  BY <1>1 DEF ProfilesHad, ResumesStayHome
<1>9. MatchesStayHome
  BY <1>1, AbsentTyped DEF MatchesStayHome
<1> QED BY <1>3, <1>4, <1>5, <1>7, <1>8, <1>9 DEF WorkspacesInv, Homely

LEMMA WorkspacesInvStep ==
  ASSUME WorkspacesAssumption, WorkspacesInv, [WorkspacesNext]_workspaceVars
  PROVE  WorkspacesInv'
<1>1. ASSUME NEW c \in Client, RequestStep(c)  PROVE WorkspacesInv'
  BY <1>1, RequestsThatRead, RequestsThatActivate, RequestsThatQueue, RequestsThatSave,
     RequestsThatRemove, RequestsAboutWorkspaces
  DEF RequestStep
<1>2. ASSUME NEW t \in Task, TaskStepOf(t)  PROVE WorkspacesInv'
  <2>1. UNCHANGED requestVars
    BY <1>2 DEF TaskStepOf, BeginExtraction, BeginMatching, CheckResume, StoreProfile,
         ReadPreferences, ReadDefaultRoles, LookUpMatch, SaveMatch, FailMatch, CompleteMatching, FailTask
  <2>2. Placed' /\ DesksTyped'
    BY <2>1, PlacedSame DEF requestVars, SameWorkspaces, WorkspacesInv, DesksTyped
  <2>3. active \in SUBSET Workspace
    BY DEF WorkspacesInv, Placed
  <2> QED BY <1>2, <2>2, <2>3, HomelyTask DEF WorkspacesInv
<1>3. CASE UNCHANGED workspaceVars
  <2>1. /\ Steady /\ UNCHANGED <<desk, served>>
    BY <1>3 DEF workspaceVars, Steady, SameWorkspaces, SameProfiles
  <2>2. DesksTyped'
    BY <2>1 DEF WorkspacesInv, DesksTyped
  <2> QED BY <2>1, <2>2, SteadyKeeps
<1> QED BY <1>1, <1>2, <1>3 DEF WorkspacesNext

\* The inductive invariant: what a thread is about to save comes from the
\* workspace it is about to save it in.
THEOREM WorkspacesInvariant == WorkspacesSpec => []WorkspacesInv
<1>1. WorkspacesInit => WorkspacesInv
  BY WorkspacesInvInit, WorkspacesAssumption
<1>2. WorkspacesInv /\ [WorkspacesNext]_workspaceVars => WorkspacesInv'
  BY WorkspacesInvStep, WorkspacesAssumption
<1> QED BY <1>1, <1>2, PTL DEF WorkspacesSpec

LEMMA TypesFromInv == ASSUME WorkspacesInv PROVE WorkspacesTypeOK
<1>1. \A t \in Task : task[t].step # "idle" => queue[task[t].slot] # NoJob
  BY NoJobIsNone DEF WorkspacesInv, Homely, TasksApart, Works, Busy
<1> QED BY <1>1 DEF WorkspacesInv, Placed, DesksTyped, Homely, HomesTyped, WorkspacesTypeOK

LEMMA OneActiveFromInv == ASSUME WorkspacesInv PROVE OneActive
<1>1. SUFFICES ASSUME ~raced PROVE Cardinality(active) <= 1
  BY DEF WorkspacesInv, Placed, OneActive
<1>2. \A v, w \in active : v = w
  BY <1>1 DEF WorkspacesInv, Placed
<1>3. CASE active = {}
  <2>1. Cardinality(active) = 0
    BY <1>3, FS_EmptySet
  <2> QED BY <2>1
<1>4. ASSUME NEW w \in active  PROVE Cardinality(active) <= 1
  <2>1. active = {w}
    BY <1>2, <1>4
  <2>2. Cardinality(active) = 1
    BY <2>1, FS_Singleton
  <2> QED BY <2>2
<1> QED BY <1>3, <1>4

\* Every table, request and thread holds what it may hold: no id is there
\* twice, and a thread at work has a job.
THEOREM WorkspacesTypesAreKept == WorkspacesSpec => []WorkspacesTypeOK
BY WorkspacesInvariant, TypesFromInv, PTL

\* However requests that create, switch and delete workspaces interleave, at
\* most one workspace is active, and it exists, unless a deletion or a switch
\* has acted on a row that had changed since it read it.
THEOREM OneIsActive == WorkspacesSpec => []OneActive
BY WorkspacesInvariant, OneActiveFromInv, PTL

\* Whatever is switched, replaced and deleted while a matching job runs, what
\* it saves into a workspace was computed from a profile of that workspace.
THEOREM MatchesAreOwn == WorkspacesSpec => []MatchesStayHome
BY WorkspacesInvariant, PTL DEF WorkspacesInv, Homely

\* No request and no profile job puts into a workspace a resume that was not
\* uploaded to it.
THEOREM ResumesAreOwn == WorkspacesSpec => []ResumesStayHome
BY WorkspacesInvariant, PTL DEF WorkspacesInv, Homely

\* A matching thread that works alone has matched every posting it is done
\* with, or counts it as failed.
THEOREM NoPostingIsSkipped == WorkspacesSpec => []MatchingLeavesNoGaps
BY WorkspacesInvariant, PTL DEF WorkspacesInv, Homely
=============================================================================
