---------------------------- MODULE IngestionProofs ----------------------------
(***************************************************************************)
(* What holds of IngestionRuns for any number of processes, runs and       *)
(* crashes, in both modes of the API.                                      *)
(***************************************************************************)
EXTENDS IngestionRuns, FiniteSetTheorems, TLAPS

-----------------------------------------------------------------------------
(* The building blocks of the actions. *)

\* Where a process may be with what in hand.
Fits(step, e, r) ==
  /\ step \in PC /\ e \in Errand /\ r \in Run \cup {NoRun}
  /\ step \in {"idle", "creating"} <=> r = NoRun

\* Process p goes to a step it may be at.
Heads(p, step) ==
  \E e \in Errand, r \in Run \cup {NoRun} : Fits(step, e, r) /\ Proceed(p, step, e, r)

\* The part of the type invariant about processes.
ProcessTypeOK ==
  /\ pc \in [Process -> PC]
  /\ errand \in [Process -> Errand]
  /\ held \in [Process -> Run \cup {NoRun}]
  /\ \A p \in Process : pc[p] \in {"idle", "creating"} <=> held[p] = NoRun

\* The part of the type invariant about the table.
TableTypeOK ==
  /\ runs \in [Run -> RunRow]
  /\ later \in [Run -> SUBSET Run]
  /\ orphans \in SUBSET Run

\* A process that goes where its hands allow keeps the types and changes nothing
\* about the others.
LEMMA ProceedStep ==
  ASSUME ProcessTypeOK, NEW p \in Process, NEW step, NEW e, NEW r,
         Fits(step, e, r), Proceed(p, step, e, r)
  PROVE  /\ ProcessTypeOK'
         /\ pc'[p] = step /\ held'[p] = r
         /\ \A q \in Process \ {p} : pc'[q] = pc[q] /\ held'[q] = held[q]
BY DEF ProcessTypeOK, Fits, Proceed

\* So does one that heads for a step.
LEMMA HeadsStep ==
  ASSUME ProcessTypeOK, NEW p \in Process, NEW step, Heads(p, step)
  PROVE  /\ ProcessTypeOK'
         /\ pc'[p] = step
         /\ \A q \in Process \ {p} : pc'[q] = pc[q] /\ held'[q] = held[q]
<1>1. PICK e \in Errand, r \in Run \cup {NoRun} : Fits(step, e, r) /\ Proceed(p, step, e, r)
  BY DEF Heads
<1> QED BY <1>1, ProceedStep

\* A written row is the new one; the others stay, and later stays a map of sets.
LEMMA WriteStep ==
  ASSUME TableTypeOK, NEW r \in Run, NEW row \in RunRow, WriteRun(r, row)
  PROVE  /\ TableTypeOK'
         /\ runs'[r] = row
         /\ \A s \in Run \ {r} : runs'[s] = runs[s]
         /\ orphans' = orphans \ {r}
BY DEF TableTypeOK, WriteRun

\* A change of status leaves a row.
LEMMA StatusRow ==
  ASSUME TableTypeOK, NEW r \in Run, NEW status \in Active \cup Closed
  PROVE  LET row == [runs[r] EXCEPT !.status = status] IN
           row \in RunRow /\ row.status = status
BY DEF TableTypeOK, RunRow

\* Leaving run_ingestion, a process rests or reports.
LEMMA ReturnStep ==
  ASSUME ProcessTypeOK, NEW p \in Process, held[p] \in Run, Return(p)
  PROVE  \E step \in {"idle", "reporting"} : Heads(p, step)
<1>1. CASE errand[p] = "scan"
  <2>1. Fits("reporting", "scan", held[p]) /\ Proceed(p, "reporting", "scan", held[p])
    BY <1>1 DEF Return, Fits, PC, Errand, NoRun, Run
  <2>2. "scan" \in Errand /\ held[p] \in Run \cup {NoRun}
    BY <2>1 DEF Fits
  <2>3. Heads(p, "reporting")
    BY <2>1, <2>2 DEF Heads
  <2> QED BY <2>3
<1>2. CASE errand[p] # "scan"
  <2>1. Fits("idle", "queue", NoRun) /\ Proceed(p, "idle", "queue", NoRun)
    BY <1>2 DEF Return, Rest, Fits, PC, Errand
  <2>2. "queue" \in Errand /\ NoRun \in Run \cup {NoRun}
    BY <2>1 DEF Fits
  <2>3. Heads(p, "idle")
    BY <2>1, <2>2 DEF Heads
  <2> QED BY <2>3
<1> QED BY <1>1, <1>2

\* With a run found, a process rests or reads it.
LEMMA ObtainStep ==
  ASSUME ProcessTypeOK, NEW p \in Process, NEW e \in Errand, NEW r \in Run, Obtain(p, e, r)
  PROVE  \E step \in {"idle", "reading"} : Heads(p, step)
<1>1. CASE e = "queue"
  <2>1. Fits("idle", "queue", NoRun) /\ Proceed(p, "idle", "queue", NoRun)
    BY <1>1 DEF Obtain, Rest, Fits, PC, Errand
  <2>2. "queue" \in Errand /\ NoRun \in Run \cup {NoRun}
    BY <2>1 DEF Fits
  <2>3. Heads(p, "idle")
    BY <2>1, <2>2 DEF Heads
  <2> QED BY <2>3
<1>2. CASE e # "queue"
  <2>1. Fits("reading", e, r) /\ Proceed(p, "reading", e, r)
    BY <1>2 DEF Obtain, Fits, PC, Errand, NoRun, Run
  <2>2. e \in Errand /\ r \in Run \cup {NoRun}
    BY <2>1 DEF Fits
  <2>3. Heads(p, "reading")
    BY <2>1, <2>2 DEF Heads
  <2> QED BY <2>3
<1> QED BY <1>1, <1>2

-----------------------------------------------------------------------------
(* What the steps of a process look like to the invariants. *)

\* Process p goes to a step; the others stay where they are.
Goes(p, step) ==
  /\ pc'[p] = step
  /\ \A q \in Process \ {p} : pc'[q] = pc[q] /\ held'[q] = held[q]

\* One row gets a status, and no longer is an orphan.
Writes(r, status) ==
  /\ runs'[r].status = status
  /\ \A s \in Run \ {r} : runs'[s] = runs[s]
  /\ orphans' = orphans \ {r}

Quiet(p) ==
  /\ pc[p] \in {"idle", "reading", "reporting"}
  /\ \/ \E step \in {"idle", "reading", "reporting"} : Goes(p, step)
     \/ Goes(p, "starting") /\ IsActive(held'[p])
  /\ UNCHANGED <<runs, orphans>>

Looks(p) ==
  /\ pc[p] = "idle" /\ Goes(p, "creating")
  /\ \A r \in Run : ~IsActive(r)
  /\ UNCHANGED <<runs, orphans>>

Creates(p) ==
  /\ pc[p] = "creating"
  /\ \E step \in {"idle", "reading"} : Goes(p, step)
  /\ \E r \in Run : ~IsActive(r) /\ Writes(r, "queued")

Starts(p) ==
  /\ pc[p] = "starting" /\ Goes(p, "fetching") /\ held'[p] = held[p]
  /\ held[p] \in Run
  /\ Writes(held[p], "running")

Closes(p) ==
  /\ pc[p] \in {"reading", "starting", "fetching"}
  /\ \E step \in {"idle", "reporting"} : Goes(p, step)
  /\ held[p] \in Run
  /\ \E status \in Closed : Writes(held[p], status)

Dies(p) ==
  /\ Goes(p, "idle")
  /\ UNCHANGED runs
  /\ orphans \subseteq orphans'
  /\ pc[p] = "fetching" /\ runs[held[p]].status = "running" => held[p] \in orphans'

\* Every step of the specification is one of these, and keeps the types.
LEMMA StepShapes ==
  ASSUME IngestionAssumption, IngestionTypeOK, Next
  PROVE  /\ IngestionTypeOK'
         /\ \E p \in Process : \/ Quiet(p) \/ Looks(p) \/ Creates(p)
                               \/ Starts(p) \/ Closes(p) \/ Dies(p)
<1>1. ProcessTypeOK /\ TableTypeOK /\ crashes \in 0..MaxCrashes
  BY DEF IngestionTypeOK, ProcessTypeOK, TableTypeOK
<1>2. ASSUME ProcessTypeOK', TableTypeOK', crashes' \in 0..MaxCrashes
      PROVE  IngestionTypeOK'
  BY <1>2 DEF IngestionTypeOK, ProcessTypeOK, TableTypeOK
<1>3. ASSUME UNCHANGED tableVars PROVE TableTypeOK' /\ UNCHANGED <<runs, orphans>>
  BY <1>1, <1>3 DEF TableTypeOK, tableVars
<1>4. ASSUME NEW p \in Process, pc[p] \notin {"idle", "creating"} PROVE held[p] \in Run
  BY <1>1, <1>4 DEF ProcessTypeOK
<1>5. ASSUME UNCHANGED crashes PROVE crashes' \in 0..MaxCrashes
  BY <1>1, <1>5
<1> HIDE DEF Process
<1>6. ASSUME NEW p \in Process, Join(p) \/ (p \in Worker /\ Poll(p))
      PROVE  IngestionTypeOK' /\ Quiet(p)
  <2>1. PICK r \in Run, e \in Errand : Obtain(p, e, r)
    BY <1>6 DEF Join, Poll, Errand
  <2>2. PICK step \in {"idle", "reading"} : Heads(p, step)
    BY <1>1, <2>1, ObtainStep
  <2>3. ProcessTypeOK' /\ Goes(p, step)
    BY <1>1, <2>2, HeadsStep DEF Goes
  <2>4. pc[p] = "idle" /\ UNCHANGED <<tableVars, crashes>>
    BY <1>6 DEF Join, Poll
  <2> QED BY <1>2, <1>3, <1>5, <2>3, <2>4 DEF Quiet
<1>7. ASSUME NEW p \in Process, FindNone(p) PROVE IngestionTypeOK' /\ Looks(p)
  <2>1. PICK e \in Errand : Proceed(p, "creating", e, NoRun)
    BY <1>7 DEF FindNone
  <2>2. Fits("creating", e, NoRun)
    BY DEF Fits, PC
  <2>3. ProcessTypeOK' /\ Goes(p, "creating")
    BY <1>1, <2>1, <2>2, ProceedStep DEF Goes
  <2> QED BY <1>2, <1>3, <1>5, <1>7, <2>3 DEF FindNone, Looks
<1>8. ASSUME NEW p \in Process, CreateRun(p) PROVE IngestionTypeOK' /\ Creates(p)
  <2> DEFINE row == [status |-> "queued", result |-> FALSE]
  <2>1. PICK r \in FreeRuns : WriteRun(r, row) /\ Obtain(p, errand[p], r)
    BY <1>8 DEF CreateRun
  <2>2. r \in Run /\ ~IsActive(r) /\ errand[p] \in Errand /\ row \in RunRow
    BY <1>1, <2>1 DEF FreeRuns, ProcessTypeOK, RunRow, Active
  <2>3. PICK step \in {"idle", "reading"} : Heads(p, step)
    BY <1>1, <2>1, <2>2, ObtainStep
  <2>4. ProcessTypeOK' /\ Goes(p, step)
    BY <1>1, <2>3, HeadsStep DEF Goes
  <2>5. row.status = "queued"
    OBVIOUS
  <2> HIDE DEF row
  <2>6. TableTypeOK' /\ Writes(r, "queued")
    BY <1>1, <2>1, <2>2, <2>5, WriteStep DEF Writes
  <2> QED BY <1>2, <1>5, <1>8, <2>2, <2>4, <2>6 DEF CreateRun, Creates
<1>9. ASSUME NEW p \in Process, ReadRun(p) PROVE IngestionTypeOK' /\ Quiet(p)
  <2>0. held[p] \in Run /\ pc[p] = "reading" /\ UNCHANGED <<tableVars, crashes>>
    BY <1>4, <1>9 DEF ReadRun
  <2>1. CASE IsActive(held[p])
    <3>1. Proceed(p, "starting", errand[p], held[p])
      BY <1>9, <2>1 DEF ReadRun
    <3>2. Fits("starting", errand[p], held[p])
      BY <1>1, <2>0 DEF Fits, PC, ProcessTypeOK, NoRun, Run
    <3>3. ProcessTypeOK' /\ Goes(p, "starting") /\ held'[p] = held[p]
      BY <1>1, <3>1, <3>2, ProceedStep DEF Goes
    <3> QED BY <1>2, <1>3, <1>5, <2>0, <2>1, <3>3 DEF Quiet
  <2>2. CASE ~IsActive(held[p])
    <3>1. PICK step \in {"idle", "reporting"} : Heads(p, step)
      BY <1>1, <1>9, <2>0, <2>2, ReturnStep DEF ReadRun
    <3>2. ProcessTypeOK' /\ Goes(p, step)
      BY <1>1, <3>1, HeadsStep DEF Goes
    <3> QED BY <1>2, <1>3, <1>5, <2>0, <3>2 DEF Quiet
  <2> QED BY <2>1, <2>2
<1>10. ASSUME NEW p \in Process, StartRun(p) PROVE IngestionTypeOK' /\ Starts(p)
  <2> DEFINE row == [runs[held[p]] EXCEPT !.status = "running"]
  <2>0. held[p] \in Run /\ pc[p] = "starting" /\ UNCHANGED crashes
    BY <1>4, <1>10 DEF StartRun
  <2>1. row \in RunRow /\ row.status = "running"
    BY <1>1, <2>0, StatusRow DEF Active
  <2>2. WriteRun(held[p], row) /\ Proceed(p, "fetching", errand[p], held[p])
    BY <1>10 DEF StartRun, SetStatus
  <2> HIDE DEF row
  <2>3. TableTypeOK' /\ Writes(held[p], "running")
    BY <1>1, <2>0, <2>1, <2>2, WriteStep DEF Writes
  <2>4. Fits("fetching", errand[p], held[p])
    BY <1>1, <2>0 DEF Fits, PC, ProcessTypeOK, NoRun, Run
  <2>5. ProcessTypeOK' /\ Goes(p, "fetching") /\ held'[p] = held[p]
    BY <1>1, <2>2, <2>4, ProceedStep DEF Goes
  <2> QED BY <1>2, <1>5, <2>0, <2>3, <2>5 DEF Starts
<1>11. ASSUME NEW p \in Process, CompleteRun(p) \/ FailRun(p) PROVE IngestionTypeOK' /\ Closes(p)
  <2>0. /\ held[p] \in Run /\ pc[p] \in {"reading", "starting", "fetching"}
        /\ Return(p) /\ UNCHANGED crashes
    BY <1>4, <1>11 DEF CompleteRun, FailRun
  <2>1. PICK row \in RunRow : row.status \in Closed /\ WriteRun(held[p], row)
    <3>1. CASE CompleteRun(p)
      <4>1. [status |-> "completed", result |-> TRUE] \in RunRow
        BY DEF RunRow, Closed
      <4> QED BY <3>1, <4>1 DEF CompleteRun, Closed
    <3>2. CASE FailRun(p)
      BY <1>1, <2>0, <3>2, StatusRow DEF FailRun, SetStatus, Closed
    <3> QED BY <1>11, <3>1, <3>2
  <2>2. TableTypeOK' /\ Writes(held[p], row.status)
    BY <1>1, <2>0, <2>1, WriteStep DEF Writes
  <2>3. PICK step \in {"idle", "reporting"} : Heads(p, step)
    BY <1>1, <2>0, ReturnStep
  <2>4. ProcessTypeOK' /\ Goes(p, step)
    BY <1>1, <2>3, HeadsStep DEF Goes
  <2> QED BY <1>2, <1>5, <2>0, <2>1, <2>2, <2>4 DEF Closes
<1>12. ASSUME NEW p \in Process, Report(p) PROVE IngestionTypeOK' /\ Quiet(p)
  <2>1. Proceed(p, "idle", "queue", NoRun) /\ Fits("idle", "queue", NoRun)
    BY <1>12 DEF Report, Rest, Fits, PC, Errand
  <2>2. ProcessTypeOK' /\ Goes(p, "idle")
    BY <1>1, <2>1, ProceedStep DEF Goes
  <2> QED BY <1>2, <1>3, <1>5, <1>12, <2>2 DEF Report, Quiet
<1>13. ASSUME NEW p \in Process, Crash(p) PROVE IngestionTypeOK' /\ Dies(p)
  <2>1. Proceed(p, "idle", "queue", NoRun) /\ Fits("idle", "queue", NoRun)
    BY <1>13 DEF Crash, Rest, Fits, PC, Errand
  <2>2. ProcessTypeOK' /\ Goes(p, "idle")
    BY <1>1, <2>1, ProceedStep DEF Goes
  <2>3. crashes' \in 0..MaxCrashes
    BY <1>1, <1>13, IngestionAssumption DEF IngestionAssumption, Crash
  <2>4. TableTypeOK' /\ UNCHANGED runs /\ orphans \subseteq orphans'
    BY <1>1, <1>13 DEF Crash, TableTypeOK
  <2>5. pc[p] = "fetching" /\ runs[held[p]].status = "running" => held[p] \in orphans'
    BY <1>4, <1>13 DEF Crash
  <2> QED BY <1>2, <2>2, <2>3, <2>4, <2>5 DEF Dies
<1>14. Worker \subseteq Process
  BY DEF Process
<1> QED
  BY <1>6, <1>7, <1>8, <1>9, <1>10, <1>11, <1>12, <1>13, <1>14 DEF Next, Execute

\* Every variable keeps to its type, and only processes with a run in hand work.
THEOREM IngestionTypes == Spec => []IngestionTypeOK
<1>1. Init => IngestionTypeOK
  BY IngestionAssumption DEF IngestionAssumption, Init, IngestionTypeOK, RunRow, PC, Errand
<1>2. IngestionTypeOK /\ [Next]_vars => IngestionTypeOK'
  <2>1. ASSUME IngestionTypeOK, UNCHANGED vars PROVE IngestionTypeOK'
    BY <2>1 DEF IngestionTypeOK, vars
  <2> QED BY <2>1, StepShapes, IngestionAssumption
<1> QED BY <1>1, <1>2, PTL DEF Spec

-----------------------------------------------------------------------------
(* Running runs *)

\* Whatever overlaps, a running run has an executor or an executor that died.
THEOREM RunningFetched == Spec => []RunningRunsAreFetched
<1>1. Init => RunningRunsAreFetched
  BY DEF Init, RunningRunsAreFetched
<1>2. ASSUME IngestionTypeOK, RunningRunsAreFetched, [Next]_vars PROVE RunningRunsAreFetched'
  <2>1. CASE UNCHANGED vars
    BY <1>2, <2>1 DEF vars, RunningRunsAreFetched
  <2>2. CASE Next
    <3>1. PICK p \in Process : \/ Quiet(p) \/ Looks(p) \/ Creates(p)
                            \/ Starts(p) \/ Closes(p) \/ Dies(p)
      BY <1>2, <2>2, StepShapes, IngestionAssumption
    <3> SUFFICES ASSUME NEW r \in Run, runs'[r].status = "running", r \notin orphans'
                 PROVE  \E q \in Process : pc'[q] = "fetching" /\ held'[q] = r
      BY DEF RunningRunsAreFetched
    <3> HIDE DEF Process, Run
    <3>2. CASE Quiet(p) \/ Looks(p)
      <4>1. PICK q \in Process : pc[q] = "fetching" /\ held[q] = r
        BY <1>2, <3>2 DEF RunningRunsAreFetched, Quiet, Looks
      <4> QED BY <3>2, <4>1 DEF Quiet, Looks, Goes
    <3>3. CASE Creates(p)
      <4>1. runs[r].status = "running" /\ r \notin orphans
        BY <3>3 DEF Creates, Writes
      <4>2. PICK q \in Process : pc[q] = "fetching" /\ held[q] = r
        BY <1>2, <4>1 DEF RunningRunsAreFetched
      <4> QED BY <3>3, <4>2 DEF Creates, Goes
    <3>4. CASE Starts(p)
      <4>1. CASE r = held[p]
        BY <3>4, <4>1 DEF Starts, Goes
      <4>2. CASE r # held[p]
        <5>1. runs[r].status = "running" /\ r \notin orphans
          BY <3>4, <4>2 DEF Starts, Writes
        <5>2. PICK q \in Process : pc[q] = "fetching" /\ held[q] = r
          BY <1>2, <5>1 DEF RunningRunsAreFetched
        <5> QED BY <3>4, <4>2, <5>2 DEF Starts, Goes
      <4> QED BY <4>1, <4>2
    <3>5. CASE Closes(p)
      <4>1. r # held[p] /\ runs[r].status = "running" /\ r \notin orphans
        BY <3>5 DEF Closes, Writes, Closed
      <4>2. PICK q \in Process : pc[q] = "fetching" /\ held[q] = r
        BY <1>2, <4>1 DEF RunningRunsAreFetched
      <4> QED BY <3>5, <4>1, <4>2 DEF Closes, Goes
    <3>6. CASE Dies(p)
      <4>1. runs[r].status = "running" /\ r \notin orphans
        BY <3>6 DEF Dies
      <4>2. PICK q \in Process : pc[q] = "fetching" /\ held[q] = r
        BY <1>2, <4>1 DEF RunningRunsAreFetched
      <4>3. q # p
        BY <3>6, <4>1, <4>2 DEF Dies
      <4> QED BY <3>6, <4>2, <4>3 DEF Dies, Goes
    <3> QED BY <3>1, <3>2, <3>3, <3>4, <3>5, <3>6
  <2> QED BY <1>2, <2>1, <2>2
<1> QED BY <1>1, <1>2, IngestionTypes, PTL DEF Spec

-----------------------------------------------------------------------------
(* The backlog *)

\* Runs that are active or that a late process is about to make active again.
Live == {r \in Run : IsActive(r) \/ \E p \in Process : pc[p] = "starting" /\ held[p] = r}

\* Processes that have seen no active run and are about to create one.
Creating == {p \in Process : pc[p] = "creating"}

\* Every live run is owed to a process of its own, and so is every creation.
BacklogInv == Cardinality(Live) + Cardinality(Creating) <= Cardinality(Process)

\* The sets counted are finite.
LEMMA BacklogFinite ==
  /\ IsFiniteSet(Run) /\ IsFiniteSet(Process)
  /\ IsFiniteSet(Live) /\ IsFiniteSet(Creating)
  /\ IsFiniteSet(Live') /\ IsFiniteSet(Creating')
<1>0. IsFiniteSet(Run)
  <2>1. 1 \in Int /\ NumRuns \in Int
    BY IngestionAssumption DEF IngestionAssumption
  <2>2. IsFiniteSet(1..NumRuns)
    BY <2>1, FS_Interval
  <2> QED BY <2>2 DEF Run
<1>1. IsFiniteSet(Process)
  BY IngestionAssumption, FS_Union DEF IngestionAssumption, Process
<1>2. /\ Live \in SUBSET Run /\ Creating \in SUBSET Process
      /\ Live' \in SUBSET Run /\ Creating' \in SUBSET Process
  BY DEF Live, Creating
<1> HIDE DEF Run, Process, Live, Creating
<1> QED BY <1>0, <1>1, <1>2, FS_Subset

\* The sum does not grow when neither set does.
LEMMA BacklogShrinks ==
  ASSUME BacklogInv, Live' \subseteq Live, Creating' \subseteq Creating
  PROVE  BacklogInv'
<1>1. Cardinality(Live') <= Cardinality(Live) /\ Cardinality(Creating') <= Cardinality(Creating)
  BY BacklogFinite, FS_Subset
<1>2. /\ Cardinality(Live) \in Nat /\ Cardinality(Live') \in Nat /\ Cardinality(Process) \in Nat
      /\ Cardinality(Creating) \in Nat /\ Cardinality(Creating') \in Nat
  BY BacklogFinite, FS_CardinalityType
<1> QED BY <1>1, <1>2 DEF BacklogInv

\* Who sees no active run counts on nothing but the processes: each of those that
\* start may bring back one run, and is not among those that create.
LEMMA BacklogAfterLook ==
  ASSUME IngestionTypeOK, NEW p \in Process, Looks(p)
  PROVE  BacklogInv'
<1> DEFINE S == Live'
           C == Creating'
<1> HIDE DEF Run, Process
<1>1. \A r \in S : \E q \in Process \ C : pc'[q] = "starting" /\ held'[q] = r
  BY DEF Live, Creating, Looks, IsActive
<1> DEFINE starter(r) == CHOOSE q \in Process \ C : pc'[q] = "starting" /\ held'[q] = r
<1>2. \A r \in S : starter(r) \in Process \ C /\ held'[starter(r)] = r
  BY <1>1
<1> DEFINE f == [r \in S |-> starter(r)]
<1>3. f \in Injection(S, Process \ C)
  <2>1. f \in [S -> Process \ C]
    BY <1>2
  <2>2. ASSUME NEW a \in S, NEW b \in S, f[a] = f[b] PROVE a = b
    BY <1>2, <2>2
  <2> HIDE DEF f, S, C
  <2> QED BY <2>1, <2>2 DEF Injection, IsInjective
<1>4. IsFiniteSet(Process) /\ IsFiniteSet(S) /\ IsFiniteSet(C) /\ C \in SUBSET Process
  BY BacklogFinite DEF Creating
<1> HIDE DEF f, S, C
<1>5. /\ IsFiniteSet(Process \ C)
      /\ Cardinality(Process \ C) = Cardinality(Process) - Cardinality(Process \cap C)
  BY <1>4, FS_Difference
<1>6. Process \cap C = C
  BY <1>4
<1>7. Cardinality(S) <= Cardinality(Process \ C)
  BY <1>3, <1>5, FS_Injection
<1>8. Cardinality(S) \in Nat /\ Cardinality(C) \in Nat /\ Cardinality(Process) \in Nat
  BY <1>4, FS_CardinalityType
<1>9. Cardinality(S) + Cardinality(C) <= Cardinality(Process)
  BY <1>5, <1>6, <1>7, <1>8
<1> QED BY <1>9 DEF BacklogInv, S, C

\* A creation takes a process from one side and puts a run on the other.
LEMMA BacklogAfterCreation ==
  ASSUME BacklogInv, NEW p \in Process, Creates(p)
  PROVE  BacklogInv'
<1> HIDE DEF Run, Process
<1>1. PICK r \in Run : ~IsActive(r) /\ Writes(r, "queued")
  BY DEF Creates
<1>2. Live' \subseteq Live \cup {r}
  BY <1>1 DEF Live, IsActive, Creates, Goes, Writes
<1>3. p \in Creating /\ Creating' \subseteq Creating \ {p}
  BY DEF Creating, Creates, Goes
<1>4. /\ IsFiniteSet(Live \cup {r})
      /\ Cardinality(Live \cup {r}) <= Cardinality(Live) + 1
  <2>1. Cardinality(Live) \in Nat
    BY BacklogFinite, FS_CardinalityType
  <2>2. IsFiniteSet(Live)
    BY BacklogFinite
  <2> DEFINE L == Live
  <2> HIDE DEF L
  <2>3. /\ IsFiniteSet(L \cup {r})
        /\ Cardinality(L \cup {r}) = IF r \in L THEN Cardinality(L) ELSE Cardinality(L) + 1
    BY <2>2, FS_AddElement, Zenon DEF L
  <2>4. Cardinality(L) \in Nat
    BY <2>1 DEF L
  <2>5. Cardinality(L \cup {r}) <= Cardinality(L) + 1
    BY <2>3, <2>4
  <2> QED BY <2>3, <2>5 DEF L
<1>5. /\ IsFiniteSet(Creating \ {p})
      /\ Cardinality(Creating \ {p}) = Cardinality(Creating) - 1
  BY <1>3, BacklogFinite, FS_RemoveElement
<1>6. /\ Cardinality(Live') <= Cardinality(Live \cup {r})
      /\ Cardinality(Creating') <= Cardinality(Creating \ {p})
  BY <1>2, <1>3, <1>4, <1>5, FS_Subset
<1>7. /\ Cardinality(Live) \in Nat /\ Cardinality(Live') \in Nat /\ Cardinality(Process) \in Nat
      /\ Cardinality(Creating) \in Nat /\ Cardinality(Creating') \in Nat
      /\ Cardinality(Live \cup {r}) \in Nat
  BY <1>4, BacklogFinite, FS_CardinalityType
<1> QED BY <1>4, <1>5, <1>6, <1>7 DEF BacklogInv

\* The check before creation bounds the backlog, although it is not atomic with it.
THEOREM BacklogBound == Spec => []BacklogIsBounded
<1>1. Init => BacklogInv
  <2> SUFFICES ASSUME Init PROVE BacklogInv
    OBVIOUS
  <2>1. Live = {} /\ Creating = {}
    BY DEF Init, Live, Creating, IsActive, Active
  <2>2. Cardinality(Process) \in Nat
    BY BacklogFinite, FS_CardinalityType
  <2> QED BY <2>1, <2>2, FS_EmptySet DEF BacklogInv
<1>2. ASSUME IngestionTypeOK, BacklogInv, [Next]_vars PROVE BacklogInv'
  <2> HIDE DEF Process, Run
  <2>1. CASE UNCHANGED vars
    <3>1. Live' = Live /\ Creating' = Creating
      BY <2>1 DEF vars, Live, Creating, IsActive
    <3> QED BY <1>2, <3>1, BacklogShrinks
  <2>2. CASE Next
    <3>1. PICK p \in Process : \/ Quiet(p) \/ Looks(p) \/ Creates(p)
                            \/ Starts(p) \/ Closes(p) \/ Dies(p)
      BY <1>2, <2>2, StepShapes, IngestionAssumption
    <3>2. CASE Quiet(p)
      <4>1. Live' \subseteq Live /\ Creating' \subseteq Creating
        BY <3>2 DEF Quiet, Goes, Live, Creating, IsActive
      <4> QED BY <1>2, <4>1, BacklogShrinks
    <3>3. CASE Starts(p)
      <4>1. Live' \subseteq Live /\ Creating' \subseteq Creating
        BY <3>3 DEF Starts, Writes, Goes, Live, Creating, IsActive
      <4> QED BY <1>2, <4>1, BacklogShrinks
    <3>4. CASE Closes(p)
      <4>1. Live' \subseteq Live /\ Creating' \subseteq Creating
        BY <3>4 DEF Closes, Closed, Active, Writes, Goes, Live, Creating, IsActive
      <4> QED BY <1>2, <4>1, BacklogShrinks
    <3>5. CASE Dies(p)
      <4>1. Live' \subseteq Live /\ Creating' \subseteq Creating
        BY <3>5 DEF Dies, Goes, Live, Creating, IsActive
      <4> QED BY <1>2, <4>1, BacklogShrinks
    <3> QED
      BY <1>2, <3>1, <3>2, <3>3, <3>4, <3>5, BacklogAfterLook, BacklogAfterCreation
  <2> QED BY <1>2, <2>1, <2>2
<1>3. BacklogInv => BacklogIsBounded
  <2> DEFINE A == {r \in Run : IsActive(r)}
  <2>1. A \in SUBSET Live
    BY DEF Live
  <2> HIDE DEF A, Run, Process
  <2>2. Cardinality(A) <= Cardinality(Live) /\ IsFiniteSet(A)
    BY <2>1, BacklogFinite, FS_Subset
  <2>3. /\ Cardinality(A) \in Nat /\ Cardinality(Live) \in Nat
        /\ Cardinality(Creating) \in Nat /\ Cardinality(Process) \in Nat
    BY <2>2, BacklogFinite, FS_CardinalityType
  <2> QED BY <2>2, <2>3 DEF BacklogInv, BacklogIsBounded, A
<1> QED BY <1>1, <1>2, <1>3, IngestionTypes, PTL DEF Spec
=============================================================================
