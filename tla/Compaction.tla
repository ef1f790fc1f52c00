----------------------------- MODULE Compaction -----------------------------
(***************************************************************************)
(* The compactor (slatedb/compaction) beside the writer's memtable flusher *)
(* (slatedb/flush.go), in one process, over the manifest both rewrite.     *)
(*                                                                         *)
(* The orchestrator's loop, the executor's worker goroutines and the       *)
(* flusher interleave.  Neither put of a manifest is atomic with the       *)
(* Exists before it, so each side can overwrite what the other has just    *)
(* written.                                                                *)
(*                                                                         *)
(* What the writer flushes are batches 1, 2, ...: batch n is the contents  *)
(* of the memtable that ends with WAL n.  An SST is the set of batches     *)
(* whose entries it holds.  WALs stay in the object store, so that after a *)
(* restart the batches above lastCompactedWalSSTID can be flushed again,   *)
(* several in one SST perhaps.                                             *)
(***************************************************************************)
EXTENDS CoreDBState, FiniteSets, Functions

CONSTANTS L0Threshold,  \* L0 SSTs that make the scheduler act (4 in the code)
          MaxBatches,   \* bound on the batches written
          MaxOpens,     \* bound on the times the process is started
          Events        \* which of AllEvents happen

(* A crash of the process, a failed call to the object store, a failed      *)
(* compaction job, and Close.                                               *)
AllEvents == {"crash", "fail", "jobfail", "close"}

ASSUME ParametersAssumption ==
  /\ L0Threshold \in Nat \ {0}
  /\ MaxBatches \in Nat
  /\ MaxOpens \in Nat
  /\ Events \subseteq AllEvents

VARIABLES
  ssts,        \* SSTs in the object store, by number
  manifest,    \* the latest manifest file
  opens,       \* times the process has been started
  \* the writer
  core,        \* DBState.core
  w,           \* the flusher: place, StoredManifest and manifest it is putting
  \* the compactor
  o,           \* the orchestrator: the same
  state,       \* CompactorState.DbState
  compactions, \* CompactorState.Compactions: destination -> sources
  workers,     \* goroutines of Executor.startCompaction
  resultCh,    \* Executor.resultCh, of capacity 1
  stopped,     \* Executor.stopped
  closeSent    \* compactorMsgCh holds CompactorShutdown

writerVars == <<core, w>>
execVars == <<workers, resultCh, stopped, closeSent>>
compactorVars == <<o, state, compactions, execVars>>
vars == <<ssts, manifest, opens, writerVars, compactorVars>>

Manifest == [id : Nat, core : CoreState]
NoManifest == [id |-> 0, core |-> NewCoreDBState]

(* A goroutine at pc that holds no manifest. *)
At(pc, stored) == [pc |-> pc, stored |-> stored, put |-> NoManifest]

Down == At("down", NoManifest)

NoCompactions == [d \in {} |-> <<>>]

Init ==
  /\ ssts = <<>>
  /\ manifest = ManifestFile([id |-> 1, core |-> NewCoreDBState])
  /\ opens = 0
  /\ core = NewCoreDBState
  /\ w = Down
  /\ o = Down
  /\ state = NewCoreDBState
  /\ compactions = NoCompactions
  /\ workers = {}
  /\ resultCh = <<>>
  /\ stopped = FALSE
  /\ closeSent = FALSE

(* The process ends: by a crash, or by a failed assertion. *)
Die ==
  /\ core' = NewCoreDBState
  /\ w' = Down
  /\ o' = Down
  /\ state' = NewCoreDBState
  /\ compactions' = NoCompactions
  /\ workers' = {}
  /\ resultCh' = <<>>
  /\ stopped' = FALSE
  /\ closeSent' = FALSE

Crash ==
  /\ "crash" \in Events
  /\ w.pc # "down"
  /\ Die
  /\ UNCHANGED <<ssts, manifest, opens>>

-----------------------------------------------------------------------------
(* A put of a manifest: the id after the stored one; the Exists; and, a     *)
(* step later, the upload, which may overwrite.                             *)

Latest == ReadManifest(manifest)

Exists(id) == id <= manifest.id

Land(man) == manifest' = IF man.id >= manifest.id THEN ManifestFile(man) ELSE manifest

Putting(c, pc, contents) ==
  [c EXCEPT !.pc = pc, !.put = [id |-> c.stored.id + 1, core |-> contents]]

(* The put is done and StoredManifest holds it. *)
Written(c, pc) == At(pc, c.put)

-----------------------------------------------------------------------------
(* The writer *)

(* Open: the writer's epoch goes into a new manifest.  The compactor is     *)
(* started last, when the flusher is already running.                       *)
OpenWriter ==
  /\ w.pc = "down"
  /\ opens < MaxOpens
  /\ opens' = opens + 1
  /\ Land([Latest EXCEPT !.id = @ + 1])
  /\ core' = Latest.core
  /\ w' = At("idle", [Latest EXCEPT !.id = @ + 1])
  /\ o' = At("start", NoManifest)
  /\ UNCHANGED <<ssts, state, compactions, execVars>>

(* Mutants: the memtable also holds what was flushed last; the new SST goes *)
(* to the back of L0.                                                       *)
FlushToL0Again(batch) ==
  /\ w.pc = "idle"
  /\ batch > core.lastCompactedWalSSTID
  /\ ssts' = Append(ssts, core.lastCompactedWalSSTID .. batch)
  /\ core' = [core EXCEPT !.l0 = <<Len(ssts) + 1>> \o @,
                          !.lastCompactedWalSSTID = batch,
                          !.nextWalSstID = batch + 1]
  /\ w' = [w EXCEPT !.pc = "load"]
  /\ UNCHANGED <<manifest, opens, compactorVars>>

FlushToL0Back(batch) ==
  /\ w.pc = "idle"
  /\ batch > core.lastCompactedWalSSTID
  /\ ssts' = Append(ssts, core.lastCompactedWalSSTID + 1 .. batch)
  /\ core' = [core EXCEPT !.l0 = @ \o <<Len(ssts) + 1>>,
                          !.lastCompactedWalSSTID = batch,
                          !.nextWalSstID = batch + 1]
  /\ w' = [w EXCEPT !.pc = "load"]
  /\ UNCHANGED <<manifest, opens, compactorVars>>

(* flushImmMemtablesToL0 up to MoveImmMemtableToL0: the memtable holds the  *)
(* batches up to the one named.                                             *)
FlushToL0(batch) ==
  /\ w.pc = "idle"
  /\ batch > core.lastCompactedWalSSTID
  /\ ssts' = Append(ssts, core.lastCompactedWalSSTID + 1 .. batch)
  /\ core' = [core EXCEPT !.l0 = <<Len(ssts) + 1>> \o @,
                          !.lastCompactedWalSSTID = batch,
                          !.nextWalSstID = batch + 1]
  /\ w' = [w EXCEPT !.pc = "load"]
  /\ UNCHANGED <<manifest, opens, compactorVars>>

(* loadManifest, by the ticker or in writeManifestSafely. *)
WriterLoad ==
  /\ w.pc \in {"idle", "load"}
  /\ core' = RefreshDBState(core, Latest.core)
  /\ w' = At(IF w.pc = "idle" THEN "idle" ELSE "write", Latest)
  /\ UNCHANGED <<ssts, manifest, opens, compactorVars>>

WriterExists ==
  /\ w.pc = "write"
  /\ w' = IF Exists(w.stored.id + 1) THEN [w EXCEPT !.pc = "load"]
          ELSE Putting(w, "put", core)
  /\ UNCHANGED <<ssts, manifest, opens, core, compactorVars>>

WriterPut ==
  /\ w.pc = "put"
  /\ Land(w.put)
  /\ w' = Written(w, "idle")
  /\ UNCHANGED <<ssts, opens, core, compactorVars>>

(* The flusher logs the error and waits for its next message. *)
WriterFails ==
  /\ "fail" \in Events
  /\ w.pc \in {"load", "write", "put"}
  /\ UNCHANGED manifest \/ (w.pc = "put" /\ Land(w.put))
  /\ w' = At("idle", w.stored)
  /\ UNCHANGED <<ssts, opens, core, compactorVars>>

-----------------------------------------------------------------------------
(* The orchestrator starts: NewOrchestrator *)

StartLoad ==
  /\ o.pc = "start"
  /\ o' = At("bump", Latest)
  /\ UNCHANGED <<ssts, manifest, opens, writerVars, state, compactions, execVars>>

(* NewCompactorFenceableManifest does not retry: when the flusher has       *)
(* written a manifest in between, Open fails.                               *)
StartExists ==
  /\ o.pc = "bump"
  /\ o' = IF Exists(o.stored.id + 1) THEN At("failed", NoManifest)
          ELSE Putting(o, "bumpPut", o.stored.core)
  /\ UNCHANGED <<ssts, manifest, opens, writerVars, state, compactions, execVars>>

StartPut ==
  /\ o.pc = "bumpPut"
  /\ Land(o.put)
  /\ o' = Written(o, "loop")
  /\ state' = o.put.core
  /\ UNCHANGED <<ssts, opens, writerVars, compactions, execVars>>

StartFails ==
  /\ "fail" \in Events
  /\ o.pc \in {"start", "bump", "bumpPut"}
  /\ UNCHANGED manifest \/ (o.pc = "bumpPut" /\ Land(o.put))
  /\ o' = At("failed", NoManifest)
  /\ UNCHANGED <<ssts, opens, writerVars, state, compactions, execVars>>

-----------------------------------------------------------------------------
(* The orchestrator *)

(* maybeScheduleCompaction of the size-tiered scheduler, for the state st:  *)
(* all of L0 goes into a new sorted run.                                    *)
NeedsCompaction(st) == Len(st.l0) >= L0Threshold

(* Mutant: the id of the first sorted run for each. *)
NextSortedRunIDFirst(st) == 0

NextSortedRunID(st) == IF st.compacted = <<>> THEN 0 ELSE st.compacted[1].id + 1

(* Mutant: compactions under way are not looked at. *)
AcceptsAny(st, comps, dest) == \A i \in DOMAIN st.compacted : st.compacted[i].id # dest

(* CompactorState.SubmitCompaction takes one compaction per destination. *)
Accepts(st, comps, dest) ==
  /\ dest \notin DOMAIN comps
  /\ \A i \in DOMAIN st.compacted : st.compacted[i].id # dest

(* Mutant: the job gets the newest SSTs of L0. *)
MaybeScheduleNewest(st, comps) ==
  LET dest == NextSortedRunID(st)
      accepted == NeedsCompaction(st) /\ Accepts(st, comps, dest)
      sources == SubSeq(st.l0, 1, L0Threshold)
      job == [dest |-> dest, sources |-> sources, pc |-> "start", out |-> 0]
  IN  /\ compactions' = IF accepted
                        THEN [d \in DOMAIN comps \cup {dest} |->
                                IF d = dest THEN sources ELSE comps[d]]
                        ELSE comps
      /\ workers' = IF accepted /\ ~stopped THEN workers \cup {job} ELSE workers

(* maybeScheduleCompactions, down to Executor.startCompaction. *)
MaybeSchedule(st, comps) ==
  LET dest == NextSortedRunID(st)
      accepted == NeedsCompaction(st) /\ Accepts(st, comps, dest)
      job == [dest |-> dest, sources |-> st.l0, pc |-> "start", out |-> 0]
  IN  /\ compactions' = IF accepted
                        THEN [d \in DOMAIN comps \cup {dest} |->
                                IF d = dest THEN st.l0 ELSE comps[d]]
                        ELSE comps
      /\ workers' = IF accepted /\ ~stopped THEN workers \cup {job} ELSE workers

(* loadManifest, by the ticker, which ends with the executor, or in         *)
(* writeManifest.                                                           *)
OrchestratorLoad ==
  /\ o.pc = "load" \/ (o.pc = "loop" /\ ~stopped)
  /\ state' = CompactorRefresh(state, Latest.core)
  /\ MaybeSchedule(state', compactions)
  /\ o' = At(IF o.pc = "loop" THEN "loop" ELSE "write", Latest)
  /\ UNCHANGED <<ssts, manifest, opens, writerVars, resultCh, stopped, closeSent>>

(* The elements of s at the indices in keep, in their order: the slice that *)
(* a loop builds which appends the elements it keeps.                       *)
Kept(s, keep) ==
  [k \in 1..Cardinality(keep) |->
     s[CHOOSE i \in keep : Cardinality({j \in keep : j <= i}) = k]]

(* Mutant: the new sorted run goes to the end of the list. *)
FinishCompactionAppends(st, sources, sr) ==
  [st EXCEPT !.l0 = Kept(@, {i \in DOMAIN @ : @[i] \notin Range(sources)}),
             !.compacted = Append(@, sr),
             !.l0LastCompacted = sources[1]]

(* CompactorState.FinishCompaction of a submitted compaction. *)
FinishCompaction(st, sources, sr) ==
  [st EXCEPT !.l0 = Kept(@, {i \in DOMAIN @ : @[i] \notin Range(sources)}),
             !.compacted = Kept(@, {i \in DOMAIN @ : @[i].id > sr.id})
                             \o <<sr>> \o Kept(@, {i \in DOMAIN @ : @[i].id < sr.id}),
             !.l0LastCompacted = sources[1]]

(* processCompactionResult.  The result of a failed job is logged and its   *)
(* compaction stays submitted; any other ends in writeManifest.             *)
ProcessResult ==
  /\ o.pc = "loop"
  /\ resultCh # <<>>
  /\ resultCh' = Tail(resultCh)
  /\ LET sr == Head(resultCh)
     IN  \/ /\ sr.sst = 0
            /\ UNCHANGED <<o, state, compactions>>
         \/ /\ sr.sst # 0
            /\ o' = [o EXCEPT !.pc = "load"]
            /\ state' = FinishCompaction(state, compactions[sr.id], sr)
            /\ compactions' = [d \in DOMAIN compactions \ {sr.id} |-> compactions[d]]
  /\ UNCHANGED <<ssts, manifest, opens, writerVars, workers, stopped, closeSent>>

OrchestratorExists ==
  /\ o.pc = "write"
  /\ o' = IF Exists(o.stored.id + 1) THEN [o EXCEPT !.pc = "load"]
          ELSE Putting(o, "put", state)
  /\ UNCHANGED <<ssts, manifest, opens, writerVars, state, compactions, execVars>>

(* The put, and the maybeScheduleCompactions that ends FinishCompaction. *)
OrchestratorPut ==
  /\ o.pc = "put"
  /\ Land(o.put)
  /\ MaybeSchedule(state, compactions)
  /\ o' = Written(o, "loop")
  /\ UNCHANGED <<ssts, opens, writerVars, state, resultCh, stopped, closeSent>>

(* Any other error fails an assertion of spawnLoop or of                    *)
(* processCompactionResult, and takes the process down.                     *)
OrchestratorPanics ==
  /\ "fail" \in Events
  /\ o.pc \in {"load", "write", "put"} \/ (o.pc = "loop" /\ ~stopped)
  /\ UNCHANGED manifest \/ (o.pc = "put" /\ Land(o.put))
  /\ Die
  /\ UNCHANGED <<ssts, opens>>

-----------------------------------------------------------------------------
(* The executor's goroutines *)

WorkerStarts(x) ==
  /\ x.pc = "start"
  /\ workers' = (workers \ {x}) \cup (IF stopped THEN {} ELSE {[x EXCEPT !.pc = "run"]})
  /\ UNCHANGED <<ssts, manifest, opens, writerVars, o, state, compactions, resultCh,
                 stopped, closeSent>>

(* executeCompaction: the sources, merged and written. *)
WorkerRuns(x) ==
  /\ x.pc = "run"
  /\ ssts' = Append(ssts, UNION {ssts[x.sources[i]] : i \in DOMAIN x.sources})
  /\ workers' = (workers \ {x}) \cup {[x EXCEPT !.pc = "send", !.out = Len(ssts) + 1]}
  /\ UNCHANGED <<manifest, opens, writerVars, o, state, compactions, resultCh, stopped,
                 closeSent>>

WorkerFails(x) ==
  /\ "jobfail" \in Events
  /\ x.pc = "run"
  /\ workers' = (workers \ {x}) \cup {[x EXCEPT !.pc = "send"]}
  /\ UNCHANGED <<ssts, manifest, opens, writerVars, o, state, compactions, resultCh,
                 stopped, closeSent>>

WorkerSends(x) ==
  /\ x.pc = "send"
  /\ Len(resultCh) < 1
  /\ resultCh' = Append(resultCh, [id |-> x.dest, sst |-> x.out])
  /\ workers' = workers \ {x}
  /\ UNCHANGED <<ssts, manifest, opens, writerVars, o, state, compactions, stopped,
                 closeSent>>

-----------------------------------------------------------------------------
(* Orchestrator.shutdown sends CompactorShutdown. *)
CloseCompactor ==
  /\ "close" \in Events
  /\ o.pc \in {"loop", "load", "write", "put"}
  /\ ~stopped
  /\ ~closeSent
  /\ closeSent' = TRUE
  /\ UNCHANGED <<ssts, manifest, opens, writerVars, o, state, compactions, workers,
                 resultCh, stopped>>

(* Mutant: the executor is not marked as stopped. *)
StopExecutorUnmarked ==
  /\ o.pc = "loop"
  /\ closeSent
  /\ closeSent' = FALSE
  /\ o' = [o EXCEPT !.pc = "stopping"]
  /\ UNCHANGED <<ssts, manifest, opens, writerVars, state, compactions, workers, resultCh, stopped>>

(* Executor.stop, which waits for the goroutines ... *)
StopExecutor ==
  /\ o.pc = "loop"
  /\ closeSent
  /\ closeSent' = FALSE
  /\ stopped' = TRUE
  /\ o' = [o EXCEPT !.pc = "stopping"]
  /\ UNCHANGED <<ssts, manifest, opens, writerVars, state, compactions, workers, resultCh>>

(* ... which are gone. *)
ExecutorStopped ==
  /\ o.pc = "stopping"
  /\ workers = {}
  /\ o' = [o EXCEPT !.pc = "loop"]
  /\ UNCHANGED <<ssts, manifest, opens, writerVars, state, compactions, execVars>>

LoopExits ==
  /\ o.pc = "loop"
  /\ stopped
  /\ resultCh = <<>>
  /\ o' = [o EXCEPT !.pc = "done"]
  /\ UNCHANGED <<ssts, manifest, opens, writerVars, state, compactions, execVars>>

-----------------------------------------------------------------------------
Next ==
  \/ Crash
  \/ OpenWriter
  \/ \E batch \in 1..MaxBatches : FlushToL0(batch)
  \/ WriterLoad
  \/ WriterExists
  \/ WriterPut
  \/ WriterFails
  \/ StartLoad
  \/ StartExists
  \/ StartPut
  \/ StartFails
  \/ OrchestratorLoad
  \/ ProcessResult
  \/ OrchestratorExists
  \/ OrchestratorPut
  \/ OrchestratorPanics
  \/ \E x \in workers : WorkerStarts(x) \/ WorkerRuns(x) \/ WorkerFails(x) \/ WorkerSends(x)
  \/ CloseCompactor
  \/ StopExecutor
  \/ ExecutorStopped
  \/ LoopExits

Spec == Init /\ [][Next]_vars

-----------------------------------------------------------------------------
WriterPc == {"down", "idle", "load", "write", "put"}
CompactorPc == {"down", "start", "bump", "bumpPut", "failed", "loop", "load", "write", "put",
                "stopping", "done"}
Goroutine(pcs) == [pc : pcs, stored : Manifest, put : Manifest]
Worker == [dest : Nat, sources : Seq(Nat), pc : {"start", "run", "send"}, out : Nat]

TypeOK ==
  /\ ssts \in Seq(SUBSET (1..MaxBatches))
  /\ manifest \in [id : Nat, core : ManifestV1]
  /\ opens \in Nat
  /\ core \in CoreState
  /\ w \in Goroutine(WriterPc)
  /\ o \in Goroutine(CompactorPc)
  /\ state \in CoreState
  /\ compactions \in [DOMAIN compactions -> Seq(Nat)] /\ DOMAIN compactions \subseteq Nat
  /\ workers \subseteq Worker
  /\ resultCh \in Seq(SortedRun)
  /\ stopped \in BOOLEAN
  /\ closeSent \in BOOLEAN

(* The SSTs of a state in the order in which Get looks at them. *)
Layers(c) ==
  [i \in DOMAIN c.l0 |-> ssts[c.l0[i]]] \o
  [i \in DOMAIN c.compacted |-> ssts[c.compacted[i].sst]]

(* Where Get first comes upon a batch. *)
Found(c, batch) == {i \in DOMAIN Layers(c) : batch \in Layers(c)[i]}

Complete(c) == \A batch \in 1..c.lastCompactedWalSSTID : Found(c, batch) # {}

NewestFirst(c) ==
  \A new \in 1..c.lastCompactedWalSSTID : \A old \in 1..new-1 :
    \A i \in Found(c, old) : \E j \in Found(c, new) : j <= i

(* Every batch that the WAL replay would skip is in the SSTs of the latest  *)
(* manifest and of the writer, whatever the two sides have overwritten of   *)
(* each other's manifests.                                                  *)
NothingLost == Complete(Latest.core) /\ Complete(core)

(* And Get comes upon a newer batch no later than upon an older one.        *)
NewestWins == NewestFirst(Latest.core) /\ NewestFirst(core)

(* A compaction under way was given the oldest L0 SSTs and these are still  *)
(* the oldest, so that cutting L0 at its first source removes exactly its   *)
(* sources.                                                                 *)
SourcesAreOldest ==
  \A d \in DOMAIN compactions :
    \E n \in 0..Len(state.l0) : compactions[d] = SubSeq(state.l0, n + 1, Len(state.l0))

(* assertCompactedSRsInIDOrder, for every state that is written. *)
SortedRunsInIDOrder ==
  \A c \in {Latest.core, core, state} :
    \A i, j \in DOMAIN c.compacted : i < j => c.compacted[i].id > c.compacted[j].id

(* There is one job at a time, so that a goroutine that sends its result    *)
(* never finds resultCh full: Executor.stop, which waits for it in the only *)
(* goroutine that receives, does not wait for ever.                         *)
OneJob == Cardinality(workers) + Len(resultCh) <= 1

(* Fairness: the goroutines are scheduled.  With the loop's channel and the *)
(* ticker both ready, select takes either some time.                        *)
FairSpec ==
  /\ Spec
  /\ WF_vars(OrchestratorLoad) /\ WF_vars(OrchestratorExists)
  /\ WF_vars(OrchestratorPut) /\ WF_vars(ExecutorStopped)
  /\ SF_vars(StopExecutor) /\ SF_vars(ProcessResult) /\ SF_vars(LoopExits)
  /\ WF_vars(\E x \in workers : WorkerStarts(x) \/ WorkerRuns(x) \/ WorkerSends(x))

(* A job that has failed: its compaction stays submitted, and no other is   *)
(* accepted for its destination.                                            *)
JobFailed == DOMAIN compactions # {} /\ workers = {} /\ resultCh = <<>>

(* "If compaction is needed, the Orchestrator gives Jobs to the Executor":  *)
(* an L0 that has reached the threshold is compacted some time, unless a    *)
(* job has failed, after which the compactor compacts nothing more.         *)
FullL0Compacted ==
  (o.pc = "loop" /\ NeedsCompaction(state)) ~>
    (~NeedsCompaction(state) \/ JobFailed \/ stopped \/ o.pc = "down")

(* Close of the compactor returns: the loop ends, with the result of a job  *)
(* under way processed first.                                               *)
ShutdownCompletes == closeSent ~> (o.pc \in {"done", "down"})

=============================================================================
