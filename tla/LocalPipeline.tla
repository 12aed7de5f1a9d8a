---------------------------- MODULE LocalPipeline ----------------------------
(***************************************************************************)
(* The processes that share artifacts/: `make train` (optimizer/train.py), *)
(* the demo (scripts/run_local_demo.py: train, load, optimize) and the     *)
(* sessions of the UI (ui/app.py: a model of their own, never saved).      *)
(* They run side by side, may be killed at any point, and each keeps       *)
(* running the version of the code that it was started from.               *)
(***************************************************************************)
EXTENDS CostModel, PromotionLedger, FiniteSets

CONSTANTS
    Trainers, Demos, Sessions,  \* the processes
    TopK,                       \* decisions one run of the optimizer may take
    MaxCrashes                  \* bound on crashes

ASSUME PipelineAssumption ==
    /\ Trainers \cap Demos = {} /\ Sessions \cap (Trainers \cup Demos) = {}
    /\ TopK \in Nat /\ MaxCrashes \in Nat

Processes == Trainers \cup Demos \cup Sessions

VARIABLES
    pc, code,     \* per process: where it is, and the names in its code
    trained,      \* per process: the model it has to save
    serving,      \* per process: the model it decides with
    cached,       \* the model that all sessions of the UI share
    artifact,     \* artifacts/cost_model.joblib
    ledger,       \* artifacts/promotion_ledger.jsonl
    demo_ledger,  \* artifacts/demo_ledger.jsonl, the UI's own
    decided,      \* per process: decisions taken
    applied,      \* processes that have changed the layout of their table
    overlapped,   \* history: one process began to save while another did
    crashes       \* history: how many processes were killed

vars == <<pc, code, trained, serving, cached, artifact, ledger,
          demo_ledger, decided, applied, overlapped, crashes>>

Init ==
    /\ pc = [p \in Processes |-> "off"]
    /\ \E names \in FeatureNames : code = [p \in Processes |-> names]
    /\ trained = [p \in Processes |-> NoModel]
    /\ serving = [p \in Processes |-> NoModel]
    /\ cached = NoModel
    /\ artifact = NoArtifact
    /\ ledger = <<>> /\ demo_ledger = <<>>
    /\ decided = [p \in Processes |-> 0]
    /\ applied = {}
    /\ overlapped = FALSE
    /\ crashes = 0

Goto(p, label) == pc' = [pc EXCEPT ![p] = label]

At(p, label) == pc[p] = label

-----------------------------------------------------------------------------
\* A command runs the version of the code that it finds; a session runs that of
\* its server, which was started before everything else.
Start(p, names) ==
    /\ At(p, "off")
    /\ Goto(p, "train")
    /\ code' = [code EXCEPT ![p] = names]
    /\ UNCHANGED <<trained, serving, cached, artifact, ledger,
                   demo_ledger, decided, applied, overlapped, crashes>>

\* Mutant of Train: the gate is looked at after the save only.
TrainUngated(p, model) ==
    /\ p \in Trainers \cup Demos /\ At(p, "train")
    /\ model.features = code[p]
    /\ trained' = [trained EXCEPT ![p] = model]
    /\ Goto(p, "save")
    /\ UNCHANGED <<code, serving, cached, artifact, ledger,
                   demo_ledger, decided, applied, overlapped, crashes>>

\* train(): fit, score, and raise if the score is below the gate.
Train(p, model) ==
    /\ p \in Trainers \cup Demos /\ At(p, "train")
    /\ model.features = code[p]
    /\ IF model.r2 = "below 0.70"
       THEN Goto(p, "raised") /\ UNCHANGED trained
       ELSE Goto(p, "save") /\ trained' = [trained EXCEPT ![p] = model]
    /\ UNCHANGED <<code, serving, cached, artifact, ledger,
                   demo_ledger, decided, applied, overlapped, crashes>>

\* _train_model(): the first session fits, the others share; there is no gate.
TrainCached(p, model) ==
    /\ p \in Sessions /\ At(p, "train")
    /\ IF cached = NoModel THEN model.features = code[p] ELSE model = cached
    /\ cached' = model
    /\ serving' = [serving EXCEPT ![p] = model]
    /\ Goto(p, "optimize")
    /\ UNCHANGED <<code, trained, artifact, ledger, demo_ledger,
                   decided, applied, overlapped, crashes>>

OpenFile(p) ==
    LET dumping == {q \in Processes \ {p} : At(q, "dump")}
    IN  /\ At(p, "save")
        /\ Goto(p, "dump")
        /\ artifact' = OpenDump(p, dumping)
        /\ overlapped' = (overlapped \/ dumping # {})
        /\ UNCHANGED <<code, trained, serving, cached, ledger,
                       demo_ledger, decided, applied, crashes>>

\* The dump is complete; the demo goes on and loads the file again.
CloseFile(p) ==
    /\ At(p, "dump")
    /\ Goto(p, IF p \in Demos THEN "load" ELSE "done")
    /\ artifact' = CloseDump(p, artifact)
    /\ UNCHANGED <<code, trained, serving, cached, ledger,
                   demo_ledger, decided, applied, overlapped, crashes>>

\* CostModel.load: whatever is in the file by now, if it fits the code.
Load(p) ==
    /\ At(p, "load")
    /\ \E blob \in Readings(artifact, trained) :
           /\ MatchesContract(blob, code[p])
           /\ serving' = [serving EXCEPT ![p] = blob]
    /\ Goto(p, "optimize")
    /\ UNCHANGED <<code, trained, cached, artifact, ledger,
                   demo_ledger, decided, applied, overlapped, crashes>>

\* Nothing in the file that loads, or nothing that fits the code.
LoadRaises(p) ==
    /\ At(p, "load")
    /\ \/ artifact.complete = {} \/ IsMixed(artifact)
       \/ \E blob \in Readings(artifact, trained) : ~MatchesContract(blob, code[p])
    /\ Goto(p, "raised")
    /\ UNCHANGED <<code, trained, serving, cached, artifact, ledger,
                   demo_ledger, decided, applied, overlapped, crashes>>

-----------------------------------------------------------------------------
(* run_once                                                                *)

\* The ledger that a process writes to, and what it writes.
WriteEntry(p, promote, cut) ==
    LET entry == [by |-> p, promote |-> promote]
    IN  IF p \in Sessions
        THEN demo_ledger' = AppendEntry(demo_ledger, entry, cut) /\ UNCHANGED ledger
        ELSE ledger' = AppendEntry(ledger, entry, cut) /\ UNCHANGED demo_ledger

\* Mutant of Decide: only rejections are logged.
DecideUnlogged(p, promote) ==
    /\ At(p, "optimize") /\ decided[p] < TopK
    /\ decided' = [decided EXCEPT ![p] = @ + 1]
    /\ IF promote THEN UNCHANGED <<ledger, demo_ledger>>
                  ELSE WriteEntry(p, promote, "nothing")
    /\ Goto(p, IF promote THEN "apply" ELSE "optimize")
    /\ UNCHANGED <<code, trained, serving, cached, artifact, applied,
                   overlapped, crashes>>

\* A candidate is evaluated and the decision logged; one that clears the guard
\* goes on to be applied.
Decide(p, promote) ==
    /\ At(p, "optimize") /\ decided[p] < TopK
    /\ decided' = [decided EXCEPT ![p] = @ + 1]
    /\ WriteEntry(p, promote, "nothing")
    /\ Goto(p, IF promote THEN "apply" ELSE "optimize")
    /\ UNCHANGED <<code, trained, serving, cached, artifact, applied,
                   overlapped, crashes>>

Apply(p) ==
    /\ At(p, "apply")
    /\ applied' = applied \cup {p}
    /\ Goto(p, "done")
    /\ UNCHANGED <<code, trained, serving, cached, artifact, ledger,
                   demo_ledger, decided, overlapped, crashes>>

\* No candidate was left; one of the TopK may have been the layout in place.
NoPromotion(p) ==
    /\ At(p, "optimize") /\ decided[p] + 1 >= TopK
    /\ Goto(p, "done")
    /\ UNCHANGED <<code, trained, serving, cached, artifact, ledger,
                   demo_ledger, decided, applied, overlapped, crashes>>

-----------------------------------------------------------------------------
Running(p) == pc[p] \notin {"off", "done", "raised", "crashed"}

\* A process is killed, or one of its calls fails.  What it was dumping stays as it is.
Crash(p) ==
    /\ Running(p) /\ crashes < MaxCrashes
    /\ Goto(p, "crashed")
    /\ crashes' = crashes + 1
    /\ UNCHANGED <<code, trained, serving, cached, artifact, ledger,
                   demo_ledger, decided, applied, overlapped>>

\* It is killed in the middle of append_ledger: only part of the line is there.
CrashInAppend(p, promote, cut) ==
    /\ At(p, "optimize") /\ decided[p] < TopK /\ crashes < MaxCrashes
    /\ cut # "nothing"
    /\ Goto(p, "crashed")
    /\ crashes' = crashes + 1
    /\ WriteEntry(p, promote, cut)
    /\ UNCHANGED <<code, trained, serving, cached, artifact, decided,
                   applied, overlapped>>

Optimize(p) ==
    (\E promote \in BOOLEAN : Decide(p, promote)) \/ Apply(p) \/ NoPromotion(p)

TrainAndSave(p) ==
    \/ \E names \in FeatureNames : Start(p, names)
    \/ \E model \in Fitted : Train(p, model)
    \/ OpenFile(p) \/ CloseFile(p)

Demo(p) == TrainAndSave(p) \/ Load(p) \/ LoadRaises(p) \/ Optimize(p)

Session(p) ==
    \/ Start(p, code[p])
    \/ \E model \in Fitted : TrainCached(p, model)
    \/ Optimize(p)

Fault(p) ==
    Crash(p) \/ \E promote \in BOOLEAN, cut \in Cuts : CrashInAppend(p, promote, cut)

Next ==
    \/ \E p \in Trainers : TrainAndSave(p)
    \/ \E p \in Demos : Demo(p)
    \/ \E p \in Sessions : Session(p)
    \/ \E p \in Processes : Fault(p)

Spec == Init /\ [][Next]_vars

-----------------------------------------------------------------------------
\* "train() returns the held-out R^2 so CI can gate on model quality": whatever
\* is in the shared file, and whoever put it there, a decision in the ledger was
\* taken with a model that passed the gate, unless two processes saved at once.
DecisionsAreGated ==
    \A i \in DOMAIN ledger :
        LET model == serving[ledger[i].entry.by]
        IN  model.r2 = "at least 0.70" \/ (overlapped /\ model.r2 = "unknown")

\* The feature contract: no process decides with a model that was fitted to other
\* features than its own code extracts, even if a newer or an older version of
\* the code saves a model just before it loads one.
ServedModelFitsCode ==
    \A p \in Processes : serving[p] # NoModel => serving[p].features = code[p]

\* The entry of a promotion that p made.
PromotionOf(p) == [by |-> p, promote |-> TRUE]

\* Demos that changed a layout, and no line of the ledger shows it.
Hidden ==
    {p \in applied \cap Demos :
        ~\E i \in DOMAIN ledger :
            IsShown(ledger, i) /\ ledger[i].entry = PromotionOf(p)}

Torn == {i \in DOMAIN ledger : ledger[i].cut # "nothing"}

\* "Every decision is written to the append-only ledger": a layout change is
\* shown to whoever reads the ledger, except that each append that a crash cut
\* short can take one later entry with it.
OneHiddenPerTear == Cardinality(Hidden) <= Cardinality(Torn)

\* What the ledger has shown it shows for ever, except for a last line without
\* its newline, which the next entry spoils.
ShownStaysShown ==
    [][\A i \in DOMAIN ledger :
          IsShown(ledger, i) =>
              \/ i \in DOMAIN ledger' /\ ledger'[i] = ledger[i] /\ IsShown(ledger', i)
              \/ i = Len(ledger) /\ ledger[i].cut = "newline"]_vars
=============================================================================
