-------------------------- MODULE LocalPipelineProofs --------------------------
(***************************************************************************)
(* The processes around artifacts/, for any number of them.                *)
(*                                                                         *)
(* Only models that passed the gate get into the file (ArtifactIsGated),   *)
(* and two dumps mix only where two processes saved at once; so much goes  *)
(* for what a demo loads (DemosServeGated), and for what it decides.  An   *)
(* applied promotion has a complete entry (PromotionsAreLogged), which is  *)
(* hidden only behind a torn one of its own.                               *)
(***************************************************************************)
EXTENDS LocalPipeline, FiniteSetTheorems, TLAPS

Entries == [entry : [by : Processes, promote : BOOLEAN], cut : Cuts]

Labels == {"off", "train", "save", "dump", "load", "optimize", "apply",
           "done", "raised", "crashed"}

Types ==
    /\ pc \in [Processes -> Labels]
    /\ code \in [Processes -> FeatureNames]
    /\ trained \in [Processes -> Fitted \cup {NoModel}]
    /\ serving \in [Processes -> Fitted \cup Mixtures \cup {NoModel}]
    /\ artifact \in [writers : SUBSET Processes, complete : SUBSET Processes]
    /\ ledger \in Seq(Entries)
    /\ applied \subseteq Processes
    /\ overlapped \in BOOLEAN

\* Who is where: only demos load, trainers do not optimize, sessions do not save.
Roles ==
    /\ \A p \in Trainers : pc[p] \notin {"load", "optimize", "apply"}
    /\ \A p \in Sessions : pc[p] \notin {"save", "dump", "load"}
    /\ \A p \in Processes : pc[p] \in {"off", "train"} => serving[p] = NoModel

IsGated(p) == trained[p].r2 = "at least 0.70"

ArtifactIsGated ==
    /\ artifact.complete \subseteq artifact.writers
    /\ \A p \in Processes : pc[p] \in {"save", "dump"} => IsGated(p)
    /\ \A p \in Processes : pc[p] = "dump" => p \in artifact.writers
    /\ \A p \in artifact.writers : IsGated(p) /\ pc[p] \notin {"off", "train", "save"}
    /\ IsMixed(artifact) => overlapped

DecidesGated(p) ==
    serving[p].r2 = "at least 0.70" \/ (overlapped /\ serving[p].r2 = "unknown")

DemosServeGated ==
    /\ \A p \in Demos : pc[p] = "optimize" => DecidesGated(p)
    /\ \A i \in DOMAIN ledger : ledger[i].entry.by \in Demos
    /\ \A i \in DOMAIN ledger : pc[ledger[i].entry.by] \notin {"off", "train", "save", "dump", "load"}

\* The sessions share the code, and their model fits it.
SessionsAgree ==
    /\ \A p, q \in Sessions : code[p] = code[q]
    /\ \A p \in Sessions : cached # NoModel => cached.features = code[p]

IsLogged(p, i) ==
    ledger[i].entry = PromotionOf(p) /\ ledger[i].cut = "nothing"

PromotionsAreLogged ==
    \A p \in Demos :
        p \in applied \/ pc[p] = "apply" => \E i \in DOMAIN ledger : IsLogged(p, i)

Inv ==
    /\ Types /\ Roles /\ ArtifactIsGated /\ DemosServeGated /\ DecisionsAreGated
    /\ SessionsAgree /\ ServedModelFitsCode /\ PromotionsAreLogged

LEMMA InvInit == Init => Inv
<1> SUFFICES ASSUME Init PROVE Inv
  OBVIOUS
<1> USE DEF Init
<1>1. Types
  <2>1. code \in [Processes -> FeatureNames]
    OBVIOUS
  <2>2. pc \in [Processes -> Labels]
    BY DEF Labels
  <2>3. /\ trained \in [Processes -> Fitted \cup {NoModel}]
        /\ serving \in [Processes -> Fitted \cup Mixtures \cup {NoModel}]
    OBVIOUS
  <2>4. artifact \in [writers : SUBSET Processes, complete : SUBSET Processes]
    BY DEF NoArtifact
  <2>5. ledger \in Seq(Entries)
    <3>1. ledger = <<>>
      OBVIOUS
    <3> HIDE DEF Init
    <3> QED  BY <3>1
  <2>6. applied \subseteq Processes /\ overlapped \in BOOLEAN
    OBVIOUS
  <2> QED  BY <2>1, <2>2, <2>3, <2>4, <2>5, <2>6 DEF Types
<1>2. Roles /\ SessionsAgree /\ ServedModelFitsCode
  BY DEF Roles, SessionsAgree, ServedModelFitsCode, Processes
<1>3. ArtifactIsGated
  BY DEF ArtifactIsGated, NoArtifact, IsMixed
<1>4. /\ DOMAIN ledger = {} /\ applied = {}
      /\ \A p \in Demos : pc[p] = "off"
  BY DEF Processes
<1>5. DemosServeGated /\ DecisionsAreGated /\ PromotionsAreLogged
  BY <1>4 DEF DemosServeGated, DecisionsAreGated, PromotionsAreLogged
<1> QED  BY <1>1, <1>2, <1>3, <1>5 DEF Inv

\* What an append does to the ledger.
LEMMA AppendEntryFacts ==
  ASSUME Types, NEW p \in Processes, NEW promote \in BOOLEAN, NEW cut \in Cuts,
         ledger' = AppendEntry(ledger, [by |-> p, promote |-> promote], cut)
  PROVE  /\ Len(ledger) \in Nat /\ DOMAIN ledger = 1..Len(ledger)
         /\ ledger' \in Seq(Entries) /\ DOMAIN ledger' = 1..(Len(ledger) + 1)
         /\ Len(ledger') = Len(ledger) + 1
         /\ ledger'[Len(ledger) + 1].entry = [by |-> p, promote |-> promote]
         /\ ledger'[Len(ledger) + 1].cut = cut
         /\ \A i \in DOMAIN ledger : ledger'[i] = ledger[i]
<1> DEFINE e == [entry |-> [by |-> p, promote |-> promote], cut |-> cut]
<1>1. e \in Entries /\ e.entry = [by |-> p, promote |-> promote] /\ e.cut = cut
  BY DEF Entries
<1>2. ledger' = Append(ledger, e) /\ ledger \in Seq(Entries)
  BY DEF AppendEntry, Types
<1> HIDE DEF e
<1> QED  BY <1>1, <1>2

-----------------------------------------------------------------------------
(* What p goes on to disturbs a part of Inv only if the rest of the step   *)
(* does: one lemma for each part.                                          *)

\* p goes to the label, and everybody else stays.
Moves(p, label) == pc' = [pc EXCEPT ![p] = label]

LEMMA MovesFacts ==
  ASSUME Types, NEW p \in Processes, NEW label \in Labels, Moves(p, label)
  PROVE  /\ pc' \in [Processes -> Labels]
         /\ \A q \in Processes : pc'[q] = IF q = p THEN label ELSE pc[q]
BY DEF Types, Moves

LEMMA RolesFrame ==
  ASSUME Inv, NEW p \in Processes, NEW label \in Labels, Moves(p, label),
         label \in {"load", "optimize", "apply"} => p \notin Trainers,
         label \in {"save", "dump", "load"} => p \notin Sessions,
         label \notin {"off", "train"} \/ (pc[p] = "off" /\ serving'[p] = serving[p]),
         \A q \in Processes \ {p} : serving'[q] = serving[q]
  PROVE  Roles'
<1>1. Trainers \subseteq Processes /\ Sessions \subseteq Processes
  BY DEF Processes
<1>2. \A q \in Processes : pc'[q] = IF q = p THEN label ELSE pc[q]
  BY MovesFacts DEF Inv
<1>3. \A q \in Trainers : pc'[q] \notin {"load", "optimize", "apply"}
  BY <1>1, <1>2 DEF Inv, Roles
<1>4. \A q \in Sessions : pc'[q] \notin {"save", "dump", "load"}
  BY <1>1, <1>2 DEF Inv, Roles
<1>5. \A q \in Processes : pc'[q] \in {"off", "train"} => serving'[q] = NoModel
  BY <1>2 DEF Inv, Roles
<1> QED  BY <1>3, <1>4, <1>5 DEF Roles

LEMMA ArtifactFrame ==
  ASSUME Inv, NEW p \in Processes, NEW label \in Labels, Moves(p, label),
         label \notin {"off", "save", "dump"}, label = "train" => pc[p] = "off",
         trained' = trained, artifact' = artifact, overlapped' = overlapped
  PROVE  ArtifactIsGated'
<1>1. \A q \in Processes : pc'[q] = IF q = p THEN label ELSE pc[q]
  BY MovesFacts DEF Inv
<1>2. artifact.writers \subseteq Processes
  BY DEF Inv, Types
<1>3. \A q \in Processes : pc'[q] \in {"save", "dump"} => IsGated(q)'
  BY <1>1 DEF Inv, ArtifactIsGated, IsGated
<1>4. \A q \in Processes : pc'[q] = "dump" => q \in artifact'.writers
  BY <1>1 DEF Inv, ArtifactIsGated
<1>5. \A q \in artifact'.writers : IsGated(q)' /\ pc'[q] \notin {"off", "train", "save"}
  BY <1>1, <1>2 DEF Inv, ArtifactIsGated, IsGated
<1>6. /\ artifact'.complete \subseteq artifact'.writers
      /\ IsMixed(artifact') => overlapped'
  BY DEF Inv, ArtifactIsGated, IsMixed
<1> QED  BY <1>3, <1>4, <1>5, <1>6 DEF ArtifactIsGated

\* The part of Inv that speaks of the ledger.
LedgerInv == DemosServeGated /\ DecisionsAreGated /\ PromotionsAreLogged

Early == {"off", "train", "save", "dump", "load"}

\* No entry is written, and no layout changed.
LEMMA LedgerFrame ==
  ASSUME Inv, NEW p \in Processes, NEW label \in Labels, Moves(p, label),
         label = "apply" => p \notin Demos,
         label \in Early => pc[p] \in Early,
         label = "optimize" /\ p \in Demos => DecidesGated(p)',
         \A q \in Processes : q # p => serving'[q] = serving[q],
         p \in Demos => serving'[p] = serving[p] \/ pc[p] \in Early,
         ledger' = ledger, applied \subseteq applied',
         applied' \subseteq applied \cup {q \in {p} : pc[q] = "apply"},
         overlapped => overlapped'
  PROVE  LedgerInv'
<1>1. \A q \in Processes : pc'[q] = IF q = p THEN label ELSE pc[q]
  BY MovesFacts DEF Inv
<1>2. Demos \subseteq Processes
  BY DEF Processes
<1>3. DemosServeGated'
  <2>1. \A q \in Demos : pc'[q] = "optimize" => DecidesGated(q)'
    BY <1>1, <1>2 DEF Inv, DemosServeGated, DecidesGated
  <2>2. \A i \in DOMAIN ledger' : ledger'[i].entry.by \in Demos
    BY DEF Inv, DemosServeGated
  <2>3. \A i \in DOMAIN ledger' : pc'[ledger'[i].entry.by] \notin Early
    BY <1>1, <1>2, <2>2 DEF Inv, DemosServeGated, Early
  <2> QED  BY <2>1, <2>2, <2>3 DEF DemosServeGated, Early
<1>4. DecisionsAreGated'
  <2> SUFFICES ASSUME NEW i \in DOMAIN ledger
               PROVE  DecidesGated(ledger[i].entry.by)'
    BY DEF DecisionsAreGated, DecidesGated
  <2> DEFINE q == ledger[i].entry.by
  <2>1. q \in Demos /\ pc[q] \notin Early
    BY DEF Inv, DemosServeGated, Early
  <2>2. DecidesGated(q)
    BY DEF Inv, DecisionsAreGated, DecidesGated
  <2>3. serving'[q] = serving[q]
    BY <1>2, <2>1
  <2> HIDE DEF q
  <2>4. serving'[q].r2 = "at least 0.70" \/ (overlapped' /\ serving'[q].r2 = "unknown")
    BY <2>2, <2>3 DEF DecidesGated
  <2> QED  BY <2>4 DEF DecidesGated, q
<1>5. PromotionsAreLogged'
  BY <1>1, <1>2 DEF Inv, PromotionsAreLogged, IsLogged
<1> QED  BY <1>3, <1>4, <1>5 DEF LedgerInv

-----------------------------------------------------------------------------
(* The actions.                                                            *)

LEMMA StartKeepsInv ==
  ASSUME Inv, NEW p \in Processes, NEW names \in FeatureNames, Start(p, names),
         p \in Sessions => names = code[p]
  PROVE  Inv'
<1>1. /\ pc[p] = "off" /\ Moves(p, "train") /\ "train" \in Labels
      /\ code' = [code EXCEPT ![p] = names]
      /\ UNCHANGED <<trained, serving, cached, artifact, ledger, applied, overlapped>>
  BY DEF Start, Goto, At, Moves, Labels
<1>2. Types'
  BY <1>1, MovesFacts DEF Inv, Types
<1>3. Roles'
  BY <1>1, RolesFrame
<1>4. ArtifactIsGated'
  BY <1>1, ArtifactFrame
<1>5. LedgerInv'
  BY <1>1, LedgerFrame DEF Early
<1>6. SessionsAgree' /\ ServedModelFitsCode'
  <2>1. serving[p] = NoModel
    BY <1>1 DEF Inv, Roles
  <2>2. \A q \in Sessions : code'[q] = code[q]
    BY <1>1 DEF Inv, Types, Processes
  <2>3. \A q \in Processes \ {p} : code'[q] = code[q]
    BY <1>1 DEF Inv, Types
  <2> QED  BY <1>1, <2>1, <2>2, <2>3 DEF Inv, SessionsAgree, ServedModelFitsCode
<1> QED  BY <1>2, <1>3, <1>4, <1>5, <1>6 DEF Inv, LedgerInv

LEMMA TrainKeepsInv ==
  ASSUME Inv, NEW p \in Processes, NEW model \in Fitted, Train(p, model) PROVE Inv'
<1>1. PICK label \in {"raised", "save"} :
          /\ pc[p] = "train" /\ p \in Trainers \cup Demos /\ Moves(p, label)
          /\ label = "raised" => trained' = trained
          /\ label = "save" => /\ model.r2 # "below 0.70"
                               /\ trained' = [trained EXCEPT ![p] = model]
          /\ UNCHANGED <<code, serving, cached, artifact, ledger, applied, overlapped>>
  BY DEF Train, Goto, At, Moves
<1>2. label \in Labels /\ Demos \cup Trainers \subseteq Processes
  BY DEF Labels, Processes
<1>3. \A q \in Processes : pc'[q] = IF q = p THEN label ELSE pc[q]
  BY <1>1, <1>2, MovesFacts DEF Inv
<1>4. \A q \in Processes \ {p} : trained'[q] = trained[q]
  BY <1>1 DEF Inv, Types
<1>5. trained' \in [Processes -> Fitted \cup {NoModel}]
  BY <1>1 DEF Inv, Types
<1>6. label = "save" => IsGated(p)'
  BY <1>1 DEF Inv, Types, Fitted, IsGated
<1>7. Types'
  BY <1>1, <1>2, <1>5, MovesFacts DEF Inv, Types
<1>8. Roles'
  BY <1>1, <1>2, RolesFrame, PipelineAssumption
<1>9. ArtifactIsGated'
  <2>1. p \notin artifact.writers /\ artifact.writers \subseteq Processes
    BY <1>1 DEF Inv, Types, ArtifactIsGated
  <2>2. \A q \in Processes : pc'[q] \in {"save", "dump"} => IsGated(q)'
    BY <1>3, <1>4, <1>6 DEF Inv, ArtifactIsGated, IsGated
  <2>3. \A q \in Processes : pc'[q] = "dump" => q \in artifact'.writers
    BY <1>1, <1>3 DEF Inv, ArtifactIsGated
  <2>4. \A q \in artifact'.writers : IsGated(q)' /\ pc'[q] \notin {"off", "train", "save"}
    BY <1>1, <1>3, <1>4, <2>1 DEF Inv, ArtifactIsGated, IsGated
  <2>5. /\ artifact'.complete \subseteq artifact'.writers
        /\ IsMixed(artifact') => overlapped'
    BY <1>1 DEF Inv, ArtifactIsGated, IsMixed
  <2> QED  BY <2>2, <2>3, <2>4, <2>5 DEF ArtifactIsGated
<1>10. LedgerInv'
  BY <1>1, <1>2, LedgerFrame DEF Early
<1>11. SessionsAgree' /\ ServedModelFitsCode'
  BY <1>1 DEF Inv, SessionsAgree, ServedModelFitsCode
<1> QED  BY <1>7, <1>8, <1>9, <1>10, <1>11 DEF Inv, LedgerInv

LEMMA TrainCachedKeepsInv ==
  ASSUME Inv, NEW p \in Processes, NEW model \in Fitted, TrainCached(p, model)
  PROVE  Inv'
<1>1. /\ p \in Sessions /\ pc[p] = "train" /\ Moves(p, "optimize")
      /\ IF cached = NoModel THEN model.features = code[p] ELSE model = cached
      /\ cached' = model /\ serving' = [serving EXCEPT ![p] = model]
      /\ UNCHANGED <<code, trained, artifact, ledger, applied, overlapped>>
  BY DEF TrainCached, Goto, At, Moves
<1>2. p \notin Demos /\ p \notin Trainers /\ "optimize" \in Labels
  BY <1>1, PipelineAssumption DEF Labels
<1>3. \A q \in Processes : serving'[q] = IF q = p THEN model ELSE serving[q]
  BY <1>1 DEF Inv, Types
<1>4. serving' \in [Processes -> Fitted \cup Mixtures \cup {NoModel}]
  BY <1>1 DEF Inv, Types
<1>5. Types'
  BY <1>1, <1>2, <1>4, MovesFacts DEF Inv, Types
<1>6. Roles'
  BY <1>1, <1>2, <1>3, RolesFrame
<1>7. ArtifactIsGated'
  BY <1>1, <1>2, ArtifactFrame
<1>8. LedgerInv'
  BY <1>1, <1>2, <1>3, LedgerFrame DEF Early
<1>9. model.features = code[p]
  BY <1>1 DEF Inv, SessionsAgree
<1>10. SessionsAgree'
  BY <1>1, <1>9 DEF Inv, SessionsAgree
<1>11. ServedModelFitsCode'
  BY <1>1, <1>3, <1>9 DEF Inv, ServedModelFitsCode
<1> QED  BY <1>5, <1>6, <1>7, <1>8, <1>10, <1>11 DEF Inv, LedgerInv

LEMMA OpenFileKeepsInv ==
  ASSUME Inv, NEW p \in Processes, OpenFile(p) PROVE Inv'
<1> DEFINE dumping == {q \in Processes \ {p} : pc[q] = "dump"}
<1>1. /\ pc[p] = "save" /\ Moves(p, "dump")
      /\ artifact' = [writers |-> {p} \cup dumping, complete |-> {}]
      /\ overlapped' = (overlapped \/ dumping # {})
      /\ UNCHANGED <<code, trained, serving, cached, ledger, applied>>
  BY DEF OpenFile, OpenDump, Goto, At, Moves
<1>2. /\ artifact'.writers = {p} \cup dumping /\ artifact'.complete = {}
      /\ dumping \subseteq Processes /\ "dump" \in Labels
  BY <1>1 DEF Labels
<1>3. \A q \in Processes : pc'[q] = IF q = p THEN "dump" ELSE pc[q]
  BY <1>1, <1>2, MovesFacts DEF Inv
<1>4. Types'
  <2>1. /\ overlapped' \in BOOLEAN
        /\ artifact' \in [writers : SUBSET Processes, complete : SUBSET Processes]
    BY <1>1
  <2>2. pc' \in [Processes -> Labels]
    BY <1>1, <1>2, MovesFacts DEF Inv
  <2> QED  BY <1>1, <2>1, <2>2 DEF Inv, Types
<1>5. Roles'
  <2>1. p \notin Sessions
    BY <1>1 DEF Inv, Roles
  <2> QED  BY <1>1, <1>2, <2>1, RolesFrame
<1>6. ArtifactIsGated'
  <2>1. \A q \in Processes : pc'[q] \in {"save", "dump"} => IsGated(q)'
    BY <1>1, <1>3 DEF Inv, ArtifactIsGated, IsGated
  <2>2. \A q \in Processes : pc'[q] = "dump" => q \in artifact'.writers
    BY <1>2, <1>3
  <2>3. \A q \in artifact'.writers : IsGated(q)' /\ pc'[q] = "dump"
    BY <1>2, <1>3, <2>1
  <2>4. IsMixed(artifact') => overlapped'
    BY <1>1, <1>2 DEF IsMixed
  <2> HIDE DEF dumping
  <2> QED  BY <1>2, <2>1, <2>2, <2>3, <2>4 DEF ArtifactIsGated
<1>7. LedgerInv'
  BY <1>1, <1>2, LedgerFrame DEF Early
<1>8. SessionsAgree' /\ ServedModelFitsCode'
  BY <1>1 DEF Inv, SessionsAgree, ServedModelFitsCode
<1> QED  BY <1>4, <1>5, <1>6, <1>7, <1>8 DEF Inv, LedgerInv

LEMMA CloseFileKeepsInv ==
  ASSUME Inv, NEW p \in Processes, CloseFile(p) PROVE Inv'
<1>1. PICK label \in {"load", "done"} :
          /\ pc[p] = "dump" /\ Moves(p, label) /\ (label = "load" <=> p \in Demos)
          /\ artifact' = [artifact EXCEPT !.complete = @ \cup {p}]
          /\ UNCHANGED <<code, trained, serving, cached, ledger, applied, overlapped>>
  BY DEF CloseFile, CloseDump, Goto, At, Moves
<1>2. /\ artifact'.writers = artifact.writers
      /\ artifact'.complete = artifact.complete \cup {p}
      /\ artifact' \in [writers : SUBSET Processes, complete : SUBSET Processes]
      /\ artifact.writers \subseteq Processes
      /\ label \in Labels
  BY <1>1 DEF Inv, Types, Labels
<1>3. \A q \in Processes : pc'[q] = IF q = p THEN label ELSE pc[q]
  BY <1>1, <1>2, MovesFacts DEF Inv
<1>4. Types'
  BY <1>1, <1>2, MovesFacts DEF Inv, Types
<1>5. Roles'
  <2>1. p \in Demos => p \notin Trainers /\ p \notin Sessions
    BY PipelineAssumption
  <2> QED  BY <1>1, <1>2, <2>1, RolesFrame
<1>6. ArtifactIsGated'
  <2>1. p \in artifact.writers /\ artifact.complete \subseteq artifact.writers
    BY <1>1 DEF Inv, ArtifactIsGated
  <2>2. \A q \in Processes : pc'[q] \in {"save", "dump"} => IsGated(q)'
    BY <1>1, <1>3 DEF Inv, ArtifactIsGated, IsGated
  <2>3. \A q \in Processes : pc'[q] = "dump" => q \in artifact'.writers
    BY <1>1, <1>2, <1>3 DEF Inv, ArtifactIsGated
  <2>4. \A q \in artifact'.writers : IsGated(q)' /\ pc'[q] \notin {"off", "train", "save"}
    BY <1>1, <1>2, <1>3 DEF Inv, ArtifactIsGated, IsGated
  <2>5. IsMixed(artifact') => overlapped'
    BY <1>1, <1>2 DEF Inv, ArtifactIsGated, IsMixed
  <2> QED  BY <1>2, <2>1, <2>2, <2>3, <2>4, <2>5 DEF ArtifactIsGated
<1>7. LedgerInv'
  BY <1>1, <1>2, LedgerFrame DEF Early
<1>8. SessionsAgree' /\ ServedModelFitsCode'
  BY <1>1 DEF Inv, SessionsAgree, ServedModelFitsCode
<1> QED  BY <1>4, <1>5, <1>6, <1>7, <1>8 DEF Inv, LedgerInv

LEMMA LoadKeepsInv ==
  ASSUME Inv, NEW p \in Processes, Load(p) PROVE Inv'
<1>1. PICK blob \in Readings(artifact, trained) :
          /\ blob.features = code[p] /\ serving' = [serving EXCEPT ![p] = blob]
          /\ pc[p] = "load" /\ Moves(p, "optimize")
          /\ UNCHANGED <<code, trained, cached, artifact, ledger, applied, overlapped>>
  BY DEF Load, MatchesContract, Goto, At, Moves
<1>2. "optimize" \in Labels /\ p \notin Trainers /\ p \notin Sessions
  BY <1>1 DEF Labels, Inv, Roles
<1>3. /\ blob \in Fitted \cup Mixtures \cup {NoModel}
      /\ blob.r2 = "at least 0.70" \/ (overlapped /\ blob.r2 = "unknown")
  <2>1. CASE blob \in Mixtures /\ IsMixed(artifact)
    BY <2>1 DEF Mixtures, Inv, ArtifactIsGated
  <2>2. ASSUME NEW q \in artifact.complete, blob = trained[q]
        PROVE  /\ blob \in Fitted \cup {NoModel}
               /\ blob.r2 = "at least 0.70"
    BY <2>2 DEF Inv, Types, ArtifactIsGated, IsGated
  <2> QED  BY <2>1, <2>2 DEF Readings
<1>4. \A q \in Processes : serving'[q] = IF q = p THEN blob ELSE serving[q]
  BY <1>1 DEF Inv, Types
<1>5. serving' \in [Processes -> Fitted \cup Mixtures \cup {NoModel}]
  BY <1>1, <1>3 DEF Inv, Types
<1>6. Types'
  BY <1>1, <1>2, <1>5, MovesFacts DEF Inv, Types
<1>7. Roles'
  BY <1>1, <1>2, <1>4, RolesFrame
<1>8. ArtifactIsGated'
  BY <1>1, <1>2, ArtifactFrame
<1>9. DecidesGated(p)'
  BY <1>1, <1>3, <1>4 DEF DecidesGated
<1>10. LedgerInv'
  BY <1>1, <1>2, <1>4, <1>9, LedgerFrame DEF Early
<1>11. SessionsAgree'
  BY <1>1 DEF Inv, SessionsAgree
<1>12. ServedModelFitsCode'
  BY <1>1, <1>4 DEF Inv, ServedModelFitsCode
<1> QED  BY <1>6, <1>7, <1>8, <1>10, <1>11, <1>12 DEF Inv, LedgerInv

\* A step that moves p and changes nothing else that Inv speaks of.
LEMMA MoveKeepsInv ==
  ASSUME Inv, NEW p \in Processes, NEW label \in {"done", "raised", "crashed"},
         Moves(p, label),
         UNCHANGED <<code, trained, serving, cached, artifact, ledger, overlapped>>,
         applied' = applied \/ (pc[p] = "apply" /\ applied' = applied \cup {p})
  PROVE  Inv'
<1>1. label \in Labels /\ label \notin Early \cup {"optimize", "apply"}
  BY DEF Labels, Early
<1>2. /\ applied \subseteq applied' /\ applied' \subseteq Processes
      /\ applied' \subseteq applied \cup {q \in {p} : pc[q] = "apply"}
  BY DEF Inv, Types
<1>3. Types'
  BY <1>1, <1>2, MovesFacts DEF Inv, Types
<1>4. Roles'
  BY <1>1, RolesFrame
<1>5. ArtifactIsGated'
  BY <1>1, ArtifactFrame
<1>6. LedgerInv'
  BY <1>1, <1>2, LedgerFrame
<1>7. SessionsAgree' /\ ServedModelFitsCode'
  BY DEF Inv, SessionsAgree, ServedModelFitsCode
<1> QED  BY <1>3, <1>4, <1>5, <1>6, <1>7 DEF Inv, LedgerInv

\* A decision is logged, by a demo to the ledger, by a session to its own.
LEMMA DecisionKeepsInv ==
  ASSUME Inv, NEW p \in Processes, NEW promote \in BOOLEAN, NEW cut \in Cuts,
         pc[p] = "optimize", WriteEntry(p, promote, cut),
         NEW label \in {"apply", "optimize", "crashed"}, Moves(p, label),
         label = "apply" => promote /\ cut = "nothing",
         UNCHANGED <<code, trained, serving, cached, artifact, applied, overlapped>>
  PROVE  Inv'
<1>1. /\ label \in Labels /\ label \notin Early /\ p \notin Trainers
      /\ Demos \subseteq Processes
      /\ p \in Sessions \/ p \in Demos
      /\ p \in Sessions => p \notin Demos
  BY PipelineAssumption DEF Labels, Early, Inv, Roles, Processes
<1>2. Roles' /\ ArtifactIsGated'
  BY <1>1, RolesFrame, ArtifactFrame DEF Early
<1>3. SessionsAgree' /\ ServedModelFitsCode'
  BY DEF Inv, SessionsAgree, ServedModelFitsCode
<1>4. CASE p \in Sessions
  <2>1. ledger' = ledger
    BY <1>4 DEF WriteEntry
  <2>2. Types'
    BY <1>1, <2>1, MovesFacts DEF Inv, Types
  <2>3. LedgerInv'
    BY <1>1, <1>4, <2>1, LedgerFrame
  <2> QED  BY <1>2, <1>3, <2>2, <2>3 DEF Inv, LedgerInv
<1>5. CASE p \in Demos
  <2>1. ledger' = AppendEntry(ledger, [by |-> p, promote |-> promote], cut)
    BY <1>1, <1>5 DEF WriteEntry
  <2> DEFINE n == Len(ledger) + 1
  <2>2. /\ DOMAIN ledger' = DOMAIN ledger \cup {n} /\ ledger' \in Seq(Entries)
        /\ ledger'[n].entry = [by |-> p, promote |-> promote]
        /\ ledger'[n].cut = cut
        /\ \A i \in DOMAIN ledger : ledger'[i] = ledger[i]
    <3>1. /\ Len(ledger) \in Nat /\ DOMAIN ledger = 1..Len(ledger)
          /\ ledger' \in Seq(Entries) /\ DOMAIN ledger' = 1..(Len(ledger) + 1)
          /\ ledger'[Len(ledger) + 1].entry = [by |-> p, promote |-> promote]
          /\ ledger'[Len(ledger) + 1].cut = cut
          /\ \A i \in DOMAIN ledger : ledger'[i] = ledger[i]
      BY <2>1, AppendEntryFacts DEF Inv
    <3>2. \A k \in Nat : 1..(k + 1) = 1..k \cup {k + 1}
      OBVIOUS
    <3> QED  BY <3>1, <3>2
  <2> HIDE DEF n
  <2>3. \A q \in Processes : pc'[q] = IF q = p THEN label ELSE pc[q]
    BY <1>1, MovesFacts DEF Inv
  <2>4. Types'
    <3>1. pc' \in [Processes -> Labels]
      BY <1>1, MovesFacts DEF Inv
    <3> QED  BY <2>2, <3>1 DEF Inv, Types
  <2>5. ledger'[n].entry.by = p
    BY <2>2
  <2>10. \A i \in DOMAIN ledger' :
            \/ i \in DOMAIN ledger /\ ledger'[i] = ledger[i]
            \/ ledger'[i].entry.by = p
    BY <2>2, <2>5
  <2>6. DemosServeGated'
    <3>1. \A q \in Demos : pc'[q] = "optimize" => DecidesGated(q)'
      <4> SUFFICES ASSUME NEW q \in Demos, pc'[q] = "optimize" PROVE DecidesGated(q)'
        OBVIOUS
      <4>1. pc[q] = "optimize"
        BY <1>1, <2>3
      <4>2. DecidesGated(q)
        BY <4>1 DEF Inv, DemosServeGated
      <4> QED  BY <4>2 DEF DecidesGated
    <3>2. \A i \in DOMAIN ledger' : ledger'[i].entry.by \in Demos
      BY <1>5, <2>10 DEF Inv, DemosServeGated
    <3>3. \A i \in DOMAIN ledger' : pc'[ledger'[i].entry.by] \notin Early
      <4> SUFFICES ASSUME NEW i \in DOMAIN ledger', ledger'[i].entry.by # p
                   PROVE  pc'[ledger'[i].entry.by] \notin Early
        BY <1>1, <1>5, <2>3
      <4>1. i \in DOMAIN ledger /\ ledger'[i] = ledger[i]
        BY <2>10
      <4>2. /\ ledger[i].entry.by \in Processes \ {p}
            /\ pc[ledger[i].entry.by] \notin Early
        <5>1. /\ ledger[i].entry.by \in Demos /\ ledger[i].entry.by # p
              /\ pc[ledger[i].entry.by] \notin Early
          BY <4>1 DEF Inv, DemosServeGated, Early
        <5> QED  BY <1>1, <5>1
      <4> QED  BY <2>3, <4>1, <4>2
    <3> QED  BY <3>1, <3>2, <3>3 DEF DemosServeGated, Early
  <2>7. DecisionsAreGated'
    <3>1. DecidesGated(p)
      BY <1>5 DEF Inv, DemosServeGated
    <3>2. \A i \in DOMAIN ledger : DecidesGated(ledger[i].entry.by)
      BY DEF Inv, DecisionsAreGated, DecidesGated
    <3>3. \A i \in DOMAIN ledger' : DecidesGated(ledger'[i].entry.by)
      BY <2>10, <3>1, <3>2
    <3> QED  BY <3>3 DEF DecisionsAreGated, DecidesGated
  <2>8. PromotionsAreLogged'
    <3>1. label = "apply" => ledger'[n].entry = PromotionOf(p)
      BY <2>2 DEF PromotionOf
    <3>2. \A q \in Demos, i \in DOMAIN ledger : IsLogged(q, i) => IsLogged(q, i)'
      BY <2>2 DEF IsLogged, PromotionOf
    <3>3. ASSUME NEW q \in Demos, q \in applied \/ pc'[q] = "apply"
          PROVE  \E i \in DOMAIN ledger' : IsLogged(q, i)'
      <4>1. CASE q = p /\ label = "apply"
        BY <2>2, <3>1, <4>1 DEF IsLogged, PromotionOf
      <4>2. CASE q \in applied \/ pc[q] = "apply"
        BY <2>2, <3>2, <4>2 DEF Inv, PromotionsAreLogged
      <4>3. \/ q = p /\ label = "apply"
            \/ q \in applied \/ pc[q] = "apply"
        BY <1>1, <2>3, <3>3
      <4> QED  BY <4>1, <4>2, <4>3
    <3> QED  BY <3>3 DEF PromotionsAreLogged
  <2> QED  BY <1>2, <1>3, <2>4, <2>6, <2>7, <2>8 DEF Inv
<1> QED  BY <1>1, <1>4, <1>5

LEMMA DecideKeepsInv ==
  ASSUME Inv, NEW p \in Processes, NEW promote \in BOOLEAN, Decide(p, promote)
  PROVE  Inv'
<1>1. PICK label \in {"apply", "optimize"} :
          /\ pc[p] = "optimize" /\ WriteEntry(p, promote, "nothing")
          /\ Moves(p, label) /\ (label = "apply" => promote)
          /\ UNCHANGED <<code, trained, serving, cached, artifact, applied, overlapped>>
  BY DEF Decide, Goto, At, Moves
<1>2. "nothing" \in Cuts
  BY DEF Cuts
<1> QED  BY <1>1, <1>2, DecisionKeepsInv

LEMMA FaultKeepsInv ==
  ASSUME Inv, NEW p \in Processes, Fault(p) PROVE Inv'
<1>1. ASSUME Crash(p) PROVE Inv'
  BY <1>1, MoveKeepsInv DEF Crash, Goto, Moves
<1>2. ASSUME NEW promote \in BOOLEAN, NEW cut \in Cuts, CrashInAppend(p, promote, cut)
      PROVE  Inv'
  <2>1. /\ pc[p] = "optimize" /\ WriteEntry(p, promote, cut) /\ Moves(p, "crashed")
        /\ UNCHANGED <<code, trained, serving, cached, artifact, applied, overlapped>>
    BY <1>2 DEF CrashInAppend, Goto, At, Moves
  <2> QED  BY <2>1, DecisionKeepsInv
<1> QED  BY <1>1, <1>2 DEF Fault

LEMMA OptimizeKeepsInv ==
  ASSUME Inv, NEW p \in Processes, Optimize(p) PROVE Inv'
<1>1. ASSUME Apply(p) PROVE Inv'
  <2>1. /\ pc[p] = "apply" /\ Moves(p, "done") /\ applied' = applied \cup {p}
        /\ UNCHANGED <<code, trained, serving, cached, artifact, ledger, overlapped>>
    BY <1>1 DEF Apply, Goto, At, Moves
  <2> QED  BY <2>1, MoveKeepsInv
<1>2. ASSUME NoPromotion(p) PROVE Inv'
  BY <1>2, MoveKeepsInv DEF NoPromotion, Goto, Moves
<1> QED  BY <1>1, <1>2, DecideKeepsInv DEF Optimize

LEMMA TrainAndSaveKeepsInv ==
  ASSUME Inv, NEW p \in Processes, p \notin Sessions, TrainAndSave(p) PROVE Inv'
BY StartKeepsInv, TrainKeepsInv, OpenFileKeepsInv, CloseFileKeepsInv DEF TrainAndSave

LEMMA NextKeepsInv == Inv /\ [Next]_vars => Inv'
<1> SUFFICES ASSUME Inv, [Next]_vars PROVE Inv'
  OBVIOUS
<1>0. /\ Trainers \cup Demos \subseteq Processes /\ Sessions \subseteq Processes
      /\ \A p \in Trainers \cup Demos : p \notin Sessions
  BY PipelineAssumption DEF Processes
<1>1. ASSUME NEW p \in Trainers, TrainAndSave(p) PROVE Inv'
  BY <1>0, <1>1, TrainAndSaveKeepsInv
<1>2. ASSUME NEW p \in Demos, Demo(p) PROVE Inv'
  <2>1. p \in Processes /\ p \notin Sessions
    BY <1>0
  <2>2. ASSUME LoadRaises(p) PROVE Inv'
    BY <2>1, <2>2, MoveKeepsInv DEF LoadRaises, Goto, Moves
  <2> QED  BY <1>2, <2>1, <2>2, TrainAndSaveKeepsInv, LoadKeepsInv, OptimizeKeepsInv
           DEF Demo
<1>3. ASSUME NEW p \in Sessions, Session(p) PROVE Inv'
  <2>1. p \in Processes
    BY <1>0
  <2>2. ASSUME Start(p, code[p]) PROVE Inv'
    <3>1. code[p] \in FeatureNames
      BY <2>1 DEF Inv, Types
    <3> QED  BY <2>1, <2>2, <3>1, StartKeepsInv
  <2> QED  BY <1>3, <2>1, <2>2, TrainCachedKeepsInv, OptimizeKeepsInv DEF Session
<1>4. CASE UNCHANGED vars
  <2>1. UNCHANGED <<pc, code, trained, serving, cached, artifact, ledger, applied,
                    overlapped>>
    BY <1>4 DEF vars
  <2>2. Types' /\ Roles'
    BY <2>1 DEF Inv, Types, Roles
  <2>3. ArtifactIsGated'
    BY <2>1 DEF Inv, ArtifactIsGated, IsGated, IsMixed
  <2>4. DemosServeGated' /\ DecisionsAreGated'
    BY <2>1 DEF Inv, DemosServeGated, DecidesGated, DecisionsAreGated
  <2>5. SessionsAgree' /\ ServedModelFitsCode' /\ PromotionsAreLogged'
    BY <2>1 DEF Inv, SessionsAgree, ServedModelFitsCode, PromotionsAreLogged, IsLogged
  <2> QED  BY <2>2, <2>3, <2>4, <2>5 DEF Inv
<1> QED  BY <1>0, <1>1, <1>2, <1>3, <1>4, FaultKeepsInv DEF Next

\* The inductive invariant: types, roles, and everything said above of the
\* artifact, the models in use, and the ledger.
THEOREM PipelineIsInductive == Spec => []Inv
BY InvInit, NextKeepsInv, PTL DEF Spec

\* train() gates on the held-out R^2 before save(): whichever processes save,
\* load, crash and restart around the file, a logged decision was taken with a
\* gated model, or with a mixture of two saves that overlapped.
THEOREM OnlyGatedModelsDecide == Spec => []DecisionsAreGated
<1>1. Inv => DecisionsAreGated
  BY DEF Inv
<1> QED  BY <1>1, PipelineIsInductive, PTL

\* CostModel.load compares the feature names: no process ever decides with a
\* model of another version of the code.
THEOREM ContractKeepsModelsApart == Spec => []ServedModelFitsCode
<1>1. Inv => ServedModelFitsCode
  BY DEF Inv
<1> QED  BY <1>1, PipelineIsInductive, PTL

-----------------------------------------------------------------------------
(* What the ledger shows.                                                  *)

\* A logged promotion that is not shown is behind a torn entry.
LEMMA HiddenBehindTorn ==
  ASSUME Inv, NEW p \in Hidden
  PROVE  \E i \in DOMAIN ledger : IsLogged(p, i) /\ i - 1 \in Torn
<1>1. PICK i \in DOMAIN ledger : IsLogged(p, i)
  BY DEF Inv, PromotionsAreLogged, Hidden
<1>2. ~IsShown(ledger, i)
  BY <1>1 DEF Hidden, IsLogged
<1>3. i > 1 /\ ledger[i - 1].cut # "nothing"
  BY <1>1, <1>2 DEF IsShown, IsLogged
<1>4. Len(ledger) \in Nat /\ DOMAIN ledger = 1..Len(ledger)
  BY DEF Inv, Types
<1>5. i - 1 \in DOMAIN ledger
  BY <1>3, <1>4
<1> QED  BY <1>1, <1>3, <1>5 DEF Torn

LEMMA HiddenAreFew == Inv => OneHiddenPerTear
<1> SUFFICES ASSUME Inv PROVE OneHiddenPerTear
  OBVIOUS
<1> DEFINE place(p) == CHOOSE i \in DOMAIN ledger : IsLogged(p, i) /\ i - 1 \in Torn
           before == [p \in Hidden |-> place(p) - 1]
<1>1. \A p \in Hidden : /\ place(p) \in DOMAIN ledger
                        /\ IsLogged(p, place(p)) /\ place(p) - 1 \in Torn
  BY HiddenBehindTorn
<1>2. Len(ledger) \in Nat /\ DOMAIN ledger = 1..Len(ledger)
  BY DEF Inv, Types
<1> HIDE DEF place
<1>3. \A p, q \in Hidden : place(p) = place(q) => p = q
  <2>1. \A p \in Hidden : ledger[place(p)].entry.by = p
    <3> SUFFICES ASSUME NEW p \in Hidden PROVE ledger[place(p)].entry.by = p
      OBVIOUS
    <3>1. ledger[place(p)].entry = [by |-> p, promote |-> TRUE]
      BY <1>1 DEF IsLogged, PromotionOf
    <3> QED  BY <3>1
  <2> QED  BY <2>1
<1>4. before \in [Hidden -> Torn]
  BY <1>1
<1>5. \A p, q \in Hidden : before[p] = before[q] => p = q
  BY <1>1, <1>2, <1>3
<1>6. before \in Injection(Hidden, Torn)
  BY <1>4, <1>5 DEF Injection, IsInjective
<1>7. IsFiniteSet(Torn)
  <2>1. Torn \in SUBSET (1..Len(ledger))
    BY <1>2 DEF Torn
  <2>2. IsFiniteSet(1..Len(ledger))
    BY <1>2, FS_Interval
  <2> QED  BY <2>1, <2>2, FS_Subset
<1> HIDE DEF before
<1> QED  BY <1>6, <1>7, FS_Injection DEF OneHiddenPerTear

\* "Every decision is written to the append-only ledger": as many layout changes
\* are missing from what the viewer shows as there are torn appends, at most.
THEOREM LedgerHidesLittle == Spec => []OneHiddenPerTear
BY HiddenAreFew, PipelineIsInductive, PTL

LEMMA WriteEntryAppends ==
  ASSUME Inv, NEW p \in Processes, NEW promote \in BOOLEAN, NEW cut \in Cuts,
         WriteEntry(p, promote, cut)
  PROVE  \/ ledger' = ledger
         \/ /\ Len(ledger) \in Nat /\ DOMAIN ledger = 1..Len(ledger)
            /\ DOMAIN ledger' = 1..(Len(ledger) + 1)
            /\ Len(ledger') = Len(ledger) + 1
            /\ \A i \in DOMAIN ledger : ledger'[i] = ledger[i]
<1>1. CASE p \in Sessions
  BY <1>1 DEF WriteEntry
<1>2. CASE p \notin Sessions
  <2>1. ledger' = AppendEntry(ledger, [by |-> p, promote |-> promote], cut)
    BY <1>2 DEF WriteEntry
  <2> QED  BY <2>1, AppendEntryFacts DEF Inv
<1> QED  BY <1>1, <1>2

\* No step of any process touches a line that is there.
LEMMA LedgerGrows ==
  ASSUME Inv, [Next]_vars
  PROVE  \/ ledger' = ledger
         \/ /\ Len(ledger) \in Nat /\ DOMAIN ledger = 1..Len(ledger)
            /\ DOMAIN ledger' = 1..(Len(ledger) + 1)
            /\ Len(ledger') = Len(ledger) + 1
            /\ \A i \in DOMAIN ledger : ledger'[i] = ledger[i]
<1> DEFINE Grows ==
      /\ Len(ledger) \in Nat /\ DOMAIN ledger = 1..Len(ledger)
      /\ DOMAIN ledger' = 1..(Len(ledger) + 1)
      /\ Len(ledger') = Len(ledger) + 1
      /\ \A i \in DOMAIN ledger : ledger'[i] = ledger[i]
<1>0. Trainers \cup Demos \subseteq Processes /\ Sessions \subseteq Processes
  BY DEF Processes
<1>1. ASSUME NEW p \in Processes, Optimize(p) PROVE ledger' = ledger \/ Grows
  <2>1. ASSUME NEW promote \in BOOLEAN, Decide(p, promote)
        PROVE  ledger' = ledger \/ Grows
    <3>1. WriteEntry(p, promote, "nothing") /\ "nothing" \in Cuts
      BY <2>1 DEF Decide, Cuts
    <3> QED  BY <3>1, WriteEntryAppends
  <2> QED  BY <1>1, <2>1 DEF Optimize, Apply, NoPromotion
<1>2. ASSUME NEW p \in Processes, Fault(p) PROVE ledger' = ledger \/ Grows
  <2>1. ASSUME NEW promote \in BOOLEAN, NEW cut \in Cuts, CrashInAppend(p, promote, cut)
        PROVE  ledger' = ledger \/ Grows
    <3>1. WriteEntry(p, promote, cut)
      BY <2>1 DEF CrashInAppend
    <3> QED  BY <3>1, WriteEntryAppends
  <2> QED  BY <1>2, <2>1 DEF Fault, Crash
<1> HIDE DEF Grows
<1>3. ASSUME NEW p \in Processes, TrainAndSave(p) PROVE ledger' = ledger
  BY <1>3 DEF TrainAndSave, Start, Train, OpenFile, CloseFile
<1>4. ASSUME NEW p \in Demos, Demo(p) PROVE ledger' = ledger \/ Grows
  BY <1>0, <1>1, <1>3, <1>4 DEF Demo, Load, LoadRaises
<1>5. ASSUME NEW p \in Sessions, Session(p) PROVE ledger' = ledger \/ Grows
  BY <1>0, <1>1, <1>5 DEF Session, Start, TrainCached
<1>6. ledger' = ledger \/ Grows
  BY <1>0, <1>2, <1>3, <1>4, <1>5 DEF Next, vars
<1> QED  BY <1>6 DEF Grows

LEMMA StepShows ==
  ASSUME Inv, [Next]_vars, NEW i \in DOMAIN ledger, IsShown(ledger, i)
  PROVE  \/ i \in DOMAIN ledger' /\ ledger'[i] = ledger[i] /\ IsShown(ledger', i)
         \/ i = Len(ledger) /\ ledger[i].cut = "newline"
<1>1. CASE ledger' = ledger
  BY <1>1
<1>2. CASE /\ Len(ledger) \in Nat /\ DOMAIN ledger = 1..Len(ledger)
           /\ DOMAIN ledger' = 1..(Len(ledger) + 1)
           /\ \A k \in DOMAIN ledger : ledger'[k] = ledger[k]
  <2>1. i \in DOMAIN ledger' /\ ledger'[i] = ledger[i]
    BY <1>2
  <2>2. i > 1 => i - 1 \in DOMAIN ledger /\ ledger'[i - 1] = ledger[i - 1]
    BY <1>2
  <2>3. CASE ledger[i].cut = "nothing"
    BY <2>1, <2>2, <2>3 DEF IsShown
  <2> QED  BY <2>3 DEF IsShown
<1> QED  BY <1>1, <1>2, LedgerGrows

\* append_ledger opens with "a": what a reader of the ledger has seen stays there.
THEOREM LedgerIsAppendOnly == Spec => ShownStaysShown
<1>1. Inv /\ [Next]_vars =>
        [\A i \in DOMAIN ledger :
            IsShown(ledger, i) =>
                \/ i \in DOMAIN ledger' /\ ledger'[i] = ledger[i] /\ IsShown(ledger', i)
                \/ i = Len(ledger) /\ ledger[i].cut = "newline"]_vars
  BY StepShows
<1> QED  BY <1>1, PipelineIsInductive, PTL DEF Spec, ShownStaysShown
=============================================================================
