-------------------------- MODULE ReleaseGateProofs --------------------------
(***************************************************************************)
(* Theorems of ReleaseGate for every number of runs, versions and commits: *)
(* what passes is of its own run, belongs together, and rests on evidence. *)
(*                                                                         *)
(* A script that is past a step knows what the step has checked or         *)
(* written, unless the developer has touched the tree since.               *)
(***************************************************************************)
EXTENDS ReleaseGate, TLAPS

(* Where the steps of each script stand; out_clean is first and last.      *)
Place ==
  [release_check |->
     [samples |-> 2, build |-> 3, evidence |-> 4, benchmark |-> 5, environment |-> 6,
      copy |-> 7, commit |-> 8, decision |-> 9],
   full_release_check |->
     [samples |-> 10, build |-> 2, evidence |-> 3, benchmark |-> 4, environment |-> 5,
      copy |-> 8, commit |-> 6, decision |-> 7]]

Last == [release_check |-> 10, full_release_check |-> 9]

Evidenced ==
  LET e == built[script].evidence
  IN  /\ e.run = run /\ e.status = "unavailable"
      /\ e.upstream = (IF "network" \in options THEN "ok" ELSE "skipped")
      /\ "network" \in options => ~candidate
      /\ ~touched => tree.src < BatchSince

(* What a script knows that is past a step.                                *)
Behind ==
  LET at == Place[script]  b == built[script]
  IN  /\ step = 2 /\ ~touched => tree.out = HEAD.out
      /\ script = "release_check" /\ step > at.samples /\ ~touched => Coherent(HEAD.out)
      /\ step > at.build /\ ~touched => binary = tree.src
      /\ step > at.evidence => Evidenced
      /\ step > at.environment =>
           /\ b.report.run = run
           /\ ~touched => /\ b.report.of = tree.src
                          /\ b.report.git_commit # Unread /\ b.report.dirty = "false" =>
                               tree.src = HEAD.src
      /\ step > at.commit /\ ~touched =>
           b.report.git_commit = Len(commits) /\ b.report.dirty = "false"
      /\ step > at.decision => b.decision = b.report

Known == step # 0 => Behind

IInv == TypeOK /\ Known

-----------------------------------------------------------------------------
(* The number of a step is its place.                                      *)
LEMMA Lengths == \A s \in Scripts : Len(Steps(s)) = Last[s]
BY DEF Scripts, Steps, Last

(* Where a script is, from its number.                                     *)
LEMMA Places ==
  ASSUME TypeOK
  PROVE  /\ step \in 0..Last[script] /\ Last[script] \in {9, 10}
         /\ At("samples")     => script = "release_check" /\ step = Place[script].samples
         /\ At("build")       => step = Place[script].build
         /\ At("evidence")    => step = Place[script].evidence
         /\ At("benchmark")   => step = Place[script].benchmark
         /\ At("environment") => step = Place[script].environment
         /\ At("copy")        => step = Place[script].copy
         /\ At("commit")      => step = Place[script].commit
         /\ At("decision")    => step = Place[script].decision
         /\ At("out_clean")   => step \in {1, Last[script]}
<1>1. script \in Scripts /\ step \in 0..Last[script]
  BY Lengths DEF TypeOK
<1>2. CASE script = "release_check"
  <2>1. step \in {0, 1, 2, 3, 4, 5, 6, 7, 8, 9, 10}
    BY <1>1, <1>2 DEF Last
  <2>. QED
    BY <2>1, <1>2 DEF At, Steps, Place, Last
<1>3. CASE script = "full_release_check"
  <2>1. step \in {0, 1, 2, 3, 4, 5, 6, 7, 8, 9}
    BY <1>1, <1>3 DEF Last
  <2>. QED
    BY <2>1, <1>3 DEF At, Steps, Place, Last
<1>. QED
  BY <1>1, <1>2, <1>3 DEF Scripts

(* The number of each step, written out.                                   *)
LEMMA PlaceValues ==
  ASSUME NEW s \in Scripts
  PROVE  LET at == Place[s]
         IN  \/ /\ s = "release_check" /\ Last[s] = 10
                /\ at.samples = 2 /\ at.build = 3 /\ at.evidence = 4 /\ at.benchmark = 5
                /\ at.environment = 6 /\ at.copy = 7 /\ at.commit = 8 /\ at.decision = 9
             \/ /\ s = "full_release_check" /\ Last[s] = 9
                /\ at.build = 2 /\ at.evidence = 3 /\ at.benchmark = 4
                /\ at.environment = 5 /\ at.copy = 8 /\ at.commit = 6 /\ at.decision = 7
BY DEF Scripts, Place, Last

(* A report has its fields in range.                                       *)
LEMMA ReportType ==
  ASSUME NEW r \in 0..MaxRuns, NEW c \in 0..MaxCommits,
         NEW d \in {"true", "false", "unavailable"}, NEW v \in 0..MaxEdits
  PROVE  /\ Report(r, c, d, v) \in Reports
         /\ Report(r, c, d, v).run = r /\ Report(r, c, d, v).git_commit = c
         /\ Report(r, c, d, v).dirty = d /\ Report(r, c, d, v).of = v
BY DEF Report, Reports

(* A working tree is a version of the source and four samples.             *)
LEMMA TreeType ==
  ASSUME NEW t \in Trees, NEW v \in 1..MaxEdits,
         NEW out \in [{"quick", "standard", "full", "decision"} -> Reports]
  PROVE  /\ t.src \in 1..MaxEdits
         /\ t.out \in [{"quick", "standard", "full", "decision"} -> Reports]
         /\ [t EXCEPT !.src = v] \in Trees
         /\ [t EXCEPT !.out = out] \in Trees
         /\ [t EXCEPT !.out = out].src = t.src
BY DEF Trees

(* What HEAD names is a tree.                                              *)
LEMMA HeadType == ASSUME TypeOK PROVE HEAD \in Trees
BY DEF TypeOK, HEAD

(* No script has run, nothing is built.                                    *)
LEMMA Initially == Init => IInv
<1>. SUFFICES ASSUME Init PROVE TypeOK /\ step = 0
  BY DEF IInv, Known
<1>1. NoReport \in Reports /\ Report(0, 1, "false", 1) \in Reports
  BY ReportType, BoundAssumption DEF NoReport, Unread
<1>2. NoEvidence \in Evidences
  BY BoundAssumption DEF NoEvidence, Evidences
<1>3. Sample \in [{"quick", "standard", "full", "decision"} -> Reports]
  BY <1>1 DEF Sample
<1>4. /\ DOMAIN Sample = {"quick", "standard", "full", "decision"}
      /\ [s \in DOMAIN Sample |-> NoReport]
           \in [{"quick", "standard", "full", "decision"} -> Reports]
  BY <1>1 DEF Sample
<1>5. /\ [src |-> 1, out |-> [s \in DOMAIN Sample |-> NoReport]] \in Trees
      /\ [src |-> 1, out |-> Sample] \in Trees
  BY <1>3, <1>4, BoundAssumption DEF Trees
<1>6. /\ commits \in Seq(Trees) /\ Len(commits) \in 1..MaxCommits
      /\ tree \in Trees
  BY <1>5, BoundAssumption DEF Init
<1>7. built \in [Scripts -> [report : Reports, evidence : Evidences, decision : Reports]]
  BY <1>1, <1>2 DEF Init
<1>8. step = 0 /\ script \in Scripts /\ step \in 0..Len(Steps(script))
  BY Lengths DEF Init, Scripts, Last
<1>9. /\ binary \in 0..MaxEdits /\ head_read \in 0..MaxCommits /\ run \in 0..MaxRuns
      /\ options \subseteq {"update", "network"}
  BY BoundAssumption DEF Init, Unread
<1>10. outcome = "none" /\ touched \in BOOLEAN /\ candidate \in BOOLEAN
  BY DEF Init
<1>. QED
  BY <1>6, <1>7, <1>8, <1>9, <1>10 DEF TypeOK

-----------------------------------------------------------------------------
(* The developer changes the tree or the history and leaves a trace.       *)
LEMMA DeveloperTypes ==
  ASSUME TypeOK, EditSource \/ Discard \/ Commit
  PROVE  TypeOK'
<1>1. touched' \in BOOLEAN
  BY DEF TypeOK, EditSource, Discard, Commit, Touches
<1>2. CASE EditSource
  <2>1. tree.src + 1 \in 1..MaxEdits /\ tree' = [tree EXCEPT !.src = tree.src + 1]
    BY <1>2, BoundAssumption DEF EditSource, TypeOK, Trees
  <2>2. tree' \in Trees
    BY <2>1 DEF TypeOK, Trees
  <2>. QED
    BY <1>1, <1>2, <2>2 DEF EditSource, TypeOK
<1>3. CASE Discard
  BY <1>1, <1>3, HeadType DEF Discard, TypeOK
<1>4. CASE Commit
  <2>1. commits' \in Seq(Trees) /\ Len(commits') = Len(commits) + 1
    BY <1>4 DEF Commit, TypeOK
  <2>2. Len(commits') \in 1..MaxCommits
    BY <1>4, <2>1, BoundAssumption DEF Commit, TypeOK
  <2>. QED
    BY <1>1, <1>4, <2>1, <2>2 DEF Commit, TypeOK
<1>. QED
  BY <1>2, <1>3, <1>4

(* Who edits or commits under a script touches the tree.                   *)
LEMMA DeveloperSteps ==
  ASSUME IInv, EditSource \/ Discard \/ Commit
  PROVE  IInv'
<1>1. TypeOK'
  BY DeveloperTypes DEF IInv
<1>2. ASSUME step # 0 PROVE Behind'
  <2>1. touched' = TRUE
    BY <1>2 DEF EditSource, Discard, Commit, Touches, IInv, TypeOK
  <2>2. UNCHANGED <<built, script, step, options, run, candidate>>
    BY DEF EditSource, Discard, Commit
  <2>3. Behind
    BY <1>2 DEF IInv, Known
  <2>. QED
    BY <2>1, <2>2, <2>3 DEF Behind, Evidenced
<1>3. step' = step
  BY DEF EditSource, Discard, Commit
<1>. QED
  BY <1>1, <1>2, <1>3 DEF IInv, Known

(* A step of a script keeps the types.                                     *)
LEMMA GoingOn ==
  ASSUME TypeOK, step # 0, step < Last[script], script' = script, GoesOn
  PROVE  step' \in 0..Len(Steps(script')) /\ step' = step + 1 /\ outcome' = outcome
BY Lengths, Places DEF TypeOK, GoesOn

(* A script that ends is at no step and has an outcome.                    *)
LEMMA Exiting ==
  ASSUME TypeOK, NEW how \in {"failed", "uncommitted", "passed"}, script' = script, Exits(how)
  PROVE  step' = 0 /\ step' \in 0..Len(Steps(script')) /\ outcome' = how
BY Lengths, Places DEF TypeOK, Exits, Last, Scripts

(* The history decides what its last commit holds.                         *)
LEMMA SameHistory ==
  ASSUME commits' = commits
  PROVE  HEAD' = HEAD /\ (Coherent(HEAD.out)' <=> Coherent(HEAD.out))
BY DEF HEAD, Coherent

-----------------------------------------------------------------------------
(* The steps that only look.                                               *)
LEMMA FailsStep == ASSUME IInv, Fails PROVE IInv'
<1>1. TypeOK'
  BY Exiting DEF IInv, Fails, TypeOK, git
<1>. QED
  BY <1>1, Exiting DEF IInv, Known, Fails

(* The samples are found to be those of the last commit.                   *)
LEMMA OutCleanStep == ASSUME IInv, EnsureOutClean PROVE IInv'
<1>1. /\ TypeOK /\ Known /\ step # 0
      /\ UNCHANGED <<commits, tree, touched, binary, built, script, options, head_read, run,
                     candidate>>
  BY DEF IInv, EnsureOutClean, At, git
<1>2. CASE step' = 0 /\ outcome' \in {"failed", "uncommitted", "passed"}
  BY <1>1, <1>2 DEF IInv, Known, TypeOK
<1>3. CASE step < Last[script] /\ tree.out = HEAD.out /\ GoesOn
  <2>1. step = 1 /\ step' = 2 /\ TypeOK'
    BY <1>1, <1>3, Places, GoingOn DEF EnsureOutClean, TypeOK
  <2>2. Behind'
    BY <1>1, <1>3, <2>1, SameHistory, PlaceValues DEF Behind, TypeOK
  <2>. QED
    BY <2>1, <2>2 DEF IInv, Known
<1>. QED
  BY <1>1, <1>2, <1>3, Lengths DEF EnsureOutClean, Exits, TypeOK

(* The samples are found to be of one commit.                              *)
LEMMA SamplesStep == ASSUME IInv, ValidateSamples PROVE IInv'
<1>1. /\ TypeOK /\ Behind /\ step # 0 /\ step = Place[script].samples /\ script = "release_check"
      /\ UNCHANGED <<commits, tree, touched, binary, built, script, options, head_read, run,
                     candidate>>
  BY Places DEF IInv, Known, ValidateSamples, At, git
<1>2. CASE step' = 0 /\ outcome' = "failed"
  BY <1>1, <1>2 DEF IInv, Known, TypeOK
<1>3. CASE Coherent(tree.out) /\ GoesOn
  <2>1. step = 2 /\ step < Last[script]
    BY <1>1, PlaceValues DEF TypeOK
  <2>2. step' = 3 /\ TypeOK'
    BY <1>1, <1>3, <2>1, GoingOn DEF TypeOK
  <2>3. ~touched => Coherent(HEAD.out)
    BY <1>1, <1>3, <2>1 DEF Behind
  <2>4. Behind'
    BY <1>1, <2>1, <2>2, <2>3, SameHistory, PlaceValues DEF Behind, TypeOK
  <2>. QED
    BY <2>2, <2>4 DEF IInv, Known
<1>. QED
  BY <1>2, <1>3 DEF ValidateSamples, Exits

(* A script that looks and goes on knows what it has seen.                 *)
LEMMA Looks ==
  ASSUME TypeOK, Behind, step \in 3..10, step' = step + 1,
         UNCHANGED <<commits, tree, touched, binary, built, script, options, run, candidate>>,
         step \in {Place[script].benchmark, Place[script].commit},
         step = Place[script].commit =>
           /\ built[script].report.git_commit = Len(commits)
           /\ built[script].report.dirty = "false"
  PROVE  Behind'
<1>1. script \in Scripts /\ script' = script
  BY DEF TypeOK
<1>2. Evidenced' <=> Evidenced
  BY DEF Evidenced
<1>3. HEAD' = HEAD /\ (Coherent(HEAD.out)' <=> Coherent(HEAD.out))
  BY SameHistory
<1>4. CASE script = "release_check"
  <2>1. /\ Place["release_check"].samples = 2 /\ Place["release_check"].build = 3
        /\ Place["release_check"].evidence = 4 /\ Place["release_check"].benchmark = 5
        /\ Place["release_check"].environment = 6 /\ Place["release_check"].commit = 8
        /\ Place["release_check"].decision = 9
    BY DEF Place
  <2>. QED
    BY <1>1, <1>2, <1>3, <1>4, <2>1 DEF Behind
<1>5. CASE script = "full_release_check"
  <2>1. /\ Place["full_release_check"].build = 2
        /\ Place["full_release_check"].evidence = 3 /\ Place["full_release_check"].benchmark = 4
        /\ Place["full_release_check"].environment = 5 /\ Place["full_release_check"].commit = 6
        /\ Place["full_release_check"].decision = 7
    BY DEF Place
  <2>. QED
    BY <1>1, <1>2, <1>3, <1>5, <2>1 DEF Behind
<1>. QED
  BY <1>1, <1>4, <1>5 DEF Scripts

(* The report is of this run.                                              *)
LEMMA BenchmarkStep == ASSUME IInv, Benchmark PROVE IInv'
<1>1. /\ TypeOK /\ Behind /\ step # 0 /\ step = Place[script].benchmark /\ GoesOn
      /\ UNCHANGED <<commits, tree, touched, binary, built, script, options, run, candidate>>
      /\ head_read' \in 0..MaxCommits
  BY Places, BoundAssumption DEF IInv, Known, Benchmark, At, git, TypeOK, Unread
<1>2. step \in 3..10 /\ step < Last[script]
  BY <1>1, PlaceValues DEF TypeOK
<1>3. step' = step + 1 /\ TypeOK'
  BY <1>1, <1>2, GoingOn DEF TypeOK
<1>4. Behind'
  BY <1>1, <1>2, <1>3, Looks, PlaceValues DEF TypeOK
<1>. QED
  BY <1>3, <1>4 DEF IInv, Known

(* The commit that is named is found to be that of the tree.               *)
LEMMA CommitStep == ASSUME IInv, CheckCommit PROVE IInv'
<1>1. /\ TypeOK /\ Behind /\ step # 0 /\ step = Place[script].commit
      /\ UNCHANGED <<commits, tree, touched, binary, built, script, options, head_read, run,
                     candidate>>
  BY Places DEF IInv, Known, CheckCommit, At, git
<1>2. CASE step' = 0 /\ outcome' = "failed"
  BY <1>1, <1>2 DEF IInv, Known, TypeOK
<1>3. CASE /\ built[script].report.git_commit = Len(commits)
           /\ built[script].report.dirty = "false"
           /\ GoesOn
  <2>1. step \in 3..10 /\ step < Last[script]
    BY <1>1, PlaceValues DEF TypeOK
  <2>2. step' = step + 1 /\ TypeOK'
    BY <1>1, <1>3, <2>1, GoingOn DEF TypeOK
  <2>3. Behind'
    BY <1>1, <1>3, <2>1, <2>2, Looks, PlaceValues DEF TypeOK
  <2>. QED
    BY <2>2, <2>3 DEF IInv, Known
<1>. QED
  BY <1>2, <1>3 DEF CheckCommit, Exits

-----------------------------------------------------------------------------
(* The steps that write.                                                   *)
LEMMA BuildStep == ASSUME IInv, Build PROVE IInv'
<1>1. /\ TypeOK /\ Behind /\ step # 0 /\ step = Place[script].build /\ GoesOn
      /\ UNCHANGED <<commits, tree, touched, built, script, options, head_read, run, candidate>>
      /\ binary' = tree.src /\ script \in Scripts
  BY Places DEF IInv, Known, Build, At, git, TypeOK
<1>2. step \in 2..3 /\ step < Last[script]
  BY <1>1, PlaceValues
<1>3. step' = step + 1 /\ TypeOK'
  <2>1. binary' \in 0..MaxEdits
    BY <1>1, TreeType, BoundAssumption DEF TypeOK, Trees
  <2>. QED
    BY <1>1, <1>2, <2>1, GoingOn DEF TypeOK
<1>4. Behind'
  BY <1>1, <1>2, <1>3, SameHistory, PlaceValues DEF Behind
<1>. QED
  BY <1>3, <1>4 DEF IInv, Known

(* An evidence that lets the script go on is one of absence.               *)
LEMMA Absence ==
  ASSUME NEW rc \in {0, 124, 128}, NEW heads \in BOOLEAN, NEW api \in BOOLEAN,
         rc = 0 => heads = candidate,
         NEW upstream, upstream = IF "network" \in options THEN search_status(rc) ELSE "skipped",
         evidence_status(api, upstream, heads) = "unavailable"
  PROVE  /\ ~api
         /\ upstream = (IF "network" \in options THEN "ok" ELSE "skipped")
         /\ "network" \in options => ~candidate
BY DEF search_status, evidence_status

(* The evidence is of this run, and says whether upstream answered.        *)
LEMMA EvidenceStep == ASSUME IInv, CollectEvidence PROVE IInv'
<1>1. /\ TypeOK /\ Behind /\ step # 0 /\ step = Place[script].evidence
      /\ UNCHANGED <<commits, tree, touched, binary, script, options, head_read, run, candidate>>
      /\ script \in Scripts
  BY Places DEF IInv, Known, CollectEvidence, At, git, TypeOK
<1>2. step \in 3..4 /\ step < Last[script]
  BY <1>1, PlaceValues
<1>3. PICK rc \in {0, 124, 128}, heads \in BOOLEAN :
        LET upstream == IF "network" \in options THEN search_status(rc) ELSE "skipped"
            status   == evidence_status(tree.src >= BatchSince, upstream, heads)
        IN  /\ rc = 0 => heads = candidate
            /\ heads => candidate
            /\ built' = [built EXCEPT ![script].evidence =
                           [run |-> run, status |-> status, upstream |-> upstream]]
            /\ IF status = "unavailable" THEN GoesOn ELSE Exits("failed")
  BY DEF CollectEvidence
<1>. DEFINE upstream == IF "network" \in options THEN search_status(rc) ELSE "skipped"
            status   == evidence_status(tree.src >= BatchSince, upstream, heads)
            found    == [run |-> run, status |-> status, upstream |-> upstream]
<1>4. found \in Evidences
  <2>1. upstream \in {"skipped", "ok", "timeout", "error"}
    BY DEF search_status
  <2>2. status \in {"unavailable", "evidence-incomplete", "review-needed"}
    BY DEF evidence_status
  <2>. QED
    BY <1>1, <2>1, <2>2 DEF Evidences, TypeOK
<1>5. built' \in [Scripts -> [report : Reports, evidence : Evidences, decision : Reports]]
  BY <1>1, <1>3, <1>4 DEF TypeOK
<1>6. CASE status # "unavailable"
  <2>1. step' = 0 /\ TypeOK'
    BY <1>1, <1>3, <1>5, <1>6, Exiting DEF TypeOK
  <2>. QED
    BY <2>1 DEF IInv, Known
<1>7. CASE status = "unavailable"
  <2>1. step' = step + 1 /\ TypeOK'
    BY <1>1, <1>2, <1>3, <1>5, <1>7, GoingOn DEF TypeOK
  <2>2. built'[script].evidence = found
    BY <1>1, <1>3 DEF TypeOK
  <2>3. ~(tree.src >= BatchSince) /\ (tree.src >= BatchSince) \in BOOLEAN
    BY <1>7 DEF evidence_status
  <2>4. tree.src < BatchSince
    BY <1>1, <2>3, BoundAssumption DEF TypeOK, Trees
  <2>5. /\ upstream = (IF "network" \in options THEN "ok" ELSE "skipped")
        /\ "network" \in options => ~candidate
    <3>1. rc = 0 => heads = candidate
      BY <1>3
    <3>. DEFINE api == tree.src >= BatchSince
    <3>2. api \in BOOLEAN /\ evidence_status(api, upstream, heads) = "unavailable"
      BY <1>7, <2>3
    <3>. HIDE DEF api
    <3>. QED
      BY <3>1, <3>2, Absence
  <2>6. Evidenced'
    BY <1>1, <1>7, <2>2, <2>4, <2>5 DEF Evidenced
  <2>7. Behind'
    BY <1>1, <1>2, <2>1, <2>6, SameHistory, PlaceValues DEF Behind
  <2>. QED
    BY <2>1, <2>7 DEF IInv, Known
<1>. QED
  BY <1>6, <1>7

(* What the report names is read from git in two steps.                    *)
LEMMA EnvironmentStep == ASSUME IInv, collect_environment PROVE IInv'
<1>1. /\ TypeOK /\ Behind /\ step # 0 /\ step = Place[script].environment /\ GoesOn
      /\ UNCHANGED <<commits, tree, touched, binary, script, options, head_read, run, candidate>>
      /\ script \in Scripts
  BY Places DEF IInv, Known, collect_environment, At, git, TypeOK
<1>2. step \in 5..6 /\ step < Last[script]
  BY <1>1, PlaceValues
<1>3. PICK dirty \in git_dirty_state(head_read) :
        built' = [built EXCEPT ![script].report = Report(run, head_read, dirty, binary)]
  BY DEF collect_environment
<1>. DEFINE r == Report(run, head_read, dirty, binary)
<1>4. /\ dirty \in {"true", "false", "unavailable"}
      /\ head_read # Unread /\ dirty = "false" => tree = HEAD
  BY DEF git_dirty_state
<1>5. /\ r \in Reports
      /\ r.run = run /\ r.git_commit = head_read /\ r.dirty = dirty /\ r.of = binary
  BY <1>1, <1>4, ReportType DEF TypeOK
<1>6. /\ built' \in [Scripts -> [report : Reports, evidence : Evidences, decision : Reports]]
      /\ built'[script].report = r
      /\ built'[script].evidence = built[script].evidence
  BY <1>1, <1>3, <1>5 DEF TypeOK
<1>7. step' = step + 1 /\ TypeOK'
  BY <1>1, <1>2, <1>6, GoingOn DEF TypeOK
<1>8. Evidenced' <=> Evidenced
  BY <1>1, <1>6 DEF Evidenced
<1>9. ~touched => binary = tree.src
  BY <1>1, <1>2, PlaceValues DEF Behind
<1>10. Behind'
  <2>1. /\ built'[script].report.run = run
        /\ ~touched => /\ built'[script].report.of = tree.src
                       /\ built'[script].report.git_commit # Unread
                            /\ built'[script].report.dirty = "false" => tree.src = HEAD.src
    BY <1>4, <1>5, <1>6, <1>9
  <2>. QED
    BY <1>1, <1>2, <1>7, <1>8, <2>1, SameHistory, PlaceValues DEF Behind
<1>. QED
  BY <1>7, <1>10 DEF IInv, Known

(* The sample is renewed from the report of this run.                      *)
LEMMA CopyStep == ASSUME IInv, UpdateArtifacts PROVE IInv'
<1>1. /\ TypeOK /\ Behind /\ step # 0 /\ step = Place[script].copy /\ GoesOn
      /\ UNCHANGED <<commits, binary, built, script, options, head_read, run, touched, candidate>>
      /\ script \in Scripts
  BY Places DEF IInv, Known, UpdateArtifacts, At, TypeOK
<1>2. step \in 7..8 /\ step < Last[script]
  BY <1>1, PlaceValues
<1>3. tree' \in Trees /\ tree'.src = tree.src
  <2>1. tree.out \in [{"quick", "standard", "full", "decision"} -> Reports]
    BY <1>1, TreeType, BoundAssumption DEF TypeOK, Trees
  <2>2. /\ built[script].report \in Reports
        /\ built[script].decision \in Reports
    BY <1>1 DEF TypeOK
  <2>3. refreshed(tree.out) \in [{"quick", "standard", "full", "decision"} -> Reports]
    BY <2>1, <2>2 DEF refreshed
  <2>4. tree' = [tree EXCEPT !.out = refreshed(tree.out)] \/ tree' = tree
    BY DEF UpdateArtifacts
  <2>5. 1 \in 1..MaxEdits
    BY BoundAssumption
  <2>. QED
    BY <1>1, <2>3, <2>4, <2>5, TreeType DEF TypeOK
<1>4. step' = step + 1 /\ TypeOK'
  BY <1>1, <1>2, <1>3, GoingOn DEF TypeOK
<1>5. Evidenced' <=> Evidenced
  BY <1>1, <1>3 DEF Evidenced
<1>6. Behind'
  BY <1>1, <1>2, <1>3, <1>4, <1>5, SameHistory, PlaceValues DEF Behind
<1>. QED
  BY <1>4, <1>6 DEF IInv, Known

(* The decision reads what the run has written.                            *)
LEMMA DecisionStep == ASSUME IInv, EvaluateDecision PROVE IInv'
<1>1. /\ TypeOK /\ Behind /\ step # 0 /\ step = Place[script].decision
      /\ UNCHANGED <<commits, tree, touched, binary, script, options, head_read, run, candidate>>
      /\ script \in Scripts
  BY Places DEF IInv, Known, EvaluateDecision, At, git, TypeOK
<1>2. step \in 7..9 /\ step < Last[script]
  BY <1>1, PlaceValues
<1>3. CASE Exits("failed") /\ UNCHANGED built
  <2>1. step' = 0 /\ TypeOK'
    BY <1>1, <1>3, Exiting DEF TypeOK
  <2>. QED
    BY <2>1 DEF IInv, Known
<1>4. CASE built' = [built EXCEPT ![script].decision = built[script].report] /\ GoesOn
  <2>1. /\ built' \in [Scripts -> [report : Reports, evidence : Evidences, decision : Reports]]
        /\ built'[script].report = built[script].report
        /\ built'[script].evidence = built[script].evidence
        /\ built'[script].decision = built[script].report
    BY <1>1, <1>4 DEF TypeOK
  <2>2. step' = step + 1 /\ TypeOK'
    BY <1>1, <1>2, <1>4, <2>1, GoingOn DEF TypeOK
  <2>3. Evidenced' <=> Evidenced
    BY <1>1, <2>1 DEF Evidenced
  <2>4. Behind'
    BY <1>1, <1>2, <2>1, <2>2, <2>3, SameHistory, PlaceValues DEF Behind
  <2>. QED
    BY <2>2, <2>4 DEF IInv, Known
<1>. QED
  BY <1>3, <1>4 DEF EvaluateDecision

-----------------------------------------------------------------------------
(* A run starts knowing nothing; a timing by hand is no run of a script.   *)
LEMMA StartStep == ASSUME IInv, Start PROVE IInv'
<1>1. /\ step' = 1 /\ run' \in 0..MaxRuns /\ script' \in Scripts
      /\ options' \subseteq {"update", "network"} /\ outcome' = "none" /\ touched' = FALSE
      /\ UNCHANGED <<commits, tree, binary, built, head_read, candidate>>
  BY BoundAssumption DEF IInv, TypeOK, Start
<1>2. TypeOK'
  <2>1. Last[script'] = 9 \/ Last[script'] = 10
    BY <1>1 DEF Last, Scripts
  <2>2. step' \in 0..Last[script']
    BY <1>1, <2>1
  <2>3. step' \in 0..Len(Steps(script'))
    BY <1>1, <2>2, Lengths, Zenon
  <2>. QED
    BY <1>1, <2>3 DEF IInv, TypeOK
<1>3. Behind'
  BY <1>1, PlaceValues DEF Behind
<1>. QED
  BY <1>2, <1>3 DEF IInv, Known

(* A manual measurement between two releases.                              *)
LEMMA TimingStep == ASSUME IInv, FullTiming PROVE IInv'
<1>1. /\ step' = 0 /\ run' \in 0..MaxRuns /\ binary' = tree.src /\ outcome' = "none"
      /\ UNCHANGED <<commits, built, script, step, options, head_read, touched, candidate>>
  BY BoundAssumption DEF IInv, TypeOK, FullTiming
<1>2. PICK dirty \in git_dirty_state(Len(commits)), decided \in BOOLEAN :
        LET report == Report(run', Len(commits), dirty, binary')
        IN  tree' = [tree EXCEPT !.out.full = report,
                                 !.out.decision = IF decided THEN report ELSE @]
  BY DEF FullTiming
<1>. DEFINE report == Report(run', Len(commits), dirty, binary')
<1>3. tree.src \in 1..MaxEdits
      /\ tree.out \in [{"quick", "standard", "full", "decision"} -> Reports]
  BY DEF IInv, TypeOK, Trees
<1>4. report \in Reports
  <2>1. dirty \in {"true", "false", "unavailable"}
    BY DEF git_dirty_state
  <2>2. Len(commits) \in 0..MaxCommits /\ binary' \in 0..MaxEdits
    BY <1>1, <1>3, BoundAssumption DEF IInv, TypeOK
  <2>. QED
    BY <1>1, <2>1, <2>2, ReportType
<1>5. tree' \in Trees
  BY <1>2, <1>3, <1>4 DEF IInv, TypeOK, Trees
<1>6. binary' \in 0..MaxEdits
  BY <1>1, <1>3, BoundAssumption
<1>. QED
  BY <1>1, <1>5, <1>6 DEF IInv, Known, TypeOK

-----------------------------------------------------------------------------
(* What is behind a script stays known, whoever steps.                     *)
THEOREM Inductive == Spec => []IInv
<1>1. ASSUME IInv, [Next]_vars PROVE IInv'
  <2>1. CASE Script
    BY <1>1, <2>1, FailsStep, OutCleanStep, SamplesStep, BuildStep, EvidenceStep,
       BenchmarkStep, EnvironmentStep, CopyStep, CommitStep, DecisionStep DEF Script
  <2>2. CASE UNCHANGED vars
    <3>1. TypeOK'
      BY <1>1, <2>2 DEF IInv, TypeOK, vars
    <3>2. UNCHANGED <<commits, tree, binary, built, script, step, options, run, touched, candidate>>
      BY <2>2 DEF vars
    <3>3. Evidenced' <=> Evidenced
      BY <3>2 DEF Evidenced
    <3>. QED
      BY <1>1, <3>1, <3>2, <3>3, SameHistory DEF IInv, Known, Behind
  <2>. QED
    BY <1>1, <2>1, <2>2, DeveloperSteps, StartStep, TimingStep DEF Next
<1>. QED
  BY <1>1, Initially, PTL DEF Spec

(* The types, for every number of runs, versions and commits.              *)
THEOREM TypeCorrect == Spec => []TypeOK
BY Inductive, PTL DEF IInv

(* As long as a script runs it has no outcome.                             *)
Unsettled == step # 0 => outcome = "none"

(* The outcome comes with the last step.                                   *)
LEMMA Settles == Spec => []Unsettled
<1>1. Init => Unsettled
  BY DEF Init, Unsettled
<1>2. ASSUME Unsettled, [Next]_vars PROVE Unsettled'
  <2>1. CASE Script
    BY <1>2, <2>1 DEF Unsettled, Script, Fails, EnsureOutClean, ValidateSamples, Build,
      CollectEvidence, Benchmark, collect_environment, UpdateArtifacts, CheckCommit,
      EvaluateDecision, GoesOn, Exits, At
  <2>2. CASE EditSource \/ Discard \/ Commit \/ Start \/ FullTiming
    BY <1>2, <2>2 DEF Unsettled, EditSource, Discard, Commit, Start, FullTiming
  <2>3. CASE UNCHANGED vars
    BY <1>2, <2>3 DEF Unsettled, vars
  <2>. QED
    BY <1>2, <2>1, <2>2, <2>3 DEF Next
<1>. QED
  BY <1>1, <1>2, PTL DEF Spec

(* A script passes with its last look at out/, and nowhere else.           *)
LEMMA PassingStep ==
  ASSUME IInv, Unsettled, [Next]_vars, Passes
  PROVE  /\ Behind /\ TypeOK /\ step = Last[script] /\ tree.out = HEAD.out
         /\ UNCHANGED <<commits, tree, built, script, options, run, touched, candidate>>
<1>1. step # 0 /\ outcome = "none" /\ outcome' = "passed" /\ Behind /\ TypeOK
  BY DEF Passes, IInv, Known, Unsettled
<1>2. EnsureOutClean
  BY <1>1 DEF Next, vars, Script, Fails, ValidateSamples, Build, CollectEvidence, Benchmark,
    collect_environment, UpdateArtifacts, CheckCommit, EvaluateDecision, GoesOn, Exits,
    EditSource, Discard, Commit, Start, FullTiming
<1>3. /\ ~(step < Len(Steps(script))) /\ tree.out = HEAD.out
      /\ UNCHANGED <<commits, tree, built, script, options, run, touched, candidate>>
  BY <1>1, <1>2 DEF EnsureOutClean, GoesOn, Exits, git
<1>4. step = Last[script]
  BY <1>1, <1>3, Places, Lengths DEF TypeOK
<1>. QED
  BY <1>1, <1>3, <1>4

(* What passes untouched is of this run, measured on the commit it names.  *)
THEOREM PassesFresh == Spec => PassedIsFresh
<1>1. ASSUME IInv, Unsettled, [Next]_vars, Passes, ~touched
      PROVE  LET b == built[script]
             IN  /\ b.report.run = run /\ b.evidence.run = run /\ b.decision = b.report
                 /\ b.report.git_commit = Len(commits)
                 /\ b.report.of = HEAD.src /\ tree = HEAD
  <2>1. /\ Behind /\ TypeOK /\ step = Last[script] /\ tree.out = HEAD.out
    BY <1>1, PassingStep
  <2>2. script \in Scripts
    BY <2>1 DEF TypeOK
  <2>3. Evidenced
    BY <2>1, <2>2, PlaceValues DEF Behind
  <2>4. LET b == built[script]
        IN  /\ b.report.run = run /\ b.decision = b.report
            /\ b.report.of = tree.src /\ b.report.git_commit = Len(commits)
            /\ tree.src = HEAD.src
    <3>1. Len(commits) # Unread
      BY <2>1, BoundAssumption DEF TypeOK, Unread
    <3>. QED
      BY <1>1, <2>1, <2>2, <3>1, PlaceValues DEF Behind
  <2>5. tree = HEAD
    BY <2>1, <2>4, HeadType DEF TypeOK, Trees
  <2>. QED
    BY <2>3, <2>4, <2>5 DEF Evidenced
<1>2. IInv /\ Unsettled /\ [Next]_vars => [ Passes /\ ~touched =>
        LET b == built[script]
        IN  /\ b.report.run = run /\ b.evidence.run = run /\ b.decision = b.report
            /\ b.report.git_commit = Len(commits)
            /\ b.report.of = HEAD.src /\ tree = HEAD ]_vars
  BY <1>1
<1>. QED
  BY <1>2, Inductive, Settles, PTL DEF Spec, PassedIsFresh

(* The samples beside a release that passes are the committed ones.        *)
THEOREM PassesCoherent == Spec => PassedSamplesCoherent
<1>1. IInv /\ Unsettled /\ [Next]_vars => [ Passes /\ ~touched =>
        tree.out = HEAD.out /\ (script = "release_check" => Coherent(HEAD.out)) ]_vars
  <2>. SUFFICES ASSUME IInv, Unsettled, [Next]_vars, Passes, ~touched
                PROVE  tree.out = HEAD.out /\ (script = "release_check" => Coherent(HEAD.out))
    OBVIOUS
  <2>1. /\ Behind /\ TypeOK /\ step = Last[script] /\ tree.out = HEAD.out
    BY PassingStep
  <2>. QED
    BY <2>1, PlaceValues DEF Behind, TypeOK
<1>. QED
  BY <1>1, Inductive, Settles, PTL DEF Spec, PassedSamplesCoherent

(* A release passes on absence that was established, never on a search     *)
(* that failed or timed out.                                               *)
THEOREM PassesOnEvidence == Spec => AbsenceIsEvidence
<1>1. IInv /\ Unsettled /\ [Next]_vars => [ Passes =>
        /\ built[script].evidence.upstream = (IF "network" \in options THEN "ok" ELSE "skipped")
        /\ "network" \in options => ~candidate
        /\ ~touched => tree.src < BatchSince ]_vars
  <2>. SUFFICES ASSUME IInv, Unsettled, [Next]_vars, Passes PROVE Evidenced
    BY DEF Evidenced
  <2>1. /\ Behind /\ TypeOK /\ step = Last[script]
    BY PassingStep
  <2>. QED
    BY <2>1, PlaceValues DEF Behind, TypeOK
<1>. QED
  BY <1>1, Inductive, Settles, PTL DEF Spec, AbsenceIsEvidence

=============================================================================
