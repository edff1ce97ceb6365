----------------------------- MODULE ReleaseGate -----------------------------
(***************************************************************************)
(* release_check.sh and full_release_check.sh, run one after the other in  *)
(* a working tree that its developer goes on editing.  A script builds the *)
(* program, collects the evidence on batch verification, measures, and     *)
(* lets the report pass only if it says that it was made on a clean tree   *)
(* of the current commit.  It writes below build/ and, when it is asked to *)
(* refresh the committed samples, copies to out/.  It may fail or be       *)
(* stopped between any two steps; what it has written stays behind.        *)
(*                                                                         *)
(* Commits are numbered; a commit is a tree: a version of the source and   *)
(* the samples in out/.  Files that git does not track are not part of it. *)
(* A decision is named after the report it is made from, a report after    *)
(* the run that measured it.                                               *)
(***************************************************************************)
EXTENDS Integers, Sequences, FiniteSets

CONSTANTS
  MaxRuns,     \* bound on the number of script runs and manual timings
  MaxEdits,    \* bound on the versions of the source
  MaxCommits,  \* bound on the number of commits
  BatchSince   \* the first version whose vendored header has a batch API

ASSUME BoundAssumption ==
  MaxRuns \in Nat /\ MaxEdits \in Nat \ {0} /\ MaxCommits \in Nat \ {0, 1} /\ BatchSince \in Nat

VARIABLES
  commits,    \* the history; the last one is HEAD
  tree,       \* the working tree
  binary,     \* the version build/qrs_native_bench was built from, 0 for none
  built,      \* the files below build/ that each script writes
  script,     \* the script that runs or ran last
  step,       \* the step it is at, 0 when none runs
  options,    \* QRS_RELEASE_UPDATE_ARTIFACTS and QRS_RELEASE_NETWORK_BATCH
  head_read,  \* what git rev-parse said to the benchmark
  run,        \* the number of the run
  outcome,    \* how it ended
  touched,    \* the developer changed something while it ran
  candidate   \* upstream has a branch for batch verification

vars == <<commits, tree, binary, built, script, step, options, head_read, run, outcome,
          touched, candidate>>

git == <<commits, tree, touched>>

-----------------------------------------------------------------------------
(* The steps that change or read what is modelled, in their order.  The    *)
(* other checks of a script are pure; they may fail before any step.       *)
Steps(s) ==
  IF s = "release_check"
    THEN <<"out_clean", "samples", "build", "evidence", "benchmark", "environment",
           "copy", "commit", "decision", "out_clean">>
    ELSE <<"out_clean", "build", "evidence", "benchmark", "environment",
           "commit", "decision", "copy", "out_clean">>

Scripts == {"release_check", "full_release_check"}
\* The commit when git does not answer, or when the script was started in a
\* directory of another repository, which is then the one that answers.
Unread == 0
Report(r, commit, dirty, of) == [run |-> r, git_commit |-> commit, dirty |-> dirty, of |-> of]
NoReport   == Report(0, Unread, "unavailable", 0)
NoEvidence == [run |-> 0, status |-> "none", upstream |-> "none"]

HEAD == commits[Len(commits)]
Sample == [quick |-> Report(0, 1, "false", 1), standard |-> Report(0, 1, "false", 1),
           full |-> Report(0, 1, "false", 1), decision |-> Report(0, 1, "false", 1)]

Init ==
  /\ commits = <<[src |-> 1, out |-> [s \in DOMAIN Sample |-> NoReport]],
                 [src |-> 1, out |-> Sample]>>
  /\ tree = commits[2]
  /\ binary = 0
  /\ built = [s \in Scripts |->
                [report |-> NoReport, evidence |-> NoEvidence, decision |-> NoReport]]
  /\ script = "release_check" /\ step = 0
  /\ options = {}
  /\ head_read = Unread
  /\ run = 0
  /\ outcome = "none"
  /\ touched = FALSE
  /\ candidate \in BOOLEAN

-----------------------------------------------------------------------------
(* The developer, at any time.                                             *)
Touches == touched' = (touched \/ step # 0)

EditSource ==
  /\ tree.src < MaxEdits
  /\ tree' = [tree EXCEPT !.src = @ + 1]
  /\ Touches
  /\ UNCHANGED <<commits, binary, built, script, step, options, head_read, run, outcome, candidate>>

Discard ==
  /\ tree # HEAD
  /\ tree' = HEAD
  /\ Touches
  /\ UNCHANGED <<commits, binary, built, script, step, options, head_read, run, outcome, candidate>>

Commit ==
  /\ tree # HEAD /\ Len(commits) < MaxCommits
  /\ commits' = Append(commits, tree)
  /\ Touches
  /\ UNCHANGED <<tree, binary, built, script, step, options, head_read, run, outcome, candidate>>

-----------------------------------------------------------------------------
(* One run of a script.                                                    *)
Start ==
  /\ step = 0 /\ run < MaxRuns
  /\ script' \in Scripts
  /\ options' \in SUBSET {"update", "network"}
  /\ step' = 1 /\ run' = run + 1
  /\ outcome' = "none" /\ touched' = FALSE
  /\ UNCHANGED <<commits, tree, binary, built, head_read, candidate>>

At(s) == step # 0 /\ Steps(script)[step] = s

GoesOn == step' = step + 1 /\ UNCHANGED outcome
Exits(how) == step' = 0 /\ outcome' = how

\* A command failed under set -e, or the script was interrupted.
Fails ==
  /\ step # 0
  /\ Exits("failed")
  /\ UNCHANGED <<git, binary, built, script, options, head_read, run, candidate>>

\* Mutant: the script does not look at out/.
OutUnchecked ==
  /\ At("out_clean")
  /\ IF step < Len(Steps(script)) THEN GoesOn ELSE Exits("passed")
  /\ UNCHANGED <<git, binary, built, script, options, head_read, run, candidate>>

\* The first and the last step; after the last one the script has passed.
EnsureOutClean ==
  /\ At("out_clean")
  /\ IF step < Len(Steps(script))
       THEN IF tree.out = HEAD.out THEN GoesOn ELSE Exits("failed")
       ELSE Exits(IF tree.out = HEAD.out THEN "passed" ELSE "uncommitted")
  /\ UNCHANGED <<git, binary, built, script, options, head_read, run, candidate>>

(* The samples are of one commit that is reachable from HEAD, made on a    *)
(* clean tree, and the decision is the one made from the full report: the  *)
(* script compares their p99 values, which two measurements do not share,  *)
(* and no script or documented command writes a decision without any to    *)
(* out/.  That the documents name the commit is a check of wording.        *)
Coherent(out) ==
  /\ out.quick.git_commit \in DOMAIN commits
  /\ \A s \in {"quick", "standard", "full"} :
       out[s].git_commit = out.quick.git_commit /\ out[s].dirty = "false"
  /\ out.decision = out.full

ValidateSamples ==
  /\ At("samples")
  /\ IF Coherent(tree.out) THEN GoesOn ELSE Exits("failed")
  /\ UNCHANGED <<git, binary, built, script, options, head_read, run, candidate>>

Build ==
  /\ At("build")
  /\ binary' = tree.src
  /\ GoesOn
  /\ UNCHANGED <<git, built, script, options, head_read, run, candidate>>

\* Mutant: a search that timed out has found what it has found.
search_as_ok(rc) == IF rc \in {0, 124} THEN "ok" ELSE "error"

search_status(rc) == IF rc = 0 THEN "ok" ELSE IF rc = 124 THEN "timeout" ELSE "error"

evidence_status(api, upstream, heads) ==
  IF api \/ (upstream = "ok" /\ heads) THEN "review-needed"
  ELSE IF upstream \in {"ok", "skipped"} THEN "unavailable"
  ELSE "evidence-incomplete"

(* check_batch_schnorr_baseline.py.  git ls-remote may fail or time out    *)
(* with or without a part of its output.  The file is written in any case. *)
CollectEvidence ==
  /\ At("evidence")
  /\ \E rc \in {0, 124, 128}, heads \in BOOLEAN :
       LET upstream == IF "network" \in options THEN search_status(rc) ELSE "skipped"
           status   == evidence_status(tree.src >= BatchSince, upstream, heads)
       IN  /\ rc = 0 => heads = candidate
           /\ heads => candidate
           /\ built' = [built EXCEPT ![script].evidence =
                          [run |-> run, status |-> status, upstream |-> upstream]]
           /\ IF status = "unavailable" THEN GoesOn ELSE Exits("failed")
  /\ UNCHANGED <<git, binary, script, options, head_read, run, candidate>>

\* Mutant: the script goes on without a report.
BenchmarkOrTrue ==
  /\ At("benchmark")
  /\ \/ head_read' \in {Len(commits), Unread} /\ GoesOn
     \/ step' = step + 2 /\ UNCHANGED <<head_read, outcome>>
  /\ UNCHANGED <<git, binary, built, script, options, run, candidate>>

\* After it has measured, the program asks git for the commit.
Benchmark ==
  /\ At("benchmark")
  /\ head_read' \in {Len(commits), Unread}
  /\ GoesOn
  /\ UNCHANGED <<git, binary, built, script, options, run, candidate>>

\* Git fails with "true"; a shell that cannot be started makes it "unavailable".
\* Of another repository it says whether that one is clean.
git_dirty_state(commit) ==
  {"true", "unavailable"} \cup (IF tree = HEAD \/ commit = Unread THEN {"false"} ELSE {})

\* Then whether the tree is clean, and writes the report.
collect_environment ==
  /\ At("environment")
  /\ \E dirty \in git_dirty_state(head_read) :
       built' = [built EXCEPT ![script].report = Report(run, head_read, dirty, binary)]
  /\ GoesOn
  /\ UNCHANGED <<git, binary, script, options, head_read, run, candidate>>

refreshed(out) ==
  IF script = "release_check"
    THEN [out EXCEPT !.quick = built[script].report]
    ELSE [out EXCEPT !.standard = built[script].report, !.decision = built[script].decision]

UpdateArtifacts ==
  /\ At("copy")
  /\ tree' = IF "update" \in options THEN [tree EXCEPT !.out = refreshed(@)] ELSE tree
  /\ GoesOn
  /\ UNCHANGED <<commits, binary, built, script, options, head_read, run, touched, candidate>>

CheckCommit ==
  /\ At("commit")
  /\ LET report == built[script].report
     IN  IF report.git_commit = Len(commits) /\ report.dirty = "false"
           THEN GoesOn ELSE Exits("failed")
  /\ UNCHANGED <<git, binary, built, script, options, head_read, run, candidate>>

\* assert_quick_report.py reads the evidence, too; ResourceDecision has the rest.
EvaluateDecision ==
  /\ At("decision")
  /\ IF built[script].evidence.status = "unavailable"
       THEN /\ built' = [built EXCEPT ![script].decision = built[script].report]
            /\ GoesOn
       ELSE Exits("failed") /\ UNCHANGED built
  /\ UNCHANGED <<git, binary, script, options, head_read, run, candidate>>

(* The documented timing run: built and measured by hand, straight into    *)
(* out/, when no script runs, and decided unless a command fails before.   *)
FullTiming ==
  /\ step = 0 /\ run < MaxRuns
  /\ binary' = tree.src /\ run' = run + 1
  /\ \E dirty \in git_dirty_state(Len(commits)), decided \in BOOLEAN :
       LET report == Report(run', Len(commits), dirty, binary')
       IN  tree' = [tree EXCEPT !.out.full = report,
                                !.out.decision = IF decided THEN report ELSE @]
  /\ outcome' = "none"
  /\ UNCHANGED <<commits, built, script, step, options, head_read, touched, candidate>>

Script ==
  \/ Fails \/ EnsureOutClean \/ ValidateSamples \/ Build \/ CollectEvidence \/ Benchmark
  \/ collect_environment \/ UpdateArtifacts \/ CheckCommit \/ EvaluateDecision

Next == EditSource \/ Discard \/ Commit \/ Start \/ Script \/ FullTiming

Spec == Init /\ [][Next]_vars

-----------------------------------------------------------------------------
Reports ==
  [run : 0..MaxRuns, git_commit : 0..MaxCommits,
   dirty : {"true", "false", "unavailable"}, of : 0..MaxEdits]
Trees == [src : 1..MaxEdits, out : [{"quick", "standard", "full", "decision"} -> Reports]]
Evidences ==
  [run : 0..MaxRuns, status : {"none", "unavailable", "evidence-incomplete", "review-needed"},
   upstream : {"none", "skipped", "ok", "timeout", "error"}]

(* Every report below build/ and in out/ is one that a run has written.    *)
TypeOK ==
  /\ commits \in Seq(Trees) /\ Len(commits) \in 1..MaxCommits
  /\ tree \in Trees
  /\ binary \in 0..MaxEdits
  /\ built \in [Scripts -> [report : Reports, evidence : Evidences, decision : Reports]]
  /\ script \in Scripts /\ step \in 0..Len(Steps(script))
  /\ options \subseteq {"update", "network"}
  /\ head_read \in 0..MaxCommits
  /\ run \in 0..MaxRuns
  /\ outcome \in {"none", "failed", "uncommitted", "passed"}
  /\ touched \in BOOLEAN /\ candidate \in BOOLEAN

Passes == step # 0 /\ outcome' = "passed"

(* A release never passes on what an earlier, failed or interrupted run    *)
(* left behind: unless the developer worked during the run, report,        *)
(* evidence and decision are of this run, and the program that was         *)
(* measured was built from the source of the commit the report names.      *)
PassedIsFresh ==
  [][ Passes /\ ~touched =>
        LET b == built[script]
        IN  /\ b.report.run = run /\ b.evidence.run = run /\ b.decision = b.report
            /\ b.report.git_commit = Len(commits)
            /\ b.report.of = HEAD.src /\ tree = HEAD ]_vars

(* A release that passes leaves the samples in out/ as they are committed, *)
(* and they belong together, whatever was copied over them before.         *)
PassedSamplesCoherent ==
  [][ Passes /\ ~touched =>
        tree.out = HEAD.out /\ (script = "release_check" => Coherent(HEAD.out)) ]_vars

(* No batch verification is called unavailable because a search failed or  *)
(* timed out: with the network asked, upstream had no candidate.           *)
AbsenceIsEvidence ==
  [][ Passes =>
        /\ built[script].evidence.upstream = (IF "network" \in options THEN "ok" ELSE "skipped")
        /\ "network" \in options => ~candidate
        /\ ~touched => tree.src < BatchSince ]_vars

=============================================================================
