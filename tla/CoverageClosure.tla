---------------------------- MODULE CoverageClosure ----------------------------
(***************************************************************************)
(* scripts/report_cpu_coverage.py and scripts/close_cpu_cross_coverage.py: *)
(* merging the counter files of a directory, searching for programs that   *)
(* hit the cross bins still missing, and replaying, on a fresh directory,  *)
(* the seeds that contributed.                                             *)
(*                                                                         *)
(* A bin is a pair of its group and its name; the name of a cross bin is a *)
(* tuple.  A counter file is a set of records, its counts reduced to zero  *)
(* or not.                                                                 *)
(***************************************************************************)
EXTENDS Integers, Sequences, FiniteSets

CONSTANTS
  CoverPoints,  \* plain covergroups and their bins
  Crosses,      \* cross covergroups and the bins of their three coverpoints
  Baselines,    \* sets of bins that the regression before the search may hit
  Attempts,     \* seeds tried for one target (32 in the code)
  Sessions      \* searches in one directory: a bound of the model

ASSUME ClosureAssumption ==
  /\ Attempts \in Nat \ {0} /\ Sessions \in Nat \ {0}
  /\ \A g \in DOMAIN Crosses : Len(Crosses[g]) = 3
  /\ DOMAIN CoverPoints \cap DOMAIN Crosses = {}

CrossName == "hazard_trap_stage"
cross_partitions ==
  [g \in DOMAIN Crosses |-> Crosses[g][1] \X Crosses[g][2] \X Crosses[g][3]]
CrossBins ==
  {<<CrossName, name>> : name \in UNION {cross_partitions[g] : g \in DOMAIN Crosses}}
expected_bins ==
  (UNION {{<<g, name>> : name \in CoverPoints[g]} : g \in DOMAIN CoverPoints}) \cup CrossBins

-----------------------------------------------------------------------------
(* What a simulator writes: a record for every bin, for the coverpoints a  *)
(* cross is made of, and for code coverage.                                *)
Record(kind, group, cross, name, hit) ==
  [kind |-> kind, group |-> group, cross |-> cross, bin |-> name, hit |-> hit]
Dat(hits, whole) ==
  LET plain == UNION {{Record("covergroup", g, FALSE, b, <<g, b>> \in hits) :
                         b \in CoverPoints[g]} : g \in DOMAIN CoverPoints}
      cross == UNION {{Record("covergroup", g, TRUE, b, <<CrossName, b>> \in hits) :
                         b \in cross_partitions[g]} : g \in DOMAIN Crosses}
      parts == UNION {{Record("covergroup", g, FALSE, <<b>>, TRUE) : b \in Crosses[g][3]} :
                         g \in DOMAIN Crosses}
      lines == {Record("line", "rv32_slice", FALSE, "line_1", TRUE)}
  IN  IF whole THEN plain \cup cross \cup parts \cup lines ELSE parts \cup lines \cup plain

Counted(r) == r.kind = "covergroup" /\ (r.group \in DOMAIN Crosses => r.cross)
Key(r) == <<IF r.group \in DOMAIN Crosses THEN CrossName ELSE r.group, r.bin>>

(* read_counts raises on a malformed record, on a bin outside its group's  *)
(* declaration and on a bin that is missing.                               *)
Readable(file) ==
  /\ \A r \in file : /\ r.kind # "malformed"
                     /\ Counted(r) /\ r.group \in DOMAIN Crosses =>
                          r.bin \in cross_partitions[r.group]
  /\ {Key(r) : r \in {s \in file : Counted(s)}} = expected_bins
read_counts(file) == {Key(r) : r \in {s \in file : Counted(s) /\ s.hit}}

Summarizable(files) == files # {} /\ \A f \in files : Readable(f)
summarize(files) == UNION {read_counts(f) : f \in files}
Uncovered(report) == CrossBins \ report

-----------------------------------------------------------------------------
VARIABLES
  origin,       \* the bins the regression hits
  directory,    \* the counter files, each a set of records
  mode, phase, status,
  baseline, report,     \* bins hit: before the session, and now
  targets, target, attempt, seed,
  todo,         \* of the manifest, what is left to replay
  cases,        \* the ledger, written after every case
  manifest, drift,      \* the frozen seeds; what changed since
  gate,         \* outcome of report_cpu_coverage --min-percent 100
  known,        \* what each program hits: generator and core are deterministic
  clean, broken, session    \* history: session on the baseline alone; a run failed

vars == <<origin, directory, mode, phase, status, baseline, report, targets, target, attempt,
          seed, todo, cases, manifest, drift, gate, known, clean, broken, session>>

BaselineFiles(hits) == {Dat(hits, TRUE)}
FirstSeed == 0

Init ==
  /\ origin \in Baselines /\ directory = BaselineFiles(origin)
  /\ mode = "search" /\ phase = "start" /\ status = "none"
  /\ baseline = {} /\ report = {} /\ targets = {} /\ target = "none"
  /\ attempt = 0 /\ seed = FirstSeed /\ todo = <<>> /\ cases = <<>>
  /\ manifest = <<>> /\ drift = "none" /\ gate = "none" /\ known = <<>>
  /\ clean = TRUE /\ broken = FALSE /\ session = 1

Exit(s) == phase' = "exited" /\ status' = s
Goto(p) == phase' = p /\ UNCHANGED status

(* The baseline is whatever the directory holds; the targets are fixed     *)
(* here, or the manifest is taken and its model compared.                  *)
Start ==
  /\ phase = "start"
  /\ IF ~Summarizable(directory) \/ (mode = "replay" /\ drift = "model")
     THEN Exit("failed") /\ baseline' = {} /\ report' = {} /\ UNCHANGED <<targets, todo>>
     ELSE /\ baseline' = summarize(directory) /\ report' = baseline'
          /\ IF mode = "replay"
             THEN todo' = manifest /\ UNCHANGED targets
             ELSE targets' = Uncovered(baseline') /\ UNCHANGED todo
          /\ Goto("next")
  /\ seed' = FirstSeed /\ cases' = <<>>
  /\ UNCHANGED <<origin, directory, mode, target, attempt, manifest, drift, gate, known,
                 clean, broken, session>>

(* A target that an earlier seed hit on the way is skipped.                *)
NextTarget ==
  /\ phase = "next" /\ mode = "search" /\ targets # {}
  /\ \E t \in targets :
       /\ targets' = targets \ {t}
       /\ IF t \in Uncovered(report) THEN target' = t /\ attempt' = 0 /\ Goto("run")
                                     ELSE UNCHANGED <<target, attempt, phase, status>>
  /\ UNCHANGED <<origin, directory, mode, baseline, report, seed, todo, cases, manifest, drift,
                 gate, known, clean, broken, session>>

(* Each generated source must have the hash it was frozen with.            *)
NextFrozen ==
  /\ phase = "next" /\ mode = "replay" /\ todo # <<>>
  /\ IF drift = "generator" THEN Exit("failed") /\ UNCHANGED <<target, seed, todo>>
     ELSE /\ target' = Head(todo).target /\ seed' = Head(todo).seed /\ todo' = Tail(todo)
          /\ Goto("run")
  /\ UNCHANGED <<origin, directory, mode, baseline, report, targets, attempt, cases, manifest,
                 drift, gate, known, clean, broken, session>>

Program == <<seed, target>>
MayHit == IF Program \in DOMAIN known THEN {known[Program]} ELSE SUBSET CrossBins

GainedTarget(updated) ==      \* mutant: only the target is credited
  {target} \cap (Uncovered(report) \ Uncovered(updated))
GainedSinceBaseline(updated) ==      \* mutant: credited again to every later case
  Uncovered(baseline) \ Uncovered(updated)
Gained(updated) == Uncovered(report) \ Uncovered(updated)
Merged(files) == summarize(files)

Failed == [seed |-> seed, target |-> target, status |-> "failed", new_bins |-> {},
           hits |-> {}]

(* execute() when lockstep agrees: the counters of this run join those of  *)
(* the directory, and the ledger says what they added.                     *)
RunPasses ==
  /\ phase = "run"
  /\ \E hits \in MayHit :
       LET files == directory \cup {Dat(hits, TRUE)}
           updated == Merged(files)
       IN
       /\ directory' = files /\ report' = updated
       /\ known' = [p \in DOMAIN known \cup {Program} |-> IF p = Program THEN hits ELSE known[p]]
       /\ cases' = Append(cases, [seed |-> seed, target |-> target, status |-> "passed",
                                  new_bins |-> Gained(updated), hits |-> hits])
       /\ IF mode = "replay"
          THEN Goto("next") /\ UNCHANGED <<seed, attempt>>
          ELSE /\ seed' = seed + 1
               /\ IF target \notin Uncovered(updated) THEN Goto("next") /\ UNCHANGED attempt
                  ELSE IF attempt + 1 < Attempts THEN attempt' = attempt + 1 /\ Goto("run")
                  ELSE Exit("failed") /\ UNCHANGED attempt
  /\ UNCHANGED <<origin, mode, baseline, targets, target, todo, manifest, drift, gate,
                 clean, broken, session>>

(* Lockstep diverges, times out or the DUT dies: its counters may be there *)
(* all the same, whole or in part.                                         *)
LeavesBehind ==
  \/ UNCHANGED directory
  \/ \E whole \in BOOLEAN, hits \in MayHit : directory' = directory \cup {Dat(hits, whole)}
RunFails ==
  /\ phase = "run" /\ LeavesBehind
  /\ cases' = Append(cases, Failed) /\ broken' = TRUE /\ Exit("failed")
  /\ UNCHANGED <<origin, mode, baseline, report, targets, target, attempt, seed, todo, manifest,
                 drift, gate, known, clean, session>>

(* The operator stops the search in the middle of a run.                   *)
Interrupted ==
  /\ phase = "run" /\ LeavesBehind
  /\ broken' = TRUE /\ Exit("failed")
  /\ UNCHANGED <<origin, mode, baseline, report, targets, target, attempt, seed, todo, cases,
                 manifest, drift, gate, known, clean, session>>

FinishUnchecked ==    \* mutant: the last check of the script is left out
  /\ phase = "next" /\ IF mode = "replay" THEN todo = <<>> ELSE targets = {}
  /\ Exit("closed")
  /\ UNCHANGED <<origin, directory, mode, baseline, report, targets, target, attempt, seed, todo,
                 cases, manifest, drift, gate, known, clean, broken, session>>
Finish ==
  /\ phase = "next" /\ IF mode = "replay" THEN todo = <<>> ELSE targets = {}
  /\ Exit(IF Uncovered(report) = {} THEN "closed" ELSE "failed")
  /\ UNCHANGED <<origin, directory, mode, baseline, report, targets, target, attempt, seed, todo,
                 cases, manifest, drift, gate, known, clean, broken, session>>

(* run_cpu_coverage.sh: the whole directory against --min-percent 100.     *)
Gate ==
  /\ phase = "exited" /\ mode = "replay" /\ status = "closed" /\ gate = "none"
  /\ gate' = IF Summarizable(directory) /\ summarize(directory) = expected_bins
             THEN "pass" ELSE "fail"
  /\ UNCHANGED <<origin, directory, mode, phase, status, baseline, report, targets, target,
                 attempt, seed, todo, cases, manifest, drift, known, clean, broken, session>>

-----------------------------------------------------------------------------
(* The operator: search again in the same directory, or freeze the cases   *)
(* that contributed and replay them over a fresh baseline, perhaps after   *)
(* the generator or the coverage model has changed.                        *)
Contributed(c) == c.new_bins # {}
Frozen[n \in 0 .. Len(cases)] ==
  IF n = 0 THEN <<>>
  ELSE IF Contributed(cases[n]) THEN Append(Frozen[n - 1], cases[n]) ELSE Frozen[n - 1]
Again ==
  /\ phase = "exited" /\ mode = "search" /\ status = "failed" /\ session < Sessions
  /\ session' = session + 1 /\ clean' = FALSE /\ broken' = FALSE
  /\ phase' = "start" /\ status' = "none"
  /\ UNCHANGED <<origin, directory, mode, baseline, report, targets, target, attempt, seed, todo,
                 cases, manifest, drift, gate, known>>

Freeze ==
  /\ phase = "exited" /\ mode = "search" /\ status = "closed"
  /\ manifest' = Frozen[Len(cases)]
  /\ mode' = "replay" /\ phase' = "start" /\ status' = "none"
  /\ drift' \in {"none", "generator", "model"}
  /\ directory' = BaselineFiles(origin) /\ broken' = FALSE
  /\ UNCHANGED <<origin, baseline, report, targets, target, attempt, seed, todo, cases, gate,
                 known, clean, session>>

Stopped == phase = "exited" /\ UNCHANGED vars

Next == Start \/ NextTarget \/ NextFrozen \/ RunPasses \/ RunFails \/ Interrupted
        \/ Finish \/ Gate \/ Again \/ Freeze \/ Stopped
Spec == Init /\ [][Next]_vars

-----------------------------------------------------------------------------
(* The ledger explains the coverage: what is covered now is what was       *)
(* covered before and what the cases added, each bin credited once, to a   *)
(* run that hit it and that Spike agreed with; a failed case is the last.  *)
LedgerExplains ==
  phase \in {"next", "run", "exited"} =>
    /\ report = baseline \cup UNION {cases[i].new_bins : i \in DOMAIN cases}
    /\ \A i \in DOMAIN cases :
         /\ cases[i].new_bins \subseteq cases[i].hits \ baseline
         /\ \A j \in DOMAIN cases : i # j => cases[i].new_bins \cap cases[j].new_bins = {}
         /\ cases[i].status = "failed" => i = Len(cases) /\ status = "failed"

(* Closed means closed: every cross bin is hit in a file of the directory, *)
(* no file is in part, and the gate passes only when every bin is.         *)
ClosedMeansHit ==
  status = "closed" =>
    /\ Summarizable(directory) /\ CrossBins \subseteq summarize(directory)
    /\ gate = "pass" <=> gate # "none" /\ \A b \in expected_bins :
                           \E f \in directory : b \in read_counts(f)
    /\ \A i \in DOMAIN cases : cases[i].status = "passed"

(* The seeds that contributed are enough: replayed over the same baseline, *)
(* with the same generator and model and no run failing, they close it,    *)
(* though the runs between them that added nothing are left out.           *)
ReplayCloses ==
  mode = "replay" /\ phase = "exited" /\ clean /\ drift = "none" /\ ~broken => status = "closed"

(* What closed means of the bins, and of the seeds it is replayed with.    *)
ClosedMeans == ClosedMeansHit /\ ReplayCloses
=============================================================================
