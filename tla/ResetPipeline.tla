--------------------------- MODULE ResetPipeline ---------------------------
(***************************************************************************)
(* The offline relocalization workflow of lidar_localization_ros2/scripts: *)
(* one command line program per step, each reading the files the earlier   *)
(* steps left and writing its own.  A recorded localization run (the       *)
(* alignment log) is cut into request windows; a candidate generator makes *)
(* an attempt per window and candidate poses for it; the candidates are    *)
(* ranked into registration jobs, joined with the scans of the bag, scored *)
(* by NDT, and the best eligible one of each attempt becomes a plan row, a *)
(* dry-run command and, with --execute, a pose on /initialpose.            *)
(*                                                                         *)
(* Nothing ties the files together but their names: a step refuses to      *)
(* replace its output without --overwrite, takes whatever input is there,  *)
(* and may be run again after an earlier file changed.  The state is the   *)
(* directory (`file'), the log recorded last, and what was published.      *)
(* Time is the stamp of the bag: row i of a log has stamp i. A file is the *)
(* set of its rows; a row carries its position where a program uses it.    *)
(***************************************************************************)
EXTENDS Naturals, FiniteSets, Sequences, FiniteSetsExt

CONSTANTS
    None,             \* a file that does not exist, a value that is empty
    Logs,             \* alignment logs: sequences over LogRows
    Route,            \* reference trajectory: Route[i] is the place at stamp i
    TimeRadius, MinSpacing, MaxRoutePoses,    \* --route-* options
    CellCount,        \* occupied map cells that survive the grid filters
    GridYaws,         \* headings tried at each place
    MaxPoses,    \* --max-candidates of the generators
    MaxJobs,          \* --max-candidates-per-attempt
    ScanStamps, MaxScanDiff,                  \* scans of the bag and the slack
    Scorings,         \* what scoring a job can come to
    ScoreCaps,        \* values of --max-jobs of the scorer, 0 for all
    GateScore,        \* --score-gate-threshold of the scorer
    MaxScore,         \* --max-score of the selection
    Margins,          \* values of --min-score-margin
    Repeat,           \* --publish-repeat
    ObserveWindow, StableRows,                \* options of the observer
    MaxRecordings, MaxRewrites, MaxPublished   \* bounds: runs recorded, choices redone, poses sent

LogRows == {"ok", "rejected", "requested"}
Scored  == "registration_scored_no_reset"
Resolved == "scan_resolved_no_registration"
Generators == {"route_grid", "map_grid", "disabled"}
Orders  == {"candidate_index", "route_proximity", "oracle_rank"}
FileNames   == {"attempts", "candidates", "oracle", "jobs", "scans", "scores", "plan",
            "commands", "commandReport", "execution", "observation"}

ASSUME PipelineAssumption ==
    /\ \A x \in {TimeRadius, MinSpacing, MaxRoutePoses, MaxPoses, MaxJobs, MaxScanDiff,
                 GateScore, MaxScore, ObserveWindow, StableRows, MaxRewrites} : x \in Nat
    /\ \A x \in {CellCount, GridYaws, Repeat, MaxRecordings, MaxPublished} : x \in Nat \ {0}
    /\ \A log \in Logs : log \in Seq(LogRows)
    /\ Route \in Seq(Nat) /\ Route # <<>>
    /\ Margins \subseteq Nat /\ ScoreCaps \subseteq Nat
    /\ ScanStamps \subseteq Nat /\ ScanStamps # {}
    /\ Scorings \subseteq [run: BOOLEAN, converged: BOOLEAN, near: BOOLEAN, finite: BOOLEAN,
                           measured: BOOLEAN, score: Nat]
    /\ \A o \in Scorings : o.near => o.finite   \* what is not a number is not near

VARIABLES
    log,        \* alignment log of the run recorded last
    runs,       \* runs recorded so far
    file,       \* the working directory
    published,  \* history: commands whose pose went out
    rewrites    \* choices redone so far

pipelineVars == <<log, runs, file, published, rewrites>>

Distance(a, b) == IF a < b THEN b - a ELSE a - b

\* The stamp of S closest to t; the earlier of two at the same distance.
NearestStamp(S, t) ==
    CHOOSE s \in S : \A r \in S \ {s} :
        \/ Distance(s, t) < Distance(r, t)
        \/ Distance(s, t) = Distance(r, t) /\ s < r

\* The position of x among the members of S, counted from 1.
PositionIn(S, x) == Cardinality({y \in S : y <= x})

----------------------------------------------------------------------------
(* Request windows and candidate generation.                               *)

\* The first rows of the maximal runs of requested rows.
RequestWindows(l) ==
    {i \in DOMAIN l : l[i] = "requested" /\ (i > 1 => l[i - 1] # "requested")}

AttemptsOf(kind, l) ==
    {[id |-> PositionIn(RequestWindows(l), first), by |-> kind, trigger |-> first] :
        first \in RequestWindows(l)}

\* Greedy thinning of stamps in order: a row closer than MinSpacing to the row
\* kept last is dropped; the cap keeps the earliest.
Spaced(stamps) ==
    LET kept[s \in 0..Len(Route)] ==
            IF s = 0 THEN {}
            ELSE LET before == kept[s - 1] IN
                 IF \/ s \notin stamps
                    \/ before # {} /\ Distance(Route[s], Route[Max(before)]) < MinSpacing
                    \/ MaxRoutePoses > 0 /\ Cardinality(before) = MaxRoutePoses
                 THEN before ELSE before \union {s}
    IN  {s \in stamps : s \in kept[s]}

\* Route stamps tried for a trigger.  The nearest reference row is always among
\* them: it takes the place of the farthest one when the cap is reached.
Closer(nearest, a, b) ==
    \/ a = nearest /\ b # nearest
    \/ /\ (a = nearest) <=> (b = nearest)
       /\ \/ Distance(a, nearest) < Distance(b, nearest)
          \/ Distance(a, nearest) = Distance(b, nearest) /\ a < b

RouteStamps(trigger) ==
    LET nearest == NearestStamp(DOMAIN Route, trigger)
        near    == {s \in DOMAIN Route : Distance(s, trigger) <= TimeRadius}
        window  == IF near = {} THEN {nearest} ELSE near
        joined  == Spaced(window) \union {nearest}
    IN  {s \in joined : MaxRoutePoses > 0 =>
            Cardinality({r \in joined : Closer(nearest, r, s)}) < MaxRoutePoses}

\* The cap cuts the list of candidates short.
Capped(poses) == {p \in poses : MaxPoses > 0 => p.index < MaxPoses}

\* Headings vary fastest.
IndexOf(n, yaw) == (n - 1) * GridYaws + yaw

RoutePoses(trigger) ==
    LET stamps == RouteStamps(trigger)
    IN  Capped({[index |-> IndexOf(PositionIn(stamps, s), yaw),
                 pose |-> [place |-> Route[s], yaw |-> yaw, away |-> Distance(s, trigger)]] :
                    s \in stamps, yaw \in 0..(GridYaws - 1)})

\* Cells are strided, never the flat list, so that a kept cell keeps its headings.
GridStride ==
    IF MaxPoses > 0 /\ CellCount * GridYaws > MaxPoses
    THEN LET most == IF MaxPoses \div GridYaws > 1 THEN MaxPoses \div GridYaws ELSE 1
         IN  (CellCount + most - 1) \div most
    ELSE 1

GridCells == {c \in 0..(CellCount - 1) : c % GridStride = 0}

GridPoses ==
    Capped({[index |-> IndexOf((c \div GridStride) + 1, yaw),
             pose |-> [place |-> c, yaw |-> yaw, away |-> None]] :
                c \in GridCells, yaw \in 0..(GridYaws - 1)})

PosesFor(kind, trigger) ==
    IF kind = "route_grid" THEN RoutePoses(trigger) ELSE GridPoses

CandidatesOf(kind, l) ==
    UNION {{[attempt |-> a.id, by |-> kind, index |-> p.index, pose |-> p.pose, rank |-> None] :
               p \in PosesFor(kind, a.trigger)} : a \in AttemptsOf(kind, l)}

----------------------------------------------------------------------------
(* Oracle ranking, jobs, scans, registration.                              *)

OracleError(c, trigger) ==
    LET target == Route[NearestStamp(DOMAIN Route, trigger)]
        turned == GridYaws - c.pose.yaw
    IN  Distance(c.pose.place, target) + (IF c.pose.yaw < turned THEN c.pose.yaw ELSE turned)

\* The candidates an attempt has in a candidates file.
Mine(a, candidates) == {c \in candidates : c.attempt = a.id /\ c.by = a.by}

\* The sort by error is stable.
Better(trigger, c, d) ==
    \/ OracleError(c, trigger) < OracleError(d, trigger)
    \/ OracleError(c, trigger) = OracleError(d, trigger) /\ c.index < d.index

\* Rank of a candidate among those of its attempt.
OracleRanked(attempts, candidates) ==
    UNION {LET mine == Mine(a, candidates)
           IN  {[c EXCEPT !.rank = 1 + Cardinality({d \in mine : Better(a.trigger, d, c)})] :
                   c \in mine} : a \in attempts}

\* Order of the candidates of an attempt, ties by candidate index.
JobBefore(order, c, d) ==
    LET late == 1000000
        key(x) == CASE order = "route_proximity" -> IF x.pose.away = None THEN late ELSE x.pose.away
                    [] order = "oracle_rank"     -> IF x.rank = None THEN x.index ELSE x.rank
                    [] OTHER                     -> x.index
    IN  \/ key(c) < key(d)
        \/ key(c) = key(d) /\ order = "route_proximity" /\ c.pose.yaw < d.pose.yaw
        \/ key(c) = key(d) /\ (order = "route_proximity" => c.pose.yaw = d.pose.yaw)
             /\ c.index < d.index

RankOf(mine, order, c) == 1 + Cardinality({d \in mine : JobBefore(order, d, c)})

JobsOf(attempts, candidates, order) ==
    UNION {LET mine == Mine(a, candidates)
               best == {c \in mine : MaxJobs > 0 => RankOf(mine, order, c) <= MaxJobs}
           IN  {[attempt |-> a.id, by |-> a.by, trigger |-> a.trigger, index |-> c.index,
                 pose |-> c.pose, rank |-> RankOf(mine, order, c), order |-> order] :
                   c \in best} : a \in attempts}

\* A job is resolved when the scan closest to its trigger is close enough.
ScanRow(job) ==
    LET scan == NearestStamp(ScanStamps, job.trigger)
    IN  [job |-> job, result |-> None,
         status |-> IF Distance(scan, job.trigger) > MaxScanDiff
                    THEN "scan_time_mismatch" ELSE Resolved]

\* A refinement that is not a number is not above its threshold: it passes. A
\* score that is not one does not.
Gate(o) == o.converged /\ o.measured /\ o.score <= GateScore /\ (o.near \/ ~o.finite)

\* Jobs lie in their file by attempt, and by rank in an attempt.
RowAbove(r, s) ==
    \/ r.job.attempt < s.job.attempt
    \/ r.job.attempt = s.job.attempt /\ r.job.rank < s.job.rank

\* NDT runs on resolved rows, unless their scan was not exported or the map has too
\* few points around their pose (~o.run).
Runs(row, o) == row.status = Resolved /\ o.run

\* The cap counts the rows NDT ran on; the rows below stay as they are.
Reached(row, rows, outcome, cap) ==
    cap > 0 => Cardinality({r \in rows : RowAbove(r, row) /\ Runs(r, outcome[r])}) < cap

\* What the scorer makes of a row it reaches; "not_run" stands for the two statuses
\* of a resolved row that NDT does not run on.
ScoreRow(row, o) ==
    IF row.status # Resolved THEN row
    ELSE IF ~o.run THEN [row EXCEPT !.status = "not_run"]
    ELSE [row EXCEPT !.status = Scored,
                     !.result = [converged |-> o.converged, score |-> o.score, near |-> o.near,
                                 finite |-> o.finite, measured |-> o.measured, gate |-> Gate(o)]]

----------------------------------------------------------------------------
(* Selection, commands, publication, observation.                          *)

\* A score that is not a number is none.
IsScored(row) == row.result # None /\ row.result.measured

\* Mutant: how far the refinement moved is left to the scorer's gate.
EligibleAnywhere(row) ==
    row.result.converged /\ row.result.gate /\ row.result.score <= MaxScore

IsEligible(row) ==
    LET o == row.result
    IN  o.converged /\ o.gate /\ o.score <= MaxScore /\ o.near

RowBefore(r, s) ==
    \/ r.result.score < s.result.score
    \/ r.result.score = s.result.score /\ r.job.rank < s.job.rank

\* The first of S in the order of the selection.
Best(S) == CHOOSE r \in S : \A s \in S : ~RowBefore(s, r)

\* A row per attempt.  The margin is taken to the best other scored row,
\* eligible or not, so it is negative when an ineligible row scores better.
PlanRow(rows, id, margin) ==
    LET scored   == {r \in rows : r.job.attempt = id /\ IsScored(r)}
        eligible == {r \in scored : IsEligible(r)}
        chosen   == Best(eligible)
        others   == scored \ {chosen}
        clear    == \/ margin = 0
                    \/ /\ others # {}
                       /\ Best(others).result.score >= chosen.result.score + margin
        refused(why) == [attempt |-> id, selected |-> FALSE, row |-> None, reason |-> why]
    IN  IF scored = {} THEN refused("no_scored_candidates")
        ELSE IF eligible = {} THEN refused("no_candidate_passed_registration_policy")
        ELSE IF ~clear THEN refused("registration_score_margin_too_small")
        ELSE [attempt |-> id, selected |-> TRUE, row |-> chosen,
              reason |-> "reset_execution_not_implemented"]

PlanOf(rows, margin) == {PlanRow(rows, id, margin) : id \in {r.job.attempt : r \in rows}}

\* Verdict of validate_relocalization_reset_candidate_plan.py on a plan and the
\* scores file that lies beside it now.
PlanValid(plan, rows) ==
    /\ plan # {}
    /\ \A p \in plan : p.selected =>
        /\ p.row.job.order # "oracle_rank"
        /\ IsEligible(p.row) /\ p.row.result.finite
        /\ \E r \in rows :
            /\ r.job.attempt = p.row.job.attempt /\ r.job.index = p.row.job.index
            /\ IsScored(r) /\ r.result.gate /\ r.result.score = p.row.result.score

CommandRow(planRow, n) ==
    LET generated == planRow.selected /\ planRow.row.result.finite
    IN  [id |-> n, attempt |-> planRow.attempt, row |-> planRow.row,
         status |-> IF generated THEN "dry_run_command_generated" ELSE "rejected"]

CommandsOf(plan) ==
    {CommandRow(p, PositionIn({q.attempt : q \in plan}, p.attempt)) : p \in plan}

CommandsValid(commands) ==
    /\ commands # {}
    /\ \A c \in commands :
        /\ c.row # None => c.row.job.order # "oracle_rank"
        /\ c.status = "dry_run_command_generated" => c.row.result.finite

\* The publisher checks again what the validator checked, but not the stamp.
CommandRejected(c) ==
    \/ c.status # "dry_run_command_generated"
    \/ c.row.job.order = "oracle_rank"
    \/ ~c.row.result.finite

ExecutionRow(c, passed, execute) ==
    [id |-> c.id, attempt |-> c.attempt, of |-> c,
     count |-> IF CommandRejected(c) \/ ~passed \/ ~execute THEN 0 ELSE Repeat]

\* Longest run of "ok" rows between stamps lo and hi.
StableOk(l, lo, hi) ==
    LET ok == {i \in DOMAIN l : lo <= i /\ i <= hi /\ l[i] = "ok"}
    IN  Max({n \in 0..Len(l) : n = 0 \/ \E i \in ok : i..(i + n - 1) \subseteq ok})

\* Mutant: every command is observed, published or not.
ObservedUnpublished(e, commands, l) ==
    LET c     == {x \in commands : x.id = e.id}
        cmd   == CHOOSE x \in c : TRUE
        from  == cmd.row.job.trigger
    IN  [id |-> e.id,
         accepted |-> c # {} /\ cmd.row # None
                        /\ StableOk(l, from, from + ObserveWindow) >= StableRows]

\* Executions are joined with the commands file of now by command id; the window
\* opens at the stamp of the command, the trigger of its attempt.
ObservationRow(e, commands, l) ==
    LET c     == {x \in commands : x.id = e.id}
        cmd   == CHOOSE x \in c : TRUE
        known == c # {} /\ cmd.row # None
        from  == cmd.row.job.trigger
    IN  [id |-> e.id,
         accepted |-> e.count > 0 /\ known
                        /\ StableOk(l, from, from + ObserveWindow) >= StableRows]

----------------------------------------------------------------------------
(* The programs.                                                           *)

\* A program replaces an existing output only when told to overwrite it.  The
\* programs with a choice in them (which log, order or registration result) may do
\* so MaxRewrites times; the others write the same again unless an input changed.
Has(names)  == \A n \in names : file[n] # None
Chosen      == {"attempts", "jobs", "scores"}
Replaced(n) == rewrites' = rewrites + (IF n \in Chosen /\ file[n] # None THEN 1 ELSE 0)
Free(n)     == n \in Chosen /\ file[n] # None => rewrites < MaxRewrites

Write(n, content) ==
    /\ Free(n) /\ Replaced(n)
    /\ file' = [file EXCEPT ![n] = content]
    /\ UNCHANGED <<log, runs, published>>

PipelineInit ==
    /\ log \in Logs /\ runs = 1 /\ rewrites = 0
    /\ file = [n \in FileNames |-> None]
    /\ published = {}

\* Another localization run is recorded over the alignment log.
RecordLog ==
    /\ runs < MaxRecordings
    /\ runs' = runs + 1
    /\ log' \in Logs \ {log}
    /\ UNCHANGED <<rewrites, file, published>>

\* make_route_grid / make_map_grid write both files, or fail before the first.
Generate(kind) ==
    /\ Free("attempts") /\ Replaced("attempts")
    /\ file' = [file EXCEPT !.attempts   = AttemptsOf(kind, log),
                            !.candidates = CandidatesOf(kind, log)]
    /\ UNCHANGED <<log, runs, published>>

\* make_disabled records the windows without a generator: it writes no candidates,
\* and those of an earlier program stay.
GenerateDisabled == Write("attempts", AttemptsOf("disabled", log))

RankByOracle ==
    /\ Has({"attempts", "candidates"})
    /\ Write("oracle", OracleRanked(file.attempts, file.candidates))

MakeJobs(from, order) ==
    /\ Has({"attempts", from})
    /\ Write("jobs", JobsOf(file.attempts, file[from], order))

ResolveScans ==
    /\ Has({"jobs"})
    /\ Write("scans", {ScanRow(job) : job \in file.jobs})

\* relocalization_ndt_score_jobs opens its output for writing, whatever is there.
ScoreJobs ==
    /\ Has({"scans"}) /\ Free("scores") /\ Replaced("scores")
    /\ \E outcome \in [file.scans -> Scorings], cap \in ScoreCaps :
        file' = [file EXCEPT !.scores =
            {IF Reached(row, file.scans, outcome, cap) THEN ScoreRow(row, outcome[row]) ELSE row :
                row \in file.scans}]
    /\ UNCHANGED <<log, runs, published>>

SelectPlan ==
    /\ Has({"scores"})
    /\ \E margin \in Margins : Write("plan", PlanOf(file.scores, margin))

MakeCommands ==
    /\ Has({"plan"})
    /\ Write("commands", CommandsOf(file.plan))

ValidateCommands ==
    /\ Has({"commands"})
    /\ Write("commandReport", CommandsValid(file.commands))

\* The poses go out before the report is written: without --overwrite the
\* report of an earlier execution stays, and nothing records this one.
Publish(execute, overwrite) ==
    /\ Has({"commands", "commandReport"})
    /\ LET rows == {ExecutionRow(c, file.commandReport, execute) : c \in file.commands}
           report == file.execution = None \/ overwrite
       IN  /\ published' = published \union {e.of : e \in {x \in rows : x.count > 0}}
           /\ Cardinality(published') <= MaxPublished
           /\ file' = IF report THEN [file EXCEPT !.execution = rows] ELSE file
    /\ UNCHANGED <<log, runs, rewrites>>

Observe ==
    /\ Has({"execution", "commands"})
    /\ Write("observation", {ObservationRow(e, file.commands, log) : e \in file.execution})

PipelineNext ==
    \/ RecordLog
    \/ \E kind \in {"route_grid", "map_grid"} : Generate(kind)
    \/ GenerateDisabled
    \/ RankByOracle
    \/ \E from \in {"candidates", "oracle"}, order \in Orders : MakeJobs(from, order)
    \/ ResolveScans
    \/ ScoreJobs
    \/ SelectPlan
    \/ MakeCommands
    \/ ValidateCommands
    \/ \E execute, overwrite \in BOOLEAN : Publish(execute, overwrite)
    \/ Observe

PipelineSpec == PipelineInit /\ [][PipelineNext]_pipelineVars

----------------------------------------------------------------------------
(* Properties.                                                             *)

\* Type invariant: what each file holds when it exists.
PipelineTypeOK ==
    /\ log \in Logs /\ runs \in 1..MaxRecordings /\ rewrites \in 0..MaxRewrites
    /\ DOMAIN file = FileNames
    /\ file.attempts # None => \A a, b \in file.attempts :
            a.by \in Generators /\ (a.id < b.id <=> a.trigger < b.trigger)
    /\ file.jobs # None => \A j, k \in file.jobs :
            /\ j.order \in Orders /\ (MaxJobs > 0 => j.rank \in 1..MaxJobs)
            /\ j.attempt = k.attempt /\ j.index = k.index => j = k
    /\ file.commandReport \in BOOLEAN \union {None}
    /\ Cardinality(published) <= MaxPublished

\* A pose picked with the reference trajectory never reaches /initialpose,
\* although the selection and the command maker carry such rows through and the
\* validation report read by the publisher may be about another commands file.
OracleNeverPublished == \A c \in published : c.row.job.order # "oracle_rank"

\* Whatever is rerun in between and whichever report the publisher reads, the pose
\* it sends is finite and comes from a registration that passed both thresholds.
PublishedIsEligible ==
    \A c \in published :
        LET result == c.row.result
        IN  /\ result.gate /\ result.converged /\ result.near /\ result.finite
            /\ result.score <= GateScore /\ result.score <= MaxScore

\* A recovery is only ever reported for a command id whose pose was published:
\* a dry run, a rejected command or a failed validation never counts as one.
AcceptedWasPublished ==
    file.observation # None =>
        \A o \in file.observation : o.accepted => \E c \in published : c.id = o.id

\* The selection against its reference and its validator.  A selected row is the
\* best of the eligible ones and no scored row of its attempt, eligible or not, is
\* within the margin; the validator accepts the plan unless a row was ranked with
\* the reference trajectory.
SelectionIsSound ==
    file.scores # None /\ file.scores # {} => \A margin \in Margins :
        LET plan == PlanOf(file.scores, margin)
            rows == {p.row : p \in {q \in plan : q.selected}}
            rivals(row) == {r \in file.scores \ {row} :
                                r.job.attempt = row.job.attempt /\ IsScored(r)}
        IN  /\ \A row \in rows : \A r \in rivals(row) :
                /\ IsEligible(r) => r.result.score >= row.result.score
                /\ margin > 0 => r.result.score >= row.result.score + margin
            /\ (\A row \in rows : row.job.order # "oracle_rank") => PlanValid(plan, file.scores)

\* The caps thin the places, not the headings: a place of the map grid is tried
\* in every heading, and a route attempt keeps the reference pose nearest in time.
CandidatesAreFair ==
    MaxPoses >= GridYaws => \A trigger \in RequestWindows(log) :
        /\ \A p \in PosesFor("map_grid", trigger) : \A yaw \in 0..(GridYaws - 1) :
            \E q \in PosesFor("map_grid", trigger) :
                q.pose.place = p.pose.place /\ q.pose.yaw = yaw
        /\ 0 < MaxRoutePoses /\ MaxRoutePoses * GridYaws <= MaxPoses =>
            \E p \in PosesFor("route_grid", trigger) :
                p.pose.place = Route[NearestStamp(DOMAIN Route, trigger)]

\* From the candidates to /initialpose: fair candidates, a sound selection, and
\* nothing published that is not eligible or that the reference picked.
PublishedIsSound ==
    /\ PipelineTypeOK
    /\ CandidatesAreFair /\ SelectionIsSound /\ PublishedIsEligible /\ OracleNeverPublished
=============================================================================
