--------------------------- MODULE RecoveryReport ---------------------------
(***************************************************************************)
(* What the repository reports about a replayed recovery. While the replay *)
(* runs, the diagnostic recorder writes one row per alignment status of    *)
(* the localizer and the supervisor node logs the events of its policy and *)
(* its own stable-window verdict; afterwards four scripts grade the files: *)
(* check_koide_recovery_health.py, summarize_localization_health.py,       *)
(* summarize_relocalization_attempts.py and                                *)
(* compare_nav2_reinit_supervisor_runs.py. Each segments the same rows     *)
(* with a loop of its own.                                                 *)
(*                                                                         *)
(* A row keeps its stamp, whether its message is "ok", whether it carries  *)
(* the request, whether it counts as healthy, and its fitness; the stamp   *)
(* is that of the scan, and a sensor stamps its scans in increasing order. *)
(* An ok row may carry the request: the localizer's latch clears only on   *)
(* an ok alignment that is also good enough.                               *)
(***************************************************************************)
EXTENDS Integers, Sequences, FiniteSets

CONSTANTS
  RowKinds,            \* the rows the localizer may produce, each with the
                       \* seconds since the row before it
  StableRowsRequired,  \* --stable-ok-rows
  RecoveryWindow,      \* --recovery-window-sec
  ConfirmSamples,      \* recovery_confirmation_samples of the supervisor
  MaxRecoveryFitness,  \* --max-recovery-fitness
  MatchWindow,         \* --request-match-window-sec
  MaxReplay            \* bound: rows and ticks of one replay

ASSUME ReportAssumption ==
  /\ {StableRowsRequired, RecoveryWindow, ConfirmSamples, MatchWindow} \subseteq Nat
  /\ StableRowsRequired >= 1 /\ ConfirmSamples >= 1
  /\ RowKinds \subseteq [gap : Nat \ {0}, ok : BOOLEAN, accepted : BOOLEAN,
                          requested : BOOLEAN, healthy : BOOLEAN, fitness : Int]
  /\ MaxRecoveryFitness \in Int

VARIABLES
  rows,       \* alignment_status.csv
  pass,       \* what the graders that read it front to back carry so far
  asked,      \* _requested of the supervisor node
  tracked,    \* _stable_tracking: what the latest status said
  window,     \* _awaiting_stable_window, _stable_window_count, _stable_window_logged
  ticks       \* what each tick of the supervisor saw and logged

reportVars == <<rows, pass, asked, tracked, window, ticks>>

Closed0 == [awaiting |-> FALSE, count |-> 0, logged |-> FALSE]

\* The loops that count the transitions (summarize_alignment) and measure the
\* longest loss (_longest_true_window) read the rows once, in order.
PassStart == [count |-> 0, previous |-> FALSE, start |-> -1, now |-> 0, longest |-> 0]

LongestWith(p) ==
  IF p.start >= 0 /\ p.now - p.start > p.longest THEN p.now - p.start ELSE p.longest

Advanced(p, row) ==
  [count |-> p.count + (IF row.requested /\ ~p.previous THEN 1 ELSE 0),
   previous |-> row.requested,
   start |-> IF ~row.requested THEN -1 ELSE IF p.start < 0 THEN row.stamp ELSE p.start,
   now |-> row.stamp,
   longest |-> IF row.requested THEN p.longest ELSE LongestWith(p)]

ReportInit ==
  /\ rows = <<>> /\ ticks = <<>> /\ pass = PassStart
  /\ asked = FALSE /\ tracked = FALSE
  /\ window = Closed0

Room == Len(rows) + Len(ticks) < MaxReplay

RowStamp(kind) == (IF rows = <<>> THEN 0 ELSE rows[Len(rows)].stamp) + kind.gap
Recorded(kind) ==
  [stamp |-> RowStamp(kind), ok |-> kind.ok, accepted |-> kind.accepted,
   requested |-> kind.requested, healthy |-> kind.healthy, fitness |-> kind.fitness]

\* _on_alignment_status, and the recorder's copy of the same message.
Status ==
  \E kind \in RowKinds :
    /\ Room
    /\ rows' = Append(rows, Recorded(kind))
    /\ pass' = Advanced(pass, Recorded(kind))
    /\ tracked' = (kind.ok /\ kind.accepted /\ ~kind.requested)
    /\ UNCHANGED <<asked, window, ticks>>

\* _on_reinit: the request topic is separate from the diagnostics.
RequestHeard ==
  /\ asked' = ~asked
  /\ UNCHANGED <<rows, pass, tracked, window, ticks>>

\* The decisions that end an episode open the wait for a stable window.
EpisodeEnds == {"recovery_confirmed", "cross_check_timeout"}

Opened(reason) ==
  IF reason \in EpisodeEnds THEN [awaiting |-> TRUE, count |-> 0, logged |-> FALSE]
  ELSE window

\* Mutant: a request or a bad status pauses the count and does not reset it.
UpdatedWindowPauses(w) ==
  IF ~w.awaiting \/ w.logged \/ asked \/ ~tracked THEN w
  ELSE IF w.count + 1 >= ConfirmSamples
       THEN [awaiting |-> FALSE, count |-> w.count + 1, logged |-> TRUE]
  ELSE [w EXCEPT !.count = @ + 1]

\* _update_stable_window_tracking: the latest status is counted once per tick.
UpdatedWindow(w) ==
  IF ~w.awaiting \/ w.logged THEN w
  ELSE IF asked \/ ~tracked THEN [w EXCEPT !.count = 0]
  ELSE IF w.count + 1 >= ConfirmSamples
       THEN [awaiting |-> FALSE, count |-> w.count + 1, logged |-> TRUE]
  ELSE [w EXCEPT !.count = @ + 1]

\* _on_timer, as far as the event log goes. The decision is the policy's.
Tick ==
  \E reason \in EpisodeEnds \cup {"none"} :
    LET opened == Opened(reason)
        updated == UpdatedWindow(opened)
    IN /\ Room
       /\ window' = updated
       /\ ticks' = Append(ticks,
                          [quiet |-> ~asked /\ tracked, reason |-> reason,
                           stable |-> updated.logged /\ ~opened.logged])
       /\ UNCHANGED <<rows, pass, asked, tracked>>

ReportNext == Status \/ RequestHeard \/ Tick
ReportSpec == ReportInit /\ [][ReportNext]_reportVars

-----------------------------------------------------------------------------
(* The graders.                                                             *)

StampAt(i) == rows[i].stamp

\* _segment_rows: the maximal stretches of rows that carry the request.
Segments ==
  {s \in [first : 1..Len(rows), last : 1..Len(rows)] :
     /\ s.first <= s.last
     /\ \A i \in s.first..s.last : rows[i].requested
     /\ s.first = 1 \/ ~rows[s.first - 1].requested
     /\ s.last = Len(rows) \/ ~rows[s.last + 1].requested}

Duration(segment) == StampAt(segment.last) - StampAt(segment.first)

NoRow == 0
First(indices) == IF indices = {} THEN NoRow ELSE CHOOSE i \in indices : \A j \in indices : i <= j

\* _stable_ok_rows_after: only the first ok row has to meet the deadline.
FirstOkAfter(segment) ==
  First({i \in segment.last + 1..Len(rows) :
           rows[i].ok /\ StampAt(i) <= StampAt(segment.first) + RecoveryWindow})

StableOkRows(segment) ==
  LET start == FirstOkAfter(segment)
      stop == First({i \in start..Len(rows) : i >= 1 /\ ~rows[i].ok})
  IN IF start = NoRow THEN 0 ELSE (IF stop = NoRow THEN Len(rows) + 1 ELSE stop) - start

\* summarize_request_windows: the windows that count as recovered.
RecoveredWindows == {s \in Segments : StableOkRows(s) >= StableRowsRequired}

\* What the front-to-back loops report at the end of the file.
Transitions == pass.count
LongestLost == LongestWith(pass)

\* request_windows and match_attempts_to_windows: an attempt made at a row
\* belongs to every window it falls in, the match window included.
WindowsOfAttempt(i) ==
  {s \in Segments : StampAt(i) >= StampAt(s.first) /\ StampAt(i) <= StampAt(s.last) + MatchWindow}

\* The comparison of two runs looks for an ok row until the next request.
ComparedFirstOk(segment) ==
  LET stop == First({i \in segment.last + 1..Len(rows) : rows[i].ok \/ rows[i].requested})
  IN IF stop # NoRow /\ rows[stop].ok THEN stop ELSE NoRow

\* and counts the ok rows after the first request.
OkAfterTrigger ==
  LET trigger == First({i \in 1..Len(rows) : rows[i].requested})
  IN {i \in 1..Len(rows) : /\ trigger # NoRow /\ StampAt(i) > StampAt(trigger)
                           /\ rows[i].ok}

\* summarize_recovery_health: the counts, and the fitness of the healthy rows.
Logged(reason) == {k \in 1..Len(ticks) : ticks[k].reason = reason}
StableWindows == {k \in 1..Len(ticks) : ticks[k].stable}
HealthyFitness == {rows[i].fitness : i \in {j \in 1..Len(rows) : rows[j].healthy}}
FalseRecovery ==
  \/ Logged("recovery_confirmed") # {} /\ StableWindows = {}
  \/ HealthyFitness # {} /\ \A fitness \in HealthyFitness : fitness > MaxRecoveryFitness
HealthOk == Logged("recovery_confirmed") # {} /\ StableWindows # {} /\ ~FalseRecovery

-----------------------------------------------------------------------------
(* Properties                                                               *)

\* Every stable window the log claims, and with it every green health
\* report, rests on an episode the supervisor had ended since the window
\* claimed before, and on ConfirmSamples ticks in a row, none of them before
\* that end, that saw good tracking and no request: a request that came back
\* in between starts the count again. The two files of a green report agree:
\* the recorder has a tracked row for what the supervisor counted.
StableWindowHeld ==
  /\ \A k \in StableWindows :
       \E end \in 1..k :
         /\ ticks[end].reason \in EpisodeEnds
         /\ k - end + 1 >= ConfirmSamples
         /\ \A j \in k - ConfirmSamples + 1..k : ticks[j].quiet
         /\ \A other \in StableWindows \ {k} : ~(other >= end /\ other < k)
  /\ HealthOk =>
       \E i \in 1..Len(rows) : rows[i].ok /\ rows[i].accepted /\ ~rows[i].requested

\* The loops that segment the same rows agree: the transitions are as many as
\* the windows, the longest loss is the longest window, a window that the run
\* comparison calls answered was answered by the same row for the summary
\* unless its deadline had passed, the rows that make a window recovered are
\* among the ok rows the comparison ranks the runs by, every requested row is
\* in a window an attempt made there is matched to, and no more windows recover
\* than opened.
GradersAgree ==
  /\ Transitions = Cardinality(Segments)
  /\ \A s \in Segments : Duration(s) <= LongestLost
  /\ Segments # {} => \E s \in Segments : Duration(s) = LongestLost
  /\ \A s \in Segments :
       ComparedFirstOk(s) # NoRow => FirstOkAfter(s) \in {ComparedFirstOk(s), NoRow}
  /\ \A s \in RecoveredWindows : StableOkRows(s) <= Cardinality(OkAfterTrigger)
  /\ \A i \in 1..Len(rows) : rows[i].requested => WindowsOfAttempt(i) # {}
  /\ Cardinality(RecoveredWindows) <= Transitions

\* The evidence of a recovery and its grading, together.
ReportsHold == StableWindowHeld /\ GradersAgree
=============================================================================
