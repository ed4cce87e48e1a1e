--------------------------- MODULE BoundedRecovery ---------------------------
(***************************************************************************)
(* What the reinitialization loop promises its operator, without saying    *)
(* how: a recovery episode pays for its resets out of a budget.  An        *)
(* attempt is paid for once and buys at most WalkPerAttempt resets; the    *)
(* budget is refilled only when the loop comes to rest; giving up happens  *)
(* with the whole budget spent and not before; and an episode in which an  *)
(* alias was exposed cannot be dropped just because the request line fell. *)
(***************************************************************************)
EXTENDS Integers

CONSTANTS Budget, WalkPerAttempt

VARIABLES
  mode,    \* watching, recovering, confirmed or gave_up
  spent,   \* attempts paid in this episode
  resets,  \* candidates published in this episode
  held     \* an alias was exposed: the episode must be settled

recoveryVars == <<mode, spent, resets, held>>

Init == mode = "watching" /\ spent = 0 /\ resets = 0 /\ held = FALSE

Engage ==
  /\ mode = "watching" /\ mode' = "recovering"
  /\ UNCHANGED <<spent, resets, held>>

\* Pay for an attempt, which may publish its first candidate at once and may
\* be the answer to an exposed alias.
Attempt ==
  /\ mode = "recovering" /\ spent < Budget
  /\ spent' = spent + 1
  /\ resets' \in {resets, resets + 1}
  /\ held' \in {held, TRUE}
  /\ UNCHANGED mode

\* Publish a further candidate of an attempt already paid for.
Walk ==
  /\ mode = "recovering" /\ resets < spent * WalkPerAttempt
  /\ resets' = resets + 1
  /\ UNCHANGED <<mode, spent, held>>

Expose ==
  /\ mode = "recovering" /\ held' = TRUE
  /\ UNCHANGED <<mode, spent, resets>>

Confirm ==
  /\ mode = "recovering" /\ mode' = "confirmed"
  /\ spent' = 0 /\ resets' = 0 /\ held' = FALSE

GiveUpSpent ==
  /\ mode = "recovering" /\ spent >= Budget /\ mode' = "gave_up"
  /\ resets' = 0 /\ held' = FALSE /\ UNCHANGED spent

Drop ==
  /\ mode = "recovering" /\ ~held /\ mode' = "watching"
  /\ spent' = 0 /\ resets' = 0 /\ UNCHANGED held

Rearm ==
  /\ mode \in {"confirmed", "gave_up"} /\ mode' = "watching"
  /\ spent' = 0 /\ UNCHANGED <<resets, held>>

Next ==
  \/ Engage \/ Attempt \/ Walk \/ Expose
  \/ Confirm \/ GiveUpSpent \/ Drop \/ Rearm

Spec == Init /\ [][Next]_recoveryVars

=============================================================================
