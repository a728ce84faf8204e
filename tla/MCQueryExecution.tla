--------------------------- MODULE MCQueryExecution ---------------------------
(***************************************************************************)
(* Two runs of any statements, on two engines, in two tabs: two warnings, two  *)
(* whole results, pages and a command can overlap in every way.  Beside it,    *)
(* what a run does before: all texts of up to MaxText tokens, with the cursor  *)
(* everywhere, what is suggested in them, what the stores of files and records *)
(* compute, and all statements with up to two signals of an engine.  part says *)
(* which of them is looked at.                                                 *)
(***************************************************************************)
EXTENDS QueryExecution, Integers, Sequences

CONSTANTS r1, r2, t1, t2, duckdb, bigquery,
          MaxText, \* bound: tokens of a text
          MaxClock, MaxTurns, \* bounds of the service: half minutes, changes from outside,
          TTL, HashSize, MaxFailed \* how long a count is kept, a hash, failures in a row

ASSUME ServiceAssumption == TTL \in Nat \ {0} /\ MaxFailed \in Nat \ {0}

VARIABLES part, text, signals,
          mode, linked, activeConnector, database, clock, turns, countCache, asked, told, checking, late,
          paused, status, through

TwoRuns == {r1, r2}
TwoTabs == {t1, t2}
BothEngines == {duckdb, bigquery}

Q == INSTANCE StatementText
S == INSTANCE StorageTools
K == INSTANCE Completion
V == INSTANCE QueryService

beside == <<part, text, signals>>
queryServiceVars == <<mode, linked, activeConnector, database, clock, turns, countCache, asked, told,
                      checking, late, paused, status, through>>

MCInit ==
  /\ part \in {"runs", "text", "engine", "service"}
  /\ Init
  /\ part = "runs" \/ (ready = Engines /\ active = t1)
  /\ IF part = "text" THEN \E n \in 0 .. MaxText : text \in [1 .. n -> Q!Tokens] ELSE text = <<>>
  /\ IF part = "engine" THEN signals \in {{a, b} : a, b \in Q!Signals} ELSE signals = {}
  /\ V!ServiceInit
  /\ part = "service" \/ mode = "wasm"

MCNext ==
  /\ UNCHANGED beside
  /\ \/ part = "runs" /\ Next /\ UNCHANGED queryServiceVars
     \/ part = "service" /\ V!ServiceNext /\ UNCHANGED vars

MCSpec == MCInit /\ [][MCNext]_<<beside, vars, queryServiceVars>>
MCFairSpec == MCSpec /\ Fairness

\* Runs keep hold of what they share: the overlay goes with one of them, the controller in the
\* ref is never an aborted one, and who is not disturbed has his own engine and controller.
\* And the service says of an engine's health and of a statement's rows what is so.
ControlIsKept ==
  /\ RunsAreTracked /\ OwnController
  /\ V!HealthIsHonest /\ V!CountIsRecent

\* The statement that is run and its engine are those the user means, and so are what the
\* editor suggests while the statement is written and what is taken for changed once it was
\* executed.  No byte or table is lost on the way into a file, out of it or into the totals,
\* and the service hands on what the engines answer whole.
RunsAsMeant ==
  /\ part = "text" => Q!RunsWhatIsMeant(text)
  /\ part = "text" /\ text = <<>> => K!SuggestsWhatIsMeant /\ Q!ChangesAreNoticed
  /\ part = "text" /\ text = <<>> =>
       S!FilesAreWhole /\ S!PathsLeadToFiles /\ S!TotalsAddUp /\ S!CleanupsAreCareful
         /\ S!SizesAreShown
  /\ part = "service" /\ linked = {} =>
       V!HashTellsApart /\ V!StreamIsWhole /\ V!ReadsAgree /\ V!TopIsEstimated
         /\ V!ColumnsAreOwn /\ V!CallsAreAnswered /\ V!AdviceGrows
  /\ part = "engine" => Q!FairlyDetected(signals) /\ Q!SentToItsEngine(signals)
=============================================================================
