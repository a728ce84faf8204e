---------------------------- MODULE MCResultTable ----------------------------
(***************************************************************************)
(* The table, its cells and the export, each by itself: part says which moves.  *)
(*                                                                           *)
(* The configuration has a statement with fewer rows than the threshold, one    *)
(* with a LIMIT of its own that fills a page, and one whose result is there; a  *)
(* page of two rows and two columns and one with one row and three columns; and *)
(* exports of two batches.                                                     *)
(***************************************************************************)
EXTENDS ResultTable

CONSTANTS Pages, PageRows,   \* of the cells
          Batches            \* of the export

ASSUME PagesAssumption ==
  /\ Pages \subseteq (Nat \ {0}) \X (Nat \ {0}) /\ Pages # {}
  /\ PageRows \in Nat /\ Batches \in Nat

VARIABLES part, page, g, dragging, modal, focus, turned,
          ex, aborted, overlay, complete, engine, chosen, meddled, temp, file

G == INSTANCE ResultGrid
E == INSTANCE Export

gridVars == <<page, g, dragging, modal, focus, turned>>
exportVars == <<ex, aborted, overlay, complete, engine, chosen, meddled, temp, file>>

MCStatements == {"few", "limit", "result"}
MCValues == [few |-> <<2, 0, 1>>, limit |-> <<1, 2>>, result |-> <<3, 1, 2>>]
MCStreamed == {"few", "limit"}
MCLimited == {"limit"}
MCEstimate == [s \in MCStatements |-> 6]
MCPages == {<<2, 2>>, <<1, 3>>}

MCInit ==
  /\ part \in {"data", "grid", "export"}
  /\ Init /\ G!GridInit /\ E!ExportInit
  /\ part = "grid" \/ page = <<2, 2>>
  /\ part = "export" \/ engine = "duckdb"

MCNext ==
  /\ part' = part
  /\ \/ part = "data" /\ Next /\ UNCHANGED <<gridVars, exportVars>>
     \/ part = "grid" /\ G!GridNext /\ UNCHANGED <<vars, exportVars>>
     \/ part = "export" /\ E!ExportNext /\ UNCHANGED <<vars, gridVars>>

\* The engines answer every query.
MCSpec ==
  /\ MCInit /\ [][MCNext]_<<part, vars, gridVars, exportVars>>
  /\ \A r \in 1 .. MaxRuns : WF_vars(RunAnswer(r))
  /\ \A i \in 1 .. MaxLoads : WF_vars(LoadAnswer(i))

\* As long as the page stays, no key and no click takes the selection off it; and what is
\* copied are the cells that are painted.
SelectionOnPage == G!SelectionOnPage /\ (part = "grid" => G!CopiedAsPainted)

\* However an export ends, the engine and the progress are as before it.
ExportLeavesNoTrace == E!ExportLeavesNoTrace
==============================================================================
