----------------------------- MODULE ServerInfo -----------------------------
(***************************************************************************)
(* The server page of the settings: what a DuckDB server says of its           *)
(* extensions, secrets, settings and variables (useServerInfo), and the two    *)
(* ways to change it, loading an extension and setting a value.                *)
(*                                                                           *)
(* A fetch is four requests in a row.  The panels are only shown while no       *)
(* fetch is known to run.  During an action its own control is disabled, but    *)
(* neither the others nor the refresh button, and the first of two actions to    *)
(* end is taken for both.                                                      *)
(***************************************************************************)
EXTENDS Integers, Sequences

CONSTANTS MaxFetches, MaxActions      \* bounds

VARIABLES
  facts,     \* the server's: part -> how often it has changed
  fetches,   \* fetches under way: [id, read: parts read so far -> facts]
  page,      \* [isLoading, error, data, by: the fetch that showed it]
  actions,   \* under way: [id, part, fetch: of the fetch that follows, 0 before]
  busy,      \* actionInProgress: the part that is changed, or "none"
  count      \* [fetches, actions] begun

infoVars == <<facts, fetches, page, actions, busy, count>>

Order == <<"extensions", "secrets", "settings", "variables">>
Optional == {"secrets", "variables"}      \* a failure leaves an empty list
Parts == {Order[k] : k \in 1 .. Len(Order)}
Empty == -1

InfoInit ==
  /\ facts = [p \in Parts |-> 0]
  /\ fetches = {}
  /\ page = [isLoading |-> FALSE, error |-> FALSE, data |-> << >>, by |-> 0]
  /\ actions = {} /\ busy = "none"
  /\ count = [fetches |-> 0, actions |-> 0]

\* fetchServerInfo.
BeginFetch ==
  /\ count.fetches < MaxFetches
  /\ fetches' = fetches \cup {[id |-> count.fetches + 1, read |-> << >>]}
  /\ page' = [page EXCEPT !.isLoading = TRUE, !.error = FALSE]

\* The page opens, or Refresh is pressed (Retry, after an error).
OpenOrRefresh ==
  /\ ~page.isLoading
  /\ BeginFetch
  /\ count' = [count EXCEPT !.fetches = @ + 1]
  /\ UNCHANGED <<facts, actions, busy>>

End(f, new) == fetches' = fetches \ {f} /\ page' = new

\* The next part has been read, as v; after the last all are shown.
Read(f, v) ==
  LET read == Append(f.read, v)
  IN IF Len(read) < Len(Order)
     THEN fetches' = (fetches \ {f}) \cup {[f EXCEPT !.read = read]} /\ page' = page
     ELSE End(f, [isLoading |-> FALSE, error |-> FALSE, by |-> f.id,
                  data |-> [p \in Parts |-> read[CHOOSE k \in 1 .. Len(Order) : Order[k] = p]]])

PartAnswered(f) ==
  /\ LET p == Order[Len(f.read) + 1]
     IN \/ Read(f, facts[p])
        \/ p \in Optional /\ Read(f, Empty)
        \/ p \notin Optional /\ End(f, [page EXCEPT !.isLoading = FALSE, !.error = TRUE])
  /\ UNCHANGED <<facts, actions, busy, count>>

\* performExtensionAction and updateSetting: LOAD or INSTALL, or SET.
StartAction(p) ==
  /\ page.data # << >> /\ ~page.isLoading /\ ~page.error
  /\ busy # p
  /\ count.actions < MaxActions
  /\ busy' = p
  /\ actions' = actions \cup {[id |-> count.actions + 1, part |-> p, fetch |-> 0]}
  /\ count' = [count EXCEPT !.actions = @ + 1]
  /\ UNCHANGED <<facts, fetches, page>>

\* A bug that must be noticed: nothing is fetched again.
ActionAnswered_KeepsOld(a) ==
  /\ a.fetch = 0
  /\ facts' = [facts EXCEPT ![a.part] = @ + 1]
  /\ actions' = actions \ {a} /\ busy' = "none"
  /\ UNCHANGED <<fetches, page, count>>

\* The statement has been run, and all is fetched again.
ActionAnswered(a) ==
  /\ a.fetch = 0
  /\ facts' = [facts EXCEPT ![a.part] = @ + 1]
  /\ actions' = (actions \ {a}) \cup {[a EXCEPT !.fetch = count.fetches + 1]}
  /\ BeginFetch
  /\ count' = [count EXCEPT !.fetches = @ + 1]
  /\ UNCHANGED busy

\* The statement fails, or the fetch that follows an action has ended, somehow.
ActionEnds(a) ==
  /\ a.fetch = 0 \/ \A f \in fetches : f.id # a.fetch
  /\ actions' = actions \ {a}
  /\ busy' = "none"
  /\ UNCHANGED <<facts, fetches, page, count>>

InfoNext ==
  \/ OpenOrRefresh
  \/ \E p \in Parts \ Optional : StartAction(p)
  \/ \E a \in actions : ActionAnswered(a) \/ ActionEnds(a)
  \/ \E f \in fetches : PartAnswered(f)

-----------------------------------------------------------------------------
\* Between actions and fetches the page shows what the server would say, if the
\* last fetch begun was the last to end and no part of it failed.
InfoFollows ==
  /\ actions = {} /\ fetches = {} /\ page.by = count.fetches
  => \A p \in DOMAIN page.data : page.data[p] \in {facts[p], Empty}
==============================================================================
