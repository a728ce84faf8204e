------------------------------ MODULE SourceSync ------------------------------
(***************************************************************************)
(* The list of data sources in several browser windows: persistence.ts and  *)
(* the lines at the end of dataSourceStore/store.ts that load, save and     *)
(* synchronise it.  Every change of the list starts a timer of 500 ms that  *)
(* stores it; a stored value that is new is sent to the other windows, whose *)
(* lists it replaces, which is a change there.                              *)
(***************************************************************************)
EXTENDS Naturals, Sequences, FiniteSets, SequencesExt

CONSTANTS
  Pages,    \* windows
  Paths,
  Left,     \* the lists that may have been stored by earlier sessions
  MaxActs   \* bound: acts of the users

VARIABLES
  lists,     \* page -> dataSources; closed pages have <<>>
  open,      \* the pages that are open
  timers,    \* the pages whose timer (saveTimeout) is running
  boxes,     \* page -> the values of the storage events under way
  kept,      \* localStorage: data-ide-data-sources
  wanted,    \* history: the sources the users have added and not removed
  disturbed, \* history: a list was changed while another page still had to save
             \* or to receive one
  acts       \* counts from 1: times 0 and 1 are those of earlier sessions

syncVars == <<lists, open, timers, boxes, kept, wanted, disturbed, acts>>

\* A source has a path, the time `at` of its upload, which also stands for its id,
\* and its kind: "database", "file" (with a handle), "bare" (a file without one)
\* or "volatile".
Source == [path : STRING, at : Nat, kind : {"database", "file", "bare", "volatile"},
           attached : BOOLEAN, failed : BOOLEAN]
Identity(s) == [path |-> s.path, at |-> s.at]
NoList == <<[path |-> "", at |-> 0, kind |-> "none", attached |-> FALSE, failed |-> FALSE]>>
\* the item of localStorage is not there
Value(item) == IF item = NoList THEN <<>> ELSE item
Lasting(list) == {Identity(s) : s \in {x \in ToSet(list) : x.kind # "volatile"}}

-----------------------------------------------------------------------------
(* What is read. *)

\* What a filter keeps of the list s: the elements at K, in their order.
Filtered(s, K) ==
  LET rank == [k \in K |-> Cardinality({j \in K : j < k}) + 1]
  IN [m \in 1 .. Cardinality(K) |-> s[CHOOSE k \in DOMAIN rank : rank[k] = m]]

Newest(S) == CHOOSE s \in S : \A x \in S : x.at <= s.at

\* cleanupDataSources: the newest of the entries with one path, at the place of
\* the first; no volatile files; files without a handle must be uploaded again.
Cleaned(list) ==
  LET deduped == [i \in DOMAIN list |-> Newest({s \in ToSet(list) : s.path = list[i].path})]
  IN Filtered(deduped, {i \in DOMAIN list : /\ \A j \in 1 .. i - 1 : list[j].path # list[i].path
                                            /\ deduped[i].kind # "volatile"})

\* loadFromStorage
Loaded(list) ==
  LET c == Cleaned(Value(list))
  IN [i \in DOMAIN c |-> [c[i] EXCEPT !.attached = FALSE, !.failed = c[i].kind = "bare"]]

\* handleStorageChange of setupMultiTabSync.
Synced(list) == [i \in DOMAIN Value(list) |-> [list[i] EXCEPT !.attached = FALSE]]

-----------------------------------------------------------------------------
(* Changes and their timers. *)

\* Page w writes the item; the pages that are open hear of a new value.
Written(w, list, rest) ==
  /\ kept' = list
  /\ boxes' = [p \in Pages |-> IF p = w THEN rest
                               ELSE IF p \in open /\ kept # list THEN Append(boxes[p], list) ELSE boxes[p]]

Busy(p) == p \in timers \/ boxes[p] # <<>>

\* A user changes the list of w, which starts the timer.
Changes(w, list) ==
  /\ w \in open /\ acts < MaxActs
  /\ acts' = acts + 1
  /\ disturbed' = (disturbed \/ boxes[w] # <<>> \/ \E p \in open \ {w} : Busy(p))
  /\ lists' = [lists EXCEPT ![w] = list]
  /\ timers' = timers \cup {w}
  /\ UNCHANGED open

Act(w, list) == Changes(w, list) /\ UNCHANGED <<boxes, kept>>

Without(list, path) == Filtered(list, {i \in DOMAIN list : list[i].path # path})

\* addDataSource, which takes the place of a source with the same path.
Add(w) ==
  \E path \in Paths, kind \in {"database", "file", "bare", "volatile"} :
    LET s == [path |-> path, at |-> acts + 1, kind |-> kind, attached |-> kind = "database",
              failed |-> FALSE]
    IN /\ Act(w, Append(Without(lists[w], path), s))
       /\ wanted' = {x \in wanted : x.path # path} \cup (IF kind = "volatile" THEN {} ELSE {Identity(s)})

RemoveSource(w) ==
  \E s \in ToSet(lists[w]) :
    /\ Act(w, Without(lists[w], s.path))
    /\ wanted' = wanted \ {Identity(s)}

\* A database is attached again or detached: updateDataSource.
Attach(w) ==
  \E i \in DOMAIN lists[w] :
    /\ lists[w][i].kind = "database"
    /\ Act(w, [lists[w] EXCEPT ![i].attached = ~@])
    /\ UNCHANGED wanted

\* clearAllDataSources: the item is removed now, and stored when the timer runs out.
ClearAll(w) ==
  /\ Changes(w, <<>>)
  /\ Written(w, NoList, boxes[w])
  /\ wanted' = {}

\* The timer.
Save(w) ==
  /\ w \in timers
  /\ timers' = timers \ {w}
  /\ Written(w, lists[w], boxes[w])
  /\ UNCHANGED <<lists, open, wanted, disturbed, acts>>

\* _handleStorageSync.  The value takes the place of the list, and of a change
\* that has not been saved; the timer starts again.
ReceiveList(w) ==
  /\ w \in open /\ boxes[w] # <<>>
  /\ lists' = [lists EXCEPT ![w] = Synced(Head(boxes[w]))]
  /\ boxes' = [boxes EXCEPT ![w] = Tail(@)]
  /\ timers' = timers \cup {w}
  /\ UNCHANGED <<open, kept, wanted, disturbed, acts>>

\* The initial load starts no timer.
OpenPage(w) ==
  /\ w \notin open /\ acts < MaxActs
  /\ open' = open \cup {w}
  /\ lists' = [lists EXCEPT ![w] = Loaded(kept)]
  /\ acts' = acts + 1
  /\ UNCHANGED <<timers, boxes, kept, wanted, disturbed>>

\* beforeunload stores the list, whether it has changed or not; a page that dies
\* does not.
ClosePage(w) ==
  /\ w \in open /\ acts < MaxActs
  /\ open' = open \ {w}
  /\ lists' = [lists EXCEPT ![w] = <<>>]
  /\ timers' = timers \ {w}
  /\ acts' = acts + 1
  /\ \/ /\ Written(w, lists[w], <<>>)
        /\ disturbed' = (disturbed \/ boxes[w] # <<>> \/ \E p \in open \ {w} : Busy(p))
     \/ /\ boxes' = [boxes EXCEPT ![w] = <<>>]
        /\ disturbed' = (disturbed \/ w \in timers)
        /\ UNCHANGED kept
  /\ UNCHANGED wanted

-----------------------------------------------------------------------------
SyncInit ==
  /\ kept \in Left
  /\ open \in SUBSET Pages
  /\ lists = [p \in Pages |-> IF p \in open THEN Loaded(kept) ELSE <<>>]
  /\ wanted = {Identity(s) : s \in {x \in ToSet(Value(kept)) : /\ x.kind # "volatile"
                                                      /\ \A y \in ToSet(kept) : x.path = y.path => x.at >= y.at}}
  /\ timers = {} /\ boxes = [p \in Pages |-> <<>>]
  /\ disturbed = FALSE /\ acts = 1

SyncNext ==
  \E w \in Pages :
    Add(w) \/ RemoveSource(w) \/ Attach(w) \/ ClearAll(w) \/ Save(w) \/ ReceiveList(w) \/ OpenPage(w) \/ ClosePage(w)

\* Timers run out, and the browser delivers the events.
SyncFairness == \A w \in Pages : WF_syncVars(Save(w)) /\ WF_syncVars(ReceiveList(w))

-----------------------------------------------------------------------------
(* Properties. *)

AtRest == \A p \in open : ~Busy(p)

\* As long as nobody changes a list while another page has still to save or to
\* receive one, all pages at rest have the sources the users have added and not
\* removed, whatever was stored, opened and closed; and so has the storage.
CalmLists ==
  ~disturbed /\ AtRest =>
    \A list \in {Loaded(kept)} \cup {lists[p] : p \in open} : Lasting(list) = wanted

\* No page shows two sources with one path.
OnePath ==
  \A p \in open : \A i, j \in DOMAIN lists[p] : lists[p][i].path = lists[p][j].path => i = j
=============================================================================
