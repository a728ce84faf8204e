------------------------ MODULE QueryExecution_proofs ------------------------
(* What the shared controller guarantees to a run, for any number of runs,   *)
(* tabs and engines; and what the service beside them says of health and      *)
(* counts.                                                                   *)
EXTENDS MCQueryExecution, TLAPS

\* What has not started has left no trace.
NewIsFresh ==
  \A r \in Runs : at[r] = "new" =>
    /\ sent[r] = None
    /\ r \notin aborted
    /\ r \notin stopped
    /\ ref # r

\* What is under way was started in a tab.
UnderWayHasTab ==
  \A r \in Runs : at[r] \in Awaits => tab[r] \in Tabs

\* The dialog is that of a run that waits for it.
DialogWaits ==
  dialog # None => at[dialog] = "dialog"

\* An undisturbed run that is under way is alone, the service is on its engine,
\* and the controller in the ref is its own until it is stopped.
UndisturbedAlone ==
  \A r \in undisturbed : at[r] \in Awaits =>
    /\ \A q \in Runs : at[q] \in Awaits => q = r
    /\ service = engine[r]
    /\ ref = IF r \in stopped THEN None ELSE r

IInv ==
  /\ TypeOK
  /\ RefIsLive
  /\ NewIsFresh
  /\ UnderWayHasTab
  /\ DialogWaits
  /\ UndisturbedAlone
  /\ UndisturbedRuns

USE DEF None, Awaits

LEMMA Initially == Init => IInv
<1> SUFFICES ASSUME Init PROVE IInv
  OBVIOUS
<1>1. TypeOK
  BY DEF Init, TypeOK, Outcomes
<1>2. RefIsLive /\ DialogWaits /\ NewIsFresh /\ UnderWayHasTab
  BY ExecutionAssumption DEF Init, RefIsLive, DialogWaits, NewIsFresh, UnderWayHasTab
<1>3. UndisturbedAlone /\ UndisturbedRuns
  BY DEF Init, UndisturbedAlone, UndisturbedRuns
<1> QED
  BY <1>1, <1>2, <1>3 DEF IInv

LEMMA Stutters ==
  ASSUME IInv, UNCHANGED vars
  PROVE  IInv'
BY DEF IInv, TypeOK, RefIsLive, NewIsFresh, UnderWayHasTab, DialogWaits, UndisturbedAlone,
       UndisturbedRuns, UnderWay, vars, runs, engines, tables, user, statement

\* What the steps of a run after its start do with the state.
AnswerShape(r) ==
  /\ \E a \in Awaits \cup {"over"} : at' = [at EXCEPT ![r] = a]
  /\ sent' = sent \/ sent' = [sent EXCEPT ![r] = service]
  /\ signal' = signal \/ signal' = [signal EXCEPT ![r] = ref]
  /\ outcome' = outcome \/ \E o \in Outcomes : outcome' = [outcome EXCEPT ![r] = o]
  /\ ref' \in {ref, None}
  /\ dialog' \in {dialog, r, None}
  /\ loading' \in {loading, loading \ {tab[r]}, loading \cup {tab[r]}}
  /\ executing' \in {executing, FALSE}
  /\ paged' = paged \/ \E q \in {r, None} : paged' = [paged EXCEPT ![tab[r]] = q]
  /\ fetch' \in {fetch, r}
  /\ UNCHANGED <<statement, aborted, engines, user>>

LEMMA AnswerTypes ==
  ASSUME TypeOK, NEW r \in Runs, tab[r] \in Tabs, AnswerShape(r)
  PROVE  TypeOK'
<1>1. at' \in [Runs -> Awaits \cup {"new", "over"}]
  BY DEF TypeOK, AnswerShape
<1>2. sent' \in [Runs -> Engines \cup {None}] /\ signal' \in [Runs -> Runs \cup {None}]
  BY DEF TypeOK, AnswerShape
<1>3. outcome' \in [Runs -> Outcomes]
  <2> HIDE DEF None
  <2> QED
    BY DEF TypeOK, AnswerShape
<1>4. ref' \in Runs \cup {None} /\ dialog' \in Runs \cup {None}
  BY DEF TypeOK, AnswerShape
<1>5. loading' \subseteq Tabs /\ executing' \in BOOLEAN
  BY DEF TypeOK, AnswerShape
<1>7. paged' \in [Tabs -> Runs \cup {None}] /\ fetch' \in Runs \cup {None}
  BY DEF TypeOK, AnswerShape
<1>6. UNCHANGED <<engine, kind, tab, aborted, service, ready, active, stopped,
                  undisturbed>>
  BY DEF AnswerShape, statement, engines, user
<1> QED
  BY <1>1, <1>2, <1>3, <1>4, <1>5, <1>6, <1>7 DEF TypeOK

LEMMA RunKeeps ==
  ASSUME IInv, NEW r \in Runs, NEW e \in Engines, NEW k \in {"select", "command"}, Run(r, e, k)
  PROVE  IInv'
<1> USE ExecutionAssumption
    DEF IInv, Run, NoPages, Await, Disturb, UnderWay,
        runs, statement, engines, tables, user
<1>1. TypeOK'
  BY DEF TypeOK, UnderWayHasTab, DialogWaits, Outcomes
<1>2. RefIsLive' /\ DialogWaits'
  BY DEF RefIsLive, NewIsFresh, DialogWaits, TypeOK
<1>3. NewIsFresh' /\ UnderWayHasTab'
  BY DEF NewIsFresh, UnderWayHasTab, DialogWaits, TypeOK
<1>4. UndisturbedAlone'
  BY DEF UndisturbedAlone, NewIsFresh, DialogWaits, TypeOK
<1>5. UndisturbedRuns'
  BY DEF UndisturbedRuns, UndisturbedAlone, NewIsFresh, DialogWaits, TypeOK
<1> QED
  BY <1>1, <1>2, <1>3, <1>4, <1>5

LEMMA RunThrowsKeeps ==
  ASSUME IInv, NEW r \in Runs, RunThrows(r)
  PROVE  IInv'
<1> USE ExecutionAssumption
    DEF IInv, RunThrows, Await, Disturb, UnderWay,
        runs, statement, engines, tables, user
<1>1. TypeOK'
  BY DEF TypeOK, UnderWayHasTab, DialogWaits, Outcomes
<1>2. RefIsLive' /\ DialogWaits'
  BY DEF RefIsLive, NewIsFresh, DialogWaits, TypeOK
<1>3. NewIsFresh' /\ UnderWayHasTab'
  BY DEF NewIsFresh, UnderWayHasTab, DialogWaits, TypeOK
<1>4. UndisturbedAlone'
  BY DEF UndisturbedAlone, NewIsFresh, DialogWaits, TypeOK
<1>5. UndisturbedRuns'
  BY DEF UndisturbedRuns, UndisturbedAlone, NewIsFresh, DialogWaits, TypeOK
<1> QED
  BY <1>1, <1>2, <1>3, <1>4, <1>5

LEMMA SwitchConnectorKeeps ==
  ASSUME IInv, NEW e \in Engines, SwitchConnector(e)
  PROVE  IInv'
<1> USE ExecutionAssumption
    DEF IInv, SwitchConnector, Fetch, Await, Disturb, UnderWay,
        runs, statement, engines, tables, user
<1>1. TypeOK'
  BY DEF TypeOK, UnderWayHasTab, DialogWaits, Outcomes
<1>2. RefIsLive' /\ DialogWaits'
  BY DEF RefIsLive, NewIsFresh, DialogWaits, TypeOK
<1>3. NewIsFresh' /\ UnderWayHasTab'
  BY DEF NewIsFresh, UnderWayHasTab, DialogWaits, TypeOK
<1>4. UndisturbedAlone'
  BY DEF UndisturbedAlone, NewIsFresh, DialogWaits, TypeOK
<1>5. UndisturbedRuns'
  BY DEF UndisturbedRuns, UndisturbedAlone, NewIsFresh, DialogWaits, TypeOK
<1> QED
  BY <1>1, <1>2, <1>3, <1>4, <1>5

LEMMA StopKeeps ==
  ASSUME IInv, Stop
  PROVE  IInv'
<1> USE ExecutionAssumption
    DEF IInv, Stop, Await, UnderWay,
        runs, statement, engines, tables, user
<1>1. TypeOK'
  BY DEF TypeOK, UnderWayHasTab, DialogWaits, Outcomes
<1>2. RefIsLive' /\ DialogWaits'
  BY DEF RefIsLive, NewIsFresh, DialogWaits, TypeOK
<1>3. NewIsFresh' /\ UnderWayHasTab'
  BY DEF NewIsFresh, UnderWayHasTab, DialogWaits, TypeOK
<1>4. UndisturbedAlone'
  BY DEF UndisturbedAlone, NewIsFresh, DialogWaits, TypeOK
<1>5. UndisturbedRuns'
  BY DEF UndisturbedRuns, UndisturbedAlone, NewIsFresh, DialogWaits, TypeOK
<1> QED
  BY <1>1, <1>2, <1>3, <1>4, <1>5

LEMMA SwitchTabKeeps ==
  ASSUME IInv, NEW t \in Tabs, SwitchTab(t)
  PROVE  IInv'
<1> USE ExecutionAssumption
    DEF IInv, SwitchTab, Fetch, Await,
        runs, statement, engines, tables, user
<1>1. TypeOK'
  BY DEF TypeOK, UnderWayHasTab, DialogWaits, Outcomes
<1>2. RefIsLive' /\ DialogWaits'
  BY DEF RefIsLive, NewIsFresh, DialogWaits, TypeOK
<1>3. NewIsFresh' /\ UnderWayHasTab'
  BY DEF NewIsFresh, UnderWayHasTab, DialogWaits, TypeOK
<1>4. UndisturbedAlone'
  BY DEF UndisturbedAlone, NewIsFresh, DialogWaits, TypeOK
<1>5. UndisturbedRuns'
  BY DEF UndisturbedRuns, UndisturbedAlone, NewIsFresh, DialogWaits, TypeOK
<1> QED
  BY <1>1, <1>2, <1>3, <1>4, <1>5

LEMMA DeclineKeeps ==
  ASSUME IInv, Decline
  PROVE  IInv'
<1> USE ExecutionAssumption
    DEF IInv, Decline, Await, Show, Settle, Over, NoPages,
        runs, statement, engines, tables, user
<1>1. TypeOK'
  <2>1. dialog \in Runs /\ tab[dialog] \in Tabs
    BY DEF TypeOK, DialogWaits, UnderWayHasTab
  <2>2. AnswerShape(dialog)
    BY DEF AnswerShape, Outcomes
  <2> QED
    BY <2>1, <2>2, AnswerTypes
<1>2. RefIsLive' /\ DialogWaits'
  BY DEF RefIsLive, NewIsFresh, DialogWaits, TypeOK
<1>3. NewIsFresh' /\ UnderWayHasTab'
  BY DEF NewIsFresh, UnderWayHasTab, DialogWaits, TypeOK
<1>4. UndisturbedAlone'
  BY DEF UndisturbedAlone, NewIsFresh, DialogWaits, TypeOK
<1>5. UndisturbedRuns'
  BY DEF UndisturbedRuns, UndisturbedAlone, NewIsFresh, DialogWaits, TypeOK
<1> QED
  BY <1>1, <1>2, <1>3, <1>4, <1>5

LEMMA ConfirmKeeps ==
  ASSUME IInv, Confirm
  PROVE  IInv'
<1> USE ExecutionAssumption
    DEF IInv, Confirm, Await, Accepted, Execute, Fail, Show, Settle, Over, NoPages,
        runs, statement, engines, tables, user
<1>1. TypeOK'
  <2>1. dialog \in Runs /\ tab[dialog] \in Tabs
    BY DEF TypeOK, DialogWaits, UnderWayHasTab
  <2>2. AnswerShape(dialog)
    BY DEF AnswerShape, Outcomes
  <2> QED
    BY <2>1, <2>2, AnswerTypes
<1>2. RefIsLive' /\ DialogWaits'
  BY DEF RefIsLive, NewIsFresh, DialogWaits, TypeOK
<1>3. NewIsFresh' /\ UnderWayHasTab'
  BY DEF NewIsFresh, UnderWayHasTab, DialogWaits, TypeOK
<1>4. UndisturbedAlone'
  BY DEF UndisturbedAlone, NewIsFresh, DialogWaits, TypeOK
<1>5. UndisturbedRuns'
  BY DEF UndisturbedRuns, UndisturbedAlone, NewIsFresh, DialogWaits, TypeOK
<1> QED
  BY <1>1, <1>2, <1>3, <1>4, <1>5

LEMMA CheapKeeps ==
  ASSUME IInv, NEW r \in Runs, Cheap(r)
  PROVE  IInv'
<1> USE ExecutionAssumption
    DEF IInv, Cheap, Await, Accepted, Execute, Fail, Show, Settle, Over, NoPages,
        runs, statement, engines, tables, user
<1>1. TypeOK'
  <2>1. tab[r] \in Tabs
    BY DEF UnderWayHasTab
  <2>2. AnswerShape(r)
    BY DEF AnswerShape, Outcomes
  <2> QED
    BY <2>1, <2>2, AnswerTypes
<1>2. RefIsLive' /\ DialogWaits'
  BY DEF RefIsLive, NewIsFresh, DialogWaits, TypeOK
<1>3. NewIsFresh' /\ UnderWayHasTab'
  BY DEF NewIsFresh, UnderWayHasTab, DialogWaits, TypeOK
<1>4. UndisturbedAlone'
  BY DEF UndisturbedAlone, NewIsFresh, DialogWaits, TypeOK
<1>5. UndisturbedRuns'
  BY DEF UndisturbedRuns, UndisturbedAlone, NewIsFresh, DialogWaits, TypeOK
<1> QED
  BY <1>1, <1>2, <1>3, <1>4, <1>5

LEMMA WarnKeeps ==
  ASSUME IInv, NEW r \in Runs, Warn(r)
  PROVE  IInv'
<1> USE ExecutionAssumption
    DEF IInv, Warn, Await,
        runs, statement, engines, tables, user
<1>1. TypeOK'
  <2>1. tab[r] \in Tabs
    BY DEF UnderWayHasTab
  <2>2. AnswerShape(r)
    BY DEF AnswerShape, Outcomes
  <2> QED
    BY <2>1, <2>2, AnswerTypes
<1>2. RefIsLive' /\ DialogWaits'
  BY DEF RefIsLive, NewIsFresh, DialogWaits, TypeOK
<1>3. NewIsFresh' /\ UnderWayHasTab'
  BY DEF NewIsFresh, UnderWayHasTab, DialogWaits, TypeOK
<1>4. UndisturbedAlone'
  BY DEF UndisturbedAlone, NewIsFresh, DialogWaits, TypeOK
<1>5. UndisturbedRuns'
  BY DEF UndisturbedRuns, UndisturbedAlone, NewIsFresh, DialogWaits, TypeOK
<1> QED
  BY <1>1, <1>2, <1>3, <1>4, <1>5

LEMMA CountLargeKeeps ==
  ASSUME IInv, NEW r \in Runs, CountLarge(r)
  PROVE  IInv'
<1> USE ExecutionAssumption
    DEF IInv, CountLarge, Await, ShowCancelled, Show, Over,
        runs, statement, engines, tables, user
<1>1. TypeOK'
  <2>1. tab[r] \in Tabs
    BY DEF UnderWayHasTab
  <2>2. AnswerShape(r)
    BY DEF AnswerShape, Outcomes
  <2> QED
    BY <2>1, <2>2, AnswerTypes
<1>2. RefIsLive' /\ DialogWaits'
  BY DEF RefIsLive, NewIsFresh, DialogWaits, TypeOK
<1>3. NewIsFresh' /\ UnderWayHasTab'
  BY DEF NewIsFresh, UnderWayHasTab, DialogWaits, TypeOK
<1>4. UndisturbedAlone'
  BY DEF UndisturbedAlone, NewIsFresh, DialogWaits, TypeOK
<1>5. UndisturbedRuns'
  BY DEF UndisturbedRuns, UndisturbedAlone, NewIsFresh, DialogWaits, TypeOK
<1> QED
  BY <1>1, <1>2, <1>3, <1>4, <1>5

LEMMA CountSmallKeeps ==
  ASSUME IInv, NEW r \in Runs, CountSmall(r)
  PROVE  IInv'
<1> USE ExecutionAssumption
    DEF IInv, CountSmall, Await, ShowCancelled, Fail, Execute, Show, Settle, Over, NoPages,
        runs, statement, engines, tables, user
<1>1. TypeOK'
  <2>1. tab[r] \in Tabs
    BY DEF UnderWayHasTab
  <2>2. AnswerShape(r)
    BY DEF AnswerShape, Outcomes
  <2> QED
    BY <2>1, <2>2, AnswerTypes
<1>2. RefIsLive' /\ DialogWaits'
  BY DEF RefIsLive, NewIsFresh, DialogWaits, TypeOK
<1>3. NewIsFresh' /\ UnderWayHasTab'
  BY DEF NewIsFresh, UnderWayHasTab, DialogWaits, TypeOK
<1>4. UndisturbedAlone'
  BY DEF UndisturbedAlone, NewIsFresh, DialogWaits, TypeOK
<1>5. UndisturbedRuns'
  BY DEF UndisturbedRuns, UndisturbedAlone, NewIsFresh, DialogWaits, TypeOK
<1> QED
  BY <1>1, <1>2, <1>3, <1>4, <1>5

LEMMA PagesReadyKeeps ==
  ASSUME IInv, NEW r \in Runs, PagesReady(r)
  PROVE  IInv'
<1> USE ExecutionAssumption
    DEF IInv, PagesReady, Await,
        runs, statement, engines, tables, user
<1>1. TypeOK'
  <2>1. tab[r] \in Tabs
    BY DEF UnderWayHasTab
  <2>2. AnswerShape(r)
    BY DEF AnswerShape, Outcomes
  <2> QED
    BY <2>1, <2>2, AnswerTypes
<1>2. RefIsLive' /\ DialogWaits'
  BY DEF RefIsLive, NewIsFresh, DialogWaits, TypeOK
<1>3. NewIsFresh' /\ UnderWayHasTab'
  BY DEF NewIsFresh, UnderWayHasTab, DialogWaits, TypeOK
<1>4. UndisturbedAlone'
  BY DEF UndisturbedAlone, NewIsFresh, DialogWaits, TypeOK
<1>5. UndisturbedRuns'
  BY DEF UndisturbedRuns, UndisturbedAlone, NewIsFresh, DialogWaits, TypeOK
<1> QED
  BY <1>1, <1>2, <1>3, <1>4, <1>5

\* What the table does changes nothing that runs share but the overlay.
LEMMA TableKeeps ==
  ASSUME IInv, ChangePageSize \/ FirstPage \/ PageFails
  PROVE  IInv'
<1> USE ExecutionAssumption
    DEF IInv, ChangePageSize, FirstPage, PageFails, Fetch, Await,
        runs, statement, engines, tables, user
<1>1. TypeOK'
  <2>1. fetch' \in Runs \cup {None} /\ loading' \subseteq Tabs /\ executing' \in BOOLEAN
    BY DEF TypeOK
  <2>2. UNCHANGED <<at, engine, kind, tab, sent, signal, outcome, ref, aborted, dialog, service,
                    ready, paged, active, stopped, undisturbed>>
    OBVIOUS
  <2> QED
    BY <2>1, <2>2 DEF TypeOK
<1>2. RefIsLive' /\ DialogWaits'
  BY DEF RefIsLive, NewIsFresh, DialogWaits, TypeOK
<1>3. NewIsFresh' /\ UnderWayHasTab'
  BY DEF NewIsFresh, UnderWayHasTab, DialogWaits, TypeOK
<1>4. UndisturbedAlone'
  BY DEF UndisturbedAlone, NewIsFresh, DialogWaits, TypeOK
<1>5. UndisturbedRuns'
  BY DEF UndisturbedRuns, UndisturbedAlone, NewIsFresh, DialogWaits, TypeOK
<1> QED
  BY <1>1, <1>2, <1>3, <1>4, <1>5

LEMMA AbortedKeeps ==
  ASSUME IInv, NEW r \in Runs, Aborted(r)
  PROVE  IInv'
<1> USE ExecutionAssumption
    DEF IInv, Aborted, Await, ShowCancelled, Show, Over, NoPages,
        runs, statement, engines, tables, user
<1>1. TypeOK'
  <2>1. tab[r] \in Tabs
    BY DEF UnderWayHasTab
  <2>2. AnswerShape(r)
    BY DEF AnswerShape, Outcomes
  <2> QED
    BY <2>1, <2>2, AnswerTypes
<1>2. RefIsLive' /\ DialogWaits'
  BY DEF RefIsLive, NewIsFresh, DialogWaits, TypeOK
<1>3. NewIsFresh' /\ UnderWayHasTab'
  BY DEF NewIsFresh, UnderWayHasTab, DialogWaits, TypeOK
<1>4. UndisturbedAlone'
  BY DEF UndisturbedAlone, NewIsFresh, DialogWaits, TypeOK
<1>5. UndisturbedRuns'
  BY DEF UndisturbedRuns, UndisturbedAlone, NewIsFresh, DialogWaits, TypeOK
<1> QED
  BY <1>1, <1>2, <1>3, <1>4, <1>5

LEMMA AnsweredKeeps ==
  ASSUME IInv, NEW r \in Runs, Answered(r)
  PROVE  IInv'
<1> USE ExecutionAssumption
    DEF IInv, Answered, Await, ShowCancelled, Fail, Show, Settle, Over, NoPages,
        runs, statement, engines, tables, user
<1>1. TypeOK'
  <2>1. tab[r] \in Tabs
    BY DEF UnderWayHasTab
  <2>2. AnswerShape(r)
    BY DEF AnswerShape, Outcomes
  <2> QED
    BY <2>1, <2>2, AnswerTypes
<1>2. RefIsLive' /\ DialogWaits'
  BY DEF RefIsLive, NewIsFresh, DialogWaits, TypeOK
<1>3. NewIsFresh' /\ UnderWayHasTab'
  BY DEF NewIsFresh, UnderWayHasTab, DialogWaits, TypeOK
<1>4. UndisturbedAlone'
  BY DEF UndisturbedAlone, NewIsFresh, DialogWaits, TypeOK
<1>5. UndisturbedRuns'
  BY DEF UndisturbedRuns, UndisturbedAlone, NewIsFresh, DialogWaits, TypeOK
<1> QED
  BY <1>1, <1>2, <1>3, <1>4, <1>5

LEMMA EngineFailsKeeps ==
  ASSUME IInv, NEW r \in Runs, EngineFails(r)
  PROVE  IInv'
<1> USE ExecutionAssumption
    DEF IInv, EngineFails, Await, Fail, Show, Settle, Over, NoPages,
        runs, statement, engines, tables, user
<1>1. TypeOK'
  <2>1. tab[r] \in Tabs
    BY DEF UnderWayHasTab
  <2>2. AnswerShape(r)
    BY DEF AnswerShape, Outcomes
  <2> QED
    BY <2>1, <2>2, AnswerTypes
<1>2. RefIsLive' /\ DialogWaits'
  BY DEF RefIsLive, NewIsFresh, DialogWaits, TypeOK
<1>3. NewIsFresh' /\ UnderWayHasTab'
  BY DEF NewIsFresh, UnderWayHasTab, DialogWaits, TypeOK
<1>4. UndisturbedAlone'
  BY DEF UndisturbedAlone, NewIsFresh, DialogWaits, TypeOK
<1>5. UndisturbedRuns'
  BY DEF UndisturbedRuns, UndisturbedAlone, NewIsFresh, DialogWaits, TypeOK
<1> QED
  BY <1>1, <1>2, <1>3, <1>4, <1>5

LEMMA AfterDoneKeeps ==
  ASSUME IInv, NEW r \in Runs, AfterDone(r)
  PROVE  IInv'
<1> USE ExecutionAssumption
    DEF IInv, AfterDone, Await, Over,
        runs, statement, engines, tables, user
<1>1. TypeOK'
  <2>1. tab[r] \in Tabs
    BY DEF UnderWayHasTab
  <2>2. AnswerShape(r)
    BY DEF AnswerShape, Outcomes
  <2> QED
    BY <2>1, <2>2, AnswerTypes
<1>2. RefIsLive' /\ DialogWaits'
  BY DEF RefIsLive, NewIsFresh, DialogWaits, TypeOK
<1>3. NewIsFresh' /\ UnderWayHasTab'
  BY DEF NewIsFresh, UnderWayHasTab, DialogWaits, TypeOK
<1>4. UndisturbedAlone'
  BY DEF UndisturbedAlone, NewIsFresh, DialogWaits, TypeOK
<1>5. UndisturbedRuns'
  BY DEF UndisturbedRuns, UndisturbedAlone, NewIsFresh, DialogWaits, TypeOK
<1> QED
  BY <1>1, <1>2, <1>3, <1>4, <1>5

LEMMA AfterFailsKeeps ==
  ASSUME IInv, NEW r \in Runs, AfterFails(r)
  PROVE  IInv'
<1> USE ExecutionAssumption
    DEF IInv, AfterFails, Await, Fail, Show, Settle, Over, NoPages,
        runs, statement, engines, tables, user
<1>1. TypeOK'
  <2>1. tab[r] \in Tabs
    BY DEF UnderWayHasTab
  <2>2. AnswerShape(r)
    BY DEF AnswerShape, Outcomes
  <2> QED
    BY <2>1, <2>2, AnswerTypes
<1>2. RefIsLive' /\ DialogWaits'
  BY DEF RefIsLive, NewIsFresh, DialogWaits, TypeOK
<1>3. NewIsFresh' /\ UnderWayHasTab'
  BY DEF NewIsFresh, UnderWayHasTab, DialogWaits, TypeOK
<1>4. UndisturbedAlone'
  BY DEF UndisturbedAlone, NewIsFresh, DialogWaits, TypeOK
<1>5. UndisturbedRuns'
  BY DEF UndisturbedRuns, UndisturbedAlone, NewIsFresh, DialogWaits, TypeOK
<1> QED
  BY <1>1, <1>2, <1>3, <1>4, <1>5

-----------------------------------------------------------------------------
LEMMA StepKeeps == IInv /\ [Next]_vars => IInv'
<1> SUFFICES ASSUME IInv, [Next]_vars PROVE IInv'
  OBVIOUS
<1>1. CASE UNCHANGED vars
  BY <1>1, Stutters
<1>2. CASE Stop \/ Decline \/ Confirm
  BY <1>2, StopKeeps, DeclineKeeps, ConfirmKeeps
<1>3. ASSUME NEW t \in Tabs, SwitchTab(t) PROVE IInv'
  BY <1>3, SwitchTabKeeps
<1>4. ASSUME NEW e \in Engines, SwitchConnector(e) PROVE IInv'
  BY <1>4, SwitchConnectorKeeps
<1>5. ASSUME NEW r \in Runs, NEW e \in Engines, NEW k \in {"select", "command"},
             Run(r, e, k)
      PROVE  IInv'
  BY <1>5, RunKeeps
<1>6. ASSUME NEW r \in Runs, RunThrows(r) PROVE IInv'
  BY <1>6, RunThrowsKeeps
<1>8. CASE ChangePageSize \/ FirstPage \/ PageFails
  BY <1>8, TableKeeps
<1>7. ASSUME NEW r \in Runs, Answer(r) PROVE IInv'
  BY <1>7, CheapKeeps, WarnKeeps, CountLargeKeeps, CountSmallKeeps, PagesReadyKeeps,
     AbortedKeeps, AnsweredKeeps, EngineFailsKeeps, AfterDoneKeeps, AfterFailsKeeps
  DEF Answer
<1> QED
  BY <1>1, <1>2, <1>3, <1>4, <1>5, <1>6, <1>7, <1>8 DEF Next

\* The inductive invariant holds throughout.
THEOREM Invariance == Spec => []IInv
BY Initially, StepKeeps, PTL DEF Spec

\* The state keeps its types.
THEOREM TypeCorrectness == Spec => []TypeOK
<1>1. IInv => TypeOK
  BY DEF IInv
<1> QED
  BY Invariance, <1>1, PTL

\* useQueryExecution.ts: the controller that Stop has aborted is never found in
\* the ref, so what handleRunQuery tests through the ref is never aborted.
THEOREM ControllerIsLive == Spec => []RefIsLive
<1>1. IInv => RefIsLive
  BY DEF IInv
<1> QED
  BY Invariance, <1>1, PTL

\* A run that no other run and no change of engine disturbs is executed on its
\* own engine with its own controller, and loses that only to Stop.
THEOREM UndisturbedIsRight == Spec => []UndisturbedRuns
<1>1. IInv => UndisturbedRuns
  BY DEF IInv
<1> QED
  BY Invariance, <1>1, PTL

\* How a step can change what was sent: a run starts, or it is under way and
\* finds a controller.
Touches ==
  /\ undisturbed' \subseteq undisturbed
  /\ \A r \in Runs : sent'[r] # sent[r] => at[r] = "new" \/ (at[r] \in Awaits /\ ref # None)

LEMMA ChangesSent == IInv /\ Next => Touches
<1> SUFFICES ASSUME IInv, Next PROVE Touches
  OBVIOUS
<1> USE DEF Touches, IInv, TypeOK, runs, statement, engines, tables, user
<1>1. CASE Stop \/ \E t \in Tabs : SwitchTab(t)
  BY <1>1 DEF Stop, SwitchTab
<1>2. CASE Decline
  BY <1>2 DEF Decline
<1>3. CASE Confirm
  BY <1>3 DEF Confirm, Accepted, Execute, DialogWaits
<1>4. ASSUME NEW e \in Engines, SwitchConnector(e) PROVE Touches
  BY <1>4 DEF SwitchConnector, Disturb
<1>5. ASSUME NEW r \in Runs, NEW e \in Engines, NEW k \in {"select", "command"},
             Run(r, e, k)
      PROVE  Touches
  BY <1>5 DEF Run, Disturb
<1>6. ASSUME NEW r \in Runs, RunThrows(r) PROVE Touches
  BY <1>6 DEF RunThrows, Disturb
<1>9. CASE ChangePageSize \/ FirstPage \/ PageFails
  BY <1>9 DEF ChangePageSize, FirstPage, PageFails
<1>7. ASSUME NEW r \in Runs, Cheap(r) \/ CountSmall(r) PROVE Touches
  BY <1>7 DEF Cheap, CountSmall, Accepted, Execute
<1>8. ASSUME NEW r \in Runs,
             \/ Warn(r) \/ CountLarge(r) \/ PagesReady(r) \/ Aborted(r) \/ Answered(r)
             \/ EngineFails(r) \/ AfterDone(r) \/ AfterFails(r)
      PROVE  Touches
  BY <1>8 DEF Warn, CountLarge, PagesReady, Aborted, Answered, EngineFails, AfterDone,
              AfterFails
<1> QED
  BY <1>1, <1>2, <1>3, <1>4, <1>5, <1>6, <1>7, <1>8, <1>9 DEF Next, Answer

\* Stop works before the statement is executed: an undisturbed run that is
\* stopped while its price or size is estimated is not executed.
THEOREM StopIsHeeded == Spec => StoppedNotSent
<1> DEFINE Heeded == \A r \in stopped : r \in undisturbed' /\ sent[r] = None => sent'[r] = None
<1>1. ASSUME IInv, Next, NEW r \in stopped, r \in undisturbed', sent[r] = None
      PROVE  sent'[r] = None
  <2> USE ExecutionAssumption DEF TypeOK, IInv
  <2>1. r \in Runs /\ at[r] # "new" /\ (at[r] \in Awaits /\ r \in undisturbed => ref = None)
    BY <1>1 DEF NewIsFresh, UndisturbedAlone
  <2>2. undisturbed' \subseteq undisturbed
    BY <1>1, ChangesSent DEF Touches
  <2> QED
    BY <1>1, <2>1, <2>2, ChangesSent DEF Touches
<1>2. IInv /\ [Next]_vars => [Heeded]_vars
  BY <1>1
<1> QED
  BY Invariance, <1>2, PTL DEF Spec, StoppedNotSent

\* useQueryExecution.ts: the ref holds no aborted controller, and a run that
\* nothing disturbs has its own engine and its own controller.
THEOREM ControllerIsOwn == Spec => []OwnController
<1>1. RefIsLive /\ UndisturbedRuns => OwnController
  BY DEF OwnController
<1> QED
  BY <1>1, ControllerIsLive, UndisturbedIsRight, PTL

\* A run that will take the overlay down: it waits, and not for an answer that was aborted.
LiveRun(r) == at[r] \in Awaits \ {"after"} /\ (at[r] = "query" => signal[r] \notin aborted)

\* The overlay is that of such a run.
Overlay == executing /\ ready = Engines => \E r \in Runs : LiveRun(r)

\* An answer that leaves the overlay up ends no run that would take it down.
LEMMA AnswerKeepsOverlay ==
  ASSUME IInv, Overlay, NEW r \in Runs,
         Answer(r) \/ (at[r] = "dialog" /\ Accepted(r) /\ UNCHANGED <<aborted, ready>>)
  PROVE  Overlay'
<1> SUFFICES ASSUME executing', ready' = Engines PROVE \E q \in Runs : LiveRun(q)'
  BY DEF Overlay
<1> USE ExecutionAssumption DEF Await, Over, Show, Settle, statement, engines, tables, user
<1>1. aborted' = aborted /\ ready' = ready
  BY DEF Answer, Cheap, Warn, CountLarge, CountSmall, PagesReady, Aborted, Answered, EngineFails,
         AfterDone, AfterFails
<1>2. ref \notin aborted /\ None \notin aborted
  BY DEF IInv, TypeOK, RefIsLive
<1>3. at \in [Runs -> Awaits \cup {"new", "over"}] /\ signal \in [Runs -> Runs \cup {None}]
  BY DEF IInv, TypeOK
<1>4. CASE Cheap(r) \/ (at[r] = "dialog" /\ Accepted(r)) \/ CountSmall(r)
  <2>1. at'[r] = "query" /\ signal'[r] = ref
    BY <1>2, <1>3, <1>4 DEF Cheap, CountSmall, Accepted, Execute, Fail, ShowCancelled
  <2> QED
    BY <2>1, <1>1, <1>2 DEF LiveRun
<1>5. CASE Warn(r) \/ CountLarge(r)
  <2>1. at'[r] \in {"dialog", "urls"}
    BY <1>2, <1>3, <1>5 DEF Warn, CountLarge, ShowCancelled
  <2> QED
    BY <2>1 DEF LiveRun
<1>6. CASE Aborted(r) \/ AfterDone(r)
  <2>1. PICK q \in Runs : LiveRun(q)
    BY <1>1, <1>6 DEF Overlay, Aborted, AfterDone, ShowCancelled
  <2>2. q # r
    BY <2>1, <1>6 DEF LiveRun, Aborted, AfterDone
  <2>3. at'[q] = at[q] /\ signal'[q] = signal[q]
    BY <2>2, <1>3, <1>6 DEF Aborted, AfterDone, ShowCancelled
  <2> QED
    BY <2>1, <2>3, <1>1 DEF LiveRun
<1>7. CASE PagesReady(r) \/ Answered(r) \/ EngineFails(r) \/ AfterFails(r)
  BY <1>2, <1>7 DEF PagesReady, Answered, EngineFails, AfterFails, Fail, ShowCancelled
<1> QED
  BY <1>4, <1>5, <1>6, <1>7 DEF Answer

LEMMA StepKeepsOverlay == IInv /\ Overlay /\ [Next]_vars => Overlay'
<1> SUFFICES ASSUME IInv, Overlay, [Next]_vars PROVE Overlay'
  OBVIOUS
<1> USE DEF Await, statement, engines, tables, user, runs
<1>1. CASE UNCHANGED vars
  BY <1>1 DEF vars, Overlay, LiveRun
<1>2. CASE Stop \/ Decline
  BY <1>2 DEF Stop, Decline, Settle, Overlay
<1>3. CASE Confirm
  <2>1. dialog \in Runs /\ at[dialog] = "dialog" /\ Accepted(dialog)
         /\ UNCHANGED <<aborted, ready>>
    BY <1>3 DEF Confirm, IInv, TypeOK, DialogWaits
  <2> QED
    BY <2>1, AnswerKeepsOverlay
<1>4. ASSUME (\E t \in Tabs : SwitchTab(t)) \/ (\E e \in Engines : SwitchConnector(e))
             \/ ChangePageSize \/ FirstPage \/ PageFails
      PROVE  Overlay'
  BY <1>4 DEF SwitchTab, SwitchConnector, ChangePageSize, FirstPage, PageFails, Overlay, LiveRun
<1>5. ASSUME NEW r \in Runs, NEW e \in Engines, NEW k \in {"select", "command"},
             Run(r, e, k)
      PROVE  Overlay'
  <2>1. r \notin aborted /\ aborted' = aborted
    BY <1>5 DEF Run, IInv, NewIsFresh
  <2>2. at'[r] \in {"cost", "count"} \/ (at'[r] = "query" /\ signal'[r] = r)
    BY <1>5 DEF Run, IInv, TypeOK
  <2> QED
    BY <2>1, <2>2 DEF Overlay, LiveRun
<1>6. ASSUME NEW r \in Runs, RunThrows(r) PROVE Overlay'
  BY <1>6 DEF RunThrows, Overlay
<1>7. ASSUME NEW r \in Runs, Answer(r) PROVE Overlay'
  BY <1>7, AnswerKeepsOverlay
<1> QED
  BY <1>1, <1>2, <1>3, <1>4, <1>5, <1>6, <1>7 DEF Next

LEMMA OverlayBegins == Init => Overlay
BY DEF Init, Overlay

LEMMA OverlayTracks == IInv /\ Overlay => RunsAreTracked
BY DEF IInv, Overlay, LiveRun, RunsAreTracked, ExecutingHasRun, UnderWay

\* useQueryExecution.ts: the overlay goes with the last run, although several paths leave
\* setIsQueryExecuting out, unless a run was refused because its engine has no connector.
THEOREM OverlayHasRun == Spec => []RunsAreTracked
BY OverlayBegins, OverlayTracks, Invariance, StepKeepsOverlay, PTL DEF Spec

-----------------------------------------------------------------------------
(* The service through which runs reach the engines. *)

EngineNames == {"duckdb", "bigquery"}
Calls == [sql : {V!Ping, V!Other}, engine : EngineNames, crossed : BOOLEAN]
Counts == [count : Nat \ {0}, at : Nat, engine : EngineNames, crossed : BOOLEAN]
Checks == {V!Idle} \cup [step : {"query"}] \cup [step : {"count"}, query : BOOLEAN, call : Calls]
Histories == [answers : BOOLEAN, fails : BOOLEAN, crossed : BOOLEAN, known : BOOLEAN]

ServiceTypes ==
  /\ linked \subseteq EngineNames /\ activeConnector \in EngineNames
  /\ database \in {"answers", "fails"} /\ clock \in Nat
  /\ countCache \in [V!Keys -> Counts \cup {V!None}]
  /\ asked \in Calls \cup {V!None} /\ late \subseteq Calls
  /\ checking \in Checks
  /\ status \in [healthy : BOOLEAN, failures : Nat]
  /\ through \in Histories \cup {V!None}

\* DuckDB has a connector as soon as there is one, and nothing is checked before.
DuckDBLinked ==
  /\ linked # {} => "duckdb" \in linked
  /\ checking # V!Idle => linked # {}

\* What is asked and what is kept is of the active engine, unless it was changed.
Ours(c) == c.engine = activeConnector \/ c.crossed
Owned ==
  /\ asked # V!None => Ours(asked)
  /\ \A c \in late : Ours(c)
  /\ checking.step = "count" => Ours(checking.call)
  /\ \A k \in V!Keys : countCache[k] # V!None => Ours(countCache[k])

\* What a check under way knows: DuckDB is as it was all the time, its engine is DuckDB, and
\* its first half came out accordingly.
CheckKnows ==
  checking # V!Idle =>
    /\ through # V!None
    /\ through.answers => database = "answers"
    /\ through.fails => database = "fails"
    /\ ~through.crossed => activeConnector = "duckdb"
    /\ checking.step = "count" =>
         /\ through.answers => checking.query
         /\ through.fails => ~checking.query
         /\ ~through.crossed => checking.call.engine = "duckdb"

ServiceInv ==
  /\ ServiceTypes /\ DuckDBLinked /\ Owned /\ CheckKnows
  /\ V!HealthIsHonest /\ V!CountIsRecent

LEMMA SomeThing ==
  /\ \A c \in Calls \cup Counts \cup Histories : c # V!None
  /\ V!Idle.step = "idle"
  /\ \A c \in Checks : c # V!Idle <=> c.step \in {"query", "count"}
<1>1. ASSUME NEW c \in Calls \cup Counts \cup Histories PROVE c # V!None
  <2>1. "crossed" \in DOMAIN c /\ DOMAIN V!None = {"none"}
    BY DEF Calls, Counts, Histories, V!None
  <2> QED
    BY <2>1
<1>2. V!Idle.step = "idle"
  BY DEF V!Idle
<1>3. ASSUME NEW c \in Checks PROVE c # V!Idle <=> c.step \in {"query", "count"}
  BY DEF Checks, V!Idle
<1> QED
  BY <1>1, <1>2, <1>3

LEMMA ServiceBegins == V!ServiceInit => ServiceInv
<1> SUFFICES ASSUME V!ServiceInit PROVE ServiceInv
  OBVIOUS
<1> USE DEF V!ServiceInit
<1>1. ServiceTypes
  BY DEF ServiceTypes, EngineNames, Checks, V!Assumed
<1>2. DuckDBLinked /\ Owned /\ CheckKnows
  BY SomeThing DEF DuckDBLinked, Owned, CheckKnows
<1>3. V!HealthIsHonest /\ V!CountIsRecent
  BY DEF V!HealthIsHonest, V!CountIsRecent, V!Assumed
<1> QED
  BY <1>1, <1>2, <1>3 DEF ServiceInv

\* What a failure and a health are.
LEMMA HealthFacts ==
  ASSUME ServiceTypes, NEW query \in BOOLEAN, NEW count \in BOOLEAN
  PROVE  /\ V!Health(query, count) \in [healthy : BOOLEAN, failures : Nat]
         /\ V!Health(query, count).healthy <=> V!Health(query, count).failures = 0
         /\ V!Health(query, count).healthy <=> query /\ count
<1>1. status.failures + 1 \in Nat \ {0}
  BY DEF ServiceTypes
<1> DEFINE both == {status.failures + 1, MaxFailed}
           least == V!Min(both)
<1>2. least \in Nat \ {0}
  <2>1. \E x \in both : \A y \in both : x <= y
    BY <1>1, ServiceAssumption
  <2> QED
    BY <2>1, <1>1, ServiceAssumption DEF V!Min
<1> HIDE DEF least
<1>3. V!Failed = [healthy |-> FALSE, failures |-> least]
  BY DEF V!Failed, least
<1> QED
  BY <1>2, <1>3 DEF V!Health, V!Assumed

\* A count that is kept is a count of the active engine, as its call is.
LEMMA KeepKeeps ==
  ASSUME ServiceTypes, Owned, NEW c \in Calls, Ours(c), NEW n \in Int, V!Keep(c, n),
         activeConnector' = activeConnector
  PROVE  /\ countCache' \in [V!Keys -> Counts \cup {V!None}]
         /\ \A k \in V!Keys : countCache'[k] # V!None => Ours(countCache[k])'
<1>1. CASE ~(n > 0)
  BY <1>1 DEF V!Keep, ServiceTypes, Owned, Ours
<1>2. CASE n > 0
  <2> DEFINE kept == V!Kept(c, n)
  <2>1. kept \in Counts
    BY <1>2 DEF V!Kept, Counts, Calls, ServiceTypes
  <2>2. kept.engine = activeConnector \/ kept.crossed
    BY DEF V!Kept, Ours, Calls
  <2> HIDE DEF kept
  <2>3. countCache' = [countCache EXCEPT ![V!HashQuery(c.sql)] = kept]
    BY <1>2 DEF V!Keep, kept
  <2> QED
    BY <2>1, <2>2, <2>3 DEF ServiceTypes, Owned, Ours
<1> QED
  BY <1>1, <1>2

LEMMA GetRowCountKeeps ==
  ASSUME ServiceInv, V!GetRowCount(V!Other)
  PROVE  ServiceInv'
<1> USE DEF ServiceInv, V!GetRowCount
<1>1. ServiceTypes'
  <2>1. V!Call(V!Other) \in Calls
    BY DEF V!Call, Calls, ServiceTypes
  <2>2. asked' \in Calls \cup {V!None} /\ through' \in Histories \cup {V!None}
    BY <2>1 DEF ServiceTypes
  <2> QED
    BY <2>2 DEF ServiceTypes
<1>2. DuckDBLinked'
  BY SomeThing DEF DuckDBLinked, ServiceTypes
<1>3. Owned'
  <2>1. Ours(V!Call(V!Other))
    BY DEF V!Call, Ours
  <2>2. asked' # V!None => Ours(asked')
    BY <2>1 DEF Owned
  <2> QED
    BY <2>2 DEF Owned, Ours
<1>4. CheckKnows'
  BY SomeThing DEF CheckKnows, DuckDBLinked, ServiceTypes
<1>5. V!HealthIsHonest'
  BY SomeThing DEF V!HealthIsHonest, CheckKnows, ServiceTypes
<1>6. V!CountIsRecent'
  <2>1. CASE V!Fresh(V!Other)
    <3> DEFINE kept == countCache[V!HashQuery(V!Other)]
    <3>1. kept \in Counts /\ Ours(kept) /\ clock - kept.at < TTL
      BY <2>1 DEF V!Fresh, V!Keys, ServiceTypes, Owned
    <3>2. told' = V!Told(kept.count, kept, TRUE)
      BY <2>1
    <3> HIDE DEF kept
    <3>3. told'.age < TTL /\ told'.count > 0 /\ (told'.engine = told'.active \/ told'.crossed)
      BY <3>1, <3>2 DEF V!Told, Counts, Ours
    <3> QED
      BY <3>3 DEF V!CountIsRecent
  <2>2. CASE ~V!Fresh(V!Other)
    BY <2>2, ServiceAssumption DEF V!CountIsRecent, V!Told, V!Call
  <2> QED
    BY <2>1, <2>2
<1> QED
  BY <1>1, <1>2, <1>3, <1>4, <1>5, <1>6

LEMMA RowCountKeeps ==
  ASSUME ServiceInv, NEW n \in Int, V!RowCount(n)
  PROVE  ServiceInv'
<1> USE DEF ServiceInv, V!RowCount
<1>1. ServiceTypes'
  <2>1. countCache' \in [V!Keys -> Counts \cup {V!None}]
    BY KeepKeeps DEF Owned, ServiceTypes
  <2> QED
    BY <2>1 DEF ServiceTypes
<1>2. DuckDBLinked'
  BY SomeThing DEF DuckDBLinked, ServiceTypes
<1>3. Owned'
  BY KeepKeeps, SomeThing DEF Owned, Ours, ServiceTypes
<1>4. CheckKnows'
  BY SomeThing DEF CheckKnows, DuckDBLinked, ServiceTypes
<1>5. V!HealthIsHonest'
  BY SomeThing DEF V!HealthIsHonest, CheckKnows, ServiceTypes
<1>6. V!CountIsRecent'
  <2>1. asked \in Calls /\ Ours(asked)
    BY DEF ServiceTypes, Owned
  <2>2. ~told'.cached /\ (told'.engine = told'.active \/ told'.crossed)
    BY <2>1 DEF V!Told, Ours, Calls
  <2>3. told'.age < TTL
    <3>1. told'.age = 0
      BY DEF V!Told
    <3>2. 0 < TTL
      BY ServiceAssumption
    <3> QED
      BY <3>1, <3>2, Zenon
  <2> QED
    BY <2>2, <2>3 DEF V!CountIsRecent
<1> QED
  BY <1>1, <1>2, <1>3, <1>4, <1>5, <1>6

LEMMA LateAnswerKeeps ==
  ASSUME ServiceInv, NEW n \in Int, NEW c \in late, V!LateAnswer(c, n)
  PROVE  ServiceInv'
<1> USE DEF ServiceInv, V!LateAnswer, V!Later
<1>1. ServiceTypes'
  <2>1. countCache' \in [V!Keys -> Counts \cup {V!None}]
    BY KeepKeeps DEF Owned, ServiceTypes
  <2> QED
    BY <2>1 DEF ServiceTypes
<1>2. DuckDBLinked'
  BY SomeThing DEF DuckDBLinked, ServiceTypes
<1>3. Owned'
  BY KeepKeeps, SomeThing DEF Owned, Ours, ServiceTypes
<1>4. CheckKnows'
  BY SomeThing DEF CheckKnows, DuckDBLinked, ServiceTypes
<1>5. V!HealthIsHonest'
  BY SomeThing DEF V!HealthIsHonest, CheckKnows, ServiceTypes
<1>6. V!CountIsRecent'
  BY SomeThing DEF V!CountIsRecent, ServiceTypes
<1> QED
  BY <1>1, <1>2, <1>3, <1>4, <1>5, <1>6

LEMMA InitializeKeeps ==
  ASSUME ServiceInv, V!Initialize
  PROVE  ServiceInv'
<1> USE DEF ServiceInv, V!Initialize, V!PerformHealthCheck
<1> DEFINE begun == [answers |-> database = "answers", fails |-> database = "fails",
                     crossed |-> FALSE, known |-> TRUE]
<1>0. /\ begun \in Histories /\ begun # V!None /\ ~begun.crossed
      /\ begun.answers <=> database = "answers"
      /\ begun.fails <=> database = "fails"
  BY SomeThing DEF Histories
<1> HIDE DEF begun
<1>1. ServiceTypes'
  <2>1. through' \in Histories \cup {V!None}
    BY <1>0 DEF begun, ServiceTypes
  <2>2. [step |-> "query"] \in Checks /\ V!Assumed \in [healthy : BOOLEAN, failures : Nat]
    BY DEF Checks, V!Assumed
  <2>3. checking' \in {checking, [step |-> "query"]} /\ status' \in {status, V!Assumed}
    BY DEF ServiceTypes
  <2> QED
    BY <2>1, <2>2, <2>3 DEF ServiceTypes, EngineNames
<1>2. DuckDBLinked'
  BY SomeThing DEF DuckDBLinked, ServiceTypes, Checks
<1>3. Owned'
  BY SomeThing DEF Owned, Ours, ServiceTypes
<1>4. CheckKnows'
  <2>1. CASE paused \/ activeConnector = "bigquery"
    BY <2>1 DEF CheckKnows, DuckDBLinked
  <2>2. CASE ~paused /\ activeConnector # "bigquery"
    <3>1. checking' = [step |-> "query"] /\ through' = begun
      BY <2>2 DEF begun
    <3> QED
      BY <1>0, <3>1, <2>2 DEF CheckKnows, ServiceTypes, EngineNames
  <2> QED
    BY <2>1, <2>2
<1>5. V!HealthIsHonest'
  BY SomeThing DEF V!HealthIsHonest, V!Assumed, ServiceTypes, CheckKnows, Histories, Checks
<1>6. V!CountIsRecent'
  BY SomeThing DEF V!CountIsRecent, ServiceTypes
<1> QED
  BY <1>1, <1>2, <1>3, <1>4, <1>5, <1>6

LEMMA TickKeeps ==
  ASSUME ServiceInv, V!Tick
  PROVE  ServiceInv'
<1> USE DEF ServiceInv, V!Tick, V!PerformHealthCheck
<1> DEFINE begun == [answers |-> database = "answers", fails |-> database = "fails",
                     crossed |-> FALSE, known |-> TRUE]
<1>0. /\ begun \in Histories /\ begun # V!None /\ ~begun.crossed
      /\ begun.answers <=> database = "answers"
      /\ begun.fails <=> database = "fails"
  BY SomeThing DEF Histories
<1> HIDE DEF begun
<1>1. ServiceTypes'
  <2>1. through' \in Histories \cup {V!None}
    BY <1>0 DEF begun, ServiceTypes
  <2>2. [step |-> "query"] \in Checks /\ V!Assumed \in [healthy : BOOLEAN, failures : Nat]
    BY DEF Checks, V!Assumed
  <2>3. checking' \in {checking, [step |-> "query"]} /\ status' \in {status, V!Assumed}
    BY DEF ServiceTypes
  <2> QED
    BY <2>1, <2>2, <2>3 DEF ServiceTypes, EngineNames
<1>2. DuckDBLinked'
  BY SomeThing DEF DuckDBLinked, ServiceTypes, Checks
<1>3. Owned'
  BY SomeThing DEF Owned, Ours, ServiceTypes
<1>4. CheckKnows'
  <2>1. CASE paused \/ activeConnector = "bigquery"
    BY <2>1 DEF CheckKnows, DuckDBLinked
  <2>2. CASE ~paused /\ activeConnector # "bigquery"
    <3>1. checking' = [step |-> "query"] /\ through' = begun
      BY <2>2 DEF begun
    <3> QED
      BY <1>0, <3>1, <2>2 DEF CheckKnows, ServiceTypes, EngineNames
  <2> QED
    BY <2>1, <2>2
<1>5. V!HealthIsHonest'
  BY SomeThing DEF V!HealthIsHonest, V!Assumed, ServiceTypes, CheckKnows, Histories, Checks
<1>6. V!CountIsRecent'
  BY SomeThing DEF V!CountIsRecent, ServiceTypes
<1> QED
  BY <1>1, <1>2, <1>3, <1>4, <1>5, <1>6

LEMMA DatabaseTurnsKeeps ==
  ASSUME ServiceInv, V!DatabaseTurns
  PROVE  ServiceInv'
<1> USE DEF ServiceInv, V!DatabaseTurns, V!Turn
<1>1. ServiceTypes'
  <2>1. through \in Histories => [through EXCEPT !.answers = FALSE, !.fails = FALSE] \in Histories
    BY DEF Histories
  <2>2. through' \in Histories \cup {V!None}
    BY <2>1, SomeThing DEF ServiceTypes, CheckKnows
  <2> QED
    BY <2>2 DEF ServiceTypes
<1>2. DuckDBLinked'
  BY SomeThing DEF DuckDBLinked, ServiceTypes
<1>3. Owned'
  BY SomeThing DEF Owned, Ours, ServiceTypes
<1>4. CheckKnows'
  BY SomeThing DEF CheckKnows, ServiceTypes, Histories
<1>5. V!HealthIsHonest'
  BY SomeThing DEF V!HealthIsHonest, CheckKnows, ServiceTypes
<1>6. V!CountIsRecent'
  BY SomeThing DEF V!CountIsRecent, ServiceTypes
<1> QED
  BY <1>1, <1>2, <1>3, <1>4, <1>5, <1>6

LEMMA SetBigQueryKeeps ==
  ASSUME ServiceInv, NEW there \in BOOLEAN, V!SetBigQuery(there)
  PROVE  ServiceInv'
<1> USE DEF ServiceInv, V!SetBigQuery, V!Turn, V!Later
<1>1. ServiceTypes'
  BY DEF ServiceTypes, EngineNames
<1>2. DuckDBLinked'
  BY SomeThing DEF DuckDBLinked, ServiceTypes
<1>3. Owned'
  BY SomeThing DEF Owned, Ours, ServiceTypes
<1>4. CheckKnows'
  BY SomeThing DEF CheckKnows, DuckDBLinked, ServiceTypes
<1>5. V!HealthIsHonest'
  BY SomeThing DEF V!HealthIsHonest, CheckKnows, ServiceTypes
<1>6. V!CountIsRecent'
  BY SomeThing DEF V!CountIsRecent, ServiceTypes
<1> QED
  BY <1>1, <1>2, <1>3, <1>4, <1>5, <1>6

LEMMA PauseKeeps ==
  ASSUME ServiceInv, NEW b \in BOOLEAN, V!Pause(b)
  PROVE  ServiceInv'
<1> USE DEF ServiceInv, V!Pause, V!Turn, V!Later
<1>1. ServiceTypes'
  BY DEF ServiceTypes, Checks
<1>2. DuckDBLinked'
  BY SomeThing DEF DuckDBLinked, ServiceTypes
<1>3. Owned'
  BY SomeThing DEF Owned, Ours, ServiceTypes
<1>4. CheckKnows'
  BY SomeThing DEF CheckKnows, DuckDBLinked, ServiceTypes
<1>5. V!HealthIsHonest'
  BY SomeThing DEF V!HealthIsHonest, CheckKnows, ServiceTypes
<1>6. V!CountIsRecent'
  BY SomeThing DEF V!CountIsRecent, ServiceTypes
<1> QED
  BY <1>1, <1>2, <1>3, <1>4, <1>5, <1>6

\* What is known of a check is asked for in its second half, or settles its health.
LEMMA QueryHalfOverKeeps ==
  ASSUME ServiceInv, NEW query \in BOOLEAN, V!QueryHalfOver(query)
  PROVE  ServiceInv'
<1> USE DEF ServiceInv, V!QueryHalfOver
<1>0. /\ checking \in Checks /\ checking # V!Idle /\ through \in Histories /\ linked # {}
      /\ query <=> database = "answers"
  BY SomeThing DEF ServiceTypes, DuckDBLinked, CheckKnows
<1> DEFINE counted == [step |-> "count", query |-> query, call |-> V!Call(V!Ping)]
           known == V!Fresh(V!Ping)
           answered == V!Health(query, countCache[V!HashQuery(V!Ping)].count >= 0)
           unknown == V!Health(query, FALSE)
<1>1. V!Call(V!Ping) \in Calls /\ Ours(V!Call(V!Ping)) /\ V!Call(V!Ping).engine = activeConnector
  BY DEF ServiceTypes, V!Call, Calls, Ours
<1>2. /\ counted \in Checks /\ counted.step = "count" /\ counted # V!Idle
      /\ counted.query = query /\ counted.call = V!Call(V!Ping)
  BY <1>1, SomeThing DEF Checks
<1>3. V!Fresh(V!Ping) => countCache[V!HashQuery(V!Ping)].count >= 0
  BY DEF V!Fresh, V!Keys, ServiceTypes, Counts
<1>4. /\ answered \in [healthy : BOOLEAN, failures : Nat] /\ unknown \in [healthy : BOOLEAN, failures : Nat]
      /\ answered.healthy <=> answered.failures = 0
      /\ unknown.healthy <=> unknown.failures = 0
      /\ known => (answered.healthy <=> database = "answers")
      /\ ~unknown.healthy
  <2> DEFINE n == countCache[V!HashQuery(V!Ping)].count
             positive == n >= 0
  <2>1. positive \in BOOLEAN /\ answered = V!Health(query, positive) /\ unknown = V!Health(query, FALSE)
    OBVIOUS
  <2>2. known => positive
    BY <1>3
  <2> HIDE DEF positive, answered, unknown, known
  <2>3. /\ answered \in [healthy : BOOLEAN, failures : Nat]
        /\ answered.healthy <=> answered.failures = 0
        /\ answered.healthy <=> query /\ positive
    BY <2>1, HealthFacts, Zenon
  <2>4. /\ unknown \in [healthy : BOOLEAN, failures : Nat]
        /\ unknown.healthy <=> unknown.failures = 0
        /\ unknown.healthy <=> query /\ FALSE
    BY <2>1, HealthFacts, Zenon
  <2> QED
    BY <1>0, <2>2, <2>3, <2>4, Zenon
<1>5. \/ known /\ status' = answered /\ checking' = V!Idle
      \/ activeConnector \in linked /\ V!Countable(activeConnector) /\ checking' = counted /\ status' = status
      \/ /\ ~(activeConnector \in linked /\ V!Countable(activeConnector))
         /\ status' = unknown /\ checking' = V!Idle
  BY DEF V!CountHalf
<1> HIDE DEF counted, known, answered, unknown
<1>6. ServiceTypes'
  <2>1. checking' \in Checks
    BY <1>2, <1>5 DEF Checks
  <2>2. status' \in [healthy : BOOLEAN, failures : Nat]
    BY <1>4, <1>5 DEF ServiceTypes
  <2> QED
    BY <2>1, <2>2 DEF ServiceTypes
<1>7. DuckDBLinked' /\ Owned'
  BY <1>0, <1>1, <1>2, <1>5, SomeThing DEF DuckDBLinked, Owned, Ours
<1>8. CheckKnows'
  BY <1>0, <1>1, <1>2, <1>5, SomeThing DEF CheckKnows
<1>9. V!HealthIsHonest'
  <2>1. CASE known /\ status' = answered /\ checking' = V!Idle
    BY <2>1, <1>0, <1>4 DEF V!HealthIsHonest, CheckKnows, ServiceTypes
  <2>2. CASE checking' = counted /\ status' = status
    BY <2>2, <1>2 DEF V!HealthIsHonest
  <2>3. CASE ~(activeConnector \in linked /\ V!Countable(activeConnector))
             /\ status' = unknown /\ checking' = V!Idle
    BY <2>3, <1>0, <1>4 DEF V!HealthIsHonest, CheckKnows, DuckDBLinked, V!Countable
  <2> QED
    BY <1>5, <2>1, <2>2, <2>3
<1>10. V!CountIsRecent'
  BY DEF V!CountIsRecent
<1> QED
  BY <1>6, <1>7, <1>8, <1>9, <1>10

LEMMA CountHalfOverKeeps ==
  ASSUME ServiceInv, NEW n \in Int, V!CountHalfOver(n)
  PROVE  ServiceInv'
<1> USE DEF ServiceInv, V!CountHalfOver
<1>1. /\ checking # V!Idle /\ checking.query \in BOOLEAN /\ checking.call \in Calls
      /\ Ours(checking.call) /\ through \in Histories
  BY SomeThing DEF ServiceTypes, Checks, Owned, CheckKnows
<1>2. /\ countCache' \in [V!Keys -> Counts \cup {V!None}]
      /\ \A k \in V!Keys : countCache'[k] # V!None => Ours(countCache[k])'
  BY <1>1, KeepKeeps
<1>3. /\ status' \in [healthy : BOOLEAN, failures : Nat]
      /\ status'.healthy <=> status'.failures = 0
      /\ status'.healthy <=> checking.query /\ n >= 0
  <2> DEFINE counted == n >= 0
  <2>1. counted \in BOOLEAN /\ status' = V!Health(checking.query, counted)
    OBVIOUS
  <2> HIDE DEF counted
  <2>2. status'.healthy <=> checking.query /\ counted
    BY <1>1, <2>1, HealthFacts, Zenon
  <2>3. status' \in [healthy : BOOLEAN, failures : Nat] /\ (status'.healthy <=> status'.failures = 0)
    BY <1>1, <2>1, HealthFacts, Zenon
  <2> QED
    BY <2>2, <2>3 DEF counted
<1>4. /\ through' \in Histories /\ through' # V!None
      /\ through'.answers <=> through.answers
      /\ through'.fails <=> through.fails
      /\ through'.crossed <=> through.crossed
      /\ through'.known <=> n >= 0
  <2> DEFINE counted == n >= 0
  <2>1. counted \in BOOLEAN /\ through' = [through EXCEPT !.known = counted]
    OBVIOUS
  <2> HIDE DEF counted
  <2>2. /\ through' \in Histories
        /\ through'.answers = through.answers /\ through'.fails = through.fails
        /\ through'.crossed = through.crossed /\ through'.known = counted
    BY <1>1, <2>1 DEF Histories
  <2> QED
    BY <2>2, SomeThing DEF counted
<1>5. ServiceTypes'
  BY <1>2, <1>3, <1>4 DEF ServiceTypes, Checks
<1>6. DuckDBLinked' /\ CheckKnows'
  BY DEF DuckDBLinked, CheckKnows
<1>7. Owned'
  BY <1>2, SomeThing DEF Owned, Ours
<1>8. V!HealthIsHonest' /\ V!CountIsRecent'
  BY <1>1, <1>3, <1>4 DEF V!HealthIsHonest, V!CountIsRecent, CheckKnows
<1> QED
  BY <1>5, <1>6, <1>7, <1>8

LEMMA CountHalfGivenUpKeeps ==
  ASSUME ServiceInv, V!CountHalfGivenUp
  PROVE  ServiceInv'
<1> USE DEF ServiceInv, V!CountHalfGivenUp
<1>1. /\ checking # V!Idle /\ checking.query \in BOOLEAN /\ checking.call \in Calls
      /\ Ours(checking.call) /\ through \in Histories
  BY SomeThing DEF ServiceTypes, Checks, Owned, CheckKnows
<1>2. /\ status' \in [healthy : BOOLEAN, failures : Nat]
      /\ status'.healthy <=> status'.failures = 0
      /\ ~status'.healthy
  BY <1>1, HealthFacts
<1>3. ServiceTypes'
  BY <1>1, <1>2 DEF ServiceTypes, Checks
<1>4. DuckDBLinked' /\ CheckKnows'
  BY DEF DuckDBLinked, CheckKnows
<1>5. Owned'
  BY <1>1, SomeThing DEF Owned, Ours
<1>6. V!HealthIsHonest' /\ V!CountIsRecent'
  BY <1>1, <1>2 DEF V!HealthIsHonest, V!CountIsRecent, CheckKnows
<1> QED
  BY <1>3, <1>4, <1>5, <1>6

\* What is marked as of the engine before keeps its type.
LEMMA CrossFacts ==
  /\ \A c \in Calls : V!Cross(c) \in Calls /\ V!Cross(c).crossed
  /\ \A c \in Counts : V!Cross(c) \in Counts /\ V!Cross(c).crossed
  /\ \A c \in Histories : V!Cross(c) \in Histories /\ V!Cross(c).crossed
  /\ V!Cross(V!None) = V!None
<1>1. \A c \in Calls : V!Cross(c) \in Calls /\ V!Cross(c).crossed
  BY SomeThing DEF V!Cross, Calls
<1>2. \A c \in Counts : V!Cross(c) \in Counts /\ V!Cross(c).crossed
  BY SomeThing DEF V!Cross, Counts
<1>3. \A c \in Histories : V!Cross(c) \in Histories /\ V!Cross(c).crossed
  BY SomeThing DEF V!Cross, Histories
<1> QED
  BY <1>1, <1>2, <1>3 DEF V!Cross

LEMMA SetActiveConnectorKeeps ==
  ASSUME ServiceInv, NEW e \in EngineNames, V!SetActiveConnector(e)
  PROVE  ServiceInv'
<1> USE DEF ServiceInv, V!SetActiveConnector, V!Turn, V!CrossedHistory
<1>1. /\ countCache' \in [V!Keys -> Counts \cup {V!None}]
      /\ \A k \in V!Keys : countCache'[k] # V!None => countCache'[k].crossed
  BY CrossFacts DEF ServiceTypes
<1>2. /\ asked' \in Calls \cup {V!None} /\ (asked' # V!None => asked'.crossed)
      /\ late' \subseteq Calls /\ \A c \in late' : c.crossed
  BY CrossFacts DEF ServiceTypes
<1>3. /\ checking' \in Checks
      /\ checking' = V!Idle <=> checking = V!Idle
      /\ checking'.step = "count" => checking'.call.crossed
  <2>1. CASE checking.step = "count"
    <3>1. /\ checking \in [step : {"count"}, query : BOOLEAN, call : Calls]
          /\ checking.call \in Calls
      BY <2>1, SomeThing DEF ServiceTypes, Checks
    <3> DEFINE marked == [checking.call EXCEPT !.crossed = TRUE]
    <3>2. marked \in Calls /\ marked.crossed /\ checking' = [checking EXCEPT !.call = marked]
      BY <2>1, <3>1 DEF Calls
    <3> HIDE DEF marked
    <3>3. checking' \in Checks /\ checking'.step = "count" /\ checking'.call.crossed
      BY <3>1, <3>2 DEF Checks
    <3> QED
      BY <2>1, <3>3, SomeThing DEF ServiceTypes
  <2>2. CASE checking.step # "count"
    BY <2>2 DEF ServiceTypes
  <2> QED
    BY <2>1, <2>2
<1>4. /\ through' \in Histories \cup {V!None}
      /\ checking = V!Idle => through' = V!None
      /\ checking # V!Idle => through' # V!None /\ through'.crossed
  BY CrossFacts, SomeThing DEF ServiceTypes, CheckKnows
<1>5. ServiceTypes'
  BY <1>1, <1>2, <1>3, <1>4 DEF ServiceTypes
<1>6. DuckDBLinked' /\ Owned'
  BY <1>1, <1>2, <1>3 DEF DuckDBLinked, Owned, Ours
<1>7. CheckKnows'
  <2>1. CASE checking = V!Idle
    BY <2>1, <1>3 DEF CheckKnows
  <2>2. CASE checking # V!Idle
    <3>1. through \in Histories
      BY <2>2 DEF CheckKnows, ServiceTypes
    <3>2. /\ through'.answers = through.answers /\ through'.fails = through.fails
          /\ through'.crossed /\ through' # V!None
      BY <2>2, <3>1, <1>4, SomeThing DEF V!Cross, Histories
    <3>3. checking'.step = "count" => checking.step = "count" /\ checking'.query = checking.query
      BY <2>2, SomeThing DEF ServiceTypes, Checks
    <3> QED
      BY <2>2, <3>2, <3>3 DEF CheckKnows
  <2> QED
    BY <2>1, <2>2
<1>8. V!HealthIsHonest' /\ V!CountIsRecent'
  BY <1>3, <1>4 DEF V!HealthIsHonest, V!CountIsRecent
<1> QED
  BY <1>5, <1>6, <1>7, <1>8

LEMMA ServiceStutters == ServiceInv /\ UNCHANGED V!serviceVars => ServiceInv'
BY DEF ServiceInv, ServiceTypes, DuckDBLinked, Owned, Ours, CheckKnows,
       V!HealthIsHonest, V!CountIsRecent, V!serviceVars

LEMMA ServiceStep == ServiceInv /\ [V!ServiceNext]_(V!serviceVars) => ServiceInv'
<1> SUFFICES ASSUME ServiceInv, V!ServiceNext PROVE ServiceInv'
  BY ServiceStutters
<1>1. CASE V!Initialize \/ V!Tick \/ V!DatabaseTurns \/ V!CountHalfGivenUp \/ V!GetRowCount(V!Other)
  BY <1>1, InitializeKeeps, TickKeeps, DatabaseTurnsKeeps, CountHalfGivenUpKeeps, GetRowCountKeeps
<1>2. ASSUME NEW n \in {-1, 0, 5}, V!RowCount(n) PROVE ServiceInv'
  BY <1>2, RowCountKeeps
<1>3. ASSUME NEW n \in {-1, 1}, V!CountHalfOver(n) PROVE ServiceInv'
  BY <1>3, CountHalfOverKeeps
<1>4. ASSUME NEW n \in {-1, 1}, NEW c \in late, V!LateAnswer(c, n) PROVE ServiceInv'
  BY <1>4, LateAnswerKeeps
<1>5. ASSUME NEW b \in BOOLEAN, V!QueryHalfOver(b) \/ V!SetBigQuery(b) \/ V!Pause(b)
      PROVE  ServiceInv'
  BY <1>5, QueryHalfOverKeeps, SetBigQueryKeeps, PauseKeeps
<1>6. ASSUME NEW e \in EngineNames, V!SetActiveConnector(e) PROVE ServiceInv'
  BY <1>6, SetActiveConnectorKeeps
<1> QED
  BY <1>1, <1>2, <1>3, <1>4, <1>5, <1>6 DEF V!ServiceNext, EngineNames

\* The inductive invariant of the service holds throughout.
THEOREM ServiceInvariance == V!ServiceSpec => []ServiceInv
BY ServiceBegins, ServiceStep, PTL DEF V!ServiceSpec

\* connectionHealthCheck.ts: what the last complete check found of DuckDB is so if DuckDB was
\* so all through it, whatever counts were kept or given up meanwhile.
THEOREM HealthIsSo == V!ServiceSpec => []V!HealthIsHonest
<1>1. ServiceInv => V!HealthIsHonest
  BY DEF ServiceInv
<1> QED
  BY ServiceInvariance, <1>1, PTL

\* getRowCount: a count that is told is of the engine that is asked, and not older than it may
\* be kept.
THEOREM CountsAreRecent == V!ServiceSpec => []V!CountIsRecent
<1>1. ServiceInv => V!CountIsRecent
  BY DEF ServiceInv
<1> QED
  BY ServiceInvariance, <1>1, PTL

-----------------------------------------------------------------------------
(* Beside each other. *)

BesideInv == IInv /\ Overlay /\ ServiceInv

LEMMA BesideStep == BesideInv /\ [MCNext]_<<beside, vars, queryServiceVars>> => BesideInv'
<1> SUFFICES ASSUME BesideInv, [MCNext]_<<beside, vars, queryServiceVars>> PROVE BesideInv'
  OBVIOUS
<1>1. UNCHANGED queryServiceVars => [V!ServiceNext]_(V!serviceVars)
  BY DEF queryServiceVars, V!serviceVars
<1>2. [Next]_vars /\ [V!ServiceNext]_(V!serviceVars)
  <2>1. CASE Next /\ UNCHANGED queryServiceVars
    BY <2>1, <1>1
  <2>2. CASE V!ServiceNext /\ UNCHANGED vars
    BY <2>2
  <2>3. CASE UNCHANGED <<beside, vars, queryServiceVars>>
    BY <2>3, <1>1
  <2> QED
    BY <2>1, <2>2, <2>3 DEF MCNext
<1> QED
  BY <1>2, StepKeeps, StepKeepsOverlay, ServiceStep DEF BesideInv

\* useQueryExecution.ts and streaming-query-service.ts: the overlay goes with a run, the ref
\* holds no aborted controller, who is not disturbed has his own engine and controller; and
\* the service says of DuckDB's health and of a statement's rows what is so.
THEOREM ControlStays == MCSpec => []ControlIsKept
<1>1. MCInit => BesideInv
  BY Initially, OverlayBegins, ServiceBegins DEF MCInit, BesideInv
<1>2. BesideInv => ControlIsKept
  <2>1. IInv /\ Overlay => RunsAreTracked
    BY OverlayTracks
  <2>2. IInv => OwnController
    BY DEF IInv, OwnController
  <2> QED
    BY <2>1, <2>2 DEF BesideInv, ServiceInv, ControlIsKept
<1> QED
  BY <1>1, <1>2, BesideStep, PTL DEF MCSpec
=============================================================================
