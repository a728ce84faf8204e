-------------------------------- MODULE OAuth --------------------------------
(***************************************************************************)
(* connect of BigQueryConnector between the click in BigQuerySetupDialog and  *)
(* the token: the window in which Google asks the user, the page OAuthCallback *)
(* that it comes back to, and the two ways the code takes from there, a        *)
(* message to the opener or an item of localStorage.  The dialog can be        *)
(* closed and opened again while an attempt waits, so there may be several.   *)
(***************************************************************************)
EXTENDS Integers

CONSTANT MaxAttempts   \* bound

VARIABLES
  attempts,  \* attempt -> [step, code]; the state sent to Google is its number
  popups,    \* the windows of Google, each with the attempt that opened it
  dialog,    \* Closed, Open, or the attempt it waits for
  item       \* localStorage: [response: an attempt, whose code is there; error]

oauthVars == <<attempts, popups, dialog, item>>

Attempts == 1 .. MaxAttempts
Nobody == -1
Closed == -1
Open == 0

OAuthInit ==
  /\ attempts = [i \in Attempts |-> [step |-> "none", code |-> Nobody]]
  /\ popups = {}
  /\ dialog = Closed
  /\ item = [response |-> Nobody, error |-> FALSE]

OpenDialog ==
  /\ dialog = Closed
  /\ dialog' = Open
  /\ UNCHANGED <<attempts, popups, item>>

\* Escape and a click outside close it while it waits, too.
CloseDialog ==
  /\ dialog # Closed
  /\ dialog' = Closed
  /\ UNCHANGED <<attempts, popups, item>>

\* The window is opened, and what earlier attempts have left is removed.
HandleConnect(i) ==
  /\ dialog = Open
  /\ attempts[i].step = "none" /\ \A j \in 1 .. i - 1 : attempts[j].step # "none"
  /\ dialog' = i
  /\ attempts' = [attempts EXCEPT ![i].step = "popup"]
  /\ popups' = popups \cup {i}
  /\ item' = [response |-> Nobody, error |-> FALSE]

\* The user agrees.  A message reaches every attempt that waits, and the one with
\* its state takes it; without an opener the code stays in localStorage.
HandleCallback(i) ==
  /\ i \in popups
  /\ popups' = popups \ {i}
  /\ \/ /\ attempts' = IF attempts[i].step = "popup"
                       THEN [attempts EXCEPT ![i] = [step |-> "exchange", code |-> i]]
                       ELSE attempts
        /\ item' = item
     \/ /\ item' = [item EXCEPT !.response = i]
        /\ attempts' = attempts
  /\ UNCHANGED dialog

\* The user refuses.  The error does not say whose it is.
HandleCallbackError(i) ==
  /\ i \in popups
  /\ popups' = popups \ {i}
  /\ item' = [item EXCEPT !.error = TRUE]
  /\ UNCHANGED <<attempts, dialog>>

\* The user closes the window: nobody is told.
ClosePopup(i) ==
  /\ i \in popups
  /\ popups' = popups \ {i}
  /\ UNCHANGED <<attempts, dialog, item>>

\* The promise is rejected; the dialog shows why, if it still waits for this one.
Reject(i) ==
  /\ attempts' = [attempts EXCEPT ![i].step = "over"]
  /\ dialog' = IF dialog = i THEN Open ELSE dialog

\* A bug that must be noticed: the state that came with the code is not compared.
TakeResponse_AnyState(i) ==
  /\ attempts[i].step = "popup" /\ item.response # Nobody /\ ~item.error
  /\ attempts' = [attempts EXCEPT ![i] = [step |-> "exchange", code |-> item.response]]
  /\ item' = [item EXCEPT !.response = Nobody]
  /\ popups' = popups \ {i}
  /\ UNCHANGED dialog

\* The check of localStorage every 500 ms: a code is for the attempt of its state,
TakeResponse(i) ==
  /\ attempts[i].step = "popup" /\ item.response = i /\ ~item.error
  /\ attempts' = [attempts EXCEPT ![i] = [step |-> "exchange", code |-> i]]
  /\ item' = [item EXCEPT !.response = Nobody]
  /\ popups' = popups \ {i}
  /\ UNCHANGED dialog

\* an error is taken by whoever looks first.
TakeError(i) ==
  /\ attempts[i].step = "popup" /\ item.error
  /\ Reject(i)
  /\ item' = [item EXCEPT !.error = FALSE]
  /\ popups' = popups \ {i}

\* A bug that must be noticed: no timer, and nothing else sees a window closed.
OAuthTimeout_Never(i) ==
  /\ FALSE
  /\ Reject(i) /\ UNCHANGED <<popups, item>>

OAuthTimeout(i) ==
  /\ attempts[i].step = "popup"
  /\ Reject(i)
  /\ popups' = popups \ {i}
  /\ UNCHANGED item

\* Google gives a token for the code if it gets the verifier that belongs to it.
\* The dialog that is open then closes, whichever attempt it waits for.
ExchangeDone(i) ==
  /\ attempts[i].step = "exchange" /\ attempts[i].code = i
  /\ attempts' = [attempts EXCEPT ![i].step = "over"]
  /\ dialog' = Closed
  /\ UNCHANGED <<popups, item>>

ExchangeFails(i) ==
  /\ attempts[i].step = "exchange"
  /\ Reject(i)
  /\ UNCHANGED <<popups, item>>

AttemptStep(i) ==
  TakeResponse(i) \/ TakeError(i) \/ OAuthTimeout(i) \/ ExchangeDone(i) \/ ExchangeFails(i)

OAuthNext ==
  \/ OpenDialog \/ CloseDialog
  \/ \E i \in Attempts : \/ HandleConnect(i) \/ HandleCallback(i) \/ HandleCallbackError(i)
                         \/ ClosePopup(i) \/ AttemptStep(i)

\* Timers run, and Google answers the exchange.
OAuthFairness == \A i \in Attempts : WF_oauthVars(AttemptStep(i))

-----------------------------------------------------------------------------
\* Only the attempt that asked for it exchanges a code, whichever windows are
\* open and however their codes come back.
CodeOfAttempt ==
  \A i \in Attempts : attempts[i].step = "exchange" => attempts[i].code = i

\* An attempt ends, although the user may do nothing, or close the window.
AttemptsEnd ==
  \A i \in Attempts : attempts[i].step = "popup" ~> attempts[i].step = "over"
==============================================================================
