------------------------------- MODULE BigQuery -------------------------------
(***************************************************************************)
(* The connection to BigQuery: the tokens, requests and metadata cache of     *)
(* BigQueryConnector, and what the streaming query service and the settings   *)
(* do to make, restore and end the connection.                                *)
(*                                                                           *)
(* Every attempt to connect makes a connector.  Google grants an attempt      *)
(* access at most once, so an attempt also names its grant.  Connector 0 is   *)
(* the one restored after a reload.  An access token is [grant, nr]; the      *)
(* clock may take it for expired, and Google may refuse it, each without the  *)
(* other.  A call is one request of a connector with the refresh before it    *)
(* and the retry after a 401; the credential store answers at once.  Google    *)
(* answers at some moment after a request is sent, the page hears it later:    *)
(* what is cached may be older than the moment it is cached.                   *)
(***************************************************************************)
EXTENDS Integers, FiniteSets

CONSTANTS
  Calls,         \* calls under way at a time
  Keys,          \* keys of the metadata cache
  MaxAttempts,   \* bound: attempts to connect
  MaxTokens,     \* bound: access tokens
  MaxVersion,    \* bound: changes of what is in BigQuery
  MaxReloads     \* bound: reloads of the page

ASSUME BigQueryAssumption ==
  /\ {MaxAttempts, MaxTokens, MaxVersion, MaxReloads} \subseteq Nat
  /\ {"query", "projectsAgain"} \cap Keys = {} /\ "projects" \in Keys

VARIABLES
  google,    \* [live: the grants, dead: the tokens refused, version, nr: tokens issued]
  aged,      \* the tokens whose expiry the clock has passed
  store,     \* localStorage: [token, config, auto]
  inst,      \* connector -> [token, cache]; history: [floor, late], the version when its
             \* cache was last cleared, and the keys whose entry was asked for before that
  service,   \* connectors.get("bigquery")
  attempts,  \* the calls of setupBigQuery: "none", "waiting", "over"
  revoking,  \* the connector that disconnectBigQuery awaits
  calls,     \* the calls under way; history: late, whether the cache was cleared since
  reloads,
  hurried,   \* history: a token was revoked, or given, with something else under way
  left       \* history: the user has disconnected, with nothing else under way

vars == <<google, aged, store, inst, service, attempts, revoking, calls,
          reloads, hurried, left>>
shell == <<attempts, reloads>>

Nobody == -1
NoToken == [grant |-> Nobody, nr |-> 0]
Attempts == 1 .. MaxAttempts
Grants == 0 .. MaxAttempts
Empty == [k \in Keys |-> 0]
New(token) == [token |-> token, cache |-> Empty, floor |-> 0, late |-> {}]

Token(grant) == [grant |-> grant, nr |-> google.nr + 1]
Issued == [google EXCEPT !.nr = @ + 1]
Trying == {i \in Attempts : attempts[i] = "waiting"}
Busy == calls # {} \/ Trying # {} \/ revoking # Nobody

\* isBigQueryConnected.
Connected == service # Nobody /\ inst[service].token # NoToken

Init ==
  /\ google = [live |-> {}, dead |-> {}, version |-> 1, nr |-> 0]
  /\ aged = {}
  /\ store = [token |-> NoToken, config |-> Nobody, auto |-> FALSE]
  /\ inst = [i \in Grants |-> New(NoToken)]
  /\ service = Nobody
  /\ attempts = [i \in Attempts |-> "none"]
  /\ revoking = Nobody
  /\ calls = {}
  /\ reloads = 0
  /\ hurried = FALSE
  /\ left = FALSE

-----------------------------------------------------------------------------
(* Connecting.  What happens between Setup and its end is module OAuth's. *)

\* setupBigQuery up to its first wait: the configuration is stored before
\* anybody knows whether it is of use.
Setup(i) ==
  /\ ~Connected
  /\ attempts[i] = "none" /\ \A j \in 1 .. i - 1 : attempts[j] # "none"
  /\ attempts' = [attempts EXCEPT ![i] = "waiting"]
  /\ store' = [store EXCEPT !.config = i]
  /\ hurried' = (hurried \/ Busy)
  /\ left' = FALSE
  /\ UNCHANGED <<google, aged, inst, service, revoking, calls, reloads>>

\* A bug that must be noticed: the connector keeps the token to itself.
SetupDone_NotStored(i) ==
  /\ attempts[i] = "waiting"
  /\ google.nr < MaxTokens
  /\ google' = [Issued EXCEPT !.live = @ \cup {i}]
  /\ inst' = [inst EXCEPT ![i] = New(Token(i))]
  /\ store' = [store EXCEPT !.auto = TRUE]
  /\ service' = i
  /\ attempts' = [attempts EXCEPT ![i] = "over"]
  /\ UNCHANGED <<aged, revoking, calls, reloads, hurried, left>>

\* Google gives a token for the code of its own verifier, and the service takes
\* the connector, whichever it has.
SetupDone(i) ==
  /\ attempts[i] = "waiting"
  /\ google.nr < MaxTokens
  /\ google' = [Issued EXCEPT !.live = @ \cup {i}]
  /\ inst' = [inst EXCEPT ![i] = New(Token(i))]
  /\ store' = [store EXCEPT !.token = Token(i), !.auto = TRUE]
  /\ service' = i
  /\ attempts' = [attempts EXCEPT ![i] = "over"]
  /\ UNCHANGED <<aged, revoking, calls, reloads, hurried, left>>

SetupFails(i) ==
  /\ attempts[i] = "waiting"
  /\ attempts' = [attempts EXCEPT ![i] = "over"]
  /\ UNCHANGED <<google, aged, store, inst, service, revoking, calls, reloads, hurried, left>>

\* restoreBigQueryConnection, when the page starts with bigquery-auto-connect on.
Restorable == store.auto /\ store.config # Nobody /\ store.token # NoToken

Reload ==
  /\ reloads < MaxReloads /\ reloads' = reloads + 1
  /\ inst' = [i \in Grants |-> New(IF i = 0 /\ Restorable THEN store.token ELSE NoToken)]
  /\ service' = IF Restorable THEN 0 ELSE Nobody
  /\ attempts' = [i \in Attempts |-> IF i \in Trying THEN "over" ELSE attempts[i]]
  /\ revoking' = Nobody /\ calls' = {}
  /\ hurried' = (hurried \/ Busy)
  /\ UNCHANGED <<google, aged, store, left>>

SetAutoConnect ==
  /\ Connected
  /\ store' = [store EXCEPT !.auto = ~@]
  /\ UNCHANGED <<google, aged, inst, service, revoking, calls, hurried, left, shell>>

-----------------------------------------------------------------------------
(* Disconnecting. *)

\* A connector without a token revokes nothing and clears nothing.
Disconnect ==
  /\ service # Nobody /\ revoking = Nobody
  /\ revoking' = service
  /\ hurried' = (hurried \/ Busy)
  /\ UNCHANGED <<google, aged, store, inst, service, calls, left, shell>>

\* A bug that must be noticed: the token is forgotten and not deleted.
Revoked_KeepsStored ==
  /\ revoking # Nobody
  /\ google' \in {google, [google EXCEPT !.live = @ \ {inst[revoking].token.grant}]}
  /\ inst' = [inst EXCEPT ![revoking] = New(NoToken)]
  /\ store' = [store EXCEPT !.config = Nobody]
  /\ service' = Nobody
  /\ revoking' = Nobody
  /\ left' = (calls = {} /\ Trying = {})
  /\ hurried' = (hurried \/ calls # {} \/ Trying # {})
  /\ UNCHANGED <<aged, calls, shell>>

\* The rest of disconnectBigQuery.  Google may not have heard of it; the cached
\* default project stays, in memory and in the store.
Revoked ==
  /\ revoking # Nobody
  /\ google' \in {google, [google EXCEPT !.live = @ \ {inst[revoking].token.grant}]}
  /\ inst' = [inst EXCEPT ![revoking] = New(NoToken)]
  /\ store' = [store EXCEPT !.token = NoToken, !.config = Nobody]
  /\ service' = Nobody
  /\ revoking' = Nobody
  /\ left' = (calls = {} /\ Trying = {})
  /\ hurried' = (hurried \/ calls # {} \/ Trying # {})
  /\ UNCHANGED <<aged, calls, shell>>

-----------------------------------------------------------------------------
(* Time, and what others do. *)

Others == <<store, inst, service, revoking, calls, hurried, left, shell>>

TokenAges ==
  /\ Connected
  /\ aged' = aged \cup {inst[service].token.nr}
  /\ UNCHANGED <<google, Others>>

TokenDies ==
  /\ Connected
  /\ google' = [google EXCEPT !.dead = @ \cup {inst[service].token.nr}]
  /\ UNCHANGED <<aged, Others>>

WorldChanges ==
  /\ google.version < MaxVersion
  /\ google' = [google EXCEPT !.version = @ + 1]
  /\ UNCHANGED <<aged, Others>>

-----------------------------------------------------------------------------
(* Calls. *)

\* loadToken: the token in memory, or else the stored one, which it keeps there.
LoadToken(i) == IF inst[i].token # NoToken THEN inst[i].token ELSE store.token

\* What the answer to a request for metadata is of, at the earliest.
Now(op) == IF op = "query" THEN 0 ELSE google.version

\* ensureFreshToken asks for a new token when the clock says so.
Begun(d, token, plain, refresh) ==
  [d EXCEPT !.tk = token, !.live = token.grant \in google.live, !.since = Now(d.op),
            !.step = IF token.nr \in aged THEN refresh ELSE plain]
First(d, token) == Begun(d, token, "fetch", "refresh")
Again(d, token) == Begun(d, token, "retry", "refreshAgain")

CanSend(c) ==
  /\ service # Nobody
  /\ c \notin {d.id : d \in calls}
  /\ LoadToken(service) # NoToken

Send(c, op) ==
  calls' = calls \cup {First([id |-> c, of |-> service, op |-> op, step |-> "fetch",
                              tk |-> NoToken, live |-> FALSE, since |-> 0, empty |-> 0,
                              late |-> FALSE], LoadToken(service))}

Became(d, e) == calls' = (calls \ {d}) \cup {e}
Over(d) == calls' = calls \ {d}

\* listProjects, listDatasets, listTables and getTableMetadata: cached, or asked for.
ListMetadata(c, k) ==
  /\ CanSend(c)
  /\ inst[service].cache[k] = 0
  /\ Send(c, k)
  /\ inst' = [inst EXCEPT ![service].token = LoadToken(service)]
  /\ UNCHANGED <<google, aged, store, service, revoking, hurried, left, shell>>

\* A query, an estimate of its cost, or a test of the connection.
Ask(c) ==
  /\ CanSend(c)
  /\ Send(c, "query")
  /\ inst' = [inst EXCEPT ![service].token = LoadToken(service)]
  /\ UNCHANGED <<google, aged, store, service, revoking, hurried, left, shell>>

\* History: what is asked for from now on is that new.
Cleared(x) == [x EXCEPT !.floor = google.version, !.late = {}]
MarkLate == calls' = {[d EXCEPT !.late = @ \/ (d.of = service /\ d.op # "query")] : d \in calls}

\* A bug that must be noticed: only the tree forgets what it has shown.
ClearCache_NotConnector ==
  /\ service # Nobody
  /\ inst' = [inst EXCEPT ![service] = Cleared(@)]
  /\ MarkLate
  /\ UNCHANGED <<google, aged, store, service, revoking, hurried, left, shell>>

\* Clear Cache, in the settings.  The requests under way are left alone.
ClearCache ==
  /\ service # Nobody
  /\ inst' = [inst EXCEPT ![service] = Cleared([@ EXCEPT !.cache = Empty])]
  /\ MarkLate
  /\ UNCHANGED <<google, aged, store, service, revoking, hurried, left, shell>>

\* After five minutes an entry is not found.
CacheExpires(k) ==
  /\ service # Nobody /\ inst[service].cache[k] # 0
  /\ inst' = [inst EXCEPT ![service].cache[k] = 0, ![service].late = @ \ {k}]
  /\ UNCHANGED <<google, aged, store, service, revoking, calls, hurried, left, shell>>

-----------------------------------------------------------------------------
(* Answers. *)

\* Google refreshes a token as long as its grant lives; the answer may come
\* after the grant has been revoked.
Refreshed(d) ==
  /\ d.step \in {"refresh", "refreshAgain"}
  /\ d.live /\ google.nr < MaxTokens
  /\ LET token == Token(d.tk.grant)
     IN /\ google' = Issued
        /\ inst' = [inst EXCEPT ![d.of].token = token]
        /\ store' = [store EXCEPT !.token = token]
        /\ Became(d, [d EXCEPT !.tk = token, !.since = Now(d.op),
                               !.step = IF @ = "refresh" THEN "fetch" ELSE "retry"])
  /\ UNCHANGED <<aged, service, revoking, hurried, left, shell>>

\* A connector that has an answer of that version for a key.
WithEntry(x, d, k, version) ==
  [x EXCEPT !.cache[k] = version, !.late = IF d.late THEN @ \cup {k} ELSE @ \ {k}]
Cached(d, k, version) == inst' = [inst EXCEPT ![d.of] = WithEntry(@, d, k, version)]

\* An answer, of some moment since the request was sent.  If there are no projects in
\* it, BigQuery itself is asked for them.
Answered(d) ==
  /\ d.step \in {"fetch", "retry"}
  /\ d.live /\ d.tk.nr \notin google.dead
  /\ \E version \in d.since .. google.version :
       \/ d.op \in Keys /\ Cached(d, d.op, version) /\ Over(d)
       \/ /\ d.op = "projects" /\ LoadToken(d.of) # NoToken
          /\ Became(d, First([d EXCEPT !.op = "projectsAgain", !.empty = version], LoadToken(d.of)))
          /\ inst' = inst
       \/ d.op = "projectsAgain" /\ Cached(d, "projects", version) /\ Over(d)
       \/ d.op = "query" /\ inst' = inst /\ Over(d)
  /\ UNCHANGED <<google, aged, store, service, revoking, hurried, left, shell>>

\* A call that has failed is over; if it is the second one for the projects, that there
\* are none is cached.
Failed(d, x) == IF d.op = "projectsAgain" THEN WithEntry(x, d, "projects", d.empty) ELSE x

\* 401: the token in memory is dropped, and what is stored is loaded again.
Unauthorized(d) ==
  /\ d.step \in {"fetch", "retry"}
  /\ d.tk.nr \in google.dead \/ d.tk.grant \notin google.live
  /\ LET x == [inst[d.of] EXCEPT !.token = IF d.step = "fetch" THEN store.token ELSE @]
     IN \/ /\ d.step = "fetch" /\ store.token # NoToken
           /\ inst' = [inst EXCEPT ![d.of] = x]
           /\ Became(d, Again(d, store.token))
        \/ /\ d.step = "retry" \/ store.token = NoToken
           /\ inst' = [inst EXCEPT ![d.of] = Failed(d, x)]
           /\ Over(d)
  /\ UNCHANGED <<google, aged, store, service, revoking, hurried, left, shell>>

\* Any other error, of the refresh or of the request.
CallFails(d) ==
  /\ inst' = [inst EXCEPT ![d.of] = Failed(d, @)]
  /\ Over(d)
  /\ UNCHANGED <<google, aged, store, service, revoking, hurried, left, shell>>

CallStep(c) ==
  \E d \in calls :
    /\ d.id = c
    /\ Refreshed(d) \/ Answered(d) \/ Unauthorized(d) \/ CallFails(d)

-----------------------------------------------------------------------------
SetupStep(i) == SetupDone(i) \/ SetupFails(i)

Next ==
  \/ \E i \in Attempts : Setup(i) \/ SetupStep(i)
  \/ Reload \/ SetAutoConnect
  \/ Disconnect \/ Revoked
  \/ TokenAges \/ TokenDies \/ WorldChanges
  \/ \E c \in Calls : Ask(c) \/ CallStep(c) \/ \E k \in Keys : ListMetadata(c, k)
  \/ ClearCache \/ \E k \in Keys : CacheExpires(k)

\* Every attempt ends, and every request is answered or fails.
Spec ==
  /\ Init /\ [][Next]_vars
  /\ \A i \in Attempts : WF_vars(SetupStep(i))
  /\ \A c \in Calls : WF_vars(CallStep(c))
  /\ WF_vars(Revoked)

-----------------------------------------------------------------------------
(* Properties. *)

Tokens == [grant : Grants, nr : 1 .. MaxTokens]

TypeOK ==
  /\ google.live \subseteq Grants /\ google.nr \in 0 .. MaxTokens
  /\ store.token \in Tokens \cup {NoToken} /\ store.config \in Attempts \cup {Nobody}
  /\ service \in Grants \cup {Nobody} /\ revoking \in Grants \cup {Nobody}
  /\ \A d \in calls : d.id \in Calls /\ d.of \in Grants /\ d.tk \in Tokens

\* Whoever reloads the page has the connection the page had: memory and storage
\* agree on the token, and the configuration stored is that of its grant.
RestoreFindsIt ==
  (Connected /\ ~hurried /\ Trying = {} /\ revoking = Nobody) =>
    /\ inst[service].token = store.token
    /\ store.config = store.token.grant

\* After a disconnect nothing of the connection is left, and no reload brings it
\* back.
LeftMeansGone ==
  left => /\ ~Connected
          /\ store.token = NoToken /\ store.config = Nobody

\* Memory, storage and the configuration agree while nothing is under way.
ConnectionKept == TypeOK /\ RestoreFindsIt

\* Who clears the cache finds nothing in it afterwards that is older than the clear, but
\* for the late answer to what was asked for before it: clear() does not stop it.
ClearedIsGone ==
  \A i \in Grants, k \in Keys :
    inst[i].cache[k] # 0 /\ k \notin inst[i].late => inst[i].cache[k] >= inst[i].floor

\* What was left or cleared is gone.
GoneIsGone == LeftMeansGone /\ ClearedIsGone
==============================================================================
