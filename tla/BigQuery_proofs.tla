--------------------------- MODULE BigQuery_proofs ---------------------------
(***************************************************************************)
(* Proofs about BigQuery, for any number of calls, keys, attempts, tokens and *)
(* reloads: what is kept of a connection is the connection, and what was left *)
(* or cleared is gone; and about the window, the query, the imported tables   *)
(* and the list of connections MCBigQuery puts beside it, for any number of   *)
(* attempts, rows, tables and connections.                                    *)
(***************************************************************************)
EXTENDS MCBigQuery, SequenceTheorems, TLAPS

-----------------------------------------------------------------------------
(* The inductive invariant, by parts. *)

TokenOrNone == Tokens \cup {NoToken}
Ops == Keys \cup {"query", "projectsAgain"}
Steps == {"fetch", "refresh", "retry", "refreshAgain"}

Google == [live : SUBSET Grants, dead : SUBSET Nat, version : Nat,
           nr : 0 .. MaxTokens]
Store == [token : TokenOrNone, config : Attempts \cup {Nobody}, auto : BOOLEAN]
Connector == [token : TokenOrNone, cache : [Keys -> Nat], floor : Nat, late : SUBSET Keys]
Call == [id : Calls, of : Grants, op : Ops, step : Steps, tk : Tokens,
         live : BOOLEAN, since : Nat, empty : Nat, late : BOOLEAN]

Types ==
  /\ google \in Google
  /\ store \in Store
  /\ inst \in [Grants -> Connector]
  /\ service \in Grants \cup {Nobody}
  /\ attempts \in [Attempts -> {"none", "waiting", "over"}]
  /\ revoking \in Grants \cup {Nobody}
  /\ calls \in SUBSET Call

\* What a connector has cached, and what it may yet cache, is as new as what its cache
\* was cleared of, but for what was asked for before that.
CacheFresh(x) == \A k \in Keys : x.cache[k] # 0 /\ k \notin x.late => x.cache[k] >= x.floor
AsNew(d, floor) ==
  d.op # "query" => d.late \/ (d.since >= floor /\ (d.op = "projectsAgain" => d.empty >= floor))

Recent ==
  /\ \A i \in Grants : inst[i].floor <= google.version /\ CacheFresh(inst[i])
  /\ \A d \in calls : AsNew(d, inst[d.of].floor)

\* Who has left is alone with an empty store.
Alone ==
  left => /\ service = Nobody /\ revoking = Nobody /\ calls = {} /\ Trying = {}
          /\ store.token = NoToken /\ store.config = Nobody

\* An attempt that hurries nobody is the only thing under way.
OneThing ==
  /\ \A i \in Trying : /\ store.config = i
                       /\ \A j \in Trying : j = i
  /\ Trying # {} => service = Nobody /\ calls = {} /\ revoking = Nobody

\* Memory, storage and the calls under way agree on the grant.
Agreed ==
  /\ service # Nobody => /\ inst[service].token = store.token
                         /\ store.token # NoToken
                         /\ store.config = store.token.grant
  /\ service = Nobody => store.token = NoToken \/ ~store.auto
  /\ store.token # NoToken => store.config # Nobody
  /\ \A d \in calls : d.of = service /\ d.tk.grant = store.config
  /\ calls # {} => service # Nobody
  /\ revoking # Nobody => revoking = service

IInv == Types /\ Recent /\ Alone /\ (~hurried => OneThing /\ Agreed)

-----------------------------------------------------------------------------
LEMMA BoundsFacts ==
  /\ MaxTokens \in Nat /\ MaxAttempts \in Nat
  /\ Nobody \notin Grants /\ Attempts \subseteq Grants /\ 0 \in Grants
  /\ NoToken \notin Tokens /\ Nobody \notin Attempts
BY BigQueryAssumption DEF Nobody, Grants, Attempts, NoToken, Tokens

LEMMA NewFacts ==
  ASSUME NEW t \in TokenOrNone
  PROVE  /\ New(t) \in Connector /\ New(t).token = t /\ New(t).floor = 0
         /\ \A k \in Keys : New(t).cache[k] = 0
         /\ CacheFresh(New(t))
BY DEF New, Connector, Empty, CacheFresh

\* Of a cache that was never cleared nothing is asked.
LEMMA NeverCleared == \A d \in Call : AsNew(d, 0)
BY DEF Call, AsNew

\* The next token of a grant.
LEMMA TokenFacts ==
  ASSUME Types, google.nr < MaxTokens, NEW g \in Grants
  PROVE  /\ Token(g) \in Tokens /\ Token(g) # NoToken /\ Token(g).grant = g
         /\ Issued \in Google
         /\ Issued.version = google.version /\ Issued.live = google.live
<1>1. google.nr + 1 \in 1 .. MaxTokens /\ google.nr + 1 \in 0 .. MaxTokens
  BY BoundsFacts DEF Types, Google
<1>2. Token(g) \in Tokens /\ Token(g).grant = g
  BY <1>1 DEF Token, Tokens
<1> QED BY <1>1, <1>2, BoundsFacts DEF Types, Google, Issued

LEMMA InitIInv == Init => IInv
<1> SUFFICES ASSUME Init PROVE IInv
  OBVIOUS
<1>1. NoToken \in TokenOrNone
  BY DEF TokenOrNone
<1>2. Types
  BY <1>1, BoundsFacts, NewFacts DEF Init, Types, Google, Store
<1>3. Recent
  BY <1>1, NewFacts DEF Init, Recent
<1>4. Trying = {}
  BY DEF Init, Trying
<1>5. Alone /\ OneThing /\ Agreed
  BY <1>4 DEF Init, Alone, OneThing, Agreed
<1> QED BY <1>2, <1>3, <1>5 DEF IInv

\* Steps that change nothing of a connection.
LEMMA Frame ==
  ASSUME IInv, UNCHANGED <<store, inst, service, attempts, revoking, calls,
                           hurried, left>>,
         google' \in Google, google'.version >= google.version
  PROVE  IInv'
<1>1. Types' /\ Trying' = Trying
  BY DEF IInv, Types, Trying
<1>2. Recent'
  BY <1>1 DEF IInv, Recent, Types, Google, Connector
<1> QED BY <1>1, <1>2 DEF IInv, Alone, OneThing, Agreed

-----------------------------------------------------------------------------
(* Connecting and disconnecting. *)

LEMMA SetupStepInv ==
  ASSUME IInv, NEW i \in Attempts, Setup(i)
  PROVE  IInv'
<1>0. /\ Types /\ attempts \in [Attempts -> {"none", "waiting", "over"}]
      /\ UNCHANGED <<google, inst, service, revoking, calls>>
      /\ attempts' = [attempts EXCEPT ![i] = "waiting"] /\ attempts[i] = "none"
      /\ store' = [store EXCEPT !.config = i]
      /\ hurried' = (hurried \/ Busy) /\ ~left'
  BY DEF IInv, Types, Setup
<1>1. store' \in Store /\ store'.token = store.token /\ store'.config = i
      /\ store'.auto = store.auto
  BY <1>0 DEF Types, Store
<1>2. Types'
  BY <1>0, <1>1 DEF Types
<1>3. Recent' /\ Alone'
  BY <1>0 DEF IInv, Recent, Alone
<1>4. ASSUME ~hurried' PROVE OneThing' /\ Agreed'
  <2>1. ~hurried /\ calls = {} /\ Trying = {} /\ revoking = Nobody
    BY <1>0, <1>4 DEF Busy
  <2>2. Trying' = {i}
    BY <1>0, <2>1 DEF Trying
  <2>3. service = Nobody
    BY <2>1 DEF IInv, Agreed, Setup, Connected
  <2>4. OneThing'
    BY <1>0, <1>1, <2>1, <2>2, <2>3 DEF OneThing
  <2>5. Agreed'
    BY <1>0, <1>1, <2>1, <2>3, BoundsFacts DEF IInv, Agreed
  <2> QED BY <2>4, <2>5
<1> QED BY <1>2, <1>3, <1>4 DEF IInv

LEMMA SetupDoneInv ==
  ASSUME IInv, NEW i \in Attempts, SetupDone(i)
  PROVE  IInv'
<1>0. /\ Types /\ attempts \in [Attempts -> {"none", "waiting", "over"}]
      /\ UNCHANGED <<revoking, calls, hurried, left>>
      /\ attempts[i] = "waiting" /\ attempts' = [attempts EXCEPT ![i] = "over"]
      /\ google.nr < MaxTokens
      /\ google' = [Issued EXCEPT !.live = @ \cup {i}]
      /\ inst' = [inst EXCEPT ![i] = New(Token(i))]
      /\ store' = [store EXCEPT !.token = Token(i), !.auto = TRUE]
      /\ service' = i /\ i \in Grants
  BY BoundsFacts DEF IInv, Types, SetupDone
<1>1. /\ Token(i) \in Tokens /\ Token(i) # NoToken /\ Token(i).grant = i
      /\ Issued \in Google /\ Issued.version = google.version
      /\ Issued.live = google.live
  BY <1>0, TokenFacts
<1>2. google' \in Google /\ google'.version = google.version
  BY <1>0, <1>1 DEF Google
<1>3. /\ store' \in Store /\ store'.token = Token(i)
      /\ store'.config = store.config
  BY <1>0, <1>1 DEF Types, Store, TokenOrNone
<1>4. New(Token(i)) \in Connector /\ New(Token(i)).token = Token(i)
      /\ New(Token(i)).floor = 0 /\ CacheFresh(New(Token(i)))
  BY <1>1, NewFacts DEF TokenOrNone
<1>5. /\ inst' \in [Grants -> Connector] /\ inst'[i] = New(Token(i))
      /\ \A j \in Grants : j # i => inst'[j] = inst[j]
  BY <1>0, <1>4 DEF Types
<1>6. Types'
  BY <1>0, <1>2, <1>3, <1>5 DEF Types
<1>7. Recent'
  <2>1. google.version \in Nat /\ \A d \in calls : d \in Call
    BY DEF IInv, Types, Google
  <2>2. \A d \in calls : AsNew(d, 0)
    BY <2>1, NeverCleared
  <2> QED BY <1>0, <1>2, <1>4, <1>5, <2>1, <2>2 DEF IInv, Recent, Call
<1>8. i \in Trying
  BY <1>0 DEF Trying
<1>9. Alone'
  BY <1>0, <1>8 DEF IInv, Alone
<1>10. ASSUME ~hurried' PROVE OneThing' /\ Agreed'
  <2>1. /\ store.config = i /\ \A j \in Trying : j = i
        /\ calls = {} /\ revoking = Nobody
    BY <1>0, <1>8, <1>10 DEF IInv, OneThing
  <2>2. Trying' = {}
    BY <1>0, <2>1 DEF Trying
  <2> QED BY <1>0, <1>1, <1>3, <1>4, <1>5, <2>1, <2>2, BoundsFacts
          DEF OneThing, Agreed
<1> QED BY <1>6, <1>7, <1>9, <1>10 DEF IInv

LEMMA SetupFailsInv ==
  ASSUME IInv, NEW i \in Attempts, SetupFails(i)
  PROVE  IInv'
<1>0. /\ Types /\ attempts \in [Attempts -> {"none", "waiting", "over"}]
      /\ UNCHANGED <<google, store, inst, service, revoking, calls, hurried, left>>
      /\ attempts' = [attempts EXCEPT ![i] = "over"]
  BY DEF IInv, Types, SetupFails
<1>1. Trying' \subseteq Trying
  BY <1>0 DEF Trying
<1>2. Types' /\ Recent' /\ Alone'
  BY <1>0, <1>1 DEF IInv, Types, Recent, Alone
<1>3. OneThing => OneThing'
  BY <1>0, <1>1 DEF OneThing
<1>4. Agreed => Agreed'
  BY <1>0 DEF Agreed
<1> QED BY <1>0, <1>2, <1>3, <1>4 DEF IInv

LEMMA ReloadInv ==
  ASSUME IInv, Reload
  PROVE  IInv'
<1>0. /\ Types /\ attempts \in [Attempts -> {"none", "waiting", "over"}]
      /\ UNCHANGED <<google, store, left>>
      /\ inst' = [i \in Grants |->
                    New(IF i = 0 /\ Restorable THEN store.token ELSE NoToken)]
      /\ service' = IF Restorable THEN 0 ELSE Nobody
      /\ attempts' = [i \in Attempts |->
                        IF i \in Trying THEN "over" ELSE attempts[i]]
      /\ revoking' = Nobody /\ calls' = {}
      /\ hurried' = (hurried \/ Busy)
  BY DEF IInv, Types, Reload
<1>1. Trying' = {}
  BY <1>0 DEF Trying
<1>2. store.token \in TokenOrNone /\ NoToken \in TokenOrNone
  BY <1>0 DEF Types, Store, TokenOrNone
<1>3. /\ inst' \in [Grants -> Connector]
      /\ Restorable => inst'[0].token = store.token
      /\ \A i \in Grants : inst'[i].floor = 0 /\ CacheFresh(inst'[i])
  BY <1>0, <1>2, NewFacts, BoundsFacts
<1>4. Types'
  BY <1>0, <1>3, BoundsFacts DEF Types
<1>5. Recent'
  BY <1>0, <1>3 DEF Recent, Types, Google
<1>6. Alone'
  BY <1>0, <1>1 DEF IInv, Alone, Restorable
<1>7. ASSUME ~hurried' PROVE OneThing' /\ Agreed'
  <2>1. Agreed
    BY <1>0, <1>7 DEF IInv
  <2>2. Restorable => service # Nobody
    BY <2>1 DEF Agreed, Restorable
  <2>3. ~Restorable => store.token = NoToken \/ ~store.auto
    BY <2>1 DEF Agreed, Restorable
  <2> QED BY <1>0, <1>1, <1>3, <2>1, <2>2, <2>3, BoundsFacts
          DEF OneThing, Agreed, Restorable
<1> QED BY <1>4, <1>5, <1>6, <1>7 DEF IInv

LEMMA SetAutoConnectInv ==
  ASSUME IInv, SetAutoConnect
  PROVE  IInv'
<1>0. /\ Types /\ service # Nobody
      /\ UNCHANGED <<google, inst, service, revoking, calls, hurried, left, attempts>>
      /\ store' = [store EXCEPT !.auto = ~@]
  BY DEF IInv, SetAutoConnect, Connected, shell
<1>1. store' \in Store /\ store'.token = store.token
      /\ store'.config = store.config
  BY <1>0 DEF Types, Store
<1>2. Types' /\ Recent' /\ Trying' = Trying
  BY <1>0, <1>1 DEF IInv, Types, Recent, Trying
<1>3. Alone' /\ (OneThing => OneThing') /\ (Agreed => Agreed')
  BY <1>0, <1>1, <1>2 DEF IInv, Alone, OneThing, Agreed
<1> QED BY <1>0, <1>2, <1>3 DEF IInv

LEMMA DisconnectInv ==
  ASSUME IInv, Disconnect
  PROVE  IInv'
<1>0. /\ Types /\ service # Nobody /\ revoking = Nobody /\ revoking' = service
      /\ UNCHANGED <<google, store, inst, service, calls, left, attempts>>
      /\ hurried' = (hurried \/ Busy)
  BY DEF IInv, Disconnect, shell
<1>1. Types' /\ Recent' /\ Trying' = Trying
  BY <1>0 DEF IInv, Types, Recent, Trying
<1>2. Alone'
  BY <1>0 DEF IInv, Alone
<1>3. ASSUME ~hurried' PROVE OneThing' /\ Agreed'
  <2>1. Trying = {} /\ OneThing /\ Agreed
    BY <1>0, <1>3 DEF Busy, IInv
  <2> QED BY <1>0, <1>1, <2>1 DEF OneThing, Agreed
<1> QED BY <1>1, <1>2, <1>3 DEF IInv

LEMMA RevokedInv ==
  ASSUME IInv, Revoked
  PROVE  IInv'
<1>0. /\ Types /\ revoking \in Grants
      /\ google' \in {google, [google EXCEPT !.live = @ \ {inst[revoking].token.grant}]}
      /\ inst' = [inst EXCEPT ![revoking] = New(NoToken)]
      /\ store' = [store EXCEPT !.token = NoToken, !.config = Nobody]
      /\ service' = Nobody /\ revoking' = Nobody
      /\ left' = (calls = {} /\ Trying = {})
      /\ hurried' = (hurried \/ calls # {} \/ Trying # {})
      /\ UNCHANGED <<calls, attempts>>
  BY DEF IInv, Types, Revoked, shell
<1>1. google' \in Google /\ google'.version = google.version
  BY <1>0 DEF Types, Google
<1>2. store' \in Store /\ store'.token = NoToken /\ store'.config = Nobody
  BY <1>0 DEF Types, Store, TokenOrNone
<1>3. New(NoToken) \in Connector /\ New(NoToken).floor = 0 /\ CacheFresh(New(NoToken))
  BY NewFacts DEF TokenOrNone
<1>4. /\ inst' \in [Grants -> Connector] /\ inst'[revoking] = New(NoToken)
      /\ \A j \in Grants : j # revoking => inst'[j] = inst[j]
  BY <1>0, <1>3 DEF Types
<1>5. Types' /\ Trying' = Trying
  BY <1>0, <1>1, <1>2, <1>4 DEF Types, Trying
<1>6. Recent'
  <2>1. google.version \in Nat /\ \A d \in calls : d \in Call
    BY DEF IInv, Types, Google
  <2>2. \A d \in calls : AsNew(d, 0)
    BY <2>1, NeverCleared
  <2> QED BY <1>0, <1>1, <1>3, <1>4, <2>1, <2>2 DEF IInv, Recent, Call
<1>7. Alone'
  BY <1>0, <1>2, <1>5 DEF Alone
<1>8. ASSUME ~hurried' PROVE OneThing' /\ Agreed'
  BY <1>0, <1>2, <1>5, <1>8 DEF OneThing, Agreed
<1> QED BY <1>5, <1>6, <1>7, <1>8 DEF IInv

LEMMA OthersInv ==
  ASSUME IInv, TokenAges \/ TokenDies \/ WorldChanges
  PROVE  IInv'
<1>0. UNCHANGED <<store, inst, service, attempts, revoking, calls, hurried, left>>
  BY DEF TokenAges, TokenDies, WorldChanges, Others, shell
<1>1. google' \in Google /\ google'.version >= google.version
  <2>0. google \in Google /\ google.version \in Nat
    BY DEF IInv, Types, Google
  <2>1. CASE TokenAges
    BY <2>0, <2>1 DEF TokenAges
  <2>2. CASE TokenDies
    <3>1. inst[service].token.nr \in Nat
      <4>1. service \in Grants
        BY <2>2 DEF IInv, Types, TokenDies, Connected
      <4>2. inst[service] \in Connector
        BY <4>1 DEF IInv, Types
      <4>3. inst[service].token \in TokenOrNone
        BY <4>2 DEF Connector
      <4> QED BY <4>3, BoundsFacts DEF TokenOrNone, Tokens, NoToken
    <3> QED BY <2>0, <2>2, <3>1 DEF TokenDies, Google
  <2>3. CASE WorldChanges
    BY <2>0, <2>3 DEF WorldChanges, Google
  <2> QED BY <2>1, <2>2, <2>3
<1> QED BY <1>0, <1>1, Frame

-----------------------------------------------------------------------------
(* Calls. *)

LEMMA LoadTokenFacts ==
  ASSUME IInv, NEW i \in Grants
  PROVE  /\ LoadToken(i) \in TokenOrNone
         /\ ~hurried /\ i = service => LoadToken(i) = store.token
<1>1. inst[i] \in Connector /\ store \in Store
  BY DEF IInv, Types
<1>2. inst[i].token \in TokenOrNone /\ store.token \in TokenOrNone
  BY <1>1 DEF Connector, Store
<1>3. ~hurried /\ i = service => inst[i].token = store.token
  BY BoundsFacts DEF IInv, Agreed
<1> QED BY <1>2, <1>3 DEF LoadToken

\* A call that goes on has the token it goes on with.
Pending == [id : Calls, of : Grants, op : Ops, step : Steps, tk : TokenOrNone,
            live : BOOLEAN, since : Nat, empty : Nat, late : BOOLEAN]

LEMMA NowFacts ==
  ASSUME IInv, NEW op
  PROVE  Now(op) \in Nat /\ google.version \in Nat /\ (op # "query" => Now(op) = google.version)
BY DEF IInv, Types, Google, Now

LEMMA CallFacts ==
  ASSUME IInv, NEW d \in Pending, NEW t \in Tokens, NEW p \in Steps, NEW r \in Steps
  PROVE  /\ Begun(d, t, p, r) \in Call /\ Begun(d, t, p, r).of = d.of
         /\ Begun(d, t, p, r).tk = t
         /\ \A f \in Nat : f <= google.version /\ (d.op = "projectsAgain" => d.late \/ d.empty >= f)
              => AsNew(Begun(d, t, p, r), f)
<1> DEFINE l == t.grant \in google.live
           s == IF t.nr \in aged THEN r ELSE p
           n == Now(d.op)
           e == [d EXCEPT !.tk = t, !.live = l, !.since = n, !.step = s]
<1>1. Begun(d, t, p, r) = e
  BY DEF Begun
<1>2. l \in BOOLEAN /\ s \in Steps
  OBVIOUS
<1>3. n \in Nat /\ (d.op # "query" => n = google.version)
  BY NowFacts
<1> HIDE DEF l, s, n
<1>4. /\ e \in Call /\ e.of = d.of /\ e.tk = t
      /\ e.op = d.op /\ e.since = n /\ e.empty = d.empty /\ e.late = d.late
  BY <1>2, <1>3 DEF Pending, Call
<1> HIDE DEF e
<1> QED BY <1>1, <1>3, <1>4, NowFacts DEF AsNew

\* A connector's part of the state changes: what is to be shown of it.
LEMMA ConnectorSteps ==
  ASSUME IInv, NEW i \in Grants, NEW x \in Connector,
         inst' = [inst EXCEPT ![i] = x], x.floor <= google.version, CacheFresh(x),
         \A d \in calls' : /\ d.of \in Grants
                           /\ AsNew(d, IF d.of = i THEN x.floor ELSE inst[d.of].floor),
         google' \in Google, google'.version = google.version
  PROVE  /\ inst' \in [Grants -> Connector] /\ Recent' /\ inst'[i] = x
         /\ \A j \in Grants : j # i => inst'[j] = inst[j]
<1>1. /\ inst' \in [Grants -> Connector] /\ inst'[i] = x
      /\ \A j \in Grants : j # i => inst'[j] = inst[j]
  BY DEF IInv, Types
<1>2. ASSUME NEW d \in calls' PROVE AsNew(d, inst'[d.of].floor)
  BY <1>1
<1>3. ASSUME NEW j \in Grants PROVE inst'[j].floor <= google'.version /\ CacheFresh(inst'[j])
  <2>1. CASE j = i
    BY <1>1, <2>1
  <2>2. CASE j # i
    BY <1>1, <2>2 DEF IInv, Recent
  <2> QED BY <2>1, <2>2
<1> QED BY <1>1, <1>2, <1>3 DEF Recent

LEMMA SendInv ==
  ASSUME IInv, NEW c \in Calls, NEW op \in Keys \cup {"query"}, CanSend(c), Send(c, op),
         inst' = [inst EXCEPT ![service].token = LoadToken(service)],
         UNCHANGED <<google, store, service, revoking, hurried, left, attempts>>
  PROVE  IInv'
<1> DEFINE t == LoadToken(service)
           d == [id |-> c, of |-> service, op |-> op, step |-> "fetch",
                 tk |-> NoToken, live |-> FALSE, since |-> 0, empty |-> 0, late |-> FALSE]
           x == [inst[service] EXCEPT !.token = t]
           f == inst[service].floor
<1>0. service \in Grants /\ Types /\ t \in Tokens /\ ~left
  BY LoadTokenFacts DEF IInv, Types, Alone, CanSend, TokenOrNone
<1>1. inst[service] \in Connector /\ f \in Nat /\ f <= google.version
      /\ CacheFresh(inst[service])
  BY <1>0 DEF IInv, Recent, Types, Connector
<1> HIDE DEF t
<1>2. First(d, t) \in Call /\ First(d, t).of = service /\ First(d, t).tk = t
      /\ AsNew(First(d, t), f)
  <2>1. d \in Pending /\ d.op # "projectsAgain" /\ d.of = service
    BY <1>0, BigQueryAssumption DEF Pending, Steps, TokenOrNone, Ops
  <2> HIDE DEF d, f
  <2> QED BY <1>0, <1>1, <2>1, CallFacts DEF First, Steps
<1>3. calls' = calls \cup {First(d, t)}
  BY DEF Send, t
<1>4. x \in Connector /\ x.floor = f /\ x.cache = inst[service].cache
      /\ x.token = t /\ x.late = inst[service].late
  BY <1>0, <1>1 DEF Connector, TokenOrNone
<1>5. inst' = [inst EXCEPT ![service] = x]
  BY DEF t
<1> HIDE DEF x, d, f
<1>6. CacheFresh(x) /\ google' \in Google /\ google'.version = google.version
  BY <1>0, <1>1, <1>4 DEF CacheFresh, f, Types
<1>7. ASSUME NEW e \in calls'
      PROVE  e.of \in Grants /\ AsNew(e, IF e.of = service THEN x.floor ELSE inst[e.of].floor)
  <2>1. CASE e \in calls
    BY <1>4, <2>1 DEF IInv, Recent, Types, Call, f
  <2>2. CASE e = First(d, t)
    BY <1>0, <1>2, <1>4, <2>2
  <2> QED BY <1>3, <2>1, <2>2
<1>8. /\ inst' \in [Grants -> Connector] /\ Recent' /\ inst'[service] = x
      /\ \A j \in Grants : j # service => inst'[j] = inst[j]
  BY <1>0, <1>1, <1>4, <1>5, <1>6, <1>7, ConnectorSteps
<1>9. Types' /\ Alone' /\ Trying' = Trying
  BY <1>0, <1>2, <1>3, <1>8 DEF Types, Alone, Trying
<1>10. ASSUME ~hurried PROVE OneThing' /\ Agreed'
  <2>1. OneThing /\ Agreed /\ t = store.token /\ service # Nobody
    BY <1>0, <1>10, LoadTokenFacts, BoundsFacts DEF IInv, t
  <2>2. OneThing'
    BY <1>9, <2>1 DEF OneThing
  <2>3. Agreed'
    BY <1>2, <1>3, <1>4, <1>8, <2>1 DEF Agreed
  <2> QED BY <2>2, <2>3
<1> QED BY <1>8, <1>9, <1>10 DEF IInv

\* The calls that the clearing of a cache overtakes.
LEMMA LateFacts ==
  ASSUME IInv, MarkLate
  PROVE  /\ calls' \in SUBSET Call /\ (calls = {} => calls' = {}) /\ (calls' # {} => calls # {})
         /\ \A e \in calls' : \E d \in calls :
              /\ e.of = d.of /\ e.tk = d.tk
              /\ \A f : AsNew(d, f) => AsNew(e, f)
              /\ \A f : d.of = service => AsNew(e, f)
<1>1. ASSUME NEW d \in calls
      PROVE  LET e == [d EXCEPT !.late = @ \/ (d.of = service /\ d.op # "query")]
             IN /\ e \in Call /\ e.of = d.of /\ e.tk = d.tk
                /\ \A f : AsNew(d, f) => AsNew(e, f)
                /\ \A f : d.of = service => AsNew(e, f)
  <2> DEFINE m == d.late \/ (d.of = service /\ d.op # "query")
             e == [d EXCEPT !.late = m]
  <2>1. d \in Call /\ m \in BOOLEAN
    BY DEF IInv, Types, Call
  <2>2. (d.late => m) /\ (d.of = service /\ d.op # "query" => m)
    OBVIOUS
  <2> HIDE DEF m
  <2>3. /\ e \in Call /\ e.of = d.of /\ e.tk = d.tk /\ e.op = d.op /\ e.since = d.since
        /\ e.empty = d.empty /\ e.late = m
    BY <2>1 DEF Call
  <2> HIDE DEF e
  <2>4. \A f : (AsNew(d, f) => AsNew(e, f)) /\ (d.of = service => AsNew(e, f))
    BY <2>2, <2>3 DEF AsNew
  <2> QED BY <2>3, <2>4 DEF e, m
<1> DEFINE m(d) == [d EXCEPT !.late = @ \/ (d.of = service /\ d.op # "query")]
<1>2. /\ \A e \in calls' : \E d \in calls : e = m(d)
      /\ \A d \in calls : m(d) \in calls'
  BY DEF MarkLate
<1>3. \A d \in calls : /\ m(d) \in Call /\ m(d).of = d.of /\ m(d).tk = d.tk
                       /\ \A f : AsNew(d, f) => AsNew(m(d), f)
                       /\ \A f : d.of = service => AsNew(m(d), f)
  BY <1>1
<1> HIDE DEF m
<1>4. calls' \in SUBSET Call /\ (calls = {} => calls' = {}) /\ (calls' # {} => calls # {})
  BY <1>2, <1>3
<1>5. ASSUME NEW e \in calls'
      PROVE  \E d \in calls : /\ e.of = d.of /\ e.tk = d.tk
                              /\ \A f : AsNew(d, f) => AsNew(e, f)
                              /\ \A f : d.of = service => AsNew(e, f)
  <2>1. PICK d \in calls : e = m(d)
    BY <1>2
  <2> QED BY <1>3, <2>1
<1> QED BY <1>4, <1>5

LEMMA ClearCacheInv ==
  ASSUME IInv, ClearCache
  PROVE  IInv'
<1> DEFINE y == [inst[service] EXCEPT !.cache = Empty]
           x == Cleared(y)
<1>0. service \in Grants /\ Types /\ google \in Google /\ google.version \in Nat /\ MarkLate
      /\ UNCHANGED <<google, store, service, revoking, hurried, left, attempts>>
  BY DEF IInv, Types, Google, ClearCache, shell
<1>1. x \in Connector /\ x.floor = google.version /\ x.token = inst[service].token
      /\ \A k \in Keys : x.cache[k] = 0
  BY <1>0 DEF Types, Connector, Empty, Cleared
<1>2. inst' = [inst EXCEPT ![service] = x]
  BY DEF ClearCache
<1> HIDE DEF x
<1>3. CacheFresh(x) /\ x.floor <= google.version
  BY <1>0, <1>1 DEF CacheFresh
<1>4. ASSUME NEW e \in calls'
      PROVE  e.of \in Grants /\ AsNew(e, IF e.of = service THEN x.floor ELSE inst[e.of].floor)
  <2>1. PICK d \in calls : /\ e.of = d.of
                           /\ \A f : AsNew(d, f) => AsNew(e, f)
                           /\ \A f : d.of = service => AsNew(e, f)
    BY <1>0, LateFacts
  <2>2. AsNew(d, inst[d.of].floor) /\ d.of \in Grants
    BY DEF IInv, Recent, Types, Call
  <2> QED BY <2>1, <2>2
<1>5. /\ inst' \in [Grants -> Connector] /\ Recent' /\ inst'[service] = x
      /\ \A j \in Grants : j # service => inst'[j] = inst[j]
  BY <1>0, <1>1, <1>2, <1>3, <1>4, ConnectorSteps
<1>6. Types' /\ Alone' /\ Trying' = Trying
  BY <1>0, <1>5, LateFacts DEF IInv, Types, Alone, Trying
<1>7. OneThing => OneThing'
  BY <1>0, <1>6, LateFacts DEF OneThing
<1>8. ASSUME Agreed PROVE Agreed'
  <2>1. \A e \in calls' : e.of = service /\ e.tk.grant = store.config
    BY <1>0, <1>8, LateFacts DEF Agreed
  <2>2. inst'[service].token = inst[service].token
    BY <1>1, <1>5
  <2> QED BY <1>0, <1>8, <2>1, <2>2, LateFacts DEF Agreed
<1> QED BY <1>0, <1>5, <1>6, <1>7, <1>8 DEF IInv

\* A connector with an answer in its cache.
LEMMA EntryFacts ==
  ASSUME NEW x \in Connector, NEW d \in Call, NEW k \in Keys, NEW v \in Nat,
         CacheFresh(x), d.late \/ v >= x.floor
  PROVE  /\ WithEntry(x, d, k, v) \in Connector
         /\ WithEntry(x, d, k, v).floor = x.floor /\ WithEntry(x, d, k, v).token = x.token
         /\ CacheFresh(WithEntry(x, d, k, v))
<1> DEFINE c == [x.cache EXCEPT ![k] = v]
           l == IF d.late THEN x.late \cup {k} ELSE x.late \ {k}
           y == [x EXCEPT !.cache = c, !.late = l]
<1>1. x.cache \in [Keys -> Nat] /\ x.late \in SUBSET Keys /\ x.floor \in Nat
  BY DEF Connector
<1>2. /\ c \in [Keys -> Nat] /\ c[k] = v /\ l \in SUBSET Keys
      /\ \A m \in Keys \ {k} : c[m] = x.cache[m] /\ (m \in l <=> m \in x.late)
      /\ k \notin l => ~d.late
  BY <1>1
<1>3. WithEntry(x, d, k, v) = y
  BY DEF WithEntry
<1> HIDE DEF c, l
<1>4. y \in Connector /\ y.floor = x.floor /\ y.token = x.token /\ y.cache = c /\ y.late = l
  BY <1>2 DEF Connector
<1> HIDE DEF y
<1>5. CacheFresh(y)
  BY <1>1, <1>2, <1>4 DEF CacheFresh
<1> QED BY <1>3, <1>4, <1>5

LEMMA CacheExpiresInv ==
  ASSUME IInv, NEW k \in Keys, CacheExpires(k)
  PROVE  IInv'
<1> DEFINE c == [inst[service].cache EXCEPT ![k] = 0]
           l == inst[service].late \ {k}
           x == [inst[service] EXCEPT !.cache = c, !.late = l]
<1>0. service \in Grants /\ google \in Google
      /\ inst' = [inst EXCEPT ![service].cache[k] = 0, ![service].late = @ \ {k}]
      /\ UNCHANGED <<google, store, service, revoking, calls, hurried, left, attempts>>
  BY DEF IInv, Types, CacheExpires, shell
<1>1. /\ inst[service] \in Connector /\ inst[service].floor <= google.version
      /\ CacheFresh(inst[service]) /\ inst \in [Grants -> Connector]
  BY <1>0 DEF IInv, Recent, Types
<1>2. inst' = [inst EXCEPT ![service] = x]
  BY <1>0, <1>1
<1>3. /\ c \in [Keys -> Nat] /\ c[k] = 0 /\ l \in SUBSET Keys
      /\ \A m \in Keys \ {k} : c[m] = inst[service].cache[m] /\ (m \in l <=> m \in inst[service].late)
  BY <1>1 DEF Connector
<1> HIDE DEF c, l
<1>4. x \in Connector /\ x.floor = inst[service].floor /\ x.token = inst[service].token
      /\ x.cache = c /\ x.late = l
  BY <1>1, <1>3 DEF Connector
<1> HIDE DEF x
<1>5. CacheFresh(x)
  BY <1>1, <1>3, <1>4 DEF CacheFresh
<1>6. \A d \in calls' : d.of \in Grants /\ AsNew(d, IF d.of = service THEN x.floor ELSE inst[d.of].floor)
  BY <1>0, <1>4 DEF IInv, Recent, Types, Call
<1>7. /\ inst' \in [Grants -> Connector] /\ Recent' /\ inst'[service] = x
      /\ \A j \in Grants : j # service => inst'[j] = inst[j]
  BY <1>0, <1>1, <1>2, <1>4, <1>5, <1>6, ConnectorSteps
<1>8. Types' /\ Alone' /\ Trying' = Trying
  BY <1>0, <1>7 DEF IInv, Types, Alone, Trying
<1>9. (OneThing => OneThing') /\ (Agreed => Agreed')
  BY <1>0, <1>4, <1>7, <1>8 DEF OneThing, Agreed
<1> QED BY <1>0, <1>7, <1>8, <1>9 DEF IInv

\* An answer that gives no new token: the call goes on, with the stored token, or is
\* over; its connector may have an entry more, or the stored token.
LEMMA AnswerInv ==
  ASSUME IInv, NEW d \in calls, NEW x \in Connector, inst' = [inst EXCEPT ![d.of] = x],
         x.floor = inst[d.of].floor, CacheFresh(x),
         x.token = inst[d.of].token \/ x.token = store.token,
         \/ Over(d)
         \/ \E e \in Call : /\ Became(d, e) /\ e.of = d.of /\ AsNew(e, x.floor)
                            /\ ~hurried => e.tk = store.token,
         UNCHANGED <<google, store, service, revoking, hurried, left, attempts>>
  PROVE  IInv'
<1>0. d \in Call /\ d.of \in Grants /\ google \in Google /\ x.floor <= google.version
  BY DEF IInv, Recent, Types, Call
<1>1. calls' \in SUBSET Call /\ ~left
  BY DEF IInv, Types, Alone, Over, Became
<1>2. ASSUME NEW e \in calls'
      PROVE  e.of \in Grants /\ AsNew(e, IF e.of = d.of THEN x.floor ELSE inst[e.of].floor)
  <2>1. CASE e \in calls
    BY <2>1 DEF IInv, Recent, Types, Call
  <2>2. CASE e \notin calls
    BY <1>0, <2>2 DEF Over, Became
  <2> QED BY <2>1, <2>2
<1>3. /\ inst' \in [Grants -> Connector] /\ Recent' /\ inst'[d.of] = x
      /\ \A j \in Grants : j # d.of => inst'[j] = inst[j]
  BY <1>0, <1>2, ConnectorSteps
<1>4. Types' /\ Alone' /\ Trying' = Trying
  BY <1>1, <1>3 DEF IInv, Types, Alone, Trying
<1>5. ASSUME ~hurried PROVE OneThing' /\ Agreed'
  <2>1. OneThing /\ Agreed /\ service \in Grants /\ d.of = service
    BY <1>5 DEF IInv, Agreed, Types
  <2>2. \A e \in calls' : e.of = service /\ e.tk.grant = store.config
    BY <1>5, <2>1 DEF Over, Became, Agreed
  <2>3. OneThing'
    BY <1>4, <2>1, BoundsFacts DEF OneThing
  <2>4. inst'[service].token = store.token
    BY <1>3, <2>1, BoundsFacts DEF Agreed
  <2>5. Agreed'
    BY <2>1, <2>2, <2>4, BoundsFacts DEF Agreed
  <2> QED BY <2>3, <2>5
<1> QED BY <1>3, <1>4, <1>5 DEF IInv

\* The token that a call goes on with is the one in memory, or the stored one; its
\* connector.
LEMMA GoesOn ==
  ASSUME IInv, NEW d \in calls
  PROVE  /\ d \in Call /\ d \in Pending /\ d.of \in Grants /\ AsNew(d, inst[d.of].floor)
         /\ ~hurried => d.of = service /\ d.tk.grant = store.config
         /\ inst \in [Grants -> Connector] /\ inst[d.of] \in Connector
         /\ inst[d.of].floor \in Nat /\ inst[d.of].floor <= google.version
         /\ CacheFresh(inst[d.of]) /\ inst = [inst EXCEPT ![d.of] = inst[d.of]]
<1>1. d \in Call /\ inst \in [Grants -> Connector] /\ AsNew(d, inst[d.of].floor)
  BY DEF IInv, Recent, Types
<1>2. d.of \in Grants
  BY <1>1 DEF Call
<1>3. inst[d.of] \in Connector /\ CacheFresh(inst[d.of]) /\ inst[d.of].floor <= google.version
      /\ inst = [inst EXCEPT ![d.of] = inst[d.of]]
  BY <1>1, <1>2 DEF IInv, Recent
<1> QED BY <1>1, <1>2, <1>3 DEF Call, Pending, TokenOrNone, IInv, Agreed, Connector

LEMMA AnsweredInv ==
  ASSUME IInv, NEW d \in calls, Answered(d)
  PROVE  IInv'
<1>0. /\ UNCHANGED <<google, store, service, revoking, hurried, left, attempts>>
      /\ "projects" \in Keys
  BY BigQueryAssumption DEF Answered, shell
<1>1. PICK v \in d.since .. google.version :
        \/ d.op \in Keys /\ Cached(d, d.op, v) /\ Over(d)
        \/ /\ d.op = "projects" /\ LoadToken(d.of) # NoToken
           /\ Became(d, First([d EXCEPT !.op = "projectsAgain", !.empty = v], LoadToken(d.of)))
           /\ inst' = inst
        \/ d.op = "projectsAgain" /\ Cached(d, "projects", v) /\ Over(d)
        \/ d.op = "query" /\ inst' = inst /\ Over(d)
  BY DEF Answered
<1>2. d.since \in Nat /\ v \in Nat /\ v >= d.since /\ d.late \in BOOLEAN
  BY <1>1, GoesOn, NowFacts DEF Call
<1>3. d.op # "query" => d.late \/ v >= inst[d.of].floor
  BY <1>2, GoesOn DEF AsNew
<1>4. ASSUME NEW k \in Keys, Cached(d, k, v), Over(d), d.op # "query" PROVE IInv'
  <2> DEFINE x == WithEntry(inst[d.of], d, k, v)
  <2>1. /\ x \in Connector /\ x.floor = inst[d.of].floor /\ x.token = inst[d.of].token
        /\ CacheFresh(x)
    BY <1>2, <1>3, <1>4, GoesOn, EntryFacts
  <2>2. inst' = [inst EXCEPT ![d.of] = x]
    BY <1>4 DEF Cached
  <2> HIDE DEF x
  <2> QED BY <1>0, <1>4, <2>1, <2>2, AnswerInv
<1>5. CASE inst' = inst /\ Over(d)
  BY <1>0, <1>5, GoesOn, AnswerInv
<1>6. CASE /\ d.op = "projects" /\ LoadToken(d.of) # NoToken /\ inst' = inst
           /\ Became(d, First([d EXCEPT !.op = "projectsAgain", !.empty = v], LoadToken(d.of)))
  <2> DEFINE t == LoadToken(d.of)
             p == [d EXCEPT !.op = "projectsAgain", !.empty = v]
  <2>1. t \in Tokens /\ (~hurried => t = store.token)
    BY <1>6, LoadTokenFacts, GoesOn DEF TokenOrNone
  <2>2. p \in Pending /\ p.of = d.of /\ p.empty = v /\ p.late = d.late
    BY <1>2, GoesOn DEF Ops, Pending
  <2> HIDE DEF t, p
  <2>3. p.late \/ p.empty >= inst[d.of].floor
    BY <1>3, <1>6, <2>2
  <2>4. First(p, t) \in Call /\ First(p, t).of = d.of /\ First(p, t).tk = t
        /\ AsNew(First(p, t), inst[d.of].floor)
    BY <2>1, <2>2, <2>3, GoesOn, CallFacts DEF First, Steps
  <2>5. Became(d, First(p, t))
    BY <1>6 DEF t, p
  <2> QED BY <1>0, <1>6, <2>1, <2>4, <2>5, GoesOn, AnswerInv
<1>7. d.op \in Keys => d.op # "query"
  BY BigQueryAssumption
<1> QED BY <1>0, <1>1, <1>4, <1>5, <1>6, <1>7

\* A call that has failed, and what its connector then has.
LEMMA FailedFacts ==
  ASSUME IInv, NEW d \in calls, NEW x \in Connector, CacheFresh(x), x.floor = inst[d.of].floor
  PROVE  /\ Failed(d, x) \in Connector /\ Failed(d, x).floor = x.floor
         /\ Failed(d, x).token = x.token /\ CacheFresh(Failed(d, x))
<1>1. CASE d.op # "projectsAgain"
  BY <1>1 DEF Failed
<1>2. CASE d.op = "projectsAgain"
  <2>1. d \in Call /\ d.empty \in Nat /\ (d.late \/ d.empty >= x.floor)
    BY <1>2, GoesOn DEF Call, AsNew
  <2>2. "projects" \in Keys
    BY BigQueryAssumption
  <2>3. Failed(d, x) = WithEntry(x, d, "projects", d.empty)
    BY <1>2 DEF Failed
  <2> QED BY <2>1, <2>2, <2>3, EntryFacts
<1> QED BY <1>1, <1>2

LEMMA UnauthorizedInv ==
  ASSUME IInv, NEW d \in calls, Unauthorized(d)
  PROVE  IInv'
<1> DEFINE t == IF d.step = "fetch" THEN store.token ELSE inst[d.of].token
           x == [inst[d.of] EXCEPT !.token = t]
<1>0. /\ UNCHANGED <<google, store, service, revoking, hurried, left, attempts>>
      /\ store.token \in TokenOrNone
      /\ \/ /\ store.token # NoToken /\ inst' = [inst EXCEPT ![d.of] = x]
            /\ Became(d, Again(d, store.token))
         \/ inst' = [inst EXCEPT ![d.of] = Failed(d, x)] /\ Over(d)
  BY DEF Unauthorized, shell, IInv, Types, Store
<1>1. t \in TokenOrNone /\ (t = inst[d.of].token \/ t = store.token)
  BY <1>0, GoesOn DEF Connector
<1> HIDE DEF t
<1>2. x \in Connector /\ x.floor = inst[d.of].floor /\ x.token = t
      /\ x.cache = inst[d.of].cache /\ x.late = inst[d.of].late
  BY <1>1, GoesOn DEF Connector
<1> HIDE DEF x
<1>3. CacheFresh(x)
  BY <1>2, GoesOn DEF CacheFresh
<1>4. CASE /\ store.token # NoToken /\ inst' = [inst EXCEPT ![d.of] = x]
           /\ Became(d, Again(d, store.token))
  <2>1. store.token \in Tokens
    BY <1>0, <1>4 DEF TokenOrNone
  <2>2. d.op = "projectsAgain" => d.late \/ d.empty >= inst[d.of].floor
    BY GoesOn DEF AsNew
  <2>3. /\ Again(d, store.token) \in Call /\ Again(d, store.token).of = d.of
        /\ Again(d, store.token).tk = store.token
        /\ AsNew(Again(d, store.token), x.floor)
    BY <1>2, <2>1, <2>2, GoesOn, CallFacts DEF Again, Steps
  <2> QED BY <1>0, <1>1, <1>2, <1>3, <1>4, <2>3, AnswerInv
<1>5. CASE inst' = [inst EXCEPT ![d.of] = Failed(d, x)] /\ Over(d)
  BY <1>0, <1>1, <1>2, <1>3, <1>5, FailedFacts, AnswerInv
<1> QED BY <1>0, <1>4, <1>5

LEMMA CallFailsInv ==
  ASSUME IInv, NEW d \in calls, CallFails(d)
  PROVE  IInv'
<1>0. /\ UNCHANGED <<google, store, service, revoking, hurried, left, attempts>>
      /\ Over(d) /\ inst' = [inst EXCEPT ![d.of] = Failed(d, inst[d.of])]
  BY DEF CallFails, shell
<1> QED BY <1>0, GoesOn, FailedFacts, AnswerInv

LEMMA RefreshedInv ==
  ASSUME IInv, NEW d \in calls, Refreshed(d)
  PROVE  IInv'
<1> DEFINE t == Token(d.tk.grant)
           x == [inst[d.of] EXCEPT !.token = t]
           n == Now(d.op)
           e == [d EXCEPT !.tk = t, !.since = n, !.step = IF @ = "refresh" THEN "fetch" ELSE "retry"]
<1>0. /\ Types /\ UNCHANGED <<service, revoking, hurried, left, attempts>>
      /\ google.nr < MaxTokens /\ google' = Issued
      /\ inst' = [inst EXCEPT ![d.of].token = t]
      /\ store' = [store EXCEPT !.token = t]
      /\ Became(d, e)
      /\ d \in Call /\ d.of \in Grants /\ ~left
  BY GoesOn DEF Refreshed, shell, IInv, Types, Alone
<1>1. d.tk \in Tokens /\ d.tk.grant \in Grants
  BY <1>0 DEF Call, Tokens
<1>2. /\ t \in Tokens /\ t # NoToken /\ t.grant = d.tk.grant
      /\ google' \in Google /\ google'.version = google.version
  BY <1>0, <1>1, TokenFacts
<1>12. n \in Nat /\ (d.op # "query" => n = google.version)
  BY NowFacts
<1> HIDE DEF t, n
<1>3. /\ e \in Call /\ e.of = d.of /\ e.tk = t
      /\ e.op = d.op /\ e.since = n /\ e.empty = d.empty /\ e.late = d.late
  BY <1>0, <1>2, <1>12 DEF Call, Steps
<1>4. x \in Connector /\ x.floor = inst[d.of].floor
      /\ x.cache = inst[d.of].cache /\ x.token = t /\ x.late = inst[d.of].late
  BY <1>0, <1>2 DEF Connector, TokenOrNone, Types
<1>5. inst' = [inst EXCEPT ![d.of] = x]
  BY <1>0
<1>6. store' \in Store /\ store'.token = t /\ store'.config = store.config
  BY <1>0, <1>2 DEF Types, Store, TokenOrNone
<1> HIDE DEF x, e
<1>7. CacheFresh(x) /\ x.floor <= google.version
  BY <1>4, GoesOn DEF CacheFresh
<1>13. AsNew(e, x.floor)
  BY <1>3, <1>4, <1>7, <1>12, GoesOn, NowFacts DEF AsNew
<1>14. ASSUME NEW f \in calls'
      PROVE  f.of \in Grants /\ AsNew(f, IF f.of = d.of THEN x.floor ELSE inst[f.of].floor)
  <2>1. CASE f \in calls
    BY <1>4, <2>1 DEF IInv, Recent, Types, Call
  <2>2. CASE f = e
    BY <1>0, <1>3, <1>13, <2>2
  <2> QED BY <1>0, <2>1, <2>2 DEF Became
<1>8. /\ inst' \in [Grants -> Connector] /\ Recent' /\ inst'[d.of] = x
      /\ \A j \in Grants : j # d.of => inst'[j] = inst[j]
  BY <1>0, <1>2, <1>4, <1>5, <1>7, <1>14, ConnectorSteps
<1>9. calls' \in SUBSET Call
  BY <1>0, <1>3 DEF Types, Became
<1>10. Types' /\ Alone' /\ Trying' = Trying
  BY <1>0, <1>2, <1>6, <1>8, <1>9 DEF Types, Alone, Trying
<1>11. ASSUME ~hurried PROVE OneThing' /\ Agreed'
  <2>1. OneThing /\ Agreed /\ d.of = service /\ d.tk.grant = store.config
        /\ service # Nobody
    BY <1>0, <1>11, GoesOn, BoundsFacts DEF IInv
  <2>2. OneThing'
    BY <1>0, <1>10, <2>1 DEF OneThing
  <2>3. \A f \in calls' : f.of = service /\ f.tk.grant = store.config
    BY <1>0, <1>2, <1>3, <2>1 DEF Became, Agreed
  <2>4. store.config # Nobody
    BY <2>1 DEF Agreed
  <2>5. Agreed'
    BY <1>0, <1>2, <1>4, <1>6, <1>8, <2>1, <2>3, <2>4 DEF Agreed
  <2> QED BY <2>2, <2>5
<1> QED BY <1>0, <1>8, <1>10, <1>11 DEF IInv

-----------------------------------------------------------------------------
(* The theorems. *)

LEMMA NextIInv == IInv /\ [Next]_vars => IInv'
<1> SUFFICES ASSUME IInv, [Next]_vars PROVE IInv'
  OBVIOUS
<1>1. CASE UNCHANGED vars
  <2>1. google \in Google /\ google.version \in Nat
    BY DEF IInv, Types, Google
  <2> QED BY <1>1, <2>1, Frame DEF vars
<1>2. ASSUME NEW i \in Attempts, Setup(i) \/ SetupStep(i) PROVE IInv'
  BY <1>2, SetupStepInv, SetupDoneInv, SetupFailsInv DEF SetupStep
<1>3. CASE Reload \/ SetAutoConnect \/ Disconnect \/ Revoked
  BY <1>3, ReloadInv, SetAutoConnectInv, DisconnectInv, RevokedInv
<1>4. CASE TokenAges \/ TokenDies \/ WorldChanges
  BY <1>4, OthersInv
<1>5. ASSUME NEW c \in Calls, Ask(c) PROVE IInv'
  BY <1>5, SendInv DEF Ask, shell
<1>6. ASSUME NEW c \in Calls, NEW k \in Keys, ListMetadata(c, k) PROVE IInv'
  BY <1>6, SendInv DEF ListMetadata, shell
<1>7. ASSUME NEW c \in Calls, CallStep(c) PROVE IInv'
  BY <1>7, RefreshedInv, AnsweredInv, UnauthorizedInv, CallFailsInv DEF CallStep
<1>8. CASE ClearCache \/ \E k \in Keys : CacheExpires(k)
  BY <1>8, ClearCacheInv, CacheExpiresInv
<1> QED BY <1>1, <1>2, <1>3, <1>4, <1>5, <1>6, <1>7, <1>8 DEF Next

\* IInv is an inductive invariant of the connection.
THEOREM Invariance == Spec => []IInv
BY InitIInv, NextIInv, PTL DEF Spec

\* bigquery-connector.ts and streaming-query-service.ts: as long as one thing is
\* done at a time, whoever reloads the page has the connection the page had.
THEOREM KeptConnection == Spec => []ConnectionKept
<1>1. IInv => ConnectionKept
  <2> SUFFICES ASSUME IInv PROVE ConnectionKept
    OBVIOUS
  <2>1. TypeOK
    BY BoundsFacts DEF IInv, Types, TypeOK, Google, Store, TokenOrNone, Call
  <2>2. RestoreFindsIt
    BY DEF IInv, Agreed, RestoreFindsIt, Connected
  <2> QED BY <2>1, <2>2 DEF ConnectionKept
<1> QED BY <1>1, Invariance, PTL

\* disconnectBigQuery and clearCache: nothing is left of what was left or cleared, but for
\* the late answer to what was asked for before the cache was cleared.
THEOREM NothingLeft == Spec => []GoneIsGone
<1>1. IInv => GoneIsGone
  <2> SUFFICES ASSUME IInv PROVE GoneIsGone
    OBVIOUS
  <2>1. LeftMeansGone
    BY DEF IInv, Alone, LeftMeansGone, Connected
  <2>2. ClearedIsGone
    BY DEF IInv, Recent, CacheFresh, ClearedIsGone
  <2> QED BY <2>1, <2>2 DEF GoneIsGone
<1> QED BY <1>1, Invariance, PTL

-----------------------------------------------------------------------------
(* The window that connects, and a query over the connection.  In both the    *)
(* step of another part leaves the variables as they are.                     *)

OInv ==
  /\ popup \in [O!Attempts -> [step : {"none", "popup", "exchange", "over"},
                               code : O!Attempts \cup {O!Nobody}]]
  /\ CodeOfAttempt

LEMMA OInvStep == OInv /\ [O!OAuthNext]_oauthVars => OInv'
<1> SUFFICES ASSUME OInv, [O!OAuthNext]_oauthVars PROVE OInv'
  OBVIOUS
<1> DEFINE A == O!Attempts
           S == [step : {"none", "popup", "exchange", "over"},
                 code : A \cup {O!Nobody}]
<1>0. popup \in [A -> S]
      /\ \A i \in A : popup[i].step = "exchange" => popup[i].code = i
  BY DEF OInv, CodeOfAttempt, O!CodeOfAttempt
<1>1. \/ popup' = popup
      \/ \E i \in A :
           \/ popup' = [popup EXCEPT ![i] = [step |-> "exchange", code |-> i]]
           \/ \E w \in {"popup", "over"} : popup' = [popup EXCEPT ![i].step = w]
  BY DEF oauthVars, O!OAuthNext, O!OpenDialog, O!CloseDialog, O!HandleConnect,
     O!HandleCallback, O!HandleCallbackError, O!ClosePopup, O!AttemptStep,
     O!TakeResponse, O!TakeError, O!OAuthTimeout, O!ExchangeDone,
     O!ExchangeFails, O!Reject
<1>2. popup' \in [A -> S]
      /\ \A i \in A : popup'[i].step = "exchange" => popup'[i].code = i
  BY <1>0, <1>1
<1> QED BY <1>2 DEF OInv, CodeOfAttempt, O!CodeOfAttempt

\* Only the attempt that asked for it exchanges a code: its number, as the state
\* that Google sends back, tells handleCallback's message from those of others.
THEOREM ExchangesOwnCode == MCSpec => []CodeOfAttempt
<1>1. MCInit => OInv
  <2> SUFFICES ASSUME MCInit PROVE OInv
    OBVIOUS
  <2>1. popup = [i \in O!Attempts |-> [step |-> "none", code |-> O!Nobody]]
    BY DEF MCInit, O!OAuthInit
  <2> QED BY <2>1 DEF OInv, CodeOfAttempt, O!CodeOfAttempt
<1>2. OInv /\ [MCNext]_<<part, vars, oauthVars, queryVars, tableVars, listVars>> => OInv'
  <2>1. [MCNext]_<<part, vars, oauthVars, queryVars, tableVars, listVars>> => [O!OAuthNext]_oauthVars
    BY DEF MCNext
  <2> QED BY <2>1, OInvStep
<1>3. OInv => CodeOfAttempt
  BY DEF OInv
<1> QED BY <1>1, <1>2, <1>3, PTL DEF MCSpec

-----------------------------------------------------------------------------
\* The first n row numbers.
FirstRows(n) == [k \in 1 .. n |-> k]

LEMMA MinFacts ==
  ASSUME NEW a \in Int, NEW b \in Int
  PROVE  /\ Q!Min({a, b}) \in {a, b}
         /\ Q!Min({a, b}) <= a /\ Q!Min({a, b}) <= b
BY DEF Q!Min

Projects == {"none", "chosen", "listed", "named"}

\* What is yielded so far are the rows before the token, and no more than wanted.
QInv ==
  /\ query \in [step : {"none", "query", "results", "page"}, token : 0 .. Rows,
               got : Seq(Nat)]
  /\ query.got = FirstRows(query.token)
  /\ query.token <= MaxRows
  /\ query.step # "page" => query.token = 0
  /\ project \in [memory : Projects, stored : Projects]
  /\ QueryReturnsAll

LEMMA QInvInit == Q!QueryInit => QInv
<1> SUFFICES ASSUME Q!QueryInit PROVE QInv
  OBVIOUS
<1>1. query = [step |-> "none", token |-> 0, got |-> << >>]
  BY DEF Q!QueryInit, Q!Idle, Q!None
<1>2. FirstRows(0) = << >>
  BY DEF FirstRows
<1>3. 0 \in 0 .. Rows /\ 0 <= MaxRows
  BY QueryAssumption
<1>4. project \in [memory : Projects, stored : Projects] /\ project.memory = "none"
  BY DEF Q!QueryInit, Q!None, Projects
<1>5. result.whole = FALSE
  BY DEF Q!QueryInit, Q!NoResult
<1> QED BY <1>1, <1>2, <1>3, <1>4, <1>5
        DEF QInv, QueryReturnsAll, Q!QueryReturnsAll, Q!ProjectIsStored, Q!None

\* Rows after the first t, put behind them.
LEMMA RowsAppend ==
  ASSUME NEW t \in Nat, NEW n \in Nat
  PROVE  /\ FirstRows(t) \o [k \in 1 .. n |-> t + k] = FirstRows(t + n)
         /\ Len(FirstRows(t)) = t
         /\ FirstRows(t) \in Seq(Nat)
<1> DEFINE s == FirstRows(t)
           m == [k \in 1 .. n |-> t + k]
<1>1. s \in Seq(Nat) /\ Len(s) = t /\ DOMAIN s = 1 .. t
  BY DEF FirstRows
<1>2. m \in Seq(Nat) /\ Len(m) = n
  OBVIOUS
<1>3. s \o m \in Seq(Nat) /\ Len(s \o m) = t + n
  BY <1>1, <1>2
<1>4. FirstRows(t + n) \in Seq(Nat) /\ Len(FirstRows(t + n)) = t + n
  BY DEF FirstRows
<1>5. \A k \in 1 .. t + n : (s \o m)[k] = FirstRows(t + n)[k]
  <2> TAKE k \in 1 .. t + n
  <2>1. FirstRows(t + n)[k] = k
    BY DEF FirstRows
  <2>2. CASE k <= t
    <3>1. (s \o m)[k] = s[k]
      BY <1>1, <1>2, <2>2
    <3>2. s[k] = k
      BY <2>2 DEF FirstRows
    <3> QED BY <2>1, <3>1, <3>2
  <2>3. CASE k > t
    <3>1. (s \o m)[k] = m[k - t]
      BY <1>1, <1>2, <2>3
    <3>2. k - t \in 1 .. n /\ t + (k - t) = k
      BY <2>3
    <3>3. m[k - t] = k
      BY <3>2
    <3> QED BY <2>1, <3>1, <3>3
  <2> HIDE DEF s, m
  <2>4. k <= t \/ k > t
    OBVIOUS
  <2> QED BY <2>2, <2>3, <2>4
<1> QED BY <1>1, <1>3, <1>4, <1>5, SeqEqual

LEMMA QInvStep == QInv /\ [Q!QueryNext]_queryVars => QInv'
<1> SUFFICES ASSUME QInv, [Q!QueryNext]_queryVars PROVE QInv'
  OBVIOUS
<1> USE QueryAssumption
<1> DEFINE QuerySteps == {"none", "query", "results", "page"}
           t == query.token
<1>0. /\ query \in [step : QuerySteps, token : 0 .. Rows, got : Seq(Nat)]
      /\ query.got = FirstRows(t)
      /\ t <= MaxRows
      /\ query.step # "page" => t = 0
      /\ project \in [memory : Projects, stored : Projects]
      /\ result.whole => result.rows = FirstRows(Q!Min({Rows, MaxRows}))
      /\ project.memory # "none" => project.stored = project.memory
  BY DEF QInv, QueryReturnsAll, Q!QueryReturnsAll, Q!ProjectIsStored, Q!None,
     FirstRows
<1> DEFINE QuerySound(q) ==
             /\ q \in [step : QuerySteps, token : 0 .. Rows, got : Seq(Nat)]
             /\ q.got = FirstRows(q.token)
             /\ q.token <= MaxRows
             /\ q.step # "page" => q.token = 0
           ResultSound(r) ==
             r.whole => r.rows = FirstRows(Q!Min({Rows, MaxRows}))
           ProjectSound(p) ==
             /\ p \in [memory : Projects, stored : Projects]
             /\ p.memory # "none" => p.stored = p.memory
<1>a. QuerySound(query) /\ ResultSound(result) /\ ProjectSound(project)
  BY <1>0
<1>b. ASSUME QuerySound(query'), ResultSound(result'), ProjectSound(project')
      PROVE  QInv'
  BY <1>b DEF QInv, QueryReturnsAll, Q!QueryReturnsAll, Q!ProjectIsStored, Q!None,
     FirstRows
<1>c. QuerySound(Q!Idle)
  <2>1. FirstRows(0) = << >>
    BY DEF FirstRows
  <2> QED BY <2>1 DEF Q!Idle, Q!None
<1>d. ASSUME query.step # "page", NEW s \in QuerySteps \ {"page"}
      PROVE  QuerySound([query EXCEPT !.step = s])
  BY <1>0, <1>d
<1>1. CASE Q!Start
  <2>1. query' = query \/ query' = [Q!Idle EXCEPT !.step = "query"]
    BY <1>1 DEF Q!Start
  <2>2. QuerySound([Q!Idle EXCEPT !.step = "query"])
    BY <1>c DEF Q!Idle, Q!None
  <2>3. QuerySound(query')
    BY <1>a, <2>1, <2>2
  <2>4. ResultSound(result')
    BY <1>1 DEF Q!Start, Q!NoResult
  <2>5. ProjectSound(project')
    BY <1>0, <1>1 DEF Q!Start, Q!Loaded, Q!None, Projects
  <2> QED BY <1>b, <2>3, <2>4, <2>5
<1>2. CASE Q!Answer
  <2>0. query.step # "none" /\ project' = project
    BY <1>2 DEF Q!Answer, Q!None
  <2>1. PICK n \in 0 .. Q!Min({Q!Asked, Rows - t}) :
          /\ n = 0 => t = Rows
          /\ IF query.step = "query" /\ n = 0
             THEN query' = [query EXCEPT !.step = "results"] /\ result' = result
             ELSE Q!RowsCome(n)
    BY <1>2 DEF Q!Answer
  <2>2. t \in Nat /\ t <= Rows /\ t <= MaxRows
    BY <1>0
  <2>3. Len(query.got) = t
    BY <1>0, <2>2, RowsAppend
  <2>4. Q!Asked \in Int /\ Q!Asked <= MaxRows - t
    <3>1. MaxRows - t \in Int /\ PageSize \in Int
      BY <2>2
    <3>2. Q!Asked = Q!Min({MaxRows - t, PageSize})
      BY <2>3 DEF Q!Asked
    <3> QED BY <3>1, <3>2, MinFacts
  <2>5. n \in Nat /\ n <= MaxRows - t /\ n <= Rows - t
    <3>1. Rows - t \in Int
      BY <2>2
    <3>2. LET m == Q!Min({Q!Asked, Rows - t})
          IN m \in Int /\ m <= Q!Asked /\ m <= Rows - t
      BY <2>4, <3>1, MinFacts
    <3> QED BY <2>2, <2>4, <3>1, <3>2
  <2>6. CASE query.step = "query" /\ n = 0
    <3>1. QuerySound([query EXCEPT !.step = "results"])
      BY <1>d, <2>6
    <3>2. query' = [query EXCEPT !.step = "results"] /\ result' = result
      BY <2>1, <2>6
    <3>3. QuerySound(query')
      BY <3>1, <3>2
    <3> QED BY <3>2, <3>3, <1>a, <1>b, <2>0, <3>1
  <2>7. CASE ~(query.step = "query" /\ n = 0)
    <3> DEFINE got == query.got \o [k \in 1 .. n |-> t + k]
    <3>1. IF t + n < Rows /\ Len(got) < MaxRows
          THEN query' = [step |-> "page", token |-> t + n, got |-> got]
               /\ result' = result
          ELSE query' = Q!Idle /\ result' = [rows |-> got, whole |-> TRUE]
      BY <2>1, <2>7 DEF Q!RowsCome, Q!Return
    <3>2. got = FirstRows(t + n) /\ got \in Seq(Nat) /\ Len(got) = t + n
      <4>1. t + n \in Nat
        BY <2>2, <2>5
      <4>2. query.got = FirstRows(t)
        BY <1>0
      <4>3. FirstRows(t) \o [k \in 1 .. n |-> t + k] = FirstRows(t + n)
        BY <2>2, <2>5, RowsAppend
      <4>4. FirstRows(t + n) \in Seq(Nat) /\ Len(FirstRows(t + n)) = t + n
        BY <2>5, <4>1, RowsAppend
      <4> QED BY <4>2, <4>3, <4>4
    <3> HIDE DEF got
    <3>3. CASE t + n < Rows /\ Len(got) < MaxRows
      <4>1. t + n \in 0 .. Rows /\ t + n <= MaxRows
        BY <2>2, <2>5
      <4>2. QuerySound([step |-> "page", token |-> t + n, got |-> got])
        BY <3>2, <4>1
      <4> QED BY <1>a, <1>b, <2>0, <3>1, <3>3, <4>2
    <3>4. CASE ~(t + n < Rows /\ Len(got) < MaxRows)
      <4>1. t + n = Q!Min({Rows, MaxRows})
        <5>1. /\ Q!Min({Rows, MaxRows}) \in {Rows, MaxRows}
              /\ Q!Min({Rows, MaxRows}) <= Rows
              /\ Q!Min({Rows, MaxRows}) <= MaxRows
          BY MinFacts
        <5>2. t + n >= Rows \/ t + n >= MaxRows
          BY <2>2, <2>5, <3>2, <3>4
        <5> QED BY <2>2, <2>5, <5>1, <5>2
      <4>2. ResultSound([rows |-> got, whole |-> TRUE])
        BY <3>2, <4>1
      <4> QED BY <1>a, <1>b, <1>c, <2>0, <3>1, <3>4, <4>2
    <3> QED BY <3>3, <3>4
  <2> QED BY <2>6, <2>7
<1>3. CASE Q!JobRuns
  <2>1. project' = project
    BY <1>3 DEF Q!JobRuns
  <2>2. CASE query.step = "query"
    <3>1. QuerySound(query') /\ result' = result
      BY <1>3, <1>d, <2>2 DEF Q!JobRuns
    <3> QED BY <1>a, <1>b, <2>1, <3>1
  <2>3. CASE query.step # "query"
    <3>1. QuerySound(query') /\ ResultSound(result')
      BY <1>3, <1>c, <2>3 DEF Q!JobRuns, Q!Return
    <3> QED BY <1>a, <1>b, <2>1, <3>1
  <2> QED BY <2>2, <2>3
<1>4. CASE Q!QueryFails
  BY <1>4, <1>a, <1>b, <1>c DEF Q!QueryFails
<1>5. CASE Q!NewConnector
  <2>1. QuerySound(query') /\ ResultSound(result')
    BY <1>5, <1>a, <1>c DEF Q!NewConnector
  <2>2. ProjectSound(project')
    BY <1>5, <1>0 DEF Q!NewConnector, Q!None, Projects
  <2> QED BY <1>b, <2>1, <2>2
<1>6. CASE \E p \in {"chosen", "listed"} : Q!SetDefaultProject(p)
  <2>1. QuerySound(query') /\ ResultSound(result')
    BY <1>6, <1>a DEF Q!SetDefaultProject
  <2>2. ProjectSound(project')
    BY <1>6 DEF Q!SetDefaultProject, Projects
  <2> QED BY <1>b, <2>1, <2>2
<1>7. CASE UNCHANGED queryVars
  BY <1>7, <1>a, <1>b DEF queryVars
<1> QED BY <1>1, <1>2, <1>3, <1>4, <1>5, <1>6, <1>7 DEF Q!QueryNext

\* A query whose job ends in time returns the first rows of its result, each once
\* and in order, up to maxRows, for every number of rows, page size and division
\* of the rows over the answers, and the project that pays is the stored one.
THEOREM AllRowsReturned == MCSpec => []QueryReturnsAll
<1>1. MCInit => QInv
  BY QInvInit DEF MCInit
<1>2. QInv /\ [MCNext]_<<part, vars, oauthVars, queryVars, tableVars, listVars>> => QInv'
  <2>1. [MCNext]_<<part, vars, oauthVars, queryVars, tableVars, listVars>> => [Q!QueryNext]_queryVars
    BY DEF MCNext
  <2> QED BY <2>1, QInvStep
<1>3. QInv => QueryReturnsAll
  BY DEF QInv
<1> QED BY <1>1, <1>2, <1>3, PTL DEF MCSpec

-----------------------------------------------------------------------------
(* The imported tables.  What is so of one depends on the operation that has it, and   *)
(* on whether DuckDB should have its rows, which the restored session gives it.        *)

Restoring == \E o \in Slots : ops[o].kind = "restore"
Served(t) ==
  /\ restored \/ Restoring
  /\ \A o \in Slots : ops[o].kind = "restore" => t \notin Mat!TablesOf(ops[o])
Whole(t) == files[t] = records[t].rows /\ (Served(t) => registered[t] = files[t])

\* A table no operation has, or has begun with.
Sound(t) ==
  /\ Mat!StatusOf(t) = "available" =>
       Whole(t) \/ (crashed /\ files[t] = Mat!NoFile /\ ~Served(t))
  /\ Mat!StatusOf(t) = "importing" => crashed
  /\ Mat!StatusOf(t) = "unavailable" => files[t] = Mat!NoFile
  /\ Mat!HasTable(t) \/ files[t] = Mat!NoFile \/ removed

RefreshPhase(op, t) ==
  \/ op.at = "find" /\ Sound(t) /\ Mat!StatusOf(t) # "importing"
  \/ /\ op.at \in {"get", "save"} /\ op.to = "importing"
     /\ Sound(t) /\ Mat!HasTable(t) /\ Mat!StatusOf(t) # "importing"
  \/ /\ Mat!StatusOf(t) = "importing"
     /\ \/ op.at = "query" /\ (Whole(t) \/ files[t] = Mat!NoFile)
        \/ op.at = "open" /\ (Whole(t) \/ files[t] = Mat!NoFile) /\ op.data \in Nat \ {0}
        \/ op.at = "close" /\ (Whole(t) \/ files[t] = Mat!Empty) /\ op.data \in Nat \ {0}
        \/ /\ op.at \in {"get", "save"} /\ op.to = "refreshed"
           /\ files[t] = op.data /\ op.data \in Nat \ {0}
        \/ op.at = "register" /\ files[t] = records[t].rows
        \/ /\ op.at \in {"look", "stamp"}
           /\ files[t] = records[t].rows /\ registered[t] = files[t]
        \/ op.at \in {"get", "save"} /\ op.to = "available" /\ Whole(t)

DeletePhase(op, t) ==
  \/ op.at \in {"find", "exists", "deleteFile"} /\ Sound(t)
  \/ op.at = "delete" /\ files[t] = Mat!NoFile

RestorePhase(op, t) ==
  /\ Mat!HasTable(t)
  /\ \/ /\ op.at = "exists" /\ Sound(t)
        /\ op.to = Mat!StatusOf(t) /\ Mat!StatusOf(t) \in {"available", "importing"}
     \/ op.at \in {"get", "save"} /\ op.to = "unavailable" /\ files[t] = Mat!NoFile
     \/ op.at = "register" /\ Mat!StatusOf(t) = "available" /\ files[t] = records[t].rows
     \/ /\ op.at \in {"look", "stamp"} /\ Mat!StatusOf(t) = "available"
        /\ files[t] = records[t].rows /\ registered[t] = files[t]

\* A table that operation op is at.
Phase(op, t) ==
  /\ op.at \in {"save", "stamp"} => op.saw = records[t]
  /\ op.caught => op.kind = "refresh" /\ op.at \in {"get", "save"} /\ op.to = "available"
  /\ \/ op.kind = "refresh" /\ RefreshPhase(op, t)
     \/ op.kind = "delete" /\ DeletePhase(op, t)
     \/ op.kind = "remove" /\ op.at = "delete" /\ removed /\ Sound(t)
     \/ op.kind = "restore" /\ RestorePhase(op, t)

\* A table that operation op has still to do.
Waits(op, x) ==
  /\ Sound(x.table)
  /\ \/ op.kind = "remove" /\ removed
     \/ /\ op.kind = "restore"
        /\ x.status = Mat!StatusOf(x.table) /\ x.status \in {"available", "importing"}

HasRows(t) ==
  /\ DOMAIN records[t] = {"status", "rows"}
  /\ Mat!StatusOf(t) \in {"available", "importing", "unavailable", Mat!Gone}
  /\ Mat!HasTable(t) => records[t].rows \in Nat /\ records[t].rows >= 1

\* A table that is being imported is not one the user can refresh.
NotAsked(t) ==
  Mat!StatusOf(t) = "importing" /\ listed[t] = "available" =>
    \E o \in Slots : ops[o].kind = "refresh" /\ ops[o].table = t

TableInv(t) ==
  /\ HasRows(t) /\ NotAsked(t)
  /\ \A o, p \in Slots :
       t \in Mat!TablesOf(ops[o]) /\ t \in Mat!TablesOf(ops[p]) => o = p
  /\ (\A o \in Slots : t \notin Mat!TablesOf(ops[o])) => Sound(t)
  /\ \A o \in Slots : Mat!Busy(o) /\ ops[o].table = t => Phase(ops[o], t)
  /\ \A o \in Slots : \A x \in ops[o].todo : Mat!Busy(o) /\ x.table = t => Waits(ops[o], x)

Fields == {"kind", "table", "at", "to", "todo", "saw", "data", "caught"}

TaskShape(op) ==
  /\ DOMAIN op = Fields
  /\ op.kind # "none" => op.table \in Tables
  /\ op.kind = "none" => op.at = "none"
  /\ \A x \in op.todo : x.table \in Tables /\ x.table # op.table
  /\ \A x, y \in op.todo : x.table = y.table => x = y
  /\ op.kind \in {"refresh", "delete"} => op.todo = {}

Shapes ==
  /\ DOMAIN records = Tables /\ DOMAIN files = Tables /\ DOMAIN registered = Tables
  /\ DOMAIN ops = Slots /\ source \in Nat /\ source >= 1
  /\ \A o \in Slots : TaskShape(ops[o])

OneRestore ==
  /\ \A o, p \in Slots : ops[o].kind = "restore" /\ ops[p].kind = "restore" => o = p
  /\ restored => ~Restoring
  /\ restored \/ Restoring => hasDuckDB

MatInv == Shapes /\ OneRestore /\ \A t \in Tables \ touched : TableInv(t)

-----------------------------------------------------------------------------
(* How an operation goes on. *)

LEMMA TurnFields ==
  ASSUME NEW kind, NEW x, NEW rest
  PROVE /\ DOMAIN Mat!Turn(kind, x, rest) = Fields
        /\ Mat!Turn(kind, x, rest).kind = kind
        /\ Mat!Turn(kind, x, rest).table = x.table
        /\ Mat!Turn(kind, x, rest).at = Mat!FirstOf(kind)
        /\ Mat!Turn(kind, x, rest).to = x.status
        /\ Mat!Turn(kind, x, rest).todo = rest
        /\ ~Mat!Turn(kind, x, rest).caught
BY DEF Mat!Turn, Mat!Idle, Fields

LEMMA IdleFields ==
  DOMAIN Mat!Idle = Fields /\ Mat!Idle.kind = "none" /\ Mat!Idle.todo = {}
    /\ Mat!Idle.at = "none"
BY DEF Mat!Idle, Fields

\* An operation that is at another step of the same table.
SameTask(q, op) ==
  DOMAIN q = Fields /\ q.kind = op.kind /\ q.table = op.table /\ q.todo = op.todo

\* What a step with table t leaves alone.
Untouched(t) ==
  /\ \A u \in Tables : u # t =>
       records'[u] = records[u] /\ files'[u] = files[u] /\ registered'[u] = registered[u]
  /\ DOMAIN records' = Tables /\ DOMAIN files' = Tables /\ DOMAIN registered' = Tables
  /\ source' \in Nat /\ source' >= 1
  /\ touched \subseteq touched' /\ removed' = removed /\ crashed' = crashed
  /\ hasDuckDB' = hasDuckDB

LEMMA Monotone ==
  ASSUME NEW u, records'[u] = records[u], files'[u] = files[u], registered'[u] = registered[u],
         removed => removed', crashed' = crashed, Served(u)' => Served(u)
  PROVE /\ Whole(u) => Whole(u)'
        /\ Sound(u) => Sound(u)'
        /\ \A op : Phase(op, u) => Phase(op, u)'
        /\ HasRows(u) => HasRows(u)'
        /\ Mat!StatusOf(u)' = Mat!StatusOf(u)
        /\ Mat!HasTable(u)' = Mat!HasTable(u)
<1>1. /\ Mat!StatusOf(u)' = Mat!StatusOf(u)
      /\ Mat!HasTable(u)' = Mat!HasTable(u)
  BY DEF Mat!StatusOf, Mat!HasTable
<1>2. Whole(u) => Whole(u)'
  BY DEF Whole
<1>3. Sound(u) => Sound(u)'
  BY <1>1, <1>2 DEF Sound
<1>4. HasRows(u) => HasRows(u)'
  BY <1>1 DEF HasRows
<1>5. ASSUME NEW op, Phase(op, u) PROVE Phase(op, u)'
  <2>1. RefreshPhase(op, u) => RefreshPhase(op, u)'
    BY <1>1, <1>2, <1>3 DEF RefreshPhase
  <2>2. DeletePhase(op, u) => DeletePhase(op, u)'
    BY <1>1, <1>2, <1>3 DEF DeletePhase
  <2>3. RestorePhase(op, u) => RestorePhase(op, u)'
    BY <1>1, <1>2, <1>3 DEF RestorePhase
  <2> QED BY <1>3, <1>5, <2>1, <2>2, <2>3 DEF Phase
<1> QED BY <1>1, <1>2, <1>3, <1>4, <1>5

LEMMA MoveKeeps ==
  ASSUME NEW o \in Slots, NEW q, MatInv, Mat!Busy(o), Mat!GoesOn(o, q), SameTask(q, ops[o])
  PROVE /\ DOMAIN ops' = Slots /\ ops'[o] = q /\ \A p \in Slots : p # o => ops'[p] = ops[p]
        /\ \A p \in Slots : /\ Mat!TablesOf(ops[p])' = Mat!TablesOf(ops[p])
                            /\ ops'[p].kind = ops[p].kind /\ ops'[p].table = ops[p].table
                            /\ ops'[p].todo = ops[p].todo
                            /\ TaskShape(ops[p])'
        /\ Restoring' = Restoring /\ restored' = restored /\ listed' = listed
        /\ \A u : Served(u)' = Served(u)
<1>1. /\ DOMAIN ops' = Slots /\ ops'[o] = q /\ \A p \in Slots : p # o => ops'[p] = ops[p]
      /\ restored' = restored /\ listed' = listed
  BY DEF Mat!GoesOn, MatInv, Shapes
<1>2. \A p \in Slots : /\ ops'[p].kind = ops[p].kind /\ ops'[p].table = ops[p].table
                       /\ ops'[p].todo = ops[p].todo
  BY <1>1 DEF SameTask
<1>3. \A p \in Slots : Mat!TablesOf(ops[p])' = Mat!TablesOf(ops[p])
  BY <1>2 DEF Mat!TablesOf
<1>4. \A p \in Slots : TaskShape(ops[p])'
  <2> TAKE p \in Slots
  <2>1. TaskShape(ops[p]) /\ DOMAIN ops'[p] = Fields
    BY <1>1 DEF MatInv, Shapes, SameTask, TaskShape
  <2>2. ops'[p].kind = "none" => ops'[p].at = "none"
    BY <1>1, <1>2, <2>1 DEF TaskShape, Mat!Busy
  <2> QED BY <1>2, <2>1, <2>2 DEF TaskShape
<1>5. Restoring' = Restoring
  BY <1>2 DEF Restoring
<1>6. \A u : Served(u)' = Served(u)
  BY <1>1, <1>2, <1>3, <1>5 DEF Served
<1> QED BY <1>1, <1>2, <1>3, <1>4, <1>5, <1>6

\* A step of operation o with its table t, after which it is at q with it.
LEMMA MoveInv ==
  ASSUME NEW o \in Slots, NEW t \in Tables, NEW q, MatInv, Mat!Busy(o), t = ops[o].table,
         Untouched(t), Mat!GoesOn(o, q), SameTask(q, ops[o]),
         t \in touched' \/ (Phase(q, t)' /\ HasRows(t)'
                            /\ (Mat!StatusOf(t)' = "importing" => q.kind = "refresh"
                                                                  \/ Mat!StatusOf(t) = "importing"))
  PROVE MatInv'
<1> DEFINE K == \A p \in Slots : /\ Mat!TablesOf(ops[p])' = Mat!TablesOf(ops[p])
                            /\ ops'[p].kind = ops[p].kind /\ ops'[p].table = ops[p].table
                            /\ ops'[p].todo = ops[p].todo
                            /\ TaskShape(ops[p])'
<1>0. /\ DOMAIN ops' = Slots /\ ops'[o] = q /\ \A p \in Slots : p # o => ops'[p] = ops[p]
      /\ K
      /\ Restoring' = Restoring /\ restored' = restored /\ listed' = listed
      /\ \A u : Served(u)' = Served(u)
  BY MoveKeeps
<1> HIDE DEF K
<1>1. Shapes'
  BY <1>0 DEF Shapes, Untouched, MatInv, K
<1>2. OneRestore'
  BY <1>0 DEF OneRestore, Untouched, MatInv, K
<1>3. ASSUME NEW u \in Tables, u \notin touched', u # t PROVE TableInv(u)'
  <2>0. u \notin touched /\ TableInv(u)
    BY <1>3 DEF MatInv, Untouched
  <2>1. /\ Sound(u) => Sound(u)'
        /\ \A op : Phase(op, u) => Phase(op, u)'
        /\ HasRows(u) => HasRows(u)'
        /\ Mat!StatusOf(u)' = Mat!StatusOf(u)
    BY <1>0, <1>3, Monotone DEF Untouched
  <2>2. HasRows(u)'
    BY <2>0, <2>1 DEF TableInv
  <2>3. NotAsked(u)'
    BY <2>0, <2>1, <1>0 DEF TableInv, NotAsked, K
  <2>4. (\A a, b \in Slots :
          u \in Mat!TablesOf(ops[a]) /\ u \in Mat!TablesOf(ops[b]) => a = b)'
    BY <2>0, <1>0 DEF TableInv, K
  <2>5. ((\A a \in Slots : u \notin Mat!TablesOf(ops[a])) => Sound(u))'
    BY <2>0, <2>1, <1>0 DEF TableInv, K
  <2>6. (\A a \in Slots : Mat!Busy(a) /\ ops[a].table = u => Phase(ops[a], u))'
    BY <2>0, <2>1, <1>0, <1>3 DEF TableInv, Mat!Busy, K
  <2>7. ASSUME NEW a \in Slots, NEW x \in ops'[a].todo, Mat!Busy(a)', x.table = u
        PROVE Waits(ops[a], x)'
    <3>1. x \in ops[a].todo /\ Mat!Busy(a) /\ ops'[a].kind = ops[a].kind
      BY <2>7, <1>0 DEF Mat!Busy, K
    <3>2. Waits(ops[a], x)
      BY <2>0, <2>7, <3>1 DEF TableInv
    <3> QED BY <2>1, <2>7, <3>1, <3>2, <1>0 DEF Waits, Untouched
  <2> QED BY <2>2, <2>3, <2>4, <2>5, <2>6, <2>7 DEF TableInv
<1>4. ASSUME t \notin touched' PROVE TableInv(t)'
  <2>0. t \notin touched /\ TableInv(t)
    BY <1>4 DEF MatInv, Untouched
  <2>1. Phase(q, t)' /\ HasRows(t)'
    BY <1>4
  <2>2. NotAsked(t)'
    <3>1. ops[o].kind = q.kind /\ ops'[o].table = t /\ ops'[o].kind = q.kind
      BY <1>0 DEF SameTask
    <3>2. CASE q.kind = "refresh"
      BY <3>1, <3>2 DEF NotAsked
    <3>3. CASE q.kind # "refresh"
      BY <3>3, <1>0, <1>4, <2>0 DEF NotAsked, TableInv, K
    <3> QED BY <3>2, <3>3
  <2>3. \A a \in Slots : t \in Mat!TablesOf(ops[a]) => a = o
    BY <2>0 DEF TableInv, Mat!TablesOf, Mat!Busy
  <2>4. (\A a, b \in Slots :
          t \in Mat!TablesOf(ops[a]) /\ t \in Mat!TablesOf(ops[b]) => a = b)'
    BY <2>3, <1>0 DEF K
  <2>5. t \in Mat!TablesOf(ops[o])'
    BY <1>0 DEF K, Mat!TablesOf, Mat!Busy
  <2>6. (\A a \in Slots : Mat!Busy(a) /\ ops[a].table = t => Phase(ops[a], t))'
    <3> SUFFICES ASSUME NEW a \in Slots, Mat!Busy(a)', ops'[a].table = t PROVE Phase(ops[a], t)'
      OBVIOUS
    <3>1. t \in Mat!TablesOf(ops[a])
      BY <1>0 DEF K, Mat!TablesOf, Mat!Busy
    <3>2. ops'[a] = q
      BY <2>3, <3>1, <1>0
    <3> QED BY <3>2, <2>1
  <2>7. ASSUME NEW a \in Slots, NEW x \in ops'[a].todo, Mat!Busy(a)', x.table = t
        PROVE Waits(ops[a], x)'
    <3>1. t \in Mat!TablesOf(ops[a])
      BY <2>7, <1>0 DEF K, Mat!TablesOf, Mat!Busy
    <3>2. a = o
      BY <2>3, <3>1
    <3>3. x \in ops[o].todo /\ x.table = ops[o].table
      BY <2>7, <3>2, <1>0 DEF K
    <3> QED BY <3>3 DEF MatInv, Shapes, TaskShape
  <2> QED BY <2>1, <2>2, <2>4, <2>5, <2>6, <2>7 DEF TableInv
<1> QED BY <1>1, <1>2, <1>3, <1>4 DEF MatInv

\* An operation takes its next table, or is over.
LEMMA DoneKeeps ==
  ASSUME NEW o \in Slots, NEW t, MatInv, Mat!Busy(o), t = ops[o].table,
         Mat!TableDone(o) \/ Mat!Ends(o, FALSE)
  PROVE /\ DOMAIN ops' = Slots /\ \A p \in Slots : p # o => ops'[p] = ops[p]
        /\ TaskShape(ops[o])'
        /\ \/ ops'[o] = Mat!Idle
           \/ \E x \in ops[o].todo : ops'[o] = Mat!Turn(ops[o].kind, x, ops[o].todo \ {x})
        /\ ops'[o].kind \in {"none", ops[o].kind}
        /\ Mat!TablesOf(ops[o])' \subseteq Mat!TablesOf(ops[o]) \ {t}
        /\ restored' => restored \/ (ops[o].kind = "restore" /\ ops'[o].kind = "none")
        /\ listed' = listed \/ \A u \in Tables : listed'[u] = Mat!StatusOf(u)'
        /\ \A u : u # t \/ ops[o].kind # "restore" => (Served(u)' => Served(u))
<1>0. DOMAIN ops = Slots /\ TaskShape(ops[o])
  BY DEF MatInv, Shapes
<1>1. CASE \E x \in ops[o].todo :
             Mat!GoesOn(o, Mat!Turn(ops[o].kind, x, ops[o].todo \ {x}))
  <2>1. PICK x \in ops[o].todo : Mat!GoesOn(o, Mat!Turn(ops[o].kind, x, ops[o].todo \ {x}))
    BY <1>1
  <2> DEFINE q == Mat!Turn(ops[o].kind, x, ops[o].todo \ {x})
  <2>2. /\ DOMAIN q = Fields /\ q.kind = ops[o].kind /\ q.table = x.table
        /\ q.todo = ops[o].todo \ {x}
    BY TurnFields
  <2>3. /\ DOMAIN ops' = Slots /\ ops'[o] = q /\ \A p \in Slots : p # o => ops'[p] = ops[p]
        /\ restored' = restored /\ listed' = listed
    BY <1>0, <2>1 DEF Mat!GoesOn
  <2> HIDE DEF q
  <2>4. TaskShape(q)
    BY <1>0, <2>2 DEF TaskShape, Mat!Busy
  <2>5. Mat!TablesOf(q) = Mat!TablesOf(ops[o]) \ {t}
    BY <1>0, <2>2 DEF TaskShape, Mat!TablesOf, Mat!Busy
  <2>6. \A u : u # t \/ ops[o].kind # "restore" => (Served(u)' => Served(u))
    <3> SUFFICES ASSUME NEW u, u # t \/ ops[o].kind # "restore", Served(u)' PROVE Served(u)
      OBVIOUS
    <3>1. restored \/ Restoring
      BY <2>2, <2>3 DEF Served, Restoring
    <3>2. ASSUME NEW p \in Slots, ops[p].kind = "restore" PROVE u \notin Mat!TablesOf(ops[p])
      <4>1. ops'[p].kind = "restore"
        BY <2>2, <2>3, <3>2
      <4>2. u \notin Mat!TablesOf(ops[p])'
        BY <4>1 DEF Served
      <4>3. CASE p = o
        BY <4>2, <4>3, <2>3, <2>5, <3>2 DEF Mat!TablesOf
      <4>4. CASE p # o
        BY <4>2, <4>4, <2>3 DEF Mat!TablesOf
      <4> QED BY <4>3, <4>4
    <3> QED BY <3>1, <3>2 DEF Served
  <2>7. TaskShape(ops[o])' /\ Mat!TablesOf(ops[o])' \subseteq Mat!TablesOf(ops[o]) \ {t}
    BY <2>3, <2>4, <2>5 DEF TaskShape, Mat!TablesOf
  <2>8. ops'[o] = Mat!Turn(ops[o].kind, x, ops[o].todo \ {x})
    BY <2>3 DEF q
  <2> QED BY <2>2, <2>3, <2>6, <2>7, <2>8
<1>2. ASSUME NEW well, Mat!Ends(o, well), ops[o].todo = {} \/ ~well
      PROVE /\ DOMAIN ops' = Slots /\ \A p \in Slots : p # o => ops'[p] = ops[p]
            /\ TaskShape(ops[o])'
            /\ ops'[o] = Mat!Idle
            /\ ops'[o].kind = "none"
            /\ Mat!TablesOf(ops[o])' \subseteq Mat!TablesOf(ops[o]) \ {t}
            /\ restored' => restored \/ (ops[o].kind = "restore" /\ ops'[o].kind = "none")
            /\ listed' = listed \/ \A u \in Tables : listed'[u] = Mat!StatusOf(u)'
            /\ \A u : u # t \/ ops[o].kind # "restore" => (Served(u)' => Served(u))
  <2>1. /\ DOMAIN ops' = Slots /\ ops'[o] = Mat!Idle
        /\ \A p \in Slots : p # o => ops'[p] = ops[p]
        /\ restored' <=> (restored \/ (well /\ ops[o].kind = "restore"))
    BY <1>0, <1>2 DEF Mat!Ends
  <2>2. ops'[o].kind = "none" /\ TaskShape(ops[o])'
    BY <2>1, IdleFields DEF TaskShape
  <2>3. Mat!TablesOf(ops[o])' = {}
    BY <2>2 DEF Mat!TablesOf
  <2>4. listed' = listed \/ \A u \in Tables : listed'[u] = Mat!StatusOf(u)'
    BY <1>2 DEF Mat!Ends, Mat!StatusOf
  <2>5. \A u : u # t \/ ops[o].kind # "restore" => (Served(u)' => Served(u))
    <3> SUFFICES ASSUME NEW u, u # t \/ ops[o].kind # "restore", Served(u)' PROVE Served(u)
      OBVIOUS
    <3>1. \A p \in Slots : ops[p].kind = "restore" /\ p # o => u \notin Mat!TablesOf(ops[p])
      BY <2>1 DEF Served, Mat!TablesOf
    <3>2. CASE ops[o].kind # "restore"
      <4>1. restored \/ Restoring
        BY <2>1, <2>2, <3>2 DEF Served, Restoring
      <4> QED BY <3>1, <3>2, <4>1 DEF Served
    <3>3. CASE ops[o].kind = "restore"
      <4>1. Restoring /\ ~restored
        BY <3>3 DEF Restoring, MatInv, OneRestore
      <4>2. ~Restoring'
        BY <2>1, <2>2, <3>3 DEF Restoring, MatInv, OneRestore
      <4>3. ops[o].todo = {}
        BY <1>2, <2>1, <4>1, <4>2 DEF Served
      <4>4. u \notin Mat!TablesOf(ops[o])
        BY <3>3, <4>3 DEF Mat!TablesOf
      <4> QED BY <3>1, <4>1, <4>4 DEF Served
    <3> QED BY <3>2, <3>3
  <2> QED BY <2>1, <2>2, <2>3, <2>4, <2>5
<1> QED BY <1>1, <1>2 DEF Mat!TableDone

\* A step of operation o after which its table t is done.
LEMMA DoneInv ==
  ASSUME NEW o \in Slots, NEW t \in Tables, MatInv, Mat!Busy(o), t = ops[o].table,
         Untouched(t), Mat!TableDone(o) \/ Mat!Ends(o, FALSE),
         t \in touched' \/ (Sound(t)' /\ HasRows(t)'
                            /\ (Mat!StatusOf(t)' = "importing" =>
                                  ops[o].kind = "restore" /\ Mat!StatusOf(t) = "importing"))
  PROVE MatInv'
<1>0. /\ DOMAIN ops' = Slots /\ \A p \in Slots : p # o => ops'[p] = ops[p]
      /\ TaskShape(ops[o])'
      /\ \/ ops'[o] = Mat!Idle
         \/ \E x \in ops[o].todo : ops'[o] = Mat!Turn(ops[o].kind, x, ops[o].todo \ {x})
      /\ ops'[o].kind \in {"none", ops[o].kind}
      /\ Mat!TablesOf(ops[o])' \subseteq Mat!TablesOf(ops[o]) \ {t}
      /\ restored' => restored \/ (ops[o].kind = "restore" /\ ops'[o].kind = "none")
      /\ listed' = listed \/ \A u \in Tables : listed'[u] = Mat!StatusOf(u)'
      /\ \A u : u # t \/ ops[o].kind # "restore" => (Served(u)' => Served(u))
  BY DoneKeeps
<1>a. \A p \in Slots : p # o => Mat!TablesOf(ops[p])' = Mat!TablesOf(ops[p])
  BY <1>0 DEF Mat!TablesOf
<1>b. \A p \in Slots : Mat!TablesOf(ops[p])' \subseteq Mat!TablesOf(ops[p])
  BY <1>0, <1>a
<1>c. TaskShape(ops[o]) /\ \A p \in Slots : p # o => TaskShape(ops[p])'
  BY <1>0 DEF MatInv, Shapes, TaskShape
<1>1. Shapes'
  BY <1>0, <1>c DEF Shapes, Untouched, MatInv
<1>2. OneRestore'
  <2>1. \A p \in Slots : ops'[p].kind = "restore" => ops[p].kind = "restore"
    BY <1>0
  <2>2. Restoring' => Restoring
    BY <2>1 DEF Restoring
  <2>3. restored' => ~Restoring'
    <3>1. CASE restored
      BY <3>1, <2>2 DEF MatInv, OneRestore
    <3>2. CASE ops[o].kind = "restore" /\ ops'[o].kind = "none"
      BY <2>1, <3>2 DEF MatInv, OneRestore, Restoring
    <3> QED BY <3>1, <3>2, <1>0
  <2>4. restored' => restored \/ Restoring
    BY <1>0 DEF Restoring
  <2> QED BY <2>1, <2>2, <2>3, <2>4 DEF OneRestore, MatInv, Untouched
<1>3. ASSUME NEW u \in Tables, u \notin touched', u # t PROVE TableInv(u)'
  <2>0. u \notin touched /\ TableInv(u)
    BY <1>3 DEF MatInv, Untouched
  <2>1. /\ Sound(u) => Sound(u)'
        /\ \A op : Phase(op, u) => Phase(op, u)'
        /\ HasRows(u) => HasRows(u)'
        /\ Mat!StatusOf(u)' = Mat!StatusOf(u)
        /\ Mat!HasTable(u)' = Mat!HasTable(u)
    BY <1>0, <1>3, Monotone DEF Untouched
  <2>2. HasRows(u)'
    BY <2>0, <2>1 DEF TableInv
  <2>3. NotAsked(u)'
    <3>1. CASE listed' = listed
      BY <2>0, <2>1, <1>0, <1>3, <3>1 DEF TableInv, NotAsked
    <3>2. CASE \A v \in Tables : listed'[v] = Mat!StatusOf(v)'
      BY <3>2 DEF NotAsked
    <3> QED BY <3>1, <3>2, <1>0
  <2>4. (\A a, b \in Slots :
          u \in Mat!TablesOf(ops[a]) /\ u \in Mat!TablesOf(ops[b]) => a = b)'
    BY <2>0, <1>b DEF TableInv
  <2>a. ASSUME NEW x \in ops[o].todo, x.table = u
        PROVE /\ Waits(ops[o], x) /\ Sound(u)'
              /\ \/ ops[o].kind = "remove" /\ removed'
                 \/ /\ ops[o].kind = "restore" /\ x.status = Mat!StatusOf(u)'
                    /\ x.status \in {"available", "importing"}
    <3>1. Waits(ops[o], x)
      BY <2>0, <2>a DEF TableInv
    <3> QED BY <3>1, <2>1, <2>a DEF Waits, Untouched
  <2>b. CASE ops'[o] = Mat!Idle
    <3>1. ops'[o].kind = "none" /\ ops'[o].todo = {}
      BY <2>b, IdleFields
    <3>2. ((\A a \in Slots : u \notin Mat!TablesOf(ops[a])) => Sound(u))'
      <4> SUFFICES ASSUME \A a \in Slots : u \notin Mat!TablesOf(ops[a])' PROVE Sound(u)'
        OBVIOUS
      <4>1. CASE u \in Mat!TablesOf(ops[o])
        <5>1. PICK x \in ops[o].todo : x.table = u
          BY <4>1, <1>3 DEF Mat!TablesOf, Mat!Busy
        <5> QED BY <2>a, <5>1
      <4>2. CASE u \notin Mat!TablesOf(ops[o])
        BY <4>2, <1>a, <2>0, <2>1 DEF TableInv
      <4> QED BY <4>1, <4>2
    <3>3. (\A a \in Slots : Mat!Busy(a) /\ ops[a].table = u => Phase(ops[a], u))'
      BY <2>0, <2>1, <1>0, <3>1 DEF TableInv, Mat!Busy
    <3>4. (\A a \in Slots : \A x \in ops[a].todo : Mat!Busy(a) /\ x.table = u => Waits(ops[a], x))'
      <4> SUFFICES ASSUME NEW a \in Slots, NEW x \in ops'[a].todo, Mat!Busy(a)', x.table = u
                   PROVE Waits(ops[a], x)'
        OBVIOUS
      <4>1. a # o /\ ops'[a] = ops[a] /\ Waits(ops[a], x)
        BY <3>1, <1>0, <2>0 DEF TableInv, Mat!Busy
      <4> QED BY <4>1, <2>1 DEF Waits, Untouched
    <3> QED BY <2>2, <2>3, <2>4, <3>2, <3>3, <3>4 DEF TableInv
  <2>c. ASSUME NEW y \in ops[o].todo, ops'[o] = Mat!Turn(ops[o].kind, y, ops[o].todo \ {y})
        PROVE TableInv(u)'
    <3> DEFINE q == Mat!Turn(ops[o].kind, y, ops[o].todo \ {y})
    <3>0. ops'[o] = q
      BY <2>c
    <3>1. /\ q.kind = ops[o].kind /\ q.table = y.table /\ q.at = Mat!FirstOf(ops[o].kind)
          /\ q.to = y.status /\ q.todo = ops[o].todo \ {y} /\ ~q.caught
      BY TurnFields
    <3> HIDE DEF q
    <3>2. ((\A a \in Slots : u \notin Mat!TablesOf(ops[a])) => Sound(u))'
      <4> SUFFICES ASSUME \A a \in Slots : u \notin Mat!TablesOf(ops[a])' PROVE Sound(u)'
        OBVIOUS
      <4>1. CASE u \in Mat!TablesOf(ops[o])
        <5>1. PICK x \in ops[o].todo : x.table = u
          BY <4>1, <1>3 DEF Mat!TablesOf, Mat!Busy
        <5> QED BY <2>a, <5>1
      <4>2. CASE u \notin Mat!TablesOf(ops[o])
        BY <4>2, <1>a, <2>0, <2>1 DEF TableInv
      <4> QED BY <4>1, <4>2
    <3>3. ASSUME NEW a \in Slots, Mat!Busy(a)', ops'[a].table = u PROVE Phase(ops[a], u)'
      <4>1. CASE a # o
        BY <4>1, <3>3, <2>0, <2>1, <1>0 DEF TableInv, Mat!Busy
      <4>2. CASE a = o
        <5>1. y.table = u
          BY <3>0, <3>1, <3>3, <4>2
        <5>2. CASE ops[o].kind = "remove" /\ removed'
          BY <5>1, <5>2, <2>a, <3>0, <3>1, <4>2 DEF Phase, Mat!FirstOf
        <5>3. CASE ops[o].kind = "restore" /\ y.status = Mat!StatusOf(u)'
                     /\ y.status \in {"available", "importing"}
          <6>1. q.at = "exists" /\ Sound(u)' /\ Mat!HasTable(u)'
            BY <5>1, <5>3, <2>a, <3>1 DEF Mat!FirstOf, Mat!HasTable, Mat!Gone
          <6>2. RestorePhase(ops[o], u)'
            BY <6>1, <5>3, <3>0, <3>1 DEF RestorePhase
          <6> QED BY <6>1, <6>2, <5>3, <3>0, <3>1, <4>2 DEF Phase
        <5> QED BY <5>1, <5>2, <5>3, <2>a
      <4> QED BY <4>1, <4>2
    <3>4. ASSUME NEW a \in Slots, NEW x \in ops'[a].todo, Mat!Busy(a)', x.table = u
          PROVE Waits(ops[a], x)'
      <4>1. CASE a # o
        <5>1. Waits(ops[a], x) /\ ops'[a] = ops[a]
          BY <4>1, <3>4, <1>0, <2>0 DEF TableInv, Mat!Busy
        <5> QED BY <5>1, <2>1, <3>4 DEF Waits, Untouched
      <4>2. CASE a = o
        <5>1. x \in ops[o].todo
          BY <3>0, <3>1, <3>4, <4>2
        <5>2. ops'[a].kind = ops[o].kind
          BY <3>0, <3>1, <4>2
        <5> QED BY <5>1, <5>2, <2>a, <3>4, <4>2 DEF Waits
      <4> QED BY <4>1, <4>2
    <3> QED BY <2>2, <2>3, <2>4, <3>2, <3>3, <3>4 DEF TableInv
  <2> QED BY <2>b, <2>c, <1>0
<1>4. ASSUME t \notin touched' PROVE TableInv(t)'
  <2>0. t \notin touched /\ TableInv(t)
    BY <1>4 DEF MatInv, Untouched
  <2>1. Sound(t)' /\ HasRows(t)'
    BY <1>4
  <2>3. \A a \in Slots : t \in Mat!TablesOf(ops[a]) => a = o
    BY <2>0 DEF TableInv, Mat!TablesOf, Mat!Busy
  <2>4. \A a \in Slots : t \notin Mat!TablesOf(ops[a])'
    BY <2>3, <1>0, <1>a
  <2>2. NotAsked(t)'
    <3>1. CASE \A v \in Tables : listed'[v] = Mat!StatusOf(v)'
      BY <3>1 DEF NotAsked
    <3>2. CASE listed' = listed /\ Mat!StatusOf(t)' = "importing"
      <4>1. ops[o].kind = "restore" /\ Mat!StatusOf(t) = "importing"
        BY <1>4, <3>2
      <4>2. \A a \in Slots : ops[a].kind = "refresh" => ops[a].table # t
        BY <2>3, <4>1 DEF Mat!TablesOf
      <4>3. listed[t] # "available"
        BY <2>0, <4>1, <4>2 DEF TableInv, NotAsked
      <4> QED BY <3>2, <4>3 DEF NotAsked
    <3>3. CASE Mat!StatusOf(t)' # "importing"
      BY <3>3 DEF NotAsked
    <3> QED BY <3>1, <3>2, <3>3, <1>0
  <2>5. (\A a \in Slots : Mat!Busy(a) /\ ops[a].table = t => Phase(ops[a], t))'
    BY <2>4 DEF Mat!TablesOf, Mat!Busy
  <2>6. (\A a \in Slots : \A x \in ops[a].todo : Mat!Busy(a) /\ x.table = t => Waits(ops[a], x))'
    BY <2>4 DEF Mat!TablesOf, Mat!Busy
  <2> QED BY <2>1, <2>2, <2>4, <2>5, <2>6 DEF TableInv
<1> QED BY <1>1, <1>2, <1>3, <1>4 DEF MatInv

-----------------------------------------------------------------------------
(* The forms of a step. *)

LEMMA NextForm ==
  ASSUME NEW o \in Slots, NEW s, MatInv, Mat!Next(o, s)
  PROVE \E q : /\ Mat!GoesOn(o, q) /\ SameTask(q, ops[o]) /\ q.at = s /\ q.to = ops[o].to
               /\ q.saw = ops[o].saw /\ q.data = ops[o].data /\ (q.caught => ops[o].caught)
<1>1. DOMAIN ops[o] = Fields
  BY DEF MatInv, Shapes, TaskShape
<1> DEFINE q == [ops[o] EXCEPT !.at = s]
<1>2. /\ SameTask(q, ops[o]) /\ q.at = s /\ q.to = ops[o].to
      /\ q.saw = ops[o].saw /\ q.data = ops[o].data /\ (q.caught => ops[o].caught)
  BY <1>1 DEF SameTask, Fields
<1>3. Mat!GoesOn(o, q)
  BY DEF Mat!Next
<1> QED BY <1>2, <1>3

LEMMA MarkForm ==
  ASSUME NEW o \in Slots, NEW status, MatInv, Mat!Mark(o, status)
  PROVE \E q : /\ Mat!GoesOn(o, q) /\ SameTask(q, ops[o]) /\ q.at = "get" /\ q.to = status
               /\ q.data = ops[o].data /\ (q.caught => ops[o].caught)
<1>1. DOMAIN ops[o] = Fields
  BY DEF MatInv, Shapes, TaskShape
<1> DEFINE q == [ops[o] EXCEPT !.at = "get", !.to = status]
<1>2. /\ SameTask(q, ops[o]) /\ q.at = "get" /\ q.to = status
      /\ q.data = ops[o].data /\ (q.caught => ops[o].caught)
  BY <1>1 DEF SameTask, Fields
<1>3. Mat!GoesOn(o, q)
  BY DEF Mat!Mark
<1> QED BY <1>2, <1>3

LEMMA ReadForm ==
  ASSUME NEW o \in Slots, NEW s, NEW t, MatInv, Mat!Reads(o, t, s)
  PROVE \E q : /\ Mat!GoesOn(o, q) /\ SameTask(q, ops[o]) /\ q.at = s /\ q.to = ops[o].to
               /\ q.saw = records[t] /\ q.data = ops[o].data /\ (q.caught => ops[o].caught)
<1>1. DOMAIN ops[o] = Fields
  BY DEF MatInv, Shapes, TaskShape
<1> DEFINE q == [ops[o] EXCEPT !.at = s, !.saw = records[t]]
<1>2. /\ SameTask(q, ops[o]) /\ q.at = s /\ q.to = ops[o].to
      /\ q.saw = records[t] /\ q.data = ops[o].data /\ (q.caught => ops[o].caught)
  BY <1>1 DEF SameTask, Fields
<1>3. Mat!GoesOn(o, q)
  BY DEF Mat!Reads
<1> QED BY <1>2, <1>3

LEMMA ThrowForm ==
  ASSUME NEW o \in Slots, MatInv, Mat!Throws(o)
  PROVE \/ Mat!Ends(o, FALSE) /\ ~(ops[o].kind = "refresh" /\ ops[o].at # "find" /\ ~ops[o].caught)
        \/ \E q : /\ Mat!GoesOn(o, q) /\ SameTask(q, ops[o]) /\ q.at = "get"
                  /\ ops[o].kind = "refresh" => q.to = "available"
<1>1. DOMAIN ops[o] = Fields
  BY DEF MatInv, Shapes, TaskShape
<1>2. CASE ops[o].kind \in {"refresh", "restore"} /\ ops[o].at # "find" /\ ~ops[o].caught
  <2> DEFINE q == [ops[o] EXCEPT !.at = "get", !.caught = TRUE,
                    !.to = IF ops[o].kind = "refresh" THEN "available" ELSE "unavailable"]
  <2>1. /\ SameTask(q, ops[o]) /\ q.at = "get"
        /\ ops[o].kind = "refresh" => q.to = "available"
    BY <1>1 DEF SameTask, Fields
  <2>2. Mat!GoesOn(o, q)
    BY <1>2 DEF Mat!Throws
  <2> QED BY <2>1, <2>2
<1>3. CASE ~(ops[o].kind \in {"refresh", "restore"} /\ ops[o].at # "find" /\ ~ops[o].caught)
  BY <1>3 DEF Mat!Throws
<1> QED BY <1>2, <1>3

\* What a table had at once by two operations, or hit by a fault, may go through.
LEMMA TouchedMove ==
  ASSUME NEW o \in Slots, NEW t \in Tables, MatInv, Mat!Busy(o), t = ops[o].table, Untouched(t),
         t \in touched',
         \/ \E q : Mat!GoesOn(o, q) /\ SameTask(q, ops[o])
         \/ Mat!TableDone(o) \/ Mat!Ends(o, FALSE)
  PROVE MatInv'
BY MoveInv, DoneInv

LEMMA TouchedThrow ==
  ASSUME NEW o \in Slots, NEW t \in Tables, MatInv, Mat!Busy(o), t = ops[o].table, Untouched(t),
         t \in touched', Mat!Throws(o)
  PROVE MatInv'
BY ThrowForm, TouchedMove

\* Of the table that an operation is at.
LEMMA TableAt ==
  ASSUME NEW o \in Slots, MatInv, Mat!Busy(o)
  PROVE /\ ops[o].table \in Tables
        /\ ops[o].table \notin touched =>
             TableInv(ops[o].table) /\ Phase(ops[o], ops[o].table) /\ HasRows(ops[o].table)
<1>1. ops[o].table \in Tables
  BY DEF MatInv, Shapes, TaskShape, Mat!Busy
<1> QED BY <1>1 DEF MatInv, TableInv

\* A step that changes no table.
LEMMA NoChange ==
  ASSUME NEW t, MatInv, UNCHANGED <<records, files, registered, hasDuckDB, removed, crashed>>,
         touched \subseteq touched', source' \in Nat, source' >= 1
  PROVE Untouched(t)
BY DEF Untouched, MatInv, Shapes

-----------------------------------------------------------------------------
(* The steps. *)

\* After a step that changed no table, and left the operation where it is.
LEMMA StaySound ==
  ASSUME NEW t, records' = records, files' = files, registered' = registered,
         removed' = removed, crashed' = crashed, Served(t)' => Served(t)
  PROVE /\ Whole(t) => Whole(t)'
        /\ Sound(t) => Sound(t)'
        /\ HasRows(t) => HasRows(t)'
        /\ Mat!StatusOf(t)' = Mat!StatusOf(t)
        /\ Mat!HasTable(t)' = Mat!HasTable(t)
BY Monotone

LEMMA FindInv ==
  ASSUME NEW o \in Slots, NEW t, MatInv, Mat!Busy(o), t = ops[o].table, Mat!Find(o, t)
  PROVE MatInv'
<1>0. /\ t \in Tables /\ Untouched(t) /\ touched' = touched /\ removed' = removed /\ crashed' = crashed
      /\ records' = records /\ files' = files /\ registered' = registered
      /\ t \notin touched => TableInv(t) /\ Phase(ops[o], t) /\ HasRows(t)
  BY TableAt, NoChange DEF Mat!Find, Mat!NoFault, Mat!session, Mat!asked, MatInv, Shapes
<1>a. ops[o].at = "find"
  BY DEF Mat!Find
<1>b. t \in touched \/ /\ Sound(t) /\ ops[o].kind \in {"refresh", "delete"}
                       /\ ops[o].kind = "refresh" => Mat!StatusOf(t) # "importing"
  BY <1>0, <1>a DEF Phase, RefreshPhase, DeletePhase, RestorePhase
<1>1. CASE ~Mat!HasTable(t) /\ Mat!Throws(o)
  <2>1. Mat!Ends(o, FALSE)
    BY <1>1, <1>a DEF Mat!Throws
  <2>2. t \in touched' \/ (Sound(t)' /\ HasRows(t)' /\ Mat!StatusOf(t)' # "importing")
    <3> SUFFICES ASSUME t \notin touched PROVE Sound(t)' /\ HasRows(t)' /\ Mat!StatusOf(t)' # "importing"
      BY <1>0
    <3>1. Served(t)' => Served(t)
      BY <1>b, <2>1, DoneKeeps
    <3> QED BY <1>0, <1>1, <1>b, <3>1, StaySound DEF Mat!HasTable, Mat!Gone
  <2> QED BY <1>0, <2>1, <2>2, DoneInv
<1>2. CASE Mat!HasTable(t) /\ ops[o].kind = "refresh" /\ Mat!Mark(o, "importing")
  <2>1. PICK q : /\ Mat!GoesOn(o, q) /\ SameTask(q, ops[o]) /\ q.at = "get" /\ q.to = "importing"
                 /\ q.caught => ops[o].caught
    BY <1>2, MarkForm
  <2>2. t \in touched' \/ (Phase(q, t)' /\ HasRows(t)')
    <3> SUFFICES ASSUME t \notin touched PROVE Phase(q, t)' /\ HasRows(t)'
      BY <1>0
    <3>1. Served(t)' => Served(t)
      BY <2>1, MoveKeeps
    <3>2. /\ Sound(t)' /\ HasRows(t)' /\ Mat!StatusOf(t)' # "importing" /\ Mat!HasTable(t)'
          /\ ~ops[o].caught
      BY <1>0, <1>2, <1>a, <1>b, <3>1, StaySound DEF Phase
    <3> QED BY <1>2, <2>1, <3>2 DEF Phase, RefreshPhase, SameTask
  <2>3. q.kind = "refresh"
    BY <1>2, <2>1 DEF SameTask
  <2> QED BY <1>0, <2>1, <2>2, <2>3, MoveInv
<1>3. CASE Mat!HasTable(t) /\ ops[o].kind = "delete" /\ Mat!Next(o, "exists")
  <2>1. PICK q : /\ Mat!GoesOn(o, q) /\ SameTask(q, ops[o]) /\ q.at = "exists"
                 /\ q.caught => ops[o].caught
    BY <1>3, NextForm
  <2>2. t \in touched' \/ (Phase(q, t)' /\ HasRows(t)' /\ Mat!StatusOf(t)' = Mat!StatusOf(t))
    <3> SUFFICES ASSUME t \notin touched
                 PROVE Phase(q, t)' /\ HasRows(t)' /\ Mat!StatusOf(t)' = Mat!StatusOf(t)
      BY <1>0
    <3>1. Served(t)' => Served(t)
      BY <2>1, MoveKeeps
    <3>2. Sound(t)' /\ HasRows(t)' /\ Mat!StatusOf(t)' = Mat!StatusOf(t) /\ ~ops[o].caught
      BY <1>0, <1>3, <1>a, <1>b, <3>1, StaySound DEF Phase
    <3> QED BY <1>3, <2>1, <3>2 DEF Phase, DeletePhase, SameTask
  <2> QED BY <1>0, <2>1, <2>2, MoveInv
<1> QED BY <1>1, <1>2, <1>3 DEF Mat!Find

LEMMA GetInv ==
  ASSUME NEW o \in Slots, NEW t, MatInv, Mat!Busy(o), t = ops[o].table, Mat!GetTable(o, t)
  PROVE MatInv'
<1>0. /\ t \in Tables /\ Untouched(t) /\ touched' = touched /\ removed' = removed /\ crashed' = crashed
      /\ records' = records /\ files' = files /\ registered' = registered
      /\ t \notin touched => TableInv(t) /\ Phase(ops[o], t) /\ HasRows(t)
  BY TableAt, NoChange DEF Mat!GetTable, Mat!NoFault, Mat!session, Mat!asked, MatInv, Shapes
<1>a. ops[o].at = "get"
  BY DEF Mat!GetTable
<1>1. CASE ~Mat!HasTable(t) /\ Mat!Throws(o)
  <2>1. t \in touched
    BY <1>0, <1>1, <1>a DEF Phase, RefreshPhase, DeletePhase, RestorePhase, Mat!HasTable, Mat!Gone
  <2> QED BY <1>0, <1>1, <2>1, TouchedThrow
<1>2. CASE Mat!HasTable(t) /\ Mat!Reads(o, t, "save")
  <2>1. PICK q : /\ Mat!GoesOn(o, q) /\ SameTask(q, ops[o]) /\ q.at = "save" /\ q.to = ops[o].to
                 /\ q.saw = records[t] /\ q.data = ops[o].data /\ (q.caught => ops[o].caught)
    BY <1>2, ReadForm
  <2>2. t \in touched' \/ (Phase(q, t)' /\ HasRows(t)' /\ Mat!StatusOf(t)' = Mat!StatusOf(t))
    <3> SUFFICES ASSUME t \notin touched
                 PROVE Phase(q, t)' /\ HasRows(t)' /\ Mat!StatusOf(t)' = Mat!StatusOf(t)
      BY <1>0
    <3>1. Served(t)' => Served(t)
      BY <2>1, MoveKeeps
    <3>2. /\ Phase(ops[o], t) /\ HasRows(t)' /\ q.saw = records'[t]
          /\ Sound(t) => Sound(t)'
          /\ Whole(t) => Whole(t)'
          /\ Mat!StatusOf(t)' = Mat!StatusOf(t) /\ Mat!HasTable(t)' = Mat!HasTable(t)
      BY <1>0, <2>1, <3>1, StaySound
    <3>3. RefreshPhase(ops[o], t) => RefreshPhase(q, t)'
      BY <1>0, <1>a, <2>1, <3>2 DEF RefreshPhase
    <3>4. RestorePhase(ops[o], t) => RestorePhase(q, t)'
      BY <1>0, <1>a, <2>1, <3>2 DEF RestorePhase
    <3>5. ~DeletePhase(ops[o], t)
      BY <1>a DEF DeletePhase
    <3> QED BY <1>a, <2>1, <3>2, <3>3, <3>4, <3>5 DEF Phase, SameTask
  <2> QED BY <1>0, <2>1, <2>2, MoveInv
<1> QED BY <1>1, <1>2 DEF Mat!GetTable

LEMMA SaveInv ==
  ASSUME NEW o \in Slots, NEW t, MatInv, Mat!Busy(o), t = ops[o].table, Mat!SaveTable(o, t)
  PROVE MatInv'
<1>0. /\ t \in Tables /\ Untouched(t) /\ touched' = touched /\ removed' = removed /\ crashed' = crashed
      /\ files' = files /\ registered' = registered
      /\ records'[t] = Mat!Written(ops[o])
      /\ t \notin touched => TableInv(t) /\ Phase(ops[o], t) /\ HasRows(t)
  BY TableAt DEF Mat!SaveTable, Mat!NoFault, Mat!session, Mat!asked, MatInv, Shapes, Untouched
<1>a. ops[o].at = "save"
  BY DEF Mat!SaveTable
<1>b. t \in touched \/
        /\ ops[o].saw = records[t] /\ HasRows(t)
        /\ \/ ops[o].kind = "refresh" /\ RefreshPhase(ops[o], t)
           \/ ops[o].kind = "restore" /\ RestorePhase(ops[o], t)
        /\ ops[o].caught => ops[o].to = "available"
  BY <1>0, <1>a DEF Phase, DeletePhase
<1>1. CASE ops[o].to = "importing" /\ Mat!Next(o, "query")
  <2>1. PICK q : /\ Mat!GoesOn(o, q) /\ SameTask(q, ops[o]) /\ q.at = "query"
                 /\ q.caught => ops[o].caught
    BY <1>1, NextForm
  <2>2. t \in touched' \/ (Phase(q, t)' /\ HasRows(t)' /\ q.kind = "refresh")
    <3> SUFFICES ASSUME t \notin touched PROVE Phase(q, t)' /\ HasRows(t)' /\ q.kind = "refresh"
      BY <1>0
    <3>1. Served(t)' => Served(t)
      BY <2>1, MoveKeeps
    <3>2. /\ ops[o].kind = "refresh" /\ ~ops[o].caught /\ Sound(t)
          /\ Mat!HasTable(t) /\ Mat!StatusOf(t) # "importing"
      BY <1>a, <1>b, <1>1 DEF RefreshPhase, RestorePhase
    <3>3. /\ records'[t] = [records[t] EXCEPT !.status = "importing"]
          /\ DOMAIN records[t] = {"status", "rows"}
      BY <1>0, <1>1, <1>b DEF Mat!Written, HasRows
    <3>4. /\ DOMAIN records'[t] = {"status", "rows"}
          /\ records'[t].status = "importing" /\ records'[t].rows = records[t].rows
      BY <3>3
    <3>5. HasRows(t)' /\ Mat!StatusOf(t)' = "importing"
      BY <1>b, <3>2, <3>4 DEF HasRows, Mat!HasTable, Mat!StatusOf
    <3>6. Whole(t) => Whole(t)'
      BY <1>0, <3>1, <3>4 DEF Whole
    <3>7. Whole(t)' \/ files'[t] = Mat!NoFile
      BY <1>0, <1>b, <3>2, <3>6 DEF Sound, HasRows, Mat!HasTable
    <3> QED BY <2>1, <3>2, <3>5, <3>7 DEF Phase, RefreshPhase, SameTask
  <2> QED BY <1>0, <2>1, <2>2, MoveInv
<1>2. CASE ops[o].to = "refreshed" /\ Mat!Next(o, "register")
  <2>1. PICK q : /\ Mat!GoesOn(o, q) /\ SameTask(q, ops[o]) /\ q.at = "register"
                 /\ q.caught => ops[o].caught
    BY <1>2, NextForm
  <2>2. t \in touched' \/ (Phase(q, t)' /\ HasRows(t)' /\ q.kind = "refresh")
    <3> SUFFICES ASSUME t \notin touched PROVE Phase(q, t)' /\ HasRows(t)' /\ q.kind = "refresh"
      BY <1>0
    <3>2. /\ ops[o].kind = "refresh" /\ ~ops[o].caught
          /\ Mat!StatusOf(t) = "importing" /\ files[t] = ops[o].data /\ ops[o].data \in Nat \ {0}
      BY <1>a, <1>b, <1>2 DEF RefreshPhase, RestorePhase
    <3>3. /\ records'[t] = [records[t] EXCEPT !.rows = ops[o].data]
          /\ DOMAIN records[t] = {"status", "rows"}
      BY <1>0, <1>2, <1>b DEF Mat!Written, HasRows
    <3>4. /\ DOMAIN records'[t] = {"status", "rows"}
          /\ records'[t].status = "importing" /\ records'[t].rows = ops[o].data
      BY <3>2, <3>3 DEF Mat!StatusOf
    <3>5. HasRows(t)' /\ Mat!StatusOf(t)' = "importing"
      BY <1>b, <3>2, <3>4 DEF HasRows, Mat!HasTable, Mat!StatusOf
    <3> QED BY <1>0, <2>1, <3>2, <3>4, <3>5 DEF Phase, RefreshPhase, SameTask
  <2> QED BY <1>0, <2>1, <2>2, MoveInv
<1>3. CASE ops[o].to \notin {"importing", "refreshed"} /\ Mat!TableDone(o)
  <2>2. t \in touched' \/ (Sound(t)' /\ HasRows(t)' /\ Mat!StatusOf(t)' # "importing")
    <3> SUFFICES ASSUME t \notin touched
                 PROVE Sound(t)' /\ HasRows(t)' /\ Mat!StatusOf(t)' # "importing"
      BY <1>0
    <3>3. /\ records'[t] = [records[t] EXCEPT !.status = ops[o].to]
          /\ DOMAIN records[t] = {"status", "rows"}
      BY <1>0, <1>3, <1>b DEF Mat!Written, HasRows
    <3>4. /\ DOMAIN records'[t] = {"status", "rows"}
          /\ records'[t].status = ops[o].to /\ records'[t].rows = records[t].rows
      BY <3>3
    <3>5. CASE ops[o].kind = "refresh"
      <4>1. ops[o].to = "available" /\ Whole(t) /\ Mat!StatusOf(t) = "importing"
        BY <1>a, <1>b, <1>3, <3>5 DEF RefreshPhase
      <4>2. Served(t)' => Served(t)
        BY <1>3, <3>5, DoneKeeps
      <4>3. Whole(t)'
        BY <1>0, <3>4, <4>1, <4>2 DEF Whole
      <4>4. HasRows(t)' /\ Mat!StatusOf(t)' = "available"
        BY <1>b, <3>4, <4>1 DEF HasRows, Mat!HasTable, Mat!StatusOf, Mat!Gone
      <4> QED BY <4>3, <4>4 DEF Sound, Mat!HasTable, Mat!Gone
    <3>6. CASE ops[o].kind = "restore"
      <4>1. ops[o].to = "unavailable" /\ files[t] = Mat!NoFile /\ Mat!HasTable(t)
        BY <1>a, <1>b, <1>3, <3>6 DEF RestorePhase
      <4>4. HasRows(t)' /\ Mat!StatusOf(t)' = "unavailable"
        BY <1>b, <3>4, <4>1 DEF HasRows, Mat!HasTable, Mat!StatusOf, Mat!Gone
      <4> QED BY <1>0, <4>1, <4>4 DEF Sound, Mat!HasTable, Mat!Gone
    <3> QED BY <1>b, <3>5, <3>6
  <2> QED BY <1>0, <1>3, <2>2, DoneInv
<1> QED BY <1>1, <1>2, <1>3 DEF Mat!SaveTable

LEMMA QueryInv ==
  ASSUME NEW o \in Slots, NEW t, MatInv, Mat!Busy(o), t = ops[o].table, Mat!ExecuteQuery(o, t)
  PROVE MatInv'
<1>0. /\ t \in Tables /\ removed' = removed /\ crashed' = crashed
      /\ records' = records /\ files' = files /\ registered' = registered
      /\ touched \subseteq touched' /\ source' \in Nat \ {0} /\ hasDuckDB' = hasDuckDB
      /\ t \notin touched => TableInv(t) /\ Phase(ops[o], t) /\ HasRows(t)
  BY TableAt DEF Mat!ExecuteQuery, Mat!NoFault, Mat!Failure, Mat!session, MatInv, Shapes
<1>f. Untouched(t)
  BY <1>0, NoChange
<1>a. ops[o].at = "query"
  BY DEF Mat!ExecuteQuery
<1>b. t \in touched \/
        /\ ops[o].kind = "refresh" /\ ~ops[o].caught /\ HasRows(t)
        /\ Mat!StatusOf(t) = "importing" /\ (Whole(t) \/ files[t] = Mat!NoFile)
  BY <1>0, <1>a DEF Phase, DeletePhase, RestorePhase, RefreshPhase
<1>1. CASE Mat!GoesOn(o, [ops[o] EXCEPT !.at = "open", !.data = source'])
  <2>1. PICK q : /\ Mat!GoesOn(o, q) /\ SameTask(q, ops[o]) /\ q.at = "open"
                 /\ q.data \in Nat \ {0} /\ (q.caught => ops[o].caught)
    <3>1. DOMAIN ops[o] = Fields
      BY DEF MatInv, Shapes, TaskShape
    <3> DEFINE r == [ops[o] EXCEPT !.at = "open", !.data = source']
    <3>2. /\ SameTask(r, ops[o]) /\ r.at = "open" /\ r.data \in Nat \ {0}
          /\ r.caught => ops[o].caught
      BY <1>0, <3>1 DEF SameTask, Fields
    <3>3. Mat!GoesOn(o, r)
      BY <1>1
    <3> QED BY <3>2, <3>3
  <2>2. t \in touched' \/ (Phase(q, t)' /\ HasRows(t)' /\ q.kind = "refresh")
    <3> SUFFICES ASSUME t \notin touched PROVE Phase(q, t)' /\ HasRows(t)' /\ q.kind = "refresh"
      BY <1>0
    <3>1. Served(t)' => Served(t)
      BY <2>1, MoveKeeps
    <3>2. /\ Whole(t) => Whole(t)'
          /\ HasRows(t)' /\ Mat!StatusOf(t)' = "importing" /\ ops[o].kind = "refresh"
          /\ ~ops[o].caught
      BY <1>0, <1>b, <3>1, StaySound
    <3> QED BY <1>0, <1>b, <2>1, <3>2 DEF Phase, RefreshPhase, SameTask
  <2> QED BY <1>0, <1>f, <2>1, <2>2, MoveInv
<1>2. CASE Mat!Throws(o) /\ Mat!Failure(t)
  <2>1. CASE t \in touched'
    BY <1>0, <1>f, <1>2, <2>1, TouchedThrow
  <2>2. CASE t \notin touched'
    <3>1. Whole(t) /\ t \notin touched
      BY <1>0, <1>2, <1>b, <2>2 DEF Mat!Failure, Mat!NoFile, Mat!Empty
    <3>2. PICK q : /\ Mat!GoesOn(o, q) /\ SameTask(q, ops[o]) /\ q.at = "get" /\ q.to = "available"
      BY <1>2, <1>a, <1>b, <3>1, ThrowForm
    <3>3. Served(t)' => Served(t)
      BY <3>2, MoveKeeps
    <3>4. Whole(t)' /\ HasRows(t)' /\ Mat!StatusOf(t)' = "importing" /\ q.kind = "refresh"
      BY <1>0, <1>b, <3>1, <3>2, <3>3, StaySound DEF SameTask
    <3>5. Phase(q, t)'
      BY <3>2, <3>4 DEF Phase, RefreshPhase
    <3> QED BY <1>0, <1>f, <3>2, <3>4, <3>5, MoveInv
  <2> QED BY <2>1, <2>2
<1> QED BY <1>1, <1>2 DEF Mat!ExecuteQuery

LEMMA OpenInv ==
  ASSUME NEW o \in Slots, NEW t, MatInv, Mat!Busy(o), t = ops[o].table, Mat!OpenFile(o, t)
  PROVE MatInv'
<1>0. /\ t \in Tables /\ Untouched(t) /\ touched' = touched /\ removed' = removed /\ crashed' = crashed
      /\ records' = records /\ registered' = registered
      /\ files'[t] = IF files[t] = Mat!NoFile THEN Mat!Empty ELSE files[t]
      /\ t \notin touched => TableInv(t) /\ Phase(ops[o], t) /\ HasRows(t)
  BY TableAt DEF Mat!OpenFile, Mat!NoFault, Mat!session, Mat!asked, MatInv, Shapes, Untouched
<1>a. ops[o].at = "open"
  BY DEF Mat!OpenFile
<1>b. t \in touched \/
        /\ ops[o].kind = "refresh" /\ ~ops[o].caught /\ HasRows(t)
        /\ Mat!StatusOf(t) = "importing" /\ (Whole(t) \/ files[t] = Mat!NoFile)
        /\ ops[o].data \in Nat \ {0}
  BY <1>0, <1>a DEF Phase, DeletePhase, RestorePhase, RefreshPhase
<1>1. PICK q : /\ Mat!GoesOn(o, q) /\ SameTask(q, ops[o]) /\ q.at = "close"
               /\ q.data = ops[o].data /\ (q.caught => ops[o].caught)
  BY NextForm DEF Mat!OpenFile
<1>2. t \in touched' \/ (Phase(q, t)' /\ HasRows(t)' /\ q.kind = "refresh")
  <2> SUFFICES ASSUME t \notin touched PROVE Phase(q, t)' /\ HasRows(t)' /\ q.kind = "refresh"
    BY <1>0
  <2>1. Served(t)' => Served(t)
    BY <1>1, MoveKeeps
  <2>2. HasRows(t)' /\ Mat!StatusOf(t)' = "importing"
    BY <1>0, <1>b DEF HasRows, Mat!StatusOf, Mat!HasTable
  <2>3. Whole(t)' \/ files'[t] = Mat!Empty
    <3>1. CASE files[t] = Mat!NoFile
      BY <1>0, <3>1
    <3>2. CASE files[t] # Mat!NoFile
      BY <1>0, <1>b, <2>1, <3>2 DEF Whole
    <3> QED BY <3>1, <3>2
  <2> QED BY <1>b, <1>1, <2>2, <2>3 DEF Phase, RefreshPhase, SameTask
<1> QED BY <1>0, <1>1, <1>2, MoveInv

LEMMA CloseInv ==
  ASSUME NEW o \in Slots, NEW t, MatInv, Mat!Busy(o), t = ops[o].table, Mat!CloseFile(o, t)
  PROVE MatInv'
<1>0. /\ t \in Tables /\ Untouched(t) /\ removed' = removed /\ crashed' = crashed
      /\ records' = records /\ registered' = registered
      /\ touched \subseteq touched'
      /\ t \notin touched => TableInv(t) /\ Phase(ops[o], t) /\ HasRows(t)
  BY TableAt DEF Mat!CloseFile, Mat!NoFault, Mat!Failure, Mat!session, Mat!asked, MatInv, Shapes, Untouched
<1>a. ops[o].at = "close"
  BY DEF Mat!CloseFile
<1>b. t \in touched \/
        /\ ops[o].kind = "refresh" /\ ~ops[o].caught /\ HasRows(t)
        /\ Mat!StatusOf(t) = "importing" /\ (Whole(t) \/ files[t] = Mat!Empty)
        /\ ops[o].data \in Nat \ {0}
  BY <1>0, <1>a DEF Phase, DeletePhase, RestorePhase, RefreshPhase
<1>1. CASE files' = [files EXCEPT ![t] = ops[o].data] /\ Mat!Mark(o, "refreshed")
  <2>1. PICK q : /\ Mat!GoesOn(o, q) /\ SameTask(q, ops[o]) /\ q.at = "get" /\ q.to = "refreshed"
                 /\ q.data = ops[o].data /\ (q.caught => ops[o].caught)
    BY <1>1, MarkForm
  <2>2. t \in touched' \/ (Phase(q, t)' /\ HasRows(t)' /\ q.kind = "refresh")
    <3> SUFFICES ASSUME t \notin touched PROVE Phase(q, t)' /\ HasRows(t)' /\ q.kind = "refresh"
      BY <1>0
    <3>1. HasRows(t)' /\ Mat!StatusOf(t)' = "importing"
      BY <1>0, <1>b DEF HasRows, Mat!StatusOf, Mat!HasTable
    <3>2. files'[t] = ops[o].data
      BY <1>0, <1>1 DEF MatInv, Shapes
    <3> QED BY <1>b, <2>1, <3>1, <3>2 DEF Phase, RefreshPhase, SameTask
  <2> QED BY <1>0, <2>1, <2>2, MoveInv
<1>2. CASE files' = files /\ Mat!Throws(o) /\ Mat!Failure(t)
  <2>1. CASE t \in touched'
    BY <1>0, <1>2, <2>1, TouchedThrow
  <2>2. CASE t \notin touched'
    <3>1. Whole(t) /\ t \notin touched
      BY <1>0, <1>2, <1>b, <2>2 DEF Mat!Failure, Mat!Empty
    <3>2. PICK q : /\ Mat!GoesOn(o, q) /\ SameTask(q, ops[o]) /\ q.at = "get" /\ q.to = "available"
      BY <1>2, <1>a, <1>b, <3>1, ThrowForm
    <3>3. Served(t)' => Served(t)
      BY <3>2, MoveKeeps
    <3>4. Whole(t)' /\ HasRows(t)' /\ Mat!StatusOf(t)' = "importing" /\ q.kind = "refresh"
      BY <1>0, <1>2, <1>b, <3>1, <3>2, <3>3, StaySound DEF SameTask
    <3>5. Phase(q, t)'
      BY <3>2, <3>4 DEF Phase, RefreshPhase
    <3> QED BY <1>0, <3>2, <3>4, <3>5, MoveInv
  <2> QED BY <2>1, <2>2
<1> QED BY <1>1, <1>2 DEF Mat!CloseFile

LEMMA RegisterInv ==
  ASSUME NEW o \in Slots, NEW t, MatInv, Mat!Busy(o), t = ops[o].table, Mat!Register(o, t)
  PROVE MatInv'
<1>0. /\ t \in Tables /\ Untouched(t) /\ removed' = removed /\ crashed' = crashed
      /\ records' = records /\ files' = files
      /\ touched \subseteq touched'
      /\ t \notin touched => TableInv(t) /\ Phase(ops[o], t) /\ HasRows(t)
  BY TableAt DEF Mat!Register, Mat!NoFault, Mat!Fault, Mat!asked, MatInv, Shapes, Untouched
<1>a. ops[o].at = "register"
  BY DEF Mat!Register
<1>b. t \in touched \/
        /\ ~ops[o].caught /\ HasRows(t) /\ Mat!HasTable(t)
        /\ \/ ops[o].kind = "refresh" /\ Mat!StatusOf(t) = "importing"
           \/ ops[o].kind = "restore" /\ Mat!StatusOf(t) = "available"
        /\ files[t] = records[t].rows
  BY <1>0, <1>a DEF Phase, DeletePhase, RestorePhase, RefreshPhase, Mat!HasTable, Mat!Gone
<1>1. CASE registered' = [registered EXCEPT ![t] = files[t]] /\ Mat!Next(o, "look")
  <2>1. PICK q : /\ Mat!GoesOn(o, q) /\ SameTask(q, ops[o]) /\ q.at = "look"
                 /\ (q.caught => ops[o].caught)
    BY <1>1, NextForm
  <2>2. t \in touched' \/ (Phase(q, t)' /\ HasRows(t)' /\ Mat!StatusOf(t)' = Mat!StatusOf(t))
    <3> SUFFICES ASSUME t \notin touched
                 PROVE Phase(q, t)' /\ HasRows(t)' /\ Mat!StatusOf(t)' = Mat!StatusOf(t)
      BY <1>0
    <3>1. HasRows(t)' /\ Mat!StatusOf(t)' = Mat!StatusOf(t) /\ Mat!HasTable(t)'
      BY <1>0, <1>b DEF HasRows, Mat!StatusOf, Mat!HasTable
    <3>2. registered'[t] = files'[t] /\ files'[t] = records'[t].rows
      BY <1>0, <1>1, <1>b DEF MatInv, Shapes
    <3> QED BY <1>b, <2>1, <3>1, <3>2 DEF Phase, RefreshPhase, RestorePhase, SameTask
  <2> QED BY <1>0, <2>1, <2>2, MoveInv
<1>2. CASE (~hasDuckDB \/ files[t] = Mat!NoFile) /\ Mat!Throws(o) /\ registered' = registered
  <2>1. CASE t \in touched'
    BY <1>0, <1>2, <2>1, TouchedThrow
  <2>2. CASE t \notin touched'
    <3>1. t \notin touched /\ files[t] # Mat!NoFile
      BY <1>0, <1>b, <2>2 DEF HasRows, Mat!NoFile
    <3>2. ~restored /\ ~Restoring
      BY <1>2, <3>1 DEF MatInv, OneRestore
    <3>3. Whole(t) /\ ops[o].kind = "refresh" /\ Mat!StatusOf(t) = "importing"
      BY <1>b, <3>1, <3>2 DEF Whole, Served, Restoring
    <3>4. PICK q : /\ Mat!GoesOn(o, q) /\ SameTask(q, ops[o]) /\ q.at = "get" /\ q.to = "available"
      BY <1>2, <1>a, <1>b, <3>1, <3>3, ThrowForm
    <3>5. Served(t)' => Served(t)
      BY <3>4, MoveKeeps
    <3>6. Whole(t)' /\ HasRows(t)' /\ Mat!StatusOf(t)' = "importing" /\ q.kind = "refresh"
      BY <1>0, <1>2, <1>b, <3>1, <3>3, <3>4, <3>5, StaySound DEF SameTask
    <3>7. Phase(q, t)'
      BY <3>4, <3>6 DEF Phase, RefreshPhase
    <3> QED BY <1>0, <3>4, <3>6, <3>7, MoveInv
  <2> QED BY <2>1, <2>2
<1>3. CASE Mat!Throws(o) /\ Mat!Fault(t)
  BY <1>0, <1>3, TouchedThrow DEF Mat!Fault
<1> QED BY <1>1, <1>2, <1>3 DEF Mat!Register

\* After a registration.
LEMMA RegisteredInv ==
  ASSUME NEW o \in Slots, NEW t \in Tables, MatInv, Mat!Busy(o), t = ops[o].table, Untouched(t),
         Mat!Registered(o),
         t \in touched' \/
           /\ ops[o].kind \in {"refresh", "restore"} /\ ~ops[o].caught /\ HasRows(t)'
           /\ ops[o].kind = "refresh" => Mat!StatusOf(t)' = "importing"
           /\ ops[o].kind = "restore" => Mat!StatusOf(t)' = "available"
           /\ files'[t] = records'[t].rows /\ registered'[t] = files'[t]
  PROVE MatInv'
<1>1. CASE ops[o].kind = "refresh"
  <2>1. PICK q : /\ Mat!GoesOn(o, q) /\ SameTask(q, ops[o]) /\ q.at = "get" /\ q.to = "available"
    BY <1>1, MarkForm DEF Mat!Registered
  <2>2. q.kind = "refresh"
    BY <1>1, <2>1 DEF SameTask
  <2>3. t \in touched' \/ (Phase(q, t)' /\ HasRows(t)')
    BY <1>1, <2>1, <2>2 DEF Phase, RefreshPhase, Whole
  <2> QED BY <2>1, <2>2, <2>3, MoveInv
<1>2. CASE ops[o].kind # "refresh"
  <2>1. Mat!TableDone(o)
    BY <1>2 DEF Mat!Registered
  <2>2. t \in touched' \/ (Sound(t)' /\ HasRows(t)' /\ Mat!StatusOf(t)' # "importing")
    BY <1>2 DEF Sound, Whole, Mat!HasTable, Mat!Gone
  <2> QED BY <2>1, <2>2, DoneInv
<1> QED BY <1>1, <1>2

LEMMA LookInv ==
  ASSUME NEW o \in Slots, NEW t, MatInv, Mat!Busy(o), t = ops[o].table, Mat!Look(o, t)
  PROVE MatInv'
<1>0. /\ t \in Tables /\ Untouched(t) /\ touched' = touched /\ removed' = removed /\ crashed' = crashed
      /\ records' = records /\ files' = files /\ registered' = registered
      /\ t \notin touched => TableInv(t) /\ Phase(ops[o], t) /\ HasRows(t)
  BY TableAt, NoChange DEF Mat!Look, Mat!NoFault, Mat!session, Mat!asked, MatInv, Shapes
<1>a. ops[o].at = "look"
  BY DEF Mat!Look
<1>b. t \in touched \/
        /\ ~ops[o].caught /\ HasRows(t) /\ Mat!HasTable(t)
        /\ \/ ops[o].kind = "refresh" /\ Mat!StatusOf(t) = "importing"
           \/ ops[o].kind = "restore" /\ Mat!StatusOf(t) = "available"
        /\ files[t] = records[t].rows /\ registered[t] = files[t]
  BY <1>0, <1>a DEF Phase, DeletePhase, RestorePhase, RefreshPhase, Mat!HasTable, Mat!Gone
<1>1. CASE Mat!Reads(o, t, "stamp")
  <2>1. PICK q : /\ Mat!GoesOn(o, q) /\ SameTask(q, ops[o]) /\ q.at = "stamp"
                 /\ q.saw = records[t] /\ (q.caught => ops[o].caught)
    BY <1>1, ReadForm
  <2>2. t \in touched' \/ (Phase(q, t)' /\ HasRows(t)' /\ Mat!StatusOf(t)' = Mat!StatusOf(t))
    <3> SUFFICES ASSUME t \notin touched
                 PROVE Phase(q, t)' /\ HasRows(t)' /\ Mat!StatusOf(t)' = Mat!StatusOf(t)
      BY <1>0
    <3>1. HasRows(t)' /\ Mat!StatusOf(t)' = Mat!StatusOf(t) /\ Mat!HasTable(t)'
      BY <1>0, <1>b DEF HasRows, Mat!StatusOf, Mat!HasTable
    <3>2. registered'[t] = files'[t] /\ files'[t] = records'[t].rows /\ q.saw = records'[t]
      BY <1>0, <1>b, <2>1
    <3> QED BY <1>b, <2>1, <3>1, <3>2 DEF Phase, RefreshPhase, RestorePhase, SameTask
  <2> QED BY <1>0, <2>1, <2>2, MoveInv
<1>2. CASE ~Mat!HasTable(t) /\ Mat!Registered(o)
  BY <1>0, <1>2, <1>b, RegisteredInv
<1> QED BY <1>1, <1>2 DEF Mat!Look

LEMMA StampInv ==
  ASSUME NEW o \in Slots, NEW t, MatInv, Mat!Busy(o), t = ops[o].table, Mat!Stamp(o, t)
  PROVE MatInv'
<1>0. /\ t \in Tables /\ Untouched(t) /\ touched' = touched /\ removed' = removed /\ crashed' = crashed
      /\ files' = files /\ registered' = registered
      /\ records'[t] = ops[o].saw
      /\ t \notin touched => TableInv(t) /\ Phase(ops[o], t) /\ HasRows(t)
      /\ Mat!Registered(o)
  BY TableAt DEF Mat!Stamp, Mat!NoFault, Mat!session, Mat!asked, MatInv, Shapes, Untouched
<1>a. ops[o].at = "stamp"
  BY DEF Mat!Stamp
<1>b. t \in touched \/
        /\ ~ops[o].caught /\ HasRows(t) /\ ops[o].saw = records[t]
        /\ \/ ops[o].kind = "refresh" /\ Mat!StatusOf(t) = "importing"
           \/ ops[o].kind = "restore" /\ Mat!StatusOf(t) = "available"
        /\ files[t] = records[t].rows /\ registered[t] = files[t]
  BY <1>0, <1>a DEF Phase, DeletePhase, RestorePhase, RefreshPhase
<1>1. t \in touched' \/
        /\ ops[o].kind \in {"refresh", "restore"} /\ ~ops[o].caught /\ HasRows(t)'
        /\ ops[o].kind = "refresh" => Mat!StatusOf(t)' = "importing"
        /\ ops[o].kind = "restore" => Mat!StatusOf(t)' = "available"
        /\ files'[t] = records'[t].rows /\ registered'[t] = files'[t]
  BY <1>0, <1>b DEF HasRows, Mat!StatusOf, Mat!HasTable
<1> QED BY <1>0, <1>1, RegisteredInv

LEMMA ExistsInv ==
  ASSUME NEW o \in Slots, NEW t, MatInv, Mat!Busy(o), t = ops[o].table, Mat!FileExists(o, t)
  PROVE MatInv'
<1>0. /\ t \in Tables /\ Untouched(t) /\ touched' = touched /\ removed' = removed /\ crashed' = crashed
      /\ records' = records /\ files' = files /\ registered' = registered
      /\ t \notin touched => TableInv(t) /\ Phase(ops[o], t) /\ HasRows(t)
  BY TableAt, NoChange DEF Mat!FileExists, Mat!NoFault, Mat!session, Mat!asked, MatInv, Shapes
<1>a. ops[o].at = "exists"
  BY DEF Mat!FileExists
<1>b. t \in touched \/
        /\ ~ops[o].caught /\ HasRows(t) /\ Sound(t)
        /\ \/ ops[o].kind = "delete"
           \/ /\ ops[o].kind = "restore" /\ ops[o].to = Mat!StatusOf(t)
              /\ Mat!StatusOf(t) \in {"available", "importing"} /\ Mat!HasTable(t)
  BY <1>0, <1>a DEF Phase, DeletePhase, RestorePhase, RefreshPhase
<1>1. CASE ops[o].kind = "delete" /\ Mat!Next(o, IF files[t] = Mat!NoFile THEN "delete" ELSE "deleteFile")
  <2>1. PICK q : /\ Mat!GoesOn(o, q) /\ SameTask(q, ops[o])
                 /\ q.at = IF files[t] = Mat!NoFile THEN "delete" ELSE "deleteFile"
                 /\ (q.caught => ops[o].caught)
    <3>1. CASE files[t] = Mat!NoFile
      <4>1. Mat!Next(o, "delete")
        BY <1>1, <3>1
      <4> QED BY <3>1, <4>1, NextForm
    <3>2. CASE files[t] # Mat!NoFile
      <4>1. Mat!Next(o, "deleteFile")
        BY <1>1, <3>2
      <4> QED BY <3>2, <4>1, NextForm
    <3> QED BY <3>1, <3>2
  <2>2. t \in touched' \/ (Phase(q, t)' /\ HasRows(t)' /\ Mat!StatusOf(t)' = Mat!StatusOf(t))
    <3> SUFFICES ASSUME t \notin touched
                 PROVE Phase(q, t)' /\ HasRows(t)' /\ Mat!StatusOf(t)' = Mat!StatusOf(t)
      BY <1>0
    <3>1. Served(t)' => Served(t)
      BY <2>1, MoveKeeps
    <3>2. Sound(t)' /\ HasRows(t)' /\ Mat!StatusOf(t)' = Mat!StatusOf(t)
      BY <1>0, <1>b, <3>1, StaySound
    <3> QED BY <1>0, <1>1, <1>b, <2>1, <3>2 DEF Phase, DeletePhase, SameTask
  <2> QED BY <1>0, <2>1, <2>2, MoveInv
<1>2. CASE ops[o].kind = "restore" /\ files[t] = Mat!NoFile /\ Mat!Mark(o, "unavailable")
  <2>1. PICK q : /\ Mat!GoesOn(o, q) /\ SameTask(q, ops[o]) /\ q.at = "get" /\ q.to = "unavailable"
                 /\ (q.caught => ops[o].caught)
    BY <1>2, MarkForm
  <2>2. t \in touched' \/ (Phase(q, t)' /\ HasRows(t)' /\ Mat!StatusOf(t)' = Mat!StatusOf(t))
    <3> SUFFICES ASSUME t \notin touched
                 PROVE Phase(q, t)' /\ HasRows(t)' /\ Mat!StatusOf(t)' = Mat!StatusOf(t)
      BY <1>0
    <3>2. HasRows(t)' /\ Mat!StatusOf(t)' = Mat!StatusOf(t) /\ Mat!HasTable(t)'
      BY <1>0, <1>b, <1>2 DEF HasRows, Mat!StatusOf, Mat!HasTable
    <3> QED BY <1>0, <1>2, <1>b, <2>1, <3>2 DEF Phase, RestorePhase, SameTask
  <2> QED BY <1>0, <2>1, <2>2, MoveInv
<1>3. CASE /\ ops[o].kind = "restore" /\ files[t] # Mat!NoFile /\ ops[o].to = "available"
           /\ Mat!Next(o, "register")
  <2>1. PICK q : /\ Mat!GoesOn(o, q) /\ SameTask(q, ops[o]) /\ q.at = "register"
                 /\ (q.caught => ops[o].caught)
    BY <1>3, NextForm
  <2>2. t \in touched' \/ (Phase(q, t)' /\ HasRows(t)' /\ Mat!StatusOf(t)' = Mat!StatusOf(t))
    <3> SUFFICES ASSUME t \notin touched
                 PROVE Phase(q, t)' /\ HasRows(t)' /\ Mat!StatusOf(t)' = Mat!StatusOf(t)
      BY <1>0
    <3>1. Mat!StatusOf(t) = "available" /\ files[t] = records[t].rows
      BY <1>3, <1>b DEF Sound, Whole
    <3>2. HasRows(t)' /\ Mat!StatusOf(t)' = Mat!StatusOf(t) /\ Mat!HasTable(t)'
      BY <1>0, <1>b, <1>3 DEF HasRows, Mat!StatusOf, Mat!HasTable
    <3> QED BY <1>0, <1>3, <1>b, <2>1, <3>1, <3>2 DEF Phase, RestorePhase, SameTask
  <2> QED BY <1>0, <2>1, <2>2, MoveInv
<1>4. CASE ops[o].kind = "restore" /\ ops[o].to # "available" /\ Mat!TableDone(o)
  <2>2. t \in touched' \/
          (Sound(t)' /\ HasRows(t)' /\ Mat!StatusOf(t) = "importing" /\ ops[o].kind = "restore")
    <3> SUFFICES ASSUME t \notin touched
                 PROVE Sound(t)' /\ HasRows(t)' /\ Mat!StatusOf(t) = "importing"
      BY <1>0, <1>4
    <3>1. Mat!StatusOf(t) = "importing" /\ HasRows(t)
      BY <1>4, <1>b
    <3>2. HasRows(t)' /\ Mat!StatusOf(t)' = "importing"
      BY <1>0, <3>1 DEF HasRows, Mat!StatusOf, Mat!HasTable
    <3> QED BY <1>0, <1>b, <3>1, <3>2 DEF Sound, Mat!HasTable, Mat!Gone
  <2> QED BY <1>0, <1>4, <2>2, DoneInv
<1> QED BY <1>1, <1>2, <1>3, <1>4 DEF Mat!FileExists

LEMMA DeleteFileInv ==
  ASSUME NEW o \in Slots, NEW t, MatInv, Mat!Busy(o), t = ops[o].table, Mat!DeleteFile(o, t)
  PROVE MatInv'
<1>0. /\ t \in Tables /\ Untouched(t) /\ removed' = removed /\ crashed' = crashed
      /\ records' = records /\ registered' = registered
      /\ touched \subseteq touched'
      /\ t \notin touched => TableInv(t) /\ Phase(ops[o], t) /\ HasRows(t)
  BY TableAt DEF Mat!DeleteFile, Mat!NoFault, Mat!Fault, Mat!session, Mat!asked, MatInv, Shapes, Untouched
<1>a. ops[o].at = "deleteFile"
  BY DEF Mat!DeleteFile
<1>b. t \in touched \/ (~ops[o].caught /\ ops[o].kind = "delete" /\ HasRows(t))
  BY <1>0, <1>a DEF Phase, DeletePhase, RestorePhase, RefreshPhase
<1>1. PICK q : /\ Mat!GoesOn(o, q) /\ SameTask(q, ops[o]) /\ q.at = "delete"
               /\ (q.caught => ops[o].caught)
  BY NextForm DEF Mat!DeleteFile
<1>2. t \in touched' \/ (Phase(q, t)' /\ HasRows(t)' /\ Mat!StatusOf(t)' = Mat!StatusOf(t))
  <2> SUFFICES ASSUME t \notin touched'
               PROVE Phase(q, t)' /\ HasRows(t)' /\ Mat!StatusOf(t)' = Mat!StatusOf(t)
    OBVIOUS
  <2>0. t \notin touched
    BY <1>0
  <2>1. ~Mat!Opened(t)
    <3> SUFFICES ASSUME NEW p \in Slots, ops[p].at = "close", ops[p].table = t PROVE FALSE
      BY DEF Mat!Opened
    <3>1. ops[p].kind # "none"
      BY DEF MatInv, Shapes, TaskShape
    <3>2. t \in Mat!TablesOf(ops[p]) /\ t \in Mat!TablesOf(ops[o])
      BY <3>1 DEF Mat!TablesOf, Mat!Busy
    <3>3. p = o
      BY <1>0, <2>0, <3>2 DEF TableInv
    <3> QED BY <1>a, <3>3
  <2>2. files'[t] = Mat!NoFile
    BY <1>0, <2>1 DEF Mat!DeleteFile, Mat!Fault, MatInv, Shapes
  <2>3. HasRows(t)' /\ Mat!StatusOf(t)' = Mat!StatusOf(t)
    BY <1>0, <1>b, <2>0 DEF HasRows, Mat!StatusOf, Mat!HasTable
  <2> QED BY <1>1, <1>b, <2>0, <2>2, <2>3 DEF Phase, DeletePhase, SameTask
<1> QED BY <1>0, <1>1, <1>2, MoveInv

LEMMA DeleteRecordInv ==
  ASSUME NEW o \in Slots, NEW t, MatInv, Mat!Busy(o), t = ops[o].table, Mat!DeleteRecord(o, t)
  PROVE MatInv'
<1>0. /\ t \in Tables /\ Untouched(t) /\ touched' = touched /\ removed' = removed /\ crashed' = crashed
      /\ files' = files /\ registered' = registered
      /\ records'[t] = Mat!Nothing
      /\ t \notin touched => TableInv(t) /\ Phase(ops[o], t) /\ HasRows(t)
  BY TableAt DEF Mat!DeleteRecord, Mat!NoFault, Mat!session, Mat!asked, MatInv, Shapes, Untouched
<1>a. ops[o].at = "delete" /\ Mat!TableDone(o)
  BY DEF Mat!DeleteRecord
<1>b. t \in touched \/ files[t] = Mat!NoFile \/ removed
  BY <1>0, <1>a DEF Phase, DeletePhase, RestorePhase, RefreshPhase
<1>c. HasRows(t)' /\ Mat!StatusOf(t)' = Mat!Gone
  BY <1>0 DEF HasRows, Mat!StatusOf, Mat!HasTable, Mat!Nothing
<1>1. t \in touched' \/ (Sound(t)' /\ HasRows(t)' /\ Mat!StatusOf(t)' # "importing")
  BY <1>0, <1>b, <1>c DEF Sound, Mat!HasTable, Mat!Gone
<1> QED BY <1>0, <1>a, <1>1, DoneInv

-----------------------------------------------------------------------------
(* The calls. *)

\* The tables an operation begins with.
BegunWith(todo) ==
  /\ \A x \in todo : x.table \in Tables /\ x.status = Mat!StatusOf(x.table)
  /\ \A x, y \in todo : x.table = y.table => x = y

LEMMA BeginInv ==
  ASSUME NEW o \in Slots, NEW kind, NEW todo, MatInv, Mat!Begin(o, kind, todo), BegunWith(todo),
         restored' = restored, listed' = listed, removed => removed',
         kind \in {"refresh", "delete", "restore", "remove"},
         kind \in {"refresh", "delete"} => \A x, y \in todo : x = y,
         kind = "refresh" => \A x \in todo : listed[x.table] = "available",
         kind = "remove" => removed',
         IF kind = "restore"
         THEN ~hasDuckDB /\ hasDuckDB'
              /\ \A u \in Tables : Mat!StatusOf(u) \in {"available", "importing"} <=>
                                     \E x \in todo : x.table = u
         ELSE hasDuckDB' = hasDuckDB
  PROVE MatInv'
<1>1. PICK x \in todo : ops' = [ops EXCEPT ![o] = Mat!Turn(kind, x, todo \ {x})]
  BY DEF Mat!Begin
<1> DEFINE rest == todo \ {x}
<1>2. PICK q : q = Mat!Turn(kind, x, rest)
  OBVIOUS
<1>3. /\ DOMAIN q = Fields /\ q.kind = kind /\ q.table = x.table /\ q.at = Mat!FirstOf(kind)
      /\ q.to = x.status /\ q.todo = rest /\ ~q.caught
  BY <1>2, TurnFields
<1>4. /\ DOMAIN ops' = Slots /\ ops'[o] = q /\ \A p \in Slots : p # o => ops'[p] = ops[p]
      /\ ~Mat!Busy(o)
  BY <1>1, <1>2 DEF Mat!Begin, MatInv, Shapes
<1>5. /\ records' = records /\ files' = files /\ registered' = registered /\ crashed' = crashed
      /\ source' = source
      /\ touched' = touched \cup
           {y.table : y \in {z \in todo : \E p \in Slots : z.table \in Mat!TablesOf(ops[p])}}
  BY DEF Mat!Begin, Mat!asked
<1>6. /\ \A p \in Slots : p # o => Mat!TablesOf(ops[p])' = Mat!TablesOf(ops[p])
      /\ Mat!TablesOf(ops[o]) = {}
      /\ Mat!TablesOf(ops[o])' = {y.table : y \in todo}
  <2>1. Mat!TablesOf(ops[o])' = {x.table} \cup {y.table : y \in rest}
    BY <1>3, <1>4 DEF Mat!TablesOf
  <2>2. {x.table} \cup {y.table : y \in rest} = {y.table : y \in todo}
    OBVIOUS
  <2>3. \A p \in Slots : p # o => Mat!TablesOf(ops[p])' = Mat!TablesOf(ops[p])
    BY <1>4 DEF Mat!TablesOf
  <2>4. Mat!TablesOf(ops[o]) = {}
    BY <1>4 DEF Mat!TablesOf, Mat!Busy
  <2> QED BY <2>1, <2>2, <2>3, <2>4
<1>s. \A u : Mat!StatusOf(u)' = Mat!StatusOf(u) /\ Mat!HasTable(u)' = Mat!HasTable(u)
  BY <1>5 DEF Mat!StatusOf, Mat!HasTable
<1>7. Shapes'
  <2>1. TaskShape(q)
    BY <1>3 DEF TaskShape, BegunWith
  <2> QED BY <1>4, <1>5, <2>1 DEF MatInv, Shapes, TaskShape
<1>8. OneRestore'
  <2>1. CASE kind = "restore"
    <3>1. ~restored /\ \A p \in Slots : ops[p].kind # "restore"
      BY <2>1 DEF MatInv, OneRestore, Restoring
    <3> QED BY <2>1, <3>1, <1>4 DEF OneRestore
  <2>2. CASE kind # "restore"
    <3>1. \A p \in Slots : ops'[p].kind = "restore" => ops[p].kind = "restore"
      BY <1>3, <1>4, <2>2
    <3>2. Restoring' => Restoring
      BY <3>1 DEF Restoring
    <3> QED BY <2>2, <3>1, <3>2 DEF OneRestore, MatInv
  <2> QED BY <2>1, <2>2
<1>9. \A u \in Tables : u \notin touched' => u \notin touched /\ TableInv(u)
  BY <1>5 DEF MatInv
<1>10. ASSUME NEW u \in Tables, u \notin touched'
       PROVE /\ Sound(u) => Sound(u)'
             /\ u \notin {y.table : y \in todo} =>
                  \A p \in Slots : Phase(ops[p], u) => \A op : op = ops[p] => Phase(op, u)'
  <2>1. CASE kind # "restore"
    <3>1. Served(u)' => Served(u)
      <4>1. \A p \in Slots : ops'[p].kind = "restore" <=> (ops[p].kind = "restore" /\ p # o)
        BY <1>3, <1>4, <2>1 DEF Mat!Busy
      <4>2. Restoring' => Restoring
        BY <4>1 DEF Restoring
      <4>3. \A p \in Slots : ops[p].kind = "restore" => p # o
        BY <1>4 DEF Mat!Busy
      <4> QED BY <1>6, <4>1, <4>2, <4>3 DEF Served
    <3> QED BY <1>5, <3>1, Monotone
  <2>2. CASE kind = "restore"
    <3>1. ~restored /\ \A p \in Slots : ops[p].kind # "restore"
      BY <2>2 DEF MatInv, OneRestore, Restoring
    <3>2. ~Served(u)
      BY <3>1 DEF Served, Restoring
    <3>3. CASE \E y \in todo : y.table = u
      <4>1. ops'[o].kind = "restore" /\ u \in Mat!TablesOf(ops[o])'
        BY <1>3, <1>4, <1>6, <2>2, <3>3
      <4>2. ~Served(u)'
        BY <4>1 DEF Served
      <4> QED BY <1>5, <3>3, <4>2, Monotone
    <3>4. CASE ~\E y \in todo : y.table = u
      <4>1. Mat!StatusOf(u) \notin {"available", "importing"}
        BY <2>2, <3>4
      <4>2. Sound(u) => Sound(u)'
        BY <1>5, <1>s, <4>1 DEF Sound
      <4>3. ASSUME NEW p \in Slots, Phase(ops[p], u), NEW op, op = ops[p] PROVE Phase(op, u)'
        <5>1. op.kind # "restore"
          BY <3>1, <4>3
        <5>2. RefreshPhase(op, u) => RefreshPhase(op, u)'
          BY <1>5, <1>s, <4>1, <4>2 DEF RefreshPhase
        <5>3. DeletePhase(op, u) => DeletePhase(op, u)'
          BY <1>5, <4>2 DEF DeletePhase
        <5>4. Phase(op, u)
          BY <4>3
        <5> QED BY <1>5, <4>2, <5>1, <5>2, <5>3, <5>4 DEF Phase
      <4> QED BY <4>2, <4>3
    <3> QED BY <3>3, <3>4
  <2> QED BY <2>1, <2>2
<1>11. ASSUME NEW u \in Tables, u \notin touched' PROVE TableInv(u)'
  <2>0. u \notin touched /\ TableInv(u)
    BY <1>9, <1>11
  <2>1. HasRows(u)'
    BY <2>0, <1>5, <1>s DEF TableInv, HasRows
  <2>2. NotAsked(u)'
    <3>1. \A p \in Slots : ops[p].kind = "refresh" => ops'[p] = ops[p]
      BY <1>4 DEF Mat!Busy
    <3> QED BY <2>0, <3>1, <1>s DEF TableInv, NotAsked
  <2>3. CASE u \notin {y.table : y \in todo}
    <3>1. \A p \in Slots : u \in Mat!TablesOf(ops[p])' <=> u \in Mat!TablesOf(ops[p])
      BY <1>6, <2>3
    <3>2. (\A a, b \in Slots :
            u \in Mat!TablesOf(ops[a]) /\ u \in Mat!TablesOf(ops[b]) => a = b)'
      BY <2>0, <3>1 DEF TableInv
    <3>3. ((\A a \in Slots : u \notin Mat!TablesOf(ops[a])) => Sound(u))'
      BY <2>0, <3>1, <1>10, <1>11 DEF TableInv
    <3>4. ASSUME NEW a \in Slots, Mat!Busy(a)', ops'[a].table = u PROVE Phase(ops[a], u)'
      <4>1. a # o
        BY <1>3, <1>4, <2>3, <3>4
      <4>2. ops'[a] = ops[a] /\ Phase(ops[a], u)
        BY <1>4, <2>0, <3>4, <4>1 DEF TableInv, Mat!Busy
      <4>3. PICK op : op = ops[a]
        OBVIOUS
      <4>4. Phase(op, u)'
        BY <1>10, <1>11, <2>3, <4>2, <4>3
      <4> QED BY <4>2, <4>3, <4>4
    <3>5. ASSUME NEW a \in Slots, NEW y \in ops'[a].todo, Mat!Busy(a)', y.table = u
          PROVE Waits(ops[a], y)'
      <4>1. a # o
        BY <1>3, <1>4, <2>3, <3>5
      <4>2. ops'[a] = ops[a] /\ Waits(ops[a], y)
        BY <1>4, <2>0, <3>5, <4>1 DEF TableInv, Mat!Busy
      <4> QED BY <1>10, <1>11, <1>s, <3>5, <4>2 DEF Waits
    <3> QED BY <2>1, <2>2, <3>2, <3>3, <3>4, <3>5 DEF TableInv
  <2>4. CASE u \in {y.table : y \in todo}
    <3>0. PICK z \in todo : z.table = u
      BY <2>4
    <3>1. \A p \in Slots : u \notin Mat!TablesOf(ops[p])
      BY <1>5, <1>11, <3>0
    <3>2. \A p \in Slots : u \in Mat!TablesOf(ops[p])' => p = o
      BY <1>6, <3>1
    <3>3. u \in Mat!TablesOf(ops[o])'
      BY <1>6, <2>4
    <3>4. Sound(u) /\ Sound(u)'
      BY <2>0, <3>1, <1>10, <1>11 DEF TableInv
    <3>5. z.status = Mat!StatusOf(u)' /\ \A y \in todo : y.table = u => y = z
      BY <3>0, <1>s DEF BegunWith
    <3>6. (\A a \in Slots : Mat!Busy(a) /\ ops[a].table = u => Phase(ops[a], u))'
      <4> SUFFICES ASSUME NEW a \in Slots, Mat!Busy(a)', ops'[a].table = u PROVE Phase(ops[a], u)'
        OBVIOUS
      <4>1. a = o
        BY <3>2 DEF Mat!TablesOf, Mat!Busy
      <4>2. x = z /\ ops'[a] = q
        BY <1>3, <1>4, <3>5, <4>1
      <4>3. CASE kind = "refresh"
        <5>1. \A p \in Slots : ops[p].kind = "refresh" => ops[p].table # u
          BY <3>1 DEF Mat!TablesOf
        <5>2. Mat!StatusOf(u) # "importing"
          BY <2>0, <3>0, <4>3, <5>1 DEF TableInv, NotAsked
        <5> QED BY <1>3, <1>s, <3>4, <4>2, <4>3, <5>2 DEF Phase, RefreshPhase, Mat!FirstOf
      <4>4. CASE kind = "delete"
        BY <1>3, <3>4, <4>2, <4>4 DEF Phase, DeletePhase, Mat!FirstOf
      <4>5. CASE kind = "remove"
        BY <1>3, <3>4, <4>2, <4>5 DEF Phase, Mat!FirstOf
      <4>6. CASE kind = "restore"
        <5>1. Mat!StatusOf(u)' \in {"available", "importing"} /\ Mat!HasTable(u)'
          BY <1>s, <3>0, <4>6 DEF Mat!HasTable, Mat!Gone
        <5> QED BY <1>3, <3>4, <3>5, <4>2, <4>6, <5>1 DEF Phase, RestorePhase, Mat!FirstOf
      <4> QED BY <4>3, <4>4, <4>5, <4>6
    <3>7. (\A a \in Slots : \A y \in ops[a].todo : Mat!Busy(a) /\ y.table = u => Waits(ops[a], y))'
      <4> SUFFICES ASSUME NEW a \in Slots, NEW y \in ops'[a].todo, Mat!Busy(a)', y.table = u
                   PROVE Waits(ops[a], y)'
        OBVIOUS
      <4>1. a = o
        BY <3>2 DEF Mat!TablesOf, Mat!Busy
      <4>2. y \in todo \ {x} /\ y = z /\ ops'[a].kind = kind
        BY <1>3, <1>4, <3>5, <4>1
      <4>3. kind \in {"remove", "restore"}
        BY <4>2
      <4>4. kind = "restore" => Mat!StatusOf(u)' \in {"available", "importing"}
        BY <1>s, <3>0
      <4> QED BY <3>4, <3>5, <4>2, <4>3, <4>4 DEF Waits
    <3>8. (\A a, b \in Slots :
            u \in Mat!TablesOf(ops[a]) /\ u \in Mat!TablesOf(ops[b]) => a = b)'
      BY <3>2
    <3> QED BY <2>1, <2>2, <3>3, <3>6, <3>7, <3>8 DEF TableInv
  <2> QED BY <2>3, <2>4
<1> QED BY <1>7, <1>8, <1>11 DEF MatInv

LEMMA RefreshInv ==
  ASSUME NEW o \in Slots, MatInv, Mat!HandleRefresh(o)
  PROVE MatInv'
<1>1. PICK t \in Clicked : listed[t] = "available" /\ Mat!Begin(o, "refresh", {Mat!Task(t)})
  BY DEF Mat!HandleRefresh
<1>2. BegunWith({Mat!Task(t)}) /\ \A x, y \in {Mat!Task(t)} : x = y /\ listed[x.table] = "available"
  BY <1>1, TablesAssumption DEF BegunWith, Mat!Task
<1>3. PICK todo : todo = {Mat!Task(t)}
  OBVIOUS
<1>4. restored' = restored /\ listed' = listed /\ removed' = removed /\ hasDuckDB' = hasDuckDB
  BY DEF Mat!HandleRefresh
<1> QED BY <1>1, <1>2, <1>3, <1>4, BeginInv

LEMMA DeleteInv ==
  ASSUME NEW o \in Slots, MatInv, Mat!HandleDelete(o)
  PROVE MatInv'
<1>1. PICK t \in Clicked : Mat!Begin(o, "delete", {Mat!Task(t)})
  BY DEF Mat!HandleDelete
<1>2. BegunWith({Mat!Task(t)}) /\ \A x, y \in {Mat!Task(t)} : x = y
  BY <1>1, TablesAssumption DEF BegunWith, Mat!Task
<1>3. PICK todo : todo = {Mat!Task(t)}
  OBVIOUS
<1>4. restored' = restored /\ listed' = listed /\ removed' = removed /\ hasDuckDB' = hasDuckDB
  BY DEF Mat!HandleDelete
<1> QED BY <1>1, <1>2, <1>3, <1>4, BeginInv

LEMMA RemoveInv ==
  ASSUME NEW o \in Slots, MatInv, Mat!RemoveConnection(o)
  PROVE MatInv'
<1>1. PICK todo : todo = {Mat!Task(t) : t \in {u \in Tables : Mat!HasTable(u)}}
  OBVIOUS
<1>2. BegunWith(todo)
  <2>1. \A x \in todo : \E t \in Tables : x = Mat!Task(t)
    BY <1>1
  <2>2. \A t \in Tables : Mat!Task(t).table = t
    BY DEF Mat!Task
  <2>3. \A x, y \in todo : x.table = y.table => x = y
    BY <2>1, <2>2
  <2> QED BY <2>1, <2>3 DEF BegunWith, Mat!Task
<1>3. /\ restored' = restored /\ listed' = listed /\ removed' /\ hasDuckDB' = hasDuckDB
      /\ Mat!Begin(o, "remove", todo)
  BY <1>1 DEF Mat!RemoveConnection
<1> QED BY <1>2, <1>3, BeginInv

\* Starting the store either begins one operation that restores every table with a
\* record, or, where there is none, only marks the tables as restored.
LEMMA InitializeInv ==
  ASSUME NEW o \in Slots, MatInv, Mat!Initialize(o)
  PROVE MatInv'
<1>1. PICK todo :
        todo = {Mat!Task(t) : t \in {u \in Tables : Mat!StatusOf(u) \in {"available", "importing"}}}
  OBVIOUS
<1>2. /\ BegunWith(todo)
      /\ \A u \in Tables : Mat!StatusOf(u) \in {"available", "importing"} <=>
                             \E x \in todo : x.table = u
  <2>1. \A x \in todo : \E t \in Tables :
          x = Mat!Task(t) /\ Mat!StatusOf(t) \in {"available", "importing"}
    BY <1>1
  <2>2. \A t \in Tables : Mat!Task(t).table = t /\ Mat!Task(t).status = Mat!StatusOf(t)
    BY DEF Mat!Task
  <2>3. \A x, y \in todo : x.table = y.table => x = y
    BY <2>1, <2>2
  <2>4. BegunWith(todo)
    BY <2>1, <2>2, <2>3 DEF BegunWith
  <2>5. \A u \in Tables : Mat!StatusOf(u) \in {"available", "importing"} => Mat!Task(u) \in todo
    BY <1>1
  <2> QED BY <2>1, <2>2, <2>4, <2>5
<1>3. ~hasDuckDB /\ hasDuckDB' /\ listed' = listed /\ removed' = removed
  BY DEF Mat!Initialize
<1>4. CASE Mat!Begin(o, "restore", todo) /\ restored' = restored
  BY <1>2, <1>3, <1>4, BeginInv
<1>5. CASE /\ todo = {} /\ restored'
           /\ UNCHANGED <<records, files, registered, Mat!asked, ops, faults, touched, crashed>>
  <2>1. ~restored /\ ~Restoring /\ \A p \in Slots : ops[p].kind # "restore"
    BY <1>3 DEF MatInv, OneRestore, Restoring
  <2>2. /\ records' = records /\ files' = files /\ registered' = registered /\ ops' = ops
        /\ touched' = touched /\ crashed' = crashed /\ source' = source
    BY <1>5 DEF Mat!asked
  <2>3. Shapes'
    BY <2>2 DEF MatInv, Shapes, TaskShape
  <2>4. OneRestore'
    BY <1>3, <2>1, <2>2 DEF OneRestore, Restoring
  <2>5. ASSUME NEW u \in Tables, u \notin touched' PROVE TableInv(u)'
    <3>0. TableInv(u) /\ Mat!StatusOf(u) \notin {"available", "importing"}
      BY <1>2, <1>5, <2>2, <2>5 DEF MatInv
    <3>s. Mat!StatusOf(u)' = Mat!StatusOf(u) /\ Mat!HasTable(u)' = Mat!HasTable(u)
      BY <2>2 DEF Mat!StatusOf, Mat!HasTable
    <3>1. Sound(u) => Sound(u)'
      BY <1>3, <2>2, <3>0, <3>s DEF Sound
    <3>2. \A p \in Slots : Phase(ops[p], u) => Phase(ops[p], u)'
      <4> SUFFICES ASSUME NEW p \in Slots, Phase(ops[p], u) PROVE Phase(ops[p], u)'
        OBVIOUS
      <4>1. RefreshPhase(ops[p], u) => RefreshPhase(ops[p], u)'
        BY <2>2, <3>0, <3>s, <3>1 DEF RefreshPhase
      <4>2. DeletePhase(ops[p], u) => DeletePhase(ops[p], u)'
        BY <2>2, <3>1 DEF DeletePhase
      <4> QED BY <1>3, <2>1, <2>2, <3>1, <4>1, <4>2 DEF Phase
    <3>3. HasRows(u)' /\ NotAsked(u)'
      BY <1>3, <2>2, <3>0, <3>s DEF TableInv, HasRows, NotAsked
    <3>4. ASSUME NEW p \in Slots, NEW x \in ops'[p].todo, Mat!Busy(p)', x.table = u
          PROVE Waits(ops[p], x)'
      <4>1. Waits(ops[p], x)
        BY <2>2, <3>0, <3>4 DEF TableInv, Mat!Busy
      <4> QED BY <1>3, <2>2, <3>1, <3>4, <3>s, <4>1 DEF Waits
    <3>5. ((\A a \in Slots : u \notin Mat!TablesOf(ops[a])) => Sound(u))'
      BY <2>2, <3>0, <3>1 DEF TableInv, Mat!TablesOf
    <3>6. (\A a \in Slots : Mat!Busy(a) /\ ops[a].table = u => Phase(ops[a], u))'
      BY <2>2, <3>0, <3>2 DEF TableInv, Mat!Busy
    <3>7. (\A a, b \in Slots :
            u \in Mat!TablesOf(ops[a]) /\ u \in Mat!TablesOf(ops[b]) => a = b)'
      BY <2>2, <3>0 DEF TableInv, Mat!TablesOf
    <3> QED BY <3>3, <3>4, <3>5, <3>6, <3>7 DEF TableInv
  <2> QED BY <2>3, <2>4, <2>5 DEF MatInv
<1>6. \/ Mat!Begin(o, "restore", todo) /\ restored' = restored
      \/ /\ todo = {} /\ restored'
         /\ UNCHANGED <<records, files, registered, Mat!asked, ops, faults, touched, crashed>>
  BY <1>1 DEF Mat!Initialize
<1> QED BY <1>4, <1>5, <1>6

LEMMA LoadInv ==
  ASSUME MatInv, Mat!LoadData
  PROVE MatInv'
<1>1. /\ records' = records /\ files' = files /\ registered' = registered /\ ops' = ops
      /\ touched' = touched /\ crashed' = crashed /\ source' = source /\ removed' = removed
      /\ restored' = restored /\ hasDuckDB' = hasDuckDB
      /\ \A u \in Tables : listed'[u] = Mat!StatusOf(u)
  BY DEF Mat!LoadData, Mat!asked, Mat!session, Mat!Statuses
<1>2. Shapes' /\ OneRestore'
  BY <1>1 DEF MatInv, Shapes, TaskShape, OneRestore, Restoring
<1>3. ASSUME NEW u \in Tables, u \notin touched' PROVE TableInv(u)'
  <2>0. TableInv(u)
    BY <1>1, <1>3 DEF MatInv
  <2>1. Served(u)' = Served(u)
    BY <1>1 DEF Served, Restoring, Mat!TablesOf
  <2>2. /\ Sound(u) => Sound(u)'
        /\ \A op : Phase(op, u) => Phase(op, u)'
        /\ HasRows(u) => HasRows(u)'
        /\ Mat!StatusOf(u)' = Mat!StatusOf(u)
    BY <1>1, <2>1, Monotone
  <2>3. NotAsked(u)'
    BY <1>1, <2>2 DEF NotAsked
  <2>4. ASSUME NEW p \in Slots, NEW x \in ops'[p].todo, Mat!Busy(p)', x.table = u
        PROVE Waits(ops[p], x)'
    <3>1. Waits(ops[p], x)
      BY <1>1, <2>0, <2>4 DEF TableInv, Mat!Busy
    <3> QED BY <1>1, <2>2, <2>4, <3>1 DEF Waits
  <2>5. ((\A a \in Slots : u \notin Mat!TablesOf(ops[a])) => Sound(u))'
    BY <1>1, <2>0, <2>2 DEF TableInv, Mat!TablesOf
  <2>6. (\A a \in Slots : Mat!Busy(a) /\ ops[a].table = u => Phase(ops[a], u))'
    BY <1>1, <2>0, <2>2 DEF TableInv, Mat!Busy
  <2>7. (\A a, b \in Slots :
          u \in Mat!TablesOf(ops[a]) /\ u \in Mat!TablesOf(ops[b]) => a = b)'
    BY <1>1, <2>0 DEF TableInv, Mat!TablesOf
  <2>8. HasRows(u)'
    BY <2>0, <2>2 DEF TableInv
  <2> QED BY <2>3, <2>4, <2>5, <2>6, <2>7, <2>8 DEF TableInv
<1> QED BY <1>2, <1>3 DEF MatInv

LEMMA CrashInv ==
  ASSUME MatInv, Mat!Crash
  PROVE MatInv'
<1>1. /\ records' = records /\ files' = files /\ DOMAIN registered' = Tables
      /\ ops' = [p \in Slots |-> Mat!Idle]
      /\ touched' = touched /\ crashed' /\ source' = source /\ removed' = removed
      /\ ~restored'
      /\ \A u \in Tables : listed'[u] = Mat!Gone
  BY DEF Mat!Crash
<1>2. \A p \in Slots : ops'[p].kind = "none" /\ ops'[p].todo = {} /\ TaskShape(ops[p])'
  BY <1>1, IdleFields DEF TaskShape
<1>3. Shapes' /\ OneRestore'
  BY <1>1, <1>2 DEF MatInv, Shapes, OneRestore, Restoring
<1>4. ASSUME NEW u \in Tables, u \notin touched' PROVE TableInv(u)'
  <2>0. TableInv(u)
    BY <1>1, <1>4 DEF MatInv
  <2>s. Mat!StatusOf(u)' = Mat!StatusOf(u) /\ Mat!HasTable(u)' = Mat!HasTable(u)
    BY <1>1 DEF Mat!StatusOf, Mat!HasTable
  <2>1. ~Served(u)'
    BY <1>1, <1>2 DEF Served, Restoring
  <2>2. /\ Mat!StatusOf(u) = "available" => files[u] \in {records[u].rows, Mat!NoFile}
        /\ Mat!StatusOf(u) = "unavailable" => files[u] = Mat!NoFile
        /\ Mat!HasTable(u) \/ files[u] = Mat!NoFile \/ removed
    <3>1. CASE Sound(u)
      BY <3>1 DEF Sound, Whole
    <3>2. ASSUME NEW o \in Slots, Phase(ops[o], u), ~Sound(u)
          PROVE /\ Mat!StatusOf(u) = "available" => files[u] \in {records[u].rows, Mat!NoFile}
                /\ Mat!StatusOf(u) = "unavailable" => files[u] = Mat!NoFile
                /\ Mat!HasTable(u) \/ files[u] = Mat!NoFile \/ removed
      <4>1. RefreshPhase(ops[o], u) => Mat!StatusOf(u) = "importing"
        BY <3>2 DEF RefreshPhase
      <4>2. DeletePhase(ops[o], u) => files[u] = Mat!NoFile
        BY <3>2 DEF DeletePhase
      <4>3. RestorePhase(ops[o], u) =>
              /\ Mat!HasTable(u)
              /\ files[u] = Mat!NoFile \/ (Mat!StatusOf(u) = "available" /\ files[u] = records[u].rows)
        BY <3>2 DEF RestorePhase
      <4> QED BY <3>2, <4>1, <4>2, <4>3 DEF Phase, Mat!HasTable, Mat!Gone
    <3>3. CASE \A o \in Slots : u \notin Mat!TablesOf(ops[o])
      BY <2>0, <3>1, <3>3 DEF TableInv
    <3>4. ASSUME NEW o \in Slots, u \in Mat!TablesOf(ops[o])
          PROVE Sound(u) \/ Phase(ops[o], u)
      <4>1. Mat!Busy(o)
        BY <3>4 DEF Mat!TablesOf, Mat!Busy
      <4>2. ops[o].table = u \/ \E x \in ops[o].todo : x.table = u
        BY <3>4 DEF Mat!TablesOf
      <4> QED BY <2>0, <4>1, <4>2 DEF TableInv, Waits
    <3> QED BY <3>1, <3>2, <3>3, <3>4
  <2>3. Sound(u)'
    BY <1>1, <2>1, <2>2, <2>s DEF Sound, Whole
  <2>4. HasRows(u)' /\ NotAsked(u)'
    BY <1>1, <1>4, <2>0, <2>s DEF TableInv, HasRows, NotAsked, Mat!Gone
  <2>5. \A p \in Slots : u \notin Mat!TablesOf(ops[p])'
    BY <1>2 DEF Mat!TablesOf
  <2>6. \A p \in Slots : ~Mat!Busy(p)'
    BY <1>2 DEF Mat!Busy
  <2> QED BY <2>3, <2>4, <2>5, <2>6 DEF TableInv
<1> QED BY <1>3, <1>4 DEF MatInv

LEMMA MatStart == Mat!MatInit => MatInv
<1> SUFFICES ASSUME Mat!MatInit PROVE MatInv
  OBVIOUS
<1>1. \A o \in Slots : ops[o] = Mat!Idle
  BY DEF Mat!MatInit
<1>2. \A o \in Slots : TaskShape(ops[o]) /\ Mat!TablesOf(ops[o]) = {} /\ ~Mat!Busy(o)
                       /\ ops[o].kind = "none"
  BY <1>1, IdleFields DEF TaskShape, Mat!TablesOf, Mat!Busy
<1>3. Shapes /\ OneRestore
  BY <1>2 DEF Mat!MatInit, Shapes, OneRestore, Restoring
<1>4. ASSUME NEW t \in Tables PROVE TableInv(t)
  <2>1. records[t] = [status |-> "available", rows |-> 1] /\ files[t] = 1 /\ ~restored /\ ~crashed
    BY DEF Mat!MatInit, Mat!Imported
  <2>2. Mat!StatusOf(t) = "available" /\ HasRows(t) /\ NotAsked(t)
    BY <2>1 DEF Mat!StatusOf, HasRows, NotAsked
  <2>3. ~Served(t)
    BY <1>2, <2>1 DEF Served, Restoring
  <2>4. Sound(t)
    BY <2>1, <2>2, <2>3 DEF Sound, Whole, Mat!HasTable, Mat!Gone
  <2> QED BY <1>2, <2>2, <2>4 DEF TableInv
<1> QED BY <1>3, <1>4 DEF MatInv

LEMMA MatKept == MatInv /\ [Mat!MatNext]_tableVars => MatInv'
<1> SUFFICES ASSUME MatInv, [Mat!MatNext]_tableVars PROVE MatInv'
  OBVIOUS
<1>1. ASSUME NEW o \in Slots, Mat!Busy(o), Mat!Step(o, ops[o].table) PROVE MatInv'
  <2>1. PICK t : t = ops[o].table
    OBVIOUS
  <2> QED BY <1>1, <2>1, FindInv, GetInv, SaveInv, QueryInv, OpenInv, CloseInv, RegisterInv, LookInv,
             StampInv, ExistsInv, DeleteFileInv, DeleteRecordInv DEF Mat!Step
<1>2. ASSUME UNCHANGED tableVars PROVE MatInv'
  <2>1. /\ records' = records /\ files' = files /\ registered' = registered /\ ops' = ops
        /\ touched' = touched /\ crashed' = crashed /\ source' = source /\ removed' = removed
        /\ restored' = restored /\ hasDuckDB' = hasDuckDB /\ listed' = listed
    BY <1>2 DEF tableVars
  <2>2. Shapes' /\ OneRestore'
    BY <2>1 DEF MatInv, Shapes, TaskShape, OneRestore, Restoring
  <2>3. \A u : Served(u)' = Served(u)
    BY <2>1 DEF Served, Restoring, Mat!TablesOf
  <2>4. ASSUME NEW u \in Tables, u \notin touched' PROVE TableInv(u)'
    <3>0. TableInv(u)
      BY <2>1, <2>4 DEF MatInv
    <3>1. /\ Sound(u) => Sound(u)'
          /\ \A op : Phase(op, u) => Phase(op, u)'
          /\ HasRows(u) => HasRows(u)'
          /\ Mat!StatusOf(u)' = Mat!StatusOf(u)
      BY <2>1, <2>3, Monotone
    <3>2. HasRows(u)' /\ NotAsked(u)'
      BY <2>1, <3>0, <3>1 DEF TableInv, NotAsked
    <3>3. ASSUME NEW p \in Slots, NEW x \in ops'[p].todo, Mat!Busy(p)', x.table = u
          PROVE Waits(ops[p], x)'
      <4>1. Waits(ops[p], x)
        BY <2>1, <3>0, <3>3 DEF TableInv, Mat!Busy
      <4> QED BY <2>1, <3>1, <3>3, <4>1 DEF Waits
    <3>4. ((\A a \in Slots : u \notin Mat!TablesOf(ops[a])) => Sound(u))'
      BY <2>1, <3>0, <3>1 DEF TableInv, Mat!TablesOf
    <3>5. (\A a \in Slots : Mat!Busy(a) /\ ops[a].table = u => Phase(ops[a], u))'
      BY <2>1, <3>0, <3>1 DEF TableInv, Mat!Busy
    <3>6. (\A a, b \in Slots :
            u \in Mat!TablesOf(ops[a]) /\ u \in Mat!TablesOf(ops[b]) => a = b)'
      BY <2>1, <3>0 DEF TableInv, Mat!TablesOf
    <3> QED BY <3>2, <3>3, <3>4, <3>5, <3>6 DEF TableInv
  <2> QED BY <2>2, <2>4 DEF MatInv
<1> QED BY <1>1, <1>2, RefreshInv, DeleteInv, RemoveInv, InitializeInv, LoadInv, CrashInv
        DEF Mat!MatNext

LEMMA MatHonest == MatInv => Mat!TablesAreHonest
<1> SUFFICES ASSUME MatInv, NEW t \in Tables, Mat!Calm(t)
             PROVE /\ Mat!StatusOf(t) = "available" /\ restored =>
                        files[t] = records[t].rows /\ registered[t] = files[t]
                   /\ Mat!StatusOf(t) = "available" /\ ~crashed => files[t] = records[t].rows
                   /\ Mat!StatusOf(t) = "importing" => crashed
                   /\ Mat!StatusOf(t) = Mat!Gone /\ files[t] # Mat!NoFile => removed
  BY DEF Mat!TablesAreHonest
<1>1. Sound(t)
  BY DEF MatInv, TableInv, Mat!Calm
<1>2. restored => Served(t)
  BY DEF Served, Mat!Calm
<1> QED BY <1>1, <1>2 DEF Sound, Whole, Mat!HasTable

-----------------------------------------------------------------------------
(* The list of connections.  The writes that are asked for and not yet done decide    *)
(* what will be stored: the one in the last place, and among those the last request,  *)
(* is done last, since each write of a loop is asked for when the one before it is     *)
(* done.                                                                               *)

Live == [id : Connections, status : {"disconnected", "connecting", "connected"}, version : Nat]
Entry == Live \cup {Con!Deleted(c) : c \in Connections}
Request == [todo : Seq(Entry) \ {<<>>}, adds : BOOLEAN]

\* The connections with credentials in this page, or of an earlier one.
Known == credentials \cup forgotten

NoAsk(q, c) == \A i \in 1..Len(q) : \A j \in 1..Len(q[i].todo) : q[i].todo[j].id # c

\* The writes asked for of c are those of the one request w.
OnlyAsk(q, c, w) ==
  \E n \in 1..Len(q) :
    /\ q[n] = w
    /\ \A i \in 1..Len(q) : \A j \in 1..Len(q[i].todo) : i # n => q[i].todo[j].id # c

\* Of the writes of c, that of r is done last.
LastAsk(q, c, r) ==
  \E i \in 1..Len(q) : \E j \in 1..Len(q[i].todo) :
    /\ q[i].todo[j] = r
    /\ \A i2 \in 1..Len(q) : \A j2 \in 1..Len(q[i2].todo) :
         q[i2].todo[j2].id = c => j2 < j \/ (j2 = j /\ i2 <= i)

\* A listed connection is never written in a later place than its own, nor deleted.
SavedBy(q, c, p) ==
  \A i \in 1..Len(q) : \A j \in 1..Len(q[i].todo) :
    q[i].todo[j].id = c => j <= p /\ q[i].todo[j].status # "none" /\ ~q[i].adds

Lists(s, c) == \E i \in 1..Len(s) : s[i].id = c
Once(s, c) == \A i, j \in 1..Len(s) : s[i].id = c /\ s[j].id = c => i = j

ListedAt(c, p) ==
  /\ c \in Known /\ adding[c] = "no" /\ removing[c] = "no"
  /\ SavedBy(requests, c, p)
  /\ (NoAsk(requests, c) /\ stored[c] = list[p]) \/ LastAsk(requests, c, list[p])

IsRead(c) == reading # <<>> /\ Lists(reading[1], c)
Added(c) == [todo |-> <<Con!Fresh(c)>>, adds |-> TRUE]
Removed(c) == [todo |-> <<Con!Deleted(c)>>, adds |-> FALSE]

Unlisted(c) ==
  /\ testing[c] = <<>>
  /\ adding[c] = "no" \/ removing[c] = "no"
  /\ adding[c] = "asked" => OnlyAsk(requests, c, Added(c))
  /\ removing[c] = "asked" => OnlyAsk(requests, c, Removed(c))
  /\ adding[c] # "asked" /\ removing[c] # "asked" => NoAsk(requests, c)
  /\ adding[c] \in {"credentials", "asked"} \/ removing[c] = "stored" => stored[c] = Con!Deleted(c)
  /\ adding[c] = "stored" => stored[c] = Con!Fresh(c)
  /\ adding[c] = "no" /\ removing[c] = "no" =>
       /\ c \in Known <=> IsRead(c)
       /\ ~IsRead(c) => stored[c] = Con!Deleted(c)
  /\ adding[c] # "no" => c \in Known
  /\ reading # <<>> => adding[c] = "no" /\ removing[c] = "no"

KeptInv(c) ==
  /\ Once(list, c) /\ (reading # <<>> => Once(reading[1], c))
  /\ \A p \in 1..Len(list) : list[p].id = c => reading = <<>> /\ ListedAt(c, p)
  /\ ~Lists(list, c) => Unlisted(c)

ListShapes ==
  /\ list \in Seq(Live) /\ requests \in Seq(Request)
  /\ reading # <<>> => reading[1] \in Seq(Live)
  /\ stored \in [Connections -> Entry] /\ Known \subseteq Connections
  /\ adding \in [Connections -> {"no", "credentials", "asked", "stored"}]
  /\ removing \in [Connections -> {"no", "listed", "asked", "stored"}]
  /\ DOMAIN testing = Connections
  /\ \A c \in Connections : testing[c] # <<>> => testing[c][1] \in Live /\ testing[c][1].id = c

ActiveListed ==
  current # "none" => current = savedCurrent /\ (current \in raced \/ Lists(list, current))

\* A connection is stored under its id; the credentials of an earlier page are gone.
Filed == \A c \in Connections : stored[c].id = c
Apart == credentials \cap forgotten = {}

ConInv == ListShapes /\ ActiveListed /\ \A c \in Connections \ raced : KeptInv(c)

-----------------------------------------------------------------------------
(* Lists, and the requests they are saved by. *)

LEMMA Entries ==
  /\ \A e \in Live : e \in Entry /\ e.status # "none"
  /\ \A c \in Connections : Con!Fresh(c) \in Live /\ Con!Fresh(c) \in Entry /\ Con!Fresh(c).id = c
  /\ \A c \in Connections : Con!Deleted(c) \in Entry /\ Con!Deleted(c).id = c
                            /\ Con!Deleted(c).status = "none"
  /\ Seq(Live) \subseteq Seq(Entry)
<1>1. \A e \in Live : e \in Entry /\ e.status # "none"
  BY DEF Live, Entry
<1>2. \A c \in Connections : Con!Fresh(c) \in Live /\ Con!Fresh(c).id = c
  BY DEF Con!Fresh, Live
<1>3. \A c \in Connections : Con!Deleted(c) \in Entry /\ Con!Deleted(c).id = c
                             /\ Con!Deleted(c).status = "none"
  BY DEF Con!Deleted, Entry
<1>4. Seq(Live) \subseteq Seq(Entry)
  BY <1>1, SeqMonotonic
<1> QED BY <1>1, <1>2, <1>3, <1>4

LEMMA Singleton == \A S : \A x \in S :
  <<x>> \in Seq(S) /\ Len(<<x>>) = 1 /\ <<x>>[1] = x /\ <<x>> # <<>>
OBVIOUS

\* Asking for the writes of l adds them in one request w, or none for an empty list.
LEMMA AsksMore ==
  ASSUME NEW q \in Seq(Request), NEW l \in Seq(Entry), NEW w,
         l # <<>> => w \in Request,
         NEW q2, q2 = q \o (IF l = <<>> THEN <<>> ELSE <<w>>)
  PROVE  /\ q2 \in Seq(Request) /\ Len(q2) \in Nat /\ Len(q) \in Nat
         /\ \A i \in 1..Len(q) : q2[i] = q[i]
         /\ l = <<>> => Len(q2) = Len(q)
         /\ l # <<>> => Len(q2) = Len(q) + 1 /\ q2[Len(q) + 1] = w
<1>0. Len(q) \in Nat
  BY LenProperties
<1>1. CASE l = <<>>
  BY <1>0, <1>1, ConcatEmptySeq
<1>2. CASE l # <<>>
  <2>3. <<w>> \in Seq(Request) /\ Len(<<w>>) = 1 /\ <<w>>[1] = w
    BY <1>2, Singleton
  <2>4. q2 = q \o <<w>>
    BY <1>2
  <2>5. /\ q2 \in Seq(Request) /\ Len(q2) = Len(q) + 1
        /\ \A i \in 1..Len(q) + 1 : q2[i] = IF i <= Len(q) THEN q[i] ELSE <<w>>[i - Len(q)]
    BY <2>3, <2>4, ConcatProperties
  <2>6. (\A i \in 1..Len(q) : q2[i] = q[i]) /\ q2[Len(q) + 1] = w
    BY <1>0, <2>3, <2>5
  <2> QED BY <1>0, <1>2, <2>5, <2>6
<1> QED BY <1>1, <1>2

\* The requests f ask for the writes of l, none of them for addConnection.
Plain(f, l) ==
  \E w : /\ l # <<>> => w \in Request /\ w.todo = l /\ ~w.adds
         /\ f = IF l = <<>> THEN <<>> ELSE <<w>>

LEMMA PlainWrites ==
  /\ Plain(<<>>, <<>>)
  /\ \A l \in Seq(Entry) : Plain(Con!Loop(l), l)
  /\ \A r \in Entry : Plain(Con!Write(r), <<r>>)
<1>1. ASSUME NEW l \in Seq(Entry) PROVE Plain(Con!Loop(l), l)
  <2> SUFFICES /\ l # <<>> => /\ [todo |-> l, adds |-> FALSE] \in Request
                              /\ [todo |-> l, adds |-> FALSE].todo = l
                              /\ ~[todo |-> l, adds |-> FALSE].adds
               /\ Con!Loop(l) = IF l = <<>> THEN <<>> ELSE <<[todo |-> l, adds |-> FALSE]>>
    BY DEF Plain
  <2> QED BY DEF Con!Loop, Con!Writes, Request
<1>2. ASSUME NEW r \in Entry PROVE Plain(Con!Write(r), <<r>>)
  <2>1. <<r>> \in Seq(Entry) /\ Con!Write(r) = Con!Loop(<<r>>)
    BY Singleton DEF Con!Write, Con!Loop
  <2> QED BY <1>1, <2>1
<1>3. Plain(<<>>, <<>>)
  BY DEF Plain
<1> QED BY <1>1, <1>2, <1>3, Entries

\* What setting the list asks for, after the writes of d: the last request is of the
\* whole list.
Follows(q0, q2, d, l) ==
  /\ Len(q0) \in Nat /\ Len(q2) \in Nat /\ Len(q0) <= Len(q2)
  /\ \A i \in 1..Len(q0) : q2[i] = q0[i]
  /\ \A i \in 1..Len(q2) : i > Len(q0) =>
       /\ ~q2[i].adds
       /\ q2[i].todo = d \/ (i = Len(q2) /\ q2[i].todo = l)
  /\ l # <<>> => Len(q2) > Len(q0) /\ q2[Len(q2)].todo = l

LEMMA SetAsks ==
  ASSUME NEW l \in Seq(Live), NEW d \in Seq(Entry), NEW q0 \in Seq(Request),
         NEW f, NEW g, Plain(f, d), Plain(g, l), NEW q2, q2 = q0 \o f \o g
  PROVE  q2 \in Seq(Request) /\ Follows(q0, q2, d, l)
<1>4. l \in Seq(Entry)
  BY Entries
<1>1. PICK v : /\ d # <<>> => v \in Request /\ v.todo = d /\ ~v.adds
               /\ f = IF d = <<>> THEN <<>> ELSE <<v>>
  BY DEF Plain
<1>2. PICK w : /\ l # <<>> => w \in Request /\ w.todo = l /\ ~w.adds
               /\ g = IF l = <<>> THEN <<>> ELSE <<w>>
  BY DEF Plain
<1>3. PICK q : q = q0 \o (IF d = <<>> THEN <<>> ELSE <<v>>)
  OBVIOUS
<1>q. q2 = q \o (IF l = <<>> THEN <<>> ELSE <<w>>)
  BY <1>1, <1>2, <1>3
<1>5. /\ q \in Seq(Request) /\ Len(q) \in Nat /\ Len(q0) \in Nat
      /\ \A i \in 1..Len(q0) : q[i] = q0[i]
      /\ d = <<>> => Len(q) = Len(q0)
      /\ d # <<>> => Len(q) = Len(q0) + 1 /\ q[Len(q0) + 1] = v
  BY <1>1, <1>3, AsksMore
<1>6. /\ q2 \in Seq(Request) /\ Len(q2) \in Nat
      /\ \A i \in 1..Len(q) : q2[i] = q[i]
      /\ l = <<>> => Len(q2) = Len(q)
      /\ l # <<>> => Len(q2) = Len(q) + 1 /\ q2[Len(q) + 1] = w
  <2>1. l # <<>> => w \in Request
    BY <1>2
  <2>2. PICK s : s = q \o (IF l = <<>> THEN <<>> ELSE <<w>>)
    OBVIOUS
  <2>3. q \in Seq(Request)
    BY <1>5
  <2>4. /\ s \in Seq(Request) /\ Len(s) \in Nat
        /\ \A i \in 1..Len(q) : s[i] = q[i]
        /\ l = <<>> => Len(s) = Len(q)
        /\ l # <<>> => Len(s) = Len(q) + 1 /\ s[Len(q) + 1] = w
    BY <1>4, <2>1, <2>2, <2>3, AsksMore
  <2>5. q2 = s
    BY <1>q, <2>2
  <2> QED BY <2>4, <2>5
<1>7. \A i \in 1..Len(q0) : q2[i] = q0[i]
  BY <1>5, <1>6
<1>8. ASSUME NEW i \in 1..Len(q2), i > Len(q0)
      PROVE  /\ ~q2[i].adds
             /\ q2[i].todo = d \/ (i = Len(q2) /\ q2[i].todo = l)
  <2>1. CASE i <= Len(q)
    <3>1. d # <<>> /\ i = Len(q0) + 1
      BY <1>5, <1>8, <2>1
    <3> QED BY <1>1, <1>5, <1>6, <2>1, <3>1
  <2>2. CASE i > Len(q)
    <3>1. l # <<>> /\ i = Len(q) + 1
      BY <1>5, <1>6, <1>8, <2>2
    <3> QED BY <1>2, <1>6, <3>1
  <2> QED BY <1>5, <1>8, <2>1, <2>2
<1>9. l # <<>> => Len(q2) > Len(q0) /\ q2[Len(q2)].todo = l
  BY <1>2, <1>5, <1>6
<1>10. Len(q0) <= Len(q2)
  BY <1>5, <1>6
<1> QED BY <1>5, <1>6, <1>7, <1>8, <1>9, <1>10 DEF Follows

\* A connection in the list is saved as it is there, whatever was asked before.
LEMMA SavedListed ==
  ASSUME NEW l \in Seq(Live), NEW d \in Seq(Entry), NEW q0, NEW q2, Follows(q0, q2, d, l),
         NEW c, NEW p \in 1..Len(l), l[p].id = c, Once(l, c), SavedBy(q0, c, p),
         d = <<>> \/ (Len(d) = 1 /\ d[1].status # "none")
  PROVE  SavedBy(q2, c, p) /\ LastAsk(q2, c, l[p])
<1>1. Len(l) \in Nat /\ l # <<>> /\ \A i \in 1..Len(l) : l[i].status # "none"
  BY LenProperties, ElementOfSeq, Entries
<1>2. ASSUME NEW i \in 1..Len(q2), NEW j \in 1..Len(q2[i].todo), q2[i].todo[j].id = c
      PROVE  j <= p /\ q2[i].todo[j].status # "none" /\ ~q2[i].adds
  <2>1. CASE i <= Len(q0)
    <3>1. i \in 1..Len(q0) /\ q2[i] = q0[i]
      BY <2>1 DEF Follows
    <3> QED BY <1>2, <3>1 DEF SavedBy
  <2>2. CASE i > Len(q0) /\ q2[i].todo = d
    <3>1. j = 1 /\ d # <<>>
      <4>1. d # <<>>
        BY <1>2, <2>2, EmptySeq
      <4> QED BY <1>2, <2>2, <4>1
    <3> QED BY <1>1, <2>2, <3>1 DEF Follows
  <2>3. CASE i > Len(q0) /\ q2[i].todo = l
    <3>1. j = p
      BY <1>2, <2>3 DEF Once
    <3> QED BY <1>1, <2>3, <3>1 DEF Follows
  <2> QED BY <2>1, <2>2, <2>3 DEF Follows
<1>3. PICK n : n = Len(q2)
  OBVIOUS
<1>4. n \in 1..Len(q2) /\ q2[n].todo = l
  BY <1>1, <1>3 DEF Follows
<1>5. \A i2 \in 1..Len(q2) : \A j2 \in 1..Len(q2[i2].todo) :
        q2[i2].todo[j2].id = c => j2 < p \/ (j2 = p /\ i2 <= n)
  BY <1>1, <1>2, <1>3 DEF Follows
<1>6. LastAsk(q2, c, l[p])
  <2>1. p \in 1..Len(q2[n].todo) /\ q2[n].todo[p] = l[p]
    BY <1>4
  <2> QED BY <1>4, <1>5, <2>1 DEF LastAsk
<1> QED BY <1>2, <1>6 DEF SavedBy

\* What is asked of a connection that is not in the list stays as it is.
LEMMA SavedElse ==
  ASSUME NEW l, NEW d, NEW q0, NEW q2, Follows(q0, q2, d, l), NEW c,
         ~Lists(l, c), ~Lists(d, c)
  PROVE  /\ NoAsk(q0, c) => NoAsk(q2, c)
         /\ \A w : OnlyAsk(q0, c, w) => OnlyAsk(q2, c, w)
<1>1. ASSUME NEW i \in 1..Len(q2), NEW j \in 1..Len(q2[i].todo), q2[i].todo[j].id = c
      PROVE  i \in 1..Len(q0) /\ q2[i] = q0[i]
  <2>1. ~(i > Len(q0))
    BY <1>1 DEF Follows, Lists
  <2> QED BY <2>1 DEF Follows
<1>2. NoAsk(q0, c) => NoAsk(q2, c)
  BY <1>1 DEF NoAsk
<1>3. ASSUME NEW w, OnlyAsk(q0, c, w) PROVE OnlyAsk(q2, c, w)
  <2>1. PICK n \in 1..Len(q0) :
          /\ q0[n] = w
          /\ \A i \in 1..Len(q0) : \A j \in 1..Len(q0[i].todo) : i # n => q0[i].todo[j].id # c
    BY <1>3 DEF OnlyAsk
  <2>2. n \in 1..Len(q2) /\ q2[n] = w
    BY <2>1 DEF Follows
  <2>3. \A i \in 1..Len(q2) : \A j \in 1..Len(q2[i].todo) : i # n => q2[i].todo[j].id # c
    BY <1>1, <2>1
  <2> QED BY <2>2, <2>3 DEF OnlyAsk
<1> QED BY <1>2, <1>3

-----------------------------------------------------------------------------
(* Doing the first write asked for. *)

\* The other requests are one place nearer, and what is left of the first is last.
Shifts(q, q2) ==
  /\ Len(q) \in Nat /\ Len(q2) \in Nat /\ 1 <= Len(q)
  /\ Len(q[1].todo) \in Nat /\ 1 <= Len(q[1].todo)
  /\ \A i \in 1..Len(q) : i > 1 => i - 1 \in 1..Len(q2) /\ q2[i - 1] = q[i]
  /\ \A i \in 1..Len(q2) : \/ i + 1 \in 1..Len(q) /\ q2[i] = q[i + 1]
                           \/ i = Len(q) /\ Len(q[1].todo) > 1
  /\ Len(q[1].todo) > 1 =>
       /\ Len(q) \in 1..Len(q2) /\ ~q2[Len(q)].adds
       /\ Len(q2[Len(q)].todo) = Len(q[1].todo) - 1
       /\ \A j \in 1..Len(q[1].todo) - 1 : q2[Len(q)].todo[j] = q[1].todo[j + 1]

LEMMA DoneAsks ==
  ASSUME NEW q \in Seq(Request), q # <<>>, NEW q2, q2 = Tail(q) \o Con!Loop(Tail(Head(q).todo))
  PROVE  q2 \in Seq(Request) /\ Shifts(q, q2) /\ Head(q) = q[1] /\ Head(q[1].todo) = q[1].todo[1]
         /\ q[1].todo[1] \in Entry
<1>1. /\ Tail(q) \in Seq(Request) /\ Len(Tail(q)) = Len(q) - 1 /\ Len(q) \in Nat /\ 1 <= Len(q)
      /\ \A i \in 1..Len(Tail(q)) : Tail(q)[i] = q[i + 1]
      /\ q[1] \in Request /\ Head(q) = q[1]
  BY HeadTailProperties, LenProperties, ElementOfSeq, EmptySeq
<1>2. PICK t : t = q[1].todo
  OBVIOUS
<1>3. t \in Seq(Entry) /\ t # <<>>
  BY <1>1, <1>2 DEF Request
<1>4. PICK l : l = Tail(t)
  OBVIOUS
<1>5. /\ l \in Seq(Entry) /\ Len(l) = Len(t) - 1 /\ Len(t) \in Nat /\ 1 <= Len(t)
      /\ \A i \in 1..Len(l) : l[i] = t[i + 1]
      /\ t[1] \in Entry /\ Head(t) = t[1]
  BY <1>3, <1>4, HeadTailProperties, LenProperties, ElementOfSeq, EmptySeq
<1>6. PICK q1 : q1 = Tail(q)
  OBVIOUS
<1>7. PICK g : g = Con!Loop(l)
  OBVIOUS
<1>8. q2 = q1 \o g
  BY <1>1, <1>2, <1>4, <1>6, <1>7
<1>9. Plain(g, l)
  BY <1>5, <1>7, PlainWrites
<1>10. PICK w : /\ l # <<>> => w \in Request /\ w.todo = l /\ ~w.adds
                /\ g = IF l = <<>> THEN <<>> ELSE <<w>>
  BY <1>9 DEF Plain
<1>11. /\ q2 \in Seq(Request) /\ Len(q2) \in Nat
       /\ \A i \in 1..Len(q1) : q2[i] = q1[i]
       /\ l = <<>> => Len(q2) = Len(q1)
       /\ l # <<>> => Len(q2) = Len(q1) + 1 /\ q2[Len(q1) + 1] = w
  <2>1. l # <<>> => w \in Request
    BY <1>10
  <2>2. PICK s : s = q1 \o (IF l = <<>> THEN <<>> ELSE <<w>>)
    OBVIOUS
  <2>3. q1 \in Seq(Request)
    BY <1>1, <1>6
  <2>4. /\ s \in Seq(Request) /\ Len(s) \in Nat
        /\ \A i \in 1..Len(q1) : s[i] = q1[i]
        /\ l = <<>> => Len(s) = Len(q1)
        /\ l # <<>> => Len(s) = Len(q1) + 1 /\ s[Len(q1) + 1] = w
    BY <1>5, <2>1, <2>2, <2>3, AsksMore
  <2>5. q2 = s
    BY <1>8, <1>10, <2>2
  <2> QED BY <2>4, <2>5
<1>12. l = <<>> <=> Len(t) = 1
  <2>1. l = <<>> <=> Len(l) = 0
    BY <1>5, EmptySeq
  <2>2. PICK n \in Nat : n = Len(t)
    BY <1>5
  <2>3. Len(l) = n - 1
    BY <1>5, <2>2
  <2> QED BY <2>1, <2>2, <2>3
<1>13. Shifts(q, q2)
  <2>0. PICK n \in Nat : n = Len(q)
    BY <1>1
  <2>4. Len(q1) = n - 1 /\ 1 <= n /\ \A i \in 1..n - 1 : q1[i] = q[i + 1]
    BY <1>1, <1>6, <2>0
  <2>5. IF Len(t) = 1 THEN Len(q2) = n - 1 ELSE Len(q2) = n
    BY <1>11, <1>12, <2>0, <2>4
  <2>6. \A i \in 1..n - 1 : q2[i] = q[i + 1] /\ i \in 1..Len(q2)
    BY <1>11, <2>0, <2>4, <2>5
  <2>1. ASSUME NEW i \in 1..n, i > 1 PROVE i - 1 \in 1..Len(q2) /\ q2[i - 1] = q[i]
    <3>1. PICK k \in Nat : k = i - 1
      BY <2>0, <2>1
    <3>2. k \in 1..n - 1 /\ k + 1 = i
      BY <2>0, <2>1, <3>1
    <3>3. q2[k] = q[k + 1] /\ k \in 1..Len(q2)
      BY <2>6, <3>2
    <3> QED BY <3>1, <3>2, <3>3
  <2>2. ASSUME NEW i \in 1..Len(q2)
        PROVE (i + 1 \in 1..n /\ q2[i] = q[i + 1]) \/ (i = n /\ Len(t) > 1)
    <3>1. i \in 1..n - 1 \/ (i = n /\ Len(t) > 1)
      BY <1>5, <2>0, <2>4, <2>5
    <3>2. i \in 1..n - 1 => i + 1 \in 1..n
      BY <2>0
    <3> QED BY <2>6, <3>1, <3>2
  <2>3. ASSUME Len(t) > 1
        PROVE  /\ Len(q) \in 1..Len(q2) /\ ~q2[Len(q)].adds
               /\ Len(q2[Len(q)].todo) = Len(t) - 1
               /\ \A j \in 1..Len(t) - 1 : q2[Len(q)].todo[j] = t[j + 1]
    <3>1. l # <<>> /\ Len(q1) = Len(q) - 1 /\ Len(q) \in Nat
      BY <1>1, <1>5, <1>6, <1>12, <2>3
    <3>2. Len(q) \in 1..Len(q2) /\ q2[Len(q)] = w
      BY <1>11, <2>0, <2>4, <3>1
    <3>3. w.todo = l /\ ~w.adds
      BY <1>10, <3>1
    <3> QED BY <1>5, <3>2, <3>3
  <2> QED BY <1>1, <1>2, <1>5, <1>11, <2>0, <2>1, <2>2, <2>3 DEF Shifts
<1> QED BY <1>1, <1>2, <1>5, <1>11, <1>13

\* What is still to write once a write is done was still to write before it.
LEMMA ShiftsEach ==
  ASSUME NEW q, NEW q2, Shifts(q, q2), NEW i \in 1..Len(q2), NEW j \in 1..Len(q2[i].todo)
  PROVE  \/ i + 1 \in 1..Len(q) /\ q2[i] = q[i + 1]
         \/ /\ i = Len(q) /\ Len(q[1].todo) > 1 /\ ~q2[i].adds
            /\ j + 1 \in 1..Len(q[1].todo) /\ q2[i].todo[j] = q[1].todo[j + 1]
<1>1. \/ i + 1 \in 1..Len(q) /\ q2[i] = q[i + 1]
      \/ i = Len(q) /\ Len(q[1].todo) > 1
  BY DEF Shifts
<1>2. ASSUME i = Len(q), Len(q[1].todo) > 1
      PROVE  /\ ~q2[i].adds
             /\ j + 1 \in 1..Len(q[1].todo) /\ q2[i].todo[j] = q[1].todo[j + 1]
  <2>1. PICK k \in Nat : k = Len(q[1].todo)
    BY DEF Shifts
  <2>2. /\ ~q2[i].adds /\ Len(q2[i].todo) = k - 1
        /\ \A m \in 1..k - 1 : q2[i].todo[m] = q[1].todo[m + 1]
    BY <1>2, <2>1 DEF Shifts
  <2>3. j \in 1..k - 1
    BY <2>2
  <2>4. j + 1 \in 1..k
    BY <2>1, <2>3
  <2> QED BY <2>1, <2>2, <2>3, <2>4
<1> QED BY <1>1, <1>2

\* A write of c is done in its turn: the last of them stays the last, until it is done.
LEMMA DoneListed ==
  ASSUME NEW q, NEW q2, Shifts(q, q2), NEW c
  PROVE  /\ \A p : SavedBy(q, c, p) /\ p \in Nat => SavedBy(q2, c, p)
         /\ \A r : LastAsk(q, c, r) /\ r.id = c =>
              LastAsk(q2, c, r) \/ (NoAsk(q2, c) /\ q[1].todo[1] = r)
<1>1. ASSUME NEW i \in 1..Len(q2), NEW j \in 1..Len(q2[i].todo)
      PROVE  \/ i + 1 \in 1..Len(q) /\ q2[i] = q[i + 1]
             \/ /\ i = Len(q) /\ ~q2[i].adds
                /\ j + 1 \in 1..Len(q[1].todo) /\ q2[i].todo[j] = q[1].todo[j + 1]
  BY <1>1, ShiftsEach
<1>2. ASSUME NEW p \in Nat, SavedBy(q, c, p), NEW i \in 1..Len(q2), NEW j \in 1..Len(q2[i].todo),
             q2[i].todo[j].id = c
      PROVE  j <= p /\ q2[i].todo[j].status # "none" /\ ~q2[i].adds
  <2>1. CASE i + 1 \in 1..Len(q) /\ q2[i] = q[i + 1]
    BY <1>2, <2>1 DEF SavedBy
  <2>2. CASE /\ i = Len(q) /\ ~q2[i].adds
             /\ j + 1 \in 1..Len(q[1].todo) /\ q2[i].todo[j] = q[1].todo[j + 1]
    <3>1. 1 \in 1..Len(q)
      BY DEF Shifts
    <3>2. j + 1 <= p /\ q[1].todo[j + 1].status # "none"
      BY <1>2, <2>2, <3>1 DEF SavedBy
    <3> QED BY <2>2, <3>2
  <2> QED BY <1>1, <2>1, <2>2
<1>3. ASSUME NEW r, LastAsk(q, c, r), r.id = c
      PROVE  LastAsk(q2, c, r) \/ (NoAsk(q2, c) /\ q[1].todo[1] = r)
  <2>1. PICK i \in 1..Len(q) : \E j \in 1..Len(q[i].todo) :
           /\ q[i].todo[j] = r
           /\ \A i2 \in 1..Len(q) : \A j2 \in 1..Len(q[i2].todo) :
                q[i2].todo[j2].id = c => j2 < j \/ (j2 = j /\ i2 <= i)
    BY <1>3 DEF LastAsk
  <2>2. PICK j \in 1..Len(q[i].todo) :
           /\ q[i].todo[j] = r
           /\ \A i2 \in 1..Len(q) : \A j2 \in 1..Len(q[i2].todo) :
                q[i2].todo[j2].id = c => j2 < j \/ (j2 = j /\ i2 <= i)
    BY <2>1
  <2>3. ASSUME NEW i2 \in 1..Len(q2), NEW j2 \in 1..Len(q2[i2].todo), q2[i2].todo[j2].id = c
        PROVE  \/ i2 + 1 \in 1..Len(q) /\ (j2 < j \/ (j2 = j /\ i2 + 1 <= i))
               \/ i2 = Len(q) /\ (j2 + 1 < j \/ (j2 + 1 = j /\ 1 <= i))
    <3>1. CASE i2 + 1 \in 1..Len(q) /\ q2[i2] = q[i2 + 1]
      BY <2>2, <2>3, <3>1
    <3>2. CASE /\ i2 = Len(q)
               /\ j2 + 1 \in 1..Len(q[1].todo) /\ q2[i2].todo[j2] = q[1].todo[j2 + 1]
      <4>1. 1 \in 1..Len(q)
        BY DEF Shifts
      <4>2. j2 + 1 < j \/ (j2 + 1 = j /\ 1 <= i)
        BY <2>2, <2>3, <3>2, <4>1
      <4> QED BY <3>2, <4>2
    <3> QED BY <1>1, <2>3, <3>1, <3>2
  <2>4. CASE i > 1
    <3>1. i - 1 \in 1..Len(q2) /\ q2[i - 1] = q[i]
      BY <2>4 DEF Shifts
    <3>2. \A i2 \in 1..Len(q2) : \A j2 \in 1..Len(q2[i2].todo) :
            q2[i2].todo[j2].id = c => j2 < j \/ (j2 = j /\ i2 <= i - 1)
      BY <2>2, <2>3
    <3>3. j \in 1..Len(q2[i - 1].todo) /\ q2[i - 1].todo[j] = r
      BY <2>2, <3>1
    <3> QED BY <3>1, <3>2, <3>3 DEF LastAsk
  <2>5. CASE i = 1 /\ j > 1
    <3>1. PICK n : n = Len(q)
      OBVIOUS
    <3>2. n \in 1..Len(q2) /\ j - 1 \in 1..Len(q2[n].todo) /\ q2[n].todo[j - 1] = r
      BY <2>2, <2>5, <3>1 DEF Shifts
    <3>3. \A i2 \in 1..Len(q2) : \A j2 \in 1..Len(q2[i2].todo) :
            q2[i2].todo[j2].id = c => j2 < j - 1 \/ (j2 = j - 1 /\ i2 <= n)
      <4>1. j \in Nat /\ n \in Nat /\ Len(q2) \in Nat
        BY <2>2, <3>1 DEF Shifts
      <4>2. SUFFICES ASSUME NEW i2 \in 1..Len(q2), NEW j2 \in 1..Len(q2[i2].todo),
                            q2[i2].todo[j2].id = c
                     PROVE  j2 < j - 1 \/ (j2 = j - 1 /\ i2 <= n)
        OBVIOUS
      <4>3. \/ i2 + 1 \in 1..n /\ (j2 < j \/ (j2 = j /\ i2 + 1 <= i))
            \/ i2 = n /\ (j2 + 1 < j \/ (j2 + 1 = j /\ 1 <= i))
        BY <2>3, <3>1, <4>2
      <4> QED BY <2>5, <4>1, <4>3
    <3> QED BY <3>2, <3>3 DEF LastAsk
  <2>6. CASE i = 1 /\ j = 1
    <3>1. ASSUME NEW i2 \in 1..Len(q2), NEW j2 \in 1..Len(q2[i2].todo), q2[i2].todo[j2].id = c
          PROVE  FALSE
      <4>1. \/ i2 + 1 \in 1..Len(q) /\ (j2 < 1 \/ (j2 = 1 /\ i2 + 1 <= 1))
            \/ j2 + 1 < 1 \/ j2 + 1 = 1
        BY <2>3, <2>6, <3>1
      <4> QED BY <3>1, <4>1
    <3>2. NoAsk(q2, c)
      BY <3>1 DEF NoAsk
    <3> QED BY <2>2, <2>6, <3>2
  <2> QED BY <2>4, <2>5, <2>6
<1>4. ASSUME NEW p \in Nat, SavedBy(q, c, p) PROVE SavedBy(q2, c, p)
  BY <1>2, <1>4 DEF SavedBy
<1> QED BY <1>3, <1>4

LEMMA DoneElse ==
  ASSUME NEW q, NEW q2, Shifts(q, q2), NEW c
  PROVE  /\ NoAsk(q, c) => NoAsk(q2, c)
         /\ \A w : OnlyAsk(q, c, w) /\ Len(w.todo) = 1 /\ w.todo[1].id = c =>
              IF q[1] = w THEN NoAsk(q2, c) ELSE OnlyAsk(q2, c, w)
<1>1. ASSUME NEW i \in 1..Len(q2), NEW j \in 1..Len(q2[i].todo)
      PROVE  \/ i + 1 \in 1..Len(q) /\ q2[i] = q[i + 1]
             \/ /\ i = Len(q) /\ Len(q[1].todo) > 1
                /\ j + 1 \in 1..Len(q[1].todo) /\ q2[i].todo[j] = q[1].todo[j + 1]
  BY <1>1, ShiftsEach
<1>0. 1 \in 1..Len(q)
  BY DEF Shifts
<1>2. ASSUME NoAsk(q, c) PROVE NoAsk(q2, c)
  <2>1. ASSUME NEW i \in 1..Len(q2), NEW j \in 1..Len(q2[i].todo) PROVE q2[i].todo[j].id # c
    <3>1. CASE i + 1 \in 1..Len(q) /\ q2[i] = q[i + 1]
      BY <1>2, <2>1, <3>1 DEF NoAsk
    <3>2. CASE j + 1 \in 1..Len(q[1].todo) /\ q2[i].todo[j] = q[1].todo[j + 1]
      BY <1>0, <1>2, <2>1, <3>2 DEF NoAsk
    <3> QED BY <1>1, <2>1, <3>1, <3>2
  <2> QED BY <2>1 DEF NoAsk
<1>3. ASSUME NEW w, OnlyAsk(q, c, w), Len(w.todo) = 1, w.todo[1].id = c
      PROVE  IF q[1] = w THEN NoAsk(q2, c) ELSE OnlyAsk(q2, c, w)
  <2>1. PICK n \in 1..Len(q) :
          /\ q[n] = w
          /\ \A i \in 1..Len(q) : \A j \in 1..Len(q[i].todo) : i # n => q[i].todo[j].id # c
    BY <1>3 DEF OnlyAsk
  <2>2. CASE n = 1
    <3>1. ASSUME NEW i \in 1..Len(q2), NEW j \in 1..Len(q2[i].todo) PROVE q2[i].todo[j].id # c
      <4>1. i + 1 \in 1..Len(q) /\ q2[i] = q[i + 1] /\ i + 1 # n
        BY <1>1, <1>3, <2>1, <2>2, <3>1
      <4> QED BY <2>1, <4>1
    <3> QED BY <2>1, <2>2, <3>1 DEF NoAsk
  <2>3. CASE n > 1
    <3>1. n - 1 \in 1..Len(q2) /\ q2[n - 1] = w
      BY <2>1, <2>3 DEF Shifts
    <3>2. ASSUME NEW i \in 1..Len(q2), NEW j \in 1..Len(q2[i].todo), i # n - 1
          PROVE q2[i].todo[j].id # c
      <4>1. CASE i + 1 \in 1..Len(q) /\ q2[i] = q[i + 1]
        <5>1. i + 1 # n
          BY <2>3, <3>2
        <5> QED BY <2>1, <4>1, <5>1
      <4>2. CASE j + 1 \in 1..Len(q[1].todo) /\ q2[i].todo[j] = q[1].todo[j + 1]
        BY <1>0, <2>1, <2>3, <4>2
      <4> QED BY <1>1, <3>2, <4>1, <4>2
    <3>3. q[1] # w
      BY <1>0, <1>3, <2>1, <2>3
    <3> QED BY <3>1, <3>2, <3>3 DEF OnlyAsk
  <2> QED BY <2>2, <2>3
<1> QED BY <1>2, <1>3

-----------------------------------------------------------------------------
(* The operations on the list. *)

LEMMA IdsIn == \A S : \A s \in Seq(S) : \A c : c \in Con!Ids(s) <=> Lists(s, c)
BY LenProperties DEF Con!Ids, Lists

LEMMA UpdatedLive ==
  ASSUME NEW r \in Live, NEW what \in {"version", "connecting", "connected"}
  PROVE  Con!Updated(r, what) \in Live /\ Con!Updated(r, what).id = r.id
BY DEF Con!Updated, Live

LEMMA MappedList ==
  ASSUME NEW l \in Seq(Live), NEW c, NEW what \in {"version", "connecting", "connected"},
         NEW m, m = Con!Mapped(l, c, what)
  PROVE  m \in Seq(Live) /\ Len(m) = Len(l) /\ \A i \in 1..Len(l) : m[i].id = l[i].id
<1>0. Len(l) \in Nat /\ DOMAIN l = 1..Len(l)
  BY LenProperties
<1>1. Len(l) \in Nat /\ DOMAIN l = 1..Len(l) /\ \A i \in 1..Len(l) : l[i] \in Live
  <2>1. ASSUME NEW i \in 1..Len(l) PROVE l[i] \in Live
    BY <2>1, ElementOfSeq
  <2> QED BY <1>0, <2>1
<1>2. PICK n \in Nat : n = Len(l)
  BY <1>1
<1>3. DOMAIN m = 1..n /\ \A i \in 1..n : m[i] \in Live /\ m[i].id = l[i].id
  BY <1>1, <1>2, UpdatedLive DEF Con!Mapped
<1>4. m \in [1..n -> Live]
  BY <1>1, <1>2, <1>3 DEF Con!Mapped
<1>5. m \in Seq(Live)
  BY <1>4, SeqDef
<1>6. Len(m) = n
  BY <1>3, <1>5, LenProperties
<1> QED BY <1>2, <1>3, <1>5, <1>6

LEMMA WithoutList ==
  ASSUME NEW l \in Seq(Live), NEW k \in 1..Len(l), NEW w, w = Con!Without(l, k)
  PROVE  /\ w \in Seq(Live) /\ Len(w) = Len(l) - 1 /\ Len(l) \in Nat
         /\ \A i \in 1..Len(l) - 1 : w[i] = IF i < k THEN l[i] ELSE l[i + 1]
<1>1. Len(l) \in Nat /\ \A i \in 1..Len(l) : l[i] \in Live
  BY LenProperties, ElementOfSeq
<1>2. PICK a : a = SubSeq(l, 1, k - 1)
  OBVIOUS
<1>3. PICK b : b = SubSeq(l, k + 1, Len(l))
  OBVIOUS
<1>4. PICK n \in Nat : n = Len(l)
  BY <1>1
<1>5. a \in Seq(Live) /\ Len(a) = k - 1 /\ \A i \in 1..k - 1 : a[i] = l[i]
  <2>1. \A i \in 1..k - 1 : l[i] \in Live
    BY <1>1
  <2>2. k - 1 \in Int /\ 1 \in Int
    BY <1>1
  <2>3. /\ SubSeq(l, 1, k - 1) \in Seq(Live)
        /\ Len(SubSeq(l, 1, k - 1)) = IF 1 <= k - 1 THEN (k - 1) - 1 + 1 ELSE 0
        /\ \A i \in 1..(k - 1) - 1 + 1 : SubSeq(l, 1, k - 1)[i] = l[1 + i - 1]
    BY <2>1, <2>2, SubSeqProperties
  <2> QED BY <1>1, <1>2, <2>3
<1>6. b \in Seq(Live) /\ Len(b) = n - k /\ \A i \in 1..n - k : b[i] = l[k + i]
  <2>1. \A i \in k + 1..n : l[i] \in Live
    BY <1>1, <1>4
  <2>2. k + 1 \in Int /\ n \in Int /\ k <= n
    BY <1>1, <1>4
  <2>3. /\ SubSeq(l, k + 1, n) \in Seq(Live)
        /\ Len(SubSeq(l, k + 1, n)) = IF k + 1 <= n THEN n - (k + 1) + 1 ELSE 0
        /\ \A i \in 1..n - (k + 1) + 1 : SubSeq(l, k + 1, n)[i] = l[(k + 1) + i - 1]
    BY <2>1, <2>2, SubSeqProperties
  <2> QED BY <1>1, <1>3, <1>4, <2>2, <2>3
<1>7. w = a \o b
  BY <1>2, <1>3 DEF Con!Without
<1>8. /\ a \o b \in Seq(Live) /\ Len(a \o b) = Len(a) + Len(b)
      /\ \A i \in 1..Len(a) + Len(b) : (a \o b)[i] = IF i <= Len(a) THEN a[i] ELSE b[i - Len(a)]
  BY <1>5, <1>6, ConcatProperties
<1>9. ASSUME NEW i \in 1..n - 1 PROVE w[i] = IF i < k THEN l[i] ELSE l[i + 1]
  <2>1. Len(a) + Len(b) = n - 1
    BY <1>1, <1>5, <1>6
  <2>2. w[i] = IF i <= k - 1 THEN a[i] ELSE b[i - (k - 1)]
    BY <1>5, <1>7, <1>8, <2>1
  <2>3. CASE i < k
    BY <1>1, <1>5, <2>2, <2>3
  <2>4. CASE ~(i < k)
    <3>1. PICK j \in Int : j = i - (k - 1)
      BY <1>1, <1>4
    <3>2. j \in 1..n - k /\ k + j = i + 1 /\ ~(i <= k - 1)
      BY <1>1, <1>4, <2>4, <3>1
    <3> QED BY <1>6, <2>2, <2>4, <3>1, <3>2
  <2> QED BY <2>3, <2>4
<1>10. Len(w) = n - 1
  BY <1>1, <1>4, <1>5, <1>6, <1>7, <1>8
<1> QED BY <1>1, <1>4, <1>7, <1>8, <1>9, <1>10

\* A connection of the new list, however it came there.
LEMMA SetListed ==
  ASSUME NEW d \in Seq(Entry), list' \in Seq(Live), Follows(requests, requests', d, list'),
         d = <<>> \/ (Len(d) = 1 /\ d[1].status # "none"),
         NEW c, NEW p \in 1..Len(list'), list'[p].id = c, Once(list', c), SavedBy(requests, c, p),
         c \in Known', adding'[c] = "no", removing'[c] = "no"
  PROVE  ListedAt(c, p)'
<1>1. PICK l : l = list'
  OBVIOUS
<1>2. PICK q2 : q2 = requests'
  OBVIOUS
<1>3. SavedBy(q2, c, p) /\ LastAsk(q2, c, l[p])
  BY <1>1, <1>2, SavedListed
<1> QED BY <1>1, <1>2, <1>3 DEF ListedAt

LEMMA SetFollows ==
  ASSUME ListShapes, NEW l \in Seq(Live), NEW f, NEW d \in Seq(Entry), Plain(f, d),
         Con!SetConnections(l, f)
  PROVE  list' = l /\ requests' \in Seq(Request) /\ Follows(requests, requests', d, l)
<1>1. list' = l /\ requests' = requests \o f \o Con!Loop(l)
  BY DEF Con!SetConnections
<1>2. PICK g : g = Con!Loop(l)
  OBVIOUS
<1>3. Plain(g, l)
  BY <1>2, PlainWrites, Entries
<1>4. PICK q2 : q2 = requests \o f \o g
  OBVIOUS
<1>5. requests \in Seq(Request)
  BY DEF ListShapes
<1>6. q2 \in Seq(Request) /\ Follows(requests, q2, d, l)
  BY <1>3, <1>4, <1>5, SetAsks
<1> QED BY <1>1, <1>2, <1>4, <1>6

LEMMA LoadListInv ==
  ASSUME ConInv, Con!LoadConnections
  PROVE  ConInv'
<1>1. /\ reading # <<>> /\ reading' = <<>> /\ Con!SetConnections(reading[1], <<>>)
      /\ current' = IF savedCurrent \in Con!Ids(reading[1]) THEN savedCurrent ELSE current
      /\ stored' = stored /\ Known' = Known /\ savedCurrent' = savedCurrent
      /\ adding' = adding /\ testing' = testing /\ removing' = removing /\ raced' = raced
  BY DEF Con!LoadConnections, Known
<1>2. PICK l : l = reading[1]
  OBVIOUS
<1>3. l \in Seq(Live)
  BY <1>1, <1>2 DEF ConInv, ListShapes
<1>4. <<>> \in Seq(Entry) /\ Plain(<<>>, <<>>)
  BY EmptySeq, PlainWrites
<1>5. list' = l /\ requests' \in Seq(Request) /\ Follows(requests, requests', <<>>, l)
  BY <1>1, <1>2, <1>3, <1>4, SetFollows DEF ConInv
<1>6. ListShapes'
  BY <1>1, <1>3, <1>5 DEF ConInv, ListShapes
<1>7. ActiveListed'
  <2>1. savedCurrent \in Con!Ids(reading[1]) <=> Lists(l, savedCurrent)
    BY <1>2, <1>3, IdsIn
  <2>2. CASE Lists(l, savedCurrent)
    BY <1>1, <1>5, <2>1, <2>2 DEF ActiveListed
  <2>3. CASE ~Lists(l, savedCurrent) /\ current # "none"
    <3>1. current' = current /\ current = savedCurrent
      BY <1>1, <2>1, <2>3 DEF ConInv, ActiveListed
    <3>2. current \in raced
      <4>1. SUFFICES ASSUME Lists(list, current), current \notin raced PROVE FALSE
        BY <2>3 DEF ConInv, ActiveListed
      <4>2. PICK i \in 1..Len(list) : list[i].id = current
        BY <4>1 DEF Lists
      <4>3. list[i] \in Live
        BY ElementOfSeq DEF ConInv, ListShapes
      <4>4. current \in Connections
        BY <4>2, <4>3 DEF Live
      <4>5. reading = <<>>
        BY <4>1, <4>2, <4>4 DEF ConInv, KeptInv
      <4> QED BY <1>1, <4>5
    <3> QED BY <1>1, <3>1, <3>2 DEF ActiveListed
  <2>4. CASE ~Lists(l, savedCurrent) /\ current = "none"
    BY <1>1, <2>1, <2>4 DEF ActiveListed
  <2> QED BY <2>2, <2>3, <2>4
<1>8. ASSUME NEW c \in Connections \ raced' PROVE KeptInv(c)'
  <2>1. KeptInv(c) /\ ~Lists(list, c) /\ Unlisted(c)
    BY <1>1, <1>8 DEF ConInv, KeptInv, Lists
  <2>2. adding[c] = "no" /\ removing[c] = "no" /\ NoAsk(requests, c) /\ testing[c] = <<>>
        /\ (c \in Known <=> Lists(l, c))
        /\ (~Lists(l, c) => stored[c] = Con!Deleted(c))
    BY <1>1, <1>2, <2>1 DEF Unlisted, IsRead
  <2>3. Once(l, c)
    BY <1>1, <1>2, <2>1 DEF KeptInv
  <2>4. ASSUME NEW p \in 1..Len(list'), list'[p].id = c PROVE ListedAt(c, p)'
    <3>1. Lists(l, c)
      BY <1>5, <2>4 DEF Lists
    <3>2. SavedBy(requests, c, p)
      BY <2>2 DEF NoAsk, SavedBy
    <3>3. c \in Known' /\ adding'[c] = "no" /\ removing'[c] = "no" /\ Once(list', c)
      BY <1>1, <1>5, <2>2, <2>3, <3>1
    <3> QED BY <1>3, <1>4, <1>5, <2>4, <3>2, <3>3, SetListed
  <2>5. ASSUME ~Lists(list', c) PROVE Unlisted(c)'
    <3>0. ~Lists(<<>>, c)
      BY EmptySeq DEF Lists
    <3>1. NoAsk(requests, c) => NoAsk(requests', c)
      BY <1>5, <2>5, <3>0, SavedElse
    <3>2. ~IsRead(c)'
      BY <1>1 DEF IsRead
    <3> QED BY <1>1, <1>5, <2>2, <2>5, <3>1, <3>2 DEF Unlisted
  <2> QED BY <1>1, <1>5, <2>3, <2>4, <2>5 DEF KeptInv
<1> QED BY <1>6, <1>7, <1>8 DEF ConInv

\* updateConnection, from the connections of any render, of a connection still listed.
LEMMA UpdateInv ==
  ASSUME ConInv, NEW seen \in Live, NEW what \in {"version", "connecting", "connected"},
         Con!UpdateConnection(seen, what),
         Lists(list, seen.id) \/ testing[seen.id] # <<>>, seen.id \in Connections,
         stored' = stored, Known' = Known, reading' = reading, adding' = adding,
         removing' = removing, raced' = raced,
         DOMAIN testing' = Connections,
         \A c \in Connections : testing'[c] # <<>> =>
           /\ testing'[c][1] \in Live /\ testing'[c][1].id = c
           /\ testing[c] # <<>> \/ Lists(list, c),
         \/ current' = current /\ savedCurrent' = savedCurrent
         \/ current' = savedCurrent' /\ Lists(list, current')
  PROVE  ConInv'
<1>1. PICK l : l = Con!Mapped(list, seen.id, what)
  OBVIOUS
<1>2. PICK u : u = Con!Updated(seen, what)
  OBVIOUS
<1>3. list \in Seq(Live)
  BY DEF ConInv, ListShapes
<1>4. l \in Seq(Live) /\ Len(l) = Len(list) /\ \A i \in 1..Len(list) : l[i].id = list[i].id
  BY <1>1, <1>3, MappedList
<1>5. u \in Entry /\ u.id = seen.id /\ u.status # "none"
  BY <1>2, UpdatedLive, Entries
<1>6. PICK d : d = <<u>>
  OBVIOUS
<1>7. d \in Seq(Entry) /\ Len(d) = 1 /\ d[1] = u
  BY <1>5, <1>6, Singleton
<1>8. PICK f : f = Con!Write(u)
  OBVIOUS
<1>9. Plain(f, d)
  BY <1>5, <1>6, <1>8, PlainWrites
<1>10. Con!SetConnections(l, f)
  BY <1>1, <1>2, <1>8 DEF Con!UpdateConnection
<1>11. list' = l /\ requests' \in Seq(Request) /\ Follows(requests, requests', d, l)
  BY <1>4, <1>7, <1>9, <1>10, SetFollows DEF ConInv
<1>12. ListShapes'
  BY <1>4, <1>11 DEF ConInv, ListShapes
<1>13. \A c : Lists(list', c) <=> Lists(list, c)
  BY <1>4, <1>11 DEF Lists
<1>14. ActiveListed'
  BY <1>13 DEF ConInv, ActiveListed
<1>15. ASSUME NEW c \in Connections \ raced' PROVE KeptInv(c)'
  <2>1. KeptInv(c)
    BY <1>15 DEF ConInv
  <2>2. Once(list', c)
    BY <1>4, <1>11, <2>1 DEF KeptInv, Once
  <2>3. ASSUME NEW p \in 1..Len(list'), list'[p].id = c PROVE reading' = <<>> /\ ListedAt(c, p)'
    <3>1. p \in 1..Len(list) /\ list[p].id = c
      BY <1>4, <1>11, <2>3
    <3>2. ListedAt(c, p) /\ reading = <<>>
      BY <2>1, <3>1 DEF KeptInv
    <3>3. /\ SavedBy(requests, c, p)
          /\ c \in Known' /\ adding'[c] = "no" /\ removing'[c] = "no"
      BY <3>2 DEF ListedAt
    <3>4. list' \in Seq(Live) /\ Follows(requests, requests', d, list')
      BY <1>4, <1>11
    <3>5. d[1].status # "none"
      BY <1>5, <1>7
    <3>6. ListedAt(c, p)'
      BY <1>7, <2>2, <2>3, <3>3, <3>4, <3>5, SetListed
    <3> QED BY <3>2, <3>6
  <2>4. ASSUME ~Lists(list', c) PROVE Unlisted(c)'
    <3>1. Unlisted(c)
      BY <1>13, <2>1, <2>4 DEF KeptInv
    <3>2. seen.id # c
      BY <1>13, <2>4, <3>1 DEF Unlisted
    <3>3. ~Lists(l, c) /\ ~Lists(d, c)
      BY <1>5, <1>7, <1>11, <2>4, <3>2 DEF Lists
    <3>4. /\ NoAsk(requests, c) => NoAsk(requests', c)
          /\ \A w : OnlyAsk(requests, c, w) => OnlyAsk(requests', c, w)
      <4>1. PICK q2 : q2 = requests'
        OBVIOUS
      <4>2. Follows(requests, q2, d, l)
        BY <1>11, <4>1
      <4>3. /\ NoAsk(requests, c) => NoAsk(q2, c)
            /\ \A w : OnlyAsk(requests, c, w) => OnlyAsk(q2, c, w)
        BY <3>3, <4>2, SavedElse
      <4> QED BY <4>1, <4>3
    <3>5. testing'[c] = <<>>
      BY <1>13, <2>4, <3>1 DEF Unlisted
    <3>6. IsRead(c)' <=> IsRead(c)
      BY DEF IsRead
    <3> QED BY <3>1, <3>4, <3>5, <3>6 DEF Unlisted, Added, Removed
  <2> QED BY <2>1, <2>2, <2>3, <2>4 DEF KeptInv
<1> QED BY <1>12, <1>14, <1>15 DEF ConInv

LEMMA ListEntry ==
  ASSUME ConInv, NEW k \in DOMAIN list
  PROVE  /\ k \in 1..Len(list) /\ list[k] \in Live /\ list[k].id \in Connections
         /\ Lists(list, list[k].id)
<1>1. list \in Seq(Live)
  BY DEF ConInv, ListShapes
<1>2. k \in 1..Len(list) /\ list[k] \in Live
  BY <1>1, LenProperties, ElementOfSeq
<1> QED BY <1>2 DEF Live, Lists

LEMMA UpdatesInv ==
  ASSUME ConInv, NEW k \in DOMAIN list,
         Con!Update(k) \/ Con!SetActiveConnection(k) \/ Con!TestConnection(k)
  PROVE  ConInv'
<1>1. PICK seen : seen = list[k]
  OBVIOUS
<1>2. seen \in Live /\ seen.id \in Connections /\ Lists(list, seen.id)
  BY <1>1, ListEntry
<1>3. /\ DOMAIN testing = Connections
      /\ \A c \in Connections : testing[c] # <<>> => testing[c][1] \in Live /\ testing[c][1].id = c
  BY DEF ConInv, ListShapes
<1>4. CASE Con!Update(k)
  <2>1. Con!UpdateConnection(seen, "version") /\ testing' = testing
        /\ stored' = stored /\ Known' = Known /\ reading' = reading /\ adding' = adding
        /\ removing' = removing /\ raced' = raced /\ current' = current
        /\ savedCurrent' = savedCurrent
    BY <1>1, <1>4 DEF Con!Update, Known
  <2> QED BY <1>2, <1>3, <2>1, UpdateInv
<1>5. CASE Con!SetActiveConnection(k)
  <2>1. Con!UpdateConnection(seen, "version") /\ testing' = testing
        /\ stored' = stored /\ Known' = Known /\ reading' = reading /\ adding' = adding
        /\ removing' = removing /\ raced' = raced /\ current' = seen.id
        /\ savedCurrent' = seen.id
    BY <1>1, <1>5 DEF Con!SetActiveConnection, Known
  <2> QED BY <1>2, <1>3, <2>1, UpdateInv
<1>6. CASE Con!TestConnection(k)
  <2>1. Con!UpdateConnection(seen, "connecting")
        /\ testing' = [testing EXCEPT ![seen.id] = <<seen>>]
        /\ stored' = stored /\ Known' = Known /\ reading' = reading /\ adding' = adding
        /\ removing' = removing /\ raced' = raced /\ current' = current
        /\ savedCurrent' = savedCurrent
    BY <1>1, <1>6 DEF Con!TestConnection, Known
  <2>2. DOMAIN testing' = Connections
    BY <1>3, <2>1
  <2>3. ASSUME NEW c \in Connections, testing'[c] # <<>>
        PROVE  /\ testing'[c][1] \in Live /\ testing'[c][1].id = c
               /\ testing[c] # <<>> \/ Lists(list, c)
    BY <1>2, <1>3, <2>1, <2>3
  <2> QED BY <1>2, <2>1, <2>2, <2>3, UpdateInv
<1> QED BY <1>4, <1>5, <1>6

LEMMA TestedInv ==
  ASSUME ConInv, NEW c \in Connections, Con!Tested(c)
  PROVE  ConInv'
<1>1. PICK seen : seen = testing[c][1]
  OBVIOUS
<1>2. /\ DOMAIN testing = Connections
      /\ \A b \in Connections : testing[b] # <<>> => testing[b][1] \in Live /\ testing[b][1].id = b
  BY DEF ConInv, ListShapes
<1>3. Con!UpdateConnection(seen, "connected") /\ testing[c] # <<>>
      /\ testing' = [testing EXCEPT ![c] = <<>>]
      /\ stored' = stored /\ Known' = Known /\ reading' = reading /\ adding' = adding
      /\ removing' = removing /\ raced' = raced /\ current' = current
      /\ savedCurrent' = savedCurrent
  BY <1>1 DEF Con!Tested, Known
<1>4. seen \in Live /\ seen.id = c
  BY <1>1, <1>2, <1>3
<1>5. /\ DOMAIN testing' = Connections
      /\ \A b \in Connections : testing'[b] # <<>> =>
           /\ testing'[b][1] \in Live /\ testing'[b][1].id = b
           /\ testing[b] # <<>>
  BY <1>2, <1>3
<1> QED BY <1>3, <1>4, <1>5, UpdateInv

LEMMA ListAddedInv ==
  ASSUME ConInv, NEW c \in Connections, Con!ListAdded(c)
  PROVE  ConInv'
<1>1. /\ adding[c] = "stored" /\ adding' = [adding EXCEPT ![c] = "no"]
      /\ Con!SetConnections(Append(list, Con!Fresh(c)), <<>>)
      /\ stored' = stored /\ Known' = Known /\ current' = current
      /\ savedCurrent' = savedCurrent /\ reading' = reading /\ testing' = testing
      /\ removing' = removing /\ raced' = raced
  BY DEF Con!ListAdded, Known
<1>2. PICK l : l = Append(list, Con!Fresh(c))
  OBVIOUS
<1>3. list \in Seq(Live) /\ Con!Fresh(c) \in Live /\ Con!Fresh(c).id = c
  BY Entries DEF ConInv, ListShapes
<1>4. PICK n \in Nat : n = Len(list)
  BY <1>3, LenProperties
<1>5. /\ l \in Seq(Live) /\ Len(l) = n + 1 /\ (\A i \in 1..n : l[i] = list[i])
      /\ l[n + 1] = Con!Fresh(c)
  BY <1>2, <1>3, <1>4, AppendProperties
<1>6. <<>> \in Seq(Entry) /\ Plain(<<>>, <<>>)
  BY EmptySeq, PlainWrites
<1>7. list' = l /\ requests' \in Seq(Request) /\ Follows(requests, requests', <<>>, l)
  BY <1>1, <1>2, <1>5, <1>6, SetFollows DEF ConInv
<1>8. DOMAIN adding = Connections /\ adding'[c] = "no" /\ \A b \in Connections \ {c} : adding'[b] = adding[b]
  BY <1>1 DEF ConInv, ListShapes
<1>9. ListShapes'
  BY <1>1, <1>5, <1>7 DEF ConInv, ListShapes
<1>10. \A b : Lists(list', b) <=> Lists(list, b) \/ b = c
  BY <1>3, <1>4, <1>5, <1>7 DEF Lists
<1>11. ActiveListed'
  BY <1>1, <1>10 DEF ConInv, ActiveListed
<1>12. ASSUME NEW b \in Connections \ raced' PROVE KeptInv(b)'
  <2>1. KeptInv(b)
    BY <1>1, <1>12 DEF ConInv
  <2>2. b = c => ~Lists(list, b)
    BY <1>1, <2>1 DEF KeptInv, ListedAt, Lists
  <2>3. Once(list', b)
    <3>1. \A i \in 1..Len(list') : list'[i].id = b =>
            IF b = c THEN i = n + 1 ELSE i \in 1..n /\ list[i].id = b
      BY <1>3, <1>4, <1>5, <1>7, <2>2 DEF Lists
    <3> QED BY <1>4, <2>1, <3>1 DEF KeptInv, Once
  <2>4. ASSUME NEW p \in 1..Len(list'), list'[p].id = b PROVE reading' = <<>> /\ ListedAt(b, p)'
    <3>1. /\ SavedBy(requests, b, p) /\ reading = <<>>
          /\ b \in Known' /\ adding'[b] = "no" /\ removing'[b] = "no"
      <4>1. CASE b = c
        <5>1. Unlisted(b) /\ adding[b] = "stored"
          BY <1>1, <2>1, <2>2, <4>1 DEF KeptInv
        <5>2. NoAsk(requests, b) /\ removing[b] = "no" /\ b \in Known /\ reading = <<>>
          BY <5>1 DEF Unlisted
        <5>3. SavedBy(requests, b, p)
          BY <5>2 DEF NoAsk, SavedBy
        <5> QED BY <1>1, <1>8, <4>1, <5>2, <5>3
      <4>2. CASE b # c
        <5>1. p \in 1..Len(list) /\ list[p].id = b
          BY <1>3, <1>4, <1>5, <1>7, <2>4, <4>2
        <5>2. reading = <<>> /\ ListedAt(b, p)
          BY <2>1, <5>1 DEF KeptInv
        <5> QED BY <1>1, <1>8, <1>12, <4>2, <5>2 DEF ListedAt
      <4> QED BY <4>1, <4>2
    <3>2. list' \in Seq(Live) /\ Follows(requests, requests', <<>>, list')
      BY <1>5, <1>7
    <3>3. ListedAt(b, p)'
      BY <1>6, <2>3, <2>4, <3>1, <3>2, SetListed
    <3> QED BY <1>1, <3>1, <3>3
  <2>5. ASSUME ~Lists(list', b) PROVE Unlisted(b)'
    <3>1. Unlisted(b) /\ b # c
      BY <1>10, <2>1, <2>5 DEF KeptInv
    <3>2. ~Lists(<<>>, b) /\ ~Lists(l, b)
      BY <1>7, <2>5, EmptySeq DEF Lists
    <3>3. /\ NoAsk(requests, b) => NoAsk(requests', b)
          /\ \A w : OnlyAsk(requests, b, w) => OnlyAsk(requests', b, w)
      BY <1>7, <3>2, SavedElse
    <3>4. IsRead(b)' <=> IsRead(b)
      BY <1>1 DEF IsRead
    <3>5. adding'[b] = adding[b]
      BY <1>8, <1>12, <3>1
    <3> QED BY <1>1, <3>1, <3>3, <3>4, <3>5 DEF Unlisted, Added, Removed
  <2> QED BY <1>1, <2>1, <2>3, <2>4, <2>5 DEF KeptInv
<1> QED BY <1>9, <1>11, <1>12 DEF ConInv

LEMMA RemoveListInv ==
  ASSUME ConInv, NEW k \in DOMAIN list, Con!RemoveConnection(k)
  PROVE  ConInv'
<1>1. PICK c : c = list[k].id
  OBVIOUS
<1>2. /\ Con!SetConnections(Con!Without(list, k), <<>>)
      /\ removing' = [removing EXCEPT ![c] = "listed"]
      /\ IF current = c THEN current' = "none" /\ savedCurrent' = "none"
         ELSE current' = current /\ savedCurrent' = savedCurrent
      /\ raced' = raced \cup {d \in Connections : Con!BeingSaved(d) \/ (d = c /\ testing[d] # <<>>)}
      /\ stored' = stored /\ Known' = Known /\ reading' = reading
      /\ adding' = adding /\ testing' = testing
  BY <1>1 DEF Con!RemoveConnection, Known
<1>3. list \in Seq(Live) /\ k \in 1..Len(list) /\ c \in Connections
  BY <1>1, ListEntry DEF ConInv, ListShapes
<1>4. PICK l : l = Con!Without(list, k)
  OBVIOUS
<1>5. PICK n \in Nat : n = Len(list)
  BY <1>3, LenProperties
<1>6. /\ l \in Seq(Live) /\ Len(l) = n - 1
      /\ \A i \in 1..n - 1 : l[i] = IF i < k THEN list[i] ELSE list[i + 1]
  BY <1>3, <1>4, <1>5, WithoutList
<1>7. <<>> \in Seq(Entry) /\ Plain(<<>>, <<>>)
  BY EmptySeq, PlainWrites
<1>8. list' = l /\ requests' \in Seq(Request) /\ Follows(requests, requests', <<>>, l)
  BY <1>2, <1>4, <1>6, <1>7, SetFollows DEF ConInv
<1>9. DOMAIN removing = Connections /\ removing'[c] = "listed"
      /\ \A b \in Connections \ {c} : removing'[b] = removing[b]
  BY <1>2, <1>3 DEF ConInv, ListShapes
<1>10. ListShapes'
  BY <1>2, <1>6, <1>8 DEF ConInv, ListShapes
<1>11. \A b : b # c /\ Lists(list, b) => Lists(list', b)
  <2>1. ASSUME NEW i \in 1..n, list[i].id # c PROVE \E j \in 1..n - 1 : l[j] = list[i]
    <3>1. CASE i < k
      BY <1>3, <1>5, <1>6, <3>1
    <3>2. CASE i > k
      <4>1. i - 1 \in 1..n - 1 /\ ~(i - 1 < k) /\ (i - 1) + 1 = i
        BY <1>3, <1>5, <3>2
      <4> QED BY <1>6, <4>1
    <3>3. i # k
      BY <1>1, <2>1
    <3> QED BY <1>3, <1>5, <3>1, <3>2, <3>3
  <2> QED BY <1>5, <1>6, <1>8, <2>1 DEF Lists
<1>12. ActiveListed'
  BY <1>2, <1>11 DEF ConInv, ActiveListed
<1>13. ASSUME NEW b \in Connections \ raced' PROVE KeptInv(b)'
  <2>1. KeptInv(b) /\ ~Con!BeingSaved(b) /\ (b = c => testing[b] = <<>>)
    BY <1>2, <1>13 DEF ConInv
  <2>2. NoAsk(requests, b)
    <3>1. SUFFICES ASSUME NEW i \in 1..Len(requests), NEW j \in 1..Len(requests[i].todo),
                          requests[i].todo[j].id = b
                   PROVE  FALSE
      BY DEF NoAsk
    <3>2. requests \in Seq(Request)
      BY DEF ConInv, ListShapes
    <3>3. i \in DOMAIN requests /\ requests[i].todo \in Seq(Entry)
      <4>1. i \in DOMAIN requests /\ requests[i] \in Request
        BY <3>2, LenProperties, ElementOfSeq
      <4> QED BY <4>1 DEF Request
    <3>4. b \in Con!Ids(requests[i].todo)
      BY <3>1, <3>3, IdsIn DEF Lists
    <3> QED BY <2>1, <3>3, <3>4 DEF Con!BeingSaved
  <2>3. ASSUME NEW i \in 1..n - 1, l[i].id = b
        PROVE \E i2 \in 1..n : list[i2].id = b /\ i2 # k /\ i2 = IF i < k THEN i ELSE i + 1
    BY <1>3, <1>5, <1>6, <2>3
  <2>4. Once(list', b) /\ (b = c => ~Lists(list', b))
    <3>1. Once(list, b)
      BY <2>1 DEF KeptInv
    <3>2. ASSUME b = c, NEW i \in 1..n - 1, l[i].id = b PROVE FALSE
      BY <1>1, <1>3, <1>5, <2>3, <3>1, <3>2 DEF Once
    <3>3. ASSUME NEW i \in 1..n - 1, NEW j \in 1..n - 1, l[i].id = b, l[j].id = b PROVE i = j
      <4>1. PICK i2 \in 1..n : list[i2].id = b /\ i2 # k /\ i2 = IF i < k THEN i ELSE i + 1
        BY <2>3, <3>3
      <4>2. PICK j2 \in 1..n : list[j2].id = b /\ j2 # k /\ j2 = IF j < k THEN j ELSE j + 1
        BY <2>3, <3>3
      <4>3. i2 = j2
        BY <1>5, <3>1, <4>1, <4>2 DEF Once
      <4> QED BY <1>3, <1>5, <4>1, <4>2, <4>3
    <3> QED BY <1>6, <1>8, <3>2, <3>3 DEF Once, Lists
  <2>5. ASSUME NEW p \in 1..Len(list'), list'[p].id = b PROVE reading' = <<>> /\ ListedAt(b, p)'
    <3>1. b # c
      BY <2>4, <2>5 DEF Lists
    <3>2. PICK i \in 1..Len(list) : list[i].id = b
      BY <1>5, <1>6, <1>8, <2>3, <2>5
    <3>3. reading = <<>> /\ ListedAt(b, i)
      BY <2>1, <3>2 DEF KeptInv
    <3>4. SavedBy(requests, b, p)
      BY <2>2 DEF NoAsk, SavedBy
    <3>5. b \in Known' /\ adding'[b] = "no" /\ removing'[b] = "no"
      BY <1>2, <1>9, <1>13, <3>1, <3>3 DEF ListedAt
    <3>6. list' \in Seq(Live) /\ Follows(requests, requests', <<>>, list')
      BY <1>6, <1>8
    <3>7. ListedAt(b, p)'
      BY <1>7, <2>4, <2>5, <3>4, <3>5, <3>6, SetListed
    <3> QED BY <1>2, <3>3, <3>7
  <2>6. ASSUME ~Lists(list', b) PROVE Unlisted(b)'
    <3>1. ~Lists(<<>>, b) /\ ~Lists(l, b)
      BY <1>8, <2>6, EmptySeq DEF Lists
    <3>2. NoAsk(requests', b)
      BY <1>8, <2>2, <3>1, SavedElse
    <3>3. CASE b = c
      <4>1. reading = <<>> /\ ListedAt(b, k)
        BY <1>1, <1>3, <2>1, <3>3 DEF KeptInv
      <4>2. adding'[b] = "no" /\ removing'[b] = "listed" /\ testing'[b] = <<>> /\ reading' = <<>>
        BY <1>2, <1>9, <2>1, <3>3, <4>1 DEF ListedAt
      <4> QED BY <3>2, <4>2 DEF Unlisted
    <3>4. CASE b # c
      <4>1. Unlisted(b)
        BY <1>11, <2>1, <2>6, <3>4 DEF KeptInv
      <4>2. removing'[b] = removing[b]
        BY <1>9, <1>13, <3>4
      <4>3. adding[b] # "asked" /\ removing[b] # "asked"
        <5>1. ASSUME NEW w, w.todo = <<Con!Fresh(b)>> \/ w.todo = <<Con!Deleted(b)>>,
                     OnlyAsk(requests, b, w) PROVE FALSE
          <6>1. PICK m \in 1..Len(requests) : requests[m] = w
            BY <5>1 DEF OnlyAsk
          <6>2. 1 \in 1..Len(w.todo) /\ w.todo[1].id = b
            BY <5>1, Entries
          <6> QED BY <2>2, <6>1, <6>2 DEF NoAsk
        <5>2. Added(b).todo = <<Con!Fresh(b)>> /\ Removed(b).todo = <<Con!Deleted(b)>>
          BY DEF Added, Removed
        <5> QED BY <4>1, <5>1, <5>2 DEF Unlisted
      <4>4. IsRead(b)' <=> IsRead(b)
        BY <1>2 DEF IsRead
      <4> QED BY <1>2, <3>2, <4>1, <4>2, <4>3, <4>4 DEF Unlisted
    <3> QED BY <3>3, <3>4
  <2> QED BY <1>2, <2>1, <2>4, <2>5, <2>6 DEF KeptInv
<1> QED BY <1>10, <1>12, <1>13 DEF ConInv

-----------------------------------------------------------------------------
(* The operations that leave the list alone. *)

\* What does not change the list, nor what is active, keeps both.
LEMMA SameList ==
  ASSUME ConInv, list' = list, reading' = reading, testing' = testing, current' = current,
         savedCurrent' = savedCurrent, \A c \in raced : c \in raced',
         requests' \in Seq(Request), stored' \in [Connections -> Entry],
         Known' \subseteq Connections,
         adding' \in [Connections -> {"no", "credentials", "asked", "stored"}],
         removing' \in [Connections -> {"no", "listed", "asked", "stored"}],
         \A c \in Connections \ raced' : KeptInv(c) =>
           /\ \A p \in 1..Len(list) : list[p].id = c /\ ListedAt(c, p) => ListedAt(c, p)'
           /\ ~Lists(list, c) /\ Unlisted(c) => Unlisted(c)'
  PROVE  ConInv'
<1>1. ListShapes'
  BY DEF ConInv, ListShapes
<1>2. ActiveListed'
  BY DEF ConInv, ActiveListed
<1>3. ASSUME NEW c \in Connections \ raced' PROVE KeptInv(c)'
  <2>1. KeptInv(c)
    BY <1>3 DEF ConInv
  <2>2. Once(list', c) /\ (reading' # <<>> => Once(reading'[1], c))
    BY <2>1 DEF KeptInv
  <2>3. ASSUME NEW p \in 1..Len(list'), list'[p].id = c PROVE reading' = <<>> /\ ListedAt(c, p)'
    BY <1>3, <2>1, <2>3 DEF KeptInv
  <2>4. ASSUME ~Lists(list', c) PROVE Unlisted(c)'
    BY <1>3, <2>1, <2>4 DEF KeptInv
  <2> QED BY <2>2, <2>3, <2>4 DEF KeptInv
<1> QED BY <1>1, <1>2, <1>3 DEF ConInv

\* What is asked of the other connections stays as it is.
OthersAsked(q, q2, c) ==
  \A b : b # c => /\ NoAsk(q, b) => NoAsk(q2, b)
                  /\ \A v : OnlyAsk(q, b, v) => OnlyAsk(q2, b, v)
                  /\ \A r : LastAsk(q, b, r) => LastAsk(q2, b, r)
                  /\ \A p : SavedBy(q, b, p) => SavedBy(q2, b, p)

\* Asking for one more write, of c alone.
LEMMA AskOne ==
  ASSUME NEW q \in Seq(Request), NEW c, NEW w \in Request, Len(w.todo) = 1, w.todo[1].id = c,
         NEW q2 \in Seq(Request), Len(q2) = Len(q) + 1, \A i \in 1..Len(q) : q2[i] = q[i],
         q2[Len(q) + 1] = w
  PROVE  (NoAsk(q, c) => OnlyAsk(q2, c, w)) /\ OthersAsked(q, q2, c)
<1>1. PICK n \in Nat : n = Len(q)
  BY LenProperties
<1>3. Len(q2) = n + 1
  BY <1>1
<1>4. (\A i \in 1..n : q2[i] = q[i]) /\ q2[n + 1] = w /\ n + 1 \in 1..n + 1
      /\ \A i \in 1..n + 1 : i \in 1..n \/ i = n + 1
  BY <1>1
<1>5. ASSUME NEW i \in 1..n + 1, NEW j \in 1..Len(q2[i].todo), NEW b, b # c, q2[i].todo[j].id = b
      PROVE  i \in 1..n /\ q2[i] = q[i]
  <2>1. CASE i = n + 1
    <3>0. q2[i] = w
      BY <1>4, <2>1
    <3>1. j = 1
      BY <1>5, <3>0
    <3> QED BY <1>4, <1>5, <2>1, <3>1
  <2> QED BY <1>4, <1>5, <2>1
<1>6. ASSUME NoAsk(q, c) PROVE OnlyAsk(q2, c, w)
  <2>1. \A i \in 1..Len(q2) : \A j \in 1..Len(q2[i].todo) : i # n + 1 => q2[i].todo[j].id # c
    BY <1>1, <1>3, <1>4, <1>6 DEF NoAsk
  <2> QED BY <1>3, <1>4, <2>1 DEF OnlyAsk
<1>7. ASSUME NEW b, b # c, NoAsk(q, b) PROVE NoAsk(q2, b)
  BY <1>1, <1>3, <1>5, <1>7 DEF NoAsk
<1>8. ASSUME NEW b, b # c, NEW v, OnlyAsk(q, b, v) PROVE OnlyAsk(q2, b, v)
  <2>1. PICK m \in 1..n :
          /\ q[m] = v
          /\ \A i \in 1..n : \A j \in 1..Len(q[i].todo) : i # m => q[i].todo[j].id # b
    BY <1>1, <1>8 DEF OnlyAsk
  <2>2. m \in 1..Len(q2) /\ q2[m] = v
    BY <1>3, <1>4, <2>1
  <2>3. ASSUME NEW i \in 1..Len(q2), NEW j \in 1..Len(q2[i].todo), i # m, q2[i].todo[j].id = b
        PROVE  FALSE
    <3>1. i \in 1..n /\ q2[i] = q[i]
      BY <1>3, <1>5, <1>8, <2>3
    <3> QED BY <2>1, <2>3, <3>1
  <2> QED BY <2>2, <2>3 DEF OnlyAsk
<1>9. ASSUME NEW b, b # c, NEW r, LastAsk(q, b, r) PROVE LastAsk(q2, b, r)
  <2>1. PICK i \in 1..n : \E j \in 1..Len(q[i].todo) :
           /\ q[i].todo[j] = r
           /\ \A i2 \in 1..n : \A j2 \in 1..Len(q[i2].todo) :
                q[i2].todo[j2].id = b => j2 < j \/ (j2 = j /\ i2 <= i)
    BY <1>1, <1>9 DEF LastAsk
  <2>2. PICK j \in 1..Len(q[i].todo) :
           /\ q[i].todo[j] = r
           /\ \A i2 \in 1..n : \A j2 \in 1..Len(q[i2].todo) :
                q[i2].todo[j2].id = b => j2 < j \/ (j2 = j /\ i2 <= i)
    BY <2>1
  <2>3. i \in 1..Len(q2) /\ q2[i] = q[i]
    BY <1>3, <1>4, <2>1
  <2>4. ASSUME NEW i2 \in 1..Len(q2), NEW j2 \in 1..Len(q2[i2].todo), q2[i2].todo[j2].id = b
        PROVE  j2 < j \/ (j2 = j /\ i2 <= i)
    <3>1. i2 \in 1..n /\ q2[i2] = q[i2]
      BY <1>3, <1>5, <1>9, <2>4
    <3> QED BY <2>2, <2>4, <3>1
  <2>5. j \in 1..Len(q2[i].todo) /\ q2[i].todo[j] = r
    BY <2>2, <2>3
  <2> QED BY <2>3, <2>4, <2>5 DEF LastAsk
<1>10. ASSUME NEW b, b # c, NEW p, SavedBy(q, b, p) PROVE SavedBy(q2, b, p)
  BY <1>1, <1>3, <1>5, <1>10 DEF SavedBy
<1> QED BY <1>6, <1>7, <1>8, <1>9, <1>10 DEF OthersAsked

LEMMA OneMore ==
  ASSUME NEW q \in Seq(Request), NEW w \in Request, NEW q2, q2 = q \o <<w>>
  PROVE  /\ q2 \in Seq(Request) /\ Len(q2) = Len(q) + 1
         /\ \A i \in 1..Len(q) : q2[i] = q[i]
         /\ q2[Len(q) + 1] = w
<1>1. PICK n \in Nat : n = Len(q)
  BY LenProperties
<1>2. <<w>> \in Seq(Request) /\ Len(<<w>>) = 1 /\ <<w>>[1] = w
  BY Singleton
<1>3. /\ q2 \in Seq(Request) /\ Len(q2) = n + 1
      /\ \A i \in 1..n + 1 : q2[i] = IF i <= n THEN q[i] ELSE <<w>>[i - n]
  BY <1>1, <1>2, ConcatProperties
<1> QED BY <1>1, <1>2, <1>3

LEMMA AddInv ==
  ASSUME ConInv, NEW c \in Connections, Con!AddConnection(c)
  PROVE  ConInv'
<1>1. /\ adding[c] = "no" /\ stored[c] = Con!Deleted(c) /\ c \notin Known /\ c \notin raced
      /\ removing[c] = "no" /\ Known' = Known \cup {c}
      /\ adding' = [adding EXCEPT ![c] = "credentials"]
      /\ raced' = (IF reading = <<>> THEN raced ELSE raced \cup {c})
      /\ list' = list /\ stored' = stored /\ current' = current /\ savedCurrent' = savedCurrent
      /\ requests' = requests /\ reading' = reading /\ testing' = testing /\ removing' = removing
  BY DEF Con!AddConnection, Known
<1>2. /\ adding' \in [Connections -> {"no", "credentials", "asked", "stored"}]
      /\ removing' \in [Connections -> {"no", "listed", "asked", "stored"}]
      /\ requests' \in Seq(Request) /\ stored' \in [Connections -> Entry]
      /\ Known' \subseteq Connections
      /\ adding'[c] = "credentials" /\ \A b \in Connections \ {c} : adding'[b] = adding[b]
  BY <1>1 DEF ConInv, ListShapes
<1>3. ASSUME NEW b \in Connections \ raced', KeptInv(b)
      PROVE  /\ \A p \in 1..Len(list) : list[p].id = b /\ ListedAt(b, p) => ListedAt(b, p)'
             /\ ~Lists(list, b) /\ Unlisted(b) => Unlisted(b)'
  <2>1. CASE b = c
    <3>1. reading = <<>>
      BY <1>1, <1>3, <2>1
    <3>2. ASSUME Unlisted(b) PROVE Unlisted(b)'
      <4>1. testing[b] = <<>> /\ NoAsk(requests, b)
        BY <1>1, <2>1, <3>2 DEF Unlisted
      <4> QED BY <1>1, <1>2, <2>1, <3>1, <4>1 DEF Unlisted
    <3> QED BY <1>1, <2>1, <3>2 DEF ListedAt
  <2>2. CASE b # c
    <3>1. adding'[b] = adding[b] /\ (b \in Known' <=> b \in Known)
      BY <1>1, <1>2, <1>3, <2>2
    <3>2. IsRead(b)' <=> IsRead(b)
      BY <1>1 DEF IsRead
    <3>3. Unlisted(b) => Unlisted(b)'
      BY <1>1, <3>1, <3>2 DEF Unlisted, Added, Removed
    <3> QED BY <1>1, <3>1, <3>3 DEF ListedAt
  <2> QED BY <2>1, <2>2
<1>4. \A b \in raced : b \in raced'
  BY <1>1
<1> QED BY <1>1, <1>2, <1>3, <1>4, SameList

LEMMA SaveAddedInv ==
  ASSUME ConInv, NEW c \in Connections, Con!SaveAdded(c)
  PROVE  ConInv'
<1>1. /\ adding[c] = "credentials" /\ adding' = [adding EXCEPT ![c] = "asked"]
      /\ requests' = requests \o Con!Writes(<<Con!Fresh(c)>>, TRUE)
      /\ list' = list /\ stored' = stored /\ current' = current /\ savedCurrent' = savedCurrent
      /\ Known' = Known /\ reading' = reading /\ testing' = testing
      /\ removing' = removing /\ raced' = raced
  BY DEF Con!SaveAdded, Known
<1>2. PICK w : w = Added(c)
  OBVIOUS
<1>3. w \in Request /\ Len(w.todo) = 1 /\ w.todo[1].id = c
  <2>1. /\ <<Con!Fresh(c)>> \in Seq(Entry) /\ <<Con!Fresh(c)>> # <<>>
        /\ Len(<<Con!Fresh(c)>>) = 1 /\ <<Con!Fresh(c)>>[1].id = c
    BY Entries, Singleton
  <2>2. w.todo = <<Con!Fresh(c)>>
    BY <1>2 DEF Added
  <2>3. w \in Request
    BY <1>2, <2>1 DEF Added, Request
  <2> QED BY <2>1, <2>2, <2>3
<1>4. requests' = requests \o <<w>> /\ requests \in Seq(Request)
  BY <1>1, <1>2 DEF Con!Writes, Added, ConInv, ListShapes
<1>5. /\ requests' \in Seq(Request)
      /\ NoAsk(requests, c) => OnlyAsk(requests', c, w)
      /\ OthersAsked(requests, requests', c)
  <2>1. PICK q \in Seq(Request) : q = requests
    BY <1>4
  <2>2. PICK q2 : q2 = q \o <<w>>
    OBVIOUS
  <2>3. /\ q2 \in Seq(Request) /\ Len(q2) = Len(q) + 1
        /\ \A i \in 1..Len(q) : q2[i] = q[i]
        /\ q2[Len(q) + 1] = w
    BY <1>3, <2>1, <2>2, OneMore
  <2>4. (NoAsk(q, c) => OnlyAsk(q2, c, w)) /\ OthersAsked(q, q2, c)
    BY <1>3, <2>1, <2>3, AskOne
  <2> QED BY <1>4, <2>1, <2>2, <2>3, <2>4
<1>6. /\ adding' \in [Connections -> {"no", "credentials", "asked", "stored"}]
      /\ removing' \in [Connections -> {"no", "listed", "asked", "stored"}]
      /\ stored' \in [Connections -> Entry] /\ Known' \subseteq Connections
      /\ adding'[c] = "asked" /\ \A b \in Connections \ {c} : adding'[b] = adding[b]
  BY <1>1 DEF ConInv, ListShapes
<1>7. ASSUME NEW b \in Connections \ raced', KeptInv(b)
      PROVE  /\ \A p \in 1..Len(list) : list[p].id = b /\ ListedAt(b, p) => ListedAt(b, p)'
             /\ ~Lists(list, b) /\ Unlisted(b) => Unlisted(b)'
  <2>1. CASE b = c
    <3>1. ASSUME Unlisted(b) PROVE Unlisted(b)'
      <4>1. /\ testing[b] = <<>> /\ NoAsk(requests, b) /\ removing[b] = "no"
            /\ stored[b] = Con!Deleted(b) /\ b \in Known /\ reading = <<>>
        BY <1>1, <2>1, <3>1 DEF Unlisted
      <4>2. OnlyAsk(requests', b, Added(b))
        BY <1>2, <1>5, <2>1, <4>1
      <4> QED BY <1>1, <1>6, <2>1, <4>1, <4>2 DEF Unlisted, Added
    <3> QED BY <1>1, <2>1, <3>1 DEF ListedAt
  <2>2. CASE b # c
    <3>1. adding'[b] = adding[b]
      BY <1>6, <1>7, <2>2
    <3>2. IsRead(b)' <=> IsRead(b)
      BY <1>1 DEF IsRead
    <3>3. Unlisted(b) => Unlisted(b)'
      BY <1>1, <1>5, <2>2, <3>1, <3>2 DEF Unlisted, Added, Removed, OthersAsked
    <3> QED BY <1>1, <1>5, <2>2, <3>1, <3>3 DEF ListedAt, OthersAsked
  <2> QED BY <2>1, <2>2
<1> QED BY <1>1, <1>5, <1>6, <1>7, SameList

LEMMA DeleteStoredInv ==
  ASSUME ConInv, NEW c \in Connections, Con!DeleteStored(c)
  PROVE  ConInv'
<1>1. /\ removing[c] = "listed" /\ removing' = [removing EXCEPT ![c] = "asked"]
      /\ requests' = requests \o Con!Write(Con!Deleted(c))
      /\ list' = list /\ stored' = stored /\ current' = current /\ savedCurrent' = savedCurrent
      /\ Known' = Known /\ reading' = reading /\ testing' = testing
      /\ adding' = adding /\ raced' = raced
  BY DEF Con!DeleteStored, Known
<1>2. PICK w : w = Removed(c)
  OBVIOUS
<1>3. w \in Request /\ Len(w.todo) = 1 /\ w.todo[1].id = c
  <2>1. /\ <<Con!Deleted(c)>> \in Seq(Entry) /\ <<Con!Deleted(c)>> # <<>>
        /\ Len(<<Con!Deleted(c)>>) = 1 /\ <<Con!Deleted(c)>>[1].id = c
    BY Entries, Singleton
  <2>2. w.todo = <<Con!Deleted(c)>>
    BY <1>2 DEF Removed
  <2>3. w \in Request
    BY <1>2, <2>1 DEF Removed, Request
  <2> QED BY <2>1, <2>2, <2>3
<1>4. requests' = requests \o <<w>> /\ requests \in Seq(Request)
  BY <1>1, <1>2 DEF Con!Write, Con!Writes, Removed, ConInv, ListShapes
<1>5. /\ requests' \in Seq(Request)
      /\ NoAsk(requests, c) => OnlyAsk(requests', c, w)
      /\ OthersAsked(requests, requests', c)
  <2>1. PICK q \in Seq(Request) : q = requests
    BY <1>4
  <2>2. PICK q2 : q2 = q \o <<w>>
    OBVIOUS
  <2>3. /\ q2 \in Seq(Request) /\ Len(q2) = Len(q) + 1
        /\ \A i \in 1..Len(q) : q2[i] = q[i]
        /\ q2[Len(q) + 1] = w
    BY <1>3, <2>1, <2>2, OneMore
  <2>4. (NoAsk(q, c) => OnlyAsk(q2, c, w)) /\ OthersAsked(q, q2, c)
    BY <1>3, <2>1, <2>3, AskOne
  <2> QED BY <1>4, <2>1, <2>2, <2>3, <2>4
<1>6. /\ adding' \in [Connections -> {"no", "credentials", "asked", "stored"}]
      /\ removing' \in [Connections -> {"no", "listed", "asked", "stored"}]
      /\ stored' \in [Connections -> Entry] /\ Known' \subseteq Connections
      /\ removing'[c] = "asked" /\ \A b \in Connections \ {c} : removing'[b] = removing[b]
  BY <1>1 DEF ConInv, ListShapes
<1>7. ASSUME NEW b \in Connections \ raced', KeptInv(b)
      PROVE  /\ \A p \in 1..Len(list) : list[p].id = b /\ ListedAt(b, p) => ListedAt(b, p)'
             /\ ~Lists(list, b) /\ Unlisted(b) => Unlisted(b)'
  <2>1. CASE b = c
    <3>1. ASSUME Unlisted(b) PROVE Unlisted(b)'
      <4>1. /\ testing[b] = <<>> /\ NoAsk(requests, b) /\ adding[b] = "no" /\ reading = <<>>
        BY <1>1, <2>1, <3>1 DEF Unlisted
      <4>2. OnlyAsk(requests', b, Removed(b))
        BY <1>2, <1>5, <2>1, <4>1
      <4> QED BY <1>1, <1>6, <2>1, <4>1, <4>2 DEF Unlisted, Removed
    <3> QED BY <1>1, <2>1, <3>1 DEF ListedAt
  <2>2. CASE b # c
    <3>1. removing'[b] = removing[b]
      BY <1>6, <1>7, <2>2
    <3>2. IsRead(b)' <=> IsRead(b)
      BY <1>1 DEF IsRead
    <3>3. Unlisted(b) => Unlisted(b)'
      BY <1>1, <1>5, <2>2, <3>1, <3>2 DEF Unlisted, Added, Removed, OthersAsked
    <3> QED BY <1>1, <1>5, <2>2, <3>1, <3>3 DEF ListedAt, OthersAsked
  <2> QED BY <2>1, <2>2
<1> QED BY <1>1, <1>5, <1>6, <1>7, SameList

LEMMA DeleteCredentialsInv ==
  ASSUME ConInv, NEW c \in Connections, Con!DeleteCredentials(c)
  PROVE  ConInv'
<1>1. /\ removing[c] = "stored" /\ removing' = [removing EXCEPT ![c] = "no"]
      /\ Known' = Known \ {c}
      /\ list' = list /\ stored' = stored /\ current' = current /\ savedCurrent' = savedCurrent
      /\ requests' = requests /\ reading' = reading /\ testing' = testing
      /\ adding' = adding /\ raced' = raced
  BY DEF Con!DeleteCredentials, Known
<1>2. /\ adding' \in [Connections -> {"no", "credentials", "asked", "stored"}]
      /\ removing' \in [Connections -> {"no", "listed", "asked", "stored"}]
      /\ requests' \in Seq(Request) /\ stored' \in [Connections -> Entry]
      /\ Known' \subseteq Connections
      /\ removing'[c] = "no" /\ \A b \in Connections \ {c} : removing'[b] = removing[b]
  BY <1>1 DEF ConInv, ListShapes
<1>3. ASSUME NEW b \in Connections \ raced', KeptInv(b)
      PROVE  /\ \A p \in 1..Len(list) : list[p].id = b /\ ListedAt(b, p) => ListedAt(b, p)'
             /\ ~Lists(list, b) /\ Unlisted(b) => Unlisted(b)'
  <2>1. CASE b = c
    <3>1. ASSUME Unlisted(b) PROVE Unlisted(b)'
      <4>1. /\ testing[b] = <<>> /\ NoAsk(requests, b) /\ adding[b] = "no" /\ reading = <<>>
            /\ stored[b] = Con!Deleted(b)
        BY <1>1, <2>1, <3>1 DEF Unlisted
      <4>2. ~IsRead(b)'
        BY <1>1, <4>1 DEF IsRead
      <4> QED BY <1>1, <1>2, <2>1, <4>1, <4>2 DEF Unlisted
    <3> QED BY <1>1, <2>1, <3>1 DEF ListedAt
  <2>2. CASE b # c
    <3>1. removing'[b] = removing[b] /\ (b \in Known' <=> b \in Known)
      BY <1>1, <1>2, <1>3, <2>2
    <3>2. IsRead(b)' <=> IsRead(b)
      BY <1>1 DEF IsRead
    <3>3. Unlisted(b) => Unlisted(b)'
      BY <1>1, <3>1, <3>2 DEF Unlisted, Added, Removed
    <3> QED BY <1>1, <3>1, <3>3 DEF ListedAt
  <2> QED BY <2>1, <2>2
<1> QED BY <1>1, <1>2, <1>3, SameList

LEMMA DoWriteInv ==
  ASSUME ConInv, Con!DoWrite
  PROVE  ConInv'
<1>1. PICK w : w = requests[1]
  OBVIOUS
<1>2. PICK r : r = w.todo[1]
  OBVIOUS
<1>3. PICK q2 : q2 = Tail(requests) \o Con!Loop(Tail(Head(requests).todo))
  OBVIOUS
<1>4. requests # <<>> /\ requests \in Seq(Request)
  BY DEF Con!DoWrite, Known, ConInv, ListShapes
<1>5. /\ q2 \in Seq(Request) /\ Shifts(requests, q2) /\ Head(requests) = w
      /\ Head(w.todo) = r /\ r \in Entry
  BY <1>1, <1>2, <1>3, <1>4, DoneAsks
<1>6. PICK a : a = IF w.adds THEN "stored" ELSE adding[r.id]
  OBVIOUS
<1>7. /\ stored' = [stored EXCEPT ![r.id] = r] /\ requests' = q2
      /\ adding' = [adding EXCEPT ![r.id] = a]
      /\ removing' = [removing EXCEPT ![r.id] =
                        IF r = Con!Deleted(r.id) THEN "stored" ELSE removing[r.id]]
      /\ list' = list /\ Known' = Known /\ current' = current
      /\ savedCurrent' = savedCurrent /\ reading' = reading /\ testing' = testing
      /\ raced' = raced
  BY <1>3, <1>5, <1>6 DEF Con!DoWrite, Known
<1>8. r.id \in Connections
  BY <1>5 DEF Entry, Live, Con!Deleted
<1>9. /\ adding' \in [Connections -> {"no", "credentials", "asked", "stored"}]
      /\ removing' \in [Connections -> {"no", "listed", "asked", "stored"}]
      /\ stored' \in [Connections -> Entry] /\ Known' \subseteq Connections
  BY <1>5, <1>6, <1>7, <1>8 DEF ConInv, ListShapes
<1>10. /\ stored'[r.id] = r /\ adding'[r.id] = a
       /\ removing'[r.id] = IF r = Con!Deleted(r.id) THEN "stored" ELSE removing[r.id]
       /\ \A b \in Connections \ {r.id} :
            stored'[b] = stored[b] /\ adding'[b] = adding[b] /\ removing'[b] = removing[b]
  BY <1>7, <1>8 DEF ConInv, ListShapes
<1>11. 1 \in 1..Len(requests) /\ 1 \in 1..Len(w.todo)
  BY <1>1, <1>5 DEF Shifts
<1>12. ASSUME NEW b \in Connections \ raced', KeptInv(b),
              NEW p \in 1..Len(list), list[p].id = b, ListedAt(b, p)
       PROVE  ListedAt(b, p)'
  <2>1. p \in Nat /\ SavedBy(requests, b, p)
    BY <1>12 DEF ListedAt
  <2>2. SavedBy(q2, b, p)
    BY <1>5, <2>1, DoneListed
  <2>3. LastAsk(requests, b, list[p]) => LastAsk(q2, b, list[p]) \/ (NoAsk(q2, b) /\ r = list[p])
    BY <1>1, <1>2, <1>5, <1>12, DoneListed
  <2>4. NoAsk(requests, b) => NoAsk(q2, b) /\ r.id # b
    <3>1. NoAsk(requests, b) => NoAsk(q2, b)
      BY <1>5, DoneElse
    <3>2. NoAsk(requests, b) => r.id # b
      BY <1>1, <1>2, <1>11 DEF NoAsk
    <3> QED BY <3>1, <3>2
  <2>5. r.id = b => r.status # "none" /\ ~w.adds
    BY <1>1, <1>2, <1>11, <2>1 DEF SavedBy
  <2>6. adding'[b] = "no" /\ removing'[b] = "no"
    <3>1. CASE r.id = b
      <4>1. r # Con!Deleted(b) /\ a = adding[b]
        BY <1>6, <2>5, <3>1, Entries, <1>12
      <4> QED BY <1>10, <1>12, <3>1, <4>1 DEF ListedAt
    <3>2. CASE r.id # b
      BY <1>10, <1>12, <3>2 DEF ListedAt
    <3> QED BY <3>1, <3>2
  <2>7. (NoAsk(q2, b) /\ stored'[b] = list[p]) \/ LastAsk(q2, b, list[p])
    <3>1. CASE NoAsk(requests, b) /\ stored[b] = list[p]
      BY <1>10, <1>12, <2>4, <3>1
    <3>2. CASE LastAsk(requests, b, list[p])
      BY <1>10, <1>12, <2>3, <3>2
    <3> QED BY <1>12, <3>1, <3>2 DEF ListedAt
  <2>8. b \in Known
    BY <1>12 DEF ListedAt
  <2> QED BY <1>7, <2>2, <2>6, <2>7, <2>8 DEF ListedAt
<1>13. ASSUME NEW b \in Connections \ raced', ~Lists(list, b), Unlisted(b)
       PROVE  Unlisted(b)'
  <2>1. IsRead(b)' <=> IsRead(b)
    BY <1>7 DEF IsRead
  <2>2. NoAsk(requests, b) => NoAsk(q2, b) /\ r.id # b
    <3>1. NoAsk(requests, b) => NoAsk(q2, b)
      BY <1>5, DoneElse
    <3>2. NoAsk(requests, b) => r.id # b
      BY <1>1, <1>2, <1>11 DEF NoAsk
    <3> QED BY <3>1, <3>2
  <2>3. /\ Added(b).todo = <<Con!Fresh(b)>> /\ Removed(b).todo = <<Con!Deleted(b)>>
        /\ Added(b).adds /\ ~Removed(b).adds
        /\ Len(Added(b).todo) = 1 /\ Len(Removed(b).todo) = 1
        /\ Added(b).todo[1] = Con!Fresh(b) /\ Removed(b).todo[1] = Con!Deleted(b)
    BY DEF Added, Removed
  <2>4. CASE adding[b] = "asked"
    <3>1. /\ OnlyAsk(requests, b, Added(b)) /\ removing[b] = "no" /\ testing[b] = <<>>
          /\ stored[b] = Con!Deleted(b) /\ b \in Known /\ reading = <<>>
      BY <1>13, <2>4 DEF Unlisted
    <3>2. IF w = Added(b) THEN NoAsk(q2, b) ELSE OnlyAsk(q2, b, Added(b))
      <4>1. PICK v : v = Added(b)
        OBVIOUS
      <4>2. Len(v.todo) = 1 /\ v.todo[1].id = b
        BY <1>13, <2>3, <4>1, Entries
      <4>3. OnlyAsk(requests, b, v)
        BY <3>1, <4>1
      <4>4. IF requests[1] = v THEN NoAsk(q2, b) ELSE OnlyAsk(q2, b, v)
        BY <1>5, <4>2, <4>3, DoneElse
      <4> QED BY <1>1, <4>1, <4>4
    <3>3. r.id = b => w = Added(b)
      BY <1>1, <1>2, <1>11, <3>1 DEF OnlyAsk
    <3>4. CASE w = Added(b) /\ NoAsk(q2, b)
      <4>1. r = Con!Fresh(b) /\ r.id = b /\ a = "stored" /\ r # Con!Deleted(b)
        BY <1>2, <1>6, <2>3, <3>4, Entries
      <4> QED BY <1>7, <1>10, <3>1, <3>4, <4>1 DEF Unlisted
    <3>5. CASE w # Added(b)
      BY <1>7, <1>10, <1>13, <2>4, <3>1, <3>2, <3>3, <3>5 DEF Unlisted, Added
    <3> QED BY <3>2, <3>4, <3>5
  <2>5. CASE removing[b] = "asked"
    <3>1. /\ OnlyAsk(requests, b, Removed(b)) /\ adding[b] = "no" /\ testing[b] = <<>>
          /\ reading = <<>>
      BY <1>13, <2>5 DEF Unlisted
    <3>2. IF w = Removed(b) THEN NoAsk(q2, b) ELSE OnlyAsk(q2, b, Removed(b))
      <4>1. PICK v : v = Removed(b)
        OBVIOUS
      <4>2. Len(v.todo) = 1 /\ v.todo[1].id = b
        BY <1>13, <2>3, <4>1, Entries
      <4>3. OnlyAsk(requests, b, v)
        BY <3>1, <4>1
      <4>4. IF requests[1] = v THEN NoAsk(q2, b) ELSE OnlyAsk(q2, b, v)
        BY <1>5, <4>2, <4>3, DoneElse
      <4> QED BY <1>1, <4>1, <4>4
    <3>3. r.id = b => w = Removed(b)
      BY <1>1, <1>2, <1>11, <3>1 DEF OnlyAsk
    <3>4. CASE w = Removed(b) /\ NoAsk(q2, b)
      <4>1. r = Con!Deleted(b) /\ r.id = b /\ a = adding[b]
        BY <1>2, <1>6, <2>3, <3>4, Entries
      <4> QED BY <1>7, <1>10, <3>1, <3>4, <4>1 DEF Unlisted
    <3>5. CASE w # Removed(b)
      BY <1>7, <1>10, <1>13, <2>5, <3>1, <3>2, <3>3, <3>5 DEF Unlisted, Removed
    <3> QED BY <3>2, <3>4, <3>5
  <2>6. CASE adding[b] # "asked" /\ removing[b] # "asked"
    <3>1. NoAsk(q2, b) /\ r.id # b
      BY <1>13, <2>2, <2>6 DEF Unlisted
    <3> QED BY <1>7, <1>10, <1>13, <2>1, <2>6, <3>1 DEF Unlisted
  <2> QED BY <2>4, <2>5, <2>6
<1> QED BY <1>5, <1>7, <1>9, <1>12, <1>13, SameList

LEMMA ConSame ==
  ASSUME ConInv, UNCHANGED <<list, stored, Known, requests, reading, adding, testing,
                             removing, raced>>,
         (current' = current /\ savedCurrent' = savedCurrent) \/ current' = "none"
  PROVE  ConInv'
<1>1. /\ list' = list /\ stored' = stored /\ Known' = Known /\ requests' = requests
      /\ reading' = reading /\ adding' = adding /\ testing' = testing /\ removing' = removing
      /\ raced' = raced
  OBVIOUS
<1>2. ListShapes' /\ ActiveListed'
  BY <1>1 DEF ConInv, ListShapes, ActiveListed
<1>3. ASSUME NEW c \in Connections \ raced' PROVE KeptInv(c)'
  BY <1>1, <1>3 DEF ConInv, KeptInv, ListedAt, Unlisted, IsRead, Added, Removed
<1> QED BY <1>2, <1>3 DEF ConInv

LEMMA ConStart == Con!ConInit => ConInv
<1> SUFFICES ASSUME Con!ConInit PROVE ConInv
  OBVIOUS
<1>1. PICK e \in Orders : reading = << [i \in DOMAIN e |-> Con!Fresh(e[i])] >>
  BY DEF Con!ConInit
<1>2. PICK s : s = [i \in DOMAIN e |-> Con!Fresh(e[i])]
  OBVIOUS
<1>3. e \in Seq(Connections) /\ \A i, j \in DOMAIN e : e[i] = e[j] => i = j
  BY ConnectionsAssumption
<1>4. PICK n \in Nat : n = Len(e)
  BY <1>3, LenProperties
<1>5. DOMAIN e = 1..n /\ \A i \in 1..n : e[i] \in Connections
  BY <1>3, <1>4, LenProperties, ElementOfSeq
<1>6. DOMAIN s = 1..n /\ \A i \in 1..n : s[i] \in Live /\ s[i] = Con!Fresh(e[i]) /\ s[i].id = e[i]
  BY <1>2, <1>5, Entries
<1>7. s \in [1..n -> Live]
  BY <1>2, <1>5, <1>6
<1>8. s \in Seq(Live)
  BY <1>7, SeqDef
<1>9. Len(s) = n
  BY <1>6, <1>8, LenProperties
<1>10. reading # <<>> /\ reading[1] = s
  BY <1>1, <1>2
<1>11. /\ list = <<>> /\ requests = <<>> /\ Known = Con!Ids(s) /\ current = "none"
       /\ stored = [c \in Connections |-> IF c \in Con!Ids(s) THEN Con!Fresh(c) ELSE Con!Deleted(c)]
       /\ adding = [c \in Connections |-> "no"] /\ removing = [c \in Connections |-> "no"]
       /\ testing = [c \in Connections |-> <<>>]
  BY <1>10 DEF Con!ConInit, Con!Quiet, Con!NoTest, Known
<1>12. \A c : c \in Con!Ids(s) <=> Lists(s, c)
  BY <1>8, IdsIn
<1>13. Len(list) = 0 /\ Len(requests) = 0
  BY <1>11
<1>14. ListShapes
  <2>1. list \in Seq(Live) /\ requests \in Seq(Request)
    BY <1>11, EmptySeq
  <2>2. stored \in [Connections -> Entry]
    BY <1>11, Entries
  <2>3. Known \subseteq Connections
    BY <1>5, <1>6, <1>9, <1>11, <1>12 DEF Lists
  <2> QED BY <1>8, <1>10, <1>11, <2>1, <2>2, <2>3 DEF ListShapes
<1>15. ASSUME NEW c \in Connections PROVE KeptInv(c)
  <2>1. Once(list, c) /\ ~Lists(list, c)
    BY <1>13 DEF Once, Lists
  <2>2. Once(s, c)
    BY <1>3, <1>5, <1>6, <1>9 DEF Once
  <2>3. NoAsk(requests, c)
    BY <1>13 DEF NoAsk
  <2>4. IsRead(c) <=> Lists(s, c)
    BY <1>10 DEF IsRead
  <2>5. Unlisted(c)
    BY <1>11, <1>12, <2>3, <2>4 DEF Unlisted
  <2> QED BY <1>10, <1>13, <2>1, <2>2, <2>5 DEF KeptInv
<1> QED BY <1>11, <1>14, <1>15 DEF ConInv, ActiveListed

LEMMA ReloadListInv ==
  ASSUME ConInv, Filed, Con!ReloadPage
  PROVE  ConInv'
<1>1. PICK e \in Orders :
        /\ reading' = << [i \in DOMAIN e |-> stored[e[i]]] >>
        /\ \A c \in Connections : (\E i \in DOMAIN e : e[i] = c) <=> stored[c] # Con!Deleted(c)
  BY DEF Con!ReloadPage
<1>2. PICK s : s = [i \in DOMAIN e |-> stored[e[i]]]
  OBVIOUS
<1>3. e \in Seq(Connections) /\ \A i, j \in DOMAIN e : e[i] = e[j] => i = j
  BY ConnectionsAssumption
<1>4. PICK n \in Nat : n = Len(e)
  BY <1>3, LenProperties
<1>5. DOMAIN e = 1..n /\ \A i \in 1..n : e[i] \in Connections
  BY <1>3, <1>4, LenProperties, ElementOfSeq
<1>6. ASSUME NEW c \in Connections, stored[c] # Con!Deleted(c)
      PROVE  stored[c] \in Live /\ stored[c].id = c
  <2>1. stored[c] \in Entry /\ stored[c].id = c
    BY DEF ConInv, ListShapes, Filed
  <2>2. ASSUME NEW d \in Connections, stored[c] = Con!Deleted(d) PROVE FALSE
    BY <1>6, <2>1, <2>2, Entries
  <2> QED BY <2>1, <2>2 DEF Entry
<1>7. DOMAIN s = 1..n /\ \A i \in 1..n : s[i] \in Live /\ s[i].id = e[i]
  BY <1>1, <1>2, <1>5, <1>6
<1>8. s \in Seq(Live)
  <2>1. s \in [1..n -> Live]
    BY <1>2, <1>5, <1>7
  <2> QED BY <2>1, SeqDef
<1>9. Len(s) = n
  BY <1>7, <1>8, LenProperties
<1>10. reading' # <<>> /\ reading'[1] = s
  BY <1>1, <1>2
<1>11. \A c \in Connections : Lists(s, c) <=> stored[c] # Con!Deleted(c)
  BY <1>1, <1>5, <1>7, <1>9 DEF Lists
<1>12. /\ list' = <<>> /\ requests' = <<>> /\ current' = "none" /\ stored' = stored
       /\ Known' = {c \in Connections : stored[c] # Con!Deleted(c)}
       /\ adding' = [c \in Connections |-> "no"] /\ removing' = [c \in Connections |-> "no"]
       /\ testing' = [c \in Connections |-> <<>>]
  BY DEF Con!ReloadPage, Con!Quiet, Con!NoTest, Known
<1>13. Len(list') = 0 /\ Len(requests') = 0
  BY <1>12
<1>14. ListShapes'
  <2>1. list' \in Seq(Live) /\ requests' \in Seq(Request)
    BY <1>12, EmptySeq
  <2>2. stored' \in [Connections -> Entry] /\ Known' \subseteq Connections
    BY <1>12 DEF ConInv, ListShapes
  <2> QED BY <1>8, <1>10, <1>12, <2>1, <2>2 DEF ListShapes
<1>15. ASSUME NEW c \in Connections PROVE KeptInv(c)'
  <2>1. Once(list', c) /\ ~Lists(list', c)
    BY <1>13 DEF Once, Lists
  <2>2. Once(s, c)
    BY <1>3, <1>5, <1>7, <1>9 DEF Once
  <2>3. NoAsk(requests', c)
    BY <1>13 DEF NoAsk
  <2>4. IsRead(c)' <=> Lists(s, c)
    BY <1>10 DEF IsRead
  <2>5. Unlisted(c)'
    BY <1>11, <1>12, <2>3, <2>4 DEF Unlisted
  <2> QED BY <1>10, <1>13, <2>1, <2>2, <2>5 DEF KeptInv
<1> QED BY <1>12, <1>14, <1>15 DEF ConInv, ActiveListed

LEMMA ConKept == ConInv /\ Filed /\ [Con!ConNext]_listVars => ConInv'
<1> SUFFICES ASSUME ConInv, Filed, [Con!ConNext]_listVars PROVE ConInv'
  OBVIOUS
<1>1. CASE UNCHANGED listVars
  BY <1>1, ConSame DEF listVars, Known
<1>2. CASE Con!ClearActiveConnection
  BY <1>2, ConSame DEF Con!ClearActiveConnection, Known
<1>3. CASE Con!LoadConnections \/ Con!DoWrite \/ Con!ReloadPage
  BY <1>3, LoadListInv, DoWriteInv, ReloadListInv
<1>4. ASSUME NEW c \in Connections,
             \/ Con!AddConnection(c) \/ Con!SaveAdded(c) \/ Con!ListAdded(c) \/ Con!Tested(c)
             \/ Con!DeleteStored(c) \/ Con!DeleteCredentials(c)
      PROVE  ConInv'
  BY <1>4, AddInv, SaveAddedInv, ListAddedInv, TestedInv, DeleteStoredInv, DeleteCredentialsInv
<1>5. ASSUME NEW k \in DOMAIN list,
             \/ Con!Update(k) \/ Con!SetActiveConnection(k) \/ Con!TestConnection(k)
             \/ Con!RemoveConnection(k)
      PROVE  ConInv'
  BY <1>5, UpdatesInv, RemoveListInv
<1> QED BY <1>1, <1>2, <1>3, <1>4, <1>5 DEF Con!ConNext

LEMMA FiledStart == Con!ConInit => Filed /\ Apart
BY Entries DEF Con!ConInit, Filed, Apart

LEMMA FiledKept ==
  ConInv /\ Filed /\ Apart /\ [Con!ConNext]_listVars => Filed' /\ Apart'
<1> SUFFICES ASSUME ConInv, Filed, Apart, [Con!ConNext]_listVars PROVE Filed' /\ Apart'
  OBVIOUS
<1>1. stored \in [Connections -> Entry]
  BY DEF ConInv, ListShapes
<1>2. CASE stored' = stored /\ credentials' = credentials /\ forgotten' = forgotten
  BY <1>2 DEF Filed, Apart
<1>3. CASE Con!DoWrite
  <2>1. PICK r : stored' = [stored EXCEPT ![r.id] = r]
    BY <1>3 DEF Con!DoWrite
  <2>2. credentials' = credentials /\ forgotten' = forgotten
    BY <1>3 DEF Con!DoWrite
  <2> QED BY <1>1, <2>1, <2>2 DEF Filed, Apart
<1>4. CASE Con!ReloadPage
  BY <1>4 DEF Con!ReloadPage, Filed, Apart
<1>5. ASSUME NEW c \in Connections, Con!AddConnection(c) PROVE Filed' /\ Apart'
  BY <1>5 DEF Con!AddConnection, Filed, Apart
<1>6. ASSUME NEW c \in Connections, Con!DeleteCredentials(c) PROVE Filed' /\ Apart'
  BY <1>6 DEF Con!DeleteCredentials, Filed, Apart
<1>7. ASSUME NEW c \in Connections,
             Con!SaveAdded(c) \/ Con!ListAdded(c) \/ Con!Tested(c) \/ Con!DeleteStored(c)
      PROVE  Filed' /\ Apart'
  BY <1>2, <1>7 DEF Con!SaveAdded, Con!ListAdded, Con!Tested, Con!DeleteStored
<1>8. ASSUME NEW k \in DOMAIN list,
             \/ Con!Update(k) \/ Con!SetActiveConnection(k) \/ Con!TestConnection(k)
             \/ Con!RemoveConnection(k)
      PROVE  Filed' /\ Apart'
  BY <1>2, <1>8
     DEF Con!Update, Con!SetActiveConnection, Con!TestConnection, Con!RemoveConnection
<1>9. CASE Con!LoadConnections \/ Con!ClearActiveConnection \/ UNCHANGED listVars
  BY <1>2, <1>9 DEF Con!LoadConnections, Con!ClearActiveConnection, listVars
<1> QED BY <1>3, <1>4, <1>5, <1>6, <1>7, <1>8, <1>9 DEF Con!ConNext

LEMMA ConHonest == ConInv /\ Apart => Con!ConnectionsKept
<1> SUFFICES ASSUME ConInv, Apart, requests = <<>>, reading = <<>>, adding = Con!Quiet,
                    removing = Con!Quiet, testing = Con!NoTest
             PROVE  /\ \A c \in Connections \ raced :
                         /\ \A k \in DOMAIN list : list[k].id = c => stored[c] = list[k]
                         /\ c \in Con!Ids(list) <=> stored[c] # Con!Deleted(c)
                         /\ c \in Con!Ids(list) \ forgotten <=> c \in credentials
                    /\ current # "none" =>
                         current = savedCurrent /\ current \in raced \cup Con!Ids(list)
  BY DEF Con!ConnectionsKept
<1>1. list \in Seq(Live) /\ Len(requests) = 0
  BY DEF ConInv, ListShapes
<1>2. DOMAIN list = 1..Len(list) /\ \A i \in 1..Len(list) : list[i] \in Live
  BY <1>1, LenProperties, ElementOfSeq
<1>3. \A c : c \in Con!Ids(list) <=> Lists(list, c)
  BY <1>1, IdsIn
<1>4. ASSUME NEW c \in Connections \ raced
      PROVE  /\ \A k \in DOMAIN list : list[k].id = c => stored[c] = list[k]
             /\ Lists(list, c) <=> stored[c] # Con!Deleted(c)
             /\ Lists(list, c) <=> c \in Known
  <2>1. KeptInv(c) /\ adding[c] = "no" /\ removing[c] = "no"
    BY <1>4 DEF ConInv, Con!Quiet
  <2>2. ASSUME NEW k \in 1..Len(list), list[k].id = c
        PROVE  stored[c] = list[k] /\ c \in Known
    <3>1. ListedAt(c, k)
      BY <2>1, <2>2 DEF KeptInv
    <3>2. ~LastAsk(requests, c, list[k])
      BY <1>1 DEF LastAsk
    <3> QED BY <3>1, <3>2 DEF ListedAt
  <2>3. Lists(list, c) => stored[c] # Con!Deleted(c) /\ c \in Known
    <3>1. SUFFICES ASSUME NEW k \in 1..Len(list), list[k].id = c
                   PROVE  stored[c] # Con!Deleted(c) /\ c \in Known
      BY DEF Lists
    <3>2. stored[c] = list[k] /\ c \in Known
      BY <2>2, <3>1
    <3>3. list[k].status # "none" /\ Con!Deleted(c).status = "none"
      BY <1>2, <3>1, Entries
    <3> QED BY <3>2, <3>3
  <2>4. ~Lists(list, c) => stored[c] = Con!Deleted(c) /\ c \notin Known
    BY <2>1 DEF KeptInv, Unlisted, IsRead
  <2> QED BY <1>2, <2>2, <2>3, <2>4
<1>5. current # "none" => current = savedCurrent /\ current \in raced \cup Con!Ids(list)
  BY <1>3 DEF ConInv, ActiveListed
<1> QED BY <1>3, <1>4, <1>5 DEF Known, Apart

\* What the store says of the imported tables and of the connections is so, once nothing
\* is under way on them: an available table has its file, and DuckDB its rows when the
\* session is restored, whichever steps of two operations, faults and crashes came
\* between; a listed connection is stored as listed, before and after a reload of the
\* page, has its credentials exactly in the page that added it, and the active one is
\* listed.  The models except by name what two operations had at once.
THEOREM StorageIsKeptHonest == MCSpec => []StorageIsHonest
<1>1. MCInit => MatInv /\ ConInv /\ Filed /\ Apart
  BY MatStart, ConStart, FiledStart DEF MCInit
<1>2. /\ MatInv /\ ConInv /\ Filed /\ Apart
      /\ [MCNext]_<<part, vars, oauthVars, queryVars, tableVars, listVars>>
      => (MatInv /\ ConInv /\ Filed /\ Apart)'
  <2>1. [MCNext]_<<part, vars, oauthVars, queryVars, tableVars, listVars>> =>
          [Mat!MatNext]_tableVars /\ [Con!ConNext]_listVars
    BY DEF MCNext
  <2> QED BY <2>1, MatKept, ConKept, FiledKept
<1>3. MatInv /\ ConInv /\ Apart => StorageIsHonest
  BY MatHonest, ConHonest DEF StorageIsHonest
<1> QED BY <1>1, <1>2, <1>3, PTL DEF MCSpec
=============================================================================
