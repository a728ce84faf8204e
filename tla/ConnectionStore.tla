--------------------------- MODULE ConnectionStore ---------------------------
(***************************************************************************)
(* The connections to cloud sources (connection-store.tsx): the list React     *)
(* keeps, its copy in IndexedDB, which an effect saves connection by           *)
(* connection whenever the list changes and which every operation also writes  *)
(* itself, their credentials, which the credential store keeps in memory only   *)
(* (credential-store.ts is a stub), and the active one, kept in localStorage.   *)
(* A connection is its id, its status and the version of the fields an update   *)
(* changes.                                                                    *)
(***************************************************************************)
EXTENDS Naturals, Sequences

CONSTANTS Connections,
          Orders,      \* the orders in which stored connections may be read, of any of them
          MaxCalls     \* bound: operations begun, reloads of the page among them

VARIABLES list,        \* the connections, in order
          stored,      \* the connections in IndexedDB, by id
          credentials, \* connections whose credentials this page holds
          current, savedCurrent,
          requests,    \* the writes IndexedDB was asked for and has not done yet, in order
          reading,     \* what loadConnections has read and not yet set
          adding, testing, removing,  \* by connection, how far the operation is
          conCalls,
          raced,       \* history: connections added while the list was loaded, removed while
                       \* they were tested, or being saved while one was removed, in this page
          forgotten    \* history: connections of an earlier page, whose credentials went with it

Fresh(c) == [id |-> c, status |-> "disconnected", version |-> 0]
Deleted(c) == [id |-> c, status |-> "none", version |-> 0]
Ids(l) == {l[i].id : i \in DOMAIN l}

conVars == <<list, stored, credentials, current, savedCurrent, requests, reading, adding, testing,
             removing, conCalls, raced, forgotten>>

Quiet == [c \in Connections |-> "no"]
NoTest == [c \in Connections |-> <<>>]

\* A page starts with what is stored and without any credentials.
ConInit ==
  /\ list = <<>>
  /\ \E e \in Orders : reading = << [i \in DOMAIN e |-> Fresh(e[i])] >>
  /\ stored = [c \in Connections |-> IF c \in Ids(reading[1]) THEN Fresh(c) ELSE Deleted(c)]
  /\ credentials = {} /\ forgotten = Ids(reading[1])
  /\ current = "none" /\ savedCurrent \in {"none"} \cup forgotten
  /\ requests = <<>>
  /\ adding = Quiet /\ removing = Quiet /\ testing = NoTest
  /\ conCalls = 0 /\ raced = {}

\* A request writes the first of its connections; the loop of saveConnections then asks
\* for the next.
Writes(todo, adds) == IF todo = <<>> THEN <<>> ELSE <<[todo |-> todo, adds |-> adds]>>
Loop(todo) == Writes(todo, FALSE)
Write(r) == Writes(<<r>>, FALSE)

\* setConnections, and the effect that saves the new list, after the writes that are
\* asked for before React renders.
SetConnections(l, first) ==
  /\ list' = l
  /\ requests' = requests \o first \o Loop(l)

Call == conCalls < MaxCalls /\ conCalls' = conCalls + 1

\* The page is loaded again, whatever was under way in it.
ReloadPage ==
  /\ Call
  /\ list' = <<>> /\ current' = "none" /\ credentials' = {} /\ requests' = <<>>
  /\ \E e \in Orders :
       /\ reading' = << [i \in DOMAIN e |-> stored[e[i]]] >>
       /\ \A c \in Connections : (\E i \in DOMAIN e : e[i] = c) <=> stored[c] # Deleted(c)
  /\ forgotten' = {c \in Connections : stored[c] # Deleted(c)}
  /\ adding' = Quiet /\ removing' = Quiet /\ testing' = NoTest /\ raced' = {}
  /\ UNCHANGED <<stored, savedCurrent>>

\* loadConnections sets what it had read when it began.
LoadConnections ==
  /\ reading # <<>> /\ reading' = <<>>
  /\ SetConnections(reading[1], <<>>)
  /\ current' = IF savedCurrent \in Ids(reading[1]) THEN savedCurrent ELSE current
  /\ UNCHANGED <<stored, credentials, forgotten, savedCurrent, adding, testing, removing,
                 conCalls, raced>>

\* IndexedDB does the first write it was asked for.
DoWrite ==
  /\ requests # <<>>
  /\ LET w == Head(requests)
         r == Head(w.todo)
     IN /\ stored' = [stored EXCEPT ![r.id] = r]
        /\ requests' = Tail(requests) \o Loop(Tail(w.todo))
        /\ adding' = [adding EXCEPT ![r.id] = IF w.adds THEN "stored" ELSE @]
        /\ removing' = [removing EXCEPT ![r.id] = IF r = Deleted(r.id) THEN "stored" ELSE @]
  /\ UNCHANGED <<list, credentials, forgotten, current, savedCurrent, reading, testing,
                 conCalls, raced>>

-----------------------------------------------------------------------------
(* addConnection: the credentials, the stored connection, the list. *)

AddConnection(c) ==
  /\ adding[c] = "no" /\ stored[c] = Deleted(c) /\ c \notin credentials \cup forgotten \cup raced
  /\ removing[c] = "no" /\ Call
  /\ credentials' = credentials \cup {c}
  /\ adding' = [adding EXCEPT ![c] = "credentials"]
  /\ raced' = IF reading = <<>> THEN raced ELSE raced \cup {c}
  /\ UNCHANGED <<list, stored, current, savedCurrent, requests, reading, testing, removing,
                 forgotten>>

SaveAdded(c) ==
  /\ adding[c] = "credentials"
  /\ requests' = requests \o Writes(<<Fresh(c)>>, TRUE)
  /\ adding' = [adding EXCEPT ![c] = "asked"]
  /\ UNCHANGED <<list, stored, credentials, forgotten, current, savedCurrent, reading, testing,
                 removing, conCalls, raced>>

ListAdded(c) ==
  /\ adding[c] = "stored"
  /\ SetConnections(Append(list, Fresh(c)), <<>>)
  /\ adding' = [adding EXCEPT ![c] = "no"]
  /\ UNCHANGED <<stored, credentials, forgotten, current, savedCurrent, reading, testing,
                 removing, conCalls, raced>>

-----------------------------------------------------------------------------
(* updateConnection, called from a render that had `seen` of the connection:   *)
(* the list now takes the update, the database the connection of that render   *)
(* with it.                                                                    *)

Updated(r, what) ==
  IF what = "version" THEN [r EXCEPT !.version = @ + 1] ELSE [r EXCEPT !.status = what]

Mapped(l, c, what) ==
  [i \in DOMAIN l |-> IF l[i].id = c THEN Updated(l[i], what) ELSE l[i]]

UpdateConnection(seen, what) ==
  SetConnections(Mapped(list, seen.id, what), Write(Updated(seen, what)))

Update(k) ==
  /\ Call
  /\ UpdateConnection(list[k], "version")
  /\ UNCHANGED <<stored, credentials, forgotten, current, savedCurrent, reading, adding,
                 testing, removing, raced>>

\* setActiveConnection.
SetActiveConnection(k) ==
  /\ current # list[k].id /\ Call
  /\ current' = list[k].id /\ savedCurrent' = list[k].id
  /\ UpdateConnection(list[k], "version")
  /\ UNCHANGED <<stored, credentials, forgotten, reading, adding, testing, removing, raced>>

ClearActiveConnection ==
  /\ current # "none" /\ Call
  /\ current' = "none" /\ savedCurrent' = "none"
  /\ UNCHANGED <<list, stored, credentials, forgotten, requests, reading, adding, testing,
                 removing, raced>>

\* testConnection: connecting, and a second later connected, both in the connections of
\* the render in which the test was begun.
TestConnection(k) ==
  /\ testing[list[k].id] = <<>> /\ Call
  /\ UpdateConnection(list[k], "connecting")
  /\ testing' = [testing EXCEPT ![list[k].id] = <<list[k]>>]
  /\ UNCHANGED <<stored, credentials, forgotten, current, savedCurrent, reading, adding,
                 removing, raced>>

Tested(c) ==
  /\ testing[c] # <<>>
  /\ UpdateConnection(testing[c][1], "connected")
  /\ testing' = [testing EXCEPT ![c] = <<>>]
  /\ UNCHANGED <<stored, credentials, forgotten, current, savedCurrent, reading, adding,
                 removing, conCalls, raced>>

-----------------------------------------------------------------------------
(* removeConnection: the list and the active one, then the stored connection,  *)
(* whose tables' records are deleted first (module Materialization), then the  *)
(* credentials.                                                                *)

Without(l, k) == SubSeq(l, 1, k - 1) \o SubSeq(l, k + 1, Len(l))
BeingSaved(c) == \E i \in DOMAIN requests : c \in Ids(requests[i].todo)

\* A bug that must be noticed: the active connection is not looked at.
RemoveConnection_KeepsActive(k) ==
  LET c == list[k].id
  IN /\ Call
     /\ SetConnections(Without(list, k), <<>>)
     /\ removing' = [removing EXCEPT ![c] = "listed"]
     /\ raced' = raced \cup {d \in Connections : BeingSaved(d) \/ (d = c /\ testing[d] # <<>>)}
     /\ UNCHANGED <<stored, credentials, forgotten, current, savedCurrent, reading, adding,
                    testing>>

RemoveConnection(k) ==
  LET c == list[k].id
  IN /\ Call
     /\ SetConnections(Without(list, k), <<>>)
     /\ removing' = [removing EXCEPT ![c] = "listed"]
     /\ IF current = c THEN current' = "none" /\ savedCurrent' = "none"
        ELSE UNCHANGED <<current, savedCurrent>>
     /\ raced' = raced \cup {d \in Connections : BeingSaved(d) \/ (d = c /\ testing[d] # <<>>)}
     /\ UNCHANGED <<stored, credentials, forgotten, reading, adding, testing>>

DeleteStored(c) ==
  /\ removing[c] = "listed"
  /\ requests' = requests \o Write(Deleted(c))
  /\ removing' = [removing EXCEPT ![c] = "asked"]
  /\ UNCHANGED <<list, stored, credentials, forgotten, current, savedCurrent, reading, adding,
                 testing, conCalls, raced>>

DeleteCredentials(c) ==
  /\ removing[c] = "stored"
  /\ credentials' = credentials \ {c} /\ forgotten' = forgotten \ {c}
  /\ removing' = [removing EXCEPT ![c] = "no"]
  /\ UNCHANGED <<list, stored, current, savedCurrent, requests, reading, adding, testing,
                 conCalls, raced>>

ConNext ==
  \/ ReloadPage \/ LoadConnections \/ ClearActiveConnection \/ DoWrite
  \/ \E c \in Connections :
       AddConnection(c) \/ SaveAdded(c) \/ ListAdded(c) \/ Tested(c)
         \/ DeleteStored(c) \/ DeleteCredentials(c)
  \/ \E k \in DOMAIN list :
       Update(k) \/ SetActiveConnection(k) \/ TestConnection(k) \/ RemoveConnection(k)

\* When nothing is under way, a connection is listed with what is stored of it, in this
\* page and after the next start, and is active only if it is listed; its credentials are
\* there as long as the page that added it, and are gone with the connection.  But for one
\* that was added while the list was loaded, removed while it was tested, or being saved
\* while one was removed.
ConnectionsKept ==
  requests = <<>> /\ reading = <<>> /\ adding = Quiet /\ removing = Quiet /\ testing = NoTest =>
    /\ \A c \in Connections \ raced :
         /\ \A k \in DOMAIN list : list[k].id = c => stored[c] = list[k]
         /\ c \in Ids(list) <=> stored[c] # Deleted(c)
         /\ c \in Ids(list) \ forgotten <=> c \in credentials
    /\ current # "none" => current = savedCurrent /\ current \in raced \cup Ids(list)
=============================================================================
