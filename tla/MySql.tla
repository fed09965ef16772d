-------------------------------- MODULE MySql --------------------------------
(****************************************************************************)
(* The connections to the database (src/lib_src/db): rns_mysql.c drives the *)
(* non-blocking calls of the client library, whose suspended call is        *)
(* continued by the connection's events, and rns_dbpool.c makes the         *)
(* connections of the pool one after the other and lends them out.          *)
(*                                                                          *)
(* The server is modelled by the packets it sends.  The loop reports an     *)
(* edge of a connection that can be read; rns_mysql_init sets ecb.read      *)
(* twice and ecb.write never, so that room to write is not reported.        *)
(****************************************************************************)
EXTENDS Naturals, Sequences, FiniteSets

CONSTANTS
  Mysqls,   \* connections (rns_mysql_t): as many as dbpool->max
  MaxRows,  \* bound: rows of a result
  MaxFails  \* bound: connections the server closes, results it breaks off

VARIABLES
  state,    \* mysql->state, "none" before rns_mysql_init
  wait,     \* mysql->status: what the suspended call of the library waits for
  query,    \* the query whose callbacks are in qcb: asked, ended, or none yet
  given,    \* rows given to work
  pool,     \* dbpool->mysqls
  ready,    \* dbpool->cb.func was called: the program goes on
  wire,     \* packets of the server that were not read
  edge,     \* epoll has an event to report
  server,   \* what the server does with the connection
  rows,     \* rows of the result as the server has it
  failed,   \* connections whose last query ended in qcb.error
  again,    \* connections for which a callback of an ended query was called
  fails     \* how often the server failed

mine == <<state, wait, query, given>>
poolVars == <<pool, ready>>
theirs == <<wire, edge, server, rows, fails>>
vars == <<mine, poolVars, theirs, failed, again>>

TypeOK ==
  /\ state \in [Mysqls -> {"none", "init", "connect", "query", "fetch"}]
  /\ wait \in [Mysqls -> {"none", "in", "out"}]
  /\ query \in [Mysqls -> {"none", "asked", "ended"}]
  /\ given \in [Mysqls -> 0 .. MaxRows]
  /\ pool \subseteq Mysqls
  /\ ready \in BOOLEAN
  /\ \A m \in Mysqls : wire[m] \in Seq({"greet", "ok", "cols", "row", "eof", "err", "close"})
  /\ edge \subseteq Mysqls
  /\ server \in [Mysqls -> {"none", "greet", "auth", "idle", "run", "send", "closed"}]
  /\ rows \in [Mysqls -> 0 .. MaxRows]
  /\ failed \subseteq Mysqls /\ again \subseteq Mysqls
  /\ fails \in 0 .. MaxFails

------------------------------------------------------------------------------
(* The pool *)

\* dbpool->num
Num == Cardinality({m \in Mysqls : state[m] \notin {"none", "connect"}})

\* rns_mysql_init and rns_mysql_connect of n, when m is connected.
Connecting(n, m) ==
  /\ state[n] = "none"
  /\ state' = [state EXCEPT ![m] = "init", ![n] = "connect"]
  /\ wait' = [wait EXCEPT ![m] = "none", ![n] = "out"]
  /\ server' = [server EXCEPT ![n] = "greet"]

\* rns_dbpool_create: the first connection is under way.
Init ==
  /\ \E m \in Mysqls :
       /\ state = [n \in Mysqls |-> IF n = m THEN "connect" ELSE "none"]
       /\ wait = [n \in Mysqls |-> IF n = m THEN "out" ELSE "none"]
       /\ server = [n \in Mysqls |-> IF n = m THEN "greet" ELSE "none"]
  /\ query = [m \in Mysqls |-> "none"]
  /\ given = [m \in Mysqls |-> 0]
  /\ pool = {} /\ ready = FALSE
  /\ wire = [m \in Mysqls |-> <<>>]
  /\ edge = {}
  /\ rows = [m \in Mysqls |-> 0]
  /\ failed = {} /\ again = {} /\ fails = 0

\* Faulty variant of Connected: the program is told when a connection is missing.
ConnectedEarly(m) ==
  LET last == Num + 2 >= Cardinality(Mysqls)
  IN  /\ pool' = pool \cup {m}
      /\ \/ ~last /\ \E n \in Mysqls : Connecting(n, m)
         \/ /\ last
            /\ state' = [state EXCEPT ![m] = "init"]
            /\ wait' = [wait EXCEPT ![m] = "none"]
            /\ UNCHANGED server
      /\ ready' = last /\ UNCHANGED fails

\* connectcb: the connection joins the pool.  The next one is begun, or (a
\* failing call of the library) never is; with the last one the program is told.
Connected(m) ==
  LET last == Num + 1 = Cardinality(Mysqls)
  IN  /\ pool' = pool \cup {m}
      /\ \/ ~last /\ (\E n \in Mysqls : Connecting(n, m)) /\ UNCHANGED fails
         \/ /\ last \/ fails < MaxFails
            /\ state' = [state EXCEPT ![m] = "init"]
            /\ wait' = [wait EXCEPT ![m] = "none"]
            /\ fails' = IF last THEN fails ELSE fails + 1
            /\ UNCHANGED server
      /\ ready' = last

\* rns_mysql_connect_cont: the greeting is answered, the connection is made, or
\* the library gives NULL: errorcb does nothing.
ConnectCont(m) ==
  /\ state[m] = "connect"
  /\ \/ /\ Head(wire[m]) = "greet"
        /\ wait' = [wait EXCEPT ![m] = "in"]
        /\ server' = [server EXCEPT ![m] = IF @ = "closed" THEN @ ELSE "auth"]
        /\ UNCHANGED <<state, poolVars, fails>>
     \/ /\ Head(wire[m]) = "ok"
        /\ Connected(m)
     \/ /\ Head(wire[m]) \in {"err", "close"}
        /\ wait' = [wait EXCEPT ![m] = "none"]
        /\ UNCHANGED <<state, poolVars, fails, server>>
  /\ wire' = [wire EXCEPT ![m] = Tail(@)]
  /\ UNCHANGED <<query, given, rows, failed, again>>

------------------------------------------------------------------------------
(* A query *)

\* Faulty variant of Ended: the state stays what it was.
EndedKeepsState(m) ==
  /\ wait' = [wait EXCEPT ![m] = "none"]
  /\ again' = IF query[m] = "asked" THEN again ELSE again \cup {m}
  /\ query' = [query EXCEPT ![m] = "ended"]
  /\ pool' = pool \cup {m}
  /\ failed' = failed \ {m}
  /\ UNCHANGED <<state, ready>>

\* rns_mysql_free.  The library never suspends the call for a result that was read
\* to its end, so that done is called at once, which answers and returns the
\* connection; rns_mysql_free_cont is never reached.
Ended(m) ==
  /\ state' = [state EXCEPT ![m] = "init"]
  /\ wait' = [wait EXCEPT ![m] = "none"]
  /\ again' = IF query[m] = "asked" THEN again ELSE again \cup {m}
  /\ query' = [query EXCEPT ![m] = "ended"]
  /\ pool' = pool \cup {m}
  /\ failed' = failed \ {m}
  /\ UNCHANGED ready

\* qcb.error, which answers and returns the connection; the state stays.
Failed(m) ==
  /\ wait' = [wait EXCEPT ![m] = "none"]
  /\ again' = IF query[m] = "asked" THEN again ELSE again \cup {m}
  /\ query' = [query EXCEPT ![m] = "ended"]
  /\ pool' = pool \cup {m}
  /\ failed' = failed \cup {m}
  /\ UNCHANGED <<state, ready>>

\* rns_dbpool_get and rns_mysql_query.  The call is suspended until the query is
\* written ("out") or answered ("in"); the server has it when it is written.
Asks(m) ==
  /\ m \in pool
  /\ pool' = pool \ {m}
  /\ state' = [state EXCEPT ![m] = "query"]
  /\ query' = [query EXCEPT ![m] = "asked"]
  /\ given' = [given EXCEPT ![m] = 0]
  /\ failed' = failed \ {m}
  /\ \E w \in {"in", "out"} :
       /\ wait' = [wait EXCEPT ![m] = w]
       /\ server' = IF w = "in" /\ server[m] = "idle"
                      THEN [server EXCEPT ![m] = "run"] ELSE server
  \* What is written to a server that closed is reset.
  /\ IF server[m] = "closed"
       THEN /\ wire' = [wire EXCEPT ![m] = <<"close">>]
            /\ edge' = edge \cup {m}
       ELSE UNCHANGED <<wire, edge>>
  /\ again' = again \ {m}
  /\ UNCHANGED <<ready, rows, fails>>

\* ... or the library fails at once with 1: only a negative value is an error, so
\* that the query looks like one without a result, and done is called.
AsksInVain(m) ==
  /\ m \in pool
  /\ server[m] = "closed"
  /\ state' = [state EXCEPT ![m] = "init"]
  /\ query' = [query EXCEPT ![m] = "ended"]
  /\ given' = [given EXCEPT ![m] = 0]
  /\ failed' = failed \ {m}
  /\ again' = again \ {m}
  /\ UNCHANGED <<wait, poolVars, theirs>>

\* Packets of w that are rows of a result, in front.
RowsOf(w) ==
  CHOOSE k \in 0 .. Len(w) :
    /\ \A i \in 1 .. k : w[i] = "row"
    /\ k < Len(w) => w[k + 1] # "row"

\* Faulty variants of Fetching: a row is lost, or one row is fetched for an event.
FetchingLoses(m, w) ==
  LET k == RowsOf(w)
  IN  /\ given' = [given EXCEPT ![m] = IF k = 0 THEN @ ELSE @ + k - 1]
      /\ IF k = Len(w)
           THEN /\ state' = [state EXCEPT ![m] = "fetch"]
                /\ wait' = [wait EXCEPT ![m] = "in"]
                /\ wire' = [wire EXCEPT ![m] = <<>>]
                /\ UNCHANGED <<query, poolVars, failed, again>>
           ELSE /\ wire' = [wire EXCEPT ![m] = SubSeq(w, k + 2, Len(w))]
                /\ Ended(m)

FetchingOnce(m, w) ==
  IF w # <<>> /\ Head(w) # "row"
    THEN /\ wire' = [wire EXCEPT ![m] = Tail(w)]
         /\ Ended(m) /\ UNCHANGED given
    ELSE /\ state' = [state EXCEPT ![m] = "fetch"]
         /\ wait' = [wait EXCEPT ![m] = "in"]
         /\ given' = [given EXCEPT ![m] = IF w = <<>> THEN @ ELSE @ + 1]
         /\ wire' = [wire EXCEPT ![m] = IF w = <<>> THEN w ELSE Tail(w)]
         /\ UNCHANGED <<query, poolVars, failed, again>>

\* rns_mysql_fetch and rns_mysql_fetch_cont: every row that came is given to
\* work; the result ends with its end, and with an error as if it were its end.
Fetching(m, w) ==
  LET k == RowsOf(w)
  IN  /\ given' = [given EXCEPT ![m] = @ + k]
      /\ IF k = Len(w)
           THEN /\ state' = [state EXCEPT ![m] = "fetch"]
                /\ wait' = [wait EXCEPT ![m] = "in"]
                /\ wire' = [wire EXCEPT ![m] = <<>>]
                /\ UNCHANGED <<query, poolVars, failed, again>>
           ELSE /\ wire' = [wire EXCEPT ![m] = SubSeq(w, k + 2, Len(w))]
                /\ Ended(m)

\* Faulty variant of QueryCont: a result is left on the connection.
QueryContLeaves(m) ==
  /\ state[m] = "query"
  /\ wire' = [wire EXCEPT ![m] = Tail(@)]
  /\ IF wait[m] = "none" \/ Head(wire[m]) \in {"err", "close"}
       THEN Failed(m) ELSE Ended(m)
  /\ UNCHANGED <<given, server, rows, fails>>

\* rns_mysql_query_cont.  A call that is not suspended is an error to the library.
QueryCont(m) ==
  /\ state[m] = "query"
  /\ \/ /\ wait[m] = "none"
        /\ Failed(m) /\ UNCHANGED <<given, wire>>
     \/ /\ wait[m] # "none" /\ Head(wire[m]) = "cols"
        /\ Fetching(m, Tail(wire[m]))
     \/ /\ wait[m] # "none" /\ Head(wire[m]) # "cols"
        /\ wire' = [wire EXCEPT ![m] = Tail(@)]
        /\ IF Head(wire[m]) = "ok" THEN Ended(m) ELSE Failed(m)
        /\ UNCHANGED given
  /\ UNCHANGED <<server, rows, fails>>

FetchCont(m) ==
  /\ state[m] = "fetch"
  /\ Fetching(m, wire[m])
  /\ UNCHANGED <<server, rows, fails>>

\* A connection at rest: the event is for nobody.
Ignored(m) ==
  /\ state[m] = "init"
  /\ UNCHANGED <<mine, poolVars, wire, server, rows, fails, failed, again>>

\* read_func of an event (the name ecb.read holds write_func, its twin).
Event(m) ==
  /\ m \in edge /\ wire[m] # <<>>
  /\ edge' = edge \ {m}
  /\ \/ ConnectCont(m) \/ QueryCont(m) \/ FetchCont(m) \/ Ignored(m)

------------------------------------------------------------------------------
(* The server *)

Sends(m, packet, next) ==
  /\ wire' = [wire EXCEPT ![m] = Append(@, packet)]
  /\ edge' = edge \cup {m}
  /\ server' = [server EXCEPT ![m] = next]

Greets(m) ==
  /\ \/ server[m] = "greet" /\ wire[m] = <<>> /\ wait[m] = "out" /\ Sends(m, "greet", "greet")
     \/ server[m] = "auth" /\ Sends(m, "ok", "idle")
  /\ UNCHANGED <<mine, poolVars, rows, failed, again, fails>>

\* The answer to a query: an error, nothing, or a result with its rows.
Answers(m) ==
  /\ server[m] = "run"
  /\ \/ Sends(m, "err", "idle") /\ fails < MaxFails /\ fails' = fails + 1 /\ UNCHANGED rows
     \/ Sends(m, "ok", "idle") /\ rows' = [rows EXCEPT ![m] = 0] /\ UNCHANGED fails
     \/ /\ Sends(m, "cols", "send") /\ UNCHANGED fails
        /\ \E k \in 0 .. MaxRows : rows' = [rows EXCEPT ![m] = k]
  /\ UNCHANGED <<mine, poolVars, failed, again>>

RowsSent(m) == given[m] + Cardinality({i \in DOMAIN wire[m] : wire[m][i] = "row"})

SendsRow(m) ==
  /\ server[m] = "send"
  /\ \/ RowsSent(m) < rows[m] /\ Sends(m, "row", "send")
     \/ RowsSent(m) = rows[m] /\ Sends(m, "eof", "idle")
  /\ UNCHANGED <<mine, poolVars, rows, failed, again, fails>>

\* The server ends the connection: idle too long, restarted, unreachable.
Closes(m) ==
  /\ server[m] \notin {"none", "closed"}
  /\ fails < MaxFails /\ fails' = fails + 1
  /\ Sends(m, "close", "closed")
  /\ UNCHANGED <<mine, poolVars, rows, failed, again>>

------------------------------------------------------------------------------
Responds(m) == Greets(m) \/ Answers(m) \/ SendsRow(m)

Next ==
  \E m \in Mysqls :
    \/ Event(m) \/ Asks(m) \/ AsksInVain(m)
    \/ Responds(m) \/ Closes(m)

\* The server answers, and the loop takes events.
Fairness == \A m \in Mysqls : WF_vars(Event(m)) /\ WF_vars(Responds(m))

Spec == Init /\ [][Next]_vars
FairSpec == Spec /\ Fairness

------------------------------------------------------------------------------
(* Properties *)

\* A connection that was made is in the pool or carries one query, and the program
\* starts with all of them: connectcb, rns_dbpool_get and rns_dbpool_free, and the
\* paths on which a query ends.
Lent ==
  /\ \A m \in Mysqls : state[m] \notin {"none", "connect"} =>
       (m \in pool <=> query[m] # "asked")
  /\ ready => pool \cup {m \in Mysqls : query[m] = "asked"} = Mysqls

\* A connection comes back to the pool with its result read to the end, so that no
\* row of one query reaches the next one.
ReadToTheEnd == \A m \in pool :
  /\ \A i \in DOMAIN wire[m] : wire[m][i] = "close"
  /\ server[m] \in {"idle", "closed"}

\* All rows of a result are given to work before its end is told, if the server did
\* not break the result off.
AllGiven == \A m \in pool :
  query[m] = "ended" /\ server[m] = "idle" /\ m \notin failed => given[m] = rows[m]

\* The end of a query is told once.  The state that an error leaves behind makes
\* one exception: when the server then closes the connection, the callback of the
\* query that failed is called again (rns_mysql_query_cont).
ToldOnce == again \subseteq {m \in failed : server[m] = "closed"}

\* A query comes to its end, except one that waits to be written: nobody reports
\* that there is room.
QueriesEnd == \A m \in Mysqls :
  query[m] = "asked" ~> (query[m] # "asked" \/ wait[m] = "out")

\* The pool is filled, or a connection could not be made.
PoolFills == <>(ready \/ fails > 0)

\* The pool and the queries are sound.
QueriesSound == TypeOK /\ Lent /\ ReadToTheEnd /\ AllGiven /\ ToldOnce

\* What was begun ends: queries, and the start of the pool.
QueriesTold == QueriesEnd /\ PoolFills

\* The configuration that the promises rest on: a pool of finitely many connections.
Bounds == IsFiniteSet(Mysqls) /\ MaxRows \in Nat /\ MaxFails \in Nat
==============================================================================
