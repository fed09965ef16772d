------------------------------- MODULE MCTransport -------------------------------
(* TLC instances of what lies under a request: one connection (HttpConn), the   *)
(* parser (HttpParse), the tasks of an answer (HttpWrite) and a loop with one    *)
(* connection and fairness (EventLoop); and what lies beside it: the database     *)
(* (MySql) and the logins of a TRS (Login).  They share no state here; part names *)
(* the one that a behaviour works.                                             *)
EXTENDS HttpConn

CONSTANTS
  c1, k1, i1, i2, i3, None,
  MaxAnswers, Lengths, \* of HttpWrite
  Mysqls, MaxRows, MaxFails, \* of MySql
  Trss, First, Interval, Report, Timeout, MaxDelay, MaxLate, Losses \* of Login

VARIABLES
  part, \* the module that a behaviour works
  pMsg, pComing, pWpos, pUn, pState, pChunk, pChunksize, pTotal, pCurr, pBody, pPc,
  pGiven, pWorks, pDone, pCut, pCount, wTasks, wRunning, wSize, wPromised, wWire, wFp,
  wEnded, wSpoiled, wAlive, wNext, lPc, lBatch, lReady, lTimers, lConn, lLink, lHeld,
  lHoldId, lKeepId, lBacklog, lRun, lCut, lStray, lUndefined, dState, dWait, dQuery,
  dGiven, dPool, dReady, dWire, dEdge, dServer, dRows, dFailed, dAgain, dFails, gNext,
  gAge, gLeft, gHeard, gLost, gReport

Parser == INSTANCE HttpParse WITH
  Bodies <- {0, 2, 19, 22}, Chunkings <- {<<2>>, <<1, 2>>}, Size <- 27, MaxMsgs <- 2,
  msg <- pMsg, coming <- pComing, wpos <- pWpos, un <- pUn, state <- pState,
  chunk <- pChunk, chunksize <- pChunksize, total <- pTotal, curr <- pCurr,
  body <- pBody, pc <- pPc, given <- pGiven, works <- pWorks, done <- pDone,
  cut <- pCut, count <- pCount

Writer == INSTANCE HttpWrite WITH
  Answers <- MaxAnswers, Lengths <- Lengths, tasks <- wTasks, running <- wRunning,
  size <- wSize, promised <- wPromised, wire <- wWire, fp <- wFp, ended <- wEnded,
  spoiled <- wSpoiled, alive <- wAlive, next <- wNext

Epoll == INSTANCE EventLoop WITH
  Conns <- {c1}, Links <- {k1}, Ids <- {i1, i2, i3}, Fds <- 1, Expire <- 2, Hold <- 1,
  Interval <- 3, MaxBacklog <- 1, None <- None, pc <- lPc, batch <- lBatch,
  ready <- lReady, timers <- lTimers, conn <- lConn, link <- lLink, held <- lHeld,
  holdId <- lHoldId, keepId <- lKeepId, backlog <- lBacklog, run <- lRun, cut <- lCut,
  stray <- lStray, undefined <- lUndefined

Queries == INSTANCE MySql WITH
  Mysqls <- Mysqls, MaxRows <- MaxRows, MaxFails <- MaxFails, state <- dState,
  wait <- dWait, query <- dQuery, given <- dGiven, pool <- dPool, ready <- dReady,
  wire <- dWire, edge <- dEdge, server <- dServer, rows <- dRows, failed <- dFailed,
  again <- dAgain, fails <- dFails

Logins == INSTANCE Login WITH
  Trss <- Trss, None <- None, First <- First, Interval <- Interval, Report <- Report,
  Timeout <- Timeout, MaxDelay <- MaxDelay, MaxLate <- MaxLate, Losses <- Losses,
  next <- gNext, age <- gAge, left <- gLeft, heard <- gHeard, lost <- gLost,
  report <- gReport

Parts == {"conn", "parse", "write", "loop", "db", "login"}

parseVars == <<pMsg, pComing, pWpos, pUn, pState, pChunk, pChunksize, pTotal, pCurr,
               pBody, pPc, pGiven, pWorks, pDone, pCut, pCount>>
writeVars == <<wTasks, wRunning, wSize, wPromised, wWire, wFp, wEnded, wSpoiled,
               wAlive, wNext>>
loopVars == <<lPc, lBatch, lReady, lTimers, lConn, lLink, lHeld, lHoldId, lKeepId,
              lBacklog, lRun, lCut, lStray, lUndefined>>
dbVars == <<dState, dWait, dQuery, dGiven, dPool, dReady, dWire, dEdge, dServer, dRows,
            dFailed, dAgain, dFails>>
loginVars == <<gNext, gAge, gLeft, gHeard, gLost, gReport>>

allVars == <<part, vars, parseVars, writeVars, loopVars, dbVars, loginVars>>

AllInit ==
  /\ part \in Parts
  /\ part # "parse" => pMsg = Parser!Plain(0)
  /\ part # "loop" => lKeepId = i1
  /\ part # "db" => 
       dState = [m \in Mysqls |-> IF m = CHOOSE n \in Mysqls : TRUE THEN "connect" ELSE "none"]
  /\ Init /\ Parser!Init /\ Writer!Init /\ Epoll!Init /\ Queries!Init /\ Logins!Init

AllNext ==
  /\ UNCHANGED part
  /\ \/ part = "conn" /\ Next
        /\ UNCHANGED <<parseVars, writeVars, loopVars, dbVars, loginVars>>
     \/ part = "parse" /\ Parser!Next
        /\ UNCHANGED <<vars, writeVars, loopVars, dbVars, loginVars>>
     \/ part = "write" /\ Writer!Next
        /\ UNCHANGED <<vars, parseVars, loopVars, dbVars, loginVars>>
     \/ part = "loop" /\ Epoll!Next
        /\ UNCHANGED <<vars, parseVars, writeVars, dbVars, loginVars>>
     \/ part = "db" /\ Queries!Next
        /\ UNCHANGED <<vars, parseVars, writeVars, loopVars, loginVars>>
     \/ part = "login" /\ Logins!Next
        /\ UNCHANGED <<vars, parseVars, writeVars, loopVars, dbVars>>

\* The answers of HttpWrite
ASSUME WriterBounds == Writer!Bounds

\* The timing that the promise of Login rests on
ASSUME LoginTiming == Logins!Timing

\* The pool and the bounds of MySql
ASSUME QueriesBounds == Queries!Bounds

LoopOnly == part = "loop" /\ UNCHANGED <<part, vars, parseVars, writeVars, dbVars, loginVars>>
DbOnly == part = "db" /\ UNCHANGED <<part, vars, parseVars, writeVars, loopVars, loginVars>>
LoginOnly == part = "login" /\ UNCHANGED <<part, vars, parseVars, writeVars, loopVars, dbVars>>

AllSpec == AllInit /\ [][AllNext]_allVars
  /\ WF_vars(Running) /\ WF_vars(Drain)
  /\ WF_allVars(LoopOnly /\ Epoll!Loop)
  /\ WF_allVars(LoopOnly /\ Epoll!KeepAlive)
  /\ WF_allVars(LoopOnly /\ Epoll!Tick)
  /\ \A m \in Mysqls : WF_allVars(DbOnly /\ Queries!Event(m)) /\ WF_allVars(DbOnly /\ Queries!Responds(m))
  /\ WF_allVars(LoginOnly /\ Logins!Tick) /\ WF_allVars(LoginOnly /\ Logins!SendReport)
  /\ \A t \in Trss : /\ WF_allVars(LoginOnly /\ Logins!SendLogin(t)) /\ WF_allVars(LoginOnly /\ Logins!GotLogin(t))
                   /\ WF_allVars(LoginOnly /\ Logins!Forget(t))

------------------------------------------------------------------------------
(* Properties *)

\* HttpParse: the body of a request reaches the handler whole, in order, and its end
\* behind it.
BodiesWhole == Parser!Delivered /\ Parser!InOrder

\* HttpWrite: what the answers promised leaves in their order, each answer ends
\* behind its last byte, and a file is open exactly as long as a task has it.
AnswersWhole == Writer!InOrder /\ Writer!EndsWritten /\ Writer!FilesClosed

\* MySql: the connections are lent out one at a time, results are read to their
\* end, and the end of a query is told once.
QueriesSound == Queries!QueriesSound

\* Login: a TRS that serves stays known to the FOSS, although logins are lost.
StaysKnown == Logins!TypeOK /\ Logins!StaysKnown

\* HttpConn, EventLoop, MySql and Login: an answer is written or its connection ends;
\* the loop comes back to epoll_wait and due timers run; a query ends and the pool is
\* filled; a TRS that went away is forgotten.
EndsInTime ==
  /\ AnswerWritten
  /\ Epoll!LoopTurns /\ Epoll!DueRuns
  /\ part = "db" => Queries!QueriesTold
  /\ Logins!Forgotten

==============================================================================
