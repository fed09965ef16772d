------------------------------- MODULE MCLibrary -------------------------------
(* TLC instances of the library behind the servers: the pool of blocks (MPool),  *)
(* the trees (RbTree), the journal of files (FileMgr) and the log server            *)
(* (LogServer); documents of XML (Xml); what the database keeps of what a TRS was    *)
(* told (Records); and the stream that yms keeps of a channel (LiveStore).  They     *)
(* share no state; part names the one that a behaviour works.                                                              *)
EXTENDS MPool, TLC

CONSTANTS c1, c2, c3, p, q, b1, b2, i1, None

VARIABLES
  part, \* the module that a behaviour works
  tTree, tWithin, tRet, jJournal, jRoot, jUp, jStarts, jAdding, jTorn, jDone, jDeleted,
  jGarbage, xDoc, xNodes, xCurr, lFds, lDisk, lOld, lOrder, lNow, lPosted, lAnswers,
  lClash, lCrashes, rRows, rAsked, rSinfo, rCommand, rStb, rFoss, vSfrag, vSfrags,
  vFlights, vCh, vM3u8, vLate, vRagged, vFails, vStarts

Trees == INSTANCE RbTree WITH
  Nodes <- 1 .. 8, Key <- [x \in 1 .. 8 |-> (x + 1) \div 2], Null <- 0, tree <- tTree,
  within <- tWithin, ret <- tRet

Files == INSTANCE FileMgr WITH
  Keys <- {0, 1}, MaxFields <- 10, MaxStarts <- 2, journal <- jJournal, root <- jRoot,
  up <- jUp, starts <- jStarts, adding <- jAdding, torn <- jTorn, done <- jDone,
  deleted <- jDeleted, garbage <- jGarbage

Document == INSTANCE Xml WITH
  Names <- {1, 2}, Attr <- [n \in {1, 2} |-> IF n = 1 THEN <<>> ELSE [id |-> n]],
  Pieces <- {<<"a">>, <<"b", "_">>}, Blank <- "_", None <- None, Room <- 3,
  MaxEvents <- 7, doc <- xDoc, nodes <- xNodes, curr <- xCurr

Logs == INSTANCE LogServer WITH
  Clients <- {c1, c2, c3}, Paths <- {p, q},
  Path <- (c1 :> p) @@ (c2 :> p) @@ (c3 :> q), Parts <- 2, Limit <- 2, MaxFiles <- 1,
  MaxTime <- 1, MaxCrash <- 1, fds <- lFds, disk <- lDisk, old <- lOld,
  order <- lOrder, now <- lNow, posted <- lPosted, answers <- lAnswers,
  clash <- lClash, crashes <- lCrashes

Kept == INSTANCE Records WITH
  None <- None, Whos <- {b1, b2}, Items <- {i1}, Versions <- {1},
  Lacking <- {{}, {"title", "serial", "uid", "mobile"}}, MaxRows <- 1, rows <- rRows,
  asked <- rAsked, sinfo <- rSinfo, command <- rCommand, stb <- rStb, foss <- rFoss

Live == INSTANCE LiveStore WITH
  Source <- [i \in 1 .. 4 |-> <<"pat", "pmt", "key", "other", "key">>], Window <- 2,
  Part <- 3, Strays <- {"key", "other"}, GopSize <- 2, TFragSize <- 1, Packet <- 2,
  Block <- 3, BlockNum <- 10, RecdSize <- 8, None <- None, MaxFlights <- 2,
  MaxFails <- 1, MaxStarts <- 2, sfrag <- vSfrag, sfrags <- vSfrags,
  flights <- vFlights, ch <- vCh, m3u8 <- vM3u8, late <- vLate, ragged <- vRagged,
  fails <- vFails, starts <- vStarts

Parts == {"pool", "tree", "journal", "xml", "logs", "records", "channel"}

treeVars == <<tTree, tWithin, tRet>>
journalVars == <<jJournal, jRoot, jUp, jStarts, jAdding, jTorn, jDone, jDeleted,
                 jGarbage>>
xmlVars == <<xDoc, xNodes, xCurr>>
logsVars == <<lFds, lDisk, lOld, lOrder, lNow, lPosted, lAnswers, lClash, lCrashes>>
recordsVars == <<rRows, rAsked, rSinfo, rCommand, rStb, rFoss>>
channelVars == <<vSfrag, vSfrags, vFlights, vCh, vM3u8, vLate, vRagged, vFails, vStarts>>

allVars == <<part, vars, treeVars, journalVars, xmlVars, logsVars, recordsVars, channelVars>>

AllInit ==
  /\ part \in Parts
  /\ Init /\ Trees!Init /\ Files!Init /\ Document!Init /\ Logs!Init /\ Kept!Init /\ Live!Init

AllNext ==
  /\ UNCHANGED part
  /\ \/ part = "pool" /\ Next
        /\ UNCHANGED <<treeVars, journalVars, xmlVars, logsVars, recordsVars, channelVars>>
     \/ part = "tree" /\ Trees!Next
        /\ UNCHANGED <<vars, journalVars, xmlVars, logsVars, recordsVars, channelVars>>
     \/ part = "journal" /\ Files!Next
        /\ UNCHANGED <<vars, treeVars, xmlVars, logsVars, recordsVars, channelVars>>
     \/ part = "xml" /\ Document!Next
        /\ UNCHANGED <<vars, treeVars, journalVars, logsVars, recordsVars, channelVars>>
     \/ part = "logs" /\ Logs!Next
        /\ UNCHANGED <<vars, treeVars, journalVars, xmlVars, recordsVars, channelVars>>
     \/ part = "records" /\ Kept!Next
        /\ UNCHANGED <<vars, treeVars, journalVars, xmlVars, logsVars, channelVars>>
     \/ part = "channel" /\ Live!Next
        /\ UNCHANGED <<vars, treeVars, journalVars, xmlVars, logsVars, recordsVars>>

AllSpec == AllInit /\ [][AllNext]_allVars

------------------------------------------------------------------------------
(* Properties *)

\* RbTree: red-black balance after any insertions, deletions and replacements, the
\* same nodes on the walks in every direction, and searches that find them.
\* Xml: the tree built of a document has its elements and texts, each found by its path.
TreeSound ==
  /\ part = "tree" => Trees!TypeOK /\ Trees!Balanced /\ Trees!WalksAgree /\ Trees!Finds
  /\ part = "xml" => Document!XmlSound

\* RbTree: the tree implements KeyOrder.
KeepsOrder == Trees!KeepsOrder

\* FileMgr: after a restart what was added is found, and nothing else; only the
\* last record can be incomplete.  LogServer: what was answered is stored.  LiveStore: what a channel lists can be served, the stream it stores and
\* records is the source's, and no block is given up that holds something not yet
\* recorded.  Records: what is listed, told and stored is what the requests said.
StoresKept ==
  /\ part = "journal" => Files!Durable /\ Files!NothingElse /\ Files!OnlyTorn
  /\ part = "logs" => Logs!TypeOK /\ Logs!Stored
  /\ part = "channel" => Live!LiveSound
  /\ part = "records" => Kept!RecordsKept

==============================================================================
