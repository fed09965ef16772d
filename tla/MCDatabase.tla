------------------------------- MODULE MCDatabase -------------------------------
(* TLC instances of what asks the database: the trees of queries of a TRS         *)
(* (TrsQuery, part "trees") and the requests of the FOSS (Foss, part "foss").  Each  *)
(* program has a pool of its own; they share no state, and part names the one that   *)
(* a behaviour works.                                                             *)
EXTENDS TrsQuery, TLC

CONSTANTS
  Parts, \* the modules that the behaviours of a run work
  Trss, Stbs, Phones, MaxNumber \* of Foss

VARIABLES
  part, \* the module that a behaviour works
  fNumber, fOpen, fFree, fQuery, fBusy, fHome, fLink, fTold, fSpoiled, fRaced, fStale,
  fUndefined

Symmetry == Permutations(Conns) \cup Permutations(Mysqls)

Registry == INSTANCE Foss WITH
  Trss <- Trss, Stbs <- Stbs, Phones <- Phones, Conns <- Conns, Mysqls <- Mysqls,
  None <- None, MaxNumber <- MaxNumber, number <- fNumber, open <- fOpen,
  free <- fFree, query <- fQuery, busy <- fBusy, home <- fHome, link <- fLink,
  told <- fTold, spoiled <- fSpoiled, raced <- fRaced, stale <- fStale,
  undefined <- fUndefined

fossVars == <<fNumber, fOpen, fFree, fQuery, fBusy, fHome, fLink, fTold, fSpoiled,
              fRaced, fStale, fUndefined>>

allVars == <<part, vars, fossVars>>

AllInit ==
  /\ part \in Parts
  /\ part # "foss" => fLink = [p \in Phones |-> None]
  /\ Init /\ Registry!Init

AllNext ==
  /\ UNCHANGED part
  /\ \/ part = "trees" /\ Next
        /\ UNCHANGED fossVars
     \/ part = "foss" /\ Registry!Next
        /\ UNCHANGED vars

TreesOnly == part = "trees" /\ UNCHANGED <<part, fossVars>>
FossOnly == part = "foss" /\ UNCHANGED <<part, vars>>

AllSpec == AllInit /\ [][AllNext]_allVars
FairAllSpec ==
  /\ AllSpec
  /\ \A m \in Mysqls :
       /\ WF_allVars(TreesOnly /\ ~undefined /\ Ends(m) /\ UNCHANGED again)
       /\ WF_allVars(/\ FossOnly /\ ~fUndefined
                     /\ Registry!Run(m) \/ Registry!Silent(m) \/ Registry!Fails(m)
                     /\ UNCHANGED fUndefined)
       /\ WF_allVars(FossOnly /\ ~fUndefined /\ Registry!Callback(m) /\ UNCHANGED fUndefined)

------------------------------------------------------------------------------
(* Properties *)

\* Foss: a client is answered, and a connection comes back to its pool.
Served == Registry!Served

==============================================================================
