-------------------------------- MODULE FileMgr --------------------------------
(****************************************************************************)
(* rns_fmgr.c: the recordings of a channel, by the offset they begin at.  A    *)
(* tree in memory, and a journal to which rns_fmgr_add writes the offset, the  *)
(* length of the name and the name in three writes; rns_fmgr_load reads it     *)
(* when the program starts again.                                           *)
(****************************************************************************)
EXTENDS Integers, Sequences, FiniteSets, SequencesExt

CONSTANTS
  Keys,      \* offsets
  MaxFields, \* bound on the journal
  MaxStarts  \* bound on the starts of the program

VARIABLES
  journal, \* fields written, in order: [kind, key]
  root,    \* keys in the tree, with how often: rbt_insert takes equal keys
  up,      \* the program runs
  starts,
  adding,  \* the key rns_fmgr_add is writing, and the next field of it, or <<>>
  torn,    \* a record of the journal is incomplete
  done,    \* keys whose rns_fmgr_add returned a recording, in order:
           \* [key, clean], clean if no record before was incomplete
  deleted, \* keys deleted since the program started
  garbage  \* the tree holds what was read from behind an incomplete record

vars == <<journal, root, up, starts, adding, torn, done, deleted, garbage>>

Fields == <<"key", "len", "name">>
Records == Len(journal) \div 3

Init ==
  /\ journal = <<>> /\ root = [k \in Keys |-> 0] /\ up = FALSE /\ starts = 0
  /\ adding = <<>> /\ torn = FALSE /\ done = <<>> /\ deleted = {} /\ garbage = FALSE

\* The records rns_fmgr_load finds before the first incomplete one.
Whole == {r \in 1 .. Records :
            \A i \in 1 .. 3 * r : journal[i].kind = Fields[((i - 1) % 3) + 1]}

\* Faulty variant of Load: the last record is taken for the end.
LoadShort ==
  /\ ~up /\ starts < MaxStarts
  /\ up' = TRUE /\ starts' = starts + 1
  /\ root' = [k \in Keys |-> Cardinality({r \in Whole : r < Records /\ journal[3 * r].key = k})]
  /\ garbage' = (Len(journal) # 3 * Cardinality(Whole))
  /\ deleted' = {}
  /\ UNCHANGED <<journal, adding, torn, done>>

\* rns_fmgr_load: what follows an incomplete record is read out of step.
Load ==
  /\ ~up /\ starts < MaxStarts
  /\ up' = TRUE /\ starts' = starts + 1
  /\ root' = [k \in Keys |-> Cardinality({r \in Whole : journal[3 * r].key = k})]
  /\ garbage' = (Len(journal) # 3 * Cardinality(Whole))
  /\ deleted' = {}
  /\ UNCHANGED <<journal, adding, torn, done>>

\* rns_fmgr_add opens the recording, truncated, and begins to write.
AddBegins(k) ==
  /\ up /\ adding = <<>> /\ Len(journal) + 3 <= MaxFields
  /\ adding' = <<k, 1>>
  /\ UNCHANGED <<journal, root, up, starts, torn, done, deleted, garbage>>

\* Faulty variant of AddWrites: the recording is returned before its name is
\* in the journal.
AddWritesEarly ==
  /\ up /\ adding # <<>>
  /\ journal' = Append(journal, [kind |-> Fields[adding[2]], key |-> adding[1]])
  /\ IF adding[2] < 3
       THEN adding' = <<adding[1], adding[2] + 1>>
       ELSE adding' = <<>>
  /\ IF adding[2] = 1
       THEN /\ root' = [root EXCEPT ![adding[1]] = @ + 1]
            /\ done' = Append(done, [key |-> adding[1], clean |-> ~torn])
            /\ deleted' = deleted \ {adding[1]}
       ELSE UNCHANGED <<root, done, deleted>>
  /\ UNCHANGED <<up, starts, torn, garbage>>

\* Faulty variant of AddWrites: the name goes in front of its length.
AddWritesSwapped ==
  /\ up /\ adding # <<>>
  /\ journal' = Append(journal, [kind |-> <<"key", "name", "len">>[adding[2]], key |-> adding[1]])
  /\ adding' = IF adding[2] < 3 THEN <<adding[1], adding[2] + 1>> ELSE <<>>
  /\ root' = IF adding[2] < 3 THEN root ELSE [root EXCEPT ![adding[1]] = @ + 1]
  /\ done' = IF adding[2] < 3 THEN done ELSE Append(done, [key |-> adding[1], clean |-> ~torn])
  /\ deleted' = IF adding[2] < 3 THEN deleted ELSE deleted \ {adding[1]}
  /\ UNCHANGED <<up, starts, torn, garbage>>

\* The three writes of rns_fmgr_add, and rbt_insert behind the last.
AddWrites ==
  /\ up /\ adding # <<>>
  /\ journal' = Append(journal, [kind |-> Fields[adding[2]], key |-> adding[1]])
  /\ IF adding[2] < 3
       THEN /\ adding' = <<adding[1], adding[2] + 1>>
            /\ UNCHANGED <<root, done, deleted>>
       ELSE /\ adding' = <<>>
            /\ root' = [root EXCEPT ![adding[1]] = @ + 1]
            /\ done' = Append(done, [key |-> adding[1], clean |-> ~torn])
            /\ deleted' = deleted \ {adding[1]}
  /\ UNCHANGED <<up, starts, torn, garbage>>

\* Faulty variant of AddFails: the recording is in the tree before the journal
\* is written.
AddFailsInserted ==
  /\ up /\ adding # <<>>
  /\ adding' = <<>>
  /\ root' = [root EXCEPT ![adding[1]] = @ + 1]
  /\ torn' = (torn \/ adding[2] > 1)
  /\ UNCHANGED <<journal, up, starts, done, deleted, garbage>>

\* A write fails: rns_fmgr_add returns NULL, and what it has written stays.
AddFails ==
  /\ up /\ adding # <<>>
  /\ adding' = <<>>
  /\ torn' = (torn \/ adding[2] > 1)
  /\ UNCHANGED <<journal, root, up, starts, done, deleted, garbage>>

\* rns_fmgr_del: the tree only
Del(k) ==
  /\ up /\ adding = <<>> /\ root[k] > 0
  /\ root' = [root EXCEPT ![k] = @ - 1]
  /\ deleted' = deleted \cup {k}
  /\ UNCHANGED <<journal, up, starts, adding, torn, done, garbage>>

Crash ==
  /\ up /\ up' = FALSE
  /\ torn' = (torn \/ (adding # <<>> /\ adding[2] > 1))
  /\ adding' = <<>>
  /\ UNCHANGED <<journal, root, starts, done, deleted, garbage>>

Next ==
  \/ Load \/ AddWrites \/ AddFails \/ Crash
  \/ \E k \in Keys : AddBegins(k) \/ Del(k)

Spec == Init /\ [][Next]_vars

------------------------------------------------------------------------------
(* Properties *)

\* A recording that rns_fmgr_add returned is found after every restart, also
\* when it was deleted before, unless a record in front of it in the journal is
\* incomplete: such a record costs all that follow, not those before.
Durable ==
  up => \A i \in DOMAIN done :
          (done[i].clean /\ done[i].key \notin deleted) => root[done[i].key] > 0

\* Nothing else is found, unless the journal was read out of step.
NothingElse ==
  (up /\ ~garbage) => \A k \in Keys :
     root[k] <= Cardinality({i \in DOMAIN done : done[i].key = k})

\* The journal is read out of step only if a write failed, or the program ended,
\* between the writes of one record.
OnlyTorn == garbage => torn
==============================================================================
