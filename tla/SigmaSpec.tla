------------------------------ MODULE SigmaSpec -----------------------------
(***************************************************************************)
(* What the matcher promises: for each event, the rules in scope whose     *)
(* condition holds on it, each reported once.  No scratch, no prefilter,   *)
(* no memory of earlier events, and every condition evaluated in full.     *)
(***************************************************************************)
EXTENDS Integers, FiniteSets, Sequences, SequencesExt

CONSTANTS
  Dbs,              \* the databases that may be loaded
  NoDb,             \* none is
  Events,           \* set of events: functions from field names to words
  MaxHitsOf,        \* the sizes of the out array callers pass
  NoCall,           \* nothing evaluated yet
  InScope(_, _),    \* the rules of a database that concern an event
  Matches(_, _, _)  \* a database's rule holds on an event

VARIABLES
  db,     \* the database loaded, or NoDb
  call,   \* the last evaluation: the event, whether linear, the size of out
  fired,  \* what the last evaluation returned
  out     \* the rules it put into the out array

Calls == [event : Events, linear : BOOLEAN, max : MaxHitsOf]

Unreported == call' = NoCall /\ fired' = 0 /\ out' = <<>>

Init == db = NoDb /\ call = NoCall /\ fired = 0 /\ out = <<>>

Load == db = NoDb /\ db' \in Dbs /\ Unreported

Free == db # NoDb /\ db' = NoDb /\ Unreported

\* What a call returns: the count of all the rules, and as many as fit in out.
Report(hits, max) ==
  /\ fired' = Cardinality(hits)
  /\ ToSet(out') \subseteq hits
  /\ Cardinality(ToSet(out')) = Len(out')
  /\ Len(out') = IF Cardinality(hits) < max THEN Cardinality(hits) ELSE max

Evaluate ==
  /\ db # NoDb
  /\ call' \in Calls
  /\ LET scope == IF call'.linear THEN DOMAIN db.rules ELSE InScope(db, call'.event)
     IN Report({r \in scope : Matches(db, call'.event, r)}, call'.max)
  /\ UNCHANGED db

Next == Load \/ Free \/ Evaluate

Spec == Init /\ [][Next]_<<db, call, fired, out>>
=============================================================================
