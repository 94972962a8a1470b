----------------------------- MODULE InternTable -----------------------------
(***************************************************************************)
(* What the tables below the walk promise it: a map from keys to values    *)
(* with one operation, which answers with the value the key already has or *)
(* says that the key is new and files it.  hash_si, hash_si_ptr and        *)
(* find-or-add on Zend tables are three implementations.                   *)
(***************************************************************************)
CONSTANTS Key, Value,
          Absent      \* the answer that says a key is new, no value

VARIABLES table,      \* a set of pairs << key, value >>
          answer      \* the last call: its key, and what it found

vars == << table, answer >>

Init == table = {} /\ answer = << >>

Find(k) == \E v \in Value : /\ << k, v >> \in table
                            /\ answer' = << k, v >>
                            /\ UNCHANGED table
Insert(k) == /\ \A w \in Value : << k, w >> \notin table
             /\ answer' = << k, Absent >>
             /\ \E v \in Value : table' = table \cup {<< k, v >>}
Free == table' = {} /\ UNCHANGED answer

Next == Free \/ \E k \in Key : Find(k) \/ Insert(k)

Spec == Init /\ [][Next]_vars
=============================================================================
