------------------------------- MODULE EntryMap -------------------------------
(***************************************************************************)
(* What the list is for: a map in which every key has at most one entry.   *)
(* An entry is put where its key has none, is taken once, and never comes  *)
(* back.  insert over a present key is a take followed by a put: the key   *)
(* may be seen without an entry in between.                                *)
(***************************************************************************)
CONSTANTS
    Key,        \* the keys
    Entry,      \* the entries: the nodes of the list
    None        \* no entry

VARIABLES
    entry,      \* the entry of each key, or None
    spent       \* the entries that have been put, whether or not taken since

Init ==
    /\ entry = [k \in Key |-> None]
    /\ spent = {}

Put(k) ==
    /\ entry[k] = None
    /\ \E e \in Entry \ spent :
          /\ entry' = [entry EXCEPT ![k] = e]
          /\ spent' = spent \cup {e}

Take(k) ==
    /\ entry[k] # None
    /\ entry' = [entry EXCEPT ![k] = None]
    /\ UNCHANGED spent

Next == \E k \in Key : Put(k) \/ Take(k)

Spec == Init /\ [][Next]_<<entry, spent>>

=============================================================================
