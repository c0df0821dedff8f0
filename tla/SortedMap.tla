------------------------------- MODULE SortedMap -------------------------------
(***************************************************************************)
(* What a sequential skip list promises its caller: a map ordered by key.  *)
(* Every operation is one step.                                            *)
(***************************************************************************)
EXTENDS Integers, FiniteSets, Sequences

CONSTANTS
    Key,        \* the keys, ordered by <
    Value,      \* the values
    None        \* no value

VARIABLES
    value,      \* the value of each key, or None
    asked,      \* the last operation that was called, with its arguments
    answer      \* what it returned: no, one or several values or entries

Present == {k \in Key : value[k] # None}

(* The keys of S in order, and the first and the last of them.             *)
InOrder(S) ==
    CHOOSE q \in [1 .. Cardinality(S) -> S] :
        \A i, j \in DOMAIN q : i < j => q[i] < q[j]

First(S) == IF S = {} THEN <<>> ELSE <<InOrder(S)[1]>>
Last(S)  == IF S = {} THEN <<>> ELSE <<InOrder(S)[Cardinality(S)]>>

Entries(keys) == [i \in DOMAIN keys |-> <<keys[i], value[keys[i]]>>]

Return(call, values) == asked' = call /\ answer' = values

Init ==
    /\ value = [k \in Key |-> None]
    /\ asked = <<"new">>
    /\ answer = <<>>

(* The value replaced, if there was one.                                   *)
Insert(k, v) ==
    /\ Return(<<"insert", k, v>>, IF k \in Present THEN <<value[k]>> ELSE <<>>)
    /\ value' = [value EXCEPT ![k] = v]

(* The value that was not needed, if the key had one.                      *)
InsertConditionally(k, v) ==
    /\ Return(<<"insert_conditionally", k, v>>, IF k \in Present THEN <<v>> ELSE <<>>)
    /\ value' = [value EXCEPT ![k] = IF @ = None THEN v ELSE @]

Remove(k) ==
    /\ Return(<<"remove", k>>, Entries(First(Present \cap {k})))
    /\ value' = [value EXCEPT ![k] = None]

RemoveFirst ==
    /\ Return(<<"remove_first">>, Entries(First(Present)))
    /\ value' = [k \in Key |-> IF First(Present) = <<k>> THEN None ELSE value[k]]

(* The ways to look up entries, and the keys each of them finds.           *)
Lookup ==
    {<<"get", k>> : k \in Key}
        \cup {<<"get_first">>, <<"get_last">>, <<"iter">>, <<"traverse_with">>}

Found(call) ==
    CASE call[1] = "get"       -> First(Present \cap {call[2]})
      [] call[1] = "get_first" -> First(Present)
      [] call[1] = "get_last"  -> Last(Present)
      [] OTHER                 -> InOrder(Present)

Read ==
    \E call \in Lookup :
        /\ Return(call, Entries(Found(call)))
        /\ UNCHANGED value

Write ==
    \E call \in Lookup, v \in Value :
        /\ Return(call \o <<v>>, Entries(Found(call)))
        /\ value' = [k \in Key |->
                        IF \E i \in DOMAIN Found(call) : k = Found(call)[i]
                          THEN v ELSE value[k]]

Next ==
    \/ \E k \in Key, v \in Value : Insert(k, v) \/ InsertConditionally(k, v)
    \/ \E k \in Key : Remove(k)
    \/ RemoveFirst \/ Read \/ Write

Spec == Init /\ [][Next]_<<value, asked, answer>>

=============================================================================
