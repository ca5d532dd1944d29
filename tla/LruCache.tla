------------------------------ MODULE LruCache ------------------------------
(***************************************************************************)
(* What a least-recently-used cache promises, independently of how the     *)
(* order of use is stored: an entry that is read or written becomes the    *)
(* youngest, and an entry is dropped only to make room for a new key, when *)
(* the cache is full, and it is then the oldest one.  Capacity 0 stands    *)
(* for a cache that never drops anything.                                  *)
(***************************************************************************)
EXTENDS Naturals, FiniteSets

CONSTANTS
    Keys,       \* the keys entries are stored under
    Entries,    \* the entries; entry.id is the key of an entry
    Capacity    \* how many entries fit; 0 means no limit

VARIABLES
    contents,   \* the cached entries, by key
    older       \* <<a, b>> \in older: key a was used less recently than b

lruVars == <<contents, older>>

\* `older' once key k, one of the keys ks, is the one used last.
Youngest(k, ks) ==
    {p \in older : p[1] \in ks \ {k} /\ p[2] \in ks \ {k}}
        \cup {<<a, k>> : a \in ks \ {k}}

\* The keys that have to go before a new one comes in: none, or the oldest.
Dropped ==
    {k \in DOMAIN contents :
        /\ Capacity > 0
        /\ Cardinality(DOMAIN contents) >= Capacity
        /\ \A a \in DOMAIN contents : <<a, k>> \notin older}

Init ==
    /\ contents = [k \in {} |-> {}]
    /\ older = {}

Read(k) ==
    /\ k \in DOMAIN contents
    /\ older' = Youngest(k, DOMAIN contents)
    /\ UNCHANGED contents

Overwrite(e) ==
    /\ e.id \in DOMAIN contents
    /\ contents' = [contents EXCEPT ![e.id] = e]
    /\ older' = Youngest(e.id, DOMAIN contents)

Add(e) ==
    /\ e.id \notin DOMAIN contents
    /\ LET keys == (DOMAIN contents \ Dropped) \cup {e.id}
       IN  /\ contents' = [k \in keys |-> IF k = e.id THEN e ELSE contents[k]]
           /\ older' = Youngest(e.id, keys)

Next ==
    \/ \E k \in Keys : Read(k)
    \/ \E e \in Entries : Overwrite(e) \/ Add(e)

Spec == Init /\ [][Next]_lruVars

=============================================================================
