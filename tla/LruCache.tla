------------------------------ MODULE LruCache ------------------------------
(***************************************************************************)
(* What the library promises of its bounded cache (sml_ann.h: "This cache  *)
(* implements the LRU algorithm so, neural networks that were not recent   *)
(* used will be deleted"): a set of entries, each with the time of its     *)
(* last use.  Whenever room has to be made, the entries that go are the    *)
(* ones used least recently.  How the entries are stored is not said here: *)
(* SmlCache is the implementation, a vector ordered by use.                *)
(***************************************************************************)
EXTENDS Naturals, FiniteSets

CONSTANTS Elements,      \* the pointers a client may hand to the cache
          Capacities     \* the capacities it may be given; 0 is "no bound"

VARIABLES entries,       \* the entries held
          lastUse,       \* when each of them was last inserted or hit
          capacity,
          now            \* a clock, advanced by every use

lruVars == <<entries, lastUse, capacity, now>>

\* e is used now.
Touched(e) == /\ now' = now + 1
              /\ lastUse' = [lastUse EXCEPT ![e] = now]

\* kept is what is left of the entries when only n may stay.
KeepsMostRecent(kept, n) ==
    /\ kept \subseteq entries
    /\ Cardinality(kept) = IF Cardinality(entries) > n THEN n
                                                     ELSE Cardinality(entries)
    /\ \A old \in entries \ kept, new \in kept : lastUse[old] < lastUse[new]

Full == capacity # 0 /\ Cardinality(entries) = capacity

LruInit == /\ entries = {}
           /\ lastUse = [e \in Elements |-> 0]
           /\ capacity \in Capacities
           /\ now = 1

\* Room is made first; the insertion itself may fail for lack of memory.
Insert(e) ==
    /\ e \notin entries
    /\ \E kept \in SUBSET entries :
          /\ IF Full THEN KeepsMostRecent(kept, capacity - 1)
                     ELSE kept = entries
          /\ \/ entries' = kept \cup {e} /\ Touched(e)
             \/ entries' = kept /\ UNCHANGED <<lastUse, now>>
    /\ UNCHANGED capacity

Hit(e) == /\ e \in entries
          /\ Touched(e)
          /\ UNCHANGED <<entries, capacity>>

Drop(gone) == /\ entries' = entries \ gone
              /\ UNCHANGED <<lastUse, capacity, now>>

Resize(n) == /\ capacity' = n
             /\ \E kept \in SUBSET entries :
                   /\ KeepsMostRecent(kept, n)
                   /\ entries' = kept
             /\ UNCHANGED <<lastUse, now>>

LruNext == \/ \E e \in Elements : Insert(e) \/ Hit(e) \/ Drop({e})
           \/ Drop(entries)
           \/ \E n \in Capacities \ {0} : Resize(n)

LruSpec == LruInit /\ [][LruNext]_lruVars
=============================================================================
