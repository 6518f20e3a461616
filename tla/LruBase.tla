------------------------------ MODULE LruBase ------------------------------
(***************************************************************************)
(* The parameters shared by the LRU cache models of 01-basics.             *)
(***************************************************************************)
EXTENDS RecencyList

CONSTANTS Keys,       \* the page identifiers (PageId, KeyT)
          Pages,      \* what a loader may return (Page, T)
          NoPage,     \* no page is held
          Capacities  \* lru_create's capacity, cache_t's sz

ASSUME CapacityAssumption == Capacities \subseteq Nat
ASSUME NoPageAssumption == NoPage \notin Pages
=============================================================================
