------------------------------ MODULE MemPool ------------------------------
(***************************************************************************)
(* The fixed-size allocator of src/memory-pool/mem_pool.c.  A slot hands   *)
(* out chunks of one size; it carves them out of stocks, blocks of         *)
(* chunk_count chunks from posix_memalign.  A pool has one slot for each   *)
(* size class, a cache is a pool with one slot.                            *)
(*                                                                         *)
(* Calls are atomic: they hold the pool's lock, or the pool is used by one *)
(* thread.  A stock is its address, a chunk is a stock and an index.       *)
(***************************************************************************)
EXTENDS Integers, Sequences, FiniteSets, SequencesExt

CONSTANTS Stock,        \* addresses posix_memalign may return
          slot_count, chunk_count, start_size, diff_size,
          Size          \* the sizes asked for

ASSUME MemPoolAssumption ==
    /\ slot_count \in Nat \ {0} /\ chunk_count \in Nat \ {0}
    /\ start_size \in Nat /\ diff_size \in Nat \ {0}
    /\ Size \subseteq 0..(slot_count * diff_size - 1)
    /\ start_size >= diff_size - 1

Slot == 0..(slot_count - 1)

VARIABLES heap,       \* stocks got from posix_memalign and not freed
          slot,       \* the slot of each stock
          index,      \* chunks of a stock handed out at least once
          recycle,    \* the free chunks among them, last freed first
          recycnt,
          onrbt,      \* the stocks chunk_free can find
          free_head, full_head,
          held,       \* chunks the callers have
          cache,      \* mem_cache_create was called, not mem_pool_create
          destroyed

vars == <<heap, slot, index, recycle, recycnt, onrbt, free_head, full_head,
          held, cache, destroyed>>

\* The slots in use: a cache has one.
Used == IF cache THEN {0} ELSE Slot

\* stock_slot_init has given every slot its first stock.
Init ==
    /\ cache \in BOOLEAN
    /\ \E first \in [Used -> Stock] :
          /\ IsInjective(first)
          /\ heap = Range(first) /\ onrbt = Range(first)
          /\ free_head = [s \in Slot |-> IF s \in Used THEN <<first[s]>> ELSE <<>>]
          /\ slot = [k \in Stock |-> IF k \in Range(first)
                                     THEN CHOOSE s \in Used : first[s] = k ELSE 0]
    /\ full_head = [s \in Slot |-> <<>>]
    /\ index = [k \in Stock |-> 0] /\ recycnt = [k \in Stock |-> 0]
    /\ recycle = [k \in Stock |-> <<>>]
    /\ held = {} /\ destroyed = FALSE

Without(list, k) == SelectSeq(list, LAMBDA m : m # k)

stock_exhausted(k) == index[k] = chunk_count /\ recycle[k] = <<>>

\* A plausible slip: a stock is full when every chunk has been handed out once.
ExhaustedByIndex(i, rec) == i = chunk_count

ExhaustedAfter(i, rec) == i = chunk_count /\ rec = <<>>

\* The first stock of the slot gives a recycled chunk, or else its next new
\* one, and changes lists when that was its last.
Carve(s, k, list) ==
    LET c    == IF recycle[k] # <<>> THEN Head(recycle[k]) ELSE index[k]
        rec  == IF recycle[k] # <<>> THEN Tail(recycle[k]) ELSE <<>>
        next == IF recycle[k] # <<>> THEN index[k] ELSE index[k] + 1
        full == ExhaustedAfter(next, rec)
    IN  /\ held' = held \cup {<<k, c>>}
        /\ recycle' = [recycle EXCEPT ![k] = rec]
        /\ recycnt' = [recycnt EXCEPT ![k] = IF recycle[k] # <<>> THEN @ - 1 ELSE @]
        /\ index' = [index EXCEPT ![k] = next]
        /\ free_head' = [free_head EXCEPT ![s] = IF full THEN Without(list, k) ELSE list]
        /\ full_head' = [full_head EXCEPT ![s] = IF full THEN <<k>> \o @ ELSE @]

\* chunk_alloc, with stock_alloc when no stock has a chunk left.  A failing
\* posix_memalign returns NULL and changes nothing.
chunk_alloc(s) ==
    /\ ~ destroyed
    /\ \/ /\ free_head[s] # <<>>
          /\ Carve(s, Head(free_head[s]), free_head[s])
          /\ UNCHANGED <<heap, slot, onrbt>>
       \/ /\ free_head[s] = <<>>
          /\ \E k \in Stock \ heap :
                /\ heap' = heap \cup {k} /\ onrbt' = onrbt \cup {k}
                /\ slot' = [slot EXCEPT ![k] = s]
                /\ Carve(s, k, <<k>>)
    /\ UNCHANGED <<cache, destroyed>>


SlotOf(size) == size \div diff_size

mem_pool_alloc(size) ==
    ~ cache /\ SlotOf(size) \in Slot /\ chunk_alloc(SlotOf(size))

mem_cache_alloc == cache /\ chunk_alloc(0)

\* A released stock leaves its list and the tree, and forgets its chunks.
Release(k, list) ==
    /\ heap' = heap \ {k} /\ onrbt' = onrbt \ {k}
    /\ free_head' = [free_head EXCEPT ![slot[k]] = Without(list, k)]
    /\ slot' = [slot EXCEPT ![k] = 0]
    /\ index' = [index EXCEPT ![k] = 0]
    /\ recycnt' = [recycnt EXCEPT ![k] = 0]
    /\ recycle' = [recycle EXCEPT ![k] = <<>>]

\* All its chunks are back, and it is not the only stock of the free list.
Surplus(k, list) == recycnt[k] + 1 = index[k] /\ Len(list) >= 2

Recycled(k, c) == <<c>> \o recycle[k]

\* chunk_free of a chunk the caller has.
chunk_free(k, c) ==
    LET s    == slot[k]
        list == IF stock_exhausted(k) THEN <<k>> \o free_head[s] ELSE free_head[s]
    IN  /\ ~ destroyed /\ <<k, c>> \in held /\ k \in onrbt
        /\ held' = held \ {<<k, c>>}
        /\ full_head' = IF stock_exhausted(k)
                        THEN [full_head EXCEPT ![s] = Without(@, k)] ELSE full_head
        /\ \/ /\ Surplus(k, list)
              /\ Release(k, list)
           \/ /\ ~ Surplus(k, list)
              /\ free_head' = [free_head EXCEPT ![s] = list]
              /\ recycnt' = [recycnt EXCEPT ![k] = @ + 1]
              /\ recycle' = [recycle EXCEPT ![k] = Recycled(k, c)]
              /\ UNCHANGED <<heap, slot, onrbt, index>>
        /\ UNCHANGED <<cache, destroyed>>

\* mem_pool_destroy and mem_cache_destroy free what the lists hold; the callers
\* have no use for their chunks any more.
mem_pool_destroy ==
    /\ ~ destroyed /\ destroyed' = TRUE
    /\ heap' = heap \ UNION {Range(full_head[s]) \cup Range(free_head[s]) : s \in Slot}
    /\ held' = {}
    /\ UNCHANGED <<slot, index, recycle, recycnt, onrbt, free_head, full_head,
                   cache>>

Next ==
    \/ \E size \in Size : mem_pool_alloc(size)
    \/ mem_cache_alloc
    \/ \E h \in held : chunk_free(h[1], h[2])
    \/ mem_pool_destroy

Spec == Init /\ [][Next]_vars

-----------------------------------------------------------------------------
\* Chunk indices are below chunk_count, counters are natural numbers.
TypeOK ==
    /\ heap \subseteq Stock /\ onrbt \subseteq Stock
    /\ slot \in [Stock -> Slot]
    /\ index \in [Stock -> 0..chunk_count] /\ recycnt \in [Stock -> 0..chunk_count]
    /\ recycle \in [Stock -> Seq(0..(chunk_count - 1))]
    /\ free_head \in [Slot -> Seq(Stock)] /\ full_head \in [Slot -> Seq(Stock)]
    /\ held \subseteq Stock \X (0..(chunk_count - 1))
    /\ cache \in BOOLEAN /\ destroyed \in BOOLEAN

\* Every chunk handed out at least once is either with a caller or on its stock's
\* recycle list, once, and never both: no chunk is handed out twice or lost.  A
\* chunk a caller has lies in memory the pool still owns.  A stock is in exactly
\* one list of its own slot: the full one iff it has no chunk left.  So assert(0)
\* in chunk_alloc is not reached, and assert(list_empty(&slot->free_head)) holds
\* where a stock is added.
ChunkConservation ==
    /\ TypeOK
    /\ ~ destroyed =>
      /\ \A h \in held : h[1] \in heap
      /\ \A k \in heap :
           LET out == {c \in 0..(chunk_count - 1) : <<k, c>> \in held}
           IN  /\ recycnt[k] = Len(recycle[k]) /\ IsInjective(recycle[k])
               /\ out \cap Range(recycle[k]) = {}
               /\ out \cup Range(recycle[k]) = 0..(index[k] - 1)
      /\ heap = onrbt
      /\ heap = UNION {Range(free_head[s]) \cup Range(full_head[s]) : s \in Slot}
      /\ \A s \in Slot :
           /\ IsInjective(free_head[s]) /\ IsInjective(full_head[s])
           /\ \A k \in Range(free_head[s]) : slot[k] = s /\ ~ stock_exhausted(k)
           /\ \A k \in Range(full_head[s]) : slot[k] = s /\ stock_exhausted(k)

=============================================================================
