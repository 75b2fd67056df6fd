------------------------------ MODULE Allocator ------------------------------
(***************************************************************************)
(* What every memory pool of the program promises its clients              *)
(* (checker/pool_single.h, checker/pool_array.h, pool_band.h): an          *)
(* allocation returns a region that lies in the payload of one block and   *)
(* overlaps nothing a client still holds; regions leave the clients' hands *)
(* only by being released.  Where the memory comes from (free list, bump   *)
(* pointer, reused block, new block) is left to the implementation.        *)
(***************************************************************************)
EXTENDS Naturals, FiniteSets

CONSTANTS HeaderSize,   \* bytes at the start of a block taken by its header
          BlockSize     \* bytes of a block, header included

VARIABLES live,         \* the regions handed out and not yet released
          held          \* how many of them the clients hold

\* A region of memory: `size` bytes at offset `off` of block `block`.
Regions == [block : Nat \ {0}, off : Nat, size : Nat \ {0}]

Disjoint(p, q) == \/ p.block # q.block
                  \/ p.off + p.size <= q.off
                  \/ q.off + q.size <= p.off

Fits(p) == /\ HeaderSize <= p.off
           /\ p.off + p.size <= BlockSize

Init == live = {} /\ held = 0

\* A region that no client holds is handed out.
Allocate == \E p \in live' : /\ p \in Regions /\ Fits(p)
                             /\ \A q \in live : Disjoint(p, q)
                             /\ live' = live \cup {p}
                             /\ held' = held + 1

\* Some (or all) regions go back to the pool.
Release == live' \subseteq live /\ held' = Cardinality(live')

Next == Allocate \/ Release

Spec == Init /\ [][Next]_<<live, held>>

\* No client reaches a block header or the memory behind a block.
Inside == \A p \in live : p \in Regions /\ Fits(p)

\* No two clients share a byte, nor hold the same region.
Separate == /\ \A p, q \in live : p # q => Disjoint(p, q)
            /\ held = Cardinality(live)

Safe == Inside /\ Separate
=============================================================================
