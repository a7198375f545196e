------------------------------ MODULE YfsStore ------------------------------
(***************************************************************************)
(* What the caches promise the rest of the server: a store of items that a *)
(* power failure may set back, each item by itself, to one of the values   *)
(* it has survivors of, and sync to leave nothing to be set back.          *)
(***************************************************************************)
CONSTANTS Item, Content,
          Lossy   \* items for which sync promises nothing

VARIABLES
  view,       \* what a reader sees
  survivors,  \* the values an item may have after a power failure
  ack         \* sync has just returned 0

vars == <<view, survivors, ack>>

TypeOK ==
  /\ view \in [Item -> Content]
  /\ survivors \in [Item -> SUBSET Content]
  /\ ack \in BOOLEAN

Certain(w) == [x \in Item |-> {w[x]}]

\* A value can only be lost by being overwritten, and the visible one never is.
Settle(w) ==
  /\ survivors' \in [Item -> SUBSET Content]
  /\ \A x \in Item :
       /\ w[x] \in survivors'[x]
       /\ survivors'[x] \subseteq survivors[x] \union {w[x]}

Init ==
  /\ view \in [Item -> Content]
  /\ survivors = Certain(view)
  /\ ack = FALSE

Write(x, v) ==
  /\ view' = [view EXCEPT ![x] = v]
  /\ Settle(view')
  /\ ack' = FALSE

\* Reads, evictions, the steps of boot and sync.
Background ==
  /\ UNCHANGED view
  /\ Settle(view)
  /\ ack' = FALSE

Sync ==
  /\ UNCHANGED view
  /\ Settle(view)
  /\ \A x \in Item \ Lossy : survivors'[x] = {view[x]}
  /\ ack' = TRUE

Crash ==
  /\ view' \in [Item -> Content]
  /\ \A x \in Item : view'[x] \in survivors[x]
  /\ survivors' = Certain(view')
  /\ ack' = FALSE

Next == Background \/ Sync \/ Crash \/ \E x \in Item, v \in Content : Write(x, v)

Spec == Init /\ [][Next]_vars
=============================================================================
