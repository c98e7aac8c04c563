------------------------------ MODULE MessageLog ------------------------------
(***************************************************************************)
(* What the recorder promises its subscriptions, without threads, batches  *)
(* or locks: a log of bounded memory that keeps messages in the order they *)
(* were delivered, writes each at most once and only to the bag that is    *)
(* open, and otherwise loses messages only from an end of what it still    *)
(* holds.  WriterQueue implements it (WriterQueue!KeepsMessageLog).        *)
(***************************************************************************)
EXTENDS Naturals, Sequences

CONSTANTS
    Capacity,   \* messages held in memory at most
    Episodes,   \* the episodes that may be started
    Sizes       \* serialized sizes

VARIABLES
    pending,    \* delivered, and neither written nor lost
    open,       \* the episode whose bag is open, or NoBag
    started,    \* episodes started so far
    arrived,    \* messages delivered so far
    bag         \* the messages in each bag, in file order

vars == <<pending, open, started, arrived, bag>>

NoBag == 0

Init ==
    /\ pending = << >>
    /\ open = NoBag
    /\ started = 0
    /\ arrived = 0
    /\ bag = [e \in Episodes |-> << >>]

(* An episode starts; its bag opens or fails to.                           *)
Open ==
    /\ open = NoBag
    /\ started + 1 \in Episodes
    /\ started' = started + 1
    /\ open' \in {NoBag, started + 1}
    /\ UNCHANGED <<pending, arrived, bag>>

(* A message is delivered to the open episode and held, or refused.        *)
Deliver(size) ==
    /\ open # NoBag
    /\ arrived' = arrived + 1
    /\ \/ UNCHANGED pending
       \/ /\ Len(pending) < Capacity
          /\ pending' = Append(pending, [id |-> arrived + 1, ep |-> open, size |-> size])
    /\ UNCHANGED <<open, started, bag>>

(* The oldest message goes to the end of the open bag.                     *)
Write ==
    /\ open # NoBag
    /\ pending # << >>
    /\ bag' = [bag EXCEPT ![open] = Append(@, Head(pending))]
    /\ pending' = Tail(pending)
    /\ UNCHANGED <<open, started, arrived>>

(* Messages are given up from the front or the back, never from between.   *)
Forget ==
    /\ \E i \in 1 .. Len(pending) + 1 : \E j \in i - 1 .. Len(pending) :
        pending' = SubSeq(pending, i, j)
    /\ UNCHANGED <<open, started, arrived, bag>>

Close ==
    /\ open # NoBag
    /\ open' = NoBag
    /\ UNCHANGED <<pending, started, arrived, bag>>

Next == Open \/ (\E size \in Sizes : Deliver(size)) \/ Write \/ Forget \/ Close

Spec == Init /\ [][Next]_vars

=============================================================================
