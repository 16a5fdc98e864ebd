---------------------------- MODULE SinkContract ----------------------------
(***************************************************************************)
(* What a worker of the host promises to the producers of log events: an     *)
(* event is written to the table first and given up by the queue afterwards, *)
(* so that every decodable event the queue has given up is in the table.     *)
(* It promises nothing about duplicates.                                     *)
(***************************************************************************)
CONSTANTS
    Messages,
    Undecodable

VARIABLES
    stored,     \* the events that are in the table
    settled     \* the events the queue has given up

contractVars == <<stored, settled>>

Init ==
    /\ stored = {}
    /\ settled = {}

\* A write stores events and takes none away.
Write ==
    /\ stored' \in SUBSET Messages
    /\ stored \subseteq stored'
    /\ UNCHANGED settled

\* Events that are settled were written before.
Settle ==
    /\ settled' \in SUBSET Messages
    /\ settled \subseteq settled'
    /\ settled' \ (settled \cup Undecodable) \subseteq stored
    /\ UNCHANGED stored

Next == Write \/ Settle

Spec == Init /\ [][Next]_contractVars
=============================================================================
