---------------------------- MODULE InputLedger ----------------------------
(***************************************************************************)
(* What a session promises about the inputs it is sent: an input is held   *)
(* in some queue until it is settled, settled at most once and one way,    *)
(* and one that is gone never comes back.                                  *)
(***************************************************************************)
CONSTANT Items

VARIABLES
    unsent,     \* not yet handed to the session
    held,       \* waiting in a queue of the session, or in a thread's hand
    recorded,   \* in the conversation history
    refused     \* reported back as an error, or blocked by a hook

ledger == <<unsent, held, recorded, refused>>

Init == unsent = Items /\ held = {} /\ recorded = {} /\ refused = {}

\* The session takes an input, or settles it at once.
Receive(i) ==
    /\ i \in unsent
    /\ unsent' = unsent \ {i}
    /\ \/ held' = held \cup {i} /\ UNCHANGED <<recorded, refused>>
       \/ recorded' = recorded \cup {i} /\ UNCHANGED <<held, refused>>
       \/ refused' = refused \cup {i} /\ UNCHANGED <<held, recorded>>

\* Some held inputs are recorded, some refused and some dropped.
Settle ==
    \E r, b, l \in SUBSET held :
        /\ r \cap b = {}
        /\ held' = held \ (r \cup b \cup l)
        /\ recorded' = recorded \cup r
        /\ refused' = refused \cup b
        /\ UNCHANGED unsent

Next == Settle \/ \E i \in Items : Receive(i)

Spec == Init /\ [][Next]_ledger
=============================================================================
