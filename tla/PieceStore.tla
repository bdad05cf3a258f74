----------------------------- MODULE PieceStore -----------------------------
(***************************************************************************)
(* What the storage promises about one piece: at most one download at a    *)
(* time, started only when the piece is not stored; only the running       *)
(* download stores the piece, with what it received; a stored piece may be *)
(* forgotten (a deleted task, a stale record) but never changes in place.  *)
(***************************************************************************)
CONSTANTS Clients, Payloads, NoPayload, NoOwner

VARIABLES owner, stored

Init == owner = NoOwner /\ stored = NoPayload

Begin(c) == owner = NoOwner /\ stored = NoPayload /\ owner' = c /\ UNCHANGED stored

Store(c) ==
    /\ owner = c /\ stored = NoPayload
    /\ stored' \in Payloads
    /\ UNCHANGED owner

End(c) == owner = c /\ owner' = NoOwner /\ UNCHANGED stored

Forget == stored' = NoPayload /\ UNCHANGED owner

Restart == owner' = NoOwner /\ UNCHANGED stored

Next ==
    \/ \E c \in Clients : Begin(c) \/ Store(c) \/ End(c)
    \/ Forget
    \/ Restart

Spec == Init /\ [][Next]_<<owner, stored>>
=============================================================================
