---------------------------- MODULE SyncContract ----------------------------
(***************************************************************************)
(* What a connector's synchronisation promises about one window of its     *)
(* source, whatever workers, attempts, locks and crashes are behind it:    *)
(* items become durable one by one in any order, the saved cursor never    *)
(* passes an item that is not durable, and the window is closed (the       *)
(* cursor dropped, the next window's `since` set) only when all of it is.  *)
(***************************************************************************)
EXTENDS Naturals

CONSTANTS NumPages, ItemsPerPage

VARIABLES ledger, checkpoint

cvars == <<ledger, checkpoint>>

Items == (1..NumPages) \X (1..ItemsPerPage)
PagesBefore(p) == {x \in Items : x[1] < p}

Init == ledger = {} /\ checkpoint = 0

MakeDurable(x) ==
    /\ ledger' = ledger \cup {x}
    /\ UNCHANGED checkpoint

Save(p) ==
    /\ PagesBefore(p) \subseteq ledger
    /\ checkpoint' = p
    /\ UNCHANGED ledger

Close ==
    /\ ledger = Items
    /\ ledger' = {}
    /\ checkpoint' = 0

Next ==
    \/ \E x \in Items : MakeDurable(x)
    \/ \E p \in 1..NumPages : Save(p)
    \/ Close

Spec == Init /\ [][Next]_cvars
=============================================================================
