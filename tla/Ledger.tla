------------------------------- MODULE Ledger -------------------------------
(***************************************************************************)
(* What the world state promises the block processor (spec 4.2, 4.3): a    *)
(* balance per account; every credit is visible at once; a self-destruct   *)
(* flags an account, and bringing the state up to date makes every flagged *)
(* account's balance 0; commit makes the current balances the saved ones,  *)
(* revert returns to them; a per-transaction snapshot of balances and      *)
(* flags can be taken and restored once.                                   *)
(***************************************************************************)
EXTENDS Naturals

CONSTANTS Addrs, MaxBal, NoSnap

VARIABLES
    bal,      \* current balance of each account
    doomed,   \* accounts a self-destruct has flagged, not yet destroyed
    saved,    \* balances at the last commit
    snap,     \* balances and flags at the last snapshot, or NoSnap
    credits   \* credits made so far

vars == <<bal, doomed, saved, snap, credits>>

Init ==
    /\ bal \in [Addrs -> 0..MaxBal]
    /\ doomed = {}
    /\ saved = bal
    /\ snap = NoSnap
    /\ credits = 0

Credit(a) ==
    /\ bal[a] < MaxBal
    /\ bal' = [bal EXCEPT ![a] = @ + 1]
    /\ credits' = credits + 1
    /\ UNCHANGED <<doomed, saved, snap>>

\* A self-destruct marks the account; its balance stays visible until the
\* block's state is brought up to date.
Flag(a) == doomed' = doomed \cup {a} /\ UNCHANGED <<bal, saved, snap, credits>>

\* Creating an account that holds nothing replaces a flagged one by a fresh,
\* unflagged account; it never takes a balance away.
Create(a) ==
    /\ bal[a] = 0
    /\ doomed' = doomed \ {a}
    /\ UNCHANGED <<bal, saved, snap, credits>>

\* Bringing the state up to date destroys exactly the flagged accounts.
Destroy ==
    /\ bal' = [a \in Addrs |-> IF a \in doomed THEN 0 ELSE bal[a]]
    /\ doomed' = {}
    /\ UNCHANGED <<saved, snap, credits>>

\* Flags never survive a commit.
Commit ==
    /\ doomed = {}
    /\ saved' = bal /\ snap' = NoSnap
    /\ UNCHANGED <<bal, doomed, credits>>

Revert ==
    /\ bal' = saved /\ doomed' = {} /\ snap' = NoSnap
    /\ UNCHANGED <<saved, credits>>

Snapshot ==
    /\ snap' = [bal |-> bal, doomed |-> doomed]
    /\ UNCHANGED <<bal, doomed, saved, credits>>

RevertTx ==
    /\ snap # NoSnap
    /\ bal' = snap.bal /\ doomed' = snap.doomed /\ snap' = NoSnap
    /\ UNCHANGED <<saved, credits>>

Next ==
    \/ \E a \in Addrs : Credit(a) \/ Flag(a) \/ Create(a)
    \/ Destroy \/ Commit \/ Revert \/ Snapshot \/ RevertTx

Spec == Init /\ [][Next]_vars

=============================================================================
