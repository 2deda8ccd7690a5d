----------------------------- MODULE StateCache -----------------------------
(***************************************************************************)
(* monkstate/state.go: the stateObjects cache of a State over its trie,   *)
(* guarded by State.mut.  An object is abstracted to its balance; the     *)
(* trie to a map from address to the encoded balance (Absent: no data),    *)
(* with the value at the last Trie.Sync that Trie.Undo returns to.        *)
(*                                                                         *)
(* Two goroutines use the live State.  The block processor (outside src/, *)
(* from spec 4.3) credits accounts through GetOrNewStateObject, takes a    *)
(* Copy before each transaction and Sets it back when the transaction     *)
(* fails, then Updates and Syncs the block, or Resets it.  A validator    *)
(* reads accounts: GetStateObject, and, in ValidateTx (models.go),        *)
(* GetOrNewStateObject.  The snapshot is a second State; after Set the    *)
(* two States share one stateObjects map ("aliased") until either one     *)
(* empties its cache or a new Copy replaces the snapshot.                  *)
(***************************************************************************)
EXTENDS Naturals, FiniteSets

CONSTANTS
    Addrs,            \* account addresses
    MaxBal,           \* bound on a balance
    MaxCredits,       \* bound on credits
    Absent,           \* model value: no data in the trie
    None,             \* model value: no entry in stateObjects
    NoSnap,           \* model value: no snapshot
    Credited,         \* accounts the block's transactions credit
    Senders,          \* senders whose transactions the validator checks
    Funded            \* accounts that may hold a balance at the start

Vals == 0..MaxBal

VARIABLES
    trie,       \* trie[a]: balance stored in the trie, or Absent
    committed,  \* the trie at the last Sync
    cache,      \* stateObjects[a]: the cached object's balance, or None
    rm,         \* addresses whose cached object is flagged remove
    snap,       \* the snapshot State: [trie, cache]
    snapValid,  \* a snapshot is taken and not yet restored
    shared,     \* addresses whose object the snapshot shares with the live State
    aliased,    \* after Set: the live State and the snapshot share one map
    pst,        \* processor phase: "tx" (executing), "updated" (after Update)
    ppc,        \* processor inside GetOrNewStateObject / AddBalance
    pa,         \* the address the processor is crediting
    heldLive,   \* the object the processor holds is still the cached one
    vpc, va,    \* validator inside GetOrNewStateObject, and its address
    nCredits    \* AddBalance calls made

vars == <<trie, committed, cache, rm, snap, snapValid, shared, aliased, pst, ppc,
          pa, heldLive, vpc, va, nCredits>>

\* GetBalance: the cached object's balance, else what the trie holds.
Val(v) == IF v = Absent THEN 0 ELSE v
Bal(a) == IF cache[a] # None THEN cache[a] ELSE Val(trie[a])
SnapBal(a) == IF snap.cache[a] # None THEN snap.cache[a] ELSE Val(snap.trie[a])

EmptyCache == [a \in Addrs |-> None]

\* A write to the live map or to an object; visible in the snapshot too when
\* the map is shared (after Set) or the object is.
WriteObj(a, v) ==
    /\ cache' = [cache EXCEPT ![a] = v]
    /\ snap' = IF aliased \/ a \in shared
                 THEN [snap EXCEPT !.cache[a] = v] ELSE snap

Init ==
    /\ trie \in [Addrs -> {Absent, 1}]
    /\ \A a \in Addrs \ Funded : trie[a] = Absent
    /\ committed = trie
    /\ cache = EmptyCache
    /\ rm = {}
    /\ snap = [trie |-> trie, cache |-> EmptyCache, rm |-> {}]
    /\ snapValid = FALSE /\ shared = {} /\ aliased = FALSE
    /\ pst = "tx" /\ ppc = "idle" /\ pa = CHOOSE a \in Addrs : TRUE
    /\ heldLive = FALSE
    /\ vpc = "idle" /\ va = CHOOSE a \in Addrs : TRUE
    /\ nCredits = 0

-----------------------------------------------------------------------------
(* Block processor.                                                        *)

\* GetOrNewStateObject, first lock hold (GetStateObject): a cached object,
\* else one decoded from the trie and cached, else nil.
PGet(a) ==
    /\ pst = "tx" /\ ppc = "idle" /\ nCredits < MaxCredits /\ Bal(a) < MaxBal
    /\ pa' = a
    /\ IF cache[a] # None
         THEN ppc' = "add" /\ heldLive' = TRUE /\ UNCHANGED <<cache, snap>>
       ELSE IF trie[a] # Absent
         THEN ppc' = "add" /\ heldLive' = TRUE /\ WriteObj(a, trie[a])
       ELSE ppc' = "new" /\ UNCHANGED <<cache, snap, heldLive>>
    /\ UNCHANGED <<rm, trie, committed, snapValid, shared, aliased, pst, vpc, va,
                   nCredits>>

\* GetOrNewStateObject, second lock hold (NewStateObject): a fresh object
\* replaces whatever stateObjects holds for the address.
PNew ==
    /\ ppc = "new"
    /\ WriteObj(pa, 0)
    /\ ppc' = "add" /\ heldLive' = TRUE
    /\ rm' = rm \ {pa}
    /\ UNCHANGED <<trie, committed, snapValid, shared, aliased, pst, pa, vpc,
                   va, nCredits>>

\* StateObject.AddBalance on the object GetOrNewStateObject returned.
PAdd ==
    /\ ppc = "add"
    /\ IF heldLive THEN WriteObj(pa, cache[pa] + 1) ELSE UNCHANGED <<cache, snap>>
    /\ nCredits' = nCredits + 1
    /\ ppc' = "idle" /\ heldLive' = FALSE
    /\ UNCHANGED <<rm, trie, committed, snapValid, shared, aliased, pst, pa, vpc,
                   va>>

\* State.Copy before a transaction: a trie copy and a copy of every object.
PSnapshot ==
    /\ pst = "tx" /\ ppc = "idle"
    /\ snap' = [trie |-> trie, cache |-> cache, rm |-> rm]
    /\ snapValid' = TRUE
    /\ shared' = {}
    /\ aliased' = FALSE
    /\ UNCHANGED <<rm, trie, committed, cache, pst, ppc, pa, heldLive,
                   vpc, va, nCredits>>

\* State.Set(snapshot) after a failed transaction: the live State takes the
\* snapshot's Trie and its stateObjects map itself.
PRevertTx ==
    /\ pst = "tx" /\ ppc = "idle" /\ snapValid
    /\ trie' = snap.trie /\ cache' = snap.cache
    /\ aliased' = TRUE /\ snapValid' = FALSE
    /\ rm' = snap.rm
    /\ UNCHANGED <<committed, snap, shared, pst, ppc, pa, heldLive, vpc, va,
                   nCredits>>

\* Mutant: Update writing every address, cached or not.
PUpdateAll ==
    /\ pst = "tx" /\ ppc = "idle"
    /\ trie' = [a \in Addrs |-> cache[a]]
    /\ pst' = "updated"
    /\ UNCHANGED <<rm, committed, cache, snap, snapValid, shared, aliased, ppc, pa,
                   heldLive, vpc, va, nCredits>>

\* Mutant: Update that ignores the remove flag and re-encodes every object.
PUpdateIgnoresRemove ==
    /\ pst = "tx" /\ ppc = "idle"
    /\ trie' = [a \in Addrs |-> IF cache[a] # None THEN cache[a] ELSE trie[a]]
    /\ rm' = {}
    /\ pst' = "updated"
    /\ UNCHANGED <<committed, cache, snap, snapValid, shared, aliased, ppc, pa,
                   heldLive, vpc, va, nCredits>>

\* State.Update: a cached object flagged remove is deleted from the trie and
\* from stateObjects (DeleteStateObject, under Update's lock; the map is the
\* snapshot's too after Set), every other one is re-encoded into the trie
\* (the paranoia check rebuilds the same contents).
PUpdate ==
    /\ pst = "tx" /\ ppc = "idle"
    /\ trie' = [a \in Addrs |-> IF a \in rm THEN Absent
                               ELSE IF cache[a] # None THEN cache[a] ELSE trie[a]]
    /\ cache' = [a \in Addrs |-> IF a \in rm THEN None ELSE cache[a]]
    /\ snap' = IF aliased
                 THEN [snap EXCEPT !.cache = [a \in Addrs |->
                                      IF a \in rm THEN None ELSE snap.cache[a]]]
                 ELSE snap
    /\ rm' = {}
    /\ pst' = "updated"
    /\ UNCHANGED <<committed, snapValid, shared, aliased, ppc, pa,
                   heldLive, vpc, va, nCredits>>

\* A self-destruct in the VM (outside src/, spec 2) flags the account's
\* cached object remove; GetBalance still reports it until Update.
PSuicide(a) ==
    /\ pst = "tx" /\ ppc = "idle"
    /\ cache[a] # None /\ a \notin rm
    /\ rm' = rm \cup {a}
    /\ snap' = IF aliased \/ a \in shared THEN [snap EXCEPT !.rm = @ \cup {a}] ELSE snap
    /\ UNCHANGED <<trie, committed, cache, snapValid, shared, aliased, pst, ppc,
                   pa, heldLive, vpc, va, nCredits>>

\* State.Sync after Update: Trie.Sync, then Empty (a new map).
PSync ==
    /\ pst = "updated"
    /\ committed' = trie
    /\ cache' = EmptyCache
    /\ aliased' = FALSE /\ shared' = {} /\ snapValid' = FALSE
    /\ pst' = "tx"
    /\ rm' = {}
    /\ UNCHANGED <<trie, snap, ppc, pa, heldLive, vpc, va, nCredits>>

\* State.Reset: Trie.Undo, then Empty.
PReset ==
    /\ ppc = "idle"
    /\ trie' = committed
    /\ cache' = EmptyCache
    /\ aliased' = FALSE /\ shared' = {} /\ snapValid' = FALSE
    /\ pst' = "tx"
    /\ rm' = {}
    /\ UNCHANGED <<committed, snap, ppc, pa, heldLive, vpc, va, nCredits>>

-----------------------------------------------------------------------------
(* Validator.                                                              *)

\* GetStateObject (ValidatePerm's reads), or the first lock hold of
\* GetOrNewStateObject (ValidateTx's sender lookup).
VGet(a) ==
    /\ vpc = "idle"
    /\ IF cache[a] = None /\ trie[a] # Absent
         THEN WriteObj(a, trie[a]) ELSE UNCHANGED <<cache, snap>>
    /\ IF cache[a] = None /\ trie[a] = Absent /\ a \in Senders
         THEN vpc' = "new" /\ va' = a ELSE UNCHANGED <<vpc, va>>
    /\ UNCHANGED <<rm, trie, committed, snapValid, shared, aliased, pst, ppc, pa,
                   heldLive, nCredits>>

\* GetOrNewStateObject's NewStateObject: replaces the cached object, so an
\* object the processor holds for the address is no longer the cached one.
VNew ==
    /\ vpc = "new"
    /\ WriteObj(va, 0)
    /\ heldLive' = heldLive /\ ~(ppc = "add" /\ pa = va)
    /\ vpc' = "idle"
    /\ rm' = rm \ {va}
    /\ UNCHANGED <<trie, committed, snapValid, shared, aliased, pst, ppc, pa,
                   va, nCredits>>

Next ==
    \/ \E a \in Credited : PGet(a)
    \/ \E a \in Addrs : VGet(a) \/ PSuicide(a)
    \/ PNew \/ PAdd \/ PSnapshot \/ PRevertTx \/ PUpdate \/ PSync \/ PReset
    \/ VNew

Spec == Init /\ [][Next]_vars

-----------------------------------------------------------------------------
TypeOK ==
    /\ trie \in [Addrs -> Vals \cup {Absent}]
    /\ committed \in [Addrs -> Vals \cup {Absent}]
    /\ cache \in [Addrs -> Vals \cup {None}]
    /\ rm \subseteq Addrs
    /\ snap \in [trie : [Addrs -> Vals \cup {Absent}], cache : [Addrs -> Vals \cup {None}],
                 rm : SUBSET Addrs]
    /\ snapValid \in BOOLEAN /\ shared \subseteq Addrs /\ aliased \in BOOLEAN
    /\ pst \in {"tx", "updated"} /\ ppc \in {"idle", "new", "add"}
    /\ pa \in Addrs /\ heldLive \in BOOLEAN
    /\ vpc \in {"idle", "new"} /\ va \in Addrs
    /\ nCredits \in 0..MaxCredits

\* The balances GetBalance reports, the remove flags, the committed trie and
\* the snapshot implement the Ledger: every AddBalance the processor makes
\* shows up as one credit, a self-destruct flags the account and Update
\* destroys exactly the flagged accounts, Sync commits, Reset reverts, and
\* Set restores the balances and flags of the Copy.
L == INSTANCE Ledger WITH
        bal <- [a \in Addrs |-> Bal(a)],
        doomed <- rm,
        saved <- [a \in Addrs |-> Val(committed[a])],
        snap <- IF snapValid
                  THEN [bal |-> [a \in Addrs |-> SnapBal(a)], doomed |-> snap.rm]
                  ELSE NoSnap,
        credits <- nCredits

LedgerRefined == L!Spec

=============================================================================
