-------------------------- MODULE EntitlementCache --------------------------
(***************************************************************************)
(* The cached entitlements of a school                                     *)
(* (backend/subscriptions/entitlements.py).                                *)
(*                                                                         *)
(* Two kinds of entries: the pointer of the school, which names a key, and *)
(* under a key (contract and version of the contract) the entitlements.    *)
(* A change of the contract clears both before and after its commit.       *)
(***************************************************************************)
EXTENDS Integers, FiniteSets

CONSTANTS
  Askers,     \* requests that ask for the entitlements
  ContractChanges  \* bound: committed changes of the contract

ASSUME CacheBounds == ContractChanges \in Nat

VARIABLES
  committed,  \* version of the contract and of its SubscriptionEntitlements
  change,     \* "idle", "open" (transaction) or "committed" (on_commit pending)
  pointer,    \* the version whose key the pointer names; 0: no entry
  values,     \* [versions -> the entitlements under the key, by the version they were
              \* read at; 0: no entry]
  asks        \* [Askers -> progress of get_school_entitlements]

cacheVars == <<committed, change, pointer, values, asks>>

Versions == 1..ContractChanges + 1

NoAsk == [pc |-> "idle", key |-> 0, rows |-> 0]

CacheInit ==
  /\ committed = 1 /\ change = "idle" /\ pointer = 0
  /\ values = [v \in Versions |-> 0] /\ asks = [a \in Askers |-> NoAsk]

-----------------------------------------------------------------------------
(* get_school_entitlements.                                                *)

Step(a, pc, key, rows) ==
  /\ asks' = [asks EXCEPT ![a] = [pc |-> pc, key |-> key, rows |-> rows]]
  /\ UNCHANGED <<committed, change>>

ReadPointer(a) ==
  /\ asks[a].pc = "idle"
  /\ Step(a, IF pointer = 0 THEN "contract" ELSE "value", pointer, 0)
  /\ UNCHANGED <<pointer, values>>

\* A hit ends the request.
ReadValue(a) ==
  /\ asks[a].pc = "value"
  /\ IF values[asks[a].key] # 0 THEN Step(a, "idle", 0, 0) ELSE Step(a, "contract", 0, 0)
  /\ UNCHANGED <<pointer, values>>

\* live_subscription and the cached value under its key.
ReadContract(a) ==
  /\ asks[a].pc = "contract"
  /\ IF values[committed] # 0 THEN Step(a, "idle", 0, 0) ELSE Step(a, "rows", committed, 0)
  /\ UNCHANGED <<pointer, values>>

\* The snapshot rows of the contract, as committed when they are read.
ReadRows(a) ==
  /\ asks[a].pc = "rows"
  /\ Step(a, "store", asks[a].key, committed)
  /\ UNCHANGED <<pointer, values>>

\* Mutant: the key is made of the contract as it is when the value is stored.
KeyFor_Now(a) == committed

KeyFor(a) == asks[a].key

\* set_many.
StoreBoth(a) ==
  /\ asks[a].pc = "store"
  /\ values' = [values EXCEPT ![KeyFor(a)] = asks[a].rows]
  /\ pointer' = KeyFor(a)
  /\ Step(a, "idle", 0, 0)

-----------------------------------------------------------------------------
(* A lifecycle operation or an override; the lock of the contract admits   *)
(* one at a time.                                                          *)

\* clear.
Clear ==
  /\ values' = [v \in Versions |-> IF v = pointer THEN 0 ELSE values[v]]
  /\ pointer' = 0

BeginChange ==
  /\ change = "idle" /\ committed <= ContractChanges
  /\ Clear /\ change' = "open"
  /\ UNCHANGED <<committed, asks>>

CommitChange ==
  /\ change = "open"
  /\ change' = "committed" /\ committed' = committed + 1
  /\ UNCHANGED <<pointer, values, asks>>

AfterCommit ==
  /\ change = "committed"
  /\ Clear /\ change' = "idle"
  /\ UNCHANGED <<committed, asks>>

\* The timeout of sixty seconds.
EntryExpires(v) ==
  /\ values[v] # 0
  /\ values' = [values EXCEPT ![v] = 0]
  /\ UNCHANGED <<committed, change, pointer, asks>>

PointerExpires ==
  /\ pointer # 0
  /\ pointer' = 0
  /\ UNCHANGED <<committed, change, values, asks>>

CacheNext ==
  \/ \E a \in Askers : ReadPointer(a) \/ ReadValue(a) \/ ReadContract(a) \/ ReadRows(a)
                       \/ StoreBoth(a)
  \/ BeginChange \/ CommitChange \/ AfterCommit
  \/ \E v \in Versions : EntryExpires(v)
  \/ PointerExpires

CacheSpec == CacheInit /\ [][CacheNext]_cacheVars

-----------------------------------------------------------------------------
(* Properties.                                                             *)

\* What is cached under the key of a version of the contract is not older than that
\* version, whichever changes committed between the reads that produced it.
KeyNotOlder == \A v \in Versions : values[v] # 0 => values[v] >= v

\* ENTITLEMENTS.md: the change clears pointer and value before and after its commit,
\* "preventing stale limits after upgrades, downgrades, or overrides".
NoStaleLimits ==
  change = "idle" /\ (\A a \in Askers : asks[a] = NoAsk) /\ pointer # 0
    => values[pointer] \in {0, committed}
=============================================================================
