-------------------------- MODULE CacheLedgerProofs --------------------------
(***************************************************************************)
(* Theorems about CacheRetention: for any owners, contents, limits and     *)
(* number of faults, the ledger covers what is on disk and stays within    *)
(* the limit, temporaries stay declared, and pins keep what they guard.    *)
(* The lemmas about everything but the counting are in                     *)
(* CacheRetentionProofs.                                                   *)
(***************************************************************************)
EXTENDS CacheRetentionProofs, FiniteSetTheorems

\* What an operation has been charged for and has not yet put on disk, a published file
\* taking the place of its temporary: two entries for every write that it may still begin,
\* its intent and its temporary, and what is missing of the write or reservation begun.
Owed(o) ==
  2 * op[o].left + CASE op[o].write = "charged" -> IF op[o].left > 0 THEN 1 ELSE 2
                     [] op[o].write = "declared" -> 1
                     [] OTHER -> 0

\* The same for all owners, as a set, so that it can be counted.
DebtsOf(o) == {o} \X (1 .. Owed(o))
Debts == UNION {DebtsOf(o) : o \in Owners}

\* Each entry on disk and each one owed has been charged, on top of the slack.
LedgerInv ==
  /\ IsFiniteSet(files) /\ IsFiniteSet(Debts) /\ ledger \in 0 .. MaxEntries
  /\ Cardinality(files) + Cardinality(intents) + Cardinality(temps) + Cardinality(Debts) + Slack
       <= ledger

\* The inductive invariant.
AccountInv == CacheInv /\ ReadyInv /\ LedgerInv

-----------------------------------------------------------------------------
(* Counting.                                                               *)

\* When one owner's operation changes, what is owed changes by what that owner owes.
LEMMA DebtsChange ==
  ASSUME op \in [Owners -> Operations], op' \in [Owners -> Operations], NEW o \in Owners,
         \A p \in Owners \ {o} : op'[p] = op[p], IsFiniteSet(Debts)
  PROVE  /\ IsFiniteSet(Debts')
         /\ Cardinality(Debts') = Cardinality(Debts) - Owed(o) + Owed(o)'
         /\ Cardinality(Debts) \in Nat /\ Cardinality(Debts') \in Nat
<1> DEFINE R == UNION {DebtsOf(p) : p \in Owners \ {o}}
<1>1. Owed(o) \in Nat /\ Owed(o)' \in Nat
  BY DEF Owed, Operations
<1>2. Debts = R \cup DebtsOf(o)
  BY DEF Debts
<1>3. Debts' = R \cup DebtsOf(o)'
  <2>1. ASSUME NEW p \in Owners \ {o} PROVE DebtsOf(p)' = DebtsOf(p)
    BY DEF DebtsOf, Owed
  <2>2. Debts' = (UNION {DebtsOf(p) : p \in Owners \ {o}})' \cup DebtsOf(o)'
    BY DEF Debts
  <2> QED BY <2>1, <2>2
<1>4. R \cap DebtsOf(o) = {} /\ R \cap DebtsOf(o)' = {}
  BY DEF DebtsOf
<1>5. IsFiniteSet(R)
  BY <1>2, FS_Subset
<1>6. \A n \in Nat : IsFiniteSet({o} \X (1 .. n)) /\ Cardinality({o} \X (1 .. n)) = n
  <2> SUFFICES ASSUME NEW n \in Nat
               PROVE  IsFiniteSet({o} \X (1 .. n)) /\ Cardinality({o} \X (1 .. n)) = n
    OBVIOUS
  <2>1. IsFiniteSet({o}) /\ Cardinality({o}) = 1
    BY FS_Singleton
  <2>2. IsFiniteSet(1 .. n) /\ Cardinality(1 .. n) = n
    BY FS_Interval
  <2> QED BY <2>1, <2>2, FS_Product
<1>7. /\ IsFiniteSet(DebtsOf(o)) /\ Cardinality(DebtsOf(o)) = Owed(o)
      /\ IsFiniteSet(DebtsOf(o)') /\ Cardinality(DebtsOf(o)') = Owed(o)'
  BY <1>1, <1>6 DEF DebtsOf
<1>8. Cardinality(R) \in Nat
  BY <1>5, FS_CardinalityType
<1>9. ASSUME NEW D, IsFiniteSet(D), Cardinality(D) \in Nat, R \cap D = {}
      PROVE  IsFiniteSet(R \cup D) /\ Cardinality(R \cup D) = Cardinality(R) + Cardinality(D)
  BY <1>5, <1>8, <1>9, FS_Union, FS_EmptySet
<1> HIDE DEF R
<1>10. Cardinality(Debts) = Cardinality(R) + Owed(o)
  BY <1>1, <1>2, <1>4, <1>7, <1>9
<1>11. IsFiniteSet(Debts') /\ Cardinality(Debts') = Cardinality(R) + Owed(o)'
  BY <1>1, <1>3, <1>4, <1>7, <1>9
<1> QED BY <1>1, <1>8, <1>10, <1>11

LEMMA IdSets ==
  ASSUME NEW S, S \subseteq Ids
  PROVE  IsFiniteSet(S) /\ Cardinality(S) \in Nat
<1>1. IsFiniteSet(Ids)
  <2>1. MaxIds \in Int /\ 1 \in Int
    BY CacheAssumption
  <2> QED BY <2>1, FS_Interval DEF Ids
<1> QED BY <1>1, FS_Subset, FS_CardinalityType

\* What is on disk can be counted.
LEMMA Counted ==
  ASSUME TypeInv, LedgerInv
  PROVE  /\ Cardinality(files) \in Nat /\ Cardinality(intents) \in Nat /\ Cardinality(temps) \in Nat
         /\ Cardinality(Debts) \in Nat /\ ledger \in Nat /\ Slack \in Nat /\ MaxEntries \in Nat
<1>1. Cardinality(files) \in Nat /\ Cardinality(Debts) \in Nat
  BY FS_CardinalityType DEF LedgerInv
<1>2. Cardinality(intents) \in Nat /\ Cardinality(temps) \in Nat
  BY IdSets DEF TypeInv
<1>3. ledger \in Nat /\ Slack \in Nat /\ MaxEntries \in Nat
  BY CacheAssumption DEF LedgerInv
<1> QED BY <1>1, <1>2, <1>3

\* The ledger keeps covering the disk when a step adds no more to the disk and to what its
\* owner owes than it charges.
LEMMA LedgerKept ==
  ASSUME TypeInv, TypeInv', LedgerInv, NEW o \in Owners, \A p \in Owners \ {o} : op'[p] = op[p],
         IsFiniteSet(files'), ledger' \in 0 .. MaxEntries,
         Cardinality(files') + Cardinality(intents') + Cardinality(temps') + Owed(o)' + ledger
           <= Cardinality(files) + Cardinality(intents) + Cardinality(temps) + Owed(o) + ledger'
  PROVE  LedgerInv'
<1>1. op \in [Owners -> Operations] /\ op' \in [Owners -> Operations]
  BY DEF TypeInv
<1>2. Owed(o) \in Nat /\ Owed(o)' \in Nat
  BY <1>1 DEF Owed, Operations
<1>3. /\ IsFiniteSet(Debts') /\ Cardinality(Debts') = Cardinality(Debts) - Owed(o) + Owed(o)'
      /\ Cardinality(Debts') \in Nat
  BY <1>1, DebtsChange DEF LedgerInv
<1>4. /\ Cardinality(files) \in Nat /\ Cardinality(intents) \in Nat /\ Cardinality(temps) \in Nat
      /\ Cardinality(Debts) \in Nat /\ ledger \in Nat /\ Slack \in Nat /\ MaxEntries \in Nat
  BY Counted
<1>5. Cardinality(intents') \in Nat /\ Cardinality(temps') \in Nat
  BY IdSets DEF TypeInv
<1>6. Cardinality(files') \in Nat
  BY FS_CardinalityType
<1>7. Cardinality(files) + Cardinality(intents) + Cardinality(temps) + Cardinality(Debts) + Slack
        <= ledger
  BY DEF LedgerInv
<1>8. Cardinality(files') + Cardinality(intents') + Cardinality(temps') + Cardinality(Debts') + Slack
        <= ledger'
  BY <1>2, <1>3, <1>4, <1>5, <1>6, <1>7
<1> QED BY <1>3, <1>8 DEF LedgerInv

\* The writes of a hydration can be counted.
LEMMA WritesCounted == \A o \in Owners : HydrationWrites(o) \in Nat \ {0}
<1> SUFFICES ASSUME NEW o \in Owners PROVE HydrationWrites(o) \in Nat \ {0}
  OBVIOUS
<1>1. IsFiniteSet(Needs[o] \ files)
  BY CacheAssumption, FS_Subset
<1> QED BY <1>1, FS_CardinalityType DEF HydrationWrites

\* An operation is what was set.
LEMMA IsSet ==
  ASSUME TypeInv, NEW o \in Owners, NEW r, Set(o, r)
  PROVE  op'[o] = r /\ \A p \in Owners \ {o} : op'[p] = op[p]
  BY DEF TypeInv, Set

-----------------------------------------------------------------------------
(* Steps that leave the disk alone.                                        *)

\* They charge at least what their owner then owes.
LEMMA PaperKept ==
  ASSUME TypeInv, TypeInv', LedgerInv, NEW o \in Owners, NEW r, Set(o, r),
         UNCHANGED <<files, intents, temps>>,
         ledger' \in 0 .. MaxEntries, Owed(o)' + ledger <= Owed(o) + ledger'
  PROVE  LedgerInv'
<1>1. \A p \in Owners \ {o} : op'[p] = op[p]
  BY IsSet
<1>2. /\ Cardinality(files) \in Nat /\ Cardinality(intents) \in Nat /\ Cardinality(temps) \in Nat
      /\ ledger \in Nat /\ MaxEntries \in Nat
  BY Counted
<1>3. Owed(o) \in Nat /\ Owed(o)' \in Nat
  BY DEF Owed, Operations, TypeInv
<1>4. Cardinality(files') + Cardinality(intents') + Cardinality(temps') + Owed(o)' + ledger
        <= Cardinality(files) + Cardinality(intents) + Cardinality(temps) + Owed(o) + ledger'
  BY <1>2, <1>3
<1>5. IsFiniteSet(files')
  BY DEF LedgerInv
<1> QED BY <1>1, <1>4, <1>5, LedgerKept

\* An admission stays within the limit.
LEMMA Admitted ==
  ASSUME TypeInv, LedgerInv, NEW n \in Nat, NEW tier \in {"emergency", "proof", "normal"},
         Fits(n, tier), ledger' = ledger + n
  PROVE  ledger' \in 0 .. MaxEntries
<1>1. Headroom \in Nat /\ MaxEntries \in Nat /\ Headroom \div 4 \in Nat /\ ledger \in Nat
  BY CacheAssumption DEF LedgerInv
<1>2. Capacity(tier) <= MaxEntries /\ Capacity(tier) \in Int
  BY <1>1 DEF Capacity
<1> QED BY <1>1, <1>2 DEF Fits

\* A new operation owes nothing, apart from a reservation: its writes, and its declaration.
LEMMA BeginLedger ==
  ASSUME CacheInv, TypeInv', LedgerInv, NEW o \in Owners,
         Open(o) \/ Release(o) \/ Retire(o) \/ Retain(o) \/ Hydrate(o)
  PROVE  LedgerInv'
<1>t. TypeInv /\ op[o] \in Operations /\ ledger \in Nat /\ Slack \in Nat \ {0} /\ MaxEntries \in Nat
  BY CacheAssumption DEF CacheInv, TypeInv, LedgerInv
<1>1. ASSUME NEW r, Begin(o, r) PROVE Owed(o) = 0 /\ Set(o, r) /\ op'[o] = r
  <2>1. op[o] = Idle
    BY <1>1 DEF Begin, CacheInv, IdentityInv, IdentityOK
  <2> QED BY <1>t, <1>1, <2>1, IdleType, IsSet DEF Begin, Owed
<1>2. CASE Open(o) \/ Release(o) \/ Retire(o)
  <2>1. PICK at : Begin(o, [Idle EXCEPT !.at = at])
    BY <1>2 DEF Open, Release, Retire
  <2>2. Owed(o) = 0 /\ Set(o, [Idle EXCEPT !.at = at]) /\ op'[o] = [Idle EXCEPT !.at = at]
    BY <1>1, <2>1
  <2>3. Owed(o)' = 0
    BY <2>2 DEF Owed, Idle
  <2>4. UNCHANGED <<files, intents, temps, ledger>>
    BY <1>2 DEF Open, Release, Retire
  <2>5. ledger' \in 0 .. MaxEntries
    BY <2>4 DEF LedgerInv
  <2> QED BY <1>t, <2>2, <2>3, <2>4, <2>5, PaperKept
<1>3. ASSUME NEW at, NEW writes \in Nat \ {0}, NEW tier \in {"proof", "normal"},
             Reserve(o, at, writes, tier)
      PROVE  LedgerInv'
  <2> DEFINE r == [Idle EXCEPT !.at = at, !.write = "charged", !.left = writes]
  <2>1. /\ Begin(o, r) /\ Fits(3 * writes + Slack, tier) /\ ledger' = ledger + 3 * writes + Slack
        /\ UNCHANGED <<files, intents, temps>>
    BY <1>3 DEF Reserve
  <2>2. Owed(o) = 0 /\ Set(o, r) /\ op'[o] = r
    BY <1>1, <2>1
  <2>3. Owed(o)' = 2 * writes + 1
    BY <2>2 DEF Owed, Idle
  <2> HIDE DEF r
  <2>4. ledger' = ledger + (3 * writes + Slack) /\ 3 * writes + Slack \in Nat
    BY <1>t, <2>1
  <2>5. ledger' \in 0 .. MaxEntries
    BY <1>t, <2>1, <2>4, Admitted
  <2>6. Owed(o)' + ledger <= Owed(o) + ledger'
    BY <1>t, <2>2, <2>3, <2>4
  <2> QED BY <1>t, <2>1, <2>2, <2>5, <2>6, PaperKept
<1>4. CASE Retain(o)
  BY <1>3, <1>4 DEF Retain
<1>5. CASE Hydrate(o)
  BY <1>3, <1>5, WritesCounted DEF Hydrate
<1> QED BY <1>2, <1>4, <1>5

\* A write is charged more than its declaration and its temporary.
LEMMA ChargeLedger ==
  ASSUME CacheInv, TypeInv', LedgerInv, NEW o \in Owners, Charge(o) \/ ChargeExtra(o)
  PROVE  LedgerInv'
<1>t. TypeInv /\ op[o] \in Operations /\ op[o].left \in Nat /\ ledger \in Nat
  BY CacheAssumption DEF CacheInv, TypeInv, LedgerInv, Operations
<1>1. /\ op[o].write = "none" /\ ledger' = ledger + 3 /\ UNCHANGED <<files, intents, temps>>
      /\ \E tier \in {"emergency", "proof", "normal"} : Fits(3, tier)
  BY DEF Charge, ChargeExtra, Tier
<1>2. ledger' \in 0 .. MaxEntries
  BY <1>t, <1>1, Admitted
<1>3. Owed(o) = 2 * op[o].left
  BY <1>t, <1>1 DEF Owed
<1>4. PICK r : Set(o, r) /\ r.left \in Nat /\ 2 * r.left + (IF r.write = "charged" THEN 2 ELSE 0)
                                               <= 2 * op[o].left + 2 /\ r.write \in {"none", "charged"}
  <2>1. CASE Charge(o)
    <3>1. PICK f \in Targets(o) : Set(o, [op[o] EXCEPT !.write = "charged", !.target = f])
      BY <2>1, Zenon DEF Charge
    <3> DEFINE r == [op[o] EXCEPT !.write = "charged", !.target = f]
    <3>2. Set(o, r) /\ r.left = op[o].left /\ r.write = "charged"
      BY <1>t, <3>1 DEF Operations
    <3> HIDE DEF r
    <3> QED BY <1>t, <3>2
  <2>2. CASE ChargeExtra(o)
    <3> DEFINE r == [op[o] EXCEPT !.left = 1]
    <3>1. Set(o, r) /\ r.left = 1 /\ r.write = "none" /\ op[o].left = 0
      BY <1>t, <1>1, <2>2 DEF Operations, ChargeExtra
    <3> HIDE DEF r
    <3> QED BY <3>1
  <2> QED BY <2>1, <2>2
<1>5. op'[o] = r
  BY <1>t, <1>4, IsSet
<1>6. Owed(o)' <= 2 * r.left + (IF r.write = "charged" THEN 2 ELSE 0) /\ Owed(o)' \in Nat
  BY <1>4, <1>5 DEF Owed
<1>7. Owed(o)' + ledger <= Owed(o) + ledger'
  BY <1>t, <1>1, <1>3, <1>4, <1>6
<1> QED BY <1>t, <1>1, <1>2, <1>4, <1>7, PaperKept

\* An operation that ends owes nothing more, and what it removes is gone.
LEMMA EndLedger ==
  ASSUME CacheInv, TypeInv', LedgerInv, NEW o \in Owners, Refuse(o) \/ OpenDone(o) \/ Fail(o)
  PROVE  LedgerInv'
<1>t. TypeInv /\ op[o] \in Operations
  BY DEF CacheInv, TypeInv
<1>1. Set(o, Idle) /\ UNCHANGED <<files, ledger>> /\ temps' \subseteq temps /\ intents' \subseteq intents
  <2>1. CASE Refuse(o) \/ OpenDone(o)
    BY <2>1 DEF Refuse, OpenDone
  <2>2. CASE Fail(o)
    BY <2>2 DEF Fail, Dropped
  <2> QED BY <2>1, <2>2
<1>2. op'[o] = Idle /\ \A p \in Owners \ {o} : op'[p] = op[p]
  BY <1>t, <1>1, IsSet
<1>3. Owed(o)' = 0 /\ Owed(o) \in Nat
  BY <1>t, <1>2, IdleType DEF Owed, Operations
<1>4. /\ Cardinality(intents') <= Cardinality(intents) /\ Cardinality(temps') <= Cardinality(temps)
      /\ Cardinality(intents') \in Nat /\ Cardinality(temps') \in Nat
  BY <1>t, <1>1, IdSets, FS_Subset DEF TypeInv
<1>5. /\ Cardinality(files) \in Nat /\ Cardinality(intents) \in Nat /\ Cardinality(temps) \in Nat
      /\ ledger \in Nat
  BY <1>t, Counted
<1>6. Cardinality(files') + Cardinality(intents') + Cardinality(temps') + Owed(o)' + ledger
        <= Cardinality(files) + Cardinality(intents) + Cardinality(temps) + Owed(o) + ledger'
  BY <1>1, <1>3, <1>4, <1>5
<1>7. IsFiniteSet(files') /\ ledger' \in 0 .. MaxEntries
  BY <1>1 DEF LedgerInv
<1> QED BY <1>t, <1>2, <1>6, <1>7, LedgerKept

-----------------------------------------------------------------------------
(* Steps that write.                                                       *)

\* A declaration is one entry, and one less is owed.
LEMMA DeclareLedger ==
  ASSUME CacheInv, TypeInv', LedgerInv, NEW o \in Owners, Declare(o) \/ DeclareReserved(o)
  PROVE  LedgerInv'
<1>t. TypeInv /\ op[o] \in Operations /\ op[o].left \in Nat
  BY DEF CacheInv, TypeInv, Operations
<1>1. UNCHANGED <<files, temps, ledger>> /\ intents' = intents \cup {NewId} /\ FreeIds # {}
  BY DEF Declare, DeclareReserved
<1>2. PICK r : /\ Set(o, r) /\ r.left \in Nat
               /\ \/ r.write = "none" /\ op[o].write = "charged" /\ op[o].left > 0 /\ r.left = op[o].left
                  \/ r.write = "declared" /\ op[o].write = "charged" /\ op[o].left = 0 /\ r.left = 0
                  \/ r.write = "declared" /\ op[o].write = "none" /\ r.left + 1 = op[o].left
  <2>1. CASE Declare(o) /\ op[o].left > 0
    <3> DEFINE r == [op[o] EXCEPT !.write = "none", !.hold = NewId]
    <3>1. Set(o, r) /\ r.left = op[o].left /\ r.write = "none" /\ op[o].write = "charged"
      BY <1>t, <2>1 DEF Operations, Declare
    <3> HIDE DEF r
    <3> QED BY <1>t, <2>1, <3>1
  <2>2. CASE Declare(o) /\ ~(op[o].left > 0)
    <3> DEFINE r == [op[o] EXCEPT !.write = "declared", !.id = NewId]
    <3>1. Set(o, r) /\ r.left = op[o].left /\ r.write = "declared" /\ op[o].write = "charged"
      BY <1>t, <2>2 DEF Operations, Declare
    <3> HIDE DEF r
    <3> QED BY <1>t, <2>2, <3>1
  <2>3. CASE DeclareReserved(o)
    <3>1. PICK f \in Targets(o) : Set(o, [op[o] EXCEPT !.write = "declared", !.id = NewId,
                                                        !.target = f, !.left = op[o].left - 1])
      BY <2>3, Zenon DEF DeclareReserved
    <3> DEFINE r == [op[o] EXCEPT !.write = "declared", !.id = NewId, !.target = f,
                                  !.left = op[o].left - 1]
    <3>2. Set(o, r) /\ r.left = op[o].left - 1 /\ r.write = "declared"
      BY <1>t, <3>1 DEF Operations
    <3>3. op[o].write = "none" /\ op[o].left > 0
      BY <2>3 DEF DeclareReserved
    <3> HIDE DEF r
    <3> QED BY <1>t, <3>2, <3>3
  <2> QED BY <2>1, <2>2, <2>3
<1>3. op'[o] = r /\ \A p \in Owners \ {o} : op'[p] = op[p]
  BY <1>t, <1>2, IsSet
<1>4. Owed(o)' + 1 = Owed(o) /\ Owed(o)' \in Nat
  <2>1. CASE r.write = "none" /\ op[o].write = "charged" /\ op[o].left > 0 /\ r.left = op[o].left
    BY <1>t, <1>3, <2>1 DEF Owed
  <2>2. CASE r.write = "declared" /\ op[o].write = "charged" /\ op[o].left = 0 /\ r.left = 0
    BY <1>3, <2>2 DEF Owed
  <2>3. CASE r.write = "declared" /\ op[o].write = "none" /\ r.left + 1 = op[o].left
    BY <1>t, <1>2, <1>3, <2>3 DEF Owed
  <2> QED BY <1>2, <2>1, <2>2, <2>3
<1>5. Cardinality(intents') = Cardinality(intents) + 1
  <2>1. NewId \notin intents /\ IsFiniteSet(intents)
    BY <1>t, <1>1, FreshId, IdSets DEF TypeInv
  <2> QED BY <1>1, <2>1, FS_AddElement
<1>6. /\ Cardinality(files) \in Nat /\ Cardinality(intents) \in Nat /\ Cardinality(temps) \in Nat
      /\ ledger \in Nat
  BY <1>t, Counted
<1>7. Cardinality(files') + Cardinality(intents') + Cardinality(temps') + Owed(o)' + ledger
        <= Cardinality(files) + Cardinality(intents) + Cardinality(temps) + Owed(o) + ledger'
  BY <1>1, <1>4, <1>5, <1>6
<1>8. IsFiniteSet(files') /\ ledger' \in 0 .. MaxEntries
  BY <1>1 DEF LedgerInv
<1> QED BY <1>t, <1>3, <1>7, <1>8, LedgerKept

\* The temporary is one entry, which its write owes no longer.
LEMMA CreateTempLedger ==
  ASSUME CacheInv, TypeInv', LedgerInv, NEW o \in Owners, CreateTemp(o)
  PROVE  LedgerInv'
<1>t. TypeInv /\ op[o] \in Operations /\ op[o].left \in Nat
  BY DEF CacheInv, TypeInv, Operations
<1> DEFINE r == [op[o] EXCEPT !.write = "temp"]
<1>1. /\ op[o].write = "declared" /\ Set(o, r) /\ temps' = temps \cup {op[o].id}
      /\ UNCHANGED <<files, intents, ledger>> /\ r.left = op[o].left /\ r.write = "temp"
  BY <1>t DEF CreateTemp, Operations
<1> HIDE DEF r
<1>2. op'[o] = r /\ \A p \in Owners \ {o} : op'[p] = op[p]
  BY <1>t, <1>1, IsSet
<1>3. Owed(o)' + 1 = Owed(o) /\ Owed(o)' \in Nat
  BY <1>t, <1>1, <1>2 DEF Owed
<1>4. /\ Cardinality(files) \in Nat /\ Cardinality(intents) \in Nat /\ Cardinality(temps) \in Nat
      /\ ledger \in Nat
  BY <1>t, Counted
<1>5. Cardinality(temps') \in {Cardinality(temps), Cardinality(temps) + 1}
  <2>1. IsFiniteSet(temps)
    BY <1>t, IdSets DEF TypeInv
  <2> QED BY <1>1, <2>1, FS_AddElement
<1>6. Cardinality(files') + Cardinality(intents') + Cardinality(temps') + Owed(o)' + ledger
        <= Cardinality(files) + Cardinality(intents) + Cardinality(temps) + Owed(o) + ledger'
  BY <1>1, <1>3, <1>4, <1>5
<1>7. IsFiniteSet(files') /\ ledger' \in 0 .. MaxEntries
  BY <1>1 DEF LedgerInv
<1> QED BY <1>t, <1>2, <1>6, <1>7, LedgerKept

\* A removed file was charged when it was written.
LEMMA RemoveLedger ==
  ASSUME CacheInv, TypeInv', LedgerInv, NEW o \in Owners, Remove(o)
  PROVE  LedgerInv'
<1>t. TypeInv /\ op[o] \in Operations /\ op[o].left \in Nat
  BY DEF CacheInv, TypeInv, Operations
<1>1. UNCHANGED <<intents, temps, ledger>> /\ files' \subseteq files
  BY DEF Remove
<1>2. PICK at : Set(o, [op[o] EXCEPT !.at = at])
  BY DEF Remove
<1> DEFINE r == [op[o] EXCEPT !.at = at]
<1>3. Set(o, r) /\ r.left = op[o].left /\ r.write = op[o].write
  BY <1>t, <1>2 DEF Operations
<1> HIDE DEF r
<1>4. op'[o] = r /\ \A p \in Owners \ {o} : op'[p] = op[p]
  BY <1>t, <1>3, IsSet
<1>5. Owed(o)' = Owed(o) /\ Owed(o) \in Nat
  BY <1>t, <1>3, <1>4 DEF Owed
<1>6. IsFiniteSet(files') /\ Cardinality(files') <= Cardinality(files) /\ Cardinality(files') \in Nat
  BY <1>1, FS_Subset, FS_CardinalityType DEF LedgerInv
<1>7. /\ Cardinality(files) \in Nat /\ Cardinality(intents) \in Nat /\ Cardinality(temps) \in Nat
      /\ ledger \in Nat
  BY <1>t, Counted
<1>8. Cardinality(files') + Cardinality(intents') + Cardinality(temps') + Owed(o)' + ledger
        <= Cardinality(files) + Cardinality(intents) + Cardinality(temps) + Owed(o) + ledger'
  BY <1>1, <1>5, <1>6, <1>7
<1>9. ledger' \in 0 .. MaxEntries
  BY <1>1 DEF LedgerInv
<1> QED BY <1>t, <1>4, <1>6, <1>8, <1>9, LedgerKept

\* The rename puts a file where the temporary was.
LEMMA PublishLedger ==
  ASSUME CacheInv, TypeInv', LedgerInv, NEW o \in Owners, Publish(o)
  PROVE  LedgerInv'
<1>t. TypeInv /\ IdentityOK(o) /\ op[o] \in Operations /\ op[o].left \in Nat
  BY DEF CacheInv, IdentityInv, TypeInv, Operations
<1>1. /\ op[o].write = "temp" /\ temps' = temps \ {op[o].id} /\ files' = files \cup {op[o].target}
      /\ ledger' = ledger
  BY DEF Publish
<1>2. PICK gone : Dropped(gone)
  BY DEF Publish
<1>3. PICK r : Set(o, r) /\ r.left \in Nat /\ r.left <= op[o].left /\ r.write = "none"
  <2>1. CASE After(o) = "idle"
    <3>1. Set(o, Idle)
      BY <2>1 DEF Publish
    <3> QED BY <1>t, <3>1, IdleType
  <2>2. CASE After(o) # "idle"
    <3> DEFINE s == [op[o] EXCEPT !.at = After(o), !.write = "none", !.id = 0, !.target = Index]
    <3>1. Set(o, s) /\ s.left = op[o].left /\ s.write = "none"
      BY <1>t, <2>2 DEF Publish, Operations
    <3> HIDE DEF s
    <3> QED BY <1>t, <3>1
  <2> QED BY <2>1, <2>2
<1>4. op'[o] = r /\ \A p \in Owners \ {o} : op'[p] = op[p]
  BY <1>t, <1>3, IsSet
<1>5. Owed(o)' <= Owed(o) /\ Owed(o)' \in Nat /\ Owed(o) \in Nat
  BY <1>t, <1>1, <1>3, <1>4 DEF Owed
<1>6. /\ Cardinality(files) \in Nat /\ Cardinality(intents) \in Nat /\ Cardinality(temps) \in Nat
      /\ ledger \in Nat
  BY <1>t, Counted
<1>7. Cardinality(intents') <= Cardinality(intents) /\ Cardinality(intents') \in Nat
  <2>1. intents' \subseteq intents
    BY <1>2 DEF Dropped
  <2> QED BY <1>t, <2>1, IdSets, FS_Subset DEF TypeInv
<1>8. Cardinality(temps') = Cardinality(temps) - 1
  <2>1. op[o].id \in temps /\ IsFiniteSet(temps)
    BY <1>t, <1>1, IdSets DEF IdentityOK, TypeInv
  <2> QED BY <1>1, <2>1, FS_RemoveElement
<1>9. IsFiniteSet(files') /\ Cardinality(files') \in {Cardinality(files), Cardinality(files) + 1}
  <2>1. IsFiniteSet(files)
    BY DEF LedgerInv
  <2> QED BY <1>1, <2>1, FS_AddElement
<1>10. Cardinality(files') + Cardinality(intents') + Cardinality(temps') + Owed(o)' + ledger
         <= Cardinality(files) + Cardinality(intents) + Cardinality(temps) + Owed(o) + ledger'
  BY <1>1, <1>5, <1>6, <1>7, <1>8, <1>9
<1>11. ledger' \in 0 .. MaxEntries
  BY <1>1 DEF LedgerInv
<1> QED BY <1>t, <1>4, <1>9, <1>10, <1>11, LedgerKept

-----------------------------------------------------------------------------
(* The collector and crashes.                                              *)

\* They leave no operation, and nothing owed.
LEMMA NothingOwed ==
  ASSUME \A o \in Owners : op[o] = Idle
  PROVE  Debts = {} /\ IsFiniteSet(Debts) /\ Cardinality(Debts) = 0
<1>1. ASSUME NEW o \in Owners PROVE DebtsOf(o) = {}
  <2>1. Owed(o) = 0
    BY IdleType DEF Owed
  <2> QED BY <2>1 DEF DebtsOf
<1>2. Debts = {}
  BY <1>1 DEF Debts
<1> QED BY <1>2, FS_EmptySet

\* An unlink, a pass cut short or a crash keeps the charges; the end of a pass sets them to
\* what there is.
LEMMA CollectLedger ==
  ASSUME CacheInv, CacheInv', LedgerInv, Collect \/ Crash
  PROVE  LedgerInv'
<1>t. TypeInv /\ TypeInv' /\ IdentityInv /\ IdentityInv'
  BY DEF CacheInv
<1>1. \A o \in Owners : op'[o] = Idle
  <2>1. CASE Crash
    BY <2>1 DEF Crash
  <2>2. CASE CollectBegin
    BY <1>t, <2>2 DEF CollectBegin, Quiescent, IdentityInv, IdentityOK
  <2>3. CASE Unlink \/ CollectReset \/ CollectFail
    <3>1. col.on /\ op' = op
      BY <2>3 DEF Unlink, CollectReset, CollectFail, NoPass
    <3> QED BY <1>t, <3>1 DEF CacheInv, CollectorInv, Quiescent, IdentityInv, IdentityOK
  <2> QED BY <2>1, <2>2, <2>3 DEF Collect
<1>2. IsFiniteSet(Debts') /\ Cardinality(Debts') = 0
  <2>1. ASSUME NEW o \in Owners PROVE DebtsOf(o)' = {}
    <3>1. Owed(o)' = 0
      BY <1>1, IdleType DEF Owed
    <3> QED BY <3>1 DEF DebtsOf
  <2>2. Debts' = {}
    BY <2>1 DEF Debts
  <2> QED BY <2>2, FS_EmptySet
<1>3. /\ files' \subseteq files /\ intents' \subseteq intents /\ temps' \subseteq temps
      /\ \/ ledger' = ledger
         \/ ledger' = Physical + Slack /\ UNCHANGED <<files, intents, temps>>
  <2>1. CASE Unlink
    BY <2>1 DEF Unlink, UnlinkIntent, UnlinkTemp
  <2>2. CASE CollectBegin \/ CollectReset \/ CollectFail \/ Crash
    BY <2>2 DEF CollectBegin, CollectReset, CollectFail, Crash
  <2> QED BY <2>1, <2>2 DEF Collect
<1>4. /\ Cardinality(files) \in Nat /\ Cardinality(intents) \in Nat /\ Cardinality(temps) \in Nat
      /\ Cardinality(Debts) \in Nat /\ ledger \in Nat /\ Slack \in Nat /\ MaxEntries \in Nat
  BY <1>t, Counted
<1>5. IsFiniteSet(files') /\ Cardinality(files') <= Cardinality(files) /\ Cardinality(files') \in Nat
  BY <1>3, FS_Subset, FS_CardinalityType DEF LedgerInv
<1>6. /\ Cardinality(intents') <= Cardinality(intents) /\ Cardinality(temps') <= Cardinality(temps)
      /\ Cardinality(intents') \in Nat /\ Cardinality(temps') \in Nat
  BY <1>t, <1>3, IdSets, FS_Subset DEF TypeInv
<1>7. /\ ledger <= MaxEntries
      /\ Cardinality(files) + Cardinality(intents) + Cardinality(temps) + Cardinality(Debts) + Slack
           <= ledger
  BY <1>4 DEF LedgerInv
<1>8. /\ ledger' \in 0 .. MaxEntries
      /\ Cardinality(files') + Cardinality(intents') + Cardinality(temps') + 0 + Slack <= ledger'
  <2>1. CASE ledger' = ledger
    BY <1>4, <1>5, <1>6, <1>7, <2>1
  <2>2. CASE ledger' = Physical + Slack /\ UNCHANGED <<files, intents, temps>>
    BY <1>4, <1>7, <2>2 DEF Physical
  <2> QED BY <1>3, <2>1, <2>2
<1> QED BY <1>2, <1>5, <1>8 DEF LedgerInv

-----------------------------------------------------------------------------
(* The invariant, and what it gives.                                       *)

LEMMA AccountInit == Init => AccountInv
<1> SUFFICES ASSUME Init PROVE AccountInv
  OBVIOUS
<1>1. CacheInv
  BY CacheInit
<1>2. IsFiniteSet(Debts) /\ Cardinality(Debts) = 0
  BY NothingOwed DEF Init
<1>3. IsFiniteSet({}) /\ Cardinality({}) = 0
  BY FS_EmptySet
<1>4. files = {} /\ intents = {} /\ temps = {} /\ ledger = Slack
  BY DEF Init
<1>5. LedgerInv
  BY <1>2, <1>3, <1>4, CacheAssumption DEF LedgerInv
<1>6. ReadyInv
  BY DEF Init, ReadyInv
<1> QED BY <1>1, <1>5, <1>6 DEF AccountInv

LEMMA AccountStep == AccountInv /\ [Next]_vars => AccountInv'
<1> SUFFICES ASSUME AccountInv, [Next]_vars PROVE AccountInv'
  OBVIOUS
<1>1. CacheInv /\ ReadyInv /\ LedgerInv
  BY DEF AccountInv
<1>2. CacheInv'
  BY <1>1, CacheStep, WritesCounted
<1>3. TypeInv'
  BY <1>2 DEF CacheInv
<1>4. ASSUME Collect \/ Crash PROVE LedgerInv'
  BY <1>1, <1>2, <1>4, CollectLedger
<1>5. ASSUME NEW o \in Owners,
             \/ Open(o) \/ Retain(o) \/ Hydrate(o) \/ Release(o) \/ Retire(o) \/ Refuse(o)
             \/ Publish(o) \/ Fail(o)
      PROVE  LedgerInv'
  BY <1>1, <1>3, <1>5, BeginLedger, EndLedger, PublishLedger
<1>6. ASSUME NEW o \in Owners, Write(o) PROVE LedgerInv'
  BY <1>1, <1>3, <1>6, ChargeLedger, DeclareLedger, CreateTempLedger, RemoveLedger, EndLedger DEF Write
<1>7. ASSUME UNCHANGED vars PROVE LedgerInv'
  <2>1. ASSUME NEW o \in Owners PROVE DebtsOf(o)' = DebtsOf(o)
    BY <1>7 DEF DebtsOf, Owed, vars
  <2>2. Debts' = Debts
    BY <2>1 DEF Debts
  <2> QED BY <1>1, <1>7, <2>2 DEF LedgerInv, vars
<1>8. ASSUME NEW o \in Owners, HydrateRetained(o) \/ HydrateRefused(o) PROVE LedgerInv'
  <2>1. UNCHANGED <<files, intents, temps, ledger, op>>
    BY <1>8 DEF HydrateRetained, HydrateRefused
  <2>2. ASSUME NEW p \in Owners PROVE DebtsOf(p)' = DebtsOf(p)
    BY <2>1 DEF DebtsOf, Owed
  <2>3. Debts' = Debts
    BY <2>2 DEF Debts
  <2> QED BY <1>1, <2>1, <2>3 DEF LedgerInv
<1>9. LedgerInv'
  BY <1>4, <1>5, <1>6, <1>7, <1>8 DEF Next
<1>10. ReadyInv'
  BY <1>1, ReadyStep
<1> QED BY <1>2, <1>9, <1>10 DEF AccountInv

\* Ledger, declarations, operations and collector fit together, whatever owners, contents,
\* limits and faults there are (cache_retention.rs).
THEOREM CacheInvariant == Spec => []AccountInv
BY AccountInit, AccountStep, PTL DEF Spec

\* Everything is of its kind, and no admission or collection brings the ledger above the
\* limit of the scope (cache_retention.rs begin_with_budget, reserve_charge, collect_scope).
THEOREM CacheTypes == Spec => []TypeOK
<1>1. AccountInv => TypeOK
  BY DEF AccountInv, CacheInv, TypeInv, ReadyInv, LedgerInv, TypeOK
<1> QED BY <1>1, CacheInvariant, PTL

\* What is on disk has been charged, and every temporary is declared, through failed
\* cleanups, collections cut short and crashes (cache_retention.rs WriteAdmission, collect_scope).
THEOREM CacheDiskAccounted == Spec => []DiskAccounted
<1>1. AccountInv => DiskAccounted
  <2> SUFFICES ASSUME AccountInv PROVE DiskAccounted
    OBVIOUS
  <2>1. TypeInv /\ LedgerInv /\ temps \subseteq intents
    BY DEF AccountInv, CacheInv, IdentityInv
  <2>2. /\ Cardinality(files) \in Nat /\ Cardinality(intents) \in Nat /\ Cardinality(temps) \in Nat
        /\ Cardinality(Debts) \in Nat /\ ledger \in Nat /\ Slack \in Nat /\ MaxEntries \in Nat
    BY <2>1, Counted
  <2>3. Conservative
    BY <2>1, <2>2 DEF LedgerInv, Conservative, Physical
  <2> QED BY <2>1, <2>3 DEF DiskAccounted, LeftoversDeclared
<1> QED BY <1>1, CacheInvariant, PTL

\* A pinned snapshot keeps its content, its root and its retained use: no collection,
\* retirement or reopening takes them away (cache_retention.rs collect_scope, retire_cache_use).
THEOREM CachePinnedSurvives == Spec => []PinnedSurvives
<1>1. AccountInv => PinnedSurvives
  BY DEF AccountInv, CacheInv, PinInv, PinOK, PinnedSurvives
<1> QED BY <1>1, CacheInvariant, PTL
=============================================================================
