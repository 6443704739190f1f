------------------------ MODULE CacheRetentionProofs ------------------------
(***************************************************************************)
(* Lemmas about CacheRetention: for any owners, contents, limits and       *)
(* number of faults, its steps keep the temporaries declared, the          *)
(* identities apart and what the pins guard.  What is counted, and the     *)
(* theorems, are in CacheLedgerProofs.                                     *)
(***************************************************************************)
EXTENDS CacheRetention, TLAPS

\* The identities that an operation uses are declared, and its own.
Identities(o) == {op[o].id, op[o].hold} \ {0}

IdentityOK(o) ==
  /\ op[o].at = "idle" => op[o] = Idle
  /\ op[o].write \notin {"declared", "temp"} => op[o].id = 0
  /\ op[o].write \in {"declared", "temp"} => op[o].id # 0
  /\ op[o].write = "temp" => op[o].id \in temps
  /\ Identities(o) \subseteq intents
  /\ op[o].hold # 0 => op[o].hold \notin temps /\ op[o].hold # op[o].id

IdentityInv ==
  /\ temps \subseteq intents /\ \A o \in Owners : IdentityOK(o)
  /\ \A o, p \in Owners : o # p => Identities(o) \cap Identities(p) = {}

\* What an operation may write, and what it relies on meanwhile.
Unpins == {"unregister", "retire"}
Guarded == {"invalidate", "activate", "unrevoke", "hydrate"}

TargetOK(o) ==
  LET f == op[o].target IN
  /\ f \in Blobs \cup {Index} \cup ({o} \X Kinds)
  /\ f = <<o, "pin">> => op[o].at = "hydrate" /\ Needs[o] \subseteq files
  /\ f = <<o, "use">> => op[o].at \in {"use", "retire", "retain"}

PinOK(o) ==
  /\ op[o].at # "idle" => o \in dirs
  /\ \A kind \in Kinds : Has(o, kind) => o \in dirs
  /\ Has(o, "pin") => /\ Needs[o] \subseteq files /\ Has(o, "root") /\ Has(o, "use")
                      /\ use[o] = "retained" /\ o \notin released
  /\ op[o].at \in Guarded => Has(o, "root") /\ Has(o, "use") /\ use[o] = "retained"
  /\ op[o].at \in {"unrevoke", "hydrate"} => o \notin released
  /\ op[o].at \in Unpins \/ (op[o].at = "use" /\ op[o].write # "none") => ~Has(o, "pin")
  /\ op[o].write # "none" => TargetOK(o)

PinInv == \A o \in Owners : PinOK(o)

\* The collector is alone, takes no temporary's declaration before the temporary, and
\* only files that no live owner needs.
CollectorInv ==
  col.on => Quiescent /\ col.intents \cap temps \subseteq col.temps /\ col.files \subseteq Stale

TypeInv ==
  /\ files \subseteq Files /\ dirs \subseteq Owners /\ use \in [Owners -> Uses]
  /\ released \subseteq Owners /\ finished \subseteq Owners /\ intents \subseteq Ids /\ temps \subseteq Ids
  /\ faults \in 0 .. MaxFaults /\ ctl \in BOOLEAN /\ op \in [Owners -> Operations]
  /\ col \in [on : BOOLEAN, files : SUBSET Files, temps : SUBSET Ids, intents : SUBSET Ids,
               ctl : BOOLEAN]

\* The inductive invariant of what holds in every lock section.
CacheInv == TypeInv /\ IdentityInv /\ PinInv /\ CollectorInv

\* What a hydration has retained stays so until it takes the locks again: no operation is
\* about to write another use.
ReadyOK(o) ==
  /\ Has(o, "root") /\ Has(o, "use") /\ use[o] = "retained" /\ op[o].at # "retire"
  /\ op[o].at = "use" => op[o].write = "none"

ReadyInv == ready \subseteq Owners /\ \A o \in ready : ReadyOK(o)

-----------------------------------------------------------------------------
(* A step of one owner.                                                    *)

\* An operation keeps the others' identities when it takes none of them and adds only fresh
\* ones to its own.
LEMMA IdentityKept ==
  ASSUME TypeInv, IdentityInv, NEW o \in Owners, \A p \in Owners \ {o} : op'[p] = op[p],
         intents \ Identities(o) \subseteq intents', temps \ Identities(o) \subseteq temps',
         temps' \subseteq temps \cup {op[o].id},
         Identities(o)' \subseteq Identities(o) \cup (Ids \ intents),
         temps' \subseteq intents', IdentityOK(o)'
  PROVE  IdentityInv'
<1>1. ASSUME NEW p \in Owners \ {o}
      PROVE  /\ IdentityOK(p) /\ Identities(p)' = Identities(p)
             /\ Identities(p) \cap Identities(o) = {} /\ Identities(p) \subseteq intents
  <2>1. Identities(p)' = Identities(p)
    BY DEF Identities
  <2> QED BY <2>1 DEF IdentityInv, IdentityOK
<1>2. ASSUME NEW p \in Owners \ {o} PROVE IdentityOK(p)'
  <2>1. /\ op'[p] = op[p] /\ IdentityOK(p) /\ Identities(p)' = Identities(p)
        /\ Identities(p) \cap Identities(o) = {} /\ Identities(p) \subseteq intents
    BY <1>1
  <2>2. Identities(p)' \subseteq intents'
    BY <2>1
  <2>3. op[p].write = "temp" => op[p].id \in temps'
    BY <2>1 DEF IdentityOK, Identities
  <2>4. op[p].hold # 0 => op[p].hold \notin temps'
    <3>1. op[p].hold # 0 => op[p].hold \notin temps /\ op[p].hold # op[o].id
      BY <2>1 DEF IdentityOK, Identities
    <3> QED BY <3>1
  <2> QED BY <2>1, <2>2, <2>3, <2>4 DEF IdentityOK
<1>3. ASSUME NEW p \in Owners, NEW q \in Owners, p # q
      PROVE  Identities(p)' \cap Identities(q)' = {}
  <2>1. CASE p # o /\ q # o
    BY <1>1, <1>3, <2>1 DEF IdentityInv
  <2>2. CASE p = o
    BY <1>1, <1>3, <2>2
  <2>3. CASE q = o
    BY <1>1, <1>3, <2>3
  <2> QED BY <2>1, <2>2, <2>3
<1> QED BY <1>2, <1>3 DEF IdentityInv

\* It keeps what the others rely on when it takes none of their files and no content.
LEMMA PinKept ==
  ASSUME TypeInv, PinInv, NEW o \in Owners, \A p \in Owners \ {o} : op'[p] = op[p],
         \A p \in Owners \ {o}, kind \in Kinds : <<p, kind>> \in files' <=> <<p, kind>> \in files,
         files \cap Blobs \subseteq files', dirs \subseteq dirs',
         \A p \in Owners \ {o} : use'[p] = use[p] /\ (p \in released' => p \in released),
         PinOK(o)'
  PROVE  PinInv'
<1> SUFFICES ASSUME NEW p \in Owners \ {o} PROVE PinOK(p)'
  BY DEF PinInv
<1>1. PinOK(p)
  BY DEF PinInv
<1>2. \A kind \in Kinds : Has(p, kind)' <=> Has(p, kind)
  BY DEF Has
<1>3. Needs[p] \subseteq files => Needs[p] \subseteq files'
  BY CacheAssumption
<1>4. op[p].write # "none" => TargetOK(p)'
  BY <1>1, <1>3 DEF PinOK, TargetOK
<1>5. "pin" \in Kinds /\ "root" \in Kinds /\ "use" \in Kinds
  BY DEF Kinds
<1> QED BY <1>1, <1>2, <1>3, <1>4, <1>5 DEF PinOK

\* While an operation runs the collector does not.
LEMMA CollectorOff ==
  ASSUME CollectorInv, NEW o \in Owners, op[o].at # "idle" \/ ~col.on, col' = col
  PROVE  ~col.on /\ CollectorInv'
<1>1. ~col.on
  BY DEF CollectorInv, Quiescent
<1> QED BY <1>1 DEF CollectorInv

LEMMA SetOp ==
  ASSUME op \in [Owners -> Operations], NEW o \in Owners, NEW r \in Operations, Set(o, r)
  PROVE  op' \in [Owners -> Operations] /\ op'[o] = r /\ \A p \in Owners \ {o} : op'[p] = op[p]
  BY DEF Set

LEMMA IdleType == /\ Idle \in Operations /\ Idle.at = "idle" /\ Idle.write = "none"
                  /\ Idle.id = 0 /\ Idle.hold = 0 /\ Idle.left = 0
<1>1. Index \in Files /\ 0 \in 0 .. MaxIds
  BY CacheAssumption DEF Files
<1> QED BY <1>1 DEF Idle, Operations, Writes

LEMMA Apart ==
  ASSUME NEW o \in Owners, NEW kind \in Kinds
  PROVE  Index # <<o, kind>> /\ <<o, kind>> \notin Blobs /\ Index \notin Blobs
<1>1. Index # <<o, kind>>
  BY DEF Index, Kinds
<1> QED BY <1>1, BlobsAssumption

LEMMA FreshId ==
  ASSUME FreeIds # {}
  PROVE  NewId \in Ids /\ NewId \notin intents /\ NewId \notin temps /\ NewId # 0
  BY DEF NewId, FreeIds, Ids

-----------------------------------------------------------------------------
(* Beginning an operation.                                                 *)

\* What an operation must find to begin: nothing is written, and what it is charged covers
\* what it owes.
LEMMA BeginKeeps ==
  ASSUME CacheInv, NEW o \in Owners, NEW r \in Operations, Begin(o, r),
         r.id = 0, r.hold = 0, r.target = Index, r.at # "idle", r.write \in {"none", "charged"},
         r.at \notin {"unrevoke", "hydrate"}, r.at = "use" => r.write = "none",
         r.at \in Guarded => Has(o, "root") /\ Has(o, "use") /\ use[o] = "retained",
         r.at \in Unpins => ~Has(o, "pin"),
         dirs \subseteq dirs', dirs' \subseteq Owners, o \in dirs',
         UNCHANGED <<files, use, released, finished, intents, temps, ctl, col, faults>>
  PROVE  CacheInv'
<1>t. TypeInv
  BY DEF CacheInv
<1>1. /\ op' \in [Owners -> Operations] /\ op'[o] = r /\ \A p \in Owners \ {o} : op'[p] = op[p]
      /\ op[o].at = "idle" /\ ~col.on
  BY <1>t, SetOp DEF Begin, TypeInv
<1>2. op[o] = Idle
  BY <1>1 DEF CacheInv, IdentityInv, IdentityOK
<1>3. TypeInv'
  BY <1>t, <1>1 DEF TypeInv
<1>5. IdentityInv'
  <2>1. Identities(o)' = {} /\ Identities(o) = {}
    BY <1>1, <1>2, IdleType DEF Identities
  <2>2. IdentityOK(o)'
    BY <1>1, <2>1 DEF IdentityOK
  <2>3. IdentityInv /\ temps \subseteq intents
    BY DEF CacheInv, IdentityInv
  <2> QED BY <1>t, <1>1, <2>1, <2>2, <2>3, IdentityKept
<1>6. PinInv'
  <2>1. PinInv /\ PinOK(o)
    BY DEF CacheInv, PinInv
  <2>2. \A kind \in Kinds : Has(o, kind)' <=> Has(o, kind)
    BY DEF Has
  <2>3. "pin" \in Kinds /\ "root" \in Kinds /\ "use" \in Kinds
    BY DEF Kinds
  <2>4. TargetOK(o)'
    BY <1>1, <2>3, Apart DEF TargetOK
  <2>5. PinOK(o)'
    BY <1>1, <2>1, <2>2, <2>3, <2>4 DEF PinOK
  <2> QED BY <1>t, <1>1, <2>1, <2>5, PinKept
<1>7. CollectorInv'
  BY <1>1, CollectorOff DEF CacheInv
<1> QED BY <1>3, <1>5, <1>6, <1>7 DEF CacheInv

LEMMA OpenKeeps ==
  ASSUME CacheInv, NEW o \in Owners, Open(o), UNCHANGED faults
  PROVE  CacheInv'
<1> DEFINE r == [Idle EXCEPT !.at = IF Has(o, "reg") THEN "use" ELSE "record"]
<1>1. /\ r \in Operations /\ r.at \in {"use", "record"} /\ r.write = "none" /\ r.id = 0 /\ r.hold = 0
      /\ r.left = 0 /\ r.target = Index
  BY IdleType DEF Idle, Operations
<1>2. Begin(o, r)
  BY DEF Open
<1>3. dirs' = dirs \cup {o} /\ dirs \subseteq Owners
  BY DEF Open, CacheInv, TypeInv
<1> HIDE DEF r
<1>7. r.at \notin {"idle", "unrevoke", "hydrate"} /\ r.at \notin Guarded /\ r.at \notin Unpins
  BY <1>1 DEF Guarded, Unpins
<1>8. UNCHANGED <<files, use, released, finished, intents, temps, ctl, col, faults>>
  BY DEF Open
<1>9. dirs \subseteq dirs' /\ dirs' \subseteq Owners /\ o \in dirs'
  BY <1>3
<1> QED BY <1>1, <1>2, <1>7, <1>8, <1>9, BeginKeeps

\* Reserving, for a hydration or a retention.
LEMMA ReserveKeeps ==
  ASSUME CacheInv, NEW o \in Owners, NEW at \in {"retain", "invalidate"}, NEW writes \in Nat \ {0},
         NEW tier \in {"proof", "normal"}, Reserve(o, at, writes, tier), UNCHANGED faults,
         Has(o, "use"), at = "invalidate" => Has(o, "root") /\ use[o] = "retained"
  PROVE  CacheInv'
<1> DEFINE r == [Idle EXCEPT !.at = at, !.write = "charged", !.left = writes]
<1>1. /\ r \in Operations /\ r.at = at /\ r.write = "charged" /\ r.id = 0 /\ r.hold = 0
      /\ r.left = writes /\ r.target = Index
  BY IdleType, Zenon DEF Idle, Operations, Writes
<1>2. Begin(o, r)
  BY DEF Reserve
<1>3. dirs \subseteq Owners
  BY DEF CacheInv, TypeInv
<1> HIDE DEF r
<1>8. /\ r.at \notin {"idle", "use", "unrevoke", "hydrate"} /\ r.at \notin Unpins
      /\ (r.at \in Guarded => Has(o, "root") /\ Has(o, "use") /\ use[o] = "retained")
  BY <1>1 DEF Guarded, Unpins
<1>9. UNCHANGED <<files, dirs, use, released, finished, intents, temps, ctl, col, faults>>
  BY DEF Reserve, Kept
<1>10. o \in dirs
  BY DEF CacheInv, PinInv, PinOK, Kinds
<1>11. dirs \subseteq dirs' /\ dirs' \subseteq Owners /\ o \in dirs'
  BY <1>3, <1>9, <1>10
<1> QED BY <1>1, <1>2, <1>8, <1>9, <1>11, BeginKeeps

LEMMA RetainKeeps ==
  ASSUME CacheInv, NEW o \in Owners, Retain(o), UNCHANGED faults
  PROVE  CacheInv'
  BY ReserveKeeps DEF Retain

LEMMA HydrateKeeps ==
  ASSUME CacheInv, ReadyInv, NEW o \in Owners, Hydrate(o), UNCHANGED faults,
         HydrationWrites(o) \in Nat \ {0}
  PROVE  CacheInv'
  BY ReserveKeeps DEF Hydrate, ReadyInv, ReadyOK

LEMMA ReleaseOrRetireKeeps ==
  ASSUME CacheInv, NEW o \in Owners, Release(o) \/ Retire(o), UNCHANGED faults
  PROVE  CacheInv'
<1> DEFINE r(at) == [Idle EXCEPT !.at = at]
<1>1. \A at \in {"revoke", "retire"} :
        /\ r(at) \in Operations /\ r(at).at = at /\ r(at).write = "none" /\ r(at).id = 0
        /\ r(at).hold = 0 /\ r(at).left = 0 /\ r(at).target = Index
  BY IdleType DEF Idle, Operations
<1>2. PICK at \in {"revoke", "retire"} : Begin(o, r(at)) /\ (at = "retire" => ~Has(o, "pin"))
  BY DEF Release, Retire
<1>3. /\ UNCHANGED <<files, dirs, use, released, finished, intents, temps, ctl, col, faults>>
      /\ Has(o, "use")
  BY DEF Release, Retire, Kept
<1>4. dirs \subseteq Owners
  BY DEF CacheInv, TypeInv
<1>5. o \in dirs
  BY <1>3 DEF CacheInv, PinInv, PinOK, Kinds
<1> DEFINE s == r(at)
<1>6. /\ s \in Operations /\ s.at = at /\ s.write = "none" /\ s.id = 0
      /\ s.hold = 0 /\ s.left = 0 /\ s.target = Index /\ Begin(o, s)
  BY <1>1, <1>2
<1> HIDE DEF s, r
<1>9. /\ s.at \notin {"idle", "use", "unrevoke", "hydrate"} /\ s.at \notin Guarded
      /\ (s.at \in Unpins => ~Has(o, "pin"))
  BY <1>2, <1>6 DEF Guarded, Unpins
<1>10. dirs \subseteq dirs' /\ dirs' \subseteq Owners /\ o \in dirs'
  BY <1>3, <1>4, <1>5
<1> QED BY <1>3, <1>6, <1>9, <1>10, BeginKeeps

-----------------------------------------------------------------------------
(* Writing.                                                                *)

LEMMA TargetsOK ==
  ASSUME NEW o \in Owners, PinOK(o), NEW f \in Targets(o)
  PROVE  /\ f \in Blobs \cup {Index} \cup ({o} \X Kinds) /\ f \in Files
         /\ f = <<o, "pin">> => op[o].at = "hydrate" /\ Needs[o] \subseteq files
         /\ f = <<o, "use">> => op[o].at \in {"use", "retire", "retain"}
<1>k. /\ "rec" \in Kinds /\ "reg" \in Kinds /\ "use" \in Kinds /\ "root" \in Kinds
      /\ "revoke" \in Kinds /\ "pin" \in Kinds
  BY DEF Kinds
<1>1. CASE op[o].at = "hydrate"
  <2>1. f \in Needs[o] \/ (f = <<o, "pin">> /\ Needs[o] \subseteq files)
    BY <1>1 DEF Targets
  <2>2. Needs[o] \subseteq Blobs
    BY CacheAssumption
  <2>3. f \in Needs[o] => f # <<o, "pin">> /\ f # <<o, "use">>
    BY <1>k, <2>2, Apart
  <2> QED BY <1>1, <1>k, <2>1, <2>2, <2>3 DEF Files
<1>2. CASE op[o].at = "index"
  <2>1. f = Index
    BY <1>2 DEF Targets
  <2> QED BY <1>k, <2>1, Apart DEF Files
<1>3. CASE op[o].at \notin {"hydrate", "index"}
  <2>1. \/ f \in {<<o, "rec">>, <<o, "reg">>, <<o, "revoke">>, <<o, "root">>}
        \/ f = <<o, "use">> /\ op[o].at \in {"use", "retire", "retain"}
    BY <1>3 DEF Targets
  <2> QED BY <1>k, <2>1 DEF Files
<1> QED BY <1>1, <1>2, <1>3

\* An operation that goes on in the same place, or ends, with no file written.
LEMMA SamePlace ==
  ASSUME CacheInv, NEW o \in Owners, NEW r \in Operations, Set(o, r), op[o].at # "idle",
         UNCHANGED <<files, dirs, use, released>>,
         r.at \in {op[o].at, "idle"}, r.at = "idle" => r.write = "none",
         r.write # "none" => r.target \in Targets(o) \/ (op[o].write # "none" /\ r.target = op[o].target),
         r.at = "use" /\ r.write # "none" => op[o].write # "none" \/ ~Needless(o)
  PROVE  PinInv'
<1>1. TypeInv /\ PinInv /\ PinOK(o)
  BY DEF CacheInv, PinInv
<1>2. op'[o] = r /\ \A p \in Owners \ {o} : op'[p] = op[p]
  BY <1>1, SetOp DEF TypeInv
<1>3. \A kind \in Kinds : Has(o, kind)' <=> Has(o, kind)
  BY DEF Has
<1>4. "pin" \in Kinds /\ "root" \in Kinds /\ "use" \in Kinds
  BY DEF Kinds
<1>5. r.write # "none" => TargetOK(o)'
  <2>1. CASE op[o].write # "none" /\ r.target = op[o].target
    BY <1>1, <1>2, <2>1 DEF PinOK, TargetOK
  <2>2. CASE r.target \in Targets(o)
    BY <1>1, <1>2, <2>2, TargetsOK, Zenon DEF TargetOK
  <2> QED BY <2>1, <2>2
<1>6. r.at = "use" /\ r.write # "none" => ~Has(o, "pin")
  BY <1>1 DEF PinOK, Needless
<1>7. op[o].at \in Unpins => ~Has(o, "pin")
  BY <1>1 DEF PinOK
<1>8. "idle" \notin Guarded \cup Unpins
  BY DEF Guarded, Unpins
<1>9. PinOK(o)'
  BY <1>1, <1>2, <1>3, <1>4, <1>5, <1>6, <1>7, <1>8 DEF PinOK
<1> QED BY <1>1, <1>2, <1>9, PinKept

\* The same for the identities, when it takes and gives back none.
LEMMA SameIdentities ==
  ASSUME CacheInv, NEW o \in Owners, NEW r \in Operations, Set(o, r), r.at # "idle",
         UNCHANGED <<intents, temps>>, r.id = op[o].id, r.hold = op[o].hold,
         r.write \in {"declared", "temp"} <=> op[o].write \in {"declared", "temp"},
         r.write = "temp" => op[o].write = "temp"
  PROVE  IdentityInv'
<1>1. TypeInv /\ IdentityInv /\ IdentityOK(o) /\ temps \subseteq intents
  BY DEF CacheInv, IdentityInv
<1>2. op'[o] = r /\ \A p \in Owners \ {o} : op'[p] = op[p]
  BY <1>1, SetOp DEF TypeInv
<1>3. Identities(o)' = Identities(o)
  BY <1>2 DEF Identities
<1>4. IdentityOK(o)'
  BY <1>1, <1>2, <1>3 DEF IdentityOK
<1> QED BY <1>1, <1>2, <1>3, <1>4, IdentityKept

LEMMA ChargeKeeps ==
  ASSUME CacheInv, NEW o \in Owners, Charge(o), UNCHANGED faults
  PROVE  CacheInv'
<1>t. TypeInv /\ PinOK(o) /\ IdentityOK(o) /\ op[o] \in Operations
  BY DEF CacheInv, PinInv, IdentityInv, TypeInv
<1>1. PICK f \in Targets(o) : Set(o, [op[o] EXCEPT !.write = "charged", !.target = f])
  BY Zenon DEF Charge
<1> DEFINE r == [op[o] EXCEPT !.write = "charged", !.target = f]
<1>2. f \in Files
  BY <1>t, TargetsOK
<1>3. /\ r \in Operations /\ r.at = op[o].at /\ r.write = "charged" /\ r.id = op[o].id
      /\ r.hold = op[o].hold /\ r.left = op[o].left /\ r.target = f
  BY <1>t, <1>2, Zenon DEF Operations, Writes
<1>4. Set(o, r)
  BY <1>1
<1> HIDE DEF r
<1>5. op'[o] = r /\ op' \in [Owners -> Operations] /\ \A p \in Owners \ {o} : op'[p] = op[p]
  BY <1>t, <1>3, <1>4, SetOp DEF TypeInv
<1>6. /\ op[o].write = "none" /\ ~Needless(o)
      /\ UNCHANGED <<files, intents, temps, dirs, use, released, finished, col, ctl>>
  BY DEF Charge, Kept
<1>7. op[o].at # "idle"
  BY <1>1 DEF Targets
<1>9. TypeInv'
  BY <1>t, <1>5, <1>6 DEF TypeInv
<1>11. IdentityInv'
  BY <1>3, <1>4, <1>6, <1>7, SameIdentities
<1>12. PinInv'
  BY <1>3, <1>4, <1>6, <1>7, SamePlace
<1>13. CollectorInv'
  BY <1>6, <1>7, CollectorOff DEF CacheInv
<1> QED BY <1>9, <1>11, <1>12, <1>13 DEF CacheInv

LEMMA ChargeExtraKeeps ==
  ASSUME CacheInv, NEW o \in Owners, ChargeExtra(o), UNCHANGED faults
  PROVE  CacheInv'
<1>t. TypeInv /\ PinOK(o) /\ IdentityOK(o) /\ op[o] \in Operations
  BY DEF CacheInv, PinInv, IdentityInv, TypeInv
<1> DEFINE r == [op[o] EXCEPT !.left = 1]
<1>3. /\ r \in Operations /\ r.at = op[o].at /\ r.write = op[o].write /\ r.id = op[o].id
      /\ r.hold = op[o].hold /\ r.left = 1 /\ r.target = op[o].target
  BY <1>t DEF Operations
<1>4. Set(o, r)
  BY DEF ChargeExtra
<1> HIDE DEF r
<1>5. op'[o] = r /\ op' \in [Owners -> Operations] /\ \A p \in Owners \ {o} : op'[p] = op[p]
  BY <1>t, <1>3, <1>4, SetOp DEF TypeInv
<1>6. /\ op[o].write = "none" /\ op[o].left = 0 /\ op[o].at = "hydrate"
      /\ UNCHANGED <<files, intents, temps, dirs, use, released, finished, col, ctl>>
  BY DEF ChargeExtra, Kept
<1>9. TypeInv'
  BY <1>t, <1>5, <1>6 DEF TypeInv
<1>11. IdentityInv'
  BY <1>3, <1>4, <1>6, SameIdentities
<1>12. PinInv'
  BY <1>3, <1>4, <1>6, SamePlace
<1>13. CollectorInv'
  BY <1>6, CollectorOff DEF CacheInv
<1> QED BY <1>9, <1>11, <1>12, <1>13 DEF CacheInv

\* An operation that ends with nothing done.
LEMMA EndKeeps ==
  ASSUME CacheInv, NEW o \in Owners, Refuse(o) \/ OpenDone(o), UNCHANGED faults
  PROVE  CacheInv'
<1>t. TypeInv /\ PinOK(o) /\ IdentityOK(o) /\ op[o] \in Operations
  BY DEF CacheInv, PinInv, IdentityInv, TypeInv
<1>1. /\ Set(o, Idle) /\ op[o].write = "none"
      /\ UNCHANGED <<files, intents, temps, dirs, use, released, finished, col, ctl>>
  BY DEF Refuse, OpenDone, Kept
<1>2. op[o].at # "idle"
  BY DEF Refuse, OpenDone, Targets, Needless
<1>3. op'[o] = Idle /\ op' \in [Owners -> Operations] /\ \A p \in Owners \ {o} : op'[p] = op[p]
  BY <1>t, <1>1, SetOp, IdleType DEF TypeInv
<1>4. TypeInv'
  BY <1>t, <1>1, <1>3 DEF TypeInv
<1>6. IdentityInv'
  <2>1. IdentityInv /\ temps \subseteq intents
    BY DEF CacheInv, IdentityInv
  <2>2. Identities(o)' = {}
    BY <1>3, IdleType DEF Identities
  <2>3. IdentityOK(o)'
    BY <1>3, <2>2, IdleType DEF IdentityOK
  <2> QED BY <1>t, <1>1, <1>3, <2>1, <2>2, <2>3, IdentityKept
<1>7. PinInv'
  BY <1>1, <1>2, IdleType, SamePlace
<1>8. CollectorInv'
  BY <1>1, <1>2, CollectorOff DEF CacheInv
<1> QED BY <1>4, <1>6, <1>7, <1>8 DEF CacheInv

\* Declaring, for a reservation or for one write: a fresh identity, and one entry less owed.
LEMMA DeclareStep ==
  ASSUME CacheInv, NEW o \in Owners, NEW r \in Operations, Set(o, r), FreeIds # {},
         intents' = intents \cup {NewId}, op[o].at # "idle", r.at = op[o].at,
         \/ r.write = "none" /\ r.id = 0 /\ r.hold = NewId
         \/ r.write = "declared" /\ r.id = NewId /\ r.hold = op[o].hold,
         op[o].write \in {"none", "charged"},
         r.write # "none" => r.target \in Targets(o) \/ (op[o].write # "none" /\ r.target = op[o].target),
         r.at = "use" /\ r.write # "none" => op[o].write # "none" \/ ~Needless(o),
         UNCHANGED <<files, temps, dirs, use, released, finished, col, ctl, faults>>
  PROVE  CacheInv'
<1>t. TypeInv /\ PinOK(o) /\ IdentityOK(o) /\ op[o] \in Operations
  BY DEF CacheInv, PinInv, IdentityInv, TypeInv
<1>1. NewId \in Ids /\ NewId \notin intents /\ NewId \notin temps /\ NewId # 0
  BY FreshId
<1>2. op'[o] = r /\ op' \in [Owners -> Operations] /\ \A p \in Owners \ {o} : op'[p] = op[p]
  BY <1>t, SetOp DEF TypeInv
<1>3. TypeInv'
  BY <1>t, <1>1, <1>2 DEF TypeInv
<1>5. IdentityInv'
  <2>1. IdentityInv /\ temps \subseteq intents
    BY DEF CacheInv, IdentityInv
  <2>2. Identities(o)' \subseteq Identities(o) \cup {NewId}
    BY <1>2 DEF Identities
  <2>3. Identities(o) \subseteq intents /\ (op[o].hold # 0 => op[o].hold \in intents)
    BY <1>t DEF IdentityOK, Identities
  <2>4. Identities(o)' \subseteq intents' /\ Identities(o)' \subseteq Identities(o) \cup (Ids \ intents)
    BY <1>1, <2>2, <2>3
  <2>5. IdentityOK(o)'
    BY <1>t, <1>1, <1>2, <2>3, <2>4 DEF IdentityOK
  <2> QED BY <1>t, <1>2, <2>1, <2>4, <2>5, IdentityKept
<1>6. PinInv'
  BY <1>2, SamePlace
<1>7. CollectorInv'
  BY CollectorOff DEF CacheInv
<1> QED BY <1>3, <1>5, <1>6, <1>7 DEF CacheInv

LEMMA DeclareKeeps ==
  ASSUME CacheInv, NEW o \in Owners, Declare(o), UNCHANGED faults
  PROVE  CacheInv'
<1>t. PinOK(o) /\ IdentityOK(o) /\ op[o] \in Operations /\ op \in [Owners -> Operations]
  BY DEF CacheInv, PinInv, IdentityInv, TypeInv
<1>1. /\ op[o].write = "charged" /\ FreeIds # {} /\ intents' = intents \cup {NewId}
      /\ UNCHANGED <<files, temps, dirs, use, released, finished, col, ctl>>
  BY DEF Declare, Kept
<1>2. op[o].at # "idle" /\ op[o].id = 0
  BY <1>t, <1>1, IdleType DEF IdentityOK
<1>3. NewId \in 0 .. MaxIds
  BY <1>1, FreshId, CacheAssumption DEF Ids
<1>4. CASE op[o].left > 0
  <2> DEFINE r == [op[o] EXCEPT !.write = "none", !.hold = NewId]
  <2>1. /\ r \in Operations /\ r.at = op[o].at /\ r.write = "none" /\ r.id = 0 /\ r.hold = NewId
        /\ r.left = op[o].left
    BY <1>t, <1>2, <1>3, Zenon DEF Operations, Writes
  <2>2. Set(o, r)
    BY <1>4 DEF Declare
  <2> HIDE DEF r
  <2> QED BY <1>1, <1>2, <2>1, <2>2, DeclareStep
<1>5. CASE ~(op[o].left > 0)
  <2> DEFINE r == [op[o] EXCEPT !.write = "declared", !.id = NewId]
  <2>1. /\ r \in Operations /\ r.at = op[o].at /\ r.write = "declared" /\ r.id = NewId
        /\ r.hold = op[o].hold /\ r.left = op[o].left /\ r.target = op[o].target
    BY <1>t, <1>2, <1>3, Zenon DEF Operations, Writes
  <2>2. Set(o, r)
    BY <1>5 DEF Declare
  <2> HIDE DEF r
  <2> QED BY <1>1, <1>2, <2>1, <2>2, DeclareStep
<1> QED BY <1>4, <1>5

LEMMA DeclareReservedKeeps ==
  ASSUME CacheInv, NEW o \in Owners, DeclareReserved(o), UNCHANGED faults
  PROVE  CacheInv'
<1>t. PinOK(o) /\ IdentityOK(o) /\ op[o] \in Operations /\ op \in [Owners -> Operations]
  BY DEF CacheInv, PinInv, IdentityInv, TypeInv
<1>1. /\ op[o].write = "none" /\ op[o].left > 0 /\ FreeIds # {} /\ intents' = intents \cup {NewId}
      /\ UNCHANGED <<files, temps, dirs, use, released, finished, col, ctl>>
      /\ op[o].at \in {"retain", "activate", "hydrate"}
  BY DEF DeclareReserved, Reserved, Kept
<1>2. PICK f \in Targets(o) :
        Set(o, [op[o] EXCEPT !.write = "declared", !.id = NewId, !.target = f,
                             !.left = op[o].left - 1])
  BY Zenon DEF DeclareReserved
<1>3. NewId \in 0 .. MaxIds /\ f \in Files /\ op[o].left - 1 \in Nat
  BY <1>t, <1>1, FreshId, TargetsOK, CacheAssumption DEF Ids, Operations
<1> DEFINE r == [op[o] EXCEPT !.write = "declared", !.id = NewId, !.target = f,
                              !.left = op[o].left - 1]
<1>4. /\ r \in Operations /\ r.at = op[o].at /\ r.write = "declared" /\ r.id = NewId
      /\ r.hold = op[o].hold /\ r.left = op[o].left - 1 /\ r.target = f
  BY <1>t, <1>3, Zenon DEF Operations, Writes
<1>5. Set(o, r)
  BY <1>2
<1> HIDE DEF r
<1> QED BY <1>1, <1>4, <1>5, DeclareStep

LEMMA CreateTempKeeps ==
  ASSUME CacheInv, NEW o \in Owners, CreateTemp(o), UNCHANGED faults
  PROVE  CacheInv'
<1>t. TypeInv /\ PinOK(o) /\ IdentityOK(o) /\ op[o] \in Operations
  BY DEF CacheInv, PinInv, IdentityInv, TypeInv
<1> DEFINE r == [op[o] EXCEPT !.write = "temp"]
<1>1. /\ r \in Operations /\ r.at = op[o].at /\ r.write = "temp" /\ r.id = op[o].id
      /\ r.hold = op[o].hold /\ r.left = op[o].left /\ r.target = op[o].target
  BY <1>t DEF Operations, Writes
<1>2. /\ op[o].write = "declared" /\ Set(o, r) /\ temps' = temps \cup {op[o].id}
      /\ UNCHANGED <<files, intents, dirs, use, released, finished, col, ctl>>
  BY DEF CreateTemp, Kept
<1> HIDE DEF r
<1>3. op'[o] = r /\ op' \in [Owners -> Operations] /\ \A p \in Owners \ {o} : op'[p] = op[p]
  BY <1>t, <1>1, <1>2, SetOp DEF TypeInv
<1>4. op[o].at # "idle" /\ op[o].id # 0 /\ op[o].id \in intents
  BY <1>t, <1>2, IdleType DEF IdentityOK, Identities
<1>5. TypeInv'
  BY <1>t, <1>2, <1>3, <1>4 DEF TypeInv
<1>7. IdentityInv'
  <2>1. IdentityInv /\ temps \subseteq intents
    BY DEF CacheInv, IdentityInv
  <2>2. Identities(o)' = Identities(o)
    BY <1>1, <1>3 DEF Identities
  <2>3. IdentityOK(o)'
    BY <1>t, <1>1, <1>2, <1>3, <1>4, <2>2 DEF IdentityOK
  <2> QED BY <1>t, <1>2, <1>3, <1>4, <2>1, <2>2, <2>3, IdentityKept
<1>8. PinInv'
  BY <1>1, <1>2, <1>4, SamePlace
<1>9. CollectorInv'
  BY <1>2, <1>4, CollectorOff DEF CacheInv
<1> QED BY <1>5, <1>7, <1>8, <1>9 DEF CacheInv

LEMMA RemoveKeeps ==
  ASSUME CacheInv, NEW o \in Owners, Remove(o), UNCHANGED faults
  PROVE  CacheInv'
<1>t. TypeInv /\ PinInv /\ PinOK(o) /\ IdentityOK(o) /\ op[o] \in Operations
  BY DEF CacheInv, PinInv, IdentityInv, TypeInv
<1> DEFINE next == CASE op[o].at = "invalidate" -> "activate"
                     [] op[o].at = "unpin" -> "unregister"
                     [] op[o].at = "unrevoke" -> "hydrate"
           r == [op[o] EXCEPT !.at = next]
           f == IF op[o].at = "unrevoke" THEN <<o, "revoke">> ELSE <<o, "pin">>
<1>1. /\ op[o].write = "none" /\ op[o].at \in {"invalidate", "unpin", "unrevoke"} /\ Set(o, r)
      /\ files' = files \ {f} /\ finished' \subseteq finished
      /\ UNCHANGED <<dirs, use, released, intents, temps, ctl, col>>
  BY DEF Remove
<1>2. /\ op[o].at = "invalidate" => next = "activate"
      /\ op[o].at = "unpin" => next = "unregister"
      /\ op[o].at = "unrevoke" => next = "hydrate"
  OBVIOUS
<1>3. f \in {<<o, "revoke">>, <<o, "pin">>} /\ (op[o].at # "unrevoke" => f = <<o, "pin">>)
  OBVIOUS
<1>4. next \in {"activate", "unregister", "hydrate"}
  BY <1>1, <1>2
<1> HIDE DEF next, f
<1>5. /\ r \in Operations /\ r.at = next /\ r.write = op[o].write /\ r.id = op[o].id
      /\ r.hold = op[o].hold /\ r.left = op[o].left /\ r.target = op[o].target
  BY <1>t, <1>4 DEF Operations
<1> HIDE DEF r
<1>6. op'[o] = r /\ op' \in [Owners -> Operations] /\ \A p \in Owners \ {o} : op'[p] = op[p]
  BY <1>t, <1>1, <1>5, SetOp DEF TypeInv
<1>7. TypeInv'
  BY <1>t, <1>1, <1>6 DEF TypeInv
<1>9. IdentityInv'
  BY <1>1, <1>4, <1>5, SameIdentities
<1>10. PinInv'
  <2>k. /\ "pin" \in Kinds /\ "revoke" \in Kinds /\ "root" \in Kinds /\ "use" \in Kinds
    BY DEF Kinds
  <2>1. f \notin Blobs
    BY <1>3, <2>k, Apart
  <2>2. \A p \in Owners \ {o}, kind \in Kinds : <<p, kind>> \in files' <=> <<p, kind>> \in files
    BY <1>1, <1>3
  <2>3. Has(o, "root")' = Has(o, "root") /\ Has(o, "use")' = Has(o, "use")
    BY <1>1, <1>3 DEF Has
  <2>4. \A kind \in Kinds : Has(o, kind)' => Has(o, kind)
    BY <1>1 DEF Has
  <2>5. op[o].at # "unrevoke" => ~Has(o, "pin")'
    BY <1>1, <1>3 DEF Has
  <2>6. Needs[o] \subseteq files => Needs[o] \subseteq files'
    BY <1>1, <2>1, CacheAssumption
  <2>7. PinOK(o)'
    <3>1. r.at \in Guarded => op[o].at \in Guarded
      BY <1>1, <1>2, <1>5 DEF Guarded
    <3>2. r.at \in Unpins => op[o].at # "unrevoke"
      BY <1>2, <1>5 DEF Unpins
    <3>3. r.at \in {"unrevoke", "hydrate"} => op[o].at = "unrevoke"
      BY <1>1, <1>2, <1>5
    <3>4. r.at # "use" /\ r.write = "none" /\ op[o].at # "idle"
      BY <1>1, <1>4, <1>5
    <3> QED BY <1>t, <1>1, <1>6, <2>k, <2>3, <2>4, <2>5, <2>6, <3>1, <3>2, <3>3, <3>4 DEF PinOK
  <2> QED BY <1>t, <1>1, <1>6, <2>1, <2>2, <2>7, PinKept
<1>11. CollectorInv'
  BY <1>1, CollectorOff DEF CacheInv
<1> QED BY <1>7, <1>9, <1>10, <1>11 DEF CacheInv

\* What goes when a write or an operation ends, and what stays.
LEMMA DroppedKeeps ==
  ASSUME TypeInv, NEW gone, Dropped(gone)
  PROVE  intents \ gone \subseteq intents' /\ intents' \subseteq intents /\ faults' \in 0 .. MaxFaults
  BY CacheAssumption DEF Dropped, TypeInv

\* What a published write leaves for its owner.
LEMMA PublishPin ==
  ASSUME CacheInv, NEW o \in Owners, Publish(o)
  PROVE  PinInv'
<1>t. TypeInv /\ PinInv /\ PinOK(o) /\ op[o] \in Operations /\ op \in [Owners -> Operations]
  BY DEF CacheInv, PinInv, TypeInv
<1> DEFINE f == op[o].target
           at == op[o].at
           n == op'[o]
<1>1. op[o].write = "temp" /\ files' = files \cup {f} /\ TargetOK(o) /\ UNCHANGED dirs
  BY <1>t DEF Publish, PinOK
<1>2. /\ n.write = "none" /\ n.at = After(o) /\ \A p \in Owners \ {o} : op'[p] = op[p]
  <2>1. CASE After(o) = "idle"
    <3>1. Set(o, Idle)
      BY <2>1 DEF Publish
    <3> QED BY <1>t, <2>1, <3>1, SetOp, IdleType
  <2>2. CASE After(o) # "idle"
    <3> DEFINE r == [op[o] EXCEPT !.at = After(o), !.write = "none", !.id = 0, !.target = Index]
    <3>1. Set(o, r) /\ r.write = "none" /\ r.at = After(o)
      BY <1>t, <2>2 DEF Publish, Operations
    <3> HIDE DEF r
    <3> QED BY <1>t, <3>1 DEF Set
  <2> QED BY <2>1, <2>2
<1> HIDE DEF n
<1>k. "pin" \in Kinds /\ "root" \in Kinds /\ "use" \in Kinds
  BY DEF Kinds
<1>3. ASSUME NEW p \in Owners \ {o}, NEW kind \in Kinds
      PROVE  <<p, kind>> \in files' <=> <<p, kind>> \in files
  <2>1. f \in Blobs \cup {Index} \cup ({o} \X Kinds)
    BY <1>1 DEF TargetOK
  <2>2. Index # <<p, kind>> /\ <<p, kind>> \notin Blobs
    BY Apart
  <2>3. <<p, kind>> \notin {o} \X Kinds
    OBVIOUS
  <2> QED BY <1>1, <2>1, <2>2, <2>3
<1>4. /\ f # <<o, "use">> => use' = use
      /\ f = <<o, "use">> =>
           /\ at = "retain" => use'[o] = "retained"
           /\ \A p \in Owners \ {o} : use'[p] = use[p]
  BY <1>t DEF Publish, TypeInv
<1>5. /\ at = "unregister" => released' = released \cup {o}
      /\ at = "activate" => released' = released \ {o}
      /\ at \notin {"unregister", "activate"} => released' = released
  BY DEF Publish
<1>6. \A kind \in Kinds : Has(o, kind) => Has(o, kind)'
  BY <1>1 DEF Has
<1>7. Has(o, "pin")' => Has(o, "pin") \/ f = <<o, "pin">>
  BY <1>1 DEF Has
<1>8. /\ After(o) \in Guarded => at \in Guarded
      /\ After(o) = "unrevoke" => at = "activate"
      /\ After(o) = "hydrate" => at = "hydrate"
      /\ After(o) \notin Unpins
  BY Zenon DEF After, Guarded, Unpins
<1>9. at # "idle" /\ o \in dirs
  <2>1. at # "idle"
    BY <1>1, IdleType DEF CacheInv, IdentityInv, IdentityOK
  <2> QED BY <1>t, <2>1 DEF PinOK
<1>10. CASE f = <<o, "pin">>
  <2>1. at = "hydrate" /\ Needs[o] \subseteq files
    BY <1>1, <1>10 DEF TargetOK
  <2>2. /\ Has(o, "root") /\ Has(o, "use") /\ use[o] = "retained" /\ o \notin released
    BY <1>t, <2>1 DEF PinOK, Guarded
  <2>3. After(o) = "idle"
    BY <1>10, <2>1 DEF After
  <2>4. use'[o] = "retained" /\ o \notin released' /\ Needs[o] \subseteq files'
    BY <1>1, <1>4, <1>5, <1>10, <2>1, <2>2
  <2>5. PinOK(o)'
    BY <1>1, <1>2, <1>6, <1>8, <1>9, <1>k, <2>2, <2>3, <2>4 DEF PinOK, n, Guarded
  <2> QED BY <1>t, <1>1, <1>2, <1>3, <1>4, <1>5, <1>10, <2>1, <2>5, PinKept
<1>11. CASE f # <<o, "pin">>
  <2>1. Has(o, "pin")' => Has(o, "pin")
    BY <1>7, <1>11
  <2>2. Has(o, "pin") => at \notin Unpins /\ at # "use"
    BY <1>t, <1>1 DEF PinOK
  <2>3. f = <<o, "use">> => at \in {"use", "retire", "retain"}
    BY <1>1 DEF TargetOK
  <2>4. Has(o, "pin") => /\ Needs[o] \subseteq files' /\ Has(o, "root")' /\ Has(o, "use")'
    BY <1>t, <1>1, <1>6, <1>k DEF PinOK
  <2>5. Has(o, "pin") => use'[o] = "retained"
    BY <1>t, <1>4, <2>2, <2>3 DEF PinOK, Unpins
  <2>6. Has(o, "pin") => o \notin released'
    BY <1>t, <1>5, <2>2 DEF PinOK, Unpins
  <2>7. n.at \in Guarded => Has(o, "root")' /\ Has(o, "use")' /\ use'[o] = "retained"
    BY <1>t, <1>2, <1>4, <1>6, <1>8, <1>k, <2>3 DEF PinOK, Guarded
  <2>8. n.at \in {"unrevoke", "hydrate"} => o \notin released'
    BY <1>t, <1>2, <1>5, <1>8 DEF PinOK
  <2>9. PinOK(o)'
    BY <1>1, <1>2, <1>8, <1>9, <2>1, <2>4, <2>5, <2>6, <2>7, <2>8 DEF PinOK, n
  <2>10. \A p \in Owners \ {o} : use'[p] = use[p] /\ (p \in released' => p \in released)
    BY <1>4, <1>5
  <2> QED BY <1>t, <1>1, <1>2, <1>3, <2>9, <2>10, PinKept
<1> QED BY <1>10, <1>11

\* The rename puts a file where the temporary was.
LEMMA PublishKeeps ==
  ASSUME CacheInv, NEW o \in Owners, Publish(o)
  PROVE  CacheInv'
<1>t. TypeInv /\ IdentityOK(o) /\ op[o] \in Operations /\ op \in [Owners -> Operations]
  BY DEF CacheInv, IdentityInv, TypeInv
<1> DEFINE r == IF After(o) = "idle" THEN Idle
                ELSE [op[o] EXCEPT !.at = After(o), !.write = "none", !.id = 0, !.target = Index]
           gone == IF After(o) = "idle" THEN {op[o].id, op[o].hold} ELSE {op[o].id}
<1>1. /\ op[o].write = "temp" /\ temps' = temps \ {op[o].id} /\ files' = files \cup {op[o].target}
      /\ Set(o, r) /\ Dropped(gone) /\ UNCHANGED <<dirs, ctl, col>>
  BY DEF Publish
<1>2. After(o) \in {"register", "use", "unrevoke", "unpin", "index", "revoked", "retain", "hydrate",
                    "idle"}
  BY DEF After
<1>3. /\ r \in Operations /\ r.write = "none" /\ r.id = 0 /\ r.hold \in {0, op[o].hold}
      /\ r.left <= op[o].left /\ (r.hold # 0 => r.hold \notin gone) /\ (r.at = "idle" => r = Idle)
      /\ r.left \in Nat
  <2>1. CASE After(o) = "idle"
    BY <1>t, <2>1, IdleType DEF Operations
  <2>2. CASE After(o) # "idle"
    <3>1. Index \in Files /\ 0 \in 0 .. MaxIds
      BY CacheAssumption DEF Files
    <3> DEFINE s == [op[o] EXCEPT !.at = After(o), !.write = "none", !.id = 0, !.target = Index]
    <3>2. /\ s \in Operations /\ s.write = "none" /\ s.id = 0 /\ s.hold = op[o].hold
          /\ s.left = op[o].left /\ s.at = After(o) /\ s.left \in Nat
      BY <1>t, <1>2, <2>2, <3>1, Zenon DEF Operations, Writes
    <3>3. r = s /\ gone = {op[o].id}
      BY <2>2
    <3>4. op[o].hold # 0 => op[o].hold # op[o].id
      BY <1>t DEF IdentityOK
    <3> HIDE DEF s, r, gone
    <3> QED BY <2>2, <3>2, <3>3, <3>4
  <2> QED BY <2>1, <2>2
<1>4. op[o].id \in temps /\ op[o].id # 0 /\ gone \subseteq {op[o].id, op[o].hold}
  BY <1>t, <1>1 DEF IdentityOK
<1> HIDE DEF r, gone
<1>5. op'[o] = r /\ op' \in [Owners -> Operations] /\ \A p \in Owners \ {o} : op'[p] = op[p]
  BY <1>t, <1>1, <1>3, SetOp
<1>6. intents \ gone \subseteq intents' /\ intents' \subseteq intents /\ faults' \in 0 .. MaxFaults
  BY <1>t, <1>1, DroppedKeeps
<1>7. TypeInv'
  <2>1. op[o].target \in Files
    BY <1>t DEF Operations
  <2>2. use' \in [Owners -> Uses]
    BY <1>t DEF Publish, TypeInv, Uses
  <2>3. released' \subseteq Owners /\ finished' \subseteq Owners
    BY <1>t DEF Publish, TypeInv
  <2> QED BY <1>t, <1>1, <1>5, <1>6, <2>1, <2>2, <2>3 DEF TypeInv
<1>9. IdentityInv'
  <2>1. IdentityInv /\ temps \subseteq intents /\ 0 \notin intents
    BY <1>t DEF CacheInv, IdentityInv, TypeInv, Ids
  <2>2. gone \ {0} \subseteq Identities(o)
    BY <1>4 DEF Identities
  <2>3. Identities(o)' = {r.hold} \ {0} /\ Identities(o)' \subseteq Identities(o)
    BY <1>3, <1>5 DEF Identities
  <2>4. Identities(o) \subseteq intents /\ (op[o].hold # 0 => op[o].hold \notin temps)
    BY <1>t DEF IdentityOK
  <2>5. Identities(o)' \subseteq intents'
    BY <1>3, <1>6, <2>3, <2>4
  <2>6. temps' \subseteq intents'
    BY <1>1, <1>4, <1>6, <2>1, <2>4
  <2>7. intents \ Identities(o) \subseteq intents' /\ temps \ Identities(o) \subseteq temps'
    BY <1>1, <1>4, <1>6, <2>1, <2>2 DEF Identities
  <2>8. IdentityOK(o)'
    BY <1>1, <1>3, <1>5, <2>4, <2>5 DEF IdentityOK
  <2> QED BY <1>t, <1>1, <1>5, <2>1, <2>3, <2>6, <2>7, <2>8, IdentityKept
<1>10. CollectorInv'
  <2>1. op[o].at # "idle"
    BY <1>t, <1>1, IdleType DEF IdentityOK
  <2> QED BY <1>1, <2>1, CollectorOff DEF CacheInv
<1> QED BY <1>7, <1>9, <1>10, PublishPin DEF CacheInv

\* An error: what the cleanup leaves is still declared.
LEMMA FailKeeps ==
  ASSUME CacheInv, NEW o \in Owners, Fail(o)
  PROVE  CacheInv'
<1>t. TypeInv /\ IdentityOK(o) /\ op[o] \in Operations /\ op \in [Owners -> Operations]
  BY DEF CacheInv, IdentityInv, TypeInv
<1>1. /\ op[o].at # "idle" /\ Set(o, Idle)
      /\ UNCHANGED <<files, dirs, use, released, finished, col, ctl>>
  BY DEF Fail, Kept
<1>2. op'[o] = Idle /\ op' \in [Owners -> Operations] /\ \A p \in Owners \ {o} : op'[p] = op[p]
  BY <1>t, <1>1, SetOp, IdleType
<1>3. /\ temps \ {op[o].id} \subseteq temps' /\ temps' \subseteq temps
      /\ intents \ {op[o].id, op[o].hold} \subseteq intents' /\ intents' \subseteq intents
      /\ op[o].id \in temps' => intents \ {op[o].hold} \subseteq intents'
      /\ faults' \in 0 .. MaxFaults
  <2>1. CASE temps' = temps \ {op[o].id} /\ Dropped({op[o].id, op[o].hold})
    BY <1>t, <2>1, DroppedKeeps
  <2>2. CASE /\ op[o].write = "temp" /\ faults < MaxFaults /\ faults' = faults + 1
             /\ UNCHANGED temps /\ intents' = intents \ {op[o].hold}
    BY <1>t, <2>2, CacheAssumption DEF TypeInv
  <2> QED BY <2>1, <2>2 DEF Fail
<1>4. TypeInv'
  BY <1>t, <1>1, <1>2, <1>3 DEF TypeInv
<1>6. IdentityInv'
  <2>1. IdentityInv /\ temps \subseteq intents /\ 0 \notin intents
    BY <1>t DEF CacheInv, IdentityInv, TypeInv, Ids
  <2>2. Identities(o)' = {}
    BY <1>2, IdleType DEF Identities
  <2>3. IdentityOK(o)'
    BY <1>2, <2>2, IdleType DEF IdentityOK
  <2>4. op[o].hold # 0 => op[o].hold \notin temps
    BY <1>t DEF IdentityOK
  <2>5. temps' \subseteq intents'
    BY <1>3, <2>1, <2>4
  <2>6. intents \ Identities(o) \subseteq intents' /\ temps \ Identities(o) \subseteq temps'
    BY <1>3, <2>1 DEF Identities
  <2> QED BY <1>t, <1>2, <1>3, <2>1, <2>2, <2>3, <2>5, <2>6, IdentityKept
<1>7. PinInv'
  BY <1>1, IdleType, SamePlace
<1>8. CollectorInv'
  BY <1>1, CollectorOff DEF CacheInv
<1> QED BY <1>4, <1>6, <1>7, <1>8 DEF CacheInv

-----------------------------------------------------------------------------
(* The collector and crashes.                                              *)

\* What the collector, or a crash, must leave: the disk no larger, the temporaries declared,
\* the owners' files apart from the roots of retired ones, and what live owners need.
LEMMA QuietKeeps ==
  ASSUME CacheInv, \A o \in Owners : op'[o] = Idle, op' \in [Owners -> Operations], TypeInv',
         files' \subseteq files, temps' \subseteq intents',
         UNCHANGED <<dirs, use, released>>,
         \A o \in Owners : Has(o, "pin") => Needs[o] \subseteq files' /\ Has(o, "root")',
         \A o \in Owners : Has(o, "use") => Has(o, "use")',
         CollectorInv'
  PROVE  CacheInv'
<1>t. TypeInv /\ PinInv
  BY DEF CacheInv
<1>2. IdentityInv'
  <2>1. ASSUME NEW o \in Owners PROVE Identities(o)' = {}
    BY IdleType DEF Identities
  <2>2. ASSUME NEW o \in Owners PROVE IdentityOK(o)'
    BY <2>1, IdleType DEF IdentityOK
  <2> QED BY <2>1, <2>2 DEF IdentityInv
<1>3. PinInv'
  <2> SUFFICES ASSUME NEW o \in Owners PROVE PinOK(o)'
    BY DEF PinInv
  <2>1. PinOK(o)
    BY <1>t DEF PinInv
  <2>2. op'[o].at = "idle" /\ op'[o].write = "none"
    BY IdleType
  <2>3. \A kind \in Kinds : Has(o, kind)' => Has(o, kind)
    BY DEF Has
  <2>4. "pin" \in Kinds /\ "idle" \notin Guarded \cup Unpins
    BY DEF Kinds, Guarded, Unpins
  <2> QED BY <2>1, <2>2, <2>3, <2>4 DEF PinOK
<1> QED BY <1>2, <1>3 DEF CacheInv

\* Beginning a pass: it plans to unlink only what no live owner needs.
LEMMA CollectBeginKeeps ==
  ASSUME CacheInv, CollectBegin, UNCHANGED faults
  PROVE  CacheInv'
<1>t. TypeInv /\ PinInv /\ IdentityInv
  BY DEF CacheInv
<1>1. /\ Quiescent /\ UNCHANGED <<files, dirs, use, released, finished, intents, temps, ctl, op>>
  BY DEF CollectBegin
<1>2. PICK gone \in SUBSET (files \cap Stale), left \in SUBSET intents :
        col' = [on |-> TRUE, files |-> gone, temps |-> left \cap temps, intents |-> left, ctl |-> ctl]
  BY Zenon DEF CollectBegin
<1>3. op \in [Owners -> Operations] /\ \A o \in Owners : op'[o] = Idle
  BY <1>t, <1>1 DEF Quiescent, IdentityInv, IdentityOK, TypeInv
<1>4. TypeInv'
  <2>1. col' \in [on : BOOLEAN, files : SUBSET Files, temps : SUBSET Ids, intents : SUBSET Ids,
                  ctl : BOOLEAN]
    BY <1>t, <1>2 DEF TypeInv
  <2> QED BY <1>t, <1>1, <2>1 DEF TypeInv
<1>5. CollectorInv'
  <2>1. Quiescent'
    BY <1>1 DEF Quiescent
  <2>2. Stale' = Stale
    BY <1>1 DEF Stale, Live
  <2>3. col'.files \subseteq Stale /\ col'.intents \cap temps' \subseteq col'.temps
    BY <1>1, <1>2
  <2> QED BY <2>1, <2>2, <2>3 DEF CollectorInv
<1>6. \A o \in Owners : Has(o, "pin") => Needs[o] \subseteq files' /\ Has(o, "root")'
  BY <1>t, <1>1, Zenon DEF PinInv, PinOK, Has
<1>7. \A o \in Owners : Has(o, "use") => Has(o, "use")'
  BY <1>1 DEF Has
<1>8. temps' \subseteq intents'
  BY <1>t, <1>1 DEF IdentityInv
<1> QED BY <1>1, <1>3, <1>4, <1>5, <1>6, <1>7, <1>8, QuietKeeps

\* A stale file is neither content that a pinned owner needs, nor its root, nor a use.
LEMMA StaleIsNotPinned ==
  ASSUME CacheInv, NEW f \in Stale, NEW o \in Owners
  PROVE  /\ Has(o, "pin") => f \notin Needs[o] /\ f # <<o, "root">>
         /\ f # <<o, "use">>
<1>k. "use" \in Kinds /\ "root" \in Kinds /\ "pin" \in Kinds
  BY DEF Kinds
<1>1. f \in Blobs \ UNION {Needs[p] : p \in Live} \/ f \in {<<p, "root">> : p \in dirs \ Live}
  BY DEF Stale
<1>2. Has(o, "pin") => o \in Live
  BY <1>k DEF CacheInv, PinInv, PinOK, Live
<1>3. <<o, "root">> \notin Blobs /\ <<o, "use">> \notin Blobs
  BY <1>k, Apart
<1>4. dirs \subseteq Owners /\ Needs[o] \subseteq Blobs
  BY CacheAssumption DEF CacheInv, TypeInv
<1>5. CASE f \in Blobs \ UNION {Needs[p] : p \in Live}
  BY <1>2, <1>3, <1>5
<1>6. CASE f \in {<<p, "root">> : p \in dirs \ Live}
  <2>1. PICK p \in dirs \ Live : f = <<p, "root">>
    BY <1>6
  <2>2. f \notin Blobs /\ f # <<o, "use">>
    BY <1>k, <1>4, <2>1, Apart
  <2>3. Has(o, "pin") => p # o
    BY <1>2, <2>1
  <2> QED BY <1>4, <2>1, <2>2, <2>3
<1> QED BY <1>1, <1>5, <1>6

LEMMA UnlinkKeeps ==
  ASSUME CacheInv, Unlink, UNCHANGED faults
  PROVE  CacheInv'
<1>t. TypeInv /\ PinInv /\ IdentityInv /\ CollectorInv
  BY DEF CacheInv
<1>1. /\ col.on /\ UNCHANGED <<dirs, use, released, finished, op>>
  BY DEF Unlink
<1>2. /\ Quiescent /\ col.intents \cap temps \subseteq col.temps /\ col.files \subseteq Stale
      /\ temps \subseteq intents /\ intents \subseteq Ids
  BY <1>t, <1>1 DEF CollectorInv, IdentityInv, TypeInv
<1>3. op \in [Owners -> Operations] /\ \A o \in Owners : op'[o] = Idle
  BY <1>t, <1>1, <1>2 DEF Quiescent, IdentityInv, IdentityOK, TypeInv
<1> DEFINE Cols == [on : BOOLEAN, files : SUBSET Files, temps : SUBSET Ids, intents : SUBSET Ids,
                    ctl : BOOLEAN]
<1>4. /\ files' \subseteq files /\ temps' \subseteq intents' /\ intents' \subseteq intents
      /\ temps' \subseteq temps /\ col'.intents \cap temps' \subseteq col'.temps
      /\ col'.files \subseteq col.files /\ col' \in Cols /\ ctl' \in BOOLEAN
      /\ files \ col.files \subseteq files'
  <2>0. col \in Cols /\ ctl \in BOOLEAN
    BY <1>t DEF TypeInv
  <2>1. CASE UnlinkIntent /\ UNCHANGED <<files, ctl>>
    <3>1. PICK i \in col.intents :
            /\ i \notin col.temps /\ col' = [col EXCEPT !.intents = col.intents \ {i}]
            /\ intents' = intents \ {i} /\ temps' = temps
      BY <2>1, Zenon DEF UnlinkIntent
    <3>2. /\ col' \in Cols /\ col'.intents = col.intents \ {i} /\ col'.temps = col.temps
          /\ col'.files = col.files
      BY <2>0, <3>1
    <3>3. i \notin temps
      BY <1>2, <3>1
    <3> QED BY <1>2, <2>0, <2>1, <3>1, <3>2, <3>3
  <2>2. CASE UnlinkTemp /\ UNCHANGED <<files, ctl>>
    <3>1. PICK i \in col.temps : /\ col' = [col EXCEPT !.temps = col.temps \ {i}]
                                 /\ temps' = temps \ {i} /\ intents' = intents
      BY <2>2, Zenon DEF UnlinkTemp
    <3>2. /\ col' \in Cols /\ col'.intents = col.intents /\ col'.temps = col.temps \ {i}
          /\ col'.files = col.files
      BY <2>0, <3>1
    <3> QED BY <1>2, <2>0, <2>2, <3>1, <3>2
  <2>3. CASE /\ \E f \in col.files : col' = [col EXCEPT !.files = @ \ {f}] /\ files' = files \ {f}
             /\ UNCHANGED <<intents, temps, ctl>>
    <3>1. PICK f \in col.files : /\ col' = [col EXCEPT !.files = col.files \ {f}]
                                 /\ files' = files \ {f}
      BY <2>3
    <3>2. /\ col' \in Cols /\ col'.intents = col.intents /\ col'.temps = col.temps
          /\ col'.files = col.files \ {f}
      BY <2>0, <3>1
    <3> QED BY <1>2, <2>0, <2>3, <3>1, <3>2
  <2>4. CASE /\ col.ctl /\ col' = [col EXCEPT !.ctl = FALSE] /\ ctl' = FALSE
             /\ UNCHANGED <<files, intents, temps>>
    <3>1. /\ col' \in Cols /\ col'.intents = col.intents /\ col'.temps = col.temps
          /\ col'.files = col.files
      BY <2>0, <2>4, Zenon
    <3> QED BY <1>2, <2>0, <2>4, <3>1, Zenon
  <2> QED BY <2>1, <2>2, <2>3, <2>4, Zenon DEF Unlink
<1>5. TypeInv'
  BY <1>t, <1>1, <1>4 DEF TypeInv
<1>6. CollectorInv'
  <2>1. Quiescent'
    BY <1>1, <1>2 DEF Quiescent
  <2>2. Stale' = Stale
    BY <1>1 DEF Stale, Live
  <2> QED BY <1>2, <1>4, <2>1, <2>2 DEF CollectorInv
<1>7. ASSUME NEW o \in Owners
      PROVE  /\ Has(o, "pin") => Needs[o] \subseteq files' /\ Has(o, "root")'
             /\ Has(o, "use") => Has(o, "use")'
  <2>1. \A f \in col.files : /\ Has(o, "pin") => f \notin Needs[o] /\ f # <<o, "root">>
                             /\ f # <<o, "use">>
    BY <1>2, StaleIsNotPinned
  <2>2. Has(o, "pin") => Needs[o] \subseteq files /\ Has(o, "root")
    BY <1>t DEF PinInv, PinOK
  <2> QED BY <1>4, <2>1, <2>2 DEF Has
<1> QED BY <1>1, <1>3, <1>4, <1>5, <1>6, <1>7, QuietKeeps

\* The end of a pass, and of the process: the files stay, and so do the charges unless the
\* pass is complete.
LEMMA EndOfPassKeeps ==
  ASSUME CacheInv, ((CollectReset \/ CollectFail) /\ UNCHANGED faults) \/ Crash
  PROVE  CacheInv'
<1>t. TypeInv /\ PinInv /\ IdentityInv /\ CollectorInv
  BY DEF CacheInv
<1>1. /\ UNCHANGED <<files, dirs, use, released, finished, intents, temps>> /\ col' = NoPass
  BY Zenon DEF CollectReset, CollectFail, Crash
<1>2. op' \in [Owners -> Operations] /\ \A o \in Owners : op'[o] = Idle
  <2>1. CASE CollectReset \/ CollectFail
    <3>1. col.on /\ op' = op
      BY <2>1 DEF CollectReset, CollectFail, NoPass
    <3> QED BY <1>t, <3>1 DEF CollectorInv, Quiescent, IdentityInv, IdentityOK, TypeInv
  <2>2. CASE Crash
    BY <2>2, IdleType DEF Crash
  <2> QED BY <2>1, <2>2
<1>3. TypeInv'
  <2>1. NoPass \in [on : BOOLEAN, files : SUBSET Files, temps : SUBSET Ids, intents : SUBSET Ids,
                    ctl : BOOLEAN]
    BY DEF NoPass
  <2>2. ctl' \in BOOLEAN
    BY <1>t, Zenon DEF CollectReset, CollectFail, Crash, TypeInv
  <2>3. faults' \in 0 .. MaxFaults
    <3>1. MaxFaults \in Nat /\ faults \in 0 .. MaxFaults
      BY <1>t, CacheAssumption DEF TypeInv
    <3>2. faults' = faults \/ (faults < MaxFaults /\ faults' = faults + 1)
      BY Zenon DEF Crash
    <3> QED BY <3>1, <3>2
  <2> QED BY <1>t, <1>1, <1>2, <2>1, <2>2, <2>3 DEF TypeInv
<1>4. CollectorInv'
  BY <1>1 DEF CollectorInv, NoPass
<1>5. \A o \in Owners : Has(o, "pin") => Needs[o] \subseteq files' /\ Has(o, "root")'
  BY <1>t, <1>1, Zenon DEF PinInv, PinOK, Has
<1>6. \A o \in Owners : Has(o, "use") => Has(o, "use")'
  BY <1>1 DEF Has
<1>7. temps' \subseteq intents'
  BY <1>t, <1>1 DEF IdentityInv
<1> QED BY <1>1, <1>2, <1>3, <1>4, <1>5, <1>6, <1>7, QuietKeeps

-----------------------------------------------------------------------------
(* The invariant.                                                          *)

LEMMA CacheInit == Init => CacheInv
<1> SUFFICES ASSUME Init PROVE CacheInv
  OBVIOUS
<1>1. op \in [Owners -> Operations] /\ \A o \in Owners : op[o] = Idle
  BY IdleType DEF Init
<1>2. /\ files = {} /\ dirs = {} /\ intents = {} /\ temps = {} /\ released = {} /\ finished = {}
      /\ col = NoPass /\ faults = 0
  BY DEF Init
<1>3. TypeInv
  <2>1. NoPass \in [on : BOOLEAN, files : SUBSET Files, temps : SUBSET Ids, intents : SUBSET Ids,
                    ctl : BOOLEAN]
    BY DEF NoPass
  <2>2. ctl \in BOOLEAN /\ use \in [Owners -> Uses]
    BY Zenon DEF Init, Uses
  <2>3. faults \in 0 .. MaxFaults
    BY <1>2, CacheAssumption
  <2> QED BY <1>1, <1>2, <2>1, <2>2, <2>3 DEF TypeInv
<1>5. IdentityInv
  <2>1. ASSUME NEW o \in Owners PROVE Identities(o) = {}
    BY <1>1, IdleType DEF Identities
  <2>2. ASSUME NEW o \in Owners PROVE IdentityOK(o)
    BY <1>1, <2>1, IdleType DEF IdentityOK
  <2> QED BY <1>2, <2>1, <2>2 DEF IdentityInv
<1>6. PinInv
  <2> SUFFICES ASSUME NEW o \in Owners PROVE PinOK(o)
    BY DEF PinInv
  <2> QED BY <1>1, <1>2, IdleType DEF PinOK, Has, Guarded, Unpins
<1>7. CollectorInv
  BY <1>2 DEF CollectorInv, NoPass
<1> QED BY <1>3, <1>5, <1>6, <1>7 DEF CacheInv

LEMMA CacheStutter ==
  ASSUME CacheInv,
         UNCHANGED <<files, dirs, use, released, finished, intents, temps, ctl, op, col, faults>>
  PROVE  CacheInv'
<1>1. TypeInv'
  BY DEF CacheInv, TypeInv
<1>3. IdentityInv'
  BY DEF CacheInv, IdentityInv, IdentityOK, Identities
<1>4. PinInv'
  BY Zenon DEF CacheInv, PinInv, PinOK, TargetOK, Has
<1>5. CollectorInv'
  BY DEF CacheInv, CollectorInv, Quiescent, Stale, Live
<1> QED BY <1>1, <1>3, <1>4, <1>5 DEF CacheInv

LEMMA CacheStep ==
  ASSUME CacheInv, ReadyInv, [Next]_vars, \A o \in Owners : HydrationWrites(o) \in Nat \ {0}
  PROVE  CacheInv'
<1>1. CASE Collect /\ UNCHANGED faults
  BY <1>1, CollectBeginKeeps, UnlinkKeeps, EndOfPassKeeps DEF Collect
<1>2. ASSUME NEW o \in Owners, UNCHANGED faults,
             Open(o) \/ Retain(o) \/ Hydrate(o) \/ Release(o) \/ Retire(o) \/ Refuse(o)
      PROVE  CacheInv'
  BY <1>2, OpenKeeps, RetainKeeps, HydrateKeeps, ReleaseOrRetireKeeps, EndKeeps
<1>3. ASSUME NEW o \in Owners, UNCHANGED faults, Write(o) PROVE CacheInv'
  BY <1>3, ChargeKeeps, ChargeExtraKeeps, DeclareKeeps, DeclareReservedKeeps, CreateTempKeeps,
     RemoveKeeps, EndKeeps DEF Write
<1>4. CASE Crash
  BY <1>4, EndOfPassKeeps
<1>5. ASSUME NEW o \in Owners, Publish(o) \/ Fail(o) PROVE CacheInv'
  BY <1>5, PublishKeeps, FailKeeps
<1>6. CASE UNCHANGED vars
  BY <1>6, CacheStutter DEF vars
<1>7. ASSUME NEW o \in Owners, UNCHANGED faults, HydrateRetained(o) \/ HydrateRefused(o)
      PROVE  CacheInv'
  BY <1>7, CacheStutter DEF HydrateRetained, HydrateRefused, Kept
<1> QED BY <1>1, <1>2, <1>3, <1>4, <1>5, <1>6, <1>7 DEF Next

-----------------------------------------------------------------------------
(* Between the two sections of a hydration.                                *)

\* A step of one owner keeps what the hydrations of the others have retained.
LEMMA ReadyKept ==
  ASSUME ReadyInv, NEW o \in Owners, ready' \subseteq ready,
         \A p \in Owners \ {o} : op'[p] = op[p] /\ use'[p] = use[p],
         \A p \in Owners : /\ <<p, "root">> \in files => <<p, "root">> \in files'
                           /\ <<p, "use">> \in files => <<p, "use">> \in files',
         o \in ready' => ReadyOK(o)'
  PROVE  ReadyInv'
  BY DEF ReadyInv, ReadyOK, Has

LEMMA ReadyBegin ==
  ASSUME CacheInv, ReadyInv, NEW o \in Owners, ready' = ready,
         Open(o) \/ Retain(o) \/ Release(o) \/ Retire(o)
  PROVE  ReadyInv'
<1>t. op \in [Owners -> Operations]
  BY DEF CacheInv, TypeInv
<1>1. UNCHANGED <<files, use>>
  BY DEF Open, Retain, Reserve, Release, Retire, Kept
<1>2. PICK r : Set(o, r) /\ (r.at = "use" => r.write = "none") /\ (r.at = "retire" => o \notin ready)
  <2>1. CASE Open(o)
    <3>1. PICK at \in {"use", "record"} : Set(o, [Idle EXCEPT !.at = at])
      BY <2>1 DEF Open, Begin
    <3> DEFINE r == [Idle EXCEPT !.at = at]
    <3>2. r.at = at /\ r.write = "none"
      BY DEF Idle
    <3>3. Set(o, r) /\ r.at # "retire"
      BY <3>1, <3>2
    <3> HIDE DEF r
    <3> QED BY <3>2, <3>3
  <2>2. CASE Retain(o)
    <3>1. Set(o, [Idle EXCEPT !.at = "retain", !.write = "charged", !.left = 2])
      BY <2>2 DEF Retain, Reserve, Begin
    <3> DEFINE r == [Idle EXCEPT !.at = "retain", !.write = "charged", !.left = 2]
    <3>2. r.at = "retain"
      BY DEF Idle
    <3>3. Set(o, r)
      BY <3>1
    <3> HIDE DEF r
    <3> QED BY <3>2, <3>3
  <2>3. CASE Release(o)
    <3>1. Set(o, [Idle EXCEPT !.at = "revoke"])
      BY <2>3 DEF Release, Begin
    <3> QED BY <3>1 DEF Idle
  <2>4. CASE Retire(o)
    <3>1. Set(o, [Idle EXCEPT !.at = "retire"]) /\ o \notin ready
      BY <2>4 DEF Retire, Begin
    <3> QED BY <3>1 DEF Idle
  <2> QED BY <2>1, <2>2, <2>3, <2>4
<1>3. op'[o] = r /\ \A p \in Owners \ {o} : op'[p] = op[p]
  BY <1>t, <1>2 DEF Set
<1>4. o \in ready' => ReadyOK(o)'
  BY <1>1, <1>2, <1>3 DEF ReadyInv, ReadyOK, Has
<1> QED BY <1>1, <1>3, <1>4, ReadyKept

\* A write under way changes neither the place nor the files; one of the use is not begun.
LEMMA ReadyWrite ==
  ASSUME CacheInv, ReadyInv, NEW o \in Owners, ready' = ready,
         \/ Charge(o) \/ ChargeExtra(o) \/ Declare(o) \/ DeclareReserved(o) \/ CreateTemp(o)
         \/ Remove(o) \/ OpenDone(o) \/ Refuse(o) \/ Fail(o)
  PROVE  ReadyInv'
<1>t. op \in [Owners -> Operations]
  BY DEF CacheInv, TypeInv
<1> DEFINE Same(r) == /\ r.at = op[o].at \/ r.at \notin {"retire", "use"}
                      /\ r.at = "use" /\ op[o].write = "none" => r.write = "none" \/ o \notin ready
<1>1. CASE Charge(o) \/ ChargeExtra(o) \/ Declare(o) \/ DeclareReserved(o) \/ CreateTemp(o)
  <2>1. UNCHANGED <<files, use>>
    BY <1>1 DEF Charge, ChargeExtra, Declare, DeclareReserved, CreateTemp, Kept
  <2>2. o \in ready => Needless(o) \/ op[o].at # "use"
    BY DEF ReadyInv, ReadyOK, Needless
  <2>3. \E r : Set(o, r) /\ Same(r)
    <3>1. CASE Charge(o)
      <4>1. PICK f \in Targets(o) : Set(o, [op[o] EXCEPT !.write = "charged", !.target = f])
        BY <3>1 DEF Charge
      <4>2. ~Needless(o)
        BY <3>1 DEF Charge
      <4> DEFINE r == [op[o] EXCEPT !.write = "charged", !.target = f]
      <4>3. r.at = op[o].at
        BY <1>t DEF Operations
      <4>4. Set(o, r)
        BY <4>1
      <4> HIDE DEF r
      <4> QED BY <2>2, <4>2, <4>3, <4>4
    <3>2. CASE ChargeExtra(o)
      BY <3>2, <1>t DEF ChargeExtra, Operations
    <3>3. CASE Declare(o)
      BY <3>3, <1>t DEF Declare, Operations
    <3>4. CASE DeclareReserved(o)
      <4>1. PICK f \in Targets(o) :
              Set(o, [op[o] EXCEPT !.write = "declared", !.id = NewId, !.target = f,
                                   !.left = op[o].left - 1])
        BY <3>4 DEF DeclareReserved
      <4>2. op[o].at # "use"
        BY <3>4 DEF DeclareReserved, Reserved
      <4> DEFINE r == [op[o] EXCEPT !.write = "declared", !.id = NewId, !.target = f,
                                    !.left = op[o].left - 1]
      <4>3. r.at = op[o].at
        BY <1>t DEF Operations
      <4>4. Set(o, r)
        BY <4>1
      <4> HIDE DEF r
      <4> QED BY <4>2, <4>3, <4>4
    <3>5. CASE CreateTemp(o)
      BY <3>5, <1>t DEF CreateTemp, Operations
    <3> QED BY <1>1, <3>1, <3>2, <3>3, <3>4, <3>5
  <2>4. PICK r : Set(o, r) /\ Same(r)
    BY <2>3
  <2>5. op'[o] = r /\ \A p \in Owners \ {o} : op'[p] = op[p]
    BY <1>t, <2>4 DEF Set
  <2>6. o \in ready' => ReadyOK(o)'
    BY <2>1, <2>4, <2>5 DEF ReadyInv, ReadyOK, Has
  <2> QED BY <2>1, <2>5, <2>6, ReadyKept
<1>2. CASE OpenDone(o) \/ Refuse(o) \/ Fail(o)
  <2>1. UNCHANGED <<files, use>> /\ Set(o, Idle)
    BY <1>2 DEF OpenDone, Refuse, Fail, Kept
  <2>2. op'[o] = Idle /\ \A p \in Owners \ {o} : op'[p] = op[p]
    BY <1>t, <2>1 DEF Set
  <2>3. o \in ready' => ReadyOK(o)'
    BY <2>1, <2>2, IdleType DEF ReadyInv, ReadyOK, Has
  <2> QED BY <2>1, <2>2, <2>3, ReadyKept
<1>3. CASE Remove(o)
  <2>1. /\ use' = use
        /\ \A p \in Owners : /\ <<p, "root">> \in files => <<p, "root">> \in files'
                             /\ <<p, "use">> \in files => <<p, "use">> \in files'
    BY <1>3 DEF Remove
  <2>2. \E at \in {"activate", "unregister", "hydrate"} : Set(o, [op[o] EXCEPT !.at = at])
    BY <1>3 DEF Remove
  <2>3. PICK at \in {"activate", "unregister", "hydrate"} : Set(o, [op[o] EXCEPT !.at = at])
    BY <2>2
  <2>4. op'[o].at = at /\ \A p \in Owners \ {o} : op'[p] = op[p]
    BY <1>t, <2>3 DEF Set, Operations
  <2>5. o \in ready' => ReadyOK(o)'
    <3>1. o \in ready => <<o, "root">> \in files' /\ <<o, "use">> \in files' /\ use[o] = "retained"
      BY <2>1 DEF ReadyInv, ReadyOK, Has
    <3> QED BY <2>1, <2>4, <3>1 DEF ReadyOK, Has
  <2>6. \A p \in Owners \ {o} : op'[p] = op[p] /\ use'[p] = use[p]
    BY <2>1, <2>4
  <2> QED BY <2>1, <2>5, <2>6, ReadyKept
<1> QED BY <1>1, <1>2, <1>3

\* What is published is a new file; a use is written only to say that it is retained.
LEMMA ReadyPublish ==
  ASSUME CacheInv, ReadyInv, NEW o \in Owners, ready' = ready, Publish(o)
  PROVE  ReadyInv'
<1>t. op \in [Owners -> Operations] /\ use \in [Owners -> Uses] /\ PinOK(o)
  BY DEF CacheInv, TypeInv, PinInv
<1>1. files \subseteq files' /\ op[o].write = "temp"
  BY DEF Publish
<1>2. After(o) \notin {"retire"} /\ (After(o) = "use" => op[o].at = "register")
  BY DEF After
<1>3. \E r : Set(o, r) /\ r.at = After(o) /\ r.write = "none"
  <2>1. CASE After(o) = "idle"
    BY <2>1, IdleType DEF Publish
  <2>2. CASE After(o) # "idle"
    <3> DEFINE r == [op[o] EXCEPT !.at = After(o), !.write = "none", !.id = 0, !.target = Index]
    <3>1. Set(o, r)
      BY <2>2 DEF Publish
    <3>2. r.at = After(o) /\ r.write = "none"
      BY <1>t DEF Operations
    <3> HIDE DEF r
    <3> QED BY <3>1, <3>2
  <2> QED BY <2>1, <2>2
<1>4. PICK r : Set(o, r) /\ r.at = After(o) /\ r.write = "none"
  BY <1>3
<1>5. op'[o] = r /\ \A p \in Owners \ {o} : op'[p] = op[p]
  BY <1>t, <1>4 DEF Set
<1>6. \A p \in Owners \ {o} : use'[p] = use[p]
  BY <1>t DEF Publish
<1>7. o \in ready => use'[o] = "retained"
  <2> SUFFICES ASSUME o \in ready PROVE use'[o] = "retained"
    OBVIOUS
  <2>1. use[o] = "retained" /\ op[o].at \notin {"retire", "use"}
    BY <1>1 DEF ReadyInv, ReadyOK
  <2>2. CASE op[o].target # <<o, "use">>
    BY <2>1, <2>2 DEF Publish
  <2>3. CASE op[o].target = <<o, "use">>
    <3>1. op[o].at = "retain"
      BY <1>t, <1>1, <2>1, <2>3 DEF PinOK, TargetOK
    <3> QED BY <1>t, <2>3, <3>1 DEF Publish
  <2> QED BY <2>2, <2>3
<1>8. o \in ready' => ReadyOK(o)'
  BY <1>1, <1>2, <1>4, <1>5, <1>7 DEF ReadyInv, ReadyOK, Has
<1> QED BY <1>1, <1>5, <1>6, <1>8, ReadyKept

\* The collector takes no root of a use that is retained, and no use.
LEMMA ReadyCollect ==
  ASSUME CacheInv, ReadyInv, ready' = ready, Collect
  PROVE  ReadyInv'
<1>1. op' = op /\ use' = use
  BY DEF Collect, CollectBegin, Unlink, CollectReset, CollectFail
<1>2. ASSUME NEW o \in ready PROVE <<o, "root">> \in files' /\ <<o, "use">> \in files'
  <2>1. o \in Owners /\ <<o, "root">> \in files /\ <<o, "use">> \in files /\ use[o] = "retained"
    BY <1>2 DEF ReadyInv, ReadyOK, Has
  <2>2. CASE files' = files
    BY <2>1, <2>2
  <2>3. CASE files' # files
    <3>1. PICK f \in col.files : files' = files \ {f}
      BY <2>3 DEF Collect, CollectBegin, Unlink, UnlinkIntent, UnlinkTemp, CollectReset, CollectFail
    <3>2. col.on
      BY <2>3 DEF Collect, CollectBegin, Unlink, CollectReset, CollectFail
    <3>3. f \in Stale
      BY <3>1, <3>2 DEF CacheInv, CollectorInv
    <3>4. f # <<o, "use">>
      BY <2>1, <3>3, StaleIsNotPinned
    <3>5. f # <<o, "root">>
      <4>1. "root" \in Kinds
        BY DEF Kinds
      <4>2. <<o, "root">> \notin Blobs
        BY <2>1, <4>1, Apart
      <4> QED BY <2>1, <3>3, <4>2 DEF Stale, Live
    <3> QED BY <2>1, <3>1, <3>4, <3>5
  <2> QED BY <2>2, <2>3
<1> QED BY <1>1, <1>2 DEF ReadyInv, ReadyOK, Has

LEMMA ReadyStep ==
  ASSUME CacheInv, ReadyInv, [Next]_vars
  PROVE  ReadyInv'
<1>1. CASE Collect /\ UNCHANGED <<ready, faults>>
  BY <1>1, ReadyCollect
<1>2. ASSUME NEW o \in Owners, UNCHANGED <<ready, faults>>,
             Open(o) \/ Retain(o) \/ Release(o) \/ Retire(o) \/ Write(o) \/ Refuse(o)
      PROVE  ReadyInv'
  BY <1>2, ReadyBegin, ReadyWrite DEF Write
<1>3. ASSUME NEW o \in Owners, HydrateRetained(o) PROVE ReadyInv'
  <2>1. /\ UNCHANGED <<files, use, op>> /\ ready' = ready \cup {o} /\ op[o].at = "idle"
        /\ Has(o, "root") /\ Has(o, "use") /\ use[o] = "retained"
    BY <1>3 DEF HydrateRetained, Kept
  <2> QED BY <2>1 DEF ReadyInv, ReadyOK, Has
<1>4. ASSUME NEW o \in Owners, Hydrate(o) PROVE ReadyInv'
  <2>1. /\ UNCHANGED <<files, use>> /\ ready' = ready \ {o}
        /\ \A p \in Owners \ {o} : op'[p] = op[p]
    BY <1>4 DEF Hydrate, Reserve, Begin, Set, Kept, CacheInv, TypeInv
  <2> QED BY <2>1 DEF ReadyInv, ReadyOK, Has
<1>5. ASSUME NEW o \in Owners, HydrateRefused(o) PROVE ReadyInv'
  BY <1>5 DEF HydrateRefused, Kept, ReadyInv, ReadyOK, Has
<1>6. ASSUME NEW o \in Owners, Publish(o) \/ Fail(o), UNCHANGED ready PROVE ReadyInv'
  BY <1>6, ReadyPublish, ReadyWrite
<1>7. CASE Crash
  BY <1>7 DEF Crash, ReadyInv
<1>8. CASE UNCHANGED vars
  BY <1>8 DEF vars, ReadyInv, ReadyOK, Has
<1> QED BY <1>1, <1>2, <1>3, <1>4, <1>5, <1>6, <1>7, <1>8 DEF Next

=============================================================================
