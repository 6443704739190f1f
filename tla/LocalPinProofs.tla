--------------------------- MODULE LocalPinProofs ---------------------------
(***************************************************************************)
(* Proofs about LocalPin: for any number of hydrations, whatever writes    *)
(* fail and whenever the process crashes, what hydration and release have  *)
(* answered survives, and nothing half done blocks the owner or exposes    *)
(* its pages.                                                              *)
(***************************************************************************)
EXTENDS LocalPin, TLAPS

\* The steps of a hydration and of a release from a given one on.
FromPublish    == {"h_publish", "h_repair", "h_complete", "h_abort"}
FromPin        == {"h_pin"} \cup FromPublish
FromMeta       == {"h_meta"} \cup FromPin
FromContent    == {"h_content"} \cup FromMeta
FromUnrevoke   == {"h_unrevoke", "h_view"} \cup FromContent
FromRegister   == {"h_register"} \cup FromUnrevoke
FromInvalidate == {"h_invalidate"} \cup FromRegister
FromIndex      == {"r_index", "r_revoked"}
FromReg        == {"r_reg"} \cup FromIndex
FromUnpin      == {"r_pin"} \cup FromReg
FromIncomplete == {"r_complete"} \cup FromUnpin

\* What each file may hold: every file that a crash may leave is of its kind.
Kind(f) ==
  CASE f \in {"owner", "repair"} -> BOOLEAN
    [] f = "reg" -> {"none", "Active", "Released"}
    [] f = "revoke" -> {"none", "Revoking", "Revoked"}
    [] f \in {"view", "pin", "complete"} -> 0 .. MaxEpoch
    [] f \in {"meta", "blobs"} -> {"none", "ok", "bad"}
    [] f = "use" -> {"none", "live", "retained", "retired"}

MayType == \A f \in Names : May(f) \subseteq Kind(f)

TypeInv ==
  /\ disk \in Files /\ DOMAIN loose = Names /\ MayType
  /\ pc \in Steps /\ epoch \in 0 .. MaxEpoch /\ between \in BOOLEAN /\ opened \in BOOLEAN
  /\ promise \in {"none", "complete", "revoked"} /\ damaged \in BOOLEAN

Unpinned == May("complete") \subseteq {0} /\ May("pin") \subseteq {0}

\* What holds of the files at every step: a released registration has its revocation, and
\* without a view, or with a finished revocation or a retired use, there is nothing to guard.
FilesInv ==
  /\ "Released" \in May("reg") => "none" \notin May("revoke")
  /\ 0 \in May("view") => Unpinned
  /\ "Revoked" \in May("revoke") => Unpinned
  /\ "retired" \in May("use") => Unpinned

\* What a hydration has made durable when it is about to take a step. Between its two
\* sections no retirement is under way, and what it has retained stays retained.
HydrateInv ==
  /\ pc \in {"h_retain"} \cup FromInvalidate \/ between => epoch # 0
  /\ pc \in FromInvalidate \/ between => disk.use = "retained"
  /\ between => pc # "retire"
  /\ pc \in FromRegister => promise = "none"
  /\ pc \in FromUnrevoke => May("reg") \subseteq {"Active"}
  /\ pc = "h_view" => disk.revoke = "none"
  /\ pc \in FromContent => /\ May("revoke") \subseteq {"none"} /\ May("view") \subseteq {epoch}
                           /\ May("use") \subseteq {"retained"}
  /\ pc \in FromMeta => May("blobs") \subseteq {"ok"}
  /\ pc \in FromPin => May("meta") \subseteq {"ok"}
  /\ pc \in FromPublish => May("pin") \subseteq {epoch}

\* And a release.
ReleaseInv ==
  /\ pc \in FromIncomplete => promise = "none" /\ "none" \notin May("revoke")
  /\ pc = "r_complete" => loose["complete"] = {} /\ loose["pin"] = {}
  /\ pc = "r_pin" => loose["pin"] = {}
  /\ pc \in FromUnpin => May("complete") \subseteq {0}
  /\ pc \in FromReg => May("pin") \subseteq {0}
  /\ pc \in FromIndex => May("reg") \subseteq {"Released"}

\* And what a promise means for every file that a crash may leave.
PromiseInv ==
  /\ promise = "complete" =>
       /\ disk.complete # 0 /\ May("complete") \subseteq {disk.complete}
       /\ May("view") \subseteq {disk.complete} /\ May("pin") \subseteq {disk.complete}
       /\ May("reg") \subseteq {"Active"} /\ May("revoke") \subseteq {"none"}
       /\ May("meta") \subseteq {"ok"} /\ May("blobs") \subseteq {"ok"}
  /\ promise = "revoked" =>
       May("reg") \subseteq {"Released"} /\ May("revoke") \subseteq {"Revoked"} /\ Unpinned
  /\ pc \in {"o_invalidate", "a_invalidate"} => promise = "none"

\* The inductive invariant.
PinInv == TypeInv /\ FilesInv /\ HydrateInv /\ ReleaseInv /\ PromiseInv

-----------------------------------------------------------------------------
(* Writing.                                                                *)

\* A write changes one file; synced, it settles the files of its directory, and torn, it
\* leaves the older contents of its own file possible.
LEMMA SyncedFiles ==
  ASSUME TypeInv, NEW f \in Names, NEW v, Synced(f, v)
  PROVE  /\ disk'[f] = v /\ loose'[f] = {} /\ DOMAIN loose' = Names
         /\ \A g \in Names \ {f} : disk'[g] = disk[g] /\ loose'[g] \in {{}, loose[g]}
  BY DEF TypeInv, Synced, Files, Names

LEMMA UnsyncedFiles ==
  ASSUME TypeInv, NEW f \in Names, NEW v, Unsynced(f, v)
  PROVE  /\ disk'[f] = v /\ loose'[f] = loose[f] \cup {disk[f]} /\ DOMAIN loose' = Names
         /\ \A g \in Names \ {f} : disk'[g] = disk[g] /\ loose'[g] = loose[g]
  BY DEF TypeInv, Unsynced, Files, Names

\* Whatever is written is of the file's kind, so everything stays of its kind.
LEMMA WriteTypes ==
  ASSUME TypeInv, NEW f \in Names, NEW v \in Kind(f),
         Synced(f, v) \/ Unsynced(f, v) \/ UNCHANGED <<disk, loose>>
  PROVE  disk' \in Files /\ DOMAIN loose' = Names /\ MayType'
<1>1. disk' \in Files
  <2>0. CASE UNCHANGED <<disk, loose>>
    BY <2>0 DEF TypeInv
  <2> SUFFICES ASSUME Synced(f, v) \/ Unsynced(f, v) PROVE disk' \in Files
    BY <2>0
  <2>1. disk' = [disk EXCEPT ![f] = v] /\ disk \in Files
    BY DEF TypeInv, Synced, Unsynced
  <2>2. CASE f \in {"owner", "repair"}
    <3>1. v \in BOOLEAN
      BY <2>2 DEF Kind
    <3> QED BY <2>1, <2>2, <3>1 DEF Files
  <2>3. CASE f \in {"view", "pin", "complete"}
    <3>1. v \in 0 .. MaxEpoch
      BY <2>3 DEF Kind
    <3> QED BY <2>1, <2>3, <3>1 DEF Files
  <2>4. CASE f \in {"reg", "revoke", "meta", "blobs", "use"}
    BY <2>1, <2>4 DEF Kind, Files
  <2> QED BY <2>2, <2>3, <2>4 DEF Names
<1>2. MayType' /\ DOMAIN loose' = Names
  <2>1. \A g \in Names : loose[g] \subseteq Kind(g) /\ disk[g] \in Kind(g)
    BY DEF TypeInv, MayType, May
  <2>2. \A g \in Names : loose'[g] \subseteq Kind(g) /\ disk'[g] \in Kind(g)
    BY <2>1, SyncedFiles, UnsyncedFiles
  <2>3. DOMAIN loose' = Names
    BY SyncedFiles, UnsyncedFiles DEF TypeInv
  <2>4. ASSUME NEW g \in Names PROVE May(g)' \subseteq Kind(g)'
    BY <2>2 DEF May, Kind
  <2> QED BY <2>3, <2>4 DEF MayType
<1> QED BY <1>1, <1>2

\* A promise that stands is kept by the files: an audit finds nothing to revoke.
LEMMA PromiseVerifies ==
  ASSUME PinInv, Bad(disk)
  PROVE  promise = "none"
<1>1. promise # "complete"
  BY DEF PinInv, TypeInv, PromiseInv, May, Bad, Allowed, Verified
<1>2. promise # "revoked"
  BY DEF PinInv, PromiseInv, May, Bad, Allowed
<1> QED BY <1>1, <1>2 DEF PinInv, TypeInv

-----------------------------------------------------------------------------
(* Steps.                                                                  *)

\* Opening.
LEMMA OpenKeeps ==
  ASSUME PinInv, Open
  PROVE  PinInv'
<1> USE DEF PinInv, Names, May, Unpinned, Registered, Allowed,
            FromPublish, FromPin, FromMeta, FromContent, FromUnrevoke, FromRegister, FromInvalidate,
            FromIndex, FromReg, FromUnpin, FromIncomplete
<1>1. CASE OpenBegin
  <2>1. TypeInv'
    BY <1>1, LocalPinAssumption DEF OpenBegin, TypeInv, MayType, Kind, Steps, OpenSteps,
        AuditSteps, HydrateSteps, ReleaseSteps
  <2>2. FilesInv'
    BY <1>1 DEF OpenBegin, FilesInv, HydrateInv, ReleaseInv, PromiseInv
  <2>3. HydrateInv'
    BY <1>1 DEF OpenBegin, FilesInv, HydrateInv, TypeInv
  <2>4. ReleaseInv'
    BY <1>1 DEF OpenBegin, FilesInv, ReleaseInv, TypeInv
  <2>5. PromiseInv'
    BY <1>1 DEF OpenBegin, FilesInv, HydrateInv, ReleaseInv, PromiseInv, TypeInv
  <2> QED BY <2>1, <2>2, <2>3, <2>4, <2>5
<1>2. CASE OpenOwner
  <2>a. TRUE \in Kind("owner")
    BY LocalPinAssumption DEF Kind
  <2>b. Synced("owner", TRUE) \/ Unsynced("owner", TRUE) \/ UNCHANGED <<disk, loose>>
    BY <1>2 DEF OpenOwner, Write, WriteTorn
  <2>0. disk' \in Files /\ DOMAIN loose' = Names /\ MayType'
    BY <2>a, <2>b, WriteTypes
  <2>1. TypeInv'
    BY <1>2, <2>0 DEF OpenOwner, TypeInv, Write, WriteTorn, Steps, OpenSteps, AuditSteps,
        HydrateSteps, ReleaseSteps
  <2>t. disk \in Files /\ DOMAIN loose = Names
    BY DEF TypeInv
  <2>2. FilesInv'
    BY <1>2, <2>t DEF OpenOwner, Write, WriteTorn, Synced, Unsynced, Directory, Files, FilesInv,
        HydrateInv, ReleaseInv, PromiseInv
  <2>3. HydrateInv'
    BY <1>2, <2>t DEF OpenOwner, Write, WriteTorn, Synced, Unsynced, Directory, Files, FilesInv,
        HydrateInv, TypeInv
  <2>4. ReleaseInv'
    BY <1>2, <2>t DEF OpenOwner, Write, WriteTorn, Synced, Unsynced, Directory, Files, FilesInv,
        ReleaseInv, TypeInv
  <2>5. PromiseInv'
    BY <1>2, <2>t DEF OpenOwner, Write, WriteTorn, Synced, Unsynced, Directory, Files, FilesInv,
        HydrateInv, ReleaseInv, PromiseInv, TypeInv
  <2> QED BY <2>1, <2>2, <2>3, <2>4, <2>5
<1>3. CASE OpenRegister
  <2>a. "Active" \in Kind("reg")
    BY LocalPinAssumption DEF Kind
  <2>b. Synced("reg", "Active") \/ Unsynced("reg", "Active") \/ UNCHANGED <<disk, loose>>
    BY <1>3 DEF OpenRegister, Write, WriteTorn
  <2>0. disk' \in Files /\ DOMAIN loose' = Names /\ MayType'
    BY <2>a, <2>b, WriteTypes
  <2>1. TypeInv'
    BY <1>3, <2>0 DEF OpenRegister, TypeInv, Write, WriteTorn, Steps, OpenSteps, AuditSteps,
        HydrateSteps, ReleaseSteps
  <2>t. disk \in Files /\ DOMAIN loose = Names
    BY DEF TypeInv
  <2>2. FilesInv'
    BY <1>3, <2>t DEF OpenRegister, Artifacts, Write, WriteTorn, Synced, Unsynced, Directory,
        Files, FilesInv, HydrateInv, ReleaseInv, PromiseInv
  <2>3. HydrateInv'
    BY <1>3, <2>t DEF OpenRegister, Artifacts, Write, WriteTorn, Synced, Unsynced, Directory,
        Files, FilesInv, HydrateInv, TypeInv
  <2>4. ReleaseInv'
    BY <1>3, <2>t DEF OpenRegister, Artifacts, Write, WriteTorn, Synced, Unsynced, Directory,
        Files, FilesInv, ReleaseInv, TypeInv
  <2>5. PromiseInv'
    BY <1>3, <2>t DEF OpenRegister, Artifacts, Write, WriteTorn, Synced, Unsynced, Directory,
        Files, FilesInv, HydrateInv, ReleaseInv, PromiseInv, TypeInv
  <2> QED BY <2>1, <2>2, <2>3, <2>4, <2>5
<1>4. CASE OpenAudit
  <2>1. TypeInv'
    BY <1>4, LocalPinAssumption DEF OpenAudit, TypeInv, MayType, Kind, Steps, OpenSteps,
        AuditSteps, HydrateSteps, ReleaseSteps
  <2>2. FilesInv'
    BY <1>4 DEF OpenAudit, FilesInv, HydrateInv, ReleaseInv, PromiseInv
  <2>3. HydrateInv'
    BY <1>4 DEF OpenAudit, FilesInv, HydrateInv, TypeInv
  <2>4. ReleaseInv'
    BY <1>4 DEF OpenAudit, FilesInv, ReleaseInv, TypeInv
  <2>5. PromiseInv'
    BY <1>4, PromiseVerifies DEF OpenAudit, FilesInv, HydrateInv, ReleaseInv, PromiseInv, TypeInv
  <2> QED BY <2>1, <2>2, <2>3, <2>4, <2>5
<1>5. CASE OpenUse
  <2>a. "live" \in Kind("use")
    BY LocalPinAssumption DEF Kind
  <2>b. Synced("use", "live") \/ Unsynced("use", "live") \/ UNCHANGED <<disk, loose>>
    BY <1>5 DEF OpenUse, Write, WriteTorn
  <2>0. disk' \in Files /\ DOMAIN loose' = Names /\ MayType'
    BY <2>a, <2>b, WriteTypes
  <2>1. TypeInv'
    BY <1>5, <2>0 DEF OpenUse, TypeInv, Write, WriteTorn, Steps, OpenSteps, AuditSteps,
        HydrateSteps, ReleaseSteps
  <2>t. disk \in Files /\ DOMAIN loose = Names
    BY DEF TypeInv
  <2>2. FilesInv'
    BY <1>5, <2>t DEF OpenUse, Write, WriteTorn, Synced, Unsynced, Directory, Files, FilesInv,
        HydrateInv, ReleaseInv, PromiseInv
  <2>3. HydrateInv'
    BY <1>5, <2>t DEF OpenUse, Write, WriteTorn, Synced, Unsynced, Directory, Files, FilesInv,
        HydrateInv, TypeInv
  <2>4. ReleaseInv'
    BY <1>5, <2>t DEF OpenUse, Write, WriteTorn, Synced, Unsynced, Directory, Files, FilesInv,
        ReleaseInv, TypeInv
  <2>5. PromiseInv'
    BY <1>5, <2>t DEF OpenUse, Write, WriteTorn, Synced, Unsynced, Directory, Files, FilesInv,
        HydrateInv, ReleaseInv, PromiseInv, TypeInv
  <2> QED BY <2>1, <2>2, <2>3, <2>4, <2>5
<1>6. CASE AuditInvalidate("o_invalidate", "o_repair")
  <2>a. 0 \in Kind("complete")
    BY LocalPinAssumption DEF Kind
  <2>b. Synced("complete", 0) \/ Unsynced("complete", 0) \/ UNCHANGED <<disk, loose>>
    BY <1>6 DEF AuditInvalidate, RemoveDurable, RemoveTorn, Write, WriteTorn
  <2>0. disk' \in Files /\ DOMAIN loose' = Names /\ MayType'
    BY <2>a, <2>b, WriteTypes
  <2>1. TypeInv'
    BY <1>6, <2>0 DEF AuditInvalidate, TypeInv, RemoveDurable, RemoveTorn, Write, WriteTorn,
        Steps, OpenSteps, AuditSteps, HydrateSteps, ReleaseSteps
  <2>t. disk \in Files /\ DOMAIN loose = Names
    BY DEF TypeInv
  <2>2. FilesInv'
    BY <1>6, <2>t DEF AuditInvalidate, RemoveDurable, RemoveTorn, Write, WriteTorn, Synced,
        Unsynced, Directory, Files, FilesInv, HydrateInv, ReleaseInv, PromiseInv
  <2>3. HydrateInv'
    BY <1>6, <2>t DEF AuditInvalidate, RemoveDurable, RemoveTorn, Write, WriteTorn, Synced,
        Unsynced, Directory, Files, FilesInv, HydrateInv, TypeInv
  <2>4. ReleaseInv'
    BY <1>6, <2>t DEF AuditInvalidate, RemoveDurable, RemoveTorn, Write, WriteTorn, Synced,
        Unsynced, Directory, Files, FilesInv, ReleaseInv, TypeInv
  <2>5. PromiseInv'
    BY <1>6, <2>t DEF AuditInvalidate, RemoveDurable, RemoveTorn, Write, WriteTorn, Synced,
        Unsynced, Directory, Files, FilesInv, HydrateInv, ReleaseInv, PromiseInv, TypeInv
  <2> QED BY <2>1, <2>2, <2>3, <2>4, <2>5
<1>7. CASE AuditRepair("o_repair", "o_use")
  <2>a. TRUE \in Kind("repair")
    BY LocalPinAssumption DEF Kind
  <2>b. Synced("repair", TRUE) \/ Unsynced("repair", TRUE) \/ UNCHANGED <<disk, loose>>
    BY <1>7 DEF AuditRepair, Write, WriteTorn
  <2>0. disk' \in Files /\ DOMAIN loose' = Names /\ MayType'
    BY <2>a, <2>b, WriteTypes
  <2>1. TypeInv'
    BY <1>7, <2>0 DEF AuditRepair, TypeInv, Write, WriteTorn, Steps, OpenSteps, AuditSteps,
        HydrateSteps, ReleaseSteps
  <2>t. disk \in Files /\ DOMAIN loose = Names
    BY DEF TypeInv
  <2>2. FilesInv'
    BY <1>7, <2>t DEF AuditRepair, Write, WriteTorn, Synced, Unsynced, Directory, Files,
        FilesInv, HydrateInv, ReleaseInv, PromiseInv
  <2>3. HydrateInv'
    BY <1>7, <2>t DEF AuditRepair, Write, WriteTorn, Synced, Unsynced, Directory, Files,
        FilesInv, HydrateInv, TypeInv
  <2>4. ReleaseInv'
    BY <1>7, <2>t DEF AuditRepair, Write, WriteTorn, Synced, Unsynced, Directory, Files,
        FilesInv, ReleaseInv, TypeInv
  <2>5. PromiseInv'
    BY <1>7, <2>t DEF AuditRepair, Write, WriteTorn, Synced, Unsynced, Directory, Files,
        FilesInv, HydrateInv, ReleaseInv, PromiseInv, TypeInv
  <2> QED BY <2>1, <2>2, <2>3, <2>4, <2>5
<1> QED BY <1>1, <1>2, <1>3, <1>4, <1>5, <1>6, <1>7 DEF Open

\* Auditing.
LEMMA AuditKeeps ==
  ASSUME PinInv, Audit
  PROVE  PinInv'
<1> USE DEF PinInv, Names, May, Unpinned, Registered, Allowed,
            FromPublish, FromPin, FromMeta, FromContent, FromUnrevoke, FromRegister, FromInvalidate,
            FromIndex, FromReg, FromUnpin, FromIncomplete
<1>1. CASE AuditBegin
  <2>1. TypeInv'
    BY <1>1, LocalPinAssumption DEF AuditBegin, TypeInv, MayType, Kind, Steps, OpenSteps,
        AuditSteps, HydrateSteps, ReleaseSteps
  <2>2. FilesInv'
    BY <1>1 DEF AuditBegin, FilesInv, HydrateInv, ReleaseInv, PromiseInv
  <2>3. HydrateInv'
    BY <1>1 DEF AuditBegin, FilesInv, HydrateInv, TypeInv
  <2>4. ReleaseInv'
    BY <1>1 DEF AuditBegin, FilesInv, ReleaseInv, TypeInv
  <2>5. PromiseInv'
    BY <1>1 DEF AuditBegin, FilesInv, HydrateInv, ReleaseInv, PromiseInv, TypeInv
  <2> QED BY <2>1, <2>2, <2>3, <2>4, <2>5
<1>2. CASE AuditCheck
  <2>1. TypeInv'
    BY <1>2, LocalPinAssumption DEF AuditCheck, TypeInv, MayType, Kind, Steps, OpenSteps,
        AuditSteps, HydrateSteps, ReleaseSteps
  <2>2. FilesInv'
    BY <1>2 DEF AuditCheck, FilesInv, HydrateInv, ReleaseInv, PromiseInv
  <2>3. HydrateInv'
    BY <1>2 DEF AuditCheck, FilesInv, HydrateInv, TypeInv
  <2>4. ReleaseInv'
    BY <1>2 DEF AuditCheck, FilesInv, ReleaseInv, TypeInv
  <2>5. PromiseInv'
    BY <1>2, PromiseVerifies DEF AuditCheck, FilesInv, HydrateInv, ReleaseInv, PromiseInv,
        TypeInv
  <2> QED BY <2>1, <2>2, <2>3, <2>4, <2>5
<1>3. CASE AuditInvalidate("a_invalidate", "a_repair")
  <2>a. 0 \in Kind("complete")
    BY LocalPinAssumption DEF Kind
  <2>b. Synced("complete", 0) \/ Unsynced("complete", 0) \/ UNCHANGED <<disk, loose>>
    BY <1>3 DEF AuditInvalidate, RemoveDurable, RemoveTorn, Write, WriteTorn
  <2>0. disk' \in Files /\ DOMAIN loose' = Names /\ MayType'
    BY <2>a, <2>b, WriteTypes
  <2>1. TypeInv'
    BY <1>3, <2>0 DEF AuditInvalidate, TypeInv, RemoveDurable, RemoveTorn, Write, WriteTorn,
        Steps, OpenSteps, AuditSteps, HydrateSteps, ReleaseSteps
  <2>t. disk \in Files /\ DOMAIN loose = Names
    BY DEF TypeInv
  <2>2. FilesInv'
    BY <1>3, <2>t DEF AuditInvalidate, RemoveDurable, RemoveTorn, Write, WriteTorn, Synced,
        Unsynced, Directory, Files, FilesInv, HydrateInv, ReleaseInv, PromiseInv
  <2>3. HydrateInv'
    BY <1>3, <2>t DEF AuditInvalidate, RemoveDurable, RemoveTorn, Write, WriteTorn, Synced,
        Unsynced, Directory, Files, FilesInv, HydrateInv, TypeInv
  <2>4. ReleaseInv'
    BY <1>3, <2>t DEF AuditInvalidate, RemoveDurable, RemoveTorn, Write, WriteTorn, Synced,
        Unsynced, Directory, Files, FilesInv, ReleaseInv, TypeInv
  <2>5. PromiseInv'
    BY <1>3, <2>t DEF AuditInvalidate, RemoveDurable, RemoveTorn, Write, WriteTorn, Synced,
        Unsynced, Directory, Files, FilesInv, HydrateInv, ReleaseInv, PromiseInv, TypeInv
  <2> QED BY <2>1, <2>2, <2>3, <2>4, <2>5
<1>4. CASE AuditRepair("a_repair", "idle")
  <2>a. TRUE \in Kind("repair")
    BY LocalPinAssumption DEF Kind
  <2>b. Synced("repair", TRUE) \/ Unsynced("repair", TRUE) \/ UNCHANGED <<disk, loose>>
    BY <1>4 DEF AuditRepair, Write, WriteTorn
  <2>0. disk' \in Files /\ DOMAIN loose' = Names /\ MayType'
    BY <2>a, <2>b, WriteTypes
  <2>1. TypeInv'
    BY <1>4, <2>0 DEF AuditRepair, TypeInv, Write, WriteTorn, Steps, OpenSteps, AuditSteps,
        HydrateSteps, ReleaseSteps
  <2>t. disk \in Files /\ DOMAIN loose = Names
    BY DEF TypeInv
  <2>2. FilesInv'
    BY <1>4, <2>t DEF AuditRepair, Write, WriteTorn, Synced, Unsynced, Directory, Files,
        FilesInv, HydrateInv, ReleaseInv, PromiseInv
  <2>3. HydrateInv'
    BY <1>4, <2>t DEF AuditRepair, Write, WriteTorn, Synced, Unsynced, Directory, Files,
        FilesInv, HydrateInv, TypeInv
  <2>4. ReleaseInv'
    BY <1>4, <2>t DEF AuditRepair, Write, WriteTorn, Synced, Unsynced, Directory, Files,
        FilesInv, ReleaseInv, TypeInv
  <2>5. PromiseInv'
    BY <1>4, <2>t DEF AuditRepair, Write, WriteTorn, Synced, Unsynced, Directory, Files,
        FilesInv, HydrateInv, ReleaseInv, PromiseInv, TypeInv
  <2> QED BY <2>1, <2>2, <2>3, <2>4, <2>5
<1> QED BY <1>1, <1>2, <1>3, <1>4 DEF Audit

\* Hydration.
LEMMA HydrateKeeps ==
  ASSUME PinInv, Hydrate
  PROVE  PinInv'
<1> USE DEF PinInv, Names, May, Unpinned, Registered, Allowed,
            FromPublish, FromPin, FromMeta, FromContent, FromUnrevoke, FromRegister, FromInvalidate,
            FromIndex, FromReg, FromUnpin, FromIncomplete
<1>1. CASE HydrateBegin
  <2>1. TypeInv'
    BY <1>1, LocalPinAssumption DEF HydrateBegin, TypeInv, MayType, Kind, Steps, OpenSteps,
        AuditSteps, HydrateSteps, ReleaseSteps
  <2>2. FilesInv'
    BY <1>1 DEF HydrateBegin, FilesInv, HydrateInv, ReleaseInv, PromiseInv
  <2>3. HydrateInv'
    BY <1>1 DEF HydrateBegin, FilesInv, HydrateInv, TypeInv
  <2>4. ReleaseInv'
    BY <1>1 DEF HydrateBegin, FilesInv, ReleaseInv, TypeInv
  <2>5. PromiseInv'
    BY <1>1 DEF HydrateBegin, FilesInv, HydrateInv, ReleaseInv, PromiseInv, TypeInv
  <2> QED BY <2>1, <2>2, <2>3, <2>4, <2>5
<1>2. CASE Retain("h_retain", TRUE)
  <2>a. "retained" \in Kind("use")
    BY LocalPinAssumption DEF Kind
  <2>b. Synced("use", "retained") \/ Unsynced("use", "retained") \/ UNCHANGED <<disk, loose>>
    BY <1>2 DEF Retain, Write, WriteTorn
  <2>0. disk' \in Files /\ DOMAIN loose' = Names /\ MayType'
    BY <2>a, <2>b, WriteTypes
  <2>1. TypeInv'
    BY <1>2, <2>0 DEF Retain, TypeInv, Write, WriteTorn, Steps, OpenSteps, AuditSteps,
        HydrateSteps, ReleaseSteps
  <2>t. disk \in Files /\ DOMAIN loose = Names
    BY DEF TypeInv
  <2>2. FilesInv'
    BY <1>2, <2>t DEF Retain, Write, WriteTorn, Synced, Unsynced, Directory, Files, FilesInv,
        HydrateInv, ReleaseInv, PromiseInv
  <2>3. HydrateInv'
    BY <1>2, <2>t DEF Retain, Write, WriteTorn, Synced, Unsynced, Directory, Files, FilesInv,
        HydrateInv, TypeInv
  <2>4. ReleaseInv'
    BY <1>2, <2>t DEF Retain, Write, WriteTorn, Synced, Unsynced, Directory, Files, FilesInv,
        ReleaseInv, TypeInv
  <2>5. PromiseInv'
    BY <1>2, <2>t DEF Retain, Write, WriteTorn, Synced, Unsynced, Directory, Files, FilesInv,
        HydrateInv, ReleaseInv, PromiseInv, TypeInv
  <2> QED BY <2>1, <2>2, <2>3, <2>4, <2>5
<1>3. CASE HydratePrepare
  <2>1. TypeInv'
    <3>1. between' \in BOOLEAN
      BY <1>3 DEF HydratePrepare
    <3>2. pc' \in Steps
      BY <1>3 DEF HydratePrepare, Steps, HydrateSteps
    <3>3. MayType'
      BY <1>3 DEF HydratePrepare, TypeInv, MayType, May, Kind
    <3> QED BY <1>3, <3>1, <3>2, <3>3 DEF HydratePrepare, TypeInv
  <2>2. FilesInv'
    BY <1>3 DEF HydratePrepare, FilesInv, HydrateInv, ReleaseInv, PromiseInv
  <2>3. HydrateInv'
    BY <1>3 DEF HydratePrepare, FilesInv, HydrateInv, TypeInv
  <2>4. ReleaseInv'
    BY <1>3 DEF HydratePrepare, FilesInv, ReleaseInv, TypeInv
  <2>5. PromiseInv'
    BY <1>3 DEF HydratePrepare, FilesInv, HydrateInv, ReleaseInv, PromiseInv, TypeInv
  <2> QED BY <2>1, <2>2, <2>3, <2>4, <2>5
<1>4. CASE HydrateInvalidate
  <2>a. 0 \in Kind("complete")
    BY LocalPinAssumption DEF Kind
  <2>b. Synced("complete", 0) \/ Unsynced("complete", 0) \/ UNCHANGED <<disk, loose>>
    BY <1>4 DEF HydrateInvalidate, RemoveDurable, RemoveTorn, Write, WriteTorn
  <2>0. disk' \in Files /\ DOMAIN loose' = Names /\ MayType'
    BY <2>a, <2>b, WriteTypes
  <2>1. TypeInv'
    BY <1>4, <2>0 DEF HydrateInvalidate, TypeInv, RemoveDurable, RemoveTorn, Write, WriteTorn,
        Steps, OpenSteps, AuditSteps, HydrateSteps, ReleaseSteps
  <2>t. disk \in Files /\ DOMAIN loose = Names
    BY DEF TypeInv
  <2>2. FilesInv'
    BY <1>4, <2>t DEF HydrateInvalidate, RemoveDurable, RemoveTorn, Write, WriteTorn, Synced,
        Unsynced, Directory, Files, FilesInv, HydrateInv, ReleaseInv, PromiseInv
  <2>3. HydrateInv'
    BY <1>4, <2>t DEF HydrateInvalidate, RemoveDurable, RemoveTorn, Write, WriteTorn, Synced,
        Unsynced, Directory, Files, FilesInv, HydrateInv, TypeInv
  <2>4. ReleaseInv'
    BY <1>4, <2>t DEF HydrateInvalidate, RemoveDurable, RemoveTorn, Write, WriteTorn, Synced,
        Unsynced, Directory, Files, FilesInv, ReleaseInv, TypeInv
  <2>5. PromiseInv'
    BY <1>4, <2>t DEF HydrateInvalidate, RemoveDurable, RemoveTorn, Write, WriteTorn, Synced,
        Unsynced, Directory, Files, FilesInv, HydrateInv, ReleaseInv, PromiseInv, TypeInv
  <2> QED BY <2>1, <2>2, <2>3, <2>4, <2>5
<1>5. CASE HydrateRegister
  <2>a. "Active" \in Kind("reg")
    BY LocalPinAssumption DEF Kind
  <2>b. Synced("reg", "Active") \/ Unsynced("reg", "Active") \/ UNCHANGED <<disk, loose>>
    BY <1>5 DEF HydrateRegister, Write, WriteTorn
  <2>0. disk' \in Files /\ DOMAIN loose' = Names /\ MayType'
    BY <2>a, <2>b, WriteTypes
  <2>1. TypeInv'
    BY <1>5, <2>0 DEF HydrateRegister, TypeInv, Write, WriteTorn, Steps, OpenSteps, AuditSteps,
        HydrateSteps, ReleaseSteps
  <2>t. disk \in Files /\ DOMAIN loose = Names
    BY DEF TypeInv
  <2>2. FilesInv'
    BY <1>5, <2>t DEF HydrateRegister, Write, WriteTorn, Synced, Unsynced, Directory, Files,
        FilesInv, HydrateInv, ReleaseInv, PromiseInv
  <2>3. HydrateInv'
    BY <1>5, <2>t DEF HydrateRegister, Write, WriteTorn, Synced, Unsynced, Directory, Files,
        FilesInv, HydrateInv, TypeInv
  <2>4. ReleaseInv'
    BY <1>5, <2>t DEF HydrateRegister, Write, WriteTorn, Synced, Unsynced, Directory, Files,
        FilesInv, ReleaseInv, TypeInv
  <2>5. PromiseInv'
    BY <1>5, <2>t DEF HydrateRegister, Write, WriteTorn, Synced, Unsynced, Directory, Files,
        FilesInv, HydrateInv, ReleaseInv, PromiseInv, TypeInv
  <2> QED BY <2>1, <2>2, <2>3, <2>4, <2>5
<1>6. CASE HydrateUnrevoke
  <2>a. "none" \in Kind("revoke")
    BY LocalPinAssumption DEF Kind
  <2>b. Synced("revoke", "none") \/ Unsynced("revoke", "none") \/ UNCHANGED <<disk, loose>>
    BY <1>6 DEF HydrateUnrevoke, RemoveDurable, RemoveTorn, Write, WriteTorn
  <2>0. disk' \in Files /\ DOMAIN loose' = Names /\ MayType'
    BY <2>a, <2>b, WriteTypes
  <2>1. TypeInv'
    BY <1>6, <2>0 DEF HydrateUnrevoke, TypeInv, RemoveDurable, RemoveTorn, Write, WriteTorn,
        Steps, OpenSteps, AuditSteps, HydrateSteps, ReleaseSteps
  <2>t. disk \in Files /\ DOMAIN loose = Names
    BY DEF TypeInv
  <2>2. FilesInv'
    BY <1>6, <2>t DEF HydrateUnrevoke, RemoveDurable, RemoveTorn, Write, WriteTorn, Synced,
        Unsynced, Directory, Files, FilesInv, HydrateInv, ReleaseInv, PromiseInv
  <2>3. HydrateInv'
    BY <1>6, <2>t DEF HydrateUnrevoke, RemoveDurable, RemoveTorn, Write, WriteTorn, Synced,
        Unsynced, Directory, Files, FilesInv, HydrateInv, TypeInv
  <2>4. ReleaseInv'
    BY <1>6, <2>t DEF HydrateUnrevoke, RemoveDurable, RemoveTorn, Write, WriteTorn, Synced,
        Unsynced, Directory, Files, FilesInv, ReleaseInv, TypeInv
  <2>5. PromiseInv'
    BY <1>6, <2>t DEF HydrateUnrevoke, RemoveDurable, RemoveTorn, Write, WriteTorn, Synced,
        Unsynced, Directory, Files, FilesInv, HydrateInv, ReleaseInv, PromiseInv, TypeInv
  <2> QED BY <2>1, <2>2, <2>3, <2>4, <2>5
<1>7. CASE HydrateView
  <2>a. epoch \in Kind("view")
    BY LocalPinAssumption DEF Kind, TypeInv
  <2>b. Synced("view", epoch) \/ Unsynced("view", epoch) \/ UNCHANGED <<disk, loose>>
    BY <1>7 DEF HydrateView, Write, WriteTorn
  <2>0. disk' \in Files /\ DOMAIN loose' = Names /\ MayType'
    BY <2>a, <2>b, WriteTypes
  <2>1. TypeInv'
    BY <1>7, <2>0 DEF HydrateView, TypeInv, Write, WriteTorn, Steps, OpenSteps, AuditSteps,
        HydrateSteps, ReleaseSteps
  <2>t. disk \in Files /\ DOMAIN loose = Names
    BY DEF TypeInv
  <2>2. FilesInv'
    BY <1>7, <2>t DEF HydrateView, Write, WriteTorn, Synced, Unsynced, Directory, Files,
        FilesInv, HydrateInv, ReleaseInv, PromiseInv
  <2>3. HydrateInv'
    BY <1>7, <2>t DEF HydrateView, Write, WriteTorn, Synced, Unsynced, Directory, Files,
        FilesInv, HydrateInv, TypeInv
  <2>4. ReleaseInv'
    BY <1>7, <2>t DEF HydrateView, Write, WriteTorn, Synced, Unsynced, Directory, Files,
        FilesInv, ReleaseInv, TypeInv
  <2>5. PromiseInv'
    BY <1>7, <2>t DEF HydrateView, Write, WriteTorn, Synced, Unsynced, Directory, Files,
        FilesInv, HydrateInv, ReleaseInv, PromiseInv, TypeInv
  <2> QED BY <2>1, <2>2, <2>3, <2>4, <2>5
<1>8. CASE HydrateContent
  <2>a. "ok" \in Kind("blobs")
    BY LocalPinAssumption DEF Kind
  <2>b. Synced("blobs", "ok") \/ Unsynced("blobs", "ok") \/ UNCHANGED <<disk, loose>>
    BY <1>8 DEF HydrateContent, Write, WriteTorn
  <2>0. disk' \in Files /\ DOMAIN loose' = Names /\ MayType'
    BY <2>a, <2>b, WriteTypes
  <2>1. TypeInv'
    BY <1>8, <2>0 DEF HydrateContent, TypeInv, Write, WriteTorn, Steps, OpenSteps, AuditSteps,
        HydrateSteps, ReleaseSteps
  <2>t. disk \in Files /\ DOMAIN loose = Names
    BY DEF TypeInv
  <2>2. FilesInv'
    BY <1>8, <2>t DEF HydrateContent, Write, WriteTorn, Synced, Unsynced, Directory, Files,
        FilesInv, HydrateInv, ReleaseInv, PromiseInv
  <2>3. HydrateInv'
    BY <1>8, <2>t DEF HydrateContent, Write, WriteTorn, Synced, Unsynced, Directory, Files,
        FilesInv, HydrateInv, TypeInv
  <2>4. ReleaseInv'
    BY <1>8, <2>t DEF HydrateContent, Write, WriteTorn, Synced, Unsynced, Directory, Files,
        FilesInv, ReleaseInv, TypeInv
  <2>5. PromiseInv'
    BY <1>8, <2>t DEF HydrateContent, Write, WriteTorn, Synced, Unsynced, Directory, Files,
        FilesInv, HydrateInv, ReleaseInv, PromiseInv, TypeInv
  <2> QED BY <2>1, <2>2, <2>3, <2>4, <2>5
<1>9. CASE HydrateMeta
  <2>a. "ok" \in Kind("meta")
    BY LocalPinAssumption DEF Kind
  <2>b. Synced("meta", "ok") \/ Unsynced("meta", "ok") \/ UNCHANGED <<disk, loose>>
    BY <1>9 DEF HydrateMeta, Write, WriteTorn
  <2>0. disk' \in Files /\ DOMAIN loose' = Names /\ MayType'
    BY <2>a, <2>b, WriteTypes
  <2>1. TypeInv'
    BY <1>9, <2>0 DEF HydrateMeta, TypeInv, Write, WriteTorn, Steps, OpenSteps, AuditSteps,
        HydrateSteps, ReleaseSteps
  <2>t. disk \in Files /\ DOMAIN loose = Names
    BY DEF TypeInv
  <2>2. FilesInv'
    BY <1>9, <2>t DEF HydrateMeta, Write, WriteTorn, Synced, Unsynced, Directory, Files,
        FilesInv, HydrateInv, ReleaseInv, PromiseInv
  <2>3. HydrateInv'
    BY <1>9, <2>t DEF HydrateMeta, Write, WriteTorn, Synced, Unsynced, Directory, Files,
        FilesInv, HydrateInv, TypeInv
  <2>4. ReleaseInv'
    BY <1>9, <2>t DEF HydrateMeta, Write, WriteTorn, Synced, Unsynced, Directory, Files,
        FilesInv, ReleaseInv, TypeInv
  <2>5. PromiseInv'
    BY <1>9, <2>t DEF HydrateMeta, Write, WriteTorn, Synced, Unsynced, Directory, Files,
        FilesInv, HydrateInv, ReleaseInv, PromiseInv, TypeInv
  <2> QED BY <2>1, <2>2, <2>3, <2>4, <2>5
<1>10. CASE HydratePin
  <2>a. epoch \in Kind("pin")
    BY LocalPinAssumption DEF Kind, TypeInv
  <2>b. Synced("pin", epoch) \/ Unsynced("pin", epoch) \/ UNCHANGED <<disk, loose>>
    BY <1>10 DEF HydratePin, Write, WriteTorn
  <2>0. disk' \in Files /\ DOMAIN loose' = Names /\ MayType'
    BY <2>a, <2>b, WriteTypes
  <2>1. TypeInv'
    BY <1>10, <2>0 DEF HydratePin, TypeInv, Write, WriteTorn, Steps, OpenSteps, AuditSteps,
        HydrateSteps, ReleaseSteps
  <2>t. disk \in Files /\ DOMAIN loose = Names
    BY DEF TypeInv
  <2>2. FilesInv'
    BY <1>10, <2>t DEF HydratePin, Write, WriteTorn, Synced, Unsynced, Directory, Files,
        FilesInv, HydrateInv, ReleaseInv, PromiseInv
  <2>3. HydrateInv'
    BY <1>10, <2>t DEF HydratePin, Write, WriteTorn, Synced, Unsynced, Directory, Files,
        FilesInv, HydrateInv, TypeInv
  <2>4. ReleaseInv'
    BY <1>10, <2>t DEF HydratePin, Write, WriteTorn, Synced, Unsynced, Directory, Files,
        FilesInv, ReleaseInv, TypeInv
  <2>5. PromiseInv'
    BY <1>10, <2>t DEF HydratePin, Write, WriteTorn, Synced, Unsynced, Directory, Files,
        FilesInv, HydrateInv, ReleaseInv, PromiseInv, TypeInv
  <2> QED BY <2>1, <2>2, <2>3, <2>4, <2>5
<1>11. CASE HydratePublish
  <2>a. "Active" \in Kind("reg")
    BY LocalPinAssumption DEF Kind
  <2>b. Synced("reg", "Active") \/ Unsynced("reg", "Active") \/ UNCHANGED <<disk, loose>>
    BY <1>11 DEF HydratePublish, Write, WriteTorn
  <2>0. disk' \in Files /\ DOMAIN loose' = Names /\ MayType'
    BY <2>a, <2>b, WriteTypes
  <2>1. TypeInv'
    BY <1>11, <2>0 DEF HydratePublish, TypeInv, Write, WriteTorn, Steps, OpenSteps, AuditSteps,
        HydrateSteps, ReleaseSteps
  <2>t. disk \in Files /\ DOMAIN loose = Names
    BY DEF TypeInv
  <2>2. FilesInv'
    BY <1>11, <2>t DEF HydratePublish, Write, WriteTorn, Synced, Unsynced, Directory, Files,
        FilesInv, HydrateInv, ReleaseInv, PromiseInv
  <2>3. HydrateInv'
    BY <1>11, <2>t DEF HydratePublish, Write, WriteTorn, Synced, Unsynced, Directory, Files,
        FilesInv, HydrateInv, TypeInv
  <2>4. ReleaseInv'
    BY <1>11, <2>t DEF HydratePublish, Write, WriteTorn, Synced, Unsynced, Directory, Files,
        FilesInv, ReleaseInv, TypeInv
  <2>5. PromiseInv'
    BY <1>11, <2>t DEF HydratePublish, Write, WriteTorn, Synced, Unsynced, Directory, Files,
        FilesInv, HydrateInv, ReleaseInv, PromiseInv, TypeInv
  <2> QED BY <2>1, <2>2, <2>3, <2>4, <2>5
<1>12. CASE HydrateRepaired
  <2>a. FALSE \in Kind("repair")
    BY LocalPinAssumption DEF Kind
  <2>b. Synced("repair", FALSE) \/ Unsynced("repair", FALSE) \/ UNCHANGED <<disk, loose>>
    BY <1>12 DEF HydrateRepaired, RemoveDurable, RemoveTorn, Write, WriteTorn
  <2>0. disk' \in Files /\ DOMAIN loose' = Names /\ MayType'
    BY <2>a, <2>b, WriteTypes
  <2>1. TypeInv'
    BY <1>12, <2>0 DEF HydrateRepaired, TypeInv, RemoveDurable, RemoveTorn, Write, WriteTorn,
        Steps, OpenSteps, AuditSteps, HydrateSteps, ReleaseSteps
  <2>t. disk \in Files /\ DOMAIN loose = Names
    BY DEF TypeInv
  <2>c. /\ \A g \in Names \ {"repair"} : disk'[g] = disk[g] /\ loose'[g] \in {{}, loose[g]}
        /\ pc = "h_repair" /\ pc' \in {"h_complete", "idle"} /\ UNCHANGED <<epoch, promise>>
    BY <1>12, <2>b, SyncedFiles, UnsyncedFiles DEF HydrateRepaired, RemoveDurable, RemoveTorn,
        Write, WriteTorn
  <2>2. FilesInv'
    BY <2>c DEF FilesInv
  <2>3. HydrateInv'
    BY <2>c DEF HydrateInv
  <2>4. ReleaseInv'
    BY <2>c DEF ReleaseInv
  <2>5. PromiseInv'
    BY <2>c DEF PromiseInv
  <2> QED BY <2>1, <2>2, <2>3, <2>4, <2>5
<1>13. CASE HydrateComplete
  <2>a. epoch \in Kind("complete")
    BY LocalPinAssumption DEF Kind, TypeInv
  <2>b. Synced("complete", epoch) \/ Unsynced("complete", epoch) \/ UNCHANGED <<disk, loose>>
    BY <1>13 DEF HydrateComplete, Write, WriteTorn
  <2>0. disk' \in Files /\ DOMAIN loose' = Names /\ MayType'
    BY <2>a, <2>b, WriteTypes
  <2>1. TypeInv'
    BY <1>13, <2>0 DEF HydrateComplete, TypeInv, Write, WriteTorn, Steps, OpenSteps, AuditSteps,
        HydrateSteps, ReleaseSteps
  <2>t. disk \in Files /\ DOMAIN loose = Names
    BY DEF TypeInv
  <2>2. FilesInv'
    BY <1>13, <2>t DEF HydrateComplete, Write, WriteTorn, Synced, Unsynced, Directory, Files,
        FilesInv, HydrateInv, ReleaseInv, PromiseInv
  <2>3. HydrateInv'
    BY <1>13, <2>t DEF HydrateComplete, Write, WriteTorn, Synced, Unsynced, Directory, Files,
        FilesInv, HydrateInv, TypeInv
  <2>4. ReleaseInv'
    BY <1>13, <2>t DEF HydrateComplete, Write, WriteTorn, Synced, Unsynced, Directory, Files,
        FilesInv, ReleaseInv, TypeInv
  <2>5. PromiseInv'
    BY <1>13, <2>t DEF HydrateComplete, Write, WriteTorn, Synced, Unsynced, Directory, Files,
        FilesInv, HydrateInv, ReleaseInv, PromiseInv, TypeInv
  <2> QED BY <2>1, <2>2, <2>3, <2>4, <2>5
<1>14. CASE HydrateAbort
  <2>a. 0 \in Kind("complete")
    BY LocalPinAssumption DEF Kind
  <2>b. Synced("complete", 0) \/ Unsynced("complete", 0) \/ UNCHANGED <<disk, loose>>
    BY <1>14 DEF HydrateAbort, RemoveDurable, RemoveTorn, Write, WriteTorn
  <2>0. disk' \in Files /\ DOMAIN loose' = Names /\ MayType'
    BY <2>a, <2>b, WriteTypes
  <2>1. TypeInv'
    BY <1>14, <2>0 DEF HydrateAbort, TypeInv, RemoveDurable, RemoveTorn, Write, WriteTorn, Steps,
        OpenSteps, AuditSteps, HydrateSteps, ReleaseSteps
  <2>t. disk \in Files /\ DOMAIN loose = Names
    BY DEF TypeInv
  <2>2. FilesInv'
    BY <1>14, <2>t DEF HydrateAbort, RemoveDurable, RemoveTorn, Write, WriteTorn, Synced,
        Unsynced, Directory, Files, FilesInv, HydrateInv, ReleaseInv, PromiseInv
  <2>3. HydrateInv'
    BY <1>14, <2>t DEF HydrateAbort, RemoveDurable, RemoveTorn, Write, WriteTorn, Synced,
        Unsynced, Directory, Files, FilesInv, HydrateInv, TypeInv
  <2>4. ReleaseInv'
    BY <1>14, <2>t DEF HydrateAbort, RemoveDurable, RemoveTorn, Write, WriteTorn, Synced,
        Unsynced, Directory, Files, FilesInv, ReleaseInv, TypeInv
  <2>5. PromiseInv'
    BY <1>14, <2>t DEF HydrateAbort, RemoveDurable, RemoveTorn, Write, WriteTorn, Synced,
        Unsynced, Directory, Files, FilesInv, HydrateInv, ReleaseInv, PromiseInv, TypeInv
  <2> QED BY <2>1, <2>2, <2>3, <2>4, <2>5
<1>15. CASE HydrateRefused
  <2>1. TypeInv'
    <3>1. between' \in BOOLEAN
      BY <1>15 DEF HydrateRefused
    <3>2. MayType'
      BY <1>15 DEF HydrateRefused, TypeInv, MayType, May, Kind
    <3> QED BY <1>15, <3>1, <3>2 DEF HydrateRefused, TypeInv
  <2>2. FilesInv'
    BY <1>15 DEF HydrateRefused, FilesInv, HydrateInv, ReleaseInv, PromiseInv
  <2>3. HydrateInv'
    BY <1>15 DEF HydrateRefused, FilesInv, HydrateInv, TypeInv
  <2>4. ReleaseInv'
    BY <1>15 DEF HydrateRefused, FilesInv, ReleaseInv, TypeInv
  <2>5. PromiseInv'
    BY <1>15 DEF HydrateRefused, FilesInv, HydrateInv, ReleaseInv, PromiseInv, TypeInv
  <2> QED BY <2>1, <2>2, <2>3, <2>4, <2>5
<1> QED BY <1>1, <1>2, <1>3, <1>4, <1>5, <1>6, <1>7, <1>8, <1>9, <1>10, <1>11,
  <1>12, <1>13, <1>14, <1>15 DEF Hydrate

\* Release.
LEMMA ReleaseKeeps ==
  ASSUME PinInv, Release
  PROVE  PinInv'
<1> USE DEF PinInv, Names, May, Unpinned, Registered, Allowed,
            FromPublish, FromPin, FromMeta, FromContent, FromUnrevoke, FromRegister, FromInvalidate,
            FromIndex, FromReg, FromUnpin, FromIncomplete
<1>1. CASE ReleaseBegin
  <2>1. TypeInv'
    BY <1>1, LocalPinAssumption DEF ReleaseBegin, TypeInv, MayType, Kind, Steps, OpenSteps,
        AuditSteps, HydrateSteps, ReleaseSteps
  <2>2. FilesInv'
    BY <1>1 DEF ReleaseBegin, FilesInv, HydrateInv, ReleaseInv, PromiseInv
  <2>3. HydrateInv'
    BY <1>1 DEF ReleaseBegin, FilesInv, HydrateInv, TypeInv
  <2>4. ReleaseInv'
    BY <1>1 DEF ReleaseBegin, FilesInv, ReleaseInv, TypeInv
  <2>5. PromiseInv'
    BY <1>1 DEF ReleaseBegin, FilesInv, HydrateInv, ReleaseInv, PromiseInv, TypeInv
  <2> QED BY <2>1, <2>2, <2>3, <2>4, <2>5
<1>2. CASE ReleaseIntent
  <2>a. ReleaseRecord \in Kind("revoke")
    BY LocalPinAssumption DEF Kind, TypeInv, ReleaseRecord, Files
  <2>b. Synced("revoke", ReleaseRecord) \/ Unsynced("revoke", ReleaseRecord) \/ UNCHANGED <<disk, loose>>
    BY <1>2 DEF ReleaseIntent, Write, WriteTorn
  <2>0. disk' \in Files /\ DOMAIN loose' = Names /\ MayType'
    BY <2>a, <2>b, WriteTypes
  <2>1. TypeInv'
    BY <1>2, <2>0 DEF ReleaseIntent, TypeInv, Write, WriteTorn, Steps, OpenSteps, AuditSteps,
        HydrateSteps, ReleaseSteps
  <2>t. disk \in Files /\ DOMAIN loose = Names
    BY DEF TypeInv
  <2>2. FilesInv'
    BY <1>2, <2>t DEF ReleaseIntent, ReleaseRecord, Write, WriteTorn, Synced, Unsynced,
        Directory, Files, FilesInv, HydrateInv, ReleaseInv, PromiseInv
  <2>3. HydrateInv'
    BY <1>2, <2>t DEF ReleaseIntent, ReleaseRecord, Write, WriteTorn, Synced, Unsynced,
        Directory, Files, FilesInv, HydrateInv, TypeInv
  <2>4. ReleaseInv'
    BY <1>2, <2>t DEF ReleaseIntent, ReleaseRecord, Write, WriteTorn, Synced, Unsynced,
        Directory, Files, FilesInv, ReleaseInv, TypeInv
  <2>5. PromiseInv'
    BY <1>2, <2>t DEF ReleaseIntent, ReleaseRecord, Write, WriteTorn, Synced, Unsynced,
        Directory, Files, FilesInv, HydrateInv, ReleaseInv, PromiseInv, TypeInv
  <2> QED BY <2>1, <2>2, <2>3, <2>4, <2>5
<1>3. CASE ReleaseComplete
  <2>a. 0 \in Kind("complete")
    BY LocalPinAssumption DEF Kind
  <2>b. Synced("complete", 0) \/ Unsynced("complete", 0) \/ UNCHANGED <<disk, loose>>
    BY <1>3 DEF ReleaseComplete, RemoveDurable, RemoveTorn, Write, WriteTorn
  <2>0. disk' \in Files /\ DOMAIN loose' = Names /\ MayType'
    BY <2>a, <2>b, WriteTypes
  <2>1. TypeInv'
    BY <1>3, <2>0 DEF ReleaseComplete, TypeInv, RemoveDurable, RemoveTorn, Write, WriteTorn,
        Steps, OpenSteps, AuditSteps, HydrateSteps, ReleaseSteps
  <2>t. disk \in Files /\ DOMAIN loose = Names
    BY DEF TypeInv
  <2>2. FilesInv'
    BY <1>3, <2>t DEF ReleaseComplete, RemoveDurable, RemoveTorn, Write, WriteTorn, Synced,
        Unsynced, Directory, Files, FilesInv, HydrateInv, ReleaseInv, PromiseInv
  <2>3. HydrateInv'
    BY <1>3, <2>t DEF ReleaseComplete, RemoveDurable, RemoveTorn, Write, WriteTorn, Synced,
        Unsynced, Directory, Files, FilesInv, HydrateInv, TypeInv
  <2>4. ReleaseInv'
    BY <1>3, <2>t DEF ReleaseComplete, RemoveDurable, RemoveTorn, Write, WriteTorn, Synced,
        Unsynced, Directory, Files, FilesInv, ReleaseInv, TypeInv
  <2>5. PromiseInv'
    BY <1>3, <2>t DEF ReleaseComplete, RemoveDurable, RemoveTorn, Write, WriteTorn, Synced,
        Unsynced, Directory, Files, FilesInv, HydrateInv, ReleaseInv, PromiseInv, TypeInv
  <2> QED BY <2>1, <2>2, <2>3, <2>4, <2>5
<1>4. CASE ReleasePin
  <2>a. 0 \in Kind("pin")
    BY LocalPinAssumption DEF Kind
  <2>b. Synced("pin", 0) \/ Unsynced("pin", 0) \/ UNCHANGED <<disk, loose>>
    BY <1>4 DEF ReleasePin, RemoveDurable, RemoveTorn, Write, WriteTorn
  <2>0. disk' \in Files /\ DOMAIN loose' = Names /\ MayType'
    BY <2>a, <2>b, WriteTypes
  <2>1. TypeInv'
    BY <1>4, <2>0 DEF ReleasePin, TypeInv, RemoveDurable, RemoveTorn, Write, WriteTorn, Steps,
        OpenSteps, AuditSteps, HydrateSteps, ReleaseSteps
  <2>t. disk \in Files /\ DOMAIN loose = Names
    BY DEF TypeInv
  <2>2. FilesInv'
    BY <1>4, <2>t DEF ReleasePin, RemoveDurable, RemoveTorn, Write, WriteTorn, Synced, Unsynced,
        Directory, Files, FilesInv, HydrateInv, ReleaseInv, PromiseInv
  <2>3. HydrateInv'
    BY <1>4, <2>t DEF ReleasePin, RemoveDurable, RemoveTorn, Write, WriteTorn, Synced, Unsynced,
        Directory, Files, FilesInv, HydrateInv, TypeInv
  <2>4. ReleaseInv'
    BY <1>4, <2>t DEF ReleasePin, RemoveDurable, RemoveTorn, Write, WriteTorn, Synced, Unsynced,
        Directory, Files, FilesInv, ReleaseInv, TypeInv
  <2>5. PromiseInv'
    BY <1>4, <2>t DEF ReleasePin, RemoveDurable, RemoveTorn, Write, WriteTorn, Synced, Unsynced,
        Directory, Files, FilesInv, HydrateInv, ReleaseInv, PromiseInv, TypeInv
  <2> QED BY <2>1, <2>2, <2>3, <2>4, <2>5
<1>5. CASE ReleaseRegister
  <2>a. "Released" \in Kind("reg")
    BY LocalPinAssumption DEF Kind
  <2>b. Synced("reg", "Released") \/ Unsynced("reg", "Released") \/ UNCHANGED <<disk, loose>>
    BY <1>5 DEF ReleaseRegister, Write, WriteTorn
  <2>0. disk' \in Files /\ DOMAIN loose' = Names /\ MayType'
    BY <2>a, <2>b, WriteTypes
  <2>1. TypeInv'
    BY <1>5, <2>0 DEF ReleaseRegister, TypeInv, Write, WriteTorn, Steps, OpenSteps, AuditSteps,
        HydrateSteps, ReleaseSteps
  <2>t. disk \in Files /\ DOMAIN loose = Names
    BY DEF TypeInv
  <2>2. FilesInv'
    BY <1>5, <2>t DEF ReleaseRegister, Write, WriteTorn, Synced, Unsynced, Directory, Files,
        FilesInv, HydrateInv, ReleaseInv, PromiseInv
  <2>3. HydrateInv'
    BY <1>5, <2>t DEF ReleaseRegister, Write, WriteTorn, Synced, Unsynced, Directory, Files,
        FilesInv, HydrateInv, TypeInv
  <2>4. ReleaseInv'
    BY <1>5, <2>t DEF ReleaseRegister, Write, WriteTorn, Synced, Unsynced, Directory, Files,
        FilesInv, ReleaseInv, TypeInv
  <2>5. PromiseInv'
    BY <1>5, <2>t DEF ReleaseRegister, Write, WriteTorn, Synced, Unsynced, Directory, Files,
        FilesInv, HydrateInv, ReleaseInv, PromiseInv, TypeInv
  <2> QED BY <2>1, <2>2, <2>3, <2>4, <2>5
<1>6. CASE ReleaseIndex
  <2>1. TypeInv'
    BY <1>6, LocalPinAssumption DEF ReleaseIndex, TypeInv, MayType, Kind, Steps, OpenSteps,
        AuditSteps, HydrateSteps, ReleaseSteps
  <2>2. FilesInv'
    BY <1>6 DEF ReleaseIndex, FilesInv, HydrateInv, ReleaseInv, PromiseInv
  <2>3. HydrateInv'
    BY <1>6 DEF ReleaseIndex, FilesInv, HydrateInv, TypeInv
  <2>4. ReleaseInv'
    BY <1>6 DEF ReleaseIndex, FilesInv, ReleaseInv, TypeInv
  <2>5. PromiseInv'
    BY <1>6 DEF ReleaseIndex, FilesInv, HydrateInv, ReleaseInv, PromiseInv, TypeInv
  <2> QED BY <2>1, <2>2, <2>3, <2>4, <2>5
<1>7. CASE ReleaseRevoked
  <2>a. "Revoked" \in Kind("revoke")
    BY LocalPinAssumption DEF Kind
  <2>b. Synced("revoke", "Revoked") \/ Unsynced("revoke", "Revoked") \/ UNCHANGED <<disk, loose>>
    BY <1>7 DEF ReleaseRevoked, Write, WriteTorn
  <2>0. disk' \in Files /\ DOMAIN loose' = Names /\ MayType'
    BY <2>a, <2>b, WriteTypes
  <2>1. TypeInv'
    BY <1>7, <2>0 DEF ReleaseRevoked, TypeInv, Write, WriteTorn, Steps, OpenSteps, AuditSteps,
        HydrateSteps, ReleaseSteps
  <2>t. disk \in Files /\ DOMAIN loose = Names
    BY DEF TypeInv
  <2>2. FilesInv'
    BY <1>7, <2>t DEF ReleaseRevoked, Write, WriteTorn, Synced, Unsynced, Directory, Files,
        FilesInv, HydrateInv, ReleaseInv, PromiseInv
  <2>3. HydrateInv'
    BY <1>7, <2>t DEF ReleaseRevoked, Write, WriteTorn, Synced, Unsynced, Directory, Files,
        FilesInv, HydrateInv, TypeInv
  <2>4. ReleaseInv'
    BY <1>7, <2>t DEF ReleaseRevoked, Write, WriteTorn, Synced, Unsynced, Directory, Files,
        FilesInv, ReleaseInv, TypeInv
  <2>5. PromiseInv'
    BY <1>7, <2>t DEF ReleaseRevoked, Write, WriteTorn, Synced, Unsynced, Directory, Files,
        FilesInv, HydrateInv, ReleaseInv, PromiseInv, TypeInv
  <2> QED BY <2>1, <2>2, <2>3, <2>4, <2>5
<1> QED BY <1>1, <1>2, <1>3, <1>4, <1>5, <1>6, <1>7 DEF Release

\* Retention, retirement and errors.
LEMMA UseKeeps ==
  ASSUME PinInv, RetainBegin \/ Retain("retain", between) \/ RetireBegin \/ Retire \/ Fail
  PROVE  PinInv'
<1> USE DEF PinInv, Names, May, Unpinned, Registered, Allowed,
            FromPublish, FromPin, FromMeta, FromContent, FromUnrevoke, FromRegister, FromInvalidate,
            FromIndex, FromReg, FromUnpin, FromIncomplete
<1>1. CASE RetainBegin
  <2>1. TypeInv'
    BY <1>1, LocalPinAssumption DEF RetainBegin, TypeInv, MayType, Kind, Steps, OpenSteps,
        AuditSteps, HydrateSteps, ReleaseSteps
  <2>2. FilesInv'
    BY <1>1 DEF RetainBegin, FilesInv, HydrateInv, ReleaseInv, PromiseInv
  <2>3. HydrateInv'
    BY <1>1 DEF RetainBegin, FilesInv, HydrateInv, TypeInv
  <2>4. ReleaseInv'
    BY <1>1 DEF RetainBegin, FilesInv, ReleaseInv, TypeInv
  <2>5. PromiseInv'
    BY <1>1 DEF RetainBegin, FilesInv, HydrateInv, ReleaseInv, PromiseInv, TypeInv
  <2> QED BY <2>1, <2>2, <2>3, <2>4, <2>5
<1>2. CASE Retain("retain", between)
  <2>a. "retained" \in Kind("use")
    BY LocalPinAssumption DEF Kind
  <2>b. Synced("use", "retained") \/ Unsynced("use", "retained") \/ UNCHANGED <<disk, loose>>
    BY <1>2 DEF Retain, Write, WriteTorn
  <2>0. disk' \in Files /\ DOMAIN loose' = Names /\ MayType'
    BY <2>a, <2>b, WriteTypes
  <2>1. TypeInv'
    BY <1>2, <2>0 DEF Retain, TypeInv, Write, WriteTorn, Steps, OpenSteps, AuditSteps,
        HydrateSteps, ReleaseSteps
  <2>t. disk \in Files /\ DOMAIN loose = Names
    BY DEF TypeInv
  <2>2. FilesInv'
    BY <1>2, <2>t DEF Retain, Write, WriteTorn, Synced, Unsynced, Directory, Files, FilesInv,
        HydrateInv, ReleaseInv, PromiseInv
  <2>3. HydrateInv'
    BY <1>2, <2>t DEF Retain, Write, WriteTorn, Synced, Unsynced, Directory, Files, FilesInv,
        HydrateInv, TypeInv
  <2>4. ReleaseInv'
    BY <1>2, <2>t DEF Retain, Write, WriteTorn, Synced, Unsynced, Directory, Files, FilesInv,
        ReleaseInv, TypeInv
  <2>5. PromiseInv'
    BY <1>2, <2>t DEF Retain, Write, WriteTorn, Synced, Unsynced, Directory, Files, FilesInv,
        HydrateInv, ReleaseInv, PromiseInv, TypeInv
  <2> QED BY <2>1, <2>2, <2>3, <2>4, <2>5
<1>3. CASE RetireBegin
  <2>1. TypeInv'
    BY <1>3, LocalPinAssumption DEF RetireBegin, TypeInv, MayType, Kind, Steps, OpenSteps,
        AuditSteps, HydrateSteps, ReleaseSteps
  <2>2. FilesInv'
    BY <1>3 DEF RetireBegin, FilesInv, HydrateInv, ReleaseInv, PromiseInv
  <2>3. HydrateInv'
    BY <1>3 DEF RetireBegin, FilesInv, HydrateInv, TypeInv
  <2>4. ReleaseInv'
    BY <1>3 DEF RetireBegin, FilesInv, ReleaseInv, TypeInv
  <2>5. PromiseInv'
    BY <1>3 DEF RetireBegin, FilesInv, HydrateInv, ReleaseInv, PromiseInv, TypeInv
  <2> QED BY <2>1, <2>2, <2>3, <2>4, <2>5
<1>4. CASE Retire
  <2>a. "retired" \in Kind("use")
    BY LocalPinAssumption DEF Kind
  <2>b. Synced("use", "retired") \/ Unsynced("use", "retired") \/ UNCHANGED <<disk, loose>>
    BY <1>4 DEF Retire, Write, WriteTorn
  <2>0. disk' \in Files /\ DOMAIN loose' = Names /\ MayType'
    BY <2>a, <2>b, WriteTypes
  <2>1. TypeInv'
    BY <1>4, <2>0 DEF Retire, TypeInv, Write, WriteTorn, Steps, OpenSteps, AuditSteps,
        HydrateSteps, ReleaseSteps
  <2>t. disk \in Files /\ DOMAIN loose = Names
    BY DEF TypeInv
  <2>2. FilesInv'
    BY <1>4, <2>t DEF Retire, Write, WriteTorn, Synced, Unsynced, Directory, Files, FilesInv,
        HydrateInv, ReleaseInv, PromiseInv
  <2>3. HydrateInv'
    BY <1>4, <2>t DEF Retire, Write, WriteTorn, Synced, Unsynced, Directory, Files, FilesInv,
        HydrateInv, TypeInv
  <2>4. ReleaseInv'
    BY <1>4, <2>t DEF Retire, Write, WriteTorn, Synced, Unsynced, Directory, Files, FilesInv,
        ReleaseInv, TypeInv
  <2>5. PromiseInv'
    BY <1>4, <2>t DEF Retire, Write, WriteTorn, Synced, Unsynced, Directory, Files, FilesInv,
        HydrateInv, ReleaseInv, PromiseInv, TypeInv
  <2> QED BY <2>1, <2>2, <2>3, <2>4, <2>5
<1>5. CASE Fail
  <2>1. TypeInv'
    BY <1>5, LocalPinAssumption DEF Fail, TypeInv, MayType, Kind, Steps, OpenSteps, AuditSteps,
        HydrateSteps, ReleaseSteps
  <2>2. FilesInv'
    BY <1>5 DEF Fail, FilesInv, HydrateInv, ReleaseInv, PromiseInv
  <2>3. HydrateInv'
    BY <1>5 DEF Fail, FilesInv, HydrateInv, TypeInv
  <2>4. ReleaseInv'
    BY <1>5 DEF Fail, FilesInv, ReleaseInv, TypeInv
  <2>5. PromiseInv'
    BY <1>5 DEF Fail, FilesInv, HydrateInv, ReleaseInv, PromiseInv, TypeInv
  <2> QED BY <2>1, <2>2, <2>3, <2>4, <2>5
<1> QED BY <1>1, <1>2, <1>3, <1>4, <1>5

\* A crash leaves some of what it may leave.
LEMMA CrashKeeps ==
  ASSUME PinInv, Crash
  PROVE  PinInv'
<1>1. /\ \A f \in Names : disk'[f] \in May(f) /\ loose'[f] = {}
      /\ disk' \in Survivors /\ DOMAIN loose' = Names
      /\ pc' = "idle" /\ UNCHANGED <<epoch, promise, damaged>>
  BY DEF Crash, Survivors, Names
<1>0. ~between' /\ between' \in BOOLEAN /\ opened' \in BOOLEAN
  BY DEF Crash
<1>2. \A f \in Names : May(f) \subseteq Kind(f)
  BY DEF PinInv, TypeInv, MayType
<1>3. disk' \in Files
  <2>1. /\ May("owner") \subseteq BOOLEAN /\ May("repair") \subseteq BOOLEAN
        /\ May("reg") \subseteq {"none", "Active", "Released"}
        /\ May("revoke") \subseteq {"none", "Revoking", "Revoked"}
        /\ May("view") \subseteq 0 .. MaxEpoch /\ May("pin") \subseteq 0 .. MaxEpoch
        /\ May("complete") \subseteq 0 .. MaxEpoch
        /\ May("meta") \subseteq {"none", "ok", "bad"} /\ May("blobs") \subseteq {"none", "ok", "bad"}
        /\ May("use") \subseteq {"none", "live", "retained", "retired"}
    BY <1>2 DEF Kind, Names
  <2> QED BY <1>1, <2>1 DEF Survivors, Files
<1>4. MayType'
  <2>1. \A f \in Names : loose'[f] \subseteq Kind(f) /\ disk'[f] \in Kind(f)
    BY <1>1, <1>2
  <2>2. ASSUME NEW f \in Names PROVE May(f)' \subseteq Kind(f)'
    BY <2>1 DEF May, Kind
  <2> QED BY <2>2 DEF MayType
<1>5. TypeInv'
  BY <1>0, <1>1, <1>3, <1>4 DEF PinInv, TypeInv, Steps
<1>6. \A f \in Names : loose'[f] = {} /\ disk'[f] \in loose[f] \cup {disk[f]}
  BY <1>1 DEF May
<1>7. FilesInv'
  BY <1>6 DEF PinInv, FilesInv, Unpinned, May, Names
<1>8. HydrateInv' /\ ReleaseInv'
  BY <1>0, <1>1 DEF HydrateInv, ReleaseInv, FromPublish, FromPin, FromMeta, FromContent,
     FromUnrevoke,
     FromRegister, FromInvalidate, FromIndex, FromReg, FromUnpin, FromIncomplete
<1>9. PromiseInv'
  BY <1>1, <1>6 DEF PinInv, PromiseInv, Unpinned, May, Names
<1> QED BY <1>5, <1>7, <1>8, <1>9 DEF PinInv

\* Damage takes a completion back, and leaves everything else.
LEMMA DamageKeeps ==
  ASSUME PinInv, Damage
  PROVE  PinInv'
<1>1. /\ \A f \in Names \ {"meta", "blobs"} : disk'[f] = disk[f] /\ loose'[f] = loose[f]
      /\ disk' \in Files /\ loose' = loose /\ disk'["meta"] \in {disk["meta"], "bad"}
      /\ disk'["blobs"] \in {disk["blobs"], "bad"} /\ pc = "idle" /\ pc' = "idle"
      /\ promise' = IF promise = "complete" THEN "none" ELSE promise
      /\ disk'["use"] = disk["use"]
      /\ UNCHANGED <<epoch, between, opened, damaged>>
  BY DEF Damage, PinInv, TypeInv, Files, Names
<1>2. MayType'
  <2>1. \A f \in Names : loose[f] \subseteq Kind(f) /\ disk[f] \in Kind(f)
    BY DEF PinInv, TypeInv, MayType, May
  <2>2. \A f \in Names : loose'[f] \subseteq Kind(f) /\ disk'[f] \in Kind(f)
    <3>1. "bad" \in Kind("meta") /\ "bad" \in Kind("blobs")
      BY DEF Kind
    <3> QED BY <1>1, <2>1, <3>1 DEF Names
  <2>3. ASSUME NEW f \in Names PROVE May(f)' \subseteq Kind(f)'
    BY <2>2 DEF May, Kind
  <2> QED BY <2>3 DEF MayType
<1>3. TypeInv'
  BY <1>1, <1>2 DEF PinInv, TypeInv, Steps
<1>4. FilesInv'
  BY <1>1 DEF PinInv, FilesInv, Unpinned, May, Names
<1>5. HydrateInv' /\ ReleaseInv'
  BY <1>1 DEF PinInv, HydrateInv, ReleaseInv, FromPublish, FromPin, FromMeta, FromContent,
     FromUnrevoke,
     FromRegister, FromInvalidate, FromIndex, FromReg, FromUnpin, FromIncomplete
<1>6. PromiseInv'
  BY <1>1 DEF PinInv, PromiseInv, Unpinned, May, Names
<1> QED BY <1>3, <1>4, <1>5, <1>6 DEF PinInv

-----------------------------------------------------------------------------
(* The invariant, and what it gives.                                       *)

LEMMA PinInit == Init => PinInv
<1> SUFFICES ASSUME Init PROVE PinInv
  OBVIOUS
<1>1. disk \in Files /\ DOMAIN loose = Names
  BY LocalPinAssumption DEF Init, Files, Names
<1>2. MayType
  <2>1. \A f \in Names : loose[f] = {}
    BY DEF Init
  <2>2. ASSUME NEW f \in Names PROVE disk[f] \in Kind(f)
    <3>1. CASE f \in {"owner", "repair"}
      <4>1. disk["owner"] = FALSE /\ disk["repair"] = FALSE
        BY DEF Init
      <4> QED BY <3>1, <4>1 DEF Kind
    <3>2. CASE f \in {"view", "pin", "complete"}
      BY <3>2, LocalPinAssumption DEF Init, Kind
    <3>3. CASE f \in {"reg", "revoke", "meta", "blobs", "use"}
      BY <3>3 DEF Init, Kind
    <3> QED BY <3>1, <3>2, <3>3 DEF Names
  <2> QED BY <2>1, <2>2 DEF MayType, May
<1>3. TypeInv
  <2>1. between \in BOOLEAN /\ opened \in BOOLEAN /\ damaged \in BOOLEAN
    BY DEF Init
  <2>2. pc \in Steps /\ epoch \in 0 .. MaxEpoch /\ promise \in {"none", "complete", "revoked"}
    BY LocalPinAssumption DEF Init, Steps
  <2> QED BY <1>1, <1>2, <2>1, <2>2 DEF TypeInv
<1>4. FilesInv /\ HydrateInv /\ ReleaseInv /\ PromiseInv
  BY DEF Init, FilesInv, HydrateInv, ReleaseInv, PromiseInv, Unpinned, May, Names,
     FromPublish, FromPin, FromMeta, FromContent, FromUnrevoke, FromRegister, FromInvalidate,
     FromIndex, FromReg, FromUnpin, FromIncomplete
<1> QED BY <1>3, <1>4 DEF PinInv

LEMMA PinStep == PinInv /\ [Next]_vars => PinInv'
<1> SUFFICES ASSUME PinInv, [Next]_vars PROVE PinInv'
  OBVIOUS
<1>1. CASE Next
  BY <1>1, OpenKeeps, AuditKeeps, HydrateKeeps, ReleaseKeeps, UseKeeps, CrashKeeps, DamageKeeps
     DEF Next
<1>2. CASE UNCHANGED vars
  <2> USE <1>2 DEF vars
  <2>1. MayType'
    <3>1. ASSUME NEW f \in Names PROVE May(f)' \subseteq Kind(f)'
      BY DEF PinInv, TypeInv, MayType, May, Kind
    <3> QED BY <3>1 DEF MayType
  <2>2. TypeInv' /\ FilesInv'
    BY <2>1 DEF PinInv, TypeInv, FilesInv, Unpinned, May
  <2>3. HydrateInv' /\ ReleaseInv'
    BY DEF PinInv, HydrateInv, ReleaseInv, May
  <2>4. PromiseInv'
    BY DEF PinInv, PromiseInv, Unpinned, May
  <2> QED BY <2>2, <2>3, <2>4 DEF PinInv
<1> QED BY <1>1, <1>2

\* The files, every file a crash may leave, the step and the promise fit together, however
\* many hydrations run and whatever writes fail (workspace_pins.rs, durable.rs).
THEOREM PinInvariant == Spec => []PinInv
BY PinInit, PinStep, PTL DEF Spec

\* A crash leaves files, and nothing else, whatever was being written (workspace_pins.rs).
THEOREM PinTypes == Spec => []TypeOK
<1>1. PinInv => TypeOK
  <2> SUFFICES ASSUME PinInv PROVE TypeOK
    OBVIOUS
  <2>1. /\ May("owner") \subseteq BOOLEAN /\ May("repair") \subseteq BOOLEAN
        /\ May("reg") \subseteq {"none", "Active", "Released"}
        /\ May("revoke") \subseteq {"none", "Revoking", "Revoked"}
        /\ May("view") \subseteq 0 .. MaxEpoch /\ May("pin") \subseteq 0 .. MaxEpoch
        /\ May("complete") \subseteq 0 .. MaxEpoch
        /\ May("meta") \subseteq {"none", "ok", "bad"} /\ May("blobs") \subseteq {"none", "ok", "bad"}
        /\ May("use") \subseteq {"none", "live", "retained", "retired"}
    BY DEF PinInv, TypeInv, MayType, Kind, Names
  <2>2. Survivors \subseteq Files
    <3> SUFFICES ASSUME NEW d \in Survivors PROVE d \in Files
      OBVIOUS
    <3> QED BY <2>1 DEF Survivors, Files
  <2> QED BY <2>2 DEF PinInv, TypeInv, TypeOK
<1> QED BY <1>1, PinInvariant, PTL

\* Once hydration has answered that the snapshot is complete, every state a crash may leave
\* verifies as that snapshot, and once release has answered, none holds the guarantee
\* (durable.rs publication, workspace_pins.rs release_local_pin).
THEOREM PinPromisesSurvive == Spec => []PromisesSurvive
<1>1. PinInv => PromisesSurvive
  <2> SUFFICES ASSUME PinInv, NEW d \in Survivors
               PROVE  /\ promise = "complete" => Complete(d)
                      /\ promise = "revoked" => /\ d.reg = "Released" /\ d.revoke = "Revoked"
                                                /\ d.complete = 0 /\ d.pin = 0
    BY DEF PromisesSurvive, SuccessSurvives, RevokedSurvives
  <2>1. /\ d.reg \in May("reg") /\ d.revoke \in May("revoke") /\ d.view \in May("view")
        /\ d.pin \in May("pin") /\ d.complete \in May("complete")
        /\ d.meta \in May("meta") /\ d.blobs \in May("blobs")
    BY DEF Survivors
  <2>2. promise = "complete" => Complete(d)
    BY <2>1 DEF PinInv, PromiseInv, Complete, Registered, HasView, Allowed, Verified
  <2>3. promise = "revoked" => /\ d.reg = "Released" /\ d.revoke = "Revoked"
                               /\ d.complete = 0 /\ d.pin = 0
    BY <2>1 DEF PinInv, PromiseInv, Unpinned
  <2> QED BY <2>2, <2>3
<1> QED BY <1>1, PinInvariant, PTL

\* Whatever a crash leaves half done, the owner opens again, and a retired owner, whose
\* pages the collector may delete, guards nothing (workspace_pins.rs open, retire_cache_use).
THEOREM PinHalfDoneIsSafe == Spec => []HalfDoneIsSafe
<1>1. PinInv => HalfDoneIsSafe
  <2> SUFFICES ASSUME PinInv, NEW d \in Survivors
               PROVE  /\ d.reg # "none" => Registered(d) /\ HasView(d)
                      /\ d.use = "retired" => d.complete = 0 /\ d.pin = 0
    BY DEF HalfDoneIsSafe, NeverWedged, RetiredOwnsNothing
  <2>1. /\ d.reg \in May("reg") /\ d.revoke \in May("revoke") /\ d.view \in May("view")
        /\ d.pin \in May("pin") /\ d.complete \in May("complete") /\ d.use \in May("use")
    BY DEF Survivors
  <2> QED BY <2>1 DEF PinInv, FilesInv, Unpinned, Registered, HasView
<1> QED BY <1>1, PinInvariant, PTL
=============================================================================
