--------------------------- MODULE ArchiveProofs ----------------------------
(* Proofs about MonthlyArchive: types, and that what is settled stays and    *)
(* adds up.                                                                  *)
EXTENDS MonthlyArchive, TLAPS

-----------------------------------------------------------------------------
(* Types.                                                                    *)

(* A roll is a function from some employees to records.                      *)
LEMMA RollIs ==
  ASSUME NEW f
  PROVE  f \in Rolls <=> \E S \in SUBSET Nip : f \in [S -> Record]
BY DEF Rolls

(* A roll without some of its employees is a roll.                           *)
LEMMA PartOfRoll ==
  ASSUME NEW f \in Rolls, NEW S
  PROVE  [n \in DOMAIN f \cap S |-> f[n]] \in Rolls
<1>1. PICK T \in SUBSET Nip : f \in [T -> Record]
  BY RollIs
<1>2. T \cap S \in SUBSET Nip /\ [n \in DOMAIN f \cap S |-> f[n]] \in [T \cap S -> Record]
  BY <1>1
<1> QED
  BY <1>2, RollIs

(* Nobody is on the empty roll.                                              *)
LEMMA NobodyIsRoll == Nobody \in Rolls
<1>1. {} \in SUBSET Nip /\ Nobody \in [{} -> Record]
  BY DEF Nobody
<1> QED
  BY <1>1, RollIs

(* The next header of a month has the type of one.                           *)
LEMMA WrittenType ==
  ASSUME NEW old, NEW j \in Making
  PROVE  Written(old, j) \in Archive
<1>1. Stored(j.roll) \in Rolls
  BY PartOfRoll DEF Stored, Making
<1>2. Changes(j.before, j.roll, j.month) \in SUBSET (Nip \X ChangeType)
  BY DEF Changes
<1> QED
  BY <1>1, <1>2 DEF Written, Archive, Making

(* Every step keeps the types.                                               *)
LEMMA TypeStep == TypeOK /\ [Next]_vars => TypeOK'
<1> SUFFICES ASSUME TypeOK, [Next]_vars PROVE TypeOK'
  OBVIOUS
<1> USE DEF TypeOK
<1>0. Idle \in Making
  BY NobodyIsRoll DEF Idle, Making
<1>1. ASSUME NEW r \in Maker, NEW m \in Month, Create(r, m) PROVE TypeOK'
  BY <1>1, NobodyIsRoll DEF Create, Idle, Making
<1>2. ASSUME NEW r \in Maker, NEW roll \in Rolls, Load(r, roll) PROVE TypeOK'
  <2>1. [making[r] EXCEPT !.at = "read", !.roll = roll] \in Making
    BY DEF Making
  <2>2. making' \in [Maker -> Making]
    BY <1>2, <2>1 DEF Load
  <2> QED
    BY <1>2, <2>2 DEF Load
<1>3. ASSUME NEW r \in Maker, LoadAsn(r) PROVE TypeOK'
  BY <1>2, <1>3 DEF LoadAsn
<1>4. ASSUME NEW r \in Maker, LoadBatch(r) PROVE TypeOK'
  BY <1>2, <1>4, ArchiveAssumption DEF LoadBatch
<1>5. ASSUME NEW r \in Maker, ReadBefore(r) PROVE TypeOK'
  <2>1. \A m : SnapshotOf(m) \in Rolls
    BY NobodyIsRoll DEF SnapshotOf, Archive
  <2>2. \A m : Settled(m) \in BOOLEAN
    BY DEF Settled
  <2>3. \A f \in Rolls, b \in BOOLEAN :
          [making[r] EXCEPT !.compared = TRUE, !.before = f, !.firm = b] \in Making
    BY DEF Making
  <2>4. making' \in [Maker -> Making]
    BY <1>5, <2>1, <2>2, <2>3 DEF ReadBefore
  <2> QED
    BY <1>5, <2>4 DEF ReadBefore
<1>6. ASSUME NEW r \in Maker, ReadOwn(r) PROVE TypeOK'
  BY <1>0, <1>6 DEF ReadOwn, Making
<1>7. ASSUME NEW r \in Maker, Persist(r) PROVE TypeOK'
  BY <1>0, <1>7, WrittenType DEF Persist
<1>8. ASSUME NEW r \in Maker, MakeFails(r) PROVE TypeOK'
  BY <1>0, <1>8 DEF MakeFails
<1>9. ASSUME NEW m \in Month, BeginFinalise(m) \/ Finalise(m) \/ FinaliseFails(m) PROVE TypeOK'
  BY <1>9 DEF BeginFinalise, Finalise, FinaliseFails, Archive
<1>10. ASSUME NEW n \in Nip, NEW c \in Record, Edit(n, c) PROVE TypeOK'
  <2>1. PICK S \in SUBSET Nip : asn \in [S -> Record]
    BY RollIs
  <2>2. asn' \in [S -> Record]
    BY <1>10, <2>1 DEF Edit
  <2>3. asn' \in Rolls
    BY <2>2, RollIs
  <2> QED
    BY <1>10, <2>3, ArchiveAssumption DEF Edit
<1>11. ASSUME NEW d \in Sheet, NEW kept \in SUBSET (DOMAIN d \cap DOMAIN asn), Import(d, kept)
       PROVE  TypeOK'
  <2>1. PICK S \in SUBSET Nip : asn \in [S -> Record]
    BY RollIs
  <2>2. PICK T \in SUBSET Nip : d \in [T -> Record]
    BY RollIs, ArchiveAssumption
  <2>3. S \cup T \in SUBSET Nip /\ asn' \in [S \cup T -> Record]
    BY <1>11, <2>1, <2>2 DEF Import
  <2>4. asn' \in Rolls
    BY <2>3, RollIs
  <2> QED
    BY <1>11, <2>4, ArchiveAssumption DEF Import
<1>12. CASE UNCHANGED vars
  BY <1>12 DEF vars
<1> QED
  BY <1>1, <1>3, <1>4, <1>5, <1>6, <1>7, <1>8, <1>9, <1>10, <1>11, <1>12 DEF Next

(* The types are right, for every employee, record, month and request.       *)
THEOREM ArchiveTypeCorrect == Spec => []TypeOK
<1>1. Init => TypeOK
  BY NobodyIsRoll, ArchiveAssumption DEF Init, TypeOK, Archive, Making, NoArchive, Idle
<1> QED
  BY <1>1, TypeStep, PTL DEF Spec

-----------------------------------------------------------------------------
(* What is settled stays.                                                    *)

(* A step neither writes a settled month nor brings a request that will:     *)
(* ReadOwn turns away from a FINAL month, and only a month that was found    *)
(* is written.                                                               *)
LEMMA SettledStep ==
  ASSUME TypeOK, [Next]_vars, NEW m, Settled(m)
  PROVE  archive'[m] = archive[m] /\ Settled(m)'
<1> USE DEF TypeOK, Settled, Underway
<1>0. m \in Month
  OBVIOUS
<1>1. ASSUME NEW r \in Maker, NEW k \in Month, Create(r, k)
      PROVE  archive'[m] = archive[m] /\ Settled(m)'
  BY <1>1 DEF Create, Idle, Making
<1>2. ASSUME NEW r \in Maker, NEW roll, Load(r, roll)
      PROVE  archive'[m] = archive[m] /\ Settled(m)'
  BY <1>2 DEF Load, Making
<1>3. ASSUME NEW r \in Maker, LoadAsn(r) \/ LoadBatch(r)
      PROVE  archive'[m] = archive[m] /\ Settled(m)'
  BY <1>2, <1>3 DEF LoadAsn, LoadBatch
<1>4. ASSUME NEW r \in Maker, ReadBefore(r)
      PROVE  archive'[m] = archive[m] /\ Settled(m)'
  BY <1>4 DEF ReadBefore, Making
<1>5. ASSUME NEW r \in Maker, ReadOwn(r)
      PROVE  archive'[m] = archive[m] /\ Settled(m)'
  BY <1>5 DEF ReadOwn, Idle, Making
<1>6. ASSUME NEW r \in Maker, Persist(r)
      PROVE  archive'[m] = archive[m] /\ Settled(m)'
  BY <1>6 DEF Persist, Idle, Making
<1>7. ASSUME NEW r \in Maker, MakeFails(r)
      PROVE  archive'[m] = archive[m] /\ Settled(m)'
  BY <1>7 DEF MakeFails, Idle, Making
<1>8. ASSUME NEW k \in Month, BeginFinalise(k) \/ Finalise(k) \/ FinaliseFails(k)
      PROVE  archive'[m] = archive[m] /\ Settled(m)'
  BY <1>8 DEF BeginFinalise, Finalise, FinaliseFails, Archive
<1>9. ASSUME NEW n \in Nip, NEW c \in Record, Edit(n, c)
      PROVE  archive'[m] = archive[m] /\ Settled(m)'
  BY <1>9 DEF Edit
<1>10. ASSUME NEW d \in Sheet, NEW kept, Import(d, kept)
       PROVE  archive'[m] = archive[m] /\ Settled(m)'
  BY <1>10 DEF Import
<1>11. CASE UNCHANGED vars
  BY <1>11 DEF vars
<1> QED
  BY <1>1, <1>3, <1>4, <1>5, <1>6, <1>7, <1>8, <1>9, <1>10, <1>11 DEF Next

(* A FINAL month nobody is about to write is never written again.            *)
THEOREM FinalStaysForever == Spec => FinalStays
<1>1. TypeOK /\ [Next]_vars
        => [\A m \in Month : Settled(m) => archive'[m] = archive[m] /\ Settled(m)']_vars
  BY SettledStep
<1> QED
  BY <1>1, ArchiveTypeCorrect, PTL DEF Spec, FinalStays

-----------------------------------------------------------------------------
(* The archives add up.                                                      *)

(* Whoever a request has loaded, or a committed batch holds, is in the table *)
(* asn, so the snapshot leaves nobody out.                                   *)
KnownAll ==
  /\ \A r \in Maker : DOMAIN making[r].roll \subseteq DOMAIN asn
  /\ \A d \in committed : DOMAIN d \subseteq DOMAIN asn

(* A request that read a settled month holds its snapshot; and an archive    *)
(* made from it lists the changes between the two snapshots.                 *)
FirmReads ==
  \A r \in Maker : making[r].firm =>
    \E m \in Month : /\ Settled(m)
                    /\ making[r].month = m + 1
                    /\ making[r].before = archive[m].snapshot

FirmLists ==
  \A m \in Month : archive[m].firm =>
    /\ Settled(m - 1)
    /\ archive[m].changes = Changes(archive[m - 1].snapshot, archive[m].snapshot, m)

IInv == TypeOK /\ KnownAll /\ FirmReads /\ FirmLists

LEMMA KnownStep == TypeOK /\ KnownAll /\ [Next]_vars => KnownAll'
<1> SUFFICES ASSUME TypeOK, KnownAll, [Next]_vars PROVE KnownAll'
  OBVIOUS
<1> USE DEF TypeOK, KnownAll
<1>0. DOMAIN Idle.roll = {}
  BY DEF Idle, Nobody
<1>1. ASSUME NEW r \in Maker, NEW m \in Month, Create(r, m) PROVE KnownAll'
  BY <1>0, <1>1 DEF Create, Idle, Making
<1>2. ASSUME NEW r \in Maker, LoadAsn(r) PROVE KnownAll'
  BY <1>2 DEF LoadAsn, Load, Making
<1>3. ASSUME NEW r \in Maker, LoadBatch(r) PROVE KnownAll'
  BY <1>3 DEF LoadBatch, Load, Making
<1>4. ASSUME NEW r \in Maker, ReadBefore(r) PROVE KnownAll'
  BY <1>4 DEF ReadBefore, Making
<1>5. ASSUME NEW r \in Maker, ReadOwn(r) PROVE KnownAll'
  BY <1>0, <1>5 DEF ReadOwn, Making
<1>6. ASSUME NEW r \in Maker, Persist(r) \/ MakeFails(r) PROVE KnownAll'
  BY <1>0, <1>6 DEF Persist, MakeFails, Making
<1>7. ASSUME NEW m \in Month, BeginFinalise(m) \/ Finalise(m) \/ FinaliseFails(m) PROVE KnownAll'
  BY <1>7 DEF BeginFinalise, Finalise, FinaliseFails
<1>8. ASSUME NEW n \in Nip, NEW c \in Record, Edit(n, c) PROVE KnownAll'
  BY <1>8 DEF Edit
<1>9. ASSUME NEW d \in Sheet, NEW kept, Import(d, kept) PROVE KnownAll'
  BY <1>9 DEF Import
<1>10. CASE UNCHANGED vars
  BY <1>10 DEF vars
<1> QED
  BY <1>1, <1>2, <1>3, <1>4, <1>5, <1>6, <1>7, <1>8, <1>9, <1>10 DEF Next

(* With everybody known the snapshot is what was loaded.                     *)
LEMMA AllStored ==
  ASSUME TypeOK, KnownAll, NEW r \in Maker
  PROVE  Stored(making[r].roll) = making[r].roll
<1>1. making[r].roll \in Rolls /\ DOMAIN making[r].roll \subseteq DOMAIN asn
  BY DEF TypeOK, KnownAll, Making
<1>2. PICK S \in SUBSET Nip : making[r].roll \in [S -> Record]
  BY <1>1, RollIs
<1> QED
  BY <1>1, <1>2 DEF Stored

LEMMA FirmReadsStep == IInv /\ [Next]_vars => FirmReads'
<1> SUFFICES ASSUME IInv, [Next]_vars, NEW r \in Maker, making'[r].firm
             PROVE  \E m \in Month : /\ Settled(m)'
                                    /\ making'[r].month = m + 1
                                    /\ making'[r].before = archive'[m].snapshot
  BY DEF FirmReads
<1> USE DEF IInv
<1>1. CASE /\ making'[r].firm = making[r].firm /\ making'[r].month = making[r].month
           /\ making'[r].before = making[r].before
  <2>1. PICK m \in Month : /\ Settled(m)
                          /\ making[r].month = m + 1
                          /\ making[r].before = archive[m].snapshot
    BY <1>1 DEF FirmReads
  <2>2. archive'[m] = archive[m] /\ Settled(m)'
    BY <2>1, SettledStep
  <2> QED
    BY <1>1, <2>1, <2>2
<1>2. CASE making'[r].firm = FALSE
  BY <1>2
<1>3. CASE ReadBefore(r)
  <2>1. PICK m : Settled(m) /\ making'[r].month = m + 1 /\ making'[r].before = SnapshotOf(m)
    <3>1. making[r].month - 1 + 1 = making[r].month
      BY ArchiveAssumption DEF TypeOK, Making, Month
    <3> QED
      BY <1>3, <3>1 DEF ReadBefore, TypeOK, Making
  <2>2. m \in Month /\ archive'[m] = archive[m] /\ Settled(m)'
    BY <2>1, SettledStep DEF Settled
  <2> QED
    BY <2>1, <2>2 DEF SnapshotOf
<1>4. CASE \E m \in Month : Create(r, m)
  BY <1>2, <1>4 DEF Create, Idle, TypeOK, Making
<1>5. CASE LoadAsn(r) \/ LoadBatch(r)
  <2>1. PICK roll : Load(r, roll)
    BY <1>5 DEF LoadAsn, LoadBatch
  <2> QED
    BY <1>1, <2>1 DEF Load, TypeOK, Making
<1>6. CASE ReadOwn(r)
  BY <1>1, <1>2, <1>6 DEF ReadOwn, Idle, TypeOK, Making
<1>7. CASE Persist(r) \/ MakeFails(r)
  BY <1>2, <1>7 DEF Persist, MakeFails, Idle, TypeOK, Making
<1>8. CASE making'[r] = making[r]
  BY <1>1, <1>8
<1>9. CASE making' = making
  BY <1>8, <1>9
<1>10. ASSUME NEW q \in Maker, q # r,
              \/ \E m \in Month : Create(q, m)
              \/ LoadAsn(q) \/ LoadBatch(q) \/ ReadBefore(q) \/ ReadOwn(q)
              \/ Persist(q) \/ MakeFails(q)
       PROVE  making'[r] = making[r]
  BY <1>10 DEF Create, LoadAsn, LoadBatch, Load, ReadBefore, ReadOwn, Persist, MakeFails, TypeOK
<1>11. CASE /\ ~\E q \in Maker :
                   \/ \E m \in Month : Create(q, m)
                   \/ LoadAsn(q) \/ LoadBatch(q) \/ ReadBefore(q) \/ ReadOwn(q)
                   \/ Persist(q) \/ MakeFails(q)
  BY <1>9, <1>11 DEF Next, BeginFinalise, Finalise, FinaliseFails, Edit, Import, vars
<1> QED
  BY <1>3, <1>4, <1>5, <1>6, <1>7, <1>8, <1>10, <1>11

LEMMA FirmListsStep == IInv /\ [Next]_vars => FirmLists'
<1> SUFFICES ASSUME IInv, [Next]_vars, NEW m \in Month, archive'[m].firm
             PROVE  /\ Settled(m - 1)'
                    /\ archive'[m].changes
                         = Changes(archive'[m - 1].snapshot, archive'[m].snapshot, m)
  BY DEF FirmLists, Changes, Reported, Moved, KindChanged, Promoted, Retired
<1> USE DEF IInv
<1>1. CASE /\ archive'[m].firm = archive[m].firm /\ archive'[m].changes = archive[m].changes
           /\ archive'[m].snapshot = archive[m].snapshot
  BY <1>1, SettledStep DEF FirmLists
<1>2. ASSUME NEW r \in Maker, Persist(r), making[r].month = m
      PROVE  /\ Settled(m - 1)'
             /\ archive'[m].changes
                  = Changes(archive'[m - 1].snapshot, archive'[m].snapshot, m)
  <2>1. archive'[m] = Written(archive[m], making[r])
    BY <1>2 DEF Persist, TypeOK
  <2>2. making[r].firm /\ archive'[m].snapshot = making[r].roll
        /\ archive'[m].changes = Changes(making[r].before, making[r].roll, m)
    BY <1>2, <2>1, AllStored DEF Written
  <2>3. Settled(m - 1) /\ making[r].before = archive[m - 1].snapshot
    <3>1. PICK k \in Month : /\ Settled(k)
                            /\ making[r].month = k + 1
                            /\ making[r].before = archive[k].snapshot
      BY <2>2 DEF FirmReads
    <3>2. k = m - 1
      BY <1>2, <3>1 DEF Month
    <3> QED
      BY <3>1, <3>2
  <2>4. archive'[m - 1] = archive[m - 1] /\ Settled(m - 1)'
    BY <2>3, SettledStep
  <2> QED
    BY <2>2, <2>3, <2>4
<1>3. ASSUME NEW r \in Maker, Persist(r), making[r].month # m
      PROVE  archive'[m] = archive[m]
  BY <1>3 DEF Persist, TypeOK
<1>4. ASSUME NEW k \in Month, Finalise(k)
      PROVE  /\ archive'[m].firm = archive[m].firm /\ archive'[m].changes = archive[m].changes
             /\ archive'[m].snapshot = archive[m].snapshot
  BY <1>4 DEF Finalise, TypeOK, Archive
<1>5. CASE archive' = archive
  BY <1>1, <1>5
<1>6. CASE /\ ~\E r \in Maker : Persist(r)
           /\ ~\E k \in Month : Finalise(k)
  BY <1>5, <1>6 DEF Next, Create, LoadAsn, LoadBatch, Load, ReadBefore, ReadOwn, MakeFails,
                    BeginFinalise, FinaliseFails, Edit, Import, vars
<1> QED
  BY <1>1, <1>2, <1>3, <1>4, <1>6

(* The invariant holds.                                                      *)
LEMMA IInvHolds == Spec => []IInv
<1>1. Init => IInv
  <2>1. Init => TypeOK
    BY NobodyIsRoll, ArchiveAssumption DEF Init, TypeOK, Archive, Making, NoArchive, Idle
  <2> QED
    BY <2>1 DEF Init, IInv, KnownAll, FirmReads, FirmLists, NoArchive, Idle, Nobody
<1>2. IInv /\ [Next]_vars => IInv'
  BY TypeStep, KnownStep, FirmReadsStep, FirmListsStep DEF IInv
<1> QED
  BY <1>1, <1>2, PTL DEF Spec

(* What the list of a month compared with a settled one holds.               *)
LEMMA ListOf ==
  ASSUME IInv, NEW m \in Month, archive[m].firm, NEW n \in Nip, NEW t \in ChangeType
  PROVE  <<n, t>> \in archive[m].changes
           <=> Reported(n, t, archive[m - 1].snapshot, archive[m].snapshot, m)
<1>1. archive[m].changes = Changes(archive[m - 1].snapshot, archive[m].snapshot, m)
  BY DEF IInv, FirmLists
<1> QED
  BY <1>1 DEF Changes

(* The employees of two such months are numbers of employees.                *)
LEMMA TwoRolls ==
  ASSUME IInv, NEW m \in Month, archive[m].firm
  PROVE  /\ m - 1 \in Month
         /\ DOMAIN archive[m].snapshot \subseteq Nip
         /\ DOMAIN archive[m - 1].snapshot \subseteq Nip
         /\ \A n \in DOMAIN archive[m].snapshot : archive[m].snapshot[n] \in Records
         /\ \A n \in DOMAIN archive[m - 1].snapshot : archive[m - 1].snapshot[n] \in Records
<1>1. m - 1 \in Month
  BY DEF IInv, FirmLists, Settled
<1>2. archive[m].snapshot \in Rolls /\ archive[m - 1].snapshot \in Rolls
  BY <1>1 DEF IInv, TypeOK, Archive
<1>3. \A f \in Rolls : DOMAIN f \subseteq Nip /\ \A n \in DOMAIN f : f[n] \in Records
  BY RollIs, ArchiveAssumption
<1> QED
  BY <1>1, <1>2, <1>3

(* The list of a month compared with a settled one tells newcomers, leavers  *)
(* and moves as the snapshots do, for all time.                              *)
THEOREM AddUp == Spec => []ArchivesAddUp
<1> SUFFICES IInv => ArchivesAddUp
  BY IInvHolds, PTL
<1> SUFFICES ASSUME IInv, NEW m \in Month, archive[m].firm
             PROVE  LET old == archive[m - 1].snapshot
                        new == archive[m].snapshot
                        list == archive[m].changes
                    IN /\ {n \in Nip : <<n, "ASN_BARU">> \in list} = DOMAIN new \ DOMAIN old
                       /\ {n \in Nip : <<n, "ASN_KELUAR">> \in list} = DOMAIN old \ DOMAIN new
                       /\ \A n \in DOMAIN old \cap DOMAIN new :
                            (\A t \in ChangeType : <<n, t>> \notin list) =>
                              /\ old[n].unit = new[n].unit
                              /\ old[n].post = new[n].post
                              /\ old[n].status = new[n].status
                              /\ Level(new[n]) <= Level(old[n])
  BY DEF ArchivesAddUp
<1> DEFINE old == archive[m - 1].snapshot
           new == archive[m].snapshot
           list == archive[m].changes
<1>0. DOMAIN old \subseteq Nip /\ DOMAIN new \subseteq Nip
  BY TwoRolls
<1>1. {n \in Nip : <<n, "ASN_BARU">> \in list} = DOMAIN new \ DOMAIN old
  <2>1. \A n \in Nip : <<n, "ASN_BARU">> \in list <=> n \in DOMAIN new \ DOMAIN old
    BY ListOf DEF Reported, ChangeType, Moved
  <2> QED
    BY <1>0, <2>1
<1>2. {n \in Nip : <<n, "ASN_KELUAR">> \in list} = DOMAIN old \ DOMAIN new
  <2>1. \A n \in Nip : <<n, "ASN_KELUAR">> \in list <=> n \in DOMAIN old \ DOMAIN new
    BY ListOf DEF Reported, ChangeType, Moved
  <2> QED
    BY <1>0, <2>1
<1>3. ASSUME NEW n \in DOMAIN old \cap DOMAIN new, \A t \in ChangeType : <<n, t>> \notin list
      PROVE  /\ old[n].unit = new[n].unit
             /\ old[n].post = new[n].post
             /\ old[n].status = new[n].status
             /\ Level(new[n]) <= Level(old[n])
  <2>1. \A t \in ChangeType : t \notin Moved(old[n], new[n], m)
    BY <1>0, <1>3, ListOf DEF Reported
  <2>2. ~KindChanged(old[n], new[n]) /\ ~Promoted(old[n], new[n])
    BY <2>1 DEF Moved, ChangeType
  <2>3. Level(old[n]) \in Int /\ Level(new[n]) \in Int
    BY <1>3, TwoRolls DEF Level, Records
  <2> QED
    BY <2>1, <2>2, <2>3 DEF Moved, ChangeType, Promoted
<1> QED
  BY <1>1, <1>2, <1>3

(* Retirements are on the list of their month, and not on later ones but for *)
(* those of the last day of a month.                                         *)
THEOREM RetirementTold == Spec => []RetirementIsTold
<1> SUFFICES IInv => RetirementIsTold
  BY IInvHolds, PTL
<1> SUFFICES ASSUME IInv, NEW m \in Month, archive[m].firm,
                    NEW n \in DOMAIN archive[m - 1].snapshot \cap DOMAIN archive[m].snapshot,
                    archive[m].snapshot[n].retires # None,
                    archive[m - 1].snapshot[n].retires = archive[m].snapshot[n].retires
             PROVE  LET date == archive[m].snapshot[n].retires
                    IN /\ LastMidnight(m - 1) + 1 < date /\ date <= Noon(m, TRUE)
                            => <<n, "PENSIUN">> \in archive[m].changes
                       /\ date < LastMidnight(m - 1) => <<n, "PENSIUN">> \notin archive[m].changes
  BY DEF RetirementIsTold
<1> DEFINE old == archive[m - 1].snapshot
           new == archive[m].snapshot
           date == new[n].retires
<1>1. n \in Nip /\ date \in Nat /\ m \in Int
  BY TwoRolls, ArchiveAssumption DEF Records, Month
<1>2. <<n, "PENSIUN">> \in archive[m].changes <=> Retired(old[n], new[n], m)
  BY <1>1, ListOf DEF Reported, Moved, ChangeType
<1>3. Retired(old[n], new[n], m) <=> date <= Noon(m, TRUE) /\ ~(date <= LastMidnight(m - 1))
  BY DEF Retired, EndOfMonth
<1> QED
  BY <1>1, <1>2, <1>3 DEF Noon, LastMidnight

=============================================================================
