--------------------------- MODULE MonthlyArchive ---------------------------
(***************************************************************************)
(* The monthly archive of ASN data (api/src/modules/asn-monthly-archive).  *)
(* The archive of a month holds a snapshot of every employee, taken from   *)
(* the table asn or from a committed import batch, and the list of changes *)
(* against the snapshot of the month before.  It may be made again until   *)
(* it is FINAL.                                                            *)
(*                                                                         *)
(* A request that makes an archive checks that the month is not FINAL,     *)
(* loads the employees, reads the archive of the month before and the      *)
(* header of its own month, in either order, checks again and writes       *)
(* header, changes and snapshot in one transaction.  Finalisation reads    *)
(* the header and then sets FINAL by id.  Any of these may be interleaved. *)
(*                                                                         *)
(* An employee is reduced to the fields the comparison looks at.  Left     *)
(* out: the totals of the header, which are counts of the two lists.       *)
(***************************************************************************)
EXTENDS Integers, FiniteSets

CONSTANTS
  Nip,       \* employees, known by their number
  Record,    \* the records an employee may have
  Sheet,     \* the contents of the import batches, records by employee
  MaxMonth,  \* bound: months, numbered through
  Maker,     \* requests that make an archive, at once
  MaxEdits,  \* bound: changes of the table asn
  None       \* no unit, no kind of post, no date

Month == 1 .. MaxMonth

(* A record: its unit, post and kind of post (jenis jabatan), class and      *)
(* letter of its grade (III/b is class 3, letter 2; class 0 without a        *)
(* grade), whether the status says it studies or is on unpaid leave, the     *)
(* status, the date of retirement, the start of the grade (tmtGolongan) and  *)
(* whether the years of service are a multiple of two (due).                 *)
Records ==
  [unit : STRING, post : STRING, kind : STRING \cup {None}, class : 0 .. 4, letter : 1 .. 5,
   studying : BOOLEAN, status : STRING, retires : Nat \cup {None}, since : Nat, due : BOOLEAN]

\* Records of some of the employees.
Rolls == UNION {[S -> Record] : S \in SUBSET Nip}

ASSUME ArchiveAssumption ==
  /\ MaxMonth \in Nat
  /\ MaxEdits \in Nat
  /\ Record \subseteq Records
  /\ Sheet \subseteq Rolls

VARIABLES
  asn,         \* the table asn
  committed,   \* contents of the batches that are COMMITTED
  archive,     \* AsnMonthlyArchive with its changes and snapshot, per month
  making,      \* what each request that makes an archive holds in memory
  finalising,  \* the months whose finalisation has passed its check
  edits        \* changes of the table so far

vars == <<asn, committed, archive, making, finalising, edits>>

ChangeType ==
  {"ASN_BARU", "ASN_KELUAR", "MUTASI_UNIT", "MUTASI_JABATAN", "ALIH_JABATAN", "NAIK_PANGKAT",
   "PENSIUN", "TUGAS_BELAJAR", "STATUS_BERUBAH", "KGB"}

Nobody == [n \in {} |-> None]

(* firm tells, for the proof, that the month before was FINAL when it was    *)
(* read and that no request was about to write it.                           *)
Archive ==
  [status : {"NONE", "DRAFT", "FINAL"}, changes : SUBSET (Nip \X ChangeType),
   snapshot : Rolls, firm : BOOLEAN]
Making ==
  [at : {"idle", "load", "read"}, month : Month \cup {0}, roll : Rolls,
   compared : BOOLEAN, before : Rolls, firm : BOOLEAN, found : {"unread", "none", "some"}]

NoArchive == [status |-> "NONE", changes |-> {}, snapshot |-> Nobody, firm |-> FALSE]
Idle == [at |-> "idle", month |-> 0, roll |-> Nobody,
         compared |-> FALSE, before |-> Nobody, firm |-> FALSE, found |-> "unread"]

TypeOK ==
  /\ asn \in Rolls
  /\ committed \subseteq Sheet
  /\ archive \in [Month -> Archive]
  /\ making \in [Maker -> Making]
  /\ finalising \subseteq Month
  /\ edits \in 0 .. MaxEdits

Init ==
  /\ asn = Nobody
  /\ committed = {}
  /\ archive = [m \in Month |-> NoArchive]
  /\ making = [r \in Maker |-> Idle]
  /\ finalising = {}
  /\ edits = 0

-----------------------------------------------------------------------------
(* What changes from one month to the next.                                  *)

(* Time is counted in half days, and a month has two days, its last and one  *)
(* that stands for the others.  Dates are stored as noon of their day.       *)
Noon(m, last) == 4 * (m - 1) + (IF last THEN 3 ELSE 1)
LastMidnight(m) == 4 * (m - 1) + 2

\* Variant with a bug: the hour of the last day is left out.
EndOfMonthMidnight(m) == LastMidnight(m)
\* new Date(tahun, bulan, 0, 23, 59, 59).
EndOfMonth(m) == Noon(m, TRUE)

(* parseGolonganLevel looks for the first of I/a, I/b, ... that the name     *)
(* contains, and the names of classes II and III contain those of class I.   *)
Level(c) ==
  IF c.class = 0 THEN 0 ELSE IF c.class = 4 THEN 12 + c.letter ELSE c.letter

Promoted(p, c) == Level(c) > Level(p)
KindChanged(p, c) == p.kind # None /\ c.kind # None /\ p.kind # c.kind

\* Retired by the end of the month and not, as far as was known, before it.
Retired(p, c, m) ==
  /\ c.retires # None /\ c.retires <= EndOfMonth(m)
  /\ ~(p.retires # None /\ p.retires <= LastMidnight(m - 1))

\* The changes of an employee who is in both months.
Moved(p, c, m) ==
  {t \in ChangeType :
     \/ t = "MUTASI_UNIT" /\ p.unit # c.unit
     \/ t = "ALIH_JABATAN" /\ KindChanged(p, c)
     \/ t = "MUTASI_JABATAN" /\ ~KindChanged(p, c) /\ p.post # c.post
     \/ t = "NAIK_PANGKAT" /\ Promoted(p, c)
     \/ t = "PENSIUN" /\ Retired(p, c, m)
     \/ t = "TUGAS_BELAJAR" /\ ~p.studying /\ c.studying
     \/ t = "STATUS_BERUBAH" /\ p.status # c.status /\ ~KindChanged(p, c)
     \/ t = "KGB" /\ c.due /\ p.since # c.since /\ ~Promoted(p, c)}

\* Is employee n with change t on the list of month m, when now is its roll
\* and before that of the month before?
Reported(n, t, before, now, m) ==
  \/ n \in DOMAIN now \ DOMAIN before /\ t = "ASN_BARU"
  \/ n \in DOMAIN before \ DOMAIN now /\ t = "ASN_KELUAR"
  \/ n \in DOMAIN before \cap DOMAIN now /\ t \in Moved(before[n], now[n], m)

\* detectChanges.
Changes(before, now, m) ==
  {c \in Nip \X ChangeType : Reported(c[1], c[2], before, now, m)}

-----------------------------------------------------------------------------
(* Making an archive.                                                        *)

\* createArchive and createArchiveFromBatch: the month is not FINAL.
Create(r, m) ==
  /\ making[r] = Idle
  /\ archive[m].status # "FINAL"
  /\ making' = [making EXCEPT ![r] = [Idle EXCEPT !.at = "load", !.month = m]]
  /\ UNCHANGED <<asn, committed, archive, finalising, edits>>

Load(r, roll) ==
  /\ making[r].at = "load"
  /\ making' = [making EXCEPT ![r].at = "read", ![r].roll = roll]
  /\ UNCHANGED <<asn, committed, archive, finalising, edits>>

LoadAsn(r) == Load(r, asn)
LoadBatch(r) == \E d \in committed : d # Nobody /\ Load(r, d)

SnapshotOf(m) == IF m \in Month THEN archive[m].snapshot ELSE Nobody

\* A request that has found no FINAL header of month m and will write it.
Underway(m) == \E r \in Maker : making[r].month = m /\ making[r].found # "unread"

\* A FINAL month nobody is about to write.
Settled(m) == m \in Month /\ archive[m].status = "FINAL" /\ ~Underway(m)

\* loadPrevSnapshotMap.
ReadBefore(r) ==
  /\ making[r].at = "read" /\ ~making[r].compared
  /\ LET m == making[r].month - 1
     IN making' = [making EXCEPT ![r].compared = TRUE, ![r].before = SnapshotOf(m),
                                 ![r].firm = Settled(m)]
  /\ UNCHANGED <<asn, committed, archive, finalising, edits>>

(* Variants with a bug: the status is read once, before the employees are    *)
(* loaded; what was found is handed on as it is stored.                      *)
ReadOwnTrusting(r) ==
  /\ making[r].at = "read" /\ making[r].found = "unread"
  /\ making' = [making EXCEPT ![r].found =
                  IF archive[making[r].month].status = "NONE" THEN "none" ELSE "some"]
  /\ UNCHANGED <<asn, committed, archive, finalising, edits>>
ReadOwnRaw(r) ==
  /\ making[r].at = "read" /\ making[r].found = "unread"
  /\ making' = [making EXCEPT ![r] =
                  IF archive[making[r].month].status = "FINAL" THEN Idle
                  ELSE [making[r] EXCEPT !.found = archive[making[r].month].status]]
  /\ UNCHANGED <<asn, committed, archive, finalising, edits>>
\* The header of the month; a FINAL one is returned as it is.
ReadOwn(r) ==
  /\ making[r].at = "read" /\ making[r].found = "unread"
  /\ LET status == archive[making[r].month].status
     IN making' = [making EXCEPT ![r] =
                     IF status = "FINAL" THEN Idle
                     ELSE [making[r] EXCEPT !.found = IF status = "NONE" THEN "none" ELSE "some"]]
  /\ UNCHANGED <<asn, committed, archive, finalising, edits>>

\* The entries whose employee is in the table asn.
Stored(roll) == [n \in DOMAIN roll \cap DOMAIN asn |-> roll[n]]

\* Variant with a bug: the changes found earlier are left where they are.
WrittenOver(old, j) ==
  [status |-> "DRAFT", changes |-> old.changes \cup Changes(j.before, j.roll, j.month),
   snapshot |-> Stored(j.roll), firm |-> j.firm]
\* The new header, changes and snapshot.
Written(old, j) ==
  [status |-> "DRAFT", changes |-> Changes(j.before, j.roll, j.month),
   snapshot |-> Stored(j.roll), firm |-> j.firm]

(* persistArchiveData, one transaction.  The month is unique: a header that  *)
(* was created since is in the way of a new one.                             *)
Persist(r) ==
  LET j == making[r]
  IN /\ j.compared /\ j.found # "unread"
     /\ j.found = "none" => archive[j.month].status = "NONE"
     /\ archive' = [archive EXCEPT ![j.month] = Written(archive[j.month], j)]
     /\ making' = [making EXCEPT ![r] = Idle]
     /\ UNCHANGED <<asn, committed, finalising, edits>>

\* The request fails, at the latest in its transaction, or its process ends.
MakeFails(r) ==
  /\ making[r] # Idle
  /\ making' = [making EXCEPT ![r] = Idle]
  /\ UNCHANGED <<asn, committed, archive, finalising, edits>>

-----------------------------------------------------------------------------
(* Finalising an archive.                                                    *)
BeginFinalise(m) ==
  /\ archive[m].status = "DRAFT"
  /\ finalising' = finalising \cup {m}
  /\ UNCHANGED <<asn, committed, archive, making, edits>>

Finalise(m) ==
  /\ m \in finalising
  /\ archive' = [archive EXCEPT ![m].status = "FINAL"]
  /\ finalising' = finalising \ {m}
  /\ UNCHANGED <<asn, committed, making, edits>>

FinaliseFails(m) ==
  /\ m \in finalising
  /\ finalising' = finalising \ {m}
  /\ UNCHANGED <<asn, committed, archive, making, edits>>

-----------------------------------------------------------------------------
(* The table asn.                                                            *)

\* updateAsn.
Edit(n, c) ==
  /\ edits < MaxEdits
  /\ n \in DOMAIN asn /\ asn[n] # c
  /\ asn' = [asn EXCEPT ![n] = c]
  /\ edits' = edits + 1
  /\ UNCHANGED <<committed, archive, making, finalising>>

(* A batch with contents d is committed: every employee of it is in the      *)
(* table from then on, those of kept with the record corrected by hand.      *)
Import(d, kept) ==
  /\ edits < MaxEdits
  /\ asn' = [n \in DOMAIN asn \cup DOMAIN d |-> IF n \in DOMAIN d \ kept THEN d[n] ELSE asn[n]]
  /\ committed' = committed \cup {d}
  /\ edits' = edits + 1
  /\ UNCHANGED <<archive, making, finalising>>

Next ==
  \/ \E r \in Maker :
       \/ \E m \in Month : Create(r, m)
       \/ LoadAsn(r) \/ LoadBatch(r) \/ ReadBefore(r) \/ ReadOwn(r)
       \/ Persist(r) \/ MakeFails(r)
  \/ \E m \in Month : BeginFinalise(m) \/ Finalise(m) \/ FinaliseFails(m)
  \/ \E n \in Nip, c \in Record : Edit(n, c)
  \/ \E d \in Sheet : \E kept \in SUBSET (DOMAIN d \cap DOMAIN asn) : Import(d, kept)

Spec == Init /\ [][Next]_vars

-----------------------------------------------------------------------------
(* An archive that is FINAL while nobody who found it a draft is still to    *)
(* write it stays as it is for ever, snapshot and changes: createArchive and *)
(* the repository check the status one after the other, and a request that   *)
(* passed the first check only must not get through.                         *)
FinalStays ==
  [][\A m \in Month : Settled(m) => archive'[m] = archive[m] /\ Settled(m)']_vars

(* The archives add up.  When a month was compared with a settled one, the   *)
(* two snapshots, as they are now, tell the same as its list of changes:     *)
(* newcomers and leavers are the difference of the two, and whoever is in    *)
(* both and not on the list has kept unit, post and status, and has not      *)
(* risen.                                                                    *)
ArchivesAddUp ==
  \A m \in Month :
    archive[m].firm =>
      LET old == archive[m - 1].snapshot
          new == archive[m].snapshot
          list == archive[m].changes
      IN /\ {n \in Nip : <<n, "ASN_BARU">> \in list} = DOMAIN new \ DOMAIN old
         /\ {n \in Nip : <<n, "ASN_KELUAR">> \in list} = DOMAIN old \ DOMAIN new
         /\ \A n \in DOMAIN old \cap DOMAIN new :
              (\A t \in ChangeType : <<n, t>> \notin list) =>
                /\ old[n].unit = new[n].unit
                /\ old[n].post = new[n].post
                /\ old[n].status = new[n].status
                /\ Level(new[n]) <= Level(old[n])

(* Every retirement is reported in its month: an employee whose date lies in *)
(* the month, its last day included, and who was there the month before with *)
(* that date, is on its list; and with a date before the last day of the     *)
(* month before, is not.                                                     *)
RetirementIsTold ==
  \A m \in Month :
    archive[m].firm =>
      \A n \in DOMAIN archive[m - 1].snapshot \cap DOMAIN archive[m].snapshot :
        LET date == archive[m].snapshot[n].retires
        IN date # None /\ archive[m - 1].snapshot[n].retires = date =>
             /\ LastMidnight(m - 1) + 1 < date /\ date <= Noon(m, TRUE)
                  => <<n, "PENSIUN">> \in archive[m].changes
             /\ date < LastMidnight(m - 1) => <<n, "PENSIUN">> \notin archive[m].changes

(* Every promotion is reported ("Kenaikan pangkat (golongan naik)"): a       *)
(* higher class, or a higher letter of the same class, is on the list.       *)
PromotionIsTold ==
  \A m \in Month :
    archive[m].firm =>
      \A n \in DOMAIN archive[m - 1].snapshot \cap DOMAIN archive[m].snapshot :
        LET p == archive[m - 1].snapshot[n]
            c == archive[m].snapshot[n]
        IN \/ c.class > p.class
           \/ c.class = p.class /\ c.letter > p.letter
           => <<n, "NAIK_PANGKAT">> \in archive[m].changes

=============================================================================
