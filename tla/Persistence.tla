---------------------------- MODULE Persistence ----------------------------
(***************************************************************************)
(* The SQLite stores (persistence.py): CapabilityStore, EvidenceStore,     *)
(* EscalationStore and GovernanceStateStore over one database file.  Each  *)
(* object has a connection of its own and a lock that makes its calls      *)
(* sequential, so a store is in one call at a time; the stores interleave  *)
(* at every statement.  Of SQLite the module has what the code relies on:  *)
(* a write opens a transaction, one transaction may write at a time, and   *)
(* one that has begun reads a snapshot and must read the last to write.    *)
(***************************************************************************)
EXTENDS Naturals, Sequences, FiniteSets

CONSTANTS
  Stores,        \* the store objects, each with its connection
  Keys,          \* the primary keys of a table
  Terms,         \* what rows say, but for the mark
  MaxStored      \* bound on the calls that write and the connections lost

Tables == {"capabilities", "evidence_records", "evidence_events",
           "escalations", "governance_state"}

ASSUME StoresAssumption ==
  /\ DOMAIN Keys = Tables
  /\ MaxStored \in Nat

\* The mark of a capability is its revocation, of a record its digest.
Object == [terms: Terms, mark: BOOLEAN]

\* A hash stands for what it is computed from; raced is history, of a row
\* that a revocation wrote whose selection another store had overtaken.
Row == [data: Object, hash: Object, raced: BOOLEAN]
NoRow == <<>>

AllKeys == UNION {Keys[t] : t \in Tables}

VARIABLES
  tableOf,    \* the class of a store, by the table it keeps
  wal,        \* the states the file went through, the committed one last
  txn,        \* the transaction of a connection, as Connection.in_transaction
  draft,      \* what the transaction that writes would commit
  storing,    \* the call each store is in
  opened,     \* whether SQLiteStore._conn is a connection
  promised,   \* history: what the last call that returned wrote of a row
  attempted,  \* history: what calls that raised in commit wrote of it since
  raised,     \* history: the stores with a call that raised, none returned since
  stored      \* how many of them there have been (for MaxStored)

history == <<promised, attempted, raised, stored>>
storeVars == <<tableOf, wal, txn, draft, storing, opened, history>>

File == wal[Len(wal)]

\* A transaction is not open, begun with nothing read, reading a state
\* of the file, or writing.
Automatic == [mode |-> "auto", at |-> 0]
Begun == [mode |-> "begun", at |-> 0]
Reading(n) == [mode |-> "reading", at |-> n]
Writing == [mode |-> "writing", at |-> 0]

Quiet == <<>>
Revoking == [key: AllKeys, read: Object, overtaken: BOOLEAN]
Committing == [key: AllKeys]

StoresInit ==
  /\ tableOf \in [Stores -> Tables \ {"evidence_events"}]
  /\ wal = << [k \in AllKeys |-> NoRow] >>
  /\ txn = [s \in Stores |-> Automatic]
  /\ draft = [k \in AllKeys |-> NoRow]
  /\ storing = [s \in Stores |-> Quiet]
  /\ opened = [s \in Stores |-> TRUE]
  /\ promised = [k \in AllKeys |-> NoRow]
  /\ attempted = [k \in AllKeys |-> {}]
  /\ raised = {}
  /\ stored = 0

-----------------------------------------------------------------------------

\* What a statement of s reads.
View(s) ==
  CASE txn[s].mode = "writing" -> draft
    [] txn[s].mode = "reading" -> wal[txn[s].at]
    [] OTHER -> File

\* Defect: the snapshot is one that is yet to come.
ReadingAhead(s) == IF txn[s] = Begun THEN Reading(Len(wal) + 1) ELSE txn[s]

\* Defect: a statement that only reads opens a transaction.
ReadingInTransaction(s) ==
  IF txn[s] \in {Automatic, Begun} THEN Reading(Len(wal)) ELSE txn[s]

\* A statement that reads keeps its snapshot while a transaction is open.
AfterReading(s) == IF txn[s] = Begun THEN Reading(Len(wal)) ELSE txn[s]

\* No other connection writes, and what s has read is still the last.
MayWrite(s) ==
  /\ \A o \in Stores \ {s} : txn[o].mode # "writing"
  /\ txn[s].mode = "reading" => txn[s].at = Len(wal)

\* A call starts on a connection that is open: PersistenceError otherwise.
Free(s) == opened[s] /\ storing[s] = Quiet

\* execute of a statement that writes row of key k, then on to commit.
Write(s, k, row) ==
  /\ MayWrite(s)
  /\ draft' = [View(s) EXCEPT ![k] = row]
  /\ txn' = [txn EXCEPT ![s] = Writing]
  /\ storing' = [storing EXCEPT ![s] = [key |-> k]]

\* INSERT OR REPLACE: the whole row, with the hash of the form stored.
Replace(s, k, data) ==
  /\ Free(s)
  /\ stored < MaxStored
  /\ stored' = stored + 1
  /\ Write(s, k, [data |-> data, hash |-> data, raced |-> FALSE])
  /\ UNCHANGED <<tableOf, wal, opened, promised, attempted, raised>>

\* CapabilityStore.store of a capability, revoked or not.
StoreCapability(s) ==
  /\ tableOf[s] = "capabilities"
  /\ \E k \in Keys["capabilities"], cap \in Object : Replace(s, k, cap)

\* evidence_to_persist: the digest of a record is not among its columns.
EvidenceToPersist(record) == [record EXCEPT !.mark = FALSE]

\* EvidenceStore.store_record.
StoreRecord(s) ==
  /\ tableOf[s] = "evidence_records"
  /\ \E k \in Keys["evidence_records"], record \in Object :
       Replace(s, k, EvidenceToPersist(record))

\* EvidenceStore.append_event: the key is the next of the table.
AppendEvent(s) ==
  /\ tableOf[s] = "evidence_records"
  /\ \E k \in Keys["evidence_events"], x \in Terms :
       /\ View(s)[k] = NoRow
       /\ Replace(s, k, [terms |-> x, mark |-> FALSE])

\* EscalationStore.store.
StoreEscalation(s) ==
  /\ tableOf[s] = "escalations"
  /\ \E k \in Keys["escalations"], x \in Terms :
       Replace(s, k, [terms |-> x, mark |-> FALSE])

\* GovernanceStateStore.set.
SetState(s) ==
  /\ tableOf[s] = "governance_state"
  /\ \E k \in Keys["governance_state"], x \in Terms :
       Replace(s, k, [terms |-> x, mark |-> FALSE])

\* load, load_all, load_events, get and verify_integrity only read.
Load(s) ==
  /\ Free(s)
  /\ txn' = [txn EXCEPT ![s] = AfterReading(s)]
  /\ UNCHANGED <<tableOf, wal, draft, storing, opened, history>>

\* revoke selects the row, outside any transaction; no row, no revocation.
SelectToRevoke(s) ==
  /\ tableOf[s] = "capabilities"
  /\ Free(s)
  /\ stored < MaxStored
  /\ stored' = stored + 1
  /\ \E k \in Keys["capabilities"] :
       /\ View(s)[k] # NoRow
       /\ storing' = [storing EXCEPT ![s] =
            [key |-> k, read |-> View(s)[k].data, overtaken |-> FALSE]]
  /\ txn' = [txn EXCEPT ![s] = AfterReading(s)]
  /\ UNCHANGED <<tableOf, wal, draft, opened, promised, attempted, raised>>

RevokesRead(s) == storing[s] # Quiet /\ "read" \in DOMAIN storing[s]

\* Defect: the hash is that of the row before the revocation.
UnrevokedHash(s, row) == storing[s].read

\* The hash revoke writes is that of the row it selected.
RevokedHash(s, row) == [storing[s].read EXCEPT !.mark = TRUE]

\* The UPDATE marks the row there is, and writes the hash.
UpdateRevoked(s) ==
  /\ RevokesRead(s)
  /\ LET row == View(s)[storing[s].key]
     IN  Write(s, storing[s].key,
               [data |-> [row.data EXCEPT !.mark = TRUE],
                hash |-> RevokedHash(s, row),
                raced |-> storing[s].overtaken])
  /\ UNCHANGED <<tableOf, wal, opened, history>>

\* A statement that cannot get the write lock within the timeout raises;
\* BEGIN has been executed, and nothing rolls it back.
AfterRefusal(s) == IF txn[s] = Automatic THEN Begun ELSE txn[s]

RefuseWrite(s) ==
  /\ ~MayWrite(s)
  /\ opened[s]
  /\ storing[s] = Quiet \/ RevokesRead(s)
  /\ txn' = [txn EXCEPT ![s] = AfterRefusal(s)]
  /\ storing' = [storing EXCEPT ![s] = Quiet]
  /\ raised' = raised \cup {s}
  /\ UNCHANGED <<tableOf, wal, draft, opened, promised, attempted, stored>>

-----------------------------------------------------------------------------

Commits(s) == storing[s] # Quiet /\ ~RevokesRead(s)

\* The commit of s changes what a revocation elsewhere has selected.
Overtaken(s, o) ==
  /\ o # s
  /\ RevokesRead(o)
  /\ draft[storing[o].key] # File[storing[o].key]

Overtaking(s) ==
  [o \in Stores |->
     IF Overtaken(s, o) THEN [storing[o] EXCEPT !.overtaken = TRUE]
     ELSE storing[o]]

\* commit: everything the transaction wrote, earlier failures included.
Commit(s) ==
  /\ Commits(s)
  /\ LET k == storing[s].key
     IN  /\ wal' = Append(wal, draft)
         /\ txn' = [txn EXCEPT ![s] = Automatic]
         /\ storing' = [Overtaking(s) EXCEPT ![s] = Quiet]
         /\ promised' = [promised EXCEPT ![k] = draft[k]]
         /\ attempted' = [attempted EXCEPT ![k] = {}]
  /\ raised' = raised \ {s}
  /\ UNCHANGED <<tableOf, draft, opened, stored>>

\* What a transaction wrote is lost.
RollBack(s) ==
  /\ txn' = [txn EXCEPT ![s] = Automatic]
  /\ draft' = IF txn[s] = Writing THEN File ELSE draft

\* Defect: the failure of a commit is swallowed.
IgnoreFailedCommit(s) ==
  /\ Commits(s)
  /\ LET k == storing[s].key
     IN  /\ promised' = [promised EXCEPT ![k] = draft[k]]
         /\ attempted' = [attempted EXCEPT ![k] = {}]
  /\ RollBack(s)
  /\ storing' = [storing EXCEPT ![s] = Quiet]
  /\ UNCHANGED <<tableOf, wal, opened, raised, stored>>

\* commit raises: SQLite keeps the transaction open or has rolled it back.
FailCommit(s) ==
  /\ Commits(s)
  /\ LET k == storing[s].key
     IN  attempted' = [attempted EXCEPT ![k] = @ \cup {draft[k]}]
  /\ storing' = [storing EXCEPT ![s] = Quiet]
  /\ \/ UNCHANGED <<txn, draft>>
     \/ RollBack(s)
  /\ raised' = raised \cup {s}
  /\ UNCHANGED <<tableOf, wal, opened, promised, stored>>

\* close, or the death of the process at any point of a call.
Lose(s) ==
  /\ opened[s]
  /\ stored < MaxStored
  /\ stored' = stored + 1
  /\ opened' = [opened EXCEPT ![s] = FALSE]
  /\ RollBack(s)
  /\ storing' = [storing EXCEPT ![s] = Quiet]
  /\ raised' = raised \ {s}
  /\ UNCHANGED <<tableOf, wal, promised, attempted>>

\* A new store object on the file.
Connect(s) ==
  /\ ~opened[s]
  /\ opened' = [opened EXCEPT ![s] = TRUE]
  /\ UNCHANGED <<tableOf, wal, txn, draft, storing, history>>

StoresNext ==
  \E s \in Stores :
    \/ StoreCapability(s) \/ StoreRecord(s) \/ AppendEvent(s)
    \/ StoreEscalation(s) \/ SetState(s)
    \/ Load(s) \/ SelectToRevoke(s) \/ UpdateRevoked(s) \/ RefuseWrite(s)
    \/ Commit(s) \/ FailCommit(s) \/ Lose(s) \/ Connect(s)

StoresSpec == StoresInit /\ [][StoresNext]_storeVars

-----------------------------------------------------------------------------

StoresTypeOK ==
  /\ tableOf \in [Stores -> Tables \ {"evidence_events"}]
  /\ wal \in Seq([AllKeys -> Row \cup {NoRow}]) /\ wal # <<>>
  /\ txn \in [Stores -> {Automatic, Begun, Writing}
                           \cup {Reading(n) : n \in 1..Len(wal)}]
  /\ draft \in [AllKeys -> Row \cup {NoRow}]
  /\ storing \in [Stores -> Revoking \cup Committing \cup {Quiet}]
  /\ opened \in [Stores -> BOOLEAN]
  /\ promised \in [AllKeys -> Row \cup {NoRow}]
  /\ attempted \in [AllKeys -> SUBSET Row]
  /\ raised \in SUBSET Stores
  /\ stored \in 0..MaxStored

\* A row of the file is what the last call that returned wrote of it, or
\* what a call that raised in its commit wrote of it since: nothing that
\* was acknowledged is lost, whoever fails, closes or dies meanwhile.
AcknowledgedRows ==
  \A k \in AllKeys : File[k] \in {promised[k]} \cup attempted[k]

\* verify_integrity reports no row of an untouched file, but one that a
\* revocation wrote while another store changed what it had selected.
IntegrityUnlessRaced ==
  \A k \in AllKeys :
    File[k] # NoRow /\ ~File[k].raced => File[k].hash = File[k].data

\* A store between calls reads the rows last committed by any store, unless
\* a write of its own has raised and none has gone through since.
ReadsAreCurrent ==
  \A s \in Stores :
    storing[s] = Quiet /\ s \notin raised => View(s) = File

=============================================================================
