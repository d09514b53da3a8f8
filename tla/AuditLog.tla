-------------------------------- MODULE AuditLog --------------------------------
(***************************************************************************)
(* The audit log: AuditLogger with its hash chain and LogWriter with its   *)
(* rotation (src/araxys/audit/).  Concurrent calls of log() chain their    *)
(* entries in memory and then wait for the lock of the writer.             *)
(*                                                                         *)
(* A hash is the sequence of the entries it covers, so that two are equal  *)
(* only if everything before them is.                                      *)
(***************************************************************************)
EXTENDS Integers, Sequences, SequencesExt, FiniteSets

CONSTANTS
    RotationSizes,  \* values of log_rotation_bytes, in lines; 0 is no rotation
    BackupCount,    \* log_backup_count
    MaxEntries,     \* bound on the entries logged
    MaxRestarts     \* bound on the restarts of the process

ASSUME AuditAssumption ==
    /\ RotationSizes \subseteq Nat
    /\ {BackupCount, MaxRestarts} \subseteq Nat
    /\ MaxEntries \in Nat \ {0}

VARIABLES
    rotationSize,
    asyncWrite,   \* async_write, with aiofiles installed
    chainHash,    \* _chain_hash
    waiting,      \* the lines that wait for the lock, the first of them written
    logFile,      \* the lines of log_file
    backups,      \* those of log_file.1, .2, ...; <<>> is no file
    \* history
    entries,      \* entries logged, each with its number
    written,      \* the numbers in the order they reached a file
    gaps,         \* restarts, rotations and lost lines
    restarts,
    tampered      \* somebody has changed the file

options == <<rotationSize, asyncWrite>>
memory == <<chainHash, waiting>>
disk == <<logFile, backups, written>>
auditVars == <<options, memory, disk, entries, gaps, restarts, tampered>>

Genesis == <<>>
Forged == 0   \* what tampering writes in place of an entry
LastBackup == IF BackupCount = 0 THEN 1 ELSE BackupCount

AuditTypeOK ==
    /\ rotationSize \in RotationSizes
    /\ asyncWrite \in BOOLEAN
    /\ chainHash \in Seq(1..MaxEntries)
    /\ \A i \in 1..Len(waiting) : waiting[i].entry \in 1..entries
    /\ ~asyncWrite => waiting = <<>>
    /\ entries \in 0..MaxEntries
    /\ DOMAIN backups = 1..LastBackup
    /\ rotationSize > 0 => Len(logFile) <= rotationSize
    /\ gaps \in Nat /\ restarts \in 0..MaxRestarts
    /\ tampered \in BOOLEAN

AuditInit ==
    /\ rotationSize \in RotationSizes
    /\ asyncWrite \in BOOLEAN
    /\ chainHash = Genesis
    /\ waiting = <<>>
    /\ logFile = <<>>
    /\ backups = [i \in 1..LastBackup |-> <<>>]
    /\ entries = 0
    /\ written = <<>>
    /\ gaps = 0
    /\ restarts = 0
    /\ tampered = FALSE

-----------------------------------------------------------------------------
(* LogWriter *)

\* The mutant moves them in ascending order, each over the next.
Shifted_Ascending == [i \in 1..LastBackup |-> IF i = 1 THEN logFile ELSE backups[1]]

\* The oldest backup goes and the others move up.
Shifted == [i \in 1..LastBackup |-> IF i = 1 THEN logFile ELSE backups[i - 1]]

Rotates == rotationSize > 0 /\ Len(logFile) >= rotationSize

WriteLine(entryLine) ==
    /\ IF Rotates
       THEN /\ backups' = Shifted
            /\ logFile' = <<entryLine>>
            /\ gaps' = gaps + 1
       ELSE /\ logFile' = Append(logFile, entryLine)
            /\ UNCHANGED <<backups, gaps>>
    /\ written' = Append(written, entryLine.entry)

\* The mutant writes the latest line first.
WriteAsync_Newest ==
    /\ waiting # <<>>
    /\ WriteLine(Last(waiting))
    /\ waiting' = Front(waiting)
    /\ UNCHANGED <<options, chainHash, entries, restarts, tampered>>

\* aiofiles: the line at the head of the queue holds the lock.
WriteAsync ==
    /\ waiting # <<>>
    /\ WriteLine(Head(waiting))
    /\ waiting' = Tail(waiting)
    /\ UNCHANGED <<options, chainHash, entries, restarts, tampered>>

\* A call is cancelled while it waits, or its write fails.
LoseLine ==
    /\ \E i \in 1..Len(waiting) : waiting' = RemoveAt(waiting, i)
    /\ gaps' = gaps + 1
    /\ UNCHANGED <<options, chainHash, disk, entries, restarts, tampered>>

-----------------------------------------------------------------------------
(* AuditLogger *)

\* _compute_chain()
Linked(prev, entry) ==
    [prev |-> prev, entry |-> entry, chain |-> Append(prev, entry)]

\* log() up to the lock.  Without aiofiles nothing suspends it.
LogEntry ==
    LET entryLine == Linked(chainHash, entries + 1) IN
    /\ entries < MaxEntries
    /\ entries' = entries + 1
    /\ chainHash' = entryLine.chain
    /\ IF asyncWrite
       THEN waiting' = Append(waiting, entryLine) /\ UNCHANGED <<disk, gaps>>
       ELSE WriteLine(entryLine) /\ UNCHANGED waiting
    /\ UNCHANGED <<options, restarts, tampered>>

\* Encryption, or the disk, fails when the entry is in the chain already.
LogFails ==
    /\ entries < MaxEntries
    /\ entries' = entries + 1
    /\ chainHash' = Append(chainHash, entries + 1)
    /\ gaps' = gaps + 1
    /\ UNCHANGED <<options, waiting, disk, restarts, tampered>>

\* The chain starts again at genesis, at the end of the file that is there.
RestartLogger ==
    /\ restarts < MaxRestarts
    /\ restarts' = restarts + 1
    /\ chainHash' = Genesis
    /\ waiting' = <<>>
    /\ gaps' = gaps + 1
    /\ UNCHANGED <<options, disk, entries, tampered>>

\* Somebody changes a line, or removes one that is not the last.
Tamper ==
    /\ \E i \in 1..Len(logFile) :
           \/ logFile' = [logFile EXCEPT ![i].entry = Forged]
           \/ i < Len(logFile) /\ logFile' = RemoveAt(logFile, i)
    /\ tampered' = TRUE
    /\ UNCHANGED <<options, memory, backups, written, entries, gaps, restarts>>

AuditNext ==
    LogEntry \/ LogFails \/ WriteAsync \/ LoseLine \/ RestartLogger \/ Tamper

AuditSpec == AuditInit /\ [][AuditNext]_auditVars

\* The mutant takes any hash for the start of the chain.
Violations_AnyStart(lines) ==
    {i \in 1..Len(lines) :
        \/ i > 1 /\ lines[i].prev # lines[i - 1].chain
        \/ lines[i].chain # Linked(lines[i].prev, lines[i].entry).chain}

\* verify_integrity(): the lines it reports.
Violations(lines) ==
    {i \in 1..Len(lines) :
        \/ lines[i].prev # IF i = 1 THEN Genesis ELSE lines[i - 1].chain
        \/ lines[i].chain # Linked(lines[i].prev, lines[i].entry).chain}

-----------------------------------------------------------------------------
(* Properties *)

\* Concurrent calls reach the file in the order in which they were chained:
\* what verify_integrity() reports in a file nobody touched is no more than
\* one line for each restart, rotation and lost line.
GenuineReports == ~tampered => Cardinality(Violations(logFile)) <= gaps

\* In a log without such a gap no changed line, and no line removed before
\* the last, goes unreported, whatever is logged afterwards.
TamperEvident == tampered /\ gaps = 0 => Violations(logFile) # {}

\* The lines of log_file, and of log_file.i.
File(i) == IF i = 0 THEN logFile ELSE backups[i]

\* Rotation loses nothing but the oldest backups: the files, read from the
\* oldest on, are the end of what was written.  before[i] is how many lines
\* were written before those of file i.
RotationKeepsTail ==
    ~tampered =>
        \E before \in [0..LastBackup -> 0..Len(written)] :
            \A i \in 0..LastBackup :
                /\ before[i] + Len(File(i)) =
                       IF i = 0 THEN Len(written) ELSE before[i - 1]
                /\ \A j \in 1..Len(File(i)) :
                       File(i)[j].entry = written[before[i] + j]

\* What the report of verify_integrity() and the rotated files are worth.
LogTrusted == GenuineReports /\ TamperEvident /\ RotationKeepsTail

=============================================================================
