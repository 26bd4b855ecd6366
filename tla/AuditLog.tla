------------------------------ MODULE AuditLog ------------------------------
(***************************************************************************)
(* The hash-chained AuditLog (audit.py) over the file it is kept in: what  *)
(* a write, a crash and a reopening leave there, and what is noticed of a  *)
(* file that was cut, lost lines or came back from a backup.               *)
(*                                                                         *)
(* append, head and the checks all hold the log's RLock, so each is one    *)
(* step.  A hash stands for the content it is computed from and is never   *)
(* that of another entry; 0 is the hash before the first.                  *)
(***************************************************************************)
EXTENDS Naturals, Sequences

CONSTANTS
  Junk,           \* a line that is not JSON: half an entry, or two run together
  FailedWrites,   \* what the writer may leave in the file when it raises
  CrashedWrites,  \* what it may leave when the process dies in it
  MaxWrites,      \* bound on the entries written in a behaviour
  MaxDamage       \* bound on the accidents that befall the file

\* Nothing, a part of the line, the entry without its newline, or all of it.
Effects == {"nothing", "partial", "unterminated", "whole"}

NoHash == 0
Hash == 1..MaxWrites

Entry == [seq: Nat, previous_hash: {NoHash} \cup Hash, entry_hash: Hash]
Anchor == [head: {NoHash} \cup Hash, count: Nat]

ASSUME AuditAssumption ==
  /\ Junk \notin Entry
  /\ FailedWrites \subseteq Effects
  /\ CrashedWrites \subseteq Effects
  /\ MaxWrites \in Nat
  /\ MaxDamage \in Nat

VARIABLES
  file,          \* the lines at path
  unterminated,  \* the last line has no newline yet
  status,        \* closed, open, or refused: the constructor raised
  last_hash,     \* AuditLog._last_hash
  count,         \* AuditLog._count
  anchored,      \* AuditLog.anchored
  anchor,        \* the head() last kept outside the file
  backup,        \* a copy of the file
  writes,        \* how many entries were written (for the bound MaxWrites)
  damage,        \* how many accidents happened (for the bound MaxDamage)
  acknowledged,  \* history: the entries whose append returned
  promised       \* history: the file when the anchor was taken

memory == <<status, last_hash, count, anchored>>
disk == <<file, unterminated>>
outside == <<anchor, promised, backup, damage>>
vars == <<disk, memory, outside, writes, acknowledged>>

TypeOK ==
  /\ file \in Seq(Entry \cup {Junk})
  /\ unterminated \in BOOLEAN
  /\ status \in {"closed", "open", "refused"}
  /\ last_hash \in {NoHash} \cup Hash
  /\ count \in Nat
  /\ anchored \in BOOLEAN
  /\ anchor \in Anchor
  /\ backup \in Seq(Entry \cup {Junk})
  /\ writes \in 0..MaxWrites
  /\ damage \in 0..MaxDamage
  /\ acknowledged \subseteq Entry
  /\ promised \in Seq(Entry \cup {Junk})

\* The anchor of a log without entries.
NoAnchor == [head |-> NoHash, count |-> 0]

Init ==
  /\ file = <<>> /\ unterminated = FALSE
  /\ status = "closed" /\ last_hash = NoHash /\ count = 0 /\ anchored = FALSE
  /\ anchor = NoAnchor /\ promised = <<>>
  /\ backup = <<>>
  /\ writes = 0 /\ damage = 0
  /\ acknowledged = {}

-----------------------------------------------------------------------------
(* The chain: _verify_links.                                               *)

HashBefore(f, i) == IF i = 1 THEN NoHash ELSE f[i - 1].entry_hash

LinksUp(f, i) ==
  /\ f[i] # Junk
  /\ f[i].previous_hash = HashBefore(f, i)
  /\ f[i].seq = i - 1

\* The first n lines verify.
Verifies(f, n) == \A i \in 1..n : LinksUp(f, i)

\* How many entries verify before the first that does not.
Verified(f) ==
  CHOOSE n \in 0..Len(f) :
    Verifies(f, n) /\ (n < Len(f) => ~LinksUp(f, n + 1))

\* A tail malformation: the line that fails is not JSON and is the last one.
Torn(f) ==
  /\ Verified(f) + 1 = Len(f)
  /\ f[Len(f)] = Junk

\* Defect: healing also drops the entry before the broken line.
HealedTooFar(f) == IF Torn(f) THEN SubSeq(f, 1, Verified(f) - 1) ELSE f

\* _replay keeps the lines that verify and drops the broken one.
Healed(f) == IF Torn(f) THEN SubSeq(f, 1, Verified(f)) ELSE f

\* Defect: a tail that was cut short in a crash is an invalid chain.
NeverReplayable(f) == Verified(f) = Len(f)

Replayable(f) == Verified(f) = Len(f) \/ Torn(f)

\* Defect: the entry at the anchored position is not compared.
CoversOnly(f) == Len(f) >= anchor.count

\* verify_prefix, for a file whose links all verify.
MatchesAnchor(f) ==
  /\ Len(f) >= anchor.count
  /\ anchor.count > 0 => f[anchor.count].entry_hash = anchor.head

-----------------------------------------------------------------------------
(* append.                                                                 *)

\* Defect: an entry is numbered after the last one, not after all of them.
NumberedFromLast ==
  [seq |-> count - 1, previous_hash |-> last_hash, entry_hash |-> writes + 1]

NextEntry ==
  [seq |-> count, previous_hash |-> last_hash, entry_hash |-> writes + 1]

\* What is written goes on where the file ends, be that within a line.
Write(effect) ==
  /\ writes < MaxWrites
  /\ writes' = writes + 1
  /\ IF effect = "nothing"
       THEN UNCHANGED disk
       ELSE /\ file' = IF unterminated THEN [file EXCEPT ![Len(file)] = Junk]
                       ELSE Append(file,
                              IF effect = "partial" THEN Junk ELSE NextEntry)
            /\ unterminated' = (effect # "whole")

\* Defect: the head moves on before the write has succeeded.
HeadMovedOn ==
  last_hash' = NextEntry.entry_hash /\ count' = count + 1

HeadStays == UNCHANGED <<last_hash, count>>

AppendEntry ==
  /\ status = "open"
  /\ Write("whole")
  /\ last_hash' = NextEntry.entry_hash
  /\ count' = count + 1
  /\ acknowledged' = acknowledged \cup {NextEntry}
  /\ UNCHANGED <<status, anchored, outside>>

\* The writer raises, append raises AuditError.
AppendFails ==
  /\ status = "open"
  /\ \E effect \in FailedWrites : Write(effect)
  /\ HeadStays
  /\ UNCHANGED <<status, anchored, outside, acknowledged>>

\* What the object knew is gone with the process.
Forget ==
  /\ status' = "closed"
  /\ last_hash' = NoHash /\ count' = 0 /\ anchored' = FALSE

CrashInAppend ==
  /\ status = "open"
  /\ \E effect \in CrashedWrites : Write(effect)
  /\ Forget
  /\ UNCHANGED <<outside, acknowledged>>

Crash ==
  /\ status = "open"
  /\ Forget
  /\ UNCHANGED <<disk, outside, writes, acknowledged>>

-----------------------------------------------------------------------------
(* The constructor: without an anchor, with one, or through strict.py's    *)
(* strict_audit_log under the claim that no chain exists yet.  The anchor  *)
(* is compared after the healing.                                          *)

Opens(how) ==
  /\ Replayable(file)
  /\ how = "anchor" => MatchesAnchor(Healed(file))
  /\ how = "new" => file = <<>>

Open(how) ==
  /\ status # "open"
  /\ Opens(how)
  /\ file' = Healed(file)
  /\ unterminated' = (unterminated /\ ~Torn(file))
  /\ status' = "open"
  /\ count' = Len(file')
  /\ last_hash' = HashBefore(file', Len(file') + 1)
  /\ anchored' = (how # "plain")
  /\ UNCHANGED <<outside, writes, acknowledged>>

\* A file that is refused for its anchor has been healed all the same.
Refuse(how) ==
  /\ status # "open"
  /\ ~Opens(how)
  /\ IF how # "new" /\ Replayable(file)
       THEN /\ file' = Healed(file)
            /\ unterminated' = (unterminated /\ ~Torn(file))
       ELSE UNCHANGED disk
  /\ status' = "refused"
  /\ UNCHANGED <<last_hash, count, anchored, outside, writes, acknowledged>>

\* Nobody who keeps an anchor of entries claims that there is no chain yet.
Claims ==
  {"plain", "anchor"} \cup IF anchor = NoAnchor THEN {"new"} ELSE {}

-----------------------------------------------------------------------------
(* Around the log: head() is kept outside, the file is copied, and         *)
(* accidents befall it while nobody has it open.                           *)

TakeAnchor ==
  /\ status = "open"
  /\ anchor' = [head |-> last_hash, count |-> count]
  /\ promised' = file
  /\ UNCHANGED <<disk, memory, backup, damage, writes, acknowledged>>

CopyFile ==
  /\ backup' = file
  /\ UNCHANGED <<disk, memory, anchor, promised, damage, writes, acknowledged>>

Accident(f) ==
  /\ status # "open"
  /\ damage < MaxDamage
  /\ damage' = damage + 1
  /\ file' = f
  /\ unterminated' = FALSE
  /\ UNCHANGED <<memory, anchor, promised, backup, writes, acknowledged>>

\* Lines i..j are lost, line i becomes unreadable, an old copy comes back.
LoseLines ==
  \E i, j \in 1..Len(file) :
    i <= j /\ Accident(SubSeq(file, 1, i - 1) \o SubSeq(file, j + 1, Len(file)))

SpoilLine == \E i \in 1..Len(file) : Accident([file EXCEPT ![i] = Junk])

RestoreCopy == Accident(backup)

-----------------------------------------------------------------------------

Next ==
  \/ AppendEntry \/ AppendFails \/ CrashInAppend \/ Crash
  \/ \E how \in Claims : Open(how) \/ Refuse(how)
  \/ TakeAnchor \/ CopyFile
  \/ LoseLines \/ SpoilLine \/ RestoreCopy

Spec == Init /\ [][Next]_vars

-----------------------------------------------------------------------------
(* Correctness.                                                            *)

\* An entry whose append returned its hash is in the file for good, at its
\* position, through failed writes, crashes and the healing of a broken tail,
\* unless an accident befell the file.
AcknowledgedSurvive ==
  damage = 0 =>
    \A e \in acknowledged :
      e.seq + 1 \in DOMAIN file /\ file[e.seq + 1] = e

\* An open log continues the chain that is in the file: what head() answers
\* is what a verification of the whole file would find.
HeadIsTheFile ==
  status = "open" =>
    /\ Verifies(file, Len(file))
    /\ count = Len(file)
    /\ last_hash = HashBefore(file, count + 1)

\* A log never refuses to open for what its own writes, failures and crashes
\* did to the file, with the anchor or without it.
Reopens ==
  damage = 0 => Replayable(file) /\ MatchesAnchor(Healed(file))

\* A log that is open under its anchor begins with the very chain that was
\* anchored, whatever happened to the file in between.
AnchorHolds ==
  status = "open" /\ anchored =>
    /\ Len(promised) <= Len(file)
    /\ SubSeq(file, 1, Len(promised)) = promised

=============================================================================
