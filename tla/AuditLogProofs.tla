--------------------------- MODULE AuditLogProofs ---------------------------
(***************************************************************************)
(* What AuditLog promises.  The types hold whatever happens.  The rest is  *)
(* proved while a write that raises leaves nothing behind and a crash      *)
(* leaves nothing, a whole line or a broken one (CleanFaults): an open log *)
(* continues the chain in its file and keeps what was anchored, whatever   *)
(* befell the file; without accidents it keeps all it has acknowledged and *)
(* can always be reopened.                                                 *)
(***************************************************************************)
EXTENDS AuditLog, TLAPS, SequenceTheorems, WellFoundedInduction

CleanFaults ==
  /\ FailedWrites \subseteq {"nothing"}
  /\ CrashedWrites \subseteq {"nothing", "partial", "whole"}

-----------------------------------------------------------------------------
(* The chain as a value.                                                   *)

\* A list that agrees with another on its first n lines verifies as far.
LEMMA PrefixVerifies ==
  ASSUME NEW f, NEW g, NEW n \in Nat, Verifies(f, n),
         \A i \in 1..n : g[i] = f[i]
  PROVE  Verifies(g, n)
<1> SUFFICES ASSUME NEW i \in 1..n PROVE LinksUp(g, i)
  BY DEF Verifies
<1>1. LinksUp(f, i) /\ g[i] = f[i]
  BY DEF Verifies
<1>2. i # 1 => i - 1 \in 1..n
  OBVIOUS
<1>3. HashBefore(g, i) = HashBefore(f, i)
  BY <1>2 DEF HashBefore
<1> QED
  BY <1>1, <1>3 DEF LinksUp

\* Where the verification stops is determined.
LEMMA VerifiedIs ==
  ASSUME NEW f, Len(f) \in Nat, NEW n \in 0..Len(f), Verifies(f, n),
         n < Len(f) => ~LinksUp(f, n + 1)
  PROVE  Verified(f) = n
<1> DEFINE Stops(m) == Verifies(f, m) /\ (m < Len(f) => ~LinksUp(f, m + 1))
<1>1. ASSUME NEW m \in 0..Len(f), Stops(m) PROVE m = n
  <2>1. CASE m < n
    <3>1. m + 1 \in 1..n /\ m < Len(f)
      BY <2>1
    <3> QED
      BY <1>1, <3>1 DEF Verifies
  <2>2. CASE n < m
    <3>1. n + 1 \in 1..m /\ n < Len(f)
      BY <2>2
    <3> QED
      BY <1>1, <3>1 DEF Verifies
  <2> QED
    BY <2>1, <2>2
<1>2. Stops(n)
  OBVIOUS
<1> HIDE DEF Stops
<1>3. (CHOOSE m \in 0..Len(f) : Stops(m)) = n
  BY <1>1, <1>2
<1> QED
  BY <1>3 DEF Verified, Stops

\* A chain that verifies to its end is replayed as it is.
LEMMA WholeChain ==
  ASSUME NEW f, Len(f) \in Nat, Verifies(f, Len(f))
  PROVE  Verified(f) = Len(f) /\ ~Torn(f) /\ Replayable(f) /\ Healed(f) = f
<1>1. Verified(f) = Len(f)
  BY VerifiedIs
<1> QED
  BY <1>1 DEF Torn, Replayable, Healed

\* A chain with one broken line behind it is healed to the chain.
LEMMA BrokenTail ==
  ASSUME NEW S, NEW f \in Seq(S), NEW n \in Nat, Len(f) = n + 1,
         Verifies(f, n), f[n + 1] = Junk
  PROVE  /\ Torn(f) /\ Replayable(f)
         /\ Healed(f) = SubSeq(f, 1, n)
         /\ Healed(f) \in Seq(S)
         /\ Len(Healed(f)) = n
         /\ \A i \in 1..n : Healed(f)[i] = f[i]
<1>1. Verified(f) = n
  BY VerifiedIs DEF LinksUp
<1>2. Torn(f) /\ Healed(f) = SubSeq(f, 1, n)
  BY <1>1 DEF Torn, Healed
<1> QED
  BY <1>2 DEF Replayable

-----------------------------------------------------------------------------
(* The invariant: n entries verify and hold what was acknowledged and what *)
(* was anchored; behind them there is at most one broken line, and none    *)
(* while the log is open.                                                  *)

Ends(n) ==
  \/ Len(file) = n /\ ~unterminated
  \/ Len(file) = n + 1 /\ file[n + 1] = Junk /\ status # "open"

OpenAt(n) ==
  status = "open" => count = n /\ last_hash = HashBefore(file, n + 1)

Holds(n) ==
  \A e \in acknowledged : e.seq \in Nat /\ e.seq < n /\ file[e.seq + 1] = e

Covers(n) ==
  /\ anchor.count <= n
  /\ anchor.count > 0 => file[anchor.count].entry_hash = anchor.head

ChainOf(n) == Verifies(file, n) /\ Ends(n) /\ OpenAt(n) /\ Holds(n) /\ Covers(n)

IInv == TypeOK /\ \E n \in Nat : ChainOf(n)

-----------------------------------------------------------------------------
(* Every step keeps it.                                                    *)

LEMMA Initially == Init => IInv
<1> SUFFICES ASSUME Init PROVE IInv
  OBVIOUS
<1>1. TypeOK
  <2>1. <<>> \in Seq(Entry \cup {Junk})
    OBVIOUS
  <2>2. 0 \in 0..MaxWrites /\ 0 \in 0..MaxDamage
    BY AuditAssumption DEF AuditAssumption
  <2> QED
    BY <2>1, <2>2 DEF Init, TypeOK, NoAnchor, Anchor, NoHash
<1>2. ChainOf(0)
  BY DEF Init, ChainOf, Verifies, Ends, OpenAt, Holds, Covers, NoAnchor
<1> QED
  BY <1>1, <1>2 DEF IInv

\* While the log is open, the next entry continues the chain in the file.
LEMMA NextLinksUp ==
  ASSUME TypeOK, NEW n \in Nat, ChainOf(n), status = "open",
         writes < MaxWrites, AuditAssumption
  PROVE  /\ NextEntry \in Entry /\ NextEntry # Junk
         /\ Len(file) = n /\ count = n /\ ~unterminated
         /\ Verifies(Append(file, NextEntry), n)
         /\ LinksUp(Append(file, NextEntry), n + 1)
<1>1. Len(file) = n /\ count = n /\ ~unterminated
      /\ last_hash = HashBefore(file, n + 1)
  BY DEF ChainOf, Ends, OpenAt
<1>2. NextEntry \in Entry /\ NextEntry # Junk
  BY AuditAssumption DEF NextEntry, Entry, Hash, TypeOK, AuditAssumption
<1> DEFINE g == Append(file, NextEntry)
<1>3. g[n + 1] = NextEntry /\ \A i \in 1..n : g[i] = file[i]
  BY <1>1 DEF TypeOK
<1>4. Verifies(g, n)
  BY <1>3, PrefixVerifies DEF ChainOf
<1>5. HashBefore(g, n + 1) = HashBefore(file, n + 1)
  <2>1. n + 1 # 1 => g[(n + 1) - 1] = file[(n + 1) - 1]
    <3>1. (n + 1) - 1 = n /\ (n + 1 # 1 => n \in 1..n)
      OBVIOUS
    <3> HIDE DEF g
    <3> QED
      BY <3>1, <1>3
  <2> HIDE DEF g
  <2> QED
    BY <2>1 DEF HashBefore
<1>6. LinksUp(g, n + 1)
  BY <1>1, <1>2, <1>3, <1>5 DEF LinksUp, NextEntry
<1> QED
  BY <1>1, <1>2, <1>4, <1>6

LEMMA AppendKeeps ==
  ASSUME IInv, AppendEntry, AuditAssumption
  PROVE  IInv'
<1> PICK n \in Nat : ChainOf(n)
  BY DEF IInv
<1>1. TypeOK /\ status = "open" /\ writes < MaxWrites
  BY DEF IInv, AppendEntry, Write
<1>2. /\ NextEntry \in Entry /\ NextEntry # Junk
      /\ Len(file) = n /\ count = n /\ ~unterminated
      /\ Verifies(Append(file, NextEntry), n)
      /\ LinksUp(Append(file, NextEntry), n + 1)
  BY <1>1, NextLinksUp
<1>3. file' = Append(file, NextEntry) /\ unterminated' = FALSE
  BY <1>2 DEF AppendEntry, Write
<1>4. /\ file' \in Seq(Entry \cup {Junk}) /\ Len(file') = n + 1
      /\ file'[n + 1] = NextEntry /\ \A i \in 1..n : file'[i] = file[i]
  BY <1>1, <1>2, <1>3 DEF TypeOK
<1>5. TypeOK'
  BY <1>1, <1>2, <1>3, <1>4
     DEF TypeOK, AppendEntry, Write, NextEntry, Entry, Hash, outside
<1>6. Verifies(file', n + 1)
  BY <1>2, <1>3 DEF Verifies
<1>7. ChainOf(n + 1)'
  <2>1. Ends(n + 1)'
    BY <1>3, <1>4 DEF Ends
  <2>2. OpenAt(n + 1)'
    BY <1>2, <1>4 DEF OpenAt, HashBefore, AppendEntry
  <2>3. Holds(n + 1)'
    <3> SUFFICES ASSUME NEW e \in acknowledged'
                 PROVE e.seq \in Nat /\ e.seq < n + 1 /\ file'[e.seq + 1] = e
      BY DEF Holds
    <3>1. CASE e = NextEntry
      BY <3>1, <1>2, <1>4 DEF NextEntry
    <3>2. CASE e \in acknowledged
      <4>1. e.seq \in Nat /\ e.seq < n /\ file[e.seq + 1] = e
        BY <3>2 DEF ChainOf, Holds
      <4> QED
        BY <4>1, <1>4
    <3> QED
      BY <3>1, <3>2 DEF AppendEntry
  <2>4. Covers(n + 1)'
    <3>1. anchor.count \in Nat /\ anchor' = anchor
      BY <1>1 DEF TypeOK, Anchor, AppendEntry, outside
    <3> QED
      BY <3>1, <1>4 DEF ChainOf, Covers
  <2> QED
    BY <1>6, <2>1, <2>2, <2>3, <2>4 DEF ChainOf
<1> QED
  BY <1>5, <1>7 DEF IInv

\* A write that leaves nothing changes nothing the invariant speaks of.
LEMMA FailureKeeps ==
  ASSUME IInv, AppendFails, CleanFaults
  PROVE  IInv'
<1> PICK n \in Nat : ChainOf(n)
  BY DEF IInv
<1>1. UNCHANGED <<disk, last_hash, count, status, anchored, outside,
                  acknowledged>>
  BY DEF AppendFails, Write, CleanFaults, HeadStays
<1>2. writes' \in 0..MaxWrites
  BY AuditAssumption DEF AuditAssumption, AppendFails, Write, IInv, TypeOK
<1>3. TypeOK'
  BY <1>1, <1>2 DEF IInv, TypeOK, disk, outside
<1>4. ChainOf(n)'
  BY <1>1 DEF ChainOf, Ends, OpenAt, Holds, Covers, disk, outside
<1> QED
  BY <1>3, <1>4 DEF IInv

LEMMA CrashInAppendKeeps ==
  ASSUME IInv, CrashInAppend, CleanFaults, AuditAssumption
  PROVE  IInv'
<1> PICK n \in Nat : ChainOf(n)
  BY DEF IInv
<1>1. TypeOK /\ status = "open" /\ writes < MaxWrites
  BY DEF IInv, CrashInAppend, Write
<1>2. /\ NextEntry \in Entry /\ NextEntry # Junk
      /\ Len(file) = n /\ count = n /\ ~unterminated
      /\ Verifies(Append(file, NextEntry), n)
      /\ LinksUp(Append(file, NextEntry), n + 1)
  BY <1>1, NextLinksUp
<1>3. /\ status' = "closed" /\ last_hash' = NoHash /\ count' = 0
      /\ anchored' = FALSE /\ UNCHANGED <<outside, acknowledged>>
      /\ writes' = writes + 1
  BY DEF CrashInAppend, Forget, Write
<1>4. \/ UNCHANGED disk
      \/ file' = Append(file, Junk)
      \/ file' = Append(file, NextEntry) /\ ~unterminated'
  BY <1>2 DEF CrashInAppend, Write, CleanFaults
<1>5. /\ file' \in Seq(Entry \cup {Junk}) /\ unterminated' \in BOOLEAN
      /\ \A i \in 1..n : file'[i] = file[i]
  <2>1. unterminated' \in BOOLEAN
    BY <1>1 DEF TypeOK, disk, CrashInAppend, Write
  <2>2. file \in Seq(Entry \cup {Junk})
    BY <1>1 DEF TypeOK
  <2>3. file' = file \/ \E l \in Entry \cup {Junk} : file' = Append(file, l)
    BY <1>2, <1>4 DEF disk
  <2> QED
    BY <2>1, <2>2, <2>3, <1>2
<1>6. TypeOK'
  <2>1. writes' \in 0..MaxWrites
    BY <1>1, <1>3, AuditAssumption DEF AuditAssumption, TypeOK
  <2> QED
    BY <2>1, <1>1, <1>3, <1>5 DEF TypeOK, outside
<1>7. Verifies(file', n)
  BY <1>5, PrefixVerifies DEF ChainOf
<1>8. Holds(n)' /\ Covers(n)'
  <2>1. anchor.count \in Nat /\ anchor' = anchor
    BY <1>1, <1>3 DEF TypeOK, Anchor, outside
  <2> QED
    BY <2>1, <1>3, <1>5 DEF ChainOf, Holds, Covers
<1>9. CASE UNCHANGED disk
  <2>1. ChainOf(n)'
    BY <1>2, <1>3, <1>7, <1>8, <1>9 DEF ChainOf, Ends, OpenAt, disk
  <2> QED
    BY <2>1, <1>6 DEF IInv
<1>10. CASE file' = Append(file, Junk)
  <2>1. Len(file') = n + 1 /\ file'[n + 1] = Junk
    BY <1>1, <1>2, <1>10 DEF TypeOK
  <2>2. ChainOf(n)'
    BY <2>1, <1>3, <1>7, <1>8 DEF ChainOf, Ends, OpenAt
  <2> QED
    BY <2>2, <1>6 DEF IInv
<1>11. CASE file' = Append(file, NextEntry) /\ ~unterminated'
  <2>1. Len(file') = n + 1
    BY <1>1, <1>2, <1>11 DEF TypeOK
  <2>2. Verifies(file', n + 1)
    BY <1>2, <1>11 DEF Verifies
  <2>3. Holds(n + 1)'
    BY <1>8 DEF Holds
  <2>4. Covers(n + 1)'
    BY <1>8, <1>6 DEF Covers, TypeOK, Anchor
  <2>5. ChainOf(n + 1)'
    BY <2>1, <2>2, <2>3, <2>4, <1>3, <1>11 DEF ChainOf, Ends, OpenAt
  <2> QED
    BY <2>5, <1>6 DEF IInv
<1> QED
  BY <1>4, <1>9, <1>10, <1>11


LEMMA CrashKeeps ==
  ASSUME IInv, Crash
  PROVE  IInv'
<1> PICK n \in Nat : ChainOf(n)
  BY DEF IInv
<1>1. TypeOK'
  BY DEF IInv, TypeOK, Crash, Forget, disk, outside
<1>2. ChainOf(n)'
  BY DEF ChainOf, Ends, OpenAt, Holds, Covers, Crash, Forget, disk, outside
<1> QED
  BY <1>1, <1>2 DEF IInv

\* The file can be replayed, and what is left of it is the chain.
LEMMA ReplayFinds ==
  ASSUME TypeOK, NEW n \in Nat, ChainOf(n)
  PROVE  /\ Replayable(file) /\ MatchesAnchor(Healed(file))
         /\ Healed(file) \in Seq(Entry \cup {Junk})
         /\ Len(Healed(file)) = n
         /\ \A i \in 1..n : Healed(file)[i] = file[i]
         /\ unterminated => Torn(file)
<1>1. /\ Replayable(file)
      /\ Healed(file) \in Seq(Entry \cup {Junk})
      /\ Len(Healed(file)) = n
      /\ \A i \in 1..n : Healed(file)[i] = file[i]
      /\ unterminated => Torn(file)
  <2>0. file \in Seq(Entry \cup {Junk}) /\ Verifies(file, n)
    BY DEF TypeOK, ChainOf
  <2>1. CASE Len(file) = n /\ ~unterminated
    BY <2>0, <2>1, WholeChain
  <2>2. CASE Len(file) = n + 1 /\ file[n + 1] = Junk
    <3> HIDE DEF Torn, Healed, Replayable
    <3> QED
      BY <2>0, <2>2, BrokenTail
  <2> QED
    BY <2>1, <2>2 DEF ChainOf, Ends
<1>2. MatchesAnchor(Healed(file))
  <2>1. anchor.count \in Nat
    BY DEF TypeOK, Anchor
  <2>2. anchor.count > 0 => anchor.count \in 1..n
    BY <2>1 DEF ChainOf, Covers
  <2> QED
    BY <2>1, <2>2, <1>1 DEF MatchesAnchor, ChainOf, Covers
<1> QED
  BY <1>1, <1>2

\* The healed file is the same chain with nothing behind it.
LEMMA HealingKeeps ==
  ASSUME TypeOK, NEW n \in Nat, ChainOf(n), file' = Healed(file),
         unterminated' = (unterminated /\ ~Torn(file)),
         UNCHANGED <<outside, writes, acknowledged>>
  PROVE  /\ file' \in Seq(Entry \cup {Junk}) /\ Len(file') = n
         /\ unterminated' = FALSE
         /\ Verifies(file', n) /\ Ends(n)' /\ Holds(n)' /\ Covers(n)'
<1>1. /\ file' \in Seq(Entry \cup {Junk}) /\ Len(file') = n
      /\ \A i \in 1..n : file'[i] = file[i]
      /\ unterminated' = FALSE
  BY ReplayFinds DEF TypeOK
<1>2. Verifies(file', n)
  BY <1>1, PrefixVerifies DEF ChainOf
<1>3. Ends(n)'
  BY <1>1 DEF Ends
<1>4. Holds(n)' /\ Covers(n)'
  <2>1. anchor.count \in Nat /\ anchor' = anchor
    BY DEF TypeOK, Anchor, outside
  <2> QED
    BY <2>1, <1>1 DEF ChainOf, Holds, Covers
<1> QED
  BY <1>1, <1>2, <1>3, <1>4

LEMMA OpenKeeps ==
  ASSUME IInv, NEW how, Open(how), AuditAssumption
  PROVE  IInv'
<1> PICK n \in Nat : ChainOf(n)
  BY DEF IInv
<1>1. /\ file' \in Seq(Entry \cup {Junk}) /\ Len(file') = n
      /\ unterminated' = FALSE
      /\ Verifies(file', n) /\ Ends(n)' /\ Holds(n)' /\ Covers(n)'
  BY HealingKeeps DEF IInv, Open
<1>2. /\ status' = "open" /\ count' = n
      /\ last_hash' = HashBefore(file', n + 1)
  BY <1>1 DEF Open
<1>3. last_hash' \in {NoHash} \cup Hash
  <2>1. CASE n = 0
    BY <2>1, <1>2 DEF HashBefore
  <2>2. CASE n # 0
    <3>1. n \in 1..n /\ (n + 1) - 1 = n /\ n + 1 # 1
      BY <2>2
    <3>2. file'[n] \in Entry
      BY <3>1, <1>1 DEF Verifies, LinksUp
    <3> QED
      BY <3>1, <3>2, <1>2 DEF HashBefore, Entry
  <2> QED
    BY <2>1, <2>2
<1>4. TypeOK'
  BY <1>1, <1>2, <1>3 DEF IInv, TypeOK, Open, outside
<1>5. ChainOf(n)'
  BY <1>1, <1>2 DEF ChainOf, OpenAt
<1> QED
  BY <1>4, <1>5 DEF IInv

LEMMA RefuseKeeps ==
  ASSUME IInv, NEW how, Refuse(how)
  PROVE  IInv'
<1> PICK n \in Nat : ChainOf(n)
  BY DEF IInv
<1>1. status' = "refused" /\ UNCHANGED <<last_hash, count, anchored, outside,
                                        writes, acknowledged>>
  BY DEF Refuse
<1>2. CASE UNCHANGED disk
  <2>1. TypeOK'
    BY <1>1, <1>2 DEF IInv, TypeOK, disk, outside
  <2>2. ChainOf(n)'
    BY <1>1, <1>2 DEF ChainOf, Ends, OpenAt, Holds, Covers, disk, outside
  <2> QED
    BY <2>1, <2>2 DEF IInv
<1>3. CASE /\ file' = Healed(file)
           /\ unterminated' = (unterminated /\ ~Torn(file))
  <2>1. /\ file' \in Seq(Entry \cup {Junk}) /\ Len(file') = n
        /\ unterminated' = FALSE
        /\ Verifies(file', n) /\ Ends(n)' /\ Holds(n)' /\ Covers(n)'
    BY <1>1, <1>3, HealingKeeps DEF IInv
  <2>2. TypeOK'
    BY <2>1, <1>1 DEF IInv, TypeOK, outside
  <2>3. ChainOf(n)'
    BY <2>1, <1>1 DEF ChainOf, OpenAt
  <2> QED
    BY <2>2, <2>3 DEF IInv
<1> QED
  BY <1>2, <1>3 DEF Refuse

LEMMA TakeAnchorKeeps ==
  ASSUME IInv, TakeAnchor
  PROVE  IInv'
<1> PICK n \in Nat : ChainOf(n)
  BY DEF IInv
<1>1. TypeOK'
  BY DEF IInv, TypeOK, TakeAnchor, disk, memory, Anchor
<1>2. count = n /\ last_hash = HashBefore(file, n + 1)
  BY DEF TakeAnchor, ChainOf, OpenAt
<1>3. Covers(n)'
  <2>1. anchor' = [head |-> last_hash, count |-> count] /\ file' = file
    BY DEF TakeAnchor, disk
  <2>2. n > 0 => (n + 1) - 1 = n /\ n + 1 # 1
    OBVIOUS
  <2> QED
    BY <2>1, <2>2, <1>2 DEF Covers, HashBefore
<1>4. ChainOf(n)'
  BY <1>3 DEF ChainOf, Ends, OpenAt, Holds, TakeAnchor, disk, memory
<1> QED
  BY <1>1, <1>4 DEF IInv

LEMMA CopyKeeps ==
  ASSUME IInv, CopyFile \/ UNCHANGED vars
  PROVE  IInv'
<1> PICK n \in Nat : ChainOf(n)
  BY DEF IInv
<1>1. TypeOK'
  BY DEF IInv, TypeOK, CopyFile, vars, disk, memory, outside
<1>2. ChainOf(n)'
  BY DEF ChainOf, Ends, OpenAt, Holds, Covers, CopyFile, vars, disk, memory,
         outside
<1> QED
  BY <1>1, <1>2 DEF IInv

LEMMA NoAccident ==
  ASSUME IInv, damage' = damage
  PROVE  ~(LoseLines \/ SpoilLine \/ RestoreCopy)
<1>1. \A f : ~Accident(f)
  BY DEF IInv, TypeOK, Accident
<1> QED
  BY <1>1 DEF LoseLines, SpoilLine, RestoreCopy

LEMMA InvStep ==
  ASSUME IInv, [Next]_vars, CleanFaults, damage' = damage
  PROVE  IInv'
<1>1. CASE UNCHANGED vars
  BY <1>1, CopyKeeps
<1>2. CASE AppendEntry
  BY <1>2, AppendKeeps, AuditAssumption
<1>3. CASE AppendFails
  BY <1>3, FailureKeeps
<1>4. CASE CrashInAppend
  BY <1>4, CrashInAppendKeeps, AuditAssumption
<1>5. CASE Crash
  BY <1>5, CrashKeeps
<1>6. ASSUME NEW how \in Claims, Open(how) \/ Refuse(how) PROVE IInv'
  BY <1>6, OpenKeeps, RefuseKeeps, AuditAssumption
<1>7. CASE TakeAnchor
  BY <1>7, TakeAnchorKeeps
<1>8. CASE CopyFile
  BY <1>8, CopyKeeps
<1> QED
  BY <1>1, <1>2, <1>3, <1>4, <1>5, <1>6, <1>7, <1>8, NoAccident DEF Next

-----------------------------------------------------------------------------
(* Accidents.  Whatever befell the file while it was closed, an open log   *)
(* continues the chain it found, and one that was opened under an anchor   *)
(* begins with the chain that was anchored: the hash at the anchored       *)
(* position stands for its entry, that for the hash before it, and so on   *)
(* down to the first.                                                      *)

LEMMA LeastNumber ==
  ASSUME NEW T \in SUBSET Nat, T # {}
  PROVE  \E x \in T : \A y \in T : x <= y
<1> DEFINE R == OpToRel(<, Nat)
<1>1. IsWellFoundedOn(R, Nat)
  BY NatLessThanWellFounded, Zenon
<1>2. \A x, y \in Nat : <<y, x>> \in R <=> y < x
  BY DEF OpToRel
<1> HIDE DEF R
<1>3. PICK x \in T : \A y \in T : ~(<<y, x>> \in R)
  BY <1>1, WFMin
<1>4. ASSUME NEW y \in T PROVE x <= y
  <2>1. x \in Nat /\ y \in Nat /\ ~(<<y, x>> \in R)
    BY <1>3, <1>4
  <2>2. ~(y < x)
    BY <2>1, <1>2
  <2> QED
    BY <2>1, <2>2
<1> QED
  BY <1>4

\* The verification of any list of lines ends somewhere.
LEMMA VerificationEnds ==
  ASSUME NEW f, Len(f) \in Nat
  PROVE  /\ Verified(f) \in 0..Len(f)
         /\ Verifies(f, Verified(f))
         /\ Verified(f) < Len(f) => ~LinksUp(f, Verified(f) + 1)
<1> DEFINE T == {n \in 0..Len(f) : n < Len(f) => ~LinksUp(f, n + 1)}
<1>1. Len(f) \in T /\ T \in SUBSET Nat
  OBVIOUS
<1>2. PICK n \in T : \A m \in T : n <= m
  BY <1>1, LeastNumber
<1>3. n \in 0..Len(f) /\ (n < Len(f) => ~LinksUp(f, n + 1))
  OBVIOUS
<1>4. Verifies(f, n)
  <2> SUFFICES ASSUME NEW i \in 1..n, ~LinksUp(f, i) PROVE FALSE
    BY DEF Verifies
  <2> PICK m \in 0..Len(f) : m = i - 1 /\ m < n
    BY <1>3
  <2>1. m + 1 = i
    OBVIOUS
  <2>2. m \in T
    BY <2>1
  <2>3. n <= m
    BY <1>2, <2>2
  <2>4. n \in Nat /\ m \in Nat /\ m < n
    BY <1>3
  <2> HIDE DEF T
  <2> QED
    BY <2>3, <2>4
<1>5. Verified(f) = n
  BY <1>3, <1>4, VerifiedIs
<1> QED
  BY <1>3, <1>4, <1>5

\* What a replay leaves is a prefix of the file, and it is a chain.
LEMMA ReplayedIsAChain ==
  ASSUME NEW S, NEW f \in Seq(S), Replayable(f)
  PROVE  /\ Healed(f) \in Seq(S) /\ Len(Healed(f)) \in Nat
         /\ Len(Healed(f)) <= Len(f)
         /\ \A i \in 1..Len(Healed(f)) : Healed(f)[i] = f[i]
         /\ Verifies(Healed(f), Len(Healed(f)))
         /\ Len(f) > 0 /\ f[Len(f)] = Junk => Torn(f)
<1>1. /\ Len(f) \in Nat /\ Verified(f) \in 0..Len(f)
      /\ Verifies(f, Verified(f))
  BY VerificationEnds
<1>2. CASE Torn(f)
  <2> PICK n \in Nat : n = Verified(f) /\ n <= Len(f)
    BY <1>1
  <2>1. Healed(f) = SubSeq(f, 1, n)
    BY <1>2 DEF Healed
  <2>2. /\ SubSeq(f, 1, n) \in Seq(S) /\ Len(SubSeq(f, 1, n)) = n
        /\ \A i \in 1..n : SubSeq(f, 1, n)[i] = f[i]
    BY <1>1
  <2>3. Verifies(SubSeq(f, 1, n), n)
    BY <1>1, <2>2, PrefixVerifies
  <2> QED
    BY <1>1, <1>2, <2>1, <2>2, <2>3
<1>3. CASE ~Torn(f)
  <2>1. Verified(f) = Len(f) /\ Healed(f) = f
    BY <1>3 DEF Replayable, Healed
  <2>2. Verifies(f, Len(f))
    BY <1>1, <2>1
  <2>3. Len(f) > 0 => f[Len(f)] # Junk
    BY <1>1, <2>2 DEF Verifies, LinksUp
  <2> QED
    BY <1>1, <1>3, <2>1, <2>2, <2>3
<1> QED
  BY <1>2, <1>3

\* The entries in a list of lines.
EntriesOf(f) == {f[i] : i \in DOMAIN f} \ {Junk}

Known(f, g, h) == EntriesOf(f) \cup EntriesOf(g) \cup EntriesOf(h)

\* Of these entries none has the hash of another, or one not yet computed.
HashesTell(known, n) ==
  \A x \in known : /\ x.entry_hash <= n
                   /\ \A y \in known : x.entry_hash = y.entry_hash => x = y

\* Two chains with the same hash at a position are the same up to there.
LEMMA SameChain ==
  ASSUME NEW f, NEW g, NEW c \in Nat, NEW n,
         1..c \subseteq DOMAIN f, 1..c \subseteq DOMAIN g,
         Verifies(f, c), Verifies(g, c),
         HashesTell(EntriesOf(f) \cup EntriesOf(g), n),
         c > 0 => f[c].entry_hash = g[c].entry_hash
  PROVE  \A i \in 1..c : f[i] = g[i]
<1>1. \A i \in 1..c :
        /\ f[i] \in EntriesOf(f) /\ g[i] \in EntriesOf(g)
        /\ f[i].entry_hash = g[i].entry_hash => f[i] = g[i]
        /\ f[i].previous_hash = HashBefore(f, i)
        /\ g[i].previous_hash = HashBefore(g, i)
  <2> TAKE i \in 1..c
  <2>1. LinksUp(f, i) /\ LinksUp(g, i) /\ i \in DOMAIN f /\ i \in DOMAIN g
    BY DEF Verifies
  <2>2. f[i] \in EntriesOf(f) /\ g[i] \in EntriesOf(g)
    BY <2>1 DEF EntriesOf, LinksUp
  <2> QED
    BY <2>1, <2>2 DEF LinksUp, HashesTell
<1> DEFINE Differ == {k \in Nat : k < c /\ f[c - k] # g[c - k]}
<1>2. CASE Differ = {}
  <2> TAKE i \in 1..c
  <2> PICK k \in Nat : k = c - i
    OBVIOUS
  <2>1. k < c /\ c - k = i
    OBVIOUS
  <2> QED
    BY <1>2, <2>1
<1>3. CASE Differ # {}
  <2>1. Differ \in SUBSET Nat
    OBVIOUS
  <2> PICK k \in Differ : \A m \in Differ : k <= m
    BY <1>3, <2>1, LeastNumber
  <2>2. k \in Nat /\ k < c /\ f[c - k] # g[c - k]
    OBVIOUS
  <2> PICK i \in 1..c : i = c - k
    BY <2>2
  <2>3. f[i].entry_hash = g[i].entry_hash
    <3>1. CASE k = 0
      BY <2>2, <3>1
    <3>2. CASE k # 0
      <4> PICK m \in Nat : m = k - 1
        BY <2>2, <3>2
      <4>1. m \notin Differ /\ m < c /\ c - m = i + 1 /\ i + 1 \in 1..c
        BY <2>2, <3>2
      <4>2. f[i + 1] = g[i + 1]
        BY <4>1
      <4>3. HashBefore(f, i + 1) = HashBefore(g, i + 1)
        BY <4>1, <4>2, <1>1
      <4>4. i + 1 # 1 /\ (i + 1) - 1 = i
        OBVIOUS
      <4> QED
        BY <4>3, <4>4 DEF HashBefore
    <3> QED
      BY <3>1, <3>2
  <2> QED
    BY <1>1, <2>2, <2>3
<1> QED
  BY <1>2, <1>3

Begins(p, f) == Len(p) <= Len(f) /\ \A i \in 1..Len(p) : f[i] = p[i]

\* What was anchored is a chain, and the anchor its last hash.
AnchoredChain(p, a) ==
  /\ Verifies(p, Len(p))
  /\ a.count = Len(p)
  /\ a.count > 0 => p[a.count].entry_hash = a.head

\* A last line without its newline is a broken one.
TailIsBroken(f, u) == u => Len(f) > 0 /\ f[Len(f)] = Junk

Chained(f) == Verifies(f, Len(f))

DInv ==
  /\ TypeOK
  /\ HeadIsTheFile
  /\ TailIsBroken(file, unterminated)
  /\ HashesTell(Known(file, promised, backup), writes)
  /\ AnchoredChain(promised, anchor)
  /\ status = "open" /\ anchored => Begins(promised, file)

LEMMA FewerEntries ==
  ASSUME NEW known, NEW fewer, NEW n, HashesTell(known, n),
         fewer \subseteq known
  PROVE  HashesTell(fewer, n)
BY DEF HashesTell

LEMMA DInitially == Init => DInv
<1> SUFFICES ASSUME Init PROVE DInv
  OBVIOUS
<1>1. TypeOK
  BY Initially DEF IInv
<1>2. file = <<>> /\ promised = <<>> /\ backup = <<>>
  BY DEF Init
<1>3. EntriesOf(<<>>) = {}
  BY DEF EntriesOf
<1>4. HashesTell(Known(file, promised, backup), writes)
  BY <1>2, <1>3 DEF HashesTell, Known
<1>5. AnchoredChain(promised, anchor)
  BY <1>2 DEF Init, AnchoredChain, Verifies, NoAnchor
<1> QED
  BY <1>1, <1>4, <1>5 DEF Init, DInv, HeadIsTheFile, TailIsBroken

\* A write to an open log adds its entry, a broken line, or nothing.
LEMMA WriteAdds ==
  ASSUME DInv, status = "open", NEW effect \in {"nothing", "partial", "whole"},
         Write(effect), UNCHANGED <<promised, backup>>
  PROVE  /\ file' \in Seq(Entry \cup {Junk}) /\ unterminated' \in BOOLEAN
         /\ writes' \in 0..MaxWrites
         /\ NextEntry \in Entry
         /\ TailIsBroken(file', unterminated')
         /\ HashesTell(Known(file', promised', backup'), writes')
         /\ effect = "whole" => /\ Chained(file')
                                /\ Len(file') = count + 1
                                /\ file'[count + 1] = NextEntry
         /\ \A p : Begins(p, file) /\ Len(p) \in Nat => Begins(p, file')
<1>0. /\ file \in Seq(Entry \cup {Junk}) /\ writes \in Nat
      /\ writes < MaxWrites /\ writes' = writes + 1 /\ MaxWrites \in Nat
      /\ Junk \notin Entry /\ Len(file) \in Nat /\ count = Len(file)
      /\ Verifies(file, Len(file))
      /\ last_hash = HashBefore(file, count + 1)
  BY AuditAssumption
     DEF DInv, TypeOK, HeadIsTheFile, Write, AuditAssumption
<1>1. ~unterminated
  BY <1>0 DEF DInv, TailIsBroken, Verifies, LinksUp
<1>2. /\ NextEntry \in Entry /\ NextEntry.entry_hash = writes + 1
      /\ NextEntry.seq = count /\ NextEntry.previous_hash = last_hash
  BY <1>0 DEF DInv, TypeOK, NextEntry, Entry, Hash
<1>3. writes' \in 0..MaxWrites
  BY <1>0
<1>4. HashesTell(Known(file, promised, backup) \cup {NextEntry}, writes')
  <2>1. \A x \in Known(file, promised, backup) :
          x \in Entry /\ x.entry_hash \in Nat /\ x.entry_hash <= writes
    <3>1. Known(file, promised, backup) \subseteq Entry
      BY DEF DInv, TypeOK, Known, EntriesOf
    <3>2. \A x \in Entry : x.entry_hash \in Nat
      BY <1>0 DEF Entry, Hash
    <3> QED
      BY <3>1, <3>2 DEF DInv, HashesTell
  <2> QED
    BY <1>0, <1>2, <2>1 DEF DInv, HashesTell
<1>5. CASE effect = "nothing"
  <2>1. file' = file /\ unterminated' = unterminated
    BY <1>5 DEF Write, disk
  <2>2. HashesTell(Known(file', promised', backup'), writes')
    BY <1>4, <2>1, FewerEntries
  <2>3. TailIsBroken(file', unterminated') /\ unterminated' \in BOOLEAN
    BY <1>1, <2>1 DEF TailIsBroken, DInv, TypeOK
  <2>4. \A p : Begins(p, file) /\ Len(p) \in Nat => Begins(p, file')
    BY <2>1
  <2>5. file' \in Seq(Entry \cup {Junk})
    BY <1>0, <2>1
  <2> QED
    BY <1>2, <1>3, <1>5, <2>2, <2>3, <2>4, <2>5
<1>6. ASSUME NEW l \in Entry \cup {Junk}, file' = Append(file, l)
      PROVE  /\ file' \in Seq(Entry \cup {Junk})
             /\ Len(file') = count + 1 /\ file'[count + 1] = l
             /\ \A i \in 1..Len(file) : file'[i] = file[i]
             /\ \A p : Begins(p, file) /\ Len(p) \in Nat => Begins(p, file')
             /\ EntriesOf(file') \subseteq EntriesOf(file) \cup ({l} \ {Junk})
  <2>1. /\ file' \in Seq(Entry \cup {Junk})
        /\ Len(file') = count + 1 /\ file'[count + 1] = l
        /\ DOMAIN file' = 1..(count + 1) /\ DOMAIN file = 1..count
        /\ \A i \in 1..count : file'[i] = file[i]
    BY <1>0, <1>6
  <2>2. ASSUME NEW p, Begins(p, file), Len(p) \in Nat
        PROVE  Begins(p, file')
    BY <1>0, <2>1, <2>2 DEF Begins
  <2>3. EntriesOf(file') \subseteq EntriesOf(file) \cup ({l} \ {Junk})
    BY <1>0, <2>1 DEF EntriesOf
  <2> QED
    BY <1>0, <2>1, <2>2, <2>3
<1>7. CASE effect = "partial"
  <2>1. file' = Append(file, Junk) /\ unterminated' = TRUE
    BY <1>1, <1>7 DEF Write
  <2>2. EntriesOf(file') \subseteq EntriesOf(file)
    BY <1>6, <2>1
  <2>3. HashesTell(Known(file', promised', backup'), writes')
    BY <1>4, <2>2, FewerEntries DEF Known
  <2>4. /\ file' \in Seq(Entry \cup {Junk})
        /\ Len(file') = count + 1 /\ file'[count + 1] = Junk
        /\ \A p : Begins(p, file) /\ Len(p) \in Nat => Begins(p, file')
    BY <1>6, <2>1
  <2>5. TailIsBroken(file', unterminated')
    BY <1>0, <2>4 DEF TailIsBroken
  <2> QED
    BY <1>2, <1>3, <1>7, <2>1, <2>3, <2>4, <2>5
<1>8. CASE effect = "whole"
  <2>1. file' = Append(file, NextEntry) /\ unterminated' = FALSE
    BY <1>1, <1>8 DEF Write
  <2>2. /\ file' \in Seq(Entry \cup {Junk})
        /\ Len(file') = count + 1 /\ file'[count + 1] = NextEntry
        /\ \A i \in 1..Len(file) : file'[i] = file[i]
        /\ \A p : Begins(p, file) /\ Len(p) \in Nat => Begins(p, file')
        /\ EntriesOf(file') \subseteq EntriesOf(file) \cup {NextEntry}
    BY <1>2, <1>6, <2>1
  <2>3. HashesTell(Known(file', promised', backup'), writes')
    BY <1>4, <2>2, FewerEntries DEF Known
  <2>4. Verifies(file', Len(file))
    BY <1>0, <2>2, PrefixVerifies
  <2>5. LinksUp(file', count + 1)
    <3>1. HashBefore(file', count + 1) = HashBefore(file, count + 1)
      <4>1. count + 1 # 1 => (count + 1) - 1 \in 1..Len(file)
        BY <1>0
      <4> QED
        BY <4>1, <2>2 DEF HashBefore
    <3>2. (count + 1) - 1 = count
      BY <1>0
    <3> QED
      BY <1>0, <1>2, <2>2, <3>1, <3>2 DEF LinksUp
  <2>6. Chained(file')
    <3>1. 1..(count + 1) = (1..count) \cup {count + 1}
      BY <1>0
    <3> QED
      BY <1>0, <2>2, <2>4, <2>5, <3>1 DEF Verifies, Chained
  <2>7. TailIsBroken(file', unterminated')
    BY <2>1 DEF TailIsBroken
  <2> QED
    BY <1>2, <1>3, <2>1, <2>2, <2>3, <2>6, <2>7
<1> QED
  BY <1>5, <1>7, <1>8

LEMMA DAppend ==
  ASSUME DInv, AppendEntry
  PROVE  DInv'
<1>1. /\ status = "open" /\ Write("whole")
      /\ last_hash' = NextEntry.entry_hash /\ count' = count + 1
      /\ acknowledged' = acknowledged \cup {NextEntry}
      /\ UNCHANGED <<status, anchored, anchor, promised, backup, damage>>
  BY DEF AppendEntry, outside
<1>2. /\ file' \in Seq(Entry \cup {Junk}) /\ unterminated' \in BOOLEAN
      /\ writes' \in 0..MaxWrites
      /\ NextEntry \in Entry
      /\ TailIsBroken(file', unterminated')
      /\ HashesTell(Known(file', promised', backup'), writes')
      /\ Chained(file') /\ Len(file') = count + 1
      /\ file'[count + 1] = NextEntry
      /\ \A p : Begins(p, file) /\ Len(p) \in Nat => Begins(p, file')
  BY <1>1, WriteAdds
<1>3. count \in Nat /\ Len(promised) \in Nat
  BY DEF DInv, TypeOK
<1>4. TypeOK'
  <2>1. last_hash' \in {NoHash} \cup Hash
    BY <1>1, <1>2 DEF Entry
  <2> QED
    BY <1>1, <1>2, <1>3, <2>1 DEF DInv, TypeOK
<1>5. HeadIsTheFile'
  <2>1. (count' + 1) - 1 = count + 1 /\ count' + 1 # 1
    BY <1>1, <1>3
  <2> QED
    BY <1>1, <1>2, <2>1 DEF HeadIsTheFile, Chained, HashBefore
<1>6. AnchoredChain(promised', anchor')
  BY <1>1 DEF DInv
<1>7. status' = "open" /\ anchored' => Begins(promised', file')
  BY <1>1, <1>2, <1>3 DEF DInv
<1> QED
  BY <1>2, <1>4, <1>5, <1>6, <1>7 DEF DInv

LEMMA DFailure ==
  ASSUME DInv, AppendFails, CleanFaults
  PROVE  DInv'
<1>1. /\ status = "open" /\ Write("nothing") /\ UNCHANGED disk
      /\ UNCHANGED <<last_hash, count, status, anchored, anchor, promised,
                     backup, damage, acknowledged>>
  BY DEF AppendFails, Write, CleanFaults, HeadStays, outside
<1>2. /\ writes' \in 0..MaxWrites
      /\ HashesTell(Known(file', promised', backup'), writes')
  BY <1>1, WriteAdds
<1>3. TypeOK'
  BY <1>1, <1>2 DEF DInv, TypeOK, disk
<1> QED
  BY <1>1, <1>2, <1>3 DEF DInv, HeadIsTheFile, disk

LEMMA DCrash ==
  ASSUME DInv, Crash \/ CrashInAppend, CleanFaults
  PROVE  DInv'
<1>1. /\ status' = "closed" /\ last_hash' = NoHash /\ count' = 0
      /\ anchored' = FALSE
      /\ UNCHANGED <<anchor, promised, backup, damage, acknowledged>>
  BY DEF Crash, CrashInAppend, Forget, outside
<1>2. /\ file' \in Seq(Entry \cup {Junk}) /\ unterminated' \in BOOLEAN
      /\ writes' \in 0..MaxWrites
      /\ TailIsBroken(file', unterminated')
      /\ HashesTell(Known(file', promised', backup'), writes')
  <2>1. CASE Crash
    BY <2>1, <1>1 DEF Crash, DInv, TypeOK, disk
  <2>2. CASE CrashInAppend
    <3>1. PICK effect \in {"nothing", "partial", "whole"} : Write(effect)
      BY <2>2 DEF CrashInAppend, CleanFaults
    <3> QED
      BY <2>2, <3>1, <1>1, WriteAdds DEF CrashInAppend
  <2> QED
    BY <2>1, <2>2
<1>3. TypeOK'
  BY <1>1, <1>2 DEF DInv, TypeOK
<1>4. AnchoredChain(promised', anchor')
  BY <1>1 DEF DInv
<1> QED
  BY <1>1, <1>2, <1>3, <1>4 DEF DInv, HeadIsTheFile

\* A replay leaves a chain and nothing behind it.
LEMMA DReplay ==
  ASSUME DInv, Replayable(file), file' = Healed(file),
         unterminated' = (unterminated /\ ~Torn(file)),
         UNCHANGED <<promised, backup, writes>>
  PROVE  /\ file' \in Seq(Entry \cup {Junk}) /\ unterminated' = FALSE
         /\ Len(file') \in Nat /\ Chained(file')
         /\ HashesTell(Known(file', promised', backup'), writes')
<1>1. file \in Seq(Entry \cup {Junk})
  BY DEF DInv, TypeOK
<1>2. /\ file' \in Seq(Entry \cup {Junk}) /\ Len(file') \in Nat
      /\ Len(file') <= Len(file)
      /\ \A i \in 1..Len(file') : file'[i] = file[i]
      /\ Verifies(file', Len(file'))
      /\ Len(file) > 0 /\ file[Len(file)] = Junk => Torn(file)
  BY <1>1, ReplayedIsAChain
<1>3. unterminated' = FALSE
  BY <1>2 DEF DInv, TailIsBroken, TypeOK
<1>4. EntriesOf(file') \subseteq EntriesOf(file)
  <2>1. DOMAIN file' = 1..Len(file') /\ DOMAIN file = 1..Len(file)
        /\ 1..Len(file') \subseteq 1..Len(file)
    BY <1>1, <1>2
  <2> QED
    BY <1>2, <2>1 DEF EntriesOf
<1>5. HashesTell(Known(file', promised', backup'), writes')
  BY <1>4, FewerEntries DEF DInv, Known
<1> QED
  BY <1>2, <1>3, <1>5 DEF Chained

\* A file that matches the anchor begins with what was anchored.
LEMMA MatchingBegins ==
  ASSUME NEW f \in Seq(Entry \cup {Junk}), NEW p \in Seq(Entry \cup {Junk}),
         NEW n, HashesTell(EntriesOf(f) \cup EntriesOf(p), n),
         Chained(f), MatchesAnchor(f), AnchoredChain(p, anchor)
  PROVE  Begins(p, f)
<1>1. /\ Len(f) \in Nat /\ DOMAIN f = 1..Len(f)
      /\ Len(p) \in Nat /\ DOMAIN p = 1..Len(p)
  OBVIOUS
<1>2. /\ Len(p) <= Len(f)
      /\ Len(p) > 0 => f[Len(p)].entry_hash = p[Len(p)].entry_hash
      /\ Verifies(p, Len(p))
  BY <1>1 DEF MatchesAnchor, AnchoredChain
<1>3. 1..Len(p) \subseteq DOMAIN f
  BY <1>1, <1>2
<1>4. Verifies(f, Len(p))
  BY <1>1, <1>2 DEF Chained, Verifies
<1>5. \A i \in 1..Len(p) : f[i] = p[i]
  BY <1>1, <1>2, <1>3, <1>4, SameChain
<1> QED
  BY <1>2, <1>5 DEF Begins

LEMMA DOpen ==
  ASSUME DInv, NEW how \in Claims, Open(how)
  PROVE  DInv'
<1>1. /\ Opens(how) /\ file' = Healed(file)
      /\ unterminated' = (unterminated /\ ~Torn(file))
      /\ status' = "open" /\ count' = Len(file')
      /\ last_hash' = HashBefore(file', Len(file') + 1)
      /\ anchored' = (how # "plain")
      /\ UNCHANGED <<anchor, promised, backup, damage, writes, acknowledged>>
  BY DEF Open, outside
<1>2. /\ file' \in Seq(Entry \cup {Junk}) /\ unterminated' = FALSE
      /\ Len(file') \in Nat /\ Chained(file')
      /\ HashesTell(Known(file', promised', backup'), writes')
  BY <1>1, DReplay DEF Opens
<1>3. last_hash' \in {NoHash} \cup Hash
  <2>1. CASE Len(file') = 0
    BY <1>1, <2>1 DEF HashBefore
  <2>2. CASE Len(file') # 0
    <3> PICK n \in Nat : n = Len(file')
      BY <1>2
    <3>1. n \in 1..n /\ (n + 1) - 1 = n /\ n + 1 # 1
      BY <2>2
    <3>2. file'[n] \in Entry
      BY <3>1, <1>2 DEF Verifies, LinksUp, Chained
    <3> QED
      BY <3>1, <3>2, <1>1 DEF HashBefore, Entry
  <2> QED
    BY <2>1, <2>2
<1>4. TypeOK'
  BY <1>1, <1>2, <1>3 DEF DInv, TypeOK
<1>5. HeadIsTheFile'
  BY <1>1, <1>2 DEF HeadIsTheFile, Chained
<1>6. AnchoredChain(promised', anchor') /\ promised \in Seq(Entry \cup {Junk})
  BY <1>1 DEF DInv, TypeOK
<1>7. ASSUME anchored' PROVE Begins(promised', file')
  <2>1. CASE how = "anchor"
    <3>1. MatchesAnchor(file')
      BY <1>1, <2>1 DEF Opens
    <3>2. HashesTell(EntriesOf(file') \cup EntriesOf(promised), writes')
      BY <1>1, <1>2, FewerEntries DEF Known
    <3>3. Begins(promised, file')
      BY <1>1, <1>2, <1>6, <3>1, <3>2, MatchingBegins
    <3> QED
      BY <1>1, <3>3
  <2>2. CASE how = "new"
    <3>1. anchor = NoAnchor
      BY <2>2 DEF Claims
    <3>2. Len(promised) = 0
      BY <3>1 DEF DInv, AnchoredChain, NoAnchor
    <3> QED
      BY <1>1, <1>2, <3>2 DEF Begins
  <2> QED
    BY <1>1, <1>7, <2>1, <2>2 DEF Claims
<1>8. TailIsBroken(file', unterminated')
  BY <1>2 DEF TailIsBroken
<1> QED
  BY <1>2, <1>4, <1>5, <1>6, <1>7, <1>8 DEF DInv

LEMMA DRefuse ==
  ASSUME DInv, NEW how, Refuse(how)
  PROVE  DInv'
<1>1. /\ status' = "refused"
      /\ UNCHANGED <<last_hash, count, anchored, anchor, promised, backup,
                     damage, writes, acknowledged>>
  BY DEF Refuse, outside
<1>2. /\ file' \in Seq(Entry \cup {Junk}) /\ unterminated' \in BOOLEAN
      /\ TailIsBroken(file', unterminated')
      /\ HashesTell(Known(file', promised', backup'), writes')
  <2>1. CASE UNCHANGED disk
    BY <1>1, <2>1 DEF DInv, TypeOK, disk
  <2>2. CASE /\ Replayable(file) /\ file' = Healed(file)
             /\ unterminated' = (unterminated /\ ~Torn(file))
    BY <1>1, <2>2, DReplay DEF TailIsBroken
  <2> QED
    BY <2>1, <2>2 DEF Refuse
<1>3. TypeOK'
  BY <1>1, <1>2 DEF DInv, TypeOK
<1>4. AnchoredChain(promised', anchor')
  BY <1>1 DEF DInv
<1> QED
  BY <1>1, <1>2, <1>3, <1>4 DEF DInv, HeadIsTheFile

LEMMA DTakeAnchor ==
  ASSUME DInv, TakeAnchor
  PROVE  DInv'
<1>1. /\ status = "open" /\ promised' = file
      /\ anchor' = [head |-> last_hash, count |-> count]
      /\ UNCHANGED <<file, unterminated, status, last_hash, count, anchored,
                     backup, damage, writes, acknowledged>>
  BY DEF TakeAnchor, disk, memory
<1>2. TypeOK'
  BY <1>1 DEF DInv, TypeOK, Anchor
<1>3. /\ count = Len(file) /\ Verifies(file, Len(file)) /\ count \in Nat
      /\ last_hash = HashBefore(file, count + 1)
  BY <1>1 DEF DInv, HeadIsTheFile, TypeOK
<1>4. AnchoredChain(promised', anchor')
  <2>1. count > 0 => (count + 1) - 1 = count /\ count + 1 # 1
    BY <1>3
  <2> QED
    BY <1>1, <1>3, <2>1 DEF AnchoredChain, HashBefore
<1>5. Begins(promised', file')
  BY <1>1, <1>3 DEF Begins
<1>6. HashesTell(Known(file', promised', backup'), writes')
  BY <1>1, FewerEntries DEF DInv, Known
<1>7. HeadIsTheFile' /\ TailIsBroken(file', unterminated')
  BY <1>1 DEF DInv, HeadIsTheFile
<1> QED
  BY <1>2, <1>4, <1>5, <1>6, <1>7 DEF DInv

LEMMA DCopy ==
  ASSUME DInv, CopyFile
  PROVE  DInv'
<1>1. /\ backup' = file
      /\ UNCHANGED <<file, unterminated, status, last_hash, count, anchored,
                     anchor, promised, damage, writes, acknowledged>>
  BY DEF CopyFile, disk, memory
<1>2. TypeOK'
  BY <1>1 DEF DInv, TypeOK
<1>3. HashesTell(Known(file', promised', backup'), writes')
  BY <1>1, FewerEntries DEF DInv, Known
<1> QED
  BY <1>1, <1>2, <1>3 DEF DInv, HeadIsTheFile

\* What an accident leaves are lines of the file or of its copy.
LEMMA DAccident ==
  ASSUME DInv, NEW f \in Seq(Entry \cup {Junk}), Accident(f),
         EntriesOf(f) \subseteq Known(file, promised, backup)
  PROVE  DInv'
<1>1. /\ status # "open" /\ file' = f /\ unterminated' = FALSE
      /\ damage < MaxDamage /\ damage' = damage + 1
      /\ UNCHANGED <<status, last_hash, count, anchored, anchor, promised,
                     backup, writes, acknowledged>>
  BY DEF Accident, memory
<1>2. TypeOK'
  <2>1. damage' \in 0..MaxDamage
    BY <1>1, AuditAssumption DEF DInv, TypeOK, AuditAssumption
  <2> QED
    BY <1>1, <2>1 DEF DInv, TypeOK
<1>3. HashesTell(Known(file', promised', backup'), writes')
  BY <1>1, FewerEntries DEF DInv, Known
<1>4. AnchoredChain(promised', anchor') /\ TailIsBroken(file', unterminated')
  BY <1>1 DEF DInv, TailIsBroken
<1> QED
  BY <1>1, <1>2, <1>3, <1>4 DEF DInv, HeadIsTheFile

LEMMA DDamage ==
  ASSUME DInv, LoseLines \/ SpoilLine \/ RestoreCopy
  PROVE  DInv'
<1>1. /\ file \in Seq(Entry \cup {Junk}) /\ backup \in Seq(Entry \cup {Junk})
      /\ Len(file) \in Nat /\ DOMAIN file = 1..Len(file)
  BY DEF DInv, TypeOK
<1>2. ASSUME NEW i \in 1..Len(file), NEW j \in 1..Len(file), i <= j,
             Accident(SubSeq(file, 1, i - 1) \o SubSeq(file, j + 1, Len(file)))
      PROVE  DInv'
  <2> DEFINE a == SubSeq(file, 1, i - 1)
             b == SubSeq(file, j + 1, Len(file))
  <2>1. /\ a \in Seq(Entry \cup {Junk}) /\ Len(a) = i - 1
        /\ \A k \in 1..(i - 1) : a[k] = file[k]
    BY <1>1
  <2>2. /\ b \in Seq(Entry \cup {Junk}) /\ Len(b) = Len(file) - j
        /\ \A k \in 1..(Len(file) - j) : b[k] = file[k + j]
    <3> PICK n \in Nat : n = Len(file)
      BY <1>1
    <3> PICK m \in Nat : m = j
      OBVIOUS
    <3> DEFINE d == SubSeq(file, m + 1, n)
    <3>1. m <= n /\ b = d
      OBVIOUS
    <3>2. d \in Seq(Entry \cup {Junk})
      BY <1>1, <3>1
    <3>3. Len(d) = n - m
      BY <1>1, <3>1
    <3>4. \A k \in 1..(n - m) : d[k] = file[k + m]
      BY <1>1, <3>1
    <3> QED
      BY <3>1, <3>2, <3>3, <3>4
  <2> HIDE DEF a, b
  <2>3. /\ a \o b \in Seq(Entry \cup {Junk})
        /\ Len(a \o b) = Len(a) + Len(b)
        /\ \A k \in 1..(Len(a) + Len(b)) :
             (a \o b)[k] = IF k <= Len(a) THEN a[k] ELSE b[k - Len(a)]
    BY <2>1, <2>2, ConcatProperties
  <2>4. \A k \in DOMAIN (a \o b) :
          \E m \in DOMAIN file : (a \o b)[k] = file[m]
    <3> DEFINE c == a \o b
    <3>0. DOMAIN c = 1..(Len(a) + Len(b))
      <4>1. c \in Seq(Entry \cup {Junk}) /\ Len(c) = Len(a) + Len(b)
        BY <2>3
      <4> HIDE DEF c
      <4> QED
        BY <4>1
    <3> SUFFICES ASSUME NEW k \in 1..(Len(a) + Len(b))
                 PROVE  \E m \in 1..Len(file) : (a \o b)[k] = file[m]
      BY <1>1, <3>0
    <3>1. CASE k <= Len(a)
      <4>1. k \in 1..(i - 1) /\ k \in 1..Len(file)
        BY <1>1, <2>1, <2>2, <3>1
      <4> QED
        BY <2>1, <2>3, <3>1, <4>1
    <3>2. CASE ~(k <= Len(a))
      <4>1. /\ k - Len(a) \in 1..(Len(file) - j)
            /\ (k - Len(a)) + j \in 1..Len(file)
        BY <1>1, <2>1, <2>2, <3>2
      <4>2. (a \o b)[k] = file[(k - Len(a)) + j]
        BY <2>2, <2>3, <3>2, <4>1
      <4> QED
        BY <4>1, <4>2
    <3> QED
      BY <3>1, <3>2
  <2>5. EntriesOf(a \o b) \subseteq Known(file, promised, backup)
    BY <2>4 DEF EntriesOf, Known
  <2>6. Accident(a \o b)
    BY <1>2 DEF a, b
  <2> QED
    BY <2>3, <2>5, <2>6, DAccident
<1>3. ASSUME NEW i \in 1..Len(file), Accident([file EXCEPT ![i] = Junk])
      PROVE  DInv'
  <2> DEFINE f == [file EXCEPT ![i] = Junk]
  <2>1. f \in Seq(Entry \cup {Junk}) /\ DOMAIN f = DOMAIN file
        /\ \A k \in DOMAIN file : f[k] = Junk \/ f[k] = file[k]
    BY <1>1
  <2>2. Accident(f)
    BY <1>3
  <2> HIDE DEF f
  <2>3. EntriesOf(f) \subseteq Known(file, promised, backup)
    BY <2>1 DEF EntriesOf, Known
  <2> QED
    BY <2>1, <2>2, <2>3, DAccident
<1>4. CASE RestoreCopy
  <2>1. EntriesOf(backup) \subseteq Known(file, promised, backup)
    BY DEF Known
  <2> QED
    BY <1>1, <1>4, <2>1, DAccident DEF RestoreCopy
<1> QED
  BY <1>2, <1>3, <1>4 DEF LoseLines, SpoilLine

LEMMA DStep ==
  ASSUME DInv, [Next]_vars, CleanFaults
  PROVE  DInv'
<1>1. CASE UNCHANGED vars
  BY <1>1 DEF vars, disk, memory, outside, DInv, TypeOK, HeadIsTheFile
<1>2. ASSUME NEW how \in Claims, Open(how) \/ Refuse(how) PROVE DInv'
  BY <1>2, DOpen, DRefuse
<1> QED
  BY <1>1, <1>2, DAppend, DFailure, DCrash, DTakeAnchor, DCopy, DDamage
     DEF Next

-----------------------------------------------------------------------------
(* The types, whatever the writer leaves behind when it raises or dies.    *)

LEMMA WriteTypes ==
  ASSUME TypeOK, NEW effect \in Effects, Write(effect)
  PROVE  /\ file' \in Seq(Entry \cup {Junk}) /\ unterminated' \in BOOLEAN
         /\ writes' \in 0..MaxWrites /\ NextEntry \in Entry
<1>1. /\ writes \in Nat /\ writes < MaxWrites /\ MaxWrites \in Nat
      /\ writes' = writes + 1
  BY AuditAssumption DEF TypeOK, Write, AuditAssumption
<1>2. NextEntry \in Entry
  BY <1>1 DEF TypeOK, NextEntry, Entry, Hash
<1>3. file' \in Seq(Entry \cup {Junk}) /\ unterminated' \in BOOLEAN
  <2>1. file \in Seq(Entry \cup {Junk}) /\ unterminated \in BOOLEAN
    BY DEF TypeOK
  <2>2. /\ [file EXCEPT ![Len(file)] = Junk] \in Seq(Entry \cup {Junk})
        /\ Append(file, Junk) \in Seq(Entry \cup {Junk})
        /\ Append(file, NextEntry) \in Seq(Entry \cup {Junk})
    <3> DEFINE Line == Entry \cup {Junk}
    <3>1. file \in Seq(Line) /\ Junk \in Line /\ NextEntry \in Line
      BY <1>2, <2>1
    <3> HIDE DEF Line
    <3>2. [file EXCEPT ![Len(file)] = Junk] \in Seq(Line)
      <4> DEFINE g == [file EXCEPT ![Len(file)] = Junk]
      <4>1. Len(file) \in Nat /\ DOMAIN file = 1..Len(file)
        BY <3>1, LenProperties
      <4>2. CASE Len(file) = 0
        <5>1. DOMAIN file = {}
          BY <4>1, <4>2
        <5>2. g = file
          BY <5>1
        <5> QED
          BY <3>1, <5>2
      <4>3. CASE Len(file) # 0
        <5>1. Len(file) \in 1..Len(file)
          BY <4>1, <4>3
        <5> QED
          BY <3>1, <5>1, ExceptSeq
      <4> QED
        BY <4>2, <4>3
    <3>3. Append(file, Junk) \in Seq(Line)
      BY <3>1
    <3>4. Append(file, NextEntry) \in Seq(Line)
      BY <3>1
    <3> QED
      BY <3>2, <3>3, <3>4 DEF Line
  <2>3. UNCHANGED disk \/ unterminated' \in BOOLEAN
    BY DEF Write
  <2>4. \/ UNCHANGED disk
        \/ file' = [file EXCEPT ![Len(file)] = Junk]
        \/ file' = Append(file, Junk)
        \/ file' = Append(file, NextEntry)
    BY DEF Write
  <2> QED
    BY <2>1, <2>2, <2>3, <2>4 DEF disk
<1> QED
  BY <1>1, <1>2, <1>3

LEMMA HealTypes ==
  ASSUME TypeOK, Replayable(file)
  PROVE  /\ Healed(file) \in Seq(Entry \cup {Junk})
         /\ Len(Healed(file)) \in Nat
         /\ HashBefore(Healed(file), Len(Healed(file)) + 1) \in {NoHash} \cup Hash
<1>1. /\ Healed(file) \in Seq(Entry \cup {Junk}) /\ Len(Healed(file)) \in Nat
      /\ Verifies(Healed(file), Len(Healed(file)))
  BY ReplayedIsAChain DEF TypeOK
<1> PICK n \in Nat : n = Len(Healed(file))
  BY <1>1
<1>2. CASE n = 0
  <2>1. HashBefore(Healed(file), n + 1) = NoHash
    BY <1>2 DEF HashBefore
  <2> QED
    BY <1>1, <2>1
<1>3. CASE n # 0
  <2>1. n \in 1..n /\ (n + 1) - 1 = n /\ n + 1 # 1
    BY <1>3
  <2>2. Healed(file)[n] \in Entry
    BY <1>1, <2>1 DEF Verifies, LinksUp
  <2> QED
    BY <1>1, <2>1, <2>2 DEF HashBefore, Entry
<1> QED
  BY <1>1, <1>2, <1>3

LEMMA DamageTypes ==
  ASSUME TypeOK, LoseLines \/ SpoilLine \/ RestoreCopy
  PROVE  TypeOK'
<1>1. file \in Seq(Entry \cup {Junk}) /\ backup \in Seq(Entry \cup {Junk})
  BY DEF TypeOK
<1>2. ASSUME NEW f \in Seq(Entry \cup {Junk}), Accident(f) PROVE TypeOK'
  <2>1. /\ damage < MaxDamage /\ damage' = damage + 1 /\ damage \in Nat
        /\ MaxDamage \in Nat
    BY <1>2, AuditAssumption DEF TypeOK, Accident, AuditAssumption
  <2>2. damage' \in 0..MaxDamage
    BY <2>1
  <2>3. file' \in Seq(Entry \cup {Junk}) /\ unterminated' = FALSE
    BY <1>2 DEF Accident
  <2>4. UNCHANGED <<status, last_hash, count, anchored, anchor, promised,
                    backup, writes, acknowledged>>
    BY <1>2 DEF Accident, memory
  <2> QED
    BY <2>2, <2>3, <2>4 DEF TypeOK
<1>3. ASSUME NEW i \in 1..Len(file), NEW j \in 1..Len(file),
             Accident(SubSeq(file, 1, i - 1) \o SubSeq(file, j + 1, Len(file)))
      PROVE  TypeOK'
  <2>1. /\ SubSeq(file, 1, i - 1) \in Seq(Entry \cup {Junk})
        /\ SubSeq(file, j + 1, Len(file)) \in Seq(Entry \cup {Junk})
    BY <1>1
  <2>2. SubSeq(file, 1, i - 1) \o SubSeq(file, j + 1, Len(file))
          \in Seq(Entry \cup {Junk})
    BY <2>1, ConcatProperties
  <2> QED
    BY <1>2, <1>3, <2>2
<1>4. ASSUME NEW i \in 1..Len(file), Accident([file EXCEPT ![i] = Junk])
      PROVE  TypeOK'
  <2>1. [file EXCEPT ![i] = Junk] \in Seq(Entry \cup {Junk})
    BY <1>1
  <2> QED
    BY <1>2, <1>4, <2>1
<1>5. CASE RestoreCopy
  BY <1>1, <1>2, <1>5 DEF RestoreCopy
<1> QED
  BY <1>3, <1>4, <1>5 DEF LoseLines, SpoilLine

LEMMA TypesKept ==
  ASSUME TypeOK, [Next]_vars
  PROVE  TypeOK'
<1>1. CASE AppendEntry
  <2>1. /\ file' \in Seq(Entry \cup {Junk}) /\ unterminated' \in BOOLEAN
        /\ writes' \in 0..MaxWrites /\ NextEntry \in Entry
    BY <1>1, WriteTypes DEF AppendEntry, Effects
  <2>2. last_hash' \in {NoHash} \cup Hash /\ count' \in Nat
    BY <1>1, <2>1 DEF AppendEntry, Entry, TypeOK
  <2> QED
    BY <1>1, <2>1, <2>2 DEF AppendEntry, outside, TypeOK
<1>2. CASE AppendFails
  <2>1. PICK effect \in Effects : Write(effect)
    BY <1>2, AuditAssumption DEF AppendFails, AuditAssumption
  <2>2. /\ file' \in Seq(Entry \cup {Junk}) /\ unterminated' \in BOOLEAN
        /\ writes' \in 0..MaxWrites
    BY <2>1, WriteTypes
  <2> QED
    BY <1>2, <2>2 DEF AppendFails, HeadStays, outside, TypeOK
<1>3. CASE CrashInAppend
  <2>1. PICK effect \in Effects : Write(effect)
    BY <1>3, AuditAssumption DEF CrashInAppend, AuditAssumption
  <2>2. /\ file' \in Seq(Entry \cup {Junk}) /\ unterminated' \in BOOLEAN
        /\ writes' \in 0..MaxWrites
    BY <2>1, WriteTypes
  <2> QED
    BY <1>3, <2>2 DEF CrashInAppend, Forget, outside, TypeOK
<1>4. CASE Crash
  BY <1>4 DEF Crash, Forget, disk, outside, TypeOK
<1>5. ASSUME NEW how \in Claims, Open(how) PROVE TypeOK'
  <2>1. /\ file' \in Seq(Entry \cup {Junk}) /\ count' \in Nat
        /\ last_hash' \in {NoHash} \cup Hash
    BY <1>5, HealTypes DEF Open, Opens
  <2> QED
    BY <1>5, <2>1 DEF Open, outside, TypeOK
<1>6. ASSUME NEW how \in Claims, Refuse(how) PROVE TypeOK'
  <2>1. file' \in Seq(Entry \cup {Junk}) /\ unterminated' \in BOOLEAN
    BY <1>6, HealTypes DEF Refuse, disk, TypeOK
  <2> QED
    BY <1>6, <2>1 DEF Refuse, outside, TypeOK
<1>7. CASE TakeAnchor \/ CopyFile
  BY <1>7 DEF TakeAnchor, CopyFile, disk, memory, TypeOK, Anchor
<1>8. CASE LoseLines \/ SpoilLine \/ RestoreCopy
  BY <1>8, DamageTypes
<1>9. CASE UNCHANGED vars
  BY <1>9 DEF vars, disk, memory, outside, TypeOK
<1> QED
  BY <1>1, <1>2, <1>3, <1>4, <1>5, <1>6, <1>7, <1>8, <1>9 DEF Next

-----------------------------------------------------------------------------
(* The theorems.                                                           *)

\* As long as no accident befell the file, it holds all it is to hold.
FInv == DInv /\ (damage = 0 => IInv)

LEMMA Invariance ==
  ASSUME CleanFaults
  PROVE  Spec => []FInv
<1>1. Init => FInv
  BY Initially, DInitially DEF FInv
<1>2. ASSUME FInv, [Next]_vars PROVE FInv'
  <2>1. DInv'
    BY <1>2, DStep DEF FInv
  <2>2. ASSUME damage' = 0 PROVE IInv'
    <3>1. damage \in Nat /\ damage' \in {damage, damage + 1}
      <4>1. damage' \in {damage, damage + 1}
        BY <1>2
           DEF Next, AppendEntry, AppendFails, CrashInAppend, Crash, Open,
               Refuse, TakeAnchor, CopyFile, LoseLines, SpoilLine,
               RestoreCopy, Accident, vars, outside
      <4> QED
        BY <1>2, <4>1 DEF FInv, DInv, TypeOK
    <3>2. damage = 0 /\ damage' = damage
      BY <2>2, <3>1
    <3> QED
      BY <1>2, <3>2, InvStep DEF FInv
  <2> QED
    BY <2>1, <2>2 DEF FInv
<1>3. FInv /\ [Next]_vars => FInv'
  BY <1>2
<1> QED
  BY <1>1, <1>3, PTL DEF Spec

\* Every state of the log and its file has the declared type, whatever a
\* failed write or a crash leaves behind.
THEOREM AuditTyping == Spec => []TypeOK
<1>1. Init => TypeOK
  BY Initially DEF IInv
<1>2. TypeOK /\ [Next]_vars => TypeOK'
  BY TypesKept
<1> QED
  BY <1>1, <1>2, PTL DEF Spec

\* An entry whose append returned is in the file for good, unless an accident
\* befell the file.
THEOREM NothingAcknowledgedIsLost ==
  ASSUME CleanFaults
  PROVE  Spec => []AcknowledgedSurvive
<1>1. FInv => AcknowledgedSurvive
  <2> SUFFICES ASSUME FInv, damage = 0, NEW e \in acknowledged
               PROVE e.seq + 1 \in DOMAIN file /\ file[e.seq + 1] = e
    BY DEF AcknowledgedSurvive
  <2>0. IInv
    BY DEF FInv
  <2> PICK n \in Nat : ChainOf(n)
    BY <2>0 DEF IInv
  <2>1. Len(file) >= n /\ DOMAIN file = 1..Len(file) /\ Len(file) \in Nat
    BY <2>0 DEF ChainOf, Ends, IInv, TypeOK
  <2> QED
    BY <2>1 DEF ChainOf, Holds
<1> QED
  BY <1>1, Invariance, PTL

\* An open log continues the chain that is in its file, whatever befell the
\* file while it was closed (audit.py, _replay).
THEOREM TheHeadIsTheFile ==
  ASSUME CleanFaults
  PROVE  Spec => []HeadIsTheFile
<1>1. FInv => HeadIsTheFile
  BY DEF FInv, DInv
<1> QED
  BY <1>1, Invariance, PTL

\* Its own writes, failures and crashes never make a log refuse to open.
THEOREM ItAlwaysReopens ==
  ASSUME CleanFaults
  PROVE  Spec => []Reopens
<1>1. FInv => Reopens
  BY ReplayFinds DEF FInv, IInv, Reopens
<1> QED
  BY <1>1, Invariance, PTL

\* A log that is open under its anchor begins with the very entries that were
\* anchored, though verify_prefix compares one position and one hash, and
\* whatever was lost, spoiled or restored from a copy in between.
THEOREM TheAnchorHolds ==
  ASSUME CleanFaults
  PROVE  Spec => []AnchorHolds
<1>1. FInv => AnchorHolds
  <2> SUFFICES ASSUME FInv, status = "open", anchored
               PROVE  /\ Len(promised) <= Len(file)
                      /\ SubSeq(file, 1, Len(promised)) = promised
    BY DEF AnchorHolds
  <2>1. /\ file \in Seq(Entry \cup {Junk}) /\ promised \in Seq(Entry \cup {Junk})
        /\ Len(promised) <= Len(file)
        /\ \A i \in 1..Len(promised) : file[i] = promised[i]
    BY DEF FInv, DInv, TypeOK, Begins
  <2> PICK n \in Nat : n = Len(promised)
    BY <2>1
  <2>2. /\ SubSeq(file, 1, n) \in Seq(Entry \cup {Junk})
        /\ Len(SubSeq(file, 1, n)) = n
        /\ \A i \in 1..n : SubSeq(file, 1, n)[i] = file[i]
    BY <2>1
  <2>3. SubSeq(file, 1, n) = promised
    BY <2>1, <2>2, SeqEqual
  <2> QED
    BY <2>1, <2>3
<1> QED
  BY <1>1, Invariance, PTL

=============================================================================
