-------------------------- MODULE AuditLog_proofs --------------------------
(***************************************************************************)
(* Proofs about AuditLog, for any number of processes, keys, operations    *)
(* and entries.                                                            *)
(***************************************************************************)
EXTENDS AuditLog, SequenceTheorems, TLAPS

\* A tag contains the tag before it, so lines have no set of their own.
IsLines(s) == \E S : s \in Seq(S)

-----------------------------------------------------------------------------
(* Append returns the lines there were, and the new one. *)
LEMMA LinesAppend ==
    \A s, e : IsLines(s) =>
        /\ IsLines(Append(s, e))
        /\ Len(Append(s, e)) = Len(s) + 1
        /\ \A i \in 1..Len(s) : Append(s, e)[i] = s[i]
        /\ Append(s, e)[Len(s) + 1] = e
<1> SUFFICES ASSUME NEW s, NEW e, NEW S, s \in Seq(S)
             PROVE  /\ IsLines(Append(s, e))
                    /\ Len(Append(s, e)) = Len(s) + 1
                    /\ \A i \in 1..Len(s) : Append(s, e)[i] = s[i]
                    /\ Append(s, e)[Len(s) + 1] = e
    BY Zenon DEF IsLines
<1>1. s \in Seq(S \cup {e})
    BY SeqMonotonic
<1>2. QED BY <1>1, AppendProperties DEF IsLines

(* Replacing a line leaves the others.                                     *)
LEMMA LinesExcept ==
    ASSUME NEW s, IsLines(s), NEW k \in 1..Len(s), NEW e
    PROVE  /\ IsLines([s EXCEPT ![k] = e])
           /\ Len([s EXCEPT ![k] = e]) = Len(s)
           /\ \A i \in 1..Len(s) :
                 [s EXCEPT ![k] = e][i] = IF i = k THEN e ELSE s[i]
<1>1. PICK S : s \in Seq(S)
    BY Zenon DEF IsLines
<1>2. s \in Seq(S \cup {e}) /\ e \in S \cup {e}
    BY <1>1, SeqMonotonic
<1>3. /\ [s EXCEPT ![k] = e] \in Seq(S \cup {e})
      /\ Len([s EXCEPT ![k] = e]) = Len(s)
      /\ \A i \in 1..Len(s) :
            [s EXCEPT ![k] = e][i] = IF i = k THEN e ELSE s[i]
    BY <1>2, ExceptSeq
<1>4. QED BY <1>3 DEF IsLines

(* Cutting a file leaves the lines within the cut.                         *)
LEMMA LinesSub ==
    \A s : \A m \in 1..(Len(s) + 1), n \in 0..Len(s) : IsLines(s) =>
        /\ IsLines(SubSeq(s, m, n))
        /\ Len(SubSeq(s, m, n)) = IF m <= n THEN n - m + 1 ELSE 0
        /\ \A i \in 1..(n - m + 1) : SubSeq(s, m, n)[i] = s[m + i - 1]
<1> SUFFICES ASSUME NEW s, NEW S, s \in Seq(S),
                    NEW m \in 1..(Len(s) + 1), NEW n \in 0..Len(s)
             PROVE  /\ IsLines(SubSeq(s, m, n))
                    /\ Len(SubSeq(s, m, n)) = IF m <= n THEN n - m + 1 ELSE 0
                    /\ \A i \in 1..(n - m + 1) : SubSeq(s, m, n)[i] = s[m + i - 1]
    BY Zenon DEF IsLines
<1>1. m \in Int /\ n \in Int /\ \A i \in m..n : s[i] \in S
    BY ElementOfSeq, LenProperties
<1>2. /\ SubSeq(s, m, n) \in Seq(S)
      /\ Len(SubSeq(s, m, n)) = IF m <= n THEN n - m + 1 ELSE 0
      /\ \A i \in 1..(n - m + 1) : SubSeq(s, m, n)[i] = s[m + i - 1]
    BY <1>1, SubSeqProperties
<1>3. QED BY <1>2 DEF IsLines

(* Only the empty file has no lines. *)
LEMMA LinesLength ==
    \A s : IsLines(s) => Len(s) \in Nat /\ (s = <<>> <=> Len(s) = 0)
BY LenProperties, EmptySeq DEF IsLines

-----------------------------------------------------------------------------
(***************************************************************************)
(* Replay and appending (audit/mod.rs:104-167 with 62-98).                 *)
(***************************************************************************)
Signed(lines, k, d) ==
    Entry(Len(lines), d, LastHash(lines), Tag(k, Len(lines), d, LastHash(lines)))

(* A log that replays still does when an entry whose details survive       *)
(* printing is appended with the number and the hash of its end.           *)
LEMMA AcceptsAppend ==
    ASSUME NEW s, IsLines(s), NEW k, Accepts(s, k),
           NEW d, d.entropy # "inexact"
    PROVE  /\ Accepts(Append(s, Signed(s, k, d)), k)
           /\ LastHash(Append(s, Signed(s, k, d)))
                 = Tag(k, Len(s), d, LastHash(s))
<1> DEFINE e == Signed(s, k, d)
           t == Append(s, e)
<1>0. /\ Len(s) \in Nat
      /\ IsLines(t)
      /\ Len(t) = Len(s) + 1
      /\ \A i \in 1..Len(s) : t[i] = s[i]
      /\ t[Len(s) + 1] = e
    BY LinesAppend, LinesLength
<1>1. /\ Len(s) \in Nat
      /\ Len(t) = Len(s) + 1
      /\ \A i \in 1..Len(s) : t[i] = s[i]
      /\ t[Len(s) + 1] = e
      /\ t # <<>>
      /\ s = <<>> <=> Len(s) = 0
  <2> HIDE DEF t
  <2>1. QED BY <1>0, LinesLength
<1>2. /\ e.parses
      /\ e.sequence = Len(s)
      /\ e.details = d
      /\ e.prev_hash = LastHash(s)
      /\ e.entry_hmac = Tag(k, Len(s), d, LastHash(s))
    BY DEF Signed, Entry
<1>3. Reparse(d) = d
    BY DEF Reparse
<1> HIDE DEF t, e
<1>4. LastHash(s) = PrevHash(t, Len(s) + 1)
    BY <1>1 DEF LastHash, PrevHash
<1>5. \A i \in 1..Len(s) : PrevHash(t, i) = PrevHash(s, i)
    BY <1>1 DEF PrevHash
<1>6. \A i \in 1..Len(t) : t[i].parses
    BY <1>1, <1>2 DEF Accepts
<1>7. ASSUME NEW i \in 1..Len(t)
      PROVE  /\ t[i].sequence = i - 1
             /\ t[i].prev_hash = PrevHash(t, i)
             /\ t[i].entry_hmac =
                   Tag(k, t[i].sequence, Reparse(t[i].details), t[i].prev_hash)
  <2>1. CASE i \in 1..Len(s)
      BY <1>1, <1>5, <2>1 DEF Accepts
  <2>2. CASE i = Len(s) + 1
      BY <1>1, <1>2, <1>3, <1>4, <2>2
  <2>3. QED BY <1>1, <2>1, <2>2
<1>8. Accepts(t, k)
    BY <1>6, <1>7 DEF Accepts
<1>9. LastHash(t) = Tag(k, Len(s), d, LastHash(s))
    BY <1>1, <1>2 DEF LastHash
<1>10. QED BY <1>8, <1>9 DEF t, e

(* A log that does not replay does not do so for what is appended to it. *)
LEMMA AcceptsPrefix ==
    ASSUME NEW s, IsLines(s), NEW e, NEW k, Accepts(Append(s, e), k)
    PROVE  Accepts(s, k)
<1> DEFINE t == Append(s, e)
<1>1. /\ Len(s) \in Nat
      /\ Len(t) = Len(s) + 1
      /\ \A i \in 1..Len(s) : t[i] = s[i]
    BY LinesAppend, LinesLength
<1>2. Accepts(t, k)
    OBVIOUS
<1> HIDE DEF t
<1>3. \A i \in 1..Len(s) : PrevHash(t, i) = PrevHash(s, i) /\ i \in 1..Len(t)
    BY <1>1 DEF PrevHash
<1>4. QED BY <1>1, <1>2, <1>3 DEF Accepts

-----------------------------------------------------------------------------
(***************************************************************************)
(* The invariant.                                                          *)
(***************************************************************************)
\* The file is lines, and every process has its memory.
FileInv ==
    /\ IsLines(file)
    /\ IsLines(recorded)
    /\ DOMAIN last_hash = Proc
    /\ DOMAIN pending = Proc

AtLine == {p \in Proc : pc[p] = "line"}

\* Unless processes overlapped, one at a time is between its two writes,
\* and the file is what was recorded and the entry it is writing.
WriterInv ==
    causes \subseteq {"inexact"} =>
        /\ \A p, q \in AtLine : p = q
        /\ unterminated => AtLine # {}
        /\ Len(file) = IF AtLine = {} THEN Len(recorded) ELSE Len(recorded) + 1
        /\ \A i \in 1..Len(recorded) : file[i].details = recorded[i]
        /\ \A p \in AtLine : pending[p].details = file[Len(file)].details

\* What p remembers of the log is true of it.
UpToDate(p) ==
    /\ key[p] \in Key
    /\ Accepts(file, key[p])
    /\ pc[p] = "open" => /\ last_hash[p] = LastHash(file)
                         /\ next_sequence[p] = Len(file)
    /\ pc[p] = "line" => /\ pending[p].tag = LastHash(file)
                         /\ next_sequence[p] + 1 = Len(file)

MemoryInv ==
    causes = {} =>
        /\ Replays
        /\ \A p \in Proc : pc[p] # "closed" => UpToDate(p)

IInv == TypeOK /\ FileInv /\ WriterInv /\ MemoryInv

-----------------------------------------------------------------------------
(* The invariant holds initially: the log is empty. *)
THEOREM InitInv == Init => IInv
<1> SUFFICES ASSUME Init PROVE IInv
    OBVIOUS
<1> USE DEF Init
<1>1. IsLines(<<>>) /\ Len(<<>>) = 0
    BY EmptySeq DEF IsLines
<1>2. TypeOK
    BY <1>1, MaxEntriesAssumption DEF TypeOK
<1>3. FileInv
    BY <1>1 DEF FileInv
<1>4. WriterInv
    BY <1>1 DEF WriterInv, AtLine
<1>5. \A k \in Key : Accepts(file, k)
    BY <1>1 DEF Accepts
<1>6. MemoryInv
    BY <1>5, KeyAssumption DEF MemoryInv, Replays
<1>7. QED BY <1>2, <1>3, <1>4, <1>6 DEF IInv

-----------------------------------------------------------------------------
(* Nothing but history and memory changes when processes end. *)
LEMMA EndTypes ==
    ASSUME TypeOK, FileInv, NEW S, End(S)
    PROVE  /\ (pc \in [Proc -> {"closed", "open", "line"}])'
           /\ (key \in [Proc -> Key \cup {NoKey}])'
           /\ (next_sequence \in [Proc -> Nat])'
           /\ (DOMAIN last_hash = Proc)'
           /\ (DOMAIN pending = Proc)'
BY DEF End, TypeOK, FileInv

(* Opening does not touch the file; what the process remembers is read     *)
(* from it.                                                                *)
LEMMA OpenInv ==
    ASSUME IInv, NEW p \in Proc, NEW k \in Key, Open(p, k)
    PROVE  IInv'
<1> USE DEF IInv, Open
<1>1. Len(file) \in Nat
    BY LinesLength DEF FileInv
<1>2. TypeOK'
    BY <1>1 DEF TypeOK
<1>3. FileInv'
    BY DEF FileInv
<1>4. AtLine' = AtLine
    BY DEF AtLine, TypeOK
<1>5. WriterInv'
    BY <1>4 DEF WriterInv
<1>6. MemoryInv'
    BY DEF MemoryInv, UpToDate, Replays, TypeOK, FileInv
<1>7. QED BY <1>2, <1>3, <1>5, <1>6

(* Whatever is appended to the file, its lines stay, but that the last one *)
(* is spoilt when it was not terminated.                                   *)
LEMMA AppendingLines ==
    ASSUME IsLines(file), unterminated => Len(file) > 0, NEW e
    PROVE  /\ IsLines(Appending(e))
           /\ Len(Appending(e)) \in {Len(file), Len(file) + 1}
           /\ Len(Appending(e)) > 0
           /\ \A i \in 1..Len(Appending(e)) :
                 \/ Appending(e)[i] \in {e, Garbled}
                 \/ i \in 1..Len(file) /\ Appending(e)[i] = file[i]
<1>1. Len(file) \in Nat
    BY LinesLength
<1>2. CASE unterminated
  <2> DEFINE f == [file EXCEPT ![Len(file)] = Garbled]
  <2>1. Appending(e) = f
      BY <1>2 DEF Appending
  <2>2. Len(file) \in 1..Len(file)
      BY <1>1, <1>2
  <2>3. /\ IsLines(f)
        /\ Len(f) = Len(file)
        /\ \A i \in 1..Len(file) : f[i] = IF i = Len(file) THEN Garbled ELSE file[i]
      BY ONLY IsLines(file), <2>2, LinesExcept
  <2> HIDE DEF f
  <2>4. QED BY <1>1, <2>1, <2>2, <2>3
<1>3. CASE ~unterminated
  <2>1. Appending(e) = Append(file, e)
      BY <1>3 DEF Appending
  <2>2. QED BY <1>1, <2>1, LinesAppend
<1>4. QED BY <1>2, <1>3

(* The line of an entry: a process that is alone appends what the file's   *)
(* end calls for; one that is not, or whose last line is open, is a cause. *)
LEMMA RecordLineInv ==
    ASSUME IInv, NEW p \in Proc, NEW d \in Details, d.entropy # "reread",
           RecordLine(p, d)
    PROVE  IInv'
<1> DEFINE tag == Tag(key[p], next_sequence[p], d, last_hash[p])
           e == Entry(next_sequence[p], d, last_hash[p], tag)
<1> USE DEF IInv
<1>1. /\ IsLines(file)
      /\ Len(file) \in Nat
      /\ Len(file) < MaxEntries
      /\ unterminated => Len(file) > 0
      /\ pc[p] = "open"
      /\ file' = Appending(e)
      /\ unterminated' = TRUE
      /\ pc' = [pc EXCEPT ![p] = "line"]
      /\ pending' = [pending EXCEPT ![p] = [details |-> d, tag |-> tag]]
      /\ UNCHANGED <<key, last_hash, next_sequence, recorded>>
    BY LinesLength DEF RecordLine, FileInv, TypeOK
<1>2. /\ causes \subseteq causes' /\ causes' \subseteq Cause
      /\ causes' \subseteq {"inexact"} => \A q \in Proc \ {p} : pc[q] = "closed"
      /\ causes' = {} => causes = {} /\ d.entropy # "inexact"
  <2>1. causes' = causes
              \cup {c \in {"overlap"} : \E q \in Proc \ {p} : pc[q] # "closed"}
              \cup {c \in {"inexact"} : d.entropy = "inexact"}
      BY DEF RecordLine
  <2>2. (\E q \in Proc \ {p} : pc[q] # "closed") => "overlap" \in causes'
      BY <2>1
  <2>3. d.entropy = "inexact" => "inexact" \in causes'
      BY <2>1
  <2>4. causes \subseteq causes' /\ causes' \subseteq Cause
      BY <2>1 DEF TypeOK, Cause
  <2>5. QED BY <2>2, <2>3, <2>4
<1>3. /\ IsLines(file')
      /\ Len(file') \in 1..MaxEntries
      /\ \A i \in 1..Len(file') :
            file'[i] \in {e, Garbled} \/ (i \in 1..Len(file) /\ file'[i] = file[i])
  <2> HIDE DEF e
  <2>1. QED BY <1>1, AppendingLines, MaxEntriesAssumption
<1>4. TypeOK'
  <2>1. Len(file') <= MaxEntries /\ (unterminated => file # <<>>)'
      BY <1>1, <1>3, LinesLength, MaxEntriesAssumption
  <2>2. QED BY <1>1, <1>2, <2>1 DEF TypeOK
<1>5. FileInv'
  <2> HIDE DEF e
  <2>1. IsLines(recorded') /\ DOMAIN last_hash' = Proc /\ DOMAIN pending' = Proc
      BY <1>1 DEF FileInv
  <2>2. QED BY <1>3, <2>1 DEF FileInv
<1>6. WriterInv'
  <2> SUFFICES ASSUME causes' \subseteq {"inexact"}
               PROVE  (/\ \A q, r \in AtLine : q = r
                       /\ unterminated => AtLine # {}
                       /\ Len(file) = IF AtLine = {} THEN Len(recorded)
                                                     ELSE Len(recorded) + 1
                       /\ \A i \in 1..Len(recorded) :
                             file[i].details = recorded[i]
                       /\ \A q \in AtLine :
                             pending[q].details = file[Len(file)].details)'
      BY DEF WriterInv
  <2>1. AtLine = {} /\ AtLine' = {p}
      BY <1>1, <1>2 DEF AtLine, TypeOK
  <2>2. ~unterminated /\ Len(recorded) = Len(file)
          /\ \A i \in 1..Len(recorded) : file[i].details = recorded[i]
      BY <1>2, <2>1 DEF WriterInv
  <2>3. file' = Append(file, e)
      BY <1>1, <2>2 DEF Appending
  <2>4. /\ Len(file') = Len(file) + 1
        /\ \A i \in 1..Len(file) : file'[i] = file[i]
        /\ file'[Len(file) + 1] = e
      BY <1>1, <2>3, LinesAppend
  <2>5. pending'[p].details = d /\ e.details = d
      BY <1>1 DEF FileInv, Entry
  <2> HIDE DEF e
  <2>6. QED BY <1>1, <2>1, <2>2, <2>4, <2>5
<1>7. MemoryInv'
  <2> SUFFICES ASSUME causes' = {}
               PROVE  Replays' /\ \A q \in Proc : (pc[q] # "closed" => UpToDate(q))'
      BY DEF MemoryInv
  <2>1. AtLine = {} /\ ~unterminated /\ \A q \in Proc \ {p} : pc'[q] = "closed"
    <3>1. AtLine = {} /\ \A q \in Proc \ {p} : pc'[q] = "closed"
        BY <1>1, <1>2 DEF AtLine, TypeOK
    <3>2. QED BY <1>2, <3>1 DEF WriterInv
  <2>2. /\ key[p] \in Key
        /\ Accepts(file, key[p])
        /\ last_hash[p] = LastHash(file)
        /\ next_sequence[p] = Len(file)
      BY <1>1, <1>2 DEF MemoryInv, UpToDate
  <2>3. file' = Append(file, Signed(file, key[p], d))
      BY <1>1, <2>1, <2>2 DEF Appending, Signed
  <2>4. Accepts(file', key[p]) /\ LastHash(file') = tag
    <3>1. IsLines(file) /\ Accepts(file, key[p]) /\ d.entropy # "inexact"
        BY <1>1, <1>2, <2>2
    <3> HIDE DEF IInv
    <3>2. /\ Accepts(Append(file, Signed(file, key[p], d)), key[p])
          /\ LastHash(Append(file, Signed(file, key[p], d)))
                = Tag(key[p], Len(file), d, LastHash(file))
        BY <3>1, AcceptsAppend
    <3>3. QED BY <2>2, <2>3, <3>2
  <2>5. Len(file') = Len(file) + 1
      BY <1>1, <2>3, LinesAppend
  <2>6. pc'[p] = "line" /\ pending'[p].tag = tag
      BY <1>1 DEF TypeOK, FileInv
  <2>7. Replays'
      BY <1>1, <2>2, <2>4 DEF Replays
  <2>8. UpToDate(p)'
      BY <1>1, <2>2, <2>4, <2>5, <2>6 DEF UpToDate
  <2>9. QED BY <2>1, <2>7, <2>8
<1>8. QED BY <1>4, <1>5, <1>6, <1>7

(* The newline: the process now remembers the entry it wrote.              *)
LEMMA RecordNewlineInv ==
    ASSUME IInv, NEW p \in Proc, RecordNewline(p)
    PROVE  IInv'
<1> USE DEF IInv
<1>1. /\ pc[p] = "line"
      /\ ~unterminated'
      /\ pc' = [pc EXCEPT ![p] = "open"]
      /\ last_hash' = [last_hash EXCEPT ![p] = pending[p].tag]
      /\ next_sequence' = [next_sequence EXCEPT ![p] = @ + 1]
      /\ recorded' = Append(recorded, pending[p].details)
      /\ pending' = [pending EXCEPT ![p] = NoEntry]
      /\ UNCHANGED <<file, key, causes>>
    BY DEF RecordNewline, HashAdvanced
<1>2. TypeOK'
    BY <1>1 DEF TypeOK
<1>3. /\ IsLines(recorded')
      /\ Len(recorded) \in Nat
      /\ Len(recorded') = Len(recorded) + 1
      /\ \A i \in 1..Len(recorded) : recorded'[i] = recorded[i]
      /\ recorded'[Len(recorded) + 1] = pending[p].details
    BY <1>1, LinesAppend, LinesLength DEF FileInv
<1>4. FileInv'
    BY <1>1, <1>3 DEF FileInv
<1>5. WriterInv'
  <2> SUFFICES ASSUME causes \subseteq {"inexact"}
               PROVE  (/\ \A q, r \in AtLine : q = r
                       /\ Len(file) = IF AtLine = {} THEN Len(recorded)
                                                     ELSE Len(recorded) + 1
                       /\ \A i \in 1..Len(recorded) :
                             file[i].details = recorded[i]
                       /\ \A q \in AtLine :
                             pending[q].details = file[Len(file)].details)'
      BY <1>1 DEF WriterInv
  <2>1. p \in AtLine /\ \A q \in AtLine : q = p
      BY <1>1 DEF AtLine, WriterInv
  <2>2. AtLine' = {}
      BY <1>1, <2>1 DEF AtLine, TypeOK
  <2>3. /\ Len(file) = Len(recorded) + 1
        /\ pending[p].details = file[Len(recorded) + 1].details
        /\ \A i \in 1..Len(recorded) : file[i].details = recorded[i]
      BY <2>1 DEF WriterInv
  <2>4. \A i \in 1..Len(recorded') : file[i].details = recorded'[i]
      BY <1>3, <2>3
  <2>5. QED BY <1>1, <1>3, <2>2, <2>3, <2>4
<1>6. MemoryInv'
    BY <1>1 DEF MemoryInv, UpToDate, Replays, TypeOK, FileInv
<1>7. QED BY <1>2, <1>4, <1>5, <1>6

(* A torn write, a power failure or an alteration is a cause of its own,   *)
(* so only the shape of the file is left to show.                          *)
LEMMA CausedInv ==
    ASSUME IInv, TypeOK', FileInv', ~(causes' \subseteq {"inexact"})
    PROVE  IInv'
BY DEF IInv, WriterInv, MemoryInv

(* A line written in part does not parse, and its process is gone.         *)
LEMMA RecordTornInv ==
    ASSUME IInv, NEW p \in Proc, RecordTorn(p)
    PROVE  IInv'
<1>1. /\ IsLines(file)
      /\ Len(file) \in Nat
      /\ Len(file) < MaxEntries
      /\ unterminated => Len(file) > 0
      /\ file' = Appending(Garbled)
      /\ End({p})
    BY LinesLength DEF RecordTorn, IInv, FileInv, TypeOK
<1>2. /\ IsLines(file')
      /\ Len(file') \in 1..MaxEntries
      /\ \A i \in 1..Len(file') :
            file'[i] = Garbled \/ (i \in 1..Len(file) /\ file'[i] = file[i])
    BY <1>1, AppendingLines, MaxEntriesAssumption
<1>3. file' # <<>> /\ Len(file') <= MaxEntries
    BY <1>2, LinesLength, MaxEntriesAssumption
<1>4. TypeOK'
    BY <1>1, <1>3, EndTypes DEF RecordTorn, IInv, TypeOK, Cause
<1>5. FileInv'
    BY <1>1, <1>2, EndTypes DEF RecordTorn, IInv, FileInv
<1>6. ~(causes' \subseteq {"inexact"})
    BY DEF RecordTorn
<1>7. QED BY <1>4, <1>5, <1>6, CausedInv

(* A command that ends between commands leaves the log as it is; one that  *)
(* ends between the two writes is a cause.                                 *)
LEMMA ExitInv ==
    ASSUME IInv, NEW p \in Proc, Exit(p)
    PROVE  IInv'
<1>1. End({p}) /\ UNCHANGED <<file, unterminated, recorded>>
    BY DEF Exit
<1>2. TypeOK'
    BY <1>1, EndTypes DEF Exit, IInv, TypeOK, Cause
<1>3. FileInv'
    BY <1>1, EndTypes DEF IInv, FileInv
<1>4. CASE pc[p] = "line"
  <2>1. ~(causes' \subseteq {"inexact"})
      BY <1>4 DEF Exit
  <2>2. QED BY <1>2, <1>3, <2>1, CausedInv
<1>5. CASE pc[p] # "line"
  <2>1. UNCHANGED causes
      BY <1>5 DEF Exit
  <2>2. /\ pc' = [q \in Proc |-> IF q = p THEN "closed" ELSE pc[q]]
        /\ \A q \in Proc \ {p} :
              /\ key'[q] = key[q]
              /\ last_hash'[q] = last_hash[q]
              /\ next_sequence'[q] = next_sequence[q]
              /\ pending'[q] = pending[q]
      BY <1>1 DEF End
  <2>3. AtLine' = AtLine /\ p \notin AtLine
      BY <1>5, <2>2 DEF AtLine
  <2>4. \A q \in AtLine : pending'[q] = pending[q]
      BY <2>2, <2>3 DEF AtLine
  <2>5. WriterInv'
      BY <1>1, <2>1, <2>3, <2>4 DEF IInv, WriterInv
  <2>6. MemoryInv'
      BY <1>1, <2>1, <2>2 DEF IInv, MemoryInv, UpToDate, Replays
  <2>7. QED BY <1>2, <1>3, <2>5, <2>6 DEF IInv
<1>6. QED BY <1>4, <1>5

(* After a power failure the file is a prefix of its lines, perhaps with   *)
(* part of the next one.                                                   *)
LEMMA PowerLossInv ==
    ASSUME IInv, PowerLoss
    PROVE  IInv'
<1>1. PICK n \in 0..Len(file) :
        \/ /\ file' = SubSeq(file, 1, n)
           /\ unterminated' => n > 0
        \/ /\ n < Len(file)
           /\ file' = Append(SubSeq(file, 1, n), Garbled)
           /\ unterminated' = TRUE
    BY DEF PowerLoss
<1>2. IsLines(file) /\ Len(file) \in Nat /\ Len(file) <= MaxEntries
    BY LinesLength DEF IInv, FileInv, TypeOK
<1>3. /\ IsLines(SubSeq(file, 1, n))
      /\ Len(SubSeq(file, 1, n)) = n
      /\ \A i \in 1..n : SubSeq(file, 1, n)[i] = file[i]
    BY <1>2, LinesSub
<1>4. /\ IsLines(file')
      /\ Len(file') \in 0..MaxEntries
      /\ unterminated' => Len(file') > 0
      /\ \A i \in 1..Len(file') :
            file'[i] = Garbled \/ (i \in 1..Len(file) /\ file'[i] = file[i])
  <2>1. CASE file' = SubSeq(file, 1, n) /\ (unterminated' => n > 0)
      BY <1>2, <1>3, <2>1, MaxEntriesAssumption
  <2>2. CASE /\ n < Len(file)
             /\ file' = Append(SubSeq(file, 1, n), Garbled)
             /\ unterminated' = TRUE
    <3>1. /\ IsLines(file')
          /\ Len(file') = n + 1
          /\ \A i \in 1..n : file'[i] = SubSeq(file, 1, n)[i]
          /\ file'[n + 1] = Garbled
        BY <1>3, <2>2, LinesAppend
    <3>2. QED BY <1>2, <1>3, <2>2, <3>1, MaxEntriesAssumption
  <2>3. QED BY <1>1, <2>1, <2>2
<1>5. End(Proc) /\ recorded' = recorded /\ causes' = causes \cup {"interrupted"}
    BY DEF PowerLoss
<1>6. (unterminated' => file' # <<>>) /\ Len(file') <= MaxEntries
    BY <1>4, LinesLength, MaxEntriesAssumption
<1>7. TypeOK'
    BY <1>5, <1>6, EndTypes DEF IInv, TypeOK, Cause
<1>8. FileInv'
    BY <1>4, <1>5, EndTypes DEF IInv, FileInv
<1>9. ~(causes' \subseteq {"inexact"})
    BY <1>5
<1>10. QED BY <1>7, <1>8, <1>9, CausedInv

-----------------------------------------------------------------------------
(***************************************************************************)
(* Alteration without the key.                                             *)
(***************************************************************************)
\* A line is nothing that parses, or has a tag that was in the file.
Known(line) == line.parses => line.entry_hmac \in TagsIn(file) \cup {GENESIS_HASH}

(* Whatever is altered, no line has a tag that was not in the file.        *)
LEMMA AlteredLines ==
    ASSUME IsLines(file), Alter
    PROVE  /\ IsLines(file')
           /\ Len(file') <= Len(file) \/ Len(file') <= MaxEntries
           /\ \A m \in 1..Len(file') : Known(file'[m])
<1>0. Len(file) \in Nat
    BY LinesLength
<1>1. \A m \in 1..Len(file) : Known(file[m])
    BY DEF Known, TagsIn
<1>2. PICK S : file \in Seq(S)
    BY Zenon DEF IsLines
<1>3. PICK i \in 1..Len(file), j \in 1..Len(file) :
        \/ /\ file[i].parses
           /\ \E e \in Forged(file[i], TagsIn(file) \cup {GENESIS_HASH}) :
                 file' = [file EXCEPT ![i] = e]
        \/ file' = [file EXCEPT ![i] = Garbled]
        \/ file' = RemoveAt(file, i)
        \/ file' = [file EXCEPT ![i] = file[j]]
        \/ Len(file) < MaxEntries /\ file' = InsertAt(file, i, file[j])
        \/ file' = [file EXCEPT ![i] = file[j], ![j] = file[i]]
    BY DEF Alter
<1> DEFINE Forgeries == Forged(file[i], TagsIn(file) \cup {GENESIS_HASH})
           T == {e \in S \cup {Garbled} \cup Forgeries : Known(e)}
<1>4. Garbled \in T /\ (file[i].parses => Forgeries \subseteq T)
  <2>1. Known(Garbled)
      BY DEF Known, Garbled
  <2>2. ASSUME NEW e \in Forgeries, file[i].parses PROVE Known(e)
    <3>1. file[i].entry_hmac \in TagsIn(file)
        BY <2>2 DEF TagsIn
    <3>2. \E n, d, h : \E t \in TagsIn(file) \cup {GENESIS_HASH} : e = Entry(n, d, h, t)
        BY <3>1 DEF Forged
    <3>3. QED BY <3>2 DEF Known, Entry
  <2>3. QED BY <2>1, <2>2
<1>5. file \in Seq(T)
  <2>1. \A m \in 1..Len(file) : file[m] \in T
      BY <1>1, <1>2, ElementOfSeq
  <2>2. QED BY <1>2, <2>1, SeqDef
<1> HIDE DEF T, Forgeries
<1>6. ASSUME NEW s \in Seq(T), NEW m \in 1..Len(s), NEW e \in T
      PROVE  [s EXCEPT ![m] = e] \in Seq(T) /\ Len([s EXCEPT ![m] = e]) = Len(s)
    BY ExceptSeq
<1>7. \A m \in 1..Len(file) : file[m] \in T
    BY <1>5, ElementOfSeq
<1>8. /\ file' \in Seq(T)
      /\ Len(file') <= Len(file) \/ Len(file') <= MaxEntries
  <2>1. CASE /\ file[i].parses
             /\ \E e \in Forgeries : file' = [file EXCEPT ![i] = e]
      BY <1>0, <1>4, <1>5, <1>6, <2>1
  <2>2. CASE file' = [file EXCEPT ![i] = Garbled]
      BY <1>0, <1>4, <1>5, <1>6, <2>2
  <2>3. CASE file' = RemoveAt(file, i)
    <3> DEFINE a == SubSeq(file, 1, i - 1)
               b == SubSeq(file, i + 1, Len(file))
    <3>1. a \in Seq(T) /\ Len(a) = i - 1
        BY <1>0, <1>7, SubSeqProperties
    <3>2. b \in Seq(T) /\ Len(b) = Len(file) - i
        BY <1>0, <1>7, SubSeqProperties
    <3>3. file' = a \o b
        BY <2>3 DEF RemoveAt
    <3> HIDE DEF a, b
    <3>4. file' \in Seq(T) /\ Len(file') = Len(a) + Len(b)
        BY <3>1, <3>2, <3>3, ConcatProperties
    <3>5. QED BY <1>0, <3>1, <3>2, <3>4
  <2>4. CASE file' = [file EXCEPT ![i] = file[j]]
      BY <1>0, <1>5, <1>6, <1>7, <2>4
  <2>5. CASE Len(file) < MaxEntries /\ file' = InsertAt(file, i, file[j])
    <3> DEFINE a == SubSeq(file, 1, i - 1)
               b == SubSeq(file, i, Len(file))
    <3>1. a \in Seq(T) /\ Len(a) = i - 1
        BY <1>0, <1>7, SubSeqProperties
    <3>2. b \in Seq(T) /\ Len(b) = Len(file) - i + 1
        BY <1>0, <1>7, SubSeqProperties
    <3>3. <<file[j]>> \in Seq(T) /\ Len(<<file[j]>>) = 1
        BY <1>7
    <3>4. file' = (a \o <<file[j]>>) \o b
        BY <2>5 DEF InsertAt
    <3> HIDE DEF a, b
    <3>5. a \o <<file[j]>> \in Seq(T) /\ Len(a \o <<file[j]>>) = i
        BY <1>0, <3>1, <3>3, ConcatProperties
    <3>6. file' \in Seq(T) /\ Len(file') = Len(a \o <<file[j]>>) + Len(b)
        BY <3>2, <3>4, <3>5, ConcatProperties
    <3>7. QED BY <1>0, <2>5, <3>2, <3>5, <3>6, MaxEntriesAssumption
  <2>6. CASE file' = [file EXCEPT ![i] = file[j], ![j] = file[i]]
    <3> DEFINE s == [file EXCEPT ![i] = file[j]]
    <3>1. s \in Seq(T) /\ Len(s) = Len(file)
        BY <1>5, <1>6, <1>7
    <3>2. file' = [s EXCEPT ![j] = file[i]]
        BY <2>6
    <3> HIDE DEF s
    <3>3. QED BY <1>0, <1>6, <1>7, <3>1, <3>2
  <2>7. QED BY <1>3, <2>1, <2>2, <2>3, <2>4, <2>5, <2>6 DEF Forgeries
<1>9. \A m \in 1..Len(file') : Known(file'[m])
  <2>1. \A m \in 1..Len(file') : file'[m] \in T
      BY <1>8, ElementOfSeq
  <2>2. QED BY <2>1 DEF T
<1>10. QED BY <1>8, <1>9 DEF IsLines

(* An alteration is a cause of its own.                                    *)
LEMMA AlterInv ==
    ASSUME IInv, Alter
    PROVE  IInv'
<1>1. IsLines(file) /\ Len(file) \in Nat /\ Len(file) <= MaxEntries
    BY LinesLength DEF IInv, FileInv, TypeOK
<1>2. /\ UNCHANGED <<procVars, recorded>>
      /\ causes' = causes \cup {"altered"}
      /\ unterminated' = (unterminated /\ file' # <<>>)
    BY DEF Alter
<1>3. IsLines(file') /\ Len(file') <= MaxEntries
  <2>1. IsLines(file') /\ (Len(file') <= Len(file) \/ Len(file') <= MaxEntries)
      BY <1>1, AlteredLines
  <2>2. Len(file') \in Nat
      BY <2>1, LinesLength
  <2>3. QED BY <1>1, <2>1, <2>2, MaxEntriesAssumption
<1>4. TypeOK'
    BY <1>2, <1>3 DEF procVars, IInv, TypeOK, Cause
<1>5. FileInv'
    BY <1>2, <1>3 DEF procVars, IInv, FileInv
<1>6. ~(causes' \subseteq {"inexact"})
    BY <1>2
<1>7. QED BY <1>4, <1>5, <1>6, CausedInv

-----------------------------------------------------------------------------
(* The invariant is inductive: every step of the system preserves it. *)
THEOREM StepInv == IInv /\ [Next]_vars => IInv'
<1> SUFFICES ASSUME IInv, [Next]_vars PROVE IInv'
    OBVIOUS
<1>1. ASSUME NEW p \in Proc, Step(p) PROVE IInv'
  <2>1. ASSUME NEW k \in Key, Open(p, k) PROVE IInv'
      BY <2>1, OpenInv
  <2>2. ASSUME NEW d \in Details, d.entropy # "reread", RecordLine(p, d)
        PROVE  IInv'
      BY <2>2, RecordLineInv
  <2>3. CASE RecordNewline(p)
      BY <2>3, RecordNewlineInv
  <2>4. CASE RecordTorn(p)
      BY <2>4, RecordTornInv
  <2>5. CASE Exit(p)
      BY <2>5, ExitInv
  <2>6. QED BY <1>1, <2>1, <2>2, <2>3, <2>4, <2>5 DEF Step
<1>2. CASE PowerLoss
    BY <1>2, PowerLossInv
<1>3. CASE Alter
    BY <1>3, AlterInv
<1>4. CASE UNCHANGED vars
    BY <1>4 DEF vars, procVars, IInv, TypeOK, FileInv, WriterInv, AtLine,
                MemoryInv, UpToDate, Replays
<1>5. QED BY <1>1, <1>2, <1>3, <1>4 DEF Next

(* Every reachable state satisfies the invariant. *)
THEOREM Invariance == Spec => []IInv
<1>1. Init => IInv
    BY InitInv
<1>2. IInv /\ [Next]_vars => IInv'
    BY StepInv
<1>3. QED BY <1>1, <1>2, PTL DEF Spec

(* The variables of AuditLog keep their types, and the log its bound. *)
THEOREM TypeCorrect == Spec => []TypeOK
<1>1. IInv => TypeOK
    BY DEF IInv
<1>2. QED BY <1>1, Invariance, PTL

(* A log that was neither interrupted, nor used by two processes at once,  *)
(* nor given a number that does not survive printing, nor altered, replays *)
(* at every moment, whatever was recorded (audit/mod.rs:42-156).           *)
THEOREM RejectionHasACause == Spec => []RejectionExplained
<1>1. IInv => RejectionExplained
    BY DEF IInv, MemoryInv, RejectionExplained
<1>2. QED BY <1>1, Invariance, PTL

(* Every entry record returned Ok for is in the log, in order and once     *)
(* (audit/mod.rs:62-98).                                                   *)
THEOREM RecordedIsLogged == Spec => []OkMeansLogged
<1>1. ASSUME IInv, causes \subseteq {"inexact"}
      PROVE  /\ \A i \in 1..Len(recorded) : file[i].details = recorded[i]
             /\ \/ Len(file) = Len(recorded)
                \/ /\ Len(file) = Len(recorded) + 1
                   /\ \E p \in Proc :
                         /\ pc[p] = "line"
                         /\ pending[p].details = file[Len(file)].details
    BY <1>1 DEF IInv, WriterInv, AtLine
<1>2. IInv => OkMeansLogged
    BY <1>1 DEF OkMeansLogged
<1>3. QED BY <1>2, Invariance, PTL

-----------------------------------------------------------------------------
(* A tag tells everything that is signed: the number, the text of operation *)
(* and target, the rest of what the entry says, the hash.                  *)
LEMMA TagTells ==
    ASSUME NEW k, NEW m, NEW n, NEW c, NEW d, NEW g, NEW h,
           Tag(k, m, c, g) = Tag(k, n, d, h)
    PROVE  /\ m = n
           /\ Joined(c.op) = Joined(d.op)
           /\ c.data = d.data
           /\ c.entropy = d.entropy
           /\ g = h
BY DEF Tag, SigningBytes

LEMMA TagIsNoGenesis == \A k, n, d, h : Tag(k, n, d, h) # GENESIS_HASH
BY DEF Tag, GENESIS_HASH

(* What a replayed line says: its number is its place, and its tag is that *)
(* of what is read from it.                                                *)
LEMMA AcceptedLine ==
    ASSUME NEW s, NEW k, Accepts(s, k), NEW i \in 1..Len(s)
    PROVE  /\ s[i].parses
           /\ s[i].sequence = i - 1
           /\ s[i].entry_hmac = Tag(k, s[i].sequence, Reparse(s[i].details),
                                    s[i].prev_hash)
BY DEF Accepts

(* A line that replays has a tag that was in the file, and that tag has the *)
(* number of its place: each line stands where it stood, and what it signs *)
(* is what it signed.                                                      *)
LEMMA AlterStep ==
    ASSUME IInv, Alter, NEW k \in Key, Accepts(file, k), Accepts(file', k)
    PROVE  /\ Len(file') <= Len(file)
           /\ \A i \in 1..Len(file') : Says(file'[i]) = Says(file[i])
<1>1. IsLines(file) /\ Len(file) \in Nat
    BY LinesLength DEF IInv, FileInv
<1>2. IsLines(file') /\ Len(file') \in Nat /\ \A i \in 1..Len(file') : Known(file'[i])
    BY <1>1, AlteredLines, LinesLength
<1>3. ASSUME NEW i \in 1..Len(file')
      PROVE  i \in 1..Len(file) /\ Says(file'[i]) = Says(file[i])
  <2>1. /\ file'[i].parses
        /\ file'[i].sequence = i - 1
        /\ file'[i].entry_hmac = Tag(k, file'[i].sequence,
                                     Reparse(file'[i].details), file'[i].prev_hash)
      BY AcceptedLine
  <2>2. file'[i].entry_hmac \in TagsIn(file)
      BY <1>2, <2>1, TagIsNoGenesis DEF Known
  <2>3. PICK j \in 1..Len(file) : file[j].entry_hmac = file'[i].entry_hmac
      BY <2>2 DEF TagsIn
  <2>4. /\ file[j].sequence = j - 1
        /\ file[j].entry_hmac = Tag(k, file[j].sequence, Reparse(file[j].details),
                                    file[j].prev_hash)
      BY AcceptedLine
  <2>5. /\ file'[i].sequence = file[j].sequence
        /\ Joined(Reparse(file'[i].details).op) = Joined(Reparse(file[j].details).op)
        /\ Reparse(file'[i].details).data = Reparse(file[j].details).data
        /\ Reparse(file'[i].details).entropy = Reparse(file[j].details).entropy
        /\ file'[i].prev_hash = file[j].prev_hash
      BY <2>1, <2>3, <2>4, TagTells
  <2>6. i = j
      BY <2>1, <2>4, <2>5
  <2>7. QED BY <2>3, <2>5, <2>6 DEF Says
<1>4. Len(file') <= Len(file)
  <2>1. CASE Len(file') = 0
      BY <1>1, <2>1
  <2>2. CASE Len(file') # 0
    <3>1. Len(file') \in 1..Len(file')
        BY <1>2, <2>2
    <3>2. QED BY <1>1, <1>3, <3>1
  <2>3. QED BY <2>1, <2>2
<1>5. QED BY <1>3, <1>4

(* Whoever alters a log that replays, knowing nothing but the log, is found *)
(* out by the next replay unless they only cut entries off its end or moved *)
(* the bar between an operation and its target (audit/mod.rs:100-183).     *)
THEOREM TamperingIsFound == Spec => TamperEvident
<1>1. IInv /\ [Next]_vars =>
        [Alter => \A k \in Key :
            Accepts(file, k) /\ Accepts(file', k) =>
                /\ Len(file') <= Len(file)
                /\ \A i \in 1..Len(file') : Says(file'[i]) = Says(file[i])]_vars
    BY AlterStep
<1>2. QED BY <1>1, Invariance, PTL DEF Spec, TamperEvident

(* A log that is refused stays refused whatever the program does next: no  *)
(* command repairs it (main.rs:151-153 with audit/mod.rs:62-98).           *)
THEOREM NoRepair == Spec => RejectionIsPermanent
<1>1. ASSUME IInv, NEW e, NEW k \in Key, Accepts(Appending(e), k)
      PROVE  Accepts(file, k)
  <2>1. IsLines(file) /\ Len(file) \in Nat /\ (unterminated => Len(file) > 0)
      BY <1>1, LinesLength DEF IInv, FileInv, TypeOK
  <2>2. CASE unterminated
    <3> DEFINE f == [file EXCEPT ![Len(file)] = Garbled]
    <3>1. IsLines(file) /\ Len(file) \in 1..Len(file)
        BY <2>1, <2>2
    <3>2. /\ Len(f) = Len(file)
          /\ \A i \in 1..Len(file) : f[i] = IF i = Len(file) THEN Garbled ELSE file[i]
        BY ONLY <3>1, LinesExcept
    <3>3. Accepts(f, k)
        BY <1>1, <2>2 DEF Appending
    <3> HIDE DEF f
    <3>4. QED BY <3>1, <3>2, <3>3 DEF Accepts, Garbled
  <2>3. CASE ~unterminated
      BY <1>1, <2>1, <2>3, AcceptsPrefix DEF Appending
  <2>4. QED BY <2>2, <2>3
<1>2. ASSUME IInv, NEW p \in Proc, Step(p), NEW k \in Key, Accepts(file', k)
      PROVE  Accepts(file, k)
  <2>1. file' = file \/ \E e : file' = Appending(e)
      BY <1>2 DEF Step, Open, RecordLine, RecordNewline, RecordTorn, Exit
  <2>2. CASE file' = file
      BY <1>2, <2>2
  <2>3. ASSUME NEW e, file' = Appending(e) PROVE Accepts(file, k)
      BY <1>1, <1>2, <2>3
  <2>4. QED BY <2>1, <2>2, <2>3
<1>3. IInv /\ [Next]_vars =>
        [\A k \in Key : ~Accepts(file, k) /\ Accepts(file', k) =>
                           ~\E p \in Proc : Step(p)]_vars
    BY <1>2
<1>4. QED BY <1>3, Invariance, PTL DEF Spec, RejectionIsPermanent

-----------------------------------------------------------------------------
(***************************************************************************)
(* AuditLog implements Journal.                                            *)
(***************************************************************************)
\* What record keeps in mind between its two writes is an entry's details.
PendingInv == \A p \in Proc : pc[p] = "line" => pending[p].details \in Details

LEMMA PendingStep == IInv /\ PendingInv /\ [Next]_vars => PendingInv'
<1> SUFFICES ASSUME IInv, PendingInv, [Next]_vars PROVE PendingInv'
    OBVIOUS
<1> USE DEF PendingInv
<1>0. DOMAIN pc = Proc /\ DOMAIN pending = Proc
    BY DEF IInv, TypeOK, FileInv
<1>1. ASSUME NEW p \in Proc, NEW k \in Key, Open(p, k) PROVE PendingInv'
    BY <1>0, <1>1 DEF Open
<1>2. ASSUME NEW p \in Proc, NEW d \in Details, RecordLine(p, d)
      PROVE  PendingInv'
  <2>1. /\ pc' = [pc EXCEPT ![p] = "line"]
        /\ \E tag : pending' = [pending EXCEPT ![p] = [details |-> d, tag |-> tag]]
      BY <1>2 DEF RecordLine
  <2>2. QED BY <1>0, <2>1
<1>3. ASSUME NEW p \in Proc, RecordNewline(p) PROVE PendingInv'
    BY <1>0, <1>3 DEF RecordNewline
<1>4. ASSUME NEW S \in SUBSET Proc, End(S) PROVE PendingInv'
    BY <1>0, <1>4 DEF End
<1>5. ASSUME NEW p \in Proc, RecordTorn(p) \/ Exit(p) PROVE PendingInv'
    BY <1>4, <1>5 DEF RecordTorn, Exit
<1>6. CASE PowerLoss
    BY <1>4, <1>6 DEF PowerLoss
<1>7. CASE Alter \/ UNCHANGED vars
    BY <1>7 DEF Alter, vars, procVars
<1>8. QED BY <1>1, <1>2, <1>3, <1>5, <1>6, <1>7 DEF Next, Step

\* While the log is trusted its contents are what was recorded, and behind it
\* the entry of the one process that is between its two writes.
ContentsInv ==
    Trusted =>
        /\ AtLine = {} => Contents = recorded
        /\ \A p \in AtLine : Contents = Append(recorded, pending[p].details)

LEMMA ContentsAre == IInv => ContentsInv
<1> SUFFICES ASSUME IInv, Trusted
             PROVE  /\ AtLine = {} => Contents = recorded
                    /\ \A p \in AtLine :
                          Contents = Append(recorded, pending[p].details)
    BY DEF ContentsInv
<1>1. /\ IsLines(recorded) /\ Len(recorded) \in Nat
      /\ Len(file) = IF AtLine = {} THEN Len(recorded) ELSE Len(recorded) + 1
      /\ \A i \in 1..Len(recorded) : file[i].details = recorded[i]
      /\ \A p \in AtLine : pending[p].details = file[Len(file)].details
      /\ Contents = [i \in 1..Len(file) |-> file[i].details]
    BY LinesLength DEF IInv, FileInv, WriterInv, Trusted, Contents
<1>2. recorded = [i \in 1..Len(recorded) |-> recorded[i]]
  <2>1. PICK S : recorded \in Seq(S)
      BY <1>1, Zenon DEF IsLines
  <2>2. QED BY <2>1
<1>3. CASE AtLine = {}
    BY <1>1, <1>2, <1>3
<1>4. ASSUME NEW p \in AtLine
      PROVE  Contents = Append(recorded, pending[p].details)
  <2> DEFINE a == Append(recorded, pending[p].details)
  <2>1. /\ Len(a) = Len(recorded) + 1 /\ IsLines(a)
        /\ \A i \in 1..Len(recorded) : a[i] = recorded[i]
        /\ a[Len(recorded) + 1] = pending[p].details
      BY <1>1, LinesAppend
  <2> HIDE DEF a
  <2>2. a = [i \in 1..Len(a) |-> a[i]]
    <3>1. PICK S : a \in Seq(S)
        BY <2>1, Zenon DEF IsLines
    <3>2. QED BY <3>1
  <2>3. Len(file) = Len(recorded) + 1 /\ Len(file) \in Nat
      BY <1>1
  <2>4. \A i \in 1..Len(file) : a[i] = file[i].details
      BY <1>1, <2>1, <2>3
  <2>5. a = Contents
      BY <1>1, <2>1, <2>2, <2>3, <2>4
  <2>6. QED BY <2>5 DEF a
<1>5. QED BY <1>1, <1>3, <1>4

LEMMA ContentsStayKnown == IInv' => ContentsInv'
  BY ContentsAre, PTL

(* A longer sequence is another one. *)
LEMMA AppendDiffers == \A s, e : IsLines(s) => Append(s, e) # s
<1> SUFFICES ASSUME NEW s, NEW e, IsLines(s) PROVE Append(s, e) # s
    OBVIOUS
<1>1. Len(s) \in Nat /\ Len(Append(s, e)) = Len(s) + 1
    BY LinesLength, LinesAppend
<1>2. QED BY <1>1

(* A step that brings about a cause of loss is the loss of trust.          *)
LEMMA TrustIsLost ==
    ASSUME Trusted, ~Trusted', recorded' = recorded
    PROVE  J!LoseTrust
  BY DEF J!LoseTrust, Contents, Trusted

(* A step that touches neither file nor history is none of the journal's.  *)
LEMMA JournalKept ==
    ASSUME recorded' = recorded, Trusted' <=> Trusted,
           Trusted => file' = file
    PROVE  UNCHANGED J!vars
  BY DEF J!vars, Contents

(* Every step of AuditLog is a step of Journal or leaves it as it is: the  *)
(* line is its Write, the newline its Acknowledge.                         *)
THEOREM StepRefines == IInv /\ PendingInv /\ [Next]_vars => [J!Next]_(J!vars)
<1> SUFFICES ASSUME IInv, PendingInv, [Next]_vars PROVE [J!Next]_(J!vars)
    OBVIOUS
<1> USE DEF J!Next
<1>0. ContentsInv /\ ContentsInv'
    BY StepInv, ContentsAre, ContentsStayKnown
<1>1. ASSUME NEW p \in Proc, NEW k \in Key, Open(p, k) PROVE UNCHANGED J!vars
    BY <1>1, JournalKept DEF Open, Trusted
<1>2. ASSUME NEW p \in Proc, NEW d \in Details, RecordLine(p, d)
      PROVE  [J!Next]_(J!vars)
  <2>1. /\ causes \subseteq causes' /\ recorded' = recorded
        /\ pc[p] = "open" /\ pc' = [pc EXCEPT ![p] = "line"]
        /\ \E tag : pending' = [pending EXCEPT ![p] = [details |-> d, tag |-> tag]]
        /\ (\E q \in Proc \ {p} : pc[q] # "closed") => "overlap" \in causes'
      BY <1>2 DEF RecordLine
  <2>2. CASE Trusted'
    <3>1. Trusted /\ \A q \in Proc \ {p} : pc[q] = "closed"
        BY <2>1, <2>2 DEF Trusted
    <3>2. AtLine = {} /\ p \in AtLine' /\ pending'[p].details = d
        BY <2>1, <3>1 DEF AtLine, IInv, TypeOK, FileInv
    <3>3. Contents = recorded
        BY <1>0, <3>1, <3>2 DEF ContentsInv
    <3>4. Contents' = Append(recorded', pending'[p].details)
        BY <1>0, <2>2, <3>2 DEF ContentsInv
    <3>5. J!Write
        BY <2>1, <2>2, <3>1, <3>2, <3>3, <3>4 DEF J!Write
    <3>6. QED BY <3>5
  <2>3. CASE ~Trusted' /\ Trusted
      BY <2>1, <2>3, TrustIsLost
  <2>4. CASE ~Trusted' /\ ~Trusted
      BY <2>1, <2>4, JournalKept
  <2>5. QED BY <2>2, <2>3, <2>4
<1>3. ASSUME NEW p \in Proc, RecordNewline(p) PROVE J!Next
  <2>1. /\ p \in AtLine /\ pending[p].details \in Details
        /\ recorded' = Append(recorded, pending[p].details)
        /\ UNCHANGED <<file, causes>>
      BY <1>3 DEF RecordNewline, PendingInv, AtLine
  <2>2. Contents' = Contents /\ (Trusted' <=> Trusted)
      BY <2>1 DEF Contents, Trusted
  <2>3. CASE Trusted
    <3>1. Contents = Append(recorded, pending[p].details)
        BY <1>0, <2>1, <2>3 DEF ContentsInv
    <3>2. Contents # recorded
        BY <3>1, AppendDiffers DEF IInv, FileInv
    <3>3. J!Acknowledge
        BY <2>1, <2>2, <2>3, <3>1, <3>2 DEF J!Acknowledge
    <3>4. QED BY <3>3
  <2>4. CASE ~Trusted
      BY <2>1, <2>2, <2>4 DEF J!AcknowledgeBlindly
  <2>5. QED BY <2>3, <2>4
<1>4. ASSUME recorded' = recorded, causes \subseteq causes',
             Trusted' => Trusted /\ file' = file
      PROVE  [J!Next]_(J!vars)
  <2>1. CASE Trusted /\ ~Trusted'
      BY <1>4, <2>1, TrustIsLost
  <2>2. CASE Trusted /\ Trusted'
      BY <1>4, <2>2, JournalKept
  <2>3. CASE ~Trusted
      BY <1>4, <2>3, JournalKept
  <2>4. QED BY <2>1, <2>2, <2>3
<1>5. ASSUME NEW p \in Proc, RecordTorn(p) \/ Exit(p) PROVE [J!Next]_(J!vars)
    BY <1>4, <1>5 DEF RecordTorn, Exit, Trusted
<1>6. CASE PowerLoss \/ Alter
  <2>1. /\ recorded' = recorded
        /\ causes' \in {causes \cup {"interrupted"}, causes \cup {"altered"}}
      BY <1>6, Zenon DEF PowerLoss, Alter, procVars
  <2>2. causes \subseteq causes' /\ ~Trusted'
      BY <2>1 DEF Trusted
  <2>3. QED BY <1>4, <2>1, <2>2
<1>7. CASE UNCHANGED vars
    BY <1>7, JournalKept DEF vars, Trusted
<1>8. QED BY <1>1, <1>2, <1>3, <1>5, <1>6, <1>7 DEF Next, Step

(* Until trust in it is lost the log behaves as a journal: whatever the    *)
(* processes, an entry is appended alone, acknowledged when it is there,   *)
(* and never changed (audit/mod.rs:62-98).                                 *)
THEOREM Refinement == Spec => ImplementsJournal
<1>1. Init => J!Init /\ PendingInv
    BY EmptySeq DEF Init, J!Init, Contents, Trusted, PendingInv
<1>2. QED BY <1>1, Invariance, PendingStep, StepRefines, PTL
          DEF Spec, ImplementsJournal, J!Spec
=============================================================================
