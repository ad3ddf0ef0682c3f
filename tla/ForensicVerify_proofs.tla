------------------------ MODULE ForensicVerify_proofs ------------------------
(***************************************************************************)
(* For every file, of any length, the strings that the scan reports are    *)
(* the maximal printable runs, in order; and for every number of           *)
(* signatures and strings the score follows the verdict.  The inductive    *)
(* invariant says what the scan knows in the middle: current is printable  *)
(* and cannot be made longer to the left, and the runs that end before it  *)
(* have been reported.  What makes the verdict High needs that the windows *)
(* of the source are every position a signature can be at, and that the    *)
(* strings, which it only counts, are as many as the maximal runs.         *)
(***************************************************************************)
EXTENDS ForensicVerify, FiniteSetTheorems, FunctionTheorems, SequenceTheorems, TLAPS

\* The maximal runs that end before position n.
RunsBefore(n) == {r \in MaximalRuns : r[2] < n}

InOrder(s) == \A j, k \in 1..Len(s) : j < k => s[j][2] < s[k][1]

Reported(n) == ToSet(strings) = RunsBefore(n)

ScanInv ==
    pc \in {"measure", "scan"} =>
        /\ PrintableRun(start, read)
        /\ start = 1 \/ data[start - 1] \notin Printable
        /\ Reported(start)
        /\ InOrder(strings)

Before == pc = "measure" => read = 0

IInv == TypeOK /\ ScanInv /\ StringsAreRuns /\ ScoreFollowsVerdict

\* Append adds one element.
LEMMA AppendedElements ==
    ASSUME NEW S, NEW s \in Seq(S), NEW e \in S
    PROVE  ToSet(Append(s, e)) = ToSet(s) \cup {e}
<1> DEFINE t == Append(s, e)
<1>1. /\ DOMAIN s = 1..Len(s) /\ DOMAIN t = 1..(Len(s) + 1)
      /\ Len(s) \in Nat
      /\ \A k \in 1..Len(s) : t[k] = s[k]
      /\ t[Len(s) + 1] = e
  OBVIOUS
<1>2. \A k \in 1..(Len(s) + 1) : k \in 1..Len(s) \/ k = Len(s) + 1
  BY <1>1
<1>3. 1..Len(s) \subseteq 1..(Len(s) + 1) /\ Len(s) + 1 \in 1..(Len(s) + 1)
  BY <1>1
<1> HIDE DEF t
<1>4. ASSUME NEW x \in ToSet(t) PROVE x \in ToSet(s) \cup {e}
  <2>1. PICK k \in DOMAIN t : x = t[k]
    BY DEF ToSet
  <2>2. CASE k \in 1..Len(s)
    BY <1>1, <2>1, <2>2 DEF ToSet
  <2>3. CASE k = Len(s) + 1
    BY <1>1, <2>1, <2>3
  <2> QED
    BY <1>1, <1>2, <2>1, <2>2, <2>3
<1>5. ASSUME NEW x \in ToSet(s) PROVE x \in ToSet(t)
  <2>1. PICK k \in DOMAIN s : x = s[k]
    BY DEF ToSet
  <2>2. k \in DOMAIN t /\ x = t[k]
    BY <1>1, <1>3, <2>1
  <2> QED
    BY <2>2, Zenon DEF ToSet
<1>6. e \in ToSet(t)
  BY <1>1, <1>3, Zenon DEF ToSet
<1> QED
  BY <1>4, <1>5, <1>6 DEF t

\* A string's ends are where it starts and stops, in that order.
LEMMA RunShape ==
    ASSUME TypeOK, NEW r \in MaximalRuns
    PROVE  /\ r[1] \in Nat /\ r[2] \in Nat /\ r[1] >= 1 /\ r[2] <= Len(data)
           /\ r[1] <= r[2]
           /\ r = <<r[1], r[2]>>
  BY MinLenAssumption DEF MaximalRuns, TypeOK

(***************************************************************************)
(* A maximal run that begins before the byte at n + 1, which is no part of *)
(* a run, ends before n or is current.                                     *)
(***************************************************************************)
LEMMA FlushReports ==
    ASSUME TypeOK, PrintableRun(start, read),
           start = 1 \/ data[start - 1] \notin Printable,
           Reported(start), InOrder(strings),
           read = Len(data) \/ data[read + 1] \notin Printable
    PROVE  /\ ToSet(Flushed) = RunsBefore(read + 2)
           /\ InOrder(Flushed)
           /\ Flushed \in Seq(Nat \X Nat)
<1> DEFINE c == <<start, read>>
<1> USE MinLenAssumption DEF TypeOK
<1>1. start \in Nat /\ start >= 1 /\ start <= read + 1 /\ read \in Nat /\ read <= Len(data) /\ Len(data) \in Nat
  OBVIOUS
<1>2. \A r \in RunsBefore(read + 2) : r \in RunsBefore(start) \/ r = c
  <2> SUFFICES ASSUME NEW r \in RunsBefore(read + 2), ~(r[2] < start) PROVE r = c
    BY DEF RunsBefore
  <2>1. r \in MaximalRuns /\ r[2] < read + 2
    BY DEF RunsBefore
  <2>2. /\ r[1] \in Nat /\ r[2] \in Nat /\ r[1] >= 1 /\ r[2] <= Len(data)
        /\ r[1] <= r[2] /\ r = <<r[1], r[2]>>
    BY <2>1, RunShape
  <2>3. \A k \in r[1]..r[2] : data[k] \in Printable
    BY <2>1 DEF MaximalRuns, PrintableRun
  <2>4. r[2] <= read
    <3> SUFFICES ASSUME r[2] = read + 1 PROVE FALSE
      BY <2>1, <2>2, <1>1
    <3>1. data[read + 1] \in Printable
      BY <2>2, <2>3
    <3> QED
      BY <3>1, <2>2, <1>1
  <2>5. r[1] >= start
    <3> SUFFICES ASSUME r[1] < start PROVE FALSE
      BY <2>2, <1>1
    <3>1. start - 1 \in r[1]..r[2]
      BY <2>2, <1>1
    <3> QED
      BY <3>1, <2>3, <2>2, <1>1
  <2>6. r[1] = start
    <3> SUFFICES ASSUME r[1] > start PROVE FALSE
      BY <2>2, <2>5, <1>1
    <3>1. data[r[1] - 1] \notin Printable
      BY <2>1, <2>2, <1>1 DEF MaximalRuns
    <3>2. r[1] - 1 \in start..read
      BY <2>2, <2>4, <1>1
    <3> QED
      BY <3>1, <3>2 DEF PrintableRun
  <2>7. r[2] = read
    <3> SUFFICES ASSUME r[2] < read PROVE FALSE
      BY <2>2, <2>4, <1>1
    <3>1. data[r[2] + 1] \notin Printable
      BY <2>1, <2>2, <1>1 DEF MaximalRuns
    <3>2. r[2] + 1 \in start..read
      BY <2>2, <2>6, <1>1
    <3> QED
      BY <3>1, <3>2 DEF PrintableRun
  <2> QED
    BY <2>2, <2>6, <2>7
<1>3. RunsBefore(start) \subseteq RunsBefore(read + 2)
  <2> SUFFICES ASSUME NEW r \in MaximalRuns, r[2] < start PROVE r[2] < read + 2
    BY DEF RunsBefore
  <2> QED
    BY RunShape, <1>1
<1>4. CASE read - start + 1 >= MinLen
  <2>1. c \in MaximalRuns
    BY <1>1, <1>4 DEF MaximalRuns
  <2>2. c \in RunsBefore(read + 2)
    BY <2>1, <1>1 DEF RunsBefore
  <2>3. RunsBefore(read + 2) = RunsBefore(start) \cup {c}
    BY <1>2, <1>3, <2>2
  <2>4. Flushed = Append(strings, c)
    BY <1>4 DEF Flushed
  <2>5. c \in Nat \X Nat /\ c[1] = start
    BY <1>1
  <2>6. /\ Flushed \in Seq(Nat \X Nat)
        /\ Len(Flushed) = Len(strings) + 1
        /\ Flushed[Len(strings) + 1] = c
        /\ \A k \in 1..Len(strings) : Flushed[k] = strings[k]
        /\ Len(strings) \in Nat
    BY <2>4, <2>5
  <2> HIDE DEF c
  <2>7. ToSet(Flushed) = ToSet(strings) \cup {c}
    <3>1. strings \in Seq(Nat \X Nat) /\ c \in Nat \X Nat
      BY <2>5
    <3>2. ToSet(Append(strings, c)) = ToSet(strings) \cup {c}
      BY <3>1, AppendedElements
    <3> QED
      BY <2>4, <3>2, Zenon
  <2>8. \A k \in 1..Len(strings) : strings[k][2] < start
    <3> DOMAIN strings = 1..Len(strings)
      OBVIOUS
    <3> SUFFICES ASSUME NEW k \in 1..Len(strings) PROVE strings[k][2] < start
      OBVIOUS
    <3>1. strings[k] \in ToSet(strings)
      BY DEF ToSet
    <3> QED
      BY <3>1 DEF Reported, RunsBefore
  <2>9. InOrder(Flushed)
    <3> SUFFICES ASSUME NEW j \in 1..Len(Flushed), NEW k \in 1..Len(Flushed), j < k
                 PROVE  Flushed[j][2] < Flushed[k][1]
      BY DEF InOrder
    <3>1. j \in 1..Len(strings)
      BY <2>6
    <3>2. CASE k = Len(strings) + 1
      BY <3>1, <3>2, <2>5, <2>6, <2>8
    <3>3. CASE k \in 1..Len(strings)
      BY <3>1, <3>3, <2>6 DEF InOrder
    <3>4. PICK n \in Nat : n = Len(strings) /\ Len(Flushed) = n + 1
      BY <2>6
    <3>5. k \in 1..n \/ k = n + 1
      <4>1. k \in 1..(n + 1)
        BY <3>4
      <4> HIDE DEF TypeOK
      <4> QED
        BY <4>1, <3>4
    <3> QED
      BY <3>2, <3>3, <3>4, <3>5
  <2> QED
    BY <2>3, <2>6, <2>7, <2>9 DEF Reported
<1>5. CASE ~(read - start + 1 >= MinLen)
  <2>1. Flushed = strings
    BY <1>5 DEF Flushed
  <2>2. c \notin MaximalRuns
    BY <1>1, <1>5 DEF MaximalRuns
  <2>3. RunsBefore(read + 2) = RunsBefore(start)
    BY <1>2, <1>3, <2>2 DEF RunsBefore
  <2> QED
    BY <2>1, <2>3 DEF Reported
<1> QED
  BY <1>4, <1>5

-----------------------------------------------------------------------------
\* Nothing ends before the first byte.
LEMMA NoRunsBefore == TypeOK => RunsBefore(1) = {}
<1> SUFFICES ASSUME TypeOK, NEW r \in MaximalRuns, r[2] < 1 PROVE FALSE
  BY DEF RunsBefore
<1> QED
  BY RunShape

\* At the end of the file every run ends before the end of the file.
LEMMA AllRunsBefore == TypeOK => RunsBefore(Len(data) + 2) = MaximalRuns
<1> SUFFICES ASSUME TypeOK, NEW r \in MaximalRuns PROVE r[2] < Len(data) + 2
  BY DEF RunsBefore
<1> QED
  BY RunShape DEF TypeOK

THEOREM InitInv == Init => IInv
<1> SUFFICES ASSUME Init PROVE IInv
  OBVIOUS
<1>1. TypeOK
  BY ContentsAssumption DEF Init, TypeOK, Entropy, Score
<1>2. ScanInv
  <2>1. ToSet(strings) = {} /\ InOrder(strings) /\ PrintableRun(start, read)
    BY DEF Init, ToSet, InOrder, PrintableRun
  <2> QED
    BY <2>1, <1>1, NoRunsBefore DEF Init, ScanInv, Reported
<1>3. StringsAreRuns /\ ScoreFollowsVerdict
  BY DEF Init, StringsAreRuns, ScoreFollowsVerdict
<1> QED
  BY <1>1, <1>2, <1>3 DEF IInv

(***************************************************************************)
(* Whatever the numbers of signatures and strings and the entropy, the     *)
(* score lies in the band of the verdict (confidence_to_score).            *)
(***************************************************************************)
LEMMA ScoreInBand ==
    ASSUME NEW v \in Verdict, NEW e \in Entropy, NEW sigs \in Nat, NEW count \in Nat,
           v = classify_confidence(e, sigs, count)
    PROVE  /\ confidence_to_score(v, e, sigs, count) \in Band(v)
           /\ confidence_to_score(v, e, sigs, count) \in Score
<1>1. v \in {"VeryLow", "Low", "Moderate"} => sigs = 0
  BY DEF classify_confidence
<1>2. Least(sigs * 30, 100) \in 0..100 /\ Least(count, 50) \in 0..50
  BY DEF Least
<1>3. sigs = 0 => Least(sigs * 30, 100) = 0
  BY DEF Least
<1>4. Bonus(sigs, count) \in 0..150 /\ (sigs = 0 => Bonus(sigs, count) \in 0..50)
  BY <1>2, <1>3 DEF Bonus
<1>5. entropy_penalty(e) \in {0, 20}
  BY DEF entropy_penalty
<1> QED
  BY <1>1, <1>4, <1>5 DEF confidence_to_score, Band, Base, Least, Verdict, Entropy, Score

THEOREM StepInv == IInv /\ [Next]_vars => IInv'
<1> SUFFICES ASSUME IInv, [Next]_vars PROVE IInv'
  OBVIOUS
<1> USE DEF IInv
<1>1. CASE Measure
  <2>1. TypeOK'
    BY <1>1 DEF Measure, TypeOK, Entropy
  <2>2. UNCHANGED <<data, read, start, strings>> /\ pc = "measure" /\ pc' = "scan"
    BY <1>1 DEF Measure
  <2>3. ScanInv'
    BY <2>2 DEF ScanInv, Reported, RunsBefore, MaximalRuns, PrintableRun, InOrder
  <2> QED
    BY <2>1, <2>2, <2>3 DEF StringsAreRuns, ScoreFollowsVerdict
<1>2. CASE ScanPrintable
  <2>1. TypeOK'
    BY <1>2 DEF ScanPrintable, TypeOK
  <2>2. UNCHANGED <<data, start, strings, pc>> /\ pc = "scan"
    BY <1>2 DEF ScanPrintable
  <2>3. PrintableRun(start, read)'
    BY <1>2, <2>2 DEF ScanPrintable, ScanInv, PrintableRun, TypeOK
  <2>4. ScanInv'
    BY <2>2, <2>3 DEF ScanInv, Reported, RunsBefore, MaximalRuns, PrintableRun, InOrder
  <2> QED
    BY <2>1, <2>2, <2>4 DEF StringsAreRuns, ScoreFollowsVerdict
<1>3. CASE ScanOther
  <2>1. /\ ToSet(Flushed) = RunsBefore(read + 2)
        /\ InOrder(Flushed)
        /\ Flushed \in Seq(Nat \X Nat)
    BY <1>3, FlushReports DEF ScanOther, ScanInv
  <2>2. UNCHANGED <<data, pc>> /\ pc = "scan" /\ strings' = Flushed
        /\ read' = read + 1 /\ start' = read + 2
    BY <1>3 DEF ScanOther
  <2>3. TypeOK'
    BY <1>3, <2>1, <2>2 DEF ScanOther, TypeOK
  <2>4. PrintableRun(start, read)'
    BY <2>2 DEF PrintableRun, TypeOK
  <2>5. data'[start' - 1] \notin Printable
    BY <1>3, <2>2 DEF ScanOther, TypeOK
  <2>6. Reported(start)' /\ InOrder(strings)'
    BY <2>1, <2>2 DEF Reported, RunsBefore, MaximalRuns, PrintableRun, InOrder
  <2> QED
    BY <2>2, <2>3, <2>4, <2>5, <2>6 DEF ScanInv, StringsAreRuns, ScoreFollowsVerdict
<1>4. CASE ScanEnd
  <2>1. /\ ToSet(Flushed) = RunsBefore(read + 2)
        /\ InOrder(Flushed)
        /\ Flushed \in Seq(Nat \X Nat)
    BY <1>4, FlushReports DEF ScanEnd, ScanInv
  <2>2. UNCHANGED <<data, read, start>> /\ pc' = "classify" /\ strings' = Flushed
        /\ read = Len(data)
    BY <1>4 DEF ScanEnd
  <2>3. TypeOK'
    BY <1>4, <2>1 DEF ScanEnd, TypeOK
  <2>4. ToSet(Flushed) = MaximalRuns
    BY <2>1, <2>2, AllRunsBefore
  <2>5. StringsAreRuns'
    BY <2>1, <2>2, <2>4 DEF StringsAreRuns, MaximalRuns, PrintableRun, InOrder
  <2> QED
    BY <2>2, <2>3, <2>5 DEF ScanInv, ScoreFollowsVerdict
<1>5. CASE Classify
  <2>1. Cardinality(hits) \in Nat /\ Len(strings) \in Nat
    <3>1. IsFiniteSet(hits)
      BY MagicAssumption, FS_Subset DEF TypeOK
    <3> QED
      BY <3>1, FS_CardinalityType DEF TypeOK
  <2>2. classify_confidence(entropy, Cardinality(hits), Len(strings)) \in Verdict
    BY <2>1, StringsAssumption DEF classify_confidence, Verdict, TypeOK, Entropy
  <2>3. /\ verdict' \in Verdict
        /\ score' \in Band(verdict') /\ score' \in Score
    <3>1. PICK e \in Entropy, sigs \in Nat, count \in Nat :
            e = entropy /\ sigs = Cardinality(hits) /\ count = Len(strings)
      BY <2>1 DEF TypeOK
    <3>2. PICK v \in Verdict : v = classify_confidence(e, sigs, count)
      BY <2>2, <3>1
    <3>3. /\ confidence_to_score(v, e, sigs, count) \in Band(v)
          /\ confidence_to_score(v, e, sigs, count) \in Score
      BY <3>1, <3>2, ScoreInBand
    <3>4. verdict' = v /\ score' = confidence_to_score(v, e, sigs, count)
      BY <1>5, <3>1, <3>2 DEF Classify
    <3> QED
      BY <3>3, <3>4
  <2>4. UNCHANGED <<data, entropy, hits, read, start, strings>> /\ pc = "classify" /\ pc' = "done"
    BY <1>5 DEF Classify
  <2>5. TypeOK'
    BY <2>3, <2>4 DEF TypeOK
  <2>6. StringsAreRuns'
    BY <2>4 DEF StringsAreRuns, MaximalRuns, PrintableRun
  <2> QED
    BY <2>3, <2>4, <2>5, <2>6 DEF ScanInv, ScoreFollowsVerdict
<1>6. CASE UNCHANGED vars
  BY <1>6 DEF vars, TypeOK, ScanInv, StringsAreRuns, ScoreFollowsVerdict, Reported,
     RunsBefore, MaximalRuns, PrintableRun, InOrder
<1> QED
  BY <1>1, <1>2, <1>3, <1>4, <1>5, <1>6 DEF Next

THEOREM AlwaysInv == Spec => []IInv
  BY InitInv, StepInv, PTL DEF Spec

\* The variables have their types in every reachable state.
THEOREM TypesHold == Spec => []TypeOK
<1>1. IInv => TypeOK
  BY DEF IInv
<1> QED
  BY AlwaysInv, <1>1, PTL

\* The strings reported of any file are its maximal printable runs, in order
\* (extract_ascii_strings).
THEOREM StringsAreComplete == Spec => []StringsAreRuns
<1>1. IInv => StringsAreRuns
  BY DEF IInv
<1> QED
  BY AlwaysInv, <1>1, PTL

\* The score of any file lies in the band of its verdict
\* (confidence_to_score).
THEOREM ScoresAreOrdered == Spec => []ScoreFollowsVerdict
<1>1. IInv => ScoreFollowsVerdict
  BY DEF IInv
<1> QED
  BY AlwaysInv, <1>1, PTL

-----------------------------------------------------------------------------
At(m, k) == k + Len(m) <= Len(data) /\ \A i \in 1..Len(m) : data[k + i] = m[i]

(***************************************************************************)
(* A signature is among the windows exactly when it is somewhere in the    *)
(* data: the last window ends with the data (contains_subsequence).        *)
(***************************************************************************)
LEMMA WindowsAreEverywhere ==
    ASSUME NEW m \in Magic, data \in Seq(Byte)
    PROVE  contains_subsequence(m) <=> \E k \in 0..Len(data) : At(m, k)
<1> DEFINE w(k) == SubSeq(data, k, k + Len(m) - 1)
<1>1. m \in Seq(Byte) /\ m # <<>>
  BY MagicAssumption
<1>2. Len(m) \in Nat /\ Len(m) >= 1 /\ Len(data) \in Nat
  BY <1>1
<1>3. ASSUME NEW k \in 1..(Len(data) - Len(m) + 1)
      PROVE  /\ w(k) \in Seq(Byte) /\ Len(w(k)) = Len(m)
             /\ \A i \in 1..Len(m) : w(k)[i] = data[k - 1 + i]
  <2>1. k \in Int /\ k + Len(m) - 1 \in Int /\ k >= 1 /\ k + Len(m) - 1 <= Len(data)
    BY <1>2
  <2>2. \A i \in k..(k + Len(m) - 1) : data[i] \in Byte
    BY <1>2, <2>1
  <2>3. /\ w(k) \in Seq(Byte)
        /\ Len(w(k)) = IF k <= k + Len(m) - 1 THEN k + Len(m) - 1 - k + 1 ELSE 0
        /\ \A i \in 1..(k + Len(m) - 1 - k + 1) : w(k)[i] = data[k + i - 1]
    <3> HIDE DEF w
    <3>1. PICK n \in Int : n = k + Len(m) - 1
      BY <2>1
    <3> k \in Int
      BY <2>1
    <3>2. \A i \in k..n : data[i] \in Byte
      BY <2>2, <3>1
    <3>3. /\ SubSeq(data, k, n) \in Seq(Byte)
          /\ Len(SubSeq(data, k, n)) = IF k <= n THEN n - k + 1 ELSE 0
          /\ \A i \in 1..(n - k + 1) : SubSeq(data, k, n)[i] = data[k + i - 1]
      BY ONLY k \in Int, n \in Int, <3>2, SubSeqProperties
    <3>4. w(k) = SubSeq(data, k, n)
      BY <3>1 DEF w
    <3> QED
      BY <3>1, <3>3, <3>4
  <2> HIDE DEF w
  <2>4. k + Len(m) - 1 - k + 1 = Len(m) /\ k <= k + Len(m) - 1
    BY <1>2, <2>1
  <2>5. \A i \in 1..Len(m) : k + i - 1 = k - 1 + i
    BY <1>2, <2>1
  <2> QED
    BY <2>3, <2>4, <2>5
<1>4. contains_subsequence(m) <=> \E k \in 1..(Len(data) - Len(m) + 1) : m = w(k)
  BY DEF contains_subsequence, Windows
<1> HIDE DEF w
<1>5. ASSUME contains_subsequence(m) PROVE \E k \in 0..Len(data) : At(m, k)
  <2>1. PICK k \in 1..(Len(data) - Len(m) + 1) : m = w(k)
    BY <1>4, <1>5
  <2>2. k - 1 \in 0..Len(data) /\ k - 1 + Len(m) <= Len(data)
    BY <1>2
  <2>3. \A i \in 1..Len(m) : data[k - 1 + i] = m[i]
    BY <1>3, <2>1
  <2> QED
    BY <2>2, <2>3 DEF At
<1>6. ASSUME NEW k \in 0..Len(data), At(m, k) PROVE contains_subsequence(m)
  <2>1. k + 1 \in 1..(Len(data) - Len(m) + 1) /\ k + 1 - 1 = k
    BY <1>2, <1>6 DEF At
  <2>2. /\ w(k + 1) \in Seq(Byte) /\ Len(w(k + 1)) = Len(m)
        /\ \A i \in 1..Len(m) : w(k + 1)[i] = data[k + 1 - 1 + i]
    BY <1>3, <2>1
  <2>3. \A i \in 1..Len(m) : m[i] = w(k + 1)[i]
    BY <1>6, <2>1, <2>2 DEF At
  <2>4. m = w(k + 1)
    BY <1>1, <2>2, <2>3, SeqEqual
  <2> QED
    BY <1>4, <2>1, <2>4
<1> QED
  BY <1>5, <1>6

(***************************************************************************)
(* The strings are as many as the maximal runs: in order they are all      *)
(* different.                                                              *)
(***************************************************************************)
LEMMA StringsCountRuns ==
    ASSUME TypeOK, ToSet(strings) = MaximalRuns, InOrder(strings)
    PROVE  Cardinality(MaximalRuns) = Len(strings)
<1> DEFINE D == 1..Len(strings)
<1>1. Len(strings) \in Nat /\ DOMAIN strings = D /\ strings \in [D -> Nat \X Nat]
  BY DEF TypeOK
<1>2. \A k \in D : strings[k] \in MaximalRuns
  BY <1>1, Zenon DEF ToSet
<1>3. strings \in [D -> MaximalRuns]
  BY <1>1, <1>2
<1>4. \A r \in MaximalRuns : \E k \in D : strings[k] = r
  BY <1>1, Zenon DEF ToSet
<1>5. ASSUME NEW j \in D, NEW k \in D, j < k PROVE strings[j] # strings[k]
  <2>1. strings[j][2] < strings[k][1]
    BY <1>5 DEF InOrder
  <2>2. strings[k][1] \in Nat /\ strings[k][2] \in Nat /\ strings[k][1] <= strings[k][2]
    BY <1>2, RunShape
  <2> QED
    BY <2>1, <2>2
<1>6. \A j, k \in D : strings[j] = strings[k] => j = k
  <2> SUFFICES ASSUME NEW j \in D, NEW k \in D, j # k PROVE strings[j] # strings[k]
    BY Zenon
  <2>1. j < k \/ k < j
    BY <1>1
  <2> QED
    BY <1>5, <2>1, Zenon
<1>7. strings \in Bijection(D, MaximalRuns)
  BY <1>3, <1>4, <1>6, Fun_IsBij, Zenon
<1>8. ExistsBijection(1..Len(strings), MaximalRuns)
  BY <1>7 DEF ExistsBijection
<1> QED
  BY <1>1, <1>8, FS_CountingElements, Zenon

(***************************************************************************)
(* What the classification rests on: from Measure on the hits are the      *)
(* signatures found in the data, and the verdict is made of these and of   *)
(* the number of strings.                                                  *)
(***************************************************************************)
HitsInv == pc # "measure" => hits = {m \in Magic : contains_subsequence(m)}

HighInv == pc = "done" => (verdict = "High" <=> hits # {} \/ Len(strings) > ManyStrings)

LEMMA ClassifyHigh ==
    ASSUME NEW e \in Entropy, NEW sigs \in Nat, NEW count \in Nat
    PROVE  classify_confidence(e, sigs, count) = "High" <=> sigs # 0 \/ count > ManyStrings
  BY StringsAssumption DEF classify_confidence, Entropy

LEMMA RemnantsStep ==
    IInv /\ HitsInv /\ HighInv /\ [Next]_vars => (HitsInv /\ HighInv)'
<1> SUFFICES ASSUME IInv, HitsInv, HighInv, [Next]_vars PROVE (HitsInv /\ HighInv)'
  OBVIOUS
<1> USE DEF HitsInv, HighInv
<1>1. CASE Measure
  BY <1>1 DEF Measure, contains_subsequence, Windows
<1>2. CASE ScanPrintable
  BY <1>2 DEF ScanPrintable, contains_subsequence, Windows
<1>3. CASE ScanOther
  BY <1>3 DEF ScanOther, contains_subsequence, Windows
<1>4. CASE ScanEnd
  BY <1>4 DEF ScanEnd, contains_subsequence, Windows
<1>5. CASE Classify
  <2>1. IsFiniteSet(hits)
    BY MagicAssumption, FS_Subset DEF IInv, TypeOK
  <2>2. Cardinality(hits) \in Nat /\ (Cardinality(hits) = 0 <=> hits = {})
    BY <2>1, FS_CardinalityType, FS_EmptySet
  <2>3. PICK e \in Entropy, sigs \in Nat, count \in Nat :
          e = entropy /\ sigs = Cardinality(hits) /\ count = Len(strings)
    BY <2>2 DEF IInv, TypeOK
  <2>4. verdict' = classify_confidence(e, sigs, count)
    BY <1>5, <2>3 DEF Classify
  <2>5. verdict' = "High" <=> sigs # 0 \/ count > ManyStrings
    BY <2>4, ClassifyHigh
  <2>6. UNCHANGED <<data, hits, strings>> /\ pc = "classify" /\ pc' = "done"
    BY <1>5 DEF Classify
  <2>7. HitsInv'
    BY <2>6 DEF contains_subsequence, Windows
  <2> QED
    BY <2>2, <2>3, <2>5, <2>6, <2>7
<1>6. CASE UNCHANGED vars
  BY <1>6 DEF vars, contains_subsequence, Windows
<1> QED
  BY <1>1, <1>2, <1>3, <1>4, <1>5, <1>6 DEF Next

LEMMA RemnantsFound == IInv /\ HitsInv /\ HighInv => HighMeansRemnants
<1> SUFFICES ASSUME IInv, HitsInv, HighInv, pc = "done"
             PROVE  verdict = "High" <=>
                       \/ \E m \in Magic, k \in 0..Len(data) : At(m, k)
                       \/ Cardinality(MaximalRuns) > ManyStrings
  BY DEF HighMeansRemnants, At
<1>1. hits # {} <=> \E m \in Magic : contains_subsequence(m)
  BY DEF HitsInv
<1>2. \A m \in Magic : contains_subsequence(m) <=> \E k \in 0..Len(data) : At(m, k)
  BY WindowsAreEverywhere DEF IInv, TypeOK
<1>3. Cardinality(MaximalRuns) = Len(strings)
  BY StringsCountRuns DEF IInv, StringsAreRuns, InOrder
<1> QED
  BY <1>1, <1>2, <1>3 DEF HighInv

\* The verdict on any file is High exactly when a signature is somewhere in
\* it, at its very end too, or its maximal printable runs are many
\* (contains_subsequence, extract_ascii_strings, classify_confidence).
THEOREM HighIsExplained == Spec => []HighMeansRemnants
<1>1. Init => HitsInv /\ HighInv
  BY DEF Init, HitsInv, HighInv
<1> QED
  BY <1>1, AlwaysInv, RemnantsStep, RemnantsFound, PTL DEF Spec
=============================================================================
