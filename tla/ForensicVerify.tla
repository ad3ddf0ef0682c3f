--------------------------- MODULE ForensicVerify ---------------------------
(***************************************************************************)
(* The forensic analysis of a file (verify/mod.rs), which the commands     *)
(* verify and recover print: the file is read once, its entropy measured,  *)
(* signatures of file formats and runs of printable characters are looked  *)
(* for, and a verdict with a score is made of the three.                   *)
(*                                                                         *)
(* A printable run is known by its first and last position.  Entropy is a  *)
(* multiple of a tenth of a bit per byte: these lie below, on and above    *)
(* every bound it is compared with.  Contents that are not one byte        *)
(* repeated may have any.  A score is in thousandths.                      *)
(***************************************************************************)
EXTENDS Integers, Sequences, FiniteSets, SequencesExt

CONSTANTS
    Byte,          \* the byte values
    Printable,     \* those from 0x20 to 0x7E
    Magic,         \* MAGIC_SIGNATURES
    MinLen,        \* the shortest run reported (6)
    SomeStrings,   \* more strings than this are a low risk (5)
    ManyStrings,   \* more strings than this are a high risk (50)
    Contents       \* the files

ASSUME ByteAssumption == Printable \subseteq Byte
ASSUME MagicAssumption == IsFiniteSet(Magic) /\ Magic \subseteq Seq(Byte) \ {<<>>}
ASSUME MinLenAssumption == MinLen \in Nat \ {0}
ASSUME StringsAssumption == SomeStrings \in Nat /\ ManyStrings \in Nat /\ SomeStrings < ManyStrings
ASSUME ContentsAssumption == Contents \subseteq Seq(Byte)

VARIABLES
    data,          \* what fs::read returned
    pc,            \* "measure", "scan", "classify" or "done"
    entropy,       \* tenths of a bit per byte
    hits,          \* signature_hits
    read,          \* the bytes extract_ascii_strings has looked at
    start,         \* where current begins: it is data[start..read]
    strings,       \* results
    verdict,       \* recovery_confidence
    score          \* confidence_score

vars == <<data, pc, entropy, hits, read, start, strings, verdict, score>>

Entropy == 0..80

Score == 0..1000

Verdict == {"VeryLow", "Low", "Moderate", "High"}

TypeOK ==
    /\ data \in Seq(Byte)
    /\ pc \in {"measure", "scan", "classify", "done"}
    /\ entropy \in Entropy
    /\ hits \subseteq Magic
    /\ read \in 0..Len(data)
    /\ start \in 1..(read + 1)
    /\ strings \in Seq(Nat \X Nat)
    /\ verdict \in Verdict \cup {"none"}
    /\ score \in Score

Init ==
    /\ data \in Contents
    /\ pc = "measure"
    /\ entropy = 0
    /\ hits = {}
    /\ read = 0
    /\ start = 1
    /\ strings = <<>>
    /\ verdict = "none"
    /\ score = 0

-----------------------------------------------------------------------------
\* One byte repeated, or nothing.
Uniform == \A i, j \in 1..Len(data) : data[i] = data[j]

\* windows() of the signature's length: none when the data are shorter.
WindowsShort(m) == {SubSeq(data, k, k + Len(m) - 1) : k \in 1..(Len(data) - Len(m))} \* mutant

Windows(m) == {SubSeq(data, k, k + Len(m) - 1) : k \in 1..(Len(data) - Len(m) + 1)}

contains_subsequence(m) == m \in Windows(m)

\* shannon_entropy, and the loop over MAGIC_SIGNATURES.
Measure ==
    /\ pc = "measure"
    /\ entropy' \in IF Uniform THEN {0} ELSE Entropy
    /\ hits' = {m \in Magic : contains_subsequence(m)}
    /\ pc' = "scan"
    /\ UNCHANGED <<data, read, start, strings, verdict, score>>

-----------------------------------------------------------------------------
FlushedLong == IF read - start + 1 > MinLen                        \* mutant
               THEN Append(strings, <<start, read>>) ELSE strings

Flushed == IF read - start + 1 >= MinLen
           THEN Append(strings, <<start, read>>) ELSE strings

(***************************************************************************)
(* extract_ascii_strings: a printable byte is pushed to current; another   *)
(* ends it, and so does the end of the data.                               *)
(***************************************************************************)
ScanPrintable ==
    /\ pc = "scan"
    /\ read < Len(data)
    /\ data[read + 1] \in Printable
    /\ read' = read + 1
    /\ UNCHANGED <<data, pc, entropy, hits, start, strings, verdict, score>>

ScanOther ==
    /\ pc = "scan"
    /\ read < Len(data)
    /\ data[read + 1] \notin Printable
    /\ strings' = Flushed
    /\ read' = read + 1
    /\ start' = read + 2
    /\ UNCHANGED <<data, pc, entropy, hits, verdict, score>>

ScanEnd ==
    /\ pc = "scan"
    /\ read = Len(data)
    /\ strings' = Flushed
    /\ pc' = "classify"
    /\ UNCHANGED <<data, entropy, hits, read, start, verdict, score>>

-----------------------------------------------------------------------------
classify_confidence(e, sigs, count) ==
    CASE sigs > 0 \/ count > ManyStrings                  -> "High"
      [] sigs = 0 /\ count <= ManyStrings /\ e < 50 -> "Moderate"
      [] OTHER -> IF count > SomeStrings \/ e < 65 THEN "Low" ELSE "VeryLow"

Least(a, b) == IF a <= b THEN a ELSE b

\* min(0.03 per signature, 0.1) and min(one thousandth per string, 0.05).
Bonus(sigs, count) == Least(sigs * 30, 100) + Least(count, 50)

Base(v) == CASE v = "VeryLow"  -> 20
             [] v = "Low"      -> 150
             [] v = "Moderate" -> 450
             [] v = "High"     -> 850

PenaltyTenfold(e) == IF e > 79 THEN 200 ELSE 0                  \* mutant

entropy_penalty(e) == IF e > 79 THEN 20 ELSE 0

confidence_to_score(v, e, sigs, count) ==
    LET sum == Base(v) + Bonus(sigs, count) - entropy_penalty(e)
    IN  IF sum < 0 THEN 0 ELSE Least(sum, 1000)

Classify ==
    /\ pc = "classify"
    /\ verdict' = classify_confidence(entropy, Cardinality(hits), Len(strings))
    /\ score' = confidence_to_score(verdict', entropy, Cardinality(hits), Len(strings))
    /\ pc' = "done"
    /\ UNCHANGED <<data, entropy, hits, read, start, strings>>

Next == Measure \/ ScanPrintable \/ ScanOther \/ ScanEnd \/ Classify

Spec == Init /\ [][Next]_vars

-----------------------------------------------------------------------------
(***************************************************************************)
(* Properties.                                                             *)
(***************************************************************************)
PrintableRun(a, b) == \A k \in a..b : data[k] \in Printable

\* The printable runs that cannot be made longer and are long enough.
MaximalRuns ==
    {r \in (1..Len(data)) \X (1..Len(data)) :
        /\ r[2] - r[1] + 1 >= MinLen
        /\ PrintableRun(r[1], r[2])
        /\ r[1] = 1 \/ data[r[1] - 1] \notin Printable
        /\ r[2] = Len(data) \/ data[r[2] + 1] \notin Printable}

(***************************************************************************)
(* The strings reported are the maximal printable runs, each once and in   *)
(* order: none is cut at a boundary, lost at the end of the file or joined *)
(* with the next (verify/mod.rs:172-190).                                  *)
(***************************************************************************)
StringsAreRuns ==
    pc \in {"classify", "done"} =>
        /\ ToSet(strings) = MaximalRuns
        /\ \A j, k \in 1..Len(strings) : j < k => strings[j][2] < strings[k][1]

(***************************************************************************)
(* A signature that is anywhere in the file, at its very end too, makes    *)
(* the verdict High, and so do many strings; nothing else does: the        *)
(* verdict depends on the contents, not on how the scan met them           *)
(* (verify/mod.rs:79-125, 161-166).                                        *)
(***************************************************************************)
HighMeansRemnants ==
    pc = "done" =>
        (verdict = "High" <=>
            \/ \E m \in Magic, k \in 0..Len(data) :
                  /\ k + Len(m) <= Len(data)
                  /\ \A i \in 1..Len(m) : data[k + i] = m[i]
            \/ Cardinality(MaximalRuns) > ManyStrings)

(***************************************************************************)
(* The score never contradicts the verdict: whatever the bonuses and the   *)
(* entropy, the scores of a worse verdict lie above those of a better one  *)
(* (verify/mod.rs:129-140).                                                *)
(***************************************************************************)
Band(v) == CASE v = "VeryLow"  -> 0..99
             [] v = "Low"      -> 100..299
             [] v = "Moderate" -> 300..699
             [] v = "High"     -> 700..1000

ScoreFollowsVerdict == pc = "done" => score \in Band(verdict)
=============================================================================
