---------------------------- MODULE Vault_proofs ----------------------------
(***************************************************************************)
(* The safety of the vault for every set of processes and entries and any  *)
(* number of vaults.  The inductive invariant says what no single command  *)
(* checks: until two commands overlap or the power fails, a command that   *)
(* is between its open and its persist holds what the container says, a    *)
(* command that writes the container is alone, and one that extracts holds *)
(* the salt that is on disk, unless its vault is being destroyed.          *)
(***************************************************************************)
EXTENDS Vault, TLAPS

Changing == {"add", "truncate", "write", "destroy", "blobs"}

\* Where salts and ids come from.
Known ==
    /\ \A p \in Proc : pc[p] # "idle" => salt[p] \in 1..salts
    /\ \A p \in Proc : header[p] \subseteq used
    /\ \A c \in versions \cup {container} :
         c.is = "sealed" => c.salt \in 1..salts /\ c.entries \subseteq used
    /\ doomed \subseteq 1..salts
    /\ \A p \in Proc : pc[p] = "blobs" => salt[p] \in doomed
    /\ \A p \in Proc : id[p] # NoId =>
         pc[p] \in {"truncate", "write"} /\ id[p] \in header[p]

Undisturbed == "overlap" \notin causes /\ "power" \notin causes

\* What a command holds in memory agrees with the container.
Coherent ==
    Undisturbed =>
        \A p \in Proc :
            /\ pc[p] \in {"add", "destroy", "blobs"} =>
                  container = Sealed(salt[p], header[p])
            /\ pc[p] = "truncate" =>
                  \/ container = Missing /\ header[p] = {}
                  \/ /\ container.is = "sealed"
                     /\ container.salt = salt[p]
                     /\ container.entries \subseteq header[p]
            /\ pc[p] = "write" =>
                  /\ container = Empty
                  /\ \A q \in Proc \ {p} : pc[q] \in {"idle", "extract"}
            /\ pc[p] = "extract" /\ salt[p] \notin doomed =>
                  /\ container # Missing
                  /\ container.is = "sealed" => container.salt = salt[p]
                  /\ \A q \in Proc : pc[q] = "write" => salt[q] = salt[p]

\* An added entry is in the container, or in the header being written.
AddedIsHeld ==
    causes = {} =>
        \A e \in added :
            \/ e[1] \in doomed
            \/ /\ container.is = "sealed"
               /\ container.salt = e[1]
               /\ e[2] \in container.entries
            \/ \E p \in Proc : /\ pc[p] = "write"
                               /\ salt[p] = e[1]
                               /\ e[2] \in header[p]

\* No container and no command that may write one has a destroyed salt.
SaltIsGone ==
    "overlap" \notin causes =>
        /\ container.is = "sealed" => container.salt \notin destroyed
        /\ \A p \in Proc : pc[p] \in Changing => salt[p] \notin destroyed

IInv == TypeOK /\ Known /\ Coherent /\ ListedHasBlob /\ AddedIsHeld /\ SaltIsGone

-----------------------------------------------------------------------------
\* What can be read off the forms of a container.
LEMMA Forms ==
    /\ Missing.is = "missing" /\ Empty.is = "empty" /\ Garbage.is = "garbage"
    /\ \A s, ids : /\ Sealed(s, ids).is = "sealed"
                   /\ Sealed(s, ids).salt = s
                   /\ Sealed(s, ids).entries = ids
    /\ \A s : Encrypted(s).is = "blob" /\ Encrypted(s).salt = s
  BY DEF Missing, Empty, Garbage, Sealed, Encrypted

\* A container that is sealed has a salt and entries.
LEMMA SealedForm ==
    \A c \in Container : c.is = "sealed" =>
        c.salt \in Salt /\ c.entries \in SUBSET Id /\ c = Sealed(c.salt, c.entries)
  BY Forms DEF Container

\* A step that records no overlap is taken while no other command changes the vault.
LEMMA Alone ==
    ASSUME NEW p \in Proc, causes' = causes \cup Overlap(p), "overlap" \notin causes'
    PROVE  /\ "overlap" \notin causes
           /\ \A q \in Proc \ {p} : pc[q] \in {"idle", "extract"}
  BY DEF Overlap

\* The cause an overlapping step may add.
LEMMA OverlapIsCause == \A p \in Proc : Overlap(p) \subseteq {"overlap"}
  BY DEF Overlap

THEOREM InitInv == Init => IInv
<1> SUFFICES ASSUME Init PROVE IInv
  OBVIOUS
<1> USE DEF Init
<1>1. TypeOK
  BY MaxSaltsAssumption DEF TypeOK, Container, Blob, Salt
<1>2. Known /\ Coherent /\ AddedIsHeld /\ SaltIsGone
  BY Forms DEF Known, Coherent, AddedIsHeld, SaltIsGone, Changing
<1>3. ListedHasBlob
  BY Forms DEF ListedHasBlob, Listed
<1> QED
  BY <1>1, <1>2, <1>3 DEF IInv

-----------------------------------------------------------------------------
\* Types are kept by every step.
LEMMA TypeStep == IInv /\ [Next]_vars => TypeOK'
<1> SUFFICES ASSUME IInv, [Next]_vars PROVE TypeOK'
  OBVIOUS
<1> USE DEF IInv, TypeOK, Cause, memVars, histVars
<1>1. ASSUME NEW p \in Proc, Create(p) PROVE TypeOK'
  BY <1>1, MaxSaltsAssumption DEF Create, GoesTo
<1>2. ASSUME NEW p \in Proc, NEW step \in {"add", "extract", "destroy"}, Open(p, step)
      PROVE  TypeOK'
  <2>1. container.salt \in 0..MaxSalts /\ container.entries \in SUBSET Id
    BY <1>2, SealedForm DEF Open, Salt
  <2> QED
    BY <1>2, <2>1 DEF Open, GoesTo
<1>3. ASSUME NEW p \in Proc, AddBlob(p) PROVE TypeOK'
  <2>1. PICK i \in Id \ used :
           /\ used' = used \cup {i}
           /\ blob' = BlobWritten(p, i)
           /\ id' = [id EXCEPT ![p] = i]
           /\ header' = [header EXCEPT ![p] = EntryInserted(p, i)]
    BY <1>3 DEF AddBlob
  <2>2. salt[p] \in Salt
    BY <1>3 DEF AddBlob, Known, Salt
  <2>3. blob' \in [Id -> Blob]
    BY <2>1, <2>2 DEF BlobWritten, Blob
  <2>4. causes' \in SUBSET Cause
    BY <1>3, OverlapIsCause DEF AddBlob
  <2>5. header' \in [Proc -> SUBSET Id] /\ id' \in [Proc -> Id \cup {NoId}]
        /\ used' \in SUBSET Id
    BY <2>1 DEF EntryInserted
  <2> QED
    BY <1>3, <2>3, <2>4, <2>5 DEF AddBlob, GoesTo
<1>4. ASSUME NEW p \in Proc, AddBlobFails(p) PROVE TypeOK'
  <2>1. blob' \in [Id -> Blob] /\ used' \in SUBSET Id
    BY <1>4 DEF AddBlobFails, Blob
  <2> QED
    BY <1>4, <2>1, MaxSaltsAssumption DEF AddBlobFails, Ends
<1>5. ASSUME NEW p \in Proc, PersistTruncate(p) PROVE TypeOK'
  <2>1. container' \in Container
    BY <1>5 DEF PersistTruncate, Container
  <2>2. causes' \in SUBSET Cause
    BY <1>5, OverlapIsCause DEF PersistTruncate
  <2> QED
    BY <1>5, <2>1, <2>2 DEF PersistTruncate, GoesTo
<1>6. ASSUME NEW p \in Proc, PersistWrite(p) PROVE TypeOK'
  <2>1. salt[p] \in Salt /\ header[p] \in SUBSET Id
    BY <1>6 DEF PersistWrite, Known, Salt
  <2>2. Sealed(salt[p], header[p]) \in Container
    BY <2>1 DEF Container
  <2>3. container' \in Container
    BY <1>6, <2>2 DEF PersistWrite, Spoilt, Container
  <2>4. versions' \subseteq {c \in Container : c.is = "sealed"}
    BY <1>6, <2>2, Forms DEF PersistWrite
  <2>5. added' \in SUBSET (Salt \X Id)
    BY <1>6, <2>1 DEF PersistWrite
  <2>6. causes' \in SUBSET Cause
    BY <1>6, OverlapIsCause DEF PersistWrite
  <2> QED
    BY <1>6, <2>3, <2>4, <2>5, <2>6, MaxSaltsAssumption DEF PersistWrite, Ends
<1>7. ASSUME NEW p \in Proc, PersistFails(p) PROVE TypeOK'
  <2>1. container' \in {container, Garbage}
    BY <1>7 DEF PersistFails, Spoilt
  <2>2. container' \in Container
    BY <2>1 DEF Container
  <2>3. causes' \in SUBSET Cause
    BY <1>7 DEF PersistFails
  <2> QED
    BY <1>7, <2>2, <2>3, MaxSaltsAssumption DEF PersistFails, Ends
<1>8. ASSUME NEW p \in Proc, Extract(p) \/ DestroyFails(p) \/ Kill(p) PROVE TypeOK'
  <2>1. causes' \in SUBSET Cause
    BY <1>8 DEF Extract, DestroyFails, Kill
  <2> QED
    BY <1>8, <2>1, MaxSaltsAssumption DEF Extract, DestroyFails, Kill, Ends
<1>9. ASSUME NEW p \in Proc, DestroyBegin(p) PROVE TypeOK'
  <2>1. salt[p] \in Salt
    BY <1>9 DEF DestroyBegin, Known, Salt
  <2> QED
    BY <1>9, <2>1, OverlapIsCause DEF DestroyBegin, GoesTo
<1>10. ASSUME NEW p \in Proc, DestroyBlob(p) PROVE TypeOK'
  <2>1. blob' \in [Id -> Blob]
    BY <1>10 DEF DestroyBlob, Blob
  <2> QED
    BY <1>10, <2>1 DEF DestroyBlob
<1>11. ASSUME NEW p \in Proc, DestroyContainer(p) PROVE TypeOK'
  <2>1. container' \in Container
    BY <1>11 DEF DestroyContainer, ContainerShredded, Spoilt, Container
  <2>2. salt[p] \in doomed
    BY <1>11 DEF DestroyContainer, Known
  <2>4. destroyed' \in SUBSET doomed'
    BY <1>11, <2>2 DEF DestroyContainer
  <2>3. causes' \in SUBSET Cause
    BY <1>11, OverlapIsCause DEF DestroyContainer
  <2> QED
    BY <1>11, <2>1, <2>3, <2>4, MaxSaltsAssumption DEF DestroyContainer, Ends
<1>12. CASE PowerLoss
  <2>1. container' \in Container
    BY <1>12 DEF PowerLoss, Container
  <2> QED
    BY <1>12, <2>1, MaxSaltsAssumption DEF PowerLoss
<1>13. CASE UNCHANGED vars
  BY <1>13 DEF vars
<1> QED
  BY <1>1, <1>2, <1>3, <1>4, <1>5, <1>6, <1>7, <1>8, <1>9, <1>10, <1>11, <1>12,
     <1>13 DEF Next, Step, Refused

\* Salts and ids in use have been generated.
LEMMA KnownStep == IInv /\ [Next]_vars => Known'
<1> SUFFICES ASSUME IInv, [Next]_vars PROVE Known'
  OBVIOUS
<1> USE DEF IInv, TypeOK, Known, memVars, histVars
<1>1. ASSUME NEW p \in Proc, Create(p) PROVE Known'
  BY <1>1 DEF Create, GoesTo
<1>2. ASSUME NEW p \in Proc, NEW step \in {"add", "extract", "destroy"}, Open(p, step)
      PROVE  Known'
  BY <1>2 DEF Open, GoesTo
<1>3. ASSUME NEW p \in Proc, AddBlob(p) PROVE Known'
  BY <1>3 DEF AddBlob, GoesTo, EntryInserted
<1>4. ASSUME NEW p \in Proc, AddBlobFails(p) PROVE Known'
  BY <1>4 DEF AddBlobFails, Ends
<1>5. ASSUME NEW p \in Proc, PersistTruncate(p) PROVE Known'
  BY <1>5, Forms DEF PersistTruncate, GoesTo
<1>6. ASSUME NEW p \in Proc, PersistWrite(p) PROVE Known'
  <2>1. \A c \in (versions \cup {container})' :
           c \in versions \cup {container, Garbage, Sealed(salt[p], header[p])}
    BY <1>6 DEF PersistWrite, Spoilt
  <2>2. salt[p] \in 1..salts /\ header[p] \subseteq used
    BY <1>6 DEF PersistWrite
  <2>3. \A c \in (versions \cup {container})' :
           c.is = "sealed" => c.salt \in 1..salts /\ c.entries \subseteq used
    BY <2>1, <2>2, Forms
  <2> QED
    BY <1>6, <2>3 DEF PersistWrite, Ends
<1>7. ASSUME NEW p \in Proc, PersistFails(p) PROVE Known'
  <2>1. container' \in {container, Garbage}
    BY <1>7 DEF PersistFails, Spoilt
  <2> QED
    BY <1>7, <2>1, Forms DEF PersistFails, Ends
<1>8. ASSUME NEW p \in Proc, Extract(p) \/ DestroyFails(p) \/ Kill(p) PROVE Known'
  BY <1>8 DEF Extract, DestroyFails, Kill, Ends
<1>9. ASSUME NEW p \in Proc, DestroyBegin(p) PROVE Known'
  BY <1>9 DEF DestroyBegin, GoesTo
<1>10. ASSUME NEW p \in Proc, DestroyBlob(p) PROVE Known'
  BY <1>10 DEF DestroyBlob
<1>11. ASSUME NEW p \in Proc, DestroyContainer(p) PROVE Known'
  <2>1. container' \in {container, Missing, Garbage}
    BY <1>11 DEF DestroyContainer, ContainerShredded, Spoilt
  <2> QED
    BY <1>11, <2>1, Forms DEF DestroyContainer, Ends
<1>12. CASE PowerLoss
  <2>1. container' \in {container, Missing, Empty, Garbage} \cup versions
    BY <1>12 DEF PowerLoss
  <2> QED
    BY <1>12, <2>1, Forms DEF PowerLoss
<1>13. CASE UNCHANGED vars
  BY <1>13 DEF vars
<1> QED
  BY <1>1, <1>2, <1>3, <1>4, <1>5, <1>6, <1>7, <1>8, <1>9, <1>10, <1>11, <1>12,
     <1>13 DEF Next, Step, Refused

\* Memory and disk agree until commands overlap or the power fails.
LEMMA CoherentStep == IInv /\ [Next]_vars => Coherent'
<1> SUFFICES ASSUME IInv, [Next]_vars PROVE Coherent'
  OBVIOUS
<1> USE DEF IInv, TypeOK, Known, Coherent, Undisturbed, memVars, histVars
<1>1. ASSUME NEW p \in Proc, Create(p) PROVE Coherent'
  BY <1>1, Forms DEF Create, GoesTo
<1>2. ASSUME NEW p \in Proc, NEW step \in {"add", "extract", "destroy"}, Open(p, step)
      PROVE  Coherent'
  BY <1>2, Forms, SealedForm DEF Open, GoesTo
<1>3. ASSUME NEW p \in Proc, AddBlob(p) PROVE Coherent'
  BY <1>3, Alone, Forms DEF AddBlob, GoesTo, EntryInserted
<1>4. ASSUME NEW p \in Proc, AddBlobFails(p) PROVE Coherent'
  BY <1>4 DEF AddBlobFails, Ends
<1>5. ASSUME NEW p \in Proc, PersistTruncate(p) PROVE Coherent'
  BY <1>5, Alone, Forms DEF PersistTruncate, GoesTo
<1>6. ASSUME NEW p \in Proc, PersistWrite(p) PROVE Coherent'
  BY <1>6, Alone, Forms DEF PersistWrite, Ends
<1>7. ASSUME NEW p \in Proc, PersistFails(p) PROVE Coherent'
  BY <1>7, Forms DEF PersistFails, Ends, Spoilt
<1>8. ASSUME NEW p \in Proc, Extract(p) \/ DestroyFails(p) \/ Kill(p) PROVE Coherent'
  BY <1>8 DEF Extract, DestroyFails, Kill, Ends
<1>9. ASSUME NEW p \in Proc, DestroyBegin(p) PROVE Coherent'
  BY <1>9, Alone DEF DestroyBegin, GoesTo
<1>10. ASSUME NEW p \in Proc, DestroyBlob(p) PROVE Coherent'
  BY <1>10 DEF DestroyBlob
<1>11. ASSUME NEW p \in Proc, DestroyContainer(p) PROVE Coherent'
  BY <1>11, Alone, Forms DEF DestroyContainer, Ends, ContainerShredded, Spoilt
<1>12. CASE PowerLoss
  BY <1>12 DEF PowerLoss
<1>13. CASE UNCHANGED vars
  BY <1>13 DEF vars
<1> QED
  BY <1>1, <1>2, <1>3, <1>4, <1>5, <1>6, <1>7, <1>8, <1>9, <1>10, <1>11, <1>12,
     <1>13 DEF Next, Step, Refused

\* The blob of a listed entry is written first, and shredded last.
LEMMA ListedStep == IInv /\ [Next]_vars => ListedHasBlob'
<1> SUFFICES ASSUME IInv, [Next]_vars PROVE ListedHasBlob'
  OBVIOUS
<1> USE DEF IInv, TypeOK, Known, memVars, histVars, Listed, ListedHasBlob, Extractable
<1>1. ASSUME NEW p \in Proc, Create(p) PROVE ListedHasBlob'
  BY <1>1 DEF Create, GoesTo
<1>2. ASSUME NEW p \in Proc, NEW step \in {"add", "extract", "destroy"}, Open(p, step)
      PROVE  ListedHasBlob'
  BY <1>2 DEF Open, GoesTo
<1>3. ASSUME NEW p \in Proc, AddBlob(p) PROVE ListedHasBlob'
  <2>1. PICK i \in Id \ used :
           /\ blob' = [blob EXCEPT ![i] = Encrypted(salt[p])]
           /\ header' = [header EXCEPT ![p] = header[p] \cup {i}]
    BY <1>3 DEF AddBlob, BlobWritten, EntryInserted
  <2>2. ASSUME NEW s \in Salt, NEW j \in Id, Listed(s, j)'
        PROVE  \/ Listed(s, j) /\ j # i
               \/ s = salt[p] /\ j = i
    <3>1. container' = container /\ salt' = salt
      BY <1>3 DEF AddBlob
    <3>2. pc[p] = "add" /\ pc' = [pc EXCEPT ![p] = "truncate"]
      BY <1>3 DEF AddBlob, GoesTo
    <3>3. \A q \in Proc : q # p => pc'[q] = pc[q] /\ header'[q] = header[q]
      BY <2>1, <3>2
    <3>4. header'[p] = header[p] \cup {i}
      BY <2>1
    <3>5. CASE container.is = "sealed" /\ container.salt = s /\ j \in container.entries
      <4>1. j \in used
        BY <3>5
      <4> QED
        BY <3>5, <4>1
    <3>6. CASE \E q \in Proc : pc'[q] # "idle" /\ salt'[q] = s /\ j \in header'[q]
      <4>1. PICK q \in Proc : pc'[q] # "idle" /\ salt[q] = s /\ j \in header'[q]
        BY <3>1, <3>6
      <4>2. CASE q # p
        BY <3>3, <4>1, <4>2
      <4>3. CASE q = p
        BY <3>2, <3>4, <4>1, <4>3
      <4> QED
        BY <4>2, <4>3
    <3> QED
      BY <2>2, <3>1, <3>5, <3>6
  <2>3. \A j \in Id : blob'[j] = IF j = i THEN Encrypted(salt[p]) ELSE blob[j]
    BY <2>1
  <2>4. doomed' = doomed /\ causes \subseteq causes'
    BY <1>3 DEF AddBlob
  <2> QED
    BY <2>2, <2>3, <2>4
<1>4. ASSUME NEW p \in Proc, AddBlobFails(p) PROVE ListedHasBlob'
  <2>1. \A j \in used : blob'[j] = blob[j]
    BY <1>4 DEF AddBlobFails
  <2>2. \A s \in Salt, j \in Id : Listed(s, j)' => Listed(s, j) /\ j \in used
    BY <1>4 DEF AddBlobFails, Ends
  <2> QED
    BY <1>4, <2>1, <2>2 DEF AddBlobFails
<1>5. ASSUME NEW p \in Proc, PersistTruncate(p) PROVE ListedHasBlob'
  BY <1>5, Forms DEF PersistTruncate, GoesTo
<1>6. ASSUME NEW p \in Proc, PersistWrite(p) PROVE ListedHasBlob'
  <2>1. container' \in {container, Garbage, Sealed(salt[p], header[p])}
    BY <1>6 DEF PersistWrite, Spoilt
  <2>2. \A s \in Salt, j \in Id : Listed(s, j)' => Listed(s, j)
    BY <1>6, <2>1, Forms DEF PersistWrite, Ends
  <2> QED
    BY <1>6, <2>2 DEF PersistWrite
<1>7. ASSUME NEW p \in Proc, PersistFails(p) PROVE ListedHasBlob'
  <2>1. container' \in {container, Garbage}
    BY <1>7 DEF PersistFails, Spoilt
  <2>2. \A s \in Salt, j \in Id : Listed(s, j)' => Listed(s, j)
    BY <1>7, <2>1, Forms DEF PersistFails, Ends
  <2> QED
    BY <1>7, <2>2 DEF PersistFails
<1>8. ASSUME NEW p \in Proc, Extract(p) \/ DestroyFails(p) \/ Kill(p) PROVE ListedHasBlob'
  BY <1>8 DEF Extract, DestroyFails, Kill, Ends
<1>9. ASSUME NEW p \in Proc, DestroyBegin(p) PROVE ListedHasBlob'
  BY <1>9 DEF DestroyBegin, GoesTo
<1>10. ASSUME NEW p \in Proc, DestroyBlob(p) PROVE ListedHasBlob'
  <2>1. salt[p] \in doomed /\ pc[p] = "blobs"
    BY <1>10 DEF DestroyBlob
  <2>2. UNCHANGED <<container, pc, salt, header, doomed, causes>>
    BY <1>10 DEF DestroyBlob
  <2>3. ASSUME Undisturbed, NEW s \in Salt \ doomed, NEW j \in Id PROVE ~Listed(s, j)
    <3>1. container = Sealed(salt[p], header[p])
      BY <2>1, <2>3 DEF Coherent
    <3>2. container.is = "sealed" /\ container.salt = salt[p] /\ s # salt[p]
      BY <2>1, <3>1, Forms
    <3>3. ASSUME NEW q \in Proc, pc[q] # "idle", salt[q] = s PROVE j \notin header[q]
      <4>1. CASE pc[q] \in {"add", "destroy", "blobs"}
        BY <2>3, <3>2, <3>3, <4>1, Forms DEF Coherent
      <4>2. CASE pc[q] = "truncate"
        BY <2>3, <3>2, <3>3, <4>2, Forms DEF Coherent
      <4>3. CASE pc[q] = "write"
        BY <2>3, <3>2, <4>3, Forms DEF Coherent
      <4>4. CASE pc[q] = "extract"
        BY <2>3, <3>2, <3>3, <4>4 DEF Coherent
      <4> QED
        BY <3>3, <4>1, <4>2, <4>3, <4>4
    <3> QED
      BY <3>2, <3>3
  <2> QED
    BY <2>1, <2>2, <2>3 DEF Undisturbed
<1>11. ASSUME NEW p \in Proc, DestroyContainer(p) PROVE ListedHasBlob'
  <2>1. container' \in {container, Missing, Garbage}
    BY <1>11 DEF DestroyContainer, ContainerShredded, Spoilt
  <2>2. \A s \in Salt, j \in Id : Listed(s, j)' => Listed(s, j)
    BY <1>11, <2>1, Forms DEF DestroyContainer, Ends
  <2> QED
    BY <1>11, <2>2 DEF DestroyContainer
<1>12. CASE PowerLoss
  BY <1>12 DEF PowerLoss
<1>13. CASE UNCHANGED vars
  BY <1>13 DEF vars
<1> QED
  BY <1>1, <1>2, <1>3, <1>4, <1>5, <1>6, <1>7, <1>8, <1>9, <1>10, <1>11, <1>12,
     <1>13 DEF Next, Step, Refused

\* Only persist changes the container, and it writes what was there.
LEMMA AddedStep == IInv /\ [Next]_vars => AddedIsHeld'
<1> SUFFICES ASSUME IInv, [Next]_vars, causes' = {} PROVE AddedIsHeld'
  BY DEF AddedIsHeld
<1> USE DEF IInv, TypeOK, Known, memVars, histVars, AddedIsHeld
<1>0. causes = {} /\ Undisturbed
  BY DEF Next, Step, Create, Refused, Open, AddBlob, AddBlobFails, PersistTruncate,
         PersistWrite, PersistFails, Extract, DestroyBegin, DestroyBlob,
         DestroyFails, DestroyContainer, Kill, PowerLoss, vars, Undisturbed
<1>1. ASSUME NEW p \in Proc,
             UNCHANGED <<container, added>>, doomed \subseteq doomed',
             pc[p] # "write",
             \A q \in Proc \ {p} : UNCHANGED <<pc[q], salt[q], header[q]>>
      PROVE  AddedIsHeld'
  <2> SUFFICES ASSUME NEW e \in added, e[1] \notin doomed
               PROVE  \/ /\ container.is = "sealed"
                         /\ container.salt = e[1]
                         /\ e[2] \in container.entries
                      \/ \E q \in Proc : /\ pc'[q] = "write"
                                         /\ salt'[q] = e[1]
                                         /\ e[2] \in header'[q]
    BY <1>1
  <2>1. CASE \E q \in Proc : pc[q] = "write" /\ salt[q] = e[1] /\ e[2] \in header[q]
    BY <1>1, <2>1
  <2> QED
    BY <1>0, <2>1
<1>2. ASSUME NEW p \in Proc, Create(p) PROVE AddedIsHeld'
  BY <1>1, <1>2 DEF Create, GoesTo
<1>3. ASSUME NEW p \in Proc, NEW step \in {"add", "extract", "destroy"}, Open(p, step)
      PROVE  AddedIsHeld'
  BY <1>1, <1>3 DEF Open, GoesTo
<1>4. ASSUME NEW p \in Proc, AddBlob(p) \/ AddBlobFails(p) PROVE AddedIsHeld'
  BY <1>1, <1>4 DEF AddBlob, AddBlobFails, GoesTo, Ends
<1>5. ASSUME NEW p \in Proc, PersistTruncate(p) PROVE AddedIsHeld'
  <2>1. \A q \in Proc \ {p} : pc[q] \in {"idle", "extract"}
    BY <1>5, Alone DEF PersistTruncate
  <2>2. pc'[p] = "write" /\ salt' = salt /\ header' = header /\ added' = added
        /\ doomed' = doomed
    BY <1>5 DEF PersistTruncate, GoesTo
  <2>3. ASSUME NEW e \in added, e[1] \notin doomed
        PROVE  salt[p] = e[1] /\ e[2] \in header[p]
    <3>1. container.is = "sealed" /\ container.salt = e[1] /\ e[2] \in container.entries
      BY <1>0, <1>5, <2>1, <2>3 DEF PersistTruncate
    <3> QED
      BY <1>0, <1>5, <3>1, Forms DEF PersistTruncate, Coherent
  <2> QED
    BY <2>2, <2>3
<1>6. ASSUME NEW p \in Proc, PersistWrite(p) PROVE AddedIsHeld'
  <2>1. \A q \in Proc \ {p} : pc[q] \in {"idle", "extract"}
    BY <1>6, Alone DEF PersistWrite
  <2>2. container = Empty /\ pc[p] = "write"
    BY <1>0, <1>6 DEF PersistWrite, Coherent
  <2>3. container' = Sealed(salt[p], header[p]) /\ doomed' = doomed
    BY <1>0, <1>6 DEF PersistWrite
  <2>4. ASSUME NEW e \in added', e[1] \notin doomed
        PROVE  salt[p] = e[1] /\ e[2] \in header[p]
    BY <1>0, <1>6, <2>1, <2>2, <2>4, Forms DEF PersistWrite
  <2> QED
    BY <2>3, <2>4, Forms
<1>7. ASSUME NEW p \in Proc, PersistFails(p) \/ Kill(p) PROVE AddedIsHeld'
  <2>1. pc[p] # "write" /\ UNCHANGED <<container, added, doomed>>
    BY <1>7 DEF PersistFails, Kill
  <2> QED
    BY <1>1, <1>7, <2>1 DEF PersistFails, Kill, Ends
<1>8. ASSUME NEW p \in Proc, Extract(p) \/ DestroyFails(p) PROVE AddedIsHeld'
  BY <1>1, <1>8 DEF Extract, DestroyFails, Ends
<1>9. ASSUME NEW p \in Proc, DestroyBegin(p) \/ DestroyBlob(p) PROVE AddedIsHeld'
  BY <1>1, <1>9 DEF DestroyBegin, DestroyBlob, GoesTo
<1>10. ASSUME NEW p \in Proc, DestroyContainer(p) PROVE AddedIsHeld'
  <2>1. \A q \in Proc \ {p} : pc[q] \in {"idle", "extract"}
    BY <1>10, Alone DEF DestroyContainer
  <2>2. container = Sealed(salt[p], header[p]) /\ salt[p] \in doomed /\ pc[p] = "blobs"
    BY <1>0, <1>10 DEF DestroyContainer, Coherent
  <2>3. \A e \in added : e[1] \in doomed
    BY <1>0, <2>1, <2>2, Forms
  <2> QED
    BY <1>10, <2>3 DEF DestroyContainer
<1>11. CASE PowerLoss
  BY <1>11 DEF PowerLoss
<1>12. CASE UNCHANGED vars
  BY <1>0, <1>12 DEF vars
<1> QED
  BY <1>2, <1>3, <1>4, <1>5, <1>6, <1>7, <1>8, <1>9, <1>10, <1>11, <1>12
     DEF Next, Step, Refused, vars

\* A destroyed salt does not come back.
LEMMA SaltStep == IInv /\ [Next]_vars => SaltIsGone'
<1> SUFFICES ASSUME IInv, [Next]_vars, "overlap" \notin causes' PROVE SaltIsGone'
  BY DEF SaltIsGone
<1> USE DEF IInv, TypeOK, Known, memVars, histVars, SaltIsGone, Changing
<1>0. "overlap" \notin causes
  BY DEF Next, Step, Create, Refused, Open, AddBlob, AddBlobFails, PersistTruncate,
         PersistWrite, PersistFails, Extract, DestroyBegin, DestroyBlob,
         DestroyFails, DestroyContainer, Kill, PowerLoss, vars
<1>1. ASSUME NEW p \in Proc, Create(p) PROVE SaltIsGone'
  <2>1. salts' \notin destroyed
    BY <1>1 DEF Create
  <2> QED
    BY <1>0, <1>1, <2>1 DEF Create, GoesTo
<1>2. ASSUME NEW p \in Proc, NEW step \in {"add", "extract", "destroy"}, Open(p, step)
      PROVE  SaltIsGone'
  BY <1>0, <1>2 DEF Open, GoesTo
<1>3. ASSUME NEW p \in Proc, AddBlob(p) \/ AddBlobFails(p) PROVE SaltIsGone'
  BY <1>0, <1>3 DEF AddBlob, AddBlobFails, GoesTo, Ends
<1>4. ASSUME NEW p \in Proc, PersistTruncate(p) PROVE SaltIsGone'
  BY <1>0, <1>4, Forms DEF PersistTruncate, GoesTo
<1>5. ASSUME NEW p \in Proc, PersistWrite(p) PROVE SaltIsGone'
  BY <1>0, <1>5, Forms DEF PersistWrite, Ends
<1>6. ASSUME NEW p \in Proc, PersistFails(p) PROVE SaltIsGone'
  <2>1. container' \in {container, Garbage}
    BY <1>6 DEF PersistFails, Spoilt
  <2> QED
    BY <1>0, <1>6, <2>1, Forms DEF PersistFails, Ends
<1>7. ASSUME NEW p \in Proc, Extract(p) \/ DestroyFails(p) \/ Kill(p) PROVE SaltIsGone'
  BY <1>0, <1>7 DEF Extract, DestroyFails, Kill, Ends
<1>8. ASSUME NEW p \in Proc, DestroyBegin(p) \/ DestroyBlob(p) PROVE SaltIsGone'
  BY <1>0, <1>8 DEF DestroyBegin, DestroyBlob, GoesTo
<1>9. ASSUME NEW p \in Proc, DestroyContainer(p) PROVE SaltIsGone'
  <2>1. \A q \in Proc : pc'[q] \in {"idle", "extract"}
    BY <1>9, Alone DEF DestroyContainer, Ends
  <2>2. \/ container' = Missing
        \/ container' \in {container, Garbage} /\ destroyed' = destroyed
    BY <1>9 DEF DestroyContainer, ContainerShredded, Spoilt
  <2> QED
    BY <1>0, <2>1, <2>2, Forms
<1>10. CASE PowerLoss
  BY <1>0, <1>10, Forms DEF PowerLoss
<1>11. CASE UNCHANGED vars
  BY <1>0, <1>11 DEF vars
<1> QED
  BY <1>1, <1>2, <1>3, <1>4, <1>5, <1>6, <1>7, <1>8, <1>9, <1>10, <1>11
     DEF Next, Step, Refused, vars

-----------------------------------------------------------------------------
THEOREM StepInv == IInv /\ [Next]_vars => IInv'
  BY TypeStep, KnownStep, CoherentStep, ListedStep, AddedStep, SaltStep DEF IInv

THEOREM AlwaysInv == Spec => []IInv
  BY InitInv, StepInv, PTL DEF Spec

(***************************************************************************)
(* Type correctness of the vault (vault/mod.rs:47-226).                    *)
(***************************************************************************)
THEOREM TypesHold == Spec => []TypeOK
  BY AlwaysInv, PTL DEF IInv

(***************************************************************************)
(* What a header lists can be extracted (vault/mod.rs:112-151).            *)
(***************************************************************************)
THEOREM ListedIsExtractable == Spec => []ListedHasBlob
  BY AlwaysInv, PTL DEF IInv

(***************************************************************************)
(* An added entry stays in a readable vault, unless something is on record *)
(* that may have lost it (vault/mod.rs:94-143).                            *)
(***************************************************************************)
THEOREM AddedStaysListed == Spec => []AddedIsListed
<1>1. IInv => AddedIsListed
  <2> SUFFICES ASSUME IInv, causes = {}, NEW e \in added, e[1] \notin doomed
               PROVE  /\ Listed(e[1], e[2])
                      /\ container.is = "sealed" \/ \E p \in Proc : pc[p] = "write"
    BY DEF AddedIsListed
  <2> QED
    BY DEF IInv, AddedIsHeld, Listed
<1> QED
  BY AlwaysInv, <1>1, PTL

(***************************************************************************)
(* A destroyed vault's salt is gone for good (vault/mod.rs:194-226).       *)
(***************************************************************************)
THEOREM DestroyedStaysUnreadable == Spec => []DestroyedIsUnreadable
<1>1. IInv => DestroyedIsUnreadable
  BY DEF IInv, SaltIsGone, Changing, DestroyedIsUnreadable
<1> QED
  BY AlwaysInv, <1>1, PTL
=============================================================================
