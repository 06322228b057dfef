------------------------- MODULE RaftMatchingProofs -------------------------
(***************************************************************************)
(* What log matching (raft_paper.md, property 3) rests on: a record of the  *)
(* votes and a family of sequences of entries, and how each step keeps      *)
(* them, given that majorities meet (Quorums).                              *)
(***************************************************************************)
EXTENDS RaftProofs

(* The entries a log stands for, from the first one on. *)

full(rl) == entriesTo(rl, lastIdx(rl))

\* The dummy of a log carries the term of the entry it stands for.
logOK(rl) ==
  /\ rl.tailLog[1].Term = rl.snapLastTerm
  /\ rl.snapLastIdx > 0 => rl.snapshot[rl.snapLastIdx].Term = rl.snapLastTerm

\* The entries of a log: those of the snapshot, then those of the tail after its dummy.
LEMMA FullLog ==
  ASSUME NEW rl \in Log
  PROVE  /\ full(rl) \in Seq(Entry)
         /\ Len(full(rl)) = lastIdx(rl)
         /\ \A k \in 1..lastIdx(rl) :
              /\ full(rl)[k] = entryAt(rl, k)
              /\ k <= rl.snapLastIdx => full(rl)[k] = rl.snapshot[k]
              /\ k > rl.snapLastIdx => full(rl)[k] = rl.tailLog[k - rl.snapLastIdx + 1]
<1>1. lastIdx(rl) \in Nat /\ lastIdx(rl) <= lastIdx(rl) /\ rl.snapLastIdx \in Nat
  BY LogEnds
<1>2. full(rl) \in Seq(Entry) /\ Len(full(rl)) = lastIdx(rl)
  BY <1>1, EntriesToType DEF full
<1>3. \A k \in 1..lastIdx(rl) : full(rl)[k] = entryAt(rl, k)
  BY DEF full, entriesTo
<1>4. ASSUME NEW k \in 1..lastIdx(rl)
      PROVE  /\ full(rl)[k] = entryAt(rl, k)
             /\ k <= rl.snapLastIdx => full(rl)[k] = rl.snapshot[k]
             /\ k > rl.snapLastIdx => full(rl)[k] = rl.tailLog[k - rl.snapLastIdx + 1]
  <2>1. full(rl)[k] = entryAt(rl, k)
    BY <1>3
  <2>2. k > rl.snapLastIdx => ~(k <= rl.snapLastIdx)
    BY <1>1
  <2> QED
    BY <2>1, <2>2, Zenon DEF entryAt, at
<1> QED
  BY <1>2, <1>4, Zenon

\* Where idx does not panic, the term the code reads is the entry's.
LEMMA FullTerm ==
  ASSUME NEW rl \in Log, logOK(rl), NEW i \in Nat \ {0}, inRange(rl, i)
  PROVE  at(rl, i).Term = full(rl)[i].Term
<1>1. /\ rl.snapLastIdx \in Nat /\ rl.snapLastIdx <= i /\ i \in 1..lastIdx(rl)
  BY LogEnds DEF inRange
<1>2. CASE i = rl.snapLastIdx
  <2>1. i - rl.snapLastIdx + 1 = 1
    BY <1>1, <1>2
  <2>2. full(rl)[i] = rl.snapshot[i]
    BY <1>1, <1>2, FullLog
  <2> QED
    BY <1>1, <1>2, <2>1, <2>2 DEF at, logOK
<1>3. CASE i # rl.snapLastIdx
  BY <1>1, <1>3, FullLog DEF at
<1> QED
  BY <1>2, <1>3

\* append adds the entry at the end.
LEMMA FullAppend ==
  ASSUME NEW rl \in Log, logOK(rl), NEW e \in Entry
  PROVE  /\ full(append(rl, e)) = Append(full(rl), e)
         /\ logOK(append(rl, e))
<1> DEFINE rl2 == append(rl, e)
           n == lastIdx(rl)
           m == rl.snapLastIdx
<1>1. rl2 \in Log /\ rl2.snapLastIdx = m /\ lastIdx(rl2) = n + 1
  BY AppendType
<1>2. /\ rl2.snapshot = rl.snapshot /\ rl2.snapLastTerm = rl.snapLastTerm
      /\ rl2.tailLog = Append(rl.tailLog, e)
  BY Zenon DEF append, Log, RaftLogStruct
<1>3. /\ n \in Nat /\ m \in Nat /\ m <= n /\ Len(rl.tailLog) = n - m + 1
      /\ rl.tailLog \in Seq(Entry)
  BY LogEnds DEF lastIdx, size
<1>4. /\ \A k \in 1..(n - m + 1) : rl2.tailLog[k] = rl.tailLog[k]
      /\ rl2.tailLog[n - m + 2] = e
  <2>1. /\ \A k \in 1..Len(rl.tailLog) : Append(rl.tailLog, e)[k] = rl.tailLog[k]
        /\ Append(rl.tailLog, e)[Len(rl.tailLog) + 1] = e
    BY <1>3, SeqAppend
  <2>2. (n - m + 1) + 1 = n - m + 2
    BY <1>3
  <2> QED
    BY <1>2, <1>3, <2>1, <2>2, Zenon
<1> HIDE DEF rl2, m, n
<1>5. /\ full(rl2) \in Seq(Entry) /\ Len(full(rl2)) = n + 1
      /\ \A k \in 1..(n + 1) : /\ k <= m => full(rl2)[k] = rl2.snapshot[k]
                               /\ k > m => full(rl2)[k] = rl2.tailLog[k - m + 1]
  BY <1>1, FullLog
<1>6. /\ full(rl) \in Seq(Entry) /\ Len(full(rl)) = n
      /\ \A k \in 1..n : /\ k <= m => full(rl)[k] = rl.snapshot[k]
                         /\ k > m => full(rl)[k] = rl.tailLog[k - m + 1]
  BY FullLog DEF n, m
<1>7. /\ Append(full(rl), e) \in Seq(Entry) /\ Len(Append(full(rl), e)) = n + 1
      /\ \A k \in 1..n : Append(full(rl), e)[k] = full(rl)[k]
      /\ Append(full(rl), e)[n + 1] = e
  BY <1>6, SeqAppend
<1>8. ASSUME NEW k \in 1..(n + 1)
      PROVE  full(rl2)[k] = Append(full(rl), e)[k]
  <2>1. CASE k <= m
    BY <1>2, <1>3, <1>5, <1>6, <1>7, <2>1
  <2>2. CASE k > m /\ k <= n
    <3>1. k - m + 1 \in 1..(n - m + 1) /\ k \in 1..n
      BY <1>3, <2>2
    <3> QED
      BY <1>4, <1>5, <1>6, <1>7, <2>2, <3>1
  <2>3. CASE k = n + 1
    <3>1. k - m + 1 = n - m + 2 /\ k > m
      BY <1>3, <2>3
    <3> QED
      BY <1>4, <1>5, <1>7, <2>3, <3>1
  <2>4. k <= m \/ (k > m /\ k <= n) \/ k = n + 1
    BY <1>3
  <2> QED
    BY <2>1, <2>2, <2>3, <2>4, Zenon
<1>9. full(rl2) = Append(full(rl), e)
  BY <1>5, <1>7, <1>8, SeqSame
<1>10. logOK(rl2)
  <2>1. rl2.tailLog[1] = rl.tailLog[1]
    BY <1>3, <1>4
  <2> QED
    BY <1>1, <1>2, <2>1 DEF logOK, m
<1> QED
  BY <1>9, <1>10 DEF rl2

\* appendFrom, on a log that agrees with h up to prevIdx, makes it h.
LEMMA FullAppendFrom ==
  ASSUME NEW rl \in Log, logOK(rl), NEW prevIdx \in Nat, inRange(rl, prevIdx),
         NEW entries \in Seq(Entry), NEW h \in Seq(Entry),
         Len(h) = prevIdx + Len(entries),
         \A k \in 1..prevIdx : full(rl)[k] = h[k],
         \A k \in 1..Len(entries) : h[prevIdx + k] = entries[k]
  PROVE  /\ full(appendFrom(rl, prevIdx, entries)) = h
         /\ logOK(appendFrom(rl, prevIdx, entries))
<1> DEFINE rl2 == appendFrom(rl, prevIdx, entries)
           m == rl.snapLastIdx
           kept == SubSeq(rl.tailLog, 1, prevIdx - m + 1)
           last == prevIdx + Len(entries)
<1>1. rl2 \in Log /\ rl2.snapLastIdx = m /\ lastIdx(rl2) = last
  BY AppendFromType
<1>2. /\ rl2.snapshot = rl.snapshot /\ rl2.snapLastTerm = rl.snapLastTerm
      /\ rl2.tailLog = kept \o entries
  BY Zenon DEF appendFrom, Log, RaftLogStruct
<1>3. /\ m \in Nat /\ m <= prevIdx /\ prevIdx <= lastIdx(rl)
      /\ rl.tailLog \in Seq(Entry) /\ Len(rl.tailLog) \in Nat
      /\ prevIdx - m + 1 \in 1..Len(rl.tailLog)
      /\ Len(entries) \in Nat /\ lastIdx(rl) \in Nat
  <2>1. /\ m \in Nat /\ rl.tailLog \in Seq(Entry) /\ Len(rl.tailLog) \in Nat
        /\ lastIdx(rl) \in Nat /\ size(rl) = lastIdx(rl) + 1
    BY LogEnds
  <2>2. m <= prevIdx /\ prevIdx < size(rl) /\ size(rl) = m + Len(rl.tailLog)
    BY DEF inRange, size
  <2>3. Len(entries) \in Nat
    BY SeqLen
  <2> HIDE DEF m
  <2> QED
    BY <2>1, <2>2, <2>3
<1>4. /\ kept \in Seq(Entry) /\ Len(kept) = prevIdx - m + 1
      /\ \A k \in 1..(prevIdx - m + 1) : kept[k] = rl.tailLog[k]
  <2>1. PICK j : j = prevIdx - m + 1
    OBVIOUS
  <2>2. j \in 1..Len(rl.tailLog) /\ 1 <= j
    BY <1>3, <2>1
  <2>3. \A k \in 1..j : rl.tailLog[k] \in Entry
    BY <1>3, <2>2, SeqItem
  <2>4. /\ SubSeq(rl.tailLog, 1, j) \in Seq(Entry) /\ Len(SubSeq(rl.tailLog, 1, j)) = j
        /\ \A k \in 1..j : SubSeq(rl.tailLog, 1, j)[k] = rl.tailLog[k]
    BY <2>2, <2>3, SeqCut
  <2> QED
    BY <2>1, <2>4
<1> HIDE DEF kept
<1>5. /\ \A k \in 1..(prevIdx - m + 1) : rl2.tailLog[k] = rl.tailLog[k]
      /\ \A k \in 1..Len(entries) : rl2.tailLog[prevIdx - m + 1 + k] = entries[k]
  <2>1. /\ Len(kept \o entries) = Len(kept) + Len(entries)
        /\ \A k \in 1..(Len(kept) + Len(entries)) :
             (kept \o entries)[k] = IF k <= Len(kept) THEN kept[k] ELSE entries[k - Len(kept)]
    BY <1>4, SeqConcat, Zenon
  <2>2. PICK j : j = prevIdx - m + 1
    OBVIOUS
  <2>3. j \in Nat /\ j = Len(kept)
    BY <1>3, <1>4, <2>2
  <2>4. \A k \in 1..j : (kept \o entries)[k] = kept[k]
    BY <1>3, <2>1, <2>3
  <2>5. \A k \in 1..Len(entries) : (kept \o entries)[j + k] = entries[k]
    BY <1>3, <2>1, <2>3
  <2> QED
    BY <1>2, <1>4, <2>2, <2>4, <2>5, Zenon
<1> HIDE DEF rl2, last
<1>6. /\ full(rl2) \in Seq(Entry) /\ Len(full(rl2)) = last
      /\ \A k \in 1..last : /\ k <= m => full(rl2)[k] = rl2.snapshot[k]
                            /\ k > m => full(rl2)[k] = rl2.tailLog[k - m + 1]
  BY <1>1, FullLog
<1>7. \A k \in 1..lastIdx(rl) : /\ k <= m => full(rl)[k] = rl.snapshot[k]
                                /\ k > m => full(rl)[k] = rl.tailLog[k - m + 1]
  BY FullLog
<1> HIDE DEF m
<1>8. ASSUME NEW k \in 1..last
      PROVE  full(rl2)[k] = h[k]
  <2>0. last = prevIdx + Len(entries)
    BY DEF last
  <2>1. CASE k <= prevIdx
    <3>0. k \in 1..prevIdx /\ k \in 1..lastIdx(rl)
      BY <1>3, <2>1
    <3>1. full(rl2)[k] = full(rl)[k]
      <4>1. CASE k <= m
        BY <1>2, <1>6, <1>7, <3>0, <4>1, Zenon
      <4>2. CASE k > m
        <5>1. k - m + 1 \in 1..(prevIdx - m + 1)
          BY <1>3, <3>0, <4>2
        <5> QED
          BY <1>5, <1>6, <1>7, <3>0, <4>2, <5>1, Zenon
      <4> QED
        BY <1>3, <4>1, <4>2
    <3> QED
      BY <3>0, <3>1
  <2>2. CASE k > prevIdx
    <3>1. PICK j \in 1..Len(entries) : k = prevIdx + j
      <4>1. k - prevIdx \in 1..Len(entries) /\ k = prevIdx + (k - prevIdx)
        BY <1>3, <2>0, <2>2
      <4> QED
        BY <4>1
    <3>2. k > m /\ k - m + 1 = prevIdx - m + 1 + j
      BY <1>3, <3>1
    <3> QED
      BY <1>5, <1>6, <3>1, <3>2
  <2> QED
    BY <2>1, <2>2
<1>9. full(rl2) = h
  BY <1>6, <1>8, SeqSame DEF last
<1>10. logOK(rl2)
  <2>1. rl2.tailLog[1] = rl.tailLog[1]
    BY <1>3, <1>5
  <2> QED
    BY <1>1, <1>2, <2>1 DEF logOK, m
<1> QED
  BY <1>9, <1>10 DEF rl2

\* Snapshot puts entries into the snapshot, and loses none.
LEMMA FullSnapshot ==
  ASSUME NEW rl \in Log, NEW index \in Nat, rl.snapLastIdx < index, index <= lastIdx(rl)
  PROVE  /\ full(doSnapshot(rl, index, entriesTo(rl, index))) = full(rl)
         /\ logOK(doSnapshot(rl, index, entriesTo(rl, index)))
<1> DEFINE snap == entriesTo(rl, index)
           term == at(rl, index).Term
           rest == tail(rl, index + 1)
           rl2 == doSnapshot(rl, index, snap)
           n == lastIdx(rl)
           m == rl.snapLastIdx
<1>1. /\ n \in Nat /\ m \in Nat /\ size(rl) = n + 1 /\ rl.tailLog \in Seq(Entry)
      /\ Len(rl.tailLog) \in Nat /\ size(rl) = m + Len(rl.tailLog)
  BY LogEnds DEF size
<1>2. snap \in Seq(Entry) /\ Len(snap) = index /\ \A k \in 1..index : snap[k] = entryAt(rl, k)
  BY EntriesToType DEF entriesTo
<1>3. rl2 \in Log /\ rl2.snapLastIdx = index /\ lastIdx(rl2) = n
  BY <1>2, DoSnapshotType
<1>4. /\ rl2.snapshot = snap /\ rl2.snapLastTerm = term
      /\ rl2.tailLog = <<dummy(term)>> \o rest
  BY DEF doSnapshot
<1>5. /\ rest \in Seq(Entry) /\ Len(rest) = n - index
      /\ \A k \in 1..(n - index) : rest[k] = rl.tailLog[index - m + 1 + k]
  <2>1. index + 1 \in Nat /\ m <= index + 1 /\ index + 1 <= size(rl)
    BY <1>1
  <2>2. rest \in Seq(Entry) /\ Len(rest) = size(rl) - (index + 1)
    BY <2>1, TailType
  <2>3. PICK j : j = (index + 1) - m + 1
    OBVIOUS
  <2>4. PICK l : l = Len(rl.tailLog)
    BY Zenon
  <2>5. j \in Nat /\ l \in Nat /\ 1 <= j /\ l - j + 1 = n - index
    <3> HIDE DEF n, m
    <3>1. m < index /\ index <= n
      BY DEF n, m
    <3> QED
      BY <1>1, <2>3, <2>4, <3>1
  <2>6. \A k \in j..l : rl.tailLog[k] \in Entry
    BY <1>1, <2>4, <2>5, SeqItem
  <2>7. \A k \in 1..(l - j + 1) : SubSeq(rl.tailLog, j, l)[k] = rl.tailLog[j + k - 1]
    BY <2>5, <2>6, SeqCut
  <2>8. \A k \in 1..(n - index) : SubSeq(rl.tailLog, j, l)[k] = rl.tailLog[j + k - 1]
    BY <2>5, <2>7, Zenon
  <2>9. rest = SubSeq(rl.tailLog, j, l)
    <3>1. rest = SubSeq(rl.tailLog, (index + 1) - rl.snapLastIdx + 1, Len(rl.tailLog))
      BY Zenon DEF tail
    <3> QED
      BY <2>3, <2>4, <3>1, Zenon
  <2>10. size(rl) - (index + 1) = n - index /\ \A k \in 1..(n - index) : j + k - 1 = index - m + 1 + k
    <3> HIDE DEF n, m
    <3> QED
      BY <1>1, <2>3
  <2> QED
    BY <2>2, <2>8, <2>9, <2>10, Zenon
<1> HIDE DEF rest, term
<1>6. dummy(term) \in Entry
  <2>1. inRange(rl, index)
    BY <1>1 DEF inRange
  <2>2. at(rl, index) \in Entry
    BY <2>1, AtType
  <2> QED
    BY <2>2, DummyType DEF Entry, term
<1>7. /\ rl2.tailLog[1] = dummy(term)
      /\ \A k \in 1..(n - index) : rl2.tailLog[1 + k] = rest[k]
  <2>1. <<dummy(term)>> \in Seq(Entry) /\ Len(<<dummy(term)>>) = 1 /\ <<dummy(term)>>[1] = dummy(term)
    BY <1>6
  <2>2. PICK d : d = <<dummy(term)>>
    BY Zenon
  <2>3. \A k \in 1..(1 + Len(rest)) : (d \o rest)[k] = IF k <= 1 THEN d[k] ELSE rest[k - 1]
    BY <1>5, <2>1, <2>2, SeqConcat
  <2>4. Len(rest) = n - index /\ n - index \in Nat
    BY <1>1, <1>5
  <2>5. (d \o rest)[1] = d[1] /\ \A k \in 1..(n - index) : (d \o rest)[1 + k] = rest[k]
    <3>1. PICK w : w = d \o rest
      BY Zenon
    <3>2. PICK l : l = n - index
      OBVIOUS
    <3>3. l \in Nat /\ \A k \in 1..(1 + l) : w[k] = IF k <= 1 THEN d[k] ELSE rest[k - 1]
      BY <2>3, <2>4, <3>1, <3>2, Zenon
    <3>4. \A k \in 1..l : 1 + k \in 1..(1 + l) /\ ~(1 + k <= 1) /\ (1 + k) - 1 = k
      BY <3>3
    <3>5. 1 \in 1..(1 + l) /\ 1 <= 1
      BY <3>3
    <3>6. w[1] = d[1]
      BY <3>3, <3>5, Zenon
    <3>7. ASSUME NEW k \in 1..l PROVE w[1 + k] = rest[k]
      <4>1. w[1 + k] = rest[(1 + k) - 1]
        BY <3>3, <3>4, Zenon
      <4> QED
        BY <3>4, <4>1, Zenon
    <3> QED
      BY <3>1, <3>2, <3>6, <3>7, Zenon
  <2> QED
    BY <1>4, <2>1, <2>2, <2>5, Zenon
<1> HIDE DEF rl2, snap
<1>8. /\ full(rl2) \in Seq(Entry) /\ Len(full(rl2)) = n
      /\ \A k \in 1..n : /\ k <= index => full(rl2)[k] = rl2.snapshot[k]
                         /\ k > index => full(rl2)[k] = rl2.tailLog[k - index + 1]
  BY <1>3, FullLog
<1>9. /\ full(rl) \in Seq(Entry) /\ Len(full(rl)) = n
      /\ \A k \in 1..n : /\ full(rl)[k] = entryAt(rl, k)
                         /\ k > m => full(rl)[k] = rl.tailLog[k - m + 1]
  BY FullLog
<1> HIDE DEF n, m
<1>10. ASSUME NEW k \in 1..n
       PROVE  full(rl2)[k] = full(rl)[k]
  <2>1. CASE k <= index
    <3>1. k \in 1..index
      BY <1>1, <2>1
    <3> QED
      BY <1>2, <1>4, <1>8, <1>9, <2>1, <3>1, Zenon
  <2>2. CASE k > index
    <3>1. PICK j \in 1..(n - index) : k = index + j
      <4>1. k - index \in 1..(n - index) /\ k = index + (k - index)
        BY <1>1, <2>2
      <4> QED
        BY <4>1
    <3>2. k > m /\ k - index + 1 = 1 + j /\ k - m + 1 = index - m + 1 + j
      BY <1>1, <3>1 DEF m
    <3>3. full(rl2)[k] = rl2.tailLog[1 + j]
      BY <1>8, <2>2, <3>2, Zenon
    <3>4. full(rl)[k] = rl.tailLog[index - m + 1 + j]
      BY <1>9, <3>2, Zenon
    <3>5. rl2.tailLog[1 + j] = rest[j] /\ rest[j] = rl.tailLog[index - m + 1 + j]
      BY <1>5, <1>7, Zenon
    <3> QED
      BY <3>3, <3>4, <3>5, Zenon
  <2>3. k <= index \/ k > index
    BY <1>1
  <2> QED
    BY <2>1, <2>2, <2>3, Zenon
<1>11. full(rl2) = full(rl)
  BY <1>8, <1>9, <1>10, SeqSame
<1>12. logOK(rl2)
  <2>1. index > 0 /\ index \in 1..index
    BY <1>1 DEF m
  <2>2. inRange(rl, index) /\ ~(index <= rl.snapLastIdx)
    BY <1>1 DEF inRange, n, m
  <2>3. entryAt(rl, index) = at(rl, index)
    BY <2>2 DEF entryAt
  <2>4. rl2.snapshot[index].Term = term
    BY <1>2, <1>4, <2>1, <2>3, Zenon DEF term
  <2> QED
    BY <1>3, <1>4, <1>7, <2>4 DEF logOK, dummy
<1> QED
  BY <1>11, <1>12 DEF rl2, snap

\* An installed snapshot is the whole log.
LEMMA FullInstall ==
  ASSUME NEW index \in Nat, NEW term \in Nat, NEW snap \in Seq(Entry), Len(snap) = index,
         index > 0 => snap[index].Term = term
  PROVE  /\ full(installSnapshot(index, term, snap)) = snap
         /\ logOK(installSnapshot(index, term, snap))
<1> DEFINE rl == installSnapshot(index, term, snap)
<1>1. rl \in Log /\ rl.snapLastIdx = index /\ lastIdx(rl) = index
  BY InstallSnapshotType
<1>2. rl.snapshot = snap /\ rl.snapLastTerm = term /\ rl.tailLog = <<dummy(term)>>
  BY DEF installSnapshot
<1>3. rl.tailLog[1].Term = term
  BY <1>2 DEF dummy
<1> HIDE DEF rl
<1>4. /\ full(rl) \in Seq(Entry) /\ Len(full(rl)) = index
      /\ \A k \in 1..index : k <= index => full(rl)[k] = snap[k]
  BY <1>1, <1>2, FullLog
<1>5. full(rl) = snap
  BY <1>4, SeqSame
<1> QED
  BY <1>1, <1>2, <1>3, <1>5 DEF logOK, rl

\* A new log has no entry.
LEMMA FullNew == full(NewLog) = <<>> /\ logOK(NewLog)
<1>1. NewLog.snapLastIdx = 0 /\ NewLog.snapLastTerm = 0 /\ NewLog.tailLog = <<dummy(0)>>
  BY DEF NewLog
<1>2. NewLog.tailLog[1].Term = 0 /\ Len(NewLog.tailLog) = 1
  BY <1>1 DEF dummy
<1>3. lastIdx(NewLog) = 0
  BY <1>1, <1>2 DEF lastIdx, size
<1>4. full(NewLog) \in Seq(Entry) /\ Len(full(NewLog)) = 0
  BY <1>3, NewLogType, FullLog
<1> QED
  BY <1>1, <1>2, <1>4, SeqEmpty DEF logOK

-----------------------------------------------------------------------------
(* Sequences of entries that match. *)

\* Entries of the same index and term have the same entries before them.
matches(h, g) ==
  \A i \in 1..Len(h) :
    i <= Len(g) /\ h[i].Term = g[i].Term => \A k \in 1..i : h[k] = g[k]

\* What is before an index of a sequence that matches another matches it as well.
LEMMA PrefixMatches ==
  ASSUME NEW h \in Seq(Entry), NEW g \in Seq(Entry), NEW n \in 0..Len(h), matches(h, g)
  PROVE  matches(SubSeq(h, 1, n), g) /\ matches(g, SubSeq(h, 1, n))
<1>1. Len(h) \in Nat /\ n \in Nat /\ Len(g) \in Nat /\ n <= Len(h)
  BY SeqLen
<1>2. \A k \in 1..n : h[k] \in Entry
  BY <1>1, SeqItem
<1>3. Len(SubSeq(h, 1, n)) = n /\ \A k \in 1..n : SubSeq(h, 1, n)[k] = h[k]
  BY <1>1, <1>2, SeqCut
<1>4. PICK f : f = SubSeq(h, 1, n)
  BY Zenon
<1>5. matches(f, g)
  BY <1>1, <1>3, <1>4 DEF matches
<1>6. matches(g, f)
  BY <1>1, <1>3, <1>4 DEF matches
<1> QED
  BY <1>4, <1>5, <1>6

\* An entry of a term nobody else has an entry of beyond the end may be appended.
LEMMA AppendMatches ==
  ASSUME NEW h \in Seq(Entry), NEW g \in Seq(Entry), NEW e \in Entry, matches(h, g),
         \A i \in 1..Len(h) : h[i].Term = e.Term => i <= Len(g)
  PROVE  matches(h, Append(g, e)) /\ matches(Append(g, e), h)
<1>1. Len(h) \in Nat /\ Len(g) \in Nat
  BY SeqLen
<1>2. /\ Len(Append(g, e)) = Len(g) + 1 /\ Append(g, e)[Len(g) + 1] = e
      /\ \A k \in 1..Len(g) : Append(g, e)[k] = g[k]
  BY SeqAppend
<1>3. PICK f : f = Append(g, e)
  BY Zenon
<1>4. \A i \in 1..Len(h) : i <= Len(f) /\ h[i].Term = f[i].Term => i <= Len(g)
  BY <1>1, <1>2, <1>3
<1>5. matches(h, f)
  BY <1>1, <1>2, <1>3, <1>4 DEF matches
<1>6. matches(f, h)
  BY <1>1, <1>2, <1>3, <1>4 DEF matches
<1> QED
  BY <1>3, <1>5, <1>6

-----------------------------------------------------------------------------
(***************************************************************************)
(* The inductive invariant.  That two entries of the same index and term    *)
(* have the same past is true of logs because it is true of everything      *)
(* leaders ever wrote: the invariant says that there is a set hist of       *)
(* sequences, closed under prefixes, that match pairwise, in which every    *)
(* log is and from which every RPC under way was taken.  A leader may       *)
(* extend hist since no other can have written an entry of its term, be it  *)
(* in the past: there is a record cast of all the votes ever given, and a   *)
(* term of which there is an entry was won by a peer that is past its       *)
(* candidacy.  Neither hist nor cast is part of the program's state; the    *)
(* invariant only says that they exist.                                     *)
(***************************************************************************)

\* cast[q][T] is whom q voted for in term T.
castOK(cast) ==
  /\ cast \in [Server -> [Nat -> Server \cup {Nil}]]
  /\ \A q \in Server : cast[q][rf[q].currentTerm] = rf[q].votedFor
  /\ \A q \in Server : \A T \in Nat : T > rf[q].currentTerm => cast[q][T] = Nil
  /\ \A s, q \in Server : \A T \in Nat :
       holdsVote(rf[s], rpc[s][q], q, T) => cast[q][T] = s

voters(cast, s, T) == {q \in Server : cast[q][T] = s}

\* s has the votes of a majority in term T, and cannot be a candidate in it any more.
led(cast, s, T) ==
  /\ majority(voters(cast, s, T))
  /\ rf[s].currentTerm > T \/ (rf[s].currentTerm = T /\ rf[s].role # Candidate)

\* The call carries what h ends with.
carries(c, h) ==
  IF c.kind = "AppendEntries"
    THEN /\ Len(h) = c.args.PrevLogIndex + Len(c.args.Entries)
         /\ c.args.PrevLogIndex > 0 => h[c.args.PrevLogIndex].Term = c.args.PrevLogTerm
         /\ \A k \in 1..Len(c.args.Entries) : h[c.args.PrevLogIndex + k] = c.args.Entries[k]
    ELSE /\ h = c.args.Snapshot
         /\ Len(h) > 0 => h[Len(h)].Term = c.args.LastIncludedTerm

family(hist) ==
  /\ hist \subseteq Seq(Entry)
  /\ \A h \in hist : \A n \in 0..Len(h) : SubSeq(h, 1, n) \in hist
  /\ \A h, g \in hist : matches(h, g)

\* Every entry was written by the leader of its term.
Written(cast, hist) ==
  \A h \in hist : \A i \in 1..Len(h) : \E s \in Server : led(cast, s, h[i].Term)

\* A leader has all the entries of its term.
LeaderHas(hist) ==
  \A s \in Server : rf[s].role = Leader =>
    \A h \in hist : \A i \in 1..Len(h) :
      h[i].Term = rf[s].currentTerm => i <= lastIdx(rf[s].log)

LogsFrom(hist) == \A s \in Server : full(rf[s].log) \in hist /\ logOK(rf[s].log)

CallsFrom(hist) ==
  \A s, p \in Server : \A c \in callsIn(rpc[s][p]) :
    c.kind # "RequestVote" => \E h \in hist : carries(c, h)

histOK(cast, hist) ==
  /\ family(hist)
  /\ Written(cast, hist)
  /\ LeaderHas(hist)
  /\ LogsFrom(hist)
  /\ CallsFrom(hist)

MatchInv == ElectionInv /\ \E cast, hist : castOK(cast) /\ histOK(cast, hist)

-----------------------------------------------------------------------------
(* The votes ever given. *)

\* The types the invariant gives, before and after a step.
LEMMA TermTypes ==
  ASSUME ElectionInv, OrderlyStep
  PROVE  \A q \in Server : /\ rf[q].currentTerm \in Nat /\ rf'[q].currentTerm \in Nat
                           /\ rf[q].votedFor \in Server \cup {Nil}
                           /\ rf'[q].votedFor \in Server \cup {Nil}
<1>1. IndInv /\ IndInv'
  BY Zenon DEF ElectionInv, OrderlyStep
<1>2. \A q \in Server : rf'[q] \in Peer
  BY <1>1, Zenon DEF IndInv, TypeOK
<1> QED
  BY <1>1, <1>2, IndInvTypes, Zenon DEF Peer

\* The record of the votes goes on: a step adds votes and changes none.
LEMMA CastStep ==
  ASSUME ElectionInv, OrderlyStep, NEW cast, castOK(cast)
  PROVE  \E cast2 : /\ castOK(cast2)'
                    /\ \A q \in Server : \A T \in Nat :
                         cast[q][T] # Nil => cast2[q][T] = cast[q][T]
<1>1. PICK cast2 : cast2 = [q \in Server |-> [T \in Nat |->
                     IF T = rf'[q].currentTerm THEN rf'[q].votedFor ELSE cast[q][T]]]
  BY Zenon
<1>2. \A q \in Server : /\ rf[q].currentTerm \in Nat /\ rf'[q].currentTerm \in Nat
                        /\ rf[q].votedFor \in Server \cup {Nil}
                        /\ rf'[q].votedFor \in Server \cup {Nil}
  BY TermTypes
<1>3. \A q \in Server : voteStep(rf[q], rf'[q])
  BY DEF OrderlyStep
<1>4. \A q \in Server : \A T \in Nat :
         cast2[q][T] = IF T = rf'[q].currentTerm THEN rf'[q].votedFor ELSE cast[q][T]
  BY <1>1
<1>5. cast2 \in [Server -> [Nat -> Server \cup {Nil}]]
  BY <1>1, <1>2 DEF castOK
<1>6. ASSUME NEW q \in Server, NEW T \in Nat, cast[q][T] # Nil
      PROVE  cast2[q][T] = cast[q][T]
  <2>1. T <= rf[q].currentTerm
    BY <1>2, <1>6 DEF castOK
  <2>2. CASE T = rf'[q].currentTerm
    <3>1. T = rf[q].currentTerm
      BY <1>2, <1>3, <2>1, <2>2 DEF voteStep
    <3>2. cast[q][T] = rf[q].votedFor
      BY <3>1 DEF castOK
    <3>3. rf'[q].votedFor = rf[q].votedFor
      BY <1>3, <1>6, <2>2, <3>1, <3>2, Zenon DEF voteStep
    <3> QED
      BY <1>4, <2>2, <3>2, <3>3
  <2>3. CASE T # rf'[q].currentTerm
    BY <1>4, <2>3
  <2> QED
    BY <2>2, <2>3
<1>7. \A q \in Server : cast2[q][rf'[q].currentTerm] = rf'[q].votedFor
  BY <1>2, <1>4
<1>8. \A q \in Server : \A T \in Nat : T > rf'[q].currentTerm => cast2[q][T] = Nil
  BY <1>2, <1>3, <1>4 DEF castOK, voteStep
<1>9. ASSUME NEW s \in Server, NEW q \in Server, NEW T \in Nat,
             holdsVote(rf'[s], rpc'[s][q], q, T)
      PROVE  cast2[q][T] = s
  <2>1. CASE holdsVote(rf[s], rpc[s][q], q, T)
    <3>1. cast[q][T] = s
      BY <2>1 DEF castOK
    <3>2. s # Nil
      BY ServerAssumption
    <3> QED
      BY <1>6, <3>1, <3>2
  <2>2. CASE votesFor(q, s, T)
    BY <1>4, <2>2 DEF votesFor
  <2> QED
    BY <1>9, <2>1, <2>2 DEF OrderlyStep, VotesGiven
<1>10. castOK(cast2)'
  BY <1>5, <1>7, <1>8, <1>9 DEF castOK
<1> QED
  BY <1>6, <1>10

\* Who won a term has won it for ever.
LEMMA LedStep ==
  ASSUME Quorums, ElectionInv, OrderlyStep, NEW cast, NEW cast2,
         \A q \in Server : \A T \in Nat : cast[q][T] # Nil => cast2[q][T] = cast[q][T],
         NEW s \in Server, NEW T \in Nat, led(cast, s, T)
  PROVE  led(cast2, s, T)'
<1>1. s # Nil
  BY ServerAssumption
<1>2. /\ voters(cast, s, T) \subseteq voters(cast2, s, T)
      /\ voters(cast, s, T) \in SUBSET Server /\ voters(cast2, s, T) \in SUBSET Server
  BY <1>1 DEF voters
<1>3. majority(voters(cast, s, T))
  BY DEF led
<1>4. majority(voters(cast2, s, T))
  BY <1>2, <1>3, Zenon DEF Quorums
<1>5. rf'[s].currentTerm > T \/ (rf'[s].currentTerm = T /\ rf'[s].role # Candidate)
  <2>1. rf[s].currentTerm \in Nat /\ rf'[s].currentTerm \in Nat
    BY TermTypes
  <2>2. voteStep(rf[s], rf'[s]) /\ roleStep(rf[s], rf'[s])
    BY DEF OrderlyStep
  <2>3. rf[s].currentTerm > T \/ (rf[s].currentTerm = T /\ rf[s].role # Candidate)
    BY DEF led
  <2>4. rf'[s].currentTerm >= rf[s].currentTerm
    BY <2>2 DEF voteStep
  <2>5. rf'[s].role = Candidate => \/ rf'[s].currentTerm > rf[s].currentTerm
                                   \/ rf'[s].currentTerm = rf[s].currentTerm /\ rf[s].role = Candidate
    BY <2>2 DEF roleStep
  <2> QED
    BY <2>1, <2>3, <2>4, <2>5
<1> QED
  BY <1>4, <1>5 DEF led

\* Who leads after a step has won its term.
LEMMA LeaderLed ==
  ASSUME Quorums, ElectionInv', NEW cast, castOK(cast)', NEW s \in Server, rf'[s].role = Leader
  PROVE  led(cast, s, rf[s].currentTerm)'
<1> DEFINE T == rf'[s].currentTerm
           Q == voters(cast, s, T)
<1>1. rf'[s].votes \subseteq Server /\ T \in Nat
  <2>1. IndInv'
    BY Zenon DEF ElectionInv
  <2>2. rf'[s] \in Peer
    BY <2>1, Zenon DEF IndInv, TypeOK
  <2> QED
    BY <2>2 DEF Peer
<1>2. majority(rf'[s].votes)
  BY DEF ElectionInv, LeaderElected, majority
<1>3. \A q \in rf'[s].votes : holdsVote(rf'[s], rpc'[s][q], q, T)
  BY DEF holdsVote, Leader, Follower
<1>4. \A q \in Server : holdsVote(rf'[s], rpc'[s][q], q, T) => cast[q][T] = s
  BY <1>1 DEF castOK
<1>5. rf'[s].votes \subseteq Q
  BY <1>1, <1>3, <1>4 DEF voters
<1> HIDE DEF Q
<1>6. Q \in SUBSET Server /\ rf'[s].votes \in SUBSET Server
  BY <1>1 DEF Q, voters
<1>7. majority(Q)
  BY <1>2, <1>5, <1>6, Zenon DEF Quorums
<1>8. majority(voters(cast, s, rf'[s].currentTerm))
  BY <1>7 DEF Q
<1>9. rf'[s].role # Candidate
  BY DEF Leader, Candidate
<1> QED
  BY <1>8, <1>9, Zenon DEF led

\* A term is won by one peer.
LEMMA LedUnique ==
  ASSUME Quorums, NEW cast, NEW s \in Server, NEW t \in Server, NEW T,
         majority(voters(cast, s, T)), majority(voters(cast, t, T))
  PROVE  s = t
<1>1. voters(cast, s, T) \in SUBSET Server /\ voters(cast, t, T) \in SUBSET Server
  BY DEF voters
<1>2. \E q \in Server : q \in voters(cast, s, T) /\ q \in voters(cast, t, T)
  BY <1>1, Zenon DEF Quorums
<1> QED
  BY <1>2 DEF voters

\* There is no entry yet of the term of a new leader.
LEMMA TermsFresh ==
  ASSUME Quorums, ElectionInv, OrderlyStep, NEW cast, castOK(cast), NEW cast2, castOK(cast2)',
         \A q \in Server : \A T \in Nat : cast[q][T] # Nil => cast2[q][T] = cast[q][T],
         NEW s \in Server, rf'[s].role = Leader, rf[s].role # Leader,
         NEW t \in Server, NEW T \in Nat, led(cast, t, T)
  PROVE  T # rf'[s].currentTerm
<1>1. SUFFICES ASSUME T = rf'[s].currentTerm PROVE FALSE
  OBVIOUS
<1>2. rf'[s].currentTerm = rf[s].currentTerm /\ rf[s].role # Follower
  BY DEF OrderlyStep, roleStep
<1>3. rf[s].role = Candidate
  <2>1. IndInv
    BY Zenon DEF ElectionInv
  <2>2. rf[s] \in Peer
    BY <2>1, IndInvTypes
  <2> QED
    BY <1>2, <2>2 DEF Peer
<1>4. led(cast2, t, T)'
  BY LedStep, Zenon
<1>5. led(cast2, s, rf[s].currentTerm)'
  BY LeaderLed DEF OrderlyStep
<1>6. majority(voters(cast2, t, T)) /\ majority(voters(cast2, s, T))
  <2>1. majority(voters(cast2, t, T))
    BY <1>4 DEF led
  <2>2. majority(voters(cast2, s, rf'[s].currentTerm))
    BY <1>5 DEF led
  <2> QED
    BY <1>1, <2>1, <2>2
<1>7. s = t
  BY <1>6, LedUnique
<1>8. rf[s].currentTerm > T \/ (rf[s].currentTerm = T /\ rf[s].role # Candidate)
  BY <1>7 DEF led
<1>9. rf[s].currentTerm \in Nat
  BY TermTypes
<1> QED
  BY <1>1, <1>2, <1>3, <1>8, <1>9

-----------------------------------------------------------------------------
(* Steps after which hist still serves. *)

\* No log grows: it stays, or it is a follower's and becomes one of hist.
LogsStay(hist) ==
  \A p \in Server :
    /\ logOK(rf'[p].log)
    /\ \/ full(rf'[p].log) = full(rf[p].log)
       \/ rf'[p].role = Follower /\ full(rf'[p].log) \in hist

CallsStay(hist) ==
  \A s, p \in Server : \A c \in callsIn(rpc'[s][p]) :
    c.kind # "RequestVote" =>
      \/ \E d \in callsIn(rpc[s][p]) : sameCall(c, d)
      \/ \E h \in hist : carries(c, h)

\* What a call carries is in its arguments.
LEMMA CallsFromStep ==
  ASSUME NEW hist, CallsFrom(hist), CallsStay(hist)
  PROVE  CallsFrom(hist)'
<1>1. ASSUME NEW s \in Server, NEW p \in Server, NEW c \in callsIn(rpc'[s][p]),
             c.kind # "RequestVote"
      PROVE  \E h \in hist : carries(c, h)
  <2>1. ASSUME NEW d \in callsIn(rpc[s][p]), sameCall(c, d)
        PROVE  \E h \in hist : carries(c, h)
    <3>1. d.kind = c.kind /\ d.args = c.args
      BY <2>1 DEF sameCall
    <3>2. PICK h \in hist : carries(d, h)
      BY <1>1, <3>1 DEF CallsFrom
    <3>3. carries(c, h)
      BY <3>1, <3>2, Zenon DEF carries
    <3> QED
      BY <3>3
  <2> QED
    BY <1>1, <2>1, Zenon DEF CallsStay
<1>2. \A s, p \in Server : \A c \in callsIn(rpc'[s][p]) :
         c.kind # "RequestVote" => \E h \in hist : carries(c, h)
  BY <1>1
<1> QED
  BY <1>2 DEF CallsFrom, callsIn

\* Logs have their type before and after the step.
LEMMA LogTypes ==
  ASSUME ElectionInv, OrderlyStep
  PROVE  \A p \in Server : rf[p].log \in Log /\ rf'[p].log \in Log
<1>1. IndInv /\ IndInv'
  BY Zenon DEF ElectionInv, OrderlyStep
<1>2. \A q \in Server : rf[q] \in Peer /\ rf'[q] \in Peer
  BY <1>1, Zenon DEF IndInv, TypeOK
<1> QED
  BY <1>2, Zenon DEF Peer

\* Such a step keeps the invariant, with the votes it adds.
LEMMA QuietLogs ==
  ASSUME Quorums, ElectionInv, OrderlyStep, NEW cast, castOK(cast), NEW hist, histOK(cast, hist),
         LogsStay(hist), CallsStay(hist)
  PROVE  \E cast2 : castOK(cast2)' /\ histOK(cast2, hist)'
<1>1. PICK cast2 : /\ castOK(cast2)'
                   /\ \A q \in Server : \A T \in Nat :
                        cast[q][T] # Nil => cast2[q][T] = cast[q][T]
  BY CastStep
<1>2. family(hist) /\ Written(cast, hist) /\ LeaderHas(hist) /\ LogsFrom(hist) /\ CallsFrom(hist)
  BY DEF histOK
<1>3. \A h \in hist : h \in Seq(Entry) /\ \A i \in 1..Len(h) : h[i].Term \in Nat
  <2>1. \A h \in hist : h \in Seq(Entry)
    BY <1>2 DEF family
  <2>2. \A h \in hist : \A i \in 1..Len(h) : h[i] \in Entry
    BY <2>1, SeqItem
  <2> QED
    BY <2>1, <2>2, Zenon DEF Entry
<1>4. Written(cast2, hist)'
  <2>1. ASSUME NEW h \in hist, NEW i \in 1..Len(h)
        PROVE  \E s \in Server : led(cast2, s, h[i].Term)'
    <3>1. PICK s \in Server : led(cast, s, h[i].Term)
      BY <1>2 DEF Written
    <3>2. led(cast2, s, h[i].Term)'
      BY <1>1, <1>3, <3>1, LedStep
    <3> QED
      BY <3>2
  <2> QED
    BY <2>1 DEF Written
<1>5. ASSUME NEW s \in Server, rf'[s].role = Leader, NEW h \in hist, NEW i \in 1..Len(h),
             h[i].Term = rf'[s].currentTerm
      PROVE  i <= lastIdx(rf'[s].log)
  <2>1. CASE rf[s].role = Leader
    <3>1. rf'[s].currentTerm = rf[s].currentTerm
      BY <1>5 DEF OrderlyStep, roleStep
    <3>2. i <= lastIdx(rf[s].log)
      BY <1>2, <1>5, <2>1, <3>1 DEF LeaderHas
    <3>3. full(rf'[s].log) = full(rf[s].log)
      BY <1>5 DEF LogsStay, Leader, Follower
    <3>4. lastIdx(rf'[s].log) = lastIdx(rf[s].log)
      BY <3>3, LogTypes, FullLog
    <3> QED
      BY <3>2, <3>4
  <2>2. CASE rf[s].role # Leader
    <3>1. PICK t \in Server : led(cast, t, h[i].Term)
      BY <1>2 DEF Written
    <3> QED
      BY <1>1, <1>3, <1>5, <2>2, <3>1, TermsFresh
  <2> QED
    BY <2>1, <2>2
<1>6. LeaderHas(hist)'
  BY <1>5 DEF LeaderHas
<1>7. LogsFrom(hist)'
  BY <1>2 DEF LogsFrom, LogsStay
<1>8. CallsFrom(hist)'
  BY <1>2, CallsFromStep
<1>9. histOK(cast2, hist)'
  BY <1>2, <1>4, <1>6, <1>7, <1>8 DEF histOK, family
<1> QED
  BY <1>1, <1>9

-----------------------------------------------------------------------------
(* The steps that leave every log as it is. *)

SameLogs == \A p \in Server : rf'[p].log = rf[p].log

SameCalls ==
  \A s, p \in Server : \A c \in callsIn(rpc'[s][p]) :
    c.kind = "RequestVote" \/ \E d \in callsIn(rpc[s][p]) : sameCall(c, d)

\* Such a step is quiet.
LEMMA SameStays ==
  ASSUME NEW hist, LogsFrom(hist), SameLogs, SameCalls
  PROVE  LogsStay(hist) /\ CallsStay(hist)
<1>1. LogsStay(hist)
  BY DEF LogsFrom, LogsStay, SameLogs
<1>2. CallsStay(hist)
  BY Zenon DEF CallsStay, SameCalls
<1> QED
  BY <1>1, <1>2

\* Only the peer that runs changes.
LEMMA SameLog ==
  ASSUME IndInv, NEW x \in Server, NEW r2, rf' = [rf EXCEPT ![x] = r2], r2.log = rf[x].log
  PROVE  SameLogs
  BY IndInvTypes DEF SameLogs

\* No call is sent when a goroutine is done.
LEMMA FinishSame ==
  ASSUME IndInv, NEW s \in Server, NEW p \in Server, NEW i \in DOMAIN rpc[s][p],
         Finish(s, p, i)
  PROVE  SameCalls
<1>1. \A s2, p2 \in Server : callsIn(rpc'[s2][p2]) \subseteq callsIn(rpc[s2][p2])
  BY IndInvTypes, FinishCalls, Zenon
<1> QED
  BY <1>1 DEF SameCalls, sameCall

\* No call is sent when a handler answers.
LEMMA AnswerSame ==
  ASSUME IndInv, NEW s \in Server, NEW p \in Server, NEW i \in DOMAIN rpc[s][p],
         NEW reply \in Reply, Answer(s, p, i, reply)
  PROVE  SameCalls
<1>1. rpc[s][p][i] \in callsIn(rpc[s][p]) /\ rpc \in RpcType
  BY IndInvTypes, CallType
<1>2. \A s2, p2 \in Server : \A c \in callsIn(rpc'[s2][p2]) :
           \/ c \in callsIn(rpc[s2][p2])
           \/ /\ s2 = s /\ p2 = p
              /\ sameCall(c, rpc[s][p][i])
              /\ c.reply = reply
  BY <1>1, AnswerCalls, ZenonT(60)
<1> QED
  BY <1>1, <1>2 DEF SameCalls, sameCall

\* Elections do not touch the candidate's log.
LEMMA CandidateLogs ==
  ASSUME IndInv, NEW s \in Server, electionTicker(s) \/ startElection(s)
  PROVE  SameLogs /\ SameCalls
<1>1. rf[s] \in Peer
  BY IndInvTypes
<1>2. CASE electionTicker(s)
  <2> DEFINE term == rf[s].currentTerm + 1
             none == {}
             r1 == [rf[s] EXCEPT !.role = Candidate, !.currentTerm = term, !.votedFor = s,
                                 !.votes = none]
             r2 == becomeCandidateLocked(rf[s], s)
  <2>2. r2 = persistLocked(r1)
    BY DEF becomeCandidateLocked
  <2>0. term \in Nat /\ none \in SUBSET Server
    BY <1>1 DEF Peer
  <2> HIDE DEF term, none
  <2>1. r1 \in Peer /\ r1.log = rf[s].log
    BY <1>1, <2>0, Zenon DEF Peer
  <2>3. r2.log = rf[s].log
    BY <2>1, <2>2, PersistLocked, Zenon
  <2>4. rf' = [rf EXCEPT ![s] = r2] /\ rpc' = rpc
    BY <1>2 DEF electionTicker
  <2>5. SameCalls
    BY <2>4 DEF SameCalls, sameCall
  <2> HIDE DEF r2
  <2> QED
    BY <2>3, <2>4, <2>5, SameLog, Zenon
<1>3. CASE startElection(s)
  <2> DEFINE r2 == [rf[s] EXCEPT !.votes = {s}]
  <2>1. rf' = [rf EXCEPT ![s] = r2]
    BY <1>3, StartElectionStep
  <2>2. r2.log = rf[s].log
    BY <1>1, Zenon DEF Peer
  <2>3. SameCalls
    BY <1>3, StartElectionCalls DEF SameCalls, sameCall
  <2> HIDE DEF r2
  <2> QED
    BY <2>1, <2>2, <2>3, SameLog, Zenon
<1> QED
  BY <1>2, <1>3

\* Nor does a vote change the voter's.
LEMMA RequestVoteLogs ==
  ASSUME IndInv, NEW s \in Server, NEW p \in Server, NEW i \in DOMAIN rpc[s][p],
         RequestVote(s, p, i)
  PROVE  SameLogs /\ SameCalls
<1> DEFINE args == rpc[s][p][i].args
           r == IF args.Term > rf[p].currentTerm THEN becomeFollowerLocked(rf[p], args.Term)
                ELSE rf[p]
           voted == [r EXCEPT !.votedFor = s]
<1>1. peerOK(rf[p]) /\ rf[p] \in Peer /\ args.Term \in Nat /\ rf[p].currentTerm \in Nat
  BY IndInvTypes, CallType, ArgTypes
<1>2. PICK r2, granted : /\ granted \in BOOLEAN
                         /\ r2 = IF granted THEN voteFor(r, s) ELSE r
                         /\ rf' = [rf EXCEPT ![p] = r2]
                         /\ Answer(s, p, i, [Term |-> rf[p].currentTerm, Ok |-> granted])
  BY Zenon DEF RequestVote
<1> HIDE DEF args
<1>3. r \in Peer /\ r.log = rf[p].log
  <2>1. /\ becomeFollowerLocked(rf[p], args.Term) \in Peer
        /\ becomeFollowerLocked(rf[p], args.Term).log = rf[p].log
    BY <1>1, BecomeFollower DEF goodStep, peerOK
  <2> QED
    BY <1>1, <2>1
<1> HIDE DEF r
<1>4. voted \in Peer /\ voted.log = r.log
  BY <1>3, Zenon DEF Peer
<1>5. voteFor(r, s) = persistLocked(voted)
  BY Zenon DEF voteFor
<1> HIDE DEF voted
<1>6. voteFor(r, s).log = r.log
  BY <1>4, <1>5, PersistLocked
<1>7. r2.log = rf[p].log
  BY <1>2, <1>3, <1>6
<1>8. SameLogs
  BY <1>2, <1>7, SameLog, Zenon
<1>9. [Term |-> rf[p].currentTerm, Ok |-> granted] \in Reply
  BY <1>1, <1>2 DEF Reply
<1>10. SameCalls
  BY <1>2, <1>9, AnswerSame
<1> QED
  BY <1>8, <1>10

\* Nor do the replies change the log of the peer that sent the requests.
LEMMA ResumeLogs ==
  ASSUME IndInv, NEW s \in Server, NEW p \in Server, NEW i \in DOMAIN rpc[s][p],
         \/ askVoteFromPeer(s, p, i)
         \/ replicateToPeer(s, p, i)
         \/ installOnPeer(s, p, i)
  PROVE  SameLogs /\ SameCalls
<1> DEFINE call == rpc[s][p][i]
           r == rf[s]
<1>1. SameCalls
  <2>1. Finish(s, p, i)
    BY Zenon DEF askVoteFromPeer, replicateToPeer, installOnPeer
  <2> QED
    BY <2>1, FinishSame
<1>2. /\ peerOK(r) /\ r \in Peer /\ call.reply.Term \in Nat /\ rf \in [Server -> Peer]
      /\ r.matchIndex \in [Server -> Nat] /\ r.nextIndex \in [Server -> Nat]
  BY IndInvTypes, CallType, ArgTypes, Zenon
<1>3. becomeFollowerLocked(r, call.reply.Term).log = r.log
  BY <1>2, BecomeFollower
<1> HIDE DEF call
<1>4. CASE askVoteFromPeer(s, p, i)
  <2>1. PICK r2 : /\ rf' = [rf EXCEPT ![s] = r2]
                  /\ r2 \in {becomeFollowerLocked(r, call.reply.Term), countVote(r, p), r}
    BY <1>4, Zenon DEF askVoteFromPeer, call
  <2>2. countVote(r, p).log = r.log
    <3> DEFINE counted == [r EXCEPT !.votes = r.votes \cup {p}]
    <3>1. counted \in Peer /\ counted.log = r.log
      BY <1>2, Zenon DEF Peer
    <3>2. countVote(r, p) = IF Cardinality(counted.votes) > Cardinality(Server) \div 2
                              THEN becomeLeaderLocked(counted) ELSE counted
      BY Zenon DEF countVote
    <3> HIDE DEF counted
    <3>3. becomeLeaderLocked(counted).log = counted.log
      BY <3>1, Zenon DEF becomeLeaderLocked, Peer
    <3> QED
      BY <3>1, <3>2, <3>3
  <2>3. r2.log = rf[s].log
    BY <1>3, <2>1, <2>2
  <2> QED
    BY <1>1, <2>1, <2>3, SameLog, Zenon
<1>5. CASE replicateToPeer(s, p, i)
  <2>1. \/ rf' = [rf EXCEPT ![s] = becomeFollowerLocked(r, call.reply.Term)]
        \/ rf' = rf
        \/ replicateSucceeded(s, p, call.args)
        \/ replicateFailed(s, p)
    BY <1>5, Zenon DEF replicateToPeer, call
  <2>2. CASE rf' = [rf EXCEPT ![s] = becomeFollowerLocked(r, call.reply.Term)]
    BY <1>1, <1>3, <2>2, SameLog, Zenon
  <2>3. CASE rf' = rf
    BY <1>1, <2>3 DEF SameLogs
  <2>4. CASE replicateSucceeded(s, p, call.args)
    <3> DEFINE match == matched(rf[s], call.args)
               r1 == [r EXCEPT !.matchIndex[p] = match, !.nextIndex[p] = match + 1]
               r2(v) == [r1 EXCEPT !.commitIndex = v]
    <3>1. PICK v : rf' = [rf EXCEPT ![s] = r2(v)]
      BY <2>4, Zenon DEF replicateSucceeded
    <3> HIDE DEF match
    <3>2. r2(v).log = r.log
      BY <1>2, Zenon DEF Peer
    <3> HIDE DEF r2
    <3> QED
      BY <1>1, <3>1, <3>2, SameLog, Zenon
  <2>5. CASE replicateFailed(s, p)
    <3>1. PICK v : rf' = [rf EXCEPT ![s].nextIndex[p] = v]
      BY <2>5, Zenon DEF replicateFailed
    <3>2. SameLogs
      BY <1>2, <3>1 DEF SameLogs, Peer
    <3> QED
      BY <1>1, <3>2
  <2> QED
    BY <2>1, <2>2, <2>3, <2>4, <2>5
<1>6. CASE installOnPeer(s, p, i)
  <2> DEFINE index == call.args.LastIncludedIndex
             r1 == [r EXCEPT !.matchIndex[p] = index, !.nextIndex[p] = index + 1]
  <2>1. PICK r2 : /\ rf' = [rf EXCEPT ![s] = r2]
                  /\ r2 \in {becomeFollowerLocked(r, call.reply.Term), r, r1}
    BY <1>6, Zenon DEF installOnPeer, call
  <2> HIDE DEF index
  <2>2. r1.log = r.log
    BY <1>2, Zenon DEF Peer
  <2> HIDE DEF r1
  <2>3. r2.log = rf[s].log
    BY <1>3, <2>1, <2>2
  <2> QED
    BY <1>1, <2>1, <2>3, SameLog, Zenon
<1> QED
  BY <1>4, <1>5, <1>6

\* A crash loses nothing of the log, because it was saved.
LEMMA RestartLogs ==
  ASSUME IndInv, NEW s \in Server, Restart(s)
  PROVE  SameLogs /\ SameCalls
<1>1. peerOK(rf[s]) /\ rpc \in RpcType
  BY IndInvTypes
<1>2. Make(rf[s].persister).log = rf[s].log
  BY <1>1 DEF Make, peerOK, saved
<1>3. SameLogs
  BY <1>2, SameLog, Zenon DEF Restart
<1>4. \A s2, p2 \in Server : \A c \in callsIn(rpc'[s2][p2]) :
           \/ s2 # s /\ c \in callsIn(rpc[s2][p2])
           \/ /\ s2 = s
              /\ c.stage \in {"orphan", "void"}
              /\ \E d \in callsIn(rpc[s2][p2]) : sameCall(c, d)
  BY <1>1, OrphanCalls, Zenon DEF Restart
<1>5. SameCalls
  BY <1>4 DEF SameCalls, sameCall
<1> QED
  BY <1>3, <1>5

\* The apply loop does not touch the log, and neither does a call that fails.
LEMMA IdleLogs ==
  ASSUME IndInv, NEW s \in Server,
         \/ applicationTicker(s)
         \/ \E p \in Server : \E i \in DOMAIN rpc[s][p] : Lose(s, p, i)
         \/ UNCHANGED vars
  PROVE  SameLogs /\ SameCalls
<1>0. rf \in [Server -> Peer]
  BY IndInvTypes
<1>1. CASE applicationTicker(s)
  <2>1. PICK v, b : rf' = [rf EXCEPT ![s].snapPending = b, ![s].commitIndex = v]
    BY <1>1, Zenon DEF applicationTicker
  <2>2. SameLogs
    BY <1>0, <2>1 DEF SameLogs, Peer
  <2>3. rpc' = rpc
    BY <1>1 DEF applicationTicker
  <2> QED
    BY <2>2, <2>3 DEF SameCalls, sameCall
<1>2. CASE \E p \in Server : \E i \in DOMAIN rpc[s][p] : Lose(s, p, i)
  <2>0. PICK p \in Server : \E i \in DOMAIN rpc[s][p] : Lose(s, p, i)
    BY <1>2
  <2>1. PICK i \in DOMAIN rpc[s][p] : Lose(s, p, i)
    BY <2>0
  <2>2. Finish(s, p, i) /\ rf' = rf
    BY <2>1 DEF Lose
  <2> QED
    BY <2>2, FinishSame DEF SameLogs
<1>3. CASE UNCHANGED vars
  BY <1>3 DEF vars, SameLogs, SameCalls, sameCall
<1> QED
  BY <1>1, <1>2, <1>3

-----------------------------------------------------------------------------
(* The steps that move entries. *)

\* Snapshot loses no entry.
LEMMA SnapshotLogs ==
  ASSUME IndInv, NEW hist, LogsFrom(hist), NEW s \in Server,
         NEW index \in 1..lastIdx(rf[s].log), Snapshot(s, index)
  PROVE  LogsStay(hist) /\ CallsStay(hist)
<1> DEFINE rl == rf[s].log
           rl2 == doSnapshot(rl, index, entriesTo(rl, index))
           r1 == [rf[s] EXCEPT !.log = rl2]
           r2 == persistLocked(r1)
<1>1. rl \in Log /\ rf[s] \in Peer /\ rf \in [Server -> Peer] /\ lastIdx(rl) \in Nat
  BY IndInvTypes, LogEnds
<1>2. index \in Nat /\ rl.snapLastIdx < index /\ index <= lastIdx(rl) /\ rl.snapLastIdx \in Nat
  BY <1>1, LogEnds DEF Snapshot
<1>3. full(rl2) = full(rl) /\ logOK(rl2)
  BY <1>1, <1>2, FullSnapshot, Zenon
<1>4. rl2 \in Log
  BY <1>1, <1>2, EntriesToType, DoSnapshotType
<1>5. rf' = [rf EXCEPT ![s] = r2] /\ rpc' = rpc
  BY Zenon DEF Snapshot
<1> HIDE DEF rl2
<1>6. r1 \in Peer /\ r1.log = rl2
  BY <1>1, <1>4, Zenon DEF Peer
<1> HIDE DEF r1
<1>7. r2.log = rl2
  BY <1>6, PersistLocked
<1> HIDE DEF r2
<1>8. rf'[s].log = rl2 /\ \A p \in Server \ {s} : rf'[p].log = rf[p].log
  BY <1>1, <1>5, <1>7
<1>9. LogsStay(hist)
  BY <1>3, <1>8 DEF LogsFrom, LogsStay
<1>10. CallsStay(hist)
  BY <1>5 DEF CallsStay, sameCall
<1> QED
  BY <1>9, <1>10

\* A follower that accepts entries has the log of hist they were taken from.
LEMMA AppendEntriesLogs ==
  ASSUME IndInv, NEW hist, family(hist), LogsFrom(hist), CallsFrom(hist),
         NEW s \in Server, NEW p \in Server, NEW i \in DOMAIN rpc[s][p],
         AppendEntries(s, p, i)
  PROVE  LogsStay(hist) /\ CallsStay(hist)
<1> DEFINE call == rpc[s][p][i]
           args == call.args
           r == becomeFollowerLocked(rf[p], args.Term)
           success == accepts(r, args)
           rl == rf[p].log
           prev == args.PrevLogIndex
           rl2 == appendFrom(rl, prev, args.Entries)
           ci == IF args.LeaderCommit > r.commitIndex THEN args.LeaderCommit
                                                      ELSE r.commitIndex
           appended == [r EXCEPT !.log = appendFrom(r.log, prev, args.Entries),
                                 !.commitIndex = ci]
           r3 == IF success THEN persistLocked(appended) ELSE r
           reply == [Term |-> rf[p].currentTerm, Ok |-> success]
<1>1. call \in Call /\ call \in callsIn(rpc[s][p]) /\ call.kind = "AppendEntries"
  BY IndInvTypes, CallType, Zenon DEF AppendEntries, Arrives
<1>2. rf' = [rf EXCEPT ![p] = r3] /\ Answer(s, p, i, reply)
  BY Zenon DEF AppendEntries
<1>3. PICK h \in hist : carries(call, h)
  BY <1>1 DEF CallsFrom
<1> HIDE DEF call
<1>4. /\ args.Term \in Nat /\ prev \in Nat /\ args.Entries \in Seq(Entry)
      /\ args.LeaderCommit \in Nat /\ Len(args.Entries) \in Nat
  BY <1>1, ArgTypes
<1>5. /\ Len(h) = prev + Len(args.Entries)
      /\ prev > 0 => h[prev].Term = args.PrevLogTerm
      /\ \A k \in 1..Len(args.Entries) : h[prev + k] = args.Entries[k]
  BY <1>1, <1>3, Zenon DEF carries
<1>6. /\ rf \in [Server -> Peer] /\ peerOK(rf[p]) /\ rf[p].currentTerm \in Nat
      /\ rl \in Log /\ logOK(rl) /\ full(rl) \in hist
  BY IndInvTypes DEF LogsFrom
<1>7. h \in Seq(Entry) /\ full(rl) \in Seq(Entry) /\ matches(full(rl), h)
  BY <1>6, Zenon DEF family
<1> HIDE DEF args
<1>8. /\ r \in Peer /\ r.log = rl /\ r.commitIndex = rf[p].commitIndex
      /\ r.currentTerm \in Nat /\ r.commitIndex \in Nat
      /\ args.Term >= rf[p].currentTerm => r.role = Follower
      /\ args.Term < rf[p].currentTerm => r = rf[p]
  <2>1. /\ goodStep(rf[p], r) /\ r.log = rl /\ r.commitIndex = rf[p].commitIndex
        /\ args.Term >= rf[p].currentTerm => r.role = Follower
        /\ args.Term < rf[p].currentTerm => r = rf[p]
    BY <1>4, <1>6, BecomeFollower, Zenon
  <2>2. r \in Peer
    BY <2>1, Zenon DEF goodStep, peerOK
  <2> QED
    BY <2>1, <2>2 DEF Peer
<1> HIDE DEF r
<1>9. success \in BOOLEAN
  BY DEF accepts, prevLogMatches
<1>10. reply \in Reply
  BY <1>6, <1>9, Zenon DEF Reply
<1>11. CASE success
  <2>1. args.Term >= r.currentTerm /\ inRange(rl, prev) /\ at(rl, prev).Term = args.PrevLogTerm
    BY <1>8, <1>11, Zenon DEF accepts, prevLogMatches
  <2>2. r.role = Follower
    <3>1. CASE args.Term >= rf[p].currentTerm
      BY <1>8, <3>1, Zenon
    <3>2. CASE args.Term < rf[p].currentTerm
      <4>1. r.currentTerm = rf[p].currentTerm
        BY <1>8, <3>2, Zenon
      <4> QED
        BY <1>4, <1>6, <2>1, <3>2, <4>1
    <3> QED
      BY <1>4, <1>6, <3>1, <3>2
  <2>3. \A k \in 1..prev : full(rl)[k] = h[k]
    <3>1. CASE prev = 0
      BY <3>1
    <3>2. CASE prev > 0
      <4>1. at(rl, prev).Term = full(rl)[prev].Term
        <5>1. prev \in Nat \ {0}
          BY <1>4, <3>2
        <5> QED
          BY <1>6, <2>1, <5>1, FullTerm, Zenon
      <4>2. prev \in 1..Len(full(rl)) /\ prev <= Len(h)
        <5>1. Len(full(rl)) = lastIdx(rl) /\ lastIdx(rl) \in Nat /\ prev <= lastIdx(rl)
          <6>1. Len(full(rl)) = lastIdx(rl) /\ lastIdx(rl) \in Nat /\ size(rl) = lastIdx(rl) + 1
            BY <1>6, FullLog, LogEnds, Zenon
          <6> QED
            BY <1>4, <2>1, <6>1 DEF inRange
        <5> QED
          BY <1>4, <1>5, <3>2, <5>1
      <4>3. full(rl)[prev].Term = h[prev].Term
        BY <1>5, <2>1, <3>2, <4>1, Zenon
      <4> QED
        BY <1>7, <4>2, <4>3 DEF matches
    <3> QED
      <4>1. prev = 0 \/ prev > 0
        BY <1>4
      <4> QED
        BY <3>1, <3>2, <4>1, Zenon
  <2>4. full(rl2) = h /\ logOK(rl2)
    <3>1. PICK es : es = args.Entries
      BY Zenon
    <3>2. PICK n : n = prev
      BY Zenon
    <3>3. PICK l : l = rl
      OBVIOUS
    <3>4. /\ l \in Log /\ logOK(l) /\ n \in Nat /\ inRange(l, n) /\ es \in Seq(Entry)
          /\ Len(h) = n + Len(es)
      BY <1>4, <1>5, <1>6, <2>1, <3>1, <3>2, <3>3, Zenon
    <3>5. /\ \A k \in 1..n : full(l)[k] = h[k]
          /\ \A k \in 1..Len(es) : h[n + k] = es[k]
      BY <1>5, <2>3, <3>1, <3>2, <3>3, Zenon
    <3>6. full(appendFrom(l, n, es)) = h /\ logOK(appendFrom(l, n, es))
      BY <1>7, <3>4, <3>5, FullAppendFrom, Zenon
    <3> QED
      BY <3>1, <3>2, <3>3, <3>6, Zenon
  <2>5. rl2 \in Log
    BY <1>4, <1>6, <2>1, AppendFromType, Zenon
  <2>6. r3.log = rl2 /\ r3.role = Follower
    <3> HIDE DEF rl2
    <3>1. ci \in Nat
      BY <1>4, <1>8, Zenon
    <3>2. appended = [r EXCEPT !.log = rl2, !.commitIndex = ci]
      BY <1>8, Zenon DEF rl2
    <3> HIDE DEF ci, appended
    <3>3. appended \in Peer /\ appended.log = rl2 /\ appended.role = r.role
      BY <1>8, <2>5, <3>1, <3>2, Zenon DEF Peer
    <3>4. persistLocked(appended).log = rl2 /\ persistLocked(appended).role = r.role
      BY <3>3, PersistLocked, Zenon
    <3>5. r3 = persistLocked(appended)
      BY <1>11, Zenon
    <3> QED
      BY <2>2, <3>4, <3>5, Zenon
  <2> HIDE DEF r3, rl2
  <2>7. rf'[p] = r3 /\ \A q \in Server \ {p} : rf'[q] = rf[q]
    BY <1>2, <1>6, Zenon
  <2>8. LogsStay(hist)
    BY <1>3, <2>4, <2>6, <2>7, Zenon DEF LogsFrom, LogsStay
  <2> HIDE DEF reply
  <2>9. SameCalls
    BY <1>2, <1>10, AnswerSame
  <2> QED
    BY <2>8, <2>9, Zenon DEF SameCalls, CallsStay
<1>12. CASE ~success
  <2>1. rf' = [rf EXCEPT ![p] = r] /\ r.log = rf[p].log
    BY <1>2, <1>8, <1>12
  <2>2. SameLogs
    BY <2>1, SameLog, Zenon
  <2> HIDE DEF reply
  <2>3. SameCalls
    BY <1>2, <1>10, AnswerSame
  <2> QED
    BY <2>2, <2>3, SameStays
<1> QED
  BY <1>11, <1>12

\* A peer that installs a snapshot has the log of hist the snapshot stands for.
LEMMA InstallSnapshotLogs ==
  ASSUME IndInv, NEW hist, family(hist), LogsFrom(hist), CallsFrom(hist),
         NEW s \in Server, NEW p \in Server, NEW i \in DOMAIN rpc[s][p],
         InstallSnapshot(s, p, i)
  PROVE  LogsStay(hist) /\ CallsStay(hist)
<1> DEFINE call == rpc[s][p][i]
           args == call.args
           r == becomeFollowerLocked(rf[p], args.Term)
           ignored == \/ args.Term < rf[p].currentTerm
                      \/ r.log.snapLastIdx >= args.LastIncludedIndex
           rl2 == installSnapshot(args.LastIncludedIndex, args.LastIncludedTerm, args.Snapshot)
           installed == [r EXCEPT !.log = rl2, !.snapPending = TRUE]
           r3 == IF ignored THEN r ELSE persistLocked(installed)
           reply == [Term |-> rf[p].currentTerm, Ok |-> FALSE]
<1>1. call \in Call /\ call \in callsIn(rpc[s][p]) /\ call.kind = "InstallSnapshot"
  BY IndInvTypes, CallType, Zenon DEF InstallSnapshot, Arrives
<1>2. rf' = [rf EXCEPT ![p] = r3] /\ Answer(s, p, i, reply)
  BY Zenon DEF InstallSnapshot
<1>3. PICK h \in hist : carries(call, h)
  BY <1>1, Zenon DEF CallsFrom
<1> HIDE DEF call
<1>4. /\ args.Term \in Nat /\ args.LastIncludedIndex \in Nat
      /\ args.LastIncludedTerm \in Nat /\ args.Snapshot \in Seq(Entry)
      /\ Len(args.Snapshot) = args.LastIncludedIndex
  BY <1>1, ArgTypes, Zenon
<1>5. h = args.Snapshot /\ (Len(h) > 0 => h[Len(h)].Term = args.LastIncludedTerm)
  BY <1>1, <1>3, Zenon DEF carries
<1>6. rf \in [Server -> Peer] /\ peerOK(rf[p]) /\ rf[p].currentTerm \in Nat
  BY IndInvTypes
<1> HIDE DEF args
<1>7. r \in Peer /\ r.log = rf[p].log /\ (args.Term >= rf[p].currentTerm => r.role = Follower)
  BY <1>4, <1>6, BecomeFollower, Zenon DEF goodStep, peerOK
<1> HIDE DEF r
<1>8. reply \in Reply
  BY <1>6 DEF Reply
<1> HIDE DEF reply
<1>9. SameCalls
  BY <1>2, <1>8, AnswerSame
<1>10. CASE ~ignored
  <2>1. ~(args.Term < rf[p].currentTerm)
    BY <1>10, Zenon
  <2>2. r.role = Follower
    <3>1. args.Term >= rf[p].currentTerm
      BY <1>4, <1>6, <2>1
    <3> QED
      BY <1>7, <3>1, Zenon
  <2>3. full(rl2) = h /\ logOK(rl2) /\ rl2 \in Log
    BY <1>4, <1>5, FullInstall, InstallSnapshotType
  <2> HIDE DEF rl2
  <2>4. installed \in Peer /\ installed.log = rl2 /\ installed.role = r.role
    BY <1>7, <2>3, Zenon DEF Peer
  <2> HIDE DEF installed
  <2>5. persistLocked(installed).log = rl2 /\ persistLocked(installed).role = r.role
    BY <2>4, PersistLocked, Zenon
  <2>6. r3.log = rl2 /\ r3.role = Follower
    BY <1>10, <2>2, <2>5, Zenon
  <2> HIDE DEF r3
  <2>7. rf'[p] = r3 /\ \A q \in Server \ {p} : rf'[q] = rf[q]
    BY <1>2, <1>6
  <2>8. LogsStay(hist)
    BY <1>3, <2>3, <2>6, <2>7 DEF LogsFrom, LogsStay
  <2> QED
    BY <1>9, <2>8, Zenon DEF SameCalls, CallsStay
<1>11. CASE ignored
  <2>1. rf' = [rf EXCEPT ![p] = r] /\ r.log = rf[p].log
    BY <1>2, <1>7, <1>11, Zenon
  <2>2. SameLogs
    BY <2>1, SameLog, Zenon
  <2> QED
    BY <1>9, <2>2, SameStays
<1> QED
  BY <1>10, <1>11

\* What a leader sends, it has: all its entries, or those its snapshot stands for.
LEMMA ReplicationCarries ==
  ASSUME NEW r, peerOK(r), logOK(r.log), r.role = Leader, NEW p \in Server
  PROVE  \/ carries(replicationCall(r, p), full(r.log))
         \/ carries(replicationCall(r, p), SubSeq(full(r.log), 1, r.log.snapLastIdx))
<1> DEFINE prev == r.nextIndex[p] - 1
           c == replicationCall(r, p)
           rl == r.log
           n == lastIdx(rl)
           m == rl.snapLastIdx
           g == full(rl)
<1>1. /\ rl \in Log /\ r.nextIndex[p] \in Nat /\ r.nextIndex[p] <= size(rl)
  BY DEF peerOK, Peer
<1>2. /\ m \in Nat /\ n \in Nat /\ size(rl) = n + 1 /\ n >= m
      /\ rl.snapshot \in Seq(Entry) /\ Len(rl.snapshot) = m
      /\ rl.tailLog \in Seq(Entry) /\ Len(rl.tailLog) \in Nat /\ size(rl) = m + Len(rl.tailLog)
  BY <1>1, LogEnds DEF size
<1>3. /\ g \in Seq(Entry) /\ Len(g) = n
      /\ \A k \in 1..n : /\ k <= m => g[k] = rl.snapshot[k]
                         /\ k > m => g[k] = rl.tailLog[k - m + 1]
  BY <1>1, FullLog, Zenon
<1>4. CASE prev < m
  <2>1. c.kind = "InstallSnapshot" /\ c.args.Snapshot = rl.snapshot
        /\ c.args.LastIncludedTerm = rl.snapLastTerm
    BY <1>4, Zenon DEF replicationCall, request
  <2> HIDE DEF c, n, m, g
  <2>2. \A k \in 1..m : g[k] \in Entry
    BY <1>2, <1>3, SeqItem
  <2>3. PICK f : f = SubSeq(g, 1, m)
    BY Zenon
  <2>4. f \in Seq(Entry) /\ Len(f) = m /\ \A k \in 1..m : f[k] = g[k]
    BY <1>2, <2>2, <2>3, SeqCut
  <2>5. \A k \in 1..m : f[k] = rl.snapshot[k]
    BY <1>2, <1>3, <2>4
  <2>6. f = rl.snapshot
    BY <1>2, <2>4, <2>5, SeqSame
  <2>7. Len(f) > 0 => f[Len(f)].Term = rl.snapLastTerm
    BY <1>2, <2>4, <2>6 DEF logOK, m
  <2>8. carries(c, f)
    BY <2>1, <2>6, <2>7 DEF carries
  <2> QED
    BY <2>3, <2>8 DEF c, g, m
<1>5. CASE ~(prev < m)
  <2> DEFINE es == tail(rl, prev + 1)
  <2>1. /\ c.kind = "AppendEntries" /\ c.args.PrevLogIndex = prev
        /\ c.args.PrevLogTerm = at(rl, prev).Term /\ c.args.Entries = es
    BY <1>5, Zenon DEF replicationCall, request
  <2>2. /\ prev \in Nat /\ prev <= n /\ m <= prev /\ inRange(rl, prev)
    <3>1. prev \in Nat /\ prev <= n /\ m <= prev
      BY <1>1, <1>2, <1>5
    <3> QED
      BY <1>2, <3>1 DEF inRange
  <2> HIDE DEF c, prev, n, m, g
  <2>3. Len(es) = n - prev
    <3>1. prev + 1 \in Nat /\ m <= prev + 1 /\ prev + 1 <= size(rl)
      BY <1>2, <2>2
    <3>2. Len(es) = size(rl) - (prev + 1)
      BY <1>1, <3>1, TailType DEF m
    <3> QED
      BY <1>2, <2>2, <3>2
  <2>4. \A k \in 1..(n - prev) : es[k] = g[prev + k]
    <3>1. PICK j : j = (prev + 1) - m + 1
      OBVIOUS
    <3>2. PICK l : l = Len(rl.tailLog)
      BY Zenon
    <3>3. j \in Nat /\ l \in Nat /\ 1 <= j /\ l - j + 1 = n - prev
      BY <1>2, <2>2, <3>1, <3>2
    <3>4. \A k \in j..l : rl.tailLog[k] \in Entry
      BY <1>2, <3>2, <3>3, SeqItem
    <3>5. \A k \in 1..(l - j + 1) : SubSeq(rl.tailLog, j, l)[k] = rl.tailLog[j + k - 1]
      BY <3>3, <3>4, SeqCut
    <3>6. es = SubSeq(rl.tailLog, j, l)
      <4>1. es = SubSeq(rl.tailLog, (prev + 1) - rl.snapLastIdx + 1, Len(rl.tailLog))
        BY Zenon DEF tail
      <4> QED
        BY <3>1, <3>2, <4>1, Zenon DEF m
    <3> HIDE DEF es
    <3>7. ASSUME NEW k \in 1..(n - prev)
          PROVE  es[k] = g[prev + k]
      <4>1. prev + k \in 1..n /\ prev + k > m /\ j + k - 1 = (prev + k) - m + 1
        BY <1>2, <2>2, <3>1
      <4>2. g[prev + k] = rl.tailLog[(prev + k) - m + 1]
        BY <1>3, <4>1
      <4>3. es[k] = rl.tailLog[j + k - 1]
        BY <3>3, <3>5, <3>6, Zenon
      <4> QED
        BY <4>1, <4>2, <4>3, Zenon
    <3> QED
      BY <3>7
  <2>5. prev > 0 => g[prev].Term = at(rl, prev).Term
    BY <1>1, <2>2, FullTerm DEF g
  <2> HIDE DEF es
  <2>6. Len(g) = prev + Len(es)
    BY <1>2, <1>3, <2>2, <2>3
  <2>7. carries(c, g)
    BY <2>1, <2>3, <2>4, <2>5, <2>6 DEF carries
  <2> QED
    BY <2>7 DEF c, g
<1> QED
  BY <1>4, <1>5, Zenon

\* A round of replication sends what is in hist.
LEMMA StartReplicationLogs ==
  ASSUME IndInv, NEW hist, family(hist), LogsFrom(hist), NEW s \in Server, startReplication(s)
  PROVE  LogsStay(hist) /\ CallsStay(hist)
<1> DEFINE r == rf[s]
           r2 == [r EXCEPT !.matchIndex[s] = lastIdx(r.log), !.nextIndex[s] = size(r.log)]
           e == [p \in Server |-> replicationCall(r, p)]
           m == r.log.snapLastIdx
<1>1. /\ r \in Peer /\ peerOK(r) /\ r.role = Leader /\ r.log \in Log /\ rpc \in RpcType
      /\ logOK(r.log) /\ full(r.log) \in hist
  BY IndInvTypes DEF startReplication, LogsFrom
<1>2. /\ rf' = [rf EXCEPT ![s] = r2]
      /\ rpc' = [rpc EXCEPT ![s] = [p \in Server |->
                   IF p = s THEN rpc[s][p] ELSE Append(rpc[s][p], e[p])]]
  BY Zenon DEF startReplication
<1>3. r2.log = r.log
  BY <1>1, Zenon DEF Peer
<1> HIDE DEF r2
<1>4. SameLogs
  BY <1>2, <1>3, SameLog, Zenon
<1>5. e \in [Server -> Call] /\ \A p \in Server : e[p] = replicationCall(r, p)
  BY <1>1, ReplicationCall, Zenon
<1> HIDE DEF e
<1>6. \A s2, p2 \in Server : \A c \in callsIn(rpc'[s2][p2]) :
           c \in callsIn(rpc[s2][p2]) \/ (s2 = s /\ c = e[p2])
  BY <1>1, <1>2, <1>5, SendCalls, Zenon
<1>7. SubSeq(full(r.log), 1, m) \in hist
  <2>1. m \in Nat /\ m <= lastIdx(r.log) /\ lastIdx(r.log) \in Nat /\ Len(full(r.log)) = lastIdx(r.log)
    BY <1>1, LogEnds, FullLog, Zenon
  <2>2. m \in 0..Len(full(r.log))
    BY <2>1
  <2> QED
    BY <1>1, <2>2 DEF family
<1>8. \A p \in Server : \E h \in hist : carries(e[p], h)
  <2> SUFFICES ASSUME NEW p \in Server PROVE \E h \in hist : carries(e[p], h)
    OBVIOUS
  <2>1. carries(e[p], full(r.log)) \/ carries(e[p], SubSeq(full(r.log), 1, m))
    BY <1>1, <1>5, ReplicationCarries
  <2> QED
    BY <1>1, <1>7, <2>1
<1>9. CallsStay(hist)
  BY <1>6, <1>8 DEF CallsStay, sameCall
<1>10. LogsStay(hist)
  BY <1>4 DEF SameLogs, LogsFrom, LogsStay
<1> QED
  BY <1>9, <1>10

-----------------------------------------------------------------------------
(* Start, the one step that writes an entry. *)

\* What Start does to the leader and to nobody else.
LEMMA StartEffect ==
  ASSUME IndInv, NEW s \in Server, NEW command \in Cmd, Start(s, command),
         logOK(rf[s].log)
  PROVE  \E e \in Entry :
           /\ e.Term = rf[s].currentTerm
           /\ full(rf'[s].log) = Append(full(rf[s].log), e)
           /\ logOK(rf'[s].log)
           /\ rf[s].role = Leader
           /\ rf'[s].role = Leader /\ rf'[s].currentTerm = rf[s].currentTerm
           /\ \A p \in Server \ {s} : rf'[p] = rf[p]
           /\ rpc' = rpc
<1> DEFINE r == rf[s]
           e == [Term |-> r.currentTerm, Command |-> command]
           rl == append(r.log, e)
           r1 == [r EXCEPT !.log = rl]
           r2 == persistLocked(r1)
<1>1. r \in Peer /\ rf \in [Server -> Peer] /\ r.log \in Log /\ r.currentTerm \in Nat
  BY IndInvTypes
<1>2. e \in Entry /\ e.Term = r.currentTerm
  BY <1>1 DEF Entry
<1>3. rf' = [rf EXCEPT ![s] = r2] /\ rpc' = rpc /\ r.role = Leader
  BY Zenon DEF Start
<1> HIDE DEF e
<1>4. rl \in Log /\ full(rl) = Append(full(r.log), e) /\ logOK(rl)
  BY <1>1, <1>2, AppendType, FullAppend
<1> HIDE DEF rl
<1>5. r1 \in Peer /\ r1.log = rl /\ r1.role = r.role /\ r1.currentTerm = r.currentTerm
  BY <1>1, <1>4, Zenon DEF Peer
<1> HIDE DEF r1
<1>6. r2.log = rl /\ r2.role = r.role /\ r2.currentTerm = r.currentTerm
  BY <1>5, PersistLocked, Zenon
<1> HIDE DEF r2
<1>7. rf'[s] = r2 /\ \A p \in Server \ {s} : rf'[p] = rf[p]
  BY <1>1, <1>3
<1> QED
  BY <1>2, <1>3, <1>4, <1>6, <1>7, Zenon

\* A sequence of hist may be extended by an entry of a term of which hist has none
\* beyond its end.
LEMMA FamilyGrows ==
  ASSUME NEW hist, family(hist), NEW g \in hist, NEW e \in Entry,
         \A h \in hist : \A i \in 1..Len(h) : h[i].Term = e.Term => i <= Len(g)
  PROVE  family(hist \cup {Append(g, e)})
<1>1. g \in Seq(Entry) /\ Len(g) \in Nat /\ \A h \in hist : h \in Seq(Entry)
  BY SeqLen DEF family
<1>2. PICK f : f = Append(g, e)
  BY Zenon
<1>3. /\ f \in Seq(Entry) /\ Len(f) = Len(g) + 1
      /\ \A k \in 1..Len(g) : f[k] = g[k]
  BY <1>1, <1>2, SeqAppend
<1>4. ASSUME NEW n \in 0..Len(f)
      PROVE  SubSeq(f, 1, n) \in hist \cup {f}
  <2>1. n \in Nat /\ \A k \in 1..n : f[k] \in Entry
    BY <1>1, <1>3, SeqItem
  <2>2. PICK u : u = SubSeq(f, 1, n)
    BY Zenon
  <2>3. u \in Seq(Entry) /\ Len(u) = n /\ \A k \in 1..n : u[k] = f[k]
    BY <2>1, <2>2, SeqCut
  <2>4. CASE n = Len(f)
    BY <1>3, <2>2, <2>3, <2>4, SeqSame
  <2>5. CASE n # Len(f)
    <3>1. n \in 0..Len(g)
      BY <1>1, <1>3, <2>1, <2>5
    <3>2. \A k \in 1..n : g[k] \in Entry
      BY <1>1, <3>1, SeqItem
    <3>3. PICK v : v = SubSeq(g, 1, n)
      BY Zenon
    <3>4. v \in Seq(Entry) /\ Len(v) = n /\ \A k \in 1..n : v[k] = g[k]
      BY <2>1, <3>2, <3>3, SeqCut
    <3>5. \A k \in 1..n : u[k] = v[k]
      BY <1>1, <1>3, <2>3, <3>1, <3>4
    <3>6. u = v
      BY <2>3, <3>4, <3>5, SeqSame
    <3>7. v \in hist
      BY <3>1, <3>3 DEF family
    <3> QED
      BY <2>2, <3>6, <3>7, Zenon
  <2> QED
    BY <2>4, <2>5
<1>5. ASSUME NEW h \in hist
      PROVE  matches(h, f) /\ matches(f, h)
  <2>1. h \in Seq(Entry) /\ matches(h, g) /\ \A i \in 1..Len(h) : h[i].Term = e.Term => i <= Len(g)
    BY <1>1 DEF family
  <2> QED
    BY <1>1, <1>2, <2>1, AppendMatches
<1>6. matches(f, f)
  BY DEF matches
<1>7. \A h, k \in hist \cup {f} : matches(h, k)
  BY <1>5, <1>6 DEF family
<1>8. \A h \in hist \cup {f} : \A n \in 0..Len(h) : SubSeq(h, 1, n) \in hist \cup {f}
  <2>1. \A h \in hist : \A n \in 0..Len(h) : SubSeq(h, 1, n) \in hist
    BY Zenon DEF family
  <2> QED
    BY <1>4, <2>1, Zenon
<1>9. hist \cup {f} \subseteq Seq(Entry)
  BY <1>1, <1>3
<1> QED
  BY <1>2, <1>7, <1>8, <1>9, Zenon DEF family

\* A leader writes what no other leader can have written.
LEMMA StartLogs ==
  ASSUME Quorums, ElectionInv, OrderlyStep, NEW cast, castOK(cast), NEW hist, histOK(cast, hist),
         NEW s \in Server, NEW command \in Cmd, Start(s, command)
  PROVE  \E cast2, hist2 : castOK(cast2)' /\ histOK(cast2, hist2)'
<1>g. PICK g : g = full(rf[s].log)
  BY Zenon
<1>0. IndInv
  BY Zenon DEF ElectionInv
<1>1. PICK cast2 : /\ castOK(cast2)'
                   /\ \A q \in Server : \A T \in Nat :
                        cast[q][T] # Nil => cast2[q][T] = cast[q][T]
  BY CastStep
<1>2. family(hist) /\ Written(cast, hist) /\ LeaderHas(hist) /\ LogsFrom(hist) /\ CallsFrom(hist)
  BY DEF histOK
<1>3. logOK(rf[s].log) /\ g \in hist
  BY <1>2, <1>g DEF LogsFrom
<1>4. PICK e \in Entry :
        /\ e.Term = rf[s].currentTerm
        /\ full(rf'[s].log) = Append(g, e)
        /\ logOK(rf'[s].log)
        /\ rf[s].role = Leader
        /\ rf'[s].role = Leader /\ rf'[s].currentTerm = rf[s].currentTerm
        /\ \A p \in Server \ {s} : rf'[p] = rf[p]
        /\ rpc' = rpc
  BY <1>0, <1>3, <1>g, StartEffect, Zenon
<1>5. /\ g \in Seq(Entry) /\ Len(g) = lastIdx(rf[s].log) /\ Len(g) \in Nat
      /\ Len(Append(g, e)) = Len(g) + 1
      /\ lastIdx(rf'[s].log) = Len(g) + 1
      /\ \A k \in 1..Len(g) : Append(g, e)[k] = g[k]
      /\ Append(g, e)[Len(g) + 1] = e
  <2>1. g \in Seq(Entry) /\ Len(g) = lastIdx(rf[s].log)
    BY <1>g, LogTypes, FullLog, Zenon
  <2>2. Len(full(rf'[s].log)) = lastIdx(rf'[s].log)
    BY LogTypes, FullLog
  <2>3. Len(g) \in Nat
    BY <2>1, SeqLen
  <2>4. /\ Len(Append(g, e)) = Len(g) + 1 /\ Append(g, e)[Len(g) + 1] = e
        /\ \A k \in 1..Len(g) : Append(g, e)[k] = g[k]
    BY <2>1, SeqAppend
  <2> QED
    BY <1>4, <2>1, <2>2, <2>3, <2>4, Zenon
<1>6. PICK f : f = Append(g, e)
  BY Zenon
<1>7. PICK hist2 : hist2 = hist \cup {f}
  BY Zenon
<1>8. family(hist2)
  <2>1. \A h \in hist : \A i \in 1..Len(h) : h[i].Term = e.Term => i <= Len(g)
    BY <1>2, <1>4, <1>5, Zenon DEF LeaderHas
  <2> QED
    BY <1>2, <1>3, <1>6, <1>7, <2>1, FamilyGrows, Zenon
<1>9. ASSUME NEW i \in 1..Len(f)
      PROVE  \/ i \in 1..Len(g) /\ f[i] = g[i]
             \/ i = Len(g) + 1 /\ f[i] = e
  <2>1. i \in 1..Len(g) \/ i = Len(g) + 1
    BY <1>5, <1>6
  <2> QED
    BY <1>5, <1>6, <2>1
<1>10. ASSUME NEW h \in hist, NEW i \in 1..Len(h)
       PROVE  h[i].Term \in Nat /\ \E t \in Server : led(cast2, t, h[i].Term)'
  <2>1. h[i].Term \in Nat
    <3>1. h \in Seq(Entry)
      BY <1>2 DEF family
    <3>2. h[i] \in Entry
      BY <3>1, SeqItem
    <3> QED
      BY <3>2 DEF Entry
  <2>2. PICK t \in Server : led(cast, t, h[i].Term)
    BY <1>2 DEF Written
  <2>3. PICK T : T = h[i].Term
    BY Zenon
  <2>4. led(cast2, t, T)'
    <3>1. T \in Nat /\ led(cast, t, T)
      BY <2>1, <2>2, <2>3
    <3>2. \A q \in Server : \A U \in Nat : cast[q][U] # Nil => cast2[q][U] = cast[q][U]
      BY <1>1, Zenon
    <3> QED
      BY <3>1, <3>2, LedStep, Zenon
  <2> QED
    BY <2>1, <2>3, <2>4, Zenon
<1>11. led(cast2, s, e.Term)'
  <2>1. led(cast2, s, rf[s].currentTerm)'
    BY <1>1, <1>4, LeaderLed, Zenon DEF OrderlyStep
  <2>2. rf'[s].currentTerm = e.Term
    BY <1>4, Zenon
  <2> QED
    BY <2>1, <2>2, Zenon DEF led
<1>12. ASSUME NEW h \in hist2, NEW i \in 1..Len(h)
       PROVE  \E t \in Server : led(cast2, t, h[i].Term)'
  <2>1. CASE h \in hist
    BY <1>10, <2>1, Zenon
  <2>2. CASE h = f
    <3>1. CASE i \in 1..Len(g) /\ f[i] = g[i]
      <4>1. \E t \in Server : led(cast2, t, g[i].Term)'
        BY <1>3, <1>10, <3>1, Zenon
      <4> QED
        BY <2>2, <3>1, <4>1
    <3>2. CASE i = Len(g) + 1 /\ f[i] = e
      BY <1>11, <2>2, <3>2
    <3> QED
      BY <1>9, <2>2, <3>1, <3>2
  <2> QED
    BY <1>7, <2>1, <2>2
<1>13. Written(cast2, hist2)'
  BY <1>12 DEF Written
<1>14. ASSUME NEW t \in Server, rf'[t].role = Leader
       PROVE  /\ rf[t].role = Leader /\ rf'[t].currentTerm = rf[t].currentTerm
              /\ lastIdx(rf[t].log) \in Nat /\ lastIdx(rf'[t].log) \in Nat
              /\ lastIdx(rf[t].log) <= lastIdx(rf'[t].log)
              /\ rf[t].currentTerm = rf[s].currentTerm => t = s
  <2>1. rf[t].role = Leader /\ rf'[t].currentTerm = rf[t].currentTerm
    BY <1>4, <1>14, Zenon
  <2>2. rf[t].currentTerm = rf[s].currentTerm => t = s
    BY <1>4, <2>1, MajoritiesAgree, Zenon DEF ElectionSafety
  <2>3. lastIdx(rf[t].log) \in Nat /\ lastIdx(rf'[t].log) \in Nat
    BY LogTypes, LogEnds
  <2>4. lastIdx(rf[t].log) <= lastIdx(rf'[t].log)
    <3>1. CASE t = s
      BY <1>5, <3>1
    <3>2. CASE t # s
      <4>1. rf'[t].log = rf[t].log
        BY <1>4, <3>2, Zenon
      <4> QED
        BY <2>3, <4>1
    <3> QED
      BY <3>1, <3>2
  <2> QED
    BY <2>1, <2>2, <2>3, <2>4, Zenon
<1>15. ASSUME NEW t \in Server, rf'[t].role = Leader, NEW h \in hist, NEW i \in 1..Len(h),
              h[i].Term = rf'[t].currentTerm
       PROVE  i <= lastIdx(rf'[t].log)
  <2>1. i <= lastIdx(rf[t].log)
    BY <1>2, <1>14, <1>15, Zenon DEF LeaderHas
  <2>2. i \in Int
    OBVIOUS
  <2> QED
    <3>1. /\ lastIdx(rf[t].log) \in Nat /\ lastIdx(rf'[t].log) \in Nat
          /\ lastIdx(rf[t].log) <= lastIdx(rf'[t].log)
      BY <1>14, <1>15, Zenon
    <3> QED
      BY <2>1, <2>2, <3>1
<1>16. ASSUME NEW t \in Server, rf'[t].role = Leader, NEW h \in hist2, NEW i \in 1..Len(h),
              h[i].Term = rf'[t].currentTerm
       PROVE  i <= lastIdx(rf'[t].log)
  <2>1. CASE h \in hist
    BY <1>15, <1>16, <2>1
  <2>2. CASE h = f /\ i \in 1..Len(g) /\ f[i] = g[i]
    BY <1>3, <1>15, <1>16, <2>2
  <2>3. CASE h = f /\ i = Len(g) + 1 /\ f[i] = e
    <3>1. rf[t].currentTerm = rf[s].currentTerm
      BY <1>4, <1>14, <1>16, <2>3, Zenon
    <3>2. t = s
      BY <1>14, <1>16, <3>1
    <3> QED
      BY <1>5, <2>3, <3>2
  <2> QED
    BY <1>7, <1>9, <2>1, <2>2, <2>3, Zenon
<1>17. LeaderHas(hist2)'
  BY <1>16 DEF LeaderHas
<1>18. LogsFrom(hist2)'
  <2>1. \A t \in Server : full(rf'[t].log) \in hist2 /\ logOK(rf'[t].log)
    BY <1>2, <1>4, <1>6, <1>7, Zenon DEF LogsFrom
  <2> QED
    BY <2>1 DEF LogsFrom
<1>19. CallsFrom(hist2)'
  <2>1. \A t, p \in Server : \A c \in callsIn(rpc'[t][p]) :
           c.kind # "RequestVote" => \E h \in hist2 : carries(c, h)
    BY <1>2, <1>4, <1>7, Zenon DEF CallsFrom
  <2> QED
    BY <2>1 DEF CallsFrom, callsIn
<1>20. histOK(cast2, hist2)'
  BY <1>8, <1>13, <1>17, <1>18, <1>19 DEF histOK, family
<1> QED
  BY <1>1, <1>20

-----------------------------------------------------------------------------
(* The invariant, and what follows from it. *)

\* A step is quiet, or it is Start.
LEMMA NextLogs ==
  ASSUME ElectionInv, [Next]_vars, NEW cast, NEW hist, histOK(cast, hist)
  PROVE  \/ LogsStay(hist) /\ CallsStay(hist)
         \/ \E s \in Server : \E command \in Cmd : Start(s, command)
<1>0. IndInv /\ family(hist) /\ LogsFrom(hist) /\ CallsFrom(hist)
  BY DEF ElectionInv, histOK
<1> DEFINE Stays == LogsStay(hist) /\ CallsStay(hist)
<1>1. SameLogs /\ SameCalls => Stays
  BY <1>0, SameStays
<1> HIDE DEF Stays
<1>2. ASSUME NEW s \in Server,
             \/ electionTicker(s) \/ startElection(s) \/ startReplication(s)
             \/ applicationTicker(s) \/ Restart(s)
      PROVE  Stays
  <2>1. CASE electionTicker(s) \/ startElection(s)
    BY <1>0, <1>1, <2>1, CandidateLogs
  <2>2. CASE startReplication(s)
    BY <1>0, <2>2, StartReplicationLogs DEF Stays
  <2>3. CASE applicationTicker(s)
    BY <1>0, <1>1, <2>3, IdleLogs
  <2>4. CASE Restart(s)
    BY <1>0, <1>1, <2>4, RestartLogs
  <2> QED
    BY <1>2, <2>1, <2>2, <2>3, <2>4
<1>3. ASSUME NEW s \in Server, NEW index \in 1..lastIdx(rf[s].log), Snapshot(s, index)
      PROVE  Stays
  BY <1>0, <1>3, SnapshotLogs DEF Stays
<1>4. ASSUME NEW s \in Server, NEW p \in Server, Handle(s, p) PROVE Stays
  <2>1. ASSUME NEW i \in DOMAIN rpc[s][p], RequestVote(s, p, i) PROVE Stays
    BY <1>0, <1>1, <2>1, RequestVoteLogs, Zenon
  <2>2. ASSUME NEW i \in DOMAIN rpc[s][p], AppendEntries(s, p, i) PROVE Stays
    BY <1>0, <2>2, AppendEntriesLogs DEF Stays
  <2>3. ASSUME NEW i \in DOMAIN rpc[s][p], InstallSnapshot(s, p, i) PROVE Stays
    BY <1>0, <2>3, InstallSnapshotLogs DEF Stays
  <2> QED
    BY <1>4, <2>1, <2>2, <2>3 DEF Handle
<1>5. ASSUME NEW s \in Server, NEW p \in Server, Resume(s, p) PROVE Stays
  BY <1>0, <1>1, <1>5, ResumeLogs, Zenon DEF Resume
<1>6. ASSUME NEW s \in Server, NEW p \in Server, NEW i \in DOMAIN rpc[s][p], Lose(s, p, i)
      PROVE  Stays
  BY <1>0, <1>1, <1>6, IdleLogs, Zenon
<1>7. CASE UNCHANGED vars
  <2>1. SameLogs /\ SameCalls
    BY <1>7 DEF vars, SameLogs, SameCalls, sameCall
  <2> QED
    BY <1>1, <2>1 DEF Stays
<1>8. ASSUME Next
      PROVE  Stays \/ \E s \in Server : \E command \in Cmd : Start(s, command)
  <2>1. CASE \E s \in Server :
               \/ electionTicker(s) \/ startElection(s) \/ startReplication(s)
               \/ applicationTicker(s) \/ Restart(s)
               \/ \E command \in Cmd : Start(s, command)
               \/ \E index \in 1..lastIdx(rf[s].log) : Snapshot(s, index)
    BY <1>2, <1>3, <2>1, Zenon
  <2>2. CASE \E s, p \in Server :
               \/ Handle(s, p) \/ Resume(s, p)
               \/ \E i \in DOMAIN rpc[s][p] : Lose(s, p, i)
    BY <1>4, <1>5, <1>6, <2>2, Zenon
  <2> QED
    BY <1>8, <2>1, <2>2, Zenon DEF Next
<1> QED
  BY <1>7, <1>8, Zenon DEF Stays

\* Nothing was written before the first step.
LEMMA InitMatch == Init => MatchInv
<1> SUFFICES ASSUME Init PROVE MatchInv
  OBVIOUS
<1>1. ElectionInv
  BY InitElection
<1>2. \A s \in Server : /\ rf[s].currentTerm = 0 /\ rf[s].votedFor = Nil /\ rf[s].role = Follower
                        /\ rf[s].log = NewLog
  BY Zenon DEF Init, Make
<1>3. \A s, p \in Server : callsIn(rpc[s][p]) = {}
  <2>1. \A s, p \in Server : rpc[s][p] = <<>>
    BY DEF Init
  <2> QED
    BY <2>1 DEF callsIn
<1>4. PICK cast : cast = [q \in Server |-> [T \in Nat |-> Nil]]
  BY Zenon
<1>5. castOK(cast)
  <2>1. cast \in [Server -> [Nat -> Server \cup {Nil}]]
    BY <1>4
  <2>2. \A q \in Server : \A T \in Nat : cast[q][T] = Nil
    BY <1>4
  <2>3. \A q \in Server : cast[q][rf[q].currentTerm] = rf[q].votedFor
    BY <1>2, <2>2
  <2>4. \A s, q \in Server : \A T \in Nat : ~holdsVote(rf[s], rpc[s][q], q, T)
    BY <1>2, <1>3 DEF holdsVote
  <2> QED
    BY <2>1, <2>2, <2>3, <2>4, Zenon DEF castOK
<1>6. PICK hist : hist = {<<>>}
  BY Zenon
<1>7. \A h \in hist : h \in Seq(Entry) /\ Len(h) = 0
  BY <1>6
<1>8. family(hist)
  <2>1. \A h \in hist : \A n \in 0..Len(h) : SubSeq(h, 1, n) \in hist
    <3> SUFFICES ASSUME NEW h \in hist, NEW n \in 0..Len(h) PROVE SubSeq(h, 1, n) \in hist
      BY Zenon
    <3>1. n = 0 /\ h = <<>>
      BY <1>6, <1>7
    <3>2. Len(SubSeq(h, 1, n)) = 0 /\ SubSeq(h, 1, n) \in Seq(Entry)
      BY <1>7, <3>1, SeqCut
    <3> QED
      BY <1>6, <3>2, SeqEmpty, Zenon
  <2>2. \A h, g \in hist : matches(h, g)
    BY <1>7 DEF matches
  <2> QED
    BY <1>7, <2>1, <2>2, Zenon DEF family
<1>9. Written(cast, hist) /\ LeaderHas(hist)
  BY <1>7 DEF Written, LeaderHas
<1>10. LogsFrom(hist)
  BY <1>2, <1>6, FullNew DEF LogsFrom
<1>11. CallsFrom(hist)
  BY <1>3 DEF CallsFrom
<1> QED
  BY <1>1, <1>5, <1>8, <1>9, <1>10, <1>11, Zenon DEF MatchInv, histOK
=============================================================================
