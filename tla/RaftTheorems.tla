---------------------------- MODULE RaftTheorems ----------------------------
(***************************************************************************)
(* The properties of raft_paper.md that hold of this code whatever the      *)
(* network does: one leader in a term (1), leaders only append (2), log     *)
(* matching (3), for any finite group and any number of crashes and         *)
(* snapshots.                                                               *)
(***************************************************************************)
EXTENDS RaftMatchingProofs, FiniteSetTheorems

\* Majorities of a finite group meet, and what contains a majority is one.
LEMMA QuorumsMeet == Quorums
<1>1. IsFiniteSet(Server) /\ Cardinality(Server) \in Nat
  BY ServerAssumption, FS_CardinalityType
<1>2. \A Q \in SUBSET Server : IsFiniteSet(Q) /\ Cardinality(Q) \in Nat
  BY <1>1, FS_Subset, FS_CardinalityType
<1>3. ASSUME NEW Q \in SUBSET Server, NEW R \in SUBSET Server, majority(Q), majority(R)
      PROVE  \E q \in Server : q \in Q /\ q \in R
  <2>1. Cardinality(Q) + Cardinality(R) > Cardinality(Server)
    BY <1>1, <1>2, <1>3 DEF majority
  <2>2. Q \cap R # {}
    BY <1>1, <2>1, FS_MajoritiesIntersect
  <2> QED
    BY <2>2
<1>4. ASSUME NEW Q \in SUBSET Server, NEW R \in SUBSET Server, Q \subseteq R, majority(Q)
      PROVE  majority(R)
  <2>1. IsFiniteSet(R) /\ Q \in SUBSET R
    BY <1>2, <1>4
  <2>2. Cardinality(Q) <= Cardinality(R)
    BY <2>1, FS_Subset
  <2> QED
    BY <1>1, <1>2, <1>4, <2>2 DEF majority
<1> QED
  BY <1>3, <1>4, Zenon DEF Quorums

\* At most one peer leads in a term (raft_paper.md, property 1), for any finite group,
\* any loss, delay and reordering of RPCs, and any number of crashes.
THEOREM ElectionSafe == Spec => []ElectionSafety
<1>1. ElectionInv => ElectionSafety
  BY MajoritiesAgree, QuorumsMeet
<1> QED
  BY <1>1, ElectionInvariance, PTL

\* Every step keeps the invariant.
LEMMA NextMatch == MatchInv /\ [Next]_vars => MatchInv'
<1> SUFFICES ASSUME MatchInv, [Next]_vars PROVE MatchInv'
  OBVIOUS
<1>1. ElectionInv /\ OrderlyStep
  BY NextElection DEF MatchInv
<1>2. PICK cast, hist : castOK(cast) /\ histOK(cast, hist)
  BY DEF MatchInv
<1>3. \E cast2, hist2 : castOK(cast2)' /\ histOK(cast2, hist2)'
  <2>1. CASE LogsStay(hist) /\ CallsStay(hist)
    BY <1>1, <1>2, <2>1, QuietLogs, QuorumsMeet, Zenon
  <2>2. ASSUME NEW s \in Server, NEW command \in Cmd, Start(s, command)
        PROVE  \E cast2, hist2 : castOK(cast2)' /\ histOK(cast2, hist2)'
    BY <1>1, <1>2, <2>2, StartLogs, QuorumsMeet, Zenon
  <2> QED
    BY <1>1, <1>2, <2>1, <2>2, NextLogs, Zenon
<1>4. ElectionInv'
  BY <1>1 DEF OrderlyStep
<1> QED
  BY <1>3, <1>4, Zenon DEF MatchInv

\* There is always a record of the votes and a set of the logs ever written.
THEOREM MatchInvariance == Spec => []MatchInv
  BY InitMatch, NextMatch, PTL DEF Spec

\* The logs are of one family, so they match.
LEMMA MatchLogs == MatchInv => LogMatching
<1> SUFFICES ASSUME MatchInv, NEW s \in Server, NEW t \in Server,
                    NEW i \in 1..lastIdx(rf[s].log),
                    inRange(rf[s].log, i), inRange(rf[t].log, i),
                    at(rf[s].log, i).Term = at(rf[t].log, i).Term
             PROVE  agreeTo(rf[s].log, rf[t].log, i)
  BY Zenon DEF LogMatching
<1>1. PICK cast, hist : castOK(cast) /\ histOK(cast, hist)
  BY DEF MatchInv
<1>2. /\ logOK(rf[s].log) /\ logOK(rf[t].log)
      /\ matches(full(rf[s].log), full(rf[t].log))
  BY <1>1 DEF histOK, LogsFrom, family
<1>3. rf[s].log \in Log /\ rf[t].log \in Log
  BY IndInvTypes DEF MatchInv, ElectionInv
<1>4. /\ lastIdx(rf[s].log) \in Nat /\ lastIdx(rf[t].log) \in Nat
      /\ size(rf[t].log) = lastIdx(rf[t].log) + 1
      /\ Len(full(rf[s].log)) = lastIdx(rf[s].log)
      /\ Len(full(rf[t].log)) = lastIdx(rf[t].log)
  BY <1>3, LogEnds, FullLog
<1>5. i \in Nat \ {0} /\ i <= lastIdx(rf[t].log) /\ i <= lastIdx(rf[s].log)
  BY <1>4 DEF inRange
<1>6. full(rf[s].log)[i].Term = full(rf[t].log)[i].Term
  BY <1>2, <1>3, <1>5, FullTerm
<1>7. \A k \in 1..i : full(rf[s].log)[k] = full(rf[t].log)[k]
  BY <1>2, <1>4, <1>5, <1>6 DEF matches
<1>8. \A k \in 1..i : /\ full(rf[s].log)[k] = entryAt(rf[s].log, k)
                      /\ full(rf[t].log)[k] = entryAt(rf[t].log, k)
  BY <1>3, <1>4, <1>5, FullLog
<1> QED
  BY <1>7, <1>8 DEF agreeTo

\* Two logs with an entry of the same index and term are the same up to it (raft_paper.md,
\* property 3), for any finite group, whatever the network and the crashes do.
THEOREM LogsMatch == Spec => []LogMatching
  BY MatchInvariance, MatchLogs, PTL

\* The leader's entries stay where they are.
LEMMA LeaderKeeps ==
  ASSUME MatchInv, [Next]_vars, NEW s \in Server, rf[s].role = Leader, rf'[s].role = Leader
  PROVE  /\ lastIdx(rf'[s].log) >= lastIdx(rf[s].log)
         /\ agreeTo(rf[s].log, rf'[s].log, lastIdx(rf[s].log))
<1>0. ElectionInv /\ OrderlyStep /\ IndInv
  BY NextElection DEF MatchInv, ElectionInv
<1>1. PICK cast, hist : castOK(cast) /\ histOK(cast, hist)
  BY DEF MatchInv
<1>2. logOK(rf[s].log)
  BY <1>1 DEF histOK, LogsFrom
<1>3. PICK g : g = full(rf[s].log)
  BY Zenon
<1>4. PICK f : f = full(rf'[s].log)
  BY Zenon
<1>5. rf[s].log \in Log /\ rf'[s].log \in Log
  BY <1>0, LogTypes
<1>6. /\ g \in Seq(Entry) /\ Len(g) = lastIdx(rf[s].log) /\ Len(g) \in Nat
      /\ Len(f) = lastIdx(rf'[s].log)
      /\ \A k \in 1..Len(g) : g[k] = entryAt(rf[s].log, k)
      /\ \A k \in 1..Len(f) : f[k] = entryAt(rf'[s].log, k)
  BY <1>3, <1>4, <1>5, FullLog, LogEnds
<1>7. Len(f) >= Len(g) /\ Len(f) \in Nat /\ \A k \in 1..Len(g) : f[k] = g[k]
  <2>1. CASE f = g
    BY <1>6, <2>1
  <2>2. ASSUME NEW e \in Entry, f = Append(g, e)
        PROVE  Len(f) >= Len(g) /\ Len(f) \in Nat /\ \A k \in 1..Len(g) : f[k] = g[k]
    <3>1. Len(f) = Len(g) + 1 /\ \A k \in 1..Len(g) : f[k] = g[k]
      BY <1>6, <2>2, SeqAppend
    <3> QED
      BY <1>6, <3>1
  <2>3. f = g \/ \E e \in Entry : f = Append(g, e)
    <3>1. CASE LogsStay(hist)
      BY <1>3, <1>4, <3>1 DEF LogsStay, Leader, Follower
    <3>2. ASSUME NEW t \in Server, NEW command \in Cmd, Start(t, command)
          PROVE  f = g \/ \E e \in Entry : f = Append(g, e)
      <4>1. logOK(rf[t].log)
        BY <1>1 DEF histOK, LogsFrom
      <4>2. PICK e \in Entry : /\ full(rf'[t].log) = Append(full(rf[t].log), e)
                               /\ \A p \in Server \ {t} : rf'[p] = rf[p]
        BY <1>0, <3>2, <4>1, StartEffect, Zenon
      <4> QED
        BY <1>3, <1>4, <4>2
    <3> QED
      BY <1>0, <1>1, <3>1, <3>2, NextLogs, Zenon
  <2> QED
    BY <2>1, <2>2, <2>3, Zenon
<1>8. \A k \in 1..Len(g) : entryAt(rf[s].log, k) = entryAt(rf'[s].log, k)
  <2>1. \A k \in 1..Len(g) : k \in 1..Len(f)
    BY <1>6, <1>7
  <2> QED
    BY <1>6, <1>7, <2>1, Zenon
<1> QED
  BY <1>6, <1>7, <1>8, Zenon DEF agreeTo

\* A leader never overwrites or deletes an entry while it leads (raft_paper.md, property 2).
THEOREM LeadersOnlyAppend == Spec => LeaderAppendOnly
<1>1. ASSUME MatchInv, [Next]_vars
      PROVE  [\A s \in Server :
                (rf[s].role = Leader /\ rf'[s].role = Leader)
                => /\ lastIdx(rf'[s].log) >= lastIdx(rf[s].log)
                   /\ agreeTo(rf[s].log, rf'[s].log, lastIdx(rf[s].log))]_vars
  BY <1>1, LeaderKeeps, Zenon
<1> QED
  BY <1>1, MatchInvariance, PTL DEF Spec, LeaderAppendOnly
=============================================================================
