--------------------------- MODULE ScheduleProofs ---------------------------
(***************************************************************************)
(* The laws of the height schedule, for all validated parameters.          *)
(***************************************************************************)
EXTENDS ScheduleScan, ScheduleFacts, FiniteSetTheorems

STypeOK == name \in NameIds /\ start \in Height /\ end \in Height

LEMMA SType == SSpec => []STypeOK
  <1>1. SInit => STypeOK
    BY DEF SInit, STypeOK
  <1>2. STypeOK /\ [Extend]_svars => STypeOK'
    BY ParametersAssumption DEF STypeOK, Extend, svars, Height
  <1> QED BY <1>1, <1>2, PTL DEF SSpec

\* Every validated schedule keeps COMMITs out of the window they are used in:
\* accepts_operation and accepts_commit together put the COMMIT before it.
THEOREM CommitsPrecedeWindows == SSpec => []CommitPrecedesWindow
  <1>1. STypeOK => CommitPrecedesWindow
    <2> SUFFICES ASSUME STypeOK, accepts_operation(name, end), accepts_commit(start, end)
                 PROVE  start < window(name, epoch(end)).start
      BY DEF CommitPrecedesWindow
    <2>1. /\ start \in Nat /\ end \in Nat /\ name \in NameIds
      BY ParametersAssumption DEF STypeOK, Height
    <2>2. /\ end < window(name, epoch(end)).start + window_blocks
          /\ window(name, epoch(end)).start \in Nat
      BY <2>1, AcceptedInWindow, WindowStarts
    <2>3. end - start >= window_blocks
      BY <2>1, ParameterFacts DEF accepts_commit
    <2> QED BY <2>1, <2>2, <2>3, ParameterFacts
  <1> QED BY <1>1, SType, PTL

\* A stored COMMIT can open a REVEAL of a name in one epoch only.
THEOREM CommitsServeOneEpoch == SSpec => []CommitServesOneEpoch
  <1>1. STypeOK => CommitServesOneEpoch
    <2> SUFFICES ASSUME STypeOK, NEW h \in Height,
                        accepts_operation(name, end), accepts_commit(start, end),
                        accepts_operation(name, h), accepts_commit(start, h)
                 PROVE  epoch(end) = epoch(h)
      BY DEF CommitServesOneEpoch
    <2>1. /\ start \in Nat /\ end \in Nat /\ h \in Nat /\ name \in NameIds
      BY ParametersAssumption DEF STypeOK, Height
    <2>2. ASSUME NEW a \in Nat, NEW b \in Nat,
                 accepts_operation(name, a), accepts_commit(start, a),
                 accepts_operation(name, b), accepts_commit(start, b),
                 epoch(a) < epoch(b)
          PROVE  FALSE
      <3> DEFINE s == window(name, epoch(a)).start
                 t == window(name, epoch(b)).start
      <3>1. /\ s \in Nat /\ t \in Nat /\ t >= s + epoch_blocks
            /\ a < s + window_blocks /\ t <= b
        BY <2>1, <2>2, AcceptedInWindow, WindowStarts
      <3> HIDE DEF s, t
      <3>2. a - start >= commit_maturity_blocks /\ b - start < commit_ttl_blocks
        BY <2>2 DEF accepts_commit
      <3> QED BY <2>1, <3>1, <3>2, ParameterFacts
    <2>3. epoch(end) \in Nat /\ epoch(h) \in Nat
      BY <2>1, AcceptedInWindow
    <2>4. ~(epoch(end) < epoch(h)) /\ ~(epoch(h) < epoch(end))
      BY <2>1, <2>2
    <2> QED BY <2>3, <2>4
  <1> QED BY <1>1, SType, PTL

\* A lease taken in a window always reaches the owner's next window.
THEOREM RenewalsPrecedeExpiry == SSpec => []RenewalBeforeExpiry
  <1>1. STypeOK => RenewalBeforeExpiry
    <2> SUFFICES ASSUME STypeOK, accepts_operation(name, start)
                 PROVE  window(name, epoch(start) + 1).start < expiry(start)
      BY DEF RenewalBeforeExpiry
    <2>1. start \in Nat /\ name \in NameIds
      BY ParametersAssumption DEF STypeOK, Height
    <2>2. /\ window(name, epoch(start)).start <= start
          /\ window(name, epoch(start)).start \in Nat
          /\ window(name, epoch(start) + 1).start =
               window(name, epoch(start)).start + epoch_blocks
      BY <2>1, AcceptedInWindow, WindowStarts
    <2> QED BY <2>1, <2>2, ParameterFacts DEF expiry
  <1> QED BY <1>1, SType, PTL

-----------------------------------------------------------------------------
(***************************************************************************)
(* The scan plan.                                                          *)
(***************************************************************************)
Place(S, e) == Cardinality({f \in S : f >= e})

\* Counting from the greatest element numbers a finite set of naturals.
LEMMA Places ==
    ASSUME NEW S \in SUBSET Nat, IsFiniteSet(S)
    PROVE  /\ Cardinality(S) \in Nat
           /\ \A e \in S : Place(S, e) \in 1 .. Cardinality(S)
           /\ \A e, f \in S : e < f => Place(S, f) < Place(S, e)
           /\ \A i \in 1 .. Cardinality(S) : \E e \in S : Place(S, e) = i
  <1> DEFINE N == Cardinality(S)
             above(e) == {f \in S : f >= e}
             at == [e \in S |-> Place(S, e)]
  <1>1. N \in Nat
    BY FS_CardinalityType
  <1>2. ASSUME NEW e \in S
        PROVE  /\ IsFiniteSet(above(e)) /\ Cardinality(above(e)) \in Nat
               /\ Cardinality(above(e)) <= N /\ Cardinality(above(e)) # 0
    <2>1. above(e) \in SUBSET S /\ e \in above(e)
      OBVIOUS
    <2>2. IsFiniteSet(above(e)) /\ Cardinality(above(e)) <= N
      BY <2>1, FS_Subset
    <2>3. Cardinality(above(e)) \in Nat
      BY <2>2, FS_CardinalityType
    <2> QED BY <2>1, <2>2, <2>3, FS_EmptySet
  <1>3. \A e \in S : Place(S, e) \in 1 .. N
    BY <1>1, <1>2 DEF Place
  <1>4. ASSUME NEW e \in S, NEW f \in S, e < f
        PROVE  Place(S, f) < Place(S, e)
    <2>1. above(f) \in SUBSET above(e) /\ e \in above(e) /\ e \notin above(f)
      <3>1. e \in Nat /\ f \in Nat /\ \A g \in S : g \in Nat
        OBVIOUS
      <3>2. e >= e /\ ~(e >= f) /\ \A g \in S : g >= f => g >= e
        BY <1>4, <3>1
      <3> QED BY <3>2
    <2>2. /\ Cardinality(above(f)) <= Cardinality(above(e))
          /\ Cardinality(above(f)) # Cardinality(above(e))
      BY <1>2, <2>1, FS_Subset
    <2> QED BY <1>2, <2>2 DEF Place
  <1>5. at \in Injection(S, 1 .. N)
    <2>1. at \in [S -> 1 .. N]
      BY <1>3
    <2>2. ASSUME NEW e \in S, NEW f \in S, at[e] = at[f]
          PROVE  e = f
      <3>1. Place(S, e) = Place(S, f) /\ Place(S, e) \in Nat
        BY <1>3, <2>2
      <3>2. ~(e < f) /\ ~(f < e)
        BY <1>4, <3>1
      <3> QED BY <3>2
    <2> QED BY <2>1, <2>2 DEF Injection, IsInjective
  <1>6. IsFiniteSet(1 .. N) /\ Cardinality(1 .. N) = N
    BY <1>1, FS_Interval
  <1>7. at \in Surjection(S, 1 .. N)
    BY <1>5, <1>6, FS_Injection
  <1>8. \A i \in 1 .. N : \E e \in S : Place(S, e) = i
    BY <1>7 DEF Surjection
  <1> QED BY <1>1, <1>3, <1>4, <1>8

\* A height in the window of an epoch lies in that epoch.
LEMMA WindowInEpoch ==
    ASSUME NEW n \in NameIds, NEW e \in Nat, NEW h \in Nat, contains(window(n, e), h)
    PROVE  h >= activation_height /\ epoch(h) = e
  <1> DEFINE a == h - activation_height
             q == a \div epoch_blocks
             ee == e * epoch_blocks
  <1>1. /\ ee \in Nat /\ activation_height \in Nat /\ epoch_blocks \in Nat
        /\ epoch_blocks > 0 /\ window_blocks \in Nat
        /\ offset(n) \in Nat /\ offset(n) + window_blocks <= epoch_blocks
    BY ParameterFacts, OffsetRange
  <1>2. /\ activation_height + ee + offset(n) <= h
        /\ h < activation_height + ee + offset(n) + window_blocks
    BY DEF contains, window
  <1> HIDE DEF ee
  <1>3. a \in Nat /\ ee <= a /\ a < ee + epoch_blocks /\ h >= activation_height
    BY <1>1, <1>2
  <1> HIDE DEF a
  <1>4. q \in Nat /\ q * epoch_blocks <= a /\ a < q * epoch_blocks + epoch_blocks
    BY <1>1, <1>3, Division
  <1> HIDE DEF q
  <1>5. /\ q < e => ee >= q * epoch_blocks + epoch_blocks
        /\ e < q => q * epoch_blocks >= ee + epoch_blocks
        /\ q * epoch_blocks \in Nat
    BY <1>1, <1>4, Multiples DEF ee
  <1>6. q = e
    BY <1>1, <1>3, <1>4, <1>5
  <1> QED BY <1>3, <1>6 DEF epoch, q, a

\* The epochs a scan visits, and what it keeps of each window.
LEMMA ScannedEpochs ==
    ASSUME STypeOK, start < end
    PROVE  LET S == scanned_epochs(name, start, end)
               from == effective_start(start)
           IN  /\ S \in SUBSET Nat /\ IsFiniteSet(S) /\ S \subseteq scan_epochs(start, end)
               /\ \A e \in S :
                    LET w == clipped(name, e, start, end)
                    IN  /\ w.start < w.end /\ start <= w.start /\ w.end <= end
                        /\ w.start \in Nat /\ w.end \in Nat
                        /\ window(name, e).start <= w.start /\ w.end <= window(name, e).end
               /\ \A e \in scan_epochs(start, end), h \in start .. end - 1 :
                    contains(clipped(name, e, start, end), h) <=>
                      contains(window(name, e), h) /\ h >= from
  <1> DEFINE S == scanned_epochs(name, start, end)
             from == effective_start(start)
             E == scan_epochs(start, end)
  <1>1. /\ start \in Nat /\ end \in Nat /\ end - 1 \in Nat /\ activation_height \in Nat
        /\ name \in NameIds
    BY ParameterFacts, ParametersAssumption DEF STypeOK, Height
  <1>2. from \in Nat /\ from >= start /\ from >= activation_height
    BY <1>1 DEF effective_start
  <1>3. E \in SUBSET Nat /\ IsFiniteSet(E)
    <2>1. CASE from >= end
      BY <2>1, FS_EmptySet DEF scan_epochs
    <2>2. CASE ~(from >= end)
      <3>1. from <= end - 1
        BY <1>1, <1>2, <2>2
      <3>2. epoch(from) \in Nat /\ epoch(end - 1) \in Nat
        BY <1>1, <1>2, <3>1, EpochOrder
      <3>3. E = epoch(from) .. epoch(end - 1)
        BY <2>2 DEF scan_epochs
      <3> QED BY <3>2, <3>3, FS_Interval
    <2> QED BY <2>1, <2>2
  <1>4. S \subseteq E
    BY DEF scanned_epochs
  <1>5. S \in SUBSET Nat /\ IsFiniteSet(S)
    BY <1>3, <1>4, FS_Subset
  <1> HIDE DEF from, E
  <1>6. ASSUME NEW e \in E
        PROVE  LET c == clipped(name, e, start, end)
                   w == window(name, e)
               IN  /\ c.start = IF w.start >= from THEN w.start ELSE from
                   /\ c.end = IF w.end <= end THEN w.end ELSE end
                   /\ w.start \in Nat /\ w.end \in Nat
    <2>1. e \in Nat
      BY <1>3
    <2>2. /\ window(name, e).start \in Nat
          /\ window(name, e).end = window(name, e).start + window_blocks
      BY <1>1, <2>1, WindowStarts
    <2> QED BY <2>2, ParameterFacts DEF clipped, from
  <1>7. ASSUME NEW e \in S
        PROVE  LET w == clipped(name, e, start, end)
               IN  /\ w.start < w.end /\ start <= w.start /\ w.end <= end
                   /\ w.start \in Nat /\ w.end \in Nat
                   /\ window(name, e).start <= w.start /\ w.end <= window(name, e).end
    <2>1. clipped(name, e, start, end).start < clipped(name, e, start, end).end
      BY DEF scanned_epochs
    <2> QED BY <1>1, <1>2, <1>4, <1>6, <2>1
  <1>8. ASSUME NEW e \in E, NEW h \in start .. end - 1
        PROVE  contains(clipped(name, e, start, end), h) <=>
                 contains(window(name, e), h) /\ h >= from
    BY <1>1, <1>2, <1>6 DEF contains
  <1> QED BY <1>4, <1>5, <1>7, <1>8 DEF from, E

LEMMA PlanWindows ==
    ASSUME STypeOK, start < end
    PROVE  LET S == scanned_epochs(name, start, end)
           IN  /\ \A i \in DOMAIN plan : \E e \in S :
                    Place(S, e) = i /\ plan[i] = clipped(name, e, start, end)
               /\ \A e \in S : /\ Place(S, e) \in DOMAIN plan
                               /\ plan[Place(S, e)] = clipped(name, e, start, end)
  <1> DEFINE S == scanned_epochs(name, start, end)
             pick(i) == CHOOSE e \in S : Place(S, e) = i
  <1>1. S \in SUBSET Nat /\ IsFiniteSet(S)
    BY ScannedEpochs
  <1>2. plan = [i \in 1 .. Cardinality(S) |-> clipped(name, pick(i), start, end)]
    BY DEF plan, operation_windows_descending, Place
  <1> HIDE DEF S
  <1>3. \A i \in 1 .. Cardinality(S) : pick(i) \in S /\ Place(S, pick(i)) = i
    BY <1>1, Places
  <1>4. ASSUME NEW e \in S
        PROVE  Place(S, e) \in 1 .. Cardinality(S) /\ pick(Place(S, e)) = e
    <2> DEFINE f == pick(Place(S, e))
    <2>1. Place(S, e) \in 1 .. Cardinality(S)
      BY <1>1, Places
    <2>2. f \in S /\ Place(S, f) = Place(S, e)
      BY <1>3, <2>1
    <2> HIDE DEF f
    <2>3. ~(e < f) /\ ~(f < e) /\ Place(S, e) \in Nat
      BY <1>1, <2>1, <2>2, Places
    <2>4. f = e
      BY <1>1, <2>2, <2>3
    <2> QED BY <2>1, <2>4 DEF f
  <1> HIDE DEF pick
  <1>5. DOMAIN plan = 1 .. Cardinality(S)
        /\ \A i \in 1 .. Cardinality(S) : plan[i] = clipped(name, pick(i), start, end)
    BY <1>2
  <1> QED BY <1>3, <1>4, <1>5 DEF S

\* The scan plan of a resolver covers exactly the heights at which the reducer
\* can accept an operation of the name, newest window first: clipping at both
\* ends and leaving out empty windows loses no height and adds none
\* (operation_windows_descending against accepts_operation).
THEOREM ScansCoverExactly == SSpec => []ScanCoversExactly
  <1>1. STypeOK => ScanCoversExactly
    <2> SUFFICES ASSUME STypeOK, ~scan_fails(name, start, end)
                 PROVE  /\ \A h \in start .. end - 1 :
                             accepts_operation(name, h) <=>
                               \E i \in DOMAIN plan : contains(plan[i], h)
                        /\ \A i \in DOMAIN plan :
                             /\ plan[i].start < plan[i].end
                             /\ start <= plan[i].start /\ plan[i].end <= end
                        /\ \A i, j \in DOMAIN plan : i < j => plan[j].end <= plan[i].start
      BY DEF ScanCoversExactly
    <2> DEFINE S == scanned_epochs(name, start, end)
               E == scan_epochs(start, end)
               from == effective_start(start)
               cut(e) == clipped(name, e, start, end)
    <2>1. /\ start \in Nat /\ end \in Nat /\ name \in NameIds /\ activation_height \in Nat
      BY ParameterFacts, ParametersAssumption DEF STypeOK, Height
    <2>2. start < end /\ \A e \in E : window_fits(name, e)
      BY <2>1 DEF scan_fails
    <2>3. /\ S \in SUBSET Nat /\ IsFiniteSet(S) /\ S \subseteq E
          /\ \A e \in S :
               /\ cut(e).start < cut(e).end /\ start <= cut(e).start /\ cut(e).end <= end
               /\ cut(e).start \in Nat /\ cut(e).end \in Nat
               /\ window(name, e).start <= cut(e).start
               /\ cut(e).end <= window(name, e).end
          /\ \A e \in E, h \in start .. end - 1 :
               contains(cut(e), h) <=> contains(window(name, e), h) /\ h >= from
      BY <2>2, ScannedEpochs
    <2>4. /\ \A i \in DOMAIN plan : \E e \in S : Place(S, e) = i /\ plan[i] = cut(e)
          /\ \A e \in S : Place(S, e) \in DOMAIN plan /\ plan[Place(S, e)] = cut(e)
      BY <2>2, PlanWindows
    <2> HIDE DEF S, cut
    <2>5. ASSUME NEW h \in start .. end - 1, accepts_operation(name, h)
          PROVE  \E i \in DOMAIN plan : contains(plan[i], h)
      <3>1. h \in Nat /\ h >= activation_height /\ h >= start /\ h <= end - 1
        BY <2>1, <2>5 DEF accepts_operation
      <3>2. from \in Nat /\ from >= activation_height /\ from <= h /\ from <= end - 1
            /\ ~(from >= end)
        BY <2>1, <3>1 DEF effective_start
      <3>3. epoch(h) \in E
        <4>1. epoch(from) <= epoch(h) /\ epoch(h) <= epoch(end - 1)
          BY <2>1, <3>1, <3>2, EpochOrder
        <4>2. epoch(from) \in Nat /\ epoch(h) \in Nat /\ epoch(end - 1) \in Nat
          BY <2>1, <3>1, <3>2, EpochOrder
        <4> QED BY <3>2, <4>1, <4>2 DEF scan_epochs
      <3>4. contains(cut(epoch(h)), h)
        BY <2>3, <2>5, <3>2, <3>3 DEF accepts_operation
      <3>5. cut(epoch(h)).start < cut(epoch(h)).end
        <4>1. /\ window(name, epoch(h)).start \in Nat
              /\ window(name, epoch(h)).end = window(name, epoch(h)).start + window_blocks
          <5>1. epoch(h) \in Nat
            BY <3>1, EpochNat
          <5> QED BY <2>1, <5>1, WindowStarts
        <4>2. cut(epoch(h)).start \in Nat /\ cut(epoch(h)).end \in Nat
          BY <2>1, <3>2, <4>1, ParameterFacts DEF cut, clipped
        <4> QED BY <3>1, <3>4, <4>2 DEF contains
      <3>6. epoch(h) \in S
        BY <3>3, <3>5 DEF S, cut, scanned_epochs
      <3> QED BY <2>4, <3>4, <3>6
    <2>6. ASSUME NEW h \in start .. end - 1, NEW i \in DOMAIN plan, contains(plan[i], h)
          PROVE  accepts_operation(name, h)
      <3>1. PICK e \in S : plan[i] = cut(e)
        BY <2>4
      <3>2. e \in E /\ e \in Nat /\ h \in Nat /\ contains(window(name, e), h)
        BY <2>1, <2>3, <2>6, <3>1
      <3>3. h >= activation_height /\ epoch(h) = e
        BY <2>1, <3>2, WindowInEpoch
      <3> QED BY <2>2, <3>2, <3>3 DEF accepts_operation
    <2>7. ASSUME NEW i \in DOMAIN plan, NEW j \in DOMAIN plan, i < j
          PROVE  plan[j].end <= plan[i].start
      <3>1. PICK e \in S : Place(S, e) = i /\ plan[i] = cut(e)
        BY <2>4
      <3>2. PICK f \in S : Place(S, f) = j /\ plan[j] = cut(f)
        BY <2>4
      <3>3. e \in Nat /\ f \in Nat /\ i \in Nat /\ j \in Nat
        BY <2>3, <3>1, <3>2, Places
      <3>4. f < e
        <4>1. ~(e < f) /\ e # f
          <5>1. e < f => j < i
            BY <2>3, <3>1, <3>2, Places
          <5> QED BY <2>7, <3>1, <3>2, <3>3, <5>1
        <4> QED BY <3>3, <4>1
      <3>5. /\ window(name, e).start \in Nat /\ window(name, f).start \in Nat
            /\ window(name, f).end = window(name, f).start + window_blocks
            /\ window(name, e).start >= window(name, f).start + epoch_blocks
        BY <2>1, <3>3, <3>4, WindowStarts
      <3>6. /\ plan[j].end <= window(name, f).end /\ window(name, e).start <= plan[i].start
            /\ plan[j].end \in Nat /\ plan[i].start \in Nat
        BY <2>3, <3>1, <3>2
      <3> QED BY <3>5, <3>6, ParameterFacts
    <2>8. \A i \in DOMAIN plan : /\ plan[i].start < plan[i].end
                                 /\ start <= plan[i].start /\ plan[i].end <= end
      BY <2>3, <2>4
    <2> QED BY <2>5, <2>6, <2>7, <2>8
  <1> QED BY <1>1, SType, PTL

=============================================================================
