--------------------------- MODULE RefBaseProofs ---------------------------
(***************************************************************************)
(* Proofs about RefBase, for any number of references.                     *)
(***************************************************************************)
EXTENDS RefBase, FiniteSetTheorems, TLAPS

InStrong == {"strong", "sub", "first", "fix"}
NotWeak == {"none", "lastWeak", "loadWeak", "casWeak"}

\* Cardinality of a set of references that gains or loses one.
LEMMA AddRemove ==
    ASSUME NEW S, S \subseteq Ref, NEW r \in Ref
    PROVE  /\ IsFiniteSet(S) /\ Cardinality(S) \in Nat
           /\ Cardinality(S) =< Cardinality(Ref) /\ Cardinality(Ref) \in Nat
           /\ Cardinality(S) = 0 <=> S = {}
           /\ r \notin S => Cardinality(S \cup {r}) = Cardinality(S) + 1
           /\ r \in S => Cardinality(S \ {r}) = Cardinality(S) - 1
<1>1. IsFiniteSet(Ref)
  BY RefAssumption
<1>2. IsFiniteSet(S) /\ Cardinality(S) =< Cardinality(Ref)
  BY <1>1, FS_Subset
<1>3. Cardinality(S) \in Nat /\ Cardinality(Ref) \in Nat
  BY <1>1, <1>2, FS_CardinalityType
<1>4. Cardinality(S) = 0 <=> S = {}
  BY <1>2, FS_EmptySet
<1>5. r \notin S => Cardinality(S \cup {r}) = Cardinality(S) + 1
  BY <1>2, FS_AddElement
<1>6. r \in S => Cardinality(S \ {r}) = Cardinality(S) - 1
  BY <1>2, FS_RemoveElement
<1> QED
  BY <1>2, <1>3, <1>4, <1>5, <1>6

\* What the strong count tells: the initial value stands iff it was never touched,
\* zero means that no strong reference is left, and one that the only one is.
LEMMA StrongFacts ==
    ASSUME TypeOK, CountsExact, NEW r \in Ref
    PROVE  /\ mStrong = Initial <=> ~fixed /\ StrongCounted = {}
           /\ mStrong = 0 <=> fixed /\ StrongCounted = {}
           /\ r \in StrongCounted => (mStrong = 1 <=> fixed /\ StrongCounted = {r})
<1>1. StrongCounted \subseteq Ref
  BY DEF StrongCounted
<1>2. /\ Cardinality(StrongCounted) \in Nat /\ Cardinality(Ref) \in Nat
      /\ Cardinality(StrongCounted) =< Cardinality(Ref)
      /\ Cardinality(StrongCounted) = 0 <=> StrongCounted = {}
      /\ r \in StrongCounted => Cardinality(StrongCounted \ {r}) = Cardinality(StrongCounted) - 1
  BY <1>1, AddRemove, Zenon
<1>3. StrongCounted \ {r} \subseteq Ref
  BY <1>1
<1>4. Cardinality(StrongCounted \ {r}) = 0 <=> StrongCounted \ {r} = {}
  BY <1>3, AddRemove, Zenon
<1>5. Initial \in Nat /\ Initial > Cardinality(Ref) /\ fixed \in BOOLEAN
  BY RefAssumption DEF TypeOK
<1>6. mStrong = (IF fixed THEN 0 ELSE Initial) + Cardinality(StrongCounted)
  BY DEF CountsExact
<1>7. r \in StrongCounted => (mStrong = 1 <=> fixed /\ StrongCounted \ {r} = {})
  BY <1>2, <1>4, <1>5, <1>6
<1> QED
  BY <1>2, <1>5, <1>6, <1>7

\* mWeak = 1 means that the counted reference is the only one.
LEMMA WeakFacts ==
    ASSUME TypeOK, CountsExact, NEW r \in Ref, r \in WeakCounted
    PROVE  mWeak = 1 <=> WeakCounted = {r}
<1>1. WeakCounted \subseteq Ref /\ WeakCounted \ {r} \subseteq Ref
  BY DEF WeakCounted
<1>2. /\ Cardinality(WeakCounted) \in Nat
      /\ Cardinality(WeakCounted \ {r}) = Cardinality(WeakCounted) - 1
      /\ Cardinality(WeakCounted \ {r}) \in Nat
      /\ Cardinality(WeakCounted \ {r}) = 0 <=> WeakCounted \ {r} = {}
  BY <1>1, AddRemove, Zenon
<1>3. mWeak = 1 <=> WeakCounted \ {r} = {}
  BY <1>2 DEF CountsExact
<1> QED
  BY <1>3

\* The counted sets after a step of one reference.
LEMMA Moves ==
    ASSUME TypeOK, NEW r \in Ref, NEW how, pc' = [pc EXCEPT ![r] = how]
    PROVE  /\ StrongCounted' = IF how \in InStrong THEN StrongCounted \cup {r}
                                                   ELSE StrongCounted \ {r}
           /\ WeakCounted' = IF how \in NotWeak THEN WeakCounted \ {r}
                                                ELSE WeakCounted \cup {r}
           /\ r \in StrongCounted <=> pc[r] \in InStrong
           /\ r \in WeakCounted <=> pc[r] \notin NotWeak
  BY DEF StrongCounted, WeakCounted, TypeOK, InStrong, NotWeak

\* How the counted sets grow and shrink with a step of one reference.
LEMMA CardAdd ==
    ASSUME NEW S, S \subseteq Ref, NEW r \in Ref, NEW T, T = S \cup {r}
    PROVE  /\ r \in S => Cardinality(T) = Cardinality(S)
           /\ r \notin S => Cardinality(T) = Cardinality(S) + 1
<1>1. r \in S => T = S
  OBVIOUS
<1>2. r \notin S => Cardinality(S \cup {r}) = Cardinality(S) + 1
  BY AddRemove
<1> QED
  BY <1>1, <1>2

\* What one reference less does to a count.
LEMMA CardRemove ==
    ASSUME NEW S, S \subseteq Ref, NEW r \in Ref, NEW T, T = S \ {r}
    PROVE  /\ r \in S => Cardinality(T) = Cardinality(S) - 1
           /\ r \notin S => Cardinality(T) = Cardinality(S)
<1>1. r \notin S => T = S
  OBVIOUS
<1>2. r \in S => Cardinality(S \ {r}) = Cardinality(S) - 1
  BY AddRemove
<1> QED
  BY <1>1, <1>2

\* Counts of references are natural numbers, positive with a witness.
LEMMA CardNat ==
    ASSUME NEW S, S \subseteq Ref, NEW r \in Ref
    PROVE  Cardinality(S) \in Nat /\ (r \in S => Cardinality(S) > 0)
<1>1. Cardinality(S) \in Nat /\ (Cardinality(S) = 0 <=> S = {})
  BY AddRemove, Zenon
<1> QED
  BY <1>1

\* How the two counts follow from where one reference goes.
LEMMA CountStep ==
    ASSUME TypeOK, NEW r \in Ref, NEW how, pc' = [pc EXCEPT ![r] = how]
    PROVE  /\ Cardinality(StrongCounted) \in Nat /\ Cardinality(WeakCounted) \in Nat
           /\ Cardinality(StrongCounted') = Cardinality(StrongCounted)
                 + (IF how \in InStrong THEN 1 ELSE 0) - (IF pc[r] \in InStrong THEN 1 ELSE 0)
           /\ Cardinality(WeakCounted') = Cardinality(WeakCounted)
                 + (IF how \in NotWeak THEN 0 ELSE 1) - (IF pc[r] \in NotWeak THEN 0 ELSE 1)
           /\ pc[r] \in InStrong => Cardinality(StrongCounted) > 0
           /\ pc[r] \notin NotWeak => Cardinality(WeakCounted) > 0
<1>1. StrongCounted \subseteq Ref /\ WeakCounted \subseteq Ref
  BY DEF StrongCounted, WeakCounted
<1>2. /\ how \in InStrong => StrongCounted' = StrongCounted \cup {r}
      /\ ~(how \in InStrong) => StrongCounted' = StrongCounted \ {r}
      /\ how \notin NotWeak => WeakCounted' = WeakCounted \cup {r}
      /\ ~(how \notin NotWeak) => WeakCounted' = WeakCounted \ {r}
      /\ r \in StrongCounted <=> pc[r] \in InStrong
      /\ r \in WeakCounted <=> pc[r] \notin NotWeak
  BY Moves, Zenon
<1> DEFINE s == Cardinality(StrongCounted)  t == Cardinality(StrongCounted')
           w == Cardinality(WeakCounted)    v == Cardinality(WeakCounted')
<1>3. /\ s \in Nat /\ (pc[r] \in InStrong => s > 0)
      /\ how \in InStrong /\ pc[r] \in InStrong => t = s
      /\ how \in InStrong /\ pc[r] \notin InStrong => t = s + 1
      /\ how \notin InStrong /\ pc[r] \in InStrong => t = s - 1
      /\ how \notin InStrong /\ pc[r] \notin InStrong => t = s
  <2>1. s \in Nat /\ (r \in StrongCounted => s > 0)
    BY <1>1, CardNat
  <2>2. CASE how \in InStrong
    <3>1. /\ r \in StrongCounted => t = s
          /\ r \notin StrongCounted => t = s + 1
      BY <1>1, <1>2, <2>2, CardAdd
    <3> QED
      BY <1>2, <2>1, <2>2, <3>1 DEF InStrong
  <2>3. CASE how \notin InStrong
    <3>1. /\ r \in StrongCounted => t = s - 1
          /\ r \notin StrongCounted => t = s
      BY <1>1, <1>2, <2>3, CardRemove
    <3> QED
      BY <1>2, <2>1, <2>3, <3>1
  <2> QED
    BY <2>2, <2>3
<1>4. /\ w \in Nat /\ (pc[r] \notin NotWeak => w > 0)
      /\ how \notin NotWeak /\ pc[r] \notin NotWeak => v = w
      /\ how \notin NotWeak /\ pc[r] \in NotWeak => v = w + 1
      /\ how \in NotWeak /\ pc[r] \notin NotWeak => v = w - 1
      /\ how \in NotWeak /\ pc[r] \in NotWeak => v = w
  <2>1. w \in Nat /\ (r \in WeakCounted => w > 0)
    BY <1>1, CardNat
  <2>2. CASE how \notin NotWeak
    <3>1. /\ r \in WeakCounted => v = w
          /\ r \notin WeakCounted => v = w + 1
      BY <1>1, <1>2, <2>2, CardAdd
    <3> QED
      BY <1>2, <2>1, <2>2, <3>1
  <2>3. CASE how \in NotWeak
    <3>1. /\ r \in WeakCounted => v = w - 1
          /\ r \notin WeakCounted => v = w
      BY <1>1, <1>2, <2>3, CardRemove
    <3> QED
      BY <1>2, <2>1, <2>3, <3>1
  <2> QED
    BY <2>2, <2>3
<1> HIDE DEF s, t, w, v
<1>5. t = s + (IF how \in InStrong THEN 1 ELSE 0) - (IF pc[r] \in InStrong THEN 1 ELSE 0)
  BY <1>3
<1>6. v = w + (IF how \in NotWeak THEN 0 ELSE 1) - (IF pc[r] \in NotWeak THEN 0 ELSE 1)
  BY <1>4
<1> QED
  BY <1>3, <1>4, <1>5, <1>6 DEF s, t, w, v


\* The counts stay exact over a step of one reference that adds and subtracts what its
\* move from one set to another calls for.
LEMMA Exact ==
    ASSUME TypeOK, CountsExact, NEW r \in Ref, NEW how, pc' = [pc EXCEPT ![r] = how],
           fixed' \in BOOLEAN, fixed => fixed',
           mStrong' = mStrong + (IF how \in InStrong THEN 1 ELSE 0)
                              - (IF pc[r] \in InStrong THEN 1 ELSE 0)
                              - (IF fixed' /\ ~fixed THEN Initial ELSE 0),
           mWeak' = mWeak + (IF how \in NotWeak THEN 0 ELSE 1)
                          - (IF pc[r] \in NotWeak THEN 0 ELSE 1)
    PROVE  /\ mStrong' = (IF fixed' THEN 0 ELSE Initial) + Cardinality(StrongCounted')
           /\ mWeak' = Cardinality(WeakCounted')
           /\ mStrong' \in Nat /\ mWeak' \in Nat
<1> DEFINE c == Cardinality(StrongCounted)  d == Cardinality(StrongCounted')
           w == Cardinality(WeakCounted)    v == Cardinality(WeakCounted')
<1>1. /\ c \in Nat /\ w \in Nat
      /\ d = c + (IF how \in InStrong THEN 1 ELSE 0) - (IF pc[r] \in InStrong THEN 1 ELSE 0)
      /\ v = w + (IF how \in NotWeak THEN 0 ELSE 1) - (IF pc[r] \in NotWeak THEN 0 ELSE 1)
      /\ pc[r] \in InStrong => c > 0
      /\ pc[r] \notin NotWeak => w > 0
  BY CountStep, Zenon
<1>2. mStrong = (IF fixed THEN 0 ELSE Initial) + c /\ mWeak = w
  BY DEF CountsExact
<1>3. Initial \in Nat /\ fixed \in BOOLEAN
  BY RefAssumption DEF TypeOK
<1> HIDE DEF c, d, w, v
<1>4. d \in Nat /\ v \in Nat
  BY <1>1
<1>5. mStrong' = (IF fixed' THEN 0 ELSE Initial) + d
  BY <1>1, <1>2, <1>3
<1>6. mWeak' = v
  BY <1>1, <1>2
<1> QED
  BY <1>3, <1>4, <1>5, <1>6 DEF d, v

\* Raw and None are no references.
LEMMA Distinct == Raw \notin Ref /\ None \notin Ref /\ Raw # None
                  /\ Initial \in Nat /\ Initial > 0
<1>1. IsFiniteSet(Ref) /\ Initial \in Nat /\ Initial > Cardinality(Ref)
  BY RefAssumption
<1>2. Cardinality(Ref) \in Nat
  BY <1>1, FS_CardinalityType
<1> QED
  BY <1>1, <1>2, RefAssumption


\* What the steps below start from: the invariant, and what the strong count tells.
Known(r) ==
    /\ TypeOK /\ CountsExact /\ SrcOK /\ RawOK /\ Alone /\ Gone /\ Deleted
    /\ FailsOnlyWhenGone /\ NoLeak
    /\ mStrong = Initial <=> ~fixed /\ StrongCounted = {}
    /\ mStrong = 0 <=> fixed /\ StrongCounted = {}
    /\ r \in StrongCounted => (mStrong = 1 <=> fixed /\ StrongCounted = {r})
    /\ Raw \notin Ref /\ None \notin Ref /\ Raw # None /\ mFlags \in {"STRONG", "WEAK"}
    /\ Initial \in Nat /\ Initial > 0

\* The facts about one reference that every action lemma begins with.
LEMMA Start == ASSUME IInv, NEW r \in Ref PROVE Known(r)
<1>1. TypeOK /\ CountsExact
  BY DEF IInv
<1> QED
  BY <1>1, StrongFacts, Distinct DEF Known, IInv, TypeOK

\* A step of reference r to how that keeps the counts exact
Moved(r, how) ==
    /\ pc' = [pc EXCEPT ![r] = how] /\ how \in PC
    /\ fixed => fixed'
    /\ mStrong' = mStrong + (IF how \in InStrong THEN 1 ELSE 0)
                          - (IF pc[r] \in InStrong THEN 1 ELSE 0)
                          - (IF fixed' /\ ~fixed THEN Initial ELSE 0)
    /\ mWeak' = mWeak + (IF how \in NotWeak THEN 0 ELSE 1) - (IF pc[r] \in NotWeak THEN 0 ELSE 1)

\* The rest of TypeOK, and of CountsExact
Flags == raw \in BOOLEAN /\ fixed \in BOOLEAN /\ raced \in BOOLEAN /\ mFlags \in {"STRONG", "WEAK"}
Fields ==
    /\ object \in {"alive", "dead"} /\ impl \in {"alive", "freed"}
    /\ src \in [Ref -> Ref \cup {Raw, None}] /\ cur \in [Ref -> Nat]
Subtracted ==
    /\ fixed => \A q \in Ref : pc[q] \notin {"sub", "fix"}
    /\ ~fixed /\ (\E q \in Ref : pc[q] \in InStrong) => \E q \in Ref : pc[q] \in {"sub", "fix"}

\* The invariant after a step, from its parts.
LEMMA Finish ==
    ASSUME NEW r \in Ref, Known(r), NEW how, Moved(r, how), Flags', Fields', Subtracted',
           SrcOK', RawOK', Alone', Gone', Deleted', FailsOnlyWhenGone', NoLeak'
    PROVE  IInv'
<1>1. TypeOK /\ CountsExact
  BY DEF Known
<1>2. /\ mStrong' = (IF fixed' THEN 0 ELSE Initial) + Cardinality(StrongCounted')
      /\ mWeak' = Cardinality(WeakCounted')
      /\ mStrong' \in Nat /\ mWeak' \in Nat
  <2>1. fixed' \in BOOLEAN /\ (fixed => fixed') /\ pc' = [pc EXCEPT ![r] = how]
    BY DEF Flags, Moved
  <2>2. /\ mStrong' = mStrong + (IF how \in InStrong THEN 1 ELSE 0)
                              - (IF pc[r] \in InStrong THEN 1 ELSE 0)
                              - (IF fixed' /\ ~fixed THEN Initial ELSE 0)
        /\ mWeak' = mWeak + (IF how \in NotWeak THEN 0 ELSE 1)
                          - (IF pc[r] \in NotWeak THEN 0 ELSE 1)
    BY DEF Moved
  <2> QED
    BY <1>1, <2>1, <2>2, Exact, Zenon
<1>3. pc' \in [Ref -> PC]
  BY <1>1 DEF Moved, TypeOK
<1>4. TypeOK'
  BY <1>2, <1>3 DEF TypeOK, Flags, Fields
<1>5. CountsExact'
  BY <1>2 DEF CountsExact, Subtracted, StrongCounted, InStrong
<1> QED
  BY <1>4, <1>5 DEF IInv

\* incStrong begins with incWeak.
LEMMA IncStrongBegins ==
    ASSUME IInv, ~raced', NEW r \in Ref, NEW s \in Ref \cup {Raw}, incStrong(r, s)
    PROVE  IInv'
<1>1. Known(r)
  BY Start
<1>r. /\ s = Raw => \A q \in Ref : pc[q] # "lastWeak"
      /\ raced' \in BOOLEAN
  BY Zenon DEF incStrong, Begin, From, LastWeakPending
<1> USE <1>1, <1>r DEF incStrong, Begin, Held, Strong, RawUsable, Used, Known
<1>2. Moved(r, "inc")
  BY DEF Moved, TypeOK, CountsExact, InStrong, NotWeak, PC
<1>3. Flags'
  BY DEF TypeOK, Flags
<1>4. Fields'
  BY DEF TypeOK, Fields
<1>5. Subtracted'
  BY DEF TypeOK, CountsExact, Alone, StrongCounted, InStrong, Subtracted
<1>6. SrcOK'
  BY DEF TypeOK, SrcOK, Working, Used, RawOK
<1>7. RawOK'
  BY SMTT(30) DEF TypeOK, SrcOK, Working, RawOK, Alone
<1>8. Alone'
  BY SMTT(30) DEF TypeOK, SrcOK, Working, RawOK, Alone, StrongCounted
<1>9. Gone'
  BY DEF TypeOK, SrcOK, Working, RawOK, Alone, Gone, StrongCounted
<1>10. FailsOnlyWhenGone'
  BY DEF TypeOK, SrcOK, Working, RawOK, Alone, FailsOnlyWhenGone, StrongCounted
<1>11. Deleted'
  BY DEF TypeOK, Deleted, StrongCounted
<1>12. NoLeak'
  BY DEF TypeOK, SrcOK, Working, Alone, NoLeak, Deleted, StrongCounted
<1> QED
  BY <1>2, <1>3, <1>4, <1>5, <1>6, <1>7, <1>8, <1>9, <1>10, <1>11, <1>12, Finish

\* So does forceIncStrong.
LEMMA ForceIncStrongBegins ==
    ASSUME IInv, ~raced', NEW r \in Ref, NEW s \in Ref \cup {Raw}, forceIncStrong(r, s)
    PROVE  IInv'
<1>1. Known(r)
  BY Start
<1>r. /\ s = Raw => \A q \in Ref : pc[q] # "lastWeak"
      /\ raced' \in BOOLEAN
  BY Zenon DEF forceIncStrong, Begin, From, LastWeakPending
<1> USE <1>1, <1>r DEF forceIncStrong, Begin, Held, Strong, RawUsable, Used, Known
<1>2. Moved(r, "force")
  BY DEF Moved, TypeOK, CountsExact, InStrong, NotWeak, PC
<1>3. Flags'
  BY DEF TypeOK, Flags
<1>4. Fields'
  BY SMTT(30) DEF TypeOK, Fields
<1>5. Subtracted'
  BY SMTT(30) DEF TypeOK, CountsExact, Alone, StrongCounted, InStrong, Subtracted
<1>6. SrcOK'
  BY SMTT(30) DEF TypeOK, SrcOK, Working, Used, RawOK
<1>7. RawOK'
  BY SMTT(30) DEF TypeOK, SrcOK, Working, RawOK, Alone
<1>8. Alone'
  BY DEF TypeOK, SrcOK, Working, RawOK, Alone, StrongCounted
<1>9. Gone'
  BY DEF TypeOK, SrcOK, Working, RawOK, Alone, Gone, StrongCounted
<1>10. FailsOnlyWhenGone'
  BY DEF TypeOK, SrcOK, Working, RawOK, Alone, FailsOnlyWhenGone, StrongCounted
<1>11. Deleted'
  BY DEF TypeOK, Deleted, StrongCounted
<1>12. NoLeak'
  BY SMTT(30) DEF TypeOK, SrcOK, Working, Alone, NoLeak, Deleted, StrongCounted
<1> QED
  BY <1>2, <1>3, <1>4, <1>5, <1>6, <1>7, <1>8, <1>9, <1>10, <1>11, <1>12, Finish, SMTT(30)

\* So does attemptIncStrong.
LEMMA AttemptBegins ==
    ASSUME IInv, ~raced', NEW r \in Ref, NEW s \in Ref, attemptIncStrong(r, s)
    PROVE  IInv'
<1>1. Known(r)
  BY Start
<1>r. /\ s = Raw => \A q \in Ref : pc[q] # "lastWeak"
      /\ raced' \in BOOLEAN
  BY Zenon DEF attemptIncStrong, Begin, From, LastWeakPending
<1> USE <1>1, <1>r DEF attemptIncStrong, Begin, Held, Strong, RawUsable, Used, Known
<1>2. Moved(r, "load")
  BY DEF Moved, TypeOK, CountsExact, InStrong, NotWeak, PC
<1>3. Flags'
  BY DEF TypeOK, Flags
<1>4. Fields'
  BY DEF TypeOK, Fields
<1>5. Subtracted'
  BY DEF TypeOK, CountsExact, Alone, StrongCounted, InStrong, Subtracted
<1>6. SrcOK'
  BY DEF TypeOK, SrcOK, Working, Used, RawOK
<1>7. RawOK'
  BY SMTT(30) DEF TypeOK, SrcOK, Working, RawOK, Alone
<1>8. Alone'
  BY DEF TypeOK, SrcOK, Working, RawOK, Alone, StrongCounted
<1>9. Gone'
  BY DEF TypeOK, SrcOK, Working, RawOK, Alone, Gone, StrongCounted
<1>10. FailsOnlyWhenGone'
  BY DEF TypeOK, SrcOK, Working, RawOK, Alone, FailsOnlyWhenGone, StrongCounted
<1>11. Deleted'
  BY SMTT(30) DEF TypeOK, Deleted, StrongCounted
<1>12. NoLeak'
  BY SMTT(30) DEF TypeOK, SrcOK, Working, Alone, NoLeak, Deleted, StrongCounted
<1> QED
  BY <1>2, <1>3, <1>4, <1>5, <1>6, <1>7, <1>8, <1>9, <1>10, <1>11, <1>12, Finish, SMTT(30)

\* incWeak and createWeak.
LEMMA IncWeakInv ==
    ASSUME IInv, ~raced', NEW r \in Ref, NEW s \in Ref \cup {Raw}, incWeak(r, s)
    PROVE  IInv'
<1>1. Known(r)
  BY Start
<1>r. /\ s = Raw => \A q \in Ref : pc[q] # "lastWeak"
      /\ raced' \in BOOLEAN
  BY Zenon DEF incWeak, From, LastWeakPending
<1> USE <1>1, <1>r DEF incWeak, Held, Strong, RawUsable, Used, Known
<1>2. Moved(r, "weak")
  BY DEF Moved, TypeOK, CountsExact, InStrong, NotWeak, PC
<1>3. Flags'
  BY DEF TypeOK, Flags
<1>4. Fields'
  BY SMTT(30) DEF TypeOK, Fields
<1>5. Subtracted'
  BY SMTT(30) DEF TypeOK, CountsExact, Alone, StrongCounted, InStrong, Subtracted
<1>6. SrcOK'
  BY SMTT(30) DEF TypeOK, SrcOK, Working, Used, RawOK
<1>7. RawOK'
  BY SMTT(30) DEF TypeOK, SrcOK, Working, RawOK, Alone
<1>8. Alone'
  BY SMTT(30) DEF TypeOK, SrcOK, Working, RawOK, Alone, StrongCounted
<1>9. Gone'
  BY SMTT(30) DEF TypeOK, SrcOK, Working, RawOK, Alone, Gone, StrongCounted
<1>10. FailsOnlyWhenGone'
  BY DEF TypeOK, SrcOK, Working, RawOK, Alone, FailsOnlyWhenGone, StrongCounted
<1>11. Deleted'
  BY SMTT(30) DEF TypeOK, Deleted, StrongCounted
<1>12. NoLeak'
  BY SMTT(30) DEF TypeOK, SrcOK, Working, Alone, NoLeak, Deleted, StrongCounted
<1> QED
  BY <1>2, <1>3, <1>4, <1>5, <1>6, <1>7, <1>8, <1>9, <1>10, <1>11, <1>12, Finish, SMTT(30)

\* attemptIncWeak.
LEMMA AttemptIncWeakInv ==
    ASSUME IInv, NEW r \in Ref, NEW s \in Ref \cup {Raw}, attemptIncWeak(r, s)
    PROVE  IInv'
<1>1. Known(r)
  BY Start
<1> USE <1>1 DEF attemptIncWeak, Held, Strong, RawUsable, Used, Known
<1>2. Moved(r, "loadWeak")
  BY DEF Moved, TypeOK, CountsExact, InStrong, NotWeak, PC
<1>3. Flags'
  BY DEF TypeOK, Flags
<1>4. Fields'
  BY SMTT(30) DEF TypeOK, Fields
<1>5. Subtracted'
  BY SMTT(30) DEF TypeOK, CountsExact, Alone, StrongCounted, InStrong, Subtracted
<1>6. SrcOK'
  BY SMTT(30) DEF TypeOK, SrcOK, Working, Used, RawOK
<1>7. RawOK'
  BY SMTT(30) DEF TypeOK, SrcOK, Working, RawOK, Alone
<1>8. Alone'
  BY SMTT(30) DEF TypeOK, SrcOK, Working, RawOK, Alone, StrongCounted
<1>9. Gone'
  BY SMTT(30) DEF TypeOK, SrcOK, Working, RawOK, Alone, Gone, StrongCounted
<1>10. FailsOnlyWhenGone'
  BY DEF TypeOK, SrcOK, Working, RawOK, Alone, FailsOnlyWhenGone, StrongCounted
<1>11. Deleted'
  BY SMTT(30) DEF TypeOK, Deleted, StrongCounted
<1>12. NoLeak'
  BY SMTT(30) DEF TypeOK, SrcOK, Working, Alone, NoLeak, Deleted, StrongCounted
<1> QED
  BY <1>2, <1>3, <1>4, <1>5, <1>6, <1>7, <1>8, <1>9, <1>10, <1>11, <1>12, Finish, SMTT(30)

\* Its load.
LEMMA LoadWeakInv ==
    ASSUME IInv, NEW r \in Ref, LoadWeak(r)
    PROVE  IInv'
<1>1. Known(r)
  BY Start, SMTT(30)
<1> USE <1>1 DEF LoadWeak, Known
<1>2. Moved(r, "casWeak")
  BY DEF Moved, TypeOK, CountsExact, InStrong, NotWeak, PC
<1>3. Flags'
  BY DEF TypeOK, Flags
<1>4. Fields'
  BY SMTT(30) DEF TypeOK, Fields
<1>5. Subtracted'
  BY SMTT(30) DEF TypeOK, CountsExact, Alone, StrongCounted, InStrong, Subtracted
<1>6. SrcOK'
  BY SMTT(30) DEF TypeOK, SrcOK, Working, Used, RawOK
<1>7. RawOK'
  BY SMTT(30) DEF TypeOK, SrcOK, Working, RawOK, Alone
<1>8. Alone'
  BY SMTT(30) DEF TypeOK, SrcOK, Working, RawOK, Alone, StrongCounted
<1>9. Gone'
  BY SMTT(30) DEF TypeOK, SrcOK, Working, RawOK, Alone, Gone, StrongCounted
<1>10. FailsOnlyWhenGone'
  BY DEF TypeOK, SrcOK, Working, RawOK, Alone, FailsOnlyWhenGone, StrongCounted
<1>11. Deleted'
  BY SMTT(30) DEF TypeOK, Deleted, StrongCounted
<1>12. NoLeak'
  BY DEF TypeOK, SrcOK, Working, Alone, NoLeak, Deleted, StrongCounted
<1> QED
  BY <1>2, <1>3, <1>4, <1>5, <1>6, <1>7, <1>8, <1>9, <1>10, <1>11, <1>12, Finish, SMTT(30)

\* The increment of incStrong and forceIncStrong.
LEMMA IncStrongAddInv ==
    ASSUME IInv, NEW r \in Ref, IncStrongAdd(r)
    PROVE  IInv'
<1>1. Known(r)
  BY Start
<1> USE <1>1 DEF IncStrongAdd, Incremented, Complete, Goto, Known
<1>2. Moved(r, Incremented(r))
  <2>1. Incremented(r) \in {"sub", "first", "strong"}
    OBVIOUS
  <2>2. pc' = [pc EXCEPT ![r] = Incremented(r)]
    <3> HIDE DEF Incremented
    <3> QED
      BY <2>1
  <2> HIDE DEF Incremented
  <2> QED
    BY <2>1, <2>2 DEF Moved, TypeOK, InStrong, NotWeak, PC
<1>3. Flags'
  BY Zenon DEF TypeOK, Flags
<1>4. Fields'
  BY DEF TypeOK, Fields
<1>5. Subtracted'
  BY DEF TypeOK, CountsExact, Alone, StrongCounted, InStrong, Subtracted
<1>6. SrcOK'
  BY DEF TypeOK, SrcOK, Working, Used, RawOK
<1>7. RawOK'
  <2>1. Incremented(r) \in {"sub", "first", "strong"}
    OBVIOUS
  <2>2. Incremented(r) = "first" => mStrong = 0 /\ pc[r] = "force"
    OBVIOUS
  <2>3. /\ pc' = [pc EXCEPT ![r] = Incremented(r)] /\ fixed' = fixed /\ object' = object
        /\ mFlags' = mFlags
        /\ Incremented(r) # "strong" => raw' = raw /\ src' = src
        /\ Incremented(r) = "strong" => raw' = (raw /\ src[r] # Raw) /\ src' = [src EXCEPT ![r] = None]
    <3> HIDE DEF Incremented
    <3> QED
      BY <2>1
  <2>4. raw => src[r] = Raw
    BY DEF SrcOK, RawOK, Working
  <2>5. raw => ~fixed
    BY <2>4 DEF SrcOK, RawOK
  <2> HIDE DEF Incremented, IncStrongAdd
  <2> QED
    BY <2>1, <2>3, <2>4, <2>5, Zenon DEF RawOK, TypeOK
<1>8. Alone'
  BY DEF TypeOK, SrcOK, Working, RawOK, Alone, StrongCounted
<1>9. Gone'
  BY DEF TypeOK, SrcOK, Working, RawOK, Alone, Gone, StrongCounted
<1>10. FailsOnlyWhenGone'
  BY DEF TypeOK, SrcOK, Working, RawOK, Alone, FailsOnlyWhenGone, StrongCounted
<1>11. Deleted'
  BY DEF TypeOK, Deleted, StrongCounted
<1>12. NoLeak'
  BY DEF TypeOK, SrcOK, Working, Alone, NoLeak, Deleted, StrongCounted
<1> QED
  BY <1>2, <1>3, <1>4, <1>5, <1>6, <1>7, <1>8, <1>9, <1>10, <1>11, <1>12, Finish, SMTT(30)

\* The subtraction of the initial value.
LEMMA IncStrongSubInv ==
    ASSUME IInv, NEW r \in Ref, IncStrongSub(r)
    PROVE  IInv'
<1>1. Known(r)
  BY Start
<1> USE <1>1 DEF IncStrongSub, Goto, Known
<1>2. Moved(r, "first")
  BY DEF Moved, TypeOK, CountsExact, InStrong, NotWeak, PC
<1>3. Flags'
  BY DEF TypeOK, Flags
<1>4. Fields'
  BY DEF TypeOK, Fields
<1>5. Subtracted'
  BY DEF TypeOK, CountsExact, Alone, StrongCounted, InStrong, Subtracted
<1>6. SrcOK'
  BY DEF TypeOK, SrcOK, Working, Used, RawOK
<1>7. RawOK'
  BY SMTT(30) DEF TypeOK, SrcOK, Working, RawOK, Alone
<1>8. Alone'
  BY SMTT(30) DEF TypeOK, SrcOK, Working, RawOK, Alone, StrongCounted
<1>9. Gone'
  BY SMTT(30) DEF TypeOK, SrcOK, Working, RawOK, Alone, Gone, StrongCounted
<1>10. FailsOnlyWhenGone'
  BY DEF TypeOK, SrcOK, Working, RawOK, Alone, FailsOnlyWhenGone, StrongCounted
<1>11. Deleted'
  BY SMTT(30) DEF TypeOK, Deleted, StrongCounted
<1>12. NoLeak'
  BY SMTT(30) DEF TypeOK, SrcOK, Working, Alone, NoLeak, Deleted, StrongCounted
<1> QED
  BY <1>2, <1>3, <1>4, <1>5, <1>6, <1>7, <1>8, <1>9, <1>10, <1>11, <1>12, Finish, SMTT(30)

\* onFirstRef.
LEMMA OnFirstRefInv ==
    ASSUME IInv, NEW r \in Ref, OnFirstRef(r)
    PROVE  IInv'
<1>1. Known(r)
  BY Start
<1> USE <1>1 DEF OnFirstRef, Complete, Known
<1>2. Moved(r, "strong")
  BY DEF Moved, TypeOK, CountsExact, InStrong, NotWeak, PC
<1>3. Flags'
  BY DEF TypeOK, Flags
<1>4. Fields'
  BY SMTT(30) DEF TypeOK, Fields
<1>5. Subtracted'
  BY SMTT(30) DEF TypeOK, CountsExact, Alone, StrongCounted, InStrong, Subtracted
<1>6. SrcOK'
  BY SMTT(30) DEF TypeOK, SrcOK, Working, Used, RawOK
<1>7. RawOK'
  BY ZenonT(30) DEF TypeOK, SrcOK, Working, RawOK, Alone
<1>8. Alone'
  BY DEF TypeOK, SrcOK, Working, RawOK, Alone, StrongCounted
<1>9. Gone'
  BY DEF TypeOK, SrcOK, Working, RawOK, Alone, Gone, StrongCounted
<1>10. FailsOnlyWhenGone'
  BY DEF TypeOK, SrcOK, Working, RawOK, Alone, FailsOnlyWhenGone, StrongCounted
<1>11. Deleted'
  BY DEF TypeOK, Deleted, StrongCounted
<1>12. NoLeak'
  BY DEF TypeOK, SrcOK, Working, Alone, NoLeak, Deleted, StrongCounted
<1> QED
  BY <1>2, <1>3, <1>4, <1>5, <1>6, <1>7, <1>8, <1>9, <1>10, <1>11, <1>12, Finish, SMTT(30)

\* The load of attemptIncStrong.
LEMMA LoadStrongInv ==
    ASSUME IInv, NEW r \in Ref, LoadStrong(r)
    PROVE  IInv'
<1>1. Known(r)
  BY Start
<1> USE <1>1 DEF LoadStrong, Known
<1>2. Moved(r, "cas")
  BY DEF Moved, TypeOK, CountsExact, InStrong, NotWeak, PC
<1>3. Flags'
  BY DEF TypeOK, Flags
<1>4. Fields'
  BY SMTT(30) DEF TypeOK, Fields
<1>5. Subtracted'
  BY SMTT(30) DEF TypeOK, CountsExact, Alone, StrongCounted, InStrong, Subtracted
<1>6. SrcOK'
  BY SMTT(30) DEF TypeOK, SrcOK, Working, Used, RawOK
<1>7. RawOK'
  BY SMTT(30) DEF TypeOK, SrcOK, Working, RawOK, Alone
<1>8. Alone'
  BY SMTT(30) DEF TypeOK, SrcOK, Working, RawOK, Alone, StrongCounted
<1>9. Gone'
  BY SMTT(30) DEF TypeOK, SrcOK, Working, RawOK, Alone, Gone, StrongCounted
<1>10. FailsOnlyWhenGone'
  BY DEF TypeOK, SrcOK, Working, RawOK, Alone, FailsOnlyWhenGone, StrongCounted
<1>11. Deleted'
  BY SMTT(30) DEF TypeOK, Deleted, StrongCounted
<1>12. NoLeak'
  BY DEF TypeOK, SrcOK, Working, Alone, NoLeak, Deleted, StrongCounted
<1> QED
  BY <1>2, <1>3, <1>4, <1>5, <1>6, <1>7, <1>8, <1>9, <1>10, <1>11, <1>12, Finish

\* A compare-and-exchange that succeeds.
LEMMA CasStrongInv ==
    ASSUME IInv, NEW r \in Ref, mStrong = cur[r], CasStrong(r)
    PROVE  IInv'
<1>1. Known(r)
  BY Start, SMTT(30)
<1> USE <1>1 DEF CasStrong, Cas, Complete, Known
<1>2. Moved(r, "strong")
  BY DEF Moved, TypeOK, CountsExact, InStrong, NotWeak, PC
<1>3. Flags'
  BY DEF TypeOK, Flags
<1>4. Fields'
  BY SMTT(30) DEF TypeOK, Fields
<1>5. Subtracted'
  BY SMTT(30) DEF TypeOK, CountsExact, Alone, StrongCounted, InStrong, Subtracted
<1>6. SrcOK'
  BY SMTT(30) DEF TypeOK, SrcOK, Working, Used, RawOK
<1>7. RawOK'
  BY ZenonT(30) DEF TypeOK, SrcOK, Working, RawOK, Alone
<1>8. Alone'
  BY DEF TypeOK, SrcOK, Working, RawOK, Alone, StrongCounted
<1>9. Gone'
  BY DEF TypeOK, SrcOK, Working, RawOK, Alone, Gone, StrongCounted
<1>10. FailsOnlyWhenGone'
  BY DEF TypeOK, SrcOK, Working, RawOK, Alone, FailsOnlyWhenGone, StrongCounted
<1>11. Deleted'
  BY DEF TypeOK, Deleted, StrongCounted
<1>12. NoLeak'
  BY DEF TypeOK, SrcOK, Working, Alone, NoLeak, Deleted, StrongCounted
<1> QED
  BY <1>2, <1>3, <1>4, <1>5, <1>6, <1>7, <1>8, <1>9, <1>10, <1>11, <1>12, Finish, SMTT(30)

\* No strong reference so far.
LEMMA NeverStrongInv ==
    ASSUME IInv, NEW r \in Ref, NeverStrong(r)
    PROVE  IInv'
<1>1. Known(r)
  BY Start
<1> USE <1>1 DEF NeverStrong, Goto, Known
<1>2. Moved(r, "casInitial")
  BY DEF Moved, TypeOK, CountsExact, InStrong, NotWeak, PC
<1>3. Flags'
  BY DEF TypeOK, Flags
<1>4. Fields'
  BY SMTT(30) DEF TypeOK, Fields
<1>5. Subtracted'
  BY SMTT(30) DEF TypeOK, CountsExact, Alone, StrongCounted, InStrong, Subtracted
<1>6. SrcOK'
  BY SMTT(30) DEF TypeOK, SrcOK, Working, Used, RawOK
<1>7. RawOK'
  BY SMTT(30) DEF TypeOK, SrcOK, Working, RawOK, Alone
<1>8. Alone'
  BY SMTT(30) DEF TypeOK, SrcOK, Working, RawOK, Alone, StrongCounted
<1>9. Gone'
  BY SMTT(30) DEF TypeOK, SrcOK, Working, RawOK, Alone, Gone, StrongCounted
<1>10. FailsOnlyWhenGone'
  BY DEF TypeOK, SrcOK, Working, RawOK, Alone, FailsOnlyWhenGone, StrongCounted
<1>11. Deleted'
  BY SMTT(30) DEF TypeOK, Deleted, StrongCounted
<1>12. NoLeak'
  BY SMTT(30) DEF TypeOK, SrcOK, Working, Alone, NoLeak, Deleted, StrongCounted
<1> QED
  BY <1>2, <1>3, <1>4, <1>5, <1>6, <1>7, <1>8, <1>9, <1>10, <1>11, <1>12, Finish, SMTT(30)

\* A compare-and-exchange from the initial value.
LEMMA CasInitialInv ==
    ASSUME IInv, NEW r \in Ref, mStrong = cur[r], CasInitial(r)
    PROVE  IInv'
<1>1. Known(r)
  BY Start
<1> USE <1>1 DEF CasInitial, Found, Cas, Complete, Goto, Known
<1>2. Moved(r, Found(r))
  BY DEF Moved, TypeOK, CountsExact, InStrong, NotWeak, PC
<1>3. Flags'
  BY Zenon DEF TypeOK, Flags
<1>4. Fields'
  BY DEF TypeOK, Fields
<1>5. Subtracted'
  BY DEF TypeOK, CountsExact, Alone, StrongCounted, InStrong, Subtracted
<1>6. SrcOK'
  BY DEF TypeOK, SrcOK, Working, Used, RawOK
<1>7. RawOK'
  BY ZenonT(30) DEF TypeOK, SrcOK, Working, RawOK, Alone
<1>8. Alone'
  BY DEF TypeOK, SrcOK, Working, RawOK, Alone, StrongCounted
<1>9. Gone'
  BY DEF TypeOK, SrcOK, Working, RawOK, Alone, Gone, StrongCounted
<1>10. FailsOnlyWhenGone'
  BY DEF TypeOK, SrcOK, Working, RawOK, Alone, FailsOnlyWhenGone, StrongCounted
<1>11. Deleted'
  BY SMTT(30) DEF TypeOK, Deleted, StrongCounted
<1>12. NoLeak'
  BY SMTT(30) DEF TypeOK, SrcOK, Working, Alone, NoLeak, Deleted, StrongCounted
<1> QED
  BY <1>2, <1>3, <1>4, <1>5, <1>6, <1>7, <1>8, <1>9, <1>10, <1>11, <1>12, Finish, SMTT(30)

\* The promotion fails.
LEMMA AttemptFailsInv ==
    ASSUME IInv, NEW r \in Ref, AttemptFails(r)
    PROVE  IInv'
<1>1. Known(r)
  BY Start
<1> USE <1>1 DEF AttemptFails, Complete, Known
<1>2. Moved(r, "decWeak")
  BY DEF Moved, TypeOK, CountsExact, InStrong, NotWeak, PC
<1>3. Flags'
  BY DEF TypeOK, Flags
<1>4. Fields'
  BY SMTT(30) DEF TypeOK, Fields
<1>5. Subtracted'
  BY SMTT(30) DEF TypeOK, CountsExact, Alone, StrongCounted, InStrong, Subtracted
<1>6. SrcOK'
  BY SMTT(30) DEF TypeOK, SrcOK, Working, Used, RawOK
<1>7. RawOK'
  BY SMTT(30) DEF TypeOK, SrcOK, Working, RawOK, Alone
<1>8. Alone'
  BY SMTT(30) DEF TypeOK, SrcOK, Working, RawOK, Alone, StrongCounted
<1>9. Gone'
  BY SMTT(30) DEF TypeOK, SrcOK, Working, RawOK, Alone, Gone, StrongCounted
<1>10. FailsOnlyWhenGone'
  BY SMTT(30) DEF TypeOK, SrcOK, Working, RawOK, Alone, FailsOnlyWhenGone, StrongCounted
<1>11. Deleted'
  BY SMTT(30) DEF TypeOK, Deleted, StrongCounted
<1>12. NoLeak'
  BY SMTT(30) DEF TypeOK, SrcOK, Working, Alone, NoLeak, Deleted, StrongCounted
<1> QED
  BY <1>2, <1>3, <1>4, <1>5, <1>6, <1>7, <1>8, <1>9, <1>10, <1>11, <1>12, Finish, SMTT(30)

\* onIncStrongAttempted agrees.
LEMMA AgreedInv ==
    ASSUME IInv, NEW r \in Ref, Goto(r, "agreed"), IncStrongAttempted(r)
    PROVE  IInv'
<1>1. Known(r)
  BY Start, SMTT(30)
<1> USE <1>1 DEF IncStrongAttempted, Goto, Known
<1>2. Moved(r, "agreed")
  BY DEF Moved, TypeOK, CountsExact, InStrong, NotWeak, PC
<1>3. Flags'
  BY DEF TypeOK, Flags
<1>4. Fields'
  BY SMTT(30) DEF TypeOK, Fields
<1>5. Subtracted'
  BY SMTT(30) DEF TypeOK, CountsExact, Alone, StrongCounted, InStrong, Subtracted
<1>6. SrcOK'
  BY SMTT(30) DEF TypeOK, SrcOK, Working, Used, RawOK
<1>7. RawOK'
  BY SMTT(30) DEF TypeOK, SrcOK, Working, RawOK, Alone
<1>8. Alone'
  BY SMTT(30) DEF TypeOK, SrcOK, Working, RawOK, Alone, StrongCounted
<1>9. Gone'
  BY SMTT(30) DEF TypeOK, SrcOK, Working, RawOK, Alone, Gone, StrongCounted
<1>10. FailsOnlyWhenGone'
  BY SMTT(30) DEF TypeOK, SrcOK, Working, RawOK, Alone, FailsOnlyWhenGone, StrongCounted
<1>11. Deleted'
  BY SMTT(30) DEF TypeOK, Deleted, StrongCounted
<1>12. NoLeak'
  BY SMTT(30) DEF TypeOK, SrcOK, Working, Alone, NoLeak, Deleted, StrongCounted
<1> QED
  BY <1>2, <1>3, <1>4, <1>5, <1>6, <1>7, <1>8, <1>9, <1>10, <1>11, <1>12, Finish, SMTT(30)

\* onIncStrongAttempted refuses.
LEMMA RefusedInv ==
    ASSUME IInv, NEW r \in Ref, Complete(r, "decWeak"), IncStrongAttempted(r)
    PROVE  IInv'
<1>1. Known(r)
  BY Start, SMTT(30)
<1> USE <1>1 DEF IncStrongAttempted, Complete, Known
<1>2. Moved(r, "decWeak")
  BY DEF Moved, TypeOK, CountsExact, InStrong, NotWeak, PC
<1>3. Flags'
  BY DEF TypeOK, Flags
<1>4. Fields'
  BY SMTT(30) DEF TypeOK, Fields
<1>5. Subtracted'
  BY SMTT(30) DEF TypeOK, CountsExact, Alone, StrongCounted, InStrong, Subtracted
<1>6. SrcOK'
  BY SMTT(30) DEF TypeOK, SrcOK, Working, Used, RawOK
<1>7. RawOK'
  BY SMTT(30) DEF TypeOK, SrcOK, Working, RawOK, Alone
<1>8. Alone'
  BY SMTT(30) DEF TypeOK, SrcOK, Working, RawOK, Alone, StrongCounted
<1>9. Gone'
  BY SMTT(30) DEF TypeOK, SrcOK, Working, RawOK, Alone, Gone, StrongCounted
<1>10. FailsOnlyWhenGone'
  BY SMTT(30) DEF TypeOK, SrcOK, Working, RawOK, Alone, FailsOnlyWhenGone, StrongCounted
<1>11. Deleted'
  BY SMTT(30) DEF TypeOK, Deleted, StrongCounted
<1>12. NoLeak'
  BY SMTT(30) DEF TypeOK, SrcOK, Working, Alone, NoLeak, Deleted, StrongCounted
<1> QED
  BY <1>2, <1>3, <1>4, <1>5, <1>6, <1>7, <1>8, <1>9, <1>10, <1>11, <1>12, Finish, SMTT(30)

\* attemptIncWeak succeeds.
LEMMA CasWeakInv ==
    ASSUME IInv, NEW r \in Ref, mWeak = cur[r], CasWeak(r)
    PROVE  IInv'
<1>1. Known(r)
  BY Start
<1> USE <1>1 DEF CasWeak, Complete, Known
<1>2. Moved(r, "weak")
  BY SMTT(30) DEF Moved, TypeOK, CountsExact, InStrong, NotWeak, PC
<1>3. Flags'
  BY SMTT(30) DEF TypeOK, Flags
<1>4. Fields'
  BY SMTT(30) DEF TypeOK, Fields
<1>5. Subtracted'
  BY SMTT(30) DEF TypeOK, CountsExact, Alone, StrongCounted, InStrong, Subtracted
<1>6. SrcOK'
  BY SMTT(30) DEF TypeOK, SrcOK, Working, Used, RawOK
<1>7. RawOK'
  <2>1. src[r] # Raw /\ (raw => mFlags = "STRONG")
    BY SMTT(30) DEF SrcOK, RawOK
  <2>2. /\ raw' = raw /\ fixed' = fixed /\ object' = object
        /\ \A q \in Ref \ {r} : pc'[q] = pc[q] /\ src'[q] = src[q]
        /\ pc'[r] = "weak" /\ pc[r] = "casWeak"
    BY <2>1, SMTT(30) DEF TypeOK
  <2>3. raw /\ fixed => \E q \in Ref \ {r} : src[q] = Raw /\ pc[q] = "first"
    BY <2>1, SMTT(30) DEF RawOK
  <2> QED
    BY <2>1, <2>2, <2>3, SMTT(30) DEF RawOK
<1>8. Alone'
  BY SMTT(30) DEF TypeOK, SrcOK, Working, RawOK, Alone, StrongCounted
<1>9. Gone'
  BY SMTT(30) DEF TypeOK, SrcOK, Working, RawOK, Alone, Gone, StrongCounted
<1>10. FailsOnlyWhenGone'
  BY SMTT(30) DEF TypeOK, SrcOK, Working, RawOK, Alone, FailsOnlyWhenGone, StrongCounted
<1>11. Deleted'
  BY SMTT(30) DEF TypeOK, Deleted, StrongCounted
<1>12. NoLeak'
  BY SMTT(30) DEF TypeOK, SrcOK, Working, Alone, NoLeak, Deleted, StrongCounted
<1> QED
  BY <1>2, <1>3, <1>4, <1>5, <1>6, <1>7, <1>8, <1>9, <1>10, <1>11, <1>12, Finish, SMTT(30)

\* attemptIncWeak finds another count and retries.
LEMMA CasWeakRetryInv ==
    ASSUME IInv, NEW r \in Ref, mWeak # cur[r], CasWeak(r)
    PROVE  IInv'
<1>1. Known(r)
  BY Start, SMTT(30)
<1> USE <1>1 DEF CasWeak, Known
<1>2. Moved(r, pc[r])
  BY DEF Moved, TypeOK, CountsExact, InStrong, NotWeak, PC
<1>3. Flags'
  BY DEF TypeOK, Flags
<1>4. Fields'
  BY SMTT(30) DEF TypeOK, Fields
<1>5. Subtracted'
  BY SMTT(30) DEF TypeOK, CountsExact, Alone, StrongCounted, InStrong, Subtracted
<1>6. SrcOK'
  BY SMTT(30) DEF TypeOK, SrcOK, Working, Used, RawOK
<1>7. RawOK'
  BY ZenonT(30) DEF TypeOK, SrcOK, Working, RawOK, Alone
<1>8. Alone'
  BY DEF TypeOK, SrcOK, Working, RawOK, Alone, StrongCounted
<1>9. Gone'
  BY DEF TypeOK, SrcOK, Working, RawOK, Alone, Gone, StrongCounted
<1>10. FailsOnlyWhenGone'
  BY DEF TypeOK, SrcOK, Working, RawOK, Alone, FailsOnlyWhenGone, StrongCounted
<1>11. Deleted'
  BY DEF TypeOK, Deleted, StrongCounted
<1>12. NoLeak'
  BY DEF TypeOK, SrcOK, Working, Alone, NoLeak, Deleted, StrongCounted
<1> QED
  BY <1>2, <1>3, <1>4, <1>5, <1>6, <1>7, <1>8, <1>9, <1>10, <1>11, <1>12, Finish, ZenonT(30)

\* attemptIncStrong finds another count and retries.
LEMMA CasStrongRetryInv ==
    ASSUME IInv, NEW r \in Ref, mStrong # cur[r], CasStrong(r)
    PROVE  IInv'
<1>1. Known(r)
  BY Start
<1> USE <1>1 DEF CasStrong, Cas, Known
<1>2. Moved(r, pc[r])
  BY SMTT(30) DEF Moved, TypeOK, CountsExact, InStrong, NotWeak, PC
<1>3. Flags'
  BY DEF TypeOK, Flags
<1>4. Fields'
  BY SMTT(30) DEF TypeOK, Fields
<1>5. Subtracted'
  BY SMTT(30) DEF TypeOK, CountsExact, Alone, StrongCounted, InStrong, Subtracted
<1>6. SrcOK'
  BY SMTT(30) DEF TypeOK, SrcOK, Working, Used, RawOK
<1>7. RawOK'
  BY ZenonT(30) DEF TypeOK, SrcOK, Working, RawOK, Alone
<1>8. Alone'
  BY DEF TypeOK, SrcOK, Working, RawOK, Alone, StrongCounted
<1>9. Gone'
  BY DEF TypeOK, SrcOK, Working, RawOK, Alone, Gone, StrongCounted
<1>10. FailsOnlyWhenGone'
  BY DEF TypeOK, SrcOK, Working, RawOK, Alone, FailsOnlyWhenGone, StrongCounted
<1>11. Deleted'
  BY DEF TypeOK, Deleted, StrongCounted
<1>12. NoLeak'
  BY SMTT(30) DEF TypeOK, SrcOK, Working, Alone, NoLeak, Deleted, StrongCounted
<1> QED
  BY <1>2, <1>3, <1>4, <1>5, <1>6, <1>7, <1>8, <1>9, <1>10, <1>11, <1>12, Finish, ZenonT(30)

\* So it does when there was no strong reference.
LEMMA CasInitialRetryInv ==
    ASSUME IInv, NEW r \in Ref, mStrong # cur[r], CasInitial(r)
    PROVE  IInv'
<1>1. Known(r)
  BY Start
<1> USE <1>1 DEF CasInitial, Cas, Known
<1>2. Moved(r, pc[r])
  BY DEF Moved, TypeOK, CountsExact, InStrong, NotWeak, PC
<1>3. Flags'
  BY DEF TypeOK, Flags
<1>4. Fields'
  BY SMTT(30) DEF TypeOK, Fields
<1>5. Subtracted'
  BY SMTT(30) DEF TypeOK, CountsExact, Alone, StrongCounted, InStrong, Subtracted
<1>6. SrcOK'
  BY SMTT(30) DEF TypeOK, SrcOK, Working, Used, RawOK
<1>7. RawOK'
  BY ZenonT(30) DEF TypeOK, SrcOK, Working, RawOK, Alone
<1>8. Alone'
  BY DEF TypeOK, SrcOK, Working, RawOK, Alone, StrongCounted
<1>9. Gone'
  BY DEF TypeOK, SrcOK, Working, RawOK, Alone, Gone, StrongCounted
<1>10. FailsOnlyWhenGone'
  BY DEF TypeOK, SrcOK, Working, RawOK, Alone, FailsOnlyWhenGone, StrongCounted
<1>11. Deleted'
  BY DEF TypeOK, Deleted, StrongCounted
<1>12. NoLeak'
  BY SMTT(30) DEF TypeOK, SrcOK, Working, Alone, NoLeak, Deleted, StrongCounted
<1> QED
  BY <1>2, <1>3, <1>4, <1>5, <1>6, <1>7, <1>8, <1>9, <1>10, <1>11, <1>12, Finish, ZenonT(30)

\* The initial value is subtracted after a promotion.
LEMMA FixInv ==
    ASSUME IInv, NEW r \in Ref, Fix(r)
    PROVE  IInv'
<1>1. Known(r)
  BY Start
<1> USE <1>1 DEF Fix, Complete, Known
<1>2. Moved(r, "strong")
  BY DEF Moved, TypeOK, CountsExact, InStrong, NotWeak, PC
<1>3. Flags'
  BY DEF TypeOK, Flags
<1>4. Fields'
  BY SMTT(30) DEF TypeOK, Fields
<1>5. Subtracted'
  BY SMTT(30) DEF TypeOK, CountsExact, Alone, StrongCounted, InStrong, Subtracted
<1>6. SrcOK'
  BY SMTT(30) DEF TypeOK, SrcOK, Working, Used, RawOK
<1>7. RawOK'
  BY SMTT(30) DEF TypeOK, SrcOK, Working, RawOK, Alone
<1>8. Alone'
  BY SMTT(30) DEF TypeOK, SrcOK, Working, RawOK, Alone, StrongCounted
<1>9. Gone'
  BY SMTT(30) DEF TypeOK, SrcOK, Working, RawOK, Alone, Gone, StrongCounted
<1>10. FailsOnlyWhenGone'
  BY SMTT(30) DEF TypeOK, SrcOK, Working, RawOK, Alone, FailsOnlyWhenGone, StrongCounted
<1>11. Deleted'
  BY SMTT(30) DEF TypeOK, Deleted, StrongCounted
<1>12. NoLeak'
  BY SMTT(30) DEF TypeOK, SrcOK, Working, Alone, NoLeak, Deleted, StrongCounted
<1> QED
  BY <1>2, <1>3, <1>4, <1>5, <1>6, <1>7, <1>8, <1>9, <1>10, <1>11, <1>12, Finish, ZenonT(30)

\* Revival of an object with extended lifetime.
LEMMA ReviveInv ==
    ASSUME IInv, NEW r \in Ref, Revive(r)
    PROVE  IInv'
<1>1. Known(r)
  BY Start
<1> USE <1>1 DEF Revive, Complete, Goto, Known
<1>2. Moved(r, IF mStrong = Initial THEN "fix" ELSE "strong")
  BY SMTT(30) DEF Moved, TypeOK, CountsExact, InStrong, NotWeak, PC
<1>3. Flags'
  BY Zenon DEF TypeOK, Flags
<1>4. Fields'
  BY DEF TypeOK, Fields
<1>5. Subtracted'
  BY DEF TypeOK, CountsExact, Alone, StrongCounted, InStrong, Subtracted
<1>6. SrcOK'
  BY DEF TypeOK, SrcOK, Working, Used, RawOK
<1>7. RawOK'
  BY ZenonT(30) DEF TypeOK, SrcOK, Working, RawOK, Alone
<1>8. Alone'
  BY DEF TypeOK, SrcOK, Working, RawOK, Alone, StrongCounted
<1>9. Gone'
  BY DEF TypeOK, SrcOK, Working, RawOK, Alone, Gone, StrongCounted
<1>10. FailsOnlyWhenGone'
  BY DEF TypeOK, SrcOK, Working, RawOK, Alone, FailsOnlyWhenGone, StrongCounted
<1>11. Deleted'
  BY DEF TypeOK, Deleted, StrongCounted
<1>12. NoLeak'
  BY SMTT(30) DEF TypeOK, SrcOK, Working, Alone, NoLeak, Deleted, StrongCounted
<1> QED
  BY <1>2, <1>3, <1>4, <1>5, <1>6, <1>7, <1>8, <1>9, <1>10, <1>11, <1>12, Finish, SMTT(30)

\* decStrong.
LEMMA DecStrongInv ==
    ASSUME IInv, NEW r \in Ref, decStrong(r)
    PROVE  IInv'
<1>1. Known(r)
  BY Start
<1> USE <1>1 DEF decStrong, Goto, Used, Known
<1>2. Moved(r, IF mStrong = 1 THEN "last" ELSE "decWeak")
  BY DEF Moved, TypeOK, CountsExact, InStrong, NotWeak, PC
<1>3. Flags'
  BY SMTT(30) DEF TypeOK, Flags
<1>4. Fields'
  BY SMTT(30) DEF TypeOK, Fields
<1>5. Subtracted'
  BY SMTT(30) DEF TypeOK, CountsExact, Alone, StrongCounted, InStrong, Subtracted
<1>6. SrcOK'
  BY SMTT(30) DEF TypeOK, SrcOK, Working, Used, RawOK
<1>7. RawOK'
  BY SMTT(30) DEF TypeOK, SrcOK, Working, RawOK, Alone
<1>8. Alone'
  BY SMTT(30) DEF TypeOK, SrcOK, Working, RawOK, Alone, StrongCounted
<1>9. Gone'
  BY SMTT(30) DEF TypeOK, SrcOK, Working, RawOK, Alone, Gone, StrongCounted
<1>10. FailsOnlyWhenGone'
  BY SMTT(30) DEF TypeOK, SrcOK, Working, RawOK, Alone, FailsOnlyWhenGone, StrongCounted
<1>11. Deleted'
  <2>1. r \in StrongCounted
    BY SMTT(30) DEF StrongCounted
  <2>2. CASE mStrong = 1
    BY <2>2, SMTT(30) DEF TypeOK, Deleted
  <2>3. CASE mStrong # 1
    <3>1. fixed => \E q \in Ref \ {r} : q \in StrongCounted
      BY <2>1, <2>3, SMTT(30) DEF StrongCounted
    <3> QED
      BY <3>1, SMTT(30) DEF TypeOK, Deleted, StrongCounted
  <2> QED
    BY <2>2, <2>3, SMTT(30)
<1>12. NoLeak'
  BY SMTT(30) DEF TypeOK, SrcOK, Working, Alone, NoLeak, Deleted, StrongCounted
<1> QED
  BY <1>2, <1>3, <1>4, <1>5, <1>6, <1>7, <1>8, <1>9, <1>10, <1>11, <1>12, Finish, ZenonT(30)

\* The last strong reference.
LEMMA LastStrongInv ==
    ASSUME IInv, NEW r \in Ref, LastStrong(r)
    PROVE  IInv'
<1>1. Known(r)
  BY Start
<1> USE <1>1 DEF LastStrong, WithStrong, Goto, Known
<1>2. Moved(r, "decWeak")
  BY SMTT(30) DEF Moved, TypeOK, CountsExact, InStrong, NotWeak, PC
<1>3. Flags'
  BY SMTT(30) DEF TypeOK, Flags
<1>4. Fields'
  BY SMTT(30) DEF TypeOK, Fields
<1>5. Subtracted'
  BY SMTT(30) DEF TypeOK, CountsExact, Alone, StrongCounted, InStrong, Subtracted
<1>6. SrcOK'
  BY SMTT(30) DEF TypeOK, SrcOK, Working, Used, RawOK
<1>7. RawOK'
  BY SMTT(30) DEF TypeOK, SrcOK, Working, RawOK, Alone
<1>8. Alone'
  BY SMTT(30) DEF TypeOK, SrcOK, Working, RawOK, Alone, StrongCounted
<1>9. Gone'
  BY SMTT(30) DEF TypeOK, SrcOK, Working, RawOK, Alone, Gone, StrongCounted
<1>10. FailsOnlyWhenGone'
  BY SMTT(30) DEF TypeOK, SrcOK, Working, RawOK, Alone, FailsOnlyWhenGone, StrongCounted
<1>11. Deleted'
  BY SMTT(30) DEF TypeOK, Deleted, StrongCounted
<1>12. NoLeak'
  BY SMTT(30) DEF TypeOK, SrcOK, Working, Alone, NoLeak, Deleted, StrongCounted
<1> QED
  BY <1>2, <1>3, <1>4, <1>5, <1>6, <1>7, <1>8, <1>9, <1>10, <1>11, <1>12, Finish, SMTT(30)

\* decWeak.
LEMMA DecWeakInv ==
    ASSUME IInv, NEW r \in Ref, decWeak(r)
    PROVE  IInv'
<1>1. Known(r)
  BY Start
<1> USE <1>1 DEF decWeak, Goto, Used, Known
<1>2. Moved(r, IF mWeak = 1 THEN "lastWeak" ELSE "none")
  BY SMTT(30) DEF Moved, TypeOK, CountsExact, InStrong, NotWeak, PC
<1>3. Flags'
  BY SMTT(30) DEF TypeOK, Flags
<1>4. Fields'
  BY SMTT(30) DEF TypeOK, Fields
<1>5. Subtracted'
  BY SMTT(30) DEF TypeOK, CountsExact, Alone, StrongCounted, InStrong, Subtracted
<1>6. SrcOK'
  BY SMTT(30) DEF TypeOK, SrcOK, Working, Used, RawOK
<1>7. RawOK'
  BY SMTT(30) DEF TypeOK, SrcOK, Working, RawOK, Alone
<1>8. Alone'
  <2>1. mWeak = 1 => WeakCounted = {r}
    <3>1. r \in WeakCounted
      BY SMTT(30) DEF decWeak, WeakCounted
    <3> QED
      BY <3>1, WeakFacts, SMTT(30)
  <2>2. ASSUME mWeak = 1, NEW q \in Ref \ {r} PROVE pc[q] = "none"
    <3>1. pc[q] \in NotWeak
      BY <2>1, <2>2, SMTT(30) DEF WeakCounted, NotWeak
    <3>2. pc[q] # "lastWeak"
      BY <2>2, SMTT(30) DEF decWeak, Alone
    <3>3. pc[q] \notin {"loadWeak", "casWeak"}
      <4>1. SUFFICES ASSUME pc[q] \in {"loadWeak", "casWeak"} PROVE FALSE
        BY SMTT(30)
      <4>2. src[q] \in Ref /\ pc[src[q]] \in {"strong", "weak"}
        BY <4>1, <2>2, SMTT(30) DEF SrcOK, Working, TypeOK
      <4>3. src[q] \in WeakCounted
        BY <4>2, SMTT(30) DEF WeakCounted
      <4>4. src[q] = r
        BY <4>3, <2>1, <2>2, SMTT(30)
      <4> QED
        BY <4>2, <4>4, <2>2, SMTT(30) DEF decWeak, Used
    <3> QED
      BY <3>1, <3>2, <3>3, SMTT(30) DEF NotWeak
  <2> QED
    BY <2>2, SMTT(30) DEF decWeak, Goto, TypeOK, Alone, StrongCounted
<1>9. Gone'
  BY SMTT(30) DEF TypeOK, SrcOK, Working, RawOK, Alone, Gone, StrongCounted
<1>10. FailsOnlyWhenGone'
  BY SMTT(30) DEF TypeOK, SrcOK, Working, RawOK, Alone, FailsOnlyWhenGone, StrongCounted
<1>11. Deleted'
  BY SMTT(30) DEF TypeOK, Deleted, StrongCounted
<1>12. NoLeak'
  <2>1. mWeak = 1 <=> WeakCounted = {r}
    <3>1. r \in WeakCounted
      BY DEF WeakCounted
    <3> QED
      BY <3>1, WeakFacts, SMTT(30)
  <2>2. CASE mWeak = 1
    BY <2>2, SMTT(30) DEF TypeOK, NoLeak
  <2>3. CASE mWeak # 1
    <3>1. PICK q \in Ref \ {r} : pc[q] # "none"
      BY <2>1, <2>3, SMTT(30) DEF WeakCounted
    <3> QED
      BY <3>1, SMTT(30) DEF TypeOK, NoLeak
  <2> QED
    BY <2>2, <2>3, SMTT(30)
<1> QED
  BY <1>2, <1>3, <1>4, <1>5, <1>6, <1>7, <1>8, <1>9, <1>10, <1>11, <1>12, Finish, ZenonT(30)

\* The last weak reference.
LEMMA LastWeakInv ==
    ASSUME IInv, NEW r \in Ref, LastWeak(r)
    PROVE  IInv'
<1>1. Known(r)
  BY Start
<1> USE <1>1 DEF LastWeak, WithWeak, Freed, Goto, Known
<1>2. Moved(r, "none")
  BY SMTT(30) DEF Moved, TypeOK, CountsExact, InStrong, NotWeak, PC
<1>3. Flags'
  BY SMTT(30) DEF TypeOK, Flags
<1>4. Fields'
  BY SMTT(30) DEF TypeOK, Fields
<1>5. Subtracted'
  BY SMTT(30) DEF TypeOK, CountsExact, Alone, StrongCounted, InStrong, Subtracted
<1>6. SrcOK'
  BY SMTT(30) DEF TypeOK, SrcOK, Working, Used, RawOK
<1>7. RawOK'
  BY SMTT(30) DEF TypeOK, SrcOK, Working, RawOK, Alone
<1>8. Alone'
  BY SMTT(30) DEF TypeOK, SrcOK, Working, RawOK, Alone, StrongCounted
<1>9. Gone'
  BY SMTT(30) DEF TypeOK, SrcOK, Working, RawOK, Alone, Gone, StrongCounted
<1>10. FailsOnlyWhenGone'
  BY SMTT(30) DEF TypeOK, SrcOK, Working, RawOK, Alone, FailsOnlyWhenGone, StrongCounted
<1>11. Deleted'
  BY SMTT(30) DEF TypeOK, Deleted, StrongCounted
<1>12. NoLeak'
  BY DEF TypeOK, SrcOK, Working, Alone, NoLeak, Deleted, StrongCounted
<1> QED
  BY <1>2, <1>3, <1>4, <1>5, <1>6, <1>7, <1>8, <1>9, <1>10, <1>11, <1>12, Finish, SMTT(30)

\* The raw pointer is given up, or deleted.
LEMMA RawInv ==
    ASSUME IInv, DropRaw \/ DeleteRaw
    PROVE  IInv'
<1>1. /\ TypeOK /\ CountsExact /\ SrcOK /\ RawOK /\ Alone /\ Gone /\ Deleted
      /\ FailsOnlyWhenGone /\ NoLeak
  BY DEF IInv
<1>2. pc' = pc /\ mStrong' = mStrong /\ mWeak' = mWeak /\ fixed' = fixed
  BY DEF DropRaw, DeleteRaw
<1>3. StrongCounted' = StrongCounted /\ WeakCounted' = WeakCounted
  BY <1>2, SMTT(30) DEF StrongCounted, WeakCounted
<1>4. TypeOK'
  BY <1>1, ZenonT(30) DEF TypeOK, DropRaw, DeleteRaw
<1>5. CountsExact' /\ FailsOnlyWhenGone'
  BY <1>1, <1>2, <1>3 DEF CountsExact, FailsOnlyWhenGone, DropRaw, DeleteRaw
<1>6. SrcOK' /\ RawOK'
  BY <1>1, Distinct DEF TypeOK, SrcOK, RawOK, Working, RawUsable, Used, DropRaw, DeleteRaw
<1>7. Alone' /\ Deleted'
  BY <1>1, <1>2, <1>3 DEF Alone, Deleted, DropRaw, DeleteRaw
<1>8. Gone'
  BY <1>1, <1>2, <1>3, SMTT(30) DEF Gone, DropRaw, DeleteRaw
<1>9. NoLeak'
  BY <1>1, <1>2, SMTT(30) DEF TypeOK, NoLeak, RawUsable, DropRaw, DeleteRaw
<1> QED
  BY <1>4, <1>5, <1>6, <1>7, <1>8, <1>9, SMTT(30) DEF IInv

\* Nothing changes.
LEMMA StutterInv == IInv /\ UNCHANGED vars => IInv'
<1> SUFFICES ASSUME IInv, UNCHANGED vars PROVE IInv'
  OBVIOUS
<1>1. /\ TypeOK /\ CountsExact /\ SrcOK /\ RawOK /\ Alone /\ Gone /\ Deleted
      /\ FailsOnlyWhenGone /\ NoLeak
  BY DEF IInv
<1>2. StrongCounted' = StrongCounted /\ WeakCounted' = WeakCounted
  BY SMTT(30) DEF vars, StrongCounted, WeakCounted
<1>3. TypeOK'
  BY <1>1, SMTT(30) DEF vars, TypeOK
<1>4. CountsExact'
  BY <1>1, <1>2, SMTT(30) DEF vars, CountsExact
<1>5. SrcOK'
  BY <1>1, SMTT(30) DEF vars, SrcOK
<1>6. RawOK'
  BY <1>1, SMTT(30) DEF vars, RawOK
<1>7. Alone'
  BY <1>1, <1>2, SMTT(30) DEF vars, Alone
<1>8. Gone' /\ Deleted'
  BY <1>1, <1>2, SMTT(30) DEF vars, Gone, Deleted
<1>9. FailsOnlyWhenGone' /\ NoLeak'
  BY <1>1 DEF vars, FailsOnlyWhenGone, NoLeak
<1> QED
  BY <1>3, <1>4, <1>5, <1>6, <1>7, <1>8, <1>9, SMTT(30) DEF IInv

\* The constructor establishes the invariant.
LEMMA InitInv == Init => IInv
<1> SUFFICES ASSUME Init PROVE IInv
  OBVIOUS
<1>1. StrongCounted = {} /\ WeakCounted = {}
  BY DEF Init, StrongCounted, WeakCounted
<1>2. Cardinality(StrongCounted) = 0 /\ Cardinality(WeakCounted) = 0
  BY <1>1, FS_EmptySet, SMTT(30)
<1>3. TypeOK
  BY Distinct, ZenonT(30) DEF Init, TypeOK, PC
<1>4. CountsExact
  BY <1>1, <1>2, Distinct DEF Init, CountsExact
<1>5. SrcOK /\ RawOK /\ Alone /\ Gone /\ Deleted /\ FailsOnlyWhenGone /\ NoLeak
  BY Distinct DEF Init, SrcOK, RawOK, Alone, Gone, Deleted, FailsOnlyWhenGone, NoLeak,
                  Working, StrongCounted
<1> QED
  BY <1>3, <1>4, <1>5 DEF IInv

\* Every atomic access of every operation preserves the invariant.
LEMMA NextInv ==
    ASSUME IInv, ~raced', Next
    PROVE  IInv'
<1>1. ASSUME NEW r \in Ref, MakeStrong(r) PROVE IInv'
  BY <1>1, IncStrongBegins, ForceIncStrongBegins DEF MakeStrong
<1>2. ASSUME NEW r \in Ref, MakeWeak(r) PROVE IInv'
  BY <1>2, IncWeakInv, AttemptIncWeakInv DEF MakeWeak
<1>3. ASSUME NEW r \in Ref, promote(r) PROVE IInv'
  BY <1>3, AttemptBegins DEF promote
<1>4. ASSUME NEW r \in Ref, Release(r) PROVE IInv'
  BY <1>4, DecStrongInv, DecWeakInv, SMTT(30) DEF Release
<1>5. ASSUME NEW r \in Ref, Step(r) PROVE IInv'
  <2>1. CASE IncStrongAdd(r) \/ IncStrongSub(r) \/ OnFirstRef(r)
    BY <2>1, IncStrongAddInv, IncStrongSubInv, OnFirstRefInv, SMTT(30)
  <2>2. CASE LoadWeak(r) \/ CasWeak(r)
    BY <2>2, LoadWeakInv, CasWeakInv, CasWeakRetryInv, SMTT(30)
  <2>3. CASE LoadStrong(r) \/ CasStrong(r)
    BY <2>3, LoadStrongInv, CasStrongInv, CasStrongRetryInv, SMTT(30)
  <2>4. CASE NeverStrong(r) \/ CasInitial(r) \/ AttemptFails(r)
    BY <2>4, NeverStrongInv, CasInitialInv, CasInitialRetryInv, AttemptFailsInv, SMTT(30)
  <2>5. CASE IncStrongAttempted(r)
    <3>1. Goto(r, "agreed") \/ Complete(r, "decWeak")
      BY <2>5 DEF IncStrongAttempted
    <3> QED
      BY <2>5, <3>1, AgreedInv, RefusedInv, SMTT(30)
  <2>6. CASE Revive(r) \/ Fix(r)
    BY <2>6, ReviveInv, FixInv
  <2>7. CASE LastStrong(r) \/ LastWeak(r)
    BY <2>7, LastStrongInv, LastWeakInv
  <2> QED
    BY <1>5, <2>1, <2>2, <2>3, <2>4, <2>5, <2>6, <2>7, SMTT(30) DEF Step
<1> QED
  BY <1>1, <1>2, <1>3, <1>4, <1>5, RawInv DEF Next

\* A race is never forgotten.
LEMMA RacedStays == ASSUME [Next]_vars, raced PROVE raced'
<1>1. ASSUME NEW r \in Ref, MakeStrong(r) \/ MakeWeak(r) \/ promote(r) PROVE raced'
  BY <1>1, Zenon DEF MakeStrong, MakeWeak, promote, incStrong, forceIncStrong, attemptIncStrong,
     incWeak, attemptIncWeak, Begin, From
<1>2. ASSUME NEW r \in Ref, Step(r) \/ Release(r) PROVE raced' = raced
  BY <1>2, ZenonT(30) DEF Step, Release, IncStrongAdd, IncStrongSub, OnFirstRef, LoadWeak, CasWeak,
     LoadStrong, CasStrong, NeverStrong, CasInitial, AttemptFails, IncStrongAttempted, Revive,
     Fix, LastStrong, LastWeak, Cas, decStrong, decWeak
<1>3. DropRaw \/ DeleteRaw => raced' = raced
  BY Zenon DEF DropRaw, DeleteRaw
<1>4. UNCHANGED vars => raced' = raced
  BY Zenon DEF vars
<1> QED
  BY <1>1, <1>2, <1>3, <1>4, Zenon DEF Next

\* The inductive invariant holds for any number of references, as long as the raw pointer
\* was not used while decWeak had yet to look at mStrong.
THEOREM Invariance == Spec => [](raced \/ IInv)
<1>1. Init => IInv
  BY InitInv
<1>2. (raced \/ IInv) /\ [Next]_vars => (raced \/ IInv)'
  BY NextInv, StutterInv, RacedStays, Zenon
<1> QED
  BY <1>1, <1>2, PTL DEF Spec

\* The object and its weakref_impl are never used after they are freed, nor freed twice,
\* unless there was that race.
THEOREM NeverUsedAfterFree == Spec => []NoUseAfterFree
<1>1. IInv => Safe
  <2> SUFFICES ASSUME IInv PROVE Safe
    OBVIOUS
  <2>1. TypeOK /\ SrcOK /\ RawOK /\ Alone /\ Gone
    BY SMTT(30) DEF IInv
  <2>2. \A r \in Ref : pc[r] \in {"inc", "force"} => object = "alive"
    BY <2>1, Distinct, SMTT(30) DEF TypeOK, SrcOK, RawOK, Gone, Working, StrongCounted
  <2>3. \A r \in Ref : pc[r] # "none" => impl = "alive"
    BY <2>1 DEF TypeOK, Gone
  <2>4. \A r \in Ref : pc[r] = "last" \/ r \in StrongCounted => object = "alive"
    BY <2>1, SMTT(30) DEF TypeOK, Gone, StrongCounted
  <2>5. mFlags = "WEAK" /\ (\E r \in Ref : pc[r] # "none") => object = "alive"
    BY <2>1, SMTT(30) DEF TypeOK, Gone
  <2>6. raw => object = "alive" /\ impl = "alive"
    BY <2>1 DEF TypeOK, Gone, RawOK
  <2>7. StrongCounted \subseteq Ref
    BY DEF StrongCounted
  <2> QED
    BY <2>2, <2>3, <2>4, <2>5, <2>6, <2>7, SMTT(30) DEF Safe
<1>2. raced \/ IInv => NoUseAfterFree
  BY <1>1 DEF NoUseAfterFree
<1> QED
  BY <1>2, Invariance, PTL

\* mStrong and mWeak count the references exactly, up to the initial value, which is
\* subtracted once.
THEOREM AlwaysExact == Spec => [](~raced => CountsExact)
<1>1. IInv => CountsExact
  BY DEF IInv
<1> QED
  BY <1>1, Invariance, PTL

\* An object that had a strong reference is freed with its weakref_impl when the last
\* reference is gone.
THEOREM NeverLeaks == Spec => [](~raced => NoLeak)
<1>1. IInv => NoLeak
  BY DEF IInv
<1> QED
  BY <1>1, Invariance, PTL

\* attemptIncStrong gives up only when the strong count is zero for good.
THEOREM FailsForGood == Spec => [](~raced => FailsOnlyWhenGone)
<1>1. IInv => FailsOnlyWhenGone
  BY DEF IInv
<1> QED
  BY <1>1, Invariance, PTL

\* Type correctness.
THEOREM TypeCorrect == Spec => [](~raced => TypeOK)
<1>1. IInv => TypeOK
  BY DEF IInv
<1> QED
  BY <1>1, Invariance, PTL

=============================================================================
