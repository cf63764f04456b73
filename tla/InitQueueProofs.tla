-------------------------- MODULE InitQueueProofs --------------------------
(***************************************************************************)
(* Proofs about init's action queue, for every set of scripts, properties  *)
(* and clients, and a queue of any length: the indexes and pointers that   *)
(* ExecuteOneCommand uses stay valid, only the shutdown's own actions are  *)
(* executed once it is under way, and no property trigger is missed.       *)
(***************************************************************************)
EXTENDS InitQueue, SequenceTheorems, WellFoundedInduction, TLAPS

In(x, s) == \E i \in 1..Len(s) : s[i] = x

TypeOK ==
    /\ pc \in {"shutdown", "execute", "poll"}
    /\ props \in [Prop -> Value \cup {""}]
    /\ actions \in Seq(DOMAIN Script) /\ executing \in Seq(DOMAIN Script)
    /\ queue \in Seq(Events)
    /\ cmd \in Nat
    /\ enabled \in BOOLEAN /\ shutting \in BOOLEAN /\ down \in BOOLEAN

\* The following are about the actions acts, the ones being executed run and the events q,
\* so that they can also be said of what ExecuteOneCommand has fetched.

\* current_command_ is valid
CommandOf(run) == IF run = <<>> THEN cmd = 0 ELSE cmd < Len(Script[run[1]].cmds)

\* The actions of the scripts stay
RcStay(acts) == \A a \in DOMAIN Script \ Builtins : In(a, acts)

\* A builtin action exists once, its event is queued once, and only as long as the action is
\* there and not yet executed
Once(acts, run, q) ==
    \A b \in Builtins :
        /\ \A i, j \in 1..Len(acts) : acts[i] = b /\ acts[j] = b => i = j
        /\ \A i, j \in 1..Len(q) : q[i] = BuiltinAction(b) /\ q[j] = BuiltinAction(b) => i = j
        /\ In(b, run) => run = <<b>> /\ ~In(BuiltinAction(b), q)
        /\ In(BuiltinAction(b), q) => In(b, acts)

\* enable_property_trigger comes to be when queue_property_triggers is executed, and
\* shutdown_done with the shutdown
InTurn(acts) ==
    /\ In("queue_property_triggers", acts) => ~In("enable_property_trigger", acts)
    /\ In("shutdown_done", acts) => shutting

\* While triggers are not enabled, the look at all properties is to come after they are
EnabledFirst(run, q) ==
    ~shutting /\ ~enabled =>
        \/ In(BuiltinAction("queue_property_triggers"), q)
        \/ In("queue_property_triggers", run)
        \/ \E i, j \in 1..Len(q) : /\ i < j
                                   /\ q[i] = BuiltinAction("enable_property_trigger")
                                   /\ q[j] = PropertyChange("", "")
        \/ In("enable_property_trigger", run) /\ In(PropertyChange("", ""), q)

\* A shutdown: its own actions, then the builtin action that reboots
ShutdownOrder(run, q) ==
    shutting =>
        \/ /\ run = <<>> /\ Len(q) >= 2
           /\ q[1] = EventTrigger("shutdown") /\ q[2] = BuiltinAction("shutdown_done")
        \/ /\ \A i \in 1..Len(run) : Script[run[i]].event = "shutdown"
           /\ Len(q) >= 1 /\ q[1] = BuiltinAction("shutdown_done")
        \/ run = <<"shutdown_done">>

\* The look at all properties is to come
ToCome(run, q) ==
    \/ In(BuiltinAction("queue_property_triggers"), q)
    \/ In("queue_property_triggers", run)
    \/ In(PropertyChange("", ""), q)

\* Property action a has been, or will be taken up; s is what has been
Covered(a, s, run, q) ==
    \/ a \in s
    \/ ToCome(run, q)
    \/ \E n \in DOMAIN Script[a].props : In(PropertyChange(n, props[n]), q)

NoneMissed(s, run, q) ==
    ~shutting => \A a \in PropertyActions : Satisfied(a, props) => Covered(a, s, run, q)

Sound(acts, run, q) ==
    /\ RcStay(acts) /\ InTurn(acts) /\ Once(acts, run, q) /\ EnabledFirst(run, q)
    /\ \A a \in DOMAIN Script : In(a, run) => In(a, acts)

\* The inductive invariant.
QueueInv ==
    /\ TypeOK /\ CommandOf(executing) /\ Sound(actions, executing, queue)
    /\ NoneMissed(served, executing, queue)
    /\ ~down => ShutdownOrder(executing, queue)
    /\ down => shutting /\ pc = "poll" /\ executing = <<>>

-----------------------------------------------------------------------------
(* Sequences of actions and events                                          *)

\* Induction: a set of numbers that is not empty has a least one.
LEMMA LeastNumber ==
  ASSUME NEW T \in SUBSET Nat, T # {}
  PROVE  \E x \in T : \A y \in T : x =< y
  <1> DEFINE R == OpToRel(<, Nat)
  <1>1. IsWellFoundedOn(R, Nat)
    BY NatLessThanWellFounded, Zenon
  <1>2. \A x, y \in Nat : <<y, x>> \in R <=> y < x
    BY DEF OpToRel
  <1> HIDE DEF R
  <1>3. PICK x \in T : \A y \in T : ~(<<y, x>> \in R)
    BY <1>1, WFMin, Zenon
  <1>4. ASSUME NEW y \in T PROVE x =< y
    <2>1. x \in Nat /\ y \in Nat
      OBVIOUS
    <2>2. ~(y < x)
      BY <1>2, <1>3, <2>1, Zenon
    <2> QED
      BY <2>1, <2>2
  <1> QED
    BY <1>4

\* The function that Those is defined with, for the first n members
Keeps(f, s, S, n) ==
    f = [i \in 0..n |-> IF i = 0 THEN <<>>
                        ELSE IF s[i] \in S THEN Append(f[i - 1], s[i]) ELSE f[i - 1]]

\* There is such a function: the one for n members continues the one for n - 1.
LEMMA KeepsExists ==
  ASSUME NEW s, NEW S, NEW n \in Nat
  PROVE  \E f : Keeps(f, s, S, n)
  <1> DEFINE Bad == {k \in Nat : ~ \E f : Keeps(f, s, S, k)}
  <1> SUFFICES ASSUME Bad # {} PROVE FALSE
    OBVIOUS
  <1>1. PICK m \in Bad : \A k \in Bad : m =< k
    BY LeastNumber, Zenon
  <1>2. CASE m = 0
    <2> DEFINE g == [i \in 0..0 |-> <<>>]
    <2>1. Keeps(g, s, S, 0)
      BY DEF Keeps
    <2> QED
      BY <1>1, <1>2, <2>1
  <1>3. CASE m # 0
    <2>1. m \in Nat /\ m # 0
      BY <1>1, <1>3
    <2>2. PICK f : Keeps(f, s, S, m - 1)
      BY <1>1, <2>1
    <2> DEFINE g == [i \in 0..m |-> IF i = 0 THEN <<>>
                                    ELSE IF s[i] \in S THEN Append(f[i - 1], s[i]) ELSE f[i - 1]]
    <2>3. ASSUME NEW i \in 0..(m - 1) PROVE g[i] = f[i]
      <3>1. f[i] = IF i = 0 THEN <<>>
                   ELSE IF s[i] \in S THEN Append(f[i - 1], s[i]) ELSE f[i - 1]
        BY <2>1, <2>2, Zenon DEF Keeps
      <3>2. g[i] = IF i = 0 THEN <<>>
                   ELSE IF s[i] \in S THEN Append(f[i - 1], s[i]) ELSE f[i - 1]
        BY <2>1
      <3> QED
        BY <3>1, <3>2
    <2>4. ASSUME NEW i \in 0..m
          PROVE  g[i] = IF i = 0 THEN <<>>
                        ELSE IF s[i] \in S THEN Append(g[i - 1], s[i]) ELSE g[i - 1]
      <3>1. CASE i = 0
        BY <2>1, <3>1
      <3>2. CASE i # 0
        <4> i - 1 \in 0..(m - 1)
          BY <2>1, <3>2
        <4>1. g[i - 1] = f[i - 1]
          BY <2>3, Zenon
        <4>2. g[i] = IF s[i] \in S THEN Append(f[i - 1], s[i]) ELSE f[i - 1]
          BY <3>2
        <4> QED
          BY <3>2, <4>1, <4>2
      <3> QED
        BY <3>1, <3>2
    <2>5. g = [i \in 0..m |-> g[i]]
      OBVIOUS
    <2> HIDE DEF g
    <2>6. Keeps(g, s, S, m)
      BY <2>4, <2>5, Zenon DEF Keeps
    <2> QED
      BY <1>1, <2>6
  <1> QED
    BY <1>2, <1>3

\* What is selected is there, each member from a place of its own, and nothing is left out.
Selects(t, s, S, n) ==
    /\ \A i \in 1..Len(t) : \E a \in 1..n : t[i] = s[a] /\ s[a] \in S
    /\ \A i, j \in 1..Len(t) : i < j => \E a, c \in 1..n : a < c /\ t[i] = s[a] /\ t[j] = s[c]
    /\ \A a \in 1..n : s[a] \in S => In(s[a], t)

\* Appending one more member that is selected.
LEMMA SelectsAppend ==
  ASSUME NEW D, NEW s \in Seq(D), NEW S, NEW k \in 1..Len(s), NEW t \in Seq(D),
         Selects(t, s, S, k - 1), s[k] \in S
  PROVE  Selects(Append(t, s[k]), s, S, k)
  <1> DEFINE u == Append(t, s[k])
  <1>1. k \in Nat /\ s[k] \in D
    OBVIOUS
  <1>2. /\ Len(t) \in Nat /\ Len(u) = Len(t) + 1 /\ u[Len(t) + 1] = s[k]
        /\ \A i \in 1..Len(t) : u[i] = t[i]
    BY <1>1
  <1> HIDE DEF u
  <1>3. ASSUME NEW i \in 1..Len(t)
        PROVE  \E a \in 1..k : a < k /\ u[i] = s[a] /\ s[a] \in S
    <2>1. PICK a \in 1..(k - 1) : t[i] = s[a] /\ s[a] \in S
      BY DEF Selects
    <2> QED
      BY <1>1, <1>2, <2>1
  <1>4. ASSUME NEW i \in 1..Len(u)
        PROVE  \E a \in 1..k : u[i] = s[a] /\ s[a] \in S
    <2>1. CASE i = Len(t) + 1
      BY <1>1, <1>2, <2>1
    <2>2. CASE i # Len(t) + 1
      <3>1. i \in 1..Len(t)
        BY <1>2, <2>2
      <3> QED
        BY <1>3, <3>1
    <2> QED
      BY <2>1, <2>2
  <1>5. ASSUME NEW i \in 1..Len(u), NEW j \in 1..Len(u), i < j
        PROVE  \E a, c \in 1..k : a < c /\ u[i] = s[a] /\ u[j] = s[c]
    <2>1. i \in 1..Len(t)
      BY <1>2, <1>5
    <2>2. CASE j = Len(t) + 1
      <3>1. PICK a \in 1..k : a < k /\ u[i] = s[a]
        BY <1>3, <2>1
      <3>2. k \in 1..k /\ u[j] = s[k]
        BY <1>1, <1>2, <2>2
      <3> QED
        BY <3>1, <3>2, SMTT(30)
    <2>3. CASE j # Len(t) + 1
      <3>1. j \in 1..Len(t)
        BY <1>2, <2>3
      <3>2. PICK a \in 1..(k - 1), c \in 1..(k - 1) : a < c /\ t[i] = s[a] /\ t[j] = s[c]
        BY <1>5, <2>1, <3>1 DEF Selects
      <3>3. a \in 1..k /\ c \in 1..k
        BY <1>1, <3>2
      <3> QED
        BY <1>2, <2>1, <3>1, <3>2, <3>3
    <2> QED
      BY <2>2, <2>3
  <1>6. ASSUME NEW a \in 1..k, s[a] \in S PROVE In(s[a], u)
    <2>1. CASE a = k
      <3>1. Len(t) + 1 \in 1..Len(u)
        BY <1>2
      <3> QED
        BY <1>2, <2>1, <3>1 DEF In
    <2>2. CASE a # k
      <3>1. a \in 1..(k - 1)
        BY <1>1, <2>2
      <3>2. PICK i \in 1..Len(t) : t[i] = s[a]
        BY <1>6, <3>1 DEF Selects, In
      <3>3. i \in 1..Len(u)
        BY <1>2, <3>2
      <3> QED
        BY <1>2, <3>2, <3>3 DEF In
    <2> QED
      BY <2>1, <2>2
  <1> QED
    BY <1>4, <1>5, <1>6, Zenon DEF Selects, u

\* A range without its last member.
LEMMA Range1 == ASSUME NEW k \in Nat \ {0} PROVE 1..k = (1..(k - 1)) \cup {k}
  OBVIOUS

\* One more member that is not selected.
LEMMA SelectsSkip ==
  ASSUME NEW D, NEW s \in Seq(D), NEW S, NEW k \in 1..Len(s), NEW t \in Seq(D),
         Selects(t, s, S, k - 1), s[k] \notin S
  PROVE  Selects(t, s, S, k)
  <1>1. k \in Nat \ {0}
    OBVIOUS
  <1>2. 1..k = (1..(k - 1)) \cup {k}
    BY <1>1, Range1, Zenon
  <1>3. (\A a \in 1..(k - 1) : a \in 1..k) /\ (\A a \in 1..k : a \in 1..(k - 1) \/ a = k)
    BY <1>2, Zenon
  <1>4. ASSUME NEW i \in 1..Len(t) PROVE \E a \in 1..k : t[i] = s[a] /\ s[a] \in S
    BY <1>3, Zenon DEF Selects
  <1>5. ASSUME NEW i \in 1..Len(t), NEW j \in 1..Len(t), i < j
        PROVE  \E a, c \in 1..k : a < c /\ t[i] = s[a] /\ t[j] = s[c]
    <2>1. PICK a, c \in 1..(k - 1) : a < c /\ t[i] = s[a] /\ t[j] = s[c]
      BY <1>5 DEF Selects
    <2>2. a \in 1..k /\ c \in 1..k
      BY <1>3, Zenon
    <2> QED
      BY <2>1, <2>2, Zenon
  <1>6. ASSUME NEW a \in 1..k, s[a] \in S PROVE In(s[a], t)
    BY <1>3, <1>6, Zenon DEF Selects
  <1> QED
    BY <1>4, <1>5, <1>6, Zenon DEF Selects

\* The loop over the actions selects just those of the set.
LEMMA ThoseFacts ==
  ASSUME NEW D, NEW s \in Seq(D), NEW S
  PROVE  Those(s, S) \in Seq(D) /\ Selects(Those(s, S), s, S, Len(s))
  <1> DEFINE n == Len(s)
  <1> DEFINE kept == CHOOSE f : Keeps(f, s, S, n)
  <1>1. Those(s, S) = kept[n]
    BY DEF Those, Keeps
  <1>2. n \in Nat
    OBVIOUS
  <1>3. Keeps(kept, s, S, n)
    BY <1>2, KeepsExists
  <1> HIDE DEF kept, n
  <1>4. /\ kept[0] = <<>>
        /\ \A i \in 1..n : kept[i] = IF s[i] \in S THEN Append(kept[i - 1], s[i]) ELSE kept[i - 1]
    <2>1. ASSUME NEW i \in 0..n
          PROVE  kept[i] = IF i = 0 THEN <<>>
                           ELSE IF s[i] \in S THEN Append(kept[i - 1], s[i]) ELSE kept[i - 1]
      BY <1>3, Zenon DEF Keeps
    <2>2. 0 \in 0..n /\ \A i \in 1..n : i \in 0..n /\ i # 0
      BY <1>2
    <2> QED
      BY <2>1, <2>2
  <1> DEFINE Good(k) == kept[k] \in Seq(D) /\ Selects(kept[k], s, S, k)
  <1> DEFINE Bad == {k \in 0..n : ~Good(k)}
  <1>5. Good(0)
    BY <1>4 DEF Selects
  <1>6. ASSUME NEW k \in 1..n, Good(k - 1) PROVE Good(k)
    <2>1. k \in 1..Len(s) /\ s[k] \in D
      BY <1>2 DEF n
    <2>2. CASE s[k] \in S
      <3>1. kept[k] = Append(kept[k - 1], s[k])
        BY <1>4, <2>2, Zenon
      <3>2. Append(kept[k - 1], s[k]) \in Seq(D)
        BY <1>6, <2>1, AppendProperties
      <3>3. Selects(Append(kept[k - 1], s[k]), s, S, k)
        BY <1>6, <2>1, <2>2, SelectsAppend
      <3> QED
        BY <3>1, <3>2, <3>3
    <2>3. CASE s[k] \notin S
      BY <1>4, <1>6, <2>1, <2>3, SelectsSkip
    <2> QED
      BY <2>2, <2>3
  <1> HIDE DEF Good
  <1>7. Bad = {}
    <2> SUFFICES ASSUME Bad # {} PROVE FALSE
      OBVIOUS
    <2>1. Bad \in SUBSET Nat
      BY <1>2
    <2>2. PICK m \in Bad : \A k \in Bad : m =< k
      BY <2>1, LeastNumber, Zenon
    <2>3. m \in 0..n /\ ~Good(m)
      BY <2>2
    <2>4. m # 0
      BY <1>5, <2>3
    <2>5. m \in 1..n /\ m - 1 \in 0..n /\ ~(m =< m - 1)
      BY <1>2, <2>3, <2>4
    <2>6. Good(m - 1)
      BY <2>2, <2>5
    <2> QED
      BY <1>6, <2>3, <2>5, <2>6
  <1>8. Good(n)
    BY <1>2, <1>7
  <1> QED
    BY <1>1, <1>8 DEF Good, n

\* The events are of different kinds.
LEMMA EventFacts ==
  /\ \A b \in Builtins : BuiltinAction(b) \in BuiltinActions
  /\ \A b, c \in Builtins : BuiltinAction(b) = BuiltinAction(c) => b = c
  /\ \A e \in EventTriggers \cup PropertyChanges, b \in Builtins : e # BuiltinAction(b)
  /\ \A n \in Prop, v \in Value : PropertyChange(n, v) \in PropertyChanges
  /\ PropertyChange("", "") \in PropertyChanges
  /\ \A e \in EventName : EventTrigger(e) \in EventTriggers
  /\ EventTrigger("shutdown") \in EventTriggers
  <1>1. \A b \in Builtins : BuiltinAction(b) \in BuiltinActions
    BY DEF BuiltinAction, BuiltinActions
  <1>2. \A b, c \in Builtins : BuiltinAction(b) = BuiltinAction(c) => b = c
    BY DEF BuiltinAction
  <1>3. ASSUME NEW e \in EventTriggers \cup PropertyChanges, NEW b \in Builtins
        PROVE  e # BuiltinAction(b)
    <2>1. BuiltinAction(b).kind = "builtin"
      BY DEF BuiltinAction
    <2>2. e.kind = "event" \/ e.kind = "prop"
      BY Zenon DEF EventTriggers, PropertyChanges
    <2> QED
      BY <2>1, <2>2
  <1>4. \A n \in Prop, v \in Value : PropertyChange(n, v) \in PropertyChanges
    BY Zenon DEF PropertyChange, PropertyChanges
  <1>5. PropertyChange("", "") \in PropertyChanges
    BY DEF PropertyChange, PropertyChanges
  <1>6. \A e \in EventName : EventTrigger(e) \in EventTriggers
    BY DEF EventTrigger, EventTriggers
  <1>7. "shutdown" \in EventName
    BY QueueAssumption, Zenon
  <1> QED
    BY <1>1, <1>2, <1>3, <1>4, <1>5, <1>6, <1>7, Zenon

\* What the assumption says of one action.
LEMMA ActionFacts ==
  /\ \A a \in DOMAIN Script : ActionRecord(Script[a])
  /\ Builtins \subseteq DOMAIN Script
  /\ \A b \in Builtins : BuiltinRecord(b, Script[b])
  /\ \A a \in DOMAIN Script \ Builtins : RcRecord(Script[a])
  BY QueueAssumption, Zenon

\* A property action or one on the shutdown trigger is not a builtin.
LEMMA NotBuiltin ==
  ASSUME NEW a \in DOMAIN Script, Script[a].event = "" \/ Script[a].event = "shutdown"
  PROVE  a \notin Builtins
  BY ActionFacts, Zenon DEF BuiltinRecord, Builtins

\* An event in the queue triggers the actions in actions_ it fits.
LEMMA MatchingFacts ==
  ASSUME TypeOK, NEW k \in 1..Len(queue)
  PROVE  /\ Matching[queue[k]] \in Seq(DOMAIN Script)
         /\ Selects(Matching[queue[k]], actions,
                    {a \in DOMAIN Script : CheckEvent(a, queue[k])}, Len(actions))
         /\ \A a \in DOMAIN Script :
                In(a, Matching[queue[k]]) <=> In(a, actions) /\ CheckEvent(a, queue[k])
  <1> DEFINE ev == queue[k]
             S == {a \in DOMAIN Script : CheckEvent(a, ev)}
             t == Those(actions, S)
  <1>0. queue \in Seq(Events) /\ actions \in Seq(DOMAIN Script)
    BY Zenon DEF TypeOK
  <1>1. k \in DOMAIN queue
    BY <1>0
  <1>2. t \in Seq(DOMAIN Script) /\ Selects(t, actions, S, Len(actions))
    BY <1>0, ThoseFacts
  <1>3. ev \in Range(queue)
    BY <1>1 DEF Range
  <1>4. Matching[ev] = t
    BY <1>3, Zenon DEF Matching
  <1>5. \A a \in DOMAIN Script : a \in S <=> CheckEvent(a, ev)
    OBVIOUS
  <1> HIDE DEF t, S
  <1>6. ASSUME NEW a \in DOMAIN Script, In(a, t) PROVE In(a, actions) /\ a \in S
    <2>1. PICK i \in 1..Len(t) : t[i] = a
      BY <1>6 DEF In
    <2> QED
      BY <1>2, <2>1, Zenon DEF Selects, In
  <1>7. ASSUME NEW a \in DOMAIN Script, In(a, actions), a \in S PROVE In(a, t)
    <2>1. PICK i \in 1..Len(actions) : actions[i] = a
      BY <1>7 DEF In
    <2>2. In(actions[i], t)
      BY <1>2, <1>7, <2>1, Zenon DEF Selects
    <2> QED
      BY <2>1, <2>2
  <1> QED
    BY <1>2, <1>4, <1>5, <1>6, <1>7, Zenon DEF S

\* A sequence that is neither empty nor longer than one member has one.
LEMMA JustOne == \A n \in Nat : n # 0 /\ ~(n > 1) => n = 1 /\ 1 \in 1..n
  OBVIOUS

\* A builtin event takes up its own action, once.
LEMMA BuiltinMatch ==
  ASSUME TypeOK, NEW b \in Builtins, In(b, actions),
         \A i, j \in 1..Len(actions) : actions[i] = b /\ actions[j] = b => i = j,
         NEW k \in 1..Len(queue), queue[k] = BuiltinAction(b)
  PROVE  Matching[queue[k]] = <<b>>
  <1> DEFINE S == {a \in DOMAIN Script : CheckEvent(a, queue[k])}
             t == Matching[queue[k]]
  <1>1. actions \in Seq(DOMAIN Script)
    BY Zenon DEF TypeOK
  <1>2. t \in Seq(DOMAIN Script) /\ Selects(t, actions, S, Len(actions))
    BY MatchingFacts, Zenon
  <1>4. \A a \in S : a = b
    BY DEF CheckEvent, BuiltinAction
  <1>5. In(b, t)
    <2>1. CheckEvent(b, queue[k]) /\ b \in DOMAIN Script
      BY ActionFacts DEF CheckEvent, BuiltinAction
    <2> QED
      BY <2>1, MatchingFacts, Zenon
  <1> HIDE DEF t, S
  <1>6. \A i \in 1..Len(t) : t[i] = b
    BY <1>2, <1>4, Zenon DEF Selects
  <1>7. Len(t) \in Nat /\ Len(t) # 0
    BY <1>2, <1>5 DEF In
  <1>8. ~(Len(t) > 1)
    <2> SUFFICES ASSUME Len(t) > 1 PROVE FALSE
      OBVIOUS
    <2>1. 1 \in 1..Len(t) /\ 2 \in 1..Len(t) /\ 1 < 2
      BY <1>7
    <2>2. PICK i, j \in 1..Len(actions) : i < j /\ t[1] = actions[i] /\ t[2] = actions[j]
      BY <1>2, <2>1 DEF Selects
    <2>3. i = j
      BY <1>6, <2>1, <2>2
    <2> QED
      BY <1>1, <2>2, <2>3
  <1>9. Len(t) = 1 /\ 1 \in 1..Len(t)
    BY <1>7, <1>8, JustOne, Zenon
  <1>10. t = <<b>>
    BY <1>2, <1>6, <1>9
  <1> QED
    BY <1>10 DEF t

\* Other events take up no builtin action.
LEMMA NoBuiltinMatch ==
  ASSUME NEW ev \in Events, NEW b \in Builtins, CheckEvent(b, ev)
  PROVE  ev = BuiltinAction(b)
  <1>1. Script[b].event = b /\ b # ""
    BY ActionFacts, Zenon DEF BuiltinRecord, Builtins
  <1>2. CASE ev \in EventTriggers
    BY <1>1, <1>2, QueueAssumption, Zenon DEF CheckEvent, EventTriggers
  <1>3. CASE ev \in PropertyChanges
    BY <1>1, <1>3, Zenon DEF CheckEvent, PropertyChanges
  <1>4. CASE ev \in BuiltinActions
    BY <1>4 DEF CheckEvent, BuiltinActions, BuiltinAction
  <1> QED
    BY <1>2, <1>3, <1>4 DEF Events

\* Whatever changes, a property action whose conditions hold is taken up by the event.
LEMMA SatisfiedMatch ==
  ASSUME NEW a \in PropertyActions, Satisfied(a, props)
  PROVE  /\ CheckEvent(a, PropertyChange("", ""))
         /\ \A n \in DOMAIN Script[a].props : CheckEvent(a, PropertyChange(n, props[n]))
  <1>1. Script[a].event = "" /\ DOMAIN Script[a].props \subseteq Prop /\ "" \notin Prop
    BY QueueAssumption, Zenon DEF PropertyActions, ActionRecord
  <1>2. \A t \in DOMAIN Script[a].props : PropMatches(Script[a].props[t], props[t])
    BY DEF Satisfied
  <1>3. CheckPropertyTriggers(a, "", "")
    BY <1>1, <1>2, Zenon DEF CheckPropertyTriggers
  <1>4. ASSUME NEW n \in DOMAIN Script[a].props
        PROVE  CheckPropertyTriggers(a, n, props[n])
    BY <1>2, Zenon DEF CheckPropertyTriggers, PropMatches
  <1> QED
    BY <1>1, <1>3, <1>4, Zenon DEF CheckEvent, PropertyChange

-----------------------------------------------------------------------------
(* Taking events off the queue                                              *)

\* k is the place in the queue of the event that was taken up
TakenUp(k) ==
    /\ k \in 1..Len(queue) /\ executing = <<>>
    /\ Running = Matching[queue[k]] /\ Running # <<>>
    /\ Fetched[2] = SubSeq(queue, k + 1, Len(queue))
    /\ \A i \in 1..Len(queue) : i < k => Matching[queue[i]] = <<>>

NothingMatches == \A i \in 1..Len(queue) : Matching[queue[i]] = <<>>

\* The fetch leaves the actions being executed alone, or finds no event that fits an action,
\* or the first that does.
LEMMA FetchFacts ==
  ASSUME TypeOK
  PROVE  \/ executing # <<>> /\ Running = executing /\ Fetched[2] = queue
         \/ executing = <<>> /\ Running = <<>> /\ NothingMatches
         \/ \E k \in 1..Len(queue) : TakenUp(k)
  <1> DEFINE Fits(k) == /\ k # 0 => Matching[queue[k]] # <<>>
                        /\ \A i \in 1..Len(queue) : i < k \/ k = 0 => Matching[queue[i]] = <<>>
             first == CHOOSE k \in 0..Len(queue) : Fits(k)
  <1>0. queue \in Seq(Events)
    BY Zenon DEF TypeOK
  <1>1. Len(queue) \in Nat
    BY <1>0
  <1>2. Fetched = CASE executing # <<>> -> <<executing, queue>>
                    [] executing = <<>> /\ first = 0 -> <<<<>>, <<>>>>
                    [] OTHER -> <<Matching[queue[first]], SubSeq(queue, first + 1, Len(queue))>>
    BY DEF Fetched
  <1>3. \E k \in 0..Len(queue) : Fits(k)
    <2> DEFINE I == {i \in 1..Len(queue) : Matching[queue[i]] # <<>>}
    <2>1. CASE I = {}
      <3>1. Fits(0)
        BY <2>1
      <3> QED
        BY <1>1, <3>1
    <2>2. CASE I # {}
      <3>1. I \in SUBSET Nat
        BY <1>1
      <3>2. PICK k \in I : \A i \in I : k =< i
        BY <2>2, <3>1, LeastNumber, Zenon
      <3>3. ASSUME NEW i \in 1..Len(queue), i < k PROVE i \notin I
        BY <1>1, <3>2, <3>3
      <3>4. k # 0 /\ k \in 0..Len(queue)
        BY <1>1, <3>2
      <3>5. Fits(k)
        BY <3>2, <3>3, <3>4
      <3> QED
        BY <3>4, <3>5
    <2> QED
      BY <2>1, <2>2
  <1> HIDE DEF Fits
  <1>4. first \in 0..Len(queue) /\ Fits(first)
    BY <1>3, Zenon
  <1> HIDE DEF first
  <1>5. CASE executing # <<>>
    BY <1>2, <1>5 DEF Running
  <1>6. CASE executing = <<>> /\ first = 0
    <2>1. Running = <<>>
      BY <1>2, <1>6 DEF Running
    <2>2. NothingMatches
      BY <1>4, <1>6 DEF NothingMatches, Fits
    <2> QED
      BY <1>6, <2>1, <2>2
  <1>7. CASE executing = <<>> /\ first # 0
    <2>1. Fetched = <<Matching[queue[first]], SubSeq(queue, first + 1, Len(queue))>>
      BY <1>2, <1>7
    <2>2. Running = Matching[queue[first]] /\ Fetched[2] = SubSeq(queue, first + 1, Len(queue))
      BY <2>1, Zenon DEF Running
    <2>3. first \in 1..Len(queue)
      BY <1>1, <1>4, <1>7
    <2>4. /\ Matching[queue[first]] # <<>>
          /\ \A i \in 1..Len(queue) : i < first => Matching[queue[i]] = <<>>
      BY <1>4, <1>7 DEF Fits
    <2>5. TakenUp(first)
      BY <1>7, <2>2, <2>3, <2>4, Zenon DEF TakenUp
    <2> QED
      BY <2>3, <2>5
  <1> QED
    BY <1>5, <1>6, <1>7

\* Places are ordered.
LEMMA Trichotomy ==
  ASSUME NEW n \in Nat, NEW i \in 1..n, NEW k \in 1..n PROVE i < k \/ i > k \/ i = k
  OBVIOUS

\* What is left of the queue, and what becomes of an event that fits an action: it is still
\* to come, or the action is taken up now.
LEMMA RestFacts ==
  ASSUME TypeOK, NEW k \in 1..Len(queue), TakenUp(k)
  PROVE  /\ Running \in Seq(DOMAIN Script) /\ Fetched[2] \in Seq(Events)
         /\ Len(Fetched[2]) = Len(queue) - k
         /\ \A i \in 1..Len(Fetched[2]) : Fetched[2][i] = queue[k + i] /\ k + i \in 1..Len(queue)
         /\ \A i \in 1..Len(queue) :
                i > k => i - k \in 1..Len(Fetched[2]) /\ Fetched[2][i - k] = queue[i]
         /\ \A i \in 1..Len(queue), a \in DOMAIN Script :
                In(a, actions) /\ CheckEvent(a, queue[i]) => i > k \/ (i = k /\ In(a, Running))
         /\ \A a \in DOMAIN Script : In(a, Running) => In(a, actions) /\ CheckEvent(a, queue[k])
  <1> DEFINE q == queue
             rest == SubSeq(q, k + 1, Len(q))
  <1>0. q \in Seq(Events)
    BY Zenon DEF TypeOK
  <1>1. q \in Seq(Events) /\ Len(q) \in Nat /\ k \in 1..Len(q)
    BY <1>0, LenProperties
  <1>2. Fetched[2] = rest /\ Running = Matching[q[k]]
    BY DEF TakenUp
  <1>3. \A a \in DOMAIN Script : In(a, Running) <=> In(a, actions) /\ CheckEvent(a, q[k])
    BY <1>2, MatchingFacts, Zenon
  <1>4. Running \in Seq(DOMAIN Script)
    BY <1>2, MatchingFacts, Zenon
  <1>5. ASSUME NEW i \in 1..Len(q), NEW a \in DOMAIN Script, In(a, actions), CheckEvent(a, q[i])
        PROVE  i > k \/ (i = k /\ In(a, Running))
    <2>1. In(a, Matching[q[i]])
      BY <1>5, MatchingFacts, Zenon
    <2>2. Matching[q[i]] # <<>>
      BY <2>1 DEF In
    <2>3. ~(i < k)
      BY <2>2 DEF TakenUp
    <2>4. i > k \/ i = k
      BY <1>1, <2>3, Trichotomy
    <2> QED
      BY <1>3, <1>5, <2>4, Zenon
  <1>6. /\ rest \in Seq(Events) /\ Len(rest) = Len(q) - k
        /\ \A i \in 1..Len(rest) : rest[i] = q[k + i]
    <2> HIDE DEF q
    <2>1. k + 1 \in Nat /\ k + 1 >= 1 /\ Len(q) >= k
      BY <1>1
    <2> QED
      BY <1>1, <2>1
  <1> HIDE DEF rest
  <1>7. \A i \in 1..Len(rest) : k + i \in 1..Len(q)
    BY <1>1, <1>6
  <1>8. ASSUME NEW i \in 1..Len(q), i > k PROVE i - k \in 1..Len(rest) /\ rest[i - k] = q[i]
    <2>1. i - k \in 1..Len(rest) /\ k + (i - k) = i
      BY <1>1, <1>6, <1>8
    <2> QED
      BY <1>6, <2>1
  <1> QED
    BY <1>2, <1>3, <1>4, <1>5, <1>6, <1>7, <1>8, Zenon

\* What ExecuteOneCommand goes on with once it has fetched is sound as the queue was.
Going(run, q) ==
    /\ run \in Seq(DOMAIN Script) /\ q \in Seq(Events)
    /\ CommandOf(run) /\ Sound(actions, run, q)
    /\ NoneMissed(ServedNow, run, q) /\ ShutdownOrder(run, q)

\* A builtin event in the queue is not passed over.
LEMMA NotPassed ==
  ASSUME QueueInv, NEW k \in 1..Len(queue), TakenUp(k), NEW b \in Builtins,
         NEW i \in 1..Len(queue), queue[i] = BuiltinAction(b)
  PROVE  \/ i > k /\ In(BuiltinAction(b), Fetched[2])
         \/ i = k /\ Running = <<b>> /\ In(b, Running) /\ ~In(BuiltinAction(b), Fetched[2])
  <1>0. TypeOK /\ Once(actions, executing, queue) /\ b \in DOMAIN Script
    BY ActionFacts DEF QueueInv, Sound
  <1>1. In(BuiltinAction(b), queue)
    BY DEF In
  <1>2. /\ In(b, actions)
        /\ \A x, y \in 1..Len(actions) : actions[x] = b /\ actions[y] = b => x = y
        /\ \A x, y \in 1..Len(queue) :
               queue[x] = BuiltinAction(b) /\ queue[y] = BuiltinAction(b) => x = y
    BY <1>0, <1>1, Zenon DEF Once
  <1>3. CheckEvent(b, queue[i])
    BY DEF CheckEvent, BuiltinAction
  <1>4. i > k \/ (i = k /\ In(b, Running))
    BY <1>0, <1>2, <1>3, RestFacts, Zenon
  <1>5. CASE i > k
    <2>1. i - k \in 1..Len(Fetched[2]) /\ Fetched[2][i - k] = BuiltinAction(b)
      BY <1>0, <1>5, RestFacts, SMTT(30)
    <2> QED
      BY <1>5, <2>1, Zenon DEF In
  <1>6. CASE i = k
    <2>1. Running = <<b>>
      BY <1>0, <1>2, <1>6, BuiltinMatch, Zenon DEF TakenUp
    <2>2. ASSUME NEW j \in 1..Len(Fetched[2]), Fetched[2][j] = BuiltinAction(b) PROVE FALSE
      <3>1. queue[k + j] = BuiltinAction(b) /\ k + j \in 1..Len(queue)
        BY <1>0, <2>2, RestFacts, SMTT(30)
      <3>2. k + j = k
        BY <1>2, <1>6, <3>1, Zenon
      <3>3. k \in Int /\ j \in Int /\ j >= 1
        BY <1>0, RestFacts
      <3> QED
        BY <3>2, <3>3, SMTT(30)
    <2>3. In(b, Running)
      BY <2>1 DEF In
    <2> QED
      BY <1>6, <2>1, <2>2, <2>3, Zenon DEF In
  <1> QED
    BY <1>4, <1>5, <1>6

\* An action of the scripts whose event is in the queue is not passed over.
LEMMA NotMissed ==
  ASSUME QueueInv, NEW k \in 1..Len(queue), TakenUp(k), NEW a \in DOMAIN Script \ Builtins,
         NEW ev, In(ev, queue), CheckEvent(a, ev)
  PROVE  In(ev, Fetched[2]) \/ In(a, Running)
  <1>0. TypeOK /\ In(a, actions)
    BY DEF QueueInv, Sound, RcStay
  <1>1. PICK i \in 1..Len(queue) : queue[i] = ev
    BY DEF In
  <1>2. i > k \/ (i = k /\ In(a, Running))
    BY <1>0, <1>1, RestFacts, Zenon
  <1>3. CASE i > k
    BY <1>0, <1>1, <1>3, RestFacts, ZenonT(30) DEF In
  <1> QED
    BY <1>2, <1>3

\* What was taken up is in the history.
LEMMA InServed ==
  ASSUME executing = <<>>, NEW a
  PROVE  /\ a \in served => a \in ServedNow
         /\ Running \in Seq(DOMAIN Script) /\ In(a, Running) => a \in ServedNow
  <1>1. ServedNow = served \cup Range(Running)
    BY DEF ServedNow
  <1>2. Running \in Seq(DOMAIN Script) /\ In(a, Running) => a \in Range(Running)
    BY DEF In, Range
  <1> QED
    BY <1>1, <1>2

\* Taking up an event keeps the queue sound.
LEMMA TakenUpSound ==
  ASSUME QueueInv, NEW k \in 1..Len(queue), TakenUp(k)
  PROVE  Sound(actions, Running, Fetched[2])
  <1> DEFINE run == Running
             rest == Fetched[2]
  <1>0. TypeOK /\ Sound(actions, executing, queue) /\ executing = <<>> /\ queue \in Seq(Events)
    BY Zenon DEF QueueInv, TakenUp, TypeOK
  <1>1. ASSUME NEW b \in Builtins PROVE
        /\ \A i, j \in 1..Len(actions) : actions[i] = b /\ actions[j] = b => i = j
        /\ \A i, j \in 1..Len(rest) :
               rest[i] = BuiltinAction(b) /\ rest[j] = BuiltinAction(b) => i = j
        /\ In(b, run) => run = <<b>> /\ ~In(BuiltinAction(b), rest)
        /\ In(BuiltinAction(b), rest) => In(b, actions)
    <2>1. /\ \A i, j \in 1..Len(actions) : actions[i] = b /\ actions[j] = b => i = j
          /\ \A i, j \in 1..Len(queue) :
                 queue[i] = BuiltinAction(b) /\ queue[j] = BuiltinAction(b) => i = j
          /\ In(BuiltinAction(b), queue) => In(b, actions)
      BY <1>0, Zenon DEF Sound, Once
    <2>2. ASSUME NEW i \in 1..Len(rest), NEW j \in 1..Len(rest),
                 rest[i] = BuiltinAction(b), rest[j] = BuiltinAction(b)
          PROVE  i = j
      <3>1. /\ queue[k + i] = BuiltinAction(b) /\ k + i \in 1..Len(queue)
            /\ queue[k + j] = BuiltinAction(b) /\ k + j \in 1..Len(queue)
        BY <1>0, <2>2, RestFacts, SMTT(30)
      <3>2. k + i = k + j
        BY <2>1, <3>1, Zenon
      <3>3. k \in Int /\ i \in Int /\ j \in Int
        BY <1>0, RestFacts
      <3> QED
        BY <3>2, <3>3, SMTT(30)
    <2>3. ASSUME In(b, run) PROVE run = <<b>> /\ ~In(BuiltinAction(b), rest)
      <3>1. queue[k] \in Events
        BY <1>0, ElementOfSeq, Zenon
      <3>2. CheckEvent(b, queue[k])
        BY <1>0, <2>3, RestFacts, ActionFacts, Zenon
      <3>3. queue[k] = BuiltinAction(b)
        BY <3>1, <3>2, NoBuiltinMatch
      <3>4. ~(k > k)
        BY <1>0
      <3> QED
        BY <3>3, <3>4, NotPassed, Zenon
    <2>4. ASSUME In(BuiltinAction(b), rest) PROVE In(b, actions)
      <3>1. PICK j \in 1..Len(rest) : rest[j] = BuiltinAction(b)
        BY <2>4, Zenon DEF In
      <3>2. queue[k + j] = BuiltinAction(b) /\ k + j \in 1..Len(queue)
        BY <1>0, <3>1, RestFacts, SMTT(30)
      <3>3. In(BuiltinAction(b), queue)
        BY <3>2, Zenon DEF In
      <3> QED
        BY <2>1, <3>3
    <2> QED
      BY <2>1, <2>2, <2>3, <2>4, Zenon
  <1>2. Once(actions, run, rest)
    BY <1>1, Zenon DEF Once
  <1>3. EnabledFirst(run, rest)
    <2> SUFFICES ASSUME ~shutting, ~enabled PROVE EnabledFirst(run, rest)
      BY Zenon DEF EnabledFirst
    <2>1. ~ In("queue_property_triggers", executing) /\ ~ In("enable_property_trigger", executing)
      BY <1>0 DEF In
    <2>2. CASE In(BuiltinAction("queue_property_triggers"), queue)
      <3>1. PICK i \in 1..Len(queue) : queue[i] = BuiltinAction("queue_property_triggers")
        BY <2>2 DEF In
      <3>2. "queue_property_triggers" \in Builtins
        BY DEF Builtins
      <3> QED
        BY <3>1, <3>2, NotPassed, Zenon DEF EnabledFirst
    <2>3. ASSUME NEW i \in 1..Len(queue), NEW j \in 1..Len(queue), i < j,
                 queue[i] = BuiltinAction("enable_property_trigger"),
                 queue[j] = PropertyChange("", "")
          PROVE  EnabledFirst(run, rest)
      <3>1. "enable_property_trigger" \in Builtins
        BY DEF Builtins
      <3>2. i > k \/ (i = k /\ In("enable_property_trigger", run))
        BY <2>3, <3>1, NotPassed, Zenon
      <3>3. k \in Int /\ i \in Int /\ j \in Int /\ i < j
        <4>1. k \in Int /\ i \in Int /\ j \in Int
          BY <1>0
        <4>2. i < j
          BY <2>3, Zenon
        <4> QED
          BY <4>1, <4>2, Zenon
      <3>4. j > k
        <4>1. i > k \/ i = k
          BY <3>2, Zenon
        <4> QED
          BY <3>3, <4>1
      <3>5. j - k \in 1..Len(rest) /\ rest[j - k] = PropertyChange("", "")
        BY <1>0, <2>3, <3>4, RestFacts, Zenon
      <3>6. CASE i > k
        <4>1. i - k \in 1..Len(rest) /\ rest[i - k] = BuiltinAction("enable_property_trigger")
          BY <1>0, <2>3, <3>6, RestFacts, Zenon
        <4>2. i - k < j - k
          BY <3>3
        <4> QED
          BY <3>5, <4>1, <4>2, Zenon DEF EnabledFirst
      <3>7. CASE i = k /\ In("enable_property_trigger", run)
        BY <3>5, <3>7, Zenon DEF EnabledFirst, In
      <3> QED
        BY <3>2, <3>6, <3>7
    <2> QED
      BY <1>0, <2>1, <2>2, <2>3, ZenonT(30) DEF Sound, EnabledFirst
  <1>4. \A a \in DOMAIN Script : In(a, run) => In(a, actions)
    BY <1>0, RestFacts, ZenonT(30)
  <1> QED
    BY <1>0, <1>2, <1>3, <1>4, ZenonT(30) DEF Sound

\* During a shutdown, taking up an event keeps the order.
LEMMA TakenUpShutdown ==
  ASSUME QueueInv, ~down, NEW k \in 1..Len(queue), TakenUp(k)
  PROVE  ShutdownOrder(Running, Fetched[2])
  <1> SUFFICES ASSUME shutting PROVE ShutdownOrder(Running, Fetched[2])
    BY DEF ShutdownOrder
  <1> DEFINE run == Running
             rest == Fetched[2]
  <1>0. TypeOK /\ executing = <<>> /\ ShutdownOrder(executing, queue) /\ queue \in Seq(Events)
    BY Zenon DEF QueueInv, TakenUp, TypeOK
  <1>1. "shutdown_done" \in Builtins
    BY DEF Builtins
  <1>2. k \in Int /\ k >= 1 /\ Len(queue) \in Nat
    BY <1>0
  <1>3. ASSUME NEW i \in 1..Len(queue), queue[i] = BuiltinAction("shutdown_done"), i = k
        PROVE  ShutdownOrder(run, rest)
    <2>1. ~(i > k)
      BY <1>2, <1>3
    <2>2. run = <<"shutdown_done">>
      BY <1>1, <1>3, <2>1, NotPassed, Zenon
    <2> QED
      BY <2>2 DEF ShutdownOrder
  <1>4. CASE /\ Len(queue) >= 2
             /\ queue[1] = EventTrigger("shutdown") /\ queue[2] = BuiltinAction("shutdown_done")
    <2>1. 2 \in 1..Len(queue)
      BY <1>2, <1>4
    <2>2. 2 > k \/ 2 = k
      BY <1>1, <1>4, <2>1, NotPassed, Zenon
    <2>3. CASE 2 = k
      BY <1>3, <1>4, <2>1, <2>3
    <2>4. CASE 2 > k
      <3>1. k = 1
        BY <1>2, <2>4
      <3>2. 2 - k \in 1..Len(rest) /\ rest[2 - k] = queue[2]
        BY <1>0, <2>1, <2>4, RestFacts, Zenon
      <3>3. 2 - k = 1
        BY <3>1
      <3>4. 1 \in 1..Len(rest) /\ rest[1] = BuiltinAction("shutdown_done")
        BY <1>4, <3>2, <3>3
      <3>5. run \in Seq(DOMAIN Script)
        BY <1>0, RestFacts, Zenon
      <3>6. ASSUME NEW i \in 1..Len(run) PROVE Script[run[i]].event = "shutdown"
        <4>1. run[i] \in DOMAIN Script
          BY <3>5, ElementOfSeq, Zenon
        <4>2. In(run[i], run)
          BY DEF In
        <4>3. CheckEvent(run[i], queue[k])
          BY <1>0, <4>1, <4>2, RestFacts, Zenon
        <4>4. queue[k] = EventTrigger("shutdown")
          BY <1>4, <3>1
        <4>5. queue[k].kind = "event" /\ queue[k].name = "shutdown"
          BY <4>4 DEF EventTrigger
        <4> QED
          BY <4>3, <4>5, Zenon DEF CheckEvent
      <3>7. Len(rest) \in Nat
        BY <1>0, RestFacts, LenProperties, Zenon
      <3>8. Len(rest) >= 1
        BY <3>4, <3>7
      <3> QED
        BY <3>4, <3>6, <3>8, Zenon DEF ShutdownOrder
    <2> QED
      BY <2>2, <2>3, <2>4
  <1>5. CASE Len(queue) >= 1 /\ queue[1] = BuiltinAction("shutdown_done")
    <2>1. 1 \in 1..Len(queue)
      BY <1>2, <1>5
    <2>2. 1 > k \/ 1 = k
      BY <1>1, <1>5, <2>1, NotPassed, Zenon
    <2>3. 1 = k
      BY <1>2, <2>2
    <2> QED
      BY <1>3, <1>5, <2>1, <2>3
  <1>6. executing # <<"shutdown_done">>
    BY <1>0
  <1> QED
    BY <1>0, <1>4, <1>5, <1>6 DEF ShutdownOrder

\* Taking up an event misses no property action.
LEMMA TakenUpMissesNone ==
  ASSUME QueueInv, NEW k \in 1..Len(queue), TakenUp(k)
  PROVE  NoneMissed(ServedNow, Running, Fetched[2])
  <1> SUFFICES ASSUME ~shutting, NEW a \in PropertyActions, Satisfied(a, props)
               PROVE  Covered(a, ServedNow, Running, Fetched[2])
    BY DEF NoneMissed
  <1>0. TypeOK /\ executing = <<>> /\ Covered(a, served, executing, queue)
    BY DEF QueueInv, TakenUp, NoneMissed
  <1>1. a \in DOMAIN Script \ Builtins
    BY NotBuiltin, Zenon DEF PropertyActions
  <1>2. Running \in Seq(DOMAIN Script)
    BY <1>0, RestFacts, Zenon
  <1>3. CASE a \in served
    BY <1>0, <1>3, InServed, Zenon DEF Covered
  <1>4. CASE In(BuiltinAction("queue_property_triggers"), queue)
    <2>1. PICK i \in 1..Len(queue) : queue[i] = BuiltinAction("queue_property_triggers")
      BY <1>4 DEF In
    <2>2. "queue_property_triggers" \in Builtins
      BY DEF Builtins
    <2> QED
      BY <2>1, <2>2, NotPassed, Zenon DEF Covered, ToCome
  <1>5. ASSUME NEW ev, In(ev, queue), CheckEvent(a, ev)
        PROVE  In(ev, Fetched[2]) \/ a \in ServedNow
    <2>1. In(ev, Fetched[2]) \/ In(a, Running)
      BY <1>1, <1>5, NotMissed, Zenon
    <2> QED
      BY <1>0, <1>2, <2>1, InServed, ZenonT(30)
  <1>6. CASE In(PropertyChange("", ""), queue)
    <2>1. In(PropertyChange("", ""), Fetched[2]) \/ a \in ServedNow
      BY <1>5, <1>6, SatisfiedMatch, ZenonT(30)
    <2> QED
      BY <2>1, Zenon DEF Covered, ToCome
  <1>7. ASSUME NEW n \in DOMAIN Script[a].props, In(PropertyChange(n, props[n]), queue)
        PROVE  Covered(a, ServedNow, Running, Fetched[2])
    <2>1. In(PropertyChange(n, props[n]), Fetched[2]) \/ a \in ServedNow
      BY <1>5, <1>7, SatisfiedMatch, ZenonT(30)
    <2> QED
      BY <2>1, Zenon DEF Covered
  <1>8. ~In("queue_property_triggers", executing)
    BY <1>0 DEF In
  <1> QED
    BY <1>0, <1>3, <1>4, <1>6, <1>7, <1>8, ZenonT(30) DEF Covered, ToCome

\* What ExecuteOneCommand goes on with, when there is something to execute.
LEMMA FetchGoing ==
  ASSUME QueueInv, ~down, Running # <<>>
  PROVE  Going(Running, Fetched[2])
  <1>0. TypeOK
    BY DEF QueueInv
  <1>1. CASE executing # <<>> /\ Running = executing /\ Fetched[2] = queue
    <2>1. ServedNow = served
      BY <1>1 DEF ServedNow
    <2>2. executing \in Seq(DOMAIN Script) /\ queue \in Seq(Events)
      BY <1>0, ZenonT(30) DEF TypeOK
    <2> QED
      BY <1>1, <2>1, <2>2 DEF QueueInv, Going
  <1>2. ASSUME NEW k \in 1..Len(queue), TakenUp(k) PROVE Going(Running, Fetched[2])
    <2>1. Running \in Seq(DOMAIN Script) /\ Fetched[2] \in Seq(Events)
      BY <1>0, <1>2, RestFacts, ZenonT(30)
    <2>2. executing = <<>> /\ cmd = 0
      BY <1>2 DEF TakenUp, QueueInv, CommandOf
    <2>3. CommandOf(Running)
      <3>1. Running[1] \in DOMAIN Script
        BY <2>1
      <3>2. Len(Script[Running[1]].cmds) \in Nat \ {0}
        BY <3>1, ActionFacts, SMTT(30) DEF ActionRecord
      <3> QED
        BY <2>2, <3>2 DEF CommandOf
    <2> QED
      BY <1>2, <2>1, <2>3, TakenUpSound, TakenUpShutdown, TakenUpMissesNone, SMTT(30) DEF Going
  <1> QED
    BY <1>0, <1>1, <1>2, FetchFacts, SMTT(30)

-----------------------------------------------------------------------------
(* The steps                                                                *)

\* What a command's op says of the action it is a command of.
LEMMA HeadFacts ==
  ASSUME TypeOK, NEW run \in Seq(DOMAIN Script), run # <<>>, CommandOf(run), NEW op,
         Script[run[1]].cmds[cmd + 1].op = op
  PROVE  /\ run[1] \in DOMAIN Script
         /\ op \notin Builtins => /\ run[1] \notin Builtins /\ ~Script[run[1]].oneshot
                                  /\ ScriptCommand(Script[run[1]].cmds[cmd + 1])
         /\ op \in Builtins => /\ run[1] = op /\ Script[run[1]].oneshot
                               /\ cmd = 0 /\ Len(Script[run[1]].cmds) = 1
  <1> DEFINE h == run[1]
  <1>1. h \in DOMAIN Script
    BY SMTT(30)
  <1>2. cmd \in Nat /\ Len(Script[h].cmds) \in Nat /\ cmd < Len(Script[h].cmds)
    BY <1>1, ActionFacts, Zenon DEF CommandOf, ActionRecord, TypeOK
  <1> HIDE DEF h
  <1>3. CASE h \in Builtins
    <2>1. Script[h].oneshot /\ Len(Script[h].cmds) = 1 /\ Script[h].cmds[1].op = h
      BY <1>3, ActionFacts DEF BuiltinRecord
    <2>2. cmd = 0
      BY <1>2, <2>1
    <2>3. op = h
      BY <2>1, <2>2 DEF h
    <2> QED
      BY <1>1, <1>3, <2>1, <2>2, <2>3, SMTT(30) DEF h
  <1>4. CASE h \notin Builtins
    <2>1. ~Script[h].oneshot /\ \A i \in 1..Len(Script[h].cmds) : ScriptCommand(Script[h].cmds[i])
      BY <1>1, <1>4, ActionFacts DEF RcRecord
    <2>2. cmd + 1 \in 1..Len(Script[h].cmds)
      BY <1>2
    <2>3. ScriptCommand(Script[h].cmds[cmd + 1])
      BY <2>1, <2>2, SMTT(30)
    <2>4. op \notin Builtins
      BY <2>3 DEF ScriptCommand, Builtins, h
    <2> QED
      BY <1>1, <1>4, <2>1, <2>3, <2>4, SMTT(30) DEF h
  <1> QED
    BY <1>3, <1>4

\* A sequence and its tail have the members of the tail.
LEMMA TailFacts ==
  ASSUME NEW D, NEW s \in Seq(D), s # <<>>
  PROVE  Tail(s) \in Seq(D) /\ \A x : In(x, Tail(s)) => In(x, s)
  <1>1. /\ Tail(s) \in Seq(D) /\ Len(Tail(s)) = Len(s) - 1
        /\ \A i \in 1..Len(Tail(s)) : Tail(s)[i] = s[i + 1]
    OBVIOUS
  <1>2. \A i \in 1..Len(Tail(s)) : i + 1 \in 1..Len(s)
    BY <1>1
  <1> QED
    BY <1>1, <1>2, Zenon DEF In

\* A command of an action of the scripts: the action is not erased, current_command_ stays
\* valid, and nothing but what was being executed is.
LEMMA ScriptAdvance ==
  ASSUME TypeOK, NEW run \in Seq(DOMAIN Script), run # <<>>, CommandOf(run),
         ~Script[run[1]].oneshot, Advance(run, run[1], actions)
  PROVE  /\ actions' = actions /\ cmd' \in Nat
         /\ executing' \in Seq(DOMAIN Script) /\ CommandOf(executing)'
         /\ \A x : In(x, executing') => In(x, run)
  <1>0. run[1] \in DOMAIN Script /\ cmd \in Nat
    <2>1. run[1] \in DOMAIN Script
      OBVIOUS
    <2>2. cmd \in Nat
      BY Zenon DEF TypeOK
    <2> QED
      BY <2>1, <2>2
  <1>1. Len(Script[run[1]].cmds) \in Nat /\ cmd < Len(Script[run[1]].cmds)
    BY <1>0, ActionFacts DEF ActionRecord, CommandOf
  <1>2. CASE cmd + 1 = Len(Script[run[1]].cmds)
    <2>1. cmd' = 0 /\ executing' = Tail(run) /\ actions' = actions
      BY <1>2 DEF Advance, NextCommand
    <2>2. executing' \in Seq(DOMAIN Script) /\ \A x : In(x, executing') => In(x, run)
      BY <2>1, TailFacts
    <2>3. executing' # <<>> => executing'[1] \in DOMAIN Script
      BY <2>2
    <2>4. executing' # <<>> => 0 < Len(Script[executing'[1]].cmds)
      BY <2>3, ActionFacts DEF ActionRecord
    <2> QED
      BY <2>1, <2>2, <2>4 DEF CommandOf
  <1>3. CASE cmd + 1 # Len(Script[run[1]].cmds)
    <2>1. cmd' = cmd + 1 /\ executing' = run /\ actions' = actions
      BY <1>3 DEF Advance, NextCommand
    <2>2. cmd + 1 \in Nat /\ cmd + 1 < Len(Script[run[1]].cmds)
      BY <1>0, <1>1, <1>3
    <2> QED
      BY <2>1, <2>2 DEF CommandOf
  <1> QED
    BY <1>2, <1>3

\* What one more event changes: nothing but that it is there.
LEMMA AppendIn ==
  ASSUME NEW D, NEW s \in Seq(D), NEW e \in D
  PROVE  /\ Append(s, e) \in Seq(D) /\ Len(Append(s, e)) = Len(s) + 1
         /\ Len(s) \in Nat /\ Append(s, e)[Len(s) + 1] = e /\ Len(s) + 1 \in 1..Len(Append(s, e))
         /\ \A i \in 1..Len(s) : i \in 1..Len(Append(s, e)) /\ Append(s, e)[i] = s[i]
         /\ \A i \in 1..Len(Append(s, e)) : i \in 1..Len(s) \/ i = Len(s) + 1
         /\ \A x : In(x, Append(s, e)) <=> In(x, s) \/ x = e
  <1> DEFINE t == Append(s, e)
  <1>1. t \in Seq(D) /\ Len(t) = Len(s) + 1 /\ Len(s) \in Nat /\ t[Len(s) + 1] = e
        /\ \A i \in 1..Len(s) : t[i] = s[i]
    OBVIOUS
  <1> HIDE DEF t
  <1>2. Len(s) + 1 \in 1..Len(t) /\ \A i \in 1..Len(s) : i \in 1..Len(t)
    BY <1>1
  <1>3. \A i \in 1..Len(t) : i \in 1..Len(s) \/ i = Len(s) + 1
    BY <1>1
  <1>4. ASSUME NEW x PROVE In(x, t) <=> In(x, s) \/ x = e
    <2>1. ASSUME In(x, t) PROVE In(x, s) \/ x = e
      <3>1. PICK i \in 1..Len(t) : t[i] = x
        BY <2>1 DEF In
      <3> QED
        BY <1>1, <1>3, <3>1, Zenon DEF In
    <2>2. ASSUME In(x, s) PROVE In(x, t)
      <3>1. PICK i \in 1..Len(s) : s[i] = x
        BY <2>2 DEF In
      <3> QED
        BY <1>1, <1>2, <3>1, Zenon DEF In
    <2>3. In(e, t)
      BY <1>1, <1>2, Zenon DEF In
    <2> QED
      BY <2>1, <2>2, <2>3, Zenon
  <1> QED
    BY <1>1, <1>2, <1>3, <1>4, ZenonT(30) DEF t

\* The rest of the fetched events and perhaps one more, which is not a builtin one
Onward(q, e) == queue' = q \/ queue' = Append(q, e)

\* A step that only adds such an event, and at most goes on in the actions of the scripts.
LEMMA OnwardSound ==
  ASSUME NEW run \in Seq(DOMAIN Script), NEW q \in Seq(Events),
         NEW e \in EventTriggers \cup PropertyChanges,
         Sound(actions, run, q), actions' = actions, enabled' = enabled, shutting' = shutting,
         Onward(q, e), \A x : In(x, executing') => In(x, run),
         \A b \in Builtins : In(b, run) => executing' = run
  PROVE  queue' \in Seq(Events) /\ Sound(actions, executing, queue)'
  <1>0. e \in Events
    BY DEF Events
  <1>1. /\ queue' \in Seq(Events)
        /\ \A i \in 1..Len(q) : i \in 1..Len(queue') /\ queue'[i] = q[i]
        /\ \A i \in 1..Len(queue') : i \in 1..Len(q) \/ queue'[i] = e
        /\ \A x : In(x, q) => In(x, queue')
        /\ \A x : In(x, queue') => In(x, q) \/ x = e
    <2>1. CASE queue' = q
      BY <2>1
    <2>2. CASE queue' = Append(q, e)
      <3> DEFINE t == Append(q, e)
      <3>1. /\ t \in Seq(Events)
            /\ t[Len(q) + 1] = e
            /\ \A i \in 1..Len(q) : i \in 1..Len(t) /\ t[i] = q[i]
            /\ \A i \in 1..Len(t) : i \in 1..Len(q) \/ i = Len(q) + 1
            /\ \A x : In(x, t) <=> In(x, q) \/ x = e
        BY <1>0, AppendIn
      <3> HIDE DEF t
      <3>2. \A i \in 1..Len(t) : i \in 1..Len(q) \/ t[i] = e
        BY <3>1, Zenon
      <3>3. queue' = t
        BY <2>2 DEF t
      <3> QED
        BY <3>1, <3>2, <3>3, SMTT(30)
    <2> QED
      BY <2>1, <2>2 DEF Onward
  <1>2. ASSUME NEW b \in Builtins PROVE
        /\ \A i, j \in 1..Len(actions') : actions'[i] = b /\ actions'[j] = b => i = j
        /\ \A i, j \in 1..Len(queue') :
               queue'[i] = BuiltinAction(b) /\ queue'[j] = BuiltinAction(b) => i = j
        /\ In(b, executing') => executing' = <<b>> /\ ~In(BuiltinAction(b), queue')
        /\ In(BuiltinAction(b), queue') => In(b, actions')
    <2>1. e # BuiltinAction(b)
      BY EventFacts, Zenon
    <2>2. /\ \A i, j \in 1..Len(actions) : actions[i] = b /\ actions[j] = b => i = j
          /\ \A i, j \in 1..Len(q) : q[i] = BuiltinAction(b) /\ q[j] = BuiltinAction(b) => i = j
          /\ In(b, run) => run = <<b>> /\ ~In(BuiltinAction(b), q)
          /\ In(BuiltinAction(b), q) => In(b, actions)
      BY Zenon DEF Sound, Once
    <2>3. ASSUME NEW i \in 1..Len(queue'), NEW j \in 1..Len(queue'),
                 queue'[i] = BuiltinAction(b), queue'[j] = BuiltinAction(b)
          PROVE  i = j
      <3>1. i \in 1..Len(q) /\ j \in 1..Len(q)
        BY <1>1, <2>1, <2>3, ZenonT(30)
      <3> QED
        BY <1>1, <2>2, <2>3, <3>1, Zenon
    <2>4. In(b, executing') => In(b, run) /\ executing' = run
      OBVIOUS
    <2>5. In(BuiltinAction(b), queue') => In(BuiltinAction(b), q)
      BY <1>1, <2>1, ZenonT(30)
    <2>6. /\ In(b, executing') => executing' = <<b>> /\ ~In(BuiltinAction(b), queue')
          /\ In(BuiltinAction(b), queue') => In(b, actions')
      BY <2>2, <2>4, <2>5, SMTT(30)
    <2>7. \A i, j \in 1..Len(actions') : actions'[i] = b /\ actions'[j] = b => i = j
      BY <2>2
    <2> QED
      BY <2>3, <2>6, <2>7, ZenonT(30)
  <1>3. Once(actions, executing, queue)'
    BY <1>2, Zenon DEF Once
  <1>4. EnabledFirst(executing, queue)'
    <2> SUFFICES ASSUME ~shutting, ~enabled PROVE EnabledFirst(executing, queue)'
      BY Zenon DEF EnabledFirst
    <2>1. \/ In(BuiltinAction("queue_property_triggers"), q)
          \/ In("queue_property_triggers", run)
          \/ \E i, j \in 1..Len(q) : /\ i < j
                                     /\ q[i] = BuiltinAction("enable_property_trigger")
                                     /\ q[j] = PropertyChange("", "")
          \/ In("enable_property_trigger", run) /\ In(PropertyChange("", ""), q)
      BY Zenon DEF Sound, EnabledFirst
    <2>2. "queue_property_triggers" \in Builtins /\ "enable_property_trigger" \in Builtins
      BY DEF Builtins
    <2>3. CASE In(BuiltinAction("queue_property_triggers"), q)
      BY <1>1, <2>3, Zenon DEF EnabledFirst
    <2>4. CASE In("queue_property_triggers", run)
      <3>1. In("queue_property_triggers", executing')
        BY <2>2, <2>4
      <3> QED
        BY <3>1, Zenon DEF EnabledFirst
    <2>5. CASE In("enable_property_trigger", run) /\ In(PropertyChange("", ""), q)
      <3>1. In("enable_property_trigger", executing')
        BY <2>2, <2>5, Zenon
      <3> QED
        BY <1>1, <2>5, <3>1, ZenonT(30) DEF EnabledFirst
    <2>6. ASSUME NEW i \in 1..Len(q), NEW j \in 1..Len(q), i < j,
                 q[i] = BuiltinAction("enable_property_trigger"), q[j] = PropertyChange("", "")
          PROVE  EnabledFirst(executing, queue)'
      <3>1. i \in 1..Len(queue') /\ queue'[i] = q[i] /\ j \in 1..Len(queue') /\ queue'[j] = q[j]
        BY <1>1, Zenon
      <3>2. \E x, y \in 1..Len(queue') : /\ x < y
                                         /\ queue'[x] = BuiltinAction("enable_property_trigger")
                                         /\ queue'[y] = PropertyChange("", "")
        BY <2>6, <3>1, ZenonT(30)
      <3> QED
        BY <3>2, Zenon DEF EnabledFirst
    <2> QED
      BY <2>1, <2>3, <2>4, <2>5, <2>6, ZenonT(30)
  <1>5. RcStay(actions)' /\ InTurn(actions)'
    BY DEF Sound, RcStay, InTurn
  <1>6. \A a \in DOMAIN Script : In(a, executing') => In(a, actions')
    BY ZenonT(30) DEF Sound
  <1> QED
    BY <1>1, <1>3, <1>4, <1>5, <1>6, ZenonT(30) DEF Sound

\* The same for the order of a shutdown.
LEMMA OnwardShutdown ==
  ASSUME NEW run \in Seq(DOMAIN Script), NEW q \in Seq(Events),
         NEW e \in EventTriggers \cup PropertyChanges,
         ShutdownOrder(run, q), shutting' = shutting, Onward(q, e),
         executing' \in Seq(DOMAIN Script), \A x : In(x, executing') => In(x, run),
         \A b \in Builtins : In(b, run) => executing' = run
  PROVE  ShutdownOrder(executing, queue)'
  <1> SUFFICES ASSUME shutting PROVE ShutdownOrder(executing, queue)'
    BY DEF ShutdownOrder
  <1>1. /\ Len(q) \in Nat /\ Len(queue') \in Nat /\ Len(queue') >= Len(q)
        /\ \A i \in 1..Len(q) : queue'[i] = q[i]
    <2>0. e \in Events
      BY DEF Events
    <2>1. CASE queue' = q
      BY <2>1, SMTT(30)
    <2>2. CASE queue' = Append(q, e)
      BY <2>0, <2>2, AppendIn
    <2> QED
      BY <2>1, <2>2 DEF Onward
  <1>2. CASE /\ run = <<>> /\ Len(q) >= 2
             /\ q[1] = EventTrigger("shutdown") /\ q[2] = BuiltinAction("shutdown_done")
    <2>1. executing' = <<>>
      <3>0. \A x : ~In(x, run)
        BY <1>2 DEF In
      <3>1. \A x : ~In(x, executing')
        BY <3>0, Zenon
      <3>2. \A i \in 1..Len(executing') : In(executing'[i], executing')
        BY DEF In
      <3>3. Len(executing') \in Nat /\ ~(1 \in 1..Len(executing'))
        BY <3>1, <3>2, LenProperties, SMTT(30)
      <3> QED
        BY <3>3
    <2>2. Len(queue') >= 2 /\ 1 \in 1..Len(q) /\ 2 \in 1..Len(q)
      BY <1>1, <1>2
    <2> QED
      BY <1>1, <1>2, <2>1, <2>2, ZenonT(30) DEF ShutdownOrder
  <1>3. CASE /\ \A i \in 1..Len(run) : Script[run[i]].event = "shutdown"
             /\ Len(q) >= 1 /\ q[1] = BuiltinAction("shutdown_done")
    <2>1. Len(queue') >= 1 /\ 1 \in 1..Len(q)
      BY <1>1, <1>3
    <2>2. ASSUME NEW i \in 1..Len(executing') PROVE Script[executing'[i]].event = "shutdown"
      <3>1. In(executing'[i], executing')
        BY DEF In
      <3>2. PICK j \in 1..Len(run) : run[j] = executing'[i]
        BY <3>1, Zenon DEF In
      <3> QED
        BY <1>3, <3>2, Zenon
    <2> QED
      BY <1>1, <1>3, <2>1, <2>2, ZenonT(30) DEF ShutdownOrder
  <1>4. CASE run = <<"shutdown_done">>
    <2>1. In("shutdown_done", run) /\ "shutdown_done" \in Builtins
      BY <1>4 DEF In, Builtins
    <2> QED
      BY <1>4, <2>1 DEF ShutdownOrder
  <1> QED
    BY <1>2, <1>3, <1>4, SMTT(30) DEF ShutdownOrder

\* Before property triggers are enabled, the look at all properties is to come.
LEMMA FirstToCome ==
  ASSUME NEW run, NEW q, EnabledFirst(run, q), ~shutting, ~enabled
  PROVE  ToCome(run, q)
  BY Zenon DEF EnabledFirst, ToCome, In

\* A step that changes no property misses none.
LEMMA OnwardMissesNone ==
  ASSUME NEW run \in Seq(DOMAIN Script), NEW q, NEW s,
         NoneMissed(s, run, q), props' = props, shutting' = shutting, served' = s,
         \A x : In(x, q) => In(x, queue'),
         \A b \in Builtins : In(b, run) => In(b, executing')
  PROVE  NoneMissed(served, executing, queue)'
  <1> SUFFICES ASSUME ~shutting, NEW a \in PropertyActions, Satisfied(a, props)
               PROVE  Covered(a, served, executing, queue)'
    BY Zenon DEF NoneMissed, PropertyActions, Satisfied
  <1>1. Covered(a, s, run, q)
    BY DEF NoneMissed
  <1>2. "queue_property_triggers" \in Builtins
    BY SMTT(30) DEF Builtins
  <1>3. CASE a \in s
    BY <1>3 DEF Covered
  <1>4. CASE ToCome(run, q)
    <2>1. ToCome(executing, queue)'
      BY <1>2, <1>4, Zenon DEF ToCome
    <2> QED
      BY <2>1, Zenon DEF Covered
  <1>5. ASSUME NEW n \in DOMAIN Script[a].props, In(PropertyChange(n, props[n]), q)
        PROVE  Covered(a, served, executing, queue)'
    <2>1. In(PropertyChange(n, props'[n]), queue')
      BY <1>5, SMTT(30)
    <2> QED
      BY <2>1, ZenonT(30) DEF Covered
  <1> QED
    BY <1>1, <1>3, <1>4, <1>5, Zenon DEF Covered

\* Setting a property misses none: the change is queued once triggers are enabled, and the
\* look at all properties is to come before that.
LEMMA SetMissesNone ==
  ASSUME NEW n \in Prop, NEW v \in Value, NEW run \in Seq(DOMAIN Script),
         NEW q \in Seq(Events), NEW s,
         props \in [Prop -> Value \cup {""}], PropertySet(n, v, q, s),
         NoneMissed(s, run, q), EnabledFirst(run, q), shutting' = shutting,
         \A b \in Builtins : In(b, run) => In(b, executing')
  PROVE  NoneMissed(served, executing, queue)'
  <1> SUFFICES ASSUME ~shutting, NEW a \in PropertyActions, Satisfied(a, props')
               PROVE  Covered(a, served, executing, queue)'
    BY Zenon DEF NoneMissed, PropertyActions, Satisfied
  <1>0. "queue_property_triggers" \in Builtins
    BY Zenon DEF Builtins
  <1>1. /\ props' = [props EXCEPT ![n] = v] /\ served' = s \ NowTrue(props')
        /\ queue' = IF enabled THEN Append(q, PropertyChange(n, v)) ELSE q
    BY ZenonT(30) DEF PropertySet, QueueAfter
  <1>2. DOMAIN Script[a].props \subseteq Prop
    BY ActionFacts, Zenon DEF PropertyActions, ActionRecord
  <1>3. PropertyChange(n, v) \in Events
    BY EventFacts, ZenonT(30) DEF Events
  <1>4. /\ \A x : In(x, q) => In(x, queue')
        /\ enabled => In(PropertyChange(n, v), queue')
    BY <1>1, <1>3, AppendIn, Zenon
  <1>5. ASSUME ToCome(run, q) PROVE Covered(a, served, executing, queue)'
    <2>1. ToCome(executing, queue)'
      BY <1>0, <1>4, <1>5, ZenonT(30) DEF ToCome
    <2> QED
      BY <2>1, Zenon DEF Covered
  <1>6. CASE ~enabled
    BY <1>5, <1>6, FirstToCome, Zenon
  <1>7. CASE enabled /\ n \in DOMAIN Script[a].props
    <2>1. props'[n] = v
      BY <1>1, ZenonT(30)
    <2>2. In(PropertyChange(n, props'[n]), queue')
      BY <1>4, <1>7, <2>1, Zenon
    <2> QED
      BY <1>7, <2>2, ZenonT(30) DEF Covered
  <1>8. CASE n \notin DOMAIN Script[a].props
    <2>1. \A m \in DOMAIN Script[a].props : props'[m] = props[m]
      BY <1>1, <1>2, <1>8, ZenonT(30)
    <2>2. Satisfied(a, props)
      BY <2>1, ZenonT(30) DEF Satisfied
    <2>3. a \notin NowTrue(props')
      BY <2>2, Zenon DEF NowTrue
    <2>4. Covered(a, s, run, q)
      BY <2>2, Zenon DEF NoneMissed
    <2>5. CASE a \in s
      BY <1>1, <2>3, <2>5, Zenon DEF Covered
    <2>6. ASSUME NEW m \in DOMAIN Script[a].props, In(PropertyChange(m, props[m]), q)
          PROVE  Covered(a, served, executing, queue)'
      <3>1. In(PropertyChange(m, props'[m]), queue')
        BY <1>4, <2>1, <2>6, ZenonT(30)
      <3> QED
        BY <3>1, ZenonT(30) DEF Covered
    <2> QED
      BY <1>5, <2>4, <2>5, <2>6, ZenonT(30) DEF Covered
  <1> QED
    BY <1>6, <1>7, <1>8, ZenonT(30)

\* What is known when a command of an action of the scripts has been executed.
LEMMA ScriptGoing ==
  ASSUME QueueInv, NEW op, op \notin Builtins, ExecuteOneCommand(op, <<>>)
  PROVE  /\ ~down /\ Going(Running, Fetched[2])
         /\ actions' = actions /\ cmd' \in Nat /\ shutting' = shutting /\ pc' = "poll"
         /\ executing' \in Seq(DOMAIN Script) /\ CommandOf(executing)'
         /\ \A x : In(x, executing') => In(x, Running)
         /\ \A b \in Builtins : ~In(b, Running)
         /\ ScriptCommand(Command) /\ Command.op = op
  <1>1. pc = "execute" /\ Running # <<>> /\ Command.op = op /\ shutting' = shutting /\ pc' = "poll"
    BY DEF ExecuteOneCommand
  <1>2. ~down /\ TypeOK /\ actions \in Seq(DOMAIN Script)
    BY <1>1, Zenon DEF QueueInv, TypeOK
  <1>3. Going(Running, Fetched[2])
    BY <1>1, <1>2, FetchGoing, SMTT(30)
  <1>4. Running \in Seq(DOMAIN Script) /\ CommandOf(Running) /\ Sound(actions, Running, Fetched[2])
    BY <1>3 DEF Going
  <1>5. Head(Running) = Running[1] /\ actions \o <<>> = actions
    BY <1>1, <1>2, <1>4, SMTT(30)
  <1>6. Command = Script[Running[1]].cmds[cmd + 1]
    BY <1>5 DEF Command
  <1>7. Running[1] \notin Builtins /\ ~Script[Running[1]].oneshot /\ ScriptCommand(Command)
    BY <1>1, <1>2, <1>4, <1>6, HeadFacts, ZenonT(30)
  <1>8. Advance(Running, Running[1], actions)
    <2>1. \E run \in {Running} : Advance(run, Head(run), actions \o <<>>)
      BY DEF ExecuteOneCommand
    <2>2. Advance(Running, Head(Running), actions \o <<>>)
      BY <2>1, Zenon
    <2> QED
      BY <1>5, <2>2
  <1>9. /\ actions' = actions /\ cmd' \in Nat
        /\ executing' \in Seq(DOMAIN Script) /\ CommandOf(executing)'
        /\ \A x : In(x, executing') => In(x, Running)
    BY <1>1, <1>2, <1>4, <1>7, <1>8, ScriptAdvance, SMTT(30)
  <1>10. ASSUME NEW b \in Builtins, In(b, Running) PROVE FALSE
    <2>1. Running = <<b>>
      BY <1>4, <1>10, Zenon DEF Sound, Once
    <2>2. Running[1] = b
      BY <2>1
    <2> QED
      BY <1>7, <2>2
  <1> QED
    BY <1>1, <1>2, <1>3, <1>7, <1>9, <1>10, SMTT(30)

\* So it keeps the invariant, if it changes no more and misses no property action.
LEMMA ScriptStep ==
  ASSUME QueueInv, NEW op, op \notin Builtins, ExecuteOneCommand(op, <<>>),
         NEW e \in EventTriggers \cup PropertyChanges, Onward(Fetched[2], e),
         enabled' = enabled, down' = down, props' \in [Prop -> Value \cup {""}],
         NoneMissed(served, executing, queue)'
  PROVE  QueueInv'
  <1>1. /\ ~down /\ Going(Running, Fetched[2])
        /\ actions' = actions /\ cmd' \in Nat /\ shutting' = shutting /\ pc' = "poll"
        /\ executing' \in Seq(DOMAIN Script) /\ CommandOf(executing)'
        /\ \A x : In(x, executing') => In(x, Running)
        /\ \A b \in Builtins : ~In(b, Running)
    BY ScriptGoing, ZenonT(30)
  <1>2. /\ Running \in Seq(DOMAIN Script) /\ Fetched[2] \in Seq(Events)
        /\ Sound(actions, Running, Fetched[2]) /\ ShutdownOrder(Running, Fetched[2])
    BY <1>1, Zenon DEF Going
  <1>3. queue' \in Seq(Events) /\ Sound(actions, executing, queue)'
    BY <1>1, <1>2, OnwardSound, Zenon
  <1>4. ShutdownOrder(executing, queue)'
    BY <1>1, <1>2, OnwardShutdown, Zenon
  <1>5. TypeOK'
    <2>1. actions \in Seq(DOMAIN Script) /\ enabled \in BOOLEAN /\ shutting \in BOOLEAN
          /\ down \in BOOLEAN
      BY ZenonT(30) DEF QueueInv, TypeOK
    <2> QED
      BY <1>1, <1>3, <2>1, ZenonT(30) DEF TypeOK
  <1>6. ~down'
    BY <1>1, Zenon
  <1> QED
    BY <1>1, <1>3, <1>4, <1>5, <1>6, ZenonT(30) DEF QueueInv

\* The commands of the scripts.
LEMMA StepSetprop ==
  ASSUME QueueInv, ExecuteSetprop PROVE QueueInv'
  <1> DEFINE n == Command.name
             v == Command.value
  <1>1. ExecuteOneCommand("setprop", <<>>) /\ Setprop(Command, Fetched[2], ServedNow)
    BY DEF ExecuteSetprop
  <1>2. "setprop" \notin Builtins
    BY DEF Builtins
  <1>3. /\ Going(Running, Fetched[2]) /\ shutting' = shutting
        /\ \A b \in Builtins : ~In(b, Running)
        /\ ScriptCommand(Command) /\ Command.op = "setprop"
    BY <1>1, <1>2, ScriptGoing, ZenonT(30)
  <1>4. n \in Prop /\ v \in Value
    BY <1>3 DEF ScriptCommand
  <1> HIDE DEF n, v
  <1>5. PropertySet(n, v, Fetched[2], ServedNow) /\ enabled' = enabled /\ down' = down
    BY <1>1, SMTT(30) DEF Setprop, n, v
  <1>6. /\ Running \in Seq(DOMAIN Script) /\ Fetched[2] \in Seq(Events)
        /\ EnabledFirst(Running, Fetched[2]) /\ NoneMissed(ServedNow, Running, Fetched[2])
    BY <1>3 DEF Going, Sound
  <1>7. props \in [Prop -> Value \cup {""}]
    BY Zenon DEF QueueInv, TypeOK
  <1>8. NoneMissed(served, executing, queue)'
    BY <1>3, <1>4, <1>5, <1>6, <1>7, SetMissesNone, ZenonT(30)
  <1>9. props' \in [Prop -> Value \cup {""}]
    BY <1>4, <1>5, <1>7, ZenonT(30) DEF PropertySet
  <1>10. Onward(Fetched[2], PropertyChange(n, v))
    BY <1>5 DEF PropertySet, QueueAfter, Onward
  <1>11. PropertyChange(n, v) \in EventTriggers \cup PropertyChanges
    BY <1>4, EventFacts, Zenon
  <1> QED
    BY <1>1, <1>2, <1>5, <1>8, <1>9, <1>10, <1>11, ScriptStep, ZenonT(30)

\* The commands that change no property.
LEMMA OtherScriptStep ==
  ASSUME QueueInv, NEW op, op \notin Builtins, ExecuteOneCommand(op, <<>>),
         NEW e \in EventTriggers \cup PropertyChanges, Onward(Fetched[2], e),
         enabled' = enabled, down' = down, props' = props, served' = ServedNow
  PROVE  QueueInv'
  <1>1. /\ Going(Running, Fetched[2]) /\ shutting' = shutting
        /\ \A b \in Builtins : ~In(b, Running)
    BY ScriptGoing, Zenon
  <1>2. /\ Running \in Seq(DOMAIN Script) /\ Fetched[2] \in Seq(Events)
        /\ NoneMissed(ServedNow, Running, Fetched[2])
    BY <1>1 DEF Going
  <1>3. props' \in [Prop -> Value \cup {""}]
    BY Zenon DEF QueueInv, TypeOK
  <1>4. \A x : In(x, Fetched[2]) => In(x, queue')
    <2>1. e \in Events
      BY DEF Events
    <2>2. CASE queue' = Fetched[2]
      BY <2>2, Zenon
    <2>3. CASE queue' = Append(Fetched[2], e)
      BY <1>2, <2>1, <2>3, AppendIn, ZenonT(30)
    <2> QED
      BY <2>2, <2>3 DEF Onward
  <1>5. NoneMissed(served, executing, queue)'
    BY <1>1, <1>2, <1>4, OnwardMissesNone, Zenon
  <1> QED
    BY <1>3, <1>5, ScriptStep, Zenon

\* A trigger command queues an event.
LEMMA StepTrigger ==
  ASSUME QueueInv, ExecuteTrigger PROVE QueueInv'
  <1>1. ExecuteOneCommand("trigger", <<>>) /\ Trigger(Command, Fetched[2], ServedNow)
    BY DEF ExecuteTrigger
  <1>2. "trigger" \notin Builtins
    BY DEF Builtins
  <1>3. ScriptCommand(Command) /\ Command.op = "trigger"
    BY <1>1, <1>2, ScriptGoing, ZenonT(30)
  <1>4. EventTrigger(Command.name) \in EventTriggers \cup PropertyChanges
    BY <1>3, EventFacts, Zenon DEF ScriptCommand
  <1>5. /\ Onward(Fetched[2], EventTrigger(Command.name))
        /\ enabled' = enabled /\ down' = down /\ props' = props /\ served' = ServedNow
    BY <1>1 DEF Trigger, Onward
  <1> QED
    BY <1>1, <1>2, <1>4, <1>5, OtherScriptStep, ZenonT(30)

\* wait_for_prop and exec leave the queue as it is.
LEMMA StepWaits ==
  ASSUME QueueInv, ExecuteWaitForProp \/ ExecuteExec PROVE QueueInv'
  <1>1. "wait_for_prop" \notin Builtins /\ "exec" \notin Builtins
    BY DEF Builtins
  <1>2. EventTrigger("shutdown") \in EventTriggers \cup PropertyChanges
    BY EventFacts, ZenonT(30)
  <1>3. /\ Onward(Fetched[2], EventTrigger("shutdown"))
        /\ enabled' = enabled /\ down' = down /\ props' = props /\ served' = ServedNow
    BY DEF ExecuteWaitForProp, ExecuteExec, WaitForProp, Exec, Onward
  <1>4. ExecuteOneCommand("wait_for_prop", <<>>) \/ ExecuteOneCommand("exec", <<>>)
    BY DEF ExecuteWaitForProp, ExecuteExec
  <1> QED
    BY <1>1, <1>2, <1>3, <1>4, OtherScriptStep, ZenonT(30)

\* t is acts without b
Erased(t, acts, b) ==
    /\ t \in Seq(DOMAIN Script)
    /\ \A a \in DOMAIN Script : In(a, t) <=> In(a, acts) /\ a # b
    /\ \A c \in DOMAIN Script :
           (\A i, j \in 1..Len(acts) : acts[i] = c /\ acts[j] = c => i = j) =>
           (\A i, j \in 1..Len(t) : t[i] = c /\ t[j] = c => i = j)

\* What erasing an action leaves.
LEMMA ErasedFacts ==
  ASSUME NEW acts \in Seq(DOMAIN Script), NEW b
  PROVE  Erased(Those(acts, DOMAIN Script \ {b}), acts, b)
  <1> DEFINE t == Those(acts, DOMAIN Script \ {b})
  <1> DEFINE S == DOMAIN Script \ {b}
  <1>1. t \in Seq(DOMAIN Script) /\ Selects(t, acts, S, Len(acts))
    BY ThoseFacts
  <1>2. \A a \in DOMAIN Script : a \in S <=> a # b
    OBVIOUS
  <1>3. Len(t) \in Nat /\ Len(acts) \in Nat
    BY <1>1, LenProperties
  <1> HIDE DEF S, t
  <1>4. ASSUME NEW a \in DOMAIN Script PROVE In(a, t) <=> In(a, acts) /\ a # b
    <2>1. ASSUME In(a, t) PROVE In(a, acts) /\ a \in S
      <3>1. PICK i \in 1..Len(t) : t[i] = a
        BY <2>1, SMTT(30) DEF In
      <3> QED
        BY <1>1, <3>1, ZenonT(30) DEF Selects, In
    <2>2. ASSUME In(a, acts), a \in S PROVE In(a, t)
      <3>1. PICK i \in 1..Len(acts) : acts[i] = a
        BY <2>2 DEF In
      <3>2. In(acts[i], t)
        BY <1>1, <2>2, <3>1, ZenonT(30) DEF Selects
      <3> QED
        BY <3>1, <3>2
    <2> QED
      BY <1>2, <2>1, <2>2, ZenonT(30)
  <1>5. ASSUME NEW c \in DOMAIN Script,
               \A i, j \in 1..Len(acts) : acts[i] = c /\ acts[j] = c => i = j,
               NEW i \in 1..Len(t), NEW j \in 1..Len(t), t[i] = c, t[j] = c
        PROVE  i = j
    <2>1. ASSUME NEW x \in 1..Len(t), NEW y \in 1..Len(t), t[x] = c, t[y] = c, x < y PROVE FALSE
      <3>1. PICK d, f \in 1..Len(acts) : d < f /\ t[x] = acts[d] /\ t[y] = acts[f]
        BY <1>1, <2>1, ZenonT(30) DEF Selects
      <3>2. d = f
        BY <1>5, <2>1, <3>1, SMTT(30)
      <3>3. d \in Int /\ f \in Int /\ d < f
        BY <1>3, <3>1
      <3> QED
        BY <3>2, <3>3, SMTT(30)
    <2>2. ~(i < j) /\ ~(j < i)
      BY <1>5, <2>1, Zenon
    <2> QED
      BY <1>3, <2>2
  <1> QED
    BY <1>1, <1>4, <1>5, ZenonT(30) DEF Erased, t

\* What is known when a builtin action has been executed.
LEMMA BuiltinGoing ==
  ASSUME QueueInv, NEW b \in Builtins, NEW added \in Seq(DOMAIN Script),
         ExecuteOneCommand(b, added)
  PROVE  /\ ~down /\ Going(Running, Fetched[2]) /\ Running = <<b>>
         /\ executing' = <<>> /\ cmd' = 0 /\ shutting' = shutting /\ pc' = "poll"
         /\ actions' = Those(actions \o added, DOMAIN Script \ {b})
         /\ In(b, actions) /\ ~In(BuiltinAction(b), Fetched[2])
  <1>1. pc = "execute" /\ Running # <<>> /\ Command.op = b /\ shutting' = shutting /\ pc' = "poll"
    BY DEF ExecuteOneCommand
  <1>2. ~down /\ TypeOK
    BY <1>1 DEF QueueInv
  <1>3. Going(Running, Fetched[2])
    BY <1>1, <1>2, FetchGoing, SMTT(30)
  <1>4. Running \in Seq(DOMAIN Script) /\ CommandOf(Running) /\ Sound(actions, Running, Fetched[2])
    BY <1>3 DEF Going
  <1>5. Head(Running) = Running[1] /\ 1 \in 1..Len(Running)
    BY <1>1, <1>4, SMTT(30)
  <1>6. Command = Script[Running[1]].cmds[cmd + 1]
    BY <1>5 DEF Command
  <1>7. Running[1] = b /\ Script[Running[1]].oneshot /\ cmd = 0 /\ Len(Script[Running[1]].cmds) = 1
    BY <1>1, <1>2, <1>4, <1>6, HeadFacts, ZenonT(30)
  <1>8. In(b, Running) /\ b \in DOMAIN Script
    BY <1>5, <1>7, ActionFacts, ZenonT(30) DEF In
  <1>9. Running = <<b>> /\ ~In(BuiltinAction(b), Fetched[2]) /\ In(b, actions)
    BY <1>4, <1>8, ZenonT(30) DEF Sound, Once
  <1>10. Advance(Running, b, actions \o added)
    <2>1. \E run \in {Running} : Advance(run, Head(run), actions \o added)
      BY DEF ExecuteOneCommand
    <2>2. Advance(Running, Head(Running), actions \o added)
      BY <2>1, ZenonT(30)
    <2> QED
      BY <1>5, <1>7, <2>2, SMTT(30)
  <1>11. cmd' = 0 /\ executing' = Tail(Running)
         /\ actions' = Those(actions \o added, DOMAIN Script \ {b})
    BY <1>7, <1>10, SMTT(30) DEF Advance, NextCommand
  <1>12. executing' = <<>>
    BY <1>9, <1>11
  <1> QED
    BY <1>1, <1>2, <1>3, <1>9, <1>11, <1>12

\* The builtin action b has been executed and is erased from acts.
LEMMA ErasedSound ==
  ASSUME NEW acts \in Seq(DOMAIN Script), NEW b \in Builtins,
         actions' = Those(acts, DOMAIN Script \ {b}), executing' = <<>>,
         RcStay(acts), EnabledFirst(executing, queue)',
         b = "queue_property_triggers"
            \/ (In("queue_property_triggers", acts) => ~In("enable_property_trigger", acts)),
         In("shutdown_done", acts) => shutting',
         \A c \in Builtins :
            /\ \A i, j \in 1..Len(acts) : acts[i] = c /\ acts[j] = c => i = j
            /\ \A i, j \in 1..Len(queue') :
                   queue'[i] = BuiltinAction(c) /\ queue'[j] = BuiltinAction(c) => i = j
            /\ In(BuiltinAction(c), queue') => In(c, acts) /\ c # b
  PROVE  actions' \in Seq(DOMAIN Script) /\ Sound(actions, executing, queue)'
  <1>1. /\ actions' \in Seq(DOMAIN Script)
        /\ \A a \in DOMAIN Script : In(a, actions') <=> In(a, acts) /\ a # b
        /\ \A c \in DOMAIN Script :
               (\A i, j \in 1..Len(acts) : acts[i] = c /\ acts[j] = c => i = j) =>
               (\A i, j \in 1..Len(actions') : actions'[i] = c /\ actions'[j] = c => i = j)
    <2>1. Erased(Those(acts, DOMAIN Script \ {b}), acts, b)
      BY ErasedFacts, Zenon
    <2>2. Erased(actions', acts, b)
      BY <2>1, ZenonT(30)
    <2> QED
      BY <2>2, Zenon DEF Erased
  <1>2. Builtins \subseteq DOMAIN Script
    BY ActionFacts, SMTT(30)
  <1>3. "queue_property_triggers" \in Builtins /\ "enable_property_trigger" \in Builtins
        /\ "shutdown_done" \in Builtins
    BY DEF Builtins
  <1>4. RcStay(actions)'
    BY <1>1, Zenon DEF RcStay
  <1>5. InTurn(actions)'
    BY <1>1, <1>2, <1>3, ZenonT(30) DEF InTurn
  <1>6. \A x : ~In(x, executing')
    BY DEF In
  <1>7. Once(actions, executing, queue)'
    <2> SUFFICES ASSUME NEW c \in Builtins PROVE
        /\ \A i, j \in 1..Len(actions') : actions'[i] = c /\ actions'[j] = c => i = j
        /\ \A i, j \in 1..Len(queue') :
               queue'[i] = BuiltinAction(c) /\ queue'[j] = BuiltinAction(c) => i = j
        /\ In(c, executing') => executing' = <<c>> /\ ~In(BuiltinAction(c), queue')
        /\ In(BuiltinAction(c), queue') => In(c, actions')
      BY ZenonT(30) DEF Once
    <2>1. c \in DOMAIN Script
      BY <1>2
    <2>2. \A i, j \in 1..Len(actions') : actions'[i] = c /\ actions'[j] = c => i = j
      BY <1>1, <2>1, ZenonT(30)
    <2>3. In(BuiltinAction(c), queue') => In(c, actions')
      BY <1>1, <2>1, ZenonT(30)
    <2> QED
      BY <1>6, <2>2, <2>3, ZenonT(30)
  <1> QED
    BY <1>1, <1>4, <1>5, <1>6, <1>7, ZenonT(30) DEF Sound

\* A builtin action that adds nothing: what is queued is what was.
LEMMA ErasedQueue ==
  ASSUME QueueInv, NEW b \in Builtins, ExecuteOneCommand(b, <<>>), queue' = Fetched[2],
         EnabledFirst(executing, queue)'
  PROVE  actions' \in Seq(DOMAIN Script) /\ Sound(actions, executing, queue)'
  <1>1. <<>> \in Seq(DOMAIN Script) /\ actions \in Seq(DOMAIN Script)
    <2>1. actions \in Seq(DOMAIN Script)
      BY Zenon DEF QueueInv, TypeOK
    <2>2. <<>> \in Seq(DOMAIN Script)
      OBVIOUS
    <2> QED
      BY <2>1, <2>2, SMTT(30)
  <1>2. /\ Going(Running, Fetched[2])
        /\ executing' = <<>> /\ shutting' = shutting
        /\ actions' = Those(actions \o <<>>, DOMAIN Script \ {b})
        /\ ~In(BuiltinAction(b), Fetched[2])
    BY <1>1, BuiltinGoing, Zenon
  <1>3. actions \o <<>> = actions
    BY <1>1, ConcatEmptySeq, ZenonT(30)
  <1>4. actions' = Those(actions, DOMAIN Script \ {b})
    BY <1>2, <1>3, SMTT(30)
  <1>5. RcStay(actions) /\ InTurn(actions) /\ Once(actions, Running, Fetched[2])
    BY <1>2 DEF Going, Sound
  <1>6. ASSUME NEW c \in Builtins PROVE
        /\ \A i, j \in 1..Len(actions) : actions[i] = c /\ actions[j] = c => i = j
        /\ \A i, j \in 1..Len(queue') :
               queue'[i] = BuiltinAction(c) /\ queue'[j] = BuiltinAction(c) => i = j
        /\ In(BuiltinAction(c), queue') => In(c, actions) /\ c # b
    BY <1>2, <1>5, ZenonT(30) DEF Once
  <1>7. /\ In("queue_property_triggers", actions) => ~In("enable_property_trigger", actions)
        /\ In("shutdown_done", actions) => shutting'
    BY <1>2, <1>5 DEF InTurn
  <1> QED
    BY <1>1, <1>2, <1>4, <1>5, <1>6, <1>7, ErasedSound, ZenonT(30)

\* In a shutdown only shutdown_done is a builtin action that can be executed.
LEMMA BuiltinShutdown ==
  ASSUME NEW b \in Builtins, NEW q, ShutdownOrder(<<b>>, q), shutting
  PROVE  b = "shutdown_done"
  <1> DEFINE run == <<b>>
  <1>1. run # <<>> /\ 1 \in 1..Len(run) /\ run[1] = b
    OBVIOUS
  <1>2. Script[b].event # "shutdown"
    BY ActionFacts DEF BuiltinRecord, Builtins
  <1> HIDE DEF run
  <1>3. ~(\A i \in 1..Len(run) : Script[run[i]].event = "shutdown")
    BY <1>1, <1>2, Zenon
  <1>4. run = <<"shutdown_done">>
    <2>1. ShutdownOrder(run, q)
      BY DEF run
    <2> QED
      BY <1>1, <1>3, <2>1, ZenonT(30) DEF ShutdownOrder
  <1>5. run[1] = "shutdown_done"
    BY <1>4
  <1> QED
    BY <1>1, <1>5

\* The rest of the invariant after a builtin action.
LEMMA BuiltinStep ==
  ASSUME QueueInv, NEW b \in Builtins, NEW added \in Seq(DOMAIN Script),
         ExecuteOneCommand(b, added), queue' \in Seq(Events), actions' \in Seq(DOMAIN Script),
         Sound(actions, executing, queue)', props' = props, enabled' \in BOOLEAN,
         NoneMissed(served, executing, queue)',
         (down' = down /\ ~shutting) \/ (down' = TRUE /\ shutting)
  PROVE  QueueInv'
  <1>1. ~down /\ executing' = <<>> /\ cmd' = 0 /\ shutting' = shutting /\ pc' = "poll"
    BY BuiltinGoing, Zenon
  <1>2. TypeOK'
    <2>1. props \in [Prop -> Value \cup {""}] /\ shutting \in BOOLEAN /\ down \in BOOLEAN
      BY Zenon DEF QueueInv, TypeOK
    <2>2. executing' \in Seq(DOMAIN Script) /\ cmd' \in Nat
      BY <1>1
    <2>3. down' \in BOOLEAN
      BY <2>1, Zenon
    <2> QED
      BY <1>1, <2>1, <2>2, <2>3, ZenonT(30) DEF TypeOK
  <1>3. CommandOf(executing)'
    BY <1>1 DEF CommandOf
  <1>4. ~down' => ~shutting'
    BY <1>1
  <1>5. ~down' => ShutdownOrder(executing, queue)'
    BY <1>4, Zenon DEF ShutdownOrder
  <1>6. down' => shutting' /\ pc' = "poll" /\ executing' = <<>>
    BY <1>1, Zenon
  <1> QED
    BY <1>2, <1>3, <1>5, <1>6, ZenonT(30) DEF QueueInv

\* enable_property_trigger
LEMMA StepEnable ==
  ASSUME QueueInv, ExecuteEnable PROVE QueueInv'
  <1> DEFINE b == "enable_property_trigger"
  <1>1. /\ b \in Builtins /\ "queue_property_triggers" \in Builtins
        /\ b # "queue_property_triggers" /\ b # "shutdown_done"
    BY DEF Builtins
  <1>2. /\ ExecuteOneCommand(b, <<>>) /\ enabled' = TRUE /\ queue' = Fetched[2]
        /\ served' = ServedNow /\ props' = props /\ down' = down
    BY DEF ExecuteEnable, property_enable_triggers_action
  <1>3. <<>> \in Seq(DOMAIN Script)
    OBVIOUS
  <1> HIDE DEF b
  <1>4. /\ Going(Running, Fetched[2]) /\ Running = <<b>>
        /\ executing' = <<>> /\ shutting' = shutting
    BY <1>1, <1>2, <1>3, BuiltinGoing, Zenon
  <1>5. EnabledFirst(executing, queue)'
    BY <1>2, Zenon DEF EnabledFirst
  <1>6. actions' \in Seq(DOMAIN Script) /\ Sound(actions, executing, queue)'
    BY <1>1, <1>2, <1>5, ErasedQueue, Zenon
  <1>7. Fetched[2] \in Seq(Events) /\ ShutdownOrder(Running, Fetched[2])
        /\ NoneMissed(ServedNow, Running, Fetched[2])
    BY <1>4 DEF Going
  <1>8. ~shutting
    BY <1>1, <1>4, <1>7, BuiltinShutdown, SMTT(30)
  <1>9. ~In("queue_property_triggers", Running)
    BY <1>1, <1>4 DEF In
  <1>10. NoneMissed(served, executing, queue)'
    <2> SUFFICES ASSUME NEW a \in PropertyActions, Satisfied(a, props)
                 PROVE  Covered(a, served, executing, queue)'
      BY <1>2, Zenon DEF NoneMissed, PropertyActions, Satisfied
    <2>1. Covered(a, ServedNow, Running, Fetched[2])
      BY <1>7, <1>8 DEF NoneMissed
    <2>2. \/ a \in ServedNow
          \/ In(BuiltinAction("queue_property_triggers"), Fetched[2])
          \/ In(PropertyChange("", ""), Fetched[2])
          \/ \E n \in DOMAIN Script[a].props : In(PropertyChange(n, props[n]), Fetched[2])
      BY <1>9, <2>1, Zenon DEF Covered, ToCome
    <2>3. \/ a \in served'
          \/ In(BuiltinAction("queue_property_triggers"), queue')
          \/ In(PropertyChange("", ""), queue')
          \/ \E n \in DOMAIN Script[a].props : In(PropertyChange(n, props'[n]), queue')
      BY <1>2, <2>2, ZenonT(30)
    <2> QED
      BY <2>3, ZenonT(30) DEF Covered, ToCome
  <1>11. queue' \in Seq(Events) /\ enabled' \in BOOLEAN
    BY <1>2, <1>7
  <1> QED
    BY <1>1, <1>2, <1>3, <1>6, <1>8, <1>10, <1>11, BuiltinStep, Zenon

\* shutdown_done
LEMMA StepReboot ==
  ASSUME QueueInv, ExecuteReboot PROVE QueueInv'
  <1> DEFINE b == "shutdown_done"
  <1>1. b \in Builtins
    BY DEF Builtins
  <1>2. /\ ExecuteOneCommand(b, <<>>) /\ enabled' = enabled /\ queue' = Fetched[2]
        /\ served' = ServedNow /\ props' = props /\ down' = TRUE
    BY DEF ExecuteReboot, shutdown_handler
  <1>3. <<>> \in Seq(DOMAIN Script)
    OBVIOUS
  <1>4. Going(Running, Fetched[2]) /\ shutting' = shutting /\ In(b, actions)
    BY <1>1, <1>2, <1>3, BuiltinGoing, ZenonT(30)
  <1>5. shutting /\ Fetched[2] \in Seq(Events)
    BY <1>4 DEF Going, Sound, InTurn
  <1>6. EnabledFirst(executing, queue)' /\ NoneMissed(served, executing, queue)'
    BY <1>4, <1>5, Zenon DEF EnabledFirst, NoneMissed
  <1>7. actions' \in Seq(DOMAIN Script) /\ Sound(actions, executing, queue)'
    BY <1>1, <1>2, <1>6, ErasedQueue, ZenonT(30)
  <1>8. enabled' \in BOOLEAN /\ queue' \in Seq(Events)
    BY <1>2, <1>5, Zenon DEF QueueInv, TypeOK
  <1> QED
    BY <1>1, <1>2, <1>3, <1>5, <1>6, <1>7, <1>8, BuiltinStep, ZenonT(30)

\* Two more members.
LEMMA AppendTwice ==
  ASSUME NEW D, NEW q \in Seq(D), NEW a \in D, NEW e \in D
  PROVE  q \o <<a, e>> = Append(Append(q, a), e)
  OBVIOUS

\* queue_property_triggers
LEMMA StepQueueTriggers ==
  ASSUME QueueInv, ExecuteQueueTriggers PROVE QueueInv'
  <1> DEFINE b == "queue_property_triggers"
             f == "enable_property_trigger"
             q == Fetched[2]
             A == BuiltinAction(f)
             E == PropertyChange("", "")
             acts == Append(actions, f)
             q1 == Append(q, A)
  <1>1. b \in Builtins /\ f \in Builtins /\ b # f /\ b # "shutdown_done" /\ f # "shutdown_done"
    BY DEF Builtins
  <1>2. /\ ExecuteOneCommand(b, <<f>>) /\ enabled' = enabled /\ queue' = q \o <<A, E>>
        /\ served' = ServedNow /\ props' = props /\ down' = down
    BY Zenon DEF ExecuteQueueTriggers, queue_property_triggers_action, TriggerEvents
  <1>3. Builtins \subseteq DOMAIN Script /\ f \in DOMAIN Script
    BY <1>1, ActionFacts
  <1>4. <<f>> \in Seq(DOMAIN Script)
    BY <1>3
  <1>5. actions \in Seq(DOMAIN Script) /\ enabled \in BOOLEAN
    BY ZenonT(30) DEF QueueInv, TypeOK
  <1>6. A \in Events /\ E \in Events
    BY <1>1, EventFacts, ZenonT(30) DEF Events
  <1>7. E # A /\ \A c \in Builtins : E # BuiltinAction(c) /\ (A = BuiltinAction(c) => c = f)
    BY <1>1, EventFacts, Zenon
  <1> HIDE DEF b, f, q, A, E
  <1>8. /\ Going(Running, q) /\ Running = <<b>> /\ executing' = <<>> /\ shutting' = shutting
        /\ actions' = Those(actions \o <<f>>, DOMAIN Script \ {b})
        /\ In(b, actions) /\ ~In(BuiltinAction(b), q)
    BY <1>1, <1>2, <1>4, BuiltinGoing, ZenonT(30) DEF q
  <1>9. /\ q \in Seq(Events) /\ ShutdownOrder(Running, q)
        /\ RcStay(actions) /\ InTurn(actions) /\ Once(actions, Running, q)
    BY <1>8, SMTT(30) DEF Going, Sound
  <1>10. ~shutting
    BY <1>1, <1>8, <1>9, BuiltinShutdown, SMTT(30)
  <1>11. acts = actions \o <<f>>
    BY <1>3, <1>5, AppendIsConcat, ZenonT(30)
  <1>12. queue' = Append(q1, E)
    BY <1>2, <1>6, <1>9, AppendTwice, SMTT(30)
  <1>13. /\ acts \in Seq(DOMAIN Script)
         /\ \A i \in 1..Len(actions) : acts[i] = actions[i]
         /\ \A i \in 1..Len(acts) : i \in 1..Len(actions) \/ i = Len(actions) + 1
         /\ \A x : In(x, acts) <=> In(x, actions) \/ x = f
         /\ acts[Len(actions) + 1] = f
    BY <1>3, <1>5, AppendIn, SMTT(30)
  <1>14. /\ q1 \in Seq(Events) /\ Len(q) \in Nat /\ Len(q1) = Len(q) + 1
         /\ \A i \in 1..Len(q) : q1[i] = q[i] /\ i \in 1..Len(q1)
         /\ \A i \in 1..Len(q1) : i \in 1..Len(q) \/ i = Len(q) + 1
         /\ \A x : In(x, q1) <=> In(x, q) \/ x = A
         /\ q1[Len(q) + 1] = A /\ Len(q) + 1 \in 1..Len(q1)
    BY <1>6, <1>9, AppendIn, SMTT(30)
  <1>15. /\ queue' \in Seq(Events)
         /\ \A i \in 1..Len(q1) : queue'[i] = q1[i] /\ i \in 1..Len(queue')
         /\ \A i \in 1..Len(queue') : i \in 1..Len(q1) \/ i = Len(q1) + 1
         /\ \A x : In(x, queue') <=> In(x, q1) \/ x = E
         /\ queue'[Len(q1) + 1] = E /\ Len(q1) + 1 \in 1..Len(queue')
    <2> HIDE DEF q1
    <2> QED
      BY <1>6, <1>12, <1>14, AppendIn, SMTT(30)
  <1> HIDE DEF acts, q1
  <1>16. ~In(f, actions)
    BY <1>8, <1>9 DEF InTurn, b, f
  <1>17. ~In(A, q)
    BY <1>1, <1>9, <1>16, ZenonT(30) DEF Once, A
  <1>18. EnabledFirst(executing, queue)'
    <2>1. queue'[Len(q) + 1] = A /\ Len(q) + 1 \in 1..Len(queue')
      BY <1>14, <1>15, ZenonT(30)
    <2>2. Len(q) + 1 < Len(q1) + 1
      BY <1>14
    <2>3. \E i, j \in 1..Len(queue') : /\ i < j
                                       /\ queue'[i] = BuiltinAction("enable_property_trigger")
                                       /\ queue'[j] = PropertyChange("", "")
      BY <1>15, <2>1, <2>2, ZenonT(30) DEF A, E, f
    <2> QED
      BY <2>3, Zenon DEF EnabledFirst
  <1>19. ASSUME NEW c \in Builtins PROVE
         /\ \A i, j \in 1..Len(acts) : acts[i] = c /\ acts[j] = c => i = j
         /\ \A i, j \in 1..Len(queue') :
                queue'[i] = BuiltinAction(c) /\ queue'[j] = BuiltinAction(c) => i = j
         /\ In(BuiltinAction(c), queue') => In(c, acts) /\ c # b
    <2>1. /\ \A i, j \in 1..Len(actions) : actions[i] = c /\ actions[j] = c => i = j
          /\ \A i, j \in 1..Len(q) : q[i] = BuiltinAction(c) /\ q[j] = BuiltinAction(c) => i = j
          /\ In(BuiltinAction(c), q) => In(c, actions)
      BY <1>9, Zenon DEF Once
    <2>2. ASSUME NEW i \in 1..Len(acts), NEW j \in 1..Len(acts), acts[i] = c, acts[j] = c
          PROVE  i = j
      <3>1. CASE c = f
        <4>1. i \notin 1..Len(actions) /\ j \notin 1..Len(actions)
          BY <1>13, <1>16, <2>2, <3>1, ZenonT(30) DEF In
        <4> QED
          BY <1>13, <4>1, Zenon
      <3>2. CASE c # f
        <4>1. i \in 1..Len(actions) /\ j \in 1..Len(actions)
          BY <1>13, <2>2, <3>2, ZenonT(30)
        <4> QED
          BY <1>13, <2>1, <2>2, <4>1, ZenonT(30)
      <3> QED
        BY <3>1, <3>2
    <2>3. ASSUME NEW i \in 1..Len(queue'), NEW j \in 1..Len(queue'),
                 queue'[i] = BuiltinAction(c), queue'[j] = BuiltinAction(c)
          PROVE  i = j
      <3>1. i \in 1..Len(q1) /\ j \in 1..Len(q1)
        BY <1>7, <1>15, <2>3, ZenonT(30)
      <3>2. q1[i] = BuiltinAction(c) /\ q1[j] = BuiltinAction(c)
        BY <1>15, <2>3, <3>1, ZenonT(30)
      <3>3. CASE c = f
        <4>1. i \notin 1..Len(q) /\ j \notin 1..Len(q)
          BY <1>14, <1>17, <3>2, <3>3, ZenonT(30) DEF In, A
        <4> QED
          BY <1>14, <3>1, <4>1, ZenonT(30)
      <3>4. CASE c # f
        <4>1. i \in 1..Len(q) /\ j \in 1..Len(q)
          BY <1>7, <1>14, <3>1, <3>2, <3>4, ZenonT(30)
        <4> QED
          BY <1>14, <2>1, <3>2, <4>1, ZenonT(30)
      <3> QED
        BY <3>3, <3>4
    <2>4. ASSUME In(BuiltinAction(c), queue') PROVE In(c, acts) /\ c # b
      <3>1. In(BuiltinAction(c), q) \/ c = f
        BY <1>7, <1>14, <1>15, <2>4, ZenonT(30)
      <3> QED
        BY <1>1, <1>8, <1>13, <2>1, <3>1, ZenonT(30)
    <2> QED
      BY <2>2, <2>3, <2>4, ZenonT(30)
  <1>20. RcStay(acts)
    BY <1>9, <1>13, ZenonT(30) DEF RcStay
  <1>21. In("shutdown_done", acts) => shutting'
    BY <1>1, <1>8, <1>9, <1>13, ZenonT(30) DEF InTurn
  <1>22. actions' \in Seq(DOMAIN Script) /\ Sound(actions, executing, queue)'
    <2>1. actions' = Those(acts, DOMAIN Script \ {b})
      BY <1>8, <1>11
    <2>2. b = "queue_property_triggers"
      BY DEF b
    <2> QED
      BY <1>1, <1>8, <1>13, <1>18, <1>19, <1>20, <1>21, <2>1, <2>2, ErasedSound, ZenonT(30)
  <1>23. NoneMissed(served, executing, queue)'
    <2>1. In(PropertyChange("", ""), queue')
      BY <1>15, ZenonT(30) DEF E
    <2> QED
      BY <2>1, Zenon DEF NoneMissed, Covered, ToCome
  <1>24. enabled' \in BOOLEAN
    BY <1>2, <1>5
  <1> QED
    BY <1>1, <1>2, <1>4, <1>10, <1>15, <1>22, <1>23, <1>24, BuiltinStep, ZenonT(30)

\* A shutdown that is accepted.
LEMMA StepPowerctl ==
  ASSUME QueueInv, HandlePowerctlMessage PROVE QueueInv'
  <1> DEFINE b == "shutdown_done"
             E == EventTrigger("shutdown")
             A == BuiltinAction(b)
  <1>1. /\ pc = "shutdown" /\ ~shutting /\ executing' = <<>> /\ cmd' = 0 /\ queue' = <<E, A>>
        /\ actions' = Append(actions, b) /\ shutting' = TRUE /\ pc' = "execute"
        /\ props' = props /\ enabled' = enabled /\ down' = down
    BY Zenon DEF HandlePowerctlMessage, ClearQueue
  <1>2. TypeOK /\ Sound(actions, executing, queue) /\ ~down
    BY <1>1 DEF QueueInv
  <1>3. actions \in Seq(DOMAIN Script) /\ props \in [Prop -> Value \cup {""}]
        /\ enabled \in BOOLEAN
    BY <1>2, ZenonT(30) DEF TypeOK
  <1>4. b \in Builtins /\ b \in DOMAIN Script /\ b # "queue_property_triggers"
        /\ b # "enable_property_trigger"
    BY ActionFacts, SMTT(30) DEF Builtins
  <1>5. A \in Events /\ E \in Events
    BY <1>4, EventFacts, ZenonT(30) DEF Events
  <1>6. \A c \in Builtins : E # BuiltinAction(c) /\ (A = BuiltinAction(c) => c = b)
    BY <1>4, EventFacts, ZenonT(30)
  <1> DEFINE acts == Append(actions, b)
  <1> HIDE DEF A, E, b
  <1>7. /\ acts \in Seq(DOMAIN Script)
        /\ \A i \in 1..Len(actions) : acts[i] = actions[i]
        /\ \A i \in 1..Len(acts) : i \in 1..Len(actions) \/ i = Len(actions) + 1
        /\ \A x : In(x, acts) <=> In(x, actions) \/ x = b
        /\ acts[Len(actions) + 1] = b
    <2>1. actions \in Seq(DOMAIN Script) /\ b \in DOMAIN Script
      BY <1>3, <1>4, ZenonT(30)
    <2> QED
      BY <2>1, AppendIn, SMTT(30)
  <1>8. ~In(b, actions)
    BY <1>1, <1>2, SMTT(30) DEF Sound, InTurn, b
  <1> HIDE DEF acts
  <1>9. /\ queue' \in Seq(Events) /\ Len(queue') = 2 /\ queue'[1] = E /\ queue'[2] = A
        /\ \A i \in 1..Len(queue') : i = 1 \/ i = 2
    BY <1>1, <1>5, SMTT(30)
  <1>10. executing' \in Seq(DOMAIN Script) /\ cmd' \in Nat /\ \A x : ~In(x, executing')
    BY <1>1 DEF In
  <1>11. actions' = acts
    BY <1>1 DEF acts
  <1>12. TypeOK'
    BY <1>1, <1>2, <1>3, <1>7, <1>9, <1>10, <1>11, ZenonT(30) DEF TypeOK
  <1>13. ASSUME NEW c \in Builtins PROVE
        /\ \A i, j \in 1..Len(actions') : actions'[i] = c /\ actions'[j] = c => i = j
        /\ \A i, j \in 1..Len(queue') :
               queue'[i] = BuiltinAction(c) /\ queue'[j] = BuiltinAction(c) => i = j
        /\ In(c, executing') => executing' = <<c>> /\ ~In(BuiltinAction(c), queue')
        /\ In(BuiltinAction(c), queue') => In(c, actions')
    <2>1. \A i, j \in 1..Len(actions) : actions[i] = c /\ actions[j] = c => i = j
      BY <1>2, ZenonT(30) DEF Sound, Once
    <2>2. ASSUME NEW i \in 1..Len(acts), NEW j \in 1..Len(acts), acts[i] = c, acts[j] = c
          PROVE  i = j
      <3>1. CASE c = b
        <4>1. i \notin 1..Len(actions) /\ j \notin 1..Len(actions)
          BY <1>7, <1>8, <2>2, <3>1, Zenon DEF In
        <4> QED
          BY <1>7, <4>1, Zenon
      <3>2. CASE c # b
        <4>1. i \in 1..Len(actions) /\ j \in 1..Len(actions)
          BY <1>7, <2>2, <3>2, Zenon
        <4> QED
          BY <1>7, <2>1, <2>2, <4>1, ZenonT(30)
      <3> QED
        BY <3>1, <3>2
    <2>3. \A i, j \in 1..Len(queue') :
               queue'[i] = BuiltinAction(c) /\ queue'[j] = BuiltinAction(c) => i = j
      BY <1>6, <1>9, ZenonT(30)
    <2>4. ASSUME In(BuiltinAction(c), queue') PROVE In(c, actions')
      <3>1. c = b
        BY <1>6, <1>9, <2>4, ZenonT(30) DEF In
      <3> QED
        BY <1>7, <1>11, <3>1, ZenonT(30)
    <2> QED
      BY <1>10, <1>11, <2>2, <2>3, <2>4, ZenonT(30)
  <1>14. Sound(actions, executing, queue)'
    <2>1. Once(actions, executing, queue)'
      BY <1>13, Zenon DEF Once
    <2>2. RcStay(actions)'
      BY <1>2, <1>7, <1>11, ZenonT(30) DEF Sound, RcStay
    <2>3. In("queue_property_triggers", actions') => ~In("enable_property_trigger", actions')
      BY <1>2, <1>4, <1>7, <1>11, ZenonT(30) DEF Sound, InTurn
    <2>4. InTurn(actions)'
      BY <1>1, <2>3, SMTT(30) DEF InTurn
    <2>5. EnabledFirst(executing, queue)'
      BY <1>1, ZenonT(30) DEF EnabledFirst
    <2> QED
      BY <1>10, <2>1, <2>2, <2>4, <2>5, ZenonT(30) DEF Sound
  <1>15. CommandOf(executing)' /\ NoneMissed(served, executing, queue)'
    BY <1>1 DEF CommandOf, NoneMissed
  <1>16. ShutdownOrder(executing, queue)'
    <2>1. Len(queue') >= 2
      BY <1>9
    <2> QED
      BY <1>1, <1>9, <2>1, ZenonT(30) DEF ShutdownOrder, A, E, b
  <1>17. ~down'
    BY <1>1, <1>2
  <1> QED
    BY <1>12, <1>14, <1>15, <1>16, <1>17, ZenonT(30) DEF QueueInv

\* Nothing to execute: every event was looked at and fitted no action.
LEMMA StepNothing ==
  ASSUME QueueInv, ExecuteNothing, ~Blocked PROVE QueueInv'
  <1>1. /\ pc = "execute" /\ Running = <<>> /\ queue' = <<>> /\ pc' = "poll"
        /\ props' = props /\ actions' = actions /\ executing' = executing /\ cmd' = cmd
        /\ enabled' = enabled /\ shutting' = shutting /\ down' = down /\ served' = served
    BY DEF ExecuteNothing, Running
  <1>2. /\ TypeOK /\ ~down /\ Sound(actions, executing, queue)
        /\ ShutdownOrder(executing, queue) /\ NoneMissed(served, executing, queue)
        /\ CommandOf(executing)
    BY <1>1 DEF QueueInv
  <1>3. executing = <<>> /\ NothingMatches
    <2>1. ASSUME NEW k \in 1..Len(queue), TakenUp(k) PROVE FALSE
      BY <1>1, <2>1 DEF TakenUp
    <2> QED
      BY <1>1, <1>2, <2>1, FetchFacts, SMTT(30)
  <1>4. \A x : ~In(x, executing) /\ ~In(x, queue')
    BY <1>1, <1>3, SMTT(30) DEF In
  <1>5. ASSUME NEW a \in DOMAIN Script, In(a, actions), NEW ev, In(ev, queue), CheckEvent(a, ev)
        PROVE  FALSE
    <2>1. PICK i \in 1..Len(queue) : queue[i] = ev
      BY <1>5 DEF In
    <2>2. In(a, Matching[queue[i]])
      BY <1>2, <1>5, <2>1, MatchingFacts, ZenonT(30)
    <2>3. Matching[queue[i]] = <<>>
      BY <1>3, <2>1 DEF NothingMatches
    <2> QED
      BY <2>2, <2>3, SMTT(30) DEF In
  <1>6. ASSUME NEW b \in Builtins, In(BuiltinAction(b), queue) PROVE FALSE
    <2>1. In(b, actions) /\ b \in DOMAIN Script
      BY <1>2, <1>6, ActionFacts, ZenonT(30) DEF Sound, Once
    <2>2. CheckEvent(b, BuiltinAction(b))
      BY DEF CheckEvent, BuiltinAction
    <2> QED
      BY <1>5, <1>6, <2>1, <2>2, ZenonT(30)
  <1>7. "queue_property_triggers" \in Builtins /\ "enable_property_trigger" \in Builtins
        /\ "shutdown_done" \in Builtins
    BY DEF Builtins
  <1>8. shutting \/ enabled
    BY <1>2, <1>4, <1>6, <1>7, ZenonT(30) DEF Sound, EnabledFirst, In
  <1>9. ~shutting
    <2> SUFFICES ASSUME shutting PROVE FALSE
      OBVIOUS
    <2>0. Len(queue) \in Nat
      <3>1. queue \in Seq(Events)
        BY <1>2, Zenon DEF TypeOK
      <3> QED
        BY <3>1
    <2>1. ~(Len(queue) >= 2 /\ queue[2] = BuiltinAction("shutdown_done"))
      <3> SUFFICES ASSUME Len(queue) >= 2, queue[2] = BuiltinAction("shutdown_done") PROVE FALSE
        OBVIOUS
      <3>1. 2 \in 1..Len(queue)
        BY <2>0
      <3> QED
        BY <1>6, <1>7, <3>1, ZenonT(30) DEF In
    <2>2. ~(Len(queue) >= 1 /\ queue[1] = BuiltinAction("shutdown_done"))
      <3> SUFFICES ASSUME Len(queue) >= 1, queue[1] = BuiltinAction("shutdown_done") PROVE FALSE
        OBVIOUS
      <3>1. 1 \in 1..Len(queue)
        BY <2>0
      <3> QED
        BY <1>6, <1>7, <3>1, ZenonT(30) DEF In
    <2>3. executing # <<"shutdown_done">>
      BY <1>3
    <2> QED
      BY <1>2, <2>1, <2>2, <2>3, ZenonT(30) DEF ShutdownOrder
  <1>10. NoneMissed(served, executing, queue)'
    <2> SUFFICES ASSUME NEW a \in PropertyActions, Satisfied(a, props)
                 PROVE  a \in served
      BY <1>1, ZenonT(30) DEF NoneMissed, Covered, PropertyActions, Satisfied
    <2>1. a \in DOMAIN Script \ Builtins
      BY NotBuiltin, Zenon DEF PropertyActions
    <2>2. In(a, actions)
      BY <1>2, <2>1, ZenonT(30) DEF Sound, RcStay
    <2>3. Covered(a, served, executing, queue)
      BY <1>2, <1>9, SMTT(30) DEF NoneMissed
    <2>4. ~In(PropertyChange("", ""), queue)
      BY <1>5, <2>1, <2>2, SatisfiedMatch, ZenonT(30)
    <2>5. ~ \E n \in DOMAIN Script[a].props : In(PropertyChange(n, props[n]), queue)
      BY <1>5, <2>1, <2>2, SatisfiedMatch, ZenonT(30)
    <2> QED
      BY <1>4, <1>6, <1>7, <2>3, <2>4, <2>5, ZenonT(30) DEF Covered, ToCome
  <1>11. queue' \in Seq(Events) /\ ~ \E i : i \in 1..Len(queue')
    BY <1>1
  <1>12. Once(actions, executing, queue)'
    <2>1. \A b \in Builtins :
             \A i, j \in 1..Len(actions) : actions[i] = b /\ actions[j] = b => i = j
      BY <1>2, Zenon DEF Sound, Once
    <2> QED
      BY <1>1, <1>4, <1>11, <2>1, ZenonT(30) DEF Once
  <1>13. Sound(actions, executing, queue)'
    <2>1. RcStay(actions)' /\ InTurn(actions)' /\ EnabledFirst(executing, queue)'
      BY <1>1, <1>2, <1>8, <1>9, ZenonT(30) DEF Sound, RcStay, InTurn, EnabledFirst
    <2> QED
      BY <1>1, <1>4, <1>12, <2>1, ZenonT(30) DEF Sound
  <1>14. TypeOK'
    <2>1. /\ props \in [Prop -> Value \cup {""}] /\ cmd \in Nat
          /\ actions \in Seq(DOMAIN Script) /\ executing \in Seq(DOMAIN Script)
          /\ enabled \in BOOLEAN /\ shutting \in BOOLEAN /\ down \in BOOLEAN
      BY <1>2, ZenonT(30) DEF TypeOK
    <2> QED
      BY <1>1, <1>11, <2>1, ZenonT(30) DEF TypeOK
  <1>15. CommandOf(executing)' /\ ~down' /\ ShutdownOrder(executing, queue)'
    BY <1>1, <1>2, <1>9 DEF CommandOf, ShutdownOrder
  <1> QED
    BY <1>10, <1>13, <1>14, <1>15, ZenonT(30) DEF QueueInv

\* A client sets a property between two turns.
LEMMA StepClient ==
  ASSUME QueueInv, ClientSet PROVE QueueInv'
  <1>1. PICK nv \in ClientSets : PropertySet(nv[1], nv[2], queue, served)
    BY DEF ClientSet
  <1> DEFINE n == nv[1]
             v == nv[2]
  <1>2. n \in Prop /\ v \in Value
    BY QueueAssumption, Zenon
  <1>3. /\ ~down /\ pc' = "shutdown" /\ actions' = actions /\ executing' = executing
        /\ cmd' = cmd /\ enabled' = enabled /\ shutting' = shutting /\ down' = down
    BY DEF ClientSet
  <1> HIDE DEF n, v
  <1>4. PropertySet(n, v, queue, served)
    BY <1>1 DEF n, v
  <1>5. /\ props \in [Prop -> Value \cup {""}] /\ cmd \in Nat /\ queue \in Seq(Events)
        /\ actions \in Seq(DOMAIN Script) /\ executing \in Seq(DOMAIN Script)
        /\ enabled \in BOOLEAN /\ shutting \in BOOLEAN /\ down \in BOOLEAN
    BY Zenon DEF QueueInv, TypeOK
  <1>6. /\ Sound(actions, executing, queue) /\ EnabledFirst(executing, queue)
        /\ NoneMissed(served, executing, queue) /\ ShutdownOrder(executing, queue)
        /\ CommandOf(executing)
    BY <1>3, Zenon DEF QueueInv, Sound
  <1>7. NoneMissed(served, executing, queue)'
    BY <1>2, <1>3, <1>4, <1>5, <1>6, SetMissesNone, ZenonT(30)
  <1>8. PropertyChange(n, v) \in EventTriggers \cup PropertyChanges
    BY <1>2, EventFacts, ZenonT(30)
  <1>9. Onward(queue, PropertyChange(n, v))
    BY <1>4 DEF PropertySet, QueueAfter, Onward
  <1>10. queue' \in Seq(Events) /\ Sound(actions, executing, queue)'
    BY <1>3, <1>5, <1>6, <1>8, <1>9, OnwardSound, ZenonT(30)
  <1>11. executing' \in Seq(DOMAIN Script)
    BY <1>3, <1>5, Zenon
  <1>12. ShutdownOrder(executing, queue)'
    BY <1>3, <1>5, <1>6, <1>8, <1>9, <1>11, OnwardShutdown, ZenonT(30)
  <1>13. props' \in [Prop -> Value \cup {""}]
    BY <1>2, <1>4, <1>5, Zenon DEF PropertySet
  <1>14. TypeOK'
    BY <1>3, <1>5, <1>10, <1>13, ZenonT(30) DEF TypeOK
  <1>15. CommandOf(executing)' /\ ~down'
    BY <1>3, <1>6 DEF CommandOf
  <1> QED
    BY <1>7, <1>10, <1>12, <1>14, <1>15, ZenonT(30) DEF QueueInv

\* Steps that change neither the queue, nor the actions, nor a property.
LEMMA StepFrame ==
  ASSUME QueueInv,
         UNCHANGED <<props, actions, queue, executing, cmd, enabled, shutting, down, served>>,
         pc' = pc \/ (~down /\ pc' \in {"shutdown", "execute", "poll"})
  PROVE  QueueInv'
  <1>1. TypeOK'
    BY ZenonT(30) DEF QueueInv, TypeOK
  <1>2. CommandOf(executing)' /\ RcStay(actions)' /\ InTurn(actions)'
    BY SMTT(30) DEF QueueInv, Sound, CommandOf, RcStay, InTurn
  <1>3. Once(actions, executing, queue)'
    BY SMTT(30) DEF QueueInv, Sound, Once
  <1>4. EnabledFirst(executing, queue)'
    BY ZenonT(30) DEF QueueInv, Sound, EnabledFirst
  <1>5. NoneMissed(served, executing, queue)'
    BY ZenonT(30) DEF QueueInv, NoneMissed, Covered, ToCome, PropertyActions, Satisfied
  <1>6. ~down' => ShutdownOrder(executing, queue)'
    BY SMTT(30) DEF QueueInv, ShutdownOrder
  <1>7. \A a \in DOMAIN Script : In(a, executing') => In(a, actions')
    BY DEF QueueInv, Sound
  <1>8. down' => shutting' /\ pc' = "poll" /\ executing' = <<>>
    BY DEF QueueInv
  <1> QED
    BY <1>1, <1>2, <1>3, <1>4, <1>5, <1>6, <1>7, <1>8, ZenonT(30) DEF QueueInv, Sound

\* The actions that are such steps.
LEMMA FrameActions ==
  ASSUME QueueInv,
         \/ NoShutdown \/ InvalidPowerctl \/ Timeout \/ ExecReaped
         \/ (ExecuteNothing /\ Blocked) \/ UNCHANGED vars
  PROVE  QueueInv'
  <1>0. pc = "poll" \/ ~down
    BY SMTT(30) DEF QueueInv
  <1>1. CASE NoShutdown
    BY <1>0, <1>1, StepFrame, ZenonT(30) DEF NoShutdown, amVars
  <1>2. CASE InvalidPowerctl
    BY <1>0, <1>2, StepFrame, ZenonT(30) DEF InvalidPowerctl, amVars
  <1>3. CASE Timeout
    BY <1>3, StepFrame, SMTT(30) DEF Timeout, amVars
  <1>4. CASE ExecReaped
    BY <1>4, StepFrame, SMTT(30) DEF ExecReaped, amVars
  <1>5. CASE ExecuteNothing /\ Blocked
    BY <1>0, <1>5, StepFrame, SMTT(30) DEF ExecuteNothing
  <1>6. CASE UNCHANGED vars
    BY <1>6, StepFrame, SMTT(30) DEF vars, amVars
  <1> QED
    BY <1>1, <1>2, <1>3, <1>4, <1>5, <1>6, SMTT(30)

\* main() starts with the invariant.
LEMMA QueueInit ==
  ASSUME Init PROVE QueueInv
  <1> DEFINE b == "queue_property_triggers"
             A == BuiltinAction(b)
  <1>1. /\ pc = "shutdown" /\ props = [n \in Prop |-> ""] /\ executing = <<>> /\ cmd = 0
        /\ actions = Append(RcActions, b) /\ queue = Append(BootQueue, A)
        /\ enabled = FALSE /\ shutting = FALSE /\ down = FALSE /\ served = {}
    BY Zenon DEF Init
  <1>2. /\ b \in Builtins /\ b \in DOMAIN Script
        /\ b # "enable_property_trigger" /\ b # "shutdown_done"
        /\ "enable_property_trigger" \in Builtins /\ "shutdown_done" \in Builtins
    BY ActionFacts, SMTT(30) DEF Builtins
  <1>3. /\ RcActions \in Seq(DOMAIN Script \ Builtins) /\ BootQueue \in Seq(EventTriggers)
        /\ DOMAIN Script = Range(RcActions) \cup Builtins
    BY QueueAssumption, Zenon
  <1>4. RcActions \in Seq(DOMAIN Script) /\ BootQueue \in Seq(Events)
    <2>1. DOMAIN Script \ Builtins \subseteq DOMAIN Script
      OBVIOUS
    <2>2. EventTriggers \subseteq Events
      BY DEF Events
    <2> QED
      BY <1>3, <2>1, <2>2
  <1>5. A \in Events /\ \A c \in Builtins : A = BuiltinAction(c) => c = b
    BY <1>2, EventFacts, Zenon DEF Events
  <1>6. \A c \in Builtins : ~In(c, RcActions) /\ ~In(BuiltinAction(c), BootQueue)
    <2>1. \A i \in 1..Len(RcActions) : RcActions[i] \in DOMAIN Script \ Builtins
      BY <1>3
    <2>2. \A i \in 1..Len(BootQueue) : BootQueue[i] \in EventTriggers \cup PropertyChanges
      BY <1>3
    <2>3. \A c \in Builtins : ~In(c, RcActions)
      BY <2>1, Zenon DEF In
    <2>4. \A c \in Builtins : ~In(BuiltinAction(c), BootQueue)
      BY <2>2, EventFacts, Zenon DEF In
    <2> QED
      BY <2>3, <2>4
  <1>7. \A a \in DOMAIN Script \ Builtins : In(a, RcActions)
    <2>1. DOMAIN RcActions = 1..Len(RcActions)
      BY <1>4, SMTT(30)
    <2>2. \A a \in Range(RcActions) : In(a, RcActions)
      BY <2>1, SMTT(30) DEF Range, In
    <2> QED
      BY <1>3, <2>2, ZenonT(30)
  <1> HIDE DEF b, A
  <1>8. /\ actions \in Seq(DOMAIN Script)
        /\ \A i \in 1..Len(RcActions) : actions[i] = RcActions[i]
        /\ \A i \in 1..Len(actions) : i \in 1..Len(RcActions) \/ i = Len(RcActions) + 1
        /\ \A x : In(x, actions) <=> In(x, RcActions) \/ x = b
    <2> DEFINE t == Append(RcActions, b)
    <2>1. /\ t \in Seq(DOMAIN Script)
          /\ \A i \in 1..Len(RcActions) : t[i] = RcActions[i]
          /\ \A i \in 1..Len(t) : i \in 1..Len(RcActions) \/ i = Len(RcActions) + 1
          /\ \A x : In(x, t) <=> In(x, RcActions) \/ x = b
      BY <1>2, <1>4, AppendIn, SMTT(30)
    <2>2. actions = t
      BY <1>1, ZenonT(30)
    <2> HIDE DEF t
    <2> QED
      BY <2>1, <2>2, SMTT(30)
  <1>9. /\ queue \in Seq(Events)
        /\ \A i \in 1..Len(BootQueue) : queue[i] = BootQueue[i]
        /\ \A i \in 1..Len(queue) : i \in 1..Len(BootQueue) \/ i = Len(BootQueue) + 1
        /\ \A x : In(x, queue) <=> In(x, BootQueue) \/ x = A
    <2> DEFINE t == Append(BootQueue, A)
    <2>1. /\ t \in Seq(Events)
          /\ \A i \in 1..Len(BootQueue) : t[i] = BootQueue[i]
          /\ \A i \in 1..Len(t) : i \in 1..Len(BootQueue) \/ i = Len(BootQueue) + 1
          /\ \A x : In(x, t) <=> In(x, BootQueue) \/ x = A
      BY <1>4, <1>5, AppendIn, SMTT(30)
    <2>2. queue = t
      BY <1>1, Zenon
    <2> HIDE DEF t
    <2> QED
      BY <2>1, <2>2, SMTT(30)
  <1>10. executing \in Seq(DOMAIN Script) /\ cmd \in Nat /\ \A x : ~In(x, executing)
    <2>1. executing = <<>> /\ cmd = 0
      BY <1>1, ZenonT(30)
    <2> QED
      BY <2>1 DEF In
  <1>11. TypeOK
    <2>1. props \in [Prop -> Value \cup {""}]
      BY <1>1, Zenon
    <2> QED
      BY <1>1, <1>8, <1>9, <1>10, <2>1, ZenonT(30) DEF TypeOK
  <1>12. ASSUME NEW c \in Builtins PROVE
        /\ \A i, j \in 1..Len(actions) : actions[i] = c /\ actions[j] = c => i = j
        /\ \A i, j \in 1..Len(queue) :
               queue[i] = BuiltinAction(c) /\ queue[j] = BuiltinAction(c) => i = j
        /\ In(c, executing) => executing = <<c>> /\ ~In(BuiltinAction(c), queue)
        /\ In(BuiltinAction(c), queue) => In(c, actions)
    <2>1. ASSUME NEW i \in 1..Len(actions), actions[i] = c PROVE i = Len(RcActions) + 1
      BY <1>6, <1>8, <2>1, ZenonT(30) DEF In
    <2>2. ASSUME NEW i \in 1..Len(queue), queue[i] = BuiltinAction(c)
          PROVE  i = Len(BootQueue) + 1
      BY <1>6, <1>9, <2>2, ZenonT(30) DEF In
    <2>3. In(BuiltinAction(c), queue) => In(c, actions)
      BY <1>5, <1>6, <1>8, <1>9, ZenonT(30)
    <2> QED
      BY <1>10, <2>1, <2>2, <2>3, ZenonT(30)
  <1>13. Once(actions, executing, queue)
    BY <1>12, Zenon DEF Once
  <1>14. RcStay(actions)
    BY <1>7, <1>8, Zenon DEF RcStay
  <1>15. InTurn(actions)
    BY <1>2, <1>6, <1>8, ZenonT(30) DEF InTurn
  <1>16. In(BuiltinAction("queue_property_triggers"), queue)
    BY <1>9, Zenon DEF A, b
  <1>17. EnabledFirst(executing, queue) /\ NoneMissed(served, executing, queue)
    BY <1>16, ZenonT(30) DEF EnabledFirst, NoneMissed, Covered, ToCome
  <1>18. CommandOf(executing) /\ ShutdownOrder(executing, queue) /\ ~down
    BY <1>1, Zenon DEF CommandOf, ShutdownOrder
  <1> QED
    BY <1>10, <1>11, <1>13, <1>14, <1>15, <1>17, <1>18, ZenonT(30) DEF QueueInv, Sound

\* The invariant of the main loop and its queue.
THEOREM QueueInvariant == Spec => []QueueInv
  <1>1. Init => QueueInv
    BY QueueInit
  <1>2. QueueInv /\ [Next]_vars => QueueInv'
    <2> SUFFICES ASSUME QueueInv, [Next]_vars PROVE QueueInv'
      OBVIOUS
    <2>1. CASE ExecuteNothing
      BY <2>1, StepNothing, FrameActions
    <2> QED
      BY <2>1, FrameActions, StepPowerctl, StepSetprop, StepTrigger, StepWaits, SMTT(30),
         StepQueueTriggers, StepEnable, StepReboot, StepClient DEF Next, Loop
  <1> QED
    BY <1>1, <1>2, PTL DEF Spec

\* ExecuteOneCommand finds what it expects, whatever the scripts, and however many events
\* are queued: current_command_ indexes a command of the action in front, the pointers to
\* actions are not dangling, and a shutdown executes its own actions only.
THEOREM QueueStaysValid == Spec => []ExecutingValid
  <1>1. QueueInv => ExecutingValid
    <2> SUFFICES ASSUME QueueInv PROVE ExecutingValid
      OBVIOUS
    <2>1. /\ executing \in Seq(DOMAIN Script) /\ actions \in Seq(DOMAIN Script)
          /\ queue \in Seq(Events)
      BY Zenon DEF QueueInv, TypeOK
    <2>2. /\ DOMAIN executing = 1..Len(executing) /\ DOMAIN actions = 1..Len(actions)
          /\ DOMAIN queue = 1..Len(queue)
      BY <2>1
    <2>3. \A i \in 1..Len(executing) : executing[i] \in DOMAIN Script
      BY <2>1, ElementOfSeq, ZenonT(30)
    <2>4. IF executing = <<>> THEN cmd = 0 ELSE cmd < Len(Script[Head(executing)].cmds)
      <3>1. executing # <<>> => Head(executing) = executing[1]
        BY <2>1
      <3> QED
        BY <3>1 DEF QueueInv, CommandOf
    <2>5. \A a : In(a, actions) => a \in Range(actions)
      BY <2>2 DEF In, Range
    <2>6. \A a \in Range(executing) : \E i \in 1..Len(executing) : executing[i] = a
      BY <2>2 DEF Range
    <2>7. \A a \in Range(executing) : In(a, executing) /\ a \in DOMAIN Script
      BY <2>3, <2>6, Zenon DEF In
    <2>8. Range(executing) \subseteq Range(actions)
      BY <2>5, <2>7, ZenonT(30) DEF QueueInv, Sound
    <2>9. ASSUME NEW i \in DOMAIN queue, queue[i].kind = "builtin"
          PROVE  queue[i].name \in Range(actions)
      <3>1. queue[i] \in Events /\ i \in 1..Len(queue)
        BY <2>1, <2>2, ElementOfSeq, ZenonT(30)
      <3>2. queue[i] \in BuiltinActions
        BY <2>9, <3>1, ZenonT(30) DEF Events, EventTriggers, PropertyChanges
      <3>3. queue[i].name \in Builtins /\ queue[i] = BuiltinAction(queue[i].name)
        BY <3>2 DEF BuiltinActions, BuiltinAction
      <3>4. In(BuiltinAction(queue[i].name), queue)
        BY <3>1, <3>3, Zenon DEF In
      <3>5. In(queue[i].name, actions)
        BY <3>3, <3>4, ZenonT(30) DEF QueueInv, Sound, Once
      <3> QED
        BY <2>5, <3>5
    <2>10. ASSUME shutting, NEW a \in Range(executing)
           PROVE  Script[a].event \in {"shutdown", "shutdown_done"}
      <3>1. PICK i \in 1..Len(executing) : executing[i] = a
        BY <2>6
      <3>2. ~down /\ executing # <<>>
        BY <2>1, <3>1, SMTT(30) DEF QueueInv
      <3>3. \/ \A j \in 1..Len(executing) : Script[executing[j]].event = "shutdown"
            \/ executing = <<"shutdown_done">>
        BY <2>10, <3>2, SMTT(30) DEF QueueInv, ShutdownOrder
      <3>4. CASE executing = <<"shutdown_done">>
        <4>1. a = "shutdown_done"
          BY <3>1, <3>4
        <4>2. "shutdown_done" \in Builtins
          BY SMTT(30) DEF Builtins
        <4>3. Script["shutdown_done"].event = "shutdown_done"
          BY <4>2, ActionFacts, SMTT(30) DEF BuiltinRecord
        <4> QED
          BY <4>1, <4>3
      <3> QED
        BY <3>1, <3>3, <3>4, SMTT(30)
    <2> QED
      BY <2>4, <2>8, <2>9, <2>10, SMTT(30) DEF ExecutingValid
  <1> QED
    BY <1>1, QueueInvariant, PTL

\* No property trigger is missed, whatever the scripts, and whenever clients and commands
\* set properties, before triggers are enabled and after.
THEOREM TriggersAreNotMissed == Spec => []NoMissedTrigger
  <1>1. QueueInv => NoMissedTrigger
    <2> SUFFICES ASSUME QueueInv, NEW a \in PropertyActions, Satisfied(a, props), ~shutting
                 PROVE  \/ a \in served \/ AllToCome
                        \/ \E n \in DOMAIN Script[a].props :
                               PropertyChange(n, props[n]) \in Range(queue)
      BY DEF NoMissedTrigger
    <2>1. executing \in Seq(DOMAIN Script) /\ queue \in Seq(Events)
      BY Zenon DEF QueueInv, TypeOK
    <2>2. DOMAIN executing = 1..Len(executing) /\ DOMAIN queue = 1..Len(queue)
      BY <2>1, SMTT(30)
    <2>3. \A x : /\ In(x, queue) => x \in Range(queue)
                 /\ In(x, executing) => x \in Range(executing)
      BY <2>2, SMTT(30) DEF In, Range
    <2>4. Covered(a, served, executing, queue)
      BY DEF QueueInv, NoneMissed
    <2> QED
      BY <2>3, <2>4, ZenonT(30) DEF Covered, ToCome, AllToCome
  <1> QED
    BY <1>1, QueueInvariant, PTL

=============================================================================
