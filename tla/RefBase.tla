------------------------------- MODULE RefBase -------------------------------
(***************************************************************************)
(* Reference counting of one RefBase object (libutils/RefBase.cpp): the    *)
(* counts mStrong and mWeak, the object, and the weakref_impl that outlives*)
(* it, under any interleaving of the atomic operations of any number of    *)
(* threads.                                                                *)
(*                                                                         *)
(* The actors are the references, the sp<> and wp<> of the clients: each   *)
(* is acquired from the raw pointer new returned or from a reference that  *)
(* is held meanwhile, and released once.  Operations on different          *)
(* references interleave at every atomic access; which thread executes     *)
(* them does not matter to the algorithm.  compare_exchange_weak may fail  *)
(* spuriously, which changes nothing.  Memory is sequentially consistent;  *)
(* the release and acquire orders of the decrements are left out.          *)
(***************************************************************************)
EXTENDS Naturals, FiniteSets

CONSTANTS
    Ref,       \* the references clients may hold at a time
    Raw,       \* the pointer new returned
    None,
    Initial    \* INITIAL_STRONG_VALUE, larger than any count

ASSUME RefAssumption ==
    /\ IsFiniteSet(Ref)
    /\ Raw \notin Ref /\ None \notin Ref /\ Raw # None
    /\ Initial \in Nat /\ Initial > Cardinality(Ref)

VARIABLES
    mStrong, mWeak,
    object,   \* "alive" or "dead"
    impl,     \* the weakref_impl: "alive" or "freed"
    raw,      \* the raw pointer is still somebody's only handle
    pc,       \* what each reference is about to do, see PC
    src,      \* what an operation in progress works from: Raw, a reference or None
    cur,      \* its curCount
    fixed,    \* history: INITIAL_STRONG_VALUE has been subtracted
    mFlags,   \* "STRONG", or "WEAK" for OBJECT_LIFETIME_WEAK, set by the constructor
    raced     \* history: the raw pointer was used while LastWeakPending

vars == <<mStrong, mWeak, object, impl, raw, pc, src, cur, fixed, mFlags, raced>>

\* strong and weak are references at rest
PC == {"none", "strong", "weak",
       "inc", "force", "sub", "first",                \* incStrong, forceIncStrong
       "load", "cas", "casInitial", "agreed", "fix",  \* attemptIncStrong
       "loadWeak", "casWeak",                         \* attemptIncWeak
       "last", "decWeak", "lastWeak"}                 \* decStrong, decWeak

Init ==
    /\ mStrong = Initial
    /\ mWeak = 0
    /\ object = "alive"
    /\ impl = "alive"
    /\ raw = TRUE
    /\ pc = [r \in Ref |-> "none"]
    /\ src = [r \in Ref |-> None]
    /\ cur = [r \in Ref |-> 0]
    /\ fixed = FALSE
    /\ mFlags \in {"STRONG", "WEAK"}  \* extendObjectLifetime
    /\ raced = FALSE

Used(s) == \E r \in Ref : src[r] = s

\* The creator may use its raw pointer
RawUsable == raw /\ ~Used(Raw)

\* decWeak has given up the last weak reference and not yet looked at mStrong
LastWeakPending == \E r \in Ref : pc[r] = "lastWeak"

\* An operation begins from s
From(s) == raced' = (raced \/ (s = Raw /\ LastWeakPending))

\* Sources an operation may start from
Strong(s) == IF s = Raw THEN RawUsable ELSE pc[s] = "strong"
Held(s) == IF s = Raw THEN RawUsable ELSE pc[s] \in {"strong", "weak"}

\* An operation of r is complete; the raw pointer has become a reference
Complete(r, how) ==
    /\ pc' = [pc EXCEPT ![r] = how]
    /\ src' = [src EXCEPT ![r] = None]
    /\ cur' = [cur EXCEPT ![r] = 0]
    /\ raw' = (raw /\ src[r] # Raw)

Goto(r, how) == pc' = [pc EXCEPT ![r] = how] /\ UNCHANGED <<src, cur, raw>>

\* The incWeak every operation begins with
Begin(r, s, how) ==
    /\ pc[r] = "none"
    /\ mWeak' = mWeak + 1
    /\ pc' = [pc EXCEPT ![r] = how]
    /\ src' = [src EXCEPT ![r] = s]
    /\ From(s)
    /\ UNCHANGED <<mStrong, object, impl, raw, cur, fixed, mFlags>>

-----------------------------------------------------------------------------
(* incStrong and forceIncStrong                                             *)

incStrong(r, s) == Strong(s) /\ Begin(r, s, "inc")

\* Clients with extended lifetime may force a strong reference from a weak one
forceIncStrong(r, s) ==
    /\ Strong(s) \/ (mFlags = "WEAK" /\ Held(s))
    /\ Begin(r, s, "force")

\* What fetch_add of mStrong leads to
Incremented(r) ==
    CASE mStrong = Initial               -> "sub"
      [] mStrong = 0 /\ pc[r] = "force"  -> "first"
      [] OTHER                           -> "strong"

IncStrongAdd(r) ==
    /\ pc[r] \in {"inc", "force"}
    /\ mStrong' = mStrong + 1
    /\ IF Incremented(r) = "strong" THEN Complete(r, "strong") ELSE Goto(r, Incremented(r))
    /\ UNCHANGED <<mWeak, object, impl, fixed, mFlags, raced>>

IncStrongSub(r) ==
    /\ pc[r] = "sub"
    /\ mStrong' = mStrong - Initial
    /\ fixed' = TRUE
    /\ Goto(r, "first")
    /\ UNCHANGED <<mWeak, object, impl, mFlags, raced>>

OnFirstRef(r) ==
    /\ pc[r] = "first"
    /\ Complete(r, "strong")
    /\ UNCHANGED <<mStrong, mWeak, object, impl, fixed, mFlags, raced>>

-----------------------------------------------------------------------------
(* Weak references                                                          *)

\* incWeak, createWeak: one atomic operation.  With an extended lifetime the creator
\* keeps to references from then on, the last of which deletes the object
incWeak(r, s) ==
    /\ pc[r] = "none"
    /\ Held(s)
    /\ mWeak' = mWeak + 1
    /\ pc' = [pc EXCEPT ![r] = "weak"]
    /\ raw' = (raw /\ (s # Raw \/ mFlags = "STRONG"))
    /\ From(s)
    /\ UNCHANGED <<mStrong, object, impl, src, cur, fixed, mFlags>>

\* The creator keeps only weak references
DropRaw ==
    /\ RawUsable
    /\ \E r \in Ref : pc[r] = "weak"
    /\ raw' = FALSE
    /\ UNCHANGED <<mStrong, mWeak, object, impl, pc, src, cur, fixed, mFlags, raced>>

\* From a reference that is held, so that the count cannot be found zero
attemptIncWeak(r, s) ==
    /\ pc[r] = "none"
    /\ s # Raw /\ Held(s)
    /\ pc' = [pc EXCEPT ![r] = "loadWeak"]
    /\ src' = [src EXCEPT ![r] = s]
    /\ UNCHANGED <<mStrong, mWeak, object, impl, raw, cur, fixed, mFlags, raced>>

LoadWeak(r) ==
    /\ pc[r] = "loadWeak"
    /\ cur' = [cur EXCEPT ![r] = mWeak]
    /\ pc' = [pc EXCEPT ![r] = "casWeak"]
    /\ UNCHANGED <<mStrong, mWeak, object, impl, raw, src, fixed, mFlags, raced>>

CasWeak(r) ==
    /\ pc[r] = "casWeak"
    /\ cur[r] > 0
    /\ IF mWeak = cur[r]
       THEN mWeak' = mWeak + 1 /\ Complete(r, "weak")
       ELSE /\ cur' = [cur EXCEPT ![r] = mWeak]
            /\ UNCHANGED <<mWeak, pc, src, raw>>
    /\ UNCHANGED <<mStrong, object, impl, fixed, mFlags, raced>>

-----------------------------------------------------------------------------
(* attemptIncStrong                                                         *)

\* Not while the creator still uses its raw pointer, which the last release of a
\* strong reference would leave dangling
attemptIncStrong(r, s) == ~raw /\ Held(s) /\ Begin(r, s, "load")

LoadStrong(r) ==
    /\ pc[r] = "load"
    /\ cur' = [cur EXCEPT ![r] = mStrong]
    /\ pc' = [pc EXCEPT ![r] = "cas"]
    /\ UNCHANGED <<mStrong, mWeak, object, impl, raw, src, fixed, mFlags, raced>>

\* compare_exchange_weak(curCount, curCount + 1), then on to how
Cas(r, how) ==
    /\ IF mStrong = cur[r]
       THEN /\ mStrong' = mStrong + 1
            /\ IF how = "strong" THEN Complete(r, how) ELSE Goto(r, how)
       ELSE /\ cur' = [cur EXCEPT ![r] = mStrong]
            /\ UNCHANGED <<mStrong, pc, src, raw>>
    /\ UNCHANGED <<mWeak, object, impl, fixed, mFlags, raced>>

\* The common case
CasStrong(r) ==
    /\ pc[r] = "cas"
    /\ cur[r] > 0 /\ cur[r] # Initial
    /\ Cas(r, "strong")

\* Regular lifetime: there never was a strong reference
NeverStrong(r) ==
    /\ pc[r] = "cas"
    /\ cur[r] = Initial /\ mFlags = "STRONG"
    /\ Goto(r, "casInitial")
    /\ UNCHANGED <<mStrong, mWeak, object, impl, fixed, mFlags, raced>>

\* The initial value is subtracted by the one who replaced it
Found(r) == IF cur[r] = Initial THEN "fix" ELSE "strong"

CasInitial(r) ==
    /\ pc[r] = "casInitial"
    /\ cur[r] > 0
    /\ Cas(r, Found(r))

\* Regular lifetime: the last strong reference is gone
AttemptFails(r) ==
    /\ pc[r] \in {"cas", "casInitial"}
    /\ cur[r] = 0 /\ mFlags = "STRONG"
    /\ Complete(r, "decWeak")
    /\ UNCHANGED <<mStrong, mWeak, object, impl, fixed, mFlags, raced>>

\* Extended lifetime: onIncStrongAttempted may agree or not
IncStrongAttempted(r) ==
    /\ pc[r] = "cas"
    /\ cur[r] \in {0, Initial} /\ mFlags = "WEAK"
    /\ Goto(r, "agreed") \/ Complete(r, "decWeak")
    /\ UNCHANGED <<mStrong, mWeak, object, impl, fixed, mFlags, raced>>

\* When somebody else was faster, onLastStrongRef takes back what
\* onIncStrongAttempted prepared
Revive(r) ==
    /\ pc[r] = "agreed"
    /\ mStrong' = mStrong + 1
    /\ IF mStrong = Initial THEN Goto(r, "fix") ELSE Complete(r, "strong")
    /\ UNCHANGED <<mWeak, object, impl, fixed, mFlags, raced>>

Fix(r) ==
    /\ pc[r] = "fix"
    /\ mStrong' = mStrong - Initial
    /\ fixed' = TRUE
    /\ Complete(r, "strong")
    /\ UNCHANGED <<mWeak, object, impl, mFlags, raced>>

-----------------------------------------------------------------------------
(* Releasing                                                                *)

decStrong(r) ==
    /\ pc[r] = "strong"
    /\ ~Used(r)
    /\ mStrong' = mStrong - 1
    /\ Goto(r, IF mStrong = 1 THEN "last" ELSE "decWeak")
    /\ UNCHANGED <<mWeak, object, impl, fixed, mFlags, raced>>

\* The object after the last strong reference, and after the last weak one
WithStrong == IF mFlags = "STRONG" THEN "dead" ELSE object
WithWeak == IF mFlags = "WEAK" THEN "dead" ELSE object

\* onLastStrongRef, and the object is deleted unless its lifetime is extended
LastStrong(r) ==
    /\ pc[r] = "last"
    /\ object' = WithStrong
    /\ Goto(r, "decWeak")
    /\ UNCHANGED <<mStrong, mWeak, impl, fixed, mFlags, raced>>

\* decWeak, as the end of decStrong or for a weak reference
decWeak(r) ==
    /\ pc[r] = "decWeak" \/ (pc[r] = "weak" /\ ~Used(r))
    /\ mWeak' = mWeak - 1
    /\ Goto(r, IF mWeak = 1 THEN "lastWeak" ELSE "none")
    /\ UNCHANGED <<mStrong, object, impl, fixed, mFlags, raced>>

\* Mutant: the weakref_impl is freed although there may be a strong reference yet.
MutFreed == "freed"
\* An object that never had a strong reference may still get one
Freed == IF mFlags = "STRONG" /\ mStrong = Initial THEN impl ELSE "freed"

LastWeak(r) ==
    /\ pc[r] = "lastWeak"
    /\ impl' = Freed
    /\ object' = WithWeak
    /\ Goto(r, "none")
    /\ UNCHANGED <<mStrong, mWeak, fixed, mFlags, raced>>

\* ~RefBase by whoever has the raw pointer, with no reference around
DeleteRaw ==
    /\ RawUsable
    /\ \A r \in Ref : pc[r] = "none"
    /\ object' = "dead"
    /\ impl' = "freed"
    /\ raw' = FALSE
    /\ UNCHANGED <<mStrong, mWeak, pc, src, cur, fixed, mFlags, raced>>

-----------------------------------------------------------------------------
\* sp(T*), sp(const sp&), force_set
MakeStrong(r) == \E s \in Ref \cup {Raw} : incStrong(r, s) \/ forceIncStrong(r, s)
\* wp(T*), wp(const wp&), wp(const sp&)
MakeWeak(r) == \E s \in Ref \cup {Raw} : incWeak(r, s) \/ attemptIncWeak(r, s)
promote(r) == \E s \in Ref : attemptIncStrong(r, s)
\* ~sp, ~wp, and the assignments after they took the new value
Release(r) == decStrong(r) \/ decWeak(r)

Step(r) ==
    \/ IncStrongAdd(r) \/ IncStrongSub(r) \/ OnFirstRef(r)
    \/ LoadWeak(r) \/ CasWeak(r)
    \/ LoadStrong(r) \/ CasStrong(r) \/ NeverStrong(r) \/ CasInitial(r) \/ AttemptFails(r)
    \/ IncStrongAttempted(r) \/ Revive(r) \/ Fix(r)
    \/ LastStrong(r) \/ LastWeak(r)

Next ==
    \/ \E r \in Ref : MakeStrong(r) \/ MakeWeak(r) \/ promote(r) \/ Step(r) \/ Release(r)
    \/ DropRaw \/ DeleteRaw

Spec == Init /\ [][Next]_vars

-----------------------------------------------------------------------------
(* Properties                                                               *)

\* Type invariant.
TypeOK ==
    /\ mStrong \in Nat /\ mWeak \in Nat
    /\ object \in {"alive", "dead"} /\ impl \in {"alive", "freed"}
    /\ raw \in BOOLEAN /\ fixed \in BOOLEAN /\ raced \in BOOLEAN /\ mFlags \in {"STRONG", "WEAK"}
    /\ pc \in [Ref -> PC]
    /\ src \in [Ref -> Ref \cup {Raw, None}]
    /\ cur \in [Ref -> Nat]

\* The references whose increment of mStrong, or of mWeak, is not yet undone
StrongCounted == {r \in Ref : pc[r] \in {"strong", "sub", "first", "fix"}}
WeakCounted == {r \in Ref : pc[r] \notin {"none", "lastWeak", "loadWeak", "casWeak"}}

\* Nothing is used after it is freed, and nothing is freed twice: the object exists
\* while a strong reference or the raw pointer does and whenever one of its callbacks
\* or its destructor is about to be called; the weakref_impl exists while any
\* reference does and through the last access of every operation.
Safe ==
    /\ \A r \in Ref : pc[r] # "none" => impl = "alive"
    /\ \A r \in StrongCounted : object = "alive"
    /\ \A r \in Ref : pc[r] \in {"inc", "force", "last"} => object = "alive"
    /\ mFlags = "WEAK" /\ (\E r \in Ref : pc[r] # "none") => object = "alive"
    /\ raw => object = "alive" /\ impl = "alive"

\* The counts keep all clients Safe but for one race.  RefBase.h says that a weak pointer
\* made in the constructor "usually works correctly": it does, also from other threads,
\* unless the raw pointer is used between the moment decWeak drops the last weak reference
\* and its look at mStrong.  decWeak may then find the count of a strong reference that
\* has come meanwhile, and frees the weakref_impl under it.
NoUseAfterFree == ~raced => Safe

\* The counts are exact between any two atomic operations, INITIAL_STRONG_VALUE is
\* subtracted once, by the one who found it: "mWeak includes strong references".
CountsExact ==
    /\ mStrong = (IF fixed THEN 0 ELSE Initial) + Cardinality(StrongCounted)
    /\ mWeak = Cardinality(WeakCounted)
    /\ fixed => \A r \in Ref : pc[r] \notin {"sub", "fix"}
    /\ ~fixed /\ StrongCounted # {} => \E r \in Ref : pc[r] \in {"sub", "fix"}

\* Nothing leaks: when no reference is left of an object that had a strong one, the
\* object is destroyed and its weakref_impl freed.
NoLeak ==
    ~raw /\ fixed /\ (\A r \in Ref : pc[r] = "none") => object = "dead" /\ impl = "freed"

\* "AttemptIncStrong will succeed if the object has a strong reference, or if it has a
\* weak reference and has never had a strong reference": it gives up only when the
\* strong count is zero, for good.
FailsOnlyWhenGone ==
    \A r \in Ref : mFlags = "STRONG" /\ pc[r] \in {"cas", "casInitial"} /\ cur[r] = 0
                      => mStrong = 0

\* The inductive invariant behind the above, as long as nothing has raced.

\* An operation works from a reference that stays held, a strong one for incStrong,
\* or from the raw pointer, one at a time
Working == {"inc", "force", "sub", "first", "load", "cas", "casInitial", "agreed", "fix",
            "loadWeak", "casWeak"}
SrcOK ==
    \A r \in Ref :
        /\ src[r] # None <=> pc[r] \in Working
        /\ src[r] \in Ref => pc[src[r]] \in {"strong", "weak"}
        /\ src[r] \in Ref /\ (pc[r] = "inc" \/ (pc[r] = "force" /\ mFlags = "STRONG"))
              => pc[src[r]] = "strong"
        /\ src[r] = Raw => raw /\ pc[r] \in {"inc", "force", "sub", "first"}
        /\ \A q \in Ref : src[r] = Raw /\ src[q] = Raw => r = q

\* While the raw pointer is in use there are weak references at most, none with an
\* extended lifetime, besides the strong one that is being made from it
RawOK ==
    raw => /\ object = "alive"
           /\ \A r \in Ref :
                 \/ src[r] = Raw
                 \/ pc[r] = "none"
                 \/ mFlags = "STRONG" /\ pc[r] \in {"weak", "loadWeak", "casWeak", "lastWeak"}
           /\ fixed => \E r \in Ref : src[r] = Raw /\ pc[r] = "first"

\* The initial value is being subtracted by one reference only, a last strong reference
\* is alone with a regular lifetime, and a last weak one is alone
Alone ==
    \A r \in Ref :
        /\ pc[r] = "last" => fixed
        /\ pc[r] = "agreed" => mFlags = "WEAK"
        /\ \A q \in Ref \ {r} :
              /\ pc[r] \in {"sub", "fix"} => pc[q] \notin {"sub", "fix"}
              /\ pc[r] = "lastWeak" => pc[q] = "none"
              /\ pc[r] = "last" /\ mFlags = "STRONG"
                    => pc[q] # "last" /\ q \notin StrongCounted

\* What a deleted object or weakref_impl rules out
Gone ==
    /\ object = "dead" => \/ \A r \in Ref : pc[r] = "none"
                          \/ /\ mFlags = "STRONG" /\ fixed
                             /\ \A r \in Ref : pc[r] # "last" /\ r \notin StrongCounted
    /\ impl = "freed" => ~raw /\ \A r \in Ref : pc[r] = "none"

\* With a regular lifetime the object goes with the last strong reference
Deleted ==
    mFlags = "STRONG" /\ fixed /\ (\A r \in Ref : pc[r] # "last" /\ r \notin StrongCounted)
        => object = "dead"

IInv ==
    /\ TypeOK /\ CountsExact
    /\ SrcOK /\ RawOK /\ Alone /\ Gone /\ Deleted
    /\ FailsOnlyWhenGone /\ NoLeak

=============================================================================
