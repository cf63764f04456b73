--------------------------- MODULE CriticalService ---------------------------
(***************************************************************************)
(* The crash limit of a critical service: Service::Reap (init/service.cpp) *)
(* counts its exits and makes init abort, which reboots into recovery, when*)
(* there are too many in too short a time; the restart timer of the main   *)
(* loop (init.cpp, RestartProcesses) brings the service back in between.   *)
(* Module InitService has the rest of a service's life; this one has the   *)
(* clock.                                                                  *)
(***************************************************************************)
EXTENDS Integers, Sequences

CONSTANTS
    Limit,         \* 4 exits
    Window,        \* 4 minutes
    RestartDelay,  \* 5 seconds
    MaxTime        \* bound: the clock stops here

ASSUME CriticalAssumption ==
    /\ Limit \in Nat \ {0}
    /\ Window \in Nat \ {0}
    /\ RestartDelay \in Nat
    /\ MaxTime \in Nat

VARIABLES
    now,      \* boot_clock::now()
    running,  \* SVC_RUNNING; otherwise the service is SVC_RESTARTING
    started,  \* time_started_
    crashed,  \* time_crashed_
    count,    \* crash_count_
    aborted,    \* init has aborted
    exits     \* history: when the service exited on its own

criticalVars == <<now, running, started, crashed, count, aborted, exits>>

CriticalInit ==
    /\ now = 0
    /\ running = TRUE
    /\ started = 0
    /\ crashed = 0
    /\ count = 0
    /\ aborted = FALSE
    /\ exits = <<>>

Tick ==
    /\ ~aborted
    /\ now < MaxTime
    /\ now' = now + 1
    /\ UNCHANGED <<running, started, crashed, count, aborted, exits>>

CriticalStart ==
    /\ running' = TRUE
    /\ started' = now
    /\ UNCHANGED <<now, crashed, count, aborted, exits>>

Due == now > started + RestartDelay

\* The timer restarts the service
CriticalRestart ==
    /\ ~aborted /\ ~running
    /\ Due
    /\ CriticalStart

\* Somebody else starts it before the timer does
CriticalControlStart ==
    /\ ~aborted /\ ~running
    /\ CriticalStart

\* A manual restart: Reap() does not count it
ReapRestart ==
    /\ ~aborted /\ running
    /\ running' = FALSE
    /\ UNCHANGED <<now, started, crashed, count, aborted, exits>>

\* Mutant: the comparison is the wrong way round.
MutAfterWindow == now > crashed + Window
InWindow == now < crashed + Window

TooMany(n) == n > Limit

\* An exit within the window of the first one counted; the count may be too high
ReapInWindow ==
    /\ ~aborted /\ running
    /\ InWindow
    /\ count' = count + 1
    /\ aborted' = TooMany(count')
    /\ running' = FALSE
    /\ exits' = Append(exits, now)
    /\ UNCHANGED <<now, started, crashed>>

\* An exit after it begins a new window
ReapNewWindow ==
    /\ ~aborted /\ running
    /\ ~InWindow
    /\ crashed' = now
    /\ count' = 1
    /\ running' = FALSE
    /\ exits' = Append(exits, now)
    /\ UNCHANGED <<now, started, aborted>>

CriticalNext ==
    \/ Tick \/ CriticalRestart \/ CriticalControlStart
    \/ ReapRestart \/ ReapInWindow \/ ReapNewWindow

CriticalSpec == CriticalInit /\ [][CriticalNext]_criticalVars

-----------------------------------------------------------------------------
(* Properties                                                               *)

\* Type invariant.
CriticalTypeOK ==
    /\ now \in Nat /\ started \in Nat /\ crashed \in Nat /\ count \in 0..(Limit + 1)
    /\ running \in BOOLEAN /\ aborted \in BOOLEAN
    /\ exits \in Seq(Nat)

\* The device is not rebooted without cause: when init aborts, the last Limit + 1
\* exits lie within Window.
NoFalseAlarm ==
    aborted => Len(exits) > Limit /\ exits[Len(exits) - Limit] + Window > exits[Len(exits)]

\* README.md says of a critical service that "If it exits more than four times in four
\* minutes, the device will reboot into recovery mode."  What Reap() does promise: of
\* exits that lie within Window, number 2 * Limit + 1 at the latest does.  The windows
\* do not slide, so Limit exits of one and Limit of the one before can pass (Limit - 1
\* unless that one began with the boot).
TwiceLimitHolds ==
    Len(exits) > 2 * Limit /\ exits[Len(exits) - 2 * Limit] + Window > exits[Len(exits)] => aborted

-----------------------------------------------------------------------------
(* The inductive invariant                                                  *)

\* The last count exits are those of the current window, which began with the first
\* of them (or with the boot); an exit more than Limit places before that is at least
\* a whole window older.
CriticalInv ==
    /\ CriticalTypeOK
    /\ \A i \in DOMAIN exits : exits[i] <= now
    /\ \A i, j \in DOMAIN exits : i <= j => exits[i] <= exits[j]
    /\ count <= Len(exits)
    /\ crashed <= now
    /\ ~aborted => count <= Limit
    /\ aborted => count = Limit + 1 /\ exits[Len(exits)] < crashed + Window
    /\ \A i \in DOMAIN exits : i > Len(exits) - count => exits[i] >= crashed
    /\ count < Len(exits) => exits[Len(exits) - count + 1] = crashed /\ count > 0
    /\ \A i \in DOMAIN exits : i <= Len(exits) - count - Limit => exits[i] + Window <= crashed
=============================================================================
