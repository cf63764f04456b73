------------------------------ MODULE InitQueue ------------------------------
(***************************************************************************)
(* init's main loop (init/init.cpp) and the action queue it drives         *)
(* (init/action.cpp): events and property changes are queued, matched with *)
(* the actions of the .rc scripts when they are taken off the queue, and   *)
(* executed one command per turn of the loop.  Commands may change         *)
(* properties, queue events, and make the queue wait for a property or for *)
(* an exec service; sys.powerctl overtakes everything.                     *)
(*                                                                         *)
(* One turn of the loop is three steps: look at do_shutdown, execute one   *)
(* command, wait in epoll_wait for at most one callback.  The callbacks    *)
(* are a client setting a property and the end of the exec service (module *)
(* InitService has the services).  The scripts are a constant; commands    *)
(* that touch neither queue, properties nor waiting are left out.          *)
(***************************************************************************)
EXTENDS Naturals, Sequences, Functions

CONSTANTS
    Prop,        \* property names; "sys.powerctl" is one of them
    Value,       \* property values; "" is an unset property
    EventName,   \* names of event triggers
    ClientSets,  \* the (property, value) pairs clients set
    ValidPower,  \* the values of sys.powerctl HandlePowerctlMessage accepts
    Script,      \* the actions, by name, see ActionRecord
    RcActions,   \* names of the parsed actions, in parsing order
    BootQueue,   \* the events main() queues before the loop
    MaxQueue     \* bound: clients pause while the event queue is this long

\* An action has at most one event trigger, property triggers (with "*" for any
\* value), and commands; builtin actions are oneshot
ActionRecord(r) == /\ DOMAIN r = {"event", "props", "cmds", "oneshot"}
                   /\ DOMAIN r.props \subseteq Prop
                   /\ Len(r.cmds) \in Nat \ {0}
                   /\ r.oneshot \in BOOLEAN

\* Builtin actions have the name of their function, which no script can use as a command
Builtins == {"queue_property_triggers", "enable_property_trigger", "shutdown_done"}
BuiltinRecord(b, r) == /\ r.event = b /\ r.oneshot
                       /\ Len(r.cmds) = 1 /\ r.cmds[1].op = b

\* What the scripts may contain
ScriptCommand(c) ==
    \/ c.op = "setprop" /\ c.name \in Prop /\ c.value \in Value
    \/ c.op = "trigger" /\ c.name \in EventName
    \/ c.op \in {"wait_for_prop", "exec"}
RcRecord(r) == ~r.oneshot /\ \A i \in 1..Len(r.cmds) : ScriptCommand(r.cmds[i])

\* The events in the queue
EventTriggers == [kind : {"event"}, name : EventName]
PropertyChanges == [kind : {"prop"}, name : Prop \cup {""}, value : Value \cup {""}]
BuiltinActions == [kind : {"builtin"}, name : Builtins]
Events == EventTriggers \cup PropertyChanges \cup BuiltinActions

ASSUME QueueAssumption ==
    /\ "sys.powerctl" \in Prop /\ "" \notin Prop
    /\ "shutdown" \in EventName
    /\ EventName \cap Builtins = {}   \* no script triggers a builtin action by its name
    /\ ValidPower \subseteq Value
    /\ "" \notin Value
    /\ ClientSets \subseteq Prop \X Value
    /\ \A a \in DOMAIN Script : ActionRecord(Script[a])
    /\ DOMAIN Script = Range(RcActions) \cup Builtins
    /\ RcActions \in Seq(DOMAIN Script \ Builtins)
    /\ \A a \in DOMAIN Script \ Builtins : RcRecord(Script[a])
    /\ \A b \in Builtins : BuiltinRecord(b, Script[b])
    /\ BootQueue \in Seq(EventTriggers)
    /\ MaxQueue \in Nat

VARIABLES
    pc,         \* where the main loop is: "shutdown", "execute" or "poll"
    props,      \* the property area
    actions,    \* ActionManager::actions_
    queue,      \* event_queue_
    executing,  \* current_executing_actions_
    cmd,        \* current_command_
    waiting,    \* wait_prop_name and wait_prop_value, or NotWaiting
    exec,       \* Service::is_exec_service_running_
    enabled,    \* property_triggers_enabled
    power,      \* shutdown_command if do_shutdown is set, otherwise ""
    shutting,   \* shutting_down
    down,       \* DoReboot() was called: it does not return
    served      \* history: property actions taken up since they last became true

amVars == <<actions, queue, executing, cmd>>
vars == <<pc, props, amVars, waiting, exec, enabled, power, shutting, down, served>>

-----------------------------------------------------------------------------
(* Events and triggers                                                      *)

NotWaiting == <<"", "">>
EventTrigger(e) == [kind |-> "event", name |-> e]
PropertyChange(n, v) == [kind |-> "prop", name |-> n, value |-> v]
BuiltinAction(a) == [kind |-> "builtin", name |-> a]

PropMatches(want, v) == v # "" /\ (want = "*" \/ want = v)

\* Every property trigger holds now
Satisfied(a, p) == \A n \in DOMAIN Script[a].props : PropMatches(Script[a].props[n], p[n])

\* With a change (n, v): n must be a trigger and v, the value queued with the
\* change, is looked at in place of the current one
CheckPropertyTriggers(a, n, v) ==
    LET triggers == Script[a].props
    IN  \/ DOMAIN triggers = {}
        \/ /\ n = "" \/ n \in DOMAIN triggers
           /\ \A t \in DOMAIN triggers :
                 IF t = n THEN triggers[t] = "*" \/ triggers[t] = v
                 ELSE PropMatches(triggers[t], props[t])

CheckEvent(a, ev) ==
    CASE ev.kind = "event"   -> Script[a].event = ev.name /\ CheckPropertyTriggers(a, "", "")
      [] ev.kind = "prop"    -> Script[a].event = "" /\ CheckPropertyTriggers(a, ev.name, ev.value)
      [] ev.kind = "builtin" -> a = ev.name

-----------------------------------------------------------------------------
(* Setting a property                                                       *)

PropertyActions == {a \in DOMAIN Script : Script[a].event = ""}

\* Property actions that become true when the properties become p
NowTrue(p) == {a \in PropertyActions : Satisfied(a, p) /\ ~Satisfied(a, props)}

\* property_changed: sys.powerctl sets do_shutdown, the change is queued once
\* triggers are enabled, a wait for this very value ends
PowerAfter(n, v) == IF n = "sys.powerctl" THEN v ELSE power
QueueAfter(q, n, v) == IF enabled THEN Append(q, PropertyChange(n, v)) ELSE q
WaitAfter(n, v) == IF waiting = <<n, v>> THEN NotWaiting ELSE waiting

\* PropertySetImpl, with q the event queue and s the history before it
PropertySet(n, v, q, s) ==
    /\ props' = [props EXCEPT ![n] = v]
    /\ power' = PowerAfter(n, v)
    /\ queue' = QueueAfter(q, n, v)
    /\ waiting' = WaitAfter(n, v)
    /\ served' = s \ NowTrue(props')

-----------------------------------------------------------------------------
(* The loop: the shutdown request                                           *)

Blocked == waiting # NotWaiting \/ exec

\* main(): the boot events and the builtin that turns property triggers on
Init ==
    /\ pc = "shutdown"
    /\ props = [n \in Prop |-> ""]
    /\ actions = Append(RcActions, "queue_property_triggers")
    /\ queue = Append(BootQueue, BuiltinAction("queue_property_triggers"))
    /\ executing = <<>>
    /\ cmd = 0
    /\ waiting = NotWaiting
    /\ exec = FALSE
    /\ enabled = FALSE
    /\ power = ""
    /\ shutting = FALSE
    /\ down = FALSE
    /\ served = {}

\* Nothing to shut down for, or the shutdown is already under way
NoShutdown ==
    /\ pc = "shutdown"
    /\ power = "" \/ shutting
    /\ pc' = "execute"
    /\ UNCHANGED <<props, amVars, waiting, exec, enabled, power, shutting, down, served>>

\* HandlePowerctlMessage rejects the command
InvalidPowerctl ==
    /\ pc = "shutdown"
    /\ power # "" /\ ~shutting /\ power \notin ValidPower
    /\ power' = ""
    /\ pc' = "execute"
    /\ UNCHANGED <<props, amVars, waiting, exec, enabled, shutting, down, served>>

\* Mutant: the position in the interrupted action survives.
MutClearQueue(q) == executing' = <<>> /\ queue' = q /\ UNCHANGED cmd
\* ClearQueue, and the events q queued right after it
ClearQueue(q) == executing' = <<>> /\ queue' = q /\ cmd' = 0

\* Mutant: shutdown goes on waiting for what boot was waiting for.
MutEndWaits == UNCHANGED <<waiting, exec>>
\* ResetWaitForProp and UnSetExec of every service
EndWaits == waiting' = NotWaiting /\ exec' = FALSE

\* HandlePowerctlMessage accepts it: the queue becomes the shutdown trigger and
\* the builtin that calls DoReboot
HandlePowerctlMessage ==
    /\ pc = "shutdown"
    /\ ~shutting /\ power \in ValidPower
    /\ power' = ""
    /\ ClearQueue(<<EventTrigger("shutdown"), BuiltinAction("shutdown_done")>>)
    /\ actions' = Append(actions, "shutdown_done")
    /\ EndWaits
    /\ shutting' = TRUE
    /\ pc' = "execute"
    /\ UNCHANGED <<props, enabled, down, served>>

-----------------------------------------------------------------------------
(* The loop: one command                                                    *)

\* The actions of s that are in S, in their order
Those(s, S) ==
    LET kept[i \in 0..Len(s)] ==
            IF i = 0 THEN <<>>
            ELSE IF s[i] \in S THEN Append(kept[i - 1], s[i]) ELSE kept[i - 1]
    IN  kept[Len(s)]

\* The actions that each event in the queue triggers
Matching == [ev \in Range(queue) |-> Those(actions, {a \in DOMAIN Script : CheckEvent(a, ev)})]

\* The actions to execute and the events left: events are taken off the queue
\* until one of them matches
Fetched ==
    LET first == CHOOSE k \in 0..Len(queue) :
                    /\ k # 0 => Matching[queue[k]] # <<>>
                    /\ \A i \in 1..Len(queue) : i < k \/ k = 0 => Matching[queue[i]] = <<>>
    IN  CASE executing # <<>> -> <<executing, queue>>
          [] executing = <<>> /\ first = 0 -> <<<<>>, <<>>>>
          [] OTHER -> <<Matching[queue[first]], SubSeq(queue, first + 1, Len(queue))>>

NextCommand(a) == IF cmd + 1 = Len(Script[a].cmds) THEN 0 ELSE cmd + 1

\* Past its last command an action leaves the list, and a oneshot one actions_
Advance(run, a, acts) ==
    /\ cmd' = NextCommand(a)
    /\ IF cmd + 1 = Len(Script[a].cmds)
       THEN /\ executing' = Tail(run)
            /\ actions' = IF Script[a].oneshot THEN Those(acts, DOMAIN Script \ {a}) ELSE acts
       ELSE executing' = run /\ actions' = acts

\* Mutant: all properties are looked at before changes are being queued.
MutTriggerEvents == <<PropertyChange("", ""), BuiltinAction("enable_property_trigger")>>
\* What queue_property_triggers_action queues
TriggerEvents == <<BuiltinAction("enable_property_trigger"), PropertyChange("", "")>>

\* What each command does to the rest of the state; q and s are the queue and the
\* history after the fetch
Setprop(c, q, s) ==
    /\ PropertySet(c.name, c.value, q, s)
    /\ UNCHANGED <<exec, enabled, down>>

Trigger(c, q, s) ==
    /\ queue' = Append(q, EventTrigger(c.name))
    /\ served' = s
    /\ UNCHANGED <<props, waiting, exec, enabled, power, down>>

WaitForProp(c, q, s) ==
    /\ waiting' = IF props[c.name] = c.value THEN waiting ELSE <<c.name, c.value>>
    /\ queue' = q
    /\ served' = s
    /\ UNCHANGED <<props, exec, enabled, power, down>>

\* exec: ExecStart may fail, and then nothing is waited for
Exec(c, q, s) ==
    /\ exec' \in BOOLEAN
    /\ queue' = q
    /\ served' = s
    /\ UNCHANGED <<props, waiting, enabled, power, down>>

queue_property_triggers_action(c, q, s) ==
    /\ queue' = q \o TriggerEvents
    /\ served' = s
    /\ UNCHANGED <<props, waiting, exec, enabled, power, down>>

property_enable_triggers_action(c, q, s) ==
    /\ enabled' = TRUE
    /\ queue' = q
    /\ served' = s
    /\ UNCHANGED <<props, waiting, exec, power, down>>

\* DoReboot does not return
shutdown_handler(c, q, s) ==
    /\ down' = TRUE
    /\ queue' = q
    /\ served' = s
    /\ UNCHANGED <<props, waiting, exec, enabled, power>>

Running == Fetched[1]
Command == Script[Head(Running)].cmds[cmd + 1]
ServedNow == IF executing = <<>> THEN served \cup Range(Running) ELSE served

\* ExecuteOneCommand but for the command itself, which is an op and appends added to
\* actions_
ExecuteOneCommand(op, added) ==
    /\ pc = "execute"
    /\ ~Blocked
    /\ Running # <<>>
    /\ Command.op = op
    /\ \E run \in {Running} : Advance(run, Head(run), actions \o added)
    /\ pc' = "poll"
    /\ UNCHANGED shutting

ExecuteSetprop ==
    ExecuteOneCommand("setprop", <<>>) /\ Setprop(Command, Fetched[2], ServedNow)
ExecuteTrigger ==
    ExecuteOneCommand("trigger", <<>>) /\ Trigger(Command, Fetched[2], ServedNow)
ExecuteWaitForProp ==
    ExecuteOneCommand("wait_for_prop", <<>>) /\ WaitForProp(Command, Fetched[2], ServedNow)
ExecuteExec ==
    ExecuteOneCommand("exec", <<>>) /\ Exec(Command, Fetched[2], ServedNow)
ExecuteQueueTriggers ==
    /\ ExecuteOneCommand("queue_property_triggers", <<"enable_property_trigger">>)
    /\ queue_property_triggers_action(Command, Fetched[2], ServedNow)
ExecuteEnable ==
    /\ ExecuteOneCommand("enable_property_trigger", <<>>)
    /\ property_enable_triggers_action(Command, Fetched[2], ServedNow)
ExecuteReboot ==
    ExecuteOneCommand("shutdown_done", <<>>) /\ shutdown_handler(Command, Fetched[2], ServedNow)

\* Nothing to execute; the events that matched no action are gone
ExecuteNothing ==
    /\ pc = "execute"
    /\ Blocked \/ Fetched[1] = <<>>
    /\ queue' = IF Blocked THEN queue ELSE <<>>
    /\ pc' = "poll"
    /\ UNCHANGED <<props, actions, executing, cmd, waiting, exec, enabled, power, shutting,
                   down, served>>

-----------------------------------------------------------------------------
(* The loop: epoll_wait                                                     *)

HasMoreCommands == executing # <<>> \/ queue # <<>>

\* Mutant: the loop sleeps although there are commands.
MutTimeout ==
    /\ pc = "poll" /\ ~down
    /\ ~Blocked /\ executing # <<>>
    /\ pc' = "shutdown"
    /\ UNCHANGED <<props, amVars, waiting, exec, enabled, power, shutting, down, served>>

\* The timeout is 0 when there is more to do
Timeout ==
    /\ pc = "poll" /\ ~down
    /\ ~Blocked /\ HasMoreCommands
    /\ pc' = "shutdown"
    /\ UNCHANGED <<props, amVars, waiting, exec, enabled, power, shutting, down, served>>

\* A client sets a property (handle_property_set_fd)
ClientSet ==
    /\ pc = "poll" /\ ~down
    /\ Len(queue) < MaxQueue
    /\ \E nv \in ClientSets : PropertySet(nv[1], nv[2], queue, served)
    /\ pc' = "shutdown"
    /\ UNCHANGED <<actions, executing, cmd, exec, enabled, shutting, down>>

\* The exec service ends and is reaped
ExecReaped ==
    /\ pc = "poll" /\ ~down
    /\ exec
    /\ exec' = FALSE
    /\ pc' = "shutdown"
    /\ UNCHANGED <<props, amVars, waiting, enabled, power, shutting, down, served>>

Loop ==
    \/ NoShutdown \/ InvalidPowerctl \/ HandlePowerctlMessage
    \/ ExecuteSetprop \/ ExecuteTrigger \/ ExecuteWaitForProp \/ ExecuteExec
    \/ ExecuteQueueTriggers \/ ExecuteEnable \/ ExecuteReboot \/ ExecuteNothing
    \/ Timeout

Next == Loop \/ ClientSet \/ ExecReaped

Spec == Init /\ [][Next]_vars

\* The main loop is a process of its own and an exec service comes to an end;
\* nothing is asked of clients.  ExecReaped competes with ClientSet for the one
\* callback of a turn, and epoll serves ready descriptors in turn
FairSpec == Spec /\ WF_vars(Loop) /\ SF_vars(ExecReaped)

-----------------------------------------------------------------------------
(* Properties                                                               *)

\* ExecuteOneCommand finds what it expects: current_command_, which it uses without a
\* check, indexes a command of the action in front, and is 0 when there is none, though
\* a shutdown may strike between any two commands; and the raw pointers in
\* current_executing_actions_ and in the builtin events point to actions that actions_
\* still owns, though oneshot actions are erased.  Once a shutdown is under way only the
\* actions on the shutdown trigger and the builtin that reboots are executed, whatever
\* was queued before and whatever properties change meanwhile.
ExecutingValid ==
    /\ IF executing = <<>> THEN cmd = 0 ELSE cmd < Len(Script[Head(executing)].cmds)
    /\ Range(executing) \subseteq Range(actions)
    /\ \A i \in DOMAIN queue : queue[i].kind = "builtin" => queue[i].name \in Range(actions)
    /\ shutting => \A a \in Range(executing) : Script[a].event \in {"shutdown", "shutdown_done"}

\* The look at all properties that queue_property_triggers announces is still to come
AllToCome == BuiltinAction("queue_property_triggers") \in Range(queue)
             \/ "queue_property_triggers" \in Range(executing)
             \/ PropertyChange("", "") \in Range(queue)

\* No property trigger is missed: once the conditions of a property action hold, the
\* action has been taken up since they became true, or an event that will take it up
\* is queued: one of its own changes, or boot's look at all properties.  The boot
\* phase depends on triggers being enabled before that look.
NoMissedTrigger ==
    \A a \in PropertyActions :
        Satisfied(a, props) /\ ~shutting =>
            \/ a \in served
            \/ AllToCome
            \/ \E n \in DOMAIN Script[a].props : PropertyChange(n, props[n]) \in Range(queue)

\* A valid powerctl command is accepted, unless it is overwritten by an invalid one before
\* the loop comes to look at it; and once one is accepted, DoReboot is called, whatever
\* the queue held and waited for and whatever is set later.
PowerctlReboots ==
    /\ power \in ValidPower ~> shutting \/ props["sys.powerctl"] \notin ValidPower
    /\ shutting ~> down

\* A property action whose conditions hold is taken up, unless they cease to hold,
\* a shutdown comes in between, or the queue waits for a property.
TriggerRuns ==
    \A a \in PropertyActions :
        Satisfied(a, props) ~> a \in served \/ ~Satisfied(a, props) \/ shutting
                               \/ waiting # NotWaiting

=============================================================================
