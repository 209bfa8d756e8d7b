---------------------------- MODULE StateMachine ----------------------------
(***************************************************************************)
(* StdStateMachine: the StateMachineEngine and the two machines built on   *)
(* it, the TCP connection of protocol_example and the character of         *)
(* game_example.  Every call of the engine holds its recursive mutex, so a *)
(* call with all the calls it makes in turn - a state sends events while   *)
(* it is being entered or updated - is one step here.                      *)
(*                                                                         *)
(* Times are in half seconds.  Timers live in the state objects or in the  *)
(* context and are set on entry, so one pair of timers stands for all.     *)
(***************************************************************************)
EXTENDS Integers, Sequences, FiniteSets

CONSTANTS Machines,    \* subset of {"tcp", "game"}
          Deltas,      \* what may pass between two updates
          InitialHealth, MaxHealth, GoblinDamage, OrcDamage, HealAmount,
          MaxBattles,
          MaxDeferred  \* events sent with immediate = false

VARIABLES sm,      \* the engine, its current state and its context
          opened   \* how far the program that drives the machine is
machineVars == <<sm, opened>>

(***************************************************************************)
(* The transition tables.                                                  *)
(***************************************************************************)
CreateTCPStateMachine ==
  [closed       |-> [passive_open |-> "listen", active_open |-> "syn_sent"],
   listen       |-> [recv_syn |-> "syn_received", close |-> "closed"],
   syn_sent     |-> [recv_syn_ack |-> "established", timeout |-> "closed"],
   syn_received |-> [recv_ack |-> "established", timeout |-> "closed"],
   established  |-> [close |-> "fin_wait_1", recv_fin |-> "close_wait"],
   fin_wait_1   |-> [recv_ack |-> "fin_wait_2", recv_fin |-> "closing", recv_fin_ack |-> "time_wait"],
   fin_wait_2   |-> [recv_fin |-> "time_wait"],
   close_wait   |-> [close |-> "last_ack"],
   last_ack     |-> [recv_ack |-> "closed"],
   closing      |-> [recv_ack |-> "time_wait"],
   time_wait    |-> [timeout |-> "closed"]]
CreateCharacterStateMachine ==
  [idle   |-> [start_patrol |-> "patrol", enemy_detected |-> "combat"],
   patrol |-> [enemy_detected |-> "combat", return_idle |-> "idle"],
   combat |-> [take_damage |-> "hurt", enemy_defeated |-> "idle"],
   hurt   |-> [recovery_complete |-> "idle", death |-> "death"],
   death  |-> <<>>]
Transitions(m) == IF m.name = "tcp" THEN CreateTCPStateMachine ELSE CreateCharacterStateMachine
Event(id) == [id |-> id, data |-> "none"]

NotStarted(machine) ==
  [name |-> machine, cur |-> "none", running |-> FALSE, pending |-> <<>>,
   entered |-> {},                       \* ghost: entered and not yet left
   timer |-> 0, timer2 |-> 0, count |-> 0, \* of the current state
   queue |-> 0,                          \* send_queue_ of the established state
   health |-> InitialHealth, enemy |-> "none", battles |-> 0]

(***************************************************************************)
(* The states: what entering, an event and an update do.                   *)
(***************************************************************************)
Damage(m) == IF m.enemy = "Orc" THEN OrcDamage ELSE GoblinDamage

\* The context of the machine after the state object was entered.
OnEnter(m, from) ==
  LET z == [m EXCEPT !.timer = 0, !.timer2 = 0, !.count = 0]
  IN CASE m.cur = "established" -> [z EXCEPT !.queue = @ + 3]
       [] m.cur = "idle" /\ from = "combat" -> [z EXCEPT !.enemy = "none"]
       [] m.cur = "combat" -> [z EXCEPT !.enemy = IF @ = "none" THEN "enemy" ELSE @,
                                        !.battles = @ + 1]
       [] m.cur = "hurt" /\ from = "combat" ->
            [z EXCEPT !.health = IF @ > Damage(m) THEN @ - Damage(m) ELSE 0]
       [] OTHER -> z

RECURSIVE ProcessEvent(_, _)

\* MUTANT: the state is entered before it becomes the current one, so the
\* event it sends from OnEnter is for the state that is being left.
PerformTransitionLate(m, target) ==
  LET n == OnEnter([m EXCEPT !.cur = target, !.entered = (@ \ {m.cur}) \cup {target}], m.cur)
  IN IF n.cur = "hurt" /\ n.health = 0
     THEN [ProcessEvent([n EXCEPT !.cur = m.cur], Event("death")) EXCEPT !.cur = target]
     ELSE n
\* OnExit, the change, OnEnter - from which the hurt state may send "death".
PerformTransition(m, target) ==
  LET n == OnEnter([m EXCEPT !.cur = target, !.entered = (@ \ {m.cur}) \cup {target}], m.cur)
  IN IF n.cur = "hurt" /\ n.health = 0 THEN ProcessEvent(n, Event("death")) ELSE n

\* Of the events only send_data and health_check are handled by a state.
OnEvent(m, e) == \/ m.cur = "established" /\ e.id = "send_data"
                 \/ m.cur \in {"idle", "patrol", "combat", "hurt"} /\ e.id = "health_check"

ProcessEvent(m, e) ==
  CASE m.cur = "none" -> m
    [] m.cur # "none" /\ OnEvent(m, e) ->
         IF e.id = "send_data" THEN [m EXCEPT !.queue = @ + 1] ELSE m
    [] m.cur # "none" /\ ~OnEvent(m, e) /\ e.id \in DOMAIN Transitions(m)[m.cur] ->
         PerformTransition(IF e.data # "none" THEN [m EXCEPT !.enemy = e.data] ELSE m,
                           Transitions(m)[m.cur][e.id])
    [] OTHER -> m

RECURSIVE ProcessPendingEvents(_)
ProcessPendingEvents(m) ==
  IF m.pending = <<>> THEN m
  ELSE ProcessPendingEvents(ProcessEvent([m EXCEPT !.pending = Tail(@)], Head(m.pending)))

Stopped(m) == [m EXCEPT !.cur = "none", !.running = FALSE, !.entered = @ \ {m.cur}]

\* A state that waits, and then sends itself an event.
Await(m, d, limit, id) ==
  LET n == [m EXCEPT !.timer = @ + d]
  IN {IF n.timer >= limit THEN ProcessEvent([n EXCEPT !.timer = 0], Event(id)) ELSE n}

\* The first message of the queue goes out each second.
EstablishedState(m, d) ==
  LET n == [m EXCEPT !.timer = @ + d, !.timer2 = @ + d]
      sent == IF n.timer2 >= 2 /\ n.queue > 0 THEN [n EXCEPT !.timer2 = 0, !.queue = @ - 1] ELSE n
  IN {IF sent.timer > 10 THEN ProcessEvent([sent EXCEPT !.timer = 0], Event("close"))
      ELSE [sent EXCEPT !.timer2 = IF @ > 2 THEN 2 ELSE @]}
SynSentState(m, d) ==
  LET n == [m EXCEPT !.timer = @ + d]
      again == [n EXCEPT !.timer = 0, !.count = @ + 1]
  IN {IF n.timer <= 6 THEN n ELSE IF again.count > 3 THEN ProcessEvent(again, Event("timeout")) ELSE again}
IdleState(m, d) ==
  LET n == [m EXCEPT !.timer = @ + d, !.timer2 = @ + d]
      healed == IF n.timer2 < 4 THEN n
                ELSE [n EXCEPT !.timer2 = 0,
                               !.health = IF @ < MaxHealth
                                          THEN IF @ + HealAmount > MaxHealth THEN MaxHealth ELSE @ + HealAmount
                                          ELSE @]
  IN {IF healed.timer > 6 THEN ProcessEvent(healed, Event("start_patrol")) ELSE healed}
PatrolState(m) ==
  {m} \cup {ProcessEvent(m, [id |-> "enemy_detected", data |-> kind]) : kind \in {"Goblin", "Orc"}}
CombatState(m, d) ==
  LET n == [m EXCEPT !.timer = @ + d]
      hit == [n EXCEPT !.timer = 0, !.count = @ + 1]
  IN IF n.timer < 2 THEN {n}
     ELSE {ProcessEvent(hit, Event("take_damage")),
           IF hit.count >= 3 THEN ProcessEvent(hit, Event("enemy_defeated")) ELSE hit}
DeathState(m, d) ==
  LET n == [m EXCEPT !.timer = @ + d] IN {IF n.timer >= 2 THEN Stopped(n) ELSE n}

ListenState(m, d)      == Await(m, d, 5, "recv_syn")
SynReceivedState(m, d) == Await(m, d, 1, "recv_ack")
FinWait1State(m, d)    == Await(m, d, 1, "recv_ack")
FinWait2State(m, d)    == Await(m, d, 2, "recv_fin")
CloseWaitState(m, d)   == Await(m, d, 2, "close")
LastAckState(m, d)     == Await(m, d, 1, "recv_ack")
ClosingState(m, d)     == Await(m, d, 1, "recv_ack")
TimeWaitState(m, d)    == Await(m, d, 4, "timeout")
HurtState(m, d)        == Await(m, d, 4, "recovery_complete")

OnUpdate(m, d) ==
  CASE m.cur = "closed" -> {m}
    [] m.cur = "listen" -> ListenState(m, d)
    [] m.cur = "syn_sent" -> SynSentState(m, d)
    [] m.cur = "syn_received" -> SynReceivedState(m, d)
    [] m.cur = "established" -> EstablishedState(m, d)
    [] m.cur = "fin_wait_1" -> FinWait1State(m, d)
    [] m.cur = "fin_wait_2" -> FinWait2State(m, d)
    [] m.cur = "close_wait" -> CloseWaitState(m, d)
    [] m.cur = "last_ack" -> LastAckState(m, d)
    [] m.cur = "closing" -> ClosingState(m, d)
    [] m.cur = "time_wait" -> TimeWaitState(m, d)
    [] m.cur = "idle" -> IdleState(m, d)
    [] m.cur = "patrol" -> PatrolState(m)
    [] m.cur = "combat" -> CombatState(m, d)
    [] m.cur = "hurt" -> HurtState(m, d)
    [] m.cur = "death" -> DeathState(m, d)

(***************************************************************************)
(* The engine's calls, and the programs that make them.                    *)
(***************************************************************************)
MachineInit == /\ \E machine \in Machines : sm = NotStarted(machine)
               /\ opened = "new"

Start ==
  /\ opened = "new" /\ opened' = "no"
  /\ LET first == IF sm.name = "tcp" THEN "closed" ELSE "idle"
     IN sm' = [OnEnter([sm EXCEPT !.cur = first, !.entered = {first}], "none") EXCEPT !.running = TRUE]

\* The game's loop ends with the last battle.
Update ==
  /\ sm.running /\ sm.cur # "none" /\ sm.battles < MaxBattles
  /\ \E d \in Deltas :
       \E n \in OnUpdate(sm, d) : sm' = ProcessPendingEvents(n)
  /\ UNCHANGED opened

\* demonstrateTCPConnection opens passively, demonstrateActiveConnection
\* actively; a SYN+ACK and a message of the application come later.  A FIN of
\* the peer is an event the machine has transitions for.
SendEvent(id) ==
  /\ sm.running /\ sm.name = "tcp"
  /\ \/ id \in {"passive_open", "active_open"} /\ opened = "no" /\ opened' = id
     \/ id = "recv_syn_ack" /\ opened = "active_open" /\ opened' = "answered"
     \/ id = "send_data" /\ opened = "answered" /\ sm.cur = "established" /\ opened' = "sent"
     \/ id = "recv_fin" /\ opened \notin {"no", "fin"} /\ sm.cur \in {"established", "fin_wait_1"} /\ opened' = "fin"
  /\ sm' = ProcessEvent(sm, Event(id))
SendDeferred ==
  /\ sm.running /\ sm.name = "game" /\ Len(sm.pending) < MaxDeferred
  /\ sm' = [sm EXCEPT !.pending = Append(@, Event("health_check"))]
  /\ UNCHANGED opened

\* After so many updates.
Stop == sm.running /\ sm' = Stopped(sm) /\ UNCHANGED opened

MachineNext == \/ Start \/ Update \/ SendDeferred \/ Stop
               \/ \E id \in {"passive_open", "active_open", "recv_syn_ack", "send_data", "recv_fin"} : SendEvent(id)
MachineFairness == WF_machineVars(Update)
MachineSpec == MachineInit /\ [][MachineNext]_machineVars /\ MachineFairness

(***************************************************************************)
(* Properties.                                                             *)
(***************************************************************************)
\* After every call of the engine, however many transitions states have set
\* off from within one another, exactly the current state has been entered
\* and not left; and a character without health is dead.
TransitionsNest ==
  /\ sm.entered = (IF sm.cur = "none" THEN {} ELSE {sm.cur})
  /\ sm.health = 0 => sm.cur \in {"death", "none"}
  /\ sm.health \in 0..MaxHealth

=============================================================================
