---------------------------- MODULE AgentThread ----------------------------
(***************************************************************************)
(* The host side of the in-guest agent, ext/agent/agent.c: commands of the *)
(* QEMU monitor are handed to an agent thread through one action slot,     *)
(* thread.mtx and thread.cond.                                             *)
(*                                                                         *)
(* The critical sections of act.mtx are single steps.  thread.mtx is held  *)
(* by the monitor while it stores a command and by the agent thread while  *)
(* it carries one out.  What is said to the guest meanwhile is the subject *)
(* of AgentProtocol; here an action succeeds, fails, or finds the          *)
(* connection broken.  One monitor issues all commands.                    *)
(***************************************************************************)
EXTENDS Naturals

CONSTANTS
    Actions,     \* actions a command may ask for, "EXEC" among them
    MaxCommands  \* bound: number of commands entered

ASSUME AgentAssumption ==
    /\ "EXEC" \in Actions /\ {"IDLE", "INIT"} \cap Actions = {}
    /\ MaxCommands \in Nat

VARIABLES
    ready,      \* ac->ready
    type,       \* ac->act.type
    args,       \* ac->act.cmdline and paths: number of the command they are of
    mtx,        \* holder of thread.mtx
    apc,        \* agent thread
    cancelled,  \* pthread_cancel was called on it
    mpc,        \* monitor
    command,    \* number and action of the command in hand
    entered,    \* number of commands entered so far
    accepted,   \* history: command accepted and not finished, or 0
    answer,     \* what the last call returned
    leaked      \* history: a call returned with thread.mtx locked

agent   == <<apc, cancelled>>
monitor == <<mpc, command, entered, answer>>
vars    == <<ready, type, args, mtx, agent, monitor, accepted, leaked>>

NoThread == {"none", "exited"}

Init ==
    /\ ready = FALSE /\ type = "IDLE" /\ args = 0
    /\ mtx = "free"
    /\ apc = "none" /\ cancelled = FALSE
    /\ mpc = "prompt" /\ command = [n |-> 0, act |-> "IDLE"] /\ entered = 0
    /\ accepted = 0 /\ answer = "none" /\ leaked = FALSE

-----------------------------------------------------------------------------
(* The monitor.  While an "execute" runs, monitor_command_cb sends every   *)
(* line to the guest instead of interpreting it.                           *)
Prompt == mpc = "prompt" /\ entered < MaxCommands /\ entered' = entered + 1

Return(code) == mpc' = "prompt" /\ answer' = code

(* agent_import and its siblings up to pthread_mutex_trylock.              *)
Issue(a) ==
    /\ Prompt /\ type # "EXEC"
    /\ IF ~ ready
       THEN Return("EINIT") /\ UNCHANGED <<mtx, command>>
       ELSE IF mtx # "free"
       THEN Return("EBUSY") /\ UNCHANGED <<mtx, command>>
       ELSE /\ mtx' = "monitor" /\ mpc' = "set"
            /\ command' = [n |-> entered', act |-> a]
            /\ UNCHANGED answer
    /\ UNCHANGED <<ready, type, args, agent, accepted, leaked>>

(* Mutant: a command that is still to be consumed is overwritten.          *)
SetActionOver ==
    /\ mpc = "set"
    /\ type' = command.act /\ mpc' = "signal"
    /\ UNCHANGED <<ready, args, mtx, agent, command, entered, accepted, answer,
                   leaked>>

(* set_agent_action; on EBUSY the caller returns without unlocking.        *)
SetAction ==
    /\ mpc = "set"
    /\ IF type # "IDLE"
       THEN Return("EBUSY") /\ leaked' = TRUE /\ UNCHANGED type
       ELSE /\ type' = command.act /\ mpc' = "signal"
            /\ UNCHANGED <<answer, leaked>>
    /\ UNCHANGED <<ready, args, mtx, agent, command, entered, accepted>>

(* Mutant: the agent thread is not woken.                                  *)
SignalNobody ==
    /\ mpc = "signal"
    /\ args' = command.n /\ mpc' = "unlock"
    /\ UNCHANGED <<ready, type, mtx, agent, command, entered, accepted, answer,
                   leaked>>

(* Mutant: the arguments of the command before it stay.                    *)
SignalStale ==
    /\ mpc = "signal"
    /\ mpc' = "unlock"
    /\ apc' = (IF apc = "wait" THEN "relock" ELSE apc)
    /\ UNCHANGED <<ready, type, args, mtx, cancelled, command, entered, accepted,
                   answer, leaked>>

(* The arguments are stored and the agent thread is woken.                 *)
Signal ==
    /\ mpc = "signal"
    /\ args' = command.n /\ mpc' = "unlock"
    /\ apc' = (IF apc = "wait" THEN "relock" ELSE apc)
    /\ UNCHANGED <<ready, type, mtx, cancelled, command, entered, accepted, answer,
                   leaked>>

Unlock ==
    /\ mpc = "unlock"
    /\ mtx' = "free" /\ accepted' = command.n
    /\ Return("SUCCESS")
    /\ UNCHANGED <<ready, type, args, agent, command, entered, leaked>>

(* agent_init after its checks: the context is cleared, the mutexes are    *)
(* initialised and the thread is created.                                  *)
Start ==
    /\ mtx' = "free" /\ ready' = FALSE /\ type' = "INIT" /\ args' = 0
    /\ apc' = "connect" /\ cancelled' = FALSE
    /\ accepted' = 0
    /\ Return("SUCCESS")

(* do_win_init.                                                            *)
InitAgent ==
    /\ Prompt /\ type # "EXEC"
    /\ \/ type = "INIT" /\ Return("IBUSY")
          /\ UNCHANGED <<ready, type, args, mtx, agent, accepted>>
       \/ type # "INIT" /\ ready /\ Return("SUCCESS")
          /\ UNCHANGED <<ready, type, args, mtx, agent, accepted>>
       \/ type # "INIT" /\ ~ ready /\ Start
    /\ UNCHANGED <<command, leaked>>

(* do_win_reset: agent_cleanup cancels and joins the agent thread.  Not    *)
(* before there is one: pthread_cancel is undefined then.                  *)
Reset ==
    /\ Prompt /\ type # "EXEC" /\ apc # "none"
    /\ cancelled' = TRUE /\ mpc' = "join"
    /\ UNCHANGED <<ready, type, args, mtx, apc, command, answer, accepted, leaked>>

(* agent_handle_exec_command.  When the datagram cannot be sent the        *)
(* connection is given up.                                                 *)
ExecInput ==
    /\ Prompt /\ type = "EXEC" /\ ready
    /\ \/ Return("SUCCESS") /\ UNCHANGED cancelled
       \/ cancelled' = TRUE /\ mpc' = "drop" /\ UNCHANGED answer
    /\ UNCHANGED <<ready, type, args, mtx, apc, command, accepted, leaked>>

(* The rest of agent_cleanup, once the thread has ended: the mutex is      *)
(* unlocked whoever holds it and the context is cleared.  agent_reset goes *)
(* on to agent_init.                                                       *)
Cleanup ==
    /\ mpc \in {"join", "drop"} /\ apc = "exited"
    /\ \/ mpc = "join" /\ Start
       \/ /\ mpc = "drop"
          /\ mtx' = "free" /\ ready' = FALSE /\ type' = "IDLE" /\ args' = 0
          /\ apc' = "none" /\ cancelled' = FALSE /\ accepted' = 0
          /\ Return("SUCCESS")
    /\ leaked' = FALSE
    /\ UNCHANGED <<command, entered>>

-----------------------------------------------------------------------------
(* The agent thread: agent_client_mainloop.                                *)

Connect ==
    /\ apc = "connect" /\ ~ cancelled
    /\ \/ ready' = TRUE /\ apc' = "ready"
       \/ apc' = "exited" /\ UNCHANGED ready
    /\ UNCHANGED <<type, args, mtx, cancelled, monitor, accepted, leaked>>

SetIdle ==
    /\ apc = "ready"
    /\ type' = "IDLE" /\ apc' = "lock"
    /\ UNCHANGED <<ready, args, mtx, cancelled, monitor, accepted, leaked>>

(* pthread_mutex_lock, or the end of pthread_cond_wait, and the test of    *)
(* the action; pthread_cond_wait releases the mutex again.                 *)
Acquire ==
    /\ apc \in {"lock", "relock"} /\ mtx = "free"
    /\ IF type = "IDLE"
       THEN apc' = "wait" /\ UNCHANGED mtx
       ELSE apc' = "run" /\ mtx' = "agent"
    /\ UNCHANGED <<ready, type, args, cancelled, monitor, accepted, leaked>>

SpuriousWakeup ==
    /\ apc = "wait" /\ ~ cancelled
    /\ apc' = "relock"
    /\ UNCHANGED <<ready, type, args, mtx, cancelled, monitor, accepted, leaked>>

(* The handler returns, and its success or failure is reported.            *)
Handled ==
    /\ apc = "run"
    /\ apc' = "reset"
    /\ UNCHANGED <<ready, type, args, mtx, cancelled, monitor, accepted, leaked>>

ResetAction ==
    /\ apc = "reset"
    /\ type' = "IDLE" /\ accepted' = 0 /\ apc' = "unlock"
    /\ UNCHANGED <<ready, args, mtx, cancelled, monitor, leaked>>

(* Mutant: the mutex is not unlocked.                                      *)
ReleaseNothing ==
    /\ apc = "unlock"
    /\ apc' = "lock"
    /\ UNCHANGED <<ready, type, args, mtx, cancelled, monitor, accepted, leaked>>

Release ==
    /\ apc = "unlock"
    /\ mtx' = "free" /\ apc' = "lock"
    /\ UNCHANGED <<ready, type, args, cancelled, monitor, accepted, leaked>>

(* No receive has a timeout: when the datagram it waits for is lost, the   *)
(* handler stays in recvfrom.                                              *)
Hang ==
    /\ apc = "run"
    /\ apc' = "hung"
    /\ UNCHANGED <<ready, type, args, mtx, cancelled, monitor, accepted, leaked>>

(* A socket error: the thread cleans up after itself.  pthread_join of the *)
(* thread by itself, with its cancellation pending, ends it on the spot.   *)
Broken ==
    /\ apc \in {"run", "hung"}
    /\ apc' = "exited"
    /\ UNCHANGED <<ready, type, args, mtx, cancelled, monitor, accepted, leaked>>

(* Mutant: pthread_cond_wait returns instead of ending the thread.         *)
CancelReturns ==
    /\ cancelled /\ apc \in {"connect", "run", "hung", "wait"}
    /\ apc' = (IF apc = "wait" THEN "relock" ELSE "exited")
    /\ UNCHANGED <<ready, type, args, mtx, cancelled, monitor, accepted, leaked>>

(* Cancellation acts in connect, in recvfrom and in pthread_cond_wait,     *)
(* which takes the mutex first; it never unlocks thread.mtx.               *)
Cancel ==
    /\ cancelled
    /\ \/ apc \in {"connect", "run", "hung"} /\ UNCHANGED mtx
       \/ apc = "wait" /\ mtx = "free" /\ mtx' = "agent"
    /\ apc' = "exited"
    /\ UNCHANGED <<ready, type, args, cancelled, monitor, accepted, leaked>>

-----------------------------------------------------------------------------
Monitor ==
    \/ \E a \in Actions : Issue(a)
    \/ InitAgent \/ Reset \/ ExecInput

Call == SetAction \/ Signal \/ Unlock \/ Cleanup

Agent ==
    \/ Connect \/ SetIdle \/ Acquire \/ Handled \/ ResetAction \/ Release
    \/ Cancel

(* No more commands, or a thread.mtx that nobody will unlock.              *)
Quiet == (mpc = "prompt" \/ leaked) /\ UNCHANGED vars

Next == Monitor \/ Call \/ Agent \/ SpuriousWakeup \/ Hang \/ Broken \/ Quiet

Spec == Init /\ [][Next]_vars

(* The threads are scheduled and a handler that does not hang returns;     *)
(* nobody has to type.                                                     *)
FairSpec == Spec /\ WF_vars(Call) /\ WF_vars(Agent)

-----------------------------------------------------------------------------
(* Properties.                                                             *)

(* The state is well formed.                                               *)
TypeOK ==
    /\ ready \in BOOLEAN /\ cancelled \in BOOLEAN /\ leaked \in BOOLEAN
    /\ type \in Actions \cup {"IDLE", "INIT"}
    /\ {args, entered, accepted} \subseteq 0 .. MaxCommands
    /\ mtx \in {"free", "monitor", "agent"}
    /\ apc \in NoThread \cup {"connect", "ready", "lock", "relock", "wait", "run",
                               "hung", "reset", "unlock"}
    /\ mpc \in {"prompt", "set", "signal", "unlock", "join", "drop"}
    /\ answer \in {"none", "SUCCESS", "EBUSY", "EINIT", "IBUSY"}

(* A command that was accepted is not displaced by a later one: the slot   *)
(* is given up by the agent thread or by a cleanup only.                   *)
(* (set_agent_action: "the new action is going to overwrite the previous   *)
(* one before it can be consumed".)                                        *)
NotDisplaced == [][accepted # 0 /\ accepted' # accepted => accepted' = 0]_vars

(* thread.mtx is never left locked unless a call returned EBUSY past the   *)
(* trylock, or the agent thread ended while it held the mutex.             *)
MutexHeld ==
    /\ mtx = "monitor" => mpc \in {"set", "signal", "unlock"} \/ leaked
    /\ mtx = "agent" => apc \in {"run", "hung", "reset", "unlock", "exited"}

(* The agent thread carries out the command that was answered SUCCESS,     *)
(* with the arguments of that command, whatever is typed meanwhile, and    *)
(* the mutex that protects it is held where it should be.                  *)
(* (agent_client_mainloop, set_agent_action.)                              *)
RunsAccepted ==
    /\ TypeOK /\ MutexHeld
    /\ apc = "run" => /\ args = accepted /\ accepted = command.n
                      /\ type = command.act

(* An accepted command is finished, unless thread.mtx was left locked, the *)
(* connection broke or a datagram was lost: no wakeup is lost between      *)
(* pthread_cond_signal and pthread_cond_wait.  And agent_reset and a       *)
(* dropped connection come back, unless thread.mtx was left locked:        *)
(* cancellation ends the agent thread wherever it is, in a receive that    *)
(* hangs too.  (agent_client_mainloop, as_read, agent_cleanup.)            *)
Finishes ==
    /\ accepted # 0 ~> (accepted = 0 \/ leaked \/ apc \in {"exited", "hung"})
    /\ mpc \in {"join", "drop"} ~> (mpc = "prompt" \/ leaked)

(* agent-commands.c:109: "Agent is busy handling the previous command.     *)
(* Come back later": the agent is not busy for ever once the guest answers *)
(* and the thread is alive.                                                *)
ComeBackLater ==
    answer = "EBUSY" ~> (mtx = "free" \/ apc \in {"exited", "hung"} \/ mpc = "join")

=============================================================================
