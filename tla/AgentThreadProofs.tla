------------------------- MODULE AgentThreadProofs -------------------------
(* RunsAccepted and NotDisplaced of AgentThread for every set of actions   *)
(* and every number of commands.                                           *)
EXTENDS AgentThread, TLAPS

Holding == {"run", "hung", "reset", "unlock"}   \* the agent thread has thread.mtx
Calling == {"set", "signal", "unlock"}          \* a call of the monitor has it
Serving == Holding \cup {"lock", "relock", "wait"}

(* Who has thread.mtx, and that a mutex left locked is never free again    *)
(* while the agent is ready.                                               *)
Locks ==
    /\ mpc \in Calling => mtx = "monitor" /\ ready /\ ~ leaked
    /\ mtx = "monitor" => mpc \in Calling \/ leaked
    /\ leaked => mtx = "monitor" /\ ready
    /\ apc \in Holding => mtx = "agent"
    /\ mtx = "agent" => apc \in Holding \cup {"exited"}

(* What the slot says of the two threads.  INIT keeps commands out until   *)
(* the main loop is there; then the slot is full exactly while a command   *)
(* is stored or carried out.                                               *)
Slot ==
    /\ apc \in {"connect", "ready"} => type = "INIT"
    /\ apc \in Serving => type # "INIT"
    /\ apc \in {"run", "hung", "reset"} => type \in Actions
    /\ type \in {"IDLE", "INIT"} => accepted = 0

(* The command in the slot is the last one entered past the lock, and its  *)
(* arguments are stored by the time the mutex is free.                     *)
Stored ==
    /\ command \in [n : 0 .. MaxCommands, act : Actions \cup {"IDLE"}]
    /\ mpc \in Calling => command.act \in Actions
    /\ mpc \in {"signal", "unlock"} => type = command.act /\ accepted = 0
    /\ mpc = "unlock" => args = command.n
    /\ (type \in Actions /\ mtx # "monitor") =>
          args = command.n /\ accepted = command.n /\ type = command.act

AInv == TypeOK /\ Locks /\ Slot /\ Stored

-----------------------------------------------------------------------------
(* The invariant holds when QEMU starts.                                   *)
LEMMA AInvInit == Init => AInv
<1> SUFFICES ASSUME Init PROVE AInv
  OBVIOUS
<1> USE AgentAssumption DEF Init
<1>1. TypeOK
  <2>1. ready \in BOOLEAN /\ cancelled \in BOOLEAN /\ leaked \in BOOLEAN
    BY Zenon
  <2> QED
    BY <2>1 DEF TypeOK, NoThread
<1>2. Locks
  BY DEF Locks, Holding, Calling
<1>3. Slot
  BY DEF Slot, Holding, Serving
<1>4. Stored
  BY DEF Stored, Calling
<1> QED
  BY <1>1, <1>2, <1>3, <1>4 DEF AInv

(* Every step of the monitor and of the agent thread keeps it.             *)
LEMMA AInvNext == AInv /\ [Next]_vars => AInv'
<1> SUFFICES ASSUME AInv, [Next]_vars PROVE AInv'
  OBVIOUS
<1> USE AgentAssumption
    DEF AInv, TypeOK, NoThread, Locks, Slot, Stored, Holding, Calling, Serving
<1>1. ASSUME NEW a \in Actions, Issue(a) PROVE AInv'
  BY <1>1 DEF Issue, Prompt, Return, agent
<1>2. CASE InitAgent
  <2>1. TypeOK'
    <3>1. (ready \in BOOLEAN /\ cancelled \in BOOLEAN /\ leaked \in BOOLEAN)'
      BY <1>2, Zenon DEF InitAgent, Prompt, Return, Start, agent
    <3> QED
      BY <1>2, <3>1 DEF InitAgent, Prompt, Return, Start, agent
  <2>2. Locks'
    BY <1>2 DEF InitAgent, Prompt, Return, Start, agent
  <2>3. Slot'
    BY <1>2 DEF InitAgent, Prompt, Return, Start, agent
  <2>4. Stored'
    BY <1>2 DEF InitAgent, Prompt, Return, Start, agent
  <2> QED
    BY <2>1, <2>2, <2>3, <2>4
<1>3. CASE Reset
  BY <1>3 DEF Reset, Prompt
<1>4. CASE ExecInput
  <2>1. TypeOK'
    <3>1. (ready \in BOOLEAN /\ cancelled \in BOOLEAN /\ leaked \in BOOLEAN)'
      BY <1>4, Zenon DEF ExecInput, Prompt, Return
    <3> QED
      BY <1>4, <3>1 DEF ExecInput, Prompt, Return
  <2>2. Locks'
    BY <1>4 DEF ExecInput, Prompt, Return
  <2>3. Slot'
    BY <1>4 DEF ExecInput, Prompt, Return
  <2>4. Stored'
    BY <1>4 DEF ExecInput, Prompt, Return
  <2> QED
    BY <2>1, <2>2, <2>3, <2>4
<1>5. CASE SetAction
  BY <1>5 DEF SetAction, Return, agent
<1>6. CASE Signal
  BY <1>6 DEF Signal
<1>7. CASE Unlock
  <2>1. TypeOK'
    BY <1>7 DEF Unlock, Return, agent
  <2>2. Locks'
    BY <1>7 DEF Unlock, Return, agent
  <2>3. Slot'
    BY <1>7 DEF Unlock, Return, agent
  <2>4. Stored'
    BY <1>7 DEF Unlock, Return, agent
  <2> QED
    BY <2>1, <2>2, <2>3, <2>4
<1>8. CASE Cleanup
  <2>1. TypeOK'
    <3>1. (ready \in BOOLEAN /\ cancelled \in BOOLEAN /\ leaked \in BOOLEAN)'
      BY <1>8, Zenon DEF Cleanup, Start, Return
    <3> QED
      BY <1>8, <3>1 DEF Cleanup, Start, Return
  <2>2. Locks'
    BY <1>8 DEF Cleanup, Start, Return
  <2>3. Slot'
    BY <1>8 DEF Cleanup, Start, Return
  <2>4. Stored'
    BY <1>8 DEF Cleanup, Start, Return
  <2> QED
    BY <2>1, <2>2, <2>3, <2>4
<1>9. CASE Connect
  <2>1. TypeOK'
    BY <1>9 DEF Connect, monitor
  <2>2. Locks'
    BY <1>9 DEF Connect, monitor
  <2>3. Slot'
    BY <1>9 DEF Connect, monitor
  <2>4. Stored'
    BY <1>9 DEF Connect, monitor
  <2> QED
    BY <2>1, <2>2, <2>3, <2>4
<1>10. CASE SetIdle
  BY <1>10 DEF SetIdle, monitor
<1>11. CASE Acquire
  BY <1>11 DEF Acquire, monitor
<1>12. CASE Handled
  BY <1>12 DEF Handled, monitor
<1>13. CASE ResetAction
  BY <1>13 DEF ResetAction, monitor
<1>14. CASE Release
  BY <1>14 DEF Release, monitor
<1>15. CASE Cancel
  BY <1>15 DEF Cancel, monitor
<1>16. CASE SpuriousWakeup
  BY <1>16 DEF SpuriousWakeup, monitor
<1>17. CASE Hang
  BY <1>17 DEF Hang, monitor
<1>18. CASE Broken
  BY <1>18 DEF Broken, monitor
<1>19. CASE UNCHANGED vars
  BY <1>19 DEF vars, agent, monitor
<1> QED
  BY <1>1, <1>2, <1>3, <1>4, <1>5, <1>6, <1>7, <1>8, <1>9, <1>10,
     <1>11, <1>12, <1>13, <1>14, <1>15, <1>16, <1>17, <1>18, <1>19
  DEF Next, Monitor, Call, Agent, Quiet

(* AInv holds of every reachable state.                                    *)
LEMMA AInvAlways == Spec => []AInv
BY AInvInit, AInvNext, PTL DEF Spec

(* RunsAccepted for any actions and any number of commands: the thread     *)
(* carries out the command that was answered SUCCESS, with its arguments.  *)
THEOREM RunsAcceptedHolds == Spec => []RunsAccepted
<1>1. AInv => RunsAccepted
  BY AgentAssumption
  DEF AInv, TypeOK, NoThread, Locks, Slot, Stored, Holding, Calling, Serving,
      RunsAccepted, MutexHeld
<1> QED
  BY <1>1, AInvAlways, PTL

(* NotDisplaced likewise: only the agent thread or a cleanup gives the     *)
(* slot up, because a slot that is IDLE belongs to no accepted command.    *)
THEOREM NotDisplacedHolds == Spec => NotDisplaced
<1> DEFINE Keeps == accepted # 0 /\ accepted' # accepted => accepted' = 0
<1>1. AInv /\ [Next]_vars => [Keeps]_vars
  <2> SUFFICES ASSUME AInv, Next, accepted' # accepted PROVE accepted = 0 \/ accepted' = 0
    BY DEF Keeps
  <2>1. CASE Unlock
    BY <2>1 DEF AInv, Stored, Unlock
  <2>2. CASE InitAgent
    BY <2>2 DEF InitAgent, Start
  <2>3. CASE Cleanup
    BY <2>3 DEF Cleanup, Start
  <2>4. CASE ResetAction
    BY <2>4 DEF ResetAction
  <2> QED
    BY <2>1, <2>2, <2>3, <2>4
    DEF Next, Monitor, Call, Agent, Quiet, Issue, Reset, ExecInput, SetAction, Signal,
        Connect, SetIdle, Acquire, Handled, Release, Cancel, SpuriousWakeup, Hang,
        Broken, vars
<1> QED
  BY <1>1, AInvAlways, PTL DEF Spec, NotDisplaced
=============================================================================
