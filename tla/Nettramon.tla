------------------------------ MODULE Nettramon ------------------------------
(***************************************************************************)
(* The network traffic monitor: the registry of call back functions, the   *)
(* capture of a packet by the network device, and the monitor commands     *)
(* that start, stop and configure it (nettramon.c).                        *)
(*                                                                         *)
(* Call backs are registered by any thread.  Packets are captured, and     *)
(* monitor commands run, under QEMU's global lock, so these two exclude    *)
(* each other.  A call back does not use the registry itself.              *)
(***************************************************************************)
EXTENDS Integers, Sequences, SequencesExt

CONSTANTS
    Clients,    \* threads that register call backs
    MaxCb,      \* SZ_NETTRAMON_MAX_CB
    Outputs,    \* the output files in the order of the code: all, tcp, ...
    MaxOps      \* bound: calls of the registry and monitor commands

\* What the constants must satisfy; the module that gives their values assumes it.
NettramonAssumption ==
    /\ MaxCb \in Nat /\ MaxOps \in Nat
    /\ Outputs \in Seq(STRING)

VARIABLES
    rwlock,     \* the thread that holds it, or Free
    cb_arr,     \* uid -> the client that registered it, or NULL
    enabled,    \* uid -> the flag of its record
    cb_list,    \* sequence of uids
    call,       \* client -> the call it is in, or NoCall
    ret,        \* client -> the last call and what it returned
    ops,        \* counts up to MaxOps
    cap,        \* the capture: "idle", "lock", "walk"
    called,     \* the call backs called by this capture
    status, local_mon, filter,
    fp,         \* files that are open
    pb,         \* paths that are set
    has_set,
    requested   \* history: the outputs of the last nettramon_set_file_path

registry == <<rwlock, cb_arr, enabled, cb_list, call, ret>>
capture  == <<cap, called>>
files    == <<fp, pb, has_set, requested>>
config   == <<status, local_mon, filter, files>>
vars     == <<registry, capture, config, ops>>

Free   == "free"
NULL   == "null"
Device == "device"
NoCall == [op |-> "none", uid |-> 0]
NoReturn == [ok |-> TRUE, op |-> "none", uid |-> 0]
Uids   == 0 .. MaxCb - 1
Names  == Range(Outputs)

Init ==
    /\ rwlock = Free
    /\ cb_arr = [u \in Uids |-> NULL] /\ enabled = [u \in Uids |-> FALSE]
    /\ cb_list = << >>
    /\ call = [c \in Clients |-> NoCall] /\ ops = 0
    /\ ret = [c \in Clients |-> NoReturn]
    /\ cap = "idle" /\ called = << >>
    /\ status = FALSE /\ local_mon = FALSE /\ filter = "none"
    /\ fp = {} /\ pb = {} /\ has_set = FALSE /\ requested = {}

-----------------------------------------------------------------------------
(* The registry.                                                           *)

(* A client calls nettramon_set_cb, with a function or NULL, or one of the *)
(* others with some uid.                                                   *)
Call(c) ==
    /\ call[c] = NoCall /\ ops < MaxOps
    /\ ops' = ops + 1
    /\ \E op \in {"set", "set_null", "delete", "enable", "disable"}, u \in Uids :
          /\ op \in {"set", "set_null"} => u = 0
          /\ call' = [call EXCEPT ![c] = [op |-> op, uid |-> u]]
    /\ UNCHANGED <<rwlock, cb_arr, enabled, cb_list, ret, capture, config>>

(* pthread_rwlock_wrlock of the C library: it waits while another thread   *)
(* holds the lock, and returns at once (with EDEADLK, which the code does  *)
(* not look at) when the calling thread does.                              *)
Locks(thread) == rwlock \in {Free, thread}

Unlock == rwlock' = Free

(* The call returns, after success or failure.                             *)
Return(c, ok) ==
    /\ call' = [call EXCEPT ![c] = NoCall]
    /\ ret' = [ret EXCEPT ![c] =
                [ok |-> ok, op |-> call[c].op, uid |-> call[c].uid]]
    /\ UNCHANGED <<ops, capture, config>>

(* An early return leaves the lock to the thread that took it.             *)
Fails(c) ==
    /\ rwlock' = c
    /\ Return(c, FALSE)
    /\ UNCHANGED <<cb_arr, enabled, cb_list>>

(* get_nettramon_cb_uid: the first entry of cb_arr that is NULL, or -1.    *)
get_nettramon_cb_uid ==
    IF \A u \in Uids : cb_arr[u] # NULL THEN -1
    ELSE CHOOSE u \in Uids : cb_arr[u] = NULL /\ \A v \in 0 .. u - 1 : cb_arr[v] # NULL

SetCbFails(c) ==
    /\ Locks(c)
    /\ \/ call[c].op = "set_null"
       \/ call[c].op = "set" /\ get_nettramon_cb_uid = -1
    /\ Fails(c)

SetCb(c) ==
    /\ Locks(c) /\ call[c].op = "set" /\ get_nettramon_cb_uid # -1
    /\ LET uid == get_nettramon_cb_uid IN
          /\ cb_list' = Append(cb_list, uid)
          /\ cb_arr' = [cb_arr EXCEPT ![uid] = c]
          /\ enabled' = [enabled EXCEPT ![uid] = TRUE]
          /\ Return(c, TRUE)
    /\ Unlock

(* Mutant: the call tries again instead of giving up.                      *)
UnknownUidRetries(c) ==
    /\ Locks(c) /\ call[c].op \in {"delete", "enable", "disable"}
    /\ cb_arr[call[c].uid] = NULL
    /\ Unlock
    /\ UNCHANGED <<cb_arr, enabled, cb_list, call, ret, ops, capture, config>>

(* Delete, enable and disable of a uid that was never given.               *)
UnknownUid(c) ==
    /\ Locks(c) /\ call[c].op \in {"delete", "enable", "disable"}
    /\ cb_arr[call[c].uid] = NULL
    /\ Fails(c)


(* The record leaves the list; its entry of cb_arr stays.                  *)
DeleteCb(c) ==
    /\ Locks(c) /\ call[c].op = "delete" /\ cb_arr[call[c].uid] # NULL
    /\ cb_list' = SelectSeq(cb_list, LAMBDA u : u # call[c].uid)
    /\ Return(c, TRUE)
    /\ Unlock
    /\ UNCHANGED <<cb_arr, enabled>>

EnableCb(c) ==
    /\ Locks(c) /\ call[c].op \in {"enable", "disable"}
    /\ cb_arr[call[c].uid] # NULL
    /\ enabled' = [enabled EXCEPT ![call[c].uid] = (call[c].op = "enable")]
    /\ Return(c, TRUE)
    /\ Unlock
    /\ UNCHANGED <<cb_arr, cb_list>>

-----------------------------------------------------------------------------
(* nettramon_packet_capture.                                               *)

(* A packet that is inactive or filtered out ends here.                    *)
Packet ==
    /\ cap = "idle" /\ status
    /\ cap' = "lock"
    /\ UNCHANGED <<registry, called, config, ops>>

(* Mutant: the list is walked without the lock.                            *)
CaptureLockNothing ==
    /\ cap = "lock"
    /\ cap' = "walk" /\ called' = << >>
    /\ UNCHANGED <<registry, config, ops>>

CaptureLock ==
    /\ cap = "lock" /\ Locks(Device)
    /\ rwlock' = Device
    /\ cap' = "walk" /\ called' = << >>
    /\ UNCHANGED <<cb_arr, enabled, cb_list, call, ret, config, ops>>

(* The call back behind those called, whatever its flag says.              *)
CallBack ==
    /\ cap = "walk" /\ Len(called) < Len(cb_list)
    /\ called' = Append(called, cb_list[Len(called) + 1])
    /\ UNCHANGED <<registry, cap, config, ops>>

CaptureDone ==
    /\ cap = "walk" /\ Len(called) >= Len(cb_list)
    /\ Unlock
    /\ cap' = "idle" /\ called' = << >>
    /\ UNCHANGED <<cb_arr, enabled, cb_list, call, ret, config, ops>>

-----------------------------------------------------------------------------
(* The monitor commands.                                                   *)

Command ==
    /\ cap = "idle" /\ ops < MaxOps
    /\ ops' = ops + 1
    /\ UNCHANGED <<registry, capture>>

(* The outputs before the k-th.                                            *)
Before(k) == {Outputs[i] : i \in 1 .. k - 1}

(* Opening stops at the k-th output, which cannot be opened, or nowhere.   *)
(* What was opened before stays open; the paths are cleared.               *)
StopsAt(k, chosen) ==
    \/ k = Len(Outputs) + 1
    \/ k \in 1 .. Len(Outputs) /\ Outputs[k] \in chosen

OpenFails(k, opened) ==
    /\ fp' = opened \ {Outputs[k]}
    /\ pb' = {} /\ has_set' = FALSE

(* nettramon_set_file_path; "N" stands for an output not chosen, whose old *)
(* path is kept.                                                           *)
SetFilePath(chosen) ==
    /\ Command
    /\ \E k \in 1 .. Len(Outputs) + 1 :
          LET opened == (fp \ Before(k)) \cup (chosen \cap Before(k)) IN
          /\ StopsAt(k, chosen)
          /\ IF k <= Len(Outputs)
             THEN OpenFails(k, opened)
             ELSE /\ fp' = opened /\ pb' = pb \cup chosen
                  /\ has_set' = (has_set \/ chosen # {})
    /\ requested' = chosen
    /\ UNCHANGED <<status, local_mon, filter>>

ResetFilePath ==
    /\ Command
    /\ pb' = {} /\ has_set' = FALSE
    /\ UNCHANGED <<status, local_mon, filter, fp, requested>>

(* nettramon_file_path_resume fails at some path, and nettramon_start      *)
(* returns before it becomes active.                                       *)
StartFails ==
    /\ Command
    /\ ~ status /\ has_set
    /\ \E k \in 1 .. Len(Outputs) :
          StopsAt(k, pb) /\ OpenFails(k, fp \cup (pb \cap Before(k)))
    /\ UNCHANGED <<status, local_mon, filter, requested>>


Start(mon) ==
    /\ Command
    /\ ~ status
    /\ fp' = (IF has_set THEN fp \cup pb ELSE fp)
    /\ IF fp' # {}
       THEN status' = TRUE /\ local_mon' = FALSE
       ELSE IF mon \/ cb_list # << >>
       THEN status' = TRUE /\ local_mon' = mon
       ELSE UNCHANGED <<status, local_mon>>
    /\ UNCHANGED <<filter, pb, has_set, requested>>

Stop ==
    /\ Command
    /\ status' = FALSE /\ local_mon' = FALSE /\ fp' = {}
    /\ UNCHANGED <<filter, pb, has_set, requested>>

(* nettramon_set_filter does not look at what pcap_compile_nopcap returns. *)
SetFilter(compiles) ==
    /\ Command
    /\ filter' = (IF compiles THEN "compiled" ELSE "garbage")
    /\ UNCHANGED <<status, local_mon, files>>

ResetFilter ==
    /\ Command
    /\ filter' = "none"
    /\ UNCHANGED <<status, local_mon, files>>

-----------------------------------------------------------------------------
Served(c) ==
    SetCbFails(c) \/ SetCb(c) \/ UnknownUid(c) \/ DeleteCb(c) \/ EnableCb(c)

(* After a call that failed, its lock is still held.                       *)
Leaked == \E c \in Clients : rwlock = c /\ ~ ret[c].ok

(* Nobody moves: the lock is lost, or everything allowed has been done.    *)
Quiet ==
    /\ Leaked \/ (cap = "idle" /\ \A c \in Clients : call[c] = NoCall)
    /\ UNCHANGED vars

Next ==
    \/ \E c \in Clients : Call(c)
    \/ \E c \in Clients : SetCbFails(c) \/ SetCb(c) \/ UnknownUid(c)
                          \/ DeleteCb(c) \/ EnableCb(c)
    \/ Packet \/ CaptureLock \/ CallBack \/ CaptureDone
    \/ StartFails \/ \E mon \in BOOLEAN : Start(mon)
    \/ Stop \/ ResetFilePath \/ ResetFilter
    \/ \E chosen \in SUBSET Names : SetFilePath(chosen)
    \/ \E compiles \in BOOLEAN : SetFilter(compiles)
    \/ Quiet

Spec == Init /\ [][Next]_vars

(* Threads are scheduled, waiting for the lock included, and call backs    *)
(* return.                                                                 *)
FairSpec ==
    /\ Spec
    /\ \A c \in Clients : SF_vars(Served(c))
    /\ SF_vars(CaptureLock) /\ WF_vars(CallBack \/ CaptureDone)

-----------------------------------------------------------------------------
(* Properties.                                                             *)

(* The state is well formed.                                               *)
TypeOK ==
    /\ rwlock \in Clients \cup {Free, Device}
    /\ cb_arr \in [Uids -> Clients \cup {NULL}]
    /\ enabled \in [Uids -> BOOLEAN]
    /\ cb_list \in Seq(Uids) /\ IsInjective(cb_list)
    /\ cap \in {"idle", "lock", "walk"}
    /\ fp \subseteq Names /\ pb \subseteq Names /\ (pb = {} <=> ~ has_set)
    /\ filter \in {"none", "compiled", "garbage"}
    /\ {status, local_mon, has_set} \subseteq BOOLEAN


(* The state is well formed, and once nettramon_delete_cb has returned 0,  *)
(* the call back is never called again.                                    *)
DeletedGone ==
    /\ TypeOK
    /\ \A c \in Clients :
          ret[c].op = "delete" /\ ret[c].ok => ret[c].uid \notin Range(cb_list)

(* A call of the registry returns, and the network device gets through a   *)
(* capture, unless a failed call kept the lock.  (nettramon_set_cb,        *)
(* nettramon_packet_capture.)                                              *)
Serves ==
    /\ \A c \in Clients : call[c] # NoCall ~> call[c] = NoCall \/ Leaked
    /\ cap # "idle" ~> cap = "idle" \/ Leaked


=============================================================================
