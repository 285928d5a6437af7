--------------------------- MODULE AgentProtocol ---------------------------
(***************************************************************************)
(* The conversation over UDP between the agent thread of the host          *)
(* (agent.c) and the agent in the Windows guest (win_agent.c): import and  *)
(* export of files, export of the log, execution, invocation and sync.     *)
(*                                                                         *)
(* Sizes are counted in units larger than any control datagram; a chunk    *)
(* (SZ_MAX_FILECHUNK) is Chunk units.  A unit of a file is a pair of the   *)
(* command that moves the file and its place in it.  A datagram has a      *)
(* kind k, a value v and, for the properties only, the number of the       *)
(* command it belongs to.                                                  *)
(***************************************************************************)
EXTENDS Integers, Sequences, SequencesExt

CONSTANTS
    Commands,    \* the commands that the user enters
    Sizes,       \* sizes of files
    Chunk,       \* SZ_MAX_FILECHUNK
    MaxCommands, MaxFaults, MaxTrouble, MaxOut, MaxQueue  \* bounds

ASSUME ProtocolAssumption ==
    /\ Commands \subseteq {"impo", "expo", "logf", "exec", "invo", "sync"}
    /\ Sizes \subseteq Nat /\ Chunk \in Nat \ {0}
    /\ {MaxCommands, MaxFaults, MaxTrouble, MaxOut, MaxQueue} \subseteq Nat

VARIABLES
    h2g, g2h,               \* datagrams on their way
    hpc, cmd, nth,          \* host: place, command, its number
    hleft, hsrc, hfile,     \* host: fsize, file to import, file exported to
    hbuf,                   \* host: the chunk in fbuf not yet stored or sent
    result,                 \* host: result of the last command
    gpc, gcmd, gof,         \* guest: place, command, its number
    gsize, gpos, gfile,     \* guest: size of the file, bytes done, its content
    input_thread,           \* guest: the thread that forwards input runs
    child,                  \* guest: the child runs
    faults, outs,           \* failed system calls, writes of the child
    trouble                 \* history: what the code does not handle, see below

chan  == <<h2g, g2h>>
host  == <<hpc, cmd, nth, hleft, hsrc, hfile, hbuf, result>>
guest == <<gpc, gcmd, gof, gsize, gpos, gfile, input_thread, child, outs>>
vars  == <<chan, host, guest, faults, trouble>>

Msg(k, v, of) == [k |-> k, v |-> v, of |-> of]
Content(n, c) == [i \in 1 .. n |-> <<c, i>>]
Junk          == <<0, 0>>
Garbage       == 99     \* a size read from a datagram that holds none
Width         == 2^16   \* stands for the 2^64 of uint64_t
Least(a, b)   == IF a < b THEN a ELSE b

Init ==
    /\ h2g = << >> /\ g2h = << >>
    /\ hpc = "idle" /\ cmd = "none" /\ nth = 0 /\ hleft = 0 /\ hsrc = << >>
    /\ hfile = << >> /\ hbuf = << >> /\ result = "none"
    /\ gpc = "loop" /\ gcmd = "none" /\ gof = 0 /\ gsize = 0 /\ gpos = 0
    /\ gfile = << >> /\ input_thread = FALSE /\ child = FALSE
    /\ faults = 0 /\ outs = 0 /\ trouble = << >>

(* A system call fails, or nothing does.                                   *)
Fault   == faults < MaxFaults /\ faults' = faults + 1 /\ UNCHANGED trouble
NoFault == UNCHANGED <<faults, trouble>>

(* A file that changes between stat and read, a write that stores less     *)
(* than it is given, input entered during an execution, a child that       *)
(* writes nothing to its pipe, a lost datagram.                            *)
Trouble(kind) ==
    /\ Len(trouble) < MaxTrouble
    /\ trouble' = Append(trouble, [kind |-> kind, of |-> nth'])
    /\ UNCHANGED faults

TroubleIf(kind, happens) == IF happens THEN Trouble(kind) ELSE NoFault

-----------------------------------------------------------------------------
(* The host.                                                               *)

(* The host sends ms; g2h and the guest are left alone.                    *)
HostSends(ms) ==
    /\ Len(h2g) + Len(ms) <= MaxQueue
    /\ h2g' = h2g \o ms
    /\ UNCHANGED <<g2h, guest>>

(* The host, waiting at pc, takes a datagram.                              *)
HostTakes(pc) ==
    /\ hpc = pc /\ g2h # << >>
    /\ g2h' = Tail(g2h)

(* as_read: an empty datagram counts as a broken connection.               *)
HostBroken(pc) ==
    /\ HostTakes(pc) /\ Head(g2h).k = "empty"
    /\ hpc' = "broken" /\ result' = "fail"
    /\ UNCHANGED <<h2g, guest, trouble, faults, cmd, nth, hleft, hsrc, hfile, hbuf>>

HostFails == hpc' = "idle" /\ result' = "fail"
HostGoes(pc) == hpc' = pc /\ UNCHANGED result

(* The next turn of the loop over the file, or the end of it.              *)
HostLoop(left, pc) == HostGoes(IF left = 0 THEN "ack" ELSE pc)

(* A command is issued: import sends the command and the size of the file. *)
Issue(c, n, m) ==
    /\ hpc = "idle" /\ nth < MaxCommands
    /\ cmd' = c /\ nth' = nth + 1
    /\ hleft' = n /\ hsrc' = Content(m, nth + 1) /\ hfile' = << >> /\ hbuf' = << >>
    /\ hpc' = (CASE c = "impo" -> "i_open" [] c \in {"expo", "logf"} -> "x_open"
                 [] c = "exec" -> "e_prep" [] OTHER -> "r_ecm")
    /\ result' = "none"
    /\ HostSends(<<Msg("cmd", c, nth + 1)>> \o
                 IF c = "impo" THEN <<Msg("size", n, nth + 1)>> ELSE << >>)
    /\ TroubleIf("change", m # n)

(* ecm_read where the handler waits for it: success goes on, all else      *)
(* fails.                                                                  *)
AfterEcm ==
    CASE hpc = "i_open" -> HostLoop(hleft, "i_read")
      [] hpc = "i_write" -> IF Len(hbuf) < Chunk THEN HostGoes("i_ptr")
                            ELSE HostLoop(hleft, "i_read")
      [] hpc = "i_ptr" -> HostLoop(hleft, "i_read")
      [] hpc = "x_open" -> HostGoes("x_size")
      [] hpc = "x_ecm" -> HostGoes("x_data")
      [] hpc = "e_prep" -> HostGoes("e_size")
      [] hpc \in {"e_close", "r_ecm"} -> HostGoes("ack")

EcmPlaces == {"i_open", "i_write", "i_ptr", "x_open", "x_ecm", "e_prep",
              "e_close", "r_ecm"}

ecm_read ==
    /\ hpc \in EcmPlaces /\ HostTakes(hpc) /\ Head(g2h).k # "empty"
    /\ IF Head(g2h).k = "ok" THEN AfterEcm ELSE HostFails
    /\ UNCHANGED <<h2g, guest, trouble, faults, cmd, nth, hleft, hsrc, hfile, hbuf>>

(* import_host_file: a chunk is read and sent behind a success message; a  *)
(* read of nothing sends the message alone.                                *)
ImportChunk ==
    /\ hpc = "i_read"
    /\ LET n == Least(Chunk, Len(hsrc)) IN
          /\ hbuf' = SubSeq(hsrc, 1, n)
          /\ hsrc' = SubSeq(hsrc, n + 1, Len(hsrc))
          /\ hleft' = (hleft - n) % Width
          /\ HostGoes(IF n = 0 THEN "i_read" ELSE "i_write")
          /\ HostSends(<<Msg("ok", 0, nth)>> \o
                       IF n = 0 THEN << >> ELSE <<Msg("data", hbuf', nth)>>)
    /\ NoFault /\ UNCHANGED <<cmd, nth, hfile>>

ImportReadFails ==
    /\ hpc = "i_read" /\ Fault
    /\ HostFails /\ HostSends(<<Msg("fail", 0, nth)>>)
    /\ UNCHANGED <<cmd, nth, hleft, hsrc, hfile, hbuf>>

(* export_guest_file and export_agent_log: the size, ...                   *)
ExportSize ==
    /\ HostTakes("x_size") /\ Head(g2h).k # "empty"
    /\ IF Head(g2h).k = "osize" THEN HostFails /\ UNCHANGED hleft
       ELSE /\ hleft' = (IF Head(g2h).k = "size" THEN Head(g2h).v ELSE Garbage)
            /\ HostGoes("x_file")
    /\ UNCHANGED <<h2g, guest, trouble, faults, cmd, nth, hsrc, hfile, hbuf>>

(* ... the file to store to, ...                                           *)
ExportOpen ==
    /\ hpc = "x_file"
    /\ HostLoop(hleft, "x_ecm") /\ HostSends(<<Msg("ok", 0, nth)>>) /\ NoFault
    /\ UNCHANGED <<cmd, nth, hleft, hsrc, hfile, hbuf>>

ExportOpenFails ==
    /\ hpc = "x_file" /\ Fault
    /\ HostFails /\ HostSends(<<Msg("fail", 0, nth)>>)
    /\ UNCHANGED <<cmd, nth, hleft, hsrc, hfile, hbuf>>

(* ... a chunk, truncated to what is still expected (a control datagram in *)
(* its place is stored, too, and is less than a unit), ...                 *)
ExportData ==
    /\ HostTakes("x_data") /\ Head(g2h).k # "empty"
    /\ IF Head(g2h).k = "data"
       THEN LET n == Least(Least(hleft, Chunk), Len(Head(g2h).v))
            IN  hbuf' = SubSeq(Head(g2h).v, 1, n) /\ hleft' = hleft - n
       ELSE hbuf' = <<Junk>> /\ UNCHANGED hleft
    /\ HostGoes("x_store")
    /\ UNCHANGED <<h2g, guest, trouble, faults, cmd, nth, hsrc, hfile>>

(* ... which is stored in one or more writes, each confirmed to the guest. *)
ExportStore ==
    /\ hpc = "x_store"
    /\ \E n \in 1 .. Len(hbuf) :
          /\ hfile' = hfile \o SubSeq(hbuf, 1, n)
          /\ hbuf' = SubSeq(hbuf, n + 1, Len(hbuf))
          /\ IF n < Len(hbuf) THEN HostGoes("x_store") ELSE HostLoop(hleft, "x_ecm")
    /\ HostSends(<<Msg("ok", 0, nth)>>)
    /\ UNCHANGED <<cmd, nth, hleft, hsrc>>
    /\ TroubleIf("partial", hbuf' # << >>)

ExportStoreFails ==
    /\ hpc = "x_store" /\ Fault
    /\ HostFails /\ HostSends(<<Msg("fail", 0, nth)>>)
    /\ UNCHANGED <<cmd, nth, hleft, hsrc, hfile, hbuf>>

(* execute_guest_cmd_return: sizes of output and the output itself.        *)
ExecSize ==
    /\ HostTakes("e_size") /\ Head(g2h).k # "empty"
    /\ hleft' = (IF Head(g2h).k = "osize" THEN Head(g2h).v ELSE Garbage)
    /\ HostGoes(IF hleft' = 0 THEN "e_close" ELSE "e_data")
    /\ UNCHANGED <<h2g, guest, trouble, faults, cmd, nth, hsrc, hfile, hbuf>>

ExecData ==
    /\ HostTakes("e_data") /\ Head(g2h).k # "empty"
    /\ LET n == IF Head(g2h).k = "data" THEN Len(Head(g2h).v) ELSE 0 IN
          hleft' = hleft - Least(hleft, n)
    /\ HostGoes(IF hleft' = 0 THEN "e_size" ELSE "e_data")
    /\ UNCHANGED <<h2g, guest, trouble, faults, cmd, nth, hsrc, hfile, hbuf>>

(* agent_handle_exec_command, from the monitor while the action is EXEC.   *)
agent_handle_exec_command ==
    /\ cmd = "exec" /\ hpc \notin {"idle", "broken"}
    /\ \A i \in DOMAIN h2g : h2g[i].k # "input"
    /\ HostSends(<<Msg("input", 0, nth)>>)
    /\ UNCHANGED host /\ Trouble("input")

(* show_server_ack: the prefix, then the echo of the command.              *)
show_server_ack ==
    /\ hpc \in {"ack", "echo"} /\ HostTakes(hpc) /\ Head(g2h).k # "empty"
    /\ IF hpc = "ack" THEN HostGoes("echo") ELSE hpc' = "idle" /\ result' = "success"
    /\ UNCHANGED <<h2g, guest, trouble, faults, cmd, nth, hleft, hsrc, hfile, hbuf>>

User ==
    \/ agent_handle_exec_command
    \/ \E c \in Commands \ {"impo"} : Issue(c, 0, 0)
    \/ \E n, m \in Sizes : "impo" \in Commands /\ Issue("impo", n, m)

Host ==
    \/ \E pc \in EcmPlaces \cup {"x_size", "x_data", "e_size", "e_data", "ack",
                                 "echo"} : HostBroken(pc)
    \/ ecm_read \/ ImportChunk \/ ImportReadFails
    \/ ExportSize \/ ExportOpen \/ ExportOpenFails
    \/ ExportData \/ ExportStore \/ ExportStoreFails
    \/ ExecSize \/ ExecData \/ show_server_ack

-----------------------------------------------------------------------------
(* The guest.                                                              *)

(* The guest sends ms and, if it takes a datagram, h2g' says so.           *)
GuestSends(ms) ==
    /\ Len(g2h) + Len(ms) <= MaxQueue
    /\ g2h' = g2h \o ms
    /\ UNCHANGED host

GuestTakes(pc) == gpc = pc /\ h2g # << >> /\ h2g' = Tail(h2g)

Ok   == <<Msg("ok", 0, gof)>>
Fail == <<Msg("fail", 0, gof)>>
Acks(of) == <<Msg("ack", 0, of), Msg("echo", 0, of)>>

exec_state == <<input_thread, child, outs>>
transfer   == <<gsize, gpos, gfile>>

(* Mutant: failed commands are acknowledged, too.                          *)
GuestFailsAcks(ms) ==
    /\ GuestSends(ms \o Acks(gof)) /\ gpc' = "loop"
    /\ UNCHANGED <<gcmd, gof, exec_state>>

(* A handler fails: the main loop sends no acknowledgement.                *)
GuestFails(ms) ==
    /\ GuestSends(ms) /\ gpc' = "loop"
    /\ UNCHANGED <<gcmd, gof, exec_state>>

(* A handler sends ms and goes on, or is done and the command is echoed.   *)
GuestGoes(ms, done, pc) ==
    /\ GuestSends(IF done THEN ms \o Acks(gof) ELSE ms)
    /\ gpc' = (IF done THEN "loop" ELSE pc)
    /\ UNCHANGED <<gcmd, gof, exec_state>>

(* server_mainloop: a command starts its handler, ...                      *)
GuestCommand ==
    /\ GuestTakes("loop") /\ Head(h2g).k = "cmd"
    /\ gcmd' = Head(h2g).v /\ gof' = Head(h2g).of
    /\ gpc' = (CASE gcmd' = "impo" -> "i_size" [] gcmd' \in {"expo", "logf"} -> "x_open"
                 [] gcmd' = "exec" -> "e_prep" [] OTHER -> "r_do")
    /\ GuestSends(<< >>) /\ NoFault /\ UNCHANGED <<transfer, exec_state>>

(* ... any other text is an unknown command and acknowledged, ...          *)
GuestUnknown ==
    /\ GuestTakes("loop") /\ Head(h2g).k \notin {"cmd", "data"}
    /\ GuestSends(Acks(Head(h2g).of)) /\ NoFault
    /\ UNCHANGED <<gpc, gcmd, gof, transfer, exec_state>>

(* ... and a datagram longer than the buffer is an error: the socket is    *)
(* closed for good.                                                        *)
GuestTooLong ==
    /\ GuestTakes("loop") /\ Head(h2g).k = "data"
    /\ gpc' = "closed"
    /\ GuestSends(<< >>) /\ NoFault
    /\ UNCHANGED <<gcmd, gof, transfer, exec_state>>


(* import_cmd                                                              *)
ImportSize ==
    /\ GuestTakes("i_size")
    /\ \/ /\ Head(h2g).k \in {"size", "ok", "fail"}
          /\ gsize' = (IF Head(h2g).k = "size" THEN Head(h2g).v ELSE Garbage)
          /\ gpos' = 0 /\ gfile' = << >>
          /\ GuestGoes(Ok, gsize' = 0, "i_ecm") /\ NoFault
       \/ /\ Head(h2g).k \in {"size", "ok", "fail"}
          /\ GuestFails(Fail) /\ Fault /\ UNCHANGED transfer
       \/ /\ Head(h2g).k \notin {"size", "ok", "fail"}
          /\ GuestFails(<< >>) /\ NoFault /\ UNCHANGED transfer

ImportEcm ==
    /\ GuestTakes("i_ecm")
    /\ IF Head(h2g).k = "ok" THEN GuestGoes(<< >>, FALSE, "i_data")
                             ELSE GuestFails(<< >>)
    /\ NoFault /\ UNCHANGED transfer

Expects == Least(Chunk, gsize - gpos)

Fits(m) == IF m.k = "data" THEN Len(m.v) = Expects ELSE FALSE

Pad == [i \in 1 .. Chunk - Expects |-> Junk]

(* Whole chunks are written as they are; the last one is padded to a chunk *)
(* and the file cut afterwards.                                            *)
ImportData ==
    /\ GuestTakes("i_data")
    /\ LET m == Head(h2g) IN
       \/ /\ Fits(m)
          /\ gfile' = gfile \o m.v \o Pad /\ gpos' = gpos + Expects /\ UNCHANGED gsize
          /\ NoFault
          /\ IF Expects = Chunk THEN GuestGoes(Ok, gpos' = gsize, "i_ecm")
                                ELSE GuestGoes(Ok, FALSE, "i_ptr")
       \/ /\ Fits(m)
          /\ GuestFails(Fail) /\ Fault /\ UNCHANGED transfer
       \/ /\ ~ Fits(m)
          /\ GuestFails(<< >>) /\ NoFault /\ UNCHANGED transfer

(* Mutant: the end of the file is not set.                                 *)
ImportEndPadded ==
    /\ gpc = "i_ptr"
    /\ GuestGoes(Ok, TRUE, "loop") /\ NoFault
    /\ UNCHANGED <<h2g, gfile, gsize, gpos>>

ImportEnd ==
    /\ gpc = "i_ptr"
    /\ GuestGoes(Ok, TRUE, "loop") /\ NoFault
    /\ gfile' = SubSeq(gfile, 1, gpos) /\ UNCHANGED <<h2g, gsize, gpos>>

ImportEndFails ==
    /\ gpc = "i_ptr"
    /\ GuestFails(Fail) /\ Fault /\ UNCHANGED <<h2g, transfer>>

(* export_cmd and expolog_cmd                                              *)
ExportStart(n) ==
    /\ gpc = "x_open"
    /\ gsize' = n /\ gpos' = 0 /\ gfile' = Content(n, gof)
    /\ GuestGoes(Ok \o <<Msg("size", n, gof)>>, FALSE, "x_wait") /\ NoFault
    /\ UNCHANGED h2g

(* Preparations, a read of the file, a process that is not created.        *)
GuestTrouble ==
    /\ gpc \in {"x_open", "x_read", "e_prep", "r_do"} /\ Fault
    /\ GuestFails(Fail) /\ UNCHANGED <<h2g, transfer>>

ExportReady ==
    /\ GuestTakes("x_wait")
    /\ IF Head(h2g).k = "ok" THEN GuestGoes(<< >>, gsize = 0, "x_read")
                             ELSE GuestFails(<< >>)
    /\ NoFault /\ UNCHANGED transfer

ExportRead ==
    /\ gpc = "x_read"
    /\ GuestGoes(Ok \o <<Msg("data", SubSeq(gfile, gpos + 1, gpos + Expects), gof)>>,
                 FALSE, "x_conf")
    /\ NoFault /\ UNCHANGED <<h2g, transfer>>

ExportConfirmed ==
    /\ GuestTakes("x_conf")
    /\ IF Head(h2g).k = "ok"
       THEN gpos' = gpos + Expects /\ GuestGoes(<< >>, gpos' = gsize, "x_read")
       ELSE GuestFails(<< >>) /\ UNCHANGED gpos
    /\ NoFault /\ UNCHANGED <<gsize, gfile>>

(* execute_cmd: the thread that forwards input starts before the           *)
(* preparations are confirmed.                                             *)
ExecStart ==
    /\ gpc = "e_prep"
    /\ input_thread' = TRUE /\ child' = TRUE /\ outs' = 0
    /\ gpc' = "e_out" /\ GuestSends(Ok) /\ NoFault
    /\ UNCHANGED <<h2g, gcmd, gof, transfer>>

(* read_and_handle_output: the child writes n units.                       *)
ExecOutput(n) ==
    /\ gpc = "e_out" /\ child /\ outs < MaxOut /\ outs' = outs + 1
    /\ GuestSends(<<Msg("osize", n, gof),
                    IF n = 0 THEN Msg("empty", 0, gof)
                             ELSE Msg("data", Content(n, gof), gof)>>)
    /\ TroubleIf("zero", n = 0)
    /\ UNCHANGED <<h2g, gpc, gcmd, gof, transfer, input_thread, child>>

(* get_and_send_input_thread; its pipe breaks when the child is gone.      *)
get_and_send_input_thread ==
    /\ input_thread /\ h2g # << >> /\ h2g' = Tail(h2g)
    /\ input_thread' = child
    /\ GuestSends(<< >>) /\ NoFault
    /\ UNCHANGED <<gpc, gcmd, gof, transfer, child, outs>>

ChildExit ==
    /\ gpc = "e_out" /\ child /\ child' = FALSE
    /\ GuestSends(<< >>) /\ NoFault
    /\ UNCHANGED <<h2g, gpc, gcmd, gof, transfer, input_thread, outs>>

(* Mutant: the end is announced though the child may write more.           *)
ExecEndEarly ==
    /\ gpc = "e_out" /\ input_thread' = FALSE
    /\ GuestSends(<<Msg("osize", 0, gof)>> \o Ok \o Acks(gof)) /\ NoFault
    /\ gpc' = "loop"
    /\ UNCHANGED <<h2g, gcmd, gof, transfer, child, outs>>


(* The output is at its end: a size of zero, the thread stopped, the       *)
(* handles closed.                                                         *)
ExecEnd ==
    /\ gpc = "e_out" /\ ~ child
    /\ input_thread' = FALSE
    /\ \/ /\ GuestSends(<<Msg("osize", 0, gof)>> \o Ok \o Acks(gof)) /\ NoFault
       \/ /\ GuestSends(<<Msg("osize", 0, gof)>> \o Fail) /\ Fault
    /\ gpc' = "loop"
    /\ UNCHANGED <<h2g, gcmd, gof, transfer, child, outs>>

(* invoke_cmd and sync_cmd                                                 *)
GuestDoes ==
    /\ gpc = "r_do"
    /\ GuestGoes(Ok, TRUE, "loop") /\ NoFault /\ UNCHANGED <<h2g, transfer>>

Guest ==
    \/ GuestCommand \/ GuestUnknown \/ GuestTooLong \/ GuestTrouble \/ GuestDoes
    \/ ImportSize \/ ImportEcm \/ ImportData \/ ImportEnd \/ ImportEndFails
    \/ \E n \in Sizes : ExportStart(n)
    \/ ExportReady \/ ExportRead \/ ExportConfirmed
    \/ ExecStart \/ get_and_send_input_thread \/ ExecEnd

-----------------------------------------------------------------------------
(* The network, and the whole.                                             *)

Lose ==
    /\ \/ \E i \in DOMAIN h2g : h2g' = RemoveAt(h2g, i) /\ UNCHANGED g2h
       \/ \E i \in DOMAIN g2h : g2h' = RemoveAt(g2h, i) /\ UNCHANGED h2g
    /\ UNCHANGED <<host, guest>>
    /\ Trouble("loss")

Child == ChildExit \/ \E n \in {0, 1} : ExecOutput(n)

Next == User \/ Host \/ Guest \/ Child \/ Lose

Spec == Init /\ [][Next]_vars

(* Both programs run, and a child that was started comes to its end.       *)
(* Nobody has to type, and a child does not have to write.                 *)
FairSpec == Spec /\ WF_vars(Host) /\ WF_vars(Guest) /\ WF_vars(ChildExit)

-----------------------------------------------------------------------------
(* Properties.                                                             *)

(* The state is well formed, and the guest reads no further than the file. *)
TypeOK ==
    /\ hpc \in EcmPlaces \cup {"idle", "broken", "i_read", "x_size", "x_file",
                               "x_data", "x_store", "e_size", "e_data", "ack", "echo"}
    /\ gpc \in {"loop", "closed", "i_size", "i_ecm", "i_data", "i_ptr", "x_open",
                "x_wait", "x_read", "x_conf", "e_prep", "e_out", "r_do"}
    /\ gpos <= gsize /\ Len(hbuf) <= Chunk /\ hleft \in 0 .. Width - 1

(* Nothing of these kinds has happened so far.                             *)
Without(kinds) == \A i \in DOMAIN trouble : trouble[i].kind \notin kinds

(* Nothing of the kind has happened before the command under way.          *)
InStepBefore == \A i \in DOMAIN trouble : trouble[i].of = nth

(* What an import under way has written in the guest comes from its own    *)
(* command and sits in its place, padding apart, even when datagrams are   *)
(* lost and the two sides have fallen out of step.  (import_cmd.)          *)
InPlace ==
    gpc \in {"i_ecm", "i_data", "i_ptr"} =>
       \A i \in DOMAIN gfile : gfile[i] \in {Junk, <<gof, i>>}


(* Host and guest stay in step: every datagram towards the host answers    *)
(* the command under way, and none is left over when it ends, failed       *)
(* commands included.  (Every error path of the handlers.)                 *)
InStep ==
    trouble = << >> => /\ \A i \in DOMAIN g2h : g2h[i].of = nth
                       /\ hpc = "idle" => g2h = << >>


(* win_agent.c, in execute_cmd: "send out the zero-sized message to        *)
(* terminate agent 'exec' action".  The host stops listening for output    *)
(* only when the child has ended, unless the child wrote nothing or        *)
(* datagrams were lost.  (execute_guest_cmd_return.)                       *)
OutputComplete == hpc = "e_close" /\ Without({"zero", "loss"}) => ~ child

=============================================================================
