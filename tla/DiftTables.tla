----------------------------- MODULE DiftTables -----------------------------
(***************************************************************************)
(* The taint tables of DIFT: one record per byte of guest memory, and a    *)
(* two-level table for the disk whose pages are allocated on first use     *)
(* (dift.c).  Two threads work on them and take no lock: the analysis      *)
(* thread, which carries out the records of the queue, and the monitor,    *)
(* whose commands call the public interface.  A contamination record is    *)
(* the set of the tags whose bit is set.                                   *)
(*                                                                         *)
(* A byte is updated in one step; two operations under way at the same     *)
(* time that share a byte are noted as a race and nothing is said then.    *)
(***************************************************************************)
EXTENDS Integers, Sequences

CONSTANTS
    RamSize,    \* phys_ram_size
    Slack,      \* getpagesize(): bytes of mem_dirty_tbl behind the memory
    PageLen,    \* HD_L2_SIZE
    PageCount,  \* HD_L1_SIZE; HD_MAX_SIZE is PageCount * PageLen
    Tags,       \* the bits a tag may use
    Requests,   \* the operations asked for
    MaxJobs     \* bound: operations in a behaviour

ASSUME TablesAssumption ==
    /\ {RamSize, PageCount, MaxJobs} \subseteq Nat
    /\ PageLen \in Nat \ {0} /\ Slack \in Nat \ {0, 1}
    /\ \A r \in Requests : r.len < Slack

VARIABLES
    mem_dirty_tbl,
    hd_l1_dirty_tbl, \* index -> its page, or NULL
    pages,           \* the level-2 pages, in the order of their allocation
    job,             \* thread -> the operation it carries out, or Idle
    jobs,            \* counts up to MaxJobs
    memory, disk,    \* history: what the bytes should be tagged with
    spoiled          \* history: what nothing is promised for, see Spoils

tables == <<mem_dirty_tbl, hd_l1_dirty_tbl, pages>>
vars   == <<tables, job, jobs, memory, disk, spoiled>>

NULL    == 0
Threads == {"analysis", "monitor"}
Ram     == 0 .. RamSize - 1
Disk    == 0 .. PageCount * PageLen - 1

clean_source == RamSize
null_sink    == RamSize + 1

HD_L1_INDEX(h) == h \div PageLen
HD_L2_INDEX(h) == h % PageLen

Idle == [op |-> "idle"]

Copies   == {"hd_mem", "mem_hd"}           \* named, as in the code, DST_SRC
DiskTags == {"hd_or", "hd_and"}
MemTags  == {"mem_or", "mem_and", "mem_clear"}

(* init_dift_context                                                       *)
Init ==
    /\ mem_dirty_tbl = [a \in 0 .. RamSize + Slack - 1 |-> {}]
    /\ hd_l1_dirty_tbl = [i \in 0 .. PageCount - 1 |-> NULL]
    /\ pages = << >>
    /\ job = [t \in Threads |-> Idle] /\ jobs = 0
    /\ memory = [a \in Ram |-> {}] /\ disk = [h \in Disk |-> {}]
    /\ spoiled = {}

-----------------------------------------------------------------------------
(* Operations.                                                             *)

is_valid_tag(tag) == tag \subseteq Tags

is_valid_mem_range(a, len) ==
    \/ a <= RamSize /\ len <= RamSize - a
    \/ a \in {clean_source, null_sink}

is_valid_disk_range(h, len) ==
    LET max == PageCount * PageLen IN h <= max /\ len <= max - h

Accepted(r) ==
    /\ r.op \in Copies \cup MemTags => is_valid_mem_range(r.mem, r.len)
    /\ r.op \in Copies \cup DiskTags => is_valid_disk_range(r.hd, r.len)
    /\ is_valid_tag(r.tag)
    /\ r.op \in DiskTags => r.tag # {}


(* The handlers of the records send an address outside the memory to the   *)
(* clean source or to the null sink; the public interface takes it as it   *)
(* is.                                                                     *)
Redirected(t, r) ==
    IF t = "monitor" \/ r.mem < RamSize THEN r
    ELSE [r EXCEPT !.mem = IF r.op = "hd_mem" THEN clean_source ELSE null_sink]

get_hd_dirty(h) ==
    IF hd_l1_dirty_tbl[HD_L1_INDEX(h)] = NULL THEN {}
    ELSE pages[hd_l1_dirty_tbl[HD_L1_INDEX(h)]][HD_L2_INDEX(h)]

Combined(op, old, tag) ==
    CASE op \in {"hd_or", "mem_or"}   -> old \cup tag
      [] op \in {"hd_and", "mem_and"} -> old \cap tag
      [] op = "mem_clear"             -> {}

-----------------------------------------------------------------------------
(* What an operation promises.  Memory that does not exist is clean, and   *)
(* what is put there is lost.                                              *)

MemSpan(r) == IF r.op \in Copies \cup MemTags THEN r.mem .. r.mem + r.len - 1 ELSE {}
HdSpan(r)  == IF r.op \in Copies \cup DiskTags THEN r.hd .. r.hd + r.len - 1 ELSE {}

Promised(r) ==
    /\ memory' = [a \in Ram |->
          IF a \notin MemSpan(r) \/ r.op = "hd_mem" THEN memory[a]
          ELSE IF r.op = "mem_hd" THEN disk[r.hd + (a - r.mem)]
          ELSE Combined(r.op, memory[a], r.tag)]
    /\ disk' = [h \in Disk |->
          IF h \notin HdSpan(r) \/ r.op = "mem_hd" THEN disk[h]
          ELSE IF r.op \in DiskTags THEN Combined(r.op, disk[h], r.tag)
          ELSE LET a == r.mem + (h - r.hd) IN IF a \in Ram THEN memory[a] ELSE {}]

(* Two operations share a byte, or a page of the disk that the first of    *)
(* them may still have to allocate.                                        *)
Races(r, j) ==
    \/ MemSpan(r) \cap MemSpan(j) # {} \/ HdSpan(r) \cap HdSpan(j) # {}
    \/ \E h \in HdSpan(r), g \in HdSpan(j) :
          /\ HD_L1_INDEX(h) = HD_L1_INDEX(g)
          /\ hd_l1_dirty_tbl[HD_L1_INDEX(h)] = NULL

(* A race; a tag put on the clean source itself; a read of several bytes   *)
(* from the clean source, which runs into the null sink.                   *)
Spoils(t, r) ==
    {s \in {"race", "source", "sink"} :
        \/ s = "race" /\ \E u \in Threads \ {t} : job[u] # Idle /\ Races(r, job[u])
        \/ s = "source" /\ r.op \in MemTags /\ r.mem = clean_source
        \/ s = "sink" /\ r.op = "hd_mem" /\ r.mem = clean_source /\ r.len > 1}

-----------------------------------------------------------------------------
(* The threads.                                                            *)

(* Where an operation begins, and goes on once n bytes are done.           *)
FirstStep(op) == IF op \in {"hd_mem", "hd_or"} THEN "page" ELSE "move"

(* Mutant: len is not counted down.                                        *)
AdvancedWhole(j, n) ==
    IF n = j.len THEN Idle
    ELSE [j EXCEPT !.mem = @ + n, !.hd = @ + n, !.pc = FirstStep(j.op)]

Advanced(j, n) ==
    IF n = j.len THEN Idle
    ELSE [j EXCEPT !.mem = @ + n, !.hd = @ + n, !.len = @ - n, !.pc = FirstStep(j.op)]

(* The analysis thread meets a record, or the monitor calls the interface, *)
(* which offers neither copies nor mem_clear.                              *)
Begin(t, r) ==
    /\ job[t] = Idle /\ jobs < MaxJobs
    /\ t = "monitor" => r.op \notin Copies \cup {"mem_clear"}
    /\ jobs' = jobs + 1
    /\ LET q == Redirected(t, r) IN
          IF Accepted(q) /\ q.len > 0
          THEN /\ job' = [job EXCEPT ![t] =
                    [op |-> q.op, mem |-> q.mem, hd |-> q.hd, len |-> q.len,
                     tag |-> q.tag, pc |-> FirstStep(q.op), page |-> NULL]]
               /\ Promised(q) /\ spoiled' = spoiled \cup Spoils(t, q)
          ELSE UNCHANGED <<job, memory, disk, spoiled>>
    /\ UNCHANGED tables

At(t, pc) == job[t] # Idle /\ job[t].pc = pc

(* The page is there, or alloc_hd_dirty_page gives a clean one, ...        *)
alloc_hd_dirty_page(t) ==
    /\ At(t, "page")
    /\ IF hd_l1_dirty_tbl[HD_L1_INDEX(job[t].hd)] # NULL
       THEN job' = [job EXCEPT ![t].pc = "move"] /\ UNCHANGED pages
       ELSE /\ pages' = Append(pages, [i \in 0 .. PageLen - 1 |-> {}])
            /\ job' = [job EXCEPT ![t].pc = "link", ![t].page = Len(pages')]
    /\ UNCHANGED <<mem_dirty_tbl, hd_l1_dirty_tbl, jobs, memory, disk, spoiled>>

(* ... which is stored in the level-1 table.                               *)
Link(t) ==
    /\ At(t, "link")
    /\ hd_l1_dirty_tbl' = [hd_l1_dirty_tbl EXCEPT ![HD_L1_INDEX(job[t].hd)] = job[t].page]
    /\ job' = [job EXCEPT ![t].pc = "move"]
    /\ UNCHANGED <<mem_dirty_tbl, pages, jobs, memory, disk, spoiled>>

(* Mutant: rounding up, which is 0 at the start of a page.                 *)
progress_rounded(j) ==
    LET rest == (PageLen - HD_L2_INDEX(j.hd)) % PageLen
    IN  IF rest < j.len THEN rest ELSE j.len

(* progress: to the end of the page or of the range.                       *)
progress(j) ==
    LET rest == PageLen - HD_L2_INDEX(j.hd)
    IN  IF rest < j.len THEN rest ELSE j.len

MoveByte(t) ==
    LET j  == job[t]
        pg == hd_l1_dirty_tbl[HD_L1_INDEX(j.hd)]
    IN
    /\ At(t, "move") /\ j.op \in DiskTags \cup MemTags
    /\ IF j.op \in MemTags
       THEN /\ mem_dirty_tbl' = [mem_dirty_tbl EXCEPT ![j.mem] = Combined(j.op, @, j.tag)]
            /\ UNCHANGED pages
       ELSE /\ pages' = (IF pg = NULL THEN pages
                         ELSE [pages EXCEPT ![pg][HD_L2_INDEX(j.hd)] =
                                  Combined(j.op, @, j.tag)])
            /\ UNCHANGED mem_dirty_tbl
    /\ job' = [job EXCEPT ![t] = Advanced(j, 1)]
    /\ UNCHANGED <<hd_l1_dirty_tbl, jobs, memory, disk, spoiled>>

copy_contamination_hd_mem(t) ==
    LET j  == job[t]
        pg == hd_l1_dirty_tbl[HD_L1_INDEX(j.hd)]
    IN
    /\ At(t, "move") /\ j.op = "hd_mem"
    /\ pages' = [pages EXCEPT ![pg] = [i \in 0 .. PageLen - 1 |->
          LET k == i - HD_L2_INDEX(j.hd)
          IN  IF k \in 0 .. progress(j) - 1 THEN mem_dirty_tbl[j.mem + k] ELSE @[i]]]
    /\ job' = [job EXCEPT ![t] = Advanced(j, progress(j))]
    /\ UNCHANGED <<mem_dirty_tbl, hd_l1_dirty_tbl, jobs, memory, disk, spoiled>>

(* Mutant: a page that was never allocated is skipped.                     *)
copy_allocated_mem_hd(t) ==
    LET j == job[t] IN
    /\ At(t, "move") /\ j.op = "mem_hd"
    /\ mem_dirty_tbl' = [a \in DOMAIN mem_dirty_tbl |->
          IF /\ a \in j.mem .. j.mem + progress(j) - 1
             /\ hd_l1_dirty_tbl[HD_L1_INDEX(j.hd)] # NULL
          THEN get_hd_dirty(j.hd + (a - j.mem)) ELSE mem_dirty_tbl[a]]
    /\ job' = [job EXCEPT ![t] = Advanced(j, progress(j))]
    /\ UNCHANGED <<hd_l1_dirty_tbl, pages, jobs, memory, disk, spoiled>>

copy_contamination_mem_hd(t) ==
    LET j == job[t] IN
    /\ At(t, "move") /\ j.op = "mem_hd"
    /\ mem_dirty_tbl' = [a \in DOMAIN mem_dirty_tbl |->
          IF a \in j.mem .. j.mem + progress(j) - 1
          THEN get_hd_dirty(j.hd + (a - j.mem)) ELSE mem_dirty_tbl[a]]
    /\ job' = [job EXCEPT ![t] = Advanced(j, progress(j))]
    /\ UNCHANGED <<hd_l1_dirty_tbl, pages, jobs, memory, disk, spoiled>>

Step(t) ==
    \/ alloc_hd_dirty_page(t) \/ Link(t) \/ MoveByte(t)
    \/ copy_contamination_hd_mem(t) \/ copy_contamination_mem_hd(t)

Quiet == jobs = MaxJobs /\ (\A t \in Threads : job[t] = Idle) /\ UNCHANGED vars

Next ==
    \/ \E t \in Threads : Step(t) \/ \E r \in Requests : Begin(t, r)
    \/ Quiet

Spec == Init /\ [][Next]_vars

(* Both threads are scheduled.                                             *)
FairSpec == Spec /\ \A t \in Threads : WF_vars(Step(t))

-----------------------------------------------------------------------------
(* Properties.                                                             *)

(* The state is well formed, and an operation under way stays inside the   *)
(* tables: the sink is long enough for the lengths asked for.              *)
TypeOK ==
    /\ \A i \in DOMAIN hd_l1_dirty_tbl : hd_l1_dirty_tbl[i] \in NULL .. Len(pages)
    /\ \A t \in Threads : job[t] # Idle =>
          /\ MemSpan(job[t]) \subseteq DOMAIN mem_dirty_tbl
          /\ HdSpan(job[t]) \subseteq Disk
    /\ spoiled \subseteq {"race", "source", "sink"}

(* The record that stands for memory that does not exist stays clean       *)
(* whatever the guest does, races included, as long as no command taints   *)
(* the address behind the memory.  (The handlers rt_hd_mem and rt_mem_hd.) *)
CleanSource == "source" \notin spoiled => mem_dirty_tbl[clean_source] = {}


(* Every operation ends.  (The loops over progress and len.)               *)
Finishes == \A t \in Threads : job[t] # Idle ~> job[t] = Idle

=============================================================================
