----------------------------- MODULE Replication -----------------------------
(***************************************************************************)
(* WAL replication of graphite-server/src/main.rs: a primary whose inserts *)
(* each spawn a task that pushes the WAL to the replicas, replicas that    *)
(* also pull it in a loop, and what apply_replication_batch makes of the   *)
(* batches on a replica.  Requests and answers may be lost, a client may   *)
(* give up on a request that is still being handled, and either node may   *)
(* be killed and started again.                                            *)
(*                                                                         *)
(* The i-th record of the primary's WAL has the sequence number i - 1 in   *)
(* the code and i here; 0 stands for None and for NEVER_PUSHED.  The       *)
(* number is also the version of the tick.  The primary's WAL is never     *)
(* truncated: the server calls no flush, and the one an insert starts at   *)
(* the threshold does not get as far (module LsmLocks).                    *)
(***************************************************************************)
EXTENDS Naturals, Sequences, FiniteSets, Selection

CONSTANTS
    Task,         \* bound: the push tasks that run at a time
    Replica,      \* the replicas
    Deployments,  \* how the nodes may be started: see Deployment
    None,         \* "no symbol"
    Symbol,       \* symbol names
    Timestamp,    \* timestamps
    Written,      \* Written[n]: the (symbol, timestamp) pairs the n-th tick may have
    MaxTicks,     \* bound: ticks written
    MaxFaults     \* bound: requests lost or given up, failed appends, restarts

(***************************************************************************)
(* A deployment: the replicas that run, each with the --primary-url that   *)
(* its sync loop needs; the primary's replica_urls; the entries of one     *)
(* batch (500 in the code); and, a bound, the push tasks that overlap.     *)
(***************************************************************************)
Deployment ==
    [replicas : SUBSET Replica, urls : Seq(Replica), limit : Nat \ {0}, tasks : SUBSET Task]

ASSUME ReplicationAssumption ==
    /\ Task \cap Replica = {}
    /\ "primary" \notin Replica
    /\ Deployments \subseteq Deployment
    /\ None \notin Symbol
    /\ IsFiniteSet(Symbol)
    /\ {MaxTicks, MaxFaults} \subseteq Nat
    /\ Written \in [1 .. MaxTicks -> SUBSET (Symbol \X Timestamp)]

Job == Task \cup Replica
Id == 0 .. Cardinality(Symbol) - 1
Key == Id \X Timestamp
Sequence == 1 .. MaxTicks

\* An entry of a batch.
Entry == [seq : Sequence, id : Id, ts : Timestamp, name : Symbol \cup {None}]

VARIABLES
    conf,       \* the deployment
    log,        \* the primary's WAL: the pair and the id of every record
    dict,       \* the primary's symbol dictionary
    pushed,     \* last_pushed_seq
    job,        \* job[j]: a push task, or the sync loop of a replica
    rdict,      \* rdict[r]: the dictionary of replica r
    rlog,       \* rlog[r]: the sequence numbers of the ticks that r has logged
    replay,     \* replay[r]: the memtable that a replay of its WAL gives
    rmem,       \* rmem[r]: its memtable, 0 meaning absent
    applied,    \* applied[r]: last_primary_sequence, in memory and on disk
    refused,    \* history: a store of last_pushed_seq passed a refused batch
    late,       \* history: replicas that put a tick over a newer one
    restarted,  \* history: the nodes that have been restarted
    faults      \* the number of faults so far

primary == << log, dict, pushed >>
replicas == << rdict, rlog, replay, rmem, applied >>
history == << refused, late, restarted >>
vars == << conf, primary, job, replicas, history, faults >>

(***************************************************************************)
(* A job is at                                                             *)
(*   load     about to load last_pushed_seq                                *)
(*   read     about to read the primary's WAL                              *)
(*   name     about to look up the names of what it has read               *)
(*   log      its batch is on the way to a replica, urls[url] for a push,     *)
(*            or has arrived there: apply_replication_batch logs it next   *)
(*   memtable, advance                                                     *)
(*            further on in apply_replication_batch                        *)
(*   store    about to store last_pushed_seq                               *)
(* ok says that no replica has answered a post with an error, gave that    *)
(* the client has given up on a post that a replica still handles.         *)
(***************************************************************************)
Handling == {"log", "memtable", "advance"}
Idle == [pc |-> "idle", after |-> 0, batch |-> << >>, url |-> 1, ok |-> TRUE, gave |-> FALSE]

TypeOK ==
    /\ conf \in Deployments
    /\ log \in Seq([pair : Symbol \X Timestamp, id : Id]) /\ Len(log) <= MaxTicks
    /\ dict \in Seq(Symbol)
    /\ pushed \in 0 .. Len(log)
    /\ job \in [Job -> [pc : {"idle", "load", "read", "name", "store"} \cup Handling,
                        after : 0 .. Len(log), batch : Seq(Entry), url : Nat \ {0},
                        ok : BOOLEAN, gave : BOOLEAN]]
    /\ \A t \in Task : job[t].pc \in {"store"} \cup Handling => job[t].url \in 1 .. Len(conf.urls)
    /\ rdict \in [Replica -> Seq(Symbol)]
    /\ rlog \in [Replica -> SUBSET (1 .. Len(log))]
    /\ {replay, rmem} \subseteq [Replica -> [Key -> 0 .. MaxTicks]]
    /\ applied \in [Replica -> 0 .. Len(log)]
    /\ refused \in BOOLEAN
    /\ late \subseteq Replica
    /\ restarted \subseteq Replica \cup {"primary"}
    /\ faults \in 0 .. MaxFaults

Init ==
    /\ conf \in Deployments
    /\ log = << >> /\ dict = << >> /\ pushed = 0
    /\ job = [j \in Job |-> Idle]
    /\ rdict = [r \in Replica |-> << >>]
    /\ rlog = [r \in Replica |-> {}]
    /\ replay = [r \in Replica |-> [k \in Key |-> 0]]
    /\ rmem = replay
    /\ applied = [r \in Replica |-> 0]
    /\ refused = FALSE /\ late = {} /\ restarted = {}
    /\ faults = 0

(***************************************************************************)
(* Helpers.                                                                *)
(***************************************************************************)

Known(d) == { d[i] : i \in 1 .. Len(d) }
get_or_insert(d, s) == IF s \in Known(d) THEN d ELSE Append(d, s)
get_id(d, s) == (CHOOSE i \in 1 .. Len(d) : d[i] = s) - 1
name_of(d, id) == IF id + 1 \in 1 .. Len(d) THEN d[id + 1] ELSE None

Fault == faults < MaxFaults /\ faults' = faults + 1

Goto(j, label) == job' = [job EXCEPT ![j].pc = label]
Drop(j) == job' = [job EXCEPT ![j] = Idle]

\* The replica that job j applies its batch at.
At(j) == IF j \in Replica THEN j ELSE conf.urls[job[j].url]


(***************************************************************************)
(* The primary.                                                            *)
(***************************************************************************)

\* POST /tick: insert, and spawn a push if there is anybody to push to.
insert_tick(t) ==
    /\ t \in conf.tasks
    /\ job[t].pc = "idle"
    /\ Len(log) < MaxTicks
    /\ \E pair \in Written[Len(log) + 1] :
        /\ dict' = get_or_insert(dict, pair[1])
        /\ log' = Append(log, [pair |-> pair, id |-> get_id(dict', pair[1])])
    /\ IF conf.urls = << >> THEN UNCHANGED job ELSE Goto(t, "load")
    /\ UNCHANGED << conf, pushed, replicas, history, faults >>

load(t) ==
    /\ job[t].pc = "load"
    /\ job' = [job EXCEPT ![t].after = pushed, ![t].pc = "read"]
    /\ UNCHANGED << conf, primary, replicas, history, faults >>

\* The sync loop of replica r wakes up and asks for what follows its tracker.
sync(r) ==
    /\ r \in conf.replicas
    /\ job[r].pc = "idle"
    /\ job' = [job EXCEPT ![r].after = applied[r], ![r].pc = "read"]
    /\ UNCHANGED << conf, primary, replicas, history, faults >>

\* After a sequence number, the next one is left out too (mutant).
EntriesSkippingOne(after) ==
    LET from == IF after = 0 THEN 0 ELSE after + 1
        n == CASE Len(log) <= from -> 0
               [] Len(log) > from + conf.limit -> conf.limit
               [] OTHER -> Len(log) - from
    IN  [i \in 1 .. n |->
            [seq |-> from + i, id |-> log[from + i].id, ts |-> log[from + i].pair[2],
             name |-> None]]

\* Wal::read_for_replication: at most limit records after a sequence number.
EntriesAfter(after) ==
    LET n == IF Len(log) - after < conf.limit THEN Len(log) - after ELSE conf.limit
    IN  [i \in 1 .. n |->
            [seq |-> after + i, id |-> log[after + i].id, ts |-> log[after + i].pair[2],
             name |-> None]]

read_wal(j) ==
    /\ job[j].pc = "read"
    /\ job' = [job EXCEPT ![j].batch = EntriesAfter(job[j].after), ![j].after = 0,
                         ![j].pc = "name"]
    /\ UNCHANGED << conf, primary, replicas, history, faults >>

\* The dictionary is read after the lock of the WAL has been released.
name_entries(j) ==
    /\ job[j].pc = "name"
    /\ IF job[j].batch = << >>
       THEN Drop(j)
       ELSE LET batch == job[j].batch
                named == [i \in 1 .. Len(batch) |->
                            [batch[i] EXCEPT !.name = name_of(dict, batch[i].id)]]
            IN  job' = [job EXCEPT ![j].batch = named,
                                   ![j].pc = "log"]
    /\ UNCHANGED << conf, primary, replicas, history, faults >>

\* last_pushed_seq moves although a post failed (mutant).
lost_storing(j) ==
    /\ Fault
    /\ job[j].pc = "log" \/ (j \in Replica /\ job[j].pc \in {"read", "name"})
    /\ pushed' = IF j \in Task THEN job[j].batch[Len(job[j].batch)].seq ELSE pushed
    /\ Drop(j)
    /\ UNCHANGED << conf, log, dict, replicas, history >>

\* A post that does not arrive ends the task, a request or an answer that does
\* not arrive ends this round of the sync loop.
lost(j) ==
    /\ Fault
    /\ job[j].pc = "log" \/ (j \in Replica /\ job[j].pc \in {"read", "name"})
    /\ Drop(j)
    /\ UNCHANGED << conf, primary, replicas, history >>

\* The client's side of a post fails while the replica handles it.
give_up(t) ==
    /\ Fault
    /\ job[t].pc \in Handling /\ ~job[t].gave
    /\ job' = [job EXCEPT ![t].gave = TRUE]
    /\ UNCHANGED << conf, primary, replicas, history >>

\* Every replica has answered.
store(t) ==
    /\ job[t].pc = "store"
    /\ pushed' = job[t].batch[Len(job[t].batch)].seq
    /\ refused' = (refused \/ ~job[t].ok)
    /\ Drop(t)
    /\ UNCHANGED << conf, log, dict, replicas, late, restarted, faults >>

(***************************************************************************)
(* apply_replication_batch at a replica, for a post or for the sync loop.  *)
(* The dictionary is extended in the step that logs the batch: only other  *)
(* batches look at it in between.                                          *)
(***************************************************************************)

\* One post too many (mutant).
FinishPastEnd(j, ok) ==
    CASE j \in Replica \/ job[j].gave -> Drop(j)
      [] j \in Task /\ ~job[j].gave /\ job[j].url <= Len(conf.urls) ->
            job' = [job EXCEPT ![j].url = @ + 1, ![j].pc = "log", ![j].ok = @ /\ ok]
      [] OTHER -> job' = [job EXCEPT ![j].pc = "store", ![j].ok = @ /\ ok]

\* The handler ends with ok or an error.  To the client of a post, which does
\* not look at the answer, the two are the same.
Finish(j, ok) ==
    CASE j \in Replica \/ job[j].gave -> Drop(j)
      [] j \in Task /\ ~job[j].gave /\ job[j].url < Len(conf.urls) ->
            job' = [job EXCEPT ![j].url = @ + 1, ![j].pc = "log", ![j].ok = @ /\ ok]
      [] OTHER -> job' = [job EXCEPT ![j].pc = "store", ![j].ok = @ /\ ok]

\* The entries of a batch with a name that is new to the dictionary d, and d
\* extended by those names in their order.
NewNames(d, batch) ==
    { i \in 1 .. Len(batch) :
        /\ batch[i].name \notin Known(d) \cup {None}
        /\ \A k \in 1 .. i - 1 : batch[k].name # batch[i].name }

Extended(d, batch) ==
    LET new == NewNames(d, batch)
    IN  d \o [n \in 1 .. Cardinality(new) |-> batch[Nth(new, n)].name]

\* The ticks of a batch: an entry without a name keeps the primary's id.
Resolved(d, batch) ==
    [i \in 1 .. Len(batch) |->
        [key |-> << IF batch[i].name = None THEN batch[i].id ELSE get_id(d, batch[i].name),
                    batch[i].ts >>,
         ver |-> batch[i].seq]]

\* A tick that is there is kept (mutant).
PutKeeping(m, ticks) ==
    [k \in Key |->
        LET mine == { i \in 1 .. Len(ticks) : ticks[i].key = k }
        IN  IF mine = {} \/ m[k] # 0 THEN m[k]
            ELSE ticks[CHOOSE i \in mine : \A n \in mine : n <= i].ver]

\* The last of the ticks with one key wins, in the memtable as in a replay.
Put(m, ticks) ==
    [k \in Key |->
        LET mine == { i \in 1 .. Len(ticks) : ticks[i].key = k }
        IN  IF mine = {} THEN m[k]
            ELSE ticks[CHOOSE i \in mine : \A n \in mine : n <= i].ver]

\* append_batch of some ticks to the WAL of replica r.
Log(r, ticks) ==
    /\ rlog' = [rlog EXCEPT ![r] = @ \cup { ticks[i].ver : i \in 1 .. Len(ticks) }]
    /\ replay' = [replay EXCEPT ![r] = Put(@, ticks)]

apply_log(j) ==
    LET r == At(j)
        batch == job[j].batch
    IN  /\ job[j].pc = "log"
        /\ rdict' = [rdict EXCEPT ![r] = Extended(@, batch)]
        /\ Log(r, Resolved(rdict'[r], batch))
        /\ Goto(j, "memtable")
        /\ UNCHANGED << conf, primary, rmem, applied, history, faults >>

\* append_batch fails, with part of the records written.
apply_error(j) ==
    LET r == At(j)
        batch == job[j].batch
    IN  /\ Fault
        /\ job[j].pc = "log"
        /\ rdict' = [rdict EXCEPT ![r] = Extended(@, batch)]
        /\ \E n \in 0 .. Len(batch) : Log(r, SubSeq(Resolved(rdict'[r], batch), 1, n))
        /\ Finish(j, FALSE)
        /\ UNCHANGED << conf, primary, rmem, applied, history >>

\* The ids are the ones that were resolved before the batch was logged.
apply_memtable(j) ==
    LET r == At(j)
    IN  /\ job[j].pc = "memtable"
        /\ rmem' = [rmem EXCEPT ![r] = Put(@, Resolved(rdict[r], job[j].batch))]
        /\ late' = IF \E k \in Key : rmem'[r][k] < rmem[r][k] THEN late \cup {r} ELSE late
        /\ Goto(j, "advance")
        /\ UNCHANGED << conf, primary, rdict, rlog, replay, applied, refused, restarted, faults >>

\* ReplicationTracker::advance, with the largest sequence number of the batch.
advance(current, sequence) == IF sequence >= current THEN sequence ELSE current

apply_advance(j) ==
    LET r == At(j)
        batch == job[j].batch
    IN  /\ job[j].pc = "advance"
        /\ applied' = [applied EXCEPT ![r] = advance(@, batch[Len(batch)].seq)]
        /\ Finish(j, TRUE)
        /\ UNCHANGED << conf, primary, rdict, rlog, replay, rmem, history, faults >>

(***************************************************************************)
(* A node is killed and started again: what it has logged is replayed, the *)
(* dictionary is empty and last_pushed_seq is NEVER_PUSHED.                *)
(***************************************************************************)

restart_primary ==
    /\ Fault
    /\ restarted' = restarted \cup {"primary"}
    /\ dict' = << >>
    /\ pushed' = 0
    /\ job' = [j \in Job |->
                CASE job[j].pc \notin Handling -> Idle
                  [] j \in Task /\ job[j].pc \in Handling -> [job[j] EXCEPT !.gave = TRUE]
                  [] OTHER -> job[j]]
    /\ UNCHANGED << conf, log, replicas, refused, late >>

restart_replica(r) ==
    /\ r \in conf.replicas
    /\ Fault
    /\ restarted' = restarted \cup {r}
    /\ rdict' = [rdict EXCEPT ![r] = << >>]
    /\ rmem' = [rmem EXCEPT ![r] = replay[r]]
    /\ job' = [j \in Job |->
                IF j = r \/ (j \in Task /\ job[j].pc \in Handling /\ At(j) = r)
                THEN Idle ELSE job[j]]
    /\ UNCHANGED << conf, primary, rlog, replay, applied, refused, late >>

Push(t) == insert_tick(t) \/ load(t) \/ give_up(t) \/ store(t)

\* What the sync loop, or a push, does on the primary and on a replica.
Serve(j) ==
    \/ read_wal(j) \/ name_entries(j)
    \/ apply_log(j) \/ apply_error(j) \/ apply_memtable(j) \/ apply_advance(j)

Next ==
    \/ \E t \in Task : Push(t)
    \/ \E r \in Replica : sync(r) \/ restart_replica(r)
    \/ \E j \in Job : Serve(j) \/ lost(j)
    \/ restart_primary

(***************************************************************************)
(* The sync loop never ends: its sleep elapses, its requests are answered  *)
(* or fail, and its apply goes on when it can.  Nothing is assumed of the  *)
(* push tasks.                                                             *)
(***************************************************************************)
Spec ==
    /\ Init /\ [][Next]_vars
    /\ \A r \in Replica : WF_vars(sync(r) \/ Serve(r))

(***************************************************************************)
(* Properties.                                                             *)
(***************************************************************************)

\* The tracker of a replica never passes a record of the primary's WAL that the
\* replica has not logged: whatever pushes and pulls overlap, arrive late or
\* twice, are lost or cut off by a restart, last_primary_sequence means "all up
\* to here", unless the primary moved on after a replica had answered
\* ok: false, which push_to_replicas does not look at.
NoGap ==
    ~refused => \A r \in Replica : 1 .. applied[r] \subseteq rlog[r]

\* Replica r has record v, or a newer one of the same tick, under its symbol.
ShowsTick(r, v) ==
    LET pair == log[v].pair
    IN  /\ pair[1] \in Known(rdict[r])
        /\ LET w == rmem[r][<< get_id(rdict[r], pair[1]), pair[2] >>]
           IN  w >= v /\ log[w].pair = pair

\* A replica serves every record up to its tracker, or a newer one of the same
\* tick, under the symbol that it was written for, as long as neither node has
\* lost its dictionary in a restart and no batch was put over newer ticks.
ReplicaCurrent ==
    ~refused =>
        \A r \in Replica \ (late \cup restarted) :
            "primary" \notin restarted => \A v \in 1 .. applied[r] : ShowsTick(r, v)

\* Every record of the primary's WAL reaches every replica in the end, by the
\* sync loop of replica_sync_loop alone, or a post was refused.
EveryTickReplicated ==
    \A v \in Sequence :
        v <= Len(log) ~> (refused \/ \A r \in conf.replicas : v \in rlog[r])
=============================================================================
