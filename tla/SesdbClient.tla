----------------------------- MODULE SesdbClient -----------------------------
(* The SESDB SDK against the daemon: packages/sesdb/src/engine.ts finds or   *)
(* starts the one daemon of a home directory through the file               *)
(* run/daemon.json, and index.ts answers queries by paging through a log    *)
(* that others append to.                                                   *)
(*                                                                          *)
(* Callers run in processes of their own and meet in two places: the        *)
(* descriptor file, which any of them may remove, and the exclusive lock a  *)
(* daemon holds on the log from its start to its exit.  A daemon has a      *)
(* fresh port and token, so its number stands for both: a request sent to   *)
(* another daemon is refused.                                               *)
(*                                                                          *)
(* What a query makes of the records it scanned is SessionQL.               *)
EXTENDS Integers, Sequences, FiniteSets, SequencesExt

CONSTANTS
  Callers,        \* processes that use the SDK
  Readers,        \* those that go on to query, the others only start or stop it
  AutoStart,      \* those that may start a daemon (autoStart is not false)
  Daemons,        \* numbers for the daemons that are alive or still known
  Contents,       \* the sequences of records the log may come to hold
  Refusals,       \* what is wrong with the queries callers make, "" if nothing
  Sessions,       \* the sessions callers read raw
  RecentLimits,   \* the limits given to recent()
  PageLimit,      \* records in a page (10,000)
  ScanLimit,      \* records a query may scan (100,000)
  MaxFaults       \* bound on crashes, stops and busy spells

ASSUME SesdbClientAssumption ==
  /\ AutoStart \subseteq Callers /\ AutoStart # {} /\ Readers \subseteq Callers
  /\ Daemons \subseteq Nat \ {0}
  /\ \A records \in Contents : records \in Seq(ToSet(records))
  /\ RecentLimits \subseteq Nat \ {0}
  /\ {PageLimit, ScanLimit, MaxFaults} \subseteq Nat
  /\ PageLimit > 0

VARIABLES
  content,     \* what the log will hold, in order
  committed,   \* nextSeq: how much of it the log holds
  daemon,      \* state of each daemon process
  busy,        \* daemons whose writer lock is held by a long operation
  descriptor,  \* the daemon run/daemon.json names, 0 when there is no file
  children,    \* callers whose spawned process has not tried the lock yet
  caller,      \* what each caller is doing
  faults       \* crashes, stops and busy spells so far

vars == <<content, committed, daemon, busy, descriptor, children, caller, faults>>
service == <<content, committed, daemon, busy, descriptor, children, faults>>

Idle == [pc |-> "idle", conn |-> 0, error |-> "", call |-> [op |-> "none"],
         from |-> 0, asOf |-> 0, seqs |-> <<>>]

\* Only the holder of the lock is a daemon: the others exit on the spot.
Locked == \E d \in Daemons : daemon[d] # "none"
Answers(d) == d # 0 /\ daemon[d] = "up" /\ d \notin busy
Known == {descriptor} \cup {caller[c].conn : c \in Callers}

\* A step of caller c, and the three ways a call of it ends.
Goto(c, pc, conn) == caller' = [caller EXCEPT ![c].pc = pc, ![c].conn = conn]
Answer(c, seqs) ==
  caller' = [caller EXCEPT ![c].pc = "ended", ![c].error = "", ![c].seqs = seqs]
Refuse(c, code) == caller' = [caller EXCEPT ![c].pc = "ended", ![c].error = code]
Fail(c) == Refuse(c, "engine_unavailable")

Init ==
  /\ content \in Contents
  /\ committed = 0
  /\ daemon = [d \in Daemons |-> "none"]
  /\ busy = {}
  /\ descriptor = 0
  /\ children = {}
  /\ caller = [c \in Callers |-> Idle]
  /\ faults = 0

-----------------------------------------------------------------------------
(* Finding a daemon: ensureDaemon *)

ReadDescriptor(c) ==
  /\ caller[c].pc = "idle"
  /\ Goto(c, IF descriptor = 0 THEN "spawn" ELSE "check", descriptor)
  /\ UNCHANGED service

\* The health request has one second; a busy daemon lets it pass.
CheckHealth(c) ==
  /\ caller[c].pc = "check"
  /\ Goto(c, IF Answers(caller[c].conn) THEN "ready" ELSE "unlink", caller[c].conn)
  /\ UNCHANGED service

\* Removes the file by name, whatever it says by now.
Unlink(c) ==
  /\ caller[c].pc = "unlink"
  /\ descriptor' = 0
  /\ Goto(c, "spawn", 0)
  /\ UNCHANGED <<content, committed, daemon, busy, children, faults>>

\* A caller's last child has tried the lock long before its next spawn.
Spawn(c) ==
  /\ caller[c].pc = "spawn"
  /\ IF c \in AutoStart
     THEN c \notin children /\ children' = children \cup {c} /\ Goto(c, "poll", 0)
     ELSE UNCHANGED children /\ Fail(c)
  /\ UNCHANGED <<content, committed, daemon, busy, descriptor, faults>>

PollDescriptor(c) ==
  /\ caller[c].pc = "poll"
  /\ descriptor # 0
  /\ Goto(c, "pollCheck", descriptor)
  /\ UNCHANGED service

PollHealth(c) ==
  /\ caller[c].pc = "pollCheck"
  /\ IF Answers(caller[c].conn) THEN Goto(c, "ready", caller[c].conn) ELSE Goto(c, "poll", 0)
  /\ UNCHANGED service

\* "daemon health check timed out"
Deadline(c) ==
  /\ caller[c].pc = "poll"
  /\ Fail(c)
  /\ UNCHANGED service

-----------------------------------------------------------------------------
(* Reading the log: query, recent and raw *)

AllSessions == {content[i].session : i \in DOMAIN content}

\* The n-th of these sequence numbers.
Nth(found, n) == CHOOSE seq \in found : Cardinality({t \in found : t <= seq}) = n

\* One page of scan: the engine reads one record more than it returns, to
\* know whether there are more.
Page(from, limit, sessions) ==
  LET found == {seq \in from .. committed - 1 : content[seq + 1].session \in sessions}
      count == Cardinality(found)
      seqs == [n \in 1 .. (IF count > limit THEN limit ELSE count) |-> Nth(found, n)]
  IN [seqs |-> seqs, hasMore |-> count > limit,
      nextFromSeq |-> IF seqs = <<>> THEN from ELSE Last(seqs) + 1]

\* The answer of stats is where a query and recent() begin.
Begin(c, call, from) ==
  /\ c \in Readers
  /\ Answers(caller[c].conn)
  /\ caller' = [caller EXCEPT ![c].pc = "scan", ![c].call = call, ![c].from = from,
                              ![c].asOf = committed]

\* sesdb daemon start asks for nothing more than the connection.
Connected(c) ==
  /\ caller[c].pc = "ready" /\ c \notin Readers
  /\ Answer(c, <<>>)
  /\ UNCHANGED service

\* A query that is refused is refused before anything is read.
BeginQuery(c) ==
  /\ caller[c].pc = "ready"
  /\ c \in Readers
  /\ \E refusal \in Refusals :
       IF refusal # "" THEN Refuse(c, refusal) ELSE Begin(c, [op |-> "query"], 0)
  /\ UNCHANGED service

BeginRecent(c) ==
  /\ caller[c].pc = "ready"
  /\ \E limit \in RecentLimits :
       Begin(c, [op |-> "recent", limit |-> limit],
             IF committed > limit THEN committed - limit ELSE 0)
  /\ UNCHANGED service

\* raw asks for no stats; asOf only notes what was there when it began.
BeginRaw(c) ==
  /\ caller[c].pc = "ready"
  /\ \E s \in Sessions : Begin(c, [op |-> "raw", session |-> s], 0)
  /\ UNCHANGED service

ScanOn(c, seqs, next) == caller' = [caller EXCEPT ![c].seqs = seqs, ![c].from = next]

\* Mutant: a page is taken as a whole.
ScanPage_NoCutoff(c) ==
  LET me == caller[c]
      page == Page(me.from, PageLimit, AllSessions)
      seqs == me.seqs \o page.seqs
      done == \/ ~page.hasMore \/ page.nextFromSeq <= me.from \/ page.nextFromSeq >= me.asOf
  IN /\ me.pc = "scan" /\ me.call.op = "query"
     /\ Answers(me.conn)
     /\ IF Len(seqs) > ScanLimit THEN Refuse(c, "resource_limit")
        ELSE IF done THEN Answer(c, seqs)
        ELSE ScanOn(c, seqs, page.nextFromSeq)
     /\ UNCHANGED service

\* scanSnapshot's loop, one page at a time: it stops at the first record that
\* was not committed at the time of stats.
ScanPage(c) ==
  LET me == caller[c]
      page == Page(me.from, PageLimit, AllSessions)
      below == SubSeq(page.seqs, 1, Cardinality({i \in DOMAIN page.seqs : page.seqs[i] < me.asOf}))
      seqs == me.seqs \o below
      done == \/ Len(below) < Len(page.seqs) \/ ~page.hasMore
              \/ page.nextFromSeq <= me.from \/ page.nextFromSeq >= me.asOf
  IN /\ me.pc = "scan" /\ me.call.op = "query"
     /\ Answers(me.conn)
     /\ IF Len(seqs) > ScanLimit THEN Refuse(c, "resource_limit")
        ELSE IF done THEN Answer(c, seqs)
        ELSE ScanOn(c, seqs, page.nextFromSeq)
     /\ UNCHANGED service

\* recent() takes one page of as many records as were asked for.
ScanRecent(c) ==
  LET me == caller[c]
  IN /\ me.pc = "scan" /\ me.call.op = "recent"
     /\ Answers(me.conn)
     /\ Answer(c, Page(me.from, me.call.limit, AllSessions).seqs)
     /\ UNCHANGED service

\* raw() follows the pages of a session to their end, wherever that is by then.
ScanRaw(c) ==
  LET me == caller[c]
      page == Page(me.from, PageLimit, {me.call.session})
      seqs == me.seqs \o page.seqs
  IN /\ me.pc = "scan" /\ me.call.op = "raw"
     /\ Answers(me.conn)
     /\ IF ~page.hasMore \/ page.nextFromSeq <= me.from THEN Answer(c, seqs)
        ELSE IF Len(seqs) >= ScanLimit THEN Refuse(c, "resource_limit")
        ELSE ScanOn(c, seqs, page.nextFromSeq)
     /\ UNCHANGED service

\* The daemon of this connection does not answer: it is gone, closing, or
\* busy for longer than a request waits.
RequestFails(c) ==
  /\ caller[c].pc \in {"ready", "scan"}
  /\ ~Answers(caller[c].conn)
  /\ Fail(c)
  /\ UNCHANGED service

\* The next call of the same process: on its connection, which stays with the
\* daemon it was made to, or from the start, as every CLI command does.
NextCall(c) ==
  /\ caller[c].pc = "ended"
  /\ \E next \in {0} \cup (IF caller[c].error = "engine_unavailable" THEN {} ELSE {caller[c].conn}) :
       caller' = [caller EXCEPT ![c] =
                    IF next = 0 THEN Idle ELSE [Idle EXCEPT !.pc = "ready", !.conn = next]]
  /\ UNCHANGED service

\* stop() asks the daemon to close and returns when it no longer answers.
Stop(c) ==
  /\ caller[c].pc = "ready"
  /\ faults < MaxFaults
  /\ daemon[caller[c].conn] = "up"
  /\ daemon' = [daemon EXCEPT ![caller[c].conn] = "closing"]
  /\ faults' = faults + 1
  /\ caller' = [caller EXCEPT ![c] = Idle]
  /\ UNCHANGED <<content, committed, busy, descriptor, children>>

-----------------------------------------------------------------------------
(* The daemon process, as the SDK meets it *)

\* A spawned process takes the lock, or exits.
StartDaemon(c) ==
  /\ c \in children
  /\ children' = children \ {c}
  /\ IF Locked THEN UNCHANGED daemon
     ELSE LET fresh == Daemons \ Known
          IN daemon' = [daemon EXCEPT ![CHOOSE d \in fresh : \A e \in fresh : d <= e] = "starting"]
  /\ UNCHANGED <<content, committed, busy, descriptor, caller, faults>>

\* It listens, writes the descriptor over whatever is there, and serves.
Publish(d) ==
  /\ daemon[d] = "starting"
  /\ daemon' = [daemon EXCEPT ![d] = "up"]
  /\ descriptor' = d
  /\ UNCHANGED <<content, committed, busy, children, caller, faults>>

\* After a graceful shutdown the daemon removes the descriptor.
RemoveDescriptor(d) ==
  /\ daemon[d] = "closing" /\ d \notin busy
  /\ descriptor # 0
  /\ descriptor' = 0
  /\ UNCHANGED <<content, committed, daemon, busy, children, caller, faults>>

\* Mutant: only a daemon that was told to stop looks at the descriptor.
Exit_OnlyStopped(d) ==
  /\ daemon[d] = "closing" /\ d \notin busy
  /\ descriptor = 0
  /\ daemon' = [daemon EXCEPT ![d] = "none"]
  /\ UNCHANGED <<content, committed, busy, descriptor, children, caller, faults>>

\* The process ends, and frees the lock, once it sees that there is no
\* descriptor and its handlers are done.
Exit(d) ==
  /\ daemon[d] \in {"up", "closing"} /\ d \notin busy
  /\ descriptor = 0
  /\ daemon' = [daemon EXCEPT ![d] = "none"]
  /\ UNCHANGED <<content, committed, busy, descriptor, children, caller, faults>>

\* Killed, or interrupted: the descriptor stays behind.
Crash(d) ==
  /\ daemon[d] # "none" /\ faults < MaxFaults
  /\ daemon' = [daemon EXCEPT ![d] = "none"]
  /\ busy' = busy \ {d}
  /\ faults' = faults + 1
  /\ UNCHANGED <<content, committed, descriptor, children, caller>>

\* A reconcile or a rebuild holds the writer lock for longer than a health
\* check waits.
BecomeBusy(d) ==
  /\ Answers(d) /\ faults < MaxFaults
  /\ busy' = busy \cup {d}
  /\ faults' = faults + 1
  /\ UNCHANGED <<content, committed, daemon, descriptor, children, caller>>

BecomeFree(d) ==
  /\ d \in busy
  /\ busy' = busy \ {d}
  /\ UNCHANGED <<content, committed, daemon, descriptor, children, caller, faults>>

\* Someone's records are collected or appended.
Commit(d) ==
  /\ Answers(d)
  /\ committed < Len(content)
  /\ committed' = committed + 1
  /\ UNCHANGED <<content, daemon, busy, descriptor, children, caller, faults>>

-----------------------------------------------------------------------------

Discover(c) == ReadDescriptor(c) \/ CheckHealth(c) \/ Unlink(c) \/ Spawn(c)
                 \/ PollDescriptor(c) \/ PollHealth(c) \/ Deadline(c)
Read(c) == Connected(c) \/ BeginQuery(c) \/ BeginRecent(c) \/ BeginRaw(c) \/ ScanPage(c) \/ ScanRecent(c)
             \/ ScanRaw(c) \/ RequestFails(c) \/ NextCall(c)
Serve(d) == Publish(d) \/ RemoveDescriptor(d) \/ Exit(d) \/ BecomeFree(d)

Next ==
  \/ \E c \in Callers : Discover(c) \/ Read(c) \/ Stop(c) \/ StartDaemon(c)
  \/ \E d \in Daemons : Serve(d) \/ Crash(d) \/ BecomeBusy(d) \/ Commit(d)

\* Processes run on, a spawned process starts, a long operation ends, and the
\* clock reaches a deadline that is met again and again.
Fairness ==
  /\ \A c \in Callers : WF_vars(Discover(c) \/ Read(c)) /\ SF_vars(Deadline(c))
                         /\ WF_vars(StartDaemon(c))
  /\ WF_vars(\E d \in Daemons : Serve(d))

Spec == Init /\ [][Next]_vars /\ Fairness

-----------------------------------------------------------------------------
(* Properties *)

\* A query scanned the records that were committed when it asked for stats,
\* each once; when it was refused for their number, there were too many.
SnapshotOf(me) ==
  IF me.error = "" THEN ToSet(me.seqs) = 0 .. me.asOf - 1 /\ Len(me.seqs) = me.asOf
  ELSE me.error = "resource_limit" => me.asOf > ScanLimit

\* recent and raw returned, in order, what was there when they began, and
\* nothing between two returned records is left out.
NoGapsIn(me) ==
  LET start == IF me.call.op = "recent" /\ me.asOf > me.call.limit
               THEN me.asOf - me.call.limit ELSE 0
      wanted == {seq \in 0 .. committed - 1 : seq >= start
                   /\ (me.call.op = "raw" => content[seq + 1].session = me.call.session)}
      reached == {seq \in wanted : seq < me.asOf \/ \E i \in DOMAIN me.seqs : seq < me.seqs[i]}
  IN /\ \A i, j \in DOMAIN me.seqs : i < j => me.seqs[i] < me.seqs[j]
     /\ reached \subseteq ToSet(me.seqs) /\ ToSet(me.seqs) \subseteq wanted

\* Whatever is appended between the pages of a call, and whichever daemon
\* comes and goes, query() is a snapshot as of its stats, and recent() and
\* raw() have no gaps (index.ts:243, 261, 378).
ReadsAreSnapshots ==
  \A c \in Callers :
    LET me == caller[c]
    IN me.pc = "ended" /\ me.error # "engine_unavailable" =>
         CASE me.call.op = "query" -> SnapshotOf(me)
           [] me.call.op \in {"recent", "raw"} /\ me.error = "" -> NoGapsIn(me)
           [] OTHER -> TRUE

\* A caller that found an earlier daemon dead, or this one busy, removes the
\* descriptor of a daemon that runs; that daemon then exits.
RemovesLive == descriptor # 0 /\ daemon[descriptor] # "none" /\ \E c \in Callers : Unlink(c)

\* Once crashes, stops and long operations are over, every caller that keeps
\* calling is served again and again: a daemon that died or is on its way out
\* under the lock, children that find the lock taken and deadlines that pass
\* do not keep callers apart forever.  Only one thing can: that they go on
\* removing each other's descriptors (engine.ts:158).
EveryCallerServed ==
  <>[][~RemovesLive]_vars =>
    \A c \in Callers : []<>(caller[c].pc = "ended" /\ caller[c].error # "engine_unavailable")
=============================================================================
