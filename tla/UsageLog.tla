------------------------------ MODULE UsageLog ------------------------------
(***************************************************************************)
(* The usage log (lib/usage/store.ts, lib/usage/index.ts): processes that  *)
(* share a data directory buffer an event for each call, write their       *)
(* buffers into one table of a SQLite file, and recompute from it a        *)
(* rollup for each day, which is to outlive the events.  Maintenance,      *)
(* which rolls up and then prunes by age and by number, runs as a process  *)
(* opens the log and once a day; a report and a shutdown roll up too.      *)
(* The rows are read before the transaction that replaces the rollups, so  *)
(* another process writes in between.  Time is in ticks, DayLength to the  *)
(* day; a clock may be set back.  A rollup is the set of the events it     *)
(* counts.                                                                 *)
(***************************************************************************)
EXTENDS Naturals, Sequences, FiniteSets, Functions

CONSTANTS
  Procs,          \* processes that share the data directory
  DayLength,      \* ticks in a day
  RetentionDays,  \* ZOTEUS_USAGE_RETENTION_DAYS
  MaxRows,        \* rows the table may hold after pruning
  FlushEvery,     \* buffered events that are written at once
  MaxNow,         \* bound: the last tick
  MaxEvents,      \* bound: events recorded
  MaxMishaps      \* bound: faults, crashes, clocks set back, files that cannot be read

UsageAssumption ==
  /\ DayLength \in Nat \ {0} /\ RetentionDays \in Nat \ {0}
  /\ MaxRows \in Nat

VARIABLES
  now,
  log,      \* [p |-> [at: what it does, pending: its buffer, scan: the rows it read]]
  rows,     \* the table of events, by id
  daily,    \* the rollup of each day, {} where there is none
  readable, \* may the file be read by this build
  made,     \* events recorded
  counted,  \* history: events a rollup of this file has counted
  pruned,   \* history: events that pruning has dropped
  mishaps

usageVars == <<now, log, rows, daily, readable, made, counted, pruned, mishaps>>

DayOf(t) == t \div DayLength
Days == 0..DayOf(MaxNow)
Closed == [at |-> "closed", pending |-> <<>>, scan |-> {}]

EmptyTable == [i \in {} |-> 0]

\* INTEGER PRIMARY KEY: the id after the largest of the table.
NextId == CHOOSE i \in {1} \cup {j + 1 : j \in DOMAIN rows} : \A j \in DOMAIN rows : j < i

UsageInit ==
  /\ now = 0 /\ log = [p \in Procs |-> Closed]
  /\ rows = EmptyTable /\ daily = [d \in Days |-> {}]
  /\ readable = TRUE /\ made = 0
  /\ counted = {} /\ pruned = {} /\ mishaps = 0

\* A buffer is written in one transaction, or dropped with a warning.
WriteBuffer(buffer, written) ==
  rows' = IF ~written THEN rows
          ELSE [i \in DOMAIN rows \cup NextId..(NextId + Len(buffer) - 1) |->
                  IF i \in DOMAIN rows THEN rows[i] ELSE buffer[i - NextId + 1]]

MayFail(ok) ==
  /\ ok \/ mishaps < MaxMishaps
  /\ mishaps' = IF ok THEN mishaps ELSE mishaps + 1

\* The rows that a rollup under way has not read.
Unscanned(p) == {i \in DOMAIN rows : rows[i] \notin log[p].scan}

\* Bound: no scan is under way while another process writes more rows than the table
\* may hold.
ScanKeepsUp(p) ==
  \A q \in Procs \ {p} : log[q].at \in {"scanned", "rolled"} =>
    Cardinality(Unscanned(q)) + Len(log[p].pending) < MaxRows

\* A file that cannot be read, or was written by a newer build, is renamed and a new one
\* made; if it cannot be renamed there is no log.
Open(p) ==
  /\ log[p].at = "closed"
  /\ \E opens \in BOOLEAN :
       /\ readable => opens
       /\ MayFail(opens)
       /\ log' = [log EXCEPT ![p].at = IF opens THEN "opened" ELSE @]
       /\ IF ~readable /\ opens
            THEN /\ readable' = TRUE
                 /\ rows' = EmptyTable /\ daily' = [d \in Days |-> {}]
                 /\ counted' = {} /\ pruned' = {}
            ELSE UNCHANGED <<readable, rows, daily, counted, pruned>>
  /\ UNCHANGED <<now, made>>

\* An event bears the time its call began; a full buffer is written at once.
Record(p) ==
  /\ log[p].at = "open" /\ made < MaxEvents /\ made' = made + 1
  /\ \E at \in {now} \cup (IF now > 0 THEN {now - 1} ELSE {}), ok \in BOOLEAN :
       LET pending == Append(log[p].pending, [n |-> made, at |-> at])
           full == Len(pending) >= FlushEvery
       IN  /\ full => ScanKeepsUp(p)
           /\ full \/ ok
           /\ MayFail(ok)
           /\ log' = [log EXCEPT ![p].pending = IF full THEN <<>> ELSE pending]
           /\ WriteBuffer(pending, full /\ ok)
  /\ UNCHANGED <<now, daily, readable, counted, pruned>>

\* Mutant: days before a high-water mark are not rolled up.
RollupFrom_Mark(at) == DayOf(now) * DayLength

\* A report rolls up yesterday and today, everything else all there is.
RollupFrom(at) ==
  IF at = "report" THEN LET start == DayOf(now) * DayLength
                        IN  IF start > DayLength THEN start - DayLength ELSE 0
  ELSE 0

Scanned == [maintain |-> "scanned", report |-> "reporting", close |-> "closing"]

\* Opening the log, the daily timer, a report and a shutdown each begin a rollup: the
\* buffer is written and the rows are read.
Scan(p) ==
  /\ log[p].at \in {"opened", "open"} /\ ScanKeepsUp(p)
  /\ \E what \in DOMAIN Scanned, ok \in BOOLEAN :
       /\ log[p].at = "opened" => what = "maintain"
       /\ MayFail(ok) /\ WriteBuffer(log[p].pending, ok)
       /\ LET from == RollupFrom(what)
          IN  log' = [log EXCEPT ![p] = [at |-> Scanned[what], pending |-> <<>>,
                                         scan |-> {e \in Range(rows') : e.at >= from}]]
  /\ UNCHANGED <<now, daily, readable, made, counted, pruned>>

\* Mutant: maintenance that prunes whether or not the rollup was made.
AfterRollup_Prunes(at, ok) == IF at = "scanned" THEN "rolled" ELSE "open"

AfterRollup(at, ok) == IF ok /\ at = "scanned" THEN "rolled" ELSE "open"

\* Every day that has rows in the scan is cleared and written anew; the other days keep
\* what they have.
Replaced(scan) ==
  [d \in Days |-> LET of == {e \in scan : DayOf(e.at) = d} IN IF of = {} THEN daily[d] ELSE of]

\* After a fault maintenance is over, and nothing is pruned; a report is answered with an
\* error, and the log closes either way.
WriteRollup(p) ==
  /\ log[p].at \in {"scanned", "reporting", "closing"}
  /\ \E ok \in BOOLEAN :
       /\ MayFail(ok)
       /\ IF ok THEN daily' = Replaced(log[p].scan) /\ counted' = counted \cup log[p].scan
                ELSE UNCHANGED <<daily, counted>>
       /\ LET me == log[p]
              at == AfterRollup(me.at, ok)
          IN  log' = [log EXCEPT ![p] =
                        IF me.at = "closing" THEN Closed
                        ELSE [me EXCEPT !.at = at, !.scan = IF at = "rolled" THEN me.scan ELSE {}]]
  /\ UNCHANGED <<now, rows, readable, made, pruned>>

\* By age, counted from this moment, then by number.
Kept ==
  LET young == {i \in DOMAIN rows : rows[i].at + RetentionDays * DayLength >= now}
  IN  {i \in young : Cardinality({j \in young : i < j}) < MaxRows}

Prune(p) ==
  /\ log[p].at = "rolled"
  /\ rows' = Restrict(rows, Kept)
  /\ pruned' = pruned \cup {rows[i] : i \in DOMAIN rows \ Kept}
  /\ log' = [log EXCEPT ![p].at = "open", ![p].scan = {}]
  /\ UNCHANGED <<now, daily, readable, made, counted, mishaps>>

\* The buffer dies with its process, and so does a rollup under way.
Crash(p) ==
  /\ log[p].at # "closed" /\ mishaps < MaxMishaps /\ mishaps' = mishaps + 1
  /\ log' = [log EXCEPT ![p] = Closed]
  /\ UNCHANGED <<now, rows, daily, readable, made, counted, pruned>>

\* Bounds: a rollup is over within a tick, so that its pruning goes by the moment it
\* began; and no event waits in a buffer for longer than its row would be kept, since
\* the daily timer writes the buffer.
Tick ==
  /\ now < MaxNow /\ now' = now + 1
  /\ \A p \in Procs :
       /\ log[p].at \in {"closed", "open"}
       /\ \A e \in Range(log[p].pending) : e.at + RetentionDays * DayLength > now'
  /\ UNCHANGED <<log, rows, daily, readable, made, counted, pruned, mishaps>>

ClockSetBack ==
  /\ now > 0 /\ now' = now - 1 /\ mishaps < MaxMishaps /\ mishaps' = mishaps + 1
  /\ UNCHANGED <<log, rows, daily, readable, made, counted, pruned>>

\* The file is damaged, or a newer build has used it, while no process has it open.
BecomesUnreadable ==
  /\ readable /\ readable' = FALSE /\ mishaps < MaxMishaps /\ mishaps' = mishaps + 1
  /\ \A p \in Procs : log[p].at = "closed"
  /\ UNCHANGED <<now, log, rows, daily, made, counted, pruned>>

UsageNext ==
  \/ \E p \in Procs :
       \/ Open(p) \/ Record(p) \/ Scan(p)
       \/ WriteRollup(p) \/ Prune(p) \/ Crash(p)
  \/ Tick \/ ClockSetBack \/ BecomesUnreadable

UsageSpec == UsageInit /\ [][UsageNext]_usageVars

-----------------------------------------------------------------------------
\* No event is dropped from the table before a rollup has counted it: after a fault, a
\* crash, a clock set back, and while another process writes
\* (store.ts:213 "any event whose timestamp landed before the mark", :287).
CountedBeforePruned == pruned \subseteq counted

\* What a rollup has counted stays in the rollup of its day
\* (store.ts:224 "Days whose raw events have been pruned keep their rollup").
RollupsKept == \A e \in counted : e \in daily[DayOf(e.at)]
=============================================================================
