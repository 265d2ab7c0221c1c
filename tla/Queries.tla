------------------------------- MODULE Queries ------------------------------
(***************************************************************************)
(* Query objects (query.cc, query.h): the GPU writes reports, at indices   *)
(* that the library hands out and takes back, and a result is read from a  *)
(* report once the timestamp behind it has been reached.  Conditional      *)
(* rendering makes the CPU or the GPU read one.                            *)
(*                                                                         *)
(* Report indices come from a finite NameSpace; all that is used of it     *)
(* here is that an index given out is in range and not in use.  A report   *)
(* is modelled by the timestamp of the call whose command wrote it last,   *)
(* which identifies the call, as long as the timestamps do not run out.    *)
(*                                                                         *)
(* rsxgl_assert ends the program: the failed assertion is in aborted.      *)
(***************************************************************************)
EXTENDS Integers, Sequences, FiniteSets

CONSTANTS
  Queries,       \* names of query objects
  NoQuery,       \* name 0
  Reports,       \* the report indices, 0 .. RSXGL_MAX_QUERY_OBJECTS - 1
  NoReport,      \* RSXGL_MAX_QUERY_OBJECTS: no index
  QueryTargets,  \* the targets of glBeginQuery that the model tries
  MaxTimestamp,  \* bound of the model: no call takes a later timestamp
  FifoBound      \* bound of the model: the most commands not yet executed

ASSUME QueriesAssumption ==
  /\ NoQuery \notin Queries
  /\ NoReport \notin Reports
  /\ QueryTargets \subseteq {"samples", "any", "elapsed", "generated"}
  /\ MaxTimestamp \in Nat
  /\ FifoBound \in Nat

Types == QueryTargets \cup {"timestamp"}

VARIABLES
  life,        \* of every query: none, name or object
  type,        \* of every query: none before the first use
  status,      \* of every query: inactive, active, pending or cached
  indices,     \* of every query: two reports
  timestamps,  \* of every query: two timestamps
  query_binding,           \* of every target
  any_samples_passed_query, \* the report that multi draws write
  used,        \* the reports that are given out
  conditional, \* conditional_render_status: inactive, pass, fail or no_wait
  next_timestamp, last_timestamp, cached_timestamp, label,  \* as in Timestamps
  fifo, put,   \* as in Timestamps
  report,      \* of every report: the timestamp of the call that wrote it last
  call,        \* the query whose result the CPU is waiting for, and why
  aborted,     \* the assertion that failed
  misused      \* not in the code: a call has left a query in a state that the
               \* assertions do not allow for

queryVars == <<life, type, status, indices, timestamps>>
reportVars == <<any_samples_passed_query, used>>
counters == <<next_timestamp, last_timestamp>>
gpu == <<label, fifo, put, report>>
queriesVars == <<queryVars, query_binding, reportVars, conditional, counters,
          cached_timestamp, gpu, call, aborted, misused>>

NoCall == [op |-> "none", query |-> NoQuery, ts |-> 0]

NoReports == <<NoReport, NoReport>>

IsIdle == call = NoCall /\ aborted = "no"

-----------------------------------------------------------------------------

QueriesInit ==
  /\ life = [q \in Queries |-> "none"]
  /\ type = [q \in Queries |-> "none"]
  /\ status = [q \in Queries |-> "inactive"]
  /\ indices = [q \in Queries |-> NoReports]
  /\ timestamps = [q \in Queries |-> <<0, 0>>]
  /\ query_binding = [t \in QueryTargets |-> NoQuery]
  /\ any_samples_passed_query = NoReport
  /\ used = {}
  /\ conditional = "inactive"
  /\ next_timestamp = 1
  /\ last_timestamp = 0
  /\ cached_timestamp = 0
  /\ label = 0
  /\ fifo = << >>
  /\ put = 0
  /\ report = [r \in Reports |-> 0]
  /\ call = NoCall
  /\ aborted = "no"
  /\ misused = FALSE

Report(r, ts) == [op |-> "report", arg |-> r, ts |-> ts]
Stamp(ts) == [op |-> "stamp", arg |-> NoReport, ts |-> ts]
Condition(r, ts) == [op |-> "condition", arg |-> r, ts |-> ts]

(* A failed assertion.                                                      *)
Abort(assertion) ==
  /\ aborted' = assertion
  /\ UNCHANGED <<queryVars, query_binding, reportVars, conditional, counters,
                 cached_timestamp, gpu, call, misused>>

(* The assertion at the beginning of rsxgl_timestamp_create.                *)
TimestampsFollow == next_timestamp = last_timestamp + 1

(* A call takes timestamp next_timestamp, emits cmds and posts it.          *)
Emit(cmds) ==
  /\ TimestampsFollow
  /\ next_timestamp <= MaxTimestamp
  /\ Len(fifo) + Len(cmds) <= FifoBound
  /\ next_timestamp' = next_timestamp + 1
  /\ last_timestamp' = next_timestamp
  /\ fifo' = fifo \o cmds
  /\ UNCHANGED <<cached_timestamp, label, put, report>>

ReportsOf(q) == {indices[q][1], indices[q][2]} \ {NoReport}

-----------------------------------------------------------------------------

GenQuery(q) ==
  /\ IsIdle
  /\ life[q] = "none"
  /\ life' = [life EXCEPT ![q] = "name"]
  /\ UNCHANGED <<type, status, indices, timestamps, query_binding, reportVars,
                 conditional, counters, cached_timestamp, gpu, call, aborted, misused>>

(* glDeleteQueries: neither gives the reports back nor unbinds the query.   *)
DeleteQuery(q) ==
  /\ IsIdle
  /\ life[q] # "none"
  /\ life' = [life EXCEPT ![q] = "none"]
  /\ type' = [type EXCEPT ![q] = "none"]
  /\ status' = [status EXCEPT ![q] = "inactive"]
  /\ indices' = [indices EXCEPT ![q] = NoReports]
  /\ timestamps' = [timestamps EXCEPT ![q] = <<0, 0>>]
  /\ misused' = (misused \/ \E t \in QueryTargets : query_binding[t] = q)
  /\ UNCHANGED <<query_binding, reportVars, conditional, counters,
                 cached_timestamp, gpu, call, aborted>>

(* glBeginQuery and glQueryCounter start with this: an object that was used *)
(* before gives its reports back (rsxgl_free_query_object), whatever comes. *)
Freed(q) == used \ ReportsOf(q)

(* Then the query's type and status are looked at; a mismatch is an error.  *)
IsRefused(q, t) ==
  type[q] # "none" /\ (type[q] # t \/ (t # "timestamp" /\ status[q] = "active"))

RefuseAfterFreeing(q) ==
  /\ used' = Freed(q)
  /\ indices' = [indices EXCEPT ![q] = NoReports]
  /\ misused' = TRUE
  /\ UNCHANGED <<life, type, status, timestamps, query_binding,
                 any_samples_passed_query, conditional, counters,
                 cached_timestamp, gpu, call, aborted>>

BeginRefused(q, t) ==
  /\ IsIdle
  /\ t \in QueryTargets => query_binding[t] = NoQuery
  /\ life[q] = "object"
  /\ IsRefused(q, t)
  /\ RefuseAfterFreeing(q)

(* Mutation: the report of multi draws is given out again.                  *)
AllocatableInUse(q) == {r \in Reports : r \notin used \/ r = any_samples_passed_query}

(* The reports to choose from once those of q are given back.               *)
Allocatable(q) == Reports \ Freed(q)

(* glBeginQuery with reports r and s (the second one for elapsed time).     *)
BeginQuery(q, t, r, s) ==
  LET ts == next_timestamp IN
  /\ IsIdle
  /\ t \in QueryTargets \ {"generated"}
  /\ query_binding[t] = NoQuery
  /\ life[q] # "none"
  /\ ~IsRefused(q, t)
  /\ r \in Allocatable(q)
  /\ IF t = "elapsed" THEN s \in Allocatable(q) \ {r} ELSE s = NoReport
  /\ life' = [life EXCEPT ![q] = "object"]
  /\ type' = [type EXCEPT ![q] = t]
  /\ status' = [status EXCEPT ![q] = "active"]
  /\ indices' = [indices EXCEPT ![q] = <<r, s>>]
  /\ timestamps' = [timestamps EXCEPT ![q][1] = ts]
  /\ query_binding' = [query_binding EXCEPT ![t] = q]
  /\ used' = Freed(q) \cup ({r, s} \ {NoReport})
  /\ any_samples_passed_query' = IF t = "any" THEN r ELSE any_samples_passed_query
  /\ Emit(<<Report(r, ts), Stamp(ts)>>)
  /\ UNCHANGED <<conditional, call, aborted, misused>>

(* The targets that glBeginQuery knows but does not support: an error, when *)
(* the query is bound and active and a timestamp is taken, but not posted.  *)
BeginUnsupported(q) ==
  /\ IsIdle
  /\ "generated" \in QueryTargets
  /\ query_binding["generated"] = NoQuery
  /\ life[q] # "none"
  /\ ~IsRefused(q, "generated")
  /\ TimestampsFollow
  /\ next_timestamp <= MaxTimestamp
  /\ life' = [life EXCEPT ![q] = "object"]
  /\ type' = [type EXCEPT ![q] = "generated"]
  /\ status' = [status EXCEPT ![q] = "active"]
  /\ timestamps' = [timestamps EXCEPT ![q][1] = next_timestamp]
  /\ query_binding' = [query_binding EXCEPT !["generated"] = q]
  /\ next_timestamp' = next_timestamp + 1
  /\ misused' = TRUE
  /\ UNCHANGED <<indices, reportVars, conditional, last_timestamp,
                 cached_timestamp, gpu, call, aborted>>

(* The report that glEndQuery makes the GPU write.                          *)
EndReport(q) == indices[q][IF type[q] = "elapsed" THEN 2 ELSE 1]

(* Mutation: multi draws go on writing the report.                          *)
MultiDrawReportKept(q) == any_samples_passed_query

(* The report that multi draws write once q has ended.                      *)
MultiDrawReportAfter(q) ==
  IF type[q] = "any" THEN NoReport ELSE any_samples_passed_query

(* glEndQuery.                                                              *)
EndQuery(t) ==
  LET q == query_binding[t]
      ts == next_timestamp
  IN
  /\ IsIdle
  /\ q # NoQuery
  /\ life[q] = "object"
  /\ status[q] = "active"
  /\ indices[q][1] # NoReport
  /\ status' = [status EXCEPT ![q] = "pending"]
  /\ timestamps' = [timestamps EXCEPT ![q][2] = ts]
  /\ query_binding' = [query_binding EXCEPT ![t] = NoQuery]
  /\ any_samples_passed_query' = MultiDrawReportAfter(q)
  /\ Emit(<<Report(EndReport(q), ts), Stamp(ts)>>)
  /\ UNCHANGED <<life, type, indices, used, conditional, call, aborted, misused>>

(* ... whose assertions are that the query is still there (storage.at) and  *)
(* has a report.                                                            *)
EndQueryAborts(t) ==
  LET q == query_binding[t] IN
  /\ IsIdle
  /\ q # NoQuery
  /\ \/ life[q] # "object" /\ Abort("query")
     \/ life[q] = "object" /\ status[q] = "active" /\ indices[q][1] = NoReport
        /\ Abort("report")

(* glQueryCounter: posts its timestamp, and then asks for the report.       *)
QueryCounter(q, r) ==
  LET ts == next_timestamp IN
  /\ IsIdle
  /\ life[q] # "none"
  /\ ~IsRefused(q, "timestamp")
  /\ r \in Allocatable(q)
  /\ life' = [life EXCEPT ![q] = "object"]
  /\ type' = [type EXCEPT ![q] = "timestamp"]
  /\ status' = [status EXCEPT ![q] = "pending"]
  /\ indices' = [indices EXCEPT ![q] = <<r, NoReport>>]
  /\ timestamps' = [timestamps EXCEPT ![q][1] = ts]
  /\ used' = Freed(q) \cup {r}
  /\ Emit(<<Stamp(ts), Report(r, ts)>>)
  /\ UNCHANGED <<query_binding, any_samples_passed_query, conditional, call,
                 aborted, misused>>

(* The two calls when no report is left: they assert that there is one.     *)
AllocateAborts(q, t) ==
  /\ IsIdle
  /\ life[q] # "none"
  /\ t \in Types \ {"generated"}
  /\ t \in QueryTargets => query_binding[t] = NoQuery
  /\ ~IsRefused(q, t)
  /\ Cardinality(Allocatable(q)) < (IF t = "elapsed" THEN 2 ELSE 1)
  /\ Abort("no report")

(* Any call that takes a timestamp when the last one was not posted.        *)
TimestampAborts ==
  /\ IsIdle
  /\ ~TimestampsFollow
  /\ Abort("timestamp")

(* glMultiDrawArrays and the like, of one primitive: they write the report  *)
(* of the active any-samples query behind it.                               *)
MultiDraw ==
  LET ts == next_timestamp
      r == any_samples_passed_query
  IN
  /\ IsIdle
  /\ conditional # "fail"
  /\ Emit(IF r = NoReport THEN <<Stamp(ts)>> ELSE <<Report(r, ts), Stamp(ts)>>)
  /\ UNCHANGED <<queryVars, query_binding, reportVars, conditional, call,
                 aborted, misused>>

-----------------------------------------------------------------------------

(* Mutation: the first timestamp will do for every type.                    *)
FirstWaitBegin(q) == timestamps[q][1]

(* The timestamp that reading a pending result waits for first.             *)
FirstWait(q) == timestamps[q][IF type[q] \in {"any", "timestamp"} THEN 1 ELSE 2]

(* Mutation: every type has two reports.                                    *)
HasReportsBoth(q) == NoReport \notin {indices[q][1], indices[q][2]}

(* What the read of a result asserts, except that of a timestamp.           *)
HasReports(q) == indices[q][1] # NoReport /\ (type[q] = "elapsed" => indices[q][2] # NoReport)

IsReadable(q) == life[q] = "object" /\ status[q] \in {"pending", "cached"}

(* rsxgl_get_query_object_value of a pending query, called by               *)
(* glGetQueryObject* (why = "get") or glBeginConditionalRender ("render"):  *)
(* flush and wait.                                                          *)
GetResult(q, why) ==
  /\ IsIdle
  /\ IsReadable(q)
  /\ why = "render" => conditional = "inactive" /\ type[q] \in {"samples", "any"}
  /\ status[q] = "pending"
  /\ HasReports(q) \/ type[q] = "timestamp"
  /\ put' = Len(fifo)
  /\ call' = [op |-> why, query |-> q, ts |-> FirstWait(q)]
  /\ UNCHANGED <<queryVars, query_binding, reportVars, conditional, counters,
                 cached_timestamp, label, fifo, report, aborted, misused>>

(* ... which asserts that there is a report to read.                        *)
GetResultAborts(q) ==
  /\ IsIdle
  /\ IsReadable(q)
  /\ status[q] = "pending"
  /\ type[q] # "timestamp"
  /\ ~HasReports(q)
  /\ Abort("report")

Reached(ts) == cached_timestamp >= ts \/ label >= ts

CachedAfter(ts) == IF cached_timestamp < ts THEN label ELSE cached_timestamp

(* An any-samples query has not seen a sample yet and waits for the next    *)
(* timestamp.                                                               *)
ReadOn(q) ==
  /\ call.op \in {"get", "render"}
  /\ call.query = q
  /\ Reached(call.ts)
  /\ type[q] = "any"
  /\ call.ts < timestamps[q][2]
  /\ cached_timestamp' = CachedAfter(call.ts)
  /\ call' = [call EXCEPT !.ts = @ + 1]
  /\ UNCHANGED <<queryVars, query_binding, reportVars, conditional, counters,
                 gpu, aborted, misused>>

(* The result is read and cached, and the reports are given back.           *)
ReadResult(q) ==
  /\ call.op \in {"get", "render"}
  /\ call.query = q
  /\ Reached(call.ts)
  /\ cached_timestamp' = CachedAfter(call.ts)
  /\ status' = [status EXCEPT ![q] = "cached"]
  /\ used' = used \ ReportsOf(q)
  /\ indices' = [indices EXCEPT ![q] = NoReports]
  /\ conditional' \in IF call.op = "render" THEN {"pass", "fail"} ELSE {conditional}
  /\ call' = NoCall
  /\ UNCHANGED <<life, type, timestamps, query_binding, any_samples_passed_query,
                 counters, gpu, aborted, misused>>

(* glBeginConditionalRender of a query whose result is cached.              *)
BeginConditionalCached(q) ==
  /\ IsIdle
  /\ conditional = "inactive"
  /\ IsReadable(q)
  /\ status[q] = "cached"
  /\ type[q] \in {"samples", "any"}
  /\ conditional' \in {"pass", "fail"}
  /\ UNCHANGED <<queryVars, query_binding, reportVars, counters,
                 cached_timestamp, gpu, call, aborted, misused>>

(* glBeginConditionalRender with GL_QUERY_NO_WAIT: the GPU reads the report.*)
BeginConditionalNoWait(q) ==
  /\ IsIdle
  /\ conditional = "inactive"
  /\ IsReadable(q)
  /\ status[q] = "pending"
  /\ type[q] \in {"samples", "any"}
  /\ Len(fifo) < FifoBound
  /\ conditional' = "no_wait"
  /\ fifo' = Append(fifo, Condition(indices[q][1], timestamps[q][2]))
  /\ UNCHANGED <<queryVars, query_binding, reportVars, counters,
                 cached_timestamp, label, put, report, call, aborted, misused>>

EndConditional ==
  /\ IsIdle
  /\ conditional # "inactive"
  /\ conditional' = "inactive"
  /\ UNCHANGED <<queryVars, query_binding, reportVars, counters,
                 cached_timestamp, gpu, call, aborted, misused>>

(* GL_QUERY_RESULT_AVAILABLE asks whether timestamps[1] has passed.         *)
PollResult(q) ==
  /\ IsIdle
  /\ IsReadable(q)
  /\ status[q] = "pending"
  /\ put' = Len(fifo)
  /\ cached_timestamp' = CachedAfter(timestamps[q][2])
  /\ UNCHANGED <<queryVars, query_binding, reportVars, conditional, counters,
                 label, fifo, report, call, aborted, misused>>

(* The GPU executes its next command.                                       *)
Execute ==
  LET c == Head(fifo) IN
  /\ aborted = "no"
  /\ put > 0
  /\ fifo' = Tail(fifo)
  /\ put' = put - 1
  /\ report' = IF c.op = "report" THEN [report EXCEPT ![c.arg] = c.ts] ELSE report
  /\ label' = IF c.op = "stamp" THEN c.ts ELSE label
  /\ UNCHANGED <<queryVars, query_binding, reportVars, conditional, counters,
                 cached_timestamp, call, aborted, misused>>

QueriesNext ==
  \/ \E q \in Queries :
       \/ GenQuery(q)
       \/ DeleteQuery(q)
       \/ \E t \in Types : BeginRefused(q, t) \/ AllocateAborts(q, t)
       \/ \E t \in QueryTargets, r \in Reports, s \in Reports \cup {NoReport} :
            BeginQuery(q, t, r, s)
       \/ BeginUnsupported(q)
       \/ \E r \in Reports : QueryCounter(q, r)
       \/ \E why \in {"get", "render"} : GetResult(q, why)
       \/ GetResultAborts(q)
       \/ ReadOn(q)
       \/ ReadResult(q)
       \/ BeginConditionalCached(q)
       \/ BeginConditionalNoWait(q)
       \/ PollResult(q)
  \/ \E t \in QueryTargets : EndQuery(t) \/ EndQueryAborts(t)
  \/ TimestampAborts
  \/ MultiDraw
  \/ EndConditional
  \/ Execute

QueriesSpec == QueriesInit /\ [][QueriesNext]_queriesVars

-----------------------------------------------------------------------------

QueriesTypeOK ==
  /\ life \in [Queries -> {"none", "name", "object"}]
  /\ type \in [Queries -> Types \cup {"none"}]
  /\ status \in [Queries -> {"inactive", "active", "pending", "cached"}]
  /\ indices \in [Queries -> (Reports \cup {NoReport}) \X (Reports \cup {NoReport})]
  /\ timestamps \in [Queries -> Nat \X Nat]
  /\ query_binding \in [QueryTargets -> Queries \cup {NoQuery}]
  /\ any_samples_passed_query \in Reports \cup {NoReport}
  /\ used \subseteq Reports
  /\ label \in 0 .. last_timestamp
  /\ put \in 0 .. Len(fifo)

(* A report is in use by one query at most, and given out as long as it is; *)
(* the report that multi draws write is that of the active any-samples      *)
(* query, unless queries were misused (see AbortsAreMisuse).                *)
ReportsOwned ==
  /\ QueriesTypeOK
  /\ \A q \in Queries : ReportsOf(q) \subseteq used
  /\ \A q, p \in Queries : q # p => ReportsOf(q) \cap ReportsOf(p) = {}
  /\ any_samples_passed_query # NoReport /\ ~misused =>
       LET q == query_binding["any"] IN
         q # NoQuery /\ status[q] = "active" /\ indices[q][1] = any_samples_passed_query

(* The assertions of query.cc and of rsxgl_timestamp_create hold, except    *)
(* after a query was deleted while it was bound, begun for another target   *)
(* than before, or begun for a target that is not supported.                *)
AbortsAreMisuse == aborted \in {"query", "report", "timestamp"} => misused

(* The report of a result was written by the commands of this use of q; by  *)
(* any one of them, when any of them may see a sample.                      *)
IsOwnReport(q) ==
  CASE type[q] = "samples" -> report[indices[q][1]] = timestamps[q][2]
    [] type[q] = "any" -> report[indices[q][1]] \in timestamps[q][1] .. timestamps[q][2]
    [] type[q] = "elapsed" -> /\ report[indices[q][1]] = timestamps[q][1]
                              /\ report[indices[q][2]] = timestamps[q][2]
    [] type[q] = "timestamp" -> report[indices[q][1]] = timestamps[q][1]

(* glQueryCounter asks for its report behind the timestamp, not before it:  *)
(* the GPU may have reached the timestamp and be about to write the report. *)
IsNextReport(q) ==
  /\ type[q] = "timestamp"
  /\ fifo # << >>
  /\ Head(fifo) = Report(indices[q][1], timestamps[q][1])

(* A result is read from what the GPU wrote for this use of the query, and  *)
(* not from what is left of the report's previous owner, whose commands may *)
(* still be queued when the report is given out again; only the result of   *)
(* glQueryCounter may be read one command too early.                        *)
ResultIsOwn ==
  [][\A q \in Queries :
       ReadResult(q) /\ ~misused => IsOwnReport(q) \/ IsNextReport(q)]_queriesVars

(* When the GPU gets to a conditional rendering command, the report has     *)
(* been written by the end of the query it was begun for, and by nobody     *)
(* since.                                                                   *)
ConditionIsOwn ==
  fifo # << >> /\ Head(fifo).op = "condition" /\ ~misused =>
    report[Head(fifo).arg] = Head(fifo).ts

=============================================================================
