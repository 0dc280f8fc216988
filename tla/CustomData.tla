----------------------------- MODULE CustomData -----------------------------
(***************************************************************************)
(* Custom data carried by errors (pkg/common/errors) and consumed by a     *)
(* log call (pkg/common/log/logger.go) and the Rollbar notifier            *)
(* (pkg/common/log/rollbar.go).  Every map is a heap cell: a CustomData's  *)
(* `fields`, and the fields map a caller passes to a log call.  Go maps    *)
(* are reference values, so the code below writes into cells that other    *)
(* goroutines and later calls still hold:                                  *)
(*   - AnnotateWithCustomData merges the new data INTO the wrapped error's *)
(*     CustomData (Merge -> Map -> Field) and the new error points at it;  *)
(*   - Logger.Error -> mergeCustomDataAndArgsFields -> fieldsFromCustomData*)
(*     copies the call's fields into each CustomData on the cause chain    *)
(*     and continues with that CustomData's own map;                       *)
(*   - the deferred notifyErrorMonitoringProvider deletes request headers  *)
(*     and body from that map, adds original-trace for a juju error, and   *)
(*     installs a process-wide rollbar transform closing over the map.     *)
(* Each request goroutine builds an error from its own CustomData, wraps   *)
(* it with AnnotateWithCustomData, and logs it through logError (log.go),  *)
(* a juju *Err, or through an Entry's ReturnError (log/entry.go); Rollbar  *)
(* is configured.  A map                                                   *)
(* access spans two steps so that an overlapping access by another         *)
(* goroutine, which the Go runtime reports as a fatal concurrent map       *)
(* access, is visible in a state.                                          *)
(***************************************************************************)
EXTENDS Naturals, Sequences, FiniteSets, TLC

CONSTANTS
    Procs,        \* request goroutines
    Logs          \* how often the same error is logged (Entry.ReturnError, then the caller)

(* Field names: request-id, request-body, request-headers, original-trace, *)
(* and one field K that both the call's fields and the error's data set.   *)
Keys == {"request-id", "request-body", "request-headers", "original-trace", "K"}
Absent == <<"none", "absent">>
(* A value records who put it there: <<goroutine, origin>>.                *)
Origins == {"inner", "outer", "args", "trace"}
Vals == (Procs \X Origins) \cup {Absent}

(* Heap cells: per goroutine the inner error's data, the annotation's data *)
(* and the fields map of the log call.                                     *)
Inner(p) == <<"in", p>>
Outer(p) == <<"out", p>>
Args(p)  == <<"args", p>>
Cells == {Inner(p) : p \in Procs} \cup {Outer(p) : p \in Procs} \cup {Args(p) : p \in Procs}
NoTransform == <<"none", "none">>
NoFields == <<"nil", "nil">>   \* a nil fields map

(* A map literal: the given keys set, every other key absent.              *)
MapOf(f) == [k \in Keys |-> IF k \in DOMAIN f THEN f[k] ELSE Absent]

(* What each goroutine builds before logging:                              *)
(*   ErrorWithCustomData(base, NewCustomData().Field(K).RequestID(..))      *)
(*   AnnotateWithCustomData(that, msg, NewCustomData().RequestID(..)        *)
(*                                 .Field(request-body).Field(request-headers))*)
(*   Error(err, map{K: ..})                                                 *)
InitialCell(c) ==
    LET p == c[2] IN
    CASE c[1] = "in"  -> MapOf(("K" :> <<p, "inner">>) @@ ("request-id" :> <<p, "inner">>))
      [] c[1] = "out" -> MapOf(("request-id" :> <<p, "outer">>)
                               @@ ("request-body" :> <<p, "outer">>)
                               @@ ("request-headers" :> <<p, "outer">>))
      [] OTHER        -> MapOf("K" :> <<p, "args">>)

(* Entry.Field creates the entry's map on first use: Logger.NewEntry      *)
(* leaves it nil, the package NewEntry makes it empty, and ranging over    *)
(* either yields nothing.  A request may add K with Field before logging.  *)
EntryFields(p, built) == IF built THEN Args(p) ELSE NoFields

(* The log calls a request makes with its error: logError(key, err) of     *)
(* log.go, which logs a juju *Err without fields, or an Entry's            *)
(* ReturnError(err) -> Entry.Error -> Logger.Error(err, e.fields), which   *)
(* logs the custom-data error itself with the entry's map.                 *)
Calls(p) ==
    {[via |-> "logError", f |-> NoFields]}
    \cup {[via |-> "entry", f |-> EntryFields(p, b)] : b \in BOOLEAN}

VARIABLES
    heap,       \* heap[c][k]: the map held by cell c
    chain,      \* chain[p]: CustomData pointers fieldsFromCustomData visits
    pc,         \* program counter of each goroutine
    fields,     \* the `fields` map variable of the log call in progress
    lvl,        \* position of fieldsFromCustomData on the chain
    access,     \* map accesses in progress: <<goroutine, cell, "r" | "w">>
    logged,     \* log calls made per goroutine
    events,     \* written log lines: goroutine, call number, field snapshot
    transform,  \* the cell the process-wide rollbar transform closes over
    reports,    \* Rollbar items: goroutine and the uuid the transform set
    call        \* the current log call: how it logs and the fields it passes

vars == <<heap, chain, pc, fields, lvl, access, logged, events, transform, reports, call>>

PCs == {"annotate", "merge_end", "log", "cd_begin", "cd_end", "write", "write_end",
        "notify", "notify_end", "set_transform", "report", "report_end", "done"}

TypeOK ==
    /\ heap \in [Cells -> [Keys -> Vals]]
    /\ \A p \in Procs : chain[p] \in Seq(Cells) /\ Len(chain[p]) <= 2
    /\ pc \in [Procs -> PCs]
    /\ fields \in [Procs -> Cells \cup {NoFields}]
    /\ \A p \in Procs : call[p] \in Calls(p)
    /\ lvl \in [Procs -> 1..3]
    /\ access \subseteq Procs \X Cells \X {"r", "w"}
    /\ logged \in [Procs -> 0..Logs]
    /\ transform \in Cells \cup {NoTransform}

Init ==
    /\ heap = [c \in Cells |-> InitialCell(c)]
    /\ chain = [p \in Procs |-> <<>>]
    /\ pc = [p \in Procs |-> "annotate"]
    /\ fields = [p \in Procs |-> Args(p)]
    /\ lvl = [p \in Procs |-> 1]
    /\ access = {}
    /\ logged = [p \in Procs |-> 0]
    /\ events = {}
    /\ transform = NoTransform
    /\ reports = {}
    /\ call = [p \in Procs |-> [via |-> "logError", f |-> NoFields]]

-----------------------------------------------------------------------------
(* CustomData.Map(f): Field(k, v) for every entry of f, i.e. f's entries   *)
(* overwrite the receiver's.                                               *)
CustomDataMap(data, f) == [k \in Keys |-> IF f[k] # Absent THEN f[k] ELSE data[k]]

(* The entries of a fields map; ranging over a nil map yields none.        *)
FieldsMap(c) == IF c = NoFields THEN [k \in Keys |-> Absent] ELSE heap[c]

(* An access of cell c by p begins / ends.                                 *)
Begin(p, c, kind) == access' = access \cup {<<p, c, kind>>}
EndAll(p) == access' = {a \in access : a[1] # p}

(* AnnotateWithCustomData(other, msg, customData): other is a custom-data  *)
(* error, so e.CustomData().Merge(customData) runs Map on the wrapped      *)
(* error's own CustomData.                                                 *)
AnnotateWithCustomData(p) ==
    /\ pc[p] = "annotate"
    /\ Begin(p, Inner(p), "w")
    /\ pc' = [pc EXCEPT ![p] = "merge_end"]
    /\ UNCHANGED <<heap, chain, fields, lvl, logged, events, transform, reports, call>>

(* Merge returns the receiver it wrote into, and the new error points at   *)
(* it; the cause chain of the error as logged is the new error, then the   *)
(* wrapped one, both holding the same CustomData.                          *)
Merge(p) ==
    /\ pc[p] = "merge_end"
    /\ heap' = [heap EXCEPT ![Inner(p)] = CustomDataMap(heap[Inner(p)], heap[Outer(p)])]
    /\ EndAll(p)
    /\ pc' = [pc EXCEPT ![p] = "log"]
    /\ UNCHANGED <<chain, fields, lvl, logged, events, transform, reports, call>>

(* logError(key, err) of log.go: errors.Annotate is juju's (the import),   *)
(* whose new *Err records Cause(err); the AnnotateWithCustomData error has *)
(* no Cause method, so that is the error itself.  commonlog is the         *)
(* monorepo logger.  So the chain fieldsFromCustomData walks is: Cause of  *)
(* the logged error, the annotation (CustomData = the merged inner cell);  *)
(* its Source, a juju Annotate of the inner error, whose Cause is the      *)
(* inner error (the same cell); its Source, the base error, has none.      *)
CauseChain(p) == <<Inner(p), Inner(p)>>


(* Logger.Error(err, fieldArgs...): the error is not nil (Annotate keeps a *)
(* non-nil error); fieldsFromArgs returns nil when no map is given, as in  *)
(* logError, or the caller's map itself, as in Entry.Error.  The cause     *)
(* chain of the error Entry.Error logs (the custom-data error itself) is   *)
(* the same CauseChain.                                                    *)
LogCall(p) ==
    /\ pc[p] = "log"
    /\ logged' = [logged EXCEPT ![p] = logged[p] + 1]
    /\ chain' = [chain EXCEPT ![p] = CauseChain(p)]
    /\ \E c \in Calls(p) :
         /\ fields' = [fields EXCEPT ![p] = c.f]
         /\ call' = [call EXCEPT ![p] = c]
    /\ lvl' = [lvl EXCEPT ![p] = 1]
    /\ pc' = [pc EXCEPT ![p] = "cd_begin"]
    /\ UNCHANGED <<heap, access, events, transform, reports>>

(* fieldsFromCustomData: while errors.Cause(err) has custom data, copy     *)
(* `fields` into its CustomData (Map reads fields, writes the data) and    *)
(* continue with the data's own map.  Map over a nil map touches neither.  *)
FieldsFromCustomDataStep(p) ==
    /\ pc[p] = "cd_begin"
    /\ IF lvl[p] > Len(chain[p])
         THEN /\ pc' = [pc EXCEPT ![p] = "write"]
              /\ UNCHANGED access
         ELSE /\ access' = access \cup IF fields[p] = NoFields THEN {}
                                        ELSE {<<p, chain[p][lvl[p]], "w">>, <<p, fields[p], "r">>}
              /\ pc' = [pc EXCEPT ![p] = "cd_end"]
    /\ UNCHANGED <<heap, chain, fields, lvl, logged, events, transform, reports, call>>

\* Fault variant: the error's data is copied into the call's fields instead.
FieldsFromCustomDataReversed(p) ==
    /\ pc[p] = "cd_end"
    /\ LET c == chain[p][lvl[p]] IN
         /\ heap' = [heap EXCEPT ![c] = CustomDataMap(FieldsMap(fields[p]), heap[c])]
         /\ fields' = [fields EXCEPT ![p] = c]
    /\ lvl' = [lvl EXCEPT ![p] = lvl[p] + 1]
    /\ EndAll(p)
    /\ pc' = [pc EXCEPT ![p] = "cd_begin"]
    /\ UNCHANGED <<chain, logged, events, transform, reports, call>>

FieldsFromCustomData(p) ==
    /\ pc[p] = "cd_end"
    /\ LET c == chain[p][lvl[p]] IN
         /\ heap' = [heap EXCEPT ![c] = CustomDataMap(heap[c], FieldsMap(fields[p]))]
         /\ fields' = [fields EXCEPT ![p] = c]
    /\ lvl' = [lvl EXCEPT ![p] = lvl[p] + 1]
    /\ EndAll(p)
    /\ pc' = [pc EXCEPT ![p] = "cd_begin"]
    /\ UNCHANGED <<chain, logged, events, transform, reports, call>>

(* logError: event.Fields(fields) iterates the map into the log line.      *)
LogErrorBegin(p) ==
    /\ pc[p] = "write"
    /\ Begin(p, fields[p], "r")
    /\ pc' = [pc EXCEPT ![p] = "write_end"]
    /\ UNCHANGED <<heap, chain, fields, lvl, logged, events, transform, reports, call>>

LogError(p) ==
    /\ pc[p] = "write_end"
    /\ events' = events \cup {[proc |-> p, n |-> logged[p], call |-> call[p], f |-> heap[fields[p]]]}
    /\ EndAll(p)
    /\ pc' = [pc EXCEPT ![p] = "notify"]
    /\ UNCHANGED <<heap, chain, fields, lvl, logged, transform, reports, call>>

\* Fault variant: SetTransform is installed before the deletes.
NotifyBeginTransformFirst(p) ==
    /\ pc[p] = "notify"
    /\ Begin(p, fields[p], "w")
    /\ transform' = fields[p]
    /\ pc' = [pc EXCEPT ![p] = "notify_end"]
    /\ UNCHANGED <<heap, chain, fields, lvl, logged, events, reports, call>>

(* The deferred notifyErrorMonitoringProvider writes the map it is given:  *)
(* it deletes request-headers and request-body and, the logged error being *)
(* a juju *Err (logError's Annotate; not the custom-data error an Entry    *)
(* logs), sets original-trace.                                             *)
NotifyBegin(p) ==
    /\ pc[p] = "notify"
    /\ Begin(p, fields[p], "w")
    /\ pc' = [pc EXCEPT ![p] = "notify_end"]
    /\ UNCHANGED <<heap, chain, fields, lvl, logged, events, transform, reports, call>>

NotifyErrorMonitoringProvider(p) ==
    /\ pc[p] = "notify_end"
    /\ heap' = [heap EXCEPT ![fields[p]] =
                  [k \in Keys |-> CASE k \in {"request-headers", "request-body"} -> Absent
                                    [] k = "original-trace" /\ call[p].via = "logError"
                                         -> <<p, "trace">>
                                    [] OTHER -> heap[fields[p]][k]]]
    /\ EndAll(p)
    /\ pc' = [pc EXCEPT ![p] = "set_transform"]
    /\ UNCHANGED <<chain, fields, lvl, logged, events, transform, reports, call>>

(* rollbar.SetTransform replaces the client's one transform function with  *)
(* a closure over this call's fields map.                                  *)
SetTransform(p) ==
    /\ pc[p] = "set_transform"
    /\ transform' = fields[p]
    /\ pc' = [pc EXCEPT ![p] = "report"]
    /\ UNCHANGED <<heap, chain, fields, lvl, logged, events, access, reports, call>>

(* rollbar.ErrorWithStackSkipWithExtrasAndContext builds the item and runs *)
(* the transform installed at that moment, which reads request-id from the *)
(* map it closes over.                                                     *)
ReportBegin(p) ==
    /\ pc[p] = "report"
    /\ Begin(p, transform, "r")
    /\ pc' = [pc EXCEPT ![p] = "report_end"]
    /\ UNCHANGED <<heap, chain, fields, lvl, logged, events, transform, reports, call>>

\* Fault variant: the same error is logged once more than the caller does.
ReportOffByOne(p) ==
    /\ pc[p] = "report_end"
    /\ \E a \in access : a[1] = p /\ a[3] = "r"
         /\ reports' = reports \cup {[proc |-> p, uuid |-> heap[a[2]]["request-id"]]}
    /\ EndAll(p)
    /\ pc' = [pc EXCEPT ![p] = IF logged[p] <= Logs THEN "log" ELSE "done"]
    /\ UNCHANGED <<heap, chain, fields, lvl, logged, events, transform, call>>

(* The Rollbar item is sent; the goroutine logs the same error again or    *)
(* is done.                                                                *)
Report(p) ==
    /\ pc[p] = "report_end"
    /\ \E a \in access : a[1] = p /\ a[3] = "r"
         /\ reports' = reports \cup {[proc |-> p, uuid |-> heap[a[2]]["request-id"]]}
    /\ EndAll(p)
    /\ pc' = [pc EXCEPT ![p] = IF logged[p] < Logs THEN "log" ELSE "done"]
    /\ UNCHANGED <<heap, chain, fields, lvl, logged, events, transform, call>>

Proc(p) ==
    \/ AnnotateWithCustomData(p) \/ Merge(p) \/ LogCall(p)
    \/ FieldsFromCustomDataStep(p) \/ FieldsFromCustomData(p)
    \/ LogErrorBegin(p) \/ LogError(p)
    \/ NotifyBegin(p) \/ NotifyErrorMonitoringProvider(p)
    \/ SetTransform(p) \/ ReportBegin(p) \/ Report(p)

(* Every request has returned: the process stays as it is.                *)
Terminated ==
    /\ \A p \in Procs : pc[p] = "done"
    /\ UNCHANGED vars

Next == (\E p \in Procs : Proc(p)) \/ Terminated

Spec == Init /\ [][Next]_vars

-----------------------------------------------------------------------------
(* Reference: the fields a log line of p's error should carry: the call's  *)
(* fields a (none for logError), then the annotation's data, then the      *)
(* wrapped error's data.                                                   *)
Expected(p, a) ==
    CustomDataMap(CustomDataMap(InitialCell(Inner(p)), InitialCell(Outer(p))),
                  IF a.f = NoFields THEN [k \in Keys |-> Absent] ELSE InitialCell(a.f))

(* Properties *)

(* The first log line of an error carries exactly the call's fields and    *)
(* the custom data of its whole cause chain, the call's fields winning:    *)
(* fieldsFromCustomData's copy direction and the deferred notifier running *)
(* after logError make this so.                                            *)
FirstEventAsBuilt ==
    \A e \in events : e.n = 1 => e.f = Expected(e.proc, e.call)

(* Every log line of an error, the second log of the same error included,  *)
(* carries the data the error was built with and the call's fields: the    *)
(* error value is only read by a log call.  logError (log.go) passes no    *)
(* fields, so what it logs is the error's own CustomData map, the map the  *)
(* deferred notifyErrorMonitoringProvider deletes from and adds to.        *)
EveryEventAsBuilt ==
    \A e \in events : e.f = Expected(e.proc, e.call)

(* No map is written by one goroutine while another reads or writes it:    *)
(* the Go runtime aborts the process on a concurrent map access.  The maps *)
(* at risk are the custom-data maps the rollbar transform closes over.     *)
NoConcurrentMapAccess ==
    \A a, b \in access :
        (a[1] # b[1] /\ a[2] = b[2]) => (a[3] = "r" /\ b[3] = "r")

(* The Rollbar item of a request carries that request's request-id as its  *)
(* uuid, although SetTransform is process-wide.                            *)
ReportCarriesOwnRequestID ==
    \A r \in reports : r.uuid = <<r.proc, "outer">>

====
