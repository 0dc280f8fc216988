----------------------------- MODULE Collections -----------------------------
(***************************************************************************)
(* Slice and string helpers of monorepo/pkg/common (slices/slices.go,     *)
(* strings/strings.go, strings/unique_slice.go) and the service-table     *)
(* check of devenv/services_ops.go, as operators that follow the code's    *)
(* loops step by step, each checked against a reference definition of     *)
(* what the doc comment promises, over every input up to a small size.    *)
(*                                                                         *)
(* A Go slice is [nil |-> BOOLEAN, s |-> sequence]: the helpers tell a nil *)
(* slice from an empty one (Batches and RemoveBulk return nil for an empty *)
(* result, Unique returns nil only for nil).  A Go string is a sequence of *)
(* bytes; len() counts them.  Each behaviour is one call: the action       *)
(* picks the function and its arguments, and stores what it returns.      *)
(***************************************************************************)
EXTENDS Integers, Sequences, FiniteSets, TLC

SE == INSTANCE SequencesExt

CONSTANTS
    Elems,      \* values held in slices
    Names,      \* service short names and directory names
    Chars,      \* bytes of strings
    GroupKeys,  \* keys a grouping function returns
    MaxLen,     \* longest slice generated
    MaxStrLen   \* longest string generated

Nil == [nil |-> TRUE, s |-> <<>>]
Slice(s) == [nil |-> FALSE, s |-> s]
Lists == {Nil} \cup {Slice(s) : s \in SE!BoundedSeq(Elems, MaxLen)}

(* A service of services.yml: its short name, its directory, and whether   *)
(* it is skipped by the tool.                                              *)
Services == [ShortName : Names, Directory : Names, SkipManagement : BOOLEAN]

(* strings.AbbreviationPostfix, " [...]": six bytes.                       *)
AbbreviationPostfix == <<" ", "[", ".", ".", ".", "]">>

-----------------------------------------------------------------------------
(* slices.Batches: the loop `for i := 0; i < len(list); i += batchSize`,   *)
(* with end clamped to len(list).  i is 0-based as in the code.            *)
RECURSIVE BatchesFrom(_, _, _, _)
BatchesFromOffByOne(l, i, size, batches) ==
    IF i + 1 >= Len(l) THEN batches
    ELSE LET end == IF i + size > Len(l) THEN Len(l) ELSE i + size
         IN BatchesFrom(l, i + size, size, Append(batches, SubSeq(l, i + 1, end)))

BatchesFrom(l, i, size, batches) ==
    IF i >= Len(l) THEN batches
    ELSE LET end == IF i + size > Len(l) THEN Len(l) ELSE i + size
         IN BatchesFrom(l, i + size, size, Append(batches, SubSeq(l, i + 1, end)))

(* `var batches [][]T` stays nil when the loop never appends.              *)
Batches(list, batchSize) ==
    IF list.nil THEN Nil
    ELSE LET size == IF batchSize <= 0 THEN Len(list.s) ELSE batchSize
             b == BatchesFrom(list.s, 0, size, <<>>)
         IN IF b = <<>> THEN Nil ELSE Slice(b)

(* slices.Unique: a `seen` map and one pass keeping unseen elements.       *)
UniqueStepNoMark(acc, t) ==
    IF t \in acc.seen THEN acc
    ELSE [seen |-> acc.seen, result |-> Append(acc.result, t)]

UniqueStep(acc, t) ==
    IF t \in acc.seen THEN acc
    ELSE [seen |-> acc.seen \cup {t}, result |-> Append(acc.result, t)]

Unique(list) ==
    IF list.nil THEN Nil
    ELSE Slice(SE!FoldLeft(UniqueStep, [seen |-> {}, result |-> <<>>], list.s).result)

(* The zero value `var zero T` that Find, Shift and Pop return.           *)
Zero == "zero"

(* A predicate func(T) bool is the set of elements it holds for.           *)

(* slices.Select / slices.Reject: nil stays nil, otherwise a fresh slice   *)
(* of the elements the predicate keeps (resp. rejects), in order.          *)
Select(list, P) ==
    IF list.nil THEN Nil
    ELSE Slice(SE!FoldLeft(LAMBDA r, t : IF t \in P THEN Append(r, t) ELSE r, <<>>, list.s))

Reject(list, P) ==
    IF list.nil THEN Nil
    ELSE Slice(SE!FoldLeft(LAMBDA r, t : IF t \notin P THEN Append(r, t) ELSE r, <<>>, list.s))

(* slices.Collect and its alias Map: nil stays nil, otherwise f applied to *)
(* each element; SelectCollect keeps f(t) for the t whose filter says ok.  *)
(* The callback is the tag it puts on an element: "in" for P, else "out".  *)
Tag(P, t) == IF t \in P THEN <<"in", t>> ELSE <<"out", t>>

Collect(list, P) ==
    IF list.nil THEN Nil
    ELSE Slice(SE!FoldLeft(LAMBDA r, t : Append(r, Tag(P, t)), <<>>, list.s))

Map(list, P) == Collect(list, P)

SelectCollect(list, P) ==
    IF list.nil THEN Nil
    ELSE Slice(SE!FoldLeft(LAMBDA r, t : IF t \in P THEN Append(r, Tag(P, t)) ELSE r,
                           <<>>, list.s))

(* slices.Contains / slices.All: early return on the first match (resp.    *)
(* mismatch); the predicate has no effect, so a fold gives the same value. *)
Contains(list, P) == SE!FoldLeft(LAMBDA found, t : found \/ t \in P, FALSE, list.s)

All(list, P) == SE!FoldLeft(LAMBDA ok, t : ok /\ t \in P, TRUE, list.s)

(* slices.Find: the first match and true, else the zero value and false;   *)
(* FindFirst drops the flag.                                               *)
FindNoBreak(list, P) ==
    SE!FoldLeft(LAMBDA r, t : IF t \in P THEN [v |-> t, ok |-> TRUE] ELSE r,
                [v |-> Zero, ok |-> FALSE], list.s)

RECURSIVE FindFrom(_, _, _)
FindFrom(l, i, P) ==
    IF i > Len(l) THEN [v |-> Zero, ok |-> FALSE]
    ELSE IF l[i] \in P THEN [v |-> l[i], ok |-> TRUE]
    ELSE FindFrom(l, i + 1, P)

Find(list, P) == FindFrom(list.s, 1, P)

FindFirst(list, P) == Find(list, P).v

(* slices.Group: result[k] = append(result[k], t) over the list; a map     *)
(* (never nil) from each key met to its elements in list order.            *)
GroupPrepend(list, key) ==
    SE!FoldLeft(LAMBDA m, t : IF key[t] \in DOMAIN m THEN [m EXCEPT ![key[t]] = <<t>> \o @]
                              ELSE m @@ (key[t] :> <<t>>), <<>>, list.s)

Group(list, key) ==
    SE!FoldLeft(LAMBDA m, t : IF key[t] \in DOMAIN m THEN [m EXCEPT ![key[t]] = Append(@, t)]
                              ELSE m @@ (key[t] :> <<t>>), <<>>, list.s)

(* slices.ToMap with mapper t -> (key(t), t): a later element overwrites   *)
(* an earlier one with the same key.                                       *)
ToMap(list, key) == SE!FoldLeft(LAMBDA m, t : (key[t] :> t) @@ m, <<>>, list.s)

(* slices.Shift / slices.Pop: the zero value and a nil rest for an empty   *)
(* list, otherwise the first (last) element and the re-slice without it.  *)
Shift(list) ==
    IF list.s = <<>> THEN [v |-> Zero, rest |-> Nil]
    ELSE [v |-> Head(list.s), rest |-> Slice(Tail(list.s))]

PopKeepsLast(list) ==
    IF list.s = <<>> THEN [v |-> Zero, rest |-> Nil]
    ELSE [v |-> list.s[Len(list.s)], rest |-> Slice(list.s)]

Pop(list) ==
    IF list.s = <<>> THEN [v |-> Zero, rest |-> Nil]
    ELSE [v |-> list.s[Len(list.s)], rest |-> Slice(SubSeq(list.s, 1, Len(list.s) - 1))]

(* slices.Reverse: result[i] = list[j] with j running down from the end.   *)
Reverse(list) ==
    IF list.nil THEN Nil
    ELSE Slice([i \in 1..Len(list.s) |-> list.s[Len(list.s) - i + 1]])

(* slices.Prepend: append(elements, list...).  Appending nothing returns   *)
(* `elements` itself, nil included.                                        *)
Prepend(list, elements) ==
    IF list.s = <<>> THEN elements ELSE Slice(elements.s \o list.s)

(* strings.Unique: NewUniqueSlice(all...).Items().  NewUniqueSliceCap      *)
(* makes `items` non-nil, and Append skips what `known` holds.             *)
UniqueSliceAppend(u, s) ==
    IF s \in u.known THEN u
    ELSE [known |-> u.known \cup {s}, items |-> Append(u.items, s)]

StringsUnique(all) ==
    Slice(SE!FoldLeft(UniqueSliceAppend, [known |-> {}, items |-> <<>>], all.s).items)

(* strings.AppendIfMissing: each item is looked up in the list as grown so *)
(* far, and appended when absent (append to a nil list makes it non-nil).  *)
AppendIfMissingStale(list, items) ==
    LET step(l, item) ==
            IF item \in SE!ToSet(list.s) THEN l ELSE Slice(Append(l.s, item))
    IN SE!FoldLeft(step, list, items)

AppendIfMissing(list, items) ==
    LET step(l, item) ==
            IF item \in SE!ToSet(l.s) THEN l ELSE Slice(Append(l.s, item))
    IN SE!FoldLeft(step, list, items)

(* devenv.ServicesToMap: every short name and (when different) directory  *)
(* is a key; a key already present is an error.  res maps a key to the    *)
(* index of its service (a *Service in the code).                          *)
ServicesToMapStepNoSkip(acc, i, svc) ==
    IF acc.err THEN acc
    ELSE IF svc.ShortName \in DOMAIN acc.res THEN [err |-> TRUE, res |-> acc.res]
    ELSE LET r1 == acc.res @@ (svc.ShortName :> i)
         IN IF svc.Directory \in DOMAIN r1 THEN [err |-> TRUE, res |-> r1]
            ELSE [err |-> FALSE, res |-> r1 @@ (svc.Directory :> i)]

ServicesToMapStep(acc, i, svc) ==
    IF acc.err THEN acc
    ELSE IF svc.ShortName \in DOMAIN acc.res THEN [err |-> TRUE, res |-> acc.res]
    ELSE LET r1 == acc.res @@ (svc.ShortName :> i)
         IN IF svc.ShortName = svc.Directory THEN [err |-> FALSE, res |-> r1]
            ELSE IF svc.Directory \in DOMAIN r1 THEN [err |-> TRUE, res |-> r1]
            ELSE [err |-> FALSE, res |-> r1 @@ (svc.Directory :> i)]

ServicesToMap(services) ==
    LET step(acc, i) == ServicesToMapStep(acc, i, services[i])
    IN SE!FoldLeft(step, [err |-> FALSE, res |-> <<>>], [i \in 1..Len(services) |-> i])

(* slices.ToBoolMap: ToMap with t -> (t, true).                           *)
ToBoolMap(list) == SE!FoldLeft(LAMBDA m, t : (t :> TRUE) @@ m, <<>>, list)

(* devenv.FilterServices: all services when no names are given, otherwise *)
(* Select those whose short name or directory is in the name set.          *)
FilterServicesShortOnly(services, names) ==
    IF Len(names) = 0 THEN services
    ELSE LET nameSet == ToBoolMap(names)
         IN SelectSeq(services, LAMBDA svc : svc.ShortName \in DOMAIN nameSet)

FilterServices(services, names) ==
    IF Len(names) = 0 THEN services
    ELSE LET nameSet == ToBoolMap(names)
         IN SelectSeq(services, LAMBDA svc : svc.ShortName \in DOMAIN nameSet
                                             \/ svc.Directory \in DOMAIN nameSet)

(* devenv.FilterManagedServices: Reject the services with SkipManagement.  *)
FilterManagedServices(services) == SelectSeq(services, LAMBDA svc : ~svc.SkipManagement)

(* strings.RemoveBulk: a set of the values to remove, then `var result`   *)
(* gets every other item appended, so it stays nil when none is kept.      *)
RemoveBulk(items, toRemove) ==
    LET kept == SE!FoldLeft(LAMBDA r, v : IF v \in SE!ToSet(toRemove) THEN r ELSE Append(r, v),
                            <<>>, items)
    IN IF kept = <<>> THEN Nil ELSE Slice(kept)

(* strings.DuplicateInArray: a `visited` map, true at the first repeat.    *)
DuplicateInArrayNoVisit(array) ==
    SE!FoldLeft(LAMBDA acc, v : [dup |-> acc.dup \/ v \in acc.visited, visited |-> acc.visited],
                [dup |-> FALSE, visited |-> {}], array).dup

DuplicateInArray(array) ==
    SE!FoldLeft(LAMBDA acc, v : [dup |-> acc.dup \/ v \in acc.visited,
                                visited |-> acc.visited \cup {v}],
                [dup |-> FALSE, visited |-> {}], array).dup

(* slices.RequireUnique: log.Panicf at the first element already seen.     *)
RequireUnique(list) ==
    SE!FoldLeft(LAMBDA acc, t : IF acc.panic THEN acc
                               ELSE [panic |-> t \in acc.seen, seen |-> acc.seen \cup {t}],
                [panic |-> FALSE, seen |-> {}], list).panic

(* strings.Abbreviate.                                                     *)
Abbreviate(s, maxLength) ==
    IF maxLength <= Len(AbbreviationPostfix) \/ Len(s) <= maxLength THEN s
    ELSE SubSeq(s, 1, maxLength - Len(AbbreviationPostfix)) \o AbbreviationPostfix
-----------------------------------------------------------------------------
(* Reference definitions, from the doc comments.                           *)

(* The positions holding the first occurrence of their value, in order.   *)
FirstOccurrences(s) ==
    LET idx == {j \in 1..Len(s) : \A k \in 1..j - 1 : s[k] # s[j]}
    IN [n \in 1..Cardinality(idx) |-> s[SE!SetToSortSeq(idx, LAMBDA x, y : x < y)[n]]]

(* "Returns batches of the given slice ... batchSize must be greater than  *)
(* 0, otherwise it will be set to the length of the given slice."          *)
IsBatching(list, batchSize, out) ==
    LET size == IF batchSize <= 0 THEN Len(list.s) ELSE batchSize
        b == out.s
    IN /\ out.nil <=> (list.nil \/ list.s = <<>>)
       /\ SE!FlattenSeq(b) = list.s
       /\ \A k \in 1..Len(b) : b[k] # <<>> /\ Len(b[k]) <= size
       /\ \A k \in 1..Len(b) - 1 : Len(b[k]) = size

(* Two services claim a key: a short name or directory of one is a short  *)
(* name or directory of another.                                           *)
Keys(svc) == {svc.ShortName, svc.Directory}
Ambiguous(services) ==
    \E i, j \in 1..Len(services) : i # j /\ Keys(services[i]) \cap Keys(services[j]) # {}

-----------------------------------------------------------------------------
VARIABLES call, ret
vars == <<call, ret>>

(* Nothing returned yet.                                                   *)
NoReturn == [none |-> TRUE]

TypeOK ==
    /\ call.fn \in {"none", "Batches", "Unique", "StringsUnique",
                    "AppendIfMissing", "ServicesToMap", "Abbreviate",
                    "Predicates", "Group", "SequenceOps"}
    /\ call.fn = "none" => ret = NoReturn

Init == call = [fn |-> "none"] /\ ret = NoReturn

Idle == call.fn = "none"

CallBatches ==
    /\ Idle
    /\ \E list \in Lists, n \in -1..MaxLen + 1 :
         /\ call' = [fn |-> "Batches", list |-> list, n |-> n]
         /\ ret' = Batches(list, n)

CallUnique ==
    /\ Idle
    /\ \E list \in Lists :
         /\ call' = [fn |-> "Unique", list |-> list]
         /\ ret' = Unique(list)

CallStringsUnique ==
    /\ Idle
    /\ \E list \in Lists :
         /\ call' = [fn |-> "StringsUnique", list |-> list]
         /\ ret' = StringsUnique(list)

CallAppendIfMissing ==
    /\ Idle
    /\ \E list \in Lists, items \in SE!BoundedSeq(Elems, 2) :
         /\ call' = [fn |-> "AppendIfMissing", list |-> list, items |-> items]
         /\ ret' = AppendIfMissing(list, items)

CallServicesToMap ==
    /\ Idle
    /\ \E services \in SE!BoundedSeq(Services, 2) :
         /\ call' = [fn |-> "ServicesToMap", services |-> services]
         /\ ret' = ServicesToMap(services)

CallAbbreviate ==
    /\ Idle
    /\ \E s \in SE!BoundedSeq(Chars, MaxStrLen), m \in -1..MaxStrLen + 1 :
         /\ call' = [fn |-> "Abbreviate", s |-> s, m |-> m]
         /\ ret' = Abbreviate(s, m)

CallPredicates ==
    /\ Idle
    /\ \E list \in Lists, P \in SUBSET Elems :
         /\ call' = [fn |-> "Predicates", list |-> list, P |-> P]
         /\ ret' = [select |-> Select(list, P), reject |-> Reject(list, P),
                    contains |-> Contains(list, P), all |-> All(list, P),
                    find |-> Find(list, P), findFirst |-> FindFirst(list, P),
                    collect |-> Map(list, P), selectCollect |-> SelectCollect(list, P)]

CallGroup ==
    /\ Idle
    /\ \E list \in Lists, key \in [Elems -> GroupKeys] :
         /\ call' = [fn |-> "Group", list |-> list, key |-> key]
         /\ ret' = [group |-> Group(list, key), toMap |-> ToMap(list, key)]

CallSequenceOps ==
    /\ Idle
    /\ \E list, elements \in Lists :
         /\ call' = [fn |-> "SequenceOps", list |-> list, elements |-> elements]
         /\ ret' = [shift |-> Shift(list), pop |-> Pop(list),
                    reverse |-> Reverse(list), prepend |-> Prepend(list, elements)]

CallFilterServices ==
    /\ Idle
    /\ \E services \in SE!BoundedSeq(Services, 2), names \in SE!BoundedSeq(Names, 1) :
         /\ call' = [fn |-> "FilterServices", services |-> services, names |-> names]
         /\ ret' = [filtered |-> FilterServices(services, names),
                    managed |-> FilterManagedServices(services)]

CallRemoveBulk ==
    /\ Idle
    /\ \E items, toRemove \in SE!BoundedSeq(Elems, MaxLen) :
         /\ call' = [fn |-> "RemoveBulk", items |-> items, toRemove |-> toRemove]
         /\ ret' = [removeBulk |-> RemoveBulk(items, toRemove),
                    duplicate |-> DuplicateInArray(items),
                    panics |-> RequireUnique(items)]

(* The call has returned.                                                  *)
Returned == ~Idle /\ UNCHANGED vars

Next ==
    \/ CallBatches \/ CallUnique \/ CallStringsUnique
    \/ CallAppendIfMissing \/ CallServicesToMap \/ CallAbbreviate
    \/ CallPredicates \/ CallGroup \/ CallSequenceOps
    \/ CallFilterServices \/ CallRemoveBulk
    \/ Returned

Spec == Init /\ [][Next]_vars

-----------------------------------------------------------------------------
(* slices.Batches: the batches concatenate to the list, none is empty, all *)
(* but the last hold batchSize elements (the whole list when batchSize is  *)
(* not positive); nil only for a nil or empty list.                        *)
BatchesPartitionList ==
    call.fn = "Batches" => IsBatching(call.list, call.n, ret)

(* slices.Unique and strings.Unique keep the first occurrence of each      *)
(* element in order; slices.Unique keeps nil, strings.Unique never         *)
(* returns nil.                                                            *)
UniqueKeepsFirstOccurrences ==
    /\ call.fn = "Unique" =>
         ret = IF call.list.nil THEN Nil ELSE Slice(FirstOccurrences(call.list.s))
    /\ call.fn = "StringsUnique" => ret = Slice(FirstOccurrences(call.list.s))

(* strings.AppendIfMissing: the list, then each item not already present,  *)
(* once, in the order given ("appends an element to the slice if it is not *)
(* already present").                                                      *)
AppendIfMissingAddsOnlyMissing ==
    call.fn = "AppendIfMissing" =>
        LET missing == SelectSeq(call.items, LAMBDA x : x \notin SE!ToSet(call.list.s))
            added == FirstOccurrences(missing)
        IN ret = IF call.list.nil /\ added = <<>> THEN Nil
                 ELSE Slice(call.list.s \o added)

(* devenv.ServicesToMap (and so ServicesConfiguration.Validate): fails     *)
(* exactly when two services share a short name or directory in any       *)
(* combination, and otherwise maps every short name and directory to its   *)
(* own service.                                                            *)
ServicesToMapRejectsExactlyAmbiguous ==
    call.fn = "ServicesToMap" =>
        /\ ret.err <=> Ambiguous(call.services)
        /\ ~ret.err =>
             /\ DOMAIN ret.res = UNION {Keys(call.services[i]) : i \in 1..Len(call.services)}
             /\ \A k \in DOMAIN ret.res : k \in Keys(call.services[ret.res[k]])

(* strings.Abbreviate's doc comment: the string is returned unchanged      *)
(* exactly when maxLength <= 0, when it is not longer than maxLength, or   *)
(* when maxLength is less than the postfix's length; otherwise it is       *)
(* truncated and ends with " [...]".                                       *)
AbbreviateAsDocumented ==
    call.fn = "Abbreviate" =>
        (ret = call.s <=> \/ call.m <= 0
                          \/ Len(call.s) <= call.m
                          \/ call.m < Len(AbbreviationPostfix))

(* slices.Select, Reject, Contains, All, Find, FindFirst, Collect/Map,     *)
(* SelectCollect: Select and Reject split the list into the elements the  *)
(* predicate keeps and the rest, in order (nil stays nil); Contains holds  *)
(* iff some element matches, All iff every one does (true for an empty    *)
(* list); Find returns the first match and true, or the zero value and    *)
(* false; Collect maps every element in place, SelectCollect maps exactly  *)
(* the kept ones.                                                          *)
PredicatesAsDocumented ==
    call.fn = "Predicates" =>
        LET l == call.list.s
            matches == {i \in 1..Len(l) : l[i] \in call.P}
        IN /\ ret.select.nil = call.list.nil /\ ret.reject.nil = call.list.nil
           /\ ret.select.s = SelectSeq(l, LAMBDA x : x \in call.P)
           /\ ret.reject.s = SelectSeq(l, LAMBDA x : x \notin call.P)
           /\ ret.contains <=> matches # {}
           /\ ret.all <=> matches = 1..Len(l)
           /\ ret.find = IF matches = {} THEN [v |-> Zero, ok |-> FALSE]
                         ELSE [v |-> l[CHOOSE i \in matches : \A j \in matches : i <= j], ok |-> TRUE]
           /\ ret.findFirst = ret.find.v
           /\ ret.collect.nil = call.list.nil /\ ret.selectCollect.nil = call.list.nil
           /\ ret.collect.s = [i \in 1..Len(l) |-> Tag(call.P, l[i])]
           /\ ret.selectCollect.s = [i \in 1..Len(ret.select.s) |-> <<"in", ret.select.s[i]>>]

(* slices.Group and slices.ToMap: Group maps each key met to exactly the   *)
(* elements with that key, in list order; ToMap has the same keys and      *)
(* keeps the last element of each group.                                   *)
GroupAsDocumented ==
    call.fn = "Group" =>
        LET l == call.list.s
            keysMet == {call.key[l[i]] : i \in 1..Len(l)}
        IN /\ DOMAIN ret.group = keysMet /\ DOMAIN ret.toMap = keysMet
           /\ \A k \in keysMet :
                /\ ret.group[k] = SelectSeq(l, LAMBDA x : call.key[x] = k)
                /\ ret.toMap[k] = ret.group[k][Len(ret.group[k])]

(* slices.Shift, Pop, Reverse, Prepend: the element taken and the rest     *)
(* rebuild the list (the zero value and nil for an empty one); Reverse     *)
(* reverses and keeps nil; Prepend puts the elements before the list.      *)
SequenceOpsAsDocumented ==
    call.fn = "SequenceOps" =>
        LET l == call.list.s
        IN /\ l = <<>> => ret.shift = [v |-> Zero, rest |-> Nil] /\ ret.pop = ret.shift
           /\ l # <<>> => /\ <<ret.shift.v>> \o ret.shift.rest.s = l
                          /\ ret.pop.rest.s \o <<ret.pop.v>> = l
           /\ ret.reverse = IF call.list.nil THEN Nil ELSE Slice(SE!Reverse(l))
           /\ ret.prepend.s = call.elements.s \o l

(* devenv.FilterServices and FilterManagedServices: with no names every    *)
(* service, otherwise exactly the services one of whose short name or     *)
(* directory was named, in configuration order; the managed services are  *)
(* those not marked skip.                                                  *)
ServiceFiltersAsDocumented ==
    call.fn = "FilterServices" =>
        LET svcs == call.services
            named == SE!ToSet(call.names)
        IN /\ ret.filtered = IF call.names = <<>> THEN svcs
                             ELSE SelectSeq(svcs, LAMBDA svc : Keys(svc) \cap named # {})
           /\ SE!ToSet(ret.managed) = {svcs[i] : i \in {j \in 1..Len(svcs) : ~svcs[j].SkipManagement}}
           /\ Len(ret.managed) = Cardinality({j \in 1..Len(svcs) : ~svcs[j].SkipManagement})

(* strings.RemoveBulk, DuplicateInArray, slices.RequireUnique: RemoveBulk  *)
(* keeps exactly the items not to be removed, in order (nil when none);   *)
(* DuplicateInArray holds, and RequireUnique panics, exactly when some    *)
(* value occurs twice.                                                     *)
RemoveBulkAndDuplicatesAsDocumented ==
    call.fn = "RemoveBulk" =>
        LET kept == SelectSeq(call.items, LAMBDA v : v \notin SE!ToSet(call.toRemove))
            hasDup == Len(FirstOccurrences(call.items)) < Len(call.items)
        IN /\ ret.removeBulk = IF kept = <<>> THEN Nil ELSE Slice(kept)
           /\ ret.duplicate <=> hasDup
           /\ ret.panics <=> hasDup
====
