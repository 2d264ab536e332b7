----------------------------- MODULE Search -----------------------------
(***************************************************************************)
(* Paged and federated search: what the search chain of core makes of a    *)
(* request, what the Elasticsearch backend makes of that, and the pages    *)
(* the caller gets.                                                        *)
(*                                                                         *)
(* core validates the caller's filters, derives nested paths, resolves     *)
(* filters on reference relations with child searches folded into terms    *)
(* on the parent's key, and normalizes paging; the backend builds filter   *)
(* clauses - each scoped block correlated with the caller's scope - and    *)
(* cuts a page out of the ranking, for a federated search either in one    *)
(* query over every Type's alias or in one leg per Type merged here.       *)
(*                                                                         *)
(* A field path is a pair <<head, name>>, its head "fields", a relation or *)
(* a nested block.  Every op that looks for a value (eq, in, the ranges,   *)
(* prefix, suffix, contains) is "is" with the values it admits; neq and    *)
(* not_in are "isnot".  Relevance is a number given with each document.    *)
(***************************************************************************)
EXTENDS Integers, FiniteSets, SequencesExt

CONSTANTS
  Setups,            \* the situations checked, a sequence of records: see MCSearch
  MaxPagingWindow,   \* maxPagingWindow, Elasticsearch's max_result_window
  MaxReferenceTerms, \* maxReferenceTerms
  TotalHitsCap,      \* Elasticsearch's default track_total_hits
  DefaultPageSize,   \* normalizePaging's default and cap
  MaxPageSize,
  MaxAsks            \* pages asked for in one behaviour

\* 10000, 10000 and 10000 in the code; 25 and 100.
ASSUME LimitsAssumption ==
  /\ MaxReferenceTerms = MaxPagingWindow
  /\ TotalHitsCap = MaxPagingWindow
  /\ 0 < DefaultPageSize /\ DefaultPageSize <= MaxPageSize
  /\ MaxPageSize <= MaxPagingWindow

VARIABLES
  setup,    \* what stays: configs, documents, and the pages asked for
  request,  \* the request whose pages are asked for
  served,   \* served[t]: the version a Type's read alias serves, 0 for none
  work,     \* the page being searched, between core and the backend
  got       \* the answered pages, in the order they were asked for

vars == <<setup, request, served, work, got>>

Config(t)  == setup.config[t]     \* read version config of a Type
Docs       == setup.docs          \* every document of every index
Idle       == [pc |-> "idle"]

InIndex(t) == {d \in Docs : d.type = t /\ d.version = served[t]}

-----------------------------------------------------------------------------
(* Elasticsearch: a clause is the set of objects it matches (external).     *)

\* The documents, and each of their nested entries as a document with the
\* entry's fields: a field of an entry exists only for a nested query.
Entries(d) == {[d EXCEPT !.fields = e] : e \in UNION Range(d.nested)}

Objects == setup.objects

ValuesAt(object, path) ==
  IF path \in DOMAIN object.fields THEN object.fields[path] ELSE {}

Term(path, values) == {o \in Objects : ValuesAt(o, path) \cap values # {}}
Exists(path)       == {o \in Objects : ValuesAt(o, path) # {}}
Nested(at, clause) ==
  {o \in Objects : at \in DOMAIN o.nested /\ \E e \in o.nested[at] : [o EXCEPT !.fields = e] \in clause}
Not(clause)        == Objects \ clause
AllOf(clauses)     == {o \in Objects : \A k \in DOMAIN clauses : o \in clauses[k]}
SomeOf(clauses)    == UNION Range(clauses)
OfType(t)          == {o \in Objects : o.type = t /\ o.version = served[t]}
MatchNone          == {}

Order(t) == CHOOSE k \in DOMAIN setup.types : setup.types[k] = t

\* Documents in the order of the sort keys; what they leave tied comes in
\* Elasticsearch's own order, which moves from one request to the next.
SortValue(d, key) ==
  CASE key = "score" -> <<0 - d.score, 0>>
    [] key = "index" -> <<Order(d.type), d.version>>
    [] key = "id"    -> <<d.id, 0>>
    [] key = "level" -> <<d.level, 0>>

Below(x, y) == x[1] < y[1] \/ (x[1] = y[1] /\ x[2] < y[2])

Sorted(docs, keys, tie) ==
  LET Less(a, b) ==
        LET differ == {k \in DOMAIN keys : SortValue(a, keys[k]) # SortValue(b, keys[k])}
        IN  IF differ = {}
            THEN Below(<<tie * a.id, Order(a.type)>>, <<tie * b.id, Order(b.type)>>)
            ELSE LET k == CHOOSE k \in differ : \A l \in differ : k <= l
                 IN  Below(SortValue(a, keys[k]), SortValue(b, keys[k]))
  IN  SetToSortSeq(docs, Less)

Capped(n) == IF n > TotalHitsCap THEN TotalHitsCap ELSE n

\* At most size of a sequence, from an offset on.
Cut(ranked, from, size) ==
  SubSeq(ranked, from + 1, IF from + size < Len(ranked) THEN from + size ELSE Len(ranked))

\* One search: the hits from an offset on and hits.total under its cap.
Answer(docs, keys, from, size, tie) ==
  [hits  |-> Cut(Sorted(docs, keys, tie), from, size),
   total |-> Capped(Cardinality(docs))]

Nothing == [hits |-> <<>>, total |-> 0]

-----------------------------------------------------------------------------
(* backend/elasticsearch: the clauses of a search. *)

IsNegation(op) == op \in {"isnot", "missing"}

buildOpClause(f) ==
  IF f.op \in {"is", "isnot"} THEN Term(f.path, f.values) ELSE Exists(f.path)

\* Nested first, must_not second: no entry matches, not some entry differs.
buildFilterClause(f) ==
  LET positive == buildOpClause(f)
      wrapped  == IF f.nested # "" THEN Nested(f.nested, positive) ELSE positive
  IN  IF IsNegation(f.op) THEN Not(wrapped) ELSE wrapped

Scoped(config) == SelectSeq(config.blocks, LAMBDA b : b.scopeKey # "")

OfBlock(b, filters) == SelectSeq(filters, LAMBDA f : f.path[1] = b.name)

buildScopedNestedClause(b, scope, filters) ==
  IF scope = "" THEN MatchNone
  ELSE Nested(b.name,
         AllOf(<<Term(<<b.name, b.scopeKey>>, {scope})>> \o
             [k \in DOMAIN filters |-> buildFilterClause([filters[k] EXCEPT !.nested = ""])]))

\* Faulty variant: a filter on a scoped block and the scope in clauses apart.
buildScopedFilterClausesApart(filters, blocks, scope) ==
  [k \in DOMAIN filters |->
     buildFilterClause(IF \E b \in Range(blocks) : b.name = filters[k].path[1]
                       THEN [filters[k] EXCEPT !.nested = filters[k].path[1]]
                       ELSE filters[k])] \o
  [k \in DOMAIN blocks |-> buildScopedNestedClause(blocks[k], scope, <<>>)]

\* Every filter on another path is a clause of its own, every scoped block is
\* one clause with the scope and the filters on it, also without any.
buildScopedFilterClauses(filters, blocks, scope) ==
  LET others == SelectSeq(filters, LAMBDA f : \A k \in DOMAIN blocks : f.path[1] # blocks[k].name)
  IN  [k \in DOMAIN others |-> buildFilterClause(others[k])] \o
      [k \in DOMAIN blocks |->
         buildScopedNestedClause(blocks[k], scope, OfBlock(blocks[k], filters))]

\* buildOpClause refuses an op without the operand it needs.
Buildable(filters) ==
  \A f \in Range(filters) : f.op \in {"is", "isnot"} => f.values # {}

Primary(query) == Term(<<"search", "primary">>, {query})

\* The text and the scope in one nested query: an entry counts only if its own
\* scope contains the caller's.
buildSecondaryClause(query, scope) ==
  Nested("secondary",
    AllOf(<<Term(<<"secondary", "text">>, {query})>> \o
        IF scope = "" THEN <<>> ELSE <<Term(<<"secondary", "scope">>, {scope})>>))

buildFullTextQuery(query) ==
  IF query = "" THEN <<>> ELSE <<Primary(query)>>

buildFederatedTextQuery(query, scope) ==
  IF query = "" THEN <<>>
  ELSE <<SomeOf(<<Primary(query), buildSecondaryClause(query, scope)>>)>>

searchSort(sort) == (IF sort = <<>> THEN <<"score">> ELSE sort) \o <<"id">>

federatedSort == <<"score", "index", "id">>

\* In int64: page * page_size wraps in int32 and would ask for a shallow page.
pagingWindow(page, size) == [from |-> page * size, window |-> page * size + size]

-----------------------------------------------------------------------------
(* core: from a request to the filters of each Type. *)

normalizePaging(page, size) ==
  [page |-> IF page < 0 THEN 0 ELSE page,
   size |-> CASE size <= 0 -> DefaultPageSize
              [] size > MaxPageSize -> MaxPageSize
              [] OTHER -> size]

Relation(config, name) == SelectSeq(config.relations, LAMBDA r : r.name = name)

IsReference(config, f) ==
  \E r \in Range(config.relations) : r.name = f.path[1] /\ r.kind = "reference"

\* resolveFilterField: a root field, a relation's field or a block's, never a
\* block's scope key.
Known(config, path) ==
  \/ path[1] = "fields" /\ path[2] \in config.fields
  \/ \E r \in Range(config.relations) : r.name = path[1] /\ path[2] \in r.fields
  \/ \E b \in Range(config.blocks) : b.name = path[1] /\ path[2] \in b.fields

validateRequestFilters(config, filters) ==
  \A f \in Range(filters) :
    /\ Known(config, f.path)
    /\ IsReference(config, f) => ~IsNegation(f.op)
    /\ f.op \in {"is", "isnot"} <=> f.values # {}

deriveNestedPath(config, filters) ==
  LET Many(f) == \E r \in Range(config.relations) : r.name = f.path[1] /\ r.kind = "many"
  IN  [k \in DOMAIN filters |->
         IF filters[k].nested = "" /\ Many(filters[k])
         THEN [filters[k] EXCEPT !.nested = filters[k].path[1]]
         ELSE filters[k]]

(* ---- reference relations ---- *)

\* newReferenceTarget: where the parent holds the key of a reference.
ParentKey(config, rel) ==
  LET from == Relation(config, rel.from)
  IN  [path   |-> IF rel.from = "" THEN <<"fields", rel.local>> ELSE <<rel.from, rel.local>>,
       nested |-> IF from # <<>> /\ from[1].kind = "many" THEN rel.from ELSE ""]

foreignValue(d, rel) ==
  IF rel.foreign = "id" THEN {d.id} ELSE ValuesAt(d, <<"fields", rel.foreign>>)

ChildFilters(rel, filters) ==
  LET own == SelectSeq(filters, LAMBDA f : f.path[1] = rel.name)
  IN  [k \in DOMAIN own |-> [own[k] EXCEPT !.path = <<"fields", @[2]>>, !.nested = ""]]

\* The backend's Search of one Type, its missing alias an empty answer.
SearchType(t, query, filters, scope, sort, from, size, tie) ==
  IF served[t] = 0 THEN Nothing
  ELSE Answer(InIndex(t) \cap AllOf(buildFullTextQuery(query) \o
                                   buildScopedFilterClauses(filters, Scoped(Config(t)), scope)),
              searchSort(sort), from, size, tie)

\* The children that a search of rel's Type found, as a terms filter on the
\* parent's key: no parent at all when no child has a key, an error past the
\* ceiling.
FoldKeys(acc, key, total, keys) ==
  CASE total > MaxReferenceTerms -> [acc EXCEPT !.state = "refused"]
    [] total <= MaxReferenceTerms /\ keys = {} -> [acc EXCEPT !.state = "nothing"]
    [] total <= MaxReferenceTerms /\ keys # {} ->
         [acc EXCEPT !.filters = Append(@, [path |-> key.path, op |-> "is", values |-> keys,
                                            nested |-> key.nested])]

FoldChildren(config, acc, rel, child) ==
  FoldKeys(acc, ParentKey(config, rel), child.total,
           UNION {foreignValue(d, rel) : d \in Range(child.hits)})

\* One reference with filters of its own: its child search, folded.
FoldReference(config, acc, rel, own, scope) ==
  CASE acc.state # "ok" \/ rel.kind # "reference" \/ own = <<>> -> acc
    [] acc.state = "ok" /\ rel.kind = "reference" /\ own # <<>> ->
         IF ~Buildable(own) THEN [acc EXCEPT !.state = "refused"]
         ELSE FoldChildren(config, acc, rel,
                           SearchType(rel.name, "", own, scope, <<>>, 0, MaxReferenceTerms, 1))

resolveReferenceFilters(config, filters, scope) ==
  FoldLeft(LAMBDA acc, rel : FoldReference(config, acc, rel, ChildFilters(rel, filters), scope),
           [state |-> "ok", filters |-> SelectSeq(filters, LAMBDA f : ~IsReference(config, f))],
           config.relations)

(* ---- the groups of a federated search ---- *)

\* A reference without children and a scoped Type without a scope exclude the
\* Type, not the search.
IndexFilterGroup(t, resolved, unscoped) ==
  [type    |-> t,
   state   |-> IF resolved.state = "ok" /\ unscoped THEN "nothing" ELSE resolved.state,
   filters |-> resolved.filters]

GroupClauses(g, scope) ==
  buildScopedFilterClauses(g.filters, Scoped(Config(g.type)), scope)

buildIndexFilterGroups(groups, scope) ==
  SomeOf([k \in DOMAIN groups |->
         IF groups[k].state = "nothing" THEN MatchNone
         ELSE AllOf(<<OfType(groups[k].type)>> \o GroupClauses(groups[k], scope))])

GlobalClauses(filters) == [k \in DOMAIN filters |-> buildFilterClause(filters[k])]

CountOf(docs, t) == Cardinality({d \in docs : d.type = t})

\* Faulty variant: only the read version's index is known.
indexToReadVersion(types, d) ==
  IF d.type \in Range(types) /\ d.version = setup.readVersion THEN d.type ELSE "unknown"

\* indexToResource: every configured version's index, whichever is served.
indexToResource(types, d) ==
  IF d.type \in Range(types) /\ d.version \in setup.versions THEN d.type ELSE "unknown"

\* What every federated query asks of a document, whatever its Type.
CommonClauses(r) ==
  buildFederatedTextQuery(r.query, r.secondaryScope) \o GlobalClauses(r.filters)

\* The page and the per-Type counts of one query.
SingleAnswer(types, docs, cut, tie) ==
  [hits   |-> Cut(Sorted(docs, federatedSort, tie), cut.from, cut.window - cut.from),
   counts |-> [k \in DOMAIN types |->
                 CountOf({d \in docs : indexToResource(types, d) = types[k]}, types[k])]]

\* One query over every alias.  A missing one is a 404 of the whole query.
federatedSingle(r, groups, cut, tie) ==
  IF \E t \in Range(r.types) : served[t] = 0
  THEN [hits |-> <<>>, counts |-> [k \in DOMAIN r.types |-> 0]]
  ELSE SingleAnswer(r.types,
         UNION {InIndex(t) : t \in Range(r.types)} \cap
           AllOf(CommonClauses(r) \o <<buildIndexFilterGroups(groups, r.scope)>>), cut, tie)

\* One leg per Type, each over the whole merged window from 0.
FanoutLeg(r, g, window, tie) ==
  IF g.state = "nothing" THEN Nothing
  ELSE Answer(InIndex(g.type) \cap AllOf(CommonClauses(r) \o GroupClauses(g, r.scope)),
              federatedSort, 0, window, tie)

MergedLegs(leg, cut, tie) ==
  [hits   |-> Cut(Sorted(UNION {Range(leg[k].hits) : k \in DOMAIN leg}, federatedSort, tie),
                  cut.from, cut.window - cut.from),
   counts |-> [k \in DOMAIN leg |-> leg[k].total]]

federatedFanout(r, groups, cut, tie) ==
  MergedLegs([k \in DOMAIN groups |-> FanoutLeg(r, groups[k], cut.window, tie)], cut, tie)

-----------------------------------------------------------------------------
(* The steps of one page: core's part, then the backend's.  A cutover may   *)
(* move a read alias in between.                                            *)

Init ==
  /\ \E s \in Range(Setups) :
       /\ setup = [types |-> s.types, config |-> s.config, versions |-> s.versions,
                   readVersion |-> s.readVersion, docs |-> s.docs, pages |-> s.pages,
                   objects |-> s.docs \cup UNION {Entries(d) : d \in s.docs}]
       /\ request \in s.requests
       /\ served = s.served
  /\ work = Idle
  /\ got = <<>>

Answers(page, response) ==
  /\ got' = Append(got, [page |-> page, served |-> served, response |-> response])
  /\ work' = Idle

\* Search and FederatedSearch down to the backend's call: validation of the
\* caller's filters, the middlewares' own appended, references resolved.
Valid ==
  IF request.federated
  THEN \A t \in Range(request.types) :
         /\ validateRequestFilters(Config(t), request.filters)
         /\ \A f \in Range(request.filters) : f.path[1] = "fields"
  ELSE validateRequestFilters(Config(request.types[1]), request.filters)

\* A federated search takes its own filters as they are; a single Type's are
\* given their nested paths with the trusted ones.
TypeFilters(t) ==
  IF request.federated THEN request.trusted[t]
  ELSE deriveNestedPath(Config(t), request.filters \o request.trusted[t])

Groups ==
  [k \in DOMAIN request.types |->
     LET t == request.types[k]
     IN  IndexFilterGroup(t, resolveReferenceFilters(Config(t), TypeFilters(t), request.scope),
                          request.federated /\ Scoped(Config(t)) # <<>> /\ request.scope = "")]

Ask(page) ==
  /\ work = Idle
  /\ Len(got) < MaxAsks
  /\ \A k \in DOMAIN got : got[k].page # page
  /\ Valid
  /\ LET paging == normalizePaging(page, request.size)
     IN  work' = [pc |-> "resolved", page |-> page, groups |-> Groups,
                  cut |-> pagingWindow(paging.page, paging.size)]
  /\ UNCHANGED <<setup, request, served, got>>

\* The filters that come to be built: none of a Type that is known to match
\* nothing, none on a scoped block without a scope.
Built(g) ==
  SelectSeq(g.filters, LAMBDA f :
    /\ g.state # "nothing"
    /\ request.scope # "" \/ \A b \in Range(Scoped(Config(g.type))) : f.path[1] # b.name)

\* A child past the ceiling, a clause that cannot be built or a window past the
\* limit; a single Type that matches nothing is answered before its window is
\* looked at.
Refused ==
  \/ \E k \in DOMAIN work.groups : work.groups[k].state = "refused" \/ ~Buildable(Built(work.groups[k]))
  \/ /\ work.cut.window > MaxPagingWindow
     /\ request.federated \/ work.groups[1].state # "nothing"

\* ... is the caller's error.
Refuse ==
  /\ work # Idle /\ Refused
  /\ Answers(work.page, [refused |-> TRUE])
  /\ UNCHANGED <<setup, request, served>>

\* What the backend answers.
Found(tie) ==
  LET g == work.groups[1]
  IN  CASE request.federated /\ request.mode = "fanout" ->
             federatedFanout(request, work.groups, work.cut, tie)
        [] request.federated /\ request.mode = "single" ->
             federatedSingle(request, work.groups, work.cut, tie)
        [] ~request.federated /\ g.state = "nothing" -> [hits |-> <<>>, counts |-> <<>>]
        [] ~request.federated /\ g.state # "nothing" ->
             [hits |-> SearchType(g.type, request.query, g.filters, request.scope, request.sort,
                                  work.cut.from, work.cut.window - work.cut.from, tie).hits,
              counts |-> <<>>]

Response(found) ==
  [refused |-> FALSE, counts |-> found.counts,
   hits |-> [k \in DOMAIN found.hits |->
               [type |-> indexToResource(request.types, found.hits[k]), id |-> found.hits[k].id]]]

Query(tie) ==
  /\ work # Idle /\ ~Refused
  /\ Answers(work.page, Response(Found(tie)))
  /\ UNCHANGED <<setup, request, served>>

RefuseInvalid ==
  /\ work = Idle
  /\ got = <<>>
  /\ ~Valid
  /\ Answers(0, [refused |-> TRUE])
  /\ UNCHANGED <<setup, request, served>>

\* A start with a new read version moves the alias (ReadAlias).
Cutover(t) ==
  /\ served[t] < setup.readVersion
  /\ served[t] > 0
  /\ served' = [served EXCEPT ![t] = setup.readVersion]
  /\ UNCHANGED <<setup, request, work, got>>

Next ==
  \/ \E page \in setup.pages : Ask(page)
  \/ Refuse
  \/ RefuseInvalid
  \/ \E tie \in {1, -1} : Query(tie)
  \/ \E t \in DOMAIN served : Cutover(t)

Spec == Init /\ [][Next]_vars

-----------------------------------------------------------------------------
(* What a request means, told without clauses. *)

Holds(f, values) ==
  CASE f.op = "is"      -> values \cap f.values # {}
    [] f.op = "isnot"   -> values \cap f.values = {}
    [] f.op = "exists"  -> values # {}
    [] f.op = "missing" -> values = {}

FieldValues(d, path) ==
  ValuesAt(d, path) \cup
  (IF path[1] \in DOMAIN d.nested
   THEN UNION {ValuesAt([fields |-> e], path) : e \in d.nested[path[1]]}
   ELSE {})

\* A document the caller may see: in each scoped block it has an entry of the
\* caller's scope, and one for which every filter on the block holds.
InScope(d, filters, scope) ==
  \A b \in Range(Scoped(Config(d.type))) :
    /\ scope # "" /\ b.name \in DOMAIN d.nested
    /\ \E e \in d.nested[b.name] :
         /\ scope \in e[<<b.name, b.scopeKey>>]
         /\ \A f \in Range(OfBlock(b, filters)) : Holds(f, ValuesAt([fields |-> e], f.path))

\* A reference filter: the document's key names a child the caller may see
\* for which every filter on that reference holds.
Joined(d, rel, filters, scope, at) ==
  LET own == ChildFilters(rel, filters)
  IN  own = <<>> \/ \E c \in Docs :
        /\ c.type = rel.name /\ c.version = at[rel.name]
        /\ foreignValue(c, rel) \cap FieldValues(d, ParentKey(Config(d.type), rel).path) # {}
        /\ \A f \in Range(own) : Holds(f, FieldValues(c, f.path))
        /\ InScope(c, own, scope)

TextMatches(d, r) ==
  \/ r.query = ""
  \/ r.query \in ValuesAt(d, <<"search", "primary">>)
  \/ /\ r.federated /\ "secondary" \in DOMAIN d.nested
     /\ \E e \in d.nested["secondary"] :
          /\ r.query \in e[<<"secondary", "text">>]
          /\ r.secondaryScope = "" \/ r.secondaryScope \in e[<<"secondary", "scope">>]

\* The documents a request is about, read from the indices its Types served.
Wanted(r, at) ==
  {d \in Docs :
     /\ d.type \in Range(r.types) /\ d.version = at[d.type]
     /\ TextMatches(d, r)
     /\ LET config  == Config(d.type)
            filters == r.filters \o r.trusted[d.type]
            heads   == {b.name : b \in Range(Scoped(config))}
        IN  /\ InScope(d, filters, r.scope)
            /\ \A f \in Range(filters) :
                 f.path[1] \in heads \/ IsReference(config, f) \/ Holds(f, FieldValues(d, f.path))
            /\ \A rel \in Range(config.relations) :
                 rel.kind = "reference" => Joined(d, rel, filters, r.scope, at)}

Ranking(r, docs) ==
  Sorted(docs, (IF r.sort = <<>> THEN <<"score">> ELSE r.sort) \o <<"index", "id">>, 1)

Named(docs) == [k \in DOMAIN docs |-> [type |-> docs[k].type, id |-> docs[k].id]]

\* A federated search in one query reads nothing while an alias is missing.
Answered(a) ==
  /\ ~a.response.refused
  /\ request.federated /\ request.mode = "single" =>
       \A t \in Range(request.types) : a.served[t] # 0

-----------------------------------------------------------------------------
(* Properties *)

\* Every page is its cut of one ranking of exactly the documents the request
\* means - filters on nested, scoped and referenced data, negations and the
\* caller's scope included - whether one query or a fan-out answered it, in
\* whatever order Elasticsearch leaves ties, however deep the page, and also
\* when an alias moved while the page was searched.
PageIsCut ==
  \A k \in DOMAIN got : Answered(got[k]) =>
    LET paging == normalizePaging(got[k].page, request.size)
    IN  got[k].response.hits =
          Named(Cut(Ranking(request, Wanted(request, got[k].served)), paging.page * paging.size, paging.size))

\* The per-Type counts of a federated search, in request order, are the Types'
\* own shares of what the request means, whichever page they come with.
CountsHold ==
  \A k \in DOMAIN got : Answered(got[k]) /\ request.federated =>
    got[k].response.counts =
      [j \in DOMAIN request.types |->
         CountOf(Wanted(request, got[k].served), request.types[j])]

\* A reference that matches more children than the ceiling fails the search
\* loudly rather than fold a part of them.
CeilingIsLoud ==
  \A k \in DOMAIN got : Answered(got[k]) /\ ~request.federated =>
    \A rel \in Range(Config(request.types[1]).relations) :
      LET own == ChildFilters(rel, request.filters)
      IN  rel.kind = "reference" /\ own # <<>> =>
            Cardinality({c \in InIndex(rel.name) :
                           \A f \in Range(own) : Holds(f, FieldValues(c, f.path))})
              <= MaxReferenceTerms
=============================================================================
