---------------------------- MODULE MCSearch ----------------------------
(***************************************************************************)
(* Situations of Search for TLC: three Types - orders with a many, a one   *)
(* and two reference relations and a scoped block, shipments without, and  *)
(* customers, the referenced Type, scoped in some of the situations.       *)
(***************************************************************************)
EXTENDS Search, TLC

F(head, name) == <<head, name>>

Is(path, values)    == [path |-> path, op |-> "is", values |-> values, nested |-> ""]
IsNot(path, values) == [path |-> path, op |-> "isnot", values |-> values, nested |-> ""]
Has(path)           == [path |-> path, op |-> "exists", values |-> {}, nested |-> ""]
HasNo(path)         == [path |-> path, op |-> "missing", values |-> {}, nested |-> ""]

Block(name, key) == [name |-> name, scopeKey |-> key, fields |-> {"v"}]

Rel(name, kind) == [name |-> name, kind |-> kind, local |-> "", from |-> "", foreign |-> "id",
                    fields |-> {"name"}]
Ref(name, from, foreign) == [name |-> name, kind |-> "reference", local |-> "key", from |-> from,
                             foreign |-> foreign, fields |-> {"name"}]

Customer(blocks) == [fields |-> {"name"}, relations |-> <<>>, blocks |-> blocks]
Shipment == [fields |-> {"name"}, relations |-> <<>>, blocks |-> <<>>]
Order1(blocks, relations) ==
  [fields |-> {"name"}, blocks |-> blocks, relations |-> relations]

Line(name, key)   == (F("lines", "name") :> name) @@ (F("lines", "key") :> key)
Data(tenant, v)   == (F("data", "tenant") :> {tenant}) @@ (F("data", "v") :> v)
Text(text, scope) == (F("secondary", "text") :> text) @@ (F("secondary", "scope") :> scope)

Root(name, key, word) == (F("fields", "name") :> name) @@ (F("fields", "key") :> key) @@
                         (F("search", "primary") :> word)

Document(type, version, id, score, fields, nested) ==
  [type |-> type, version |-> version, id |-> id, score |-> score, level |-> id % 2,
   fields |-> fields, nested |-> nested]

NestedAt(lines, data, text) == ("lines" :> lines) @@ ("data" :> data) @@ ("secondary" :> text)

Orders(v) == {
  Document("order", v, 1, 1, Root({"x"}, {1}, {"w"}) @@ (F("carrier", "name") :> {"x"}),
    NestedAt({Line({"x"}, {1}), Line({"y"}, {2})}, {Data("s", {"x"}), Data("t", {"y"})}, {Text({"w"}, {"t"})})),
  Document("order", v, 2, 1, Root({"y"}, {2}, {}),
    NestedAt({Line({"y"}, {2})}, {Data("t", {"x"})}, {Text({"w"}, {"s"}), Text({}, {"t"})})),
  Document("order", v, 3, 2, Root({}, {}, {"w"}) @@ (F("carrier", "name") :> {"y"}),
    NestedAt({}, {Data("s", {})}, {})),
  Document("order", v, 4, 1, Root({"x"}, {9}, {"w"}),
    NestedAt({Line({"x"}, {}), Line({"x"}, {2})}, {}, {})) }

Customers(v) == {
  Document("customer", v, 1, 1, Root({"x"}, {2}, {}), NestedAt({}, {Data("s", {"x"})}, {})),
  Document("customer", v, 2, 1, Root({"y"}, {1}, {}), NestedAt({}, {Data("t", {"x"})}, {})),
  Document("customer", v, 3, 1, Root({"x"}, {}, {}), NestedAt({}, {Data("s", {"x"})}, {})) }

Shipments(v) == {
  Document("shipment", v, 1, 1, Root({"x"}, {}, {"w"}), NestedAt({}, {}, {})),
  Document("shipment", v, 2, 2, Root({"y"}, {}, {"w"}), NestedAt({}, {}, {})),
  Document("shipment", v, 4, 1, Root({"x"}, {}, {}), NestedAt({}, {}, {Text({"w"}, {})})) }

AllTypes == <<"order", "shipment", "customer">>

Situation(orderBlocks, relations, customerBlocks, docs, serving, requests, pages) ==
  [types |-> AllTypes, versions |-> {1, 2}, readVersion |-> 2,
   config |-> ("order" :> Order1(orderBlocks, relations)) @@ ("shipment" :> Shipment) @@
              ("customer" :> Customer(customerBlocks)),
   docs |-> docs, served |-> serving, requests |-> requests, pages |-> pages]

At(o, s, c) == ("order" :> o) @@ ("shipment" :> s) @@ ("customer" :> c)

Trust(filters) == ("order" :> filters) @@ ("shipment" :> <<>>) @@ ("customer" :> <<>>)

One(filters, trusted, scope, query, sort, size) ==
  [federated |-> FALSE, types |-> <<"order">>, query |-> query, filters |-> filters,
   trusted |-> Trust(trusted), scope |-> scope, secondaryScope |-> "", sort |-> sort,
   size |-> size, mode |-> "single"]

Federated(types, filters, trusted, scope, secondary, query, size, mode) ==
  [federated |-> TRUE, types |-> types, query |-> query, filters |-> filters,
   trusted |-> Trust(trusted), scope |-> scope, secondaryScope |-> secondary, sort |-> <<>>,
   size |-> size, mode |-> mode]

UpTo2(pool) == {<<>>} \cup {<<f>> : f \in pool} \cup {<<f, g>> : f \in pool, g \in pool}

\* Filters on root, one, many, reference and scoped data, and invalid ones.
Pool == {Is(F("fields", "name"), {"x"}), IsNot(F("fields", "name"), {"x"}), HasNo(F("fields", "name")),
         Is(F("carrier", "name"), {"x"}), HasNo(F("carrier", "name")),
         Is(F("lines", "name"), {"x"}), IsNot(F("lines", "name"), {"x"}), Has(F("lines", "name")),
         Is(F("customer", "name"), {"x"}), Is(F("customer", "name"), {"x", "y"}),
         IsNot(F("customer", "name"), {"x"}),
         Is(F("data", "v"), {"x"}), Is(F("data", "v"), {"y"}), IsNot(F("data", "v"), {"x"}),
         Is(F("data", "tenant"), {"t"}), Is(F("fields", "name"), {})}

Relations == <<Rel("lines", "many"), Rel("carrier", "one")>>
Scope     == <<Block("data", "tenant")>>

\* Every pair of filters, with and without a scope, on a scoped Type.
ScopedFilters == Situation(Scope, Append(Relations, Ref("customer", "", "id")), <<>>,
  Orders(2) \cup Customers(2), At(2, 0, 2),
  {One(fs, <<>>, scope, "", <<>>, 3) : fs \in UpTo2(Pool), scope \in {"", "s"}}, {0})

\* The same on an unscoped Type, the reference joined through the lines and
\* its Type scoped; a middleware's filters are not validated.
JoinedFilters == Situation(<<>>, <<Ref("customer", "lines", "key")>> \o Relations, Scope,
  Orders(2) \cup Customers(2), At(2, 0, 2),
  {One(fs, tr, scope, "", <<>>, 3) :
     fs \in {<<>>} \cup {<<f>> : f \in Pool},
     tr \in {<<>>, <<Is(F("customer", "name"), {"x", "y"})>>, <<IsNot(F("customer", "name"), {"x"})>>,
             <<Is(F("lines", "name"), {})>>},
     scope \in {"", "s", "t"}}, {0})

\* Pages of every size and depth, asked in any order, during a cutover.
Paging == Situation(<<>>, Relations, <<>>,
  Orders(1) \cup Orders(2), At(1, 0, 0),
  {One(<<>>, <<>>, "", query, sort, size) :
     query \in {"", "w"}, sort \in {<<>>, <<"level">>}, size \in {0, 1, 2, 5}},
  {-1, 0, 1, 2, 3, 8, 16})

\* Federated searches in both executions, one Type scoped, during a cutover.
FederatedTypes == Situation(Scope, Append(Relations, Ref("customer", "", "id")), <<>>,
  Orders(1) \cup Orders(2) \cup Shipments(1) \cup Shipments(2) \cup Customers(2), At(1, 1, 2),
  {Federated(types, fs, tr, scope, second, query, size, mode) :
     types \in {<<"order", "shipment">>, <<"shipment", "order">>},
     fs \in {<<>>, <<IsNot(F("fields", "name"), {"y"})>>, <<Is(F("lines", "name"), {"x"})>>},
     tr \in {<<>>, <<Is(F("customer", "name"), {"x"})>>, <<Is(F("customer", "name"), {"z"})>>,
             <<Is(F("data", "v"), {"x"})>>},
     scope \in {"", "s"}, second \in {"", "s"}, query \in {"", "w"}, size \in {2},
     mode \in {"single", "fanout"}}, {0, 1, 2})

\* A Type whose alias does not exist yet.
MissingAlias == Situation(<<>>, Relations, <<>>, Shipments(2), At(0, 2, 0),
  {Federated(<<"order", "shipment">>, <<>>, <<>>, "", "", query, size, mode) :
     query \in {"", "w"}, size \in {1, 2}, mode \in {"single", "fanout"}}
  \cup {One(<<>>, <<>>, "", "", <<>>, 2)}, {0, 1, 2})

MCSetups == <<ScopedFilters, JoinedFilters, Paging, FederatedTypes, MissingAlias>>

\* More children than the ceiling match a reference.
ManyCustomers == {Document("customer", 2, n, 1, Root({"x"}, {}, {}), NestedAt({}, {}, {})) : n \in 1..7}

MCCeiling == <<Situation(<<>>, <<Ref("customer", "", "id")>>, <<>>,
  {Document("order", 2, n, 1, Root({}, {n}, {}), NestedAt({}, {}, {})) : n \in 1..7} \cup ManyCustomers,
  At(2, 0, 2), {One(<<Is(F("customer", "name"), {"x"})>>, <<>>, "", "", <<>>, 3)}, {0, 1, 2})>>
=============================================================================
