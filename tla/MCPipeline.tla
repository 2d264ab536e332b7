--------------------------- MODULE MCPipeline ---------------------------
(***************************************************************************)
(* Situations of Pipeline for TLC: walks and by-id calls of plans with     *)
(* none to three relations, chained and declared against their order.      *)
(***************************************************************************)
EXTENDS Pipeline

Rel(name, from) == [name |-> name, from |-> from, reference |-> FALSE]
Ref(name, from) == [name |-> name, from |-> from, reference |-> TRUE]

\* The relations are declared against the order their joins need.
Chained == <<Rel("city", "address"), Ref("owner", Root), Rel("address", Root)>>

Walk(relations, pages, start, held, ends, n) ==
  [relations |-> relations, pages |-> pages, start |-> start, asked |-> {},
   held |-> held, ends |-> ends, faults |-> n]

Call(relations, pages, asked, held, ends, n) ==
  [relations |-> relations, pages |-> pages, start |-> 1, asked |-> asked,
   held |-> held, ends |-> ends, faults |-> n]

MCSetups == <<
  \* A listing of four pages, one of them emptied by a resource without data.
  Walk(<<Rel("address", Root)>>, <<<<1>>, <<2>>, <<3, 4>>, <<5>>>>, 1, {1, 3, 4, 5}, TRUE, 1),
  \* The same walk resumed at its third page.
  Walk(Chained, <<<<1>>, <<2>>, <<3, 4>>, <<5>>, <<6>>>>, 3, 1..6, TRUE, 1),
  \* A walk nobody cancels, whose relation fetches, listings and flushes fail.
  Walk(Chained, <<<<1>>, <<2>>, <<3>>, <<4>>>>, 1, 1..4, FALSE, 2),
  \* A by-id call of a plan built from configuration: one page, asked order.
  Call(Chained, <<<<1, 2, 3>>>>, {1, 2, 3}, {1, 3}, TRUE, 2),
  \* Plans of other builders: their answers over several pages, an id left
  \* out, answered twice, and answered unasked.
  Call(<<Rel("address", Root)>>, <<<<1>>, <<2, 3>>>>, {1, 2, 3}, {1, 2, 3}, TRUE, 1),
  Call(<<Rel("address", Root)>>, <<<<1>>, <<3>>>>, {1, 2, 3}, {1, 2}, TRUE, 1),
  Call(<<Rel("address", Root)>>, <<<<1>>, <<1, 2>>, <<3>>, <<2>>>>, {1, 2, 3}, {1, 2, 3}, FALSE, 1),
  Call(<<>>, <<<<1, 2>>, <<9>>, <<3>>, <<2>>>>, {1, 2, 3}, {1, 2, 3, 9}, FALSE, 1)
>>
=============================================================================
