------------------------------- MODULE MCQuery -------------------------------
(* The workloads of QueryService and DataHandlers for TLC: one group for each
   part of a query (fuzzy words, filters, pages, joins) and one for the
   requests on single entities. *)
EXTENDS DataHandlers

Str(s) == <<"str", s>>

Num(n) == <<"num", n>>

Entity(t, created, fields) ==
  [type |-> t, fields |-> ("_created_at" :> <<"time", created>>) @@ fields]

Filter(field, operator, value) ==
  [field |-> field, operator |-> operator, value |-> value]

Query(handler, filters, limit) ==
  [handler |-> handler, type |-> "order", filters |-> filters, orderBy |-> "",
   desc |-> FALSE, limit |-> limit, offset |-> 0, joins |-> <<>>, walk |-> FALSE]

Workload(start, inserts, updates, deletes, queries) ==
  [start |-> start, inserts |-> inserts, updates |-> updates,
   deletes |-> deletes, queries |-> queries]

Set(i, field, value) == [id |-> i, field |-> field, value |-> value]

(* Words of up to three letters a, A, b, and phrases of a, b and spaces. *)
Letters == BoundedSeq({97, 65, 98}, 3)

Phrases == {<<97, 97, 32, 98, 98>>, <<98, 98, 98, 32, 97, 97>>,
            <<97, 98, 32, 98, 97, 32, 97>>, <<32, 97>>, <<98, 97, 98, 98>>}

FuzzyWorkloads ==
  [w \in {"fuzzy"} \X (Letters \cup Phrases) |->
     Workload(1 :> Entity("order", 1, "name" :> Str(w[2])), <<>>, {}, {},
              {Query("query", {Filter("name", "fuzzy", Str(v))}, 0) :
                 v \in Letters \cup Phrases})]

(* A status that is indexed, a name and tags that are not; values of several
   kinds, null and missing among them. *)
Scalars == {Num(1), Num(2), Str(<<49>>), Str(<<97, 98>>), <<"bool", TRUE>>,
            <<"null">>}

Arrays == {<<"arr", <<>>>>, <<"arr", <<Num(1), Str(<<97, 98>>)>>>>,
           <<"arr", <<Str(<<49>>), Num(1)>>>>}

Operators == {"eq", "neq", "gt", "gte", "lt", "lte", "contains", "startswith",
              "endswith", "in", "array_contains", "array_contains_any",
              "array_contains_all", "like"}

FilterWorkloads ==
  LET start == (1 :> Entity("order", 1, "status" :> Num(1))
                  @@ 2 :> Entity("order", 2, "status" :> Num(2))
                  @@ 3 :> Entity("order", 3, "name" :> Num(1)))
      filters == {Filter(field, operator, v) :
                    field \in {"status", "name"}, operator \in Operators,
                    v \in Scalars \cup Arrays}
  IN [w \in {"filters"} \X (Scalars \cup Arrays) |->
        Workload([start EXCEPT ![1].fields.status = w[2],
                               ![2].fields = ("name" :> w[2]) @@ @],
                 <<>>, {}, {},
                 {Query(h, fs, 0) :
                    h \in {"query", "count"},
                    fs \in {{f} : f \in filters}
                       \cup {{f, Filter("status", "eq", w[2])} : f \in filters}})]

TimeWorkloads ==
  <<"times">> :>
    Workload(1 :> Entity("order", 1, <<>>) @@ 2 :> Entity("order", 2, <<>>),
             <<>>, {}, {},
             {Query(h, {Filter("_created_at", operator, v)}, 0) :
                h \in {"query", "count"}, operator \in {"gt", "gte", "lt", "lte"},
                v \in {<<"time", 1>>, <<"rfc3339", 1>>, Num(1)}}
              \cup {[Query("query", {}, 0) EXCEPT !.type = "none"],
                    [Query("count", {}, 0) EXCEPT !.type = "none"],
                    Query("query", {Filter("name", "fuzzy", Num(1))}, 0)})

(* Pages of one or two entities, while entities come, change and go. *)
PageWorkloads ==
  LET ranked(i, n) == Entity("order", i, "rank" :> Num(n))
      start == 1 :> ranked(1, 3) @@ 2 :> ranked(2, 1) @@ 3 :> ranked(3, 2)
      inserts == 4 :> [type |-> "order", fields |-> "rank" :> Num(4)]
                   @@ 5 :> [type |-> "order", fields |-> "rank" :> Num(0)]
      walk(filters, limit) == [Query("list", filters, limit) EXCEPT !.walk = TRUE]
      sorted(desc, limit) == [walk({}, limit) EXCEPT !.orderBy = "rank",
                                                     !.desc = desc]
      open == {Filter("rank", "gt", Num(1))}
  IN <<"pages">> :>
       Workload(start, inserts, {Set(2, "rank", Num(5)), Set(2, "rank", Num(2))},
                {1, 2}, {walk({}, 1), walk({}, 2), sorted(FALSE, 1), sorted(TRUE, 2),
                         [walk(open, 1) EXCEPT !.handler = "query"]})

(* Joins on the customer's ID and on a field of it, while customers come,
   change and go. *)
JoinWorkloads ==
  LET order(i, c) == Entity("order", i, "customer" :> c)
      customer(i, n) == Entity("customer", i, "code" :> n)
      start == 1 :> order(1, Num(3)) @@ 2 :> order(2, Str(<<52>>))
                 @@ 3 :> customer(3, Num(1)) @@ 4 :> customer(4, Num(3))
                 @@ 6 :> Entity("customer", 5, <<>>)
      inserts == 5 :> [type |-> "customer", fields |-> "code" :> Num(3)]
      join(local, foreign, inner, strategy) ==
        [type |-> "customer", local |-> local, foreign |-> foreign,
         inner |-> inner, strategy |-> strategy, result |-> "joined",
         include |-> {}, exclude |-> {}, filters |-> {}]
      ask(handler, joins) == [Query(handler, {}, 0) EXCEPT !.joins = joins]
      joins == {join(local, foreign, inner, strategy) :
                  local \in {"customer", "id"}, foreign \in {"id", "code"},
                  inner \in BOOLEAN, strategy \in {"first", "all"}}
      coded == [join("customer", "code", TRUE, "first") EXCEPT
                  !.filters = {Filter("code", "gte", Num(1))},
                  !.result = "coded", !.include = {"code"}]
      odd == {[coded EXCEPT !.type = "none"],
              [coded EXCEPT !.local = "joined", !.inner = FALSE],
              [coded EXCEPT !.local = "missing"]}
      queries ==
        [nested |-> {ask("nested", <<j>>) : j \in joins},
         two |-> {ask("query", <<join("customer", "id", TRUE, "first"), j>>) :
                    j \in odd \cup {coded}},
         walk |-> {[ask("query", <<coded>>) EXCEPT !.limit = 1, !.walk = TRUE]},
         count |-> {ask("count", <<j>>) : j \in odd \cup {coded}}]
  IN [w \in {"joins"} \X DOMAIN queries |->
        Workload(start, inserts,
                 {Set(3, "code", Num(3)), Set(1, "customer", Num(6))}, {3, 4},
                 queries[w[2]])]

(* Requests on single entities, with IDs written in every way, while entities
   come, change and go; the second workload has an entity 0. *)
DataWorkloads ==
  LET order(i, created) == Entity("order", created, "rank" :> Num(i))
      raws == [sign: {"", "+", "-"}, zeros: BOOLEAN, num: {1, 4}]
                \cup [sign: {"", "-"}, zeros: {FALSE}, num: {0, 3}]
                \cup [sign: {"x"}, zeros: {FALSE}, num: {1}]
      new(i) == [type |-> "order", fields |-> "rank" :> Num(i)]
      ask(handler, extra) == extra @@ Query(handler, {}, 0)
      requests == {ask("create", [id |-> 5, fields |-> "rank" :> Num(5)])}
                    \cup {ask(h, [raw |-> r]) : h \in {"get", "delete"}, r \in raws}
                    \cup {ask("update", [raw |-> r, fields |-> "rank" :> Num(9)]) :
                             r \in raws}
      start(first) == first :> order(first, 1) @@ 1 :> order(1, 2)
                        @@ 3 :> Entity("customer", 3, <<>>)
  IN [w \in {"data"} \X {0, 2} |->
        Workload(start(w[2]), 4 :> new(4), {Set(1, "rank", Num(7))}, {1, 4},
                 requests)]

IndexedFields == {<<"order", "status">>}

AllWorkloads ==
  FuzzyWorkloads @@ FilterWorkloads @@ TimeWorkloads @@ PageWorkloads
    @@ JoinWorkloads @@ DataWorkloads
=============================================================================
