------------------------------ MODULE MCQueries ------------------------------
(* Queries for TLC: two failures of a route, one without an error, and an   *)
(* operation, without method and code; tags with and without a dot.         *)
EXTENDS Queries

Plain == [key |-> "env", value |-> "a"]
Other == [key |-> "env", value |-> "b"]
Dotted == [key |-> "k8s.pod", value |-> "a"]

Kind(text, status, method, user, chain, tags) ==
  [text |-> text, status |-> status, method |-> method, remote_ip |-> "", route |-> "/r",
   user_id |-> user, error_chain |-> chain, tags |-> tags]

MCKinds == {Kind({"disk"}, 500, "GET", "", "disk full", {Plain}),
            Kind({}, 404, "GET", "u", "", {Other}),
            Kind({"disk"}, 0, "", "", "disk gone", {Plain, Dotted})}

Filter(q, range, code, method, tags) ==
  [q |-> q, status |-> [range |-> range, code |-> code], method |-> method, tags |-> tags]

Everything == Filter({}, "", 0, "", {})
Failures   == Filter({"disk"}, "5xx", 0, "", {})
Tagged     == Filter({}, "", 0, "", {Plain})

List(f, sort, dir, perPage, page) ==
  [f |-> f, sort |-> sort, dir |-> dir, perPage |-> perPage, page |-> page]

MCLists == {List(Everything, "created_at", "desc", 1, 1), List(Everything, "status", "asc", 1, 0),
            List(Everything, "created_at", "asc", 0, 1), List(Failures, "created_at", "asc", 1, 1),
            List(Tagged, "status", "desc", 1, 1)}

MCFilters == {Failures, Filter({}, "", 0, "GET", {Plain})}

MCAggregates == {[col |-> "status", since |-> None, least |-> 2],
                 [col |-> "route", since |-> 1, least |-> 0]}
==============================================================================
