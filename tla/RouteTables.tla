---------------------------- MODULE RouteTables ----------------------------
(***************************************************************************)
(* The routes of one service are declared in several places that only a    *)
(* script compares: the router of the application, the Terraform of the    *)
(* service, and a serverless.yml. Declarations are edited and the script   *)
(* is run; what it passes is what may be deployed, and there a request     *)
(* meets a gateway built from one declaration and an application built     *)
(* from another.                                                           *)
(***************************************************************************)
EXTENDS Integers, Sequences, FiniteSets

CONSTANTS
  Prefixes,  \* first segments of paths
  Universe,  \* the routes anyone may declare, with a parameter as ":id"
  Ours,      \* the routes of the service today
  Home       \* its prefix today

VARIABLES
  declared,  \* what the repository says: see Tables
  verdict    \* of the script on `declared`: "none" when it has not run since

vars == <<declared, verdict>>

Route(verb, path) == [verb |-> verb, path |-> path]
Health == Route("GET", <<"health">>)

\* toApiGatewayPath: the two notations of one parameter.
toApiGatewayPath(path) == [i \in DOMAIN path |-> IF path[i] = ":id" THEN "{id}" ELSE path[i]]
InGateway(r) == Route(r.verb, toApiGatewayPath(r.path))

\* serverless.yml: the prefix itself and everything under it.
Greedy(p) == {<<p>>, <<p, "{proxy+}">>}
Events == UNION {Greedy(p) : p \in Prefixes}

Tables == [
  handled  : SUBSET Universe,            \* app.route(...) in the router
  listed   : SUBSET Universe,            \* ROUTES
  prefix   : Prefixes,                   \* ROUTE_PREFIX
  tf       : SUBSET {InGateway(r) : r \in Universe \cup {Health}},
  tfPrefix : Prefixes,                   \* route_prefix
  sls      : SUBSET Events]              \* serverless.yml

Init ==
  /\ declared = [handled |-> Ours, listed |-> Ours, prefix |-> Home,
                 tf |-> {InGateway(r) : r \in Ours \cup {Health}}, tfPrefix |-> Home,
                 sls |-> Greedy(Home)]
  /\ verdict = "none"
-----------------------------------------------------------------------------
\* readServerlessPrefixes: the first segment of every path.
readServerlessPrefixes(d) == {path[1] : path \in d.sls}

fromRouter(d) == {InGateway(r) : r \in d.listed} \cup {InGateway(Health)}

\* Mutant: only what the router lacks is looked for.
RouteDivergences_OneWay(d) == {<<"router", r>> : r \in d.tf \ fromRouter(d)}

\* Mutant: only what Terraform lacks is looked for.
RouteDivergences_OtherWay(d) == {<<"terraform", r>> : r \in fromRouter(d) \ d.tf}

RouteDivergences(d) ==
  {<<"terraform", r>> : r \in fromRouter(d) \ d.tf} \cup {<<"router", r>> : r \in d.tf \ fromRouter(d)}

\* main: with no prefix or with several, the service is not looked at further.
Divergences(d) ==
  LET prefixes == readServerlessPrefixes(d) IN
  IF Cardinality(prefixes) # 1 THEN {<<"prefixes", prefixes>>}
  ELSE {<<"prefix", p>> : p \in prefixes \ {d.prefix}} \cup RouteDivergences(d)

CheckRoutes ==
  /\ verdict' = IF Divergences(declared) = {} THEN "green" ELSE "red"
  /\ UNCHANGED declared

Becomes(d) == declared' = d /\ verdict' = "none"

Toggle(x, S) == IF x \in S THEN S \ {x} ELSE S \cup {x}

\* A route comes or goes in the router, with its line in ROUTES or without it.
EditRouter(r) == Becomes([declared EXCEPT !.handled = Toggle(r, @), !.listed = Toggle(r, @)])
EditHandler(r) == Becomes([declared EXCEPT !.handled = Toggle(r, @)])

EditTerraform(r) == Becomes([declared EXCEPT !.tf = Toggle(InGateway(r), @)])

\* A prefix changes in the router; an http event comes or goes in serverless.yml.
EditPrefix(p) == Becomes([declared EXCEPT !.prefix = p])
EditServerless(e) == Becomes([declared EXCEPT !.sls = Toggle(e, @)])

Next ==
  \/ CheckRoutes
  \/ \E r \in Universe : EditRouter(r) \/ EditHandler(r)
  \/ \E r \in Universe \cup {Health} : EditTerraform(r)
  \/ \E p \in Prefixes : EditPrefix(p)
  \/ \E e \in Events : EditServerless(e)

Spec == Init /\ [][Next]_vars
-----------------------------------------------------------------------------
IsParam(seg) == seg \in {":id", "{id}"}
Matches(path, at) ==
  Len(path) = Len(at) /\ \A i \in DOMAIN path : IsParam(path[i]) \/ path[i] = at[i]

\* Of the paths that match, the one that is literal where the others have a
\* parameter: both routers prefer it.
AsLiteral(p, q) == \A i \in DOMAIN p : IsParam(p[i]) => IsParam(q[i])
MostLiteral(paths) == CHOOSE p \in paths : \A q \in paths : AsLiteral(p, q)

NotFound == <<"404">>   \* the application has no such route
Denied == <<"403">>     \* API Gateway has no such method

\* The application, one service or all of them together: a path per verb.
Served(d, verb, p, at) ==
  LET paths == {r.path : r \in {x \in d.handled \cup {Health} : x.verb = verb /\ Matches(x.path, at)}} IN
  IF p # d.prefix \/ paths = {} THEN NotFound ELSE MostLiteral(paths)

\* API Gateway under Terraform: a resource per path first, then its verbs.
ByTerraform(d, verb, p, at) ==
  LET paths == {r.path : r \in {x \in d.tf : Matches(x.path, at)}} IN
  IF p # d.tfPrefix \/ paths = {} \/ Route(verb, MostLiteral(paths)) \notin d.tf
  THEN Denied ELSE Served(d, verb, p, at)

\* What clients ask for: the routes, with an id where the parameter is. An id is
\* a uuid, so it is never the word of another route.
Asked == {<<r.verb, [i \in DOMAIN r.path |-> IF IsParam(r.path[i]) THEN "42" ELSE r.path[i]]>> :
            r \in Universe \cup {Health}}
-----------------------------------------------------------------------------
TypeOK ==
  /\ declared \in Tables
  /\ verdict \in {"none", "green", "red"}

Passed == verdict = "green"

\* The script reads ROUTES and takes both prefixes to be one.
AsRead(d) == d.handled = d.listed /\ d.prefix = d.tfPrefix

\* What the script passes, when ROUTES is what the router registers, answers
\* through the gateway as it does in development: no route of the application is
\* a 403, and none is taken by another route.
DeployedRoutesAreServed ==
  Passed /\ AsRead(declared) =>
    \A p \in Prefixes, a \in Asked :
      LET served == Served(declared, a[1], p, a[2])
      IN  served # NotFound => ByTerraform(declared, a[1], p, a[2]) = served

\* The gateway refuses what the application does not have, without an
\* invocation (variables.tf of route-module).
NoWastedInvocation ==
  Passed /\ AsRead(declared) =>
    \A p \in Prefixes, a \in Asked : ByTerraform(declared, a[1], p, a[2]) # NotFound

\* After any edits, tables that pass serve what the application serves, and no more.
PassedTablesAgree == DeployedRoutesAreServed /\ NoWastedInvocation
=============================================================================
