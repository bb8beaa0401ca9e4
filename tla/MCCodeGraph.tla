---------------------------- MODULE MCCodeGraph ----------------------------
(***************************************************************************)
(* A small instance of CodeGraph: two scopes, the first with two files     *)
(* that import each other's symbols, both with the package `lib`.          *)
(***************************************************************************)
EXTENDS CodeGraph, TLC

CONSTANTS w1, w2, s1, s2, p1, p2, f1, f2, run, help, lib, tick, mod

Symbol(n, calledNames, emitted) ==
    [name |-> n, calls |-> calledNames, routes |-> {}, jobs |-> {}, emits |-> emitted, consumes |-> {}]
Served(n, r, j) ==
    [name |-> n, calls |-> {}, routes |-> {r}, jobs |-> {j}, emits |-> {}, consumes |-> {}]

\* Imports `help` from the other file and `tick` from the package, calls both, emits and consumes an event.
Caller == [symbols |-> <<Symbol(run, {help, tick}, {tick})>>,
           imports |-> <<[spec |-> None, path |-> f2, names |-> <<help>>],
                         [spec |-> lib, path |-> None, names |-> <<tick>>]>>,
           routes |-> {}, jobs |-> {}, emits |-> {tick}, consumes |-> {tick}]
\* Defines `help` itself, which hides nothing, and serves a route and a job.
Server == [symbols |-> <<Symbol(run, {help}, {}), Served(help, tick, tick)>>,
           imports |-> <<>>, routes |-> {tick}, jobs |-> {tick}, emits |-> {}, consumes |-> {}]

MCContents == {Caller, Server}
MCRuns == {<<p1, f1, Caller>>, <<p1, f1, Server>>, <<p1, f2, Server>>, <<p2, f1, Caller>>}
MCScopeOf == p1 :> s1 @@ p2 :> s2
MCModuleOf == f1 :> mod @@ f2 :> None
MCSymmetry == Permutations({w1, w2})
\* A call between symbols of two files, and a dependency the indexer draws too.
MCLinks == {<<SymbolNode(p1, f1, run), "calls", SymbolNode(p1, f2, help)>>,
            <<FileNode(p1, f1), "depends_on", FileNode(p1, f2)>>}
=============================================================================
