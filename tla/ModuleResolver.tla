---------------------------- MODULE ModuleResolver ----------------------------
(* The modules of a package (ModuleResolver), the order they are            *)
(* initialized in, and the graph that says what a change concerns           *)
(* (DependencyGraph).  A module is named by its file.  The caller that      *)
(* parses a module and then what it imports is outside the repository: it   *)
(* does what the usage example of the header shows, depth first.            *)
EXTENDS Naturals, Sequences, FiniteSets, SequencesExt, TLC

CONSTANTS Files,       \* the files under the package root
          Root,        \* the file of the command line
          Projects     \* what the files may say: file -> sequence of <<alias, file>>

ASSUME ResolverAssumption ==
  /\ Root \in Files /\ IsFiniteSet(Files)
  /\ \A p \in Projects : /\ DOMAIN p = Files
                         /\ \A m \in Files : Len(p[m]) \in Nat /\ DOMAIN p[m] = 1 .. Len(p[m])

VARIABLES imports,         \* the project
          parsed,          \* parsedModules_
          resolvedImports, \* of each parsed module: alias -> file
          parsingStack,
          moduleOrderList,
          ordering,        \* how far computeTopologicalOrder is: not, kahn, done
          queue, indegree, \* its locals
          pending          \* graph[path], as far as the loop over it is not through

resolver == <<imports, parsed, resolvedImports, parsingStack, moduleOrderList,
              ordering, queue, indegree, pending>>

ResolverInit == /\ imports \in Projects
                /\ parsed = {} /\ resolvedImports = << >>
                /\ parsingStack = << >> /\ moduleOrderList = << >>
                /\ ordering = "not" /\ queue = << >> /\ indegree = << >> /\ pending = {}

isParsing(m) == m \in ToSet(parsingStack)
Targets(m) == {imports[m][i][2] : i \in DOMAIN imports[m]}

\* resolveImportPath: an import whose file does not exist is not valid.
resolveImportPath(path) == path \in Files

\* resolveAndStoreImports: an import is kept when its target is parsed by
\* now; of two with one alias, the later.
Kept(m, known) == {i \in DOMAIN imports[m] : resolveImportPath(imports[m][i][2]) /\ imports[m][i][2] \in known}
resolveAndStoreImports(m, known) ==
  [a \in {imports[m][i][1] : i \in Kept(m, known)} |->
     LET last == CHOOSE i \in Kept(m, known) :
                   /\ imports[m][i][1] = a
                   /\ \A j \in Kept(m, known) : imports[m][j][1] = a => j <= i
     IN  imports[m][last][2]]

\* ScopedParsingGuard, and the parse of a module or of one it imports.
pushParsing(m) ==
  /\ m \in Files \ parsed /\ ~isParsing(m)
  /\ IF parsingStack = << >> THEN m = Root ELSE m \in Targets(Last(parsingStack))
  /\ parsingStack' = Append(parsingStack, m)
  /\ UNCHANGED <<imports, parsed, resolvedImports, moduleOrderList, ordering, queue, indegree, pending>>

\* Every import of the module has been parsed, or is being parsed: a cycle.
cacheModule ==
  LET m == Last(parsingStack)
  IN  /\ parsingStack # << >>
      /\ \A t \in Targets(m) \cap Files : t \in parsed \/ isParsing(t)
      /\ parsed' = parsed \union {m}
      /\ resolvedImports' = [n \in parsed' |-> IF n = m THEN resolveAndStoreImports(m, parsed')
                                                       ELSE resolvedImports[n]]
      /\ parsingStack' = Front(parsingStack)
      /\ UNCHANGED <<imports, moduleOrderList, ordering, queue, indegree, pending>>

Parsed == parsed # {} /\ parsingStack = << >>

----------------------------------------------------------------------------
(* computeTopologicalOrder.  The hash maps are walked in an order nobody    *)
(* chose: the queue starts, the edges of a module are taken and what is     *)
(* left over is listed in any order.                                        *)

AliasesOf(n, m) == {a \in DOMAIN resolvedImports[n] : resolvedImports[n][a] = m}

\* buildDependencyGraph: an edge from m to n for every alias n gives it.
graph(m) == UNION {{n} \X AliasesOf(n, m) : n \in parsed}

getModulesInOrder ==
  /\ Parsed /\ moduleOrderList = << >> /\ ordering = "not"
  /\ ordering' = "kahn"
  /\ indegree' = [n \in parsed |-> Cardinality(DOMAIN resolvedImports[n])]
  /\ queue' \in SetToSeqs({n \in parsed : DOMAIN resolvedImports[n] = {}})
  /\ UNCHANGED <<imports, parsed, resolvedImports, parsingStack, moduleOrderList, pending>>

popQueue ==
  /\ ordering = "kahn" /\ pending = {} /\ queue # << >>
  /\ moduleOrderList' = Append(moduleOrderList, Head(queue))
  /\ queue' = Tail(queue)
  /\ pending' = graph(Head(queue))
  /\ UNCHANGED <<imports, parsed, resolvedImports, parsingStack, ordering, indegree>>

\* Mutant of visitDependent: a dependent is queued as soon as one of its
\* imports is out.
visitAtOnce(e) ==
  /\ ordering = "kahn"
  /\ pending' = pending \ {e}
  /\ indegree' = [indegree EXCEPT ![e[1]] = @ - 1]
  /\ queue' = Append(queue, e[1])
  /\ UNCHANGED <<imports, parsed, resolvedImports, parsingStack, moduleOrderList, ordering>>

visitDependent(e) ==
  /\ ordering = "kahn"
  /\ pending' = pending \ {e}
  /\ indegree' = [indegree EXCEPT ![e[1]] = @ - 1]
  /\ queue' = IF indegree[e[1]] = 1 THEN Append(queue, e[1]) ELSE queue
  /\ UNCHANGED <<imports, parsed, resolvedImports, parsingStack, moduleOrderList, ordering>>

\* What is on a cycle, or behind one, comes last.
placeCyclic ==
  /\ ordering = "kahn" /\ pending = {} /\ queue = << >>
  /\ \E rest \in SetToSeqs(parsed \ ToSet(moduleOrderList)) : moduleOrderList' = moduleOrderList \o rest
  /\ ordering' = "done" /\ indegree' = << >>
  /\ UNCHANGED <<imports, parsed, resolvedImports, parsingStack, queue, pending>>

computeTopologicalOrder == popQueue \/ (\E e \in pending : visitDependent(e)) \/ placeCyclic

----------------------------------------------------------------------------
(* DependencyGraph, built when the modules have been parsed.  *)

dependents(m) == {n \in parsed : AliasesOf(n, m) # {}}

\* The direct dependents only.
oneStep(m) == {m} \union dependents(m)

\* getAffected visits the least set that has m and the dependents of its own.
getAffected(m) ==
  {n \in parsed : \A S \in SUBSET parsed : m \in S /\ (\A k \in S : dependents(k) \subseteq S) => n \in S}

----------------------------------------------------------------------------
(* What the program text says, whatever the resolver made of it.  *)

\* m and all that import it, however indirectly.
Reach(m) ==
  {n \in Files : \A S \in SUBSET Files :
                   m \in S /\ (\A k \in Files : Targets(k) \cap S # {} => k \in S) => n \in S}
Importers(m) == Reach(m) \cap parsed
OnCycle(m) == \E t \in Targets(m) \cap Files : t \in Reach(m)
DistinctAliases(m) == \A i, j \in DOMAIN imports[m] : imports[m][i][1] = imports[m][j][1] => i = j
Plain == \A m \in parsed : ~OnCycle(m) /\ DistinctAliases(m)

\* No module that m imports, however indirectly, is on a cycle.
Settled(m) == \A n \in parsed : m \in Reach(n) => ~OnCycle(n)

(* Every module comes once, and after every module it imports unless one of *)
(* the modules behind it is on a cycle; of two imports with one alias the   *)
(* earlier is lost, and the only import that is (computeTopologicalOrder,   *)
(* for every order of the hash maps, and resolveAndStoreImports, for every  *)
(* order of the parses).                                                    *)
Before(m, n) == \E i, j \in DOMAIN moduleOrderList : i < j /\ moduleOrderList[i] = m /\ moduleOrderList[j] = n
Resolves(m, t) == AliasesOf(m, t) # {}
OrderRespectsImports ==
  ordering = "done" =>
    /\ ToSet(moduleOrderList) = parsed /\ Len(moduleOrderList) = Cardinality(parsed)
    /\ \A m \in parsed : Settled(m) =>
         \A t \in Targets(m) \cap Files : Resolves(m, t) \/ DistinctAliases(m) => Before(t, m)

(* What is told of a change is what the change concerns: the modules that   *)
(* import the file directly or not, in a project where no alias is declared *)
(* twice and no import closes a cycle (getAffected, build).                 *)
AffectedIsImporters == Parsed /\ Plain => \A m \in parsed : getAffected(m) = Importers(m)

ModulesSound == OrderRespectsImports /\ AffectedIsImporters
=============================================================================
